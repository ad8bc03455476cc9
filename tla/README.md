# Aichestra: a verification development

Aichestra (`src/`) is a control plane for AI coding work. Users create tasks,
the API starts workflows that make a branch, run an agent, dry-run the merge and
open a draft pull request, and a conflict manager decides which branches may
enter the merge queue together. Around that core sit an LLM gateway with a
protocol for agents on users' machines, a versioned registry of skills and
instructions with a governed improvement loop, security controls, an MCP
gateway, a policy engine, a runner that executes commands, and a webhook receiver.

The process is a single Node.js event loop with an in-memory store; only the
registry is saved to a file. Code between
two `await`s cannot be interrupted, but every awaited provider call lets other
requests in. Almost everything that is hard here comes from that: state read
before an `await` and used after it, and operations of different endpoints in an
order nobody wrote a test for.

## 1. Inventory

| component | state | operations | hard behaviour | correct when |
|---|---|---|---|---|
| Task status machine (`core/domain/status.ts`) | `Task.status` | `transitionTask`, through the API and the workflow | it is also the workflow's only lock | only listed transitions; no two workflow runs of a task |
| Conflict scoring (`core/conflicts/scoring.ts`) | none | pair risk, simulation evidence, thresholds, queue decision | four thresholds, six scores and three contributions interact | symmetric; blocks exactly on conflict or shared code |
| Conflict manager and merge queue (`db/repository.ts`) | leases, simulations, queue entries, task risk | lease, simulate, enqueue, refresh, settle, sync files | only the entries of the touched lease are refreshed; partial failure in `recordMergeSimulation`; equal timestamps | overlapping branches never both ready; entries show the latest dry run; settled entries frozen; leases released exactly on settlement |
| Task workflow (`apps/worker`) | tasks, task runs, and the locals of each request | eight segments between awaits | check-then-act across awaits; cancellation; rejected calls | one workflow run at a time; runs queued and closed |
| HTTP API (`apps/api`) | none of its own | one handler per endpoint | interleaves with workflows | handlers keep the store's invariants |
| Local agent protocol (`llm-gateway/local-agent-protocol.ts`) | registrations, sessions, channels, handshakes, consents, invocations, streams | register, heartbeat, revoke, handshake, consent, dispatch, events, complete, cancel, time out, disconnect | dispatch and cancel write back a copy read before an await | nothing runs without consent, session and channel; streams end |
| Enterprise providers (`llm-gateway/enterprise-providers.ts`) | none; acts on the protocol | `invoke`, new or resumed | completes an invocation after an await, beside every other caller | what it answers as completed was approved and has ended |
| LLM gateway (`llm-gateway/gateway.ts`) | routes, models, keys, fallback policies, usage | create, patch, route, complete, fall back | the catalog changes while a provider is awaited | no call past its gates; one usage record per answer |
| Registry (`registry`) | versioned entries, approvals, evaluations, audit log, revisions, manifests | create, patch, evaluate, verify, roll back, export, import, resolve | several saves per call, with a stop of the process in between; callers choose identifiers and artifacts, which nothing compares | history covers the entries; rollback restores the gates; an import that is recorded was applied; queue and resolver agree |
| Improvement and governance (`improvement`) | signals, clusters, analyses, candidates, proposals, drafts, decisions, evaluations | cluster, generate, decide, evaluate, readiness, apply gate | statuses written past the transition table; equal timestamps | a rejection or a failed evaluation blocks |
| Git adapter service and webhooks (`git-adapter`) | branches, pull requests, deliveries, synchronised states | create, receive, sync, refresh | late, repeated, reordered and forged deliveries; state written before a policy refuses | what is known of a pull request is what the last genuine delivery said |
| Policy engine (`policy`) | none | `evaluate` over 121 rules | unreported facts, equal priorities | fails closed |
| Authentication and RBAC, MCP gateway (`auth`, `mcp-gateway`) | catalogs, recorded results | resolve, authorize, invoke a tool | gates in sequence, written twice | nothing past a closed gate |
| Security controls (`security`) | secret references, leases, sandbox sessions | create, resolve, revoke, start, complete | the caller's claims are merged into the facts of the policies | no credential past its gates |
| Runner (`agent-runner`) | runs, command results | run, execute, order a command | a command throws or times out in the middle of a run | every run recorded once, with its own results, in a session that ends with it |
| Observability, storage in SQL, deployment readiness, web, schemas | records, projections and I/O | | | not modelled |

How they interact: the API calls every service directly. The workflow calls the
git provider, the runner, the simulator and the policy engine, and reads and
writes the shared store. Webhooks and the git service write leases, simulations
and queue entries that workflows are using. Enterprise providers dispatch to
local agents through the protocol; the runner asks the LLM gateway and opens
sandbox sessions; every gate asks the policy engine.

## 2. Plan

1. `TaskStatus`, `ConflictScoring`, `ConflictManager`, `TaskWorkflow`: the core.
   **Done**, with two refinements: the composed workflow implements
   `ConflictManager`, which implements the abstract `MergeGate`.
2. `LocalAgentProtocol`, and `EnterpriseProviders` on top of it. **Done.**
3. `Registry` with process stops, `RegistryResolver`, `Improvement`. **Done.**
4. `GitGates` and `GitIntegration`: an unreliable host. **Done.**
5. `Policy`, `Authorization`, `McpGateway`, `LlmGateway`, `SecurityControls`,
   `AgentRunner`. **Done.**
6. Theorems. **Done** for the conflict manager and its refinement of
   `MergeGate`, the workflow and its refinement of the conflict manager, the
   local agent protocol with its providers, the registry, the improvement loop,
   the runner, the LLM gateway, the synchronisation with the git host, and the
   five algorithms.

## 3. Modules

| module | models |
|---|---|
| `TaskStatus` | the statuses and the transition table |
| `ConflictScoring` | file categories, pair scores, simulation evidence, levels, queue decision |
| `ConflictManager` | leases, simulations and queue entries, one action per caller of the store |
| `MergeGate` | abstract: which branches are at work, which overlap, which may be merged |
| `TaskWorkflow` | `EXTENDS ConflictManager`: requests in flight, one action per segment between awaits |
| `LocalAgentProtocol` | agents, sessions, channels, consent and invocations of `LocalAgentProtocolService` |
| `EnterpriseProviders` | `EXTENDS LocalAgentProtocol`: `ProviderAbstractionService.invoke` |
| `Registry` | `RegistryService` over its file, each call the sequence of its saves |
| `RegistryResolver` | `resolveRegistryContextForTask` with versions, ranges and dependencies |
| `Policy` | the engine and the 121 default rules |
| `Improvement` | `EXTENDS Policy`: clusters, engine, governance, readiness and apply gate |
| `GitGates` | `EXTENDS Policy`: configuration, gates, provider guards, signatures |
| `GitIntegration` | `EXTENDS GitGates`: service, receiver and synchronisation, with the host |
| `Authorization`, `McpGateway` | roles, bindings and scopes; the gates of a tool call |
| `LlmGateway` | `EXTENDS Authorization`: routing, completion, fallback, usage |
| `SecurityControls` | `EXTENDS Authorization`: references, leases, sandbox sessions |
| `AgentRunner` | `EXTENDS SecurityControls`: runs, commands and orders |
| `Algorithms` | `EXTENDS ConflictScoring, RegistryResolver, GitGates, McpGateway`: what these compute on one input |
| `TaskWorkflowProofs` | the theorems about scores, store and queue; about the workflow, and that it refines the store |
| `ProviderProofs` | the theorems about `LocalAgentProtocol` and `EnterpriseProviders` composed |
| `AlgorithmsProofs` | the theorems about scores, policies, resolution, git gates and tool calls |
| `RegistryProofs`, `ImprovementProofs`, `AgentRunnerProofs`, `LlmGatewayProofs`, `GitIntegrationProofs` | the theorems about these modules |
| `MC*` | small instances for TLC |

**State.** `branchLeases`, `mergeSimulations`, `mergeQueueEntries` and
`taskRuns` are the store's arrays; the position of a record is its id.
Simulations also carry the random id that breaks ties between equal timestamps,
since the sort in `listMergeSimulations` reads it. `requests` holds the local
variables of each handler in flight, with a `pc` that names the awaited call.
`clock` is the millisecond clock that stamps simulations. Scores are in
hundredths. Files are model values, and the path patterns of
`classifyConflictFile` are sets of files that may overlap, tested in the code's
order.

**Actions.** A synchronous handler is one action. An asynchronous handler is one
action per segment: the guard is what the code checks after the `await`, the
assignments are everything up to the next one. `transitionTask` throws on an
illegal transition; since there is no `catch`, the throw ends the request and
keeps what was written before it, and each action says what that is
(`TestsFail`, `QueuePullRequest`, `SimulationReturns`). `RecordMergeSimulation`
keeps the partial effect of the exception for an unknown task.

**The merge gate.** `MergeGate` knows neither files, scores, dry runs nor queue
entries. `ConflictManager` maps a lease to a branch, a pair of active leases that
shares code to an overlap, and a lease with a ready entry to a branch that may be
merged. A branch is let through only in a step that judges it and only when it
overlaps nothing at work.

**The local agent protocol.** `dispatchInvocation` and `cancelInvocation` are the
only methods that await. Each is two actions with an entry of `calls` between
them; what happens after the `await` is applied to the invocation whatever its
state then is, because the code saves the copy it read before. The mock transport
settles within the same turn of the event loop; the model is for any
`LocalAgentTransport`, which is an interface. A channel is merged with its one
handshake, whose response status nothing reads. An envelope is reduced to what
the gates look at: its agent, level, redaction policy and channel; `admissible`
stands for signature, secret scopes, sandbox profile and compatibility result
together. Decisions of one millisecond are ordered by random ids, which
`RecordConsentDecision` leaves open. `connectChannel` is `CreateChannel` followed
by `VerifyHandshake`. The default policy rules allow every other operation of the
protocol to the `system` role it acts in, so only `local_agent.invoke` shows in a
guard. Stream events, audit records and time stamps nobody compares are left out.
`EnterpriseProviders` adds the callers that create or resume an invocation,
await its dispatch and complete it: a call of kind `invoke` waits for the
transport, one of kind `complete` for its continuation. The policy of each kind
of provider is evaluated with the rules of `Policy`.

**The registry.** A call is synchronous but saves the whole file after the entry,
after the audit record and after the revision. `Call` takes the sequence of these
stores: the service reaches the last, a process that stops restarts from any of
them, and `torn` remembers which entries a stop left without the revision of their
last change (`CutShort`: a write changed the entry and no later write of what was
saved revised it). Entries keep the fields the gates read; name and version are one
field, `ref`, which an import or a rollback may change. Identifiers are not unique:
a POST stores the caller's, used or not, a look-up finds the first entry that has
it, and all entries with one identifier share a history. An import finds the entry
to check by the item's name and version, writes to the first one with that entry's
identifier, and takes everything else from the artifact: another identity, a mode
of no known name and gates of any value go through, and an artifact that cannot be
created throws and leaves the entries before it behind (`ImportEntry`).

**Improvement.** The engine's candidates have the kind of target that follows from
the class of their cluster; one made by hand has whatever kind its caller says, and
a proposal takes over that of its candidate.

**Policy.** Each of the 121 rules is one record with action, kind of resource,
effect, priority and conditions; the rules are a union of groups, since the engine
sorts them itself. `Improvement`, `GitGates`, `Authorization` and
through it the gateways and the runner call `Allowed` on the request the code
builds, so a gate in those modules is the code's gate and not a Boolean input.

**Git.** `hub` is the host with what it has sent; deliveries arrive in any order,
again, or never, and forged ones are in the alphabet too. `PostRefreshChangedFiles`
is two actions around its await. `GitGates` holds the gates of the service, the
policies and the guards of the providers as three separate definitions, as in
the code.

**Gateways and runner.** `LlmGateway` splits a completion at its awaits into
first call, fallback and end, while `PostRoute`, `PatchModel`, `PatchVirtualKey`
and the like come in between. `AgentRunner` follows a run through preparation,
the model's answer and its commands, one action each, beside `PostCommand` and
every operation of `SecurityControls`. What a command or a path looks like is a
record of what the code tests of it.

**Composition.** `TaskWorkflow` extends `ConflictManager` and calls its store
operations from inside its own actions; `RefinesConflictManager` states that the
composed system implements `CMSpec`, so what is proved of `CMSpec` holds of the
leases and the queue under concurrent workflows. `EnterpriseProviders` acts on
the protocol's variables next to `Next` of the protocol, `AgentRunner` on the
sessions of `SecurityControls`.

**External code.** A provider call is its possible results: a set of changed
files, a verdict, a simulation status, or a rejection (`ProviderThrows`).

## 4. Runs

| run | bounds | shows |
|---|---|---|
| `queue` | 2 leases, 2 entries, 2 simulations, 2 milliseconds, 2 tasks and 1 unknown | release exactly on settlement, entries follow the latest simulation, ties included, settled entries frozen; the store implements `MergeGate` |
| `task_races` | 3 requests, 2 tasks (1 denied, 1 to be reviewed), 2 runs | one workflow run per task; every run is closed |
| `task_manual` | 2 requests, 1 task, 3 runs, statuses written by hand, rejections | no run after cancellation |
| `task_api` | 1 request, 2 leases, 2 entries, 1 simulation, 2 milliseconds | the composed system implements the conflict manager; a succeeded run has its own entry and lease; completion only when clear |
| `providers` | 1 fixture agent, 1 invocation of three kinds, 2 transport calls, 1 channel, 2 sessions, 2 consent requests with 2 decisions each | one active session per connected agent; what ran was approved and, where required, had a verified channel; ended invocations have no open stream; what a provider answers is true; finished states change only through calls in flight and further decisions |
| `registry` | 1 seeded skill, 3 bodies that are posted, one with the seed's identifier and one with it for another kind, 2 foreign packages (artifacts unlike their entries; one that cannot be created), 3 import modes, 3 audit records, 1 manifest before an export, 1 stop | history, rollback, manifests, queue against gates |
| `improvement` | 1 class, 2 signals, 7 calls, a candidate and a proposal by hand of any kind, 2 decisions, 2 evaluations, 2 actors | proposals keep their cluster, rejections and failed evaluations block |
| `git` | 2 repositories, 1 push and 1 pull each, 2 deliveries received and 1 rejected, 2 calls | synchronised state is that of the last genuine delivery and names its own pull request |
| `gateway` | 2 requests of four kinds, 4 configurations, 3 changes of the catalog | every call passes the gates as they are when it is made; one usage record per answer; at most two routes, none twice |
| `execution` | 2 runs of seven kinds, 3 operations, 4 configurations | commands confined, sessions end with their runs, results match, credentials gated twice, with claims that do not replace facts, every run recorded |
| `algorithms` | all pairs of sets of 5 files; requests built from every rule with 2 deviations; registries of up to 7 entries; every git environment; tools with 2 deviations | scoring, policy, resolution, git gates and tool calls against their reference |
| `commands_need_enabled_runner` | | the disagreement of section 7 that a run reproduces |

Two leases, two entries and two simulations are the least that makes an overlap,
an unrefreshed rival and a reordering of evidence possible; an invariant about
the queue relates at most two leases and one entry of each. `queue` uses one set
of files for every lease and lets syncs add the other file; the theorems cover
all of them. Two requests make a race and a third lets a stale one return after
the race is decided. In the protocol, two calls on one invocation are a dispatch
and a cancellation, or two providers, that cross; lifetimes of one tick make
every expiry reachable, a second request is one after the first expired, and a
second decision one that comes after the invocation ran. Two deliveries are a repetition or a reordering, and with
a refresh in flight the overwriting that `SyncMatchesEvent` excludes. Three
changes of the catalog are enough to disable what the first call used and to
create what the fallback would take. The bounds (`Max*`) are guards of the
actions that would exceed them. Deadlock checking is off because these bounds
exhaust the system, which in reality goes on.

`providers` and `improvement` use a VIEW that drops what no action and no property
reads: how a session that is over ended, decisions before the last one except that
one approved, and what the improvement API stored for display.

`algorithms` walks over inputs: its steps change one file, fact, entry, variable
or flag, so that a state is an input and the invariants compare the modelled
function with a statement of what it should compute. What a caller may pass is
`InputOK` of `Algorithms`, the one hypothesis of the theorems about them: a registry
is finite, its versions are semantic and its dependencies have one of the three
kinds; flags of an environment or a tool are Booleans; a request has its fields.
The inputs of the run are among these.

**Fairness.** `FairSpec` of `TaskWorkflow` is weak fairness of `WorkflowStep(q)`
for each request: the event loop runs every resolved continuation. It assumes
that awaited calls settle; the runners and providers have timeouts of their own.
`RunsClose` is checked where no call rejects, because a rejected one leaves its
run open (section 7). `Fairness` of `AgentRunner` is weak fairness of
`RunnerStep(n)`: the model answers or fails, and a command ends or reaches its
time limit. The other specifications state safety only.

## 5. Proofs

Every theorem below is for all values of the constants that satisfy the named
assumptions of its modules: any number of tasks, requests, agents, commands,
routes or signals, and bounds (`Max*`) of any size. The assumptions say that
bounds are naturals and that inputs have the shape the code's types give them.
Those that say more: `Files` is finite; `MaxRuns` of the workflow is not zero;
`RunnerAssumption` lets the words recorded of a command be only those the two deny
rules look for, which is how the record is made; `LlmAssumption` asks that the
priorities of the routes that may be created have a least one, which any finite
set of routes has, and that the configured number of fallbacks is a natural, as
`parseNonNegativeInt` returns it.

**Scoring** (`TaskWorkflowProofs`). `BlockingRule`, which `algorithms` checks
as `BlockedExactlyWhen`, goes through `PairRiskThreshold` (a pair scores at least
50 exactly when it shares code), `CombinedRisk` and `DecisionStatus`.
`RiskIsSymmetric` rests on `SameDirectorySymmetric`.

**Store and queue** (`TaskWorkflowProofs`).

- `TypeCorrect`: `CMSpec => []CMTypeOK`. The invariant says more than types:
  simulations and entries name leases that exist, which every other proof needs
  to look a lease up.
- `ReleasedExactlyWhenSettled`. Inductive together with `CMTypeOK`; the step that
  matters is that a refresh leaves settled entries alone (`RefreshEffect`).
- `SettledEntriesStayFrozen`, an action property from the same lemma.
- `OverlapIsSerialized`. Entries of the *other* branch are never refreshed, so
  the argument is that whichever lease or file arrived second was scored against
  the first; `HighestRisk` and the threshold lemma turn the pair's score into the
  decision.
- `QueueAlwaysTracksSimulations`. `LatestExists` gives the latest simulation
  under the order of timestamps and ids.
- `RiskViewsAlwaysAgree`. The risks of a run computed from the repository's pairs
  are those computed from its lease; pairs are symmetric.
- `StoreImplementsGate`: `CMSpec => Gate!GateSpec`. Every operation of the store
  is matched with the one step of the gate it stands for; a refresh judges one
  branch, and what it lets through overlaps nothing that is at work.

**Workflow** (`TaskWorkflowProofs`). `RequestInv` says what the local variables of
a handler mean at each `await`: the run it remembers is its own, still running and
shared with no other request (`RunsApart`), the lease it remembers was created for
that run. It is inductive although every other request moves in between, because
only the request that holds a run ends it.

- `WorkflowTypeCorrect`, and `WorkflowRefinesStore`: each segment of a request is
  one operation of the store or leaves it alone. What is proved of the store thereby
  holds under concurrent workflows; `WorkflowSerializesOverlap` draws one such
  consequence.
- `SucceededRunsAlwaysQueued`, with `EntriesInv`: no two runs name one entry.
- `WorkflowRunsAlwaysExclusive`, under the hypothesis that no status is written by
  hand (`"manual" \notin Events`; with it the property is false, and the run
  `task_races`, which checks it, leaves it out too). `ActiveHeld` is the
  strengthening: while a workflow run is active its task is `running`, `testing` or
  `cancelled`, and from these no transition leads back to `planned` or
  `branch_created`.
- `NeverRunAfterCancel` and `AlwaysCompletedWhenClear` are action properties over
  `RequestInv`.

**Protocol and providers** (`ProviderProofs`). `ProviderInv` joins the types, the
sessions, the streams and two facts about evidence: whatever runs, *or may be saved
as running by a call in flight*, had an approved consent and a verified channel when
it was sent (`SentBeforeUse`), and what a provider has answered is backed the same
way (`AnswersBacked`). The clause about calls in flight is what makes it inductive:
a dispatch that returns late writes `running` over any state. Evidence persists because decisions are
only appended and an answered handshake never becomes unanswered. From it follow
`ProtocolTypeCorrect`, `SessionsAlwaysFollowAgents`, `RunsAlwaysApproved`,
`RunsAlwaysHadChannel`, `StreamsAlwaysEnd`, `ResultsAlwaysTrue` and the action
property `FinishedStatesAlwaysHold`, all of the composed `ProviderSpec`.

**Registry** (`RegistryProofs`, from `RegistryAssumption`: the seeds are entries,
patches change gates, and what is posted and packaged is any record whose identifier,
if it has one, is a possible one; nothing is assumed of its other fields, nor that
identifiers differ or that artifacts are what manifests list). The invariant is `TypeOK` with the three
invariants themselves: a rollback is typed because the revision it goes back to holds
a whole entry, and it restores the gates because that revision does not change. Where
entries share an identifier, `Covered` asks that the latest revision is one of them as
it is: a creation revises the new one, every other write the first. None
of it is visible in the last store of a call alone, since a stop may leave any of
them. So the proofs are about sequences of writes: every write leaves an entry alone,
or changes it, or covers it by a revision (`Step`), a call that ends has covered what
it changed (`Done`), and `AfterEveryWrite` carries the invariant through the writes of
a call, by taking the first store that would break it. There is one lemma for each
call (`UpdateWrites`, `CreateWrites`, `ChecksumCall`, `RollbackCall`,
`AttachEvalCall`, `ExportCall`, `ImportCall`), and `CallKeepsInvariant` draws the
conclusion for all. An import appends the writes of its entries one after the other;
`ImportEntriesSteps` shows that its recursive function exists and is computed step by
step, so `ImportsAlwaysApplied` holds for manifests of any length: what each artifact
says is in the history of an entry, whether it is what the manifest lists or not. The others are
`RegistryTypeCorrect`, `HistoryAlwaysCovers`, `RollbackAlwaysRestores`, and
`QueueAlwaysAgrees`, which follows from `TypeOK`.

**Improvement** (`ImprovementProofs`). `ImprovementInv` has the type
(`RepositoryTypeCorrect`), what belongs together (`KeyedAlike`, `Derived`),
`VerdictCloses` (a proposal rejected or archived last has that status, so no step
may leave it) and `RunsFit` (an evaluation belongs to a requirement of the
proposal's kind). `ClustersAlwaysKeepProposals` is inductive with these;
`RejectionAlwaysBlocks` follows from `VerdictCloses` whatever order
`latestDecisionForProposal` gives to equal timestamps, `FailedEvalAlwaysBlocks`
from `RunsFit`.

**Runner** (`AgentRunnerProofs`). `RunnerInv` describes a run in flight
(`ActiveOK`: what its session, results and phase are) and a recorded one
(`RecordOK`), and that sessions are not shared (`SessionsApart`). The policy part of
`CommandsAlwaysConfined` is a fact about the 121 rules: `PolicyWords` shows that a
request with one of the words of the deny rules is never allowed, since those rules
match, rules of other groups are about other actions (`RulesOnCommands`), and a
decision allows only if no matching deny rule comes first. The other theorems are
`RunnerTypeCorrect`, `SessionsAlwaysFollowRuns` and `RunsAlwaysMatchResults`.
The security service's action property `CredentialsAlwaysGated` is proved here too,
for any references, environments and requests, since the runner's steps interleave
with it: `LeasesTyped` is inductive, every step leaves the leases alone or does one
of three things to them (`LeaseStep`), a request for a lease is always denied
because the one rule that would allow it asks for a fact no request reports
(`RequestsAreDenied`, over all rules), and of the catalog's roles only two hold the
permission to resolve (`ResolversInCatalog`). The policies themselves are not needed
for it: the guards of the code that come before and after them carry the property.
What the policies contribute by themselves is `ClaimsNeverOpen`: the facts are in the
request whatever is claimed (`FactsAreSeen`), and every rule that allows a lease or a
credential asks for them (`RulesOnLeases`, `CredentialRules`).

**LLM gateway** (`LlmGatewayProofs`). `GatewayInv` keeps for every call which of
three shapes its attempts and routing decisions have (one attempt, one and a refused
second, two different ones) according to its phase (`CallOK`), and for usage records
that they belong to answered calls one to one (`UsageOK`). `FirstExists` shows that
the order by priority and id has a first candidate, so a selected route is one of the
candidates and not the excluded one. `UsageAlwaysExact`, `FallbackAlwaysBounded` and
the action property `CallsAlwaysGated` follow; for the last, `PassedGates` reads off
what a route has passed when it is selected, in the catalog as it is at that moment.

**Git** (`GitIntegrationProofs`, from `GitAssumption`). `GitInv` has the types of
host, store and calls; that pull requests are numbered from one in every repository
(`Numbered`), so a number the host gives out is new; that a pull request of the host
has *one record, or one call in flight that will make it* (`RecordedOnce`), which is
what keeps late answers from recording it twice; that a pull request an event has
synchronised is known and says what the last such event said (`SyncedOK`); that every
synchronised state comes from a processed event the host sent (`SourcesOK`); and that
mappings and queue entries name the record made for the pull request (`MappedOK`,
`QueuedOK`). Two facts carry the proof. A delivery is only kept, or it is applied as a
whole and was signed (`DeliveryAdmitted`); no delivery is applied half way because the
one rule about `git.branch.sync` admits whatever repository the receiver let in
(`AllowedBranchesSync`, over all 121 rules). And an answer about files, or a
synchronisation by hand, writes over the state it finds then, not the one it saw when
it was asked for (`ResyncSafe`). `SyncFollowsDeliveries`, `OnlyGenuineDeliveriesSync`
and `PullsAreMapped` follow from `GitInvariant`. TLC checked `GitInv` itself on the
instance of the run `git` before it was proved.

**Algorithms** (`AlgorithmsProofs`, from `InputOK`). The four theorems beside
`BlockedAlwaysExactlyWhen` are for all requests, registries, environments and tools.

- `PolicyAlwaysFailsClosed`. That less information never helps is not true of any
  table of prioritised rules; it is true of this one because every allowing rule is
  `Settled` with every other rule about its action: no request meets both, or the
  allowing one has the higher priority and the other asks nothing, or the other has
  the higher priority and asks for nothing that a request could withhold. `TableSettled`
  shows that for the 121 rules, one chapter of the table at a time, since an action
  has its rules in one chapter (`SameChapter`). `SomeRuleDecides`, `DecidersAgree` and
  `AllowedWhen` then say what is allowed without reference to ids, and
  `AllowedReportsMore` and `ConditionsRefuse` give the two parts of the property.
- `GitLayersAlwaysAgree`. `RemoteDecision`, `ReadDecision`, `BranchDecision` and
  `PullRequestDecision` say what the rules of each git action amount to, and the
  lemmas `...PolicyMeans` what that is in terms of the configuration, which
  `ConfigurationMade` shows to be of one of a few shapes.
- `ToolCallsAlwaysConfined`. `LowRiskMeans` reads off the one rule that allows a call,
  `RiskyToolsRefused` shows that no rule allows the risky kinds, `ActorsAre` goes
  through the actors of the catalog and their bindings, and `ListsAllowed` shows that
  who may call may list.
- `ResolutionAlwaysComplete`. The recursion of `resolveEntryDependencies` ends because
  each call visits one more name. `ResolvesAll` makes of that the existence of the
  recursive function, without which nothing can be said of its values
  (`ResolutionIs`): if some number of unvisited names had no function that is right up
  to it, the least such number would have one (`ResolvesNext`). By the same argument
  every result *settles* (`AllSettle`): what it selects is open and, without errors, in
  it is everything that the entry and its selections require.

**Only model-checked.** `RunsClose` and `RunsAreRecorded` are liveness under fairness,
which is outside the prover's reach. Every other property of a passing run is stated
by a theorem.

**Only proved.** `OverlapIsSerialized`, `RiskViewsAlwaysAgree`, `RiskIsSymmetric` and
the type invariants; what a run shows of overlaps is contained in `ImplementsGate`.

## 6. Not modelled

Storage in PostgreSQL repeats the operations of the in-memory store as I/O; the
web dashboard, the dashboard read model, deployment readiness and the shared
schemas are projections and declarations without state of their own.
Observability appends records that no modelled operation reads back. Redaction,
prompts, titles and provider payloads are text. Events and audit records
appended by the modelled operations are left out for the same reason, except
where a revision refers to one. The catalogs of the enterprise providers, their
output parsers and their credential references do not act on the state of an
invocation.

## 7. Disagreements between code and documentation

- `commands_need_enabled_runner`: `docs/features/local-agent-runner/v1.md` says
  that command execution is disabled unless the local runner is enabled and a
  workspace root is configured. A command sent to a recorded run is executed
  when neither is the case; `CommandsConfined` is what remains true.

Met while modelling, part of the models, and not given a run:

- The completion audit says duplicate active runs are prevented; the run-agent
  endpoint and a workflow waiting for its branch can each have one.
  `WorkflowRunsExclusive` speaks of workflow runs.
- The bootstrap brief says a runner failure ends in `failed`; a provider call
  that rejects leaves run and task `running` for ever.
- The protocol's description says that a completed invocation cannot be
  dispatched again. A dispatch that returns late saves its old copy as `running`
  over a completion; another approval of the same consent request does the same
  without a race. `FinishedStatesHold` is what remains true.
- `docs/features/registry/v2-operational-hardening.md` says that create operations
  write revision 1. One under an identifier in use writes the next revision of the
  entry that has it; `HistoryCoversEntries` is what remains true.
- `docs/features/registry/v3-packaging-versioning.md` has an import mode that replaces
  draft entries, and the final completion audit says that it refuses to overwrite others. A
  draft and an active entry may share an identifier; then the draft's status is checked
  and the active entry overwritten.
- `docs/features/llm-gateway/v2.md` asks for a fallback policy; the gateway falls
  back without one, and the seeded policy never takes effect.

Behaviour of the same kind that the invariants are stated around: a manifest may be
recorded whose listed version is nowhere in the registry, since an artifact is not
compared with its entry; an import with a mode of no known name replaces entries of
any status, and gives gates values of no known name; a rollback leaves a field that
the old revision does not have; a task's risk is that of whichever of its branches was
simulated last; an entry
created before an overlapping lease stays ready; the simulation of a lease whose
task is unknown does not reach the queue; the lease of a failed run is never
released; a rejected transport call leaves an invocation `dispatched` until it is
timed out; verifying the handshake again establishes a revoked channel; an
approval for a session is honoured in the session after a reconnection;
disconnecting a revoked agent lets it come back with a heartbeat; a provider that
resumes a running invocation with an undecided consent request completes it
without sending it again; the sandbox session of a run that is blocked at
preparation or whose runner throws is never completed, and commands ordered for a
recorded run are executed outside any session; the expiry of a secret lease is
never enforced, and a revoked reference can be made active again; credentials
behind secret references are resolved once, while the API starts, when only the
seeded references exist.
