----------------------------- MODULE Algorithms -----------------------------
(***************************************************************************)
(* The pure algorithms of the system and what they should compute: the     *)
(* conflict risk of a pair of branches, the decision of the policy engine  *)
(* on a request, the resolution of the registry for a task, the gates of   *)
(* the git integration, and the calls of MCP tools. The one variable is    *)
(* the input of one of them, named by its part; what follows holds of      *)
(* every input, whatever was computed before.                              *)
(***************************************************************************)
EXTENDS ConflictScoring, RegistryResolver, GitGates, McpGateway

VARIABLE input

-----------------------------------------------------------------------------
(* What the callers of each algorithm can pass.                            *)

OptionalStatuses == SimulationStatuses \cup {NoSimulation}

\* The files two branches change, the latest dry run of the pair and of one.
RiskInput(in) ==
    /\ in.source \subseteq Files /\ in.target \subseteq Files
    /\ in.pair \in OptionalStatuses /\ in.own \in OptionalStatuses

\* A request to the policy engine; env and meta may report any facts.
PolicyInput(in) ==
    LET r == in.request
    IN  r = [action |-> r.action, kind |-> r.kind, roles |-> r.roles, provider |-> r.provider,
             runner |-> r.runner, status |-> r.status, words |-> r.words, env |-> r.env,
             meta |-> r.meta, risk |-> r.risk]

Version(v) == v = <<v[1], v[2], v[3]>> /\ v[1] \in Nat /\ v[2] \in Nat /\ v[3] \in Nat

\* "2.x" has the base 2.0.0; "latest" has none.
VersionRange(range) ==
    (range.op \in RangeOps \ {"latest"}) =>
        /\ Version(range.base)
        /\ (range.op = "major") => (range.base[2] = 0 /\ range.base[3] = 0)

RegistryKinds == {"skill", "harness", "instruction"}

\* A task, and a registry with versions and dependencies.
ResolveInput(in) ==
    /\ IsFiniteSet(in.task.registry)
    /\ \A e \in in.task.registry :
          /\ e.kind \in RegistryKinds /\ Version(e.version)
          /\ \A dep \in e.deps : dep.kind \in RegistryKinds /\ VersionRange(dep.range)

GitFlags == {"enableRemote", "allowBranchCreate", "allowPrCreate", "allowLocalBranch",
             "tokenRef", "token"}

\* An environment of the git service and a request to it.
GitInput(in) ==
    /\ \A flag \in GitFlags : in.env[flag] \in BOOLEAN
    /\ LET r == in.request
       IN  /\ r = [op |-> r.op, repo |-> r.repo, prefixOk |-> r.prefixOk, localPath |-> r.localPath]
           /\ r.op \in {"branch_create", "pull_request_create"}
           /\ r.prefixOk \in BOOLEAN /\ r.localPath \in BOOLEAN

ToolFlags == {"readOnly", "secrets", "network", "write", "deploy", "localExecution"}

\* A tool, the server it is called through, and the task it is called for.
ToolInput(in) ==
    /\ \A flag \in ToolFlags : in.tool[flag] \in BOOLEAN
    /\ in.server.secrets \in BOOLEAN

InputOK ==
    /\ (input.part = "risk")    => RiskInput(input)
    /\ (input.part = "policy")  => PolicyInput(input)
    /\ (input.part = "resolve") => ResolveInput(input)
    /\ (input.part = "git")     => GitInput(input)
    /\ (input.part = "tool")    => ToolInput(input)

-----------------------------------------------------------------------------
(* What the scores and the thresholds amount to: a branch is blocked       *)
(* exactly when a dry run of it, or the latest dry run of the pair, found  *)
(* a text conflict, or when the pair shares a source, package or critical  *)
(* file.  No sum of warnings blocks, and no clean dry run unblocks.        *)
BlockedExactlyWhen ==
    (input.part = "risk") =>
        LET risk == CreateConflictRisk(input.source, input.target, input.pair).riskScore
        IN  MergeQueueDecision(HigherOf(risk, RiskContribution(input.own)), input.own).status
                = "blocked"
            <=> \/ "text_conflict" \in {input.pair, input.own}
                \/ \E f \in input.source \cap input.target :
                      ClassifyConflictFile(f) \in {"source", "package", "critical"}

Without(fcn, k) == [j \in DOMAIN fcn \ {k} |-> fcn[j]]

(* The table of rules fails closed: a caller that does not report a fact,  *)
(* or a subject with fewer roles, is never allowed what the full request   *)
(* is refused; and where a rule denies under some condition, no allowing   *)
(* rule of a higher priority lets the request through.  Nor does a         *)
(* decision turn on the names of the rules: those of the highest priority  *)
(* that match agree on their effect.                                       *)
PolicyFailsClosed ==
    (input.part = "policy") =>
        LET r       == input.request
            poorer  == {[r EXCEPT !.env = Without(@, k)] : k \in DOMAIN r.env}
                         \cup {[r EXCEPT !.meta = Without(@, k)] : k \in DOMAIN r.meta}
                         \cup {[r EXCEPT !.roles = {}]}
            refused == ~Allowed(r)
        IN  /\ refused => \A q \in poorer : ~Allowed(q)
            /\ (\E a \in Candidates(r) : a.effect = "deny" /\ a.conditions # Always) => refused
            /\ \A a, b \in Deciding(r) : a.effect = b.effect

(* What a task gets passes the gates, and a resolution without errors is   *)
(* complete: there is a harness and a skill, and every required skill or   *)
(* instruction of everything selected is selected in a version in range.   *)
ResolutionComplete ==
    LET Complete(out, all) ==
            /\ \A e \in all : e.open
            /\ (out.errors = {}) =>
                 /\ out.harness # {} /\ out.skills # {}
                 /\ \A e \in all : \A dep \in e.deps :
                      (dep.required /\ dep.kind # "harness") =>
                        \E d \in all : /\ d.kind = dep.kind /\ d.name = dep.name
                                       /\ \/ dep.range.op = "latest"
                                          \/ d.version[1] = dep.range.base[1]
                                             /\ CompareSemver(d.version, dep.range.base) >= 0
        Holds(out) == Complete(out, out.skills \cup out.harness \cup out.instructions)
    IN  (input.part = "resolve") => Holds(ResolveRegistryContextForTask(input.task))

(* The gates of the git service, its policies and the provider's guards    *)
(* are written three times and agree: nothing the service lets through is  *)
(* refused by the provider for its configuration, the policies never       *)
(* decide otherwise than the gate, and a secret reference that cannot be   *)
(* resolved leaves the service without credentials even if a token is set. *)
GitLayersAgree ==
    (input.part = "git") =>
        LET c    == CreateGitProviderFromEnv(input.env)
            r    == input.request
            read == [r EXCEPT !.op = "changed_files"]
        IN  /\ CreateAllowed(c, r) =>
                  (ProviderAccepts(c, r) \/ (c.kind = "local" /\ ~c.localBranch))
            /\ (c.kind = Remote) =>
                  (ValidateGitHubGate(c, r) <=> (EvaluateRemotePolicy(c, r) /\ EvaluateCreatePolicy(c, r)))
            /\ (c.kind # Remote /\ c.remoteGit) => ~CreateAllowed(c, r)
            /\ ChangedFilesAllowed(c, read) <=>
                  (c.kind = Remote /\ RefreshPolicy(c, TRUE) /\ ProviderAccepts(c, read))
            /\ (input.env.tokenRef /\ input.env.resolver # "resolved") => ~HasClient(c)

(* A tool call is decided by the catalog, the bindings of the actor, two   *)
(* policies and the gateway's own checks. Together they let through only   *)
(* reads of low risk, for active actors and, for the service account, for  *)
(* its own task; and the policies already refuse everything that the       *)
(* gateway's own checks would, so that either layer could go.              *)
ToolCallsConfined ==
    (input.part = "tool") =>
        LET actor   == ResolveAuthContext(input.actor)
            outcome == InvokeTool(input.actor, input.server, input.tool, input.task)
        IN  /\ (outcome = "completed") =>
                 /\ input.tool.readOnly /\ input.tool.risk = "low" /\ input.tool.status = "active"
                 /\ \A flag \in ToolFlags \ {"readOnly"} : ~input.tool[flag]
                 /\ input.server.kind = "mock" /\ input.server.status = "active" /\ ~input.server.secrets
                 /\ input.tool.id \in input.server.allowedTools /\ input.tool.server = input.server.id
                 /\ input.actor \in {"", "mock_admin", "user_demo_developer", "svc_runner"}
                 /\ (input.actor = "svc_runner") => (input.task = "task_demo_backend")
                 /\ (input.actor # "svc_runner") => (ListServersAllowed(actor) /\ ListToolsAllowed(actor, input.server))
            /\ (/\ CatalogAdmits(input.server, input.tool)
                /\ Authorize(actor, input.server, input.tool, input.task) = "allowed")
                 => (GenericPolicy(actor, input.server, input.tool)
                     /\ HardChecks(input.server, input.tool) = "completed")
=============================================================================
