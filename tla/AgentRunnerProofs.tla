-------------------------- MODULE AgentRunnerProofs --------------------------
(***************************************************************************)
(* Theorems about the runner, for every configuration, every set of        *)
(* commands, requests and orders, and any number of runs and sessions.     *)
(***************************************************************************)
EXTENDS AgentRunner, TLAPS, SequenceTheorems

(***************************************************************************)
(* The inductive invariant                                                 *)
(***************************************************************************)

Paths == {""} \cup {req.path : req \in RunRequests} \cup {order.path : order \in Orders}

ActiveType == [req : RunRequests, session : Nat, phase : {"preparing", "completing", "testing", "ended"},
               results : Seq(Nat), workspace : Nat]
RunType == [id : Nat, status : {"blocked", "failed", "completed"}, results : Seq(Nat),
            workspace : Nat, session : Nat]
ResultType == [run : Nat, command : DOMAIN Commands, path : Paths,
               status : {"blocked", "completed", "failed", "timed_out"}]
WorkspaceType == [path : Paths, status : {"ready", "rejected"}]
SessionType == [profile : DOMAIN SeedProfiles \cup {"unknown"}, status : {"active", "completed"}]

RunnerType == [config : RunnerConfigs, active : Seq(ActiveType), runs : Seq(RunType),
               results : Seq(ResultType), workspaces : Seq(WorkspaceType)]

\* Of the security service only the sessions matter here.
SecurityShape(s) ==
    /\ s = [env |-> s.env, refs |-> s.refs, leases |-> s.leases, sessions |-> s.sessions]
    /\ s.sessions \in Seq(SessionType)

TypeOK == runner \in RunnerType /\ SecurityShape(security)

\* The results of a run, as far as it has come, are its own and in the order
\* of its test commands.
OwnResults(log, n, req, results) ==
    /\ Len(results) <= Len(req.tests)
    /\ \A j \in 1..Len(results) :
          /\ results[j] \in DOMAIN log
          /\ log[results[j]].run = n
          /\ log[results[j]].command = req.tests[j]

ResultsOf(n, req, results) == OwnResults(runner.results, n, req, results)

\* A run in flight: what let it in, and its session.
InFlightOK(n) ==
    LET run == runner.active[n] IN
    /\ (run.session # 0) <=> (Config.execute /\ run.req.path # "")
    /\ (run.session # 0) => security.sessions[run.session].status = "active"
    /\ (Config.execute /\ run.req.tests # <<>>) => WordsOf(Requested(run.req)) = {}
    /\ (run.phase # "preparing" /\ Config.kind = "local") => run.req.path # ""
    /\ (run.phase # "testing") => run.results = <<>>
    /\ (run.phase = "testing") =>
          /\ Config.kind = "local" /\ Config.execute
          /\ ValidateWorkspace(run.req.path)
          /\ Len(run.results) < Len(run.req.tests)

ActiveOK(n) ==
    LET run == runner.active[n] IN
    /\ run.session <= Len(security.sessions) /\ run.workspace <= Len(runner.workspaces)
    /\ ResultsOf(n, run.req, run.results)
    /\ InFlight(n) => InFlightOK(n)

\* A recorded run has ended and says what its results say.
RecordOK(k) ==
    LET run   == runner.runs[k]
        found == {runner.results[run.results[j]].status : j \in 1..Len(run.results)}
    IN  /\ run.id \in DOMAIN runner.active /\ ~InFlight(run.id)
        /\ run.session <= Len(security.sessions) /\ run.workspace <= Len(runner.workspaces)
        /\ (run.session # 0) => security.sessions[run.session].status = "completed"
        /\ ResultsOf(run.id, runner.active[run.id].req, run.results)
        /\ (run.status = "completed" /\ Config.kind = "local" /\ Config.execute) =>
              found \subseteq {"completed"} /\ Len(run.results) = Len(runner.active[run.id].req.tests)
        /\ (run.status = "failed") => "blocked" \notin found

SessionsApart ==
    \A n, m \in DOMAIN runner.active :
        (n # m /\ runner.active[n].session # 0) => runner.active[m].session # runner.active[n].session

RunnerInv ==
    /\ TypeOK
    /\ \A n \in DOMAIN runner.active : ActiveOK(n)
    /\ \A k \in DOMAIN runner.runs : RecordOK(k)
    /\ SessionsApart
    /\ CommandsConfined

(***************************************************************************)
(* The policy on commands                                                  *)
(***************************************************************************)

LEMMA RuleFields ==
    ASSUME NEW effect, NEW action, NEW kind, NEW priority, NEW conditions
    PROVE  LET rule == Rule(effect, action, kind, priority, conditions) IN
           /\ rule.effect = effect /\ rule.action = action /\ rule.kind = kind
           /\ rule.priority = priority /\ rule.conditions = conditions
  BY DEF Rule

\* Every rule but those of the runner is about another action.
Elsewhere(rules) == \A rule \in rules : rule.action # "runner.command.execute"

LEMMA RulesOnCommands ==
    ASSUME NEW rule \in Rules, rule.action = "runner.command.execute"
    PROVE  rule \in RunnerRules
<1>1. Elsewhere(GitRemoteRules)
  BY RuleFields DEF Elsewhere, GitRemoteRules
<1>2. Elsewhere(WebhookRules)
  BY RuleFields DEF Elsewhere, WebhookRules
<1>3. Elsewhere(GitSyncRules)
  BY RuleFields DEF Elsewhere, GitSyncRules
<1>4. Elsewhere(GitCreateRules)
  BY RuleFields DEF Elsewhere, GitCreateRules
<1>5. Elsewhere(LlmRules)
  BY RuleFields DEF Elsewhere, LlmRules
<1>6. Elsewhere(LlmRoutingRules)
  BY RuleFields DEF Elsewhere, LlmRoutingRules
<1>7. Elsewhere(RegistryRules)
  BY RuleFields DEF Elsewhere, RegistryRules
<1>8. Elsewhere(ImprovementRules)
  BY RuleFields DEF Elsewhere, ImprovementRules
<1>9. Elsewhere(ProviderRules)
  BY RuleFields DEF Elsewhere, ProviderRules
<1>10. Elsewhere(CredentialCacheRules)
  BY RuleFields DEF Elsewhere, CredentialCacheRules
<1>11. Elsewhere(LocalAgentRules)
  BY RuleFields DEF Elsewhere, LocalAgentRules
<1>12. Elsewhere(ConsentRules)
  BY RuleFields DEF Elsewhere, ConsentRules
<1>13. Elsewhere(ProviderInvokeRules)
  BY RuleFields DEF Elsewhere, ProviderInvokeRules
<1>14. Elsewhere(SecretRules)
  BY RuleFields DEF Elsewhere, SecretRules
<1>15. Elsewhere(SandboxRules)
  BY RuleFields DEF Elsewhere, SandboxRules
<1>16. Elsewhere(McpRules)
  BY RuleFields DEF Elsewhere, McpRules
<1>17. Elsewhere(McpCallRules)
  BY RuleFields DEF Elsewhere, McpCallRules
<1>18. Elsewhere(PlatformRules)
  BY RuleFields DEF Elsewhere, PlatformRules
<1> QED
  BY <1>1, <1>2, <1>3, <1>4, <1>5, <1>6, <1>7, <1>8, <1>9,
     <1>10, <1>11, <1>12, <1>13, <1>14, <1>15, <1>16, <1>17, <1>18
     DEF Elsewhere, Rules

\* A command with a word of a deny rule is refused, whatever the caller
\* reports: those rules outrank the one that allows commands.
LEMMA WordsAreRefused ==
    ASSUME NEW r, r.action = "runner.command.execute", r.kind = "command", Allowed(r)
    PROVE  r.words \cap (NetworkWords \cup RemoteGitWords) = {}
<1> SUFFICES ASSUME r.words \cap (NetworkWords \cup RemoteGitWords) # {} PROVE FALSE
  OBVIOUS
<1>1. PICK words \in {NetworkWords, RemoteGitWords} : words \cap r.words # {}
  OBVIOUS
<1>2. PICK c : c = [words |-> words]
  OBVIOUS
<1>3. PICK d : d = Rule("deny", "runner.command.execute", "command", 950, c)
  OBVIOUS
<1>4. d \in Rules
  BY <1>1, <1>2, <1>3 DEF Rules, RunnerRules
<1>5. ConditionMatches(c, r)
  BY <1>1, <1>2 DEF ConditionMatches
<1>6. /\ d.action = "runner.command.execute" /\ d.kind = "command"
      /\ d.priority = 950 /\ d.conditions = c
  BY <1>3, RuleFields
<1>7. d \in Candidates(r)
  BY <1>4, <1>5, <1>6 DEF Candidates
<1>8. ASSUME NEW a \in Deciding(r) PROVE a.effect = "deny"
  <2>1. a \in RunnerRules /\ a.action = "runner.command.execute" /\ 950 <= a.priority
    BY <1>6, <1>7, RulesOnCommands DEF Deciding, Candidates
  <2> QED
    BY <2>1, RuleFields DEF RunnerRules
<1>9. CASE Deciding(r) = {}
  BY <1>9 DEF Allowed, Decision
<1>10. CASE Deciding(r) # {}
  <2>1. (CHOOSE a \in Deciding(r) : TRUE) \in Deciding(r)
    BY <1>10
  <2> QED
    BY <1>8, <1>10, <2>1 DEF Allowed, Decision
<1> QED
  BY <1>9, <1>10

(***************************************************************************)
(* What a step leaves alone                                                *)
(***************************************************************************)

\* The log of results is only appended to.
ResultsGrow ==
    /\ Len(runner.results) <= Len(runner'.results)
    /\ \A i \in 1..Len(runner.results) : runner'.results[i] = runner.results[i]

\* Sessions are added, and of those there are only the given one may be completed.
SessionsKept(own) ==
    /\ Len(security.sessions) <= Len(security'.sessions)
    /\ \A i \in 1..Len(security.sessions) :
          \/ security'.sessions[i] = security.sessions[i]
          \/ i = own /\ security'.sessions[i].status = "completed"

\* A step that concerns no run in flight but n, 0 for none.
Kept(n, own) ==
    /\ runner'.config = runner.config
    /\ DOMAIN runner.active \subseteq DOMAIN runner'.active
    /\ \A m \in DOMAIN runner.active : m # n => runner'.active[m] = runner.active[m]
    /\ ResultsGrow /\ Len(runner.workspaces) <= Len(runner'.workspaces)
    /\ SessionsKept(own)

LEMMA TypeParts ==
    ASSUME TypeOK
    PROVE  /\ runner \in RunnerType
           /\ runner.config \in RunnerConfigs /\ runner.active \in Seq(ActiveType)
           /\ runner.runs \in Seq(RunType) /\ runner.results \in Seq(ResultType)
           /\ runner.workspaces \in Seq(WorkspaceType) /\ security.sessions \in Seq(SessionType)
  BY DEF TypeOK, RunnerType, SecurityShape

LEMMA ActiveTyped ==
    ASSUME TypeOK, NEW n \in DOMAIN runner.active
    PROVE  /\ n \in Nat /\ runner.active[n] \in ActiveType
           /\ runner.active[n].req \in RunRequests /\ runner.active[n].session \in Nat
           /\ runner.active[n].results \in Seq(Nat) /\ runner.active[n].workspace \in Nat
<1>1. PICK a : a = runner.active
  OBVIOUS
<1>2. a \in Seq(ActiveType)
  BY <1>1, TypeParts
<1>3. n \in Nat /\ a[n] \in ActiveType
  BY <1>1, <1>2
<1> QED  BY <1>1, <1>3 DEF ActiveType

LEMMA TypePartsNext ==
    ASSUME TypeOK'
    PROVE  /\ runner' \in RunnerType
           /\ runner'.active \in Seq(ActiveType)
           /\ runner'.runs \in Seq(RunType) /\ runner'.results \in Seq(ResultType)
           /\ runner'.workspaces \in Seq(WorkspaceType) /\ security'.sessions \in Seq(SessionType)
  BY DEF TypeOK, RunnerType, SecurityShape

LEMMA Lengths ==
    ASSUME TypeOK, TypeOK'
    PROVE  /\ Len(runner.workspaces) \in Nat /\ Len(runner'.workspaces) \in Nat
           /\ Len(security.sessions) \in Nat /\ Len(security'.sessions) \in Nat
<1>1. \A S : \A q \in Seq(S) : Len(q) \in Nat
  OBVIOUS
<1> QED  BY <1>1, TypeParts, TypePartsNext

LEMMA RunTyped ==
    ASSUME TypeOK, NEW k \in DOMAIN runner.runs
    PROVE  /\ runner.runs[k] \in RunType
           /\ runner.runs[k].id \in Nat /\ runner.runs[k].workspace \in Nat
<1>1. PICK a : a = runner.runs
  OBVIOUS
<1>2. a \in Seq(RunType)
  BY <1>1, TypeParts
<1>3. a[k] \in RunType
  BY <1>1, <1>2
<1> QED  BY <1>1, <1>3 DEF RunType

LEMMA ResultsStay ==
    ASSUME TypeOK, TypeOK', ResultsGrow, NEW n, NEW req, NEW results \in Seq(Nat), ResultsOf(n, req, results)
    PROVE  /\ ResultsOf(n, req, results)'
           /\ \A j \in 1..Len(results) : runner'.results[results[j]] = runner.results[results[j]]
<1>1. runner.results \in Seq(ResultType) /\ runner'.results \in Seq(ResultType)
  BY TypeParts, TypePartsNext
<1>2. \A i \in DOMAIN runner.results : i \in DOMAIN runner'.results /\ runner'.results[i] = runner.results[i]
  BY SMTT(30), <1>1 DEF ResultsGrow
<1> QED
  BY <1>2 DEF ResultsOf, OwnResults

LEMMA OthersStay ==
    ASSUME RunnerInv, TypeOK', NEW n \in Nat, NEW own \in Nat, Kept(n, own),
           NEW m \in DOMAIN runner.active, m # n,
           own = 0 \/ (n \in DOMAIN runner.active /\ own = runner.active[n].session)
    PROVE  ActiveOK(m)'
<1>0. TypeOK /\ ActiveOK(m) /\ SessionsApart  BY DEF RunnerInv
<1>1. runner.active[m] \in ActiveType /\ runner.active \in Seq(ActiveType)
      /\ security.sessions \in Seq(SessionType) /\ security'.sessions \in Seq(SessionType)
  BY <1>0, TypeParts DEF TypeOK, SecurityShape
<1>2. PICK run : run = runner.active[m]
  OBVIOUS
<1>3. runner'.active[m] = run /\ runner'.config = runner.config
  BY <1>2 DEF Kept
<1>4. run.session \in Nat /\ run.results \in Seq(Nat)
  BY <1>1, <1>2 DEF ActiveType
<1>5. ResultsOf(m, run.req, run.results)'
  BY <1>0, <1>2, <1>4, ResultsStay DEF ActiveOK, Kept
<1>6. run.session <= Len(security'.sessions) /\ run.workspace <= Len(runner'.workspaces)
  <2>1. /\ Len(runner.workspaces) \in Nat /\ Len(runner'.workspaces) \in Nat
        /\ Len(security.sessions) \in Nat /\ Len(security'.sessions) \in Nat /\ run.workspace \in Nat
    BY <1>0, <1>2, Lengths, ActiveTyped
  <2>2. run.session <= Len(security.sessions) /\ run.workspace <= Len(runner.workspaces)
    BY <1>0, <1>2 DEF ActiveOK
  <2> QED  BY <1>4, <2>1, <2>2 DEF Kept, SessionsKept
<1>7. ASSUME InFlight(m), run.session # 0
      PROVE  security'.sessions[run.session].status = "active"
  <2>1. own # run.session
    BY <1>0, <1>2, <1>4, <1>7 DEF SessionsApart
  <2>2. security.sessions[run.session].status = "active" /\ run.session \in 1..Len(security.sessions)
    <3>1. InFlightOK(m) /\ run.session <= Len(security.sessions)
      BY <1>0, <1>2, <1>7 DEF ActiveOK
    <3>2. security.sessions[run.session].status = "active"
      BY <1>2, <1>7, <3>1, Zenon DEF InFlightOK
    <3> QED  BY <1>1, <1>4, <1>7, <3>1, <3>2
  <2> QED
    BY <2>1, <2>2 DEF Kept, SessionsKept
<1>8. InFlight(m)' <=> InFlight(m)
  BY <1>2, <1>3 DEF InFlight
<1>9. ASSUME InFlight(m) PROVE InFlightOK(m)'
  <2>1. InFlightOK(m)  BY <1>0, <1>9 DEF ActiveOK
  <2>2. ValidateWorkspace(run.req.path)' <=> ValidateWorkspace(run.req.path)
    BY <1>3 DEF ValidateWorkspace, Config
  <2> QED
    BY <1>2, <1>3, <1>7, <1>9, <2>1, <2>2 DEF InFlightOK, Config
<1> QED
  BY <1>3, <1>5, <1>6, <1>8, <1>9 DEF ActiveOK

LEMMA RecordsStay ==
    ASSUME RunnerInv, TypeOK', NEW n \in Nat, NEW own \in Nat, Kept(n, own),
           n \in DOMAIN runner.active => InFlight(n),
           NEW k \in DOMAIN runner.runs, runner'.runs[k] = runner.runs[k]
    PROVE  RecordOK(k)'
<1>0. TypeOK /\ RecordOK(k)  BY DEF RunnerInv
<1>1. runner.runs \in Seq(RunType) /\ runner.runs[k] \in RunType
      /\ security.sessions \in Seq(SessionType) /\ security'.sessions \in Seq(SessionType)
  BY <1>0, TypeParts DEF TypeOK, SecurityShape
<1>2. PICK run : run = runner.runs[k]
  OBVIOUS
<1>3. run.results \in Seq(Nat) /\ run.session \in Nat
  BY <1>1, <1>2 DEF RunType
<1>4. /\ run.id \in DOMAIN runner.active /\ ~InFlight(run.id)
      /\ runner'.active[run.id] = runner.active[run.id] /\ run.id \in DOMAIN runner'.active
  BY <1>0, <1>2 DEF RecordOK, Kept
<1>10. PICK req : req = runner.active[run.id].req
  OBVIOUS
<1>5. ~InFlight(run.id)'
  BY <1>4 DEF InFlight
<1>6. /\ ResultsOf(run.id, req, run.results)'
      /\ \A j \in 1..Len(run.results) : runner'.results[run.results[j]] = runner.results[run.results[j]]
  <2>1. ResultsOf(run.id, req, run.results)
    BY <1>0, <1>2, <1>10 DEF RecordOK
  <2> QED
    BY <1>0, <1>3, <2>1, ResultsStay DEF Kept
<1>7. {runner'.results[run.results[j]].status : j \in 1..Len(run.results)}
        = {runner.results[run.results[j]].status : j \in 1..Len(run.results)}
  BY <1>6
<1>8. /\ run.session <= Len(security'.sessions)
      /\ (run.session # 0) => security'.sessions[run.session].status = "completed"
  <2>1. /\ run.session <= Len(security.sessions)
        /\ (run.session # 0) => security.sessions[run.session].status = "completed"
    BY <1>0, <1>2 DEF RecordOK
  <2>2. Len(security.sessions) \in Nat /\ Len(security'.sessions) \in Nat
    BY <1>1
  <2>3. SessionsKept(own)
    BY DEF Kept
  <2>4. run.session <= Len(security'.sessions)
    BY <1>3, <2>1, <2>2, <2>3 DEF SessionsKept
  <2>5. ASSUME run.session # 0 PROVE security'.sessions[run.session].status = "completed"
    <3>1. run.session \in 1..Len(security.sessions)
      BY <1>3, <2>1, <2>2, <2>5
    <3>2. \/ security'.sessions[run.session] = security.sessions[run.session]
          \/ security'.sessions[run.session].status = "completed"
      BY <2>3, <3>1 DEF SessionsKept
    <3> QED
      BY <2>1, <2>5, <3>2
  <2> QED
    BY <2>4, <2>5
<1>11. run.workspace <= Len(runner'.workspaces)
  <2>1. Len(runner.workspaces) \in Nat /\ Len(runner'.workspaces) \in Nat /\ run.workspace \in Nat
    BY <1>0, <1>2, Lengths, RunTyped
  <2>2. run.workspace <= Len(runner.workspaces)
    BY <1>0, <1>2 DEF RecordOK
  <2> QED  BY <2>1, <2>2 DEF Kept
<1>9. Config' = Config
  BY DEF Kept, Config
<1> QED
  <2>1. PICK found : found = {runner.results[run.results[j]].status : j \in 1..Len(run.results)}
    OBVIOUS
  <2>2. /\ (run.status = "completed" /\ Config.kind = "local" /\ Config.execute) =>
              found \subseteq {"completed"} /\ Len(run.results) = Len(req.tests)
        /\ (run.status = "failed") => "blocked" \notin found
    BY <1>0, <1>2, <1>10, <2>1 DEF RecordOK
  <2>3. runner'.runs[k] = run /\ runner'.active[run.id].req = req
    BY <1>2, <1>4, <1>10
  <2>4. {runner'.results[run.results[j]].status : j \in 1..Len(run.results)} = found
    BY <1>7, <2>1
  <2> QED
    BY ZenonT(40), <1>4, <1>5, <1>6, <1>8, <1>9, <1>11, <2>2, <2>3, <2>4 DEF RecordOK

\* CommandsConfined for one result, under a configuration.
ResultConfined(config, r) ==
    LET c == Commands[r.command] IN
    (r.status # "blocked") =>
       /\ config.kind = "local" /\ config.execute
       /\ r.path \in config.root \cup {"temp"}
       /\ r.path \notin {"repository", "filesystem"}
       /\ c.executable = "allowed" /\ ~c.shell /\ c.words = {}

LEMMA ConfinedStays ==
    ASSUME CommandsConfined, TypeOK, TypeOK', runner'.config = runner.config, ResultsGrow,
           \A i \in 1..Len(runner'.results) :
               i > Len(runner.results) => ResultConfined(runner.config, runner'.results[i])
    PROVE  CommandsConfined'
<1>1. runner.results \in Seq(ResultType) /\ runner'.results \in Seq(ResultType)
  BY TypeParts, TypePartsNext
<1>2. ASSUME NEW i \in DOMAIN runner.results PROVE ResultConfined(runner.config, runner.results[i])
  BY <1>2 DEF CommandsConfined, ResultConfined, Config
<1>3. ASSUME NEW i \in DOMAIN runner'.results PROVE ResultConfined(runner'.config, runner'.results[i])
  <2>1. CASE i \in DOMAIN runner.results
    BY <1>1, <1>2, <2>1 DEF ResultsGrow
  <2>2. CASE i \notin DOMAIN runner.results
    BY <1>1, <2>2
  <2> QED  BY <2>1, <2>2
<1> QED
  BY <1>3 DEF CommandsConfined, ResultConfined, Config

\* A step of run n keeps the invariant when it keeps what is said of n.
LEMMA StepKeeps ==
    ASSUME RunnerInv, TypeOK', NEW n \in DOMAIN runner.active, InFlight(n),
           Kept(n, runner.active[n].session), DOMAIN runner'.active = DOMAIN runner.active,
           runner'.active[n].session = runner.active[n].session, ActiveOK(n)',
           \A k \in DOMAIN runner.runs : runner'.runs[k] = runner.runs[k],
           \A k \in DOMAIN runner'.runs : k \notin DOMAIN runner.runs => RecordOK(k)',
           CommandsConfined'
    PROVE  RunnerInv'
<1>0. TypeOK /\ SessionsApart  BY DEF RunnerInv
<1>1. n \in Nat /\ runner.active[n].session \in Nat
  BY <1>0, ActiveTyped
<1>2. ASSUME NEW m \in DOMAIN runner'.active PROVE ActiveOK(m)'
  <2>1. CASE m = n  BY <2>1
  <2>2. CASE m # n  BY <1>1, <2>2, OthersStay
  <2> QED  BY <2>1, <2>2
<1>3. ASSUME NEW k \in DOMAIN runner'.runs PROVE RecordOK(k)'
  <2>1. CASE k \in DOMAIN runner.runs  BY <1>1, <2>1, RecordsStay
  <2> QED  BY <2>1
<1>4. \A m \in DOMAIN runner.active : runner'.active[m].session = runner.active[m].session
  BY DEF Kept
<1>5. SessionsApart'
  <2> SUFFICES ASSUME NEW a \in DOMAIN runner'.active, NEW b \in DOMAIN runner'.active,
                      a # b, runner'.active[a].session # 0
               PROVE  runner'.active[b].session # runner'.active[a].session
    BY DEF SessionsApart
  <2> QED  BY <1>0, <1>4 DEF SessionsApart
<1> QED
  BY <1>2, <1>3, <1>5 DEF RunnerInv

(***************************************************************************)
(* The end of a run                                                        *)
(***************************************************************************)

\* A session is completed.
LEMMA CompleteKeeps ==
    ASSUME SecurityShape(security), NEW own \in 1..Len(security.sessions),
           security' = CompleteSandboxSession(security, own)
    PROVE  /\ SecurityShape(security)' /\ SessionsKept(own)
           /\ Len(security'.sessions) = Len(security.sessions)
           /\ security'.sessions[own].status = "completed"
<1>1. PICK s : s = security.sessions
  OBVIOUS
<1>2. s \in Seq(SessionType) /\ s[own] \in SessionType
  BY <1>1 DEF SecurityShape
<1>3. security'.sessions = [s EXCEPT ![own] = [s[own] EXCEPT !.status = "completed"]]
  BY <1>1 DEF SecurityShape, CompleteSandboxSession
<1>4. security' = [env |-> security'.env, refs |-> security'.refs, leases |-> security'.leases,
                   sessions |-> security'.sessions]
  BY DEF SecurityShape, CompleteSandboxSession
<1>5. [s[own] EXCEPT !.status = "completed"] \in SessionType
      /\ [s[own] EXCEPT !.status = "completed"].status = "completed"
  BY <1>2 DEF SessionType
<1>7. PICK e : e = [s[own] EXCEPT !.status = "completed"]
  OBVIOUS
<1>6. /\ security'.sessions \in Seq(SessionType) /\ Len(security'.sessions) = Len(s)
      /\ \A i \in 1..Len(s) : i # own => security'.sessions[i] = s[i]
      /\ security'.sessions[own].status = "completed"
  <2>1. security'.sessions = [s EXCEPT ![own] = e] /\ e \in SessionType /\ e.status = "completed"
    BY <1>3, <1>5, <1>7
  <2> QED  BY <1>1, <1>2, <2>1
<1>8. SecurityShape(security)'
  BY <1>4, <1>6 DEF SecurityShape
<1>9. SessionsKept(own)
  <2>1. Len(security.sessions) <= Len(security'.sessions)
    BY <1>1, <1>2, <1>6
  <2>2. \A i \in 1..Len(security.sessions) :
           \/ security'.sessions[i] = security.sessions[i]
           \/ i = own /\ security'.sessions[i].status = "completed"
    BY <1>1, <1>6
  <2> QED  BY <2>1, <2>2 DEF SessionsKept
<1> QED
  BY <1>1, <1>6, <1>8, <1>9

\* s is the runner with run n a little further: what may be recorded from.
FromRunner(n, s) ==
    /\ s \in RunnerType
    /\ s.config = runner.config /\ s.runs = runner.runs
    /\ DOMAIN s.active = DOMAIN runner.active
    /\ \A m \in DOMAIN runner.active : m # n => s.active[m] = runner.active[m]
    /\ s.active[n].req = runner.active[n].req /\ s.active[n].session = runner.active[n].session
    /\ Len(runner.workspaces) <= Len(s.workspaces) /\ s.active[n].workspace <= Len(s.workspaces)
    /\ Len(runner.results) <= Len(s.results)
    /\ \A i \in 1..Len(runner.results) : s.results[i] = runner.results[i]

\* Run n is recorded with these results, workspace and session.
Records(n, s, run) == runner' = CreateRun([s EXCEPT !.active[n].phase = "ended"], run)

LEMMA RecordedFields ==
    ASSUME NEW s \in RunnerType, NEW n \in DOMAIN s.active, NEW run \in RunType, Records(n, s, run)
    PROVE  /\ runner' \in RunnerType
           /\ runner'.config = s.config /\ runner'.results = s.results /\ runner'.workspaces = s.workspaces
           /\ runner'.runs = Append(s.runs, run)
           /\ DOMAIN runner'.active = DOMAIN s.active
           /\ \A m \in DOMAIN s.active : m # n => runner'.active[m] = s.active[m]
           /\ runner'.active[n].phase = "ended"
           /\ runner'.active[n].req = s.active[n].req
           /\ runner'.active[n].session = s.active[n].session
           /\ runner'.active[n].results = s.active[n].results
           /\ runner'.active[n].workspace = s.active[n].workspace
<1>1. PICK a : a = s.active
  OBVIOUS
<1>2. a \in Seq(ActiveType) /\ n \in DOMAIN a /\ a[n] \in ActiveType
      /\ s.runs \in Seq(RunType) /\ s.results \in Seq(ResultType) /\ s.config \in RunnerConfigs
      /\ s.workspaces \in Seq(WorkspaceType)
  BY <1>1 DEF RunnerType
<1>3. PICK e : e = [a[n] EXCEPT !.phase = "ended"]
  OBVIOUS
<1>4. /\ e \in ActiveType /\ e.phase = "ended" /\ e.req = a[n].req /\ e.session = a[n].session
      /\ e.results = a[n].results /\ e.workspace = a[n].workspace
  BY <1>2, <1>3 DEF ActiveType
<1>5. PICK b, c : b = [a EXCEPT ![n] = e] /\ c = Append(s.runs, run)
  OBVIOUS
<1>6. b \in Seq(ActiveType) /\ c \in Seq(RunType) /\ DOMAIN b = DOMAIN a /\ b[n] = e
      /\ \A m \in DOMAIN a : m # n => b[m] = a[m]
  BY <1>2, <1>4, <1>5
<1>7. runner' = [config |-> s.config, active |-> b, runs |-> c, results |-> s.results,
                 workspaces |-> s.workspaces]
  BY <1>1, <1>3, <1>5 DEF Records, CreateRun, RunnerType
<1>8. runner' \in RunnerType /\ runner'.config = s.config /\ runner'.results = s.results
      /\ runner'.runs = c /\ runner'.active = b /\ runner'.workspaces = s.workspaces
  BY <1>2, <1>6, <1>7 DEF RunnerType
<1> QED
  BY <1>1, <1>4, <1>5, <1>6, <1>8

\* What a record says of the results it lists.
RecordSays(log, status, own, req) ==
    LET found == {log[own[j]].status : j \in 1..Len(own)} IN
    /\ (status = "completed" /\ Config.kind = "local" /\ Config.execute) =>
          found \subseteq {"completed"} /\ Len(own) = Len(req.tests)
    /\ (status = "failed") => "blocked" \notin found

\* A recorded run's session, if it has one, is completed.
SessionSettled(run) ==
    /\ run.session <= Len(security'.sessions)
    /\ run.session # 0 => security'.sessions[run.session].status = "completed"

\* The results that s adds are confined.
NewConfined(s) ==
    \A i \in 1..Len(s.results) :
        i > Len(runner.results) => ResultConfined(runner.config, s.results[i])

LEMMA AppendFacts ==
    ASSUME NEW S, NEW s \in Seq(S), NEW e \in S
    PROVE  /\ \A k \in DOMAIN s : k \in DOMAIN Append(s, e) /\ Append(s, e)[k] = s[k]
           /\ \A k \in DOMAIN Append(s, e) : k \notin DOMAIN s => k = Len(s) + 1 /\ Append(s, e)[k] = e
           /\ Append(s, e) \in Seq(S) /\ Len(Append(s, e)) = Len(s) + 1
  OBVIOUS

LEMMA RecordKeeps ==
    ASSUME RunnerInv, NEW n \in DOMAIN runner.active, InFlight(n), NEW s, FromRunner(n, s),
           NEW run \in RunType, run.id = n,
           Records(n, s, run), run.workspace <= Len(s.workspaces),
           SecurityShape(security)', SessionsKept(runner.active[n].session), SessionSettled(run),
           OwnResults(s.results, n, runner.active[n].req, s.active[n].results),
           OwnResults(s.results, n, runner.active[n].req, run.results),
           RecordSays(s.results, run.status, run.results, runner.active[n].req),
           NewConfined(s)
    PROVE  RunnerInv'
<1>0. TypeOK /\ ActiveOK(n) /\ CommandsConfined  BY DEF RunnerInv
<1>1. s \in RunnerType /\ n \in DOMAIN s.active
  BY DEF FromRunner
<1>2. /\ runner' \in RunnerType
      /\ runner'.config = s.config /\ runner'.results = s.results /\ runner'.workspaces = s.workspaces
      /\ runner'.runs = Append(s.runs, run)
      /\ DOMAIN runner'.active = DOMAIN s.active
      /\ \A m \in DOMAIN s.active : m # n => runner'.active[m] = s.active[m]
      /\ runner'.active[n].phase = "ended"
      /\ runner'.active[n].req = s.active[n].req
      /\ runner'.active[n].session = s.active[n].session
      /\ runner'.active[n].results = s.active[n].results
      /\ runner'.active[n].workspace = s.active[n].workspace
  BY <1>1, RecordedFields
<1>3. TypeOK'
  BY <1>2 DEF TypeOK
<1>4. /\ DOMAIN runner'.active = DOMAIN runner.active
      /\ runner'.active[n].req = runner.active[n].req
      /\ runner'.active[n].session = runner.active[n].session
      /\ ResultsGrow /\ runner'.config = runner.config
      /\ runner'.runs = Append(runner.runs, run)
  BY <1>2 DEF FromRunner, ResultsGrow
<1>5. Kept(n, runner.active[n].session)
  BY <1>2, <1>4 DEF Kept, FromRunner
<1>6. ActiveOK(n)'
  <2>1. runner'.active[n].session <= Len(security'.sessions)
    <3>1. runner.active[n].session <= Len(security.sessions) /\ runner.active[n].session \in Nat
      BY <1>0, ActiveTyped DEF ActiveOK
    <3>2. Len(security.sessions) \in Nat /\ Len(security'.sessions) \in Nat
          /\ Len(security.sessions) <= Len(security'.sessions)
      BY <1>0, <1>3, TypeParts, TypePartsNext DEF SessionsKept
    <3> QED  BY <1>4, <3>1, <3>2
  <2> QED
    BY <1>2, <1>4, <2>1 DEF ActiveOK, ResultsOf, InFlight, FromRunner
<1>7. runner.runs \in Seq(RunType)
  BY <1>0, TypeParts
<1>8. ASSUME NEW k \in DOMAIN runner.runs PROVE runner'.runs[k] = runner.runs[k]
  BY <1>4, <1>7, <1>8, AppendFacts
<1>9. ASSUME NEW k \in DOMAIN runner'.runs, k \notin DOMAIN runner.runs PROVE RecordOK(k)'
  <2>1. runner'.runs[k] = run
    BY <1>4, <1>7, <1>9, AppendFacts
  <2>2. PICK req : req = runner.active[n].req
    OBVIOUS
  <2>3. /\ run.id \in DOMAIN runner'.active /\ ~InFlight(run.id)'
        /\ runner'.active[run.id].req = req
    BY <1>2, <1>4, <2>2 DEF InFlight
  <2>4. OwnResults(runner'.results, n, req, run.results)
    BY <1>2, <2>2
  <2>5. PICK found : found = {s.results[run.results[j]].status : j \in 1..Len(run.results)}
    OBVIOUS
  <2>6. /\ (run.status = "completed" /\ Config.kind = "local" /\ Config.execute) =>
              found \subseteq {"completed"} /\ Len(run.results) = Len(req.tests)
        /\ (run.status = "failed") => "blocked" \notin found
    BY <2>2, <2>5 DEF RecordSays
  <2>7. found = {runner'.results[run.results[j]].status : j \in 1..Len(run.results)}
    BY <1>2, <2>5
  <2>8. Config' = Config
    BY <1>4 DEF Config
  <2>9. /\ run.session <= Len(security'.sessions)
        /\ run.session # 0 => security'.sessions[run.session].status = "completed"
    BY DEF SessionSettled
  <2>12. run.workspace <= Len(runner'.workspaces)
    BY <1>2
  <2>10. OwnResults(runner'.results, run.id, runner'.active[run.id].req, run.results)
    BY <2>3, <2>4
  <2>11. (run.status = "completed" /\ Config'.kind = "local" /\ Config'.execute) =>
            found \subseteq {"completed"} /\ Len(run.results) = Len(runner'.active[run.id].req.tests)
    BY <2>3, <2>6, <2>8
  <2> QED
    BY <2>1, <2>3, <2>6, <2>7, <2>9, <2>10, <2>11, <2>12, Zenon DEF RecordOK, ResultsOf
<1>10. CommandsConfined'
  BY <1>0, <1>2, <1>3, <1>4, ConfinedStays DEF NewConfined
<1> QED
  BY <1>3, <1>4, <1>5, <1>6, <1>8, <1>9, <1>10, StepKeeps

\* The runner returned.
LEMMA EndKeeps ==
    ASSUME RunnerInv, NEW n \in DOMAIN runner.active, InFlight(n), NEW s, FromRunner(n, s),
           NEW status \in {"blocked", "failed", "completed"}, EndRun(n, s, status),
           OwnResults(s.results, n, runner.active[n].req, s.active[n].results),
           RecordSays(s.results, status, s.active[n].results, runner.active[n].req),
           NewConfined(s)
    PROVE  RunnerInv'
<1>0. TypeOK /\ ActiveOK(n)  BY DEF RunnerInv
<1>1. PICK e : e = s.active[n]
  OBVIOUS
<1>2. e \in ActiveType
  <2>1. s.active \in Seq(ActiveType) /\ n \in DOMAIN s.active
    BY DEF FromRunner, RunnerType
  <2> QED  BY <1>1, <2>1
<1>3. e.results \in Seq(Nat) /\ e.workspace \in Nat /\ e.session \in Nat /\ n \in Nat
      /\ e.session = runner.active[n].session
  BY <1>0, <1>1, <1>2, ActiveTyped DEF ActiveType, FromRunner
<1>4. PICK run : run = Run(n, status, e.results, e.workspace, e.session)
  OBVIOUS
<1>5. /\ run \in RunType /\ run.id = n /\ run.status = status
      /\ run.results = e.results /\ run.session = e.session /\ run.workspace <= Len(s.workspaces)
  BY <1>1, <1>3, <1>4 DEF Run, RunType, FromRunner
<1>6. Records(n, s, run)
  BY <1>1, <1>4 DEF EndRun, Records
<1>7. e.session <= Len(security.sessions) /\ Len(security.sessions) \in Nat
      /\ SecurityShape(security)
  BY <1>0, <1>3, TypeParts DEF ActiveOK, TypeOK
<1>8. /\ SecurityShape(security)' /\ SessionsKept(e.session)
      /\ Len(security'.sessions) = Len(security.sessions)
      /\ e.session # 0 => security'.sessions[e.session].status = "completed"
  <2>1. CASE e.session = 0
    <3>1. security' = security
      BY <1>1, <2>1 DEF EndRun
    <3>2. SecurityShape(security)'
      BY <1>7, <3>1 DEF SecurityShape
    <3> QED  BY <1>7, <2>1, <3>1, <3>2 DEF SessionsKept
  <2>2. CASE e.session # 0
    <3>1. e.session \in 1..Len(security.sessions) /\ security' = CompleteSandboxSession(security, e.session)
      BY <1>1, <1>3, <1>7, <2>2 DEF EndRun
    <3> QED  BY <1>7, <3>1, CompleteKeeps
  <2> QED  BY <2>1, <2>2
<1>9. SessionSettled(run)
  BY <1>3, <1>5, <1>7, <1>8 DEF SessionSettled
<1> QED
  BY <1>1, <1>3, <1>5, <1>6, <1>8, <1>9, RecordKeeps

LEMMA RunnerFromItself ==
    ASSUME RunnerInv, NEW n \in DOMAIN runner.active
    PROVE  /\ FromRunner(n, runner)
           /\ NewConfined(runner)
<1>1. runner \in RunnerType /\ runner.results \in Seq(ResultType) /\ Len(runner.workspaces) \in Nat
  BY TypeParts DEF RunnerInv
<1>2. runner.active[n].workspace <= Len(runner.workspaces)
  BY DEF RunnerInv, ActiveOK
<1> QED  BY <1>1, <1>2 DEF FromRunner, NewConfined

\* The run is recorded without the runner.
LEMMA DropKeeps ==
    ASSUME RunnerInv, NEW n \in DOMAIN runner.active, InFlight(n),
           NEW status \in {"blocked", "failed"}, DropRun(n, runner, status)
    PROVE  RunnerInv'
<1>0. TypeOK /\ ActiveOK(n)  BY DEF RunnerInv
<1>1. PICK run : run = Run(n, status, <<>>, 0, 0)
  OBVIOUS
<1>2. /\ run \in RunType /\ run.id = n /\ run.status = status
      /\ run.results = <<>> /\ run.session = 0 /\ run.workspace <= Len(runner.workspaces)
  BY <1>0, <1>1, ActiveTyped, TypeParts DEF Run, RunType
<1>3. Records(n, runner, run)
  BY <1>1 DEF DropRun, Records
<1>4. security' = security /\ SecurityShape(security) /\ Len(security.sessions) \in Nat
  BY <1>0, TypeParts DEF DropRun, TypeOK
<1>5. SecurityShape(security)' /\ SessionsKept(runner.active[n].session)
  BY <1>4 DEF SecurityShape, SessionsKept
<1>6. OwnResults(runner.results, n, runner.active[n].req, runner.active[n].results)
  BY <1>0 DEF ActiveOK, ResultsOf
<1>7. runner.active[n].req.tests \in Seq(DOMAIN Commands)
  BY <1>0, ActiveTyped, RunnerAssumption
<1>8. OwnResults(runner.results, n, runner.active[n].req, <<>>)
  BY <1>7 DEF OwnResults
<1>9. RecordSays(runner.results, status, <<>>, runner.active[n].req)
  BY DEF RecordSays
<1>10. SessionSettled(run)
  BY <1>2, <1>4 DEF SessionSettled
<1> QED
  BY <1>2, <1>3, <1>5, <1>6, <1>8, <1>9, <1>10, RunnerFromItself, RecordKeeps

(***************************************************************************)
(* A run that goes on                                                      *)
(***************************************************************************)

\* What holds of a run in flight in each of its phases.
PhaseOK(run) ==
    /\ (run.phase # "preparing" /\ Config.kind = "local") => run.req.path # ""
    /\ (run.phase # "testing") => run.results = <<>>
    /\ (run.phase = "testing") =>
          /\ Config.kind = "local" /\ Config.execute
          /\ ValidateWorkspace(run.req.path)
          /\ Len(run.results) < Len(run.req.tests)

LEMMA GoesKeeps ==
    ASSUME RunnerInv, NEW n \in DOMAIN runner.active, InFlight(n), NEW s, FromRunner(n, s),
           runner' = s, UNCHANGED security, s.active[n].phase # "ended", PhaseOK(s.active[n]),
           OwnResults(s.results, n, runner.active[n].req, s.active[n].results), NewConfined(s)
    PROVE  RunnerInv'
<1>0. TypeOK /\ ActiveOK(n) /\ InFlightOK(n) /\ CommandsConfined  BY DEF RunnerInv, ActiveOK
<1>1. TypeOK'
  BY <1>0 DEF TypeOK, SecurityShape, FromRunner
<1>2. ResultsGrow /\ runner'.config = runner.config
  BY DEF ResultsGrow, FromRunner
<1>3. SessionsKept(runner.active[n].session)
  BY <1>0, TypeParts DEF SessionsKept
<1>4. Kept(n, runner.active[n].session)
  BY <1>2, <1>3 DEF Kept, FromRunner
<1>5. PICK run : run = s.active[n]
  OBVIOUS
<1>6. run.req = runner.active[n].req /\ run.session = runner.active[n].session
      /\ runner'.active[n] = run
  BY <1>5 DEF FromRunner
<1>7. Config' = Config
  BY <1>2 DEF Config
<1>8. ValidateWorkspace(run.req.path)' <=> ValidateWorkspace(run.req.path)
  BY <1>7 DEF ValidateWorkspace
<1>9. /\ (run.session # 0) <=> (Config.execute /\ run.req.path # "")
      /\ (run.session # 0) => security.sessions[run.session].status = "active"
      /\ (Config.execute /\ run.req.tests # <<>>) => WordsOf(Requested(run.req)) = {}
  BY <1>0, <1>6 DEF InFlightOK
<1>10. InFlightOK(n)'
  BY <1>5, <1>6, <1>7, <1>8, <1>9 DEF InFlightOK, PhaseOK
<1>11. ActiveOK(n)'
  <2>1. run.session <= Len(security'.sessions)
    BY <1>0, <1>6 DEF ActiveOK
  <2>2. OwnResults(runner'.results, n, run.req, run.results)
    BY <1>5, <1>6
  <2>3. run.workspace <= Len(runner'.workspaces)
    BY <1>5 DEF FromRunner
  <2> QED  BY <1>6, <1>10, <2>1, <2>2, <2>3 DEF ActiveOK, ResultsOf
<1>12. CommandsConfined'
  BY <1>0, <1>1, <1>2, ConfinedStays DEF NewConfined
<1>13. /\ DOMAIN runner'.active = DOMAIN runner.active /\ runner'.runs = runner.runs
       /\ runner'.active[n].session = runner.active[n].session
  BY <1>6 DEF FromRunner
<1> QED
  BY <1>1, <1>4, <1>11, <1>12, <1>13, StepKeeps

Phases == {"preparing", "completing", "testing", "ended"}

LEMMA RunnerRecord ==
    ASSUME NEW c \in RunnerConfigs, NEW a \in Seq(ActiveType), NEW r \in Seq(RunType),
           NEW l \in Seq(ResultType), NEW w \in Seq(WorkspaceType),
           NEW t, t = [config |-> c, active |-> a, runs |-> r, results |-> l, workspaces |-> w]
    PROVE  /\ t \in RunnerType /\ t.config = c /\ t.active = a
           /\ t.runs = r /\ t.results = l /\ t.workspaces = w
  BY DEF RunnerType

SetsPhase(s, n, p, t) == t = [s EXCEPT !.active[n].phase = p]

LEMMA PhaseFields ==
    ASSUME NEW s \in RunnerType, NEW n \in DOMAIN s.active, NEW p \in Phases,
           NEW t, SetsPhase(s, n, p, t)
    PROVE  /\ t \in RunnerType /\ t.config = s.config /\ t.runs = s.runs /\ t.results = s.results
           /\ DOMAIN t.active = DOMAIN s.active
           /\ \A m \in DOMAIN s.active : m # n => t.active[m] = s.active[m]
           /\ t.active[n].phase = p /\ t.active[n].req = s.active[n].req
           /\ t.active[n].session = s.active[n].session /\ t.active[n].results = s.active[n].results
           /\ t.workspaces = s.workspaces /\ t.active[n].workspace = s.active[n].workspace
<1>1. PICK a : a = s.active
  OBVIOUS
<1>2. a \in Seq(ActiveType) /\ n \in DOMAIN a /\ a[n] \in ActiveType
      /\ s.runs \in Seq(RunType) /\ s.results \in Seq(ResultType) /\ s.config \in RunnerConfigs
      /\ s.workspaces \in Seq(WorkspaceType)
  BY <1>1 DEF RunnerType
<1>3. PICK e : e = [a[n] EXCEPT !.phase = p]
  OBVIOUS
<1>4. /\ e \in ActiveType /\ e.phase = p /\ e.req = a[n].req /\ e.session = a[n].session
      /\ e.results = a[n].results /\ e.workspace = a[n].workspace
  BY <1>2, <1>3 DEF ActiveType, Phases
<1>5. PICK b : b = [a EXCEPT ![n] = e]
  OBVIOUS
<1>6. b \in Seq(ActiveType) /\ DOMAIN b = DOMAIN a /\ b[n] = e
      /\ \A m \in DOMAIN a : m # n => b[m] = a[m]
  BY <1>2, <1>4, <1>5
<1>7. t = [config |-> s.config, active |-> b, runs |-> s.runs, results |-> s.results,
           workspaces |-> s.workspaces]
  BY <1>1, <1>3, <1>5 DEF SetsPhase, RunnerType
<1>8. t \in RunnerType /\ t.config = s.config /\ t.results = s.results
      /\ t.runs = s.runs /\ t.active = b /\ t.workspaces = s.workspaces
  BY <1>2, <1>6, <1>7, RunnerRecord
<1> QED
  BY <1>1, <1>4, <1>6, <1>8

LEMMA PrepareKeeps ==
    ASSUME RunnerInv, NEW n \in DOMAIN runner.active, PrepareRun(n)
    PROVE  RunnerInv'
<1>0. TypeOK /\ ActiveOK(n)  BY DEF RunnerInv
<1>1. InFlight(n) /\ runner.active[n].phase = "preparing"
  BY DEF PrepareRun, InFlight
<1>2. OwnResults(runner.results, n, runner.active[n].req, runner.active[n].results)
  BY <1>0 DEF ActiveOK, ResultsOf
<1>3. CASE DropRun(n, runner, "blocked")
  BY <1>1, <1>3, DropKeeps
<1>4. CASE EndRun(n, runner, "blocked")
  <2>1. RecordSays(runner.results, "blocked", runner.active[n].results, runner.active[n].req)
    BY DEF RecordSays
  <2> QED  BY <1>1, <1>2, <1>4, <2>1, RunnerFromItself, EndKeeps
<1>5. CASE /\ ValidateEnvironment(runner.active[n].req)
           /\ runner' = [runner EXCEPT !.active[n].phase = "completing"] /\ UNCHANGED security
  <2>1. PICK t : t = [runner EXCEPT !.active[n].phase = "completing"]
    OBVIOUS
  <2>2. /\ t \in RunnerType /\ t.config = runner.config /\ t.runs = runner.runs /\ t.results = runner.results
        /\ DOMAIN t.active = DOMAIN runner.active
        /\ \A m \in DOMAIN runner.active : m # n => t.active[m] = runner.active[m]
        /\ t.active[n].phase = "completing" /\ t.active[n].req = runner.active[n].req
        /\ t.active[n].session = runner.active[n].session /\ t.active[n].results = runner.active[n].results
        /\ t.workspaces = runner.workspaces /\ t.active[n].workspace = runner.active[n].workspace
    BY <1>0, <2>1, PhaseFields DEF TypeOK, Phases, SetsPhase
  <2>3. /\ runner.results \in Seq(ResultType) /\ Len(runner.workspaces) \in Nat
        /\ runner.active[n].workspace <= Len(runner.workspaces)
    BY <1>0, TypeParts DEF ActiveOK
  <2>4. FromRunner(n, t) /\ NewConfined(t)
    BY <2>2, <2>3 DEF FromRunner, NewConfined
  <2>5. runner.active[n].results = <<>>
    BY <1>0, <1>1 DEF ActiveOK, InFlightOK
  <2>6. PhaseOK(t.active[n])
    BY <1>5, <2>2, <2>5 DEF PhaseOK, ValidateEnvironment
  <2> QED
    BY <1>1, <1>2, <1>5, <2>1, <2>2, <2>4, <2>6, GoesKeeps
<1>6. \/ DropRun(n, runner, "blocked")
      \/ EndRun(n, runner, "blocked")
      \/ /\ ValidateEnvironment(runner.active[n].req)
         /\ runner' = [runner EXCEPT !.active[n].phase = "completing"] /\ UNCHANGED security
  <2>1. CASE ~ValidateEnvironment(runner.active[n].req)
    BY <2>1 DEF PrepareRun
  <2>2. CASE ValidateEnvironment(runner.active[n].req)
    BY <2>2, Zenon DEF PrepareRun
  <2> QED  BY <2>1, <2>2
<1> QED
  BY <1>3, <1>4, <1>5, <1>6

LEMMA WorkspaceFields ==
    ASSUME RunnerInv, NEW n \in DOMAIN runner.active, NEW t, t = CreateWorkspace(n)
    PROVE  /\ FromRunner(n, t) /\ NewConfined(t) /\ t.results = runner.results
           /\ t.active[n].phase = runner.active[n].phase /\ t.active[n].results = runner.active[n].results
<1>0. TypeOK  BY DEF RunnerInv
<1>1. PICK a : a = runner.active
  OBVIOUS
<1>2. a \in Seq(ActiveType) /\ n \in DOMAIN a /\ a[n] \in ActiveType
      /\ runner.runs \in Seq(RunType) /\ runner.results \in Seq(ResultType)
      /\ runner.config \in RunnerConfigs /\ runner.workspaces \in Seq(WorkspaceType)
  BY <1>0, <1>1, TypeParts
<1>3. PICK e : e = [a[n] EXCEPT !.workspace = Len(runner.workspaces) + 1]
  OBVIOUS
<1>4. /\ e \in ActiveType /\ e.phase = a[n].phase /\ e.req = a[n].req /\ e.session = a[n].session
      /\ e.results = a[n].results /\ e.workspace = Len(runner.workspaces) + 1
  <2>1. PICK l : l = Len(runner.workspaces) + 1
    OBVIOUS
  <2>2. l \in Nat
    BY <1>2, <2>1
  <2>3. e = [a[n] EXCEPT !.workspace = l] /\ a[n] \in ActiveType
    BY <1>2, <1>3, <2>1
  <2> QED  BY <2>1, <2>2, <2>3 DEF ActiveType
<1>5. PICK w : w = [path |-> a[n].req.path,
                    status |-> IF ValidateWorkspace(a[n].req.path) THEN "ready" ELSE "rejected"]
  OBVIOUS
<1>6. w \in WorkspaceType
  <2>1. a[n].req.path \in Paths
    BY <1>2 DEF ActiveType, Paths
  <2> QED  BY <1>5, <2>1 DEF WorkspaceType
<1>7. PICK b, c : b = [a EXCEPT ![n] = e] /\ c = Append(runner.workspaces, w)
  OBVIOUS
<1>13. Len(c) = Len(runner.workspaces) + 1 /\ Len(runner.workspaces) \in Nat
  BY <1>2, <1>6, <1>7
<1>8. b \in Seq(ActiveType) /\ c \in Seq(WorkspaceType) /\ DOMAIN b = DOMAIN a /\ b[n] = e
      /\ \A m \in DOMAIN a : m # n => b[m] = a[m]
  BY <1>2, <1>4, <1>6, <1>7
<1>9. t = [config |-> runner.config, active |-> b, runs |-> runner.runs, results |-> runner.results,
           workspaces |-> c]
  BY <1>0, <1>1, <1>3, <1>5, <1>7 DEF CreateWorkspace, TypeOK, RunnerType
<1>10. t \in RunnerType /\ t.config = runner.config /\ t.results = runner.results
       /\ t.runs = runner.runs /\ t.active = b /\ t.workspaces = c
  BY <1>2, <1>8, <1>9, RunnerRecord
<1>11. NewConfined(t)
  BY <1>2, <1>10 DEF NewConfined
<1>12. FromRunner(n, t)
  <2>1. Len(runner.workspaces) <= Len(t.workspaces) /\ t.active[n].workspace <= Len(t.workspaces)
    BY <1>4, <1>8, <1>10, <1>13
  <2> QED  BY <1>1, <1>2, <1>4, <1>8, <1>10, <2>1 DEF FromRunner
<1> QED
  BY <1>1, <1>4, <1>8, <1>10, <1>11, <1>12

LEMMA AnswerKeeps ==
    ASSUME RunnerInv, NEW n \in DOMAIN runner.active, NEW ok \in BOOLEAN, LlmAnswers(n, ok)
    PROVE  RunnerInv'
<1>0. TypeOK /\ ActiveOK(n)  BY DEF RunnerInv
<1>1. PICK req : req = runner.active[n].req
  OBVIOUS
<1>2. PICK t : t = CreateWorkspace(n)
  OBVIOUS
<1>3. InFlight(n) /\ runner.active[n].phase = "completing"
  BY DEF LlmAnswers, InFlight
<1>4. /\ runner.active[n].results = <<>>
      /\ Config.kind = "local" => req.path # ""
  BY <1>0, <1>1, <1>3 DEF ActiveOK, InFlightOK
<1>5. OwnResults(runner.results, n, req, <<>>)
  BY <1>0, <1>1, <1>4 DEF ActiveOK, ResultsOf
<1>6. /\ FromRunner(n, t) /\ NewConfined(t) /\ t.results = runner.results
      /\ t.active[n].phase = "completing" /\ t.active[n].results = <<>>
  BY <1>2, <1>3, <1>4, WorkspaceFields
<1>7. req.tests \in Seq(DOMAIN Commands) /\ Config.kind \in {"mock", "local"}
  BY <1>0, <1>1, ActiveTyped, TypeParts, RunnerAssumption DEF Config
<1>8. RecordSays(runner.results, "blocked", <<>>, req) /\ RecordSays(runner.results, "failed", <<>>, req)
  BY DEF RecordSays
<1>9. CASE \E status \in {"blocked", "failed"} : EndRun(n, runner, status)
  BY <1>1, <1>3, <1>4, <1>5, <1>8, <1>9, RunnerFromItself, EndKeeps
<1>10. CASE EndRun(n, runner, "completed") /\ ~(Config.kind = "local" /\ Config.execute)
  <2>1. RecordSays(runner.results, "completed", <<>>, req)
    BY <1>10 DEF RecordSays
  <2> QED  BY <1>1, <1>3, <1>4, <1>5, <1>10, <2>1, RunnerFromItself, EndKeeps
<1>11. CASE EndRun(n, t, "blocked")
  BY <1>1, <1>3, <1>5, <1>6, <1>8, <1>11, EndKeeps
<1>12. CASE EndRun(n, t, "completed") /\ req.tests = <<>>
  <2>1. RecordSays(runner.results, "completed", <<>>, req)
    BY <1>12 DEF RecordSays
  <2> QED  BY <1>1, <1>3, <1>5, <1>6, <1>12, <2>1, EndKeeps
<1>13. CASE /\ Config.kind = "local" /\ Config.execute /\ ValidateWorkspace(req.path) /\ req.tests # <<>>
            /\ runner' = [t EXCEPT !.active[n].phase = "testing"] /\ UNCHANGED security
  <2>0. PICK u : u = [t EXCEPT !.active[n].phase = "testing"]
    OBVIOUS
  <2>1. SetsPhase(t, n, "testing", u) /\ t \in RunnerType /\ n \in DOMAIN t.active
    BY <1>6, <2>0 DEF SetsPhase, FromRunner
  <2>2. /\ u \in RunnerType /\ u.config = t.config /\ u.runs = t.runs /\ u.results = t.results
        /\ DOMAIN u.active = DOMAIN t.active
        /\ \A m \in DOMAIN t.active : m # n => u.active[m] = t.active[m]
        /\ u.active[n].phase = "testing" /\ u.active[n].req = t.active[n].req
        /\ u.active[n].session = t.active[n].session /\ u.active[n].results = t.active[n].results
        /\ u.workspaces = t.workspaces /\ u.active[n].workspace = t.active[n].workspace
    BY <2>1, PhaseFields DEF Phases
  <2>3. FromRunner(n, u) /\ NewConfined(u)
    BY <1>6, <2>2 DEF FromRunner, NewConfined
  <2>4. u.active[n].req = req
    BY <1>1, <1>6, <2>2 DEF FromRunner
  <2>5. Len(req.tests) > 0 /\ Len(<<>>) = 0
    BY <1>7, <1>13
  <2>6. PhaseOK(u.active[n])
    BY <1>4, <1>6, <1>13, <2>2, <2>4, <2>5 DEF PhaseOK
  <2> QED
    BY ZenonT(40), <1>1, <1>3, <1>5, <1>6, <1>13, <2>0, <2>2, <2>3, <2>6, GoesKeeps
<1>14. \/ \E status \in {"blocked", "failed"} : EndRun(n, runner, status)
       \/ EndRun(n, runner, "completed") /\ ~(Config.kind = "local" /\ Config.execute)
       \/ EndRun(n, t, "blocked")
       \/ EndRun(n, t, "completed") /\ req.tests = <<>>
       \/ /\ Config.kind = "local" /\ Config.execute /\ ValidateWorkspace(req.path) /\ req.tests # <<>>
          /\ runner' = [t EXCEPT !.active[n].phase = "testing"] /\ UNCHANGED security
  <2>1. CASE ~ok
    BY <2>1 DEF LlmAnswers
  <2>2. CASE ok /\ Config.kind = "mock"
    BY <1>1, <2>2 DEF LlmAnswers
  <2>3. CASE ok /\ Config.kind = "local" /\ ~Config.execute
    BY <2>3 DEF LlmAnswers
  <2>4. CASE ok /\ Config.kind = "local" /\ Config.execute
    BY <1>1, <1>2, <2>4 DEF LlmAnswers
  <2> QED  BY <1>7, <2>1, <2>2, <2>3, <2>4
<1> QED
  BY <1>9, <1>10, <1>11, <1>12, <1>13, <1>14

(***************************************************************************)
(* Commands                                                                *)
(***************************************************************************)

Kinds == {"blocked", "completed", "failed", "timed_out"}

\* The command at a position of a request is one of those requested.
LEMMA TestIsRequested ==
    ASSUME NEW req \in RunRequests, NEW j \in 1..Len(req.tests)
    PROVE  req.tests[j] \in Requested(req) /\ req.tests[j] \in DOMAIN Commands
<1>1. req.tests \in Seq(DOMAIN Commands)
  BY RunnerAssumption
<1> QED  BY <1>1 DEF Requested, ToSet

LEMMA NoWords ==
    ASSUME NEW names, WordsOf(names) = {}, NEW c \in names
    PROVE  Commands[c].words = {}
  BY DEF WordsOf

\* What is started in a run is confined.
LEMMA TestConfined ==
    ASSUME RunnerInv, NEW n \in DOMAIN runner.active, NEW command, NEW outcome \in Kinds,
           runner.active[n].phase = "testing", command \in Requested(runner.active[n].req),
           runner.active[n].req.tests # <<>>,
           outcome \in ExecuteCommand(command, runner.active[n].req.allowed, TRUE),
           NEW r, r = [run |-> n, command |-> command, path |-> runner.active[n].req.path, status |-> outcome]
    PROVE  ResultConfined(runner.config, r)
<1>1. PICK req : req = runner.active[n].req
  OBVIOUS
<1>2. InFlightOK(n)
  BY DEF RunnerInv, ActiveOK, InFlight
<1>3. /\ Config.kind = "local" /\ Config.execute /\ ValidateWorkspace(req.path)
      /\ WordsOf(Requested(req)) = {}
  BY <1>1, <1>2 DEF InFlightOK
<1>4. Commands[command].words = {}
  BY <1>1, <1>3, NoWords
<1>5. ASSUME outcome # "blocked"
      PROVE  ~Commands[command].shell /\ Commands[command].executable = "allowed"
  BY <1>5 DEF ExecuteCommand, ValidateCommand
<1>6. req.path \in runner.config.root \cup {"temp"} /\ req.path \notin {"repository", "filesystem"}
  BY <1>3 DEF ValidateWorkspace, Config
<1>7. r.command = command /\ r.path = req.path /\ r.status = outcome
  BY <1>1
<1> QED
  BY <1>3, <1>4, <1>5, <1>6, <1>7 DEF ResultConfined, Config

\* The runner with one more result of run n.
Saved(n, command, outcome) ==
    [SaveCommandResult(runner, n, command, runner.active[n].req.path, outcome) EXCEPT
        !.active[n].results = Append(@, Len(runner.results) + 1)]

\* The runner with one more result of the run that is n-th in flight.
Grown(n, t) ==
    /\ FromRunner(n, t) /\ t.active[n].phase = runner.active[n].phase
    /\ t.active[n].results = Append(runner.active[n].results, Len(runner.results) + 1)

LEMMA SavedFields ==
    ASSUME RunnerInv, NEW n \in DOMAIN runner.active, NEW command \in DOMAIN Commands,
           NEW outcome \in Kinds, NEW t, t = Saved(n, command, outcome)
    PROVE  /\ Grown(n, t)
           /\ t.results = Append(runner.results,
                                 [run |-> n, command |-> command, path |-> runner.active[n].req.path,
                                  status |-> outcome])
<1>0. TypeOK  BY DEF RunnerInv
<1>1. PICK a : a = runner.active
  OBVIOUS
<1>2. a \in Seq(ActiveType) /\ n \in DOMAIN a /\ a[n] \in ActiveType /\ n \in Nat
      /\ runner.runs \in Seq(RunType) /\ runner.results \in Seq(ResultType)
      /\ runner.config \in RunnerConfigs /\ runner.workspaces \in Seq(WorkspaceType)
  BY <1>0, <1>1, TypeParts, ActiveTyped
<1>3. PICK own : own = Append(a[n].results, Len(runner.results) + 1)
  OBVIOUS
<1>4. own \in Seq(Nat)
  <2>1. a[n].results \in Seq(Nat) /\ Len(runner.results) + 1 \in Nat
    BY <1>2 DEF ActiveType
  <2> QED  BY <1>3, <2>1
<1>5. PICK e : e = [a[n] EXCEPT !.results = own]
  OBVIOUS
<1>6. /\ e \in ActiveType /\ e.phase = a[n].phase /\ e.req = a[n].req /\ e.session = a[n].session
      /\ e.results = own /\ e.workspace = a[n].workspace
  BY <1>2, <1>4, <1>5 DEF ActiveType
<1>7. PICK r : r = [run |-> n, command |-> command, path |-> a[n].req.path, status |-> outcome]
  OBVIOUS
<1>8. r \in ResultType
  <2>1. a[n].req.path \in Paths
    BY <1>2 DEF ActiveType, Paths
  <2> QED  BY <1>2, <1>7, <2>1 DEF ResultType, Kinds
<1>9. PICK b, l : b = [a EXCEPT ![n] = e] /\ l = Append(runner.results, r)
  OBVIOUS
<1>10. b \in Seq(ActiveType) /\ DOMAIN b = DOMAIN a /\ b[n] = e
       /\ \A m \in DOMAIN a : m # n => b[m] = a[m]
  BY <1>2, <1>6, <1>9
<1>11. l \in Seq(ResultType) /\ Len(runner.results) <= Len(l)
       /\ \A i \in 1..Len(runner.results) : l[i] = runner.results[i]
  BY <1>2, <1>8, <1>9
<1>12. t = [config |-> runner.config, active |-> b, runs |-> runner.runs, results |-> l,
            workspaces |-> runner.workspaces]
  BY <1>0, <1>1, <1>3, <1>5, <1>7, <1>9 DEF Saved, SaveCommandResult, TypeOK, RunnerType
<1>13. t \in RunnerType /\ t.config = runner.config /\ t.results = l
       /\ t.runs = runner.runs /\ t.active = b /\ t.workspaces = runner.workspaces
  BY <1>2, <1>10, <1>11, <1>12, RunnerRecord
<1>14. FromRunner(n, t)
  <2>1. Len(runner.workspaces) \in Nat /\ a[n].workspace <= Len(runner.workspaces)
    BY <1>1, <1>2 DEF RunnerInv, ActiveOK
  <2> QED  BY <1>1, <1>6, <1>10, <1>11, <1>13, <2>1 DEF FromRunner
<1> QED
  BY <1>1, <1>3, <1>6, <1>7, <1>9, <1>10, <1>13, <1>14 DEF Grown

LEMMA LastAppended ==
    ASSUME NEW log \in Seq(ResultType), NEW r \in ResultType
    PROVE  \A i \in 1..Len(Append(log, r)) : i > Len(log) => Append(log, r)[i] = r
  OBVIOUS

LEMMA OwnGrows ==
    ASSUME NEW log \in Seq(ResultType), NEW r \in ResultType, NEW n, NEW req, NEW own \in Seq(Nat),
           req.tests \in Seq(DOMAIN Commands), Len(own) < Len(req.tests), OwnResults(log, n, req, own),
           r.run = n, r.command = req.tests[Len(own) + 1],
           NEW log2, log2 = Append(log, r), NEW own2, own2 = Append(own, Len(log) + 1)
    PROVE  OwnResults(log2, n, req, own2)
<1>1. /\ Len(log) + 1 \in DOMAIN log2 /\ log2[Len(log) + 1] = r
      /\ \A i \in DOMAIN log : i \in DOMAIN log2 /\ log2[i] = log[i]
  OBVIOUS
<1>2. /\ Len(own2) = Len(own) + 1 /\ own2[Len(own) + 1] = Len(log) + 1
      /\ \A j \in 1..Len(own) : own2[j] = own[j]
  OBVIOUS
<1>3. Len(own2) <= Len(req.tests)
  BY <1>2
<1>4. ASSUME NEW j \in 1..Len(own2)
      PROVE  own2[j] \in DOMAIN log2 /\ log2[own2[j]].run = n /\ log2[own2[j]].command = req.tests[j]
  <2>1. CASE j = Len(own) + 1
    BY <1>1, <1>2, <2>1
  <2>2. CASE j # Len(own) + 1
    <3>1. j \in 1..Len(own)
      BY <1>2, <2>2
    <3>2. own[j] \in DOMAIN log /\ log[own[j]].run = n /\ log[own[j]].command = req.tests[j]
      BY <3>1 DEF OwnResults
    <3> QED  BY <1>1, <1>2, <3>1, <3>2
  <2> QED  BY <2>1, <2>2
<1> QED  BY <1>3, <1>4 DEF OwnResults

\* With that result the results of the run are still its own, and confined.
LEMMA SavedOwn ==
    ASSUME RunnerInv, NEW n \in DOMAIN runner.active, runner.active[n].phase = "testing",
           NEW outcome \in Kinds, NEW command,
           command = runner.active[n].req.tests[Len(runner.active[n].results) + 1],
           outcome \in ExecuteCommand(command, runner.active[n].req.allowed, TRUE),
           NEW t, t = Saved(n, command, outcome)
    PROVE  /\ command \in DOMAIN Commands
           /\ OwnResults(t.results, n, runner.active[n].req, t.active[n].results)
           /\ NewConfined(t)
<1>0. TypeOK /\ ActiveOK(n) /\ InFlightOK(n)
  BY DEF RunnerInv, ActiveOK, InFlight
<1>1. PICK req, own : req = runner.active[n].req /\ own = runner.active[n].results
  OBVIOUS
<1>2. /\ req \in RunRequests /\ own \in Seq(Nat) /\ Len(own) < Len(req.tests)
      /\ req.tests \in Seq(DOMAIN Commands)
  BY <1>0, <1>1, ActiveTyped, RunnerAssumption DEF InFlightOK
<1>3. command \in DOMAIN Commands /\ command \in Requested(req) /\ req.tests # <<>>
      /\ command = req.tests[Len(own) + 1]
  <2>1. Len(own) + 1 \in 1..Len(req.tests)
    BY <1>2
  <2>2. command = req.tests[Len(own) + 1]
    BY <1>1
  <2>3. \A j \in 1..Len(req.tests) : req.tests[j] \in Requested(req) /\ req.tests[j] \in DOMAIN Commands
    BY <1>2, TestIsRequested
  <2>4. req.tests # <<>>
    BY <1>2, <2>1
  <2> QED  BY <2>1, <2>2, <2>3, <2>4
<1>4. PICK log : log = runner.results
  OBVIOUS
<1>5. PICK r : r = [run |-> n, command |-> command, path |-> runner.active[n].req.path, status |-> outcome]
  OBVIOUS
<1>6. /\ log \in Seq(ResultType) /\ t.results = Append(log, r)
      /\ t.active[n].results = Append(own, Len(log) + 1)
  <2>1. log \in Seq(ResultType)
    BY <1>0, <1>4, TypeParts
  <2>2. /\ t.results = Append(runner.results, r)
        /\ t.active[n].results = Append(runner.active[n].results, Len(runner.results) + 1)
    BY <1>3, <1>5, SavedFields DEF Grown
  <2> QED
    BY <1>1, <1>4, <2>1, <2>2
<1>7. r.run = n /\ r.command = command
  BY <1>5
<1>13. r \in ResultType
  <2>1. n \in Nat /\ req.path \in Paths
    BY <1>0, <1>2, ActiveTyped DEF Paths
  <2> QED  BY <1>1, <1>3, <1>5, <2>1 DEF ResultType, Kinds
<1>8. OwnResults(log, n, req, own)
  BY <1>0, <1>1, <1>4 DEF ActiveOK, ResultsOf
<1>9. OwnResults(t.results, n, req, t.active[n].results)
  BY <1>2, <1>3, <1>6, <1>7, <1>8, <1>13, OwnGrows
<1>10. ResultConfined(runner.config, r)
  BY <1>1, <1>3, <1>5, TestConfined
<1>11. ASSUME NEW i \in 1..Len(t.results), i > Len(log)
       PROVE  ResultConfined(runner.config, t.results[i])
  BY <1>6, <1>10, <1>11, <1>13, LastAppended
<1>12. NewConfined(t)
  BY <1>4, <1>11 DEF NewConfined
<1> QED
  BY <1>1, <1>3, <1>9, <1>12

\* The status of a run says what its results say.
LEMMA StatusSays ==
    ASSUME NEW log \in Seq(ResultType), NEW own \in Seq(Nat), NEW n, NEW req,
           OwnResults(log, n, req, own), Len(own) = Len(req.tests),
           NEW status, status = RunStatus(log, own)
    PROVE  status \in {"blocked", "failed", "completed"} /\ RecordSays(log, status, own, req)
<1>1. PICK found : found = {log[own[j]].status : j \in 1..Len(own)}
  OBVIOUS
<1>2. found = {log[k].status : k \in ToSet(own)}
  BY <1>1 DEF ToSet
<1>3. found \subseteq Kinds
  <2>1. ASSUME NEW j \in 1..Len(own) PROVE log[own[j]].status \in Kinds
    <3>1. own[j] \in DOMAIN log
      BY DEF OwnResults
    <3>2. log[own[j]] \in ResultType
      BY <3>1
    <3> QED  BY <3>2 DEF ResultType, Kinds
  <2> QED  BY <1>1, <2>1
<1>4. status = IF "blocked" \in found THEN "blocked"
               ELSE IF found \cap {"failed", "timed_out"} # {} THEN "failed" ELSE "completed"
  BY <1>2 DEF RunStatus
<1>5. status = "completed" => found \subseteq {"completed"}
  BY <1>3, <1>4 DEF Kinds
<1>6. status = "failed" => "blocked" \notin found
  BY <1>4
<1> QED
  BY <1>1, <1>4, <1>5, <1>6 DEF RecordSays

LEMMA TestKeeps ==
    ASSUME RunnerInv, NEW n \in DOMAIN runner.active, NEW outcome \in Outcomes, ExecuteTestCommand(n, outcome)
    PROVE  RunnerInv'
<1>0. TypeOK /\ ActiveOK(n)  BY DEF RunnerInv
<1>1. PICK req, own : req = runner.active[n].req /\ own = runner.active[n].results
  OBVIOUS
<1>2. PICK command : command = req.tests[Len(own) + 1]
  OBVIOUS
<1>3. /\ InFlight(n) /\ runner.active[n].phase = "testing"
      /\ outcome \in ExecuteCommand(command, req.allowed, TRUE)
  BY <1>1, <1>2 DEF ExecuteTestCommand, InFlight
<1>4. CASE outcome = "thrown"
  <2>1. DropRun(n, runner, "failed")
    BY <1>4 DEF ExecuteTestCommand
  <2> QED  BY <1>3, <2>1, DropKeeps
<1>5. CASE outcome # "thrown"
  <2>1. PICK t : t = Saved(n, command, outcome)
    OBVIOUS
  <2>2. outcome \in Kinds
    BY <1>5 DEF Outcomes, Kinds
  <2>3. /\ command \in DOMAIN Commands /\ NewConfined(t)
        /\ OwnResults(t.results, n, req, t.active[n].results)
    <3>1. /\ command = runner.active[n].req.tests[Len(runner.active[n].results) + 1]
          /\ outcome \in ExecuteCommand(command, runner.active[n].req.allowed, TRUE)
      BY ZenonT(40), <1>1, <1>2, <1>3
    <3>2. /\ command \in DOMAIN Commands /\ NewConfined(t)
          /\ OwnResults(t.results, n, runner.active[n].req, t.active[n].results)
      BY ZenonT(40), <1>3, <2>1, <2>2, <3>1, SavedOwn
    <3> QED  BY ZenonT(40), <1>1, <3>2
  <2>4. /\ FromRunner(n, t) /\ t.active[n].phase = "testing"
        /\ t.active[n].results = Append(own, Len(runner.results) + 1)
    <3>1. runner.active[n].phase = "testing" /\ own = runner.active[n].results
      BY <1>1, <1>3
    <3>2. command \in DOMAIN Commands
      BY <2>3
    <3>3. Grown(n, t)
      BY <2>1, <2>2, <3>2, SavedFields
    <3> QED  BY <3>1, <3>3 DEF Grown
  <2>5. /\ t.results \in Seq(ResultType) /\ t.active[n].results \in Seq(Nat)
        /\ Len(t.active[n].results) = Len(own) + 1
    <3>1. own \in Seq(Nat) /\ Len(runner.results) + 1 \in Nat
      BY <1>0, <1>1, ActiveTyped, TypeParts
    <3>2. t.results \in Seq(ResultType)
      BY <2>4 DEF FromRunner, RunnerType
    <3>3. PICK l, u : l = Len(runner.results) + 1 /\ u = t.active[n].results
      OBVIOUS
    <3>4. u = Append(own, l) /\ l \in Nat
      BY <2>4, <3>1, <3>3
    <3>5. u \in Seq(Nat) /\ Len(u) = Len(own) + 1
      BY <3>1, <3>4, AppendProperties
    <3> QED  BY <3>2, <3>3, <3>5, Zenon
  <2>6. /\ Len(own) < Len(req.tests) /\ req.path # ""
        /\ Config.kind = "local" /\ Config.execute /\ ValidateWorkspace(req.path)
    <3>1. InFlightOK(n)
      BY <1>0, <1>3 DEF ActiveOK
    <3> QED  BY <1>1, <1>3, <3>1 DEF InFlightOK
  <2>9. Len(own) \in Nat /\ Len(req.tests) \in Nat /\ Len(own) < Len(req.tests)
    <3>1. Len(own) < Len(req.tests)
      BY <2>6
    <3>2. own \in Seq(Nat) /\ req.tests \in Seq(DOMAIN Commands)
      BY <1>0, <1>1, ActiveTyped, RunnerAssumption
    <3> QED  BY <3>1, <3>2
  <2>7. CASE Len(own) + 1 = Len(req.tests)
    <3>1. PICK status : status = RunStatus(t.results, t.active[n].results)
      OBVIOUS
    <3>2. EndRun(n, t, status)
      <4>1. EndRun(n, t, RunStatus(t.results, t.active[n].results))
        BY <1>1, <1>2, <1>5, <2>1, <2>7 DEF ExecuteTestCommand, Saved
      <4> QED  BY <3>1, <4>1
    <3>3. status \in {"blocked", "failed", "completed"}
          /\ RecordSays(t.results, status, t.active[n].results, req)
      BY <2>3, <2>5, <2>7, <3>1, StatusSays
    <3> QED  BY <1>1, <1>3, <2>3, <2>4, <3>2, <3>3, EndKeeps
  <2>8. CASE Len(own) + 1 # Len(req.tests)
    <3>1. runner' = t /\ UNCHANGED security
      BY <1>1, <1>2, <1>5, <2>1, <2>8 DEF ExecuteTestCommand, Saved
    <3>2. t.active[n].req = req
      BY <1>1, <2>4 DEF FromRunner
    <3>3. PhaseOK(t.active[n])
      <4>1. Len(t.active[n].results) < Len(req.tests)
        BY <2>5, <2>8, <2>9
      <4> QED  BY <2>4, <2>6, <3>2, <4>1 DEF PhaseOK
    <3> QED  BY <1>1, <1>3, <2>3, <2>4, <3>1, <3>3, GoesKeeps
  <2> QED  BY <2>7, <2>8
<1> QED  BY <1>4, <1>5

\* A step that is about no run in flight.
LEMMA AsideKeeps ==
    ASSUME RunnerInv, TypeOK', Kept(0, 0), runner'.active = runner.active, runner'.runs = runner.runs,
           CommandsConfined'
    PROVE  RunnerInv'
<1>0. TypeOK /\ SessionsApart  BY DEF RunnerInv
<1>1. 0 \notin DOMAIN runner.active
  BY <1>0, TypeParts
<1>2. ASSUME NEW m \in DOMAIN runner'.active PROVE ActiveOK(m)'
  BY <1>1, OthersStay
<1>3. ASSUME NEW k \in DOMAIN runner'.runs PROVE RecordOK(k)'
  BY <1>1, RecordsStay
<1>4. SessionsApart'
  BY <1>0 DEF SessionsApart
<1> QED  BY <1>2, <1>3, <1>4 DEF RunnerInv

\* Commands the policy allows contain no word of the network or of remote Git.
LEMMA PolicyWords ==
    ASSUME TypeOK, NEW names \in SUBSET DOMAIN Commands, NEW h \in BOOLEAN, NEW w \in BOOLEAN,
           CommandsAllowed(names, h, w)
    PROVE  WordsOf(names) = {}
<1>1. PICK words, e : words = WordsOf(names) /\ e = Config.execute
  OBVIOUS
<1>0. e \in BOOLEAN
  BY <1>1, TypeParts, RunnerAssumption DEF Config
<1>2. /\ words \in SUBSET UNION {Commands[c].words : c \in DOMAIN Commands}
      /\ words \subseteq NetworkWords \cup RemoteGitWords
  BY <1>1, RunnerAssumption DEF WordsOf
<1>7. PICK facts : facts = [localCommandExecutionEnabled |-> e, harnessAllowed |-> h, workspaceSafe |-> w]
  OBVIOUS
<1>8. facts \in [localCommandExecutionEnabled : BOOLEAN, harnessAllowed : BOOLEAN, workspaceSafe : BOOLEAN]
  BY <1>0, <1>7
<1>3. PICK r : r = [Request("runner.command.execute", "command") EXCEPT
                       !.roles = {"system"}, !.words = words, !.env = facts]
  OBVIOUS
<1>4. CommandPolicy[words][facts] = Allowed(r)
  BY <1>2, <1>3, <1>8 DEF CommandPolicy
<1>9. Allowed(r)
  BY <1>1, <1>4, <1>7 DEF CommandsAllowed
<1>5. r.action = "runner.command.execute" /\ r.kind = "command" /\ r.words = words
  BY <1>3 DEF Request
<1>6. words \cap (NetworkWords \cup RemoteGitWords) = {}
  BY <1>5, <1>9, WordsAreRefused
<1> QED  BY <1>1, <1>2, <1>6

LEMMA PostKeeps ==
    ASSUME RunnerInv, NEW k \in DOMAIN runner.runs, NEW order \in Orders, NEW outcome \in Outcomes,
           PostCommand(k, order, outcome)
    PROVE  RunnerInv'
<1>0. TypeOK /\ RecordOK(k) /\ CommandsConfined  BY DEF RunnerInv
<1>1. PICK run : run = runner.runs[k]
  OBVIOUS
<1>2. PICK path : path = OrderPath(run, order)
  OBVIOUS
<1>3. PICK r : r = [run |-> run.id, command |-> order.command, path |-> path, status |-> outcome]
  OBVIOUS
<1>4. /\ runner' = SaveCommandResult(runner, run.id, order.command, path, outcome)
      /\ security' = security /\ outcome \in ExecuteCommandForRun(run, order) /\ outcome \in Kinds
  BY <1>1, <1>2 DEF PostCommand, Outcomes, Kinds
<1>5. run.id \in Nat /\ run.workspace \in Nat /\ order.command \in DOMAIN Commands
  BY <1>0, <1>1, RunTyped, RunnerAssumption
<1>6. path \in Paths
  <2>1. CASE order.path # ""
    BY <1>2, <2>1 DEF OrderPath, Paths
  <2>2. CASE order.path = "" /\ run.workspace = 0
    BY <1>2, <2>2 DEF OrderPath, Paths
  <2>3. CASE order.path = "" /\ run.workspace # 0
    <3>1. PICK w : w = runner.workspaces
      OBVIOUS
    <3>2. w \in Seq(WorkspaceType) /\ run.workspace <= Len(w)
      BY <1>0, <1>1, <3>1, TypeParts DEF RecordOK
    <3>3. w[run.workspace] \in WorkspaceType
      <4>0. PICK i : i = run.workspace
        OBVIOUS
      <4>1. i \in 1..Len(w)
        <5>1. i \in Nat /\ i # 0 /\ i <= Len(w)
          BY <1>5, <2>3, <3>2, <4>0
        <5>2. Len(w) \in Nat
          BY <3>2
        <5> QED  BY <5>1, <5>2
      <4>2. w[i] \in WorkspaceType
        BY <3>2, <4>1
      <4> QED  BY <4>0, <4>2
    <3>4. path = w[run.workspace].path
      BY <1>2, <2>3, <3>1 DEF OrderPath
    <3> QED  BY <3>3, <3>4 DEF WorkspaceType
  <2> QED  BY <2>1, <2>2, <2>3
<1>7. PICK log : log = runner.results
  OBVIOUS
<1>8. r \in ResultType /\ log \in Seq(ResultType)
  BY <1>0, <1>3, <1>4, <1>5, <1>6, <1>7, TypeParts DEF ResultType, Kinds
<1>9. PICK l : l = Append(log, r)
  OBVIOUS
<1>10. /\ l \in Seq(ResultType) /\ Len(log) <= Len(l)
       /\ \A i \in 1..Len(log) : l[i] = log[i]
       /\ \A i \in 1..Len(l) : i > Len(log) => l[i] = r
  BY <1>8, <1>9
<1>11. /\ runner' \in RunnerType /\ runner'.config = runner.config /\ runner'.active = runner.active
       /\ runner'.runs = runner.runs /\ runner'.results = l /\ runner'.workspaces = runner.workspaces
  <2>1. runner' = [config |-> runner.config, active |-> runner.active, runs |-> runner.runs,
                   results |-> l, workspaces |-> runner.workspaces]
    BY <1>0, <1>3, <1>4, <1>7, <1>9 DEF SaveCommandResult, TypeOK, RunnerType
  <2> QED  BY <1>0, <1>10, <2>1, RunnerRecord, TypeParts
<1>12. TypeOK'
  BY <1>0, <1>4, <1>11 DEF TypeOK, SecurityShape
<1>13. ResultsGrow
  BY <1>7, <1>10, <1>11 DEF ResultsGrow
<1>14. Kept(0, 0)
  <2>1. SessionsKept(0) /\ Len(runner.workspaces) <= Len(runner'.workspaces)
    BY <1>0, <1>4, <1>11, <1>12, Lengths DEF SessionsKept
  <2> QED  BY <1>11, <1>13, <2>1 DEF Kept
<1>15. ASSUME outcome # "blocked" PROVE ResultConfined(runner.config, r)
  <2>1. /\ CommandsAllowed({order.command}, order.allowed # {}, path # "")
        /\ Config.execute /\ Config.kind = "local" /\ ValidateWorkspace(path)
        /\ outcome \in ExecuteCommand(order.command, order.allowed, order.defaultDenied)
    BY <1>2, <1>4, <1>15 DEF ExecuteCommandForRun
  <2>2. WordsOf({order.command}) = {}
    BY <1>0, <1>5, <2>1, PolicyWords
  <2>3. Commands[order.command].words = {}
    BY <2>2, NoWords
  <2>4. ~Commands[order.command].shell /\ Commands[order.command].executable = "allowed"
    BY <1>15, <2>1 DEF ExecuteCommand, ValidateCommand
  <2>5. path \in runner.config.root \cup {"temp"} /\ path \notin {"repository", "filesystem"}
    BY <2>1 DEF ValidateWorkspace, Config
  <2>6. r.command = order.command /\ r.path = path /\ r.status = outcome
    BY <1>3
  <2> QED
    BY <2>1, <2>3, <2>4, <2>5, <2>6 DEF ResultConfined, Config
<1>16. ResultConfined(runner.config, r)
  BY <1>3, <1>15 DEF ResultConfined
<1>17. CommandsConfined'
  BY <1>0, <1>7, <1>10, <1>11, <1>12, <1>13, <1>16, ConfinedStays
<1> QED
  BY <1>11, <1>12, <1>14, <1>17, AsideKeeps

(***************************************************************************)
(* The security service, and the start of a run                            *)
(***************************************************************************)

LEMMA SessionAdded ==
    ASSUME SecurityShape(security), NEW id \in DOMAIN SeedProfiles \cup {"unknown"},
           security' = WithSession(security, id)
    PROVE  /\ SecurityShape(security)' /\ SessionsKept(0)
           /\ Len(security'.sessions) = Len(security.sessions) + 1
           /\ security'.sessions[Len(security.sessions) + 1].status = "active"
<1>1. PICK q, e, t : /\ q = security.sessions /\ e = [profile |-> id, status |-> "active"]
                     /\ t = Append(q, e)
  OBVIOUS
<1>2. q \in Seq(SessionType) /\ e \in SessionType /\ e.status = "active"
  BY <1>1 DEF SecurityShape, SessionType
<1>3. /\ t \in Seq(SessionType) /\ Len(t) = Len(q) + 1 /\ t[Len(q) + 1] = e /\ Len(q) <= Len(t)
      /\ \A i \in 1..Len(q) : t[i] = q[i]
  BY <1>1, <1>2
<1>4. security' = [env |-> security.env, refs |-> security.refs, leases |-> security.leases, sessions |-> t]
  BY <1>1 DEF SecurityShape, WithSession
<1>5. security'.sessions = t /\ SecurityShape(security)'
  BY <1>3, <1>4 DEF SecurityShape
<1> QED
  BY <1>1, <1>2, <1>3, <1>5 DEF SessionsKept

\* The security service itself ends no session.
LEMMA SecurityStays ==
    ASSUME SecurityShape(security), SecurityNext
    PROVE  SecurityShape(security)' /\ SessionsKept(0)
<1>1. PICK q : q = security.sessions
  OBVIOUS
<1>2. q \in Seq(SessionType) /\ Len(q) \in Nat
  BY <1>1 DEF SecurityShape
<1>3. ASSUME NEW refs, NEW leases,
             security' = [env |-> security.env, refs |-> refs, leases |-> leases, sessions |-> q]
      PROVE  SecurityShape(security)' /\ SessionsKept(0)
  <2>1. security'.sessions = q /\ SecurityShape(security)'
    BY <1>2, <1>3 DEF SecurityShape
  <2> QED  BY <1>1, <1>2, <2>1 DEF SessionsKept
<1>4. ASSUME NEW id, CreateSecretRef(id)
      PROVE  \E refs, leases : security' = [env |-> security.env, refs |-> refs, leases |-> leases, sessions |-> q]
  BY <1>1, <1>4 DEF CreateSecretRef, SecurityShape
<1>5. ASSUME NEW id, NEW status, UpdateSecretRefStatus(id, status)
      PROVE  \E refs, leases : security' = [env |-> security.env, refs |-> refs, leases |-> leases, sessions |-> q]
  BY <1>1, <1>5 DEF UpdateSecretRefStatus, SecurityShape
<1>6. ASSUME NEW id, NEW actor, RequestLease(id, actor)
      PROVE  \E refs, leases : security' = [env |-> security.env, refs |-> refs, leases |-> leases, sessions |-> q]
  BY <1>1, <1>6 DEF RequestLease, SecurityShape
<1>7. ASSUME NEW n, RevokeLease(n)
      PROVE  \E refs, leases : security' = [env |-> security.env, refs |-> refs, leases |-> leases, sessions |-> q]
  BY <1>1, <1>7 DEF RevokeLease, SecurityShape
<1>8. ASSUME NEW c, ResolveCredential(c)
      PROVE  \E refs, leases : security' = [env |-> security.env, refs |-> refs, leases |-> leases, sessions |-> q]
  BY <1>1, <1>8 DEF ResolveCredential, SecurityShape
<1>9. ASSUME NEW id \in DOMAIN SeedProfiles \cup {"unknown"}, PostSession(id)
      PROVE  SecurityShape(security)' /\ SessionsKept(0)
  BY <1>9, SessionAdded DEF PostSession
<1> QED
  BY <1>3, <1>4, <1>5, <1>6, <1>7, <1>8, <1>9 DEF SecurityNext

LEMMA SecurityKeeps ==
    ASSUME RunnerInv, SecurityNext, UNCHANGED runner
    PROVE  RunnerInv'
<1>0. TypeOK /\ CommandsConfined  BY DEF RunnerInv
<1>1. SecurityShape(security)' /\ SessionsKept(0)
  BY <1>0, SecurityStays DEF TypeOK
<1>2. TypeOK'
  BY <1>0, <1>1 DEF TypeOK
<1>3. Kept(0, 0)
  BY <1>0, <1>1, <1>2, Lengths, TypeParts DEF Kept, ResultsGrow
<1>4. CommandsConfined'
  BY <1>0 DEF CommandsConfined, Config
<1> QED
  BY <1>2, <1>3, <1>4, AsideKeeps

\* What a run that is let in has shown.
LEMMA LetIn ==
    ASSUME TypeOK, NEW req \in RunRequests, ~Refused(req)
    PROVE  (Config.execute /\ req.tests # <<>>) => WordsOf(Requested(req)) = {}
<1> SUFFICES ASSUME Config.execute, req.tests # <<>> PROVE WordsOf(Requested(req)) = {}
  OBVIOUS
<1>1. CommandsAllowed(Requested(req), TRUE, req.path # "")
  BY DEF Refused
<1>2. Requested(req) \in SUBSET DOMAIN Commands
  BY RunnerAssumption DEF Requested, ToSet
<1>3. (req.path # "") \in BOOLEAN
  OBVIOUS
<1> QED  BY <1>1, <1>2, <1>3, PolicyWords

\* A run that is let in or turned away takes the next place, with a new session or with none.
LEMMA EnterKeeps ==
    ASSUME RunnerInv, TypeOK', NEW e \in ActiveType, NEW n, n = Len(runner.active) + 1,
           runner'.config = runner.config, runner'.active = Append(runner.active, e),
           runner'.results = runner.results, runner'.workspaces = runner.workspaces,
           SessionsKept(0), e.results = <<>>, e.workspace = 0,
           e.session = 0 \/ (e.session = Len(security.sessions) + 1 /\ e.session <= Len(security'.sessions)),
           e.phase # "ended" => InFlightOK(n)',
           \A k \in DOMAIN runner.runs : runner'.runs[k] = runner.runs[k],
           \A k \in DOMAIN runner'.runs : k \notin DOMAIN runner.runs => RecordOK(k)'
    PROVE  RunnerInv'
<1>0. TypeOK /\ SessionsApart /\ CommandsConfined  BY DEF RunnerInv
<1>1. PICK a : a = runner.active
  OBVIOUS
<1>2. n = Len(a) + 1
  BY <1>1
<1>3. a \in Seq(ActiveType)
  BY <1>0, <1>1, TypeParts
<1>4. /\ DOMAIN Append(a, e) = DOMAIN a \cup {n} /\ Append(a, e)[n] = e /\ n \in Nat /\ n \notin DOMAIN a
      /\ \A m \in DOMAIN a : Append(a, e)[m] = a[m]
  BY <1>2, <1>3
<1>5. /\ DOMAIN runner'.active = DOMAIN runner.active \cup {n} /\ runner'.active[n] = e
      /\ \A m \in DOMAIN runner.active : runner'.active[m] = runner.active[m]
  BY <1>1, <1>4
<1>6. ResultsGrow /\ Len(runner.workspaces) <= Len(runner'.workspaces)
  BY <1>0, TypeParts, Lengths DEF ResultsGrow
<1>7. Kept(n, 0)
  BY <1>5, <1>6 DEF Kept
<1>8. ActiveOK(n)'
  <2>1. e.session <= Len(security'.sessions) /\ e.workspace <= Len(runner'.workspaces)
    <3>1. Len(security'.sessions) \in Nat /\ Len(runner'.workspaces) \in Nat
      BY <1>0, Lengths
    <3> QED  BY <3>1
  <2>2. Len(e.results) <= Len(e.req.tests) /\ Len(e.results) = 0
    <3>1. e.req.tests \in Seq(DOMAIN Commands)
      BY RunnerAssumption DEF ActiveType
    <3> QED  BY <3>1
  <2>3. OwnResults(runner'.results, n, e.req, e.results)
    BY <2>2 DEF OwnResults
  <2>4. InFlight(n)' => InFlightOK(n)'
    BY <1>1, <1>2, <1>5 DEF InFlight
  <2> QED  BY <1>5, <2>1, <2>3, <2>4 DEF ActiveOK, ResultsOf
<1>9. ASSUME NEW m \in DOMAIN runner'.active PROVE ActiveOK(m)'
  <2>1. CASE m \in DOMAIN runner.active
    BY <1>1, <1>4, <1>7, <2>1, OthersStay
  <2> QED  BY <1>5, <1>8, <2>1
<1>10. ASSUME NEW k \in DOMAIN runner'.runs PROVE RecordOK(k)'
  <2>1. CASE k \in DOMAIN runner.runs
    BY <1>1, <1>4, <1>7, <2>1, RecordsStay
  <2> QED  BY <2>1
<1>11. ASSUME NEW m \in DOMAIN runner.active
       PROVE  runner.active[m].session \in Nat /\ runner.active[m].session <= Len(security.sessions)
  BY <1>0, ActiveTyped DEF RunnerInv, ActiveOK
<1>12. ASSUME NEW m \in DOMAIN runner.active
       PROVE  e.session # 0 => runner.active[m].session # e.session
  <2>1. runner.active[m].session \in Nat /\ runner.active[m].session <= Len(security.sessions)
    BY <1>11
  <2>2. Len(security.sessions) \in Nat
    BY <1>0, Lengths
  <2> QED  BY <2>1, <2>2
<1>13. SessionsApart'
  <2> SUFFICES ASSUME NEW b \in DOMAIN runner'.active, NEW c \in DOMAIN runner'.active,
                      b # c, runner'.active[b].session # 0
               PROVE  runner'.active[c].session # runner'.active[b].session
    BY DEF SessionsApart
  <2>1. CASE b \in DOMAIN runner.active /\ c \in DOMAIN runner.active
    BY <1>0, <1>5, <2>1 DEF SessionsApart
  <2>2. CASE b = n
    BY <1>5, <1>12, <2>2
  <2>3. CASE c = n
    BY <1>5, <1>12, <2>3
  <2> QED  BY <1>5, <2>1, <2>2, <2>3
<1>14. CommandsConfined'
  BY <1>0 DEF CommandsConfined, Config
<1> QED
  BY <1>9, <1>10, <1>13, <1>14 DEF RunnerInv

\* The records of a start.
LEMMA EnterFields ==
    ASSUME NEW s \in RunnerType, NEW req \in RunRequests, NEW session \in Nat, NEW phase \in Phases,
           NEW t, t = Enter(s, req, session, phase),
           NEW e, e = [req |-> req, session |-> session, phase |-> phase, results |-> <<>>, workspace |-> 0]
    PROVE  /\ e \in ActiveType /\ e.req = req /\ e.session = session /\ e.phase = phase
           /\ e.results = <<>> /\ e.workspace = 0
           /\ t \in RunnerType /\ t.config = s.config /\ t.active = Append(s.active, e)
           /\ t.runs = s.runs /\ t.results = s.results /\ t.workspaces = s.workspaces
<1>1. s.active \in Seq(ActiveType) /\ s.runs \in Seq(RunType) /\ s.results \in Seq(ResultType)
      /\ s.config \in RunnerConfigs /\ s.workspaces \in Seq(WorkspaceType)
  BY DEF RunnerType
<1>2. /\ e \in ActiveType /\ e.req = req /\ e.session = session /\ e.phase = phase
      /\ e.results = <<>> /\ e.workspace = 0
  BY DEF ActiveType, Phases
<1>3. PICK a : a = Append(s.active, e)
  OBVIOUS
<1>4. a \in Seq(ActiveType)
  BY <1>1, <1>2, <1>3, AppendProperties
<1>5. t = [config |-> s.config, active |-> a, runs |-> s.runs, results |-> s.results,
           workspaces |-> s.workspaces]
  BY <1>3 DEF Enter, RunnerType
<1>6. /\ t \in RunnerType /\ t.config = s.config /\ t.active = a
      /\ t.runs = s.runs /\ t.results = s.results /\ t.workspaces = s.workspaces
  BY <1>1, <1>4, <1>5, RunnerRecord
<1> QED
  BY <1>2, <1>3, <1>6

LEMMA CreateRunFields ==
    ASSUME NEW s \in RunnerType, NEW run \in RunType, NEW t, t = CreateRun(s, run)
    PROVE  /\ t \in RunnerType /\ t.config = s.config /\ t.active = s.active
           /\ t.runs = Append(s.runs, run) /\ t.results = s.results /\ t.workspaces = s.workspaces
<1>1. s.active \in Seq(ActiveType) /\ s.runs \in Seq(RunType) /\ s.results \in Seq(ResultType)
      /\ s.config \in RunnerConfigs /\ s.workspaces \in Seq(WorkspaceType)
  BY DEF RunnerType
<1>2. PICK r : r = Append(s.runs, run)
  OBVIOUS
<1>3. r \in Seq(RunType)
  BY <1>1, <1>2, AppendProperties
<1>4. t = [config |-> s.config, active |-> s.active, runs |-> r, results |-> s.results,
           workspaces |-> s.workspaces]
  BY <1>2 DEF CreateRun, RunnerType
<1>5. /\ t \in RunnerType /\ t.config = s.config /\ t.active = s.active
      /\ t.runs = r /\ t.results = s.results /\ t.workspaces = s.workspaces
  BY <1>1, <1>3, <1>4, RunnerRecord
<1> QED
  BY <1>2, <1>5

LEMMA StartKeeps ==
    ASSUME RunnerInv, NEW req \in RunRequests, StartRun(req)
    PROVE  RunnerInv'
<1>0. TypeOK /\ runner \in RunnerType /\ SecurityShape(security)  BY DEF RunnerInv, TypeOK
<1>1. PICK n : n = Len(runner.active) + 1
  OBVIOUS
<1>2. n \in Nat /\ Len(security.sessions) \in Nat /\ Len(runner.workspaces) \in Nat
  <2>1. \A S : \A q \in Seq(S) : Len(q) \in Nat
    OBVIOUS
  <2> QED  BY <1>0, <1>1, <2>1, TypeParts
<1>3. CASE /\ runner' = CreateRun(Enter(runner, req, 0, "ended"), Run(n, "blocked", <<>>, 0, 0))
           /\ security' = security
  <2>1. PICK s, e, run : /\ s = Enter(runner, req, 0, "ended")
                         /\ e = [req |-> req, session |-> 0, phase |-> "ended", results |-> <<>>, workspace |-> 0]
                         /\ run = Run(n, "blocked", <<>>, 0, 0)
    OBVIOUS
  <2>2. /\ e \in ActiveType /\ e.req = req /\ e.session = 0 /\ e.phase = "ended"
        /\ e.results = <<>> /\ e.workspace = 0
        /\ s \in RunnerType /\ s.config = runner.config /\ s.active = Append(runner.active, e)
        /\ s.runs = runner.runs /\ s.results = runner.results /\ s.workspaces = runner.workspaces
    BY <1>0, <2>1, EnterFields DEF Phases
  <2>3. /\ run \in RunType /\ run.id = n /\ run.status = "blocked" /\ run.results = <<>>
        /\ run.workspace = 0 /\ run.session = 0
    BY <1>2, <2>1 DEF Run, RunType
  <2>4. /\ runner' \in RunnerType /\ runner'.config = runner.config
        /\ runner'.active = Append(runner.active, e) /\ runner'.runs = Append(runner.runs, run)
        /\ runner'.results = runner.results /\ runner'.workspaces = runner.workspaces
    BY SMTT(30), <1>3, <2>1, <2>2, <2>3, CreateRunFields
  <2>5. TypeOK' /\ SessionsKept(0)
    BY <1>0, <1>2, <1>3, <2>4 DEF TypeOK, SecurityShape, SessionsKept
  <2>6. /\ n \in DOMAIN runner'.active /\ runner'.active[n] = e
    <3>1. PICK a : a = runner.active
      OBVIOUS
    <3>2. a \in Seq(ActiveType) /\ n = Len(a) + 1 /\ runner'.active = Append(a, e)
      BY <1>0, <1>1, <2>4, <3>1, TypeParts
    <3>3. n \in DOMAIN Append(a, e) /\ Append(a, e)[n] = e
      BY <2>2, <3>2
    <3> QED  BY <3>2, <3>3
  <2>7. runner.runs \in Seq(RunType)
    BY <1>0, TypeParts
  <2>8. \A k \in DOMAIN runner.runs : runner'.runs[k] = runner.runs[k]
    BY <2>3, <2>4, <2>7, AppendFacts
  <2>9. ASSUME NEW k \in DOMAIN runner'.runs, k \notin DOMAIN runner.runs PROVE RecordOK(k)'
    <3>1. runner'.runs[k] = run
      BY <2>3, <2>4, <2>7, <2>9, AppendFacts
    <3>2. req.tests \in Seq(DOMAIN Commands)
      BY RunnerAssumption
    <3>3. OwnResults(runner'.results, n, req, <<>>)
      BY <3>2 DEF OwnResults
    <3>4. ~InFlight(n)'
      BY <2>2, <2>6 DEF InFlight
    <3>5. 0 <= Len(security'.sessions) /\ 0 <= Len(runner'.workspaces)
      BY <1>2, <1>3, <2>4
    <3> QED
      BY <2>2, <2>3, <2>6, <3>1, <3>3, <3>4, <3>5 DEF RecordOK, ResultsOf
  <2> QED
    BY <1>1, <2>2, <2>4, <2>5, <2>8, <2>9, EnterKeeps
<1>4. ASSUME NEW session \in Nat, runner' = Enter(runner, req, session, "preparing"), ~Refused(req),
             SecurityShape(security)', SessionsKept(0),
             session = 0 \/ (session = Len(security.sessions) + 1 /\ session <= Len(security'.sessions)),
             (session # 0) <=> (Config.execute /\ req.path # ""),
             (session # 0) => security'.sessions[session].status = "active"
      PROVE  RunnerInv'
  <2>1. PICK e : e = [req |-> req, session |-> session, phase |-> "preparing", results |-> <<>>, workspace |-> 0]
    OBVIOUS
  <2>2. /\ e \in ActiveType /\ e.req = req /\ e.session = session /\ e.phase = "preparing"
        /\ e.results = <<>> /\ e.workspace = 0
        /\ runner' \in RunnerType /\ runner'.config = runner.config /\ runner'.active = Append(runner.active, e)
        /\ runner'.runs = runner.runs /\ runner'.results = runner.results /\ runner'.workspaces = runner.workspaces
    <3>1. runner' = Enter(runner, req, session, "preparing")
      BY <1>4
    <3>2. runner \in RunnerType /\ "preparing" \in Phases
      BY <1>0 DEF Phases
    <3> QED  BY <2>1, <3>1, <3>2, EnterFields
  <2>3. TypeOK'
    BY <1>4, <2>2 DEF TypeOK
  <2>4. runner'.active[n] = e
    <3>1. PICK a : a = runner.active
      OBVIOUS
    <3>2. a \in Seq(ActiveType) /\ n = Len(a) + 1 /\ runner'.active = Append(a, e)
      BY <1>0, <1>1, <2>2, <3>1, TypeParts
    <3>3. Append(a, e)[n] = e
      BY <2>2, <3>2
    <3> QED  BY <3>2, <3>3
  <2>5. Config' = Config
    BY <2>2 DEF Config
  <2>6. (Config.execute /\ req.tests # <<>>) => WordsOf(Requested(req)) = {}
    BY <1>0, <1>4, LetIn
  <2>7. InFlightOK(n)'
    BY <1>4, <2>2, <2>4, <2>5, <2>6 DEF InFlightOK
  <2> QED
    BY <1>1, <1>4, <2>2, <2>3, <2>7, EnterKeeps
<1>5. CASE /\ runner' = Enter(runner, req, 0, "preparing") /\ security' = security
           /\ ~Refused(req) /\ ~(Config.execute /\ req.path # "")
  <2>1. SecurityShape(security)' /\ SessionsKept(0)
    <3>1. security' = security
      BY <1>5
    <3> QED  BY <1>0, <1>2, <3>1 DEF SecurityShape, SessionsKept
  <2> QED  BY <1>4, <1>5, <2>1
<1>6. CASE /\ runner' = Enter(runner, req, Len(security.sessions) + 1, "preparing")
           /\ security' = WithSession(security, "local_temp_fixture")
           /\ ~Refused(req) /\ Config.execute /\ req.path # ""
  <2>1. PICK session : session = Len(security.sessions) + 1
    OBVIOUS
  <2>2. session \in Nat /\ session # 0
    BY <1>2, <2>1
  <2>3. "local_temp_fixture" \in DOMAIN SeedProfiles \cup {"unknown"}
    BY DEF SeedProfiles
  <2>4. /\ SecurityShape(security)' /\ SessionsKept(0) /\ Len(security'.sessions) = session
        /\ security'.sessions[session].status = "active"
    BY <1>0, <1>6, <2>1, <2>3, SessionAdded
  <2>5. session <= Len(security'.sessions)
    BY <2>2, <2>4
  <2>6. runner' = Enter(runner, req, session, "preparing")
    BY <1>6, <2>1
  <2> QED  BY <1>4, <1>6, <2>1, <2>2, <2>4, <2>5, <2>6
<1> QED
  BY <1>1, <1>3, <1>5, <1>6 DEF StartRun

(***************************************************************************)
(* The theorems                                                            *)
(***************************************************************************)

LEMMA InitHolds == Init => RunnerInv
<1> SUFFICES ASSUME Init PROVE RunnerInv
  OBVIOUS
<1>1. PICK env : security = [env |-> env, refs |-> SeedRefs, leases |-> <<>>, sessions |-> <<>>]
  BY DEF Init, SecurityInit
<1>2. PICK c \in RunnerConfigs :
        runner = [config |-> c, active |-> <<>>, runs |-> <<>>, results |-> <<>>, workspaces |-> <<>>]
  BY DEF Init
<1>3. /\ runner.active = <<>> /\ runner.runs = <<>> /\ runner.results = <<>> /\ runner \in RunnerType
  BY <1>2 DEF RunnerType
<1>4. SecurityShape(security)
  BY <1>1 DEF SecurityShape
<1> QED
  BY <1>3, <1>4 DEF RunnerInv, TypeOK, SessionsApart, CommandsConfined

LEMMA NextKeeps == RunnerInv /\ [Next]_executionVars => RunnerInv'
<1> SUFFICES ASSUME RunnerInv, [Next]_executionVars PROVE RunnerInv'
  OBVIOUS
<1>1. CASE SecurityNext /\ UNCHANGED runner
  BY <1>1, SecurityKeeps
<1>2. CASE \E req \in RunRequests : StartRun(req)
  BY <1>2, StartKeeps
<1>3. ASSUME NEW n \in DOMAIN runner.active, RunnerStep(n) PROVE RunnerInv'
  BY <1>3, PrepareKeeps, AnswerKeeps, TestKeeps DEF RunnerStep
<1>4. CASE \E k \in DOMAIN runner.runs, order \in Orders, outcome \in Outcomes : PostCommand(k, order, outcome)
  BY <1>4, PostKeeps
<1>5. CASE UNCHANGED executionVars
  <2>0. TypeOK /\ CommandsConfined  BY DEF RunnerInv
  <2>1. runner' = runner /\ security' = security
    BY <1>5 DEF executionVars
  <2>2. TypeOK' /\ CommandsConfined'
    BY <2>0, <2>1 DEF TypeOK, SecurityShape, CommandsConfined, Config
  <2>3. Kept(0, 0)
    BY <2>0, <2>1, <2>2, Lengths, TypeParts DEF Kept, ResultsGrow, SessionsKept
  <2> QED  BY <2>1, <2>2, <2>3, AsideKeeps
<1> QED
  BY <1>1, <1>2, <1>3, <1>4, <1>5 DEF Next

LEMMA RunnerInvariant == Spec => []RunnerInv
<1> QED  BY InitHolds, NextKeeps, PTL DEF Spec

(* The state of the runner and the sessions of the security service keep   *)
(* their types: every position a run or a result names is one of a log.    *)
THEOREM RunnerTypeCorrect == Spec => []TypeOK
<1>1. RunnerInv => TypeOK
  BY DEF RunnerInv
<1> QED  BY <1>1, RunnerInvariant, PTL

(* Whatever is configured, requested and ordered, and by whichever of the  *)
(* two paths, a command that is started is one the configuration allows,   *)
(* in a validated workspace, with an allowed executable and without a word *)
(* of the network or of remote Git (executeTestCommands and                *)
(* executeCommandForRun).                                                  *)
THEOREM CommandsAlwaysConfined == Spec => []CommandsConfined
<1>1. RunnerInv => CommandsConfined
  BY DEF RunnerInv
<1> QED  BY <1>1, RunnerInvariant, PTL

(* A run that tests holds an active session of its own, and the session of *)
(* a recorded run is completed, however runs interleave (runAgent).        *)
THEOREM SessionsAlwaysFollowRuns == Spec => []SessionsFollowRuns
<1>1. RunnerInv => SessionsFollowRuns
  <2> SUFFICES ASSUME RunnerInv PROVE SessionsFollowRuns
    OBVIOUS
  <2>1. ASSUME NEW n \in DOMAIN runner.active
        PROVE  LET run == runner.active[n] IN
               /\ (InFlight(n) /\ run.session # 0) => security.sessions[run.session].status = "active"
               /\ (run.phase = "testing") => run.session # 0
               /\ \A m \in DOMAIN runner.active : (m # n /\ run.session # 0) => runner.active[m].session # run.session
    <3>1. InFlight(n) => InFlightOK(n)
      BY DEF RunnerInv, ActiveOK
    <3>2. (runner.active[n].phase = "testing") => runner.active[n].session # 0
      BY <3>1 DEF InFlight, InFlightOK
    <3>3. (InFlight(n) /\ runner.active[n].session # 0) =>
              security.sessions[runner.active[n].session].status = "active"
      BY <3>1 DEF InFlightOK
    <3>4. \A m \in DOMAIN runner.active :
              (m # n /\ runner.active[n].session # 0) => runner.active[m].session # runner.active[n].session
      BY DEF RunnerInv, SessionsApart
    <3> QED  BY <3>2, <3>3, <3>4
  <2>2. ASSUME NEW k \in DOMAIN runner.runs
        PROVE  (runner.runs[k].session # 0) => security.sessions[runner.runs[k].session].status = "completed"
    BY DEF RunnerInv, RecordOK
  <2> QED  BY <2>1, <2>2 DEF SessionsFollowRuns
<1> QED  BY <1>1, RunnerInvariant, PTL

(* A run recorded as completed has one completed result for every test     *)
(* command, in their order, and no run is recorded with the result of      *)
(* another, though runs and orders interleave in one log (executeRun).     *)
THEOREM RunsAlwaysMatchResults == Spec => []RunsMatchResults
<1>1. RunnerInv => RunsMatchResults
  <2> SUFFICES ASSUME RunnerInv, NEW k \in DOMAIN runner.runs
               PROVE  LET run   == runner.runs[k]
                          req   == runner.active[run.id].req
                          found == {runner.results[i].status : i \in ToSet(run.results)}
                      IN  /\ \A i \in ToSet(run.results) : runner.results[i].run = run.id
                          /\ (run.status = "completed" /\ Config.kind = "local" /\ Config.execute) =>
                                /\ found \subseteq {"completed"}
                                /\ [i \in DOMAIN run.results |-> runner.results[run.results[i]].command] = req.tests
                          /\ (run.status = "failed") => "blocked" \notin found
    BY DEF RunsMatchResults
  <2>1. PICK run : run = runner.runs[k]
    OBVIOUS
  <2>2. PICK req, own : req = runner.active[run.id].req /\ own = run.results
    OBVIOUS
  <2>3. TypeOK /\ RecordOK(k)
    BY DEF RunnerInv
  <2>4. run.id \in DOMAIN runner.active /\ OwnResults(runner.results, run.id, req, own)
    BY <2>1, <2>2, <2>3 DEF RecordOK, ResultsOf
  <2>5. own \in Seq(Nat) /\ req.tests \in Seq(DOMAIN Commands)
    BY <2>1, <2>2, <2>3, <2>4, RunTyped, ActiveTyped, RunnerAssumption DEF RunType
  <2>6. PICK found : found = {runner.results[own[j]].status : j \in 1..Len(own)}
    OBVIOUS
  <2>7. found = {runner.results[i].status : i \in ToSet(own)}
    BY <2>5, <2>6 DEF ToSet
  <2>8. \A i \in ToSet(own) : runner.results[i].run = run.id
    BY <2>4, <2>5 DEF OwnResults, ToSet
  <2>9. /\ (run.status = "completed" /\ Config.kind = "local" /\ Config.execute) =>
              found \subseteq {"completed"} /\ Len(own) = Len(req.tests)
        /\ (run.status = "failed") => "blocked" \notin found
    BY <2>1, <2>2, <2>3, <2>6 DEF RecordOK
  <2>10. ASSUME Len(own) = Len(req.tests)
         PROVE  [i \in DOMAIN own |-> runner.results[own[i]].command] = req.tests
    <3>1. DOMAIN own = DOMAIN req.tests
      BY <2>5, <2>10
    <3>2. \A i \in DOMAIN own : runner.results[own[i]].command = req.tests[i]
      BY <2>4, <2>5 DEF OwnResults
    <3>3. req.tests = [i \in DOMAIN req.tests |-> req.tests[i]]
      BY <2>5
    <3> QED  BY <3>1, <3>2, <3>3
  <2> QED
    BY <2>1, <2>2, <2>7, <2>8, <2>9, <2>10
<1> QED  BY <1>1, RunnerInvariant, PTL
(***************************************************************************)
(* Leases                                                                  *)
(***************************************************************************)

LeaseType == [ref    : {q.ref : q \in CredentialRequests},
              actor  : {q.actor : q \in CredentialRequests} \cup {"mock_admin"},
              status : {"issued", "denied", "revoked"}]

\* A lease is only ever added at the end or changed in its place.
LeasesTyped == security.leases \in Seq(LeaseType)

\* The rules on a request for a lease.
LEMMA RulesOnLeases ==
    ASSUME NEW rule \in Rules, rule.action = "secret.lease.request"
    PROVE  \/ rule = Rule("allow", "secret.lease.request", "secret_lease", 1100, [env |-> EnvSecretGates])
           \/ rule = Rule("require_approval", "secret.lease.request", "secret_lease", 1000, Always)
<1>1. \A other \in GitRemoteRules : other.action # "secret.lease.request"
  BY RuleFields DEF GitRemoteRules
<1>2. \A other \in WebhookRules : other.action # "secret.lease.request"
  BY RuleFields DEF WebhookRules
<1>3. \A other \in GitSyncRules : other.action # "secret.lease.request"
  BY RuleFields DEF GitSyncRules
<1>4. \A other \in GitCreateRules : other.action # "secret.lease.request"
  BY RuleFields DEF GitCreateRules
<1>5. \A other \in LlmRules : other.action # "secret.lease.request"
  BY RuleFields DEF LlmRules
<1>6. \A other \in LlmRoutingRules : other.action # "secret.lease.request"
  BY RuleFields DEF LlmRoutingRules
<1>7. \A other \in RunnerRules : other.action # "secret.lease.request"
  BY RuleFields DEF RunnerRules
<1>8. \A other \in RegistryRules : other.action # "secret.lease.request"
  BY RuleFields DEF RegistryRules
<1>9. \A other \in ImprovementRules : other.action # "secret.lease.request"
  BY RuleFields DEF ImprovementRules
<1>10. \A other \in ProviderRules : other.action # "secret.lease.request"
  BY RuleFields DEF ProviderRules
<1>11. \A other \in CredentialCacheRules : other.action # "secret.lease.request"
  BY RuleFields DEF CredentialCacheRules
<1>12. \A other \in LocalAgentRules : other.action # "secret.lease.request"
  BY RuleFields DEF LocalAgentRules
<1>13. \A other \in ConsentRules : other.action # "secret.lease.request"
  BY RuleFields DEF ConsentRules
<1>14. \A other \in ProviderInvokeRules : other.action # "secret.lease.request"
  BY RuleFields DEF ProviderInvokeRules
<1>15. \A other \in SandboxRules : other.action # "secret.lease.request"
  BY RuleFields DEF SandboxRules
<1>16. \A other \in McpRules : other.action # "secret.lease.request"
  BY RuleFields DEF McpRules
<1>17. \A other \in McpCallRules : other.action # "secret.lease.request"
  BY RuleFields DEF McpCallRules
<1>18. \A other \in PlatformRules : other.action # "secret.lease.request"
  BY RuleFields DEF PlatformRules
<1>19. rule \in SecretRules
  BY <1>1, <1>2, <1>3, <1>4, <1>5, <1>6, <1>7, <1>8, <1>9, <1>10, <1>11, <1>12, <1>13, <1>14, <1>15, <1>16, <1>17, <1>18 DEF Rules
<1> QED  BY <1>19, RuleFields DEF SecretRules

\* A request for a lease does not report whether the reference is active, and
\* the rule that would allow it asks for that.
LEMMA RequestsAreDenied ==
    ASSUME NEW exists \in BOOLEAN
    PROVE  ~RequestLeaseAllowed[exists]
<1>1. PICK facts : facts = [secretRefExists |-> exists, scopeExists |-> TRUE, requiresApproval |-> TRUE]
  OBVIOUS
<1>2. PICK r : r = [Request("secret.lease.request", "secret_lease") EXCEPT !.roles = {"system"}, !.env = facts]
  OBVIOUS
<1>3. RequestLeaseAllowed[exists] = Allowed(r)
  BY <1>1, <1>2 DEF RequestLeaseAllowed, EvaluatePolicy
<1>4. r.action = "secret.lease.request" /\ r.kind = "secret_lease" /\ r.env = facts
  BY <1>2 DEF Request
<1>5. "secretRefActive" \notin DOMAIN facts
  BY <1>1
<1>6. ASSUME NEW a \in Candidates(r) PROVE a.effect # "allow"
  <2>1. /\ a \in Rules /\ a.action = "secret.lease.request"
        /\ ConditionMatches(a.conditions, r)
    BY <1>4, <1>6 DEF Candidates
  <2>2. \/ a = Rule("allow", "secret.lease.request", "secret_lease", 1100, [env |-> EnvSecretGates])
        \/ a = Rule("require_approval", "secret.lease.request", "secret_lease", 1000, Always)
    BY <2>1, RulesOnLeases
  <2>3. CASE a = Rule("allow", "secret.lease.request", "secret_lease", 1100, [env |-> EnvSecretGates])
    <3>1. a.conditions = [env |-> EnvSecretGates]
      BY <2>3, RuleFields
    <3>2. MapMatches(EnvSecretGates, facts)
      BY <1>4, <2>1, <3>1 DEF ConditionMatches
    <3>3. "secretRefActive" \in DOMAIN EnvSecretGates
      BY DEF EnvSecretGates, Facts
    <3> QED  BY <1>5, <3>2, <3>3 DEF MapMatches
  <2>4. CASE a = Rule("require_approval", "secret.lease.request", "secret_lease", 1000, Always)
    BY <2>4, RuleFields
  <2> QED  BY <2>2, <2>3, <2>4
<1>7. CASE Deciding(r) = {}
  BY <1>3, <1>7 DEF Allowed, Decision
<1>8. CASE Deciding(r) # {}
  <2>1. (CHOOSE a \in Deciding(r) : TRUE) \in Candidates(r)
    BY <1>8 DEF Deciding
  <2> QED  BY <1>3, <1>6, <1>8, <2>1 DEF Allowed, Decision
<1> QED  BY <1>7, <1>8

\* Only two roles hold the permission to resolve credentials.
LEMMA ResolversInCatalog ==
    ASSUME NEW id \in DOMAIN Actors, NEW role \in Actors[id].roles,
           "provider.credential.resolve" \in RolePermissions[role]
    PROVE  id \in {"mock_admin", "user_security_admin"}
<1>1. DOMAIN Actors = {"mock_admin", "user_demo_developer", "user_demo_viewer", "user_demo_reviewer",
                       "user_security_admin", "svc_runner", "anonymous_mock"}
  BY DEF Actors
<1>2. /\ Actors["user_demo_developer"].roles = {"developer"}
      /\ Actors["user_demo_viewer"].roles = {"viewer"}
      /\ Actors["user_demo_reviewer"].roles = {"reviewer"}
      /\ Actors["svc_runner"].roles = {"service_account_runner"}
      /\ Actors["anonymous_mock"].roles = {}
  BY DEF Actors, Actor
<1>3. \A other \in {"developer", "viewer", "reviewer", "service_account_runner"} :
          "provider.credential.resolve" \notin RolePermissions[other]
  BY DEF RolePermissions
<1> QED  BY <1>1, <1>2, <1>3

\* A credential is resolved for one of the two actors with such a role.
LEMMA ResolversAreKnown ==
    ASSUME NEW q, NEW ref, CredentialAuthorized(q, ref)
    PROVE  ResolvedActor(q) \in {"mock_admin", "user_security_admin"}
<1>1. PICK r : r = CredentialRequest("provider.credential.resolve", "provider_credential", q, ref)
  OBVIOUS
<1>2. r.action = "provider.credential.resolve"
  BY <1>1 DEF CredentialRequest, Request
<1>3. PICK actor : actor = ResolveAuthContext(q.actor)
  OBVIOUS
<1>4. Granted(actor, r, q.ref, NoScope)
  BY <1>1, <1>3 DEF CredentialAuthorized, Check, Evaluate
<1>5. PICK role \in actor.roles : "provider.credential.resolve" \in RolePermissions[role]
  BY <1>2, <1>4 DEF Granted, PermissionGrantedByActiveBinding
<1>6. actor.active
  BY <1>4 DEF Granted
<1>7. CASE q.actor = ""
  BY <1>7 DEF ResolvedActor
<1>8. CASE q.actor # "" /\ q.actor \notin DOMAIN Actors
  BY <1>3, <1>6, <1>8 DEF ResolveAuthContext, Actor
<1>9. CASE q.actor # "" /\ q.actor \in DOMAIN Actors
  <2>1. actor = Actors[q.actor] /\ ResolvedActor(q) = q.actor
    BY <1>3, <1>9 DEF ResolveAuthContext, ResolvedActor
  <2> QED  BY <1>5, <2>1, <1>9, ResolversInCatalog
<1> QED  BY <1>7, <1>8, <1>9

\* What a step does with the leases: it keeps them, or does one of three things.
LeaseAdded(id, actor, status) ==
    security'.leases = Append(security.leases, Lease(id, actor, status))

LeaseRevoked(n) == security'.leases = [security.leases EXCEPT ![n].status = "revoked"]

\* What was shown when a credential was resolved.
Shown(q) ==
    LET env == security.env
        ref == security.refs[q.ref]
    IN  /\ q.ref \in DOMAIN security.refs
        /\ ref.status = "active" /\ ref.provider = "env" /\ env.enabled
        /\ ref.key \in env.values /\ (env.allowed = {} \/ ref.key \in env.allowed)
        /\ ResolvedActor(q) \in {"mock_admin", "user_security_admin"}

LeaseStep ==
    \/ security'.leases = security.leases
    \/ \E n \in DOMAIN security.leases : LeaseRevoked(n)
    \/ \E q \in CredentialRequests : LeaseAdded(q.ref, q.actor, "denied")
    \/ \E q \in CredentialRequests : Shown(q) /\ LeaseAdded(q.ref, ResolvedActor(q), "issued")

LEMMA SecurityLeases ==
    ASSUME SecurityShape(security), SecurityNext
    PROVE  LeaseStep
<1>1. ASSUME NEW id, CreateSecretRef(id) PROVE security'.leases = security.leases
  BY <1>1 DEF CreateSecretRef, SecurityShape
<1>2. ASSUME NEW id, NEW status, UpdateSecretRefStatus(id, status) PROVE security'.leases = security.leases
  BY <1>2 DEF UpdateSecretRefStatus, SecurityShape
<1>3. ASSUME NEW q \in CredentialRequests, RequestLease(q.ref, q.actor)
      PROVE  LeaseAdded(q.ref, q.actor, "denied")
  <2>1. (q.ref \in DOMAIN security.refs) \in BOOLEAN
    OBVIOUS
  <2>2. ~RequestLeaseAllowed[q.ref \in DOMAIN security.refs]
    BY <2>1, RequestsAreDenied, Zenon
  <2>3. security' = [security EXCEPT !.leases = Append(@, Lease(q.ref, q.actor, "denied"))]
    BY <1>3, <2>2, Zenon DEF RequestLease
  <2> QED  BY <2>3 DEF LeaseAdded, SecurityShape
<1>4. ASSUME NEW n \in DOMAIN security.leases, RevokeLease(n) PROVE LeaseRevoked(n)
  BY <1>4 DEF RevokeLease, LeaseRevoked, SecurityShape
<1>5. ASSUME NEW q \in CredentialRequests, ResolveCredential(q)
      PROVE  Shown(q) /\ LeaseAdded(q.ref, ResolvedActor(q), "issued")
  <2>1. LeaseAdded(q.ref, ResolvedActor(q), "issued")
    BY <1>5 DEF ResolveCredential, LeaseAdded, SecurityShape
  <2>2. PICK ref : ref = security.refs[q.ref]
    OBVIOUS
  <2>3. /\ q.ref \in DOMAIN security.refs /\ ref.status = "active"
        /\ CredentialAuthorized(q, ref) /\ EnvSecretProviderResolves(ref)
    BY <1>5, <2>2 DEF ResolveCredential
  <2>4. /\ security.env.enabled /\ ref.provider = "env" /\ ref.key \in security.env.values
        /\ (security.env.allowed = {} \/ ref.key \in security.env.allowed)
    BY <2>3 DEF EnvSecretProviderResolves
  <2>5. ResolvedActor(q) \in {"mock_admin", "user_security_admin"}
    BY <2>3, ResolversAreKnown
  <2> QED  BY <2>1, <2>2, <2>3, <2>4, <2>5 DEF Shown
<1>6. ASSUME NEW id, PostSession(id) PROVE security'.leases = security.leases
  BY <1>6 DEF PostSession, WithSession, SecurityShape
<1> QED
  BY <1>1, <1>2, <1>3, <1>4, <1>5, <1>6 DEF SecurityNext, LeaseStep

LEMMA StepLeases ==
    ASSUME TypeOK, [Next]_executionVars
    PROVE  LeaseStep
<1>0. SecurityShape(security)
  BY DEF TypeOK
<1>1. ASSUME NEW id PROVE WithSession(security, id).leases = security.leases
  BY <1>0 DEF WithSession, SecurityShape
<1>2. ASSUME NEW n PROVE CompleteSandboxSession(security, n).leases = security.leases
  BY <1>0 DEF CompleteSandboxSession, SecurityShape
<1>3. ASSUME NEW req \in RunRequests, StartRun(req) PROVE security'.leases = security.leases
  BY <1>1, <1>3 DEF StartRun
<1>4. ASSUME NEW n \in DOMAIN runner.active, RunnerStep(n) PROVE security'.leases = security.leases
  <2>4. ASSUME NEW s, NEW status, EndRun(n, s, status) \/ DropRun(n, s, status)
        PROVE  security'.leases = security.leases
    BY <1>2, <2>4 DEF EndRun, DropRun
  <2>1. CASE PrepareRun(n)
    BY <2>1, <2>4 DEF PrepareRun
  <2>2. ASSUME NEW ok \in BOOLEAN, LlmAnswers(n, ok) PROVE security'.leases = security.leases
    BY <2>2, <2>4, ZenonT(40) DEF LlmAnswers
  <2>3. ASSUME NEW outcome \in Outcomes, ExecuteTestCommand(n, outcome) PROVE security'.leases = security.leases
    BY <2>3, <2>4 DEF ExecuteTestCommand
  <2> QED  BY <1>4, <2>1, <2>2, <2>3 DEF RunnerStep
<1> QED
  BY <1>0, <1>3, <1>4, SecurityLeases DEF Next, LeaseStep, executionVars, PostCommand

LEMMA LeasesStayTyped ==
    ASSUME LeasesTyped, LeaseStep
    PROVE  LeasesTyped'
<1>1. ASSUME NEW n \in DOMAIN security.leases, LeaseRevoked(n) PROVE LeasesTyped'
  <2>1. security.leases[n] \in LeaseType
    BY DEF LeasesTyped
  <2>2. [security.leases[n] EXCEPT !.status = "revoked"] \in LeaseType
    BY <2>1 DEF LeaseType
  <2> QED  BY <1>1, <2>2 DEF LeaseRevoked, LeasesTyped
<1>2. ASSUME NEW q \in CredentialRequests, LeaseAdded(q.ref, q.actor, "denied") PROVE LeasesTyped'
  <2>1. Lease(q.ref, q.actor, "denied") \in LeaseType
    BY DEF Lease, LeaseType
  <2> QED  BY <1>2, <2>1 DEF LeaseAdded, LeasesTyped
<1>3. ASSUME NEW q \in CredentialRequests, Shown(q), LeaseAdded(q.ref, ResolvedActor(q), "issued")
      PROVE  LeasesTyped'
  <2>1. ResolvedActor(q) \in {q.actor, "mock_admin"}
    BY DEF ResolvedActor
  <2>2. Lease(q.ref, ResolvedActor(q), "issued") \in LeaseType
    BY <2>1 DEF Lease, LeaseType
  <2> QED  BY <1>3, <2>2 DEF LeaseAdded, LeasesTyped
<1> QED  BY <1>1, <1>2, <1>3 DEF LeaseStep, LeasesTyped

\* A lease that is issued is the one just added.
LEMMA NewlyIssued ==
    ASSUME LeasesTyped, LeaseStep, NEW n \in DOMAIN security'.leases,
           security'.leases[n].status = "issued",
           n \in DOMAIN security.leases => security.leases[n].status # "issued"
    PROVE  /\ n \notin DOMAIN security.leases /\ n = Len(security.leases) + 1
           /\ \E q \in CredentialRequests :
                 Shown(q) /\ security'.leases[n] = Lease(q.ref, ResolvedActor(q), "issued")
<1>1. PICK old : old = security.leases
  OBVIOUS
<1>2. old \in Seq(LeaseType) /\ DOMAIN old = 1..Len(old) /\ Len(old) \in Nat
  BY <1>1 DEF LeasesTyped
<1>3. ASSUME NEW e, security'.leases = Append(old, e)
      PROVE  /\ DOMAIN security'.leases = 1..(Len(old) + 1)
             /\ security'.leases[Len(old) + 1] = e
             /\ \A m \in DOMAIN old : security'.leases[m] = old[m]
  BY <1>2, <1>3
<1>4. CASE security'.leases = old
  BY <1>1, <1>4
<1>5. ASSUME NEW m \in DOMAIN old, LeaseRevoked(m) PROVE FALSE
  <2>1. old[m] \in LeaseType
    BY <1>2
  <2>2. /\ DOMAIN security'.leases = DOMAIN old
        /\ security'.leases[m] = [old[m] EXCEPT !.status = "revoked"]
        /\ \A k \in DOMAIN old : k # m => security'.leases[k] = old[k]
    BY <1>1, <1>5 DEF LeaseRevoked
  <2>3. security'.leases[m].status = "revoked"
    BY <2>1, <2>2 DEF LeaseType
  <2> QED  BY <1>1, <2>2, <2>3
<1>6. ASSUME NEW q \in CredentialRequests, LeaseAdded(q.ref, q.actor, "denied") PROVE FALSE
  <2>1. PICK e : e = Lease(q.ref, q.actor, "denied")
    OBVIOUS
  <2>2. e.status = "denied"
    BY <2>1 DEF Lease
  <2>3. security'.leases = Append(old, e)
    BY <1>1, <1>6, <2>1 DEF LeaseAdded
  <2> QED  BY <1>1, <1>2, <1>3, <2>2, <2>3
<1>7. ASSUME NEW q \in CredentialRequests, Shown(q), LeaseAdded(q.ref, ResolvedActor(q), "issued")
      PROVE  /\ n \notin DOMAIN old /\ n = Len(old) + 1
             /\ security'.leases[n] = Lease(q.ref, ResolvedActor(q), "issued")
  <2>1. PICK e : e = Lease(q.ref, ResolvedActor(q), "issued")
    OBVIOUS
  <2>2. security'.leases = Append(old, e)
    BY <1>1, <1>7, <2>1 DEF LeaseAdded
  <2>3. n \notin DOMAIN old
    BY <1>1, <1>3, <2>2
  <2>4. n = Len(old) + 1
    BY <1>2, <1>3, <2>2, <2>3
  <2> QED  BY <1>3, <2>1, <2>2, <2>3, <2>4
<1> QED  BY <1>1, <1>4, <1>5, <1>6, <1>7 DEF LeaseStep

(* A credential is resolved, and a lease issued for it, only while the     *)
(* reference is active and the environment admits and provides its key,    *)
(* and for an actor with the permission, whatever references and requests  *)
(* there are and whatever the caller claims; a lease that is revoked stays *)
(* so (resolveCredentialInternal, requestLease and revokeLease).           *)
THEOREM CredentialsAlwaysGated == Spec => CredentialsGated
<1>1. Init => LeasesTyped
  <2> SUFFICES ASSUME Init PROVE LeasesTyped
    OBVIOUS
  <2>1. PICK env : security = [env |-> env, refs |-> SeedRefs, leases |-> <<>>, sessions |-> <<>>]
    BY DEF Init, SecurityInit
  <2> QED  BY <2>1 DEF LeasesTyped
<1>2. TypeOK /\ LeasesTyped /\ [Next]_executionVars => LeasesTyped'
  BY StepLeases, LeasesStayTyped
<1>3. ASSUME TypeOK, LeasesTyped, [Next]_executionVars,
             NEW n \in DOMAIN security'.leases
      PROVE  LeaseGated(n)
  <2>1. PICK old : old = IF n \in DOMAIN security.leases THEN security.leases[n].status ELSE "none"
    OBVIOUS
  <2>2. CASE security'.leases[n].status = "issued" /\ old # "issued"
    <3>1. n \in DOMAIN security.leases => security.leases[n].status # "issued"
      BY <2>1, <2>2
    <3>2. LeaseStep
      BY <1>3, StepLeases
    <3>3. n \notin DOMAIN security.leases /\ n = Len(security.leases) + 1
      BY <1>3, <2>2, <3>1, <3>2, NewlyIssued
    <3>4. PICK q \in CredentialRequests :
              Shown(q) /\ security'.leases[n] = Lease(q.ref, ResolvedActor(q), "issued")
      BY <1>3, <2>2, <3>1, <3>2, NewlyIssued
    <3>5. security'.leases[n].ref = q.ref /\ security'.leases[n].actor = ResolvedActor(q)
      BY <3>4 DEF Lease
    <3> QED  BY <2>1, <3>3, <3>4, <3>5 DEF Shown, LeaseGated
  <2> QED  BY <2>1, <2>2 DEF LeaseGated
<1>4. TypeOK /\ LeasesTyped /\ [Next]_executionVars =>
          [\A n \in DOMAIN security'.leases : LeaseGated(n)]_security
  BY <1>3
<1> QED
  BY <1>1, <1>2, <1>4, RunnerTypeCorrect, PTL DEF Spec, CredentialsGated

(***************************************************************************)
(* The policies' consent to a credential                                   *)
(***************************************************************************)

\* What is allowed is allowed by a rule that matches.
LEMMA AllowingRule ==
    ASSUME NEW r, Allowed(r)
    PROVE  \E a \in Rules : /\ a.action = r.action /\ a.effect = "allow"
                           /\ ConditionMatches(a.conditions, r)
<1>1. Deciding(r) # {} /\ (CHOOSE a \in Deciding(r) : TRUE).effect = "allow"
  BY DEF Allowed, Decision
<1>2. (CHOOSE a \in Deciding(r) : TRUE) \in Deciding(r)
  BY <1>1
<1>3. \A a \in Deciding(r) : a \in Rules /\ a.action = r.action /\ ConditionMatches(a.conditions, r)
  BY DEF Deciding, Candidates
<1> QED  BY <1>1, <1>2, <1>3

\* Every rule but those of the providers is about another action.
NotOnCredentials(rules) == \A rule \in rules : rule.action # "provider.credential.resolve"

\* Every rule that allows a credential asks for one that is configured.
LEMMA CredentialRules ==
    ASSUME NEW rule \in Rules, rule.action = "provider.credential.resolve", rule.effect = "allow",
           NEW r, ConditionMatches(rule.conditions, r)
    PROVE  r.env["credentialsConfigured"] = TRUE
<1>1. NotOnCredentials(GitRemoteRules)
  BY RuleFields DEF NotOnCredentials, GitRemoteRules
<1>2. NotOnCredentials(WebhookRules)
  BY RuleFields DEF NotOnCredentials, WebhookRules
<1>3. NotOnCredentials(GitSyncRules)
  BY RuleFields DEF NotOnCredentials, GitSyncRules
<1>4. NotOnCredentials(GitCreateRules)
  BY RuleFields DEF NotOnCredentials, GitCreateRules
<1>5. NotOnCredentials(LlmRules)
  BY RuleFields DEF NotOnCredentials, LlmRules
<1>6. NotOnCredentials(LlmRoutingRules)
  BY RuleFields DEF NotOnCredentials, LlmRoutingRules
<1>7. NotOnCredentials(RunnerRules)
  BY RuleFields DEF NotOnCredentials, RunnerRules
<1>8. NotOnCredentials(RegistryRules)
  BY RuleFields DEF NotOnCredentials, RegistryRules
<1>9. NotOnCredentials(ImprovementRules)
  BY RuleFields DEF NotOnCredentials, ImprovementRules
<1>10. NotOnCredentials(CredentialCacheRules)
  BY RuleFields DEF NotOnCredentials, CredentialCacheRules
<1>11. NotOnCredentials(LocalAgentRules)
  BY RuleFields DEF NotOnCredentials, LocalAgentRules
<1>12. NotOnCredentials(ConsentRules)
  BY RuleFields DEF NotOnCredentials, ConsentRules
<1>13. NotOnCredentials(ProviderInvokeRules)
  BY RuleFields DEF NotOnCredentials, ProviderInvokeRules
<1>14. NotOnCredentials(SecretRules)
  BY RuleFields DEF NotOnCredentials, SecretRules
<1>15. NotOnCredentials(SandboxRules)
  BY RuleFields DEF NotOnCredentials, SandboxRules
<1>16. NotOnCredentials(McpRules)
  BY RuleFields DEF NotOnCredentials, McpRules
<1>17. NotOnCredentials(McpCallRules)
  BY RuleFields DEF NotOnCredentials, McpCallRules
<1>18. NotOnCredentials(PlatformRules)
  BY RuleFields DEF NotOnCredentials, PlatformRules
<1>19. rule \in ProviderRules
  BY <1>1, <1>2, <1>3, <1>4, <1>5, <1>6, <1>7, <1>8, <1>9,
     <1>10, <1>11, <1>12, <1>13, <1>14, <1>15, <1>16, <1>17, <1>18
     DEF NotOnCredentials, Rules
<1>20. PICK gates : gates = Facts({"remoteLlmEnabled", "remoteCompletionEnabled", "credentialsConfigured"},
                            NoCacheAccess)
  OBVIOUS
<1>21. /\ "env" \in DOMAIN rule.conditions
       /\ rule.conditions.env \in {EnvCredentials, gates}
  BY <1>19, <1>20, RuleFields DEF ProviderRules
<1>22. MapMatches(rule.conditions.env, r.env)
  BY <1>21 DEF ConditionMatches
<1>23. \A c \in {EnvCredentials, gates} : "credentialsConfigured" \in DOMAIN c /\ c["credentialsConfigured"] = TRUE
  BY <1>20 DEF EnvCredentials, Facts
<1> QED  BY <1>21, <1>22, <1>23 DEF MapMatches

\* The facts are in what the policies see, whatever the caller claims.
LEMMA FactsAreSeen ==
    ASSUME NEW action, NEW kind, NEW q, NEW ref
    PROVE  LET r == CredentialRequest(action, kind, q, ref) IN
           /\ r.action = action
           /\ \A k \in DOMAIN CredentialFacts(ref) : r.env[k] = CredentialFacts(ref)[k]
<1>1. PICK r : r = CredentialRequest(action, kind, q, ref)
  OBVIOUS
<1>2. r.action = action /\ r.env = CredentialPolicyEnvironment(q, ref)
  BY <1>1 DEF CredentialRequest, Request
<1>3. PICK claims : claims = SanitizeMetadata(q.claims)
  OBVIOUS
<1>4. r.env = Together(CredentialFacts(ref), claims)
  BY <1>2, <1>3 DEF CredentialPolicyEnvironment
<1>5. \A k \in DOMAIN CredentialFacts(ref) : r.env[k] = CredentialFacts(ref)[k]
  BY <1>4 DEF Together
<1> QED  BY <1>1, <1>2, <1>5

\* What the facts that the rules ask for say.
LEMMA FactsSay ==
    ASSUME NEW ref
    PROVE  /\ {"credentialsConfigured", "secretRefActive", "envSecretProviderEnabled"}
                  \subseteq DOMAIN CredentialFacts(ref)
           /\ CredentialFacts(ref)["credentialsConfigured"] = (ref.status = "active" /\ ref.key # "")
           /\ CredentialFacts(ref)["secretRefActive"] = (ref.status = "active")
           /\ CredentialFacts(ref)["envSecretProviderEnabled"] = security.env.enabled
<1>1. DOMAIN CredentialFacts(ref) = {"credentialsConfigured", "secretRefActive", "envSecretProviderEnabled",
                                     "credentialCacheAccessAllowed", "credentialMaterialStored"}
  BY Zenon DEF CredentialFacts
<1> QED  BY <1>1, Zenon DEF CredentialFacts

(* No request gets the policies' consent to a credential unless the        *)
(* reference is active and has a key and the provider of secrets is on,    *)
(* whatever its caller claims: what is claimed never replaces a fact, and  *)
(* every rule that allows a credential or a lease asks for the facts       *)
(* (credentialPolicyEnvironment, resolveCredentialInternal).               *)
THEOREM ClaimsNeverOpen == Spec => []ClaimsOpenNothing
<1>1. ClaimsOpenNothing
  <2> SUFFICES ASSUME NEW q \in CredentialRequests, NEW ref, CredentialPolicies(q, ref)
               PROVE  ref.status = "active" /\ ref.key # "" /\ security.env.enabled
    BY Zenon DEF ClaimsOpenNothing
  <2>1. PICK r : r = CredentialRequest("secret.lease.request", "secret_lease", q, ref)
    OBVIOUS
  <2>2. Allowed(r)
    BY <2>1 DEF CredentialPolicies
  <2>3. PICK a \in Rules : /\ a.action = "secret.lease.request" /\ a.effect = "allow"
                          /\ ConditionMatches(a.conditions, r)
    BY <2>1, <2>2, AllowingRule, FactsAreSeen
  <2>4. a.conditions = [env |-> EnvSecretGates]
    BY <2>3, RulesOnLeases, RuleFields
  <2>5. MapMatches(EnvSecretGates, r.env)
    BY <2>3, <2>4 DEF ConditionMatches
  <2>6. r.env["secretRefActive"] = TRUE /\ r.env["envSecretProviderEnabled"] = TRUE
    BY <2>5 DEF MapMatches, EnvSecretGates, Facts
  <2>7. PICK c : c = CredentialRequest("provider.credential.resolve", "provider_credential", q, ref)
    OBVIOUS
  <2>8. Allowed(c)
    BY <2>7 DEF CredentialPolicies
  <2>9. c.env["credentialsConfigured"] = TRUE
    BY <2>7, <2>8, AllowingRule, FactsAreSeen, CredentialRules
  <2>10. PICK facts : facts = CredentialFacts(ref)
    OBVIOUS
  <2>11. \A k \in DOMAIN facts : r.env[k] = facts[k] /\ c.env[k] = facts[k]
    BY <2>1, <2>7, <2>10, FactsAreSeen
  <2>12. {"credentialsConfigured", "secretRefActive", "envSecretProviderEnabled"} \subseteq DOMAIN facts
    BY <2>10, FactsSay, Zenon
  <2>13. facts["credentialsConfigured"] = TRUE /\ facts["envSecretProviderEnabled"] = TRUE
    BY <2>6, <2>9, <2>11, <2>12
  <2>14. /\ facts["credentialsConfigured"] = (ref.status = "active" /\ ref.key # "")
         /\ facts["envSecretProviderEnabled"] = security.env.enabled
    BY <2>10, FactsSay, Zenon
  <2> QED  BY <2>13, <2>14, Zenon
<1> QED  BY <1>1, PTL

=============================================================================
