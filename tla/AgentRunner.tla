----------------------------- MODULE AgentRunner -----------------------------
(***************************************************************************)
(* AgentRunnerService with the mock and the local runner. A run passes the *)
(* policies and the harness, is prepared, waits for the language model and *)
(* then, where commands may be executed, runs its test commands one after  *)
(* the other in a validated workspace, within a sandbox session. Commands  *)
(* can also be sent to a run that is recorded. Every command ends with one *)
(* result: blocked, completed, failed or timed out.                        *)
(*                                                                         *)
(* A configuration is [kind, enabled, execute, root], root the paths below *)
(* the configured root, none when it is not configured. A request is       *)
(* [path, allowed, tests, prompt]. What matters of a command is recorded   *)
(* in Commands: whether the lists of denied words, network words and       *)
(* remote Git words match it, the words of policy rules it contains,       *)
(* whether it has shell syntax, whether its executable is allowed, blocked *)
(* or other, and whether starting it throws. Paths: "fixture", "temp" (the *)
(* default root of workspaces), "repository" (the working directory),      *)
(* "filesystem" (its root) and "outside". Texts, diffs and audit events    *)
(* are left out.                                                           *)
(***************************************************************************)
EXTENDS SecurityControls

CONSTANTS
    RunnerConfigs,   \* configurations the service may be started with
    Commands,        \* the commands, by name
    RunRequests,     \* runs that may be requested
    Orders,          \* what may be sent to a recorded run: [path, command, allowed, defaultDenied]
    MaxRuns          \* runs that may be started

ASSUME RunnerAssumption ==
    /\ \A c \in RunnerConfigs : c.kind \in {"mock", "local"} /\ {c.enabled, c.execute} \subseteq BOOLEAN
    /\ \A c \in DOMAIN Commands : Commands[c].words \subseteq NetworkWords \cup RemoteGitWords
    /\ \A req \in RunRequests : req.allowed \subseteq DOMAIN Commands /\ req.tests \in Seq(DOMAIN Commands)
    /\ \A order \in Orders : order.command \in DOMAIN Commands
    /\ MaxRuns \in Nat

VARIABLE runner      \* [config, active, runs, results, workspaces]

executionVars == <<security, runner, ops>>

Init ==
    /\ SecurityInit
    /\ \E c \in RunnerConfigs :
          runner = [config |-> c, active |-> <<>>, runs |-> <<>>, results |-> <<>>,
                    workspaces |-> <<>>]

Config == runner.config

-----------------------------------------------------------------------------
(* Policies, harness, workspace and executor.                              *)

RunnerPolicy ==
    [kind \in {"mock", "local"} |->
        Allowed([Request("runner.execute", "runner") EXCEPT !.roles = {"system"}, !.runner = kind])]

\* words are those of all the commands, facts what the service reports.
CommandPolicy ==
    [words \in SUBSET UNION {Commands[c].words : c \in DOMAIN Commands} |->
        [facts \in [localCommandExecutionEnabled : BOOLEAN, harnessAllowed : BOOLEAN, workspaceSafe : BOOLEAN] |->
            Allowed([Request("runner.command.execute", "command") EXCEPT
                        !.roles = {"system"}, !.words = words, !.env = facts])]]

WordsOf(names) == UNION {Commands[c].words : c \in names}

CommandsAllowed(names, harnessAllowed, safe) ==
    CommandPolicy[WordsOf(names)][[localCommandExecutionEnabled |-> Config.execute,
                                   harnessAllowed |-> harnessAllowed, workspaceSafe |-> safe]]

EvaluateRunnerHarnessPolicy(names) ==
    \A c \in names : ~(Commands[c].denied \/ Commands[c].network \/ Commands[c].remote)

Requested(req) == req.allowed \cup ToSet(req.tests)

\* The local runner's own check; the mock runner has none.
ValidateEnvironment(req) ==
    Config.kind = "local" => Config.enabled /\ req.path # "" /\ req.path \in Config.root

\* MUTANT: the working directory is a workspace like any other.
ValidateWorkspaceInRoot(path) ==
    path \in (IF Config.root = {} THEN {"temp"} ELSE Config.root)

ValidateWorkspace(path) ==
    /\ path \in (IF Config.root = {} THEN {"temp"} ELSE Config.root)
    /\ path \notin {"repository", "filesystem"}

ValidateCommand(name, allowed, defaultDenied) ==
    LET c == Commands[name]
    IN  /\ Config.execute
        /\ ~c.shell /\ c.executable = "allowed"
        /\ ~(defaultDenied /\ c.denied)
        /\ name \in allowed

\* MUTANT: what is thrown when a command is started is lost.
ExecuteCommandUncaught(name, allowed, defaultDenied) ==
    IF ~ValidateCommand(name, allowed, defaultDenied) THEN {"blocked"}
    ELSE IF Commands[name].throws THEN {}
    ELSE {"completed", "failed", "timed_out"}

\* The time limit, the error and the end of the process race; the first decides.
ExecuteCommand(name, allowed, defaultDenied) ==
    IF ~ValidateCommand(name, allowed, defaultDenied) THEN {"blocked"}
    ELSE IF Commands[name].throws THEN {"thrown"}
    ELSE {"completed", "failed", "timed_out"}

-----------------------------------------------------------------------------
(* Records.                                                                *)

CreateRun(s, run) == [s EXCEPT !.runs = Append(@, run)]

\* workspace and session are positions, 0 for none.
Run(n, status, results, workspace, session) ==
    [id |-> n, status |-> status, results |-> results, workspace |-> workspace, session |-> session]

SaveCommandResult(s, run, command, path, status) ==
    [s EXCEPT !.results = Append(@, [run |-> run, command |-> command, path |-> path, status |-> status])]

\* MUTANT: a command that timed out does not count as failed.
RunStatusIgnoringTimeouts(results, own) ==
    LET statuses == {results[k].status : k \in ToSet(own)}
    IN  IF "blocked" \in statuses THEN "blocked"
        ELSE IF "failed" \in statuses THEN "failed" ELSE "completed"

RunStatus(results, own) ==
    LET statuses == {results[k].status : k \in ToSet(own)}
    IN  IF "blocked" \in statuses THEN "blocked"
        ELSE IF statuses \intersect {"failed", "timed_out"} # {} THEN "failed" ELSE "completed"

-----------------------------------------------------------------------------
(* runAgent. A run in flight is [req, session, phase, results, workspace]; *)
(* it keeps its place in active when it ends.                              *)

InFlight(n) == runner.active[n].phase # "ended"

Enter(s, req, session, phase) ==
    [s EXCEPT !.active = Append(@, [req |-> req, session |-> session, phase |-> phase,
                                    results |-> <<>>, workspace |-> 0])]

Refused(req) ==
    \/ ~RunnerPolicy[Config.kind]
    \/ ~EvaluateRunnerHarnessPolicy(Requested(req))
    \/ /\ Config.execute /\ req.tests # <<>>
       /\ ~CommandsAllowed(Requested(req), TRUE, req.path # "")

StartRun(req) ==
    LET sandboxed == Config.execute /\ req.path # ""
        n         == Len(runner.active) + 1
        refused   == Refused(req) \/ (sandboxed /\ ~SandboxAllowed["local_temp_fixture"])
    IN  /\ Len(runner.active) < MaxRuns /\ Operates
        /\ runner' = IF refused
                     THEN CreateRun(Enter(runner, req, 0, "ended"), Run(n, "blocked", <<>>, 0, 0))
                     ELSE Enter(runner, req, IF sandboxed THEN Len(security.sessions) + 1 ELSE 0, "preparing")
        /\ security' = IF sandboxed /\ ~refused
                       THEN WithSession(security, "local_temp_fixture") ELSE security

\* MUTANT: only a run that succeeded completes its session.
EndRunIfCompleted(n, s, status) ==
    LET run == s.active[n]
    IN  /\ runner' = CreateRun([s EXCEPT !.active[n].phase = "ended"],
                               Run(n, status, run.results, run.workspace, run.session))
        /\ security' = IF run.session = 0 \/ status # "completed" THEN security
                       ELSE CompleteSandboxSession(security, run.session)

\* The runner returned: its session is completed and the run recorded.
EndRun(n, s, status) ==
    LET run == s.active[n]
    IN  /\ runner' = CreateRun([s EXCEPT !.active[n].phase = "ended"],
                               Run(n, status, run.results, run.workspace, run.session))
        /\ security' = IF run.session = 0 THEN security ELSE CompleteSandboxSession(security, run.session)

\* The run is recorded without the runner: its session stays as it is.
DropRun(n, s, status) ==
    /\ runner' = CreateRun([s EXCEPT !.active[n].phase = "ended"], Run(n, status, <<>>, 0, 0))
    /\ UNCHANGED security

PrepareRun(n) ==
    LET req == runner.active[n].req
    IN  /\ runner.active[n].phase = "preparing"
        /\ IF ~ValidateEnvironment(req) THEN DropRun(n, runner, "blocked")
           ELSE IF IF Config.kind = "local" THEN ~Config.execute /\ req.allowed # {}
                                            ELSE req.prompt = "block"
           THEN EndRun(n, runner, "blocked")
           ELSE /\ runner' = [runner EXCEPT !.active[n].phase = "completing"]
                /\ UNCHANGED security

\* The run with its workspace, ready or rejected.
CreateWorkspace(n) ==
    LET path == runner.active[n].req.path
    IN  [runner EXCEPT
            !.workspaces = Append(@, [path |-> path,
                                      status |-> IF ValidateWorkspace(path) THEN "ready" ELSE "rejected"]),
            !.active[n].workspace = Len(runner.workspaces) + 1]

LlmAnswers(n, ok) ==
    LET req == runner.active[n].req
    IN  /\ runner.active[n].phase = "completing"
        /\ IF ~ok THEN EndRun(n, runner, "blocked")
           ELSE IF Config.kind = "mock"
                THEN EndRun(n, runner, IF req.prompt = "fail" THEN "failed" ELSE "completed")
           ELSE IF ~Config.execute THEN EndRun(n, runner, "completed")
           ELSE IF ~ValidateWorkspace(req.path) THEN EndRun(n, CreateWorkspace(n), "blocked")
           ELSE IF req.tests = <<>> THEN EndRun(n, CreateWorkspace(n), "completed")
           ELSE /\ runner' = [CreateWorkspace(n) EXCEPT !.active[n].phase = "testing"]
                /\ UNCHANGED security

\* The next test command of a run. What throws leaves the results behind.
ExecuteTestCommand(n, outcome) ==
    LET run     == runner.active[n]
        command == run.req.tests[Len(run.results) + 1]
        saved   == [SaveCommandResult(runner, n, command, run.req.path, outcome) EXCEPT
                       !.active[n].results = Append(@, Len(runner.results) + 1)]
        last    == Len(run.results) + 1 = Len(run.req.tests)
    IN  /\ run.phase = "testing"
        /\ outcome \in ExecuteCommand(command, run.req.allowed, TRUE)
        /\ IF outcome = "thrown" THEN DropRun(n, runner, "failed")
           ELSE IF last THEN EndRun(n, saved, RunStatus(saved.results, saved.active[n].results))
           ELSE runner' = saved /\ UNCHANGED security

-----------------------------------------------------------------------------
(* POST /agents/runs/:id/execute-command. What it reads of the run does    *)
(* not change while it waits. When it throws nothing is saved.             *)

OrderPath(run, order) ==
    IF order.path # "" THEN order.path
    ELSE IF run.workspace # 0 THEN runner.workspaces[run.workspace].path ELSE ""

\* The outcomes of an order: the local runner does not ask whether it is enabled.
ExecuteCommandForRun(run, order) ==
    LET path == OrderPath(run, order)
    IN  IF ~CommandsAllowed({order.command}, order.allowed # {}, path # "") THEN {"blocked"}
        ELSE IF ~Config.execute \/ Config.kind # "local" THEN {"blocked"}
        ELSE IF path = "" \/ ~ValidateWorkspace(path) THEN {"blocked"}
        ELSE ExecuteCommand(order.command, order.allowed, order.defaultDenied)

PostCommand(k, order, outcome) ==
    LET run == runner.runs[k]
    IN  /\ Operates
        /\ outcome \in ExecuteCommandForRun(run, order) \ {"thrown"}
        /\ runner' = SaveCommandResult(runner, run.id, order.command, OrderPath(run, order), outcome)
        /\ UNCHANGED security

Outcomes == {"blocked", "completed", "failed", "timed_out", "thrown"}

RunnerStep(n) ==
    /\ \/ PrepareRun(n)
       \/ \E ok \in BOOLEAN : LlmAnswers(n, ok)
       \/ \E outcome \in Outcomes : ExecuteTestCommand(n, outcome)
    /\ UNCHANGED ops

Next ==
    \/ SecurityNext /\ UNCHANGED runner
    \/ \E req \in RunRequests : StartRun(req)
    \/ \E n \in DOMAIN runner.active : RunnerStep(n)
    \/ \E k \in DOMAIN runner.runs, order \in Orders, outcome \in Outcomes : PostCommand(k, order, outcome)

(* Promises that are settled are continued, the model answers or its call  *)
(* fails, and a command ends or its time limit does.                       *)
Fairness == \A n \in 1..MaxRuns : WF_executionVars(n \in DOMAIN runner.active /\ RunnerStep(n))

Spec == Init /\ [][Next]_executionVars /\ Fairness

-----------------------------------------------------------------------------
(* A command is started only by a configuration that allows commands, in a *)
(* workspace below the root that is neither the working directory nor the  *)
(* root of the file system, with an executable of the executor's own list, *)
(* and never one that contains words of remote Git or of the network,      *)
(* whatever the caller's lists say and whichever of the two paths it came  *)
(* by (executeTestCommands and executeCommandForRun).                      *)
CommandsConfined ==
    \A k \in DOMAIN runner.results :
        LET r == runner.results[k]
            c == Commands[r.command]
        IN  (r.status # "blocked") =>
               /\ Config.kind = "local" /\ Config.execute
               /\ r.path \in Config.root \cup {"temp"}
               /\ r.path \notin {"repository", "filesystem"}
               /\ c.executable = "allowed" /\ ~c.shell /\ c.words = {}

(* A run in flight that executes commands holds an active session of its   *)
(* own, and when the runner has returned, whatever the result, that        *)
(* session is completed (runAgent, completeSandboxSession).                *)
SessionsFollowRuns ==
    /\ \A n \in DOMAIN runner.active :
          LET run == runner.active[n]
          IN  /\ (InFlight(n) /\ run.session # 0) => security.sessions[run.session].status = "active"
              /\ (run.phase = "testing") => run.session # 0
              /\ \A m \in DOMAIN runner.active : (m # n /\ run.session # 0) => runner.active[m].session # run.session
    /\ \A k \in DOMAIN runner.runs :
          (runner.runs[k].session # 0) => security.sessions[runner.runs[k].session].status = "completed"

(* A run recorded as completed has one result for every test command, all  *)
(* completed; one recorded as failed with results has none that is         *)
(* blocked; and no run is recorded with the result of another, though runs *)
(* and orders interleave in one log of results (executeRun, createRun).    *)
RunsMatchResults ==
    \A k \in DOMAIN runner.runs :
        LET run   == runner.runs[k]
            req   == runner.active[run.id].req
            found == {runner.results[i].status : i \in ToSet(run.results)}
        IN  /\ \A i \in ToSet(run.results) : runner.results[i].run = run.id
            /\ (run.status = "completed" /\ Config.kind = "local" /\ Config.execute) =>
                  /\ found \subseteq {"completed"}
                  /\ [i \in DOMAIN run.results |-> runner.results[run.results[i]].command] = req.tests
            /\ (run.status = "failed") => "blocked" \notin found

(* Every run that is started is recorded in the end, once (runAgent).      *)
RunsAreRecorded ==
    \A n \in 1..MaxRuns :
        (n \in DOMAIN runner.active) ~>
            (Cardinality({k \in DOMAIN runner.runs : runner.runs[k].id = n}) = 1)

(* docs/features/local-agent-runner/v1.md: "Command execution is disabled  *)
(* unless" the local runner is chosen and enabled, commands are allowed    *)
(* and the workspace root is configured.                                   *)
CommandsNeedEnabledRunner ==
    \A k \in DOMAIN runner.results :
        (runner.results[k].status # "blocked") =>
            Config.kind = "local" /\ Config.enabled /\ Config.execute /\ Config.root # {}
=============================================================================
