---------------------------- MODULE TaskWorkflow ----------------------------
(***************************************************************************)
(* Concurrent HTTP requests running tasks: runAgentTaskWorkflow            *)
(* (apps/worker) behind POST /tasks/:id/run, the POST /tasks/:id/run-agent *)
(* handler, the handlers that write a task's status, and the conflict      *)
(* manager they share.  The code between two awaits runs to the next one   *)
(* without interruption, so each such segment is one action; a request's   *)
(* pc names the call it is awaiting.  There is no catch on the way: an     *)
(* error ends the request and leaves what was written.                     *)
(***************************************************************************)
EXTENDS ConflictManager, TaskStatus

CONSTANTS
    Requests,        \* slots for concurrent HTTP requests
    RepoOf,          \* the repository of a task
    BranchOf,        \* the branch name ai/<task>/<agent>/<title> of a task
    PolicyDenied,    \* tasks evaluateTask does not allow
    ReviewRequired,  \* tasks it allows with reviewRequired
    MaxRuns,
    Events           \* which outside events may happen, see EventNames

EventNames ==
    {"cancel",     \* POST /tasks/:id/cancel
     "manual",     \* POST /tasks/:id/plan, /start and /status
     "run_agent",  \* POST /tasks/:id/run-agent
     "throw",      \* an awaited provider call rejects
     "git_api",    \* POST /git/repos/:id/branches and /pull-requests
     "simulate",   \* POST /merge-simulations
     "settle",     \* POST /merge-queue/:id/mark-merged and /cancel
     "sync"}       \* webhooks and refresh-changed-files

ASSUME WorkflowAssumption ==
    /\ Events \subseteq EventNames
    /\ MaxRuns \in Nat \ {0}
    /\ PolicyDenied \subseteq KnownTasks
    /\ ReviewRequired \subseteq KnownTasks
    /\ RepoOf \in [KnownTasks -> Repos]
    /\ BranchOf \in [KnownTasks -> Branches]
    /\ \A t \in KnownTasks, r \in 1..MaxRuns : [task |-> t, run |-> r] \in Owners

VARIABLES
    tasks,     \* Task.status, "absent" before POST /tasks
    taskRuns,  \* state.taskRuns; the id of a run is its position
    requests   \* the local variables of the handlers in flight

wfVars == <<tasks, taskRuns, requests>>
vars == <<tasks, taskRuns, requests, cmVars>>

NoRun == 0
GhostRun == 0   \* a run id that names no run in the store
NoEntry == 0

IdleRequest ==
    [pc |-> "idle", task |-> NoTask, run |-> NoRun, lease |-> NoLease,
     files |-> {}, passed |-> FALSE, conflict |-> FALSE]

RunIds == DOMAIN taskRuns

(* findActiveTaskRun *)
ActiveRun(r) == taskRuns[r].status \in {"queued", "running"}
HasActiveRun(t) == \E r \in RunIds : taskRuns[r].task = t /\ ActiveRun(r)

(* listTaskRuns(task.id).length + 1 *)
NextAttempt(t) == Cardinality({r \in RunIds : taskRuns[r].task = t}) + 1

(* createTaskRun.  entry stands for the pull request and the queue entry   *)
(* the run records when it succeeds.                                       *)
NewRun(t, origin) ==
    [task |-> t, attempt |-> NextAttempt(t), status |-> "running",
     origin |-> origin, entry |-> NoEntry]

Awaiting(q, pc) == requests[q].pc = pc
Continue(q, patched) == requests' = [requests EXCEPT ![q] = patched]
Finish(q) == Continue(q, IdleRequest)

SetStatus(t, s) == tasks' = [tasks EXCEPT ![t] = s]

(***************************************************************************)
(* POST /tasks/:id/run                                                     *)
(***************************************************************************)

(* Up to the await of selectModel.  With an active run the request ends    *)
(* with 409 and changes nothing.                                           *)
StartRun(q, t) ==
    /\ Awaiting(q, "idle")
    /\ tasks[t] # "absent"
    /\ ~HasActiveRun(t)
    /\ Continue(q, [IdleRequest EXCEPT !.pc = "selectModel", !.task = t])
    /\ UNCHANGED <<tasks, taskRuns, cmVars>>

(* transitionToPolicyBlocked, for a task the policy denies *)
BlockByPolicy(q) ==
    LET t == requests[q].task
    IN  /\ Awaiting(q, "selectModel")
        /\ t \in PolicyDenied
        /\ \/ tasks[t] \in {"policy_blocked", "completed", "failed", "queued"}
           \/ CanTransitionTaskStatus(tasks[t], "planned")
        /\ SetStatus(t, "policy_blocked")
        /\ Finish(q)
        /\ UNCHANGED <<taskRuns, cmVars>>

(* Mutant: the task is queued whatever its status. *)
ClaimTaskUnguarded(q) ==
    /\ Awaiting(q, "selectModel")
    /\ requests[q].task \notin PolicyDenied
    /\ SetStatus(requests[q].task, "queued")
    /\ Continue(q, [requests[q] EXCEPT !.pc = "createBranch"])
    /\ UNCHANGED <<taskRuns, cmVars>>

(* The task is moved to queued, from a finished status or through planned: *)
(* a task somebody else has queued or is running throws here.  Then the    *)
(* await of createBranch.                                                  *)
ClaimTask(q) ==
    LET t == requests[q].task
    IN  /\ Awaiting(q, "selectModel")
        /\ t \notin PolicyDenied
        /\ \/ tasks[t] \in {"completed", "failed"}
           \/ CanTransitionTaskStatus(tasks[t], "planned")
        /\ SetStatus(t, "queued")
        /\ Continue(q, [requests[q] EXCEPT !.pc = "createBranch"])
        /\ UNCHANGED <<taskRuns, cmVars>>

(* The transitions of BlockByPolicy and ClaimTask are illegal. *)
RefuseClaim(q) ==
    LET t == requests[q].task
    IN  /\ Awaiting(q, "selectModel")
        /\ tasks[t] \notin {"completed", "failed"}
        /\ ~CanTransitionTaskStatus(tasks[t], "planned")
        /\ t \in PolicyDenied => tasks[t] \notin {"policy_blocked", "queued"}
        /\ Finish(q)
        /\ UNCHANGED <<tasks, taskRuns, cmVars>>

(* Mutant: the run is created before the transition is checked. *)
BeginRunFirst(q) ==
    LET t == requests[q].task
    IN  /\ Awaiting(q, "createBranch")
        /\ Len(taskRuns) < MaxRuns
        /\ taskRuns' = Append(taskRuns, NewRun(t, "workflow"))
        /\ \/ /\ CanTransitionTaskStatus(tasks[t], "branch_created")
              /\ SetStatus(t, "running")
              /\ Continue(q, [requests[q] EXCEPT !.pc = "agentRun", !.run = Len(taskRuns) + 1])
           \/ /\ ~CanTransitionTaskStatus(tasks[t], "branch_created")
              /\ Finish(q) /\ UNCHANGED tasks
        /\ UNCHANGED cmVars

(* branch_created, the new run, running, the instruction set; then the     *)
(* await of agentRunner.run.  The first transition comes before the run is *)
(* created.                                                                *)
BeginRun(q) ==
    LET t == requests[q].task
    IN  /\ Awaiting(q, "createBranch")
        /\ CanTransitionTaskStatus(tasks[t], "branch_created")
        /\ Len(taskRuns) < MaxRuns
        /\ taskRuns' = Append(taskRuns, NewRun(t, "workflow"))
        /\ SetStatus(t, "running")
        /\ Continue(q, [requests[q] EXCEPT !.pc = "agentRun", !.run = Len(taskRuns) + 1])
        /\ UNCHANGED cmVars

RefuseRun(q) ==
    /\ Awaiting(q, "createBranch")
    /\ ~CanTransitionTaskStatus(tasks[requests[q].task], "branch_created")
    /\ Finish(q)
    /\ UNCHANGED <<tasks, taskRuns, cmVars>>

(* The agent's changed files and verdict; then the await of the usage      *)
(* ledger.                                                                 *)
AgentReturns(q, files, passed) ==
    /\ Awaiting(q, "agentRun")
    /\ Continue(q, [requests[q] EXCEPT !.pc = "recordUsage", !.files = files,
                                       !.passed = passed])
    /\ UNCHANGED <<tasks, taskRuns, cmVars>>

(* The lease of the run's changes; then the await of the merge simulator. *)
LeaseChanges(q) ==
    LET t == requests[q].task
    IN  /\ Awaiting(q, "recordUsage")
        /\ CreateBranchLease([task |-> t, run |-> requests[q].run],
                             RepoOf[t], BranchOf[t], requests[q].files)
        /\ Continue(q, [requests[q] EXCEPT !.pc = "simulate",
                                           !.lease = Len(branchLeases) + 1])
        /\ UNCHANGED <<tasks, taskRuns, mergeSimulations, mergeQueueEntries,
                       taskRisk, clock>>

(* Mutant: the simulation is stored without its consequences. *)
SimulationStoredOnly(q, status, id) ==
    /\ Awaiting(q, "simulate")
    /\ mergeSimulations' = Append(mergeSimulations,
          [lease |-> requests[q].lease, status |-> status, at |-> clock, id |-> id])
    /\ SetStatus(requests[q].task, "testing")
    /\ Continue(q, [requests[q] EXCEPT !.pc = "runTests"])
    /\ UNCHANGED <<taskRuns, branchLeases, mergeQueueEntries, taskRisk, clock>>

(* The simulation is recorded and refreshes the queue, then the task moves *)
(* to testing, or the transition throws; then the await of the tests.      *)
SimulationReturns(q, status, id) ==
    LET t == requests[q].task
    IN  /\ Awaiting(q, "simulate")
        /\ RecordMergeSimulation(requests[q].lease, status, id)
        /\ \/ /\ CanTransitionTaskStatus(tasks[t], "testing")
              /\ SetStatus(t, "testing")
              /\ Continue(q, [requests[q] EXCEPT !.pc = "runTests",
                                   !.conflict = status = "text_conflict"])
           \/ /\ ~CanTransitionTaskStatus(tasks[t], "testing")
              /\ UNCHANGED tasks
              /\ Finish(q)
        /\ UNCHANGED <<taskRuns, branchLeases, clock>>

(* Mutant: the task fails and its run stays open. *)
TestsFailTaskOnly(q) ==
    /\ Awaiting(q, "runTests")
    /\ SetStatus(requests[q].task, "failed")
    /\ Finish(q)
    /\ UNCHANGED <<taskRuns, cmVars>>

(* The agent or the tests failed: the run is closed, then the task fails   *)
(* unless the transition throws.  The lease stays active.                  *)
TestsFail(q) ==
    LET t == requests[q].task
    IN  /\ Awaiting(q, "runTests")
        /\ taskRuns' = [taskRuns EXCEPT ![requests[q].run].status = "failed"]
        /\ IF CanTransitionTaskStatus(tasks[t], "failed")
             THEN SetStatus(t, "failed") ELSE UNCHANGED tasks
        /\ Finish(q)
        /\ UNCHANGED cmVars

(* Otherwise the await of createDraftPullRequest. *)
TestsPass(q) ==
    /\ Awaiting(q, "runTests")
    /\ requests[q].passed
    /\ Continue(q, [requests[q] EXCEPT !.pc = "createPullRequest"])
    /\ UNCHANGED <<tasks, taskRuns, cmVars>>

(* Mutant: the queue entry is not looked at. *)
FinalStatusIgnoringQueue(q, entryStatus) ==
    IF requests[q].conflict THEN "conflict_detected"
    ELSE IF requests[q].task \in ReviewRequired THEN "review_required"
    ELSE "pr_draft_ready"

(* let finalStatus: from the request's own simulation, the status the new  *)
(* queue entry has, and the policy decision.                               *)
FinalStatus(q, entryStatus) ==
    IF requests[q].conflict THEN "conflict_detected"
    ELSE IF entryStatus = "blocked" \/ requests[q].task \in ReviewRequired
      THEN "review_required"
      ELSE "pr_draft_ready"

(* Mutant: the lease is looked up again after the await. *)
QueuePullRequestOfNewestLease(q) ==
    LET t     == requests[q].task
        final == FinalStatus(q, MergeQueueFieldsForLease(branchLeases, mergeSimulations,
                                                         Len(branchLeases)).status)
    IN  /\ Awaiting(q, "createPullRequest")
        /\ CreateMergeQueueEntry(Len(branchLeases))
        /\ taskRuns' = [taskRuns EXCEPT ![requests[q].run] =
              [@ EXCEPT !.status = "succeeded", !.entry = Len(mergeQueueEntries) + 1]]
        /\ IF CanTransitionTaskStatus(tasks[t], final)
             THEN SetStatus(t, IF final = "pr_draft_ready" THEN "completed" ELSE final)
             ELSE UNCHANGED tasks
        /\ Finish(q)
        /\ UNCHANGED <<branchLeases, mergeSimulations, taskRisk, clock>>

(* The pull request and its queue entry, the closed run, and the final     *)
(* status, unless that transition throws.  pr_draft_ready goes on to       *)
(* completed in the same segment.                                          *)
QueuePullRequest(q) ==
    LET t     == requests[q].task
        final == FinalStatus(q, MergeQueueFieldsForLease(branchLeases, mergeSimulations,
                                                         requests[q].lease).status)
    IN  /\ Awaiting(q, "createPullRequest")
        /\ CreateMergeQueueEntry(requests[q].lease)
        /\ taskRuns' = [taskRuns EXCEPT ![requests[q].run] =
              [@ EXCEPT !.status = "succeeded", !.entry = Len(mergeQueueEntries) + 1]]
        /\ IF CanTransitionTaskStatus(tasks[t], final)
             THEN SetStatus(t, IF final = "pr_draft_ready" THEN "completed" ELSE final)
             ELSE UNCHANGED tasks
        /\ Finish(q)
        /\ UNCHANGED <<branchLeases, mergeSimulations, taskRisk, clock>>

(***************************************************************************)
(* The other task handlers                                                 *)
(***************************************************************************)

(* POST /tasks *)
CreateTask(t) ==
    /\ tasks[t] = "absent"
    /\ SetStatus(t, "draft")
    /\ UNCHANGED <<taskRuns, requests, cmVars>>

(* POST /tasks/:id/run-agent: the check and the new run are one segment,   *)
(* and the task's status is neither read nor written.                      *)
StartAgentRun(q, t) ==
    /\ "run_agent" \in Events
    /\ Awaiting(q, "idle")
    /\ tasks[t] # "absent"
    /\ ~HasActiveRun(t)
    /\ Len(taskRuns) < MaxRuns
    /\ taskRuns' = Append(taskRuns, NewRun(t, "endpoint"))
    /\ Continue(q, [IdleRequest EXCEPT !.pc = "runAgent", !.task = t,
                                       !.run = Len(taskRuns) + 1])
    /\ UNCHANGED <<tasks, cmVars>>

AgentRunReturns(q, status) ==
    /\ Awaiting(q, "runAgent")
    /\ taskRuns' = [taskRuns EXCEPT ![requests[q].run].status = status]
    /\ Finish(q)
    /\ UNCHANGED <<tasks, cmVars>>

(* POST /tasks/:id/plan, /cancel and /status: one legal transition *)
WriteStatus(t, s) ==
    /\ tasks[t] # "absent"
    /\ "manual" \in Events \/ ("cancel" \in Events /\ s = "cancelled")
    /\ CanTransitionTaskStatus(tasks[t], s)
    /\ SetStatus(t, s)
    /\ UNCHANGED <<taskRuns, requests, cmVars>>

(* POST /tasks/:id/start: a draft is planned first *)
StartTask(t) ==
    /\ "manual" \in Events
    /\ tasks[t] # "absent"
    /\ tasks[t] = "draft" \/ CanTransitionTaskStatus(tasks[t], "queued")
    /\ SetStatus(t, "queued")
    /\ UNCHANGED <<taskRuns, requests, cmVars>>

(* A rejected await ends the request where it stands. *)
ProviderThrows(q) ==
    /\ "throw" \in Events
    /\ ~Awaiting(q, "idle")
    /\ Finish(q)
    /\ UNCHANGED <<tasks, taskRuns, cmVars>>

(***************************************************************************)
(* The other users of the conflict manager                                 *)
(***************************************************************************)

(* What the git handlers can be called with: ids that have been handed     *)
(* out, or that name no task and no run.                                   *)
KnownOwners ==
    {o \in Owners : /\ o.run \in RunIds \cup {GhostRun}
                    /\ o.task \in KnownTasks => tasks[o.task] # "absent"}

ConflictManagerStep ==
    /\ UNCHANGED wfVars
    /\ \/ /\ "git_api" \in Events
          /\ \/ \E o \in KnownOwners, r \in Repos, b \in Branches, fs \in FileSets :
                   LeaseBranch(o, r, b, fs)
             \/ \E l \in LeaseIds \cup {GhostLease} : EnqueuePullRequest(l)
       \/ /\ "simulate" \in Events
          /\ \E l \in LeaseIds, s \in SimulationStatuses, id \in SimulationIds :
                Simulate(l, s, id)
       \/ /\ "settle" \in Events
          /\ \E e \in EntryIds : MarkMerged(e) \/ CancelEntry(e)
       \/ /\ "sync" \in Events
          /\ \E r \in Repos, b \in Branches, t \in KnownTasks \cup {NoTask},
               fs \in FileSets : SyncChangedFiles(r, b, t, fs)
       \/ Tick

(***************************************************************************)
(* Specification                                                           *)
(***************************************************************************)

Init ==
    /\ CMInit
    /\ tasks = [t \in KnownTasks |-> "absent"]
    /\ taskRuns = <<>>
    /\ requests = [q \in Requests |-> IdleRequest]

WorkflowStep(q) ==
    \/ BlockByPolicy(q)
    \/ ClaimTask(q)
    \/ RefuseClaim(q)
    \/ BeginRun(q)
    \/ RefuseRun(q)
    \/ \E fs \in FileSets, passed \in BOOLEAN : AgentReturns(q, fs, passed)
    \/ LeaseChanges(q)
    \/ \E s \in SimulationStatuses, id \in SimulationIds : SimulationReturns(q, s, id)
    \/ TestsFail(q)
    \/ TestsPass(q)
    \/ QueuePullRequest(q)
    \/ \E s \in {"succeeded", "failed"} : AgentRunReturns(q, s)

Next ==
    \/ \E q \in Requests : WorkflowStep(q) \/ ProviderThrows(q)
    \/ \E q \in Requests, t \in KnownTasks : StartRun(q, t) \/ StartAgentRun(q, t)
    \/ \E t \in KnownTasks : CreateTask(t) \/ StartTask(t)
    \/ \E t \in KnownTasks, s \in TaskStatuses : WriteStatus(t, s)
    \/ ConflictManagerStep

Spec == Init /\ [][Next]_vars

(* The event loop serves every request: a call that can return does.       *)
FairSpec == Spec /\ \A q \in Requests : WF_vars(WorkflowStep(q))

(***************************************************************************)
(* Properties                                                              *)
(***************************************************************************)

AwaitPoints ==
    {"selectModel", "createBranch", "agentRun", "recordUsage", "simulate",
     "runTests", "createPullRequest", "runAgent"}

(* The shape of the store and of the requests in flight. *)
TypeOK ==
    /\ tasks \in [KnownTasks -> TaskStatuses \cup {"absent"}]
    /\ taskRuns \in Seq([task : KnownTasks, attempt : Nat, status : TaskRunStatuses,
                         origin : {"workflow", "endpoint"}, entry : Nat])
    /\ requests \in [Requests ->
          [pc : AwaitPoints \cup {"idle"}, task : KnownTasks \cup {NoTask},
           run : Nat, lease : Nat, files : SUBSET Files,
           passed : BOOLEAN, conflict : BOOLEAN]]

(* The status machine is the workflow's only lock: unless somebody writes  *)
(* statuses by hand, no two workflow runs of a task are active together,   *)
(* although several requests pass the active-run check before the first    *)
(* run exists.                                                             *)
WorkflowRunsExclusive ==
    \A r, p \in RunIds :
        (/\ r # p
         /\ taskRuns[r].task = taskRuns[p].task
         /\ taskRuns[r].origin = "workflow" /\ taskRuns[p].origin = "workflow")
        => ~(ActiveRun(r) /\ ActiveRun(p))

(* A workflow run that succeeded has a queue entry of its own, for a lease *)
(* that belongs to this task and this run.                                 *)
SucceededRunsQueued ==
    \A r \in RunIds :
        (taskRuns[r].origin = "workflow" /\ taskRuns[r].status = "succeeded") =>
            /\ taskRuns[r].entry \in EntryIds
            /\ \E l \in LeaseIds :
                  /\ mergeQueueEntries[taskRuns[r].entry].lease = l
                  /\ branchLeases[l].owner = [task |-> taskRuns[r].task, run |-> r]
            /\ \A p \in RunIds \ {r} : taskRuns[p].entry # taskRuns[r].entry

(* A cancelled task gets no further workflow run, even from a request that *)
(* claimed it before: the transition to branch_created throws before the   *)
(* run is created.                                                         *)
NoRunAfterCancel ==
    [][\A r \in DOMAIN taskRuns' \ RunIds :
          taskRuns'[r].origin = "workflow" => tasks[taskRuns'[r].task] # "cancelled"]_vars

(* A task is completed by its workflow only in a step that creates a queue *)
(* entry, and the entry is ready: neither its own dry run nor the branches *)
(* leased since it speak against it.                                       *)
CompletedOnlyWhenClear ==
    [][\A t \in KnownTasks :
          (tasks[t] = "testing" /\ tasks'[t] = "completed") =>
              /\ EntryIds # DOMAIN mergeQueueEntries'
              /\ mergeQueueEntries'[Len(mergeQueueEntries')].status = "ready"]_vars

(* Every run is closed in the end, when no provider call rejects.          *)
RunsClose ==
    \A r \in 1..MaxRuns :
        (r \in RunIds /\ taskRuns[r].status = "running")
            ~> (r \in RunIds /\ taskRuns[r].status \in {"succeeded", "failed"})

(* The conflict manager's guarantees hold in the composed system: each     *)
(* step of it is a step of ConflictManager, or leaves that state alone.    *)
RefinesConflictManager == CMSpec

=============================================================================
