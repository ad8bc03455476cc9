--------------------------- MODULE ConflictManager ---------------------------
(***************************************************************************)
(* Branch leases, merge simulations and the merge queue, as the store      *)
(* keeps them (packages/db/src/repository.ts) and as their callers drive   *)
(* them: the task workflow, the git integration service, the webhook       *)
(* synchronisation and the HTTP handlers.  The store's methods are         *)
(* synchronous, so each one is a single step; what interleaves is the      *)
(* order in which the callers reach them.                                  *)
(*                                                                         *)
(* The id of a lease or of an entry is its position in creation order.     *)
(***************************************************************************)
EXTENDS ConflictScoring, Sequences

CONSTANTS
    KnownTasks,      \* task ids the store knows
    Owners,          \* the [task, run] pairs callers create leases for
    Repos,
    Branches,        \* branch names
    FileSets,        \* the sets of changed files agents and webhooks report
    MaxLeases, MaxSimulations, MaxEntries,
    MaxClock         \* bound on the millisecond clock

ASSUME BoundsAssumption ==
    {MaxLeases, MaxSimulations, MaxEntries, MaxClock} \subseteq Nat

ASSUME FileSetsOfFiles == FileSets \subseteq SUBSET Files

VARIABLES
    branchLeases,      \* state.branchLeases
    mergeSimulations,  \* state.mergeSimulations, in the order of recording
    mergeQueueEntries, \* state.mergeQueueEntries
    taskRisk,          \* Task.conflictRiskScore of the known tasks
    clock              \* Date.now(), in milliseconds

cmVars == <<branchLeases, mergeSimulations, mergeQueueEntries, taskRisk, clock>>

NoTask == "no task"    \* an optional task id that is undefined

NoLease == 0           \* a simulation without branchLeaseId
GhostLease == -1       \* a lease id that names no lease in the store

LeaseIds == DOMAIN branchLeases
EntryIds == DOMAIN mergeQueueEntries

SettledStatuses == {"merged", "cancelled"}
LiveEntry(e) == mergeQueueEntries[e].status \notin SettledStatuses

(***************************************************************************)
(* Queries.  They read the leases and the simulations they are given: the  *)
(* store's own, or what an operation has just made of them.                *)
(***************************************************************************)

(* The sort of listMergeSimulations: newest first, and the random id       *)
(* decides between two simulations of the same millisecond.                *)
Latest(sims) ==
    CHOOSE s \in sims : \A t \in sims :
        \/ s.at > t.at
        \/ s.at = t.at /\ s.id <= t.id

(* latestMergeSimulationForLease and latestMergeSimulationForLeasePair *)
LatestStatus(sims, ids) ==
    LET of == {s \in Range(sims) : s.lease \in ids}
    IN  IF of = {} THEN NoSimulation ELSE Latest(of).status

(* Two leases that listActiveBranchLeases and the filters after it pair:   *)
(* both active, in one repository, of different runs and different tasks.  *)
Rivals(a, b) ==
    /\ a.status = "active" /\ b.status = "active"
    /\ a.repo = b.repo
    /\ a.owner.run # b.owner.run
    /\ a.owner.task # b.owner.task

LeaseRisk(leases, sims, k, l) ==
    CreateConflictRisk(leases[k].files, leases[l].files, LatestStatus(sims, {k, l}))

(* computeRepoConflictRisks: every unordered pair once *)
ComputeRepoConflictRisks(leases, sims, repo) ==
    {[leases |-> {p[1], p[2]}, risk |-> LeaseRisk(leases, sims, p[1], p[2])] :
        p \in {q \in (DOMAIN leases) \X (DOMAIN leases) :
                 /\ q[1] < q[2]
                 /\ leases[q[1]].repo = repo
                 /\ Rivals(leases[q[1]], leases[q[2]])}}

(* computeConflictRisksForTaskRun *)
ComputeConflictRisksForTaskRun(leases, sims, run) ==
    {r \in UNION {ComputeRepoConflictRisks(leases, sims, repo) : repo \in Repos} :
        \E l \in r.leases : leases[l].owner.run = run}

(* computeConflictRisksForLease: nothing for a lease that is not active *)
ComputeConflictRisksForLease(leases, sims, l) ==
    IF l \notin DOMAIN leases THEN {}
    ELSE {[leases |-> {k, l}, risk |-> LeaseRisk(leases, sims, l, k)] :
            k \in {j \in (DOMAIN leases) \ {l} : Rivals(leases[l], leases[j])}}

(* highestConflictRiskForLease(l)?.riskScore ?? 0 *)
HighestConflictRisk(leases, sims, l) ==
    LET scores == {r.risk.riskScore : r \in ComputeConflictRisksForLease(leases, sims, l)}
    IN  IF scores = {} THEN 0 ELSE Max(scores)

(* Mutant: a simulation replaces the comparison with the other branches. *)
MergeQueueFieldsOfSimulation(leases, sims, l) ==
    LET status   == LatestStatus(sims, {l})
        score    == IF status = NoSimulation THEN HighestConflictRisk(leases, sims, l)
                                             ELSE RiskContribution(status)
        decision == MergeQueueDecision(score, status)
    IN  [status           |-> decision.status,
         riskScore        |-> score,
         simulationStatus |-> status,
         blockingReason   |-> decision.blockingReason,
         recommendation   |-> decision.recommendation]

(* mergeQueueFieldsForLease *)
MergeQueueFieldsForLease(leases, sims, l) ==
    LET status   == LatestStatus(sims, {l})
        score    == HigherOf(HighestConflictRisk(leases, sims, l), RiskContribution(status))
        decision == MergeQueueDecision(score, status)
    IN  [status           |-> decision.status,
         riskScore        |-> score,
         simulationStatus |-> status,
         blockingReason   |-> decision.blockingReason,
         recommendation   |-> decision.recommendation]

(***************************************************************************)
(* The store's operations, each on the part of the state it writes         *)
(***************************************************************************)

(* createBranchLease *)
CreateBranchLease(owner, repo, branch, files) ==
    /\ Len(branchLeases) < MaxLeases
    /\ branchLeases' = Append(branchLeases,
          [owner |-> owner, repo |-> repo, branch |-> branch,
           files |-> files, status |-> "active"])

QueueEntry(l, fields) ==
    [lease            |-> l,
     status           |-> fields.status,
     riskScore        |-> fields.riskScore,
     simulationStatus |-> fields.simulationStatus,
     blockingReason   |-> fields.blockingReason,
     recommendation   |-> fields.recommendation]

(* createMergeQueueEntry, as both callers use it: no status is passed and  *)
(* the fields that are passed were derived just before.                    *)
CreateMergeQueueEntry(l) ==
    /\ Len(mergeQueueEntries) < MaxEntries
    /\ mergeQueueEntries' = Append(mergeQueueEntries,
          QueueEntry(l, MergeQueueFieldsForLease(branchLeases, mergeSimulations, l)))

(* Mutants: settled entries are refreshed too, or only ready ones are.     *)
RefreshSettledEntriesToo(leases, sims, l) ==
    LET fields == MergeQueueFieldsForLease(leases, sims, l)
    IN  mergeQueueEntries' =
            [e \in EntryIds |-> IF mergeQueueEntries[e].lease = l THEN QueueEntry(l, fields)
                                                                ELSE mergeQueueEntries[e]]

RefreshReadyEntriesOnly(leases, sims, l) ==
    LET fields == MergeQueueFieldsForLease(leases, sims, l)
    IN  mergeQueueEntries' =
            [e \in EntryIds |->
                IF mergeQueueEntries[e].lease = l /\ mergeQueueEntries[e].status = "ready"
                  THEN QueueEntry(l, fields)
                  ELSE mergeQueueEntries[e]]

(* refreshMergeQueueEntriesForLease *)
RefreshMergeQueueEntriesForLease(leases, sims, l) ==
    LET fields == MergeQueueFieldsForLease(leases, sims, l)
    IN  mergeQueueEntries' =
            [e \in EntryIds |->
                IF mergeQueueEntries[e].lease = l /\ LiveEntry(e)
                  THEN QueueEntry(l, fields)
                  ELSE mergeQueueEntries[e]]

(* recordMergeSimulation.  The simulation is pushed first; then the task's *)
(* risk is updated, which throws when the lease's task is unknown, before  *)
(* the queue is refreshed.                                                 *)
RecordMergeSimulation(l, status, id) ==
    LET sims  == Append(mergeSimulations,
                        [lease |-> l, status |-> status, at |-> clock, id |-> id])
        tasks == IF l = NoLease THEN {} ELSE {branchLeases[l].owner.task} \cap KnownTasks
    IN  /\ Len(mergeSimulations) < MaxSimulations
        /\ id \notin {s.id : s \in Range(mergeSimulations)}
        /\ mergeSimulations' = sims
        /\ \/ \E t \in tasks :
                 /\ taskRisk' = [taskRisk EXCEPT ![t] =
                       HigherOf(HighestConflictRisk(branchLeases, sims, l),
                                RiskContribution(status))]
                 /\ RefreshMergeQueueEntriesForLease(branchLeases, sims, l)
           \/ tasks = {} /\ UNCHANGED <<taskRisk, mergeQueueEntries>>

(* Mutant: the lease is not released. *)
SettleEntryOnly(e, status) ==
    /\ mergeQueueEntries[e].lease \in LeaseIds
    /\ mergeQueueEntries' = [mergeQueueEntries EXCEPT ![e].status = status]
    /\ UNCHANGED branchLeases

(* releaseBranchLease and updateMergeQueueEntry, in the order of           *)
(* markMergeQueueEntryMerged and cancelMergeQueueEntry: neither looks at   *)
(* the entry's status, and both throw before any change when the lease     *)
(* does not exist.                                                         *)
SettleEntry(e, status) ==
    /\ mergeQueueEntries[e].lease \in LeaseIds
    /\ branchLeases' = [branchLeases EXCEPT ![mergeQueueEntries[e].lease].status = "released"]
    /\ mergeQueueEntries' = [mergeQueueEntries EXCEPT ![e].status = status]

(* findBranchLease: the oldest lease of that branch, released or not, and  *)
(* of the pull request's task when the pull request is known.              *)
FindBranchLease(repo, branch, prTask, l) ==
    LET Match(k) == /\ branchLeases[k].repo = repo
                    /\ branchLeases[k].branch = branch
                    /\ prTask \in {NoTask, branchLeases[k].owner.task}
    IN  Match(l) /\ \A k \in LeaseIds : k < l => ~Match(k)

(* updateBranchLease of the union of files, then the queue refresh *)
ExtendLeaseFiles(l, files) ==
    LET leases == [branchLeases EXCEPT ![l].files = @ \cup files]
    IN  /\ branchLeases' = leases
        /\ RefreshMergeQueueEntriesForLease(leases, mergeSimulations, l)

(***************************************************************************)
(* The callers                                                             *)
(***************************************************************************)

(* The workflow after an agent run, or POST /git/repos/:id/branches, which *)
(* does not check that the task and the run exist.                         *)
LeaseBranch(owner, repo, branch, files) ==
    /\ CreateBranchLease(owner, repo, branch, files)
    /\ UNCHANGED <<mergeSimulations, mergeQueueEntries, taskRisk, clock>>

(* The workflow after a draft pull request, or POST .../pull-requests,     *)
(* which does not check that the lease exists or is active.                *)
EnqueuePullRequest(l) ==
    /\ l \in LeaseIds \cup {GhostLease}
    /\ CreateMergeQueueEntry(l)
    /\ UNCHANGED <<branchLeases, mergeSimulations, taskRisk, clock>>

(* The workflow after a dry run, or POST /merge-simulations, which         *)
(* requires the lease to exist when it names one.                          *)
Simulate(l, status, id) ==
    /\ l \in LeaseIds \cup {NoLease}
    /\ UNCHANGED <<branchLeases, clock>>
    /\ RecordMergeSimulation(l, status, id)

(* POST /merge-queue/:id/mark-merged *)
MarkMerged(e) ==
    /\ SettleEntry(e, "merged")
    /\ UNCHANGED <<mergeSimulations, taskRisk, clock>>

(* POST /merge-queue/:id/cancel *)
CancelEntry(e) ==
    /\ SettleEntry(e, "cancelled")
    /\ UNCHANGED <<mergeSimulations, taskRisk, clock>>

(* A pull_request webhook or POST .../refresh-changed-files: the changed   *)
(* files of a pull request are added to the lease of its head branch.      *)
SyncChangedFiles(repo, branch, prTask, files) ==
    \E l \in LeaseIds :
        /\ FindBranchLease(repo, branch, prTask, l)
        /\ files # {}
        /\ ExtendLeaseFiles(l, files)
        /\ UNCHANGED <<mergeSimulations, taskRisk, clock>>

Tick ==
    /\ clock < MaxClock
    /\ clock' = clock + 1
    /\ UNCHANGED <<branchLeases, mergeSimulations, mergeQueueEntries, taskRisk>>

(***************************************************************************)
(* Specification                                                           *)
(***************************************************************************)

SimulationIds == 1..MaxSimulations

CMInit ==
    /\ branchLeases = <<>>
    /\ mergeSimulations = <<>>
    /\ mergeQueueEntries = <<>>
    /\ taskRisk = [t \in KnownTasks |-> 0]
    /\ clock = 0

CMNext ==
    \/ \E o \in Owners, r \in Repos, b \in Branches, fs \in FileSets :
          LeaseBranch(o, r, b, fs)
    \/ \E l \in LeaseIds \cup {GhostLease} : EnqueuePullRequest(l)
    \/ \E l \in LeaseIds \cup {NoLease}, s \in SimulationStatuses, id \in SimulationIds :
          Simulate(l, s, id)
    \/ \E e \in EntryIds : MarkMerged(e) \/ CancelEntry(e)
    \/ \E r \in Repos, b \in Branches, t \in {NoTask} \cup {o.task : o \in Owners},
         fs \in FileSets : SyncChangedFiles(r, b, t, fs)
    \/ Tick

CMSpec == CMInit /\ [][CMNext]_cmVars

(***************************************************************************)
(* Properties                                                              *)
(***************************************************************************)

LeaseType ==
    [owner : Owners, repo : Repos, branch : Branches, files : SUBSET Files,
     status : {"active", "released"}]

SimulationType ==
    [lease : Nat, status : SimulationStatuses, at : 0..MaxClock, id : SimulationIds]

QueueEntryType ==
    [lease : Nat \cup {GhostLease}, status : {"ready", "blocked"} \cup SettledStatuses,
     riskScore : 0..100, simulationStatus : SimulationStatuses \cup {NoSimulation},
     blockingReason : BlockingReasons, recommendation : QueueRecommendations]

(* The shape of the store: positions are ids, a simulation names a lease   *)
(* that exists or none, and an entry names a lease that exists or one that *)
(* never will.  Risks stay between 0 and 1.                                *)
CMTypeOK ==
    /\ branchLeases \in Seq(LeaseType)
    /\ mergeSimulations \in Seq(SimulationType)
    /\ \A i \in DOMAIN mergeSimulations :
          mergeSimulations[i].lease \in LeaseIds \cup {NoLease}
    /\ mergeQueueEntries \in Seq(QueueEntryType)
    /\ \A e \in EntryIds : mergeQueueEntries[e].lease \in LeaseIds \cup {GhostLease}
    /\ taskRisk \in [KnownTasks -> 0..100]
    /\ clock \in 0..MaxClock

(* A lease is released exactly when one of its queue entries has been      *)
(* merged or cancelled (releaseBranchLease is only called while settling,  *)
(* and no refresh ever revives a settled entry).                           *)
ReleasedIffSettled ==
    \A l \in LeaseIds :
        branchLeases[l].status = "released"
            <=> \E e \in EntryIds : mergeQueueEntries[e].lease = l /\ ~LiveEntry(e)

Cleared(l) == \E e \in EntryIds : mergeQueueEntries[e].lease = l
                                  /\ mergeQueueEntries[e].status = "ready"

Overlapping(a, b) ==
    Rivals(a, b) /\ ComputePairRiskScore(a.files, b.files).riskScore >= 50

(* Two active branches that change the same source, package or critical    *)
(* file are never both `ready` in the merge queue, whatever the order in   *)
(* which leases, entries, simulations and webhook syncs arrive, although   *)
(* the queue entries of the other branch are not refreshed.                *)
OverlapSerialized ==
    \A k, l \in LeaseIds : Overlapping(branchLeases[k], branchLeases[l]) => ~(Cleared(k) /\ Cleared(l))

(* The dry-run evidence a live entry shows is the latest simulation of its *)
(* lease, as long as the store knows the lease's task: recording a         *)
(* simulation refreshes every live entry of the lease in the same step.    *)
QueueTracksSimulations ==
    \A e \in EntryIds, l \in LeaseIds :
        (/\ mergeQueueEntries[e].lease = l
         /\ LiveEntry(e)
         /\ branchLeases[l].owner.task \in KnownTasks)
        => mergeQueueEntries[e].simulationStatus = LatestStatus(mergeSimulations, {l})

(* The two ways the API reads risks agree: the risks of a task run, taken  *)
(* from the repository's pairs, are those computed for the run's leases.   *)
RiskViewsAgree ==
    \A o \in Owners :
        ComputeConflictRisksForTaskRun(branchLeases, mergeSimulations, o.run) =
            UNION {ComputeConflictRisksForLease(branchLeases, mergeSimulations, l) :
                     l \in {k \in LeaseIds : branchLeases[k].owner.run = o.run}}

(* A merged or cancelled entry keeps its evidence: no later simulation,    *)
(* webhook or refresh touches it, and it never becomes ready or blocked    *)
(* again.                                                                  *)
SettledEntriesFrozen ==
    [][\A e \in EntryIds : ~LiveEntry(e) =>
          \E s \in SettledStatuses :
              mergeQueueEntries'[e] = [mergeQueueEntries[e] EXCEPT !.status = s]]_cmVars

ActiveLeases == {l \in LeaseIds : branchLeases[l].status = "active"}

(* The refinement mapping: leases are the branches of MergeGate. *)
GateState ==
    [l \in 1..MaxLeases |->
        IF l \notin LeaseIds THEN "absent"
        ELSE IF branchLeases[l].status = "active" THEN "active" ELSE "ended"]

GateOverlap ==
    {p \in ActiveLeases \X ActiveLeases :
        p[1] < p[2] /\ Overlapping(branchLeases[p[1]], branchLeases[p[2]])}

GateReady == {l \in ActiveLeases : Cleared(l)}

Gate == INSTANCE MergeGate WITH
    Ids <- 1..MaxLeases, state <- GateState, overlap <- GateOverlap, ready <- GateReady

(* The store implements MergeGate: every operation decides about at most   *)
(* one branch, and makes it ready only if it overlaps no active branch at  *)
(* that moment, although the decision is spread over scores, dry runs and  *)
(* several entries of one lease.                                           *)
ImplementsGate == Gate!GateSpec
=============================================================================
