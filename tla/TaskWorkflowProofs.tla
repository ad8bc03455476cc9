-------------------------- MODULE TaskWorkflowProofs --------------------------
(***************************************************************************)
(* The conflict manager's safety for every number of leases, simulations   *)
(* and queue entries, every set of files and every caller; and that of the *)
(* task workflow on top of it for any number of concurrent requests, tasks *)
(* and runs: it drives the conflict manager only as ConflictManager        *)
(* allows, and each run belongs to the one request that created it.        *)
(***************************************************************************)
EXTENDS TaskWorkflow, FiniteSetTheorems, SequenceTheorems, WellFoundedInduction, TLAPS

(***************************************************************************)
(* Risk scores: facts that hold for every set of files and every           *)
(* classification of them.                                                 *)
(***************************************************************************)

Scores == {0, 10, 30, 35, 60, 75, 80, 90}

(* A non-empty set of scores has a maximum, which Max returns. *)
LEMMA MaxOfScores ==
    ASSUME NEW S \in SUBSET Scores, S # {}
    PROVE  Max(S) \in S /\ \A x \in S : Max(S) >= x
<1>1. \E m \in S : \A x \in S : m >= x
  <2>1. CASE 90 \in S  BY <2>1 DEF Scores
  <2>2. CASE 90 \notin S /\ 80 \in S  BY <2>2 DEF Scores
  <2>3. CASE S \cap {80, 90} = {} /\ 75 \in S  BY <2>3 DEF Scores
  <2>4. CASE S \cap {75, 80, 90} = {} /\ 60 \in S  BY <2>4 DEF Scores
  <2>5. CASE S \cap {60, 75, 80, 90} = {} /\ 35 \in S  BY <2>5 DEF Scores
  <2>6. CASE S \cap {35, 60, 75, 80, 90} = {} /\ 30 \in S  BY <2>6 DEF Scores
  <2>7. CASE S \subseteq {0, 10} /\ 10 \in S  BY <2>7
  <2>8. CASE S \subseteq {0}
    <3>1. PICK z \in S : TRUE  OBVIOUS
    <3>2. z = 0 /\ \A x \in S : x = 0  BY <2>8
    <3> QED  BY <3>2
  <2> QED  BY <2>1, <2>2, <2>3, <2>4, <2>5, <2>6, <2>7, <2>8 DEF Scores
<1> QED  BY <1>1 DEF Max

LEMMA CategoryScores ==
    /\ \A f : ClassifyConflictFile(f) \in Categories
    /\ \A c \in Categories : CategoryScore[c] \in {10, 30, 60, 75, 90}
    /\ \A c \in Categories : CategoryScore[c] >= 50 <=> c \in {"source", "package", "critical"}
BY DEF ClassifyConflictFile, Categories, CategoryScore

(* The score of a pair is one of the known scores, and reaches the         *)
(* blocking threshold exactly through a shared source, package or critical *)
(* file.                                                                   *)
LEMMA PairRiskThreshold ==
    ASSUME NEW source, NEW target
    PROVE  /\ ComputePairRiskScore(source, target).riskScore \in {0, 10, 30, 35, 60, 75, 90}
           /\ ComputePairRiskScore(source, target).riskScore >= 50
                <=> \E f \in source \cap target :
                      ClassifyConflictFile(f) \in {"source", "package", "critical"}
<1> DEFINE overlap    == source \cap target
           categories == {ClassifyConflictFile(f) : f \in overlap}
           S          == {CategoryScore[c] : c \in categories}
<1>1. CASE overlap = {}
  BY <1>1 DEF ComputePairRiskScore
<1>2. CASE overlap # {}
  <2>1. S \in SUBSET {10, 30, 60, 75, 90} /\ S # {}
    BY <1>2, CategoryScores
  <2>2. Max(S) \in S /\ \A x \in S : Max(S) >= x
    BY <2>1, MaxOfScores DEF Scores
  <2>3. ComputePairRiskScore(source, target).riskScore = Max(S)
    BY <1>2 DEF ComputePairRiskScore
  <2> HIDE DEF S
  <2>4. Max(S) >= 50 <=> \E x \in S : x >= 50
    <3>1. PICK m \in S : m = Max(S) /\ \A x \in S : m >= x
      BY <2>2
    <3>2. m \in {10, 30, 60, 75, 90} /\ \A x \in S : x \in {10, 30, 60, 75, 90}
      BY <2>1
    <3>3. m >= 50 <=> \E x \in S : x >= 50
      BY <3>1, <3>2
    <3> QED  BY <3>1, <3>3
  <2>5. (\E x \in S : x >= 50) <=>
           \E f \in overlap : ClassifyConflictFile(f) \in {"source", "package", "critical"}
    BY CategoryScores DEF S
  <2> QED  BY <2>1, <2>2, <2>3, <2>4, <2>5
<1> QED  BY <1>1, <1>2

(* What a simulation status contributes is a score, whatever the status.   *)
LEMMA ContributionIsScore ==
    \A status : RiskContribution(status) \in {0, 10, 35, 80}
BY DEF RiskContribution

(* The risk of a pair with its dry-run evidence is a score, and is not     *)
(* below the risk of its files.                                            *)
LEMMA CombinedRisk ==
    ASSUME NEW source, NEW target, NEW status
    PROVE  /\ CreateConflictRisk(source, target, status).riskScore \in Scores
           /\ CreateConflictRisk(source, target, status).riskScore
                >= ComputePairRiskScore(source, target).riskScore
           /\ CreateConflictRisk(source, target, status).riskScore >= 50
                <=> \/ ComputePairRiskScore(source, target).riskScore >= 50
                    \/ status = "text_conflict"
<1> DEFINE pair == ComputePairRiskScore(source, target)
<1>1. pair.riskScore \in {0, 10, 30, 35, 60, 75, 90}
  BY PairRiskThreshold
<1>2. RiskContribution(status) \in {0, 10, 35, 80}
      /\ (RiskContribution(status) >= 50 <=> status = "text_conflict")
  BY DEF RiskContribution
<1>3. CreateConflictRisk(source, target, status).riskScore =
        IF status = NoSimulation THEN pair.riskScore
                                 ELSE HigherOf(pair.riskScore, RiskContribution(status))
  BY DEF CreateConflictRisk, CombineSimulationRisk
<1> QED  BY <1>1, <1>2, <1>3 DEF HigherOf, Scores, NoSimulation

(* What the scores and the thresholds amount to, for any files and any     *)
(* classification: a branch is blocked exactly when a dry run of it, or    *)
(* the latest dry run of the pair, found a text conflict, or when the pair *)
(* shares a source, package or critical file.                              *)
THEOREM BlockingRule ==
    ASSUME NEW source, NEW target, NEW pairStatus, NEW ownStatus
    PROVE  MergeQueueDecision(HigherOf(CreateConflictRisk(source, target, pairStatus).riskScore,
                                       RiskContribution(ownStatus)), ownStatus).status = "blocked"
           <=> \/ "text_conflict" \in {pairStatus, ownStatus}
               \/ \E f \in source \cap target :
                     ClassifyConflictFile(f) \in {"source", "package", "critical"}
<1> DEFINE risk  == CreateConflictRisk(source, target, pairStatus).riskScore
           score == HigherOf(risk, RiskContribution(ownStatus))
<1>1. risk \in Scores
      /\ (risk >= 50 <=> \/ \E f \in source \cap target :
                               ClassifyConflictFile(f) \in {"source", "package", "critical"}
                         \/ pairStatus = "text_conflict")
  BY CombinedRisk, PairRiskThreshold
<1>2. RiskContribution(ownStatus) \in {0, 10, 35, 80}
      /\ (RiskContribution(ownStatus) >= 50 <=> ownStatus = "text_conflict")
  BY DEF RiskContribution
<1>3. score \in Scores /\ (score >= 50 <=> risk >= 50 \/ ownStatus = "text_conflict")
  <2> HIDE DEF risk
  <2> QED  BY <1>1, <1>2 DEF HigherOf, Scores
<1>4. MergeQueueDecision(score, ownStatus).status = "blocked"
        <=> ownStatus = "text_conflict" \/ score >= 50
  <2> HIDE DEF score
  <2> QED  BY <1>3 DEF MergeQueueDecision, Scores
<1> QED  BY <1>1, <1>3, <1>4

(* The decision has one of two statuses, and a score from the blocking     *)
(* threshold on blocks whatever the dry run said.                          *)
LEMMA DecisionStatus ==
    ASSUME NEW score \in Int, NEW status
    PROVE  /\ MergeQueueDecision(score, status).status \in {"ready", "blocked"}
           /\ score >= 50 => MergeQueueDecision(score, status).status = "blocked"
           /\ MergeQueueDecision(score, status).blockingReason \in BlockingReasons
           /\ MergeQueueDecision(score, status).recommendation \in QueueRecommendations
<1> DEFINE d == MergeQueueDecision(score, status)
<1>1. d.status \in {"ready", "blocked"} /\ (score >= 50 => d.status = "blocked")
  BY DEF MergeQueueDecision
<1>2. d.blockingReason \in BlockingReasons
  BY DEF MergeQueueDecision, BlockingReasons
<1>3. d.recommendation \in QueueRecommendations
  BY DEF MergeQueueDecision, QueueRecommendations
<1> QED  BY <1>1, <1>2, <1>3

(* Shared top-level directories are found from either side, although       *)
(* sameDirectoryRisk walks the directories of its first argument.          *)
LEMMA SameDirectorySymmetric ==
    ASSUME NEW source \in SUBSET Files, NEW target \in SUBSET Files,
           SameDirectoryRisk(source, target)
    PROVE  SameDirectoryRisk(target, source)
<1> DEFINE In(fs, f) == {h \in fs : Dir[h] = Dir[f]}
<1>1. PICK f \in source : /\ Dir[f] # NoDir
                          /\ In(target, f) # {}
                          /\ Cardinality(In(source, f)) + Cardinality(In(target, f)) >= 3
  BY DEF SameDirectoryRisk
<1>2. PICK g \in target : Dir[g] = Dir[f]
  BY <1>1
<1>3. In(source, g) = In(source, f) /\ In(target, g) = In(target, f) /\ f \in In(source, g)
  BY <1>1, <1>2
<1>4. Cardinality(In(source, f)) \in Nat /\ Cardinality(In(target, f)) \in Nat
  <2>1. IsFiniteSet(In(source, f)) /\ IsFiniteSet(In(target, f))
    BY FileSetsAssumption, FS_Subset
  <2> QED  BY <2>1, FS_CardinalityType
<1>5. /\ Dir[g] # NoDir
      /\ In(source, g) # {}
      /\ Cardinality(In(target, g)) + Cardinality(In(source, g)) >= 3
  BY <1>1, <1>2, <1>3, <1>4
<1> QED  BY <1>2, <1>5 DEF SameDirectoryRisk

(* The risk of a pair does not depend on which of the two leases it is     *)
(* computed for, for any files, directories and classification.            *)
THEOREM RiskIsSymmetric ==
    ASSUME NEW source \in SUBSET Files, NEW target \in SUBSET Files, NEW status
    PROVE  CreateConflictRisk(source, target, status) =
               CreateConflictRisk(target, source, status)
<1>1. source \cap target = target \cap source
  OBVIOUS
<1>2. SameDirectoryRisk(source, target) <=> SameDirectoryRisk(target, source)
  BY SameDirectorySymmetric
<1>3. ComputePairRiskScore(source, target) = ComputePairRiskScore(target, source)
  BY <1>1, <1>2 DEF ComputePairRiskScore
<1> QED  BY <1>3 DEF CreateConflictRisk

(***************************************************************************)
(* Queries                                                                 *)
(***************************************************************************)

(* A non-empty set of naturals has a least element. *)
LEMMA LeastNatural ==
    ASSUME NEW T \in SUBSET Nat, T # {}
    PROVE  \E m \in T : \A n \in T : m <= n
<1> DEFINE R == OpToRel(<, Nat)
<1>1. \E m \in T : \A n \in T : ~(<<n, m>> \in R)
  BY WFMin, NatLessThanWellFounded
<1>2. \A m, n \in Nat : n < m => <<n, m>> \in R
  BY DEF OpToRel
<1> HIDE DEF R
<1>3. PICK m \in T : \A n \in T : ~(<<n, m>> \in R)
  BY <1>1
<1>4. \A n \in T : ~(n < m)
  BY <1>2, <1>3
<1>5. \A n \in T : m <= n
  BY <1>4
<1> QED  BY <1>5

(* The sort of listMergeSimulations has a first element: by age, then id.  *)
LEMMA LatestExists ==
    ASSUME NEW S \in SUBSET SimulationType, S # {}
    PROVE  Latest(S) \in S
<1> USE BoundsAssumption DEF SimulationType, SimulationIds
<1>1. PICK s \in S : \A t \in S : s.at >= t.at
  <2> DEFINE Ages == {MaxClock - t.at : t \in S}
  <2>1. Ages \in SUBSET Nat /\ Ages # {}
    OBVIOUS
  <2>2. PICK a \in Ages : \A b \in Ages : a <= b
    BY <2>1, LeastNatural
  <2>3. PICK t \in S : a = MaxClock - t.at
    OBVIOUS
  <2>4. \A u \in S : MaxClock - t.at <= MaxClock - u.at
    BY <2>2, <2>3
  <2> QED  BY <2>4
<1>2. PICK t \in S : t.at = s.at /\ \A u \in S : u.at = s.at => t.id <= u.id
  <2> DEFINE Ids == {u.id : u \in {v \in S : v.at = s.at}}
  <2>1. Ids \in SUBSET Nat /\ Ids # {}
    OBVIOUS
  <2>2. PICK i \in Ids : \A j \in Ids : i <= j
    BY <2>1, LeastNatural
  <2> QED  BY <2>2
<1>3. \A u \in S : t.at > u.at \/ (t.at = u.at /\ t.id <= u.id)
  BY <1>1, <1>2
<1> QED  BY <1>2, <1>3 DEF Latest

LEMMA LatestStatusType ==
    ASSUME NEW sims \in Seq(SimulationType), NEW ids
    PROVE  LatestStatus(sims, ids) \in SimulationStatuses \cup {NoSimulation}
<1> DEFINE of == {s \in Range(sims) : s.lease \in ids}
<1>1. of \in SUBSET SimulationType
  BY DEF Range
<1>2. CASE of = {}
  BY <1>2 DEF LatestStatus
<1>3. CASE of # {}
  <2>1. Latest(of) \in SimulationType
    BY <1>1, <1>3, LatestExists
  <2> QED  BY <1>3, <2>1 DEF LatestStatus, SimulationType
<1> QED  BY <1>2, <1>3

(* The highest risk of a lease is a score, and not below the risk of any   *)
(* of the pairs it is in.                                                  *)
LEMMA HighestRisk ==
    ASSUME NEW leases, NEW sims, NEW l
    PROVE  /\ HighestConflictRisk(leases, sims, l) \in Scores
           /\ \A k \in DOMAIN leases :
                (/\ l \in DOMAIN leases
                 /\ k # l
                 /\ Overlapping(leases[l], leases[k]))
                => HighestConflictRisk(leases, sims, l) >= 50
<1> DEFINE risks  == ComputeConflictRisksForLease(leases, sims, l)
           scores == {r.risk.riskScore : r \in risks}
<1>1. scores \in SUBSET Scores
  <2>1. \A r \in risks : \E k : r.risk = LeaseRisk(leases, sims, l, k)
    BY DEF ComputeConflictRisksForLease
  <2>2. \A k : LeaseRisk(leases, sims, l, k).riskScore \in Scores
    BY CombinedRisk DEF LeaseRisk
  <2> QED  BY <2>1, <2>2
<1>2. HighestConflictRisk(leases, sims, l) = IF scores = {} THEN 0 ELSE Max(scores)
  BY DEF HighestConflictRisk
<1>3. HighestConflictRisk(leases, sims, l) \in Scores
  <2> HIDE DEF scores
  <2> QED  BY <1>1, <1>2, MaxOfScores DEF Scores
<1>4. ASSUME NEW k \in DOMAIN leases, l \in DOMAIN leases, k # l,
             Overlapping(leases[l], leases[k])
      PROVE  HighestConflictRisk(leases, sims, l) >= 50
  <2> DEFINE x == LeaseRisk(leases, sims, l, k).riskScore
  <2>1. x \in scores
    <3>1. [leases |-> {k, l}, risk |-> LeaseRisk(leases, sims, l, k)] \in risks
      BY <1>4 DEF ComputeConflictRisksForLease, Overlapping
    <3> QED  BY <3>1
  <2>2. x \in Scores /\ x >= 50
    BY <1>4, CombinedRisk DEF LeaseRisk, Overlapping
  <2>3. Max(scores) \in Scores /\ Max(scores) >= x
    <3> HIDE DEF scores, x
    <3> QED  BY <1>1, <2>1, MaxOfScores
  <2> HIDE DEF scores, x
  <2> QED  BY <1>2, <2>1, <2>2, <2>3 DEF Scores
<1> QED  BY <1>3, <1>4

(* What mergeQueueFieldsForLease returns, and that it blocks a lease with  *)
(* an overlapping rival, whatever the simulations say.                     *)
LEMMA QueueFields ==
    ASSUME NEW leases, NEW sims \in Seq(SimulationType), NEW l
    PROVE  LET fields == MergeQueueFieldsForLease(leases, sims, l)
           IN  /\ fields.status \in {"ready", "blocked"}
               /\ fields.riskScore \in 0..100
               /\ fields.simulationStatus = LatestStatus(sims, {l})
               /\ fields.simulationStatus \in SimulationStatuses \cup {NoSimulation}
               /\ fields.blockingReason \in BlockingReasons
               /\ fields.recommendation \in QueueRecommendations
               /\ \A k \in DOMAIN leases :
                    (/\ l \in DOMAIN leases
                     /\ k # l
                     /\ Overlapping(leases[l], leases[k]))
                    => fields.status = "blocked"
<1> DEFINE status == LatestStatus(sims, {l})
           score  == HigherOf(HighestConflictRisk(leases, sims, l), RiskContribution(status))
           fields == MergeQueueFieldsForLease(leases, sims, l)
<1>1. score \in Scores /\ score >= HighestConflictRisk(leases, sims, l)
  <2>1. HighestConflictRisk(leases, sims, l) \in Scores
    BY HighestRisk
  <2>2. RiskContribution(status) \in {0, 10, 35, 80}
    BY ContributionIsScore
  <2> QED  BY <2>1, <2>2 DEF HigherOf, Scores
<1>2. /\ fields.status = MergeQueueDecision(score, status).status
      /\ fields.riskScore = score
      /\ fields.simulationStatus = status
      /\ fields.blockingReason = MergeQueueDecision(score, status).blockingReason
      /\ fields.recommendation = MergeQueueDecision(score, status).recommendation
  BY DEF MergeQueueFieldsForLease
<1>3. status \in SimulationStatuses \cup {NoSimulation}
  BY LatestStatusType
<1>4. ASSUME NEW k \in DOMAIN leases, l \in DOMAIN leases, k # l,
             Overlapping(leases[l], leases[k])
      PROVE  score >= 50
  <2>1. HighestConflictRisk(leases, sims, l) \in Scores
        /\ HighestConflictRisk(leases, sims, l) >= 50
    BY <1>4, HighestRisk
  <2> HIDE DEF score
  <2> QED  BY <1>1, <2>1 DEF Scores
<1> HIDE DEF score, status, fields
<1>5. score \in Int /\ score \in 0..100
  BY <1>1 DEF Scores
<1>6. /\ fields.status \in {"ready", "blocked"}
      /\ score >= 50 => fields.status = "blocked"
      /\ fields.blockingReason \in BlockingReasons
      /\ fields.recommendation \in QueueRecommendations
  BY <1>2, <1>5, DecisionStatus
<1> QED  BY <1>2, <1>3, <1>4, <1>5, <1>6 DEF fields, status

(***************************************************************************)
(* Operations                                                              *)
(***************************************************************************)

Refreshed(e, l) == mergeQueueEntries[e].lease = l /\ LiveEntry(e)

(* A refresh keeps the entries and their leases, rewrites the live entries *)
(* of the lease with its fields, and leaves every other entry alone.       *)
LEMMA RefreshEffect ==
    ASSUME mergeQueueEntries \in Seq(QueueEntryType),
           NEW leases, NEW sims \in Seq(SimulationType), NEW l,
           RefreshMergeQueueEntriesForLease(leases, sims, l)
    PROVE  /\ mergeQueueEntries' \in Seq(QueueEntryType)
           /\ EntryIds' = EntryIds
           /\ \A e \in EntryIds : mergeQueueEntries'[e].lease = mergeQueueEntries[e].lease
           /\ \A e \in EntryIds : Refreshed(e, l) =>
                mergeQueueEntries'[e].status = MergeQueueFieldsForLease(leases, sims, l).status
           /\ \A e \in EntryIds : Refreshed(e, l) =>
                mergeQueueEntries'[e].status \in {"ready", "blocked"}
           /\ \A e \in EntryIds : Refreshed(e, l) =>
                mergeQueueEntries'[e].simulationStatus = LatestStatus(sims, {l})
           /\ \A e \in EntryIds : ~Refreshed(e, l) =>
                mergeQueueEntries'[e] = mergeQueueEntries[e]
<1> DEFINE fields == MergeQueueFieldsForLease(leases, sims, l)
           n      == Len(mergeQueueEntries)
<1>1. /\ fields.status \in {"ready", "blocked"}
      /\ fields.riskScore \in 0..100
      /\ fields.simulationStatus = LatestStatus(sims, {l})
      /\ fields.simulationStatus \in SimulationStatuses \cup {NoSimulation}
      /\ fields.blockingReason \in BlockingReasons
      /\ fields.recommendation \in QueueRecommendations
  BY QueueFields
<1>2. n \in Nat /\ EntryIds = 1..n /\ \A e \in 1..n : mergeQueueEntries[e] \in QueueEntryType
  BY DEF EntryIds
<1>3. mergeQueueEntries' = [e \in 1..n |->
          IF Refreshed(e, l) THEN QueueEntry(l, fields) ELSE mergeQueueEntries[e]]
  BY <1>2 DEF RefreshMergeQueueEntriesForLease, Refreshed
<1> HIDE DEF fields, n
<1>4. ASSUME NEW e \in 1..n, Refreshed(e, l)
      PROVE  /\ QueueEntry(l, fields) \in QueueEntryType
             /\ QueueEntry(l, fields).lease = l
             /\ QueueEntry(l, fields).status = fields.status
             /\ QueueEntry(l, fields).simulationStatus = LatestStatus(sims, {l})
  BY <1>1, <1>2, <1>4 DEF QueueEntry, QueueEntryType, Refreshed
<1>5. mergeQueueEntries' \in [1..n -> QueueEntryType]
  BY <1>2, <1>3, <1>4
<1>6. mergeQueueEntries' \in Seq(QueueEntryType)
  BY <1>2, <1>5, SeqDef
<1>7. EntryIds' = EntryIds
  BY <1>2, <1>5 DEF EntryIds
<1> QED  BY <1>1, <1>2, <1>3, <1>4, <1>6, <1>7 DEF fields, Refreshed

(* A new entry is live, and has the fields of its lease. *)
LEMMA CreateEntryEffect ==
    ASSUME mergeQueueEntries \in Seq(QueueEntryType),
           mergeSimulations \in Seq(SimulationType),
           NEW l \in Nat \cup {GhostLease},
           CreateMergeQueueEntry(l)
    PROVE  LET n == Len(mergeQueueEntries)
           IN  /\ mergeQueueEntries' \in Seq(QueueEntryType)
               /\ n \in Nat /\ EntryIds = 1..n /\ EntryIds' = 1..(n + 1)
               /\ \A e \in EntryIds : mergeQueueEntries'[e] = mergeQueueEntries[e]
               /\ mergeQueueEntries'[n + 1].lease = l
               /\ mergeQueueEntries'[n + 1].status \in {"ready", "blocked"}
               /\ mergeQueueEntries'[n + 1].status =
                    MergeQueueFieldsForLease(branchLeases, mergeSimulations, l).status
               /\ mergeQueueEntries'[n + 1].simulationStatus =
                    LatestStatus(mergeSimulations, {l})
<1> DEFINE fields == MergeQueueFieldsForLease(branchLeases, mergeSimulations, l)
           entry  == QueueEntry(l, fields)
<1>1. /\ fields.status \in {"ready", "blocked"}
      /\ fields.riskScore \in 0..100
      /\ fields.simulationStatus = LatestStatus(mergeSimulations, {l})
      /\ fields.simulationStatus \in SimulationStatuses \cup {NoSimulation}
      /\ fields.blockingReason \in BlockingReasons
      /\ fields.recommendation \in QueueRecommendations
  BY QueueFields
<1>2. mergeQueueEntries' = Append(mergeQueueEntries, entry)
  BY DEF CreateMergeQueueEntry
<1> HIDE DEF fields
<1>3. /\ entry \in QueueEntryType
      /\ entry.lease = l
      /\ entry.status = fields.status
      /\ entry.simulationStatus = LatestStatus(mergeSimulations, {l})
  BY <1>1 DEF QueueEntry, QueueEntryType
<1> HIDE DEF entry
<1> QED  BY <1>1, <1>2, <1>3 DEF EntryIds, fields

(* Settling releases the lease and changes the entry's status only. *)
LEMMA SettleEffect ==
    ASSUME branchLeases \in Seq(LeaseType), mergeQueueEntries \in Seq(QueueEntryType),
           NEW e \in EntryIds, NEW s \in SettledStatuses, SettleEntry(e, s)
    PROVE  LET l == mergeQueueEntries[e].lease
           IN  /\ l \in LeaseIds
               /\ branchLeases' \in Seq(LeaseType) /\ LeaseIds' = LeaseIds
               /\ branchLeases'[l].status = "released"
               /\ branchLeases'[l].owner = branchLeases[l].owner
               /\ \A k \in LeaseIds \ {l} : branchLeases'[k] = branchLeases[k]
               /\ mergeQueueEntries' \in Seq(QueueEntryType) /\ EntryIds' = EntryIds
               /\ mergeQueueEntries'[e] = [mergeQueueEntries[e] EXCEPT !.status = s]
               /\ \A d \in EntryIds \ {e} : mergeQueueEntries'[d] = mergeQueueEntries[d]
<1> DEFINE l == mergeQueueEntries[e].lease
<1>1. l \in DOMAIN branchLeases
      /\ branchLeases' = [branchLeases EXCEPT ![l].status = "released"]
      /\ mergeQueueEntries' = [mergeQueueEntries EXCEPT ![e].status = s]
  BY DEF SettleEntry, LeaseIds
<1>2. e \in DOMAIN mergeQueueEntries
  BY DEF EntryIds
<1> HIDE DEF l
<1>3. /\ branchLeases' \in Seq(LeaseType) /\ DOMAIN branchLeases' = DOMAIN branchLeases
      /\ branchLeases'[l].status = "released"
      /\ branchLeases'[l].owner = branchLeases[l].owner
      /\ \A k \in DOMAIN branchLeases \ {l} : branchLeases'[k] = branchLeases[k]
  <2>1. branchLeases[l] \in LeaseType
    BY <1>1
  <2>2. [branchLeases[l] EXCEPT !.status = "released"] \in LeaseType
    BY <2>1 DEF LeaseType
  <2>3. branchLeases' \in Seq(LeaseType) /\ DOMAIN branchLeases' = DOMAIN branchLeases
    BY <1>1, <2>2
  <2>4. branchLeases'[l] = [branchLeases[l] EXCEPT !.status = "released"]
        /\ \A k \in DOMAIN branchLeases \ {l} : branchLeases'[k] = branchLeases[k]
    BY <1>1
  <2> QED  BY <2>1, <2>3, <2>4 DEF LeaseType
<1>4. /\ mergeQueueEntries' \in Seq(QueueEntryType)
      /\ DOMAIN mergeQueueEntries' = DOMAIN mergeQueueEntries
      /\ mergeQueueEntries'[e] = [mergeQueueEntries[e] EXCEPT !.status = s]
      /\ \A d \in DOMAIN mergeQueueEntries \ {e} : mergeQueueEntries'[d] = mergeQueueEntries[d]
  <2>1. mergeQueueEntries[e] \in QueueEntryType
    BY <1>2
  <2>2. [mergeQueueEntries[e] EXCEPT !.status = s] \in QueueEntryType
    BY <2>1 DEF QueueEntryType
  <2> QED  BY <1>1, <1>2, <2>2
<1>5. LeaseIds' = DOMAIN branchLeases' /\ EntryIds' = DOMAIN mergeQueueEntries'
  BY DEF EntryIds, LeaseIds
<1> QED  BY <1>1, <1>3, <1>4, <1>5 DEF EntryIds, LeaseIds, l

(* Extending a lease's files changes no other lease and no owner. *)
LEMMA ExtendEffect ==
    ASSUME branchLeases \in Seq(LeaseType), NEW l \in LeaseIds, NEW files \in FileSets,
           NEW leases, leases = [branchLeases EXCEPT ![l].files = @ \cup files]
    PROVE  /\ leases \in Seq(LeaseType)
           /\ DOMAIN leases = LeaseIds
           /\ leases[l].owner = branchLeases[l].owner
           /\ leases[l].status = branchLeases[l].status
           /\ \A k \in LeaseIds \ {l} : leases[k] = branchLeases[k]
<1>1. l \in DOMAIN branchLeases /\ branchLeases[l] \in LeaseType
  BY DEF LeaseIds
<1>2. [branchLeases[l] EXCEPT !.files = @ \cup files] \in LeaseType
  BY <1>1, FileSetsOfFiles DEF LeaseType
<1> QED  BY SMTT(30), <1>1, <1>2 DEF LeaseIds, LeaseType

(***************************************************************************)
(* The type invariant                                                      *)
(***************************************************************************)

LEMMA TypeInit == CMInit => CMTypeOK
BY BoundsAssumption DEF CMInit, CMTypeOK, LeaseIds, EntryIds

LEMMA TypeStep == CMTypeOK /\ [CMNext]_cmVars => CMTypeOK'
<1> SUFFICES ASSUME CMTypeOK, [CMNext]_cmVars PROVE CMTypeOK'
  OBVIOUS
<1> USE BoundsAssumption
<1>1. ASSUME NEW o \in Owners, NEW r \in Repos, NEW b \in Branches, NEW fs \in FileSets,
             LeaseBranch(o, r, b, fs)
      PROVE  CMTypeOK'
  <2> DEFINE lease == [owner |-> o, repo |-> r, branch |-> b, files |-> fs, status |-> "active"]
  <2>1. lease \in LeaseType
    BY FileSetsOfFiles DEF LeaseType
  <2>2. /\ branchLeases' = Append(branchLeases, lease)
        /\ UNCHANGED <<mergeSimulations, mergeQueueEntries, taskRisk, clock>>
    BY <1>1 DEF LeaseBranch, CreateBranchLease
  <2>3. branchLeases' \in Seq(LeaseType) /\ LeaseIds \subseteq LeaseIds'
    BY <2>1, <2>2 DEF CMTypeOK, LeaseIds
  <2> QED  BY <2>2, <2>3 DEF CMTypeOK, EntryIds
<1>2. ASSUME NEW l \in LeaseIds \cup {GhostLease}, EnqueuePullRequest(l)
      PROVE  CMTypeOK'
  <2>1. l \in Nat \cup {GhostLease}
    BY DEF CMTypeOK, LeaseIds
  <2>2. CreateMergeQueueEntry(l) /\ UNCHANGED <<branchLeases, mergeSimulations, taskRisk, clock>>
    BY <1>2 DEF EnqueuePullRequest
  <2> DEFINE n == Len(mergeQueueEntries)
  <2>3. /\ mergeQueueEntries' \in Seq(QueueEntryType)
        /\ n \in Nat /\ EntryIds = 1..n /\ EntryIds' = 1..(n + 1)
        /\ \A e \in EntryIds : mergeQueueEntries'[e] = mergeQueueEntries[e]
        /\ mergeQueueEntries'[n + 1].lease = l
    BY <2>1, <2>2, CreateEntryEffect DEF CMTypeOK
  <2> HIDE DEF n
  <2>4. \A e \in EntryIds' : mergeQueueEntries'[e].lease \in LeaseIds \cup {GhostLease}
    <3>1. \A e \in EntryIds' : e \in EntryIds \/ e = n + 1
      BY <2>3
    <3> QED  BY <2>3, <3>1 DEF CMTypeOK
  <2> QED  BY <2>2, <2>3, <2>4 DEF CMTypeOK, LeaseIds
<1>3. ASSUME NEW l \in LeaseIds \cup {NoLease}, NEW s \in SimulationStatuses,
             NEW id \in SimulationIds, Simulate(l, s, id)
      PROVE  CMTypeOK'
  <2> DEFINE sim  == [lease |-> l, status |-> s, at |-> clock, id |-> id]
             sims == Append(mergeSimulations, sim)
  <2>1. l \in Nat
    BY DEF CMTypeOK, LeaseIds, NoLease
  <2>2. sim \in SimulationType
    BY <2>1 DEF SimulationType, CMTypeOK
  <2>3. sims \in Seq(SimulationType)
        /\ \A i \in DOMAIN sims : sims[i].lease \in LeaseIds \cup {NoLease}
    BY <2>2 DEF CMTypeOK
  <2>4. /\ mergeSimulations' = sims /\ UNCHANGED <<branchLeases, clock>>
        /\ \/ /\ \E t \in KnownTasks : taskRisk' = [taskRisk EXCEPT ![t] =
                    HigherOf(HighestConflictRisk(branchLeases, sims, l), RiskContribution(s))]
              /\ RefreshMergeQueueEntriesForLease(branchLeases, sims, l)
           \/ UNCHANGED <<taskRisk, mergeQueueEntries>>
    BY <1>3 DEF Simulate, RecordMergeSimulation
  <2> HIDE DEF sims
  <2>5. HigherOf(HighestConflictRisk(branchLeases, sims, l), RiskContribution(s)) \in 0..100
    BY HighestRisk, ContributionIsScore DEF HigherOf, Scores
  <2>6. taskRisk' \in [KnownTasks -> 0..100]
    BY <2>4, <2>5 DEF CMTypeOK
  <2>7. /\ mergeQueueEntries' \in Seq(QueueEntryType)
        /\ \A e \in EntryIds' : mergeQueueEntries'[e].lease \in LeaseIds \cup {GhostLease}
    <3>1. CASE RefreshMergeQueueEntriesForLease(branchLeases, sims, l)
      BY <2>3, <3>1, RefreshEffect DEF CMTypeOK
    <3>2. CASE UNCHANGED mergeQueueEntries
      BY <3>2 DEF CMTypeOK, EntryIds
    <3> QED  BY <2>4, <3>1, <3>2
  <2> QED  BY <2>3, <2>4, <2>6, <2>7 DEF CMTypeOK, LeaseIds
<1>4. ASSUME NEW e \in EntryIds, MarkMerged(e) \/ CancelEntry(e)
      PROVE  CMTypeOK'
  <2>1. PICK s \in SettledStatuses : SettleEntry(e, s)
    BY <1>4 DEF MarkMerged, CancelEntry, SettledStatuses
  <2>2. UNCHANGED <<mergeSimulations, taskRisk, clock>>
    BY <1>4 DEF MarkMerged, CancelEntry
  <2>3. /\ branchLeases' \in Seq(LeaseType) /\ LeaseIds' = LeaseIds
        /\ mergeQueueEntries' \in Seq(QueueEntryType) /\ EntryIds' = EntryIds
        /\ mergeQueueEntries'[e] = [mergeQueueEntries[e] EXCEPT !.status = s]
        /\ \A d \in EntryIds \ {e} : mergeQueueEntries'[d] = mergeQueueEntries[d]
    BY <2>1, SettleEffect DEF CMTypeOK
  <2>4. \A d \in EntryIds : mergeQueueEntries'[d].lease = mergeQueueEntries[d].lease
    <3>1. mergeQueueEntries[e] \in QueueEntryType
      BY DEF CMTypeOK, EntryIds
    <3>2. mergeQueueEntries'[e].lease = mergeQueueEntries[e].lease
      BY <2>3, <3>1 DEF QueueEntryType
    <3> QED  BY <2>3, <3>2
  <2> QED  BY <2>2, <2>3, <2>4 DEF CMTypeOK
<1>5. ASSUME NEW r \in Repos, NEW b \in Branches, NEW t, NEW fs \in FileSets,
             SyncChangedFiles(r, b, t, fs)
      PROVE  CMTypeOK'
  <2>1. PICK l \in LeaseIds : /\ ExtendLeaseFiles(l, fs)
                              /\ UNCHANGED <<mergeSimulations, taskRisk, clock>>
    BY <1>5 DEF SyncChangedFiles
  <2>2. branchLeases' \in Seq(LeaseType) /\ LeaseIds' = LeaseIds
    BY <2>1, ExtendEffect DEF ExtendLeaseFiles, CMTypeOK, LeaseIds
  <2>3. RefreshMergeQueueEntriesForLease(branchLeases', mergeSimulations, l)
    BY <2>1 DEF ExtendLeaseFiles
  <2>4. /\ mergeQueueEntries' \in Seq(QueueEntryType)
        /\ \A e \in EntryIds' : mergeQueueEntries'[e].lease \in LeaseIds \cup {GhostLease}
    BY <2>3, RefreshEffect DEF CMTypeOK
  <2> QED  BY <2>1, <2>2, <2>4 DEF CMTypeOK
<1>6. CASE Tick
  BY <1>6 DEF Tick, CMTypeOK, LeaseIds, EntryIds
<1>7. CASE UNCHANGED cmVars
  BY <1>7 DEF cmVars, CMTypeOK, LeaseIds, EntryIds
<1> QED  BY <1>1, <1>2, <1>3, <1>4, <1>5, <1>6, <1>7 DEF CMNext

(* The store keeps its shape: positions are ids, references are to leases  *)
(* that exist, and every risk lies between 0 and 1.                        *)
THEOREM TypeCorrect == CMSpec => []CMTypeOK
BY TypeInit, TypeStep, PTL DEF CMSpec

(***************************************************************************)
(* What a step of each kind does to a store of the right shape             *)
(***************************************************************************)

(* A new lease is active and no entry names it. *)
LEMMA LeaseBranchEffect ==
    ASSUME CMTypeOK, NEW o, NEW r, NEW b, NEW fs, LeaseBranch(o, r, b, fs)
    PROVE  \E n \in Nat :
             /\ n \notin LeaseIds /\ LeaseIds' = LeaseIds \cup {n}
             /\ \A k \in LeaseIds : branchLeases'[k] = branchLeases[k]
             /\ branchLeases'[n].status = "active"
             /\ \A e \in EntryIds : mergeQueueEntries[e].lease # n
             /\ EntryIds' = EntryIds
             /\ UNCHANGED <<mergeSimulations, mergeQueueEntries>>
<1> DEFINE n     == Len(branchLeases) + 1
           lease == [owner |-> o, repo |-> r, branch |-> b, files |-> fs, status |-> "active"]
<1>1. branchLeases' = Append(branchLeases, lease)
      /\ UNCHANGED <<mergeSimulations, mergeQueueEntries>>
  BY DEF LeaseBranch, CreateBranchLease
<1>2. branchLeases \in Seq(LeaseType) /\ LeaseIds = 1..Len(branchLeases)
      /\ Len(branchLeases) \in Nat
  BY DEF CMTypeOK, LeaseIds
<1>3. LeaseIds' = 1..n /\ branchLeases'[n].status = "active"
      /\ \A k \in LeaseIds : branchLeases'[k] = branchLeases[k]
  BY <1>1, <1>2 DEF LeaseIds
<1>4. n \in Nat /\ n \notin LeaseIds /\ 1..n = LeaseIds \cup {n} /\ n # GhostLease
  BY <1>2 DEF GhostLease
<1>5. \A e \in EntryIds : mergeQueueEntries[e].lease # n
  BY <1>4 DEF CMTypeOK
<1>6. EntryIds' = EntryIds
  BY <1>1 DEF EntryIds
<1> HIDE DEF n
<1> QED  BY <1>1, <1>3, <1>4, <1>5, <1>6

(* A new entry is live, and has the status and the dry-run evidence that   *)
(* its lease has at that moment.                                           *)
LEMMA EnqueueEffect ==
    ASSUME CMTypeOK, NEW l \in LeaseIds \cup {GhostLease}, EnqueuePullRequest(l)
    PROVE  \E n \in Nat :
             /\ EntryIds' = EntryIds \cup {n} /\ n \notin EntryIds
             /\ \A e \in EntryIds : mergeQueueEntries'[e] = mergeQueueEntries[e]
             /\ mergeQueueEntries'[n].lease = l
             /\ mergeQueueEntries'[n].status \in {"ready", "blocked"}
             /\ mergeQueueEntries'[n].status =
                  MergeQueueFieldsForLease(branchLeases, mergeSimulations, l).status
             /\ mergeQueueEntries'[n].simulationStatus = LatestStatus(mergeSimulations, {l})
             /\ LeaseIds' = LeaseIds
             /\ UNCHANGED <<branchLeases, mergeSimulations>>
<1> DEFINE n == Len(mergeQueueEntries)
<1>1. l \in Nat \cup {GhostLease}
  BY DEF CMTypeOK, LeaseIds
<1>2. CreateMergeQueueEntry(l) /\ UNCHANGED <<branchLeases, mergeSimulations>>
  BY DEF EnqueuePullRequest
<1>3. /\ n \in Nat /\ EntryIds = 1..n /\ EntryIds' = 1..(n + 1)
      /\ \A e \in EntryIds : mergeQueueEntries'[e] = mergeQueueEntries[e]
      /\ mergeQueueEntries'[n + 1].lease = l
      /\ mergeQueueEntries'[n + 1].status \in {"ready", "blocked"}
      /\ mergeQueueEntries'[n + 1].status =
           MergeQueueFieldsForLease(branchLeases, mergeSimulations, l).status
      /\ mergeQueueEntries'[n + 1].simulationStatus = LatestStatus(mergeSimulations, {l})
  BY <1>1, <1>2, CreateEntryEffect DEF CMTypeOK
<1>4. LeaseIds' = LeaseIds
  BY <1>2 DEF LeaseIds
<1> HIDE DEF n
<1>5. n + 1 \in Nat /\ EntryIds' = EntryIds \cup {n + 1} /\ n + 1 \notin EntryIds
  BY <1>3
<1> QED  BY <1>2, <1>3, <1>4, <1>5

(* A simulation of a known task's lease refreshes that lease's entries     *)
(* with the evidence it adds; any other leaves the queue alone.            *)
LEMMA SimulateEffect ==
    ASSUME CMTypeOK, NEW l \in LeaseIds \cup {NoLease}, NEW s \in SimulationStatuses,
           NEW id \in SimulationIds, Simulate(l, s, id)
    PROVE  /\ UNCHANGED branchLeases /\ LeaseIds' = LeaseIds /\ EntryIds' = EntryIds
           /\ mergeSimulations' \in Seq(SimulationType)
           /\ \A k \in LeaseIds \ {l} :
                LatestStatus(mergeSimulations', {k}) = LatestStatus(mergeSimulations, {k})
           /\ \/ RefreshMergeQueueEntriesForLease(branchLeases, mergeSimulations', l)
              \/ /\ UNCHANGED mergeQueueEntries
                 /\ l \in LeaseIds => branchLeases[l].owner.task \notin KnownTasks
<1> DEFINE sim  == [lease |-> l, status |-> s, at |-> clock, id |-> id]
           sims == Append(mergeSimulations, sim)
<1>1. mergeSimulations' = sims /\ UNCHANGED branchLeases
  BY DEF Simulate, RecordMergeSimulation
<1>2. sim \in SimulationType
  BY BoundsAssumption DEF SimulationType, CMTypeOK, LeaseIds, NoLease
<1>3. sims \in Seq(SimulationType)
  BY <1>2 DEF CMTypeOK
<1>4. \/ RefreshMergeQueueEntriesForLease(branchLeases, sims, l)
      \/ /\ UNCHANGED mergeQueueEntries
         /\ l \in LeaseIds => branchLeases[l].owner.task \notin KnownTasks
  <2>1. l \in LeaseIds => l # NoLease
    BY DEF CMTypeOK, LeaseIds, NoLease
  <2> QED  BY <2>1 DEF Simulate, RecordMergeSimulation
<1>5. EntryIds' = EntryIds
  <2>1. CASE RefreshMergeQueueEntriesForLease(branchLeases, sims, l)
    <3> HIDE DEF sims
    <3> QED  BY <1>3, <2>1, RefreshEffect DEF CMTypeOK
  <2>2. CASE UNCHANGED mergeQueueEntries
    BY <2>2 DEF EntryIds
  <2> QED  BY <1>4, <2>1, <2>2
<1>6. ASSUME NEW k \in LeaseIds \ {l}
      PROVE  LatestStatus(sims, {k}) = LatestStatus(mergeSimulations, {k})
  <2>1. Range(sims) = Range(mergeSimulations) \cup {sim}
    <3>1. mergeSimulations \in Seq(SimulationType)
      BY DEF CMTypeOK
    <3>2. /\ DOMAIN sims = 1..(Len(mergeSimulations) + 1) /\ Len(mergeSimulations) \in Nat
          /\ \A i \in 1..Len(mergeSimulations) : sims[i] = mergeSimulations[i]
          /\ sims[Len(mergeSimulations) + 1] = sim
      BY <3>1, <1>2
    <3>3. DOMAIN mergeSimulations = 1..Len(mergeSimulations)
      BY <3>1
    <3> HIDE DEF sims, sim
    <3> QED  BY <3>2, <3>3 DEF Range
  <2>2. {x \in Range(sims) : x.lease \in {k}} = {x \in Range(mergeSimulations) : x.lease \in {k}}
    <3>1. sim.lease \notin {k}
      OBVIOUS
    <3> HIDE DEF sim, sims
    <3> QED  BY <2>1, <3>1
  <2> QED  BY <2>2 DEF LatestStatus
<1>7. LeaseIds' = LeaseIds
  BY <1>1 DEF LeaseIds
<1> QED  BY <1>1, <1>3, <1>4, <1>5, <1>6, <1>7

(* A sync extends one lease and refreshes its entries with the new files.  *)
LEMMA SyncEffect ==
    ASSUME CMTypeOK, NEW r, NEW b, NEW t, NEW fs \in FileSets,
           SyncChangedFiles(r, b, t, fs)
    PROVE  \E l \in LeaseIds :
             /\ LeaseIds' = LeaseIds /\ EntryIds' = EntryIds /\ UNCHANGED mergeSimulations
             /\ branchLeases'[l].owner = branchLeases[l].owner
             /\ branchLeases'[l].status = branchLeases[l].status
             /\ \A k \in LeaseIds \ {l} : branchLeases'[k] = branchLeases[k]
             /\ RefreshMergeQueueEntriesForLease(branchLeases', mergeSimulations, l)
<1>1. PICK l \in LeaseIds : ExtendLeaseFiles(l, fs) /\ UNCHANGED mergeSimulations
  BY DEF SyncChangedFiles
<1>2. /\ DOMAIN branchLeases' = LeaseIds
      /\ branchLeases'[l].owner = branchLeases[l].owner
      /\ branchLeases'[l].status = branchLeases[l].status
      /\ \A k \in LeaseIds \ {l} : branchLeases'[k] = branchLeases[k]
  <2> DEFINE leases == branchLeases'
  <2>1. leases = [branchLeases EXCEPT ![l].files = @ \cup fs]
    BY <1>1 DEF ExtendLeaseFiles
  <2>2. branchLeases \in Seq(LeaseType)
    BY DEF CMTypeOK
  <2> HIDE DEF leases
  <2>3. /\ DOMAIN leases = LeaseIds
        /\ leases[l].owner = branchLeases[l].owner
        /\ leases[l].status = branchLeases[l].status
        /\ \A k \in LeaseIds \ {l} : leases[k] = branchLeases[k]
    BY <2>1, <2>2, ExtendEffect
  <2> QED  BY <2>3 DEF leases
<1>3. RefreshMergeQueueEntriesForLease(branchLeases', mergeSimulations, l)
  BY <1>1 DEF ExtendLeaseFiles
<1>4. LeaseIds' = LeaseIds
  BY <1>2 DEF LeaseIds
<1>5. EntryIds' = EntryIds
  BY <1>3, RefreshEffect DEF CMTypeOK
<1> QED  BY <1>1, <1>2, <1>3, <1>4, <1>5

(***************************************************************************)
(* Safety                                                                  *)
(***************************************************************************)

(* A refresh neither settles an entry nor revives one. *)
LEMMA RefreshKeepsLive ==
    ASSUME CMTypeOK, NEW leases, NEW sims \in Seq(SimulationType), NEW l,
           RefreshMergeQueueEntriesForLease(leases, sims, l)
    PROVE  \A e \in EntryIds : /\ LiveEntry(e)' <=> LiveEntry(e)
                               /\ mergeQueueEntries'[e].lease = mergeQueueEntries[e].lease
BY RefreshEffect DEF CMTypeOK, LiveEntry, SettledStatuses, Refreshed

(* Settling releases exactly the lease of the entry it settles. *)
LEMMA SettleStep ==
    ASSUME CMTypeOK, NEW e \in EntryIds, MarkMerged(e) \/ CancelEntry(e)
    PROVE  LET l == mergeQueueEntries[e].lease
           IN  /\ l \in LeaseIds /\ LeaseIds' = LeaseIds
               /\ branchLeases'[l].status = "released"
               /\ branchLeases'[l].owner = branchLeases[l].owner
               /\ \A k \in LeaseIds \ {l} : branchLeases'[k] = branchLeases[k]
               /\ EntryIds' = EntryIds
               /\ ~LiveEntry(e)' /\ mergeQueueEntries'[e].lease = l
               /\ \E s \in SettledStatuses :
                    mergeQueueEntries'[e] = [mergeQueueEntries[e] EXCEPT !.status = s]
               /\ \A d \in EntryIds \ {e} : mergeQueueEntries'[d] = mergeQueueEntries[d]
               /\ UNCHANGED mergeSimulations
<1>1. PICK s \in SettledStatuses : SettleEntry(e, s)
  BY DEF MarkMerged, CancelEntry, SettledStatuses
<1>2. UNCHANGED mergeSimulations
  BY DEF MarkMerged, CancelEntry
<1>3. mergeQueueEntries[e] \in QueueEntryType
  BY DEF CMTypeOK, EntryIds
<1>4. mergeQueueEntries'[e] = [mergeQueueEntries[e] EXCEPT !.status = s]
  BY <1>1, SettleEffect DEF CMTypeOK
<1>5. ~LiveEntry(e)' /\ mergeQueueEntries'[e].lease = mergeQueueEntries[e].lease
  BY <1>3, <1>4 DEF LiveEntry, QueueEntryType
<1> QED  BY <1>1, <1>2, <1>4, <1>5, SettleEffect DEF CMTypeOK

LEMMA ReleasedStep ==
    CMTypeOK /\ ReleasedIffSettled /\ [CMNext]_cmVars => ReleasedIffSettled'
<1> SUFFICES ASSUME CMTypeOK, ReleasedIffSettled, [CMNext]_cmVars
             PROVE  ReleasedIffSettled'
  OBVIOUS
<1> USE DEF ReleasedIffSettled
<1>1. ASSUME NEW o, NEW r, NEW b, NEW fs, LeaseBranch(o, r, b, fs)
      PROVE  ReleasedIffSettled'
  BY <1>1, LeaseBranchEffect DEF LiveEntry
<1>2. ASSUME NEW l \in LeaseIds \cup {GhostLease}, EnqueuePullRequest(l)
      PROVE  ReleasedIffSettled'
  <2>1. PICK n \in Nat :
          /\ EntryIds' = EntryIds \cup {n}
          /\ \A e \in EntryIds : mergeQueueEntries'[e] = mergeQueueEntries[e]
          /\ mergeQueueEntries'[n].status \in {"ready", "blocked"}
          /\ LeaseIds' = LeaseIds /\ UNCHANGED branchLeases
    BY <1>2, EnqueueEffect
  <2>2. LiveEntry(n)' /\ \A e \in EntryIds : LiveEntry(e)' <=> LiveEntry(e)
    BY <2>1 DEF LiveEntry, SettledStatuses
  <2> QED  BY <2>1, <2>2
<1>3. ASSUME NEW l \in LeaseIds \cup {NoLease}, NEW s \in SimulationStatuses,
             NEW id \in SimulationIds, Simulate(l, s, id)
      PROVE  ReleasedIffSettled'
  <2>1. \A e \in EntryIds : /\ LiveEntry(e)' <=> LiveEntry(e)
                            /\ mergeQueueEntries'[e].lease = mergeQueueEntries[e].lease
    <3>1. CASE RefreshMergeQueueEntriesForLease(branchLeases, mergeSimulations', l)
      BY <1>3, <3>1, SimulateEffect, RefreshKeepsLive
    <3>2. CASE UNCHANGED mergeQueueEntries
      BY <3>2 DEF LiveEntry
    <3> QED  BY <1>3, <3>1, <3>2, SimulateEffect
  <2>2. UNCHANGED branchLeases /\ LeaseIds' = LeaseIds /\ EntryIds' = EntryIds
    BY <1>3, SimulateEffect
  <2> QED  BY <2>1, <2>2
<1>4. ASSUME NEW e \in EntryIds, MarkMerged(e) \/ CancelEntry(e)
      PROVE  ReleasedIffSettled'
  BY <1>4, SettleStep DEF LiveEntry
<1>5. ASSUME NEW r, NEW b, NEW t, NEW fs \in FileSets, SyncChangedFiles(r, b, t, fs)
      PROVE  ReleasedIffSettled'
  <2>1. PICK l \in LeaseIds :
          /\ LeaseIds' = LeaseIds /\ EntryIds' = EntryIds
          /\ branchLeases'[l].status = branchLeases[l].status
          /\ \A k \in LeaseIds \ {l} : branchLeases'[k] = branchLeases[k]
          /\ RefreshMergeQueueEntriesForLease(branchLeases', mergeSimulations, l)
    BY <1>5, SyncEffect
  <2>2. \A e \in EntryIds : /\ LiveEntry(e)' <=> LiveEntry(e)
                            /\ mergeQueueEntries'[e].lease = mergeQueueEntries[e].lease
    BY <2>1, RefreshKeepsLive DEF CMTypeOK
  <2> QED  BY <2>1, <2>2
<1>6. CASE Tick \/ UNCHANGED cmVars
  BY <1>6 DEF Tick, cmVars, LeaseIds, EntryIds, LiveEntry
<1> QED  BY <1>1, <1>2, <1>3, <1>4, <1>5, <1>6 DEF CMNext

(* A lease is released exactly when one of its queue entries has been      *)
(* merged or cancelled, whatever the order of the calls.                   *)
THEOREM ReleasedExactlyWhenSettled == CMSpec => []ReleasedIffSettled
<1>2. CMInit => ReleasedIffSettled
  BY DEF CMInit, ReleasedIffSettled, LeaseIds
<1> QED  BY <1>2, TypeInit, TypeStep, ReleasedStep, PTL DEF CMSpec

(* A merged or cancelled entry keeps its evidence and never becomes ready  *)
(* or blocked again: no simulation, sync or refresh touches it.            *)
THEOREM SettledEntriesStayFrozen == CMSpec => SettledEntriesFrozen
<1> DEFINE Frozen == \A e \in EntryIds : ~LiveEntry(e) =>
              \E s \in SettledStatuses :
                  mergeQueueEntries'[e] = [mergeQueueEntries[e] EXCEPT !.status = s]
<1>2. ASSUME CMTypeOK, [CMNext]_cmVars PROVE [Frozen]_cmVars
  <2>1. ASSUME NEW e \in EntryIds, ~LiveEntry(e), mergeQueueEntries'[e] = mergeQueueEntries[e]
        PROVE  \E s \in SettledStatuses :
                  mergeQueueEntries'[e] = [mergeQueueEntries[e] EXCEPT !.status = s]
    <3>1. mergeQueueEntries[e] \in QueueEntryType /\ mergeQueueEntries[e].status \in SettledStatuses
      BY <1>2, <2>1 DEF CMTypeOK, EntryIds, LiveEntry
    <3>2. mergeQueueEntries[e] =
            [mergeQueueEntries[e] EXCEPT !.status = mergeQueueEntries[e].status]
      BY <3>1 DEF QueueEntryType
    <3> QED  BY <2>1, <3>1, <3>2
  <2>2. ASSUME NEW leases, NEW sims \in Seq(SimulationType), NEW l,
               RefreshMergeQueueEntriesForLease(leases, sims, l)
        PROVE  Frozen
    BY <1>2, <2>1, <2>2, RefreshEffect DEF CMTypeOK, Refreshed
  <2>3. ASSUME UNCHANGED mergeQueueEntries PROVE Frozen
    BY <2>1, <2>3
  <2> HIDE DEF Frozen
  <2>4. ASSUME NEW l \in LeaseIds \cup {GhostLease}, EnqueuePullRequest(l) PROVE Frozen
    BY <1>2, <2>1, <2>4, EnqueueEffect DEF Frozen
  <2>5. ASSUME NEW l \in LeaseIds \cup {NoLease}, NEW s \in SimulationStatuses,
               NEW id \in SimulationIds, Simulate(l, s, id)
        PROVE  Frozen
    <3>1. CASE RefreshMergeQueueEntriesForLease(branchLeases, mergeSimulations', l)
      BY <1>2, <2>2, <2>5, <3>1, SimulateEffect
    <3> QED  BY <1>2, <2>3, <2>5, <3>1, SimulateEffect
  <2>6. ASSUME NEW e \in EntryIds, MarkMerged(e) \/ CancelEntry(e) PROVE Frozen
    BY <1>2, <2>1, <2>6, SettleStep DEF Frozen
  <2>7. ASSUME NEW r, NEW b, NEW t, NEW fs \in FileSets, SyncChangedFiles(r, b, t, fs)
        PROVE  Frozen
    BY <1>2, <2>2, <2>7, SyncEffect DEF CMTypeOK
  <2>8. ASSUME NEW o, NEW r, NEW b, NEW fs, LeaseBranch(o, r, b, fs) PROVE Frozen
    BY <2>3, <2>8 DEF LeaseBranch
  <2>9. CASE Tick \/ UNCHANGED cmVars
    BY <2>3, <2>9 DEF Tick, cmVars
  <2> QED  BY <1>2, <2>4, <2>5, <2>6, <2>7, <2>8, <2>9 DEF CMNext
<1> QED  BY <1>2, TypeInit, TypeStep, PTL DEF CMSpec, SettledEntriesFrozen

(* Overlap does not depend on the order of the two leases, and a lease     *)
(* does not overlap itself.                                                *)
LEMMA OverlapSymmetric ==
    \A a, b : Overlapping(a, b) => Overlapping(b, a) /\ a # b
<1> SUFFICES ASSUME NEW a, NEW b, Overlapping(a, b)
             PROVE  Overlapping(b, a) /\ a # b
  OBVIOUS
<1>1. Rivals(a, b) /\ ComputePairRiskScore(a.files, b.files).riskScore >= 50
  BY DEF Overlapping
<1>2. Rivals(b, a) /\ a # b
  BY <1>1 DEF Rivals
<1>3. ComputePairRiskScore(b.files, a.files).riskScore >= 50
  <2>1. PICK f \in a.files \cap b.files :
          ClassifyConflictFile(f) \in {"source", "package", "critical"}
    BY <1>1, PairRiskThreshold
  <2>2. f \in b.files \cap a.files
    OBVIOUS
  <2> QED  BY <2>1, <2>2, PairRiskThreshold
<1> QED  BY <1>2, <1>3 DEF Overlapping

(* After a refresh a lease is cleared only if no rival overlaps it, in the *)
(* leases the refresh has read.                                            *)
LEMMA RefreshedLease ==
    ASSUME CMTypeOK, NEW leases, NEW sims \in Seq(SimulationType), NEW l \in DOMAIN leases,
           RefreshMergeQueueEntriesForLease(leases, sims, l)
    PROVE  /\ \A k \in DOMAIN leases : Overlapping(leases[l], leases[k]) => ~Cleared(l)'
           /\ \A k : k # l => (Cleared(k)' <=> Cleared(k))
<1>1. /\ EntryIds' = EntryIds
      /\ \A e \in EntryIds : mergeQueueEntries'[e].lease = mergeQueueEntries[e].lease
      /\ \A e \in EntryIds : Refreshed(e, l) =>
           mergeQueueEntries'[e].status = MergeQueueFieldsForLease(leases, sims, l).status
      /\ \A e \in EntryIds : ~Refreshed(e, l) =>
           mergeQueueEntries'[e] = mergeQueueEntries[e]
  <2>1. mergeQueueEntries \in Seq(QueueEntryType)
    BY DEF CMTypeOK
  <2> QED  BY ZenonT(40), <2>1, RefreshEffect
<1>2. ASSUME NEW k \in DOMAIN leases, Overlapping(leases[l], leases[k])
      PROVE  ~Cleared(l)'
  <2>1. MergeQueueFieldsForLease(leases, sims, l).status = "blocked"
    BY ZenonT(40), <1>2, QueueFields, OverlapSymmetric
  <2> QED  BY <1>1, <2>1 DEF Cleared, LiveEntry, SettledStatuses, Refreshed
<1>3. ASSUME NEW k, k # l PROVE Cleared(k)' <=> Cleared(k)
  BY <1>1, <1>3 DEF Cleared, Refreshed
<1> QED  BY <1>2, <1>3

LEMMA OverlapStep ==
    CMTypeOK /\ OverlapSerialized /\ [CMNext]_cmVars => OverlapSerialized'
<1> SUFFICES ASSUME CMTypeOK, OverlapSerialized, [CMNext]_cmVars,
                    NEW k \in LeaseIds', NEW l \in LeaseIds',
                    Overlapping(branchLeases'[k], branchLeases'[l]),
                    Cleared(k)', Cleared(l)'
             PROVE  FALSE
  BY DEF OverlapSerialized
<1>0. Overlapping(branchLeases'[l], branchLeases'[k]) /\ k # l
  BY OverlapSymmetric
<1>1. ASSUME NEW o, NEW r, NEW b, NEW fs, LeaseBranch(o, r, b, fs)
      PROVE  FALSE
  <2>1. PICK n \in Nat :
          /\ LeaseIds' = LeaseIds \cup {n}
          /\ \A j \in LeaseIds : branchLeases'[j] = branchLeases[j]
          /\ \A e \in EntryIds : mergeQueueEntries[e].lease # n
          /\ EntryIds' = EntryIds /\ UNCHANGED mergeQueueEntries
    BY <1>1, LeaseBranchEffect
  <2>2. k \in LeaseIds /\ l \in LeaseIds /\ Cleared(k) /\ Cleared(l)
    BY <2>1 DEF Cleared
  <2> QED  BY <2>1, <2>2 DEF OverlapSerialized
<1>2. ASSUME NEW m \in LeaseIds \cup {GhostLease}, EnqueuePullRequest(m)
      PROVE  FALSE
  <2>1. PICK n \in Nat :
          /\ EntryIds' = EntryIds \cup {n}
          /\ \A e \in EntryIds : mergeQueueEntries'[e] = mergeQueueEntries[e]
          /\ mergeQueueEntries'[n].lease = m
          /\ mergeQueueEntries'[n].status =
               MergeQueueFieldsForLease(branchLeases, mergeSimulations, m).status
          /\ LeaseIds' = LeaseIds /\ UNCHANGED branchLeases
    BY <1>2, EnqueueEffect
  <2>2. ASSUME NEW i \in LeaseIds, NEW j \in LeaseIds,
               Overlapping(branchLeases[i], branchLeases[j]), Cleared(i)'
        PROVE  Cleared(i)
    <3>1. CASE m = i
      <4>1. MergeQueueFieldsForLease(branchLeases, mergeSimulations, m).status = "blocked"
        BY ZenonT(40), <2>2, <3>1, QueueFields, OverlapSymmetric DEF CMTypeOK, LeaseIds
      <4> QED  BY <2>1, <2>2, <4>1 DEF Cleared
    <3>2. CASE m # i
      BY <2>1, <2>2, <3>2 DEF Cleared
    <3> QED  BY <3>1, <3>2
  <2>3. Cleared(k) /\ Cleared(l)
    BY <1>0, <2>1, <2>2
  <2> QED  BY <2>1, <2>3 DEF OverlapSerialized
<1>3. ASSUME NEW m \in LeaseIds \cup {NoLease}, NEW s \in SimulationStatuses,
             NEW id \in SimulationIds, Simulate(m, s, id)
      PROVE  FALSE
  <2>1. /\ UNCHANGED branchLeases /\ LeaseIds' = LeaseIds /\ EntryIds' = EntryIds
        /\ mergeSimulations' \in Seq(SimulationType)
        /\ \/ RefreshMergeQueueEntriesForLease(branchLeases, mergeSimulations', m)
           \/ UNCHANGED mergeQueueEntries
    BY <1>3, SimulateEffect
  <2>2. CASE UNCHANGED mergeQueueEntries
    BY <2>1, <2>2 DEF OverlapSerialized, Cleared
  <2>3. CASE RefreshMergeQueueEntriesForLease(branchLeases, mergeSimulations', m)
             /\ m \in LeaseIds
    <3>1. /\ \A j \in LeaseIds : Overlapping(branchLeases[m], branchLeases[j]) => ~Cleared(m)'
          /\ \A i : i # m => (Cleared(i)' <=> Cleared(i))
      BY <2>1, <2>3, RefreshedLease DEF LeaseIds
    <3> QED  BY <1>0, <2>1, <3>1 DEF OverlapSerialized
  <2>4. CASE RefreshMergeQueueEntriesForLease(branchLeases, mergeSimulations', m)
             /\ m \notin LeaseIds
    <3>1. UNCHANGED mergeQueueEntries
      BY <1>3, <2>1, <2>4 DEF Simulate, RecordMergeSimulation, NoLease
    <3> QED  BY <2>2, <3>1
  <2> QED  BY <2>1, <2>2, <2>3, <2>4
<1>4. ASSUME NEW e \in EntryIds, MarkMerged(e) \/ CancelEntry(e)
      PROVE  FALSE
  <2> DEFINE m == mergeQueueEntries[e].lease
  <2>1. /\ LeaseIds' = LeaseIds /\ branchLeases'[m].status = "released"
        /\ \A j \in LeaseIds \ {m} : branchLeases'[j] = branchLeases[j]
        /\ EntryIds' = EntryIds /\ ~LiveEntry(e)'
        /\ \A d \in EntryIds \ {e} : mergeQueueEntries'[d] = mergeQueueEntries[d]
    BY <1>4, SettleStep
  <2>2. k # m /\ l # m
    BY <2>1 DEF Overlapping, Rivals
  <2>3. Cleared(k) /\ Cleared(l)
    BY <2>1 DEF Cleared, LiveEntry, SettledStatuses
  <2> QED  BY <2>1, <2>2, <2>3 DEF OverlapSerialized
<1>5. ASSUME NEW r, NEW b, NEW t, NEW fs \in FileSets, SyncChangedFiles(r, b, t, fs)
      PROVE  FALSE
  <2>1. PICK m \in LeaseIds :
          /\ LeaseIds' = LeaseIds
          /\ \A j \in LeaseIds \ {m} : branchLeases'[j] = branchLeases[j]
          /\ RefreshMergeQueueEntriesForLease(branchLeases', mergeSimulations, m)
    BY <1>5, SyncEffect
  <2>2. DOMAIN branchLeases' = LeaseIds
    BY <2>1 DEF LeaseIds
  <2>3. /\ \A j \in LeaseIds : Overlapping(branchLeases'[m], branchLeases'[j]) => ~Cleared(m)'
        /\ \A i : i # m => (Cleared(i)' <=> Cleared(i))
    BY <2>1, <2>2, RefreshedLease DEF CMTypeOK
  <2> QED  BY <1>0, <2>1, <2>3 DEF OverlapSerialized
<1>6. CASE Tick \/ UNCHANGED cmVars
  BY <1>6 DEF Tick, cmVars, OverlapSerialized, Cleared, LeaseIds, EntryIds
<1> QED  BY <1>1, <1>2, <1>3, <1>4, <1>5, <1>6 DEF CMNext

(* Two active branches that change the same source, package or critical    *)
(* file are never both ready in the merge queue, in any order of leases,   *)
(* entries, simulations, settlements and syncs.                            *)
THEOREM OverlapIsSerialized == CMSpec => []OverlapSerialized
<1>2. CMInit => OverlapSerialized
  BY DEF CMInit, OverlapSerialized, LeaseIds
<1> QED  BY <1>2, TypeInit, TypeStep, OverlapStep, PTL DEF CMSpec

LEMMA TracksStep ==
    CMTypeOK /\ QueueTracksSimulations /\ [CMNext]_cmVars => QueueTracksSimulations'
<1> SUFFICES ASSUME CMTypeOK, QueueTracksSimulations, [CMNext]_cmVars,
                    NEW e \in EntryIds', NEW l \in LeaseIds',
                    mergeQueueEntries'[e].lease = l, LiveEntry(e)',
                    branchLeases'[l].owner.task \in KnownTasks
             PROVE  mergeQueueEntries'[e].simulationStatus = LatestStatus(mergeSimulations', {l})
  BY DEF QueueTracksSimulations
<1> DEFINE Goal == mergeQueueEntries'[e].simulationStatus = LatestStatus(mergeSimulations', {l})
<1>1. ASSUME NEW o, NEW r, NEW b, NEW fs, LeaseBranch(o, r, b, fs)
      PROVE  Goal
  <2>1. PICK n \in Nat :
          /\ LeaseIds' = LeaseIds \cup {n}
          /\ \A j \in LeaseIds : branchLeases'[j] = branchLeases[j]
          /\ \A d \in EntryIds : mergeQueueEntries[d].lease # n
          /\ EntryIds' = EntryIds /\ UNCHANGED <<mergeSimulations, mergeQueueEntries>>
    BY <1>1, LeaseBranchEffect
  <2> QED  BY <2>1 DEF QueueTracksSimulations, LiveEntry
<1>2. ASSUME NEW m \in LeaseIds \cup {GhostLease}, EnqueuePullRequest(m)
      PROVE  Goal
  <2>1. PICK n \in Nat :
          /\ EntryIds' = EntryIds \cup {n}
          /\ \A d \in EntryIds : mergeQueueEntries'[d] = mergeQueueEntries[d]
          /\ mergeQueueEntries'[n].lease = m
          /\ mergeQueueEntries'[n].simulationStatus = LatestStatus(mergeSimulations, {m})
          /\ LeaseIds' = LeaseIds /\ UNCHANGED <<branchLeases, mergeSimulations>>
    BY <1>2, EnqueueEffect
  <2>2. CASE e = n
    BY <2>1, <2>2
  <2>3. CASE e \in EntryIds
    BY <2>1, <2>3 DEF QueueTracksSimulations, LiveEntry
  <2> QED  BY <2>1, <2>2, <2>3
<1>3. ASSUME NEW m \in LeaseIds \cup {NoLease}, NEW s \in SimulationStatuses,
             NEW id \in SimulationIds, Simulate(m, s, id)
      PROVE  Goal
  <2>1. /\ UNCHANGED branchLeases /\ LeaseIds' = LeaseIds /\ EntryIds' = EntryIds
        /\ mergeSimulations' \in Seq(SimulationType)
        /\ \A k \in LeaseIds \ {m} :
             LatestStatus(mergeSimulations', {k}) = LatestStatus(mergeSimulations, {k})
        /\ \/ RefreshMergeQueueEntriesForLease(branchLeases, mergeSimulations', m)
           \/ /\ UNCHANGED mergeQueueEntries
              /\ m \in LeaseIds => branchLeases[m].owner.task \notin KnownTasks
    BY <1>3, SimulateEffect
  <2>2. CASE RefreshMergeQueueEntriesForLease(branchLeases, mergeSimulations', m)
    <3>1. mergeQueueEntries[e].lease = l /\ LiveEntry(e)
      BY <2>1, <2>2, RefreshKeepsLive
    <3>2. /\ l = m => mergeQueueEntries'[e].simulationStatus = LatestStatus(mergeSimulations', {m})
          /\ l # m => mergeQueueEntries'[e] = mergeQueueEntries[e]
      <4>1. mergeQueueEntries \in Seq(QueueEntryType) /\ e \in EntryIds
        BY <2>1 DEF CMTypeOK
      <4>2. /\ Refreshed(e, m) => mergeQueueEntries'[e].simulationStatus =
                                    LatestStatus(mergeSimulations', {m})
            /\ ~Refreshed(e, m) => mergeQueueEntries'[e] = mergeQueueEntries[e]
        <5> DEFINE sims == mergeSimulations'
        <5>1. sims \in Seq(SimulationType)
              /\ RefreshMergeQueueEntriesForLease(branchLeases, sims, m)
          BY <2>1, <2>2
        <5> HIDE DEF sims
        <5>2. /\ \A d \in EntryIds : Refreshed(d, m) =>
                   mergeQueueEntries'[d].simulationStatus = LatestStatus(sims, {m})
              /\ \A d \in EntryIds : ~Refreshed(d, m) =>
                   mergeQueueEntries'[d] = mergeQueueEntries[d]
          BY <4>1, <5>1, RefreshEffect
        <5> QED  BY <4>1, <5>2 DEF sims
      <4> QED  BY <3>1, <4>2 DEF Refreshed
    <3> QED  BY <2>1, <3>1, <3>2 DEF QueueTracksSimulations
  <2>3. CASE UNCHANGED mergeQueueEntries
             /\ (m \in LeaseIds => branchLeases[m].owner.task \notin KnownTasks)
    BY <2>1, <2>3 DEF QueueTracksSimulations, LiveEntry
  <2> QED  BY <2>1, <2>2, <2>3
<1>4. ASSUME NEW d \in EntryIds, MarkMerged(d) \/ CancelEntry(d)
      PROVE  Goal
  <2> DEFINE m == mergeQueueEntries[d].lease
  <2>1. /\ m \in LeaseIds /\ LeaseIds' = LeaseIds
        /\ branchLeases'[m].owner = branchLeases[m].owner
        /\ \A j \in LeaseIds \ {m} : branchLeases'[j] = branchLeases[j]
        /\ EntryIds' = EntryIds /\ ~LiveEntry(d)'
        /\ \A c \in EntryIds \ {d} : mergeQueueEntries'[c] = mergeQueueEntries[c]
        /\ UNCHANGED mergeSimulations
    BY <1>4, SettleStep
  <2>2. e # d /\ branchLeases'[l].owner = branchLeases[l].owner
    BY <2>1
  <2> QED  BY <2>1, <2>2 DEF QueueTracksSimulations, LiveEntry
<1>5. ASSUME NEW r, NEW b, NEW t, NEW fs \in FileSets, SyncChangedFiles(r, b, t, fs)
      PROVE  Goal
  <2>1. PICK m \in LeaseIds :
          /\ LeaseIds' = LeaseIds /\ EntryIds' = EntryIds /\ UNCHANGED mergeSimulations
          /\ branchLeases'[m].owner = branchLeases[m].owner
          /\ \A j \in LeaseIds \ {m} : branchLeases'[j] = branchLeases[j]
          /\ RefreshMergeQueueEntriesForLease(branchLeases', mergeSimulations, m)
    BY <1>5, SyncEffect
  <2>2. mergeQueueEntries[e].lease = l /\ LiveEntry(e)
    BY <2>1, RefreshKeepsLive DEF CMTypeOK
  <2>3. /\ l = m => mergeQueueEntries'[e].simulationStatus = LatestStatus(mergeSimulations, {m})
        /\ l # m => mergeQueueEntries'[e] = mergeQueueEntries[e]
    <3>1. mergeQueueEntries \in Seq(QueueEntryType) /\ mergeSimulations \in Seq(SimulationType)
          /\ e \in EntryIds
      BY <2>1 DEF CMTypeOK
    <3>2. /\ Refreshed(e, m) => mergeQueueEntries'[e].simulationStatus =
                                  LatestStatus(mergeSimulations, {m})
          /\ ~Refreshed(e, m) => mergeQueueEntries'[e] = mergeQueueEntries[e]
      BY <2>1, <3>1, RefreshEffect
    <3> QED  BY <2>2, <3>2 DEF Refreshed
  <2>4. branchLeases'[l].owner = branchLeases[l].owner
    BY <2>1
  <2> QED  BY <2>1, <2>2, <2>3, <2>4 DEF QueueTracksSimulations
<1>6. CASE Tick \/ UNCHANGED cmVars
  BY <1>6 DEF Tick, cmVars, QueueTracksSimulations, LiveEntry, LeaseIds, EntryIds
<1> QED  BY <1>1, <1>2, <1>3, <1>4, <1>5, <1>6 DEF CMNext

(* The dry-run evidence of a live entry is the latest simulation of its    *)
(* lease, as long as the store knows the lease's task.                     *)
THEOREM QueueAlwaysTracksSimulations == CMSpec => []QueueTracksSimulations
<1>2. CMInit => QueueTracksSimulations
  BY DEF CMInit, QueueTracksSimulations, EntryIds
<1> QED  BY <1>2, TypeInit, TypeStep, TracksStep, PTL DEF CMSpec

(* The risks of a run's leases are risks of the repository's pairs, and    *)
(* the other way round.                                                    *)
LEMMA ViewsAgree == CMTypeOK => RiskViewsAgree
<1> SUFFICES ASSUME CMTypeOK, NEW o \in Owners
             PROVE  ComputeConflictRisksForTaskRun(branchLeases, mergeSimulations, o.run) =
                      UNION {ComputeConflictRisksForLease(branchLeases, mergeSimulations, l) :
                               l \in {k \in LeaseIds : branchLeases[k].owner.run = o.run}}
  BY DEF RiskViewsAgree
<1> DEFINE L == branchLeases
           S == mergeSimulations
           R(k, l) == [leases |-> {k, l}, risk |-> LeaseRisk(L, S, k, l)]
<1>1. /\ DOMAIN L \subseteq Nat
      /\ \A k \in DOMAIN L : L[k].repo \in Repos /\ L[k].files \in SUBSET Files
  <2>1. L \in Seq(LeaseType)
    BY DEF CMTypeOK
  <2>2. DOMAIN L = 1..Len(L) /\ Len(L) \in Nat
    BY <2>1
  <2>3. \A k \in DOMAIN L : L[k] \in LeaseType
    BY <2>1, <2>2
  <2>4. DOMAIN L \subseteq Nat
    BY <2>2
  <2> QED  BY <2>3, <2>4 DEF LeaseType
<1>2. \A k, l \in DOMAIN L : Rivals(L[k], L[l]) => Rivals(L[l], L[k]) /\ k # l
  BY DEF Rivals
<1>3. \A k, l \in DOMAIN L : R(k, l) = R(l, k)
  <2> SUFFICES ASSUME NEW k \in DOMAIN L, NEW l \in DOMAIN L PROVE R(k, l) = R(l, k)
    OBVIOUS
  <2>1. {k, l} = {l, k}
    OBVIOUS
  <2>2. LeaseRisk(L, S, k, l) = LeaseRisk(L, S, l, k)
    BY <1>1, <2>1, RiskIsSymmetric DEF LeaseRisk
  <2> QED  BY <2>1, <2>2
<1> DEFINE Paired(r, k, l) == Rivals(L[k], L[l]) /\ r = R(k, l)
<1>4. ASSUME NEW r, r \in ComputeConflictRisksForTaskRun(L, S, o.run)
      PROVE  \E k, l \in DOMAIN L : L[k].owner.run = o.run /\ Paired(r, k, l)
  <2>1. PICK repo \in Repos : r \in ComputeRepoConflictRisks(L, S, repo)
    BY <1>4 DEF ComputeConflictRisksForTaskRun
  <2>2. PICK p \in (DOMAIN L) \X (DOMAIN L) :
          Rivals(L[p[1]], L[p[2]]) /\ r = R(p[1], p[2])
    BY <2>1 DEF ComputeRepoConflictRisks
  <2>3. PICK l \in r.leases : L[l].owner.run = o.run
    BY <1>4 DEF ComputeConflictRisksForTaskRun
  <2>4. p[1] \in DOMAIN L /\ p[2] \in DOMAIN L
    OBVIOUS
  <2>5. l = p[1] \/ l = p[2]
    BY <2>2, <2>3
  <2>6. CASE l = p[1]
    BY <2>2, <2>3, <2>4, <2>6
  <2>7. CASE l = p[2]
    BY <1>2, <1>3, <2>2, <2>3, <2>4, <2>7
  <2> QED  BY <2>5, <2>6, <2>7
<1>5. ASSUME NEW r, NEW k \in DOMAIN L, NEW l \in DOMAIN L,
             L[k].owner.run = o.run, Paired(r, k, l)
      PROVE  r \in ComputeConflictRisksForTaskRun(L, S, o.run)
  <2>1. \E i, j \in DOMAIN L : i < j /\ Paired(r, i, j) /\ k \in {i, j}
    <3>1. k < l \/ l < k
      BY <1>1, <1>2, <1>5
    <3> QED  BY <1>2, <1>3, <1>5, <3>1
  <2>2. PICK i \in DOMAIN L, j \in DOMAIN L : i < j /\ Paired(r, i, j) /\ k \in {i, j}
    BY <2>1
  <2>3. L[i].repo \in Repos
    BY <1>1
  <2>4. r \in ComputeRepoConflictRisks(L, S, L[i].repo)
    <3> DEFINE p == <<i, j>>
    <3>1. p \in (DOMAIN L) \X (DOMAIN L) /\ p[1] = i /\ p[2] = j
      OBVIOUS
    <3>2. p \in {q \in (DOMAIN L) \X (DOMAIN L) :
                   /\ q[1] < q[2]
                   /\ L[q[1]].repo = L[i].repo
                   /\ Rivals(L[q[1]], L[q[2]])}
      BY <2>2, <3>1
    <3>3. r = [leases |-> {p[1], p[2]}, risk |-> LeaseRisk(L, S, p[1], p[2])]
      BY <2>2, <3>1
    <3> HIDE DEF p
    <3> QED  BY <3>2, <3>3 DEF ComputeRepoConflictRisks
  <2>5. k \in r.leases
    BY <2>2
  <2> QED  BY <1>5, <2>3, <2>4, <2>5 DEF ComputeConflictRisksForTaskRun
<1>6. ASSUME NEW r, NEW k \in DOMAIN L
      PROVE  r \in ComputeConflictRisksForLease(L, S, k) <=>
               \E l \in DOMAIN L : Paired(r, k, l)
  <2>1. r \in ComputeConflictRisksForLease(L, S, k) <=>
          \E l \in (DOMAIN L) \ {k} : /\ Rivals(L[k], L[l])
                                      /\ r = [leases |-> {l, k}, risk |-> LeaseRisk(L, S, k, l)]
    BY DEF ComputeConflictRisksForLease
  <2>2. \A l : {l, k} = {k, l}
    OBVIOUS
  <2> QED  BY <1>2, <2>1, <2>2
<1>7. ASSUME NEW r
      PROVE  r \in ComputeConflictRisksForTaskRun(L, S, o.run) <=>
               \E k \in {j \in LeaseIds : L[j].owner.run = o.run} :
                  r \in ComputeConflictRisksForLease(L, S, k)
  BY <1>4, <1>5, <1>6 DEF LeaseIds
<1> QED  BY <1>7

(* The API reads the same risks of a run whichever of its two ways it      *)
(* takes, whatever leases and simulations there are.                       *)
THEOREM RiskViewsAlwaysAgree == CMSpec => []RiskViewsAgree
<1> QED  BY TypeInit, TypeStep, ViewsAgree, PTL DEF CMSpec

(***************************************************************************)
(* The store implements MergeGate                                          *)
(***************************************************************************)

LeasesBounded == Len(branchLeases) <= MaxLeases

LEMMA BoundedStep == CMTypeOK /\ LeasesBounded /\ [CMNext]_cmVars => LeasesBounded'
<1> SUFFICES ASSUME CMTypeOK, LeasesBounded, [CMNext]_cmVars PROVE LeasesBounded'
  OBVIOUS
<1> USE BoundsAssumption DEF LeasesBounded
<1>1. ASSUME NEW o, NEW r, NEW b, NEW fs, LeaseBranch(o, r, b, fs) PROVE LeasesBounded'
  BY <1>1 DEF LeaseBranch, CreateBranchLease, CMTypeOK
<1>2. ASSUME branchLeases' \in Seq(LeaseType), LeaseIds' = LeaseIds PROVE LeasesBounded'
  <2>1. 1..Len(branchLeases') = 1..Len(branchLeases)
        /\ Len(branchLeases') \in Nat /\ Len(branchLeases) \in Nat
    BY <1>2 DEF LeaseIds, CMTypeOK
  <2> QED  BY <2>1
<1>3. CMTypeOK'
  BY TypeStep
<1>4. ASSUME NEW e \in EntryIds, MarkMerged(e) \/ CancelEntry(e) PROVE LeasesBounded'
  BY <1>2, <1>3, <1>4, SettleStep DEF CMTypeOK
<1>5. ASSUME NEW r, NEW b, NEW t, NEW fs \in FileSets, SyncChangedFiles(r, b, t, fs)
      PROVE  LeasesBounded'
  BY <1>2, <1>3, <1>5, SyncEffect DEF CMTypeOK
<1> QED  BY <1>1, <1>4, <1>5 DEF CMNext, EnqueuePullRequest, Simulate, Tick, cmVars

(* A branch that no lease overlaps is in no pair. *)
LEMMA AloneWhen ==
    ASSUME NEW l \in LeaseIds,
           \A k \in LeaseIds : ~Overlapping(branchLeases[l], branchLeases[k])
    PROVE  Gate!Alone(l, GateOverlap)
<1> SUFFICES ASSUME NEW p \in GateOverlap, l \in {p[1], p[2]} PROVE FALSE
  BY DEF Gate!Alone
<1>1. /\ p[1] \in LeaseIds /\ p[2] \in LeaseIds
      /\ Overlapping(branchLeases[p[1]], branchLeases[p[2]])
  BY DEF GateOverlap, ActiveLeases
<1> QED  BY <1>1, OverlapSymmetric

(* The mapped state follows the ids and the statuses of the leases. *)
LEMMA MappedState ==
    ASSUME LeaseIds' = LeaseIds,
           \A k \in LeaseIds : branchLeases'[k].status = branchLeases[k].status
    PROVE  UNCHANGED GateState /\ UNCHANGED ActiveLeases
<1>1. UNCHANGED GateState
  BY DEF GateState
<1>2. UNCHANGED ActiveLeases
  BY DEF ActiveLeases
<1> QED  BY <1>1, <1>2

(* A step that keeps the leases and changes at most whether one lease is   *)
(* cleared is a judgement of that branch, or nothing at all when the       *)
(* branch has ended.                                                       *)
LEMMA JudgeOrStutter ==
    ASSUME CMTypeOK, LeasesBounded, NEW m,
           UNCHANGED branchLeases, LeaseIds' = LeaseIds,
           \A k : k # m => (Cleared(k)' <=> Cleared(k)),
           m \in LeaseIds /\ Cleared(m)' /\ ~Cleared(m) =>
               \A k \in LeaseIds : ~Overlapping(branchLeases[m], branchLeases[k])
    PROVE  [Gate!GateNext]_(Gate!gateVars)
<1>1. UNCHANGED GateState /\ UNCHANGED ActiveLeases
  BY MappedState
<1>2. UNCHANGED GateOverlap
  BY <1>1 DEF GateOverlap
<1>3. CASE m \notin ActiveLeases \/ (Cleared(m)' <=> Cleared(m))
  <2>1. UNCHANGED GateReady
    BY <1>1, <1>3 DEF GateReady
  <2> QED  BY <1>1, <1>2, <2>1 DEF Gate!gateVars
<1>4. CASE m \in ActiveLeases /\ ~(Cleared(m)' <=> Cleared(m))
  <2>1. m \in LeaseIds /\ m \in 1..MaxLeases /\ GateState[m] = "active"
    BY <1>4, BoundsAssumption DEF ActiveLeases, GateState, LeaseIds, LeasesBounded, CMTypeOK
  <2>2. Gate!OverlapGrows(m)
    BY <1>2 DEF Gate!OverlapGrows
  <2>3. CASE Cleared(m)'
    <3>1. GateReady' = GateReady \cup {m}
      BY <1>1, <1>4, <2>3 DEF GateReady
    <3>2. Gate!Alone(m, GateOverlap)
      BY <1>4, <2>1, <2>3, AloneWhen
    <3>3. Gate!Judge(m)
      BY <1>1, <1>2, <2>1, <2>2, <3>1, <3>2 DEF Gate!Judge
    <3> QED  BY <2>1, <3>3 DEF Gate!GateNext
  <2>4. CASE ~Cleared(m)'
    <3>1. GateReady' = GateReady \ {m}
      BY <1>1, <1>4, <2>4 DEF GateReady
    <3>2. Gate!Judge(m)
      BY <1>1, <2>1, <2>2, <3>1 DEF Gate!Judge
    <3> QED  BY <2>1, <3>2 DEF Gate!GateNext
  <2> QED  BY <2>3, <2>4
<1> QED  BY <1>3, <1>4

(* More files overlap whatever fewer files overlapped. *)
LEMMA OverlapMonotone ==
    ASSUME NEW a, NEW b, NEW c, Overlapping(a, b),
           c.owner = a.owner, c.repo = a.repo, c.status = a.status, a.files \subseteq c.files
    PROVE  Overlapping(c, b)
<1>1. Rivals(c, b)
  BY DEF Overlapping, Rivals
<1>2. PICK f \in a.files \cap b.files :
        ClassifyConflictFile(f) \in {"source", "package", "critical"}
  BY PairRiskThreshold DEF Overlapping
<1>3. f \in c.files \cap b.files
  BY <1>2
<1>4. ComputePairRiskScore(c.files, b.files).riskScore >= 50
  BY <1>2, <1>3, PairRiskThreshold
<1> QED  BY <1>1, <1>4 DEF Overlapping

(* A sync keeps everything of the lease but its files, and they grow. *)
LEMMA SyncFiles ==
    ASSUME CMTypeOK, NEW r, NEW b, NEW t, NEW fs \in FileSets, SyncChangedFiles(r, b, t, fs)
    PROVE  \E l \in LeaseIds :
             /\ LeaseIds' = LeaseIds
             /\ branchLeases'[l].owner = branchLeases[l].owner
             /\ branchLeases'[l].repo = branchLeases[l].repo
             /\ branchLeases'[l].status = branchLeases[l].status
             /\ branchLeases[l].files \subseteq branchLeases'[l].files
             /\ \A k \in LeaseIds \ {l} : branchLeases'[k] = branchLeases[k]
             /\ RefreshMergeQueueEntriesForLease(branchLeases', mergeSimulations, l)
<1>1. PICK l \in LeaseIds : ExtendLeaseFiles(l, fs)
  BY DEF SyncChangedFiles
<1>2. branchLeases' = [branchLeases EXCEPT ![l].files = @ \cup fs]
      /\ RefreshMergeQueueEntriesForLease(branchLeases', mergeSimulations, l)
  BY <1>1 DEF ExtendLeaseFiles
<1>3. l \in DOMAIN branchLeases /\ branchLeases[l] \in LeaseType
  BY DEF CMTypeOK, LeaseIds
<1>4. /\ DOMAIN branchLeases' = DOMAIN branchLeases
      /\ branchLeases'[l] = [branchLeases[l] EXCEPT !.files = @ \cup fs]
      /\ \A k \in LeaseIds \ {l} : branchLeases'[k] = branchLeases[k]
  BY <1>2, <1>3 DEF LeaseIds
<1>5. /\ branchLeases'[l].owner = branchLeases[l].owner
      /\ branchLeases'[l].repo = branchLeases[l].repo
      /\ branchLeases'[l].status = branchLeases[l].status
      /\ branchLeases[l].files \subseteq branchLeases'[l].files
  BY <1>3, <1>4 DEF LeaseType
<1>6. LeaseIds' = LeaseIds
  BY <1>4 DEF LeaseIds
<1> QED  BY <1>2, <1>4, <1>5, <1>6

LEMMA JoinStep ==
    ASSUME CMTypeOK, LeasesBounded, LeasesBounded', CMTypeOK',
           NEW o, NEW r, NEW b, NEW fs, LeaseBranch(o, r, b, fs)
    PROVE  Gate!GateNext
<1>1. PICK n \in Nat :
        /\ n \notin LeaseIds /\ LeaseIds' = LeaseIds \cup {n}
        /\ \A k \in LeaseIds : branchLeases'[k] = branchLeases[k]
        /\ branchLeases'[n].status = "active"
        /\ \A e \in EntryIds : mergeQueueEntries[e].lease # n
        /\ EntryIds' = EntryIds /\ UNCHANGED mergeQueueEntries
  BY LeaseBranchEffect
<1>2. n \in 1..MaxLeases
  <2>1. n \in LeaseIds'
    BY <1>1
  <2>2. LeaseIds' = 1..Len(branchLeases') /\ Len(branchLeases') \in Nat
    BY DEF LeaseIds, CMTypeOK
  <2> QED  BY <2>1, <2>2, BoundsAssumption DEF LeasesBounded
<1>3. ActiveLeases' = ActiveLeases \cup {n}
  BY <1>1 DEF ActiveLeases
<1>4. GateState[n] = "absent" /\ GateState' = [GateState EXCEPT ![n] = "active"]
  BY <1>1, <1>2 DEF GateState
<1>5. Gate!OverlapGrows(n)
  <2>1. GateOverlap \subseteq GateOverlap'
    BY <1>1, <1>3 DEF GateOverlap, ActiveLeases
  <2>2. ASSUME NEW p \in GateOverlap' \ GateOverlap PROVE n \in {p[1], p[2]}
    BY <1>1, <1>3 DEF GateOverlap, ActiveLeases
  <2>3. \A p \in GateOverlap' \ GateOverlap : ~Gate!Alone(n, {p})
    BY <2>2 DEF Gate!Alone
  <2> QED  BY <2>1, <2>3 DEF Gate!OverlapGrows
<1>6. UNCHANGED GateReady
  <2>1. \A k : Cleared(k)' <=> Cleared(k)
    BY <1>1 DEF Cleared
  <2>2. ~Cleared(n)
    BY <1>1 DEF Cleared
  <2> QED  BY <1>3, <2>1, <2>2 DEF GateReady
<1>7. Gate!Join(n)
  BY <1>4, <1>5, <1>6 DEF Gate!Join
<1> QED  BY <1>2, <1>7 DEF Gate!GateNext

LEMMA EndStep ==
    ASSUME CMTypeOK, LeasesBounded, NEW e \in EntryIds, MarkMerged(e) \/ CancelEntry(e)
    PROVE  [Gate!GateNext]_(Gate!gateVars)
<1> DEFINE m == mergeQueueEntries[e].lease
<1>1. /\ m \in LeaseIds /\ LeaseIds' = LeaseIds
      /\ branchLeases'[m].status = "released"
      /\ \A k \in LeaseIds \ {m} : branchLeases'[k] = branchLeases[k]
      /\ EntryIds' = EntryIds
      /\ mergeQueueEntries'[e].lease = m
      /\ \A d \in EntryIds \ {e} : mergeQueueEntries'[d] = mergeQueueEntries[d]
  BY SettleStep
<1>2. m \in 1..MaxLeases
  BY <1>1, BoundsAssumption DEF LeaseIds, LeasesBounded, CMTypeOK
<1>3. \A k : k # m => (Cleared(k)' <=> Cleared(k))
  BY <1>1 DEF Cleared
<1> HIDE DEF m
<1>4. ActiveLeases' = ActiveLeases \ {m}
  BY <1>1 DEF ActiveLeases
<1>5. GateReady' = GateReady \ {m}
  BY <1>3, <1>4 DEF GateReady
<1>6. GateOverlap' = {p \in GateOverlap : Gate!Alone(m, {p})}
  <2>1. ASSUME NEW p PROVE p \in GateOverlap' <=> p \in GateOverlap /\ m \notin {p[1], p[2]}
    BY <1>1, <1>4 DEF GateOverlap, ActiveLeases
  <2>2. \A p : Gate!Alone(m, {p}) <=> m \notin {p[1], p[2]}
    BY DEF Gate!Alone
  <2> QED  BY <2>1, <2>2
<1>7. CASE m \in ActiveLeases
  <2>1. GateState[m] = "active" /\ GateState' = [GateState EXCEPT ![m] = "ended"]
    BY <1>1, <1>2, <1>7 DEF GateState, ActiveLeases
  <2>2. Gate!End(m)
    BY <1>5, <1>6, <2>1 DEF Gate!End
  <2> QED  BY <1>2, <2>2 DEF Gate!GateNext
<1>8. CASE m \notin ActiveLeases
  <2>1. UNCHANGED GateState
    BY <1>1, <1>8 DEF GateState, ActiveLeases
  <2>2. UNCHANGED GateReady
    BY <1>5, <1>8 DEF GateReady
  <2>3. UNCHANGED GateOverlap
    <3>1. \A p \in GateOverlap : Gate!Alone(m, {p})
      BY <1>8 DEF GateOverlap, Gate!Alone
    <3> QED  BY <1>6, <3>1
  <2> QED  BY <2>1, <2>2, <2>3 DEF Gate!gateVars
<1> QED  BY <1>7, <1>8

LEMMA SyncStep ==
    ASSUME CMTypeOK, LeasesBounded,
           NEW r, NEW b, NEW t, NEW fs \in FileSets, SyncChangedFiles(r, b, t, fs)
    PROVE  [Gate!GateNext]_(Gate!gateVars)
<1>1. PICK m \in LeaseIds :
        /\ LeaseIds' = LeaseIds
        /\ branchLeases'[m].owner = branchLeases[m].owner
        /\ branchLeases'[m].repo = branchLeases[m].repo
        /\ branchLeases'[m].status = branchLeases[m].status
        /\ branchLeases[m].files \subseteq branchLeases'[m].files
        /\ \A k \in LeaseIds \ {m} : branchLeases'[k] = branchLeases[k]
        /\ RefreshMergeQueueEntriesForLease(branchLeases', mergeSimulations, m)
  BY SyncFiles
<1>2. UNCHANGED GateState /\ UNCHANGED ActiveLeases
  BY <1>1, MappedState
<1>3. DOMAIN branchLeases' = LeaseIds
  BY <1>1 DEF LeaseIds
<1>4. /\ \A k \in LeaseIds : Overlapping(branchLeases'[m], branchLeases'[k]) => ~Cleared(m)'
      /\ \A k : k # m => (Cleared(k)' <=> Cleared(k))
  BY <1>1, <1>3, RefreshedLease DEF CMTypeOK
<1>5. Gate!OverlapGrows(m)
  <2>1. ASSUME NEW k \in ActiveLeases, NEW l \in ActiveLeases,
               Overlapping(branchLeases[k], branchLeases[l])
        PROVE  Overlapping(branchLeases'[k], branchLeases'[l])
    <3>1. k \in LeaseIds /\ l \in LeaseIds /\ k # l
      BY <2>1, OverlapSymmetric DEF ActiveLeases
    <3>2. CASE k = m
      <4>1. branchLeases'[l] = branchLeases[l]
        BY <1>1, <3>1, <3>2
      <4> QED  BY <1>1, <2>1, <3>2, <4>1, OverlapMonotone
    <3>3. CASE l = m
      <4>1. branchLeases'[k] = branchLeases[k]
        BY <1>1, <3>1, <3>3
      <4>2. Overlapping(branchLeases[l], branchLeases[k])
        BY <2>1, OverlapSymmetric
      <4>3. Overlapping(branchLeases'[l], branchLeases[k])
        BY <1>1, <3>3, <4>2, OverlapMonotone
      <4> QED  BY <4>1, <4>3, OverlapSymmetric
    <3>4. CASE k # m /\ l # m
      BY <1>1, <2>1, <3>1, <3>4
    <3> QED  BY <3>2, <3>3, <3>4
  <2>2. GateOverlap \subseteq GateOverlap'
    BY <1>2, <2>1 DEF GateOverlap
  <2>3. ASSUME NEW p \in GateOverlap' \ GateOverlap PROVE m \in {p[1], p[2]}
    BY <1>1, <1>2 DEF GateOverlap, ActiveLeases
  <2>4. \A p \in GateOverlap' \ GateOverlap : ~Gate!Alone(m, {p})
    BY <2>3 DEF Gate!Alone
  <2> QED  BY <2>2, <2>4 DEF Gate!OverlapGrows
<1>6. CASE m \in ActiveLeases
  <2>1. m \in 1..MaxLeases /\ GateState[m] = "active"
    BY <1>6, BoundsAssumption DEF ActiveLeases, GateState, LeaseIds, LeasesBounded, CMTypeOK
  <2>2. CASE Cleared(m)'
    <3>1. GateReady' = GateReady \cup {m}
      BY <1>2, <1>4, <1>6, <2>2 DEF GateReady
    <3>2. Gate!Alone(m, GateOverlap')
      <4> SUFFICES ASSUME NEW p \in GateOverlap', m \in {p[1], p[2]} PROVE FALSE
        BY DEF Gate!Alone
      <4>1. /\ p[1] \in LeaseIds /\ p[2] \in LeaseIds
            /\ Overlapping(branchLeases'[p[1]], branchLeases'[p[2]])
        BY <1>1, <1>2 DEF GateOverlap, ActiveLeases
      <4> QED  BY <1>4, <2>2, <4>1, OverlapSymmetric
    <3>3. Gate!Judge(m)
      BY <1>2, <1>5, <2>1, <3>1, <3>2 DEF Gate!Judge
    <3> QED  BY <2>1, <3>3 DEF Gate!GateNext
  <2>3. CASE ~Cleared(m)'
    <3>1. GateReady' = GateReady \ {m}
      BY <1>2, <1>4, <1>6, <2>3 DEF GateReady
    <3>2. Gate!Judge(m)
      BY <1>2, <1>5, <2>1, <3>1 DEF Gate!Judge
    <3> QED  BY <2>1, <3>2 DEF Gate!GateNext
  <2> QED  BY <2>2, <2>3
<1>7. CASE m \notin ActiveLeases
  <2>1. UNCHANGED GateOverlap
    BY <1>1, <1>2, <1>7 DEF GateOverlap, ActiveLeases
  <2>2. UNCHANGED GateReady
    BY <1>2, <1>4, <1>7 DEF GateReady
  <2> QED  BY <1>2, <2>1, <2>2 DEF Gate!gateVars
<1> QED  BY <1>6, <1>7

LEMMA GateStep ==
    CMTypeOK /\ LeasesBounded /\ [CMNext]_cmVars => [Gate!GateNext]_(Gate!gateVars)
<1> SUFFICES ASSUME CMTypeOK, LeasesBounded, [CMNext]_cmVars
             PROVE  [Gate!GateNext]_(Gate!gateVars)
  OBVIOUS
<1>0. CMTypeOK' /\ LeasesBounded'
  BY TypeStep, BoundedStep
<1>1. ASSUME NEW o, NEW r, NEW b, NEW fs, LeaseBranch(o, r, b, fs)
      PROVE  [Gate!GateNext]_(Gate!gateVars)
  BY <1>0, <1>1, JoinStep
<1>2. ASSUME NEW m \in LeaseIds \cup {GhostLease}, EnqueuePullRequest(m)
      PROVE  [Gate!GateNext]_(Gate!gateVars)
  <2>1. PICK n \in Nat :
          /\ EntryIds' = EntryIds \cup {n}
          /\ \A e \in EntryIds : mergeQueueEntries'[e] = mergeQueueEntries[e]
          /\ mergeQueueEntries'[n].lease = m
          /\ mergeQueueEntries'[n].status =
               MergeQueueFieldsForLease(branchLeases, mergeSimulations, m).status
          /\ LeaseIds' = LeaseIds /\ UNCHANGED branchLeases
    BY <1>2, EnqueueEffect
  <2>2. \A k : k # m => (Cleared(k)' <=> Cleared(k))
    BY <2>1 DEF Cleared
  <2>3. ASSUME m \in LeaseIds, Cleared(m)', ~Cleared(m), NEW k \in LeaseIds,
               Overlapping(branchLeases[m], branchLeases[k])
        PROVE  FALSE
    <3>1. mergeQueueEntries'[n].status = "ready"
      BY <2>1, <2>3 DEF Cleared
    <3>2. MergeQueueFieldsForLease(branchLeases, mergeSimulations, m).status = "blocked"
      BY <2>3, QueueFields, OverlapSymmetric DEF CMTypeOK, LeaseIds
    <3> QED  BY <2>1, <3>1, <3>2
  <2> QED  BY <2>1, <2>2, <2>3, JudgeOrStutter
<1>3. ASSUME NEW m \in LeaseIds \cup {NoLease}, NEW s \in SimulationStatuses,
             NEW id \in SimulationIds, Simulate(m, s, id)
      PROVE  [Gate!GateNext]_(Gate!gateVars)
  <2>1. /\ UNCHANGED branchLeases /\ LeaseIds' = LeaseIds /\ EntryIds' = EntryIds
        /\ mergeSimulations' \in Seq(SimulationType)
        /\ \/ RefreshMergeQueueEntriesForLease(branchLeases, mergeSimulations', m)
           \/ UNCHANGED mergeQueueEntries
    BY <1>3, SimulateEffect
  <2>2. CASE UNCHANGED mergeQueueEntries
    <3>1. \A k : Cleared(k)' <=> Cleared(k)
      BY <2>2 DEF Cleared, EntryIds
    <3> QED  BY <2>1, <3>1, JudgeOrStutter
  <2>3. CASE RefreshMergeQueueEntriesForLease(branchLeases, mergeSimulations', m)
             /\ m \in LeaseIds
    <3>1. /\ \A j \in LeaseIds : Overlapping(branchLeases[m], branchLeases[j]) => ~Cleared(m)'
          /\ \A i : i # m => (Cleared(i)' <=> Cleared(i))
      BY <2>1, <2>3, RefreshedLease DEF LeaseIds
    <3> QED  BY <2>1, <3>1, JudgeOrStutter
  <2>4. CASE RefreshMergeQueueEntriesForLease(branchLeases, mergeSimulations', m)
             /\ m \notin LeaseIds
    <3>1. UNCHANGED mergeQueueEntries
      BY <1>3, <2>1, <2>4 DEF Simulate, RecordMergeSimulation, NoLease
    <3> QED  BY <2>2, <3>1
  <2> QED  BY <2>1, <2>2, <2>3, <2>4
<1>4. ASSUME NEW e \in EntryIds, MarkMerged(e) \/ CancelEntry(e)
      PROVE  [Gate!GateNext]_(Gate!gateVars)
  BY <1>4, EndStep
<1>5. ASSUME NEW r, NEW b, NEW t, NEW fs \in FileSets, SyncChangedFiles(r, b, t, fs)
      PROVE  [Gate!GateNext]_(Gate!gateVars)
  BY <1>5, SyncStep
<1>6. CASE Tick \/ UNCHANGED cmVars
  <2>1. UNCHANGED <<branchLeases, mergeQueueEntries>> /\ LeaseIds' = LeaseIds
    BY <1>6 DEF Tick, cmVars, LeaseIds
  <2>2. \A k : Cleared(k)' <=> Cleared(k)
    BY <2>1 DEF Cleared, EntryIds
  <2> QED  BY <2>1, <2>2, JudgeOrStutter
<1> QED  BY <1>1, <1>2, <1>3, <1>4, <1>5, <1>6 DEF CMNext

(* The conflict manager implements MergeGate for any number of leases,     *)
(* simulations and entries: every operation of the store decides about at  *)
(* most one branch, makes it ready only while it overlaps no active one,   *)
(* and a settled branch takes only itself out.                             *)
THEOREM StoreImplementsGate == CMSpec => ImplementsGate
<1>1. CMInit => Gate!GateInit
  <2> SUFFICES ASSUME CMInit PROVE Gate!GateInit
    OBVIOUS
  <2>1. LeaseIds = {} /\ ActiveLeases = {}
    BY DEF CMInit, LeaseIds, ActiveLeases
  <2>2. GateState = [l \in 1..MaxLeases |-> "absent"]
    BY <2>1 DEF GateState
  <2>3. GateOverlap = {} /\ GateReady = {}
    BY <2>1 DEF GateOverlap, GateReady
  <2> QED  BY <2>2, <2>3 DEF Gate!GateInit
<1>2. CMInit => LeasesBounded
  BY BoundsAssumption DEF CMInit, LeasesBounded
<1> QED  BY <1>1, <1>2, TypeInit, TypeStep, BoundedStep, GateStep, PTL
         DEF CMSpec, ImplementsGate, Gate!GateSpec

(***************************************************************************)
(* The status machine                                                      *)
(***************************************************************************)

(* The transitions the workflow relies on, read off the table. *)
LEMMA TransitionFacts ==
    ASSUME NEW s \in TaskStatuses
    PROVE  /\ CanTransitionTaskStatus(s, "branch_created") <=> s \in {"queued", "branch_created"}
           /\ CanTransitionTaskStatus(s, "planned") <=> s \in {"draft", "planned"}
           /\ CanTransitionTaskStatus(s, "completed") <=> s \in {"pr_draft_ready", "merged", "completed"}
BY DEF TaskStatuses, CanTransitionTaskStatus, TaskTransitions

(***************************************************************************)
(* Types                                                                   *)
(***************************************************************************)

RunType ==
    [task : KnownTasks, attempt : Nat, status : TaskRunStatuses,
     origin : {"workflow", "endpoint"}, entry : Nat]

RequestType ==
    [pc : AwaitPoints \cup {"idle"}, task : KnownTasks \cup {NoTask},
     run : Nat, lease : Nat, files : SUBSET Files, passed : BOOLEAN, conflict : BOOLEAN]

LEMMA TypeParts ==
    TypeOK <=> /\ tasks \in [KnownTasks -> TaskStatuses \cup {"absent"}]
               /\ taskRuns \in Seq(RunType)
               /\ requests \in [Requests -> RequestType]
BY DEF TypeOK, RunType, RequestType

LEMMA IdleType == IdleRequest \in RequestType
BY DEF IdleRequest, RequestType, NoRun, NoLease

(* The number of the next attempt is a natural. *)
LEMMA AttemptType ==
    ASSUME TypeOK, NEW t PROVE NextAttempt(t) \in Nat
<1> DEFINE rs == {r \in RunIds : taskRuns[r].task = t}
<1>1. taskRuns \in Seq(RunType)
  BY TypeParts
<1>2. RunIds = 1..Len(taskRuns) /\ Len(taskRuns) \in Nat
  BY <1>1 DEF RunIds
<1>3. IsFiniteSet(RunIds)
  BY <1>2, FS_Interval
<1>4. IsFiniteSet(rs)
  BY <1>3, FS_Subset
<1>5. Cardinality(rs) \in Nat
  BY <1>4, FS_CardinalityType
<1> QED  BY <1>5 DEF NextAttempt

(***************************************************************************)
(* The inductive invariant                                                 *)
(***************************************************************************)

RunPoints == {"agentRun", "recordUsage", "simulate", "runTests", "createPullRequest"}
LeasePoints == {"simulate", "runTests", "createPullRequest"}

(* What the local variables of a handler mean at the call it awaits. *)
RequestOK(x) ==
    /\ x.pc # "idle" => x.task \in KnownTasks
    /\ x.pc = "recordUsage" => x.files \in FileSets
    /\ x.pc \in RunPoints =>
          /\ x.run \in RunIds
          /\ taskRuns[x.run].task = x.task
          /\ taskRuns[x.run].origin = "workflow"
          /\ taskRuns[x.run].status = "running"
    /\ x.pc = "runAgent" => x.run \in RunIds /\ taskRuns[x.run].origin = "endpoint"
    /\ x.pc \in LeasePoints =>
          /\ x.lease \in LeaseIds
          /\ branchLeases[x.lease].owner = [task |-> x.task, run |-> x.run]

RequestsOK == \A q \in Requests : RequestOK(requests[q])

(* Two requests never work on the same run. *)
RunsApart ==
    \A q, p \in Requests :
        (q # p /\ requests[q].pc \in RunPoints /\ requests[p].pc \in RunPoints)
        => requests[q].run # requests[p].run

RunsBounded == Len(taskRuns) <= MaxRuns

RequestInv == TypeOK /\ CMTypeOK /\ RequestsOK /\ RunsApart /\ RunsBounded

(***************************************************************************)
(* Steps of the workflow as steps of the conflict manager                  *)
(***************************************************************************)

LEMMA StoreStep == RequestInv /\ [Next]_vars => [CMNext]_cmVars
<1> SUFFICES ASSUME RequestInv, [Next]_vars PROVE [CMNext]_cmVars
  OBVIOUS
<1> USE WorkflowAssumption
<1>1. ASSUME UNCHANGED cmVars PROVE [CMNext]_cmVars
  BY <1>1
<1>2. ASSUME NEW q \in Requests, LeaseChanges(q) PROVE CMNext
  <2> DEFINE t == requests[q].task
             o == [task |-> t, run |-> requests[q].run]
  <2>1. /\ CreateBranchLease(o, RepoOf[t], BranchOf[t], requests[q].files)
        /\ UNCHANGED <<mergeSimulations, mergeQueueEntries, taskRisk, clock>>
        /\ requests[q].pc = "recordUsage"
    BY <1>2 DEF LeaseChanges, Awaiting
  <2>2. /\ t \in KnownTasks /\ requests[q].files \in FileSets /\ requests[q].run \in RunIds
    BY <2>1 DEF RequestInv, RequestsOK, RequestOK, RunPoints
  <2>3. requests[q].run \in 1..MaxRuns
    BY <2>2 DEF RequestInv, RunsBounded, RunIds, TypeOK
  <2>4. o \in Owners /\ RepoOf[t] \in Repos /\ BranchOf[t] \in Branches
    BY <2>2, <2>3
  <2>5. LeaseBranch(o, RepoOf[t], BranchOf[t], requests[q].files)
    BY <2>1 DEF LeaseBranch
  <2> QED  BY <2>2, <2>4, <2>5 DEF CMNext
<1>3. ASSUME NEW q \in Requests, NEW s \in SimulationStatuses, NEW id \in SimulationIds,
             SimulationReturns(q, s, id)
      PROVE  CMNext
  <2>1. /\ requests[q].pc = "simulate" /\ RecordMergeSimulation(requests[q].lease, s, id)
        /\ UNCHANGED <<branchLeases, clock>>
    BY <1>3 DEF SimulationReturns, Awaiting
  <2>2. requests[q].lease \in LeaseIds
    BY <2>1 DEF RequestInv, RequestsOK, RequestOK, LeasePoints
  <2>3. Simulate(requests[q].lease, s, id)
    BY <2>1, <2>2 DEF Simulate
  <2> QED  BY <2>2, <2>3 DEF CMNext
<1>4. ASSUME NEW q \in Requests, QueuePullRequest(q) PROVE CMNext
  <2>1. /\ requests[q].pc = "createPullRequest" /\ CreateMergeQueueEntry(requests[q].lease)
        /\ UNCHANGED <<branchLeases, mergeSimulations, taskRisk, clock>>
    BY <1>4 DEF QueuePullRequest, Awaiting
  <2>2. requests[q].lease \in LeaseIds
    BY <2>1 DEF RequestInv, RequestsOK, RequestOK, LeasePoints
  <2>3. EnqueuePullRequest(requests[q].lease)
    BY <2>1, <2>2 DEF EnqueuePullRequest
  <2> QED  BY <2>2, <2>3 DEF CMNext
<1>5. ASSUME ConflictManagerStep PROVE CMNext
  <2>1. ASSUME NEW t \in KnownTasks \cup {NoTask}
        PROVE  t \in {NoTask} \cup {o.task : o \in Owners}
    <3>1. t \in KnownTasks => [task |-> t, run |-> 1] \in Owners
      OBVIOUS
    <3>2. [task |-> t, run |-> 1].task = t
      OBVIOUS
    <3> QED  BY <3>1, <3>2
  <2>2. ASSUME NEW r \in Repos, NEW b \in Branches, NEW t \in KnownTasks \cup {NoTask},
               NEW fs \in FileSets, SyncChangedFiles(r, b, t, fs)
        PROVE  CMNext
    BY <2>1, <2>2 DEF CMNext
  <2>3. ASSUME NEW o \in KnownOwners, NEW r \in Repos, NEW b \in Branches, NEW fs \in FileSets,
               LeaseBranch(o, r, b, fs)
        PROVE  CMNext
    BY <2>3 DEF CMNext, KnownOwners
  <2>4. ASSUME NEW l \in LeaseIds \cup {GhostLease}, EnqueuePullRequest(l) PROVE CMNext
    BY <2>4 DEF CMNext
  <2>5. ASSUME NEW l \in LeaseIds, NEW s \in SimulationStatuses, NEW id \in SimulationIds,
               Simulate(l, s, id)
        PROVE  CMNext
    BY <2>5 DEF CMNext
  <2>6. ASSUME NEW e \in EntryIds, MarkMerged(e) \/ CancelEntry(e) PROVE CMNext
    BY <2>6 DEF CMNext
  <2>7. Tick => CMNext
    BY DEF CMNext
  <2> QED  BY <1>5, <2>2, <2>3, <2>4, <2>5, <2>6, <2>7 DEF ConflictManagerStep
<1>6. ASSUME NEW q \in Requests, WorkflowStep(q) \/ ProviderThrows(q)
      PROVE  [CMNext]_cmVars
  BY <1>1, <1>2, <1>3, <1>4, <1>6
     DEF WorkflowStep, ProviderThrows, BlockByPolicy, ClaimTask, RefuseClaim, BeginRun,
         RefuseRun, AgentReturns, TestsFail, TestsPass, AgentRunReturns
<1>7. ASSUME NEW q \in Requests, NEW t \in KnownTasks, StartRun(q, t) \/ StartAgentRun(q, t)
      PROVE  [CMNext]_cmVars
  BY <1>1, <1>7 DEF StartRun, StartAgentRun
<1>8. ASSUME NEW t \in KnownTasks, CreateTask(t) \/ StartTask(t) PROVE [CMNext]_cmVars
  BY <1>1, <1>8 DEF CreateTask, StartTask
<1>9. ASSUME NEW t \in KnownTasks, NEW s \in TaskStatuses, WriteStatus(t, s)
      PROVE  [CMNext]_cmVars
  BY <1>1, <1>9 DEF WriteStatus
<1>10. UNCHANGED vars => UNCHANGED cmVars
  BY DEF vars
<1> QED  BY <1>1, <1>5, <1>6, <1>7, <1>8, <1>9, <1>10 DEF Next

(* A store step keeps the leases with their owners and the entries with    *)
(* their leases.                                                           *)
LEMMA StoreKeeps ==
    ASSUME CMTypeOK, [CMNext]_cmVars
    PROVE  /\ LeaseIds \subseteq LeaseIds'
           /\ \A l \in LeaseIds : branchLeases'[l].owner = branchLeases[l].owner
           /\ EntryIds \subseteq EntryIds'
           /\ \A e \in EntryIds : mergeQueueEntries'[e].lease = mergeQueueEntries[e].lease
<1> DEFINE Kept == /\ LeaseIds \subseteq LeaseIds'
                   /\ \A l \in LeaseIds : branchLeases'[l].owner = branchLeases[l].owner
                   /\ EntryIds \subseteq EntryIds'
                   /\ \A e \in EntryIds : mergeQueueEntries'[e].lease = mergeQueueEntries[e].lease
<1>1. ASSUME NEW o, NEW r, NEW b, NEW fs, LeaseBranch(o, r, b, fs) PROVE Kept
  BY <1>1, LeaseBranchEffect
<1>2. ASSUME NEW m \in LeaseIds \cup {GhostLease}, EnqueuePullRequest(m) PROVE Kept
  BY <1>2, EnqueueEffect
<1>3. ASSUME NEW m \in LeaseIds \cup {NoLease}, NEW s \in SimulationStatuses,
             NEW id \in SimulationIds, Simulate(m, s, id)
      PROVE  Kept
  <2>1. /\ UNCHANGED branchLeases /\ LeaseIds' = LeaseIds /\ EntryIds' = EntryIds
        /\ mergeSimulations' \in Seq(SimulationType)
        /\ \/ RefreshMergeQueueEntriesForLease(branchLeases, mergeSimulations', m)
           \/ UNCHANGED mergeQueueEntries
    BY <1>3, SimulateEffect
  <2>2. CASE RefreshMergeQueueEntriesForLease(branchLeases, mergeSimulations', m)
    BY <2>1, <2>2, RefreshKeepsLive
  <2>3. CASE UNCHANGED mergeQueueEntries
    BY <2>1, <2>3
  <2> QED  BY <2>1, <2>2, <2>3
<1>4. ASSUME NEW e \in EntryIds, MarkMerged(e) \/ CancelEntry(e) PROVE Kept
  BY <1>4, SettleStep
<1>5. ASSUME NEW r, NEW b, NEW t, NEW fs \in FileSets, SyncChangedFiles(r, b, t, fs) PROVE Kept
  <2>1. PICK m \in LeaseIds :
          /\ LeaseIds' = LeaseIds /\ EntryIds' = EntryIds
          /\ branchLeases'[m].owner = branchLeases[m].owner
          /\ \A j \in LeaseIds \ {m} : branchLeases'[j] = branchLeases[j]
          /\ RefreshMergeQueueEntriesForLease(branchLeases', mergeSimulations, m)
    BY <1>5, SyncEffect
  <2>2. mergeSimulations \in Seq(SimulationType)
    BY DEF CMTypeOK
  <2>3. \A e \in EntryIds : mergeQueueEntries'[e].lease = mergeQueueEntries[e].lease
    BY <2>1, <2>2, RefreshKeepsLive
  <2> QED  BY <2>1, <2>3
<1>6. CASE Tick \/ UNCHANGED cmVars
  BY <1>6 DEF Tick, cmVars, LeaseIds, EntryIds
<1> QED  BY <1>1, <1>2, <1>3, <1>4, <1>5, <1>6 DEF CMNext

(***************************************************************************)
(* The invariant is kept                                                   *)
(***************************************************************************)

LEMMA ContinueEffect ==
    ASSUME requests \in [Requests -> RequestType], NEW q \in Requests, NEW x \in RequestType,
           Continue(q, x)
    PROVE  /\ requests' \in [Requests -> RequestType]
           /\ requests'[q] = x
           /\ \A p \in Requests \ {q} : requests'[p] = requests[p]
BY DEF Continue

(* What a step may do to the runs: none is lost or changes hands, and only *)
(* the request's own run changes its status.                               *)
RunsKept(q) ==
    /\ \A r \in RunIds : /\ r \in RunIds'
                         /\ taskRuns'[r].task = taskRuns[r].task
                         /\ taskRuns'[r].origin = taskRuns[r].origin
    /\ \/ \A r \in RunIds : taskRuns'[r].status = taskRuns[r].status
       \/ /\ requests[q].pc \in RunPoints \cup {"runAgent"}
          /\ \A r \in RunIds \ {requests[q].run} : taskRuns'[r].status = taskRuns[r].status

(* A step of one request keeps the invariant if the request itself is left *)
(* as it should be: what the other requests hold is not touched.           *)
LEMMA RequestChanges ==
    ASSUME RequestInv, [CMNext]_cmVars, NEW q \in Requests,
           tasks' \in [KnownTasks -> TaskStatuses \cup {"absent"}],
           taskRuns' \in Seq(RunType), requests' \in [Requests -> RequestType],
           \A p \in Requests \ {q} : requests'[p] = requests[p],
           RunsKept(q), RunsBounded',
           RequestOK(requests[q])',
           requests'[q].pc \in RunPoints =>
               \/ requests[q].pc \in RunPoints /\ requests'[q].run = requests[q].run
               \/ requests'[q].run \notin RunIds
    PROVE  RequestInv'
<1>1. TypeOK' /\ CMTypeOK'
  BY TypeStep DEF RequestInv, TypeOK, RunType, RequestType
<1>2. ASSUME NEW p \in Requests, p # q PROVE RequestOK(requests[p])'
  <2>1. requests'[p] = requests[p] /\ RequestOK(requests[p])
    BY <1>2 DEF RequestInv, RequestsOK
  <2>2. /\ LeaseIds \subseteq LeaseIds'
        /\ \A l \in LeaseIds : branchLeases'[l].owner = branchLeases[l].owner
    BY StoreKeeps DEF RequestInv
  <2>3. requests[p].pc \in RunPoints => taskRuns'[requests[p].run].status = "running"
    <3> SUFFICES ASSUME requests[p].pc \in RunPoints
                 PROVE  taskRuns'[requests[p].run].status = "running"
      OBVIOUS
    <3>1. /\ requests[p].run \in RunIds /\ taskRuns[requests[p].run].origin = "workflow"
          /\ taskRuns[requests[p].run].status = "running"
      BY <2>1 DEF RequestOK
    <3>2. requests[q].pc \in RunPoints => requests[q].run # requests[p].run
      BY <1>2 DEF RequestInv, RunsApart
    <3>3. requests[q].pc = "runAgent" => requests[q].run # requests[p].run
      BY <3>1 DEF RequestInv, RequestsOK, RequestOK
    <3> QED  BY <3>1, <3>2, <3>3 DEF RunsKept
  <2> QED  BY <2>1, <2>2, <2>3 DEF RequestOK, RunsKept
<1>3. RequestsOK'
  BY <1>2 DEF RequestsOK
<1>4. RunsApart'
  <2>1. ASSUME NEW p \in Requests, p # q, requests[p].pc \in RunPoints, requests'[q].pc \in RunPoints
        PROVE  requests'[q].run # requests[p].run
    <3>1. requests[p].run \in RunIds
      BY <2>1 DEF RequestInv, RequestsOK, RequestOK
    <3>2. requests[q].pc \in RunPoints => requests[q].run # requests[p].run
      BY <2>1 DEF RequestInv, RunsApart
    <3> QED  BY <2>1, <3>1, <3>2
  <2>2. ASSUME NEW a \in Requests, NEW b \in Requests, a # b,
               requests'[a].pc \in RunPoints, requests'[b].pc \in RunPoints
        PROVE  requests'[a].run # requests'[b].run
    <3>1. CASE a = q
      BY <2>1, <2>2, <3>1
    <3>2. CASE b = q
      BY <2>1, <2>2, <3>2
    <3>3. CASE a # q /\ b # q
      BY <2>2, <3>3 DEF RequestInv, RunsApart
    <3> QED  BY <3>1, <3>2, <3>3
  <2> QED  BY <2>2 DEF RunsApart
<1> QED  BY <1>1, <1>3, <1>4 DEF RequestInv

(* A request that ends leaves the invariant to the others. *)
LEMMA FinishKeeps ==
    ASSUME RequestInv, [CMNext]_cmVars, NEW q \in Requests, Finish(q),
           tasks' \in [KnownTasks -> TaskStatuses \cup {"absent"}],
           taskRuns' \in Seq(RunType), RunsKept(q), RunsBounded'
    PROVE  RequestInv'
<1>1. requests \in [Requests -> RequestType]
  BY TypeParts DEF RequestInv
<1>2. /\ requests' \in [Requests -> RequestType]
      /\ requests'[q] = IdleRequest
      /\ \A p \in Requests \ {q} : requests'[p] = requests[p]
  BY <1>1, IdleType, ContinueEffect DEF Finish
<1>3. RequestOK(requests[q])' /\ requests'[q].pc \notin RunPoints
  BY <1>2 DEF RequestOK, IdleRequest, RunPoints, LeasePoints
<1> QED  BY <1>2, <1>3, RequestChanges

LEMMA RunsUnchanged ==
    ASSUME RequestInv, UNCHANGED taskRuns, NEW q
    PROVE  taskRuns' \in Seq(RunType) /\ RunsKept(q) /\ RunsBounded' /\ RunIds' = RunIds
BY TypeParts DEF RequestInv, RunsKept, RunsBounded, RunIds

LEMMA StatusSet ==
    ASSUME RequestInv, NEW t, NEW s \in TaskStatuses, SetStatus(t, s)
    PROVE  tasks' \in [KnownTasks -> TaskStatuses \cup {"absent"}]
BY TypeParts DEF RequestInv, SetStatus

(* Closing the request's run. *)
LEMMA RunClosed ==
    ASSUME RequestInv, NEW q \in Requests, requests[q].pc \in RunPoints \cup {"runAgent"},
           NEW s \in TaskRunStatuses, NEW n \in Nat,
           \/ taskRuns' = [taskRuns EXCEPT ![requests[q].run].status = s]
           \/ taskRuns' = [taskRuns EXCEPT ![requests[q].run] =
                              [@ EXCEPT !.status = s, !.entry = n]]
    PROVE  /\ taskRuns' \in Seq(RunType) /\ RunsKept(q) /\ RunsBounded' /\ RunIds' = RunIds
           /\ taskRuns'[requests[q].run].status = s
           /\ \A r \in RunIds \ {requests[q].run} : taskRuns'[r] = taskRuns[r]
<1> DEFINE r == requests[q].run
<1>1. taskRuns \in Seq(RunType) /\ r \in DOMAIN taskRuns
  BY TypeParts DEF RequestInv, RequestsOK, RequestOK, RunIds
<1> HIDE DEF r
<1>2. taskRuns[r] \in RunType
  BY <1>1
<1>3. /\ [taskRuns[r] EXCEPT !.status = s] \in RunType
      /\ [taskRuns[r] EXCEPT !.status = s, !.entry = n] \in RunType
  BY <1>2 DEF RunType
<1>4. PICK x \in RunType : /\ taskRuns' = [taskRuns EXCEPT ![r] = x]
                           /\ x.status = s /\ x.task = taskRuns[r].task
                           /\ x.origin = taskRuns[r].origin
  <2>1. CASE taskRuns' = [taskRuns EXCEPT ![r].status = s]
    BY <1>2, <1>3, <2>1 DEF RunType
  <2>2. CASE taskRuns' = [taskRuns EXCEPT ![r] = [@ EXCEPT !.status = s, !.entry = n]]
    BY <1>2, <1>3, <2>2 DEF RunType
  <2> QED  BY <2>1, <2>2 DEF r
<1>5. /\ taskRuns' \in Seq(RunType) /\ DOMAIN taskRuns' = DOMAIN taskRuns
      /\ Len(taskRuns') = Len(taskRuns)
      /\ taskRuns'[r] = x /\ \A i \in DOMAIN taskRuns \ {r} : taskRuns'[i] = taskRuns[i]
  BY <1>1, <1>4
<1>6. RunIds' = RunIds /\ RunIds = DOMAIN taskRuns
  BY <1>5 DEF RunIds
<1>7. RunsBounded'
  BY <1>5 DEF RequestInv, RunsBounded
<1>8. RunsKept(q)
  BY <1>4, <1>5, <1>6 DEF RunsKept, r
<1> QED  BY <1>4, <1>5, <1>6, <1>7, <1>8 DEF r

(* A new run of a task that exists. *)
LEMMA RunCreated ==
    ASSUME RequestInv, NEW q, NEW t \in KnownTasks, NEW origin \in {"workflow", "endpoint"},
           Len(taskRuns) < MaxRuns, taskRuns' = Append(taskRuns, NewRun(t, origin))
    PROVE  LET n == Len(taskRuns) + 1
           IN  /\ taskRuns' \in Seq(RunType) /\ RunsKept(q) /\ RunsBounded'
               /\ n \in Nat /\ n \notin RunIds /\ RunIds' = RunIds \cup {n}
               /\ \A r \in RunIds : taskRuns'[r] = taskRuns[r]
               /\ taskRuns'[n] = NewRun(t, origin)
<1> DEFINE n == Len(taskRuns) + 1
           x == NewRun(t, origin)
<1>1. taskRuns \in Seq(RunType) /\ RunIds = 1..Len(taskRuns) /\ Len(taskRuns) \in Nat
  BY TypeParts DEF RequestInv, RunIds
<1>2. x \in RunType
  BY AttemptType DEF RequestInv, NewRun, RunType, TaskRunStatuses, NoEntry
<1> HIDE DEF x
<1>3. /\ taskRuns' \in Seq(RunType) /\ Len(taskRuns') = n
      /\ \A r \in 1..Len(taskRuns) : taskRuns'[r] = taskRuns[r]
      /\ taskRuns'[n] = x
  BY <1>1, <1>2 DEF x
<1>4. RunIds' = 1..n
  BY <1>3 DEF RunIds
<1>5. n \in Nat /\ n \notin RunIds /\ RunIds' = RunIds \cup {n}
  BY <1>1, <1>4
<1>6. RunsBounded'
  BY <1>1, <1>3, WorkflowAssumption DEF RunsBounded
<1>7. RunsKept(q)
  BY <1>1, <1>3, <1>5 DEF RunsKept
<1> HIDE DEF n
<1> QED  BY <1>1, <1>3, <1>5, <1>6, <1>7 DEF x, n

(* A request that goes on to its next await without touching a run. *)
LEMMA ContinueKeeps ==
    ASSUME RequestInv, [CMNext]_cmVars, NEW q \in Requests, NEW x \in RequestType,
           Continue(q, x), UNCHANGED taskRuns,
           tasks' \in [KnownTasks -> TaskStatuses \cup {"absent"}],
           RequestOK(requests[q])',
           x.pc \in RunPoints => requests[q].pc \in RunPoints /\ x.run = requests[q].run
    PROVE  RequestInv'
<1>1. requests \in [Requests -> RequestType]
  BY TypeParts DEF RequestInv
<1>2. /\ requests' \in [Requests -> RequestType]
      /\ requests'[q] = x
      /\ \A p \in Requests \ {q} : requests'[p] = requests[p]
  BY <1>1, ContinueEffect
<1>3. taskRuns' \in Seq(RunType) /\ RunsKept(q) /\ RunsBounded'
  BY RunsUnchanged
<1> QED  BY <1>2, <1>3, RequestChanges

LEMMA RequestInit == Init => RequestInv
<1> SUFFICES ASSUME Init PROVE RequestInv
  OBVIOUS
<1>1. CMTypeOK
  BY TypeInit DEF Init
<1>2. TypeOK
  BY IdleType, TypeParts DEF Init
<1>3. RequestsOK /\ RunsApart
  BY DEF Init, RequestsOK, RequestOK, RunsApart, IdleRequest, RunPoints, LeasePoints
<1>4. RunsBounded
  BY WorkflowAssumption DEF Init, RunsBounded
<1> QED  BY <1>1, <1>2, <1>3, <1>4 DEF RequestInv

LEMMA RequestStep == RequestInv /\ [Next]_vars => RequestInv'
<1> SUFFICES ASSUME RequestInv, [Next]_vars PROVE RequestInv'
  OBVIOUS
<1>0. /\ [CMNext]_cmVars
      /\ \A q \in Requests : requests[q] \in RequestType /\ RequestOK(requests[q])
  BY StoreStep, TypeParts DEF RequestInv, RequestsOK
<1>k. /\ LeaseIds \subseteq LeaseIds'
      /\ \A l \in LeaseIds : branchLeases'[l].owner = branchLeases[l].owner
  BY <1>0, StoreKeeps DEF RequestInv
<1>t. tasks \in [KnownTasks -> TaskStatuses \cup {"absent"}]
  BY TypeParts DEF RequestInv
<1>1. ASSUME NEW q \in Requests, BlockByPolicy(q) PROVE RequestInv'
  <2>1. SetStatus(requests[q].task, "policy_blocked") /\ Finish(q) /\ UNCHANGED taskRuns
    BY <1>1 DEF BlockByPolicy
  <2>2. tasks' \in [KnownTasks -> TaskStatuses \cup {"absent"}]
    BY <2>1, StatusSet DEF TaskStatuses
  <2> QED  BY <1>0, <2>1, <2>2, FinishKeeps, RunsUnchanged
<1>2. ASSUME NEW q \in Requests, ClaimTask(q) PROVE RequestInv'
  <2> DEFINE x == [requests[q] EXCEPT !.pc = "createBranch"]
  <2>1. /\ requests[q].pc = "selectModel" /\ SetStatus(requests[q].task, "queued")
        /\ Continue(q, x) /\ UNCHANGED taskRuns
    BY <1>2 DEF ClaimTask, Awaiting
  <2>2. tasks' \in [KnownTasks -> TaskStatuses \cup {"absent"}]
    BY <2>1, StatusSet DEF TaskStatuses
  <2>3. x \in RequestType /\ x.pc = "createBranch" /\ x.task = requests[q].task
    BY <1>0 DEF RequestType, AwaitPoints
  <2>4. requests'[q] = x
    BY <2>1, <2>3, ContinueEffect, TypeParts DEF RequestInv
  <2> HIDE DEF x
  <2>5. RequestOK(requests[q])' /\ x.pc \notin RunPoints
    BY <1>0, <2>1, <2>3, <2>4 DEF RequestOK, RunPoints, LeasePoints
  <2> QED  BY <1>0, <2>1, <2>2, <2>3, <2>5, ContinueKeeps
<1>3. ASSUME NEW q \in Requests, RefuseClaim(q) \/ RefuseRun(q) \/ ProviderThrows(q)
      PROVE  RequestInv'
  <2>1. Finish(q) /\ UNCHANGED <<tasks, taskRuns>>
    BY <1>3 DEF RefuseClaim, RefuseRun, ProviderThrows
  <2> QED  BY <1>0, <1>t, <2>1, FinishKeeps, RunsUnchanged
<1>4. ASSUME NEW q \in Requests, BeginRun(q) PROVE RequestInv'
  <2> DEFINE t == requests[q].task
             n == Len(taskRuns) + 1
             x == [requests[q] EXCEPT !.pc = "agentRun", !.run = n]
  <2>1. /\ requests[q].pc = "createBranch" /\ SetStatus(t, "running")
        /\ Len(taskRuns) < MaxRuns /\ taskRuns' = Append(taskRuns, NewRun(t, "workflow"))
        /\ Continue(q, x)
    BY <1>4 DEF BeginRun, Awaiting
  <2>2. tasks' \in [KnownTasks -> TaskStatuses \cup {"absent"}]
    BY <2>1, StatusSet DEF TaskStatuses
  <2>3. t \in KnownTasks
    BY <1>0, <2>1 DEF RequestOK
  <2>4. /\ taskRuns' \in Seq(RunType) /\ RunsKept(q) /\ RunsBounded'
        /\ n \in Nat /\ n \notin RunIds /\ RunIds' = RunIds \cup {n}
        /\ taskRuns'[n] = NewRun(t, "workflow")
    BY <2>1, <2>3, RunCreated
  <2> HIDE DEF n
  <2>5. x \in RequestType /\ x.pc = "agentRun" /\ x.task = t /\ x.run = n
    BY <1>0, <2>4 DEF RequestType, AwaitPoints
  <2>6. /\ requests' \in [Requests -> RequestType] /\ requests'[q] = x
        /\ \A p \in Requests \ {q} : requests'[p] = requests[p]
    BY <2>1, <2>5, ContinueEffect, TypeParts DEF RequestInv
  <2> HIDE DEF x
  <2>7. RequestOK(requests[q])'
    BY <2>3, <2>4, <2>5, <2>6 DEF RequestOK, RunPoints, LeasePoints, NewRun
  <2> QED  BY <1>0, <2>2, <2>4, <2>5, <2>6, <2>7, RequestChanges
<1>5. ASSUME NEW q \in Requests, NEW fs \in FileSets, NEW passed \in BOOLEAN,
             AgentReturns(q, fs, passed)
      PROVE  RequestInv'
  <2> DEFINE x == [requests[q] EXCEPT !.pc = "recordUsage", !.files = fs, !.passed = passed]
  <2>1. /\ requests[q].pc = "agentRun" /\ Continue(q, x) /\ UNCHANGED <<tasks, taskRuns>>
    BY <1>5 DEF AgentReturns, Awaiting
  <2>2. /\ x \in RequestType /\ x.pc = "recordUsage" /\ x.task = requests[q].task
        /\ x.run = requests[q].run /\ x.files = fs
    BY <1>0, FileSetsOfFiles DEF RequestType, AwaitPoints
  <2>3. requests'[q] = x
    BY <2>1, <2>2, ContinueEffect, TypeParts DEF RequestInv
  <2> HIDE DEF x
  <2>4. RequestOK(requests[q])' /\ requests[q].pc \in RunPoints
    BY <1>0, <2>1, <2>2, <2>3 DEF RequestOK, RunPoints, LeasePoints, RunIds
  <2> QED  BY <1>0, <1>t, <2>1, <2>2, <2>4, ContinueKeeps
<1>6. ASSUME NEW q \in Requests, LeaseChanges(q) PROVE RequestInv'
  <2> DEFINE t == requests[q].task
             n == Len(branchLeases) + 1
             o == [task |-> t, run |-> requests[q].run]
             x == [requests[q] EXCEPT !.pc = "simulate", !.lease = n]
  <2>1. /\ requests[q].pc = "recordUsage" /\ Continue(q, x) /\ UNCHANGED <<tasks, taskRuns>>
        /\ CreateBranchLease(o, RepoOf[t], BranchOf[t], requests[q].files)
    BY <1>6 DEF LeaseChanges, Awaiting
  <2>2. n \in Nat /\ n \in LeaseIds' /\ branchLeases'[n].owner = o
    <3>1. branchLeases \in Seq(LeaseType)
      BY DEF RequestInv, CMTypeOK
    <3> QED  BY <2>1, <3>1 DEF CreateBranchLease, LeaseIds
  <2> HIDE DEF n
  <2>3. /\ x \in RequestType /\ x.pc = "simulate" /\ x.task = t
        /\ x.run = requests[q].run /\ x.lease = n
    BY <1>0, <2>2 DEF RequestType, AwaitPoints
  <2>4. requests'[q] = x
    BY <2>1, <2>3, ContinueEffect, TypeParts DEF RequestInv
  <2> HIDE DEF x
  <2>5. RequestOK(requests[q])' /\ requests[q].pc \in RunPoints
    BY <1>0, <2>1, <2>2, <2>3, <2>4 DEF RequestOK, RunPoints, LeasePoints, RunIds
  <2> QED  BY <1>0, <1>t, <2>1, <2>3, <2>5, ContinueKeeps
<1>7. ASSUME NEW q \in Requests, NEW s \in SimulationStatuses, NEW id \in SimulationIds,
             SimulationReturns(q, s, id)
      PROVE  RequestInv'
  <2> DEFINE t == requests[q].task
             x == [requests[q] EXCEPT !.pc = "runTests", !.conflict = s = "text_conflict"]
  <2>1. /\ requests[q].pc = "simulate" /\ UNCHANGED <<taskRuns, branchLeases>>
        /\ \/ SetStatus(t, "testing") /\ Continue(q, x)
           \/ UNCHANGED tasks /\ Finish(q)
    BY <1>7 DEF SimulationReturns, Awaiting
  <2>2. CASE UNCHANGED tasks /\ Finish(q)
    BY <1>0, <1>t, <2>1, <2>2, FinishKeeps, RunsUnchanged
  <2>3. CASE SetStatus(t, "testing") /\ Continue(q, x)
    <3>1. tasks' \in [KnownTasks -> TaskStatuses \cup {"absent"}]
      BY <2>3, StatusSet DEF TaskStatuses
    <3>2. /\ x \in RequestType /\ x.pc = "runTests" /\ x.task = t
          /\ x.run = requests[q].run /\ x.lease = requests[q].lease
      <4>1. (s = "text_conflict") \in BOOLEAN
        OBVIOUS
      <4> QED  BY <1>0, <4>1 DEF RequestType, AwaitPoints
    <3>3. requests'[q] = x
      BY <2>3, <3>2, ContinueEffect, TypeParts DEF RequestInv
    <3> HIDE DEF x
    <3>4. RequestOK(requests[q])' /\ requests[q].pc \in RunPoints
      BY <1>0, <1>k, <2>1, <3>2, <3>3 DEF RequestOK, RunPoints, LeasePoints, RunIds
    <3> QED  BY <1>0, <2>1, <2>3, <3>1, <3>2, <3>4, ContinueKeeps
  <2> QED  BY <2>1, <2>2, <2>3
<1>8. ASSUME NEW q \in Requests, TestsFail(q) PROVE RequestInv'
  <2>1. /\ requests[q].pc = "runTests" /\ Finish(q)
        /\ taskRuns' = [taskRuns EXCEPT ![requests[q].run].status = "failed"]
        /\ SetStatus(requests[q].task, "failed") \/ UNCHANGED tasks
    BY <1>8 DEF TestsFail, Awaiting
  <2>2. taskRuns' \in Seq(RunType) /\ RunsKept(q) /\ RunsBounded'
    BY <2>1, RunClosed DEF RunPoints, TaskRunStatuses
  <2>3. tasks' \in [KnownTasks -> TaskStatuses \cup {"absent"}]
    BY <1>t, <2>1, StatusSet DEF TaskStatuses
  <2> QED  BY <1>0, <2>1, <2>2, <2>3, FinishKeeps
<1>9. ASSUME NEW q \in Requests, TestsPass(q) PROVE RequestInv'
  <2> DEFINE x == [requests[q] EXCEPT !.pc = "createPullRequest"]
  <2>1. /\ requests[q].pc = "runTests" /\ Continue(q, x) /\ UNCHANGED <<tasks, taskRuns, cmVars>>
    BY <1>9 DEF TestsPass, Awaiting
  <2>2. /\ x \in RequestType /\ x.pc = "createPullRequest" /\ x.task = requests[q].task
        /\ x.run = requests[q].run /\ x.lease = requests[q].lease
    BY <1>0 DEF RequestType, AwaitPoints
  <2>3. requests'[q] = x
    BY <2>1, <2>2, ContinueEffect, TypeParts DEF RequestInv
  <2> HIDE DEF x
  <2>4. RequestOK(requests[q])' /\ requests[q].pc \in RunPoints
    BY <1>0, <1>k, <2>1, <2>2, <2>3 DEF RequestOK, RunPoints, LeasePoints, RunIds
  <2> QED  BY <1>0, <1>t, <2>1, <2>2, <2>4, ContinueKeeps
<1>10. ASSUME NEW q \in Requests, QueuePullRequest(q) PROVE RequestInv'
  <2> DEFINE n == Len(mergeQueueEntries) + 1
  <2>1. /\ requests[q].pc = "createPullRequest" /\ Finish(q)
        /\ taskRuns' = [taskRuns EXCEPT ![requests[q].run] =
                          [@ EXCEPT !.status = "succeeded", !.entry = n]]
        /\ \/ UNCHANGED tasks
           \/ \E s \in {"completed", "conflict_detected", "review_required"} :
                SetStatus(requests[q].task, s)
    BY <1>10 DEF QueuePullRequest, Awaiting, FinalStatus
  <2>2. n \in Nat
    BY DEF RequestInv, CMTypeOK
  <2> HIDE DEF n
  <2>3. taskRuns' \in Seq(RunType) /\ RunsKept(q) /\ RunsBounded'
    BY <2>1, <2>2, RunClosed DEF RunPoints, TaskRunStatuses
  <2>4. tasks' \in [KnownTasks -> TaskStatuses \cup {"absent"}]
    BY <1>t, <2>1, StatusSet DEF TaskStatuses
  <2> QED  BY <1>0, <2>1, <2>3, <2>4, FinishKeeps
<1>11. ASSUME NEW q \in Requests, NEW s \in {"succeeded", "failed"}, AgentRunReturns(q, s)
       PROVE  RequestInv'
  <2>1. /\ requests[q].pc = "runAgent" /\ Finish(q) /\ UNCHANGED tasks
        /\ taskRuns' = [taskRuns EXCEPT ![requests[q].run].status = s]
    BY <1>11 DEF AgentRunReturns, Awaiting
  <2>2. taskRuns' \in Seq(RunType) /\ RunsKept(q) /\ RunsBounded'
    BY <2>1, RunClosed DEF TaskRunStatuses
  <2> QED  BY <1>0, <1>t, <2>1, <2>2, FinishKeeps
<1>12. ASSUME NEW q \in Requests, NEW t \in KnownTasks, StartRun(q, t) PROVE RequestInv'
  <2> DEFINE x == [IdleRequest EXCEPT !.pc = "selectModel", !.task = t]
  <2>1. Continue(q, x) /\ UNCHANGED <<tasks, taskRuns>>
    BY <1>12 DEF StartRun
  <2>2. x \in RequestType /\ x.pc = "selectModel" /\ x.task = t
    BY IdleType DEF RequestType, AwaitPoints
  <2>3. requests'[q] = x
    BY <2>1, <2>2, ContinueEffect, TypeParts DEF RequestInv
  <2> HIDE DEF x
  <2>4. RequestOK(requests[q])' /\ x.pc \notin RunPoints
    BY <2>2, <2>3 DEF RequestOK, RunPoints, LeasePoints
  <2> QED  BY <1>0, <1>t, <2>1, <2>2, <2>4, ContinueKeeps
<1>13. ASSUME NEW q \in Requests, NEW t \in KnownTasks, StartAgentRun(q, t) PROVE RequestInv'
  <2> DEFINE n == Len(taskRuns) + 1
             x == [IdleRequest EXCEPT !.pc = "runAgent", !.task = t, !.run = n]
  <2>1. /\ Continue(q, x) /\ UNCHANGED tasks
        /\ Len(taskRuns) < MaxRuns /\ taskRuns' = Append(taskRuns, NewRun(t, "endpoint"))
    BY <1>13 DEF StartAgentRun
  <2>2. /\ taskRuns' \in Seq(RunType) /\ RunsKept(q) /\ RunsBounded'
        /\ n \in Nat /\ n \notin RunIds /\ RunIds' = RunIds \cup {n}
        /\ taskRuns'[n] = NewRun(t, "endpoint")
    BY <2>1, RunCreated
  <2> HIDE DEF n
  <2>3. x \in RequestType /\ x.pc = "runAgent" /\ x.task = t /\ x.run = n
    BY <2>2, IdleType DEF RequestType, AwaitPoints
  <2>4. /\ requests' \in [Requests -> RequestType] /\ requests'[q] = x
        /\ \A p \in Requests \ {q} : requests'[p] = requests[p]
    BY <2>1, <2>3, ContinueEffect, TypeParts DEF RequestInv
  <2> HIDE DEF x
  <2>5. RequestOK(requests[q])' /\ x.pc \notin RunPoints
    BY <2>2, <2>3, <2>4 DEF RequestOK, RunPoints, LeasePoints, NewRun
  <2> QED  BY <1>0, <1>t, <2>1, <2>2, <2>3, <2>4, <2>5, RequestChanges
<1>14. ASSUME tasks' \in [KnownTasks -> TaskStatuses \cup {"absent"}],
              UNCHANGED <<taskRuns, requests>>
       PROVE  RequestInv'
  <2>1. TypeOK' /\ CMTypeOK'
    BY <1>0, <1>14, TypeStep DEF RequestInv, TypeOK
  <2>2. RequestsOK'
    BY <1>0, <1>k, <1>14 DEF RequestsOK, RequestOK, RunIds
  <2>3. RunsApart' /\ RunsBounded'
    BY <1>14 DEF RequestInv, RunsApart, RunsBounded
  <2> QED  BY <2>1, <2>2, <2>3 DEF RequestInv
<1>15. ASSUME NEW t \in KnownTasks, CreateTask(t) \/ StartTask(t) PROVE RequestInv'
  <2>1. UNCHANGED <<taskRuns, requests>> /\ \E s \in TaskStatuses : SetStatus(t, s)
    BY <1>15 DEF CreateTask, StartTask, TaskStatuses
  <2> QED  BY <1>14, <2>1, StatusSet
<1>16. ASSUME NEW t \in KnownTasks, NEW s \in TaskStatuses, WriteStatus(t, s) PROVE RequestInv'
  BY <1>14, <1>16, StatusSet DEF WriteStatus
<1>17. CASE ConflictManagerStep \/ UNCHANGED vars
  BY <1>14, <1>t, <1>17 DEF ConflictManagerStep, wfVars, vars
<1> QED  BY <1>1, <1>2, <1>3, <1>4, <1>5, <1>6, <1>7, <1>8, <1>9, <1>10, <1>11, <1>12, <1>13,
            <1>15, <1>16, <1>17 DEF Next, WorkflowStep

(* The local variables of every request in flight have the shape and the   *)
(* meaning their await gives them.                                         *)
LEMMA RequestsAlwaysOK == Spec => []RequestInv
BY RequestInit, RequestStep, PTL DEF Spec

(* Tasks, runs and requests keep their shape, whatever requests overlap,   *)
(* throw or are answered late.                                             *)
THEOREM WorkflowTypeCorrect == Spec => []TypeOK
<1>1. RequestInv => TypeOK
  BY DEF RequestInv
<1> QED  BY <1>1, RequestsAlwaysOK, PTL

(* The workflow only uses the conflict manager as its callers may: each    *)
(* step of a request, of any number of overlapping requests, is one        *)
(* operation of the store or leaves it alone.  So everything proved of the *)
(* conflict manager alone holds in the composed system.                    *)
THEOREM WorkflowRefinesStore == Spec => RefinesConflictManager
<1>1. Init => CMInit
  BY DEF Init
<1> QED  BY <1>1, RequestsAlwaysOK, StoreStep, PTL DEF Spec, RefinesConflictManager, CMSpec

(* Two active branches that share code are never both ready in the merge   *)
(* queue, whichever overlapping workflow runs leased and queued them.      *)
THEOREM WorkflowSerializesOverlap == Spec => []OverlapSerialized
BY WorkflowRefinesStore, OverlapIsSerialized, PTL DEF RefinesConflictManager

(***************************************************************************)
(* Succeeded runs and their queue entries                                  *)
(***************************************************************************)

(* A run names an entry of its own, or none. *)
EntriesApart ==
    /\ \A r \in RunIds : taskRuns[r].entry \in EntryIds \cup {NoEntry}
    /\ \A r, p \in RunIds :
          (r # p /\ taskRuns[r].entry = taskRuns[p].entry) => taskRuns[r].entry = NoEntry

(* The part of SucceededRunsQueued about one run's own entry. *)
QueuedFor(r) ==
    /\ taskRuns[r].entry \in EntryIds
    /\ \E l \in LeaseIds :
          /\ mergeQueueEntries[taskRuns[r].entry].lease = l
          /\ branchLeases[l].owner = [task |-> taskRuns[r].task, run |-> r]

Succeeded(r) == taskRuns[r].origin = "workflow" /\ taskRuns[r].status = "succeeded"

EntriesInv == EntriesApart /\ \A r \in RunIds : Succeeded(r) => QueuedFor(r)

LEMMA EntriesImply == RequestInv /\ EntriesInv => SucceededRunsQueued
<1> SUFFICES ASSUME RequestInv, EntriesInv, NEW r \in RunIds, Succeeded(r)
             PROVE  QueuedFor(r) /\ \A p \in RunIds \ {r} : taskRuns[p].entry # taskRuns[r].entry
  BY DEF SucceededRunsQueued, Succeeded, QueuedFor
<1>1. QueuedFor(r)
  BY DEF EntriesInv
<1>2. NoEntry \notin EntryIds
  BY DEF RequestInv, CMTypeOK, EntryIds, NoEntry
<1> QED  BY <1>1, <1>2 DEF EntriesInv, EntriesApart, QueuedFor

(* A succeeded run keeps its queue entry while the run itself is kept. *)
LEMMA QueuedForKept ==
    ASSUME RequestInv, [CMNext]_cmVars, NEW r, QueuedFor(r), taskRuns'[r] = taskRuns[r]
    PROVE  QueuedFor(r)'
BY StoreKeeps DEF RequestInv, QueuedFor

(* What one step does to the runs. *)
LEMMA RunSteps ==
    ASSUME RequestInv, [Next]_vars
    PROVE  \/ UNCHANGED taskRuns
           \/ \E q \in Requests : BeginRun(q) \/ TestsFail(q) \/ QueuePullRequest(q)
           \/ \E q \in Requests, s \in {"succeeded", "failed"} : AgentRunReturns(q, s)
           \/ \E q \in Requests, t \in KnownTasks : StartAgentRun(q, t)
<1>1. ASSUME NEW q \in Requests, NEW fs \in FileSets, NEW passed \in BOOLEAN,
             AgentReturns(q, fs, passed)
      PROVE  UNCHANGED taskRuns
  BY <1>1 DEF AgentReturns
<1>2. ASSUME NEW q \in Requests, NEW s \in SimulationStatuses, NEW id \in SimulationIds,
             SimulationReturns(q, s, id)
      PROVE  UNCHANGED taskRuns
  BY <1>2 DEF SimulationReturns
<1>3. ASSUME NEW q \in Requests, \/ BlockByPolicy(q) \/ ClaimTask(q) \/ RefuseClaim(q)
                                 \/ RefuseRun(q) \/ LeaseChanges(q) \/ TestsPass(q)
                                 \/ ProviderThrows(q)
      PROVE  UNCHANGED taskRuns
  BY <1>3 DEF BlockByPolicy, ClaimTask, RefuseClaim, RefuseRun, LeaseChanges, TestsPass,
              ProviderThrows
<1>4. ASSUME NEW q \in Requests, NEW t \in KnownTasks, StartRun(q, t)
      PROVE  UNCHANGED taskRuns
  BY <1>4 DEF StartRun
<1>5. ASSUME NEW t \in KnownTasks, CreateTask(t) \/ StartTask(t) PROVE UNCHANGED taskRuns
  BY <1>5 DEF CreateTask, StartTask
<1>6. ASSUME NEW t \in KnownTasks, NEW s \in TaskStatuses, WriteStatus(t, s)
      PROVE  UNCHANGED taskRuns
  BY <1>6 DEF WriteStatus
<1>7. CASE ConflictManagerStep \/ UNCHANGED vars
  BY <1>7 DEF ConflictManagerStep, wfVars, vars
<1> QED  BY <1>1, <1>2, <1>3, <1>4, <1>5, <1>6, <1>7 DEF Next, WorkflowStep

(* The runs a step does not close or queue keep the invariant. *)
LEMMA EntriesKept ==
    ASSUME RequestInv, EntriesInv, [CMNext]_cmVars,
           \A r \in RunIds : /\ r \in RunIds' /\ taskRuns'[r].entry = taskRuns[r].entry
                             /\ Succeeded(r)' => taskRuns'[r] = taskRuns[r],
           \A r \in RunIds' \ RunIds : taskRuns'[r].entry = NoEntry /\ ~Succeeded(r)'
    PROVE  EntriesInv'
<1>1. EntryIds \subseteq EntryIds'
  BY StoreKeeps DEF RequestInv
<1>2. EntriesApart'
  BY <1>1 DEF EntriesInv, EntriesApart
<1>3. ASSUME NEW r \in RunIds', Succeeded(r)' PROVE QueuedFor(r)'
  <2>1. r \in RunIds /\ taskRuns'[r] = taskRuns[r]
    BY <1>3
  <2>2. QueuedFor(r)
    BY <1>3, <2>1 DEF EntriesInv, Succeeded
  <2> QED  BY <2>1, <2>2, QueuedForKept
<1> QED  BY <1>2, <1>3 DEF EntriesInv

(* A run that is closed without a queue entry. *)
LEMMA ClosedKeepsEntry ==
    ASSUME RequestInv, NEW q \in Requests, requests[q].pc \in RunPoints \cup {"runAgent"},
           NEW s \in TaskRunStatuses,
           taskRuns' = [taskRuns EXCEPT ![requests[q].run].status = s]
    PROVE  /\ RunIds' = RunIds
           /\ \A r \in RunIds : /\ taskRuns'[r].entry = taskRuns[r].entry
                                /\ taskRuns'[r].origin = taskRuns[r].origin
                                /\ taskRuns'[r].task = taskRuns[r].task
           /\ \A r \in RunIds \ {requests[q].run} : taskRuns'[r] = taskRuns[r]
           /\ requests[q].run \in RunIds
           /\ taskRuns'[requests[q].run].status = s
<1>1. taskRuns \in Seq(RunType) /\ requests[q].run \in DOMAIN taskRuns
  BY TypeParts DEF RequestInv, RequestsOK, RequestOK, RunIds
<1>2. \A r \in DOMAIN taskRuns : taskRuns[r] \in RunType
  BY <1>1
<1> QED  BY <1>1, <1>2 DEF RunIds, RunType

(* The run that QueuePullRequest closes gets the entry it has just made,   *)
(* for the lease the request has held since before its dry run.            *)
LEMMA QueuedEntry ==
    ASSUME RequestInv, EntriesInv, [CMNext]_cmVars, NEW q \in Requests, QueuePullRequest(q)
    PROVE  EntriesInv'
<1>a. PICK r, l, n : /\ r = requests[q].run /\ l = requests[q].lease
                     /\ n = Len(mergeQueueEntries) + 1
  OBVIOUS
<1>1. /\ requests[q].pc = "createPullRequest" /\ CreateMergeQueueEntry(l)
      /\ taskRuns' = [taskRuns EXCEPT ![r] = [@ EXCEPT !.status = "succeeded", !.entry = n]]
      /\ UNCHANGED <<branchLeases, mergeSimulations, taskRisk, clock>>
  BY <1>a DEF QueuePullRequest, Awaiting
<1>2. /\ r \in RunIds /\ taskRuns[r].task = requests[q].task
      /\ l \in LeaseIds /\ branchLeases[l].owner = [task |-> requests[q].task, run |-> r]
  BY <1>a, <1>1 DEF RequestInv, RequestsOK, RequestOK, RunPoints, LeasePoints
<1>3. /\ n \in Nat /\ n \notin EntryIds /\ EntryIds' = EntryIds \cup {n} /\ n # NoEntry
      /\ mergeQueueEntries'[n].lease = l
  <2>1. mergeQueueEntries \in Seq(QueueEntryType)
    BY DEF RequestInv, CMTypeOK
  <2>2. /\ mergeQueueEntries' = Append(mergeQueueEntries,
               QueueEntry(l, MergeQueueFieldsForLease(branchLeases, mergeSimulations, l)))
    BY <1>1 DEF CreateMergeQueueEntry
  <2>3. Len(mergeQueueEntries') = n /\ n \in Nat /\ EntryIds' = 1..n
        /\ mergeQueueEntries'[n] =
             QueueEntry(l, MergeQueueFieldsForLease(branchLeases, mergeSimulations, l))
    BY <1>a, <2>1, <2>2 DEF EntryIds
  <2> QED  BY <1>a, <2>1, <2>3 DEF QueueEntry, EntryIds, NoEntry
<1>4. /\ RunIds' = RunIds
      /\ \A p \in RunIds \ {r} : taskRuns'[p] = taskRuns[p]
      /\ taskRuns'[r].entry = n /\ taskRuns'[r].task = requests[q].task
  <2>1. taskRuns \in Seq(RunType) /\ r \in DOMAIN taskRuns
    BY <1>2, TypeParts DEF RequestInv, RunIds
  <2>2. taskRuns[r] \in RunType
    BY <2>1
  <2> QED  BY <1>1, <1>2, <2>1, <2>2 DEF RunIds, RunType
<1>5. EntriesApart'
  BY <1>3, <1>4 DEF EntriesInv, EntriesApart
<1>6. QueuedFor(r)'
  <2>1. l \in LeaseIds' /\ branchLeases'[l].owner = [task |-> requests[q].task, run |-> r]
    BY <1>1, <1>2 DEF LeaseIds
  <2> QED  BY <1>3, <1>4, <2>1 DEF QueuedFor
<1>7. ASSUME NEW p \in RunIds', Succeeded(p)' PROVE QueuedFor(p)'
  <2>1. CASE p = r
    BY <1>6, <2>1
  <2>2. CASE p # r
    <3>1. taskRuns'[p] = taskRuns[p] /\ QueuedFor(p)
      BY <1>4, <1>7, <2>2 DEF EntriesInv, Succeeded
    <3> QED  BY <3>1, QueuedForKept
  <2> QED  BY <2>1, <2>2
<1> QED  BY <1>5, <1>7 DEF EntriesInv

LEMMA EntriesStep == RequestInv /\ EntriesInv /\ [Next]_vars => EntriesInv'
<1> SUFFICES ASSUME RequestInv, EntriesInv, [Next]_vars PROVE EntriesInv'
  OBVIOUS
<1>0. [CMNext]_cmVars
  BY StoreStep
<1>1. CASE UNCHANGED taskRuns
  BY <1>0, <1>1, EntriesKept DEF RunIds, Succeeded
<1>2. ASSUME NEW q \in Requests, NEW t \in KnownTasks, NEW origin \in {"workflow", "endpoint"},
             Len(taskRuns) < MaxRuns, taskRuns' = Append(taskRuns, NewRun(t, origin))
      PROVE  EntriesInv'
  <2>1. PICK n : /\ RunIds' = RunIds \cup {n} /\ \A r \in RunIds : taskRuns'[r] = taskRuns[r]
                 /\ taskRuns'[n] = NewRun(t, origin)
    BY <1>2, RunCreated
  <2>2. taskRuns'[n].entry = NoEntry /\ ~Succeeded(n)'
    BY <2>1 DEF NewRun, Succeeded
  <2> QED  BY <1>0, <2>1, <2>2, EntriesKept
<1>3. ASSUME NEW q \in Requests, BeginRun(q) PROVE EntriesInv'
  <2>1. requests[q].task \in KnownTasks
    BY <1>3 DEF BeginRun, Awaiting, RequestInv, RequestsOK, RequestOK
  <2> QED  BY <1>2, <1>3, <2>1 DEF BeginRun
<1>4. ASSUME NEW q \in Requests, NEW t \in KnownTasks, StartAgentRun(q, t) PROVE EntriesInv'
  BY <1>2, <1>4 DEF StartAgentRun
<1>5. ASSUME NEW q \in Requests, TestsFail(q) PROVE EntriesInv'
  <2>1. /\ requests[q].pc \in RunPoints /\ "failed" \in TaskRunStatuses
        /\ taskRuns' = [taskRuns EXCEPT ![requests[q].run].status = "failed"]
    BY <1>5 DEF TestsFail, Awaiting, RunPoints, TaskRunStatuses
  <2> QED  BY <1>0, <2>1, ClosedKeepsEntry, EntriesKept DEF Succeeded
<1>6. ASSUME NEW q \in Requests, NEW s \in {"succeeded", "failed"}, AgentRunReturns(q, s)
      PROVE  EntriesInv'
  <2>1. /\ requests[q].pc = "runAgent" /\ s \in TaskRunStatuses
        /\ taskRuns' = [taskRuns EXCEPT ![requests[q].run].status = s]
    BY <1>6 DEF AgentRunReturns, Awaiting, TaskRunStatuses
  <2>2. PICK r : /\ r = requests[q].run /\ taskRuns[r].origin = "endpoint"
    BY <2>1 DEF RequestInv, RequestsOK, RequestOK
  <2>3. /\ RunIds' = RunIds /\ \A p \in RunIds : taskRuns'[p].entry = taskRuns[p].entry
        /\ \A p \in RunIds \ {r} : taskRuns'[p] = taskRuns[p]
        /\ r \in RunIds /\ taskRuns'[r].origin = taskRuns[r].origin
    <3>1. requests[q].pc \in RunPoints \cup {"runAgent"}
      BY <2>1
    <3>2. /\ RunIds' = RunIds
          /\ \A p \in RunIds : /\ taskRuns'[p].entry = taskRuns[p].entry
                               /\ taskRuns'[p].origin = taskRuns[p].origin
          /\ \A p \in RunIds \ {requests[q].run} : taskRuns'[p] = taskRuns[p]
          /\ requests[q].run \in RunIds
      BY <2>1, <3>1, ClosedKeepsEntry
    <3> QED  BY <2>2, <3>2
  <2>4. ~Succeeded(r)'
    BY <2>2, <2>3 DEF Succeeded
  <2> QED  BY <1>0, <2>3, <2>4, EntriesKept
<1>7. ASSUME NEW q \in Requests, QueuePullRequest(q) PROVE EntriesInv'
  BY <1>0, <1>7, QueuedEntry
<1> QED  BY <1>1, <1>3, <1>4, <1>5, <1>6, <1>7, RunSteps

(* A workflow run that succeeded has a queue entry of its own, for a lease *)
(* of this task and this run: the lease a request remembers over four      *)
(* awaits is still the one it created, and no two requests close one run.  *)
THEOREM SucceededRunsAlwaysQueued == Spec => []SucceededRunsQueued
<1>1. Init => EntriesInv
  BY DEF Init, EntriesInv, EntriesApart, RunIds
<1> QED  BY <1>1, RequestInit, RequestStep, EntriesStep, EntriesImply, PTL DEF Spec

(***************************************************************************)
(* The status machine as a lock                                            *)
(***************************************************************************)

(* While one of its workflow runs is active, a task is being worked on or  *)
(* has been cancelled: in these statuses no request can claim it or begin  *)
(* a run.                                                                  *)
HeldStatuses == {"running", "testing", "cancelled"}

WorkflowActive(r) == taskRuns[r].origin = "workflow" /\ ActiveRun(r)

ActiveHeld == \A r \in RunIds : WorkflowActive(r) => tasks[taskRuns[r].task] \in HeldStatuses

ExclusiveInv == WorkflowRunsExclusive /\ ActiveHeld

LEMMA HeldFacts ==
    ASSUME NEW s \in HeldStatuses
    PROVE  /\ s \in TaskStatuses
           /\ ~CanTransitionTaskStatus(s, "planned")
           /\ ~CanTransitionTaskStatus(s, "branch_created")
           /\ s \notin {"policy_blocked", "completed", "failed", "queued", "absent"}
<1>1. s \in TaskStatuses
  BY DEF HeldStatuses, TaskStatuses
<1> QED  BY <1>1, TransitionFacts DEF HeldStatuses

LEMMA RunTasks == RequestInv => \A r \in RunIds : taskRuns[r].task \in KnownTasks
<1> SUFFICES ASSUME RequestInv, NEW r \in RunIds PROVE taskRuns[r].task \in KnownTasks
  OBVIOUS
<1>1. taskRuns \in Seq(RunType) /\ r \in DOMAIN taskRuns
  BY TypeParts DEF RequestInv, RunIds
<1>2. taskRuns[r] \in RunType
  BY <1>1
<1> QED  BY <1>2 DEF RunType

(* A step after which no workflow run is newly active. *)
LEMMA ExclusiveKept ==
    ASSUME ExclusiveInv,
           \A r \in RunIds' : WorkflowActive(r)' =>
               /\ r \in RunIds /\ WorkflowActive(r) /\ taskRuns'[r].task = taskRuns[r].task
               /\ tasks'[taskRuns[r].task] \in HeldStatuses
    PROVE  ExclusiveInv'
<1>1. ActiveHeld'
  BY DEF ActiveHeld
<1>2. WorkflowRunsExclusive'
  BY DEF ExclusiveInv, WorkflowRunsExclusive, WorkflowActive
<1> QED  BY <1>1, <1>2 DEF ExclusiveInv

(* A step that leaves the runs and takes no task out of a held status. *)
LEMMA HeldKept ==
    ASSUME RequestInv, ExclusiveInv, UNCHANGED taskRuns,
           \A t \in KnownTasks : tasks[t] \in HeldStatuses => tasks'[t] \in HeldStatuses
    PROVE  ExclusiveInv'
<1>1. \A r \in RunIds : taskRuns[r].task \in KnownTasks
  BY RunTasks
<1>2. ASSUME NEW r \in RunIds', WorkflowActive(r)'
      PROVE  /\ r \in RunIds /\ WorkflowActive(r) /\ taskRuns'[r].task = taskRuns[r].task
             /\ tasks'[taskRuns[r].task] \in HeldStatuses
  <2>1. r \in RunIds /\ WorkflowActive(r) /\ taskRuns'[r].task = taskRuns[r].task
    BY <1>2 DEF RunIds, WorkflowActive, ActiveRun
  <2> QED  BY <1>1, <2>1 DEF ExclusiveInv, ActiveHeld
<1> QED  BY <1>2, ExclusiveKept

(* The request's run was the only active one of its task, so the task may  *)
(* move on when the run is closed.                                         *)
LEMMA ClosingFrees ==
    ASSUME RequestInv, ExclusiveInv, NEW q \in Requests, requests[q].pc \in RunPoints,
           RunIds' = RunIds, RunsKept(q),
           taskRuns'[requests[q].run].status \notin {"queued", "running"},
           \A t \in KnownTasks \ {requests[q].task} : tasks'[t] = tasks[t]
    PROVE  ExclusiveInv'
<1>1. PICK r : /\ r = requests[q].run /\ r \in RunIds /\ taskRuns[r].task = requests[q].task
               /\ WorkflowActive(r)
  BY DEF RequestInv, RequestsOK, RequestOK, WorkflowActive, ActiveRun
<1>2. \A p \in RunIds : taskRuns[p].task \in KnownTasks
  BY RunTasks
<1>3. ASSUME NEW p \in RunIds', WorkflowActive(p)'
      PROVE  /\ p \in RunIds /\ WorkflowActive(p) /\ taskRuns'[p].task = taskRuns[p].task
             /\ tasks'[taskRuns[p].task] \in HeldStatuses
  <2>1. p # r
    BY <1>1, <1>3 DEF WorkflowActive, ActiveRun
  <2>2. p \in RunIds /\ WorkflowActive(p) /\ taskRuns'[p].task = taskRuns[p].task
    BY <1>1, <1>3, <2>1 DEF WorkflowActive, ActiveRun, RunsKept
  <2>3. taskRuns[p].task # requests[q].task
    BY <1>1, <2>1, <2>2 DEF ExclusiveInv, WorkflowRunsExclusive, WorkflowActive
  <2> QED  BY <1>2, <2>2, <2>3 DEF ExclusiveInv, ActiveHeld
<1> QED  BY <1>3, ExclusiveKept

LEMMA StatusEffect ==
    ASSUME RequestInv, NEW t, NEW s, SetStatus(t, s)
    PROVE  /\ \A u \in KnownTasks \ {t} : tasks'[u] = tasks[u]
           /\ t \in KnownTasks => tasks'[t] = s
BY TypeParts DEF RequestInv, SetStatus

(* A run is begun only for a task that no active workflow run holds. *)
LEMMA BeginExclusive ==
    ASSUME RequestInv, ExclusiveInv, NEW q \in Requests, BeginRun(q)
    PROVE  ExclusiveInv'
<1>1. PICK t : /\ t = requests[q].task /\ requests[q].pc = "createBranch"
               /\ CanTransitionTaskStatus(tasks[t], "branch_created")
               /\ Len(taskRuns) < MaxRuns /\ taskRuns' = Append(taskRuns, NewRun(t, "workflow"))
               /\ SetStatus(t, "running")
  BY DEF BeginRun, Awaiting
<1>2. t \in KnownTasks
  BY <1>1 DEF RequestInv, RequestsOK, RequestOK
<1>3. PICK n : /\ n \notin RunIds /\ RunIds' = RunIds \cup {n}
               /\ \A r \in RunIds : taskRuns'[r] = taskRuns[r]
               /\ taskRuns'[n] = NewRun(t, "workflow")
  BY <1>1, <1>2, RunCreated
<1>4. tasks[t] \notin HeldStatuses
  BY <1>1, HeldFacts
<1>5. \A r \in RunIds : WorkflowActive(r) => taskRuns[r].task # t
  BY <1>4 DEF ExclusiveInv, ActiveHeld
<1>6. \A r \in RunIds : /\ taskRuns[r].task \in KnownTasks
                        /\ WorkflowActive(r)' <=> WorkflowActive(r)
  BY <1>3, RunTasks DEF WorkflowActive, ActiveRun
<1>7. tasks'[t] = "running" /\ \A u \in KnownTasks \ {t} : tasks'[u] = tasks[u]
  BY <1>1, <1>2, StatusEffect
<1>8. taskRuns'[n].task = t
  BY <1>3 DEF NewRun
<1>9. ActiveHeld'
  BY <1>3, <1>5, <1>6, <1>7, <1>8 DEF ExclusiveInv, ActiveHeld, HeldStatuses
<1>10. ASSUME NEW r \in RunIds', NEW p \in RunIds', r # p, WorkflowActive(r)', WorkflowActive(p)'
       PROVE  taskRuns'[r].task # taskRuns'[p].task
  <2>1. CASE r = n
    BY <1>3, <1>5, <1>6, <1>8, <1>10, <2>1
  <2>2. CASE p = n
    BY <1>3, <1>5, <1>6, <1>8, <1>10, <2>2
  <2>3. CASE r # n /\ p # n
    BY <1>3, <1>6, <1>10, <2>3 DEF ExclusiveInv, WorkflowRunsExclusive, WorkflowActive
  <2> QED  BY <2>1, <2>2, <2>3
<1>11. WorkflowRunsExclusive'
  BY <1>10 DEF WorkflowRunsExclusive, WorkflowActive
<1> QED  BY <1>9, <1>11 DEF ExclusiveInv

LEMMA ExclusiveStep ==
    ASSUME "manual" \notin Events
    PROVE  RequestInv /\ ExclusiveInv /\ [Next]_vars => ExclusiveInv'
<1> SUFFICES ASSUME RequestInv, ExclusiveInv, [Next]_vars PROVE ExclusiveInv'
  OBVIOUS
<1>1. CASE UNCHANGED <<tasks, taskRuns>>
  BY <1>1, HeldKept
<1>2. ASSUME NEW t, NEW s, SetStatus(t, s), UNCHANGED taskRuns,
             s \in HeldStatuses \/ (t \in KnownTasks => tasks[t] \notin HeldStatuses)
      PROVE  ExclusiveInv'
  BY <1>2, HeldKept, StatusEffect
<1>3. ASSUME NEW q \in Requests, BlockByPolicy(q) \/ ClaimTask(q) PROVE ExclusiveInv'
  <2>1. /\ tasks[requests[q].task] \notin HeldStatuses /\ UNCHANGED taskRuns
        /\ \E s \in {"queued", "policy_blocked"} : SetStatus(requests[q].task, s)
    BY <1>3, HeldFacts DEF BlockByPolicy, ClaimTask
  <2> QED  BY <1>2, <2>1
<1>4. ASSUME NEW q \in Requests, BeginRun(q) PROVE ExclusiveInv'
  BY <1>4, BeginExclusive
<1>5. ASSUME NEW q \in Requests, NEW s \in SimulationStatuses, NEW id \in SimulationIds,
             SimulationReturns(q, s, id)
      PROVE  ExclusiveInv'
  BY <1>1, <1>2, <1>5 DEF SimulationReturns, HeldStatuses
<1>6. ASSUME NEW q \in Requests, TestsFail(q) PROVE ExclusiveInv'
  <2>1. /\ requests[q].pc \in RunPoints /\ "failed" \in TaskRunStatuses
        /\ taskRuns' = [taskRuns EXCEPT ![requests[q].run].status = "failed"]
        /\ SetStatus(requests[q].task, "failed") \/ UNCHANGED tasks
    BY <1>6 DEF TestsFail, Awaiting, RunPoints, TaskRunStatuses
  <2>2. RunIds' = RunIds /\ RunsKept(q) /\ taskRuns'[requests[q].run].status = "failed"
    BY <2>1, RunClosed
  <2>3. \A t \in KnownTasks \ {requests[q].task} : tasks'[t] = tasks[t]
    BY <2>1, StatusEffect
  <2> QED  BY <2>1, <2>2, <2>3, ClosingFrees
<1>7. ASSUME NEW q \in Requests, QueuePullRequest(q) PROVE ExclusiveInv'
  <2>1. PICK n : /\ n = Len(mergeQueueEntries) + 1 /\ requests[q].pc \in RunPoints
                 /\ taskRuns' = [taskRuns EXCEPT ![requests[q].run] =
                                   [@ EXCEPT !.status = "succeeded", !.entry = n]]
                 /\ UNCHANGED tasks \/ \E s : SetStatus(requests[q].task, s)
    BY <1>7 DEF QueuePullRequest, Awaiting, RunPoints
  <2>2. n \in Nat /\ "succeeded" \in TaskRunStatuses
    BY <2>1 DEF RequestInv, CMTypeOK, TaskRunStatuses
  <2>3. RunIds' = RunIds /\ RunsKept(q) /\ taskRuns'[requests[q].run].status = "succeeded"
    BY <2>1, <2>2, RunClosed
  <2>4. \A t \in KnownTasks \ {requests[q].task} : tasks'[t] = tasks[t]
    BY <2>1, StatusEffect
  <2> QED  BY <2>1, <2>3, <2>4, ClosingFrees
<1>8. ASSUME NEW q \in Requests, NEW s \in {"succeeded", "failed"}, AgentRunReturns(q, s)
      PROVE  ExclusiveInv'
  <2>1. /\ requests[q].pc = "runAgent" /\ s \in TaskRunStatuses /\ UNCHANGED tasks
        /\ taskRuns' = [taskRuns EXCEPT ![requests[q].run].status = s]
    BY <1>8 DEF AgentRunReturns, Awaiting, TaskRunStatuses
  <2>2. requests[q].pc \in RunPoints \cup {"runAgent"}
    BY <2>1
  <2>3. /\ RunIds' = RunIds
        /\ \A r \in RunIds : /\ taskRuns'[r].origin = taskRuns[r].origin
                             /\ taskRuns'[r].task = taskRuns[r].task
        /\ \A r \in RunIds \ {requests[q].run} : taskRuns'[r] = taskRuns[r]
    BY <2>1, <2>2, ClosedKeepsEntry
  <2>4. PICK x : x = requests[q].run /\ x \in RunIds /\ taskRuns[x].origin = "endpoint"
    BY <2>1 DEF RequestInv, RequestsOK, RequestOK
  <2>5. ASSUME NEW r \in RunIds', WorkflowActive(r)'
        PROVE  /\ r \in RunIds /\ WorkflowActive(r) /\ taskRuns'[r].task = taskRuns[r].task
               /\ tasks'[taskRuns[r].task] \in HeldStatuses
    <3>1. r # x
      BY <2>3, <2>4, <2>5 DEF WorkflowActive
    <3>2. r \in RunIds /\ WorkflowActive(r) /\ taskRuns'[r].task = taskRuns[r].task
      BY <2>3, <2>4, <2>5, <3>1 DEF WorkflowActive, ActiveRun
    <3> QED  BY <2>1, <3>2 DEF ExclusiveInv, ActiveHeld
  <2> QED  BY <2>5, ExclusiveKept
<1>9. ASSUME NEW q \in Requests, NEW t \in KnownTasks, StartAgentRun(q, t) PROVE ExclusiveInv'
  <2>1. /\ Len(taskRuns) < MaxRuns /\ taskRuns' = Append(taskRuns, NewRun(t, "endpoint"))
        /\ UNCHANGED tasks
    BY <1>9 DEF StartAgentRun
  <2>2. PICK n : /\ RunIds' = RunIds \cup {n} /\ \A r \in RunIds : taskRuns'[r] = taskRuns[r]
                 /\ taskRuns'[n] = NewRun(t, "endpoint")
    BY <2>1, RunCreated
  <2>3. ~WorkflowActive(n)'
    BY <2>2 DEF WorkflowActive, NewRun
  <2>4. ASSUME NEW r \in RunIds', WorkflowActive(r)'
        PROVE  /\ r \in RunIds /\ WorkflowActive(r) /\ taskRuns'[r].task = taskRuns[r].task
               /\ tasks'[taskRuns[r].task] \in HeldStatuses
    <3>1. r \in RunIds /\ taskRuns'[r] = taskRuns[r]
      BY <2>2, <2>3, <2>4
    <3>2. WorkflowActive(r)
      BY <2>4, <3>1 DEF WorkflowActive, ActiveRun
    <3> QED  BY <2>1, <3>1, <3>2 DEF ExclusiveInv, ActiveHeld
  <2> QED  BY <2>4, ExclusiveKept
<1>10. ASSUME NEW t \in KnownTasks, CreateTask(t) \/ StartTask(t) PROVE ExclusiveInv'
  <2>1. tasks[t] = "absent" /\ SetStatus(t, "draft") /\ UNCHANGED taskRuns
    BY <1>10 DEF CreateTask, StartTask
  <2> QED  BY <1>2, <2>1, HeldFacts
<1>11. ASSUME NEW t \in KnownTasks, NEW s \in TaskStatuses, WriteStatus(t, s) PROVE ExclusiveInv'
  <2>1. s = "cancelled" /\ SetStatus(t, s) /\ UNCHANGED taskRuns
    BY <1>11 DEF WriteStatus
  <2> QED  BY <1>2, <2>1 DEF HeldStatuses
<1>12. ASSUME NEW q \in Requests, \/ RefuseClaim(q) \/ RefuseRun(q) \/ LeaseChanges(q)
                                  \/ TestsPass(q) \/ ProviderThrows(q)
       PROVE  ExclusiveInv'
  BY <1>1, <1>12 DEF RefuseClaim, RefuseRun, LeaseChanges, TestsPass, ProviderThrows
<1>13. ASSUME NEW q \in Requests, NEW fs \in FileSets, NEW passed \in BOOLEAN,
              AgentReturns(q, fs, passed)
       PROVE  ExclusiveInv'
  BY <1>1, <1>13 DEF AgentReturns
<1>14. ASSUME NEW q \in Requests, NEW t \in KnownTasks, StartRun(q, t) PROVE ExclusiveInv'
  BY <1>1, <1>14 DEF StartRun
<1>15. CASE ConflictManagerStep \/ UNCHANGED vars
  BY <1>1, <1>15 DEF ConflictManagerStep, wfVars, vars
<1> QED  BY <1>3, <1>4, <1>5, <1>6, <1>7, <1>8, <1>9, <1>10, <1>11, <1>12, <1>13, <1>14, <1>15
         DEF Next, WorkflowStep

(* The status machine is the workflow's only lock, and it is enough: when  *)
(* nobody writes statuses by hand, no two workflow runs of a task are ever *)
(* active together, whatever cancellations, rejected calls and endpoint    *)
(* runs happen.                                                            *)
THEOREM WorkflowRunsAlwaysExclusive ==
    ASSUME "manual" \notin Events
    PROVE  Spec => []WorkflowRunsExclusive
<1>1. Init => ExclusiveInv
  BY DEF Init, ExclusiveInv, WorkflowRunsExclusive, ActiveHeld, RunIds
<1>2. ExclusiveInv => WorkflowRunsExclusive
  BY DEF ExclusiveInv
<1> QED  BY <1>1, <1>2, RequestInit, RequestStep, ExclusiveStep, PTL DEF Spec

(***************************************************************************)
(* What a step may never do                                                *)
(***************************************************************************)

(* A cancelled task gets no further workflow run, even from a request that *)
(* claimed it before the cancellation: the transition throws before the    *)
(* run is created.                                                         *)
THEOREM NeverRunAfterCancel == Spec => NoRunAfterCancel
<1> DEFINE NewRunsAllowed ==
             \A r \in DOMAIN taskRuns' \ RunIds :
                taskRuns'[r].origin = "workflow" => tasks[taskRuns'[r].task] # "cancelled"
<1>1. ASSUME RequestInv, [Next]_vars PROVE NewRunsAllowed
  <2>1. CASE RunIds' = RunIds
    BY <2>1 DEF RunIds
  <2>2. CASE UNCHANGED taskRuns
    BY <2>1, <2>2 DEF RunIds
  <2>3. ASSUME NEW q \in Requests, TestsFail(q) PROVE NewRunsAllowed
    <3>1. /\ requests[q].pc \in RunPoints /\ "failed" \in TaskRunStatuses
          /\ taskRuns' = [taskRuns EXCEPT ![requests[q].run].status = "failed"]
      BY <2>3 DEF TestsFail, Awaiting, RunPoints, TaskRunStatuses
    <3> QED  BY <1>1, <2>1, <3>1, RunClosed
  <2>4. ASSUME NEW q \in Requests, NEW s \in {"succeeded", "failed"}, AgentRunReturns(q, s)
        PROVE  NewRunsAllowed
    <3>1. /\ requests[q].pc \in RunPoints \cup {"runAgent"} /\ s \in TaskRunStatuses
          /\ taskRuns' = [taskRuns EXCEPT ![requests[q].run].status = s]
      BY <2>4 DEF AgentRunReturns, Awaiting, TaskRunStatuses
    <3>2. RunIds' = RunIds
      BY <1>1, <3>1, RunClosed
    <3> QED  BY <2>1, <3>2
  <2>5. ASSUME NEW q \in Requests, QueuePullRequest(q) PROVE NewRunsAllowed
    <3>1. PICK n : /\ n = Len(mergeQueueEntries) + 1 /\ requests[q].pc \in RunPoints
                   /\ taskRuns' = [taskRuns EXCEPT ![requests[q].run] =
                                     [@ EXCEPT !.status = "succeeded", !.entry = n]]
      BY <2>5 DEF QueuePullRequest, Awaiting, RunPoints
    <3>2. n \in Nat /\ "succeeded" \in TaskRunStatuses
      BY <1>1, <3>1 DEF RequestInv, CMTypeOK, TaskRunStatuses
    <3>3. RunIds' = RunIds
      BY <1>1, <3>1, <3>2, RunClosed
    <3> QED  BY <2>1, <3>3
  <2>6. ASSUME NEW q \in Requests, BeginRun(q) PROVE NewRunsAllowed
    <3>1. PICK t : /\ t = requests[q].task /\ requests[q].pc = "createBranch"
                   /\ CanTransitionTaskStatus(tasks[t], "branch_created")
                   /\ Len(taskRuns) < MaxRuns
                   /\ taskRuns' = Append(taskRuns, NewRun(t, "workflow"))
      BY <2>6 DEF BeginRun, Awaiting
    <3>2. t \in KnownTasks
      BY <1>1, <3>1 DEF RequestInv, RequestsOK, RequestOK
    <3>3. PICK n : RunIds' = RunIds \cup {n} /\ taskRuns'[n] = NewRun(t, "workflow")
      BY <1>1, <3>1, <3>2, RunCreated
    <3>4. tasks[t] # "cancelled"
      BY <3>1, HeldFacts DEF HeldStatuses
    <3> QED  BY <3>3, <3>4 DEF RunIds, NewRun
  <2>7. ASSUME NEW q \in Requests, NEW t \in KnownTasks, StartAgentRun(q, t)
        PROVE  NewRunsAllowed
    <3>1. /\ Len(taskRuns) < MaxRuns /\ taskRuns' = Append(taskRuns, NewRun(t, "endpoint"))
      BY <2>7 DEF StartAgentRun
    <3>2. PICK n : RunIds' = RunIds \cup {n} /\ taskRuns'[n] = NewRun(t, "endpoint")
      BY <1>1, <3>1, RunCreated
    <3> QED  BY <3>2 DEF RunIds, NewRun
  <2> QED  BY <1>1, <2>2, <2>3, <2>4, <2>5, <2>6, <2>7, RunSteps
<1> QED  BY <1>1, RequestInit, RequestStep, PTL DEF Spec, NoRunAfterCancel

(* A task is completed by its workflow only in a step that creates a queue *)
(* entry, and that entry is ready: the status it gets was computed from    *)
(* the leases and the simulations of this very step.                       *)
THEOREM AlwaysCompletedWhenClear == Spec => CompletedOnlyWhenClear
<1> DEFINE Clear == /\ EntryIds # DOMAIN mergeQueueEntries'
                    /\ mergeQueueEntries'[Len(mergeQueueEntries')].status = "ready"
           Completes(t) == tasks[t] = "testing" /\ tasks'[t] = "completed"
<1>1. ASSUME RequestInv, [Next]_vars, NEW t \in KnownTasks, Completes(t) PROVE Clear
  <2>1. tasks'[t] # tasks[t]
    BY <1>1
  <2>2. ASSUME NEW u, NEW s, SetStatus(u, s), s # "completed" PROVE FALSE
    BY <1>1, <2>2, StatusEffect
  <2>3. ASSUME NEW q \in Requests, QueuePullRequest(q) PROVE Clear
    <3>1. PICK l, x : /\ l = requests[q].lease
                      /\ x = MergeQueueFieldsForLease(branchLeases, mergeSimulations, l)
      OBVIOUS
    <3>2. /\ requests[q].pc = "createPullRequest"
          /\ mergeQueueEntries' = Append(mergeQueueEntries, QueueEntry(l, x))
          /\ \/ UNCHANGED tasks
             \/ x.status # "blocked"
             \/ \E s : s # "completed" /\ SetStatus(requests[q].task, s)
      BY <2>3, <3>1 DEF QueuePullRequest, Awaiting, CreateMergeQueueEntry, FinalStatus
    <3>3. x.status # "blocked"
      BY <2>1, <2>2, <3>2
    <3>4. mergeQueueEntries \in Seq(QueueEntryType)
      BY <1>1 DEF RequestInv, CMTypeOK
    <3>5. mergeSimulations \in Seq(SimulationType)
      BY <1>1 DEF RequestInv, CMTypeOK
    <3>6. x.status \in {"ready", "blocked"}
      BY <3>1, <3>5, QueueFields
    <3>7. QueueEntry(l, x).status = x.status
      BY DEF QueueEntry
    <3>8. PICK y : y = QueueEntry(l, x)
      OBVIOUS
    <3>9. /\ Len(mergeQueueEntries') = Len(mergeQueueEntries) + 1
          /\ mergeQueueEntries'[Len(mergeQueueEntries')] = y
          /\ DOMAIN mergeQueueEntries' # DOMAIN mergeQueueEntries
      BY <3>2, <3>4, <3>8
    <3> QED  BY <3>3, <3>6, <3>7, <3>8, <3>9 DEF EntryIds
  <2>4. ASSUME NEW q \in Requests, NEW s \in SimulationStatuses, NEW id \in SimulationIds,
               SimulationReturns(q, s, id)
        PROVE  FALSE
    BY <2>1, <2>2, <2>4 DEF SimulationReturns
  <2>5. ASSUME NEW q \in Requests,
               BlockByPolicy(q) \/ ClaimTask(q) \/ BeginRun(q) \/ TestsFail(q)
        PROVE  FALSE
    BY <2>1, <2>2, <2>5 DEF BlockByPolicy, ClaimTask, BeginRun, TestsFail
  <2>6. ASSUME NEW u \in KnownTasks, CreateTask(u) \/ StartTask(u) PROVE FALSE
    BY <2>2, <2>6 DEF CreateTask, StartTask
  <2>7. ASSUME NEW u \in KnownTasks, NEW s \in TaskStatuses, WriteStatus(u, s) PROVE FALSE
    <3>1. u = t /\ s = "completed" /\ CanTransitionTaskStatus("testing", "completed")
      BY <1>1, <2>7, StatusEffect DEF WriteStatus
    <3> QED  BY <3>1, TransitionFacts DEF TaskStatuses
  <2>8. ASSUME NEW q \in Requests, \/ RefuseClaim(q) \/ RefuseRun(q) \/ LeaseChanges(q)
                                   \/ TestsPass(q) \/ ProviderThrows(q)
        PROVE  FALSE
    BY <2>1, <2>8 DEF RefuseClaim, RefuseRun, LeaseChanges, TestsPass, ProviderThrows
  <2>9. ASSUME NEW q \in Requests, NEW fs \in FileSets, NEW passed \in BOOLEAN,
               AgentReturns(q, fs, passed)
        PROVE  FALSE
    BY <2>1, <2>9 DEF AgentReturns
  <2>10. ASSUME NEW q \in Requests, NEW s \in {"succeeded", "failed"}, AgentRunReturns(q, s)
         PROVE  FALSE
    BY <2>1, <2>10 DEF AgentRunReturns
  <2>11. ASSUME NEW q \in Requests, NEW u \in KnownTasks, StartRun(q, u) \/ StartAgentRun(q, u)
         PROVE  FALSE
    BY <2>1, <2>11 DEF StartRun, StartAgentRun
  <2>12. CASE ConflictManagerStep \/ UNCHANGED vars
    BY <2>1, <2>12 DEF ConflictManagerStep, wfVars, vars
  <2> QED  BY <1>1, <2>3, <2>4, <2>5, <2>6, <2>7, <2>8, <2>9, <2>10, <2>11, <2>12
           DEF Next, WorkflowStep
<1>2. RequestInv /\ [Next]_vars => \A t \in KnownTasks : Completes(t) => Clear
  BY <1>1
<1> QED  BY <1>2, RequestInit, RequestStep, PTL DEF Spec, CompletedOnlyWhenClear
===============================================================================
