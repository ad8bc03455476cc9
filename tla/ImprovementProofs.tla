-------------------------- MODULE ImprovementProofs --------------------------
(***************************************************************************)
(* Theorems about the improvement loop and its governance, for any number  *)
(* of classes, signals, decisions and evaluations, and any roles.          *)
(***************************************************************************)
EXTENDS Improvement, TLAPS, SequenceTheorems

(***************************************************************************)
(* Maps of the repository                                                  *)
(***************************************************************************)

\* The maps from some of the keys S to values of T.
MapsOf(S, T) == UNION {[D -> T] : D \in SUBSET S}

LEMMA MapFacts ==
    ASSUME NEW S, NEW T, NEW f \in MapsOf(S, T)
    PROVE  /\ DOMAIN f \subseteq S
           /\ f \in [DOMAIN f -> T]
           /\ \A x \in DOMAIN f : f[x] \in T
<1>1. PICK D \in SUBSET S : f \in [D -> T]
  BY DEF MapsOf
<1> QED
  BY <1>1

LEMMA MapIntro ==
    ASSUME NEW S, NEW T, NEW D \in SUBSET S, NEW f \in [D -> T]
    PROVE  f \in MapsOf(S, T)
  BY DEF MapsOf

\* Map.set on a key, new or not.
LEMMA WithFacts ==
    ASSUME NEW S, NEW T, NEW f \in MapsOf(S, T), NEW k \in S, NEW v \in T
    PROVE  /\ With(f, k, v) \in MapsOf(S, T)
           /\ DOMAIN With(f, k, v) = {k} \cup DOMAIN f
           /\ With(f, k, v)[k] = v
           /\ \A x \in DOMAIN f : x # k => With(f, k, v)[x] = f[x]
<1>1. DOMAIN f \subseteq S /\ \A x \in DOMAIN f : f[x] \in T
  BY MapFacts
<1>2. With(f, k, v) \in [{k} \cup DOMAIN f -> T]
  BY <1>1 DEF With
<1>3. With(f, k, v) \in MapsOf(S, T)
  BY <1>1, <1>2, MapIntro
<1> QED
  BY <1>3 DEF With

LEMMA UpdateFacts ==
    ASSUME NEW S, NEW T, NEW f \in MapsOf(S, T), NEW k \in DOMAIN f, NEW v \in T
    PROVE  /\ [f EXCEPT ![k] = v] \in MapsOf(S, T)
           /\ DOMAIN [f EXCEPT ![k] = v] = DOMAIN f
           /\ [f EXCEPT ![k] = v][k] = v
           /\ \A x \in DOMAIN f : x # k => [f EXCEPT ![k] = v][x] = f[x]
<1>1. DOMAIN f \subseteq S /\ f \in [DOMAIN f -> T]
  BY MapFacts
<1>2. [f EXCEPT ![k] = v] \in [DOMAIN f -> T]
  BY <1>1
<1>3. [f EXCEPT ![k] = v] \in MapsOf(S, T)
  BY <1>1, <1>2, MapIntro
<1> QED
  BY <1>1, <1>3

(***************************************************************************)
(* The repository's type                                                   *)
(***************************************************************************)

SignalType    == [class : Classes, severity : Severities]
ClusterType   == [signals : SUBSET Nat, severity : Severities, status : {"open", "proposal_created"}]
AnalysisType  == [signals : SUBSET Nat, confident : BOOLEAN]
CandidateIds  == ({"candidate"} \X Classes) \cup ({"manual"} \X Nat)
CandidateType == [class : Classes, kind : TargetKinds, priority : {"low", "medium", "high"},
                  status : CandidateStatuses]
ProposalIds   == ({"proposal"} \X CandidateIds) \cup ({"manual"} \X Nat)
ProposalType  == [candidate : CandidateIds, kind : TargetKinds, status : DOMAIN ProposalTransitions]
RunType       == [requirement : Requirements, status : EvalRunStatuses]
PolicyType    == [requireHumanApproval : BOOLEAN, requireEvalPassed : BOOLEAN,
                  requireCanary : BOOLEAN, allowAutoApply : BOOLEAN]
Reasons       == {"human_approval_required", "eval_pass_required", "canary_required",
                  "auto_apply_disabled", "draft_registry_change_required", "proposal_status",
                  "active_apply_not_implemented", "policy_denied_improvement_apply"}
GateType      == [canApply : {FALSE}, reasons : SUBSET Reasons]
AuditActions  == {"proposal_decision_recorded", "proposal_approved", "proposal_rejected",
                  "proposal_changes_requested", "proposal_eval_attached",
                  "proposal_canary_readiness_checked", "proposal_apply_gate_checked",
                  "proposal_apply_blocked"}
PlanStatuses  == {"draft", "ready"}

ClusterMaps   == MapsOf(Classes, ClusterType)
Analyses   == MapsOf(Classes, AnalysisType)
CandidateMaps == MapsOf(CandidateIds, CandidateType)
Proposals  == MapsOf(ProposalIds, ProposalType)
Drafts     == MapsOf(ProposalIds, DOMAIN DraftRegistryChangeTransitions)
Decisions  == MapsOf(ProposalIds, Seq(DecisionTypes))
EvalRuns   == MapsOf(ProposalIds, Seq(RunType))
Readiness  == MapsOf(ProposalIds, SUBSET Reasons)
Canaries   == MapsOf(ProposalIds, BOOLEAN)
Gates      == MapsOf(ProposalIds, GateType)

Repository ==
    [signals : Seq(SignalType), clusters : ClusterMaps, analyses : Analyses, candidates : CandidateMaps,
     proposals : Proposals, evals : SUBSET Requirements, plans : SUBSET (ProposalIds \X PlanStatuses),
     policy : PolicyType, drafts : Drafts, decisions : Decisions, recorded : Decisions,
     runs : EvalRuns, readiness : Readiness, canary : Canaries, gates : Gates,
     audit : SUBSET (AuditActions \X ProposalIds)]

TypeOK == db \in Repository

(***************************************************************************)
(* The inductive invariant                                                 *)
(***************************************************************************)

\* What the repository keeps for a proposal begins with it.
KeyedAlike ==
    /\ DOMAIN db.decisions = DOMAIN db.proposals
    /\ DOMAIN db.recorded = DOMAIN db.proposals
    /\ DOMAIN db.runs = DOMAIN db.proposals

\* A candidate comes from a cluster, an engine's proposal from a candidate.
Derived ==
    /\ \A c \in DOMAIN db.candidates : db.candidates[c].class \in DOMAIN db.clusters
    /\ \A c \in CandidateIds : AutoProposal(c) \in DOMAIN db.proposals => c \in DOMAIN db.candidates

\* Who rejected or archived a proposal last has closed it.
VerdictCloses ==
    \A p \in DOMAIN db.proposals :
        LET n == Len(db.recorded[p]) IN
        (n > 0 /\ db.recorded[p][n] \in {"reject", "archive"}) =>
            db.proposals[p].status \in {"rejected", "archived"}

\* A run is of a requirement that exists, for the proposal's kind of target.
RunsFit ==
    \A p \in DOMAIN db.proposals : \A n \in DOMAIN db.runs[p] :
        /\ db.runs[p][n].requirement \in db.evals
        /\ db.runs[p][n].requirement.kind = db.proposals[p].kind

ImprovementInv ==
    /\ TypeOK /\ KeyedAlike /\ Derived /\ ClustersKeepProposals /\ VerdictCloses /\ RunsFit

(***************************************************************************)
(* What an operation of the repository does                                *)
(***************************************************************************)

\* Only these fields matter to the invariant besides the type.
Core(d) ==
    <<d.clusters, d.candidates, d.proposals, d.decisions, d.recorded, d.runs, d.evals>>

\* Writing what the other operations never read.
LEMMA SideFields ==
    ASSUME NEW d \in Repository
    PROVE  /\ \A s \in Seq(SignalType) : LET e == [d EXCEPT !.signals = s]
                                         IN  e \in Repository /\ Core(e) = Core(d)
           /\ \A a \in Analyses : LET e == [d EXCEPT !.analyses = a]
                                  IN  e \in Repository /\ Core(e) = Core(d) /\ e.analyses = a
           /\ \A a \in Drafts : LET e == [d EXCEPT !.drafts = a]
                                IN  e \in Repository /\ Core(e) = Core(d)
           /\ \A a \in Readiness : LET e == [d EXCEPT !.readiness = a]
                                   IN  e \in Repository /\ Core(e) = Core(d)
           /\ \A a \in Canaries : LET e == [d EXCEPT !.canary = a]
                                  IN  e \in Repository /\ Core(e) = Core(d)
           /\ \A a \in Gates : LET e == [d EXCEPT !.gates = a]
                               IN  e \in Repository /\ Core(e) = Core(d)
           /\ \A a \in SUBSET (ProposalIds \X PlanStatuses) : LET e == [d EXCEPT !.plans = a]
                                                        IN  e \in Repository /\ Core(e) = Core(d)
           /\ \A a \in PolicyType : LET e == [d EXCEPT !.policy = a]
                                    IN  e \in Repository /\ Core(e) = Core(d)
  BY DEF Repository, Core

LEMMA AuditFacts ==
    ASSUME NEW d \in Repository, NEW action \in AuditActions, NEW p \in ProposalIds
    PROVE  AppendAudit(d, action, p) \in Repository /\ Core(AppendAudit(d, action, p)) = Core(d)
<1>1. PICK a : a = d.audit \union {<<action, p>>}
  OBVIOUS
<1>2. a \in SUBSET (AuditActions \X ProposalIds)
  BY <1>1 DEF Repository
<1>3. AppendAudit(d, action, p) = [d EXCEPT !.audit = a]
  BY <1>1 DEF AppendAudit, Repository
<1> QED
  BY <1>2, <1>3 DEF Repository, Core

\* Writing one of the fields of the core.
LEMMA CoreFields ==
    ASSUME NEW d \in Repository
    PROVE  /\ \A a \in ClusterMaps : LET e == [d EXCEPT !.clusters = a] IN
                 /\ e \in Repository
                 /\ Core(e) = <<a, d.candidates, d.proposals, d.decisions, d.recorded, d.runs, d.evals>>
           /\ \A a \in CandidateMaps : LET e == [d EXCEPT !.candidates = a] IN
                 /\ e \in Repository
                 /\ Core(e) = <<d.clusters, a, d.proposals, d.decisions, d.recorded, d.runs, d.evals>>
           /\ \A a \in Proposals : LET e == [d EXCEPT !.proposals = a] IN
                 /\ e \in Repository
                 /\ Core(e) = <<d.clusters, d.candidates, a, d.decisions, d.recorded, d.runs, d.evals>>
           /\ \A a \in EvalRuns : LET e == [d EXCEPT !.runs = a] IN
                 /\ e \in Repository
                 /\ Core(e) = <<d.clusters, d.candidates, d.proposals, d.decisions, d.recorded, a, d.evals>>
           /\ \A a \in SUBSET Requirements : LET e == [d EXCEPT !.evals = a] IN
                 /\ e \in Repository
                 /\ Core(e) = <<d.clusters, d.candidates, d.proposals, d.decisions, d.recorded, d.runs, a>>
           /\ \A a, b \in Decisions : LET e == [d EXCEPT !.recorded = a, !.decisions = b] IN
                 /\ e \in Repository
                 /\ Core(e) = <<d.clusters, d.candidates, d.proposals, b, a, d.runs, d.evals>>
  BY ZenonT(40) DEF Repository, Core
LEMMA NewCandidate ==
    ASSUME NEW d \in Repository, NEW id \in CandidateIds, NEW c \in CandidateType
    PROVE  LET e == CreateImprovementCandidate(d, id, c) IN
           /\ e \in Repository
           /\ Core(e) = <<d.clusters, With(d.candidates, id, c), d.proposals, d.decisions,
                          d.recorded, d.runs, d.evals>>
<1>1. PICK a : a = With(d.candidates, id, c)
  OBVIOUS
<1>2. d.candidates \in CandidateMaps
  BY DEF Repository
<1>3. a \in CandidateMaps
  BY <1>1, <1>2, WithFacts DEF CandidateMaps
<1>4. CreateImprovementCandidate(d, id, c) = [d EXCEPT !.candidates = a]
  BY <1>1 DEF CreateImprovementCandidate, Repository
<1> QED
  BY <1>1, <1>3, <1>4, CoreFields

LEMMA CandidateStatus ==
    ASSUME NEW d \in Repository, NEW c \in DOMAIN d.candidates, NEW status \in CandidateStatuses
    PROVE  LET e == UpdateImprovementCandidate(d, c, status) IN
           /\ e \in Repository
           /\ Core(e) = <<d.clusters, e.candidates, d.proposals, d.decisions, d.recorded, d.runs, d.evals>>
           /\ DOMAIN e.candidates = DOMAIN d.candidates
           /\ \A x \in DOMAIN e.candidates : e.candidates[x].class = d.candidates[x].class
<1>1. PICK v : v = [d.candidates[c] EXCEPT !.status = status]
  OBVIOUS
<1>2. PICK a : a = [d.candidates EXCEPT ![c] = v]
  OBVIOUS
<1>3. d.candidates \in MapsOf(CandidateIds, CandidateType)
  BY DEF Repository, CandidateMaps
<1>4. v \in CandidateType /\ v.class = d.candidates[c].class
  <2>1. d.candidates[c] \in CandidateType
    BY <1>3, MapFacts
  <2> QED
    BY <1>1, <2>1 DEF CandidateType
<1>5. /\ a \in CandidateMaps /\ DOMAIN a = DOMAIN d.candidates
      /\ \A x \in DOMAIN a : a[x].class = d.candidates[x].class
  BY <1>2, <1>3, <1>4, UpdateFacts DEF CandidateMaps
<1>6. UpdateImprovementCandidate(d, c, status) = [d EXCEPT !.candidates = a]
  BY <1>1, <1>2 DEF UpdateImprovementCandidate, Repository
<1>7. [d EXCEPT !.candidates = a].candidates = a
  BY DEF Repository
<1> QED
  BY <1>5, <1>6, <1>7, CoreFields

LEMMA ClusterStatus ==
    ASSUME NEW d \in Repository, NEW class \in DOMAIN d.clusters
    PROVE  LET e == UpdateFailureCluster(d, class, "proposal_created") IN
           /\ e \in Repository
           /\ Core(e) = <<e.clusters, d.candidates, d.proposals, d.decisions, d.recorded, d.runs, d.evals>>
           /\ DOMAIN e.clusters = DOMAIN d.clusters
           /\ e.clusters[class].status = "proposal_created"
           /\ \A x \in DOMAIN e.clusters : x # class => e.clusters[x] = d.clusters[x]
<1>1. PICK v : v = [d.clusters[class] EXCEPT !.status = "proposal_created"]
  OBVIOUS
<1>2. PICK a : a = [d.clusters EXCEPT ![class] = v]
  OBVIOUS
<1>3. d.clusters \in MapsOf(Classes, ClusterType)
  BY DEF Repository, ClusterMaps
<1>4. v \in ClusterType /\ v.status = "proposal_created"
  <2>1. d.clusters[class] \in ClusterType
    BY <1>3, MapFacts
  <2> QED
    BY <1>1, <2>1 DEF ClusterType
<1>5. /\ a \in ClusterMaps /\ DOMAIN a = DOMAIN d.clusters
      /\ a[class].status = "proposal_created"
      /\ \A x \in DOMAIN a : x # class => a[x] = d.clusters[x]
  BY <1>2, <1>3, <1>4, UpdateFacts DEF ClusterMaps
<1>6. UpdateFailureCluster(d, class, "proposal_created") = [d EXCEPT !.clusters = a]
  BY <1>1, <1>2 DEF UpdateFailureCluster, Repository
<1>7. [d EXCEPT !.clusters = a].clusters = a
  BY DEF Repository
<1> QED
  BY ZenonT(40), <1>5, <1>6, <1>7, CoreFields

LEMMA ProposalStatus ==
    ASSUME NEW d \in Repository, NEW p \in DOMAIN d.proposals,
           NEW status \in DOMAIN ProposalTransitions
    PROVE  LET e == UpdateImprovementProposal(d, p, status) IN
           /\ e \in Repository
           /\ Core(e) = <<d.clusters, d.candidates, e.proposals, d.decisions, d.recorded, d.runs, d.evals>>
           /\ DOMAIN e.proposals = DOMAIN d.proposals
           /\ e.proposals[p].status = status
           /\ \A x \in DOMAIN e.proposals : x # p => e.proposals[x] = d.proposals[x]
           /\ \A x \in DOMAIN e.proposals : e.proposals[x].kind = d.proposals[x].kind
<1>1. PICK v : v = [d.proposals[p] EXCEPT !.status = status]
  OBVIOUS
<1>2. PICK a : a = [d.proposals EXCEPT ![p] = v]
  OBVIOUS
<1>3. d.proposals \in MapsOf(ProposalIds, ProposalType)
  BY DEF Repository, Proposals
<1>4. v \in ProposalType /\ v.status = status /\ v.kind = d.proposals[p].kind
  <2>1. d.proposals[p] \in ProposalType
    BY <1>3, MapFacts
  <2> QED
    BY <1>1, <2>1 DEF ProposalType
<1>5. /\ a \in Proposals /\ DOMAIN a = DOMAIN d.proposals
      /\ a[p].status = status
      /\ \A x \in DOMAIN a : x # p => a[x] = d.proposals[x]
      /\ \A x \in DOMAIN a : a[x].kind = d.proposals[x].kind
  BY <1>2, <1>3, <1>4, UpdateFacts DEF Proposals
<1>6. UpdateImprovementProposal(d, p, status) = [d EXCEPT !.proposals = a]
  BY <1>1, <1>2 DEF UpdateImprovementProposal, Repository
<1>7. [d EXCEPT !.proposals = a].proposals = a
  BY DEF Repository
<1> QED
  BY ZenonT(40), <1>5, <1>6, <1>7, CoreFields
\* A proposal starts without decisions and evaluations.
LEMMA NewProposalFacts ==
    ASSUME NEW d \in Repository, NEW id \in ProposalIds, NEW p \in ProposalType
    PROVE  LET e == CreateImprovementProposal(d, id, p) IN
           /\ e \in Repository
           /\ Core(e) = <<d.clusters, d.candidates, With(d.proposals, id, p), With(d.decisions, id, <<>>),
                          With(d.recorded, id, <<>>), With(d.runs, id, <<>>), d.evals>>
<1>1. PICK a : a = With(d.proposals, id, p)
  OBVIOUS
<1>2. PICK b : b = With(d.decisions, id, <<>>)
  OBVIOUS
<1>3. PICK r : r = With(d.recorded, id, <<>>)
  OBVIOUS
<1>4. PICK u : u = With(d.runs, id, <<>>)
  OBVIOUS
<1>5. a \in Proposals
  BY <1>1, WithFacts DEF Proposals, Repository
<1>6. b \in Decisions /\ r \in Decisions
  <2>1. <<>> \in Seq(DecisionTypes)
    OBVIOUS
  <2> QED
    BY <1>2, <1>3, <2>1, WithFacts DEF Decisions, Repository
<1>7. u \in EvalRuns
  <2>1. <<>> \in Seq(RunType)
    OBVIOUS
  <2> QED
    BY <1>4, <2>1, WithFacts DEF EvalRuns, Repository
<1>8. CreateImprovementProposal(d, id, p) =
        [d EXCEPT !.proposals = a, !.decisions = b, !.recorded = r, !.runs = u]
  BY <1>1, <1>2, <1>3, <1>4 DEF CreateImprovementProposal, Repository
<1>9. [d EXCEPT !.proposals = a, !.decisions = b, !.recorded = r, !.runs = u] \in Repository
  BY <1>5, <1>6, <1>7 DEF Repository
<1>10. Core([d EXCEPT !.proposals = a, !.decisions = b, !.recorded = r, !.runs = u]) =
        <<d.clusters, d.candidates, a, b, r, u, d.evals>>
  BY DEF Repository, Core
<1> QED
  BY <1>1, <1>2, <1>3, <1>4, <1>8, <1>9, <1>10

\* Where the decision is listed does not matter to what was recorded last.
LEMMA DecisionFacts ==
    ASSUME NEW d \in Repository, NEW p \in DOMAIN d.decisions, p \in DOMAIN d.recorded,
           NEW decision \in DecisionTypes, NEW before \in BOOLEAN
    PROVE  LET e == CreateProposalGovernanceDecision(d, p, decision, before) IN
           /\ e \in Repository
           /\ Core(e) = <<d.clusters, d.candidates, d.proposals, e.decisions, e.recorded, d.runs, d.evals>>
           /\ DOMAIN e.decisions = DOMAIN d.decisions
           /\ DOMAIN e.recorded = DOMAIN d.recorded
           /\ \A x \in DOMAIN d.recorded : x # p => e.recorded[x] = d.recorded[x]
           /\ Len(e.recorded[p]) > 0
           /\ e.recorded[p][Len(e.recorded[p])] = decision
           /\ e.runs = d.runs /\ e.proposals = d.proposals /\ e.evals = d.evals
<1>1. /\ d.decisions \in MapsOf(ProposalIds, Seq(DecisionTypes))
      /\ d.recorded \in MapsOf(ProposalIds, Seq(DecisionTypes))
  BY DEF Repository, Decisions
<1>2. d.decisions[p] \in Seq(DecisionTypes) /\ d.recorded[p] \in Seq(DecisionTypes)
  BY <1>1, MapFacts
<1>3. PICK old : old = d.decisions[p]
  OBVIOUS
<1>4. PICK listed : listed = IF before /\ Len(old) > 0
                             THEN SubSeq(old, 1, Len(old) - 1) \o <<decision, old[Len(old)]>>
                             ELSE Append(old, decision)
  OBVIOUS
<1>5. listed \in Seq(DecisionTypes)
  <2>1. CASE before /\ Len(old) > 0
    <3>1. old[Len(old)] \in DecisionTypes /\ Len(old) \in Nat
      BY <1>2, <1>3, <2>1
    <3>2. SubSeq(old, 1, Len(old) - 1) \in Seq(DecisionTypes)
      BY <1>2, <1>3, <2>1, <3>1
    <3>3. <<decision, old[Len(old)]>> \in Seq(DecisionTypes)
      BY <3>1
    <3> QED
      BY <1>4, <2>1, <3>2, <3>3
  <2>2. CASE ~(before /\ Len(old) > 0)
    BY <1>2, <1>3, <1>4, <2>2
  <2> QED
    BY <2>1, <2>2
<1>6. PICK saved : saved = Append(d.recorded[p], decision)
  OBVIOUS
<1>7. saved \in Seq(DecisionTypes) /\ Len(saved) > 0 /\ saved[Len(saved)] = decision
  BY <1>2, <1>6
<1>8. PICK a : a = [d.recorded EXCEPT ![p] = saved]
  OBVIOUS
<1>9. PICK b : b = [d.decisions EXCEPT ![p] = listed]
  OBVIOUS
<1>10. /\ a \in Decisions /\ DOMAIN a = DOMAIN d.recorded /\ a[p] = saved
       /\ \A x \in DOMAIN d.recorded : x # p => a[x] = d.recorded[x]
  BY <1>1, <1>7, <1>8, UpdateFacts DEF Decisions
<1>11. b \in Decisions /\ DOMAIN b = DOMAIN d.decisions
  BY <1>1, <1>5, <1>9, UpdateFacts DEF Decisions
<1>12. CreateProposalGovernanceDecision(d, p, decision, before) =
         [d EXCEPT !.recorded = a, !.decisions = b]
  <2>1. CreateProposalGovernanceDecision(d, p, decision, before) =
          [d EXCEPT !.recorded[p] = saved, !.decisions[p] = listed]
    BY <1>3, <1>4, <1>6, Zenon DEF CreateProposalGovernanceDecision
  <2> QED
    BY <1>8, <1>9, <2>1 DEF Repository
<1>13. PICK e : e = [d EXCEPT !.recorded = a, !.decisions = b]
  OBVIOUS
<1>14. e.recorded = a /\ e.decisions = b /\ e.runs = d.runs /\ e.proposals = d.proposals /\ e.evals = d.evals
  BY <1>13 DEF Repository
<1>15. /\ e \in Repository
       /\ Core(e) = <<d.clusters, d.candidates, d.proposals, b, a, d.runs, d.evals>>
  BY <1>10, <1>11, <1>13, CoreFields
<1>16. CreateProposalGovernanceDecision(d, p, decision, before) = e
  BY <1>12, <1>13
<1> HIDE DEF CreateProposalGovernanceDecision
<1> QED
  BY <1>7, <1>10, <1>11, <1>14, <1>15, <1>16

LEMMA EvalRunFacts ==
    ASSUME NEW d \in Repository, NEW p \in DOMAIN d.runs, NEW r \in Requirements,
           NEW status \in EvalRunStatuses
    PROVE  LET e == CreateProposalEvalRun(d, p, r, status) IN
           /\ e \in Repository
           /\ Core(e) = <<d.clusters, d.candidates, d.proposals, d.decisions, d.recorded, e.runs, d.evals>>
           /\ DOMAIN e.runs = DOMAIN d.runs
           /\ \A x \in DOMAIN d.runs : x # p => e.runs[x] = d.runs[x]
           /\ \A n \in DOMAIN e.runs[p] : \/ e.runs[p][n].requirement = r
                                          \/ n \in DOMAIN d.runs[p] /\ e.runs[p][n] = d.runs[p][n]
<1>1. d.runs \in MapsOf(ProposalIds, Seq(RunType))
  BY DEF Repository, EvalRuns
<1>2. d.runs[p] \in Seq(RunType)
  BY <1>1, MapFacts
<1>3. PICK run : run = [requirement |-> r, status |-> status]
  OBVIOUS
<1>4. run \in RunType /\ run.requirement = r
  BY <1>3 DEF RunType
<1>5. PICK s : s = Append(d.runs[p], run)
  OBVIOUS
<1>6. /\ s \in Seq(RunType)
      /\ \A n \in DOMAIN s : \/ s[n].requirement = r
                             \/ n \in DOMAIN d.runs[p] /\ s[n] = d.runs[p][n]
  <2>1. s \in Seq(RunType) /\ Len(s) = Len(d.runs[p]) + 1 /\ Len(d.runs[p]) \in Nat
    BY <1>2, <1>4, <1>5
  <2>2. ASSUME NEW n \in 1..Len(s)
        PROVE  \/ s[n].requirement = r
               \/ n \in 1..Len(d.runs[p]) /\ s[n] = d.runs[p][n]
    <3>1. CASE n = Len(s)
      BY <1>2, <1>4, <1>5, <2>1, <3>1
    <3>2. CASE n \in 1..Len(d.runs[p])
      BY <1>2, <1>4, <1>5, <2>1, <3>2
    <3> QED
      BY <2>1, <3>1, <3>2
  <2>3. DOMAIN s = 1..Len(s) /\ DOMAIN d.runs[p] = 1..Len(d.runs[p])
    BY <1>2, <2>1
  <2> QED
    BY <2>1, <2>2, <2>3
<1>7. PICK a : a = [d.runs EXCEPT ![p] = s]
  OBVIOUS
<1>8. /\ a \in EvalRuns /\ DOMAIN a = DOMAIN d.runs /\ a[p] = s
      /\ \A x \in DOMAIN d.runs : x # p => a[x] = d.runs[x]
  BY <1>1, <1>6, <1>7, UpdateFacts DEF EvalRuns
<1>9. CreateProposalEvalRun(d, p, r, status) = [d EXCEPT !.runs = a]
  BY <1>3, <1>5, <1>7 DEF CreateProposalEvalRun, Repository
<1>10. [d EXCEPT !.runs = a].runs = a
  BY DEF Repository
<1> QED
  BY ZenonT(40), <1>6, <1>8, <1>9, <1>10, CoreFields
(***************************************************************************)
(* Calls that leave clusters, candidates, proposals, decisions, runs and   *)
(* requirements alone                                                      *)
(***************************************************************************)

Quiet == TypeOK' /\ Core(db') = Core(db)

LEMMA KeysOfProposals ==
    ASSUME NEW d \in Repository
    PROVE  /\ DOMAIN d.proposals \subseteq ProposalIds
           /\ DOMAIN d.candidates \subseteq CandidateIds
           /\ DOMAIN d.clusters \subseteq Classes
           /\ DOMAIN d.drafts \subseteq ProposalIds
  BY MapFacts DEF Repository, Proposals, CandidateMaps, ClusterMaps, Drafts

LEMMA SignalIsQuiet == TypeOK /\ PostFailureSignal => Quiet
<1> SUFFICES ASSUME TypeOK, PostFailureSignal PROVE Quiet
  OBVIOUS
<1>1. PICK class \in Classes, severity \in Severities : db' = CreateFailureSignal(db, class, severity)
  BY DEF PostFailureSignal
<1>2. PICK v : v = [class |-> class, severity |-> severity]
  OBVIOUS
<1>3. v \in SignalType
  BY <1>2 DEF SignalType
<1>4. PICK s : s = Append(db.signals, v)
  OBVIOUS
<1>5. s \in Seq(SignalType)
  BY <1>3, <1>4 DEF TypeOK, Repository
<1>6. db' = [db EXCEPT !.signals = s]
  BY <1>1, <1>2, <1>4 DEF CreateFailureSignal
<1> QED
  BY <1>5, <1>6, SideFields DEF Quiet, TypeOK

LEMMA AnalyzedFacts ==
    ASSUME NEW d \in Repository, NEW class \in DOMAIN d.clusters
    PROVE  Analyzed(d, class) \in Repository /\ Core(Analyzed(d, class)) = Core(d)
<1>1. CASE class \in DOMAIN d.analyses
  BY <1>1 DEF Analyzed
<1>2. CASE class \notin DOMAIN d.analyses
  <2>1. d.clusters[class] \in ClusterType /\ class \in Classes
    BY MapFacts DEF Repository, ClusterMaps
  <2>2. PICK v : v = AnalysisOf(d, class)
    OBVIOUS
  <2>3. v \in AnalysisType
    BY <2>1, <2>2 DEF AnalysisOf, AnalysisType, ClusterType
  <2>4. PICK a : a = With(d.analyses, class, v)
    OBVIOUS
  <2>5. a \in Analyses
    BY <2>1, <2>3, <2>4, WithFacts DEF Analyses, Repository
  <2>6. Analyzed(d, class) = [d EXCEPT !.analyses = a]
    BY <1>2, <2>2, <2>4 DEF Analyzed, CreateAutoImprovementAnalysis
  <2> QED
    BY <2>5, <2>6, SideFields
<1> QED
  BY <1>1, <1>2

LEMMA AnalysisIsQuiet ==
    ASSUME TypeOK, NEW class \in Classes, AnalyzeFailureCluster(class) PROVE Quiet
  BY AnalyzedFacts DEF AnalyzeFailureCluster, TypeOK, Quiet

LEMMA DraftIsQuiet ==
    ASSUME TypeOK, NEW p \in DOMAIN db.proposals, PrepareDraftRegistryChange(p) PROVE Quiet
<1>1. CASE UNCHANGED db
  BY <1>1 DEF Quiet, TypeOK
<1>2. CASE db' = CreateDraftRegistryChange(db, p)
  <2>1. PICK a : a = With(db.drafts, p, "draft")
    OBVIOUS
  <2>2. a \in Drafts
    <3>1. "draft" \in DOMAIN DraftRegistryChangeTransitions
      BY DEF DraftRegistryChangeTransitions
    <3> QED
      BY <2>1, <3>1, KeysOfProposals, WithFacts DEF TypeOK, Repository, Drafts
  <2> QED
    BY <1>2, <2>1, <2>2, SideFields DEF TypeOK, Quiet, CreateDraftRegistryChange
<1> QED
  BY <1>1, <1>2 DEF PrepareDraftRegistryChange

LEMMA DraftTransitionIsQuiet ==
    ASSUME TypeOK, NEW p \in DOMAIN db.drafts, TransitionDraftChange(p) PROVE Quiet
<1>1. PICK status \in DraftRegistryChangeTransitions[db.drafts[p]] :
            db' = UpdateDraftRegistryChange(db, p, status)
  BY DEF TransitionDraftChange
<1>2. db.drafts[p] \in DOMAIN DraftRegistryChangeTransitions
  BY MapFacts DEF TypeOK, Repository, Drafts
<1>3. status \in DOMAIN DraftRegistryChangeTransitions
  BY <1>1, <1>2 DEF DraftRegistryChangeTransitions
<1>4. PICK a : a = [db.drafts EXCEPT ![p] = status]
  OBVIOUS
<1>5. a \in Drafts
  BY <1>3, <1>4, UpdateFacts DEF TypeOK, Repository, Drafts
<1>6. db' = [db EXCEPT !.drafts = a]
  BY <1>1, <1>4 DEF UpdateDraftRegistryChange, TypeOK, Repository
<1> QED
  BY <1>5, <1>6, SideFields DEF Quiet, TypeOK

LEMMA ReasonsTyped ==
    ASSUME NEW d, NEW p PROVE BlockingReasons(d, p) \in SUBSET Reasons
  BY DEF BlockingReasons, Reasons

LEMMA ReadinessIsQuiet ==
    ASSUME TypeOK, NEW p \in DOMAIN db.proposals, EvaluateProposalReadiness(p) PROVE Quiet
<1>1. PICK v : v = BlockingReasons(db, p)
  OBVIOUS
<1>2. PICK a : a = With(db.readiness, p, v)
  OBVIOUS
<1>3. v \in SUBSET Reasons
  BY <1>1, ReasonsTyped
<1>4. a \in Readiness
  BY <1>2, <1>3, KeysOfProposals, WithFacts DEF TypeOK, Repository, Readiness
<1>5. db' = [db EXCEPT !.readiness = a]
  BY <1>1, <1>2 DEF EvaluateProposalReadiness
<1> QED
  BY <1>4, <1>5, SideFields DEF Quiet, TypeOK

LEMMA CanaryIsQuiet ==
    ASSUME TypeOK, NEW p \in DOMAIN db.proposals, EvaluateCanaryReadiness(p) PROVE Quiet
<1>1. PICK v : v = (~db.policy.requireCanary \/ CanaryReadyForProposal(db, p))
  OBVIOUS
<1>2. PICK a : a = With(db.canary, p, v)
  OBVIOUS
<1>3. v \in BOOLEAN
  BY <1>1
<1>4. p \in ProposalIds
  BY KeysOfProposals DEF TypeOK
<1>5. a \in Canaries
  BY <1>2, <1>3, <1>4, WithFacts DEF TypeOK, Repository, Canaries
<1>6. PICK e : e = [db EXCEPT !.canary = a]
  OBVIOUS
<1>7. e \in Repository /\ Core(e) = Core(db)
  BY <1>5, <1>6, SideFields DEF TypeOK
<1>8. db' = AppendAudit(e, "proposal_canary_readiness_checked", p)
  BY <1>1, <1>2, <1>6, Zenon DEF EvaluateCanaryReadiness
<1> QED
  BY <1>4, <1>7, <1>8, AuditFacts DEF Quiet, TypeOK, AuditActions

LEMMA GateIsQuiet ==
    ASSUME TypeOK, NEW p \in DOMAIN db.proposals, EvaluateApplyGate(p) PROVE Quiet
<1>1. PICK denied : denied = IF Allowed([Request("improvement.apply", "draft_registry_change")
                                           EXCEPT !.roles = {"registry_admin"}])
                             THEN {} ELSE {"policy_denied_improvement_apply"}
  OBVIOUS
<1>2. PICK v : v = [canApply |-> FALSE,
                    reasons  |-> {"active_apply_not_implemented"} \union denied
                                 \union BlockingReasons(db, p)]
  OBVIOUS
<1>3. v \in GateType
  <2>1. denied \in SUBSET Reasons
    BY <1>1 DEF Reasons
  <2>2. {"active_apply_not_implemented"} \in SUBSET Reasons
    BY DEF Reasons
  <2> QED
    BY <1>2, <2>1, <2>2, ReasonsTyped DEF GateType
<1>4. p \in ProposalIds
  BY KeysOfProposals DEF TypeOK
<1>5. PICK a : a = With(db.gates, p, v)
  OBVIOUS
<1>6. a \in Gates
  BY <1>3, <1>4, <1>5, WithFacts DEF TypeOK, Repository, Gates
<1>7. PICK e : e = [db EXCEPT !.gates = a]
  OBVIOUS
<1>8. e \in Repository /\ Core(e) = Core(db)
  BY <1>6, <1>7, SideFields DEF TypeOK
<1>9. db' = AppendAudit(AppendAudit(e, "proposal_apply_gate_checked", p), "proposal_apply_blocked", p)
  BY <1>1, <1>2, <1>5, <1>7, Zenon DEF EvaluateApplyGate
<1>10. PICK f : f = AppendAudit(e, "proposal_apply_gate_checked", p)
  OBVIOUS
<1>11. f \in Repository /\ Core(f) = Core(db)
  BY <1>4, <1>8, <1>10, AuditFacts DEF AuditActions
<1> QED
  BY <1>4, <1>9, <1>10, <1>11, AuditFacts DEF Quiet, TypeOK, AuditActions

LEMMA PlanIsQuiet == TypeOK /\ CreatePlan => Quiet
<1> SUFFICES ASSUME TypeOK, CreatePlan PROVE Quiet
  OBVIOUS
<1>1. PICK p \in DOMAIN db.proposals, status \in {"draft", "ready"} :
            db' = [db EXCEPT !.plans = @ \union {<<p, status>>}]
  BY DEF CreatePlan
<1>2. PICK a : a = db.plans \union {<<p, status>>}
  OBVIOUS
<1>3. a \in SUBSET (ProposalIds \X PlanStatuses)
  BY <1>2, KeysOfProposals DEF TypeOK, Repository, PlanStatuses
<1>4. db' = [db EXCEPT !.plans = a]
  BY <1>1, <1>2
<1> QED
  BY <1>3, <1>4, SideFields DEF Quiet, TypeOK

LEMMA PolicyIsQuiet == TypeOK /\ UpdatePolicy => Quiet
<1> SUFFICES ASSUME TypeOK, UpdatePolicy PROVE Quiet
  OBVIOUS
<1>1. PICK gate \in {"requireHumanApproval", "requireEvalPassed", "requireCanary"}, on \in BOOLEAN :
            db' = [db EXCEPT !.policy[gate] = on]
  BY DEF UpdatePolicy
<1>2. PICK a : a = [db.policy EXCEPT ![gate] = on]
  OBVIOUS
<1>3. a \in PolicyType
  BY <1>2 DEF PolicyType, TypeOK, Repository
<1>4. db' = [db EXCEPT !.policy = a]
  BY <1>1, <1>2 DEF TypeOK, Repository
<1> QED
  BY <1>3, <1>4, SideFields DEF Quiet, TypeOK
(***************************************************************************)
(* Calls that change the core                                              *)
(***************************************************************************)

LEMMA QuietStep == ImprovementInv /\ Quiet => ImprovementInv'
<1> SUFFICES ASSUME ImprovementInv, Quiet PROVE ImprovementInv'
  OBVIOUS
<1>1. /\ db'.clusters = db.clusters /\ db'.candidates = db.candidates
      /\ db'.proposals = db.proposals /\ db'.decisions = db.decisions
      /\ db'.recorded = db.recorded /\ db'.runs = db.runs /\ db'.evals = db.evals
  BY DEF Quiet, Core
<1> QED
  BY <1>1 DEF Quiet, ImprovementInv, KeyedAlike, Derived, ClustersKeepProposals, VerdictCloses, RunsFit

\* A recomputed cluster keeps its status, and none disappears.
LEMMA RecomputeStep == ImprovementInv /\ RecomputeClusters => ImprovementInv'
<1> SUFFICES ASSUME ImprovementInv, RecomputeClusters PROVE ImprovementInv'
  OBVIOUS
<1>1. PICK present : present = {db.signals[n].class : n \in DOMAIN db.signals}
  OBVIOUS
<1>2. PICK a : a = [c \in present \cup DOMAIN db.clusters |->
                       IF c \in present THEN ClusterOf(db, c) ELSE db.clusters[c]]
  OBVIOUS
<1>3. db \in Repository
  BY DEF ImprovementInv, TypeOK
<1>4. db.clusters \in MapsOf(Classes, ClusterType) /\ db.signals \in Seq(SignalType)
  BY <1>3 DEF Repository, ClusterMaps
<1>5. present \subseteq Classes /\ DOMAIN db.clusters \subseteq Classes
  <2>1. \A n \in DOMAIN db.signals : db.signals[n] \in SignalType
    BY <1>4
  <2> QED
    BY <1>1, <1>4, <2>1, MapFacts DEF SignalType
<1>6. ASSUME NEW c \in present
      PROVE  /\ ClusterOf(db, c) \in ClusterType
             /\ c \in DOMAIN db.clusters => ClusterOf(db, c).status = db.clusters[c].status
  <2>1. PICK s : s = {n \in DOMAIN db.signals : db.signals[n].class = c}
    OBVIOUS
  <2>2. PICK h : h = HighestSeverity(db, c)
    OBVIOUS
  <2>3. PICK t : t = IF c \in DOMAIN db.clusters THEN db.clusters[c].status ELSE "open"
    OBVIOUS
  <2>4. s \in SUBSET Nat
    BY <1>4, <2>1
  <2>5. h \in Severities
    BY <2>2 DEF HighestSeverity, Severities
  <2>6. t \in {"open", "proposal_created"}
    <3>1. c \in DOMAIN db.clusters => db.clusters[c] \in ClusterType
      BY <1>4, MapFacts
    <3> QED
      BY <2>3, <3>1 DEF ClusterType
  <2>7. ClusterOf(db, c) = [signals |-> s, severity |-> h, status |-> t]
    BY <2>1, <2>2, <2>3 DEF ClusterOf
  <2> QED
    BY <2>3, <2>4, <2>5, <2>6, <2>7 DEF ClusterType
<1>7. a \in ClusterMaps
  <2>1. \A c \in DOMAIN db.clusters : db.clusters[c] \in ClusterType
    BY <1>4, MapFacts
  <2>2. a \in [present \cup DOMAIN db.clusters -> ClusterType]
    BY <1>2, <1>6, <2>1
  <2> QED
    BY <1>5, <2>2, MapIntro DEF ClusterMaps
<1>8. /\ DOMAIN db.clusters \subseteq DOMAIN a
      /\ \A c \in DOMAIN db.clusters : a[c].status = db.clusters[c].status
  BY <1>2, <1>6
<1>9. db' = [db EXCEPT !.clusters = a]
  BY <1>1, <1>2, Zenon DEF RecomputeClusters
<1>10. /\ db' \in Repository
       /\ Core(db') = <<a, db.candidates, db.proposals, db.decisions, db.recorded, db.runs, db.evals>>
  BY <1>3, <1>7, <1>9, CoreFields
<1>11. /\ db'.clusters = a /\ db'.candidates = db.candidates
       /\ db'.proposals = db.proposals /\ db'.decisions = db.decisions
       /\ db'.recorded = db.recorded /\ db'.runs = db.runs /\ db'.evals = db.evals
  BY <1>10 DEF Core
<1>12. TypeOK' /\ KeyedAlike' /\ VerdictCloses' /\ RunsFit'
  BY <1>10, <1>11 DEF ImprovementInv, TypeOK, KeyedAlike, VerdictCloses, RunsFit
<1>13. Derived' /\ ClustersKeepProposals'
  BY <1>8, <1>11 DEF ImprovementInv, Derived, ClustersKeepProposals
<1> QED
  BY <1>12, <1>13 DEF ImprovementInv

\* A candidate that is new has no proposal of the engine yet.
LEMMA NewCandidateStep ==
    ASSUME ImprovementInv, NEW d \in Repository, Core(d) = Core(db),
           NEW id \in CandidateIds \ DOMAIN db.candidates, NEW c \in CandidateType,
           c.class \in DOMAIN db.clusters, db' = CreateImprovementCandidate(d, id, c)
    PROVE  ImprovementInv'
<1>1. /\ d.clusters = db.clusters /\ d.candidates = db.candidates
      /\ d.proposals = db.proposals /\ d.decisions = db.decisions
      /\ d.recorded = db.recorded /\ d.runs = db.runs /\ d.evals = db.evals
  BY DEF Core
<1>2. /\ db' \in Repository
      /\ Core(db') = <<d.clusters, With(d.candidates, id, c), d.proposals, d.decisions,
                       d.recorded, d.runs, d.evals>>
  BY NewCandidate
<1>3. /\ db'.clusters = db.clusters /\ db'.candidates = With(db.candidates, id, c)
      /\ db'.proposals = db.proposals /\ db'.decisions = db.decisions
      /\ db'.recorded = db.recorded /\ db'.runs = db.runs /\ db'.evals = db.evals
  BY <1>1, <1>2 DEF Core
<1>4. /\ DOMAIN db'.candidates = {id} \cup DOMAIN db.candidates
      /\ db'.candidates[id] = c
      /\ \A x \in DOMAIN db.candidates : db'.candidates[x] = db.candidates[x]
  <2>1. /\ DOMAIN With(db.candidates, id, c) = {id} \cup DOMAIN db.candidates
        /\ With(db.candidates, id, c)[id] = c
        /\ \A x \in DOMAIN db.candidates : x # id => With(db.candidates, id, c)[x] = db.candidates[x]
    BY DEF With
  <2> QED
    BY <1>3, <2>1
<1>5. TypeOK' /\ KeyedAlike' /\ VerdictCloses' /\ RunsFit'
  BY <1>2, <1>3 DEF ImprovementInv, TypeOK, KeyedAlike, VerdictCloses, RunsFit
<1>6. Derived'
  BY <1>3, <1>4 DEF ImprovementInv, Derived
<1>7. AutoProposal(id) \notin DOMAIN db.proposals
  BY DEF ImprovementInv, Derived
<1>8. ClustersKeepProposals'
  BY <1>3, <1>4, <1>7 DEF ImprovementInv, ClustersKeepProposals
<1> QED
  BY <1>5, <1>6, <1>8 DEF ImprovementInv

LEMMA GenerateCandidateStep ==
    ASSUME ImprovementInv, NEW class \in Classes, GenerateImprovementCandidate(class)
    PROVE  ImprovementInv'
<1>1. db \in Repository /\ class \in DOMAIN db.clusters
  BY DEF ImprovementInv, TypeOK, GenerateImprovementCandidate
<1>2. PICK d : d = Analyzed(db, class)
  OBVIOUS
<1>3. d \in Repository /\ Core(d) = Core(db)
  BY <1>1, <1>2, AnalyzedFacts
<1>4. d.candidates = db.candidates
  BY <1>3 DEF Core
<1>5. CASE AutoCandidate(class) \in DOMAIN d.candidates
  <2>1. db' = d
    BY <1>2, <1>5 DEF GenerateImprovementCandidate
  <2> QED
    BY <1>3, <2>1, QuietStep DEF Quiet, TypeOK
<1>6. CASE AutoCandidate(class) \notin DOMAIN d.candidates
  <2>1. PICK c : c = [class    |-> class,
                      kind     |-> KindOfClass[class],
                      priority |-> IF d.analyses[class].confident THEN "high" ELSE "medium",
                      status   |-> "new"]
    OBVIOUS
  <2>2. c \in CandidateType /\ c.class = class
    BY <2>1, ImprovementAssumption DEF CandidateType, CandidateStatuses
  <2>3. AutoCandidate(class) \in CandidateIds
    BY DEF AutoCandidate, CandidateIds
  <2>4. db' = CreateImprovementCandidate(d, AutoCandidate(class), c)
    BY <1>2, <1>6, <2>1 DEF GenerateImprovementCandidate
  <2> QED
    BY <1>1, <1>3, <1>4, <1>6, <2>2, <2>3, <2>4, NewCandidateStep
<1> QED
  BY <1>5, <1>6

LEMMA CreateCandidateStep ==
    ASSUME ImprovementInv, NEW class \in Classes, CreateCandidateFromCluster(class)
    PROVE  ImprovementInv'
<1>1. PICK k \in 1..MaxManual, kind \in TargetKinds :
        /\ class \in DOMAIN db.clusters
        /\ <<"manual", k>> \notin DOMAIN db.candidates
        /\ db' = CreateImprovementCandidate(db, <<"manual", k>>,
                    [class |-> class, kind |-> kind, priority |-> db.clusters[class].severity,
                     status |-> "new"])
  BY DEF CreateCandidateFromCluster
<1>2. PICK c : c = [class |-> class, kind |-> kind, priority |-> db.clusters[class].severity,
                    status |-> "new"]
  OBVIOUS
<1>3. db \in Repository
  BY DEF ImprovementInv, TypeOK
<1>4. c \in CandidateType /\ c.class = class
  <2>1. db.clusters[class] \in ClusterType
    BY <1>1, <1>3, MapFacts DEF Repository, ClusterMaps
  <2> QED
    BY <1>2, <2>1 DEF CandidateType, ClusterType, CandidateStatuses, Severities
<1>5. <<"manual", k>> \in CandidateIds
  BY <1>1 DEF CandidateIds
<1> QED
  BY <1>1, <1>2, <1>3, <1>4, <1>5, NewCandidateStep

\* A candidate's status is nobody else's business.
LEMMA TriageStep ==
    ASSUME ImprovementInv, NEW c \in DOMAIN db.candidates, TriageCandidate(c)
    PROVE  ImprovementInv'
<1>1. PICK status \in CandidateStatuses : db' = UpdateImprovementCandidate(db, c, status)
  BY DEF TriageCandidate
<1>2. /\ db' \in Repository
      /\ Core(db') = <<db.clusters, db'.candidates, db.proposals, db.decisions, db.recorded, db.runs, db.evals>>
      /\ DOMAIN db'.candidates = DOMAIN db.candidates
      /\ \A x \in DOMAIN db'.candidates : db'.candidates[x].class = db.candidates[x].class
  BY <1>1, CandidateStatus DEF ImprovementInv, TypeOK
<1>3. /\ db'.clusters = db.clusters
      /\ db'.proposals = db.proposals /\ db'.decisions = db.decisions
      /\ db'.recorded = db.recorded /\ db'.runs = db.runs /\ db'.evals = db.evals
  BY <1>2 DEF Core
<1>4. TypeOK' /\ KeyedAlike' /\ VerdictCloses' /\ RunsFit'
  BY <1>2, <1>3 DEF ImprovementInv, TypeOK, KeyedAlike, VerdictCloses, RunsFit
<1>5. Derived' /\ ClustersKeepProposals'
  BY <1>2, <1>3 DEF ImprovementInv, Derived, ClustersKeepProposals
<1> QED
  BY <1>4, <1>5 DEF ImprovementInv

\* A proposal is created and its candidate marked, by the engine or by hand.
LEMMA ProposalMade ==
    ASSUME ImprovementInv, NEW c \in DOMAIN db.candidates,
           NEW id \in ProposalIds, id \notin DOMAIN db.proposals,
           NEW e, e = UpdateImprovementCandidate(
                        CreateImprovementProposal(db, id, NewProposal(db, c)), c, "proposal_created")
    PROVE  /\ e \in Repository
           /\ e.clusters = db.clusters /\ e.evals = db.evals
           /\ DOMAIN e.candidates = DOMAIN db.candidates
           /\ \A x \in DOMAIN e.candidates : e.candidates[x].class = db.candidates[x].class
           /\ DOMAIN e.proposals = {id} \cup DOMAIN db.proposals
           /\ DOMAIN e.decisions = DOMAIN e.proposals
           /\ DOMAIN e.recorded = DOMAIN e.proposals
           /\ DOMAIN e.runs = DOMAIN e.proposals
           /\ e.recorded[id] = <<>> /\ e.runs[id] = <<>>
           /\ \A x \in DOMAIN db.proposals :
                 /\ e.proposals[x] = db.proposals[x]
                 /\ e.recorded[x] = db.recorded[x]
                 /\ e.runs[x] = db.runs[x]
<1>1. db \in Repository /\ KeyedAlike
  BY DEF ImprovementInv, TypeOK
<1>2. PICK p : p = NewProposal(db, c)
  OBVIOUS
<1>3. p \in ProposalType
  <2>1. db.candidates[c] \in CandidateType /\ c \in CandidateIds
    BY <1>1, MapFacts DEF Repository, CandidateMaps
  <2> QED
    BY <1>2, <2>1 DEF NewProposal, CandidateType, ProposalType, ProposalTransitions
<1>4. PICK d : d = CreateImprovementProposal(db, id, p)
  OBVIOUS
<1>5. /\ d \in Repository
      /\ Core(d) = <<db.clusters, db.candidates, With(db.proposals, id, p), With(db.decisions, id, <<>>),
                     With(db.recorded, id, <<>>), With(db.runs, id, <<>>), db.evals>>
  BY <1>1, <1>3, <1>4, NewProposalFacts
<1>6. /\ d.clusters = db.clusters /\ d.candidates = db.candidates /\ d.evals = db.evals
      /\ d.proposals = With(db.proposals, id, p) /\ d.decisions = With(db.decisions, id, <<>>)
      /\ d.recorded = With(db.recorded, id, <<>>) /\ d.runs = With(db.runs, id, <<>>)
  BY <1>5 DEF Core
<1>7. e = UpdateImprovementCandidate(d, c, "proposal_created")
  BY <1>2, <1>4
<1>8. /\ e \in Repository
      /\ Core(e) = <<d.clusters, e.candidates, d.proposals, d.decisions, d.recorded, d.runs, d.evals>>
      /\ DOMAIN e.candidates = DOMAIN d.candidates
      /\ \A x \in DOMAIN e.candidates : e.candidates[x].class = d.candidates[x].class
  <2>1. "proposal_created" \in CandidateStatuses
    BY DEF CandidateStatuses
  <2> QED
    BY <1>5, <1>6, <1>7, <2>1, CandidateStatus
<1>9. /\ e.clusters = db.clusters /\ e.evals = db.evals
      /\ e.proposals = With(db.proposals, id, p) /\ e.decisions = With(db.decisions, id, <<>>)
      /\ e.recorded = With(db.recorded, id, <<>>) /\ e.runs = With(db.runs, id, <<>>)
  BY <1>6, <1>8 DEF Core
<1>10. /\ DOMAIN e.proposals = {id} \cup DOMAIN db.proposals
       /\ e.proposals[id] = p
       /\ \A x \in DOMAIN db.proposals : e.proposals[x] = db.proposals[x]
  BY <1>9 DEF With
<1>11. /\ DOMAIN e.decisions = {id} \cup DOMAIN db.proposals
       /\ DOMAIN e.recorded = {id} \cup DOMAIN db.proposals
       /\ DOMAIN e.runs = {id} \cup DOMAIN db.proposals
  BY <1>1, <1>9 DEF With, KeyedAlike
<1>12. /\ e.recorded[id] = <<>> /\ e.runs[id] = <<>>
       /\ \A x \in DOMAIN db.proposals : e.recorded[x] = db.recorded[x] /\ e.runs[x] = db.runs[x]
  BY <1>1, <1>9 DEF With, KeyedAlike
<1> QED
  BY <1>3, <1>6, <1>8, <1>9, <1>10, <1>11, <1>12

LEMMA CreateProposalStep ==
    ASSUME ImprovementInv, NEW c \in DOMAIN db.candidates, CreateDraftProposal(c)
    PROVE  ImprovementInv'
<1>1. PICK k \in 1..MaxManual :
        /\ <<"manual", k>> \notin DOMAIN db.proposals
        /\ db' = UpdateImprovementCandidate(
                    CreateImprovementProposal(db, <<"manual", k>>, NewProposal(db, c)),
                    c, "proposal_created")
  BY DEF CreateDraftProposal
<1>2. PICK id : id = <<"manual", k>>
  OBVIOUS
<1>3. id \in ProposalIds /\ \A x \in CandidateIds : AutoProposal(x) # id
  BY <1>2 DEF ProposalIds, AutoProposal
<1>4. /\ db' \in Repository
      /\ db'.clusters = db.clusters /\ db'.evals = db.evals
      /\ DOMAIN db'.candidates = DOMAIN db.candidates
      /\ \A x \in DOMAIN db'.candidates : db'.candidates[x].class = db.candidates[x].class
      /\ DOMAIN db'.proposals = {id} \cup DOMAIN db.proposals
      /\ DOMAIN db'.decisions = DOMAIN db'.proposals
      /\ DOMAIN db'.recorded = DOMAIN db'.proposals
      /\ DOMAIN db'.runs = DOMAIN db'.proposals
      /\ db'.recorded[id] = <<>> /\ db'.runs[id] = <<>>
      /\ \A x \in DOMAIN db.proposals :
            /\ db'.proposals[x] = db.proposals[x]
            /\ db'.recorded[x] = db.recorded[x]
            /\ db'.runs[x] = db.runs[x]
  BY <1>1, <1>2, <1>3, ProposalMade
<1>5. TypeOK' /\ KeyedAlike'
  BY <1>4 DEF TypeOK, KeyedAlike
<1>6. Derived'
  BY <1>3, <1>4 DEF ImprovementInv, Derived
<1>7. ClustersKeepProposals'
  <2>1. DOMAIN db.candidates \subseteq CandidateIds
    BY KeysOfProposals DEF ImprovementInv, TypeOK
  <2> QED
    BY <1>3, <1>4, <2>1 DEF ImprovementInv, ClustersKeepProposals
<1>8. VerdictCloses' /\ RunsFit'
  BY <1>4 DEF ImprovementInv, VerdictCloses, RunsFit
<1> QED
  BY <1>5, <1>6, <1>7, <1>8 DEF ImprovementInv

\* The engine marks the cluster of the proposal; those of others keep their mark.
LEMMA GenerateProposalStep ==
    ASSUME ImprovementInv, NEW c \in DOMAIN db.candidates, GenerateImprovementProposal(c)
    PROVE  ImprovementInv'
<1>1. CASE AutoProposal(c) \in DOMAIN db.proposals
  <2>1. UNCHANGED db
    BY <1>1 DEF GenerateImprovementProposal
  <2> QED
    BY <2>1, QuietStep DEF Quiet, ImprovementInv, TypeOK
<1>2. CASE AutoProposal(c) \notin DOMAIN db.proposals
  <2>1. PICK id : id = AutoProposal(c)
    OBVIOUS
  <2>2. PICK class : class = db.candidates[c].class
    OBVIOUS
  <2>3. PICK d : d = UpdateImprovementCandidate(
                       CreateImprovementProposal(db, id, NewProposal(db, c)), c, "proposal_created")
    OBVIOUS
  <2>4. db' = UpdateFailureCluster(d, class, "proposal_created")
    BY <1>2, <2>1, <2>2, <2>3, Zenon DEF GenerateImprovementProposal
  <2>5. DOMAIN db.candidates \subseteq CandidateIds
    BY KeysOfProposals DEF ImprovementInv, TypeOK
  <2>6. id \in ProposalIds /\ \A x \in CandidateIds : AutoProposal(x) = id => x = c
    BY <2>1, <2>5 DEF ProposalIds, AutoProposal
  <2>7. /\ d \in Repository
        /\ d.clusters = db.clusters /\ d.evals = db.evals
        /\ DOMAIN d.candidates = DOMAIN db.candidates
        /\ \A x \in DOMAIN d.candidates : d.candidates[x].class = db.candidates[x].class
        /\ DOMAIN d.proposals = {id} \cup DOMAIN db.proposals
        /\ DOMAIN d.decisions = DOMAIN d.proposals
        /\ DOMAIN d.recorded = DOMAIN d.proposals
        /\ DOMAIN d.runs = DOMAIN d.proposals
        /\ d.recorded[id] = <<>> /\ d.runs[id] = <<>>
        /\ \A x \in DOMAIN db.proposals :
              /\ d.proposals[x] = db.proposals[x]
              /\ d.recorded[x] = db.recorded[x]
              /\ d.runs[x] = db.runs[x]
    BY <1>2, <2>1, <2>2, <2>3, <2>6, ProposalMade
  <2>8. class \in DOMAIN d.clusters
    BY <2>2, <2>7 DEF ImprovementInv, Derived
  <2>9. /\ db' \in Repository
        /\ Core(db') = <<db'.clusters, d.candidates, d.proposals, d.decisions, d.recorded, d.runs, d.evals>>
        /\ DOMAIN db'.clusters = DOMAIN d.clusters
        /\ db'.clusters[class].status = "proposal_created"
        /\ \A x \in DOMAIN db'.clusters : x # class => db'.clusters[x] = d.clusters[x]
    BY <2>4, <2>7, <2>8, ClusterStatus
  <2>10. /\ db'.candidates = d.candidates /\ db'.proposals = d.proposals
         /\ db'.decisions = d.decisions /\ db'.recorded = d.recorded
         /\ db'.runs = d.runs /\ db'.evals = d.evals
    BY <2>9 DEF Core
  <2>11. TypeOK' /\ KeyedAlike'
    BY <2>7, <2>9, <2>10 DEF TypeOK, KeyedAlike
  <2>12. Derived'
    BY <2>6, <2>7, <2>9, <2>10 DEF ImprovementInv, Derived
  <2>13. ClustersKeepProposals'
    <3> SUFFICES ASSUME NEW x \in DOMAIN db'.candidates, AutoProposal(x) \in DOMAIN db'.proposals
                 PROVE  db'.clusters[db'.candidates[x].class].status = "proposal_created"
      BY DEF ClustersKeepProposals
    <3>1. x \in DOMAIN db.candidates /\ x \in CandidateIds /\ db'.candidates[x].class = db.candidates[x].class
      BY <2>5, <2>7, <2>10
    <3>2. CASE x = c
      BY <2>1, <2>2, <2>7, <2>9, <2>10, <3>1, <3>2
    <3>3. CASE x # c
      <4>1. AutoProposal(x) \in DOMAIN db.proposals
        BY <2>6, <2>7, <2>10, <3>1, <3>3
      <4>2. /\ db.clusters[db.candidates[x].class].status = "proposal_created"
            /\ db.candidates[x].class \in DOMAIN db.clusters
        BY <3>1, <4>1 DEF ImprovementInv, ClustersKeepProposals, Derived
      <4> QED
        BY <2>7, <2>9, <2>10, <3>1, <4>1, <4>2
    <3> QED
      BY <3>2, <3>3
  <2>14. VerdictCloses' /\ RunsFit'
    BY <2>7, <2>10 DEF ImprovementInv, VerdictCloses, RunsFit
  <2> QED
    BY <2>11, <2>12, <2>13, <2>14 DEF ImprovementInv
<1> QED
  BY <1>1, <1>2

\* The table of transitions leads out of a closed status to no open one.
LEMMA TransitionStep ==
    ASSUME ImprovementInv, NEW p \in DOMAIN db.proposals, TransitionProposalStatus(p)
    PROVE  ImprovementInv'
<1>1. PICK status \in ProposalTransitions[db.proposals[p].status] \ {"applied"} :
            db' = UpdateImprovementProposal(db, p, status)
  BY DEF TransitionProposalStatus
<1>2. db \in Repository
  BY DEF ImprovementInv, TypeOK
<1>3. db.proposals[p].status \in DOMAIN ProposalTransitions
  <2>1. db.proposals[p] \in ProposalType
    BY <1>2, MapFacts DEF Repository, Proposals
  <2> QED
    BY <2>1 DEF ProposalType
<1>4. /\ status \in DOMAIN ProposalTransitions
      /\ db.proposals[p].status \in {"rejected", "archived"} => status \in {"rejected", "archived"}
  BY <1>1, <1>3 DEF ProposalTransitions
<1>5. /\ db' \in Repository
      /\ Core(db') = <<db.clusters, db.candidates, db'.proposals, db.decisions, db.recorded, db.runs, db.evals>>
      /\ DOMAIN db'.proposals = DOMAIN db.proposals
      /\ db'.proposals[p].status = status
      /\ \A x \in DOMAIN db'.proposals : x # p => db'.proposals[x] = db.proposals[x]
      /\ \A x \in DOMAIN db'.proposals : db'.proposals[x].kind = db.proposals[x].kind
  BY <1>1, <1>2, <1>4, ProposalStatus
<1>6. /\ db'.clusters = db.clusters /\ db'.candidates = db.candidates /\ db'.decisions = db.decisions
      /\ db'.recorded = db.recorded /\ db'.runs = db.runs /\ db'.evals = db.evals
  BY <1>5 DEF Core
<1>7. TypeOK' /\ KeyedAlike' /\ Derived'
  BY <1>5, <1>6 DEF ImprovementInv, TypeOK, KeyedAlike, Derived
<1>8. ClustersKeepProposals'
  BY <1>5, <1>6 DEF ImprovementInv, ClustersKeepProposals
<1>9. VerdictCloses'
  BY <1>4, <1>5, <1>6 DEF ImprovementInv, VerdictCloses
<1>10. RunsFit'
  BY <1>5, <1>6 DEF ImprovementInv, RunsFit
<1> QED
  BY <1>7, <1>8, <1>9, <1>10 DEF ImprovementInv

LEMMA DecidedStatus ==
    ASSUME NEW d, NEW p, NEW decision \in DecisionTypes
    PROVE  /\ StatusForDecision(d, p, decision) \in DOMAIN ProposalTransitions
           /\ decision = "reject" => StatusForDecision(d, p, decision) = "rejected"
           /\ decision = "archive" => StatusForDecision(d, p, decision) = "archived"
  BY DEF StatusForDecision, DecisionTypes, ProposalTransitions

\* A decision is recorded and sets the status in one step.
LEMMA DecisionStep ==
    ASSUME ImprovementInv, NEW p \in DOMAIN db.proposals, RecordDecision(p)
    PROVE  ImprovementInv'
<1>1. PICK decision \in DecisionTypes, before \in BOOLEAN :
        LET d1 == CreateProposalGovernanceDecision(db, p, decision, before)
            d2 == UpdateImprovementProposal(d1, p, StatusForDecision(d1, p, decision))
            d3 == AppendAudit(d2, "proposal_decision_recorded", p)
        IN  db' = CASE decision = "approve"         -> AppendAudit(d3, "proposal_approved", p)
                    [] decision = "reject"          -> AppendAudit(d3, "proposal_rejected", p)
                    [] decision = "request_changes" -> AppendAudit(d3, "proposal_changes_requested", p)
                    [] OTHER                        -> d3
  BY Zenon DEF RecordDecision
<1>2. db \in Repository /\ KeyedAlike /\ p \in ProposalIds
  BY KeysOfProposals DEF ImprovementInv, TypeOK
<1>3. PICK d1 : d1 = CreateProposalGovernanceDecision(db, p, decision, before)
  OBVIOUS
<1>4. /\ d1 \in Repository
      /\ Core(d1) = <<db.clusters, db.candidates, db.proposals, d1.decisions, d1.recorded, db.runs, db.evals>>
      /\ DOMAIN d1.decisions = DOMAIN db.decisions
      /\ DOMAIN d1.recorded = DOMAIN db.recorded
      /\ \A x \in DOMAIN db.recorded : x # p => d1.recorded[x] = db.recorded[x]
      /\ d1.recorded[p][Len(d1.recorded[p])] = decision
  BY <1>2, <1>3, DecisionFacts DEF KeyedAlike
<1>5. /\ d1.clusters = db.clusters /\ d1.candidates = db.candidates /\ d1.proposals = db.proposals
      /\ d1.runs = db.runs /\ d1.evals = db.evals
  BY <1>4 DEF Core
<1>6. PICK status : status = StatusForDecision(d1, p, decision)
  OBVIOUS
<1>7. PICK d2 : d2 = UpdateImprovementProposal(d1, p, status)
  OBVIOUS
<1>8. /\ d2 \in Repository
      /\ Core(d2) = <<d1.clusters, d1.candidates, d2.proposals, d1.decisions, d1.recorded, d1.runs, d1.evals>>
      /\ DOMAIN d2.proposals = DOMAIN d1.proposals
      /\ d2.proposals[p].status = status
      /\ \A x \in DOMAIN d2.proposals : x # p => d2.proposals[x] = d1.proposals[x]
      /\ \A x \in DOMAIN d2.proposals : d2.proposals[x].kind = d1.proposals[x].kind
  <2>1. status \in DOMAIN ProposalTransitions
    BY <1>6, DecidedStatus
  <2> QED
    BY <1>4, <1>5, <1>7, <2>1, ProposalStatus
<1>9. PICK d3 : d3 = AppendAudit(d2, "proposal_decision_recorded", p)
  OBVIOUS
<1>10. d3 \in Repository /\ Core(d3) = Core(d2)
  BY <1>2, <1>8, <1>9, AuditFacts DEF AuditActions
<1>11. db' = CASE decision = "approve"         -> AppendAudit(d3, "proposal_approved", p)
               [] decision = "reject"          -> AppendAudit(d3, "proposal_rejected", p)
               [] decision = "request_changes" -> AppendAudit(d3, "proposal_changes_requested", p)
               [] OTHER                        -> d3
  BY <1>1, <1>3, <1>6, <1>7, <1>9, Zenon
<1>12. db' \in Repository /\ Core(db') = Core(d3)
  <2>1. /\ AppendAudit(d3, "proposal_approved", p) \in Repository
        /\ Core(AppendAudit(d3, "proposal_approved", p)) = Core(d3)
        /\ AppendAudit(d3, "proposal_rejected", p) \in Repository
        /\ Core(AppendAudit(d3, "proposal_rejected", p)) = Core(d3)
        /\ AppendAudit(d3, "proposal_changes_requested", p) \in Repository
        /\ Core(AppendAudit(d3, "proposal_changes_requested", p)) = Core(d3)
    BY <1>2, <1>10, AuditFacts DEF AuditActions
  <2> QED
    BY <1>10, <1>11, <2>1
<1>13. /\ db'.clusters = db.clusters /\ db'.candidates = db.candidates
       /\ db'.proposals = d2.proposals /\ db'.decisions = d1.decisions
       /\ db'.recorded = d1.recorded /\ db'.runs = db.runs /\ db'.evals = db.evals
  BY <1>5, <1>8, <1>10, <1>12 DEF Core
<1>14. TypeOK' /\ KeyedAlike' /\ Derived'
  BY <1>2, <1>4, <1>5, <1>8, <1>12, <1>13 DEF ImprovementInv, TypeOK, KeyedAlike, Derived
<1>15. ClustersKeepProposals'
  BY <1>5, <1>8, <1>13 DEF ImprovementInv, ClustersKeepProposals
<1>16. VerdictCloses'
  <2> SUFFICES ASSUME NEW x \in DOMAIN db'.proposals, Len(db'.recorded[x]) > 0,
                      db'.recorded[x][Len(db'.recorded[x])] \in {"reject", "archive"}
               PROVE  db'.proposals[x].status \in {"rejected", "archived"}
    BY DEF VerdictCloses
  <2>1. CASE x = p
    BY <1>4, <1>6, <1>8, <1>13, <2>1, DecidedStatus
  <2>2. CASE x # p
    <3>1. /\ x \in DOMAIN db.proposals /\ x \in DOMAIN db.recorded
          /\ db'.recorded[x] = db.recorded[x] /\ db'.proposals[x] = db.proposals[x]
      BY <1>2, <1>4, <1>5, <1>8, <1>13, <2>2 DEF KeyedAlike
    <3> QED
      BY <3>1 DEF ImprovementInv, VerdictCloses
  <2> QED
    BY <2>1, <2>2
<1>17. RunsFit'
  BY <1>5, <1>8, <1>13 DEF ImprovementInv, RunsFit
<1> QED
  BY <1>14, <1>15, <1>16, <1>17 DEF ImprovementInv

LEMMA AttachStep ==
    ASSUME ImprovementInv, NEW p \in DOMAIN db.proposals, AttachEvalRun(p)
    PROVE  ImprovementInv'
<1>1. PICK r \in db.evals, status \in EvalRunStatuses :
        /\ r.kind = db.proposals[p].kind
        /\ db' = AppendAudit(CreateProposalEvalRun(db, p, r, status), "proposal_eval_attached", p)
  BY DEF AttachEvalRun
<1>2. db \in Repository /\ KeyedAlike /\ p \in ProposalIds
  BY KeysOfProposals DEF ImprovementInv, TypeOK
<1>3. PICK e : e = CreateProposalEvalRun(db, p, r, status)
  OBVIOUS
<1>4. r \in Requirements
  BY <1>2 DEF Repository
<1>5. /\ e \in Repository
      /\ Core(e) = <<db.clusters, db.candidates, db.proposals, db.decisions, db.recorded, e.runs, db.evals>>
      /\ DOMAIN e.runs = DOMAIN db.runs
      /\ \A x \in DOMAIN db.runs : x # p => e.runs[x] = db.runs[x]
      /\ \A n \in DOMAIN e.runs[p] : \/ e.runs[p][n].requirement = r
                                     \/ n \in DOMAIN db.runs[p] /\ e.runs[p][n] = db.runs[p][n]
  BY <1>2, <1>3, <1>4, EvalRunFacts DEF KeyedAlike
<1>6. db' \in Repository /\ Core(db') = Core(e)
  BY <1>1, <1>2, <1>3, <1>5, AuditFacts DEF AuditActions
<1>7. /\ db'.clusters = db.clusters /\ db'.candidates = db.candidates
      /\ db'.proposals = db.proposals /\ db'.decisions = db.decisions
      /\ db'.recorded = db.recorded /\ db'.runs = e.runs /\ db'.evals = db.evals
  BY <1>5, <1>6 DEF Core
<1>8. TypeOK' /\ KeyedAlike' /\ Derived' /\ ClustersKeepProposals' /\ VerdictCloses'
  BY <1>5, <1>6, <1>7
     DEF ImprovementInv, TypeOK, KeyedAlike, Derived, ClustersKeepProposals, VerdictCloses
<1>9. RunsFit'
  <2> SUFFICES ASSUME NEW x \in DOMAIN db'.proposals, NEW n \in DOMAIN db'.runs[x]
               PROVE  /\ db'.runs[x][n].requirement \in db'.evals
                      /\ db'.runs[x][n].requirement.kind = db'.proposals[x].kind
    BY DEF RunsFit
  <2>1. CASE x = p /\ e.runs[p][n].requirement = r
    BY <1>1, <1>7, <2>1
  <2>2. CASE n \in DOMAIN db.runs[x] /\ e.runs[x][n] = db.runs[x][n]
    BY <1>7, <2>2 DEF ImprovementInv, RunsFit
  <2> QED
    BY <1>2, <1>5, <1>7, <2>1, <2>2 DEF KeyedAlike
<1> QED
  BY <1>8, <1>9 DEF ImprovementInv

LEMMA RequirementStep == ImprovementInv /\ CreateRequirement => ImprovementInv'
<1> SUFFICES ASSUME ImprovementInv, CreateRequirement PROVE ImprovementInv'
  OBVIOUS
<1>1. PICK r \in Requirements : db' = [db EXCEPT !.evals = @ \union {r}]
  BY DEF CreateRequirement
<1>2. db \in Repository
  BY DEF ImprovementInv, TypeOK
<1>3. PICK a : a = db.evals \union {r}
  OBVIOUS
<1>4. a \in SUBSET Requirements /\ db' = [db EXCEPT !.evals = a]
  BY <1>1, <1>2, <1>3 DEF Repository
<1>5. /\ db' \in Repository
      /\ Core(db') = <<db.clusters, db.candidates, db.proposals, db.decisions, db.recorded, db.runs, a>>
  BY <1>2, <1>4, CoreFields
<1>6. /\ db'.clusters = db.clusters /\ db'.candidates = db.candidates
      /\ db'.proposals = db.proposals /\ db'.decisions = db.decisions
      /\ db'.recorded = db.recorded /\ db'.runs = db.runs /\ db'.evals = a
  BY <1>5 DEF Core
<1> QED
  BY <1>3, <1>5, <1>6
     DEF ImprovementInv, TypeOK, KeyedAlike, Derived, ClustersKeepProposals, VerdictCloses, RunsFit

(***************************************************************************)
(* The theorems                                                            *)
(***************************************************************************)

LEMMA ImprovementStart == Init => ImprovementInv
<1> SUFFICES ASSUME Init PROVE ImprovementInv
  OBVIOUS
<1>1. ASSUME NEW S, NEW T PROVE <<>> \in MapsOf(S, T)
  <2>1. <<>> \in [{} -> T]
    OBVIOUS
  <2> QED
    BY <2>1, MapIntro
<1>2. /\ <<>> \in ClusterMaps /\ <<>> \in Analyses /\ <<>> \in CandidateMaps /\ <<>> \in Proposals
      /\ <<>> \in Drafts /\ <<>> \in Decisions /\ <<>> \in EvalRuns /\ <<>> \in Readiness
      /\ <<>> \in Canaries /\ <<>> \in Gates
  BY <1>1 DEF ClusterMaps, Analyses, CandidateMaps, Proposals, Drafts, Decisions, EvalRuns,
              Readiness, Canaries, Gates
<1>3. <<>> \in Seq(SignalType)
  OBVIOUS
<1>4. CreateDefaultSafetyPolicy \in PolicyType
  BY DEF CreateDefaultSafetyPolicy, PolicyType
<1>5. TypeOK
  BY <1>2, <1>3, <1>4 DEF Init, EmptyRepository, TypeOK, Repository
<1>6. /\ DOMAIN db.candidates = {} /\ DOMAIN db.proposals = {} /\ DOMAIN db.decisions = {}
      /\ DOMAIN db.recorded = {} /\ DOMAIN db.runs = {}
  BY DEF Init, EmptyRepository
<1> QED
  BY <1>5, <1>6
     DEF ImprovementInv, KeyedAlike, Derived, ClustersKeepProposals, VerdictCloses, RunsFit

LEMMA ImprovementStep == ImprovementInv /\ [Next]_db => ImprovementInv'
<1> SUFFICES ASSUME ImprovementInv, [Next]_db PROVE ImprovementInv'
  OBVIOUS
<1>1. TypeOK
  BY DEF ImprovementInv
<1>2. CASE UNCHANGED db
  BY <1>2, QuietStep DEF Quiet, ImprovementInv, TypeOK
<1>3. CASE PostFailureSignal
  BY <1>1, <1>3, SignalIsQuiet, QuietStep
<1>4. CASE ClusterRoutes
  BY <1>1, <1>4, RecomputeStep, AnalysisIsQuiet, QuietStep, GenerateCandidateStep DEF ClusterRoutes
<1>5. CASE CandidateRoutes
  BY <1>5, CreateCandidateStep, TriageStep, GenerateProposalStep DEF CandidateRoutes
<1>6. CASE ProposalRoutes
  BY <1>1, <1>6, CreateProposalStep, TransitionStep, DraftIsQuiet, ReadinessIsQuiet, QuietStep
     DEF ProposalRoutes
<1>7. CASE GovernanceRoutes
  BY <1>1, <1>7, DecisionStep, AttachStep, CanaryIsQuiet, GateIsQuiet, QuietStep DEF GovernanceRoutes
<1>8. CASE DraftChangeRoutes
  BY <1>1, <1>8, DraftTransitionIsQuiet, QuietStep DEF DraftChangeRoutes
<1>9. CASE CreateRequirement
  BY <1>9, RequirementStep
<1>10. CASE CreatePlan
  BY <1>1, <1>10, PlanIsQuiet, QuietStep
<1>11. CASE UpdatePolicy
  BY <1>1, <1>11, PolicyIsQuiet, QuietStep
<1> QED
  BY <1>2, <1>3, <1>4, <1>5, <1>6, <1>7, <1>8, <1>9, <1>10, <1>11 DEF Next

LEMMA ImprovementAlways == Spec => []ImprovementInv
  BY ImprovementStart, ImprovementStep, PTL DEF Spec

(* What the repository holds has its shape after any sequence of calls:    *)
(* every map has keys of its kind and records with every field.            *)
THEOREM RepositoryTypeCorrect == Spec => []TypeOK
<1>1. ImprovementInv => TypeOK
  BY DEF ImprovementInv
<1> QED
  BY <1>1, ImprovementAlways, PTL

(* The cluster an engine's proposal was made from stays marked, whatever   *)
(* signals arrive and however often the clusters are recomputed.           *)
THEOREM ClustersAlwaysKeepProposals == Spec => []ClustersKeepProposals
<1>1. ImprovementInv => ClustersKeepProposals
  BY DEF ImprovementInv
<1> QED
  BY <1>1, ImprovementAlways, PTL

(* A proposal that was rejected or archived last is blocked, in whatever   *)
(* order decisions of one millisecond are listed.                          *)
THEOREM RejectionAlwaysBlocks == Spec => []RejectionBlocks
<1>1. ImprovementInv => RejectionBlocks
  <2> SUFFICES ASSUME ImprovementInv, NEW p \in DOMAIN db.proposals, Len(db.recorded[p]) > 0,
                      db.recorded[p][Len(db.recorded[p])] \in {"reject", "archive"}
               PROVE  ~Ready(p)
    BY DEF RejectionBlocks
  <2>1. db.proposals[p].status \in {"rejected", "archived"}
    BY DEF ImprovementInv, VerdictCloses
  <2>2. "proposal_status" \in BlockingReasons(db, p)
    BY <2>1 DEF BlockingReasons, Closed
  <2>3. "proposal_status" \notin Permanent
    BY DEF Permanent
  <2> QED
    BY <2>2, <2>3 DEF Ready
<1> QED
  BY <1>1, ImprovementAlways, PTL

(* A failed run of a blocking requirement blocks its proposal while        *)
(* evaluations are required and turns every approval into a demand for     *)
(* evaluations, whatever passes before or after it.                        *)
THEOREM FailedEvalAlwaysBlocks == Spec => []FailedEvalBlocks
<1>1. ImprovementInv => FailedEvalBlocks
  <2> SUFFICES ASSUME ImprovementInv, NEW p \in DOMAIN db.proposals, NEW n \in DOMAIN db.runs[p],
                      db.runs[p][n].status = "failed", db.runs[p][n].requirement.blocking
               PROVE  /\ db.policy.requireEvalPassed => ~Ready(p)
                      /\ StatusForDecision(db, p, "approve") = "eval_required"
    BY DEF FailedEvalBlocks
  <2>1. db.runs[p][n].requirement \in RequiredEvals(db, p)
    BY DEF ImprovementInv, RunsFit, RequiredEvals
  <2>2. EvalStatusForProposal(db, p) = "failed"
    <3>1. PICK runs : runs = {k \in DOMAIN db.runs[p] : db.runs[p][k].requirement \in RequiredEvals(db, p)}
      OBVIOUS
    <3>2. RequiredEvals(db, p) # {} /\ n \in runs
      BY <2>1, <3>1
    <3> QED
      BY <3>1, <3>2 DEF EvalStatusForProposal
  <2>3. db.policy.requireEvalPassed => "eval_pass_required" \in BlockingReasons(db, p)
    BY <2>2 DEF BlockingReasons
  <2>4. "eval_pass_required" \notin Permanent
    BY DEF Permanent
  <2>5. StatusForDecision(db, p, "approve") = "eval_required"
    BY <2>2 DEF StatusForDecision
  <2> QED
    BY <2>3, <2>4, <2>5 DEF Ready
<1> QED
  BY <1>1, ImprovementAlways, PTL
=============================================================================
