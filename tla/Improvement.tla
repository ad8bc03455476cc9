----------------------------- MODULE Improvement -----------------------------
(***************************************************************************)
(* The improvement loop and its governance: failure signals are clustered, *)
(* an engine turns clusters into analyses, candidates, proposals and draft *)
(* registry changes, and reviewers decide, attach evaluations and plan     *)
(* canaries until nothing but the missing apply step blocks a proposal.    *)
(*                                                                         *)
(* Each API call is synchronous and atomic. A signal has a class that      *)
(* stands for its category, target kind and target reference; the id of a  *)
(* cluster, and of what the engine derives from it, follows from the class.*)
(* The repository is one record, db.                                       *)
(***************************************************************************)
EXTENDS Integers, Sequences, FiniteSets, Policy

CONSTANTS
    Classes,       \* classes of signals
    KindOfClass,   \* [Classes -> TargetKinds]: targetKindForCluster, the engine's choice
    Requirements,  \* the evaluation requirements callers create: [kind, blocking]
    Actors,        \* who decides, with the roles they get
    RolesOf,       \* [Actors -> set of roles]: mockImprovementSubject
    MaxSignals,    \* bound on the signals of a behaviour
    MaxManual,     \* bound on the candidates and on the proposals made by hand
    MaxDecisions,  \* bound on the decisions on one proposal
    MaxRuns        \* bound on the evaluations attached to one proposal

Severities         == {"low", "high"}
TargetKinds        == {"skill", "harness", "instruction"}
CandidateStatuses  == {"new", "triaged", "proposal_requested", "proposal_created", "dismissed"}
DecisionTypes      == {"approve", "reject", "request_changes", "mark_eval_required",
                       "mark_canary_required", "archive"}
EvalRunStatuses    == {"pending", "passed", "failed", "skipped"}

ASSUME ImprovementAssumption ==
    /\ KindOfClass \in [Classes -> TargetKinds]
    /\ Requirements \subseteq [kind : TargetKinds, blocking : BOOLEAN]
    /\ DOMAIN RolesOf = Actors
    /\ {MaxSignals, MaxManual, MaxDecisions, MaxRuns} \subseteq Nat

VARIABLE
    db      \* what the repository holds

ProposalTransitions ==
    [draft               |-> {"awaiting_review", "eval_required", "rejected", "archived"},
     awaiting_review     |-> {"eval_required", "approved_for_canary", "rejected", "archived"},
     eval_required       |-> {"awaiting_review", "approved_for_canary", "rejected", "archived"},
     approved_for_canary |-> {"rejected", "archived"},
     rejected            |-> {"archived"},
     applied             |-> {},
     archived            |-> {}]

DraftRegistryChangeTransitions ==
    [draft           |-> {"awaiting_review", "rejected", "superseded"},
     awaiting_review |-> {"rejected", "superseded"},
     rejected        |-> {},
     superseded      |-> {}]

-----------------------------------------------------------------------------
(* The repository.                                                         *)

CreateDefaultSafetyPolicy ==
    [requireHumanApproval |-> TRUE, requireEvalPassed |-> TRUE, requireCanary |-> TRUE,
     allowAutoApply |-> FALSE]

EmptyRepository ==
    [signals    |-> <<>>,   \* sequence of [class, severity]
     clusters   |-> <<>>,   \* class -> [signals, severity, status]
     analyses   |-> <<>>,   \* class -> [signals, confident]
     candidates |-> <<>>,   \* id -> [class, kind, priority, status]
     proposals  |-> <<>>,   \* id -> [candidate, kind, status]
     evals      |-> {},     \* requirements: [kind, blocking]
     plans      |-> {},     \* <<proposal, status>>
     policy     |-> CreateDefaultSafetyPolicy,
     drafts     |-> <<>>,   \* proposal -> status
     decisions  |-> <<>>,   \* proposal -> sequence, by time and then by id
     recorded   |-> <<>>,   \* proposal -> sequence, in the order recorded
     runs       |-> <<>>,   \* proposal -> sequence of [requirement, status]
     readiness  |-> <<>>,   \* proposal -> what was evaluated last
     canary     |-> <<>>,
     gates      |-> <<>>,
     audit      |-> {}]     \* <<action, proposal>>

\* A record is kept by its id: one with the id is replaced.
With(map, key, value) ==
    [x \in {key} \cup DOMAIN map |-> IF x = key THEN value ELSE map[x]]

CreateFailureSignal(d, class, severity) ==
    [d EXCEPT !.signals = Append(@, [class |-> class, severity |-> severity])]

UpsertFailureCluster(d, class, cluster) == [d EXCEPT !.clusters = With(@, class, cluster)]

UpdateFailureCluster(d, class, status) == [d EXCEPT !.clusters[class].status = status]

CreateAutoImprovementAnalysis(d, class, a) == [d EXCEPT !.analyses = With(@, class, a)]

CreateImprovementCandidate(d, id, c) == [d EXCEPT !.candidates = With(@, id, c)]

UpdateImprovementCandidate(d, id, status) == [d EXCEPT !.candidates[id].status = status]

CreateImprovementProposal(d, id, p) ==
    [d EXCEPT !.proposals = With(@, id, p),
              !.decisions = With(@, id, <<>>),
              !.recorded  = With(@, id, <<>>),
              !.runs      = With(@, id, <<>>)]

UpdateImprovementProposal(d, id, status) == [d EXCEPT !.proposals[id].status = status]

CreateDraftRegistryChange(d, p) == [d EXCEPT !.drafts = With(@, p, "draft")]

UpdateDraftRegistryChange(d, p, status) == [d EXCEPT !.drafts[p] = status]

AppendAudit(d, action, p) == [d EXCEPT !.audit = @ \union {<<action, p>>}]

\* Decisions are listed by their time in milliseconds and then by a random id:
\* one that falls in the millisecond of the last goes before or after it.
CreateProposalGovernanceDecision(d, p, decision, before) ==
    LET old == d.decisions[p]
        n   == Len(old)
    IN  [d EXCEPT !.recorded[p]  = Append(@, decision),
                  !.decisions[p] = IF before /\ n > 0
                                   THEN SubSeq(old, 1, n - 1) \o <<decision, old[n]>>
                                   ELSE Append(old, decision)]

CreateProposalEvalRun(d, p, requirement, status) ==
    [d EXCEPT !.runs[p] = Append(@, [requirement |-> requirement, status |-> status])]

-----------------------------------------------------------------------------
(* Readiness.                                                              *)

RequiredEvals(d, p) == {r \in d.evals : r.blocking /\ r.kind = d.proposals[p].kind}

LatestDecision(d, p) == IF d.decisions[p] = <<>> THEN "none" ELSE d.decisions[p][Len(d.decisions[p])]

\* MUTANT: a later pass outweighs a failure.
EvalStatusOfLastRun(d, p) ==
    LET required == RequiredEvals(d, p)
        last(r)  == {n \in DOMAIN d.runs[p] : /\ d.runs[p][n].requirement = r
                                              /\ \A k \in DOMAIN d.runs[p] :
                                                    d.runs[p][k].requirement = r => k <= n}
    IN  IF required = {} THEN "not_required"
        ELSE IF \A r \in required : \E n \in last(r) : d.runs[p][n].status = "passed" THEN "passed"
        ELSE "pending"

\* One failure is enough, whatever was attached before or after it.
EvalStatusForProposal(d, p) ==
    LET required == RequiredEvals(d, p)
        runs     == {n \in DOMAIN d.runs[p] : d.runs[p][n].requirement \in required}
    IN  IF required = {} THEN "not_required"
        ELSE IF \E n \in runs : d.runs[p][n].status = "failed" THEN "failed"
        ELSE IF \A r \in required : \E n \in runs : d.runs[p][n] = [requirement |-> r, status |-> "passed"]
        THEN "passed" ELSE "pending"

CanaryReadyForProposal(d, p) == <<p, "ready">> \in d.plans

Closed(status) == status \in {"rejected", "archived", "applied"}

BlockingReasons(d, p) ==
    (IF d.policy.requireHumanApproval /\ LatestDecision(d, p) # "approve"
     THEN {"human_approval_required"} ELSE {})
    \union (IF d.policy.requireEvalPassed /\ EvalStatusForProposal(d, p) # "passed"
            THEN {"eval_pass_required"} ELSE {})
    \union (IF d.policy.requireCanary /\ ~CanaryReadyForProposal(d, p)
            THEN {"canary_required"} ELSE {})
    \union (IF ~d.policy.allowAutoApply THEN {"auto_apply_disabled"} ELSE {})
    \union (IF p \notin DOMAIN d.drafts \/ d.drafts[p] \in {"rejected", "superseded"}
            THEN {"draft_registry_change_required"} ELSE {})
    \union (IF Closed(d.proposals[p].status) THEN {"proposal_status"} ELSE {})

Permanent == {"auto_apply_disabled", "active_apply_not_implemented"}

ReadinessStatusForProposal(d, p) ==
    IF Closed(d.proposals[p].status) THEN "closed"
    ELSE IF BlockingReasons(d, p) \subseteq Permanent THEN "ready_for_review" ELSE "blocked"

RecommendedAction(d, p) ==
    IF "eval_pass_required" \in BlockingReasons(d, p) THEN "attach_eval_result"
    ELSE IF "canary_required" \in BlockingReasons(d, p) THEN "prepare_canary_plan"
    ELSE IF LatestDecision(d, p) = "approve" /\ d.policy.requireCanary THEN "ready_for_canary_review"
    ELSE IF BlockingReasons(d, p) \subseteq Permanent THEN "review_proposal" ELSE "no_action"

-----------------------------------------------------------------------------
(* Signals, clusters and the engine.                                       *)

HighestSeverity(d, class) ==
    IF \E n \in DOMAIN d.signals : d.signals[n] = [class |-> class, severity |-> "high"]
    THEN "high" ELSE "low"

\* MUTANT: a cluster that gets new signals is open again.
ClusterReopened(d, class) ==
    [signals  |-> {n \in DOMAIN d.signals : d.signals[n].class = class},
     severity |-> HighestSeverity(d, class),
     status   |-> "open"]

\* The group of a class; a cluster that exists keeps its status.
ClusterOf(d, class) ==
    [signals  |-> {n \in DOMAIN d.signals : d.signals[n].class = class},
     severity |-> HighestSeverity(d, class),
     status   |-> IF class \in DOMAIN d.clusters THEN d.clusters[class].status ELSE "open"]

RecomputeClusters ==
    LET present == {db.signals[n].class : n \in DOMAIN db.signals}
    IN  db' = [db EXCEPT !.clusters =
                  [c \in present \cup DOMAIN @ |-> IF c \in present THEN ClusterOf(db, c) ELSE @[c]]]

\* An analysis is made once: later signals of the cluster are not in it.
AnalysisOf(d, class) ==
    LET cluster == d.clusters[class]
    IN  [signals   |-> cluster.signals,
         confident |-> Cardinality(cluster.signals) > 1 \/ cluster.severity = "high"]

Analyzed(d, class) ==
    IF class \in DOMAIN d.analyses THEN d
    ELSE CreateAutoImprovementAnalysis(d, class, AnalysisOf(d, class))

AutoCandidate(class) == <<"candidate", class>>

AnalyzeFailureCluster(class) ==
    /\ class \in DOMAIN db.clusters
    /\ db' = Analyzed(db, class)

GenerateImprovementCandidate(class) ==
    /\ class \in DOMAIN db.clusters
    /\ LET d == Analyzed(db, class)
       IN  db' = IF AutoCandidate(class) \in DOMAIN d.candidates THEN d
                 ELSE CreateImprovementCandidate(d, AutoCandidate(class),
                        [class    |-> class,
                         kind     |-> KindOfClass[class],
                         priority |-> IF d.analyses[class].confident THEN "high" ELSE "medium",
                         status   |-> "new"])

AutoProposal(c) == <<"proposal", c>>

NewProposal(d, c) == [candidate |-> c, kind |-> d.candidates[c].kind, status |-> "draft"]

GenerateImprovementProposal(c) ==
    /\ db.candidates[c].status # "dismissed"
    /\ IF AutoProposal(c) \in DOMAIN db.proposals THEN UNCHANGED db
       ELSE db' = UpdateFailureCluster(
                    UpdateImprovementCandidate(
                      CreateImprovementProposal(db, AutoProposal(c), NewProposal(db, c)),
                      c, "proposal_created"),
                    db.candidates[c].class, "proposal_created")

PrepareDraftRegistryChange(p) ==
    IF p \in DOMAIN db.drafts THEN UNCHANGED db
    ELSE /\ Allowed([Request("improvement.draft_change.prepare", "draft_registry_change")
                        EXCEPT !.roles = {"system"}])
         /\ db' = CreateDraftRegistryChange(db, p)

EvaluateProposalReadiness(p) ==
    db' = [db EXCEPT !.readiness = With(@, p, BlockingReasons(db, p))]

-----------------------------------------------------------------------------
(* Candidates and proposals made by hand.                                  *)

\* The caller chooses the kind of target, whatever the cluster's is.
CreateCandidateFromCluster(class) ==
    \E k \in 1..MaxManual, kind \in TargetKinds :
        /\ class \in DOMAIN db.clusters
        /\ <<"manual", k>> \notin DOMAIN db.candidates
        /\ db' = CreateImprovementCandidate(db, <<"manual", k>>,
                    [class |-> class, kind |-> kind, priority |-> db.clusters[class].severity,
                     status |-> "new"])

TriageCandidate(c) ==
    \E status \in CandidateStatuses : db' = UpdateImprovementCandidate(db, c, status)

CreateDraftProposal(c) ==
    \E k \in 1..MaxManual :
        /\ db.candidates[c].status # "dismissed"
        /\ <<"manual", k>> \notin DOMAIN db.proposals
        /\ db' = UpdateImprovementCandidate(
                    CreateImprovementProposal(db, <<"manual", k>>, NewProposal(db, c)),
                    c, "proposal_created")

TransitionProposalStatus(p) ==
    \E status \in ProposalTransitions[db.proposals[p].status] \ {"applied"} :
        db' = UpdateImprovementProposal(db, p, status)

TransitionDraftChange(p) ==
    \E status \in DraftRegistryChangeTransitions[db.drafts[p]] :
        db' = UpdateDraftRegistryChange(db, p, status)

-----------------------------------------------------------------------------
(* Governance.                                                             *)

\* MUTANT: a rejection only records the decision.
StatusAfterReview(d, p, decision) ==
    IF decision = "approve" THEN "approved_for_canary" ELSE d.proposals[p].status

\* The table of transitions is not consulted.
StatusForDecision(d, p, decision) ==
    CASE decision = "reject"               -> "rejected"
      [] decision = "request_changes"      -> "draft"
      [] decision = "mark_eval_required"   -> "eval_required"
      [] decision = "mark_canary_required" -> "approved_for_canary"
      [] decision = "archive"              -> "archived"
      [] decision = "approve" ->
            IF EvalStatusForProposal(d, p) \notin {"not_required", "passed"} THEN "eval_required"
            ELSE IF d.policy.requireCanary THEN "approved_for_canary" ELSE "awaiting_review"

\* Approval needs the policy engine's consent, the other decisions do not.
RecordDecision(p) ==
    \E actor \in Actors, decision \in DecisionTypes, before \in BOOLEAN :
        /\ Len(db.decisions[p]) < MaxDecisions
        /\ decision = "approve" =>
              Allowed([Request("improvement.proposal.approve", "improvement_proposal")
                          EXCEPT !.roles = RolesOf[actor]])
        /\ LET d1 == CreateProposalGovernanceDecision(db, p, decision, before)
               d2 == UpdateImprovementProposal(d1, p, StatusForDecision(d1, p, decision))
               d3 == AppendAudit(d2, "proposal_decision_recorded", p)
           IN  db' = CASE decision = "approve"         -> AppendAudit(d3, "proposal_approved", p)
                       [] decision = "reject"          -> AppendAudit(d3, "proposal_rejected", p)
                       [] decision = "request_changes" -> AppendAudit(d3, "proposal_changes_requested", p)
                       [] OTHER                        -> d3

AttachEvalRun(p) ==
    \E r \in db.evals, status \in EvalRunStatuses :
        /\ Len(db.runs[p]) < MaxRuns
        /\ r.kind = db.proposals[p].kind
        /\ db' = AppendAudit(CreateProposalEvalRun(db, p, r, status), "proposal_eval_attached", p)

EvaluateCanaryReadiness(p) ==
    LET ready == ~db.policy.requireCanary \/ CanaryReadyForProposal(db, p)
    IN  db' = AppendAudit([db EXCEPT !.canary = With(@, p, ready)],
                          "proposal_canary_readiness_checked", p)

\* GET of the apply gate and POST of apply: both only evaluate the gate.
EvaluateApplyGate(p) ==
    LET denied == IF Allowed([Request("improvement.apply", "draft_registry_change")
                                 EXCEPT !.roles = {"registry_admin"}])
                  THEN {} ELSE {"policy_denied_improvement_apply"}
        gate   == [canApply |-> FALSE,
                   reasons  |-> {"active_apply_not_implemented"} \union denied
                                \union BlockingReasons(db, p)]
    IN  db' = AppendAudit(AppendAudit([db EXCEPT !.gates = With(@, p, gate)],
                                      "proposal_apply_gate_checked", p),
                          "proposal_apply_blocked", p)

-----------------------------------------------------------------------------
(* The API's routes.                                                       *)

PostFailureSignal ==
    \E class \in Classes, severity \in Severities :
        /\ Len(db.signals) < MaxSignals
        /\ db' = CreateFailureSignal(db, class, severity)

ClusterRoutes ==
    \/ RecomputeClusters
    \/ \E class \in Classes : AnalyzeFailureCluster(class) \/ GenerateImprovementCandidate(class)

CandidateRoutes ==
    \/ \E class \in Classes : CreateCandidateFromCluster(class)
    \/ \E c \in DOMAIN db.candidates : TriageCandidate(c) \/ GenerateImprovementProposal(c)

ProposalRoutes ==
    \/ \E c \in DOMAIN db.candidates : CreateDraftProposal(c)
    \/ \E p \in DOMAIN db.proposals :
          \/ TransitionProposalStatus(p) \/ PrepareDraftRegistryChange(p)
          \/ EvaluateProposalReadiness(p)

GovernanceRoutes ==
    \E p \in DOMAIN db.proposals :
        \/ RecordDecision(p) \/ AttachEvalRun(p)
        \/ EvaluateCanaryReadiness(p) \/ EvaluateApplyGate(p)

DraftChangeRoutes == \E p \in DOMAIN db.drafts : TransitionDraftChange(p)

CreateRequirement ==
    \E r \in Requirements : db' = [db EXCEPT !.evals = @ \union {r}]

CreatePlan ==
    \E p \in DOMAIN db.proposals, status \in {"draft", "ready"} :
        db' = [db EXCEPT !.plans = @ \union {<<p, status>>}]

UpdatePolicy ==
    \E gate \in {"requireHumanApproval", "requireEvalPassed", "requireCanary"}, on \in BOOLEAN :
        db' = [db EXCEPT !.policy[gate] = on]

Init == db = EmptyRepository

Next ==
    \/ PostFailureSignal \/ ClusterRoutes \/ CandidateRoutes \/ ProposalRoutes
    \/ GovernanceRoutes \/ DraftChangeRoutes \/ CreateRequirement \/ CreatePlan
    \/ UpdatePolicy

Spec == Init /\ [][Next]_db
-----------------------------------------------------------------------------
\* What the engine made a proposal from stays marked as such: recomputing the
\* clusters, with or without new signals, never offers the cluster again.
ClustersKeepProposals ==
    \A c \in DOMAIN db.candidates :
        (AutoProposal(c) \in DOMAIN db.proposals) =>
            db.clusters[db.candidates[c].class].status = "proposal_created"

Ready(p) == BlockingReasons(db, p) \subseteq Permanent

\* A proposal whose last recorded decision rejected or archived it is blocked,
\* even if an approval of the same millisecond is listed after it.
RejectionBlocks ==
    \A p \in DOMAIN db.proposals :
        LET n == Len(db.recorded[p]) IN
        (n > 0 /\ db.recorded[p][n] \in {"reject", "archive"}) => ~Ready(p)

\* While evaluations are required, a failed run of a blocking requirement keeps
\* its proposal blocked whatever is attached later, and out of the reach of
\* every decision to approve it.
FailedEvalBlocks ==
    \A p \in DOMAIN db.proposals :
        (\E n \in DOMAIN db.runs[p] : /\ db.runs[p][n].status = "failed"
                                      /\ db.runs[p][n].requirement.blocking) =>
            /\ db.policy.requireEvalPassed => ~Ready(p)
            /\ StatusForDecision(db, p, "approve") = "eval_required"

=============================================================================
