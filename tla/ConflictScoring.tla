--------------------------- MODULE ConflictScoring ---------------------------
(***************************************************************************)
(* Conflict risk between two branch leases                                 *)
(* (packages/core/src/conflicts/scoring.ts).  A file stands for one        *)
(* normalised path; the path patterns are four sets of files and the       *)
(* top-level directory is a function, so only the precedence of the        *)
(* patterns and the arithmetic are left.  Scores are hundredths: the       *)
(* code's 0.35 is 35.                                                      *)
(***************************************************************************)
EXTENDS Integers, FiniteSets, FiniteSetsExt

CONSTANTS
    Files,          \* normalised repository paths
    PackageFiles,   \* isPackageFile: package.json and the lock files
    TestFiles,      \* isTestFile
    DocsFiles,      \* isDocsFile
    CriticalFiles,  \* isCriticalFile: CI, infra, migrations, auth, security
    Dir,            \* firstSegment: the top-level directory of a file
    NoDir           \* the empty first segment, which never counts

ASSUME FileSetsAssumption ==
    /\ IsFiniteSet(Files)
    /\ {PackageFiles, TestFiles, DocsFiles, CriticalFiles} \subseteq SUBSET Files
    /\ DOMAIN Dir = Files

SimulationStatuses == {"clean", "text_conflict", "failed", "unavailable"}

(* A lease that was never simulated: the optional simulation is undefined. *)
NoSimulation == "none"

Categories == {"critical", "package", "source", "test", "docs"}

(* classifyConflictFile: the first pattern that matches decides. *)
ClassifyConflictFile(f) ==
    IF f \in PackageFiles THEN "package"
    ELSE IF f \in TestFiles THEN "test"
    ELSE IF f \in DocsFiles THEN "docs"
    ELSE IF f \in CriticalFiles THEN "critical"
    ELSE "source"

CategoryScore ==
    [critical |-> 90, package |-> 75, source |-> 60, test |-> 30, docs |-> 10]

CategoryReason ==
    [critical |-> "critical_path_overlap",
     package  |-> "package_or_lockfile_overlap",
     source   |-> "source_file_overlap",
     test     |-> "test_file_overlap",
     docs     |-> "docs_file_overlap"]

(* riskContributionForSimulationStatus *)
RiskContribution(status) ==
    IF status = "clean" THEN 10
    ELSE IF status = "text_conflict" THEN 80
    ELSE IF status \in {"failed", "unavailable"} THEN 35
    ELSE 0

(* Mutant: the evidence of a simulation is dropped. *)
FirstOf(x, y) == x

HigherOf(x, y) == IF x >= y THEN x ELSE y

(* sameDirectoryRisk: three files of both leases under one directory, at   *)
(* least one of them from each.                                            *)
SameDirectoryRisk(source, target) ==
    \E f \in source :
        LET In(fs) == {g \in fs : Dir[g] = Dir[f]}
        IN  /\ Dir[f] # NoDir
            /\ In(target) # {}
            /\ Cardinality(In(source)) + Cardinality(In(target)) >= 3

(* computePairRiskScore *)
ComputePairRiskScore(source, target) ==
    LET overlap    == source \cap target
        categories == {ClassifyConflictFile(f) : f \in overlap}
    IN  IF overlap # {}
          THEN [riskScore |-> Max({CategoryScore[c] : c \in categories}),
                reasons   |-> {CategoryReason[c] : c \in categories}]
        ELSE IF SameDirectoryRisk(source, target)
          THEN [riskScore |-> 35, reasons |-> {"same_top_level_directory_activity"}]
          ELSE [riskScore |-> 0, reasons |-> {"no_overlap"}]

SimulationReason ==
    [clean         |-> "dry_run_merge_clean",
     text_conflict |-> "dry_run_text_conflict",
     failed        |-> "dry_run_failed",
     unavailable   |-> "dry_run_unavailable"]

(* combineSimulationRisk: simulation evidence can only raise a score. *)
CombineSimulationRisk(risk, status) ==
    IF status = NoSimulation THEN risk
    ELSE [riskScore |-> HigherOf(risk.riskScore, RiskContribution(status)),
          reasons   |-> (risk.reasons \ {"no_overlap"}) \cup {SimulationReason[status]}]

ConflictRiskLevel(score) ==
    IF score = 0 THEN "none"
    ELSE IF score < 35 THEN "low"
    ELSE IF score < 65 THEN "medium"
    ELSE IF score < 85 THEN "high"
    ELSE "critical"

ConflictRecommendation(score) ==
    IF score = 0 THEN "safe"
    ELSE IF score < 35 THEN "monitor"
    ELSE IF score < 65 THEN "serialize"
    ELSE IF score < 85 THEN "block"
    ELSE "human_review"

RecommendationForRisk(score, reasons) ==
    IF \/ score = 0
       \/ reasons = {"docs_file_overlap"}
       \/ score <= 10 /\ "dry_run_merge_clean" \in reasons
      THEN "safe"
    ELSE IF \/ "same_top_level_directory_activity" \in reasons
            \/ reasons = {"test_file_overlap"}
      THEN "monitor"
    ELSE ConflictRecommendation(score)

(* createConflictRisk, for the files of two leases and the latest          *)
(* simulation of either.  The code orders the pair by lease id first,      *)
(* which is why the order of the arguments must not matter.                *)
CreateConflictRisk(source, target, status) ==
    LET combined == CombineSimulationRisk(ComputePairRiskScore(source, target), status)
    IN  [riskScore      |-> combined.riskScore,
         riskLevel      |-> ConflictRiskLevel(combined.riskScore),
         recommendation |-> RecommendationForRisk(combined.riskScore, combined.reasons),
         reasons        |-> combined.reasons]

BlockingReasons ==
    {"none", "conflict_detected", "simulation_unavailable", "simulation_failed",
     "serialize_with_overlapping_branch", "human_review_required_for_critical_overlap"}

QueueRecommendations ==
    {"conflict_detected", "simulation_unavailable", "manual_review_required",
     "safe_to_queue", "ready_for_review", "requires_rebase"}

(* mergeQueueDecision: the queue status, why it blocks and what to do.     *)
MergeQueueDecision(riskScore, status) ==
    LET Decision(s, b, r) == [status |-> s, blockingReason |-> b, recommendation |-> r]
        WarnOr(b, r) == IF riskScore >= 50 THEN Decision("blocked", b, r)
                                           ELSE Decision("ready", "none", r)
    IN  IF status = "text_conflict"
          THEN Decision("blocked", "conflict_detected", "conflict_detected")
        ELSE IF status = "unavailable"
          THEN WarnOr("simulation_unavailable", "simulation_unavailable")
        ELSE IF status = "failed"
          THEN WarnOr("simulation_failed", "manual_review_required")
        ELSE IF riskScore < 50
          THEN Decision("ready", "none",
                        IF status = "clean" THEN "safe_to_queue" ELSE "ready_for_review")
        ELSE IF riskScore < 85
          THEN Decision("blocked", "serialize_with_overlapping_branch", "requires_rebase")
        ELSE Decision("blocked", "human_review_required_for_critical_overlap",
                      "manual_review_required")

=============================================================================
