----------------------------- MODULE TaskStatus -----------------------------
(***************************************************************************)
(* The task and task-run status machines (packages/core/src/domain/        *)
(* status.ts).  Every writer of Task.status goes through transitionTask,   *)
(* which asserts CanTransitionTaskStatus.                                  *)
(***************************************************************************)

TaskStatuses ==
    {"draft", "planned", "policy_blocked", "queued", "branch_created",
     "running", "testing", "pr_draft_ready", "pr_opened", "ci_pending",
     "ci_failed", "conflict_detected", "conflict_fixing", "review_required",
     "merge_ready", "merged", "completed", "failed", "cancelled"}

TaskRunStatuses == {"queued", "running", "succeeded", "failed", "cancelled"}

(* const taskTransitions *)
TaskTransitions ==
    [draft             |-> {"planned", "failed", "cancelled"},
     planned           |-> {"policy_blocked", "queued", "failed", "cancelled"},
     policy_blocked    |-> {"cancelled"},
     queued            |-> {"policy_blocked", "branch_created", "running",
                            "failed", "cancelled"},
     branch_created    |-> {"running", "failed", "cancelled"},
     running           |-> {"testing", "failed", "cancelled"},
     testing           |-> {"pr_draft_ready", "conflict_detected",
                            "review_required", "failed", "ci_failed",
                            "cancelled"},
     pr_draft_ready    |-> {"pr_opened", "review_required", "merge_ready",
                            "completed", "failed", "cancelled"},
     pr_opened         |-> {"ci_pending", "conflict_detected",
                            "review_required", "failed", "cancelled"},
     ci_pending        |-> {"ci_failed", "merge_ready", "failed", "cancelled"},
     ci_failed         |-> {"failed", "review_required", "cancelled"},
     conflict_detected |-> {"conflict_fixing", "review_required", "failed",
                            "cancelled"},
     conflict_fixing   |-> {"review_required", "testing", "failed",
                            "cancelled"},
     review_required   |-> {"merge_ready", "failed", "cancelled"},
     merge_ready       |-> {"merged", "failed", "cancelled"},
     merged            |-> {"completed"},
     completed         |-> {"queued"},
     failed            |-> {"queued"},
     cancelled         |-> {}]

(* canTransitionTaskStatus: a status may always be rewritten with itself. *)
CanTransitionTaskStatus(from, to) ==
    from = to \/ to \in TaskTransitions[from]

=============================================================================
