--------------------------- MODULE MCTaskWorkflow ---------------------------
(* TaskWorkflow with concurrent requests for one or two tasks that change  *)
(* the same file in one repository.                                        *)
EXTENDS TaskWorkflow, TLC

RequestSymmetry == Permutations(Requests)
MCOwners == [task : KnownTasks \cup {"ghost"}, run : 0..MaxRuns]
MCFileSets == {{"a"}}
MCDir == [f \in Files |-> "src"]
MCRepoOf == [t \in KnownTasks |-> "repo"]
MCBranchOf == [t \in KnownTasks |-> t]
=============================================================================
