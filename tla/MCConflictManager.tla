------------------------- MODULE MCConflictManager -------------------------
(* ConflictManager with two known tasks, a task id the store does not      *)
(* know, and two source files.                                             *)
EXTENDS ConflictManager

MCOwners == {[task |-> "t1", run |-> "r1"], [task |-> "t2", run |-> "r2"],
             [task |-> "ghost", run |-> "r3"]}
MCKnownTasks == {"t1", "t2"}
MCFileSets == {{"a"}, {"m"}}
MCOneFileSet == {{"a"}}
MCTwoOwners == {o \in MCOwners : o.run # "r2"}
MCDir == [f \in Files |-> "src"]
=============================================================================
