--------------------------- MODULE MCImprovement ---------------------------
EXTENDS Improvement

CONSTANT MaxSteps    \* bound on the calls of a behaviour

VARIABLE steps

MCKindOfClass == [c \in Classes |-> "skill"]

MCRequirements == {[kind |-> "skill", blocking |-> b] : b \in BOOLEAN}

\* "admin" gets the role of a registry administrator, "guest" gets none.
MCRolesOf == [a \in Actors |-> IF a = "admin" THEN {"registry_admin"} ELSE {}]

\* A signal of every class has been reported and clustered.
MCInit ==
    /\ LET d == [EmptyRepository EXCEPT !.signals = <<[class |-> "k", severity |-> "low"]>>]
       IN  db = UpsertFailureCluster(d, "k", ClusterOf(d, "k"))
    /\ steps = 0

MCNext == steps < MaxSteps /\ Next /\ steps' = steps + 1

\* What was evaluated and stored is never read again by an action.
MCView == [db EXCEPT !.readiness = <<>>, !.canary = <<>>, !.gates = <<>>, !.audit = {}]

MCSpec == MCInit /\ [][MCNext]_<<db, steps>>
=============================================================================
