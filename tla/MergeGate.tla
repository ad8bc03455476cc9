----------------------------- MODULE MergeGate -----------------------------
(***************************************************************************)
(* What the conflict manager promises the owners of branches, without      *)
(* files, scores, dry runs and queue entries: which branches are at work,  *)
(* which of them overlap, and which may be merged.  A branch is let        *)
(* through only while it overlaps no branch at work, let through or not,   *)
(* and a step decides about one branch only: the end of a branch does not  *)
(* by itself let the others through.                                       *)
(***************************************************************************)
CONSTANT Ids

VARIABLES
    state,    \* "absent", "active" or "ended", for each branch
    overlap,  \* the pairs of active branches that overlap
    ready     \* the active branches that may be merged

gateVars == <<state, overlap, ready>>

GateInit ==
    /\ state = [l \in Ids |-> "absent"]
    /\ overlap = {}
    /\ ready = {}

Alone(l, pairs) == \A p \in pairs : l \notin {p[1], p[2]}

(* New overlaps are those of the branch itself. *)
OverlapGrows(l) ==
    /\ overlap \subseteq overlap'
    /\ \A p \in overlap' \ overlap : ~Alone(l, {p})

(* A branch is leased. *)
Join(l) ==
    /\ state[l] = "absent"
    /\ state' = [state EXCEPT ![l] = "active"]
    /\ OverlapGrows(l)
    /\ UNCHANGED ready

(* It changes more files, or is judged again. *)
Judge(l) ==
    /\ state[l] = "active"
    /\ UNCHANGED state
    /\ \/ ready' = ready \ {l}
       \/ ready' = ready \cup {l} /\ Alone(l, overlap')
    /\ OverlapGrows(l)

(* It is merged or given up. *)
End(l) ==
    /\ state[l] = "active"
    /\ state' = [state EXCEPT ![l] = "ended"]
    /\ overlap' = {p \in overlap : Alone(l, {p})}
    /\ ready' = ready \ {l}

GateNext == \E l \in Ids : Join(l) \/ Judge(l) \/ End(l)

GateSpec == GateInit /\ [][GateNext]_gateVars
=============================================================================
