--------------------------- MODULE RegistryProofs ---------------------------
(***************************************************************************)
(* The registry's safety for every set of identifiers, every manifest,     *)
(* patch and body the API admits - reused identifiers, artifacts that are  *)
(* not what their manifest lists and gates of no known value included -    *)
(* and a stop of the process after any write.                              *)
(***************************************************************************)
EXTENDS Registry, FiniteSetTheorems, SequenceTheorems, WellFoundedInduction, TLAPS

(***************************************************************************)
(* Entries                                                                 *)
(***************************************************************************)

(* A patch of an entry of t that leaves its kind and its identifier alone. *)
PatchOf(t, p) ==
    /\ ("kind" \in DOMAIN p) => (p.kind = t[1])
    /\ ("id" \in DOMAIN p) => (p.id = t[2])

(* Object.assign keeps the fields it does not name, and an entry an entry. *)
LEMMA AssignEntry ==
    ASSUME NEW e, Entry(e), NEW p, PatchOf(TargetOf(e), p)
    PROVE  /\ Entry(Assign(p, e))
           /\ TargetOf(Assign(p, e)) = TargetOf(e)
           /\ \A f \in DOMAIN p : f \in DOMAIN Assign(p, e) /\ Assign(p, e)[f] = p[f]
<1> DEFINE a == Assign(p, e)
<1>1. /\ DOMAIN a = DOMAIN p \union DOMAIN e
      /\ \A f \in DOMAIN a : a[f] = IF f \in DOMAIN p THEN p[f] ELSE e[f]
      /\ a = [f \in DOMAIN a |-> a[f]]
  BY DEF Assign
<1> HIDE DEF a
<1>2. a.kind = e.kind /\ a.id = e.id
  BY <1>1 DEF Entry, PatchOf, TargetOf
<1> QED  BY <1>1, <1>2 DEF Entry, TargetOf, a

(* At gives fields the target's kind and identifier. *)
LEMMA AtTarget ==
    ASSUME NEW t \in Targets, NEW fields
    PROVE  /\ DOMAIN At(t, fields) = {"kind", "id"} \union DOMAIN fields
           /\ At(t, fields) = [f \in DOMAIN At(t, fields) |-> At(t, fields)[f]]
           /\ PatchOf(t, At(t, fields)) /\ TargetOf(At(t, fields)) = t
           /\ \A f \in DOMAIN fields \ {"kind", "id"} : At(t, fields)[f] = fields[f]
<1> DEFINE p == [kind |-> t[1], id |-> t[2]]
<1>1. DOMAIN p = {"kind", "id"} /\ p.kind = t[1] /\ p.id = t[2]
  OBVIOUS
<1> HIDE DEF p
<1>2. At(t, fields) = Assign(p, fields)
  BY DEF At, p
<1>3. /\ DOMAIN At(t, fields) = {"kind", "id"} \union DOMAIN fields
      /\ At(t, fields) = [f \in DOMAIN At(t, fields) |-> At(t, fields)[f]]
      /\ At(t, fields).kind = t[1] /\ At(t, fields).id = t[2]
      /\ \A f \in DOMAIN fields \ {"kind", "id"} : At(t, fields)[f] = fields[f]
  BY <1>1, <1>2 DEF Assign
<1>4. <<t[1], t[2]>> = t
  BY DEF Targets
<1> QED  BY <1>3, <1>4 DEF PatchOf, TargetOf

(* What a creation or an import makes of the fields it is given. *)
LEMMA NewEntityType ==
    ASSUME NEW s, NEW kind \in RegistryKinds, NEW in, Artifact(in), Accepted(in)
    PROVE  LET e == NewEntity(s, kind, in) IN
           /\ Entry(e) /\ e.kind = kind
           /\ \A f \in DOMAIN in \ {"kind", "id"} : f \in DOMAIN e /\ e[f] = in[f]
<1> DEFINE t     == <<kind, NewId(s, in)>>
           two   == [approvalStatus |-> "not_required", evalStatus |-> "not_required"]
           three == [approvalStatus |-> "not_required", evalStatus |-> "not_required",
                     checksumStatus |-> "unverified", checksumAlgorithm |-> "sha256"]
           made  == CASE kind = "skill"       -> CreateSkillPackage(in)
                      [] kind = "harness"     -> CreateHarnessDefinition(in)
                      [] kind = "instruction" -> CreateInstructionArtifact(in)
<1>1. t \in Targets /\ t[1] = kind
  <2>1. NewId(s, in) \in Ids
    <3>1. CASE "id" \in DOMAIN in
      BY <3>1 DEF NewId, Artifact
    <3>2. CASE "id" \notin DOMAIN in
      <4>1. \E id \in Ids : id \in UnusedIds(s) \/ UnusedIds(s) = {}
        BY RegistryAssumption DEF UnusedIds
      <4>2. NewId(s, in) = CHOOSE id \in Ids : id \in UnusedIds(s) \/ UnusedIds(s) = {}
        BY <3>2 DEF NewId
      <4> QED  BY <4>1, <4>2
    <3> QED  BY <3>1, <3>2
  <2> QED  BY <2>1 DEF Targets
<1>2. PICK d : /\ made = Assign(in, d)
               /\ {"approvalStatus", "evalStatus"} \subseteq DOMAIN d
               /\ (kind = "instruction") => ("checksumStatus" \in DOMAIN d)
  <2>1. CASE kind = "instruction"
    <3>1. made = Assign(in, three)
      BY <2>1 DEF CreateInstructionArtifact
    <3>2. {"approvalStatus", "evalStatus", "checksumStatus"} \subseteq DOMAIN three
      OBVIOUS
    <3> HIDE DEF made, three
    <3> QED  BY <3>1, <3>2
  <2>2. CASE kind # "instruction"
    <3>1. made = Assign(in, two)
      BY <2>2 DEF CreateSkillPackage, CreateHarnessDefinition, RegistryKinds
    <3>2. {"approvalStatus", "evalStatus"} \subseteq DOMAIN two
      OBVIOUS
    <3> HIDE DEF made, two
    <3> QED  BY <2>2, <3>1, <3>2
  <2> QED  BY <2>1, <2>2
<1> HIDE DEF made
<1>3. /\ DOMAIN made = DOMAIN in \union DOMAIN d
      /\ \A f \in DOMAIN in : made[f] = in[f]
  BY <1>2 DEF Assign
<1> DEFINE e == At(t, made)
<1>4. NewEntity(s, kind, in) = e
  BY DEF NewEntity, made
<1>5. /\ DOMAIN e = {"kind", "id"} \union DOMAIN made
      /\ e = [f \in DOMAIN e |-> e[f]]
      /\ TargetOf(e) = t
      /\ \A f \in DOMAIN made \ {"kind", "id"} : e[f] = made[f]
  <2> HIDE DEF t
  <2> QED  BY <1>1, AtTarget
<1> HIDE DEF e
<1>6. e.kind = kind
  BY <1>5 DEF TargetOf
<1>7. Entry(e)
  BY <1>1, <1>2, <1>3, <1>5, <1>6 DEF Entry, Accepted
<1> QED  BY <1>3, <1>4, <1>5, <1>6, <1>7

(* A non-empty set of naturals has a least element, which Min is. *)
LEMMA LeastNatural ==
    ASSUME NEW T \in SUBSET Nat, T # {}
    PROVE  Min(T) \in T /\ \A n \in T : Min(T) <= n
<1> DEFINE R == OpToRel(<, Nat)
<1>1. \E m \in T : \A n \in T : ~(<<n, m>> \in R)
  BY WFMin, NatLessThanWellFounded
<1>2. \A m, n \in Nat : n < m => <<n, m>> \in R
  BY DEF OpToRel
<1> HIDE DEF R
<1>3. PICK m \in T : \A n \in T : ~(<<n, m>> \in R)
  BY <1>1
<1>4. \A n \in T : ~(n < m)
  BY <1>2, <1>3
<1>5. \A n \in T : m <= n
  BY <1>4
<1> QED  BY <1>5 DEF Min

(***************************************************************************)
(* Stores and steps                                                        *)
(***************************************************************************)

StoreOK(s) == Store(s) /\ Numbered(s) /\ Restored(s) /\ Applied(s)

(* No revision is lost or rewritten. *)
Extends(s, u) ==
    \A t \in Targets : \A k \in DOMAIN s.revisions[t] :
        k \in DOMAIN u.revisions[t] /\ u.revisions[t][k] = s.revisions[t][k]

(* The entries and the history of a target are left alone. *)
SameEntries(s, u, t) ==
    /\ Positions(u, t) = Positions(s, t)
    /\ \A k \in Positions(s, t) : u.entries[k] = s.entries[k]

Same(s, u, t) == SameEntries(s, u, t) /\ u.revisions[t] = s.revisions[t]

(* A write leaves a target alone, changes an entry of it, or records the   *)
(* revision that covers it.                                                *)
Step(s, u) ==
    /\ Extends(s, u)
    /\ \A t \in Targets : Same(s, u, t) \/ Covered(u, t) \/ t \in Changed(s, u)

(* What a whole call changes is covered by a revision. *)
Done(s, u) == \A t \in Targets : Same(s, u, t) \/ Covered(u, t)

(* The latest revision of a target holds e. *)
Latest(s, t, e) == s.revisions[t] # <<>> /\ Last(s.revisions[t]).snapshot = e

LEMMA DoneTransitive ==
    ASSUME NEW s, NEW u, NEW v, Done(s, u), Done(u, v)
    PROVE  Done(s, v)
BY DEF Done, Same, SameEntries, Covered

LEMMA WrittenStays ==
    ASSUME NEW s, NEW u, Extends(s, u), NEW item, item.kind \in RegistryKinds, NEW a,
           Written(s, item, a)
    PROVE  Written(u, item, a)
<1>1. \A id \in Ids : <<item.kind, id>> \in Targets
  BY DEF Targets
<1> QED  BY <1>1 DEF Written, Extends

LEMMA LatestWritten ==
    ASSUME NEW s, StoreOK(s), NEW t \in Targets, NEW e, Latest(s, t, e),
           NEW item, item.kind = t[1], NEW a,
           \A f \in DOMAIN a \ {"kind", "id"} : f \in DOMAIN e /\ e[f] = a[f]
    PROVE  Written(s, item, a)
<1>1. <<item.kind, t[2]>> = t /\ t[2] \in Ids
  BY DEF Targets
<1>2. Len(s.revisions[t]) \in DOMAIN s.revisions[t]
  <2>1. s.revisions[t] \in Seq(Range(s.revisions[t])) /\ s.revisions[t] # <<>>
    BY DEF Latest, StoreOK, Store, History
  <2> QED  BY <2>1
<1>3. s.revisions[t][Len(s.revisions[t])].snapshot = e
  BY DEF Latest, Last
<1>4. \E id \in Ids : <<item.kind, id>> = t
  BY <1>1
<1>5. ASSUME NEW id \in Ids, <<item.kind, id>> = t
      PROVE  \E k \in DOMAIN s.revisions[<<item.kind, id>>] :
                \A f \in DOMAIN a \ {"kind", "id"} :
                    /\ f \in DOMAIN s.revisions[<<item.kind, id>>][k].snapshot
                    /\ s.revisions[<<item.kind, id>>][k].snapshot[f] = a[f]
  <2>1. \E k \in DOMAIN s.revisions[t] :
           \A f \in DOMAIN a \ {"kind", "id"} :
              f \in DOMAIN s.revisions[t][k].snapshot /\ s.revisions[t][k].snapshot[f] = a[f]
    BY <1>2, <1>3
  <2> QED  BY <1>5, <2>1
<1> QED  BY <1>4, <1>5 DEF Written

(* The first entry of a target. *)
LEMMA FirstEntry ==
    ASSUME NEW s, StoreOK(s), NEW t \in Targets, Has(s, t)
    PROVE  /\ Min(Positions(s, t)) \in Positions(s, t)
           /\ GetEntity(s, t) = s.entries[Min(Positions(s, t))]
           /\ Entry(GetEntity(s, t)) /\ TargetOf(GetEntity(s, t)) = t
<1>1. Positions(s, t) \in SUBSET Nat
  BY DEF Positions, StoreOK, Store
<1>2. Min(Positions(s, t)) \in Positions(s, t)
  BY <1>1, LeastNatural DEF Has
<1> QED  BY <1>2 DEF GetEntity, Positions, StoreOK, Store

(***************************************************************************)
(* The repository's writes                                                 *)
(***************************************************************************)

LEMMA StoreRecord ==
    ASSUME NEW s, StoreOK(s)
    PROVE  s = [entries |-> s.entries, audits |-> s.audits, revisions |-> s.revisions,
                evals |-> s.evals, manifests |-> s.manifests]
BY DEF StoreOK, Store

LEMMA SameWritten ==
    ASSUME NEW s, NEW u, u.revisions = s.revisions
    PROVE  \A item, a : Written(u, item, a) <=> Written(s, item, a)
BY DEF Written

(* A write that leaves the history and the manifests alone keeps what they *)
(* say.                                                                    *)
LEMMA SameHistory ==
    ASSUME NEW s, StoreOK(s), NEW u, Store(u),
           u.revisions = s.revisions, u.manifests = s.manifests,
           \A t \in Targets : u.audits[t] >= s.audits[t]
    PROVE  StoreOK(u)
<1>1. Numbered(u)
  <2> SUFFICES ASSUME NEW t \in Targets, NEW k \in DOMAIN u.revisions[t]
               PROVE  /\ u.revisions[t][k].number = k
                      /\ u.revisions[t][k].audit <= u.audits[t]
                      /\ (u.revisions[t][k].audit = 0) => (k = 1)
                      /\ \A j \in 1..(k - 1) :
                            u.revisions[t][j].audit < u.revisions[t][k].audit
    BY DEF Numbered
  <2>1. /\ s.revisions[t][k].number = k
        /\ s.revisions[t][k].audit <= s.audits[t]
        /\ (s.revisions[t][k].audit = 0) => (k = 1)
        /\ \A j \in 1..(k - 1) : s.revisions[t][j].audit < s.revisions[t][k].audit
    BY DEF StoreOK, Numbered
  <2>2. /\ s.revisions[t][k].audit \in Nat
        /\ s.audits[t] \in Nat /\ u.audits[t] \in Nat
    BY DEF StoreOK, Store, History
  <2>3. s.revisions[t][k].audit <= u.audits[t]
    BY <2>1, <2>2
  <2> QED  BY <2>1, <2>3
<1>2. Restored(u)
  BY DEF StoreOK, Restored
<1>3. Applied(u)
  BY SameWritten DEF StoreOK, Applied
<1> QED  BY <1>1, <1>2, <1>3 DEF StoreOK

LEMMA UpdateStore ==
    ASSUME NEW s, StoreOK(s), NEW t \in Targets, Has(s, t), NEW p, PatchOf(t, p)
    PROVE  LET u == UpdateEntity(s, t, p)
               e == GetEntity(s, t) IN
           /\ StoreOK(u) /\ Step(s, u)
           /\ Has(u, t) /\ GetEntity(u, t) = Assign(p, e)
           /\ u.revisions = s.revisions /\ u.audits = s.audits
           /\ \A x \in Targets \ {t} : Same(s, u, x)
           /\ (Assign(p, e) = e) => (u.entries = s.entries)
<1> DEFINE u == UpdateEntity(s, t, p)
           e == GetEntity(s, t)
           n == Min(Positions(s, t))
<1>1. /\ n \in Positions(s, t) /\ e = s.entries[n] /\ Entry(e) /\ TargetOf(e) = t
  BY FirstEntry
<1> HIDE DEF n, e
<1>2. /\ u = [entries |-> u.entries, audits |-> u.audits, revisions |-> u.revisions,
              evals |-> u.evals, manifests |-> u.manifests]
      /\ u.entries = [s.entries EXCEPT ![n] = Assign(p, s.entries[n])]
      /\ u.revisions = s.revisions /\ u.audits = s.audits /\ u.evals = s.evals
      /\ u.manifests = s.manifests
  BY StoreRecord DEF UpdateEntity, n
<1> HIDE DEF u
<1>3. Entry(Assign(p, e)) /\ TargetOf(Assign(p, e)) = t
  BY <1>1, AssignEntry
<1>4. /\ s.entries \in Seq(Range(s.entries)) /\ Len(s.entries) \in Nat
      /\ DOMAIN s.entries = 1..Len(s.entries) /\ n \in DOMAIN s.entries
  BY <1>1 DEF StoreOK, Store, Positions
<1>5. /\ DOMAIN u.entries = DOMAIN s.entries
      /\ u.entries[n] = Assign(p, e)
      /\ \A k \in DOMAIN s.entries \ {n} : u.entries[k] = s.entries[k]
  BY <1>1, <1>2, <1>4
<1>6. u.entries \in Seq(Range(u.entries))
  <2>1. u.entries \in [1..Len(s.entries) -> Range(s.entries) \union {Assign(p, e)}]
    <3>1. \A k \in DOMAIN s.entries : s.entries[k] \in Range(s.entries)
      BY DEF Range
    <3> QED  BY <1>1, <1>2, <1>4, <3>1
  <2>2. u.entries \in Seq(Range(s.entries) \union {Assign(p, e)})
    BY <1>4, <2>1, SeqDef
  <2> QED  BY <2>2, SeqOfRange
<1>7. \A k \in DOMAIN u.entries : Entry(u.entries[k])
  BY <1>3, <1>5 DEF StoreOK, Store
<1>8. Store(u)
  BY <1>2, <1>6, <1>7 DEF StoreOK, Store
<1>9. StoreOK(u)
  <2>1. \A x \in Targets : u.audits[x] >= s.audits[x]
    BY <1>2 DEF StoreOK, Store
  <2> QED  BY <1>2, <1>8, <2>1, SameHistory
<1>10. \A x \in Targets : Positions(u, x) = Positions(s, x)
  <2>1. \A k \in DOMAIN s.entries : TargetOf(u.entries[k]) = TargetOf(s.entries[k])
    BY <1>1, <1>3, <1>5
  <2> QED  BY <1>5, <2>1 DEF Positions
<1>11. \A x \in Targets \ {t} : Same(s, u, x)
  <2> TAKE x \in Targets \ {t}
  <2>1. \A k \in Positions(s, x) : k \in DOMAIN s.entries /\ k # n
    BY <1>1 DEF Positions
  <2> QED  BY <1>2, <1>5, <1>10, <2>1 DEF Same, SameEntries
<1>12. ASSUME Assign(p, e) = e
       PROVE  u.entries = s.entries
  BY <1>1, <1>2, <1>4, <1>12
<1>13. Same(s, u, t) \/ t \in Changed(s, u)
  <2>1. CASE Assign(p, e) = e
    BY <1>2, <1>10, <1>12, <2>1 DEF Same, SameEntries
  <2>2. CASE Assign(p, e) # e
    BY <1>1, <1>3, <1>4, <1>5, <2>2 DEF Changed
  <2> QED  BY <2>1, <2>2
<1>14. Step(s, u)
  BY <1>2, <1>11, <1>13 DEF Step, Extends
<1>15. Has(u, t) /\ GetEntity(u, t) = Assign(p, e)
  BY <1>1, <1>5, <1>10 DEF Has, GetEntity, n
<1> QED  BY <1>2, <1>9, <1>11, <1>12, <1>14, <1>15 DEF u, e

(* The new entry is the last of its target. *)
LEMMA CreateStore ==
    ASSUME NEW s, StoreOK(s), NEW e, Entry(e)
    PROVE  LET u == CreateEntity(s, e)
               t == TargetOf(e) IN
           /\ StoreOK(u) /\ Step(s, u)
           /\ \E k \in Positions(u, t) : u.entries[k] = e
           /\ u.revisions = s.revisions /\ u.audits = s.audits
           /\ \A x \in Targets \ {t} : Same(s, u, x)
<1> DEFINE u == CreateEntity(s, e)
           t == TargetOf(e)
<1>1. /\ u = [entries |-> u.entries, audits |-> u.audits, revisions |-> u.revisions,
              evals |-> u.evals, manifests |-> u.manifests]
      /\ u.entries = Append(s.entries, e)
      /\ u.revisions = s.revisions /\ u.audits = s.audits /\ u.evals = s.evals
      /\ u.manifests = s.manifests
  BY StoreRecord DEF CreateEntity
<1> HIDE DEF u
<1>2. /\ s.entries \in Seq(Range(s.entries)) /\ Len(s.entries) \in Nat
      /\ DOMAIN s.entries = 1..Len(s.entries)
  BY DEF StoreOK, Store
<1>3. /\ u.entries \in Seq(Range(s.entries) \union {e})
      /\ DOMAIN u.entries = 1..(Len(s.entries) + 1)
      /\ \A k \in DOMAIN s.entries : u.entries[k] = s.entries[k]
      /\ u.entries[Len(s.entries) + 1] = e
  BY <1>1, <1>2
<1>4. u.entries \in Seq(Range(u.entries))
  BY <1>3, SeqOfRange
<1>5. \A k \in DOMAIN u.entries : k \in DOMAIN s.entries \/ k = Len(s.entries) + 1
  BY <1>2, <1>3
<1>6. \A k \in DOMAIN u.entries : Entry(u.entries[k])
  BY <1>3, <1>5 DEF StoreOK, Store
<1>7. Store(u)
  BY <1>1, <1>4, <1>6 DEF StoreOK, Store
<1>8. StoreOK(u)
  <2>1. \A x \in Targets : u.audits[x] >= s.audits[x]
    BY <1>1 DEF StoreOK, Store
  <2> QED  BY <1>1, <1>7, <2>1, SameHistory
<1>9. /\ Len(s.entries) + 1 \in DOMAIN u.entries
      /\ Len(s.entries) + 1 \notin DOMAIN s.entries
      /\ DOMAIN s.entries \subseteq DOMAIN u.entries
  BY <1>2, <1>3
<1>10. \A x \in Targets \ {t} : Same(s, u, x)
  <2> TAKE x \in Targets \ {t}
  <2>1. Positions(u, x) = Positions(s, x)
    BY <1>3, <1>5, <1>9 DEF Positions
  <2> QED  BY <1>1, <1>3, <2>1 DEF Same, SameEntries, Positions
<1>11. Len(s.entries) + 1 \in Positions(u, t) /\ t \in Changed(s, u)
  BY <1>3, <1>9 DEF Positions, Changed
<1>12. Step(s, u)
  BY <1>1, <1>10, <1>11 DEF Step, Extends
<1> QED  BY <1>1, <1>3, <1>8, <1>10, <1>11, <1>12 DEF u

(* A write that leaves the entries and the history alone. *)
LEMMA QuietWrite ==
    ASSUME NEW s, NEW u, u.entries = s.entries, u.revisions = s.revisions
    PROVE  Step(s, u) /\ Done(s, u)
BY DEF Step, Done, Same, SameEntries, Positions, Extends

LEMMA AuditStore ==
    ASSUME NEW s, StoreOK(s), NEW t \in Targets
    PROVE  LET u == AppendAuditLog(s, t) IN
           /\ StoreOK(u) /\ Step(s, u) /\ Done(s, u)
           /\ u.entries = s.entries /\ u.revisions = s.revisions
           /\ u.audits[t] = s.audits[t] + 1
<1> DEFINE u == AppendAuditLog(s, t)
<1>1. /\ u = [entries |-> u.entries, audits |-> u.audits, revisions |-> u.revisions,
              evals |-> u.evals, manifests |-> u.manifests]
      /\ u.audits = [s.audits EXCEPT ![t] = s.audits[t] + 1]
      /\ u.revisions = s.revisions /\ u.entries = s.entries /\ u.evals = s.evals
      /\ u.manifests = s.manifests
  BY StoreRecord DEF AppendAuditLog
<1>2. /\ u.audits \in [Targets -> Nat]
      /\ u.audits[t] = s.audits[t] + 1
      /\ \A x \in Targets : u.audits[x] >= s.audits[x]
  BY <1>1 DEF StoreOK, Store
<1> HIDE DEF u
<1>3. Store(u)
  BY <1>1, <1>2 DEF StoreOK, Store
<1> QED  BY <1>1, <1>2, <1>3, SameHistory, QuietWrite DEF u

LEMMA EvalStore ==
    ASSUME NEW s, StoreOK(s), NEW t \in Targets
    PROVE  LET u == AppendEvalResult(s, t) IN
           /\ StoreOK(u) /\ Step(s, u) /\ Done(s, u)
           /\ u.entries = s.entries /\ u.revisions = s.revisions /\ u.audits = s.audits
<1> DEFINE u == AppendEvalResult(s, t)
<1>1. /\ u = [entries |-> u.entries, audits |-> u.audits, revisions |-> u.revisions,
              evals |-> u.evals, manifests |-> u.manifests]
      /\ u.evals = [s.evals EXCEPT ![t] = s.evals[t] + 1]
      /\ u.revisions = s.revisions /\ u.entries = s.entries /\ u.audits = s.audits
      /\ u.manifests = s.manifests
  BY StoreRecord DEF AppendEvalResult
<1>2. /\ u.evals \in [Targets -> Nat]
      /\ \A x \in Targets : u.audits[x] >= s.audits[x]
  BY <1>1 DEF StoreOK, Store
<1> HIDE DEF u
<1>3. Store(u)
  BY <1>1, <1>2 DEF StoreOK, Store
<1> QED  BY <1>1, <1>2, <1>3, SameHistory, QuietWrite DEF u

(* An import records a manifest when what it lists is written. *)
LEMMA ManifestStore ==
    ASSUME NEW s, StoreOK(s), NEW key, NEW m, Manifest(m), NEW origin,
           (origin = "import") =>
               \A k \in DOMAIN m.items :
                   HasArtifact(m, m.items[k]) /\ Written(s, m.items[k], ArtifactOf(m, m.items[k]))
    PROVE  LET u == CreatePackageManifest(s, key, m, origin) IN
           StoreOK(u) /\ Step(s, u) /\ Done(s, u)
<1> DEFINE u == CreatePackageManifest(s, key, m, origin)
           r == [content |-> m, origin |-> origin]
<1>1. /\ u = [entries |-> u.entries, audits |-> u.audits, revisions |-> u.revisions,
              evals |-> u.evals, manifests |-> u.manifests]
      /\ u.manifests = Put(s.manifests, key, r)
      /\ u.revisions = s.revisions /\ u.entries = s.entries /\ u.audits = s.audits
      /\ u.evals = s.evals
  BY StoreRecord DEF CreatePackageManifest
<1>2. r.content = m /\ r.origin = origin
  OBVIOUS
<1> HIDE DEF u, r
<1>3. /\ DOMAIN u.manifests = DOMAIN s.manifests \union {key}
      /\ \A k \in DOMAIN u.manifests :
            u.manifests[k] = IF k = key THEN r ELSE s.manifests[k]
  BY <1>1 DEF Put
<1>4. \A k \in DOMAIN u.manifests : Manifest(u.manifests[k].content)
  BY <1>2, <1>3 DEF StoreOK, Store
<1>5. Store(u)
  BY <1>1, <1>4 DEF StoreOK, Store
<1>6. Numbered(u) /\ Restored(u)
  <2>1. Numbered(s) /\ Restored(s) /\ u.revisions = s.revisions /\ u.audits = s.audits
    BY <1>1 DEF StoreOK
  <2>2. Numbered(u)
    BY <2>1 DEF Numbered
  <2>3. Restored(u)
    BY <2>1 DEF Restored
  <2> QED  BY <2>2, <2>3
<1>7. Applied(u)
  <2> SUFFICES ASSUME NEW k \in DOMAIN u.manifests, u.manifests[k].origin = "import",
                      NEW n \in DOMAIN u.manifests[k].content.items
               PROVE  LET c == u.manifests[k].content IN
                      /\ HasArtifact(c, c.items[n])
                      /\ Written(s, c.items[n], ArtifactOf(c, c.items[n]))
    BY <1>1, SameWritten DEF Applied
  <2>1. CASE k = key
    BY <1>2, <1>3, <2>1
  <2>2. CASE k # key
    BY <1>3, <2>2 DEF StoreOK, Applied
  <2> QED  BY <2>1, <2>2
<1> QED  BY <1>1, <1>5, <1>6, <1>7, QuietWrite DEF StoreOK, u

(* A revision is recorded after the others, for an audit record none of    *)
(* them names; after a rollback the entry has the gates it was restored to.*)
LEMMA RevisionStore ==
    ASSUME NEW s, StoreOK(s), NEW t \in Targets,
           NEW e, Entry(e), TargetOf(e) = t,
           \E k \in Positions(s, t) : s.entries[k] = e,
           NEW audit \in 0..s.audits[t], NEW restores \in 0..Len(s.revisions[t]),
           \A k \in DOMAIN s.revisions[t] : s.revisions[t][k].audit < audit,
           (restores # 0) =>
               \A f \in Gates \intersect DOMAIN s.revisions[t][restores].snapshot :
                   f \in DOMAIN e /\ e[f] = s.revisions[t][restores].snapshot[f]
    PROVE  LET u == AppendRevision(s, e, audit, restores) IN
           /\ StoreOK(u) /\ Step(s, u) /\ Done(s, u)
           /\ Covered(u, t) /\ Latest(u, t, e)
           /\ u.entries = s.entries /\ u.audits = s.audits
           /\ \A x \in Targets \ {t} : Same(s, u, x)
           /\ \A k \in DOMAIN u.revisions[t] :
                 \/ u.revisions[t][k].audit = audit
                 \/ k \in DOMAIN s.revisions[t] /\ u.revisions[t][k] = s.revisions[t][k]
<1> DEFINE u == AppendRevision(s, e, audit, restores)
           q == s.revisions[t]
<1>1. PICK r : r = [number |-> RevisionNumber(s, t), snapshot |-> e,
                    audit |-> audit, restores |-> restores]
  OBVIOUS
<1>2. /\ r.number = RevisionNumber(s, t) /\ r.snapshot = e
      /\ r.audit = audit /\ r.restores = restores
  BY <1>1
<1>3. /\ u = [entries |-> u.entries, audits |-> u.audits, revisions |-> u.revisions,
              evals |-> u.evals, manifests |-> u.manifests]
      /\ u.revisions = [s.revisions EXCEPT ![t] = Append(q, r)]
      /\ u.manifests = s.manifests /\ u.entries = s.entries /\ u.audits = s.audits
      /\ u.evals = s.evals
  <2>1. u = [s EXCEPT !.revisions = [s.revisions EXCEPT ![t] = Append(q, r)]]
    BY <1>1 DEF AppendRevision
  <2> HIDE DEF u, q
  <2>2. PICK z : z = [s.revisions EXCEPT ![t] = Append(q, r)]
    OBVIOUS
  <2>3. u = [s EXCEPT !.revisions = z]
    BY <2>1, <2>2
  <2>4. PICK x : x = u
    OBVIOUS
  <2>5. /\ x = [entries |-> x.entries, audits |-> x.audits, revisions |-> x.revisions,
                evals |-> x.evals, manifests |-> x.manifests]
        /\ x.revisions = z /\ x.manifests = s.manifests /\ x.entries = s.entries
        /\ x.audits = s.audits /\ x.evals = s.evals
    BY <2>3, <2>4, StoreRecord
  <2> QED  BY <2>2, <2>4, <2>5
<1>4. q \in Seq(Range(q)) /\ s.audits[t] \in Nat
  BY DEF StoreOK, Store, History
<1> DEFINE v == Append(q, r)
<1>5. /\ v \in Seq(Range(q) \union {r}) /\ Len(v) = Len(q) + 1 /\ Len(q) \in Nat
      /\ DOMAIN v = 1..(Len(q) + 1) /\ DOMAIN q = 1..Len(q)
      /\ \A k \in 1..Len(q) : v[k] = q[k]
      /\ v[Len(q) + 1] = r
  BY <1>4
<1>6. v \in Seq(Range(v))
  BY <1>5, SeqOfRange
<1>7. r.number = Len(q) + 1
  <2>1. CASE q = <<>>
    BY <1>2, <2>1 DEF RevisionNumber
  <2>2. CASE q # <<>>
    <3>1. Len(q) \in DOMAIN q
      BY <1>4, <2>2
    <3>2. q[Len(q)].number = Len(q)
      BY <1>4, <3>1 DEF StoreOK, Numbered
    <3> QED  BY <1>2, <2>2, <3>2 DEF RevisionNumber, Last
  <2> QED  BY <2>1, <2>2
<1>8. /\ u.revisions = [x \in Targets |-> u.revisions[x]]
      /\ u.revisions[t] = v
      /\ \A x \in Targets \ {t} : u.revisions[x] = s.revisions[x]
  BY <1>3, <1>4 DEF StoreOK, Store
<1> HIDE DEF u, v
<1>9. History(v)
  <2>1. \A k \in DOMAIN q : /\ Entry(q[k].snapshot) /\ q[k].audit \in Nat
                            /\ q[k].restores \in 0..(k - 1)
    BY <1>4 DEF StoreOK, Store, History
  <2>2. /\ Entry(r.snapshot) /\ r.audit \in Nat /\ r.restores \in 0..Len(q)
    BY <1>2, <1>4 DEF StoreOK, Store
  <2>3. \A k \in DOMAIN v : /\ Entry(v[k].snapshot) /\ v[k].audit \in Nat
                            /\ v[k].restores \in 0..(k - 1)
    <3> TAKE k \in DOMAIN v
    <3>1. CASE k = Len(q) + 1  BY <1>5, <2>2, <3>1
    <3>2. CASE k \in DOMAIN q  BY <1>5, <2>1, <3>2
    <3> QED  BY <1>5, <3>1, <3>2
  <2> QED  BY <1>6, <2>3 DEF History
<1>10. Store(u)
  <2>1. \A x \in Targets : History(u.revisions[x])
    BY <1>8, <1>9 DEF StoreOK, Store
  <2> QED  BY <1>3, <1>8, <2>1 DEF StoreOK, Store
<1>11. Numbered(u)
  <2>1. \A k \in DOMAIN v : /\ v[k].number = k
                            /\ v[k].audit <= s.audits[t]
                            /\ (v[k].audit = 0) => (k = 1)
                            /\ \A j \in 1..(k - 1) : v[j].audit < v[k].audit
    <3> TAKE k \in DOMAIN v
    <3>1. CASE k = Len(q) + 1
      <4>1. \A j \in 1..(k - 1) : v[j].audit < v[k].audit
        <5>1. v[k].audit = audit /\ \A j \in 1..(k - 1) : j \in DOMAIN q /\ v[j] = q[j]
          BY <1>2, <1>5, <3>1
        <5> QED  BY <5>1
      <4>2. (audit = 0) => (k = 1)
        <5>1. \A j \in DOMAIN q : q[j].audit \in Nat
          BY <1>4 DEF StoreOK, Store, History
        <5> QED  BY <1>5, <3>1, <5>1
      <4> QED  BY <1>2, <1>4, <1>5, <1>7, <3>1, <4>1, <4>2
    <3>2. CASE k \in DOMAIN q
      <4>1. /\ q[k].number = k
            /\ q[k].audit <= s.audits[t]
            /\ (q[k].audit = 0) => (k = 1)
            /\ \A j \in 1..(k - 1) : q[j].audit < q[k].audit
        BY <1>4, <3>2 DEF StoreOK, Numbered
      <4>2. v[k] = q[k] /\ \A j \in 1..(k - 1) : v[j] = q[j]
        BY <1>5, <3>2
      <4> QED  BY <4>1, <4>2
    <3> QED  BY <1>5, <3>1, <3>2
  <2>2. \A x \in Targets \ {t} : \A k \in DOMAIN u.revisions[x] :
           /\ u.revisions[x][k].number = k
           /\ u.revisions[x][k].audit <= s.audits[x]
           /\ (u.revisions[x][k].audit = 0) => (k = 1)
           /\ \A n \in 1..(k - 1) : u.revisions[x][n].audit < u.revisions[x][k].audit
    <3> SUFFICES ASSUME NEW x \in Targets \ {t}
                 PROVE  \A k \in DOMAIN s.revisions[x] :
                          /\ s.revisions[x][k].number = k
                          /\ s.revisions[x][k].audit <= s.audits[x]
                          /\ (s.revisions[x][k].audit = 0) => (k = 1)
                          /\ \A n \in 1..(k - 1) :
                                s.revisions[x][n].audit < s.revisions[x][k].audit
      BY <1>8
    <3> QED  BY DEF StoreOK, Numbered
  <2>3. u.audits = s.audits /\ u.revisions[t] = v
    BY <1>3, <1>8
  <2> HIDE DEF q
  <2>4. SUFFICES ASSUME NEW x \in Targets, NEW k \in DOMAIN u.revisions[x]
                 PROVE  /\ u.revisions[x][k].number = k
                        /\ u.revisions[x][k].audit <= s.audits[x]
                        /\ (u.revisions[x][k].audit = 0) => (k = 1)
                        /\ \A n \in 1..(k - 1) :
                              u.revisions[x][n].audit < u.revisions[x][k].audit
    BY <2>3 DEF Numbered
  <2>5. CASE x = t
    BY <2>1, <2>3, <2>5
  <2>6. CASE x # t
    BY <2>2, <2>6
  <2> QED  BY <2>5, <2>6
<1>12. Restored(u)
  <2>1. \A k \in DOMAIN v : (v[k].restores # 0) =>
            \A f \in Gates \intersect DOMAIN v[v[k].restores].snapshot :
                /\ f \in DOMAIN v[k].snapshot
                /\ v[k].snapshot[f] = v[v[k].restores].snapshot[f]
    <3> TAKE k \in DOMAIN v
    <3>1. CASE k = Len(q) + 1
      <4>1. v[k] = r /\ (restores # 0 => v[restores] = q[restores])
        BY <1>5, <3>1
      <4> QED  BY <1>2, <4>1
    <3>2. CASE k \in DOMAIN q
      <4>1. q[k].restores \in 0..(k - 1)
        BY <1>4, <3>2 DEF StoreOK, Store, History
      <4>2. (q[k].restores # 0) =>
               \A f \in Gates \intersect DOMAIN q[q[k].restores].snapshot :
                   /\ f \in DOMAIN q[k].snapshot
                   /\ q[k].snapshot[f] = q[q[k].restores].snapshot[f]
        BY <1>4, <3>2 DEF StoreOK, Restored
      <4>3. (q[k].restores # 0) => q[k].restores \in 1..Len(q)
        <5>1. PICK n : n = q[k].restores
          OBVIOUS
        <5>2. n \in 0..(k - 1) /\ k \in 1..Len(q) /\ Len(q) \in Nat
          BY <1>5, <3>2, <4>1, <5>1
        <5> HIDE DEF q
        <5>3. n # 0 => n \in 1..Len(q)
          BY <5>2
        <5> QED  BY <5>1, <5>3
      <4>4. v[k] = q[k] /\ (q[k].restores # 0 => v[q[k].restores] = q[q[k].restores])
        BY <1>5, <3>2, <4>3
      <4> QED  BY <4>2, <4>4
    <3> QED  BY <1>5, <3>1, <3>2
  <2> QED  BY <1>8, <2>1 DEF StoreOK, Restored
<1>13. Extends(s, u)
  <2> SUFFICES ASSUME NEW x \in Targets, NEW k \in DOMAIN s.revisions[x]
               PROVE  k \in DOMAIN u.revisions[x] /\ u.revisions[x][k] = s.revisions[x][k]
    BY DEF Extends
  <2>1. CASE x = t
    <3>1. k \in DOMAIN q /\ s.revisions[x] = q
      BY <2>1
    <3>2. k \in DOMAIN v /\ v[k] = q[k]
      BY <1>5, <3>1
    <3>3. u.revisions[x] = v
      BY <1>8, <2>1
    <3> HIDE DEF q
    <3> QED  BY <3>1, <3>2, <3>3
  <2>2. CASE x # t
    BY <1>8, <2>2
  <2> QED  BY <2>1, <2>2
<1>14. Applied(u)
  <2> SUFFICES ASSUME NEW key \in DOMAIN u.manifests, u.manifests[key].origin = "import",
                      NEW k \in DOMAIN u.manifests[key].content.items
               PROVE  LET m == u.manifests[key].content IN
                      /\ HasArtifact(m, m.items[k])
                      /\ Written(u, m.items[k], ArtifactOf(m, m.items[k]))
    BY DEF Applied
  <2> DEFINE m == u.manifests[key].content
  <2>1. HasArtifact(m, m.items[k]) /\ Written(s, m.items[k], ArtifactOf(m, m.items[k]))
    BY <1>3 DEF StoreOK, Applied
  <2>2. m.items[k].kind \in RegistryKinds
    BY <1>3 DEF StoreOK, Store, Manifest
  <2> HIDE DEF m
  <2>3. Written(u, m.items[k], ArtifactOf(m, m.items[k]))
    BY <1>13, <2>1, <2>2, WrittenStays
  <2> QED  BY <2>1, <2>3 DEF m
<1>15. Latest(u, t, e) /\ Covered(u, t)
  <2>1. Latest(u, t, e)
    <3>1. v # <<>> /\ Last(v) = r
      BY <1>5 DEF Last
    <3> QED  BY <1>2, <1>8, <3>1 DEF Latest
  <2>2. Positions(u, t) = Positions(s, t)
    BY <1>3 DEF Positions
  <2> QED  BY <1>3, <2>1, <2>2 DEF Covered, Latest
<1>16. \A k \in DOMAIN u.revisions[t] :
          \/ u.revisions[t][k].audit = audit
          \/ k \in DOMAIN q /\ u.revisions[t][k] = q[k]
  <2> TAKE k \in DOMAIN u.revisions[t]
  <2>1. u.revisions[t][k] = v[k] /\ (k = Len(q) + 1 \/ k \in DOMAIN q)
    <3>1. k \in 1..(Len(q) + 1) /\ Len(q) \in Nat /\ DOMAIN q = 1..Len(q)
      BY <1>5, <1>8
    <3> HIDE DEF q
    <3>2. k = Len(q) + 1 \/ k \in DOMAIN q
      BY <3>1
    <3> QED  BY <1>8, <3>2
  <2>2. k = Len(q) + 1 => v[k].audit = audit
    BY <1>2, <1>5
  <2>3. k \in DOMAIN q => v[k] = q[k]
    BY <1>5
  <2> QED  BY <2>1, <2>2, <2>3
<1>17. \A x \in Targets \ {t} : Same(s, u, x)
  BY <1>3, <1>8 DEF Same, SameEntries, Positions
<1>18. Step(s, u) /\ Done(s, u)
  BY <1>13, <1>15, <1>17 DEF Step, Done
<1>19. StoreOK(u)
  BY <1>10, <1>11, <1>12, <1>14 DEF StoreOK
<1> QED  BY <1>3, <1>15, <1>16, <1>17, <1>18, <1>19 DEF u

(* An entry of the target is recorded, if the target has no revision yet.  *)
LEMMA EnsureStore ==
    ASSUME NEW s, StoreOK(s), NEW t \in Targets,
           NEW e, Entry(e), TargetOf(e) = t,
           \E k \in Positions(s, t) : s.entries[k] = e
    PROVE  LET u == EnsureInitialRevision(s, e) IN
           /\ StoreOK(u) /\ Step(s, u) /\ Done(s, u)
           /\ u.entries = s.entries /\ u.audits = s.audits
           /\ u.revisions[t] # <<>>
           /\ \A k \in DOMAIN u.revisions[t] :
                 \/ u.revisions[t][k].audit = 0
                 \/ k \in DOMAIN s.revisions[t] /\ u.revisions[t][k] = s.revisions[t][k]
<1> DEFINE u == EnsureInitialRevision(s, e)
           v == AppendRevision(s, e, 0, 0)
<1>1. s.audits[t] \in Nat
  BY DEF StoreOK, Store
<1>2. CASE s.revisions[t] = <<>>
  <2>1. u = v
    BY <1>2 DEF EnsureInitialRevision
  <2>2. 0 \in 0..s.audits[t] /\ 0 \in 0..Len(s.revisions[t]) /\ DOMAIN s.revisions[t] = {}
    BY <1>1, <1>2
  <2> HIDE DEF u
  <2>3. /\ StoreOK(v) /\ Step(s, v) /\ Done(s, v)
        /\ v.entries = s.entries /\ v.audits = s.audits
        /\ v.revisions[t] # <<>>
        /\ \A k \in DOMAIN v.revisions[t] :
              \/ v.revisions[t][k].audit = 0
              \/ k \in DOMAIN s.revisions[t] /\ v.revisions[t][k] = s.revisions[t][k]
    BY <2>2, RevisionStore DEF Latest
  <2> HIDE DEF v
  <2> QED  BY <2>1, <2>3 DEF u
<1>3. CASE s.revisions[t] # <<>>
  <2>1. u = s
    BY <1>3 DEF EnsureInitialRevision
  <2> HIDE DEF u
  <2> QED  BY <1>3, <2>1, QuietWrite DEF u
<1> QED  BY <1>2, <1>3

(***************************************************************************)
(* Calls                                                                   *)
(***************************************************************************)

Before(s, w, k) == IF k = 1 THEN s ELSE w[k - 1]

(* The writes of a call on s. *)
Writes(s, w) ==
    /\ w \in Seq(Range(w)) /\ Len(w) > 0
    /\ \A k \in DOMAIN w : StoreOK(w[k]) /\ Step(Before(s, w, k), w[k])
    /\ Done(s, w[Len(w)])

(* After every write of a call, no revision is lost, and a target is       *)
(* covered, as it was before the call, or has an entry changed by a write  *)
(* whose revision is still to come.                                        *)
LEMMA AfterEveryWrite ==
    ASSUME NEW s, NEW w, Writes(s, w)
    PROVE  \A k \in DOMAIN w :
              /\ Extends(s, w[k])
              /\ \A t \in Targets :
                    Same(s, w[k], t) \/ Covered(w[k], t) \/ t \in CutShort(s, w, k)
<1> DEFINE P(k) == /\ Extends(s, w[k])
                   /\ \A t \in Targets :
                         Same(s, w[k], t) \/ Covered(w[k], t) \/ t \in CutShort(s, w, k)
<1>1. Len(w) \in Nat /\ DOMAIN w = 1..Len(w)
  BY DEF Writes
<1>2. \A k \in DOMAIN w, t \in Targets : t \notin Revised(w[k], w[k])
  <2> SUFFICES ASSUME NEW k \in DOMAIN w, NEW t \in Targets
               PROVE  Len(w[k].revisions[t]) \in Nat
    BY DEF Revised
  <2> QED  BY DEF Writes, StoreOK, Store, History
<1>3. ASSUME NEW k \in DOMAIN w, (k = 1) \/ P(k - 1)
      PROVE  P(k)
  <2>1. Step(Before(s, w, k), w[k])
    BY DEF Writes
  <2>2. ASSUME NEW t \in Targets, t \in Changed(Before(s, w, k), w[k])
        PROVE  t \in CutShort(s, w, k)
    BY <1>1, <1>2, <2>2 DEF CutShort, Before
  <2>3. CASE k = 1
    BY <1>1, <2>1, <2>2, <2>3 DEF Step, Before
  <2>4. CASE k # 1
    <3>1. k - 1 \in DOMAIN w /\ k \in Nat /\ P(k - 1) /\ Before(s, w, k) = w[k - 1]
      BY <1>1, <1>3, <2>4 DEF Before
    <3>2. Extends(s, w[k])
      BY <2>1, <3>1 DEF Step, Extends
    <3>3. ASSUME NEW t \in Targets, Same(w[k - 1], w[k], t)
          PROVE  Same(s, w[k], t) \/ Covered(w[k], t) \/ t \in CutShort(s, w, k)
      <4>1. CASE t \in CutShort(s, w, k - 1)
        <5>1. PICK j \in 1..(k - 1) :
                 /\ t \in Changed(IF j = 1 THEN s ELSE w[j - 1], w[j])
                 /\ t \notin Revised(w[j], w[k - 1])
          BY <4>1 DEF CutShort
        <5>2. t \notin Revised(w[j], w[k])
          BY <3>3, <5>1 DEF Revised, Same
        <5> QED  BY <3>1, <5>1, <5>2 DEF CutShort
      <4>2. CASE Same(s, w[k - 1], t)
        BY <3>3, <4>2 DEF Same, SameEntries
      <4>3. CASE Covered(w[k - 1], t)
        BY <3>3, <4>3 DEF Same, SameEntries, Covered
      <4> QED  BY <3>1, <4>1, <4>2, <4>3
    <3> QED  BY <2>1, <2>2, <3>1, <3>2, <3>3 DEF Step
  <2> QED  BY <2>3, <2>4
<1>4. \A k \in DOMAIN w : P(k)
  <2> DEFINE Bad == {k \in DOMAIN w : ~P(k)}
  <2>1. CASE Bad # {}
    <3>1. Bad \in SUBSET Nat
      BY <1>1
    <3> HIDE DEF P
    <3>2. PICK m \in Bad : \A n \in Bad : m <= n
      BY <2>1, <3>1, LeastNatural
    <3>3. m \in DOMAIN w /\ ~P(m)
      OBVIOUS
    <3>4. m = 1 \/ P(m - 1)
      <4>1. CASE m # 1
        <5>1. m - 1 \in DOMAIN w /\ ~(m <= m - 1)
          BY <1>1, <3>3, <4>1
        <5> QED  BY <3>2, <5>1
      <4> QED  BY <4>1
    <3> QED  BY <1>3, <3>3, <3>4
  <2> HIDE DEF P
  <2> QED  BY <2>1
<1> QED  BY <1>4

(* The inductive invariant: every property but the queue's needs the       *)
(* entries and snapshots that TypeOK describes, and the history's          *)
(* numbering and coverage are what keeps a rollback and an audit apart.    *)
IInv == TypeOK /\ HistoryCoversEntries /\ RollbackRestoresGates /\ ImportsApplied

LEMMA CallKeepsInvariant ==
    ASSUME IInv, NEW w, Writes(store, w), Call(w)
    PROVE  IInv'
<1>1. /\ Len(w) \in Nat /\ Len(w) \in DOMAIN w /\ DOMAIN w = 1..Len(w)
      /\ \A k \in DOMAIN w : StoreOK(w[k])
  BY DEF Writes
<1>2. /\ StoreOK(store) /\ torn \subseteq Targets /\ crashes \in 0..MaxCrashes
  BY DEF IInv, TypeOK, StoreOK, HistoryCoversEntries, RollbackRestoresGates, ImportsApplied
<1>3. \A t \in Targets \ torn : Covered(store, t) \/ Untouched(store, t)
  BY DEF IInv, HistoryCoversEntries
<1>4. PICK k \in DOMAIN w :
         /\ store' = w[k]
         /\ \/ k = Len(w) /\ torn' = torn \ Revised(store, store') /\ crashes' = crashes
            \/ /\ crashes < MaxCrashes /\ crashes' = crashes + 1
               /\ torn' = (torn \ Revised(store, store')) \union CutShort(store, w, k)
  <2>1. CASE /\ store' = w[Len(w)]
             /\ torn' = torn \ Revised(store, store')
             /\ UNCHANGED crashes
    BY <1>1, <2>1
  <2>2. CASE \E k \in 1..(Len(w) - 1) :
                /\ crashes < MaxCrashes
                /\ store' = w[k]
                /\ torn' = (torn \ Revised(store, store')) \union CutShort(store, w, k)
                /\ crashes' = crashes + 1
    <3>1. PICK k \in 1..(Len(w) - 1) :
                /\ crashes < MaxCrashes
                /\ store' = w[k]
                /\ torn' = (torn \ Revised(store, store')) \union CutShort(store, w, k)
                /\ crashes' = crashes + 1
      BY <2>2
    <3> QED  BY <1>1, <3>1
  <2> QED  BY <2>1, <2>2 DEF Call
<1>5. StoreOK(store')
  BY <1>1, <1>4
<1>6. \A t \in Targets :
         Same(store, store', t) \/ Covered(store', t) \/ t \in CutShort(store, w, k)
  BY <1>4, AfterEveryWrite
<1>7. (k = Len(w)) => \A t \in Targets : Same(store, store', t) \/ Covered(store', t)
  BY <1>4 DEF Writes, Done
<1>8. torn' \subseteq Targets /\ crashes' \in 0..MaxCrashes
  <2>1. CutShort(store, w, k) \subseteq Targets
    BY DEF CutShort
  <2> QED  BY <1>2, <1>4, <2>1, RegistryAssumption
<1>9. ASSUME NEW t \in Targets \ torn'
      PROVE  Covered(store', t) \/ Untouched(store', t)
  <2>1. Same(store, store', t) \/ Covered(store', t)
    BY <1>4, <1>6, <1>7
  <2>2. CASE Same(store, store', t)
    <3>1. Len(store.revisions[t]) \in Nat
      BY <1>2 DEF StoreOK, Store, History
    <3>2. t \notin Revised(store, store')
      BY <2>2, <3>1 DEF Revised, Same
    <3>3. t \in Targets \ torn
      BY <1>4, <3>2
    <3>4. CASE Covered(store, t)
      BY <2>2, <3>4 DEF Same, SameEntries, Covered
    <3>5. CASE Untouched(store, t)
      BY <2>2, <3>5 DEF Same, SameEntries, Untouched
    <3> QED  BY <1>3, <3>3, <3>4, <3>5
  <2> QED  BY <2>1, <2>2
<1>10. TypeOK'
  BY <1>5, <1>8 DEF TypeOK, StoreOK
<1>11. HistoryCoversEntries'
  BY <1>5, <1>9 DEF HistoryCoversEntries, StoreOK
<1>12. RollbackRestoresGates' /\ ImportsApplied'
  BY <1>5 DEF RollbackRestoresGates, ImportsApplied, StoreOK
<1> QED  BY <1>10, <1>11, <1>12 DEF IInv

(* Calls of one to five writes. *)
LEMMA OneWrite ==
    ASSUME NEW s, NEW a, StoreOK(a), Step(s, a), Done(s, a)
    PROVE  Writes(s, <<a>>)
<1> DEFINE w == <<a>>
           S == {a}
<1>1. w \in Seq(S) /\ Len(w) = 1 /\ DOMAIN w = 1..1 /\ w[1] = a
  OBVIOUS
<1> HIDE DEF w, S
<1>2. w \in Seq(Range(w)) /\ Len(w) > 0
  BY <1>1, SeqOfRange
<1> QED  BY <1>1, <1>2 DEF Writes, Before, w

LEMMA TwoWrites ==
    ASSUME NEW s, NEW a, NEW b,
           StoreOK(a), StoreOK(b),
           Step(s, a), Step(a, b), Done(s, b)
    PROVE  Writes(s, <<a, b>>)
<1> DEFINE w == <<a, b>>
           S == {a, b}
<1>1. /\ w \in Seq(S) /\ Len(w) = 2 /\ DOMAIN w = 1..2
      /\ w[1] = a /\ w[2] = b
  OBVIOUS
<1> HIDE DEF w, S
<1>2. w \in Seq(Range(w)) /\ Len(w) > 0
  BY <1>1, SeqOfRange
<1>3. ASSUME NEW k \in DOMAIN w
      PROVE  StoreOK(w[k]) /\ Step(Before(s, w, k), w[k])
  <2>1. k = 1 \/ k = 2
    BY <1>1
  <2> QED  BY <1>1, <2>1 DEF Before
<1> QED  BY <1>1, <1>2, <1>3 DEF Writes, w

LEMMA ThreeWrites ==
    ASSUME NEW s, NEW a, NEW b, NEW c,
           StoreOK(a), StoreOK(b), StoreOK(c),
           Step(s, a), Step(a, b), Step(b, c), Done(s, c)
    PROVE  Writes(s, <<a, b, c>>)
<1> DEFINE w == <<a, b, c>>
           S == {a, b, c}
<1>1. /\ w \in Seq(S) /\ Len(w) = 3 /\ DOMAIN w = 1..3
      /\ w[1] = a /\ w[2] = b /\ w[3] = c
  OBVIOUS
<1> HIDE DEF w, S
<1>2. w \in Seq(Range(w)) /\ Len(w) > 0
  BY <1>1, SeqOfRange
<1>3. ASSUME NEW k \in DOMAIN w
      PROVE  StoreOK(w[k]) /\ Step(Before(s, w, k), w[k])
  <2>1. k = 1 \/ k = 2 \/ k = 3
    BY <1>1
  <2> QED  BY <1>1, <2>1 DEF Before
<1> QED  BY <1>1, <1>2, <1>3 DEF Writes, w

LEMMA FourWrites ==
    ASSUME NEW s, NEW a, NEW b, NEW c, NEW d,
           StoreOK(a), StoreOK(b), StoreOK(c), StoreOK(d),
           Step(s, a), Step(a, b), Step(b, c), Step(c, d), Done(s, d)
    PROVE  Writes(s, <<a, b, c, d>>)
<1> DEFINE w == <<a, b, c, d>>
           S == {a, b, c, d}
<1>1. /\ w \in Seq(S) /\ Len(w) = 4 /\ DOMAIN w = 1..4
      /\ w[1] = a /\ w[2] = b /\ w[3] = c /\ w[4] = d
  OBVIOUS
<1> HIDE DEF w, S
<1>2. w \in Seq(Range(w)) /\ Len(w) > 0
  BY <1>1, SeqOfRange
<1>3. ASSUME NEW k \in DOMAIN w
      PROVE  StoreOK(w[k]) /\ Step(Before(s, w, k), w[k])
  <2>1. k = 1 \/ k = 2 \/ k = 3 \/ k = 4
    BY <1>1
  <2> QED  BY <1>1, <2>1 DEF Before
<1> QED  BY <1>1, <1>2, <1>3 DEF Writes, w

LEMMA FiveWrites ==
    ASSUME NEW s, NEW a, NEW b, NEW c, NEW d, NEW e,
           StoreOK(a), StoreOK(b), StoreOK(c), StoreOK(d), StoreOK(e),
           Step(s, a), Step(a, b), Step(b, c), Step(c, d), Step(d, e), Done(s, e)
    PROVE  Writes(s, <<a, b, c, d, e>>)
<1> DEFINE w == <<a, b, c, d, e>>
           S == {a, b, c, d, e}
<1>1. /\ w \in Seq(S) /\ Len(w) = 5 /\ DOMAIN w = 1..5
      /\ w[1] = a /\ w[2] = b /\ w[3] = c /\ w[4] = d /\ w[5] = e
  OBVIOUS
<1> HIDE DEF w, S
<1>2. w \in Seq(Range(w)) /\ Len(w) > 0
  BY <1>1, SeqOfRange
<1>3. ASSUME NEW k \in DOMAIN w
      PROVE  StoreOK(w[k]) /\ Step(Before(s, w, k), w[k])
  <2>1. k = 1 \/ k = 2 \/ k = 3 \/ k = 4 \/ k = 5
    BY <1>1
  <2> QED  BY <1>1, <2>1 DEF Before
<1> QED  BY <1>1, <1>2, <1>3 DEF Writes, w

LEMMA FirstThree ==
    ASSUME NEW a, NEW b, NEW c, NEW d
    PROVE  SubSeq(<<a, b, c, d>>, 1, 3) = <<a, b, c>>
<1> DEFINE w == <<a, b, c, d>>
       u == <<a, b, c>>
       S == {a, b, c, d}
<1>1. /\ w \in Seq(S) /\ Len(w) = 4 /\ w[1] = a /\ w[2] = b /\ w[3] = c
      /\ u \in Seq(S) /\ Len(u) = 3 /\ u[1] = a /\ u[2] = b /\ u[3] = c
  OBVIOUS
<1> HIDE DEF w, u, S
<1> DEFINE v == SubSeq(w, 1, 3)
<1>2. v \in Seq(S) /\ Len(v) = 3 /\ v[1] = w[1] /\ v[2] = w[2] /\ v[3] = w[3]
  <2>1. /\ SubSeq(w, 1, 3) \in Seq(S) /\ Len(SubSeq(w, 1, 3)) = 3
        /\ \A k \in 1..3 : SubSeq(w, 1, 3)[k] = w[1 + k - 1]
    <3>1. \A k \in 1..3 : w[k] \in S
      BY <1>1
    <3>2. 1 \in Int /\ 3 \in Int /\ 1 <= 3 /\ 3 - 1 + 1 = 3
      OBVIOUS
    <3> QED  BY <3>1, <3>2, SubSeqProperties
  <2>2. 1 + 1 - 1 = 1 /\ 1 + 2 - 1 = 2 /\ 1 + 3 - 1 = 3
    OBVIOUS
  <2>3. 1 \in 1..3 /\ 2 \in 1..3 /\ 3 \in 1..3
    OBVIOUS
  <2> QED  BY <2>1, <2>2, <2>3
<1> HIDE DEF v
<1>3. \A k \in 1..Len(u) : u[k] = v[k]
  <2> TAKE k \in 1..Len(u)
  <2>1. k = 1 \/ k = 2 \/ k = 3
    BY <1>1
  <2> QED  BY <1>1, <1>2, <2>1
<1>4. u = v
  BY <1>1, <1>2, <1>3, SeqEqual
<1> QED  BY <1>4 DEF u, v, w

LEMMA OneMoreWrite ==
    ASSUME NEW s, NEW w, Writes(s, w), NEW t, StoreOK(t), Step(w[Len(w)], t), Done(s, t)
    PROVE  Writes(s, Append(w, t))
<1> DEFINE v == Append(w, t)
<1>1. /\ w \in Seq(Range(w)) /\ Len(w) \in Nat \ {0} /\ DOMAIN w = 1..Len(w)
      /\ \A k \in DOMAIN w : StoreOK(w[k]) /\ Step(Before(s, w, k), w[k])
  BY DEF Writes
<1>2. /\ v \in Seq(Range(w) \union {t}) /\ Len(v) = Len(w) + 1
      /\ DOMAIN v = 1..(Len(w) + 1)
      /\ \A k \in 1..Len(w) : v[k] = w[k]
      /\ v[Len(w) + 1] = t
  BY <1>1
<1> HIDE DEF v
<1>3. v \in Seq(Range(v)) /\ Len(v) > 0
  BY <1>1, <1>2, SeqOfRange
<1>4. ASSUME NEW k \in DOMAIN v
      PROVE  StoreOK(v[k]) /\ Step(Before(s, v, k), v[k])
  <2>1. CASE k \in 1..Len(w)
    <3>1. v[k] = w[k] /\ Before(s, v, k) = Before(s, w, k)
      BY <1>2, <2>1 DEF Before
    <3> QED  BY <1>1, <2>1, <3>1
  <2>2. CASE k = Len(w) + 1
    <3>1. v[k] = t /\ Before(s, v, k) = w[Len(w)]
      BY <1>1, <1>2, <2>2 DEF Before
    <3> QED  BY <3>1
  <2> QED  BY <1>1, <1>2, <2>1, <2>2
<1> QED  BY <1>1, <1>2, <1>3, <1>4 DEF Writes, v

(* A call followed by another call is a longer call. *)
LEMMA MoreWrites ==
    ASSUME NEW s, NEW w, Writes(s, w), NEW v, Writes(w[Len(w)], v)
    PROVE  Writes(s, w \o v)
<1> DEFINE u == w \o v
           t == w[Len(w)]
           S == Range(w) \union Range(v)
<1>1. /\ w \in Seq(S) /\ Len(w) \in Nat \ {0} /\ DOMAIN w = 1..Len(w)
      /\ \A k \in DOMAIN w : StoreOK(w[k]) /\ Step(Before(s, w, k), w[k])
  BY DEF Writes
<1>2. /\ v \in Seq(S) /\ Len(v) \in Nat \ {0} /\ DOMAIN v = 1..Len(v)
      /\ \A k \in DOMAIN v : StoreOK(v[k]) /\ Step(Before(t, v, k), v[k])
  BY DEF Writes
<1>3. Done(s, v[Len(v)])
  BY DoneTransitive DEF Writes
<1> HIDE DEF S, t
<1>4. /\ u \in Seq(S) /\ Len(u) = Len(w) + Len(v) /\ DOMAIN u = 1..(Len(w) + Len(v))
      /\ \A k \in 1..Len(w) : u[k] = w[k]
      /\ \A k \in 1..Len(v) : u[Len(w) + k] = v[k]
  BY <1>1, <1>2, ConcatProperties
<1> HIDE DEF u
<1>5. u \in Seq(Range(u)) /\ Len(u) > 0
  BY <1>1, <1>4, SeqOfRange
<1>6. ASSUME NEW k \in DOMAIN u
      PROVE  StoreOK(u[k]) /\ Step(Before(s, u, k), u[k])
  <2>1. CASE k \in 1..Len(w)
    <3>1. u[k] = w[k] /\ Before(s, u, k) = Before(s, w, k)
      BY <1>4, <2>1 DEF Before
    <3> QED  BY <1>1, <2>1, <3>1
  <2>2. CASE k \notin 1..Len(w)
    <3>1. PICK n \in 1..Len(v) : k = Len(w) + n
      <4>1. k - Len(w) \in 1..Len(v) /\ k = Len(w) + (k - Len(w))
        BY <1>1, <1>2, <1>4, <2>2
      <4> QED  BY <4>1
    <3>2. u[k] = v[n]
      BY <1>4, <3>1
    <3>3. Before(s, u, k) = Before(t, v, n)
      <4>1. CASE n = 1
        BY <1>1, <1>4, <3>1, <4>1 DEF Before, t
      <4>2. CASE n # 1
        <5>1. n - 1 \in 1..Len(v) /\ k - 1 = Len(w) + (n - 1) /\ k # 1
          BY <1>1, <1>2, <3>1, <4>2
        <5>2. u[k - 1] = v[n - 1]
          BY <1>4, <5>1
        <5> QED  BY <4>2, <5>1, <5>2 DEF Before
      <4> QED  BY <4>1, <4>2
    <3> QED  BY <1>2, <3>2, <3>3
  <2> QED  BY <2>1, <2>2
<1>7. u[Len(u)] = v[Len(v)]
  BY <1>2, <1>4
<1> QED  BY <1>3, <1>5, <1>6, <1>7 DEF Writes, u

(***************************************************************************)
(* The service's calls                                                     *)
(***************************************************************************)

LEMMA SamePositions ==
    ASSUME NEW s, NEW u, u.entries = s.entries
    PROVE  \A t : /\ Positions(u, t) = Positions(s, t) /\ Has(u, t) = Has(s, t)
                  /\ GetEntity(u, t) = GetEntity(s, t)
BY DEF Positions, Has, GetEntity

(* What an update of an existing entry writes; a rollback names a revision *)
(* whose gates the update gives the entry.                                 *)
LEMMA UpdateWrites ==
    ASSUME NEW s, StoreOK(s), NEW t \in Targets, Has(s, t), NEW p, PatchOf(t, p),
           NEW before, Entry(before), TargetOf(before) = t,
           \E k \in Positions(s, t) : s.entries[k] = before,
           NEW restores \in 0..Len(EnsureInitialRevision(s, before).revisions[t]),
           (restores # 0) =>
               \A f \in Gates \intersect
                        DOMAIN EnsureInitialRevision(s, before).revisions[t][restores].snapshot :
                   /\ f \in DOMAIN Assign(p, GetEntity(s, t))
                   /\ Assign(p, GetEntity(s, t))[f] =
                         EnsureInitialRevision(s, before).revisions[t][restores].snapshot[f]
    PROVE  LET w == EntityWrites(s, t, before, p, restores)
               e == GetEntity(s, t) IN
           /\ Writes(s, w) /\ Latest(w[Len(w)], t, Assign(p, e))
           /\ (Assign(p, e) = e) => Writes(s, SubSeq(w, 1, 3))
<1> DEFINE e  == GetEntity(s, t)
           s1 == EnsureInitialRevision(s, before)
           s2 == UpdateEntity(s1, t, p)
           s3 == AppendAuditLog(s2, t)
           s4 == AppendRevision(s3, GetEntity(s3, t), s3.audits[t], restores)
<1>1. EntityWrites(s, t, before, p, restores) = <<s1, s2, s3, s4>>
  BY DEF EntityWrites
<1>2. /\ StoreOK(s1) /\ Step(s, s1) /\ Done(s, s1)
      /\ s1.entries = s.entries /\ s1.audits = s.audits
  BY EnsureStore
<1>3. Has(s1, t) /\ GetEntity(s1, t) = e
  BY <1>2, SamePositions
<1> HIDE DEF s1
<1>4. /\ StoreOK(s2) /\ Step(s1, s2)
      /\ Has(s2, t) /\ GetEntity(s2, t) = Assign(p, e)
      /\ s2.revisions = s1.revisions /\ s2.audits = s.audits
      /\ \A x \in Targets \ {t} : Same(s1, s2, x)
      /\ (Assign(p, e) = e) => (s2.entries = s1.entries)
  BY <1>2, <1>3, UpdateStore
<1> HIDE DEF s2
<1>5. /\ StoreOK(s3) /\ Step(s2, s3) /\ Done(s2, s3)
      /\ s3.entries = s2.entries /\ s3.revisions = s1.revisions
      /\ s3.audits[t] = s.audits[t] + 1
  BY <1>4, AuditStore
<1>6. Has(s3, t) /\ GetEntity(s3, t) = Assign(p, e)
  BY <1>4, <1>5, SamePositions
<1> HIDE DEF s3, e
<1>7. /\ StoreOK(s4) /\ Step(s3, s4) /\ Done(s3, s4) /\ Covered(s4, t)
      /\ Latest(s4, t, Assign(p, e))
      /\ \A x \in Targets \ {t} : Same(s3, s4, x)
  <2>1. s.audits[t] \in Nat /\ s3.audits[t] \in 0..s3.audits[t]
    BY <1>5 DEF StoreOK, Store
  <2>2. \A k \in DOMAIN s3.revisions[t] : s3.revisions[t][k].audit < s3.audits[t]
    <3> TAKE k \in DOMAIN s3.revisions[t]
    <3>1. s1.revisions[t][k].audit <= s1.audits[t] /\ s1.revisions[t][k].audit \in Nat
      BY <1>2, <1>5 DEF StoreOK, Numbered, Store, History
    <3> QED  BY <1>2, <1>5, <2>1, <3>1
  <2>3. restores \in 0..Len(s3.revisions[t])
    BY <1>5 DEF s1
  <2>4. (restores # 0) =>
            \A f \in Gates \intersect DOMAIN s3.revisions[t][restores].snapshot :
                /\ f \in DOMAIN Assign(p, e)
                /\ Assign(p, e)[f] = s3.revisions[t][restores].snapshot[f]
    BY <1>5 DEF s1, e
  <2>5. /\ Entry(Assign(p, e)) /\ TargetOf(Assign(p, e)) = t
        /\ \E k \in Positions(s3, t) : s3.entries[k] = Assign(p, e)
    BY <1>5, <1>6, FirstEntry
  <2>6. PICK a, b : a = s3.audits[t] /\ b = Assign(p, e)
    OBVIOUS
  <2> DEFINE u == AppendRevision(s3, b, a, restores)
  <2>7. /\ StoreOK(s3) /\ a \in 0..s3.audits[t]
        /\ \A k \in DOMAIN s3.revisions[t] : s3.revisions[t][k].audit < a
        /\ Entry(b) /\ TargetOf(b) = t /\ \E k \in Positions(s3, t) : s3.entries[k] = b
        /\ (restores # 0) =>
              \A f \in Gates \intersect DOMAIN s3.revisions[t][restores].snapshot :
                  f \in DOMAIN b /\ b[f] = s3.revisions[t][restores].snapshot[f]
    BY <1>5, <2>1, <2>2, <2>4, <2>5, <2>6
  <2>8. /\ StoreOK(u) /\ Step(s3, u) /\ Done(s3, u) /\ Covered(u, t) /\ Latest(u, t, b)
        /\ \A x \in Targets \ {t} : Same(s3, u, x)
    BY <2>3, <2>7, RevisionStore
  <2>9. u = s4
    BY <1>6, <2>6
  <2> HIDE DEF u, s4
  <2> QED  BY <2>6, <2>8, <2>9
<1> HIDE DEF s4
<1>8. Done(s1, s4)
  <2> SUFFICES ASSUME NEW x \in Targets \ {t}
               PROVE  Same(s1, s4, x)
    BY <1>7 DEF Done
  <2>1. Same(s1, s2, x) /\ Same(s3, s4, x)
    BY <1>4, <1>7
  <2>2. Same(s2, s3, x)
    BY <1>4, <1>5 DEF Same, SameEntries, Positions
  <2> QED  BY <2>1, <2>2 DEF Same, SameEntries
<1>9. ASSUME Assign(p, e) = e
      PROVE  Done(s1, s3)
  BY <1>4, <1>5, <1>9, QuietWrite
<1>10. Done(s, s4) /\ ((Assign(p, e) = e) => Done(s, s3))
  BY <1>2, <1>8, <1>9, DoneTransitive
<1>11. Writes(s, <<s1, s2, s3, s4>>)
  BY <1>2, <1>4, <1>5, <1>7, <1>10, FourWrites
<1>12. SubSeq(<<s1, s2, s3, s4>>, 1, 3) = <<s1, s2, s3>>
  BY FirstThree
<1>13. ASSUME Assign(p, e) = e
       PROVE  Writes(s, <<s1, s2, s3>>)
  BY <1>2, <1>4, <1>5, <1>10, <1>13, ThreeWrites
<1>14. <<s1, s2, s3, s4>>[Len(<<s1, s2, s3, s4>>)] = s4
  OBVIOUS
<1> QED  BY <1>1, <1>7, <1>11, <1>12, <1>13, <1>14 DEF e

LEMMA CreateWrites ==
    ASSUME NEW s, StoreOK(s), NEW e, Entry(e)
    PROVE  LET w == CreationWrites(s, e) IN
           Writes(s, w) /\ Latest(w[Len(w)], TargetOf(e), e)
<1> DEFINE t  == TargetOf(e)
           s1 == CreateEntity(s, e)
           s2 == AppendAuditLog(s1, t)
           s3 == AppendRevision(s2, e, s2.audits[t], 0)
<1>1. CreationWrites(s, e) = <<s1, s2, s3>>
  BY DEF CreationWrites
<1>2. t \in Targets
  BY DEF Entry
<1>3. /\ StoreOK(s1) /\ Step(s, s1)
      /\ \E k \in Positions(s1, t) : s1.entries[k] = e
      /\ s1.revisions = s.revisions /\ s1.audits = s.audits
      /\ \A x \in Targets \ {t} : Same(s, s1, x)
  BY CreateStore
<1> HIDE DEF s1
<1>4. /\ StoreOK(s2) /\ Step(s1, s2)
      /\ s2.entries = s1.entries /\ s2.revisions = s.revisions
      /\ s2.audits[t] = s.audits[t] + 1
  BY <1>2, <1>3, AuditStore
<1> HIDE DEF s2
<1>5. /\ StoreOK(s3) /\ Step(s2, s3) /\ Done(s2, s3) /\ Covered(s3, t) /\ Latest(s3, t, e)
      /\ \A x \in Targets \ {t} : Same(s2, s3, x)
  <2>1. /\ s.audits[t] \in Nat /\ s2.audits[t] \in 0..s2.audits[t]
        /\ 0 \in 0..Len(s2.revisions[t])
    BY <1>2, <1>4 DEF StoreOK, Store, History
  <2>2. \A k \in DOMAIN s2.revisions[t] : s2.revisions[t][k].audit < s2.audits[t]
    <3> TAKE k \in DOMAIN s2.revisions[t]
    <3>1. s.revisions[t][k].audit <= s.audits[t] /\ s.revisions[t][k].audit \in Nat
      BY <1>2, <1>4 DEF StoreOK, Numbered, Store, History
    <3> QED  BY <1>4, <2>1, <3>1
  <2>3. \E k \in Positions(s2, t) : s2.entries[k] = e
    BY <1>3, <1>4, SamePositions
  <2> HIDE DEF t
  <2>4. TargetOf(e) = t
    BY DEF t
  <2> QED  BY <1>2, <1>4, <2>1, <2>2, <2>3, <2>4, RevisionStore
<1> HIDE DEF s3
<1>6. Done(s, s3)
  <2> SUFFICES ASSUME NEW x \in Targets \ {t}
               PROVE  Same(s, s3, x)
    BY <1>5 DEF Done
  <2>1. Same(s, s1, x) /\ Same(s2, s3, x)
    BY <1>3, <1>5
  <2>2. Same(s1, s2, x)
    BY <1>3, <1>4 DEF Same, SameEntries, Positions
  <2> QED  BY <2>1, <2>2 DEF Same, SameEntries
<1>7. Writes(s, <<s1, s2, s3>>)
  BY <1>3, <1>4, <1>5, <1>6, ThreeWrites
<1>8. <<s1, s2, s3>>[Len(<<s1, s2, s3>>)] = s3
  OBVIOUS
<1> QED  BY <1>1, <1>5, <1>7, <1>8

(* A target's first entry, as the caller of an update finds it. *)
LEMMA Found ==
    ASSUME NEW s, StoreOK(s), NEW t \in Targets, Has(s, t)
    PROVE  /\ Entry(GetEntity(s, t)) /\ TargetOf(GetEntity(s, t)) = t
           /\ \E k \in Positions(s, t) : s.entries[k] = GetEntity(s, t)
           /\ StoreOK(EnsureInitialRevision(s, GetEntity(s, t)))
           /\ 0 \in 0..Len(EnsureInitialRevision(s, GetEntity(s, t)).revisions[t])
<1>1. /\ Entry(GetEntity(s, t)) /\ TargetOf(GetEntity(s, t)) = t
      /\ \E k \in Positions(s, t) : s.entries[k] = GetEntity(s, t)
  BY FirstEntry
<1>2. StoreOK(EnsureInitialRevision(s, GetEntity(s, t)))
  BY <1>1, EnsureStore
<1> QED  BY <1>1, <1>2 DEF StoreOK, Store, History

(* A verification assigns the checksum status an instruction has already,  *)
(* or records a revision.                                                  *)
LEMMA ChecksumCall ==
    ASSUME NEW s, StoreOK(s), NEW t \in Targets, Has(s, t), t[1] = "instruction",
           NEW outcome, NEW later \in BOOLEAN
    PROVE  Writes(s, ChecksumWrites(s, t, outcome, later))
<1> DEFINE p == [checksumStatus |-> outcome]
           e == GetEntity(s, t)
           w == EntityWrites(s, t, e, p, 0)
<1>1. DOMAIN p = {"checksumStatus"} /\ p.checksumStatus = outcome
  OBVIOUS
<1>2. /\ Entry(e) /\ TargetOf(e) = t
      /\ \E k \in Positions(s, t) : s.entries[k] = e
      /\ 0 \in 0..Len(EnsureInitialRevision(s, e).revisions[t])
  BY Found
<1>3. ChecksumWrites(s, t, outcome, later) =
         IF e.checksumStatus # outcome \/ (later /\ outcome # "unavailable")
         THEN w ELSE SubSeq(w, 1, 3)
  BY DEF ChecksumWrites
<1> HIDE DEF p
<1>4. ASSUME e.checksumStatus = outcome
      PROVE  Assign(p, e) = e
  <2>1. "checksumStatus" \in DOMAIN e /\ e = [f \in DOMAIN e |-> e[f]]
    BY <1>2 DEF Entry, TargetOf
  <2>2. DOMAIN p \union DOMAIN e = DOMAIN e /\ \A f \in DOMAIN p : p[f] = e[f]
    BY <1>1, <1>4, <2>1
  <2> HIDE DEF e
  <2> QED  BY <2>1, <2>2 DEF Assign
<1>5. PatchOf(t, p)
  BY <1>1 DEF PatchOf
<1>6. Writes(s, w) /\ ((Assign(p, e) = e) => Writes(s, SubSeq(w, 1, 3)))
  BY <1>2, <1>5, UpdateWrites
<1> QED  BY <1>3, <1>4, <1>6

(* The entry of a rollback has its first revision before the snapshot is   *)
(* looked up.                                                              *)
LEMMA RollbackCall ==
    ASSUME NEW s, StoreOK(s), NEW t \in Targets, Has(s, t),
           NEW n \in DOMAIN EnsureInitialRevision(s, GetEntity(s, t)).revisions[t]
    PROVE  Writes(s, RollbackWrites(s, t, n))
<1> DEFINE e  == GetEntity(s, t)
           s1 == EnsureInitialRevision(s, e)
           p  == At(t, s1.revisions[t][n].snapshot)
           w  == EntityWrites(s1, t, e, p, n)
<1>1. RollbackWrites(s, t, n) = w
  BY DEF RollbackWrites
<1>2. /\ Entry(e) /\ TargetOf(e) = t
      /\ \E k \in Positions(s, t) : s.entries[k] = e
  BY Found
<1>3. /\ StoreOK(s1) /\ Step(s, s1) /\ Done(s, s1) /\ s1.entries = s.entries
      /\ s1.revisions[t] # <<>> /\ n \in DOMAIN s1.revisions[t]
  BY <1>2, EnsureStore
<1>4. EnsureInitialRevision(s1, e) = s1
  BY <1>2, <1>3 DEF EnsureInitialRevision
<1> HIDE DEF s1, e
<1>5. /\ Has(s1, t) /\ GetEntity(s1, t) = e
      /\ \E k \in Positions(s1, t) : s1.entries[k] = e
  BY <1>2, <1>3, SamePositions DEF e
<1>6. n \in 0..Len(s1.revisions[t])
  BY <1>3 DEF StoreOK, Store, History
<1>7. /\ PatchOf(t, p)
      /\ \A f \in Gates \intersect DOMAIN s1.revisions[t][n].snapshot :
            f \in DOMAIN p /\ p[f] = s1.revisions[t][n].snapshot[f]
  <2>1. "kind" \notin Gates /\ "id" \notin Gates
    BY DEF Gates
  <2>2. PICK q : q = s1.revisions[t][n].snapshot
    OBVIOUS
  <2>3. PatchOf(t, At(t, q)) /\ \A f \in Gates \intersect DOMAIN q :
                                   f \in DOMAIN At(t, q) /\ At(t, q)[f] = q[f]
    <3>1. /\ DOMAIN At(t, q) = {"kind", "id"} \union DOMAIN q
          /\ PatchOf(t, At(t, q))
          /\ \A f \in DOMAIN q \ {"kind", "id"} : At(t, q)[f] = q[f]
      BY AtTarget
    <3> QED  BY <2>1, <3>1
  <2> QED  BY <2>2, <2>3
<1> HIDE DEF p
<1>8. \A f \in Gates \intersect DOMAIN s1.revisions[t][n].snapshot :
          f \in DOMAIN Assign(p, e) /\ Assign(p, e)[f] = s1.revisions[t][n].snapshot[f]
  BY <1>2, <1>7, AssignEntry
<1>9. Writes(s1, w)
  BY <1>2, <1>3, <1>4, <1>5, <1>6, <1>7, <1>8, UpdateWrites
<1>10. w[1] = s1 /\ Len(w) = 4
  BY <1>4 DEF EntityWrites
<1> HIDE DEF w
<1>11. \A k \in DOMAIN w : StoreOK(w[k]) /\ Step(Before(s, w, k), w[k])
  <2> TAKE k \in DOMAIN w
  <2>1. StoreOK(w[k]) /\ Step(Before(s1, w, k), w[k])
    BY <1>9 DEF Writes
  <2> QED  BY <1>3, <1>10, <2>1 DEF Before
<1>12. Done(s, w[Len(w)])
  BY <1>3, <1>9, DoneTransitive DEF Writes
<1> QED  BY <1>1, <1>9, <1>11, <1>12 DEF Writes

(* The result and its audit record, then the entry, if it is to change.    *)
LEMMA AttachEvalCall ==
    ASSUME NEW s, StoreOK(s), NEW t \in Targets, Has(s, t), NEW result, NEW update \in BOOLEAN
    PROVE  Writes(s, AttachEvalWrites(s, t, result, update))
<1> DEFINE p  == [evalStatus |-> result]
           e  == GetEntity(s, t)
           s1 == AppendEvalResult(s, t)
           s2 == AppendAuditLog(s1, t)
           s3 == EnsureInitialRevision(s2, e)
           s4 == UpdateEntity(s3, t, p)
           s5 == AppendRevision(s4, GetEntity(s4, t), s2.audits[t], 0)
<1>1. AttachEvalWrites(s, t, result, update) =
         IF ~update THEN <<s1, s2>>
         ELSE IF EvalStatusFromResult(result) = {} THEN <<s1, s2, s3>>
         ELSE <<s1, s2, s3, s4, s5>>
  BY DEF AttachEvalWrites
<1>2. s.audits[t] \in Nat
  BY DEF StoreOK, Store
<1>3. /\ Entry(e) /\ TargetOf(e) = t /\ \E k \in Positions(s, t) : s.entries[k] = e
  BY Found
<1>4. /\ StoreOK(s1) /\ Step(s, s1) /\ Done(s, s1)
      /\ s1.entries = s.entries /\ s1.revisions = s.revisions /\ s1.audits = s.audits
  BY EvalStore
<1> HIDE DEF s1
<1>5. /\ StoreOK(s2) /\ Step(s1, s2) /\ Done(s1, s2)
      /\ s2.entries = s.entries /\ s2.revisions = s.revisions
      /\ s2.audits[t] = s.audits[t] + 1
  BY <1>4, AuditStore
<1>6. \E k \in Positions(s2, t) : s2.entries[k] = e
  BY <1>3, <1>5, SamePositions
<1> HIDE DEF s2, e
<1>7. /\ StoreOK(s3) /\ Step(s2, s3) /\ Done(s2, s3)
      /\ s3.entries = s.entries /\ s3.audits = s2.audits
      /\ \A k \in DOMAIN s3.revisions[t] :
            \/ s3.revisions[t][k].audit = 0
            \/ k \in DOMAIN s.revisions[t] /\ s3.revisions[t][k] = s.revisions[t][k]
  BY <1>3, <1>5, <1>6, EnsureStore
<1>8. Has(s3, t)
  BY <1>7, SamePositions
<1> HIDE DEF s3
<1>9. Done(s, s2) /\ Done(s, s3)
  BY <1>4, <1>5, <1>7, DoneTransitive
<1>10. Writes(s, <<s1, s2>>)
  BY <1>4, <1>5, <1>9, TwoWrites
<1>11. Writes(s, <<s1, s2, s3>>)
  BY <1>4, <1>5, <1>7, <1>9, ThreeWrites
<1>12. PatchOf(t, p)
  <2>1. DOMAIN p = {"evalStatus"}
    OBVIOUS
  <2> QED  BY <2>1 DEF PatchOf
<1> HIDE DEF p
<1>13. /\ StoreOK(s4) /\ Step(s3, s4) /\ Has(s4, t)
       /\ s4.revisions = s3.revisions /\ s4.audits = s2.audits
       /\ \A x \in Targets \ {t} : Same(s3, s4, x)
  BY <1>7, <1>8, <1>12, UpdateStore
<1> HIDE DEF s4
<1>14. /\ StoreOK(s5) /\ Step(s4, s5) /\ Covered(s5, t)
       /\ \A x \in Targets \ {t} : Same(s4, s5, x)
  <2>1. s2.audits[t] \in 0..s4.audits[t] /\ 0 \in 0..Len(s4.revisions[t])
    BY <1>2, <1>5, <1>13 DEF StoreOK, Store, History
  <2>2. \A k \in DOMAIN s4.revisions[t] : s4.revisions[t][k].audit < s2.audits[t]
    <3> TAKE k \in DOMAIN s4.revisions[t]
    <3>1. k \in DOMAIN s.revisions[t] =>
             s.revisions[t][k].audit <= s.audits[t] /\ s.revisions[t][k].audit \in Nat
      BY DEF StoreOK, Numbered, Store, History
    <3> QED  BY <1>2, <1>5, <1>7, <1>13, <3>1
  <2>3. PICK b : b = GetEntity(s4, t)
    OBVIOUS
  <2>4. Entry(b) /\ TargetOf(b) = t /\ \E k \in Positions(s4, t) : s4.entries[k] = b
    BY <1>13, <2>3, Found
  <2> DEFINE u == AppendRevision(s4, b, s2.audits[t], 0)
  <2>5. /\ StoreOK(u) /\ Step(s4, u) /\ Covered(u, t)
        /\ \A x \in Targets \ {t} : Same(s4, u, x)
    BY <1>13, <2>1, <2>2, <2>4, RevisionStore
  <2>6. u = s5
    BY <2>3
  <2> HIDE DEF u, s5
  <2> QED  BY <2>5, <2>6
<1> HIDE DEF s5
<1>15. Done(s3, s5)
  BY <1>13, <1>14 DEF Done, Same, SameEntries
<1>16. Writes(s, <<s1, s2, s3, s4, s5>>)
  BY <1>4, <1>5, <1>7, <1>9, <1>13, <1>14, <1>15, DoneTransitive, FiveWrites
<1> QED  BY <1>1, <1>10, <1>11, <1>16

(***************************************************************************)
(* Exports                                                                 *)
(***************************************************************************)

LEMMA PositionsSequence ==
    ASSUME NEW s, StoreOK(s), NEW S \in SUBSET DOMAIN s.entries
    PROVE  SetToSeq(S) \in Seq(S)
<1>1. IsFiniteSet(DOMAIN s.entries)
  <2>1. DOMAIN s.entries = 1..Len(s.entries) /\ Len(s.entries) \in Nat
    BY DEF StoreOK, Store
  <2>2. 1 \in Int /\ Len(s.entries) \in Int
    BY <2>1
  <2>3. IsFiniteSet(1..Len(s.entries))
    BY <2>2, FS_Interval
  <2> QED  BY <2>1, <2>3
<1>2. IsFiniteSet(S)
  BY <1>1, FS_Subset
<1>3. Cardinality(S) \in Nat /\ \E f \in [1..Cardinality(S) -> S] : IsInjective(f)
  BY <1>2, FS_CardinalityType DEF ExistsBijection, Bijection, Injection
<1>4. SetToSeq(S) \in [1..Cardinality(S) -> S]
  BY <1>3 DEF SetToSeq
<1> QED  BY <1>3, <1>4, SeqDef

LEMMA EntryKind ==
    ASSUME NEW e, Entry(e)
    PROVE  /\ e.kind \in RegistryKinds /\ e.id \in Ids
           /\ \A kind \in RegistryKinds : <<kind, e.id>> \in Targets
           /\ Artifact(e)
BY DEF Entry, TargetOf, Targets, Artifact

(* Of the kinds that share an identifier one comes last. *)
LEMMA ExportedArtifactType ==
    ASSUME NEW s, StoreOK(s), NEW chosen \in SUBSET DOMAIN s.entries,
           NEW id, \E k \in chosen : s.entries[k].id = id
    PROVE  Artifact(ExportedArtifact(s, chosen, id))
<1> DEFINE order == [harness |-> 1, instruction |-> 2, skill |-> 3]
           kinds == {s.entries[k].kind : k \in {k \in chosen : s.entries[k].id = id}}
           kind  == CHOOSE a \in kinds : \A b \in kinds : order[b] <= order[a]
<1>1. kinds # {} /\ kinds \subseteq RegistryKinds
  <2>1. \A k \in chosen : s.entries[k].kind \in RegistryKinds
    BY EntryKind DEF StoreOK, Store
  <2> HIDE DEF order
  <2>2. \A a \in kinds : \E k \in chosen : a = s.entries[k].kind
    OBVIOUS
  <2>3. \E k \in chosen : s.entries[k].kind \in kinds
    OBVIOUS
  <2> HIDE DEF kinds
  <2> QED  BY <2>1, <2>2, <2>3
<1> HIDE DEF kinds
<1>2. \E a \in kinds : \A b \in kinds : order[b] <= order[a]
  <2>1. order["harness"] = 1 /\ order["instruction"] = 2 /\ order["skill"] = 3
    OBVIOUS
  <2> HIDE DEF order
  <2>2. \A b \in kinds : b = "harness" \/ b = "instruction" \/ b = "skill"
    BY <1>1 DEF RegistryKinds
  <2>3. CASE "skill" \in kinds
    BY <2>1, <2>2, <2>3
  <2>4. CASE "skill" \notin kinds /\ "instruction" \in kinds
    BY <2>1, <2>2, <2>4
  <2>5. CASE "skill" \notin kinds /\ "instruction" \notin kinds
    BY <1>1, <2>1, <2>2, <2>5
  <2> QED  BY <2>3, <2>4, <2>5
<1>3. kind \in kinds
  BY <1>2
<1>4. ExportedArtifact(s, chosen, id) = GetEntity(s, <<kind, id>>)
  BY DEF ExportedArtifact, kinds
<1> HIDE DEF kind
<1>5. PICK k \in chosen : s.entries[k].id = id /\ s.entries[k].kind = kind
  BY <1>3 DEF kinds
<1>6. Entry(s.entries[k]) /\ TargetOf(s.entries[k]) = <<kind, id>>
  BY <1>5 DEF StoreOK, Store, TargetOf
<1>7. <<kind, id>> \in Targets /\ Has(s, <<kind, id>>)
  BY <1>5, <1>6 DEF Entry, Has, Positions
<1>8. Entry(GetEntity(s, <<kind, id>>))
  BY <1>7, FirstEntry
<1> QED  BY <1>4, <1>8, EntryKind

LEMMA ManifestOfType ==
    ASSUME NEW s, StoreOK(s), NEW chosen \in SUBSET DOMAIN s.entries
    PROVE  Manifest(ManifestOf(s, chosen))
<1> DEFINE Sorted(kind) == SetToSeq({k \in chosen : s.entries[k].kind = kind})
           sorted == Sorted("harness") \o Sorted("instruction") \o Sorted("skill")
           items  == [n \in DOMAIN sorted |->
                         [kind |-> s.entries[sorted[n]].kind, id |-> s.entries[sorted[n]].id,
                          ref |-> s.entries[sorted[n]].ref]]
           ids    == {s.entries[k].id : k \in chosen}
           byId   == [id \in ids |-> ExportedArtifact(s, chosen, id)]
           m      == [items |-> items, byId |-> byId, byRef |-> <<>>]
<1>1. ManifestOf(s, chosen) = m
  BY DEF ManifestOf
<1>2. sorted \in Seq(DOMAIN s.entries)
  <2>1. \A kind : Sorted(kind) \in Seq(DOMAIN s.entries)
    <3> TAKE kind
    <3> DEFINE S == {k \in chosen : s.entries[k].kind = kind}
    <3>1. S \in SUBSET DOMAIN s.entries
      OBVIOUS
    <3> HIDE DEF S
    <3>2. SetToSeq(S) \in Seq(S)
      BY <3>1, PositionsSequence
    <3>3. SetToSeq(S) \in Seq(DOMAIN s.entries)
      BY <3>1, <3>2, SeqMonotonic
    <3> QED  BY <3>3 DEF S
  <2> HIDE DEF Sorted
  <2> QED  BY <2>1
<1> HIDE DEF sorted
<1>3. \A n \in DOMAIN sorted : items[n].kind \in RegistryKinds
  BY <1>2, EntryKind DEF StoreOK, Store
<1>4. items \in Seq(Range(items))
  <2>1. DOMAIN sorted = 1..Len(sorted) /\ Len(sorted) \in Nat
    BY <1>2
  <2>2. DOMAIN items = DOMAIN sorted /\ items = [n \in DOMAIN items |-> items[n]]
    OBVIOUS
  <2> HIDE DEF items
  <2>3. items \in [1..Len(sorted) -> Range(items)]
    BY <2>1, <2>2 DEF Range
  <2> QED  BY <2>1, <2>3, SeqDef
<1>5. \A id \in ids : Artifact(byId[id])
  BY ExportedArtifactType
<1>6. m.items = items /\ m.byId = byId /\ m.byRef = <<>> /\ DOMAIN byId = ids
      /\ DOMAIN items = DOMAIN sorted
  OBVIOUS
<1> HIDE DEF items, byId, m, ids
<1>7. DOMAIN m.byRef = {}
  BY <1>6
<1>8. Manifest(m)
  BY <1>3, <1>4, <1>5, <1>6, <1>7 DEF Manifest
<1> QED  BY <1>1, <1>8

LEMMA ExportCall ==
    ASSUME NEW s, StoreOK(s), NEW key, NEW chosen \in SUBSET DOMAIN s.entries
    PROVE  Writes(s, ExportWrites(s, key, chosen))
<1> DEFINE t == CreatePackageManifest(s, key, ManifestOf(s, chosen), "export")
<1>1. CASE key \in DOMAIN s.manifests
  <2>1. ExportWrites(s, key, chosen) = <<s>>
    BY <1>1 DEF ExportWrites
  <2>2. Writes(s, <<s>>)
    BY QuietWrite, OneWrite
  <2> QED  BY <2>1, <2>2
<1>2. CASE key \notin DOMAIN s.manifests
  <2>1. ExportWrites(s, key, chosen) = <<t>>
    BY <1>2 DEF ExportWrites
  <2>2. StoreOK(t) /\ Step(s, t) /\ Done(s, t)
    <3>1. "export" # "import"
      OBVIOUS
    <3> QED  BY <3>1, ManifestOfType, ManifestStore
  <2> HIDE DEF t
  <2> QED  BY <2>1, <2>2, OneWrite
<1> QED  BY <1>1, <1>2

(***************************************************************************)
(* Imports                                                                 *)
(***************************************************************************)

(* A call loses no revision. *)
LEMMA CallExtends ==
    ASSUME NEW s, NEW w, Writes(s, w)
    PROVE  StoreOK(w[Len(w)]) /\ Extends(s, w[Len(w)])
<1>1. Len(w) \in DOMAIN w
  BY DEF Writes
<1> QED  BY <1>1, AfterEveryWrite DEF Writes

(* An item replaces or creates an entry, and its artifact is in the history*)
(* of that entry then.                                                     *)
LEMMA ImportItemCall ==
    ASSUME NEW s, StoreOK(s), NEW m, NEW item, item.kind \in RegistryKinds,
           Artifact(ArtifactOf(m, item)),
           FindByNameVersion(s, item) = {} => Accepted(ArtifactOf(m, item))
    PROVE  LET w == ImportItemWrites(s, m, item) IN
           Writes(s, w) /\ Written(w[Len(w)], item, ArtifactOf(m, item))
<1> DEFINE found == FindByNameVersion(s, item)
           w     == ImportItemWrites(s, m, item)
<1>1. PICK a : a = ArtifactOf(m, item)
  OBVIOUS
<1>2. CASE found = {}
  <2>1. PICK e : e = NewEntity(s, item.kind, a)
    OBVIOUS
  <2>2. w = CreationWrites(s, e)
    BY <1>1, <1>2, <2>1 DEF ImportItemWrites
  <2>3. /\ Entry(e) /\ e.kind = item.kind
        /\ \A f \in DOMAIN a \ {"kind", "id"} : f \in DOMAIN e /\ e[f] = a[f]
    BY <1>1, <1>2, <2>1, NewEntityType
  <2> HIDE DEF w
  <2>4. Writes(s, w) /\ Latest(w[Len(w)], TargetOf(e), e)
    BY <2>2, <2>3, CreateWrites
  <2>5. TargetOf(e) \in Targets /\ item.kind = TargetOf(e)[1]
    BY <2>3 DEF Entry, TargetOf
  <2>6. Written(w[Len(w)], item, a)
    BY <2>3, <2>4, <2>5, CallExtends, LatestWritten
  <2> QED  BY <1>1, <2>4, <2>6 DEF w
<1>3. CASE found # {}
  <2>1. PICK existing : existing = s.entries[Min(found)]
    OBVIOUS
  <2>2. PICK t : t = TargetOf(existing)
    OBVIOUS
  <2>3. PICK p : p = At(t, a)
    OBVIOUS
  <2>4. w = EntityWrites(s, t, existing, p, 0)
    BY <1>1, <1>3, <2>1, <2>2, <2>3 DEF ImportItemWrites
  <2>5. Min(found) \in found
    <3>1. found \in SUBSET Nat
      BY DEF FindByNameVersion, StoreOK, Store
    <3> HIDE DEF found
    <3> QED  BY <1>3, <3>1, LeastNatural
  <2>6. Entry(existing) /\ existing.kind = item.kind /\ Min(found) \in DOMAIN s.entries
    BY <2>1, <2>5 DEF FindByNameVersion, StoreOK, Store
  <2>7. /\ t \in Targets /\ t[1] = item.kind /\ TargetOf(existing) = t
        /\ Has(s, t) /\ \E k \in Positions(s, t) : s.entries[k] = existing
    BY <2>1, <2>2, <2>6 DEF Entry, TargetOf, Has, Positions
  <2> HIDE DEF found, w
  <2>8. /\ PatchOf(t, p)
        /\ \A f \in DOMAIN a \ {"kind", "id"} : f \in DOMAIN p /\ p[f] = a[f]
    <3>1. /\ DOMAIN At(t, a) = {"kind", "id"} \union DOMAIN a
          /\ PatchOf(t, At(t, a))
          /\ \A f \in DOMAIN a \ {"kind", "id"} : At(t, a)[f] = a[f]
      BY <2>7, AtTarget
    <3> QED  BY <2>3, <3>1
  <2>9. 0 \in 0..Len(EnsureInitialRevision(s, existing).revisions[t])
    <3>1. StoreOK(EnsureInitialRevision(s, existing))
      BY <2>6, <2>7, EnsureStore
    <3> QED  BY <2>7, <3>1 DEF StoreOK, Store, History
  <2>10. PICK e : e = Assign(p, GetEntity(s, t))
    OBVIOUS
  <2>11. Writes(s, w) /\ Latest(w[Len(w)], t, e)
    BY <2>4, <2>6, <2>7, <2>8, <2>9, <2>10, UpdateWrites
  <2>12. \A f \in DOMAIN a \ {"kind", "id"} : f \in DOMAIN e /\ e[f] = a[f]
    <3>1. Entry(GetEntity(s, t)) /\ TargetOf(GetEntity(s, t)) = t
      BY <2>7, FirstEntry
    <3>2. \A f \in DOMAIN p : f \in DOMAIN e /\ e[f] = p[f]
      BY <2>8, <2>10, <3>1, AssignEntry
    <3> QED  BY <2>8, <3>2
  <2>13. Written(w[Len(w)], item, a)
    BY <2>7, <2>11, <2>12, CallExtends, LatestWritten
  <2> QED  BY <1>1, <2>11, <2>13 DEF w
<1> QED  BY <1>2, <1>3

(* What an import has done: its writes so far, whether it refused an item, *)
(* and whether it threw.                                                   *)
Progress(s, acc) ==
    /\ acc = [writes |-> acc.writes, errors |-> acc.errors, threw |-> acc.threw]
    /\ acc.errors \in BOOLEAN
    /\ acc.threw => acc.errors
    /\ Writes(s, acc.writes)

LastOf(acc) == acc.writes[Len(acc.writes)]

LEMMA ImportEntryCall ==
    ASSUME NEW s, NEW m, NEW acc, Progress(s, acc), NEW mode,
           NEW item, item.kind \in RegistryKinds,
           HasArtifact(m, item) => Artifact(ArtifactOf(m, item))
    PROVE  LET r == ImportEntry(acc, m, item, mode) IN
           /\ Progress(s, r)
           /\ ~r.errors => /\ ~acc.errors /\ HasArtifact(m, item)
                           /\ Written(LastOf(r), item, ArtifactOf(m, item))
           /\ Extends(LastOf(acc), LastOf(r))
<1> DEFINE r       == ImportEntry(acc, m, item, mode)
           t       == LastOf(acc)
           throws  == FindByNameVersion(t, item) = {} /\ ~Accepted(ArtifactOf(m, item))
           v       == ImportItemWrites(t, m, item)
<1>1. r = IF acc.threw THEN acc
          ELSE IF Refused(t, m, item, mode) THEN [acc EXCEPT !.errors = TRUE]
          ELSE IF throws THEN [acc EXCEPT !.errors = TRUE, !.threw = TRUE]
          ELSE [acc EXCEPT !.writes = acc.writes \o v]
  BY DEF ImportEntry, LastOf
<1> HIDE DEF r, throws
<1>2. StoreOK(t) /\ Extends(t, t)
  <2>1. StoreOK(t)
    BY CallExtends DEF Progress, LastOf
  <2> QED  BY <2>1 DEF Extends
<1> HIDE DEF t
<1> DEFINE Goal == /\ Progress(s, r)
                   /\ ~r.errors => /\ ~acc.errors /\ HasArtifact(m, item)
                                   /\ Written(LastOf(r), item, ArtifactOf(m, item))
                   /\ Extends(t, LastOf(r))
<1>3. ASSUME acc.threw
      PROVE  Goal
  BY <1>1, <1>2, <1>3 DEF Progress, t
<1>4. ASSUME r.errors = TRUE, r.writes = acc.writes,
             r = [writes |-> r.writes, errors |-> r.errors, threw |-> r.threw]
      PROVE  Goal
  BY <1>2, <1>4 DEF Progress, LastOf, t
<1>5. ASSUME ~acc.threw, Refused(t, m, item, mode)
      PROVE  Goal
  <2>1. r = [writes |-> acc.writes, errors |-> TRUE, threw |-> acc.threw]
    BY <1>1, <1>5 DEF Progress
  <2> QED  BY <1>4, <2>1
<1>6. ASSUME ~acc.threw, ~Refused(t, m, item, mode), throws
      PROVE  Goal
  <2>1. r = [writes |-> acc.writes, errors |-> TRUE, threw |-> TRUE]
    BY <1>1, <1>6 DEF Progress
  <2> QED  BY <1>4, <2>1
<1>7. ASSUME ~acc.threw, ~Refused(t, m, item, mode), ~throws
      PROVE  Goal
  <2>1. HasArtifact(m, item)
    BY <1>7 DEF Refused
  <2>2. Writes(t, v) /\ Written(v[Len(v)], item, ArtifactOf(m, item))
    BY <1>2, <1>7, <2>1, ImportItemCall DEF throws
  <2> HIDE DEF v
  <2>3. r = [writes |-> acc.writes \o v, errors |-> acc.errors, threw |-> acc.threw]
    BY <1>1, <1>7 DEF Progress
  <2>4. Writes(s, acc.writes \o v)
    BY <2>2, MoreWrites DEF Progress, LastOf, t
  <2>5. LastOf(r) = v[Len(v)]
    <3> DEFINE S == Range(acc.writes) \union Range(v)
    <3>1. /\ acc.writes \in Seq(S) /\ v \in Seq(S) /\ Len(v) > 0 /\ Len(v) \in Nat
          /\ Len(acc.writes) \in Nat
      BY <2>2 DEF Progress, Writes
    <3> HIDE DEF S
    <3>2. /\ Len(acc.writes \o v) = Len(acc.writes) + Len(v)
          /\ (acc.writes \o v)[Len(acc.writes) + Len(v)] = v[Len(v)]
      BY <3>1, ConcatProperties
    <3> QED  BY <2>3, <3>2 DEF LastOf
  <2>6. Extends(t, v[Len(v)])
    BY <2>2, CallExtends
  <2>7. r.errors = acc.errors /\ r.threw = acc.threw /\ r.writes = acc.writes \o v
        /\ r = [writes |-> r.writes, errors |-> r.errors, threw |-> r.threw]
    BY <2>3
  <2>8. Progress(s, r)
    BY <2>4, <2>7 DEF Progress
  <2> QED  BY <2>1, <2>2, <2>5, <2>6, <2>7, <2>8
<1>8. Goal
  BY <1>3, <1>5, <1>6, <1>7
<1> QED  BY <1>8 DEF r, t

(* The recursive function of ImportEntries exists, whatever the manifest:  *)
(* the functions on longer and longer prefixes of its items extend one     *)
(* another.                                                                *)
LEMMA ImportEntriesSteps ==
    ASSUME NEW s, NEW m, Len(m.items) \in Nat, NEW mode
    PROVE  \E g : /\ g[0] = [writes |-> <<s>>, errors |-> FALSE, threw |-> FALSE]
                  /\ \A k \in 1..Len(m.items) :
                        g[k] = ImportEntry(g[k - 1], m, m.items[k], mode)
                  /\ ImportEntries(s, m, mode) = g[Len(m.items)]
<1> DEFINE base == [writes |-> <<s>>, errors |-> FALSE, threw |-> FALSE]
           Solves(g, n) ==
              g = [k \in 0..n |-> IF k = 0 THEN base
                                  ELSE ImportEntry(g[k - 1], m, m.items[k], mode)]
           P(n) == \E g : Solves(g, n)
<1> HIDE DEF base
<1>1. P(0)
  <2> DEFINE g == [k \in 0..0 |-> base]
  <2>1. g = [k \in 0..0 |-> IF k = 0 THEN base
                            ELSE ImportEntry(g[k - 1], m, m.items[k], mode)]
    OBVIOUS
  <2> QED  BY <2>1
<1>2. ASSUME NEW n \in Nat, P(n)
      PROVE  P(n + 1)
  <2>1. PICK g : Solves(g, n)
    BY <1>2
  <2> DEFINE e == ImportEntry(g[n], m, m.items[n + 1], mode)
             h == [k \in 0..(n + 1) |-> IF k = n + 1 THEN e ELSE g[k]]
  <2> HIDE DEF e
  <2>2. \A k \in 0..(n + 1) : h[k] = IF k = 0 THEN base
                                     ELSE ImportEntry(h[k - 1], m, m.items[k], mode)
    <3> TAKE k \in 0..(n + 1)
    <3>1. CASE k = n + 1
      <4>1. h[k] = e /\ k # 0 /\ h[k - 1] = g[n]
        BY <3>1
      <4> QED  BY <3>1, <4>1 DEF e
    <3>2. CASE k \in 0..n
      <4>1. h[k] = g[k] /\ (k # 0 => h[k - 1] = g[k - 1])
        BY <3>2
      <4>2. g[k] = IF k = 0 THEN base ELSE ImportEntry(g[k - 1], m, m.items[k], mode)
        BY <2>1, <3>2
      <4> QED  BY <4>1, <4>2
    <3> QED  BY <3>1, <3>2
  <2>3. h = [k \in 0..(n + 1) |-> h[k]]
    OBVIOUS
  <2> HIDE DEF h
  <2>4. Solves(h, n + 1)
    BY <2>2, <2>3
  <2> QED  BY <2>4
<1>3. \A n \in Nat : P(n)
  <2> DEFINE Bad == {n \in Nat : ~P(n)}
  <2> HIDE DEF P
  <2>1. CASE Bad # {}
    <3>1. PICK n \in Bad : \A k \in Bad : n <= k
      BY <2>1, LeastNatural
    <3>2. n # 0 /\ n \in Nat /\ ~P(n)
      BY <1>1
    <3>3. n - 1 \in Nat /\ ~(n <= n - 1)
      BY <3>2
    <3>4. P(n - 1)
      BY <3>1, <3>3
    <3>5. P((n - 1) + 1)
      BY <1>2, <3>3, <3>4
    <3>6. (n - 1) + 1 = n
      BY <3>2
    <3> QED  BY <3>2, <3>5, <3>6
  <2> QED  BY <2>1
<1>4. PICK g : Solves(g, Len(m.items))
  BY <1>3
<1> DEFINE c == CHOOSE f : Solves(f, Len(m.items))
<1>5. Solves(c, Len(m.items))
  BY <1>4
<1>6. ImportEntries(s, m, mode) = c[Len(m.items)]
  BY DEF ImportEntries, base
<1> HIDE DEF c
<1>7. /\ c[0] = base
      /\ \A k \in 1..Len(m.items) : c[k] = ImportEntry(c[k - 1], m, m.items[k], mode)
  BY <1>5
<1> QED  BY <1>6, <1>7 DEF base

(* Every prefix of an import is a call, and unless it refused an item the  *)
(* artifacts of all are in the history.                                    *)
LEMMA ImportEntriesCall ==
    ASSUME NEW s, StoreOK(s), NEW m, Manifest(m), NEW mode
    PROVE  LET done == ImportEntries(s, m, mode) IN
           /\ Progress(s, done)
           /\ ~done.errors =>
                 \A k \in DOMAIN m.items :
                     /\ HasArtifact(m, m.items[k])
                     /\ Written(LastOf(done), m.items[k], ArtifactOf(m, m.items[k]))
<1> DEFINE Imported(u, k) == /\ HasArtifact(m, m.items[k])
                             /\ Written(u, m.items[k], ArtifactOf(m, m.items[k]))
<1>1. /\ Len(m.items) \in Nat /\ DOMAIN m.items = 1..Len(m.items)
      /\ \A k \in DOMAIN m.items : m.items[k].kind \in RegistryKinds
      /\ \A item : HasArtifact(m, item) => Artifact(ArtifactOf(m, item))
  BY DEF Manifest, HasArtifact, ArtifactOf, ByRef
<1>2. PICK g : /\ g[0] = [writes |-> <<s>>, errors |-> FALSE, threw |-> FALSE]
               /\ \A k \in 1..Len(m.items) :
                     g[k] = ImportEntry(g[k - 1], m, m.items[k], mode)
               /\ ImportEntries(s, m, mode) = g[Len(m.items)]
  BY <1>1, ImportEntriesSteps
<1> DEFINE P(k) == /\ Progress(s, g[k])
                   /\ ~g[k].errors => \A j \in 1..k : Imported(LastOf(g[k]), j)
<1>3. P(0)
  <2>1. Writes(s, <<s>>)
    BY QuietWrite, OneWrite
  <2> QED  BY <1>2, <2>1 DEF Progress
<1>4. ASSUME NEW k \in 1..Len(m.items), P(k - 1)
      PROVE  P(k)
  <2>1. PICK acc, item : acc = g[k - 1] /\ item = m.items[k]
    OBVIOUS
  <2>2. PICK r : r = ImportEntry(acc, m, item, mode)
    OBVIOUS
  <2>3. r = g[k] /\ item.kind \in RegistryKinds /\ Progress(s, acc)
    BY <1>1, <1>2, <1>4, <2>1, <2>2
  <2>4. /\ Progress(s, r)
        /\ ~r.errors => /\ ~acc.errors /\ HasArtifact(m, item)
                        /\ Written(LastOf(r), item, ArtifactOf(m, item))
        /\ Extends(LastOf(acc), LastOf(r))
    BY <1>1, <2>2, <2>3, ImportEntryCall
  <2>5. ASSUME ~r.errors, NEW j \in 1..k
        PROVE  Imported(LastOf(r), j)
    <3>1. CASE j = k
      BY <2>1, <2>4, <2>5, <3>1
    <3>2. CASE j # k
      <4>1. j \in 1..(k - 1) /\ j \in DOMAIN m.items
        BY <1>1, <3>2
      <4>2. Imported(LastOf(acc), j)
        BY <1>4, <2>1, <2>4, <2>5, <4>1
      <4>3. m.items[j].kind \in RegistryKinds
        BY <1>1, <4>1
      <4> QED  BY <2>4, <4>2, <4>3, WrittenStays
    <3> QED  BY <3>1, <3>2
  <2> QED  BY <2>3, <2>4, <2>5
<1>5. P(Len(m.items))
  <2> DEFINE Bad == {k \in 0..Len(m.items) : ~P(k)}
  <2> HIDE DEF P
  <2>1. CASE Bad # {}
    <3>1. Bad \in SUBSET Nat
      BY <1>1
    <3>2. PICK k \in Bad : \A j \in Bad : k <= j
      BY <2>1, <3>1, LeastNatural
    <3>3. k \in 1..Len(m.items) /\ ~P(k)
      BY <1>1, <1>3
    <3>4. k - 1 \in 0..Len(m.items) /\ ~(k <= k - 1)
      BY <1>1, <3>3
    <3>5. P(k - 1)
      BY <3>2, <3>4
    <3> QED  BY <1>4, <3>3, <3>5
  <2>2. CASE Bad = {}
    <3>1. Len(m.items) \in 0..Len(m.items)
      BY <1>1
    <3> QED  BY <2>2, <3>1
  <2> QED  BY <2>1, <2>2
<1> QED  BY <1>1, <1>2, <1>5

LEMMA ImportCall ==
    ASSUME NEW s, StoreOK(s), NEW key, NEW m, Manifest(m), NEW mode
    PROVE  Writes(s, ImportWrites(s, key, m, mode))
<1> DEFINE done == ImportEntries(s, m, mode)
           last == done.writes[Len(done.writes)]
           t    == CreatePackageManifest(last, key, m, "import")
<1>1. /\ Progress(s, done)
      /\ ~done.errors =>
            \A k \in DOMAIN m.items :
                HasArtifact(m, m.items[k]) /\ Written(last, m.items[k], ArtifactOf(m, m.items[k]))
  BY ImportEntriesCall DEF LastOf
<1>2. ImportWrites(s, key, m, mode) =
         IF done.errors \/ key \in DOMAIN last.manifests THEN done.writes
         ELSE Append(done.writes, t)
  BY DEF ImportWrites
<1> HIDE DEF done
<1>3. StoreOK(last) /\ Done(s, last)
  <2>1. Len(done.writes) \in DOMAIN done.writes
    BY <1>1 DEF Progress, Writes
  <2> QED  BY <1>1, <2>1 DEF Progress, Writes
<1>4. ASSUME ~done.errors
      PROVE  Writes(s, Append(done.writes, t))
  <2> HIDE DEF last
  <2>1. StoreOK(t) /\ Step(last, t) /\ Done(last, t)
    BY <1>1, <1>3, <1>4, ManifestStore
  <2> HIDE DEF t
  <2>2. Done(s, t)
    BY <1>3, <2>1, DoneTransitive
  <2> QED  BY <1>1, <2>1, <2>2, OneMoreWrite DEF Progress, last
<1> HIDE DEF t, last
<1> QED  BY <1>1, <1>2, <1>4 DEF Progress

(***************************************************************************)
(* The registry                                                            *)
(***************************************************************************)

LEMMA InitEstablishesInvariant == Init => IInv
<1> SUFFICES ASSUME Init
             PROVE  IInv
  OBVIOUS
<1>1. /\ store = [entries |-> store.entries, audits |-> store.audits,
                  revisions |-> store.revisions, evals |-> store.evals,
                  manifests |-> store.manifests]
      /\ store.entries = SeedEntries
      /\ store.audits = [t \in Targets |-> 0] /\ store.evals = [t \in Targets |-> 0]
      /\ store.revisions = [t \in Targets |-> <<>>]
      /\ store.manifests = <<>>
      /\ torn = {} /\ crashes = 0
  BY DEF Init
<1>2. DOMAIN store.manifests = {}
  BY <1>1
<1>3. \A t \in Targets : store.revisions[t] = <<>> /\ DOMAIN store.revisions[t] = {}
  BY <1>1
<1>4. \A t \in Targets : History(store.revisions[t])
  <2>1. <<>> \in Seq(Range(<<>>))
    BY EmptySeq
  <2> QED  BY <1>3, <2>1 DEF History
<1>5. Store(store)
  <2>1. store.revisions = [t \in Targets |-> store.revisions[t]]
    BY <1>1
  <2>2. store.audits \in [Targets -> Nat] /\ store.evals \in [Targets -> Nat]
    BY <1>1
  <2>3. /\ store.entries \in Seq(Range(store.entries))
        /\ \A k \in DOMAIN store.entries : Entry(store.entries[k])
    BY <1>1, RegistryAssumption
  <2> QED  BY <1>1, <1>2, <1>4, <2>1, <2>2, <2>3 DEF Store
<1>6. TypeOK
  BY <1>1, <1>5, RegistryAssumption DEF TypeOK
<1>7. HistoryCoversEntries
  <2>1. \A t \in Targets : Untouched(store, t)
    BY <1>1, <1>3 DEF Untouched, Positions
  <2>2. Numbered(store)
    BY <1>3 DEF Numbered
  <2> QED  BY <2>1, <2>2 DEF HistoryCoversEntries
<1>8. RollbackRestoresGates /\ ImportsApplied
  BY <1>2, <1>3 DEF RollbackRestoresGates, Restored, ImportsApplied, Applied
<1> QED  BY <1>6, <1>7, <1>8 DEF IInv

(* The routes of one entry. *)
LEMMA EntityRoutesKeepInvariant ==
    ASSUME IInv, NEW t \in Targets, EntityRoutes(t)
    PROVE  IInv'
<1>1. StoreOK(store) /\ Has(store, t)
  BY DEF IInv, TypeOK, HistoryCoversEntries, RollbackRestoresGates, ImportsApplied, StoreOK,
         EntityRoutes
<1>2. CASE PatchEntity(t)
  <2>1. PICK patch \in Patches :
           Call(CASE t[1] = "skill"       -> UpdateSkillWrites(store, t, patch)
                  [] t[1] = "harness"     -> UpdateHarnessWrites(store, t, patch)
                  [] t[1] = "instruction" -> UpdateInstructionWrites(store, t, patch))
    BY <1>2 DEF PatchEntity
  <2>2. t[1] \in {"skill", "harness", "instruction"}
    BY DEF Targets, RegistryKinds
  <2> DEFINE e == GetEntity(store, t)
  <2>3. Call(EntityWrites(store, t, e, patch, 0))
    BY <2>1, <2>2 DEF UpdateSkillWrites, UpdateHarnessWrites, UpdateInstructionWrites
  <2>4. PatchOf(t, patch)
    BY RegistryAssumption DEF PatchOf, Gates
  <2>5. /\ Entry(e) /\ TargetOf(e) = t
        /\ \E k \in Positions(store, t) : store.entries[k] = e
        /\ 0 \in 0..Len(EnsureInitialRevision(store, e).revisions[t])
    BY <1>1, Found
  <2> HIDE DEF e
  <2>6. Writes(store, EntityWrites(store, t, e, patch, 0))
    BY <1>1, <2>4, <2>5, UpdateWrites
  <2> QED  BY <2>3, <2>6, CallKeepsInvariant
<1>3. CASE Rollback(t)
  <2>1. PICK n \in DOMAIN EnsureInitialRevision(store, GetEntity(store, t)).revisions[t] :
           Call(RollbackWrites(store, t, n))
    BY <1>3 DEF Rollback
  <2>2. Writes(store, RollbackWrites(store, t, n))
    BY <1>1, RollbackCall
  <2> QED  BY <2>1, <2>2, CallKeepsInvariant
<1>4. CASE AttachEval(t)
  <2>1. PICK result \in {"passed", "failed", "pending", "skipped"}, update \in BOOLEAN :
           Call(AttachEvalWrites(store, t, result, update))
    BY <1>4 DEF AttachEval
  <2>2. Writes(store, AttachEvalWrites(store, t, result, update))
    BY <1>1, AttachEvalCall
  <2> QED  BY <2>1, <2>2, CallKeepsInvariant
<1>5. CASE ExportEntity(t)
  <2>1. PICK key : Call(ExportWrites(store, key, {Min(Positions(store, t))}))
    BY <1>5 DEF ExportEntity
  <2>2. {Min(Positions(store, t))} \in SUBSET DOMAIN store.entries
    BY <1>1, FirstEntry DEF Positions
  <2>3. Writes(store, ExportWrites(store, key, {Min(Positions(store, t))}))
    BY <1>1, <2>2, ExportCall
  <2> QED  BY <2>1, <2>3, CallKeepsInvariant
<1> QED  BY <1>2, <1>3, <1>4, <1>5 DEF EntityRoutes

(* Every route saves the writes of a call. *)
LEMMA NextKeepsInvariant == IInv /\ [Next]_vars => IInv'
<1> SUFFICES ASSUME IInv, [Next]_vars
             PROVE  IInv'
  OBVIOUS
<1>1. StoreOK(store)
  BY DEF IInv, TypeOK, HistoryCoversEntries, RollbackRestoresGates, ImportsApplied, StoreOK
<1>2. ASSUME NEW kind \in RegistryKinds, PostEntity(kind)
      PROVE  IInv'
  <2>1. PICK in \in NewEntries[kind] :
           Accepted(in) /\ Call(CreationWrites(store, NewEntity(store, kind, in)))
    BY <1>2 DEF PostEntity
  <2>2. Entry(NewEntity(store, kind, in))
    BY <2>1, RegistryAssumption, NewEntityType
  <2>3. Writes(store, CreationWrites(store, NewEntity(store, kind, in)))
    BY <1>1, <2>2, CreateWrites
  <2> QED  BY <2>1, <2>3, CallKeepsInvariant
<1>3. \A kind \in RegistryKinds, id \in Ids : <<kind, id>> \in Targets
  BY DEF Targets
<1>4. {"skill", "harness", "instruction"} = RegistryKinds
  BY DEF RegistryKinds
<1>5. CASE SkillRoutes
  BY <1>2, <1>3, <1>4, <1>5, EntityRoutesKeepInvariant DEF SkillRoutes
<1>6. CASE HarnessRoutes
  BY <1>2, <1>3, <1>4, <1>6, EntityRoutesKeepInvariant DEF HarnessRoutes
<1>7. ASSUME NEW id \in Ids, Has(store, <<"instruction", id>>),
             VerifyChecksum(<<"instruction", id>>)
      PROVE  IInv'
  <2>1. PICK outcome \in ChecksumOutcomes(GetEntity(store, <<"instruction", id>>)),
             later \in BOOLEAN :
           Call(ChecksumWrites(store, <<"instruction", id>>, outcome, later))
    BY <1>7 DEF VerifyChecksum
  <2>2. ASSUME NEW t \in Targets, t[1] = "instruction", Has(store, t)
        PROVE  Writes(store, ChecksumWrites(store, t, outcome, later))
    BY <1>1, <2>2, ChecksumCall
  <2>3. /\ <<"instruction", id>> \in Targets
        /\ <<"instruction", id>>[1] = "instruction"
    BY <1>3, <1>4
  <2>4. Writes(store, ChecksumWrites(store, <<"instruction", id>>, outcome, later))
    BY <1>7, <2>2, <2>3
  <2> QED  BY <2>1, <2>4, CallKeepsInvariant
<1>8. CASE InstructionRoutes
  BY <1>2, <1>3, <1>4, <1>7, <1>8, EntityRoutesKeepInvariant DEF InstructionRoutes
<1>9. CASE ExportBundle
  <2>1. PICK refs \in {{}} \union ExportRefs, key \in {Bundle} \union ExportNames :
           /\ \A t \in refs : Has(store, t)
           /\ Call(ExportWrites(store, key, BundleEntries(store, refs)))
    BY <1>9 DEF ExportBundle
  <2>2. BundleEntries(store, refs) \in SUBSET DOMAIN store.entries
    <3>1. ASSUME NEW t \in refs
          PROVE  Min(Positions(store, t)) \in DOMAIN store.entries
      <4>1. Positions(store, t) \in SUBSET Nat /\ Positions(store, t) # {}
        BY <1>1, <2>1 DEF Positions, Has, StoreOK, Store
      <4> QED  BY <4>1, LeastNatural DEF Positions
    <3> QED  BY <3>1 DEF BundleEntries
  <2>3. Writes(store, ExportWrites(store, key, BundleEntries(store, refs)))
    BY <1>1, <2>2, ExportCall
  <2> QED  BY <2>1, <2>3, CallKeepsInvariant
<1>10. CASE ImportPackage
  <2>1. PICK key, m, mode : Manifest(m) /\ Call(ImportWrites(store, key, m, mode))
    <3>1. \A key \in DOMAIN store.manifests : Manifest(store.manifests[key].content)
      BY <1>1 DEF StoreOK, Store
    <3> QED  BY <1>10, <3>1, RegistryAssumption DEF ImportPackage
  <2>2. Writes(store, ImportWrites(store, key, m, mode))
    BY <1>1, <2>1, ImportCall
  <2> QED  BY <2>1, <2>2, CallKeepsInvariant
<1>11. CASE UNCHANGED vars
  BY <1>11 DEF vars, IInv, TypeOK, HistoryCoversEntries, RollbackRestoresGates, ImportsApplied
<1> QED  BY <1>5, <1>6, <1>8, <1>9, <1>10, <1>11 DEF Next

(* Pending entries: what the queue recommends and what selection asks.     *)
LEMMA QueueFollowsFromTypes == TypeOK => QueueAgreesWithGates
<1> SUFFICES ASSUME TypeOK, NEW k \in DOMAIN store.entries,
                    store.entries[k].approvalStatus = "pending"
             PROVE  LET e == store.entries[k] IN
                    (ApprovalQueueRecommendation(e) = "review" /\ k \in ListApprovalQueue(store))
                    <=> SelectableRegistryEntry([e EXCEPT !.approvalStatus = "approved"])
  BY DEF QueueAgreesWithGates
<1>1. PICK e : e = store.entries[k]
  OBVIOUS
<1>2. /\ e = [f \in DOMAIN e |-> e[f]]
      /\ {"status", "approvalStatus", "evalStatus"} \subseteq DOMAIN e
      /\ e.approvalStatus = "pending"
  BY <1>1 DEF TypeOK, Store, Entry
<1>3. PICK a : a = [e EXCEPT !.approvalStatus = "approved"]
  OBVIOUS
<1>4. /\ DOMAIN a = DOMAIN e /\ a.approvalStatus = "approved"
      /\ a.status = e.status /\ a.evalStatus = e.evalStatus
      /\ a.checksumStatus = e.checksumStatus
  BY <1>2, <1>3
<1>5. SelectableRegistryEntry(a) <=>
         /\ e.status = "active" /\ e.evalStatus \in {"not_required", "passed"}
         /\ ("checksumStatus" \in DOMAIN e) => (e.checksumStatus # "mismatch")
  BY <1>2, <1>4 DEF SelectableRegistryEntry, Allows
<1>6. (ApprovalQueueBlockingReasons(e) = {}) <=>
         /\ e.status = "active" /\ e.evalStatus \in {"not_required", "passed"}
         /\ ("checksumStatus" \in DOMAIN e) => (e.checksumStatus # "mismatch")
  BY DEF ApprovalQueueBlockingReasons
<1>7. (ApprovalQueueRecommendation(e) = "review") <=> (ApprovalQueueBlockingReasons(e) = {})
  BY <1>2 DEF ApprovalQueueRecommendation
<1>8. k \in ListApprovalQueue(store) <=> e.status # "archived"
  BY <1>1, <1>2 DEF ListApprovalQueue
<1>9. (ApprovalQueueRecommendation(e) = "review" /\ k \in ListApprovalQueue(store))
      <=> SelectableRegistryEntry(a)
  BY <1>5, <1>6, <1>7, <1>8
<1> QED  BY <1>1, <1>3, <1>9

-----------------------------------------------------------------------------
(* Entries, snapshots and manifests keep their shape - an identity, the    *)
(* gates and no more is known of them - whatever is created under a used   *)
(* identifier, imported, patched or rolled back, and wherever a call was   *)
(* stopped.                                                                *)
THEOREM RegistryTypeCorrect == Spec => []TypeOK
<1>1. IInv => TypeOK
  BY DEF IInv
<1> QED  BY <1>1, InitEstablishesInvariant, NextKeepsInvariant, PTL DEF Spec

(* appendRevision after every write of an entry: the latest revision of a  *)
(* kind and identifier is an entry that has it, also when a creation or an *)
(* import reused the identifier, unless a stop kept the last change from   *)
(* being recorded.                                                         *)
THEOREM HistoryAlwaysCovers == Spec => []HistoryCoversEntries
<1>1. IInv => HistoryCoversEntries
  BY DEF IInv
<1> QED  BY <1>1, InitEstablishesInvariant, NextKeepsInvariant, PTL DEF Spec

(* rollbackRevision: the entry is given every gate of the revision it      *)
(* names, and the new revision says so.                                    *)
THEOREM RollbackAlwaysRestores == Spec => []RollbackRestoresGates
<1>1. IInv => RollbackRestoresGates
  BY DEF IInv
<1> QED  BY <1>1, InitEstablishesInvariant, NextKeepsInvariant, PTL DEF Spec

(* importPackageManifest: a manifest is recorded when the artifact of each *)
(* of its items, whatever its name and version, is in the history of an    *)
(* entry of the item's kind.                                               *)
THEOREM ImportsAlwaysApplied == Spec => []ImportsApplied
<1>1. IInv => ImportsApplied
  BY DEF IInv
<1> QED  BY <1>1, InitEstablishesInvariant, NextKeepsInvariant, PTL DEF Spec

(* listApprovalQueue and selectableRegistryEntry: what the queue offers    *)
(* for review is what an approval makes selectable, also for gates of no   *)
(* known value.                                                            *)
THEOREM QueueAlwaysAgrees == Spec => []QueueAgreesWithGates
BY RegistryTypeCorrect, QueueFollowsFromTypes, PTL

=============================================================================
