------------------------------ MODULE Registry ------------------------------
(***************************************************************************)
(* RegistryService over its file-backed repository: versioned skills,      *)
(* harnesses and instructions with lifecycle, approval, evaluation and     *)
(* checksum gates, an audit log, an append-only revision history with      *)
(* rollback, and package manifests that are exported and imported.         *)
(*                                                                         *)
(* A service call is synchronous, so calls never interleave; but it writes *)
(* its entry, its audit record and its revision one after the other, and   *)
(* the repository saves the whole file at every write. A call is therefore *)
(* the SEQUENCE of stores it saves, and a process that stops in the middle *)
(* of a call is restarted from any of them.                                *)
(*                                                                         *)
(* Callers choose identifiers, and nothing keeps two entries from sharing  *)
(* one: a look-up finds the first, and both share a history.               *)
(***************************************************************************)
EXTENDS Integers, FiniteSets, SequencesExt, FiniteSetsExt

CONSTANTS
    Ids,           \* identifiers; enough of them for the entries of a behaviour
    SeedEntries,   \* sequence of the entries the registry starts with
    Foreign,       \* manifests of other registries, by name and version
    Patches,       \* the single-gate changes callers send
    NewEntries,    \* [RegistryKinds -> set of the bodies callers post]
    ImportModes,   \* the import modes callers send; the code checks none
    ExportNames,   \* names and versions callers give to packages
    ExportRefs,    \* sets of the targets callers bundle
    ActorRoles,    \* the roles of the calling actor
    MaxAudits,     \* bound on the audit records of a behaviour
    MaxManifests,  \* bound on the manifests there are when one is exported
    MaxCrashes     \* bound on the restarts of a behaviour

RegistryKinds    == {"skill", "harness", "instruction"}
RegistryStatuses == {"draft", "active", "deprecated", "archived"}
ApprovalStatuses == {"not_required", "pending", "approved", "rejected"}
EvalStatuses     == {"not_required", "pending", "passed", "failed"}
Gates            == {"status", "approvalStatus", "evalStatus", "checksumStatus"}
Bundle           == "registry-bundle"

\* Audit records and revisions are kept for a kind and an identifier. An entry
\* is a record with its kind, its id, its name and version (ref) and its gates.
Targets     == RegistryKinds \X Ids
TargetOf(e) == <<e.kind, e.id>>

\* An artifact of a package: any fields with any values, the id a possible one.
Artifact(a) == ("id" \in DOMAIN a) => (a.id \in Ids)

Entry(e) ==
    /\ e = [f \in DOMAIN e |-> e[f]]
    /\ {"kind", "id", "ref", "status", "approvalStatus", "evalStatus"} \subseteq DOMAIN e
    /\ TargetOf(e) \in Targets
    /\ (e.kind = "instruction") => ("checksumStatus" \in DOMAIN e)

\* The entries a manifest lists and their artifacts, which metadata.artifacts
\* has by the entry's id or else by its kind, name and version.
Manifest(m) ==
    /\ m.items \in Seq(Range(m.items))
    /\ \A k \in DOMAIN m.items : m.items[k].kind \in RegistryKinds
    /\ \A id \in DOMAIN m.byId : Artifact(m.byId[id])
    /\ \A ref \in DOMAIN m.byRef : Artifact(m.byRef[ref])

\* What the API's parsers admit.
ASSUME RegistryAssumption ==
    /\ Ids # {}
    /\ SeedEntries \in Seq(Range(SeedEntries))
    /\ \A k \in DOMAIN SeedEntries : Entry(SeedEntries[k])
    /\ \A kind \in RegistryKinds : \A in \in NewEntries[kind] : Artifact(in)
    /\ \A patch \in Patches : DOMAIN patch \subseteq Gates
    /\ \A key \in DOMAIN Foreign : Manifest(Foreign[key])
    /\ MaxAudits \in Nat
    /\ MaxManifests \in Nat
    /\ MaxCrashes \in Nat

VARIABLES
    store,    \* what the file holds: entries, audits, revisions, evals, manifests
    torn,     \* targets whose last change was cut short by a stop of the process
    crashes   \* restarts so far

vars == <<store, torn, crashes>>

-----------------------------------------------------------------------------
(* The repository: look-ups find the first match; one operator per write.  *)

\* Object.assign: the patch's fields replace the entry's, the others stay.
Assign(patch, e) ==
    [f \in DOMAIN patch \union DOMAIN e |-> IF f \in DOMAIN patch THEN patch[f] ELSE e[f]]

\* The fields under the target's own identifier, whatever theirs is.
At(t, fields) == Assign([kind |-> t[1], id |-> t[2]], fields)

\* A record added to a collection under its name and version.
Put(collection, key, record) ==
    [k \in DOMAIN collection \union {key} |-> IF k = key THEN record ELSE collection[k]]

Positions(s, t) == {k \in DOMAIN s.entries : TargetOf(s.entries[k]) = t}

Has(s, t) == Positions(s, t) # {}

GetEntity(s, t) == s.entries[Min(Positions(s, t))]

UpdateEntity(s, t, patch) ==
    [s EXCEPT !.entries[Min(Positions(s, t))] = Assign(patch, @)]

\* The entry is added at the end, also when its identifier is in use.
CreateEntity(s, e) == [s EXCEPT !.entries = Append(@, e)]

AppendAuditLog(s, t) == [s EXCEPT !.audits[t] = @ + 1]

AppendEvalResult(s, t) == [s EXCEPT !.evals[t] = @ + 1]

\* origin says whether an export or an import recorded the manifest.
CreatePackageManifest(s, key, m, origin) ==
    [s EXCEPT !.manifests = Put(@, key, [content |-> m, origin |-> origin])]

RevisionNumber(s, t) ==
    IF s.revisions[t] = <<>> THEN 1 ELSE Last(s.revisions[t]).number + 1

\* The snapshot is the entry as JSON: a field that is undefined is not in it.
\* restores is the revision a rollback went back to, 0 for any other change.
AppendRevision(s, e, audit, restores) ==
    [s EXCEPT !.revisions[TargetOf(e)] =
        Append(@, [number   |-> RevisionNumber(s, TargetOf(e)),
                   snapshot |-> e,
                   audit    |-> audit,
                   restores |-> restores])]

EnsureInitialRevision(s, e) ==
    IF s.revisions[TargetOf(e)] = <<>> THEN AppendRevision(s, e, 0, 0) ELSE s

\* The writes of a change to the first entry of t, in the order they are saved.
\* before is the entry the caller looked up.
EntityWrites(s, t, before, patch, restores) ==
    LET s1 == EnsureInitialRevision(s, before)
        s2 == UpdateEntity(s1, t, patch)
        s3 == AppendAuditLog(s2, t)
    IN  <<s1, s2, s3, AppendRevision(s3, GetEntity(s3, t), s3.audits[t], restores)>>

CreationWrites(s, e) ==
    LET s1 == CreateEntity(s, e)
        s2 == AppendAuditLog(s1, TargetOf(e))
    IN  <<s1, s2, AppendRevision(s2, e, s2.audits[TargetOf(e)], 0)>>

-----------------------------------------------------------------------------
(* New entries: omitted gates get their defaults. A checksum status is not *)
(* checked, and ref stands for all the fields that must be there.          *)

Accepted(in) ==
    /\ {"ref", "status"} \subseteq DOMAIN in
    /\ in.status \in RegistryStatuses
    /\ ("approvalStatus" \in DOMAIN in) => (in.approvalStatus \in ApprovalStatuses)
    /\ ("evalStatus" \in DOMAIN in) => (in.evalStatus \in EvalStatuses)

CreateSkillPackage(in) ==
    Assign(in, [approvalStatus |-> "not_required", evalStatus |-> "not_required"])

CreateHarnessDefinition(in) ==
    Assign(in, [approvalStatus |-> "not_required", evalStatus |-> "not_required"])

CreateInstructionArtifact(in) ==
    Assign(in, [approvalStatus |-> "not_required", evalStatus |-> "not_required",
                checksumStatus |-> "unverified", checksumAlgorithm |-> "sha256"])

UnusedIds(s) == {id \in Ids : \A k \in DOMAIN s.entries : s.entries[k].id # id}

\* The caller's identifier, used or not, or a generated one.
NewId(s, in) ==
    IF "id" \in DOMAIN in THEN in.id
    ELSE CHOOSE id \in Ids : id \in UnusedIds(s) \/ UnusedIds(s) = {}

NewEntity(s, kind, in) ==
    At(<<kind, NewId(s, in)>>,
       CASE kind = "skill"       -> CreateSkillPackage(in)
         [] kind = "harness"     -> CreateHarnessDefinition(in)
         [] kind = "instruction" -> CreateInstructionArtifact(in))

-----------------------------------------------------------------------------
(* The gates an entry must pass to be selected for a task, and the queue   *)
(* that tells a reviewer what still blocks it. An import may give a gate   *)
(* any value.                                                              *)

Allows(e, gate, values) == (gate \in DOMAIN e) => (e[gate] \in values)

SelectableRegistryEntry(e) ==
    /\ e.status = "active"
    /\ Allows(e, "approvalStatus", {"not_required", "approved"})
    /\ Allows(e, "evalStatus", {"not_required", "passed"})
    /\ ("checksumStatus" \in DOMAIN e) => (e.checksumStatus # "mismatch")

\* MUTANT: the queue forgets the checksum.
BlockingReasonsWithoutChecksum(e) ==
    (IF e.status # "active" THEN {"status"} ELSE {})
    \union (IF e.evalStatus \notin {"not_required", "passed"} THEN {"eval"} ELSE {})

ApprovalQueueBlockingReasons(e) ==
    (IF e.status # "active" THEN {"status"} ELSE {})
    \union (IF e.evalStatus \notin {"not_required", "passed"} THEN {"eval"} ELSE {})
    \union (IF "checksumStatus" \in DOMAIN e /\ e.checksumStatus = "mismatch"
            THEN {"checksum"} ELSE {})

ApprovalQueueRecommendation(e) ==
    CASE e.approvalStatus = "pending"  ->
            IF ApprovalQueueBlockingReasons(e) = {} THEN "review" ELSE "resolve_first"
      [] e.approvalStatus = "rejected" -> "revise_or_archive"
      [] OTHER                         -> "no_action"

\* The pending entries that are not archived, the default filter.
ListApprovalQueue(s) ==
    {k \in DOMAIN s.entries : /\ s.entries[k].approvalStatus = "pending"
                              /\ s.entries[k].status # "archived"}

-----------------------------------------------------------------------------
(* Service calls, each the sequence of stores it saves.                    *)

UpdateSkillWrites(s, t, patch) == EntityWrites(s, t, GetEntity(s, t), patch, 0)

UpdateHarnessWrites(s, t, patch) == EntityWrites(s, t, GetEntity(s, t), patch, 0)

UpdateInstructionWrites(s, t, patch) == EntityWrites(s, t, GetEntity(s, t), patch, 0)

\* A body is compared with the checksum; without one the file is read.
ChecksumOutcomes(e) ==
    IF "checksumAlgorithm" \in DOMAIN e /\ e.checksumAlgorithm # "sha256" THEN {"unavailable"}
    ELSE IF "body" \in DOMAIN e
    THEN {IF e.body = "as_published" THEN "verified" ELSE "mismatch"}
    ELSE {"verified", "mismatch", "unavailable"}

\* The audit record is always written; the revision only if the status or the
\* time of verification changed (an unavailable content leaves the time alone).
ChecksumWrites(s, t, outcome, later) ==
    LET e == GetEntity(s, t)
        w == EntityWrites(s, t, e, [checksumStatus |-> outcome], 0)
    IN  IF e.checksumStatus # outcome \/ (later /\ outcome # "unavailable")
        THEN w ELSE SubSeq(w, 1, 3)

EvalStatusFromResult(result) == IF result = "skipped" THEN {} ELSE {result}

\* MUTANT: the entry's evaluation status changes without a revision.
AttachEvalUnrevised(s, t, result, update) ==
    LET s2 == AppendAuditLog(AppendEvalResult(s, t), t)
        s3 == EnsureInitialRevision(s2, GetEntity(s, t))
    IN  IF ~update \/ EvalStatusFromResult(result) = {} THEN <<s2>>
        ELSE <<s2, s3, UpdateEntity(s3, t, [evalStatus |-> result])>>

\* The result and its audit record first, then, on request, the entry.
AttachEvalWrites(s, t, result, update) ==
    LET s1 == AppendEvalResult(s, t)
        s2 == AppendAuditLog(s1, t)
        s3 == EnsureInitialRevision(s2, GetEntity(s, t))
        s4 == UpdateEntity(s3, t, [evalStatus |-> result])
    IN  IF ~update THEN <<s1, s2>>
        ELSE IF EvalStatusFromResult(result) = {} THEN <<s1, s2, s3>>
        ELSE <<s1, s2, s3, s4, AppendRevision(s4, GetEntity(s4, t), s2.audits[t], 0)>>

\* MUTANT: only the status is brought back.
RollbackStatusOnly(s, t, n) ==
    LET current == GetEntity(s, t)
        s1      == EnsureInitialRevision(s, current)
    IN  EntityWrites(s1, t, current, [status |-> s1.revisions[t][n].snapshot.status], n)

\* Rollback assigns the snapshot of an old revision, which may be that of
\* another entry with the identifier, and records it as new.
RollbackWrites(s, t, n) ==
    LET current == GetEntity(s, t)
        s1      == EnsureInitialRevision(s, current)
    IN  EntityWrites(s1, t, current, At(t, s1.revisions[t][n].snapshot), n)

-----------------------------------------------------------------------------
(* Packages.                                                               *)

\* Artifacts are kept by identifier alone: of two kinds the later one stays.
ExportedArtifact(s, chosen, id) ==
    LET order == [harness |-> 1, instruction |-> 2, skill |-> 3]
        kinds == {s.entries[k].kind : k \in {k \in chosen : s.entries[k].id = id}}
        kind  == CHOOSE a \in kinds : \A b \in kinds : order[b] <= order[a]
    IN  GetEntity(s, <<kind, id>>)

\* The entries are sorted by kind; their order within a kind is left open.
ManifestOf(s, chosen) ==
    LET Sorted(kind) == SetToSeq({k \in chosen : s.entries[k].kind = kind})
        sorted       == Sorted("harness") \o Sorted("instruction") \o Sorted("skill")
    IN  [items |-> [n \in DOMAIN sorted |->
                       [kind |-> s.entries[sorted[n]].kind, id |-> s.entries[sorted[n]].id,
                        ref |-> s.entries[sorted[n]].ref]],
         byId  |-> [id \in {s.entries[k].id : k \in chosen} |-> ExportedArtifact(s, chosen, id)],
         byRef |-> <<>>]

\* Without references a bundle holds every selectable entry.
BundleEntries(s, refs) ==
    IF refs = {} THEN {k \in DOMAIN s.entries : SelectableRegistryEntry(s.entries[k])}
    ELSE {Min(Positions(s, t)) : t \in refs}

\* A name and version exported before is returned as it was then.
ExportWrites(s, key, chosen) ==
    IF key \in DOMAIN s.manifests THEN <<s>>
    ELSE <<CreatePackageManifest(s, key, ManifestOf(s, chosen), "export")>>

FindByNameVersion(s, item) ==
    {k \in DOMAIN s.entries : s.entries[k].kind = item.kind /\ s.entries[k].ref = item.ref}

ByRef(m, item) == m.byRef[<<item.kind, item.ref>>]

HasArtifact(m, item) == item.id \in DOMAIN m.byId \/ <<item.kind, item.ref>> \in DOMAIN m.byRef

ArtifactOf(m, item) == IF item.id \in DOMAIN m.byId THEN m.byId[item.id] ELSE ByRef(m, item)

\* The first entry with the item's name and version decides whether the item
\* may be imported; the one that is replaced is the first with its identifier.
Refused(s, m, item, mode) ==
    LET found == FindByNameVersion(s, item) IN
    \/ found # {} /\ mode = "create_only"
    \/ found # {} /\ mode = "replace_draft_only" /\ s.entries[Min(found)].status # "draft"
    \/ ~HasArtifact(m, item)

\* The artifact replaces or creates whatever its own identity and gates are.
ImportItemWrites(s, m, item) ==
    LET found    == FindByNameVersion(s, item)
        existing == s.entries[Min(found)]
        t        == TargetOf(existing)
        artifact == ArtifactOf(m, item)
    IN  IF found # {} THEN EntityWrites(s, t, existing, At(t, artifact), 0)
        ELSE CreationWrites(s, NewEntity(s, item.kind, artifact))

\* One item of an import. A refused one is skipped; an artifact that cannot be
\* created throws, which ends the import with what it wrote so far.
ImportEntry(acc, m, item, mode) ==
    LET s == acc.writes[Len(acc.writes)] IN
    IF acc.threw THEN acc
    ELSE IF Refused(s, m, item, mode) THEN [acc EXCEPT !.errors = TRUE]
    ELSE IF FindByNameVersion(s, item) = {} /\ ~Accepted(ArtifactOf(m, item))
    THEN [acc EXCEPT !.errors = TRUE, !.threw = TRUE]
    ELSE [acc EXCEPT !.writes = @ \o ImportItemWrites(s, m, item)]

\* The items of an import one after the other.
ImportEntries(s, m, mode) ==
    LET acc[k \in 0..Len(m.items)] ==
            IF k = 0 THEN [writes |-> <<s>>, errors |-> FALSE, threw |-> FALSE]
            ELSE ImportEntry(acc[k - 1], m, m.items[k], mode)
    IN  acc[Len(m.items)]

\* MUTANT: the manifest is recorded before its entries.
ImportManifestFirst(s, key, m, mode) ==
    LET first == IF key \in DOMAIN s.manifests THEN s
                 ELSE CreatePackageManifest(s, key, m, "import")
    IN  ImportEntries(first, m, mode).writes

\* The manifest is recorded last, and only if no entry was refused.
ImportWrites(s, key, m, mode) ==
    LET done == ImportEntries(s, m, mode)
        last == done.writes[Len(done.writes)]
    IN  IF done.errors \/ key \in DOMAIN last.manifests THEN done.writes
        ELSE Append(done.writes, CreatePackageManifest(last, key, m, "import"))

-----------------------------------------------------------------------------
(* Who may call: a role has permissions, an actor the union of its roles.  *)

RolePermissions ==
    LET read == {"registry.read", "registry.audit.read", "registry.history.read"}
        edit == {"registry.create", "registry.update", "registry.status.change",
                 "registry.checksum.verify"}
        review == {"registry.approval.change", "registry.eval.change"}
    IN  [registry_viewer   |-> read,
         registry_editor   |-> read \union edit,
         registry_reviewer |-> read \union review,
         registry_admin    |-> read \union edit \union review \union {"registry.rollback"},
         system            |-> read \union edit \union review \union {"registry.rollback"}]

Authorize(permission) == \E role \in ActorRoles : permission \in RolePermissions[role]

PatchPermission(patch) ==
    IF "status" \in DOMAIN patch THEN "registry.status.change"
    ELSE IF "approvalStatus" \in DOMAIN patch THEN "registry.approval.change"
    ELSE "registry.eval.change"

-----------------------------------------------------------------------------
Changed(s, u) ==
    {TargetOf(u.entries[k]) : k \in
        {k \in DOMAIN u.entries : k \notin DOMAIN s.entries \/ s.entries[k] # u.entries[k]}}

Revised(s, u) == {t \in Targets : Len(u.revisions[t]) > Len(s.revisions[t])}

\* The targets with an entry that one of the first k writes of a call changed
\* and that none of the writes after it revised.
CutShort(s, writes, k) ==
    {t \in Targets : \E j \in 1..k :
        /\ t \in Changed(IF j = 1 THEN s ELSE writes[j - 1], writes[j])
        /\ t \notin Revised(writes[j], writes[k])}

\* Every write saves the file. The call ends, or the process stops after any
\* of its writes and the next process loads what was saved. A target is torn
\* while the last change of its entry, cut short by a stop, has no revision.
Call(writes) ==
    \/ /\ store' = writes[Len(writes)]
       /\ torn' = torn \ Revised(store, store')
       /\ UNCHANGED crashes
    \/ \E k \in 1..(Len(writes) - 1) :
          /\ crashes < MaxCrashes
          /\ store' = writes[k]
          /\ torn' = (torn \ Revised(store, store')) \union CutShort(store, writes, k)
          /\ crashes' = crashes + 1

Bounded == MapThenSumSet(LAMBDA t : store.audits[t], Targets) < MaxAudits

FewManifests == Cardinality(DOMAIN store.manifests) < MaxManifests

-----------------------------------------------------------------------------
(* The API's routes, one action per route and kind of entry.               *)

PostEntity(kind) ==
    /\ Bounded /\ Authorize("registry.create")
    /\ \E in \in NewEntries[kind] :
          /\ Accepted(in)
          /\ Call(CreationWrites(store, NewEntity(store, kind, in)))

Rollback(t) ==
    /\ Bounded /\ Authorize("registry.rollback")
    /\ \E n \in DOMAIN EnsureInitialRevision(store, GetEntity(store, t)).revisions[t] :
          Call(RollbackWrites(store, t, n))

AttachEval(t) ==
    /\ Bounded /\ Authorize("registry.eval.change")
    /\ \E result \in {"passed", "failed", "pending", "skipped"}, update \in BOOLEAN :
          Call(AttachEvalWrites(store, t, result, update))

ExportEntity(t) ==
    /\ FewManifests /\ Authorize("registry.read")
    /\ \E key \in {GetEntity(store, t).ref} \union ExportNames :
          Call(ExportWrites(store, key, {Min(Positions(store, t))}))

VerifyChecksum(t) ==
    /\ Bounded /\ Authorize("registry.checksum.verify")
    /\ \E outcome \in ChecksumOutcomes(GetEntity(store, t)), later \in BOOLEAN :
          Call(ChecksumWrites(store, t, outcome, later))

\* PATCH of the status, the approval or the evaluation status.
PatchEntity(t) ==
    /\ Bounded
    /\ \E patch \in Patches :
          /\ Authorize(PatchPermission(patch))
          /\ Call(CASE t[1] = "skill"       -> UpdateSkillWrites(store, t, patch)
                    [] t[1] = "harness"     -> UpdateHarnessWrites(store, t, patch)
                    [] t[1] = "instruction" -> UpdateInstructionWrites(store, t, patch))

EntityRoutes(t) ==
    /\ Has(store, t)
    /\ PatchEntity(t) \/ Rollback(t) \/ AttachEval(t) \/ ExportEntity(t)

SkillRoutes == PostEntity("skill") \/ \E id \in Ids : EntityRoutes(<<"skill", id>>)

HarnessRoutes == PostEntity("harness") \/ \E id \in Ids : EntityRoutes(<<"harness", id>>)

InstructionRoutes ==
    \/ PostEntity("instruction")
    \/ \E id \in Ids :
          \/ EntityRoutes(<<"instruction", id>>)
          \/ Has(store, <<"instruction", id>>) /\ VerifyChecksum(<<"instruction", id>>)

ExportBundle ==
    /\ FewManifests /\ Authorize("registry.read")
    /\ \E refs \in {{}} \union ExportRefs, key \in {Bundle} \union ExportNames :
          /\ \A t \in refs : Has(store, t)
          /\ BundleEntries(store, refs) # {}
          /\ Call(ExportWrites(store, key, BundleEntries(store, refs)))

\* A dry run checks the same things and writes nothing.
ImportPackage ==
    /\ Bounded /\ Authorize("registry.create")
    /\ \E mode \in ImportModes :
          \/ \E key \in DOMAIN store.manifests :
                Call(ImportWrites(store, key, store.manifests[key].content, mode))
          \/ \E key \in DOMAIN Foreign : Call(ImportWrites(store, key, Foreign[key], mode))

Init ==
    /\ store = [entries   |-> SeedEntries,
                audits    |-> [t \in Targets |-> 0],
                revisions |-> [t \in Targets |-> <<>>],
                evals     |-> [t \in Targets |-> 0],
                manifests |-> <<>>]
    /\ torn = {}
    /\ crashes = 0

Next == SkillRoutes \/ HarnessRoutes \/ InstructionRoutes \/ ExportBundle \/ ImportPackage

Spec == Init /\ [][Next]_vars
-----------------------------------------------------------------------------
\* The revisions of a target: each holds a whole entry, and names the audit
\* record of its change and, after a rollback, an earlier revision.
History(revisions) ==
    /\ revisions \in Seq(Range(revisions))
    /\ \A k \in DOMAIN revisions :
          /\ Entry(revisions[k].snapshot)
          /\ revisions[k].audit \in Nat
          /\ revisions[k].restores \in 0..(k - 1)

Store(s) ==
    /\ s = [entries |-> s.entries, audits |-> s.audits, revisions |-> s.revisions,
            evals |-> s.evals, manifests |-> s.manifests]
    /\ s.entries \in Seq(Range(s.entries))
    /\ \A k \in DOMAIN s.entries : Entry(s.entries[k])
    /\ s.audits \in [Targets -> Nat]
    /\ s.evals \in [Targets -> Nat]
    /\ s.revisions = [t \in Targets |-> s.revisions[t]]
    /\ \A t \in Targets : History(s.revisions[t])
    /\ \A key \in DOMAIN s.manifests : Manifest(s.manifests[key].content)

\* Every entry and every snapshot has its identity and its gates, whatever is
\* created, imported or rolled back.
TypeOK ==
    /\ Store(store)
    /\ torn \subseteq Targets
    /\ crashes \in 0..MaxCrashes

\* The latest revision of a target is one of its entries as it is now.
Covered(s, t) ==
    /\ s.revisions[t] # <<>>
    /\ \E k \in Positions(s, t) : Last(s.revisions[t]).snapshot = s.entries[k]

\* The entries of a target are as the registry started with them.
Untouched(s, t) ==
    /\ s.revisions[t] = <<>>
    /\ \A k \in Positions(s, t) : k \in DOMAIN SeedEntries /\ s.entries[k] = SeedEntries[k]

\* Revisions are numbered in order, and no two share an audit record.
Numbered(s) ==
    \A t \in Targets : \A k \in DOMAIN s.revisions[t] :
        LET r == s.revisions[t][k] IN
        /\ r.number = k
        /\ r.audit <= s.audits[t]
        /\ (r.audit = 0) => (k = 1)
        /\ \A j \in 1..(k - 1) : s.revisions[t][j].audit < r.audit

\* The history is complete: the latest revision of a kind and identifier is the
\* entry with it as it is now (one of them, where a reused identifier has given
\* it several), and entries without a revision are the unchanged ones from the
\* start, unless the process stopped between writing an entry and its revision.
\* A stop never breaks the numbering, and no two revisions share an audit record.
HistoryCoversEntries ==
    /\ \A t \in Targets \ torn : Covered(store, t) \/ Untouched(store, t)
    /\ Numbered(store)

\* The rollback's new revision has every gate that the named one has.
Restored(s) ==
    \A t \in Targets : \A k \in DOMAIN s.revisions[t] :
        LET r   == s.revisions[t][k]
            old == s.revisions[t][r.restores].snapshot IN
        (r.restores # 0) =>
            \A f \in Gates \intersect DOMAIN old :
                f \in DOMAIN r.snapshot /\ r.snapshot[f] = old[f]

\* A rollback brings back every gate of the revision it names: an entry that
\* was a draft, unapproved, failing or mismatching then is again afterwards.
RollbackRestoresGates == Restored(store)

\* Some revision of the item's kind has all that the artifact says but the id,
\* which a replaced entry keeps.
Written(s, item, artifact) ==
    \E id \in Ids : \E k \in DOMAIN s.revisions[<<item.kind, id>>] :
        LET snapshot == s.revisions[<<item.kind, id>>][k].snapshot IN
        \A f \in DOMAIN artifact \ {"kind", "id"} :
            f \in DOMAIN snapshot /\ snapshot[f] = artifact[f]

Applied(s) ==
    \A key \in DOMAIN s.manifests :
        LET m == s.manifests[key].content IN
        (s.manifests[key].origin = "import") =>
            \A k \in DOMAIN m.items :
                HasArtifact(m, m.items[k]) /\ Written(s, m.items[k], ArtifactOf(m, m.items[k]))

\* A manifest an import recorded was applied in full: the artifact of each of
\* its items is in the history of an entry. An import that is refused for one
\* item, throws at one, or is cut short by a stop of the process, leaves some of
\* its entries behind but never its manifest.
ImportsApplied == Applied(store)

\* The queue and the resolver agree: approving an entry the queue recommends
\* for review makes it selectable, and approving any other pending entry does not.
QueueAgreesWithGates ==
    \A k \in DOMAIN store.entries :
        LET e == store.entries[k] IN
        (e.approvalStatus = "pending") =>
            ((ApprovalQueueRecommendation(e) = "review" /\ k \in ListApprovalQueue(store))
             <=> SelectableRegistryEntry([e EXCEPT !.approvalStatus = "approved"]))

=============================================================================
