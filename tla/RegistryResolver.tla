-------------------------- MODULE RegistryResolver --------------------------
(***************************************************************************)
(* resolveRegistryContextForTask: which skills, harness and instructions a *)
(* task gets from the registry. Text matching is abstract: a task has a    *)
(* set of topics. An entry is [kind, id, name, version, open, agents,      *)
(* repos, deps], where open says that it passes the gates of the registry; *)
(* a version is <<major, minor, patch>>, a range [op, base], and a request *)
(* for an entry is an id or a name with a range.                           *)
(***************************************************************************)
EXTENDS Integers, FiniteSets, SequencesExt

CONSTANTS
    NameRank    \* [entry names -> Nat], the order of localeCompare

RangeOps == {"latest", "exact", "major", "caret", "tilde"}

-----------------------------------------------------------------------------
(* Versions.                                                               *)

CompareSemver(v, w) ==
    IF v[1] # w[1] THEN v[1] - w[1] ELSE IF v[2] # w[2] THEN v[2] - w[2] ELSE v[3] - w[3]

IsSupportedVersionRange(range) == range.op \in RangeOps

\* MUTANT: the caret range accepts older versions.
CaretIgnoresBase(v, range) ==
    \/ range.op = "latest"
    \/ range.op = "exact" /\ v = range.base
    \/ range.op \in {"major", "caret"} /\ v[1] = range.base[1]
    \/ range.op = "tilde" /\ v[1] = range.base[1] /\ v[2] = range.base[2]

VersionSatisfiesRange(v, range) ==
    \/ range.op = "latest"
    \/ range.op = "exact" /\ v = range.base
    \/ range.op = "major" /\ v[1] = range.base[1]
    \/ range.op = "caret" /\ v[1] = range.base[1] /\ CompareSemver(v, range.base) >= 0
    \/ range.op = "tilde" /\ v[1] = range.base[1] /\ v[2] = range.base[2]
       /\ CompareSemver(v, range.base) >= 0

LatestRange == [op |-> "latest"]

\* The sort of highestCompatible: version down, then name up.
Precedes(d, e) ==
    \/ CompareSemver(d.version, e.version) > 0
    \/ d.version = e.version /\ NameRank[d.name] < NameRank[e.name]

\* At most one entry; entries of one name and version come in any order.
HighestCompatible(entries, range) ==
    LET fit  == {e \in entries : VersionSatisfiesRange(e.version, range)}
        best == {e \in fit : \A d \in fit : ~Precedes(d, e)}
    IN  IF best = {} THEN {} ELSE {CHOOSE e \in best : TRUE}

Named(entries, name) == {e \in entries : e.name = name}

OfKind(registry, kind) == {e \in registry : e.kind = kind}

Open(entries) == {e \in entries : e.open}

-----------------------------------------------------------------------------
(* Selection. A result is [selected, errors].                              *)

Merge(results) ==
    [selected |-> UNION {r.selected : r \in results}, errors |-> UNION {r.errors : r \in results}]

FindSelectableSkill(skills, name) == HighestCompatible(Open(Named(skills, name)), LatestRange)

FindSelectableHarness(harnesses, name) == HighestCompatible(Open(Named(harnesses, name)), LatestRange)

\* A request by id finds the entry whatever its gates; one by name and range
\* finds the best that is selectable.
FindRequested(entries, req) ==
    LET byId  == {e \in entries : e.id = req.name}
        found == HighestCompatible(Open(Named(entries, req.name)), req.range)
    IN  IF byId # {} THEN [selected |-> byId, errors |-> {}]
        ELSE IF ~IsSupportedVersionRange(req.range) THEN [selected |-> {}, errors |-> {"range"}]
        ELSE [selected |-> found, errors |-> IF found = {} THEN {"not_found"} ELSE {}]

FindRequestedSkill(skills, req) == FindRequested(skills, req)

FindRequestedHarness(harnesses, req) == FindRequested(harnesses, req)

\* The requested skills that are selectable, the topic's defaults, a fallback.
ResolveSkillEntries(in) ==
    LET skills    == OfKind(in.registry, "skill")
        found     == Merge({FindRequestedSkill(skills, req) : req \in in.skillRequests})
        requested == Open(found.selected)
        conflict  == IF "conflict" \in in.topics
                     THEN FindSelectableSkill(skills, "conflict-risk-reviewer") ELSE {}
        test      == IF "test" \in in.topics
                     THEN FindSelectableSkill(skills, "jest-test-fixer") ELSE {}
        auth      == FindSelectableSkill(skills, "auth-debugging")
        first     == requested \union conflict
        default   == IF test # {} THEN test ELSE IF auth # {} THEN auth
                     ELSE HighestCompatible(Open(skills), LatestRange)
        selected  == IF first # {} THEN first ELSE default
    IN  [selected |-> selected,
         errors   |-> found.errors \union (IF selected = {} THEN {"no_skill"} ELSE {})]

ResolveHarnessEntry(in) ==
    LET harnesses == OfKind(in.registry, "harness")
        found     == Merge({FindRequestedHarness(harnesses, req) : req \in in.harnessRequests})
        requested == Open(found.selected)
        desired   == FindSelectableHarness(harnesses,
                        IF "frontend" \in in.topics THEN "frontend-node20"
                        ELSE IF "dry_run" \in in.topics THEN "local-git-dry-run" ELSE "backend-node20")
        fallback  == HighestCompatible(Open(harnesses), LatestRange)
        selected  == IF requested # {} THEN requested ELSE IF desired # {} THEN desired ELSE fallback
    IN  [selected |-> selected,
         errors   |-> found.errors \union (IF selected = {} THEN {"no_harness"} ELSE {})]

AppliesToRepo(e, repo) == e.repos = {} \/ repo \in e.repos

ResolveInstructionEntries(in) ==
    LET eligible == {e \in Open(OfKind(in.registry, "instruction")) :
                        in.agent \in e.agents /\ AppliesToRepo(e, in.repo)}
        latest(name) == HighestCompatible(Named(eligible, name), LatestRange)
    IN  latest("org-secure-coding-baseline") \union latest("repo-agents-md")
        \union (IF "conflict" \in in.topics THEN latest("conflict-manager-guidance") ELSE {})

-----------------------------------------------------------------------------
(* Dependencies: [kind, name, range, required].                            *)

FindSelectableDependency(in, dep) ==
    LET found == HighestCompatible(Open(Named(OfKind(in.registry, dep.kind), dep.name)), dep.range)
    IN  IF ~IsSupportedVersionRange(dep.range) THEN [selected |-> {}, errors |-> {"range"}]
        ELSE [selected |-> found, errors |-> IF found = {} /\ dep.required THEN {"dependency"} ELSE {}]

CurrentKey(e) == <<e.kind, e.name>>

Keys(in) == {CurrentKey(e) : e \in in.registry}

Cycle == [selected |-> {}, errors |-> {"cycle"}]

\* What a dependency selects, and what that needs according to below. A name that
\* is being visited is a cycle. A harness is looked up, and not selected.
Follow(in, dep, visiting, below) ==
    LET found == FindSelectableDependency(in, dep)
    IN  IF <<dep.kind, dep.name>> \in visiting THEN Cycle
        ELSE Merge({below[d] : d \in found.selected}
                   \union {[found EXCEPT !.selected = {d \in @ : d.kind # "harness"}]})

EntryDependencies(in, e, visiting, below) ==
    IF CurrentKey(e) \in visiting THEN Cycle
    ELSE Merge({Follow(in, dep, visiting \union {CurrentKey(e)}, below) : dep \in e.deps})

\* The skills and instructions each entry needs, and theirs, while the entries
\* with the names of visiting are resolved.
ResolveEntryDependencies(in) ==
    LET resolve[visiting \in SUBSET Keys(in)] ==
            [e \in in.registry |->
                EntryDependencies(in, e, visiting, resolve[visiting \union {CurrentKey(e)}])]
    IN  resolve

\* What was selected with what that needs.
WithDependencies(in, skills, harness, instructions) ==
    LET Add(below) ==
            [skills       |-> skills.selected \union OfKind(below.selected, "skill"),
             harness      |-> harness.selected,
             instructions |-> instructions \union OfKind(below.selected, "instruction"),
             errors       |-> skills.errors \union harness.errors \union below.errors]
    IN  Add(Merge({ResolveEntryDependencies(in)[{}][e] :
                      e \in skills.selected \union harness.selected \union instructions}))

ResolveRegistryContextForTask(in) ==
    WithDependencies(in, ResolveSkillEntries(in), ResolveHarnessEntry(in), ResolveInstructionEntries(in))

=============================================================================
