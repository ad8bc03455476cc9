----------------------------- MODULE MCRegistry -----------------------------
(* A skill that is there at the start; callers who reuse its identifier;   *)
(* and packages whose artifacts are not what their manifests list.         *)
EXTENDS Registry, TLC

MCIds == {"a", "b", "c", "d"}

MCDraft == [kind |-> "skill", id |-> "a", ref |-> "s@1", status |-> "draft",
            approvalStatus |-> "pending", evalStatus |-> "not_required"]

MCSeedEntries == <<MCDraft>>

\* A skill under the identifier in use, a harness under the skill's, and an
\* instruction without an identifier.
MCNewEntries ==
    [skill       |-> {[id |-> "a", ref |-> "s@2", status |-> "active"]},
     harness     |-> {[id |-> "a", ref |-> "h@1", status |-> "draft", evalStatus |-> "failed"]},
     instruction |-> {[ref |-> "g@1", status |-> "active"]}]

MCItem(kind, id, ref) == [kind |-> kind, id |-> id, ref |-> ref]

\* "moved": the listed skill's artifact has another version, and the guide,
\* found by its version, has a checksum status of no known kind. "broken": the
\* guide after the skill has no status, and cannot be created.
MCForeign ==
    "moved" :>
        [items |-> <<MCItem("skill", "a", "s@1"), MCItem("instruction", "g", "g@1")>>,
         byId  |-> "a" :> [id |-> "a", ref |-> "s@3", status |-> "active"],
         byRef |-> <<"instruction", "g@1">> :>
                       [ref |-> "g@1", status |-> "active", approvalStatus |-> "pending",
                        checksumStatus |-> "odd", body |-> "edited"]]
    @@ "broken" :>
        [items |-> <<MCItem("skill", "a", "s@2"), MCItem("instruction", "g", "g@2")>>,
         byId  |-> "a" :> [id |-> "a", ref |-> "s@2", status |-> "draft"],
         byRef |-> <<"instruction", "g@2">> :> [ref |-> "g@2"]]

MCPatches == [status : {"active"}] \union [approvalStatus : {"approved"}]
             \union [evalStatus : {"failed"}]

MCExportRefs == {{<<"skill", "a">>, <<"harness", "a">>}}

\* The seed's own name and version, which a caller may give to any package.
MCExportNames == {"s@1"}

MCModes == {"create_only", "replace_draft_only", "any"}

MCAdmin == {"registry_admin"}
=============================================================================
