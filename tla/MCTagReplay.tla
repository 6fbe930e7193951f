---------------------------- MODULE MCTagReplay ----------------------------
(***************************************************************************)
(* The deltas that the audit rows of policy.tags.update carry, replayed    *)
(* beside the tags of the policies.                                        *)
(***************************************************************************)
EXTENDS PolicyStore

VARIABLE replayed  \* history: the deltas committed so far, applied in their order

tagVars == <<psVars, replayed>>

TagsInit == Init /\ replayed = [i \in Ids |-> {}]

Replay(e) ==
  replayed' = [replayed EXCEPT ![edit[e].id] = ApplyTagDelta(@, edit[e].add, edit[e].remove)]

TagsNext ==
  \/ \E e \in Editors : PatchTags(e) /\ Replay(e)
  \/ /\ UNCHANGED replayed
     /\ \/ \E e \in Editors : StartTags(e) \/ StartSave(e) \/ Probe(e) \/ Save(e) \/ Fails(e)
        \/ \E i \in Ids, locked \in BOOLEAN : Lock(i, locked)
        \/ \E i \in Seeded, s \in Specs \ BadSpecs : Seed(i, s)

TagsSpec == TagsInit /\ [][TagsNext]_tagVars

-----------------------------------------------------------------------------
(* The tags of a policy are what a replay of the deltas in the audit trail *)
(* gives, as server.js:979-980 says of the audit row: "carries the {add,   *)
(* remove} delta so a replay is unambiguous".                              *)
TagsReplay == \A i \in Ids : policies[i] # None => policies[i].tags = replayed[i]
=============================================================================
