------------------------- MODULE PolicyStoreProofs -------------------------
(***************************************************************************)
(* PolicyStore: whatever the policies, requests and bounds, a locked       *)
(* policy says what it said, and a preview shows the policy it was asked   *)
(* to unless another began in the same millisecond.                        *)
(***************************************************************************)
EXTENDS PolicyStore, FiniteSetTheorems, TLAPS

-----------------------------------------------------------------------------
(* What the requests carry.                                                *)

Saves == [pc : {"probe", "save"}, id : Ids, spec : Specs]
TagEdits == [pc : {"tags"}, id : Ids, add : SUBSET Tags, remove : SUBSET Tags,
             tags : SUBSET Tags]
Previews == [pc : Previewing, spec : Specs, at : 0..MaxTick, shared : BOOLEAN,
             got : Specs \cup {None}]

StoreType ==
  /\ policies \in [Ids -> {None} \cup PolicyRows]
  /\ edit \in [Editors -> {None} \cup Saves \cup TagEdits \cup Previews]
  /\ temp \in [0..MaxTick -> Specs \cup {None}]
  /\ tick \in 0..MaxTick

\* No route deletes a policy: the row that was read is there when it is written.
ReadStands == \A e \in Editors : InPc(e, "tags") => policies[edit[e].id] # None

IsPreview(e) == edit[e] # None /\ edit[e].pc \in Previewing

\* Previews with one module id know that they share it, and what one of the others
\* finds in OPA is its own.
PreviewsApart ==
  \A d, e \in Editors : d # e /\ IsPreview(d) /\ IsPreview(e) /\ edit[d].at = edit[e].at
    => edit[d].shared /\ edit[e].shared
PutIsOwn ==
  \A e \in Editors : InPc(e, "evaluate") => temp[edit[e].at] = edit[e].spec \/ edit[e].shared

StoreInv == StoreType /\ ReadStands /\ PreviewsApart /\ PutIsOwn /\ PreviewIsOwn

LEMMA InitStore == ASSUME PolicyStoreAssumption, Init PROVE StoreInv
BY DEF PolicyStoreAssumption, Init, StoreInv, StoreType, ReadStands, PreviewsApart, IsPreview,
       PutIsOwn, PreviewIsOwn, InPc

-----------------------------------------------------------------------------
(* A row is written, if at all, with a version of its own or unchanged but *)
(* for its tags.                                                           *)

Follows(row, before) ==
  before # None =>
    /\ row.content # before.content => ~before.locked /\ row.version = before.version + 1
    /\ row.locked # before.locked => row.version = before.version + 1

LEMMA WrittenFrozen ==
  ASSUME PolicyStoreAssumption, StoreType, NEW i \in Ids, NEW row \in PolicyRows,
         policies' = [policies EXCEPT ![i] = row], Follows(row, policies[i])
  PROVE  /\ policies' \in [Ids -> {None} \cup PolicyRows]
         /\ \A j \in Ids : policies[j] # None => policies'[j] # None
         /\ FrozenStep
BY DEF PolicyStoreAssumption, StoreType, Follows, FrozenStep

\* policies' after one of the calls that write rows.
PoliciesStep ==
  /\ policies' \in [Ids -> {None} \cup PolicyRows]
  /\ \A j \in Ids : policies[j] # None => policies'[j] # None
  /\ FrozenStep

LEMMA UnwrittenFrozen == ASSUME StoreType, UNCHANGED policies PROVE PoliciesStep
BY DEF StoreType, PoliciesStep, FrozenStep

LEMMA SaveFrozen ==
  ASSUME PolicyStoreAssumption, StoreType, NEW i \in Ids, NEW content \in Specs,
         SavePolicy(i, content)
  PROVE  PoliciesStep
<1>1. CASE policies[i] = None
  <2>1. Row(content, FALSE, 1, {}) \in PolicyRows
    BY DEF Row, PolicyRows
  <2> QED BY <1>1, <2>1, WrittenFrozen DEF SavePolicy, Store, PoliciesStep, Follows
<1>2. CASE policies[i] # None /\ policies[i].locked
  BY <1>2, UnwrittenFrozen DEF SavePolicy, tables
<1>3. CASE policies[i] # None /\ ~policies[i].locked
  <2> DEFINE row == Row(content, FALSE, policies[i].version + 1, policies[i].tags)
  <2>1. policies[i] \in PolicyRows
    BY <1>3 DEF StoreType
  <2>2. row \in PolicyRows /\ row.version = policies[i].version + 1 /\ row.locked = FALSE
    BY <2>1 DEF Row, PolicyRows
  <2>3. policies' = [policies EXCEPT ![i] = row]
    BY <1>3 DEF SavePolicy, Store
  <2>4. Follows(row, policies[i])
    BY <1>3, <2>1, <2>2 DEF Follows, PolicyRows
  <2> QED BY <2>2, <2>3, <2>4, WrittenFrozen DEF PoliciesStep
<1> QED BY <1>1, <1>2, <1>3

LEMMA LockFrozen ==
  ASSUME PolicyStoreAssumption, StoreType, NEW i \in Ids, NEW locked \in BOOLEAN,
         SetPolicyLocked(i, locked)
  PROVE  PoliciesStep
<1>1. CASE policies[i] = None \/ policies[i].locked = locked
  BY <1>1, UnwrittenFrozen DEF SetPolicyLocked, tables
<1>2. CASE policies[i] # None /\ policies[i].locked # locked
  <2> DEFINE row == Row(policies[i].content, locked, policies[i].version + 1, policies[i].tags)
  <2>1. policies[i] \in PolicyRows
    BY <1>2 DEF StoreType
  <2>2. /\ row \in PolicyRows /\ row.version = policies[i].version + 1
        /\ row.content = policies[i].content
    BY <2>1 DEF Row, PolicyRows
  <2>3. policies' = [policies EXCEPT ![i] = row]
    BY <1>2 DEF SetPolicyLocked, Store
  <2> QED BY <2>2, <2>3, WrittenFrozen DEF PoliciesStep, Follows
<1> QED BY <1>1, <1>2

LEMMA TagsFrozen ==
  ASSUME PolicyStoreAssumption, StoreType, NEW i \in Ids, policies[i] # None,
         NEW next \in SUBSET Tags, UpdatePolicyTags(i, next)
  PROVE  PoliciesStep
<1> DEFINE row == [policies[i] EXCEPT !.tags = next]
<1>1. policies[i] \in PolicyRows
  BY DEF StoreType
<1>2. /\ row \in PolicyRows /\ row.version = policies[i].version
      /\ row.content = policies[i].content /\ row.locked = policies[i].locked
  BY <1>1 DEF PolicyRows
<1>3. policies' = [policies EXCEPT ![i] = row]
  BY DEF UpdatePolicyTags
<1> QED BY <1>2, <1>3, WrittenFrozen DEF PoliciesStep, Follows

LEMMA SeedFrozen ==
  ASSUME PolicyStoreAssumption, StoreType, NEW i \in Seeded, NEW content \in Specs,
         Seed(i, content)
  PROVE  PoliciesStep
<1>1. Row(content, FALSE, 1, {}) \in PolicyRows /\ i \in Ids
  BY DEF Row, PolicyRows, PolicyStoreAssumption
<1> QED BY <1>1, WrittenFrozen DEF Seed, PoliciesStep, Follows

-----------------------------------------------------------------------------
(* Requests other than previews, and the ends of all requests.             *)

LEMMA RequestStep ==
  ASSUME StoreInv, PoliciesStep, UNCHANGED <<temp, tick>>, NEW e \in Editors,
         NEW x \in {None} \cup Saves \cup TagEdits, edit' = [edit EXCEPT ![e] = x],
         x # None /\ x.pc = "tags" => policies'[x.id] # None
  PROVE  StoreInv'
<1> USE DEF StoreInv
<1>1. \A d \in Editors : edit'[d] = IF d = e THEN x ELSE edit[d]
  BY DEF StoreType
<1>2. x # None => x.pc \in {"probe", "save", "tags"}
  BY DEF Saves, TagEdits
<1>3. StoreType'
  BY DEF StoreType, PoliciesStep
<1>4. ReadStands'
  <2>1. \A d \in Editors : InPc(d, "tags") => edit[d].id \in Ids
    BY DEF StoreType, InPc, Saves, TagEdits, Previews, Previewing
  <2> QED BY <1>1, <2>1 DEF ReadStands, InPc, PoliciesStep
<1>5. PreviewsApart' /\ PutIsOwn' /\ PreviewIsOwn'
  BY <1>1, <1>2 DEF PreviewsApart, IsPreview, PutIsOwn, PreviewIsOwn, InPc, Previewing
<1> QED BY <1>3, <1>4, <1>5

LEMMA RequestsStep ==
  ASSUME PolicyStoreAssumption, StoreInv, NEW e \in Editors,
         StartSave(e) \/ Probe(e) \/ Save(e) \/ StartTags(e) \/ PatchTags(e) \/ Fails(e)
  PROVE  StoreInv' /\ FrozenStep
<1> USE DEF StoreInv
<1>0. PoliciesStep => FrozenStep
  BY DEF PoliciesStep
<1>1. UNCHANGED policies => PoliciesStep
  BY UnwrittenFrozen
<1>2. CASE StartSave(e)
  <2>1. PICK i \in Ids, sp \in Specs : edit' = [edit EXCEPT ![e] = Request("probe", i, sp)]
    BY <1>2 DEF StartSave, Begin
  <2>2. Request("probe", i, sp) \in Saves /\ Request("probe", i, sp).pc = "probe"
    BY DEF Request, Saves
  <2> QED BY <1>0, <1>1, <1>2, <2>1, <2>2, RequestStep DEF StartSave, tables
<1>3. CASE Probe(e)
  <2>1. edit[e] \in Saves
    BY <1>3 DEF Probe, InPc, StoreType, TagEdits, Previews, Previewing
  <2>2. \/ edit' = [edit EXCEPT ![e] = None]
        \/ edit' = [edit EXCEPT ![e] = [edit[e] EXCEPT !.pc = "save"]]
    BY <1>3, <2>1 DEF Probe, End, Continue, StoreType
  <2>3. [edit[e] EXCEPT !.pc = "save"] \in Saves /\ [edit[e] EXCEPT !.pc = "save"].pc = "save"
    BY <2>1 DEF Saves
  <2> QED BY <1>0, <1>1, <1>3, <2>2, <2>3, RequestStep DEF Probe, tables
<1>4. CASE Save(e)
  <2>1. edit[e] \in Saves
    BY <1>4 DEF Save, InPc, StoreType, TagEdits, Previews, Previewing
  <2>2. PoliciesStep
    BY <1>4, <2>1, SaveFrozen DEF Save, Saves
  <2> QED BY <1>0, <1>4, <2>2, RequestStep DEF Save, End
<1>5. CASE StartTags(e)
  <2>1. PICK i \in Ids, add \in SUBSET Tags, remove \in SUBSET Tags :
          /\ policies[i] # None
          /\ edit' = [edit EXCEPT ![e] = [pc |-> "tags", id |-> i, add |-> add,
                                        remove |-> remove,
                                        tags |-> ApplyTagDelta(policies[i].tags, add, remove)]]
    BY <1>5 DEF StartTags, Begin
  <2>2. policies[i].tags \in SUBSET Tags
    BY <2>1 DEF StoreType, PolicyRows
  <2>3. ApplyTagDelta(policies[i].tags, add, remove) \in SUBSET Tags
    BY <2>2 DEF ApplyTagDelta
  <2>4. [pc |-> "tags", id |-> i, add |-> add, remove |-> remove,
         tags |-> ApplyTagDelta(policies[i].tags, add, remove)] \in TagEdits
    BY <2>3 DEF TagEdits
  <2> QED BY <1>0, <1>1, <1>5, <2>1, <2>4, RequestStep DEF StartTags, tables
<1>6. CASE PatchTags(e)
  <2>1. edit[e] \in TagEdits /\ policies[edit[e].id] # None
    BY <1>6 DEF PatchTags, InPc, StoreType, Saves, Previews, Previewing, ReadStands
  <2>2. PoliciesStep
    BY <1>6, <2>1, TagsFrozen DEF PatchTags, TagEdits
  <2> QED BY <1>0, <1>6, <2>2, RequestStep DEF PatchTags, End
<1>7. CASE Fails(e)
  BY <1>0, <1>1, <1>7, RequestStep DEF Fails, End, tables
<1> QED BY <1>2, <1>3, <1>4, <1>5, <1>6, <1>7

-----------------------------------------------------------------------------
(* Previews.                                                               *)

\* A preview goes on: it keeps its policy and its module id.
LEMMA PreviewStep ==
  ASSUME StoreInv, NEW e \in Editors, edit[e] # None, edit[e] \in Previews, UNCHANGED <<tables, tick>>,
         NEW x \in Previews, edit' = [edit EXCEPT ![e] = x],
         x.spec = edit[e].spec, x.at = edit[e].at, x.shared = edit[e].shared,
         temp' = temp \/ temp' = [temp EXCEPT ![edit[e].at] = edit[e].spec],
         x.pc = "evaluate" => temp'[x.at] = x.spec,
         x.pc = "shown" => x.got = x.spec \/ x.shared
  PROVE  StoreInv' /\ FrozenStep
<1> USE DEF StoreInv
<1>1. \A d \in Editors : edit'[d] = IF d = e THEN x ELSE edit[d]
  BY DEF StoreType
<1>2. IsPreview(e) /\ edit[e].at \in 0..MaxTick /\ edit[e].spec \in Specs
  BY DEF IsPreview, Previews
<1>3. StoreType' /\ FrozenStep
  <2>1. temp' \in [0..MaxTick -> Specs \cup {None}]
    BY <1>2 DEF StoreType
  <2> QED BY <2>1, UnwrittenFrozen DEF StoreType, tables, PoliciesStep
<1>4. ReadStands'
  BY <1>1 DEF ReadStands, InPc, tables, Previews, Previewing
<1>5. PreviewsApart'
  BY <1>1, <1>2 DEF PreviewsApart, IsPreview
<1>6. PutIsOwn'
  <2> SUFFICES ASSUME NEW d \in Editors, InPc(d, "evaluate")'
               PROVE  temp'[edit'[d].at] = edit'[d].spec \/ edit'[d].shared
    BY DEF PutIsOwn
  <2>1. CASE d = e
    BY <1>1, <2>1 DEF InPc
  <2>2. CASE d # e
    <3>1. InPc(d, "evaluate") /\ IsPreview(d) /\ edit'[d] = edit[d] /\ edit[d] \in Previews
      BY <1>1, <2>2 DEF InPc, IsPreview, Previewing, StoreType, Saves, TagEdits
    <3>2. edit[d].at = edit[e].at => edit[d].shared
      BY <1>2, <2>2, <3>1 DEF PreviewsApart
    <3>3. edit[d].at # edit[e].at => temp'[edit[d].at] = temp[edit[d].at]
      BY <1>2, <3>1 DEF StoreType, Previews
    <3> QED BY <3>1, <3>2, <3>3 DEF PutIsOwn
  <2> QED BY <2>1, <2>2
<1>7. PreviewIsOwn'
  BY <1>1 DEF PreviewIsOwn, InPc
<1> QED BY <1>3, <1>4, <1>5, <1>6, <1>7

LEMMA PreviewsStep ==
  ASSUME StoreInv, NEW e \in Editors, Put(e) \/ Evaluate(e)  PROVE StoreInv' /\ FrozenStep
<1>1. edit[e] \in Previews /\ edit[e] # None /\ edit \in [Editors -> {None} \cup Saves \cup TagEdits \cup Previews]
  BY DEF StoreInv, StoreType, Put, Evaluate, InPc, Saves, TagEdits, Previewing
<1>2. temp[edit[e].at] \in Specs \cup {None}
  BY <1>1 DEF StoreInv, StoreType, Previews
<1>3. CASE Put(e)
  <2> DEFINE evaluate == [edit[e] EXCEPT !.pc = "evaluate"]
             clear == [edit[e] EXCEPT !.pc = "clear"]
  <2>1. /\ evaluate \in Previews /\ evaluate.pc = "evaluate" /\ evaluate.spec = edit[e].spec
        /\ evaluate.at = edit[e].at /\ evaluate.shared = edit[e].shared
        /\ clear \in Previews /\ clear.pc = "clear" /\ clear.spec = edit[e].spec
        /\ clear.at = edit[e].at /\ clear.shared = edit[e].shared
    BY <1>1 DEF Previews, Previewing
  <2>2. \/ edit' = [edit EXCEPT ![e] = evaluate] /\ temp' = [temp EXCEPT ![edit[e].at] = edit[e].spec]
        \/ edit' = [edit EXCEPT ![e] = clear] /\
             (temp' = temp \/ temp' = [temp EXCEPT ![edit[e].at] = edit[e].spec])
    BY <1>1, <1>3 DEF Put, Continue
  <2>3. edit[e].at \in DOMAIN temp
    BY <1>1 DEF Previews, StoreInv, StoreType
  <2> HIDE DEF evaluate, clear
  <2> QED BY <1>1, <1>3, <2>1, <2>2, <2>3, PreviewStep DEF Put
<1>4. CASE Evaluate(e)
  <2> DEFINE x == [edit[e] EXCEPT !.pc = "shown", !.got = temp[edit[e].at]]
  <2>1. /\ x \in Previews /\ x.pc = "shown" /\ x.spec = edit[e].spec /\ x.at = edit[e].at
        /\ x.shared = edit[e].shared /\ x.got = temp[edit[e].at]
    BY <1>1, <1>2 DEF Previews, Previewing
  <2>2. edit' = [edit EXCEPT ![e] = x] /\ UNCHANGED <<tables, tick, temp>>
    BY <1>1, <1>4 DEF Evaluate
  <2>3. x.got = x.spec \/ x.shared
    BY <1>4, <2>1 DEF StoreInv, PutIsOwn, Evaluate
  <2> HIDE DEF x
  <2> QED BY <1>1, <2>1, <2>2, <2>3, PreviewStep
<1> QED BY <1>3, <1>4

\* A module that is deleted was, if anybody still waits for it, shared.
LEMMA ClearStep ==
  ASSUME StoreInv, NEW e \in Editors, Clear(e)  PROVE StoreInv' /\ FrozenStep
<1> USE DEF StoreInv
<1>1. \A d \in Editors : edit'[d] = IF d = e THEN None ELSE edit[d]
  BY DEF Clear, End, StoreType
<1>2. edit[e] \in Previews /\ IsPreview(e)
  BY DEF Clear, InPc, IsPreview, StoreType, Saves, TagEdits, Previewing
<1>3. temp' = [temp EXCEPT ![edit[e].at] = None] \/ temp' = temp
  BY DEF Clear
<1>4. StoreType' /\ FrozenStep
  BY <1>3, UnwrittenFrozen DEF Clear, End, StoreType, tables, PoliciesStep
<1>5. ReadStands' /\ PreviewsApart' /\ PreviewIsOwn'
  BY <1>1 DEF Clear, ReadStands, PreviewsApart, PreviewIsOwn, IsPreview, InPc, tables
<1>6. PutIsOwn'
  <2> SUFFICES ASSUME NEW d \in Editors, d # e, InPc(d, "evaluate")
               PROVE  temp'[edit[d].at] = edit[d].spec \/ edit[d].shared
    BY <1>1 DEF PutIsOwn, InPc
  <2>1. edit[d] \in Previews /\ IsPreview(d)
    BY DEF InPc, IsPreview, StoreType, Saves, TagEdits, Previewing
  <2>2. edit[d].at = edit[e].at => edit[d].shared
    BY <1>2, <2>1 DEF PreviewsApart
  <2>3. edit[d].at # edit[e].at => temp'[edit[d].at] = temp[edit[d].at]
    BY <1>3, <2>1 DEF StoreType, Previews
  <2> QED BY <2>2, <2>3 DEF PutIsOwn
<1> QED BY <1>4, <1>5, <1>6

\* A new preview shares its module id with those of the same millisecond.
LEMMA StartPreviewStep ==
  ASSUME StoreInv, NEW e \in Editors, StartPreview(e)  PROVE StoreInv' /\ FrozenStep
<1> DEFINE Same(d) == d # e /\ edit[d] # None /\ edit[d].pc \in Previewing /\ edit[d].at = tick
<1> USE DEF StoreInv
<1>1. PICK sp \in Specs :
        edit' = [d \in Editors |->
          IF d = e THEN Preview(sp, PreviewId, \E o \in Editors : Same(o))
          ELSE IF Same(d) THEN [edit[d] EXCEPT !.shared = TRUE]
          ELSE edit[d]]
  BY DEF StartPreview
<1> DEFINE new == Preview(sp, PreviewId, \E o \in Editors : Same(o))
<1>2. /\ new \in Previews /\ new.pc = "preview" /\ new.at = tick
      /\ (\E o \in Editors : Same(o)) => new.shared
  BY DEF Preview, PreviewId, Previews, Previewing, StoreType
<1>3. ASSUME NEW d \in Editors, Same(d)
      PROVE  /\ edit'[d] \in Previews /\ edit'[d].pc = edit[d].pc /\ edit'[d].at = tick
             /\ edit'[d].spec = edit[d].spec /\ edit'[d].got = edit[d].got /\ edit'[d].shared = TRUE
  <2>1. edit[d] \in Previews
    BY <1>3 DEF StoreType, Saves, TagEdits, Previewing
  <2>2. edit'[d] = [edit[d] EXCEPT !.shared = TRUE]
    BY <1>1, <1>3
  <2> QED BY <1>3, <2>1, <2>2 DEF Previews
<1>4. edit'[e] = new /\ \A d \in Editors \ {e} : ~Same(d) => edit'[d] = edit[d]
  BY <1>1
<1> HIDE DEF new
<1>5. StoreType' /\ FrozenStep
  <2>1. \A d \in Editors : edit'[d] \in {None} \cup Saves \cup TagEdits \cup Previews
    BY <1>2, <1>3, <1>4 DEF StoreType
  <2>2. edit' \in [Editors -> {None} \cup Saves \cup TagEdits \cup Previews]
    BY <1>1, <2>1
  <2> QED BY <2>2, UnwrittenFrozen DEF StartPreview, StoreType, tables, PoliciesStep
<1>6. ReadStands'
  <2> SUFFICES ASSUME NEW d \in Editors, InPc(d, "tags")'
               PROVE  policies[edit'[d].id] # None
    BY DEF ReadStands, StartPreview, tables
  <2>1. d # e /\ ~Same(d)
    BY <1>2, <1>3, <1>4 DEF InPc, Previewing
  <2> QED BY <1>4, <2>1 DEF ReadStands, InPc
<1>7. PreviewsApart'
  <2> SUFFICES ASSUME NEW c \in Editors, NEW d \in Editors, c # d, IsPreview(c)', IsPreview(d)',
                      edit'[c].at = edit'[d].at
               PROVE  edit'[c].shared
    BY DEF PreviewsApart
  <2>1. CASE c = e
    BY <1>2, <1>3, <1>4, <2>1 DEF IsPreview
  <2>2. CASE Same(c)
    BY <1>3, <2>2
  <2>3. CASE c # e /\ ~Same(c)
    <3>1. IsPreview(c) /\ edit'[c] = edit[c] /\ edit[c].at # tick
      BY <1>4, <2>3 DEF IsPreview
    <3>2. d # e /\ ~Same(d)
      BY <1>2, <1>3, <1>4, <3>1
    <3> QED BY <1>4, <3>1, <3>2 DEF PreviewsApart, IsPreview
  <2> QED BY <2>1, <2>2, <2>3
<1>8. PutIsOwn' /\ PreviewIsOwn'
  <2> SUFFICES ASSUME NEW d \in Editors, InPc(d, "evaluate")' \/ InPc(d, "shown")'
               PROVE  /\ InPc(d, "evaluate")' =>
                           temp[edit'[d].at] = edit'[d].spec \/ edit'[d].shared
                      /\ InPc(d, "shown")' => edit'[d].got = edit'[d].spec \/ edit'[d].shared
    BY DEF PutIsOwn, PreviewIsOwn, StartPreview
  <2>1. d # e
    BY <1>2, <1>4 DEF InPc
  <2>2. CASE Same(d)
    BY <1>3, <2>2
  <2>3. CASE ~Same(d)
    BY <1>4, <2>1, <2>3 DEF PutIsOwn, PreviewIsOwn, InPc
  <2> QED BY <2>2, <2>3
<1> QED BY <1>5, <1>6, <1>7, <1>8

LEMMA OthersStep ==
  ASSUME PolicyStoreAssumption, StoreInv,
         \/ \E i \in Ids, locked \in BOOLEAN : Lock(i, locked)
         \/ \E i \in Seeded, sp \in Specs \ BadSpecs : Seed(i, sp)
         \/ Tick
         \/ UNCHANGED psVars
  PROVE  StoreInv' /\ FrozenStep
<1>1. PoliciesStep
  BY LockFrozen, SeedFrozen, UnwrittenFrozen DEF Lock, Tick, psVars, tables, StoreInv
<1>2. UNCHANGED <<edit, temp>> /\ tick' \in 0..MaxTick
  <2>1. UNCHANGED <<edit, temp>> /\ (tick' = tick \/ (tick < MaxTick /\ tick' = tick + 1))
    BY DEF Lock, Seed, Tick, psVars
  <2>2. tick \in 0..MaxTick /\ MaxTick \in Nat
    BY DEF StoreInv, StoreType, PolicyStoreAssumption
  <2> QED BY <2>1, <2>2
<1>3. \A e \in Editors : InPc(e, "tags") => edit[e].id \in Ids
  BY DEF StoreInv, StoreType, InPc, Saves, TagEdits, Previews, Previewing
<1> QED BY <1>1, <1>2, <1>3 DEF PoliciesStep, StoreInv, StoreType, ReadStands, PreviewsApart,
           IsPreview, PutIsOwn, PreviewIsOwn, InPc

-----------------------------------------------------------------------------
LEMMA StoreStep ==
  ASSUME PolicyStoreAssumption, StoreInv, [Next]_psVars  PROVE StoreInv' /\ FrozenStep
BY RequestsStep, PreviewsStep, ClearStep, StartPreviewStep, OthersStep
   DEF Next, PolicyNext, PreviewNext

LEMMA StoreHolds == ASSUME PolicyStoreAssumption PROVE Spec => []StoreInv
<1>1. Init => StoreInv
  BY InitStore
<1>2. StoreInv /\ [Next]_psVars => StoreInv'
  BY StoreStep
<1> QED BY <1>1, <1>2, PTL DEF Spec

(* No step changes what a locked policy says, and no step changes a policy *)
(* by more than one version, whatever request was begun before the lock.   *)
THEOREM PolicyLockedIsFrozen == ASSUME PolicyStoreAssumption PROVE Spec => LockedIsFrozen
<1>1. StoreInv /\ [Next]_psVars => [FrozenStep]_psVars
  BY StoreStep
<1> QED BY <1>1, StoreHolds, PTL DEF Spec, LockedIsFrozen

(* A preview shows its own policy, whatever the other previews put into    *)
(* OPA or delete, unless one of them shares its millisecond.               *)
THEOREM PolicyPreviewIsOwn == ASSUME PolicyStoreAssumption PROVE Spec => []PreviewIsOwn
<1>1. StoreInv => PreviewIsOwn
  BY DEF StoreInv
<1> QED BY <1>1, StoreHolds, PTL
-----------------------------------------------------------------------------
(* The history: each version has one row, from the newest back to the      *)
(* oldest that is kept.                                                    *)

Oldest(v) == IF v > HistoryMax THEN v - HistoryMax + 1 ELSE 1
Snapshots == [version : 1..MaxVersion, content : Specs, locked : BOOLEAN]

\* One row for each version of lo..v.
Chronicle(rows, lo, v) ==
  /\ {r.version : r \in rows} = lo..v
  /\ \A q, r \in rows : q.version = r.version => q = r

HistoryKept(i) ==
  /\ policies[i] = None => versions[i] = {}
  /\ policies[i] # None =>
       /\ policies[i].version \in 1..MaxVersion
       /\ versions[i] \subseteq Snapshots
       /\ \/ versions[i] = {} /\ i \in Seeded /\ policies[i].version = 1
          \/ /\ Chronicle(versions[i], Oldest(policies[i].version), policies[i].version)
             /\ Snapshot(policies[i]) \in versions[i]
HistoryInv == DOMAIN versions = Ids /\ \A i \in Ids : HistoryKept(i)

\* As many rows are newer than version k as there are versions after it.
LEMMA NewerRows ==
  ASSUME NEW rows, NEW lo \in Nat, NEW v \in Nat, Chronicle(rows, lo, v),
         NEW k \in Int, lo - 1 <= k, k <= v
  PROVE  Cardinality({q \in rows : q.version > k}) = v - k
<1> DEFINE newer == {q \in rows : q.version > k}
           f == [q \in newer |-> q.version]
<1>1. IsFiniteSet((k+1)..v) /\ Cardinality((k+1)..v) = v - k
  <2>1. \A a, b \in Int : IsFiniteSet(a..b) /\ Cardinality(a..b) = IF a > b THEN 0 ELSE b - a + 1
    BY FS_Interval
  <2>2. k + 1 \in Int /\ v \in Int
    OBVIOUS
  <2>3. /\ IsFiniteSet((k+1)..v)
        /\ Cardinality((k+1)..v) = IF k + 1 > v THEN 0 ELSE v - (k + 1) + 1
    BY <2>1, <2>2
  <2> QED BY <2>3
<1>2. \A q \in newer : q.version \in (k+1)..v
  BY DEF Chronicle
<1>3. \A n \in (k+1)..v : \E q \in newer : q.version = n
  <2> SUFFICES ASSUME NEW n \in (k+1)..v PROVE \E q \in newer : q.version = n
    OBVIOUS
  <2>1. n \in lo..v
    OBVIOUS
  <2>2. PICK q \in rows : q.version = n
    BY <2>1 DEF Chronicle
  <2> QED BY <2>2
<1>4. f \in Injection(newer, (k+1)..v)
  BY <1>2 DEF Injection, IsInjective, Chronicle
<1>5. f \in Surjection(newer, (k+1)..v)
  BY <1>2, <1>3 DEF Surjection
<1> HIDE DEF f, newer
<1> QED BY <1>1, <1>4, <1>5, FS_Injection DEF newer

\* What the trim leaves.
LEMMA TrimKeeps ==
  ASSUME PolicyStoreAssumption, NEW rows, NEW lo \in Nat \ {0}, NEW v \in Nat,
         Chronicle(rows, lo, v), lo <= Oldest(v), v >= 1
  PROVE  /\ Chronicle(Trim(rows), Oldest(v), v)
         /\ Trim(rows) \subseteq rows
         /\ \A r \in rows : r.version = v => r \in Trim(rows)
<1>1. HistoryMax \in Nat \ {0}
  BY DEF PolicyStoreAssumption
<1>2. \A r \in rows : r.version \in lo..v
  BY DEF Chronicle
<1>3. ASSUME NEW r \in rows
      PROVE  Cardinality({q \in rows : q.version > r.version}) = v - r.version
  <2>1. lo \in Nat /\ r.version \in Int /\ lo - 1 <= r.version /\ r.version <= v
    BY <1>2
  <2> QED BY <2>1, NewerRows
<1>4. \A r \in rows : r \in Trim(rows) <=> r.version >= Oldest(v)
  BY <1>1, <1>2, <1>3 DEF Trim, Oldest
<1>5. Trim(rows) = {r \in rows : r.version >= Oldest(v)}
  BY <1>4 DEF Trim
<1>6. {r.version : r \in Trim(rows)} = Oldest(v)..v
  <2>1. \A r \in Trim(rows) : r.version \in Oldest(v)..v
    BY <1>1, <1>2, <1>5 DEF Oldest
  <2>2. \A n \in Oldest(v)..v : n \in lo..v
    BY <1>1 DEF Oldest
  <2>3. \A n \in Oldest(v)..v : \E r \in rows : r.version = n
    BY <2>2 DEF Chronicle
  <2>4. \A n \in Oldest(v)..v : \E r \in Trim(rows) : r.version = n
    BY <2>3, <1>5, <1>1 DEF Oldest
  <2> QED BY <2>1, <2>4
<1>7. Oldest(v) <= v
  BY <1>1 DEF Oldest
<1> QED BY <1>1, <1>2, <1>5, <1>6, <1>7 DEF Chronicle

\* A row that gets its next version, or its first one.
LEMMA StoreKeeps ==
  ASSUME PolicyStoreAssumption, StoreType, HistoryInv, NEW i \in Ids, NEW row \in PolicyRows,
         Store(i, row), row.version \in 1..MaxVersion,
         policies[i] = None => row.version = 1,
         policies[i] # None => row.version = policies[i].version + 1
  PROVE  HistoryInv'
<1> DEFINE before == policies[i]
           first == IF versions[i] = {} /\ before # None THEN {Snapshot(before)} ELSE versions[i]
           rows == first \cup {Snapshot(row)}
           v == row.version
<1>1. /\ policies' = [policies EXCEPT ![i] = row] /\ DOMAIN policies = Ids
      /\ versions' = [versions EXCEPT ![i] = Trim(rows)] /\ DOMAIN versions = Ids
  BY DEF Store, WithSnapshot, StoreType, HistoryInv
<1>2. row # None /\ MaxVersion \in Nat /\ HistoryMax \in Nat \ {0}
  BY DEF PolicyStoreAssumption
<1>3. Snapshot(row) \in Snapshots /\ Snapshot(row).version = v
  BY DEF Snapshot, Snapshots, PolicyRows
<1>4. \E lo \in Nat \ {0} : lo <= Oldest(v) /\ Chronicle(rows, lo, v) /\ rows \subseteq Snapshots
  <2>1. CASE before = None
    <3>1. v = 1 /\ rows = {Snapshot(row)} /\ Oldest(v) = 1
      BY <2>1, <1>2 DEF HistoryInv, HistoryKept, Oldest
    <3>2. Chronicle(rows, 1, v)
      BY <3>1, <1>3 DEF Chronicle
    <3> QED BY <3>1, <3>2, <1>3
  <2>2. CASE before # None /\ versions[i] = {}
    <3>1. before \in PolicyRows /\ before.version = 1 /\ v = 2 /\ 1 \in 1..MaxVersion
      BY <2>2 DEF HistoryInv, HistoryKept, StoreType, Chronicle
    <3>2. rows = {Snapshot(before), Snapshot(row)}
      BY <2>2
    <3>3. Snapshot(before).version = 1 /\ Snapshot(before) \in Snapshots
      BY <3>1 DEF Snapshot, Snapshots, PolicyRows
    <3>4. Chronicle(rows, 1, v)
      BY <3>1, <3>2, <3>3, <1>3 DEF Chronicle
    <3>5. 1 \in Nat \ {0} /\ 1 <= Oldest(v)
      BY <3>1, <1>2 DEF Oldest
    <3>6. rows \subseteq Snapshots
      BY <3>2, <3>3, <1>3
    <3> HIDE DEF rows
    <3> QED BY <3>4, <3>5, <3>6
  <2>3. CASE before # None /\ versions[i] # {}
    <3> DEFINE lo == Oldest(before.version)
    <3>1. /\ before.version \in 1..MaxVersion /\ v = before.version + 1
          /\ Chronicle(versions[i], lo, before.version) /\ versions[i] \subseteq Snapshots
      BY <2>3 DEF HistoryInv, HistoryKept
    <3>2. lo \in Nat \ {0} /\ lo <= before.version /\ lo <= Oldest(v)
      BY <3>1, <1>2 DEF Oldest
    <3>3. rows = versions[i] \cup {Snapshot(row)}
      BY <2>3
    <3>4. \A r \in versions[i] : r.version \in lo..before.version
      BY <3>1 DEF Chronicle
    <3>5. \A n \in lo..v : \E r \in rows : r.version = n
      <4> SUFFICES ASSUME NEW n \in lo..v PROVE \E r \in rows : r.version = n
        OBVIOUS
      <4>1. CASE n = v
        BY <4>1, <1>3, <3>3
      <4>2. CASE n # v
        <5>1. n \in lo..before.version
          BY <4>2, <3>1, <3>2
        <5> QED BY <5>1, <3>1, <3>3 DEF Chronicle
      <4> QED BY <4>1, <4>2
    <3>6. \A r \in rows : r.version \in lo..v
      BY <3>1, <3>2, <3>3, <3>4, <1>3
    <3>7. \A q, r \in rows : q.version = r.version => q = r
      BY <3>1, <3>2, <3>3, <3>4, <1>3 DEF Chronicle
    <3>8. Chronicle(rows, lo, v)
      BY <3>5, <3>6, <3>7 DEF Chronicle
    <3> QED BY <3>1, <3>2, <3>3, <3>8, <1>3
  <2> QED BY <2>1, <2>2, <2>3
<1>5. /\ Chronicle(Trim(rows), Oldest(v), v) /\ Trim(rows) \subseteq Snapshots
      /\ Snapshot(row) \in Trim(rows)
  <2>1. PICK lo \in Nat \ {0} : lo <= Oldest(v) /\ Chronicle(rows, lo, v) /\ rows \subseteq Snapshots
    BY <1>4
  <2>2. v \in Nat /\ v >= 1 /\ Snapshot(row) \in rows
    BY <1>2
  <2> HIDE DEF rows, v
  <2>3. /\ Chronicle(Trim(rows), Oldest(v), v) /\ Trim(rows) \subseteq rows
        /\ \A r \in rows : r.version = v => r \in Trim(rows)
    BY <2>1, <2>2, TrimKeeps
  <2> QED BY <2>1, <2>2, <2>3, <1>3
<1>6. HistoryKept(i)'
  BY <1>1, <1>2, <1>5 DEF HistoryKept, Snapshots, Snapshot
<1>7. \A j \in Ids \ {i} : HistoryKept(j)'
  <2> HIDE DEF rows
  <2> QED BY <1>1 DEF HistoryInv, HistoryKept
<1> QED BY <1>1, <1>6, <1>7 DEF HistoryInv

\* Only the row of a policy is written: a new one of a template, or its tags.
LEMMA RowKeeps ==
  ASSUME PolicyStoreAssumption, StoreType, HistoryInv, NEW i \in Ids, NEW row \in PolicyRows,
         policies' = [policies EXCEPT ![i] = row], UNCHANGED versions,
         policies[i] = None => i \in Seeded /\ row.version = 1,
         policies[i] # None => Snapshot(row) = Snapshot(policies[i])
                               /\ row.version = policies[i].version
  PROVE  HistoryInv'
<1>1. row # None /\ MaxVersion \in Nat \ {0}
  BY DEF PolicyStoreAssumption
<1>2. DOMAIN policies = Ids
  BY DEF StoreType
<1>3. HistoryKept(i)'
  BY <1>1, <1>2 DEF HistoryInv, HistoryKept, Snapshots, Snapshot
<1>4. \A j \in Ids \ {i} : HistoryKept(j)'
  BY <1>2 DEF HistoryInv, HistoryKept
<1> QED BY <1>3, <1>4 DEF HistoryInv

LEMMA HistoryUnwritten == ASSUME HistoryInv, UNCHANGED tables PROVE HistoryInv'
BY DEF HistoryInv, HistoryKept, tables

LEMMA SaveKeeps ==
  ASSUME PolicyStoreAssumption, StoreType, HistoryInv, NEW i \in Ids, NEW content \in Specs,
         SavePolicy(i, content)
  PROVE  HistoryInv'
<1>1. MaxVersion \in Nat \ {0}
  BY DEF PolicyStoreAssumption
<1>2. CASE policies[i] = None
  <2> DEFINE row == Row(content, FALSE, 1, {})
  <2>1. row \in PolicyRows /\ row.version = 1
    BY DEF Row, PolicyRows
  <2>2. Store(i, row)
    BY <1>2 DEF SavePolicy
  <2> HIDE DEF row
  <2> QED BY <1>1, <1>2, <2>1, <2>2, StoreKeeps
<1>3. CASE policies[i] # None /\ policies[i].locked
  BY <1>3, HistoryUnwritten DEF SavePolicy
<1>4. CASE policies[i] # None /\ ~policies[i].locked
  <2> DEFINE row == Row(content, FALSE, policies[i].version + 1, policies[i].tags)
  <2>1. policies[i] \in PolicyRows /\ policies[i].version < MaxVersion /\ Store(i, row)
    BY <1>4 DEF SavePolicy, StoreType
  <2>2. row \in PolicyRows /\ row.version = policies[i].version + 1
    BY <2>1 DEF Row, PolicyRows
  <2> HIDE DEF row
  <2>3. row.version \in 1..MaxVersion
    BY <1>1, <2>1, <2>2 DEF PolicyRows
  <2> QED BY <1>4, <2>1, <2>2, <2>3, StoreKeeps
<1> QED BY <1>2, <1>3, <1>4

LEMMA LockKeeps ==
  ASSUME PolicyStoreAssumption, StoreType, HistoryInv, NEW i \in Ids, NEW locked \in BOOLEAN,
         SetPolicyLocked(i, locked)
  PROVE  HistoryInv'
<1>1. CASE policies[i] = None \/ policies[i].locked = locked
  BY <1>1, HistoryUnwritten DEF SetPolicyLocked
<1>2. CASE policies[i] # None /\ policies[i].locked # locked
  <2> DEFINE row == Row(policies[i].content, locked, policies[i].version + 1, policies[i].tags)
  <2>1. policies[i] \in PolicyRows /\ policies[i].version < MaxVersion /\ Store(i, row)
    BY <1>2 DEF SetPolicyLocked, StoreType
  <2>2. row \in PolicyRows /\ row.version = policies[i].version + 1
    BY <2>1 DEF Row, PolicyRows
  <2>3. row.version \in 1..MaxVersion
    BY <2>1, <2>2 DEF PolicyRows, PolicyStoreAssumption
  <2> HIDE DEF row
  <2> QED BY <1>2, <2>1, <2>2, <2>3, StoreKeeps
<1> QED BY <1>1, <1>2

LEMMA TagsKeep ==
  ASSUME PolicyStoreAssumption, StoreType, HistoryInv, NEW i \in Ids, policies[i] # None,
         NEW next \in SUBSET Tags, UpdatePolicyTags(i, next)
  PROVE  HistoryInv'
<1> DEFINE row == [policies[i] EXCEPT !.tags = next]
<1>1. policies[i] \in PolicyRows
  BY DEF StoreType
<1>2. row \in PolicyRows /\ row.version = policies[i].version /\ Snapshot(row) = Snapshot(policies[i])
  BY <1>1 DEF PolicyRows, Snapshot
<1>3. policies' = [policies EXCEPT ![i] = row] /\ UNCHANGED versions
  BY DEF UpdatePolicyTags
<1> HIDE DEF row
<1> QED BY <1>2, <1>3, RowKeeps

LEMMA SeedKeeps ==
  ASSUME PolicyStoreAssumption, StoreType, HistoryInv, NEW i \in Seeded, NEW content \in Specs,
         Seed(i, content)
  PROVE  HistoryInv'
<1>1. /\ Row(content, FALSE, 1, {}) \in PolicyRows /\ Row(content, FALSE, 1, {}).version = 1
      /\ i \in Ids
  BY DEF Row, PolicyRows, PolicyStoreAssumption
<1> QED BY <1>1, RowKeeps DEF Seed

LEMMA HistoryStep ==
  ASSUME PolicyStoreAssumption, StoreInv, HistoryInv, [Next]_psVars  PROVE HistoryInv'
<1>1. StoreType
  BY DEF StoreInv
<1>2. ASSUME NEW e \in Editors, Save(e)  PROVE HistoryInv'
  <2>1. edit[e].id \in Ids /\ edit[e].spec \in Specs
    BY <1>1, <1>2 DEF Save, InPc, StoreType, Saves, TagEdits, Previews, Previewing
  <2> QED BY <1>1, <1>2, <2>1, SaveKeeps DEF Save
<1>3. ASSUME NEW e \in Editors, PatchTags(e)  PROVE HistoryInv'
  <2>1. edit[e].id \in Ids /\ edit[e].tags \in SUBSET Tags
    BY <1>1, <1>3 DEF PatchTags, InPc, StoreType, Saves, TagEdits, Previews, Previewing
  <2>2. policies[edit[e].id] # None
    BY <1>3 DEF StoreInv, ReadStands, PatchTags
  <2> QED BY <1>1, <1>3, <2>1, <2>2, TagsKeep DEF PatchTags
<1>4. ASSUME NEW i \in Ids, NEW locked \in BOOLEAN, Lock(i, locked)  PROVE HistoryInv'
  BY <1>1, <1>4, LockKeeps DEF Lock
<1>5. ASSUME NEW i \in Seeded, NEW s \in Specs \ BadSpecs, Seed(i, s)  PROVE HistoryInv'
  BY <1>1, <1>5, SeedKeeps
<1>6. ASSUME NEW e \in Editors,
             \/ StartSave(e) \/ Probe(e) \/ StartTags(e) \/ Fails(e)
             \/ StartPreview(e) \/ Put(e) \/ Evaluate(e) \/ Clear(e)
      PROVE  HistoryInv'
  <2>1. UNCHANGED tables
    BY <1>6 DEF StartSave, Probe, StartTags, Fails, StartPreview, Put, Evaluate, Clear
  <2> QED BY <2>1, HistoryUnwritten
<1>7. CASE Tick \/ UNCHANGED psVars
  BY <1>7, HistoryUnwritten DEF Tick, psVars, tables
<1> QED BY <1>2, <1>3, <1>4, <1>5, <1>6, <1>7 DEF Next, PolicyNext, PreviewNext

LEMMA HistoryHolds == ASSUME PolicyStoreAssumption PROVE Spec => [](StoreInv /\ HistoryInv)
<1>1. Init => HistoryInv
  BY DEF Init, HistoryInv, HistoryKept
<1>2. StoreInv /\ HistoryInv /\ [Next]_psVars => HistoryInv'
  BY HistoryStep
<1> QED BY <1>1, <1>2, StoreHolds, PTL DEF Spec

(* The tables, the requests and the modules in OPA keep their shape: no    *)
(* version is skipped past the bound, and no history holds anything but    *)
(* what a policy said.                                                     *)
THEOREM PolicyTypeCorrect == ASSUME PolicyStoreAssumption PROVE Spec => []TypeOK
<1>1. StoreInv /\ HistoryInv => TypeOK
  BY DEF StoreInv, StoreType, HistoryInv, HistoryKept, TypeOK, Snapshots, Saves, TagEdits,
         Previews, Previewing
<1> QED BY <1>1, HistoryHolds, PTL

(* The history is the last HistoryMax versions, one row each, and ends in  *)
(* the policy as it stands: no save, lock, first edit of a template or     *)
(* trim leaves a gap, and none writes a version twice.                     *)
THEOREM PolicyHistoryFollows == ASSUME PolicyStoreAssumption PROVE Spec => []HistoryFollows
<1>1. ASSUME StoreInv, HistoryInv PROVE HistoryFollows
  <2> SUFFICES ASSUME NEW i \in Ids, policies[i] # None, versions[i] # {}
      PROVE  LET v == policies[i].version
                 oldest == IF v > HistoryMax THEN v - HistoryMax + 1 ELSE 1
             IN  /\ {r.version : r \in versions[i]} = oldest..v
                 /\ Cardinality(versions[i]) = v - oldest + 1
                 /\ Snapshot(policies[i]) \in versions[i]
    BY <1>1 DEF HistoryFollows, HistoryInv, HistoryKept
  <2> DEFINE v == policies[i].version
             lo == Oldest(v)
  <2>1. /\ Chronicle(versions[i], lo, v) /\ Snapshot(policies[i]) \in versions[i]
        /\ v \in 1..MaxVersion /\ MaxVersion \in Nat /\ HistoryMax \in Nat \ {0}
    BY <1>1 DEF HistoryInv, HistoryKept, PolicyStoreAssumption
  <2>2. lo \in Nat \ {0} /\ lo <= v
    BY <2>1 DEF Oldest
  <2>3. versions[i] = {q \in versions[i] : q.version > lo - 1}
    BY <2>1, <2>2 DEF Chronicle
  <2>4. Cardinality({q \in versions[i] : q.version > lo - 1}) = v - (lo - 1)
    BY <2>1, <2>2, NewerRows
  <2>5. Cardinality(versions[i]) = v - lo + 1
    BY <2>1, <2>2, <2>3, <2>4
  <2> QED BY <2>1, <2>5 DEF Chronicle, Oldest
<1> QED BY <1>1, HistoryHolds, PTL
=============================================================================
