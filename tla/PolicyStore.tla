---------------------------- MODULE PolicyStore ----------------------------
(***************************************************************************)
(* Policies and their versions: the policy routes of server.js over        *)
(* savePolicyTx(), setPolicyLockedTx(), updatePolicyTagsTx(), bulkSeed()   *)
(* of storage.js, and the throwaway modules that the probe of a save and   *)
(* the preview put into OPA under an id made of the clock.                 *)
(* A transaction is one step: withAudit() runs one at a time (AuditChain). *)
(***************************************************************************)
EXTENDS Integers, FiniteSets

CONSTANTS
  Ids,         \* policy ids
  Seeded,      \* ids of the templates
  Specs,       \* contents of a policy: name, package, rules, rego
  BadSpecs,    \* those that compile here and that OPA rejects
  Tags,
  Editors,     \* requests being handled at once
  HistoryMax,  \* versions kept (LIMIT 50)
  None,        \* no policy, no request, no module
  MaxVersion,  \* bound on the versions of a policy
  MaxTick      \* bound on Date.now()

PolicyRows == [content : Specs, locked : BOOLEAN, version : Nat, tags : SUBSET Tags]

PolicyStoreAssumption ==
  /\ Seeded \subseteq Ids /\ BadSpecs \subseteq Specs
  /\ {HistoryMax, MaxVersion, MaxTick} \subseteq Nat \ {0}
  /\ None \notin PolicyRows

VARIABLES
  policies,   \* table policies
  versions,   \* table policy_versions, the rows of each policy
  edit,       \* the requests being handled
  temp,       \* OPA: the modules of previews, by the clock in their id
  tick        \* Date.now()

psVars == <<policies, versions, edit, temp, tick>>
tables == <<policies, versions>>

Row(content, locked, version, tags) ==
  [content |-> content, locked |-> locked, version |-> version, tags |-> tags]
Snapshot(row) == [version |-> row.version, content |-> row.content, locked |-> row.locked]

Init ==
  /\ policies = [i \in Ids |-> None]
  /\ versions = [i \in Ids |-> {}]
  /\ edit = [e \in Editors |-> None]
  /\ temp = [t \in 0..MaxTick |-> None]
  /\ tick = 0

-----------------------------------------------------------------------------
\* The LIMIT of the DELETE: the newest HistoryMax versions stay.
Trim(rows) == {r \in rows : Cardinality({q \in rows : q.version > r.version}) < HistoryMax}

\* Mutant: a template edited for the first time keeps no copy of what it was.
WithSnapshot_NoBackfill(rows, before, after) == Trim(rows \cup {Snapshot(after)})

\* The rows with one more, after those of before if there are none yet.
WithSnapshot(rows, before, after) ==
  Trim((IF rows = {} /\ before # None THEN {Snapshot(before)} ELSE rows) \cup {Snapshot(after)})

Store(i, row) ==
  /\ policies' = [policies EXCEPT ![i] = row]
  /\ versions' = [versions EXCEPT ![i] = WithSnapshot(@, policies[i], row)]

\* Mutant: only PUT's earlier read looks at the lock.
SavePolicy_Anyway(i, content) ==
  LET before == policies[i] IN
  IF before = None THEN Store(i, Row(content, FALSE, 1, {}))
  ELSE /\ before.version < MaxVersion
       /\ Store(i, Row(content, before.locked, before.version + 1, before.tags))

\* savePolicyTx(): a locked row is refused, another gets its next version.
SavePolicy(i, content) ==
  LET before == policies[i] IN
  IF before = None THEN Store(i, Row(content, FALSE, 1, {}))
  ELSE IF before.locked THEN UNCHANGED tables
  ELSE /\ before.version < MaxVersion
       /\ Store(i, Row(content, FALSE, before.version + 1, before.tags))

\* setPolicyLockedTx(): no row is 404, no change is no entry.
SetPolicyLocked(i, locked) ==
  LET before == policies[i] IN
  IF before = None THEN UNCHANGED tables
  ELSE IF before.locked = locked THEN UNCHANGED tables
  ELSE /\ before.version < MaxVersion
       /\ Store(i, Row(before.content, locked, before.version + 1, before.tags))

\* updatePolicyTagsTx() under PATCH: the tags were computed from an earlier read.
UpdatePolicyTags(i, nextTags) ==
  /\ policies' = [policies EXCEPT ![i].tags = nextTags]
  /\ UNCHANGED versions

ApplyTagDelta(current, add, remove) == (current \cup add) \ remove

\* bulkSeed(), at every boot: ON CONFLICT (slug) DO NOTHING, and no version row.
Seed(i, content) ==
  /\ i \in Seeded /\ policies[i] = None
  /\ policies' = [policies EXCEPT ![i] = Row(content, FALSE, 1, {})]
  /\ UNCHANGED <<versions, edit, temp, tick>>

-----------------------------------------------------------------------------
Begin(e, r) == edit[e] = None /\ edit' = [edit EXCEPT ![e] = r]
End(e) == edit' = [edit EXCEPT ![e] = None]
Continue(e, pc) == edit' = [edit EXCEPT ![e].pc = pc]
InPc(e, pc) == edit[e] # None /\ edit[e].pc = pc

Request(pc, id, spec) == [pc |-> pc, id |-> id, spec |-> spec]

\* POST and PUT /policies: a PUT may name an id that no row has.
StartSave(e) ==
  /\ \E i \in Ids, s \in Specs : Begin(e, Request("probe", i, s))
  /\ UNCHANGED <<tables, temp, tick>>

\* assertRegoCompilesInOpa(): OPA's 400 ends the request; its consent, or no
\* answer, lets it go on.  Nobody reads the module it leaves in OPA meanwhile.
Probe(e) ==
  /\ InPc(e, "probe")
  /\ \/ edit[e].spec \in BadSpecs /\ End(e)
     \/ Continue(e, "save")
  /\ UNCHANGED <<tables, temp, tick>>

\* POST /preview-evaluate: the clock names the module.
Preview(s, t, shared) ==
  [pc |-> "preview", spec |-> s, at |-> t, shared |-> shared, got |-> None]
Previewing == {"preview", "evaluate", "clear", "shown"}
\* Mutant: the id is fixed.
PreviewId_Fixed == 0
PreviewId == tick
StartPreview(e) ==
  LET Same(d) == d # e /\ edit[d] # None /\ edit[d].pc \in Previewing
                 /\ edit[d].at = tick IN
  /\ edit[e] = None
  /\ \E s \in Specs :
       edit' = [d \in Editors |->
         IF d = e THEN Preview(s, PreviewId, \E o \in Editors : Same(o))
         ELSE IF Same(d) THEN [edit[d] EXCEPT !.shared = TRUE]
         ELSE edit[d]]
  /\ UNCHANGED <<tables, temp, tick>>

\* PATCH /policies/:id/tags: the row is read, and the new tags computed from it; the
\* audit row will carry the delta.
StartTags(e) ==
  /\ \E i \in Ids, add, remove \in SUBSET Tags :
       /\ policies[i] # None
       /\ Cardinality(add \cup remove) = 1
       /\ Begin(e, [pc |-> "tags", id |-> i, add |-> add, remove |-> remove,
                    tags |-> ApplyTagDelta(policies[i].tags, add, remove)])
  /\ UNCHANGED <<tables, temp, tick>>

\* POST /policies/:id/lock and /unlock
Lock(i, locked) ==
  /\ SetPolicyLocked(i, locked)
  /\ UNCHANGED <<edit, temp, tick>>

\* The module goes into OPA, which compiles it or answers 400; or the call
\* fails, before or after OPA has it.
Put(e) ==
  LET Kept == temp' = [temp EXCEPT ![edit[e].at] = edit[e].spec] IN
  /\ InPc(e, "preview")
  /\ \/ edit[e].spec \notin BadSpecs /\ Kept /\ Continue(e, "evaluate")
     \/ edit[e].spec \notin BadSpecs /\ Kept /\ Continue(e, "clear")
     \/ UNCHANGED temp /\ Continue(e, "clear")
  /\ UNCHANGED <<tables, tick>>

\* What a preview shows is what its package answers now, nothing if another
\* request has deleted it.
Evaluate(e) ==
  /\ InPc(e, "evaluate")
  /\ edit' = [edit EXCEPT ![e].pc = "shown", ![e].got = temp[edit[e].at]]
  /\ UNCHANGED <<tables, temp, tick>>

\* The module is deleted, or that fails and it stays.
Clear(e) ==
  /\ InPc(e, "clear") \/ InPc(e, "shown")
  /\ temp' = [temp EXCEPT ![edit[e].at] = None] \/ UNCHANGED temp
  /\ End(e)
  /\ UNCHANGED <<tables, tick>>

Save(e) ==
  /\ InPc(e, "save")
  /\ SavePolicy(edit[e].id, edit[e].spec)
  /\ End(e)
  /\ UNCHANGED <<temp, tick>>

PatchTags(e) ==
  /\ InPc(e, "tags")
  /\ UpdatePolicyTags(edit[e].id, edit[e].tags)
  /\ End(e)
  /\ UNCHANGED <<temp, tick>>

\* The process dies, or the transaction fails and rolls back.
Fails(e) ==
  /\ edit[e] # None
  /\ End(e)
  /\ UNCHANGED <<tables, temp, tick>>

Tick ==
  /\ tick < MaxTick
  /\ tick' = tick + 1
  /\ UNCHANGED <<tables, edit, temp>>

PolicyNext ==
  \/ \E e \in Editors : StartSave(e) \/ Probe(e) \/ Save(e) \/ StartTags(e) \/ PatchTags(e) \/ Fails(e)
  \/ \E i \in Ids, locked \in BOOLEAN : Lock(i, locked)
  \/ \E i \in Seeded, s \in Specs \ BadSpecs : Seed(i, s)

PreviewNext ==
  \/ \E e \in Editors : StartPreview(e) \/ Put(e) \/ Evaluate(e) \/ Clear(e) \/ Fails(e)
  \/ Tick

Next == PolicyNext \/ PreviewNext

Spec == Init /\ [][Next]_psVars

-----------------------------------------------------------------------------
(* The tables, the requests and OPA's modules keep their shape.            *)
TypeOK ==
  /\ policies \in [Ids -> {None} \cup PolicyRows]
  /\ \A i \in Ids : policies[i] # None => policies[i].version \in 1..MaxVersion
  /\ \A i \in Ids : versions[i] \subseteq
       [version : 1..MaxVersion, content : Specs, locked : BOOLEAN]
  /\ temp \in [0..MaxTick -> Specs \cup {None}]
  /\ tick \in 0..MaxTick
  /\ \A e \in Editors : edit[e] # None =>
       edit[e].pc \in {"probe", "save", "tags"} \cup Previewing

(* The history of a policy is its last HistoryMax versions without a gap,  *)
(* and the newest is the policy as it stands; a template nobody touched    *)
(* has none.  Saves, locks, first edits of a template and the trim all     *)
(* write it (savePolicyTx, setPolicyLockedTx, bulkSeed).                   *)
HistoryFollows ==
  \A i \in Ids : policies[i] # None =>
    LET v == policies[i].version
        oldest == IF v > HistoryMax THEN v - HistoryMax + 1 ELSE 1 IN
    \/ i \in Seeded /\ v = 1 /\ versions[i] = {}
    \/ /\ {r.version : r \in versions[i]} = oldest..v
       /\ Cardinality(versions[i]) = v - oldest + 1
       /\ Snapshot(policies[i]) \in versions[i]

(* What a policy says changes only while it is unlocked, one version at a  *)
(* time, however long ago the edit that lands was begun: the lock is       *)
(* looked at where the row is written, and not before the probe in OPA.    *)
FrozenStep ==
  \A i \in Ids : policies[i] # None =>
    /\ policies'[i] # None
    /\ policies'[i].content # policies[i].content =>
         ~policies[i].locked /\ policies'[i].version = policies[i].version + 1
    /\ policies'[i].locked # policies[i].locked =>
         policies'[i].version = policies[i].version + 1
LockedIsFrozen == [][FrozenStep]_psVars

(* A preview shows the policy it was asked to, unless another one was      *)
(* begun in the same millisecond: only then do two share a module id.      *)
PreviewIsOwn ==
  \A e \in Editors : InPc(e, "shown") => edit[e].got = edit[e].spec \/ edit[e].shared
=============================================================================
