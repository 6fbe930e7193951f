------------------------- MODULE BundleCacheProofs -------------------------
(***************************************************************************)
(* The bundles of any number of organisations, policies, callers, requests *)
(* and OPA replicas: their type, that a cached bundle of an organisation   *)
(* is made of the committed rows, and that no replica goes back.           *)
(***************************************************************************)
EXTENDS BundleCache, TLAPS

-----------------------------------------------------------------------------
(* Types.                                                                  *)

RowsOf(s) ==
  IF s = "policies" THEN [Policies -> PolicyRow]
  ELSE IF s = "callers" THEN [Callers -> CallerRow]
  ELSE SUBSET (Callers \X Policies)

ReadState ==
  [policies : SnapshotOf([Policies -> PolicyRow]),
   callers : SnapshotOf([Callers -> CallerRow]),
   grants : SnapshotOf(SUBSET (Callers \X Policies))]

LEMMA StartedTyped == ASSUME NEW k \in Keys PROVE Started(k) \in BuildState /\ Started(k) # None
<1>1. Started(k) \in BuildState
  BY DEF Started, BuildState, SnapshotOf, Sources
<1> QED BY <1>1, NoneAssumption

LEMMA ReadTyped ==
  ASSUME TypeOK, NEW f \in BuildState, NEW s \in Sources
  PROVE  [f EXCEPT !.read[s] = [rows |-> tables[s], at |-> revs[s]]] \in BuildState
<1>1. f.read \in ReadState
  BY DEF ReadState, BuildState
<1>2. [f.read EXCEPT ![s] = [rows |-> tables[s], at |-> revs[s]]] \in ReadState
  BY <1>1 DEF ReadState, SnapshotOf, Sources, TypeOK, Tables
<1> QED BY <1>2 DEF ReadState, BuildState

LEMMA TableTyped ==
  ASSUME NEW t \in Tables, NEW s \in Sources, NEW rows \in RowsOf(s)
  PROVE  [t EXCEPT ![s] = rows] \in Tables
BY DEF Tables, Sources, RowsOf

LEMMA DocumentsTyped ==
  ASSUME NEW k \in Keys, NEW t \in Tables
  PROVE  Documents(k, t) \in
           [modules : SUBSET (Policies \X Regos), callers : SUBSET Callers,
            access : SUBSET (Callers \X Policies)]
<1>1. \A p \in Policies : t.policies[p].rego \in Regos \cup {NoRego}
  BY DEF Tables, PolicyRow
<1>2. {<<p, t.policies[p].rego>> : p \in Served(k, t)} \subseteq Policies \X Regos
  BY <1>1 DEF Served
<1>3. ActiveCallers(k, t) \subseteq Callers /\ Served(k, t) \subseteq Policies
  BY DEF ActiveCallers, Served
<1>4. t.grants \subseteq Callers \X Policies
  BY DEF Tables
<1>5. Access(k, t) \subseteq Callers \X Policies
  BY <1>3, <1>4 DEF Access
<1> QED BY <1>2, <1>3, <1>5 DEF Documents

\* What a build has read, once it has read all of it.
Snapshot(snap) ==
  [policies |-> snap["policies"].rows, callers |-> snap["callers"].rows,
   grants |-> snap["grants"].rows]

LEMMA SnapshotTyped ==
  ASSUME TypeOK, NEW b \in Builds, AllRead(b)
  PROVE  /\ build[b] \in BuildState
         /\ Snapshot(build[b].read) \in Tables
         /\ [s \in Sources |-> build[b].read[s].at] \in [Sources -> 0..MaxWrites]
<1>1. build[b] \in BuildState
  BY DEF TypeOK, AllRead, Running
<1>2. /\ build[b].read["policies"] \in [rows : [Policies -> PolicyRow], at : 0..MaxWrites]
      /\ build[b].read["callers"] \in [rows : [Callers -> CallerRow], at : 0..MaxWrites]
      /\ build[b].read["grants"] \in [rows : SUBSET (Callers \X Policies), at : 0..MaxWrites]
  BY <1>1 DEF AllRead, BuildState, SnapshotOf, Sources
<1> QED BY <1>1, <1>2 DEF Snapshot, Tables, Sources

LEMMA BundleTyped ==
  ASSUME TypeOK, NEW b \in Builds, AllRead(b)
  PROVE  LET bundle == Bundle(build[b].key, build[b].read) IN
         /\ bundle \in Bundles /\ bundle # None
         /\ bundle.docs = Documents(build[b].key, Snapshot(build[b].read))
         /\ \A s \in Sources : bundle.at[s] = build[b].read[s].at
<1> DEFINE k == build[b].key
           bundle == Bundle(k, build[b].read)
<1>1. k \in Keys /\ Snapshot(build[b].read) \in Tables
      /\ [s \in Sources |-> build[b].read[s].at] \in [Sources -> 0..MaxWrites]
  BY SnapshotTyped DEF BuildState
<1>2. bundle = [docs |-> Documents(k, Snapshot(build[b].read)),
                at |-> [s \in Sources |-> build[b].read[s].at]]
  BY DEF Bundle, Snapshot
<1>3. bundle \in Bundles
  BY <1>1, <1>2, DocumentsTyped DEF Bundles
<1> QED BY <1>2, <1>3, NoneAssumption

LEMMA InitTyped == Init => TypeOK
<1> SUFFICES ASSUME Init PROVE TypeOK
  OBVIOUS
<1>1. tables \in Tables
  <2>1. PICK stored \in SUBSET (Policies \cup Callers) :
          tables =
            [policies |-> [p \in Policies |->
                             [rego |-> IF p \in stored THEN CHOOSE r \in Regos : TRUE ELSE NoRego,
                              locked |-> FALSE, tagged |-> FALSE]],
             callers |-> [c \in Callers |->
                            [status |-> IF c \in stored THEN "active" ELSE "absent",
                             scoped |-> FALSE]],
             grants |-> {}]
    BY DEF Init
  <2>2. (CHOOSE r \in Regos : TRUE) \in Regos
    BY BundleAssumption
  <2>3. tables.policies \in [Policies -> PolicyRow]
    BY <2>1, <2>2 DEF PolicyRow
  <2>4. tables.callers \in [Callers -> CallerRow] /\ tables.grants = {}
    BY <2>1 DEF CallerRow
  <2> QED BY <2>1, <2>3, <2>4 DEF Tables
<1>2. build \in [Builds -> BuildState \cup {None}]
  <2>1. Null \in Keys
    BY DEF Keys
  <2> QED BY <2>1, StartedTyped DEF Init, Startup
<1>3. 0 \in 0..MaxWrites /\ 0 \in 0..MaxFaults
  BY BundleAssumption
<1> QED BY <1>1, <1>2, <1>3 DEF Init, TypeOK

\* A transaction of h that writes one table.
LEMMA CommitTyped ==
  ASSUME TypeOK, NEW h \in Handlers, NEW s \in Sources, NEW rows \in RowsOf(s),
         NEW next \in Jobs \cup {None}, Commit(h, s, rows, next)
  PROVE  TypeOK'
<1>1. tables' \in Tables
  BY TableTyped DEF Commit, TypeOK
<1>2. revs' \in [Sources -> 0..MaxWrites]
  BY BundleAssumption DEF Commit, TypeOK, WritesLeft, Sources
<1>3. job' \in [Handlers -> Jobs \cup {None}]
  BY DEF Commit, TypeOK
<1> QED BY <1>1, <1>2, <1>3 DEF Commit, TypeOK, Running

LEMMA JobsTyped ==
  /\ \A org \in Keys : Publishes(org) \in Jobs /\ [do |-> "reload", org |-> org] \in Jobs
  /\ \A x \in Policies \cup Callers : OrgOf[x] \in Keys
  /\ Null \in Keys
BY BundleAssumption DEF Publishes, Jobs, Keys

LEMMA MutateTyped ==
  ASSUME TypeOK, NEW h \in Handlers, Mutate(h)
  PROVE  TypeOK'
<1> USE JobsTyped
<1>0. /\ tables.policies \in [Policies -> PolicyRow] /\ tables.callers \in [Callers -> CallerRow]
      /\ tables.grants \in SUBSET (Callers \X Policies)
  BY DEF TypeOK, Tables
<1>1. ASSUME NEW p \in Policies, SavePolicy(h, p) PROVE TypeOK'
  <2>1. PICK r \in Regos : Commit(h, "policies", [tables.policies EXCEPT ![p].rego = r],
                                  [do |-> "reload", org |-> OrgOf[p]])
    BY <1>1 DEF SavePolicy
  <2>2. [tables.policies EXCEPT ![p].rego = r] \in RowsOf("policies")
    BY <1>0 DEF RowsOf, PolicyRow
  <2> QED BY <2>1, <2>2, CommitTyped DEF Sources
<1>2. ASSUME NEW p \in Policies, SetLocked(h, p) PROVE TypeOK'
  <2>1. [tables.policies EXCEPT ![p].locked = ~@] \in RowsOf("policies")
    BY <1>0 DEF RowsOf, PolicyRow
  <2> QED BY <1>2, <2>1, CommitTyped DEF Sources, SetLocked
<1>3. ASSUME NEW p \in Policies, UpdateTags(h, p) PROVE TypeOK'
  <2>1. \A tagged \in BOOLEAN :
          [tables.policies EXCEPT ![p].tagged = tagged] \in RowsOf("policies")
    BY <1>0 DEF RowsOf, PolicyRow
  <2> QED BY <1>3, <2>1, CommitTyped DEF Sources, UpdateTags
<1>4. ASSUME NEW c \in Callers, CreateCaller(h, c) \/ RevokeCaller(h, c) PROVE TypeOK'
  <2>1. [tables.callers EXCEPT ![c] = [status |-> "active", scoped |-> FALSE]]
          \in RowsOf("callers")
    BY <1>0 DEF RowsOf, CallerRow
  <2>2. [tables.callers EXCEPT ![c].status = "revoked"] \in RowsOf("callers")
    BY <1>0 DEF RowsOf, CallerRow
  <2> QED BY <1>4, <2>1, <2>2, CommitTyped DEF Sources, CreateCaller, RevokeCaller
<1>5. ASSUME NEW c \in Callers, DeleteCaller(h, c) PROVE TypeOK'
  <2>1. tables' \in Tables
    BY <1>5 DEF DeleteCaller, TypeOK, Tables, CallerRow
  <2>2. revs' \in [Sources -> 0..MaxWrites]
    BY <1>5, BundleAssumption DEF DeleteCaller, TypeOK, WritesLeft, Sources
  <2>3. job' \in [Handlers -> Jobs \cup {None}]
    BY <1>5 DEF DeleteCaller, TypeOK
  <2> QED BY <1>5, <2>1, <2>2, <2>3 DEF DeleteCaller, TypeOK, Running
<1>6. ASSUME NEW next \in Jobs \cup {None}, job' = [job EXCEPT ![h] = next],
             UNCHANGED <<tables, cache, build, building, poll, active, excused, revs, faults>>
      PROVE  TypeOK'
  BY <1>6 DEF TypeOK, Running
<1>7. ASSUME NEW c \in Callers, CheckScopeTags(h, c) PROVE TypeOK'
  <2>1. \A scoped \in BOOLEAN : [do |-> "scope", caller |-> c, scoped |-> scoped] \in Jobs
    BY DEF Jobs
  <2> QED BY <1>6, <1>7, <2>1 DEF CheckScopeTags, Validate
<1>8. ASSUME NEW c \in Callers, NEW p \in Policies,
             CheckGrant(h, c, p) \/ CheckRevokeGrant(h, c, p)
      PROVE  TypeOK'
  <2>1. /\ [do |-> "grant", caller |-> c, policy |-> p] \in Jobs
        /\ [do |-> "ungrant", caller |-> c, policy |-> p] \in Jobs
    BY DEF Jobs
  <2> QED BY <1>6, <1>8, <2>1 DEF CheckGrant, CheckRevokeGrant, Validate
<1>9. CASE Grant(h) \/ RevokeGrant(h)
  <2>1. job[h].caller \in Callers /\ job[h].policy \in Policies
    BY <1>9 DEF Grant, RevokeGrant, Doing, TypeOK, Jobs
  <2>2. /\ tables.grants \cup {<<job[h].caller, job[h].policy>>} \in RowsOf("grants")
        /\ tables.grants \ {<<job[h].caller, job[h].policy>>} \in RowsOf("grants")
    BY <1>0, <2>1 DEF RowsOf
  <2> QED BY <1>9, <2>2, CommitTyped DEF Sources, Grant, RevokeGrant
<1>10. CASE GrantRefused(h)
  BY <1>6, <1>10 DEF GrantRefused
<1>11. CASE UpdateScopeTags(h)
  <2>1. job[h].caller \in Callers /\ job[h].scoped \in BOOLEAN
    BY <1>11 DEF UpdateScopeTags, Doing, TypeOK, Jobs
  <2>2. [tables.callers EXCEPT ![job[h].caller].scoped =
           job[h].scoped /\ Status(job[h].caller) # "absent"] \in RowsOf("callers")
    BY <1>0, <2>1 DEF RowsOf, CallerRow
  <2> QED BY <1>11, <2>2, CommitTyped DEF Sources, UpdateScopeTags
<1> QED BY <1>1, <1>2, <1>3, <1>4, <1>5, <1>7, <1>8, <1>9, <1>10, <1>11 DEF Mutate

LEMMA OvertakenTyped ==
  ASSUME NEW R, NEW f \in [key : Keys, read : R, overtaken : BOOLEAN]
  PROVE  /\ [f EXCEPT !.overtaken = TRUE] \in [key : Keys, read : R, overtaken : BOOLEAN]
         /\ [f EXCEPT !.overtaken = TRUE].key = f.key
         /\ [f EXCEPT !.overtaken = TRUE].read = f.read
         /\ [f EXCEPT !.overtaken = TRUE].overtaken = TRUE
OBVIOUS

LEMMA OvertakeKeeps ==
  ASSUME TypeOK, NEW keys, build' = Overtake(keys)
  PROVE  /\ build' \in [Builds -> BuildState \cup {None}]
         /\ \A b \in Builds : build'[b] # None <=> build[b] # None
         /\ \A b \in Builds : build[b] # None =>
              /\ build'[b].key = build[b].key /\ build'[b].read = build[b].read
              /\ ~build'[b].overtaken => ~build[b].overtaken /\ build[b].key \notin keys
<1>1. BuildState = [key : Keys, read : ReadState, overtaken : BOOLEAN]
  BY DEF BuildState, ReadState
<1>2. build \in [Builds -> BuildState \cup {None}]
  BY DEF TypeOK
<1>3. ASSUME NEW b \in Builds, build[b] # None
      PROVE  LET over == [build[b] EXCEPT !.overtaken = TRUE] IN
             /\ over \in BuildState /\ over # None /\ build[b].overtaken \in BOOLEAN
             /\ over.key = build[b].key /\ over.read = build[b].read /\ over.overtaken = TRUE
  <2>1. build[b] \in [key : Keys, read : ReadState, overtaken : BOOLEAN]
    BY <1>1, <1>2, <1>3
  <2> QED BY <1>1, <2>1, OvertakenTyped, NoneAssumption
<1>4. \A b \in Builds :
        build'[b] = IF build[b] # None /\ build[b].key \in keys
                    THEN [build[b] EXCEPT !.overtaken = TRUE] ELSE build[b]
  BY DEF Overtake, Running
<1>5. build' \in [Builds -> BuildState \cup {None}]
  BY <1>2, <1>3 DEF Overtake, Running
<1> QED BY <1>3, <1>4, <1>5

LEMMA PublishTyped ==
  ASSUME TypeOK, NEW h \in Handlers, Invalidate(h) \/ ReloadFails(h)
  PROVE  TypeOK'
<1> DEFINE dropped == Dropped(job[h].org)
<1>0. job[h].org \in Keys /\ dropped \subseteq Keys
  BY DEF Invalidate, ReloadFails, Doing, TypeOK, Jobs, Dropped
<1>1. build' = Overtake(dropped)
  BY DEF Invalidate, ReloadFails
<1>2. job' \in [Handlers -> Jobs \cup {None}]
  BY DEF Invalidate, ReloadFails, TypeOK
<1>3. cache' \in [Keys -> Bundles \cup {None}] /\ excused' \subseteq Keys
  BY <1>0 DEF Invalidate, ReloadFails, TypeOK
<1>4. faults' \in 0..MaxFaults
  BY BundleAssumption DEF Invalidate, ReloadFails, Fault, TypeOK
<1>5. UNCHANGED <<tables, building, poll, active, revs>>
  BY DEF Invalidate, ReloadFails
<1>6. /\ \A k \in Keys : building'[k] # None =>
           build'[building'[k]] # None /\ build'[building'[k]].key = k
      /\ \A o \in Opas : poll'[o] # None =>
           build'[poll'[o]] # None /\ build'[poll'[o]].key = KeyOf[o]
  <2>1. \A b \in Builds : build[b] # None => build'[b] # None /\ build'[b].key = build[b].key
    BY <1>1, OvertakeKeeps
  <2>2. \A k \in Keys : building[k] # None =>
          building[k] \in Builds /\ build[building[k]] # None /\ build[building[k]].key = k
    BY DEF TypeOK, Running
  <2>3. \A o \in Opas : poll[o] # None =>
          poll[o] \in Builds /\ build[poll[o]] # None /\ build[poll[o]].key = KeyOf[o]
    BY DEF TypeOK, Running
  <2> QED BY <1>5, <2>1, <2>2, <2>3
<1> QED BY <1>1, <1>2, <1>3, <1>4, <1>5, <1>6, OvertakeKeeps DEF TypeOK, Running

LEMMA BuildTyped ==
  ASSUME TypeOK, NEW b \in Builds, BuildStep(b) \/ BuildFails(b)
  PROVE  TypeOK'
<1>1. ASSUME NEW s \in Sources, Read(b, s) PROVE TypeOK'
  <2>1. build[b] \in BuildState
    BY <1>1 DEF Read, Running, TypeOK
  <2>2. [build[b] EXCEPT !.read[s] = [rows |-> tables[s], at |-> revs[s]]] \in BuildState
    BY <2>1, ReadTyped
  <2>3. build' = [build EXCEPT ![b] = [build[b] EXCEPT !.read[s] =
                                         [rows |-> tables[s], at |-> revs[s]]]]
    BY <1>1 DEF Read, TypeOK
  <2>4. build' \in [Builds -> BuildState \cup {None}]
    BY <2>2, <2>3 DEF TypeOK
  <2>5. \A c \in Builds :
          (Running(c)' <=> Running(c)) /\ (Running(c) => build'[c].key = build[c].key)
    BY <1>1, <2>1, <2>2, <2>3, NoneAssumption DEF Read, Running, TypeOK, BuildState
  <2> QED BY <1>1, <2>4, <2>5 DEF Read, TypeOK
<1>2. CASE FinishBuild(b) \/ BuildFails(b)
  <2>1. /\ build' = [build EXCEPT ![b] = None]
        /\ building' = [k \in Keys |-> IF building[k] = b THEN None ELSE building[k]]
        /\ poll' = [o \in Opas |-> IF poll[o] = b THEN None ELSE poll[o]]
        /\ UNCHANGED <<tables, job, revs>>
    BY <1>2 DEF FinishBuild, BuildFails, EndBuild, AnswerPolls
  <2>2. /\ build' \in [Builds -> BuildState \cup {None}]
        /\ building' \in [Keys -> Builds \cup {None}]
        /\ poll' \in [Opas -> Builds \cup {None}]
    BY <2>1 DEF TypeOK
  <2>3. /\ \A k \in Keys : building'[k] # None =>
             build'[building'[k]] # None /\ build'[building'[k]].key = k
        /\ \A o \in Opas : poll'[o] # None =>
           build'[poll'[o]] # None /\ build'[poll'[o]].key = KeyOf[o]
    BY <2>1 DEF TypeOK, Running
  <2>4. CASE FinishBuild(b)
    <3> DEFINE bundle == Bundle(build[b].key, build[b].read)
    <3>1. bundle \in Bundles /\ build[b].key \in Keys
      BY <2>4, BundleTyped, SnapshotTyped DEF FinishBuild, BuildState
    <3>2. /\ cache' = [cache EXCEPT ![build[b].key] = bundle]
          /\ active' = [o \in Opas |-> IF poll[o] = b THEN bundle ELSE active[o]]
          /\ excused' \in {excused \cup {build[b].key}, excused \ {build[b].key}}
          /\ UNCHANGED faults
      BY <2>4 DEF FinishBuild
    <3>3. cache' \in [Keys -> Bundles \cup {None}] /\ active' \in [Opas -> Bundles \cup {None}]
      BY <3>1, <3>2 DEF TypeOK
    <3>4. excused' \subseteq Keys
      BY <3>1, <3>2 DEF TypeOK
    <3> QED BY <2>1, <2>2, <2>3, <3>2, <3>3, <3>4 DEF TypeOK, Running
  <2>5. CASE BuildFails(b)
    <3>1. faults' \in 0..MaxFaults /\ UNCHANGED <<cache, active, excused>>
      BY <2>5, BundleAssumption DEF BuildFails, Fault, TypeOK
    <3> QED BY <2>1, <2>2, <2>3, <3>1 DEF TypeOK, Running
  <2> QED BY <1>2, <2>4, <2>5
<1> QED BY <1>1, <1>2 DEF BuildStep

LEMMA PollTyped ==
  ASSUME TypeOK, NEW o \in Opas, PollStep(o)
  PROVE  TypeOK'
<1>0. KeyOf[o] \in Keys
  BY BundleAssumption DEF Keys
<1>1. CASE PollHit(o)
  BY <1>0, <1>1 DEF PollHit, TypeOK, Running
<1>2. CASE PollMiss(o) /\ building[KeyOf[o]] # None
  BY <1>0, <1>2 DEF PollMiss, TypeOK, Running
<1>3. CASE PollMiss(o) /\ building[KeyOf[o]] = None
  <2>1. PICK b \in Builds : /\ ~Running(b)
                            /\ build' = [build EXCEPT ![b] = Started(KeyOf[o])]
                            /\ building' = [building EXCEPT ![KeyOf[o]] = b]
                            /\ poll' = [poll EXCEPT ![o] = b]
    BY <1>3 DEF PollMiss
  <2>2. Started(KeyOf[o]) \in BuildState /\ Started(KeyOf[o]) # None
        /\ Started(KeyOf[o]).key = KeyOf[o]
    BY <1>0, StartedTyped DEF Started
  <2>3. /\ build' \in [Builds -> BuildState \cup {None}]
        /\ building' \in [Keys -> Builds \cup {None}]
        /\ poll' \in [Opas -> Builds \cup {None}]
    BY <2>1, <2>2 DEF TypeOK
  <2>4. \A c \in Builds \ {b} : build'[c] = build[c]
    BY <2>1 DEF TypeOK
  <2>5. build'[b] = Started(KeyOf[o])
    BY <2>1 DEF TypeOK
  <2>6. \A k \in Keys : building'[k] # None =>
           build'[building'[k]] # None /\ build'[building'[k]].key = k
    BY <1>0, <2>1, <2>2, <2>4, <2>5 DEF TypeOK, Running
  <2>7. \A q \in Opas : poll'[q] # None =>
          build'[poll'[q]] # None /\ build'[poll'[q]].key = KeyOf[q]
    BY <1>0, <2>1, <2>2, <2>4, <2>5 DEF TypeOK, Running
  <2> QED BY <1>3, <2>3, <2>6, <2>7 DEF PollMiss, TypeOK, Running
<1> QED BY <1>1, <1>2, <1>3 DEF PollStep

LEMMA RestartTyped == ASSUME TypeOK, Restart PROVE TypeOK'
<1>1. build' \in [Builds -> BuildState \cup {None}]
  <2>1. Null \in Keys
    BY DEF Keys
  <2> QED BY <2>1, StartedTyped DEF Restart, Startup
<1>2. faults' \in 0..MaxFaults
  BY BundleAssumption DEF Restart, Fault, TypeOK
<1> QED BY <1>1, <1>2 DEF Restart, TypeOK, Running

LEMMA TypeStep == ASSUME TypeOK, [Next]_vars PROVE TypeOK'
<1>1. CASE UNCHANGED vars
  BY <1>1 DEF vars, TypeOK, Running
<1> QED
  BY <1>1, MutateTyped, PublishTyped, BuildTyped, PollTyped, RestartTyped DEF Next

\* Every variable keeps its type; a poll waits for a build in flight of its own key,
\* and _buildings holds builds in flight of the key they are filed under.
THEOREM BundleTypeCorrect == Spec => []TypeOK
BY InitTyped, TypeStep, PTL DEF Spec

-----------------------------------------------------------------------------
(* Freshness.  What a build of k has read is still what is committed, as   *)
(* far as the bundle of k shows it, unless a mutation of k published       *)
(* meanwhile or has still to publish.                                      *)

\* Two tables from which the same bundle of k is made.
SameFor(k, t, u) ==
  /\ t.callers = u.callers /\ t.grants = u.grants
  /\ \A p \in Policies : InScope(k, p) => t.policies[p] = u.policies[p]

ReadStands(k, read) ==
  /\ read["callers"] # Unread => read["callers"].rows = tables.callers
  /\ read["grants"] # Unread => read["grants"].rows = tables.grants
  /\ read["policies"] # Unread =>
       \A p \in Policies : InScope(k, p) => read["policies"].rows[p] = tables.policies[p]

CacheStands(k) == cache[k] # None /\ k \notin excused => cache[k].docs = Documents(k, tables)
BuildsStand(k) ==
  \A b \in Builds :
    build[b] # None /\ build[b].key = k /\ ~build[b].overtaken => ReadStands(k, build[b].read)

FreshInv == \A k \in Orgs : Settled(k) => CacheStands(k) /\ BuildsStand(k)

LEMMA SameDocuments ==
  ASSUME NEW k \in Keys, NEW t \in Tables, NEW u \in Tables, SameFor(k, t, u)
  PROVE  Documents(k, t) = Documents(k, u)
<1>1. \A p \in Policies : InScope(k, p) => t.policies[p] = u.policies[p]
  BY DEF SameFor
<1>2. Served(k, t) = Served(k, u)
  BY <1>1 DEF Served
<1>3. ActiveCallers(k, t) = ActiveCallers(k, u)
  BY DEF ActiveCallers, SameFor
<1>4. {<<p, t.policies[p].rego>> : p \in Served(k, t)}
        = {<<p, u.policies[p].rego>> : p \in Served(k, u)}
  BY <1>1, <1>2 DEF Served
<1>5. \A g \in Callers \X Policies : g[2] \in Served(k, t) =>
        t.policies[g[2]].tagged = u.policies[g[2]].tagged
  BY <1>1 DEF Served
<1>6. {g \in t.grants : g[2] \in Served(k, t)
                        /\ (k # Null => InScope(k, g[1]) /\ t.callers[g[1]].status # "absent")}
        = {g \in u.grants : g[2] \in Served(k, u)
                        /\ (k # Null => InScope(k, g[1]) /\ u.callers[g[1]].status # "absent")}
  BY <1>2 DEF SameFor
<1>7. {g \in ActiveCallers(k, t) \X Served(k, t) :
         t.callers[g[1]].scoped /\ t.policies[g[2]].tagged}
        = {g \in ActiveCallers(k, u) \X Served(k, u) :
         u.callers[g[1]].scoped /\ u.policies[g[2]].tagged}
  <2>1. ActiveCallers(k, t) \X Served(k, t) \subseteq Callers \X Policies
    BY DEF ActiveCallers, Served
  <2>2. t.callers = u.callers
    BY DEF SameFor
  <2>3. \A g \in ActiveCallers(k, t) \X Served(k, t) :
          g \in Callers \X Policies /\ g[2] \in Served(k, t)
    BY <2>1
  <2> QED BY <1>2, <1>3, <1>5, <2>2, <2>3
<1>8. Access(k, t) = Access(k, u)
  BY <1>6, <1>7 DEF Access
<1> QED BY <1>3, <1>4, <1>8 DEF Documents

\* A step that leaves caches and builds alone and writes only what k does not show.
LEMMA OutOfSight ==
  ASSUME TypeOK, TypeOK', NEW k \in Orgs, CacheStands(k), BuildsStand(k),
         SameFor(k, tables, tables'), UNCHANGED <<cache, build, excused>>
  PROVE  CacheStands(k)' /\ BuildsStand(k)'
<1>1. k \in Keys /\ tables \in Tables /\ tables' \in Tables
  BY DEF Keys, TypeOK
<1>2. Documents(k, tables) = Documents(k, tables')
  BY <1>1, SameDocuments
<1> QED BY <1>2 DEF CacheStands, BuildsStand, ReadStands, SameFor

\* One request goes on: either it owes k an invalidation now, or k shows nothing
\* of what it wrote.
LEMMA OneRequest ==
  ASSUME TypeOK, TypeOK', FreshInv, NEW h \in Handlers, NEW next,
         job' = [job EXCEPT ![h] = next],
         \A k \in Orgs : ~Owes(h, k),
         UNCHANGED <<cache, build, excused>>,
         \A k \in Orgs : Owes(h, k)' \/ SameFor(k, tables, tables')
  PROVE  FreshInv'
<1> SUFFICES ASSUME NEW k \in Orgs, Settled(k)' PROVE CacheStands(k)' /\ BuildsStand(k)'
  BY DEF FreshInv
<1>1. ~Owes(h, k)'
  BY DEF Settled
<1>2. \A g \in Handlers \ {h} : job'[g] = job[g]
  BY DEF TypeOK
<1>3. \A g \in Handlers \ {h} : ~Owes(g, k)
  BY <1>2 DEF Settled, Owes
<1>4. Settled(k)
  BY <1>3 DEF Settled
<1> QED BY <1>1, <1>4, OutOfSight DEF FreshInv

LEMMA PublishesOwes ==
  ASSUME TypeOK, NEW h \in Handlers, NEW org \in Keys,
         NEW do \in {"reload", "publish"}, job' = [job EXCEPT ![h] = [do |-> do, org |-> org]]
  PROVE  \A k \in Orgs : Owes(h, k)' <=> k \in Dropped(org)
<1>1. [do |-> do, org |-> org] \in Jobs
  BY DEF Jobs
<1>2. job'[h] = [do |-> do, org |-> org] /\ job'[h] # None
  BY <1>1, NoneAssumption DEF TypeOK
<1> QED BY <1>2 DEF Owes

LEMMA EveryoneDropped == \A k \in Orgs : k \in Dropped(Null)
BY DEF Dropped, Keys

\* A mutation of one policy: it will publish to the organisations that show it.
LEMMA PolicyWritten ==
  ASSUME TypeOK, TypeOK', FreshInv, NEW h \in Handlers, job[h] = None, NEW p \in Policies,
         NEW row, NEW do \in {"reload", "publish"},
         Commit(h, "policies", [tables.policies EXCEPT ![p] = row],
                [do |-> do, org |-> OrgOf[p]])
  PROVE  FreshInv'
<1>1. OrgOf[p] \in Keys
  BY JobsTyped
<1>2. job' = [job EXCEPT ![h] = [do |-> do, org |-> OrgOf[p]]]
      /\ UNCHANGED <<cache, build, excused>>
      /\ tables' = [tables EXCEPT !["policies"] = [tables.policies EXCEPT ![p] = row]]
  BY DEF Commit
<1>3. \A k \in Orgs : Owes(h, k)' <=> k \in Dropped(OrgOf[p])
  BY <1>1, <1>2, PublishesOwes
<1>4. ASSUME NEW k \in Orgs, k \notin Dropped(OrgOf[p])
      PROVE  SameFor(k, tables, tables')
  <2>1. ~InScope(k, p)
    BY <1>4, BundleAssumption DEF Dropped, InScope, Keys
  <2>2. /\ tables'.callers = tables.callers /\ tables'.grants = tables.grants
        /\ tables'.policies = [tables.policies EXCEPT ![p] = row]
    BY <1>2 DEF TypeOK, Tables
  <2>3. \A q \in Policies \ {p} : tables'.policies[q] = tables.policies[q]
    BY <2>2 DEF TypeOK, Tables
  <2> QED BY <2>1, <2>2, <2>3 DEF SameFor
<1>5. \A k \in Orgs : ~Owes(h, k)
  BY DEF Owes
<1> QED BY <1>2, <1>3, <1>4, <1>5, OneRequest

LEMMA MutateFresh ==
  ASSUME TypeOK, TypeOK', FreshInv, NEW h \in Handlers, Mutate(h)
  PROVE  FreshInv'
<1>0. tables.policies \in [Policies -> PolicyRow]
  BY DEF TypeOK, Tables
<1>1. ASSUME NEW p \in Policies, SavePolicy(h, p) \/ SetLocked(h, p) \/ UpdateTags(h, p)
      PROVE  FreshInv'
  <2>1. job[h] = None
    BY <1>1 DEF SavePolicy, SetLocked, UpdateTags
  <2>2. PICK row : \E do \in {"reload", "publish"} :
          Commit(h, "policies", [tables.policies EXCEPT ![p] = row],
                 [do |-> do, org |-> OrgOf[p]])
    <3>1. \A r : [tables.policies EXCEPT ![p].rego = r]
                   = [tables.policies EXCEPT ![p] = [tables.policies[p] EXCEPT !.rego = r]]
      BY <1>0
    <3>2. [tables.policies EXCEPT ![p].locked = ~@]
            = [tables.policies EXCEPT ![p] = [tables.policies[p] EXCEPT !.locked = ~@]]
      BY <1>0
    <3>3. \A r : [tables.policies EXCEPT ![p].tagged = r]
                   = [tables.policies EXCEPT ![p] = [tables.policies[p] EXCEPT !.tagged = r]]
      BY <1>0
    <3>4. CASE SavePolicy(h, p)
      BY <3>1, <3>4 DEF SavePolicy
    <3>5. CASE SetLocked(h, p)
      BY <3>2, <3>5 DEF SetLocked, Publishes
    <3>6. CASE UpdateTags(h, p)
      BY <3>3, <3>6 DEF UpdateTags, Publishes
    <3> QED BY <1>1, <3>4, <3>5, <3>6
  <2> QED BY <2>1, <2>2, PolicyWritten
<1>2. ASSUME ~(job[h] # None /\ job[h].do \in {"reload", "publish"}),
             job' = [job EXCEPT ![h] = Publishes(Null)], UNCHANGED <<cache, build, excused>>
      PROVE  FreshInv'
  <2>1. \A k \in Orgs : ~Owes(h, k)
    BY <1>2 DEF Owes
  <2>2. Null \in Keys
    BY DEF Keys
  <2>3. \A k \in Orgs : Owes(h, k)'
    BY <1>2, <2>2, PublishesOwes, EveryoneDropped DEF Publishes
  <2> QED BY <1>2, <2>1, <2>3, OneRequest
<1>3. ASSUME NEW next, ~(job[h] # None /\ job[h].do \in {"reload", "publish"}),
             job' = [job EXCEPT ![h] = next], UNCHANGED <<tables, cache, build, excused>>
      PROVE  FreshInv'
  <2>1. \A k \in Orgs : ~Owes(h, k)
    BY <1>3 DEF Owes
  <2>2. \A k \in Orgs : SameFor(k, tables, tables')
    BY <1>3 DEF SameFor
  <2> QED BY <1>3, <2>1, <2>2, OneRequest
<1>4. CASE \E c \in Callers : CreateCaller(h, c) \/ RevokeCaller(h, c) \/ DeleteCaller(h, c)
  BY <1>2, <1>4 DEF CreateCaller, RevokeCaller, DeleteCaller, Commit
<1>5. CASE \E c \in Callers : CheckScopeTags(h, c)
  BY <1>3, <1>5 DEF CheckScopeTags, Validate
<1>6. CASE \E c \in Callers, p \in Policies : CheckGrant(h, c, p) \/ CheckRevokeGrant(h, c, p)
  BY <1>3, <1>6 DEF CheckGrant, CheckRevokeGrant, Validate
<1>7. CASE Grant(h) \/ RevokeGrant(h) \/ UpdateScopeTags(h)
  BY <1>2, <1>7 DEF Grant, RevokeGrant, UpdateScopeTags, Commit, Doing
<1>8. CASE GrantRefused(h)
  BY <1>3, <1>8 DEF GrantRefused, Doing
<1> QED BY <1>1, <1>4, <1>5, <1>6, <1>7, <1>8 DEF Mutate

LEMMA PublishFresh ==
  ASSUME TypeOK, TypeOK', FreshInv, NEW h \in Handlers, Invalidate(h) \/ ReloadFails(h)
  PROVE  FreshInv'
<1> DEFINE dropped == Dropped(job[h].org)
<1>1. job' = [job EXCEPT ![h] = None] /\ build' = Overtake(dropped) /\ UNCHANGED tables
  BY DEF Invalidate, ReloadFails
<1> SUFFICES ASSUME NEW k \in Orgs, Settled(k)' PROVE CacheStands(k)' /\ BuildsStand(k)'
  BY DEF FreshInv
<1>2. k \in Keys
  BY DEF Keys
<1>a. \A b \in Builds : build'[b] # None /\ build'[b].key = k /\ ~build'[b].overtaken =>
        /\ build[b] # None /\ build[b].key = k /\ ~build[b].overtaken
        /\ build'[b].read = build[b].read /\ k \notin dropped
  BY <1>1, OvertakeKeeps
<1>3. CASE k \in dropped
  <2>1. CacheStands(k)'
    BY <1>2, <1>3 DEF CacheStands, Invalidate, ReloadFails, TypeOK
  <2>2. BuildsStand(k)'
    BY <1>3, <1>a DEF BuildsStand
  <2> QED BY <2>1, <2>2
<1>4. CASE k \notin dropped
  <2>1. \A g \in Handlers \ {h} : job'[g] = job[g]
    BY <1>1 DEF TypeOK
  <2>2. \A g \in Handlers : ~Owes(g, k)
    BY <1>4, <2>1 DEF Settled, Owes
  <2>3. CacheStands(k) /\ BuildsStand(k)
    BY <2>2 DEF FreshInv, Settled
  <2>4. CacheStands(k)'
    <3>1. cache'[k] = cache[k] /\ (k \in excused' <=> k \in excused)
      BY <1>2, <1>4 DEF Invalidate, ReloadFails, TypeOK
    <3> QED BY <1>1, <2>3, <3>1 DEF CacheStands
  <2>5. BuildsStand(k)'
    BY <1>1, <1>a, <2>3 DEF BuildsStand, ReadStands
  <2> QED BY <2>4, <2>5
<1> QED BY <1>3, <1>4

LEMMA ReadFresh ==
  ASSUME TypeOK, TypeOK', FreshInv, NEW b \in Builds, NEW s \in Sources, Read(b, s)
  PROVE  FreshInv'
<1> SUFFICES ASSUME NEW k \in Orgs, Settled(k)' PROVE CacheStands(k)' /\ BuildsStand(k)'
  BY DEF FreshInv
<1> DEFINE now == [rows |-> tables[s], at |-> revs[s]]
<1>1. UNCHANGED <<tables, cache, job, excused>>
  BY DEF Read
<1>2. Settled(k)
  BY <1>1 DEF Settled, Owes
<1>3. CacheStands(k) /\ BuildsStand(k)
  BY <1>2 DEF FreshInv
<1>4. build[b] # None /\ build[b] \in BuildState
  BY DEF Read, Running, TypeOK
<1>5. /\ build'[b].key = build[b].key /\ build'[b].overtaken = build[b].overtaken
      /\ build'[b].read[s] = now
      /\ \A r \in Sources \ {s} : build'[b].read[r] = build[b].read[r]
  BY <1>4 DEF Read, TypeOK, BuildState, Sources
<1>6. \A c \in Builds \ {b} : build'[c] = build[c]
  BY DEF Read, TypeOK
<1>7. tables["policies"] = tables.policies /\ tables["callers"] = tables.callers
      /\ tables["grants"] = tables.grants
  OBVIOUS
<1>8. ASSUME build[b].key = k, ~build[b].overtaken PROVE ReadStands(k, build'[b].read)
  <2>1. ReadStands(k, build[b].read)
    BY <1>3, <1>4, <1>8 DEF BuildsStand
  <2>2. s \in {"policies", "callers", "grants"} /\ now.rows = tables[s]
    BY DEF Sources
  <2> QED BY <1>5, <1>7, <2>1, <2>2 DEF ReadStands, Sources
<1>9. BuildsStand(k)'
  <2>1. \A c \in Builds : build'[c] # None /\ build'[c].key = k /\ ~build'[c].overtaken =>
           ReadStands(k, build'[c].read)
    BY <1>3, <1>5, <1>6, <1>8 DEF BuildsStand
  <2> QED BY <1>1, <2>1 DEF BuildsStand, ReadStands
<1> QED BY <1>1, <1>3, <1>9 DEF CacheStands

LEMMA EndFresh ==
  ASSUME TypeOK, TypeOK', FreshInv, NEW b \in Builds, FinishBuild(b) \/ BuildFails(b)
  PROVE  FreshInv'
<1> SUFFICES ASSUME NEW k \in Orgs, Settled(k)' PROVE CacheStands(k)' /\ BuildsStand(k)'
  BY DEF FreshInv
<1>1. UNCHANGED <<tables, job>> /\ build' = [build EXCEPT ![b] = None]
  BY DEF FinishBuild, BuildFails, EndBuild
<1>2. Settled(k)
  BY <1>1 DEF Settled, Owes
<1>3. CacheStands(k) /\ BuildsStand(k)
  BY <1>2 DEF FreshInv
<1>4. BuildsStand(k)'
  BY <1>1, <1>3 DEF BuildsStand, ReadStands, TypeOK
<1>5. CASE BuildFails(b)
  BY <1>1, <1>3, <1>4, <1>5 DEF BuildFails, CacheStands
<1>6. CASE FinishBuild(b)
  <2> DEFINE key == build[b].key
             bundle == Bundle(key, build[b].read)
  <2>1. /\ AllRead(b) /\ cache' = [cache EXCEPT ![key] = bundle]
        /\ excused' = IF build[b].overtaken THEN excused \cup {key} ELSE excused \ {key}
    BY <1>6 DEF FinishBuild
  <2>2. key \in Keys /\ k \in Keys
    BY <2>1, SnapshotTyped DEF BuildState, Keys
  <2>3. CASE k # key
    <3>1. cache'[k] = cache[k] /\ (k \in excused' <=> k \in excused)
      BY <2>1, <2>2, <2>3 DEF TypeOK
    <3> QED BY <1>1, <1>3, <1>4, <3>1 DEF CacheStands
  <2>4. CASE k = key /\ build[b].overtaken
    BY <1>4, <2>1, <2>4 DEF CacheStands
  <2>5. CASE k = key /\ ~build[b].overtaken
    <3>1. ReadStands(k, build[b].read)
      BY <1>3, <2>1, <2>5 DEF BuildsStand, AllRead, Running
    <3>2. SameFor(k, Snapshot(build[b].read), tables)
      BY <2>1, <3>1 DEF ReadStands, SameFor, Snapshot, AllRead, Sources
    <3>3. Documents(k, Snapshot(build[b].read)) = Documents(k, tables)
      BY <2>1, <2>2, <3>2, SameDocuments, SnapshotTyped DEF TypeOK
    <3>4. cache'[k] = bundle /\ bundle.docs = Documents(k, Snapshot(build[b].read))
      BY <2>1, <2>2, <2>5, BundleTyped DEF TypeOK
    <3> QED BY <1>1, <1>4, <3>3, <3>4 DEF CacheStands
  <2> QED BY <2>3, <2>4, <2>5
<1> QED BY <1>5, <1>6

LEMMA StartFresh ==
  ASSUME NEW k \in Orgs, NEW key
  PROVE  ReadStands(k, Started(key).read)
BY DEF ReadStands, Started, Sources

LEMMA PollFresh ==
  ASSUME TypeOK, FreshInv, NEW o \in Opas, PollStep(o)
  PROVE  FreshInv'
<1> SUFFICES ASSUME NEW k \in Orgs, Settled(k)' PROVE CacheStands(k)' /\ BuildsStand(k)'
  BY DEF FreshInv
<1>1. UNCHANGED <<tables, cache, job, excused>>
  BY DEF PollStep, PollHit, PollMiss
<1>2. Settled(k)
  BY <1>1 DEF Settled, Owes
<1>3. CacheStands(k) /\ BuildsStand(k)
  BY <1>2 DEF FreshInv
<1>4. UNCHANGED build \/ \E b \in Builds : build' = [build EXCEPT ![b] = Started(KeyOf[o])]
  BY DEF PollStep, PollHit, PollMiss
<1>5. \A b \in Builds : build'[b] = build[b] \/ build'[b] = Started(KeyOf[o])
  BY <1>4 DEF TypeOK
<1>6. BuildsStand(k)'
  <2>1. \A b \in Builds : build'[b] # None /\ build'[b].key = k /\ ~build'[b].overtaken =>
           ReadStands(k, build'[b].read)
    BY <1>3, <1>5, StartFresh DEF BuildsStand
  <2> QED BY <1>1, <2>1 DEF BuildsStand, ReadStands
<1> QED BY <1>1, <1>3, <1>6 DEF CacheStands

\* Nothing is cached and nothing read: at the start, and after a restart.
LEMMA AllStarted ==
  ASSUME cache = [k \in Keys |-> None], Startup(build)
  PROVE  FreshInv
<1>1. \A b \in Builds : build[b] # None => build[b] = Started(Null)
  BY DEF Startup
<1>2. \A k \in Orgs : k \in Keys
  BY DEF Keys
<1> QED BY <1>1, <1>2, StartFresh DEF FreshInv, CacheStands, BuildsStand

LEMMA RestartFresh == ASSUME Restart PROVE FreshInv'
<1>1. \A b \in Builds : build'[b] # None => build'[b] = Started(Null)
  BY DEF Restart, Startup
<1>2. \A k \in Orgs : cache'[k] = None
  BY DEF Restart, Keys
<1>3. \A k \in Orgs : Started(Null).key # k
  BY BundleAssumption DEF Started
<1> QED BY <1>1, <1>2, <1>3 DEF FreshInv, CacheStands, BuildsStand

LEMMA FreshStep == ASSUME TypeOK, FreshInv, [Next]_vars PROVE FreshInv'
<1>0. TypeOK'
  BY TypeStep
<1>1. CASE UNCHANGED vars
  BY <1>1 DEF vars, FreshInv, CacheStands, BuildsStand, ReadStands, Settled, Owes
<1> QED
  BY <1>0, <1>1, MutateFresh, PublishFresh, ReadFresh, EndFresh, PollFresh, RestartFresh
  DEF Next, BuildStep

\* Once every mutation that shows in the bundle of an organisation has published, its
\* cached bundle is made of the committed tables, unless one published while the bundle
\* was being built or failed before it could: a mutation of one organisation may leave
\* the bundles of the others cached.
THEOREM BundleOrgBundlesFresh == Spec => []OrgBundlesFresh
<1>1. Init => FreshInv
  BY AllStarted DEF Init
<1>2. TypeOK /\ FreshInv /\ [Next]_vars => FreshInv'
  BY FreshStep
<1>3. FreshInv => OrgBundlesFresh
  BY DEF FreshInv, CacheStands, OrgBundlesFresh, Fresh
<1> QED BY <1>1, <1>2, <1>3, BundleTypeCorrect, PTL DEF Spec

-----------------------------------------------------------------------------
(* No way back.  One build of an organisation's key at a time, with        *)
(* nothing cached meanwhile; what a replica runs is not newer than what    *)
(* the cache holds or the build reads.                                     *)

OneBuild ==
  \A b \in Builds : build[b] # None /\ build[b].key \in Orgs =>
    building[build[b].key] = b /\ cache[build[b].key] = None

CacheDated == \A k \in Orgs, s \in Sources : cache[k] # None => cache[k].at[s] <= revs[s]

ReadsDated ==
  \A b \in Builds, s \in Sources :
    build[b] # None /\ build[b].key \in Orgs /\ build[b].read[s] # Unread =>
      /\ build[b].read[s].at <= revs[s]
      /\ \A o \in Opas : KeyOf[o] = build[b].key /\ active[o] # None =>
           active[o].at[s] <= build[b].read[s].at

ActiveDated ==
  \A o \in Opas, s \in Sources : KeyOf[o] \in Orgs /\ active[o] # None =>
    /\ active[o].at[s] <= revs[s]
    /\ cache[KeyOf[o]] # None => active[o].at[s] <= cache[KeyOf[o]].at[s]

AdvanceInv == TypeOK /\ OneBuild /\ CacheDated /\ ReadsDated /\ ActiveDated

NoWayBack ==
  \A o \in Opas :
    KeyOf[o] \in Orgs /\ active[o] # None =>
      active'[o] # None /\ \A s \in Sources : active[o].at[s] <= active'[o].at[s]

LEMMA DatesTyped ==
  ASSUME TypeOK
  PROVE  /\ \A s \in Sources : revs[s] \in Nat
         /\ \A k \in Orgs, s \in Sources : cache[k] # None => cache[k].at[s] \in Nat
         /\ \A o \in Opas, s \in Sources : active[o] # None => active[o].at[s] \in Nat
<1>1. 0..MaxWrites \subseteq Nat
  BY BundleAssumption
<1>2. \A k \in Orgs : k \in Keys
  BY DEF Keys
<1>3. \A bundle \in Bundles, s \in Sources : bundle.at[s] \in Nat
  BY <1>1 DEF Bundles
<1> QED BY <1>1, <1>2, <1>3 DEF TypeOK

\* What replicas run does not change: nothing goes back.
LEMMA Unmoved == ASSUME TypeOK, UNCHANGED active PROVE NoWayBack
BY DatesTyped DEF NoWayBack

LEMMA MutateAdvances ==
  ASSUME AdvanceInv, TypeOK', NEW h \in Handlers, Mutate(h)
  PROVE  AdvanceInv' /\ NoWayBack
<1>1. UNCHANGED <<cache, build, building, active>>
  BY DEF Mutate, SavePolicy, SetLocked, UpdateTags, CreateCaller, RevokeCaller, DeleteCaller,
     CheckScopeTags, CheckGrant, CheckRevokeGrant, Grant, GrantRefused, RevokeGrant,
     UpdateScopeTags, Commit, Validate
<1>2. \A s \in Sources : revs[s] \in Nat /\ revs'[s] \in Nat /\ revs[s] <= revs'[s]
  <2>1. \A s \in Sources : revs[s] \in Nat /\ revs'[s] \in Nat
    BY BundleAssumption DEF AdvanceInv, TypeOK
  <2>2. \/ UNCHANGED revs
        \/ \E s \in Sources : revs' = [revs EXCEPT ![s] = @ + 1]
        \/ revs' = [revs EXCEPT !["callers"] = @ + 1, !["grants"] = @ + 1]
    BY DEF Mutate, SavePolicy, SetLocked, UpdateTags, CreateCaller, RevokeCaller, DeleteCaller,
       CheckScopeTags, CheckGrant, CheckRevokeGrant, Grant, GrantRefused, RevokeGrant,
       UpdateScopeTags, Commit, Validate, Sources
  <2> QED BY <2>1, <2>2 DEF AdvanceInv, TypeOK, Sources
<1>3. OneBuild' /\ NoWayBack
  BY <1>1, Unmoved DEF AdvanceInv, OneBuild
<1>4. CacheDated'
  BY <1>1, <1>2, DatesTyped DEF AdvanceInv, CacheDated
<1>5. ActiveDated'
  BY <1>1, <1>2, DatesTyped DEF AdvanceInv, ActiveDated
<1>6. ReadsDated'
  <2> SUFFICES ASSUME NEW b \in Builds, NEW s \in Sources, build[b] # None,
                      build[b].key \in Orgs, build[b].read[s] # Unread
               PROVE  build[b].read[s].at <= revs'[s]
    BY <1>1 DEF AdvanceInv, ReadsDated
  <2>1. build[b].read[s].at \in Nat
    <3>1. build[b].read \in ReadState
      BY DEF AdvanceInv, TypeOK, BuildState, ReadState
    <3> QED BY <3>1, BundleAssumption DEF ReadState, SnapshotOf, Sources
  <2>2. build[b].read[s].at <= revs[s]
    BY DEF AdvanceInv, ReadsDated
  <2> QED BY <1>2, <2>1, <2>2
<1> QED BY <1>3, <1>4, <1>5, <1>6 DEF AdvanceInv

LEMMA PublishAdvances ==
  ASSUME AdvanceInv, TypeOK', NEW h \in Handlers, Invalidate(h) \/ ReloadFails(h)
  PROVE  AdvanceInv' /\ NoWayBack
<1> DEFINE dropped == Dropped(job[h].org)
<1>1. build' = Overtake(dropped) /\ UNCHANGED <<building, active, revs>>
  BY DEF Invalidate, ReloadFails
<1>2. \A k \in Orgs : cache'[k] = None \/ cache'[k] = cache[k]
  BY DEF Invalidate, ReloadFails, Keys
<1>3. \A b \in Builds : build'[b] # None =>
        build[b] # None /\ build'[b].key = build[b].key /\ build'[b].read = build[b].read
  BY <1>1, OvertakeKeeps DEF AdvanceInv
<1>4. OneBuild'
  BY <1>1, <1>2, <1>3 DEF AdvanceInv, OneBuild
<1>5. CacheDated' /\ ActiveDated'
  BY <1>1, <1>2 DEF AdvanceInv, CacheDated, ActiveDated
<1>6. ReadsDated'
  BY <1>1, <1>3 DEF AdvanceInv, ReadsDated
<1> QED BY <1>1, <1>4, <1>5, <1>6, Unmoved DEF AdvanceInv

LEMMA ReadAdvances ==
  ASSUME AdvanceInv, TypeOK', NEW b \in Builds, NEW s \in Sources, Read(b, s)
  PROVE  AdvanceInv' /\ NoWayBack
<1> DEFINE now == [rows |-> tables[s], at |-> revs[s]]
<1>1. UNCHANGED <<cache, building, active, revs>>
  BY DEF Read
<1>2. build[b] # None /\ build[b] \in BuildState
  BY DEF Read, Running, AdvanceInv, TypeOK
<1>3. /\ build'[b].key = build[b].key /\ build'[b].read[s] = now
      /\ \A r \in Sources \ {s} : build'[b].read[r] = build[b].read[r]
  BY <1>2 DEF Read, AdvanceInv, TypeOK, BuildState, Sources
<1>4. \A c \in Builds \ {b} : build'[c] = build[c]
  BY DEF Read, AdvanceInv, TypeOK
<1>5. OneBuild'
  BY <1>1, <1>2, <1>3, <1>4 DEF AdvanceInv, OneBuild
<1>6. CacheDated' /\ ActiveDated'
  BY <1>1 DEF AdvanceInv, CacheDated, ActiveDated
<1>7. ReadsDated'
  <2> SUFFICES ASSUME NEW c \in Builds, NEW r \in Sources, build'[c] # None,
                      build'[c].key \in Orgs, build'[c].read[r] # Unread
               PROVE  /\ build'[c].read[r].at <= revs[r]
                      /\ \A o \in Opas : KeyOf[o] = build'[c].key /\ active[o] # None =>
                           active[o].at[r] <= build'[c].read[r].at
    BY <1>1 DEF ReadsDated
  <2>1. CASE c = b /\ r = s
    BY <1>3, <2>1, DatesTyped DEF AdvanceInv, ActiveDated
  <2>2. CASE c # b \/ r # s
    BY <1>2, <1>3, <1>4, <2>2 DEF AdvanceInv, ReadsDated
  <2> QED BY <2>1, <2>2
<1> QED BY <1>1, <1>5, <1>6, <1>7, Unmoved DEF AdvanceInv

LEMMA FailureAdvances ==
  ASSUME AdvanceInv, TypeOK', NEW b \in Builds, BuildFails(b)
  PROVE  AdvanceInv' /\ NoWayBack
<1>1. /\ UNCHANGED <<cache, active, revs>> /\ build' = [build EXCEPT ![b] = None]
      /\ building' = [k \in Keys |-> IF building[k] = b THEN None ELSE building[k]]
  BY DEF BuildFails, EndBuild
<1>2. \A c \in Builds : build'[c] # None => c # b /\ build'[c] = build[c]
  BY <1>1 DEF AdvanceInv, TypeOK
<1>3. OneBuild'
  BY <1>1, <1>2 DEF AdvanceInv, OneBuild, Keys
<1>4. CacheDated' /\ ActiveDated' /\ ReadsDated'
  BY <1>1, <1>2 DEF AdvanceInv, CacheDated, ActiveDated, ReadsDated
<1> QED BY <1>1, <1>3, <1>4, Unmoved DEF AdvanceInv

LEMMA FinishAdvances ==
  ASSUME AdvanceInv, TypeOK', NEW b \in Builds, FinishBuild(b)
  PROVE  AdvanceInv' /\ NoWayBack
<1> DEFINE key == build[b].key
           bundle == Bundle(key, build[b].read)
<1>1. /\ AllRead(b) /\ cache' = [cache EXCEPT ![key] = bundle]
      /\ active' = [o \in Opas |-> IF poll[o] = b THEN bundle ELSE active[o]]
      /\ build' = [build EXCEPT ![b] = None] /\ UNCHANGED revs
      /\ building' = [k \in Keys |-> IF building[k] = b THEN None ELSE building[k]]
  BY DEF FinishBuild, EndBuild
<1>2. build[b] # None /\ key \in Keys /\ bundle # None
      /\ \A s \in Sources : build[b].read[s] # Unread /\ bundle.at[s] = build[b].read[s].at
  BY <1>1, BundleTyped, SnapshotTyped DEF AllRead, Running, BuildState, AdvanceInv
<1>3. \A c \in Builds : build'[c] # None => c # b /\ build'[c] = build[c]
  BY <1>1 DEF AdvanceInv, TypeOK
<1>4. \A o \in Opas : active'[o] = active[o] \/ (active'[o] = bundle /\ KeyOf[o] = key)
  BY <1>1, <1>2, BundleAssumption DEF AdvanceInv, TypeOK, Running
<1>5. \A k \in Orgs : k # key => cache'[k] = cache[k]
  BY <1>1 DEF AdvanceInv, TypeOK, Keys
<1>6. cache'[key] = bundle
  BY <1>1, <1>2 DEF AdvanceInv, TypeOK
\* The one build of its key.
<1>7. \A c \in Builds : build'[c] # None /\ build'[c].key \in Orgs => build'[c].key # key
  BY <1>2, <1>3 DEF AdvanceInv, OneBuild
<1>8. ASSUME key \in Orgs
      PROVE  \A s \in Sources :
               /\ bundle.at[s] <= revs[s] /\ bundle.at[s] \in Nat
               /\ \A o \in Opas : KeyOf[o] = key /\ active[o] # None =>
                    active[o].at[s] <= bundle.at[s]
  <2>1. \A s \in Sources : bundle.at[s] \in Nat
    BY <1>1, BundleTyped, BundleAssumption DEF AdvanceInv, Bundles
  <2> QED BY <1>2, <1>8, <2>1 DEF AdvanceInv, ReadsDated
<1>9. OneBuild'
  BY <1>1, <1>3, <1>5, <1>7 DEF AdvanceInv, OneBuild, Keys
<1>10. CacheDated'
  BY <1>1, <1>5, <1>6, <1>8 DEF AdvanceInv, CacheDated
<1>11. ReadsDated'
  BY <1>1, <1>3, <1>4, <1>7 DEF AdvanceInv, ReadsDated
<1>12. ActiveDated'
  <2> SUFFICES ASSUME NEW o \in Opas, NEW s \in Sources, KeyOf[o] \in Orgs, active'[o] # None
               PROVE  /\ active'[o].at[s] <= revs[s]
                      /\ cache'[KeyOf[o]] # None => active'[o].at[s] <= cache'[KeyOf[o]].at[s]
    BY <1>1 DEF ActiveDated
  <2>1. CASE active'[o] = bundle /\ KeyOf[o] = key
    BY <1>6, <1>8, <2>1
  <2>2. CASE active'[o] = active[o] /\ KeyOf[o] = key
    BY <1>6, <1>8, <2>2 DEF AdvanceInv, ActiveDated
  <2>3. CASE active'[o] = active[o] /\ KeyOf[o] # key
    BY <1>5, <2>3 DEF AdvanceInv, ActiveDated
  <2> QED BY <1>4, <2>1, <2>2, <2>3
<1>13. NoWayBack
  BY <1>2, <1>4, <1>8, DatesTyped DEF NoWayBack, AdvanceInv
<1> QED BY <1>9, <1>10, <1>11, <1>12, <1>13 DEF AdvanceInv

LEMMA PollAdvances ==
  ASSUME AdvanceInv, TypeOK', NEW o \in Opas, PollStep(o)
  PROVE  AdvanceInv' /\ NoWayBack
<1> DEFINE key == KeyOf[o]
<1>0. key \in Keys
  BY BundleAssumption DEF Keys
<1>1. CASE PollHit(o)
  <2>1. /\ cache[key] # None /\ active' = [active EXCEPT ![o] = cache[key]]
        /\ UNCHANGED <<cache, build, building, revs>>
    BY <1>1 DEF PollHit
  <2>2. \A q \in Opas : active'[q] = IF q = o THEN cache[key] ELSE active[q]
    BY <2>1 DEF AdvanceInv, TypeOK
  <2>3. \A b \in Builds : build[b] # None /\ build[b].key \in Orgs => build[b].key # key
    BY <2>1 DEF AdvanceInv, OneBuild
  <2>4. OneBuild' /\ CacheDated'
    BY <2>1 DEF AdvanceInv, OneBuild, CacheDated
  <2>5. ReadsDated'
    BY <2>1, <2>2, <2>3 DEF AdvanceInv, ReadsDated
  <2>6. ActiveDated'
    BY <2>1, <2>2, DatesTyped DEF AdvanceInv, ActiveDated, CacheDated
  <2>7. NoWayBack
    BY <2>1, <2>2, DatesTyped DEF AdvanceInv, ActiveDated, NoWayBack
  <2> QED BY <2>4, <2>5, <2>6, <2>7 DEF AdvanceInv
<1>2. CASE PollMiss(o) /\ building[key] # None
  <2>1. UNCHANGED <<cache, build, building, active, revs>>
    BY <1>2 DEF PollMiss
  <2> QED
    BY <2>1, Unmoved DEF AdvanceInv, OneBuild, CacheDated, ReadsDated, ActiveDated
<1>3. CASE PollMiss(o) /\ building[key] = None
  <2>1. PICK b \in Builds : /\ ~Running(b)
                            /\ build' = [build EXCEPT ![b] = Started(key)]
                            /\ building' = [building EXCEPT ![key] = b]
    BY <1>3 DEF PollMiss
  <2>2. cache[key] = None /\ UNCHANGED <<cache, active, revs>>
    BY <1>3 DEF PollMiss
  <2>3. \A c \in Builds : build'[c] = IF c = b THEN Started(key) ELSE build[c]
    BY <2>1 DEF AdvanceInv, TypeOK
  <2>4. \A c \in Builds : build[c] # None /\ build[c].key \in Orgs => build[c].key # key
    BY <1>3, BundleAssumption DEF AdvanceInv, OneBuild
  <2>5. Started(key).key = key /\ \A s \in Sources : Started(key).read[s] = Unread
    BY DEF Started
  <2>6. OneBuild'
    BY <1>0, <2>1, <2>2, <2>3, <2>4, <2>5 DEF AdvanceInv, OneBuild, TypeOK, Keys
  <2>7. CacheDated' /\ ActiveDated'
    BY <2>2 DEF AdvanceInv, CacheDated, ActiveDated
  <2>8. ReadsDated'
    BY <2>2, <2>3, <2>5 DEF AdvanceInv, ReadsDated
  <2> QED BY <2>2, <2>6, <2>7, <2>8, Unmoved DEF AdvanceInv
<1> QED BY <1>1, <1>2, <1>3 DEF PollStep

\* The build at startup is of the global bundle.
LEMMA RestartAdvances ==
  ASSUME AdvanceInv, TypeOK', Restart
  PROVE  AdvanceInv' /\ NoWayBack
<1>1. \A b \in Builds : build'[b] # None => build'[b].key \notin Orgs
  <2>1. \A b \in Builds : build'[b] # None => build'[b] = Started(Null)
    BY DEF Restart, Startup
  <2> QED BY <2>1, BundleAssumption DEF Started
<1>2. \A k \in Orgs : cache'[k] = None
  BY DEF Restart, Keys
<1>3. UNCHANGED <<active, revs>>
  BY DEF Restart
<1>4. OneBuild' /\ CacheDated' /\ ReadsDated' /\ ActiveDated'
  BY <1>1, <1>2, <1>3 DEF AdvanceInv, OneBuild, CacheDated, ReadsDated, ActiveDated
<1> QED BY <1>3, <1>4, Unmoved DEF AdvanceInv

LEMMA InitAdvances == ASSUME Init PROVE AdvanceInv
<1>1. \A b \in Builds : build[b] # None => build[b].key \notin Orgs
  <2>1. \A b \in Builds : build[b] # None => build[b] = Started(Null)
    BY DEF Init, Startup
  <2> QED BY <2>1, BundleAssumption DEF Started
<1>2. (\A k \in Orgs : cache[k] = None) /\ \A o \in Opas : active[o] = None
  BY DEF Init, Keys
<1> QED
  BY <1>1, <1>2, InitTyped DEF AdvanceInv, OneBuild, CacheDated, ReadsDated, ActiveDated

LEMMA AdvanceStep ==
  ASSUME AdvanceInv, [Next]_vars
  PROVE  AdvanceInv' /\ (NoWayBack \/ UNCHANGED vars)
<1>0. TypeOK'
  BY TypeStep DEF AdvanceInv
<1>1. CASE UNCHANGED vars
  BY <1>0, <1>1 DEF vars, AdvanceInv, OneBuild, CacheDated, ReadsDated, ActiveDated
<1>2. CASE \E h \in Handlers : Mutate(h) \/ Invalidate(h) \/ ReloadFails(h)
  BY <1>0, <1>2, MutateAdvances, PublishAdvances
<1>3. CASE \E b \in Builds : BuildStep(b) \/ BuildFails(b)
  BY <1>0, <1>3, ReadAdvances, FinishAdvances, FailureAdvances DEF BuildStep
<1>4. CASE \E o \in Opas : PollStep(o)
  BY <1>0, <1>4, PollAdvances
<1>5. CASE Restart
  BY <1>0, <1>5, RestartAdvances
<1> QED BY <1>1, <1>2, <1>3, <1>4, <1>5 DEF Next

\* No replica of an organisation goes back to older rows, whatever builds,
\* invalidations, failures and restarts come between two of its polls.
THEOREM BundleBundlesAdvance == Spec => BundlesAdvance
<1>1. Init => AdvanceInv
  BY InitAdvances
<1>2. AdvanceInv /\ [Next]_vars => AdvanceInv'
  BY AdvanceStep
<1>3. AdvanceInv /\ [Next]_vars => [NoWayBack]_vars
  BY AdvanceStep
<1>4. NoWayBack <=>
        \A o \in Opas :
          KeyOf[o] \in Orgs /\ active[o] # None =>
            /\ active'[o] # None
            /\ \A s \in Sources : active[o].at[s] <= active'[o].at[s]
  BY DEF NoWayBack
<1> QED BY <1>1, <1>2, <1>3, <1>4, PTL DEF Spec, BundlesAdvance
=============================================================================
