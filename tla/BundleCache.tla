---------------------------- MODULE BundleCache ----------------------------
(***************************************************************************)
(* The distribution of policies to the OPA fleet: mutations committed by   *)
(* the routes, the per-organisation bundle cache of opaBundle.js with its  *)
(* coalesced asynchronous builds, invalidateBundle(), and the OPA replicas *)
(* that poll.  A bundle is the documents it is made of; its revision is a  *)
(* hash of them, so a 304 answer leaves a replica with the cached bundle.  *)
(* Trust keys and platform keys are two more tables collect() reads and    *)
(* are left out.                                                           *)
(***************************************************************************)
EXTENDS Integers, FiniteSets

CONSTANTS
  Orgs,       \* organisations
  Null,       \* orgId null: a global row, and the key of the global bundle
  Policies,   \* policy ids
  Callers,    \* PEP caller ids
  OrgOf,      \* org_id of every policy and caller
  Regos,      \* compiled contents of a policy
  NoRego,     \* the policy does not exist
  Handlers,   \* mutating requests in flight
  Opas,       \* OPA replicas
  KeyOf,      \* the bundle each replica is configured to poll
  Builds,     \* identities of the builds in flight: one for each key, and one
  WarmsUp,    \* whether startup comes to its own build, or fails seeding
  None,       \* no bundle, no build, no request
  Unread,     \* a table collect() has not read yet
  MaxWrites,  \* bound on committed mutations
  MaxFaults   \* bound on restarts, failed builds and failed handlers

ASSUME BundleAssumption ==
  /\ Null \notin Orgs
  /\ OrgOf \in [Policies \cup Callers -> Orgs \cup {Null}]
  /\ KeyOf \in [Opas -> Orgs \cup {Null}]
  /\ Regos # {} /\ NoRego \notin Regos
  /\ None \notin Builds
  /\ Builds # {}
  /\ WarmsUp \in BOOLEAN
  /\ MaxWrites \in Nat
  /\ MaxFaults \in Nat

Keys == Orgs \cup {Null}
Sources == {"policies", "callers", "grants"}

VARIABLES
  tables,     \* committed rows of policies, pep_callers, pep_caller_policy_access
  cache,      \* _caches: the bundle of each key
  build,      \* the builds in flight: key, tables read, and as history whether
              \*   a mutation published meanwhile
  building,   \* _buildings: the build that polls of each key join
  job,        \* what each mutating request has still to do
  poll,       \* the build each OPA replica waits for
  active,     \* the bundle each OPA replica runs
  excused,    \* history: keys whose bundle missed a mutation on the way
  revs,       \* how often each table was written
  faults      \* faults so far

vars == <<tables, cache, build, building, job, poll, active, excused, revs, faults>>

PolicyRow == [rego : Regos \cup {NoRego}, locked : BOOLEAN, tagged : BOOLEAN]
CallerRow == [status : {"absent", "active", "revoked"}, scoped : BOOLEAN]
Tables == [policies : [Policies -> PolicyRow],
           callers : [Callers -> CallerRow],
           grants : SUBSET (Callers \X Policies)]

-----------------------------------------------------------------------------
(* What a build makes of the tables it has read.                           *)

InScope(k, x) == k = Null \/ OrgOf[x] \in {k, Null}

\* The policies of the scope that are not locked.
Served(k, t) ==
  {p \in Policies : InScope(k, p) /\ t.policies[p].rego # NoRego
                                 /\ ~t.policies[p].locked}

ActiveCallers(k, t) ==
  {c \in Callers : InScope(k, c) /\ t.callers[c].status = "active"}

\* buildCallerAccess(): the explicit grants, of revoked callers too, and the
\* policies whose tags overlap the scope_tags of an active caller.
Access(k, t) ==
  {g \in t.grants :
     g[2] \in Served(k, t)
     /\ (k # Null => InScope(k, g[1]) /\ t.callers[g[1]].status # "absent")}
  \cup {g \in ActiveCallers(k, t) \X Served(k, t) :
          t.callers[g[1]].scoped /\ t.policies[g[2]].tagged}

Documents(k, t) ==
  [modules |-> {<<p, t.policies[p].rego>> : p \in Served(k, t)},
   callers |-> ActiveCallers(k, t),
   access |-> Access(k, t)]

\* A build notes, as history, how often each table had been written.
Started(k) == [key |-> k, read |-> [s \in Sources |-> Unread], overtaken |-> FALSE]
Running(b) == build[b] # None
AllRead(b) == Running(b) /\ \A s \in Sources : build[b].read[s] # Unread

Bundle(k, snap) ==
  [docs |-> Documents(k, [policies |-> snap["policies"].rows,
                          callers |-> snap["callers"].rows,
                          grants |-> snap["grants"].rows]),
   at |-> [s \in Sources |-> snap[s].at]]

-----------------------------------------------------------------------------
\* The startup build of the global bundle is not in _buildings.
Startup(builds) ==
  \E w \in Builds :
    builds = [b \in Builds |-> IF b = w /\ WarmsUp THEN Started(Null) ELSE None]

\* The backend starts on a database with some policies and callers.
Init ==
  /\ \E stored \in SUBSET (Policies \cup Callers) :
       tables =
         [policies |-> [p \in Policies |->
                          [rego |-> IF p \in stored THEN CHOOSE r \in Regos : TRUE ELSE NoRego,
                           locked |-> FALSE, tagged |-> FALSE]],
          callers |-> [c \in Callers |->
                         [status |-> IF c \in stored THEN "active" ELSE "absent",
                          scoped |-> FALSE]],
          grants |-> {}]
  /\ cache = [k \in Keys |-> None]
  /\ Startup(build)
  /\ building = [k \in Keys |-> None]
  /\ job = [h \in Handlers |-> None]
  /\ poll = [o \in Opas |-> None]
  /\ active = [o \in Opas |-> None]
  /\ excused = {}
  /\ revs = [s \in Sources |-> 0]
  /\ faults = 0

-----------------------------------------------------------------------------
(* Mutating requests.  withAudit() commits them one at a time; the handler *)
(* goes on later, with its publish step.                                   *)

Exists(p) == tables.policies[p].rego # NoRego
Status(c) == tables.callers[c].status

Publishes(org) == [do |-> "publish", org |-> org]

WritesLeft == revs["policies"] + revs["callers"] + revs["grants"] < MaxWrites

Commit(h, table, rows, next) ==
  /\ WritesLeft
  /\ tables' = [tables EXCEPT ![table] = rows]
  /\ revs' = [revs EXCEPT ![table] = @ + 1]
  /\ job' = [job EXCEPT ![h] = next]
  /\ UNCHANGED <<cache, build, building, poll, active, excused, faults>>

\* POST and PUT /api/policies.  The saved policy is read back for its org
\* before the publish step.
SavePolicy(h, p) ==
  \E r \in Regos :
    /\ job[h] = None
    /\ ~tables.policies[p].locked
    /\ Commit(h, "policies", [tables.policies EXCEPT ![p].rego = r],
              [do |-> "reload", org |-> OrgOf[p]])

\* A lock request that changes nothing is answered at once.
SetLocked(h, p) ==
  /\ job[h] = None
  /\ Exists(p)
  /\ Commit(h, "policies", [tables.policies EXCEPT ![p].locked = ~@], Publishes(OrgOf[p]))

UpdateTags(h, p) ==
  \E tagged \in BOOLEAN :
    /\ job[h] = None
    /\ Exists(p)
    /\ Commit(h, "policies", [tables.policies EXCEPT ![p].tagged = tagged],
              Publishes(OrgOf[p]))

CreateCaller(h, c) ==
  /\ job[h] = None
  /\ Status(c) = "absent"
  /\ Commit(h, "callers", [tables.callers EXCEPT ![c] = [status |-> "active", scoped |-> FALSE]],
            Publishes(Null))

RevokeCaller(h, c) ==
  /\ job[h] = None
  /\ Status(c) = "active"
  /\ Commit(h, "callers", [tables.callers EXCEPT ![c].status = "revoked"], Publishes(Null))

\* DELETE of a revoked caller; its grants go with it (ON DELETE CASCADE).
DeleteCaller(h, c) ==
  /\ job[h] = None
  /\ Status(c) = "revoked"
  /\ WritesLeft
  /\ tables' = [tables EXCEPT !.callers[c] = [status |-> "absent", scoped |-> FALSE],
                              !.grants = {g \in @ : g[1] # c}]
  /\ revs' = [revs EXCEPT !["callers"] = @ + 1, !["grants"] = @ + 1]
  /\ job' = [job EXCEPT ![h] = Publishes(Null)]
  /\ UNCHANGED <<cache, build, building, poll, active, excused, faults>>

\* Grants, their revocation and scope tags are validated before the
\* transaction: the policy may be locked, the caller revoked or deleted, by the
\* time it commits.
Validate(h, op) ==
  /\ job[h] = None
  /\ job' = [job EXCEPT ![h] = op]
  /\ UNCHANGED <<tables, cache, build, building, poll, active, excused, revs, faults>>

CheckGrant(h, c, p) ==
  /\ Status(c) = "active" /\ Exists(p) /\ ~tables.policies[p].locked
  /\ Validate(h, [do |-> "grant", caller |-> c, policy |-> p])

\* 409 derived_from_tag: there is only the overlap of the tags.
CheckRevokeGrant(h, c, p) ==
  /\ Status(c) # "absent"
  /\ tables.callers[c].scoped /\ tables.policies[p].tagged => <<c, p>> \in tables.grants
  /\ Validate(h, [do |-> "ungrant", caller |-> c, policy |-> p])

CheckScopeTags(h, c) ==
  \E scoped \in BOOLEAN :
    /\ Status(c) = "active"
    /\ Validate(h, [do |-> "scope", caller |-> c, scoped |-> scoped])

Doing(h, do) == job[h] # None /\ job[h].do = do

Grant(h) ==
  /\ Doing(h, "grant")
  /\ Status(job[h].caller) # "absent"
  /\ Commit(h, "grants", tables.grants \cup {<<job[h].caller, job[h].policy>>}, Publishes(Null))

\* The foreign key refuses a grant to a caller that was deleted meanwhile.
GrantRefused(h) ==
  /\ Doing(h, "grant")
  /\ Status(job[h].caller) = "absent"
  /\ job' = [job EXCEPT ![h] = None]
  /\ UNCHANGED <<tables, cache, build, building, poll, active, excused, revs, faults>>

RevokeGrant(h) ==
  /\ Doing(h, "ungrant")
  /\ Commit(h, "grants", tables.grants \ {<<job[h].caller, job[h].policy>>}, Publishes(Null))

\* The tags of a caller that was deleted meanwhile change nothing, audited and
\* published all the same.
UpdateScopeTags(h) ==
  /\ Doing(h, "scope")
  /\ Commit(h, "callers",
            [tables.callers EXCEPT ![job[h].caller].scoped =
               job[h].scoped /\ Status(job[h].caller) # "absent"],
            Publishes(Null))

-----------------------------------------------------------------------------
(* invalidateBundle().                                                     *)

\* Mutant: no orgId is a key like any other.
Dropped_NullIsAKey(org) == {org}

\* _caches.delete(orgId), or _caches.clear() without an orgId.
Dropped(org) == IF org = Null THEN Keys ELSE {org}

Owes(h, k) == job[h] # None /\ job[h].do \in {"reload", "publish"} /\ k \in Dropped(job[h].org)

\* The builds in flight, after a mutation of the given keys.
Overtake(keys) ==
  [b \in Builds |-> IF Running(b) /\ build[b].key \in keys
                    THEN [build[b] EXCEPT !.overtaken = TRUE] ELSE build[b]]

\* Mutant: polls after the invalidation start a build beside the one in flight.
Invalidate_Deregisters(h) ==
  /\ Doing(h, "reload") \/ Doing(h, "publish")
  /\ job' = [job EXCEPT ![h] = None]
  /\ LET dropped == Dropped(job[h].org) IN
       /\ cache' = [k \in Keys |-> IF k \in dropped THEN None ELSE cache[k]]
       /\ building' = [k \in Keys |-> IF k \in dropped THEN None ELSE building[k]]
       /\ build' = Overtake(dropped)
       /\ excused' = excused \ dropped
  /\ UNCHANGED <<tables, poll, active, revs, faults>>

\* A build in flight goes on with what it has read.
Invalidate(h) ==
  /\ Doing(h, "reload") \/ Doing(h, "publish")
  /\ job' = [job EXCEPT ![h] = None]
  /\ LET dropped == Dropped(job[h].org) IN
       /\ cache' = [k \in Keys |-> IF k \in dropped THEN None ELSE cache[k]]
       /\ build' = Overtake(dropped)
       /\ excused' = excused \ dropped
  /\ UNCHANGED <<tables, building, poll, active, revs, faults>>

Fault ==
  /\ faults < MaxFaults
  /\ faults' = faults + 1

\* getPolicy() throws after the COMMIT: 500, and nothing is invalidated.
ReloadFails(h) ==
  /\ Fault
  /\ Doing(h, "reload")
  /\ job' = [job EXCEPT ![h] = None]
  /\ build' = Overtake(Dropped(job[h].org))
  /\ excused' = excused \cup Dropped(job[h].org)
  /\ UNCHANGED <<tables, cache, building, poll, active, revs>>

-----------------------------------------------------------------------------
(* Builds.  collect() reads the tables concurrently, without a transaction. *)

Read(b, s) ==
  /\ Running(b)
  /\ build[b].read[s] = Unread
  /\ build' = [build EXCEPT ![b].read[s] = [rows |-> tables[s], at |-> revs[s]]]
  /\ UNCHANGED <<tables, cache, building, job, poll, active, excused, revs, faults>>

\* Mutant: _buildings keeps the build.
EndBuild_KeepsBuilding(b) ==
  /\ build' = [build EXCEPT ![b] = None]
  /\ UNCHANGED building

\* The build ends: _buildings.delete(), if getBundle() started it.
EndBuild(b) ==
  /\ build' = [build EXCEPT ![b] = None]
  /\ building' = [k \in Keys |-> IF building[k] = b THEN None ELSE building[k]]

\* The polls that wait for a build are answered.
AnswerPolls(b) == poll' = [o \in Opas |-> IF poll[o] = b THEN None ELSE poll[o]]

\* buildBundle() caches its bundle; the polls that wait for it download it.
FinishBuild(b) ==
  /\ AllRead(b)
  /\ LET k == build[b].key
         bundle == Bundle(k, build[b].read)
     IN /\ cache' = [cache EXCEPT ![k] = bundle]
        /\ active' = [o \in Opas |-> IF poll[o] = b THEN bundle ELSE active[o]]
        /\ excused' = IF build[b].overtaken THEN excused \cup {k} ELSE excused \ {k}
  /\ EndBuild(b)
  /\ AnswerPolls(b)
  /\ UNCHANGED <<tables, job, revs, faults>>

\* Mutant: the failure does not reach the polls that wait.
BuildFails_KeepsWaiting(b) ==
  /\ Fault
  /\ Running(b)
  /\ EndBuild(b)
  /\ UNCHANGED <<tables, cache, job, poll, active, excused, revs>>

\* A read fails: every poll that waits is answered 500.
BuildFails(b) ==
  /\ Fault
  /\ Running(b)
  /\ EndBuild(b)
  /\ AnswerPolls(b)
  /\ UNCHANGED <<tables, cache, job, active, excused, revs>>

-----------------------------------------------------------------------------
(* Polls: GET /bundle/aegis.tar.gz and /bundle/orgs/:orgId/aegis.tar.gz.   *)

\* Mutant: a replica that has a bundle is told 304 whatever it holds.
PollHit_Always304(o) ==
  /\ poll[o] = None
  /\ cache[KeyOf[o]] # None
  /\ active' = [active EXCEPT ![o] = IF @ = None THEN cache[KeyOf[o]] ELSE @]
  /\ UNCHANGED <<tables, cache, build, building, job, poll, excused, revs, faults>>

\* 200 with the cached bundle, or 304 to a replica that runs it.
PollHit(o) ==
  /\ poll[o] = None
  /\ cache[KeyOf[o]] # None
  /\ active' = [active EXCEPT ![o] = cache[KeyOf[o]]]
  /\ UNCHANGED <<tables, cache, build, building, job, poll, excused, revs, faults>>

\* getBundle() joins the build of _buildings or starts one.
PollMiss(o) ==
  /\ poll[o] = None
  /\ cache[KeyOf[o]] = None
  /\ \/ /\ building[KeyOf[o]] # None
        /\ poll' = [poll EXCEPT ![o] = building[KeyOf[o]]]
        /\ UNCHANGED <<build, building>>
     \/ /\ building[KeyOf[o]] = None
        /\ \E b \in Builds :
             /\ ~Running(b)
             /\ build' = [build EXCEPT ![b] = Started(KeyOf[o])]
             /\ building' = [building EXCEPT ![KeyOf[o]] = b]
             /\ poll' = [poll EXCEPT ![o] = b]
  /\ UNCHANGED <<tables, cache, job, active, excused, revs, faults>>

\* The backend dies and starts again.
Restart ==
  /\ Fault
  /\ cache' = [k \in Keys |-> None]
  /\ Startup(build')
  /\ building' = [k \in Keys |-> None]
  /\ job' = [h \in Handlers |-> None]
  /\ poll' = [o \in Opas |-> None]
  /\ excused' = {}
  /\ UNCHANGED <<tables, active, revs>>

-----------------------------------------------------------------------------
Mutate(h) ==
  \/ \E p \in Policies : SavePolicy(h, p) \/ SetLocked(h, p) \/ UpdateTags(h, p)
  \/ \E c \in Callers : CreateCaller(h, c) \/ RevokeCaller(h, c) \/ DeleteCaller(h, c)
                       \/ CheckScopeTags(h, c)
  \/ \E c \in Callers, p \in Policies : CheckGrant(h, c, p) \/ CheckRevokeGrant(h, c, p)
  \/ Grant(h) \/ GrantRefused(h) \/ RevokeGrant(h) \/ UpdateScopeTags(h)

BuildStep(b) == (\E s \in Sources : Read(b, s)) \/ FinishBuild(b)
PollStep(o) == PollHit(o) \/ PollMiss(o)

Next ==
  \/ \E h \in Handlers : Mutate(h) \/ Invalidate(h) \/ ReloadFails(h)
  \/ \E b \in Builds : BuildStep(b) \/ BuildFails(b)
  \/ \E o \in Opas : PollStep(o)
  \/ Restart

Spec == Init /\ [][Next]_vars

\* Handlers and builds run to their end, replicas poll again and again;
\* nobody has to issue a mutation.
Fairness ==
  /\ \A h \in Handlers : WF_vars(Invalidate(h))
  /\ \A b \in Builds : WF_vars(BuildStep(b))
  /\ \A o \in Opas : WF_vars(PollStep(o))

FairSpec == Spec /\ Fairness

-----------------------------------------------------------------------------
SnapshotOf(rows) == {Unread} \cup [rows : rows, at : 0..MaxWrites]

BuildState ==
  [key : Keys,
   read : [policies : SnapshotOf([Policies -> PolicyRow]),
           callers : SnapshotOf([Callers -> CallerRow]),
           grants : SnapshotOf(SUBSET (Callers \X Policies))],
   overtaken : BOOLEAN]

Bundles ==
  [docs : [modules : SUBSET (Policies \X Regos),
           callers : SUBSET Callers,
           access : SUBSET (Callers \X Policies)],
   at : [Sources -> 0..MaxWrites]]

Jobs == [do : {"reload", "publish"}, org : Keys]
        \cup [do : {"grant", "ungrant"}, caller : Callers, policy : Policies]
        \cup [do : {"scope"}, caller : Callers, scoped : BOOLEAN]

\* None is none of the things it stands in for.
ASSUME NoneAssumption == None \notin Bundles /\ None \notin BuildState /\ None \notin Jobs

\* Every variable keeps its type; a poll waits for a build in flight of its own
\* key, and _buildings holds builds in flight of the key they are filed under.
TypeOK ==
  /\ tables \in Tables
  /\ cache \in [Keys -> Bundles \cup {None}]
  /\ build \in [Builds -> BuildState \cup {None}]
  /\ building \in [Keys -> Builds \cup {None}]
  /\ job \in [Handlers -> Jobs \cup {None}]
  /\ poll \in [Opas -> Builds \cup {None}]
  /\ active \in [Opas -> Bundles \cup {None}]
  /\ excused \subseteq Keys
  /\ revs \in [Sources -> 0..MaxWrites] /\ faults \in 0..MaxFaults
  /\ \A k \in Keys : building[k] # None => Running(building[k]) /\ build[building[k]].key = k
  /\ \A o \in Opas : poll[o] # None => Running(poll[o]) /\ build[poll[o]].key = KeyOf[o]

Fresh(k) == cache[k].docs = Documents(k, tables)

\* No request that committed has still to invalidate the bundle of k.
Settled(k) == \A h \in Handlers : ~Owes(h, k)

\* The cached bundle of an organisation is made of the committed tables once
\* every mutation has published, except after a mutation that published while
\* the bundle was being built, or whose handler failed before it could.  The
\* route passes invalidateBundle() the one organisation, and a global row, a
\* caller or a grant must reach every organisation's bundle.
OrgBundlesFresh ==
  \A k \in Orgs :
    cache[k] # None /\ Settled(k) /\ k \notin excused => Fresh(k)

\* A replica of an organisation never goes back to rows older than those it
\* runs, whatever builds, invalidations, failures and restarts come between
\* two of its polls: _buildings keeps two builds of one key from racing.
BundlesAdvance ==
  [][\A o \in Opas :
       KeyOf[o] \in Orgs /\ active[o] # None =>
         /\ active'[o] # None
         /\ \A s \in Sources : active[o].at[s] <= active'[o].at[s]]_vars

\* When mutations and faults stop, the replicas of an organisation come to run
\* the committed tables and stay with them, with the exceptions of
\* OrgBundlesFresh.
Converged(o) ==
  KeyOf[o] \in Orgs /\ KeyOf[o] \notin excused =>
    active[o] # None /\ active[o].docs = Documents(KeyOf[o], tables)
Converges == \A o \in Opas : <>[]Converged(o)

\* And replicas that poll the same key come to run the same bundle, whether
\* or not it is a fresh one.
FleetAgrees ==
  <>[](\A o1, o2 \in Opas : KeyOf[o1] = KeyOf[o2] => active[o1] = active[o2])

\* A poll that waits for a build is answered, with the bundle or a 500.
EveryPollAnswered == \A o \in Opas : []<>(poll[o] = None)

\* server.js:722-724, README.md:139: a mutation invalidates the cached bundle,
\* the next poll rebuilds and the whole fleet converges.  A policy of an
\* organisation invalidates that organisation's bundle only: the publish step
\* leaves the global bundle cached, which contains the policy too.
PublishDropsStale ==
  [][\A h \in Handlers, k \in Keys :
       job[h] # None /\ job'[h] = None /\ faults' = faults
       /\ cache[k] # None /\ ~Fresh(k) => cache'[k] = None]_vars

\* opaBundle.js:297: drop the cache so the next poll rebuilds.  A build that is
\* in flight is not dropped and caches what it read before the mutation.
NextPollRebuilds ==
  \A k \in Orgs :
    faults = 0 /\ cache[k] # None /\ Settled(k) => Fresh(k)
=============================================================================
