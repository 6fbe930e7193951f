------------------------------ MODULE MCRoutes ------------------------------
(***************************************************************************)
(* One run for the routes of the backend and of the PEP.  The components   *)
(* keep no state in common: each behaviour is that of one part, chosen at  *)
(* the start, and the others stand still.                                  *)
(***************************************************************************)
EXTENDS Integers, Sequences, Functions, FiniteSets, TLC

CONSTANTS
  None,
  Ids, Seeded, Specs, BadSpecs, Tags, Editors, HistoryMax, MaxVersion, MaxTick, \* PolicyStore
  CallerIds, Granted, Cns, Admins, MaxCreates, MaxChanges,                      \* Callers
  Users, Roles, Orgs, Perms, UserPerm, RolePerm, OrgPerm, OrgAdminPerms,        \* Directory
  FirstUser, Platform, RootRole, OrgAdmin, Global, MaxActs,
  Root, Actors,                                                                 \* StudioAuthz
  Requests, Tables, Handlers, Bootstrap, Configured, AllowAnon, Window,         \* PepAuth
  CallerTtl, NonceMax, MaxTime, MaxSent, MaxFailures,
  Callers, CallerOrg, Policies, Package, PolicyOrg, NullOrg, Ttl, MaxAsked,     \* PepAccess
  MaxBundles,
  Jobs, Connections, MaxRollbacks,                                              \* PoolAndLock
  Now, Keys, Templates, Samples, MaxEdits                                       \* PolicyTrial

VARIABLES
  part,
  policies, versions, edit, temp, tick,
  callers, grants, locked, handling, created, reborn, edited,
  users, roles, orgs, acting, rootGave, crossed, loose, acted,
  owned, deciding, missed, passed,
  clock, table, listed, cache, refresh, handler, nonces, admitted, evicted, sent, failures,
  time, docs, last, store, fetch, request, answers, asked, changes, failed,
  kind, stage, inner, waiting, holder, line, rollbacks,
  template, index, body, edits

\* A module of proofs extends its component and adds theorems.
S == INSTANCE PolicyStoreProofs
C == INSTANCE Callers
D == INSTANCE Directory
Z == INSTANCE StudioAuthzProofs
H == INSTANCE PepAuthProofs
A == INSTANCE PepAccessProofs
L == INSTANCE PoolAndLock
P == INSTANCE PolicyTemplates
T == INSTANCE PolicyTrial

ASSUME RoutesAssumption ==
  /\ S!PolicyStoreAssumption /\ C!CallersAssumption /\ D!DirectoryAssumption /\ Z!StudioAuthzAssumption
  /\ H!PepAuthAssumption /\ A!PepAccessAssumption /\ L!PoolAssumption
  /\ T!TrialAssumption

sVars == <<policies, versions, edit, temp, tick>>
cVars == <<callers, grants, locked, handling, created, reborn, edited>>
dVars == <<users, roles, orgs, acting, rootGave, crossed, loose, acted>>
zVars == <<owned, deciding, missed, passed>>
hVars == <<clock, table, listed, cache, refresh, handler, nonces, admitted, evicted, sent,
           failures>>
aVars == <<time, docs, last, store, fetch, request, answers, asked, changes, failed>>
lVars == <<kind, stage, inner, waiting, holder, line, rollbacks>>
tVars == <<template, index, body, edits>>
all == <<part, sVars, cVars, dVars, zVars, hVars, aVars, lVars, tVars>>

-----------------------------------------------------------------------------
(* Values of the constants of PepAuth: one caller that moves from hmac to  *)
(* jwt, one of mtls, and requests with a signature good or bad, replayed   *)
(* or late, of another mode, of two modes at once and of none.             *)
HmacRow == [id |-> "A", mode |-> "hmac", name |-> "A"]
JwtRow == [HmacRow EXCEPT !.mode = "jwt"]
MtlsRow == [id |-> "B", mode |-> "mtls", name |-> "cn"]
MCTables == {{HmacRow, MtlsRow}, {JwtRow}}

Req(kinds, who, ts, nonce, good) ==
  [kinds |-> kinds, who |-> who, ts |-> ts, nonce |-> nonce, good |-> good]
Signed == Req({"hmac"}, "A", 1, "n1", TRUE)
MCRequests ==
  {Signed, [Signed EXCEPT !.good = FALSE], [Signed EXCEPT !.nonce = "n2", !.ts = 2],
   Req({"jwt"}, "A", 0, "", TRUE), Req({"mtls"}, "cn", 0, "", TRUE), Req({}, "", 0, "", TRUE),
   Req({"jwt", "hmac"}, "A", 0, "", TRUE)}

\* Users of two organisations: one is root, one has only the label, two may do
\* everything in their organisation and one may only read.
Actor(id, org, root, label, perms) ==
  [id |-> id, org |-> org, root |-> root, label |-> label, perms |-> perms]
Everything ==
  {"policy", "trust_key", "role", "platform_key"} \X {"create", "read", "update", "delete"}
Other == CHOOSE o \in Orgs : o # Platform
MCActors ==
  {Actor("root", Platform, TRUE, TRUE, {}), Actor("old", Other, FALSE, TRUE, {}),
   Actor("ours", Platform, FALSE, FALSE, Everything),
   Actor("theirs", Other, FALSE, FALSE, Everything),
   Actor("reader", Other, FALSE, FALSE, {<<"policy", "read">>})}

\* The first policy belongs to another organisation than the caller, the second to
\* all; each has a package of its own.
MCPackage == [p \in Policies |-> p]
MCPolicyOrg == [p \in Policies |-> IF p = 1 THEN "other" ELSE NullOrg]
MCCallerOrg == [c \in Callers |-> "own"]

\* Every template of the server.
MCTemplates == P!AllTemplates
MCSamples == P!AllSamples

\* Editors, Admins and Handlers are the same two requests, which are interchangeable.
MCSymmetry == Permutations(Admins) \cup Permutations(CallerIds)

-----------------------------------------------------------------------------
\* The part "authz" starts with a policy or with a trust key, or with neither: a
\* request is about one row.
Init ==
  /\ part \in
       {"policies", "previews", "callers", "directory", "authz", "auth", "access", "pool",
        "templates"}
  /\ S!Init /\ C!Init /\ D!Init /\ Z!Init /\ H!Init /\ A!Init /\ L!Init
  /\ IF part = "templates" THEN T!Init 
     ELSE template = "" /\ index = {} /\ body = << >> /\ edits = 0
  /\ IF part = "authz" THEN None \in Range(owned) ELSE Range(owned) = {None}
  /\ part # "auth" => table = {JwtRow}
  /\ part # "access" => docs = A!Empty

Next ==
  \/ part = "policies" /\ S!PolicyNext
     /\ UNCHANGED <<part, cVars, dVars, zVars, hVars, aVars, lVars, tVars>>
  \/ part = "previews" /\ S!PreviewNext
     /\ UNCHANGED <<part, cVars, dVars, zVars, hVars, aVars, lVars, tVars>>
  \/ part = "callers" /\ C!Next
     /\ UNCHANGED <<part, sVars, dVars, zVars, hVars, aVars, lVars, tVars>>
  \/ part = "directory" /\ D!Next
     /\ UNCHANGED <<part, sVars, cVars, zVars, hVars, aVars, lVars, tVars>>
  \/ part = "authz" /\ Z!Next
     /\ UNCHANGED <<part, sVars, cVars, dVars, hVars, aVars, lVars, tVars>>
  \/ part = "auth" /\ H!Next
     /\ UNCHANGED <<part, sVars, cVars, dVars, zVars, aVars, lVars, tVars>>
  \/ part = "access" /\ A!Next
     /\ UNCHANGED <<part, sVars, cVars, dVars, zVars, hVars, lVars, tVars>>
  \/ part = "pool" /\ L!Next
     /\ UNCHANGED <<part, sVars, cVars, dVars, zVars, hVars, aVars, tVars>>
  \/ part = "templates" /\ T!Next
     /\ UNCHANGED <<part, sVars, cVars, dVars, zVars, hVars, aVars, lVars>>

Spec == Init /\ [][Next]_all

-----------------------------------------------------------------------------
\* The shape of the state of the part that moves.
TypeOK ==
  CASE part \in {"policies", "previews"} -> S!TypeOK
    [] part = "callers"   -> C!TypeOK
    [] part = "directory" -> D!TypeOK
    [] part = "authz"     -> Z!TypeOK
    [] part = "auth"      -> H!TypeOK
    [] part = "access"    -> A!TypeOK
    [] part = "pool"      -> L!TypeOK
    [] part = "templates" -> T!TypeOK

\* Of PolicyStore.
HistoryFollows == part = "policies" => S!HistoryFollows
PreviewIsOwn == part = "previews" => S!PreviewIsOwn
LockedIsFrozen == [][part = "policies" => S!FrozenStep]_all

\* Of Callers.
ModeHasItsMaterial == part = "callers" => C!ModeHasItsMaterial
GrantsAreOurs == part = "callers" => C!GrantsAreOurs
OneCallerPerCn == part = "callers" => C!OneCallerPerCn

\* Of Directory.
NoEscalation == part = "directory" => D!NoEscalation
AnAdminStays == part = "directory" => D!AnAdminStays
NothingDangles == part = "directory" => D!NothingDangles

\* Of StudioAuthz.
TenantsApart == part = "authz" => Z!TenantsApart
DecisionIsOne == part = "authz" => Z!DecisionIsOne

\* Of PepAuth.
NoReplayInWindow == part = "auth" => H!NoReplayInWindow
RowIsRecent == part = "auth" => H!RowIsRecent

\* Of PepAccess and PoolAndLock.
GrantIsRecent == part = "access" => A!GrantIsRecent
NobodyIsStuck ==
  /\ part = "access" => A!WaitersAreServed
  /\ part = "pool" => L!NobodyIsStuck

\* Of PolicyTrial.
DroppingNeverGrants == [][part = "templates" => T!DroppingStep]_all
DiscoverIsHonest == part = "templates" => T!DiscoverIsHonest
=============================================================================
