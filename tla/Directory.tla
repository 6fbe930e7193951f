----------------------------- MODULE Directory -----------------------------
(***************************************************************************)
(* Users, roles and organisations: the user routes of server.js,           *)
(* routes/roles.js and routes/orgs.js over users, roles and orgs.          *)
(* A request carries the permissions its actor had when it was            *)
(* authenticated (getUserAuthContext) through every check, up to a         *)
(* transaction that may come after they were changed.                      *)
(***************************************************************************)
EXTENDS Integers, FiniteSets

CONSTANTS
  Users, Roles, Orgs,
  Perms,         \* permissions: pairs of a resource type and an action
  UserPerm,      \* the one that lets its holder manage users
  RolePerm,      \* the one that lets its holder manage roles
  OrgPerm,       \* the one that lets its holder manage organisations
  OrgAdminPerms, \* what the built-in role org_admin holds
  FirstUser,     \* the bootstrap administrator
  Platform,      \* the organisation seeded at boot
  RootRole, OrgAdmin,  \* built-in roles seeded at boot
  Global,        \* org_id null
  Admins,        \* requests being handled at once
  None,          \* no row, no request
  MaxActs        \* bound on requests

UserRows == [org : Orgs, role : Roles, root : BOOLEAN, disabled : BOOLEAN, label : BOOLEAN]
RoleRows == [org : Orgs \cup {Global}, perms : SUBSET Perms, builtin : BOOLEAN]

DirectoryAssumption ==
  /\ {UserPerm, RolePerm, OrgPerm} \subseteq Perms /\ OrgAdminPerms \subseteq Perms
  /\ FirstUser \in Users /\ Platform \in Orgs
  /\ {RootRole, OrgAdmin} \subseteq Roles /\ RootRole # OrgAdmin
  /\ Global \notin Orgs /\ None \notin UserRows \cup RoleRows
  /\ MaxActs \in Nat

VARIABLES
  users,     \* table users
  roles,     \* table roles
  orgs,      \* table orgs
  acting,    \* requests past their checks: the actor as it was, and what is asked
  rootGave,  \* history: the permissions that ever were in a role root made
  crossed,   \* history: two removals of users were under way at once
  loose,     \* history: an admin was disabled past the guards of a removal
  acted

dVars == <<users, roles, orgs, acting, rootGave, crossed, loose, acted>>

\* label: the column role, of before there were roles, is 'admin'.
User(org, role, root, label) ==
  [org |-> org, role |-> role, root |-> root, disabled |-> FALSE, label |-> label]
Role(org, perms, builtin) == [org |-> org, perms |-> perms, builtin |-> builtin]

\* ensurePlatformDefaults() and bootstrapInitialAdmin() have run.
Init ==
  /\ users = [u \in Users |-> IF u = FirstUser
                              THEN User(Platform, RootRole, TRUE, TRUE)
                              ELSE None]
  /\ roles = [r \in Roles |-> IF r = RootRole THEN Role(Global, {}, TRUE)
                              ELSE IF r = OrgAdmin THEN Role(Global, OrgAdminPerms, TRUE)
                              ELSE None]
  /\ orgs = {Platform}
  /\ acting = [q \in Admins |-> None]
  /\ rootGave = OrgAdminPerms
  /\ crossed = FALSE /\ loose = FALSE
  /\ acted = 0

-----------------------------------------------------------------------------
\* getUserAuthContext(): the row joined with its role.
AuthContext(u) ==
  [user |-> u, org |-> users[u].org, role |-> users[u].role, root |-> users[u].root,
   label |-> users[u].label, perms |-> roles[users[u].role].perms]

\* studio.authz: root or so labelled, or the permission within the actor's own
\* organisation; StudioAuthz has the decision in full.
EffectiveRoot(actor) == actor.root \/ actor.label
May(actor, perm) == EffectiveRoot(actor) \/ perm \in actor.perms
Authorized(actor, perm, org) == May(actor, perm) /\ (EffectiveRoot(actor) \/ org = actor.org)

\* Mutant: it is enough that one permission is the actor's own.
PermissionSubset_Some(proposed, actor) == actor.root \/ proposed \cap actor.perms # {}

\* checkPermissionSubset()
PermissionSubset(proposed, actor) == actor.root \/ proposed \subseteq actor.perms

Removals == {"disable", "deleteUser"}
Removing == \E p \in Admins : acting[p] # None /\ acting[p].what.op \in Removals

\* What the transaction still asks of the actor.
Kept(actor) == [root |-> actor.root, perms |-> actor.perms]

Admit(q, actor, what) ==
  /\ acting' = [acting EXCEPT ![q] = [actor |-> Kept(actor), what |-> what]]
  /\ crossed' = (crossed \/ (what.op \in Removals /\ Removing))
  /\ acted' = acted + 1
  /\ UNCHANGED <<users, roles, orgs, rootGave, loose>>

\* POST /users: the role is one the actor sees; the root role is for root users.
\* The column role gets the name of the role, and a custom one may be named admin.
AskUser(q, actor) ==
  \E u \in Users, r \in Roles, o \in orgs, root, label \in BOOLEAN :
    /\ Authorized(actor, UserPerm, o)
    /\ users[u] = None /\ roles[r] # None
    /\ ~actor.root => ~root /\ o = actor.org /\ roles[r].org \in {Global, actor.org}
    /\ r = RootRole => root
    /\ label => ~roles[r].builtin
    /\ Admit(q, actor, [op |-> "createUser", user |-> u, row |-> User(o, r, root, label)])

\* countAdmins(): the label counts, and not whether its user is root.
ActiveAdmins == {u \in Users : users[u] # None /\ users[u].label /\ ~users[u].disabled}

\* Mutant: all users are counted.
MayRemove_CountsUsers(u) == users[u].label => Cardinality({w \in Users : users[w] # None}) > 1
MayRemove(u) == users[u].label => Cardinality(ActiveAdmins) > 1

\* PUT and DELETE /users/:id.  The guards ask for disabled === true, the write is of
\* !!disabled: a value such as 1 disables past them, oneself and the last admin too.
AskUserChange(q, actor) ==
  \E u \in Users, op \in {"disable", "disableLoosely", "enable", "label", "deleteUser"} :
    /\ users[u] # None /\ Authorized(actor, UserPerm, users[u].org)
    /\ u = actor.user => op \in {"disableLoosely", "enable"}
    /\ op \in Removals => MayRemove(u)
    /\ Admit(q, actor, [op |-> op, user |-> u])

\* POST /roles: no permission the actor has not; others than root in their org.
AskRole(q, actor) ==
  \E r \in Roles, perms \in SUBSET Perms, o \in Orgs \cup {Global} :
    /\ roles[r] = None /\ May(actor, RolePerm) /\ (actor.root \/ o = actor.org)
    /\ PermissionSubset(perms, actor)
    /\ Admit(q, actor, [op |-> "createRole", role |-> r, row |-> Role(o, perms, FALSE)])

\* PUT and DELETE /roles/:id: not the role the actor holds.
AskRoleChange(q, actor) ==
  \E r \in Roles :
    /\ roles[r] # None /\ Authorized(actor, RolePerm, roles[r].org)
    /\ \/ \E perms \in SUBSET Perms :
            /\ actor.root \/ actor.role # r
            /\ Admit(q, actor, [op |-> "updateRole", role |-> r, perms |-> perms])
       \/ Admit(q, actor, [op |-> "deleteRole", role |-> r])

\* POST and DELETE /orgs: a new organisation is nobody's, one that is gone 404.
AskOrg(q, actor) ==
  \E o \in Orgs :
    \/ May(actor, OrgPerm) /\ Admit(q, actor, [op |-> "createOrg", org |-> o])
    \/ Authorized(actor, OrgPerm, o) /\ Admit(q, actor, [op |-> "deleteOrg", org |-> o])

Ask(q) ==
  /\ acting[q] = None /\ acted < MaxActs
  /\ \E u \in Users :
       /\ users[u] # None /\ ~users[u].disabled
       /\ LET actor == AuthContext(u) IN
            \/ AskUser(q, actor) \/ AskUserChange(q, actor)
            \/ AskRole(q, actor) \/ AskRoleChange(q, actor) \/ AskOrg(q, actor)

-----------------------------------------------------------------------------
What(q) == acting[q].what

\* An admin is about to be disabled by a request that was not checked as a removal.
PastTheGuards(q) ==
  /\ What(q).op = "disableLoosely"
  /\ users[What(q).user] # None /\ users[What(q).user].label

\* The transaction of request q, of the kind op; what it refuses rolls back.
Mutation(q, op) ==
  /\ acting[q] # None /\ acting[q].what.op = op
  /\ acting' = [acting EXCEPT ![q] = None]
  /\ loose' = (loose \/ PastTheGuards(q))
  /\ UNCHANGED <<acted, crossed>>

OrgExists(o) == o = Global \/ o \in orgs

\* createUserTx(): the foreign keys refuse a role or an organisation that is gone.
\* Mutant: the route's look-up of the role is all there is.
ForeignKeysHold_Org(row) == OrgExists(row.org)
ForeignKeysHold(row) == roles[row.role] # None /\ OrgExists(row.org)
CreateUser(q) ==
  /\ Mutation(q, "createUser")
  /\ users' = IF users[What(q).user] = None /\ ForeignKeysHold(What(q).row)
              THEN [users EXCEPT ![What(q).user] = What(q).row] ELSE users
  /\ UNCHANGED <<roles, orgs, rootGave>>

SetDisabled(q) ==
  LET u == acting[q].what.user IN
  /\ \E op \in {"disable", "disableLoosely", "enable"} : Mutation(q, op)
  /\ users' = IF users[u] = None THEN users
              ELSE [users EXCEPT ![u].disabled = (What(q).op # "enable")]
  /\ UNCHANGED <<roles, orgs, rootGave>>

SetLabel(q) ==
  LET u == acting[q].what.user IN
  /\ Mutation(q, "label")
  /\ users' = IF users[u] = None THEN users ELSE [users EXCEPT ![u].label = TRUE]
  /\ UNCHANGED <<roles, orgs, rootGave>>

DeleteUser(q) ==
  /\ Mutation(q, "deleteUser")
  /\ users' = [users EXCEPT ![What(q).user] = None]
  /\ UNCHANGED <<roles, orgs, rootGave>>

Gave(q, perms) == rootGave' = IF acting[q].actor.root THEN rootGave \cup perms ELSE rootGave

\* insertRoleTx(): not the name of another in its scope, in an organisation there is.
CreateRole(q) ==
  LET row == What(q).row IN
  /\ Mutation(q, "createRole")
  /\ IF roles[What(q).role] = None /\ OrgExists(row.org)
     THEN roles' = [roles EXCEPT ![What(q).role] = row] /\ Gave(q, row.perms)
     ELSE UNCHANGED <<roles, rootGave>>
  /\ UNCHANGED <<users, orgs>>

\* updateRoleTx(), after the checks of its transaction.
UpdateRole(q) ==
  LET r == What(q).role
      perms == What(q).perms IN
  /\ Mutation(q, "updateRole")
  /\ IF roles[r] # None /\ ~roles[r].builtin
        /\ PermissionSubset(perms, acting[q].actor)
     THEN roles' = [roles EXCEPT ![r].perms = perms] /\ Gave(q, perms)
     ELSE UNCHANGED <<roles, rootGave>>
  /\ UNCHANGED <<users, orgs>>

\* deleteRoleTx(): a role of nobody.
HeldBy(r) == {u \in Users : users[u] # None /\ users[u].role = r}
DeleteRole(q) ==
  LET r == What(q).role IN
  /\ Mutation(q, "deleteRole")
  /\ roles' = IF roles[r] # None /\ ~roles[r].builtin /\ HeldBy(r) = {}
              THEN [roles EXCEPT ![r] = None] ELSE roles
  /\ UNCHANGED <<users, orgs, rootGave>>

CreateOrg(q) ==
  /\ Mutation(q, "createOrg")
  /\ orgs' = orgs \cup {What(q).org}
  /\ UNCHANGED <<users, roles, rootGave>>

\* deleteOrgTx(): an organisation that nothing belongs to.
Blockers(o) ==
  {u \in Users : users[u] # None /\ users[u].org = o} \cup
  {r \in Roles : roles[r] # None /\ roles[r].org = o}
DeleteOrg(q) ==
  /\ Mutation(q, "deleteOrg")
  /\ orgs' = IF Blockers(What(q).org) = {} THEN orgs \ {What(q).org} ELSE orgs
  /\ UNCHANGED <<users, roles, rootGave>>

Next ==
  \E q \in Admins :
    \/ Ask(q)
    \/ CreateUser(q) \/ SetDisabled(q) \/ SetLabel(q) \/ DeleteUser(q)
    \/ CreateRole(q) \/ UpdateRole(q) \/ DeleteRole(q)
    \/ CreateOrg(q) \/ DeleteOrg(q)

Spec == Init /\ [][Next]_dVars

-----------------------------------------------------------------------------
(* The tables keep their shape.                                            *)
TypeOK ==
  /\ users \in [Users -> {None} \cup UserRows]
  /\ roles \in [Roles -> {None} \cup RoleRows]
  /\ orgs \subseteq Orgs /\ rootGave \subseteq Perms /\ acted \in 0..MaxActs

(* No role contains a permission that root did not put into some role:     *)
(* whoever may make and edit roles puts in what it has, also when a request*)
(* writes after its actor's role was narrowed (checkPermissionSubset).     *)
(* This is about what roles contain and not about who may do what: POST    *)
(* /users hands out any role its actor sees, with more in it than the      *)
(* actor holds, and the label that PUT /users/:id sets makes its user      *)
(* effective root.                                                         *)
NoEscalation == \A r \in Roles : roles[r] # None => roles[r].perms \subseteq rootGave

(* Some admin stays enabled, as server.js:503-505 and 561-563 want it,     *)
(* though users are labelled, enabled, disabled and deleted in any order   *)
(* by requests that overlap.  There are two exceptions: two removals under *)
(* way at once take the last two, each counting the other's; and one       *)
(* request whose disabled is truthy and not true takes the last.           *)
AnAdminStays == crossed \/ loose \/ ActiveAdmins # {}

(* Users have the role and the organisation they name, and roles their     *)
(* organisation, though both are looked up before the transaction and may  *)
(* be deleted by another request in between.                              *)
NothingDangles ==
  /\ \A u \in Users : users[u] # None => roles[users[u].role] # None /\ users[u].org \in orgs
  /\ \A r \in Roles : roles[r] # None => OrgExists(roles[r].org)
=============================================================================
