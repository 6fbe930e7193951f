---------------------------- MODULE StudioAuthz ----------------------------
(***************************************************************************)
(* Whether a request to the studio may go on, and what it then does to     *)
(* rows that belong to an organisation: the middleware authorize.js, which *)
(* looks up who owns the row, the decision of studio_authz.rego, and the   *)
(* routes of policies and trust keys, which read the row again.  A user is *)
(* what authenticate.js read of it; a disabled one does not come this far. *)
(***************************************************************************)
EXTENDS Integers, FiniteSets

CONSTANTS
  Orgs,
  Global,     \* org_id null
  None,       \* no row, no value, no request
  Root,       \* who writes as root
  Actors,     \* users: [id, org, root, label, perms]
  Handlers,   \* requests being handled at once
  MaxAsked    \* bound on requests

\* Users have an organisation (ensurePlatformDefaults() gives one to who had none).
StudioAuthzAssumption ==
  /\ None \notin Orgs /\ Global \notin Orgs \cup {None} /\ Root \notin Orgs
  /\ None \notin [org : Orgs \cup {Global}, by : Orgs \cup {Root}]
  /\ \A a \in Actors : a.org \in Orgs
  /\ MaxAsked \in Nat

\* A policy and a trust key: who owns the row, and who wrote it last.
Types == {"policy", "trust_key"}

VARIABLES
  owned,     \* the row of each type: [org, by]
  deciding,  \* requests at OPA, and those that OPA let through: [actor, route, body, row, stands, pc]
  missed,    \* history: rows last written by a request that had not found their row
  passed     \* requests so far

zVars == <<owned, deciding, missed, passed>>

-----------------------------------------------------------------------------
(* studio.authz, of an input document.                                     *)
Mutating(in) == in.action \in {"create", "update", "delete"}
Blocked(in) == in.action = "delete" /\ in.type \in {"policy", "platform_key"}
TrustOk(in) == in.audit /\ in.opa /\ in.jwt

\* Root, or a user from before there were roles with the role 'admin'.
IsEffectiveRoot(user) == user.root \/ user.label
HasPermission(in) == <<in.type, in.action>> \in in.user.perms

\* Mutant: a global row is like none.
OrgScopeOk_Global(in) ==
  \/ in.org = None /\ in.target = None
  \/ in.user.org \in {in.org, in.target}
OrgScopeOk(in) ==
  \/ in.org = None /\ in.target = None /\ ~in.global
  \/ in.user.org \in {in.org, in.target}

SelfService(in) == in.action = "update" /\ in.type = "password" /\ in.id = in.user.id

Allow(in) ==
  \/ /\ IsEffectiveRoot(in.user) \/ (HasPermission(in) /\ OrgScopeOk(in))
     /\ Mutating(in) => TrustOk(in)
     /\ ~Blocked(in)
  \/ SelfService(in) /\ TrustOk(in)

\* The guards of the complete rule reason, by what they say; a rule of Rego with
\* two values at once is an error.
\* Mutant: nobody thought of one's own password.
Ordinary_Self(in) == ~IsEffectiveRoot(in.user) /\ ~Blocked(in)
Ordinary(in) == ~IsEffectiveRoot(in.user) /\ ~Blocked(in) /\ ~SelfService(in)
Privileged(in) == IsEffectiveRoot(in.user) /\ ~Blocked(in)
Entitled(in) == Ordinary(in) /\ HasPermission(in) /\ OrgScopeOk(in)
Gated(in) == Mutating(in) /\ (Privileged(in) \/ Entitled(in))
OwnPassword(in) == SelfService(in) /\ ~IsEffectiveRoot(in.user)
Says(in, r) ==
  \/ r = "rootReads"        /\ Privileged(in) /\ ~Mutating(in)
  \/ r = "rootWrites"       /\ Privileged(in) /\ Mutating(in) /\ TrustOk(in)
  \/ r = "reads"            /\ Entitled(in) /\ ~Mutating(in)
  \/ r = "writes"           /\ Entitled(in) /\ Mutating(in) /\ TrustOk(in)
  \/ r = "auditBroken"      /\ (Gated(in) \/ OwnPassword(in)) /\ ~in.audit
  \/ r = "opaBroken"        /\ Gated(in) /\ in.audit /\ ~in.opa
  \/ r = "jwtBroken"        /\ Gated(in) /\ in.audit /\ in.opa /\ ~in.jwt
  \/ r = "crossOrg"         /\ Ordinary(in) /\ HasPermission(in) /\ ~OrgScopeOk(in)
  \/ r = "noPermission"     /\ Ordinary(in) /\ ~HasPermission(in)
  \/ r = "ownPassword"      /\ OwnPassword(in) /\ TrustOk(in)
  \/ r = "policiesStay"     /\ Blocked(in) /\ in.type = "policy"
  \/ r = "platformKeysStay" /\ Blocked(in) /\ in.type = "platform_key"
Granting == {"rootReads", "rootWrites", "reads", "writes", "ownPassword"}
Refusing == {"auditBroken", "opaBroken", "jwtBroken", "crossOrg", "noPermission",
             "policiesStay", "platformKeysStay"}
Reasons(in) == {r \in Granting \cup Refusing : Says(in, r)}

-----------------------------------------------------------------------------
(* The routes and their requests.                                          *)
Route(action, type, names) == [action |-> action, type |-> type, names |-> names]
Routes ==
  {Route("create", t, "own") : t \in Types} \cup
  {Route(a, "trust_key", "row") : a \in {"update", "delete"}} \cup
  {Route("update", "policy", "row"), Route("read", "policy", "none"),
   Route("create", "role", "body"),
   Route("update", "platform_key", "none"), Route("update", "password", "self")}

\* Rows of earlier: absent, or root's work in an organisation or in none.
Init ==
  /\ owned \in [Types -> {None} \cup [org : Orgs \cup {Global}, by : {Root}]]
  /\ deciding = [h \in Handlers |-> None]
  /\ missed = {}
  /\ passed = 0

\* authorize(): the row of the path is looked up, a body's organisation is taken.
Ask(h) ==
  /\ deciding[h] = None /\ passed < MaxAsked
  /\ \E a \in Actors, r \in Routes :
     \E body \in IF r.names = "body" THEN Orgs \cup {None} ELSE {None} :
       deciding' = [deciding EXCEPT ![h] =
         [actor |-> a, route |-> r, body |-> body, pc |-> "decide",
          row |-> IF r.names = "row" THEN owned[r.type] ELSE None,
          stands |-> r.names = "row" => owned[r.type] # None]]
  /\ passed' = passed + 1
  /\ UNCHANGED <<owned, missed>>

\* The input document, with the signals as they are when OPA is asked.
Input(d, audit, opa, jwt) ==
  [user |-> d.actor, action |-> d.route.action, type |-> d.route.type,
   id |-> IF d.route.names = "self" THEN d.actor.id ELSE None,
   org |-> IF d.row = None \/ d.row.org = Global THEN None ELSE d.row.org,
   global |-> d.row # None /\ d.row.org = Global,
   target |-> CASE d.route.names = "own" -> d.actor.org
                [] d.route.names = "body" -> d.body
                [] OTHER -> None,
   audit |-> audit, opa |-> opa, jwt |-> jwt]

Decide(h) ==
  /\ deciding[h] # None /\ deciding[h].pc = "decide"
  /\ \E audit, opa, jwt \in BOOLEAN :
       deciding' = IF Allow(Input(deciding[h], audit, opa, jwt))
                   THEN [deciding EXCEPT ![h].pc = "handle"]
                   ELSE [deciding EXCEPT ![h] = None]
  /\ UNCHANGED <<owned, missed, passed>>

-----------------------------------------------------------------------------
(* The routes' transactions.                                               *)
Handles(h, action, type) ==
  /\ deciding[h] # None /\ deciding[h].pc = "handle"
  /\ deciding[h].route.action = action /\ deciding[h].route.type = type

\* The row of a type is written, with or without it having been found before.
Writes(h, t, row) ==
  /\ owned' = [owned EXCEPT ![t] = row]
  /\ missed' = IF deciding[h].stands THEN missed \ {t} ELSE missed \cup {t}
  /\ deciding' = [deciding EXCEPT ![h] = None]
Answers(h) == deciding' = [deciding EXCEPT ![h] = None] /\ UNCHANGED <<owned, missed>>

By(a) == IF IsEffectiveRoot(a) THEN Root ELSE a.org

\* POST: into the actor's organisation; root may name one, or null.  A body that is
\* refused, like a second key of a kid, changes nothing.
Create(h) ==
  /\ UNCHANGED passed
  /\ \E t \in Types :
       /\ Handles(h, "create", t)
       /\ \/ /\ owned[t] = None
             /\ \E o \in IF deciding[h].actor.root THEN Orgs \cup {Global} ELSE {deciding[h].actor.org} :
                  Writes(h, t, [org |-> o, by |-> By(deciding[h].actor)])
          \/ Answers(h)

\* PUT /policies/:id: savePolicyTx() inserts the row if there is none, with the
\* organisation of the body, and leaves org_id alone if there is one.  A body
\* that does not compile and a locked policy change nothing.
UpdatePolicy(h) ==
  /\ UNCHANGED passed
  /\ Handles(h, "update", "policy")
  /\ \/ \E o \in IF owned["policy"] = None THEN Orgs \cup {Global} ELSE {owned["policy"].org} :
          Writes(h, "policy", [org |-> o, by |-> By(deciding[h].actor)])
     \/ Answers(h)

\* PUT /trust-keys/:kid, its revocation and refresh: 404 without a row.
UpdateTrustKey(h) ==
  /\ UNCHANGED passed
  /\ Handles(h, "update", "trust_key")
  /\ \/ /\ owned["trust_key"] # None
        /\ Writes(h, "trust_key", [owned["trust_key"] EXCEPT !.by = By(deciding[h].actor)])
     \/ Answers(h)

\* DELETE /trust-keys/:kid of a revoked key: requests that found it lose it.
RowGone(d) ==
  IF d # None /\ d.route.names = "row" /\ d.route.type = "trust_key"
  THEN [d EXCEPT !.stands = FALSE] ELSE d

DeleteTrustKey(h) ==
  /\ UNCHANGED passed
  /\ Handles(h, "delete", "trust_key")
  /\ \/ /\ owned["trust_key"] # None
        /\ owned' = [owned EXCEPT !["trust_key"] = None]
        /\ missed' = missed \ {"trust_key"}
        /\ deciding' = [g \in Handlers |-> IF g = h THEN None ELSE RowGone(deciding[g])]
     \/ Answers(h)

\* Routes that touch no such row, and those that read.
Other(h) ==
  /\ UNCHANGED passed
  /\ deciding[h] # None /\ deciding[h].pc = "handle"
  /\ deciding[h].route.action = "read" \/ deciding[h].route.type \notin Types
  /\ Answers(h)

Next ==
  \E h \in Handlers :
    Ask(h) \/ Decide(h) \/ Create(h) \/ UpdatePolicy(h) \/ UpdateTrustKey(h)
      \/ DeleteTrustKey(h) \/ Other(h)

Spec == Init /\ [][Next]_zVars

-----------------------------------------------------------------------------
(* The rows and the requests keep their shape.                             *)
TypeOK ==
  /\ owned \in [Types -> {None} \cup [org : Orgs \cup {Global}, by : Orgs \cup {Root}]]
  /\ missed \subseteq Types /\ passed \in 0..MaxAsked
  /\ \A h \in Handlers : deciding[h] # None =>
       deciding[h].actor \in Actors /\ deciding[h].route \in Routes
       /\ deciding[h].pc \in {"decide", "handle"}

(* A row was last written by its own organisation or by root, although its *)
(* owner is looked up before the decision and the route reads it later.    *)
(* The exception is a look-up that found no row, or one replaced since:    *)
(* authorize.js:76-81 leaves those to the route's 404, while the           *)
(* PUT of a policy inserts the row, and any route takes the row there is.  *)
TenantsApart ==
  \A t \in Types : owned[t] # None => t \in missed \/ owned[t].by \in {Root, owned[t].org}

(* Whatever the signals are when OPA is asked, the rule reason has at most *)
(* one value (studio_authz.rego:173), it is one that grants exactly when   *)
(* allow holds, and a broken signal freezes what would change anything.    *)
DecisionIsOne ==
  \A h \in Handlers : deciding[h] # None /\ deciding[h].pc = "decide" =>
    \A audit, opa, jwt \in BOOLEAN :
      LET in == Input(deciding[h], audit, opa, jwt)
          why == Reasons(in) IN
      /\ Cardinality(why) <= 1
      /\ Allow(in) <=> why \cap Granting # {}
      /\ Allow(in) /\ Mutating(in) => TrustOk(in)
=============================================================================
