------------------------------ MODULE Callers ------------------------------
(***************************************************************************)
(* The identities of PEP callers and their grants: the routes of           *)
(* pepCallers.js, callerAccess.js and policyCallers.js over pep_callers    *)
(* and pep_caller_policy_access.  Each route reads and checks first and    *)
(* writes later, in a transaction that looks at little of it again.        *)
(***************************************************************************)
EXTENDS Integers, FiniteSets

CONSTANTS
  CallerIds,
  Granted,     \* policies that can be granted
  Cns,         \* common names of client certificates
  Admins,      \* requests being handled at once
  None,        \* no row, no common name, no request
  MaxCreates,  \* bound on callers created
  MaxChanges   \* bound on the other changes of callers and policies

Modes == {"hmac", "mtls", "jwt"}
CallerRows == [mode : Modes, secret : BOOLEAN, cn : Cns \cup {None},
               status : {"active", "revoked"}, nth : Nat]

CallersAssumption ==
  {MaxCreates, MaxChanges} \subseteq Nat /\ None \notin Cns \cup CallerRows

VARIABLES
  callers,   \* table pep_callers, with the number of its creation
  grants,    \* table pep_caller_policy_access, with the creation they were asked for
  locked,    \* the policies that are locked
  handling,  \* requests, between their checks and their transaction
  created,   \* callers created so far
  reborn,    \* history: callers deleted while a request about them was under way
  edited

caVars == <<callers, grants, locked, handling, created, reborn, edited>>

Caller(mode, cn, n) ==
  [mode |-> mode, secret |-> mode = "hmac", cn |-> cn, status |-> "active", nth |-> n]

Row(c) == callers[c] # None
Active(c) == Row(c) /\ callers[c].status = "active"

Init ==
  /\ callers = [c \in CallerIds |-> None]
  /\ grants = {}
  /\ locked = {}
  /\ handling = [a \in Admins |-> None]
  /\ created = 0
  /\ reborn = {}
  /\ edited = 0

-----------------------------------------------------------------------------
Check(a, op, c, arg) ==
  /\ handling[a] = None
  /\ handling' = [handling EXCEPT ![a] =
       [op |-> op, caller |-> c, arg |-> arg, nth |-> IF Row(c) THEN callers[c].nth ELSE 0]]
  /\ UNCHANGED <<callers, grants, locked, created, reborn, edited>>

\* POST /: no row has the id; an mtls caller, and no other, brings a CN.
CheckCreate(a) ==
  \E c \in CallerIds, mode \in Modes, cn \in Cns \cup {None} :
    /\ ~Row(c) /\ (mode = "mtls" <=> cn # None)
    /\ Check(a, "create", c, [mode |-> mode, cn |-> cn])

\* Mutant: the mode is not looked at.
CheckUpdate_AnyMode(a) ==
  \E c \in CallerIds, cn \in Cns : Active(c) /\ Check(a, "update", c, cn)

\* PUT /:id: parsePatch() looks at the mode: allowedCn is for mtls callers.
CheckUpdate(a) ==
  \E c \in CallerIds, cn \in Cns :
    Active(c) /\ callers[c].mode = "mtls" /\ Check(a, "update", c, cn)

\* POST /:id/rotate-secret: for hmac callers.
CheckRotateSecret(a) ==
  \E c \in CallerIds : Active(c) /\ callers[c].mode = "hmac" /\ Check(a, "rotate", c, None)

CheckRevoke(a) == \E c \in CallerIds : Active(c) /\ Check(a, "revoke", c, None)

\* POST access, from the caller's side or the policy's.
CheckGrant(a) ==
  \E c \in CallerIds, p \in Granted \ locked : Active(c) /\ Check(a, "grant", c, p)

\* DELETE access, from either side; a policy in scope by a tag alone is 409.
CheckRevokeGrant(a) ==
  \E c \in CallerIds, p \in Granted : Row(c) /\ Check(a, "ungrant", c, p)

Asked(a, op) == handling[a] # None /\ handling[a].op = op
Answer(a) == handling' = [handling EXCEPT ![a] = None]

-----------------------------------------------------------------------------
\* pep_callers_mtls_cn_uniq: active mtls rows have a CN each of their own.
\* Mutant: there is no such index.
CnFree_NoIndex(cn, c, rows) == TRUE
CnFree(cn, c, rows) ==
  \A d \in CallerIds \ {c} :
    rows[d] # None => ~(rows[d].status = "active" /\ rows[d].mode = "mtls" /\ rows[d].cn = cn)
IndexAllows(c, row) == row.status = "active" /\ row.mode = "mtls" => CnFree(row.cn, c, callers)

\* createPepCallerTx(): or the key or the index refuses the row.
Create(a) ==
  LET c == handling[a].caller
      row == Caller(handling[a].arg.mode, handling[a].arg.cn, created + 1) IN
  /\ Asked(a, "create") /\ Answer(a) /\ created < MaxCreates
  /\ IF ~Row(c) /\ IndexAllows(c, row)
     THEN callers' = [callers EXCEPT ![c] = row] /\ created' = created + 1
     ELSE UNCHANGED <<callers, created>>
  /\ UNCHANGED <<grants, locked, reborn, edited>>

Change(a, op) == Asked(a, op) /\ Answer(a) /\ edited < MaxChanges /\ edited' = edited + 1

\* updatePepCallerTx(): of the row that has the id by then.
Update(a) ==
  LET c == handling[a].caller
      row == [callers[c] EXCEPT !.cn = handling[a].arg] IN
  /\ Change(a, "update")
  /\ callers' = IF Row(c) /\ IndexAllows(c, row) THEN [callers EXCEPT ![c] = row] ELSE callers
  /\ UNCHANGED <<grants, locked, created, reborn>>

RotateSecret(a) ==
  LET c == handling[a].caller IN
  /\ Change(a, "rotate")
  /\ callers' = IF Row(c) THEN [callers EXCEPT ![c].secret = TRUE] ELSE callers
  /\ UNCHANGED <<grants, locked, created, reborn>>

Revoke(a) ==
  LET c == handling[a].caller IN
  /\ Change(a, "revoke")
  /\ callers' = IF Row(c) THEN [callers EXCEPT ![c].status = "revoked"] ELSE callers
  /\ UNCHANGED <<grants, locked, created, reborn>>

\* grantCallerAccessTx(): a pair there is stays; no row of the caller is an error.
Grant(a) ==
  LET c == handling[a].caller
      Has == \E g \in grants : g.caller = c /\ g.policy = handling[a].arg IN
  /\ Change(a, "grant")
  /\ grants' = IF Row(c) /\ ~Has
               THEN grants \cup {[caller |-> c, policy |-> handling[a].arg, nth |-> handling[a].nth]}
               ELSE grants
  /\ UNCHANGED <<callers, locked, created, reborn>>

RevokeGrant(a) ==
  /\ Change(a, "ungrant")
  /\ grants' = {g \in grants : ~(g.caller = handling[a].caller /\ g.policy = handling[a].arg)}
  /\ UNCHANGED <<callers, locked, created, reborn>>

\* deletePepCallerTx(): a revoked row goes, and its grants with it (CASCADE).
\* Mutant: the foreign key does not cascade.
Cascade_None(c) == grants' = grants
Cascade(c) == grants' = {g \in grants : g.caller # c}
Delete(c) ==
  /\ Row(c) /\ callers[c].status = "revoked" /\ edited < MaxChanges
  /\ callers' = [callers EXCEPT ![c] = None]
  /\ Cascade(c)
  /\ reborn' = reborn \cup
       {d \in {c} : \E a \in Admins : handling[a] # None /\ handling[a].caller = c}
  /\ edited' = edited + 1
  /\ UNCHANGED <<locked, handling, created>>

\* A policy is locked or unlocked: its grants stay in the table.
LockPolicy(p) ==
  /\ locked' = IF p \in locked THEN locked \ {p} ELSE locked \cup {p}
  /\ edited < MaxChanges /\ edited' = edited + 1
  /\ UNCHANGED <<callers, grants, handling, created, reborn>>

Next ==
  \/ \E a \in Admins : CheckCreate(a) \/ CheckUpdate(a) \/ CheckRotateSecret(a) \/ CheckRevoke(a)
       \/ CheckGrant(a) \/ CheckRevokeGrant(a) \/ Create(a) \/ Update(a) \/ RotateSecret(a)
       \/ Revoke(a) \/ Grant(a) \/ RevokeGrant(a)
  \/ \E c \in CallerIds : Delete(c)
  \/ \E p \in Granted : LockPolicy(p)

Spec == Init /\ [][Next]_caVars

-----------------------------------------------------------------------------
(* The tables keep their shape.                                            *)
TypeOK ==
  /\ \A c \in CallerIds : Row(c) => callers[c] \in
       [mode : Modes, secret : BOOLEAN, cn : Cns \cup {None}, status : {"active", "revoked"},
        nth : 1..MaxCreates]
  /\ grants \subseteq [caller : CallerIds, policy : Granted, nth : 0..MaxCreates]
  /\ locked \subseteq Granted /\ created \in 0..MaxCreates

(* A caller carries what its mode needs and nothing another mode would     *)
(* take: an edit that was begun is written by id alone, and only a         *)
(* deletion and a new caller of that id in between can mix the two.        *)
ModeHasItsMaterial ==
  \A c \in CallerIds \ reborn : Row(c) =>
    /\ callers[c].secret <=> callers[c].mode = "hmac"
    /\ callers[c].cn # None <=> callers[c].mode = "mtls"

(* A caller holds what was granted to it, never the grants of one who had  *)
(* its id before: deletion takes them along, and only a grant already      *)
(* under way when the caller was deleted can fall to the next.             *)
GrantsAreOurs ==
  \A g \in grants : Row(g.caller) /\
    (g.caller \notin reborn => g.nth = callers[g.caller].nth)

(* A common name leads to one active mtls caller, whatever order two       *)
(* creations, edits and revocations come in.                               *)
OneCallerPerCn ==
  \A c, d \in CallerIds : Active(c) /\ Active(d) /\ c # d
    /\ callers[c].mode = "mtls" /\ callers[d].mode = "mtls" => callers[c].cn # callers[d].cn
=============================================================================
