--------------------------- MODULE RoutesProofs ---------------------------
(***************************************************************************)
(* The safety properties of the run of MCRoutes, for every value of its    *)
(* constants: any number of requests, rows, users and time-outs.  What a   *)
(* part does is a behaviour of its component, whose proof module has the   *)
(* theorem; those of Callers, Directory and PoolAndLock are proved here.   *)
(***************************************************************************)
EXTENDS MCRoutes, FiniteSetTheorems, TLAPS

-----------------------------------------------------------------------------
(* The inductive invariant.  What a request checked about a caller still   *)
(* holds when it writes, unless the caller was deleted meanwhile and is    *)
(* in reborn: modes never change, and only deletion removes a row.         *)

CallersType ==
  /\ callers \in [CallerIds -> {None} \cup C!CallerRows]
  /\ DOMAIN handling = Admins
  /\ created \in Nat
  /\ \A a \in Admins : handling[a] # None => handling[a].caller \in CallerIds
  /\ \A g \in grants : g.caller \in CallerIds

\* What the routes made sure of before they asked for the transaction.
AskedWell ==
  \A a \in Admins :
    /\ C!Asked(a, "create") =>
         /\ handling[a].arg.mode \in C!Modes /\ handling[a].arg.cn \in Cns \cup {None}
         /\ (handling[a].arg.mode = "mtls" <=> handling[a].arg.cn # None)
    /\ C!Asked(a, "update") => handling[a].arg \in Cns

\* What they found about the caller, as long as it is the same one.
Found(c, op, nth) ==
  /\ op = "update" => C!Row(c) /\ callers[c].mode = "mtls"
  /\ op = "rotate" => C!Row(c) /\ callers[c].mode = "hmac"
  /\ op = "grant" => C!Row(c) /\ callers[c].nth = nth
FoundStands ==
  \A a \in Admins : handling[a] # None /\ handling[a].caller \notin reborn =>
    Found(handling[a].caller, handling[a].op, handling[a].nth)

CallersInv ==
  /\ CallersType /\ AskedWell /\ FoundStands
  /\ C!ModeHasItsMaterial /\ C!GrantsAreOurs /\ C!OneCallerPerCn

LEMMA InitCallers == ASSUME C!CallersAssumption, C!Init PROVE CallersInv
BY DEF C!CallersAssumption, C!Init, CallersInv, CallersType, AskedWell, FoundStands, C!Asked,
       C!ModeHasItsMaterial, C!GrantsAreOurs, C!OneCallerPerCn, C!Active, C!Row

\* The checks of a route only leave a note of what they found.
LEMMA CheckCallers ==
  ASSUME CallersInv, NEW a \in Admins, NEW op, NEW c \in CallerIds, NEW arg, C!Check(a, op, c, arg),
         op = "create" => /\ arg.mode \in C!Modes /\ arg.cn \in Cns \cup {None}
                          /\ arg.mode = "mtls" <=> arg.cn # None,
         op = "update" => arg \in Cns /\ C!Row(c) /\ callers[c].mode = "mtls",
         op = "rotate" => C!Row(c) /\ callers[c].mode = "hmac",
         op = "grant" => C!Row(c)
  PROVE  CallersInv'
<1> USE DEF CallersInv, C!Check, C!Row
<1>1. /\ \A b \in Admins \ {a} : handling'[b] = handling[b]
      /\ handling'[a] = [op |-> op, caller |-> c, arg |-> arg,
                         nth |-> IF C!Row(c) THEN callers[c].nth ELSE 0]
      /\ DOMAIN handling' = Admins
  BY DEF CallersType
<1>2. CallersType'
  BY <1>1 DEF CallersType
<1>3. AskedWell'
  BY <1>1 DEF AskedWell, C!Asked
<1>4. FoundStands'
  BY <1>1 DEF FoundStands, Found
<1>5. C!ModeHasItsMaterial' /\ C!GrantsAreOurs' /\ C!OneCallerPerCn'
  BY DEF C!ModeHasItsMaterial, C!GrantsAreOurs, C!OneCallerPerCn, C!Active
<1> QED BY <1>2, <1>3, <1>4, <1>5

-----------------------------------------------------------------------------
(* A request that has written is answered: what the others found stands.   *)
LEMMA AnswerKeepsAsked ==
  ASSUME CallersType, AskedWell, NEW a \in Admins, C!Answer(a)  PROVE AskedWell'
BY DEF CallersType, AskedWell, C!Asked, C!Answer

LEMMA CreateCallers ==
  ASSUME C!CallersAssumption, CallersInv, NEW a \in Admins, C!Create(a)  PROVE CallersInv'
<1> DEFINE c == handling[a].caller
           row == C!Caller(handling[a].arg.mode, handling[a].arg.cn, created + 1)
<1> USE DEF CallersInv, C!Row
<1>1. c \in CallerIds /\ AskedWell'
  BY AnswerKeepsAsked DEF C!Create, C!Asked, CallersType
<1>2. handling' = [handling EXCEPT ![a] = None] /\ UNCHANGED <<grants, locked, reborn, edited>>
  BY DEF C!Create, C!Answer
<1>3. CASE UNCHANGED <<callers, created>>
  <2>1. CallersType'
    BY <1>2, <1>3 DEF CallersType
  <2>2. FoundStands'
    BY <1>2, <1>3 DEF FoundStands, Found, CallersType
  <2>3. C!ModeHasItsMaterial' /\ C!GrantsAreOurs' /\ C!OneCallerPerCn'
    BY <1>2, <1>3 DEF C!ModeHasItsMaterial, C!GrantsAreOurs, C!OneCallerPerCn, C!Active
  <2> QED BY <1>1, <2>1, <2>2, <2>3
<1>4. CASE ~C!Row(c) /\ C!IndexAllows(c, row) /\ callers' = [callers EXCEPT ![c] = row]
           /\ created' = created + 1
  <2>0. /\ handling[a].arg.mode \in C!Modes /\ handling[a].arg.cn \in Cns \cup {None}
        /\ handling[a].arg.mode = "mtls" <=> handling[a].arg.cn # None
    BY DEF C!Create, AskedWell
  <2>a. created + 1 \in Nat
    BY DEF CallersType
  <2>1. /\ row \in C!CallerRows /\ row.status = "active"
        /\ row.cn # None <=> row.mode = "mtls"
        /\ row.secret <=> row.mode = "hmac"
    BY <2>0, <2>a DEF C!Caller, C!CallerRows
  <2>2. CallersType'
    BY <1>1, <1>2, <1>4, <2>1, <2>a DEF CallersType
  <2>3. FoundStands'
    BY <1>1, <1>2, <1>4 DEF FoundStands, Found, CallersType
  <2>4. C!ModeHasItsMaterial'
    BY <1>1, <1>2, <1>4, <2>1 DEF C!ModeHasItsMaterial, CallersType
  <2>5. C!GrantsAreOurs'
    BY <1>1, <1>2, <1>4, <2>1 DEF C!GrantsAreOurs, CallersType, C!CallersAssumption
  <2>6. C!OneCallerPerCn'
    BY <1>1, <1>2, <1>4, <2>1 DEF C!OneCallerPerCn, C!Active, C!IndexAllows, C!CnFree, CallersType
  <2> QED BY <1>1, <2>2, <2>3, <2>4, <2>5, <2>6
<1> QED BY <1>3, <1>4 DEF C!Create

\* Edits of a row: its mode and its number stay.
LEMMA EditCallers ==
  ASSUME C!CallersAssumption, CallersInv, NEW a \in Admins,
         C!Answer(a), UNCHANGED <<grants, locked, created, reborn>>,
         NEW c \in CallerIds, C!Row(c), NEW row \in C!CallerRows,
         callers' = [callers EXCEPT ![c] = row],
         row.mode = callers[c].mode, row.nth = callers[c].nth,
         row.status \in {callers[c].status, "revoked"}, C!IndexAllows(c, row),
         c \notin reborn => (row.secret <=> row.mode = "hmac") /\ (row.cn # None <=> row.mode = "mtls")
  PROVE  CallersInv'
<1> USE DEF CallersInv, C!Row
<1>1. AskedWell'
  BY AnswerKeepsAsked
<1>2. CallersType'
  BY DEF CallersType, C!Answer
<1>3. FoundStands'
  BY DEF FoundStands, Found, CallersType, C!Answer, C!CallersAssumption
<1>4. C!ModeHasItsMaterial' /\ C!GrantsAreOurs'
  BY DEF C!ModeHasItsMaterial, C!GrantsAreOurs, CallersType, C!CallersAssumption
<1>5. C!OneCallerPerCn'
  BY DEF C!OneCallerPerCn, C!Active, C!IndexAllows, C!CnFree, CallersType
<1> QED BY <1>1, <1>2, <1>3, <1>4, <1>5

\* A request that changes nothing but grants, by taking them away or asking for one
\* that is its caller's.
LEMMA RegrantCallers ==
  ASSUME CallersInv, NEW a \in Admins,
         C!Answer(a), UNCHANGED <<callers, locked, created, reborn>>,
         \A g \in grants' \ grants :
           /\ g.caller \in CallerIds /\ C!Row(g.caller)
           /\ g.caller \notin reborn => g.nth = callers[g.caller].nth
  PROVE  CallersInv'
<1> USE DEF CallersInv, C!Row
<1>1. AskedWell' /\ CallersType' /\ FoundStands'
  BY AnswerKeepsAsked DEF CallersType, FoundStands, Found, C!Answer
<1>2. C!ModeHasItsMaterial' /\ C!GrantsAreOurs' /\ C!OneCallerPerCn'
  BY DEF C!ModeHasItsMaterial, C!GrantsAreOurs, C!OneCallerPerCn, C!Active
<1> QED BY <1>1, <1>2

LEMMA DeleteCallers ==
  ASSUME C!CallersAssumption, CallersInv, NEW c \in CallerIds, C!Delete(c)  PROVE CallersInv'
<1> USE DEF CallersInv, C!Row, C!Delete, C!Cascade
<1>1. reborn \subseteq reborn'
      /\ \A a \in Admins : handling[a] # None /\ handling[a].caller = c => c \in reborn'
  OBVIOUS
<1>2. CallersType' /\ AskedWell'
  BY DEF CallersType, AskedWell, C!Asked
<1>3. FoundStands'
  BY <1>1 DEF FoundStands, Found, CallersType
<1>4. C!ModeHasItsMaterial' /\ C!GrantsAreOurs' /\ C!OneCallerPerCn'
  BY <1>1 DEF C!ModeHasItsMaterial, C!GrantsAreOurs, C!OneCallerPerCn, C!Active, CallersType
<1> QED BY <1>2, <1>3, <1>4

LEMMA LockCallers ==
  ASSUME CallersInv, NEW p \in Granted, C!LockPolicy(p)  PROVE CallersInv'
BY DEF CallersInv, C!LockPolicy, CallersType, AskedWell, C!Asked, FoundStands, Found, C!Row,
       C!ModeHasItsMaterial, C!GrantsAreOurs, C!OneCallerPerCn, C!Active

-----------------------------------------------------------------------------
LEMMA CheckingCallers ==
  ASSUME CallersInv, NEW a \in Admins,
         C!CheckCreate(a) \/ C!CheckUpdate(a) \/ C!CheckRotateSecret(a) \/ C!CheckRevoke(a)
           \/ C!CheckGrant(a) \/ C!CheckRevokeGrant(a)
  PROVE  CallersInv'
<1>1. CASE C!CheckCreate(a)
  <2>1. PICK c \in CallerIds, mode \in C!Modes, cn \in Cns \cup {None} :
          (mode = "mtls" <=> cn # None) /\ C!Check(a, "create", c, [mode |-> mode, cn |-> cn])
    BY <1>1 DEF C!CheckCreate
  <2> QED BY ONLY CallersInv, <2>1, CheckCallers
<1>2. CASE C!CheckUpdate(a)
  <2>1. PICK c \in CallerIds, cn \in Cns :
          C!Row(c) /\ callers[c].mode = "mtls" /\ C!Check(a, "update", c, cn)
    BY <1>2 DEF C!CheckUpdate, C!Active
  <2> QED BY ONLY CallersInv, <2>1, CheckCallers
<1>3. CASE C!CheckRotateSecret(a)
  BY <1>3, CheckCallers DEF C!CheckRotateSecret, C!Active
<1>4. CASE C!CheckRevoke(a)
  BY <1>4, CheckCallers DEF C!CheckRevoke
<1>5. CASE C!CheckGrant(a)
  BY <1>5, CheckCallers DEF C!CheckGrant, C!Active
<1>6. CASE C!CheckRevokeGrant(a)
  BY <1>6, CheckCallers DEF C!CheckRevokeGrant
<1> QED BY <1>1, <1>2, <1>3, <1>4, <1>5, <1>6

LEMMA WritingCallers ==
  ASSUME C!CallersAssumption, CallersInv, NEW a \in Admins,
         C!Update(a) \/ C!RotateSecret(a) \/ C!Revoke(a) \/ C!Grant(a) \/ C!RevokeGrant(a)
  PROVE  CallersInv'
<1> DEFINE c == handling[a].caller
<1>1. c \in CallerIds /\ C!Answer(a) /\ handling[a] # None
  BY DEF CallersInv, CallersType, C!Update, C!RotateSecret, C!Revoke, C!Grant, C!RevokeGrant, C!Change, C!Asked
<1>2. ASSUME UNCHANGED <<callers, grants, locked, created, reborn>>  PROVE CallersInv'
  BY <1>1, <1>2, RegrantCallers
<1>3. C!Row(c) => callers[c] \in C!CallerRows
  BY <1>1 DEF CallersInv, CallersType, C!Row
<1>4. CASE C!Update(a)
  <2> DEFINE row == [callers[c] EXCEPT !.cn = handling[a].arg]
  <2>1. handling[a].arg \in Cns /\ handling[a].arg # None
    BY <1>4 DEF CallersInv, AskedWell, C!Update, C!Change, C!CallersAssumption
  <2>2. CASE C!Row(c) /\ C!IndexAllows(c, row)
    <3>1. callers' = [callers EXCEPT ![c] = row] /\ UNCHANGED <<grants, locked, created, reborn>>
      BY <1>4, <2>2 DEF C!Update
    <3>2. /\ row \in C!CallerRows /\ row.mode = callers[c].mode /\ row.nth = callers[c].nth
          /\ row.status = callers[c].status /\ row.secret = callers[c].secret
          /\ row.cn = handling[a].arg
      BY <1>3, <2>1, <2>2 DEF C!CallerRows
    <3>3. c \notin reborn => callers[c].mode = "mtls"
      BY <1>1, <1>4 DEF CallersInv, FoundStands, Found, C!Update, C!Change, C!Asked
    <3>4. c \notin reborn => (row.secret <=> row.mode = "hmac") /\ (row.cn # None <=> row.mode = "mtls")
      BY <1>1, <2>1, <2>2, <3>2, <3>3 DEF CallersInv, C!ModeHasItsMaterial
    <3> QED BY <1>1, <2>2, <3>1, <3>2, <3>4, EditCallers
  <2>3. CASE ~(C!Row(c) /\ C!IndexAllows(c, row))
    BY <1>2, <1>4, <2>3 DEF C!Update
  <2> QED BY <2>2, <2>3
<1>5. CASE C!RotateSecret(a)
  <2> DEFINE row == [callers[c] EXCEPT !.secret = TRUE]
  <2>1. CASE C!Row(c)
    <3>1. callers' = [callers EXCEPT ![c] = row] /\ UNCHANGED <<grants, locked, created, reborn>>
      BY <1>5, <2>1 DEF C!RotateSecret
    <3>2. /\ row \in C!CallerRows /\ row.mode = callers[c].mode /\ row.nth = callers[c].nth
          /\ row.status = callers[c].status /\ row.secret = TRUE /\ row.cn = callers[c].cn
      BY <1>3, <2>1 DEF C!CallerRows
    <3>3. C!IndexAllows(c, row)
      BY <1>1, <2>1, <3>2 DEF CallersInv, C!OneCallerPerCn, C!IndexAllows, C!CnFree, C!Active, C!Row
    <3>4. c \notin reborn => callers[c].mode = "hmac"
      BY <1>1, <1>5 DEF CallersInv, FoundStands, Found, C!RotateSecret, C!Change, C!Asked
    <3>5. c \notin reborn => (row.secret <=> row.mode = "hmac") /\ (row.cn # None <=> row.mode = "mtls")
      BY <1>1, <2>1, <3>2, <3>4 DEF CallersInv, C!ModeHasItsMaterial
    <3> QED BY <1>1, <2>1, <3>1, <3>2, <3>3, <3>5, EditCallers
  <2>2. CASE ~C!Row(c)
    BY <1>2, <1>5, <2>2 DEF C!RotateSecret
  <2> QED BY <2>1, <2>2
<1>6. CASE C!Revoke(a)
  <2> DEFINE row == [callers[c] EXCEPT !.status = "revoked"]
  <2>1. CASE C!Row(c)
    <3>1. callers' = [callers EXCEPT ![c] = row] /\ UNCHANGED <<grants, locked, created, reborn>>
      BY <1>6, <2>1 DEF C!Revoke
    <3>2. /\ row \in C!CallerRows /\ row.mode = callers[c].mode /\ row.nth = callers[c].nth
          /\ row.status = "revoked" /\ row.secret = callers[c].secret /\ row.cn = callers[c].cn
      BY <1>3, <2>1 DEF C!CallerRows
    <3>3. C!IndexAllows(c, row)
      BY <3>2 DEF C!IndexAllows
    <3>4. c \notin reborn => (row.secret <=> row.mode = "hmac") /\ (row.cn # None <=> row.mode = "mtls")
      BY <1>1, <2>1, <3>2 DEF CallersInv, C!ModeHasItsMaterial
    <3> QED BY <1>1, <2>1, <3>1, <3>2, <3>3, <3>4, EditCallers
  <2>2. CASE ~C!Row(c)
    BY <1>2, <1>6, <2>2 DEF C!Revoke
  <2> QED BY <2>1, <2>2
<1>7. CASE C!Grant(a)
  <2>1. \A g \in grants' \ grants :
          C!Row(g.caller) /\ g = [caller |-> c, policy |-> handling[a].arg, nth |-> handling[a].nth]
    BY <1>7 DEF C!Grant
  <2>2. c \notin reborn => callers[c].nth = handling[a].nth
    BY <1>1, <1>7 DEF CallersInv, FoundStands, Found, C!Grant, C!Change, C!Asked
  <2> QED BY <1>1, <1>7, <2>1, <2>2, RegrantCallers DEF C!Grant
<1>8. CASE C!RevokeGrant(a)
  <2>1. grants' \subseteq grants /\ UNCHANGED <<callers, locked, created, reborn>>
    BY <1>8 DEF C!RevokeGrant
  <2> QED BY <1>1, <2>1, RegrantCallers
<1> QED BY <1>4, <1>5, <1>6, <1>7, <1>8

LEMMA CallersStep ==
  ASSUME C!CallersAssumption, CallersInv, [C!Next]_(C!caVars)  PROVE CallersInv'
<1>1. CASE UNCHANGED C!caVars
  BY <1>1 DEF C!caVars, CallersInv, CallersType, AskedWell, C!Asked, FoundStands, Found, C!Row,
              C!ModeHasItsMaterial, C!GrantsAreOurs, C!OneCallerPerCn, C!Active
<1>2. CASE C!Next
  BY <1>2, CheckingCallers, WritingCallers, CreateCallers, DeleteCallers, LockCallers DEF C!Next
<1> QED BY <1>1, <1>2

LEMMA CallersHolds == ASSUME C!CallersAssumption PROVE C!Spec => []CallersInv
<1>1. C!Init => CallersInv
  BY InitCallers
<1>2. CallersInv /\ [C!Next]_(C!caVars) => CallersInv'
  BY CallersStep
<1> QED BY <1>1, <1>2, PTL DEF C!Spec

-----------------------------------------------------------------------------
(* The shape of the tables of Callers.                                     *)

CallersShape ==
  /\ created <= MaxCreates
  /\ \A c \in CallerIds : C!Row(c) => callers[c].nth \in 1..MaxCreates
  /\ \A a \in Admins : handling[a] # None =>
       /\ handling[a].nth \in 0..MaxCreates
       /\ handling[a].op = "grant" => handling[a].arg \in Granted
  /\ grants \subseteq [caller : CallerIds, policy : Granted, nth : 0..MaxCreates]
  /\ locked \subseteq Granted

LEMMA CheckShape ==
  ASSUME C!CallersAssumption, CallersInv, CallersShape, NEW a \in Admins, NEW op, NEW c \in CallerIds,
         NEW arg, C!Check(a, op, c, arg), op = "grant" => arg \in Granted
  PROVE  CallersShape'
<1> DEFINE new == [op |-> op, caller |-> c, arg |-> arg, nth |-> IF C!Row(c) THEN callers[c].nth ELSE 0]
<1>1. new.nth \in 0..MaxCreates /\ new.op = op /\ new.arg = arg
  BY DEF CallersShape, C!CallersAssumption
<1>2. handling' = [handling EXCEPT ![a] = new]
      /\ UNCHANGED <<callers, grants, locked, created>>
  BY DEF C!Check
<1> HIDE DEF new
<1>3. \A b \in Admins : handling'[b] = IF b = a THEN new ELSE handling[b]
  BY <1>2 DEF CallersInv, CallersType
<1> QED BY <1>1, <1>2, <1>3 DEF CallersShape, C!Row

\* A request is answered; it may have edited a row, whose number stays.
LEMMA AnswerShape ==
  ASSUME CallersInv, CallersShape, NEW a \in Admins, C!Answer(a),
         UNCHANGED <<locked, created>>,
         \A c \in CallerIds : C!Row(c)' => C!Row(c) /\ callers'[c].nth = callers[c].nth,
         grants' \subseteq [caller : CallerIds, policy : Granted, nth : 0..MaxCreates]
  PROVE  CallersShape'
<1>1. \A b \in Admins : handling'[b] # None => handling'[b] = handling[b] /\ handling[b] # None
  BY DEF C!Answer, CallersInv, CallersType
<1> QED BY <1>1 DEF CallersShape

LEMMA CallersShapeStep ==
  ASSUME C!CallersAssumption, CallersInv, CallersShape, [C!Next]_(C!caVars) PROVE CallersShape'
<1>0. callers \in [CallerIds -> {None} \cup C!CallerRows] /\ created \in Nat /\ MaxCreates \in Nat
      /\ \A a \in Admins : handling[a] # None => handling[a].caller \in CallerIds
  BY DEF CallersInv, CallersType, C!CallersAssumption
<1>1. CASE UNCHANGED C!caVars
  BY <1>1 DEF C!caVars, CallersShape, C!Row
<1>2. ASSUME NEW a \in Admins,
             C!CheckCreate(a) \/ C!CheckUpdate(a) \/ C!CheckRotateSecret(a) \/ C!CheckRevoke(a)
               \/ C!CheckGrant(a) \/ C!CheckRevokeGrant(a)
      PROVE  CallersShape'
  <2>1. CASE C!CheckCreate(a)
    <3>1. PICK c \in CallerIds, mode \in C!Modes, cn \in Cns \cup {None} :
             C!Check(a, "create", c, [mode |-> mode, cn |-> cn])
      BY <2>1 DEF C!CheckCreate
    <3> QED BY <3>1, CheckShape
  <2>2. CASE C!CheckUpdate(a)
    <3>1. PICK c \in CallerIds, cn \in Cns : C!Check(a, "update", c, cn)
      BY <2>2 DEF C!CheckUpdate
    <3> QED BY <3>1, CheckShape
  <2>3. CASE C!CheckRotateSecret(a)
    <3>1. PICK c \in CallerIds : C!Check(a, "rotate", c, None)
      BY <2>3 DEF C!CheckRotateSecret
    <3> QED BY <3>1, CheckShape
  <2>4. CASE C!CheckRevoke(a)
    <3>1. PICK c \in CallerIds : C!Check(a, "revoke", c, None)
      BY <2>4 DEF C!CheckRevoke
    <3> QED BY <3>1, CheckShape
  <2>5. CASE C!CheckGrant(a)
    <3>1. PICK c \in CallerIds, p \in Granted : C!Check(a, "grant", c, p)
      BY <2>5 DEF C!CheckGrant
    <3> QED BY <3>1, CheckShape
  <2>6. CASE C!CheckRevokeGrant(a)
    <3>1. PICK c \in CallerIds, p \in Granted : C!Check(a, "ungrant", c, p)
      BY <2>6 DEF C!CheckRevokeGrant
    <3> QED BY <3>1, CheckShape
  <2> QED BY <1>2, <2>1, <2>2, <2>3, <2>4, <2>5, <2>6
<1>3. ASSUME NEW a \in Admins, C!Create(a) PROVE CallersShape'
  <2> DEFINE c == handling[a].caller
             row == C!Caller(handling[a].arg.mode, handling[a].arg.cn, created + 1)
  <2>1. c \in CallerIds /\ C!Answer(a) /\ created < MaxCreates /\ UNCHANGED <<grants, locked>>
    BY <1>0, <1>3 DEF C!Create, C!Asked
  <2>2. row.nth = created + 1
    BY DEF C!Caller
  <2>3. CASE UNCHANGED <<callers, created>>
    BY <2>1, <2>3, AnswerShape DEF CallersShape, C!Row
  <2>4. CASE callers' = [callers EXCEPT ![c] = row] /\ created' = created + 1
    <3> HIDE DEF row
    <3>1. \A d \in CallerIds : callers'[d] = IF d = c THEN row ELSE callers[d]
      BY <1>0, <2>4
    <3>2. \A b \in Admins : handling'[b] # None => handling'[b] = handling[b] /\ handling[b] # None
      BY <2>1 DEF C!Answer, CallersInv, CallersType
    <3> QED BY <1>0, <2>1, <2>2, <2>4, <3>1, <3>2 DEF CallersShape, C!Row
  <2> QED BY <1>3, <2>3, <2>4 DEF C!Create
<1>4. ASSUME NEW a \in Admins, C!Update(a) \/ C!RotateSecret(a) \/ C!Revoke(a) PROVE CallersShape'
  <2> DEFINE c == handling[a].caller
  <2>1. C!Answer(a) /\ UNCHANGED <<locked, created, grants>> /\ c \in CallerIds
    BY <1>0, <1>4 DEF C!Update, C!RotateSecret, C!Revoke, C!Change, C!Asked
  <2>2. \/ UNCHANGED callers
        \/ /\ C!Row(c)
           /\ \E row \in C!CallerRows : row.nth = callers[c].nth /\ callers' = [callers EXCEPT ![c] = row]
    <3>1. C!Row(c) => callers[c] \in C!CallerRows
      BY <1>0, <2>1 DEF C!Row
    <3>2. CASE C!Update(a)
      <4> DEFINE row == [callers[c] EXCEPT !.cn = handling[a].arg]
      <4>1. handling[a].arg \in Cns
        BY <3>2 DEF CallersInv, AskedWell, C!Update, C!Change
      <4>2. C!Row(c) => row \in C!CallerRows /\ row.nth = callers[c].nth
        BY <3>1, <4>1 DEF C!CallerRows
      <4>3. UNCHANGED callers \/ (C!Row(c) /\ callers' = [callers EXCEPT ![c] = row])
        BY <3>2 DEF C!Update
      <4> HIDE DEF row
      <4> QED BY <4>2, <4>3
    <3>3. CASE C!RotateSecret(a)
      <4> DEFINE row == [callers[c] EXCEPT !.secret = TRUE]
      <4>2. C!Row(c) => row \in C!CallerRows /\ row.nth = callers[c].nth
        BY <3>1 DEF C!CallerRows
      <4>3. UNCHANGED callers \/ (C!Row(c) /\ callers' = [callers EXCEPT ![c] = row])
        BY <3>3 DEF C!RotateSecret
      <4> HIDE DEF row
      <4> QED BY <4>2, <4>3
    <3>4. CASE C!Revoke(a)
      <4> DEFINE row == [callers[c] EXCEPT !.status = "revoked"]
      <4>2. C!Row(c) => row \in C!CallerRows /\ row.nth = callers[c].nth
        BY <3>1 DEF C!CallerRows
      <4>3. UNCHANGED callers \/ (C!Row(c) /\ callers' = [callers EXCEPT ![c] = row])
        BY <3>4 DEF C!Revoke
      <4> HIDE DEF row
      <4> QED BY <4>2, <4>3
    <3> QED BY <1>4, <3>2, <3>3, <3>4
  <2>3. \A d \in CallerIds : C!Row(d)' => C!Row(d) /\ callers'[d].nth = callers[d].nth
    BY <1>0, <2>1, <2>2 DEF C!Row
  <2> QED BY <2>1, <2>3, AnswerShape DEF CallersShape
<1>5. ASSUME NEW a \in Admins, C!Grant(a) PROVE CallersShape'
  <2> DEFINE new == [caller |-> handling[a].caller, policy |-> handling[a].arg, nth |-> handling[a].nth]
  <2>1. C!Answer(a) /\ UNCHANGED <<callers, locked, created>> /\ handling[a] # None
        /\ handling[a].op = "grant" /\ grants' \subseteq grants \cup {new}
    BY <1>5 DEF C!Grant, C!Change, C!Asked
  <2>2. new \in [caller : CallerIds, policy : Granted, nth : 0..MaxCreates]
    BY <1>0, <2>1 DEF CallersShape
  <2> HIDE DEF new
  <2>3. grants' \subseteq [caller : CallerIds, policy : Granted, nth : 0..MaxCreates]
    BY <2>1, <2>2 DEF CallersShape
  <2> QED BY <2>1, <2>3, AnswerShape DEF C!Row
<1>6. ASSUME NEW a \in Admins, C!RevokeGrant(a) PROVE CallersShape'
  <2>1. C!Answer(a) /\ UNCHANGED <<callers, locked, created>> /\ grants' \subseteq grants
    BY <1>6 DEF C!RevokeGrant, C!Change
  <2> QED BY <2>1, AnswerShape DEF CallersShape, C!Row
<1>7. ASSUME NEW c \in CallerIds, C!Delete(c) PROVE CallersShape'
  <2>1. \A d \in CallerIds : callers'[d] = IF d = c THEN None ELSE callers[d]
    BY <1>0, <1>7 DEF C!Delete
  <2> QED BY <1>7, <2>1 DEF C!Delete, C!Cascade, CallersShape, C!Row
<1>8. ASSUME NEW p \in Granted, C!LockPolicy(p) PROVE CallersShape'
  BY <1>8 DEF C!LockPolicy, CallersShape, C!Row
<1> QED BY <1>1, <1>2, <1>3, <1>4, <1>5, <1>6, <1>7, <1>8 DEF C!Next

LEMMA CallersKeepShape == ASSUME C!CallersAssumption PROVE C!Spec => []C!TypeOK
<1>1. C!Init => CallersShape
  BY DEF C!CallersAssumption, C!Init, CallersShape, C!Row
<1>2. CallersInv /\ CallersShape /\ [C!Next]_(C!caVars) => CallersShape'
  BY CallersShapeStep
<1>3. CallersInv /\ CallersShape => C!TypeOK
  <2> SUFFICES ASSUME CallersInv, CallersShape PROVE C!TypeOK
    OBVIOUS
  <2>1. created \in 0..MaxCreates
    BY DEF CallersInv, CallersType, CallersShape, C!CallersAssumption
  <2>2. ASSUME NEW c \in CallerIds, C!Row(c)
        PROVE  callers[c] \in [mode : C!Modes, secret : BOOLEAN, cn : Cns \cup {None},
                               status : {"active", "revoked"}, nth : 1..MaxCreates]
    <3>1. callers[c] \in C!CallerRows /\ callers[c].nth \in 1..MaxCreates
      BY <2>2 DEF CallersInv, CallersType, CallersShape, C!Row
    <3> QED BY <3>1 DEF C!CallerRows
  <2> QED BY <2>1, <2>2 DEF C!TypeOK, CallersShape
<1> QED BY <1>1, <1>2, <1>3, CallersHolds, PTL DEF C!Spec

-----------------------------------------------------------------------------
(* Directory: its inductive invariant.                                     *)

DirectoryType ==
  /\ users \in [Users -> {None} \cup D!UserRows]
  /\ roles \in [Roles -> {None} \cup D!RoleRows]
  /\ orgs \subseteq Orgs
  /\ DOMAIN acting = Admins

\* What the routes made sure of before they asked for the transaction; what the
\* actor holds came from root, also when its role is another by now.
Admissible(actor, what) ==
  /\ actor.root \/ actor.perms \subseteq rootGave
  /\ what.op = "createUser" => what.row \in D!UserRows
  /\ what.op = "createRole" => what.row \in D!RoleRows /\ D!PermissionSubset(what.row.perms, actor)
  /\ what.op = "updateRole" => what.perms \subseteq Perms
  /\ what.op = "createOrg" => what.org \in Orgs
ActedWell == \A q \in Admins : acting[q] # None => Admissible(acting[q].actor, acting[q].what)

\* As long as removals do not overlap, the one under way leaves another admin.
RemovesUser(q) == acting[q] # None /\ acting[q].what.op \in D!Removals
OneRemoval == \A p, q \in Admins : RemovesUser(p) /\ RemovesUser(q) => p = q
AnotherAdmin == \A q \in Admins : RemovesUser(q) => D!ActiveAdmins \ {D!What(q).user} # {}
AdminsLast == crossed \/ loose \/ (OneRemoval /\ AnotherAdmin /\ D!ActiveAdmins # {})

DirectoryInv ==
  /\ DirectoryType /\ ActedWell
  /\ D!NoEscalation /\ D!NothingDangles /\ AdminsLast

LEMMA InitDirectory == ASSUME D!DirectoryAssumption, D!Init PROVE DirectoryInv
<1> USE DEF D!DirectoryAssumption, D!Init
<1>1. D!User(Platform, RootRole, TRUE, TRUE) \in D!UserRows
  BY DEF D!User, D!UserRows
<1>2. D!Role(Global, {}, TRUE) \in D!RoleRows /\ D!Role(Global, OrgAdminPerms, TRUE) \in D!RoleRows
  BY DEF D!Role, D!RoleRows
<1>3. DirectoryType
  BY <1>1, <1>2 DEF DirectoryType, D!UserRows
<1>4. ActedWell
  BY DEF ActedWell
<1>5. D!NoEscalation
  BY <1>2 DEF D!NoEscalation, D!Role
<1>6. D!NothingDangles
  BY <1>1, <1>2 DEF D!NothingDangles, D!OrgExists, D!Role, D!User
<1>7. AdminsLast
  <2>1. FirstUser \in D!ActiveAdmins
    BY <1>1 DEF D!ActiveAdmins, D!User, D!UserRows
  <2> QED BY <2>1 DEF AdminsLast, OneRemoval, AnotherAdmin, RemovesUser
<1> QED BY <1>3, <1>4, <1>5, <1>6, <1>7 DEF DirectoryInv

-----------------------------------------------------------------------------
(* A request is admitted.                                                  *)

\* The operator is the same in every instance.
LEMMA SameCardinality == ASSUME NEW S0 PROVE D!Cardinality(S0) = Cardinality(S0)
BY DEF D!Cardinality, Cardinality

\* More than one admin: another one than u.
LEMMA AnotherOne ==
  ASSUME NEW u, D!Cardinality(D!ActiveAdmins) > 1  PROVE D!ActiveAdmins \ {u} # {}
<1> SUFFICES ASSUME D!ActiveAdmins \subseteq {u} PROVE FALSE
  OBVIOUS
<1>1. D!ActiveAdmins = {} \/ D!ActiveAdmins = {u}
  OBVIOUS
<1>2. D!Cardinality({}) = 0 /\ D!Cardinality({u}) = 1
  BY FS_EmptySet, FS_Singleton, SameCardinality
<1> QED BY <1>1, <1>2

LEMMA AdmitDirectory ==
  ASSUME DirectoryInv, NEW q \in Admins, NEW actor, NEW what, D!Admit(q, actor, what),
         Admissible(actor, what), what.op \in D!Removals => what.user \in Users /\ D!MayRemove(what.user)
  PROVE  DirectoryInv'
<1> USE DEF DirectoryInv, D!Admit
<1>1. /\ \A p \in Admins \ {q} : acting'[p] = acting[p]
      /\ acting'[q] = [actor |-> D!Kept(actor), what |-> what]
      /\ DOMAIN acting' = Admins
  BY DEF DirectoryType
<1>2. DirectoryType' /\ D!NoEscalation' /\ D!NothingDangles'
  BY <1>1 DEF DirectoryType, D!NoEscalation, D!NothingDangles, D!OrgExists
<1>3. ActedWell'
  BY <1>1 DEF ActedWell, Admissible, D!Kept, D!PermissionSubset
<1>4. AdminsLast'
  <2> SUFFICES ASSUME ~crossed', ~loose'
               PROVE  OneRemoval' /\ AnotherAdmin' /\ D!ActiveAdmins' # {}
    BY DEF AdminsLast
  <2>1. D!ActiveAdmins' = D!ActiveAdmins /\ D!ActiveAdmins # {} /\ OneRemoval /\ AnotherAdmin
    BY DEF AdminsLast, D!ActiveAdmins
  <2>2. what.op \in D!Removals => \A p \in Admins : ~RemovesUser(p)
    BY DEF D!Removing, RemovesUser
  <2>3. OneRemoval'
    BY <1>1, <2>1, <2>2 DEF OneRemoval, RemovesUser
  <2>4. what.op \in D!Removals => D!ActiveAdmins \ {what.user} # {}
    BY <2>1, AnotherOne DEF D!MayRemove, D!ActiveAdmins
  <2>5. AnotherAdmin'
    BY <1>1, <2>1, <2>4 DEF AnotherAdmin, RemovesUser, D!What
  <2> QED BY <2>1, <2>3, <2>5
<1> QED BY <1>2, <1>3, <1>4

LEMMA AskDirectory ==
  ASSUME D!DirectoryAssumption, DirectoryInv, NEW q \in Admins, D!Ask(q)  PROVE DirectoryInv'
<1>1. PICK u \in Users :
        /\ users[u] # None
        /\ \/ D!AskUser(q, D!AuthContext(u)) \/ D!AskUserChange(q, D!AuthContext(u))
           \/ D!AskRole(q, D!AuthContext(u)) \/ D!AskRoleChange(q, D!AuthContext(u))
           \/ D!AskOrg(q, D!AuthContext(u))
  BY DEF D!Ask
<1> DEFINE actor == D!AuthContext(u)
<1>2. actor.perms \subseteq rootGave
  BY <1>1 DEF DirectoryInv, DirectoryType, D!NoEscalation, D!NothingDangles, D!UserRows, D!AuthContext
<1> HIDE DEF actor
<1>3. CASE D!AskUser(q, actor)
  <2>1. PICK v \in Users, r \in Roles, o \in orgs, root, label \in BOOLEAN :
          D!Admit(q, actor, [op |-> "createUser", user |-> v, row |-> D!User(o, r, root, label)])
    BY <1>3 DEF D!AskUser
  <2>2. D!User(o, r, root, label) \in D!UserRows
    BY DEF D!User, D!UserRows, DirectoryInv, DirectoryType
  <2> QED BY <1>2, <2>1, <2>2, AdmitDirectory DEF Admissible, D!Removals
<1>4. CASE D!AskUserChange(q, actor)
  <2>1. PICK v \in Users, op \in {"disable", "disableLoosely", "enable", "label", "deleteUser"} :
          (op \in D!Removals => D!MayRemove(v)) /\ D!Admit(q, actor, [op |-> op, user |-> v])
    BY <1>4 DEF D!AskUserChange
  <2> QED BY <1>2, <2>1, AdmitDirectory DEF Admissible
<1>5. CASE D!AskRole(q, actor)
  <2>1. PICK r \in Roles, perms \in SUBSET Perms, o \in Orgs \cup {Global} :
          /\ D!PermissionSubset(perms, actor)
          /\ D!Admit(q, actor, [op |-> "createRole", role |-> r, row |-> D!Role(o, perms, FALSE)])
    BY <1>5 DEF D!AskRole
  <2>2. D!Role(o, perms, FALSE) \in D!RoleRows /\ D!Role(o, perms, FALSE).perms = perms
    BY DEF D!Role, D!RoleRows
  <2> QED BY <1>2, <2>1, <2>2, AdmitDirectory DEF Admissible, D!Removals
<1>6. CASE D!AskRoleChange(q, actor)
  BY <1>2, <1>6, AdmitDirectory DEF D!AskRoleChange, Admissible, D!Removals
<1>7. CASE D!AskOrg(q, actor)
  BY <1>2, <1>7, AdmitDirectory DEF D!AskOrg, Admissible, D!Removals
<1> QED BY <1>1, <1>3, <1>4, <1>5, <1>6, <1>7 DEF actor

-----------------------------------------------------------------------------
(* A transaction ends its request.                                         *)

LEMMA AnsweredDirectory ==
  ASSUME DirectoryInv, NEW q \in Admins, acting' = [acting EXCEPT ![q] = None],
         rootGave \subseteq rootGave'
  PROVE  /\ DOMAIN acting' = Admins /\ ActedWell'
         /\ \A p \in Admins : acting'[p] # None => p # q /\ acting'[p] = acting[p]
BY DEF DirectoryInv, DirectoryType, ActedWell, Admissible, D!PermissionSubset

\* One that leaves the users alone, or changes them and takes no admin away.
LEMMA AdminsStay ==
  ASSUME DirectoryInv, NEW q \in Admins, acting' = [acting EXCEPT ![q] = None],
         crossed' = crossed, loose => loose', D!ActiveAdmins \subseteq D!ActiveAdmins'
  PROVE  AdminsLast'
<1>1. \A p \in Admins : RemovesUser(p)' => RemovesUser(p) /\ D!What(p)' = D!What(p)
  BY DEF DirectoryInv, DirectoryType, RemovesUser, D!What
<1> QED BY <1>1 DEF DirectoryInv, AdminsLast, OneRemoval, AnotherAdmin

LEMMA UsersChange ==
  ASSUME D!DirectoryAssumption, DirectoryInv, NEW q \in Admins,
         D!CreateUser(q) \/ D!SetDisabled(q) \/ D!SetLabel(q) \/ D!DeleteUser(q)
  PROVE  DirectoryInv'
<1> DEFINE u == D!What(q).user
<1>1. /\ acting' = [acting EXCEPT ![q] = None] /\ UNCHANGED <<roles, orgs, rootGave, crossed>>
      /\ acting[q] # None /\ loose' = (loose \/ D!PastTheGuards(q))
  BY DEF D!CreateUser, D!SetDisabled, D!SetLabel, D!DeleteUser, D!Mutation
<1>2. DOMAIN acting' = Admins /\ ActedWell'
  BY <1>1, AnsweredDirectory
<1>3. D!NoEscalation'
  BY <1>1 DEF DirectoryInv, D!NoEscalation
<1>4. DirectoryType' /\ D!NothingDangles'
  <2>0. CASE users' = users
    BY <1>1, <1>2, <2>0 DEF DirectoryInv, DirectoryType, D!NothingDangles, D!OrgExists
  <2>1. CASE D!CreateUser(q) /\ D!ForeignKeysHold(D!What(q).row) /\ users' = [users EXCEPT ![u] = D!What(q).row]
    <3>1. D!What(q).row \in D!UserRows
      BY <1>1, <2>1 DEF DirectoryInv, ActedWell, Admissible, D!CreateUser, D!Mutation, D!What
    <3>2. users' \in [Users -> {None} \cup D!UserRows]
      BY <2>1, <3>1 DEF DirectoryInv, DirectoryType
    <3>3. D!What(q).row.org \in orgs /\ roles[D!What(q).row.role] # None
      BY <2>1, <3>1 DEF D!ForeignKeysHold, D!OrgExists, D!UserRows, D!DirectoryAssumption
    <3> QED BY <1>1, <1>2, <2>1, <3>2, <3>3
               DEF DirectoryInv, DirectoryType, D!NothingDangles, D!OrgExists
  <2>2. CASE users[u] # None /\ \E b \in BOOLEAN :
               \/ users' = [users EXCEPT ![u].disabled = b]
               \/ users' = [users EXCEPT ![u].label = b]
    <3>1. users' \in [Users -> {None} \cup D!UserRows]
      BY <2>2 DEF DirectoryInv, DirectoryType, D!UserRows
    <3>2. \A v \in Users : users'[v] # None =>
            users[v] # None /\ users'[v].role = users[v].role /\ users'[v].org = users[v].org
      BY <2>2 DEF DirectoryInv, DirectoryType, D!UserRows
    <3> QED BY <1>1, <1>2, <3>1, <3>2 DEF DirectoryInv, DirectoryType, D!NothingDangles, D!OrgExists
  <2>3. CASE users' = [users EXCEPT ![u] = None]
    BY <1>1, <1>2, <2>3 DEF DirectoryInv, DirectoryType, D!NothingDangles, D!OrgExists
  <2> QED BY <2>0, <2>1, <2>2, <2>3 DEF D!CreateUser, D!SetDisabled, D!SetLabel, D!DeleteUser, D!What
<1>5. AdminsLast'
  <2>1. CASE D!CreateUser(q) \/ D!SetLabel(q)
    <3>1. \A v \in Users : users[v] # None =>
            /\ users'[v] # None /\ users'[v].disabled = users[v].disabled
            /\ users[v].label => users'[v].label
      <4>1. CASE D!CreateUser(q)
        BY <4>1 DEF DirectoryInv, DirectoryType, D!CreateUser
      <4>2. CASE D!SetLabel(q)
        <5>0. u = acting[q].what.user
          BY DEF D!What
        <5>a. users' = IF users[u] = None THEN users ELSE [users EXCEPT ![u].label = TRUE]
          BY <4>2, <5>0 DEF D!SetLabel
        <5>1. \/ users' = users
              \/ users' = [users EXCEPT ![u] = [users[u] EXCEPT !.label = TRUE]] /\ users[u] # None
          BY <5>a DEF DirectoryInv, DirectoryType
        <5>2. \A v \in Users : users[v] # None =>
                [users[v] EXCEPT !.label = TRUE] \in D!UserRows /\ users[v] \in D!UserRows
          BY DEF DirectoryInv, DirectoryType, D!UserRows
        <5>3. \A v \in Users : users'[v] = users[v] \/
                (users[v] # None /\ users'[v] = [users[v] EXCEPT !.label = TRUE])
          BY <5>1 DEF DirectoryInv, DirectoryType
        <5>4. \A v \in Users : users[v] # None =>
                /\ [users[v] EXCEPT !.label = TRUE].disabled = users[v].disabled
                /\ [users[v] EXCEPT !.label = TRUE].label
          BY <5>2 DEF D!UserRows
        <5> QED BY <5>2, <5>3, <5>4 DEF D!DirectoryAssumption
      <4> QED BY <2>1, <4>1, <4>2
    <3>2. D!ActiveAdmins \subseteq D!ActiveAdmins'
      BY <3>1 DEF D!ActiveAdmins
    <3> QED BY <1>1, <3>2, AdminsStay
  <2>2. CASE D!SetDisabled(q) /\ acting[q].what.op = "enable"
    <3>1. D!ActiveAdmins \subseteq D!ActiveAdmins'
      BY <2>2 DEF DirectoryInv, DirectoryType, D!SetDisabled, D!What, D!ActiveAdmins, D!UserRows,
                  D!DirectoryAssumption
    <3> QED BY <1>1, <3>1, AdminsStay
  <2>3. CASE D!DeleteUser(q) \/ (D!SetDisabled(q) /\ acting[q].what.op = "disable")
    <3>1. RemovesUser(q)
      BY <1>1, <2>3 DEF RemovesUser, D!DeleteUser, D!Mutation, D!Removals
    <3>2. D!ActiveAdmins \ {u} \subseteq D!ActiveAdmins'
      BY <2>3 DEF DirectoryInv, DirectoryType, D!SetDisabled, D!DeleteUser, D!What, D!ActiveAdmins
    <3>3. ~crossed /\ ~loose => \A p \in Admins : ~RemovesUser(p)'
      BY <1>1, <3>1, AnsweredDirectory
         DEF DirectoryInv, AdminsLast, OneRemoval, RemovesUser
    <3> QED BY <1>1, <3>1, <3>2, <3>3 DEF DirectoryInv, AdminsLast, OneRemoval, AnotherAdmin
  <2>4. CASE D!SetDisabled(q) /\ acting[q].what.op = "disableLoosely"
    <3>1. CASE D!PastTheGuards(q)
      BY <1>1, <3>1 DEF AdminsLast
    <3>2. CASE ~D!PastTheGuards(q)
      <4>1. users[u] = None \/ u \notin D!ActiveAdmins
        BY <2>4, <3>2 DEF D!PastTheGuards, D!ActiveAdmins, D!What
      <4>2. users[u] = None => users' = users
        BY <2>4 DEF D!SetDisabled, D!What
      <4>3. \A v \in Users : v # u => users'[v] = users[v]
        BY <2>4 DEF DirectoryInv, DirectoryType, D!SetDisabled, D!What
      <4>4. D!ActiveAdmins \subseteq D!ActiveAdmins'
        BY <4>1, <4>2, <4>3 DEF D!ActiveAdmins
      <4> QED BY <1>1, <4>4, AdminsStay
    <3> QED BY <3>1, <3>2
  <2> QED BY <2>1, <2>2, <2>3, <2>4 DEF D!SetDisabled, D!Mutation
<1> QED BY <1>2, <1>3, <1>4, <1>5 DEF DirectoryInv

LEMMA RolesAndOrgsChange ==
  ASSUME D!DirectoryAssumption, DirectoryInv, NEW q \in Admins,
         D!CreateRole(q) \/ D!UpdateRole(q) \/ D!DeleteRole(q) \/ D!CreateOrg(q) \/ D!DeleteOrg(q)
  PROVE  DirectoryInv'
<1>1. /\ acting' = [acting EXCEPT ![q] = None] /\ users' = users /\ crossed' = crossed
      /\ rootGave \subseteq rootGave' /\ acting[q] # None
      /\ Admissible(acting[q].actor, acting[q].what)
  BY DEF D!CreateRole, D!UpdateRole, D!DeleteRole, D!CreateOrg, D!DeleteOrg, D!Mutation, D!Gave, DirectoryInv,
         ActedWell
<1>2. DOMAIN acting' = Admins /\ ActedWell'
  BY <1>1, AnsweredDirectory
<1>3. AdminsLast'
  <2>1. loose' = (loose \/ D!PastTheGuards(q))
    BY DEF D!CreateRole, D!UpdateRole, D!DeleteRole, D!CreateOrg, D!DeleteOrg, D!Mutation
  <2> QED BY <1>1, <2>1, AdminsStay DEF D!ActiveAdmins
<1>4. CASE D!CreateRole(q)
  <2>1. CASE UNCHANGED <<roles, rootGave>>
    BY <1>1, <1>2, <1>3, <1>4, <2>1
       DEF D!CreateRole, DirectoryInv, DirectoryType, D!NoEscalation, D!NothingDangles, D!OrgExists
  <2>2. CASE /\ roles[D!What(q).role] = None /\ D!OrgExists(D!What(q).row.org)
             /\ roles' = [roles EXCEPT ![D!What(q).role] = D!What(q).row]
             /\ D!Gave(q, D!What(q).row.perms)
    <3>1. D!What(q).row \in D!RoleRows /\ D!PermissionSubset(D!What(q).row.perms, acting[q].actor)
      BY <1>1, <1>4 DEF D!CreateRole, D!Mutation, Admissible, D!What
    <3>2. D!What(q).row.perms \subseteq rootGave'
      BY <1>1, <2>2, <3>1 DEF D!Gave, D!PermissionSubset, Admissible
    <3>3. DirectoryType'
      BY <1>1, <1>2, <1>4, <2>2, <3>1 DEF DirectoryInv, DirectoryType, D!CreateRole
    <3>4. D!NoEscalation'
      BY <1>1, <2>2, <3>2 DEF DirectoryInv, DirectoryType, D!NoEscalation
    <3>5. D!NothingDangles'
      BY <1>1, <1>4, <2>2, <3>1 DEF DirectoryInv, DirectoryType, D!NothingDangles, D!OrgExists,
         D!CreateRole, D!DirectoryAssumption
    <3> QED BY <1>2, <1>3, <3>3, <3>4, <3>5 DEF DirectoryInv
  <2> QED BY <1>4, <2>1, <2>2 DEF D!CreateRole
<1>5. CASE D!UpdateRole(q)
  <2> DEFINE r == D!What(q).role
             perms == D!What(q).perms
  <2>1. CASE UNCHANGED <<roles, rootGave>>
    BY <1>1, <1>2, <1>3, <1>5, <2>1
       DEF D!UpdateRole, DirectoryInv, DirectoryType, D!NoEscalation, D!NothingDangles, D!OrgExists
  <2>2. CASE /\ roles[r] # None /\ D!PermissionSubset(perms, acting[q].actor)
             /\ roles' = [roles EXCEPT ![r].perms = perms]
             /\ D!Gave(q, perms)
    <3>1. perms \subseteq Perms
      BY <1>1, <1>5 DEF D!UpdateRole, D!Mutation, Admissible, D!What
    <3>2. perms \subseteq rootGave'
      BY <1>1, <2>2 DEF D!Gave, D!PermissionSubset, Admissible
    <3>3. DirectoryType'
      BY <1>1, <1>2, <1>5, <2>2, <3>1 DEF DirectoryInv, DirectoryType, D!UpdateRole, D!RoleRows
    <3>4. D!NoEscalation'
      BY <1>1, <2>2, <3>2 DEF DirectoryInv, DirectoryType, D!NoEscalation, D!RoleRows
    <3>5. \A s \in Roles : /\ roles'[s] # None <=> roles[s] # None
                           /\ roles[s] # None => roles'[s].org = roles[s].org
      <4>1. \A s \in Roles \ {r} : roles'[s] = roles[s]
        BY <2>2 DEF DirectoryInv, DirectoryType
      <4>2. r \in Roles => roles'[r] = [roles[r] EXCEPT !.perms = perms] /\ roles[r] \in D!RoleRows
        BY <2>2 DEF DirectoryInv, DirectoryType
      <4>3. r \in Roles => roles'[r] \in D!RoleRows /\ roles'[r].org = roles[r].org
        BY <3>1, <4>2 DEF D!RoleRows
      <4> QED BY <2>2, <4>1, <4>3 DEF D!DirectoryAssumption
    <3>6. D!NothingDangles'
      BY <1>1, <1>5, <3>5 DEF DirectoryInv, DirectoryType, D!NothingDangles, D!OrgExists,
         D!UpdateRole, D!UserRows
    <3> QED BY <1>2, <1>3, <3>3, <3>4, <3>6 DEF DirectoryInv
  <2> QED BY <1>5, <2>1, <2>2 DEF D!UpdateRole
<1>6. CASE D!DeleteRole(q)
  <2>1. \A s \in Roles : roles'[s] = roles[s] \/ (roles'[s] = None /\ D!HeldBy(s) = {})
    BY <1>6 DEF D!DeleteRole, DirectoryInv, DirectoryType
  <2>2. DirectoryType' /\ D!NoEscalation' /\ rootGave' = rootGave /\ orgs' = orgs
    BY <1>1, <1>2, <1>6 DEF D!DeleteRole, DirectoryInv, DirectoryType, D!NoEscalation
  <2>3. \A u \in Users : users[u] # None => users[u].role \in Roles
    BY DEF DirectoryInv, DirectoryType, D!UserRows
  <2>4. D!NothingDangles'
    BY <1>1, <2>1, <2>2, <2>3 DEF DirectoryInv, D!NothingDangles, D!OrgExists, D!HeldBy
  <2> QED BY <1>2, <1>3, <2>2, <2>4 DEF DirectoryInv
<1>7. CASE D!CreateOrg(q)
  <2>1. D!What(q).org \in Orgs
    BY <1>1, <1>7 DEF D!CreateOrg, D!Mutation, Admissible, D!What
  <2> QED BY <1>1, <1>2, <1>3, <1>7, <2>1
             DEF D!CreateOrg, DirectoryInv, DirectoryType, D!NoEscalation, D!NothingDangles, D!OrgExists
<1>8. CASE D!DeleteOrg(q)
  BY <1>1, <1>2, <1>3, <1>8
     DEF D!DeleteOrg, D!Blockers, DirectoryInv, DirectoryType, D!NoEscalation, D!NothingDangles, D!OrgExists
<1> QED BY <1>4, <1>5, <1>6, <1>7, <1>8

-----------------------------------------------------------------------------
LEMMA DirectoryHolds == ASSUME D!DirectoryAssumption PROVE D!Spec => []DirectoryInv
<1>1. D!Init => DirectoryInv
  BY InitDirectory
<1>2. DirectoryInv /\ [D!Next]_(D!dVars) => DirectoryInv'
  <2>1. CASE UNCHANGED D!dVars
    BY <2>1 DEF D!dVars, DirectoryInv, DirectoryType, ActedWell, Admissible, D!NoEscalation,
       D!NothingDangles, D!OrgExists, AdminsLast, OneRemoval, AnotherAdmin, RemovesUser, D!ActiveAdmins,
       D!What
  <2>2. CASE DirectoryInv /\ D!Next
    BY <2>2, AskDirectory, UsersChange, RolesAndOrgsChange DEF D!Next
  <2> QED BY <2>1, <2>2
<1> QED BY <1>1, <1>2, PTL DEF D!Spec

-----------------------------------------------------------------------------
(* The shape of the tables of Directory.                                   *)

DirectoryShape == rootGave \subseteq Perms /\ acted \in 0..MaxActs

LEMMA DirectoryShapeStep ==
  ASSUME D!DirectoryAssumption, DirectoryInv, DirectoryShape, [D!Next]_(D!dVars)
  PROVE  DirectoryShape'
<1> USE DEF DirectoryShape
<1>1. CASE UNCHANGED D!dVars
  BY <1>1 DEF D!dVars
<1>2. ASSUME NEW q \in Admins, D!Ask(q) PROVE DirectoryShape'
  <2> DEFINE Counted == acted' = acted + 1 /\ UNCHANGED rootGave
  <2>1. \A actor, what : D!Admit(q, actor, what) => Counted
    BY DEF D!Admit
  <2> HIDE DEF Counted
  <2>2. PICK u \in Users :
          \/ D!AskUser(q, D!AuthContext(u)) \/ D!AskUserChange(q, D!AuthContext(u))
          \/ D!AskRole(q, D!AuthContext(u)) \/ D!AskRoleChange(q, D!AuthContext(u))
          \/ D!AskOrg(q, D!AuthContext(u))
    BY <1>2 DEF D!Ask
  <2> DEFINE actor == D!AuthContext(u)
  <2> HIDE DEF actor
  <2>3. Counted
    <3>1. CASE D!AskUser(q, actor)
      BY <2>1, <3>1 DEF D!AskUser
    <3>2. CASE D!AskUserChange(q, actor)
      BY <2>1, <3>2 DEF D!AskUserChange
    <3>3. CASE D!AskRole(q, actor)
      BY <2>1, <3>3 DEF D!AskRole
    <3>4. CASE D!AskRoleChange(q, actor)
      BY <2>1, <3>4 DEF D!AskRoleChange
    <3>5. CASE D!AskOrg(q, actor)
      BY <2>1, <3>5 DEF D!AskOrg
    <3> QED BY <2>2, <3>1, <3>2, <3>3, <3>4, <3>5 DEF actor
  <2>4. acted < MaxActs /\ acted' = acted + 1 /\ UNCHANGED rootGave
    BY <1>2, <2>3 DEF D!Ask, Counted
  <2> QED BY <2>4 DEF D!DirectoryAssumption
<1>3. ASSUME NEW q \in Admins,
             \/ D!CreateUser(q) \/ D!SetDisabled(q) \/ D!SetLabel(q) \/ D!DeleteUser(q)
             \/ D!DeleteRole(q) \/ D!CreateOrg(q) \/ D!DeleteOrg(q)
      PROVE  DirectoryShape'
  BY <1>3 DEF D!CreateUser, D!SetDisabled, D!SetLabel, D!DeleteUser, D!DeleteRole, D!CreateOrg,
     D!DeleteOrg, D!Mutation
<1>4. ASSUME NEW q \in Admins, D!CreateRole(q) PROVE DirectoryShape'
  <2>1. D!What(q).row \in D!RoleRows
    BY <1>4 DEF D!CreateRole, D!Mutation, DirectoryInv, ActedWell, Admissible, D!What
  <2>2. D!What(q).row.perms \subseteq Perms
    BY <2>1 DEF D!RoleRows
  <2> QED BY <1>4, <2>2 DEF D!CreateRole, D!Mutation, D!Gave
<1>5. ASSUME NEW q \in Admins, D!UpdateRole(q) PROVE DirectoryShape'
  <2>1. D!What(q).perms \subseteq Perms
    BY <1>5 DEF D!UpdateRole, D!Mutation, DirectoryInv, ActedWell, Admissible, D!What
  <2> QED BY <1>5, <2>1 DEF D!UpdateRole, D!Mutation, D!Gave
<1> QED BY <1>1, <1>2, <1>3, <1>4, <1>5 DEF D!Next

LEMMA DirectoryKeepsShape == ASSUME D!DirectoryAssumption PROVE D!Spec => []D!TypeOK
<1>1. D!Init => DirectoryShape
  BY DEF D!DirectoryAssumption, D!Init, DirectoryShape
<1>2. DirectoryInv /\ DirectoryShape /\ [D!Next]_(D!dVars) => DirectoryShape'
  BY DirectoryShapeStep
<1>3. DirectoryInv /\ DirectoryShape => D!TypeOK
  BY DEF DirectoryInv, DirectoryType, DirectoryShape, D!TypeOK
<1> QED BY <1>1, <1>2, <1>3, DirectoryHolds, PTL DEF D!Spec

-----------------------------------------------------------------------------
(* PoolAndLock: what each request holds where it is.                       *)

HoldsOne(j) == \E k \in Connections : \A l \in Connections : holder[l] = j <=> l = k
HoldsTwo(j) ==
  \E k, l \in Connections : k # l /\ \A m \in Connections : holder[m] = j <=> m \in {k, l}

\* A request that waits for its connection has none, but for a refresh, which has the
\* one of its transaction.
Holding(j) ==
  /\ stage[j] = "idle" \/ (L!Waits(j) /\ stage[j] # "inner") => ~L!Holds(j)
  /\ stage[j] = "inner" /\ ~L!Waits(j) => HoldsTwo(j)
  /\ stage[j] = "inner" /\ L!Waits(j) => HoldsOne(j)
  /\ stage[j] \notin {"idle", "inner"} /\ ~L!Waits(j) => HoldsOne(j)

\* The transactions are in the line for the lock, a refresh that calls the pool at
\* its head, and neither they nor the idle wait for the pool.
InTransaction(j) == stage[j] \in {"transaction", "inner"}
Queued(j) ==
  /\ L!Contains(line, j) <=> InTransaction(j)
  /\ stage[j] = "inner" => L!Locked(j) /\ inner[j] > 0
  /\ L!Waits(j) => stage[j] \notin {"idle", "transaction"}

PoolInv == L!TypeOK /\ \A j \in Jobs : Holding(j) /\ Queued(j)

LEMMA InitPool == ASSUME L!PoolAssumption, L!Init PROVE PoolInv
<1>1. << >> \in Seq(Jobs) /\ L!IsInjective(<< >>) /\ \A j \in Jobs : ~L!Contains(<< >>, j)
  BY DEF L!IsInjective, L!Contains
<1>2. L!TypeOK
  BY <1>1 DEF L!PoolAssumption, L!Init, L!TypeOK, L!Kinds
<1> QED BY <1>1, <1>2 DEF L!PoolAssumption, L!Init, PoolInv, Holding, L!Holds, Queued, InTransaction, L!Waits

-----------------------------------------------------------------------------
(* The queues of the pool and of the lock.                                 *)

LEMMA QueueJoined ==
  ASSUME NEW q \in Seq(Jobs), L!IsInjective(q), NEW j \in Jobs, ~L!Contains(q, j)
  PROVE  /\ Append(q, j) \in Seq(Jobs) /\ L!IsInjective(Append(q, j)) /\ Append(q, j) # << >>
         /\ \A i \in Jobs : L!Contains(Append(q, j), i) <=> L!Contains(q, i) \/ i = j
         /\ q # << >> => Head(Append(q, j)) = Head(q)
<1>1. /\ Len(Append(q, j)) = Len(q) + 1 /\ Append(q, j) \in Seq(Jobs)
      /\ \A i \in 1..Len(q) : Append(q, j)[i] = q[i]
      /\ Append(q, j)[Len(q) + 1] = j /\ Len(q) \in Nat
  OBVIOUS
<1>2. DOMAIN q = 1..Len(q) /\ DOMAIN Append(q, j) = 1..(Len(q) + 1)
  BY <1>1
<1>3. L!IsInjective(Append(q, j))
  BY <1>1, <1>2 DEF L!IsInjective, L!Contains
<1>4. \A i \in Jobs : L!Contains(Append(q, j), i) <=> L!Contains(q, i) \/ i = j
  BY <1>1 DEF L!Contains
<1>5. Append(q, j) # << >>
  BY <1>1
<1>6. q # << >> => Head(Append(q, j)) = Head(q)
  BY <1>1
<1> QED BY <1>1, <1>3, <1>4, <1>5, <1>6

LEMMA QueueLeft ==
  ASSUME NEW q \in Seq(Jobs), L!IsInjective(q), q # << >>
  PROVE  /\ Tail(q) \in Seq(Jobs) /\ L!IsInjective(Tail(q)) /\ Head(q) \in Jobs
         /\ \A i \in Jobs : L!Contains(Tail(q), i) <=> L!Contains(q, i) /\ i # Head(q)
         /\ L!Contains(q, Head(q))
<1>1. /\ Len(q) \in Nat \ {0} /\ DOMAIN q = 1..Len(q) /\ Head(q) = q[1] /\ Head(q) \in Jobs
      /\ Tail(q) \in Seq(Jobs) /\ Len(Tail(q)) = Len(q) - 1
      /\ \A i \in 1..(Len(q) - 1) : Tail(q)[i] = q[i + 1]
  OBVIOUS
<1>2. DOMAIN Tail(q) = 1..(Len(q) - 1)
  BY <1>1
<1>3. L!IsInjective(Tail(q))
  <2> SUFFICES ASSUME NEW a \in 1..(Len(q) - 1), NEW b \in 1..(Len(q) - 1), Tail(q)[a] = Tail(q)[b]
               PROVE  a = b
    BY <1>2 DEF L!IsInjective
  <2>1. q[a + 1] = q[b + 1] /\ a + 1 \in DOMAIN q /\ b + 1 \in DOMAIN q
    BY <1>1
  <2>2. a + 1 = b + 1
    BY <2>1 DEF L!IsInjective
  <2> QED BY <2>2
<1>4. ASSUME NEW i \in Jobs PROVE L!Contains(Tail(q), i) <=> L!Contains(q, i) /\ i # Head(q)
  <2>1. ASSUME NEW n \in 1..Len(Tail(q)), Tail(q)[n] = i PROVE L!Contains(q, i) /\ i # Head(q)
    <3>1. n + 1 \in 1..Len(q) /\ q[n + 1] = i /\ n + 1 # 1 /\ 1 \in 1..Len(q)
      BY <1>1, <2>1
    <3> QED BY <1>1, <3>1 DEF L!Contains, L!IsInjective
  <2>2. ASSUME NEW n \in 1..Len(q), q[n] = i, i # Head(q) PROVE L!Contains(Tail(q), i)
    <3>1. n - 1 \in 1..Len(Tail(q)) /\ Tail(q)[n - 1] = i
      BY <1>1, <2>2
    <3> QED BY <3>1 DEF L!Contains
  <2> QED BY <2>1, <2>2 DEF L!Contains
<1>5. L!Contains(q, Head(q))
  BY <1>1 DEF L!Contains
<1> QED BY <1>1, <1>3, <1>4, <1>5

LEMMA RangeContains == ASSUME NEW q \in Seq(Jobs), NEW j, L!Contains(q, j) PROVE j \in L!Range(q)
BY DEF L!Contains, L!Range

-----------------------------------------------------------------------------
(* A connection is got or given back.                                      *)

\* holder' is holder with one connection more or less for j.
OnlyFor(j) ==
  /\ holder' \in [Connections -> Jobs \cup {None}]
  /\ \A i \in Jobs \ {j} : \A k \in Connections : holder'[k] = i <=> holder[k] = i

LEMMA ReleasesStep ==
  ASSUME L!PoolAssumption, L!TypeOK, NEW j \in Jobs, L!Releases(j)
  PROVE  OnlyFor(j) /\ (HoldsOne(j) => ~L!Holds(j)') /\ (HoldsTwo(j) => HoldsOne(j)')
<1>1. PICK k \in Connections : holder[k] = j /\ holder' = [holder EXCEPT ![k] = None]
  BY DEF L!Releases
<1>2. None \notin Jobs /\ holder \in [Connections -> Jobs \cup {None}]
  BY DEF L!PoolAssumption, L!TypeOK
<1>3. /\ \A l \in Connections \ {k} : holder'[l] = holder[l]
      /\ holder'[k] = None
      /\ holder' \in [Connections -> Jobs \cup {None}]
  BY <1>1, <1>2
<1>4. OnlyFor(j)
  BY <1>1, <1>2, <1>3 DEF OnlyFor
<1>5. HoldsOne(j) => ~L!Holds(j)'
  BY <1>1, <1>2, <1>3 DEF HoldsOne, L!Holds
<1>6. ASSUME HoldsTwo(j) PROVE HoldsOne(j)'
  <2>1. PICK a, b \in Connections : a # b /\ \A m \in Connections : holder[m] = j <=> m \in {a, b}
    BY <1>6 DEF HoldsTwo
  <2>2. CASE k = a
    BY <1>1, <1>2, <1>3, <2>1, <2>2 DEF HoldsOne
  <2>3. CASE k = b
    BY <1>1, <1>2, <1>3, <2>1, <2>3 DEF HoldsOne
  <2> QED BY <1>1, <2>1, <2>2, <2>3
<1> QED BY <1>4, <1>5, <1>6

\* A step of j that leaves the others where they are.
LEMMA OthersHold ==
  ASSUME PoolInv, NEW j \in Jobs, NEW i \in Jobs \ {j},
         OnlyFor(j), stage'[i] = stage[i], inner'[i] = inner[i], L!Waits(i)' <=> L!Waits(i),
         L!Contains(line', i) <=> L!Contains(line, i), L!Locked(i) => L!Locked(i)'
  PROVE  Holding(i)' /\ Queued(i)'
<1>1. Holding(i) /\ Queued(i)
  BY DEF PoolInv
<1>2. \A k \in Connections : holder'[k] = i <=> holder[k] = i
  BY DEF OnlyFor
<1>3. (L!Holds(i)' <=> L!Holds(i)) /\ (HoldsOne(i)' <=> HoldsOne(i)) /\ (HoldsTwo(i)' <=> HoldsTwo(i))
  BY <1>2 DEF L!Holds, HoldsOne, HoldsTwo
<1> QED BY <1>1, <1>3 DEF Holding, Queued, InTransaction

-----------------------------------------------------------------------------
(* The steps of a request.                                                 *)

LEMMA ArriveStep ==
  ASSUME L!PoolAssumption, PoolInv, NEW j \in Jobs, NEW k \in L!Kinds, L!Arrive(j, k)  PROVE PoolInv'
<1> USE DEF PoolInv
<1>1. /\ stage[j] = "idle" /\ stage' = [stage EXCEPT ![j] = "checks"]
      /\ waiting' = Append(waiting, j) /\ UNCHANGED <<holder, line, rollbacks>>
      /\ kind' = [kind EXCEPT ![j] = k]
      /\ inner' = [inner EXCEPT ![j] = IF k = "refresh" THEN 3 ELSE 0]
  BY DEF L!Arrive, L!To, L!Connects
<1>2. Holding(j) /\ Queued(j) /\ ~L!Contains(waiting, j)
  BY <1>1 DEF Queued, L!Waits
<1>3. /\ waiting' \in Seq(Jobs) /\ L!IsInjective(waiting')
      /\ \A i \in Jobs : L!Waits(i)' <=> L!Waits(i) \/ i = j
  BY <1>1, <1>2, QueueJoined DEF L!TypeOK, L!Waits
<1>4. L!TypeOK'
  BY <1>1, <1>3 DEF L!TypeOK
<1>5. Holding(j)' /\ Queued(j)'
  BY <1>1, <1>2, <1>3 DEF L!TypeOK, Holding, Queued, InTransaction, L!Holds
<1>6. OnlyFor(j)
  BY <1>1 DEF OnlyFor, L!TypeOK
<1>7. \A i \in Jobs \ {j} : Holding(i)' /\ Queued(i)'
  BY <1>1, <1>3, <1>6, OthersHold DEF L!TypeOK, L!Locked
<1> QED BY <1>4, <1>5, <1>7

LEMMA ConnectedStep ==
  ASSUME L!PoolAssumption, PoolInv, L!Connected  PROVE PoolInv'
<1> USE DEF PoolInv
<1>2. waiting # << >> /\ waiting' = Tail(waiting) /\ UNCHANGED <<kind, stage, inner, line, rollbacks>>
  BY DEF L!Connected
<1>0. PICK j \in Jobs : j = Head(waiting)
  BY <1>2, QueueLeft DEF L!TypeOK
<1>1. PICK k \in Connections : holder[k] = None /\ holder' = [holder EXCEPT ![k] = j]
  BY <1>0 DEF L!Connected, L!Free
<1>3. /\ waiting' \in Seq(Jobs) /\ L!IsInjective(waiting')
      /\ \A i \in Jobs : L!Waits(i)' <=> L!Waits(i) /\ i # j
      /\ L!Waits(j)
  BY <1>0, <1>2, QueueLeft DEF L!TypeOK, L!Waits
<1>4. None \notin Jobs /\ holder \in [Connections -> Jobs \cup {None}]
  BY DEF L!PoolAssumption, L!TypeOK
<1>5. /\ \A l \in Connections \ {k} : holder'[l] = holder[l]
      /\ holder'[k] = j
      /\ holder' \in [Connections -> Jobs \cup {None}]
  BY <1>1, <1>3, <1>4
<1>6. L!TypeOK'
  BY <1>2, <1>3, <1>5 DEF L!TypeOK
<1>7. Holding(j) /\ Queued(j)
  BY <1>3
<1>8. ~L!Holds(j) => HoldsOne(j)'
  BY <1>1, <1>5 DEF L!Holds, HoldsOne
<1>9. HoldsOne(j) => HoldsTwo(j)'
  <2> SUFFICES ASSUME HoldsOne(j) PROVE HoldsTwo(j)'
    OBVIOUS
  <2>1. PICK l \in Connections : \A m \in Connections : holder[m] = j <=> m = l
    BY DEF HoldsOne
  <2>2. l # k
    BY <1>1, <1>3, <1>4, <2>1
  <2>3. \A m \in Connections : holder'[m] = j <=> m \in {k, l}
    BY <1>5, <2>1, <2>2
  <2> QED BY <2>2, <2>3 DEF HoldsTwo
<1>10. Holding(j)' /\ Queued(j)'
  BY <1>2, <1>3, <1>7, <1>8, <1>9 DEF Holding, Queued, InTransaction, L!Locked
<1>11. OnlyFor(j)
  BY <1>1, <1>3, <1>4, <1>5 DEF OnlyFor
<1>12. \A i \in Jobs \ {j} : Holding(i)' /\ Queued(i)'
  BY <1>2, <1>3, <1>11, OthersHold DEF L!Locked
<1> QED BY <1>6, <1>10, <1>12

LEMMA ChecksEndStep ==
  ASSUME L!PoolAssumption, PoolInv, NEW j \in Jobs, L!ChecksEnd(j) \/ L!ReadBackEnds(j)  PROVE PoolInv'
<1> USE DEF PoolInv
<1>1. /\ stage[j] \in {"checks", "readback"} /\ ~L!Waits(j) /\ L!Releases(j)
      /\ UNCHANGED <<kind, inner, line, rollbacks>>
  BY DEF L!ChecksEnd, L!ReadBackEnds, L!At
<1>2. \/ stage' = [stage EXCEPT ![j] = "begin"] /\ waiting' = Append(waiting, j)
      \/ stage' = [stage EXCEPT ![j] = "idle"] /\ UNCHANGED waiting
  BY DEF L!ChecksEnd, L!ReadBackEnds, L!To, L!Connects
<1>3. Holding(j) /\ Queued(j) /\ HoldsOne(j)
  BY <1>1 DEF Holding
<1>4. OnlyFor(j) /\ ~L!Holds(j)'
  BY <1>1, <1>3, ReleasesStep
<1>5. /\ waiting' \in Seq(Jobs) /\ L!IsInjective(waiting')
      /\ \A i \in Jobs : L!Waits(i)' <=> L!Waits(i) \/ (i = j /\ stage'[j] = "begin")
  <2>0. stage \in [Jobs -> {"idle", "checks", "begin", "transaction", "inner", "readback"}]
        /\ waiting \in Seq(Jobs) /\ L!IsInjective(waiting) /\ ~L!Contains(waiting, j)
    BY <1>1 DEF L!TypeOK, L!Waits
  <2>1. CASE stage' = [stage EXCEPT ![j] = "begin"] /\ waiting' = Append(waiting, j)
    BY <2>0, <2>1, QueueJoined DEF L!Waits
  <2>2. CASE stage' = [stage EXCEPT ![j] = "idle"] /\ UNCHANGED waiting
    BY <2>0, <2>2 DEF L!Waits
  <2> QED BY <1>2, <2>1, <2>2
<1>6. stage'[j] \in {"begin", "idle"} /\ \A i \in Jobs \ {j} : stage'[i] = stage[i]
  BY <1>2 DEF L!TypeOK
<1>7. L!TypeOK'
  BY <1>1, <1>2, <1>4, <1>5 DEF L!TypeOK, OnlyFor
<1>8. Holding(j)' /\ Queued(j)'
  BY <1>1, <1>3, <1>4, <1>5, <1>6 DEF Holding, Queued, InTransaction
<1>9. \A i \in Jobs \ {j} : Holding(i)' /\ Queued(i)'
  BY <1>1, <1>4, <1>5, <1>6, OthersHold DEF L!Locked
<1> QED BY <1>7, <1>8, <1>9

LEMMA BeginStep ==
  ASSUME L!PoolAssumption, PoolInv, NEW j \in Jobs, L!Begin(j)  PROVE PoolInv'
<1> USE DEF PoolInv
<1>1. /\ stage[j] = "begin" /\ ~L!Waits(j) /\ stage' = [stage EXCEPT ![j] = "transaction"]
      /\ line' = Append(line, j) /\ UNCHANGED <<kind, inner, waiting, holder, rollbacks>>
  BY DEF L!Begin, L!At, L!To
<1>2. Holding(j) /\ Queued(j) /\ ~L!Contains(line, j)
  BY <1>1 DEF Queued, InTransaction
<1>3. /\ line' \in Seq(Jobs) /\ L!IsInjective(line') /\ line' # << >>
      /\ \A i \in Jobs : L!Contains(line', i) <=> L!Contains(line, i) \/ i = j
      /\ line # << >> => Head(line') = Head(line)
  BY <1>1, <1>2, QueueJoined DEF L!TypeOK
<1>4. L!TypeOK'
  BY <1>1, <1>3 DEF L!TypeOK
<1>5. \A i \in Jobs : L!Waits(i)' <=> L!Waits(i)
  BY <1>1 DEF L!Waits
<1>6. stage'[j] = "transaction" /\ \A i \in Jobs \ {j} : stage'[i] = stage[i]
  BY <1>1 DEF L!TypeOK
<1>7. Holding(j)' /\ Queued(j)'
  BY <1>1, <1>2, <1>3, <1>5, <1>6 DEF Holding, Queued, InTransaction, HoldsOne
<1>8. OnlyFor(j)
  BY <1>1 DEF OnlyFor, L!TypeOK
<1>9. \A i \in Jobs \ {j} : Holding(i)' /\ Queued(i)'
  BY <1>1, <1>3, <1>5, <1>6, <1>8, OthersHold DEF L!Locked
<1> QED BY <1>4, <1>7, <1>9

LEMMA CallsPoolStep ==
  ASSUME L!PoolAssumption, PoolInv, NEW j \in Jobs, L!CallsPool(j)  PROVE PoolInv'
<1> USE DEF PoolInv
<1>1. /\ stage[j] = "transaction" /\ ~L!Waits(j) /\ L!Locked(j) /\ inner[j] > 0
      /\ stage' = [stage EXCEPT ![j] = "inner"] /\ waiting' = Append(waiting, j)
      /\ UNCHANGED <<kind, inner, holder, line, rollbacks>>
  BY DEF L!CallsPool, L!At, L!To, L!Connects
<1>2. Holding(j) /\ Queued(j)
  OBVIOUS
<1>3. /\ waiting' \in Seq(Jobs) /\ L!IsInjective(waiting')
      /\ \A i \in Jobs : L!Waits(i)' <=> L!Waits(i) \/ i = j
  BY <1>1, QueueJoined DEF L!TypeOK, L!Waits
<1>4. L!TypeOK'
  BY <1>1, <1>3 DEF L!TypeOK
<1>5. stage'[j] = "inner" /\ \A i \in Jobs \ {j} : stage'[i] = stage[i]
  BY <1>1 DEF L!TypeOK
<1>6. Holding(j)' /\ Queued(j)'
  BY <1>1, <1>2, <1>3, <1>5 DEF Holding, Queued, InTransaction, HoldsOne, L!Locked
<1>7. OnlyFor(j)
  BY <1>1 DEF OnlyFor, L!TypeOK
<1>8. \A i \in Jobs \ {j} : Holding(i)' /\ Queued(i)'
  BY <1>1, <1>3, <1>5, <1>7, OthersHold DEF L!Locked
<1> QED BY <1>4, <1>6, <1>8

LEMMA InnerEndsStep ==
  ASSUME L!PoolAssumption, PoolInv, NEW j \in Jobs, L!InnerEnds(j)  PROVE PoolInv'
<1> USE DEF PoolInv
<1>1. /\ stage[j] = "inner" /\ ~L!Waits(j) /\ L!Releases(j)
      /\ stage' = [stage EXCEPT ![j] = "transaction"] /\ inner' = [inner EXCEPT ![j] = inner[j] - 1]
      /\ UNCHANGED <<kind, waiting, line, rollbacks>>
  BY DEF L!InnerEnds, L!At, L!To
<1>2. Holding(j) /\ Queued(j) /\ HoldsTwo(j) /\ inner[j] > 0
  BY <1>1 DEF Holding, Queued
<1>3. OnlyFor(j) /\ HoldsOne(j)'
  BY <1>1, <1>2, ReleasesStep
<1>4. L!TypeOK'
  BY <1>1, <1>2, <1>3 DEF L!TypeOK, OnlyFor
<1>5. /\ stage'[j] = "transaction"
      /\ \A i \in Jobs \ {j} : stage'[i] = stage[i] /\ inner'[i] = inner[i]
  BY <1>1 DEF L!TypeOK
<1>6. \A i \in Jobs : L!Waits(i)' <=> L!Waits(i)
  BY <1>1 DEF L!Waits
<1>7. Holding(j)' /\ Queued(j)'
  BY <1>1, <1>2, <1>3, <1>5, <1>6 DEF Holding, Queued, InTransaction
<1>8. \A i \in Jobs \ {j} : Holding(i)' /\ Queued(i)'
  BY <1>1, <1>3, <1>5, <1>6, OthersHold DEF L!Locked
<1> QED BY <1>4, <1>7, <1>8

\* The head of the line leaves it: no other is in "inner".
LEMMA TransactionEndsStep ==
  ASSUME L!PoolAssumption, PoolInv, NEW j \in Jobs, L!Commits(j) \/ L!RollsBack(j)  PROVE PoolInv'
<1> USE DEF PoolInv
<1>1. /\ stage[j] = "transaction" /\ ~L!Waits(j) /\ L!Releases(j)
      /\ line # << >> /\ Head(line) = j /\ line' = Tail(line)
      /\ UNCHANGED <<kind, inner>>
  BY DEF L!Commits, L!RollsBack, L!At, L!Locked
<1>2. \/ /\ stage' = [stage EXCEPT ![j] = "readback"] /\ waiting' = Append(waiting, j)
         /\ UNCHANGED rollbacks
      \/ /\ stage' = [stage EXCEPT ![j] = "idle"] /\ UNCHANGED waiting
         /\ rollbacks < MaxRollbacks /\ rollbacks' = rollbacks + 1
  BY DEF L!Commits, L!RollsBack, L!To, L!Connects
<1>3. Holding(j) /\ Queued(j) /\ HoldsOne(j)
  BY <1>1 DEF Holding
<1>4. OnlyFor(j) /\ ~L!Holds(j)'
  BY <1>1, <1>3, ReleasesStep
<1>5. /\ line' \in Seq(Jobs) /\ L!IsInjective(line')
      /\ \A i \in Jobs : L!Contains(line', i) <=> L!Contains(line, i) /\ i # j
  BY <1>1, QueueLeft DEF L!TypeOK
<1>6. /\ waiting' \in Seq(Jobs) /\ L!IsInjective(waiting')
      /\ \A i \in Jobs : L!Waits(i)' <=> L!Waits(i) \/ (i = j /\ stage'[j] = "readback")
  <2>0. stage \in [Jobs -> {"idle", "checks", "begin", "transaction", "inner", "readback"}]
        /\ waiting \in Seq(Jobs) /\ L!IsInjective(waiting) /\ ~L!Contains(waiting, j)
    BY <1>1 DEF L!TypeOK, L!Waits
  <2>1. CASE stage' = [stage EXCEPT ![j] = "readback"] /\ waiting' = Append(waiting, j)
    BY <2>0, <2>1, QueueJoined DEF L!Waits
  <2>2. CASE stage' = [stage EXCEPT ![j] = "idle"] /\ UNCHANGED waiting
    BY <2>0, <2>2 DEF L!Waits
  <2> QED BY <1>2, <2>1, <2>2
<1>7. stage'[j] \in {"readback", "idle"} /\ \A i \in Jobs \ {j} : stage'[i] = stage[i]
  BY <1>2 DEF L!TypeOK
<1>8. rollbacks' \in 0..MaxRollbacks
  BY <1>2 DEF L!TypeOK, L!PoolAssumption
<1>9. L!TypeOK'
  BY <1>1, <1>2, <1>4, <1>5, <1>6, <1>8 DEF L!TypeOK, OnlyFor
<1>10. Holding(j)' /\ Queued(j)'
  BY <1>1, <1>3, <1>4, <1>5, <1>6, <1>7 DEF Holding, Queued, InTransaction
<1>11. ASSUME NEW i \in Jobs \ {j} PROVE Holding(i)' /\ Queued(i)'
  <2>1. Holding(i) /\ Queued(i) /\ stage[i] # "inner"
    BY <1>1 DEF Queued, L!Locked
  <2>2. \A k \in Connections : holder'[k] = i <=> holder[k] = i
    BY <1>4 DEF OnlyFor
  <2>3. (L!Holds(i)' <=> L!Holds(i)) /\ (HoldsOne(i)' <=> HoldsOne(i))
    BY <2>2 DEF L!Holds, HoldsOne
  <2> QED BY <1>5, <1>6, <1>7, <2>1, <2>3 DEF Holding, Queued, InTransaction
<1> QED BY <1>9, <1>10, <1>11

LEMMA PoolHolds == ASSUME L!PoolAssumption PROVE L!Spec => []PoolInv
<1>1. L!Init => PoolInv
  BY InitPool
<1>2. PoolInv /\ [L!Next]_(L!plVars) => PoolInv'
  <2>1. CASE UNCHANGED L!plVars
    BY <2>1 DEF L!plVars, PoolInv, L!TypeOK, Holding, Queued, L!Holds, HoldsOne, HoldsTwo,
       InTransaction, L!Waits, L!Locked
  <2>2. CASE PoolInv /\ L!Next
    BY <2>2, ArriveStep, ConnectedStep, ChecksEndStep, BeginStep, CallsPoolStep, InnerEndsStep,
       TransactionEndsStep
    DEF L!Next, L!Proceeds
  <2> QED BY <2>1, <2>2
<1> QED BY <1>1, <1>2, PTL DEF L!Spec

\* Who holds a connection and cannot go on waits for the lock, unless it is the
\* refresh that has it.
LEMMA PoolProgress == ASSUME L!PoolAssumption, PoolInv PROVE L!NobodyIsStuck
<1> USE DEF PoolInv
<1> SUFFICES ASSUME NEW j \in Jobs, stage[j] # "idle", ~L!MayConnect,
                    \A i \in Jobs : ~L!MayProceed(i)
             PROVE  L!Exhausted
  BY DEF L!NobodyIsStuck
<1>1. \A i \in Jobs : HoldsOne(i) \/ HoldsTwo(i) => L!Holds(i)
  BY DEF HoldsOne, HoldsTwo, L!Holds
\* Anyone outside the line waits for a connection, and has none.
<1>2. \A i \in Jobs : stage[i] # "idle" /\ ~InTransaction(i) => L!Waits(i) /\ ~L!Holds(i)
  BY <1>1 DEF Holding, L!MayProceed, InTransaction
<1>3. ASSUME NEW i \in Jobs, L!Waits(i) PROVE \A k \in Connections : holder[k] \in Jobs
  <2>1. waiting # << >>
    BY <1>3 DEF L!Waits, L!Contains
  <2> QED BY <2>1 DEF L!MayConnect, L!Free, L!TypeOK
<1>4. \A i \in Jobs : L!Holds(i) => stage[i] # "idle"
  BY DEF Holding
<1>5. line # << >>
  <2> SUFFICES ASSUME line = << >> PROVE FALSE
    OBVIOUS
  <2>1. \A i \in Jobs : ~InTransaction(i)
    BY DEF Queued, L!Contains
  <2>2. PICK k \in Connections : holder[k] \in Jobs
    BY <1>2, <1>3, <2>1 DEF L!PoolAssumption
  <2>3. L!Holds(holder[k])
    BY <2>2 DEF L!Holds
  <2> QED BY <1>2, <1>4, <2>1, <2>2, <2>3
<1> DEFINE h == Head(line)
<1>6. h \in Jobs /\ InTransaction(h) /\ L!Locked(h)
  BY <1>5, QueueLeft DEF L!TypeOK, Queued, L!Locked
<1> HIDE DEF h
<1>7. stage[h] = "inner" /\ L!Waits(h)
  <2>1. Holding(h) /\ Queued(h) /\ stage[h] \in {"transaction", "inner"} /\ ~L!MayProceed(h)
    BY <1>6 DEF InTransaction
  <2>2. L!Waits(h)
    BY <1>1, <1>6, <2>1 DEF Holding, L!MayProceed
  <2> QED BY <2>1, <2>2 DEF Queued
<1>8. \A k \in Connections : holder[k] \in L!Range(line)
  <2> SUFFICES ASSUME NEW k \in Connections PROVE holder[k] \in L!Range(line)
    OBVIOUS
  <2>1. holder[k] \in Jobs /\ L!Holds(holder[k])
    BY <1>3, <1>6, <1>7 DEF L!Holds
  <2>2. L!Contains(line, holder[k])
    BY <1>2, <1>4, <2>1 DEF Queued
  <2> QED BY <2>2, RangeContains DEF L!TypeOK
<1> QED BY <1>5, <1>7, <1>8 DEF L!Exhausted, h

-----------------------------------------------------------------------------
(* Two documents that agree except on some names are told apart by no      *)
(* evaluation that reads none of these names.                              *)
Agree(except, e, f) ==
  \A q : q \notin except => /\ q \in DOMAIN e <=> q \in DOMAIN f
                            /\ q \in DOMAIN e => e[q] = f[q]

LEMMA AgreeBefore ==
  ASSUME NEW X, NEW e, NEW f, Agree(X, e, f), NEW x, NEW y, Agree(X, x, y)
  PROVE  Agree(X, T!Before(x, e), T!Before(y, f))
BY DEF Agree, T!Before

LEMMA AgreeRight ==
  ASSUME NEW X, NEW e, NEW f, Agree(X, e, f), NEW c, T!RightPath(c) \cap X = {}
  PROVE  /\ T!RightDefined(c, e) <=> T!RightDefined(c, f)
         /\ T!RightDefined(c, e) => T!Right(c, e) = T!Right(c, f)
BY DEF Agree, T!RightPath, T!RightDefined, T!Right, T!Defined

LEMMA AgreeStandard ==
  ASSUME NEW X, NEW e, NEW f, Agree(X, e, f), NEW c, T!StandardReads(c) \cap X = {}
  PROVE  T!Standard(c, e) = T!Standard(c, f)
<1>1. /\ T!RightDefined(c, e) <=> T!RightDefined(c, f)
      /\ T!RightDefined(c, e) => T!Right(c, e) = T!Right(c, f)
  BY AgreeRight DEF T!StandardReads
<1>2. /\ T!Defined(e, c.left) <=> T!Defined(f, c.left)
      /\ T!Defined(e, c.left) => e[c.left] = f[c.left]
  BY DEF T!StandardReads, Agree, T!Defined
<1> QED BY <1>1, <1>2 DEF T!Standard

LEMMA AgreeAllStandard ==
  ASSUME NEW X, NEW e, NEW f, Agree(X, e, f), NEW conds, T!AllReads(conds) \cap X = {}, NEW x
  PROVE  T!AllStandard(conds, T!Before(x, e)) <=> T!AllStandard(conds, T!Before(x, f))
<1>1. Agree(X, T!Before(x, e), T!Before(x, f))
  <2>1. Agree(X, x, x)
    BY DEF Agree
  <2> QED BY <2>1, AgreeBefore
<1>2. ASSUME NEW k \in DOMAIN conds
      PROVE  T!Standard(conds[k], T!Before(x, e)) = T!Standard(conds[k], T!Before(x, f))
  <2>1. T!StandardReads(conds[k]) \cap X = {}
    BY <1>2 DEF T!AllReads
  <2> QED BY <1>1, <2>1, AgreeStandard
<1> QED BY <1>2 DEF T!AllStandard

LEMMA AgreeAggregate ==
  ASSUME NEW X, NEW e, NEW f, Agree(X, e, f), NEW c,
         ({c.collection} \cup T!AllReads(c.filter) \cup T!RightPath(c)) \cap X = {}
  PROVE  T!Aggregate(c, e) <=> T!Aggregate(c, f)
<1>1. /\ T!RightDefined(c, e) <=> T!RightDefined(c, f)
      /\ T!RightDefined(c, e) => T!Right(c, e) = T!Right(c, f)
  BY AgreeRight
<1>2. /\ T!Defined(e, c.collection) <=> T!Defined(f, c.collection)
      /\ T!Elements(c, e) = T!Elements(c, f)
  BY DEF Agree, T!Defined, T!Elements
<1>3. \A x : T!AllStandard(c.filter, T!Before(x, e)) <=> T!AllStandard(c.filter, T!Before(x, f))
  BY AgreeAllStandard
<1>4. T!Filtered(c, e) = T!Filtered(c, f)
  BY <1>2, <1>3 DEF T!Filtered
<1> QED BY <1>1, <1>2, <1>4 DEF T!Aggregate

LEMMA AgreeUniversal ==
  ASSUME NEW X, NEW e, NEW f, Agree(X, e, f), NEW c,
         ({c.collection} \cup T!AllReads(c.conditions)) \cap X = {}
  PROVE  T!Universal(c, e) <=> T!Universal(c, f)
<1>1. /\ T!Defined(e, c.collection) <=> T!Defined(f, c.collection)
      /\ T!Defined(e, c.collection) => e[c.collection] = f[c.collection]
  BY DEF Agree, T!Defined
<1>2. \A x : T!AllStandard(c.conditions, T!Before(x, e))
             <=> T!AllStandard(c.conditions, T!Before(x, f))
  BY AgreeAllStandard
<1> QED BY <1>1, <1>2 DEF T!Universal

LEMMA AgreeArithmetic ==
  ASSUME NEW X, NEW e, NEW f, Agree(X, e, f), NEW c, c.type = "arith", T!CondWellFormed(c),
         (T!ToSet(c.args) \cup T!RightPath(c)) \cap X = {}
  PROVE  T!Arithmetic(c, e) <=> T!Arithmetic(c, f)
<1>1. /\ T!RightDefined(c, e) <=> T!RightDefined(c, f)
      /\ T!RightDefined(c, e) => T!Right(c, e) = T!Right(c, f)
  BY AgreeRight
<1>2. \A k \in DOMAIN c.args : /\ T!Defined(e, c.args[k]) <=> T!Defined(f, c.args[k])
                               /\ T!Defined(e, c.args[k]) => e[c.args[k]] = f[c.args[k]]
  BY DEF T!ToSet, Agree, T!Defined
<1>3. 1 \in DOMAIN c.args /\ (c.expr = "fee" => 2 \in DOMAIN c.args)
  BY DEF T!CondWellFormed
<1> QED BY <1>1, <1>2, <1>3 DEF T!Arithmetic

LEMMA AgreeBuiltinLeft ==
  ASSUME NEW X, NEW e, NEW f, Agree(X, e, f), NEW c, ({c.arg} \cup T!RightPath(c)) \cap X = {}
  PROVE  T!BuiltinLeft(c, e) <=> T!BuiltinLeft(c, f)
<1>1. /\ T!RightDefined(c, e) <=> T!RightDefined(c, f)
      /\ T!RightDefined(c, e) => T!Right(c, e) = T!Right(c, f)
  BY AgreeRight
<1>2. /\ T!Defined(e, c.arg) <=> T!Defined(f, c.arg)
      /\ T!Defined(e, c.arg) => e[c.arg] = f[c.arg]
  BY DEF Agree, T!Defined
<1> QED BY <1>1, <1>2 DEF T!BuiltinLeft

LEMMA AgreeOptional ==
  ASSUME NEW X, NEW e, NEW f, Agree(X, e, f), NEW c,
         ({c.obj, c.left} \cup T!RightPath(c)) \cap X = {}
  PROVE  T!Optional(c, e) <=> T!Optional(c, f)
<1>1. /\ T!RightDefined(c, e) <=> T!RightDefined(c, f)
      /\ T!RightDefined(c, e) => T!Right(c, e) = T!Right(c, f)
  BY AgreeRight
<1>2. /\ T!Defined(e, c.obj) <=> T!Defined(f, c.obj)
      /\ T!Defined(e, c.left) <=> T!Defined(f, c.left)
      /\ T!Defined(e, c.left) => e[c.left] = f[c.left]
  BY DEF Agree, T!Defined
<1> QED BY <1>1, <1>2 DEF T!Optional

LEMMA AgreeVerified ==
  ASSUME NEW X, NEW e, NEW f, Agree(X, e, f), NEW c, c.type = "verify", T!CondWellFormed(c),
         (T!ToSet(c.refs) \cup (IF c.dynamic THEN {c.selector} ELSE {})) \cap X = {}
  PROVE  T!Verified(c, e) <=> T!Verified(c, f)
<1>1. \A k \in DOMAIN c.refs : /\ T!Defined(e, c.refs[k]) <=> T!Defined(f, c.refs[k])
                               /\ T!Defined(e, c.refs[k]) => e[c.refs[k]] = f[c.refs[k]]
  BY DEF T!ToSet, Agree, T!Defined
<1>2. c.dynamic => /\ T!Defined(e, c.selector) <=> T!Defined(f, c.selector)
                   /\ T!Defined(e, c.selector) => e[c.selector] = f[c.selector]
  BY DEF Agree, T!Defined
<1>3. Len(c.refs) \in DOMAIN c.refs
  BY DEF T!CondWellFormed
<1> QED BY <1>1, <1>2, <1>3 DEF T!Verified

LEMMA AgreeRaw ==
  ASSUME NEW X, NEW e, NEW f, Agree(X, e, f), NEW c, c.type = "raw", T!CondWellFormed(c),
         T!RawReads(c) \cap X = {}
  PROVE  T!RawHolds(c, e) = T!RawHolds(c, f)
<1>1. /\ T!Defined(e, c.args[1]) <=> T!Defined(f, c.args[1])
      /\ T!Defined(e, c.args[1]) => e[c.args[1]] = f[c.args[1]]
  BY DEF T!RawReads, Agree, T!Defined
<1>2. c.does \in {"overlap", "disjoint", "prior", "chain", "jwt"} =>
        /\ T!Defined(e, c.args[2]) <=> T!Defined(f, c.args[2])
        /\ T!Defined(e, c.args[2]) => e[c.args[2]] = f[c.args[2]]
  BY DEF T!RawReads, Agree, T!Defined
<1>3. CASE c.does = "not_string"
  BY <1>1, <1>2, <1>3 DEF T!RawHolds
<1>4. CASE c.does = "not_typed"
  BY <1>1, <1>2, <1>4 DEF T!RawHolds
<1>5. CASE c.does = "overlap"
  BY <1>1, <1>2, <1>5 DEF T!RawHolds
<1>6. CASE c.does = "disjoint"
  BY <1>1, <1>2, <1>6 DEF T!RawHolds
<1>7. CASE c.does = "overlap_with"
  BY <1>1, <1>2, <1>7 DEF T!RawHolds
<1>8. CASE c.does = "member"
  BY <1>1, <1>2, <1>8 DEF T!RawHolds
<1>9. CASE c.does = "duplicates"
  BY <1>1, <1>2, <1>9 DEF T!RawHolds
<1>10. CASE c.does = "prior"
  BY <1>1, <1>2, <1>10 DEF T!RawHolds
<1>11. CASE c.does = "chain"
  BY <1>1, <1>2, <1>11 DEF T!RawHolds
<1>12. CASE c.does = "jwt"
  BY <1>1, <1>2, <1>12 DEF T!RawHolds
<1> QED BY <1>3, <1>4, <1>5, <1>6, <1>7, <1>8, <1>9, <1>10, <1>11, <1>12 DEF T!CondWellFormed, T!RawKinds

LEMMA AgreeHolds ==
  ASSUME NEW X, NEW e, NEW f, Agree(X, e, f), NEW c, T!CondWellFormed(c), T!CondReads(c) \cap X = {}
  PROVE  T!Holds(c, e) = T!Holds(c, f)
<1>1. CASE c.type = "std"
  BY <1>1, AgreeStandard DEF T!CondReads, T!Holds
<1>2. CASE c.type = "aggregate"
  BY <1>2, AgreeAggregate DEF T!CondReads, T!Holds, T!Aggregate
<1>3. CASE c.type = "every"
  BY <1>3, AgreeUniversal DEF T!CondReads, T!Holds, T!Universal
<1>4. CASE c.type = "arith"
  BY <1>4, AgreeArithmetic DEF T!CondReads, T!Holds, T!Arithmetic
<1>5. CASE c.type = "builtin_left"
  BY <1>5, AgreeBuiltinLeft DEF T!CondReads, T!Holds, T!BuiltinLeft
<1>6. CASE c.type = "object_get"
  BY <1>6, AgreeOptional DEF T!CondReads, T!Holds, T!Optional
<1>7. CASE c.type = "verify"
  BY <1>7, AgreeVerified DEF T!CondReads, T!Holds, T!Verified
<1>8. CASE c.type = "raw"
  BY <1>8, AgreeRaw DEF T!CondReads, T!Holds
<1> QED BY <1>1, <1>2, <1>3, <1>4, <1>5, <1>6, <1>7, <1>8 DEF T!CondWellFormed, T!CondKinds

LEMMA AgreeBranch ==
  ASSUME NEW X, NEW e, NEW f, Agree(X, e, f), NEW b, T!BranchReads(b) \cap X = {},
         \A g \in DOMAIN b.groups : \A k \in DOMAIN b.groups[g].conds :
           T!CondWellFormed(b.groups[g].conds[k])
  PROVE  T!BranchHolds(b, e) <=> T!BranchHolds(b, f)
<1>1. ASSUME NEW g \in DOMAIN b.groups, NEW k \in DOMAIN b.groups[g].conds
      PROVE  T!Holds(b.groups[g].conds[k], e) = T!Holds(b.groups[g].conds[k], f)
  <2>1. T!CondReads(b.groups[g].conds[k]) \cap X = {}
    BY DEF T!BranchReads, T!GroupReads
  <2> QED BY <2>1, AgreeHolds
<1>2. ASSUME NEW g \in DOMAIN b.groups
      PROVE  T!GroupHolds(b.groups[g], e) <=> T!GroupHolds(b.groups[g], f)
  BY <1>1 DEF T!GroupHolds
<1> QED BY <1>2 DEF T!BranchHolds

LEMMA AgreeRule ==
  ASSUME NEW X, NEW e, NEW f, Agree(X, e, f), NEW t, NEW k \in DOMAIN Templates[t],
         T!RuleWellFormed(t, k), T!Reads(t) \cap X = {},
         {Templates[t][j].name : j \in 1..(k - 1)} \subseteq DOMAIN e
  PROVE  T!RuleValue(Templates[t][k], e) = T!RuleValue(Templates[t][k], f)
<1> DEFINE r == Templates[t][k]
<1>1. T!RuleReads(r) \cap X = {}
  BY DEF T!Reads
<1>2. ASSUME NEW n \in DOMAIN r.branches
      PROVE  T!BranchHolds(r.branches[n], e) <=> T!BranchHolds(r.branches[n], f)
  <2>1. T!BranchReads(r.branches[n]) \cap X = {}
    BY <1>1 DEF T!RuleReads
  <2>2. \A g \in DOMAIN r.branches[n].groups : \A m \in DOMAIN r.branches[n].groups[g].conds :
          T!CondWellFormed(r.branches[n].groups[g].conds[m])
    BY DEF T!RuleWellFormed
  <2> QED BY <2>1, <2>2, AgreeBranch
<1>3. {n \in DOMAIN r.branches : T!BranchHolds(r.branches[n], e)}
        = {n \in DOMAIN r.branches : T!BranchHolds(r.branches[n], f)}
  BY <1>2
<1>4. r.kind = "result_object" => e["allow"] = f["allow"] /\ e[r.default] = f[r.default]
  <2>1. r.kind = "result_object" => {"allow", r.default} \subseteq DOMAIN e
    BY DEF T!RuleWellFormed
  <2>2. r.kind = "result_object" => "allow" \notin X /\ r.default \notin X
    BY <1>1 DEF T!RuleReads
  <2> QED BY <2>1, <2>2 DEF Agree
<1> HIDE DEF r
<1> QED BY <1>3, <1>4 DEF T!RuleValue, r

-----------------------------------------------------------------------------
(* A document is built rule by rule.                                       *)
LEMMA StageStart ==
  ASSUME NEW rules, NEW input, Len(rules) \in Nat
  PROVE  /\ T!Stages(rules, input)[0] = input
         /\ \A k \in 1..Len(rules) :
              T!Stages(rules, input)[k] = T!With(T!Stages(rules, input)[k - 1], rules[k])
<1> DEFINE Doc(g, n) == g = [k \in 0..n |-> IF k = 0 THEN input ELSE T!With(g[k - 1], rules[k])]
           Missing == {n \in Nat : ~ \E g : Doc(g, n)}
<1>1. \E g : Doc(g, 0)
  <2>1. Doc([k \in 0..0 |-> input], 0)
    OBVIOUS
  <2> QED BY <2>1
<1>2. ASSUME NEW n \in Nat, NEW g, Doc(g, n) PROVE \E h : Doc(h, n + 1)
  <2> DEFINE h == [k \in 0..(n + 1) |-> IF k <= n THEN g[k] ELSE T!With(g[n], rules[n + 1])]
  <2>1. h[0] = input
    BY <1>2
  <2>2. ASSUME NEW k \in 1..n PROVE h[k] = T!With(h[k - 1], rules[k])
    <3>1. h[k] = g[k] /\ h[k - 1] = g[k - 1]
      OBVIOUS
    <3>2. g[k] = T!With(g[k - 1], rules[k])
      BY <1>2
    <3> QED BY <3>1, <3>2
  <2>3. h[n + 1] = T!With(h[n], rules[n + 1])
    OBVIOUS
  <2>4. \A k \in 0..(n + 1) : h[k] = IF k = 0 THEN input ELSE T!With(h[k - 1], rules[k])
    <3> SUFFICES ASSUME NEW k \in 0..(n + 1)
                 PROVE  h[k] = IF k = 0 THEN input ELSE T!With(h[k - 1], rules[k])
      OBVIOUS
    <3>1. k = 0 \/ k \in 1..n \/ k = n + 1
      OBVIOUS
    <3> HIDE DEF h
    <3> QED BY <2>1, <2>2, <2>3, <3>1
  <2>5. h = [k \in 0..(n + 1) |-> h[k]]
    OBVIOUS
  <2> HIDE DEF h
  <2>6. Doc(h, n + 1)
    BY <2>4, <2>5
  <2> QED BY <2>6
<1>3. Missing = {}
  <2> SUFFICES ASSUME Missing # {} PROVE FALSE
    OBVIOUS
  <2>1. PICK m \in Missing : \A n \in Missing : m <= n
    BY H!Least
  <2>2. m \in Nat /\ m # 0
    BY <1>1
  <2>3. \E g : Doc(g, m - 1)
    BY <2>1, <2>2
  <2>4. \E g : Doc(g, (m - 1) + 1)
    <3> HIDE DEF Doc
    <3>1. m - 1 \in Nat
      BY <2>2
    <3> QED BY <1>2, <2>3, <3>1
  <2> QED BY <2>1, <2>2, <2>4
<1>4. Doc(T!Stages(rules, input), Len(rules))
  BY <1>3 DEF T!Stages
<1> QED BY <1>4

LEMMA AgreeDocument ==
  ASSUME NEW t, T!TemplateFits(t), NEW X, T!Reads(t) \cap X = {}, NEW e, NEW f, Agree(X, e, f)
  PROVE  /\ Agree(X, T!Document(Templates[t], e), T!Document(Templates[t], f))
         /\ T!RuleNames(t) \subseteq DOMAIN T!Document(Templates[t], e)
<1> DEFINE rules == Templates[t]
           E == T!Stages(rules, e)
           F == T!Stages(rules, f)
           Names(k) == {Templates[t][j].name : j \in 1..k}
           Known(k) == Agree(X, E[k], F[k]) /\ Names(k) \subseteq DOMAIN E[k]
           Missing == {k \in 0..Len(rules) : ~Known(k)}
<1>1. Len(rules) \in Nat /\ DOMAIN rules = 1..Len(rules)
  BY DEF T!TemplateFits
<1>2. /\ E[0] = e /\ \A k \in 1..Len(rules) : E[k] = T!With(E[k - 1], rules[k])
      /\ F[0] = f /\ \A k \in 1..Len(rules) : F[k] = T!With(F[k - 1], rules[k])
  BY <1>1, StageStart
<1> HIDE DEF E, F
<1>3. Known(0)
  BY <1>2
<1>4. ASSUME NEW k \in 1..Len(rules), Known(k - 1) PROVE Known(k)
  <2>1. T!RuleWellFormed(t, k) /\ k \in DOMAIN Templates[t]
    BY <1>1 DEF T!TemplateFits
  <2>2. T!RuleValue(Templates[t][k], E[k - 1]) = T!RuleValue(Templates[t][k], F[k - 1])
    BY <1>4, <2>1, AgreeRule
  <2> DEFINE new == [name \in {rules[k].name} |-> T!RuleValue(rules[k], E[k - 1])]
  <2>3. E[k] = T!Before(E[k - 1], new) /\ F[k] = T!Before(F[k - 1], new)
    BY <1>2, <2>2 DEF T!With
  <2>4. Agree(X, E[k], F[k])
    <3>1. Agree(X, new, new)
      BY DEF Agree
    <3> HIDE DEF new
    <3> QED BY <1>4, <2>3, <3>1, AgreeBefore
  <2>5. DOMAIN E[k] = {rules[k].name} \cup DOMAIN E[k - 1]
    BY <2>3 DEF T!Before
  <2>6. Names(k) \subseteq {rules[k].name} \cup Names(k - 1)
    OBVIOUS
  <2> QED BY <1>4, <2>4, <2>5, <2>6
<1>5. Missing = {}
  <2> SUFFICES ASSUME Missing # {} PROVE FALSE
    OBVIOUS
  <2>1. PICK m \in Missing : \A n \in Missing : m <= n
    <3>1. Missing \in SUBSET Nat
      BY <1>1
    <3> QED BY <3>1, H!Least
  <2>2. m \in 1..Len(rules) /\ m - 1 \in 0..Len(rules) /\ m - 1 \notin Missing
    BY <1>1, <1>3, <2>1
  <2> QED BY <1>4, <2>1, <2>2
<1>6. Known(Len(rules))
  BY <1>1, <1>5
<1>7. T!RuleNames(t) = Names(Len(rules))
  BY <1>1 DEF T!RuleNames
<1> QED BY <1>6, <1>7 DEF T!Document, E, F

-----------------------------------------------------------------------------
(* PolicyTrial: an input holds fields of its template, with values of them. *)

LEMMA TrialBegins == ASSUME T!TrialAssumption, T!Init PROVE T!TypeOK
<1>1. template \in T!TemplateIds /\ index \subseteq T!Fields(template) /\ edits \in 0..MaxEdits
  BY DEF T!Init, T!TrialAssumption, T!TemplateFits
<1>2. CASE body = << >>
  BY <1>1, <1>2 DEF T!TypeOK
<1>3. CASE body = T!Sample(template)
  <2>1. DOMAIN body = T!Fields(template)
        /\ \A p \in DOMAIN body : body[p] = Samples[template][p][1]
    BY <1>3 DEF T!Sample
  <2>2. \A p \in T!Fields(template) : Samples[template][p][1] \in T!Values(template, p)
    BY <1>1 DEF T!TrialAssumption, T!TemplateFits, T!Values, T!ToSet
  <2> QED BY <1>1, <2>1, <2>2 DEF T!TypeOK
<1> QED BY <1>2, <1>3 DEF T!Init

LEMMA TrialStep == ASSUME T!TrialAssumption, T!TypeOK, T!Next PROVE T!TypeOK'
<1>1. edits' \in 0..MaxEdits /\ UNCHANGED <<template, index>>
  BY DEF T!Next, T!TypeOK, T!TrialAssumption
<1>2. ASSUME NEW p \in T!Fields(template), T!Put(p) PROVE T!TypeOK'
  BY <1>1, <1>2 DEF T!Put, T!TypeOK
<1>3. ASSUME NEW p \in DOMAIN body, T!Drop(p) PROVE T!TypeOK'
  BY <1>1, <1>3 DEF T!Drop, T!TypeOK
<1> QED BY <1>2, <1>3 DEF T!Next, T!Step

(* A field with a default is only there within the object that holds it.   *)
Nested == \A p \in DOMAIN body : T!Around(p) \subseteq DOMAIN body
Indexed == index = T!RequiredPaths(Templates[template])
TrialInv == T!TypeOK /\ Nested /\ Indexed

LEMMA StrictComplete == ASSUME T!TrialAssumption, TrialInv PROVE T!StrictIsComplete
<1> SUFFICES ASSUME T!StrictLists(index, body),
                    NEW p \in T!Fields(template) \ (DOMAIN body \cup T!HasDefault), NEW v
             PROVE  T!Answer(template, T!Before(body, [q \in {p} |-> v])) = T!Answer(template, body)
  BY DEF T!StrictIsComplete
<1> DEFINE more == T!Before(body, [q \in {p} |-> v])
<1>1. T!TemplateFits(template)
  BY DEF T!TrialAssumption, TrialInv, T!TypeOK
<1>2. p \notin T!Reads(template) /\ p \notin T!RuleNames(template)
  BY <1>1 DEF T!TemplateFits, T!StrictLists, TrialInv, Indexed
<1>3. Agree({p}, body, more)
  BY DEF Agree, T!Before
<1>4. /\ Agree({p}, T!Document(Templates[template], body), T!Document(Templates[template], more))
      /\ T!RuleNames(template) \subseteq DOMAIN T!Document(Templates[template], body)
  BY <1>1, <1>2, <1>3, AgreeDocument
<1>5. \A r \in T!RuleNames(template) :
        T!Document(Templates[template], more)[r] = T!Document(Templates[template], body)[r]
  BY <1>2, <1>4 DEF Agree
<1> QED BY <1>5 DEF T!Answer

LEMMA HiddenDenied == ASSUME T!TrialAssumption, TrialInv PROVE T!HiddenDenies
<1> SUFFICES ASSUME template \notin T!Unguarded, ~T!ScoreLists(index, body)
             PROVE  ~T!Permits(template, body)
  BY DEF T!HiddenDenies
<1> DEFINE X == DOMAIN body
<1>1. T!TemplateFits(template) /\ X \subseteq T!Fields(template)
  BY DEF T!TrialAssumption, TrialInv, T!TypeOK
<1>2. index # {} /\ index \cap X = {} /\ index = T!RequiredPaths(Templates[template])
  BY DEF T!ScoreLists, TrialInv, Indexed
<1>3. X \cap T!HasDefault = {}
  <2> SUFFICES ASSUME NEW p \in X \cap T!HasDefault PROVE FALSE
    OBVIOUS
  <2>1. "config" \in index /\ "config" \in T!Fields(template)
    BY <1>1, <1>2 DEF T!TemplateFits
  <2>2. "config" \in T!Around(p)
    BY <2>1 DEF T!Around, T!Inside, T!HasDefault
  <2> QED BY <1>2, <2>1, <2>2 DEF TrialInv, Nested
<1>4. T!Reads(template) \cap X = {} /\ T!Grants \cap X = {}
  BY <1>1, <1>2, <1>3 DEF T!TemplateFits
<1>5. Agree(X, body, << >>)
  BY DEF Agree
<1>6. Agree(X, T!Document(Templates[template], body), T!Document(Templates[template], << >>))
  BY <1>1, <1>4, <1>5, AgreeDocument
<1>7. ~T!Permits(template, << >>)
  BY <1>1, <1>2 DEF T!TemplateFits
<1> QED BY <1>4, <1>6, <1>7 DEF T!Permits, Agree

LEMMA TrialBeginsWell == ASSUME T!TrialAssumption, T!Init, T!TypeOK PROVE TrialInv
BY DEF T!Init, T!TypeOK, T!Sample, TrialInv, Nested, Indexed, T!Around

LEMMA TrialGoesWell == ASSUME T!TrialAssumption, TrialInv, T!Next, T!TypeOK' PROVE TrialInv'
<1>1. template' = template /\ index' = index
  BY DEF T!Next
<1>2. Indexed'
  BY <1>1 DEF TrialInv, Indexed
<1>3. ASSUME NEW p \in T!Fields(template), T!Put(p) PROVE Nested'
  BY <1>1, <1>3 DEF T!Put, TrialInv, Nested, T!Around, T!Fields
<1>4. ASSUME NEW p \in DOMAIN body, T!Drop(p) PROVE Nested'
  <2>1. DOMAIN body' = DOMAIN body \ ({p} \cup T!Inside(p))
    BY <1>4 DEF T!Drop
  <2>2. ASSUME NEW q \in DOMAIN body', NEW r \in T!Around(q) PROVE r \in DOMAIN body'
    <3>1. r \in DOMAIN body /\ q \in T!Inside(r)
      BY <2>1 DEF TrialInv, Nested, T!Around
    <3>2. r # p
      BY <2>1, <3>1
    <3>3. r \notin T!Inside(p)
      BY <3>1 DEF T!Inside
    <3> QED BY <2>1, <3>1, <3>2, <3>3
  <2> QED BY <1>1, <2>2 DEF Nested, T!Around, T!Fields
<1> QED BY <1>2, <1>3, <1>4 DEF T!Next, T!Step, TrialInv

LEMMA TrialHolds == Spec => [](part = "templates" => TrialInv)
<1>1. Init => (part = "templates" => TrialInv)
  BY RoutesAssumption, TrialBegins, TrialBeginsWell DEF Init
<1>2. (part = "templates" => TrialInv) /\ [Next]_all => (part = "templates" => TrialInv)'
  <2>1. [Next]_all => UNCHANGED part /\ (UNCHANGED tVars \/ T!Next)
    BY DEF Next, all
  <2>2. TrialInv /\ UNCHANGED tVars => TrialInv'
    BY DEF tVars, TrialInv, T!TypeOK, Nested, T!Around, T!Fields, Indexed
  <2>3. TrialInv /\ T!Next => TrialInv'
    BY RoutesAssumption, TrialStep, TrialGoesWell DEF TrialInv
  <2> QED BY <2>1, <2>2, <2>3
<1> QED BY <1>1, <1>2, PTL DEF Spec

-----------------------------------------------------------------------------
(* Each component behaves as its specification allows, its part or not.    *)

LEMMA PartsStart ==
  Init => S!Init /\ C!Init /\ D!Init /\ Z!Init /\ H!Init /\ A!Init /\ L!Init
BY DEF Init

LEMMA PartsStep ==
  [Next]_all =>
    /\ [S!Next]_sVars /\ [C!Next]_cVars /\ [D!Next]_dVars
    /\ [Z!Next]_zVars /\ [H!Next]_hVars /\ [A!Next]_aVars /\ [L!Next]_lVars
BY DEF Next, all, S!Next

LEMMA PartsFollow ==
  Spec => S!Spec /\ C!Spec /\ D!Spec /\ Z!Spec /\ H!Spec /\ A!Spec /\ L!Spec
<1>1. /\ S!psVars = sVars /\ C!caVars = cVars /\ D!dVars = dVars
      /\ Z!zVars = zVars /\ H!vars = hVars /\ A!vars = aVars /\ L!plVars = lVars
  BY DEF S!psVars, sVars, C!caVars, cVars, D!dVars, dVars, Z!zVars, zVars, H!vars, hVars, A!vars, aVars,
         L!plVars, lVars
<1> QED
  BY PartsStart, PartsStep, PTL
  DEF Spec, S!Spec, C!Spec, D!Spec, Z!Spec, H!Spec, A!Spec, L!Spec, S!psVars, sVars, C!caVars, cVars,
      D!dVars, dVars, Z!zVars, zVars, H!vars, hVars, A!vars, aVars, L!plVars, lVars

\* The part is chosen at the start.
KnownPart ==
  part \in {"policies", "previews", "callers", "directory", "authz", "auth", "access", "pool",
            "templates"}
LEMMA PartKnown == Spec => []KnownPart
<1>1. Init => KnownPart
  BY DEF Init, KnownPart
<1>2. KnownPart /\ [Next]_all => KnownPart'
  BY DEF Next, all, KnownPart
<1> QED BY <1>1, <1>2, PTL DEF Spec

(* Every part keeps the shape of its state, whatever its bounds: numbers   *)
(* within them, rows with the fields and the values of their tables, the   *)
(* nonce cache of the PEP within its maximum.                              *)
THEOREM RoutesTypeCorrect == Spec => []TypeOK
<1>1. /\ S!PolicyStoreAssumption /\ C!CallersAssumption /\ D!DirectoryAssumption
      /\ Z!StudioAuthzAssumption /\ H!PepAuthAssumption /\ A!PepAccessAssumption
      /\ L!PoolAssumption
  BY RoutesAssumption
<1>2. (S!Spec => []S!TypeOK) /\ (Z!Spec => []Z!TypeOK)
  BY <1>1, S!PolicyTypeCorrect, Z!AuthzTypeCorrect
<1>3. (H!Spec => []H!TypeOK) /\ (A!Spec => []A!TypeOK)
  BY <1>1, H!AuthTypeCorrect, A!AccessTypeCorrect
<1>4. (C!Spec => []C!TypeOK) /\ (D!Spec => []D!TypeOK) /\ (L!Spec => []PoolInv)
  BY <1>1, CallersKeepShape, DirectoryKeepsShape, PoolHolds
<1>5. S!TypeOK /\ C!TypeOK /\ D!TypeOK /\ Z!TypeOK /\ H!TypeOK /\ A!TypeOK /\ PoolInv
      /\ (part = "templates" => TrialInv) /\ KnownPart => TypeOK
  BY DEF TypeOK, PoolInv, KnownPart, TrialInv
<1> QED BY <1>2, <1>3, <1>4, <1>5, TrialHolds, PartKnown, PartsFollow, PTL

(* What a locked policy says does not change, whatever was begun before     *)
(* the lock, and content and lock change one version at a time.            *)
THEOREM RoutesLockedIsFrozen == Spec => LockedIsFrozen
<1>1. S!Spec => [][S!FrozenStep]_(S!psVars)
  BY RoutesAssumption, S!PolicyLockedIsFrozen DEF RoutesAssumption, S!LockedIsFrozen
<1>2. [S!FrozenStep]_(S!psVars) => (part = "policies" => S!FrozenStep)
  BY DEF S!psVars, S!FrozenStep
<1> QED BY <1>1, <1>2, PartsFollow, PTL DEF LockedIsFrozen

(* The history of a policy is its last versions without a gap, and ends in *)
(* the policy as it stands.                                                *)
THEOREM RoutesHistoryFollows == Spec => []HistoryFollows
<1>1. S!Spec => []S!HistoryFollows
  BY RoutesAssumption, S!PolicyHistoryFollows DEF RoutesAssumption
<1>2. S!HistoryFollows => HistoryFollows
  BY DEF HistoryFollows
<1> QED BY <1>1, <1>2, PartsFollow, PTL

(* A preview shows the policy it was asked to, unless another one was begun *)
(* in the same millisecond.                                                *)
THEOREM RoutesPreviewIsOwn == Spec => []PreviewIsOwn
<1>1. S!Spec => []S!PreviewIsOwn
  BY RoutesAssumption, S!PolicyPreviewIsOwn DEF RoutesAssumption
<1>2. S!PreviewIsOwn => PreviewIsOwn
  BY DEF PreviewIsOwn
<1> QED BY <1>1, <1>2, PartsFollow, PTL

(* A caller carries the secret of an hmac caller and the common name of an *)
(* mtls caller exactly when its mode is that, unless it was deleted and    *)
(* made again under a request that was on its way.                         *)
THEOREM RoutesModeHasItsMaterial == Spec => []ModeHasItsMaterial
<1>1. C!CallersAssumption
  BY RoutesAssumption
<1>2. CallersInv => ModeHasItsMaterial
  BY DEF CallersInv, ModeHasItsMaterial
<1> QED BY <1>1, <1>2, CallersHolds, PartsFollow, PTL

(* A grant belongs to a caller that is there, and to the one it was asked  *)
(* for, not to a later caller of the same id.                              *)
THEOREM RoutesGrantsAreOurs == Spec => []GrantsAreOurs
<1>1. C!CallersAssumption
  BY RoutesAssumption
<1>2. CallersInv => GrantsAreOurs
  BY DEF CallersInv, GrantsAreOurs
<1> QED BY <1>1, <1>2, CallersHolds, PartsFollow, PTL

(* The unique index is enough: no order of creations, edits, revocations   *)
(* and deletions gives two active callers the same common name.            *)
THEOREM RoutesOneCallerPerCn == Spec => []OneCallerPerCn
<1>1. C!CallersAssumption
  BY RoutesAssumption
<1>2. CallersInv => OneCallerPerCn
  BY DEF CallersInv, OneCallerPerCn
<1> QED BY <1>1, <1>2, CallersHolds, PartsFollow, PTL

(* No role ever contains a permission that root did not put into one: what *)
(* roles contain, not who is handed a role or labelled an admin.           *)
THEOREM RoutesNoEscalation == Spec => []NoEscalation
<1>1. D!DirectoryAssumption
  BY RoutesAssumption
<1>2. DirectoryInv => NoEscalation
  BY DEF DirectoryInv, NoEscalation
<1> QED BY <1>1, <1>2, DirectoryHolds, PartsFollow, PTL

(* Users keep the role and organisation they name, roles theirs.           *)
THEOREM RoutesNothingDangles == Spec => []NothingDangles
<1>1. D!DirectoryAssumption
  BY RoutesAssumption
<1>2. DirectoryInv => NothingDangles
  BY DEF DirectoryInv, NothingDangles
<1> QED BY <1>1, <1>2, DirectoryHolds, PartsFollow, PTL

(* An admin stays enabled unless two removals were under way at once, or   *)
(* one was disabled by a value that the guards of the route do not know.   *)
THEOREM RoutesAnAdminStays == Spec => []AnAdminStays
<1>1. D!DirectoryAssumption
  BY RoutesAssumption
<1>2. DirectoryInv => AnAdminStays
  BY DEF DirectoryInv, AdminsLast, D!AnAdminStays, AnAdminStays
<1> QED BY <1>1, <1>2, DirectoryHolds, PartsFollow, PTL

(* A row was last written by its own organisation or by root, unless       *)
(* whoever wrote it had not found it.                                      *)
THEOREM RoutesTenantsApart == Spec => []TenantsApart
<1>1. Z!Spec => []Z!TenantsApart
  BY RoutesAssumption, Z!AuthzTenantsApart DEF RoutesAssumption
<1>2. Z!TenantsApart => TenantsApart
  BY DEF TenantsApart
<1> QED BY <1>1, <1>2, PartsFollow, PTL

(* A decision has one reason at most, which grants exactly when the        *)
(* request is allowed, and a broken signal freezes mutations.              *)
THEOREM RoutesDecisionIsOne == Spec => []DecisionIsOne
<1>1. Z!Spec => []Z!DecisionIsOne
  BY RoutesAssumption, Z!AuthzDecisionIsOne DEF RoutesAssumption
<1>2. Z!DecisionIsOne => DecisionIsOne
  BY DEF DecisionIsOne
<1> QED BY <1>1, <1>2, PartsFollow, PTL

(* A signed request passes twice only outside its window, or when the      *)
(* nonce cache was too small.                                              *)
THEOREM RoutesNoReplayInWindow == Spec => []NoReplayInWindow
<1>1. H!Spec => []H!NoReplayInWindow
  BY RoutesAssumption, H!AuthNoReplayInWindow DEF RoutesAssumption
<1>2. H!NoReplayInWindow => NoReplayInWindow
  BY DEF NoReplayInWindow
<1> QED BY <1>1, <1>2, PartsFollow, PTL

(* Nobody is let through on a row that left OPA longer ago than the TTL    *)
(* and the time its fetch took, unless a refresh failed.                   *)
THEOREM RoutesRowIsRecent == Spec => []RowIsRecent
<1>1. H!Spec => []H!RowIsRecent
  BY RoutesAssumption, H!AuthRowIsRecent DEF RoutesAssumption
<1>2. H!RowIsRecent => RowIsRecent
  BY DEF RowIsRecent
<1> QED BY <1>1, <1>2, PartsFollow, PTL

(* What passes the gate or is offered by /discover was granted within the  *)
(* TTL and the time its fetch took, whatever fetches fail.                 *)
THEOREM RoutesGrantIsRecent == Spec => []GrantIsRecent
<1>1. A!Spec => []A!GrantIsRecent
  BY RoutesAssumption, A!AccessGrantIsRecent DEF RoutesAssumption
<1>2. A!GrantIsRecent => GrantIsRecent
  BY DEF GrantIsRecent
<1> QED BY <1>1, <1>2, PartsFollow, PTL

(* Whatever fails and whoever comes, a request that waits can go on, or    *)
(* waits for one that can: PEP requests for a fetch under way, those of    *)
(* the backend for a connection or the lock.  The exception is a refresh   *)
(* of a trust key that finds the pool held by those behind it.             *)
THEOREM RoutesNobodyIsStuck == Spec => []NobodyIsStuck
<1>1. A!Spec => []A!WaitersAreServed
  BY RoutesAssumption, A!AccessWaitersAreServed DEF RoutesAssumption
<1>2. L!PoolAssumption
  BY RoutesAssumption
<1>3. A!WaitersAreServed /\ PoolInv => NobodyIsStuck
  BY <1>2, PoolProgress DEF NobodyIsStuck
<1> QED BY <1>1, <1>2, <1>3, PoolHolds, PartsFollow, PTL

(* What /discover lists and leaves out is what the PDP would answer: with  *)
(* all the paths of the index there, no other field changes the answer of  *)
(* a policy, and with none of them there a policy grants nothing.          *)
THEOREM RoutesDiscoverIsHonest == Spec => []DiscoverIsHonest
<1>1. T!TrialAssumption
  BY RoutesAssumption
<1>2. (part = "templates" => TrialInv) => DiscoverIsHonest
  BY <1>1, StrictComplete, HiddenDenied DEF DiscoverIsHonest, T!DiscoverIsHonest
<1> QED BY <1>2, TrialHolds, PTL
=============================================================================
