------------------------- MODULE StudioAuthzProofs -------------------------
(***************************************************************************)
(* StudioAuthz: whatever the organisations, users, permissions and         *)
(* requests, rows are written by their own organisation or by root, and    *)
(* the decision has one reason.                                            *)
(***************************************************************************)
EXTENDS StudioAuthz, FiniteSetTheorems, TLAPS

-----------------------------------------------------------------------------
(* The decision, for any input document.                                   *)

\* No two guards of the rule reason hold at once.
LEMMA OneGuard ==
  ASSUME NEW in, NEW r \in Reasons(in), NEW s \in Reasons(in)  PROVE r = s
<1>1. SelfService(in) => Mutating(in) /\ ~Blocked(in)
  BY DEF SelfService, Mutating, Blocked
<1>2. Says(in, r) /\ Says(in, s)
  BY DEF Reasons
<1>3. in.type = "policy" => in.type # "platform_key"
  OBVIOUS
<1> QED
  BY <1>1, <1>2, <1>3 DEF Says, Privileged, Ordinary, Entitled, Gated, OwnPassword, TrustOk

\* studio_authz.rego:173: the complete rule never has two values.
THEOREM ReasonIsUnique == ASSUME NEW in PROVE Cardinality(Reasons(in)) <= 1
<1>1. CASE Reasons(in) = {}
  BY <1>1, FS_EmptySet
<1>2. CASE Reasons(in) # {}
  <2>1. PICK r \in Reasons(in) : TRUE
    BY <1>2
  <2>2. Reasons(in) = {r}
    BY <2>1, OneGuard
  <2> QED BY <2>2, FS_Singleton
<1> QED BY <1>1, <1>2

\* allow holds exactly when the reason is one of those that grant, and what
\* would change anything needs all three signals.
THEOREM ReasonGrants ==
  ASSUME NEW in
  PROVE  /\ Allow(in) <=> Reasons(in) \cap Granting # {}
         /\ Allow(in) /\ Mutating(in) => TrustOk(in)
<1>1. SelfService(in) => Mutating(in) /\ ~Blocked(in)
  BY DEF SelfService, Mutating, Blocked
<1>2. Reasons(in) \cap Granting # {} <=>
        \/ Privileged(in) /\ (Mutating(in) => TrustOk(in))
        \/ Entitled(in) /\ (Mutating(in) => TrustOk(in))
        \/ OwnPassword(in) /\ TrustOk(in)
  BY <1>1 DEF Reasons, Says, Granting, Refusing
<1>3. Allow(in) <=>
        \/ Privileged(in) /\ (Mutating(in) => TrustOk(in))
        \/ Entitled(in) /\ (Mutating(in) => TrustOk(in))
        \/ OwnPassword(in) /\ TrustOk(in)
  BY <1>1 DEF Allow, Privileged, Entitled, Ordinary, OwnPassword
<1>4. Allow(in) /\ Mutating(in) => TrustOk(in)
  BY DEF Allow
<1> QED BY <1>2, <1>3, <1>4

-----------------------------------------------------------------------------
(* The inductive invariant: a row that was found and was not deleted since *)
(* has the organisation it had, and the decision was about that.           *)

Found(d) == d # None /\ d.route.names = "row" /\ d.stands

RowRecord == [org : Orgs \cup {Global}, by : Orgs \cup {Root}]
RequestRecord ==
  [actor : Actors, route : Routes, body : Orgs \cup {None}, pc : {"decide", "handle"},
   row : {None} \cup RowRecord, stands : BOOLEAN]

AuthzType ==
  /\ owned \in [Types -> {None} \cup RowRecord]
  /\ deciding \in [Handlers -> {None} \cup RequestRecord]

RowStands ==
  \A h \in Handlers : Found(deciding[h]) =>
    /\ owned[deciding[h].route.type] # None /\ deciding[h].row # None
    /\ owned[deciding[h].route.type].org = deciding[h].row.org

Entitles(actor, row) == IsEffectiveRoot(actor) \/ actor.org = row.org

DecidedWell ==
  \A h \in Handlers : Found(deciding[h]) /\ deciding[h].pc = "handle" =>
    Entitles(deciding[h].actor, deciding[h].row)

AuthzInv == AuthzType /\ RowStands /\ DecidedWell /\ TenantsApart

LEMMA RowRoutes ==
  ASSUME NEW r \in Routes
  PROVE  /\ r.action = "update" /\ r.type \in Types => r.names = "row"
         /\ r.names = "row" => r.type \in Types
         /\ r.type = "password" => r.names = "self"
BY DEF Routes, Route, Types

LEMMA InitAuthz == ASSUME StudioAuthzAssumption, Init PROVE AuthzInv
<1> USE DEF StudioAuthzAssumption, Init
<1>1. AuthzType /\ RowStands /\ DecidedWell
  BY DEF AuthzType, RowRecord, RequestRecord, RowStands, DecidedWell, Found
<1>2. TenantsApart
  BY DEF TenantsApart
<1> QED BY <1>1, <1>2 DEF AuthzInv

-----------------------------------------------------------------------------
(* The steps.                                                              *)

LEMMA AskStep ==
  ASSUME StudioAuthzAssumption, AuthzInv, NEW h \in Handlers, Ask(h)  PROVE AuthzInv'
<1> USE DEF AuthzInv, AuthzType
<1>1. PICK a \in Actors, r \in Routes :
        \E body \in IF r.names = "body" THEN Orgs \cup {None} ELSE {None} :
          deciding' = [deciding EXCEPT ![h] =
            [actor |-> a, route |-> r, body |-> body, pc |-> "decide",
             row |-> IF r.names = "row" THEN owned[r.type] ELSE None,
             stands |-> (r.names = "row" => owned[r.type] # None)]]
  BY Zenon DEF Ask
<1> DEFINE row == IF r.names = "row" THEN owned[r.type] ELSE None
           stands == r.names = "row" => owned[r.type] # None
           asked(body) == [actor |-> a, route |-> r, body |-> body, pc |-> "decide",
                           row |-> row, stands |-> stands]
<1>a. PICK body \in Orgs \cup {None} : deciding' = [deciding EXCEPT ![h] = asked(body)]
  BY <1>1
<1>b. row \in {None} \cup RowRecord /\ stands \in BOOLEAN
  BY RowRoutes
<1>c. asked(body) \in RequestRecord
  <2> HIDE DEF row, stands
  <2> QED BY <1>b DEF RequestRecord
<1>2. UNCHANGED <<owned, missed>>
  BY DEF Ask
<1>d. \A g \in Handlers : deciding'[g] = IF g = h THEN asked(body) ELSE deciding[g]
  BY <1>a
<1>3. AuthzType'
  <2> HIDE DEF asked
  <2> QED BY <1>2, <1>a, <1>c
<1>4. RowStands'
  <2> SUFFICES ASSUME NEW g \in Handlers, Found(deciding'[g])
               PROVE  /\ owned[deciding'[g].route.type] # None /\ deciding'[g].row # None
                      /\ owned[deciding'[g].route.type].org = deciding'[g].row.org
    BY <1>2 DEF RowStands, Found
  <2>1. CASE g # h
    BY <1>d, <2>1 DEF RowStands
  <2>2. CASE g = h
    <3>1. deciding'[g].route = r /\ deciding'[g].row = row /\ deciding'[g].stands = stands
      BY <1>d, <2>2
    <3>2. r.names = "row" /\ stands
      BY <3>1 DEF Found
    <3> QED BY <3>1, <3>2
  <2> QED BY <2>1, <2>2
<1>5. DecidedWell'
  BY <1>d DEF DecidedWell, Found
<1>6. TenantsApart'
  BY <1>2 DEF TenantsApart
<1> QED BY <1>3, <1>4, <1>5, <1>6

\* What the decision means for a row that was found.
LEMMA AllowEntitles ==
  ASSUME StudioAuthzAssumption, AuthzType, NEW h \in Handlers, Found(deciding[h]),
         deciding[h].row # None, deciding[h].row.org \in Orgs \cup {Global},
         NEW audit, NEW opa, NEW jwt, Allow(Input(deciding[h], audit, opa, jwt))
  PROVE  Entitles(deciding[h].actor, deciding[h].row)
<1> DEFINE d == deciding[h]
           in == Input(d, audit, opa, jwt)
<1> USE DEF Found
<1>1. d.actor \in Actors /\ d.route \in Routes
  BY DEF AuthzType, RequestRecord
<1>2. /\ in.user = d.actor /\ in.type = d.route.type /\ in.target = None
      /\ in.org = IF d.row.org = Global THEN None ELSE d.row.org
      /\ in.global <=> d.row.org = Global
  BY DEF Input
<1>3. ~SelfService(in)
  BY <1>1, <1>2, RowRoutes DEF SelfService
<1>4. IsEffectiveRoot(in.user) \/ OrgScopeOk(in)
  BY <1>3 DEF Allow
<1>5. ASSUME OrgScopeOk(in)  PROVE d.actor.org = d.row.org
  <2>1. d.actor.org \in Orgs /\ d.actor.org # None
    BY <1>1 DEF StudioAuthzAssumption
  <2>2. ~(in.org = None /\ ~in.global)
    BY <1>2 DEF StudioAuthzAssumption
  <2>3. d.actor.org \in {in.org, None}
    BY <1>2, <1>5, <2>2 DEF OrgScopeOk
  <2>4. d.actor.org = in.org /\ in.org # None
    BY <2>1, <2>3
  <2> QED BY <1>2, <2>4
<1> QED BY <1>2, <1>4, <1>5 DEF Entitles

LEMMA DecideStep ==
  ASSUME StudioAuthzAssumption, AuthzInv, NEW h \in Handlers, Decide(h)  PROVE AuthzInv'
<1> USE DEF AuthzInv
<1>1. PICK audit \in BOOLEAN, opa \in BOOLEAN, jwt \in BOOLEAN :
        deciding' = IF Allow(Input(deciding[h], audit, opa, jwt))
                    THEN [deciding EXCEPT ![h].pc = "handle"]
                    ELSE [deciding EXCEPT ![h] = None]
  BY DEF Decide
<1>2. UNCHANGED <<owned, missed>>
  BY DEF Decide
<1>3. TenantsApart'
  BY <1>2 DEF TenantsApart
<1>4. CASE ~Allow(Input(deciding[h], audit, opa, jwt))
  <2>1. deciding' = [deciding EXCEPT ![h] = None]
    BY <1>1, <1>4
  <2>2. AuthzType' /\ RowStands' /\ DecidedWell'
    BY <1>2, <2>1 DEF AuthzType, RowRecord, RequestRecord, RowStands, DecidedWell, Found
  <2> QED BY <1>3, <2>2
<1>5. CASE Allow(Input(deciding[h], audit, opa, jwt))
  <2>1. deciding' = [deciding EXCEPT ![h] = [deciding[h] EXCEPT !.pc = "handle"]]
    BY <1>1, <1>5
  <2>a. deciding[h] \in RequestRecord
    BY DEF Decide, AuthzType
  <2>b. /\ deciding'[h] \in RequestRecord /\ deciding'[h].pc = "handle"
        /\ deciding'[h].actor = deciding[h].actor /\ deciding'[h].route = deciding[h].route
        /\ deciding'[h].row = deciding[h].row /\ deciding'[h].stands = deciding[h].stands
    BY <2>1, <2>a DEF AuthzType, RequestRecord
  <2>c. \A g \in Handlers \ {h} : deciding'[g] = deciding[g]
    BY <2>1 DEF AuthzType
  <2>d. deciding[h] # None
    BY DEF Decide
  <2>2. AuthzType' /\ RowStands'
    <3>1. AuthzType'
      BY <1>2, <2>1, <2>b DEF AuthzType
    <3>2. RowStands'
      BY <1>2, <2>b, <2>c, <2>d DEF RowStands, Found
    <3> QED BY <3>1, <3>2
  <2>3. ASSUME Found(deciding[h])  PROVE Entitles(deciding[h].actor, deciding[h].row)
    <3>1. deciding[h].row # None /\ deciding[h].row.org \in Orgs \cup {Global}
      BY <2>3, RowRoutes DEF RowStands, AuthzType, RequestRecord, RowRecord, Found
    <3> QED BY <1>5, <2>3, <3>1, AllowEntitles
  <2>4. DecidedWell'
    BY <2>3, <2>b, <2>c, <2>d DEF DecidedWell, Found
  <2> QED BY <1>3, <2>2, <2>4
<1> QED BY <1>4, <1>5

\* A request that ends leaves the others as they are.
LEMMA EndsStep ==
  ASSUME StudioAuthzAssumption, AuthzInv, NEW h \in Handlers,
         deciding' = [deciding EXCEPT ![h] = None], UNCHANGED <<owned, missed>>
  PROVE  AuthzInv'
<1> USE DEF AuthzInv
<1>1. AuthzType' /\ RowStands' /\ DecidedWell'
  BY DEF AuthzType, RowStands, DecidedWell, Found
<1>2. TenantsApart'
  BY DEF TenantsApart
<1> QED BY <1>1, <1>2

\* So does one that writes a row without taking it from its organisation: one that
\* had found it is entitled to, and one that had not is recorded as missed.
LEMMA WritesStep ==
  ASSUME StudioAuthzAssumption, AuthzInv, NEW h \in Handlers, NEW t \in Types,
         NEW row \in RowRecord, Writes(h, t, row),
         owned[t] # None => row.org = owned[t].org,
         deciding[h].stands => row.by \in {Root, row.org}
  PROVE  AuthzInv'
<1> USE DEF AuthzInv, Writes
<1>1. owned' = [owned EXCEPT ![t] = row] /\ deciding' = [deciding EXCEPT ![h] = None]
  OBVIOUS
<1>2. row # None
  BY DEF StudioAuthzAssumption, RowRecord
<1>3. AuthzType'
  BY <1>1 DEF AuthzType
<1>4. RowStands'
  BY <1>1, <1>2 DEF AuthzType, RowStands, Found
<1>5. DecidedWell'
  BY <1>1 DEF AuthzType, DecidedWell, Found
<1>6. TenantsApart'
  <2> SUFFICES ASSUME NEW u \in Types, owned'[u] # None, u \notin missed'
               PROVE  owned'[u].by \in {Root, owned'[u].org}
    BY DEF TenantsApart
  <2>1. CASE u # t
    BY <1>1, <2>1 DEF AuthzType, TenantsApart
  <2>2. CASE u = t
    <3>1. deciding[h].stands /\ owned'[u] = row
      BY <1>1, <2>2 DEF AuthzType
    <3> QED BY <3>1
  <2> QED BY <2>1, <2>2
<1> QED BY <1>3, <1>4, <1>5, <1>6

LEMMA CreateStep ==
  ASSUME StudioAuthzAssumption, AuthzInv, NEW h \in Handlers, Create(h)  PROVE AuthzInv'
<1> DEFINE a == deciding[h].actor
<1>1. PICK t \in Types :
        /\ Handles(h, "create", t)
        /\ \/ /\ owned[t] = None
              /\ \E o \in IF a.root THEN Orgs \cup {Global} ELSE {a.org} :
                   Writes(h, t, [org |-> o, by |-> By(a)])
           \/ Answers(h)
  BY DEF Create
<1>2. CASE Answers(h)
  BY <1>2, EndsStep DEF Answers
<1>3. CASE owned[t] = None /\ ~Answers(h)
  <2>1. PICK o \in IF a.root THEN Orgs \cup {Global} ELSE {a.org} :
          Writes(h, t, [org |-> o, by |-> By(a)])
    BY <1>1, <1>3
  <2>2. a.org \in Orgs
    BY <1>1 DEF Handles, AuthzInv, AuthzType, RequestRecord, StudioAuthzAssumption
  <2>3. [org |-> o, by |-> By(a)] \in RowRecord
    BY <2>1, <2>2 DEF RowRecord, By
  <2>4. By(a) \in {Root, o}
    BY <2>1 DEF By, IsEffectiveRoot
  <2> QED BY <1>3, <2>1, <2>3, <2>4, WritesStep
<1> QED BY <1>1, <1>2, <1>3

\* Who had found a row and was let through may write it in its own name.
LEMMA UpdateEntitled ==
  ASSUME StudioAuthzAssumption, AuthzInv, NEW h \in Handlers, NEW t \in Types,
         Handles(h, "update", t)
  PROVE  /\ By(deciding[h].actor) \in Orgs \cup {Root}
         /\ deciding[h].stands =>
              owned[t] # None /\ By(deciding[h].actor) \in {Root, owned[t].org}
<1>1. /\ deciding[h] # None /\ deciding[h].pc = "handle" /\ deciding[h].route.type = t
      /\ deciding[h].actor \in Actors /\ deciding[h].route \in Routes
  BY DEF Handles, AuthzInv, AuthzType, RequestRecord
<1>2. deciding[h].route.names = "row"
  BY <1>1, RowRoutes DEF Handles
<1>3. By(deciding[h].actor) \in Orgs \cup {Root}
  BY <1>1 DEF By, StudioAuthzAssumption
<1>4. ASSUME deciding[h].stands
      PROVE  owned[t] # None /\ By(deciding[h].actor) \in {Root, owned[t].org}
  BY <1>1, <1>2, <1>4 DEF AuthzInv, RowStands, DecidedWell, Found, Entitles, By
<1> QED BY <1>3, <1>4

LEMMA UpdatePolicyStep ==
  ASSUME StudioAuthzAssumption, AuthzInv, NEW h \in Handlers, UpdatePolicy(h)
  PROVE  AuthzInv'
<1>1. CASE Answers(h)
  BY <1>1, EndsStep DEF Answers
<1>2. CASE ~Answers(h)
  <2>1. PICK o \in IF owned["policy"] = None THEN Orgs \cup {Global} ELSE {owned["policy"].org} :
          Writes(h, "policy", [org |-> o, by |-> By(deciding[h].actor)])
    BY <1>2 DEF UpdatePolicy
  <2>2. "policy" \in Types /\ Handles(h, "update", "policy")
    BY DEF Types, UpdatePolicy
  <2>3. o \in Orgs \cup {Global}
    BY <2>1, <2>2 DEF AuthzInv, AuthzType, RowRecord
  <2>4. [org |-> o, by |-> By(deciding[h].actor)] \in RowRecord
    BY <2>2, <2>3, UpdateEntitled DEF RowRecord
  <2>5. owned["policy"] # None => o = owned["policy"].org
    BY <2>1
  <2>6. deciding[h].stands => By(deciding[h].actor) \in {Root, o}
    BY <2>2, <2>5, UpdateEntitled
  <2> QED BY <2>1, <2>2, <2>4, <2>5, <2>6, WritesStep
<1> QED BY <1>1, <1>2

LEMMA UpdateTrustKeyStep ==
  ASSUME StudioAuthzAssumption, AuthzInv, NEW h \in Handlers, UpdateTrustKey(h)
  PROVE  AuthzInv'
<1>1. CASE Answers(h)
  BY <1>1, EndsStep DEF Answers
<1>2. CASE ~Answers(h)
  <2> DEFINE row == [owned["trust_key"] EXCEPT !.by = By(deciding[h].actor)]
  <2>1. owned["trust_key"] # None /\ Writes(h, "trust_key", row)
    BY <1>2 DEF UpdateTrustKey
  <2>2. "trust_key" \in Types /\ Handles(h, "update", "trust_key")
    BY DEF Types, UpdateTrustKey
  <2>3. owned["trust_key"] \in RowRecord
    BY <2>1, <2>2 DEF AuthzInv, AuthzType
  <2>4. /\ row \in RowRecord /\ row.org = owned["trust_key"].org
        /\ row.by = By(deciding[h].actor)
    BY <2>2, <2>3, UpdateEntitled DEF RowRecord
  <2>5. deciding[h].stands => row.by \in {Root, row.org}
    BY <2>2, <2>4, UpdateEntitled
  <2> HIDE DEF row
  <2> QED BY <2>1, <2>2, <2>4, <2>5, WritesStep
<1> QED BY <1>1, <1>2

LEMMA DeleteTrustKeyStep ==
  ASSUME StudioAuthzAssumption, AuthzInv, NEW h \in Handlers, DeleteTrustKey(h)
  PROVE  AuthzInv'
<1>1. CASE Answers(h)
  BY <1>1, EndsStep DEF Answers
<1>2. CASE ~Answers(h)
  <2>1. /\ owned' = [owned EXCEPT !["trust_key"] = None]
        /\ missed' = missed \ {"trust_key"}
        /\ deciding' = [g \in Handlers |-> IF g = h THEN None ELSE RowGone(deciding[g])]
    BY <1>2 DEF DeleteTrustKey
  <2>2. ASSUME NEW d \in {None} \cup RequestRecord
        PROVE  /\ RowGone(d) \in {None} \cup RequestRecord
               /\ Found(RowGone(d)) => RowGone(d) = d /\ d.route.type # "trust_key"
    BY DEF RowGone, Found, RequestRecord
  <2>3. AuthzType'
    BY <2>1, <2>2 DEF AuthzInv, AuthzType
  <2>4. ASSUME NEW g \in Handlers, Found(deciding'[g])
        PROVE  /\ g # h /\ deciding'[g] = deciding[g] /\ Found(deciding[g])
               /\ deciding[g].route.type \in Types \ {"trust_key"}
    <3>1. g # h /\ deciding'[g] = RowGone(deciding[g])
      BY <2>1, <2>4 DEF Found
    <3>2. deciding'[g] = deciding[g] /\ deciding[g].route.type # "trust_key"
      BY <2>2, <2>4, <3>1 DEF AuthzInv, AuthzType
    <3>3. deciding[g].route \in Routes /\ Found(deciding[g])
      BY <2>4, <3>2 DEF Found, AuthzInv, AuthzType, RequestRecord
    <3> QED BY <3>1, <3>2, <3>3, RowRoutes DEF Found
  <2>5. RowStands'
    BY <2>1, <2>4 DEF AuthzInv, AuthzType, RowStands, Found
  <2>6. DecidedWell'
    BY <2>4 DEF AuthzInv, DecidedWell, Found
  <2>7. TenantsApart'
    BY <2>1 DEF AuthzInv, AuthzType, TenantsApart
  <2> QED BY <2>3, <2>5, <2>6, <2>7 DEF AuthzInv
<1> QED BY <1>1, <1>2

-----------------------------------------------------------------------------
(* The invariant holds for every instance.                                 *)
THEOREM AuthzHolds == ASSUME StudioAuthzAssumption PROVE Spec => []AuthzInv
<1>1. AuthzInv /\ [Next]_zVars => AuthzInv'
  <2>1. CASE UNCHANGED zVars
    BY <2>1 DEF zVars, AuthzInv, AuthzType, RowStands, DecidedWell, TenantsApart
  <2>2. ASSUME AuthzInv, NEW h \in Handlers, Other(h)  PROVE AuthzInv'
    BY <2>2, EndsStep DEF Other, Answers
  <2> QED
    BY <2>1, <2>2, AskStep, DecideStep, CreateStep, UpdatePolicyStep, UpdateTrustKeyStep,
       DeleteTrustKeyStep DEF Next
<1> QED BY InitAuthz, <1>1, PTL DEF Spec

(* A row was last written by its own organisation or by root, whoever asks *)
(* and however look-ups, decisions and writes interleave, unless whoever   *)
(* wrote it had not found it.                                              *)
THEOREM AuthzTenantsApart == ASSUME StudioAuthzAssumption PROVE Spec => []TenantsApart
<1>1. AuthzInv => TenantsApart
  BY DEF AuthzInv
<1> QED BY <1>1, AuthzHolds, PTL
(* The decision has one reason at most in every state, that grants exactly *)
(* when the request is allowed.                                            *)
THEOREM AuthzDecisionIsOne == Spec => []DecisionIsOne
<1>1. DecisionIsOne
  BY ReasonIsUnique, ReasonGrants DEF DecisionIsOne
<1> QED BY <1>1, PTL

-----------------------------------------------------------------------------
(* The count of the requests, and the rows that were written unseen.       *)
Counted == missed \subseteq Types /\ passed \in 0..MaxAsked

LEMMA CountedStep ==
  ASSUME StudioAuthzAssumption, Counted, [Next]_zVars PROVE Counted'
<1> USE DEF Counted
<1>1. CASE UNCHANGED zVars
  BY <1>1 DEF zVars
<1>2. ASSUME NEW h \in Handlers, Ask(h) PROVE Counted'
  BY <1>2 DEF Ask, StudioAuthzAssumption
<1>3. ASSUME NEW h \in Handlers, Decide(h) \/ Other(h) PROVE Counted'
  BY <1>3 DEF Decide, Other, Answers
<1>4. ASSUME NEW h \in Handlers, NEW t \in Types, NEW row, Writes(h, t, row), UNCHANGED passed
      PROVE  Counted'
  BY <1>4 DEF Writes
<1>5. ASSUME NEW h \in Handlers,
             Create(h) \/ UpdatePolicy(h) \/ UpdateTrustKey(h) \/ DeleteTrustKey(h)
      PROVE  Counted'
  <2>1. UNCHANGED passed /\ {"policy", "trust_key"} \subseteq Types
    BY <1>5 DEF Create, UpdatePolicy, UpdateTrustKey, DeleteTrustKey, Types
  <2>2. CASE Answers(h)
    BY <2>1, <2>2 DEF Answers
  <2>3. CASE missed' = missed \ {"trust_key"}
    BY <2>1, <2>3
  <2> QED
    BY <1>4, <1>5, <2>1, <2>2, <2>3 DEF Create, UpdatePolicy, UpdateTrustKey, DeleteTrustKey
<1> QED BY <1>1, <1>2, <1>3, <1>5 DEF Next

(* Rows and requests keep their shape, whoever asks for what.              *)
THEOREM AuthzTypeCorrect == ASSUME StudioAuthzAssumption PROVE Spec => []TypeOK
<1>1. Init => Counted
  BY DEF StudioAuthzAssumption, Init, Counted
<1>2. Counted /\ [Next]_zVars => Counted'
  BY CountedStep
<1>3. AuthzInv /\ Counted => TypeOK
  BY DEF AuthzInv, AuthzType, RowRecord, RequestRecord, Counted, TypeOK
<1> QED BY <1>1, <1>2, <1>3, AuthzHolds, PTL DEF Spec
=============================================================================
