--------------------------- MODULE PepAuthProofs ---------------------------
(***************************************************************************)
(* A signed request is let through once while its timestamp is acceptable, *)
(* as long as no nonce is pushed out, and nobody is let through on a row   *)
(* that OPA dropped longer ago than the TTL and the fetch of it took.      *)
(***************************************************************************)
EXTENDS PepAuth, FiniteSetTheorems, WellFoundedInduction, TLAPS

Rows == UNION Tables
Cached == [rows : SUBSET Rows, fetchedAt : Nat, took : Nat]
Refreshing == [since : Nat, rows : (SUBSET Rows) \cup {None}]
Deliveries == [req : Requests, step : {"waits", "ready"}]

Types ==
  /\ clock \in Nat /\ table \in Tables /\ listed \in [Rows -> Nat \cup {None}]
  /\ cache \in Cached \cup {None} /\ refresh \in Refreshing \cup {None}
  /\ handler \in [Handlers -> Deliveries \cup {None}]
  /\ evicted \in BOOLEAN /\ sent \in Nat /\ failures \in Nat

-----------------------------------------------------------------------------
(* The rows.                                                               *)

ListedNow == \A w \in table : listed[w] = clock
RefreshKnown ==
  refresh # None =>
    /\ refresh.since <= clock
    /\ refresh.rows # None => \A w \in refresh.rows : AtLeast(listed[w], refresh.since)
CacheKnown ==
  cache # None =>
    /\ cache.fetchedAt <= clock /\ cache.took <= cache.fetchedAt
    /\ \A w \in cache.rows : AtLeast(listed[w], cache.fetchedAt - cache.took)
Goes(h) == handler[h] # None /\ handler[h].step = "ready"
\* With failures a delivery may go on with a cache of any age, but not without one.
ReadyFresh ==
  \A h \in Handlers : Goes(h) =>
    /\ cache # None
    /\ failures = 0 => clock - cache.fetchedAt <= CallerTtl

-----------------------------------------------------------------------------
(* The nonces.                                                             *)

Signed(r) == r.kinds = {"hmac"}
Key(r) == <<r.who, r.nonce>>
\* The timestamp was checked before the delivery began to wait.
CheckedInWindow ==
  \A h \in Handlers : handler[h] # None /\ Signed(handler[h].req) =>
    clock >= handler[h].req.ts - Window
\* The nonce of what was let through is there until it may go.
NonceKept ==
  ~evicted =>
    \A a \in admitted : Signed(a.req) =>
      \/ clock - a.at > 2 * Window
      \/ \E e \in nonces : e.key = Key(a.req) /\ e.at = a.at
AdmittedWell ==
  \A a \in admitted :
    /\ a.at \in Nat /\ a.at <= clock /\ a.took \in Nat
    /\ a.row # None => a.row \in Rows
    /\ Signed(a.req) => a.req.ts \in Int /\ a.at >= a.req.ts - Window
Numbered ==
  IsFiniteSet(admitted) /\ \A a \in admitted : a.no \in Nat /\ a.no < Cardinality(admitted)

AuthInv ==
  /\ Types /\ ListedNow /\ RefreshKnown /\ CacheKnown /\ ReadyFresh
  /\ CheckedInWindow /\ NonceKept /\ AdmittedWell /\ Numbered
  /\ RowIsRecent /\ NoReplayInWindow

-----------------------------------------------------------------------------
LEMMA FirstTable == ASSUME PepAuthAssumption, Init PROVE AuthInv
<1>1. clock = 0 /\ table \in Tables /\ table \in SUBSET Rows
  BY DEF Init, Rows
<1>2. listed = [w \in Rows |-> IF w \in table THEN 0 ELSE None]
  BY DEF Init, Rows
<1>3. cache \in Cached \cup {None} /\ (cache # None => cache.rows = table /\ cache.fetchedAt = 0 /\ cache.took = 0)
  BY <1>1 DEF Init, Cached
<1>4. Types
  <2>1. listed \in [Rows -> Nat \cup {None}]
    BY <1>2
  <2>2. refresh = None /\ handler \in [Handlers -> Deliveries \cup {None}]
    BY DEF Init
  <2>3. clock \in Nat /\ evicted \in BOOLEAN /\ sent \in Nat /\ failures \in Nat
    BY DEF Init
  <2> QED
    BY <1>1, <1>3, <2>1, <2>2, <2>3 DEF Types
<1>5. ListedNow
  BY <1>1, <1>2 DEF ListedNow
<1>6. CacheKnown
  BY <1>1, <1>2, <1>3 DEF CacheKnown, AtLeast, PepAuthAssumption
<1>7. Numbered
  BY FS_EmptySet DEF Init, Numbered
<1>8. ReadyFresh /\ CheckedInWindow /\ RefreshKnown
  BY DEF Init, ReadyFresh, CheckedInWindow, Goes, RefreshKnown
<1>9. NonceKept /\ AdmittedWell /\ RowIsRecent /\ NoReplayInWindow
  BY DEF Init, NonceKept, AdmittedWell, RowIsRecent, NoReplayInWindow
<1> QED
  BY <1>4, <1>5, <1>6, <1>7, <1>8, <1>9 DEF AuthInv

\* The notes only move forward.
Forward == \A t \in Int : t <= clock => \A w \in Rows : AtLeast(listed[w], t) => AtLeast(listed'[w], t)

\* What was let through stays so when rows come and go and time passes.
LEMMA AdmittedStay ==
  ASSUME PepAuthAssumption, AuthInv, Forward, clock' \in Nat, clock' >= clock,
         UNCHANGED <<nonces, evicted, admitted>>, failures' = 0 => failures = 0
  PROVE  (NonceKept /\ AdmittedWell /\ Numbered /\ NoReplayInWindow)' /\ RowIsRecent'
<1>1. NonceKept'
  <2>1. clock \in Nat /\ \A a \in admitted : a.at \in Nat
    BY DEF AuthInv, Types, AdmittedWell
  <2> QED
    BY <2>1 DEF AuthInv, NonceKept, PepAuthAssumption
<1>2. AdmittedWell'
  BY DEF AuthInv, Types, AdmittedWell
<1>3. Numbered' /\ NoReplayInWindow'
  BY DEF AuthInv, Numbered, NoReplayInWindow
<1>4. RowIsRecent'
  <2>1. ASSUME NEW a \in admitted, a.row # None, failures = 0
        PROVE  {a.row.mode} = a.req.kinds /\ AtLeast(listed'[a.row], a.at - CallerTtl - a.took)
    <3>1. {a.row.mode} = a.req.kinds /\ AtLeast(listed[a.row], a.at - CallerTtl - a.took)
      BY <2>1 DEF AuthInv, RowIsRecent
    <3>2. a.at - CallerTtl - a.took \in Int /\ a.at - CallerTtl - a.took <= clock
      BY DEF AuthInv, AdmittedWell, Types, PepAuthAssumption
    <3>3. a.row \in Rows
      BY <2>1 DEF AuthInv, AdmittedWell
    <3> QED
      BY <3>1, <3>2, <3>3 DEF Forward
  <2> QED
    BY <2>1 DEF RowIsRecent
<1> QED
  BY <1>1, <1>2, <1>3, <1>4

\* What the cache and a fetch hold stays seen.
LEMMA RowsStay ==
  ASSUME PepAuthAssumption, AuthInv, Forward, clock' \in Nat, clock' >= clock
  PROVE  /\ cache' = cache => CacheKnown'
         /\ refresh # None /\ refresh.rows # None =>
              \A w \in refresh.rows : AtLeast(listed'[w], refresh.since)
<1>1. ASSUME cache # None
      PROVE  /\ cache.fetchedAt <= clock' /\ cache.took <= cache.fetchedAt
             /\ \A w \in cache.rows : AtLeast(listed'[w], cache.fetchedAt - cache.took)
  <2>1. /\ cache.rows \in SUBSET Rows /\ cache.fetchedAt \in Nat /\ cache.fetchedAt <= clock
        /\ cache.took \in Nat /\ cache.took <= cache.fetchedAt
        /\ \A w \in cache.rows : AtLeast(listed[w], cache.fetchedAt - cache.took)
    BY <1>1 DEF AuthInv, Types, CacheKnown, Cached
  <2>2. cache.fetchedAt - cache.took \in Int /\ cache.fetchedAt - cache.took <= clock
    BY <2>1 DEF PepAuthAssumption, AuthInv, Types
  <2> QED
    BY <2>1, <2>2 DEF Forward, AuthInv, Types
<1>2. ASSUME refresh # None, refresh.rows # None, NEW w \in refresh.rows
      PROVE  AtLeast(listed'[w], refresh.since)
  <2>1. /\ refresh.rows \in SUBSET Rows /\ refresh.since \in Nat /\ refresh.since <= clock
        /\ AtLeast(listed[w], refresh.since)
    BY <1>2 DEF AuthInv, Types, RefreshKnown, Refreshing
  <2> QED
    BY <2>1 DEF Forward
<1> QED
  BY <1>1, <1>2 DEF CacheKnown

LEMMA TableMoves == ASSUME PepAuthAssumption, AuthInv, TableChanges PROVE AuthInv'
<1>1. /\ Types /\ ListedNow
      /\ UNCHANGED <<clock, cache, refresh, handler, nonces, admitted, evicted, sent, failures>>
  BY DEF AuthInv, TableChanges
<1>2. table' \in Tables /\ listed' = [w \in Rows |-> IF w \in table \cup table' THEN clock ELSE listed[w]]
  BY <1>1 DEF TableChanges, Types
<1>3. Types' /\ ListedNow'
  <2>1. listed' \in [Rows -> Nat \cup {None}]
    BY <1>1, <1>2 DEF Types
  <2>2. \A w \in table' : w \in Rows /\ listed'[w] = clock
    BY <1>2 DEF Rows
  <2> QED
    BY <1>1, <1>2, <2>1, <2>2 DEF Types, ListedNow
<1>4. Forward
  BY <1>1, <1>2 DEF Forward, AtLeast, Types
<1>5. clock' \in Nat /\ clock' >= clock
  BY <1>1 DEF Types
<1>6. CacheKnown' /\ RefreshKnown'
  BY <1>1, <1>4, <1>5, RowsStay DEF RefreshKnown, AuthInv
<1>7. ReadyFresh' /\ CheckedInWindow'
  BY <1>1 DEF AuthInv, ReadyFresh, Goes, CheckedInWindow
<1> QED
  BY <1>1, <1>3, <1>4, <1>5, <1>6, <1>7, AdmittedStay DEF AuthInv

LEMMA TimeMoves == ASSUME PepAuthAssumption, AuthInv, Tick PROVE AuthInv'
<1>1. /\ Types /\ ListedNow /\ clock' = clock + 1
      /\ UNCHANGED <<table, cache, refresh, handler, nonces, admitted, evicted, sent, failures>>
  BY DEF AuthInv, Tick
<1>2. listed' = [w \in Rows |-> IF w \in table THEN clock + 1 ELSE listed[w]]
  BY <1>1 DEF Tick, Types
<1>3. clock' \in Nat /\ clock' >= clock
  BY <1>1 DEF Types
<1>4. Types' /\ ListedNow'
  <2>1. listed' \in [Rows -> Nat \cup {None}]
    BY <1>1, <1>2 DEF Types
  <2>2. \A w \in table : w \in Rows /\ listed'[w] = clock'
    BY <1>1, <1>2 DEF Rows, Types
  <2> QED
    BY <1>1, <1>3, <2>1, <2>2 DEF Types, ListedNow
<1>5. Forward
  BY <1>1, <1>2 DEF Forward, AtLeast, Types
<1>6. CacheKnown'
  BY <1>1, <1>3, <1>5, RowsStay
<1>7. RefreshKnown'
  <2>1. refresh # None => refresh.since \in Nat /\ refresh.since <= clock
    BY <1>1 DEF AuthInv, RefreshKnown, Types, Refreshing
  <2>2. refresh # None => refresh.since <= clock'
    BY <1>1, <2>1 DEF Types
  <2> QED
    BY <1>1, <1>3, <1>5, <2>2, RowsStay DEF RefreshKnown
<1>8. ReadyFresh'
  BY <1>1 DEF Tick, ReadyFresh, Goes
<1>9. CheckedInWindow'
  <2>1. ASSUME NEW h \in Handlers, handler[h] # None, Signed(handler[h].req)
        PROVE  clock + 1 >= handler[h].req.ts - Window
    <3>1. handler[h].req.ts \in Int /\ clock >= handler[h].req.ts - Window
      BY <1>1, <2>1 DEF AuthInv, CheckedInWindow, Types, Deliveries, PepAuthAssumption
    <3> QED
      BY <1>1, <3>1 DEF Types, PepAuthAssumption
  <2> QED
    BY <1>1, <2>1 DEF CheckedInWindow
<1> QED
  BY <1>1, <1>3, <1>4, <1>5, <1>6, <1>7, <1>8, <1>9, AdmittedStay DEF AuthInv

-----------------------------------------------------------------------------
(* The other actions leave the clock and the table alone.                  *)

Still == UNCHANGED <<clock, table, listed>>

LEMMA StillForward == ASSUME AuthInv, Still PROVE Forward /\ clock' \in Nat /\ clock' >= clock
  BY DEF AuthInv, Types, Still, Forward

LEMMA OpaAnswered == ASSUME PepAuthAssumption, AuthInv, OpaAnswers PROVE AuthInv'
<1>1. /\ Types /\ ListedNow /\ RefreshKnown /\ refresh # None /\ refresh \in Refreshing /\ Still
      /\ UNCHANGED <<cache, handler, nonces, admitted, evicted, sent, failures>>
  BY DEF AuthInv, OpaAnswers, Types, Still
<1>2. table \in SUBSET Rows /\ refresh.since \in Nat /\ clock \in Nat
  BY <1>1 DEF Types, Rows, Refreshing
<1>3. refresh' \in Refreshing /\ refresh'.since = refresh.since /\ refresh'.rows = table
  BY <1>1, <1>2 DEF OpaAnswers, Refreshing
<1>4. Types' /\ ListedNow'
  BY <1>1, <1>3 DEF Types, ListedNow, Still
<1>5. RefreshKnown'
  BY <1>1, <1>2, <1>3 DEF RefreshKnown, ListedNow, AtLeast, Still
<1>6. CacheKnown' /\ ReadyFresh' /\ CheckedInWindow'
  BY <1>1 DEF AuthInv, CacheKnown, ReadyFresh, Goes, CheckedInWindow, Still
<1> QED
  BY <1>1, <1>4, <1>5, <1>6, AdmittedStay, StillForward DEF AuthInv

\* Who waited goes on, with all else of its delivery kept.
LEMMA Woken ==
  ASSUME Types, Wake
  PROVE  /\ handler' \in [Handlers -> Deliveries \cup {None}]
         /\ \A h \in Handlers : handler'[h] # None => handler[h] # None /\ handler'[h].req = handler[h].req
<1>1. ASSUME NEW h \in Handlers
      PROVE  /\ handler'[h] \in Deliveries \cup {None}
             /\ handler'[h] # None => handler[h] # None /\ handler'[h].req = handler[h].req
  <2>1. handler[h] \in Deliveries \cup {None}
    BY DEF Types
  <2>2. CASE handler[h] # None /\ handler[h].step = "waits"
    <3>1. handler'[h] = [handler[h] EXCEPT !.step = "ready"]
      BY <2>2 DEF Wake
    <3> QED
      BY <2>1, <2>2, <3>1 DEF Deliveries
  <2>3. CASE ~(handler[h] # None /\ handler[h].step = "waits")
    <3>1. handler'[h] = handler[h]
      BY <2>3 DEF Wake
    <3> QED
      BY <2>1, <3>1
  <2> QED
    BY <2>2, <2>3
<1>2. handler' = [h \in Handlers |-> handler'[h]]
  BY DEF Wake
<1> QED
  BY <1>1, <1>2

LEMMA RefreshDone ==
  ASSUME PepAuthAssumption, AuthInv, RefreshEnds \/ RefreshFails PROVE AuthInv'
<1>1. /\ Types /\ Still /\ Wake /\ refresh' = None /\ clock \in Nat
      /\ UNCHANGED <<nonces, admitted, evicted, sent>> /\ failures' \in Nat
      /\ failures' = 0 => failures = 0 /\ failures' = failures /\ RefreshEnds
  BY DEF AuthInv, RefreshEnds, RefreshFails, Types, Still
<1>2. ASSUME RefreshEnds
      PROVE  cache' \in Cached /\ CacheKnown' /\ cache'.fetchedAt = clock
  <2>1. refresh \in Refreshing /\ refresh.rows # None /\ refresh # None
    BY <1>1, <1>2 DEF RefreshEnds, Types
  <2>2. refresh.rows \in SUBSET Rows /\ refresh.since \in Nat
    BY <2>1 DEF Refreshing
  <2>0. refresh.since <= clock /\ clock - refresh.since \in 0..clock
        /\ clock - (clock - refresh.since) = refresh.since
    BY <1>1, <2>1, <2>2 DEF AuthInv, RefreshKnown
  <2>3. /\ cache' \in Cached /\ cache'.rows = refresh.rows /\ cache'.fetchedAt = clock
        /\ cache'.took = clock - refresh.since
    BY <1>1, <1>2, <2>0, <2>2 DEF RefreshEnds, Cached
  <2>4. \A w \in refresh.rows : AtLeast(listed[w], clock - (clock - refresh.since))
    BY <2>0, <2>1 DEF AuthInv, RefreshKnown
  <2> QED
    BY <1>1, <2>0, <2>3, <2>4 DEF CacheKnown, Still
<1>3. ASSUME RefreshFails
      PROVE  cache' \in Cached /\ CacheKnown'
  <2>1. CASE cache = None
    <3>1. cache' \in Cached /\ cache'.rows = {} /\ cache'.fetchedAt = clock /\ cache'.took = 0
      BY <1>1, <1>3, <2>1 DEF RefreshFails, Cached
    <3> QED
      BY <1>1, <3>1 DEF CacheKnown, Still
  <2>2. CASE cache # None
    BY <1>1, <1>3, <2>2 DEF RefreshFails, AuthInv, Types, CacheKnown, Still
  <2> QED
    BY <2>1, <2>2
<1>4. cache' \in Cached /\ CacheKnown' /\ cache' # None
  BY <1>2, <1>3 DEF PepAuthAssumption, Cached, Rows
<1>5. Types'
  BY <1>1, <1>4, Woken DEF Types, Still
<1>6. ReadyFresh'
  BY <1>1, <1>2, <1>4 DEF ReadyFresh, Still, PepAuthAssumption
<1>7. CheckedInWindow'
  BY <1>1, Woken DEF AuthInv, CheckedInWindow, Still
<1>8. ListedNow' /\ RefreshKnown'
  BY <1>1 DEF AuthInv, ListedNow, RefreshKnown, Still
<1> QED
  BY <1>1, <1>4, <1>5, <1>6, <1>7, <1>8, AdmittedStay, StillForward DEF AuthInv

-----------------------------------------------------------------------------
LEMMA RequestWaits ==
  ASSUME PepAuthAssumption, AuthInv, NEW h \in Handlers, NEW r \in Requests, Receive(h, r)
  PROVE  AuthInv'
<1> DEFINE d == [req |-> r, step |-> IF CacheStale THEN "waits" ELSE "ready"]
           new == [since |-> clock, rows |-> None]
<1>1. /\ Types /\ Still /\ Dispatched(r) /\ clock \in Nat
      /\ UNCHANGED <<cache, nonces, admitted, evicted, failures>> /\ sent' \in Nat
  BY DEF AuthInv, Receive, Types, Still
<1>2. handler' = [handler EXCEPT ![h] = d] /\ refresh' \in {refresh, new}
  BY DEF Receive, LooksUp
<1>3. d \in Deliveries /\ d.req = r /\ (d.step = "ready" => ~CacheStale)
  <2> HIDE DEF CacheStale
  <2> QED
    BY DEF Deliveries
<1> HIDE DEF d
<1>4. /\ handler' \in [Handlers -> Deliveries \cup {None}] /\ handler'[h] = d
      /\ \A i \in Handlers : i # h => handler'[i] = handler[i]
  BY <1>1, <1>2, <1>3 DEF Types
<1>5. new \in Refreshing /\ new.since = clock /\ new.rows = None
  BY <1>1 DEF Refreshing
<1> HIDE DEF new
<1>6. Types'
  BY <1>1, <1>2, <1>4, <1>5 DEF Types, Still
<1>7. RefreshKnown'
  <2>1. CASE refresh' = refresh
    BY <1>1, <2>1 DEF AuthInv, RefreshKnown, Still
  <2>2. CASE refresh' = new
    BY <1>1, <1>5, <2>2 DEF RefreshKnown, Still, PepAuthAssumption
  <2> QED
    BY <1>2, <2>1, <2>2
<1>8. ~CacheStale => cache # None /\ clock - cache.fetchedAt <= CallerTtl
  <2>1. cache # None => cache.fetchedAt \in Nat
    BY <1>1 DEF Types, Cached
  <2> QED
    BY <1>1, <2>1 DEF CacheStale, PepAuthAssumption
<1>9. ReadyFresh'
  BY <1>1, <1>3, <1>4, <1>8 DEF AuthInv, ReadyFresh, Goes, Still
<1>10. Signed(r) => clock >= r.ts - Window
  <2>1. Signed(r) => InWindow(r)
    BY <1>1 DEF Dispatched, Signed
  <2> QED
    BY <1>1, <2>1 DEF InWindow, Abs, PepAuthAssumption
<1>11. CheckedInWindow'
  BY <1>1, <1>3, <1>4, <1>10 DEF AuthInv, CheckedInWindow, Still
<1>12. ListedNow' /\ CacheKnown'
  BY <1>1 DEF AuthInv, ListedNow, CacheKnown, Still
<1> QED
  BY <1>1, <1>6, <1>7, <1>9, <1>11, <1>12, AdmittedStay, StillForward DEF AuthInv

-----------------------------------------------------------------------------
\* One more delivery is let through: on a row OPA had recently, and if signed, in
\* its window and with a nonce that is new.
LEMMA OneAdmitted ==
  ASSUME PepAuthAssumption, AuthInv, Still, failures' = failures,
         NEW r, NEW id, NEW row, admitted' = admitted \cup {Admission(r, id, row)},
         row # None => row \in Rows /\ cache.took \in Nat,
         row # None /\ failures = 0 =>
           {row.mode} = r.kinds /\ AtLeast(listed[row], clock - CallerTtl - cache.took),
         Signed(r) => r.ts \in Int /\ clock >= r.ts - Window /\ (~evicted' => ~NonceSeen(Key(r))),
         evicted => evicted'
  PROVE  AdmittedWell' /\ Numbered' /\ RowIsRecent' /\ NoReplayInWindow'
<1> DEFINE new == Admission(r, id, row)
<1>1. /\ new.req = r /\ new.row = row /\ new.at = clock /\ new.no = Cardinality(admitted)
      /\ new.took = (IF row = None THEN 0 ELSE cache.took) /\ clock \in Nat
  BY DEF Admission, AuthInv, Types
<1>2. /\ IsFiniteSet(admitted) /\ Cardinality(admitted) \in Nat
      /\ \A a \in admitted : a.no \in Nat /\ a.no < Cardinality(admitted)
  BY FS_CardinalityType DEF AuthInv, Numbered
<1> HIDE DEF new
<1>3. admitted' = admitted \cup {new}
  BY DEF new
<1>4. Numbered'
  <2>1. new \notin admitted
    BY <1>1, <1>2
  <2>2. IsFiniteSet(admitted') /\ Cardinality(admitted') = Cardinality(admitted) + 1
    BY <1>2, <1>3, <2>1, FS_AddElement
  <2> QED
    BY <1>1, <1>2, <1>3, <2>2 DEF Numbered
<1>5. AdmittedWell'
  BY <1>1, <1>3 DEF AuthInv, AdmittedWell, Still
<1>6. RowIsRecent'
  BY <1>1, <1>3 DEF AuthInv, RowIsRecent, Still
<1>7. ASSUME NEW a \in admitted', NEW b \in admitted',
             a.req = b.req, a.no < b.no, a.req.kinds = {"hmac"}, ~evicted'
      PROVE  b.at > a.req.ts + Window
  <2>1. CASE a \in admitted /\ b \in admitted
    BY <1>7, <2>1 DEF AuthInv, NoReplayInWindow
  <2>2. CASE a \in admitted /\ b = new
    <3>1. /\ Signed(r) /\ a.req = r /\ b.at = clock /\ ~evicted
          /\ a.at \in Nat /\ r.ts \in Int /\ a.at >= r.ts - Window
      BY <1>1, <1>7, <2>2 DEF AuthInv, AdmittedWell, Signed
    <3>2. \/ clock - a.at > 2 * Window
          \/ \E e \in nonces : e.key = Key(r) /\ e.at = a.at
      BY <2>2, <3>1 DEF AuthInv, NonceKept
    <3>3. \A e \in nonces : e.key = Key(r) /\ e.at = a.at => clock - a.at > 2 * Window
      <4>1. ~NonceSeen(Key(r))
        BY <1>7, <3>1
      <4> QED
        BY <1>1, <3>1, <4>1 DEF NonceSeen, AliveNonces, Alive, PepAuthAssumption
    <3>4. clock - a.at > 2 * Window
      BY <1>1, <3>1, <3>2, <3>3
    <3> QED
      BY <1>1, <3>1, <3>4 DEF PepAuthAssumption
  <2>3. CASE a = new
    BY <1>1, <1>2, <1>3, <1>7, <2>3
  <2> QED
    BY <1>3, <2>1, <2>2, <2>3
<1>8. NoReplayInWindow'
  BY <1>7 DEF NoReplayInWindow
<1> QED
  BY <1>4, <1>5, <1>6, <1>8

LEMMA RequestRefused ==
  ASSUME PepAuthAssumption, AuthInv, NEW r \in Requests, Rejected(r) PROVE AuthInv'
<1>1. /\ Types /\ Still /\ UNCHANGED <<cache, refresh, handler, nonces, evicted, failures>>
      /\ sent' \in Nat
  BY DEF AuthInv, Rejected, Types, Still
<1>2. /\ Types' /\ ListedNow' /\ RefreshKnown' /\ CacheKnown' /\ ReadyFresh' /\ CheckedInWindow'
  BY <1>1 DEF AuthInv, Types, ListedNow, RefreshKnown, CacheKnown, ReadyFresh, Goes, CheckedInWindow, Still
<1>3. CASE admitted' = admitted
  BY <1>1, <1>2, <1>3, AdmittedStay, StillForward DEF AuthInv
<1>4. CASE r.kinds = {} /\ admitted' = admitted \cup {Admission(r, "anonymous", None)}
  <2>1. ~Signed(r)
    BY <1>4 DEF Signed
  <2>2. AdmittedWell' /\ Numbered' /\ RowIsRecent' /\ NoReplayInWindow'
    BY <1>1, <1>4, <2>1, OneAdmitted
  <2>3. NonceKept'
    <3>1. Admission(r, "anonymous", None).req = r
      BY DEF Admission
    <3> QED
      BY <1>1, <1>4, <2>1, <3>1 DEF AuthInv, NonceKept, Still
  <2> QED
    BY <1>2, <2>2, <2>3 DEF AuthInv
<1> QED
  BY <1>3, <1>4 DEF Rejected

\* What a delivery that goes on finds in the cache was in the table recently.
LEMMA FoundIsRecent ==
  ASSUME PepAuthAssumption, AuthInv, NEW h \in Handlers, Goes(h)
  PROVE  /\ cache.rows \in SUBSET Rows /\ cache.took \in Nat
         /\ failures = 0 => \A w \in cache.rows : AtLeast(listed[w], clock - CallerTtl - cache.took)
<1>1. cache # None /\ cache \in Cached /\ clock \in Nat
  BY DEF AuthInv, Types, ReadyFresh
<1>2. /\ cache.rows \in SUBSET Rows /\ cache.fetchedAt \in Nat /\ cache.took \in Nat
      /\ \A w \in cache.rows : AtLeast(listed[w], cache.fetchedAt - cache.took)
  BY <1>1 DEF AuthInv, CacheKnown, Cached
<1>3. failures = 0 => clock - cache.fetchedAt <= CallerTtl
  BY DEF AuthInv, ReadyFresh
<1> QED
  BY <1>1, <1>2, <1>3 DEF AtLeast, PepAuthAssumption

\* Its handler is free again, and nothing else is touched.
LEMMA HandlerFreed ==
  ASSUME PepAuthAssumption, AuthInv, NEW h \in Handlers, Answered(h), evicted' \in BOOLEAN
  PROVE  /\ Still /\ UNCHANGED <<cache, refresh, failures>>
         /\ Types' /\ ListedNow' /\ RefreshKnown' /\ CacheKnown' /\ ReadyFresh' /\ CheckedInWindow'
<1>1. Types /\ Still /\ UNCHANGED <<cache, refresh, failures, sent>>
  BY DEF AuthInv, Answered, Still
<1>2. /\ handler' \in [Handlers -> Deliveries \cup {None}]
      /\ \A i \in Handlers : handler'[i] # None => handler'[i] = handler[i]
  BY <1>1 DEF Answered, Types
<1>3. Types'
  BY <1>1, <1>2 DEF Types, Still
<1>4. ReadyFresh' /\ CheckedInWindow'
  BY <1>1, <1>2 DEF AuthInv, ReadyFresh, Goes, CheckedInWindow, Still
<1> QED
  BY <1>1, <1>3, <1>4 DEF AuthInv, ListedNow, RefreshKnown, CacheKnown, Still

\* A delivery whose credential is not signed ends without a nonce.
LEMMA UnsignedEnds ==
  ASSUME PepAuthAssumption, AuthInv, NEW h \in Handlers, Goes(h), Answered(h),
         UNCHANGED <<nonces, evicted>>, NEW r, r = handler[h].req, ~Signed(r),
         \/ admitted' = admitted
         \/ \E w \in cache.rows : Admit(r, w.id, w) /\ {w.mode} = r.kinds
         \/ \E id : Admit(r, id, None)
  PROVE  AuthInv'
<1>1. evicted \in BOOLEAN
  BY DEF AuthInv, Types
<1>2. /\ Still /\ UNCHANGED <<cache, refresh, failures>>
      /\ Types' /\ ListedNow' /\ RefreshKnown' /\ CacheKnown' /\ ReadyFresh' /\ CheckedInWindow'
  BY <1>1, HandlerFreed
<1>3. CASE admitted' = admitted
  BY <1>2, <1>3, AdmittedStay, StillForward DEF AuthInv
<1>4. ASSUME NEW id, NEW row, Admit(r, id, row),
             row = None \/ (row \in cache.rows /\ {row.mode} = r.kinds)
      PROVE  AuthInv'
  <2>1. AdmittedWell' /\ Numbered' /\ RowIsRecent' /\ NoReplayInWindow'
    BY <1>2, <1>4, OneAdmitted, FoundIsRecent DEF Admit
  <2>2. NonceKept'
    <3>1. Admission(r, id, row).req = r
      BY DEF Admission
    <3> QED
      BY <1>2, <1>4, <3>1 DEF AuthInv, NonceKept, Still, Admit
  <2> QED
    BY <1>2, <2>1, <2>2 DEF AuthInv
<1>5. CASE \E w \in cache.rows : Admit(r, w.id, w) /\ {w.mode} = r.kinds
  <2>1. PICK w \in cache.rows : Admit(r, w.id, w) /\ {w.mode} = r.kinds
    BY <1>5, Zenon
  <2> QED
    BY <2>1, <1>4
<1>6. CASE \E id : Admit(r, id, None)
  <2>1. PICK name : Admit(r, name, None)
    BY <1>6, Zenon
  <2> QED
    BY <2>1, <1>4
<1> QED
  BY <1>3, <1>5, <1>6

LEMMA TokenChecked ==
  ASSUME PepAuthAssumption, AuthInv, NEW h \in Handlers, JwtVerdict(h) \/ MtlsVerdict(h)
  PROVE  AuthInv'
<1>1. PICK r : r = handler[h].req
  OBVIOUS
<1>2. Goes(h) /\ Answered(h) /\ UNCHANGED <<nonces, evicted>>
  BY DEF JwtVerdict, MtlsVerdict, Ready, Goes
<1>3. CASE JwtVerdict(h)
  <2>1. r.kinds = {"jwt"}
    BY <1>1, <1>3 DEF JwtVerdict, Ready
  <2>2. \/ admitted' = admitted
        \/ \E w \in Found("jwt", r.who, cache.rows) : Admit(r, w.id, w)
    BY <1>1, <1>3 DEF JwtVerdict
  <2>3. \A w \in Found("jwt", r.who, cache.rows) : w \in cache.rows /\ {w.mode} = r.kinds
    BY <2>1 DEF Found
  <2>4. ~Signed(r)
    BY <2>1 DEF Signed
  <2> QED
    BY <1>1, <1>2, <2>2, <2>3, <2>4, UnsignedEnds
<1>4. CASE MtlsVerdict(h)
  <2>1. r.kinds = {"mtls"}
    BY <1>1, <1>4 DEF MtlsVerdict, Ready
  <2>2. \/ admitted' = admitted
        \/ \E w \in Found("mtls", r.who, cache.rows) : w.mode = "mtls" /\ Admit(r, w.id, w)
        \/ Admit(r, r.who, None)
    BY <1>1, <1>4 DEF MtlsVerdict
  <2>3. \A w \in Found("mtls", r.who, cache.rows) : w \in cache.rows
    BY DEF Found
  <2>4. ~Signed(r)
    BY <2>1 DEF Signed
  <2>5. \/ admitted' = admitted
        \/ \E w \in cache.rows : Admit(r, w.id, w) /\ {w.mode} = r.kinds
        \/ \E id : Admit(r, id, None)
    BY <2>1, <2>2, <2>3
  <2> QED
    BY <1>1, <1>2, <2>4, <2>5, UnsignedEnds
<1> QED
  BY <1>3, <1>4

LEMMA SignatureChecked ==
  ASSUME PepAuthAssumption, AuthInv, NEW h \in Handlers, HmacVerdict(h) PROVE AuthInv'
<1>1. PICK r : r = handler[h].req
  OBVIOUS
<1> DEFINE rows == Found("hmac", r.who, cache.rows)
           fresh == rows # {} /\ (\A w \in rows : w.mode = "hmac") /\ ~NonceSeen(Key(r))
<1>2. Goes(h) /\ Answered(h) /\ Signed(r) /\ r.kinds = {"hmac"}
  BY <1>1 DEF HmacVerdict, Ready, Goes, Signed
<1>3. /\ nonces' = IF fresh THEN Trimmed(Remembered(Key(r))) ELSE nonces
      /\ evicted' = (evicted \/ (fresh /\ Cardinality(Remembered(Key(r))) > NonceMax))
      /\ IF fresh /\ r.good THEN \E w \in rows : Admit(r, w.id, w) ELSE admitted' = admitted
  BY <1>1, Zenon DEF HmacVerdict, Key
<1>4. evicted' \in BOOLEAN /\ (evicted => evicted')
  BY <1>3 DEF AuthInv, Types
<1>5. /\ Still /\ UNCHANGED <<cache, refresh, failures>>
      /\ Types' /\ ListedNow' /\ RefreshKnown' /\ CacheKnown' /\ ReadyFresh' /\ CheckedInWindow'
  BY <1>2, <1>4, HandlerFreed
<1>6. r.ts \in Int /\ clock >= r.ts - Window
  BY <1>1, <1>2 DEF AuthInv, Types, Goes, Deliveries, CheckedInWindow, PepAuthAssumption
<1>7. ASSUME ~evicted', NEW a \in admitted, Signed(a.req)
      PROVE  \/ clock - a.at > 2 * Window
             \/ \E e \in nonces' : e.key = Key(a.req) /\ e.at = a.at
  <2>1. \/ clock - a.at > 2 * Window
        \/ \E e \in nonces : e.key = Key(a.req) /\ e.at = a.at
    BY <1>4, <1>7 DEF AuthInv, NonceKept
  <2>2. ASSUME NEW e \in nonces, e.key = Key(a.req), e.at = a.at, fresh
        PROVE  clock - a.at > 2 * Window \/ e \in nonces'
    <3>1. nonces' = Remembered(Key(r))
      <4>1. ~(Cardinality(Remembered(Key(r))) > NonceMax)
        BY <1>3, <1>7, <2>2
      <4> QED
        BY <1>3, <2>2, <4>1 DEF Trimmed
    <3>2. a.at \in Nat /\ clock \in Nat
      BY DEF AuthInv, AdmittedWell, Types
    <3> QED
      BY <2>2, <3>1, <3>2 DEF Remembered, AliveNonces, Alive, PepAuthAssumption
  <2> QED
    BY <1>3, <2>1, <2>2
<1>8. ASSUME fresh, NEW w \in rows, Admit(r, w.id, w)  PROVE AuthInv'
  <2>1. w \in cache.rows /\ w \in Rows /\ {w.mode} = r.kinds /\ cache.took \in Nat
    BY <1>2, <1>8, FoundIsRecent DEF Found
  <2>2. failures = 0 => AtLeast(listed[w], clock - CallerTtl - cache.took)
    BY <1>2, <2>1, FoundIsRecent
  <2>3. AdmittedWell' /\ Numbered' /\ RowIsRecent' /\ NoReplayInWindow'
    BY <1>4, <1>5, <1>6, <1>8, <2>1, <2>2, OneAdmitted DEF Admit
  <2>4. NonceKept'
    <3>1. Admission(r, w.id, w).req = r /\ Admission(r, w.id, w).at = clock
      BY DEF Admission
    <3>2. ~evicted' => \E e \in nonces' : e.key = Key(r) /\ e.at = clock
      <4>1. ~evicted' => nonces' = Remembered(Key(r))
        BY <1>3, <1>8 DEF Trimmed
      <4> QED
        <5> DEFINE e == [key |-> Key(r), at |-> clock, no |-> Max({0} \cup {f.no + 1 : f \in nonces})]
        <5>1. e \in Remembered(Key(r)) /\ e.key = Key(r) /\ e.at = clock
          BY DEF Remembered
        <5> HIDE DEF e
        <5> QED
          BY <4>1, <5>1
    <3>3. admitted' = admitted \cup {Admission(r, w.id, w)}
      BY <1>8 DEF Admit
    <3> QED
      BY <1>5, <1>7, <3>1, <3>2, <3>3 DEF NonceKept, Still
  <2> QED
    BY <1>5, <2>3, <2>4 DEF AuthInv
<1>9. CASE admitted' = admitted
  <2>1. NonceKept'
    BY <1>5, <1>7, <1>9 DEF NonceKept, Still
  <2>2. AdmittedWell' /\ Numbered' /\ RowIsRecent' /\ NoReplayInWindow'
    BY <1>4, <1>5, <1>9 DEF AuthInv, AdmittedWell, Numbered, RowIsRecent, NoReplayInWindow, Still
  <2> QED
    BY <1>5, <2>1, <2>2 DEF AuthInv
<1> HIDE DEF fresh, rows
<1> QED
  BY <1>3, <1>8, <1>9

-----------------------------------------------------------------------------
LEMMA AuthInvStep == ASSUME PepAuthAssumption, AuthInv, [Next]_vars PROVE AuthInv'
<1>1. CASE \E r \in Requests : Rejected(r) \/ \E h \in Handlers : Receive(h, r)
  BY <1>1, RequestRefused, RequestWaits
<1>2. CASE \E h \in Handlers : HmacVerdict(h) \/ JwtVerdict(h) \/ MtlsVerdict(h)
  BY <1>2, SignatureChecked, TokenChecked
<1>3. CASE UNCHANGED vars
  <2>1. Still /\ UNCHANGED <<cache, refresh, handler, nonces, admitted, evicted, sent, failures>>
    BY <1>3 DEF vars, Still
  <2> QED
    BY <2>1, AdmittedStay, StillForward DEF AuthInv, Types, ListedNow, RefreshKnown, CacheKnown,
       ReadyFresh, Goes, CheckedInWindow, Still
<1> QED
  BY <1>1, <1>2, <1>3, TableMoves, OpaAnswered, RefreshDone, TimeMoves DEF Next

\* The invariant of the PEP's authentication.
THEOREM AuthHolds == ASSUME PepAuthAssumption PROVE Spec => []AuthInv
<1>1. Init => AuthInv
  BY FirstTable
<1>2. AuthInv /\ [Next]_vars => AuthInv'
  BY AuthInvStep
<1> QED
  BY <1>1, <1>2, PTL DEF Spec

\* A signed request is let through twice only when a nonce was pushed out or the
\* second check of the nonce came after its timestamp left the window, for any
\* window, cache, callers and requests.
THEOREM AuthNoReplayInWindow == ASSUME PepAuthAssumption PROVE Spec => []NoReplayInWindow
<1>1. AuthInv => NoReplayInWindow
  BY DEF AuthInv
<1> QED
  BY <1>1, AuthHolds, PTL

\* Without failures of OPA, nobody is let through on a row that left the table longer
\* ago than the TTL and the time the fetch of it took, nor in a mode the row does not
\* declare.  That time is the one of the very fetch, and has no bound in the code.
THEOREM AuthRowIsRecent == ASSUME PepAuthAssumption PROVE Spec => []RowIsRecent
<1>1. AuthInv => RowIsRecent
  BY DEF AuthInv
<1> QED
  BY <1>1, AuthHolds, PTL

-----------------------------------------------------------------------------
(* The shape of the state: the nonce cache never holds more than its       *)
(* maximum, and what is cached is a whole table of OPA, or none.           *)

NoncesCapped ==
  /\ IsFiniteSet(nonces) /\ Cardinality(nonces) <= NonceMax
  /\ \E bound \in Nat : \A e \in nonces : e.no \in 0..bound
WholeTables ==
  /\ cache # None => cache.rows \in Tables \cup {{}}
  /\ refresh # None /\ refresh.rows # None => refresh.rows \in Tables
Bounded == clock <= MaxTime /\ NoncesCapped /\ WholeTables

LEMMA Least == ASSUME NEW N \in SUBSET Nat, N # {} PROVE \E m \in N : \A n \in N : m <= n
<1>1. \E m \in N : \A n \in N : ~(n < m)
  <2>1. \E m \in N : \A n \in N : ~(<<n, m>> \in OpToRel(<, Nat))
    BY NatLessThanWellFounded, WFMin
  <2>2. \A n \in N, m \in N : n < m => <<n, m>> \in OpToRel(<, Nat)
    BY DEF OpToRel
  <2> QED BY <2>1, <2>2, Zenon
<1> QED BY <1>1

LEMMA MaxIs ==
  ASSUME NEW N \in SUBSET Nat, N # {}, NEW bound \in Nat, \A n \in N : n <= bound
  PROVE  Max(N) \in N
<1> DEFINE Above == {b \in Nat : \A n \in N : n <= b}
<1>1. PICK m \in Above : \A b \in Above : m <= b
  <2>1. Above \in SUBSET Nat /\ Above # {}
    OBVIOUS
  <2> HIDE DEF Above
  <2> QED BY <2>1, Least
<1>2. m \in N
  <2>1. SUFFICES ASSUME m \notin N PROVE FALSE
    OBVIOUS
  <2>2. PICK n \in N : TRUE
    OBVIOUS
  <2>3. m # 0 /\ m - 1 \in Above
    BY <2>1, <2>2
  <2> QED BY <1>1, <2>3
<1>3. \A n \in N : m >= n
  BY <1>1
<1> QED BY <1>2, <1>3 DEF Max

\* The key goes in with the next number.
LEMMA RememberedIs ==
  ASSUME PepAuthAssumption, NoncesCapped, NEW key
  PROVE  /\ IsFiniteSet(Remembered(key)) /\ Remembered(key) # {}
         /\ Cardinality(Remembered(key)) <= NonceMax + 1
         /\ \E bound \in Nat : \A e \in Remembered(key) : e.no \in 0..bound
<1> DEFINE Numbers == {0} \cup {e.no + 1 : e \in nonces}
           new == [key |-> key, at |-> clock, no |-> Max(Numbers)]
<1>1. PICK bound \in Nat : \A e \in nonces : e.no \in 0..bound
  BY DEF NoncesCapped
<1>2. Numbers \in SUBSET Nat /\ Numbers # {} /\ \A n \in Numbers : n <= bound + 1
  BY <1>1
<1>3. Max(Numbers) \in 0..(bound + 1)
  <2> HIDE DEF Numbers
  <2>1. bound + 1 \in Nat /\ \A n \in Numbers : n \in 0..(bound + 1)
    BY <1>1, <1>2
  <2>2. Max(Numbers) \in Numbers
    BY <1>2, <2>1, MaxIs
  <2> QED BY <2>1, <2>2, Zenon
<1>4. new.no \in 0..(bound + 1)
  BY <1>3
<1>5. Remembered(key) = AliveNonces \cup {new} /\ AliveNonces \subseteq nonces
  BY DEF Remembered, AliveNonces
<1> HIDE DEF new
<1>6. IsFiniteSet(AliveNonces) /\ Cardinality(AliveNonces) <= NonceMax
      /\ Cardinality(AliveNonces) \in Nat
  BY <1>5, FS_Subset, FS_CardinalityType DEF NoncesCapped, PepAuthAssumption
<1>7. IsFiniteSet(Remembered(key)) /\ Cardinality(Remembered(key)) <= NonceMax + 1
  <2>1. /\ IsFiniteSet(AliveNonces \cup {new})
        /\ Cardinality(AliveNonces \cup {new}) =
             IF new \in AliveNonces THEN Cardinality(AliveNonces) ELSE Cardinality(AliveNonces) + 1
    BY <1>6, FS_AddElement
  <2> QED BY <1>5, <1>6, <2>1 DEF PepAuthAssumption
<1>8. bound + 1 \in Nat /\ \A e \in Remembered(key) : e.no \in 0..(bound + 1)
  BY <1>1, <1>4, <1>5
<1> QED BY <1>5, <1>7, <1>8

\* LRUCache.set() leaves at most max entries.
LEMMA TrimmedIs ==
  ASSUME PepAuthAssumption, NEW entries, IsFiniteSet(entries), entries # {},
         Cardinality(entries) <= NonceMax + 1,
         NEW bound \in Nat, \A e \in entries : e.no \in 0..bound
  PROVE  /\ IsFiniteSet(Trimmed(entries)) /\ Trimmed(entries) \subseteq entries
         /\ Cardinality(Trimmed(entries)) <= NonceMax
<1>1. Cardinality(entries) \in Nat /\ NonceMax \in Nat
  BY FS_CardinalityType DEF PepAuthAssumption
<1>2. CASE Cardinality(entries) > NonceMax
  <2> DEFINE Numbers == {e.no : e \in entries}
  <2>1. Numbers \in SUBSET Nat /\ Numbers # {}
    OBVIOUS
  <2>2. PICK n \in Numbers : \A k \in Numbers : n <= k
    <3> HIDE DEF Numbers
    <3> QED BY <2>1, Least
  <2>3. \E e \in entries : \A f \in entries : e.no <= f.no
    BY <2>2
  <2>4. Oldest(entries) \in entries
    BY <2>3 DEF Oldest
  <2>5. Trimmed(entries) = entries \ {Oldest(entries)}
    BY <1>2 DEF Trimmed
  <2>6. /\ IsFiniteSet(entries \ {Oldest(entries)})
        /\ Cardinality(entries \ {Oldest(entries)}) = Cardinality(entries) - 1
    BY <2>4, FS_RemoveElement
  <2> QED BY <1>1, <2>5, <2>6
<1>3. CASE ~(Cardinality(entries) > NonceMax)
  BY <1>1, <1>3 DEF Trimmed
<1> QED BY <1>2, <1>3

LEMMA NoncesStep ==
  ASSUME PepAuthAssumption, NoncesCapped,
         UNCHANGED nonces \/ \E key : nonces' = Trimmed(Remembered(key))
  PROVE  NoncesCapped'
<1>1. CASE UNCHANGED nonces
  BY <1>1 DEF NoncesCapped
<1>2. ASSUME NEW key, nonces' = Trimmed(Remembered(key)) PROVE NoncesCapped'
  <2>1. PICK bound \in Nat : \A e \in Remembered(key) : e.no \in 0..bound
    BY RememberedIs
  <2>2. /\ IsFiniteSet(nonces') /\ nonces' \subseteq Remembered(key)
        /\ Cardinality(nonces') <= NonceMax
    BY <1>2, <2>1, RememberedIs, TrimmedIs
  <2> QED BY <2>1, <2>2 DEF NoncesCapped
<1> QED BY <1>1, <1>2

LEMMA BoundedStep ==
  ASSUME PepAuthAssumption, AuthInv, Bounded, [Next]_vars PROVE Bounded'
<1>0. /\ clock \in Nat /\ table \in Tables
      /\ cache \in Cached \cup {None} /\ refresh \in Refreshing \cup {None}
  BY DEF AuthInv, Types
<1>a. ASSUME UNCHANGED <<clock, cache, refresh>>,
             UNCHANGED nonces \/ \E key : nonces' = Trimmed(Remembered(key))
      PROVE  Bounded'
  BY <1>a, NoncesStep DEF Bounded, WholeTables
<1>b. ASSUME WholeTables', UNCHANGED <<clock, nonces>> PROVE Bounded'
  BY <1>b, NoncesStep DEF Bounded
<1>1. CASE TableChanges \/ UNCHANGED vars
  BY <1>1, <1>a DEF TableChanges, vars
<1>2. CASE \E r \in Requests : Rejected(r)
  BY <1>2, <1>a DEF Rejected
<1>3. ASSUME NEW r \in Requests, NEW h \in Handlers, Receive(h, r) PROVE Bounded'
  <2>1. UNCHANGED refresh \/ (refresh' = [since |-> clock, rows |-> None])
    BY <1>3 DEF Receive, LooksUp
  <2>2. [since |-> clock, rows |-> None].rows = None
    OBVIOUS
  <2>3. UNCHANGED <<clock, cache, nonces>>
    BY <1>3 DEF Receive
  <2>4. WholeTables'
    BY <2>1, <2>2, <2>3 DEF Bounded, WholeTables
  <2> QED BY <1>b, <2>3, <2>4
<1>4. CASE OpaAnswers
  <2>1. refresh' = [refresh EXCEPT !.rows = table] /\ refresh \in Refreshing
        /\ UNCHANGED <<clock, cache, nonces>>
    BY <1>0, <1>4 DEF OpaAnswers
  <2>2. refresh'.rows = table
    BY <2>1 DEF Refreshing
  <2> QED BY <1>0, <1>b, <2>1, <2>2 DEF Bounded, WholeTables
<1>5. CASE RefreshEnds
  <2>1. cache' = [rows |-> refresh.rows, fetchedAt |-> clock, took |-> clock - refresh.since] /\ refresh' = None
        /\ UNCHANGED <<clock, nonces>> /\ refresh.rows \in Tables
    BY <1>5 DEF RefreshEnds, Bounded, WholeTables
  <2>2. cache'.rows = refresh.rows
    BY <2>1
  <2> QED BY <1>b, <2>1, <2>2 DEF WholeTables
<1>6. CASE RefreshFails
  <2>1. UNCHANGED cache \/ cache' = [rows |-> {}, fetchedAt |-> clock, took |-> 0]
    BY <1>6 DEF RefreshFails
  <2>2. [rows |-> {}, fetchedAt |-> clock, took |-> 0].rows = {}
    OBVIOUS
  <2>3. refresh' = None /\ UNCHANGED <<clock, nonces>>
    BY <1>6 DEF RefreshFails
  <2> QED BY <1>b, <2>1, <2>2, <2>3 DEF Bounded, WholeTables
<1>7. ASSUME NEW h \in Handlers, HmacVerdict(h) \/ JwtVerdict(h) \/ MtlsVerdict(h) PROVE Bounded'
  BY <1>7, <1>a DEF HmacVerdict, JwtVerdict, MtlsVerdict, Answered
<1>8. CASE Tick
  <2>1. clock' <= MaxTime
    BY <1>0, <1>8 DEF Tick, PepAuthAssumption
  <2>2. UNCHANGED <<cache, refresh, nonces>>
    BY <1>8 DEF Tick
  <2> QED BY <2>1, <2>2, NoncesStep DEF Bounded, WholeTables
<1> QED BY <1>1, <1>2, <1>3, <1>4, <1>5, <1>6, <1>7, <1>8 DEF Next

\* The nonce cache never holds more than its maximum, whatever is replayed or pushed
\* out, and what is looked up in is a table that OPA had, or the empty one.
THEOREM AuthTypeCorrect == ASSUME PepAuthAssumption PROVE Spec => []TypeOK
<1>1. Init => Bounded
  <2> SUFFICES ASSUME Init PROVE Bounded
    OBVIOUS
  <2>1. NoncesCapped
    BY FS_EmptySet DEF Init, NoncesCapped, PepAuthAssumption
  <2>2. [rows |-> table, fetchedAt |-> 0, took |-> 0].rows = table
    OBVIOUS
  <2> QED BY <2>1, <2>2 DEF Init, Bounded, WholeTables, PepAuthAssumption
<1>2. AuthInv /\ Bounded /\ [Next]_vars => Bounded'
  BY BoundedStep
<1>3. AuthInv /\ Bounded => TypeOK
  <2> SUFFICES ASSUME AuthInv, Bounded PROVE TypeOK
    OBVIOUS
  <2>1. clock \in 0..MaxTime /\ table \in Tables /\ {sent, failures} \subseteq Nat
    BY DEF AuthInv, Types, Bounded, PepAuthAssumption
  <2>2. cache = None \/ cache \in [rows : Tables \cup {{}}, fetchedAt : 0..MaxTime, took : 0..MaxTime]
    <3> SUFFICES ASSUME cache # None
                 PROVE  cache \in [rows : Tables \cup {{}}, fetchedAt : 0..MaxTime, took : 0..MaxTime]
      OBVIOUS
    <3>1. /\ cache \in Cached /\ cache.fetchedAt <= clock /\ cache.took <= cache.fetchedAt
          /\ cache.rows \in Tables \cup {{}}
      BY DEF AuthInv, Types, CacheKnown, Bounded, WholeTables
    <3>2. cache.fetchedAt \in 0..MaxTime /\ cache.took \in 0..MaxTime
      BY <2>1, <3>1 DEF Cached, PepAuthAssumption
    <3> QED BY <3>1, <3>2 DEF Cached
  <2>3. \A h \in Handlers : handler[h] = None \/ handler[h] \in [req : Requests, step : {"waits", "ready"}]
    BY DEF AuthInv, Types, Deliveries
  <2> QED BY <2>1, <2>2, <2>3 DEF TypeOK, Bounded, NoncesCapped
<1> QED BY <1>1, <1>2, <1>3, AuthHolds, PTL DEF Spec
=============================================================================
