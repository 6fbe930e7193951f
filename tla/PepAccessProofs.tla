-------------------------- MODULE PepAccessProofs --------------------------
(***************************************************************************)
(* Nothing is let through on a grant older than the TTL and the time the   *)
(* fetch of it took, and no request waits for a fetch that nobody makes.   *)
(***************************************************************************)
EXTENDS PepAccess, TLAPS

Docs == [access : SUBSET Pairs, index : SUBSET Policies]
Lasts == [access : [Pairs -> Nat \cup {None}], index : [Policies -> Nat \cup {None}]]
Asked == [kind : {"acl", "evaluate", "index", "ids"}, caller : Callers,
          pkg : Nat \cup {None}, index : (SUBSET Policies) \cup {None}, ready : BOOLEAN]
Answers == [caller : Callers, policy : Policies, at : Nat, took : Nat,
            kind : {"gate", "allow", "candidate"}]

Types ==
  /\ time \in Nat /\ docs \in Docs /\ last \in Lasts
  /\ store \in Cached \cup {None} /\ fetch \in Fetching \cup {None}
  /\ request \in [Handlers -> Asked \cup {None}]
  /\ answers \in SUBSET Answers
  /\ failed \in Nat /\ asked \in Nat /\ changes \in Nat

\* All of the documents d was there at the time t or later.
SeenSince(d, t) ==
  /\ \A g \in d.access : AtLeast(last.access[g], t)
  /\ \A p \in d.index : AtLeast(last.index[p], t)
SeenRead(doc, l, t) == doc # None => \A x \in doc : AtLeast(l[x], t)

DocsNoted == SeenSince(docs, time)
FetchKnown ==
  fetch # None =>
    /\ fetch.since <= time
    /\ SeenRead(fetch.access, last.access, fetch.since)
    /\ SeenRead(fetch.index, last.index, fetch.since)
\* There is a fetch only while the cache is stale or missing.
FetchWhenStale == fetch # None => Stale
StoreKnown ==
  store # None =>
    /\ store.fetchedAt <= time /\ store.took <= store.fetchedAt
    /\ SeenSince(store, store.fetchedAt - store.took)
Uses(h) == request[h] # None /\ request[h].kind # "evaluate"
ReadyFresh ==
  \A h \in Handlers : Uses(h) /\ request[h].ready =>
    store # None /\ time - store.fetchedAt <= Ttl
\* /discover goes on with the index it has at once, and the cache is not replaced.
IdsKnown ==
  \A h \in Handlers : Uses(h) /\ request[h].kind = "ids" =>
    request[h].ready /\ request[h].index = store.index
AnswersPast == \A a \in answers : a.at <= time

AccessInv ==
  /\ Types /\ DocsNoted /\ FetchKnown /\ FetchWhenStale /\ StoreKnown
  /\ ReadyFresh /\ IdsKnown /\ WaitersAreServed /\ AnswersPast /\ GrantIsRecent

-----------------------------------------------------------------------------
\* What Noted() writes: the time for what is there, the old note for the rest.
LEMMA NotedWrites ==
  ASSUME NEW l \in Lasts, NEW d \in Docs, NEW t \in Nat
  PROVE  /\ Noted(l, d, t) \in Lasts
         /\ \A g \in Pairs : Noted(l, d, t).access[g] = IF g \in d.access THEN t ELSE l.access[g]
         /\ \A p \in Policies : Noted(l, d, t).index[p] = IF p \in d.index THEN t ELSE l.index[p]
  BY DEF Lasts, Docs, Noted

\* The notes only move forward.
Forward ==
  \A t \in Int : t <= time =>
    /\ \A g \in Pairs : AtLeast(last.access[g], t) => AtLeast(last'.access[g], t)
    /\ \A p \in Policies : AtLeast(last.index[p], t) => AtLeast(last'.index[p], t)

LEMMA FirstNotes == ASSUME PepAccessAssumption, Init PROVE AccessInv
<1> DEFINE none == [access |-> [g \in Pairs |-> None], index |-> [p \in Policies |-> None]]
<1>1. none \in Lasts /\ docs \in Docs
  BY DEF Init, Lasts, Docs, Empty
<1> HIDE DEF none
<1>2. time = 0 /\ last = Noted(none, docs, 0)
  BY DEF Init, none
<1>3. Types
  BY <1>1, <1>2, NotedWrites DEF Init, Types
<1>4. DocsNoted
  BY <1>1, <1>2, NotedWrites DEF DocsNoted, SeenSince, AtLeast, Docs
<1> QED
  BY <1>3, <1>4 DEF Init, AccessInv, FetchKnown, StoreKnown, ReadyFresh, IdsKnown,
     WaitersAreServed, AnswersPast, GrantIsRecent, Uses, FetchWhenStale

-----------------------------------------------------------------------------
\* A request about which nothing changes but that the time does not go back.
LEMMA AnswersStay ==
  ASSUME PepAccessAssumption, AccessInv, Types', Forward, time' >= time, answers' = answers
  PROVE  AnswersPast' /\ GrantIsRecent'
<1>1. ASSUME NEW a \in answers
      PROVE  /\ a \in Answers /\ a.at <= time /\ a.at <= time'
             /\ a.caller \in Callers /\ a.policy \in Policies /\ a.at \in Nat /\ a.took \in Nat
             /\ <<a.caller, a.policy>> \in Pairs
             /\ a.at - Ttl - a.took \in Int /\ a.at - Ttl - a.took <= time
  <2>1. a \in Answers /\ a.at <= time
    BY DEF AccessInv, Types, AnswersPast
  <2>2. a.caller \in Callers /\ a.policy \in Policies /\ a.at \in Nat /\ a.took \in Nat
    BY <2>1 DEF Answers
  <2> QED
    BY <2>1, <2>2 DEF AccessInv, Types, PepAccessAssumption, Pairs
<1>2. AnswersPast'
  BY <1>1 DEF AnswersPast
<1>3. ASSUME NEW a \in answers, a.kind # "allow"
      PROVE  /\ AtLeast(last'.access[<<a.caller, a.policy>>], a.at - Ttl - a.took)
             /\ AtLeast(last'.index[a.policy], a.at - Ttl - a.took)
  BY <1>1, <1>3 DEF Forward, AccessInv, GrantIsRecent
<1> QED
  BY <1>2, <1>3 DEF GrantIsRecent

\* So stays what is in the cache, and what a fetch has read.
LEMMA StoreStays ==
  ASSUME PepAccessAssumption, AccessInv, Forward, time' >= time, time' \in Nat, store' = store
  PROVE  StoreKnown'
<1>1. CASE store # None
  <2>1. /\ store \in Cached /\ store.fetchedAt <= time /\ time \in Nat
        /\ store.took <= store.fetchedAt
        /\ SeenSince(store, store.fetchedAt - store.took)
    BY <1>1 DEF AccessInv, StoreKnown, Types
  <2>2. /\ store.fetchedAt \in Nat /\ store.took \in Nat
        /\ store.access \in SUBSET Pairs /\ store.index \in SUBSET Policies
    BY <2>1 DEF Cached
  <2>3. store.fetchedAt - store.took \in Int /\ store.fetchedAt - store.took <= time
    BY <2>1, <2>2 DEF PepAccessAssumption
  <2>4. \A g \in store.access : AtLeast(last'.access[g], store.fetchedAt - store.took)
    BY <2>1, <2>2, <2>3 DEF Forward, SeenSince
  <2>5. \A p \in store.index : AtLeast(last'.index[p], store.fetchedAt - store.took)
    BY <2>1, <2>2, <2>3 DEF Forward, SeenSince
  <2>6. store.fetchedAt <= time'
    BY <2>1, <2>2
  <2> QED
    BY <2>1, <2>4, <2>5, <2>6 DEF StoreKnown, SeenSince
<1> QED
  BY <1>1 DEF StoreKnown

LEMMA ReadStays ==
  ASSUME AccessInv, Forward, fetch # None
  PROVE  /\ SeenRead(fetch.access, last'.access, fetch.since)
         /\ SeenRead(fetch.index, last'.index, fetch.since)
<1>1. /\ fetch \in Fetching /\ fetch.since <= time
      /\ SeenRead(fetch.access, last.access, fetch.since)
      /\ SeenRead(fetch.index, last.index, fetch.since)
  BY DEF AccessInv, FetchKnown, Types
<1>2. /\ fetch.since \in Int /\ fetch.access \in (SUBSET Pairs) \cup {None}
      /\ fetch.index \in (SUBSET Policies) \cup {None}
  BY <1>1 DEF Fetching
<1>3. SeenRead(fetch.access, last'.access, fetch.since)
  <2>1. ASSUME fetch.access # None, NEW x \in fetch.access
        PROVE  x \in Pairs /\ AtLeast(last.access[x], fetch.since)
    BY <1>1, <1>2, <2>1 DEF SeenRead
  <2>2. ASSUME fetch.access # None, NEW x \in fetch.access
        PROVE  AtLeast(last'.access[x], fetch.since)
    BY <1>1, <1>2, <2>1, <2>2 DEF Forward
  <2> QED
    BY <2>2 DEF SeenRead
<1>4. SeenRead(fetch.index, last'.index, fetch.since)
  <2>1. ASSUME fetch.index # None, NEW x \in fetch.index
        PROVE  x \in Policies /\ AtLeast(last.index[x], fetch.since)
    BY <1>1, <1>2, <2>1 DEF SeenRead
  <2>2. ASSUME fetch.index # None, NEW x \in fetch.index
        PROVE  AtLeast(last'.index[x], fetch.since)
    BY <1>1, <1>2, <2>1, <2>2 DEF Forward
  <2> QED
    BY <2>2 DEF SeenRead
<1> QED
  BY <1>3, <1>4

LEMMA DocsMove ==
  ASSUME PepAccessAssumption, AccessInv, DocsChange PROVE AccessInv'
<1> DEFINE l == Noted(last, docs, time)
<1>1. Types
  BY DEF AccessInv
<1>2. docs' \in Docs /\ last' = Noted(l, docs', time) /\ time' = time
  <2>1. docs \in Docs
    BY <1>1 DEF Types
  <2> QED
    BY <2>1 DEF DocsChange, Docs
<1>3. l \in Lasts
  BY <1>1, NotedWrites DEF Types
<1> HIDE DEF l
<1>4. last' \in Lasts
  BY <1>1, <1>2, <1>3, NotedWrites DEF Types
<1>5. Types'
  <2>1. changes' \in Nat
    BY <1>1 DEF Types, DocsChange
  <2> QED
    BY <1>1, <1>2, <1>4, <2>1 DEF Types, DocsChange
<1>6. DocsNoted'
  <2>1. time \in Nat /\ docs'.access \in SUBSET Pairs /\ docs'.index \in SUBSET Policies
    BY <1>1, <1>2 DEF Types, Docs
  <2>2. /\ \A g \in docs'.access : last'.access[g] = time
        /\ \A p \in docs'.index : last'.index[p] = time
    BY <1>2, <1>3, <2>1, NotedWrites
  <2> QED
    BY <1>2, <2>1, <2>2 DEF DocsNoted, SeenSince, AtLeast
<1>7. Forward
  <2>1. /\ \A g \in Pairs : last'.access[g] = time \/ last'.access[g] = last.access[g]
        /\ \A p \in Policies : last'.index[p] = time \/ last'.index[p] = last.index[p]
    <3>1. /\ \A g \in Pairs : l.access[g] = time \/ l.access[g] = last.access[g]
          /\ \A p \in Policies : l.index[p] = time \/ l.index[p] = last.index[p]
      BY <1>1, NotedWrites DEF Types, l
    <3>2. /\ \A g \in Pairs : last'.access[g] = time \/ last'.access[g] = l.access[g]
          /\ \A p \in Policies : last'.index[p] = time \/ last'.index[p] = l.index[p]
      BY <1>1, <1>2, <1>3, NotedWrites DEF Types
    <3> QED
      BY <3>1, <3>2
  <2> QED
    BY <1>1, <2>1 DEF Forward, AtLeast, Types
<1>8. UNCHANGED <<store, fetch, request, answers>>
  BY DEF DocsChange
<1>9. FetchKnown'
  BY <1>2, <1>7, <1>8, ReadStays DEF AccessInv, FetchKnown
<1>10. StoreKnown'
  BY <1>1, <1>2, <1>7, <1>8, StoreStays DEF Types
<1>11. ReadyFresh' /\ WaitersAreServed' /\ IdsKnown' /\ FetchWhenStale'
  BY <1>2, <1>8 DEF AccessInv, ReadyFresh, WaitersAreServed, IdsKnown, FetchWhenStale, Stale, Uses
<1>12. AnswersPast' /\ GrantIsRecent'
  BY <1>1, <1>2, <1>5, <1>7, <1>8, AnswersStay DEF Types
<1> QED
  BY <1>5, <1>6, <1>9, <1>10, <1>11, <1>12 DEF AccessInv

LEMMA TimeMoves ==
  ASSUME PepAccessAssumption, AccessInv, TimePasses PROVE AccessInv'
<1>1. Types
  BY DEF AccessInv
<1>2. time' = time + 1 /\ docs' = docs /\ last' = Noted(last, docs, time + 1)
  BY DEF TimePasses
<1>3. last' \in Lasts
  BY <1>1, <1>2, NotedWrites DEF Types
<1>4. Types'
  BY <1>1, <1>2, <1>3 DEF Types, TimePasses
<1>5. /\ \A g \in Pairs : last'.access[g] = IF g \in docs.access THEN time' ELSE last.access[g]
      /\ \A p \in Policies : last'.index[p] = IF p \in docs.index THEN time' ELSE last.index[p]
  BY <1>1, <1>2, NotedWrites DEF Types
<1>6. DocsNoted'
  BY <1>1, <1>2, <1>5 DEF DocsNoted, SeenSince, AtLeast, Docs, Types
<1>7. Forward
  BY <1>1, <1>2, <1>5 DEF Forward, AtLeast, Types
<1>8. UNCHANGED <<store, fetch, request, answers>> /\ time' >= time /\ time' \in Nat
  BY <1>1, <1>2 DEF TimePasses, Types
<1>9. FetchKnown'
  <2>1. fetch # None => fetch.since \in Nat /\ fetch.since <= time
    BY <1>1 DEF AccessInv, FetchKnown, Types, Fetching
  <2>2. fetch # None => fetch.since <= time'
    BY <1>1, <1>2, <2>1 DEF Types
  <2> QED
    BY <1>7, <1>8, <2>2, ReadStays DEF FetchKnown
<1>10. StoreKnown'
  BY <1>7, <1>8, StoreStays
<1>11. ReadyFresh' /\ IdsKnown' /\ WaitersAreServed'
  BY <1>8 DEF TimePasses, AccessInv, ReadyFresh, IdsKnown, WaitersAreServed, Uses
<1>12. AnswersPast' /\ GrantIsRecent'
  BY <1>4, <1>7, <1>8, AnswersStay
<1>13. FetchWhenStale'
  <2>1. time \in Nat /\ (store # None => store.fetchedAt \in Nat)
    BY <1>1 DEF Types, Cached
  <2> QED
    BY <1>2, <1>8, <2>1 DEF AccessInv, FetchWhenStale, Stale, PepAccessAssumption
<1> QED
  BY <1>4, <1>6, <1>9, <1>10, <1>11, <1>12, <1>13 DEF AccessInv

-----------------------------------------------------------------------------
(* The other actions leave the clock and the documents alone.              *)

Still == UNCHANGED <<time, docs, last>>

LEMMA OpaAnswers ==
  ASSUME PepAccessAssumption, AccessInv, NEW doc \in {"access", "index"}, OpaReads(doc)
  PROVE  AccessInv'
<1>1. Types /\ DocsNoted /\ FetchKnown /\ fetch # None /\ fetch \in Fetching
  BY DEF AccessInv, OpaReads, Types
<1>2. Still /\ UNCHANGED <<store, request, answers, asked, changes>>
  BY DEF OpaReads, Still, world
<1>3. failed' \in Nat
  BY <1>1 DEF OpaReads, Types
<1>4. PICK d : fetch' = [fetch EXCEPT ![doc] = d] /\ d \in {docs[doc], {}}
  BY Zenon DEF OpaReads
<1>5. /\ fetch.since \in Nat /\ docs.access \in SUBSET Pairs /\ docs.index \in SUBSET Policies
      /\ fetch.since <= time /\ time \in Nat
  BY <1>1 DEF Fetching, Types, Docs, FetchKnown
<1>6. ASSUME doc = "access" PROVE fetch' \in Fetching /\ FetchKnown'
  <2>1. fetch' \in Fetching /\ fetch'.since = fetch.since /\ fetch'.access = d /\ fetch'.index = fetch.index
    BY <1>1, <1>4, <1>5, <1>6 DEF Fetching
  <2>2. SeenRead(d, last.access, fetch.since)
    BY <1>1, <1>4, <1>5, <1>6 DEF SeenRead, DocsNoted, SeenSince, AtLeast
  <2> QED
    BY <1>1, <1>2, <2>1, <2>2 DEF FetchKnown, Still
<1>7. ASSUME doc = "index" PROVE fetch' \in Fetching /\ FetchKnown'
  <2>1. fetch' \in Fetching /\ fetch'.since = fetch.since /\ fetch'.index = d /\ fetch'.access = fetch.access
    BY <1>1, <1>4, <1>5, <1>7 DEF Fetching
  <2>2. SeenRead(d, last.index, fetch.since)
    BY <1>1, <1>4, <1>5, <1>7 DEF SeenRead, DocsNoted, SeenSince, AtLeast
  <2> QED
    BY <1>1, <1>2, <2>1, <2>2 DEF FetchKnown, Still
<1> QED
  <2>1. fetch' \in Fetching /\ FetchKnown'
    BY <1>1, <1>2, <1>4, <1>5, <1>6, <1>7
  <2>2. fetch' # None
    BY <2>1 DEF PepAccessAssumption
  <2>3. Types'
    BY <1>1, <1>2, <1>3, <2>1 DEF Types, Still
  <2>4. FetchWhenStale'
    BY <1>1, <1>2 DEF AccessInv, FetchWhenStale, Stale, Still
  <2> QED
    BY <1>2, <2>1, <2>2, <2>3, <2>4 DEF AccessInv, Still, DocsNoted, SeenSince, StoreKnown, ReadyFresh,
       IdsKnown, WaitersAreServed, AnswersPast, GrantIsRecent, Uses

LEMMA CacheReplaced == ASSUME PepAccessAssumption, AccessInv, FetchEnds PROVE AccessInv'
<1>1. Types /\ FetchKnown /\ fetch # None /\ fetch \in Fetching
  BY DEF AccessInv, FetchEnds, Types
<1>2. Still /\ UNCHANGED <<answers, asked, changes, failed>> /\ fetch' = None
  BY DEF FetchEnds, Still, world
<1>3. /\ fetch.access \in SUBSET Pairs /\ fetch.index \in SUBSET Policies /\ fetch.since \in Nat
      /\ fetch.since <= time /\ time \in Nat
      /\ time - fetch.since \in 0..time /\ time - (time - fetch.since) = fetch.since
      /\ fetch.access # None /\ fetch.index # None
  BY <1>1 DEF FetchEnds, Fetching, FetchKnown, Types
<1>4. /\ store' \in Cached /\ store' # None
      /\ store'.fetchedAt = time /\ store'.took = time - fetch.since
      /\ store'.access = fetch.access /\ store'.index = fetch.index
  BY <1>3 DEF FetchEnds, Cached, PepAccessAssumption
<1>5. \A h \in Handlers :
        IF Uses(h) THEN request'[h] = [request[h] EXCEPT !.ready = TRUE] ELSE request'[h] = request[h]
  BY DEF FetchEnds, Uses
<1>6. \A h \in Handlers : Uses(h) => request[h] \in Asked
  BY <1>1 DEF Types, Uses
<1>7. request' \in [Handlers -> Asked \cup {None}]
  <2>1. \A r \in Asked : [r EXCEPT !.ready = TRUE] \in Asked
    BY DEF Asked
  <2>2. \A h \in Handlers : request'[h] \in Asked \cup {None}
    BY <1>1, <1>5, <1>6, <2>1 DEF Types
  <2>3. request' = [h \in Handlers |-> request'[h]]
    BY DEF FetchEnds
  <2> QED
    BY <2>2, <2>3
<1>8. Types' /\ DocsNoted'
  BY <1>1, <1>2, <1>4, <1>7 DEF Types, Still, AccessInv, DocsNoted, SeenSince
<1>9. StoreKnown'
  <2>1. /\ \A g \in fetch.access : AtLeast(last.access[g], fetch.since)
        /\ \A p \in fetch.index : AtLeast(last.index[p], fetch.since)
    BY <1>1, <1>3 DEF FetchKnown, SeenRead
  <2>2. /\ \A g \in fetch.access : AtLeast(last.access[g], time - (time - fetch.since))
        /\ \A p \in fetch.index : AtLeast(last.index[p], time - (time - fetch.since))
    BY <1>3, <2>1
  <2> QED
    BY <1>2, <1>3, <1>4, <2>2 DEF StoreKnown, SeenSince, Still
<1>10. ASSUME NEW h \in Handlers, Uses(h)'
       PROVE  /\ Uses(h) /\ request'[h].ready
              /\ request'[h].kind = request[h].kind /\ request'[h].index = request[h].index
  <2>1. Uses(h)
    BY <1>5, <1>10 DEF Uses
  <2> QED
    BY <2>1, <1>5, <1>6 DEF Asked
<1>11. ReadyFresh'
  BY <1>2, <1>3, <1>4 DEF ReadyFresh, Still, PepAccessAssumption
<1>12. IdsKnown'
  <2>1. ASSUME NEW h \in Handlers, Uses(h), request[h].kind = "ids" PROVE FALSE
    <3>1. request[h].ready /\ store # None /\ time - store.fetchedAt <= Ttl /\ Stale
      BY <1>1, <2>1 DEF AccessInv, IdsKnown, ReadyFresh, FetchWhenStale
    <3>2. store.fetchedAt \in Nat
      BY <1>1, <3>1 DEF Types, Cached
    <3> QED
      BY <1>3, <3>1, <3>2 DEF Stale, PepAccessAssumption
  <2> QED
    BY <1>10, <2>1 DEF IdsKnown
<1>13. WaitersAreServed'
  BY <1>10 DEF WaitersAreServed, Uses
<1> QED
  BY <1>2, <1>8, <1>9, <1>11, <1>12, <1>13 DEF AccessInv, Still, FetchKnown, FetchWhenStale,
     AnswersPast, GrantIsRecent

-----------------------------------------------------------------------------
\* A request r that goes through ensure(): it is ready, or a fetch is under way.
LEMMA Ensured ==
  ASSUME PepAccessAssumption, AccessInv, Still, store' = store,
         NEW h \in Handlers, NEW r \in Asked, r.kind # "ids" \/ ~Stale,
         r.kind = "ids" => r.index = store.index,
         Ensure(h, r)
  PROVE  /\ request' \in [Handlers -> Asked \cup {None}] /\ fetch' \in Fetching \cup {None}
         /\ FetchKnown' /\ FetchWhenStale' /\ ReadyFresh' /\ IdsKnown' /\ WaitersAreServed'
<1> DEFINE q == [r EXCEPT !.ready = ~Stale]
<1>1. /\ Types /\ FetchKnown /\ ReadyFresh /\ IdsKnown /\ WaitersAreServed
      /\ time \in Nat /\ request \in [Handlers -> Asked \cup {None}]
  BY DEF AccessInv, Types
<1>2. Stale \in BOOLEAN
  BY DEF Stale
<1>3. q \in Asked /\ q.kind = r.kind /\ q.index = r.index /\ q.ready = ~Stale
  <2> HIDE DEF Stale
  <2> QED
    BY <1>2 DEF Asked
<1>4. request' = [request EXCEPT ![h] = q]
  BY DEF Ensure
<1> HIDE DEF q
<1>5. /\ request' \in [Handlers -> Asked \cup {None}] /\ request'[h] = q
      /\ \A i \in Handlers : i # h => request'[i] = request[i]
  BY <1>1, <1>3, <1>4
<1>6. /\ NewFetch \in Fetching /\ NewFetch # None /\ NewFetch.since = time
      /\ NewFetch.access = None /\ NewFetch.index = None
  BY <1>1 DEF NewFetch, Fetching, PepAccessAssumption
<1>7. /\ fetch' = IF Stale /\ fetch = None THEN NewFetch ELSE fetch
      /\ FetchWhenStale /\ Stale' = Stale
  BY DEF Ensure, AccessInv, Stale, Still
<1> HIDE DEF Stale, NewFetch
<1>8. fetch' \in Fetching \cup {None} /\ (fetch # None => fetch' = fetch) /\ (Stale => fetch' # None)
  BY <1>1, <1>6, <1>7 DEF Types
<1>9. FetchKnown'
  <2>1. CASE fetch' = fetch
    BY <2>1, <1>1 DEF FetchKnown, Still
  <2>2. CASE fetch' = NewFetch
    BY <2>2, <1>1, <1>6 DEF FetchKnown, Still, SeenRead, PepAccessAssumption
  <2> QED
    BY <2>1, <2>2, <1>7
<1>10. ~Stale => store # None /\ time - store.fetchedAt <= Ttl
  <2>1. store # None => store.fetchedAt \in Nat
    BY <1>1 DEF Types, Cached
  <2> QED
    BY <1>1, <2>1 DEF Stale, PepAccessAssumption
<1>11. ReadyFresh'
  BY <1>1, <1>3, <1>5, <1>10 DEF ReadyFresh, Uses, Still
<1>12. IdsKnown'
  BY <1>1, <1>3, <1>5 DEF IdsKnown, Uses, Still
<1>13. WaitersAreServed'
  BY <1>1, <1>3, <1>5, <1>8 DEF WaitersAreServed
<1>14. FetchWhenStale'
  BY <1>7 DEF FetchWhenStale
<1> QED
  BY <1>5, <1>8, <1>9, <1>11, <1>12, <1>13, <1>14

LEMMA RequestComes ==
  ASSUME PepAccessAssumption, AccessInv, NEW h \in Handlers, Authorize(h) \/ Discover(h)
  PROVE  AccessInv'
<1>1. PICK r \in Asked : Arrive(h, r) /\ r.kind \in {"acl", "index"}
  <2>1. CASE Authorize(h)
    <3>1. PICK c \in Callers, p \in Policies : Arrive(h, Fresh("acl", c, Package[p]))
      BY <2>1 DEF Authorize
    <3>2. Fresh("acl", c, Package[p]) \in Asked /\ Fresh("acl", c, Package[p]).kind = "acl"
      BY DEF Fresh, Asked, PepAccessAssumption
    <3> QED
      BY <3>1, <3>2
  <2>2. CASE Discover(h)
    <3>1. PICK c \in Callers : Arrive(h, Fresh("index", c, None))
      BY <2>2 DEF Discover
    <3>2. Fresh("index", c, None) \in Asked /\ Fresh("index", c, None).kind = "index"
      BY DEF Fresh, Asked
    <3> QED
      BY <3>1, <3>2
  <2> QED
    BY <2>1, <2>2
<1>2. Still /\ UNCHANGED <<store, answers, changes, failed>> /\ Ensure(h, r)
  BY <1>1 DEF Arrive, Still, world
<1>3. /\ request' \in [Handlers -> Asked \cup {None}] /\ fetch' \in Fetching \cup {None}
      /\ FetchKnown' /\ FetchWhenStale' /\ ReadyFresh' /\ IdsKnown' /\ WaitersAreServed'
  BY <1>1, <1>2, Ensured
<1>4. Types'
  BY <1>1, <1>2, <1>3 DEF AccessInv, Types, Still, Arrive
<1> QED
  BY <1>2, <1>3, <1>4 DEF AccessInv, Still, DocsNoted, SeenSince, StoreKnown, AnswersPast, GrantIsRecent

LEMMA IndexFound ==
  ASSUME PepAccessAssumption, AccessInv, NEW h \in Handlers, DiscoverIndex(h) PROVE AccessInv'
<1> DEFINE r == [request[h] EXCEPT !.kind = "ids", !.index = store.index]
<1>1. Types /\ StoreKnown /\ ReadyFresh
  BY DEF AccessInv
<1>2. /\ request[h] \in Asked /\ store \in Cached /\ time - store.fetchedAt <= Ttl /\ store # None
      /\ store.fetchedAt <= time /\ time \in Nat
  BY <1>1 DEF DiscoverIndex, At, ReadyFresh, Uses, Types, StoreKnown
<1>3. store.index \in SUBSET Policies /\ store.fetchedAt \in Nat
  BY <1>2 DEF Cached
<1>4. r \in Asked /\ r.kind = "ids" /\ r.index = store.index
  BY <1>2, <1>3 DEF Asked
<1>5. ~Stale
  BY <1>2, <1>3 DEF Stale, PepAccessAssumption
<1>7. Still /\ UNCHANGED <<store, answers, asked, changes, failed>> /\ Ensure(h, r)
  BY DEF DiscoverIndex, Still, world
<1> HIDE DEF r
<1>8. /\ request' \in [Handlers -> Asked \cup {None}] /\ fetch' \in Fetching \cup {None}
      /\ FetchKnown' /\ FetchWhenStale' /\ ReadyFresh' /\ IdsKnown' /\ WaitersAreServed'
  BY <1>4, <1>5, <1>7, Ensured
<1>9. Types'
  BY <1>1, <1>7, <1>8 DEF Types, Still
<1> QED
  BY <1>7, <1>8, <1>9 DEF AccessInv, Still, DocsNoted, SeenSince, StoreKnown, AnswersPast, GrantIsRecent

-----------------------------------------------------------------------------
Recent(a) ==
  /\ a \in Answers /\ a.at = time
  /\ a.kind # "allow" =>
       /\ AtLeast(last.access[<<a.caller, a.policy>>], a.at - Ttl - a.took)
       /\ AtLeast(last.index[a.policy], a.at - Ttl - a.took)

\* A request ends, or goes on to OPA, with answers that are recent.
LEMMA RequestAnswered ==
  ASSUME AccessInv, Still, UNCHANGED <<store, fetch, asked, changes, failed>>,
         NEW h \in Handlers, NEW r \in Asked \cup {None}, r # None => r.kind = "evaluate",
         request' = [request EXCEPT ![h] = r],
         \A a \in answers' : a \in answers \/ Recent(a)
  PROVE  AccessInv'
<1>1. Types /\ request \in [Handlers -> Asked \cup {None}]
  BY DEF AccessInv, Types
<1>2. /\ request' \in [Handlers -> Asked \cup {None}] /\ request'[h] = r
      /\ \A i \in Handlers : i # h => request'[i] = request[i]
  BY <1>1
<1>3. \A i \in Handlers : Uses(i)' => Uses(i) /\ request'[i] = request[i]
  BY <1>2 DEF Uses
<1>4. ReadyFresh' /\ IdsKnown' /\ WaitersAreServed'
  BY <1>3 DEF AccessInv, ReadyFresh, IdsKnown, WaitersAreServed, Uses, Still
<1>5. answers' \in SUBSET Answers
  BY <1>1 DEF Types, Recent
<1>6. Types'
  BY <1>1, <1>2, <1>5 DEF Types, Still
<1>7. AnswersPast'
  <2>1. \A a \in answers : a.at <= time
    BY DEF AccessInv, AnswersPast
  <2>2. \A a \in answers' : a.at <= time
    <3>1. time <= time
      BY <1>1 DEF Types
    <3> QED
      BY <2>1, <3>1, Zenon DEF Recent
  <2> QED
    BY <2>2 DEF AnswersPast, Still
<1>8. GrantIsRecent'
  BY DEF AccessInv, GrantIsRecent, Recent, Still
<1> QED
  BY <1>4, <1>6, <1>7, <1>8 DEF AccessInv, Still, DocsNoted, SeenSince, FetchKnown, StoreKnown,
     FetchWhenStale, Stale

\* The last policy with a package is one with it, in the list.
LEMMA LastOfPackage ==
  ASSUME PepAccessAssumption, NEW S \in SUBSET Policies, NEW pkg, Resolved(pkg, S) # {}
  PROVE  Max(Resolved(pkg, S)) \in S
<1>1. Resolved(pkg, S) \in (SUBSET Policies) \ {{}} /\ Resolved(pkg, S) \subseteq S
  BY DEF Resolved
<1>2. \E p \in Resolved(pkg, S) : \A q \in Resolved(pkg, S) : p >= q
  BY <1>1 DEF PepAccessAssumption
<1>3. Max(Resolved(pkg, S)) \in Resolved(pkg, S)
  BY <1>2 DEF Max
<1> QED
  BY <1>1, <1>3

\* What a request that is ready finds in the cache was in the documents recently.
LEMMA FoundIsRecent ==
  ASSUME PepAccessAssumption, AccessInv, NEW h \in Handlers, Uses(h), request[h].ready
  PROVE  /\ store # None /\ store.took \in Nat /\ store.access \in SUBSET Pairs /\ store.index \in SUBSET Policies
         /\ \A g \in store.access : AtLeast(last.access[g], time - Ttl - store.took)
         /\ \A p \in store.index : AtLeast(last.index[p], time - Ttl - store.took)
<1>1. /\ store # None /\ store \in Cached /\ time - store.fetchedAt <= Ttl /\ time \in Nat
      /\ SeenSince(store, store.fetchedAt - store.took)
  BY DEF AccessInv, Types, ReadyFresh, StoreKnown
<1>2. /\ store.access \in SUBSET Pairs /\ store.index \in SUBSET Policies /\ store.fetchedAt \in Nat
      /\ store.took \in Nat
      /\ \A g \in store.access : AtLeast(last.access[g], store.fetchedAt - store.took)
      /\ \A p \in store.index : AtLeast(last.index[p], store.fetchedAt - store.took)
  BY <1>1 DEF Cached, SeenSince
<1> QED
  BY <1>1, <1>2 DEF AtLeast, PepAccessAssumption

LEMMA GateAnswers ==
  ASSUME PepAccessAssumption, AccessInv, NEW h \in Handlers, AclGate(h) PROVE AccessInv'
<1> DEFINE r == request[h]
           p == Max(Resolved(r.pkg, store.index))
           a == [caller |-> r.caller, policy |-> p, at |-> time, took |-> store.took, kind |-> "gate"]
<1>1. Types /\ Uses(h) /\ r.ready /\ r \in Asked /\ time \in Nat
  BY DEF AccessInv, AclGate, At, Uses, Types
<1>2. Still /\ UNCHANGED <<store, fetch, asked, changes, failed>>
  BY DEF AclGate, Still, world
<1>3. CASE IsAllowed(r.caller, r.pkg, store)
  <2>1. Resolved(r.pkg, store.index) # {} /\ <<r.caller, p>> \in store.access
    BY <1>3 DEF IsAllowed
  <2>2. p \in store.index /\ p \in Policies
    BY <1>1, <2>1, FoundIsRecent, LastOfPackage
  <2>3. a \in Answers /\ a.at = time /\ a.took = store.took /\ a.caller = r.caller /\ a.policy = p
    BY <1>1, <2>2, FoundIsRecent DEF Answers, Asked
  <2>4. Recent(a)
    BY <1>1, <2>1, <2>2, <2>3, FoundIsRecent DEF Recent
  <2>5. [r EXCEPT !.kind = "evaluate", !.ready = FALSE] \in Asked
        /\ [r EXCEPT !.kind = "evaluate", !.ready = FALSE].kind = "evaluate"
    BY <1>1 DEF Asked
  <2>6. /\ request' = [request EXCEPT ![h] = [r EXCEPT !.kind = "evaluate", !.ready = FALSE]]
        /\ answers' = answers \cup {a}
    BY <1>3 DEF AclGate
  <2> HIDE DEF r, a
  <2> QED
    BY <1>2, <2>4, <2>5, <2>6, RequestAnswered
<1>4. CASE ~IsAllowed(r.caller, r.pkg, store)
  <2>1. request' = [request EXCEPT ![h] = None] /\ answers' = answers
    BY <1>4 DEF AclGate, Done
  <2> QED
    BY <1>2, <2>1, RequestAnswered
<1> QED
  BY <1>3, <1>4

LEMMA CandidatesFound ==
  ASSUME PepAccessAssumption, AccessInv, NEW h \in Handlers, DiscoverIds(h) PROVE AccessInv'
<1> DEFINE r == request[h]
           New == {[caller |-> r.caller, policy |-> p, at |-> time, took |-> store.took,
                  kind |-> "candidate"] :
                     p \in Candidates(r.caller, r.index, store.access)}
<1>1. Types /\ Uses(h) /\ r.kind = "ids" /\ r.ready /\ r.caller \in Callers /\ time \in Nat
  <2>1. request[h] \in Asked
    BY DEF AccessInv, DiscoverIds, At, Types
  <2> QED
    BY <2>1 DEF AccessInv, DiscoverIds, At, Uses, Types, Asked
<1>2. Still /\ UNCHANGED <<store, fetch, asked, changes, failed>>
  BY DEF DiscoverIds, Still, world
<1>3. /\ r.index \in SUBSET Policies
      /\ \A p \in r.index : AtLeast(last.index[p], time - Ttl - store.took)
  BY <1>1, FoundIsRecent DEF AccessInv, IdsKnown
<1>4. ASSUME NEW a \in New PROVE Recent(a)
  <2>1. PICK p \in Candidates(r.caller, r.index, store.access) :
          a = [caller |-> r.caller, policy |-> p, at |-> time, took |-> store.took,
                  kind |-> "candidate"]
    OBVIOUS
  <2>2. p \in r.index /\ p \in Policies /\ <<r.caller, p>> \in store.access
    BY <1>3, <2>1 DEF Candidates
  <2>3. a \in Answers /\ a.at = time /\ a.took = store.took /\ a.caller = r.caller /\ a.policy = p
    BY <1>1, <2>1, <2>2, FoundIsRecent DEF Answers
  <2> QED
    BY <1>1, <1>3, <2>2, <2>3, FoundIsRecent DEF Recent
<1>5. request' = [request EXCEPT ![h] = None] /\ answers' = answers \cup New
  BY DEF DiscoverIds, Done
<1> HIDE DEF New
<1> QED
  BY <1>2, <1>4, <1>5, RequestAnswered

LEMMA OpaDecides ==
  ASSUME PepAccessAssumption, AccessInv, NEW h \in Handlers, Evaluates(h) PROVE AccessInv'
<1> DEFINE r == request[h]
           p == Max(Resolved(r.pkg, docs.index))
           a == [caller |-> r.caller, policy |-> p, at |-> time, took |-> 0, kind |-> "allow"]
<1>1. /\ Types /\ request[h] # None /\ r \in Asked /\ r.caller \in Callers
      /\ time \in Nat /\ docs.index \in SUBSET Policies
  <2>1. request[h] \in Asked
    BY DEF AccessInv, Evaluates, Evaluate, EvaluateDenies, Types
  <2> QED
    BY <2>1 DEF AccessInv, Evaluates, Evaluate, EvaluateDenies, Types, Asked, Docs
<1>2. /\ Still /\ UNCHANGED <<store, fetch, asked, changes, failed>>
      /\ request' = [request EXCEPT ![h] = None]
  BY DEF Evaluates, Evaluate, EvaluateDenies, Still, world, Done
<1>3. CASE answers' = answers
  BY <1>2, <1>3, RequestAnswered
<1>4. CASE Resolved(r.pkg, docs.index) # {} /\ answers' = answers \cup {a}
  <2>1. p \in Policies
    BY <1>1, <1>4, LastOfPackage
  <2>2. Recent(a)
    BY <1>1, <2>1 DEF Recent, Answers
  <2> HIDE DEF a
  <2> QED
    BY <1>2, <1>4, <2>2, RequestAnswered
<1> QED
  BY <1>3, <1>4 DEF Evaluates, Evaluate, EvaluateDenies

-----------------------------------------------------------------------------
LEMMA AccessInvStep ==
  ASSUME PepAccessAssumption, AccessInv, [Next]_vars PROVE AccessInv'
<1>1. CASE DocsChange
  BY <1>1, DocsMove
<1>2. CASE \E h \in Handlers : Authorize(h) \/ Discover(h) \/ Goes(h) \/ Evaluates(h)
  <2>1. PICK h \in Handlers : Authorize(h) \/ Discover(h) \/ Goes(h) \/ Evaluates(h)
    BY <1>2, Zenon
  <2> QED
    BY <2>1, RequestComes, GateAnswers, IndexFound, CandidatesFound, OpaDecides DEF Goes
<1>3. CASE OpaReads("access") \/ OpaReads("index")
  BY <1>3, OpaAnswers
<1>4. CASE FetchEnds
  BY <1>4, CacheReplaced
<1>5. CASE TimePasses
  BY <1>5, TimeMoves
<1>6. CASE UNCHANGED vars
  BY <1>6 DEF vars, AccessInv, Types, DocsNoted, SeenSince, FetchKnown, StoreKnown, ReadyFresh, Uses,
     IdsKnown, WaitersAreServed, AnswersPast, GrantIsRecent, FetchWhenStale, Stale
<1> QED
  BY <1>1, <1>2, <1>3, <1>4, <1>5, <1>6 DEF Next

\* The invariant of the PEP's access cache.
THEOREM AccessHolds == ASSUME PepAccessAssumption PROVE Spec => []AccessInv
<1>1. Init => AccessInv
  BY FirstNotes
<1>2. AccessInv /\ [Next]_vars => AccessInv'
  BY AccessInvStep
<1> QED
  BY <1>1, <1>2, PTL DEF Spec

\* Whatever passes the gate or is offered was granted within the TTL and the time the
\* fetch of the documents took, for any policies, callers, timeouts and failures of
\* OPA.  That time is the one of the very fetch, and has no bound in the code.
THEOREM AccessGrantIsRecent == ASSUME PepAccessAssumption PROVE Spec => []GrantIsRecent
<1>1. AccessInv => GrantIsRecent
  BY DEF AccessInv
<1> QED
  BY <1>1, AccessHolds, PTL

\* A request waits only for a fetch that is under way.
THEOREM AccessWaitersAreServed == ASSUME PepAccessAssumption PROVE Spec => []WaitersAreServed
<1>1. AccessInv => WaitersAreServed
  BY DEF AccessInv
<1> QED
  BY <1>1, AccessHolds, PTL

-----------------------------------------------------------------------------
(* The shape of the state.                                                 *)

\* A request that waits for OPA to evaluate does not wait for the cache.
Bounded ==
  /\ time <= MaxTime
  /\ \A h \in Handlers : request[h] # None /\ request[h].kind = "evaluate" => ~request[h].ready

LEMMA FirstBounded == ASSUME PepAccessAssumption, Init PROVE Bounded
BY DEF PepAccessAssumption, Init, Bounded

LEMMA BoundedStep ==
  ASSUME PepAccessAssumption, AccessInv, Bounded, [Next]_vars PROVE Bounded'
<1>0. request \in [Handlers -> Asked \cup {None}]
  BY DEF AccessInv, Types
<1>1. CASE TimePasses
  BY <1>1 DEF TimePasses, Bounded, PepAccessAssumption, AccessInv, Types
<1>2. ASSUME NEW h \in Handlers, Done(h), UNCHANGED time PROVE Bounded'
  BY <1>0, <1>2 DEF Done, Bounded
<1>3. ASSUME NEW h \in Handlers, NEW kind \in {"acl", "index"}, NEW c, NEW pkg,
             Arrive(h, Fresh(kind, c, pkg))
      PROVE  Bounded'
  <2> DEFINE new == [Fresh(kind, c, pkg) EXCEPT !.ready = ~Stale]
  <2>1. new.kind = kind
    BY DEF Fresh
  <2>2. request' = [request EXCEPT ![h] = new] /\ UNCHANGED time
    BY <1>3 DEF Arrive, Ensure
  <2> HIDE DEF new
  <2> QED BY <1>0, <2>1, <2>2 DEF Bounded
<1>4. ASSUME NEW h \in Handlers, Authorize(h) \/ Discover(h) PROVE Bounded'
  BY <1>3, <1>4 DEF Authorize, Discover
<1>5. ASSUME NEW h \in Handlers, AclGate(h) PROVE Bounded'
  <2>1. CASE Done(h)
    BY <1>2, <1>5, <2>1 DEF AclGate
  <2>2. CASE request' = [request EXCEPT ![h] = [request[h] EXCEPT !.kind = "evaluate", !.ready = FALSE]]
    <3> DEFINE new == [request[h] EXCEPT !.kind = "evaluate", !.ready = FALSE]
    <3>1. request[h] \in Asked
      BY <1>0, <1>5 DEF AclGate, At
    <3>2. ~new.ready
      BY <3>1 DEF Asked
    <3>3. request' = [request EXCEPT ![h] = new] /\ UNCHANGED time
      BY <1>5, <2>2 DEF AclGate
    <3> HIDE DEF new
    <3> QED BY <1>0, <3>2, <3>3 DEF Bounded
  <2> QED BY <1>5, <2>1, <2>2 DEF AclGate
<1>6. ASSUME NEW h \in Handlers, DiscoverIndex(h) PROVE Bounded'
  <2> DEFINE new == [[request[h] EXCEPT !.kind = "ids", !.index = store.index] EXCEPT !.ready = ~Stale]
  <2>1. request[h] \in Asked
    BY <1>0, <1>6 DEF DiscoverIndex, At
  <2>2. new.kind = "ids"
    BY <2>1 DEF Asked
  <2>3. request' = [request EXCEPT ![h] = new] /\ UNCHANGED time
    BY <1>6 DEF DiscoverIndex, Ensure
  <2> HIDE DEF new
  <2> QED BY <1>0, <2>2, <2>3 DEF Bounded
<1>7. ASSUME NEW h \in Handlers, DiscoverIds(h) \/ Evaluates(h) PROVE Bounded'
  BY <1>2, <1>7 DEF DiscoverIds, Evaluates, Evaluate, EvaluateDenies
<1>8. CASE FetchEnds
  <2>1. ASSUME NEW h \in Handlers, request[h] # None, request[h].kind # "evaluate"
        PROVE  request'[h].kind = request[h].kind
    BY <1>0, <1>8, <2>1 DEF FetchEnds, Asked
  <2> QED BY <1>8, <2>1 DEF FetchEnds, Bounded
<1>9. CASE DocsChange \/ OpaReads("access") \/ OpaReads("index") \/ UNCHANGED vars
  BY <1>9 DEF DocsChange, OpaReads, vars, Bounded
<1> QED BY <1>1, <1>4, <1>5, <1>6, <1>7, <1>8, <1>9 DEF Next, Goes

\* A request goes on only with a cache there is, that was filled before.
THEOREM AccessTypeCorrect == ASSUME PepAccessAssumption PROVE Spec => []TypeOK
<1>1. Init => Bounded
  BY FirstBounded
<1>2. AccessInv /\ Bounded /\ [Next]_vars => Bounded'
  BY BoundedStep
<1>3. AccessInv /\ Bounded => TypeOK
  <2> SUFFICES ASSUME AccessInv, Bounded PROVE TypeOK
    OBVIOUS
  <2>1. time \in 0..MaxTime /\ docs \in [access : SUBSET Pairs, index : SUBSET Policies]
        /\ {asked, changes, failed} \subseteq Nat
    BY DEF AccessInv, Types, Docs, Bounded, PepAccessAssumption
  <2>2. store = None \/ store \in [fetchedAt : 0..MaxTime, took : 0..MaxTime, access : SUBSET Pairs,
                                   index : SUBSET Policies]
    <3> SUFFICES ASSUME store # None PROVE store \in [fetchedAt : 0..MaxTime, took : 0..MaxTime, access : SUBSET Pairs,
                                                     index : SUBSET Policies]
      OBVIOUS
    <3>1. store \in Cached /\ store.fetchedAt <= time /\ store.took <= store.fetchedAt
      BY DEF AccessInv, Types, StoreKnown
    <3>2. store.fetchedAt \in Nat /\ store.took \in Nat
      BY <3>1 DEF Cached
    <3>3. store.fetchedAt \in 0..MaxTime /\ store.took \in 0..MaxTime
      BY <2>1, <3>1, <3>2 DEF PepAccessAssumption
    <3> QED BY <3>1, <3>3 DEF Cached
  <2>3. ASSUME NEW h \in Handlers, request[h] # None
        PROVE  /\ request[h].kind \in {"acl", "evaluate", "index", "ids"}
               /\ request[h].ready => store # None
    BY <2>3 DEF AccessInv, Types, Asked, ReadyFresh, Uses, Bounded
  <2> QED BY <2>1, <2>2, <2>3 DEF TypeOK
<1> QED BY <1>1, <1>2, <1>3, AccessHolds, PTL DEF Spec
=============================================================================
