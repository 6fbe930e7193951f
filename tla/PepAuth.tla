------------------------------ MODULE PepAuth ------------------------------
(***************************************************************************)
(* How the PEP (Aegis Sentry) authenticates a request: the dispatcher of   *)
(* auth/index.js, the hmac, jwt and mtls verifiers, the nonce cache and    *)
(* the cached caller table with its coalesced refreshes.  Time is counted  *)
(* in ticks.  What a credential proves is a field of the request: whether  *)
(* its signature, token or certificate is good.                            *)
(***************************************************************************)
EXTENDS Integers, FiniteSets, FiniteSetsExt

CONSTANTS
  Requests,    \* requests that clients send: [kinds, who, ts, nonce, good]
  Tables,      \* contents OPA may have at data.studio.callers
  Handlers,    \* deliveries of requests being handled at once
  Bootstrap,   \* PEP_ALLOWED_CALLERS
  Configured,  \* the modes whose verifier is wired up
  AllowAnon,   \* PEP_DEV_ALLOW_ANON
  Window,      \* PEP_HMAC_WINDOW_MS
  CallerTtl,   \* PEP_CALLER_TTL_MS
  NonceMax,    \* PEP_NONCE_CACHE_MAX
  None,        \* no cache, no refresh, no delivery
  MaxTime,     \* bound on the clock
  MaxSent,     \* bound on deliveries
  MaxFailures  \* bound on failed fetches

PepAuthAssumption ==
  /\ {Window, CallerTtl, MaxTime, MaxSent, MaxFailures} \subseteq Nat
  /\ NonceMax \in Nat \ {0}
  /\ Configured \subseteq {"hmac", "jwt", "mtls"} /\ AllowAnon \in BOOLEAN
  /\ \A r \in Requests : r.ts \in Int
  /\ None \notin [rows : SUBSET UNION Tables, fetchedAt : Nat, took : Nat]

VARIABLES
  clock,
  table,     \* data.studio.callers in OPA
  listed,    \* history: when each row was last in that table
  cache,     \* callerStore: the rows and fetchedAt; history: how long the fetch took
  refresh,   \* callerStore: inflight
  handler,   \* each delivery: its request, when it was checked, and its state
  nonces,    \* nonceCache: the keys, numbered in the order of their insertion
  admitted,  \* history: the deliveries let through
  evicted,   \* history: a nonce was dropped for want of room
  sent, failures

vars == <<clock, table, listed, cache, refresh, handler, nonces, admitted, evicted, sent,
          failures>>

-----------------------------------------------------------------------------
Abs(n) == IF n < 0 THEN -n ELSE n

InWindow(r) == Abs(clock - r.ts) <= Window

\* Mutant: a cache that was filled once is kept.
CacheStale_Once == cache = None
CacheStale == cache = None \/ clock - cache.fetchedAt > CallerTtl

\* lookup(), findByJwtSubject() and findByAllowedCn(): the rows that a caller id,
\* a jwt subject or a common name may find.  The last one ignores the mode.
Found(mode, who, rows) ==
  CASE mode = "hmac" -> {w \in rows : w.id = who}
    [] mode = "jwt"  -> {w \in rows : w.mode = "jwt" /\ w.name = who}
    [] OTHER         -> {w \in rows : w.name = who}

\* nonceCache: an entry lives for twice the window.
\* Mutant: an entry lives for one window.
Alive_OneWindow(entry) == clock - entry.at <= Window
Alive(entry) == clock - entry.at <= 2 * Window
AliveNonces == {entry \in nonces : Alive(entry)}
NonceSeen(key) == \E entry \in AliveNonces : entry.key = key

\* LRUCache.set(): beyond max the oldest entry goes.
Remembered(key) ==
  AliveNonces \cup {[key |-> key, at |-> clock, no |-> Max({0} \cup {e.no + 1 : e \in nonces})]}
Oldest(entries) == CHOOSE e \in entries : \A f \in entries : e.no <= f.no
Trimmed(entries) ==
  IF Cardinality(entries) > NonceMax THEN entries \ {Oldest(entries)} ELSE entries

Init ==
  /\ clock = 0
  /\ table \in Tables
  /\ listed = [w \in UNION Tables |-> IF w \in table THEN 0 ELSE None]
  /\ cache \in {None, [rows |-> table, fetchedAt |-> 0, took |-> 0]}
  /\ refresh = None
  /\ handler = [h \in Handlers |-> None]
  /\ nonces = {}
  /\ admitted = {}
  /\ evicted = FALSE
  /\ sent = 0
  /\ failures = 0

-----------------------------------------------------------------------------
\* OPA activates a bundle with another caller table.
TableChanges ==
  /\ table' \in Tables \ {table}
  /\ listed' = [w \in DOMAIN listed |->
                  IF w \in table \cup table' THEN clock ELSE listed[w]]
  /\ UNCHANGED <<clock, cache, refresh, handler, nonces, admitted, evicted, sent, failures>>

\* authDispatch() passes the request on only if it presents one credential, of a
\* mode with a verifier; hmac checks the timestamp before anything else.
Dispatched(r) ==
  /\ Cardinality(r.kinds) = 1
  /\ r.kinds \subseteq Configured
  /\ r.kinds = {"hmac"} => InWindow(r)
  /\ r.kinds # {"hmac"} => r.good

\* The caller table is looked up at once, or after a refresh that is joined.
LooksUp(h, r) ==
  /\ handler' = [handler EXCEPT
                   ![h] = [req |-> r, step |-> IF CacheStale THEN "waits" ELSE "ready"]]
  /\ refresh' = IF CacheStale /\ refresh = None
                THEN [since |-> clock, rows |-> None] ELSE refresh

Receive(h, r) ==
  /\ handler[h] = None /\ sent < MaxSent
  /\ sent' = sent + 1
  /\ Dispatched(r)
  /\ LooksUp(h, r)
  /\ UNCHANGED <<clock, table, listed, cache, nonces, admitted, evicted, failures>>

Admission(r, id, row) ==
  [req |-> r, id |-> id, row |-> row, at |-> clock, no |-> Cardinality(admitted),
   took |-> IF row = None THEN 0 ELSE cache.took]

\* 401, or the anonymous caller of a development setup.
Rejected(r) ==
  /\ sent < MaxSent
  /\ sent' = sent + 1
  /\ ~Dispatched(r)
  /\ admitted' = IF r.kinds = {} /\ AllowAnon
                 THEN admitted \cup {Admission(r, "anonymous", None)}
                 ELSE admitted
  /\ UNCHANGED <<clock, table, listed, cache, refresh, handler, nonces, evicted, failures>>

-----------------------------------------------------------------------------
(* refresh(): one fetch for all who wait.  Its timer stops when the headers*)
(* are there, so the body may take any time; fetchedAt is when it is read. *)

Wake == handler' = [h \in Handlers |->
                      IF handler[h] # None /\ handler[h].step = "waits"
                      THEN [handler[h] EXCEPT !.step = "ready"] ELSE handler[h]]

OpaAnswers ==
  /\ refresh # None /\ refresh.rows = None
  /\ refresh' = [refresh EXCEPT !.rows = table]
  /\ UNCHANGED <<clock, table, listed, cache, handler, nonces, admitted, evicted, sent, failures>>

RefreshEnds ==
  /\ refresh # None /\ refresh.rows # None
  /\ cache' = [rows |-> refresh.rows, fetchedAt |-> clock, took |-> clock - refresh.since]
  /\ refresh' = None
  /\ Wake
  /\ UNCHANGED <<clock, table, listed, nonces, admitted, evicted, sent, failures>>

\* A failure keeps the previous rows and their age; without any the table is
\* taken to be empty.
RefreshFails ==
  /\ refresh # None /\ failures < MaxFailures
  /\ failures' = failures + 1
  /\ cache' = IF cache = None THEN [rows |-> {}, fetchedAt |-> clock, took |-> 0] ELSE cache
  /\ refresh' = None
  /\ Wake
  /\ UNCHANGED <<clock, table, listed, nonces, admitted, evicted, sent>>

-----------------------------------------------------------------------------
(* The verifiers, from the lookup on: nothing comes between their steps.   *)

Ready(h, mode) ==
  handler[h] # None /\ handler[h].step = "ready" /\ handler[h].req.kinds = {mode}

Admit(r, id, row) ==
  admitted' = admitted \cup {Admission(r, id, row)}

Answered(h) ==
  /\ handler' = [handler EXCEPT ![h] = None]
  /\ UNCHANGED <<clock, table, listed, cache, refresh, sent, failures>>

\* An unknown caller or one of another mode is refused before its nonce counts.
\* Then the nonce is remembered, and only then the signature verified.
HmacVerdict(h) ==
  LET r == handler[h].req
      rows == Found("hmac", r.who, cache.rows)
      known == rows # {} /\ \A w \in rows : w.mode = "hmac"
      key == <<r.who, r.nonce>>
      fresh == known /\ ~NonceSeen(key)
  IN
  /\ Ready(h, "hmac")
  /\ nonces' = IF fresh THEN Trimmed(Remembered(key)) ELSE nonces
  /\ evicted' = (evicted \/ (fresh /\ Cardinality(Remembered(key)) > NonceMax))
  /\ IF fresh /\ r.good THEN \E w \in rows : Admit(r, w.id, w) ELSE UNCHANGED admitted
  /\ Answered(h)

JwtVerdict(h) ==
  LET r == handler[h].req
      rows == Found("jwt", r.who, cache.rows)
  IN
  /\ Ready(h, "jwt")
  /\ IF rows # {} THEN \E w \in rows : Admit(r, w.id, w) ELSE UNCHANGED admitted
  /\ Answered(h)
  /\ UNCHANGED <<nonces, evicted>>

\* A common name on the bootstrap list needs no row, but a row of another mode
\* refuses it.
MtlsVerdict(h) ==
  LET r == handler[h].req
      rows == Found("mtls", r.who, cache.rows)
  IN
  /\ Ready(h, "mtls")
  /\ \/ \E w \in rows : IF w.mode = "mtls" THEN Admit(r, w.id, w) ELSE UNCHANGED admitted
     \/ /\ rows = {}
        /\ IF r.who \in Bootstrap THEN Admit(r, r.who, None) ELSE UNCHANGED admitted
  /\ Answered(h)
  /\ UNCHANGED <<nonces, evicted>>

\* A handler that can go on does; nothing hurries a fetch.
Tick ==
  /\ clock < MaxTime
  /\ \A h \in Handlers : handler[h] # None => handler[h].step # "ready"
  /\ clock' = clock + 1
  /\ listed' = [w \in DOMAIN listed |-> IF w \in table THEN clock + 1 ELSE listed[w]]
  /\ UNCHANGED <<table, cache, refresh, handler, nonces, admitted, evicted, sent, failures>>

Next ==
  \/ TableChanges
  \/ \E r \in Requests : Rejected(r) \/ \E h \in Handlers : Receive(h, r)
  \/ OpaAnswers \/ RefreshEnds \/ RefreshFails
  \/ \E h \in Handlers : HmacVerdict(h) \/ JwtVerdict(h) \/ MtlsVerdict(h)
  \/ Tick

Spec == Init /\ [][Next]_vars

-----------------------------------------------------------------------------
TypeOK ==
  /\ clock \in 0..MaxTime
  /\ table \in Tables
  /\ cache = None \/ cache \in [rows : Tables \cup {{}}, fetchedAt : 0..MaxTime, took : 0..MaxTime]
  /\ \A h \in Handlers : handler[h] = None \/ handler[h] \in [req : Requests, step : {"waits", "ready"}]
  /\ Cardinality(nonces) <= NonceMax
  /\ {sent, failures} \subseteq Nat

-----------------------------------------------------------------------------
\* nonceCache.js:3-5: "any request still within the validity window cannot be
\* replayed even if it was first seen at the very edge of the window".  A request
\* let through twice had left its window by the time the nonce was checked, its
\* lookup having taken that long, or the nonce was pushed out by others.
NoReplayInWindow ==
  \A a, b \in admitted :
    a.req = b.req /\ a.no < b.no /\ a.req.kinds = {"hmac"} =>
      evicted \/ b.at > a.req.ts + Window

AtLeast(x, t) == x \in Nat /\ x >= t

\* A caller is let through on a row OPA had within the TTL and the time that the
\* fetch of it took, in the mode the row declares; unless a refresh failed, and the
\* old rows live on.  That time has no bound, so the revocation that callerStore.js:5-6
\* has propagate within the TTL takes as long as a body from OPA may.
RowIsRecent ==
  \A a \in admitted : a.row # None /\ failures = 0 =>
    /\ {a.row.mode} = a.req.kinds
    /\ AtLeast(listed[a.row], a.at - CallerTtl - a.took)
=============================================================================
