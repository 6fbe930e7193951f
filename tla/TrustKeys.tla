----------------------------- MODULE TrustKeys -----------------------------
(***************************************************************************)
(* The keys policies verify with: the routes of trustKeys.js over the      *)
(* table policy_trust_keys, and jwksFetcher.js, which refreshes the rows   *)
(* of kind jwks_url from their URL.  A refresh reads a row, waits for the  *)
(* URL and then writes by kid, outside the audit lock: the row may have    *)
(* been edited, revoked, or deleted and created anew meanwhile.            *)
(***************************************************************************)
EXTENDS Integers, FiniteSets

CONSTANTS
  Kids,
  Urls,
  Operators,      \* administrators' requests being handled at once
  None,           \* no row, no material, no request
  MaxEdits,       \* bound on administrators' changes
  MaxRotations,   \* bound on the changes of what the URLs serve
  MaxFetchFaults  \* bound on fetches that fail and on crashes

TrustKeysAssumption == {MaxEdits, MaxRotations, MaxFetchFaults} \subseteq Nat

VARIABLES
  keys,      \* table policy_trust_keys
  served,    \* what each URL serves now
  fetching,  \* refreshOne() under way: by the ticker and by each operator
  asking,    \* requests of administrators, between their reads and their writes
  edits, rotations, fetchFaults

tkVars == <<keys, served, fetching, asking, edits, rotations, fetchFaults>>
tkCounts == <<edits, rotations, fetchFaults>>

Ticker == "ticker"
Workers == Operators \cup {Ticker}

\* Material: what an administrator sent, or what a URL served at some time.
Sent == <<"sent", 0>>
Materials == {Sent} \cup (Urls \X (0..MaxRotations))

Inline(mat) == [kind |-> "inline", url |-> None, mat |-> mat, status |-> "active", due |-> FALSE]
JwksUrl(url) == [kind |-> "jwks_url", url |-> url, mat |-> None, status |-> "active", due |-> TRUE]

Exists(k) == keys[k] # None

Init ==
  /\ keys = [k \in Kids |-> None]
  /\ served = [u \in Urls |-> <<u, 0>>]
  /\ fetching = [w \in Workers |-> None]
  /\ asking = [o \in Operators |-> None]
  /\ edits = 0 /\ rotations = 0 /\ fetchFaults = 0

-----------------------------------------------------------------------------
(* refreshOne()                                                            *)

Fetch(kid, url) == [kid |-> kid, url |-> url, got |-> None]

\* Mutant: by kid alone.
TouchTrustKeyJwks_AnyKind(k, mat) ==
  IF Exists(k)
  THEN keys' = [keys EXCEPT ![k].mat = mat, ![k].due = FALSE]
  ELSE UNCHANGED keys

\* touchTrustKeyJwks(): by kid and source_kind, whatever the status and the
\* URL of the row are now.
TouchTrustKeyJwks(k, mat) ==
  IF Exists(k) /\ keys[k].kind = "jwks_url"
  THEN keys' = [keys EXCEPT ![k].mat = mat, ![k].due = FALSE]
  ELSE UNCHANGED keys

\* recordTrustKeyJwksError(): the last good material stays.
RecordTrustKeyJwksError(k) ==
  IF Exists(k) /\ keys[k].kind = "jwks_url"
  THEN keys' = [keys EXCEPT ![k].due = FALSE]
  ELSE UNCHANGED keys

\* Mutant: a row that has material is not fetched again.
Tick_OnlyEmpty(k) ==
  /\ fetching[Ticker] = None
  /\ Exists(k) /\ keys[k].kind = "jwks_url" /\ keys[k].status = "active" /\ keys[k].mat = None
  /\ fetching' = [fetching EXCEPT ![Ticker] = Fetch(k, keys[k].url)]
  /\ UNCHANGED <<keys, served, asking, tkCounts>>

\* The poller: an active row whose TTL ran out, read again before the fetch.
Tick(k) ==
  /\ fetching[Ticker] = None
  /\ Exists(k) /\ keys[k].kind = "jwks_url" /\ keys[k].status = "active" /\ keys[k].due
  /\ fetching' = [fetching EXCEPT ![Ticker] = Fetch(k, keys[k].url)]
  /\ UNCHANGED <<keys, served, asking, tkCounts>>

\* fetchJwksEntry(): what the URL serves when it is read.
Served(w) ==
  /\ fetching[w] # None /\ fetching[w].got = None
  /\ fetching' = [fetching EXCEPT ![w].got = served[fetching[w].url]]
  /\ UNCHANGED <<keys, served, asking, tkCounts>>

\* The operator whose request waited for the fetch is answered.
Release(w) ==
  /\ fetching' = [fetching EXCEPT ![w] = None]
  /\ asking' = [o \in Operators |-> IF o = w THEN None ELSE asking[o]]

FetchWrites(w) ==
  /\ fetching[w] # None /\ fetching[w].got # None
  /\ TouchTrustKeyJwks(fetching[w].kid, fetching[w].got)
  /\ Release(w)
  /\ UNCHANGED <<served, tkCounts>>

\* The URL does not answer, or with no such kid, or with a key of another type.
FetchFails(w) ==
  /\ fetching[w] # None /\ fetchFaults < MaxFetchFaults
  /\ RecordTrustKeyJwksError(fetching[w].kid)
  /\ fetchFaults' = fetchFaults + 1
  /\ Release(w)
  /\ UNCHANGED <<served, edits, rotations>>

\* A TTL runs out.
Expires(k) ==
  /\ Exists(k) /\ keys[k].kind = "jwks_url" /\ ~keys[k].due
  /\ keys' = [keys EXCEPT ![k].due = TRUE]
  /\ UNCHANGED <<served, fetching, asking, tkCounts>>

\* The owner of a URL changes its key.
Rotates(u) ==
  /\ rotations < MaxRotations
  /\ rotations' = rotations + 1
  /\ served' = [served EXCEPT ![u] = <<u, rotations + 1>>]
  /\ UNCHANGED <<keys, fetching, asking, edits, fetchFaults>>

-----------------------------------------------------------------------------
(* The routes: what they check, and later what they write in a transaction. *)

Ask(o, k, op, arg) ==
  /\ asking[o] = None /\ fetching[o] = None /\ edits < MaxEdits
  /\ edits' = edits + 1
  /\ asking' = [asking EXCEPT ![o] = [kid |-> k, op |-> op, arg |-> arg]]
  /\ UNCHANGED <<keys, served, fetching, rotations, fetchFaults>>

\* POST: no row has the kid.
AskCreate(o) ==
  \E k \in Kids : ~Exists(k) /\
    \/ Ask(o, k, "createInline", None)
    \/ \E u \in Urls : Ask(o, k, "createUrl", u)

\* PUT: a row that is not revoked; what may be patched depends on its kind.
AskUpdate(o) ==
  \E k \in Kids : Exists(k) /\ keys[k].status = "active" /\
    \/ keys[k].kind = "inline" /\ Ask(o, k, "patchMaterial", None)
    \/ keys[k].kind = "jwks_url" /\ \E u \in Urls : Ask(o, k, "patchUrl", u)

AskRevoke(o) ==
  \E k \in Kids : Exists(k) /\ keys[k].status = "active" /\ Ask(o, k, "revoke", None)

\* POST /refresh: an active jwks_url row.
AskRefresh(o) ==
  \E k \in Kids : Exists(k) /\ keys[k].kind = "jwks_url" /\ keys[k].status = "active"
                  /\ Ask(o, k, "refresh", None)

Asked(o, op) == asking[o] # None /\ asking[o].op = op /\ fetching[o] = None
Answered(o) == asking' = [asking EXCEPT ![o] = None] /\ UNCHANGED fetching

\* refreshOne() reads the row for itself; only a jwks_url row is fetched.
Refresh(o, k, rows) ==
  IF rows[k] # None /\ rows[k].kind = "jwks_url"
  THEN fetching' = [fetching EXCEPT ![o] = Fetch(k, rows[k].url)] /\ UNCHANGED asking
  ELSE Answered(o)

\* createTrustKeyTx(): the primary key refuses a second row.
Create(o) ==
  LET k == asking[o].kid IN
  /\ Asked(o, "createInline") \/ Asked(o, "createUrl")
  /\ IF Exists(k) THEN Answered(o) /\ UNCHANGED keys
     ELSE /\ keys' = [keys EXCEPT ![k] = IF asking[o].op = "createInline" THEN Inline(Sent)
                                         ELSE JwksUrl(asking[o].arg)]
          /\ Refresh(o, k, keys')
  /\ UNCHANGED <<served, tkCounts>>

\* updateTrustKeyTx(): the patch, on whatever row has the kid by then.
Update(o) ==
  LET k == asking[o].kid IN
  /\ \/ /\ Asked(o, "patchMaterial")
        /\ keys' = IF Exists(k) THEN [keys EXCEPT ![k].mat = Sent] ELSE keys
        /\ Answered(o)
     \/ /\ Asked(o, "patchUrl")
        /\ keys' = IF Exists(k) THEN [keys EXCEPT ![k].url = asking[o].arg] ELSE keys
        /\ Refresh(o, k, keys')
  /\ UNCHANGED <<served, tkCounts>>

\* revokeTrustKeyTx()
Revoke(o) ==
  LET k == asking[o].kid IN
  /\ Asked(o, "revoke")
  /\ keys' = IF Exists(k) THEN [keys EXCEPT ![k].status = "revoked"] ELSE keys
  /\ Answered(o)
  /\ UNCHANGED <<served, tkCounts>>

\* The transaction of a refresh waits for refreshOne(), which writes for itself.
RefreshNow(o) ==
  /\ Asked(o, "refresh")
  /\ Refresh(o, asking[o].kid, keys)
  /\ UNCHANGED <<keys, served, tkCounts>>

\* deleteTrustKeyTx(): checked where it is written, only a revoked row goes.
Delete(k) ==
  /\ edits < MaxEdits /\ Exists(k) /\ keys[k].status = "revoked"
  /\ keys' = [keys EXCEPT ![k] = None]
  /\ edits' = edits + 1
  /\ UNCHANGED <<served, fetching, asking, rotations, fetchFaults>>

\* The process dies: what was under way is lost.
Dies ==
  /\ \E w \in Workers : fetching[w] # None
  /\ fetchFaults < MaxFetchFaults
  /\ fetchFaults' = fetchFaults + 1
  /\ fetching' = [w \in Workers |-> None]
  /\ asking' = [o \in Operators |-> None]
  /\ UNCHANGED <<keys, served, edits, rotations>>

Answers(o) == Create(o) \/ Update(o) \/ Revoke(o) \/ RefreshNow(o)

Next ==
  \/ \E o \in Operators : AskCreate(o) \/ AskUpdate(o) \/ AskRevoke(o) \/ AskRefresh(o)
       \/ Answers(o)
  \/ \E k \in Kids : Tick(k) \/ Expires(k) \/ Delete(k)
  \/ \E w \in Workers : Served(w) \/ FetchWrites(w) \/ FetchFails(w)
  \/ \E u \in Urls : Rotates(u)
  \/ Dies

\* The interval fires for ever, TTLs run out, and every request is handled.
Fairness ==
  /\ \A k \in Kids : WF_tkVars(Tick(k)) /\ WF_tkVars(Expires(k))
  /\ \A o \in Operators : WF_tkVars(Answers(o))
  /\ \A w \in Workers : WF_tkVars(Served(w) \/ FetchWrites(w))

Spec == Init /\ [][Next]_tkVars
FairSpec == Spec /\ Fairness

-----------------------------------------------------------------------------
(* The rows and what is under way keep their shape.                        *)
TypeOK ==
  /\ keys \in [Kids -> {None} \cup
       [kind : {"inline", "jwks_url"}, url : Urls \cup {None}, mat : Materials \cup {None},
        status : {"active", "revoked"}, due : BOOLEAN]]
  /\ \A w \in Workers : fetching[w] # None =>
       fetching[w] \in [kid : Kids, url : Urls \cup {None}, got : Materials \cup {None}]
  /\ edits \in 0..MaxEdits /\ rotations \in 0..MaxRotations

(* The key of an inline row is one an administrator sent: a fetch that was *)
(* begun for a jwks_url row of the same kid does not write into it, though *)
(* that row was revoked, deleted and replaced while the URL was slow.      *)
InlineIsSent == \A k \in Kids : Exists(k) /\ keys[k].kind = "inline" => keys[k].mat = Sent

(* Once administrators and the owners of the URLs are done, every active   *)
(* jwks_url row comes to hold what its own URL serves, also when a slow    *)
(* fetch of an earlier URL wrote last.                                     *)
Hydrated ==
  \A k \in Kids : Exists(k) /\ keys[k].kind = "jwks_url" /\ keys[k].status = "active" =>
    keys[k].mat = served[keys[k].url]
RowsHydrate == <>[]Hydrated
=============================================================================
