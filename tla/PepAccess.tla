----------------------------- MODULE PepAccess -----------------------------
(***************************************************************************)
(* What the PEP answers an authenticated caller: /authorize with its gate  *)
(* on the caller's policies and the evaluation in OPA, /discover, the      *)
(* cache of the two documents behind both (accessStore.js) and the         *)
(* timeouts of pdpClient.js.  Time is counted in ticks.                    *)
(***************************************************************************)
EXTENDS Integers, FiniteSets, FiniteSetsExt

CONSTANTS
  Callers,     \* authenticated callers
  CallerOrg,   \* the org_id on the row of each
  Policies,    \* policy ids, numbers in the order of the index
  Package,     \* the package of each
  PolicyOrg,   \* the org_id of each
  NullOrg,     \* org_id null
  Handlers,    \* requests being handled at once
  Ttl,         \* PEP_CALLER_TTL_MS
  None,        \* no cache, no fetch, no request
  MaxTime,     \* bound on the clock
  MaxAsked,     \* bound on requests
  MaxBundles,  \* bound on bundles activated
  MaxFailures  \* bound on fetches that fail

Pairs == Callers \X Policies
Cached == [fetchedAt : Nat, took : Nat, access : SUBSET Pairs, index : SUBSET Policies]
Fetching == [since : Nat, access : (SUBSET Pairs) \cup {None}, index : (SUBSET Policies) \cup {None}]

\* The index is a list: what is in it has a last element.
PepAccessAssumption ==
  /\ Policies \subseteq Nat
  /\ Package \in [Policies -> Nat]
  /\ {Ttl, MaxTime, MaxAsked, MaxBundles, MaxFailures} \subseteq Nat
  /\ \A S \in (SUBSET Policies) \ {{}} : \E p \in S : \A q \in S : p >= q
  /\ None \notin Nat /\ None \notin Cached /\ None \notin Fetching
  /\ \A S \in (SUBSET Pairs) \cup (SUBSET Policies) : S # None

VARIABLES
  time,
  docs,      \* OPA: data.studio.caller_access and data.studio.policy_index
  last,      \* history: when each grant, and each policy, was last in them
  store,     \* accessStore: cache, with fetchedAt; history: how long the fetch took
  fetch,     \* accessStore: inflight, with the documents as they come in
  request,   \* the requests being handled
  answers,   \* history: what was let through, and the candidates returned
  asked, changes, failed

vars == <<time, docs, last, store, fetch, request, answers, asked, changes, failed>>
world == <<docs, last, changes>>

Empty == [access |-> {}, index |-> {}]

-----------------------------------------------------------------------------
\* Mutant: a cache that was filled once is kept.
Stale_Once == store = None
\* Mutant: an age is looked at, and not whether there is a cache.
Stale_Filled == store # None /\ time - store.fetchedAt > Ttl
Stale == store = None \/ time - store.fetchedAt > Ttl

\* byPackage: the last policy of the index with that package.
Resolved(pkg, index) == {p \in index : Package[p] = pkg}

SameOrg(c, p) == CallerOrg[c] = NullOrg \/ PolicyOrg[p] \in {NullOrg, CallerOrg[c]}

\* isAllowed()
IsAllowed(c, pkg, cached) ==
  /\ Resolved(pkg, cached.index) # {}
  /\ LET p == Max(Resolved(pkg, cached.index)) IN
       SameOrg(c, p) /\ <<c, p>> \in cached.access

\* /discover in catalog mode: the index of one lookup, the grants of the next.
Candidates(c, index, access) == {p \in index : SameOrg(c, p) /\ <<c, p>> \in access}

\* What is in the documents d is noted at the time t.
Noted(l, d, t) ==
  [access |-> [g \in Pairs |-> IF g \in d.access THEN t ELSE l.access[g]],
   index |-> [p \in Policies |-> IF p \in d.index THEN t ELSE l.index[p]]]

Init ==
  /\ time = 0
  /\ docs \in {Empty, [access |-> Pairs, index |-> Policies]}
  /\ last = Noted([access |-> [g \in Pairs |-> None], index |-> [p \in Policies |-> None]],
                 docs, 0)
  /\ store = None
  /\ fetch = None
  /\ request = [h \in Handlers |-> None]
  /\ answers = {}
  /\ asked = 0 /\ changes = 0 /\ failed = 0

-----------------------------------------------------------------------------
\* OPA activates a bundle: a grant or a policy comes or goes.
DocsChange ==
  /\ changes < MaxBundles
  /\ changes' = changes + 1
  /\ \/ \E g \in Pairs :
          docs' = [docs EXCEPT !.access = IF g \in @ THEN @ \ {g} ELSE @ \cup {g}]
     \/ \E p \in Policies :
          docs' = [docs EXCEPT !.index = IF p \in @ THEN @ \ {p} ELSE @ \cup {p}]
  /\ last' = Noted(Noted(last, docs, time), docs', time)
  /\ UNCHANGED <<time, store, fetch, request, answers, asked, failed>>

-----------------------------------------------------------------------------
(* ensure(): a fresh cache is used at once; a stale one is refreshed first *)
(* by one fetch of both documents, which every request that needs it joins.*)

NewFetch == [since |-> time, access |-> None, index |-> None]

Ensure(h, r) ==
  /\ request' = [request EXCEPT ![h] = [r EXCEPT !.ready = ~Stale]]
  /\ fetch' = IF Stale /\ fetch = None THEN NewFetch ELSE fetch

\* POST /authorize and POST /discover, once authenticated and well formed.
Arrive(h, r) ==
  /\ request[h] = None /\ asked < MaxAsked
  /\ asked' = asked + 1
  /\ Ensure(h, r)
  /\ UNCHANGED <<time, world, store, answers, failed>>

Fresh(kind, c, pkg) == [kind |-> kind, caller |-> c, pkg |-> pkg, index |-> None, ready |-> FALSE]
Authorize(h) ==
  \E c \in Callers, p \in Policies : Arrive(h, Fresh("acl", c, Package[p]))
Discover(h) == \E c \in Callers : Arrive(h, Fresh("index", c, None))

\* Each document is read when OPA answers its own request; a failed request
\* leaves an empty document, and so does one that times out.  The timer of a request
\* stops at the headers, and nothing bounds the body.
OpaReads(doc) ==
  /\ fetch # None /\ fetch[doc] = None
  /\ \/ fetch' = [fetch EXCEPT ![doc] = docs[doc]] /\ UNCHANGED failed
     \/ /\ failed < MaxFailures
        /\ failed' = failed + 1
        /\ fetch' = [fetch EXCEPT ![doc] = {}]
  /\ UNCHANGED <<time, world, store, request, answers, asked>>

\* Both came in: the cache is replaced, and who waited goes on.
FetchEnds ==
  /\ fetch # None /\ None \notin {fetch.access, fetch.index}
  /\ store' = [fetchedAt |-> time, took |-> time - fetch.since,
               access |-> fetch.access, index |-> fetch.index]
  /\ fetch' = None
  /\ request' = [h \in Handlers |->
                   IF request[h] # None /\ request[h].kind # "evaluate"
                   THEN [request[h] EXCEPT !.ready = TRUE] ELSE request[h]]
  /\ UNCHANGED <<time, world, answers, asked, failed>>

-----------------------------------------------------------------------------
At(h, kind) == request[h] # None /\ request[h].kind = kind /\ request[h].ready
Done(h) == request' = [request EXCEPT ![h] = None]

\* The gate: 403, or on to the evaluation in OPA.
AclGate(h) ==
  LET r == request[h] IN
  /\ At(h, "acl")
  /\ IF IsAllowed(r.caller, r.pkg, store)
     THEN /\ request' = [request EXCEPT ![h] = [r EXCEPT !.kind = "evaluate", !.ready = FALSE]]
          /\ answers' = answers \cup
               {[caller |-> r.caller, policy |-> Max(Resolved(r.pkg, store.index)),
                 at |-> time, took |-> store.took, kind |-> "gate"]}
     ELSE Done(h) /\ UNCHANGED answers
  /\ UNCHANGED <<time, world, store, fetch, asked, failed>>

\* normaliseDecision(): a policy OPA does not have decides nothing, and is denied.
Evaluate(h) ==
  LET r == request[h] IN
  /\ request[h] # None /\ r.kind = "evaluate"
  /\ answers' = IF Resolved(r.pkg, docs.index) # {}
                THEN answers \cup {[caller |-> r.caller, policy |-> Max(Resolved(r.pkg, docs.index)),
                                    at |-> time, took |-> 0, kind |-> "allow"]}
                ELSE answers
  /\ Done(h)
  /\ UNCHANGED <<time, world, store, fetch, asked, failed>>

\* The policy denies, or OPA answers with an error or too late: 200, 502 or 504.
EvaluateDenies(h) ==
  /\ request[h] # None /\ request[h].kind = "evaluate"
  /\ Done(h)
  /\ UNCHANGED <<time, world, store, fetch, answers, asked, failed>>

\* /discover keeps the index it got and looks up the grants.
DiscoverIndex(h) ==
  /\ At(h, "index")
  /\ Ensure(h, [request[h] EXCEPT !.kind = "ids", !.index = store.index])
  /\ UNCHANGED <<time, world, store, answers, asked, failed>>

DiscoverIds(h) ==
  LET r == request[h] IN
  /\ At(h, "ids")
  /\ answers' = answers \cup
       {[caller |-> r.caller, policy |-> p, at |-> time, took |-> store.took,
         kind |-> "candidate"] : p \in Candidates(r.caller, r.index, store.access)}
  /\ Done(h)
  /\ UNCHANGED <<time, world, store, fetch, asked, failed>>

\* A handler that can go on does; nothing hurries a fetch.
TimePasses ==
  /\ time < MaxTime
  /\ \A h \in Handlers : request[h] # None => ~request[h].ready
  /\ time' = time + 1
  /\ last' = Noted(last, docs, time + 1)
  /\ UNCHANGED <<docs, changes, store, fetch, request, answers, asked, failed>>

Goes(h) == AclGate(h) \/ DiscoverIndex(h) \/ DiscoverIds(h)
Evaluates(h) == Evaluate(h) \/ EvaluateDenies(h)

Next ==
  \/ DocsChange
  \/ \E h \in Handlers : Authorize(h) \/ Discover(h) \/ Goes(h) \/ Evaluates(h)
  \/ OpaReads("access") \/ OpaReads("index") \/ FetchEnds
  \/ TimePasses

Spec == Init /\ [][Next]_vars

-----------------------------------------------------------------------------
TypeOK ==
  /\ time \in 0..MaxTime
  /\ docs \in [access : SUBSET Pairs, index : SUBSET Policies]
  /\ store = None \/ store \in [fetchedAt : 0..MaxTime, took : 0..MaxTime, access : SUBSET Pairs,
                                   index : SUBSET Policies]
  /\ \A h \in Handlers : request[h] # None =>
       /\ request[h].kind \in {"acl", "evaluate", "index", "ids"}
       /\ request[h].ready => store # None
  /\ {asked, changes, failed} \subseteq Nat

\* accessStore.js:11-14, "only stale reads, never silent admit": whatever is let
\* through the gate or offered as a candidate was granted, and its policy in the
\* index, within the TTL and the time that the fetch of both took, however long that
\* is, /discover's two look-ups included.  Failed fetches do not stretch the time:
\* they empty the cache.
AtLeast(x, t) == x \in Nat /\ x >= t
GrantIsRecent ==
  \A a \in answers : a.kind # "allow" =>
    /\ AtLeast(last.access[<<a.caller, a.policy>>], a.at - Ttl - a.took)
    /\ AtLeast(last.index[a.policy], a.at - Ttl - a.took)

\* A request waits only for a fetch that is under way, those included that join the
\* fetch of another: no answer of OPA, late or failed, leaves one behind.
WaitersAreServed ==
  \A h \in Handlers :
    request[h] # None /\ request[h].kind # "evaluate" /\ ~request[h].ready => fetch # None
=============================================================================
