---------------------------- MODULE PoolAndLock ----------------------------
(***************************************************************************)
(* The connection pool of storage.js and the advisory lock of withAudit(), *)
(* which every request of the backend shares: what a request holds while   *)
(* it waits for the next thing.  pg.Pool serves its waiters in order and   *)
(* has no timeout, PostgreSQL serves a lock in order as well.              *)
(***************************************************************************)
EXTENDS Integers, Sequences, FiniteSets, SequencesExt, Functions

CONSTANTS
  Jobs,        \* requests and background writes in flight
  Connections, \* those the pool may open (10 by default)
  None,        \* no job
  MaxRollbacks \* bound on transactions that fail

PoolAssumption == Connections # {} /\ None \notin Jobs /\ MaxRollbacks \in Nat

\* read: a GET.  session: _runWriteSession().  write: a route that calls
\* withAudit().  refresh: POST /api/trust-keys/:kid/refresh.
Kinds == {"read", "session", "write", "refresh"}
Audited == {"write", "refresh"}

VARIABLES
  kind,      \* what each job is
  stage,     \* where it is: "query" is a statement on a connection of its own
  inner,     \* what a refresh has still to do inside its transaction
  waiting,   \* the queue of the pool
  holder,    \* the job that has each connection
  line,      \* the queue of the advisory lock; its head holds the lock
  rollbacks

plVars == <<kind, stage, inner, waiting, holder, line, rollbacks>>

Init ==
  /\ kind = [j \in Jobs |-> "read"]
  /\ stage = [j \in Jobs |-> "idle"]
  /\ inner = [j \in Jobs |-> 0]
  /\ waiting = << >>
  /\ holder = [k \in Connections |-> None]
  /\ line = << >>
  /\ rollbacks = 0

Free(k) == holder[k] = None
Holds(j) == \E k \in Connections : holder[k] = j

Waits(j) == Contains(waiting, j)
At(j, s) == stage[j] = s /\ ~Waits(j)
To(j, s) == stage' = [stage EXCEPT ![j] = s]

\* pool.connect(), also that of pool.query(): the job joins the queue.
Connects(j) == waiting' = Append(waiting, j)
Releases(j) == \E k \in Connections : holder[k] = j /\ holder' = [holder EXCEPT ![k] = None]

-----------------------------------------------------------------------------
Arrive(j, k) ==
  /\ stage[j] = "idle"
  /\ kind' = [kind EXCEPT ![j] = k]
  /\ inner' = [inner EXCEPT ![j] = IF k = "refresh" THEN 3 ELSE 0]
  /\ To(j, "checks")
  /\ Connects(j)
  /\ UNCHANGED <<holder, line, rollbacks>>

Connected ==
  /\ waiting # << >>
  /\ \E k \in Connections : Free(k) /\ holder' = [holder EXCEPT ![k] = Head(waiting)]
  /\ waiting' = Tail(waiting)
  /\ UNCHANGED <<kind, stage, inner, line, rollbacks>>

\* A read ends here; a route that passed its checks calls withAudit().
ChecksEnd(j) ==
  /\ At(j, "checks")
  /\ Releases(j)
  /\ IF kind[j] \in Audited
     THEN To(j, "begin") /\ Connects(j)
     ELSE To(j, "idle") /\ UNCHANGED waiting
  /\ UNCHANGED <<kind, inner, line, rollbacks>>

\* BEGIN, and pg_advisory_xact_lock() on the connection that is held.
Begin(j) ==
  /\ At(j, "begin")
  /\ To(j, "transaction")
  /\ line' = Append(line, j)
  /\ UNCHANGED <<kind, inner, waiting, holder, rollbacks>>

Locked(j) == line # << >> /\ Head(line) = j

\* refreshOne() and the read after it go to the pool from inside the
\* transaction: getTrustKey(), touchTrustKeyJwks() after the fetch, getTrustKey().
CallsPool(j) ==
  /\ At(j, "transaction") /\ Locked(j) /\ inner[j] > 0
  /\ To(j, "inner")
  /\ Connects(j)
  /\ UNCHANGED <<kind, inner, holder, line, rollbacks>>

InnerEnds(j) ==
  /\ At(j, "inner")
  /\ Releases(j)
  /\ inner' = [inner EXCEPT ![j] = @ - 1]
  /\ To(j, "transaction")
  /\ UNCHANGED <<kind, waiting, line, rollbacks>>

\* COMMIT frees the lock, the finally block the connection; the answer is read back.
Commits(j) ==
  /\ At(j, "transaction") /\ Locked(j) /\ inner[j] = 0
  /\ Releases(j)
  /\ line' = Tail(line)
  /\ To(j, "readback")
  /\ Connects(j)
  /\ UNCHANGED <<kind, inner, rollbacks>>

ReadBackEnds(j) ==
  /\ At(j, "readback")
  /\ Releases(j)
  /\ To(j, "idle")
  /\ UNCHANGED <<kind, inner, waiting, line, rollbacks>>

\* Mutant: without the finally block a failed transaction keeps its connection.
RollsBack_KeepsConnection(j) ==
  /\ At(j, "transaction") /\ Locked(j) /\ rollbacks < MaxRollbacks
  /\ rollbacks' = rollbacks + 1
  /\ line' = Tail(line)
  /\ To(j, "idle")
  /\ UNCHANGED <<kind, inner, waiting, holder>>

\* The mutation, the signing or the COMMIT throws: ROLLBACK and release.
RollsBack(j) ==
  /\ At(j, "transaction") /\ Locked(j) /\ rollbacks < MaxRollbacks
  /\ rollbacks' = rollbacks + 1
  /\ Releases(j)
  /\ line' = Tail(line)
  /\ To(j, "idle")
  /\ UNCHANGED <<kind, inner, waiting>>

Proceeds(j) ==
  \/ ChecksEnd(j) \/ Begin(j) \/ CallsPool(j) \/ InnerEnds(j) \/ Commits(j) \/ ReadBackEnds(j)

Next ==
  \/ \E j \in Jobs : (\E k \in Kinds : Arrive(j, k)) \/ Proceeds(j) \/ RollsBack(j)
  \/ Connected

Spec == Init /\ [][Next]_plVars

-----------------------------------------------------------------------------
TypeOK ==
  /\ kind \in [Jobs -> Kinds]
  /\ stage \in [Jobs -> {"idle", "checks", "begin", "transaction", "inner", "readback"}]
  /\ inner \in [Jobs -> 0..3]
  /\ waiting \in Seq(Jobs) /\ IsInjective(waiting)
  /\ holder \in [Connections -> Jobs \cup {None}]
  /\ line \in Seq(Jobs) /\ IsInjective(line)
  /\ rollbacks \in 0..MaxRollbacks

\* The guards of Connected and of Proceeds: a free connection, its own, the lock.
MayConnect == waiting # << >> /\ \E k \in Connections : Free(k)
MayProceed(j) ==
  /\ stage[j] # "idle" /\ Holds(j) /\ ~Waits(j)
  /\ stage[j] = "transaction" => Locked(j)

\* The refresh that has the lock waits for a connection, and all of them are held
\* by transactions that wait for the lock.
Exhausted ==
  /\ line # << >> /\ stage[Head(line)] = "inner" /\ Waits(Head(line))
  /\ \A k \in Connections : holder[k] \in Range(line)

\* Whenever requests wait, one of them can go on, unless the backend is Exhausted:
\* no other order of waiting for the pool and for the lock blocks the requests,
\* whatever fails.
NobodyIsStuck ==
  (\E j \in Jobs : stage[j] # "idle") =>
    Exhausted \/ MayConnect \/ \E j \in Jobs : MayProceed(j)
=============================================================================
