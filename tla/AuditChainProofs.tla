-------------------------- MODULE AuditChainProofs --------------------------
(***************************************************************************)
(* Proofs about AuditChain, for every set of replicas, requests and rows   *)
(* and every bound, in the behaviours in which the studio is always Manned *)
(* once the chain has begun: those in which no two deletions of users      *)
(* race.  (In the others, which the run SecondGenesis leads to, a second   *)
(* genesis row is written.)                                                *)
(***************************************************************************)
EXTENDS AuditChain, FiniteSetTheorems, SequenceTheorems, WellFoundedInduction, TLAPS

-----------------------------------------------------------------------------
(* The inductive invariant, in named parts.                                *)

InInit == {"init-sign", "init-commit"}
InBootstrap == {"bootstrap-sign", "bootstrap-commit"}
InTransaction == {"locked", "appended"}

\* What is in flight is of the type its step expects.
InFlightTyped ==
  /\ \A q \in Requests : pc[q] # "idle" => op[q] \in Operation
  /\ \A q \in Requests : pc[q] = "appended" => entry[q] \in LogRow
  /\ \A r \in Replicas :
       boot[r] \in {"init-commit", "bootstrap-commit"} => genesis[r] \in LogRow
  /\ \A r \in Replicas : boot[r] \in InInit \cup InBootstrap => key[r] # NoKey

\* A lock is held by exactly the transactions that took it.
LocksHeld ==
  /\ \A q \in Requests : pc[q] \in InTransaction <=> chainLock = q
  /\ \A r \in Replicas : boot[r] \in InInit <=> chainLock = r
  /\ \A r \in Replicas : boot[r] \in InBootstrap <=> bootLock = r

\* Before the chain begins, nobody is in the studio without the root user;
\* requests start after the chain.
RootFirst ==
  /\ auditLog = {} => (Users # {} <=> data[Root] # Absent)
  /\ \A q \in Requests : pc[q] # "idle" => auditLog # {}

\* A genesis transaction that is open has an empty chain before it: an
\* upgrade found users, a bootstrap found none.
GenesisAlone ==
  /\ \A r \in Replicas : boot[r] \in InInit \cup InBootstrap => auditLog = {}
  /\ \A r \in Replicas : boot[r] \in InInit \cup {"init"} => auditLog # {} \/ Users # {}
  /\ \A r \in Replicas : boot[r] \in InBootstrap => Users = {}

\* Every sequence number in use has been drawn.
SeqsDrawn ==
  /\ \A r \in auditLog : r.seq < nextSeq
  /\ \A q \in Requests : pc[q] = "appended" => entry[q].seq < nextSeq
  /\ \A r \in Replicas :
       boot[r] \in {"init-commit", "bootstrap-commit"} => genesis[r].seq < nextSeq

\* audit_state is the last row of the log.
HeadIsLast ==
  \/ auditLog = {} /\ auditState = NoHead
  \/ \E h \in auditLog :
       /\ h.seq = auditState.seq
       /\ h.hash = auditState.hash
       /\ \A s \in auditLog : s = h \/ s.seq < h.seq

\* The only key that is ever registered is the one of the genesis, and no
\* replica caches another.
OneKey ==
  /\ signingKeys = IF auditLog = {} THEN {} ELSE {1}
  /\ signingKeys = {} => kmsVersion = 1
  /\ \A r \in Replicas : key[r] \in {NoKey, 1}
  /\ \A r \in Replicas : boot[r] \in InInit \cup InBootstrap => key[r] = 1

\* The before image that a transaction has read under the chain lock is still
\* what the row holds ...
NotedFresh ==
  \A q \in Requests : pc[q] \in InTransaction /\ op[q].row \in Imaged =>
    noted[q] = data[op[q].row]

\* ... a row about to be inserted by a mutation continues the chain ...
EntryContinues ==
  \A q \in Requests : pc[q] = "appended" =>
    /\ entry[q].prev = auditState.hash
    /\ auditState.seq < entry[q].seq
    /\ entry[q].hash = EntryHash(entry[q].prev, entry[q].payload)
    /\ entry[q].payload =
         Entry("mutation", op[q].row, noted[q], entry[q].payload.after)
    /\ op[q].row \in Admins => entry[q].payload.after \in {op[q].after, noted[q]}
    /\ entry[q].key = 1
    /\ entry[q].sig = 1

\* ... and one about to be inserted by a genesis transaction starts it.
GenesisStarts ==
  \A r \in Replicas : boot[r] \in {"init-commit", "bootstrap-commit"} =>
    /\ genesis[r].prev = NoHash
    /\ genesis[r].hash = EntryHash(NoHash, genesis[r].payload)
    /\ genesis[r].key = 1
    /\ genesis[r].sig = 1
    /\ IF boot[r] = "init-commit"
       THEN genesis[r].payload =
              Entry("deployment_genesis", Root, data[Root], data[Root])
       ELSE \E v \in Contents :
              genesis[r].payload = Entry("genesis", Root, Absent, v)

-----------------------------------------------------------------------------
(* Type correctness.                                                       *)

TypeInv == TypeOK /\ InFlightTyped

USE DEF Requesting, Booting, dbVars, lockVars, replicaVars, requestVars

LEMMA NoHeadTyped == NoHead \in [seq : 0 .. MaxSeq, hash : Seq(Payload)]
BY ConstantsAssumption, SMT DEF NoHead, NoHash

\* A row built by SignedRow is a row of audit_log.
LEMMA SignedRowTyped ==
  ASSUME NEW s \in 1 .. MaxSeq, NEW p \in Seq(Payload), NEW x \in Payload,
         NEW k \in Key, NEW v \in Key
  PROVE  SignedRow(s, p, x, k, v) \in LogRow
<1>1. EntryHash(p, x) \in Seq(Payload)
  BY DEF EntryHash
<1> QED
  BY <1>1 DEF SignedRow, LogRow

LEMMA EntryTyped ==
  ASSUME NEW k \in {"genesis", "deployment_genesis", "mutation"},
         NEW x \in Rows, NEW b \in Content, NEW a \in Content
  PROVE  Entry(k, x, b, a) \in Payload
BY DEF Entry, Payload

LEMMA RootIsRow == Root \in Rows /\ Root \in Imaged
BY ConstantsAssumption DEF Rows, Imaged

LEMMA TypeInit == Init => TypeInv
<1> SUFFICES ASSUME Init PROVE TypeInv
  OBVIOUS
<1>1. nextSeq \in 1 .. MaxSeq + 1 /\ kmsVersion \in Key
  BY ConstantsAssumption, SMT DEF Init, Key
<1>2. auditState \in [seq : 0 .. MaxSeq, hash : Seq(Payload)]
  BY NoHeadTyped DEF Init
<1>3. seen \in [Requests -> [seq : 0 .. MaxSeq, tail : Seq(Payload)]]
  BY ConstantsAssumption, SMT DEF Init, NothingSeen, NoHash
<1> QED
  BY <1>1, <1>2, <1>3
  DEF Init, TypeInv, TypeOK, InFlightTyped, InInit, InBootstrap, Content

LEMMA NothingSeenTyped ==
  NothingSeen \in [seq : 0 .. MaxSeq, tail : Seq(Payload)]
BY ConstantsAssumption DEF NothingSeen, NoHash

\* A log with rows has a last one: its sequence numbers are bounded.
LEMMA LastRow ==
  ASSUME NEW log, log \subseteq LogRow, log # {}
  PROVE  \E r \in log : \A s \in log : s.seq <= r.seq
<1> DEFINE T == {MaxSeq - r.seq : r \in log}
<1>1. \A r \in log : r.seq \in 1 .. MaxSeq
  BY DEF LogRow
<1>2. T \subseteq Nat /\ T # {}
  BY <1>1, ConstantsAssumption
<1> DEFINE R == OpToRel(<, Nat)
<1>a. IsWellFoundedOn(R, Nat)
  BY NatLessThanWellFounded
<1>b. \A x, y \in Nat : x < y => <<x, y>> \in R
  BY DEF OpToRel
<1> HIDE DEF R
<1>3. PICK x \in T : \A y \in T : ~ (<<y, x>> \in R)
  <2> HIDE DEF T
  <2> QED
    BY <1>2, <1>a, WFMin
<1>4. \A y \in T : x <= y
  <2> HIDE DEF T
  <2>1. \A y \in T : x \in Nat /\ y \in Nat /\ ~ (y < x)
    BY <1>2, <1>3, <1>b
  <2> QED
    BY <2>1
<1>5. PICK r \in log : x = MaxSeq - r.seq
  OBVIOUS
<1>6. ASSUME NEW s \in log  PROVE s.seq <= r.seq
  <2>1. MaxSeq - s.seq \in T
    OBVIOUS
  <2>2. MaxSeq - r.seq <= MaxSeq - s.seq
    BY <1>4, <1>5, <2>1
  <2>3. MaxSeq \in Int /\ s.seq \in Int /\ r.seq \in Int
    BY <1>1, ConstantsAssumption
  <2> QED
    BY <2>2, <2>3
<1> QED
  BY <1>6

LEMMA TailHashTyped ==
  ASSUME NEW log, log \subseteq LogRow
  PROVE  TailHash(log) \in Seq(Payload)
<1>1. CASE log = {}
  BY <1>1 DEF TailHash, NoHash
<1>2. CASE log # {}
  <2> DEFINE t == CHOOSE r \in log : \A s \in log : s.seq <= r.seq
  <2>1. t \in log
    BY <1>2, LastRow
  <2> QED
    BY <1>2, <2>1 DEF TailHash, LogRow
<1> QED
  BY <1>1, <1>2

LEMMA TypeStep == TypeInv /\ [Next]_vars => TypeInv'
<1> SUFFICES ASSUME TypeInv, [Next]_vars PROVE TypeInv'
  OBVIOUS
<1> USE DEF TypeInv, TypeOK, InFlightTyped, InInit, InBootstrap
<1>1. ASSUME NEW q \in Requests, NEW o \in Operation, Arrive(q, o)
      PROVE  TypeInv'
  <2>1. [seq |-> auditState.seq, tail |-> NoHash]
          \in [seq : 0 .. MaxSeq, tail : Seq(Payload)]
    BY DEF NoHash
  <2> QED
    BY <1>1, <2>1 DEF Arrive
<1>2. ASSUME NEW q \in Requests, WalkChain(q)  PROVE TypeInv'
  <2>1. TailHash(auditLog) \in Seq(Payload)
    BY TailHashTyped
  <2>2. [seq |-> seen[q].seq, tail |-> TailHash(auditLog)]
          \in [seq : 0 .. MaxSeq, tail : Seq(Payload)]
    BY <2>1
  <2> QED
    BY <1>2, <2>2 DEF WalkChain
<1>3. ASSUME NEW q \in Requests, NEW s \in {"admitted", "mismatch"},
             pc[q] = "walked",
             pc' = [pc EXCEPT ![q] = s],
             seen' = [seen EXCEPT ![q] = NothingSeen],
             UNCHANGED <<dbVars, nextSeq, lockVars, kmsVersion, replicaVars, op, noted, entry>>
      PROVE  TypeInv'
  BY <1>3, NothingSeenTyped
<1>4. ASSUME NEW q \in Requests, CheckRoute(q)  PROVE TypeInv'
  <2>1. op[q].row \in Rows
    BY <1>4 DEF CheckRoute, Operation
  <2> QED
    BY <1>4, <2>1 DEF CheckRoute, Content
<1>22. ASSUME NEW q \in Requests, LockChain(q)  PROVE TypeInv'
  <2>1. op[q].row \in Rows
    BY <1>22 DEF LockChain, Operation
  <2>2. Fetched(q) \in Content /\ data' \in [Rows -> Content]
    BY <1>22, <2>1 DEF LockChain, Fetched, RefetchRow, Content
  <2> QED
    BY <1>22, <2>2 DEF LockChain
<1>23. ASSUME NEW x \in Refreshed, RefreshJwks(x)  PROVE TypeInv'
  <2>1. data' \in [Rows -> Content]
    BY <1>23 DEF RefreshJwks, Rows, Content
  <2> QED
    BY <1>23, <2>1 DEF RefreshJwks
<1>5. ASSUME NEW q \in Requests, EndRequest(q),
             UNCHANGED <<dbVars, nextSeq, bootLock, kmsVersion, replicaVars>>
      PROVE  TypeInv'
  BY <1>5, NothingSeenTyped DEF EndRequest, Content
<1>6. ASSUME NEW q \in Requests, AppendEntry(q)  PROVE TypeInv'
  <2> DEFINE o == op[q]
  <2>0. PICK c \in Leaves(o) : entry' = [entry EXCEPT ![q] =
          SignedRow(nextSeq, auditState.hash, Entry("mutation", o.row, noted[q], c),
                    key[o.replica], kmsVersion)]
    BY <1>6 DEF AppendEntry
  <2> DEFINE p == Entry("mutation", o.row, noted[q], c)
             e == SignedRow(nextSeq, auditState.hash, p, key[o.replica], kmsVersion)
  <2>1. o \in Operation
    BY <1>6 DEF AppendEntry
  <2>2. o.replica \in Replicas /\ o.row \in Rows /\ c \in Content
    BY <2>1 DEF Operation, Leaves, Content
  <2>3. p \in Payload
    BY <2>2, EntryTyped
  <2>4. key[o.replica] \in Key
    BY <1>6, <2>2 DEF AppendEntry, CanSign
  <2>5. nextSeq \in 1 .. MaxSeq /\ nextSeq + 1 \in 1 .. MaxSeq + 1
    BY <1>6, ConstantsAssumption DEF AppendEntry
  <2>6. e \in LogRow
    <3> HIDE DEF p
    <3> QED
      BY <2>3, <2>4, <2>5, SignedRowTyped
  <2>7. /\ entry' = [entry EXCEPT ![q] = e]
        /\ nextSeq' = nextSeq + 1
        /\ pc' = [pc EXCEPT ![q] = "appended"]
        /\ UNCHANGED <<dbVars, lockVars, kmsVersion, replicaVars, op, seen, noted>>
    BY <1>6, <2>0 DEF AppendEntry
  <2> HIDE DEF e
  <2> QED
    BY <2>1, <2>5, <2>6, <2>7
<1>7. ASSUME NEW q \in Requests, Commit(q)  PROVE TypeInv'
  <2>1. entry[q] \in LogRow /\ entry[q].payload.after \in Content
    BY <1>7 DEF Commit, LogRow, Payload
  <2>2. /\ data' \in [Rows -> Content]
        /\ auditLog' \subseteq LogRow
    BY <1>7, <2>1 DEF Commit, Written, Content
  <2>3. auditState' \in [seq : 0 .. MaxSeq, hash : Seq(Payload)]
    BY <1>7, <2>1, ConstantsAssumption DEF Commit, LogRow
  <2> QED
    BY <1>7, <2>2, <2>3, NothingSeenTyped DEF Commit, EndRequest, Content
<1>8. ASSUME NEW r \in Replicas, Reconcile(r)  PROVE TypeInv'
  BY <1>8 DEF Reconcile, BootTo, SetActiveKey
<1>9. ASSUME NEW r \in Replicas, ReconcileFails(r)  PROVE TypeInv'
  BY <1>9 DEF ReconcileFails, BootTo, MarkBroken
<1>10. ASSUME NEW r \in Replicas, CountUsers(r) \/ CheckAdmin(r)  PROVE TypeInv'
  BY <1>10 DEF CountUsers, CheckAdmin, BootTo
<1>11. ASSUME NEW r \in Replicas, InitLockEmpty(r)  PROVE TypeInv'
  <2>1. kmsVersion # NoKey
    BY DEF Key, NoKey
  <2> QED
    BY <1>11, <2>1 DEF InitLockEmpty, BootTo, SetActiveKey
<1>12. ASSUME NEW r \in Replicas, InitLockTaken(r) \/ BootstrapRaceLost(r)
       PROVE  TypeInv'
  BY <1>12 DEF InitLockTaken, BootstrapRaceLost, BootTo
<1>13. ASSUME NEW r \in Replicas, BootstrapLock(r)  PROVE TypeInv'
  <2>1. kmsVersion # NoKey
    BY DEF Key, NoKey
  <2> QED
    BY <1>13, <2>1 DEF BootstrapLock, BootTo, SetActiveKey
<1>14. ASSUME NEW r \in Replicas, NEW p \in Payload, SignGenesis(r, p),
              key[r] # NoKey, NEW s \in Booting, BootTo(r, s)
       PROVE  TypeInv'
  <2> DEFINE g == SignedRow(nextSeq, NoHash, p, key[r], kmsVersion)
  <2>1. nextSeq \in 1 .. MaxSeq /\ nextSeq + 1 \in 1 .. MaxSeq + 1
    BY <1>14, ConstantsAssumption DEF SignGenesis
  <2>2. NoHash \in Seq(Payload)
    BY DEF NoHash
  <2>3. g \in LogRow
    BY <1>14, <2>1, <2>2, SignedRowTyped
  <2>4. /\ genesis' = [genesis EXCEPT ![r] = g]
        /\ nextSeq' = nextSeq + 1
        /\ boot' = [boot EXCEPT ![r] = s]
        /\ UNCHANGED <<dbVars, lockVars, kmsVersion, key, chainBroken, requestVars>>
    BY <1>14 DEF SignGenesis, BootTo
  <2> HIDE DEF g
  <2>5. TypeOK'
    BY <2>1, <2>3, <2>4
  <2> QED
    BY <1>14, <2>3, <2>4, <2>5
<1>15. ASSUME NEW r \in Replicas, SignInit(r)  PROVE TypeInv'
  <2>1. Entry("deployment_genesis", Root, data[Root], data[Root]) \in Payload
    BY RootIsRow, EntryTyped
  <2>2. key[r] # NoKey
    BY <1>15 DEF SignInit
  <2> QED
    BY <1>14, <1>15, <2>1, <2>2 DEF SignInit
<1>16. ASSUME NEW r \in Replicas, SignBootstrap(r)  PROVE TypeInv'
  <2>1. PICK v \in Contents : SignGenesis(r, Entry("genesis", Root, Absent, v))
    BY <1>16 DEF SignBootstrap
  <2>2. Entry("genesis", Root, Absent, v) \in Payload
    BY RootIsRow, EntryTyped DEF Content
  <2>3. key[r] # NoKey
    BY <1>16 DEF SignBootstrap
  <2> QED
    BY <1>14, <1>16, <2>1, <2>2, <2>3 DEF SignBootstrap
<1>17. ASSUME NEW r \in Replicas, CommitGenesis(r)  PROVE TypeInv'
  <2>1. genesis[r] \in LogRow
    BY <1>17 DEF CommitGenesis
  <2>2. genesis[r].payload.after \in Content /\ key[r] \in Key
    BY <1>17, <2>1 DEF CommitGenesis, LogRow, Payload
  <2>3. /\ data' \in [Rows -> Content]
        /\ auditLog' \subseteq LogRow
        /\ signingKeys' \subseteq Key
    BY <1>17, <2>1, <2>2 DEF CommitGenesis
  <2>4. auditState' \in [seq : 0 .. MaxSeq, hash : Seq(Payload)]
    BY <1>17, <2>1, ConstantsAssumption DEF CommitGenesis, LogRow
  <2> QED
    BY <1>17, <2>3, <2>4 DEF CommitGenesis, BootTo
<1>18. ASSUME NEW r \in Replicas, GenesisFails(r)  PROVE TypeInv'
  BY <1>18 DEF GenesisFails, BootTo, MarkBroken
<1>19. ASSUME NEW r \in Replicas, Crash(r)  PROVE TypeInv'
  BY <1>19, NothingSeenTyped DEF Crash, BootTo, Content
<1>20. CASE RotateKmsKey
  BY <1>20, ConstantsAssumption DEF RotateKmsKey, Key
<1>21. CASE UNCHANGED vars
  BY <1>21 DEF vars
<1> QED
  BY <1>1, <1>2, <1>3, <1>4, <1>5, <1>6, <1>7, <1>8, <1>9, <1>10, <1>11, <1>12,
     <1>13, <1>15, <1>16, <1>17, <1>18, <1>19, <1>20, <1>21,
     <1>22, <1>23
  DEF Next, RequestStep, BootStep, CompareHead, HeadMismatch, Refuse,
      AppendThrows, Abandon, GenesisFull

\* Every behaviour is type correct, whatever is deleted.  What is in flight
\* must be what the step that completes it expects: that is the strengthening.
THEOREM TypeCorrect == Spec => []TypeOK
<1>1. Init => TypeInv
  BY TypeInit
<1>2. TypeInv /\ [Next]_vars => TypeInv'
  BY TypeStep
<1>3. TypeInv => TypeOK
  BY DEF TypeInv
<1> QED
  BY <1>1, <1>2, <1>3, PTL DEF Spec

-----------------------------------------------------------------------------
(* Mutual exclusion of the transactions.                                   *)

LEMMA LocksInit == Init => LocksHeld
BY ConstantsAssumption DEF Init, LocksHeld, InTransaction, InInit, InBootstrap

LEMMA LocksStep == TypeInv /\ LocksHeld /\ [Next]_vars => LocksHeld'
<1> SUFFICES ASSUME TypeInv, LocksHeld, [Next]_vars PROVE LocksHeld'
  OBVIOUS
<1> USE ConstantsAssumption
    DEF LocksHeld, InTransaction, InInit, InBootstrap, TypeInv, TypeOK, BootTo
<1>1. ASSUME NEW q \in Requests, NEW o \in Operation, Arrive(q, o)
      PROVE  LocksHeld'
  BY <1>1 DEF Arrive
<1>2. ASSUME NEW q \in Requests,
             NEW s \in {"walked", "mismatch", "admitted", "ready"},
             pc[q] \notin InTransaction, pc' = [pc EXCEPT ![q] = s],
             UNCHANGED <<lockVars, boot>>
      PROVE  LocksHeld'
  BY <1>2
<1>3. ASSUME NEW q \in Requests, EndRequest(q), UNCHANGED <<bootLock, boot>>
      PROVE  LocksHeld'
  BY <1>3 DEF EndRequest
<1>4. ASSUME NEW q \in Requests, LockChain(q)  PROVE LocksHeld'
  BY <1>4 DEF LockChain
<1>19. ASSUME NEW x \in Refreshed, RefreshJwks(x)  PROVE LocksHeld'
  BY <1>19 DEF RefreshJwks
<1>5. ASSUME NEW q \in Requests, AppendEntry(q)  PROVE LocksHeld'
  BY <1>5 DEF AppendEntry
<1>6. ASSUME NEW r \in Replicas,
             NEW s \in {"up", "count", "init", "admin", "bootstrap"},
             boot[r] \notin InInit \cup InBootstrap, boot' = [boot EXCEPT ![r] = s],
             UNCHANGED <<lockVars, pc>>
      PROVE  LocksHeld'
  BY <1>6
<1>7. ASSUME NEW r \in Replicas, InitLockEmpty(r)  PROVE LocksHeld'
  BY <1>7 DEF InitLockEmpty
<1>8. ASSUME NEW r \in Replicas, BootstrapLock(r)  PROVE LocksHeld'
  BY <1>8 DEF BootstrapLock
<1>9. ASSUME NEW r \in Replicas, SignInit(r)  PROVE LocksHeld'
  BY <1>9 DEF SignInit, SignGenesis
<1>10. ASSUME NEW r \in Replicas, SignBootstrap(r)  PROVE LocksHeld'
  BY <1>10 DEF SignBootstrap, SignGenesis
<1>11. ASSUME NEW r \in Replicas, CommitGenesis(r)  PROVE LocksHeld'
  BY <1>11 DEF CommitGenesis
<1>12. ASSUME NEW r \in Replicas, GenesisFails(r)  PROVE LocksHeld'
  BY <1>12 DEF GenesisFails, MarkBroken
<1>13. ASSUME NEW r \in Replicas, Crash(r)  PROVE LocksHeld'
  BY <1>13 DEF Crash, ServedBy
<1>14. CASE RotateKmsKey
  BY <1>14 DEF RotateKmsKey
<1>15. CASE UNCHANGED vars
  BY <1>15 DEF vars
<1>16. ASSUME NEW q \in Requests,
              WalkChain(q) \/ CompareHead(q) \/ HeadMismatch(q) \/ CheckRoute(q)
       PROVE  LocksHeld'
  BY <1>2, <1>16 DEF WalkChain, CompareHead, HeadMismatch, CheckRoute
<1>17. ASSUME NEW q \in Requests,
              Refuse(q) \/ AppendThrows(q) \/ Commit(q) \/ Abandon(q)
       PROVE  LocksHeld'
  BY <1>3, <1>17 DEF Refuse, AppendThrows, Commit, Abandon
<1>18. ASSUME NEW r \in Replicas,
              \/ Reconcile(r) \/ ReconcileFails(r) \/ CountUsers(r)
              \/ InitLockTaken(r) \/ CheckAdmin(r) \/ BootstrapRaceLost(r)
       PROVE  LocksHeld'
  BY <1>6, <1>18 DEF Reconcile, ReconcileFails, MarkBroken, CountUsers,
                     InitLockTaken, CheckAdmin, BootstrapRaceLost
<1> QED
  BY <1>1, <1>4, <1>5, <1>7, <1>8, <1>9, <1>10, <1>11, <1>12, <1>13, <1>14,
     <1>15, <1>16, <1>17, <1>18, <1>19
  DEF Next, RequestStep, BootStep, GenesisFull

\* The advisory locks exclude: at most one mutation or upgrade has its
\* transaction open, and at most one bootstrap.
THEOREM LocksCorrect == Spec => []LocksHeld
<1>1. Init => TypeInv /\ LocksHeld
  BY TypeInit, LocksInit
<1>2. TypeInv /\ LocksHeld /\ [Next]_vars => (TypeInv /\ LocksHeld)'
  BY TypeStep, LocksStep
<1> QED
  BY <1>1, <1>2, PTL DEF Spec

-----------------------------------------------------------------------------
(* The transactions in flight: ControlInv is preserved by every step.      *)

ControlInv ==
  /\ RootFirst /\ GenesisAlone /\ SeqsDrawn /\ OneKey
  /\ NotedFresh /\ EntryContinues /\ GenesisStarts

LEMMA ControlInit == Init => ControlInv
BY ConstantsAssumption
DEF Init, ControlInv, RootFirst, GenesisAlone, SeqsDrawn, OneKey, NotedFresh,
    EntryContinues, GenesisStarts, InInit, InBootstrap, InTransaction, NoKey, Users

\* audit_state has a row when audit_log has.
LEMMA HeadWhenRows ==
  ASSUME TypeInv, HeadIsLast
  PROVE  auditLog = {} <=> auditState = NoHead
BY DEF TypeInv, TypeOK, HeadIsLast, NoHead, LogRow

\* With the root user's row there is a user.
LEMMA RootIsUser == data[Root] # Absent => Users # {}
BY ConstantsAssumption DEF Users

\* The chain and the rows that are imaged under its lock stay.
ImagedStay ==
  /\ UNCHANGED <<auditLog, auditState, signingKeys>>
  /\ \A x \in Imaged : data'[x] = data[x]

LEMMA UsersStay == ImagedStay => Users' = Users
BY DEF ImagedStay, Users, Imaged

\* Neither a refetch nor a tick of the refresher touches those rows.
LEMMA RefetchStays ==
  ASSUME TypeInv, NEW o \in Operation, RefetchRow(o)
  PROVE  \A x \in Imaged : data'[x] = data[x]
BY ConstantsAssumption DEF TypeInv, TypeOK, RefetchRow, Operation, Imaged, Rows

LEMMA RefreshStays ==
  ASSUME TypeInv, NEW x \in Refreshed, RefreshJwks(x)
  PROVE  ImagedStay
BY ConstantsAssumption DEF TypeInv, TypeOK, RefreshJwks, ImagedStay, Imaged, Rows

\* The genesis transaction leaves the root user's row.
LEMMA GenesisLeavesRoot ==
  ASSUME ControlInv, auditLog = {}, NEW r \in Replicas,
         boot[r] \in {"init-commit", "bootstrap-commit"}
  PROVE  genesis[r].payload.after # Absent
<1>1. CASE boot[r] = "init-commit"
  BY <1>1 DEF ControlInv, GenesisStarts, GenesisAlone, RootFirst, InInit, Entry
<1>2. CASE boot[r] = "bootstrap-commit"
  <2>1. PICK v \in Contents : genesis[r].payload = Entry("genesis", Root, Absent, v)
    BY <1>2 DEF ControlInv, GenesisStarts
  <2> QED
    BY <2>1, ConstantsAssumption DEF Entry
<1> QED
  BY <1>1, <1>2

\* The locks and the count of users keep genesis transactions apart.
LEMMA OneGenesisAtATime ==
  ASSUME LocksHeld, ControlInv, NEW x \in Replicas, NEW y \in Replicas,
         boot[x] \in InInit \cup InBootstrap, boot[y] \in InInit \cup InBootstrap
  PROVE  x = y
<1>1. boot[x] \in InInit <=> boot[y] \in InInit
  BY DEF ControlInv, GenesisAlone, InInit, InBootstrap
<1> QED
  BY <1>1 DEF LocksHeld

LEMMA ControlStep ==
  ASSUME Manned, TypeInv, LocksHeld, HeadIsLast, ControlInv, [Next]_vars
  PROVE  ControlInv'
<1>b. \A r \in Replicas : auditLog = {} /\ boot[r] \in {"init-commit", "bootstrap-commit"} =>
        genesis[r].payload.after # Absent
  BY GenesisLeavesRoot
<1>c. \A x, y \in Replicas :
        boot[x] \in InInit \cup InBootstrap /\ boot[y] \in InInit \cup InBootstrap => x = y
  BY OneGenesisAtATime
<1> USE ConstantsAssumption, HeadWhenRows, RootIsRow
    DEF ControlInv, RootFirst, GenesisAlone, SeqsDrawn, OneKey, NotedFresh,
        EntryContinues, GenesisStarts, LocksHeld, InTransaction, InInit, InBootstrap,
        TypeInv, TypeOK, InFlightTyped, BootTo
<1>0. data' = data => Users' = Users
  BY DEF Users
<1> USE <1>0
<1>a. ASSUME ImagedStay, UNCHANGED <<nextSeq, kmsVersion>>,
             \A q \in Requests : pc'[q] # "idle" => pc[q] # "idle",
             \A q \in Requests : pc'[q] \in InTransaction =>
               /\ pc'[q] = pc[q] /\ entry'[q] = entry[q]
               /\ op'[q] = op[q] /\ noted'[q] = noted[q],
             \A r \in Replicas : boot'[r] \in InInit \cup InBootstrap \cup {"init"} =>
               boot'[r] = boot[r] /\ genesis'[r] = genesis[r] /\ key'[r] = key[r],
             \A r \in Replicas : key'[r] \in {NoKey, key[r]}
      PROVE  ControlInv'
  <2> USE <1>a, UsersStay DEF ImagedStay
  <2>1. RootFirst' /\ GenesisAlone'
    OBVIOUS
  <2>2. SeqsDrawn' /\ OneKey'
    OBVIOUS
  <2>3. NotedFresh'
    OBVIOUS
  <2>4. EntryContinues'
    OBVIOUS
  <2>5. GenesisStarts'
    OBVIOUS
  <2> QED
    BY <2>1, <2>2, <2>3, <2>4, <2>5
<1>1. ASSUME NEW q \in Requests, NEW o \in Operation, Arrive(q, o)
      PROVE  ControlInv'
  BY <1>1 DEF Arrive
<1>2. ASSUME NEW q \in Requests,
             NEW s \in {"walked", "mismatch", "admitted", "ready"},
             pc[q] # "idle", pc' = [pc EXCEPT ![q] = s],
             \A p \in Requests : p # q => noted'[p] = noted[p],
             UNCHANGED <<dbVars, nextSeq, kmsVersion, replicaVars, op, entry>>
      PROVE  ControlInv'
  <2>1. ImagedStay
    BY <1>2 DEF ImagedStay
  <2> HIDE DEF ControlInv
  <2> QED
    BY <1>2, <1>a, <2>1
<1>20. ASSUME NEW q \in Requests, LockChain(q)  PROVE ControlInv'
  <2>1. /\ pc[q] = "ready" /\ chainLock = Free /\ op[q] \in Operation
        /\ pc' = [pc EXCEPT ![q] = "locked"]
        /\ noted' = [noted EXCEPT ![q] = Fetched(q)]
        /\ UNCHANGED <<auditLog, auditState, signingKeys, nextSeq, kmsVersion,
                       replicaVars, op, entry>>
    BY <1>20 DEF LockChain
  <2>2. ImagedStay
    BY <1>20, <2>1, RefetchStays DEF LockChain, ImagedStay
  <2>3. \A p \in Requests : pc[p] \notin InTransaction
    BY <2>1
  <2>4. Users' = Users /\ data'[Root] = data[Root]
    BY <2>2, UsersStay DEF ImagedStay
  <2>5. RootFirst' /\ GenesisAlone'
    BY <2>1, <2>4
  <2>6. SeqsDrawn' /\ OneKey' /\ EntryContinues'
    BY <2>1, <2>3
  <2>7. GenesisStarts'
    BY <2>1, <2>4
  <2>8. NotedFresh'
    <3>1. op[q].row \in Imaged => noted'[q] = data'[op[q].row]
      BY <2>1, <2>2 DEF Fetched, ImagedStay
    <3> QED
      BY <2>1, <2>3, <3>1
  <2> QED
    BY <2>5, <2>6, <2>7, <2>8
<1>21. ASSUME NEW x \in Refreshed, RefreshJwks(x)  PROVE ControlInv'
  <2>1. ImagedStay
    BY <1>21, RefreshStays
  <2> HIDE DEF ControlInv
  <2> QED
    BY <1>21, <1>a, <2>1 DEF RefreshJwks
<1>3. ASSUME NEW q \in Requests, EndRequest(q),
             UNCHANGED <<dbVars, nextSeq, bootLock, kmsVersion, replicaVars>>
      PROVE  ControlInv'
  <2>1. /\ pc' = [pc EXCEPT ![q] = "idle"]
        /\ op' = [op EXCEPT ![q] = NoOp]
        /\ entry' = [entry EXCEPT ![q] = NoRow]
        /\ noted' = [noted EXCEPT ![q] = Absent]
        /\ ImagedStay
    BY <1>3 DEF EndRequest, ImagedStay
  <2> HIDE DEF ControlInv
  <2> QED
    BY <1>3, <1>a, <2>1
<1>4. ASSUME NEW q \in Requests, AppendEntry(q)  PROVE ControlInv'
  <2>1. /\ pc' = [pc EXCEPT ![q] = "appended"]
        /\ nextSeq' = nextSeq + 1
        /\ UNCHANGED <<dbVars, kmsVersion, replicaVars, op, noted>>
        /\ pc[q] = "locked"
    BY <1>4 DEF AppendEntry
  <2>2. RootFirst' /\ GenesisAlone' /\ OneKey' /\ NotedFresh' /\ GenesisStarts'
    BY <2>1
  <2>3. \A p \in Requests : p # q => pc'[p] # "appended"
    BY <1>4 DEF AppendEntry
  <2>4. key[op[q].replica] = 1 /\ kmsVersion = 1
    BY <2>1, <1>4 DEF AppendEntry, CanSign, Operation
  <2>a. PICK c \in Leaves(op[q]) : entry'[q] = SignedRow(nextSeq, auditState.hash,
                      Entry("mutation", op[q].row, noted[q], c), 1, 1)
    BY <2>4, <1>4 DEF AppendEntry
  <2>b. op[q].row \in Admins => c \in {op[q].after, noted[q]}
    <3>1. op[q] \in Operation
      BY <2>1
    <3>2. op[q].row \in Admins => op[q].row \in Imaged /\ op[q].after # Refetch
      BY <3>1 DEF Operation, Imaged
    <3> QED
      BY <2>1, <3>2 DEF Leaves
  <2>5. /\ entry'[q] = SignedRow(nextSeq, auditState.hash, entry'[q].payload, 1, 1)
        /\ entry'[q].payload = Entry("mutation", op[q].row, noted[q], c)
        /\ entry'[q].payload.after = c
    BY <2>a DEF SignedRow, Entry
  <2>6. auditState.seq < nextSeq
    BY <2>1 DEF HeadIsLast
  <2>7. SeqsDrawn'
    <3>1. nextSeq < nextSeq' /\ nextSeq \in Int /\ nextSeq' \in Int
      BY <2>1
    <3>2. \A x \in LogRow : x.seq \in Int
      BY DEF LogRow
    <3>3. \A x \in auditLog' : x.seq < nextSeq'
      BY <2>1, <3>1, <3>2
    <3>4. \A x \in Requests : pc'[x] = "appended" => entry'[x].seq < nextSeq'
      BY <2>1, <2>3, <2>5, <3>1 DEF SignedRow
    <3>5. \A x \in Replicas :
             boot'[x] \in {"init-commit", "bootstrap-commit"} => genesis'[x].seq < nextSeq'
      BY <2>1, <3>1, <3>2
    <3> QED
      BY <3>3, <3>4, <3>5
  <2>8. EntryContinues'
    <3>1. /\ entry'[q].prev = auditState.hash
          /\ entry'[q].seq = nextSeq
          /\ entry'[q].hash = EntryHash(entry'[q].prev, entry'[q].payload)
          /\ entry'[q].key = 1 /\ entry'[q].sig = 1
      BY <2>5 DEF SignedRow
    <3> QED
      BY <2>1, <2>3, <2>5, <2>6, <2>b, <3>1
  <2> QED
    BY <2>2, <2>7, <2>8
<1>5. ASSUME NEW q \in Requests, Commit(q)  PROVE ControlInv'
  <2>1. /\ pc[q] = "appended" /\ pc'[q] = "idle"
        /\ auditLog' = auditLog \cup {entry[q]}
        /\ entry[q] \in LogRow
        /\ \A p \in Requests : p # q =>
             pc'[p] = pc[p] /\ entry'[p] = entry[p] /\ op'[p] = op[p]
        /\ UNCHANGED <<signingKeys, nextSeq, kmsVersion, replicaVars>>
    BY <1>5 DEF Commit, EndRequest
  <2>2. auditLog # {} /\ auditLog' # {}
    BY <2>1
  <2>3. \A r \in Replicas : boot[r] \notin InInit \cup InBootstrap
    BY <2>2
  <2>4. \A p \in Requests : p # q => pc[p] \notin InTransaction
    BY <2>1
  <2>5. RootFirst'
    BY <2>1, <2>2
  <2>6. GenesisAlone' /\ GenesisStarts'
    BY <2>1, <2>2, <2>3
  <2>7. SeqsDrawn'
    BY <2>1, <2>3, <2>4
  <2>a. \A p \in Requests : pc'[p] \notin InTransaction
    BY <2>1, <2>4
  <2>8. EntryContinues' /\ NotedFresh'
    BY ONLY <2>a DEF EntryContinues, NotedFresh, InTransaction
  <2>9. OneKey'
    BY <2>1, <2>2
  <2> QED
    BY <2>5, <2>6, <2>7, <2>9, <2>8
<1>6. ASSUME NEW r \in Replicas, Reconcile(r)  PROVE ControlInv'
  <2>1. /\ boot[r] = "down"
        /\ \E s \in {"count", "admin"} : boot' = [boot EXCEPT ![r] = s]
        /\ key' = [key EXCEPT ![r] = kmsVersion]
        /\ UNCHANGED <<dbVars, nextSeq, kmsVersion, genesis, requestVars>>
    BY <1>6 DEF Reconcile, SetActiveKey
  <2>2. kmsVersion = 1
    BY <1>6 DEF Reconcile, Reconciles, ActiveKey
  <2>3. \A x \in Replicas :
          boot'[x] \in InInit \cup InBootstrap \cup {"init"} => x # r /\ boot'[x] = boot[x]
    BY <2>1
  <2>4. data' = data /\ auditLog' = auditLog /\ Users' = Users
    BY <2>1
  <2>5. RootFirst' /\ GenesisAlone'
    <3>1. RootFirst'
      BY <2>1
    <3>2. GenesisAlone'
      BY <2>3, <2>4
    <3> QED
      BY <3>1, <3>2
  <2>6. OneKey'
    BY <2>1, <2>2
  <2>7. SeqsDrawn' /\ NotedFresh' /\ EntryContinues' /\ GenesisStarts'
    BY <2>1
  <2> QED
    BY <2>5, <2>6, <2>7
<1>7. ASSUME NEW r \in Replicas,
             NEW s \in {"up", "init", "admin", "bootstrap"},
             s = "init" => Users # {},
             boot' = [boot EXCEPT ![r] = s],
             UNCHANGED <<dbVars, nextSeq, kmsVersion, key, genesis, requestVars>>
      PROVE  ControlInv'
  <2>1. RootFirst'
    <3>1. Users' = Users /\ UNCHANGED <<data, auditLog, pc>>
      BY <1>7
    <3> QED
      BY ONLY <3>1, RootFirst DEF RootFirst
  <2>4. GenesisAlone'
    <3>1. Users' = Users /\ UNCHANGED auditLog
      BY <1>7
    <3>2. \A x \in Replicas : boot'[x] \in InInit \cup InBootstrap \cup {"init"} =>
            \/ x # r /\ boot'[x] = boot[x]
            \/ x = r /\ boot'[x] = "init" /\ Users # {}
      BY <1>7
    <3> QED
      BY ONLY <3>1, <3>2, GenesisAlone DEF GenesisAlone, InInit, InBootstrap
  <2>2. SeqsDrawn' /\ OneKey' /\ NotedFresh' /\ EntryContinues'
    BY <1>7
  <2>3. GenesisStarts'
    BY <1>7
  <2> QED
    BY <2>1, <2>2, <2>3, <2>4
<1>8. ASSUME NEW r \in Replicas, InitLockEmpty(r)  PROVE ControlInv'
  <2>1. /\ boot[r] = "init" /\ chainLock = Free /\ auditLog = {} /\ kmsVersion = 1
        /\ boot' = [boot EXCEPT ![r] = "init-sign"]
        /\ key' = [key EXCEPT ![r] = kmsVersion]
        /\ UNCHANGED <<dbVars, nextSeq, kmsVersion, genesis, requestVars>>
    BY <1>8 DEF InitLockEmpty, SetActiveKey
  <2>2. RootFirst' /\ GenesisAlone' /\ SeqsDrawn'
    BY <2>1
  <2>3. OneKey'
    BY <2>1
  <2>4. NotedFresh' /\ EntryContinues' /\ GenesisStarts'
    BY <2>1
  <2> QED
    BY <2>2, <2>3, <2>4
<1>9. ASSUME NEW r \in Replicas, BootstrapLock(r)  PROVE ControlInv'
  BY <1>9 DEF BootstrapLock, SetActiveKey, Manned
<1>10. ASSUME NEW r \in Replicas, SignInit(r)  PROVE ControlInv'
  <2> DEFINE g == SignedRow(nextSeq, NoHash,
                    Entry("deployment_genesis", Root, data[Root], data[Root]), 1, 1)
  <2>1. /\ boot[r] = "init-sign" /\ key[r] = 1 /\ kmsVersion = 1
        /\ boot' = [boot EXCEPT ![r] = "init-commit"]
        /\ genesis' = [genesis EXCEPT ![r] = g]
        /\ nextSeq' = nextSeq + 1
        /\ UNCHANGED <<dbVars, kmsVersion, key, requestVars>>
    BY <1>10 DEF SignInit, SignGenesis
  <2>2. /\ g.seq = nextSeq /\ g.prev = NoHash /\ g.key = 1 /\ g.sig = 1
        /\ g.payload = Entry("deployment_genesis", Root, data[Root], data[Root])
        /\ g.hash = EntryHash(NoHash, g.payload)
    BY DEF SignedRow
  <2> HIDE DEF g
  <2>3. RootFirst' /\ GenesisAlone' /\ OneKey'
    BY <2>1
  <2>4. SeqsDrawn'
    <3>1. \A x \in LogRow : x.seq \in Int
      BY DEF LogRow
    <3> QED
      BY <2>1, <2>2, <3>1
  <2>a. NotedFresh'
    BY <2>1
  <2>5. EntryContinues'
    BY <2>1
  <2>6. GenesisStarts'
    BY <2>1, <2>2
  <2> QED
    BY <2>3, <2>4, <2>5, <2>6, <2>a
<1>11. ASSUME NEW r \in Replicas, SignBootstrap(r)  PROVE ControlInv'
  <2>0. PICK v \in Contents : SignGenesis(r, Entry("genesis", Root, Absent, v))
    BY <1>11 DEF SignBootstrap
  <2> DEFINE g == SignedRow(nextSeq, NoHash, Entry("genesis", Root, Absent, v), 1, 1)
  <2>1. /\ boot[r] = "bootstrap-sign" /\ key[r] = 1 /\ kmsVersion = 1
        /\ boot' = [boot EXCEPT ![r] = "bootstrap-commit"]
        /\ genesis' = [genesis EXCEPT ![r] = g]
        /\ nextSeq' = nextSeq + 1
        /\ UNCHANGED <<dbVars, kmsVersion, key, requestVars>>
    BY <1>11, <2>0 DEF SignBootstrap, SignGenesis
  <2>2. /\ g.seq = nextSeq /\ g.prev = NoHash /\ g.key = 1 /\ g.sig = 1
        /\ g.payload = Entry("genesis", Root, Absent, v)
        /\ g.hash = EntryHash(NoHash, g.payload)
    BY DEF SignedRow
  <2> HIDE DEF g
  <2>3. RootFirst' /\ GenesisAlone' /\ OneKey'
    BY <2>1
  <2>4. SeqsDrawn'
    <3>1. \A x \in LogRow : x.seq \in Int
      BY DEF LogRow
    <3> QED
      BY <2>1, <2>2, <3>1
  <2>a. NotedFresh'
    BY <2>1
  <2>5. EntryContinues'
    BY <2>1
  <2>6. GenesisStarts'
    BY <2>1, <2>2
  <2> QED
    BY <2>3, <2>4, <2>5, <2>6, <2>a
<1>12. ASSUME NEW r \in Replicas, CommitGenesis(r)  PROVE ControlInv'
  <2> DEFINE g == genesis[r]
  <2>1. auditLog = {} /\ signingKeys = {} /\ g \in LogRow
    BY <1>12 DEF CommitGenesis
  <2>2. /\ auditLog' = auditLog \cup {g}
        /\ signingKeys' = signingKeys \cup {key[r]}
        /\ data' = [data EXCEPT ![Root] = g.payload.after]
        /\ boot' = [boot EXCEPT ![r] = IF boot[r] = "init-commit" THEN "admin" ELSE "up"]
        /\ UNCHANGED <<nextSeq, kmsVersion, key, chainBroken, requestVars>>
        /\ genesis' = [genesis EXCEPT ![r] = NoRow]
        /\ boot[r] \in {"init-commit", "bootstrap-commit"}
    BY <1>12 DEF CommitGenesis
  <2>3. g.payload.after # Absent
    BY <2>1, <2>2, <1>b
  <2>4. \A x \in Replicas : x # r => boot[x] \notin InInit \cup InBootstrap
    BY <2>1, <2>2, <1>c DEF InInit, InBootstrap
  <2>5. data'[Root] # Absent /\ data'[Root] = g.payload.after
    BY <2>2, <2>3, RootIsRow
  <2>6. RootFirst'
    BY <2>1, <2>2, <2>5
  <2>7. GenesisAlone'
    BY <2>2, <2>4, <2>5
  <2>8. SeqsDrawn'
    BY <2>1, <2>2, <2>4
  <2>9. OneKey'
    BY <2>1, <2>2, <2>4
  <2>10. EntryContinues' /\ NotedFresh'
    BY <2>1, <2>2
  <2>11. GenesisStarts'
    BY <2>2, <2>4
  <2> QED
    BY <2>6, <2>7, <2>8, <2>9, <2>10, <2>11
<1>13. ASSUME NEW r \in Replicas, GenesisFails(r)  PROVE ControlInv'
  <2>1. /\ boot' = [boot EXCEPT ![r] = "up"]
        /\ genesis' = [genesis EXCEPT ![r] = NoRow]
        /\ ImagedStay
        /\ UNCHANGED <<dbVars, nextSeq, kmsVersion, key, requestVars>>
    BY <1>13 DEF GenesisFails, MarkBroken, ImagedStay
  <2> HIDE DEF ControlInv
  <2> QED
    BY <1>a, <2>1
<1>14. ASSUME NEW r \in Replicas, Crash(r)  PROVE ControlInv'
  <2>1. /\ boot' = [boot EXCEPT ![r] = "down"]
        /\ key' = [key EXCEPT ![r] = NoKey]
        /\ genesis' = [genesis EXCEPT ![r] = NoRow]
        /\ \A q \in Requests : pc'[q] # "idle" =>
             /\ pc'[q] = pc[q] /\ op'[q] = op[q] /\ entry'[q] = entry[q]
             /\ noted'[q] = noted[q]
        /\ ImagedStay
        /\ UNCHANGED <<dbVars, nextSeq, kmsVersion>>
    BY <1>14 DEF Crash, ServedBy, ImagedStay
  <2> HIDE DEF ControlInv
  <2> QED
    BY <1>a, <2>1
<1>15. CASE RotateKmsKey
  BY <1>15 DEF RotateKmsKey
<1>16. CASE UNCHANGED vars
  <2> HIDE DEF ControlInv
  <2> QED
    BY <1>16, <1>a DEF vars, ImagedStay
<1>17. ASSUME NEW q \in Requests, Refuse(q) \/ AppendThrows(q) \/ Abandon(q)
       PROVE  ControlInv'
  BY <1>3, <1>17 DEF Refuse, AppendThrows, Abandon
<1>18. ASSUME NEW q \in Requests,
              \/ WalkChain(q) \/ CompareHead(q) \/ HeadMismatch(q)
              \/ CheckRoute(q)
       PROVE  ControlInv'
  BY <1>2, <1>18 DEF WalkChain, CompareHead, HeadMismatch, CheckRoute
<1>19. ASSUME NEW r \in Replicas,
              \/ ReconcileFails(r) \/ CountUsers(r) \/ InitLockTaken(r)
              \/ CheckAdmin(r) \/ BootstrapRaceLost(r)
       PROVE  ControlInv'
  <2> HIDE DEF ControlInv
  <2> QED
    BY <1>7, <1>19 DEF ReconcileFails, MarkBroken, CountUsers, InitLockTaken,
                       CheckAdmin, BootstrapRaceLost
<1> QED
  BY <1>1, <1>4, <1>5, <1>6, <1>8, <1>9, <1>10, <1>11, <1>12, <1>13, <1>14, <1>15,
     <1>16, <1>17, <1>18, <1>19, <1>20, <1>21
  DEF Next, RequestStep, BootStep, GenesisFull

-----------------------------------------------------------------------------
(* The log: it grows only at its end.                                      *)

LogInv ==
  HeadIsLast /\ Linked(auditLog) /\ EntriesVerify /\ OneGenesis /\ TrailReplays

\* A row that names the last row's hash as its prev_hash keeps the chain
\* linked.
LEMMA ExtendLinked ==
  ASSUME NEW log, log \subseteq LogRow, Linked(log),
         NEW h \in log, \A s \in log : s = h \/ s.seq < h.seq,
         NEW e \in LogRow, h.seq < e.seq, e.prev = h.hash,
         e.hash = EntryHash(e.prev, e.payload)
  PROVE  Linked(log \cup {e})
<1> DEFINE l == log \cup {e}
<1>1. \A x \in l : x.seq \in Int
  BY DEF LogRow
<1>2. \A s \in log : s.seq <= h.seq /\ s.seq < e.seq
  BY <1>1
<1>3. IsPredecessor(h, e, l)
  BY <1>1, <1>2 DEF IsPredecessor
<1>4. \A p, r \in log : IsPredecessor(p, r, log) => IsPredecessor(p, r, l)
  BY <1>1, <1>2 DEF IsPredecessor
<1>5. \A r \in log : (\A s \in log : r.seq <= s.seq) => \A s \in l : r.seq <= s.seq
  BY <1>1, <1>2
<1> QED
  BY <1>3, <1>4, <1>5 DEF Linked

\* The head of audit_state is what the walk ends with.
LEMMA HeadIsTail ==
  ASSUME auditLog \subseteq LogRow, HeadIsLast
  PROVE  auditState.hash = TailHash(auditLog)
<1>1. CASE auditLog = {}
  BY <1>1 DEF HeadIsLast, TailHash, NoHead
<1>2. CASE auditLog # {}
  <2>1. PICK h \in auditLog : /\ h.hash = auditState.hash
                             /\ \A s \in auditLog : s = h \/ s.seq < h.seq
    BY <1>2 DEF HeadIsLast
  <2>2. \A x \in auditLog : x.seq \in Int
    BY DEF LogRow
  <2>3. \A r \in auditLog : (\A s \in auditLog : s.seq <= r.seq) <=> r = h
    BY <2>1, <2>2
  <2>4. (CHOOSE r \in auditLog : \A s \in auditLog : s.seq <= r.seq) = h
    BY <2>3
  <2> QED
    BY <1>2, <2>1, <2>4 DEF TailHash
<1> QED
  BY <1>1, <1>2

LEMMA LogInit == Init => LogInv
BY DEF Init, LogInv, HeadIsLast, Linked, EntriesVerify, OneGenesis, TrailReplays

\* What a COMMIT does to the rows imaged under the lock: it writes one of them.
LEMMA CommitImaged ==
  ASSUME TypeInv, NEW q \in Requests, Commit(q), op[q] \in Operation
  PROVE  \A x \in Imaged :
           data'[x] = IF x = op[q].row THEN entry[q].payload.after ELSE data[x]
<1> SUFFICES ASSUME NEW x \in Imaged
             PROVE  data'[x] = IF x = op[q].row THEN entry[q].payload.after ELSE data[x]
  OBVIOUS
<1>1. x \in Rows /\ x \notin TagLists \cup Unimaged \cup Refreshed
  BY ConstantsAssumption DEF Imaged, Rows
<1>2. data'[x] = Written(q, x)
  BY <1>1 DEF Commit, With
<1>3. op[q].after = Refetch => x # op[q].row
  BY <1>1 DEF Operation
<1> QED
  BY <1>1, <1>2, <1>3 DEF Written

\* A mutation commits.
LEMMA LogCommit ==
  ASSUME TypeInv, LocksHeld, ControlInv, LogInv, NEW q \in Requests, Commit(q)
  PROVE  LogInv'
<1> DEFINE e == entry[q]
<1> USE DEF LogInv
<1>1. /\ pc[q] = "appended" /\ e \in LogRow /\ op[q] \in Operation
      /\ auditLog \subseteq LogRow
  BY DEF Commit, TypeInv, TypeOK, InFlightTyped
<1>2. /\ e.prev = auditState.hash
      /\ auditState.seq < e.seq
      /\ e.hash = EntryHash(e.prev, e.payload)
      /\ e.payload = Entry("mutation", op[q].row, noted[q], e.payload.after)
      /\ op[q].row \in Imaged => noted[q] = data[op[q].row]
      /\ e.key = 1 /\ e.sig = 1
  BY <1>1 DEF ControlInv, EntryContinues, NotedFresh, InTransaction
<1>3. /\ auditLog' = auditLog \cup {e}
      /\ auditState' = [seq |-> e.seq, hash |-> e.hash]
      /\ signingKeys' = signingKeys
      /\ \A x \in Imaged :
           data'[x] = IF x = op[q].row THEN e.payload.after ELSE data[x]
  BY <1>1, CommitImaged DEF Commit
<1>4. auditLog # {}
  BY <1>1 DEF ControlInv, RootFirst
<1>5. PICK h \in auditLog : /\ h.seq = auditState.seq
                           /\ h.hash = auditState.hash
                           /\ \A s \in auditLog : s = h \/ s.seq < h.seq
  BY <1>4 DEF HeadIsLast, NoHead
<1>6. \A x \in auditLog \cup {e} : x.seq \in Int
  BY <1>1 DEF LogRow
<1>7. \A s \in auditLog : s.seq < e.seq
  BY <1>2, <1>5, <1>6
<1> HIDE DEF e
<1>8. HeadIsLast'
  BY <1>3, <1>7 DEF HeadIsLast
<1>9. Linked(auditLog)'
  <2>1. h.seq < e.seq /\ e.prev = h.hash
    BY <1>2, <1>5
  <2>2. Linked(auditLog \cup {e})
    BY <1>1, <1>2, <1>5, <2>1, ExtendLinked
  <2> QED
    BY <1>3, <2>2 DEF Linked, IsPredecessor
<1>10. EntriesVerify'
  BY <1>2, <1>3, <1>4 DEF EntriesVerify, ControlInv, OneKey
<1>11. OneGenesis'
  <2>1. e.payload.kind = "mutation"
    BY <1>2 DEF Entry
  <2>2. ~ (e.seq <= h.seq)
    BY <1>6, <1>7
  <2>3. ASSUME NEW r \in auditLog
        PROVE  (\A s \in auditLog : r.seq <= s.seq) <=> \A s \in auditLog' : r.seq <= s.seq
    BY <1>3, <1>6, <1>7
  <2> QED
    BY <1>3, <2>1, <2>2, <2>3 DEF OneGenesis
<1>12. TrailReplays'
  <2>2. /\ e.payload.row = op[q].row
        /\ op[q].row \in Imaged => e.payload.before = data[op[q].row]
    BY <1>2 DEF Entry
  <2>4. \A s \in auditLog : ~ Later(e, s)
    BY <1>6, <1>7 DEF Later
  <2>5. ~ Later(e, e)
    BY <1>6 DEF Later
  <2>6. e.payload.row \in Imaged => data'[e.payload.row] = e.payload.after
    BY <1>3, <2>2
  <2>7. ASSUME NEW r \in auditLog, r.payload.row \in Imaged
        PROVE  \/ \E s \in auditLog' :
                    /\ Later(r, s)
                    /\ s.payload.before = r.payload.after
                    /\ \A t \in auditLog' : Later(r, t) => s.seq <= t.seq
               \/ /\ \A s \in auditLog' : ~Later(r, s)
                  /\ data'[r.payload.row] = r.payload.after
    <3>1. CASE \E s \in auditLog :
                 /\ Later(r, s)
                 /\ s.payload.before = r.payload.after
                 /\ \A t \in auditLog : Later(r, t) => s.seq <= t.seq
      BY <3>1, <1>3, <1>6, <1>7
    <3>2. CASE /\ \A s \in auditLog : ~Later(r, s)
               /\ data[r.payload.row] = r.payload.after
      <4>1. CASE r.payload.row = op[q].row
        <5>1. Later(r, e) /\ e.payload.before = r.payload.after
          BY <4>1, <3>2, <1>7, <2>2, <2>7 DEF Later
        <5> QED
          BY <5>1, <3>2, <1>3, <1>6
      <4>2. CASE r.payload.row # op[q].row
        BY <4>2, <3>2, <1>3, <2>2, <2>7 DEF Later
      <4> QED
        BY <4>1, <4>2
    <3> QED
      BY <2>7, <3>1, <3>2 DEF TrailReplays
  <2> QED
    BY <1>3, <2>4, <2>5, <2>6, <2>7 DEF TrailReplays, Later
<1> QED
  BY <1>8, <1>9, <1>10, <1>11, <1>12

\* A genesis row commits: the log was empty.
LEMMA LogGenesis ==
  ASSUME TypeInv, LocksHeld, ControlInv, LogInv, NEW r \in Replicas, CommitGenesis(r)
  PROVE  LogInv'
<1> DEFINE g == genesis[r]
<1> USE DEF LogInv
<1>1. /\ g \in LogRow /\ data \in [Rows -> Content]
      /\ boot[r] \in {"init-commit", "bootstrap-commit"}
  BY DEF CommitGenesis, TypeInv, TypeOK, InFlightTyped
<1>2. auditLog = {}
  BY <1>1 DEF ControlInv, GenesisAlone, RootFirst, InInit, InBootstrap
<1>3. /\ g.prev = NoHash
      /\ g.hash = EntryHash(NoHash, g.payload)
      /\ g.key = 1 /\ g.sig = 1 /\ key[r] = 1
  BY <1>1 DEF ControlInv, GenesisStarts, OneKey, InInit, InBootstrap
<1>4. g.payload.row = Root /\ g.payload.kind # "mutation"
  <2>1. CASE boot[r] = "init-commit"
    BY <2>1 DEF ControlInv, GenesisStarts, Entry
  <2>2. CASE boot[r] = "bootstrap-commit"
    <3>1. PICK v \in Contents : g.payload = Entry("genesis", Root, Absent, v)
      BY <2>2 DEF ControlInv, GenesisStarts
    <3> QED
      BY <3>1 DEF Entry
  <2> QED
    BY <1>1, <2>1, <2>2
<1>5. /\ auditLog' = {g}
      /\ auditState' = [seq |-> g.seq, hash |-> g.hash]
      /\ signingKeys' = signingKeys \cup {key[r]}
      /\ data' = [data EXCEPT ![Root] = g.payload.after]
  BY <1>2 DEF CommitGenesis
<1>6. g.seq \in Int /\ data'[Root] = g.payload.after
  BY <1>1, <1>5, RootIsRow DEF LogRow
<1> HIDE DEF g
<1>7. HeadIsLast' /\ Linked(auditLog)' /\ EntriesVerify' /\ OneGenesis'
  BY <1>3, <1>4, <1>5, <1>6 DEF HeadIsLast, Linked, EntriesVerify, OneGenesis
<1>8. TrailReplays'
  BY <1>4, <1>5, <1>6 DEF TrailReplays, Later
<1> QED
  BY <1>7, <1>8

\* Every other step leaves the chain and the rows imaged under its lock alone.
LEMMA OtherSteps ==
  ASSUME TypeInv, [Next]_vars,
         \A q \in Requests : ~ Commit(q),
         \A r \in Replicas : ~ CommitGenesis(r)
  PROVE  ImagedStay
<1>1. ASSUME NEW q \in Requests, LockChain(q)  PROVE ImagedStay
  <2>1. op[q] \in Operation
    BY <1>1 DEF LockChain, TypeInv, InFlightTyped
  <2> QED
    BY <1>1, <2>1, RefetchStays DEF LockChain, ImagedStay
<1>2. ASSUME NEW x \in Refreshed, RefreshJwks(x)  PROVE ImagedStay
  BY <1>2, RefreshStays
<1>3. CASE UNCHANGED dbVars
  BY <1>3 DEF ImagedStay
<1> QED
  BY <1>1, <1>2, <1>3
  DEF Next, RequestStep, BootStep, GenesisFull, Arrive, WalkChain, CompareHead,
      HeadMismatch, CheckRoute, Refuse, AppendEntry, AppendThrows, Abandon,
      Reconcile, ReconcileFails, CountUsers, InitLockEmpty, InitLockTaken, CheckAdmin,
      BootstrapLock, BootstrapRaceLost, SignInit, SignBootstrap, SignGenesis,
      GenesisFails, Crash, RotateKmsKey, vars

LEMMA LogStep ==
  ASSUME TypeInv, LocksHeld, ControlInv, LogInv, [Next]_vars
  PROVE  LogInv'
<1>1. CASE \E q \in Requests : Commit(q)
  BY <1>1, LogCommit
<1>2. CASE \E r \in Replicas : CommitGenesis(r)
  BY <1>2, LogGenesis
<1>3. CASE ImagedStay
  <2>1. (HeadIsLast /\ Linked(auditLog) /\ EntriesVerify /\ OneGenesis)'
    BY <1>3 DEF ImagedStay, LogInv, HeadIsLast, Linked, EntriesVerify, OneGenesis
  <2>2. TrailReplays'
    BY <1>3 DEF ImagedStay, LogInv, TrailReplays, Later
  <2> QED
    BY <2>1, <2>2 DEF LogInv
<1> QED
  BY <1>1, <1>2, <1>3, OtherSteps

-----------------------------------------------------------------------------
(* The theorems about the chain.                                           *)

IInv == TypeInv /\ LocksHeld /\ ControlInv /\ LogInv

LEMMA Invariance == Spec /\ []Manned => []IInv
<1>1. Init => IInv
  BY TypeInit, LocksInit, ControlInit, LogInit DEF IInv
<1>2. IInv /\ Manned /\ [Next]_vars => IInv'
  BY TypeStep, LocksStep, ControlStep, LogStep DEF IInv, LogInv
<1> QED
  BY <1>1, <1>2, PTL DEF Spec

\* The chain is intact in every state of every behaviour: linked by hashes,
\* and audit_state is its end.
THEOREM ChainAlwaysIntact == Spec /\ []Manned => []ChainIntact
<1>1. IInv => ChainIntact
  BY HeadIsTail DEF IInv, TypeInv, TypeOK, LogInv, ChainIntact
<1> QED
  BY <1>1, Invariance, PTL

\* Every row was signed with a registered key: the one it names.
THEOREM EntriesAlwaysVerify == Spec /\ []Manned => []EntriesVerify
<1>1. IInv => EntriesVerify
  BY DEF IInv, LogInv
<1> QED
  BY <1>1, Invariance, PTL

\* The chain never gets a second genesis row.
THEOREM AlwaysOneGenesis == Spec /\ []Manned => []OneGenesis
<1>1. IInv => OneGenesis
  BY DEF IInv, LogInv
<1> QED
  BY <1>1, Invariance, PTL

\* The trail always replays to the rows whose before image is read under the
\* chain lock (Imaged); of tags, grants, revoked platform keys and jwks_url rows,
\* which other steps change or whose image is none or stale, it says nothing.
THEOREM TrailAlwaysReplays == Spec /\ []Manned => []TrailReplays
<1>1. IInv => TrailReplays
  BY DEF IInv, LogInv
<1> QED
  BY <1>1, Invariance, PTL

-----------------------------------------------------------------------------
(* Refinement: every step is a step of the ledger or leaves it unchanged.  *)

LEMMA LedgerInit == Init => Ledger!Init
BY DEF Init, Ledger!Init, NoHead, NoHash, Content, Imaged, Rows

LEMMA LedgerStep ==
  ASSUME TypeInv, LocksHeld, ControlInv, LogInv, [Next]_vars
  PROVE  [Ledger!Next]_(Ledger!vars)
<1>1. ASSUME NEW q \in Requests, Commit(q)
      PROVE  Ledger!Next
  <2> DEFINE o == op[q]
             e == entry[q]
  <2>1. /\ pc[q] = "appended" /\ o \in Operation /\ o.row \in Rows
        /\ e.payload.after \in Contents \cup {Absent}
        /\ noted[q] \in Contents \cup {Absent}
    BY <1>1 DEF Commit, TypeInv, TypeOK, InFlightTyped, Operation, Content, LogRow, Payload
  <2>2. PICK h \in auditLog : h.hash = auditState.hash
    BY <2>1 DEF ControlInv, RootFirst, LogInv, HeadIsLast
  <2>3. auditState.hash # << >>
    <3>1. h.prev \in Seq(Payload) /\ h.payload \in Payload
      BY DEF TypeInv, TypeOK, LogRow
    <3>2. h.hash = Append(h.prev, h.payload)
      BY DEF LogInv, Linked, EntryHash
    <3>3. Append(h.prev, h.payload) # << >>
      BY <3>1, AppendProperties
    <3> QED
      BY <2>2, <3>2, <3>3
  <2>4. auditState'.hash
          = Append(auditState.hash, Entry("mutation", o.row, noted[q], e.payload.after))
    BY <1>1, <2>1 DEF Commit, ControlInv, EntryContinues, EntryHash
  <2>5. \A x \in Imaged :
          data'[x] = IF x = o.row THEN e.payload.after ELSE data[x]
    BY <1>1, <2>1, CommitImaged
  <2>6. CASE o.row \in Imaged
    <3>1. noted[q] = data[o.row]
      BY <2>1, <2>6 DEF ControlInv, NotedFresh, InTransaction
    <3>2. PICK x \in Imaged, v \in Contents \cup {Absent} :
            x = o.row /\ v = e.payload.after
      BY <2>1, <2>6
    <3>3. [y \in Imaged |-> data'[y]] = [[y \in Imaged |-> data[y]] EXCEPT ![x] = v]
      BY <2>5, <3>2
    <3>4. Ledger!Record(x, v)
      BY <2>3, <2>4, <3>1, <3>2, <3>3 DEF Ledger!Record, Ledger!Entry, Entry
    <3> QED
      BY <3>4 DEF Ledger!Next
  <2>7. CASE o.row \notin Imaged
    <3>1. Ledger!Note(o.row, noted[q], e.payload.after)
      BY <2>3, <2>4, <2>5, <2>7 DEF Ledger!Note, Ledger!Entry, Entry
    <3> QED
      BY <2>1, <2>7, <3>1 DEF Ledger!Next
  <2> QED
    BY <2>6, <2>7
<1>2. ASSUME NEW r \in Replicas, CommitGenesis(r)
      PROVE  Ledger!Next
  <2> DEFINE g == genesis[r]
  <2>1. auditState.hash = << >>
    BY <1>2 DEF CommitGenesis, ControlInv, GenesisAlone, RootFirst, InInit,
                InBootstrap, LogInv, HeadIsLast, NoHead, NoHash
  <2>2. /\ auditState'.hash = << g.payload >>
        /\ data' = [data EXCEPT ![Root] = g.payload.after]
    BY <1>2 DEF CommitGenesis, ControlInv, GenesisStarts, EntryHash, NoHash
  <2>3. CASE boot[r] = "init-commit"
    <3>1. /\ g.payload = Entry("deployment_genesis", Root, data[Root], data[Root])
          /\ data[Root] # Absent
      BY <2>3 DEF ControlInv, GenesisStarts, GenesisAlone, RootFirst, InInit
    <3>2. data' = data
      BY <2>2, <3>1, RootIsRow DEF Entry, TypeInv, TypeOK
    <3>3. Ledger!DeploymentGenesis
      BY <2>1, <2>2, <3>1, <3>2, RootIsRow DEF Ledger!DeploymentGenesis, Ledger!Entry, Entry
    <3> QED
      BY <3>3 DEF Ledger!Next
  <2>4. CASE boot[r] = "bootstrap-commit"
    <3>1. PICK v \in Contents : g.payload = Entry("genesis", Root, Absent, v)
      BY <2>4 DEF ControlInv, GenesisStarts
    <3>2. data[Root] = Absent
      BY <2>4, RootIsUser DEF ControlInv, GenesisAlone, InBootstrap
    <3>3. Ledger!BootstrapGenesis(v)
      <4>1. data \in [Rows -> Content] /\ Imaged \subseteq Rows /\ g.payload.after = v
        BY <3>1 DEF TypeInv, TypeOK, Imaged, Rows, Entry
      <4>2. [x \in Imaged |-> data'[x]] = [[x \in Imaged |-> data[x]] EXCEPT ![Root] = v]
        BY <2>2, <4>1, RootIsRow
      <4> QED
        BY <2>1, <2>2, <3>1, <3>2, <4>2, RootIsRow
        DEF Ledger!BootstrapGenesis, Ledger!Entry, Entry
    <3> QED
      BY <3>3 DEF Ledger!Next
  <2> QED
    BY <1>2, <2>3, <2>4 DEF CommitGenesis
<1>3. CASE ImagedStay
  BY <1>3 DEF ImagedStay, Ledger!vars
<1> QED
  BY <1>1, <1>2, <1>3, OtherSteps

\* The rows imaged under the chain lock and the trail change together, one entry
\* per change, whatever happens to the other rows: the audit chain implements
\* the ledger.
THEOREM ChainImplementsLedger == Spec /\ []Manned => ImplementsLedger
<1>1. Init => Ledger!Init
  BY LedgerInit
<1>2. IInv /\ [Next]_vars => [Ledger!Next]_(Ledger!vars)
  BY LedgerStep DEF IInv
<1> QED
  BY <1>1, <1>2, Invariance, PTL
  DEF Spec, ImplementsLedger, Ledger!Spec

-----------------------------------------------------------------------------
(* When the studio stays Manned: as long as no two deletions of users are  *)
(* between the check of the route and the COMMIT at once.                  *)

Deletes(q) == pc[q] \in {"ready", "locked", "appended"} /\ IsUserDelete(op[q])
OneDeletion == \A p, q \in Requests : Deletes(p) /\ Deletes(q) => p = q

\* The deletion under way leaves another user.
AnotherUser == \A q \in Requests : Deletes(q) => Users \ {op[q].row} # {}

LEMMA TwoUsers == ASSUME NEW x, Cardinality(Users) > 1  PROVE Users \ {x} # {}
<1> SUFFICES ASSUME Users \subseteq {x} PROVE FALSE
  OBVIOUS
<1>1. Users = {} \/ Users = {x}
  OBVIOUS
<1>2. Cardinality({}) = 0 /\ Cardinality({x}) = 1
  BY FS_EmptySet, FS_Singleton
<1> QED BY <1>1, <1>2

\* Requests that go on, or leave, and tables that stay.
LEMMA TablesStay ==
  ASSUME Manned, AnotherUser, ImagedStay,
         \A q \in Requests : Deletes(q)' => Deletes(q) /\ op'[q] = op[q]
  PROVE  (Manned /\ AnotherUser)'
<1>1. Users' = Users
  BY UsersStay
<1> QED BY <1>1 DEF Manned, AnotherUser, ImagedStay

LEMMA MannedRequest ==
  ASSUME IInv, Manned, AnotherUser, OneDeletion, NEW q \in Requests,
         RequestStep(q) \/ Abandon(q)
  PROVE  (Manned /\ AnotherUser)'
<1> USE DEF IInv, TypeInv, TypeOK, InFlightTyped
<1>1. pc \in [Requests -> Requesting \cup {"idle"}] /\ op \in [Requests -> Operation \cup {NoOp}]
  OBVIOUS
<1>2. CASE WalkChain(q) \/ CompareHead(q) \/ HeadMismatch(q)
  <2>1. ImagedStay /\ \A p \in Requests : Deletes(p)' => Deletes(p) /\ op'[p] = op[p]
    BY <1>1, <1>2
    DEF WalkChain, CompareHead, HeadMismatch, Deletes, IsUserDelete, ImagedStay
  <2> QED BY ONLY <2>1, TablesStay, Manned, AnotherUser
<1>3. CASE Refuse(q) \/ AppendThrows(q) \/ Abandon(q)
  <2>1. ImagedStay /\ \A p \in Requests : Deletes(p)' => Deletes(p) /\ op'[p] = op[p]
    BY <1>1, <1>3
    DEF Refuse, AppendThrows, Abandon, EndRequest, Deletes, IsUserDelete, ImagedStay
  <2> QED BY ONLY <2>1, TablesStay, Manned, AnotherUser
<1>4. CASE LockChain(q) \/ AppendEntry(q)
  <2>1. \A p \in Requests : Deletes(p)' => Deletes(p) /\ op'[p] = op[p]
    BY <1>1, <1>4 DEF LockChain, AppendEntry, Deletes, IsUserDelete
  <2>2. CASE LockChain(q)
    <3>1. op[q] \in Operation
      BY <1>1, <2>2 DEF LockChain
    <3>2. ImagedStay
      BY <2>2, <3>1, RefetchStays DEF LockChain, ImagedStay
    <3> QED BY ONLY <2>1, <3>2, TablesStay, Manned, AnotherUser
  <2>3. CASE AppendEntry(q)
    <3>1. ImagedStay
      BY <2>3 DEF AppendEntry, ImagedStay
    <3> QED BY ONLY <2>1, <3>1, TablesStay, Manned, AnotherUser
  <2> QED BY <1>4, <2>2, <2>3
<1>5. CASE CheckRoute(q)
  <2>1. /\ pc' = [pc EXCEPT ![q] = "ready"] /\ UNCHANGED <<data, auditLog, op>>
        /\ IsUserDelete(op[q]) => Users \ {op[q].row} # {}
    BY <1>5, TwoUsers DEF CheckRoute, RouteAccepts
  <2>2. Users' = Users
    BY <2>1 DEF Users
  <2> QED BY <1>1, <2>1, <2>2 DEF Manned, AnotherUser, Deletes, IsUserDelete
<1>6. CASE Commit(q)
  <2>1. /\ pc[q] = "appended" /\ pc' = [pc EXCEPT ![q] = "idle"]
        /\ op' = [op EXCEPT ![q] = NoOp]
        /\ op[q] \in Operation /\ auditLog # {}
        /\ op[q].row \in Admins => entry[q].payload.after \in {op[q].after, noted[q]}
    BY <1>1, <1>6 DEF Commit, EndRequest, ControlInv, RootFirst, EntryContinues
  <2>a. \A x \in Imaged :
          data'[x] = IF x = op[q].row THEN entry[q].payload.after ELSE data[x]
    BY <1>6, <2>1, CommitImaged
  <2>b. op[q].row \in Admins => noted[q] = data[op[q].row]
    BY <2>1 DEF ControlInv, NotedFresh, InTransaction, Imaged
  <2>c. Admins \subseteq Imaged
    BY DEF Imaged
  <2>2. op[q].row \in Rows /\ data \in [Rows -> Content]
    BY <2>1 DEF Operation
  <2>3. \A p \in Requests : Deletes(p)' => p # q /\ Deletes(p) /\ op'[p] = op[p]
    BY <1>1, <2>1 DEF Deletes, IsUserDelete
  <2>4. CASE IsUserDelete(op[q])
    <3>1. Users \ {op[q].row} \subseteq Users'
      BY <2>a, <2>c DEF Users
    <3>2. Users' # {} /\ \A p \in Requests : ~Deletes(p)'
      BY <2>1, <2>3, <2>4, <3>1 DEF AnotherUser, OneDeletion, Deletes
    <3> QED BY <3>2 DEF Manned, AnotherUser
  <2>5. CASE ~IsUserDelete(op[q])
    <3>1. Users \subseteq Users'
      BY <2>1, <2>5, <2>a, <2>b, <2>c DEF Users, IsUserDelete
    <3> QED BY <2>1, <2>3, <3>1 DEF Manned, AnotherUser
  <2> QED BY <2>4, <2>5
<1> QED BY <1>2, <1>3, <1>4, <1>5, <1>6 DEF RequestStep

LEMMA MannedGenesis ==
  ASSUME IInv, NEW r \in Replicas, CommitGenesis(r)
  PROVE  (Manned /\ AnotherUser)'
<1> USE DEF IInv
<1>1. boot[r] \in {"init-commit", "bootstrap-commit"} /\ data \in [Rows -> Content]
  BY DEF CommitGenesis, TypeInv, TypeOK
<1>2. auditLog = {} /\ \A q \in Requests : pc[q] = "idle"
  BY <1>1 DEF ControlInv, GenesisAlone, RootFirst, InInit, InBootstrap
<1>3. genesis[r].payload.after # Absent
  BY <1>1, <1>2, GenesisLeavesRoot
<1>4. data'[Root] # Absent
  BY <1>1, <1>3, RootIsRow DEF CommitGenesis
<1>5. Users' # {}
  BY <1>4, ConstantsAssumption DEF Users
<1>6. \A q \in Requests : ~Deletes(q)'
  BY <1>2 DEF CommitGenesis, Deletes
<1> QED BY <1>5, <1>6 DEF Manned, AnotherUser

LEMMA MannedStep ==
  ASSUME IInv, Manned, AnotherUser, OneDeletion, [Next]_vars
  PROVE  (Manned /\ AnotherUser)'
<1>1. ASSUME NEW q \in Requests, NEW o \in Operation, Arrive(q, o)
      PROVE  (Manned /\ AnotherUser)'
  BY <1>1, TablesStay
  DEF Arrive, Deletes, IsUserDelete, IInv, TypeInv, TypeOK, ImagedStay
<1>2. ASSUME NEW r \in Replicas, Crash(r)
      PROVE  (Manned /\ AnotherUser)'
  BY <1>2, TablesStay
  DEF Crash, Deletes, IsUserDelete, IInv, TypeInv, TypeOK, ImagedStay
<1>3. CASE UNCHANGED <<dbVars, pc, op>>
  BY <1>3, TablesStay DEF Deletes, IsUserDelete, ImagedStay
<1>6. ASSUME NEW x \in Refreshed, RefreshJwks(x)
      PROVE  (Manned /\ AnotherUser)'
  <2>1. ImagedStay
    BY <1>6, RefreshStays DEF IInv
  <2> QED
    BY <1>6, <2>1, TablesStay DEF RefreshJwks, Deletes, IsUserDelete
<1>4. ASSUME NEW r \in Replicas, BootStep(r) \/ GenesisFails(r), ~CommitGenesis(r)
      PROVE  UNCHANGED <<dbVars, pc, op>>
  BY <1>4 DEF BootStep, GenesisFull, Reconcile, ReconcileFails, CountUsers, InitLockEmpty,
       InitLockTaken, CheckAdmin, BootstrapLock, BootstrapRaceLost, SignInit, SignBootstrap,
       SignGenesis, GenesisFails
<1>5. RotateKmsKey \/ UNCHANGED vars => UNCHANGED <<dbVars, pc, op>>
  BY DEF RotateKmsKey, vars
<1> QED
  BY <1>1, <1>2, <1>3, <1>4, <1>5, <1>6, MannedRequest, MannedGenesis DEF Next

LEMMA DeletionsApart == Spec /\ []OneDeletion => [](IInv /\ Manned)
<1>1. Init => IInv /\ Manned /\ AnotherUser
  <2>1. Init => IInv
    BY TypeInit, LocksInit, ControlInit, LogInit DEF IInv
  <2>2. Init => Manned /\ AnotherUser
    BY DEF Init, Manned, AnotherUser, Deletes
  <2> QED BY <2>1, <2>2
<1>2. IInv /\ Manned /\ AnotherUser /\ OneDeletion /\ [Next]_vars => (IInv /\ Manned /\ AnotherUser)'
  <2>1. IInv /\ Manned /\ [Next]_vars => IInv'
    BY TypeStep, LocksStep, ControlStep, LogStep DEF IInv, LogInv
  <2> QED BY <2>1, MannedStep
<1> QED
  BY <1>1, <1>2, PTL DEF Spec

\* Requests may overlap as they like: unless two of them delete users at once, each
\* having looked before the other committed, the studio keeps a user.
THEOREM StaysManned == Spec /\ []OneDeletion => []Manned
BY DeletionsApart, PTL

\* ... and with it all that is said above of the chain, and of the rows imaged
\* under its lock.
THEOREM ChainWithoutRace ==
  Spec /\ []OneDeletion =>
    [](ChainIntact /\ EntriesVerify /\ OneGenesis /\ TrailReplays) /\ ImplementsLedger
BY StaysManned, ChainAlwaysIntact, EntriesAlwaysVerify, AlwaysOneGenesis, TrailAlwaysReplays,
   ChainImplementsLedger, PTL
=============================================================================
