----------------------------- MODULE AuditChain -----------------------------
(***************************************************************************)
(* The audit chain of the studio backend: withAudit() transactions of      *)
(* several replicas over one Postgres and one KMS key, the per-request     *)
(* integrity gate (audit.headIsValid), the boot of a replica (key          *)
(* reconciliation, genesis of a fresh and of an upgraded deployment), the  *)
(* rotation of the KMS key and the crash of a replica.                     *)
(*                                                                         *)
(* A hash is the sequence of the payloads it commits to: SHA-256 is taken  *)
(* to have no collisions, so EntryHash is injective and NULL is << >>.     *)
(* A key fingerprint is the version of the KMS key it identifies, and a    *)
(* signature is the version that made it.                                  *)
(*                                                                         *)
(* The content of a row is its before and after image without the times of *)
(* the last login and the last update (touchUserLogin() writes nothing     *)
(* else, and no entry) and, for a caller, without its scope tags, which    *)
(* are a row of their own.  What a boot adds with no entry under ids that  *)
(* no request knew (templates, the first organisation, the built-in roles) *)
(* is there from the start, and so are the roles that it gives to admins   *)
(* of before there were roles.                                             *)
(***************************************************************************)
EXTENDS Integers, FiniteSets, Sequences

CONSTANTS
  Replicas,   \* backend processes
  Requests,   \* mutating HTTP requests in flight, over all replicas
  Admins,     \* user rows with the admin role
  Root,       \* the user row that bootstrapInitialAdmin creates
  Actors,     \* the users who send mutating requests
  Removable,  \* the users whose deletion they ask for
  Records,    \* the other rows whose before image is read under the chain lock
  TagLists,   \* tags of policies, scope tags of callers: read before BEGIN
  Unimaged,   \* rows changed without a before image: grants, replaced keys
  Refreshed,  \* trust keys with a jwks_url, which the refresher writes as well
  Owner,      \* the record a tag list or an unimaged row goes with
  Contents,   \* what a present row may hold
  Absent,     \* the content of a row that is not in its table
  Refetch,    \* stands for the content a trust_key.refresh asks for
  Free,       \* an advisory lock nobody holds
  MaxSeq,     \* bound on the BIGSERIAL of audit_log
  MaxVersion  \* bound on the versions of the KMS key

ASSUME ConstantsAssumption ==
  /\ Root \in Admins
  /\ Actors \subseteq Admins
  /\ Removable \subseteq Admins
  /\ Admins \cap Records = {}
  /\ (Admins \cup Records) \cap (TagLists \cup Unimaged \cup Refreshed) = {}
  /\ TagLists \cap Unimaged = {}
  /\ (TagLists \cup Unimaged) \cap Refreshed = {}
  /\ Owner \in [TagLists \cup Unimaged -> Records]
  /\ Absent \notin Contents
  /\ Refetch \notin Contents \cup {Absent}
  /\ Contents # {}
  /\ Replicas \cap Requests = {}
  /\ Free \notin Replicas \cup Requests
  /\ IsFiniteSet(Admins)
  /\ MaxSeq \in Nat
  /\ MaxVersion \in Nat \ {0}

Imaged == Admins \cup Records
Rows == Imaged \cup TagLists \cup Unimaged \cup Refreshed
Content == Contents \cup {Absent}
Key == 1 .. MaxVersion
NoKey == 0

VARIABLES
  (* Postgres: committed state *)
  data,         \* the audited tables
  auditLog,     \* table audit_log
  auditState,   \* the row of audit_state, NoHead when there is none
  signingKeys,  \* the fingerprints in audit_signing_keys
  nextSeq,      \* the BIGSERIAL of audit_log: not transactional
  chainLock,    \* holder of advisory lock opa_studio_audit_chain
  bootLock,     \* holder of advisory lock opa_studio_bootstrap
  (* the KMS *)
  kmsVersion,   \* latest version of the audit-signing key
  (* the replicas *)
  boot,         \* where each replica is in its boot sequence
  key,          \* signingKeyFp and signingKeyVersion of audit.js
  chainBroken,  \* chainBroken of audit.js
  genesis,      \* the genesis row a replica is about to commit
  (* the requests *)
  pc,           \* where each request is
  op,           \* who asks which replica for what: actor, row, new content
  seen,         \* what the integrity gate has read so far
  noted,        \* the before image that withAudit() will hand to appendAudit()
  entry         \* the audit row of the open transaction

dbVars == <<data, auditLog, auditState, signingKeys>>
lockVars == <<chainLock, bootLock>>
replicaVars == <<boot, key, chainBroken, genesis>>
requestVars == <<pc, op, seen, noted, entry>>
vars == <<dbVars, nextSeq, lockVars, kmsVersion, replicaVars, requestVars>>

-----------------------------------------------------------------------------
(* Hashes, rows of audit_log and the walk of audit_verify_chain().         *)

NoHash == << >>
EntryHash(prev, payload) == Append(prev, payload)

Payload == [kind : {"genesis", "deployment_genesis", "mutation"},
            row : Rows, before : Content, after : Content]

Entry(kind, x, before, after) ==
  [kind |-> kind, row |-> x, before |-> before, after |-> after]

LogRow == [seq : 1 .. MaxSeq, prev : Seq(Payload), payload : Payload,
           hash : Seq(Payload), key : Key, sig : Key]

SignedRow(seq, prev, payload, fp, version) ==
  [seq |-> seq, prev |-> prev, payload |-> payload,
   hash |-> EntryHash(prev, payload), key |-> fp, sig |-> version]

NoRow == [seq |-> 0]
NoHead == [seq |-> 0, hash |-> NoHash]

\* p is the row that ORDER BY seq puts right before r.
IsPredecessor(p, r, log) ==
  /\ p.seq < r.seq
  /\ \A s \in log : s.seq <= p.seq \/ r.seq <= s.seq

\* Every iteration of the walk passes: prev_hash is the hash of the row
\* before (NULL for the first one) and entry_hash recomputes.
Linked(log) ==
  \A r \in log :
    /\ r.hash = EntryHash(r.prev, r.payload)
    /\ \/ r.prev = NoHash /\ \A s \in log : r.seq <= s.seq
       \/ \E p \in log : IsPredecessor(p, r, log) /\ p.hash = r.prev

\* expected_prev when the walk is over.
TailHash(log) ==
  IF log = {} THEN NoHash
  ELSE (CHOOSE r \in log : \A s \in log : s.seq <= r.seq).hash

\* countUsers() and countAdmins(): every modelled user is an active admin.
Users == {a \in Admins : data[a] # Absent}

\* getActiveSigningKey(): the fingerprint registered last.
ActiveKey == CHOOSE k \in signingKeys : \A j \in signingKeys : j <= k

-----------------------------------------------------------------------------
(* Operations a request may ask for.  Deleting a row is an update to       *)
(* Absent; only the users in Removable are ever deleted, and a tag list    *)
(* only with the row it belongs to.                                        *)

Operation ==
  {o \in [replica : Replicas, actor : Actors, row : Rows,
          after : Content \cup {Refetch}] :
     /\ o.after = Absent => o.row \in Records \cup Removable \cup Unimaged \cup Refreshed
     /\ o.after = Refetch => o.row \in Refreshed}

IsUserDelete(o) == o.row \in Admins /\ o.after = Absent

NoOp == [actor |-> Root]
NothingSeen == [seq |-> 0, tail |-> NoHash]

Init ==
  /\ data \in [Rows -> Content]
  /\ data[Root] = Absent => \A a \in Admins : data[a] = Absent
  /\ \A x \in TagLists \cup Unimaged : data[Owner[x]] = Absent => data[x] = Absent
  /\ auditLog = {}
  /\ auditState = NoHead
  /\ signingKeys = {}
  /\ nextSeq = 1
  /\ chainLock = Free
  /\ bootLock = Free
  /\ kmsVersion = 1
  /\ boot = [r \in Replicas |-> "down"]
  /\ key = [r \in Replicas |-> NoKey]
  /\ chainBroken = [r \in Replicas |-> FALSE]
  /\ genesis = [r \in Replicas |-> NoRow]
  /\ pc = [q \in Requests |-> "idle"]
  /\ op = [q \in Requests |-> NoOp]
  /\ seen = [q \in Requests |-> NothingSeen]
  /\ noted = [q \in Requests |-> Absent]
  /\ entry = [q \in Requests |-> NoRow]

-----------------------------------------------------------------------------
(* A mutating request: integrity gate, route checks, withAudit().          *)

\* Mutant: the transaction is never ended and keeps its lock.
EndRequest_KeepsLock(q) ==
  /\ pc' = [pc EXCEPT ![q] = "idle"]
  /\ op' = [op EXCEPT ![q] = NoOp]
  /\ seen' = [seen EXCEPT ![q] = NothingSeen]
  /\ noted' = [noted EXCEPT ![q] = Absent]
  /\ entry' = [entry EXCEPT ![q] = NoRow]
  /\ chainLock' = chainLock

\* The request leaves the system; its transaction, if it has one, is over.
EndRequest(q) ==
  /\ pc' = [pc EXCEPT ![q] = "idle"]
  /\ op' = [op EXCEPT ![q] = NoOp]
  /\ seen' = [seen EXCEPT ![q] = NothingSeen]
  /\ noted' = [noted EXCEPT ![q] = Absent]
  /\ entry' = [entry EXCEPT ![q] = NoRow]
  /\ chainLock' = IF chainLock = q THEN Free ELSE chainLock

\* authenticate finds the user, then headIsValid() tests chainBroken and
\* reads the head.  A request it refuses here changes nothing.
Arrive(q, o) ==
  /\ pc[q] = "idle"
  /\ boot[o.replica] # "down"
  /\ data[o.actor] # Absent
  /\ ~chainBroken[o.replica]
  /\ auditState # NoHead
  /\ pc' = [pc EXCEPT ![q] = "gate"]
  /\ op' = [op EXCEPT ![q] = o]
  /\ seen' = [seen EXCEPT ![q] = [seq |-> auditState.seq, tail |-> NoHash]]
  /\ UNCHANGED <<dbVars, nextSeq, lockVars, kmsVersion, replicaVars, noted, entry>>

\* The loop of audit_verify_chain() runs on one snapshot of audit_log ...
WalkChain(q) ==
  /\ pc[q] = "gate"
  /\ Linked(auditLog)
  /\ pc' = [pc EXCEPT ![q] = "walked"]
  /\ seen' = [seen EXCEPT ![q] = [seq |-> seen[q].seq, tail |-> TailHash(auditLog)]]
  /\ UNCHANGED <<dbVars, nextSeq, lockVars, kmsVersion, replicaVars, op, noted, entry>>

\* The signature of the row getAuditHead() pointed at, under the public key
\* that audit_signing_keys holds for its fingerprint.
HeadVerifies(q) ==
  \E r \in auditLog :
    r.seq = seen[q].seq /\ r.key \in signingKeys /\ r.sig = r.key

\* ... and its comparison with audit_state on a later one (a VOLATILE
\* function in a READ COMMITTED transaction).
CompareHead(q) ==
  /\ pc[q] = "walked"
  /\ auditState.hash = seen[q].tail
  /\ HeadVerifies(q)
  /\ pc' = [pc EXCEPT ![q] = "admitted"]
  /\ seen' = [seen EXCEPT ![q] = NothingSeen]
  /\ UNCHANGED <<dbVars, nextSeq, lockVars, kmsVersion, replicaVars, op, noted, entry>>

\* 'audit_state.head_hash does not match chain tail'
HeadMismatch(q) ==
  /\ pc[q] = "walked"
  /\ auditState.hash # seen[q].tail
  /\ pc' = [pc EXCEPT ![q] = "mismatch"]
  /\ seen' = [seen EXCEPT ![q] = NothingSeen]
  /\ UNCHANGED <<dbVars, nextSeq, lockVars, kmsVersion, replicaVars, op, noted, entry>>

\* Mutant: the route checks that the user exists and nothing else.
RouteAccepts_AnyUser(o) == IsUserDelete(o) => data[o.row] # Absent

\* What the route checks before it opens its transaction.  DELETE
\* /api/users/:id refuses the caller itself and the last administrator, a
\* PATCH of tags needs the policy or the caller.
RouteAccepts(o) ==
  /\ IsUserDelete(o) =>
       /\ data[o.row] # Absent
       /\ o.row # o.actor
       /\ Cardinality(Users) > 1
  /\ o.row \in TagLists => data[o.row] # Absent

\* The beforeFetcher of a PATCH of tags answers with what the route reads here.
CheckRoute(q) ==
  /\ pc[q] = "admitted"
  /\ RouteAccepts(op[q])
  /\ noted' = [noted EXCEPT ![q] =
       IF op[q].row \in TagLists THEN data[op[q].row] ELSE Absent]
  /\ pc' = [pc EXCEPT ![q] = "ready"]
  /\ UNCHANGED <<dbVars, nextSeq, lockVars, kmsVersion, replicaVars,
                 op, seen, entry>>

\* 403 of the gate, 400 of the route.
Refuse(q) ==
  /\ \/ pc[q] = "gate" /\ ~Linked(auditLog)
     \/ pc[q] = "walked" /\ auditState.hash = seen[q].tail /\ ~HeadVerifies(q)
     \/ pc[q] = "mismatch"
     \/ pc[q] = "admitted" /\ ~RouteAccepts(op[q])
  /\ EndRequest(q)
  /\ UNCHANGED <<dbVars, nextSeq, bootLock, kmsVersion, replicaVars>>

\* What the other before-fetchers read, on the connection of the transaction.
Fetched(q) ==
  IF op[q].row \in Imaged \cup Refreshed THEN data[op[q].row] ELSE noted[q]

\* refreshOne(), called inside trust_key.refresh: it writes on a connection of
\* its own, key material or the error, so that no ROLLBACK takes it back.
RefetchRow(o) ==
  IF o.after = Refetch /\ data[o.row] # Absent
  THEN \E v \in Contents : data' = [data EXCEPT ![o.row] = v]
  ELSE data' = data

\* Mutant: the transaction does not take the advisory lock.
LockChain_NoWait(q) ==
  /\ pc[q] = "ready"
  /\ chainLock' = q
  /\ noted' = [noted EXCEPT ![q] = Fetched(q)]
  /\ RefetchRow(op[q])
  /\ pc' = [pc EXCEPT ![q] = "locked"]
  /\ UNCHANGED <<auditLog, auditState, signingKeys, nextSeq, bootLock, kmsVersion,
                 replicaVars, op, seen, entry>>

\* Mutant: the call to withAudit() passes no beforeFetcher.
LockChain_NoBefore(q) ==
  /\ pc[q] = "ready"
  /\ chainLock = Free
  /\ chainLock' = q
  /\ noted' = noted
  /\ RefetchRow(op[q])
  /\ pc' = [pc EXCEPT ![q] = "locked"]
  /\ UNCHANGED <<auditLog, auditState, signingKeys, nextSeq, bootLock, kmsVersion,
                 replicaVars, op, seen, entry>>

\* BEGIN, pg_advisory_xact_lock(opa_studio_audit_chain), beforeFetcher.
LockChain(q) ==
  /\ pc[q] = "ready"
  /\ chainLock = Free
  /\ chainLock' = q
  /\ noted' = [noted EXCEPT ![q] = Fetched(q)]
  /\ RefetchRow(op[q])
  /\ pc' = [pc EXCEPT ![q] = "locked"]
  /\ UNCHANGED <<auditLog, auditState, signingKeys, nextSeq, bootLock, kmsVersion,
                 replicaVars, op, seen, entry>>

\* Mutant: no check that the KMS key was rotated since boot.
CanSign_AnyVersion(r) == key[r] # NoKey /\ ~chainBroken[r]

\* appendAudit() has a key, trusts the chain, and the KMS still signs with
\* the version cached at boot.
CanSign(r) ==
  key[r] # NoKey /\ ~chainBroken[r] /\ key[r] = kmsVersion

\* auditAfter.  An update of a row that is gone changes nothing and says so,
\* but that of tags repeats the tags it computed; a refresh reads the row again.
Leaves(o) ==
  IF o.after = Refetch THEN {data[o.row]}
  ELSE {o.after} \cup
       {c \in {Absent} : o.row \notin TagLists /\ data[o.row] = Absent}

\* A grant needs its caller and its policy (foreign keys).
OwnerExists(o) ==
  o.row \in Unimaged /\ o.after # Absent => data[Owner[o.row]] # Absent

\* The mutation, appendAudit() and its INSERTs: the transaction's own
\* writes, which nobody else sees yet.
AppendEntry(q) ==
  LET o == op[q]
      payload(c) == Entry("mutation", o.row, noted[q], c)
  IN
  /\ pc[q] = "locked"
  /\ OwnerExists(o)
  /\ CanSign(o.replica)
  /\ nextSeq <= MaxSeq
  /\ \E c \in Leaves(o) : entry' = [entry EXCEPT ![q] =
       SignedRow(nextSeq, auditState.hash, payload(c), key[o.replica], kmsVersion)]
  /\ nextSeq' = nextSeq + 1
  /\ pc' = [pc EXCEPT ![q] = "appended"]
  /\ UNCHANGED <<dbVars, lockVars, kmsVersion, replicaVars, op, seen, noted>>

\* The mutation or appendAudit() throws and withAudit() rolls back.  (The last
\* disjunct is the bound of the model: audit_log is full.)
AppendThrows(q) ==
  /\ pc[q] = "locked"
  /\ ~OwnerExists(op[q]) \/ ~CanSign(op[q].replica) \/ nextSeq > MaxSeq
  /\ EndRequest(q)
  /\ UNCHANGED <<dbVars, nextSeq, bootLock, kmsVersion, replicaVars>>

\* The rows that go with row x, and what such a row y may hold once x holds v:
\* a caller takes its grants and scope tags with it (ON DELETE CASCADE), a policy
\* or a caller comes with its tags, and the rotation of a platform key retires
\* the one before.
With(x) == {y \in TagLists \cup Unimaged : Owner[y] = x}

Carried(y, x, v) ==
  IF v = Absent THEN {Absent}
  ELSE IF y \in Unimaged THEN {data[y]} \cup Contents
  ELSE IF data[x] = Absent THEN Contents ELSE {data[y]}

\* What the transaction of q, which has appended its entry, does to row x.
\* The UPDATE of tags finds no row when the caller is gone.
Written(q, x) ==
  IF x # op[q].row \/ op[q].after = Refetch
     \/ (x \in TagLists /\ data[x] = Absent)
  THEN data[x]
  ELSE entry[q].payload.after

Commit(q) ==
  /\ pc[q] = "appended"
  /\ \E d \in [With(op[q].row) -> Content] :
       /\ \A y \in With(op[q].row) :
            d[y] \in Carried(y, op[q].row, entry[q].payload.after)
       /\ data' = [x \in Rows |->
            IF x \in With(op[q].row) THEN d[x] ELSE Written(q, x)]
  /\ auditLog' = auditLog \cup {entry[q]}
  /\ auditState' = [seq |-> entry[q].seq, hash |-> entry[q].hash]
  /\ EndRequest(q)
  /\ UNCHANGED <<signingKeys, nextSeq, bootLock, kmsVersion, replicaVars>>

\* Mutant: the mutation ran on another connection and is not rolled back.
Abandon_KeepsWrite(q) ==
  /\ pc[q] # "idle"
  /\ EndRequest(q)
  /\ data' = IF pc[q] = "appended" THEN [x \in Rows |-> Written(q, x)] ELSE data
  /\ UNCHANGED <<auditLog, auditState, signingKeys, nextSeq, bootLock, kmsVersion,
                 replicaVars>>

\* OPA denies for another reason or is down, the handler throws, the
\* connection drops, COMMIT fails: whatever was open is rolled back.
Abandon(q) ==
  /\ pc[q] # "idle"
  /\ EndRequest(q)
  /\ UNCHANGED <<dbVars, nextSeq, bootLock, kmsVersion, replicaVars>>

\* A tick of the jwks refresher in a running replica: key material or the
\* error, with no entry.  It waits for a transaction that has written the row.
RefreshJwks(x) ==
  /\ \E r \in Replicas : boot[r] = "up"
  /\ data[x] # Absent
  /\ \A q \in Requests :
       pc[q] = "appended" /\ op[q].row = x => op[q].after = Refetch
  /\ \E v \in Contents : data' = [data EXCEPT ![x] = v]
  /\ UNCHANGED <<auditLog, auditState, signingKeys, nextSeq, lockVars, kmsVersion,
                 replicaVars, requestVars>>

-----------------------------------------------------------------------------
(* The boot of a replica: loadOrInitSigningKey(), then                     *)
(* bootstrapInitialAdmin().                                                *)

Starting(r) == boot[r] \notin {"down", "up"}

\* Where boot goes when a step of it is over.
BootTo(r, step) == boot' = [boot EXCEPT ![r] = step]

MarkBroken(r) ==
  /\ chainBroken' = [chainBroken EXCEPT ![r] = TRUE]
  /\ BootTo(r, "up")

\* Mutant: the key the provider answers with is not remembered.
SetActiveKey_Forgets(r) ==
  /\ key' = key
  /\ chainBroken' = [chainBroken EXCEPT ![r] = FALSE]

\* _setActiveKey(getPublicKey())
SetActiveKey(r) ==
  /\ key' = [key EXCEPT ![r] = kmsVersion]
  /\ chainBroken' = [chainBroken EXCEPT ![r] = FALSE]

\* The KMS key is the one the chain was signed with; a chain without a key
\* row, or a key row that is another one, is refused.
Reconciles ==
  IF signingKeys = {} THEN auditState = NoHead ELSE ActiveKey = kmsVersion

Reconcile(r) ==
  /\ boot[r] = "down"
  /\ Reconciles
  /\ SetActiveKey(r)
  /\ BootTo(r, IF auditState = NoHead THEN "count" ELSE "admin")
  /\ UNCHANGED <<dbVars, nextSeq, lockVars, kmsVersion, genesis, requestVars>>

\* A fingerprint that does not match, or a KMS that cannot be reached.
ReconcileFails(r) ==
  /\ boot[r] = "down"
  /\ MarkBroken(r)
  /\ UNCHANGED <<dbVars, nextSeq, lockVars, kmsVersion, key, genesis, requestVars>>

\* The chain is empty: a deployment that has users is being upgraded.
CountUsers(r) ==
  /\ boot[r] = "count"
  /\ BootTo(r, IF Users # {} THEN "init" ELSE "admin")
  /\ UNCHANGED <<dbVars, nextSeq, lockVars, kmsVersion, key, chainBroken,
                 genesis, requestVars>>

\* Mutant: the upgrade does not look again under the lock.
InitLockEmpty_NoRecheck(r) ==
  /\ boot[r] = "init"
  /\ chainLock = Free
  /\ chainLock' = r
  /\ SetActiveKey(r)
  /\ BootTo(r, "init-sign")
  /\ UNCHANGED <<dbVars, nextSeq, bootLock, kmsVersion, genesis, requestVars>>

\* _initializeChainForExistingDeployment() takes the chain lock and looks
\* again: another replica may have written the genesis row.
InitLockEmpty(r) ==
  /\ boot[r] = "init"
  /\ chainLock = Free
  /\ auditState = NoHead
  /\ chainLock' = r
  /\ SetActiveKey(r)
  /\ BootTo(r, "init-sign")
  /\ UNCHANGED <<dbVars, nextSeq, bootLock, kmsVersion, genesis, requestVars>>

InitLockTaken(r) ==
  /\ boot[r] = "init"
  /\ chainLock = Free
  /\ auditState # NoHead
  /\ BootTo(r, "admin")
  /\ UNCHANGED <<dbVars, nextSeq, lockVars, kmsVersion, key, chainBroken,
                 genesis, requestVars>>

\* bootstrapInitialAdmin() counts the users before it opens a transaction,
CheckAdmin(r) ==
  /\ boot[r] = "admin"
  /\ BootTo(r, IF Users # {} THEN "up" ELSE "bootstrap")
  /\ UNCHANGED <<dbVars, nextSeq, lockVars, kmsVersion, key, chainBroken,
                 genesis, requestVars>>

\* ... and again under its own lock, which is not the chain lock.
BootstrapLock(r) ==
  /\ boot[r] = "bootstrap"
  /\ bootLock = Free
  /\ Users = {}
  /\ bootLock' = r
  /\ SetActiveKey(r)
  /\ BootTo(r, "bootstrap-sign")
  /\ UNCHANGED <<dbVars, nextSeq, chainLock, kmsVersion, genesis, requestVars>>

BootstrapRaceLost(r) ==
  /\ boot[r] = "bootstrap"
  /\ bootLock = Free
  /\ Users # {}
  /\ BootTo(r, "up")
  /\ UNCHANGED <<dbVars, nextSeq, lockVars, kmsVersion, key, chainBroken,
                 genesis, requestVars>>

\* Both genesis rows have prev_hash NULL, whatever the table holds.
SignGenesis(r, payload) ==
  /\ nextSeq <= MaxSeq
  /\ genesis' = [genesis EXCEPT ![r] =
       SignedRow(nextSeq, NoHash, payload, key[r], kmsVersion)]
  /\ nextSeq' = nextSeq + 1
  /\ UNCHANGED <<dbVars, lockVars, kmsVersion, key, chainBroken, requestVars>>

\* The genesis entry of an upgraded deployment names no row: the bootstrap
\* administrator's row, unchanged, stands in for it.
SignInit(r) ==
  /\ boot[r] = "init-sign"
  /\ SignGenesis(r, Entry("deployment_genesis", Root, data[Root], data[Root]))
  /\ BootTo(r, "init-commit")

SignBootstrap(r) ==
  /\ boot[r] = "bootstrap-sign"
  /\ \E v \in Contents : SignGenesis(r, Entry("genesis", Root, Absent, v))
  /\ BootTo(r, "bootstrap-commit")

\* The administrator's row, the key row, the genesis row and the head.
CommitGenesis(r) ==
  /\ boot[r] \in {"init-commit", "bootstrap-commit"}
  /\ auditLog' = auditLog \cup {genesis[r]}
  /\ auditState' = [seq |-> genesis[r].seq, hash |-> genesis[r].hash]
  /\ signingKeys' = signingKeys \cup {key[r]}
  /\ data' = [data EXCEPT ![Root] = genesis[r].payload.after]
  /\ genesis' = [genesis EXCEPT ![r] = NoRow]
  /\ chainLock' = IF chainLock = r THEN Free ELSE chainLock
  /\ bootLock' = IF bootLock = r THEN Free ELSE bootLock
  /\ BootTo(r, IF boot[r] = "init-commit" THEN "admin" ELSE "up")
  /\ UNCHANGED <<nextSeq, kmsVersion, key, chainBroken, requestVars>>

\* Mutant: no ROLLBACK, the connection goes back to the pool with its locks.
GenesisFails_KeepsLocks(r) ==
  /\ boot[r] \in {"init", "init-sign", "init-commit",
                  "bootstrap", "bootstrap-sign", "bootstrap-commit"}
  /\ genesis' = [genesis EXCEPT ![r] = NoRow]
  /\ IF boot[r] \in {"init", "init-sign", "init-commit"}
     THEN MarkBroken(r)
     ELSE BootTo(r, "up") /\ UNCHANGED chainBroken
  /\ UNCHANGED <<dbVars, lockVars, nextSeq, kmsVersion, key, requestVars>>

\* The transaction fails: the upgrade marks the chain broken, the bootstrap
\* throws to the listen callback, which logs it and goes on.
GenesisFails(r) ==
  /\ boot[r] \in {"init", "init-sign", "init-commit",
                  "bootstrap", "bootstrap-sign", "bootstrap-commit"}
  /\ genesis' = [genesis EXCEPT ![r] = NoRow]
  /\ chainLock' = IF chainLock = r THEN Free ELSE chainLock
  /\ bootLock' = IF bootLock = r THEN Free ELSE bootLock
  /\ IF boot[r] \in {"init", "init-sign", "init-commit"}
     THEN MarkBroken(r)
     ELSE BootTo(r, "up") /\ UNCHANGED chainBroken
  /\ UNCHANGED <<dbVars, nextSeq, kmsVersion, key, requestVars>>

\* The bound of the model: audit_log is full.
GenesisFull(r) ==
  /\ boot[r] \in {"init-sign", "bootstrap-sign"}
  /\ nextSeq > MaxSeq
  /\ GenesisFails(r)

BootStep(r) ==
  \/ Reconcile(r) \/ ReconcileFails(r) \/ CountUsers(r)
  \/ InitLockEmpty(r) \/ InitLockTaken(r)
  \/ CheckAdmin(r) \/ BootstrapLock(r) \/ BootstrapRaceLost(r)
  \/ SignInit(r) \/ SignBootstrap(r) \/ CommitGenesis(r) \/ GenesisFull(r)

-----------------------------------------------------------------------------
(* The environment.                                                        *)

ServedBy(r) == {q \in Requests : pc[q] # "idle" /\ op[q].replica = r}

\* A replica dies: its connections close, Postgres rolls its transactions
\* back and releases their locks.
Crash(r) ==
  /\ boot[r] # "down"
  /\ BootTo(r, "down")
  /\ key' = [key EXCEPT ![r] = NoKey]
  /\ chainBroken' = [chainBroken EXCEPT ![r] = FALSE]
  /\ genesis' = [genesis EXCEPT ![r] = NoRow]
  /\ chainLock' = IF chainLock \in ServedBy(r) \cup {r} THEN Free ELSE chainLock
  /\ bootLock' = IF bootLock = r THEN Free ELSE bootLock
  /\ pc' = [q \in Requests |-> IF q \in ServedBy(r) THEN "idle" ELSE pc[q]]
  /\ op' = [q \in Requests |-> IF q \in ServedBy(r) THEN NoOp ELSE op[q]]
  /\ seen' = [q \in Requests |-> IF q \in ServedBy(r) THEN NothingSeen ELSE seen[q]]
  /\ noted' = [q \in Requests |-> IF q \in ServedBy(r) THEN Absent ELSE noted[q]]
  /\ entry' = [q \in Requests |-> IF q \in ServedBy(r) THEN NoRow ELSE entry[q]]
  /\ UNCHANGED <<dbVars, nextSeq, kmsVersion>>

\* An operator rotates the audit key in the KMS, on a deployment that has
\* signed with it and while no replica is starting.
RotateKmsKey ==
  /\ kmsVersion < MaxVersion
  /\ signingKeys # {}
  /\ \A r \in Replicas : ~Starting(r)
  /\ kmsVersion' = kmsVersion + 1
  /\ UNCHANGED <<dbVars, nextSeq, lockVars, replicaVars, requestVars>>

RequestStep(q) ==
  \/ WalkChain(q) \/ CompareHead(q) \/ HeadMismatch(q) \/ CheckRoute(q)
  \/ Refuse(q) \/ LockChain(q) \/ AppendEntry(q) \/ AppendThrows(q) \/ Commit(q)

Next ==
  \/ \E q \in Requests, o \in Operation : Arrive(q, o)
  \/ \E q \in Requests : RequestStep(q) \/ Abandon(q)
  \/ \E r \in Replicas : BootStep(r) \/ GenesisFails(r) \/ Crash(r)
  \/ \E x \in Refreshed : RefreshJwks(x)
  \/ RotateKmsKey

Spec == Init /\ [][Next]_vars

-----------------------------------------------------------------------------
(* Fairness, for liveness only.  Handlers and boots run on as long as the  *)
(* KMS answers (kms/vault.js sets no timeout on its calls).  The only      *)
(* steps that others can disable are the waits for an advisory lock, and   *)
(* Postgres queues those, so a lock that is freed again and again is       *)
(* eventually granted: strong fairness.  Nothing is assumed of failures,   *)
(* crashes, arrivals and rotations.                                        *)

Fairness ==
  /\ \A q \in Requests : SF_vars(RequestStep(q))
  /\ \A r \in Replicas : SF_vars(BootStep(r))

FairSpec == Spec /\ Fairness

-----------------------------------------------------------------------------
(* Properties.                                                             *)

Requesting == {"gate", "walked", "mismatch", "admitted", "ready", "locked", "appended"}
Booting == {"count", "init", "init-sign", "init-commit",
            "admin", "bootstrap", "bootstrap-sign", "bootstrap-commit"}

\* The values the variables range over.
TypeOK ==
  /\ data \in [Rows -> Content]
  /\ auditLog \subseteq LogRow
  /\ auditState \in [seq : 0 .. MaxSeq, hash : Seq(Payload)]
  /\ signingKeys \subseteq Key
  /\ nextSeq \in 1 .. MaxSeq + 1
  /\ chainLock \in Requests \cup Replicas \cup {Free}
  /\ bootLock \in Replicas \cup {Free}
  /\ kmsVersion \in Key
  /\ boot \in [Replicas -> Booting \cup {"down", "up"}]
  /\ key \in [Replicas -> Key \cup {NoKey}]
  /\ chainBroken \in [Replicas -> BOOLEAN]
  /\ genesis \in [Replicas -> LogRow \cup {NoRow}]
  /\ pc \in [Requests -> Requesting \cup {"idle"}]
  /\ op \in [Requests -> Operation \cup {NoOp}]
  /\ seen \in [Requests -> [seq : 0 .. MaxSeq, tail : Seq(Payload)]]
  /\ noted \in [Requests -> Content]
  /\ entry \in [Requests -> LogRow \cup {NoRow}]

\* What audit_verify_chain() checks holds in every committed state: the rows
\* ordered by seq are hash-linked and audit_state is the hash of the last
\* one, although rolled-back transactions leave gaps in seq, replicas boot
\* side by side and the bootstrap does not take the chain lock.
ChainIntact ==
  /\ Linked(auditLog)
  /\ auditState.hash = TailHash(auditLog)

\* Every committed row verifies offline: it was signed with the key it
\* names and that key is in audit_signing_keys, across rotations of the KMS
\* key, restarts and replicas that cached a version.
EntriesVerify ==
  \A r \in auditLog : r.key \in signingKeys /\ r.sig = r.key

\* The first row, and no other, is a genesis row: no mutation gets in before
\* it, and no two replicas that boot together each write one.
OneGenesis ==
  \A r \in auditLog :
    r.payload.kind # "mutation" <=> \A s \in auditLog : r.seq <= s.seq

\* The trail of a row whose before image is read under the chain lock (users,
\* roles, organisations, policies, callers, inline trust keys, active platform
\* keys) replays to the database: the last entry about it left what the row
\* holds now, and each entry found what the one before it left.  Nothing of
\* the kind is true of tags, grants, revoked platform keys and jwks_url rows.
Later(r, s) == s.seq > r.seq /\ s.payload.row = r.payload.row

TrailReplays ==
  \A r \in auditLog : r.payload.row \in Imaged =>
    \/ \E s \in auditLog :
         /\ Later(r, s)
         /\ s.payload.before = r.payload.after
         /\ \A t \in auditLog : Later(r, t) => s.seq <= t.seq
    \/ /\ \A s \in auditLog : ~Later(r, s)
       /\ data[r.payload.row] = r.payload.after

\* Those rows and the chain change together, one entry per change and only at
\* its end, whatever happens to the other rows: AuditChain implements
\* AuditLedger, the ledger being the payload sequence the head hash commits to.
Ledger == INSTANCE AuditLedger WITH
  Rows <- Imaged, OtherRows <- Rows \ Imaged,
  ledger <- auditState.hash, data <- [x \in Imaged |-> data[x]]

ImplementsLedger == Ledger!Spec

\* A gate that reports 'head_hash does not match chain tail' has found a
\* broken chain.
AlarmIsReal == (\E q \in Requests : pc[q] = "mismatch") => ~ChainIntact

\* Every request leaves the system, however many others wait for the chain
\* lock and whatever crashes or is rolled back.
EveryRequestEnds == \A q \in Requests : []<>(pc[q] = "idle")

\* A replica that starts finishes its boot or dies again: the two locks of
\* the genesis transactions are never waited for forever.
EveryBootEnds == \A r \in Replicas : []<>~Starting(r)

\* Once the chain has begun the studio has a user: with one request at a
\* time the checks of DELETE /api/users/:id see to that, whoever deletes whom,
\* and SecondGenesis shows how two requests defeat them.
Manned == auditLog # {} => Users # {}
=============================================================================
