---------------------------- MODULE AuditLedger ----------------------------
(***************************************************************************)
(* What the audit service promises about the rows whose before image it    *)
(* reads under the chain lock, with no replicas, transactions, keys or     *)
(* hashes: they and the ledger change together, one entry per change, and  *)
(* nothing ever leaves the ledger.  Of the other rows it promises entries, *)
(* and no more.  AuditChain implements it.                                 *)
(***************************************************************************)
EXTENDS Integers, Sequences

CONSTANTS
  Rows,      \* the rows imaged under the lock (users, policies, callers, ...)
  OtherRows, \* the rows that are written about without that
  Root,      \* the user row of the bootstrap administrator
  Contents,  \* what a present row may hold
  Absent     \* the content of a row that is not in its table

VARIABLES
  ledger,    \* the entries, oldest first
  data       \* data[x]: the content of row x

vars == <<ledger, data>>

Entry(kind, x, before, after) ==
  [kind |-> kind, row |-> x, before |-> before, after |-> after]

Init ==
  /\ ledger = << >>
  /\ data \in [Rows -> Contents \cup {Absent}]

\* The chain of a deployment that already has users starts with an entry
\* that changes no row.
DeploymentGenesis ==
  /\ ledger = << >>
  /\ ledger' = << Entry("deployment_genesis", Root, data[Root], data[Root]) >>
  /\ data[Root] # Absent
  /\ UNCHANGED data

\* The chain of a fresh deployment starts with the entry that creates the
\* first administrator.
BootstrapGenesis(v) ==
  /\ ledger = << >>
  /\ data[Root] = Absent
  /\ ledger' = << Entry("genesis", Root, Absent, v) >>
  /\ data' = [data EXCEPT ![Root] = v]

\* An audited mutation is recorded with what it replaced and what it left.
Record(x, v) ==
  /\ ledger # << >>
  /\ ledger' = Append(ledger, Entry("mutation", x, data[x], v))
  /\ data' = [data EXCEPT ![x] = v]

\* An entry about another row: whatever it says, it is the last one.
Note(x, b, a) ==
  /\ ledger # << >>
  /\ ledger' = Append(ledger, Entry("mutation", x, b, a))
  /\ UNCHANGED data

Next ==
  \/ DeploymentGenesis
  \/ \E v \in Contents : BootstrapGenesis(v)
  \/ \E x \in Rows, v \in Contents \cup {Absent} : Record(x, v)
  \/ \E x \in OtherRows, b, a \in Contents \cup {Absent} : Note(x, b, a)

Spec == Init /\ [][Next]_vars
=============================================================================
