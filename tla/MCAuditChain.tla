---------------------------- MODULE MCAuditChain ----------------------------
(* Small instances of AuditChain for TLC. *)
EXTENDS AuditChain, TLC

Symmetry == Permutations(Requests) \cup Permutations(Replicas)

\* Every tag list and unimaged row goes with the one record there is.
MCOwner == [x \in TagLists \cup Unimaged |-> CHOOSE y \in Records : TRUE]
=============================================================================
