--------------------------- MODULE MCBundleCache ---------------------------
(* Small instances of BundleCache for TLC. *)
EXTENDS BundleCache, TLC

CONSTANTS orgA, pA, cGlobal, oA, oA2, oGlobal

MCOrgOf == [x \in Policies \cup Callers |-> IF x = pA THEN orgA ELSE Null]
MCKeyOf == [o \in Opas |-> IF o = oGlobal THEN Null ELSE orgA]

Symmetry == Permutations(Handlers) \cup Permutations(Builds) \cup Permutations(Opas)
=============================================================================
