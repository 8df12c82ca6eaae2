------------------------------ MODULE MCLockFree -----------------------------
(* LockFree on small instances: a step that may be the one that writes the *)
(* manifest and three that depend on it; and three callers of the ring.    *)
EXTENDS LockFree, TLC

CONSTANTS a, b, p, q

Generated == (a :> {}) @@ (b :> {a}) @@ (p :> {a, b}) @@ (q :> {a})

\* Items are only moved about; all the properties are safety properties.
Symmetry == Permutations(Items)
=============================================================================
