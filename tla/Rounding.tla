------------------------------- MODULE Rounding ------------------------------
(***************************************************************************)
(* std::bit_ceil, which gives the tables and the queues their capacities:  *)
(* the least power of two that is not below its argument.                  *)
(***************************************************************************)
EXTENDS Integers

bitCeil[n \in Nat] == IF n <= 1 THEN 1 ELSE 2 * bitCeil[(n + 1) \div 2]
=============================================================================
