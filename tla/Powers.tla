------------------------------- MODULE Powers -------------------------------
(***************************************************************************)
(* Powers of two, as the chips' shifts need them.  A recursive function,   *)
(* because the provers know nothing of 2 ^ n.                              *)
(***************************************************************************)
EXTENDS Integers

Pow2[n \in Nat] == IF n = 0 THEN 1 ELSE 2 * Pow2[n - 1]
=============================================================================
