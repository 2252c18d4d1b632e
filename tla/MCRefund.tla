------------------------------ MODULE MCRefund ------------------------------
(* Instances of Refund for TLC. *)
EXTENDS Refund, TLC

CONSTANTS o1, c1, c2, c3, q1

\* Calls are interchangeable: no property names one.
CallSymmetry == Permutations(Calls)
=============================================================================
