-------------------------- MODULE MCOrderProducer --------------------------
(* Instances of OrderProducer for TLC. *)
EXTENDS OrderProducer
CONSTANTS r1, r2
=============================================================================
