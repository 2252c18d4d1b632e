---------------------------- MODULE OrderLedger ----------------------------
(***************************************************************************)
(* What accounting promises about the orders topic, without consumers,     *)
(* retries or failures: of every partition, the orders are recorded in the *)
(* order of the log, each at most once, and a position is acknowledged     *)
(* only when what is before it was recorded or is unreadable.  A record    *)
(* may expire; an order that expired may be recorded again.                *)
(***************************************************************************)
EXTENDS Naturals, Sequences

CONSTANTS Partitions, Orders, Poison

VARIABLES log, acked, recorded, expired

vars == <<log, acked, recorded, expired>>

Init == /\ log = [p \in Partitions |-> <<>>]
        /\ acked = [p \in Partitions |-> 0]
        /\ recorded = {} /\ expired = {}

Publish(p, m) == /\ log' = [log EXCEPT ![p] = Append(@, m)]
                 /\ UNCHANGED <<acked, recorded, expired>>

\* The first message of a partition that is not acknowledged.
Pending(p) == log[p][acked[p] + 1]

Record(p) == /\ acked[p] < Len(log[p])
             /\ Pending(p) \in Orders \ recorded
             /\ recorded' = recorded \cup {Pending(p)}
             /\ UNCHANGED <<log, acked, expired>>

Acknowledge(p) == /\ acked[p] < Len(log[p])
                  /\ Pending(p) \in recorded \cup expired \cup {Poison}
                  /\ acked' = [acked EXCEPT ![p] = @ + 1]
                  /\ UNCHANGED <<log, recorded, expired>>

Expire(o) == /\ o \in recorded
             /\ recorded' = recorded \ {o} /\ expired' = expired \cup {o}
             /\ UNCHANGED <<log, acked>>

\* A message that was acknowledged long ago is handled again.
Restore(o) == /\ o \in expired \ recorded
              /\ recorded' = recorded \cup {o}
              /\ UNCHANGED <<log, acked, expired>>

Next == \/ \E p \in Partitions : \/ \E m \in Orders \cup {Poison} : Publish(p, m)
                                 \/ Record(p) \/ Acknowledge(p)
        \/ \E o \in Orders : Expire(o) \/ Restore(o)

Spec == Init /\ [][Next]_vars
=============================================================================
