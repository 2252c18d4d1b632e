--------------------------- MODULE OrderLifecycle ---------------------------
(***************************************************************************)
(* What an order goes through, whatever service does it and however it     *)
(* fails: paid, then shipped, then announced to mail, accounting and fraud *)
(* detection, one stage at a time, and never again once it is closed.      *)
(***************************************************************************)
CONSTANT Orders

VARIABLES stage,    \* how far each order got
          closed    \* orders that are over, placed or abandoned

Init == stage = [o \in Orders |-> "new"] /\ closed = {}

Advance(o, from, to) ==
    /\ o \notin closed
    /\ stage[o] = from
    /\ stage' = [stage EXCEPT ![o] = to]
    /\ closed' \in {closed, closed \cup {o}}

Pay(o)      == Advance(o, "new", "paid")
Dispatch(o) == Advance(o, "paid", "shipped")
Announce(o) == Advance(o, "shipped", "announced")

\* Any number of orders end where they are.
Close == /\ closed \subseteq closed'
         /\ closed' \subseteq Orders
         /\ UNCHANGED stage

Next == Close \/ \E o \in Orders : Pay(o) \/ Dispatch(o) \/ Announce(o)

Spec == Init /\ [][Next]_<<stage, closed>>
=============================================================================
