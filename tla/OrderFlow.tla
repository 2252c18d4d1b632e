----------------------------- MODULE OrderFlow -----------------------------
(***************************************************************************)
(* An order's way from the checkout through the topic "orders" to its two  *)
(* readers: OrderLifecycle for what PlaceOrder does before it publishes    *)
(* (Checkout implements it), OrderProducer for the Kafka producer in the   *)
(* checkout pod, Accounting and FraudDetection for the readers.            *)
(*                                                                         *)
(* They meet in three places: a call reaches the producer after its order  *)
(* is shipped; what the producer writes, the topic gets or does not get,   *)
(* whatever is reported (RequiredAcks is NoResponse); both readers read    *)
(* one log.  The steps of the parts are theirs; here is what joins them.   *)
(***************************************************************************)
EXTENDS Accounting

CONSTANTS Copies,     \* the value of kafkaQueueProblems
          Capacity    \* messages the producer holds

VARIABLES
    stage, closed,                         \* of OrderLifecycle
    place, message, abandoned, drained,    \* of OrderProducer; place is its pc
    taken,                                 \* history: senders whose message the broker got
    offsets, fetched, next, member, checked, behind, before   \* of FraudDetection

sales    == <<stage, closed>>
sending  == <<place, message, abandoned, drained>>
fraud    == <<offsets, fetched, next, member, checked, behind, before>>
flowVars == <<vars, sales, sending, taken, fraud>>

Life     == INSTANCE OrderLifecycle
Producer == INSTANCE OrderProducer WITH Requests <- Orders, pc <- place
Fraud    == INSTANCE FraudDetection

FlowInit == Init /\ Life!Init /\ Producer!Init /\ taken = {} /\ Fraud!Init
-----------------------------------------------------------------------------
\* The call of PlaceOrder for an order.
Call(o) == <<o, 0>>

\* Payment, shipping and email, also those that PlaceOrder has given up waiting for.
Progress(o) ==
    /\ UNCHANGED <<closed, vars, sending, taken, fraud>>
    /\ Life!Pay(o) \/ Life!Dispatch(o) \/ Life!Announce(o)

\* The order is over: PlaceOrder has returned, or gives up before it publishes.
Finish(o) ==
    /\ o \notin closed /\ place[Call(o)] \in {"idle", "done"}
    /\ closed' = closed \cup {o}
    /\ UNCHANGED <<stage, vars, sending, taken, fraud>>

\* Mutant: the order is published before it is paid and shipped.
PublishEarly(o) ==
    /\ o \notin closed
    /\ Producer!Begin(Call(o))
    /\ UNCHANGED <<vars, sales, taken, fraud>>

\* PlaceOrder gets to sendToPostProcessor.
Publish(o) ==
    /\ o \notin closed /\ stage[o] \in {"shipped", "announced"}
    /\ Producer!Begin(Call(o))
    /\ UNCHANGED <<vars, sales, taken, fraud>>

\* Input() <- &msg, by the call or by a goroutine of the flag: the order is out.
Send(s) ==
    /\ Producer!Send(s)
    /\ stage' = [stage EXCEPT ![s[1]] = IF @ = "shipped" THEN "announced" ELSE @]
    /\ UNCHANGED <<closed, vars, taken, fraud>>

\* The topic gets the message of a sender.
Deliver(s) == /\ \E p \in Partitions : Produce(p, s[1])
              /\ taken' = taken \cup {s}

\* The producer writes and reports an outcome, which says nothing of whether the topic
\* got the message; before that it may try again, also after the topic got it.
Write(s) ==
    /\ Producer!Write(s)
    /\ Deliver(s) \/ UNCHANGED <<vars, taken>>
    /\ UNCHANGED <<sales, fraud>>
Retry(s) ==
    /\ message[s] = "accepted" /\ Deliver(s)
    /\ UNCHANGED <<sales, sending, fraud>>

\* The other steps of the senders and of the logging goroutine.
Answer(s) ==
    /\ \/ Producer!GiveUpSend(s) \/ Producer!Drain(s) \/ Producer!Abandon(s) \/ Producer!Flag(s)
       \/ \E m \in Producer!Senders : Producer!TakeSuccess(s, m) \/ Producer!TakeError(s, m)
    /\ UNCHANGED <<vars, sales, taken, fraud>>

\* The checkout pod stops: its calls end, and the producer loses what it holds.
Stop ==
    /\ place' = [s \in Producer!Senders |->
                    IF place[s] = "idle" /\ stage[s[1]] = "new" THEN "idle" ELSE "done"]
    /\ message' = [s \in Producer!Senders |-> IF message[s] = "none" THEN "none" ELSE "read"]
    /\ abandoned' = {} /\ drained' = {}
    /\ UNCHANGED <<vars, sales, taken, fraud>>

\* Something else on the topic.
Garble(p) == Produce(p, Poison) /\ UNCHANGED <<sales, sending, taken, fraud>>

Account ==
    /\ \/ \E p \in Partitions, c \in Consumers : Assign(p, c) \/ Consume(c, p)
       \/ \E c \in Consumers : Start(c) \/ Handle(c) \/ Crash(c)
       \/ \E o \in Orders : Expire(o)
    /\ UNCHANGED <<sales, sending, taken, fraud>>

Detect == Fraud!Next /\ UNCHANGED <<vars, sales, sending, taken>>

FlowNext == \/ \E o \in Orders : Progress(o) \/ Finish(o) \/ Publish(o)
            \/ \E s \in Producer!Senders : Send(s) \/ Write(s) \/ Retry(s) \/ Answer(s)
            \/ \E p \in Partitions : Garble(p)
            \/ Stop \/ Account \/ Detect

FlowSpec == FlowInit /\ [][FlowNext]_flowVars
-----------------------------------------------------------------------------
\* An order that accounting still has to read.
Unread(o) == \E p \in Partitions : \E k \in 1..Len(log[p]) : k > committed[p] /\ log[p][k] = o

\* The books agree with the sales.  What accounting has recorded was paid, shipped and
\* announced.  And no order is lost once the broker has got it, from whichever sender:
\* it is recorded until its row expires, or still to be read, whatever crashed on the way;
\* so an order that never was in the books never got to the topic, though PlaceOrder may
\* have read a success.
BooksAgreeWithSales ==
    HasDb => /\ \A o \in Stored : stage[o] = "announced"
             /\ \A s \in taken : s[1] \in Stored \/ Unread(s[1])

\* Fraud detection has checked what is or was in the books, or has still to read it, or passed
\* it over for a reason: the order was there before the group had an offset, or it was
\* in a batch with something that does not parse, committed by close().
RecordedIsChecked ==
    \A o \in Stored : \E p \in Partitions : \E k \in 1..Len(log[p]) :
        log[p][k] = o /\ (k > offsets[p] \/ Fraud!Passed(p, k))
=============================================================================
