--------------------------- MODULE OrderProducer ---------------------------
(***************************************************************************)
(* What is behind Checkout's Publish: all PlaceOrder calls hand their      *)
(* orders to one asynchronous producer (kafka/producer.go) and wait, at    *)
(* most 15 seconds, for an outcome on its two channels, which they share   *)
(* with each other, with the goroutine that logs errors, and with the      *)
(* goroutines of the kafkaQueueProblems flag.                              *)
(*                                                                         *)
(* The producer (sarama) is modelled from how it is used: it takes input   *)
(* while it holds fewer than Capacity messages, and holds a message until  *)
(* somebody has read its outcome.                                          *)
(***************************************************************************)
EXTENDS Naturals, FiniteSets

CONSTANTS Requests,   \* PlaceOrder calls
          Copies,     \* the value of kafkaQueueProblems
          Capacity    \* messages the producer holds before it stops reading Input()

ASSUME ProducerAssumption == /\ IsFiniteSet(Requests)
                             /\ Copies \in Nat
                             /\ Capacity \in Nat \ {0}

\* <<r, 0>> is the call r itself, <<r, k>> its k-th goroutine for the flag.
Senders == Requests \X (0..Copies)
Calls == Requests \X {0}

VARIABLES
    pc,          \* where each sender stands
    message,     \* the producer's view of each sender's message
    abandoned,   \* history: calls that left before they read an outcome
    drained      \* history: errors that the logging goroutine took

vars == <<pc, message, abandoned, drained>>

Pending == {s \in Senders : message[s] \in {"accepted", "success", "error"}}
Waiting == {s \in Senders : pc[s] = "wait"}

Init ==
    /\ pc = [s \in Senders |-> "idle"]
    /\ message = [s \in Senders |-> "none"]
    /\ abandoned = {} /\ drained = {}

-----------------------------------------------------------------------------
Goto(s, place) == pc' = [pc EXCEPT ![s] = place]

\* PlaceOrder gets to sendToPostProcessor.
Begin(s) ==
    /\ s \in Calls /\ pc[s] = "idle" /\ Goto(s, "send")
    /\ UNCHANGED <<message, abandoned, drained>>

\* Mutant: the caller goes on without waiting for an outcome.
SendOnly(s) ==
    /\ pc[s] = "send" /\ Cardinality(Pending) < Capacity
    /\ message' = [message EXCEPT ![s] = "accepted"]
    /\ Goto(s, IF s \in Calls THEN "flag" ELSE "done")
    /\ UNCHANGED <<abandoned, drained>>

\* Input() <- &msg.
Send(s) ==
    /\ pc[s] = "send" /\ Cardinality(Pending) < Capacity
    /\ message' = [message EXCEPT ![s] = "accepted"]
    /\ Goto(s, "wait")
    /\ UNCHANGED <<abandoned, drained>>

\* ctx is cancelled before the producer takes the message.
GiveUpSend(s) ==
    /\ s \in Calls /\ pc[s] = "send" /\ Goto(s, "done")
    /\ UNCHANGED <<message, abandoned, drained>>

\* The producer writes to the broker.  RequiredAcks is NoResponse: what was written
\* counts as a success, whether the broker got it or not.
Write(s) ==
    /\ message[s] = "accepted"
    /\ \E outcome \in {"success", "error"} : message' = [message EXCEPT ![s] = outcome]
    /\ UNCHANGED <<pc, abandoned, drained>>

\* The sender goes on once it has its outcome, or anybody's: a call to the flag, a
\* goroutine to its end.
Leave(s) == Goto(s, IF s \in Calls THEN "flag" ELSE "done")

\* <-Successes(), by whoever waits.
TakeSuccess(s, m) ==
    /\ pc[s] = "wait" /\ message[m] = "success"
    /\ message' = [message EXCEPT ![m] = "read"]
    /\ Leave(s)
    /\ UNCHANGED <<abandoned, drained>>

\* <-Errors(): the calls wait for it too, the goroutines of the flag do not.
TakeError(s, m) ==
    /\ s \in Calls /\ pc[s] = "wait" /\ message[m] = "error"
    /\ message' = [message EXCEPT ![m] = "read"]
    /\ Leave(s)
    /\ UNCHANGED <<abandoned, drained>>

\* Mutant: the logging goroutine reads one error, not all.
DrainOnce(m) ==
    /\ drained = {} /\ message[m] = "error"
    /\ message' = [message EXCEPT ![m] = "read"]
    /\ drained' = drained \cup {m}
    /\ UNCHANGED <<pc, abandoned>>

\* Mutant: it logs the successes too.
DrainAll(m) ==
    /\ message[m] \in {"success", "error"}
    /\ message' = [message EXCEPT ![m] = "read"]
    /\ drained' = drained \cup {m}
    /\ UNCHANGED <<pc, abandoned>>

\* The logging goroutine of CreateKafkaProducer.
Drain(m) ==
    /\ message[m] = "error"
    /\ message' = [message EXCEPT ![m] = "read"]
    /\ drained' = drained \cup {m}
    /\ UNCHANGED <<pc, abandoned>>

\* 15 seconds have passed, or ctx is cancelled.
Abandon(s) ==
    /\ s \in Calls /\ pc[s] = "wait"
    /\ abandoned' = abandoned \cup {s}
    /\ Leave(s)
    /\ UNCHANGED <<message, drained>>

\* getIntFeatureFlag: off, or on with a goroutine per copy.
Flag(s) ==
    /\ s \in Calls /\ pc[s] = "flag"
    /\ \/ Goto(s, "done")
       \/ pc' = [t \in Senders |-> IF t = s THEN "done"
                                   ELSE IF t[1] = s[1] THEN "send" ELSE pc[t]]
    /\ UNCHANGED <<message, abandoned, drained>>

Next == \/ \E s \in Senders : \/ Begin(s) \/ Send(s) \/ GiveUpSend(s)
                              \/ Write(s) \/ Drain(s) \/ Abandon(s) \/ Flag(s)
        \/ \E s, m \in Senders : TakeSuccess(s, m) \/ TakeError(s, m)

\* The producer works, the logging goroutine reads, an outcome is read if somebody
\* waits for it, the 15 seconds pass, and a blocked send gets its turn (they queue).
Fairness ==
    /\ WF_vars(\E s \in Senders : Write(s) \/ Drain(s) \/ Abandon(s) \/ Flag(s))
    /\ WF_vars(\E s, m \in Senders : TakeSuccess(s, m))
    /\ \A s \in Senders : SF_vars(Send(s))

Spec == Init /\ [][Next]_vars /\ Fairness
-----------------------------------------------------------------------------
\* Types; who waits, or goes on to the flag, has a message with the producer.
TypeOK ==
    /\ pc \in [Senders -> {"idle", "send", "wait", "flag", "done"}]
    /\ message \in [Senders -> {"none", "accepted", "success", "error", "read"}]
    /\ abandoned \subseteq Calls /\ drained \subseteq Senders
    /\ \A s \in Senders : /\ pc[s] \in {"idle", "send"} => message[s] = "none"
                          /\ pc[s] \in {"wait", "flag"} => message[s] # "none"

\* Senders and outcomes balance, though nobody is sure to read his own (the selects of
\* sendToPostProcessor and its goroutines, and the loop over Errors()): for each
\* outcome the producer holds, and each one the log took, a sender waits or has left
\* without one.  So the producer fills up with what was abandoned, and a goroutine that
\* waits for ever lost its outcome to the log.
OutcomesBalance ==
    Cardinality(Pending) + Cardinality(drained) = Cardinality(Waiting) + Cardinality(abandoned)

\* The producer is full of successes that nobody waits for.
Stuck == /\ Cardinality({s \in Senders : message[s] = "success"}) >= Capacity
         /\ Waiting = {}

\* It never recovers: an outcome is only read by who has sent before, so after some calls
\* that gave up (15 seconds, ctx.Done) no later order is taken any more.
StuckForGood == [][Stuck => Stuck']_vars

\* Nothing else blocks a sender for ever: a send to Input() ends, or the producer is stuck.
SendsEndUnlessStuck ==
    \A s \in Senders : pc[s] = "send" ~> pc[s] # "send" \/ Stuck
=============================================================================
