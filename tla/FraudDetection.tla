--------------------------- MODULE FraudDetection ---------------------------
(***************************************************************************)
(* The fraud detection service (fraud-detection main.kt): one consumer of  *)
(* the topic "orders" that polls a batch of records, parses one after the  *)
(* other, and leaves the offsets to the Kafka client.                      *)
(*                                                                         *)
(* The client is modelled from how it is used, with its defaults: a poll   *)
(* commits, every few seconds, the end of the batch before; a group        *)
(* without an offset starts at the end of the topic; close() commits the   *)
(* end of the batch at hand.  The topic is written by others.              *)
(***************************************************************************)
EXTENDS Integers, Sequences

CONSTANTS Partitions,   \* partitions of the topic
          Poison        \* a payload that does not parse

VARIABLES
    log,       \* the topic: the messages of each partition
    offsets,   \* the group's committed offset of each partition
    fetched,   \* the end of the batch at hand
    next,      \* the record of it that comes next
    member,    \* whether the consumer is up and in its group: "down", "in" or "out"
    checked,   \* the records that were parsed: partition and number
    behind,    \* history: records of a batch that ended early, committed by close()
    before     \* history: the end of each partition when it was read without an offset

progress == <<offsets, fetched, next, member, checked, behind, before>>

NoOffset == -1

Init ==
    /\ offsets = [p \in Partitions |-> NoOffset]
    /\ fetched = [p \in Partitions |-> 0] /\ next = fetched
    /\ member = "down"
    /\ checked = {} /\ behind = {}
    /\ before = [p \in Partitions |-> 0]
-----------------------------------------------------------------------------
\* The rest of the batch.
Rest == UNION {{p} \X ((next[p] + 1)..fetched[p]) : p \in Partitions}
BatchDone == \A p \in Partitions : next[p] = fetched[p]

\* subscribe() and the first poll, or the poll after the group has expelled the consumer.
Join ==
    /\ member # "in" /\ BatchDone
    /\ member' = "in"
    /\ fetched' = [p \in Partitions |-> IF offsets[p] = NoOffset THEN Len(log[p]) ELSE offsets[p]]
    /\ next' = fetched'
    /\ before' = [p \in Partitions |-> IF offsets[p] = NoOffset THEN Len(log[p]) ELSE before[p]]
    /\ UNCHANGED <<log, offsets, checked, behind>>

\* Some records of each partition, none of them passed over.
Batches == {b \in [Partitions -> UNION {0..Len(log[p]) : p \in Partitions}] :
                \A p \in Partitions : fetched[p] <= b[p] /\ b[p] <= Len(log[p])}

\* Mutant: the offsets of a batch are committed as it is handed out.
PollCommitsAhead ==
    /\ member = "in" /\ BatchDone
    /\ fetched' \in Batches
    /\ offsets' \in {offsets, fetched'}
    /\ UNCHANGED <<log, next, member, checked, behind, before>>

\* poll(ofMillis(100)): the offsets of what it returned before may be committed.
Poll ==
    /\ member = "in" /\ BatchDone
    /\ offsets' \in {offsets, fetched}
    /\ fetched' \in Batches
    /\ UNCHANGED <<log, next, member, checked, behind, before>>

\* One record of the fold, that of an order; the consumer need not be in its group
\* any more.
Check(p) ==
    /\ member # "down" /\ next[p] < fetched[p]
    /\ log[p][next[p] + 1] # Poison
    /\ checked' = checked \cup {<<p, next[p] + 1>>}
    /\ next' = [next EXCEPT ![p] = @ + 1]
    /\ UNCHANGED <<log, offsets, fetched, member, behind, before>>

Quit == member' = "down" /\ next' = fetched

\* parseFrom throws, `use` closes the consumer and main ends; a consumer that is in
\* its group commits the whole batch as it closes, if that succeeds.
Throw(p) ==
    /\ member # "down" /\ next[p] < fetched[p]
    /\ log[p][next[p] + 1] = Poison
    /\ \/ UNCHANGED <<offsets, behind>>
       \/ member = "in" /\ offsets' = fetched /\ behind' = behind \cup Rest
    /\ Quit
    /\ UNCHANGED <<log, fetched, checked, before>>

\* No poll for max.poll.interval, which the flag's second per record adds up to, or no
\* heartbeat: the group goes on without the consumer, which is not told.
Expel == /\ member = "in" /\ member' = "out"
         /\ UNCHANGED <<log, offsets, fetched, next, checked, behind, before>>

\* The process is killed, or told to stop, which it does not wait for.
Crash == /\ member # "down" /\ Quit
         /\ UNCHANGED <<log, offsets, fetched, checked, behind, before>>

Next == Join \/ Poll \/ Expel \/ Crash \/ \E p \in Partitions : Check(p) \/ Throw(p)
-----------------------------------------------------------------------------
TypeOK ==
    /\ offsets \in [Partitions -> Nat \cup {NoOffset}]
    /\ fetched \in [Partitions -> Nat] /\ next \in [Partitions -> Nat]
    /\ member \in {"down", "in", "out"}
    /\ checked \subseteq Partitions \X Nat /\ behind \subseteq Partitions \X Nat
    /\ before \in [Partitions -> Nat]

\* A record of the topic that was checked, or that was passed over for a reason: it came
\* before the consumer had an offset, or in a batch after something that does not parse.
Passed(p, k) == <<p, k>> \in checked \cup behind \/ k <= before[p]
=============================================================================
