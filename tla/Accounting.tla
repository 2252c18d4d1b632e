----------------------------- MODULE Accounting -----------------------------
(***************************************************************************)
(* The accounting service's Kafka consumer (accounting/Consumer.cs): any   *)
(* number of instances of the group "accounting" read the partitions of    *)
(* the topic "orders", write each order to PostgreSQL and commit the       *)
(* offset afterwards, while instances stop and start, partitions move, the *)
(* database and the broker fail, and an answer is lost after the effect;   *)
(* a job of the database deletes old orders.                               *)
(*                                                                         *)
(* Kafka and PostgreSQL are modelled from how the consumer uses them: a    *)
(* partition has one owner; a commit by another instance is refused; a     *)
(* new owner starts from the committed offset; order_id is a primary key.  *)
(***************************************************************************)
EXTENDS Naturals, Sequences

CONSTANTS Consumers,    \* instances of the service
          Partitions,   \* partitions of the topic
          Orders,       \* order ids
          Poison,       \* a payload that does not parse
          Unstorable,   \* orders PostgreSQL refuses for good (a NUL in a text, say)
          HasDb,        \* whether a database is configured
          MaxLog        \* bound: messages in a partition

Messages == Orders \cup {Poison}
NoOne == "no one"

ASSUME OrdersAssumption == /\ Poison \notin Orders
                           /\ Unstorable \subseteq Orders
                           /\ NoOne \notin Consumers
                           /\ HasDb \in BOOLEAN

VARIABLES
    log,         \* the topic: the messages of each partition
    committed,   \* the group's committed offset of each partition
    owner,       \* the instance each partition is assigned to
    position,    \* the offset the owner fetches next
    pc,          \* where each instance's loop stands
    part,        \* partition of the consumeResult at hand
    offset,      \* offset of the consumeResult at hand
    rows,        \* the table "order": rows of each order id
    expired      \* history: the orders of which a row was deleted

kafka == <<log, committed, owner, position>>
hand  == <<part, offset>>
table == <<rows, expired>>
vars  == <<kafka, hand, pc, table>>

Recorded == {o \in Orders : rows[o] > 0}
Stored   == Recorded \cup expired   \* the orders that are or were in the table

\* The message at hand, and whether ProcessMessage may call it processed.
AtHand(c) == log[part[c]][offset[c] + 1]
Handling(c) == pc[c] \in {"check", "save", "commit", "rewind"}

Init ==
    /\ log = [p \in Partitions |-> <<>>]
    /\ committed = [p \in Partitions |-> 0]
    /\ owner = [p \in Partitions |-> NoOne]
    /\ position = [p \in Partitions |-> 0]
    /\ pc = [c \in Consumers |-> "down"]
    /\ part \in [Consumers -> Partitions]
    /\ offset = [c \in Consumers |-> 0]
    /\ rows = [o \in Orders |-> 0]
    /\ expired = {}
-----------------------------------------------------------------------------
Goto(c, place) == pc' = [pc EXCEPT ![c] = place]

\* The instance is gone and its partitions are free.  So it is after a crash, after
\* Close() at a shutdown, and after any exception but a ConsumeException: that
\* one leaves the loop, and the host stops with the background service.
Quit(c) == /\ Goto(c, "down")
           /\ owner' = [p \in Partitions |-> IF owner[p] = c THEN NoOne ELSE owner[p]]

\* Checkout produces: an order, possibly one it has produced already, on a partition
\* of its producer's choice, or something that does not parse.
Produce(p, m) ==
    /\ Len(log[p]) < MaxLog
    /\ log' = [log EXCEPT ![p] = Append(@, m)]
    /\ UNCHANGED <<committed, owner, position, hand, pc, table>>

Start(c) == /\ pc[c] = "down" /\ Goto(c, "poll")
            /\ UNCHANGED <<kafka, hand, table>>

\* The group moves a partition to an instance that polls, away from one that does
\* not poll often enough if need be; that one is not told.
Assign(p, c) ==
    /\ owner[p] # c /\ pc[c] = "poll"
    /\ owner' = [owner EXCEPT ![p] = c]
    /\ position' = [position EXCEPT ![p] = committed[p]]
    /\ UNCHANGED <<log, committed, hand, pc, table>>

\* Consume().
Consume(c, p) ==
    /\ pc[c] = "poll" /\ owner[p] = c
    /\ position[p] < Len(log[p])
    /\ part' = [part EXCEPT ![c] = p]
    /\ offset' = [offset EXCEPT ![c] = position[p]]
    /\ position' = [position EXCEPT ![p] = @ + 1]
    /\ Goto(c, "check")
    /\ UNCHANGED <<log, committed, owner, table>>

\* ProcessMessage up to the query for the order id.
Parse(c) ==
    /\ pc[c] = "check" /\ (AtHand(c) = Poison \/ ~HasDb)
    /\ Goto(c, "commit")
    /\ UNCHANGED <<kafka, hand, table>>

Find(c) ==
    /\ pc[c] = "check" /\ AtHand(c) # Poison /\ HasDb
    /\ Goto(c, IF AtHand(c) \in Recorded THEN "commit" ELSE "save")
    /\ UNCHANGED <<kafka, hand, table>>

\* Mutant: an error counts as processed.
FailIgnored(c) ==
    /\ pc[c] = "save"
    /\ Goto(c, "commit")
    /\ UNCHANGED <<kafka, hand, table>>

\* The database cannot be reached, in the query or before SaveChanges takes effect,
\* or it refuses the order.
FailToStore(c) ==
    /\ \/ pc[c] = "check" /\ AtHand(c) # Poison /\ HasDb
       \/ pc[c] = "save"
    /\ Goto(c, "rewind")
    /\ UNCHANGED <<kafka, hand, table>>

\* Mutant: no primary key.
InsertAgain(c) ==
    /\ pc[c] = "save" /\ AtHand(c) \notin Unstorable
    /\ rows' = [rows EXCEPT ![AtHand(c)] = @ + 1]
    /\ UNCHANGED expired

\* SaveChanges: one transaction for the order, its items and its shipping.
Insert(c) ==
    /\ pc[c] = "save" /\ AtHand(c) \notin Recorded \cup Unstorable
    /\ rows' = [rows EXCEPT ![AtHand(c)] = @ + 1]
    /\ UNCHANGED expired

Save(c)     == Insert(c) /\ Goto(c, "commit") /\ UNCHANGED <<kafka, hand>>
SaveLost(c) == Insert(c) /\ Goto(c, "rewind") /\ UNCHANGED <<kafka, hand>>

\* The row appeared after the query: SqlState 23505.
Duplicate(c) ==
    /\ pc[c] = "save" /\ AtHand(c) \in Recorded
    /\ Goto(c, "commit")
    /\ UNCHANGED <<kafka, hand, table>>

Advance(c) == committed' = [committed EXCEPT ![part[c]] = offset[c] + 1]

\* Mutant: nobody checks who owns the partition.
CommitUnowned(c) ==
    /\ pc[c] = "commit"
    /\ Advance(c) /\ Goto(c, "poll")
    /\ UNCHANGED <<log, owner, position, hand, table>>

\* Commit(consumeResult).
Commit(c) ==
    /\ pc[c] = "commit" /\ owner[part[c]] = c
    /\ Advance(c) /\ Goto(c, "poll")
    /\ UNCHANGED <<log, owner, position, hand, table>>

\* Mutant: the loop goes on after a failed commit.
CommitSwallowed(c) ==
    /\ pc[c] = "commit" /\ Goto(c, "poll")
    /\ UNCHANGED <<kafka, hand, table>>

\* The commit throws: the instance no longer owns the partition, the broker is away,
\* or the answer is lost.
CommitFails(c) ==
    /\ pc[c] = "commit"
    /\ \/ UNCHANGED committed
       \/ owner[part[c]] = c /\ Advance(c)
    /\ Quit(c)
    /\ UNCHANGED <<log, position, hand, table>>

\* Mutant: no Seek.
RewindForgotten(c) ==
    /\ pc[c] = "rewind" /\ Goto(c, "poll")
    /\ UNCHANGED <<kafka, hand, table>>

\* Seek(TopicPartitionOffset), a second's sleep, and back to Consume.  Without the
\* partition it has no effect, or throws.
Rewind(c) ==
    /\ pc[c] = "rewind"
    /\ \/ /\ owner[part[c]] = c
          /\ position' = [position EXCEPT ![part[c]] = offset[c]]
          /\ Goto(c, "poll") /\ UNCHANGED owner
       \/ owner[part[c]] # c /\ Goto(c, "poll") /\ UNCHANGED <<position, owner>>
       \/ owner[part[c]] # c /\ Quit(c) /\ UNCHANGED position
    /\ UNCHANGED <<log, committed, hand, table>>

Crash(c) == /\ pc[c] # "down" /\ Quit(c)
            /\ UNCHANGED <<log, committed, position, hand, table>>

\* The hourly job expire-orders: of the orders with a row, those of two days ago.  There
\* is no clock here, so a row may be deleted at any time after it was written.
Expire(o) ==
    /\ o \in Recorded
    /\ rows' = [rows EXCEPT ![o] = 0]
    /\ expired' = expired \cup {o}
    /\ UNCHANGED <<kafka, hand, pc>>

Handle(c) == Parse(c) \/ Find(c) \/ FailToStore(c) \/ Save(c) \/ SaveLost(c)
             \/ Duplicate(c) \/ Commit(c) \/ CommitFails(c) \/ Rewind(c)

Next == \/ \E p \in Partitions, m \in Messages : Produce(p, m)
        \/ \E p \in Partitions, c \in Consumers : Assign(p, c) \/ Consume(c, p)
        \/ \E c \in Consumers : Start(c) \/ Handle(c) \/ Crash(c)
        \/ \E o \in Orders : Expire(o)

Safety == Init /\ [][Next]_vars

Owns(c) == owner[part[c]] = c

\* The orchestrator restarts an instance, the group hands out free partitions, the
\* loop runs; and no fault recurs for ever just where it hurts: what an owner can
\* do again and again it does in the end, before it crashes, loses the partition
\* or sees the call fail.
Fairness ==
    /\ \A c \in Consumers :
         /\ WF_vars(Start(c))
         /\ WF_vars(Handle(c))
         /\ SF_vars(Owns(c) /\ (Parse(c) \/ Find(c)))
         /\ SF_vars(Owns(c) /\ (Save(c) \/ Duplicate(c)))
         /\ SF_vars(Commit(c))
         /\ \A p \in Partitions : SF_vars(Consume(c, p))
    /\ \A p \in Partitions : SF_vars(\E c \in Consumers : owner[p] = NoOne /\ Assign(p, c))

Spec == Safety /\ Fairness
-----------------------------------------------------------------------------
TypeOK ==
    /\ log \in [Partitions -> Seq(Messages)]
    /\ committed \in [Partitions -> Nat]
    /\ owner \in [Partitions -> Consumers \cup {NoOne}]
    /\ position \in [Partitions -> Nat]
    /\ pc \in [Consumers -> {"down", "poll", "check", "save", "commit", "rewind"}]
    /\ part \in [Consumers -> Partitions]
    /\ offset \in [Consumers -> Nat]
    /\ rows \in [Orders -> Nat]
    /\ expired \subseteq Orders

\* "Data is persisted; safe to commit": every message before a committed offset is
\* an order that was written to the database, where it is until expire-orders deletes
\* it, or one that does not parse, whatever was replayed, reassigned or lost on the way.
CommittedIsRecorded ==
    HasDb => \A p \in Partitions : \A k \in 1..committed[p] : log[p][k] \in Stored \cup {Poison}

\* An order has at most one row at a time, however often it was produced or delivered,
\* also if it comes again when its row is deleted.
RecordedOnce == \A o \in Orders : rows[o] <= 1

\* A commit moves an offset by one message: an instance that lost its partition
\* neither takes it back nor skips what its successor has not handled.
CommitsAreSequential ==
    [][\A p \in Partitions : committed'[p] \in {committed[p], committed[p] + 1}]_vars

\* An instance handling a message of a partition that it owns handles the first one
\* that is not committed: Seek and the restart position leave no gap.
OwnerHandlesTheFirstUncommitted ==
    \A c \in Consumers : Handling(c) /\ owner[part[c]] = c => offset[c] = committed[part[c]]

\* The service implements the abstract ledger.
Ledger == INSTANCE OrderLedger WITH acked <- committed, recorded <- Recorded

ImplementsLedger == Ledger!Spec

\* The messages that no order PostgreSQL refuses stands in front of, or is itself.
Reachable(p) == {k \in 1..Len(log[p]) : \A j \in 1..k : log[p][j] \notin Unstorable}

\* Every message is committed in the end, unless an order that PostgreSQL refuses
\* is in its way: that one is retried for ever and holds up its partition.  As a partition
\* gets MaxLog messages at most, this says that accounting catches up again and again.
EveryMessageIsCommitted ==
    \A p \in Partitions : []<>(\A k \in Reachable(p) : k <= committed[p])
=============================================================================
