-------------------------- MODULE OrderFlowProofs --------------------------
(***************************************************************************)
(* Proofs about Accounting, and then about OrderFlow, which it is a part   *)
(* of, for any numbers of instances, partitions, orders, copies and        *)
(* messages, and with no fairness assumed.                                 *)
(***************************************************************************)
EXTENDS OrderFlow, Integers, TLAPS

\* Next, with every action named once.
LEMMA NextCases ==
    ASSUME Next, NEW P,
           \A p \in Partitions, m \in Messages : Produce(p, m) => P,
           \A p \in Partitions, c \in Consumers : Assign(p, c) => P,
           \A p \in Partitions, c \in Consumers : Consume(c, p) => P,
           \A c \in Consumers : Start(c) => P,
           \A c \in Consumers : Parse(c) \/ Find(c) \/ FailToStore(c) => P,
           \A c \in Consumers : Save(c) \/ SaveLost(c) => P,
           \A c \in Consumers : Duplicate(c) => P,
           \A c \in Consumers : Commit(c) => P,
           \A c \in Consumers : CommitFails(c) => P,
           \A c \in Consumers : Rewind(c) => P,
           \A c \in Consumers : Crash(c) => P,
           \A o \in Orders : Expire(o) => P
    PROVE  P
BY DEF Next, Handle

-----------------------------------------------------------------------------
\* The consumeResult at hand is in the log and not beyond the committed offset; it is
\* the committed offset as long as the instance owns the partition.  An instance that
\* lost its partition may hold an older message: that one was recorded already.
HandInv(c) ==
    Handling(c) => /\ offset[c] < Len(log[part[c]])
                   /\ offset[c] <= committed[part[c]]
                   /\ Owns(c) => /\ offset[c] = committed[part[c]]
                                 /\ position[part[c]] = offset[c] + 1

\* What ProcessMessage has found out about it still holds.
VerdictInv(c) ==
    /\ pc[c] = "save" => HasDb /\ AtHand(c) # Poison
    /\ pc[c] = "commit" /\ HasDb => AtHand(c) \in Stored \cup {Poison}

\* An owner is running, and fetches next what is not committed, unless it handles it.
PartitionInv(p) ==
    /\ committed[p] <= Len(log[p])
    /\ \A c \in Consumers : owner[p] = c =>
           pc[c] # "down" /\ ((Handling(c) /\ part[c] = p) \/ position[p] = committed[p])

IInv == /\ TypeOK
        /\ \A c \in Consumers : HandInv(c) /\ VerdictInv(c)
        /\ \A p \in Partitions : PartitionInv(p)
        /\ CommittedIsRecorded
        /\ RecordedOnce

LEMMA IInvInit == Init => IInv
BY OrdersAssumption DEF Init, IInv, TypeOK, HandInv, VerdictInv, PartitionInv, Handling,
       CommittedIsRecorded, RecordedOnce, Messages

\* A step that leaves the log, the offsets and the table alone keeps CommittedIsRecorded.
LEMMA TableAside == IInv /\ UNCHANGED <<log, committed, table>>
                        => CommittedIsRecorded' /\ RecordedOnce'
BY DEF IInv, CommittedIsRecorded, RecordedOnce, Recorded, Stored, table

\* A commit by the owner moves the offset by one, over a message that was recorded.
Advanced(c) == /\ Handling(c) /\ offset[c] < Len(log[part[c]])
               /\ offset[c] = committed[part[c]]
               /\ committed' = [committed EXCEPT ![part[c]] = @ + 1]
               /\ CommittedIsRecorded'

LEMMA AdvanceKeeps ==
    ASSUME IInv, NEW c \in Consumers, pc[c] = "commit", Owns(c), Advance(c),
           UNCHANGED <<log, table>>
    PROVE  Advanced(c)
<1>1. Handling(c) /\ offset[c] = committed[part[c]] /\ offset[c] < Len(log[part[c]])
  BY DEF Handling, IInv, HandInv
<1>2. committed' = [committed EXCEPT ![part[c]] = @ + 1]
  BY <1>1 DEF Advance
<1>3. CommittedIsRecorded'
  <2> SUFFICES ASSUME HasDb, NEW p \in Partitions, NEW k \in 1..committed'[p]
               PROVE  log[p][k] \in Stored \cup {Poison}
    BY DEF CommittedIsRecorded, Recorded, Stored, table
  <2>1. CASE k \in 1..committed[p]
    BY <2>1 DEF IInv, CommittedIsRecorded
  <2>2. CASE k \notin 1..committed[p]
    <3>1. p = part[c] /\ k = offset[c] + 1
      BY <1>1, <1>2, <2>2 DEF IInv, TypeOK
    <3>2. QED
      BY <3>1 DEF IInv, VerdictInv, AtHand
  <2>3. QED
    BY <2>1, <2>2
<1>4. QED
  BY <1>1, <1>2, <1>3 DEF Advanced

LEMMA IInvStep == IInv /\ [Next]_vars => IInv'
<1> SUFFICES ASSUME IInv, [Next]_vars PROVE IInv'
  OBVIOUS
<1> USE OrdersAssumption
<1> USE DEF kafka, hand, table, vars, Goto, Handling, Owns, AtHand, Recorded, Stored
<1>1. ASSUME NEW p \in Partitions, NEW m \in Messages, Produce(p, m) PROVE IInv'
  <2>1. log' = [log EXCEPT ![p] = Append(@, m)] /\ log' \in [Partitions -> Seq(Messages)]
    BY <1>1 DEF Produce, IInv, TypeOK
  <2>2. ASSUME NEW q \in Partitions, NEW k \in 1..Len(log[q])
        PROVE  log'[q][k] = log[q][k]
    BY <2>1 DEF IInv, TypeOK
  <2>3. ASSUME NEW q \in Partitions PROVE Len(log[q]) <= Len(log'[q])
    BY <2>1 DEF IInv, TypeOK
  <2>4. TypeOK'
    BY <1>1, <2>1 DEF Produce, IInv, TypeOK
  <2>5. ASSUME NEW c \in Consumers PROVE HandInv(c)' /\ VerdictInv(c)'
    <3>1. part[c] \in Partitions /\ offset[c] \in Nat /\ Len(log[part[c]]) \in Nat
          /\ Len(log'[part[c]]) \in Nat
      BY <2>1 DEF IInv, TypeOK
    <3>2. HandInv(c)'
      BY <1>1, <2>3, <3>1 DEF Produce, IInv, HandInv
    <3>3. Handling(c) => offset[c] + 1 \in 1..Len(log[part[c]])
      BY <3>1 DEF IInv, HandInv
    <3>4. VerdictInv(c)'
      BY <1>1, <2>2, <3>1, <3>3 DEF Produce, IInv, VerdictInv
    <3>5. QED
      BY <3>2, <3>4
  <2>6. ASSUME NEW q \in Partitions PROVE PartitionInv(q)'
    BY <1>1, <2>1, <2>3 DEF Produce, IInv, TypeOK, PartitionInv
  <2>7. CommittedIsRecorded' /\ RecordedOnce'
    <3>1. \A q \in Partitions : \A k \in 1..committed[q] : k \in 1..Len(log[q])
      BY DEF IInv, TypeOK, PartitionInv
    <3>2. QED
      BY <1>1, <2>2, <3>1 DEF Produce, IInv, CommittedIsRecorded, RecordedOnce
  <2>8. QED
    BY <2>4, <2>5, <2>6, <2>7 DEF IInv
<1>2. ASSUME NEW p \in Partitions, NEW c \in Consumers, Assign(p, c) PROVE IInv'
  <2>1. CommittedIsRecorded' /\ RecordedOnce'
    BY <1>2, TableAside DEF Assign
  <2>2. TypeOK'
    BY <1>2 DEF Assign, IInv, TypeOK
  <2>3. ASSUME NEW d \in Consumers PROVE HandInv(d)' /\ VerdictInv(d)'
    BY <1>2 DEF Assign, IInv, TypeOK, HandInv, VerdictInv
  <2>4. ASSUME NEW q \in Partitions PROVE PartitionInv(q)'
    BY <1>2 DEF Assign, IInv, TypeOK, PartitionInv
  <2>5. QED
    BY <2>1, <2>2, <2>3, <2>4 DEF IInv
<1>3. ASSUME NEW p \in Partitions, NEW c \in Consumers, Consume(c, p) PROVE IInv'
  <2>1. CommittedIsRecorded' /\ RecordedOnce'
    BY <1>3, TableAside DEF Consume
  <2>2. TypeOK'
    BY <1>3 DEF Consume, IInv, TypeOK
  <2>3. position[p] = committed[p]
    BY <1>3 DEF Consume, IInv, PartitionInv
  <2>4. ASSUME NEW d \in Consumers PROVE HandInv(d)' /\ VerdictInv(d)'
    BY <1>3, <2>3 DEF Consume, IInv, TypeOK, HandInv, VerdictInv
  <2>5. ASSUME NEW q \in Partitions PROVE PartitionInv(q)'
    BY <1>3 DEF Consume, IInv, TypeOK, PartitionInv
  <2>6. QED
    BY <2>1, <2>2, <2>4, <2>5 DEF IInv
<1>4. ASSUME NEW c \in Consumers, Start(c) PROVE IInv'
  <2>1. CommittedIsRecorded' /\ RecordedOnce'
    BY <1>4, TableAside DEF Start
  <2>2. QED
    BY <1>4, <2>1 DEF Start, IInv, TypeOK, HandInv, VerdictInv, PartitionInv
<1>5. ASSUME NEW c \in Consumers, Parse(c) \/ Find(c) \/ FailToStore(c) PROVE IInv'
  <2>1. CommittedIsRecorded' /\ RecordedOnce'
    BY <1>5, TableAside DEF Parse, Find, FailToStore
  <2>2. TypeOK'
    BY <1>5 DEF Parse, Find, FailToStore, IInv, TypeOK
  <2>3. ASSUME NEW d \in Consumers PROVE HandInv(d)' /\ VerdictInv(d)'
    BY <1>5 DEF Parse, Find, FailToStore, IInv, TypeOK, HandInv, VerdictInv
  <2>4. ASSUME NEW q \in Partitions PROVE PartitionInv(q)'
    BY <1>5 DEF Parse, Find, FailToStore, IInv, TypeOK, PartitionInv
  <2>5. QED
    BY <2>1, <2>2, <2>3, <2>4 DEF IInv
<1>6. ASSUME NEW c \in Consumers, Save(c) \/ SaveLost(c) PROVE IInv'
  <2>1. /\ AtHand(c) \in Orders /\ rows[AtHand(c)] = 0
        /\ rows' = [rows EXCEPT ![AtHand(c)] = 1]
    <3>1. pc[c] = "save" /\ AtHand(c) \notin Recorded
          /\ rows' = [rows EXCEPT ![AtHand(c)] = rows[AtHand(c)] + 1]
      BY <1>6 DEF Save, SaveLost, Insert
    <3>2. /\ part[c] \in Partitions /\ offset[c] \in Nat /\ log[part[c]] \in Seq(Messages)
          /\ offset[c] < Len(log[part[c]])
      BY <3>1 DEF IInv, TypeOK, HandInv
    <3>3. AtHand(c) \in Messages
      BY <3>2
    <3>4. AtHand(c) \in Orders
      BY <3>1, <3>3 DEF Messages, IInv, VerdictInv
    <3>5. rows[AtHand(c)] = 0
      BY <3>1, <3>4 DEF IInv, TypeOK
    <3>6. QED
      BY <3>1, <3>4, <3>5
  <2>2. Recorded' = Recorded \cup {AtHand(c)} /\ Stored' = Stored \cup {AtHand(c)}
    BY <1>6, <2>1 DEF Save, SaveLost, Insert, IInv, TypeOK
  <2>3. TypeOK'
    BY <1>6, <2>1 DEF Save, SaveLost, Insert, IInv, TypeOK
  <2>4. CommittedIsRecorded' /\ RecordedOnce'
    <3>1. RecordedOnce'
      BY <2>1 DEF IInv, TypeOK, RecordedOnce
    <3>2. UNCHANGED <<log, committed>>
      BY <1>6 DEF Save, SaveLost
    <3>3. CommittedIsRecorded'
      <4> HIDE DEF Recorded, Stored
      <4>1. QED
        BY <2>2, <3>2 DEF IInv, CommittedIsRecorded
    <3>4. QED
      BY <3>1, <3>3
  <2>5. ASSUME NEW d \in Consumers PROVE HandInv(d)' /\ VerdictInv(d)'
    BY <1>6, <2>2 DEF Save, SaveLost, Insert, IInv, TypeOK, HandInv, VerdictInv
  <2>6. ASSUME NEW q \in Partitions PROVE PartitionInv(q)'
    BY <1>6 DEF Save, SaveLost, Insert, IInv, TypeOK, PartitionInv
  <2>7. QED
    BY <2>3, <2>4, <2>5, <2>6 DEF IInv
<1>7. ASSUME NEW c \in Consumers, Duplicate(c) PROVE IInv'
  <2>1. CommittedIsRecorded' /\ RecordedOnce'
    BY <1>7, TableAside DEF Duplicate
  <2>2. TypeOK'
    BY <1>7 DEF Duplicate, IInv, TypeOK
  <2>3. ASSUME NEW d \in Consumers PROVE HandInv(d)' /\ VerdictInv(d)'
    BY <1>7 DEF Duplicate, IInv, TypeOK, HandInv, VerdictInv
  <2>4. ASSUME NEW q \in Partitions PROVE PartitionInv(q)'
    BY <1>7 DEF Duplicate, IInv, TypeOK, PartitionInv
  <2>5. QED
    BY <2>1, <2>2, <2>3, <2>4 DEF IInv
<1>8. ASSUME NEW c \in Consumers, Commit(c) PROVE IInv'
  <2>1. Advanced(c)
    BY <1>8, AdvanceKeeps DEF Commit
  <2>2. TypeOK'
    BY <1>8, <2>1 DEF Commit, Advanced, IInv, TypeOK
  <2>3. ASSUME NEW d \in Consumers PROVE HandInv(d)' /\ VerdictInv(d)'
    BY <1>8, <2>1 DEF Commit, Advanced, IInv, TypeOK, HandInv, VerdictInv
  <2>4. ASSUME NEW q \in Partitions PROVE PartitionInv(q)'
    BY <1>8, <2>1 DEF Commit, Advanced, IInv, TypeOK, HandInv, PartitionInv
  <2>5. QED
    BY <1>8, <2>1, <2>2, <2>3, <2>4 DEF Commit, IInv, Advanced, RecordedOnce
<1>9. ASSUME NEW c \in Consumers, CommitFails(c) PROVE IInv'
  <2> USE DEF Quit
  <2>1. UNCHANGED committed \/ Advanced(c)
    BY <1>9, AdvanceKeeps DEF CommitFails
  <2>2. TypeOK'
    BY <1>9, <2>1 DEF CommitFails, Advanced, IInv, TypeOK
  <2>3. ASSUME NEW d \in Consumers PROVE HandInv(d)' /\ VerdictInv(d)'
    <3>1. Stored' = Stored
      BY <1>9 DEF CommitFails
    <3> HIDE DEF Recorded, Stored
    <3>2. HandInv(d)'
      <4>1. CASE UNCHANGED committed
        BY <1>9, <4>1 DEF CommitFails, IInv, TypeOK, HandInv
      <4>2. CASE Advanced(c)
        BY <1>9, <4>2 DEF CommitFails, Advanced, IInv, TypeOK, HandInv
      <4>3. QED
        BY <2>1, <4>1, <4>2
    <3>3. VerdictInv(d)'
      BY <1>9, <3>1 DEF CommitFails, IInv, TypeOK, VerdictInv
    <3>4. QED
      BY <3>2, <3>3
  <2>4. ASSUME NEW q \in Partitions PROVE PartitionInv(q)'
    <3>1. (committed[q] <= Len(log[q]))'
      <4>1. committed[q] <= Len(log[q]) /\ committed[q] \in Nat /\ Len(log[q]) \in Nat
        BY DEF IInv, TypeOK, PartitionInv
      <4>2. UNCHANGED log
        BY <1>9 DEF CommitFails, Advanced
      <4>3. CASE UNCHANGED committed
        BY <4>1, <4>2, <4>3
      <4>4. CASE Advanced(c)
        <5>1. committed'[q] = IF q = part[c] THEN committed[q] + 1 ELSE committed[q]
          BY <4>4 DEF Advanced, IInv, TypeOK
        <5>2. q = part[c] => committed[q] < Len(log[q])
          BY <4>4 DEF Advanced
        <5>3. QED
          BY <4>1, <4>2, <5>1, <5>2
      <4>5. QED
        BY <2>1, <4>3, <4>4
    <3>2. ASSUME NEW d \in Consumers, owner'[q] = d
          PROVE  pc'[d] # "down" /\ ((Handling(d) /\ part[d] = q)' \/ position'[q] = committed'[q])
      <4>1. pc[d] # "down" /\ ((Handling(d) /\ part[d] = q) \/ position[q] = committed[q])
        <5>1. owner[q] = d
          BY <1>9, <3>2 DEF CommitFails, Advanced, IInv, TypeOK
        <5>2. QED
          BY <5>1 DEF IInv, PartitionInv
      <4>2. CASE d = c
        BY <1>9, <2>1, <3>2, <4>1, <4>2 DEF CommitFails, Advanced, IInv, TypeOK, HandInv
      <4>3. CASE d # c
        <5>1. Handling(c) /\ Owns(c) => part[c] # q
          BY <1>9, <3>2, <4>3 DEF CommitFails, Advanced, IInv, TypeOK
        <5>2. QED
          BY <1>9, <2>1, <3>2, <4>1, <4>3, <5>1 DEF CommitFails, Advanced, IInv, TypeOK
      <4>4. QED
        BY <4>2, <4>3
    <3>3. QED
      BY <3>1, <3>2 DEF IInv, PartitionInv
  <2>5. CommittedIsRecorded' /\ RecordedOnce'
    BY <1>9, <2>1, TableAside DEF CommitFails, Advanced, IInv, RecordedOnce
  <2>6. QED
    BY <2>2, <2>3, <2>4, <2>5 DEF IInv
<1>10. ASSUME NEW c \in Consumers, Rewind(c) PROVE IInv'
  <2> USE DEF Quit
  <2>1. CommittedIsRecorded' /\ RecordedOnce'
    BY <1>10, TableAside DEF Rewind
  <2>2. TypeOK'
    BY <1>10 DEF Rewind, IInv, TypeOK
  <2>3. ASSUME NEW d \in Consumers PROVE HandInv(d)' /\ VerdictInv(d)'
    BY <1>10 DEF Rewind, IInv, TypeOK, HandInv, VerdictInv
  <2>4. ASSUME NEW q \in Partitions PROVE PartitionInv(q)'
    <3>1. (committed[q] <= Len(log[q]))'
      <4>1. committed[q] <= Len(log[q]) /\ committed[q] \in Nat /\ Len(log[q]) \in Nat
        BY DEF IInv, TypeOK, PartitionInv
      <4>2. UNCHANGED log
        BY <1>10 DEF Rewind
      <4>3. QED
        BY <1>10, <4>1, <4>2 DEF Rewind, IInv, TypeOK
    <3>2. ASSUME NEW d \in Consumers, owner'[q] = d
          PROVE  pc'[d] # "down" /\ ((Handling(d) /\ part[d] = q)' \/ position'[q] = committed'[q])
      <4>1. pc[d] # "down" /\ ((Handling(d) /\ part[d] = q) \/ position[q] = committed[q])
        <5>1. owner[q] = d
          BY <1>10, <3>2 DEF Rewind, IInv, TypeOK
        <5>2. QED
          BY <5>1 DEF IInv, PartitionInv
      <4>2. CASE d = c
        BY <1>10, <3>2, <4>1, <4>2 DEF Rewind, IInv, TypeOK, HandInv
      <4>3. CASE d # c
        <5>1. Handling(c) /\ Owns(c) => part[c] # q
          BY <1>10, <3>2, <4>3 DEF Rewind, IInv, TypeOK
        <5>2. QED
          BY <1>10, <3>2, <4>1, <4>3, <5>1 DEF Rewind, IInv, TypeOK
      <4>4. QED
        BY <4>2, <4>3
    <3>3. QED
      BY <3>1, <3>2 DEF IInv, PartitionInv
  <2>5. QED
    BY <2>1, <2>2, <2>3, <2>4 DEF IInv
<1>11. ASSUME NEW c \in Consumers, Crash(c) PROVE IInv'
  <2> USE DEF Quit
  <2>1. CommittedIsRecorded' /\ RecordedOnce'
    BY <1>11, TableAside DEF Crash
  <2>2. TypeOK'
    BY <1>11 DEF Crash, IInv, TypeOK
  <2>3. ASSUME NEW d \in Consumers PROVE HandInv(d)' /\ VerdictInv(d)'
    BY <1>11 DEF Crash, IInv, TypeOK, HandInv, VerdictInv
  <2>4. ASSUME NEW q \in Partitions PROVE PartitionInv(q)'
    BY <1>11 DEF Crash, IInv, TypeOK, PartitionInv
  <2>5. QED
    BY <2>1, <2>2, <2>3, <2>4 DEF IInv
<1>12. ASSUME NEW o \in Orders, Expire(o) PROVE IInv'
  <2>1. /\ rows' = [rows EXCEPT ![o] = 0] /\ expired' = expired \cup {o}
        /\ UNCHANGED <<kafka, hand, pc>>
    BY <1>12 DEF Expire
  <2>2. Stored' = Stored
    BY <1>12, <2>1 DEF Expire, IInv, TypeOK
  <2>3. TypeOK' /\ RecordedOnce'
    BY <2>1 DEF IInv, TypeOK, RecordedOnce
  <2>4. CommittedIsRecorded'
    <3> HIDE DEF Recorded, Stored
    <3>1. QED
      BY <2>1, <2>2 DEF IInv, CommittedIsRecorded
  <2>5. ASSUME NEW d \in Consumers PROVE HandInv(d)' /\ VerdictInv(d)'
    <3> HIDE DEF Recorded, Stored
    <3>1. QED
      BY <2>1, <2>2 DEF IInv, HandInv, VerdictInv
  <2>6. ASSUME NEW q \in Partitions PROVE PartitionInv(q)'
    BY <2>1 DEF IInv, PartitionInv
  <2>7. QED
    BY <2>3, <2>4, <2>5, <2>6 DEF IInv
<1>13. CASE UNCHANGED vars
  <2>1. CommittedIsRecorded' /\ RecordedOnce'
    BY <1>13, TableAside
  <2>2. QED
    BY <1>13, <2>1 DEF IInv, TypeOK, HandInv, VerdictInv, PartitionInv
<1>14. QED
  <2>1. CASE Next
    BY <2>1, <1>1, <1>2, <1>3, <1>4, <1>5, <1>6, <1>7, <1>8, <1>9, <1>10, <1>11, <1>12, NextCases
  <2>2. QED
    BY <2>1, <1>13

THEOREM IInvAlways == Safety => []IInv
BY IInvInit, IInvStep, PTL DEF Safety

-----------------------------------------------------------------------------
\* The variables keep their types.
THEOREM TypeOKAlways == Safety => []TypeOK
<1>1. IInv => TypeOK
  BY DEF IInv
<1>2. QED
  BY <1>1, IInvAlways, PTL

\* "Data is persisted; safe to commit" (Consumer.cs): what is before a committed
\* offset is in the database, expired from it, or does not parse.
THEOREM CommittedIsRecordedAlways == Safety => []CommittedIsRecorded
<1>1. IInv => CommittedIsRecorded
  BY DEF IInv
<1>2. QED
  BY <1>1, IInvAlways, PTL

\* No order gets a second row beside the first, however often it is produced or delivered.
THEOREM RecordedOnceAlways == Safety => []RecordedOnce
<1>1. IInv => RecordedOnce
  BY DEF IInv
<1>2. QED
  BY <1>1, IInvAlways, PTL

\* An owner handles the first message that is not committed.
THEOREM OwnerHandlesTheFirstUncommittedAlways == Safety => []OwnerHandlesTheFirstUncommitted
<1>1. IInv => OwnerHandlesTheFirstUncommitted
  BY DEF IInv, HandInv, Owns, OwnerHandlesTheFirstUncommitted
<1>2. QED
  BY <1>1, IInvAlways, PTL

\* Only the two commits move an offset, and they move it by one.
LEMMA CommitsStep == IInv /\ [Next]_vars =>
    \A p \in Partitions : committed'[p] \in {committed[p], committed[p] + 1}
<1> SUFFICES ASSUME IInv, [Next]_vars, NEW p \in Partitions
             PROVE  committed'[p] \in {committed[p], committed[p] + 1}
  OBVIOUS
<1>1. ASSUME NEW c \in Consumers, Commit(c) \/ CommitFails(c)
      PROVE  committed'[p] \in {committed[p], committed[p] + 1}
  <2>1. UNCHANGED committed \/ Advanced(c)
    BY <1>1, AdvanceKeeps DEF Commit, CommitFails, Owns
  <2>2. QED
    BY <2>1 DEF Advanced, IInv, TypeOK
<1>2. CASE \E c \in Consumers : Commit(c) \/ CommitFails(c)
  BY <1>1, <1>2
<1>3. CASE ~\E c \in Consumers : Commit(c) \/ CommitFails(c)
  <2>1. UNCHANGED committed
    BY <1>3 DEF Next, Handle, vars, kafka, Produce, Assign, Consume, Start, Parse, Find,
           FailToStore, Save, SaveLost, Duplicate, Rewind, Crash, Expire
  <2>2. QED
    BY <2>1
<1>4. QED
  BY <1>2, <1>3

\* No commit skips a message and none takes an offset back.
THEOREM CommitsAreSequentialAlways == Safety => CommitsAreSequential
<1>1. IInv /\ [Next]_vars =>
          [\A p \in Partitions : committed'[p] \in {committed[p], committed[p] + 1}]_vars
  BY CommitsStep
<1>2. QED
  BY <1>1, IInvAlways, PTL DEF Safety, CommitsAreSequential

-----------------------------------------------------------------------------
LEMMA LedgerStep ==
    ASSUME HasDb PROVE IInv /\ [Next]_vars => [Ledger!Next]_(Ledger!vars)
<1> SUFFICES ASSUME IInv, [Next]_vars PROVE Ledger!Next \/ UNCHANGED <<log, committed, Recorded, expired>>
  BY DEF Ledger!vars
<1> USE DEF kafka, table
<1>1. ASSUME NEW p \in Partitions, NEW m \in Messages, Produce(p, m) PROVE Ledger!Next
  BY <1>1 DEF Produce, Messages, Recorded, Ledger!Next, Ledger!Publish
<1>2. ASSUME NEW c \in Consumers, Insert(c), UNCHANGED <<log, committed>> PROVE Ledger!Next
  <2>1. /\ part[c] \in Partitions /\ offset[c] \in Nat /\ log[part[c]] \in Seq(Messages)
        /\ committed[part[c]] \in Nat
        /\ offset[c] < Len(log[part[c]]) /\ offset[c] <= committed[part[c]]
    BY <1>2 DEF Insert, IInv, TypeOK, HandInv, Handling
  <2>2. AtHand(c) \in Orders \ Recorded
    <3>1. AtHand(c) \in Messages
      BY <2>1 DEF AtHand
    <3>2. QED
      BY <1>2, <3>1 DEF Insert, Messages, IInv, VerdictInv
  <2>3. Recorded' = Recorded \cup {AtHand(c)}
    BY <1>2, <2>2 DEF Insert, Recorded, IInv, TypeOK
  <2>4. CASE offset[c] = committed[part[c]]
    <3>1. Ledger!Record(part[c])
      BY <1>2, <2>1, <2>2, <2>3, <2>4 DEF Insert, AtHand, Ledger!Record, Ledger!Pending
    <3>2. QED
      BY <2>1, <3>1 DEF Ledger!Next
\* An older message: it was recorded, and its row has expired.
  <2>5. CASE offset[c] # committed[part[c]]
    <3>1. offset[c] + 1 \in 1..committed[part[c]]
      BY <2>1, <2>5
    <3>2. AtHand(c) \in Stored \cup {Poison}
      BY <2>1, <3>1 DEF AtHand, IInv, CommittedIsRecorded
    <3>3. AtHand(c) \in expired \ Recorded
      BY <2>2, <3>2, OrdersAssumption DEF Stored
    <3>4. Ledger!Restore(AtHand(c))
      BY <1>2, <2>3, <3>3 DEF Insert, Ledger!Restore
    <3>5. QED
      BY <2>2, <3>4 DEF Ledger!Next
  <2>6. QED
    BY <2>4, <2>5
<1>3. ASSUME NEW c \in Consumers, Commit(c) \/ CommitFails(c)
      PROVE  Ledger!Next \/ UNCHANGED <<log, committed, Recorded, expired>>
  <2>1. UNCHANGED committed \/ Advanced(c)
    BY <1>3, AdvanceKeeps DEF Commit, CommitFails, Owns
  <2>2. UNCHANGED <<log, Recorded, expired>>
    BY <1>3 DEF Commit, CommitFails, Recorded
  <2>3. CASE Advanced(c)
    <3>1. AtHand(c) \in Recorded \cup expired \cup {Poison} /\ part[c] \in Partitions
      BY <1>3 DEF Commit, CommitFails, IInv, TypeOK, VerdictInv, Stored
    <3>2. Ledger!Acknowledge(part[c])
      BY <2>2, <2>3, <3>1 DEF Advanced, AtHand, Ledger!Acknowledge, Ledger!Pending
    <3>3. QED
      BY <3>1, <3>2 DEF Ledger!Next
  <2>4. QED
    BY <2>1, <2>2, <2>3
<1>4. CASE \E c \in Consumers : Save(c) \/ SaveLost(c)
  BY <1>2, <1>4 DEF Save, SaveLost
<1>5. CASE \E c \in Consumers : Commit(c) \/ CommitFails(c)
  BY <1>3, <1>5
<1>6. CASE \E p \in Partitions, m \in Messages : Produce(p, m)
  BY <1>1, <1>6
<1>7. ASSUME NEW o \in Orders, Expire(o) PROVE Ledger!Next
  <2>1. Recorded' = Recorded \ {o}
    BY <1>7 DEF Expire, Recorded, IInv, TypeOK
  <2>2. Ledger!Expire(o)
    BY <1>7, <2>1 DEF Expire, Ledger!Expire
  <2>3. QED
    BY <2>2 DEF Ledger!Next
<1>8. CASE /\ ~\E c \in Consumers : Save(c) \/ SaveLost(c) \/ Commit(c) \/ CommitFails(c)
           /\ ~\E p \in Partitions, m \in Messages : Produce(p, m)
           /\ ~\E o \in Orders : Expire(o)
  BY <1>8 DEF Next, Handle, vars, Recorded, Assign, Consume, Start, Parse, Find,
         FailToStore, Duplicate, Rewind, Crash
<1>9. QED
  BY <1>4, <1>5, <1>6, <1>7, <1>8

\* With a database the service implements the abstract ledger: what the log holds
\* is recorded in its order, acknowledged only then, and recorded anew only if its row
\* expired.
THEOREM ImplementsLedgerAlways == ASSUME HasDb PROVE Safety => ImplementsLedger
<1>1. Init => Ledger!Init
  BY DEF Init, Recorded, Ledger!Init
<1>2. IInv /\ [Next]_vars => [Ledger!Next]_(Ledger!vars)
  BY LedgerStep
<1>3. QED
  BY <1>1, <1>2, IInvAlways, PTL DEF Safety, ImplementsLedger, Ledger!Spec

-----------------------------------------------------------------------------
\* The rest is about OrderFlow.  FlowNext, with what each group of steps changes.
LEMMA FlowCases ==
    ASSUME FlowNext, NEW P,
           \A o \in Orders : Progress(o) => P,
           \A o \in Orders : Finish(o) => P,
           \A o \in Orders : Publish(o) => P,
           \A s \in Producer!Senders : Send(s) => P,
           \A s \in Producer!Senders : Write(s) => P,
           \A s \in Producer!Senders : Retry(s) => P,
           \A s \in Producer!Senders : Answer(s) => P,
           \A p \in Partitions : Garble(p) => P,
           Stop => P,
           Account => P,
           Detect => P
    PROVE  P
BY DEF FlowNext

\* For accounting every step of the flow is one of its own, or none.
LEMMA FlowAccountingStep == [FlowNext]_flowVars => [Next]_vars
<1> SUFFICES ASSUME [FlowNext]_flowVars PROVE Next \/ UNCHANGED vars
  OBVIOUS
<1>1. ASSUME NEW s \in Producer!Senders, Deliver(s) PROVE Next
  <2>1. s[1] \in Messages
    BY <1>1 DEF Producer!Senders, Messages
  <2>2. QED
    BY <1>1, <2>1 DEF Deliver, Next
<1>2. CASE Account
  BY <1>2 DEF Account, Next
<1>3. ASSUME NEW p \in Partitions, Garble(p) PROVE Next
  BY <1>3 DEF Garble, Next, Messages
<1>4. ASSUME NEW s \in Producer!Senders, Write(s) \/ Retry(s) PROVE Next \/ UNCHANGED vars
  BY <1>1, <1>4 DEF Write, Retry
<1>5. CASE UNCHANGED flowVars
  BY <1>5 DEF flowVars
<1>6. CASE FlowNext
  <2>1. CASE \E o \in Orders : Progress(o) \/ Finish(o) \/ Publish(o)
    BY <2>1 DEF Progress, Finish, Publish
  <2>2. CASE \E s \in Producer!Senders : Send(s) \/ Answer(s)
    BY <2>2 DEF Send, Answer
  <2>3. CASE Stop \/ Detect
    BY <2>3 DEF Stop, Detect
  <2>4. QED
    BY <1>2, <1>3, <1>4, <1>6, <2>1, <2>2, <2>3 DEF FlowNext
<1>7. QED
  BY <1>5, <1>6

\* In the flow accounting behaves as it does alone: what is proved of it holds here.
THEOREM FlowImplementsAccounting == FlowSpec => Safety
<1>1. FlowInit => Init
  BY DEF FlowInit
<1>2. QED
  BY <1>1, FlowAccountingStep, PTL DEF FlowSpec, Safety

\* Whatever the producer, its duplicates and its pod do to the topic: what is in it is recorded
\* in its order, once, and acknowledged only then.
THEOREM FlowImplementsLedger == ASSUME HasDb PROVE FlowSpec => ImplementsLedger
BY FlowImplementsAccounting, ImplementsLedgerAlways, PTL

-----------------------------------------------------------------------------
Stages == {"new", "paid", "shipped", "announced"}

FlowTypeOK ==
    /\ stage \in [Orders -> Stages] /\ closed \subseteq Orders
    /\ place \in [Producer!Senders -> {"idle", "send", "wait", "flag", "done"}]
    /\ message \in [Producer!Senders -> {"none", "accepted", "success", "error", "read"}]
    /\ taken \subseteq Producer!Senders

\* A sender is at work only for an order that is shipped, and its call only while the
\* order is open; once a message is out, or waited for, its order is announced.
SenderInv(s) ==
    /\ message[s] # "none" \/ place[s] \in {"wait", "flag"} => stage[s[1]] = "announced"
    /\ place[s] = "send" => \/ stage[s[1]] = "announced"
                            \/ s = Call(s[1]) /\ stage[s[1]] = "shipped"
    /\ place[s] = "send" /\ s = Call(s[1]) => s[1] \notin closed

SaleInv == FlowTypeOK /\ \A s \in Producer!Senders : SenderInv(s)

LEMMA SaleInvInit == FlowInit => SaleInv
BY DEF FlowInit, SaleInv, FlowTypeOK, SenderInv, Stages, Call,
       Life!Init, Producer!Init, Producer!Senders

LEMMA SaleInvStep == SaleInv /\ [FlowNext]_flowVars => SaleInv'
<1> SUFFICES ASSUME SaleInv, [FlowNext]_flowVars PROVE SaleInv'
  OBVIOUS
<1> USE DEF sales, sending, Call, Producer!Senders, Producer!Calls, Producer!Goto, SaleInv
<1>1. ASSUME NEW o \in Orders, Progress(o) PROVE SaleInv'
  <2>1. /\ o \notin closed /\ stage[o] \in {"new", "paid", "shipped"}
        /\ \E to \in {"paid", "shipped", "announced"} :
              /\ stage' = [stage EXCEPT ![o] = to]
              /\ stage[o] = "shipped" => to = "announced"
        /\ UNCHANGED <<closed, sending, taken>>
    BY <1>1 DEF Progress, Life!Pay, Life!Dispatch, Life!Announce, Life!Advance
  <2>2. FlowTypeOK'
    BY <2>1 DEF FlowTypeOK, Stages
  <2>3. ASSUME NEW s \in Producer!Senders PROVE SenderInv(s)'
    BY <2>1 DEF FlowTypeOK, Stages, SenderInv
  <2>4. QED
    BY <2>2, <2>3
<1>2. ASSUME NEW o \in Orders, Finish(o) PROVE SaleInv'
  BY <1>2 DEF Finish, FlowTypeOK, SenderInv
<1>3. ASSUME NEW o \in Orders, Publish(o) PROVE SaleInv'
  <2>1. /\ o \notin closed /\ stage[o] \in {"shipped", "announced"}
        /\ place' = [place EXCEPT ![Call(o)] = "send"]
        /\ UNCHANGED <<sales, message, taken>>
    BY <1>3 DEF Publish, Producer!Begin
  <2>2. FlowTypeOK'
    BY <2>1 DEF FlowTypeOK
  <2>3. ASSUME NEW s \in Producer!Senders PROVE SenderInv(s)'
    BY <2>1 DEF FlowTypeOK, SenderInv
  <2>4. QED
    BY <2>2, <2>3
<1>4. ASSUME NEW s \in Producer!Senders, Send(s) PROVE SaleInv'
  <2>1. /\ place[s] = "send"
        /\ message' = [message EXCEPT ![s] = "accepted"]
        /\ place' = [place EXCEPT ![s] = "wait"]
        /\ stage' = [stage EXCEPT ![s[1]] = "announced"]
        /\ UNCHANGED <<closed, taken>>
    BY <1>4 DEF Send, Producer!Send, SenderInv, FlowTypeOK
  <2>2. FlowTypeOK'
    BY <2>1 DEF FlowTypeOK, Stages
  <2>3. ASSUME NEW t \in Producer!Senders PROVE SenderInv(t)'
    BY <2>1 DEF FlowTypeOK, Stages, SenderInv
  <2>4. QED
    BY <2>2, <2>3
<1>5. ASSUME NEW s \in Producer!Senders, Write(s) PROVE SaleInv'
  <2>1. /\ message[s] = "accepted"
        /\ \E outcome \in {"success", "error"} : message' = [message EXCEPT ![s] = outcome]
        /\ taken' \in {taken, taken \cup {s}}
        /\ UNCHANGED <<sales, place>>
    BY <1>5 DEF Write, Deliver, Producer!Write
  <2>2. FlowTypeOK'
    BY <2>1 DEF FlowTypeOK
  <2>3. ASSUME NEW t \in Producer!Senders PROVE SenderInv(t)'
    BY <2>1 DEF FlowTypeOK, SenderInv
  <2>4. QED
    BY <2>2, <2>3
<1>6. ASSUME NEW s \in Producer!Senders, Retry(s) PROVE SaleInv'
  BY <1>6 DEF Retry, Deliver, FlowTypeOK, SenderInv
<1>7. ASSUME NEW s \in Producer!Senders, Answer(s) PROVE SaleInv'
  <2>1. UNCHANGED <<sales, taken>>
    BY <1>7 DEF Answer
  <2>2. CASE Producer!GiveUpSend(s)
    BY <2>1, <2>2 DEF Producer!GiveUpSend, FlowTypeOK, SenderInv
  <2>3. CASE Producer!Drain(s)
    BY <2>1, <2>3 DEF Producer!Drain, FlowTypeOK, SenderInv
  <2>4. CASE Producer!Abandon(s)
    BY <2>1, <2>4 DEF Producer!Abandon, Producer!Leave, FlowTypeOK, SenderInv
  <2>5. CASE Producer!Flag(s)
    <3>1. s \in Producer!Calls /\ place[s] = "flag" /\ stage[s[1]] = "announced"
          /\ UNCHANGED message
      BY <2>5 DEF Producer!Flag, SenderInv
    <3>2. ASSUME NEW t \in Producer!Senders
          PROVE  place'[t] \in {place[t], "done"} \/ (place'[t] = "send" /\ t # s /\ t[1] = s[1])
      BY <2>5 DEF Producer!Flag, FlowTypeOK
    <3>3. FlowTypeOK'
      BY <2>1, <2>5, <3>1 DEF Producer!Flag, FlowTypeOK
    <3>4. ASSUME NEW t \in Producer!Senders PROVE SenderInv(t)'
      BY <2>1, <3>1, <3>2 DEF SenderInv, FlowTypeOK
    <3>5. QED
      BY <3>3, <3>4
  <2>6. ASSUME NEW m \in Producer!Senders, Producer!TakeSuccess(s, m) \/ Producer!TakeError(s, m)
        PROVE  SaleInv'
    <3>1. /\ place[s] = "wait" /\ message[m] \in {"success", "error"}
          /\ message' = [message EXCEPT ![m] = "read"]
          /\ \E to \in {"flag", "done"} : place' = [place EXCEPT ![s] = to]
      BY <2>6 DEF Producer!TakeSuccess, Producer!TakeError, Producer!Leave
    <3>2. FlowTypeOK'
      BY <2>1, <3>1 DEF FlowTypeOK
    <3>3. ASSUME NEW t \in Producer!Senders PROVE SenderInv(t)'
      BY <2>1, <3>1 DEF SenderInv, FlowTypeOK
    <3>4. QED
      BY <3>2, <3>3
  <2>7. QED
    BY <1>7, <2>2, <2>3, <2>4, <2>5, <2>6 DEF Answer
<1>8. CASE Stop
  BY <1>8 DEF Stop, FlowTypeOK, SenderInv
<1>9. CASE (\E p \in Partitions : Garble(p)) \/ Account \/ Detect \/ UNCHANGED flowVars
  BY <1>9 DEF Garble, Account, Detect, flowVars, FlowTypeOK, SenderInv
<1>10. QED
  BY <1>1, <1>2, <1>3, <1>4, <1>5, <1>6, <1>7, <1>8, <1>9, FlowCases

\* Every step of the flow moves an order on as the lifecycle allows, or leaves it.
LEMMA FlowLifeStep == SaleInv /\ [FlowNext]_flowVars => [Life!Next]_<<stage, closed>>
<1> SUFFICES ASSUME SaleInv, [FlowNext]_flowVars
             PROVE  Life!Next \/ UNCHANGED <<stage, closed>>
  OBVIOUS
<1> USE DEF sales, Call, Producer!Senders
<1>1. ASSUME NEW o \in Orders, Progress(o) PROVE Life!Next
  BY <1>1 DEF Progress, Life!Next
<1>2. ASSUME NEW o \in Orders, Finish(o) PROVE Life!Next
  BY <1>2 DEF Finish, Life!Next, Life!Close, SaleInv, FlowTypeOK
<1>3. ASSUME NEW s \in Producer!Senders, Send(s) PROVE Life!Next \/ UNCHANGED <<stage, closed>>
  <2>1. /\ place[s] = "send" /\ UNCHANGED closed /\ s[1] \in Orders
        /\ stage' = [stage EXCEPT ![s[1]] = IF @ = "shipped" THEN "announced" ELSE @]
    BY <1>3 DEF Send, Producer!Send
  <2>2. CASE stage[s[1]] = "shipped"
    <3>1. s[1] \notin closed
      BY <2>1, <2>2 DEF SaleInv, SenderInv
    <3>2. Life!Announce(s[1])
      BY <2>1, <2>2, <3>1 DEF Life!Announce, Life!Advance
    <3>3. QED
      BY <2>1, <3>2 DEF Life!Next
  <2>3. CASE stage[s[1]] # "shipped"
    BY <2>1, <2>3 DEF SaleInv, FlowTypeOK
  <2>4. QED
    BY <2>2, <2>3
<1>4. ASSUME NEW s \in Producer!Senders, Write(s) \/ Retry(s) \/ Answer(s)
      PROVE  UNCHANGED <<stage, closed>>
  BY <1>4 DEF Write, Retry, Answer
<1>5. CASE (\E o \in Orders : Publish(o)) \/ Stop \/ UNCHANGED flowVars
  BY <1>5 DEF Publish, Stop, flowVars
<1>6. CASE (\E p \in Partitions : Garble(p)) \/ Account \/ Detect
  BY <1>6 DEF Garble, Account, Detect
<1>7. QED
  BY <1>1, <1>2, <1>3, <1>4, <1>5, <1>6 DEF FlowNext

THEOREM SaleInvAlways == FlowSpec => []SaleInv
BY SaleInvInit, SaleInvStep, PTL DEF FlowSpec

\* Through the producer too an order is announced only after it is paid and shipped, and
\* never once it is closed: the flow implements the lifecycle.
THEOREM FlowImplementsLifecycle == FlowSpec => Life!Spec
<1>1. FlowInit => Life!Init
  BY DEF FlowInit
<1>2. QED
  BY <1>1, FlowLifeStep, SaleInvAlways, PTL DEF FlowSpec, Life!Spec

-----------------------------------------------------------------------------
\* The topic has a message of the order.
InTopic(o) == \E p \in Partitions : \E k \in 1..Len(log[p]) : log[p][k] = o

\* What is in the topic was announced, and what is or was recorded, or what the broker got, is
\* in the topic.
TopicInv ==
    /\ \A p \in Partitions : \A k \in 1..Len(log[p]) :
           log[p][k] = Poison \/ stage[log[p][k]] = "announced"
    /\ \A o \in Stored : InTopic(o)
    /\ \A s \in taken : InTopic(s[1])

LEMMA TopicInvInit == FlowInit => TopicInv
BY DEF FlowInit, Init, TopicInv, Recorded, Stored

\* A message more in the topic.
LEMMA ProduceKeeps ==
    ASSUME TypeOK, NEW p \in Partitions, NEW m \in Messages, Produce(p, m)
    PROVE  /\ \A q \in Partitions : \A k \in 1..Len(log[q]) :
                  k \in 1..Len(log'[q]) /\ log'[q][k] = log[q][k]
           /\ \A q \in Partitions : \A k \in 1..Len(log'[q]) :
                  k \in 1..Len(log[q]) \/ log'[q][k] = m
           /\ Len(log'[p]) \in 1..Len(log'[p]) /\ log'[p][Len(log'[p])] = m
           /\ \A q \in Partitions : Len(log[q]) \in Nat /\ Len(log'[q]) \in Nat
                                    /\ Len(log[q]) <= Len(log'[q])
<1>1. log' = [log EXCEPT ![p] = Append(@, m)] /\ log' \in [Partitions -> Seq(Messages)]
  BY DEF Produce, TypeOK
<1>2. log'[p] = Append(log[p], m) /\ log[p] \in Seq(Messages)
  BY <1>1 DEF TypeOK
<1>3. \A q \in Partitions : q # p => log'[q] = log[q]
  BY <1>1 DEF TypeOK
<1>4. \A q \in Partitions : log[q] \in Seq(Messages) /\ Len(log[q]) \in Nat
  BY DEF TypeOK
<1>5. Len(log'[p]) = Len(log[p]) + 1 /\ log'[p][Len(log[p]) + 1] = m
      /\ \A k \in 1..Len(log[p]) : log'[p][k] = log[p][k]
  BY <1>2
<1>6. Len(log[p]) \in Nat
  BY <1>4
<1>7. \A q \in Partitions : \A k \in 1..Len(log[q]) :
          k \in 1..Len(log'[q]) /\ log'[q][k] = log[q][k]
  <2>1. \A k \in 1..Len(log[p]) : k \in 1..Len(log'[p])
    BY <1>5, <1>6
  <2>2. QED
    BY <1>3, <1>5, <2>1, Zenon
<1>8. \A q \in Partitions : \A k \in 1..Len(log'[q]) :
          k \in 1..Len(log[q]) \/ log'[q][k] = m
  <2>1. ASSUME NEW k \in 1..Len(log'[p]) PROVE k \in 1..Len(log[p]) \/ k = Len(log[p]) + 1
    BY <1>5, <1>6
  <2>2. \A k \in 1..Len(log'[p]) : k \in 1..Len(log[p]) \/ log'[p][k] = m
    BY <1>5, <2>1, Zenon
  <2>3. ASSUME NEW q \in Partitions, NEW k \in 1..Len(log'[q])
        PROVE  k \in 1..Len(log[q]) \/ log'[q][k] = m
    <3>1. CASE q = p
      BY <2>2, <3>1
    <3>2. CASE q # p
      <4>1. log'[q] = log[q]
        BY <1>3, <3>2
      <4>2. QED
        BY <4>1
    <3>3. QED
      BY <3>1, <3>2
  <2>4. QED
    BY <2>3
<1>9. Len(log'[p]) \in 1..Len(log'[p]) /\ log'[p][Len(log'[p])] = m
  BY <1>5, <1>6
<1>10. \A q \in Partitions : Len(log[q]) \in Nat /\ Len(log'[q]) \in Nat
                             /\ Len(log[q]) <= Len(log'[q])
  BY <1>3, <1>4, <1>5
<1>11. QED
  BY <1>7, <1>8, <1>9, <1>10, Zenon

\* The message at hand is in the topic.
LEMMA AtHandInTopic ==
    ASSUME IInv, NEW c \in Consumers, pc[c] = "save" PROVE InTopic(AtHand(c))
<1>1. /\ part[c] \in Partitions /\ offset[c] \in Nat
      /\ Len(log[part[c]]) \in Nat /\ offset[c] < Len(log[part[c]])
  BY DEF IInv, TypeOK, HandInv, Handling
<1>2. offset[c] + 1 \in 1..Len(log[part[c]])
  BY <1>1
<1>3. QED
  BY <1>1, <1>2 DEF InTopic, AtHand

LEMMA TopicInvStep == SaleInv /\ IInv /\ TopicInv /\ [FlowNext]_flowVars => TopicInv'
<1> SUFFICES ASSUME SaleInv, IInv, TopicInv, [FlowNext]_flowVars PROVE TopicInv'
  OBVIOUS
<1> USE DEF kafka, hand, table, vars, sales, sending
<1>0. \A p \in Partitions : \A k \in 1..Len(log[p]) : log[p][k] \in Orders \cup {Poison}
  BY DEF IInv, TypeOK, Messages
\* A step that leaves the topic and the table alone, and announces at most.
<1>1. ASSUME UNCHANGED <<log, table, taken>>,
             \A o \in Orders : stage[o] = "announced" => stage'[o] = "announced"
      PROVE  TopicInv'
  <2>1. Stored' = Stored
    BY <1>1 DEF Recorded, Stored
  <2>2. QED
    BY <1>0, <1>1, <2>1, OrdersAssumption DEF TopicInv, InTopic
<1>2. ASSUME NEW p \in Partitions, NEW m \in Messages, Produce(p, m), UNCHANGED stage,
             m = Poison \/ stage[m] = "announced",
             \A s \in taken' : s \in taken \/ s[1] = m
      PROVE  TopicInv'
  <2>1. Stored' = Stored
    BY <1>2 DEF Produce, Recorded, Stored
  <2>2. ASSUME NEW o, InTopic(o) PROVE InTopic(o)'
    BY <1>2, <2>2, ProduceKeeps DEF IInv, InTopic
  <2>3. InTopic(m)'
    BY <1>2, ProduceKeeps DEF IInv, InTopic
  <2>4. ASSUME NEW q \in Partitions, NEW k \in 1..Len(log'[q])
        PROVE  log'[q][k] = Poison \/ stage'[log'[q][k]] = "announced"
    BY <1>2, <2>4, ProduceKeeps DEF IInv, TopicInv
  <2>5. QED
    BY <1>2, <2>1, <2>2, <2>3, <2>4 DEF TopicInv
<1>3. ASSUME NEW s \in Producer!Senders, Deliver(s), message[s] = "accepted", UNCHANGED stage
      PROVE  TopicInv'
  <2>1. s[1] \in Messages /\ stage[s[1]] = "announced"
    BY <1>3 DEF Producer!Senders, Messages, SaleInv, SenderInv
  <2>2. QED
    BY <1>2, <1>3, <2>1 DEF Deliver
<1>4. ASSUME NEW o \in Orders, Progress(o) PROVE TopicInv'
  <2>1. \A q \in Orders : stage[q] = "announced" => stage'[q] = "announced"
    BY <1>4 DEF Progress, Life!Pay, Life!Dispatch, Life!Announce, Life!Advance,
           SaleInv, FlowTypeOK
  <2>2. QED
    BY <1>1, <1>4, <2>1 DEF Progress
<1>5. ASSUME NEW s \in Producer!Senders, Send(s) PROVE TopicInv'
  <2>1. \A q \in Orders : stage[q] = "announced" => stage'[q] = "announced"
    BY <1>5 DEF Send, SaleInv, FlowTypeOK
  <2>2. QED
    BY <1>1, <1>5, <2>1 DEF Send
<1>6. ASSUME NEW s \in Producer!Senders, Write(s) PROVE TopicInv'
  BY <1>1, <1>3, <1>6 DEF Write, Producer!Write
<1>7. ASSUME NEW s \in Producer!Senders, Retry(s) PROVE TopicInv'
  BY <1>3, <1>7 DEF Retry
<1>8. ASSUME NEW p \in Partitions, Garble(p) PROVE TopicInv'
  BY <1>2, <1>8 DEF Garble, Messages
<1>9. CASE Account
  <2>1. UNCHANGED <<log, stage, taken>>
    BY <1>9 DEF Account, Assign, Consume, Start, Handle, Parse, Find, FailToStore, Save,
           SaveLost, Insert, Duplicate, Commit, CommitFails, Rewind, Crash, Expire
  <2>2. ASSUME NEW o \in Stored' PROVE InTopic(o)
    <3>1. CASE \E c \in Consumers : Insert(c)
      <4>1. PICK c \in Consumers : Insert(c)
        BY <3>1
      <4>2. o \in Stored \/ o = AtHand(c)
        BY <2>2, <4>1 DEF Insert, Recorded, Stored, IInv, TypeOK
      <4>3. InTopic(AtHand(c))
        BY <4>1, AtHandInTopic DEF Insert
      <4>4. QED
        BY <4>2, <4>3 DEF TopicInv
    <3>2. CASE \E q \in Orders : Expire(q)
      BY <2>2, <3>2 DEF Expire, Recorded, Stored, IInv, TypeOK, TopicInv
    <3>3. CASE (~\E c \in Consumers : Insert(c)) /\ (~\E q \in Orders : Expire(q))
      <4>1. UNCHANGED table
        BY <1>9, <3>3 DEF Account, Assign, Consume, Start, Handle, Parse, Find, FailToStore,
               Save, SaveLost, Duplicate, Commit, CommitFails, Rewind, Crash
      <4>2. o \in Stored
        BY <2>2, <4>1 DEF Recorded, Stored
      <4>3. QED
        BY <4>2 DEF TopicInv
    <3>4. QED
      BY <3>1, <3>2, <3>3
  <2>3. QED
    BY <2>1, <2>2 DEF TopicInv, InTopic
<1>10. CASE \/ \E o \in Orders : Finish(o) \/ Publish(o)
            \/ \E s \in Producer!Senders : Answer(s)
            \/ Stop \/ Detect \/ UNCHANGED flowVars
  BY <1>1, <1>10 DEF Finish, Publish, Answer, Stop, Detect, flowVars
<1>11. QED
  BY <1>4, <1>5, <1>6, <1>7, <1>8, <1>9, <1>10 DEF FlowNext

-----------------------------------------------------------------------------
\* Fraud detection stays within the topic, and every record it has committed, or has left
\* behind in the batch at hand, was passed for a reason.
ReadInv(p) ==
    /\ offsets[p] <= Len(log[p]) /\ before[p] <= Len(log[p])
    /\ next[p] <= fetched[p] /\ fetched[p] <= Len(log[p])
    /\ \A k \in 1..Len(log[p]) :
           k <= offsets[p] \/ (member # "down" /\ k <= next[p])
               => log[p][k] = Poison \/ Fraud!Passed(p, k)

FraudInv == Fraud!TypeOK /\ \A p \in Partitions : ReadInv(p)

LEMMA FraudInvInit == FlowInit => FraudInv
BY DEF FlowInit, Init, Fraud!Init, Fraud!NoOffset, Fraud!TypeOK, FraudInv, ReadInv

LEMMA FraudTypes ==
    ASSUME Fraud!TypeOK, NEW p \in Partitions
    PROVE  offsets[p] \in Int /\ fetched[p] \in Nat /\ next[p] \in Nat /\ before[p] \in Nat
<1>1. offsets[p] \in Nat \cup {Fraud!NoOffset} /\ Fraud!NoOffset \in Int
  BY DEF Fraud!TypeOK, Fraud!NoOffset
<1>2. QED
  BY <1>1 DEF Fraud!TypeOK

LEMMA DetectKeeps ==
    ASSUME TypeOK, FraudInv, Fraud!Next PROVE FraudInv'
<1> USE DEF Fraud!TypeOK, Fraud!NoOffset, Fraud!Passed, Fraud!Quit
<1>1. UNCHANGED log /\ \A p \in Partitions : Len(log[p]) \in Nat
  BY DEF TypeOK, Fraud!Next, Fraud!Join, Fraud!Poll, Fraud!Expel, Fraud!Crash,
         Fraud!Check, Fraud!Throw
<1>2. CASE Fraud!Join
  <2>1. Fraud!TypeOK'
    BY <1>1, <1>2 DEF Fraud!Join, FraudInv
  <2>2. ASSUME NEW p \in Partitions PROVE ReadInv(p)'
    BY <1>1, <1>2 DEF Fraud!Join, FraudInv, ReadInv
  <2>3. QED
    BY <2>1, <2>2 DEF FraudInv
<1>3. CASE Fraud!Poll
  <2>1. /\ fetched' \in [Partitions -> UNION {0..Len(log[q]) : q \in Partitions}]
        /\ \A p \in Partitions : fetched[p] <= fetched'[p] /\ fetched'[p] <= Len(log[p])
    BY <1>3 DEF Fraud!Poll, Fraud!Batches
  <2>2. fetched' \in [Partitions -> Nat]
    BY <1>1, <2>1
  <2>3. Fraud!TypeOK'
    BY <1>3, <2>2 DEF Fraud!Poll, FraudInv
  <2>4. ASSUME NEW p \in Partitions PROVE ReadInv(p)'
    <3>1. offsets'[p] \in {offsets[p], next[p]} /\ member # "down"
      BY <1>3 DEF Fraud!Poll, Fraud!BatchDone
    <3>2. UNCHANGED <<log, next, member, checked, behind, before>>
      BY <1>3 DEF Fraud!Poll
    <3>3. /\ offsets[p] \in Int /\ next[p] \in Nat /\ fetched[p] \in Nat /\ before[p] \in Nat
      BY FraudTypes DEF FraudInv
    <3>4. fetched[p] <= fetched'[p] /\ fetched'[p] <= Len(log[p]) /\ fetched'[p] \in Nat
      BY <2>1, <2>2
    <3>5. QED
      BY <1>1, <3>1, <3>2, <3>3, <3>4 DEF FraudInv, ReadInv
  <2>5. QED
    BY <2>3, <2>4 DEF FraudInv
<1>4. ASSUME NEW q \in Partitions, Fraud!Check(q) PROVE FraudInv'
  <2>1. Fraud!TypeOK'
    BY <1>4 DEF Fraud!Check, FraudInv
  <2>2. ASSUME NEW p \in Partitions PROVE ReadInv(p)'
    BY <1>1, <1>4 DEF Fraud!Check, FraudInv, ReadInv
  <2>3. QED
    BY <2>1, <2>2 DEF FraudInv
<1>5. ASSUME NEW q \in Partitions, Fraud!Throw(q) PROVE FraudInv'
  <2>1. \A p \in Partitions, k \in Nat :
            next[p] < k /\ k <= fetched[p] => <<p, k>> \in Fraud!Rest
    BY DEF FraudInv, Fraud!Rest
  <2>2. Fraud!Rest \subseteq Partitions \X Nat
    BY DEF FraudInv, Fraud!Rest
  <2>3. Fraud!TypeOK'
    BY <1>5, <2>2 DEF Fraud!Throw, FraudInv
  <2>4. ASSUME NEW p \in Partitions PROVE ReadInv(p)'
    <3>1. CASE UNCHANGED <<offsets, behind>>
      BY <1>1, <1>5, <3>1 DEF Fraud!Throw, FraudInv, ReadInv
    <3>2. CASE member = "in" /\ offsets' = fetched /\ behind' = behind \cup Fraud!Rest
      BY <1>1, <1>5, <2>1, <3>2 DEF Fraud!Throw, FraudInv, ReadInv
    <3>3. QED
      BY <1>5, <3>1, <3>2 DEF Fraud!Throw
  <2>5. QED
    BY <2>3, <2>4 DEF FraudInv
<1>6. CASE Fraud!Expel
  BY <1>6 DEF Fraud!Expel, FraudInv, ReadInv
<1>7. CASE Fraud!Crash
  <2>1. Fraud!TypeOK'
    BY <1>7 DEF Fraud!Crash, FraudInv
  <2>2. ASSUME NEW p \in Partitions PROVE ReadInv(p)'
    BY <1>1, <1>7 DEF Fraud!Crash, FraudInv, ReadInv
  <2>3. QED
    BY <2>1, <2>2 DEF FraudInv
<1>8. QED
  BY <1>2, <1>3, <1>4, <1>5, <1>6, <1>7 DEF Fraud!Next

LEMMA FraudInvStep == IInv /\ FraudInv /\ [FlowNext]_flowVars => FraudInv'
<1> SUFFICES ASSUME IInv, FraudInv, [FlowNext]_flowVars PROVE FraudInv'
  OBVIOUS
<1> USE DEF kafka, vars, fraud
<1>1. ASSUME UNCHANGED <<log, fraud>> PROVE FraudInv'
  BY <1>1 DEF FraudInv, ReadInv, Fraud!TypeOK, Fraud!Passed
<1>2. ASSUME NEW p \in Partitions, NEW m \in Messages, Produce(p, m), UNCHANGED fraud
      PROVE  FraudInv'
  <2>1. Fraud!TypeOK'
    BY <1>2 DEF FraudInv, Fraud!TypeOK
  <2>2. ASSUME NEW q \in Partitions PROVE ReadInv(q)'
    <3>1. /\ \A k \in 1..Len(log[q]) : log'[q][k] = log[q][k]
          /\ Len(log[q]) \in Nat /\ Len(log'[q]) \in Nat /\ Len(log[q]) <= Len(log'[q])
      BY <1>2, ProduceKeeps DEF IInv
    <3>2. /\ offsets[q] \in Int /\ fetched[q] \in Nat
          /\ next[q] \in Nat /\ before[q] \in Nat
      BY FraudTypes DEF FraudInv
    <3>3. ReadInv(q) /\ UNCHANGED fraud
      BY <1>2 DEF FraudInv
    <3>4. /\ offsets[q] <= Len(log'[q]) /\ before[q] <= Len(log'[q])
          /\ next[q] <= fetched[q] /\ fetched[q] <= Len(log'[q])
      BY <3>1, <3>2, <3>3 DEF ReadInv
    <3>5. ASSUME NEW k \in 1..Len(log'[q]), k <= offsets[q] \/ (member # "down" /\ k <= next[q])
          PROVE  log'[q][k] = Poison \/ Fraud!Passed(q, k)
      <4>1. k \in 1..Len(log[q])
        BY <3>1, <3>2, <3>3, <3>5 DEF ReadInv
      <4>2. QED
        BY <3>1, <3>3, <3>5, <4>1 DEF ReadInv
    <3>6. QED
      BY <3>3, <3>4, <3>5 DEF ReadInv, Fraud!Passed
  <2>3. QED
    BY <2>1, <2>2 DEF FraudInv
<1>3. ASSUME NEW s \in Producer!Senders, Write(s) \/ Retry(s) PROVE FraudInv'
  <2>1. s[1] \in Messages
    BY DEF Producer!Senders, Messages
  <2>2. QED
    BY <1>1, <1>2, <1>3, <2>1 DEF Write, Retry, Deliver
<1>4. ASSUME NEW p \in Partitions, Garble(p) PROVE FraudInv'
  BY <1>2, <1>4 DEF Garble, Messages
<1>5. CASE Detect
  BY <1>5, DetectKeeps DEF Detect, IInv
<1>6. CASE Account
  <2>1. UNCHANGED log
    BY <1>6 DEF Account, Assign, Consume, Start, Handle, Parse, Find, FailToStore, Save,
           SaveLost, Duplicate, Commit, CommitFails, Rewind, Crash, Expire
  <2>2. QED
    BY <1>1, <1>6, <2>1 DEF Account
<1>7. CASE \/ \E o \in Orders : Progress(o) \/ Finish(o) \/ Publish(o)
           \/ \E s \in Producer!Senders : Send(s) \/ Answer(s)
           \/ Stop \/ UNCHANGED flowVars
  BY <1>1, <1>7 DEF Progress, Finish, Publish, Send, Answer, Stop, flowVars
<1>8. QED
  BY <1>3, <1>4, <1>5, <1>6, <1>7 DEF FlowNext

\* Who is up has fetched from the committed offset on.
PositionInv == \A p \in Partitions : member # "down" => offsets[p] <= fetched[p]

LEMMA PositionStep ==
    IInv /\ FraudInv /\ PositionInv /\ [FlowNext]_flowVars
        => PositionInv' /\ \A p \in Partitions : offsets[p] <= offsets'[p]
<1> SUFFICES ASSUME IInv, FraudInv, PositionInv, [FlowNext]_flowVars, NEW p \in Partitions
             PROVE  /\ member' # "down" => offsets'[p] <= fetched'[p]
                    /\ offsets[p] <= offsets'[p]
  BY DEF PositionInv
<1>1. offsets[p] \in Int /\ fetched[p] \in Nat /\ Len(log[p]) \in Nat
      /\ offsets[p] <= Len(log[p]) /\ (member # "down" => offsets[p] <= fetched[p])
  BY FraudTypes DEF IInv, TypeOK, FraudInv, ReadInv, PositionInv
<1>2. CASE UNCHANGED fraud
  BY <1>1, <1>2 DEF fraud
<1>3. CASE Fraud!Join
  BY <1>1, <1>3 DEF Fraud!Join
<1>4. CASE Fraud!Poll
  <2>1. /\ offsets'[p] \in {offsets[p], fetched[p]} /\ member = "in"
        /\ fetched' \in [Partitions -> UNION {0..Len(log[q]) : q \in Partitions}]
        /\ fetched[p] <= fetched'[p]
    BY <1>4 DEF Fraud!Poll, Fraud!Batches
  <2>2. fetched'[p] \in Nat
    <3>1. PICK q \in Partitions : fetched'[p] \in 0..Len(log[q])
      BY <2>1
    <3>2. QED
      BY <3>1
  <2>3. QED
    BY <1>1, <2>1, <2>2
<1>5. ASSUME NEW q \in Partitions, Fraud!Check(q) \/ Fraud!Throw(q)
      PROVE  (member' # "down" => offsets'[p] <= fetched'[p]) /\ offsets[p] <= offsets'[p]
  BY <1>1, <1>5 DEF Fraud!Check, Fraud!Throw, Fraud!Quit
<1>6. CASE Fraud!Expel \/ Fraud!Crash
  BY <1>1, <1>6 DEF Fraud!Expel, Fraud!Crash, Fraud!Quit
<1>7. CASE ~Detect
  <2>1. UNCHANGED fraud
    BY <1>7 DEF FlowNext, flowVars, Progress, Finish, Publish, Send, Write, Retry, Answer,
           Garble, Stop, Account
  <2>2. QED
    BY <1>2, <2>1
<1>8. QED
  BY <1>3, <1>4, <1>5, <1>6, <1>7 DEF Detect, Fraud!Next

-----------------------------------------------------------------------------
FlowInv == IInv /\ SaleInv /\ TopicInv /\ FraudInv

\* The inductive invariant of the flow.
THEOREM FlowInvAlways == FlowSpec => []FlowInv
<1>1. FlowInit => FlowInv
  BY IInvInit, SaleInvInit, TopicInvInit, FraudInvInit DEF FlowInit, FlowInv
<1>2. FlowInv /\ [FlowNext]_flowVars => FlowInv'
  BY FlowAccountingStep, IInvStep, SaleInvStep, TopicInvStep, FraudInvStep DEF FlowInv
<1>3. QED
  BY <1>1, <1>2, PTL DEF FlowSpec

\* No commit takes fraud detection back over what it has passed, though the client commits
\* on its own, at polls and at close().
THEOREM FraudNeverGoesBack ==
    FlowSpec => [][\A p \in Partitions : offsets[p] <= offsets'[p]]_flowVars
<1>1. FlowInit => PositionInv
  BY DEF FlowInit, Fraud!Init, PositionInv
<1>2. FlowInv /\ PositionInv /\ [FlowNext]_flowVars
          => PositionInv' /\ [\A p \in Partitions : offsets[p] <= offsets'[p]]_flowVars
  BY PositionStep DEF FlowInv
<1>3. QED
  BY <1>1, <1>2, FlowInvAlways, PTL DEF FlowSpec

\* What the books hold or held was paid, shipped and announced, and what the broker got
\* is in them, was until its row expired, or is still to be read.
THEOREM BooksAgreeWithSalesAlways == FlowSpec => []BooksAgreeWithSales
<1>1. FlowInv => BooksAgreeWithSales
  <2> SUFFICES ASSUME FlowInv, HasDb
               PROVE  /\ \A o \in Stored : stage[o] = "announced"
                      /\ \A s \in taken : s[1] \in Stored \/ Unread(s[1])
    BY DEF BooksAgreeWithSales
  <2>1. ASSUME NEW o \in Stored PROVE stage[o] = "announced"
    <3>1. o \in Orders /\ InTopic(o)
      BY DEF FlowInv, TopicInv, Stored, Recorded, IInv, TypeOK
    <3>2. PICK p \in Partitions : \E k \in 1..Len(log[p]) : log[p][k] = o
      BY <3>1 DEF InTopic
    <3>3. QED
      BY <3>1, <3>2, OrdersAssumption DEF FlowInv, TopicInv
  <2>2. ASSUME NEW s \in taken PROVE s[1] \in Stored \/ Unread(s[1])
    <3>1. s[1] \in Orders /\ InTopic(s[1])
      BY DEF FlowInv, SaleInv, FlowTypeOK, TopicInv, Producer!Senders
    <3>2. PICK p \in Partitions : \E k \in 1..Len(log[p]) : log[p][k] = s[1]
      BY <3>1 DEF InTopic
    <3> PICK k \in 1..Len(log[p]) : log[p][k] = s[1]
      BY <3>2
    <3>3. CASE k > committed[p]
      BY <3>2, <3>3 DEF Unread
    <3>4. CASE ~(k > committed[p])
      <4>1. k \in 1..committed[p]
        BY <3>4 DEF FlowInv, IInv, TypeOK
      <4>2. log[p][k] \in Stored \cup {Poison}
        BY <4>1 DEF FlowInv, IInv, CommittedIsRecorded
      <4>3. QED
        BY <3>1, <3>2, <4>2, OrdersAssumption
    <3>5. QED
      BY <3>3, <3>4
  <2>3. QED
    BY <2>1, <2>2
<1>2. QED
  BY <1>1, FlowInvAlways, PTL

\* What the books hold or held was checked for fraud, is still to be checked, or was passed over
\* for one of the two reasons.
THEOREM RecordedIsCheckedAlways == FlowSpec => []RecordedIsChecked
<1>1. FlowInv => RecordedIsChecked
  <2> SUFFICES ASSUME FlowInv, NEW o \in Stored
               PROVE  \E p \in Partitions : \E k \in 1..Len(log[p]) :
                          log[p][k] = o /\ (k > offsets[p] \/ Fraud!Passed(p, k))
    BY DEF RecordedIsChecked
  <2>1. o \in Orders /\ o # Poison /\ InTopic(o)
    BY OrdersAssumption DEF FlowInv, TopicInv, Stored, Recorded, IInv, TypeOK
  <2>2. PICK p \in Partitions : \E k \in 1..Len(log[p]) : log[p][k] = o
    BY <2>1 DEF InTopic
  <2> PICK k \in 1..Len(log[p]) : log[p][k] = o
    BY <2>2
  <2>3. k <= offsets[p] => Fraud!Passed(p, k)
    BY <2>1, <2>2 DEF FlowInv, FraudInv, ReadInv
  <2>4. k <= offsets[p] \/ k > offsets[p]
    BY FraudTypes DEF FlowInv, FraudInv
  <2>5. QED
    BY <2>2, <2>3, <2>4
<1>2. QED
  BY <1>1, FlowInvAlways, PTL
=============================================================================
