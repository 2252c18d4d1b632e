------------------------ MODULE OrderProducerProofs ------------------------
(***************************************************************************)
(* OrderProducer for any number of orders, duplicates and messages in the  *)
(* producer: senders and outcomes balance, and a producer full of outcomes *)
(* that nobody waits for stays so.                                         *)
(***************************************************************************)
EXTENDS OrderProducer, FiniteSetTheorems, TLAPS

\* Who gave up is past the select, what was logged is read, and the goroutines of a
\* call begin only when it is done.
PlaceInv ==
    /\ \A s \in abandoned : pc[s] \in {"flag", "done"}
    /\ \A m \in drained : message[m] = "read"
    /\ \A s \in Calls, t \in Senders \ Calls :
           t[1] = s[1] /\ pc[s] # "done" => pc[t] = "idle"

ProducerInv == TypeOK /\ PlaceInv /\ OutcomesBalance

LEMMA FiniteSenders == IsFiniteSet(Senders)
<1>1. IsFiniteSet(0..Copies) BY FS_Interval, ProducerAssumption
<1> QED BY <1>1, FS_Product, ProducerAssumption DEF Senders

LEMMA CallsAreSenders == Calls \subseteq Senders
BY ProducerAssumption DEF Calls, Senders

\* A set of senders can be counted, and counts one more or one less with a sender.
LEMMA Count ==
    ASSUME NEW S \in SUBSET Senders
    PROVE  /\ Cardinality(S) \in Nat
           /\ \A x : x \notin S => Cardinality(S \cup {x}) = Cardinality(S) + 1
           /\ \A x \in S : Cardinality(S \ {x}) = Cardinality(S) - 1
<1>1. IsFiniteSet(S) BY FiniteSenders, FS_Subset
<1>2. Cardinality(S) \in Nat BY <1>1, FS_CardinalityType
<1>3. ASSUME NEW x, x \notin S PROVE Cardinality(S \cup {x}) = Cardinality(S) + 1
    BY <1>1, <1>3, FS_AddElement
<1>4. ASSUME NEW x \in S PROVE Cardinality(S \ {x}) = Cardinality(S) - 1
    BY <1>1, <1>4, FS_RemoveElement
<1> QED BY <1>2, <1>3, <1>4

LEMMA SetTypes ==
    ASSUME TypeOK
    PROVE  /\ Pending \in SUBSET Senders /\ Waiting \in SUBSET Senders
           /\ abandoned \in SUBSET Senders /\ drained \in SUBSET Senders
BY CallsAreSenders DEF TypeOK, Pending, Waiting

-----------------------------------------------------------------------------
LEMMA InitInv == Init => ProducerInv
<1> SUFFICES ASSUME Init PROVE ProducerInv
    OBVIOUS
<1>1. TypeOK BY DEF Init, TypeOK
<1>2. PlaceInv BY CallsAreSenders DEF Init, PlaceInv
<1>3. Pending = {} /\ Waiting = {} /\ abandoned = {} /\ drained = {}
    BY DEF Init, Pending, Waiting
<1>4. OutcomesBalance BY <1>3, FS_EmptySet DEF OutcomesBalance
<1> QED BY <1>1, <1>2, <1>4 DEF ProducerInv

\* A step that keeps the four sets keeps the balance.
LEMMA Balanced ==
    ASSUME OutcomesBalance, Pending' = Pending, Waiting' = Waiting,
           UNCHANGED <<abandoned, drained>>
    PROVE  OutcomesBalance'
BY DEF OutcomesBalance

LEMMA BeginInv == ASSUME ProducerInv, NEW s \in Senders, Begin(s) PROVE ProducerInv'
<1> USE DEF ProducerInv, Begin, Goto
<1>1. TypeOK' BY DEF TypeOK
<1>2. PlaceInv' BY CallsAreSenders DEF TypeOK, PlaceInv
<1>3. Pending' = Pending /\ Waiting' = Waiting BY DEF TypeOK, Pending, Waiting
<1>4. OutcomesBalance' BY <1>3, Balanced
<1> QED BY <1>1, <1>2, <1>4

LEMMA GiveUpSendInv == ASSUME ProducerInv, NEW s \in Senders, GiveUpSend(s) PROVE ProducerInv'
<1> USE DEF ProducerInv, GiveUpSend, Goto
<1>1. TypeOK' BY DEF TypeOK
<1>2. PlaceInv' BY CallsAreSenders DEF TypeOK, PlaceInv
<1>3. Pending' = Pending /\ Waiting' = Waiting BY DEF TypeOK, Pending, Waiting
<1>4. OutcomesBalance' BY <1>3, Balanced
<1> QED BY <1>1, <1>2, <1>4

LEMMA WriteInv == ASSUME ProducerInv, NEW s \in Senders, Write(s) PROVE ProducerInv'
<1> USE DEF ProducerInv, Write
<1>1. TypeOK' BY DEF TypeOK
<1>2. PlaceInv' BY CallsAreSenders DEF TypeOK, PlaceInv
<1>3. Pending' = Pending /\ Waiting' = Waiting BY DEF TypeOK, Pending, Waiting
<1>4. OutcomesBalance' BY <1>3, Balanced
<1> QED BY <1>1, <1>2, <1>4

\* The goroutines that start were idle: nobody's wait begins or ends.
LEMMA FlagInv == ASSUME ProducerInv, NEW s \in Senders, Flag(s) PROVE ProducerInv'
<1> USE DEF ProducerInv, Flag, Goto
<1>1. \A t \in Senders : t # s /\ t[1] = s[1] => t \notin Calls /\ pc[t] = "idle"
    <2>1. \A t \in Calls : t[1] = s[1] => t = s BY DEF Calls
    <2> QED BY <2>1 DEF PlaceInv
<1>2. TypeOK' BY <1>1 DEF TypeOK
<1>3. PlaceInv' BY <1>1, CallsAreSenders DEF TypeOK, PlaceInv
<1>4. Pending' = Pending /\ Waiting' = Waiting BY <1>1 DEF TypeOK, Pending, Waiting
<1>5. OutcomesBalance' BY <1>4, Balanced
<1> QED BY <1>2, <1>3, <1>5

LEMMA SendInv == ASSUME ProducerInv, NEW s \in Senders, Send(s) PROVE ProducerInv'
<1> USE DEF ProducerInv, Send, Goto
<1>1. TypeOK' BY DEF TypeOK
<1>2. PlaceInv' BY CallsAreSenders DEF TypeOK, PlaceInv
<1>3. /\ s \notin Pending /\ Pending' = Pending \cup {s}
      /\ s \notin Waiting /\ Waiting' = Waiting \cup {s}
    BY DEF TypeOK, Pending, Waiting
<1>4. /\ Cardinality(Pending') = Cardinality(Pending) + 1
      /\ Cardinality(Waiting') = Cardinality(Waiting) + 1
    BY <1>3, SetTypes, Count
<1>5. OutcomesBalance' BY <1>4, SetTypes, Count DEF OutcomesBalance
<1> QED BY <1>1, <1>2, <1>5

LEMMA AbandonInv == ASSUME ProducerInv, NEW s \in Senders, Abandon(s) PROVE ProducerInv'
<1> USE DEF ProducerInv, Abandon, Leave, Goto
<1>1. TypeOK' BY DEF TypeOK
<1>2. PlaceInv' BY CallsAreSenders DEF TypeOK, PlaceInv
<1>3. /\ Pending' = Pending
      /\ s \in Waiting /\ Waiting' = Waiting \ {s}
      /\ s \notin abandoned /\ abandoned' = abandoned \cup {s}
    BY DEF TypeOK, PlaceInv, Pending, Waiting
<1>4. OutcomesBalance' BY <1>3, SetTypes, Count DEF OutcomesBalance
<1> QED BY <1>1, <1>2, <1>4

LEMMA DrainInv == ASSUME ProducerInv, NEW m \in Senders, Drain(m) PROVE ProducerInv'
<1> USE DEF ProducerInv, Drain
<1>1. TypeOK' BY DEF TypeOK
<1>2. PlaceInv' BY CallsAreSenders DEF TypeOK, PlaceInv
<1>3. /\ m \in Pending /\ Pending' = Pending \ {m}
      /\ Waiting' = Waiting
      /\ m \notin drained /\ drained' = drained \cup {m}
    BY DEF TypeOK, PlaceInv, Pending, Waiting
<1>4. OutcomesBalance' BY <1>3, SetTypes, Count DEF OutcomesBalance
<1> QED BY <1>1, <1>2, <1>4

\* A reader and an outcome go together, whoever's they are.
LEMMA TakeInv ==
    ASSUME ProducerInv, NEW s \in Senders, NEW m \in Senders,
           TakeSuccess(s, m) \/ TakeError(s, m)
    PROVE  ProducerInv'
<1> USE DEF ProducerInv, TakeSuccess, TakeError, Leave, Goto
<1>1. TypeOK' BY DEF TypeOK
<1>2. PlaceInv' BY CallsAreSenders DEF TypeOK, PlaceInv
<1>3. /\ m \in Pending /\ Pending' = Pending \ {m}
      /\ s \in Waiting /\ Waiting' = Waiting \ {s}
    BY DEF TypeOK, Pending, Waiting
<1>4. OutcomesBalance' BY <1>3, SetTypes, Count DEF OutcomesBalance
<1> QED BY <1>1, <1>2, <1>4

LEMMA StutterInv == ASSUME ProducerInv, UNCHANGED vars PROVE ProducerInv'
<1> USE DEF ProducerInv, vars
<1>1. TypeOK' BY DEF TypeOK
<1>2. PlaceInv' BY DEF PlaceInv
<1>3. OutcomesBalance' BY DEF OutcomesBalance, Pending, Waiting
<1> QED BY <1>1, <1>2, <1>3

LEMMA NextInv == ProducerInv /\ [Next]_vars => ProducerInv'
<1> SUFFICES ASSUME ProducerInv, [Next]_vars PROVE ProducerInv'
    OBVIOUS
<1>1. ASSUME NEW s \in Senders, Begin(s) PROVE ProducerInv' BY <1>1, BeginInv
<1>2. ASSUME NEW s \in Senders, Send(s) PROVE ProducerInv' BY <1>2, SendInv
<1>3. ASSUME NEW s \in Senders, GiveUpSend(s) PROVE ProducerInv' BY <1>3, GiveUpSendInv
<1>4. ASSUME NEW s \in Senders, Write(s) PROVE ProducerInv' BY <1>4, WriteInv
<1>5. ASSUME NEW s \in Senders, Drain(s) PROVE ProducerInv' BY <1>5, DrainInv
<1>6. ASSUME NEW s \in Senders, Abandon(s) PROVE ProducerInv' BY <1>6, AbandonInv
<1>7. ASSUME NEW s \in Senders, Flag(s) PROVE ProducerInv' BY <1>7, FlagInv
<1>8. ASSUME NEW s \in Senders, NEW m \in Senders, TakeSuccess(s, m) \/ TakeError(s, m)
      PROVE  ProducerInv'
    BY <1>8, TakeInv
<1>9. CASE UNCHANGED vars BY <1>9, StutterInv
<1> QED BY <1>1, <1>2, <1>3, <1>4, <1>5, <1>6, <1>7, <1>8, <1>9 DEF Next

LEMMA ProducerInvAlways == Spec => []ProducerInv
BY InitInv, NextInv, PTL DEF Spec

\* The types, and who waits has handed over a message.
THEOREM TypeOKAlways == Spec => []TypeOK
<1>1. ProducerInv => TypeOK BY DEF ProducerInv
<1> QED BY <1>1, ProducerInvAlways, PTL

\* Outcomes that wait to be read and senders that wait for one balance, with what the
\* log took and who gave up, for any number of calls, duplicates and buffered messages.
THEOREM OutcomesBalanceAlways == Spec => []OutcomesBalance
<1>1. ProducerInv => OutcomesBalance BY DEF ProducerInv
<1> QED BY <1>1, ProducerInvAlways, PTL

-----------------------------------------------------------------------------
Successes == {s \in Senders : message[s] = "success"}

\* A stuck producer takes no message, and nobody is there to read an outcome.
LEMMA StuckStep == ASSUME TypeOK, [Next]_vars, Stuck PROVE Stuck'
<1>1. Cardinality(Successes) >= Capacity /\ Waiting = {} BY DEF Stuck, Successes
<1>2. Cardinality(Pending) >= Capacity
    <2>1. IsFiniteSet(Pending) BY FiniteSenders, SetTypes, FS_Subset
    <2>2. Successes \in SUBSET Pending BY DEF Successes, Pending
    <2>3. Cardinality(Successes) <= Cardinality(Pending) BY <2>1, <2>2, FS_Subset
    <2> QED BY <1>1, <2>2, <2>3, SetTypes, Count, ProducerAssumption
<1>3. \A s \in Senders : ~Send(s)
    BY <1>2, SetTypes, Count, ProducerAssumption DEF Send
<1>4. \A s, m \in Senders : ~Abandon(s) /\ ~TakeSuccess(s, m) /\ ~TakeError(s, m)
    BY <1>1 DEF Abandon, TakeSuccess, TakeError, Waiting
<1>5. Waiting' = {} /\ Successes \subseteq Successes'
    <2>1. CASE \E s \in Senders : Begin(s) \/ GiveUpSend(s)
        BY <1>1, <2>1 DEF Begin, GiveUpSend, Goto, TypeOK, Waiting, Successes
    <2>2. CASE \E s \in Senders : Write(s)
        BY <1>1, <2>2 DEF Write, TypeOK, Waiting, Successes
    <2>3. CASE \E s \in Senders : Drain(s)
        BY <1>1, <2>3 DEF Drain, TypeOK, Waiting, Successes
    <2>4. CASE \E s \in Senders : Flag(s)
        BY <1>1, <2>4 DEF Flag, Goto, TypeOK, Waiting, Successes
    <2>5. CASE UNCHANGED vars
        BY <1>1, <2>5 DEF vars, Waiting, Successes
    <2> QED BY <1>3, <1>4, <2>1, <2>2, <2>3, <2>4, <2>5 DEF Next
<1>6. IsFiniteSet(Successes') /\ Cardinality(Successes) \in Nat /\ Cardinality(Successes') \in Nat
    <2>1. Successes \in SUBSET Senders /\ Successes' \in SUBSET Senders BY DEF Successes
    <2> QED BY <2>1, FiniteSenders, FS_Subset, Count
<1>7. Cardinality(Successes) <= Cardinality(Successes') BY <1>5, <1>6, FS_Subset
<1> QED BY <1>1, <1>5, <1>6, <1>7, ProducerAssumption DEF Stuck, Successes

\* Once the producer is full of outcomes whose callers gave up, it stays so.
THEOREM StuckForGoodAlways == Spec => StuckForGood
<1>1. ProducerInv /\ [Next]_vars => [Stuck => Stuck']_vars
    BY StuckStep DEF ProducerInv
<1> QED BY <1>1, ProducerInvAlways, PTL DEF Spec, StuckForGood
=============================================================================
