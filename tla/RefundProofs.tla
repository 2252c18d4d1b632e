---------------------------- MODULE RefundProofs ----------------------------
(***************************************************************************)
(* Refund for any number of orders, refunds and queries: types, what       *)
(* RefundOrder answers, whose refunds there are, when money goes back      *)
(* twice, and what GetOrder tells.                                         *)
(***************************************************************************)
EXTENDS Refund, TLAPS

\* What a refund's place says of the money and of the row.
CallInv ==
    gone \subseteq saved /\ \A c \in Calls :
        /\ pc[c] # "done" => /\ c \notin saved /\ underway[c] = {} /\ reply[c] = "none"
                             /\ (c \in granted <=> pc[c] = "save")
        /\ pc[c] \in {"refund", "save"} => own[c] /\ asked[c] \in charged
        /\ underway[c] # {} => /\ reply[c] = "failed" /\ c \notin saved
                               /\ own[c] /\ asked[c] \in charged
        /\ "refund" \in underway[c] => underway[c] = {"refund"} /\ c \notin granted
        /\ "save" \in underway[c] => c \in granted
        /\ reply[c] = "refunded" => c \in saved
        /\ reply[c] \in {"NotFound", "PermissionDenied", "FailedPrecondition"} => c \notin granted
        /\ c \in saved => c \in granted /\ (row[asked[c]] = "refunded" \/ c \in gone)
        /\ c \in granted => own[c] /\ asked[c] \in charged

\* The row and payment's map against the refunds that were carried out.
OrderInv ==
    \A o \in Orders :
        /\ row[o] # "none" => o \in charged
        /\ row[o] = "refunded" => \E c \in granted : asked[c] = o
        /\ transactions[o] = "charged" => \A c \in granted : asked[c] # o
        /\ transactions[o] = "refunded" => \E c \in granted : asked[c] = o

\* A call that looked after a saved refund of its order was over is refused, unless the
\* row of that refund is gone.
AfterInv ==
    \A c, d \in Calls : <<c, d>> \in before =>
        /\ pc[c] = "done" /\ underway[c] = {}
        /\ pc[d] \notin {"idle", "look"}
        /\ c \in saved \ gone /\ asked[c] = asked[d] =>
              pc[d] = "done" /\ underway[d] = {} /\ d \notin granted

\* What a query has read, against what it knew when it was asked.
QueryInv ==
    \A q \in Queries :
        /\ known[q].granted \subseteq granted /\ known[q].saved \subseteq saved
        /\ place[q] \in {"idle", "look"} => answer[q] = "none"
        /\ answer[q] = "charged" => \A c \in known[q].granted : asked[c] # about[q]
        /\ answer[q] = "completed" => \A c \in known[q].saved \ gone : asked[c] # about[q]
        /\ answer[q] = "refunded" => \E c \in granted : asked[c] = about[q]

RefundInv == TypeOK /\ CallInv /\ OrderInv /\ AfterInv /\ QueryInv

LEMMA InitInv == Init => RefundInv
BY DEF Init, RefundInv, TypeOK, CallInv, OrderInv, AfterInv, QueryInv

LEMMA ChargeInv == ASSUME RefundInv, NEW o \in Orders, Charge(o) PROVE RefundInv'
<1> USE DEF RefundInv, Charge, refunds, queries
<1>1. TypeOK' BY DEF TypeOK
<1>2. CallInv' BY DEF TypeOK, CallInv
<1>3. OrderInv' BY DEF TypeOK, CallInv, OrderInv
<1>4. AfterInv' BY DEF AfterInv
<1>5. QueryInv' BY DEF QueryInv
<1> QED BY <1>1, <1>2, <1>3, <1>4, <1>5

LEMMA RecordInv == ASSUME RefundInv, NEW o \in Orders, Record(o) PROVE RefundInv'
<1> USE DEF RefundInv, Record, refunds, queries
<1>1. TypeOK' BY DEF TypeOK
<1>2. CallInv' BY DEF TypeOK, CallInv
<1>3. OrderInv' BY DEF TypeOK, OrderInv
<1>4. AfterInv' BY DEF AfterInv
<1>5. QueryInv' BY DEF QueryInv
<1> QED BY <1>1, <1>2, <1>3, <1>4, <1>5

LEMMA ExpireInv == ASSUME RefundInv, NEW o \in Orders, Expire(o) PROVE RefundInv'
<1> USE DEF RefundInv, Expire, For, refunds, queries
<1>1. TypeOK' BY DEF TypeOK
<1>2. CallInv' BY DEF TypeOK, CallInv
<1>3. OrderInv' BY DEF TypeOK, OrderInv
<1>4. AfterInv' BY DEF TypeOK, AfterInv
<1>5. QueryInv' BY DEF QueryInv
<1> QED BY <1>1, <1>2, <1>3, <1>4, <1>5

LEMMA RestartInv == ASSUME RefundInv, RestartPayment PROVE RefundInv'
<1> USE DEF RefundInv, RestartPayment, refunds, queries
<1>1. TypeOK' BY DEF TypeOK
<1>2. CallInv' BY DEF TypeOK, CallInv
<1>3. OrderInv' BY DEF TypeOK, OrderInv
<1>4. AfterInv' BY DEF TypeOK, AfterInv
<1>5. QueryInv' BY DEF QueryInv
<1> QED BY <1>1, <1>2, <1>3, <1>4, <1>5

LEMMA RefundOrderInv ==
    ASSUME RefundInv, NEW c \in Calls, NEW o \in Orders, NEW mine \in BOOLEAN,
           RefundOrder(c, o, mine)
    PROVE  RefundInv'
<1> USE DEF RefundInv, RefundOrder, Goto, queries
<1>0. c \notin granted /\ c \notin saved BY DEF TypeOK, CallInv
<1>1. TypeOK' BY DEF TypeOK
<1>2. CallInv' BY <1>0 DEF TypeOK, CallInv
<1>3. OrderInv' BY <1>0 DEF TypeOK, OrderInv
<1>4. AfterInv' BY <1>0 DEF TypeOK, AfterInv
<1>5. QueryInv' BY <1>0 DEF TypeOK, QueryInv
<1> QED BY <1>1, <1>2, <1>3, <1>4, <1>5

Codes == {"none", "NotFound", "PermissionDenied", "FailedPrecondition", "failed", "refunded"}

LEMMA ReturnTypes ==
    ASSUME TypeOK, NEW c \in Calls, NEW code \in Codes, Return(c, code)
    PROVE  /\ pc' \in [Calls -> {"idle", "look", "refund", "save", "done"}]
           /\ reply' \in [Calls -> Codes]
BY DEF TypeOK, Return, Codes

LEMMA GotoTypes ==
    ASSUME TypeOK, NEW c \in Calls, NEW step \in {"look", "refund", "save"}, Goto(c, step)
    PROVE  /\ pc' \in [Calls -> {"idle", "look", "refund", "save", "done"}]
           /\ reply' \in [Calls -> Codes]
BY DEF TypeOK, Goto, Codes

LEMMA LookInv == ASSUME RefundInv, NEW c \in Calls, Look(c) PROVE RefundInv'
<1> USE DEF RefundInv, Look, Goto, Return, queries
<1>1. TypeOK'
  <2>1. before' \subseteq Calls \X Calls BY DEF TypeOK, Over
  <2> HIDE DEF Goto, Return
  <2>2. /\ pc' \in [Calls -> {"idle", "look", "refund", "save", "done"}]
        /\ reply' \in [Calls -> Codes]
    BY ReturnTypes, GotoTypes DEF Codes
  <2> USE DEF Goto, Return
  <2>3. \A d \in Calls : pc'[d] # "idle" => pc[d] # "idle" BY DEF TypeOK
  <2>4. \A d \in Calls : underway[d] # {} => pc'[d] = "done"
    <3> SUFFICES ASSUME NEW d \in Calls, underway[d] # {} PROVE pc'[d] = "done"
      OBVIOUS
    <3>1. pc[d] = "done" /\ d # c BY DEF TypeOK
    <3> QED BY <3>1 DEF TypeOK
  <2> HIDE DEF Goto, Return
  <2> QED BY <2>1, <2>2, <2>3, <2>4 DEF TypeOK, Codes
<1>2. CallInv' BY DEF TypeOK, CallInv, OrderInv
<1>3. OrderInv' BY DEF OrderInv
<1>4. AfterInv'
  <2> SUFFICES ASSUME NEW a \in Calls, NEW d \in Calls, (<<a, d>> \in before)'
               PROVE  AfterInv!(a, d)!2'
    BY DEF AfterInv
  <2>1. CASE <<a, d>> \in before BY <2>1 DEF TypeOK, AfterInv
  <2>2. CASE d = c /\ a \in Over BY <2>2 DEF TypeOK, Over, CallInv
  <2> QED BY <2>1, <2>2
<1>5. QueryInv' BY DEF QueryInv
<1> QED BY <1>1, <1>2, <1>3, <1>4, <1>5

LEMMA GrantInv ==
    ASSUME RefundInv, NEW c \in Calls, c \notin granted, asked[c] \in charged, Grant(c),
           UNCHANGED <<row, charged, asked, own, queries, saved, before, gone>>
    PROVE  OrderInv' /\ QueryInv'
BY DEF RefundInv, TypeOK, OrderInv, QueryInv, Grant, queries

LEMMA RefundStepInv == ASSUME RefundInv, NEW c \in Calls, Refund(c) PROVE RefundInv'
<1> USE DEF RefundInv
<1>1. TypeOK'
  <2>1. /\ pc' \in [Calls -> {"idle", "look", "refund", "save", "done"}]
        /\ reply' \in [Calls -> Codes]
    BY ReturnTypes, GotoTypes DEF Refund, Codes
  <2>2. /\ underway' \in [Calls -> SUBSET {"refund", "save"}]
        /\ \A d \in Calls : underway'[d] # {} => pc'[d] = "done"
    <3>1. CASE GiveUp(c) /\ Return(c, "failed") BY <3>1 DEF Refund, GiveUp, Return, TypeOK
    <3>2. CASE UNCHANGED underway
      <4>1. \A d \in Calls : pc[d] = "done" => pc'[d] = "done"
        BY DEF Refund, Goto, Return, TypeOK
      <4> QED BY <3>2, <4>1 DEF TypeOK
    <3> QED BY <3>1, <3>2 DEF Refund
  <2>3. \A d \in Calls : pc'[d] # "idle" => pc[d] # "idle"
    BY DEF Refund, Goto, Return, TypeOK
  <2>4. granted' \subseteq Calls
        /\ transactions' \in [Orders -> {"none", "charged", "refunded"}]
    BY DEF Refund, Grant, TypeOK
  <2>5. UNCHANGED <<row, charged, asked, own, queries, saved, before, gone>> BY DEF Refund
  <2> QED BY <2>1, <2>2, <2>3, <2>4, <2>5 DEF queries, TypeOK, Codes
<1>2. CallInv' BY DEF Refund, Grant, GiveUp, Goto, Return, queries, TypeOK, CallInv
<1>3. OrderInv' /\ QueryInv'
  <2>1. CASE Grant(c) BY <2>1, GrantInv DEF Refund, TypeOK, CallInv
  <2>2. CASE UNCHANGED <<granted, transactions>>
    BY <2>2 DEF Refund, queries, OrderInv, QueryInv
  <2> QED BY <2>1, <2>2 DEF Refund
<1>4. AfterInv' BY DEF Refund, Grant, GiveUp, Goto, Return, queries, TypeOK, AfterInv
<1> QED BY <1>1, <1>2, <1>3, <1>4

LEMMA LateRefundInv == ASSUME RefundInv, NEW c \in Calls, LateRefund(c) PROVE RefundInv'
<1> USE DEF RefundInv
<1>1. TypeOK' BY DEF LateRefund, Grant, refunds, queries, TypeOK
<1>2. CallInv' BY DEF LateRefund, Grant, refunds, queries, TypeOK, CallInv
<1>3. OrderInv' /\ QueryInv' BY GrantInv DEF LateRefund, refunds, TypeOK, CallInv
<1>4. AfterInv' BY DEF LateRefund, Grant, refunds, queries, TypeOK, AfterInv
<1> QED BY <1>1, <1>2, <1>3, <1>4

\* A save: the call has its money back and no later call looked in between.
LEMMA MarkInv ==
    ASSUME RefundInv, NEW c \in Calls, c \in granted, Mark(c),
           UNCHANGED <<transactions, charged, asked, own, queries, granted, before, gone>>
    PROVE  OrderInv' /\ QueryInv'
BY DEF RefundInv, TypeOK, CallInv, OrderInv, QueryInv, Mark, queries

LEMMA SaveInv == ASSUME RefundInv, NEW c \in Calls, Save(c) PROVE RefundInv'
<1> USE DEF RefundInv
<1>1. TypeOK'
  <2>1. /\ pc' \in [Calls -> {"idle", "look", "refund", "save", "done"}]
        /\ reply' \in [Calls -> Codes]
    BY ReturnTypes, GotoTypes DEF Save, Codes
  <2>2. /\ underway' \in [Calls -> SUBSET {"refund", "save"}]
        /\ \A d \in Calls : underway'[d] # {} => pc'[d] = "done"
    <3>1. CASE GiveUp(c) /\ Return(c, "failed") BY <3>1 DEF Save, GiveUp, Return, TypeOK
    <3>2. CASE UNCHANGED underway
      <4>1. \A d \in Calls : pc[d] = "done" => pc'[d] = "done"
        BY DEF Save, Goto, Return, TypeOK
      <4> QED BY <3>2, <4>1 DEF TypeOK
    <3> QED BY <3>1, <3>2 DEF Save
  <2>3. \A d \in Calls : pc'[d] # "idle" => pc[d] # "idle"
    BY DEF Save, Goto, Return, TypeOK
  <2>4. saved' \subseteq Calls /\ row' \in [Orders -> {"none", "completed", "refunded"}]
    BY DEF Save, Mark, TypeOK
  <2>5. UNCHANGED <<transactions, charged, asked, own, queries, granted, before, gone>> BY DEF Save
  <2> QED BY <2>1, <2>2, <2>3, <2>4, <2>5 DEF queries, TypeOK, Codes
<1>2. CallInv' BY DEF Save, Mark, GiveUp, Return, queries, TypeOK, CallInv
<1>3. OrderInv' /\ QueryInv'
  <2>1. CASE Mark(c) BY <2>1, MarkInv DEF Save, CallInv
  <2>2. CASE UNCHANGED <<row, saved>> BY <2>2 DEF Save, queries, OrderInv, QueryInv
  <2> QED BY <2>1, <2>2 DEF Save
<1>4. AfterInv' BY DEF Save, Mark, GiveUp, Return, queries, TypeOK, AfterInv
<1> QED BY <1>1, <1>2, <1>3, <1>4

LEMMA LateSaveInv == ASSUME RefundInv, NEW c \in Calls, LateSave(c) PROVE RefundInv'
<1> USE DEF RefundInv
<1>1. TypeOK'
  <2>1. row' \in [Orders -> {"none", "completed", "refunded"}] /\ saved' \subseteq Calls
    BY DEF LateSave, Mark, TypeOK
  <2>2. /\ underway' \in [Calls -> SUBSET {"refund", "save"}]
        /\ \A d \in Calls : underway'[d] # {} => pc[d] = "done"
    BY DEF LateSave, TypeOK
  <2> QED BY <2>1, <2>2 DEF LateSave, refunds, queries, TypeOK
<1>2. CallInv' BY DEF LateSave, Mark, refunds, queries, TypeOK, CallInv
<1>3. OrderInv' /\ QueryInv'
  <2>1. CASE Mark(c) BY <2>1, MarkInv DEF LateSave, refunds, CallInv
  <2>2. CASE UNCHANGED <<row, saved>> BY <2>2 DEF LateSave, refunds, queries, OrderInv, QueryInv
  <2> QED BY <2>1, <2>2 DEF LateSave
<1>4. AfterInv' BY DEF LateSave, Mark, refunds, queries, TypeOK, AfterInv
<1> QED BY <1>1, <1>2, <1>3, <1>4

\* A query changes nothing but itself.
LEMMA QueryStep ==
    ASSUME RefundInv, NEW q \in Queries,
           UNCHANGED <<row, transactions, charged, refunds, underway, granted, saved, before, gone>>
    PROVE  CallInv' /\ OrderInv' /\ AfterInv'
BY DEF RefundInv, CallInv, OrderInv, AfterInv, refunds

LEMMA GetOrderInv ==
    ASSUME RefundInv, NEW q \in Queries, NEW o \in Orders, GetOrder(q, o) PROVE RefundInv'
<1> USE DEF RefundInv
<1>1. CallInv' /\ OrderInv' /\ AfterInv' BY QueryStep DEF GetOrder
<1>2. TypeOK' BY DEF GetOrder, refunds, TypeOK
<1>3. QueryInv' BY DEF GetOrder, refunds, TypeOK, QueryInv
<1> QED BY <1>1, <1>2, <1>3

LEMMA LookUpInv == ASSUME RefundInv, NEW q \in Queries, LookUp(q) PROVE RefundInv'
<1> USE DEF RefundInv
<1>1. CallInv' /\ OrderInv' /\ AfterInv' BY QueryStep DEF LookUp
<1>2. TypeOK'
  <2>1. answer' \in [Queries -> {"none", "completed", "charged", "refunded", "unknown"}]
    <3>1. row[about[q]] # "none" => row[about[q]] \in {"completed", "refunded"}
      BY DEF LookUp, TypeOK
    <3> QED BY <3>1 DEF LookUp, TypeOK
  <2>2. /\ place' \in [Queries -> {"idle", "look", "enrich", "done"}]
        /\ \A d \in Queries : place'[d] # "idle" => about[d] \in Orders
    BY DEF LookUp, TypeOK
  <2> QED BY <2>1, <2>2 DEF LookUp, refunds, TypeOK
<1>3. ASSUME NEW d \in Queries PROVE QueryInv!(d)'
  <2>1. CASE UNCHANGED answer BY <2>1 DEF LookUp, refunds, TypeOK, QueryInv
  <2>2. CASE answer' = [answer EXCEPT ![q] = row[about[q]]]
    <3>1. about[q] \in Orders /\ row[about[q]] # "charged" BY DEF LookUp, TypeOK
    <3>2. row[about[q]] = "completed" => \A c \in saved \ gone : asked[c] # about[q]
      BY DEF TypeOK, CallInv
    <3>3. row[about[q]] = "refunded" => \E c \in granted : asked[c] = about[q]
      BY <3>1 DEF OrderInv
    <3> QED BY <2>2, <3>1, <3>2, <3>3 DEF LookUp, refunds, TypeOK, QueryInv
  <2> QED BY <2>1, <2>2 DEF LookUp
<1>4. QueryInv' BY <1>3 DEF QueryInv
<1> QED BY <1>1, <1>2, <1>4

LEMMA EnrichInv == ASSUME RefundInv, NEW q \in Queries, Enrich(q) PROVE RefundInv'
<1> USE DEF RefundInv
<1>1. CallInv' /\ OrderInv' /\ AfterInv' BY QueryStep DEF Enrich
<1>2. TypeOK' BY DEF Enrich, PaymentStatus, refunds, TypeOK
<1>3. QueryInv' BY DEF Enrich, PaymentStatus, refunds, TypeOK, QueryInv, OrderInv
<1> QED BY <1>1, <1>2, <1>3

LEMMA StepInv == RefundInv /\ [Next]_vars => RefundInv'
<1> SUFFICES ASSUME RefundInv, [Next]_vars PROVE RefundInv'
  OBVIOUS
<1>1. CASE Next
  BY <1>1, ChargeInv, RecordInv, ExpireInv, RestartInv, RefundOrderInv, LookInv, RefundStepInv, SaveInv,
     LateRefundInv, LateSaveInv, GetOrderInv, LookUpInv, EnrichInv DEF Next
<1>2. CASE UNCHANGED vars
  <2> USE <1>2 DEF vars, refunds, queries, RefundInv
  <2>1. TypeOK' BY DEF TypeOK
  <2>2. CallInv' BY DEF CallInv
  <2>3. OrderInv' /\ AfterInv' /\ QueryInv' BY DEF OrderInv, AfterInv, QueryInv
  <2> QED BY <2>1, <2>2, <2>3
<1> QED BY <1>1, <1>2

\* The invariant holds in every reachable state.
THEOREM Invariance == Spec => []RefundInv
BY InitInv, StepInv, PTL DEF Spec

\* Refund keeps its types.
THEOREM TypeOKAlways == Spec => []TypeOK
<1>1. RefundInv => TypeOK BY DEF RefundInv
<1> QED BY <1>1, Invariance, PTL

\* What RefundOrder answers (OrderServiceImpl.cs) is true.
THEOREM ReplyTellsRefundAlways == Spec => []ReplyTellsRefund
<1>1. RefundInv => ReplyTellsRefund BY DEF RefundInv, CallInv, ReplyTellsRefund
<1> QED BY <1>1, Invariance, PTL

\* Money goes back only to whoever named the order's e-mail address, and an order
\* that says "refunded" was refunded.
THEOREM RefundsAreOwnedAlways == Spec => []RefundsAreOwned
<1>1. RefundInv => RefundsAreOwned
  BY DEF RefundInv, TypeOK, CallInv, OrderInv, RefundsAreOwned, For
<1> QED BY <1>1, Invariance, PTL

\* Without an overlap of calls, only a save that came to nothing lets the money go
\* back twice.
THEOREM RefundedAgainOnlyUnsavedAlways == Spec => []RefundedAgainOnlyUnsaved
<1>1. RefundInv => RefundedAgainOnlyUnsaved
  BY DEF RefundInv, TypeOK, AfterInv, RefundedAgainOnlyUnsaved
<1> QED BY <1>1, Invariance, PTL

\* GetOrder answers nothing that a refund had overtaken when it was asked.
THEOREM StatusIsNotStaleAlways == Spec => []StatusIsNotStale
<1>1. RefundInv => StatusIsNotStale
  BY DEF RefundInv, TypeOK, QueryInv, StatusIsNotStale, For
<1> QED BY <1>1, Invariance, PTL
=============================================================================
