--------------------------- MODULE CheckoutProofs ---------------------------
(***************************************************************************)
(* Proofs about Checkout, for any sets of shoppers, orders and items.      *)
(***************************************************************************)
EXTENDS Checkout, TLAPS

\* Next, with every action named once.
LEMMA NextCases ==
    ASSUME Next, NEW P,
           \A u \in Users, a \in Items : ReadForAdd(u, a) => P,
           \A u \in Users, a \in Items : WriteCart(u, a) => P,
           \A u \in Users : Discard(u) => P,
           \A r \in Requests, u \in Users : Begin(r, u) => P,
           \A r \in Requests : GetCart(r) => P,
           \A r \in Requests : Prepare(r) => P,
           \A r \in Requests : Total(r) => P,
           \A r \in Requests : Charge(r) => P,
           \A r \in Requests : Ship(r) => P,
           \A r \in Requests : Empty(r) => P,
           \A r \in Requests : Confirm(r) => P,
           \A r \in Requests : Publish(r) => P,
           \A r \in Requests : Cancel(r) => P,
           Stop => P,
           \A r \in Requests : LateCharge(r) => P,
           \A r \in Requests : LateShip(r) => P,
           \A r \in Requests : LateEmpty(r) => P,
           \A r \in Requests : LateConfirm(r) => P
    PROVE  P
BY DEF Next, Work, Late, EmptyByShopper, Expire

-----------------------------------------------------------------------------
\* An order walks through the stages in the order of PlaceOrder; what the remote
\* services hold about it says where it stands.  charges counts at most one charge
\* because a paid order never comes back to "charge".  Under way is only what the
\* order has passed and has not had yet.
Untouched(r) == charges[r] = 0 /\ shipped[r] = {} /\ r \notin emailed \cup published
Paid(r)      == charges[r] = 1 /\ shipped[r] = {} /\ r \notin emailed \cup published
Placed(r)    == charges[r] = 1 /\ shipped[r] = prep[r] /\ prep[r] # {}

Progress(r) ==
    /\ reply[r] = "none" <=> pc[r] # "done"
    /\ pc[r] \in {"idle", "cart"} => prep[r] = {}
    /\ prep[r] # {} => user[r] \in Users
    /\ pc[r] \in {"total", "charge", "ship"} => prep[r] # {}
    /\ pc[r] \in {"idle", "cart", "prepare", "total", "charge"} => Untouched(r)
    /\ pc[r] = "ship" => Paid(r)
    /\ pc[r] \in {"empty", "confirm", "publish"} => Placed(r)
    /\ pc[r] \in {"empty", "confirm"} => r \notin emailed \cup published
    /\ pc[r] = "publish" => r \notin published
    /\ reply[r] = "OK" => Placed(r)
    /\ reply[r] = "Unavailable" => charges[r] = 1 /\ r \notin emailed \cup published
    /\ reply[r] = "Internal" => shipped[r] = {} /\ r \notin emailed \cup published
    /\ charges[r] \in {0, 1}
    /\ shipped[r] # {} => Placed(r)
    /\ r \in emailed \cup published => Placed(r)
    /\ "charge" \in underway[r] => /\ reply[r] \in {"Internal", "lost"}
                                   /\ Untouched(r) /\ prep[r] # {}
    /\ "ship" \in underway[r] => /\ reply[r] \in {"Unavailable", "lost"}
                                 /\ Paid(r) /\ prep[r] # {}
    /\ "empty" \in underway[r] => pc[r] \in {"confirm", "publish", "done"} /\ Placed(r)
    /\ "confirm" \in underway[r] => /\ reply[r] \in {"none", "OK", "lost"}
                                    /\ pc[r] \in {"publish", "done"} /\ Placed(r)
    /\ (pc[r] \in {"charge", "ship"} \/ "charge" \in underway[r] \/ charges[r] # 0) =>
         prep[r] \cap ZeroItems = {}

OrderInv == TypeOK /\ \A r \in Requests : Progress(r)

LEMMA OrderInvStep == OrderInv /\ [Next]_vars => OrderInv'
<1> SUFFICES ASSUME OrderInv, [Next]_vars PROVE OrderInv'
  OBVIOUS
<1> USE DEF OrderInv, TypeOK, Progress, Untouched, Paid, Placed
<1> USE DEF remote, local, adds, history, Goto, Return, GiveUp, CarryOut, Effects
<1>h. UNCHANGED history => HistoryOK'
  BY DEF HistoryOK
<1>0. ASSUME NEW u \in Users, NEW a \in Items, ReadForAdd(u, a) PROVE OrderInv'
  <2>1. HistoryOK'
    BY <1>0 DEF ReadForAdd, HistoryOK
  <2>2. QED
    BY <1>0, <2>1 DEF ReadForAdd
<1>1. ASSUME NEW u \in Users, NEW a \in Items, WriteCart(u, a) PROVE OrderInv'
  <2>1. cart' \in [Users -> SUBSET Items] /\ HistoryOK'
    BY <1>1 DEF WriteCart, HistoryOK
  <2>2. TypeOK'
    BY <1>1, <2>1 DEF WriteCart
  <2>3. ASSUME NEW r \in Requests PROVE Progress(r)'
    BY <1>1 DEF WriteCart
  <2>4. QED
    BY <2>2, <2>3
<1>19. ASSUME NEW u \in Users, Discard(u) PROVE OrderInv'
  <2>1. cart' \in [Users -> SUBSET Items] /\ HistoryOK'
    BY <1>19 DEF Discard, HistoryOK
  <2>2. QED
    BY <1>19, <2>1 DEF Discard
<1>2. ASSUME NEW r \in Requests, NEW u \in Users, Begin(r, u) PROVE OrderInv'
  BY <1>2, <1>h DEF Begin
<1>3. ASSUME NEW r \in Requests, GetCart(r) PROVE OrderInv'
  <2>a. /\ met' \subseteq SUBSET Requests
        /\ UNCHANGED <<by, copy, added, dropped, crossed, spans, emptied, late>>
    BY <1>3 DEF GetCart, Open, HistoryOK
  <2>b. prep' \in [Requests -> SUBSET Items]
    BY <1>3 DEF GetCart
  <2>1. HistoryOK' /\ prep' \in [Requests -> SUBSET Items]
    BY <2>a, <2>b DEF HistoryOK
  <2>2. /\ pc[r] = "cart" /\ pc' \in {[pc EXCEPT ![r] = "prepare"], [pc EXCEPT ![r] = "done"]}
        /\ reply' \in {reply, [reply EXCEPT ![r] = "Internal"]}
        /\ UNCHANGED <<remote, user, cancelled>>
    BY <1>3 DEF GetCart
  <2>3. TypeOK'
    BY <2>1, <2>2
  <2>4. ASSUME NEW s \in Requests PROVE Progress(s)'
    BY <1>3 DEF GetCart
  <2>5. QED
    BY <2>3, <2>4
<1>4. ASSUME NEW r \in Requests, Prepare(r) PROVE OrderInv'
  BY <1>4, <1>h DEF Prepare
<1>5. ASSUME NEW r \in Requests, Total(r) PROVE OrderInv'
  BY <1>5, <1>h DEF Total
<1>6. ASSUME NEW r \in Requests, Charge(r) PROVE OrderInv'
  BY <1>6, <1>h DEF Charge, TakeCharge
<1>7. ASSUME NEW r \in Requests, Ship(r) PROVE OrderInv'
  BY <1>7, <1>h DEF Ship, Issue
<1>8. ASSUME NEW r \in Requests, Empty(r) PROVE OrderInv'
  <2>0. \/ EmptyCart(r) /\ UNCHANGED <<adds, late, met>>
        \/ UNCHANGED <<cart, history>>
    BY <1>8 DEF Empty
  <2>1. cart' \in [Users -> SUBSET Items] /\ HistoryOK'
    BY <2>0 DEF EmptyCart, HistoryOK
  <2>2. underway' \in [Requests -> SUBSET Effects]
    BY <1>8 DEF Empty
  <2>3. TypeOK'
    BY <1>8, <2>1, <2>2 DEF Empty
  <2>4. ASSUME NEW q \in Requests PROVE Progress(q)'
    BY <1>8 DEF Empty
  <2>5. QED
    BY <2>3, <2>4
<1>9. ASSUME NEW r \in Requests, Confirm(r) PROVE OrderInv'
  BY <1>9, <1>h DEF Confirm
<1>10. ASSUME NEW r \in Requests, Publish(r) PROVE OrderInv'
  BY <1>10, <1>h DEF Publish
<1>11. ASSUME NEW r \in Requests, Cancel(r) PROVE OrderInv'
  BY <1>11, <1>h DEF Cancel
<1>12. ASSUME Stop PROVE OrderInv'
  BY <1>12, <1>h DEF Stop, InFlight
<1>13. ASSUME NEW r \in Requests, LateCharge(r) PROVE OrderInv'
  BY <1>13, <1>h DEF LateCharge, TakeCharge
<1>14. ASSUME NEW r \in Requests, LateShip(r) PROVE OrderInv'
  BY <1>14, <1>h DEF LateShip, Issue
<1>15. ASSUME NEW r \in Requests, LateEmpty(r) PROVE OrderInv'
  <2>1. /\ cart' \in [Users -> SUBSET Items] /\ HistoryOK'
        /\ underway' \in [Requests -> SUBSET Effects]
    BY <1>15 DEF LateEmpty, EmptyCart, HistoryOK
  <2>2. TypeOK'
    BY <1>15, <2>1 DEF LateEmpty
  <2>3. ASSUME NEW q \in Requests PROVE Progress(q)'
    BY <1>15 DEF LateEmpty
  <2>4. QED
    BY <2>2, <2>3
<1>16. ASSUME NEW r \in Requests, LateConfirm(r) PROVE OrderInv'
  BY <1>16, <1>h DEF LateConfirm
<1>17. CASE UNCHANGED vars
  BY <1>17, <1>h DEF vars
<1>18. QED
  <2>1. CASE Next
    BY <2>1, <1>0, <1>1, <1>2, <1>3, <1>4, <1>5, <1>6, <1>7, <1>8, <1>9, <1>10, <1>11, <1>12,
       <1>13, <1>14, <1>15, <1>16, <1>19, NextCases
  <2>2. QED
    BY <2>1, <1>17

\* The code's data stay of their types, and an order's stage and the services agree.
THEOREM OrderInvAlways == Spec => []OrderInv
<1>1. Init => OrderInv
  BY DEF Init, OrderInv, TypeOK, HistoryOK, Progress, Untouched, NoUser
<1>2. QED
  BY <1>1, OrderInvStep, PTL DEF Spec

-----------------------------------------------------------------------------
\* What PlaceOrder answers tells how far the order went.
THEOREM ReplyTellsProgressAlways == Spec => []ReplyTellsProgress
<1>1. OrderInv => ReplyTellsProgress
  BY DEF OrderInv, Progress, Placed, Sold, ReplyTellsProgress
<1>2. QED
  BY <1>1, OrderInvAlways, PTL

\* Only paid and shipped orders are announced, and none that was refused.
THEOREM OnlyPlacedOrdersAreAnnouncedAlways == Spec => []OnlyPlacedOrdersAreAnnounced
<1>1. OrderInv => OnlyPlacedOrdersAreAnnounced
  BY DEF OrderInv, TypeOK, Progress, Placed, Sold, OnlyPlacedOrdersAreAnnounced
<1>2. QED
  BY <1>1, OrderInvAlways, PTL

\* A paid order holds no zero quantity.
THEOREM PaidOrdersHaveNoZeroQuantityAlways == Spec => []PaidOrdersHaveNoZeroQuantity
<1>1. OrderInv => PaidOrdersHaveNoZeroQuantity
  BY DEF OrderInv, Progress, PaidOrdersHaveNoZeroQuantity
<1>2. QED
  BY <1>1, OrderInvAlways, PTL

-----------------------------------------------------------------------------
(***************************************************************************)
(* The carts.  Every item stays with its user.  An open order has all of   *)
(* the cart except what came late, and an AddItem under way all but what   *)
(* came since it read the cart; what an order that emptied the cart had    *)
(* read is gone, and in no copy but one that spans its EmptyCart; and two  *)
(* orders that read the same item were open together, unless one left the  *)
(* cart as it was or such a copy came back.                                *)
(***************************************************************************)
\* r is past emptyUserCart and has not emptied the cart: it never will.
Kept(r) == /\ pc[r] \in {"confirm", "publish", "done"}
           /\ r \notin emptied /\ "empty" \notin underway[r]

Of(u) == {a \in added : by[a] = u}

OfTheUser     == /\ \A u \in Users : cart[u] \subseteq Of(u)
                 /\ \A r \in Requests : prep[r] \subseteq Of(user[r])
                 /\ \A a \in Items : copy[a] \subseteq Of(by[a])
                 /\ \A a \in added : by[a] \in Users
OpenSeesCart  == \A r \in Open : cart[user[r]] \subseteq prep[r] \cup late[r]
AddSeesCart   == \A u \in Users : \A a \in Holding(u) : cart[u] \subseteq copy[a] \cup crossed[a]
NoCopyOf(r, i) == /\ \A u \in Users : i \notin cart[u]
                  /\ \A b \in Items \ added : i \in copy[b] => r \in spans[b]
EmptiedIsGone == \A r \in emptied : /\ pc[r] \in {"confirm", "publish", "done"}
                                    /\ shipped[r] = prep[r]
                                    /\ \A i \in prep[r] : Restored(r, i) \/ NoCopyOf(r, i)
SharedReads   == \A r, s \in Requests : r # s =>
                    \A i \in prep[r] \cap prep[s] :
                        \/ {r, s} \in met \/ Kept(r) \/ Kept(s)
                        \/ Restored(r, i) \/ Restored(s, i)

CartInv == /\ OfTheUser /\ OpenSeesCart /\ AddSeesCart
           /\ EmptiedIsGone /\ SharedReads /\ ItemsAreLostForAReason

LEMMA CartInvInit == Init => CartInv
BY DEF Init, CartInv, OfTheUser, OpenSeesCart, AddSeesCart, EmptiedIsGone,
       SharedReads, ItemsAreLostForAReason, Open, Holding

\* A step that leaves the carts and what was read of them alone, and opens no order
\* and reopens none.
Aside == /\ UNCHANGED <<cart, user, prep, adds, spans, emptied, late, met>>
         /\ \A r \in Requests : /\ shipped'[r] \in {shipped[r], prep[r]}
                                /\ r \in Open' => r \in Open
                                /\ Kept(r) => Kept(r)'
                                /\ r \in emptied => pc'[r] \in {"confirm", "publish", "done"}

LEMMA CartInvAside == OrderInv /\ CartInv /\ Aside => CartInv'
<1> SUFFICES ASSUME OrderInv, CartInv, Aside PROVE CartInv'
  OBVIOUS
<1> USE DEF Aside, CartInv, adds
<1>1. OfTheUser' /\ AddSeesCart'
  BY DEF OfTheUser, Of, AddSeesCart, Holding
<1>2. OpenSeesCart'
  BY DEF OpenSeesCart, Open
<1>3. EmptiedIsGone'
  BY DEF EmptiedIsGone, Restored, NoCopyOf, OrderInv, TypeOK, HistoryOK
<1>4. SharedReads'
  BY DEF SharedReads, Restored
<1>5. ItemsAreLostForAReason'
  <2>1. \A r \in Requests : shipped[r] \subseteq shipped'[r]
    BY DEF OrderInv, Progress, Placed
  <2>2. QED
    BY <2>1 DEF ItemsAreLostForAReason
<1>6. QED
  BY <1>1, <1>2, <1>3, <1>4, <1>5

LEMMA CartInvReadForAdd ==
    ASSUME OrderInv, CartInv, NEW u \in Users, NEW a \in Items, ReadForAdd(u, a)
    PROVE  CartInv'
<1> USE DEF OrderInv, TypeOK, HistoryOK, CartInv
<1>0. /\ by[a] = NoUser /\ a \notin added
      /\ by' = [by EXCEPT ![a] = u] /\ copy' = [copy EXCEPT ![a] = cart[u]]
      /\ UNCHANGED <<cart, pc, user, prep, shipped, underway, added, dropped, crossed,
                     spans, emptied, late, met>>
  BY ItemsAssumption DEF ReadForAdd, remote, local, OfTheUser
<1>1. OfTheUser'
  BY <1>0 DEF OfTheUser, Of
<1>2. OpenSeesCart'
  BY <1>0 DEF OpenSeesCart, Open
<1>3. AddSeesCart'
  BY <1>0, ItemsAssumption DEF AddSeesCart, Holding
<1>4. \A r, i : Restored(r, i) => Restored(r, i)'
  BY <1>0 DEF Restored
<1>5. EmptiedIsGone'
  <2>1. \A r, i : NoCopyOf(r, i) => NoCopyOf(r, i)'
    BY <1>0 DEF NoCopyOf
  <2>2. QED
    BY <1>0, <1>4, <2>1 DEF EmptiedIsGone
<1>6. SharedReads'
  BY <1>0, <1>4 DEF SharedReads, Kept
<1>7. ItemsAreLostForAReason'
  BY <1>0 DEF ItemsAreLostForAReason
<1>8. QED
  BY <1>1, <1>2, <1>3, <1>5, <1>6, <1>7

\* The write of an AddItem: what it takes out of the cart came while it was under way,
\* and what it puts back of an order that emptied the cart is Restored from now on.
LEMMA CartInvWriteCart ==
    ASSUME OrderInv, CartInv, NEW u \in Users, NEW a \in Items, WriteCart(u, a)
    PROVE  CartInv'
<1> USE DEF OrderInv, TypeOK, HistoryOK, CartInv
<1> DEFINE new == (copy[a] \cup {a}) \ cart[u]
<1>0. /\ by[a] = u /\ a \notin added /\ added' = added \cup {a}
      /\ cart' = [cart EXCEPT ![u] = copy[a] \cup {a}]
      /\ \A r \in Requests : late'[r] = IF r \in Open /\ user[r] = u THEN late[r] \cup new
                                                                    ELSE late[r]
      /\ \A b \in Items : crossed'[b] = IF b \in Holding(u) \ {a} THEN crossed[b] \cup new
                                                                  ELSE crossed[b]
      /\ UNCHANGED <<pc, user, prep, shipped, underway, by, copy, dropped, spans, emptied, met>>
  BY DEF WriteCart, Holding, local
<1>1. OfTheUser'
  BY <1>0 DEF OfTheUser, Of
<1>2. OpenSeesCart'
  <2> SUFFICES ASSUME NEW r \in Open, NEW x \in cart'[user[r]]
               PROVE  x \in prep[r] \cup late'[r]
    BY <1>0 DEF OpenSeesCart, Open
  <2>1. r \in Requests /\ user[r] \in Users
    BY DEF Open, Progress, Placed
  <2>2. x \in cart[user[r]] => x \in prep[r] \cup late[r]
    BY DEF OpenSeesCart
  <2>3. CASE user[r] = u
    BY <1>0, <2>1, <2>2, <2>3
  <2>4. CASE user[r] # u
    BY <1>0, <2>1, <2>2, <2>4
  <2>5. QED
    BY <2>3, <2>4
<1>3. AddSeesCart'
  <2> SUFFICES ASSUME NEW v \in Users, NEW b \in Holding(v)', NEW x \in cart'[v]
               PROVE  x \in copy[b] \cup crossed'[b]
    BY <1>0 DEF AddSeesCart
  <2>1. b \in Items /\ b \in Holding(v) /\ b # a
    BY <1>0 DEF Holding
  <2>2. x \in cart[v] => x \in copy[b] \cup crossed[b]
    BY <2>1 DEF AddSeesCart
  <2>3. CASE v = u
    BY <1>0, <2>1, <2>2, <2>3
  <2>4. CASE v # u
    BY <1>0, <2>1, <2>2, <2>4 DEF Holding
  <2>5. QED
    BY <2>3, <2>4
<1>4. \A r, i : Restored(r, i) => Restored(r, i)'
  BY <1>0 DEF Restored
<1>5. EmptiedIsGone'
  <2> SUFFICES ASSUME NEW r \in emptied, NEW i \in prep[r]
               PROVE  Restored(r, i)' \/ NoCopyOf(r, i)'
    BY <1>0 DEF EmptiedIsGone
  <2>1. i \in added /\ i # a
    BY <1>0 DEF OfTheUser, Of
  <2>2. CASE NoCopyOf(r, i)
    <3>1. CASE i \in copy[a]
      BY <1>0, <2>2, <3>1 DEF NoCopyOf, Restored
    <3>2. CASE i \notin copy[a]
      BY <1>0, <2>1, <2>2, <3>2 DEF NoCopyOf
    <3>3. QED
      BY <3>1, <3>2
  <2>3. QED
    BY <1>4, <2>2 DEF EmptiedIsGone
<1>6. SharedReads'
  BY <1>0, <1>4 DEF SharedReads, Kept
<1>7. ItemsAreLostForAReason'
  <2> SUFFICES ASSUME NEW x \in added, \E v \in Users : x \in cart[v]
               PROVE  (\E v \in Users : x \in cart'[v]) \/ \E b \in added' : x \in crossed'[b]
    <3>1. a \in cart'[u] /\ \A b \in added : b \in added' /\ crossed[b] \subseteq crossed'[b]
      BY <1>0
    <3>2. \A r \in emptied : late[r] \subseteq late'[r]
      BY <1>0
    <3>3. ASSUME NEW x \in added', x # a, ~\E v \in Users : x \in cart[v]
          PROVE  \/ \E r \in Requests : x \in shipped'[r]
                 \/ \E r \in emptied' : x \in late'[r]
                 \/ \E b \in added' : x \in crossed'[b]
                 \/ x \in dropped'
      BY <1>0, <3>1, <3>2, <3>3 DEF ItemsAreLostForAReason
    <3>4. QED
      BY <1>0, <3>1, <3>3 DEF ItemsAreLostForAReason
  <2>1. PICK v \in Users : x \in cart[v]
    OBVIOUS
  <2>2. CASE v = u /\ x \notin copy[a] \cup {a}
    <3>1. x \in crossed[a]
      BY <1>0, <2>1, <2>2 DEF AddSeesCart, Holding
    <3>2. a \in added' /\ crossed'[a] = crossed[a]
      BY <1>0
    <3>3. QED
      BY <3>1, <3>2
  <2>3. CASE ~(v = u /\ x \notin copy[a] \cup {a})
    BY <1>0, <2>1, <2>3
  <2>4. QED
    BY <2>2, <2>3
<1>8. QED
  BY <1>1, <1>2, <1>3, <1>5, <1>6, <1>7

LEMMA CartInvDiscard ==
    ASSUME OrderInv, CartInv, NEW u \in Users, Discard(u)
    PROVE  CartInv'
<1> USE DEF OrderInv, TypeOK, HistoryOK, CartInv
<1>0. /\ cart' = [cart EXCEPT ![u] = {}] /\ dropped' = dropped \cup cart[u]
      /\ UNCHANGED <<pc, user, prep, shipped, underway, by, copy, added, crossed, spans,
                     emptied, late, met>>
  BY DEF Discard, local
<1>1. OfTheUser'
  BY <1>0 DEF OfTheUser, Of
<1>2. OpenSeesCart' /\ AddSeesCart'
  BY <1>0 DEF OpenSeesCart, Open, AddSeesCart, Holding
<1>3. EmptiedIsGone'
  BY <1>0 DEF EmptiedIsGone, Restored, NoCopyOf
<1>4. SharedReads'
  BY <1>0 DEF SharedReads, Kept, Restored
<1>5. ItemsAreLostForAReason'
  BY <1>0 DEF ItemsAreLostForAReason
<1>6. QED
  BY <1>1, <1>2, <1>3, <1>4, <1>5

\* GetCart: an order that has read one of these items before is still open, so the
\* two meet, or it has not emptied the cart.
LEMMA CartInvGetCart ==
    ASSUME OrderInv, CartInv, NEW r \in Requests, GetCart(r)
    PROVE  CartInv'
<1> USE DEF OrderInv, TypeOK, HistoryOK, CartInv
<1>1. CASE Return(r, "Internal") /\ UNCHANGED <<prep, met>>
  <2>1. Aside
    BY <1>1 DEF GetCart, remote, Aside, Open, Kept, Return, Goto, EmptiedIsGone
  <2>2. QED
    BY <2>1, CartInvAside
<1>2. CASE ~(Return(r, "Internal") /\ UNCHANGED <<prep, met>>)
  <2> USE DEF GetCart, remote, Goto, Return
  <2>1. /\ prep' = [prep EXCEPT ![r] = cart[user[r]]]
        /\ pc' = [pc EXCEPT ![r] = "prepare"]
        /\ met' = met \cup {{r, s} : s \in {o \in Open : user[o] = user[r]}}
        /\ pc[r] = "cart" /\ user[r] \in Users
        /\ UNCHANGED <<remote, user, adds, spans, emptied, late>>
    BY <1>2
  <2> HIDE DEF GetCart, Goto, Return
  <2> USE DEF adds
  <2>2. OfTheUser' /\ AddSeesCart'
    BY <2>1 DEF OfTheUser, Of, AddSeesCart, Holding
  <2>3. OpenSeesCart'
    BY <2>1 DEF OpenSeesCart, Open
  <2>4. EmptiedIsGone'
    BY <2>1 DEF EmptiedIsGone, Restored, NoCopyOf
  <2>5. ItemsAreLostForAReason'
    BY <2>1 DEF ItemsAreLostForAReason
  <2>6. ASSUME NEW s \in Requests, s # r, NEW i \in prep[s] \cap cart[user[r]]
        PROVE  {r, s} \in met' \/ Kept(s)' \/ Restored(s, i)'
    <3>1. user[s] = user[r]
      BY <2>1, <2>6 DEF OfTheUser, Of, Progress
    <3>2. pc[s] \notin {"idle", "cart"}
      BY <2>6 DEF Progress
    <3>3. CASE s \in Open
      BY <2>1, <3>1, <3>3
    <3>4. CASE s \notin Open /\ s \notin emptied
      BY <2>1, <3>1, <3>2, <3>4, <2>6 DEF Open, Kept
    <3>5. CASE s \in emptied
      BY <2>1, <2>6, <3>5 DEF EmptiedIsGone, NoCopyOf, Restored
    <3>6. QED
      BY <3>3, <3>4, <3>5
  <2>7. SharedReads'
    <3> SUFFICES ASSUME NEW s \in Requests, NEW t \in Requests, s # t,
                        NEW i \in prep'[s] \cap prep'[t]
                 PROVE  \/ {s, t} \in met' \/ Kept(s)' \/ Kept(t)'
                        \/ Restored(s, i)' \/ Restored(t, i)'
      BY DEF SharedReads
    <3>1. CASE s = r
      BY <3>1, <2>1, <2>6
    <3>2. CASE t = r
      <4>1. {t, s} = {s, t}
        OBVIOUS
      <4>2. QED
        BY <3>2, <4>1, <2>1, <2>6
    <3>3. CASE s # r /\ t # r
      BY <3>3, <2>1 DEF SharedReads, Kept, Restored
    <3>4. QED
      BY <3>1, <3>2, <3>3
  <2>8. QED
    BY <2>2, <2>3, <2>4, <2>5, <2>7
<1>3. QED
  BY <1>1, <1>2

\* EmptyCart: what the cart held is shipped by this order or came late to it, and every
\* copy of it that an AddItem still holds spans this step.
LEMMA CartInvCleared ==
    ASSUME OrderInv, CartInv, NEW r \in Requests, EmptyCart(r), user[r] \in Users, r \in Open,
           Placed(r), pc'[r] \in {"confirm", "publish", "done"},
           \A s \in Requests \ {r} : pc'[s] = pc[s] /\ underway'[s] = underway[s],
           UNCHANGED <<shipped, user, prep, adds, late, met>>
    PROVE  CartInv'
<1> USE DEF OrderInv, TypeOK, HistoryOK, CartInv, adds
<1>1. /\ cart' = [cart EXCEPT ![user[r]] = {}]
      /\ emptied' = emptied \cup {r}
      /\ \A a \in Items : spans'[a] = IF a \in Holding(user[r]) THEN spans[a] \cup {r} ELSE spans[a]
  BY DEF EmptyCart
<1>2. shipped[r] = prep[r]
  BY DEF Placed
<1>3. OfTheUser'
  BY <1>1 DEF OfTheUser, Of
<1>4. OpenSeesCart'
  <2>1. \A s \in Open' : s \in Open
    BY DEF Open
  <2>2. QED
    BY <1>1, <2>1 DEF OpenSeesCart, Open
<1>5. AddSeesCart'
  BY <1>1 DEF AddSeesCart, Holding
<1>6. \A s, i : Restored(s, i) => Restored(s, i)'
  BY <1>1 DEF Restored
<1>7. EmptiedIsGone'
  <2>1. ASSUME NEW s \in emptied, s # r, NEW i \in prep[s]
        PROVE  Restored(s, i)' \/ NoCopyOf(s, i)'
    BY <1>1, <1>6, <2>1 DEF EmptiedIsGone, NoCopyOf
  <2>2. ASSUME NEW i \in prep[r] PROVE NoCopyOf(r, i)'
    <3>1. i \in added /\ by[i] = user[r]
      BY DEF OfTheUser, Of
    <3>2. \A u \in Users : i \notin cart'[u]
      BY <1>1, <3>1 DEF OfTheUser, Of
    <3>3. ASSUME NEW b \in Items \ added, i \in copy[b] PROVE r \in spans'[b]
      <4>1. b \in Holding(user[r])
        BY <3>1, <3>3 DEF OfTheUser, Of, Holding
      <4>2. QED
        BY <1>1, <4>1
    <3>4. QED
      BY <3>2, <3>3 DEF NoCopyOf
  <2>3. QED
    BY <1>1, <1>2, <2>1, <2>2 DEF EmptiedIsGone
<1>8. SharedReads'
  <2>1. \A s \in Requests : Kept(s) => Kept(s)'
    BY <1>1 DEF Kept, Open, Progress
  <2>2. QED
    BY <1>6, <2>1 DEF SharedReads
<1>9. ItemsAreLostForAReason'
  <2>1. cart[user[r]] \subseteq shipped[r] \cup late[r]
    BY <1>2 DEF OpenSeesCart
  <2>2. QED
    BY <1>1, <2>1 DEF ItemsAreLostForAReason
<1>10. QED
  BY <1>3, <1>4, <1>5, <1>7, <1>8, <1>9

LEMMA CartInvEmpty ==
    ASSUME OrderInv, CartInv, NEW r \in Requests, Empty(r)
    PROVE  CartInv'
<1> USE DEF OrderInv, TypeOK, HistoryOK
<1>1. CASE EmptyCart(r) /\ UNCHANGED underway
  <2>1. r \in Open /\ Placed(r) /\ user[r] \in Users
    BY DEF Empty, Open, Progress
  <2>2. QED
    BY <1>1, <2>1, CartInvCleared DEF Empty, Goto, local
<1>2. CASE UNCHANGED <<cart, emptied, spans>>
  <2>1. Aside
    BY <1>2 DEF Empty, GiveUp, local, Aside, Open, Kept, Goto, CartInv, EmptiedIsGone
  <2>2. QED
    BY <2>1, CartInvAside
<1>3. QED
  BY <1>1, <1>2 DEF Empty

LEMMA CartInvLateEmpty ==
    ASSUME OrderInv, CartInv, NEW r \in Requests, LateEmpty(r)
    PROVE  CartInv'
<1>1. /\ "empty" \in underway[r] /\ pc' = pc
      /\ r \in Open /\ Placed(r) /\ pc[r] \in {"confirm", "publish", "done"}
  BY DEF LateEmpty, CarryOut, Open, OrderInv, Progress
<1>2. user[r] \in Users
  BY <1>1 DEF OrderInv, Progress, Placed
<1>3. QED
  BY <1>1, <1>2, CartInvCleared DEF LateEmpty, CarryOut, local, OrderInv, TypeOK, HistoryOK

LEMMA CartInvStep == OrderInv /\ CartInv /\ [Next]_vars => CartInv'
<1> SUFFICES ASSUME OrderInv, CartInv, [Next]_vars PROVE CartInv'
  OBVIOUS
<1> USE DEF Aside, Open, Kept, local, adds, history, Goto, Return, GiveUp, CarryOut
<1>a. \A r \in emptied : pc[r] \in {"confirm", "publish", "done"}
  BY DEF CartInv, EmptiedIsGone
<1>b. emptied \subseteq Requests /\ DOMAIN pc = Requests /\ pc = [r \in Requests |-> pc[r]]
      /\ underway \in [Requests -> SUBSET Effects]
  BY DEF OrderInv, TypeOK, HistoryOK
<1>0. ASSUME NEW u \in Users, NEW a \in Items, ReadForAdd(u, a) PROVE CartInv'
  BY <1>0, CartInvReadForAdd
<1>1. ASSUME NEW u \in Users, NEW a \in Items, WriteCart(u, a) PROVE CartInv'
  BY <1>1, CartInvWriteCart
<1>19. ASSUME NEW u \in Users, Discard(u) PROVE CartInv'
  BY <1>19, CartInvDiscard
<1>2. ASSUME NEW r \in Requests, NEW u \in Users, Begin(r, u) PROVE CartInv'
  \* Begin gives an order its user: nothing is read for it yet.
  <2>1. prep[r] = {} /\ r \notin emptied /\ "empty" \notin underway[r]
    BY <1>2, <1>a DEF Begin, OrderInv, Progress
  <2>2. /\ user' = [user EXCEPT ![r] = u] /\ pc' = [pc EXCEPT ![r] = "cart"]
        /\ pc[r] = "idle"
        /\ UNCHANGED <<cart, prep, shipped, underway, adds, spans, emptied, late, met>>
    BY <1>2 DEF Begin, remote
  <2>3. user \in [Requests -> Users \cup {NoUser}]
    BY DEF OrderInv, TypeOK, HistoryOK
  <2>4. AddSeesCart' /\ ItemsAreLostForAReason'
    BY <2>2 DEF CartInv, AddSeesCart, Holding, ItemsAreLostForAReason, adds
  <2>9. EmptiedIsGone'
    BY <2>1, <2>2, <1>b DEF CartInv, EmptiedIsGone, Restored, NoCopyOf, adds
  <2>5. OfTheUser'
    BY <2>1, <2>2, <2>3 DEF CartInv, OfTheUser, Of, adds
  <2>6. OpenSeesCart'
    BY <2>1, <2>2, <2>3, <1>b DEF CartInv, OpenSeesCart
  <2>7. SharedReads'
    BY <2>1, <2>2, <1>b DEF CartInv, SharedReads, Restored, adds
  <2>8. QED
    BY <2>4, <2>9, <2>5, <2>6, <2>7 DEF CartInv
<1>3. ASSUME NEW r \in Requests, GetCart(r) PROVE CartInv'
  BY <1>3, CartInvGetCart
<1>4. ASSUME NEW r \in Requests, Prepare(r) PROVE CartInv'
  <2>1. Aside
    BY <1>4, <1>a, <1>b DEF Prepare, remote
  <2>2. QED
    BY <2>1, CartInvAside
<1>5. ASSUME NEW r \in Requests, Total(r) PROVE CartInv'
  <2>1. Aside
    BY <1>5, <1>a, <1>b DEF Total, remote
  <2>2. QED
    BY <2>1, CartInvAside
<1>6. ASSUME NEW r \in Requests, Charge(r) PROVE CartInv'
  <2>1. Aside
    BY <1>6, <1>a, <1>b DEF Charge
  <2>2. QED
    BY <2>1, CartInvAside
<1>7. ASSUME NEW r \in Requests, Ship(r) PROVE CartInv'
  <2>1. shipped \in [Requests -> SUBSET Items]
    BY DEF OrderInv, TypeOK, HistoryOK
  <2>2. Aside
    BY <1>7, <1>a, <1>b, <2>1 DEF Ship, Issue
  <2>3. QED
    BY <2>2, CartInvAside
<1>8. ASSUME NEW r \in Requests, Empty(r) PROVE CartInv'
  BY <1>8, CartInvEmpty
<1>9. ASSUME NEW r \in Requests, Confirm(r) PROVE CartInv'
  <2>1. Aside
    BY <1>9, <1>a, <1>b DEF Confirm
  <2>2. QED
    BY <2>1, CartInvAside
<1>10. ASSUME NEW r \in Requests, Publish(r) PROVE CartInv'
  <2>1. Aside
    BY <1>10, <1>a, <1>b DEF Publish
  <2>2. QED
    BY <2>1, CartInvAside
<1>11. ASSUME NEW r \in Requests, Cancel(r) PROVE CartInv'
  <2>1. Aside
    BY <1>11, <1>a, <1>b DEF Cancel, remote
  <2>2. QED
    BY <2>1, CartInvAside
<1>12. ASSUME Stop PROVE CartInv'
  <2>1. Aside
    BY <1>12, <1>a, <1>b DEF Stop, InFlight
  <2>2. QED
    BY <2>1, CartInvAside
<1>13. ASSUME NEW r \in Requests, LateCharge(r) PROVE CartInv'
  <2>1. Aside
    BY <1>13, <1>a, <1>b DEF LateCharge
  <2>2. QED
    BY <2>1, CartInvAside
<1>14. ASSUME NEW r \in Requests, LateShip(r) PROVE CartInv'
  <2>1. shipped \in [Requests -> SUBSET Items]
    BY DEF OrderInv, TypeOK, HistoryOK
  <2>2. Aside
    BY <1>14, <1>a, <1>b, <2>1 DEF LateShip, Issue
  <2>3. QED
    BY <2>2, CartInvAside
<1>15. ASSUME NEW r \in Requests, LateEmpty(r) PROVE CartInv'
  BY <1>15, CartInvLateEmpty
<1>16. ASSUME NEW r \in Requests, LateConfirm(r) PROVE CartInv'
  <2>1. Aside
    BY <1>16, <1>a, <1>b DEF LateConfirm
  <2>2. QED
    BY <2>1, CartInvAside
<1>17. CASE UNCHANGED vars
  <2>1. Aside
    BY <1>17, <1>a, <1>b DEF vars, remote
  <2>2. QED
    BY <2>1, CartInvAside
<1>18. QED
  <2>1. CASE Next
    BY <2>1, <1>0, <1>1, <1>2, <1>3, <1>4, <1>5, <1>6, <1>7, <1>8, <1>9, <1>10, <1>11, <1>12,
       <1>13, <1>14, <1>15, <1>16, <1>19, NextCases
  <2>2. QED
    BY <2>1, <1>17

THEOREM CartInvAlways == Spec => []CartInv
BY CartInvInit, CartInvStep, OrderInvAlways, PTL DEF Spec

\* No item is lost but for one of the four reasons.
THEOREM ItemsAreLostForAReasonAlways == Spec => []ItemsAreLostForAReason
<1>1. CartInv => ItemsAreLostForAReason
  BY DEF CartInv
<1>2. QED
  BY <1>1, CartInvAlways, PTL

\* No item is sold twice but by orders that were open together, an order that kept the
\* cart, or an AddItem that put back what an order had emptied.
THEOREM ItemsAreSoldTwiceForAReasonAlways == Spec => []ItemsAreSoldTwiceForAReason
<1>1. OrderInv /\ CartInv => ItemsAreSoldTwiceForAReason
  <2> SUFFICES ASSUME OrderInv, CartInv, NEW r \in Requests, NEW s \in Requests,
                      r # s, NEW a \in shipped[r] \cap shipped[s]
               PROVE  \/ {r, s} \in met \/ ~({r, s} \subseteq emptied)
                      \/ Restored(r, a) \/ Restored(s, a)
    BY DEF ItemsAreSoldTwiceForAReason
  <2>1. shipped[r] = prep[r] /\ shipped[s] = prep[s]
    BY DEF OrderInv, Progress, Placed
  <2>2. QED
    BY <2>1 DEF CartInv, SharedReads, Kept
<1>2. QED
  BY <1>1, OrderInvAlways, CartInvAlways, PTL

\* No cart loses an item but to its user's own placed order, with the whole cart, or to
\* the write of an AddItem that did not see it.
THEOREM CartLosesItemsForAReasonAlways == Spec => CartLosesItemsForAReason
<1> DEFINE Reason(u, a) ==
              \/ \E r \in Requests : /\ user[r] = u /\ (pc[r] = "empty" \/ "empty" \in underway[r])
                                     /\ charges[r] = 1 /\ Sold(r)
              \/ cart'[u] = {} /\ a \in dropped'
              \/ \E b \in Holding(u) : b \in cart'[u] /\ a \in crossed[b]
           Losing == \A u \in Users : \A a \in cart[u] \ cart'[u] : Reason(u, a)
<1>1. OrderInv /\ CartInv /\ [Next]_vars => Losing
  <2> SUFFICES ASSUME OrderInv, CartInv, Next PROVE Losing
    BY DEF vars, remote
  <2>1. ASSUME NEW u \in Users, NEW a \in Items, WriteCart(u, a) PROVE Losing
    <3>1. /\ a \in Holding(u) /\ cart' = [cart EXCEPT ![u] = copy[a] \cup {a}]
      BY <2>1 DEF WriteCart
    <3>2. cart[u] \subseteq copy[a] \cup crossed[a]
      BY <3>1 DEF CartInv, AddSeesCart
    <3>3. QED
      BY <3>1, <3>2 DEF OrderInv, TypeOK, HistoryOK
  <2>2. ASSUME NEW u \in Users, Discard(u) PROVE Losing
    BY <2>2 DEF Discard, OrderInv, TypeOK, HistoryOK
  <2>3. ASSUME NEW r \in Requests, Empty(r) PROVE Losing
    <3>1. charges[r] = 1 /\ Sold(r)
      BY <2>3 DEF Empty, OrderInv, Progress, Placed, Sold
    <3>2. QED
      BY <2>3, <3>1 DEF Empty, EmptyCart, OrderInv, TypeOK, HistoryOK
  <2>4. ASSUME NEW r \in Requests, LateEmpty(r) PROVE Losing
    <3>1. charges[r] = 1 /\ Sold(r)
      BY <2>4 DEF LateEmpty, CarryOut, OrderInv, Progress, Placed, Sold
    <3>2. QED
      BY <2>4, <3>1 DEF LateEmpty, CarryOut, EmptyCart, OrderInv, TypeOK, HistoryOK
  <2>5. CASE UNCHANGED cart
    BY <2>5
  <2>6. QED
    <3> HIDE DEF Losing
    <3> USE DEF remote
    <3>1. \A u \in Users, a \in Items : ReadForAdd(u, a) => UNCHANGED cart
      BY DEF ReadForAdd
    <3>2. \A r \in Requests, u \in Users : Begin(r, u) => UNCHANGED cart
      BY DEF Begin
    <3>3. \A r \in Requests : GetCart(r) \/ Prepare(r) \/ Total(r) => UNCHANGED cart
      BY DEF GetCart, Prepare, Total
    <3>4. \A r \in Requests : Charge(r) \/ Ship(r) \/ Confirm(r) => UNCHANGED cart
      BY DEF Charge, Ship, Confirm
    <3>5. \A r \in Requests : Publish(r) \/ Cancel(r) => UNCHANGED cart
      BY DEF Publish, Cancel
    <3>6. Stop => UNCHANGED cart
      BY DEF Stop
    <3>7. \A r \in Requests : LateCharge(r) \/ LateShip(r) \/ LateConfirm(r) => UNCHANGED cart
      BY DEF LateCharge, LateShip, LateConfirm
    <3>8. QED
      BY <2>1, <2>2, <2>3, <2>4, <2>5, <3>1, <3>2, <3>3, <3>4, <3>5, <3>6, <3>7, NextCases
<1>2. QED
  BY <1>1, OrderInvAlways, CartInvAlways, PTL DEF Spec, CartLosesItemsForAReason

-----------------------------------------------------------------------------
\* A step that leaves every order at its stage and reopens none is one of Lifecycle.
LEMMA Idle ==
    ASSUME \A r \in Requests : Stage(r)' = Stage(r), Ended \subseteq Ended'
    PROVE  Lifecycle!Next
<1>1. Ended' \subseteq Requests
  BY DEF Ended
<1>2. [r \in Requests |-> Stage(r)'] = [r \in Requests |-> Stage(r)]
  OBVIOUS
<1>3. QED
  BY <1>1, <1>2 DEF Lifecycle!Next, Lifecycle!Close

\* So is a step that moves one order by one stage.
LEMMA Forward ==
    ASSUME NEW r \in Requests, r \notin Ended, Ended' \in {Ended, Ended \cup {r}},
           <<Stage(r), Stage(r)'>> \in
               {<<"new", "paid">>, <<"paid", "shipped">>, <<"shipped", "announced">>},
           \A s \in Requests \ {r} : Stage(s)' = Stage(s)
    PROVE  Lifecycle!Next
<1> DEFINE stages == [s \in Requests |-> Stage(s)]
<1>1. stages' = [stages EXCEPT ![r] = Stage(r)']
  OBVIOUS
<1>2. \/ Lifecycle!Advance(r, "new", "paid")
      \/ Lifecycle!Advance(r, "paid", "shipped")
      \/ Lifecycle!Advance(r, "shipped", "announced")
  BY <1>1 DEF Lifecycle!Advance
<1>3. QED
  BY <1>2 DEF Lifecycle!Next, Lifecycle!Pay, Lifecycle!Dispatch, Lifecycle!Announce

LEMMA LifecycleStep == OrderInv /\ [Next]_vars =>
                           [Lifecycle!Next]_<<[r \in Requests |-> Stage(r)], Ended>>
<1> SUFFICES ASSUME OrderInv, [Next]_vars
             PROVE  Lifecycle!Next
  OBVIOUS
<1> USE DEF remote, local, adds, history, Goto, Return, Stage, Sold, Ended, GiveUp, CarryOut
<1>0. /\ \A r \in Requests : Progress(r)
      /\ underway \in [Requests -> SUBSET Effects]
      /\ DOMAIN pc = Requests /\ DOMAIN charges = Requests /\ DOMAIN shipped = Requests
  BY DEF OrderInv, TypeOK
<1>a. ASSUME NEW u \in Users, NEW a \in Items, ReadForAdd(u, a) PROVE Lifecycle!Next
  BY <1>a, Idle DEF ReadForAdd
<1>1. ASSUME NEW u \in Users, NEW a \in Items, WriteCart(u, a) PROVE Lifecycle!Next
  BY <1>1, Idle DEF WriteCart
<1>19. ASSUME NEW u \in Users, Discard(u) PROVE Lifecycle!Next
  BY <1>19, Idle DEF Discard
<1>2. ASSUME NEW r \in Requests, NEW u \in Users, Begin(r, u) PROVE Lifecycle!Next
  BY <1>0, <1>2, Idle DEF Begin
<1>3. ASSUME NEW r \in Requests, GetCart(r) PROVE Lifecycle!Next
  BY <1>0, <1>3, Idle DEF GetCart
<1>4. ASSUME NEW r \in Requests, Prepare(r) PROVE Lifecycle!Next
  BY <1>0, <1>4, Idle DEF Prepare
<1>5. ASSUME NEW r \in Requests, Total(r) PROVE Lifecycle!Next
  BY <1>0, <1>5, Idle DEF Total
<1>6. ASSUME NEW r \in Requests, Charge(r) PROVE Lifecycle!Next
  <2>1. CASE UNCHANGED charges
    BY <1>0, <1>6, <2>1, Idle DEF Charge
  <2>2. CASE TakeCharge(r)
    <3>1. Stage(r) = "new" /\ Stage(r)' = "paid"
      BY <1>0, <1>6, <2>2 DEF Charge, TakeCharge, Progress, Untouched
    <3>2. QED
      BY <1>0, <1>6, <2>2, <3>1, Forward DEF Charge, TakeCharge
  <2>3. QED
    BY <1>6, <2>1, <2>2 DEF Charge
<1>7. ASSUME NEW r \in Requests, Ship(r) PROVE Lifecycle!Next
  <2>1. CASE UNCHANGED shipped
    BY <1>0, <1>7, <2>1, Idle DEF Ship
  <2>2. CASE Issue(r)
    <3>1. Stage(r) = "paid" /\ Stage(r)' = "shipped"
      BY <1>0, <1>7, <2>2 DEF Ship, Issue, Progress, Paid
    <3>2. \A s \in Requests \ {r} : Stage(s)' = Stage(s)
      BY <1>0, <1>7, <2>2 DEF Ship, Issue
    <3>3. r \notin Ended /\ Ended' \in {Ended, Ended \cup {r}}
      BY <1>0, <1>7 DEF Ship
    <3>4. QED
      BY <3>1, <3>2, <3>3, Forward
  <2>3. QED
    BY <1>7, <2>1, <2>2 DEF Ship
<1>8. ASSUME NEW r \in Requests, Empty(r) PROVE Lifecycle!Next
  BY <1>0, <1>8, Idle DEF Empty
<1>9. ASSUME NEW r \in Requests, Confirm(r) PROVE Lifecycle!Next
  <2>1. CASE UNCHANGED emailed
    BY <1>0, <1>9, <2>1, Idle DEF Confirm
  <2>2. CASE emailed' = emailed \cup {r}
    <3>1. Stage(r) = "shipped" /\ Stage(r)' = "announced"
      BY <1>0, <1>9, <2>2 DEF Confirm, Progress, Placed
    <3>2. QED
      BY <1>0, <1>9, <2>2, <3>1, Forward DEF Confirm
  <2>3. QED
    BY <1>9, <2>1, <2>2 DEF Confirm
<1>10. ASSUME NEW r \in Requests, Publish(r) PROVE Lifecycle!Next
  <2>1. CASE r \in emailed \/ UNCHANGED published
    BY <1>0, <1>10, <2>1, Idle DEF Publish
  <2>2. CASE r \notin emailed /\ published' = published \cup {r}
    <3>1. Stage(r) = "shipped" /\ Stage(r)' = "announced"
      BY <1>0, <1>10, <2>2 DEF Publish, Progress, Placed
    <3>2. QED
      BY <1>0, <1>10, <2>2, <3>1, Forward DEF Publish
  <2>3. QED
    BY <1>10, <2>1, <2>2 DEF Publish
<1>11. ASSUME NEW r \in Requests, Cancel(r) PROVE Lifecycle!Next
  BY <1>11, Idle DEF Cancel
<1>12. ASSUME Stop PROVE Lifecycle!Next
  BY <1>0, <1>12, Idle DEF Stop, InFlight, Effects
<1>13. ASSUME NEW r \in Requests, LateCharge(r) PROVE Lifecycle!Next
  <2>1. Stage(r) = "new" /\ Stage(r)' = "paid"
    BY <1>0, <1>13 DEF LateCharge, TakeCharge, Progress, Untouched
  <2>2. QED
    BY <1>0, <1>13, <2>1, Forward DEF LateCharge, TakeCharge
<1>14. ASSUME NEW r \in Requests, LateShip(r) PROVE Lifecycle!Next
  <2>1. Stage(r) = "paid" /\ Stage(r)' = "shipped"
    BY <1>0, <1>14 DEF LateShip, Issue, Progress, Paid
  <2>2. \A s \in Requests \ {r} : Stage(s)' = Stage(s)
    BY <1>0, <1>14 DEF LateShip, Issue
  <2>3. r \notin Ended /\ Ended' \in {Ended, Ended \cup {r}}
    BY <1>0, <1>14 DEF LateShip
  <2>4. QED
    BY <2>1, <2>2, <2>3, Forward
<1>15. ASSUME NEW r \in Requests, LateEmpty(r) PROVE Lifecycle!Next
  BY <1>0, <1>15, Idle DEF LateEmpty
<1>16. ASSUME NEW r \in Requests, LateConfirm(r) PROVE Lifecycle!Next
  <2>1. CASE r \in published \/ r \in emailed
    BY <1>0, <1>16, <2>1, Idle DEF LateConfirm
  <2>2. CASE r \notin published /\ r \notin emailed
    <3>1. Stage(r) = "shipped" /\ Stage(r)' = "announced"
      BY <1>0, <1>16, <2>2 DEF LateConfirm, Progress, Placed
    <3>2. QED
      BY <1>0, <1>16, <2>2, <3>1, Forward DEF LateConfirm
  <2>3. QED
    BY <2>1, <2>2
<1>17. CASE UNCHANGED vars
  BY <1>17, Idle DEF vars
<1>18. QED
  <2>1. CASE Next
    BY <2>1, <1>a, <1>1, <1>2, <1>3, <1>4, <1>5, <1>6, <1>7, <1>8, <1>9, <1>10, <1>11, <1>12,
       <1>13, <1>14, <1>15, <1>16, <1>19, NextCases
  <2>2. QED
    BY <2>1, <1>17

\* Checkout implements the abstract order: an order moves by one stage at a time,
\* and one that is over moves no more, in every interleaving and under every failure.
THEOREM ImplementsLifecycleAlways == Spec => ImplementsLifecycle
<1>1. Init => Lifecycle!Init
  BY DEF Init, Lifecycle!Init, Stage, Sold, Ended
<1>2. QED
  BY <1>1, LifecycleStep, OrderInvAlways, PTL DEF Spec, ImplementsLifecycle, Lifecycle!Spec

\* The variables keep their types.
THEOREM TypeOKAlways == Spec => []TypeOK
<1>1. OrderInv => TypeOK
  BY DEF OrderInv
<1>2. QED
  BY <1>1, OrderInvAlways, PTL
=============================================================================
