------------------------------ MODULE Checkout ------------------------------
(***************************************************************************)
(* The checkout service: any number of PlaceOrder calls (main.go) run      *)
(* concurrently against the cart, payment, shipping and email services and *)
(* the Kafka producer, while shoppers go on adding to their carts and      *)
(* emptying them, and carts expire.                                        *)
(*                                                                         *)
(* One action per remote call that changes something.  A call can succeed, *)
(* fail for good, or be given up while the service goes on with it: then   *)
(* it takes effect later or never.  Nothing but ctx limits how long a call *)
(* waits; once the caller has gone away (ctx is cancelled) it waits no     *)
(* more, and every further call fails before it is sent.  The pod can stop *)
(* at any point: main installs no signal handler before Serve returns, so  *)
(* SIGTERM drops what is in flight.                                        *)
(*                                                                         *)
(* An item stands for one AddItem call, and a cart is a set of items.  The *)
(* cart service reads the cart and writes it back in two commands, so an   *)
(* AddItem is two steps; the writes of one EmptyCart are one.  How these   *)
(* commands fail, and how a key expires, is in CartStore in more detail;   *)
(* the price arithmetic is in OrderTotal.                                  *)
(***************************************************************************)
EXTENDS Naturals

CONSTANTS Users,       \* shoppers
          Requests,    \* PlaceOrder calls; each stands for its order id too
          Items,       \* AddItem calls
          ZeroItems,   \* those with quantity 0
          NegItems     \* those with a negative quantity

NoUser == "nobody"

ASSUME ItemsAssumption == /\ ZeroItems \subseteq Items
                          /\ NegItems \subseteq Items
                          /\ ZeroItems \cap NegItems = {}
                          /\ NoUser \notin Users

VARIABLES
    cart,       \* the cart service: the items of every user
    pc,         \* where each call stands
    user,       \* req.UserId
    prep,       \* prep.cartItems: the cart as GetCart returned it
    cancelled,  \* calls whose ctx is cancelled
    reply,      \* what PlaceOrder answered
    charges,    \* the payment service: charges taken for each order
    shipped,    \* the shipping service: items it issued a tracking id for
    emailed,    \* the email service: orders confirmed
    published,  \* orders handed to the Kafka producer
    underway,   \* requests PlaceOrder gave up on that may still be carried out
    producer,   \* whether KafkaProducerClient was created at startup
    by,         \* whose cart each AddItem call is for
    copy,       \* the cart as the AddItem call read it
    added,      \* the AddItem calls that wrote the cart back: items ever put in a cart
    dropped,    \* history: items in a cart that the shopper emptied or that expired
    crossed,    \* history: items that came into the cart while the AddItem had its copy
    spans,      \* history: orders that emptied the cart while the AddItem had its copy
    emptied,    \* history: orders whose EmptyCart took effect
    late,       \* history: items that came into the user's cart after the order read it
    met         \* history: pairs of orders of one user open at the same time

remote  == <<cart, charges, shipped, emailed, published, producer, underway>>
local   == <<user, prep, cancelled>>
adds    == <<by, copy, added, dropped, crossed>>
history == <<adds, spans, emptied, late, met>>
vars    == <<remote, local, pc, reply, history>>

\* The calls that have read a cart and may still empty it.
Open == {r \in Requests : \/ pc[r] \in {"prepare", "total", "charge", "ship", "empty"}
                         \/ "empty" \in underway[r]}
\* The AddItem calls for u that have read the cart and have not written it, or never will.
Holding(u) == {a \in Items : by[a] = u /\ a \notin added}
InFlight == {r \in Requests : pc[r] \notin {"idle", "done"}}

Init ==
    /\ cart = [u \in Users |-> {}]
    /\ pc = [r \in Requests |-> "idle"]
    /\ user = [r \in Requests |-> NoUser]
    /\ prep = [r \in Requests |-> {}]
    /\ cancelled = {}
    /\ reply = [r \in Requests |-> "none"]
    /\ charges = [r \in Requests |-> 0]
    /\ shipped = [r \in Requests |-> {}]
    /\ emailed = {} /\ published = {}
    /\ underway = [r \in Requests |-> {}]
    /\ producer \in BOOLEAN
    /\ by = [a \in Items |-> NoUser]
    /\ copy = [a \in Items |-> {}] /\ crossed = copy /\ spans = copy
    /\ added = {} /\ dropped = {} /\ emptied = {} /\ met = {}
    /\ late = [r \in Requests |-> {}]

-----------------------------------------------------------------------------
Goto(r, place) == pc' = [pc EXCEPT ![r] = place] /\ UNCHANGED reply

\* PlaceOrder returns: the code is "OK" or that of the gRPC status.
Return(r, code) ==
    /\ pc' = [pc EXCEPT ![r] = "done"]
    /\ reply' = [reply EXCEPT ![r] = code]

\* A call is sent only while the caller is there to wait for it.
Sent(r) == r \notin cancelled

\* The request is on its way, and PlaceOrder stops waiting for its answer.
Effects == {"charge", "ship", "empty", "confirm"}
GiveUp(r) == Sent(r) /\ underway' = [underway EXCEPT ![r] = @ \cup {pc[r]}]

\* The service carries out a request that was given up.
CarryOut(r, effect) ==
    /\ effect \in underway[r]
    /\ underway' = [underway EXCEPT ![r] = @ \ {effect}]

\* A shopper's AddItem, through the frontend: the cart service reads the cart ...
ReadForAdd(u, a) ==
    /\ by[a] = NoUser
    /\ by' = [by EXCEPT ![a] = u]
    /\ copy' = [copy EXCEPT ![a] = cart[u]]
    /\ UNCHANGED <<remote, pc, local, reply, added, dropped, crossed, spans, emptied, late, met>>

\* ... and writes back what it read with the item, whatever the cart is by then.  An
\* AddItem that fails does not get here.
WriteCart(u, a) ==
    /\ a \in Holding(u)
    /\ added' = added \cup {a}
    /\ cart' = [cart EXCEPT ![u] = copy[a] \cup {a}]
    /\ LET new == (copy[a] \cup {a}) \ cart[u] IN
         /\ late' = [r \in Requests |->
                        IF r \in Open /\ user[r] = u THEN late[r] \cup new ELSE late[r]]
         /\ crossed' = [b \in Items |->
                           IF b \in Holding(u) \ {a} THEN crossed[b] \cup new ELSE crossed[b]]
    /\ UNCHANGED <<pc, local, reply, charges, shipped, emailed, published, producer,
                   underway, by, copy, dropped, spans, emptied, met>>

Discard(u) ==
    /\ cart' = [cart EXCEPT ![u] = {}]
    /\ dropped' = dropped \cup cart[u]
    /\ UNCHANGED <<pc, local, reply, charges, shipped, emailed, published, producer,
                   underway, by, copy, added, crossed, spans, emptied, late, met>>

\* The shopper empties the cart, in the frontend.
EmptyByShopper(u) == cart[u] # {} /\ Discard(u)

\* The cart's key expires an hour after the last write, or is lost with Valkey; there is
\* no clock here, so at any time.
Expire(u) == cart[u] # {} /\ Discard(u)

Begin(r, u) ==
    /\ pc[r] = "idle"
    /\ user' = [user EXCEPT ![r] = u]
    /\ Goto(r, "cart")
    /\ UNCHANGED <<remote, prep, cancelled, history>>

\* Mutant: the cart is emptied as it is read.
GetAndEmptyCart(r) ==
    /\ pc[r] = "cart" /\ Sent(r)
    /\ prep' = [prep EXCEPT ![r] = cart[user[r]]]
    /\ cart' = [cart EXCEPT ![user[r]] = {}]
    /\ Goto(r, "prepare")
    /\ UNCHANGED <<charges, shipped, emailed, published, producer, underway, user,
                   cancelled, history>>

\* getUserCart.
GetCart(r) ==
    /\ pc[r] = "cart"
    /\ \/ /\ Sent(r)
          /\ prep' = [prep EXCEPT ![r] = cart[user[r]]]
          /\ met' = met \cup {{r, s} : s \in {o \in Open : user[o] = user[r]}}
          /\ Goto(r, "prepare")
       \/ Return(r, "Internal") /\ UNCHANGED <<prep, met>>
    /\ UNCHANGED <<remote, user, cancelled, adds, spans, emptied, late>>

\* prepOrderItems, quoteShipping and the conversions only read.  quoteShipping asks
\* for the items of positive quantity; a quote for no items is refused.
Prepare(r) ==
    /\ pc[r] = "prepare"
    /\ \/ /\ Sent(r)
          /\ prep[r] \ (ZeroItems \cup NegItems) # {}
          /\ Goto(r, "total")
       \/ Return(r, "Internal")
    /\ UNCHANGED <<remote, local, history>>

\* The total.  A zero quantity panics in calculateTax and the interceptor answers
\* Internal; an amount that money.Sum refuses answers Internal as well.
Total(r) ==
    /\ pc[r] = "total"
    /\ \/ prep[r] \cap ZeroItems = {} /\ Goto(r, "charge")
       \/ Return(r, "Internal")
    /\ UNCHANGED <<remote, local, history>>

TakeCharge(r) == charges' = [charges EXCEPT ![r] = @ + 1]

\* Mutant: an error is dropped.
ChargeErrorDropped(r) ==
    /\ pc[r] = "charge"
    /\ TakeCharge(r) \/ UNCHANGED charges
    /\ Goto(r, "ship")
    /\ UNCHANGED <<cart, shipped, emailed, published, producer, underway, local, history>>

\* chargeCard: charged, given up, or declined or not sent.
Charge(r) ==
    /\ pc[r] = "charge"
    /\ \/ Sent(r) /\ TakeCharge(r) /\ UNCHANGED underway /\ Goto(r, "ship")
       \/ GiveUp(r) /\ UNCHANGED charges /\ Return(r, "Internal")
       \/ UNCHANGED <<charges, underway>> /\ Return(r, "Internal")
    /\ UNCHANGED <<cart, shipped, emailed, published, producer, local, history>>

Issue(r) == shipped' = [shipped EXCEPT ![r] = prep[r]]

\* The shipping service's quantities are u32, and a zero quantity is left out of
\* the JSON: it cannot read an order that holds one of the two.
Shippable(r) == prep[r] \cap (ZeroItems \cup NegItems) = {}

\* Mutants: the wrong status code; an error is dropped.
ShipInternal(r) ==
    /\ pc[r] = "ship"
    /\ Sent(r) /\ Shippable(r) /\ Issue(r)
    /\ Goto(r, "empty") \/ Return(r, "Internal")
    /\ UNCHANGED <<cart, charges, emailed, published, producer, underway, local, history>>
ShipErrorDropped(r) ==
    /\ pc[r] = "ship"
    /\ (Sent(r) /\ Shippable(r) /\ Issue(r)) \/ UNCHANGED shipped
    /\ Goto(r, "empty")
    /\ UNCHANGED <<cart, charges, emailed, published, producer, underway, local, history>>

\* shipOrder sends the items unfiltered; nothing refunds the charge on an error.
Ship(r) ==
    /\ pc[r] = "ship"
    /\ \/ Sent(r) /\ Shippable(r) /\ Issue(r) /\ UNCHANGED underway /\ Goto(r, "empty")
       \/ GiveUp(r) /\ UNCHANGED shipped /\ Return(r, "Unavailable")
       \/ UNCHANGED <<shipped, underway>> /\ Return(r, "Unavailable")
    /\ UNCHANGED <<cart, charges, emailed, published, producer, local, history>>

\* Mutant: the request leaves out the user.
EmptyNobodysCart(r) ==
    /\ pc[r] = "empty" /\ Sent(r)
    /\ emptied' = emptied \cup {r}
    /\ Goto(r, "confirm")
    /\ UNCHANGED <<remote, local, adds, spans, late, met>>

EmptyCart(r) == /\ cart' = [cart EXCEPT ![user[r]] = {}]
                /\ emptied' = emptied \cup {r}
                /\ spans' = [a \in Items |->
                               IF a \in Holding(user[r]) THEN spans[a] \cup {r} ELSE spans[a]]

\* emptyUserCart: its error is dropped.
Empty(r) ==
    /\ pc[r] = "empty"
    /\ \/ Sent(r) /\ EmptyCart(r) /\ UNCHANGED underway
       \/ GiveUp(r) /\ UNCHANGED <<cart, emptied, spans>>
       \/ UNCHANGED <<cart, emptied, spans, underway>>
    /\ Goto(r, "confirm")
    /\ UNCHANGED <<charges, shipped, emailed, published, producer, local, adds, late, met>>

\* sendOrderConfirmation: its error is only logged.
Confirm(r) ==
    /\ pc[r] = "confirm"
    /\ \/ Sent(r) /\ emailed' = emailed \cup {r} /\ UNCHANGED underway
       \/ GiveUp(r) /\ UNCHANGED emailed
       \/ UNCHANGED <<emailed, underway>>
    /\ Goto(r, "publish")
    /\ UNCHANGED <<cart, charges, shipped, published, producer, local, history>>

\* sendToPostProcessor, when there is a producer, then the answer.  Input() may
\* win the select even after a cancellation.  Whatever the producer reports, or
\* fails to report within 15 s, PlaceOrder answers OK.
Publish(r) ==
    /\ pc[r] = "publish"
    /\ \/ producer /\ published' = published \cup {r}
       \/ (~producer \/ ~Sent(r)) /\ UNCHANGED published
    /\ Return(r, "OK")
    /\ UNCHANGED <<cart, charges, shipped, emailed, producer, underway, local, history>>

\* The services go on with what PlaceOrder gave up.
LateCharge(r) ==
    /\ CarryOut(r, "charge") /\ TakeCharge(r)
    /\ UNCHANGED <<cart, shipped, emailed, published, producer, local, pc, reply, history>>

LateShip(r) ==
    /\ CarryOut(r, "ship") /\ Shippable(r) /\ Issue(r)
    /\ UNCHANGED <<cart, charges, emailed, published, producer, local, pc, reply, history>>

LateEmpty(r) ==
    /\ CarryOut(r, "empty") /\ EmptyCart(r)
    /\ UNCHANGED <<charges, shipped, emailed, published, producer, local, pc, reply,
                   adds, late, met>>

LateConfirm(r) ==
    /\ CarryOut(r, "confirm") /\ emailed' = emailed \cup {r}
    /\ UNCHANGED <<cart, charges, shipped, published, producer, local, pc, reply, history>>

\* The client closes the call or its deadline passes.
Cancel(r) ==
    /\ r \in InFlight /\ Sent(r)
    /\ cancelled' = cancelled \cup {r}
    /\ UNCHANGED <<remote, user, prep, pc, reply, history>>

\* The pod stops and starts again: no call in flight gets an answer from
\* PlaceOrder, its last request may still be carried out, and the new pod may
\* or may not reach Kafka when it starts.
Stop ==
    /\ InFlight # {}
    /\ pc' = [r \in Requests |-> IF r \in InFlight THEN "done" ELSE pc[r]]
    /\ reply' = [r \in Requests |-> IF r \in InFlight THEN "lost" ELSE reply[r]]
    /\ underway' = [r \in Requests |-> IF r \in cancelled THEN underway[r]
                                       ELSE underway[r] \cup ({pc[r]} \cap Effects)]
    /\ producer' \in BOOLEAN
    /\ UNCHANGED <<cart, charges, shipped, emailed, published, local, history>>

Work(r) == GetCart(r) \/ Prepare(r) \/ Total(r) \/ Charge(r) \/ Ship(r)
           \/ Empty(r) \/ Confirm(r)
Late(r) == LateCharge(r) \/ LateShip(r) \/ LateEmpty(r) \/ LateConfirm(r)

Next == \/ \E u \in Users, a \in Items : ReadForAdd(u, a) \/ WriteCart(u, a)
        \/ \E u \in Users : EmptyByShopper(u) \/ Expire(u)
        \/ \E r \in Requests, u \in Users : Begin(r, u)
        \/ \E r \in Requests : Work(r) \/ Publish(r) \/ Late(r) \/ Cancel(r)
        \/ Stop

\* No step is fair: a call waits for a service, or for the producer's Input() channel, as
\* long as they like, since there is no deadline but that of ctx.
Spec == Init /\ [][Next]_vars
-----------------------------------------------------------------------------
HistoryOK ==
    /\ by \in [Items -> Users \cup {NoUser}]
    /\ copy \in [Items -> SUBSET Items] /\ crossed \in [Items -> SUBSET Items]
    /\ spans \in [Items -> SUBSET Requests]
    /\ added \subseteq Items /\ dropped \subseteq Items /\ emptied \subseteq Requests
    /\ late \in [Requests -> SUBSET Items]
    /\ met \subseteq SUBSET Requests

TypeOK ==
    /\ cart \in [Users -> SUBSET Items]
    /\ pc \in [Requests -> {"idle", "cart", "prepare", "total", "charge", "ship",
                            "empty", "confirm", "publish", "done"}]
    /\ user \in [Requests -> Users \cup {NoUser}]
    /\ \A r \in Requests : pc[r] \in {"cart", "prepare", "total", "charge", "ship",
                                      "empty", "confirm", "publish"} => user[r] \in Users
    /\ prep \in [Requests -> SUBSET Items]
    /\ cancelled \subseteq Requests
    /\ reply \in [Requests -> {"none", "OK", "Internal", "Unavailable", "lost"}]
    /\ charges \in [Requests -> {0, 1}]
    /\ shipped \in [Requests -> SUBSET Items]
    /\ emailed \subseteq Requests /\ published \subseteq Requests
    /\ underway \in [Requests -> SUBSET Effects]
    /\ producer \in BOOLEAN
    /\ HistoryOK

Sold(r) == shipped[r] # {}

\* What PlaceOrder answers tells how far the order went: OK means paid and shipped
\* exactly as priced; Unavailable means paid and never refunded; Internal means
\* that nothing was shipped.
ReplyTellsProgress ==
    \A r \in Requests :
        /\ reply[r] = "OK" => charges[r] = 1 /\ Sold(r) /\ shipped[r] = prep[r]
        /\ reply[r] = "Unavailable" => charges[r] = 1
        /\ reply[r] = "Internal" => ~Sold(r)

\* Accounting, fraud detection and the customer's mailbox only ever hear of orders
\* that are paid and shipped, and never of one that PlaceOrder refused.
OnlyPlacedOrdersAreAnnounced ==
    \A r \in emailed \cup published :
        charges[r] = 1 /\ Sold(r) /\ reply[r] \in {"none", "OK", "lost"}

\* An item that was put in a cart is in the cart, in a shipment, or it is lost for one
\* of four reasons.  It came into the cart while an order that later emptied the cart was
\* open: EmptyCart clears the whole cart, not the items the order read.  It came while
\* another AddItem, which wrote its own copy later, was under way.  Or the shopper emptied
\* the cart, or it expired.
ItemsAreLostForAReason ==
    \A a \in added : \/ \E u \in Users : a \in cart[u]
                     \/ \E r \in Requests : a \in shipped[r]
                     \/ \E r \in emptied : a \in late[r]
                     \/ \E b \in added : a \in crossed[b]
                     \/ a \in dropped

\* An AddItem that read the item before the order's EmptyCart has put it back after it.
Restored(r, a) == \E b \in added : a \in copy[b] /\ r \in spans[b]

\* An item is shipped twice only if two orders of its user were open together (an
\* EmptyCart still under way keeps its order open), or one of them never emptied the
\* cart (that error is dropped), or an AddItem put it back after one of them had emptied
\* the cart.
ItemsAreSoldTwiceForAReason ==
    \A r, s \in Requests : r # s => \A a \in shipped[r] \cap shipped[s] :
        {r, s} \in met \/ ~({r, s} \subseteq emptied) \/ Restored(r, a) \/ Restored(s, a)

\* A cart loses an item only in the step of an order of that very user which has already
\* been paid and shipped (a refused order leaves the cart alone), or as the whole cart is
\* dropped, or in the write of an AddItem that was under way when the item came.
CartLosesItemsForAReason ==
    [][\A u \in Users : \A a \in cart[u] \ cart'[u] :
          \/ \E r \in Requests : /\ user[r] = u /\ (pc[r] = "empty" \/ "empty" \in underway[r])
                                 /\ charges[r] = 1 /\ Sold(r)
          \/ cart'[u] = {} /\ a \in dropped'
          \/ \E b \in Holding(u) : b \in cart'[u] /\ a \in crossed[b]]_vars

\* A paid order holds no zero quantity: such an order panics before the charge.  (A
\* negative quantity gets through the total, is paid, and then cannot be shipped.)
PaidOrdersHaveNoZeroQuantity ==
    \A r \in Requests : charges[r] # 0 => prep[r] \cap ZeroItems = {}

\* PlaceOrder implements the abstract order: every step of every interleaving
\* moves at most one order by one stage, and an order whose call ended with nothing
\* under way moves no more.
Stage(r) == IF r \in emailed \cup published THEN "announced"
            ELSE IF Sold(r) THEN "shipped"
            ELSE IF charges[r] # 0 THEN "paid" ELSE "new"

Ended == {r \in Requests : pc[r] = "done" /\ underway[r] = {}}

Lifecycle == INSTANCE OrderLifecycle
                WITH Orders <- Requests, stage <- [r \in Requests |-> Stage(r)], closed <- Ended

ImplementsLifecycle == Lifecycle!Spec
=============================================================================
