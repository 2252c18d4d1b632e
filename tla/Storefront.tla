----------------------------- MODULE Storefront -----------------------------
(***************************************************************************)
(* The shop in a browser tab: the cart that CartProvider shows, the calls  *)
(* that change it, and the API routes of the frontend server behind them.  *)
(*                                                                         *)
(* A call is a mutation: its request travels, takes effect on the cart     *)
(* service or checkout, and is answered; the route may fail after the      *)
(* effect (it reads the cart again, or looks products up), and the answer  *)
(* may be lost.  The cart shown is a query of react-query, one entry per   *)
(* currency; react-query is external and modelled from how CartProvider    *)
(* and _app.tsx configure it.  A success refetches the entry on show; a    *)
(* failure refetches nothing.                                              *)
(*                                                                         *)
(* An item stands for the call that added it.  The cart service reads the  *)
(* cart and writes it back with the item in two commands, as in Checkout,  *)
(* and the cart's key may expire.  One tab changes the cart: a second tab  *)
(* of the same session would refetch nothing here.  The mobile app keeps   *)
(* its cart in the same way, with one currency.                            *)
(***************************************************************************)
EXTENDS Naturals, Sequences, FiniteSets

CONSTANTS Currencies,
          USD,          \* the currency of a new session
          MaxCalls,     \* bound: calls the user makes
          MaxAtOnce,    \* bound: those under way at the same time
          MaxActs,      \* bound: calls, reloads, returns to the window, changes of currency
                        \* and expiries of the cart
          MaxRetries    \* how often a failed query is asked again (3 by default)

ASSUME BoundsAssumption == MaxCalls \in Nat /\ MaxActs \in Nat /\ MaxRetries \in Nat
ASSUME CurrencyAssumption == USD \in Currencies

VARIABLES
    cart,       \* the cart service: the items of the session's user
    calls,      \* the calls, in the order they were made
    entries,    \* react-query: the cart each entry holds, if it was ever loaded
    fetches,    \* react-query: the request that is fetching an entry
    selected,   \* CurrencyProvider
    acts,
    missed,     \* history: the entries that may have missed a change since they were last read
    vanished    \* history: items that were in the cart as it expired

vars == <<cart, calls, entries, fetches, selected, acts, missed, vanished>>

Items   == 1 .. MaxCalls
Kinds   == {"add", "empty", "order"}
Stages  == {"sent", "read", "priced", "applied", "confirmed", "failed"}
Ended   == {"confirmed", "failed"}

NotLoaded == [loaded |-> FALSE, items |-> {}]
NoFetch   == [stage |-> "idle", retries |-> 0, items |-> {}]
Asked     == [NoFetch EXCEPT !.stage = "asked"]

\* The calls that are not over, whether or not the browser still waits for them.
UnderWay == {i \in DOMAIN calls : calls[i].stage \notin Ended}
Idle(c)  == fetches[c].stage = "idle"
\* items = [] until the cart is loaded
Shown    == entries[selected].items
\* Nothing is under way and nothing went unheard: what is shown should be the cart.
Settled  == UnderWay = {} /\ Idle(selected) /\ selected \notin missed

\* CartProvider is mounted and fetches the entry of the session's currency.  (Its first
\* render has no currency yet and fetches an entry that is never shown again: left out.)
Init ==
    /\ cart = {}
    /\ calls = <<>>
    /\ entries = [c \in Currencies |-> NotLoaded]
    /\ selected = USD
    /\ fetches = [c \in Currencies |-> IF c = selected THEN Asked ELSE NoFetch]
    /\ acts = 0
    /\ missed = {}
    /\ vanished = {}
-----------------------------------------------------------------------------
(* The user.  The form and the empty button are there while items are      *)
(* shown; no button is disabled while its call is under way.               *)

\* ApiGateway: mutateAsync sends the request.  history: settled and beside say what else
\* went on as the call was made and while it was under way.
Send(kind) ==
    LET n == Len(calls) + 1
        meets(i) == [calls[i] EXCEPT !.beside = IF i \in UnderWay THEN @ \cup {n} ELSE @]
    IN /\ n <= MaxCalls /\ Len(calls) + acts < MaxActs /\ Cardinality(UnderWay) < MaxAtOnce
       /\ kind # "add" => Shown # {}
       /\ calls' = Append([i \in DOMAIN calls |-> meets(i)],
                          [kind |-> kind, stage |-> "sent", heard |-> TRUE,
                           shown |-> IF kind = "order" /\ Settled THEN Shown ELSE {},
                           settled |-> kind = "order" /\ Settled, beside |-> UnderWay,
                           took |-> {}, effect |-> FALSE, emptied |-> FALSE])
       /\ UNCHANGED <<cart, entries, fetches, selected, acts, missed, vanished>>

\* An entry that is being fetched is not fetched again.
Start(c) ==
    /\ fetches' = [fetches EXCEPT ![c] = IF Idle(c) THEN Asked ELSE @]
    /\ missed' = IF Idle(c) THEN missed \ {c} ELSE missed

\* refetchOnWindowFocus, with a staleTime of 0
Focus ==
    /\ Len(calls) + acts < MaxActs /\ acts' = acts + 1
    /\ Start(selected)
    /\ UNCHANGED <<cart, calls, entries, selected, vanished>>

\* onSelectCurrency: the other entry is shown as it was and fetched (refetchOnMount).
Select(c) ==
    /\ Len(calls) + acts < MaxActs /\ acts' = acts + 1
    /\ c # selected /\ selected' = c
    /\ Start(c)
    /\ UNCHANGED <<cart, calls, entries, vanished>>

\* The page is loaded again: the session stays, the queries and the promises go.
Reload ==
    /\ Len(calls) + acts < MaxActs /\ acts' = acts + 1
    /\ entries' = [c \in Currencies |-> NotLoaded]
    /\ fetches' = [c \in Currencies |-> IF c = selected THEN Asked ELSE NoFetch]
    /\ missed' = {}
    /\ calls' = [i \in DOMAIN calls |-> [calls[i] EXCEPT !.heard = @ /\ i \notin UnderWay]]
    /\ UNCHANGED <<cart, selected, vanished>>
-----------------------------------------------------------------------------
(* The routes.                                                             *)

\* POST /api/cart: CartGateway.addItem.  The cart service reads the cart ...
ReadForAdd(i) ==
    /\ calls[i].kind = "add" /\ calls[i].stage = "sent"
    /\ calls' = [calls EXCEPT ![i].stage = "read", ![i].took = cart]
    /\ UNCHANGED <<cart, entries, fetches, selected, acts, missed, vanished>>

\* ... and writes back what it read with the item, whatever the cart is by then.
WriteCart(i) ==
    /\ calls[i].stage = "read"
    /\ cart' = calls[i].took \cup {i}
    /\ calls' = [calls EXCEPT ![i].stage = "applied", ![i].effect = TRUE]
    /\ UNCHANGED <<entries, fetches, selected, acts, missed, vanished>>

\* DELETE /api/cart: CartGateway.emptyCart
EmptyCart(i) ==
    /\ calls[i].kind = "empty" /\ calls[i].stage = "sent"
    /\ cart' = {}
    /\ calls' = [calls EXCEPT ![i].stage = "applied", ![i].effect = TRUE]
    /\ UNCHANGED <<entries, fetches, selected, acts, missed, vanished>>

\* Mutant: the cart is emptied as it is read.
PriceAndEmpty(i) ==
    /\ calls[i].kind = "order" /\ calls[i].stage = "sent"
    /\ calls' = [calls EXCEPT ![i].stage = "priced", ![i].took = cart]
    /\ cart' = {}
    /\ UNCHANGED <<entries, fetches, selected, acts, missed, vanished>>

\* POST /api/checkout: checkout reads the cart it will charge for.
PriceOrder(i) ==
    /\ calls[i].kind = "order" /\ calls[i].stage = "sent"
    /\ calls' = [calls EXCEPT ![i].stage = "priced", ![i].took = cart]
    /\ UNCHANGED <<cart, entries, fetches, selected, acts, missed, vanished>>

\* Mutant: the cart is not emptied, and the order says it was.
PlaceAndKeep(i) ==
    /\ calls[i].stage = "priced" /\ calls[i].took # {}
    /\ calls' = [calls EXCEPT ![i].stage = "applied", ![i].effect = TRUE, ![i].emptied = TRUE]
    /\ UNCHANGED <<cart, entries, fetches, selected, acts, missed, vanished>>

\* The order is placed, unless it is for nothing (its shipping quote is refused); checkout
\* ignores a failure to empty the cart.
PlaceOrder(i) ==
    /\ calls[i].stage = "priced" /\ calls[i].took # {}
    /\ \E emptied \in BOOLEAN :
          /\ cart' = IF emptied THEN {} ELSE cart
          /\ calls' = [calls EXCEPT ![i].stage = "applied", ![i].effect = TRUE,
                                    ![i].emptied = emptied]
    /\ UNCHANGED <<entries, fetches, selected, acts, missed, vanished>>

\* The cart's key expires an hour after the last write; there is no clock here, so at any
\* time.  A fetch that has not reached the cart service yet will see it.
Expire ==
    /\ Len(calls) + acts < MaxActs /\ acts' = acts + 1
    /\ cart # {} /\ cart' = {}
    /\ vanished' = vanished \cup cart
    /\ missed' = missed \cup {c \in Currencies : fetches[c].stage # "asked"}
    /\ UNCHANGED <<calls, entries, fetches, selected>>

\* request() rejects: nobody will hear the answer.
Reject(i) == calls' = [calls EXCEPT ![i].stage = "failed", ![i].heard = FALSE]

\* A gateway call rejects, before or after the effect, and the route throws: the body
\* "Internal Server Error" is no JSON, so that request() rejects too.  Or the connection of
\* the browser or of a gateway is lost while the services go on: then this is where they
\* end, and the browser gave up before (nothing depends on when).  After the effect no
\* entry is fetched for what was done.
Fail(i) ==
    /\ i \in UnderWay
    /\ Reject(i)
    /\ missed' = IF calls[i].stage = "applied" THEN Currencies ELSE missed
    /\ UNCHANGED <<cart, entries, fetches, selected, acts, vanished>>

\* Mutant: invalidated entries join the fetch that is under way.
InvalidateJoins ==
    /\ fetches' = [fetches EXCEPT ![selected] = IF Idle(selected) THEN Asked ELSE @]
    /\ missed' = IF Idle(selected) THEN missed \ {selected} ELSE missed

\* invalidateQueries(['cart']): the entry on show is fetched, and again if it was being
\* fetched, unless it was never loaded; an entry not on show keeps the fetch it has.
Invalidate ==
    LET joined(c) == ~Idle(c) /\ (c = selected => ~entries[c].loaded)
        starts(c) == c = selected /\ ~joined(c)
    IN /\ fetches' = [c \in Currencies |-> IF starts(c) THEN Asked ELSE fetches[c]]
       /\ missed' = {c \in Currencies : ~starts(c) /\ (c \in missed \/ joined(c))}

\* Mutant: an addition does not invalidate the cart.
ConfirmButAdditions(i) ==
    /\ calls[i].stage = "applied" /\ calls[i].heard
    /\ calls' = [calls EXCEPT ![i].stage = "confirmed"]
    /\ IF calls[i].kind = "add" THEN UNCHANGED <<fetches, missed>> ELSE Invalidate
    /\ UNCHANGED <<cart, entries, selected, acts, vanished>>

\* The answer arrives: onSuccess.
Confirm(i) ==
    /\ calls[i].stage = "applied" /\ calls[i].heard
    /\ calls' = [calls EXCEPT ![i].stage = "confirmed"]
    /\ Invalidate
    /\ UNCHANGED <<cart, entries, selected, acts, vanished>>
-----------------------------------------------------------------------------
(* The cart query.                                                         *)

\* GET /api/cart: CartGateway.getCart
ReadCart(c) ==
    /\ fetches[c].stage = "asked"
    /\ fetches' = [fetches EXCEPT ![c].stage = "read", ![c].items = cart]
    /\ UNCHANGED <<cart, calls, entries, selected, acts, missed, vanished>>

ShowCart(c) ==
    /\ fetches[c].stage = "read"
    /\ entries' = [entries EXCEPT ![c] = [loaded |-> TRUE, items |-> fetches[c].items]]
    /\ fetches' = [fetches EXCEPT ![c] = NoFetch]
    /\ UNCHANGED <<cart, calls, selected, acts, missed, vanished>>

\* The request fails, on the way or as a product is not found; an entry that is not on
\* show is not asked for again.  What it holds stays on show.
FetchFails(c) ==
    /\ ~Idle(c)
    /\ LET again == c = selected /\ fetches[c].retries < MaxRetries IN
       /\ fetches' = [fetches EXCEPT ![c] =
                        IF again THEN [Asked EXCEPT !.retries = fetches[c].retries + 1] ELSE NoFetch]
       /\ missed' = IF again THEN missed ELSE missed \cup {c}
    /\ UNCHANGED <<cart, calls, entries, selected, acts, vanished>>

Effect(i) == ReadForAdd(i) \/ WriteCart(i) \/ EmptyCart(i) \/ PriceOrder(i) \/ PlaceOrder(i)

Next ==
    \/ \E kind \in Kinds : Send(kind)
    \/ Focus \/ Reload \/ Expire
    \/ \E c \in Currencies : Select(c) \/ ReadCart(c) \/ ShowCart(c) \/ FetchFails(c)
    \/ \E i \in DOMAIN calls : Effect(i) \/ Confirm(i) \/ Fail(i)

Spec == Init /\ [][Next]_vars
-----------------------------------------------------------------------------
TypeOK ==
    /\ cart \subseteq Items
    /\ calls \in Seq([kind : Kinds, stage : Stages, heard : BOOLEAN, shown : SUBSET Items,
                      settled : BOOLEAN, beside : SUBSET Items, took : SUBSET Items,
                      effect : BOOLEAN, emptied : BOOLEAN])
    /\ Len(calls) <= MaxCalls
    /\ entries \in [Currencies -> [loaded : BOOLEAN, items : SUBSET Items]]
    /\ fetches \in [Currencies -> [stage : {"idle", "asked", "read"}, retries : 0 .. MaxRetries,
                                   items : SUBSET Items]]
    /\ selected \in Currencies
    /\ acts \in 0 .. MaxActs
    /\ missed \subseteq Currencies
    /\ vanished \subseteq Items

\* The cart on show is the cart of the user whenever nothing is under way, unless a call
\* took effect whose success was never heard, a success met the first load of an entry or
\* the load of one not on show, the last fetch failed, or the cart expired after it.
ShownCartIsTheCart ==
    Settled => entries[selected] = [loaded |-> TRUE, items |-> cart]

\* The order was carried out, whatever its route answered then.
Placed(i) == calls[i].kind = "order" /\ calls[i].effect
Added(i)  == calls[i].kind = "add" /\ calls[i].effect

\* What you see is what you order: an order sent while the cart on show was settled, and
\* beside which no call was under way, takes the items that were on show.
OrderTakesWhatWasShown ==
    \A i \in DOMAIN calls :
        Placed(i) /\ calls[i].settled /\ calls[i].beside = {} => calls[i].took = calls[i].shown

\* An AddItem that read item a before order i emptied the cart has put it back after.
Restored(i, a) == \E k \in calls[i].beside : Added(k) /\ a \in calls[k].took

\* No item is placed in two orders, unless checkout could not empty the cart after the first,
\* or an AddItem under way beside the first put the item back, or the second was sent before
\* the first was over (the browser may have given up on it long since).  So once an order is
\* over, sending the form again after an error, a lost answer or a reload does not repeat it,
\* even though the page never said that it was placed.
NoItemIsOrderedTwice ==
    \A i, j \in DOMAIN calls : i < j /\ Placed(i) /\ Placed(j) =>
        \A a \in calls[i].took \cap calls[j].took :
            ~calls[i].emptied \/ i \in calls[j].beside \/ Restored(i, a)

\* What took an item out of the cart: call j emptied the cart for the user, or ordered it,
\* or was an order or another AddItem under way beside the one that added the item.
Reason(i, j) ==
    \/ calls[j].kind = "empty" /\ calls[j].effect /\ (j > i \/ j \in calls[i].beside)
    \/ calls[j].emptied /\ (i \in calls[j].took \/ j \in calls[i].beside)
    \/ Added(j) /\ j \in calls[i].beside

\* An item that was added stays in the cart until a call takes it out for a reason, or the
\* cart expires.
ItemsLeaveForAReason ==
    \A i \in DOMAIN calls : Added(i) =>
        i \in cart \/ i \in vanished \/ \E j \in DOMAIN calls : Reason(i, j)
=============================================================================
