-------------------------- MODULE StorefrontProofs --------------------------
(***************************************************************************)
(* The cart on show and the orders made from it, for any number of calls,  *)
(* acts, retries and currencies.                                           *)
(***************************************************************************)
EXTENDS Storefront, TLAPS

Call == [kind : Kinds, stage : Stages, heard : BOOLEAN, shown : SUBSET Items,
         settled : BOOLEAN, beside : SUBSET Items, took : SUBSET Items,
         effect : BOOLEAN, emptied : BOOLEAN]
Entry == [loaded : BOOLEAN, items : SUBSET Items]
Fetch == [stage : {"idle", "asked", "read"}, retries : 0 .. MaxRetries, items : SUBSET Items]

\* While no effect waits for its answer, a cart that was read is the cart, and so is the
\* one on show, unless the entry missed a change.
Fresh(c) ==
    c \notin missed /\ (\A i \in DOMAIN calls : calls[i].stage # "applied") =>
        /\ fetches[c].stage = "read" => fetches[c].items = cart
        /\ c = selected /\ Idle(c) => entries[c] = [loaded |-> TRUE, items |-> cart]

\* The items that were ever in the cart.
Came == {a \in DOMAIN calls : Added(a)}

\* How far a call got.
Course(i) ==
    /\ calls[i].stage = "read" => calls[i].kind = "add"
    /\ calls[i].stage = "priced" => calls[i].kind = "order"
    /\ calls[i].stage \in {"sent", "read", "priced"} => ~calls[i].effect
    /\ calls[i].emptied => calls[i].effect
    /\ calls[i].took \subseteq Came
    /\ calls[i].beside \subseteq DOMAIN calls

\* A call under way is beside every call made after it and every other one under way.
Meets(j) == calls[j].stage \notin Ended =>
    \A i \in DOMAIN calls : i > j \/ (i # j /\ calls[i].stage \notin Ended) => j \in calls[i].beside

\* An order that is alone has the cart for itself: the cart stays as it was on show, or
\* it expires and the order is for nothing.
Alone(i) ==
    calls[i].settled /\ calls[i].beside = {} =>
        /\ calls[i].stage = "sent" => cart \in {calls[i].shown, {}}
        /\ calls[i].stage = "priced" => calls[i].took \in {calls[i].shown, {}}
        /\ Placed(i) => calls[i].took = calls[i].shown

\* Item i left the cart.
Gone(i) == i \in vanished \/ \E j \in DOMAIN calls : Reason(i, j)

\* A call that has read the cart and has not had its effect knows every item but those that
\* came since.
Knows(k) ==
    calls[k].stage \in {"read", "priced"} =>
        \A i \in Came : i \in calls[k].took \/ k \in calls[i].beside \/ Gone(i)

\* What an order that emptied the cart took is not in it, nor in the hands of an AddItem,
\* but for one that was under way beside it.
Cleared(i) ==
    calls[i].emptied => \A a \in calls[i].took :
        \/ Restored(i, a)
        \/ /\ a \notin cart
           /\ \A k \in DOMAIN calls :
                 calls[k].stage = "read" /\ a \in calls[k].took => k \in calls[i].beside
Once(i) ==
    calls[i].emptied => \A j \in DOMAIN calls : i < j /\ calls[j].kind = "order" =>
        \A a \in calls[i].took \cap calls[j].took : i \in calls[j].beside \/ Restored(i, a)

Orders ==
    /\ cart \subseteq Came
    /\ \A i \in DOMAIN calls :
          Course(i) /\ Meets(i) /\ Alone(i) /\ Knows(i) /\ Cleared(i) /\ Once(i)
    /\ ItemsLeaveForAReason

ShopInv == TypeOK /\ (\A c \in Currencies : Fresh(c)) /\ Orders

-----------------------------------------------------------------------------
\* TypeOK, without sequences.
LEMMA Typing ==
    TypeOK <=> /\ cart \in SUBSET Items
               /\ calls \in Seq(Call) /\ Len(calls) <= MaxCalls
               /\ entries \in [Currencies -> Entry]
               /\ fetches \in [Currencies -> Fetch]
               /\ selected \in Currencies
               /\ acts \in 0 .. MaxActs
               /\ missed \in SUBSET Currencies
               /\ vanished \in SUBSET Items
  BY DEF TypeOK, Call, Entry, Fetch

LEMMA CallFields ==
    ASSUME calls \in Seq(Call)
    PROVE  /\ Len(calls) \in Nat /\ DOMAIN calls = 1 .. Len(calls)
           /\ \A i \in DOMAIN calls : 
                 /\ calls[i] \in Call /\ calls[i].kind \in Kinds /\ calls[i].stage \in Stages
                 /\ calls[i].shown \in SUBSET Items /\ calls[i].took \in SUBSET Items
                 /\ calls[i].heard \in BOOLEAN /\ calls[i].settled \in BOOLEAN
                 /\ calls[i].beside \in SUBSET Items
                 /\ calls[i].effect \in BOOLEAN /\ calls[i].emptied \in BOOLEAN
  <1>1. Len(calls) \in Nat /\ DOMAIN calls = 1 .. Len(calls) /\ \A i \in DOMAIN calls : calls[i] \in Call
    OBVIOUS
  <1>2. ASSUME NEW i \in DOMAIN calls
        PROVE  /\ calls[i].kind \in Kinds /\ calls[i].stage \in Stages
               /\ calls[i].shown \in SUBSET Items /\ calls[i].took \in SUBSET Items
               /\ calls[i].heard \in BOOLEAN /\ calls[i].settled \in BOOLEAN
               /\ calls[i].beside \in SUBSET Items
               /\ calls[i].effect \in BOOLEAN /\ calls[i].emptied \in BOOLEAN
    <2>1. calls[i] \in Call
      BY <1>1
    <2> QED
      BY <2>1 DEF Call
  <1> QED
    BY <1>1, <1>2

LEMMA NoFetchTyped == NoFetch \in Fetch /\ Asked \in Fetch /\ NotLoaded \in Entry
                      /\ NoFetch.stage = "idle" /\ Asked.stage = "asked" 
  BY BoundsAssumption DEF NoFetch, Asked, NotLoaded, Fetch, Entry

LEMMA InitShop == Init => ShopInv
  <1> SUFFICES ASSUME Init PROVE ShopInv
    OBVIOUS
  <1> USE DEF Init
  <1>1. calls \in Seq(Call) /\ Len(calls) = 0 /\ DOMAIN calls = {}
    OBVIOUS
  <1>2. TypeOK
    BY <1>1, NoFetchTyped, BoundsAssumption, CurrencyAssumption, Typing
  <1>3. ASSUME NEW c \in Currencies PROVE Fresh(c)
    BY NoFetchTyped DEF Fresh, Idle
  <1> QED
    BY <1>1, <1>2, <1>3 DEF ShopInv, Orders, ItemsLeaveForAReason

-----------------------------------------------------------------------------
\* One call of the list is changed.
LEMMA CallChanged ==
    ASSUME TypeOK, NEW i \in DOMAIN calls, NEW b \in Call, calls' = [calls EXCEPT ![i] = b]
    PROVE  /\ calls' \in Seq(Call) /\ Len(calls') = Len(calls) /\ DOMAIN calls' = DOMAIN calls
           /\ \A j \in DOMAIN calls : calls'[j] = IF j = i THEN b ELSE calls[j]
  BY Typing

\* What the orders depend on: everything about the calls but who listens.
SameCall(j) ==
    /\ calls'[j].kind = calls[j].kind /\ calls'[j].stage = calls[j].stage
    /\ calls'[j].settled = calls[j].settled /\ calls'[j].beside = calls[j].beside
    /\ calls'[j].shown = calls[j].shown /\ calls'[j].took = calls[j].took
    /\ calls'[j].effect = calls[j].effect /\ calls'[j].emptied = calls[j].emptied

LEMMA OrdersKept ==
    ASSUME Orders, cart' = cart, vanished' = vanished,
           DOMAIN calls' = DOMAIN calls, \A j \in DOMAIN calls : SameCall(j)
    PROVE  Orders'
  <1> USE DEF SameCall, Orders
  <1>1. /\ \A a \in DOMAIN calls : Added(a)' <=> Added(a)
        /\ \A a \in DOMAIN calls : Placed(a)' <=> Placed(a)
    BY DEF Added, Placed
  <1>2. Came' = Came
    BY <1>1 DEF Came
  <1>3. ASSUME NEW i \in DOMAIN calls, NEW a PROVE Restored(i, a)' <=> Restored(i, a)
    BY <1>1 DEF Restored, Course
  <1>4. ASSUME NEW i \in DOMAIN calls PROVE Gone(i)' <=> Gone(i)
    BY <1>1 DEF Gone, Reason
  <1>5. ASSUME NEW i \in DOMAIN calls PROVE Course(i)' /\ Meets(i)' /\ Alone(i)'
    BY <1>1, <1>2 DEF Course, Meets, Alone
  <1>6. ASSUME NEW i \in DOMAIN calls PROVE Knows(i)'
    BY <1>2, <1>4 DEF Knows, Came
  <1>7. ASSUME NEW i \in DOMAIN calls PROVE Cleared(i)' /\ Once(i)'
    BY <1>3 DEF Cleared, Once
  <1>8. ItemsLeaveForAReason'
    BY <1>1, <1>4 DEF ItemsLeaveForAReason, Gone
  <1> QED
    BY <1>2, <1>5, <1>6, <1>7, <1>8

-----------------------------------------------------------------------------
\* What is history only grows: what a call did stays done, and what it met stays met.
Grows ==
    /\ DOMAIN calls \subseteq DOMAIN calls' /\ vanished \subseteq vanished'
    /\ \A j \in DOMAIN calls :
          /\ calls'[j].kind = calls[j].kind /\ calls[j].beside \subseteq calls'[j].beside
          /\ calls[j].effect => calls'[j].effect /\ calls'[j].took = calls[j].took
          /\ calls[j].emptied => calls'[j].emptied

LEMMA HistoryGrows ==
    ASSUME Orders, Grows
    PROVE  /\ Came \subseteq Came'
           /\ \A i \in DOMAIN calls : (\A a : Restored(i, a) => Restored(i, a)') /\ (Gone(i) => Gone(i)')
  <1> USE DEF Grows, Added
  <1>1. Came \subseteq Came'
    BY DEF Came
  <1>2. ASSUME NEW i \in DOMAIN calls, NEW a, Restored(i, a) PROVE Restored(i, a)'
    BY <1>2 DEF Restored, Orders, Course
  <1>3. ASSUME NEW i \in DOMAIN calls, NEW j \in DOMAIN calls, Reason(i, j) PROVE Reason(i, j)'
    BY <1>3 DEF Reason, Orders, Course
  <1>4. ASSUME NEW i \in DOMAIN calls, Gone(i) PROVE Gone(i)'
    BY <1>3, <1>4 DEF Gone
  <1> QED
    BY <1>1, <1>2, <1>4

\* A call goes on in place: the other calls stay, and of this one what it was made with and
\* what it met.
Goes(i, stage) ==
    /\ Len(calls') = Len(calls) /\ DOMAIN calls' = DOMAIN calls
    /\ \A j \in DOMAIN calls : j # i => SameCall(j)
    /\ calls'[i].kind = calls[i].kind /\ calls'[i].settled = calls[i].settled
    /\ calls'[i].beside = calls[i].beside /\ calls'[i].shown = calls[i].shown
    /\ calls'[i].stage = stage
Had(i, took, effect, emptied) ==
    calls'[i].took = took /\ calls'[i].effect = effect /\ calls'[i].emptied = emptied

\* What a step may make of a call.
Becomes(i, stage, took, effect, emptied) ==
    calls' \in Seq(Call) /\ Goes(i, stage) /\ Had(i, took, effect, emptied)

LEMMA CallBecomes ==
    ASSUME TypeOK, NEW i \in DOMAIN calls, NEW b \in Call, calls' = [calls EXCEPT ![i] = b],
           b.kind = calls[i].kind, b.settled = calls[i].settled, b.beside = calls[i].beside,
           b.shown = calls[i].shown
    PROVE  Becomes(i, b.stage, b.took, b.effect, b.emptied)
  BY CallChanged DEF Becomes, Goes, Had, SameCall

LEMMA Reading ==
    ASSUME TypeOK, NEW i \in DOMAIN calls, NEW s \in {"read", "priced"},
           calls' = [calls EXCEPT ![i].stage = s, ![i].took = cart]
    PROVE  Becomes(i, s, cart, calls[i].effect, calls[i].emptied)
  <1> DEFINE b == [calls[i] EXCEPT !.stage = s, !.took = cart]
  <1>1. calls[i] \in Call /\ cart \in SUBSET Items
    BY Typing
  <1>2. calls' = [calls EXCEPT ![i] = b]
    OBVIOUS
  <1>3. b \in Call
    BY <1>1 DEF Call, Stages
  <1>4. /\ b.kind = calls[i].kind /\ b.settled = calls[i].settled /\ b.beside = calls[i].beside
        /\ b.shown = calls[i].shown /\ b.stage = s /\ b.took = cart
        /\ b.effect = calls[i].effect /\ b.emptied = calls[i].emptied
    BY <1>1 DEF Call
  <1> HIDE DEF b
  <1> QED
    BY <1>2, <1>3, <1>4, CallBecomes

LEMMA Acting ==
    ASSUME TypeOK, NEW i \in DOMAIN calls, NEW m \in BOOLEAN,
           \/ calls' = [calls EXCEPT ![i].stage = "applied", ![i].effect = TRUE, ![i].emptied = m]
           \/ /\ calls' = [calls EXCEPT ![i].stage = "applied", ![i].effect = TRUE]
              /\ m = calls[i].emptied
    PROVE  Becomes(i, "applied", calls[i].took, TRUE, m)
  <1> DEFINE b == [calls[i] EXCEPT !.stage = "applied", !.effect = TRUE, !.emptied = m]
             d == [calls[i] EXCEPT !.stage = "applied", !.effect = TRUE]
  <1>1. calls[i] \in Call
    BY Typing
  <1>2. calls' = [calls EXCEPT ![i] = b] \/ (calls' = [calls EXCEPT ![i] = d] /\ m = calls[i].emptied)
    OBVIOUS
  <1>3. b \in Call /\ d \in Call
    BY <1>1 DEF Call, Stages
  <1>4. /\ b.kind = calls[i].kind /\ b.settled = calls[i].settled /\ b.beside = calls[i].beside
        /\ b.shown = calls[i].shown /\ b.stage = "applied" /\ b.took = calls[i].took
        /\ b.effect = TRUE /\ b.emptied = m
    BY <1>1 DEF Call
  <1>5. /\ d.kind = calls[i].kind /\ d.settled = calls[i].settled /\ d.beside = calls[i].beside
        /\ d.shown = calls[i].shown /\ d.stage = "applied" /\ d.took = calls[i].took
        /\ d.effect = TRUE /\ d.emptied = calls[i].emptied
    BY <1>1 DEF Call
  <1> HIDE DEF b, d
  <1>6. CASE calls' = [calls EXCEPT ![i] = b]
    BY <1>3, <1>4, <1>6, CallBecomes
  <1>7. CASE calls' = [calls EXCEPT ![i] = d] /\ m = calls[i].emptied
    BY <1>3, <1>5, <1>7, CallBecomes
  <1> QED
    BY <1>2, <1>6, <1>7

LEMMA Ending ==
    ASSUME TypeOK, NEW i \in DOMAIN calls, NEW s \in Ended,
           \/ calls' = [calls EXCEPT ![i].stage = s]
           \/ calls' = [calls EXCEPT ![i].stage = s, ![i].heard = FALSE]
    PROVE  Becomes(i, s, calls[i].took, calls[i].effect, calls[i].emptied)
  <1> DEFINE b == [calls[i] EXCEPT !.stage = s]
             d == [calls[i] EXCEPT !.stage = s, !.heard = FALSE]
  <1>1. calls[i] \in Call
    BY Typing
  <1>2. calls' = [calls EXCEPT ![i] = b] \/ calls' = [calls EXCEPT ![i] = d]
    OBVIOUS
  <1>3. b \in Call /\ d \in Call
    BY <1>1 DEF Call, Stages, Ended
  <1>4. /\ b.kind = calls[i].kind /\ b.settled = calls[i].settled /\ b.beside = calls[i].beside
        /\ b.shown = calls[i].shown /\ b.stage = s /\ b.took = calls[i].took
        /\ b.effect = calls[i].effect /\ b.emptied = calls[i].emptied
    BY <1>1 DEF Call
  <1>5. /\ d.kind = calls[i].kind /\ d.settled = calls[i].settled /\ d.beside = calls[i].beside
        /\ d.shown = calls[i].shown /\ d.stage = s /\ d.took = calls[i].took
        /\ d.effect = calls[i].effect /\ d.emptied = calls[i].emptied
    BY <1>1 DEF Call
  <1> HIDE DEF b, d
  <1>6. CASE calls' = [calls EXCEPT ![i] = b]
    BY <1>3, <1>4, <1>6, CallBecomes
  <1>7. CASE calls' = [calls EXCEPT ![i] = d]
    BY <1>3, <1>5, <1>7, CallBecomes
  <1> QED
    BY <1>2, <1>6, <1>7

-----------------------------------------------------------------------------
\* A call under way goes on: what it met is not disturbed, and history grows.
LEMMA GoingOn ==
    ASSUME Orders, NEW i \in DOMAIN calls, NEW s, Goes(i, s), vanished' = vanished,
           calls[i].stage \notin Ended, calls[i].effect => Had(i, calls[i].took, TRUE, calls[i].emptied)
    PROVE  /\ Grows
           /\ \A j \in DOMAIN calls : Meets(j)'
  <1> USE DEF Goes, SameCall, Had
  <1>1. ~calls[i].effect => ~calls[i].emptied
    BY DEF Orders, Course
  <1>2. Grows
    BY <1>1 DEF Grows
  <1>3. ASSUME NEW j \in DOMAIN calls PROVE Meets(j)'
    BY DEF Orders, Meets, Ended
  <1> QED
    BY <1>2, <1>3

\* The call ends: nothing more comes of it.
LEMMA CallEnds ==
    ASSUME Orders, NEW i \in DOMAIN calls, NEW s \in Ended, calls[i].stage \notin Ended,
           cart' = cart, vanished' = vanished,
           Becomes(i, s, calls[i].took, calls[i].effect, calls[i].emptied)
    PROVE  Orders'
  <1> USE DEF Goes, SameCall, Ended, Becomes, Had
  <1>1. Grows /\ \A j \in DOMAIN calls : Meets(j)'
    BY GoingOn
  <1>2. \A j \in DOMAIN calls : (Added(j)' <=> Added(j)) /\ (Placed(j)' <=> Placed(j))
    BY DEF Added, Placed
  <1>3. Came' = Came
    BY <1>2 DEF Came
  <1>4. ASSUME NEW j \in DOMAIN calls PROVE Course(j)'
    BY <1>3 DEF Orders, Course
  <1>5. ASSUME NEW j \in DOMAIN calls PROVE Alone(j)'
    BY <1>2 DEF Orders, Alone
  <1>6. ASSUME NEW j \in DOMAIN calls PROVE Knows(j)'
    BY <1>1, <1>3, HistoryGrows DEF Orders, Knows, Came
  <1>7. ASSUME NEW j \in DOMAIN calls PROVE Cleared(j)' /\ Once(j)'
    BY <1>1, HistoryGrows DEF Orders, Cleared, Once
  <1>8. ItemsLeaveForAReason'
    BY <1>1, <1>2, HistoryGrows DEF Orders, ItemsLeaveForAReason, Gone
  <1> QED
    BY <1>1, <1>3, <1>4, <1>5, <1>6, <1>7, <1>8 DEF Orders

\* A call reads the cart.
LEMMA CartRead ==
    ASSUME TypeOK, Orders, NEW i \in DOMAIN calls, NEW s \in {"read", "priced"},
           calls[i].stage = "sent", calls[i].kind = (IF s = "read" THEN "add" ELSE "order"),
           cart' = cart, vanished' = vanished,
           Becomes(i, s, cart, calls[i].effect, calls[i].emptied)
    PROVE  Orders'
  <1> USE DEF Goes, SameCall, Ended, Becomes, Had
  <1>0. ~calls[i].effect /\ ~calls[i].emptied
    BY DEF Orders, Course
  <1>1. Grows /\ \A j \in DOMAIN calls : Meets(j)'
    BY <1>0, GoingOn
  <1>2. \A j \in DOMAIN calls : (Added(j)' <=> Added(j)) /\ (Placed(j)' <=> Placed(j))
    BY DEF Added, Placed
  <1>3. Came' = Came
    BY <1>2 DEF Came
  <1>4. ASSUME NEW j \in DOMAIN calls PROVE Course(j)'
    BY <1>3 DEF Orders, Course
  <1>5. ASSUME NEW j \in DOMAIN calls PROVE Alone(j)'
    BY <1>0, <1>2 DEF Orders, Alone, Placed
  <1>6. ASSUME NEW j \in DOMAIN calls PROVE Knows(j)'
    <2>1. CASE j = i
      BY <1>1, <1>3, <2>1, HistoryGrows DEF Orders, Knows, Came, ItemsLeaveForAReason, Gone
    <2>2. CASE j # i
      BY <1>1, <1>3, <2>2, HistoryGrows DEF Orders, Knows, Came
    <2> QED
      BY <2>1, <2>2
  <1>7. ASSUME NEW j \in DOMAIN calls PROVE Cleared(j)'
    BY <1>0, <1>1, HistoryGrows DEF Orders, Cleared
  <1>8. ASSUME NEW j \in DOMAIN calls PROVE Once(j)'
    <2> SUFFICES ASSUME calls[j].emptied, NEW k \in DOMAIN calls, j < k, calls[k].kind = "order",
                        NEW a \in calls[j].took \cap calls'[k].took
                 PROVE  j \in calls'[k].beside \/ Restored(j, a)'
      BY <1>0 DEF Once
    <2>1. CASE k = i
      BY <1>1, <2>1, HistoryGrows DEF Orders, Cleared
    <2>2. CASE k # i
      BY <1>1, <2>2, HistoryGrows DEF Orders, Once
    <2> QED
      BY <2>1, <2>2
  <1>9. ItemsLeaveForAReason'
    BY <1>1, <1>2, HistoryGrows DEF Orders, ItemsLeaveForAReason, Gone
  <1> QED
    BY <1>1, <1>3, <1>4, <1>5, <1>6, <1>7, <1>8, <1>9 DEF Orders

\* An AddItem writes the cart back.  What it takes out came beside it, and what it puts back
\* of an order is restored.
LEMMA CartWritten ==
    ASSUME TypeOK, Orders, NEW i \in DOMAIN calls, calls[i].stage = "read",
           cart' = calls[i].took \cup {i}, vanished' = vanished,
           Becomes(i, "applied", calls[i].took, TRUE, calls[i].emptied)
    PROVE  Orders'
  <1> USE DEF Goes, SameCall, Ended, Becomes, Had
  <1>0. ~calls[i].effect /\ ~calls[i].emptied /\ calls[i].kind = "add" /\ calls[i].took \subseteq Came
    BY DEF Orders, Course
  <1>1. Grows /\ \A j \in DOMAIN calls : Meets(j)'
    BY <1>0, GoingOn
  <1>2. /\ \A j \in DOMAIN calls : Added(j)' <=> Added(j) \/ j = i
        /\ \A j \in DOMAIN calls : Placed(j)' <=> Placed(j)
    BY <1>0 DEF Added, Placed
  <1>3. Came' = Came \cup {i} /\ i \notin Came
    BY <1>0, <1>2 DEF Came, Added
  <1>4. ASSUME NEW j \in DOMAIN calls PROVE Course(j)'
    BY <1>0, <1>3 DEF Orders, Course
  <1>5. ASSUME NEW j \in DOMAIN calls PROVE Alone(j)'
    BY <1>0, <1>2 DEF Orders, Alone, Meets
  <1>6. ASSUME NEW j \in DOMAIN calls PROVE Knows(j)'
    BY <1>1, <1>3, HistoryGrows DEF Orders, Knows, Meets, Came
  <1>7. ASSUME NEW j \in DOMAIN calls PROVE Cleared(j)'
    <2> SUFFICES ASSUME calls[j].emptied, NEW a \in calls[j].took, ~Restored(j, a)'
                 PROVE  /\ a \notin cart'
                        /\ \A k \in DOMAIN calls : calls'[k].stage = "read" /\ a \in calls'[k].took
                                                      => k \in calls'[j].beside
      BY <1>0 DEF Cleared
    <2>1. /\ a \notin cart /\ a \in Came /\ j # i
          /\ \A k \in DOMAIN calls :
                calls[k].stage = "read" /\ a \in calls[k].took => k \in calls[j].beside
      BY <1>0, <1>1, HistoryGrows DEF Orders, Cleared, Course
    <2>2. a \in calls[i].took => Restored(j, a)'
      BY <1>2, <2>1 DEF Restored
    <2> QED
      BY <1>3, <2>1, <2>2
  <1>8. ASSUME NEW j \in DOMAIN calls PROVE Once(j)'
    BY <1>0, <1>1, HistoryGrows DEF Orders, Once
  <1>9. ItemsLeaveForAReason'
    <2> SUFFICES ASSUME NEW a \in DOMAIN calls, Added(a), a \notin cart'
                 PROVE  Gone(a)'
      BY <1>2 DEF ItemsLeaveForAReason, Gone
    <2>1. i \in calls[a].beside \/ Gone(a)
      BY DEF Orders, Knows, Came
    <2>2. i \in calls[a].beside => Reason(a, i)'
      BY <1>2 DEF Reason
    <2> QED
      BY <1>1, <2>1, <2>2, HistoryGrows DEF Gone
  <1> QED
    BY <1>0, <1>1, <1>3, <1>4, <1>5, <1>6, <1>7, <1>8, <1>9 DEF Orders

\* The user empties the cart.
LEMMA CartEmptied ==
    ASSUME TypeOK, Orders, NEW i \in DOMAIN calls, calls[i].stage = "sent", calls[i].kind = "empty",
           cart' = {}, vanished' = vanished,
           Becomes(i, "applied", calls[i].took, TRUE, calls[i].emptied)
    PROVE  Orders'
  <1> USE DEF Goes, SameCall, Ended, Becomes, Had
  <1>0. ~calls[i].effect /\ ~calls[i].emptied
    BY DEF Orders, Course
  <1>1. Grows /\ \A j \in DOMAIN calls : Meets(j)'
    BY <1>0, GoingOn
  <1>2. \A j \in DOMAIN calls : (Added(j)' <=> Added(j)) /\ (Placed(j)' <=> Placed(j))
    BY DEF Added, Placed
  <1>3. Came' = Came
    BY <1>2 DEF Came
  <1>4. ASSUME NEW j \in DOMAIN calls PROVE Course(j)'
    BY <1>3 DEF Orders, Course
  <1>5. ASSUME NEW j \in DOMAIN calls PROVE Alone(j)'
    BY <1>2 DEF Orders, Alone
  <1>6. ASSUME NEW j \in DOMAIN calls PROVE Knows(j)'
    BY <1>1, <1>3, HistoryGrows DEF Orders, Knows, Came
  <1>7. ASSUME NEW j \in DOMAIN calls PROVE Cleared(j)' /\ Once(j)'
    BY <1>0, <1>1, HistoryGrows DEF Orders, Cleared, Once
  <1>8. ItemsLeaveForAReason'
    <2> SUFFICES ASSUME NEW a \in DOMAIN calls, Added(a), ~Gone(a)
                 PROVE  Gone(a)'
      BY <1>1, <1>2, HistoryGrows DEF ItemsLeaveForAReason, Gone
    <2>1. a # i /\ (i > a \/ i \in calls[a].beside)
      <3>1. a \in Nat /\ i \in Nat /\ a # i
        BY Typing, CallFields DEF Added
      <3> QED
        BY <3>1 DEF Orders, Meets
    <2>2. Reason(a, i)'
      BY <2>1 DEF Reason
    <2> QED
      BY <2>2 DEF Gone
  <1> QED
    BY <1>1, <1>3, <1>4, <1>5, <1>6, <1>7, <1>8 DEF Orders

\* The order is placed, and the cart emptied or not.
LEMMA OrderPlaced ==
    ASSUME TypeOK, Orders, NEW i \in DOMAIN calls, NEW m \in BOOLEAN, calls[i].stage = "priced",
           calls[i].took # {}, cart' = (IF m THEN {} ELSE cart), vanished' = vanished,
           Becomes(i, "applied", calls[i].took, TRUE, m)
    PROVE  Orders'
  <1> USE DEF Goes, SameCall, Ended, Becomes, Had
  <1>0. ~calls[i].effect /\ ~calls[i].emptied /\ calls[i].kind = "order"
    BY DEF Orders, Course
  <1>1. Grows /\ \A j \in DOMAIN calls : Meets(j)'
    BY <1>0, GoingOn
  <1>2. \A j \in DOMAIN calls : (Added(j)' <=> Added(j)) /\ (Placed(j)' <=> Placed(j) \/ j = i)
    BY <1>0 DEF Added, Placed
  <1>3. Came' = Came
    BY <1>2 DEF Came
  <1>4. ASSUME NEW j \in DOMAIN calls PROVE Course(j)'
    BY <1>3 DEF Orders, Course
  <1>5. ASSUME NEW j \in DOMAIN calls PROVE Alone(j)'
    BY <1>2 DEF Orders, Alone
  <1>6. ASSUME NEW j \in DOMAIN calls PROVE Knows(j)'
    BY <1>1, <1>3, HistoryGrows DEF Orders, Knows, Came
  <1>7. ASSUME NEW j \in DOMAIN calls PROVE Cleared(j)'
    <2>1. CASE j = i /\ m
      BY <2>1 DEF Orders, Cleared, Meets
    <2>2. CASE ~(j = i /\ m)
      BY <1>0, <1>1, <2>2, HistoryGrows DEF Orders, Cleared
    <2> QED
      BY <2>1, <2>2
  <1>8. ASSUME NEW j \in DOMAIN calls PROVE Once(j)'
    <2>1. CASE j = i /\ m
      BY <2>1 DEF Orders, Once, Meets
    <2>2. CASE ~(j = i /\ m)
      BY <1>0, <1>1, <2>2, HistoryGrows DEF Orders, Once
    <2> QED
      BY <2>1, <2>2
  <1>9. ItemsLeaveForAReason'
    <2> SUFFICES ASSUME NEW a \in DOMAIN calls, Added(a), a \notin cart'
                 PROVE  Gone(a)'
      BY <1>2 DEF ItemsLeaveForAReason, Gone
    <2>1. Gone(a) \/ (m /\ (a \in calls[i].took \/ i \in calls[a].beside))
      BY DEF Orders, ItemsLeaveForAReason, Gone, Knows, Came
    <2>2. m /\ (a \in calls[i].took \/ i \in calls[a].beside) => Reason(a, i)'
      BY DEF Reason
    <2> QED
      BY <1>1, <2>1, <2>2, HistoryGrows DEF Gone
  <1> QED
    BY <1>1, <1>3, <1>4, <1>5, <1>6, <1>7, <1>8, <1>9 DEF Orders

\* A call is made.  The new one has read nothing, and an order that is alone is made while
\* the cart on show is the cart.
LEMMA Sending ==
    ASSUME ShopInv, NEW kind \in Kinds, NEW n \in Nat, UNCHANGED <<cart, vanished>>,
           DOMAIN calls = 1 .. n - 1, DOMAIN calls' = 1 .. n,
           \A j \in DOMAIN calls :
               /\ calls'[j].kind = calls[j].kind /\ calls'[j].stage = calls[j].stage
               /\ calls'[j].shown = calls[j].shown /\ calls'[j].took = calls[j].took
               /\ calls'[j].effect = calls[j].effect /\ calls'[j].emptied = calls[j].emptied
               /\ calls'[j].settled = calls[j].settled
               /\ calls'[j].beside = IF j \in UnderWay THEN calls[j].beside \cup {n}
                                                      ELSE calls[j].beside,
           n \in DOMAIN calls',
           calls'[n].kind = kind, calls'[n].stage = "sent", calls'[n].took = {},
           calls'[n].emptied = FALSE, calls'[n].effect = FALSE, calls'[n].beside = UnderWay,
           calls'[n].settled => kind = "order" /\ Settled /\ calls'[n].shown = Shown
    PROVE  Orders'
  <1>0. /\ n \notin DOMAIN calls /\ DOMAIN calls' = DOMAIN calls \cup {n}
        /\ \A j \in DOMAIN calls : j \in Nat /\ j < n
    OBVIOUS
  <1>2. Grows
    BY <1>0 DEF Grows
  <1>3. /\ \A j \in DOMAIN calls : (Added(j)' <=> Added(j)) /\ (Placed(j)' <=> Placed(j))
        /\ ~Added(n)' /\ ~Placed(n)'
    BY DEF Added, Placed
  <1>4. Came' = Came
    BY <1>0, <1>3 DEF Came
  <1>5. ASSUME NEW j \in DOMAIN calls' PROVE Course(j)'
    <2>1. CASE j = n
      BY <1>0, <1>4, <2>1 DEF Course, UnderWay
    <2>2. CASE j \in DOMAIN calls
      <3>1. Course(j)
        BY <2>2 DEF ShopInv, Orders
      <3> QED
        BY <1>0, <1>4, <2>2, <3>1 DEF Course
    <2> QED
      BY <1>0, <2>1, <2>2
  <1>6. ASSUME NEW j \in DOMAIN calls' PROVE Meets(j)'
    <2> SUFFICES ASSUME calls'[j].stage \notin Ended, NEW i \in DOMAIN calls',
                        i > j \/ (i # j /\ calls'[i].stage \notin Ended)
                 PROVE  j \in calls'[i].beside
      BY DEF Meets
    <2>0. \A k \in DOMAIN calls : calls'[k].stage \notin Ended <=> k \in UnderWay
      BY DEF UnderWay
    <2>1. CASE j = n
      <3>1. i \in DOMAIN calls /\ i \in UnderWay
        BY <1>0, <2>0, <2>1
      <3> QED
        BY <2>1, <3>1
    <2>2. CASE j \in DOMAIN calls /\ i = n
      BY <2>0, <2>2
    <2>3. CASE j \in DOMAIN calls /\ i \in DOMAIN calls
      <3>1. j \in calls[i].beside
        BY <2>0, <2>3 DEF ShopInv, Orders, Meets, UnderWay
      <3> QED
        BY <2>3, <3>1
    <2> QED
      BY <1>0, <2>1, <2>2, <2>3
  <1>7. ASSUME NEW j \in DOMAIN calls' PROVE Alone(j)'
    <2>1. CASE j = n /\ Settled
      <3>1. \A i \in DOMAIN calls : calls[i].stage # "applied"
        BY <2>1 DEF Settled, UnderWay, Ended
      <3>2. selected \notin missed /\ Idle(selected) /\ selected \in Currencies /\ Fresh(selected)
        BY <2>1, Typing DEF ShopInv, Settled
      <3>3. Shown = cart
        BY <3>1, <3>2 DEF Fresh, Shown
      <3> QED
        BY <1>3, <2>1, <3>3 DEF Alone
    <2>2. CASE j = n /\ ~Settled
      BY <2>2 DEF Alone
    <2>3. CASE j \in DOMAIN calls
      <3>1. Alone(j) /\ (calls'[j].beside = {} => calls[j].beside = {})
        BY <2>3 DEF ShopInv, Orders
      <3> QED
        BY <1>3, <2>3, <3>1 DEF Alone
    <2> QED
      BY <1>0, <2>1, <2>2, <2>3
  <1>8. ASSUME NEW j \in DOMAIN calls' PROVE Knows(j)' /\ Cleared(j)' /\ Once(j)'
    <2>1. CASE j = n
      BY <2>1 DEF Knows, Cleared, Once
    <2>2. CASE j \in DOMAIN calls
      <3>1. Knows(j)'
        <4>1. Knows(j) /\ \A a \in Came : a \in DOMAIN calls
          BY <2>2 DEF ShopInv, Orders, Came
        <4> QED
          BY <1>2, <1>4, <2>2, <4>1, HistoryGrows DEF ShopInv, Knows, Grows
      <3>2. Cleared(j)'
        <4> SUFFICES ASSUME calls[j].emptied, NEW a \in calls[j].took, ~Restored(j, a)'
                     PROVE  /\ a \notin cart
                            /\ \A k \in DOMAIN calls : calls[k].stage = "read" /\ a \in calls[k].took
                                                          => k \in calls'[j].beside
          BY <1>0, <2>2 DEF Cleared
        <4>1. ~Restored(j, a)
          BY <1>2, <2>2, HistoryGrows DEF ShopInv
        <4> QED
          BY <2>2, <4>1 DEF ShopInv, Orders, Cleared
      <3>3. Once(j)'
        <4> SUFFICES ASSUME calls[j].emptied, NEW k \in DOMAIN calls, j < k, calls[k].kind = "order",
                            NEW a \in calls[j].took \cap calls[k].took
                     PROVE  j \in calls'[k].beside \/ Restored(j, a)'
          BY <1>0, <2>2 DEF Once
        <4>1. j \in calls[k].beside \/ Restored(j, a)
          BY <2>2 DEF ShopInv, Orders, Once
        <4> QED
          BY <1>2, <2>2, <4>1, HistoryGrows DEF ShopInv
      <3> QED
        BY <3>1, <3>2, <3>3
    <2> QED
      BY <1>0, <2>1, <2>2
  <1>9. ItemsLeaveForAReason'
    <2> SUFFICES ASSUME NEW a \in DOMAIN calls, Added(a), a \notin cart PROVE Gone(a)'
      BY <1>0, <1>3 DEF ItemsLeaveForAReason, Gone
    <2>1. Gone(a)
      BY DEF ShopInv, Orders, ItemsLeaveForAReason, Gone
    <2> QED
      BY <1>2, <2>1, HistoryGrows DEF ShopInv
  <1> QED
    BY <1>4, <1>5, <1>6, <1>7, <1>8, <1>9 DEF ShopInv, Orders

\* The cart expires.
LEMMA CartExpired ==
    ASSUME Orders, cart' = {}, vanished' = vanished \cup cart, calls' = calls
    PROVE  Orders'
  <1> USE DEF Added, Placed
  <1>1. Grows
    BY DEF Grows
  <1>2. Came' = Came
    BY DEF Came
  <1>3. ASSUME NEW j \in DOMAIN calls PROVE Course(j)' /\ Meets(j)' /\ Alone(j)'
    BY <1>2 DEF Orders, Course, Meets, Alone
  <1>4. ASSUME NEW j \in DOMAIN calls PROVE Knows(j)' /\ Cleared(j)' /\ Once(j)'
    BY <1>1, <1>2, HistoryGrows DEF Orders, Knows, Cleared, Once, Came
  <1>5. ItemsLeaveForAReason'
    BY <1>1, HistoryGrows DEF Orders, ItemsLeaveForAReason, Gone
  <1> QED
    BY <1>2, <1>3, <1>4, <1>5 DEF Orders

-----------------------------------------------------------------------------
\* A route goes on: what was read before may be old once it has had its effect, until the
\* call ends.
LEMMA StepEffect ==
    ASSUME ShopInv, NEW i \in DOMAIN calls, Effect(i)
    PROVE  ShopInv'
  <1> USE DEF ShopInv
  <1>1. /\ calls[i].stage \in {"sent", "read", "priced"}
        /\ UNCHANGED <<entries, fetches, selected, acts, missed, vanished>>
    BY DEF Effect, ReadForAdd, WriteCart, EmptyCart, PriceOrder, PlaceOrder
  <1>2. i \in Items /\ calls[i].took \in SUBSET Items /\ cart \in SUBSET Items
        /\ calls[i].emptied \in BOOLEAN
    BY Typing, CallFields, BoundsAssumption DEF Items
  <1>3. /\ Orders' /\ calls' \in Seq(Call) /\ cart' \in SUBSET Items
        /\ \/ Goes(i, "applied")
           \/ cart' = cart /\ (Goes(i, "read") \/ Goes(i, "priced"))
    <2> USE DEF Becomes
    <2>1. CASE ReadForAdd(i)
      <3>1. Becomes(i, "read", cart, calls[i].effect, calls[i].emptied)
        BY <2>1, Reading DEF ReadForAdd
      <3> QED
        BY <1>1, <1>2, <2>1, <3>1, CartRead DEF ReadForAdd
    <2>2. CASE WriteCart(i)
      <3>1. Becomes(i, "applied", calls[i].took, TRUE, calls[i].emptied)
        BY <1>2, <2>2, Acting DEF WriteCart
      <3> QED
        BY <1>1, <1>2, <2>2, <3>1, CartWritten DEF WriteCart
    <2>3. CASE EmptyCart(i)
      <3>1. Becomes(i, "applied", calls[i].took, TRUE, calls[i].emptied)
        BY <1>2, <2>3, Acting DEF EmptyCart
      <3> QED
        BY <1>1, <1>2, <2>3, <3>1, CartEmptied DEF EmptyCart
    <2>4. CASE PriceOrder(i)
      <3>1. Becomes(i, "priced", cart, calls[i].effect, calls[i].emptied)
        BY <2>4, Reading DEF PriceOrder
      <3> QED
        BY <1>1, <1>2, <2>4, <3>1, CartRead DEF PriceOrder
    <2>5. CASE PlaceOrder(i)
      <3>1. PICK m \in BOOLEAN :
              /\ cart' = IF m THEN {} ELSE cart
              /\ calls' = [calls EXCEPT ![i].stage = "applied", ![i].effect = TRUE, ![i].emptied = m]
        BY <2>5 DEF PlaceOrder
      <3>2. Becomes(i, "applied", calls[i].took, TRUE, m)
        BY <3>1, Acting
      <3> QED
        BY <1>1, <1>2, <2>5, <3>1, <3>2, OrderPlaced DEF PlaceOrder
    <2> QED
      BY <2>1, <2>2, <2>3, <2>4, <2>5 DEF Effect
  <1>5. TypeOK'
    BY <1>1, <1>3, Typing DEF Goes, TypeOK, Call
  <1>6. ASSUME NEW c \in Currencies PROVE Fresh(c)'
    <2>1. CASE Goes(i, "applied")
      BY <2>1 DEF Fresh, Goes
    <2>2. CASE cart' = cart /\ (Goes(i, "read") \/ Goes(i, "priced"))
      <3>1. \A j \in DOMAIN calls' : j \in DOMAIN calls /\ (calls'[j].stage = "applied" <=> calls[j].stage = "applied")
        BY <1>1, <2>2 DEF Goes, SameCall
      <3>2. Fresh(c)
        OBVIOUS
      <3> QED
        BY <1>1, <2>2, <3>1, <3>2 DEF Fresh, Idle, Goes
    <2> QED
      BY <1>3, <2>1, <2>2
  <1> QED
    BY <1>3, <1>5, <1>6

\* The cart expires: a fetch that is still to be answered will see it, and the other
\* entries miss it.
LEMMA StepExpire == ASSUME ShopInv, Expire PROVE ShopInv'
  <1> USE DEF ShopInv
  <1>1. /\ cart' = {} /\ vanished' = vanished \cup cart /\ acts' = acts + 1
        /\ Len(calls) + acts < MaxActs
        /\ UNCHANGED <<calls, entries, fetches, selected>>
        /\ missed' = missed \cup {c \in Currencies : fetches[c].stage # "asked"}
    BY DEF Expire
  <1>2. Orders'
    BY <1>1, CartExpired
  <1>3. acts + 1 \in 0 .. MaxActs
    BY <1>1, Typing, CallFields, BoundsAssumption
  <1>4. /\ missed' \in SUBSET Currencies
        /\ \A c \in Currencies : c \notin missed' => fetches[c].stage = "asked"
    BY <1>1, Typing
  <1>5. TypeOK'
    BY <1>1, <1>3, <1>4, Typing DEF TypeOK
  <1>6. ASSUME NEW c \in Currencies PROVE Fresh(c)'
    BY <1>1, <1>4 DEF Fresh, Idle
  <1> QED
    BY <1>2, <1>5, <1>6

\* A call is made: it meets those under way, and they meet it.
LEMMA StepSend == ASSUME ShopInv, NEW kind \in Kinds, Send(kind) PROVE ShopInv'
  <1> USE DEF ShopInv
  <1> PICK n \in Nat : n = Len(calls) + 1
    BY Typing, CallFields
  <1> DEFINE meets(j) == [calls[j] EXCEPT !.beside = IF j \in UnderWay THEN @ \cup {n} ELSE @]
             olds == [j \in DOMAIN calls |-> meets(j)]
             new == [kind |-> kind, stage |-> "sent", heard |-> TRUE,
                     shown |-> IF kind = "order" /\ Settled THEN Shown ELSE {},
                     settled |-> kind = "order" /\ Settled, beside |-> UnderWay,
                     took |-> {}, effect |-> FALSE, emptied |-> FALSE]
  <1>1. /\ Len(calls) \in Nat /\ n <= MaxCalls /\ n \in Items
        /\ DOMAIN calls = 1 .. Len(calls) /\ DOMAIN calls = 1 .. n - 1 /\ n \notin DOMAIN calls
        /\ DOMAIN calls \subseteq Items /\ UnderWay \subseteq DOMAIN calls
        /\ \A j \in DOMAIN calls : calls[j] \in Call
    BY Typing, CallFields, BoundsAssumption DEF Send, Items, UnderWay
  <1>2. Shown \in SUBSET Items /\ UnderWay \in SUBSET Items
    BY <1>1, Typing DEF Shown, Entry
  <1>3. new \in Call
    BY <1>2 DEF Call, Stages, Kinds, Settled
  <1>4. ASSUME NEW j \in DOMAIN calls
        PROVE  /\ meets(j) \in Call
               /\ meets(j).kind = calls[j].kind /\ meets(j).stage = calls[j].stage
               /\ meets(j).shown = calls[j].shown /\ meets(j).took = calls[j].took
               /\ meets(j).effect = calls[j].effect /\ meets(j).emptied = calls[j].emptied
               /\ meets(j).settled = calls[j].settled
               /\ meets(j).beside = IF j \in UnderWay THEN calls[j].beside \cup {n}
                                                     ELSE calls[j].beside
    BY <1>1 DEF Call
  <1>5. /\ new.kind = kind /\ new.stage = "sent" /\ new.took = {} /\ new.emptied = FALSE
        /\ new.effect = FALSE /\ new.beside = UnderWay
        /\ new.settled => kind = "order" /\ Settled /\ new.shown = Shown
    OBVIOUS
  <1>6. calls' = Append(olds, new)
    BY DEF Send
  <1> HIDE DEF meets, new
  <1>7. olds \in Seq(Call) /\ Len(olds) = Len(calls)
    <2>1. \A j \in 1 .. Len(calls) : meets(j) \in Call
      BY <1>1, <1>4
    <2> QED
      BY <1>1, <2>1
  <1> HIDE DEF olds
  <1>8. /\ calls' \in Seq(Call) /\ Len(calls') = n /\ DOMAIN calls' = 1 .. n
        /\ \A j \in DOMAIN calls : calls'[j] = olds[j]
        /\ DOMAIN calls \subseteq DOMAIN calls' /\ n \in DOMAIN calls' /\ calls'[n] = new
    BY <1>1, <1>3, <1>6, <1>7
  <1>9. \A j \in DOMAIN calls : calls'[j] = meets(j)
    BY <1>8 DEF olds
  <1>10. UNCHANGED <<cart, entries, fetches, selected, acts, missed, vanished>>
    BY DEF Send
  <1>11. TypeOK'
    BY <1>1, <1>8, <1>10 DEF TypeOK, Call
  <1>12. ASSUME NEW c \in Currencies PROVE Fresh(c)'
    <2>1. \A j \in DOMAIN calls : j \in DOMAIN calls' /\ calls'[j].stage = calls[j].stage
      BY <1>4, <1>8, <1>9
    <2>2. Fresh(c) /\ UNCHANGED <<cart, entries, fetches, selected, missed>>
      BY <1>10
    <2> QED
      BY <2>1, <2>2 DEF Fresh, Idle
  <1>13. Orders'
    <2>1. ASSUME NEW j \in DOMAIN calls
          PROVE  /\ calls'[j].kind = calls[j].kind /\ calls'[j].stage = calls[j].stage
                 /\ calls'[j].shown = calls[j].shown /\ calls'[j].took = calls[j].took
                 /\ calls'[j].effect = calls[j].effect /\ calls'[j].emptied = calls[j].emptied
                 /\ calls'[j].settled = calls[j].settled
                 /\ calls'[j].beside = IF j \in UnderWay THEN calls[j].beside \cup {n}
                                                        ELSE calls[j].beside
      BY <1>4, <1>9
    <2>2. /\ calls'[n].kind = kind /\ calls'[n].stage = "sent" /\ calls'[n].took = {}
          /\ calls'[n].emptied = FALSE /\ calls'[n].effect = FALSE /\ calls'[n].beside = UnderWay
          /\ calls'[n].settled => kind = "order" /\ Settled /\ calls'[n].shown = Shown
      BY <1>5, <1>8
    <2> QED
      BY <1>1, <1>8, <1>10, <2>1, <2>2, Sending
  <1> QED
    BY <1>11, <1>12, <1>13

-----------------------------------------------------------------------------
\* A call is over.  Its success has the entry on show fetched, unless an entry that is
\* being fetched may miss it; a failure after the effect may be missed by all.
LEMMA StepConfirm == ASSUME ShopInv, NEW i \in DOMAIN calls, Confirm(i) PROVE ShopInv'
  <1> USE DEF ShopInv
  <1>1. UNCHANGED <<cart, entries, selected, acts, vanished>> /\ calls[i].stage = "applied"
    BY DEF Confirm
  <1>2. Becomes(i, "confirmed", calls[i].took, calls[i].effect, calls[i].emptied)
    BY Ending DEF Confirm, Ended
  <1>3. Orders'
    BY <1>1, <1>2, CallEnds DEF Ended
  <1>4. /\ fetches' \in [Currencies -> Fetch] /\ missed' \in SUBSET Currencies
        /\ \A c \in Currencies :
              \/ fetches'[c].stage = "asked"
              \/ c \in missed'
              \/ c # selected /\ fetches'[c].stage = "idle"
    BY Typing, NoFetchTyped DEF Confirm, Invalidate, Idle, Fetch
  <1>5. TypeOK'
    BY <1>1, <1>2, <1>4 DEF Becomes, Goes, TypeOK, Call, Fetch
  <1>6. ASSUME NEW c \in Currencies PROVE Fresh(c)'
    BY <1>1, <1>4 DEF Fresh, Idle
  <1> QED
    BY <1>3, <1>5, <1>6

LEMMA StepFail == ASSUME ShopInv, NEW i \in DOMAIN calls, Fail(i) PROVE ShopInv'
  <1> USE DEF ShopInv
  <1>1. UNCHANGED <<cart, entries, fetches, selected, acts, vanished>> /\ calls[i].stage \notin Ended
    BY DEF Fail, UnderWay
  <1>2. Becomes(i, "failed", calls[i].took, calls[i].effect, calls[i].emptied)
    BY Ending DEF Fail, Reject, Ended
  <1>3. Orders'
    BY <1>1, <1>2, CallEnds DEF Ended
  <1>4. /\ missed' \in SUBSET Currencies
        /\ \/ calls[i].stage = "applied" /\ missed' = Currencies
           \/ calls[i].stage # "applied" /\ missed' = missed
    BY Typing DEF Fail
  <1>5. TypeOK'
    BY <1>1, <1>2, <1>4 DEF Becomes, Goes, TypeOK, Call
  <1>6. ASSUME NEW c \in Currencies PROVE Fresh(c)'
    <2>1. CASE calls[i].stage = "applied"
      BY <1>4, <2>1 DEF Fresh
    <2>2. CASE calls[i].stage # "applied"
      <3>1. Fresh(c) /\ \A j \in DOMAIN calls : j \in DOMAIN calls' /\
               (calls'[j].stage = "applied" <=> calls[j].stage = "applied")
        BY <1>2, <2>2 DEF Becomes, Goes, SameCall
      <3> QED
        BY <1>1, <1>4, <2>2, <3>1 DEF Fresh, Idle
    <2> QED
      BY <2>1, <2>2
  <1> QED
    BY <1>3, <1>5, <1>6

-----------------------------------------------------------------------------
\* Steps that leave the cart and the calls alone: the orders stay as they are.
LEMMA QueryStep ==
    ASSUME Orders, UNCHANGED <<cart, calls, vanished>>
    PROVE  Orders'
  BY OrdersKept DEF SameCall

\* Fetches start, are answered, shown or fail.
LEMMA StepFetch ==
    ASSUME ShopInv, NEW c \in Currencies,
           Focus \/ Select(c) \/ ReadCart(c) \/ ShowCart(c) \/ FetchFails(c)
    PROVE  ShopInv'
  <1> USE DEF ShopInv, Idle
  <1>1. UNCHANGED <<cart, calls, vanished>>
    BY DEF Focus, Select, ReadCart, ShowCart, FetchFails
  <1>2. Orders'
    BY <1>1, QueryStep
  <1>3. ASSUME NEW d \in Currencies, Start(d)
        PROVE  /\ fetches' \in [Currencies -> Fetch] /\ missed' \in SUBSET Currencies
               /\ fetches'[d].stage # "idle"
               /\ \A e \in Currencies :
                     \/ fetches'[e].stage = "asked"
                     \/ fetches'[e] = fetches[e] /\ (e \in missed' <=> e \in missed)
    BY <1>3, Typing, NoFetchTyped DEF Start
  <1>4. acts + 1 \in 0 .. MaxActs \/ ~(Len(calls) + acts < MaxActs)
    BY Typing, CallFields, BoundsAssumption
  <1>5. CASE Focus
    <2>1. selected \in Currencies /\ Start(selected) /\ UNCHANGED <<entries, selected>>
      BY <1>5, Typing DEF Focus
    <2>2. TypeOK'
      BY <1>1, <1>3, <1>4, <1>5, <2>1 DEF Focus, TypeOK, Fetch
    <2>3. ASSUME NEW e \in Currencies PROVE Fresh(e)'
      BY <1>1, <1>3, <2>1 DEF Fresh
    <2> QED
      BY <1>2, <2>2, <2>3
  <1>6. CASE Select(c)
    <2>1. Start(c) /\ selected' = c /\ UNCHANGED entries
      BY <1>6 DEF Select
    <2>2. TypeOK'
      BY <1>1, <1>3, <1>4, <1>6, <2>1 DEF Select, TypeOK, Fetch
    <2>3. ASSUME NEW e \in Currencies PROVE Fresh(e)'
      BY <1>1, <1>3, <2>1 DEF Fresh
    <2> QED
      BY <1>2, <2>2, <2>3
  <1>7. CASE ReadCart(c)
    <2> DEFINE f == [fetches[c] EXCEPT !.stage = "read", !.items = cart]
    <2>1. UNCHANGED <<entries, selected, acts, missed>> /\ fetches' = [fetches EXCEPT ![c] = f]
      BY <1>7 DEF ReadCart
    <2>2. f \in Fetch /\ f.stage = "read" /\ f.items = cart
      BY Typing DEF Fetch
    <2> HIDE DEF f
    <2>3. fetches' \in [Currencies -> Fetch]
          /\ \A e \in Currencies : fetches'[e] = IF e = c THEN f ELSE fetches[e]
      BY <2>1, <2>2, Typing
    <2>4. TypeOK'
      BY <1>1, <2>1, <2>3 DEF TypeOK, Fetch
    <2>5. ASSUME NEW e \in Currencies PROVE Fresh(e)'
      BY <1>1, <2>1, <2>2, <2>3 DEF Fresh
    <2> QED
      BY <1>2, <2>4, <2>5
  <1>8. CASE ShowCart(c)
    <2> DEFINE shown == [loaded |-> TRUE, items |-> fetches[c].items]
    <2>1. /\ UNCHANGED <<selected, acts, missed>> /\ fetches[c].stage = "read"
          /\ entries' = [entries EXCEPT ![c] = shown]
          /\ fetches' = [fetches EXCEPT ![c] = NoFetch]
      BY <1>8 DEF ShowCart
    <2>2. shown \in Entry
      BY Typing DEF Fetch, Entry
    <2>3. /\ entries' \in [Currencies -> Entry] /\ entries'[c] = shown
          /\ \A e \in Currencies : e # c => entries'[e] = entries[e]
      BY <2>1, <2>2, Typing
    <2>4. /\ fetches' \in [Currencies -> Fetch] /\ fetches'[c] = NoFetch
          /\ \A e \in Currencies : e # c => fetches'[e] = fetches[e]
      BY <2>1, Typing, NoFetchTyped
    <2>5. TypeOK'
      BY <1>1, <2>1, <2>3, <2>4 DEF TypeOK, Fetch, Entry
    <2>6. ASSUME NEW e \in Currencies PROVE Fresh(e)'
      BY <1>1, <2>1, <2>3, <2>4, NoFetchTyped DEF Fresh
    <2> QED
      BY <1>2, <2>5, <2>6
  <1>9. CASE FetchFails(c)
    <2> DEFINE retries == fetches[c].retries + 1
               again == [Asked EXCEPT !.retries = retries]
    <2>1. UNCHANGED <<entries, selected, acts>>
      BY <1>9 DEF FetchFails
    <2>2. \/ /\ c = selected /\ fetches[c].retries < MaxRetries
             /\ fetches' = [fetches EXCEPT ![c] = again] /\ missed' = missed
          \/ /\ fetches' = [fetches EXCEPT ![c] = NoFetch]
             /\ missed' = missed \cup {c}
      BY <1>9 DEF FetchFails
    <2>3. fetches[c].retries < MaxRetries => again \in Fetch
      <3>1. fetches[c].retries \in 0 .. MaxRetries
        BY Typing DEF Fetch
      <3>2. fetches[c].retries < MaxRetries => retries \in 0 .. MaxRetries
        BY <3>1, BoundsAssumption
      <3> HIDE DEF retries
      <3> QED
        BY <3>2 DEF Asked, NoFetch, Fetch
    <2>4. again.stage = "asked"
      BY DEF Asked, NoFetch
    <2> HIDE DEF again
    <2>5. /\ fetches' \in [Currencies -> Fetch] /\ missed' \in SUBSET Currencies
          /\ \A e \in Currencies :
                \/ fetches'[e].stage = "asked"
                \/ fetches'[e].stage = "idle" /\ e \in missed'
                \/ fetches'[e] = fetches[e] /\ (e \in missed' <=> e \in missed)
      <3>1. CASE fetches[c].retries < MaxRetries /\ fetches' = [fetches EXCEPT ![c] = again]
                 /\ missed' = missed
        BY <2>3, <2>4, <3>1, Typing
      <3>2. CASE /\ fetches' = [fetches EXCEPT ![c] = NoFetch]
                 /\ missed' = missed \cup {c}
        BY <3>2, Typing, NoFetchTyped
      <3> QED
        BY <2>2, <3>1, <3>2
    <2>6. TypeOK'
      BY <1>1, <2>1, <2>5 DEF TypeOK, Fetch
    <2>7. ASSUME NEW e \in Currencies PROVE Fresh(e)'
      BY <1>1, <2>1, <2>5 DEF Fresh
    <2> QED
      BY <1>2, <2>6, <2>7
  <1> QED
    BY <1>5, <1>6, <1>7, <1>8, <1>9

\* The page is loaded again: no promise hears an answer, and the entry on show is fetched.
LEMMA StepReload == ASSUME ShopInv, Reload PROVE ShopInv'
  <1> USE DEF ShopInv
  <1> DEFINE deaf(j) == [calls[j] EXCEPT !.heard = @ /\ j \notin UnderWay]
  <1>1. /\ UNCHANGED <<cart, selected, vanished>> /\ calls' = [j \in DOMAIN calls |-> deaf(j)]
        /\ entries' = [c \in Currencies |-> NotLoaded]
        /\ fetches' = [c \in Currencies |-> IF c = selected THEN Asked ELSE NoFetch]
        /\ missed' = {} /\ acts' = acts + 1
        /\ Len(calls) + acts < MaxActs
    BY DEF Reload
  <1>2. Len(calls) \in Nat /\ DOMAIN calls = 1 .. Len(calls) /\ \A j \in DOMAIN calls : calls[j] \in Call
    BY Typing, CallFields
  <1>3. ASSUME NEW j \in DOMAIN calls
        PROVE  /\ deaf(j) \in Call
               /\ deaf(j).kind = calls[j].kind /\ deaf(j).stage = calls[j].stage
               /\ deaf(j).settled = calls[j].settled /\ deaf(j).beside = calls[j].beside
               /\ deaf(j).effect = calls[j].effect /\ deaf(j).shown = calls[j].shown
               /\ deaf(j).took = calls[j].took /\ deaf(j).emptied = calls[j].emptied
    BY <1>2 DEF Call
  <1> HIDE DEF deaf
  <1>4. /\ calls' \in Seq(Call) /\ Len(calls') = Len(calls) /\ DOMAIN calls' = DOMAIN calls
        /\ \A j \in DOMAIN calls : calls'[j] = deaf(j)
    BY <1>1, <1>2, <1>3
  <1>5. Orders'
    BY <1>1, <1>3, <1>4, OrdersKept DEF SameCall
  <1>6. acts + 1 \in 0 .. MaxActs
    BY <1>1, <1>2, Typing, BoundsAssumption
  <1>7. /\ entries' \in [Currencies -> Entry] /\ fetches' \in [Currencies -> Fetch]
        /\ missed' \in SUBSET Currencies
    BY <1>1, NoFetchTyped
  <1>8. TypeOK'
    BY <1>1, <1>4, <1>6, <1>7 DEF TypeOK, Call, Entry, Fetch
  <1>9. ASSUME NEW c \in Currencies PROVE Fresh(c)'
    BY <1>1, NoFetchTyped DEF Fresh, Idle
  <1> QED
    BY <1>5, <1>8, <1>9

-----------------------------------------------------------------------------
LEMMA ShopInvStep == ShopInv /\ [Next]_vars => ShopInv'
  <1> SUFFICES ASSUME ShopInv, [Next]_vars PROVE ShopInv'
    OBVIOUS
  <1>1. ASSUME NEW kind \in Kinds, Send(kind) PROVE ShopInv'
    BY <1>1, StepSend
  <1>2. ASSUME Focus \/ Reload \/ Expire PROVE ShopInv'
    BY <1>2, StepFetch, StepReload, StepExpire, CurrencyAssumption
  <1>3. ASSUME NEW c \in Currencies, Select(c) \/ ReadCart(c) \/ ShowCart(c) \/ FetchFails(c)
        PROVE  ShopInv'
    BY <1>3, StepFetch
  <1>4. ASSUME NEW i \in DOMAIN calls, Effect(i) \/ Confirm(i) \/ Fail(i) PROVE ShopInv'
    BY <1>4, StepEffect, StepConfirm, StepFail
  <1>5. CASE UNCHANGED vars
    <2>1. Orders'
      BY <1>5, QueryStep DEF vars, ShopInv
    <2> QED
      BY <1>5, <2>1 DEF vars, ShopInv, TypeOK, Fresh, Idle
  <1> QED
    BY <1>1, <1>2, <1>3, <1>4, <1>5 DEF Next

\* What the browser shows, the cart and the calls agree in every state.
THEOREM ShopInvAlways == Spec => []ShopInv
  <1>1. Init => ShopInv
    BY InitShop
  <1> QED
    BY <1>1, ShopInvStep, PTL DEF Spec

\* The variables keep their types.
THEOREM StorefrontTypeOK == Spec => []TypeOK
  <1>1. ShopInv => TypeOK
    BY DEF ShopInv
  <1> QED
    BY <1>1, ShopInvAlways, PTL

\* Once everything is answered, the cart on show is the cart, unless a success went unheard
\* or met a fetch that could not be repeated, or the last fetch failed.
THEOREM ShownCartIsTheCartAlways == Spec => []ShownCartIsTheCart
  <1>1. ShopInv => ShownCartIsTheCart
    <2> SUFFICES ASSUME ShopInv, Settled PROVE entries[selected] = [loaded |-> TRUE, items |-> cart]
      BY DEF ShownCartIsTheCart
    <2>1. Fresh(selected)
      BY Typing DEF ShopInv
    <2> QED
      BY <2>1 DEF Settled, UnderWay, Fresh, Ended
  <1> QED
    BY <1>1, ShopInvAlways, PTL

\* An order that is alone takes the items that were on show as it was sent.
THEOREM OrderTakesWhatWasShownAlways == Spec => []OrderTakesWhatWasShown
  <1>1. ShopInv => OrderTakesWhatWasShown
    BY DEF ShopInv, Orders, Alone, OrderTakesWhatWasShown, Placed
  <1> QED
    BY <1>1, ShopInvAlways, PTL

\* An order that emptied the cart leaves nothing that an order sent after it was over takes
\* again, unless an AddItem put it back.
THEOREM NoItemIsOrderedTwiceAlways == Spec => []NoItemIsOrderedTwice
  <1>1. ShopInv => NoItemIsOrderedTwice
    BY DEF ShopInv, Orders, Once, NoItemIsOrderedTwice, Placed
  <1> QED
    BY <1>1, ShopInvAlways, PTL

\* No item leaves the cart but with an order or a call that emptied the cart, under the write
\* of an AddItem that did not see it, or as the cart expires.
THEOREM ItemsLeaveForAReasonAlways == Spec => []ItemsLeaveForAReason
  <1>1. ShopInv => ItemsLeaveForAReason
    BY DEF ShopInv, Orders
  <1> QED
    BY <1>1, ShopInvAlways, PTL
=============================================================================
