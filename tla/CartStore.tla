----------------------------- MODULE CartStore -----------------------------
(***************************************************************************)
(* The cart service over Valkey (cart/src/cartstore/ValkeyCartStore.cs):   *)
(* AddItem reads the user's hash, writes it back with the item and arms    *)
(* its expiry; EmptyCart writes an empty cart and arms the expiry.  Calls  *)
(* of one user interleave at every await, each of the three commands can   *)
(* fail before it is carried out or lose its answer, and keys vanish.      *)
(*                                                                         *)
(* A cart is the quantity of each product, 0 for a product not in it.      *)
(***************************************************************************)
EXTENDS Integers, FiniteSetsExt

CONSTANTS Users, Products, Calls,
          Quantities    \* quantities of an AddItem: nothing checks their sign

ASSUME QuantitiesAssumption == Quantities \subseteq Int

NoKey == [exists |-> FALSE]
Key(content) == [exists |-> TRUE, items |-> content]
NoItems == [p \in Products |-> 0]

VARIABLES
    hash,     \* Valkey: the key of each user
    expiry,   \* Valkey: the users whose key has a time to live
    pc,       \* where each call stands
    req,      \* its request
    value,    \* the cart it is about to write
    reply,
    ideal,    \* history: the cart if every write had been applied to the latest one
    stale,    \* history: calls whose cart was read before the last change of the key
    tainted   \* history: users whose key was last written from a stale read

store == <<hash, expiry>>
call  == <<req, value>>
vars  == <<store, pc, call, reply, ideal, stale, tainted>>

NoRequest == [op |-> "none"]
AddItemRequests == [op : {"add"}, user : Users, product : Products, quantity : Quantities]
EmptyCartRequests == [op : {"empty"}, user : Users]

IsAdd(c) == req[c].op = "add"
Of(u) == {c \in Calls : pc[c] # "idle" /\ req[c].user = u}

\* cart.Items after AddItem: the product's quantity is increased or starts at it.
Plus(items, c) == [items EXCEPT ![req[c].product] = @ + req[c].quantity]
Content(k) == IF k.exists THEN k.items ELSE NoItems

Init ==
    /\ hash = [u \in Users |-> NoKey] /\ expiry = {}
    /\ pc = [c \in Calls |-> "idle"]
    /\ req = [c \in Calls |-> NoRequest]
    /\ value = [c \in Calls |-> NoItems]
    /\ reply = [c \in Calls |-> "none"]
    /\ ideal = [u \in Users |-> NoItems]
    /\ stale = {} /\ tainted = {}
-----------------------------------------------------------------------------
Goto(c, place) == pc' = [pc EXCEPT ![c] = place] /\ UNCHANGED reply
Return(c, answer) == /\ pc' = [pc EXCEPT ![c] = "done"]
                     /\ reply' = [reply EXCEPT ![c] = answer]

BeginAdd(c, r) ==
    /\ pc[c] = "idle"
    /\ req' = [req EXCEPT ![c] = r]
    /\ Goto(c, "read")
    /\ UNCHANGED <<store, value, ideal, stale, tainted>>

\* EmptyCart starts with its write: it does not look at the cart.
BeginEmpty(c, r) ==
    /\ pc[c] = "idle"
    /\ req' = [req EXCEPT ![c] = r]
    /\ value' = [value EXCEPT ![c] = NoItems]
    /\ Goto(c, "write")
    /\ UNCHANGED <<store, ideal, stale, tainted>>

\* Any exception, a lost connection or a stopped pod: FailedPrecondition.  The
\* cartFailure flag ends EmptyCart here, before its write.
Fail(c) ==
    /\ pc[c] \in {"read", "write", "expire"}
    /\ Return(c, "failed")
    /\ UNCHANGED <<store, call, ideal, stale, tainted>>

\* Mutant: the stored cart is not looked at.
ReadNothing(c) ==
    /\ pc[c] = "read"
    /\ value' = [value EXCEPT ![c] = Plus(NoItems, c)]
    /\ stale' = stale \ {c}
    /\ Goto(c, "write")
    /\ UNCHANGED <<store, req, ideal, tainted>>

\* HashGetAsync and the new cart.
Read(c) ==
    /\ pc[c] = "read"
    /\ value' = [value EXCEPT ![c] = Plus(Content(hash[req[c].user]), c)]
    /\ stale' = stale \ {c}
    /\ Goto(c, "write")
    /\ UNCHANGED <<store, req, ideal, tainted>>

\* The AddItem calls that hold a copy of u's cart which a change makes stale.
Holding(u) == {c \in Of(u) : pc[c] = "write" /\ IsAdd(c)}

\* Mutants: a lost answer is retried; the expiry is not armed.
Replace(c) ==
    LET u == req[c].user IN
    /\ pc[c] = "write"
    /\ hash' = [hash EXCEPT ![u] = Key(value[c])]
    /\ UNCHANGED <<expiry, call, ideal, stale, tainted>>
WriteRetried(c) == Replace(c) /\ (Goto(c, "expire") \/ (IsAdd(c) /\ Goto(c, "read")))
WriteForGood(c) == Replace(c) /\ Return(c, "ok")

\* HashSetAsync: the whole cart is replaced; a key that exists keeps its expiry.  The
\* answer may be lost.
Write(c) ==
    LET u == req[c].user IN
    /\ pc[c] = "write"
    /\ hash' = [hash EXCEPT ![u] = Key(value[c])]
    /\ ideal' = [ideal EXCEPT ![u] = IF IsAdd(c) THEN Plus(@, c) ELSE NoItems]
    /\ stale' = stale \cup (Holding(u) \ {c})
    /\ tainted' = IF ~IsAdd(c) THEN tainted \ {u}
                  ELSE IF c \in stale THEN tainted \cup {u} ELSE tainted
    /\ Goto(c, "expire") \/ Return(c, "failed")
    /\ UNCHANGED <<expiry, call>>

\* KeyExpireAsync, which does nothing to a key that is gone.
Expire(c) ==
    LET u == req[c].user IN
    /\ pc[c] = "expire"
    /\ expiry' = IF hash[u].exists THEN expiry \cup {u} ELSE expiry
    /\ Return(c, "ok") \/ Return(c, "failed")
    /\ UNCHANGED <<hash, call, ideal, stale, tainted>>

\* An hour passed, or Valkey started again without the key.
Vanish(u) ==
    /\ hash[u].exists
    /\ hash' = [hash EXCEPT ![u] = NoKey]
    /\ expiry' = expiry \ {u}
    /\ ideal' = [ideal EXCEPT ![u] = NoItems]
    /\ stale' = stale \cup Holding(u)
    /\ tainted' = tainted \ {u}
    /\ UNCHANGED <<pc, call, reply>>

Next == \/ \E c \in Calls : \/ \E r \in AddItemRequests : BeginAdd(c, r)
                            \/ \E r \in EmptyCartRequests : BeginEmpty(c, r)
                            \/ Read(c) \/ Write(c) \/ Expire(c) \/ Fail(c)
        \/ \E u \in Users : Vanish(u)

Spec == Init /\ [][Next]_vars
-----------------------------------------------------------------------------
Carts == [Products -> Int]

TypeOK ==
    /\ hash \in [Users -> {NoKey} \cup [exists : {TRUE}, items : Carts]]
    /\ expiry \subseteq Users
    /\ pc \in [Calls -> {"idle", "read", "write", "expire", "done"}]
    /\ req \in [Calls -> {NoRequest} \cup AddItemRequests \cup EmptyCartRequests]
    /\ value \in [Calls -> Carts]
    /\ reply \in [Calls -> {"none", "ok", "failed"}]
    /\ ideal \in [Users -> Carts]
    /\ stale \subseteq Calls /\ tainted \subseteq Users

\* The stored cart is what all the writes of its user add up to, as long as no AddItem
\* has written a cart that it read before somebody else's change; and EmptyCart, or
\* the loss of the key, heals a cart that such a write spoiled.
CartIsExactUnlessStale ==
    \A u \in Users \ tainted : Content(hash[u]) = ideal[u]

\* A race loses items or brings back emptied ones, but it never counts a call twice: what
\* is stored of a product is what some of the calls for it asked for.
Asked(u, p) == {c \in Of(u) : IsAdd(c) /\ req[c].product = p}
NoCallCountsTwice ==
    \A u \in Users, p \in Products : \E some \in SUBSET Asked(u, p) :
        Content(hash[u])[p] = MapThenSumSet(LAMBDA c : req[c].quantity, some)

\* A cart without a time to live, which would stay for ever, belongs to a call that is
\* about to arm it or that failed after its write.
UnexpiringCartHasAnOwner ==
    \A u \in Users : hash[u].exists /\ u \notin expiry =>
        \E c \in Of(u) : pc[c] = "expire" \/ reply[c] = "failed"
=============================================================================
