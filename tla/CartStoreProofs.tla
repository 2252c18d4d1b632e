-------------------------- MODULE CartStoreProofs --------------------------
(***************************************************************************)
(* Races on a stored cart, for any users, products and number of calls.    *)
(***************************************************************************)
EXTENDS CartStore, FiniteSetTheorems, TLAPS

\* What the place of a call says about its request and the cart it holds: an AddItem
\* call that is not stale holds the stored cart and its item.
Holds ==
    \A c \in Calls :
        /\ pc[c] = "read" => req[c] \in AddItemRequests
        /\ pc[c] \in {"write", "expire", "done"} =>
             req[c] \in AddItemRequests \cup EmptyCartRequests
        /\ pc[c] = "write" /\ req[c] \in EmptyCartRequests => value[c] = NoItems
        /\ pc[c] = "write" /\ req[c] \in AddItemRequests /\ c \notin stale =>
             value[c] = Plus(Content(hash[req[c].user]), c)

CartInv == TypeOK /\ Holds /\ CartIsExactUnlessStale /\ UnexpiringCartHasAnOwner

-----------------------------------------------------------------------------
\* The two kinds of request.
LEMMA Requests ==
    /\ \A r \in AddItemRequests : /\ r.op = "add" /\ r.user \in Users
                                  /\ r.product \in Products /\ r.quantity \in Int
    /\ \A r \in EmptyCartRequests : r.op = "empty" /\ r.user \in Users
    /\ NoRequest.op = "none"
  BY QuantitiesAssumption DEF AddItemRequests, EmptyCartRequests, NoRequest

LEMMA PlusIsACart ==
    ASSUME NEW c, req[c] \in AddItemRequests, NEW items \in Carts
    PROVE  Plus(items, c) \in Carts
  BY Requests DEF Plus, Carts

LEMMA EmptyIsACart == NoItems \in Carts
  BY DEF NoItems, Carts

LEMMA ContentIsACart ==
    ASSUME TypeOK, NEW u \in Users
    PROVE  Content(hash[u]) \in Carts
  <1>1. CASE hash[u] = NoKey
    BY <1>1, EmptyIsACart DEF NoKey, Content
  <1>2. CASE hash[u] \in [exists : {TRUE}, items : Carts]
    BY <1>2 DEF Content
  <1> QED
    BY <1>1, <1>2 DEF TypeOK

LEMMA KeyHolds ==
    ASSUME NEW m \in Carts
    PROVE  /\ Key(m) \in [exists : {TRUE}, items : Carts]
           /\ Key(m).exists /\ Content(Key(m)) = m
  BY DEF Key, Content

LEMMA NoKeyHolds == ~NoKey.exists /\ Content(NoKey) = NoItems
  BY DEF NoKey, Content

-----------------------------------------------------------------------------
LEMMA InitCart == Init => CartInv
  <1> SUFFICES ASSUME Init PROVE CartInv
    OBVIOUS
  <1> USE DEF Init
  <1>1. TypeOK
    BY EmptyIsACart DEF TypeOK
  <1>2. Holds
    BY DEF Holds
  <1>3. CartIsExactUnlessStale /\ UnexpiringCartHasAnOwner
    BY NoKeyHolds DEF CartIsExactUnlessStale, UnexpiringCartHasAnOwner
  <1> QED
    BY <1>1, <1>2, <1>3 DEF CartInv

LEMMA StepBeginAdd ==
    ASSUME CartInv, NEW c \in Calls, NEW r \in AddItemRequests, BeginAdd(c, r)
    PROVE  CartInv'
  <1> USE DEF BeginAdd, Goto, store
  <1>1. TypeOK'
    BY DEF CartInv, TypeOK
  <1>2. Holds'
    BY DEF CartInv, Holds, TypeOK, Plus
  <1>3. CartIsExactUnlessStale'
    BY DEF CartInv, CartIsExactUnlessStale
  <1>4. UnexpiringCartHasAnOwner'
    BY DEF CartInv, UnexpiringCartHasAnOwner, Of, TypeOK
  <1> QED
    BY <1>1, <1>2, <1>3, <1>4 DEF CartInv

LEMMA StepBeginEmpty ==
    ASSUME CartInv, NEW c \in Calls, NEW r \in EmptyCartRequests, BeginEmpty(c, r)
    PROVE  CartInv'
  <1> USE DEF BeginEmpty, Goto, store
  <1>1. TypeOK'
    BY EmptyIsACart DEF CartInv, TypeOK
  <1>2. r \notin AddItemRequests
    BY Requests
  <1>3. Holds'
    BY <1>2 DEF CartInv, Holds, TypeOK, Plus
  <1>4. CartIsExactUnlessStale'
    BY DEF CartInv, CartIsExactUnlessStale
  <1>5. UnexpiringCartHasAnOwner'
    BY DEF CartInv, UnexpiringCartHasAnOwner, Of, TypeOK
  <1> QED
    BY <1>1, <1>3, <1>4, <1>5 DEF CartInv

LEMMA StepFail == ASSUME CartInv, NEW c \in Calls, Fail(c) PROVE CartInv'
  <1> USE DEF Fail, Return, store, call
  <1>1. TypeOK'
    BY DEF CartInv, TypeOK
  <1>2. Holds'
    BY DEF CartInv, Holds, TypeOK, Plus
  <1>3. CartIsExactUnlessStale'
    BY DEF CartInv, CartIsExactUnlessStale
  <1>4. UnexpiringCartHasAnOwner'
    BY DEF CartInv, UnexpiringCartHasAnOwner, Of, TypeOK
  <1> QED
    BY <1>1, <1>2, <1>3, <1>4 DEF CartInv

LEMMA StepRead == ASSUME CartInv, NEW c \in Calls, Read(c) PROVE CartInv'
  <1> USE DEF Read, Goto, store
  <1> DEFINE new == Plus(Content(hash[req[c].user]), c)
  <1>1. req[c] \in AddItemRequests /\ req[c].user \in Users /\ req[c] \notin EmptyCartRequests
    BY Requests DEF CartInv, Holds
  <1>2. new \in Carts
    BY <1>1, ContentIsACart, PlusIsACart DEF CartInv
  <1>3. /\ value' = [value EXCEPT ![c] = new] /\ value'[c] = new
        /\ \A d \in Calls \ {c} : value'[d] = value[d]
    BY DEF CartInv, TypeOK
  <1>4. new' = new
    BY DEF Plus
  <1> HIDE DEF new
  <1>5. TypeOK'
    BY <1>2, <1>3 DEF CartInv, TypeOK
  <1>6. ASSUME NEW d \in Calls PROVE Holds!(d)'
    <2>1. CASE d = c
      BY <2>1, <1>1, <1>3, <1>4 DEF CartInv, TypeOK, new
    <2>2. CASE d # c
      BY <2>2, <1>3 DEF CartInv, Holds, TypeOK, Plus
    <2> QED
      BY <2>1, <2>2
  <1>7. CartIsExactUnlessStale'
    BY DEF CartInv, CartIsExactUnlessStale
  <1>8. UnexpiringCartHasAnOwner'
    BY DEF CartInv, UnexpiringCartHasAnOwner, Of, TypeOK
  <1>9. Holds'
    BY <1>6 DEF Holds
  <1> QED
    BY <1>5, <1>7, <1>8, <1>9 DEF CartInv

LEMMA StepWrite == ASSUME CartInv, NEW c \in Calls, Write(c) PROVE CartInv'
  <1> USE DEF Write, Goto, Return, call
  <1> DEFINE u == req[c].user
  <1>1. /\ u \in Users /\ req[c] \in AddItemRequests \cup EmptyCartRequests
        /\ IsAdd(c) <=> req[c] \in AddItemRequests
        /\ value[c] \in Carts
    BY Requests DEF CartInv, Holds, IsAdd, TypeOK
  <1>2. /\ hash'[u] = Key(value[c]) /\ Content(hash'[u]) = value[c]
        /\ \A v \in Users \ {u} : hash'[v] = hash[v] /\ ideal'[v] = ideal[v]
        /\ ideal'[u] = IF IsAdd(c) THEN Plus(ideal[u], c) ELSE NoItems
    BY <1>1, KeyHolds DEF CartInv, TypeOK
  <1>3. ideal'[u] \in Carts
    BY <1>1, <1>2, PlusIsACart, EmptyIsACart DEF CartInv, TypeOK
  <1>4. /\ pc' \in [Calls -> {"idle", "read", "write", "expire", "done"}]
        /\ reply' \in [Calls -> {"none", "ok", "failed"}]
        /\ pc'[c] \in {"expire", "done"} /\ (pc'[c] = "done" => reply'[c] = "failed")
        /\ \A d \in Calls \ {c} : pc'[d] = pc[d] /\ reply'[d] = reply[d]
    BY DEF CartInv, TypeOK
  <1> HIDE DEF u
  <1>5. TypeOK'
    <2>1. hash' \in [Users -> {NoKey} \cup [exists : {TRUE}, items : Carts]]
      BY <1>1, KeyHolds DEF CartInv, TypeOK, u
    <2>2. ideal' \in [Users -> Carts]
      BY <1>1, <1>2, <1>3 DEF CartInv, TypeOK, u
    <2>3. stale' \subseteq Calls
      BY DEF CartInv, TypeOK, Holding, Of
    <2>4. tainted' \subseteq Users
      BY <1>1 DEF CartInv, TypeOK, u
    <2> QED
      BY <1>4, <2>1, <2>2, <2>3, <2>4 DEF CartInv, TypeOK
  <1>6. ASSUME NEW d \in Calls PROVE Holds!(d)'
    <2>1. CASE d = c
      BY <1>1, <1>4, <2>1
    <2>2. CASE d # c
      <3>1. CASE pc[d] = "write" /\ req[d] \in AddItemRequests /\ req[d].user = u
        <4>1. d \in Holding(u)
          BY <3>1, Requests DEF Holding, Of, IsAdd
        <4>2. d \in stale'
          BY <2>2, <4>1 DEF u
        <4> QED
          BY <1>4, <2>2, <3>1, <4>2, Requests DEF CartInv, Holds
      <3>2. CASE pc[d] = "write" /\ req[d] \in AddItemRequests /\ req[d].user # u
        <4>1. hash'[req[d].user] = hash[req[d].user]
          BY <1>2, <3>2, Requests
        <4>2. d \notin stale' => d \notin stale
          BY DEF u
        <4> QED
          BY <1>4, <2>2, <3>2, <4>1, <4>2, Requests DEF CartInv, Holds, Plus
      <3>3. CASE ~(pc[d] = "write" /\ req[d] \in AddItemRequests)
        BY <1>4, <2>2, <3>3 DEF CartInv, Holds
      <3> QED
        BY <3>1, <3>2, <3>3
    <2> QED
      BY <2>1, <2>2
  <1>7. CartIsExactUnlessStale'
    <2> SUFFICES ASSUME NEW v \in Users, v \notin tainted'
                 PROVE  Content(hash'[v]) = ideal'[v]
      BY DEF CartIsExactUnlessStale
    <2>1. CASE v # u
      BY <1>2, <2>1 DEF CartInv, CartIsExactUnlessStale, u
    <2>2. CASE v = u /\ ~IsAdd(c)
      BY <1>1, <1>2, <2>2 DEF CartInv, Holds
    <2>3. CASE v = u /\ IsAdd(c)
      <3>1. c \notin stale /\ u \notin tainted
        BY <2>3 DEF u
      <3>2. value[c] = Plus(Content(hash[u]), c)
        BY <1>1, <2>3, <3>1 DEF CartInv, Holds, u
      <3>3. Content(hash[u]) = ideal[u]
        BY <1>1, <3>1 DEF CartInv, CartIsExactUnlessStale
      <3> QED
        BY <1>2, <2>3, <3>2, <3>3
    <2> QED
      BY <2>1, <2>2, <2>3
  <1>8. UnexpiringCartHasAnOwner'
    <2> SUFFICES ASSUME NEW v \in Users, hash'[v].exists, v \notin expiry
                 PROVE  \E d \in Of(v)' : pc'[d] = "expire" \/ reply'[d] = "failed"
      BY DEF UnexpiringCartHasAnOwner
    <2>1. CASE v = u
      BY <1>4, <2>1 DEF Of, u
    <2>2. CASE v # u
      <3>1. PICK d \in Of(v) : pc[d] = "expire" \/ reply[d] = "failed"
        BY <1>2, <2>2 DEF CartInv, UnexpiringCartHasAnOwner
      <3>2. d # c /\ d \in Calls
        BY <2>2, <3>1 DEF Of, u
      <3>3. d \in Of(v)'
        BY <1>4, <3>1, <3>2 DEF Of
      <3> QED
        BY <1>4, <3>1, <3>2, <3>3
    <2> QED
      BY <2>1, <2>2
  <1>9. Holds'
    BY <1>6 DEF Holds
  <1> QED
    BY <1>5, <1>7, <1>8, <1>9 DEF CartInv

LEMMA StepExpire == ASSUME CartInv, NEW c \in Calls, Expire(c) PROVE CartInv'
  <1> USE DEF Expire, Return, call
  <1>1. req[c].user \in Users
    BY Requests DEF CartInv, Holds
  <1>2. /\ pc' \in [Calls -> {"idle", "read", "write", "expire", "done"}]
        /\ reply' \in [Calls -> {"none", "ok", "failed"}]
        /\ pc'[c] = "done"
        /\ \A d \in Calls \ {c} : pc'[d] = pc[d] /\ reply'[d] = reply[d]
    BY DEF CartInv, TypeOK
  <1>3. TypeOK'
    BY <1>1, <1>2 DEF CartInv, TypeOK
  <1>4. Holds'
    BY <1>2 DEF CartInv, Holds, Plus
  <1>5. CartIsExactUnlessStale'
    BY DEF CartInv, CartIsExactUnlessStale
  <1>6. UnexpiringCartHasAnOwner'
    <2> SUFFICES ASSUME NEW v \in Users, hash[v].exists, v \notin expiry'
                 PROVE  \E d \in Of(v)' : pc'[d] = "expire" \/ reply'[d] = "failed"
      BY DEF UnexpiringCartHasAnOwner
    <2>1. v # req[c].user /\ v \notin expiry
      OBVIOUS
    <2>2. PICK d \in Of(v) : pc[d] = "expire" \/ reply[d] = "failed"
      BY <2>1 DEF CartInv, UnexpiringCartHasAnOwner
    <2>3. d # c /\ d \in Calls /\ d \in Of(v)'
      BY <1>2, <2>1, <2>2 DEF Of
    <2> QED
      BY <1>2, <2>2, <2>3
  <1> QED
    BY <1>3, <1>4, <1>5, <1>6 DEF CartInv

LEMMA StepVanish == ASSUME CartInv, NEW u \in Users, Vanish(u) PROVE CartInv'
  <1> USE DEF Vanish, call
  <1>1. /\ hash'[u] = NoKey /\ ideal'[u] = NoItems
        /\ \A v \in Users \ {u} : hash'[v] = hash[v] /\ ideal'[v] = ideal[v]
    BY DEF CartInv, TypeOK
  <1>2. TypeOK'
    BY EmptyIsACart DEF CartInv, TypeOK, Holding, Of
  <1>3. ASSUME NEW d \in Calls PROVE Holds!(d)'
    <2>1. CASE pc[d] = "write" /\ req[d] \in AddItemRequests /\ req[d].user = u
      <3>1. d \in Holding(u)
        BY <2>1, Requests DEF Holding, Of, IsAdd
      <3> QED
        BY <2>1, <3>1, Requests DEF CartInv, Holds
    <2>2. CASE pc[d] = "write" /\ req[d] \in AddItemRequests /\ req[d].user # u
      <3>1. hash'[req[d].user] = hash[req[d].user]
        BY <1>1, <2>2, Requests
      <3> QED
        BY <2>2, <3>1, Requests DEF CartInv, Holds, Plus
    <2>3. CASE ~(pc[d] = "write" /\ req[d] \in AddItemRequests)
      BY <2>3 DEF CartInv, Holds
    <2> QED
      BY <2>1, <2>2, <2>3
  <1>4. CartIsExactUnlessStale'
    BY <1>1, NoKeyHolds DEF CartInv, CartIsExactUnlessStale
  <1>5. UnexpiringCartHasAnOwner'
    BY <1>1, NoKeyHolds DEF CartInv, UnexpiringCartHasAnOwner, Of
  <1>6. Holds'
    BY <1>3 DEF Holds
  <1> QED
    BY <1>2, <1>4, <1>5, <1>6 DEF CartInv

THEOREM CartInvAlways == Spec => []CartInv
  <1>1. CartInv /\ [Next]_vars => CartInv'
    <2> SUFFICES ASSUME CartInv, [Next]_vars PROVE CartInv'
      OBVIOUS
    <2>1. CASE UNCHANGED vars
      <3> USE <2>1 DEF vars, store, call
      <3>1. TypeOK'
        BY DEF CartInv, TypeOK
      <3>2. Holds'
        BY DEF CartInv, Holds, Plus
      <3>3. CartIsExactUnlessStale'
        BY DEF CartInv, CartIsExactUnlessStale
      <3>4. UnexpiringCartHasAnOwner'
        BY DEF CartInv, UnexpiringCartHasAnOwner, Of
      <3> QED
        BY <3>1, <3>2, <3>3, <3>4 DEF CartInv
    <2>2. CASE Next
      BY <2>2, StepBeginAdd, StepBeginEmpty, StepFail, StepRead, StepWrite, StepExpire,
         StepVanish DEF Next
    <2> QED
      BY <2>1, <2>2
  <1> QED
    BY <1>1, InitCart, PTL DEF Spec

\* Every variable of the store and its calls keeps its type.
THEOREM TypeOKAlways == Spec => []TypeOK
  <1>1. CartInv => TypeOK
    BY DEF CartInv
  <1> QED
    BY <1>1, CartInvAlways, PTL

\* Without a write from a stale read the stored cart is the sum of all writes, and
\* EmptyCart or the loss of the key heals it, for any number of concurrent calls.
THEOREM CartIsExactUnlessStaleAlways == Spec => []CartIsExactUnlessStale
  <1>1. CartInv => CartIsExactUnlessStale
    BY DEF CartInv
  <1> QED
    BY <1>1, CartInvAlways, PTL

\* A cart that would stay for ever belongs to a call that arms it or has failed.
THEOREM UnexpiringCartHasAnOwnerAlways == Spec => []UnexpiringCartHasAnOwner
  <1>1. CartInv => UnexpiringCartHasAnOwner
    BY DEF CartInv
  <1> QED
    BY <1>1, CartInvAlways, PTL

-----------------------------------------------------------------------------
(* Sums over finite sets.  MapThenSumSet takes one element after the other *)
(* off a set; that the order does not matter needs an induction, made here *)
(* on the smallest set that would be wrong.                                *)

\* The sum of h over S.
Total(h, S) == MapThenSumSet(LAMBDA x : h[x], S)

Pick(s) == CHOOSE x \in s : TRUE

\* What MapThenSumSet defines: f takes one element after the other off a set.
IsSum(h, S, f) ==
    f = [s \in SUBSET S |-> IF s = {} THEN 0 ELSE h[Pick(s)] + f[s \ {Pick(s)}]]

LEMMA PickIsIn == ASSUME NEW s, s # {} PROVE Pick(s) \in s
  BY DEF Pick

\* A set of subsets of a finite set has a smallest one.
LEMMA Smallest ==
    ASSUME NEW S, IsFiniteSet(S), NEW B \in SUBSET SUBSET S, B # {}
    PROVE  \E m \in B : \A b \in B : b \subseteq m => b = m
  <1>1. IsWellFoundedOn(StrictSubsetOrdering(S), SUBSET S)
    BY FS_StrictSubsetOrderingWellFounded, FS_FiniteSubsetsOfFinite
  <1>2. PICK m \in B : \A b \in B : ~(<<b, m>> \in StrictSubsetOrdering(S))
    BY <1>1, WFMin
  <1> QED
    BY <1>2 DEF StrictSubsetOrdering

LEMMA SumAt ==
    ASSUME NEW h, NEW S, NEW f, IsSum(h, S, f), NEW s \in SUBSET S
    PROVE  f[s] = IF s = {} THEN 0 ELSE h[Pick(s)] + f[s \ {Pick(s)}]
  BY DEF IsSum

LEMMA SumsAgree ==
    ASSUME NEW h, NEW S, NEW T, IsFiniteSet(S), NEW f, NEW g, IsSum(h, S, f), IsSum(h, T, g),
           NEW s \in SUBSET S, s \subseteq T
    PROVE  f[s] = g[s]
  <1> DEFINE B == {t \in SUBSET S : t \subseteq T /\ f[t] # g[t]}
  <1> SUFFICES ASSUME s \in B PROVE FALSE
    OBVIOUS
  <1>1. PICK m \in B : \A b \in B : b \subseteq m => b = m
    <2>1. B \in SUBSET SUBSET S /\ B # {}
      OBVIOUS
    <2> HIDE DEF B
    <2> QED
      BY <2>1, Smallest
  <1>2. m \in SUBSET S /\ m \in SUBSET T /\ f[m] # g[m]
    OBVIOUS
  <1>3. m # {}
    BY <1>2, SumAt
  <1> DEFINE r == m \ {Pick(m)}
  <1>4. r \in SUBSET S /\ r \subseteq T /\ r \subseteq m /\ r # m
    BY <1>2, <1>3, PickIsIn
  <1>5. f[r] = g[r]
    BY <1>1, <1>4
  <1> QED
    BY <1>2, <1>3, <1>5, SumAt

LEMMA SumExists ==
    ASSUME NEW h, NEW S, IsFiniteSet(S)
    PROVE  \E f : IsSum(h, S, f)
  <1> DEFINE B == {t \in SUBSET S : ~ \E f : IsSum(h, t, f)}
  <1> SUFFICES ASSUME S \in B PROVE FALSE
    OBVIOUS
  <1>1. PICK m \in B : \A b \in B : b \subseteq m => b = m
    <2>1. B \in SUBSET SUBSET S /\ B # {}
      OBVIOUS
    <2> HIDE DEF B
    <2> QED
      BY <2>1, Smallest
  <1> DEFINE F(t) == CHOOSE f : IsSum(h, t, f)
             R(s) == s \ {Pick(s)}
             f == [s \in SUBSET m |-> IF s = {} THEN 0 ELSE h[Pick(s)] + F(R(s))[R(s)]]
  <1>2. ASSUME NEW t \in SUBSET m, t # m PROVE IsSum(h, t, F(t))
    <2>1. t \notin B /\ t \in SUBSET S
      BY <1>1, <1>2
    <2>2. \E g : IsSum(h, t, g)
      BY <2>1
    <2> QED
      BY <2>2
  <1> HIDE DEF F
  <1>3. ASSUME NEW t \in SUBSET m, t # m PROVE F(t)[t] = f[t]
    <2>1. F(t)[t] = IF t = {} THEN 0 ELSE h[Pick(t)] + F(t)[R(t)]
      BY <1>2, <1>3, SumAt
    <2>2. CASE t # {}
      <3>1. R(t) \in SUBSET m /\ R(t) # m /\ R(t) \in SUBSET t
        BY <1>3, <2>2, PickIsIn
      <3>2. IsFiniteSet(t)
        BY <1>1, FS_Subset
      <3>3. F(t)[R(t)] = F(R(t))[R(t)]
        BY <1>2, <1>3, <3>1, <3>2, SumsAgree
      <3> QED
        BY <2>1, <2>2, <3>3
    <2> QED
      BY <2>1, <2>2
  <1>4. ASSUME NEW s \in SUBSET m, s # {} PROVE F(R(s))[R(s)] = f[R(s)]
    <2>1. R(s) \in SUBSET m /\ R(s) # m
      BY <1>4, PickIsIn
    <2> QED
      BY <1>3, <2>1
  <1> DEFINE g == [s \in SUBSET m |-> IF s = {} THEN 0 ELSE h[Pick(s)] + f[R(s)]]
  <1>5. f = g
    <2>1. \A s \in SUBSET m : f[s] = g[s]
      BY <1>4
    <2> HIDE DEF F
    <2> QED
      BY <2>1
  <1>6. IsSum(h, m, f)
    BY <1>5 DEF IsSum
  <1> QED
    BY <1>1, <1>6

LEMMA TotalIsASum ==
    ASSUME NEW h, NEW S, IsFiniteSet(S)
    PROVE  \E f : IsSum(h, S, f) /\ Total(h, S) = f[S]
  <1>1. Total(h, S) = (CHOOSE f : IsSum(h, S, f))[S]
    BY Zenon DEF Total, MapThenSumSet, MapThenFoldSet, IsSum, Pick
  <1> QED
    BY <1>1, SumExists

LEMMA TotalStep ==
    ASSUME NEW h, NEW S, IsFiniteSet(S)
    PROVE  Total(h, S) = IF S = {} THEN 0 ELSE h[Pick(S)] + Total(h, S \ {Pick(S)})
  <1> DEFINE R == S \ {Pick(S)}
  <1>1. IsFiniteSet(R) /\ R \in SUBSET S
    BY FS_Subset
  <1>2. PICK f : IsSum(h, S, f) /\ Total(h, S) = f[S]
    BY TotalIsASum
  <1>3. PICK g : IsSum(h, R, g) /\ Total(h, R) = g[R]
    BY <1>1, TotalIsASum
  <1>4. f[R] = g[R]
    BY <1>1, <1>2, <1>3, SumsAgree
  <1> QED
    BY <1>2, <1>3, <1>4, SumAt

\* The total of integers is an integer, whichever element is taken off first.
LEMMA TotalWithout ==
    ASSUME NEW h, NEW S, IsFiniteSet(S), \A y \in S : h[y] \in Int
    PROVE  Total(h, S) \in Int /\ \A x \in S : Total(h, S) = h[x] + Total(h, S \ {x})
  <1> DEFINE Good(s) == Total(h, s) \in Int /\ \A x \in s : Total(h, s) = h[x] + Total(h, s \ {x})
             B == {s \in SUBSET S : ~Good(s)}
  <1> SUFFICES ASSUME S \in B PROVE FALSE
    OBVIOUS
  <1>1. PICK m \in B : \A b \in B : b \subseteq m => b = m
    <2>1. B \in SUBSET SUBSET S /\ B # {}
      OBVIOUS
    <2> HIDE DEF B
    <2> QED
      BY <2>1, Smallest
  <1>2. \A s \in SUBSET m : s # m => Good(s)
    BY <1>1
  <1>3. IsFiniteSet(m) /\ \A x \in m : h[x] \in Int
    BY FS_Subset
  <1>4. m # {}
    <2>1. Total(h, {}) = 0
      BY TotalStep, FS_EmptySet
    <2>2. Good({})
      BY <2>1
    <2> QED
      BY <1>1, <2>2
  <1> DEFINE p == Pick(m)
  <1>5. p \in m /\ Total(h, m) = h[p] + Total(h, m \ {p})
    BY <1>3, <1>4, TotalStep, PickIsIn
  <1>6. ASSUME NEW x \in m PROVE Total(h, m \ {x}) \in Int
    BY <1>2
  <1>7. Total(h, m) \in Int
    BY <1>3, <1>5, <1>6
  <1>8. ASSUME NEW x \in m, x # p PROVE Total(h, m) = h[x] + Total(h, m \ {x})
    <2> DEFINE rest == Total(h, (m \ {p}) \ {x})
    <2>1. Total(h, m \ {p}) = h[x] + rest
      BY <1>2, <1>5, <1>8
    <2>2. (m \ {x}) \ {p} = (m \ {p}) \ {x}
      OBVIOUS
    <2>3. Total(h, m \ {x}) = h[p] + rest
      BY <1>2, <1>5, <1>8, <2>2
    <2>4. rest \in Int /\ h[x] \in Int /\ h[p] \in Int
      BY <1>2, <1>3, <1>5, <1>8
    <2> HIDE DEF rest
    <2>5. Total(h, m) = h[p] + (h[x] + rest)
      BY <1>5, <2>1
    <2> QED
      BY <2>3, <2>4, <2>5
  <1>9. Good(m)
    BY <1>5, <1>7, <1>8
  <1> QED
    BY <1>9

\* Only the values on the set count.
LEMMA TotalSame ==
    ASSUME NEW h, NEW g, NEW S, IsFiniteSet(S), \A y \in S : h[y] = g[y]
    PROVE  Total(h, S) = Total(g, S)
  <1> DEFINE B == {s \in SUBSET S : Total(h, s) # Total(g, s)}
  <1> SUFFICES ASSUME S \in B PROVE FALSE
    OBVIOUS
  <1>1. PICK m \in B : \A b \in B : b \subseteq m => b = m
    <2>1. B \in SUBSET SUBSET S /\ B # {}
      OBVIOUS
    <2> HIDE DEF B
    <2> QED
      BY <2>1, Smallest
  <1>2. IsFiniteSet(m) /\ Total(h, m) # Total(g, m)
    BY FS_Subset
  <1>3. m # {}
    BY <1>2, TotalStep
  <1>4. Total(h, m \ {Pick(m)}) = Total(g, m \ {Pick(m)})
    BY <1>1, <1>3, PickIsIn
  <1>5. h[Pick(m)] = g[Pick(m)]
    BY <1>3, PickIsIn
  <1> QED
    BY <1>2, <1>3, <1>4, <1>5, TotalStep

-----------------------------------------------------------------------------
\* What is stored of a product, and what a call is about to write, is the sum of different
\* calls that have written; the call itself may be among them.
Asks == [c \in Calls |-> req[c].quantity]

Made(some, own, n) ==
    /\ IsFiniteSet(some) /\ n = Total(Asks, some)
    /\ \A c \in some : c \in own \/ pc[c] \in {"expire", "done"}

Counted ==
    /\ \A u \in Users, p \in Products : \E some \in SUBSET Asked(u, p) :
          Made(some, {}, Content(hash[u])[p])
    /\ \A c \in Calls, p \in Products : pc[c] = "write" =>
          \E some \in SUBSET Asked(req[c].user, p) : Made(some, {c}, value[c][p])

LEMMA NothingIsASum ==
    /\ \A u \in Users, p \in Products : {} \in SUBSET Asked(u, p)
    /\ \A own, p \in Products : Made({}, own, NoItems[p])
  BY FS_EmptySet, TotalStep DEF Made, NoItems

\* A sum stays one as calls go on: the calls in it keep their requests and their writes.
LEMMA SumsStay ==
    ASSUME NEW u \in Users, NEW p \in Products, NEW some \in SUBSET Asked(u, p),
           IsFiniteSet(some), NEW own,
           \A c \in some : c \in own \/ pc[c] \in {"expire", "done"},
           \A c \in Calls : pc[c] # "idle" => req'[c] = req[c] /\ pc'[c] # "idle",
           \A c \in Calls : pc[c] \in {"expire", "done"} => pc'[c] \in {"expire", "done"}
    PROVE  /\ some \in SUBSET Asked(u, p)' /\ Total(Asks', some) = Total(Asks, some)
           /\ \A c \in some : c \in own \/ pc'[c] \in {"expire", "done"}
  <1>1. \A c \in some : c \in Calls /\ pc[c] # "idle" /\ req'[c] = req[c]
    BY DEF Asked, Of
  <1>2. \A c \in some : Asks'[c] = Asks[c]
    BY <1>1 DEF Asks
  <1>3. Total(Asks', some) = Total(Asks, some)
    BY <1>2, TotalSame
  <1> QED
    BY <1>1, <1>3 DEF Asked, Of, IsAdd

\* The call adds itself to what it has read, where it was not counted before.
LEMMA OneMore ==
    ASSUME TypeOK, NEW c \in Calls, req[c] \in AddItemRequests, pc[c] = "read",
           NEW some \in SUBSET Asked(req[c].user, req[c].product), NEW n, Made(some, {}, n)
    PROVE  /\ some \cup {c} \in SUBSET Asked(req[c].user, req[c].product)
           /\ IsFiniteSet(some \cup {c})
           /\ n + req[c].quantity = Total(Asks, some \cup {c})
  <1> DEFINE more == some \cup {c}
  <1>1. c \in Asked(req[c].user, req[c].product) /\ c \notin some
    BY Requests DEF Asked, Of, IsAdd, Made
  <1>2. IsFiniteSet(more) /\ more \ {c} = some /\ more \subseteq Asked(req[c].user, req[c].product)
    BY <1>1, FS_AddElement DEF Made
  <1>3. \A d \in more : Asks[d] \in Int
    <2> SUFFICES ASSUME NEW d \in more PROVE Asks[d] \in Int
      OBVIOUS
    <2>1. d \in Calls /\ req[d].op = "add"
      BY <1>2 DEF Asked, Of, IsAdd
    <2>2. req[d] \in AddItemRequests
      BY <2>1, Requests DEF TypeOK
    <2> QED
      BY <2>1, <2>2, Requests DEF Asks
  <1>4. Total(Asks, some) \in Int
    BY <1>3, TotalWithout DEF Made
  <1>5. Total(Asks, more) = Asks[c] + Total(Asks, more \ {c})
    BY <1>2, <1>3, TotalWithout
  <1>6. Asks[c] = req[c].quantity /\ Asks[c] \in Int
    BY <1>3 DEF Asks
  <1> HIDE DEF more
  <1>7. n = Total(Asks, some)
    BY DEF Made
  <1>8. n + req[c].quantity = Total(Asks, more)
    <2>1. Total(Asks, more) = Asks[c] + n
      BY <1>2, <1>5, <1>7
    <2> QED
      BY <1>4, <1>6, <1>7, <2>1
  <1> QED
    BY <1>2, <1>8 DEF more

LEMMA CountedStep == CartInv /\ Counted /\ [Next]_vars => Counted'
  <1> SUFFICES ASSUME CartInv, Counted, [Next]_vars PROVE Counted'
    OBVIOUS
  <1>1. TypeOK /\ Holds
    BY DEF CartInv
  <1>2. /\ \A c \in Calls : pc[c] # "idle" => req'[c] = req[c] /\ pc'[c] # "idle"
        /\ \A c \in Calls : pc[c] \in {"expire", "done"} => pc'[c] \in {"expire", "done"}
    BY <1>1 DEF TypeOK, Next, vars, store, call, Goto, Return, BeginAdd, BeginEmpty, Read, Write,
       Expire, Fail, Vanish
  \* What was stored or about to be written, and still is.
  <1>3. ASSUME NEW u \in Users, NEW p \in Products, Content(hash'[u])[p] = Content(hash[u])[p]
        PROVE  \E some \in SUBSET Asked(u, p)' : Made(some, {}, Content(hash[u])[p])'
    <2>1. PICK some \in SUBSET Asked(u, p) : Made(some, {}, Content(hash[u])[p])
      BY DEF Counted
    <2>2. /\ some \in SUBSET Asked(u, p)' /\ Total(Asks', some) = Total(Asks, some)
          /\ \A c \in some : pc'[c] \in {"expire", "done"}
      BY <1>2, <2>1, SumsStay DEF Made
    <2> QED
      BY <1>3, <2>1, <2>2 DEF Made
  <1>4. ASSUME NEW c \in Calls, NEW p \in Products, pc[c] = "write", value'[c] = value[c]
        PROVE  \E some \in SUBSET Asked(req[c].user, p)' : Made(some, {c}, value[c][p])'
    <2>1. PICK some \in SUBSET Asked(req[c].user, p) : Made(some, {c}, value[c][p])
      BY <1>4 DEF Counted
    <2>2. req[c].user \in Users /\ req'[c] = req[c]
      BY <1>1, <1>2, <1>4, Requests DEF Holds
    <2>3. /\ some \in SUBSET Asked(req[c].user, p)' /\ Total(Asks', some) = Total(Asks, some)
          /\ \A d \in some : d \in {c} \/ pc'[d] \in {"expire", "done"}
      BY <1>2, <2>1, <2>2, SumsStay DEF Made
    <2> QED
      BY <1>4, <2>1, <2>3 DEF Made
  <1>5. ASSUME NEW c \in Calls, Read(c) PROVE Counted'
    <2> DEFINE u == req[c].user
               new == Plus(Content(hash[u]), c)
    <2>1. req[c] \in AddItemRequests /\ u \in Users /\ pc[c] = "read"
      BY <1>1, <1>5, Requests DEF Read, Holds
    <2>2. /\ hash' = hash /\ req' = req /\ value'[c] = new
          /\ \A d \in Calls \ {c} : value'[d] = value[d] /\ pc'[d] = pc[d]
      BY <1>1, <1>5 DEF Read, Goto, TypeOK, store
    <2>3. ASSUME NEW p \in Products
          PROVE  \E some \in SUBSET Asked(req[c].user, p)' : Made(some, {c}, value[c][p])'
      <3>1. PICK some \in SUBSET Asked(u, p) : Made(some, {}, Content(hash[u])[p])
        BY <2>1 DEF Counted
      <3>2. Content(hash[u]) \in [Products -> Int]
        BY <1>1, <2>1, ContentIsACart DEF Carts
      <3>3. CASE p = req[c].product
        <4>1. new[p] = Content(hash[u])[p] + req[c].quantity
          BY <3>2, <3>3 DEF Plus
        <4>2. /\ some \cup {c} \in SUBSET Asked(u, p) /\ IsFiniteSet(some \cup {c})
              /\ new[p] = Total(Asks, some \cup {c})
          BY <1>1, <2>1, <3>1, <3>3, <4>1, OneMore
        <4> DEFINE more == some \cup {c}
        <4>3. \A d \in more : d \in {c} \/ pc[d] \in {"expire", "done"}
          BY <3>1 DEF Made
        <4> HIDE DEF more, new
        <4>4. /\ more \in SUBSET Asked(u, p)' /\ Total(Asks', more) = Total(Asks, more)
              /\ \A d \in more : d \in {c} \/ pc'[d] \in {"expire", "done"}
          BY <1>2, <2>1, <4>2, <4>3, SumsStay DEF more
        <4> QED
          BY <2>2, <4>2, <4>4 DEF Made, more
      <3>4. CASE p # req[c].product
        <4>1. new[p] = Content(hash[u])[p]
          BY <3>2, <3>4 DEF Plus
        <4> HIDE DEF new
        <4>2. /\ some \in SUBSET Asked(u, p)' /\ Total(Asks', some) = Total(Asks, some)
              /\ \A d \in some : d \in {} \/ pc'[d] \in {"expire", "done"}
          BY <1>2, <2>1, <3>1, SumsStay DEF Made
        <4> QED
          BY <2>2, <3>1, <4>1, <4>2 DEF Made
      <3> QED
        BY <3>3, <3>4
    <2>4. ASSUME NEW d \in Calls, pc'[d] = "write", d # c, NEW p \in Products
          PROVE  \E some \in SUBSET Asked(req[d].user, p)' : Made(some, {d}, value[d][p])'
      BY <1>4, <2>2, <2>4
    <2> QED
      BY <1>3, <2>2, <2>3, <2>4 DEF Counted
  <1>6. ASSUME NEW c \in Calls, Write(c) PROVE Counted'
    <2> DEFINE u == req[c].user
    <2>1. req[c] \in AddItemRequests \cup EmptyCartRequests /\ u \in Users /\ pc[c] = "write"
      BY <1>1, <1>6, Requests DEF Write, Holds
    <2>2. /\ hash'[u] = Key(value[c]) /\ value' = value /\ req' = req
          /\ \A v \in Users \ {u} : hash'[v] = hash[v]
          /\ pc'[c] \in {"expire", "done"} /\ \A d \in Calls \ {c} : pc'[d] = pc[d]
      BY <1>1, <1>6, <2>1 DEF Write, Goto, Return, call, TypeOK
    <2>3. Content(hash'[u]) = value[c]
      BY <1>1, <2>2, KeyHolds DEF TypeOK
    <2>4. ASSUME NEW p \in Products
          PROVE  \E some \in SUBSET Asked(u, p)' : Made(some, {}, Content(hash[u])[p])'
      <3>1. PICK some \in SUBSET Asked(u, p)' : Made(some, {c}, value[c][p])'
        BY <1>4, <2>1, <2>2
      <3> QED
        BY <2>2, <2>3, <3>1 DEF Made
    <2>5. ASSUME NEW v \in Users, v # u, NEW p \in Products
          PROVE  \E some \in SUBSET Asked(v, p)' : Made(some, {}, Content(hash[v])[p])'
      BY <1>3, <2>2, <2>5
    <2>6. ASSUME NEW d \in Calls, pc'[d] = "write", NEW p \in Products
          PROVE  \E some \in SUBSET Asked(req[d].user, p)' : Made(some, {d}, value[d][p])'
      BY <1>4, <2>2, <2>6
    <2>7. ASSUME NEW v \in Users, NEW p \in Products
          PROVE  \E some \in SUBSET Asked(v, p)' : Made(some, {}, Content(hash[v])[p])'
      <3>1. CASE v = u
        <4>1. u' = v
          BY <2>2, <3>1
        <4> QED
          BY <2>4, <4>1
      <3> QED
        BY <2>5, <3>1
    <2> QED
      BY <2>6, <2>7 DEF Counted
  <1>7. ASSUME NEW v \in Users, Vanish(v) PROVE Counted'
    <2>1. hash'[v] = NoKey /\ value' = value /\ req' = req /\ pc' = pc
          /\ \A w \in Users \ {v} : hash'[w] = hash[w]
      BY <1>1, <1>7 DEF Vanish, call, TypeOK
    <2>2. ASSUME NEW w \in Users, NEW p \in Products
          PROVE  \E some \in SUBSET Asked(w, p)' : Made(some, {}, Content(hash[w])[p])'
      <3>1. CASE w = v
        <4>1. {} \in SUBSET Asked(w, p)' /\ Content(hash'[w])[p] = 0 /\ Total(Asks', {}) = 0
          BY <2>1, <3>1, NoKeyHolds, TotalStep, FS_EmptySet DEF NoItems
        <4> QED
          BY <4>1, FS_EmptySet DEF Made
      <3>2. CASE w # v
        BY <1>3, <2>1, <3>2
      <3> QED
        BY <3>1, <3>2
    <2>3. ASSUME NEW d \in Calls, pc'[d] = "write", NEW p \in Products
          PROVE  \E some \in SUBSET Asked(req[d].user, p)' : Made(some, {d}, value[d][p])'
      BY <1>4, <2>1, <2>3
    <2> QED
      BY <2>2, <2>3 DEF Counted
  <1>8. ASSUME NEW c \in Calls, NEW r \in EmptyCartRequests, BeginEmpty(c, r) PROVE Counted'
    <2>1. /\ hash' = hash /\ value'[c] = NoItems
          /\ \A d \in Calls \ {c} : value'[d] = value[d] /\ req'[d] = req[d] /\ pc'[d] = pc[d]
      BY <1>1, <1>8 DEF BeginEmpty, Goto, store, TypeOK
    <2>2. ASSUME NEW d \in Calls, pc'[d] = "write", NEW p \in Products
          PROVE  \E some \in SUBSET Asked(req[d].user, p)' : Made(some, {d}, value[d][p])'
      <3>1. CASE d = c
        <4>1. {} \in SUBSET Asked(req[d].user, p)' /\ value'[d][p] = 0 /\ Total(Asks', {}) = 0
          BY <2>1, <3>1, TotalStep, FS_EmptySet DEF NoItems
        <4> QED
          BY <4>1, FS_EmptySet DEF Made
      <3>2. CASE d # c
        BY <1>4, <2>1, <2>2, <3>2
      <3> QED
        BY <3>1, <3>2
    <2> QED
      BY <1>3, <2>1, <2>2 DEF Counted
  <1>9. ASSUME hash' = hash, value' = value,
               \A d \in Calls : pc'[d] = "write" => pc[d] = "write" /\ req'[d] = req[d]
        PROVE  Counted'
    <2>1. ASSUME NEW d \in Calls, pc'[d] = "write", NEW p \in Products
          PROVE  \E some \in SUBSET Asked(req[d].user, p)' : Made(some, {d}, value[d][p])'
      BY <1>4, <1>9, <2>1
    <2> QED
      BY <1>3, <1>9, <2>1 DEF Counted
  <1>10. ASSUME NEW c \in Calls,
                \/ \E r \in AddItemRequests : BeginAdd(c, r)
                \/ Expire(c) \/ Fail(c)
         PROVE  Counted'
    <2>1. /\ hash' = hash /\ value' = value
          /\ \A d \in Calls : pc'[d] = "write" => pc[d] = "write" /\ req'[d] = req[d]
      BY <1>1, <1>10 DEF BeginAdd, Expire, Fail, Goto, Return, store, call, TypeOK
    <2> QED
      BY <1>9, <2>1
  <1>11. CASE UNCHANGED vars
    BY <1>9, <1>11 DEF vars, store, call
  <1> QED
    BY <1>5, <1>6, <1>7, <1>8, <1>10, <1>11 DEF Next

\* The sum of the property, as the lemmas write it.
LEMMA AskedSum ==
    ASSUME NEW some \in SUBSET Calls, IsFiniteSet(some)
    PROVE  MapThenSumSet(LAMBDA c : req[c].quantity, some) = Total(Asks, some)
  <1> DEFINE P(f) == f = [s \in SUBSET some |->
                            IF s = {} THEN 0 ELSE req[Pick(s)].quantity + f[s \ {Pick(s)}]]
  <1>1. MapThenSumSet(LAMBDA c : req[c].quantity, some) = (CHOOSE f : P(f))[some]
    BY Zenon DEF MapThenSumSet, MapThenFoldSet, Pick
  <1>2. ASSUME NEW f PROVE P(f) <=> IsSum(Asks, some, f)
    <2> DEFINE left == [s \in SUBSET some |->
                          IF s = {} THEN 0 ELSE req[Pick(s)].quantity + f[s \ {Pick(s)}]]
               right == [s \in SUBSET some |->
                          IF s = {} THEN 0 ELSE Asks[Pick(s)] + f[s \ {Pick(s)}]]
    <2>1. ASSUME NEW s \in SUBSET some, s # {} PROVE Asks[Pick(s)] = req[Pick(s)].quantity
      BY <2>1, PickIsIn DEF Asks
    <2>2. left = right
      BY <2>1
    <2> QED
      BY <2>2 DEF IsSum
  <1>3. PICK f : IsSum(Asks, some, f) /\ Total(Asks, some) = f[some]
    BY TotalIsASum
  <1>4. P(CHOOSE g : P(g))
    BY <1>2, <1>3
  <1> DEFINE g == CHOOSE g : P(g)
  <1>5. IsSum(Asks, some, g)
    BY <1>2, <1>4
  <1> HIDE DEF P, g
  <1>6. g[some] = f[some]
    BY <1>3, <1>5, SumsAgree
  <1> QED
    BY <1>1, <1>3, <1>6 DEF g

LEMMA InitCounted == Init => Counted
  <1> SUFFICES ASSUME Init PROVE Counted
    OBVIOUS
  <1>1. ASSUME NEW u \in Users, NEW p \in Products
        PROVE  \E some \in SUBSET Asked(u, p) : Made(some, {}, Content(hash[u])[p])
    <2>1. {} \in SUBSET Asked(u, p) /\ Made({}, {}, Content(hash[u])[p])
      <3>1. hash[u] = NoKey
        BY DEF Init
      <3>2. Content(hash[u])[p] = NoItems[p]
        BY <3>1, NoKeyHolds
      <3>3. NoItems[p] = 0 /\ Total(Asks, {}) = 0 /\ IsFiniteSet({})
        BY TotalStep, FS_EmptySet DEF NoItems
      <3>4. Made({}, {}, Content(hash[u])[p])
        BY <3>2, <3>3 DEF Made
      <3> QED
        BY <3>4
    <2> QED
      BY <2>1
  <1>2. \A c \in Calls : pc[c] # "write"
    BY DEF Init
  <1> QED
    BY <1>1, <1>2 DEF Counted

\* However calls interleave, fail or lose their answers, what is stored of a product is
\* the sum of different calls that asked for it.
THEOREM NoCallCountsTwiceAlways == Spec => []NoCallCountsTwice
  <1>1. Counted => NoCallCountsTwice
    <2> SUFFICES ASSUME Counted, NEW u \in Users, NEW p \in Products
                 PROVE  \E some \in SUBSET Asked(u, p) :
                           Content(hash[u])[p] = MapThenSumSet(LAMBDA c : req[c].quantity, some)
      BY DEF NoCallCountsTwice
    <2>1. PICK some \in SUBSET Asked(u, p) : Made(some, {}, Content(hash[u])[p])
      BY DEF Counted
    <2>2. some \in SUBSET Calls /\ IsFiniteSet(some) /\ Content(hash[u])[p] = Total(Asks, some)
      BY <2>1 DEF Made, Asked, Of
    <2>3. MapThenSumSet(LAMBDA c : req[c].quantity, some) = Total(Asks, some)
      BY <2>2, AskedSum
    <2>4. Content(hash[u])[p] = MapThenSumSet(LAMBDA c : req[c].quantity, some)
      BY Zenon, <2>2, <2>3
    <2> QED
      BY Zenon, <2>1, <2>4
  <1>2. CartInv /\ Counted /\ [Next]_vars => Counted'
    BY CountedStep
  <1>3. Init => Counted
    BY InitCounted
  <1> QED
    BY <1>1, <1>2, <1>3, CartInvAlways, PTL DEF Spec
=============================================================================
