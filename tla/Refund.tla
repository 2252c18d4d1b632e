------------------------------- MODULE Refund -------------------------------
(***************************************************************************)
(* Refunds: concurrent RefundOrder and GetOrder calls of the order service *)
(* (OrderServiceImpl.cs) on the order's row and on the payment service,    *)
(* which keeps its transactions in a map in memory (transactionStore.js).  *)
(*                                                                         *)
(* RefundOrder looks at the row, asks payment for the refund and saves the *)
(* row: three steps, with nothing that holds them together.  Every remote  *)
(* step succeeds, fails, or is given up (a lost answer, a cancelled call,  *)
(* a stop of the order service) and then takes effect later or never.      *)
(* Payment can restart at any time and forgets every transaction; a job of *)
(* the database deletes old orders.                                        *)
(***************************************************************************)
EXTENDS Naturals

CONSTANTS Orders,   \* each stands for its transaction id too
          Calls,    \* RefundOrder calls
          Queries   \* GetOrder calls

VARIABLES
    row,           \* order_status in the accounting database
    transactions,  \* payment's map: the status of a transaction
    charged,       \* orders whose card was charged
    pc, asked,     \* a RefundOrder call: where it stands, which order it is for
    own,           \* whether it gives the e-mail address of that order
    reply,         \* what it answered
    underway,      \* calls whose refund or save was given up and may still happen
    place, about,  \* a GetOrder call: where it stands, which order it is for
    answer,        \* its detail.Status
    granted,       \* history: calls whose refund payment carried out
    saved,         \* history: calls whose save took effect
    gone,          \* history: those of which the row was deleted since
    before,        \* history: <<c, d>>: call c was over when d looked at the row
    known          \* history: refunds granted, and saved, when a query began

refunds == <<pc, asked, own, reply>>
queries == <<place, about, answer, known>>
vars == <<row, transactions, charged, refunds, underway, queries, granted, saved, before, gone>>

NoOrder == "no order"

Over == {c \in Calls : pc[c] = "done" /\ underway[c] = {}}

Init ==
    /\ row = [o \in Orders |-> "none"]
    /\ transactions = [o \in Orders |-> "none"]
    /\ charged = {}
    /\ pc = [c \in Calls |-> "idle"]
    /\ asked = [c \in Calls |-> NoOrder]
    /\ own = [c \in Calls |-> FALSE]
    /\ reply = [c \in Calls |-> "none"]
    /\ underway = [c \in Calls |-> {}]
    /\ place = [q \in Queries |-> "idle"]
    /\ about = [q \in Queries |-> NoOrder]
    /\ answer = [q \in Queries |-> "none"]
    /\ granted = {} /\ saved = {} /\ before = {} /\ gone = {}
    /\ known = [q \in Queries |-> [granted |-> {}, saved |-> {}]]

-----------------------------------------------------------------------------
\* payment/charge.js, called by PlaceOrder.
Charge(o) ==
    /\ o \notin charged
    /\ charged' = charged \cup {o}
    /\ transactions' = [transactions EXCEPT ![o] = "charged"]
    /\ UNCHANGED <<row, refunds, underway, queries, granted, saved, before, gone>>

\* Mutant: a replayed message writes the row again.
RecordAgain(o) ==
    /\ o \in charged
    /\ row' = [row EXCEPT ![o] = "completed"]
    /\ UNCHANGED <<transactions, charged, refunds, underway, queries, granted, saved, before, gone>>

\* The consumer inserts the row, status "completed", unless there is one.
Record(o) ==
    /\ o \in charged /\ row[o] = "none"
    /\ row' = [row EXCEPT ![o] = "completed"]
    /\ UNCHANGED <<transactions, charged, refunds, underway, queries, granted, saved, before, gone>>

For(calls, o) == {c \in calls : asked[c] = o}

\* The hourly job expire-orders, two days after the row was written; there is no clock
\* here, so at any time after it.
Expire(o) ==
    /\ row[o] # "none"
    /\ row' = [row EXCEPT ![o] = "none"]
    /\ gone' = gone \cup For(saved, o)
    /\ UNCHANGED <<transactions, charged, refunds, underway, queries, granted, saved, before>>

\* The payment pod restarts; refunds it was asked for are dropped.
RestartPayment ==
    /\ charged # {}
    /\ transactions' = [o \in Orders |-> "none"]
    /\ underway' = [c \in Calls |-> underway[c] \ {"refund"}]
    /\ UNCHANGED <<row, charged, refunds, queries, granted, saved, before, gone>>

-----------------------------------------------------------------------------
Return(c, code) ==
    /\ pc' = [pc EXCEPT ![c] = "done"]
    /\ reply' = [reply EXCEPT ![c] = code]

Goto(c, step) == pc' = [pc EXCEPT ![c] = step] /\ UNCHANGED reply

GiveUp(c) == underway' = [underway EXCEPT ![c] = {pc[c]}]

RefundOrder(c, o, mine) ==
    /\ pc[c] = "idle"
    /\ asked' = [asked EXCEPT ![c] = o]
    /\ own' = [own EXCEPT ![c] = mine]
    /\ Goto(c, "look")
    /\ UNCHANGED <<row, transactions, charged, underway, queries, granted, saved, before, gone>>

\* Mutant: the status is not looked at.
LookAtMailOnly(c) ==
    /\ pc[c] = "look"
    /\ LET o == asked[c] IN
         \/ row[o] = "none" /\ Return(c, "NotFound")
         \/ row[o] # "none" /\ ~own[c] /\ Return(c, "PermissionDenied")
         \/ row[o] # "none" /\ own[c] /\ Goto(c, "refund")
    /\ before' = before \cup {<<d, c>> : d \in Over}
    /\ UNCHANGED <<row, transactions, charged, asked, own, underway, queries, granted, saved, gone>>

\* The row is read and checked; a read that fails ends the call.
Look(c) ==
    /\ pc[c] = "look"
    /\ LET o == asked[c] IN
         \/ row[o] = "none" /\ Return(c, "NotFound")
         \/ row[o] # "none" /\ ~own[c] /\ Return(c, "PermissionDenied")
         \/ row[o] \notin {"none", "completed"} /\ own[c] /\ Return(c, "FailedPrecondition")
         \/ row[o] = "completed" /\ own[c] /\ Goto(c, "refund")
         \/ Return(c, "failed")
    /\ before' = before \cup {<<d, c>> : d \in Over}
    /\ UNCHANGED <<row, transactions, charged, asked, own, underway, queries, granted, saved, gone>>

\* Mutant: payment does not write down the refund.
GrantUnrecorded(c) == granted' = granted \cup {c} /\ UNCHANGED transactions

\* payment/refund.js: the entry is overwritten, or made, whatever it was.
Grant(c) ==
    /\ granted' = granted \cup {c}
    /\ transactions' = [transactions EXCEPT ![asked[c]] = "refunded"]

\* Mutant: the row is saved although payment failed.
RefundErrorDropped(c) ==
    /\ pc[c] = "refund"
    /\ Grant(c) \/ UNCHANGED <<granted, transactions>>
    /\ Goto(c, "save")
    /\ UNCHANGED <<row, charged, asked, own, underway, queries, saved, before, gone>>

\* RefundAsync.  Payment declines by its failure flag alone.
Refund(c) ==
    /\ pc[c] = "refund"
    /\ \/ Grant(c) /\ Goto(c, "save") /\ UNCHANGED underway
       \/ GiveUp(c) /\ Return(c, "failed") /\ UNCHANGED <<granted, transactions>>
       \/ Return(c, "failed") /\ UNCHANGED <<granted, transactions, underway>>
    /\ UNCHANGED <<row, charged, asked, own, queries, saved, before, gone>>

Mark(c) == /\ row[asked[c]] # "none"
           /\ row' = [row EXCEPT ![asked[c]] = "refunded"]
           /\ saved' = saved \cup {c}

\* SaveChangesAsync.  It throws when the row is no longer there.
Save(c) ==
    /\ pc[c] = "save"
    /\ \/ Mark(c) /\ Return(c, "refunded") /\ UNCHANGED underway
       \/ GiveUp(c) /\ Return(c, "failed") /\ UNCHANGED <<row, saved>>
       \/ Return(c, "failed") /\ UNCHANGED <<row, saved, underway>>
    /\ UNCHANGED <<transactions, charged, asked, own, queries, granted, before, gone>>

\* What was given up takes effect.
LateRefund(c) ==
    /\ "refund" \in underway[c] /\ Grant(c)
    /\ underway' = [underway EXCEPT ![c] = {}]
    /\ UNCHANGED <<row, charged, refunds, queries, saved, before, gone>>

LateSave(c) ==
    /\ "save" \in underway[c]
    /\ \/ Mark(c)
       \/ row[asked[c]] = "none" /\ UNCHANGED <<row, saved>>
    /\ underway' = [underway EXCEPT ![c] = {}]
    /\ UNCHANGED <<transactions, charged, refunds, queries, granted, before, gone>>

-----------------------------------------------------------------------------
GetOrder(q, o) ==
    /\ place[q] = "idle"
    /\ place' = [place EXCEPT ![q] = "look"]
    /\ about' = [about EXCEPT ![q] = o]
    /\ known' = [known EXCEPT ![q] = [granted |-> granted, saved |-> saved]]
    /\ UNCHANGED <<row, transactions, charged, refunds, underway, answer, granted, saved, before, gone>>

\* The row, with its status.  No row is NotFound, and no answer.
LookUp(q) ==
    /\ place[q] = "look"
    /\ \/ /\ row[about[q]] # "none"
          /\ answer' = [answer EXCEPT ![q] = row[about[q]]]
          /\ place' = [place EXCEPT ![q] = "enrich"]
       \/ place' = [place EXCEPT ![q] = "done"] /\ UNCHANGED answer
    /\ UNCHANGED <<row, transactions, charged, refunds, underway, about, known,
                   granted, saved, before, gone>>

\* payment/paymentStatus.js.
PaymentStatus(o) == IF transactions[o] = "none" THEN "unknown" ELSE transactions[o]

\* Payment's status replaces the row's, unless payment cannot be asked.
Enrich(q) ==
    /\ place[q] = "enrich"
    /\ \/ answer' = [answer EXCEPT ![q] = PaymentStatus(about[q])]
       \/ UNCHANGED answer
    /\ place' = [place EXCEPT ![q] = "done"]
    /\ UNCHANGED <<row, transactions, charged, refunds, underway, about, known,
                   granted, saved, before, gone>>

Next == \/ \E o \in Orders : Charge(o) \/ Record(o) \/ Expire(o)
        \/ RestartPayment
        \/ \E c \in Calls, o \in Orders, mine \in BOOLEAN : RefundOrder(c, o, mine)
        \/ \E c \in Calls : Look(c) \/ Refund(c) \/ Save(c) \/ LateRefund(c) \/ LateSave(c)
        \/ \E q \in Queries, o \in Orders : GetOrder(q, o)
        \/ \E q \in Queries : LookUp(q) \/ Enrich(q)

Spec == Init /\ [][Next]_vars
-----------------------------------------------------------------------------
TypeOK ==
    /\ row \in [Orders -> {"none", "completed", "refunded"}]
    /\ transactions \in [Orders -> {"none", "charged", "refunded"}]
    /\ charged \subseteq Orders
    /\ pc \in [Calls -> {"idle", "look", "refund", "save", "done"}]
    /\ asked \in [Calls -> Orders \cup {NoOrder}]
    /\ \A c \in Calls : pc[c] # "idle" => asked[c] \in Orders
    /\ own \in [Calls -> BOOLEAN]
    /\ reply \in [Calls -> {"none", "NotFound", "PermissionDenied", "FailedPrecondition",
                            "failed", "refunded"}]
    /\ underway \in [Calls -> SUBSET {"refund", "save"}]
    /\ \A c \in Calls : underway[c] # {} => pc[c] = "done"
    /\ place \in [Queries -> {"idle", "look", "enrich", "done"}]
    /\ about \in [Queries -> Orders \cup {NoOrder}]
    /\ \A q \in Queries : place[q] # "idle" => about[q] \in Orders
    /\ answer \in [Queries -> {"none", "completed", "charged", "refunded", "unknown"}]
    /\ granted \subseteq Calls /\ saved \subseteq Calls /\ gone \subseteq Calls
    /\ before \subseteq Calls \X Calls
    /\ known \in [Queries -> [granted : SUBSET Calls, saved : SUBSET Calls]]

\* What RefundOrder answers is true: "refunded" means that payment gave the money
\* back and the order says so, then and for as long as its row is kept; a refusal means
\* that this call moved no money.  Only "failed" tells nothing.
ReplyTellsRefund ==
    \A c \in Calls :
        /\ reply[c] = "refunded" => /\ c \in granted
                                    /\ row[asked[c]] = "refunded" \/ c \in gone
        /\ reply[c] \in {"NotFound", "PermissionDenied", "FailedPrecondition"} => c \notin granted

\* The money goes back only to who named the order's e-mail address, for a paid
\* order; and an order says "refunded" only if its money went back.
RefundsAreOwned ==
    /\ \A c \in granted : own[c] /\ asked[c] \in charged
    /\ \A o \in Orders : row[o] = "refunded" => For(granted, o) # {}

\* One call after another, the money goes back a second time only if the first
\* call's save came to nothing (the refund and the save are not atomic), or its row was
\* deleted and the order recorded anew.
RefundedAgainOnlyUnsaved ==
    \A c, d \in granted :
        <<c, d>> \in before /\ asked[c] = asked[d] => c \notin saved \/ c \in gone

\* GetOrder tells nothing that was over when it was asked: not "charged" after the
\* money went back, not "completed" after a refund was saved in the row, although it reads two
\* services one after the other, and one of them forgets.
StatusIsNotStale ==
    \A q \in Queries : place[q] = "done" =>
        /\ answer[q] = "charged" => For(known[q].granted, about[q]) = {}
        /\ answer[q] = "completed" => For(known[q].saved \ gone, about[q]) = {}
        /\ answer[q] = "refunded" => For(granted, about[q]) # {}

\* The status of an order is "completed", "charged" or "refunded" (pb/openapi.yaml).
StatusIsDocumented ==
    \A q \in Queries : place[q] = "done" =>
        answer[q] \in {"none", "completed", "charged", "refunded"}
=============================================================================
