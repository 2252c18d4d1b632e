-------------------------- MODULE EvalWorkerProofs --------------------------
(***************************************************************************)
(* EvalWorker for any number of workers, partitions, messages, spans and   *)
(* judges and any sample rate: types, which messages leave logs, how often *)
(* a span is logged, and which messages commits pass.                      *)
(***************************************************************************)
EXTENDS EvalWorker, TLAPS

\* A message that is handled is the one its worker has got to.
JobInv ==
    \A w \in Workers, p \in Partitions :
        \/ job[w][p] = Idle
        \/ /\ job[w][p].at = position[w][p]
           /\ job[w][p].at \in Offsets
           /\ job[w][p].drawn \subseteq SpansAt(p, job[w][p].at)

\* The owner of a partition is past what is committed and what it still has to commit,
\* and what it passed since the group's offset was handled.
OwnerInv ==
    \A p \in Partitions, w \in Workers : owner[p] = w =>
        /\ committed[p] <= position[w][p]
        /\ \A o \in uncommitted[p] : o < position[w][p]
        /\ committed[p] # NoOffset =>
              \A o \in Offsets : committed[p] <= o /\ o < position[w][p] => o \in handled[p]

EvalInv == TypeOK /\ JobInv /\ OwnerInv /\ NoLogOfAFailedMessage /\ LoggedTwiceOnlyByRedelivery

LEMMA InitInv == Init => EvalInv
<1> SUFFICES ASSUME Init PROVE EvalInv OBVIOUS
<1> USE BoundsAssumption, WorkersAssumption DEF Init, NoOffset, Offsets, Idle
<1>1. TypeOK BY DEF TypeOK
<1>2. JobInv BY DEF JobInv
<1>3. OwnerInv BY DEF OwnerInv
<1>4. NoLogOfAFailedMessage BY SpansAssumption DEF NoLogOfAFailedMessage
<1>5. LoggedTwiceOnlyByRedelivery BY SpansAssumption DEF LoggedTwiceOnlyByRedelivery, Kept
<1> QED BY <1>1, <1>2, <1>3, <1>4, <1>5 DEF EvalInv

LEMMA ProduceInv == ASSUME EvalInv, NEW p \in Partitions, Produce(p) PROVE EvalInv'
<1> USE BoundsAssumption DEF EvalInv, Produce, history
<1>1. TypeOK' BY DEF TypeOK
<1>2. JobInv' BY DEF JobInv
<1>3. OwnerInv' BY DEF OwnerInv
<1>4. NoLogOfAFailedMessage' BY DEF NoLogOfAFailedMessage
<1>5. LoggedTwiceOnlyByRedelivery' BY DEF LoggedTwiceOnlyByRedelivery, Kept
<1> QED BY <1>1, <1>2, <1>3, <1>4, <1>5

\* What was handled and is committed no more counts among the orphans.
LEMMA AssignInv ==
    ASSUME EvalInv, NEW w \in Workers, NEW p \in Partitions, Assign(w, p)
    PROVE  EvalInv'
<1> USE BoundsAssumption DEF EvalInv, Assign, Disown
<1>1. TypeOK'
  <2>1. position' \in [Workers -> [Partitions -> 0 .. MaxLog]]
    <3>1. (IF committed[p] = NoOffset THEN available[p] ELSE committed[p]) \in 0 .. MaxLog
      BY DEF TypeOK
    <3> QED BY <3>1 DEF TypeOK
  <2>2. orphans' \in [Partitions -> [Offsets -> Nat]]
    <3>1. [o \in Offsets |-> orphans[p][o] + (IF o \in uncommitted[p] THEN 1 ELSE 0)]
              \in [Offsets -> Nat]
      BY DEF TypeOK
    <3> QED BY <3>1 DEF TypeOK
  <2>3. /\ owner' \in [Partitions -> Workers \cup {NoWorker}]
        /\ session' \in [Workers -> SUBSET Partitions]
        /\ uncommitted' \in [Partitions -> SUBSET Offsets]
    BY DEF TypeOK
  <2>4. disruptions' \in 0 .. MaxDisruptions BY DEF TypeOK
  <2> QED BY <2>1, <2>2, <2>3, <2>4 DEF TypeOK
<1>2. JobInv' BY DEF JobInv, TypeOK
<1>3. OwnerInv'
  <2> SUFFICES ASSUME NEW q \in Partitions, NEW v \in Workers, owner'[q] = v
               PROVE  /\ committed'[q] <= position'[v][q]
                      /\ \A o \in uncommitted'[q] : o < position'[v][q]
                      /\ committed'[q] # NoOffset =>
                            \A o \in Offsets : committed'[q] <= o /\ o < position'[v][q]
                                                  => o \in handled'[q]
    BY DEF OwnerInv
  <2>1. CASE q = p
    <3>1. v = w /\ uncommitted'[p] = {} /\ committed'[p] = committed[p]
      BY <2>1 DEF TypeOK
    <3>2. position'[w][p] = IF committed[p] = NoOffset THEN available[p] ELSE committed[p]
      BY DEF TypeOK
    <3> QED BY <2>1, <3>1, <3>2 DEF TypeOK, NoOffset, Offsets
  <2>2. CASE q # p
    <3>1. owner[q] = v /\ uncommitted'[q] = uncommitted[q] /\ position'[v][q] = position[v][q]
      BY <2>2 DEF TypeOK
    <3> QED BY <3>1 DEF OwnerInv
  <2> QED BY <2>1, <2>2
<1>4. NoLogOfAFailedMessage' BY DEF NoLogOfAFailedMessage
<1>5. LoggedTwiceOnlyByRedelivery'
  <2> SUFFICES ASSUME NEW q \in Partitions, NEW o \in Offsets, NEW s \in SpansAt(q, o)
               PROVE  emitted'[s] <= orphans'[q][o] + Kept(q, o)'
    BY DEF LoggedTwiceOnlyByRedelivery
  <2>1. emitted[s] <= orphans[q][o] + Kept(q, o) BY DEF LoggedTwiceOnlyByRedelivery
  <2>2. emitted[s] \in Nat /\ orphans[q][o] \in Nat BY SpansAssumption DEF TypeOK
  <2>3. CASE q = p
    <3>1. orphans'[p][o] = orphans[p][o] + (IF o \in uncommitted[p] THEN 1 ELSE 0)
      BY DEF TypeOK
    <3> QED BY <2>1, <2>2, <2>3, <3>1 DEF TypeOK, Kept
  <2>4. CASE q # p
    <3>1. orphans'[q] = orphans[q] /\ uncommitted'[q] = uncommitted[q] BY <2>4 DEF TypeOK
    <3> QED BY <2>1, <2>2, <3>1 DEF Kept
  <2> QED BY <2>3, <2>4
<1> QED BY <1>1, <1>2, <1>3, <1>4, <1>5

LEMMA ToldInv ==
    ASSUME EvalInv, NEW w \in Workers, NEW p \in Partitions, Told(w, p)
    PROVE  EvalInv'
<1> USE DEF EvalInv, Told, group, history
<1>1. TypeOK' BY DEF TypeOK
<1>2. JobInv' BY DEF JobInv
<1>3. OwnerInv' BY DEF OwnerInv
<1>4. NoLogOfAFailedMessage' BY DEF NoLogOfAFailedMessage
<1>5. LoggedTwiceOnlyByRedelivery' BY DEF LoggedTwiceOnlyByRedelivery, Kept
<1> QED BY <1>1, <1>2, <1>3, <1>4, <1>5

LEMMA CrashInv == ASSUME EvalInv, NEW w \in Workers, Crash(w) PROVE EvalInv'
<1> USE BoundsAssumption DEF EvalInv, Crash
<1>1. TypeOK'
  <2>1. disruptions' \in 0 .. MaxDisruptions BY DEF TypeOK
  <2>2. session' \in [Workers -> SUBSET Partitions] BY DEF TypeOK
  <2>3. job' \in [Workers -> [Partitions ->
            [at : {NoOffset} \cup Offsets, drawn : SUBSET Spans,
             running : SUBSET (Spans \X Scorers), failed : SUBSET Spans]]]
    <3>1. Idle \in [at : {NoOffset} \cup Offsets, drawn : SUBSET Spans,
                    running : SUBSET (Spans \X Scorers), failed : SUBSET Spans]
      BY DEF Idle
    <3> QED BY <3>1 DEF TypeOK
  <2>4. owner' \in [Partitions -> Workers \cup {NoWorker}] BY DEF TypeOK
  <2>5. uncommitted' \in [Partitions -> SUBSET Offsets] BY DEF TypeOK
  <2>6. orphans' \in [Partitions -> [Offsets -> Nat]]
    <3>1. \A q \in Partitions, o \in Offsets :
              orphans[q][o] + (IF owner[q] = w /\ o \in uncommitted[q] THEN 1 ELSE 0) \in Nat
      BY DEF TypeOK
    <3> QED BY <3>1
  <2> QED BY <2>1, <2>2, <2>3, <2>4, <2>5, <2>6 DEF TypeOK
<1>2. JobInv' BY DEF JobInv, TypeOK
<1>3. OwnerInv' BY WorkersAssumption DEF OwnerInv, TypeOK
<1>4. NoLogOfAFailedMessage' BY DEF NoLogOfAFailedMessage
<1>5. LoggedTwiceOnlyByRedelivery'
  <2> SUFFICES ASSUME NEW q \in Partitions, NEW o \in Offsets, NEW s \in SpansAt(q, o)
               PROVE  emitted'[s] <= orphans'[q][o] + Kept(q, o)'
    BY DEF LoggedTwiceOnlyByRedelivery
  <2>1. emitted[s] <= orphans[q][o] + Kept(q, o) BY DEF LoggedTwiceOnlyByRedelivery
  <2>2. emitted[s] \in Nat /\ orphans[q][o] \in Nat BY SpansAssumption DEF TypeOK
  <2>3. orphans'[q][o] =
            orphans[q][o] + (IF owner[q] = w /\ o \in uncommitted[q] THEN 1 ELSE 0)
    OBVIOUS
  <2>4. uncommitted'[q] = IF owner[q] = w THEN {} ELSE uncommitted[q]
    OBVIOUS
  <2> QED BY <2>1, <2>2, <2>3, <2>4 DEF Kept
<1> QED BY <1>1, <1>2, <1>3, <1>4, <1>5

\* A judge's answer touches neither the message nor what was drawn of it.
LEMMA SettleInv ==
    ASSUME EvalInv, NEW w \in Workers, NEW p \in Partitions, NEW s \in Spans, NEW k \in Scorers,
           NEW ok \in BOOLEAN, Settle(w, p, s, k, ok)
    PROVE  EvalInv'
<1> USE DEF EvalInv, Settle, group, history
<1> DEFINE Jobs == [at : {NoOffset} \cup Offsets, drawn : SUBSET Spans,
                    running : SUBSET (Spans \X Scorers), failed : SUBSET Spans]
           j == job[w][p]
           new == [j EXCEPT !.running = @ \ {<<s, k>>},
                            !.failed = IF ok THEN @ ELSE @ \cup {s}]
<1>0. job \in [Workers -> [Partitions -> Jobs]] BY DEF TypeOK
<1>1. new \in Jobs /\ new.at = j.at /\ new.drawn = j.drawn
  <2>1. j \in Jobs BY <1>0
  <2> HIDE DEF j
  <2>2. (IF ok THEN j.failed ELSE j.failed \cup {s}) \in SUBSET Spans BY <2>1
  <2> QED BY <2>1, <2>2
<1>2. job' = [job EXCEPT ![w][p] = new] BY <1>0
<1>a. UNCHANGED <<attrs, group, session, position, emitted, disruptions, history>> OBVIOUS
<1>b. j # Idle BY DEF Idle
<1> HIDE DEF new, Settle
<1>3. TypeOK' BY <1>a, <1>1, <1>2 DEF TypeOK
<1>4. JobInv' BY <1>a, <1>b, <1>1, <1>2 DEF JobInv, TypeOK
<1>5. OwnerInv' BY <1>a DEF OwnerInv
<1>6. NoLogOfAFailedMessage' BY <1>a DEF NoLogOfAFailedMessage
<1>7. LoggedTwiceOnlyByRedelivery' BY <1>a DEF LoggedTwiceOnlyByRedelivery, Kept
<1> QED BY <1>3, <1>4, <1>5, <1>6, <1>7

LEMMA DeliverInv ==
    ASSUME EvalInv, NEW w \in Workers, NEW p \in Partitions, NEW drawn \in SUBSET Spans,
           Deliver(w, p, drawn)
    PROVE  EvalInv'
<1> USE BoundsAssumption DEF EvalInv, Deliver, group, history
<1> DEFINE scored == {s \in drawn : Verdict(attrs[s]) = "score"}
           new == [at |-> position[w][p], drawn |-> scored, running |-> scored \X Scorers,
                   failed |-> {s \in drawn : Verdict(attrs[s]) = "throw"}]
<1>1. position[w][p] \in Offsets BY DEF TypeOK, Offsets
<1>2. scored \subseteq SpansAt(p, position[w][p])
  <2>1. drawn \subseteq SpansAt(p, position[w][p]) BY DEF Draws
  <2> QED BY <2>1
<1>3. /\ new \in [at : {NoOffset} \cup Offsets, drawn : SUBSET Spans,
                  running : SUBSET (Spans \X Scorers), failed : SUBSET Spans]
      /\ new.at = position[w][p] /\ new.drawn = scored
  BY <1>1
<1>4. job' = [job EXCEPT ![w][p] = new] OBVIOUS
<1> HIDE DEF new, scored
<1>5. TypeOK' BY <1>3, <1>4 DEF TypeOK
<1>6. JobInv' BY <1>1, <1>2, <1>3, <1>4 DEF JobInv, TypeOK
<1>7. OwnerInv' BY DEF OwnerInv
<1>8. NoLogOfAFailedMessage' BY DEF NoLogOfAFailedMessage
<1>9. LoggedTwiceOnlyByRedelivery' BY DEF LoggedTwiceOnlyByRedelivery, Kept
<1> QED BY <1>5, <1>6, <1>7, <1>8, <1>9

LEMMA AbortInv ==
    ASSUME EvalInv, NEW w \in Workers, NEW p \in Partitions, Abort(w, p)
    PROVE  EvalInv'
<1> USE DEF EvalInv, Abort, group, history
<1>1. TypeOK' BY DEF TypeOK, Idle
<1>2. JobInv' BY DEF JobInv, TypeOK
<1>3. OwnerInv' BY DEF OwnerInv
<1>4. NoLogOfAFailedMessage' BY DEF NoLogOfAFailedMessage
<1>5. LoggedTwiceOnlyByRedelivery' BY DEF LoggedTwiceOnlyByRedelivery, Kept
<1> QED BY <1>1, <1>2, <1>3, <1>4, <1>5

\* What the owner commits is what it has got to.
LEMMA CommitInv ==
    ASSUME EvalInv, NEW w \in Workers, NEW p \in Partitions, Commit(w, p)
    PROVE  EvalInv'
<1> USE DEF EvalInv, Commit
<1>1. TypeOK' BY DEF TypeOK
<1>2. JobInv' BY DEF JobInv
<1>3. OwnerInv'
  <2>1. /\ committed'[p] = position[w][p] /\ uncommitted'[p] = {} /\ position[w][p] \in Int
        /\ Offsets \subseteq Int
    BY BoundsAssumption DEF TypeOK, Offsets
  <2>2. \A q \in Partitions \ {p} : committed'[q] = committed[q] /\ uncommitted'[q] = uncommitted[q]
    BY DEF TypeOK
  <2>3. ASSUME NEW v \in Workers, owner'[p] = v PROVE v = w
    BY <2>3
  <2> QED BY <2>1, <2>2, <2>3 DEF OwnerInv
<1>4. NoLogOfAFailedMessage' BY DEF NoLogOfAFailedMessage
<1>5. LoggedTwiceOnlyByRedelivery'
  <2> SUFFICES ASSUME NEW q \in Partitions, NEW o \in Offsets, NEW s \in SpansAt(q, o)
               PROVE  emitted'[s] <= orphans'[q][o] + Kept(q, o)'
    BY DEF LoggedTwiceOnlyByRedelivery
  <2>1. emitted[s] <= orphans[q][o] + Kept(q, o) BY DEF LoggedTwiceOnlyByRedelivery
  <2>2. committed[p] <= position[w][p] /\ \A n \in uncommitted[p] : n < position[w][p]
    BY DEF OwnerInv
  <2>3. emitted[s] \in Nat /\ orphans[q][o] \in Nat BY SpansAssumption DEF TypeOK
  <2>4. CASE q = p
    <3>1. committed'[p] = position[w][p] /\ uncommitted'[p] = {} BY DEF TypeOK
    <3>2. /\ committed[p] \in Int /\ position[w][p] \in Int
          /\ uncommitted[p] \subseteq Int /\ o \in Int
      BY BoundsAssumption DEF TypeOK, NoOffset, Offsets
    <3>3. o \in uncommitted[p] \/ o < committed[p] => o < position[w][p] BY <2>2, <3>2
    <3> QED BY <2>1, <2>3, <2>4, <3>1, <3>3 DEF Kept
  <2>5. CASE q # p
    <3>1. committed'[q] = committed[q] /\ uncommitted'[q] = uncommitted[q]
      BY <2>5 DEF TypeOK
    <3> QED BY <2>1, <3>1 DEF Kept
  <2> QED BY <2>4, <2>5
<1> QED BY <1>1, <1>2, <1>3, <1>4, <1>5

\* The owner that finishes a message had not handled it since it got the partition.
LEMMA FinishInv ==
    ASSUME EvalInv, NEW w \in Workers, NEW p \in Partitions, Finish(w, p)
    PROVE  EvalInv'
<1> USE BoundsAssumption DEF EvalInv, Finish, EmitEvalLogs, group
<1> DEFINE at == job[w][p].at
           drawn == job[w][p].drawn
<1>0. /\ at \in Offsets /\ at = position[w][p] /\ drawn \subseteq SpansAt(p, at)
      /\ drawn \subseteq Spans
  BY SpansAssumption DEF JobInv, Idle
<1>a. /\ handled' = [handled EXCEPT ![p] = @ \cup {at}]
      /\ position' = [position EXCEPT ![w][p] = at + 1]
      /\ emitted' = [s \in Spans |-> emitted[s] + (IF s \in drawn THEN 1 ELSE 0)]
      /\ job' = [job EXCEPT ![w][p] = Idle]
      /\ \/ /\ owner[p] = w /\ orphans' = orphans
            /\ uncommitted' = [uncommitted EXCEPT ![p] = @ \cup {at}]
         \/ /\ owner[p] # w /\ uncommitted' = uncommitted
            /\ orphans' = [orphans EXCEPT ![p][at] = @ + 1]
      /\ UNCHANGED <<attrs, available, committed, owner, session, disruptions>>
  OBVIOUS
<1>b. uncommitted' \in {uncommitted, [uncommitted EXCEPT ![p] = @ \cup {at}]}
  BY <1>a
<1>c. orphans' \in {orphans, [orphans EXCEPT ![p] = [orphans[p] EXCEPT ![at] = orphans[p][at] + 1]]}
  BY <1>a DEF TypeOK
<1> HIDE DEF Finish, EmitEvalLogs, at, drawn
<1>1. TypeOK'
  <2>1. position' \in [Workers -> [Partitions -> 0 .. MaxLog]]
    <3>1. at + 1 \in 0 .. MaxLog BY <1>0 DEF Offsets
    <3> QED BY <1>a, <3>1 DEF TypeOK
  <2>2. emitted' \in [Spans -> Nat] BY <1>a DEF TypeOK
  <2>3. handled' \in [Partitions -> SUBSET Offsets] BY <1>0, <1>a DEF TypeOK
  <2>4. job' \in [Workers -> [Partitions ->
                     [at : {NoOffset} \cup Offsets, drawn : SUBSET Spans,
                      running : SUBSET (Spans \X Scorers), failed : SUBSET Spans]]]
    BY <1>a DEF TypeOK, Idle
  <2>5. uncommitted' \in [Partitions -> SUBSET Offsets]
    <3>1. uncommitted[p] \cup {at} \in SUBSET Offsets BY <1>0 DEF TypeOK
    <3>2. [uncommitted EXCEPT ![p] = @ \cup {at}] \in [Partitions -> SUBSET Offsets]
      BY <3>1 DEF TypeOK
    <3> QED BY <1>b, <3>2 DEF TypeOK
  <2>6. orphans' \in [Partitions -> [Offsets -> Nat]]
    <3>1. [orphans[p] EXCEPT ![at] = orphans[p][at] + 1] \in [Offsets -> Nat]
      BY <1>0 DEF TypeOK
    <3> QED BY <1>c, <3>1 DEF TypeOK
  <2> QED BY <1>a, <2>1, <2>2, <2>3, <2>4, <2>5, <2>6 DEF TypeOK
<1>2. JobInv' BY <1>a DEF JobInv, TypeOK
<1>3. OwnerInv'
  <2> SUFFICES ASSUME NEW q \in Partitions, NEW v \in Workers, owner'[q] = v
               PROVE  /\ committed'[q] <= position'[v][q]
                      /\ \A o \in uncommitted'[q] : o < position'[v][q]
                      /\ committed'[q] # NoOffset =>
                            \A o \in Offsets : committed'[q] <= o /\ o < position'[v][q]
                                                  => o \in handled'[q]
    BY DEF OwnerInv
  <2>1. /\ committed[q] <= position[v][q]
        /\ \A o \in uncommitted[q] : o < position[v][q]
        /\ committed[q] # NoOffset =>
              \A o \in Offsets : committed[q] <= o /\ o < position[v][q] => o \in handled[q]
    BY <1>a DEF OwnerInv
  <2>2. /\ committed[q] \in Int /\ position[v][q] \in Int /\ at \in Int
        /\ uncommitted[q] \subseteq Int /\ Offsets \subseteq Int
    BY <1>0 DEF TypeOK, Offsets, NoOffset
  <2>3. handled[q] \subseteq handled'[q] BY <1>a DEF TypeOK
  <2>4. CASE q = p /\ v = w
    <3>1. /\ position'[v][q] = at + 1 /\ position[v][q] = at
          /\ uncommitted'[q] = uncommitted[q] \cup {at} /\ at \in handled'[q]
      BY <1>0, <1>a, <2>4 DEF TypeOK
    <3> QED BY <1>a, <2>1, <2>2, <2>3, <3>1
  <2>5. CASE ~(q = p /\ v = w)
    <3>1. position'[v][q] = position[v][q] /\ uncommitted'[q] = uncommitted[q]
      BY <1>a, <2>5 DEF TypeOK
    <3> QED BY <1>a, <2>1, <2>3, <3>1
  <2> QED BY <2>4, <2>5
<1>4. NoLogOfAFailedMessage'
  <2> SUFFICES ASSUME NEW q \in Partitions, NEW o \in Offsets, NEW s \in SpansAt(q, o),
                      emitted'[s] > 0
               PROVE  o \in handled'[q]
    BY DEF NoLogOfAFailedMessage
  <2>1. s \in Spans /\ emitted[s] \in Nat BY SpansAssumption DEF TypeOK
  <2>2. CASE s \in drawn
    <3>1. q = p /\ o = at BY <1>0, <2>2, SpansAssumption
    <3> QED BY <1>a, <3>1 DEF TypeOK
  <2>3. CASE s \notin drawn
    <3>1. emitted[s] > 0 BY <1>a, <2>1, <2>3
    <3> QED BY <1>a, <3>1 DEF NoLogOfAFailedMessage, TypeOK
  <2> QED BY <2>2, <2>3
<1>5. LoggedTwiceOnlyByRedelivery'
  <2> SUFFICES ASSUME NEW q \in Partitions, NEW o \in Offsets, NEW s \in SpansAt(q, o)
               PROVE  emitted'[s] <= orphans'[q][o] + Kept(q, o)'
    BY DEF LoggedTwiceOnlyByRedelivery
  <2>1. emitted[s] <= orphans[q][o] + Kept(q, o) BY DEF LoggedTwiceOnlyByRedelivery
  <2>2. s \in Spans /\ emitted[s] \in Nat /\ orphans[q][o] \in Nat
    BY SpansAssumption DEF TypeOK
  <2>3. orphans[q][o] <= orphans'[q][o] /\ orphans'[q][o] \in Nat
    <3>1. CASE q # p
      <4>1. orphans'[q] = orphans[q] BY <1>c, <3>1 DEF TypeOK
      <4> QED BY <2>2, <4>1
    <3>2. CASE q = p
      <4>1. orphans'[p] \in {orphans[p], [orphans[p] EXCEPT ![at] = orphans[p][at] + 1]}
        BY <1>c DEF TypeOK
      <4>2. orphans[p] \in [Offsets -> Nat] BY DEF TypeOK
      <4>3. orphans'[p][o] = orphans[p][o] \/ orphans'[p][o] = orphans[p][o] + 1
        BY <4>1, <4>2
      <4> QED BY <2>2, <3>2, <4>3
    <3> QED BY <3>1, <3>2
  <2>4. uncommitted[q] \subseteq uncommitted'[q] /\ committed' = committed
    BY <1>a DEF TypeOK
  <2>5. CASE s \notin drawn
    <3>1. emitted'[s] = emitted[s] BY <1>a, <2>2, <2>5
    <3> QED BY <2>1, <2>2, <2>3, <2>4, <3>1 DEF Kept
  <2>6. CASE s \in drawn
    <3>1. q = p /\ o = at /\ emitted'[s] = emitted[s] + 1
      BY <1>0, <1>a, <2>2, <2>6, SpansAssumption
    <3>2. CASE owner[p] = w
      <4>1. /\ committed[p] <= position[w][p]
            /\ \A n \in uncommitted[p] : n < position[w][p]
        BY <3>2 DEF OwnerInv
      <4>2. committed[p] \in Int /\ at \in Int BY <1>0 DEF TypeOK, Offsets, NoOffset
      <4>3. Kept(q, o) = 0 BY <1>0, <3>1, <4>1, <4>2 DEF Kept
      <4>4. at \in uncommitted'[p] BY <1>a, <3>2 DEF TypeOK
      <4>5. Kept(q, o)' = 1 BY <3>1, <4>4 DEF Kept
      <4> QED BY <2>1, <2>2, <2>3, <3>1, <4>3, <4>5
    <3>3. CASE owner[p] # w
      <4>1. orphans'[q][o] = orphans[q][o] + 1 /\ uncommitted' = uncommitted
        BY <1>a, <3>1, <3>3 DEF TypeOK
      <4> QED BY <2>1, <2>2, <2>4, <3>1, <4>1 DEF Kept
    <3> QED BY <3>2, <3>3
  <2> QED BY <2>5, <2>6
<1> QED BY <1>1, <1>2, <1>3, <1>4, <1>5

LEMMA StutterInv == EvalInv /\ UNCHANGED vars => EvalInv'
<1> SUFFICES ASSUME EvalInv, UNCHANGED vars PROVE EvalInv' OBVIOUS
<1> USE DEF EvalInv, vars, group, history
<1>1. TypeOK' BY DEF TypeOK
<1>2. JobInv' BY DEF JobInv
<1>3. OwnerInv' BY DEF OwnerInv
<1>4. NoLogOfAFailedMessage' BY DEF NoLogOfAFailedMessage
<1>5. LoggedTwiceOnlyByRedelivery' BY DEF LoggedTwiceOnlyByRedelivery, Kept
<1> QED BY <1>1, <1>2, <1>3, <1>4, <1>5

LEMMA NextInv == EvalInv /\ [Next]_vars => EvalInv'
<1> SUFFICES ASSUME EvalInv, [Next]_vars PROVE EvalInv' OBVIOUS
<1>1. CASE \E p \in Partitions : Produce(p) BY <1>1, ProduceInv
<1>2. CASE \E w \in Workers : Crash(w) BY <1>2, CrashInv
<1>3. ASSUME NEW w \in Workers, NEW p \in Partitions,
             \/ Assign(w, p) \/ Told(w, p) \/ Abort(w, p) \/ Finish(w, p) \/ Commit(w, p)
             \/ \E drawn \in SUBSET Spans : Deliver(w, p, drawn)
             \/ \E s \in Spans, k \in Scorers, ok \in BOOLEAN : Settle(w, p, s, k, ok)
      PROVE  EvalInv'
  BY <1>3, AssignInv, ToldInv, AbortInv, FinishInv, CommitInv, DeliverInv, SettleInv
<1>4. CASE UNCHANGED vars BY <1>4, StutterInv
<1> QED BY <1>1, <1>2, <1>3, <1>4 DEF Next

THEOREM EvalInvariant == Spec => []EvalInv
BY InitInv, NextInv, PTL DEF Spec

-----------------------------------------------------------------------------
\* The worker's state has its types.
THEOREM TypeCorrect == Spec => []TypeOK
<1>1. EvalInv => TypeOK BY DEF EvalInv
<1> QED BY EvalInvariant, <1>1, PTL

\* "A partial-failure case never lands a log on the chatbot trace", whatever the number
\* of workers, judges and failures.
THEOREM NoPartialLogs == Spec => []NoLogOfAFailedMessage
<1>1. EvalInv => NoLogOfAFailedMessage BY DEF EvalInv
<1> QED BY EvalInvariant, <1>1, PTL

\* Each log of a span beyond the first is paid for by a handled message that was never
\* committed: its worker lost the partition, or died, in between.
THEOREM RedeliveryLogsTwice == Spec => []LoggedTwiceOnlyByRedelivery
<1>1. EvalInv => LoggedTwiceOnlyByRedelivery BY DEF EvalInv
<1> QED BY EvalInvariant, <1>1, PTL

\* The group's offset only grows, and passes only what a handler returned from.
THEOREM NothingIsSkipped == Spec => CommitsPassOnlyHandled
<1> DEFINE Passes ==
       \A p \in Partitions : committed[p] # NoOffset =>
          /\ committed'[p] >= committed[p]
          /\ \A o \in Offsets : committed[p] <= o /\ o < committed'[p] => o \in handled[p]
<1>1. ASSUME EvalInv, Next PROVE Passes
  <2>1. CASE committed' = committed
    BY <1>1, <2>1, BoundsAssumption DEF EvalInv, TypeOK, Offsets, NoOffset
  <2>2. CASE \E w \in Workers, p \in Partitions : Commit(w, p)
    <3>1. PICK w \in Workers, p \in Partitions : Commit(w, p) BY <2>2
    <3>2. /\ committed[p] <= position[w][p]
          /\ committed[p] # NoOffset =>
                \A o \in Offsets : committed[p] <= o /\ o < position[w][p] => o \in handled[p]
      BY <1>1, <3>1 DEF EvalInv, OwnerInv, Commit
    <3>3. committed \in [Partitions -> {NoOffset} \cup 0 .. MaxLog]
          /\ position[w][p] \in 0 .. MaxLog
      BY <1>1 DEF EvalInv, TypeOK
    <3>4. committed'[p] = position[w][p] /\ \A q \in Partitions \ {p} : committed'[q] = committed[q]
      BY <3>1, <3>3 DEF Commit
    <3>5. \A q \in Partitions \ {p} : committed'[q] >= committed[q]
      BY <3>3, <3>4, BoundsAssumption DEF NoOffset
    <3> QED BY <3>2, <3>3, <3>4, <3>5, BoundsAssumption DEF Offsets, NoOffset
  <2>3. committed' = committed \/ \E w \in Workers, p \in Partitions : Commit(w, p)
    <3>1. CASE \E p \in Partitions : Produce(p) BY <3>1 DEF Produce
    <3>2. CASE \E w \in Workers : Crash(w) BY <3>2 DEF Crash
    <3>3. ASSUME NEW w \in Workers, NEW p \in Partitions,
                 Assign(w, p) \/ Told(w, p) \/ Abort(w, p) \/ Finish(w, p)
          PROVE  committed' = committed
      BY <3>3, Zenon DEF Assign, Told, Abort, Finish, group
    <3>4. ASSUME NEW w \in Workers, NEW p \in Partitions, NEW drawn, Deliver(w, p, drawn)
          PROVE  committed' = committed
      BY <3>4, Zenon DEF Deliver, group
    <3>5. ASSUME NEW w \in Workers, NEW p \in Partitions, NEW s, NEW k, NEW ok,
                 Settle(w, p, s, k, ok)
          PROVE  committed' = committed
      BY <3>5, Zenon DEF Settle, group
    <3> QED BY <1>1, <3>1, <3>2, <3>3, <3>4, <3>5 DEF Next
  <2> QED BY <2>1, <2>2, <2>3
<1>2. EvalInv /\ [Next]_vars => [Passes]_vars
  BY <1>1
<1> QED BY EvalInvariant, <1>2, PTL DEF Spec, CommitsPassOnlyHandled
=============================================================================
