----------------------------- MODULE EvalWorker -----------------------------
(***************************************************************************)
(* llm-evals: workers of one Kafka consumer group score the chat spans of  *)
(* the messages of topic llm-evals-spans with three LLM judges and write   *)
(* one log per judge on the trace of the chat.                             *)
(*                                                                         *)
(* A message is a set of spans; one without a value or that is not JSON    *)
(* holds none, and one that is JSON but no OTLP object makes the handler   *)
(* throw before a span is drawn, whenever it is handed out.  kafkajs is external and modelled from how the worker uses  *)
(* it: it hands a worker the messages of its partitions in order, commits  *)
(* the offset after handlers that returned, and hands the message out      *)
(* again after one that threw.  A worker that loses a partition goes on    *)
(* with it until it is told, because the heartbeats sent while the judges  *)
(* run ignore errors; what it commits then is refused.                     *)
(*                                                                         *)
(* Left out: the spans of the evaluation's own trace, which the code lets  *)
(* repeat, and the judges' calls that go on after their message failed.    *)
(***************************************************************************)
EXTENDS Integers

CONSTANTS Workers,         \* the pods of the deployment
          Partitions,
          Spans,
          SpansAt(_, _),   \* the spans of the message at an offset of a partition
          AttrsOf(_),      \* the attributes a span may come with
          Unwalkable,      \* messages, as partition and offset, that are JSON but no OTLP object
          SampleRate,      \* EVAL_SAMPLE_RATE: "none" (0), "some" or "all" (1)
          Scorers,         \* the judges: Bias, Hallucination and Relevance
          MaxLog,          \* bound: messages of a partition
          MaxDisruptions   \* bound: crashes and partitions moved away

Offsets  == 0 .. MaxLog - 1
NoOffset == -1
NoWorker == "nobody"

ASSUME BoundsAssumption == MaxLog \in Nat /\ MaxDisruptions \in Nat

ASSUME WorkersAssumption == NoWorker \notin Workers

\* A span belongs to one message.
ASSUME SpansAssumption ==
    /\ \A p \in Partitions, o \in Offsets : SpansAt(p, o) \subseteq Spans
    /\ \A p, q \in Partitions, o, n \in Offsets :
           SpansAt(p, o) \cap SpansAt(q, n) # {} => p = q /\ o = n

ASSUME UnwalkableAssumption ==
    /\ Unwalkable \subseteq Partitions \X Offsets
    /\ \A m \in Unwalkable : SpansAt(m[1], m[2]) = {}

VARIABLES
    attrs,        \* the attributes of each span
    available,    \* the broker: messages in each partition
    committed,    \* the broker: the group's offset in each partition
    owner,        \* the broker: the worker a partition is assigned to
    session,      \* partitions each worker believes to have
    position,     \* the offset each worker has got to in a partition
    job,          \* the message of a partition that a worker is handling: its offset,
                  \* the spans drawn, the judges that have not answered, spans that failed
    emitted,      \* times the logs of a span were written
    disruptions,
    handled,      \* history: offsets whose handler went through once, no span failing
    uncommitted,  \* history: handled by the owner and not committed yet
    orphans       \* history: how often an offset was handled and never committed

group   == <<available, committed, owner>>
history == <<handled, uncommitted, orphans>>
vars    == <<attrs, group, session, position, job, emitted, disruptions, history>>

Idle     == [at |-> NoOffset, drawn |-> {}, running |-> {}, failed |-> {}]
-----------------------------------------------------------------------------
(* What is in a message.                                                   *)

\* An attribute with messages: "absent" (or not a string), not JSON, or JSON that is
\* null, no list, a list where nobody says a thing, or a list with text.
MessageAttrs == {"absent", "garbled", "null", "object", "silent", "text"}
SpanAttrs == [toolUse : BOOLEAN, input : MessageAttrs, output : MessageAttrs]

\* runPhase1: rounds of tool use, and spans that lack a question or an answer are
\* passed over; messages that cannot be walked throw.
Verdict(a) ==
    IF a.toolUse \/ {a.input, a.output} \cap {"absent", "garbled"} # {} THEN "skip"
    ELSE IF a.input = "null" \/ a.output \in {"null", "object"} THEN "throw"
    ELSE IF a.input = "text" /\ a.output = "text" THEN "score" ELSE "skip"

\* Mutant: every span is scored.
DrawsAll(spans) == {spans}

\* Each delivery draws anew which spans it looks at.
Draws(spans) == CASE SampleRate = "none" -> {{}}
                  [] SampleRate = "all"  -> {spans}
                  [] OTHER               -> SUBSET spans
-----------------------------------------------------------------------------
Init ==
    /\ attrs \in [Spans -> SpanAttrs] /\ \A s \in Spans : attrs[s] \in AttrsOf(s)
    /\ available = [p \in Partitions |-> 0]
    /\ committed = [p \in Partitions |-> NoOffset]
    /\ owner = [p \in Partitions |-> NoWorker]
    /\ session = [w \in Workers |-> {}]
    /\ position = [w \in Workers |-> [p \in Partitions |-> 0]]
    /\ job = [w \in Workers |-> [p \in Partitions |-> Idle]]
    /\ emitted = [s \in Spans |-> 0]
    /\ disruptions = 0
    /\ handled = [p \in Partitions |-> {}]
    /\ uncommitted = [p \in Partitions |-> {}]
    /\ orphans = [p \in Partitions |-> [o \in Offsets |-> 0]]
-----------------------------------------------------------------------------
(* The broker: the collector writes a message, a partition is assigned.    *)

Produce(p) ==
    /\ available[p] < MaxLog
    /\ available' = [available EXCEPT ![p] = @ + 1]
    /\ UNCHANGED <<attrs, committed, owner, session, position, job, emitted, disruptions, history>>

\* What its owner handled and had not committed is handed out again.
Disown(p) ==
    /\ uncommitted' = [uncommitted EXCEPT ![p] = {}]
    /\ orphans' = [orphans EXCEPT ![p] =
                       [o \in Offsets |-> @[o] + (IF o \in uncommitted[p] THEN 1 ELSE 0)]]

\* A worker joins the group or the partition is moved to it.  A group that has committed
\* nothing starts after the messages there are (fromBeginning: false).
Assign(w, p) ==
    /\ owner[p] # w /\ job[w][p] = Idle
    /\ IF owner[p] = NoWorker THEN UNCHANGED disruptions
       ELSE disruptions < MaxDisruptions /\ disruptions' = disruptions + 1
    /\ owner' = [owner EXCEPT ![p] = w]
    /\ session' = [session EXCEPT ![w] = @ \cup {p}]
    /\ position' = [position EXCEPT ![w][p] =
                       IF committed[p] = NoOffset THEN available[p] ELSE committed[p]]
    /\ Disown(p)
    /\ UNCHANGED <<attrs, available, committed, job, emitted, handled>>

\* The commit of a worker that lost the partition is refused, or a heartbeat between two
\* messages tells it.
Told(w, p) ==
    /\ p \in session[w] /\ owner[p] # w /\ job[w][p] = Idle
    /\ session' = [session EXCEPT ![w] = @ \ {p}]
    /\ UNCHANGED <<attrs, group, position, job, emitted, disruptions, history>>

\* The process ends: SIGTERM disconnects it, main exits on an error, or it is killed.
Crash(w) ==
    /\ disruptions < MaxDisruptions /\ session[w] # {}
    /\ disruptions' = disruptions + 1
    /\ session' = [session EXCEPT ![w] = {}]
    /\ job' = [job EXCEPT ![w] = [p \in Partitions |-> Idle]]
    /\ owner' = [p \in Partitions |-> IF owner[p] = w THEN NoWorker ELSE owner[p]]
    /\ uncommitted' = [p \in Partitions |-> IF owner[p] = w THEN {} ELSE uncommitted[p]]
    /\ orphans' = [p \in Partitions |-> [o \in Offsets |->
                      orphans[p][o] + (IF owner[p] = w /\ o \in uncommitted[p] THEN 1 ELSE 0)]]
    /\ UNCHANGED <<attrs, available, committed, position, emitted, handled>>
-----------------------------------------------------------------------------
(* The worker.                                                             *)

\* processMessage starts runPhase1 for every span; those to be scored wait for judges.
\* A message it cannot walk throws at once and changes nothing.
Deliver(w, p, drawn) ==
    /\ p \in session[w] /\ job[w][p] = Idle /\ position[w][p] < available[p]
    /\ <<p, position[w][p]>> \notin Unwalkable
    /\ drawn \in Draws(SpansAt(p, position[w][p]))
    /\ LET scored == {s \in drawn : Verdict(attrs[s]) = "score"}
       IN job' = [job EXCEPT ![w][p] =
                    [at |-> position[w][p], drawn |-> scored, running |-> scored \X Scorers,
                     failed |-> {s \in drawn : Verdict(attrs[s]) = "throw"}]]
    /\ UNCHANGED <<attrs, group, session, position, emitted, disruptions, history>>

\* runScorerWithSpan: a judge answers, or its call fails.
Settle(w, p, s, k, ok) ==
    /\ <<s, k>> \in job[w][p].running
    /\ job' = [job EXCEPT ![w][p].running = @ \ {<<s, k>>},
                          ![w][p].failed = IF ok THEN @ ELSE @ \cup {s}]
    /\ UNCHANGED <<attrs, group, session, position, emitted, disruptions, history>>

\* The scorers of one span are waited for together (allSettled).
SettledSpans(j) == {s \in Spans : \A k \in Scorers : <<s, k>> \notin j.running}

\* Mutant: each span writes its logs when its own judges are done.
AbortLogsTheOthers(w, p) ==
    /\ job[w][p].failed \cap SettledSpans(job[w][p]) # {}
    /\ emitted' = [s \in Spans |->
           IF s \in (job[w][p].drawn \cap SettledSpans(job[w][p])) \ job[w][p].failed
           THEN emitted[s] + 1 ELSE emitted[s]]
    /\ job' = [job EXCEPT ![w][p] = Idle]
    /\ UNCHANGED <<attrs, group, session, position, disruptions, history>>

\* Mutant: the failure is caught and the handler returns.
AbortCaught(w, p) ==
    LET o == job[w][p].at IN
    /\ job[w][p].failed \cap SettledSpans(job[w][p]) # {}
    /\ job' = [job EXCEPT ![w][p] = Idle]
    /\ position' = [position EXCEPT ![w][p] = o + 1]
    /\ IF owner[p] = w
       THEN uncommitted' = [uncommitted EXCEPT ![p] = @ \cup {o}] /\ UNCHANGED orphans
       ELSE orphans' = [orphans EXCEPT ![p][o] = @ + 1] /\ UNCHANGED uncommitted
    /\ UNCHANGED <<attrs, group, session, emitted, disruptions, handled>>

\* The first span that fails rejects Promise.all: the handler throws, nothing is written
\* and the message will be handed out again.
Abort(w, p) ==
    /\ job[w][p].failed \cap SettledSpans(job[w][p]) # {}
    /\ job' = [job EXCEPT ![w][p] = Idle]
    /\ UNCHANGED <<attrs, group, session, position, emitted, disruptions, history>>

EmitEvalLogs(spans) == emitted' = [s \in Spans |-> emitted[s] + (IF s \in spans THEN 1 ELSE 0)]

\* Mutant: the handler may throw after the logs were written.
FinishMayThrow(w, p) ==
    LET o == job[w][p].at IN
    /\ o # NoOffset /\ job[w][p].running = {} /\ job[w][p].failed = {}
    /\ EmitEvalLogs(job[w][p].drawn)
    /\ job' = [job EXCEPT ![w][p] = Idle]
    /\ handled' = [handled EXCEPT ![p] = @ \cup {o}]
    /\ UNCHANGED <<attrs, group, session, position, disruptions, uncommitted, orphans>>

\* Every span is settled: the logs are written in one go and the handler returns.
Finish(w, p) ==
    LET o == job[w][p].at IN
    /\ o # NoOffset /\ job[w][p].running = {} /\ job[w][p].failed = {}
    /\ EmitEvalLogs(job[w][p].drawn)
    /\ job' = [job EXCEPT ![w][p] = Idle]
    /\ position' = [position EXCEPT ![w][p] = o + 1]
    /\ handled' = [handled EXCEPT ![p] = @ \cup {o}]
    /\ IF owner[p] = w
       THEN uncommitted' = [uncommitted EXCEPT ![p] = @ \cup {o}] /\ UNCHANGED orphans
       ELSE orphans' = [orphans EXCEPT ![p][o] = @ + 1] /\ UNCHANGED uncommitted
    /\ UNCHANGED <<attrs, group, session, disruptions>>

\* kafkajs commits what the handler returned from.
Commit(w, p) ==
    /\ owner[p] = w /\ p \in session[w] /\ uncommitted[p] # {}
    /\ committed' = [committed EXCEPT ![p] = position[w][p]]
    /\ uncommitted' = [uncommitted EXCEPT ![p] = {}]
    /\ UNCHANGED <<attrs, available, owner, session, position, job, emitted, disruptions,
                   handled, orphans>>

Next ==
    \/ \E p \in Partitions : Produce(p)
    \/ \E w \in Workers : Crash(w)
    \/ \E w \in Workers, p \in Partitions :
          \/ Assign(w, p) \/ Told(w, p) \/ Abort(w, p) \/ Finish(w, p) \/ Commit(w, p)
          \/ \E drawn \in SUBSET Spans : Deliver(w, p, drawn)
          \/ \E s \in Spans, k \in Scorers, ok \in BOOLEAN : Settle(w, p, s, k, ok)

Spec == Init /\ [][Next]_vars

\* The group assigns a partition nobody has, judges answer or fail, the handler goes on,
\* kafkajs commits.  Each delivery draws the spans it looks at anew and independently, so
\* a message delivered again and again is some day passed over, if nothing else helps.
\* That every call of a judge ends is assumed of Bedrock and its SDK: the code sets no
\* time limit, and a call that never ends holds up its partition.
FairSpec ==
    /\ Spec
    /\ \A p \in Partitions :
          /\ WF_vars(owner[p] = NoWorker /\ \E w \in Workers : Assign(w, p))
          /\ \A w \in Workers :
                /\ WF_vars(\E s \in Spans, k \in Scorers, ok \in BOOLEAN : Settle(w, p, s, k, ok))
                /\ WF_vars(Told(w, p) \/ Abort(w, p) \/ Finish(w, p))
                /\ WF_vars(Commit(w, p))
                /\ WF_vars(\E drawn \in SUBSET Spans : Deliver(w, p, drawn))
                /\ SF_vars(Deliver(w, p, {}))
-----------------------------------------------------------------------------
TypeOK ==
    /\ attrs \in [Spans -> SpanAttrs]
    /\ available \in [Partitions -> 0 .. MaxLog]
    /\ committed \in [Partitions -> {NoOffset} \cup 0 .. MaxLog]
    /\ owner \in [Partitions -> Workers \cup {NoWorker}]
    /\ session \in [Workers -> SUBSET Partitions]
    /\ position \in [Workers -> [Partitions -> 0 .. MaxLog]]
    /\ job \in [Workers -> [Partitions ->
                  [at : {NoOffset} \cup Offsets, drawn : SUBSET Spans,
                   running : SUBSET (Spans \X Scorers), failed : SUBSET Spans]]]
    /\ emitted \in [Spans -> Nat]
    /\ disruptions \in 0 .. MaxDisruptions
    /\ handled \in [Partitions -> SUBSET Offsets]
    /\ uncommitted \in [Partitions -> SUBSET Offsets]
    /\ orphans \in [Partitions -> [Offsets -> Nat]]

\* "A partial-failure case never lands a log on the chatbot trace": a log is there only
\* for a message whose handler returned once, whatever failed before and between.
NoLogOfAFailedMessage ==
    \A p \in Partitions, o \in Offsets : \A s \in SpansAt(p, o) :
        emitted[s] > 0 => o \in handled[p]

\* Deliveries that count: of the messages below the offset, the one it has passed.
Kept(p, o) == IF o \in uncommitted[p] \/ o < committed[p] THEN 1 ELSE 0

\* A span is logged more than once only when a worker lost the partition, or died, after
\* it handled the message and before its commit: failures, retries and two workers on one
\* message never add a log of their own.
LoggedTwiceOnlyByRedelivery ==
    \A p \in Partitions, o \in Offsets : \A s \in SpansAt(p, o) :
        emitted[s] <= orphans[p][o] + Kept(p, o)

\* Once the group has an offset, commits pass only messages whose handler returned: no
\* crash, move or failure loses a message (before the first commit they do).
CommitsPassOnlyHandled ==
    [][\A p \in Partitions : committed[p] # NoOffset =>
          /\ committed'[p] >= committed[p]
          /\ \A o \in Offsets : committed[p] <= o /\ o < committed'[p] => o \in handled[p]]_vars

\* A message the group still has to read is passed in the end: a span whose messages
\* cannot be walked does not block its partition.  Only a payload that is no OTLP object
\* does, itself and all that come after it.
EveryMessageIsPassed ==
    \A p \in Partitions, o \in Offsets :
        (/\ committed[p] # NoOffset /\ committed[p] <= o /\ o < available[p]
         /\ \A n \in committed[p] .. o : <<p, n>> \notin Unwalkable) ~> committed[p] > o
=============================================================================
