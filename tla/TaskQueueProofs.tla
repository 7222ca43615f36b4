--------------------------- MODULE TaskQueueProofs ---------------------------
(***************************************************************************)
(* Proofs about the task queue and the traces it carries, for any number   *)
(* of tasks, consumers, retries and spans.                                 *)
(***************************************************************************)
EXTENDS TaskQueue, TLAPS

Metadata == [trace_id : Int, span_id : Int, sampled : {"0", "1"}]
Context  == [traceID : Int, spanId : Int, parentSpanId : Int, sampled : BOOLEAN]
Data     == [wrapped : BOOLEAN, payload : Payloads \cup {"whole", "inner"},
             reply : BOOLEAN, meta : BOOLEAN, trace : Metadata]
State    == {"none", "pending", "active", "retry", "archived", "done", "deleted"}
Task     == [state : State, at : Consumers \cup {NoConsumer}, retried : 0..MaxRetry, data : Data]
Message  == [payload : Payloads, reply : BOOLEAN, meta : BOOLEAN, tc : Context]
Run      == [on : BOOLEAN, got : Data, tc : Context]
Span     == [tc : Context, by : Int, how : {"outside", "http", "saga", "queue"}]

ConsumersOK ==
    /\ server \in [Consumers -> {"new", "active", "closed", "dead"}]
    /\ starter \in [Consumers -> {"none", "select", "drain", "returned"}]
    /\ stopper \in [Consumers -> {"none", "shutdown", "drain", "returned"}]
    /\ stopCh \in [Consumers -> BOOLEAN]
    /\ ctxDone \in [Consumers -> BOOLEAN]

TypeOK ==
    /\ task \in [Tasks -> Task]
    /\ sent \in [Tasks -> Message]
    /\ run \in [Consumers -> [Tasks -> Run]]
    /\ paused \in BOOLEAN
    /\ ConsumersOK
    /\ spans \in Seq(Span)

(***************************************************************************)
(* Every span is in a trace, bears its own number, and was caused by one   *)
(* that was there before it.                                               *)
(***************************************************************************)
SpansInOrder ==
    \A k \in 1..Len(spans) :
       /\ spans[k].tc.spanId = k
       /\ IsValid(spans[k].tc.traceID)
       /\ spans[k].how # "outside" => spans[k].by \in 1..(k - 1)

(* The trace a message was published in is that of a span. *)
SentInSpan ==
    \A t \in Tasks : \/ sent[t].tc = NoTrace
                     \/ \E k \in 1..Len(spans) : sent[t].tc = spans[k].tc

(* asynq keeps the bytes of a task as Publish made them. *)
Bytes(m) == wrapWithTrace(m.tc, m.payload, m.reply, m.meta)
DataKept == \A t \in Tasks : task[t].state # "none" => task[t].data = Bytes(sent[t])

(* A handler has been given what is in the bytes of its task. *)
RunsOnData ==
    \A c \in Consumers, t \in Tasks : run[c][t].on =>
       /\ task[t].state # "none"
       /\ run[c][t].got = unwrapEnvelope(task[t].data)
       /\ (run[c][t].tc = NoTrace) <=> ~IsValid(run[c][t].got.trace.trace_id)

MessageInv == TypeOK /\ SpansInOrder /\ SentInSpan /\ DataKept /\ RunsOnData /\ CallTree

(***************************************************************************)
(* Start waits while its server is active, nobody waits for the handlers   *)
(* of a server that is not closed, and whoever closed it waits while the   *)
(* consumer has a task.                                                    *)
(***************************************************************************)
Closing ==
    \A c \in Consumers :
       /\ server[c] \in {"new", "dead"} => starter[c] = "none"
       /\ server[c] = "active" => starter[c] = "select"
       /\ server[c] # "closed" => stopper[c] # "drain"
       /\ server[c] = "closed" /\ Held(c) # {} => starter[c] = "drain" \/ stopper[c] = "drain"

-----------------------------------------------------------------------------
(* Lemmas about the envelope and the carriers of a trace *)

LEMMA NoTraceIsContext ==
    /\ NoTrace \in Context
    /\ NoTrace.traceID = 0 /\ NoTrace.spanId = 0 /\ ~NoTrace.sampled
    /\ ~IsValid(NoTrace.traceID)
<1> QED
  BY DEF NoTrace, TraceContext, Context, None, IsValid

LEMMA MetadataType ==
    ASSUME NEW tc \in Context
    PROVE  /\ MetadataFromTraceContext(tc) \in Metadata
           /\ MetadataFromTraceContext(tc).trace_id = tc.traceID
           /\ MetadataFromTraceContext(tc).span_id = tc.spanId
           /\ MetadataFromTraceContext(tc).sampled # "0" <=> tc.sampled
<1> QED
  BY DEF MetadataFromTraceContext, Metadata, Context

LEMMA RawType ==
    ASSUME NEW payload \in Payloads \cup {"whole", "inner"}
    PROVE  /\ Raw(payload) \in Data
           /\ ~Raw(payload).wrapped /\ Raw(payload).payload = payload
           /\ ~Raw(payload).reply /\ ~Raw(payload).meta
           /\ ~IsValid(Raw(payload).trace.trace_id)
<1>1. /\ MetadataFromTraceContext(NoTrace) \in Metadata
      /\ ~IsValid(MetadataFromTraceContext(NoTrace).trace_id)
  BY NoTraceIsContext, MetadataType
<1> QED
  BY <1>1 DEF Raw, Data

LEMMA BytesType ==
    ASSUME NEW m \in Message
    PROVE  /\ Bytes(m) \in Data
           /\ \/ /\ m.tc = NoTrace /\ ~m.reply /\ ~m.meta
                 /\ Bytes(m) = Raw(m.payload)
              \/ /\ m.tc # NoTrace \/ m.reply \/ m.meta
                 /\ Bytes(m).wrapped
                 /\ Bytes(m).payload = m.payload
                 /\ Bytes(m).reply = m.reply
                 /\ Bytes(m).meta = m.meta
                 /\ Bytes(m).trace = MetadataFromTraceContext(m.tc)
<1>1. /\ m.tc \in Context /\ m.payload \in Payloads
      /\ m.reply \in BOOLEAN /\ m.meta \in BOOLEAN
  BY DEF Message
<1>2. CASE m.tc = NoTrace /\ ~m.reply /\ ~m.meta
  <2>1. Bytes(m) = Raw(m.payload)
    BY <1>2 DEF Bytes, wrapWithTrace
  <2> QED
    BY <1>1, <1>2, <2>1, RawType
<1>3. CASE ~(m.tc = NoTrace /\ ~m.reply /\ ~m.meta)
  <2>1. Bytes(m) = [wrapped |-> TRUE, payload |-> m.payload, reply |-> m.reply, meta |-> m.meta,
                    trace |-> MetadataFromTraceContext(m.tc)]
    BY <1>3 DEF Bytes, wrapWithTrace
  <2>2. MetadataFromTraceContext(m.tc) \in Metadata
    BY <1>1, MetadataType
  <2> QED
    BY <1>1, <1>3, <2>1, <2>2 DEF Data
<1> QED
  BY <1>2, <1>3

LEMMA UnwrapCases ==
    ASSUME NEW data \in Data
    PROVE  /\ unwrapEnvelope(data) \in Data
           /\ data.wrapped /\ data.payload # "nil" =>
                /\ unwrapEnvelope(data).payload = data.payload
                /\ unwrapEnvelope(data).reply = data.reply
                /\ unwrapEnvelope(data).meta = data.meta
                /\ unwrapEnvelope(data).trace = data.trace
           /\ data.wrapped /\ data.payload = "nil" => unwrapEnvelope(data) = Raw("whole")
           /\ ~data.wrapped /\ data.payload = "envelope" => unwrapEnvelope(data) = Raw("inner")
           /\ ~data.wrapped /\ data.payload # "envelope" => unwrapEnvelope(data) = data
<1>1. CASE data.wrapped /\ data.payload # "nil"
  <2>1. unwrapEnvelope(data) = [data EXCEPT !.wrapped = FALSE]
    BY <1>1 DEF unwrapEnvelope
  <2> QED
    BY <1>1, <2>1 DEF Data
<1>2. CASE data.wrapped /\ data.payload = "nil"
  <2>1. unwrapEnvelope(data) = Raw("whole")
    BY <1>2 DEF unwrapEnvelope
  <2> QED
    BY <1>2, <2>1, RawType
<1>3. CASE ~data.wrapped /\ data.payload = "envelope"
  <2>1. unwrapEnvelope(data) = Raw("inner")
    BY <1>3 DEF unwrapEnvelope
  <2> QED
    BY <1>3, <2>1, RawType
<1>4. CASE ~data.wrapped /\ data.payload # "envelope"
  <2>1. unwrapEnvelope(data) = data
    BY <1>4 DEF unwrapEnvelope
  <2> QED
    BY <1>4, <2>1
<1> QED
  BY <1>1, <1>2, <1>3, <1>4

(***************************************************************************)
(* What comes out of the bytes of a message: its trace or none, and all of *)
(* it when the message is Conveyed.                                        *)
(***************************************************************************)
LEMMA RoundTrip ==
    ASSUME NEW m \in Message, m.tc = NoTrace \/ IsValid(m.tc.traceID)
    PROVE  LET u == unwrapEnvelope(Bytes(m))
           IN  /\ u \in Data
               /\ IsValid(u.trace.trace_id) =>
                     u.trace = MetadataFromTraceContext(m.tc) /\ m.tc # NoTrace
               /\ Conveyed(m) => /\ u.payload = m.payload
                                 /\ u.reply = m.reply
                                 /\ u.meta = m.meta
                                 /\ ~IsValid(u.trace.trace_id) <=> m.tc = NoTrace
<1> DEFINE u == unwrapEnvelope(Bytes(m))
<1>1. Bytes(m) \in Data /\ u \in Data
  BY BytesType, UnwrapCases
<1>2. m.tc \in Context /\ m.payload \in Payloads /\ m.reply \in BOOLEAN /\ m.meta \in BOOLEAN
  BY DEF Message
<1>3. m.payload \in Payloads \cup {"whole", "inner"} /\ "whole" \in Payloads \cup {"whole", "inner"}
      /\ "inner" \in Payloads \cup {"whole", "inner"}
  BY <1>2
<1>4. /\ ~IsValid(MetadataFromTraceContext(NoTrace).trace_id)
      /\ MetadataFromTraceContext(m.tc).trace_id = m.tc.traceID
  BY <1>2, NoTraceIsContext, MetadataType
<1>5. CASE m.tc = NoTrace /\ ~m.reply /\ ~m.meta
  <2>1. /\ Bytes(m) = Raw(m.payload)
        /\ ~Bytes(m).wrapped /\ Bytes(m).payload = m.payload
        /\ ~Bytes(m).reply /\ ~Bytes(m).meta
        /\ ~IsValid(Bytes(m).trace.trace_id)
    BY <1>3, <1>5, BytesType, RawType
  <2>2. CASE m.payload = "envelope"
    <3>1. u = Raw("inner") /\ ~Conveyed(m)
      BY <1>1, <1>5, <2>1, <2>2, UnwrapCases DEF Conveyed
    <3>2. ~IsValid(u.trace.trace_id)
      BY <1>3, <3>1, RawType
    <3> QED
      BY <1>1, <3>1, <3>2
  <2>3. CASE m.payload # "envelope"
    <3>1. u = Bytes(m)
      BY <1>1, <2>1, <2>3, UnwrapCases
    <3> HIDE DEF u
    <3>2. m.reply = FALSE /\ m.meta = FALSE /\ u.reply = FALSE /\ u.meta = FALSE
      BY <1>1, <1>2, <1>5, <2>1, <3>1 DEF Data
    <3> QED
      BY <1>1, <1>5, <2>1, <3>1, <3>2 DEF u
  <2> QED
    BY <2>2, <2>3
<1>6. CASE ~(m.tc = NoTrace /\ ~m.reply /\ ~m.meta)
  <2>1. /\ Bytes(m).wrapped
        /\ Bytes(m).payload = m.payload
        /\ Bytes(m).reply = m.reply
        /\ Bytes(m).meta = m.meta
        /\ Bytes(m).trace = MetadataFromTraceContext(m.tc)
    BY <1>6, BytesType
  <2>2. CASE m.payload = "nil"
    <3>1. u = Raw("whole") /\ ~Conveyed(m)
      BY <1>1, <1>6, <2>1, <2>2, UnwrapCases DEF Conveyed
    <3>2. ~IsValid(u.trace.trace_id)
      BY <1>3, <3>1, RawType
    <3> QED
      BY <1>1, <3>1, <3>2
  <2>3. CASE m.payload # "nil"
    <3>1. /\ u.payload = m.payload /\ u.reply = m.reply /\ u.meta = m.meta
          /\ u.trace = MetadataFromTraceContext(m.tc)
      BY <1>1, <2>1, <2>3, UnwrapCases
    <3> HIDE DEF u
    <3>2. IsValid(u.trace.trace_id) <=> m.tc # NoTrace
      BY <1>4, <3>1, NoTraceIsContext
    <3> QED
      BY <1>1, <3>1, <3>2 DEF u
  <2> QED
    BY <2>2, <2>3
<1> QED
  BY <1>5, <1>6

(* A context made of the headers of a request. *)
LEMMA ExtractType ==
    ASSUME NEW h, h.traceID \in Int, h.requestID \in Int, h.spanId \in Int,
           NEW n \in Int, n > 0
    PROVE  /\ Extract(h, n, n) \in Context
           /\ Extract(h, n, n).spanId = n
           /\ IsValid(Extract(h, n, n).traceID)
           /\ IsValid(h.traceID) => Extract(h, n, n).traceID = h.traceID
           /\ IsValid(h.spanId) => Extract(h, n, n).parentSpanId = h.spanId
           /\ Extract(h, n, n).sampled <=> h.sampled # "0"
<1> DEFINE trace  == IF IsValid(h.traceID) THEN h.traceID
                       ELSE IF IsValid(h.requestID) THEN h.requestID ELSE n
           parent == IF IsValid(h.spanId) THEN h.spanId ELSE None
<1>1. trace \in Int /\ IsValid(trace)
  BY DEF IsValid
<1>2. parent \in Int
  BY DEF None
<1>3. IsValid(h.traceID) => trace = h.traceID
  OBVIOUS
<1>4. IsValid(h.spanId) => parent = h.spanId
  OBVIOUS
<1>5. Extract(h, n, n) = TraceContext(trace, n, parent, h.sampled # "0")
  BY DEF Extract
<1> DEFINE sampled == h.sampled # "0"
<1>6. sampled \in BOOLEAN
  OBVIOUS
<1> HIDE DEF trace, parent, sampled
<1>7. TraceContext(trace, n, parent, sampled) \in Context
  BY <1>1, <1>2, <1>6 DEF TraceContext, Context
<1>8. /\ TraceContext(trace, n, parent, sampled).traceID = trace
      /\ TraceContext(trace, n, parent, sampled).spanId = n
      /\ TraceContext(trace, n, parent, sampled).parentSpanId = parent
      /\ TraceContext(trace, n, parent, sampled).sampled = sampled
  BY DEF TraceContext
<1> QED
  BY <1>1, <1>3, <1>4, <1>5, <1>7, <1>8 DEF sampled

(* A span is added to the call tree. *)
LEMMA TreeGrows ==
    ASSUME TypeOK, SpansInOrder, CallTree,
           NEW tc \in Context, NEW by \in Int, NEW how \in {"outside", "http", "saga", "queue"},
           Record(tc, by, how),
           tc.spanId = NewSpan, IsValid(tc.traceID),
           how # "outside" => /\ by \in 1..Len(spans)
                              /\ tc.traceID = spans[by].tc.traceID
                              /\ tc.parentSpanId = spans[by].tc.spanId
                              /\ tc.sampled = (spans[by].tc.sampled \/ how = "saga")
    PROVE  /\ spans' \in Seq(Span) /\ SpansInOrder' /\ CallTree'
           /\ Len(spans') = Len(spans) + 1
           /\ \A k \in 1..Len(spans) : k \in 1..Len(spans') /\ spans'[k] = spans[k]
<1> DEFINE n == Len(spans)
           s == [tc |-> tc, by |-> by, how |-> how]
<1>1. spans \in Seq(Span) /\ s \in Span
  BY DEF TypeOK, Span
<1>2. spans' = Append(spans, s) /\ n \in Nat
  BY <1>1 DEF Record
<1>3. /\ spans' \in Seq(Span) /\ Len(spans') = n + 1 /\ spans'[n + 1] = s
      /\ \A k \in 1..n : spans'[k] = spans[k]
  <2> HIDE DEF s
  <2> QED
    BY <1>1, <1>2
<1>4. \A k \in 1..(n + 1) : k \in 1..n \/ k = n + 1
  BY <1>2
<1>5. \A k \in 1..n : k \in 1..(n + 1)
  BY <1>2
<1>6. DOMAIN spans = 1..n /\ DOMAIN spans' = 1..(n + 1)
  BY <1>1, <1>3
<1>7. s.tc = tc /\ s.by = by /\ s.how = how /\ tc.spanId = n + 1
  BY DEF NewSpan
<1>8. ASSUME NEW k \in 1..n
      PROVE  /\ spans[k].tc.spanId = k
             /\ IsValid(spans[k].tc.traceID)
             /\ spans[k].how # "outside" => spans[k].by \in 1..(k - 1)
  BY DEF SpansInOrder
<1>9. ASSUME NEW k \in 1..n, spans[k].how # "outside"
      PROVE  /\ spans[k].by \in 1..n
             /\ spans[k].tc.traceID = spans[spans[k].by].tc.traceID
             /\ spans[k].tc.parentSpanId = spans[spans[k].by].tc.spanId
             /\ spans[k].tc.spanId = k
             /\ spans[k].tc.sampled = (spans[spans[k].by].tc.sampled \/ spans[k].how = "saga")
  <2>1. spans[k].by \in 1..(k - 1)
    BY <1>8, <1>9
  <2>2. spans[k].by \in 1..n
    BY <1>2, <2>1
  <2> QED
    BY <1>6, <1>9, <2>2 DEF CallTree
<1> HIDE DEF n, s
<1>10. SpansInOrder'
  <2> SUFFICES ASSUME NEW k \in 1..(n + 1)
               PROVE  /\ spans'[k].tc.spanId = k
                      /\ IsValid(spans'[k].tc.traceID)
                      /\ spans'[k].how # "outside" => spans'[k].by \in 1..(k - 1)
    BY <1>3 DEF SpansInOrder
  <2>1. CASE k \in 1..n
    BY <1>3, <1>8, <2>1
  <2>2. CASE k = n + 1
    <3>1. how # "outside" => by \in 1..(k - 1)
      BY <1>2, <2>2 DEF n
    <3> QED
      BY <1>3, <1>7, <2>2, <3>1
  <2> QED
    BY <1>4, <2>1, <2>2
<1>11. CallTree'
  <2> SUFFICES ASSUME NEW k \in 1..(n + 1), spans'[k].how # "outside"
               PROVE  /\ spans'[k].tc.traceID = spans'[spans'[k].by].tc.traceID
                      /\ spans'[k].tc.parentSpanId = spans'[spans'[k].by].tc.spanId
                      /\ spans'[k].tc.spanId = k
                      /\ spans'[k].tc.sampled = (spans'[spans'[k].by].tc.sampled \/ spans'[k].how = "saga")
    BY <1>6 DEF CallTree
  <2>1. CASE k \in 1..n
    BY <1>3, <1>9, <2>1
  <2>2. CASE k = n + 1
    <3>1. /\ by \in 1..n
          /\ tc.traceID = spans[by].tc.traceID
          /\ tc.parentSpanId = spans[by].tc.spanId
          /\ tc.sampled = (spans[by].tc.sampled \/ how = "saga")
      BY <1>3, <1>7, <2>2 DEF n
    <3> QED
      BY <1>3, <1>7, <2>2, <3>1
  <2> QED
    BY <1>4, <2>1, <2>2
<1> QED
  BY <1>3, <1>5, <1>10, <1>11 DEF n

-----------------------------------------------------------------------------
(* What a step may do to the records of asynq and to the handlers *)

(* Every task keeps its bytes, and none is published. *)
TasksKept ==
    /\ task' \in [Tasks -> Task]
    /\ \A t \in Tasks : /\ task'[t].data = task[t].data
                        /\ task'[t].state = "none" <=> task[t].state = "none"

(* No task becomes active. *)
NoneTaken ==
    \A t \in Tasks : task'[t].state = "active" =>
       task[t].state = "active" /\ task'[t].at = task[t].at

(* No handler starts. *)
NoneRuns ==
    /\ run' \in [Consumers -> [Tasks -> Run]]
    /\ \A c \in Consumers, t \in Tasks : run'[c][t].on => run'[c][t] = run[c][t]

LEMMA TasksUnchanged ==
    ASSUME TypeOK, UNCHANGED task
    PROVE  TasksKept /\ NoneTaken
<1> QED
  BY DEF TypeOK, TasksKept, NoneTaken

LEMMA RunsUnchanged ==
    ASSUME TypeOK, UNCHANGED run
    PROVE  NoneRuns
<1> QED
  BY DEF TypeOK, NoneRuns

(* The record of one task is replaced. *)
LEMMA TaskReplaced ==
    ASSUME TypeOK, NEW t \in Tasks, NEW r \in Task,
           task' = [task EXCEPT ![t] = r],
           r.data = task[t].data, r.state # "none", task[t].state # "none"
    PROVE  /\ TasksKept
           /\ r.state # "active" => NoneTaken
<1>1. task \in [Tasks -> Task]
  BY DEF TypeOK
<1>2. task' \in [Tasks -> Task]
  BY <1>1
<1>3. \A u \in Tasks : u # t => task'[u] = task[u]
  BY <1>1
<1>4. task'[t] = r
  BY <1>1
<1>5. TasksKept
  BY <1>2, <1>3, <1>4 DEF TasksKept
<1>6. r.state # "active" => NoneTaken
  BY <1>3, <1>4 DEF NoneTaken
<1> QED
  BY <1>5, <1>6

LEMMA FailKeeps ==
    ASSUME TypeOK, NEW t \in Tasks, task[t].state # "none", Fail(t)
    PROVE  TasksKept /\ NoneTaken
<1>1. task \in [Tasks -> Task] /\ task[t] \in Task
  BY DEF TypeOK
<1>2. task[t].retried \in 0..MaxRetry /\ MaxRetry \in Nat
  BY <1>1, TaskQueueAssumption DEF Task
<1>3. PICK s \in {"retry", "archived"}, n \in 0..MaxRetry :
         task' = [task EXCEPT ![t] = [task[t] EXCEPT !.at = NoConsumer, !.state = s, !.retried = n]]
  <2> DEFINE again == task[t].retried < MaxRetry
             s == IF again THEN "retry" ELSE "archived"
             n == IF again THEN task[t].retried + 1 ELSE task[t].retried
  <2>1. s \in {"retry", "archived"}
    OBVIOUS
  <2>2. n \in 0..MaxRetry
    BY <1>2
  <2>3. task' = [task EXCEPT ![t] = [task[t] EXCEPT !.at = NoConsumer, !.state = s, !.retried = n]]
    BY <1>1 DEF Fail, Task
  <2> HIDE DEF s, n
  <2> QED
    BY <2>1, <2>2, <2>3
<1>4. s \in State /\ NoConsumer \in Consumers \cup {NoConsumer} /\ s # "none" /\ s # "active"
  BY DEF State
<1> DEFINE r == [task[t] EXCEPT !.at = NoConsumer, !.state = s, !.retried = n]
<1>5. r \in Task /\ r.state = s /\ r.data = task[t].data
  BY <1>1, <1>4 DEF Task
<1>6. task' = [task EXCEPT ![t] = r]
  BY <1>3
<1> HIDE DEF r
<1> QED
  BY <1>4, <1>5, <1>6, TaskReplaced

LEMMA AbortKeeps ==
    ASSUME TypeOK, NEW c \in Consumers, NEW t \in Tasks, Abort(c, t)
    PROVE  TasksKept /\ NoneTaken
<1>1. task \in [Tasks -> Task] /\ task[t] \in Task /\ task[t].state # "none"
  BY DEF TypeOK, Abort, Held
<1> DEFINE r == [task[t] EXCEPT !.state = "pending", !.at = NoConsumer]
<1>2. task' = [task EXCEPT ![t] = r]
  BY <1>1 DEF Abort, Task
<1>3. "pending" \in State /\ NoConsumer \in Consumers \cup {NoConsumer}
  BY DEF State
<1>4. r \in Task /\ r.state = "pending" /\ r.data = task[t].data
  BY <1>1, <1>3 DEF Task
<1> HIDE DEF r
<1> QED
  BY <1>1, <1>2, <1>4, TaskReplaced

LEMMA ReturnKeeps ==
    ASSUME TypeOK, NEW c \in Consumers, NEW t \in Tasks, HandlerReturns(c, t)
    PROVE  TasksKept /\ NoneTaken /\ NoneRuns
<1>1. task \in [Tasks -> Task] /\ task[t] \in Task
  BY DEF TypeOK
<1>2. TasksKept /\ NoneTaken
  <2>1. CASE /\ t \in Held(c)
             /\ task' = [task EXCEPT ![t].state = "done", ![t].at = NoConsumer]
    <3> DEFINE r == [task[t] EXCEPT !.state = "done", !.at = NoConsumer]
    <3>1. task' = [task EXCEPT ![t] = r]
      BY <1>1, <2>1 DEF Task
    <3>2. "done" \in State /\ NoConsumer \in Consumers \cup {NoConsumer} /\ task[t].state # "none"
      BY <2>1 DEF State, Held
    <3>3. r \in Task /\ r.state = "done" /\ r.data = task[t].data
      BY <1>1, <3>2 DEF Task
    <3> HIDE DEF r
    <3> QED
      BY <3>1, <3>2, <3>3, TaskReplaced
  <2>2. CASE t \in Held(c) /\ Fail(t)
    <3>1. task[t].state # "none"
      BY <2>2 DEF Held
    <3> QED
      BY <2>2, <3>1, FailKeeps
  <2>3. CASE UNCHANGED task
    BY <2>3, TasksUnchanged
  <2> QED
    BY <2>1, <2>2, <2>3 DEF HandlerReturns
<1>3. run \in [Consumers -> [Tasks -> Run]] /\ NoRun \in Run /\ ~NoRun.on
  BY NoTraceIsContext, RawType DEF TypeOK, NoRun, Run, Payloads
<1>4. run' = [run EXCEPT ![c] = [run[c] EXCEPT ![t] = NoRun]]
  BY <1>3 DEF HandlerReturns
<1>5. run' \in [Consumers -> [Tasks -> Run]]
  BY <1>3, <1>4
<1>6. \A d \in Consumers, u \in Tasks : run'[d][u] = run[d][u] \/ run'[d][u] = NoRun
  BY <1>3, <1>4
<1>7. NoneRuns
  BY <1>3, <1>5, <1>6 DEF NoneRuns
<1> QED
  BY <1>2, <1>7

LEMMA RetryKeeps ==
    ASSUME TypeOK, NEW t \in Tasks, RetryDue(t) \/ Recover(t)
    PROVE  TasksKept /\ NoneTaken
<1>1. task \in [Tasks -> Task] /\ task[t] \in Task
  BY DEF TypeOK
<1>2. CASE RetryDue(t)
  <2> DEFINE r == [task[t] EXCEPT !.state = "pending"]
  <2>1. task' = [task EXCEPT ![t] = r] /\ task[t].state # "none"
    BY <1>1, <1>2 DEF RetryDue, Task
  <2>2. "pending" \in State
    BY DEF State
  <2>3. r \in Task /\ r.state = "pending" /\ r.data = task[t].data
    BY <1>1, <2>2 DEF Task
  <2> HIDE DEF r
  <2> QED
    BY <2>1, <2>3, TaskReplaced
<1>3. CASE Recover(t)
  BY <1>3, FailKeeps DEF Recover
<1> QED
  BY <1>2, <1>3

LEMMA PutKeeps ==
    ASSUME TypeOK, NEW S, NEW s \in {"pending", "archived", "deleted"}, Put(S, s),
           \A t \in S \cap Tasks : task[t].state # "none"
    PROVE  TasksKept /\ NoneTaken
<1>1. task \in [Tasks -> Task]
  BY DEF TypeOK
<1>2. s \in State /\ s # "none" /\ s # "active"
  BY DEF State
<1>3. ASSUME NEW t \in Tasks
      PROVE  /\ [task[t] EXCEPT !.state = s] \in Task
             /\ [task[t] EXCEPT !.state = s].state = s
             /\ [task[t] EXCEPT !.state = s].data = task[t].data
  BY <1>1, <1>2 DEF Task
<1>4. task' = [t \in Tasks |-> IF t \in S THEN [task[t] EXCEPT !.state = s] ELSE task[t]]
  BY DEF Put
<1>5. ASSUME NEW t \in Tasks
      PROVE  /\ task'[t] \in Task
             /\ task'[t].data = task[t].data
             /\ task'[t] = task[t] \/ (task'[t].state = s /\ task[t].state # "none")
  <2>1. CASE t \in S
    <3>1. task'[t] = [task[t] EXCEPT !.state = s]
      BY <1>4, <2>1
    <3> QED
      BY <1>3, <2>1, <3>1
  <2>2. CASE t \notin S
    <3>1. task'[t] = task[t] /\ task[t] \in Task
      BY <1>1, <1>4, <2>2
    <3> QED
      BY <3>1
  <2> QED
    BY <2>1, <2>2
<1>6. task' \in [Tasks -> Task]
  <2>1. DOMAIN task' = Tasks /\ task' = [t \in DOMAIN task' |-> task'[t]]
    BY <1>4
  <2> QED
    BY <1>5, <2>1
<1>7. TasksKept
  BY <1>2, <1>5, <1>6 DEF TasksKept
<1>8. NoneTaken
  BY <1>2, <1>5 DEF NoneTaken
<1> QED
  BY <1>7, <1>8

(* All that the inspector does is to put tasks into other states. *)
LEMMA InspectorKeeps ==
    ASSUME TypeOK, Inspector
    PROVE  TasksKept /\ NoneTaken /\ UNCHANGED <<sent, run, consumerVars, spans>> /\ paused' \in BOOLEAN
<1>1. ASSUME NEW st \in TaskStates
      PROVE  \A t \in InState(st) \cap Tasks : task[t].state # "none"
  BY DEF InState, TaskStates, asynqState
<1>2. ASSUME NEW S, NEW s \in {"pending", "archived", "deleted"}, Put(S, s),
             \A t \in S \cap Tasks : task[t].state # "none"
      PROVE  TasksKept /\ NoneTaken /\ UNCHANGED <<sent, run, consumerVars, spans>> /\ paused' \in BOOLEAN
  <2>1. UNCHANGED <<sent, run, paused, consumerVars, spans>>
    BY <1>2 DEF Put
  <2>2. paused' \in BOOLEAN
    BY <2>1 DEF TypeOK
  <2> QED
    BY <1>2, <2>1, <2>2, PutKeeps
<1>3. ASSUME NEW t \in Tasks, DeleteTask(t) \/ RunTask(t) \/ ArchiveTask(t)
      PROVE  \E s \in {"pending", "archived", "deleted"} :
                Put({t}, s) /\ task[t].state # "none"
  BY <1>3 DEF DeleteTask, RunTask, ArchiveTask
<1>4. ASSUME NEW st \in TaskStates,
             BatchDeleteTasks(st) \/ BatchRunTasks(st) \/ BatchArchiveTasks(st)
      PROVE  \E s \in {"pending", "archived", "deleted"} : Put(InState(st), s)
  BY <1>4 DEF BatchDeleteTasks, BatchRunTasks, BatchArchiveTasks
<1>5. CASE \E t \in Tasks : DeleteTask(t) \/ RunTask(t) \/ ArchiveTask(t)
  <2>1. PICK t \in Tasks : DeleteTask(t) \/ RunTask(t) \/ ArchiveTask(t)
    BY <1>5
  <2>2. PICK s \in {"pending", "archived", "deleted"} : Put({t}, s) /\ task[t].state # "none"
    BY <1>3, <2>1
  <2>3. \A u \in {t} \cap Tasks : task[u].state # "none"
    BY <2>2
  <2> QED
    BY <1>2, <2>2, <2>3
<1>6. CASE \E st \in TaskStates :
              BatchDeleteTasks(st) \/ BatchRunTasks(st) \/ BatchArchiveTasks(st)
  <2>1. PICK st \in TaskStates : BatchDeleteTasks(st) \/ BatchRunTasks(st) \/ BatchArchiveTasks(st)
    BY <1>6
  <2>2. PICK s \in {"pending", "archived", "deleted"} : Put(InState(st), s)
    BY <1>4, <2>1
  <2> QED
    BY <1>1, <1>2, <2>2
<1>7. CASE PauseQueue \/ UnpauseQueue
  <2>1. UNCHANGED <<task, sent, run, consumerVars, spans>> /\ paused' \in BOOLEAN
    BY <1>7 DEF PauseQueue, UnpauseQueue
  <2> QED
    BY <2>1, TasksUnchanged
<1>8. CASE DeleteQueue
  <2> DEFINE S == UNION {InState(st) : st \in TaskStates}
  <2>1. Put(S, "deleted")
    BY <1>8 DEF DeleteQueue
  <2>2. \A t \in S \cap Tasks : task[t].state # "none"
    BY <1>1
  <2> HIDE DEF S
  <2> QED
    BY <1>2, <2>1, <2>2
<1> QED
  BY <1>5, <1>6, <1>7, <1>8 DEF Inspector

-----------------------------------------------------------------------------
(* The invariant of the messages and the spans *)

(* A step that publishes nothing and starts no handler. *)
LEMMA MessageKept ==
    ASSUME MessageInv, TasksKept, NoneRuns, UNCHANGED sent,
           ConsumersOK', paused' \in BOOLEAN,
           spans' \in Seq(Span), SpansInOrder', CallTree',
           \A k \in 1..Len(spans) : k \in 1..Len(spans') /\ spans'[k] = spans[k]
    PROVE  MessageInv'
<1> USE DEF MessageInv
<1>1. TypeOK'
  BY DEF TypeOK, TasksKept, NoneRuns
<1>2. SentInSpan'
  <2> SUFFICES ASSUME NEW t \in Tasks
               PROVE  \/ sent'[t].tc = NoTrace
                      \/ \E k \in 1..Len(spans') : sent'[t].tc = spans'[k].tc
    BY DEF SentInSpan
  <2>1. CASE sent[t].tc = NoTrace
    BY <2>1
  <2>2. CASE \E k \in 1..Len(spans) : sent[t].tc = spans[k].tc
    <3>1. PICK k \in 1..Len(spans) : sent[t].tc = spans[k].tc
      BY <2>2
    <3>2. k \in 1..Len(spans') /\ spans'[k] = spans[k]
      OBVIOUS
    <3> QED
      BY <3>1, <3>2
  <2> QED
    BY <2>1, <2>2 DEF SentInSpan
<1>3. DataKept'
  BY DEF DataKept, TasksKept
<1>4. RunsOnData'
  <2> SUFFICES ASSUME NEW c \in Consumers, NEW t \in Tasks, run'[c][t].on
               PROVE  /\ task'[t].state # "none"
                      /\ run'[c][t].got = unwrapEnvelope(task'[t].data)
                      /\ (run'[c][t].tc = NoTrace) <=> ~IsValid(run'[c][t].got.trace.trace_id)
    BY DEF RunsOnData
  <2>1. run'[c][t] = run[c][t] /\ run[c][t].on
    BY DEF NoneRuns
  <2>2. task'[t].data = task[t].data /\ (task'[t].state = "none" <=> task[t].state = "none")
    BY DEF TasksKept
  <2> QED
    BY <2>1, <2>2 DEF RunsOnData
<1> QED
  BY <1>1, <1>2, <1>3, <1>4

(* ... and makes no span. *)
LEMMA MessageStays ==
    ASSUME MessageInv, TasksKept, NoneRuns, UNCHANGED <<sent, spans>>,
           ConsumersOK', paused' \in BOOLEAN
    PROVE  MessageInv'
<1>1. spans' \in Seq(Span)
  BY DEF MessageInv, TypeOK
<1>2. SpansInOrder'
  BY DEF MessageInv, SpansInOrder
<1>3. CallTree'
  BY DEF MessageInv, CallTree
<1> QED
  BY <1>1, <1>2, <1>3, MessageKept

LEMMA ConsumersStay ==
    ASSUME ConsumersOK, UNCHANGED consumerVars
    PROVE  ConsumersOK'
<1> QED
  BY DEF ConsumersOK, consumerVars

LEMMA LifecycleType ==
    ASSUME ConsumersOK, NEW c \in Consumers, Lifecycle(c)
    PROVE  ConsumersOK'
<1> USE DEF ConsumersOK
<1>1. CASE Start(c)
  BY <1>1 DEF Start
<1>2. CASE Cancel(c)
  BY <1>2 DEF Cancel
<1>3. CASE StartEnds(c)
  BY <1>3 DEF StartEnds, Shutdown, AfterShutdown
<1>4. CASE Stop(c)
  BY <1>4 DEF Stop
<1>5. CASE StopShutsDown(c)
  BY <1>5 DEF StopShutsDown, Shutdown, AfterShutdown
<1>6. CASE Drained(c)
  BY <1>6 DEF Drained
<1>7. CASE Crash(c)
  BY <1>7 DEF Crash
<1> QED
  BY <1>1, <1>2, <1>3, <1>4, <1>5, <1>6, <1>7 DEF Lifecycle

(* The life of a consumer leaves the tasks alone; a crash ends its handlers. *)
LEMMA LifecycleKeeps ==
    ASSUME TypeOK, NEW c \in Consumers, Lifecycle(c)
    PROVE  UNCHANGED <<task, sent, paused, spans>> /\ NoneRuns
<1>1. UNCHANGED <<task, sent, paused, spans>>
  BY DEF Lifecycle, Start, Cancel, StartEnds, Stop, StopShutsDown, Drained, Crash
<1>2. CASE UNCHANGED run
  BY <1>1, <1>2, RunsUnchanged
<1>3. CASE Crash(c)
  <2>1. run \in [Consumers -> [Tasks -> Run]] /\ NoRun \in Run /\ ~NoRun.on
    BY NoTraceIsContext, RawType DEF TypeOK, NoRun, Run, Payloads
  <2>2. run' = [run EXCEPT ![c] = [t \in Tasks |-> NoRun]]
    BY <1>3 DEF Crash
  <2>3. run' \in [Consumers -> [Tasks -> Run]]
    BY <2>1, <2>2
  <2>4. \A d \in Consumers, u \in Tasks : run'[d][u] = run[d][u] \/ run'[d][u] = NoRun
    BY <2>1, <2>2
  <2> QED
    BY <1>1, <2>1, <2>3, <2>4 DEF NoneRuns
<1> QED
  BY <1>2, <1>3 DEF Lifecycle, Start, Cancel, StartEnds, Stop, StopShutsDown, Drained

LEMMA SpanMade ==
    ASSUME MessageInv, UNCHANGED <<task, sent, run, paused, consumerVars>>,
           NEW tc \in Context, NEW by \in Int, NEW how \in {"outside", "http", "saga", "queue"},
           Record(tc, by, how),
           tc.spanId = NewSpan, IsValid(tc.traceID),
           how # "outside" => /\ by \in 1..Len(spans)
                              /\ tc.traceID = spans[by].tc.traceID
                              /\ tc.parentSpanId = spans[by].tc.spanId
                              /\ tc.sampled = (spans[by].tc.sampled \/ how = "saga")
    PROVE  MessageInv'
<1>1. TypeOK /\ SpansInOrder /\ CallTree /\ ConsumersOK /\ paused \in BOOLEAN
  BY DEF MessageInv, TypeOK
<1>2. /\ spans' \in Seq(Span) /\ SpansInOrder' /\ CallTree'
      /\ \A k \in 1..Len(spans) : k \in 1..Len(spans') /\ spans'[k] = spans[k]
  BY <1>1, TreeGrows
<1>3. TasksKept /\ NoneRuns
  BY <1>1, TasksUnchanged, RunsUnchanged
<1>4. ConsumersOK' /\ paused' \in BOOLEAN
  BY <1>1, ConsumersStay
<1> QED
  BY <1>2, <1>3, <1>4, MessageKept

(* A span in the list, and the number of the next one. *)
LEMMA SpanFacts ==
    ASSUME MessageInv
    PROVE  /\ NewSpan \in Int /\ NewSpan > 0
           /\ \A k \in DOMAIN spans :
                 /\ k \in 1..Len(spans) /\ k \in Int
                 /\ spans[k].tc \in Context
                 /\ spans[k].tc.traceID \in Int /\ IsValid(spans[k].tc.traceID)
                 /\ spans[k].tc.spanId = k /\ IsValid(k)
                 /\ spans[k].tc.sampled \in BOOLEAN
<1>1. spans \in Seq(Span)
  BY DEF MessageInv, TypeOK
<1>2. Len(spans) \in Nat /\ DOMAIN spans = 1..Len(spans)
  BY <1>1
<1>3. NewSpan \in Int /\ NewSpan > 0
  BY <1>2 DEF NewSpan
<1>4. ASSUME NEW k \in DOMAIN spans
      PROVE  /\ k \in 1..Len(spans) /\ k \in Int
             /\ spans[k].tc \in Context
             /\ spans[k].tc.traceID \in Int /\ IsValid(spans[k].tc.traceID)
             /\ spans[k].tc.spanId = k /\ IsValid(k)
             /\ spans[k].tc.sampled \in BOOLEAN
  <2>1. k \in 1..Len(spans) /\ k \in Int /\ k > 0
    BY <1>2
  <2>2. spans[k] \in Span
    BY <1>1, <2>1
  <2>3. spans[k].tc \in Context
    BY <2>2 DEF Span
  <2>4. spans[k].tc.traceID \in Int /\ spans[k].tc.sampled \in BOOLEAN
    BY <2>3 DEF Context
  <2>5. IsValid(spans[k].tc.traceID) /\ spans[k].tc.spanId = k
    BY <2>1 DEF MessageInv, SpansInOrder
  <2> QED
    BY <2>1, <2>3, <2>4, <2>5 DEF IsValid
<1> QED
  BY <1>3, <1>4

LEMMA ServeStep ==
    ASSUME MessageInv, Serve
    PROVE  MessageInv'
<1>1. None \in Int /\ Bad \in Int /\ Outside \in Int
  BY DEF None, Bad, Outside
<1>2. PICK h : /\ h.traceID \in Int /\ h.requestID \in Int /\ h.spanId \in Int
               /\ Record(Extract(h, NewSpan, NewSpan), None, "outside")
  BY <1>1, Zenon DEF Serve
<1>3. UNCHANGED <<task, sent, run, paused, consumerVars>>
  BY Zenon DEF Serve
<1>4. NewSpan \in Int /\ NewSpan > 0
  BY SpanFacts
<1> DEFINE tc == Extract(h, NewSpan, NewSpan)
<1>5. tc \in Context /\ tc.spanId = NewSpan /\ IsValid(tc.traceID)
  BY <1>2, <1>4, ExtractType
<1>6. Record(tc, None, "outside")
  BY <1>2
<1> HIDE DEF tc
<1> QED
  BY <1>1, <1>3, <1>5, <1>6, SpanMade

LEMMA CallStep ==
    ASSUME MessageInv, NEW k \in DOMAIN spans, Call(k)
    PROVE  MessageInv'
<1>1. /\ NewSpan \in Int /\ NewSpan > 0 /\ k \in 1..Len(spans) /\ k \in Int
      /\ spans[k].tc \in Context
      /\ spans[k].tc.traceID \in Int /\ IsValid(spans[k].tc.traceID)
      /\ spans[k].tc.spanId = k /\ IsValid(k)
      /\ spans[k].tc.sampled \in BOOLEAN
  BY SpanFacts
<1> DEFINE h  == Inject(spans[k].tc)
           tc == Extract(h, NewSpan, NewSpan)
<1>2. /\ h.traceID = spans[k].tc.traceID /\ h.requestID = None /\ h.spanId = k
      /\ h.sampled # "0" <=> spans[k].tc.sampled
  BY <1>1 DEF Inject
<1>3. None \in Int
  BY DEF None
<1>4. Record(tc, k, "http") /\ UNCHANGED <<task, sent, run, paused, consumerVars>>
  BY DEF Call
<1> HIDE DEF h
<1>5. /\ tc \in Context /\ tc.spanId = NewSpan /\ IsValid(tc.traceID)
      /\ tc.traceID = h.traceID /\ tc.parentSpanId = h.spanId
      /\ tc.sampled <=> h.sampled # "0"
  BY <1>1, <1>2, <1>3, ExtractType
<1>6. tc.sampled \in BOOLEAN
  BY <1>5 DEF Context
<1> HIDE DEF tc
<1>7. /\ tc.traceID = spans[k].tc.traceID
      /\ tc.parentSpanId = spans[k].tc.spanId
      /\ tc.sampled = (spans[k].tc.sampled \/ "http" = "saga")
  BY <1>1, <1>2, <1>5, <1>6
<1> QED
  BY <1>1, <1>4, <1>5, <1>7, SpanMade

LEMMA DriveSagaStep ==
    ASSUME MessageInv, NEW k \in DOMAIN spans, DriveSaga(k)
    PROVE  MessageInv'
<1>1. /\ NewSpan \in Int /\ NewSpan > 0 /\ k \in 1..Len(spans) /\ k \in Int
      /\ spans[k].tc.traceID \in Int /\ IsValid(spans[k].tc.traceID)
      /\ spans[k].tc.spanId = k
      /\ spans[k].tc.sampled \in BOOLEAN
  BY SpanFacts
<1> DEFINE tc == TraceContext(spans[k].tc.traceID, NewSpan, k, TRUE)
<1>2. spans[k].tc.traceID # None
  BY <1>1 DEF IsValid, None
<1>3. ExtractTraceFromPayload(StorePayload(spans[k].tc), NewSpan) = tc
  BY <1>1, <1>2 DEF ExtractTraceFromPayload, StorePayload
<1>4. Record(tc, k, "saga") /\ UNCHANGED <<task, sent, run, paused, consumerVars>>
  BY <1>3 DEF DriveSaga
<1>5. /\ tc \in Context /\ tc.spanId = NewSpan /\ IsValid(tc.traceID)
      /\ tc.traceID = spans[k].tc.traceID
      /\ tc.parentSpanId = spans[k].tc.spanId
      /\ tc.sampled = (spans[k].tc.sampled \/ "saga" = "saga")
  BY <1>1 DEF TraceContext, Context
<1> HIDE DEF tc
<1> QED
  BY <1>1, <1>4, <1>5, SpanMade

LEMMA PublishStep ==
    ASSUME MessageInv, NEW k \in {None} \cup DOMAIN spans, Publish(k)
    PROVE  MessageInv'
<1> DEFINE tc == IF k = None THEN NoTrace ELSE spans[k].tc
<1>1. /\ tc \in Context
      /\ tc = NoTrace \/ \E j \in 1..Len(spans) : tc = spans[j].tc
  <2>1. CASE k = None
    BY <2>1, NoTraceIsContext
  <2>2. CASE k # None
    <3>1. k \in DOMAIN spans /\ tc = spans[k].tc
      BY <2>2
    <3>2. k \in 1..Len(spans) /\ spans[k].tc \in Context
      BY <3>1, SpanFacts
    <3> QED
      BY <3>1, <3>2
  <2> QED
    BY <2>1, <2>2
<1>2. PICK t \in Tasks, payload \in Payloads, reply \in Reply, meta \in Meta :
         /\ task[t].state = "none"
         /\ task' = [task EXCEPT ![t] = [NoTask EXCEPT !.state = "pending",
                               !.data = wrapWithTrace(tc, payload, reply, meta)]]
         /\ sent' = [sent EXCEPT ![t] = [payload |-> payload, reply |-> reply,
                                         meta |-> meta, tc |-> tc]]
         /\ UNCHANGED <<run, paused, consumerVars, spans>>
  BY DEF Publish
<1> HIDE DEF tc
<1> DEFINE m == [payload |-> payload, reply |-> reply, meta |-> meta, tc |-> tc]
           r == [NoTask EXCEPT !.state = "pending", !.data = Bytes(m)]
<1>3. m \in Message /\ m.tc = tc
  BY <1>1 DEF Message, Reply, Meta
<1>4. Bytes(m) = wrapWithTrace(tc, payload, reply, meta)
  BY DEF Bytes
<1>5. sent' = [sent EXCEPT ![t] = m]
  BY <1>2
<1>6. task' = [task EXCEPT ![t] = r]
  BY <1>2, <1>4
<1>7. Bytes(m) \in Data
  BY <1>3, BytesType
<1> HIDE DEF m
<1>8. r \in Task /\ r.state = "pending" /\ r.data = Bytes(m)
  <2>1. NoTask \in Task
    BY RawType, TaskQueueAssumption DEF NoTask, Task, State, Payloads
  <2>2. "pending" \in State
    BY DEF State
  <2> DEFINE d == Bytes(m)
  <2>3. d \in Data
    BY <1>7
  <2> HIDE DEF d
  <2> QED
    BY <2>1, <2>2, <2>3 DEF Task, d
<1> HIDE DEF r
<1>9. task \in [Tasks -> Task] /\ sent \in [Tasks -> Message] /\ t \in Tasks
  BY DEF MessageInv, TypeOK
<1>10. /\ task' \in [Tasks -> Task] /\ task'[t] = r
       /\ \A u \in Tasks : u # t => task'[u] = task[u]
  BY <1>6, <1>8, <1>9
<1>11. /\ sent' \in [Tasks -> Message] /\ sent'[t] = m
       /\ \A u \in Tasks : u # t => sent'[u] = sent[u]
  BY <1>3, <1>5, <1>9
<1>12. TypeOK'
  <2>1. ConsumersOK'
    BY <1>2, ConsumersStay DEF MessageInv, TypeOK
  <2> QED
    BY <1>2, <1>10, <1>11, <2>1 DEF MessageInv, TypeOK
<1>13. SpansInOrder' /\ CallTree'
  BY <1>2 DEF MessageInv, SpansInOrder, CallTree
<1>14. SentInSpan'
  <2> SUFFICES ASSUME NEW u \in Tasks
               PROVE  \/ sent'[u].tc = NoTrace
                      \/ \E j \in 1..Len(spans') : sent'[u].tc = spans'[j].tc
    BY DEF SentInSpan
  <2>1. CASE u = t
    BY <1>1, <1>2, <1>3, <1>11, <2>1
  <2>2. CASE u # t
    BY <1>2, <1>11, <2>2 DEF MessageInv, SentInSpan
  <2> QED
    BY <2>1, <2>2
<1>15. DataKept'
  <2> SUFFICES ASSUME NEW u \in Tasks, task'[u].state # "none"
               PROVE  task'[u].data = Bytes(sent'[u])
    BY DEF DataKept
  <2>1. CASE u = t
    BY <1>8, <1>10, <1>11, <2>1
  <2>2. CASE u # t
    BY <1>10, <1>11, <2>2 DEF MessageInv, DataKept
  <2> QED
    BY <2>1, <2>2
<1>16. RunsOnData'
  <2> SUFFICES ASSUME NEW c \in Consumers, NEW u \in Tasks, run[c][u].on
               PROVE  /\ task'[u].state # "none"
                      /\ run[c][u].got = unwrapEnvelope(task'[u].data)
                      /\ (run[c][u].tc = NoTrace) <=> ~IsValid(run[c][u].got.trace.trace_id)
    BY <1>2 DEF RunsOnData
  <2>1. u # t
    BY <1>2 DEF MessageInv, RunsOnData
  <2> QED
    BY <1>10, <2>1 DEF MessageInv, RunsOnData
<1> QED
  BY <1>12, <1>13, <1>14, <1>15, <1>16 DEF MessageInv

(* What the restored context of a handler is. *)
LEMMA TraceFromMetadataType ==
    ASSUME NEW m \in Metadata, NEW n \in Int, n > 0
    PROVE  /\ TraceFromMetadata(m, n) \in Context
           /\ (TraceFromMetadata(m, n) = NoTrace) <=> ~IsValid(m.trace_id)
           /\ IsValid(m.trace_id) =>
                /\ TraceFromMetadata(m, n).spanId = n
                /\ TraceFromMetadata(m, n).traceID = m.trace_id
                /\ IsValid(m.span_id) => TraceFromMetadata(m, n).parentSpanId = m.span_id
                /\ TraceFromMetadata(m, n).sampled <=> m.sampled # "0"
<1>1. m.trace_id \in Int /\ m.span_id \in Int
  BY DEF Metadata
<1>2. CASE ~IsValid(m.trace_id)
  <2>1. TraceFromMetadata(m, n) = NoTrace
    BY <1>2 DEF TraceFromMetadata
  <2> QED
    BY <1>2, <2>1, NoTraceIsContext
<1>3. CASE IsValid(m.trace_id)
  <2> DEFINE parent == IF IsValid(m.span_id) THEN m.span_id ELSE None
             sampled == m.sampled # "0"
             tc == TraceContext(m.trace_id, n, parent, sampled)
  <2>1. TraceFromMetadata(m, n) = tc
    BY <1>3 DEF TraceFromMetadata
  <2>2. parent \in Int /\ sampled \in BOOLEAN
    BY <1>1 DEF None
  <2>3. IsValid(m.span_id) => parent = m.span_id
    OBVIOUS
  <2> HIDE DEF parent, sampled
  <2>4. tc \in Context /\ tc.traceID = m.trace_id /\ tc.spanId = n /\ tc.parentSpanId = parent
        /\ tc.sampled = sampled
    BY <1>1, <2>2 DEF TraceContext, Context
  <2>5. tc # NoTrace
    BY <1>3, <2>4, NoTraceIsContext
  <2> HIDE DEF tc
  <2> QED
    BY <1>3, <2>1, <2>3, <2>4, <2>5 DEF sampled
<1> QED
  BY <1>2, <1>3

(* The bytes of a known task, and the trace they hold. *)
LEMMA BytesHold ==
    ASSUME MessageInv, NEW t \in Tasks, task[t].state # "none"
    PROVE  LET u == unwrapEnvelope(task[t].data)
           IN  /\ u \in Data
               /\ IsValid(u.trace.trace_id) =>
                     /\ u.trace = MetadataFromTraceContext(sent[t].tc)
                     /\ sent[t].tc # NoTrace
                     /\ \E k \in DOMAIN spans : sent[t].tc = spans[k].tc
               /\ Conveyed(sent[t]) =>
                     /\ u.payload = sent[t].payload
                     /\ u.reply = sent[t].reply
                     /\ u.meta = sent[t].meta
                     /\ ~IsValid(u.trace.trace_id) <=> sent[t].tc = NoTrace
<1>1. sent[t] \in Message /\ task[t].data = Bytes(sent[t])
  BY DEF MessageInv, TypeOK, DataKept
<1>2. sent[t].tc = NoTrace \/ \E k \in DOMAIN spans : sent[t].tc = spans[k].tc
  <2>1. DOMAIN spans = 1..Len(spans)
    BY DEF MessageInv, TypeOK
  <2> QED
    BY <2>1 DEF MessageInv, SentInSpan
<1>3. sent[t].tc = NoTrace \/ IsValid(sent[t].tc.traceID)
  BY <1>2, SpanFacts
<1> QED
  BY <1>1, <1>2, <1>3, RoundTrip

LEMMA HandleStep ==
    ASSUME MessageInv, NEW c \in Consumers, NEW t \in Tasks, Handle(c, t)
    PROVE  MessageInv'
<1> DEFINE got == unwrapEnvelope(task[t].data)
           tc  == TraceFromMetadata(got.trace, NewSpan)
           r   == [task[t] EXCEPT !.state = "active", !.at = c]
           n   == [on |-> TRUE, got |-> got, tc |-> tc]
<1>1. TypeOK /\ SpansInOrder /\ CallTree
  BY DEF MessageInv
<1>2. task \in [Tasks -> Task] /\ task[t] \in Task /\ run \in [Consumers -> [Tasks -> Run]]
      /\ task[t].state = "pending"
  BY <1>1 DEF TypeOK, Handle
<1>3. /\ task' = [task EXCEPT ![t] = r]
      /\ run' = [run EXCEPT ![c] = [run[c] EXCEPT ![t] = n]]
      /\ UNCHANGED <<sent, paused, consumerVars>>
  BY <1>2 DEF Handle, Task
<1>4. IF tc = NoTrace \/ ~HasRoom THEN UNCHANGED spans
                                  ELSE Record(tc, sent[t].tc.spanId, "queue")
  BY DEF Handle
<1>5. r \in Task /\ r.state = "active" /\ r.data = task[t].data
  BY <1>2 DEF Task, State
<1>6. /\ got \in Data
      /\ IsValid(got.trace.trace_id) =>
            /\ got.trace = MetadataFromTraceContext(sent[t].tc)
            /\ \E k \in DOMAIN spans : sent[t].tc = spans[k].tc
  BY <1>2, BytesHold
<1> HIDE DEF r
<1>7. TasksKept
  BY <1>1, <1>2, <1>3, <1>5, TaskReplaced
<1>8. NewSpan \in Int /\ NewSpan > 0
  BY SpanFacts
<1>9. got.trace \in Metadata
  BY <1>6 DEF Data
<1>10. /\ tc \in Context
       /\ (tc = NoTrace) <=> ~IsValid(got.trace.trace_id)
       /\ IsValid(got.trace.trace_id) =>
            /\ tc.spanId = NewSpan
            /\ tc.traceID = got.trace.trace_id
            /\ IsValid(got.trace.span_id) => tc.parentSpanId = got.trace.span_id
            /\ tc.sampled <=> got.trace.sampled # "0"
  <2> HIDE DEF got
  <2> QED
    BY <1>8, <1>9, TraceFromMetadataType
<1>11. got = unwrapEnvelope(task[t].data)
  OBVIOUS
<1> HIDE DEF got, tc
<1>12. n \in Run /\ n.on /\ n.got = got /\ n.tc = tc
  BY <1>6, <1>10 DEF Run
<1> HIDE DEF n
<1>13. /\ run' \in [Consumers -> [Tasks -> Run]]
       /\ run'[c][t] = n
       /\ \A d \in Consumers, u \in Tasks : (d # c \/ u # t) => run'[d][u] = run[d][u]
  BY <1>2, <1>3, <1>12
(* The spans are as they were, or one is made for the handler. *)
<1>14. /\ spans' \in Seq(Span) /\ SpansInOrder' /\ CallTree'
       /\ \A k \in 1..Len(spans) : k \in 1..Len(spans') /\ spans'[k] = spans[k]
  <2>1. CASE UNCHANGED spans
    BY <1>1, <2>1 DEF TypeOK, SpansInOrder, CallTree
  <2>2. CASE tc # NoTrace /\ Record(tc, sent[t].tc.spanId, "queue")
    <3>1. IsValid(got.trace.trace_id)
      BY <1>10, <2>2
    <3>2. PICK k \in DOMAIN spans : sent[t].tc = spans[k].tc
      BY <1>6, <3>1
    <3>3. /\ k \in 1..Len(spans) /\ k \in Int /\ spans[k].tc \in Context
          /\ spans[k].tc.spanId = k /\ IsValid(k) /\ spans[k].tc.sampled \in BOOLEAN
      BY SpanFacts
    <3>4. /\ got.trace.trace_id = spans[k].tc.traceID
          /\ got.trace.span_id = k
          /\ got.trace.sampled # "0" <=> spans[k].tc.sampled
      BY <1>6, <3>1, <3>2, <3>3, MetadataType
    <3>5. tc.spanId = NewSpan /\ IsValid(tc.traceID) /\ tc.sampled \in BOOLEAN
      BY <1>10, <3>1 DEF Context
    <3>6. /\ tc.traceID = spans[k].tc.traceID
          /\ tc.parentSpanId = spans[k].tc.spanId
          /\ tc.sampled = (spans[k].tc.sampled \/ "queue" = "saga")
      BY <1>10, <3>1, <3>3, <3>4, <3>5
    <3>7. Record(tc, k, "queue")
      BY <2>2, <3>2, <3>3
    <3> QED
      BY <1>1, <1>10, <3>3, <3>5, <3>6, <3>7, TreeGrows
  <2> QED
    BY <1>4, <2>1, <2>2
<1>15. TypeOK'
  <2>1. ConsumersOK'
    BY <1>1, <1>3, ConsumersStay DEF TypeOK
  <2> QED
    BY <1>1, <1>3, <1>7, <1>13, <1>14, <2>1 DEF TypeOK, TasksKept
<1>16. SentInSpan'
  <2> SUFFICES ASSUME NEW u \in Tasks
               PROVE  \/ sent[u].tc = NoTrace
                      \/ \E k \in 1..Len(spans') : sent[u].tc = spans'[k].tc
    BY <1>3 DEF SentInSpan
  <2>1. sent[u].tc = NoTrace \/ \E k \in 1..Len(spans) : sent[u].tc = spans[k].tc
    BY DEF MessageInv, SentInSpan
  <2> QED
    BY <1>14, <2>1
<1>17. DataKept'
  BY <1>3, <1>7 DEF MessageInv, DataKept, TasksKept
<1>18. RunsOnData'
  <2> SUFFICES ASSUME NEW d \in Consumers, NEW u \in Tasks, run'[d][u].on
               PROVE  /\ task'[u].state # "none"
                      /\ run'[d][u].got = unwrapEnvelope(task'[u].data)
                      /\ (run'[d][u].tc = NoTrace) <=> ~IsValid(run'[d][u].got.trace.trace_id)
    BY DEF RunsOnData
  <2>1. task'[u].data = task[u].data /\ (task'[u].state = "none" <=> task[u].state = "none")
    BY <1>7 DEF TasksKept
  <2>2. CASE d = c /\ u = t
    BY <1>2, <1>10, <1>11, <1>12, <1>13, <2>1, <2>2
  <2>3. CASE d # c \/ u # t
    BY <1>13, <2>1, <2>3 DEF MessageInv, RunsOnData
  <2> QED
    BY <2>2, <2>3
<1> QED
  BY <1>14, <1>15, <1>16, <1>17, <1>18 DEF MessageInv

LEMMA MessageInit ==
    Init => MessageInv
<1> SUFFICES ASSUME Init PROVE MessageInv
  OBVIOUS
<1> USE DEF Init
<1>1. /\ Raw("nil") \in Data /\ NoTrace \in Context
      /\ {"nil"} \subseteq Payloads
  BY NoTraceIsContext, RawType DEF Payloads
<1>2. NoTask \in Task /\ NoTask.state = "none"
  BY <1>1, TaskQueueAssumption DEF NoTask, Task, State
<1>3. NoMsg \in Message /\ NoMsg.tc = NoTrace
  BY <1>1 DEF NoMsg, Message
<1>4. NoRun \in Run /\ ~NoRun.on
  BY <1>1 DEF NoRun, Run
<1>5. spans \in Seq(Span) /\ Len(spans) = 0 /\ DOMAIN spans = {}
  OBVIOUS
<1>6. TypeOK
  <2>1. ConsumersOK
    BY DEF ConsumersOK
  <2> QED
    BY <1>2, <1>3, <1>4, <1>5, <2>1 DEF TypeOK
<1>7. SpansInOrder /\ CallTree
  BY <1>5 DEF SpansInOrder, CallTree
<1>8. SentInSpan
  BY <1>3 DEF SentInSpan
<1>9. DataKept
  BY <1>2 DEF DataKept
<1>10. RunsOnData
  BY <1>4 DEF RunsOnData
<1> QED
  BY <1>6, <1>7, <1>8, <1>9, <1>10 DEF MessageInv

LEMMA MessageNext ==
    MessageInv /\ [Next]_vars => MessageInv'
<1> SUFFICES ASSUME MessageInv, [Next]_vars PROVE MessageInv'
  OBVIOUS
<1>1. TypeOK /\ ConsumersOK /\ paused \in BOOLEAN
  BY DEF MessageInv, TypeOK
<1>2. CASE Requests
  BY <1>2, ServeStep, CallStep, DriveSagaStep DEF Requests
<1>3. ASSUME NEW k \in {None} \cup DOMAIN spans, Publish(k)
      PROVE  MessageInv'
  BY <1>3, PublishStep
<1>4. ASSUME NEW c \in Consumers, Lifecycle(c)
      PROVE  MessageInv'
  <2>1. UNCHANGED <<task, sent, paused, spans>> /\ NoneRuns
    BY <1>1, <1>4, LifecycleKeeps
  <2>2. ConsumersOK'
    BY <1>1, <1>4, LifecycleType
  <2> QED
    BY <1>1, <2>1, <2>2, TasksUnchanged, MessageStays
<1>5. ASSUME NEW t \in Tasks, Working(t)
      PROVE  MessageInv'
  <2>1. ASSUME NEW c \in Consumers, Handle(c, t)
        PROVE  MessageInv'
    BY <2>1, HandleStep
  <2>2. ASSUME NEW c \in Consumers, HandlerReturns(c, t)
        PROVE  MessageInv'
    <3>1. UNCHANGED <<sent, paused, consumerVars, spans>>
      BY <2>2 DEF HandlerReturns
    <3> QED
      BY <1>1, <2>2, <3>1, ReturnKeeps, ConsumersStay, MessageStays
  <2>3. ASSUME NEW c \in Consumers, Abort(c, t)
        PROVE  MessageInv'
    <3>1. UNCHANGED <<sent, run, paused, consumerVars, spans>>
      BY <2>3 DEF Abort
    <3> QED
      BY <1>1, <2>3, <3>1, AbortKeeps, RunsUnchanged, ConsumersStay, MessageStays
  <2>4. CASE RetryDue(t) \/ Recover(t)
    <3>1. UNCHANGED <<sent, run, paused, consumerVars, spans>>
      BY <2>4 DEF RetryDue, Recover
    <3> QED
      BY <1>1, <2>4, <3>1, RetryKeeps, RunsUnchanged, ConsumersStay, MessageStays
  <2> QED
    BY <1>5, <2>1, <2>2, <2>3, <2>4 DEF Working
<1>6. CASE Inspector
  BY <1>1, <1>6, InspectorKeeps, RunsUnchanged, ConsumersStay, MessageStays
<1>7. CASE UNCHANGED vars
  <2>1. UNCHANGED <<task, sent, run, paused, consumerVars, spans>>
    BY <1>7 DEF vars
  <2> QED
    BY <1>1, <2>1, TasksUnchanged, RunsUnchanged, ConsumersStay, MessageStays
<1> QED
  BY <1>2, <1>3, <1>4, <1>5, <1>6, <1>7 DEF Next

LEMMA MessageInvariant ==
    Spec => []MessageInv
<1> QED
  BY MessageInit, MessageNext, PTL DEF Spec

-----------------------------------------------------------------------------
(* The theorems about messages and spans *)

(***************************************************************************)
(* Whatever the broker, the consumers, the inspector and asynq do, every   *)
(* record has its type: no task is retried more than MaxRetry times, and   *)
(* each is in one of asynq's states.                                       *)
(***************************************************************************)
THEOREM QueueTypeCorrect == Spec => []TypeOK
<1>1. MessageInv => TypeOK
  BY DEF MessageInv
<1> QED
  BY <1>1, MessageInvariant, PTL

(***************************************************************************)
(* Through any chain of requests, messages, retries and sagas a span is in *)
(* the trace of the span that caused it and names that one as its parent   *)
(* (trace/propagator.go, asynqbroker/trace_envelope.go, saga/executor.go). *)
(***************************************************************************)
THEOREM CallTreeTheorem == Spec => []CallTree
<1>1. MessageInv => CallTree
  BY DEF MessageInv
<1> QED
  BY <1>1, MessageInvariant, PTL

(* The inspector's names of asynq's states. *)
LEMMA ListedUnderOneState ==
    ASSUME TypeOK, NEW t \in Tasks, Known(t)
    PROVE  {st \in TaskStates : convertTaskInfo(t) \in ListTasks(st)}
              = {convertTaskInfo(t).state}
<1>1. task[t].state \in {"pending", "active", "retry", "archived"}
  <2>1. task[t].state \in State
    BY DEF TypeOK, Task
  <2> QED
    BY <2>1 DEF State, Known
<1>2. convertTaskInfo(t).state = convertState(task[t].state)
  BY DEF convertTaskInfo
<1>3. ASSUME NEW st \in TaskStates
      PROVE  convertTaskInfo(t) \in ListTasks(st) <=> task[t].state = asynqState(st)
  <2>1. \A u \in Tasks : convertTaskInfo(u) = convertTaskInfo(t) => u = t
    <3>1. \A u \in Tasks : convertTaskInfo(u).id = u
      BY DEF convertTaskInfo
    <3> QED
      BY <3>1
  <2>2. convertTaskInfo(t) \in ListTasks(st) <=> t \in InState(st)
    BY <2>1 DEF ListTasks, InState
  <2> QED
    BY <2>2 DEF InState
<1>4. ASSUME NEW st \in TaskStates
      PROVE  task[t].state = asynqState(st) <=> st = convertState(task[t].state)
  BY <1>1 DEF asynqState, convertState, TaskStates
<1>5. convertState(task[t].state) \in TaskStates
  BY <1>1 DEF convertState, TaskStates
<1> QED
  BY <1>2, <1>3, <1>4, <1>5

(***************************************************************************)
(* For every payload an envelope conveys (Conveyed), a handler is given on *)
(* every attempt what Publish was given, and the inspector shows the same  *)
(* and lists each task under one state (wrapWithTrace and unwrapEnvelope   *)
(* of trace_envelope.go, Consumer.Handle, inspector.go).                   *)
(***************************************************************************)
THEOREM SeenTheorem == Spec => []SeenAsPublished
<1>1. MessageInv => SeenAsPublished
  <2> SUFFICES ASSUME MessageInv PROVE SeenAsPublished
    OBVIOUS
  <2>1. ASSUME NEW t \in Tasks, NEW c \in Consumers, run[c][t].on, Conveyed(sent[t])
        PROVE  /\ run[c][t].got.payload = sent[t].payload
               /\ run[c][t].got.reply = sent[t].reply
               /\ run[c][t].got.meta = sent[t].meta
               /\ (run[c][t].tc = NoTrace) <=> (sent[t].tc = NoTrace)
    <3>1. /\ task[t].state # "none"
          /\ run[c][t].got = unwrapEnvelope(task[t].data)
          /\ (run[c][t].tc = NoTrace) <=> ~IsValid(run[c][t].got.trace.trace_id)
      BY <2>1 DEF MessageInv, RunsOnData
    <3> QED
      BY <2>1, <3>1, BytesHold
  <2>2. ASSUME NEW t \in Tasks, Known(t)
        PROVE  /\ Conveyed(sent[t]) => convertTaskInfo(t).payload = sent[t].payload
               /\ {st \in TaskStates : convertTaskInfo(t) \in ListTasks(st)}
                     = {convertTaskInfo(t).state}
    <3>1. task[t].state # "none"
      BY <2>2 DEF Known
    <3>2. convertTaskInfo(t).payload = unwrapEnvelope(task[t].data).payload
      BY DEF convertTaskInfo
    <3>3. TypeOK
      BY DEF MessageInv
    <3>4. Conveyed(sent[t]) => convertTaskInfo(t).payload = sent[t].payload
      BY <3>1, <3>2, BytesHold
    <3> QED
      BY <2>2, <3>3, <3>4, ListedUnderOneState
  <2> QED
    BY <2>1, <2>2 DEF SeenAsPublished
<1> QED
  BY <1>1, MessageInvariant, PTL

-----------------------------------------------------------------------------
(* The life of a consumer *)

(* A step that gives no consumer a task leaves the servers drained. *)
LEMMA ClosingStays ==
    ASSUME Closing, NoneTaken, UNCHANGED <<server, starter, stopper>>
    PROVE  Closing'
<1>1. ASSUME NEW c \in Consumers
      PROVE  Held(c)' \subseteq Held(c)
  BY DEF Held, NoneTaken
<1> SUFFICES ASSUME NEW c \in Consumers
             PROVE  /\ server[c] \in {"new", "dead"} => starter[c] = "none"
                    /\ server[c] = "active" => starter[c] = "select"
                    /\ server[c] # "closed" => stopper[c] # "drain"
                    /\ server[c] = "closed" /\ Held(c)' # {} =>
                          starter[c] = "drain" \/ stopper[c] = "drain"
  BY DEF Closing
<1>2. Held(c)' # {} => Held(c) # {}
  BY <1>1
<1> QED
  BY <1>2 DEF Closing

(* A consumer takes a task while its server is active. *)
LEMMA HandleCloses ==
    ASSUME TypeOK, Closing, NEW c \in Consumers, NEW t \in Tasks, Handle(c, t)
    PROVE  Closing'
<1>1. task \in [Tasks -> Task] /\ server[c] = "active" /\ UNCHANGED <<server, starter, stopper>>
  BY DEF TypeOK, Handle, consumerVars
<1>2. /\ task' = [task EXCEPT ![t] = [task[t] EXCEPT !.state = "active", !.at = c]]
      /\ task[t] \in Task
  BY <1>1 DEF Handle, Task
<1>3. task'[t].at = c /\ \A u \in Tasks : u # t => task'[u] = task[u]
  BY <1>1, <1>2 DEF Task
<1>4. ASSUME NEW d \in Consumers, d # c
      PROVE  Held(d)' \subseteq Held(d)
  BY <1>3, <1>4 DEF Held
<1> SUFFICES ASSUME NEW d \in Consumers
             PROVE  /\ server[d] \in {"new", "dead"} => starter[d] = "none"
                    /\ server[d] = "active" => starter[d] = "select"
                    /\ server[d] # "closed" => stopper[d] # "drain"
                    /\ server[d] = "closed" /\ Held(d)' # {} =>
                          starter[d] = "drain" \/ stopper[d] = "drain"
  BY <1>1 DEF Closing
<1>5. CASE d = c
  BY <1>1, <1>5 DEF Closing
<1>6. CASE d # c
  <2>1. Held(d)' # {} => Held(d) # {}
    BY <1>4, <1>6
  <2> QED
    BY <2>1 DEF Closing
<1> QED
  BY <1>5, <1>6

LEMMA LifecycleCloses ==
    ASSUME ConsumersOK, Closing, NEW c \in Consumers, Lifecycle(c), UNCHANGED task
    PROVE  Closing'
<1>1. \A d \in Consumers : Held(d)' = Held(d)
  BY DEF Held
<1> SUFFICES ASSUME NEW d \in Consumers
             PROVE  /\ server'[d] \in {"new", "dead"} => starter'[d] = "none"
                    /\ server'[d] = "active" => starter'[d] = "select"
                    /\ server'[d] # "closed" => stopper'[d] # "drain"
                    /\ server'[d] = "closed" /\ Held(d) # {} =>
                          starter'[d] = "drain" \/ stopper'[d] = "drain"
  BY <1>1 DEF Closing
<1>2. /\ server[d] \in {"new", "dead"} => starter[d] = "none"
      /\ server[d] = "active" => starter[d] = "select"
      /\ server[d] # "closed" => stopper[d] # "drain"
      /\ server[d] = "closed" /\ Held(d) # {} => starter[d] = "drain" \/ stopper[d] = "drain"
  BY DEF Closing
<1> USE DEF ConsumersOK
<1>3. CASE d # c
  <2>1. server'[d] = server[d] /\ starter'[d] = starter[d] /\ stopper'[d] = stopper[d]
    BY <1>3 DEF Lifecycle, Start, Cancel, StartEnds, Stop, StopShutsDown, Drained, Crash, Shutdown
  <2> QED
    BY <1>2, <2>1
<1>4. CASE d = c
  <2>1. CASE Start(c)
    BY <1>2, <1>4, <2>1 DEF Start
  <2>2. CASE Cancel(c)
    BY <1>2, <1>4, <2>2 DEF Cancel
  <2>3. CASE StartEnds(c)
    BY <1>2, <1>4, <2>3 DEF StartEnds, Shutdown, AfterShutdown
  <2>4. CASE Stop(c)
    BY <1>2, <1>4, <2>4 DEF Stop
  <2>5. CASE StopShutsDown(c)
    BY <1>2, <1>4, <2>5 DEF StopShutsDown, Shutdown, AfterShutdown
  <2>6. CASE Drained(c)
    BY <1>2, <1>4, <2>6 DEF Drained
  <2>7. CASE Crash(c)
    BY <1>2, <1>4, <2>7 DEF Crash
  <2> QED
    BY <2>1, <2>2, <2>3, <2>4, <2>5, <2>6, <2>7 DEF Lifecycle
<1> QED
  BY <1>3, <1>4

LEMMA PublishTakesNone ==
    ASSUME TypeOK, NEW k, Publish(k)
    PROVE  NoneTaken
<1>1. PICK t \in Tasks : \E d :
         task' = [task EXCEPT ![t] = [NoTask EXCEPT !.state = "pending", !.data = d]]
  BY DEF Publish
<1>2. task \in [Tasks -> Task]
  BY DEF TypeOK
<1>3. \A d : [NoTask EXCEPT !.state = "pending", !.data = d].state # "active"
  BY DEF NoTask
<1>4. \A u \in Tasks : task'[u].state # "active" \/ task'[u] = task[u]
  BY <1>1, <1>2, <1>3
<1> QED
  BY <1>4 DEF NoneTaken

LEMMA ClosingNext ==
    TypeOK /\ Closing /\ [Next]_vars => Closing'
<1> SUFFICES ASSUME TypeOK, Closing, [Next]_vars PROVE Closing'
  OBVIOUS
<1>1. ConsumersOK
  BY DEF TypeOK
<1>2. CASE Requests
  <2>1. UNCHANGED <<task, consumerVars>>
    BY <1>2, Zenon DEF Requests, Serve, Call, DriveSaga
  <2> QED
    BY <2>1, TasksUnchanged, ClosingStays DEF consumerVars
<1>3. ASSUME NEW k \in {None} \cup DOMAIN spans, Publish(k)
      PROVE  Closing'
  <2>1. UNCHANGED consumerVars
    BY <1>3 DEF Publish
  <2> QED
    BY <1>3, <2>1, PublishTakesNone, ClosingStays DEF consumerVars
<1>4. ASSUME NEW c \in Consumers, Lifecycle(c)
      PROVE  Closing'
  BY <1>1, <1>4, LifecycleKeeps, LifecycleCloses
<1>5. ASSUME NEW t \in Tasks, Working(t)
      PROVE  Closing'
  <2>1. ASSUME NEW c \in Consumers, Handle(c, t)
        PROVE  Closing'
    BY <2>1, HandleCloses
  <2>2. ASSUME NEW c \in Consumers, HandlerReturns(c, t)
        PROVE  Closing'
    <3>1. UNCHANGED consumerVars
      BY <2>2 DEF HandlerReturns
    <3> QED
      BY <2>2, <3>1, ReturnKeeps, ClosingStays DEF consumerVars
  <2>3. ASSUME NEW c \in Consumers, Abort(c, t)
        PROVE  Closing'
    <3>1. UNCHANGED consumerVars
      BY <2>3 DEF Abort
    <3> QED
      BY <2>3, <3>1, AbortKeeps, ClosingStays DEF consumerVars
  <2>4. CASE RetryDue(t) \/ Recover(t)
    <3>1. UNCHANGED consumerVars
      BY <2>4 DEF RetryDue, Recover
    <3> QED
      BY <2>4, <3>1, RetryKeeps, ClosingStays DEF consumerVars
  <2> QED
    BY <1>5, <2>1, <2>2, <2>3, <2>4 DEF Working
<1>6. CASE Inspector
  BY <1>6, InspectorKeeps, ClosingStays DEF consumerVars
<1>7. CASE UNCHANGED vars
  BY <1>7, TasksUnchanged, ClosingStays DEF vars, consumerVars
<1> QED
  BY <1>2, <1>3, <1>4, <1>5, <1>6, <1>7 DEF Next

(***************************************************************************)
(* Once Start has returned, and Stop too if it was called, the consumer    *)
(* has no task left, whichever of the two came first to Shutdown           *)
(* (Consumer.Start and Consumer.Stop of consumer.go).                      *)
(***************************************************************************)
THEOREM DrainedTheorem == Spec => []StoppedIsDrained
<1>1. Init => Closing
  BY DEF Init, Closing
<1>2. TypeOK /\ Closing => StoppedIsDrained
  BY DEF TypeOK, ConsumersOK, Closing, StoppedIsDrained
<1> QED
  BY <1>1, <1>2, ClosingNext, QueueTypeCorrect, PTL DEF Spec
=============================================================================
