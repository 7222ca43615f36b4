------------------------------ MODULE TaskQueue ------------------------------
(***************************************************************************)
(* taskqueue/asynqbroker: Broker.Publish with the envelope it puts around  *)
(* a payload (trace_envelope.go), Consumer with Start, Stop and the        *)
(* handlers (consumer.go), and Inspector (inspector.go), over one queue of *)
(* the asynq library.                                                      *)
(*                                                                         *)
(* asynq is external: a task is pending, active at a server, waiting for a *)
(* retry, or archived; a finished one is gone.  A server is new, active or *)
(* closed and its Shutdown waits for the handlers it has running, some of  *)
(* which it gives up after a while.                                        *)
(***************************************************************************)
EXTENDS Trace

CONSTANTS
    Consumers,   \* Consumer values, each with its asynq server
    NoConsumer,
    NTask,       \* bound on the tasks published
    MaxRetry,    \* asynq's retries of a task
    MaxSpans,    \* bound on the spans of a behaviour
    CanCrash     \* whether processes of consumers die

Tasks == 1..NTask

ASSUME TaskQueueAssumption ==
    /\ NoConsumer \notin Consumers
    /\ {NTask, MaxRetry, MaxSpans} \subseteq Nat
    /\ CanCrash \in BOOLEAN

VARIABLES
    task,      \* asynq's record of each task
    sent,      \* what Publish was given for it (for the properties)
    run,       \* what the handler of a task was given, at each consumer
    paused,    \* the queue is paused
    server,    \* asynq.Server of each consumer
    starter,   \* the goroutine in Consumer.Start
    stopper,   \* the first call of Consumer.Stop
    stopCh,    \* c.stopCh is closed
    ctxDone,   \* the context of Start is cancelled
    spans      \* every TraceContext made, with the span that caused it

consumerVars == <<server, starter, stopper, stopCh, ctxDone>>
vars         == <<task, sent, run, paused, consumerVars, spans>>

-----------------------------------------------------------------------------
(***************************************************************************)
(* The bytes of a message.  A business payload is a nil slice, some text,  *)
(* or text that happens to be an envelope itself, one around "inner".      *)
(***************************************************************************)
Payloads == {"nil", "text", "envelope"}
Reply    == BOOLEAN      \* task.Reply # nil
Meta     == BOOLEAN      \* len(task.Metadata) > 0

Raw(payload) == [wrapped |-> FALSE, payload |-> payload, reply |-> FALSE, meta |-> FALSE,
                 trace |-> MetadataFromTraceContext(NoTrace)]

(* Seeded fault: the reply alone is no reason for an envelope. *)
wrapWithTrace_NoReply(tc, payload, reply, meta) ==
    IF tc = NoTrace /\ ~meta THEN Raw(payload)
    ELSE [wrapped |-> TRUE, payload |-> payload, reply |-> reply, meta |-> meta,
          trace |-> MetadataFromTraceContext(tc)]

wrapWithTrace(tc, payload, reply, meta) ==
    IF tc = NoTrace /\ ~reply /\ ~meta THEN Raw(payload)
    ELSE [wrapped |-> TRUE, payload |-> payload, reply |-> reply, meta |-> meta,
          trace |-> MetadataFromTraceContext(tc)]

(***************************************************************************)
(* A nil payload is null in the envelope, which the probe takes for a      *)
(* missing field: the bytes are handed on whole, as an old message.        *)
(***************************************************************************)
unwrapEnvelope(data) ==
    CASE data.wrapped /\ data.payload # "nil" -> [data EXCEPT !.wrapped = FALSE]
      [] data.wrapped /\ data.payload = "nil" -> Raw("whole")
      [] ~data.wrapped /\ data.payload = "envelope" -> Raw("inner")
      [] OTHER -> data

-----------------------------------------------------------------------------
NoTask == [state |-> "none", at |-> NoConsumer, retried |-> 0, data |-> Raw("nil")]
NoRun  == [on |-> FALSE, got |-> Raw("nil"), tc |-> NoTrace]
NoMsg  == [payload |-> "nil", reply |-> FALSE, meta |-> FALSE, tc |-> NoTrace]

Init ==
    /\ task = [t \in Tasks |-> NoTask]
    /\ sent = [t \in Tasks |-> NoMsg]
    /\ run = [c \in Consumers |-> [t \in Tasks |-> NoRun]]
    /\ paused = FALSE
    /\ server = [c \in Consumers |-> "new"]
    /\ starter = [c \in Consumers |-> "none"]
    /\ stopper = [c \in Consumers |-> "none"]
    /\ stopCh = [c \in Consumers |-> FALSE]
    /\ ctxDone = [c \in Consumers |-> FALSE]
    /\ spans = <<>>

NewSpan  == Len(spans) + 1
HasRoom  == Len(spans) < MaxSpans

(* A context is made; `by' is the span whose work it belongs to. *)
Record(tc, by, how) == spans' = Append(spans, [tc |-> tc, by |-> by, how |-> how])

-----------------------------------------------------------------------------
(* Requests: TraceMiddleware on the serving side, TracedClient on the other *)

(* Names of traces and spans that come from outside. *)
Outside == 100

(* A request from outside, with any headers. *)
Serve ==
    /\ HasRoom
    /\ \E id \in {None, Bad, Outside}, rid \in {None, Outside}, span \in {None, Bad, Outside},
         sampled \in {"", "0"} :
          Record(Extract([traceID |-> id, requestID |-> rid, spanId |-> span,
                          sampled |-> sampled], NewSpan, NewSpan), None, "outside")
    /\ UNCHANGED <<task, sent, run, paused, consumerVars>>

(* TracedClient.Do within span k, and the middleware of the service called. *)
Call(k) ==
    /\ HasRoom
    /\ Record(Extract(Inject(spans[k].tc), NewSpan, NewSpan), k, "http")
    /\ UNCHANGED <<task, sent, run, paused, consumerVars>>

(* A saga submitted within span k, driven later in the background. *)
DriveSaga(k) ==
    /\ HasRoom
    /\ Record(ExtractTraceFromPayload(StorePayload(spans[k].tc), NewSpan), k, "saga")
    /\ UNCHANGED <<task, sent, run, paused, consumerVars>>

-----------------------------------------------------------------------------
(* Broker.Publish, within span k or (k = 0) outside any trace. *)
Publish(k) ==
    \E t \in Tasks, payload \in Payloads, reply \in Reply, meta \in Meta :
       LET tc == IF k = None THEN NoTrace ELSE spans[k].tc
       IN  /\ task[t].state = "none"
           /\ \A u \in 1..(t - 1) : task[u].state # "none"
           /\ task' = [task EXCEPT ![t] = [NoTask EXCEPT !.state = "pending",
                                 !.data = wrapWithTrace(tc, payload, reply, meta)]]
           /\ sent' = [sent EXCEPT ![t] = [payload |-> payload, reply |-> reply,
                                           meta |-> meta, tc |-> tc]]
           /\ UNCHANGED <<run, paused, consumerVars, spans>>

-----------------------------------------------------------------------------
(***************************************************************************)
(* Consumer.Start: start the server, wait for the context or stopCh, shut  *)
(* the server down.                                                        *)
(***************************************************************************)
Start(c) ==
    /\ server[c] = "new"
    /\ server' = [server EXCEPT ![c] = "active"]
    /\ starter' = [starter EXCEPT ![c] = "select"]
    /\ UNCHANGED <<task, sent, run, paused, stopper, stopCh, ctxDone, spans>>

Cancel(c) ==
    /\ ~ctxDone[c]
    /\ ctxDone' = [ctxDone EXCEPT ![c] = TRUE]
    /\ UNCHANGED <<task, sent, run, paused, server, starter, stopper, stopCh, spans>>

(***************************************************************************)
(* asynq's Shutdown: nothing to do for a server that is new or closed;     *)
(* else it is closed and the call waits for the handlers.                  *)
(***************************************************************************)
Shutdown(c) ==
    IF server[c] = "active" THEN server' = [server EXCEPT ![c] = "closed"]
                            ELSE UNCHANGED server
AfterShutdown(c) == IF server[c] = "active" THEN "drain" ELSE "returned"

Held(c) == {t \in Tasks : task[t].state = "active" /\ task[t].at = c}

(* Seeded fault: Start returns without shutting the server down. *)
StartEnds_NoShutdown(c) ==
    /\ starter[c] = "select"
    /\ ctxDone[c] \/ stopCh[c]
    /\ starter' = [starter EXCEPT ![c] = "returned"]
    /\ UNCHANGED <<task, sent, run, paused, server, stopper, stopCh, ctxDone, spans>>

StartEnds(c) ==
    /\ starter[c] = "select"
    /\ ctxDone[c] \/ stopCh[c]
    /\ Shutdown(c)
    /\ starter' = [starter EXCEPT ![c] = AfterShutdown(c)]
    /\ UNCHANGED <<task, sent, run, paused, stopper, stopCh, ctxDone, spans>>

(* Consumer.Stop: once, close stopCh, then shut the server down. *)
Stop(c) ==
    /\ stopper[c] = "none"
    /\ stopCh' = [stopCh EXCEPT ![c] = TRUE]
    /\ stopper' = [stopper EXCEPT ![c] = "shutdown"]
    /\ UNCHANGED <<task, sent, run, paused, server, starter, ctxDone, spans>>

StopShutsDown(c) ==
    /\ stopper[c] = "shutdown"
    /\ Shutdown(c)
    /\ stopper' = [stopper EXCEPT ![c] = AfterShutdown(c)]
    /\ UNCHANGED <<task, sent, run, paused, starter, stopCh, ctxDone, spans>>

(* The call that closed the server returns when its handlers are done. *)
Drained(c) ==
    /\ Held(c) = {}
    /\ \/ /\ starter[c] = "drain"
          /\ starter' = [starter EXCEPT ![c] = "returned"]
          /\ UNCHANGED stopper
       \/ /\ stopper[c] = "drain"
          /\ stopper' = [stopper EXCEPT ![c] = "returned"]
          /\ UNCHANGED starter
    /\ UNCHANGED <<task, sent, run, paused, server, stopCh, ctxDone, spans>>

(* A handler takes too long for Shutdown: its task is put back, while it runs on. *)
Abort(c, t) ==
    /\ server[c] = "closed"
    /\ t \in Held(c)
    /\ task' = [task EXCEPT ![t].state = "pending", ![t].at = NoConsumer]
    /\ UNCHANGED <<sent, run, paused, consumerVars, spans>>

-----------------------------------------------------------------------------
(***************************************************************************)
(* The function Handle registers: unwrap the message, restore the trace,   *)
(* call the handler.                                                       *)
(***************************************************************************)
Handle(c, t) ==
    LET got == unwrapEnvelope(task[t].data)
        tc  == TraceFromMetadata(got.trace, NewSpan)
    IN  /\ server[c] = "active"
        /\ ~paused
        /\ task[t].state = "pending"
        /\ task' = [task EXCEPT ![t].state = "active", ![t].at = c]
        /\ run' = [run EXCEPT ![c][t] = [on |-> TRUE, got |-> got, tc |-> tc]]
        /\ IF tc = NoTrace \/ ~HasRoom THEN UNCHANGED spans
                                       ELSE Record(tc, sent[t].tc.spanId, "queue")
        /\ UNCHANGED <<sent, paused, consumerVars>>

(* Failed or abandoned for good: archived when no retry is left. *)
Fail(t) ==
    LET again == task[t].retried < MaxRetry
    IN  task' = [task EXCEPT ![t].at = NoConsumer,
                             ![t].state = IF again THEN "retry" ELSE "archived",
                             ![t].retried = IF again THEN @ + 1 ELSE @]

(* Seeded fault: the handler's end is not reported to asynq. *)
HandlerReturns_Forgets(c, t) ==
    /\ run[c][t].on
    /\ UNCHANGED task
    /\ run' = [run EXCEPT ![c][t] = NoRun]
    /\ UNCHANGED <<sent, paused, consumerVars, spans>>

(* The handler returns nil or an error, which nobody hears of an aborted one. *)
HandlerReturns(c, t) ==
    /\ run[c][t].on
    /\ \/ /\ t \in Held(c)
          /\ task' = [task EXCEPT ![t].state = "done", ![t].at = NoConsumer]
       \/ t \in Held(c) /\ Fail(t)
       \/ t \notin Held(c) /\ UNCHANGED task
    /\ run' = [run EXCEPT ![c][t] = NoRun]
    /\ UNCHANGED <<sent, paused, consumerVars, spans>>

(* asynq's forwarder: the delay of a retry is over. *)
RetryDue(t) ==
    /\ task[t].state = "retry"
    /\ \E c \in Consumers : server[c] = "active"
    /\ task' = [task EXCEPT ![t].state = "pending"]
    /\ UNCHANGED <<sent, run, paused, consumerVars, spans>>

Crash(c) ==
    /\ CanCrash
    /\ server[c] \in {"active", "closed"}
    /\ server' = [server EXCEPT ![c] = "dead"]
    /\ starter' = [starter EXCEPT ![c] = "none"]
    /\ stopper' = [stopper EXCEPT ![c] = "none"]
    /\ run' = [run EXCEPT ![c] = [t \in Tasks |-> NoRun]]
    /\ UNCHANGED <<task, sent, paused, stopCh, ctxDone, spans>>

(* asynq's recoverer, in any live server: the lease of a dead one is over. *)
Recover(t) ==
    /\ task[t].state = "active"
    /\ server[task[t].at] = "dead"
    /\ \E c \in Consumers : server[c] = "active"
    /\ Fail(t)
    /\ UNCHANGED <<sent, run, paused, consumerVars, spans>>

-----------------------------------------------------------------------------
(***************************************************************************)
(* Inspector.  Its own names of the states; asynq's scheduled, completed   *)
(* and aggregating tasks are never made by Broker.Publish, which gives no  *)
(* delay, retention or group.                                              *)
(***************************************************************************)
TaskStates == {"pending", "active", "retry", "failed"}

asynqState(st) == IF st = "failed" THEN "archived" ELSE st

InState(st) == {t \in Tasks : task[t].state = asynqState(st)}

convertState(s) == CASE s = "archived" -> "failed"
                     [] s \in {"active", "retry"} -> s
                     [] OTHER -> "pending"

convertTaskInfo(t) == [id |-> t, state |-> convertState(task[t].state),
                       retried |-> task[t].retried,
                       payload |-> unwrapEnvelope(task[t].data).payload]

(* ListTasks with a page large enough *)
ListTasks(st) == {convertTaskInfo(t) : t \in InState(st)}

(* The tasks of S are put into state s. *)
Put(S, s) ==
    /\ S # {}
    /\ task' = [t \in Tasks |-> IF t \in S THEN [task[t] EXCEPT !.state = s] ELSE task[t]]
    /\ UNCHANGED <<sent, run, paused, consumerVars, spans>>

DeleteTask(t)  == /\ task[t].state \in {"pending", "retry", "archived"}
                  /\ Put({t}, "deleted")
RunTask(t)     == /\ task[t].state \in {"retry", "archived"}
                  /\ Put({t}, "pending")
ArchiveTask(t) == /\ task[t].state \in {"pending", "retry"}
                  /\ Put({t}, "archived")

BatchDeleteTasks(st)  == st \in {"pending", "retry", "failed"} /\ Put(InState(st), "deleted")
BatchRunTasks(st)     == st \in {"retry", "failed"} /\ Put(InState(st), "pending")
BatchArchiveTasks(st) == st \in {"pending", "retry"} /\ Put(InState(st), "archived")

PauseQueue ==
    /\ ~paused
    /\ paused' = TRUE
    /\ UNCHANGED <<task, sent, run, consumerVars, spans>>

UnpauseQueue ==
    /\ paused
    /\ paused' = FALSE
    /\ UNCHANGED <<task, sent, run, consumerVars, spans>>

(* DeleteQueue with force: refused while a task is active. *)
DeleteQueue ==
    /\ InState("active") = {}
    /\ Put(UNION {InState(st) : st \in TaskStates}, "deleted")

-----------------------------------------------------------------------------
Requests == Serve \/ \E k \in DOMAIN spans : Call(k) \/ DriveSaga(k)

Lifecycle(c) == \/ Start(c) \/ Cancel(c) \/ StartEnds(c)
                \/ Stop(c) \/ StopShutsDown(c) \/ Drained(c) \/ Crash(c)

Working(t) == \/ \E c \in Consumers : Handle(c, t) \/ HandlerReturns(c, t) \/ Abort(c, t)
              \/ RetryDue(t) \/ Recover(t)

Inspector == \/ \E t \in Tasks : DeleteTask(t) \/ RunTask(t) \/ ArchiveTask(t)
             \/ \E st \in TaskStates :
                   BatchDeleteTasks(st) \/ BatchRunTasks(st) \/ BatchArchiveTasks(st)
             \/ PauseQueue \/ UnpauseQueue \/ DeleteQueue

Next == \/ Requests
        \/ \E k \in {None} \cup DOMAIN spans : Publish(k)
        \/ \E c \in Consumers : Lifecycle(c)
        \/ \E t \in Tasks : Working(t)
        \/ Inspector

Spec == Init /\ [][Next]_vars

(***************************************************************************)
(* asynq's servers keep fetching, forwarding retries and recovering leases *)
(* while they run, handlers return, and calls of Shutdown go on.           *)
(***************************************************************************)
Fairness ==
    /\ \A t \in Tasks :
          /\ WF_vars(\E c \in Consumers : Handle(c, t))
          /\ \A c \in Consumers : WF_vars(HandlerReturns(c, t))
          /\ WF_vars(RetryDue(t))
          /\ WF_vars(Recover(t))
    /\ \A c \in Consumers :
          WF_vars(StartEnds(c)) /\ WF_vars(StopShutsDown(c)) /\ WF_vars(Drained(c))

FairSpec == Spec /\ Fairness

-----------------------------------------------------------------------------
(***************************************************************************)
(* Messages that survive the envelope: not a nil payload that got one, nor *)
(* a bare payload that looks like one.                                     *)
(***************************************************************************)
Conveyed(m) == LET enveloped == m.tc # NoTrace \/ m.reply \/ m.meta
               IN  IF enveloped THEN m.payload # "nil" ELSE m.payload # "envelope"

(***************************************************************************)
(* A handler is given, on every attempt and after any retry, requeue or    *)
(* recovery, the payload, reply and metadata that Publish was given, and a *)
(* trace exactly when there was one.  The inspector shows the same payload *)
(* of every task that asynq knows, and lists the task under one state, the *)
(* one its detail names (trace_envelope.go, Consumer.Handle, ListTasks and *)
(* convertTaskInfo of inspector.go).                                       *)
(***************************************************************************)
Known(t) == task[t].state \notin {"none", "done", "deleted"}

SeenAsPublished ==
    \A t \in Tasks :
       /\ \A c \in Consumers : run[c][t].on /\ Conveyed(sent[t]) =>
             /\ run[c][t].got.payload = sent[t].payload
             /\ run[c][t].got.reply = sent[t].reply
             /\ run[c][t].got.meta = sent[t].meta
             /\ (run[c][t].tc = NoTrace) <=> (sent[t].tc = NoTrace)
       /\ Known(t) =>
             /\ Conveyed(sent[t]) => convertTaskInfo(t).payload = sent[t].payload
             /\ {st \in TaskStates : convertTaskInfo(t) \in ListTasks(st)}
                   = {convertTaskInfo(t).state}

(***************************************************************************)
(* Whatever the hops, a request, a message, a retried message or a saga,   *)
(* a span carries the trace of the span that caused it, names that span as *)
(* its parent, and is sampled as that one was; but a saga is sampled       *)
(* always (trace/propagator.go, saga/executor.go).                         *)
(***************************************************************************)
CallTree ==
    \A k \in DOMAIN spans :
       LET s == spans[k] IN s.how # "outside" =>
          LET cause == spans[s.by].tc
          IN  /\ s.tc.traceID = cause.traceID
              /\ s.tc.parentSpanId = cause.spanId
              /\ s.tc.spanId = k
              /\ s.tc.sampled = (cause.sampled \/ s.how = "saga")

(***************************************************************************)
(* When Start has returned, and Stop if it was called, the consumer has no *)
(* task: whichever of the two shut the server down waited for the handlers *)
(* (consumer.go).  One of them alone may return earlier, when the other    *)
(* does the waiting.                                                       *)
(***************************************************************************)
StoppedIsDrained ==
    \A c \in Consumers :
       starter[c] = "returned" /\ stopper[c] \in {"none", "returned"} => Held(c) = {}

(***************************************************************************)
(* A published task is handled to its end, archived or deleted, through    *)
(* failures, stopped and crashed consumers, unless the queue is paused or  *)
(* no consumer is running (Publish, Consumer).                             *)
(***************************************************************************)
NoTaskLost ==
    \A t \in Tasks :
       task[t].state \in {"pending", "active", "retry"} ~>
          \/ task[t].state \in {"done", "archived", "deleted"}
          \/ paused
          \/ \A c \in Consumers : server[c] # "active"
=============================================================================
