-------------------------------- MODULE Trace --------------------------------
(***************************************************************************)
(* How a trace travels (trace/propagator.go, context.go, generator.go):    *)
(* over HTTP in headers, through the task queue in metadata, and through a *)
(* saga in its stored payload (saga/engine.go, executor.go, logging.go).   *)
(*                                                                         *)
(* Identifiers are numbers, drawn in the order of their creation as the    *)
(* code draws them at random; None is the empty string and Bad a text that *)
(* is not hex of the right length.                                         *)
(***************************************************************************)
EXTENDS Integers, Sequences

None == 0
Bad  == -1

IsValid(id) == id > 0

(* TraceContext; InstanceId and the context.Context around it are left out. *)
TraceContext(trace, span, parent, sampled) ==
    [traceID |-> trace, spanId |-> span, parentSpanId |-> parent, sampled |-> sampled]

NoTrace == TraceContext(None, None, None, FALSE)

-----------------------------------------------------------------------------
(* HTTP headers *)

(* Extract, with the identifiers NewTraceID and NewSpanId would return. *)
Extract(h, newTrace, newSpan) ==
    TraceContext(IF IsValid(h.traceID) THEN h.traceID
                   ELSE IF IsValid(h.requestID) THEN h.requestID ELSE newTrace,
                 newSpan,
                 IF IsValid(h.spanId) THEN h.spanId ELSE None,
                 h.sampled # "0")

(* Seeded fault: the parent's span is passed on instead of one's own. *)
Inject_Parent(tc) == [traceID |-> tc.traceID, requestID |-> None,
                      spanId |-> tc.parentSpanId, sampled |-> IF tc.sampled THEN "1" ELSE "0"]

(* Inject: the caller's own span, which becomes the parent of the callee's. *)
Inject(tc) == [traceID |-> tc.traceID, requestID |-> None,
               spanId |-> tc.spanId, sampled |-> IF tc.sampled THEN "1" ELSE "0"]

-----------------------------------------------------------------------------
(* Message metadata *)

MetadataFromTraceContext(tc) ==
    [trace_id |-> tc.traceID, span_id |-> tc.spanId, sampled |-> IF tc.sampled THEN "1" ELSE "0"]

TraceFromMetadata(m, newSpan) ==
    IF IsValid(m.trace_id)
      THEN TraceContext(m.trace_id, newSpan,
                        IF IsValid(m.span_id) THEN m.span_id ELSE None, m.sampled # "0")
      ELSE NoTrace

-----------------------------------------------------------------------------
(***************************************************************************)
(* A saga keeps two fields in its payload; whoever drives it later makes a *)
(* context of them (extractTraceFromPayload), which always counts as       *)
(* sampled.                                                                *)
(***************************************************************************)
StorePayload(tc) == [trace_id |-> tc.traceID, span_id |-> tc.spanId]

ExtractTraceFromPayload(p, newSpan) ==
    IF p.trace_id # None THEN TraceContext(p.trace_id, newSpan, p.span_id, TRUE)
                         ELSE NoTrace
=============================================================================
