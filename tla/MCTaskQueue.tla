---------------------------- MODULE MCTaskQueue ----------------------------
(***************************************************************************)
(* Two consumers of one queue.  The messages and their traces are explored *)
(* with one consumer that keeps running, and the consumers' lives with one *)
(* kind of message outside any trace: what a message says never decides    *)
(* what a consumer does.  One request comes from outside.                  *)
(***************************************************************************)
EXTENDS TaskQueue

CONSTANTS c1, c2

Calm == /\ server[c2] = "new" /\ server[c1] \in {"new", "active"}
        /\ \A c \in Consumers : stopper[c] = "none" /\ ~ctxDone[c]

Plain == /\ spans = <<>>
         /\ \A t \in Tasks : sent[t] \in {NoMsg, [NoMsg EXCEPT !.payload = "text", !.meta = TRUE]}

OneRequest == \A k \in DOMAIN spans : k > 1 => spans[k].how # "outside"

Bound == Plain \/ (Calm /\ OneRequest)
=============================================================================
