---------------------------- MODULE SagaAbstract -----------------------------
(***************************************************************************)
(* What the saga module promises its caller about one transaction: the     *)
(* life of its status (docs/modules/saga.md) and how the effects of its    *)
(* steps are tied to it.  Effects appear only once the transaction runs,   *)
(* success is recorded only with all of them in place, and they are taken  *)
(* back only after the transaction was given up for good.                  *)
(***************************************************************************)
CONSTANT Steps

VARIABLES
    status,   \* the status a caller sees; "none" before Submit
    effect    \* of each step: "none", "applied" or "undone"

Init ==
    /\ status = "none"
    /\ effect = [s \in Steps |-> "none"]

Submit  == status = "none" /\ status' = "pending" /\ UNCHANGED effect
Begin   == status = "pending" /\ status' = "running" /\ UNCHANGED effect
Abort   == status = "running" /\ status' = "compensating" /\ UNCHANGED effect
Fail    == status = "compensating" /\ status' = "failed" /\ UNCHANGED effect

Succeed ==
    /\ status = "running"
    /\ \A s \in Steps : effect[s] = "applied"
    /\ status' = "succeeded"
    /\ UNCHANGED effect

Apply(s) ==
    /\ status \in {"running", "compensating", "failed"}
    /\ effect[s] = "none"
    /\ effect' = [effect EXCEPT ![s] = "applied"]
    /\ UNCHANGED status

Undo(s) ==
    /\ status \in {"compensating", "failed"}
    /\ effect' = [effect EXCEPT ![s] = "undone"]
    /\ UNCHANGED status

Next ==
    \/ Submit \/ Begin \/ Succeed \/ Abort \/ Fail
    \/ \E s \in Steps : Apply(s) \/ Undo(s)

Spec == Init /\ [][Next]_<<status, effect>>
=============================================================================
