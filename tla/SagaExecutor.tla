---------------------------- MODULE SagaExecutor -----------------------------
(***************************************************************************)
(* saga/executor.go: the forward action of a sync or an async step, what   *)
(* happens when it fails, and the compensating action of a step, together  *)
(* with the participant each step calls.                                   *)
(*                                                                         *)
(* `pc' is the place of an instance's driver (the worker that runs         *)
(* driveTransaction) between two database or HTTP calls and `loc' its      *)
(* local variables.  Every action here is one call of a handler.           *)
(***************************************************************************)
EXTENDS SagaStore

CONSTANTS
    MaxRetry,        \* Step.MaxRetry
    LossyNetwork     \* a request may fail for the caller and still arrive

ASSUME ExecutorAssumption == MaxRetry \in Nat /\ LossyNetwork \in BOOLEAN

VARIABLES
    remote,   \* the effect of each step at its participant
    pc,       \* place of each instance's driver
    loc       \* its locals

execVars == <<remote, pc, loc>>

(***************************************************************************)
(* What a participant has done for a step: nothing, a request under way    *)
(* whose sender gave up, an accepted asynchronous job, a job done or       *)
(* failed, an effect taken back.                                           *)
(***************************************************************************)
Effect == {"none", "inflight", "accepted", "done", "failed", "undone"}

DriverPC == {"idle", "queued", "load", "loadSteps", "renew", "casRunning",
             "casSucceeded", "markRunning", "call", "httpError", "afterRetry",
             "markSucceeded", "createPoll", "markPolling", "advance",
             "register", "reread", "waiting", "advanceNotified", "trigger",
             "compensate", "compCall", "compSave", "compFail",
             "finish", "release", "deactivate"}

(***************************************************************************)
(* The locals: the transaction and step rows last read, the step in hand   *)
(* with its in-memory RetryCount, and executeCompensation's toCompensate,  *)
(* pending steps and allCompensated.                                       *)
(***************************************************************************)
Locals == [status : TxStatus, steps : [Steps -> StepRow], cur : Steps,
           retry : Nat, todo : SUBSET Steps, skip : SUBSET Steps,
           clean : BOOLEAN]

NoLocals == [status |-> "none", steps |-> [s \in Steps |-> NewStep],
             cur |-> 1, retry |-> 0, todo |-> {}, skip |-> {}, clean |-> TRUE]

ExecutorTypeOK ==
    /\ remote \in [Steps -> Effect]
    /\ pc \in [Instances -> DriverPC]
    /\ loc \in [Instances -> Locals]

ExecutorInit ==
    /\ remote = [s \in Steps |-> "none"]
    /\ pc = [i \in Instances |-> "idle"]
    /\ loc = [i \in Instances |-> NoLocals]

At(i, place) == pc[i] = place

(* Go on with the locals kept, and go on with none of them needed again. *)
Goto(i, place)  == pc' = [pc EXCEPT ![i] = place] /\ UNCHANGED loc
Leave(i, place) == /\ pc' = [pc EXCEPT ![i] = place]
                   /\ loc' = [loc EXCEPT ![i] = NoLocals]

-----------------------------------------------------------------------------
(***************************************************************************)
(* The participants.  A forward request carries X-Idempotency-Key, so only *)
(* the first one that arrives has an effect.                               *)
(***************************************************************************)
Applied(s) ==
    IF remote[s] \in {"none", "inflight"}
      THEN IF s \in AsyncSteps THEN "accepted" ELSE "done"
      ELSE remote[s]

Lost(s) == IF remote[s] = "none" THEN "inflight" ELSE remote[s]

(* A request whose sender saw an error arrives after all. *)
RequestArrives(s) ==
    /\ remote[s] = "inflight"
    /\ remote' = [remote EXCEPT ![s] = Applied(s)]
    /\ UNCHANGED <<pc, loc, storeVars, clockVars>>

(* An accepted job ends. *)
JobEnds(s) ==
    /\ remote[s] = "accepted"
    /\ \E r \in {"done", "failed"} : remote' = [remote EXCEPT ![s] = r]
    /\ UNCHANGED <<pc, loc, storeVars, clockVars>>

-----------------------------------------------------------------------------
(* ExecuteStep and ExecuteAsyncStep *)

(***************************************************************************)
(* UpdateStepStatus(running) with the execution context.  Its failure      *)
(* reaches executeSyncStep or executeAsyncStep as a plain error, and those *)
(* trigger compensation.                                                   *)
(***************************************************************************)
MarkRunning(i) ==
    /\ At(i, "markRunning")
    /\ \/ ExecOK(i) /\ UpdateStepStatus(loc[i].cur, "running") /\ Goto(i, "call")
       \/ ExecFails(i) /\ UNCHANGED step /\ Leave(i, "trigger")
    /\ UNCHANGED <<tx, pollTask, timedOut, expiries, phase, remote>>

(***************************************************************************)
(* No request can be built: a template does not render (the write has the  *)
(* execution context and its failure is ignored) or signing fails (the     *)
(* write is durable).                                                      *)
(***************************************************************************)
RequestNotBuilt(i) ==
    /\ At(i, "call")
    /\ \/ ExecOK(i) /\ UpdateStepStatus(loc[i].cur, "failed")
       \/ ExecFails(i) /\ UNCHANGED step
       \/ DurableOK(i) /\ UpdateStepStatus(loc[i].cur, "failed")
       \/ DurableFails(i) /\ UNCHANGED step
    /\ Leave(i, "trigger")
    /\ UNCHANGED <<tx, pollTask, timedOut, expiries, phase, remote>>

CallSucceeds(i) ==
    /\ At(i, "call")
    /\ phase[i] = "up" /\ ~timedOut
    /\ remote' = [remote EXCEPT ![loc[i].cur] = Applied(loc[i].cur)]
    /\ Goto(i, IF loc[i].cur \in AsyncSteps THEN "createPoll" ELSE "markSucceeded")
    /\ UNCHANGED <<storeVars, clockVars>>

(***************************************************************************)
(* The participant refuses, the transport fails or the context ends; in    *)
(* the last two cases the request may still arrive.                        *)
(***************************************************************************)
CallFailsHTTP(i) ==
    /\ At(i, "call")
    /\ Live(i)
    /\ \/ UNCHANGED remote
       \/ LossyNetwork /\ remote' = [remote EXCEPT ![loc[i].cur] = Lost(loc[i].cur)]
    /\ Goto(i, "httpError")
    /\ UNCHANGED <<storeVars, clockVars>>

(***************************************************************************)
(* handleHTTPError, first half.  When the deadline ended the call the step *)
(* is written failed; otherwise the retry is counted in the row (a failure *)
(* to do so is only logged) and in memory.                                 *)
(***************************************************************************)
HandleHTTPError(i) ==
    /\ At(i, "httpError")
    /\ \/ /\ timedOut
          /\ \/ DurableOK(i) /\ UpdateStepStatus(loc[i].cur, "failed")
             \/ DurableFails(i) /\ UNCHANGED step
          /\ Leave(i, "trigger")
       \/ /\ ~timedOut \/ phase[i] = "stopping"
          /\ \/ DurableOK(i) /\ IncrementStepRetry(loc[i].cur)
             \/ DurableFails(i) /\ UNCHANGED step
          /\ pc' = [pc EXCEPT ![i] = "afterRetry"]
          /\ loc' = [loc EXCEPT ![i].retry = loc[i].retry + 1]
    /\ UNCHANGED <<tx, pollTask, timedOut, expiries, phase, remote>>

(* Seeded fault: <= for <. *)
MoreRetries_Inclusive(n) == n <= MaxRetry

MoreRetries(n) == n < MaxRetry

(***************************************************************************)
(* handleHTTPError, second half: the step goes back to pending for another *)
(* round of the drive loop or is failed for good.  A failed write is       *)
(* ignored.                                                                *)
(***************************************************************************)
AfterRetry(i) ==
    /\ At(i, "afterRetry")
    /\ LET again == MoreRetries(loc[i].retry)
       IN  /\ \/ /\ DurableOK(i)
                 /\ UpdateStepStatus(loc[i].cur, IF again THEN "pending" ELSE "failed")
              \/ DurableFails(i) /\ UNCHANGED step
           /\ Leave(i, IF again THEN "load" ELSE "trigger")
    /\ UNCHANGED <<tx, pollTask, timedOut, expiries, phase, remote>>

(* ExecuteStep saves the response and the status of a successful call. *)
MarkSucceeded(i) ==
    /\ At(i, "markSucceeded")
    /\ \/ DurableOK(i) /\ UpdateStepStatus(loc[i].cur, "succeeded") /\ Goto(i, "advance")
       \/ DurableFails(i) /\ UNCHANGED step /\ Leave(i, "trigger")
    /\ UNCHANGED <<tx, pollTask, timedOut, expiries, phase, remote>>

(* ExecuteAsyncStep saves the response and creates the poll task ... *)
SetUpPolling(i) ==
    /\ At(i, "createPoll")
    /\ \/ DurableOK(i) /\ CreatePollTask(loc[i].cur) /\ Goto(i, "markPolling")
       \/ DurableFails(i) /\ UNCHANGED pollTask /\ Leave(i, "trigger")
    /\ UNCHANGED <<tx, step, timedOut, expiries, phase, remote>>

(* Seeded fault: an accepted job is taken for a finished one. *)
MarkPolling_Succeeded(i) ==
    /\ At(i, "markPolling")
    /\ DurableOK(i) /\ UpdateStepStatus(loc[i].cur, "succeeded") /\ Goto(i, "register")
    /\ UNCHANGED <<tx, pollTask, timedOut, expiries, phase, remote>>

(* ... and only then moves the step to polling. *)
MarkPolling(i) ==
    /\ At(i, "markPolling")
    /\ \/ DurableOK(i) /\ UpdateStepStatus(loc[i].cur, "polling") /\ Goto(i, "register")
       \/ DurableFails(i) /\ UNCHANGED step /\ Leave(i, "trigger")
    /\ UNCHANGED <<tx, pollTask, timedOut, expiries, phase, remote>>

-----------------------------------------------------------------------------
(* CompensateStep *)

(* Go on to the next step of executeCompensation. *)
Compensated(i, ok) ==
    /\ pc' = [pc EXCEPT ![i] = "compensate"]
    /\ loc' = [loc EXCEPT ![i].todo = loc[i].todo \ {loc[i].cur},
                          ![i].clean = IF ok THEN loc[i].clean ELSE FALSE]

(***************************************************************************)
(* The compensating requests of all attempts, as one action: they end in   *)
(* success, in failure (the effect taken back or not), in a local failure  *)
(* (a template does not render) or in a cancelled backoff, which leaves    *)
(* the step compensating.                                                  *)
(***************************************************************************)
CallCompensation(i) ==
    /\ At(i, "compCall")
    /\ \/ /\ phase[i] = "up"
          /\ remote' = [remote EXCEPT ![loc[i].cur] = "undone"]
          /\ Goto(i, "compSave")
          /\ UNCHANGED <<step, errs>>
       \/ /\ Live(i)
          /\ \/ UNCHANGED remote
             \/ LossyNetwork /\ remote' = [remote EXCEPT ![loc[i].cur] = "undone"]
          /\ Goto(i, "compFail")
          /\ UNCHANGED <<step, errs>>
       \/ /\ \/ CallOK(i) /\ UpdateStepStatus(loc[i].cur, "failed")
             \/ CallFails(i) /\ UNCHANGED step
          /\ Compensated(i, FALSE)
          /\ UNCHANGED remote
       \/ /\ phase[i] = "stopping"
          /\ \/ UNCHANGED remote
             \/ LossyNetwork /\ remote' = [remote EXCEPT ![loc[i].cur] = "undone"]
          /\ Compensated(i, FALSE)
          /\ UNCHANGED <<step, errs>>
    /\ UNCHANGED <<tx, pollTask, timedOut, expiries, phase>>

(* Success: a failed write makes the whole compensation incomplete. *)
SaveCompensated(i) ==
    /\ At(i, "compSave")
    /\ \/ /\ DurableOK(i)
          /\ UpdateStepStatus(loc[i].cur, "compensated")
          /\ Compensated(i, TRUE)
       \/ DurableFails(i) /\ UNCHANGED step /\ Compensated(i, FALSE)
    /\ UNCHANGED <<tx, pollTask, timedOut, expiries, phase, remote>>

(* Seeded fault: the step is written compensated all the same. *)
SaveCompensationFailed_AsDone(i) ==
    /\ At(i, "compFail")
    /\ DurableOK(i) /\ UpdateStepStatus(loc[i].cur, "compensated")
    /\ Compensated(i, FALSE)
    /\ UNCHANGED <<tx, pollTask, timedOut, expiries, phase, remote>>

(* Retries exhausted or signing failed: the step is written failed. *)
SaveCompensationFailed(i) ==
    /\ At(i, "compFail")
    /\ \/ DurableOK(i) /\ UpdateStepStatus(loc[i].cur, "failed")
       \/ DurableFails(i) /\ UNCHANGED step
    /\ Compensated(i, FALSE)
    /\ UNCHANGED <<tx, pollTask, timedOut, expiries, phase, remote>>

ExecutorStep(i) ==
    \/ MarkRunning(i)
    \/ RequestNotBuilt(i)
    \/ CallSucceeds(i)
    \/ CallFailsHTTP(i)
    \/ HandleHTTPError(i)
    \/ AfterRetry(i)
    \/ MarkSucceeded(i)
    \/ SetUpPolling(i)
    \/ MarkPolling(i)
    \/ CallCompensation(i)
    \/ SaveCompensated(i)
    \/ SaveCompensationFailed(i)
=============================================================================
