--------------------------- MODULE SagaCoordinator ---------------------------
(***************************************************************************)
(* saga/coordinator.go: the queue of an instance, the worker that drives   *)
(* the transaction (driveTransaction and all it calls), the recovery scan  *)
(* at start-up and the periodic timeout scan.                              *)
(*                                                                         *)
(* activeTx[txID] of an instance is pc[i] # "idle": the transaction is in  *)
(* the instance's queue or being driven.                                   *)
(***************************************************************************)
EXTENDS SagaPoller

CONSTANT QueueCanFill   \* whether other transactions may fill the queue

ASSUME CoordinatorAssumption == QueueCanFill \in BOOLEAN

VARIABLES
    recovery,   \* place of each instance's recoveryScan
    scan        \* place of its timeoutScanner, and the status it listed

scanVars == <<recovery, scan>>

ScanTask == [pc : {"idle", "cas", "submit", "release"}, status : TxStatus]
NoScan   == [pc |-> "idle", status |-> "none"]

CoordinatorTypeOK ==
    /\ recovery \in [Instances -> {"off", "wait", "submit", "release"}]
    /\ scan \in [Instances -> ScanTask]

CoordinatorInit ==
    /\ recovery = [i \in Instances |-> "off"]
    /\ scan = [i \in Instances |-> NoScan]

-----------------------------------------------------------------------------
(***************************************************************************)
(* Coordinator.Submit returns true and queues the transaction, or returns  *)
(* false because it is active already or the queue is full.                *)
(***************************************************************************)
SubmitAccepts(i)  == pc[i] = "idle" /\ Goto(i, "queued")
SubmitDeclines(i) == (pc[i] # "idle" \/ QueueCanFill) /\ UNCHANGED <<pc, loc>>

(***************************************************************************)
(* A worker takes the transaction off the queue and claims it; if it       *)
(* cannot, another instance has it.                                        *)
(***************************************************************************)
Claim(i) ==
    /\ At(i, "queued")
    /\ \/ CallOK(i) /\ ClaimTransaction(i) /\ Goto(i, "load")
       \/ CallOK(i) /\ ~Claimable(i) /\ UNCHANGED tx /\ Goto(i, "idle")
       \/ CallFails(i) /\ UNCHANGED tx /\ Goto(i, "idle")
    /\ UNCHANGED <<step, pollTask, timedOut, expiries, phase, remote, pollerVars, scanVars>>

-----------------------------------------------------------------------------
(* The loop of driveTransaction *)

(* The top of the loop: leave when stopping, else read the transaction. *)
LoadTransaction(i) ==
    /\ At(i, "load")
    /\ \/ /\ CallOK(i)
          /\ pc' = [pc EXCEPT ![i] = "loadSteps"]
          /\ loc' = [loc EXCEPT ![i].status = GetTransaction.status]
       \/ CallFails(i) /\ Leave(i, "release")
    /\ UNCHANGED <<storeVars, timedOut, expiries, phase, remote, pollerVars, scanVars>>

LoadSteps(i) ==
    /\ At(i, "loadSteps")
    /\ \/ /\ CallOK(i)
          /\ pc' = [pc EXCEPT ![i] = "renew"]
          /\ loc' = [loc EXCEPT ![i].steps = GetSteps]
       \/ CallFails(i) /\ Leave(i, "release")
    /\ UNCHANGED <<storeVars, timedOut, expiries, phase, remote, pollerVars, scanVars>>

StepsIn(rows, statuses) == {s \in Steps : rows[s].status \in statuses}

IsLeast(s, S) == s \in S /\ \A t \in S : s <= t

(* Seeded fault: the loop runs the other way. *)
IsGreatest_Ascending(s, S) == IsLeast(s, S)

IsGreatest(s, S) == s \in S /\ \A t \in S : t <= s

(***************************************************************************)
(* The step executeNextStep settles on: the last one in progress, or else  *)
(* the first pending one.                                                  *)
(***************************************************************************)
InProgress(rows) == StepsIn(rows, {"running", "polling"})
Pending(rows)    == StepsIn(rows, {"pending"})

(* Seeded fault: the last pending step instead of the first. *)
IsCurrentStep_LastPending(s, rows) ==
    IF InProgress(rows) # {}
      THEN IsGreatest(s, InProgress(rows))
      ELSE IsGreatest(s, Pending(rows))

IsCurrentStep(s, rows) ==
    IF InProgress(rows) # {}
      THEN IsGreatest(s, InProgress(rows))
      ELSE IsLeast(s, Pending(rows))

(* Seeded fault: the loop over the steps ends one short. *)
AllSucceeded_ButLast(rows) == \A s \in Steps : s < N => rows[s].status = "succeeded"

AllSucceeded(rows) == StepsIn(rows, {"succeeded"}) = Steps

Take(i, place, s) ==
    /\ pc' = [pc EXCEPT ![i] = place]
    /\ loc' = [loc EXCEPT ![i] = [NoLocals EXCEPT !.cur = s,
                                    !.retry = loc[i].steps[s].retryCount]]

(***************************************************************************)
(* executeNextStep on the rows read before the lease was renewed.  A       *)
(* running sync step is executed again; a running async step is waited     *)
(* for.                                                                    *)
(***************************************************************************)
ExecuteNextStep(i) ==
    LET rows         == loc[i].steps
        giveUp       == timedOut \/ StepsIn(rows, {"failed"}) # {}
        allSucceeded == AllSucceeded(rows)
        toExecute    == InProgress(rows) \cup Pending(rows)
    IN  \/ giveUp /\ Leave(i, "trigger")
        \/ ~giveUp /\ allSucceeded /\ Leave(i, "casSucceeded")
        \/ ~giveUp /\ ~allSucceeded /\ toExecute = {} /\ Leave(i, "release")
        \/ /\ ~giveUp
           /\ \E s \in Steps :
                 /\ IsCurrentStep(s, rows)
                 /\ Take(i,
                         IF \/ rows[s].status = "pending"
                            \/ rows[s].status = "running" /\ s \notin AsyncSteps
                           THEN "markRunning" ELSE "register",
                         s)

(* Seeded fault: the steps that only reached polling are left out. *)
ToCompensate_NoPolling(rows) == StepsIn(rows, {"succeeded", "compensating"})

(***************************************************************************)
(* executeCompensation collects the steps to take back: those that         *)
(* succeeded, are polling, or were being compensated already.              *)
(***************************************************************************)
ToCompensate(rows) == StepsIn(rows, {"succeeded", "polling", "compensating"})

BeginCompensation(i) ==
    /\ pc' = [pc EXCEPT ![i] = "compensate"]
    /\ loc' = [loc EXCEPT ![i] =
                 [NoLocals EXCEPT !.todo = ToCompensate(loc[i].steps),
                                  !.skip = Pending(loc[i].steps)]]

(* Renew the lease, then act on the status read at the top of the loop. *)
RenewAndDispatch(i) ==
    /\ At(i, "renew")
    /\ \/ /\ CallOK(i)
          /\ ClaimTransaction(i)
          /\ CASE loc[i].status = "pending"      -> Leave(i, "casRunning")
               [] loc[i].status = "running"      -> ExecuteNextStep(i)
               [] loc[i].status = "compensating" -> BeginCompensation(i)
               [] OTHER                          -> Leave(i, "release")
       \/ CallOK(i) /\ ~Claimable(i) /\ UNCHANGED tx /\ Leave(i, "release")
       \/ CallFails(i) /\ UNCHANGED tx /\ Leave(i, "release")
    /\ UNCHANGED <<step, pollTask, timedOut, expiries, phase, remote, pollerVars, scanVars>>

StartRunning(i) ==
    /\ At(i, "casRunning")
    /\ \/ /\ CallOK(i)
          /\ UpdateTransactionStatusCAS("pending", "running", "none")
          /\ Leave(i, IF tx.status = "pending" THEN "load" ELSE "release")
       \/ CallFails(i) /\ UNCHANGED tx /\ Leave(i, "release")
    /\ UNCHANGED <<step, pollTask, timedOut, expiries, phase, remote, pollerVars, scanVars>>

(* All steps succeeded; whatever the CAS says, the loop ends. *)
Succeed(i) ==
    /\ At(i, "casSucceeded")
    /\ \/ CallOK(i) /\ UpdateTransactionStatusCAS("running", "succeeded", "none")
       \/ CallFails(i) /\ UNCHANGED tx
    /\ Leave(i, "release")
    /\ UNCHANGED <<step, pollTask, timedOut, expiries, phase, remote, pollerVars, scanVars>>

(***************************************************************************)
(* After a step succeeded: compensate if the deadline has passed, else     *)
(* move current_step with a durable write (a failure is only logged).      *)
(***************************************************************************)
Advance(i) ==
    /\ At(i, "advance")
    /\ \/ Live(i) /\ timedOut /\ UNCHANGED <<tx, errs>> /\ Leave(i, "trigger")
       \/ /\ ~timedOut
          /\ \/ DurableOK(i) /\ UpdateTransactionStep(loc[i].cur)
             \/ DurableFails(i) /\ UNCHANGED tx
          /\ Leave(i, "load")
    /\ UNCHANGED <<step, pollTask, timedOut, expiries, phase, remote, pollerVars, scanVars>>

(* Seeded fault: the loop ends instead of going on to compensate. *)
TriggerCompensation_Stops(i) ==
    /\ At(i, "trigger")
    /\ DurableOK(i) /\ UpdateTransactionStatusCAS("running", "compensating", "other")
    /\ Goto(i, "release")
    /\ UNCHANGED <<step, pollTask, timedOut, expiries, phase, remote, pollerVars, scanVars>>

(* triggerCompensation: a durable CAS, then back to the top of the loop. *)
TriggerCompensation(i) ==
    /\ At(i, "trigger")
    /\ \/ DurableOK(i) /\ UpdateTransactionStatusCAS("running", "compensating", "other")
       \/ DurableFails(i) /\ UNCHANGED tx
    /\ Goto(i, "load")
    /\ UNCHANGED <<step, pollTask, timedOut, expiries, phase, remote, pollerVars, scanVars>>

-----------------------------------------------------------------------------
(* waitForAsyncStep *)

Register(i) ==
    /\ At(i, "register")
    /\ Live(i)
    /\ \/ timedOut /\ Leave(i, "trigger") /\ UNCHANGED notifyCh
       \/ ~timedOut /\ RegisterNotify(i) /\ Goto(i, "reread")
    /\ UNCHANGED <<storeVars, clockVars, remote, poll, scanVars>>

(* Seeded fault: the step is not read again after registering. *)
Reread_Never(i) ==
    /\ At(i, "reread")
    /\ CallOK(i) /\ Goto(i, "waiting") /\ UNCHANGED notifyCh
    /\ UNCHANGED <<storeVars, timedOut, expiries, phase, remote, poll, scanVars>>

(***************************************************************************)
(* Read the step again, so that a result that came before registration is  *)
(* not missed.  Every way out of waitForAsyncStep unregisters the channel. *)
(***************************************************************************)
Reread(i) ==
    LET status == GetStep(loc[i].cur).status
    IN  /\ At(i, "reread")
        /\ \/ CallFails(i) /\ Leave(i, "release") /\ UnregisterNotify(i)
           \/ /\ CallOK(i)
              /\ \/ status = "succeeded" /\ Goto(i, "advance") /\ UnregisterNotify(i)
                 \/ status = "failed" /\ Leave(i, "trigger") /\ UnregisterNotify(i)
                 \/ /\ status \in {"compensating", "compensated", "skipped"}
                    /\ Leave(i, "load") /\ UnregisterNotify(i)
                 \/ /\ status \in {"pending", "running", "polling"}
                    /\ Goto(i, "waiting") /\ UNCHANGED notifyCh
        /\ UNCHANGED <<storeVars, timedOut, expiries, phase, remote, poll, scanVars>>

(* AsyncStepTimeout, the deadline or the cancelled context end the wait. *)
WaitTimesOut(i) ==
    /\ At(i, "waiting")
    /\ Live(i)
    /\ Leave(i, "trigger")
    /\ UnregisterNotify(i)
    /\ UNCHANGED <<storeVars, clockVars, remote, poll, scanVars>>

(* stopCh is closed. *)
WaitStopped(i) ==
    /\ At(i, "waiting")
    /\ phase[i] = "stopping"
    /\ Leave(i, "release")
    /\ UnregisterNotify(i)
    /\ UNCHANGED <<storeVars, clockVars, remote, poll, scanVars>>

(* A result arrives; it names the transaction, not the step. *)
WaitNotified(i) ==
    /\ At(i, "waiting")
    /\ Live(i)
    /\ \/ notifyCh[i] = "success" /\ Goto(i, "advanceNotified")
       \/ notifyCh[i] = "failure" /\ Leave(i, "trigger")
    /\ UnregisterNotify(i)
    /\ UNCHANGED <<storeVars, clockVars, remote, poll, scanVars>>

(* UpdateTransactionStep after a notification, with the engine's context. *)
AdvanceNotified(i) ==
    /\ At(i, "advanceNotified")
    /\ \/ CallOK(i) /\ UpdateTransactionStep(loc[i].cur)
       \/ CallFails(i) /\ UNCHANGED tx
    /\ Leave(i, "load")
    /\ UNCHANGED <<step, pollTask, timedOut, expiries, phase, remote, pollerVars, scanVars>>

-----------------------------------------------------------------------------
(* executeCompensation *)

(***************************************************************************)
(* The loop over toCompensate, last step first: leave when stopping, else  *)
(* start CompensateStep with its write of compensating, whose failure      *)
(* fails the step.                                                         *)
(***************************************************************************)
CompensateNext(i) ==
    /\ At(i, "compensate")
    /\ loc[i].todo # {}
    /\ \E s \in Steps :
          /\ IsGreatest(s, loc[i].todo)
          /\ \/ /\ CallOK(i)
                /\ UpdateStepStatus(s, "compensating")
                /\ pc' = [pc EXCEPT ![i] = "compCall"]
                /\ loc' = [loc EXCEPT ![i].cur = s]
             \/ /\ phase[i] = "up" /\ StoreError
                /\ loc' = [loc EXCEPT ![i].todo = loc[i].todo \ {s}, ![i].clean = FALSE]
                /\ UNCHANGED <<step, pc>>
             \/ phase[i] = "stopping" /\ Leave(i, "release") /\ UNCHANGED <<step, errs>>
    /\ UNCHANGED <<tx, pollTask, timedOut, expiries, phase, remote, pollerVars, scanVars>>

(***************************************************************************)
(* The steps read as pending are marked skipped, one write each; a failed  *)
(* write is only logged.                                                   *)
(***************************************************************************)
MarkSkipped(i) ==
    /\ At(i, "compensate")
    /\ loc[i].todo = {}
    /\ \/ /\ loc[i].skip = {}
          /\ Live(i)
          /\ Goto(i, "finish")
          /\ UNCHANGED <<step, errs>>
       \/ \E s \in Steps :
             /\ IsLeast(s, loc[i].skip)
             /\ \/ CallOK(i) /\ UpdateStepStatus(s, "skipped")
                \/ CallFails(i) /\ UNCHANGED step
             /\ loc' = [loc EXCEPT ![i].skip = loc[i].skip \ {s}]
             /\ UNCHANGED pc
    /\ UNCHANGED <<tx, pollTask, timedOut, expiries, phase, remote, pollerVars, scanVars>>

(* The verdict is written whatever the status is by now. *)
FinishCompensation(i) ==
    /\ At(i, "finish")
    /\ \/ /\ CallOK(i)
          /\ UpdateTransactionStatus("failed", IF loc[i].clean THEN "completed" ELSE "partial")
       \/ CallFails(i) /\ UNCHANGED tx
    /\ Leave(i, "release")
    /\ UNCHANGED <<step, pollTask, timedOut, expiries, phase, remote, pollerVars, scanVars>>

(***************************************************************************)
(* The deferred release, with the context the loop was given: after a stop *)
(* it fails and the lock stays.                                            *)
(***************************************************************************)
Release(i) ==
    /\ At(i, "release")
    /\ \/ CallOK(i) /\ ReleaseTransaction(i)
       \/ CallFails(i) /\ UNCHANGED tx
    /\ Goto(i, "deactivate")
    /\ UNCHANGED <<step, pollTask, timedOut, expiries, phase, remote, pollerVars, scanVars>>

(* The other deferred call, after it: delete(activeTx, txID). *)
Deactivate(i) ==
    /\ At(i, "deactivate")
    /\ Live(i)
    /\ Goto(i, "idle")
    /\ UNCHANGED <<storeVars, clockVars, remote, pollerVars, scanVars>>

DriverStep(i) ==
    \/ Claim(i)
    \/ LoadTransaction(i)
    \/ LoadSteps(i)
    \/ RenewAndDispatch(i)
    \/ StartRunning(i)
    \/ Succeed(i)
    \/ Advance(i)
    \/ TriggerCompensation(i)
    \/ Register(i)
    \/ Reread(i)
    \/ WaitTimesOut(i)
    \/ WaitStopped(i)
    \/ WaitNotified(i)
    \/ AdvanceNotified(i)
    \/ CompensateNext(i)
    \/ MarkSkipped(i)
    \/ FinishCompensation(i)
    \/ Release(i)
    \/ Deactivate(i)

-----------------------------------------------------------------------------
(* recoveryScan, once per start *)

RecoveryList(i) ==
    /\ recovery[i] = "wait"
    /\ \/ /\ CallOK(i)
          /\ ListRecoverableTransactions(i)
          /\ recovery' = [recovery EXCEPT ![i] = "submit"]
       \/ /\ CallOK(i) /\ ~Recoverable
          /\ UNCHANGED tx
          /\ recovery' = [recovery EXCEPT ![i] = "off"]
       \/ /\ CallFails(i)
          /\ UNCHANGED tx
          /\ recovery' = [recovery EXCEPT ![i] = "off"]
    /\ UNCHANGED <<step, pollTask, timedOut, expiries, phase, execVars, pollerVars, scan>>

(* Queue the listed transaction; declined or stopping, give the lock back. *)
RecoverySubmit(i) ==
    /\ recovery[i] = "submit"
    /\ \/ /\ phase[i] = "up"
          /\ SubmitAccepts(i)
          /\ recovery' = [recovery EXCEPT ![i] = "off"]
       \/ /\ \/ phase[i] = "up" /\ SubmitDeclines(i)
             \/ phase[i] = "stopping" /\ UNCHANGED <<pc, loc>>
          /\ recovery' = [recovery EXCEPT ![i] = "release"]
    /\ UNCHANGED <<storeVars, clockVars, remote, pollerVars, scan>>

RecoveryRelease(i) ==
    /\ recovery[i] = "release"
    /\ \/ CallOK(i) /\ ReleaseTransaction(i)
       \/ CallFails(i) /\ UNCHANGED tx
    /\ recovery' = [recovery EXCEPT ![i] = "off"]
    /\ UNCHANGED <<step, pollTask, timedOut, expiries, phase, execVars, pollerVars, scan>>

-----------------------------------------------------------------------------
(* scanTimeouts, at every tick; a failure to list changes nothing *)

TimeoutList(i) ==
    /\ scan[i].pc = "idle"
    /\ CallOK(i)
    /\ ListTimedOutTransactions(i)
    /\ scan' = [scan EXCEPT ![i] = [pc |-> "cas", status |-> tx.status]]
    /\ UNCHANGED <<step, pollTask, timedOut, expiries, phase, execVars, pollerVars, recovery>>

(* CAS from the status that was listed. *)
TimeoutCAS(i) ==
    /\ scan[i].pc = "cas"
    /\ \/ /\ CallOK(i)
          /\ UpdateTransactionStatusCAS(scan[i].status, "compensating", "other")
          /\ scan' = [scan EXCEPT ![i] =
                        [NoScan EXCEPT !.pc = IF tx.status = scan[i].status
                                                THEN "submit" ELSE "release"]]
       \/ /\ CallFails(i)
          /\ UNCHANGED tx
          /\ scan' = [scan EXCEPT ![i] = [NoScan EXCEPT !.pc = "release"]]
    /\ UNCHANGED <<step, pollTask, timedOut, expiries, phase, execVars, pollerVars, recovery>>

TimeoutSubmit(i) ==
    /\ scan[i].pc = "submit"
    /\ Live(i)
    /\ \/ SubmitAccepts(i) /\ scan' = [scan EXCEPT ![i] = NoScan]
       \/ SubmitDeclines(i) /\ scan' = [scan EXCEPT ![i].pc = "release"]
    /\ UNCHANGED <<storeVars, clockVars, remote, pollerVars, recovery>>

TimeoutRelease(i) ==
    /\ scan[i].pc = "release"
    /\ \/ CallOK(i) /\ ReleaseTransaction(i)
       \/ CallFails(i) /\ UNCHANGED tx
    /\ scan' = [scan EXCEPT ![i] = NoScan]
    /\ UNCHANGED <<step, pollTask, timedOut, expiries, phase, execVars, pollerVars, recovery>>

RecoveryStep(i) == RecoveryList(i) \/ RecoverySubmit(i) \/ RecoveryRelease(i)

TimeoutStep(i) ==
    TimeoutList(i) \/ TimeoutCAS(i) \/ TimeoutSubmit(i) \/ TimeoutRelease(i)
=============================================================================
