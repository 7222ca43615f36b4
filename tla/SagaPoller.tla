----------------------------- MODULE SagaPoller ------------------------------
(***************************************************************************)
(* saga/poller.go: every instance scans the poll tasks, asks the           *)
(* participant of each acquired task how the job is doing, records the     *)
(* answer and notifies the coordinator of its own process through a        *)
(* channel of capacity one registered under the transaction's id.          *)
(***************************************************************************)
EXTENDS SagaExecutor

CONSTANT PollMaxTimes   \* Step.PollMaxTimes

ASSUME PollerAssumption == PollMaxTimes \in Nat

VARIABLES
    notifyCh,   \* notifyChan[tx] of each instance: absent, empty or a result
    poll        \* the goroutine of processPollTask of each instance and step

pollerVars == <<notifyCh, poll>>

PollPC == {"idle", "check", "ask", "record", "delete", "notify",
           "reschedule", "release"}

PollTask == [pc : PollPC, count : Nat, result : {"none", "success", "failure"}]

NoPoll == [pc |-> "idle", count |-> 0, result |-> "none"]

PollerTypeOK ==
    /\ notifyCh \in [Instances -> {"absent", "empty", "success", "failure"}]
    /\ poll \in [Instances -> [Steps -> PollTask]]
    /\ \A i \in Instances, s \in Steps :
          poll[i][s].pc \in {"record", "delete", "notify"} => poll[i][s].result # "none"

PollerInit ==
    /\ notifyCh = [i \in Instances |-> "absent"]
    /\ poll = [i \in Instances |-> [s \in Steps |-> NoPoll]]

SetPoll(i, s, task) == poll' = [poll EXCEPT ![i][s] = task]

PollGoto(i, s, place) == poll' = [poll EXCEPT ![i][s].pc = place]

-----------------------------------------------------------------------------
(* The notification channel *)

RegisterNotify(i) ==
    notifyCh' = [notifyCh EXCEPT ![i] =
                    IF notifyCh[i] = "absent" THEN "empty" ELSE notifyCh[i]]

UnregisterNotify(i) == notifyCh' = [notifyCh EXCEPT ![i] = "absent"]

(* The send never blocks: a result for a full or absent channel is dropped. *)
Notify(i, result) ==
    notifyCh' = [notifyCh EXCEPT ![i] =
                    IF notifyCh[i] = "empty" THEN result ELSE notifyCh[i]]

-----------------------------------------------------------------------------
(***************************************************************************)
(* scanAndProcess: acquire some of the free tasks (which of them are due,  *)
(* and the batch size, is time's choice) and start a goroutine for each.   *)
(* The next scan waits until all of them have ended.  A failure to acquire *)
(* changes nothing.                                                        *)
(***************************************************************************)
ScanAndProcess(i) ==
    /\ CallOK(i)
    /\ \A s \in Steps : poll[i][s].pc = "idle"
    /\ \E due \in SUBSET Steps :
          /\ AcquirePollTasks(due)
          /\ poll' = [poll EXCEPT ![i] =
                        [s \in Steps |-> IF s \in due
                                           THEN [NoPoll EXCEPT !.pc = "check"]
                                           ELSE NoPoll]]
    /\ UNCHANGED <<tx, step, timedOut, expiries, phase, execVars, notifyCh>>

(***************************************************************************)
(* processPollTask reads the step: a task whose step is not polling is     *)
(* deleted (a failure to delete is ignored); otherwise the transaction and *)
(* all steps are read too.  A failed read releases the task.               *)
(***************************************************************************)
CheckStep(i, s) ==
    /\ poll[i][s].pc = "check"
    /\ \/ CallFails(i) /\ UNCHANGED pollTask /\ PollGoto(i, s, "release")
       \/ /\ GetStep(s).status # "polling"
          /\ \/ CallOK(i) /\ DeletePollTask(s)
             \/ CallFails(i) /\ UNCHANGED pollTask
          /\ SetPoll(i, s, NoPoll)
       \/ /\ GetStep(s).status = "polling"
          /\ CallOK(i)
          /\ SetPoll(i, s, [pc |-> "ask", count |-> GetStep(s).pollCount,
                            result |-> "none"])
          /\ UNCHANGED pollTask
    /\ UNCHANGED <<tx, step, timedOut, expiries, phase, execVars, notifyCh>>

(* Seeded fault: > for >=. *)
PollsExhausted_Late(n) == n > PollMaxTimes

PollsExhausted(n) == n >= PollMaxTimes

(* What a job says of itself; one that was taken back may say anything. *)
JobAnswers(r) ==
    CASE r = "done"     -> {"success"}
      [] r = "failed"   -> {"failure"}
      [] r = "accepted" -> {"processing"}
      [] r = "undone"   -> {"success", "failure", "processing"}
      [] OTHER          -> {}

(* What Executor.Poll comes back with; its context is the engine's. *)
PollAnswers(i, s) ==
    {"unsigned", "error"} \cup (IF phase[i] = "up" THEN JobAnswers(remote[s]) ELSE {})

(***************************************************************************)
(* The rest of processPollTask: a signing error counts as failure, any     *)
(* other error releases the task.                                          *)
(***************************************************************************)
PollRequest(i, s) ==
    /\ poll[i][s].pc = "ask"
    /\ Live(i)
    /\ \/ /\ "success" \in PollAnswers(i, s)
          /\ SetPoll(i, s, [pc |-> "record", count |-> 0, result |-> "success"])
       \/ /\ \/ PollAnswers(i, s) \cap {"failure", "unsigned"} # {}
             \/ "processing" \in PollAnswers(i, s) /\ PollsExhausted(poll[i][s].count)
          /\ SetPoll(i, s, [pc |-> "record", count |-> 0, result |-> "failure"])
       \/ /\ "processing" \in PollAnswers(i, s)
          /\ ~PollsExhausted(poll[i][s].count)
          /\ SetPoll(i, s, [NoPoll EXCEPT !.pc = "reschedule"])
       \/ /\ "error" \in PollAnswers(i, s)
          /\ SetPoll(i, s, [NoPoll EXCEPT !.pc = "release"])
    /\ UNCHANGED <<storeVars, clockVars, execVars, notifyCh>>

(***************************************************************************)
(* handlePollSuccess, handlePollFailure and handlePollTimeout: write the   *)
(* status, delete the task, notify.  A failed call is logged and the       *)
(* handler goes on.  The status is written whatever the step is by now.    *)
(***************************************************************************)
RecordResult(i, s) ==
    /\ poll[i][s].pc = "record"
    /\ \/ CallOK(i) /\ UpdateStepStatus(s, IF poll[i][s].result = "success"
                                             THEN "succeeded" ELSE "failed")
       \/ CallFails(i) /\ UNCHANGED step
    /\ PollGoto(i, s, "delete")
    /\ UNCHANGED <<tx, pollTask, timedOut, expiries, phase, execVars, notifyCh>>

DeleteTask(i, s) ==
    /\ poll[i][s].pc = "delete"
    /\ \/ CallOK(i) /\ DeletePollTask(s)
       \/ CallFails(i) /\ UNCHANGED pollTask
    /\ PollGoto(i, s, "notify")
    /\ UNCHANGED <<tx, step, timedOut, expiries, phase, execVars, notifyCh>>

NotifyCoordinator(i, s) ==
    /\ poll[i][s].pc = "notify"
    /\ Live(i)
    /\ Notify(i, poll[i][s].result)
    /\ SetPoll(i, s, NoPoll)
    /\ UNCHANGED <<storeVars, clockVars, execVars>>

(* scheduleNextPoll; a failure, also for want of the task, is only logged. *)
ScheduleNextPoll(i, s) ==
    /\ poll[i][s].pc = "reschedule"
    /\ \/ CallOK(i) /\ IncrementStepPollCount(s)
       \/ CallOK(i) /\ pollTask[s] = "absent" /\ UNCHANGED step
       \/ CallFails(i) /\ UNCHANGED step
    /\ PollGoto(i, s, "release")
    /\ UNCHANGED <<tx, pollTask, timedOut, expiries, phase, execVars, notifyCh>>

(* releasePollTask: the lock is cleared whoever holds it by now. *)
ReleaseTask(i, s) ==
    /\ poll[i][s].pc = "release"
    /\ \/ CallOK(i) /\ ReleasePollTask(s)
       \/ CallFails(i) /\ UNCHANGED pollTask
    /\ SetPoll(i, s, NoPoll)
    /\ UNCHANGED <<tx, step, timedOut, expiries, phase, execVars, notifyCh>>

PollerStep(i) ==
    \/ ScanAndProcess(i)
    \/ \E s \in Steps :
          \/ CheckStep(i, s)
          \/ PollRequest(i, s)
          \/ RecordResult(i, s)
          \/ DeleteTask(i, s)
          \/ NotifyCoordinator(i, s)
          \/ ScheduleNextPoll(i, s)
          \/ ReleaseTask(i, s)
=============================================================================
