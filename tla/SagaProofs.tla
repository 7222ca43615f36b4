----------------------------- MODULE SagaProofs ------------------------------
(***************************************************************************)
(* Theorems about the saga engine of module Saga, for any number of        *)
(* instances and steps, any retry and poll limits, and with any number of  *)
(* crashes, stops, store failures and lock expiries:                       *)
(*   - the types of all variables                       (TypeCorrect);     *)
(*   - a transaction recorded as succeeded is complete  (SuccessTheorem);  *)
(*   - a step recorded as compensated was undone   (CompensationTheorem);  *)
(*   - the engine implements the contract of module SagaAbstract           *)
(*                                                  (RefinementTheorem).   *)
(***************************************************************************)
EXTENDS Saga, TLAPS

-----------------------------------------------------------------------------
(* What the operators of the model return *)

(* The locals of a driver that holds nothing are well typed. *)
LEMMA NoLocalsType == NoLocals \in Locals
BY StoreAssumption
   DEF NoLocals, Locals, Steps, StepRow, StepStatus, NewStep, TxStatus, ActiveStatus

(* The updates the driver makes to its locals keep their type. *)
LEMMA LocalsUpdate ==
    ASSUME NEW l \in Locals, NEW s \in Steps
    PROVE  /\ [l EXCEPT !.retry = l.retry + 1] \in Locals
           /\ [l EXCEPT !.todo = l.todo \ {s}] \in Locals
           /\ [l EXCEPT !.todo = l.todo \ {s}, !.clean = FALSE] \in Locals
           /\ [l EXCEPT !.skip = l.skip \ {s}] \in Locals
           /\ [l EXCEPT !.cur = s] \in Locals
           /\ \A v \in TxStatus : [l EXCEPT !.status = v] \in Locals
           /\ \A rows \in [Steps -> StepRow] : [l EXCEPT !.steps = rows] \in Locals
<1>1. [l EXCEPT !.retry = l.retry + 1] \in Locals
  BY DEF Locals
<1>2. [l EXCEPT !.todo = l.todo \ {s}] \in Locals
  BY DEF Locals
<1>3. [l EXCEPT !.todo = l.todo \ {s}, !.clean = FALSE] \in Locals
  BY DEF Locals
<1>4. [l EXCEPT !.skip = l.skip \ {s}] \in Locals
  BY DEF Locals
<1>5. [l EXCEPT !.cur = s] \in Locals
  BY DEF Locals
<1>6. \A v \in TxStatus : [l EXCEPT !.status = v] \in Locals
  BY DEF Locals
<1>7. \A rows \in [Steps -> StepRow] : [l EXCEPT !.steps = rows] \in Locals
  BY DEF Locals
<1> QED
  BY <1>1, <1>2, <1>3, <1>4, <1>5, <1>6, <1>7

(* Moving a driver, with or without its locals, keeps the types. *)
LEMMA GotoType ==
    ASSUME ExecutorTypeOK, NEW i \in Instances, NEW place \in DriverPC,
           Goto(i, place) \/ Leave(i, place)
    PROVE  pc' \in [Instances -> DriverPC] /\ loc' \in [Instances -> Locals]
BY NoLocalsType DEF ExecutorTypeOK, Goto, Leave

(* Ending the compensation of a step keeps the types. *)
LEMMA CompensatedType ==
    ASSUME ExecutorTypeOK, NEW i \in Instances, NEW ok \in BOOLEAN, Compensated(i, ok)
    PROVE  pc' \in [Instances -> DriverPC] /\ loc' \in [Instances -> Locals]
<1> DEFINE l == loc[i]
           s == loc[i].cur
<1>1. l \in Locals /\ s \in Steps
  BY DEF ExecutorTypeOK, Locals
<1>2. pc' \in [Instances -> DriverPC]
  BY DEF Compensated, ExecutorTypeOK, DriverPC
<1>3. CASE ok
  <2>1. loc' = [loc EXCEPT ![i] = [l EXCEPT !.todo = l.todo \ {s}, !.clean = l.clean]]
    BY <1>3 DEF Compensated
  <2>2. [l EXCEPT !.todo = l.todo \ {s}, !.clean = l.clean] \in Locals
    BY <1>1 DEF Locals
  <2> QED
    BY <1>2, <2>1, <2>2 DEF ExecutorTypeOK
<1>4. CASE ~ok
  <2>1. loc' = [loc EXCEPT ![i] = [l EXCEPT !.todo = l.todo \ {s}, !.clean = FALSE]]
    BY <1>4 DEF Compensated
  <2> QED
    BY <1>1, <1>2, <2>1, LocalsUpdate DEF ExecutorTypeOK
<1> QED
  BY <1>3, <1>4

(* The writes to a row of saga_steps keep its type. *)
LEMMA StepRowType ==
    ASSUME step \in [Steps -> StepRow], NEW s \in Steps
    PROVE  /\ \A v \in StepStatus : UpdateStepStatus(s, v) => step' \in [Steps -> StepRow]
           /\ IncrementStepRetry(s) => step' \in [Steps -> StepRow]
           /\ IncrementStepPollCount(s) => step' \in [Steps -> StepRow]
BY DEF UpdateStepStatus, IncrementStepRetry, IncrementStepPollCount, StepRow

LEMMA StepStatusValues ==
    {"pending", "running", "polling", "succeeded", "failed", "compensating",
     "compensated", "skipped"} \subseteq StepStatus
BY DEF StepStatus

(* The writes to the row of saga_transactions keep its type. *)
LEMMA TxRowType ==
    ASSUME tx \in TxRow, NEW i \in Instances
    PROVE  /\ Lock(i) => tx' \in TxRow
           /\ ReleaseTransaction(i) => tx' \in TxRow
           /\ \A n \in Steps : UpdateTransactionStep(n) => tx' \in TxRow
           /\ \A v \in TxStatus, r \in {"none", "other", "completed", "partial"} :
                 /\ UpdateTransactionStatus(v, r) => tx' \in TxRow
                 /\ \A u \in TxStatus :
                       UpdateTransactionStatusCAS(u, v, r) => tx' \in TxRow
<1>1. Lock(i) => tx' \in TxRow
  BY DEF Lock, TxRow
<1>2. ReleaseTransaction(i) => tx' \in TxRow
  BY DEF ReleaseTransaction, TxRow
<1>3. \A n \in Steps : UpdateTransactionStep(n) => tx' \in TxRow
  BY StoreAssumption DEF UpdateTransactionStep, TxRow, Steps
<1>4. ASSUME NEW v \in TxStatus, NEW r \in {"none", "other", "completed", "partial"}
      PROVE  /\ UpdateTransactionStatus(v, r) => tx' \in TxRow
             /\ \A u \in TxStatus : UpdateTransactionStatusCAS(u, v, r) => tx' \in TxRow
  BY DEF UpdateTransactionStatus, UpdateTransactionStatusCAS, TxRow
<1> QED
  BY <1>1, <1>2, <1>3, <1>4

(* The step in hand is a step. *)
LEMMA CurType ==
    ASSUME ExecutorTypeOK, NEW i \in Instances
    PROVE  loc[i].cur \in Steps
BY DEF ExecutorTypeOK, Locals

(* The bounded counters stay within their bounds. *)
LEMMA CounterType ==
    ASSUME StoreTypeOK
    PROVE  /\ (UNCHANGED errs \/ StoreError) => errs' \in 0..MaxStoreErrors
           /\ (UNCHANGED expiries \/ LockExpires) => expiries' \in 0..MaxExpiries
BY StoreAssumption DEF StoreTypeOK, StoreError, LockExpires

(* What may happen at a participant stays within Effect. *)
LEMMA RemoteType ==
    ASSUME ExecutorTypeOK, NEW s \in Steps
    PROVE  /\ Applied(s) \in Effect
           /\ Lost(s) \in Effect
           /\ \A r \in Effect : [remote EXCEPT ![s] = r] \in [Steps -> Effect]
BY DEF ExecutorTypeOK, Applied, Lost, Effect

-----------------------------------------------------------------------------
(* Type correctness, one lemma for each component *)

(* A component whose variables a step leaves alone keeps its types. *)
LEMMA KeepTypes ==
    ASSUME TypeOK
    PROVE  /\ UNCHANGED <<storeVars, clockVars>> => StoreTypeOK'
           /\ UNCHANGED execVars => ExecutorTypeOK'
           /\ UNCHANGED pollerVars => PollerTypeOK'
           /\ UNCHANGED scanVars => CoordinatorTypeOK'
BY DEF TypeOK, StoreTypeOK, ExecutorTypeOK, PollerTypeOK, CoordinatorTypeOK,
       storeVars, clockVars, execVars, pollerVars, scanVars

(* The calls of executor.go keep every variable in its type. *)
LEMMA ExecutorType ==
    ASSUME TypeOK, NEW i \in Instances, Executor(i)
    PROVE  TypeOK'
<1> USE StoreAssumption, CurType, CounterType, GotoType, StepRowType,
        StepStatusValues, CompensatedType, RemoteType
<1> USE DEF StoreTypeOK, ExecutorTypeOK, storeVars, clockVars
<1>t. StoreTypeOK /\ ExecutorTypeOK
  BY DEF TypeOK
<1>a. {"call", "trigger", "createPoll", "markSucceeded", "afterRetry", "httpError",
       "load", "advance", "markPolling", "register", "compSave", "compFail"}
         \subseteq DriverPC
  BY DEF DriverPC
<1>1. MarkRunning(i) => StoreTypeOK' /\ ExecutorTypeOK'
  BY <1>a, <1>t DEF MarkRunning, ExecOK, ExecFails, CallOK, CallFails
<1>2. RequestNotBuilt(i) => StoreTypeOK' /\ ExecutorTypeOK'
  BY <1>a, <1>t
     DEF RequestNotBuilt, ExecOK, ExecFails, CallOK, CallFails, DurableOK, DurableFails
<1>3. CallSucceeds(i) => StoreTypeOK' /\ ExecutorTypeOK'
  BY <1>a, <1>t DEF CallSucceeds
<1>4. CallFailsHTTP(i) => StoreTypeOK' /\ ExecutorTypeOK'
  <2>1. CallFailsHTTP(i) => remote' \in [Steps -> Effect]
    BY <1>t DEF CallFailsHTTP
  <2> QED
    BY <1>a, <1>t, <2>1 DEF CallFailsHTTP
<1>5. HandleHTTPError(i) => StoreTypeOK' /\ ExecutorTypeOK'
  <2> SUFFICES ASSUME HandleHTTPError(i)
               PROVE  StoreTypeOK' /\ ExecutorTypeOK'
    OBVIOUS
  <2>1. ASSUME loc' = [loc EXCEPT ![i].retry = loc[i].retry + 1]
        PROVE  loc' \in [Instances -> Locals]
    <3>1. loc' = [loc EXCEPT ![i] = [loc[i] EXCEPT !.retry = loc[i].retry + 1]]
      BY <2>1
    <3>2. [loc[i] EXCEPT !.retry = loc[i].retry + 1] \in Locals
      BY <1>t, LocalsUpdate
    <3> QED
      BY <1>t, <3>1, <3>2
  <2>2. pc' \in [Instances -> DriverPC] /\ loc' \in [Instances -> Locals]
    BY <1>a, <1>t, <2>1 DEF HandleHTTPError
  <2>3. step' \in [Steps -> StepRow]
    BY <1>t DEF HandleHTTPError
  <2> QED
    BY <1>t, <2>2, <2>3 DEF HandleHTTPError, DurableOK, DurableFails
<1>6. AfterRetry(i) => StoreTypeOK' /\ ExecutorTypeOK'
  BY <1>a, <1>t DEF AfterRetry, DurableOK, DurableFails
<1>7. MarkSucceeded(i) => StoreTypeOK' /\ ExecutorTypeOK'
  BY <1>a, <1>t DEF MarkSucceeded, DurableOK, DurableFails
<1>8. SetUpPolling(i) => StoreTypeOK' /\ ExecutorTypeOK'
  BY <1>a, <1>t DEF SetUpPolling, CreatePollTask, DurableOK, DurableFails
<1>9. MarkPolling(i) => StoreTypeOK' /\ ExecutorTypeOK'
  BY <1>a, <1>t DEF MarkPolling, DurableOK, DurableFails
<1>10. CallCompensation(i) => StoreTypeOK' /\ ExecutorTypeOK'
  <2> SUFFICES ASSUME CallCompensation(i)
               PROVE  StoreTypeOK' /\ ExecutorTypeOK'
    OBVIOUS
  <2>1. pc' \in [Instances -> DriverPC] /\ loc' \in [Instances -> Locals]
    BY <1>a, <1>t DEF CallCompensation
  <2>2. remote' \in [Steps -> Effect]
    BY <1>t DEF CallCompensation, Effect
  <2>3. step' \in [Steps -> StepRow]
    BY <1>t DEF CallCompensation
  <2> QED
    BY <1>t, <2>1, <2>2, <2>3 DEF CallCompensation, CallOK, CallFails
<1>11. SaveCompensated(i) => StoreTypeOK' /\ ExecutorTypeOK'
  BY <1>a, <1>t DEF SaveCompensated, DurableOK, DurableFails
<1>12. SaveCompensationFailed(i) => StoreTypeOK' /\ ExecutorTypeOK'
  BY <1>a, <1>t DEF SaveCompensationFailed, DurableOK, DurableFails
<1>13. StoreTypeOK' /\ ExecutorTypeOK'
  BY <1>1, <1>2, <1>3, <1>4, <1>5, <1>6, <1>7, <1>8, <1>9, <1>10, <1>11, <1>12
     DEF Executor, ExecutorStep
<1> QED
  BY <1>13, KeepTypes DEF Executor, TypeOK

(* The poller's goroutines keep every variable in its type. *)
LEMMA PollerType ==
    ASSUME TypeOK, NEW i \in Instances, Poller(i)
    PROVE  TypeOK'
<1> USE StoreAssumption, CounterType, StepRowType, StepStatusValues
<1> DEFINE Answered(t) == t.pc \in {"record", "delete", "notify"} => t.result # "none"
           Task == {t \in PollTask : Answered(t)}
           Polls == [Instances -> [Steps -> Task]]
<1>t. StoreTypeOK /\ PollerTypeOK
  BY DEF TypeOK
<1>a. \A p \in PollPC, c \in Nat, r \in {"none", "success", "failure"} :
         p \notin {"record", "delete", "notify"} \/ r # "none"
           => [pc |-> p, count |-> c, result |-> r] \in Task
  BY DEF PollTask
<1>b. /\ NoPoll \in Task
      /\ \A p \in {"check", "release", "reschedule"} : [NoPoll EXCEPT !.pc = p] \in Task
  BY DEF NoPoll, PollTask, PollPC
<1>c. ASSUME NEW t \in Task
      PROVE  /\ [t EXCEPT !.pc = "release"] \in Task
             /\ t.pc = "record" => [t EXCEPT !.pc = "delete"] \in Task
             /\ t.pc = "delete" => [t EXCEPT !.pc = "notify"] \in Task
  BY DEF PollTask, PollPC
<1>d. poll \in Polls
  BY <1>t DEF PollerTypeOK
<1>e. poll' \in Polls /\ notifyCh' \in [Instances -> {"absent", "empty", "success", "failure"}]
        => PollerTypeOK'
  BY DEF PollerTypeOK
<1>f. {"ask", "record"} \subseteq PollPC
  BY DEF PollPC
<1>n. notifyCh \in [Instances -> {"absent", "empty", "success", "failure"}]
  BY <1>t DEF PollerTypeOK
<1> HIDE DEF Task
<1>g. ASSUME NEW s \in Steps, NEW t \in Task
      PROVE  [poll EXCEPT ![i][s] = t] \in Polls
  BY <1>d
<1>h. ASSUME NEW s \in Steps, NEW place, PollGoto(i, s, place)
      PROVE  poll' = [poll EXCEPT ![i][s] = [poll[i][s] EXCEPT !.pc = place]]
  BY <1>h DEF PollGoto
<1> HIDE DEF Polls
<1>1. ScanAndProcess(i) => StoreTypeOK' /\ PollerTypeOK'
  <2> SUFFICES ASSUME ScanAndProcess(i)
               PROVE  StoreTypeOK' /\ PollerTypeOK'
    OBVIOUS
  <2>1. poll' \in Polls
    BY <1>b, <1>d DEF ScanAndProcess, Polls
  <2>2. StoreTypeOK'
    BY <1>t DEF StoreTypeOK, ScanAndProcess, AcquirePollTasks, CallOK
  <2> QED
    BY <1>e, <1>n, <2>1, <2>2 DEF ScanAndProcess
<1>2. ASSUME NEW s \in Steps, CheckStep(i, s)
      PROVE  StoreTypeOK' /\ PollerTypeOK'
  <2>1. step[s].pollCount \in Nat
    BY <1>t DEF StoreTypeOK, StepRow
  <2>2. poll' \in Polls
    <3>1. [poll[i][s] EXCEPT !.pc = "release"] \in Task
      BY <1>c, <1>d DEF Polls
    <3>2. [pc |-> "ask", count |-> step[s].pollCount, result |-> "none"] \in Task
      BY <1>a, <1>f, <2>1
    <3> QED
      BY <1>2, <1>b, <1>g, <1>h, <3>1, <3>2 DEF CheckStep, GetStep, SetPoll
  <2>3. StoreTypeOK'
    BY <1>2, <1>t DEF StoreTypeOK, CheckStep, DeletePollTask, CallOK, CallFails
  <2> QED
    BY <1>2, <1>e, <1>n, <2>2, <2>3 DEF CheckStep
<1>3. ASSUME NEW s \in Steps, PollRequest(i, s)
      PROVE  StoreTypeOK' /\ PollerTypeOK'
  <2>1. poll' \in Polls
    BY <1>3, <1>a, <1>b, <1>f, <1>g DEF PollRequest, SetPoll
  <2>2. StoreTypeOK'
    BY <1>3, KeepTypes DEF PollRequest
  <2> QED
    BY <1>3, <1>e, <1>n, <2>1, <2>2 DEF PollRequest
<1>4. ASSUME NEW s \in Steps, RecordResult(i, s)
      PROVE  StoreTypeOK' /\ PollerTypeOK'
  <2>1. poll' \in Polls
    <3>1. poll[i][s] \in Task
      BY <1>d DEF Polls
    <3>2. [poll[i][s] EXCEPT !.pc = "delete"] \in Task
      BY <1>4, <1>c, <3>1 DEF RecordResult
    <3> QED
      BY <1>4, <1>g, <1>h, <3>2 DEF RecordResult
  <2>2. StoreTypeOK'
    BY <1>4, <1>t DEF StoreTypeOK, RecordResult, CallOK, CallFails
  <2> QED
    BY <1>4, <1>e, <1>n, <2>1, <2>2 DEF RecordResult
<1>5. ASSUME NEW s \in Steps, DeleteTask(i, s)
      PROVE  StoreTypeOK' /\ PollerTypeOK'
  <2>1. poll' \in Polls
    <3>1. poll[i][s] \in Task
      BY <1>d DEF Polls
    <3>2. [poll[i][s] EXCEPT !.pc = "notify"] \in Task
      BY <1>5, <1>c, <3>1 DEF DeleteTask
    <3> QED
      BY <1>5, <1>g, <1>h, <3>2 DEF DeleteTask
  <2>2. StoreTypeOK'
    BY <1>5, <1>t DEF StoreTypeOK, DeleteTask, DeletePollTask, CallOK, CallFails
  <2> QED
    BY <1>5, <1>e, <1>n, <2>1, <2>2 DEF DeleteTask
<1>6. ASSUME NEW s \in Steps, NotifyCoordinator(i, s)
      PROVE  StoreTypeOK' /\ PollerTypeOK'
  <2>1. poll' \in Polls
    BY <1>6, <1>b, <1>g DEF NotifyCoordinator, SetPoll
  <2>2. poll[i][s] \in Task
    BY <1>d DEF Polls
  <2>3. poll[i][s].result \in {"success", "failure"}
    BY <1>6, <2>2 DEF Task, PollTask, NotifyCoordinator
  <2>4. notifyCh' \in [Instances -> {"absent", "empty", "success", "failure"}]
    BY <1>6, <1>n, <2>3 DEF NotifyCoordinator, Notify
  <2> QED
    BY <1>6, <1>e, <2>1, <2>4, KeepTypes DEF NotifyCoordinator
<1>7. ASSUME NEW s \in Steps, ScheduleNextPoll(i, s)
      PROVE  StoreTypeOK' /\ PollerTypeOK'
  <2>1. poll' \in Polls
    <3>1. poll[i][s] \in Task
      BY <1>d DEF Polls
    <3>2. [poll[i][s] EXCEPT !.pc = "release"] \in Task
      BY <1>7, <1>c, <3>1 DEF ScheduleNextPoll
    <3> QED
      BY <1>7, <1>g, <1>h, <3>2 DEF ScheduleNextPoll
  <2>2. StoreTypeOK'
    BY <1>7, <1>t DEF StoreTypeOK, ScheduleNextPoll, CallOK, CallFails
  <2> QED
    BY <1>7, <1>e, <1>n, <2>1, <2>2 DEF ScheduleNextPoll
<1>8. ASSUME NEW s \in Steps, ReleaseTask(i, s)
      PROVE  StoreTypeOK' /\ PollerTypeOK'
  <2>1. poll' \in Polls
    BY <1>8, <1>b, <1>g DEF ReleaseTask, SetPoll
  <2>2. StoreTypeOK'
    BY <1>8, <1>t DEF StoreTypeOK, ReleaseTask, ReleasePollTask, CallOK, CallFails
  <2> QED
    BY <1>8, <1>e, <1>n, <2>1, <2>2 DEF ReleaseTask
<1>9. StoreTypeOK' /\ PollerTypeOK'
  BY <1>1, <1>2, <1>3, <1>4, <1>5, <1>6, <1>7, <1>8 DEF Poller, PollerStep
<1>10. UNCHANGED execVars
  BY DEF Poller, PollerStep, ScanAndProcess, CheckStep, PollRequest, RecordResult,
         DeleteTask, NotifyCoordinator, ScheduleNextPoll, ReleaseTask
<1> QED
  BY <1>9, <1>10, KeepTypes DEF Poller, TypeOK
(* Registering and unregistering the notification channel keep the types. *)
LEMMA NotifyType ==
    ASSUME PollerTypeOK, NEW i \in Instances, UNCHANGED poll,
           RegisterNotify(i) \/ UnregisterNotify(i) \/ UNCHANGED notifyCh
    PROVE  PollerTypeOK'
<1>1. notifyCh' \in [Instances -> {"absent", "empty", "success", "failure"}]
  BY DEF PollerTypeOK, RegisterNotify, UnregisterNotify
<1> QED
  BY <1>1 DEF PollerTypeOK

(* The driver's places are places. *)
LEMMA PlaceValues ==
    {"idle", "queued", "load", "loadSteps", "renew", "casRunning", "casSucceeded",
     "markRunning", "register", "reread", "waiting", "advance", "advanceNotified",
     "trigger", "compensate", "compCall", "finish", "release", "deactivate"} \subseteq DriverPC
BY DEF DriverPC

(* Choosing what to do next keeps the types of place and locals. *)
LEMMA DispatchType ==
    ASSUME ExecutorTypeOK, NEW i \in Instances,
           ExecuteNextStep(i) \/ BeginCompensation(i)
    PROVE  pc' \in [Instances -> DriverPC] /\ loc' \in [Instances -> Locals]
<1> USE PlaceValues
<1>1. ASSUME NEW s \in Steps, NEW place \in DriverPC, Take(i, place, s)
      PROVE  pc' \in [Instances -> DriverPC] /\ loc' \in [Instances -> Locals]
  <2>1. [NoLocals EXCEPT !.cur = s, !.retry = loc[i].steps[s].retryCount] \in Locals
    <3>1. loc[i].steps[s].retryCount \in Nat
      BY DEF ExecutorTypeOK, Locals, StepRow
    <3> QED
      BY <3>1, NoLocalsType DEF Locals
  <2> QED
    BY <1>1, <2>1 DEF Take, ExecutorTypeOK
<1>2. CASE ExecuteNextStep(i)
  <2>1. CASE \E s \in Steps, place \in {"markRunning", "register"} : Take(i, place, s)
    BY <2>1, <1>1
  <2>2. CASE \E place \in {"trigger", "casSucceeded", "release"} : Leave(i, place)
    BY <2>2, GotoType
  <2> QED
    BY <1>2, <2>1, <2>2 DEF ExecuteNextStep
<1>3. CASE BeginCompensation(i)
  <2>1. [NoLocals EXCEPT !.todo = ToCompensate(loc[i].steps),
                         !.skip = Pending(loc[i].steps)] \in Locals
    BY NoLocalsType DEF Locals, StepsIn, ToCompensate, Pending
  <2> QED
    BY <1>3, <2>1 DEF BeginCompensation, ExecutorTypeOK
<1> QED
  BY <1>2, <1>3

(* The worker's loop keeps every variable in its type. *)
LEMMA DriverType ==
    ASSUME TypeOK, NEW i \in Instances, Driver(i)
    PROVE  TypeOK'
<1> USE StoreAssumption, CurType, CounterType, GotoType, TxRowType, PlaceValues,
        NotifyType, KeepTypes
<1> DEFINE Typed == StoreTypeOK' /\ ExecutorTypeOK' /\ PollerTypeOK'
           Places == pc' \in [Instances -> DriverPC] /\ loc' \in [Instances -> Locals]
<1>t. StoreTypeOK /\ ExecutorTypeOK /\ PollerTypeOK
  BY DEF TypeOK
<1>s. tx \in TxRow /\ tx.status \in TxStatus /\ step \in [Steps -> StepRow]
  BY <1>t DEF StoreTypeOK, TxRow
<1>l. loc[i] \in Locals
  BY <1>t DEF ExecutorTypeOK
<1>w. 1 \in Steps
  BY DEF Steps
<1>v. {"none", "pending", "running", "compensating", "succeeded", "failed"} = TxStatus
  BY DEF TxStatus, ActiveStatus
<1>x. ASSUME tx' \in TxRow, errs' \in 0..MaxStoreErrors, Places,
             UNCHANGED <<step, pollTask, timedOut, expiries, phase, remote, pollerVars>>
      PROVE  Typed
  <2>1. StoreTypeOK'
    BY <1>x, <1>t DEF StoreTypeOK
  <2>2. ExecutorTypeOK'
    BY <1>x, <1>t DEF ExecutorTypeOK
  <2> QED
    BY <1>x, <2>1, <2>2
<1>y. ASSUME step' \in [Steps -> StepRow], errs' \in 0..MaxStoreErrors, Places,
             UNCHANGED <<tx, pollTask, timedOut, expiries, phase, remote, pollerVars>>
      PROVE  Typed
  <2>1. StoreTypeOK'
    BY <1>y, <1>t DEF StoreTypeOK
  <2>2. ExecutorTypeOK'
    BY <1>y, <1>t DEF ExecutorTypeOK
  <2> QED
    BY <1>y, <2>1, <2>2
<1>z. ASSUME PollerTypeOK', Places, errs' \in 0..MaxStoreErrors,
             UNCHANGED <<storeVars, timedOut, expiries, phase, remote>>
      PROVE  Typed
  <2>1. StoreTypeOK'
    BY <1>z, <1>t DEF StoreTypeOK, storeVars
  <2>2. ExecutorTypeOK'
    BY <1>z, <1>t DEF ExecutorTypeOK
  <2> QED
    BY <1>z, <2>1, <2>2
<1>e. (CallOK(i) \/ CallFails(i) \/ DurableOK(i) \/ DurableFails(i) \/ StoreError
         \/ UNCHANGED errs) => errs' \in 0..MaxStoreErrors
  BY <1>t DEF CallOK, CallFails, DurableOK, DurableFails
<1> HIDE DEF Typed, Places
<1>p. \A place \in DriverPC : Goto(i, place) \/ Leave(i, place) => Places
  BY <1>t DEF Places
<1>u. UNCHANGED tx => tx' \in TxRow
  BY <1>s
<1>1. Claim(i) => Typed
  BY <1>s, <1>x, <1>e, <1>p, <1>u DEF Claim, ClaimTransaction
<1>2. LoadTransaction(i) => Typed
  <2>1. LoadTransaction(i) => Places
    <3>1. ASSUME pc' = [pc EXCEPT ![i] = "loadSteps"],
                 loc' = [loc EXCEPT ![i].status = tx.status]
          PROVE  Places
      <4>1. loc' = [loc EXCEPT ![i] = [loc[i] EXCEPT !.status = tx.status]]
        BY <3>1
      <4>2. [loc[i] EXCEPT !.status = tx.status] \in Locals
        BY <1>l, <1>s, <1>w, LocalsUpdate
      <4> QED
        BY <1>t, <3>1, <4>1, <4>2 DEF Places, ExecutorTypeOK
    <3> QED
      BY <3>1, <1>p DEF LoadTransaction, GetTransaction
  <2> QED
    BY <1>x, <1>e, <1>u, <2>1 DEF LoadTransaction, storeVars
<1>3. LoadSteps(i) => Typed
  <2>1. LoadSteps(i) => Places
    <3>1. ASSUME pc' = [pc EXCEPT ![i] = "renew"],
                 loc' = [loc EXCEPT ![i].steps = step]
          PROVE  Places
      <4>1. loc' = [loc EXCEPT ![i] = [loc[i] EXCEPT !.steps = step]]
        BY <3>1
      <4>2. [loc[i] EXCEPT !.steps = step] \in Locals
        BY <1>l, <1>s, <1>w, LocalsUpdate
      <4> QED
        BY <1>t, <3>1, <4>1, <4>2 DEF Places, ExecutorTypeOK
    <3> QED
      BY <3>1, <1>p DEF LoadSteps, GetSteps
  <2> QED
    BY <1>x, <1>e, <1>u, <2>1 DEF LoadSteps, storeVars
<1>4. RenewAndDispatch(i) => Typed
  <2>1. RenewAndDispatch(i) => Places
    BY <1>t, <1>p, DispatchType DEF RenewAndDispatch, Places
  <2>2. RenewAndDispatch(i) => tx' \in TxRow
    BY <1>s, <1>u DEF RenewAndDispatch, ClaimTransaction
  <2> QED
    BY <1>x, <1>e, <2>1, <2>2 DEF RenewAndDispatch
<1>5. StartRunning(i) => Typed
  BY <1>s, <1>v, <1>x, <1>e, <1>p, <1>u DEF StartRunning
<1>6. Succeed(i) => Typed
  BY <1>s, <1>v, <1>x, <1>e, <1>p, <1>u DEF Succeed
<1>7. Advance(i) => Typed
  BY <1>t, <1>s, <1>x, <1>e, <1>p, <1>u DEF Advance
<1>8. TriggerCompensation(i) => Typed
  BY <1>s, <1>v, <1>x, <1>e, <1>p, <1>u DEF TriggerCompensation
<1>9. Register(i) => Typed
  BY <1>t, <1>z, <1>e, <1>p DEF Register, clockVars
<1>10. Reread(i) => Typed
  BY <1>t, <1>z, <1>e, <1>p DEF Reread
<1>11. WaitTimesOut(i) => Typed
  BY <1>t, <1>z, <1>e, <1>p DEF WaitTimesOut, clockVars
<1>12. WaitStopped(i) => Typed
  BY <1>t, <1>z, <1>e, <1>p DEF WaitStopped, clockVars
<1>13. WaitNotified(i) => Typed
  BY <1>t, <1>z, <1>e, <1>p DEF WaitNotified, clockVars
<1>14. AdvanceNotified(i) => Typed
  BY <1>t, <1>s, <1>x, <1>e, <1>p, <1>u DEF AdvanceNotified
<1>15. CompensateNext(i) => Typed
  <2> SUFFICES ASSUME CompensateNext(i) PROVE Typed
    OBVIOUS
  <2> PICK s \in Steps :
          \/ /\ CallOK(i)
             /\ UpdateStepStatus(s, "compensating")
             /\ pc' = [pc EXCEPT ![i] = "compCall"]
             /\ loc' = [loc EXCEPT ![i].cur = s]
          \/ /\ phase[i] = "up" /\ StoreError
             /\ loc' = [loc EXCEPT ![i].todo = loc[i].todo \ {s}, ![i].clean = FALSE]
             /\ UNCHANGED <<step, pc>>
          \/ phase[i] = "stopping" /\ Leave(i, "release") /\ UNCHANGED <<step, errs>>
    BY DEF CompensateNext
  <2>1. step' \in [Steps -> StepRow]
    BY <1>s, StepRowType, StepStatusValues
  <2>2. ASSUME loc' = [loc EXCEPT ![i].cur = s]
        PROVE  loc' \in [Instances -> Locals]
    <3>1. loc' = [loc EXCEPT ![i] = [loc[i] EXCEPT !.cur = s]]
      BY <2>2
    <3> QED
      BY <3>1, <1>l, <1>t, LocalsUpdate DEF ExecutorTypeOK
  <2>3. ASSUME loc' = [loc EXCEPT ![i].todo = loc[i].todo \ {s}, ![i].clean = FALSE]
        PROVE  loc' \in [Instances -> Locals]
    <3>1. loc' = [loc EXCEPT ![i] = [loc[i] EXCEPT !.todo = loc[i].todo \ {s}, !.clean = FALSE]]
      BY <2>3
    <3> QED
      BY <3>1, <1>l, <1>t, LocalsUpdate DEF ExecutorTypeOK
  <2>4. Places
    BY <1>t, <1>p, <2>2, <2>3 DEF Places, ExecutorTypeOK
  <2> QED
    BY <1>y, <1>e, <2>1, <2>4 DEF CompensateNext
<1>16. MarkSkipped(i) => Typed
  <2> SUFFICES ASSUME MarkSkipped(i) PROVE Typed
    OBVIOUS
  <2>1. step' \in [Steps -> StepRow]
    BY <1>s, StepRowType, StepStatusValues DEF MarkSkipped
  <2>2. ASSUME NEW s \in Steps, loc' = [loc EXCEPT ![i].skip = loc[i].skip \ {s}]
        PROVE  loc' \in [Instances -> Locals]
    <3>1. loc' = [loc EXCEPT ![i] = [loc[i] EXCEPT !.skip = loc[i].skip \ {s}]]
      BY <2>2
    <3> QED
      BY <3>1, <1>l, <1>t, LocalsUpdate DEF ExecutorTypeOK
  <2>3. Places
    BY <1>t, <1>p, <2>2 DEF MarkSkipped, Places, ExecutorTypeOK
  <2> QED
    BY <1>y, <1>e, <2>1, <2>3 DEF MarkSkipped
<1>17. FinishCompensation(i) => Typed
  BY <1>s, <1>v, <1>x, <1>e, <1>p, <1>u DEF FinishCompensation
<1>18. Release(i) => Typed
  BY <1>s, <1>x, <1>e, <1>p, <1>u DEF Release
<1>d. Deactivate(i) => Typed
  BY <1>t, <1>x, <1>e, <1>p, <1>u DEF Deactivate, storeVars, clockVars
<1>19. Typed
  BY <1>d, <1>1, <1>2, <1>3, <1>4, <1>5, <1>6, <1>7, <1>8, <1>9, <1>10, <1>11, <1>12,
     <1>13, <1>14, <1>15, <1>16, <1>17, <1>18 DEF Driver, DriverStep
<1>20. UNCHANGED scanVars
  BY DEF Driver, DriverStep, Claim, LoadTransaction, LoadSteps, RenewAndDispatch,
         StartRunning, Succeed, Advance, TriggerCompensation, Register, Reread,
         WaitTimesOut, WaitStopped, WaitNotified, AdvanceNotified, CompensateNext,
         MarkSkipped, FinishCompensation, Release, Deactivate
<1> QED
  BY <1>19, <1>20 DEF Typed, Driver, TypeOK

(* Coordinator.Submit keeps the types of place and locals. *)
LEMMA SubmitType ==
    ASSUME TypeOK, NEW i \in Instances, UNCHANGED remote,
           SubmitAccepts(i) \/ SubmitDeclines(i) \/ UNCHANGED <<pc, loc>>
    PROVE  ExecutorTypeOK'
BY GotoType, PlaceValues DEF TypeOK, ExecutorTypeOK, SubmitAccepts, SubmitDeclines

(* The recovery scan keeps every variable in its type. *)
LEMMA RecoveryType ==
    ASSUME TypeOK, NEW i \in Instances, Recovery(i)
    PROVE  TypeOK'
<1> USE CounterType, TxRowType, KeepTypes, SubmitType
<1>t. StoreTypeOK /\ CoordinatorTypeOK
  BY DEF TypeOK
<1>1. ASSUME RecoveryList(i) \/ RecoveryRelease(i)
      PROVE  TypeOK'
  <2>1. StoreTypeOK'
    BY <1>1, <1>t DEF RecoveryList, RecoveryRelease, StoreTypeOK, CallOK, CallFails,
                      ListRecoverableTransactions
  <2>2. CoordinatorTypeOK'
    BY <1>1, <1>t DEF RecoveryList, RecoveryRelease, CoordinatorTypeOK
  <2>3. UNCHANGED <<execVars, pollerVars>>
    BY <1>1 DEF RecoveryList, RecoveryRelease
  <2> QED
    BY <2>1, <2>2, <2>3 DEF TypeOK, Recovery
<1>2. ASSUME RecoverySubmit(i)
      PROVE  TypeOK'
  <2>1. CoordinatorTypeOK'
    BY <1>2, <1>t DEF RecoverySubmit, CoordinatorTypeOK
  <2>2. ExecutorTypeOK'
    BY <1>2 DEF RecoverySubmit
  <2>3. UNCHANGED <<storeVars, clockVars, pollerVars>>
    BY <1>2 DEF RecoverySubmit
  <2> QED
    BY <2>1, <2>2, <2>3 DEF TypeOK, Recovery
<1> QED
  BY <1>1, <1>2 DEF Recovery, RecoveryStep

(* The timeout scan keeps every variable in its type. *)
LEMMA TimeoutScanType ==
    ASSUME TypeOK, NEW i \in Instances, TimeoutScan(i)
    PROVE  TypeOK'
<1> USE CounterType, TxRowType, KeepTypes, SubmitType
<1>t. StoreTypeOK /\ CoordinatorTypeOK
  BY DEF TypeOK
<1>s. tx \in TxRow /\ tx.status \in TxStatus /\ scan[i] \in ScanTask
      /\ scan[i].status \in TxStatus
  BY <1>t DEF StoreTypeOK, CoordinatorTypeOK, TxRow, ScanTask
<1>v. "none" \in TxStatus /\ "compensating" \in TxStatus
  BY DEF TxStatus, ActiveStatus
<1>n. /\ \A p \in {"submit", "release", "idle"} : [NoScan EXCEPT !.pc = p] \in ScanTask
      /\ NoScan \in ScanTask
      /\ \A v \in TxStatus : [pc |-> "cas", status |-> v] \in ScanTask
      /\ [scan[i] EXCEPT !.pc = "release"] \in ScanTask
  BY <1>s, <1>v DEF NoScan, ScanTask
<1>1. ASSUME TimeoutList(i) \/ TimeoutCAS(i) \/ TimeoutRelease(i)
      PROVE  TypeOK'
  <2>1. tx' \in TxRow
    BY <1>1, <1>s, <1>v DEF TimeoutList, TimeoutCAS, TimeoutRelease, ListTimedOutTransactions
  <2>2. StoreTypeOK'
    BY <1>1, <1>t, <2>1 DEF TimeoutList, TimeoutCAS, TimeoutRelease, StoreTypeOK, CallOK, CallFails
  <2>3. CoordinatorTypeOK'
    BY <1>1, <1>t, <1>s, <1>n DEF TimeoutList, TimeoutCAS, TimeoutRelease, CoordinatorTypeOK
  <2>4. UNCHANGED <<execVars, pollerVars>>
    BY <1>1 DEF TimeoutList, TimeoutCAS, TimeoutRelease
  <2> QED
    BY <2>2, <2>3, <2>4 DEF TypeOK, TimeoutScan
<1>2. ASSUME TimeoutSubmit(i)
      PROVE  TypeOK'
  <2>1. scan' = [scan EXCEPT ![i] = NoScan]
        \/ scan' = [scan EXCEPT ![i] = [scan[i] EXCEPT !.pc = "release"]]
    BY <1>2 DEF TimeoutSubmit
  <2>2. CoordinatorTypeOK'
    BY <1>2, <1>t, <1>n, <2>1 DEF TimeoutSubmit, CoordinatorTypeOK
  <2>3. ExecutorTypeOK'
    BY <1>2 DEF TimeoutSubmit
  <2>4. UNCHANGED <<storeVars, clockVars, pollerVars>>
    BY <1>2 DEF TimeoutSubmit
  <2> QED
    BY <2>2, <2>3, <2>4 DEF TypeOK, TimeoutScan
<1> QED
  BY <1>1, <1>2 DEF TimeoutScan, TimeoutStep

(* Submission and the life cycle of an engine keep every variable in its type. *)
LEMMA EngineType ==
    ASSUME TypeOK, NEW i \in Instances, Engine(i)
    PROVE  TypeOK'
<1> USE KeepTypes, SubmitType
<1>t. StoreTypeOK /\ ExecutorTypeOK /\ PollerTypeOK /\ CoordinatorTypeOK
      /\ client \in Caller /\ NoCaller \in Caller
  BY EngineAssumption DEF TypeOK, Caller, NoCaller
<1>1. CASE Create(i)
  <2>1. tx' \in TxRow
    BY <1>1, <1>t DEF Create, CreateTransactionWithSteps, StoreTypeOK, TxRow, TxStatus, ActiveStatus
  <2>2. NewStep \in StepRow
    BY DEF NewStep, StepRow, StepStatus
  <2>3. step' \in [Steps -> StepRow]
    BY <1>1, <2>2 DEF Create, CreateTransactionWithSteps
  <2>4. StoreTypeOK'
    BY <1>1, <1>t, <2>1, <2>3 DEF Create, StoreTypeOK, clockVars
  <2>5. client' \in Caller
    BY <1>1, EngineAssumption DEF Create, Caller
  <2> QED
    BY <1>1, <2>4, <2>5 DEF Create, TypeOK
<1>2. CASE Enqueue(i)
  <2>1. ExecutorTypeOK'
    BY <1>2 DEF Enqueue
  <2>2. client' \in Caller
    BY <1>2, <1>t DEF Enqueue, Caller
  <2> QED
    BY <1>2, <2>1, <2>2 DEF Enqueue, TypeOK
<1>3. CASE Start(i) \/ Stop(i)
  <2>1. StoreTypeOK'
    BY <1>3, <1>t DEF Start, Stop, StoreTypeOK, storeVars
  <2>2. CoordinatorTypeOK'
    BY <1>3, <1>t DEF Start, Stop, CoordinatorTypeOK, scanVars
  <2>3. ExecutorTypeOK' /\ PollerTypeOK'
    BY <1>3 DEF Start, Stop
  <2> QED
    BY <1>3, <1>t, <2>1, <2>2, <2>3 DEF Start, Stop, TypeOK
<1>4. CASE Stopped(i) \/ Crash(i)
  <2>0. Forget(i)
    BY <1>4 DEF Stopped, Crash
  <2>1. StoreTypeOK'
    BY <2>0, <1>t DEF Forget, StoreTypeOK, storeVars
  <2>2. ExecutorTypeOK'
    BY <2>0, <1>t, GotoType, PlaceValues DEF Forget, ExecutorTypeOK
  <2>3. PollerTypeOK'
    <3>1. NoPoll \in PollTask /\ NoPoll.pc = "idle"
      BY DEF NoPoll, PollTask, PollPC
    <3>2. poll' \in [Instances -> [Steps -> PollTask]]
      BY <2>0, <1>t, <3>1 DEF Forget, PollerTypeOK
    <3>3. notifyCh' \in [Instances -> {"absent", "empty", "success", "failure"}]
      BY <2>0, <1>t DEF Forget, PollerTypeOK, UnregisterNotify
    <3>4. ASSUME NEW j \in Instances, NEW s \in Steps
          PROVE  poll'[j][s].pc \in {"record", "delete", "notify"}
                   => poll'[j][s].result # "none"
      BY <2>0, <1>t, <3>1 DEF Forget, PollerTypeOK
    <3> QED
      BY <3>2, <3>3, <3>4 DEF PollerTypeOK
  <2>4. CoordinatorTypeOK'
    <3>1. NoScan \in ScanTask
      BY DEF NoScan, ScanTask, TxStatus
    <3> QED
      BY <2>0, <1>t, <3>1 DEF Forget, CoordinatorTypeOK
  <2> QED
    BY <2>0, <1>t, <2>1, <2>2, <2>3, <2>4 DEF Forget, TypeOK
<1>5. CASE QueryAnswered(i) \/ QueryFails(i) \/ WaitCancelled(i)
  <2>1. StoreTypeOK'
    BY <1>5, <1>t, CounterType
       DEF QueryAnswered, QueryFails, WaitCancelled, StoreTypeOK, storeVars, clockVars
  <2>2. client' \in Caller
    <3>1. QueryAnswered(i) => client' \in Caller
      <4>1. \A v \in {"succeeded", "failed"} :
               [pc |-> "told", at |-> i, fails |-> 0, verdict |-> v] \in Caller
        BY EngineAssumption DEF Caller
      <4>2. [client EXCEPT !.fails = 0] \in Caller
        BY <1>t, EngineAssumption DEF Caller
      <4> QED
        BY <4>1, <4>2 DEF QueryAnswered
    <3>2. QueryFails(i) => client' \in Caller
      BY <1>t, EngineAssumption DEF QueryFails, Caller
    <3> QED
      BY <1>5, <1>t, <3>1, <3>2 DEF WaitCancelled
  <2>3. ExecutorTypeOK' /\ PollerTypeOK' /\ CoordinatorTypeOK'
    BY <1>5, <1>t DEF QueryAnswered, QueryFails, WaitCancelled
  <2> QED
    BY <2>1, <2>2, <2>3 DEF TypeOK
<1> QED
  BY <1>1, <1>2, <1>3, <1>4, <1>5 DEF Engine

(* The participants and the clocks keep every variable in its type. *)
LEMMA EnvironmentType ==
    ASSUME TypeOK,
           (\E s \in Steps : Participant(s)) \/ LeaseClock \/ PollLockClock \/ DeadlineClock
    PROVE  TypeOK'
<1> USE KeepTypes
<1>t. StoreTypeOK /\ ExecutorTypeOK
  BY DEF TypeOK
<1>1. ASSUME NEW s \in Steps, Participant(s)
      PROVE  TypeOK'
  <2>1. ExecutorTypeOK'
    BY <1>1, <1>t, RemoteType DEF Participant, RequestArrives, JobEnds, ExecutorTypeOK, Effect
  <2>2. UNCHANGED <<storeVars, clockVars>>
    BY <1>1 DEF Participant, RequestArrives, JobEnds
  <2> QED
    BY <1>1, <2>1, <2>2 DEF Participant, TypeOK
<1>2. CASE LeaseClock
  <2>1. tx' \in TxRow
    BY <1>2, <1>t DEF LeaseClock, LeaseExpires, StoreTypeOK, TxRow
  <2>2. StoreTypeOK'
    BY <1>2, <1>t, <2>1, CounterType DEF LeaseClock, LeaseExpires, StoreTypeOK
  <2> QED
    BY <1>2, <2>2 DEF LeaseClock, TypeOK
<1>3. CASE PollLockClock
  <2>1. StoreTypeOK'
    BY <1>3, <1>t, CounterType DEF PollLockClock, PollLockExpires, StoreTypeOK
  <2> QED
    BY <1>3, <2>1 DEF PollLockClock, TypeOK
<1>4. CASE DeadlineClock
  <2>1. StoreTypeOK'
    BY <1>4, <1>t DEF DeadlineClock, DeadlinePasses, StoreTypeOK
  <2> QED
    BY <1>4, <2>1 DEF DeadlineClock, TypeOK
<1> QED
  BY <1>1, <1>2, <1>3, <1>4

(* The initial values are in their types. *)
LEMMA InitType == Init => TypeOK
<1> SUFFICES ASSUME Init PROVE TypeOK
  OBVIOUS
<1>1. StoreTypeOK
  <2>1. tx \in TxRow
    BY StoreAssumption DEF Init, StoreInit, TxRow, TxStatus
  <2>2. step \in [Steps -> StepRow]
    BY DEF Init, StoreInit, StepRow, StepStatus, NewStep
  <2>3. timedOut \in BOOLEAN
    BY DEF Init, StoreInit
  <2>4. expiries \in 0..MaxExpiries /\ errs \in 0..MaxStoreErrors
    BY StoreAssumption DEF Init, StoreInit
  <2>5. /\ pollTask \in [Steps -> {"absent", "free", "locked"}]
        /\ phase \in [Instances -> {"down", "up", "stopping", "dead"}]
    BY DEF Init, StoreInit
  <2> QED
    BY <2>1, <2>2, <2>3, <2>4, <2>5 DEF StoreTypeOK
<1>2. ExecutorTypeOK
  BY NoLocalsType DEF Init, ExecutorInit, ExecutorTypeOK, Effect, DriverPC
<1>3. PollerTypeOK
  <2>1. NoPoll \in PollTask /\ NoPoll.pc = "idle"
    BY DEF NoPoll, PollTask, PollPC
  <2> QED
    BY <2>1 DEF Init, PollerInit, PollerTypeOK
<1>4. CoordinatorTypeOK
  BY DEF Init, CoordinatorInit, CoordinatorTypeOK, NoScan, ScanTask, TxStatus
<1>5. client \in Caller
  BY EngineAssumption DEF Init, Caller, NoCaller
<1> QED
  BY <1>1, <1>2, <1>3, <1>4, <1>5 DEF Init, TypeOK

(* No step leaves the types. *)
LEMMA TypeStep ==
    ASSUME TypeOK, [Next]_vars
    PROVE  TypeOK'
<1>1. CASE UNCHANGED vars
  BY <1>1, KeepTypes DEF vars, TypeOK
<1>2. CASE Next
  BY <1>2, ExecutorType, PollerType, DriverType, RecoveryType, TimeoutScanType,
     EngineType, EnvironmentType DEF Next
<1> QED
  BY <1>1, <1>2

(***************************************************************************)
(* Every variable of the engine keeps its type: statuses, locks, places    *)
(* and counters of all instances, whatever they interleave.                *)
(***************************************************************************)
THEOREM TypeCorrect == Spec => []TypeOK
BY InitType, TypeStep, PTL DEF Spec

-----------------------------------------------------------------------------
(***************************************************************************)
(* What a step may do to the status of the transaction and to the effects  *)
(* at the participants.                                                    *)
(***************************************************************************)
Forward == { <<"none", "inflight">>, <<"none", "accepted">>, <<"none", "done">>,
             <<"inflight", "accepted">>, <<"inflight", "done">>,
             <<"accepted", "done">>, <<"accepted", "failed">> }

EffectStep(s) ==
    \/ /\ Begun
       /\ \E r \in Effect :
             /\ remote' = [remote EXCEPT ![s] = r]
             /\ <<remote[s], r>> \in Forward
             /\ r \in {"accepted", "failed"} => s \in AsyncSteps
    \/ GivenUp /\ remote' = [remote EXCEPT ![s] = "undone"]

StatusStep ==
    \/ tx.status = "none" /\ tx'.status = "pending"
    \/ tx.status = "pending" /\ tx'.status = "running"
    \/ tx.status = "running" /\ tx'.status = "compensating"
    \/ tx.status = "compensating" /\ tx'.status = "failed"
    \/ /\ tx.status = "running" /\ tx'.status = "succeeded"
       /\ \A s \in Steps : remote[s] = "done"

KeepsStatus == tx'.status = tx.status

Transition ==
    \/ KeepsStatus /\ UNCHANGED remote
    \/ StatusStep /\ UNCHANGED remote
    \/ KeepsStatus /\ \E s \in Steps : EffectStep(s)

(***************************************************************************)
(* What a step may write to the step rows: succeeded only where the        *)
(* participant is done, compensated only where it was taken back.          *)
(***************************************************************************)
RowStep ==
    \A s \in Steps :
       \/ step'[s].status = step[s].status
       \/ step'[s].status \notin {"succeeded", "compensated"}
       \/ step'[s].status = "succeeded" /\ Settled(s)
       \/ step'[s].status = "compensated" /\ remote[s] = "undone"

(* The locks and current_step are written without touching the status. *)
LEMMA StatusKept ==
    ASSUME tx \in TxRow, NEW i \in Instances
    PROVE  /\ Lock(i) => KeepsStatus
           /\ ReleaseTransaction(i) => KeepsStatus
           /\ \A n \in Steps : UpdateTransactionStep(n) => KeepsStatus
           /\ UNCHANGED tx => KeepsStatus
BY DEF KeepsStatus, Lock, ReleaseTransaction, UpdateTransactionStep, TxRow

(* Writing one step's status leaves the others alone. *)
LEMMA RowWritten ==
    ASSUME step \in [Steps -> StepRow], NEW s \in Steps, NEW v, UpdateStepStatus(s, v)
    PROVE  /\ step'[s].status = v
           /\ \A r \in Steps : r # s => step'[r].status = step[r].status
BY DEF UpdateStepStatus, StepRow

(* Counting a retry or a poll leaves every status alone. *)
LEMMA RowCounted ==
    ASSUME step \in [Steps -> StepRow], NEW s \in Steps,
           IncrementStepRetry(s) \/ IncrementStepPollCount(s)
    PROVE  \A r \in Steps : step'[r].status = step[r].status
BY DEF IncrementStepRetry, IncrementStepPollCount, StepRow

(* Writing any other status than succeeded or compensated is a row step. *)
LEMMA PlainWrite ==
    ASSUME step \in [Steps -> StepRow], NEW s \in Steps
    PROVE  /\ \A v \in StepStatus \ {"succeeded", "compensated"} :
                 UpdateStepStatus(s, v) => RowStep
           /\ Settled(s) /\ UpdateStepStatus(s, "succeeded") => RowStep
           /\ remote[s] = "undone" /\ UpdateStepStatus(s, "compensated") => RowStep
           /\ IncrementStepRetry(s) => RowStep
           /\ IncrementStepPollCount(s) => RowStep
           /\ UNCHANGED step => RowStep
<1>1. ASSUME NEW v \in StepStatus \ {"succeeded", "compensated"}, UpdateStepStatus(s, v)
      PROVE  RowStep
  BY <1>1, RowWritten DEF RowStep
<1>2. ASSUME Settled(s), UpdateStepStatus(s, "succeeded")
      PROVE  RowStep
  BY <1>2, RowWritten DEF RowStep
<1>3. ASSUME remote[s] = "undone", UpdateStepStatus(s, "compensated")
      PROVE  RowStep
  BY <1>3, RowWritten DEF RowStep
<1>4. ASSUME IncrementStepRetry(s) \/ IncrementStepPollCount(s)
      PROVE  RowStep
  BY <1>4, RowCounted DEF RowStep
<1>5. UNCHANGED step => RowStep
  BY DEF RowStep
<1> QED
  BY <1>1, <1>2, <1>3, <1>4, <1>5

(* What has begun, was given up, is settled or undone stays so. *)
LEMMA Monotone ==
    ASSUME TypeOK, Transition
    PROVE  /\ Begun => Begun'
           /\ GivenUp => GivenUp'
           /\ \A s \in Steps : /\ Settled(s) => Settled(s)'
                               /\ remote[s] = "undone" => remote'[s] = "undone"
<1>r. remote \in [Steps -> Effect]
  BY DEF TypeOK, ExecutorTypeOK
<1>1. (Begun => Begun') /\ (GivenUp => GivenUp')
  BY DEF Transition, KeepsStatus, StatusStep, Begun, GivenUp
<1>2. ASSUME NEW s \in Steps
      PROVE  /\ Settled(s) => Settled(s)'
             /\ remote[s] = "undone" => remote'[s] = "undone"
  <2>1. CASE UNCHANGED remote
    BY <2>1 DEF Settled
  <2>2. CASE \E u \in Steps : EffectStep(u)
    <3> PICK u \in Steps : EffectStep(u)
      BY <2>2
    <3>1. CASE u # s
      BY <3>1, <1>r DEF EffectStep, Settled
    <3>2. CASE u = s
      BY <3>2, <1>r DEF EffectStep, Forward, Settled
    <3> QED
      BY <3>1, <3>2
  <2> QED
    BY <2>1, <2>2 DEF Transition
<1> QED
  BY <1>1, <1>2

(* Effects and the success verdict stay lawful under every such step. *)
LEMMA EffectsStayLawful ==
    ASSUME TypeOK, Transition, EffectsAreLawful, SuccessIsComplete
    PROVE  EffectsAreLawful' /\ SuccessIsComplete'
<1>r. remote \in [Steps -> Effect]
  BY DEF TypeOK, ExecutorTypeOK
<1>1. EffectsAreLawful'
  <2>1. CASE UNCHANGED remote
    BY <2>1, Monotone DEF EffectsAreLawful
  <2>2. CASE \E u \in Steps : EffectStep(u)
    <3> PICK u \in Steps : EffectStep(u)
      BY <2>2
    <3>1. /\ remote'[u] # "none" => Begun
          /\ remote'[u] = "undone" => GivenUp
          /\ remote'[u] \in {"accepted", "failed"} => u \in AsyncSteps
      BY <1>r DEF EffectStep, Forward, Begun, GivenUp
    <3>2. \A s \in Steps : s # u => remote'[s] = remote[s]
      BY <1>r DEF EffectStep
    <3> QED
      BY <3>1, <3>2, Monotone DEF EffectsAreLawful
  <2> QED
    BY <2>1, <2>2 DEF Transition
<1>2. SuccessIsComplete'
  <2>1. CASE UNCHANGED remote
    BY <2>1 DEF Transition, KeepsStatus, StatusStep, EffectStep, SuccessIsComplete
  <2>2. CASE KeepsStatus /\ \E u \in Steps : EffectStep(u)
    BY <2>2, <1>r DEF KeepsStatus, EffectStep, Forward, SuccessIsComplete, GivenUp
  <2> QED
    BY <2>1, <2>2 DEF Transition
<1> QED
  BY <1>1, <1>2

(* The step rows stay true. *)
LEMMA RowsStayTrue ==
    ASSUME TypeOK, Transition, RowStep, RowsAreTrue, CompensatedIsUndone
    PROVE  RowsAreTrue' /\ CompensatedIsUndone'
BY Monotone DEF RowStep, RowsAreTrue, CompensatedIsUndone

(* A driver that did not move stays lawful. *)
LEMMA DriverStaysLawful ==
    ASSUME TypeOK, Transition, NEW i \in Instances, DriverIsLawful(i),
           pc'[i] = pc[i], loc'[i] = loc[i]
    PROVE  DriverIsLawful(i)'
<1>1. loc[i].cur \in Steps
  BY CurType DEF TypeOK
<1> QED
  BY <1>1, Monotone DEF DriverIsLawful, LocalsAreLawful, PlaceIsLawful

(* Scanners and pollers that did not move stay lawful. *)
LEMMA ScannersStayLawful ==
    ASSUME TypeOK, Transition, ScannersAreLawful, UNCHANGED <<scan, poll>>
    PROVE  ScannersAreLawful'
BY Monotone DEF ScannersAreLawful

(* Locals that keep the rows read earlier, or forget them, stay lawful. *)
LEMMA LocalsStayLawful ==
    ASSUME TypeOK, Transition, NEW i \in Instances, LocalsAreLawful(i),
           \/ loc'[i].status = loc[i].status /\ loc'[i].steps = loc[i].steps
           \/ loc'[i].status = "none" /\ loc'[i].steps = NoLocals.steps
    PROVE  LocalsAreLawful(i)'
<1>1. CASE loc'[i].status = loc[i].status /\ loc'[i].steps = loc[i].steps
  BY <1>1, Monotone DEF LocalsAreLawful
<1>2. CASE loc'[i].status = "none" /\ loc'[i].steps = NoLocals.steps
  BY <1>2 DEF LocalsAreLawful, NoLocals, NewStep
<1> QED
  BY <1>1, <1>2

(* The places that ask for nothing. *)
FreePlaces == {"idle", "queued", "load", "loadSteps", "renew", "casRunning", "httpError",
               "afterRetry", "createPoll", "markPolling", "advance", "register",
               "reread", "waiting", "advanceNotified", "trigger", "release", "deactivate"}

(* A driver that moves to one of them is lawful there. *)
LEMMA FreePlaceIsLawful ==
    ASSUME TypeOK, NEW i \in Instances, pc'[i] \in FreePlaces
    PROVE  PlaceIsLawful(i)'
BY DEF PlaceIsLawful, FreePlaces

(* Moves, field by field. *)
LEMMA Moved ==
    ASSUME TypeOK, NEW i \in Instances, NEW place
    PROVE  /\ Goto(i, place) => pc'[i] = place /\ loc'[i] = loc[i]
           /\ Leave(i, place) => /\ pc'[i] = place
                                 /\ loc'[i].status = "none"
                                 /\ loc'[i].steps = NoLocals.steps
           /\ \A ok : Compensated(i, ok) => /\ pc'[i] = "compensate"
                                            /\ loc'[i].status = loc[i].status
                                            /\ loc'[i].steps = loc[i].steps
           /\ (\E p : Goto(i, p) \/ Leave(i, p) \/ Compensated(i, p))
                => \A j \in Instances \ {i} : pc'[j] = pc[j] /\ loc'[j] = loc[j]
<1> USE DEF TypeOK, ExecutorTypeOK
<1>1. Goto(i, place) => pc'[i] = place /\ loc'[i] = loc[i]
  BY DEF Goto
<1>2. Leave(i, place) => /\ pc'[i] = place
                         /\ loc'[i].status = "none"
                         /\ loc'[i].steps = NoLocals.steps
  BY DEF Leave, NoLocals
<1>3. ASSUME NEW ok, Compensated(i, ok)
      PROVE  /\ pc'[i] = "compensate"
             /\ loc'[i].status = loc[i].status
             /\ loc'[i].steps = loc[i].steps
  <2>1. loc[i] \in Locals
    OBVIOUS
  <2> QED
    BY <1>3, <2>1 DEF Compensated, Locals
<1>4. ASSUME NEW p, Goto(i, p) \/ Leave(i, p) \/ Compensated(i, p),
             NEW j \in Instances \ {i}
      PROVE  pc'[j] = pc[j] /\ loc'[j] = loc[j]
  BY <1>4 DEF Goto, Leave, Compensated
<1> QED
  BY <1>1, <1>2, <1>3, <1>4

(* The calls of executor.go keep the engine lawful. *)
LEMMA ExecutorLawful ==
    ASSUME TypeOK, Lawful, NEW i \in Instances, Executor(i)
    PROVE  Transition /\ Lawful'
<1>t. step \in [Steps -> StepRow] /\ remote \in [Steps -> Effect] /\ loc[i].cur \in Steps
      /\ tx \in TxRow
  BY CurType DEF TypeOK, StoreTypeOK, ExecutorTypeOK
<1>l. EffectsAreLawful /\ SuccessIsComplete /\ LocalsAreLawful(i) /\ PlaceIsLawful(i)
  BY DEF Lawful, DriverIsLawful
<1>a. Transition
  <2>1. KeepsStatus
    BY DEF Executor, ExecutorStep, MarkRunning, RequestNotBuilt, CallSucceeds,
           CallFailsHTTP, HandleHTTPError, AfterRetry, MarkSucceeded, SetUpPolling,
           MarkPolling, CallCompensation, SaveCompensated, SaveCompensationFailed,
           KeepsStatus, storeVars
  <2>2. CASE CallSucceeds(i)
    <3>1. Begun
      BY <2>2, <1>l DEF CallSucceeds, At, PlaceIsLawful
    <3>2. CASE Applied(loc[i].cur) = remote[loc[i].cur]
      BY <2>1, <2>2, <3>2, <1>t DEF CallSucceeds, Transition
    <3>3. CASE Applied(loc[i].cur) # remote[loc[i].cur]
      <4>1. EffectStep(loc[i].cur)
        BY <2>2, <3>1, <3>3, <1>t, RemoteType DEF CallSucceeds, EffectStep, Forward, Applied, Effect
      <4> QED
        BY <4>1, <2>1, <1>t DEF Transition
    <3> QED
      BY <3>2, <3>3
  <2>3. CASE CallFailsHTTP(i)
    <3>1. Begun
      BY <2>3, <1>l DEF CallFailsHTTP, At, PlaceIsLawful
    <3>2. CASE UNCHANGED remote
      BY <2>1, <3>2 DEF Transition
    <3>3. CASE remote' = [remote EXCEPT ![loc[i].cur] = Lost(loc[i].cur)] /\ remote' # remote
      <4>1. EffectStep(loc[i].cur)
        BY <3>1, <3>3, <1>t DEF EffectStep, Forward, Lost, Effect
      <4> QED
        BY <4>1, <2>1, <1>t DEF Transition
    <3> QED
      BY <2>3, <3>2, <3>3 DEF CallFailsHTTP
  <2>4. CASE CallCompensation(i)
    <3>1. GivenUp
      BY <2>4, <1>l DEF CallCompensation, At, PlaceIsLawful
    <3>2. UNCHANGED remote \/ remote' = [remote EXCEPT ![loc[i].cur] = "undone"]
      BY <2>4 DEF CallCompensation
    <3> QED
      BY <2>1, <3>1, <3>2, <1>t DEF Transition, EffectStep
  <2>5. CASE ~(CallSucceeds(i) \/ CallFailsHTTP(i) \/ CallCompensation(i))
    <3>1. UNCHANGED remote
      BY <2>5 DEF Executor, ExecutorStep, MarkRunning, RequestNotBuilt,
             HandleHTTPError, AfterRetry, MarkSucceeded, SetUpPolling,
             MarkPolling, SaveCompensated, SaveCompensationFailed
    <3> QED
      BY <2>1, <3>1 DEF Transition
  <2> QED
    BY <2>2, <2>3, <2>4, <2>5
<1>b. RowStep
  <2> USE PlainWrite, StepStatusValues, <1>t
  <2>1. MarkRunning(i) \/ RequestNotBuilt(i) => RowStep
    BY DEF MarkRunning, RequestNotBuilt
  <2>2. CallSucceeds(i) \/ CallFailsHTTP(i) \/ SetUpPolling(i) => RowStep
    BY DEF CallSucceeds, CallFailsHTTP, SetUpPolling, storeVars
  <2>3. HandleHTTPError(i) \/ AfterRetry(i) \/ MarkPolling(i) => RowStep
    BY DEF HandleHTTPError, AfterRetry, MarkPolling
  <2>4. MarkSucceeded(i) => RowStep
    BY <1>l DEF MarkSucceeded, At, PlaceIsLawful
  <2>5. CallCompensation(i) \/ SaveCompensationFailed(i) => RowStep
    BY DEF CallCompensation, SaveCompensationFailed
  <2>6. SaveCompensated(i) => RowStep
    BY <1>l DEF SaveCompensated, At, PlaceIsLawful
  <2> QED
    BY <2>1, <2>2, <2>3, <2>4, <2>5, <2>6 DEF Executor, ExecutorStep
<1>c. DriverIsLawful(i)'
  <2>1. LocalsAreLawful(i)'
    <3>1. \/ loc'[i].status = loc[i].status /\ loc'[i].steps = loc[i].steps
          \/ loc'[i].status = "none" /\ loc'[i].steps = NoLocals.steps
      <4>1. ASSUME loc' = [loc EXCEPT ![i].retry = loc[i].retry + 1]
            PROVE  loc'[i].status = loc[i].status /\ loc'[i].steps = loc[i].steps
        BY <4>1 DEF TypeOK, ExecutorTypeOK, Locals
      <4> QED
        BY <4>1, Moved
           DEF Executor, ExecutorStep, MarkRunning, RequestNotBuilt, CallSucceeds,
               CallFailsHTTP, HandleHTTPError, AfterRetry, MarkSucceeded, SetUpPolling,
               MarkPolling, CallCompensation, SaveCompensated, SaveCompensationFailed
    <3> QED
      BY <3>1, <1>a, <1>l, LocalsStayLawful
  <2>2. PlaceIsLawful(i)'
    <3>m. (Begun => Begun') /\ (GivenUp => GivenUp')
          /\ \A s \in Steps : Settled(s) => Settled(s)'
      BY <1>a, Monotone
    <3>1. CASE pc'[i] \in FreePlaces
      BY <3>1, FreePlaceIsLawful
    <3>2. CASE pc'[i] = "compensate" /\ GivenUp
      BY <3>2, <3>m DEF PlaceIsLawful
    <3>3. CASE MarkRunning(i) /\ pc'[i] = "call"
      BY <3>3, <3>m, <1>l DEF MarkRunning, At, PlaceIsLawful
    <3>4. CASE CallSucceeds(i) /\ pc'[i] = "markSucceeded"
      <4>1. loc'[i] = loc[i]
        BY <3>4, Moved DEF CallSucceeds
      <4>2. remote'[loc[i].cur] = Applied(loc[i].cur) /\ loc[i].cur \notin AsyncSteps
        BY <3>4, <1>t, Moved DEF CallSucceeds
      <4>3. Applied(loc[i].cur) \in {"done", "undone"}
        BY <4>2, <1>t, <1>l DEF Applied, EffectsAreLawful, Effect
      <4> QED
        BY <3>4, <4>1, <4>2, <4>3 DEF PlaceIsLawful, Settled
    <3>5. CASE CallCompensation(i) /\ pc'[i] = "compSave"
      <4>1. GivenUp'
        BY <3>5, <3>m, <1>l DEF CallCompensation, At, PlaceIsLawful
      <4>2. remote' = [remote EXCEPT ![loc[i].cur] = "undone"] /\ loc'[i] = loc[i]
        BY <3>5, Moved DEF CallCompensation
      <4> QED
        BY <3>5, <4>1, <4>2, <1>t DEF PlaceIsLawful
    <3>6. CASE CallCompensation(i) /\ pc'[i] = "compFail"
      BY <3>6, <3>m, <1>l DEF CallCompensation, At, PlaceIsLawful
    <3>7. \/ pc'[i] \in FreePlaces
          \/ pc'[i] = "compensate" /\ GivenUp
          \/ MarkRunning(i) /\ pc'[i] = "call"
          \/ CallSucceeds(i) /\ pc'[i] = "markSucceeded"
          \/ CallCompensation(i) /\ pc'[i] \in {"compSave", "compFail"}
      <4>1. MarkRunning(i) => pc'[i] \in FreePlaces \cup {"call"}
        BY Moved DEF MarkRunning, FreePlaces
      <4>2. CallSucceeds(i) => pc'[i] \in FreePlaces \cup {"markSucceeded"}
        BY Moved DEF CallSucceeds, FreePlaces
      <4>3. RequestNotBuilt(i) \/ CallFailsHTTP(i) \/ AfterRetry(i) \/ MarkSucceeded(i)
              \/ SetUpPolling(i) \/ MarkPolling(i) => pc'[i] \in FreePlaces
        BY Moved DEF RequestNotBuilt, CallFailsHTTP, AfterRetry, MarkSucceeded,
                     SetUpPolling, MarkPolling, FreePlaces
      <4>4. HandleHTTPError(i) => pc'[i] \in FreePlaces
        BY Moved DEF HandleHTTPError, FreePlaces, TypeOK, ExecutorTypeOK
      <4>5. CallCompensation(i) => pc'[i] \in {"compSave", "compFail"}
                                   \/ (pc'[i] = "compensate" /\ GivenUp)
        BY <1>l, Moved DEF CallCompensation, PlaceIsLawful, At
      <4>6. SaveCompensated(i) \/ SaveCompensationFailed(i) => pc'[i] = "compensate" /\ GivenUp
        BY <1>l, Moved DEF SaveCompensated, SaveCompensationFailed, PlaceIsLawful, At
      <4> QED
        BY <4>1, <4>2, <4>3, <4>4, <4>5, <4>6 DEF Executor, ExecutorStep
    <3> QED
      BY <3>1, <3>2, <3>3, <3>4, <3>5, <3>6, <3>7
  <2> QED
    BY <2>1, <2>2 DEF DriverIsLawful
<1>d. \A j \in Instances \ {i} : pc'[j] = pc[j] /\ loc'[j] = loc[j]
  <2>1. HandleHTTPError(i) => \A j \in Instances \ {i} : pc'[j] = pc[j] /\ loc'[j] = loc[j]
    BY Moved DEF HandleHTTPError, TypeOK, ExecutorTypeOK
  <2> QED
    BY <2>1, Moved
       DEF Executor, ExecutorStep, MarkRunning, RequestNotBuilt, CallSucceeds,
           CallFailsHTTP, AfterRetry, MarkSucceeded, SetUpPolling,
           MarkPolling, CallCompensation, SaveCompensated, SaveCompensationFailed
<1>e. UNCHANGED <<scan, poll>>
  BY DEF Executor, pollerVars, scanVars
<1> QED
  BY <1>a, <1>b, <1>c, <1>d, <1>e, EffectsStayLawful, RowsStayTrue, DriverStaysLawful,
     ScannersStayLawful DEF Lawful

(* A step that moves no driver and writes no row keeps the engine lawful. *)
LEMMA BystandersStayLawful ==
    ASSUME TypeOK, Lawful, Transition, RowStep, ScannersAreLawful', UNCHANGED <<pc, loc>>
    PROVE  Lawful'
BY EffectsStayLawful, RowsStayTrue, DriverStaysLawful DEF Lawful

(* What the driver loop chooses is lawful when the rows it read are. *)
LEMMA DispatchLawful ==
    ASSUME TypeOK, Transition, NEW i \in Instances, LocalsAreLawful(i),
           \/ loc[i].status = "running" /\ ExecuteNextStep(i)
           \/ loc[i].status = "compensating" /\ BeginCompensation(i)
    PROVE  DriverIsLawful(i)'
<1>t. loc[i] \in Locals /\ pc \in [Instances -> DriverPC] /\ loc \in [Instances -> Locals]
  BY DEF TypeOK, ExecutorTypeOK
<1>m. (Begun => Begun') /\ (GivenUp => GivenUp')
      /\ \A s \in Steps : Settled(s) => Settled(s)'
  BY Monotone
<1>1. CASE loc[i].status = "compensating" /\ BeginCompensation(i)
  <2>1. pc'[i] = "compensate" /\ loc'[i].status = "none" /\ loc'[i].steps = NoLocals.steps
    BY <1>1, <1>t DEF BeginCompensation, NoLocals
  <2>2. GivenUp'
    BY <1>1, <1>m DEF LocalsAreLawful
  <2> QED
    BY <2>1, <2>2, LocalsStayLawful DEF DriverIsLawful, PlaceIsLawful
<1>2. CASE loc[i].status = "running" /\ ExecuteNextStep(i)
  <2>1. Begun'
    BY <1>2, <1>m DEF LocalsAreLawful
  <2>2. ASSUME NEW s \in Steps, NEW place \in {"markRunning", "register"}, Take(i, place, s)
        PROVE  DriverIsLawful(i)'
    <3>1. pc'[i] = place /\ loc'[i].status = "none" /\ loc'[i].steps = NoLocals.steps
      BY <2>2, <1>t DEF Take, NoLocals
    <3> QED
      BY <2>1, <3>1, LocalsStayLawful DEF DriverIsLawful, PlaceIsLawful
  <2>3. ASSUME NEW place \in {"trigger", "release"}, Leave(i, place)
        PROVE  DriverIsLawful(i)'
    BY <2>3, Moved, LocalsStayLawful DEF DriverIsLawful, PlaceIsLawful
  <2>4. ASSUME AllSucceeded(loc[i].steps), Leave(i, "casSucceeded")
        PROVE  DriverIsLawful(i)'
    <3>1. \A s \in Steps : Settled(s)'
      BY <2>4, <1>m DEF AllSucceeded, StepsIn, LocalsAreLawful
    <3> QED
      BY <2>4, <3>1, Moved, LocalsStayLawful DEF DriverIsLawful, PlaceIsLawful
  <2> QED
    BY <1>2, <2>2, <2>3, <2>4 DEF ExecuteNextStep
<1> QED
  BY <1>1, <1>2

(* The worker's loop keeps the engine lawful. *)
LEMMA DriverLawful ==
    ASSUME TypeOK, Lawful, NEW i \in Instances, Driver(i)
    PROVE  Transition /\ Lawful'
<1>t. step \in [Steps -> StepRow] /\ loc[i].cur \in Steps /\ tx \in TxRow
      /\ loc[i] \in Locals
  BY CurType DEF TypeOK, StoreTypeOK, ExecutorTypeOK
<1>l. EffectsAreLawful /\ SuccessIsComplete /\ RowsAreTrue
      /\ LocalsAreLawful(i) /\ PlaceIsLawful(i)
  BY DEF Lawful, DriverIsLawful
<1>r. UNCHANGED <<remote, scan, poll>>
  BY DEF Driver, DriverStep, Claim, LoadTransaction, LoadSteps, RenewAndDispatch,
         StartRunning, Succeed, Advance, TriggerCompensation, Register, Reread,
         WaitTimesOut, WaitStopped, WaitNotified, AdvanceNotified, CompensateNext,
         MarkSkipped, FinishCompensation, Release, Deactivate, pollerVars, scanVars
<1>a. Transition
  <2> USE StatusKept, <1>t
  <2>1. Claim(i) \/ RenewAndDispatch(i) => KeepsStatus
    BY DEF Claim, RenewAndDispatch, ClaimTransaction
  <2>2. LoadTransaction(i) \/ LoadSteps(i) \/ Register(i) \/ Reread(i) \/ WaitTimesOut(i)
          \/ WaitStopped(i) \/ WaitNotified(i) \/ CompensateNext(i) \/ MarkSkipped(i)
          \/ Deactivate(i) => KeepsStatus
    BY DEF LoadTransaction, LoadSteps, Register, Reread, WaitTimesOut, WaitStopped,
           WaitNotified, CompensateNext, MarkSkipped, Deactivate, storeVars
  <2>3. Advance(i) \/ AdvanceNotified(i) \/ Release(i) => KeepsStatus
    BY DEF Advance, AdvanceNotified, Release
  <2>4. StartRunning(i) \/ TriggerCompensation(i) => KeepsStatus \/ StatusStep
    BY DEF StartRunning, TriggerCompensation, UpdateTransactionStatusCAS,
           UpdateTransactionStatus, StatusStep, TxRow
  <2>5. Succeed(i) => KeepsStatus \/ StatusStep
    <3>1. Succeed(i) /\ tx.status = "running" => \A s \in Steps : remote[s] = "done"
      BY <1>l DEF Succeed, At, PlaceIsLawful, Settled, EffectsAreLawful, GivenUp
    <3> QED
      BY <3>1 DEF Succeed, UpdateTransactionStatusCAS, UpdateTransactionStatus,
                  StatusStep, TxRow
  <2>6. FinishCompensation(i) => KeepsStatus \/ StatusStep
    <3>1. FinishCompensation(i) => GivenUp
      BY <1>l DEF FinishCompensation, At, PlaceIsLawful
    <3>2. FinishCompensation(i) => UNCHANGED tx \/ tx'.status = "failed"
      BY DEF FinishCompensation, UpdateTransactionStatus, TxRow
    <3> QED
      BY <3>1, <3>2 DEF GivenUp, StatusStep, KeepsStatus
  <2> QED
    BY <1>r, <2>1, <2>2, <2>3, <2>4, <2>5, <2>6 DEF Transition, Driver, DriverStep
<1>b. RowStep
  <2>1. CompensateNext(i) \/ MarkSkipped(i) => RowStep
    BY <1>t, PlainWrite, StepStatusValues DEF CompensateNext, MarkSkipped
  <2>2. ~(CompensateNext(i) \/ MarkSkipped(i)) => UNCHANGED step
    BY DEF Driver, DriverStep, Claim, LoadTransaction, LoadSteps, RenewAndDispatch,
           StartRunning, Succeed, Advance, TriggerCompensation, Register, Reread,
           WaitTimesOut, WaitStopped, WaitNotified, AdvanceNotified,
           FinishCompensation, Release, Deactivate, storeVars
  <2> QED
    BY <1>t, <2>1, <2>2, PlainWrite
<1>m. (Begun => Begun') /\ (GivenUp => GivenUp')
      /\ \A s \in Steps : Settled(s) => Settled(s)'
  BY <1>a, Monotone
<1>f. ASSUME NEW place \in FreePlaces, Goto(i, place) \/ Leave(i, place)
      PROVE  DriverIsLawful(i)'
  <2>1. LocalsAreLawful(i)'
    BY <1>f, <1>a, <1>l, Moved, LocalsStayLawful
  <2>2. PlaceIsLawful(i)'
    BY <1>f, Moved, FreePlaceIsLawful
  <2> QED
    BY <2>1, <2>2 DEF DriverIsLawful
<1>p. {"idle", "load", "loadSteps", "renew", "casRunning", "advance", "reread",
       "waiting", "advanceNotified", "trigger", "release", "deactivate"} \subseteq FreePlaces
  BY DEF FreePlaces
<1>c. DriverIsLawful(i)'
  <2>1. Claim(i) \/ StartRunning(i) \/ Succeed(i) \/ Advance(i) \/ TriggerCompensation(i)
          => DriverIsLawful(i)'
    BY <1>f, <1>p DEF Claim, StartRunning, Succeed, Advance, TriggerCompensation
  <2>2. Register(i) \/ Reread(i) \/ WaitTimesOut(i) \/ WaitStopped(i) \/ WaitNotified(i)
          \/ AdvanceNotified(i) => DriverIsLawful(i)'
    BY <1>f, <1>p DEF Register, Reread, WaitTimesOut, WaitStopped, WaitNotified, AdvanceNotified
  <2>3. FinishCompensation(i) \/ Release(i) \/ Deactivate(i) => DriverIsLawful(i)'
    BY <1>f, <1>p DEF FinishCompensation, Release, Deactivate
  <2>4. LoadTransaction(i) => DriverIsLawful(i)'
    <3>1. ASSUME pc' = [pc EXCEPT ![i] = "loadSteps"],
                 loc' = [loc EXCEPT ![i].status = tx.status]
          PROVE  DriverIsLawful(i)'
      <4>1. pc'[i] = "loadSteps" /\ loc'[i].status = tx.status /\ loc'[i].steps = loc[i].steps
        BY <3>1 DEF TypeOK, ExecutorTypeOK, Locals
      <4>2. LocalsAreLawful(i)'
        BY <4>1, <1>l, <1>m DEF LocalsAreLawful, Begun, GivenUp
      <4> QED
        BY <4>1, <4>2, <1>p, FreePlaceIsLawful DEF DriverIsLawful
    <3> QED
      BY <3>1, <1>f, <1>p DEF LoadTransaction, GetTransaction
  <2>5. LoadSteps(i) => DriverIsLawful(i)'
    <3>1. ASSUME pc' = [pc EXCEPT ![i] = "renew"],
                 loc' = [loc EXCEPT ![i].steps = step]
          PROVE  DriverIsLawful(i)'
      <4>1. pc'[i] = "renew" /\ loc'[i].status = loc[i].status /\ loc'[i].steps = step
        BY <3>1 DEF TypeOK, ExecutorTypeOK, Locals
      <4>2. LocalsAreLawful(i)'
        BY <4>1, <1>l, <1>m DEF LocalsAreLawful, RowsAreTrue
      <4> QED
        BY <4>1, <4>2, <1>p, FreePlaceIsLawful DEF DriverIsLawful
    <3> QED
      BY <3>1, <1>f, <1>p DEF LoadSteps, GetSteps
  <2>6. RenewAndDispatch(i) => DriverIsLawful(i)'
    BY <1>a, <1>l, <1>f, <1>p, DispatchLawful DEF RenewAndDispatch
  <2>7. CompensateNext(i) => DriverIsLawful(i)'
    <3> SUFFICES ASSUME CompensateNext(i) PROVE DriverIsLawful(i)'
      OBVIOUS
    <3>1. GivenUp' /\ pc[i] = "compensate"
      BY <1>l, <1>m DEF CompensateNext, At, PlaceIsLawful
    <3>2. CASE Leave(i, "release")
      BY <3>2, <1>f, <1>p
    <3>3. CASE ~Leave(i, "release")
      <4>1. pc'[i] \in {"compensate", "compCall"}
        BY <3>1, <3>3 DEF CompensateNext, TypeOK, ExecutorTypeOK
      <4>2. loc'[i].status = loc[i].status /\ loc'[i].steps = loc[i].steps
        BY <3>3, <1>t DEF CompensateNext, TypeOK, ExecutorTypeOK, Locals
      <4> QED
        BY <3>1, <4>1, <4>2, <1>a, <1>l, LocalsStayLawful DEF DriverIsLawful, PlaceIsLawful
    <3> QED
      BY <3>2, <3>3
  <2>8. MarkSkipped(i) => DriverIsLawful(i)'
    <3> SUFFICES ASSUME MarkSkipped(i) PROVE DriverIsLawful(i)'
      OBVIOUS
    <3>1. GivenUp' /\ pc[i] = "compensate"
      BY <1>l, <1>m DEF MarkSkipped, At, PlaceIsLawful
    <3>2. pc'[i] \in {"compensate", "finish"}
      BY <3>1, Moved DEF MarkSkipped
    <3>3. loc'[i].status = loc[i].status /\ loc'[i].steps = loc[i].steps
      BY <1>t, Moved DEF MarkSkipped, TypeOK, ExecutorTypeOK, Locals
    <3> QED
      BY <3>1, <3>2, <3>3, <1>a, <1>l, LocalsStayLawful DEF DriverIsLawful, PlaceIsLawful
  <2> QED
    BY <2>1, <2>2, <2>3, <2>4, <2>5, <2>6, <2>7, <2>8 DEF Driver, DriverStep
<1>d. \A j \in Instances \ {i} : pc'[j] = pc[j] /\ loc'[j] = loc[j]
  <2> USE DEF TypeOK, ExecutorTypeOK
  <2>1. LoadTransaction(i) \/ LoadSteps(i) \/ CompensateNext(i) \/ MarkSkipped(i)
          => \A j \in Instances \ {i} : pc'[j] = pc[j] /\ loc'[j] = loc[j]
    BY Moved DEF LoadTransaction, LoadSteps, CompensateNext, MarkSkipped
  <2>2. RenewAndDispatch(i) => \A j \in Instances \ {i} : pc'[j] = pc[j] /\ loc'[j] = loc[j]
    BY Moved DEF RenewAndDispatch, ExecuteNextStep, BeginCompensation, Take
  <2>3. Claim(i) \/ StartRunning(i) \/ Succeed(i) \/ Advance(i) \/ TriggerCompensation(i)
          \/ FinishCompensation(i) \/ Release(i) \/ Deactivate(i) \/ AdvanceNotified(i)
          => \A j \in Instances \ {i} : pc'[j] = pc[j] /\ loc'[j] = loc[j]
    BY Moved DEF Claim, StartRunning, Succeed, Advance, TriggerCompensation,
                 FinishCompensation, Release, Deactivate, AdvanceNotified
  <2>4. Register(i) \/ Reread(i) \/ WaitTimesOut(i) \/ WaitStopped(i) \/ WaitNotified(i)
          => \A j \in Instances \ {i} : pc'[j] = pc[j] /\ loc'[j] = loc[j]
    BY Moved DEF Register, Reread, WaitTimesOut, WaitStopped, WaitNotified
  <2> QED
    BY <2>1, <2>2, <2>3, <2>4 DEF Driver, DriverStep
<1> QED
  BY <1>a, <1>b, <1>c, <1>d, <1>r, EffectsStayLawful, RowsStayTrue, DriverStaysLawful,
     ScannersStayLawful DEF Lawful

(* The poller's goroutines keep the engine lawful. *)
LEMMA PollerLawful ==
    ASSUME TypeOK, Lawful, NEW i \in Instances, Poller(i)
    PROVE  Transition /\ Lawful'
<1>t. step \in [Steps -> StepRow] /\ poll \in [Instances -> [Steps -> PollTask]]
  BY DEF TypeOK, StoreTypeOK, PollerTypeOK
<1>l. ScannersAreLawful
  BY DEF Lawful
<1>u. UNCHANGED <<tx, remote, pc, loc, scan>>
  BY DEF Poller, PollerStep, ScanAndProcess, CheckStep, PollRequest, RecordResult,
         DeleteTask, NotifyCoordinator, ScheduleNextPoll, ReleaseTask,
         storeVars, execVars, scanVars
<1>a. Transition
  BY <1>u DEF Transition, KeepsStatus
<1>b. RowStep
  <2>1. ASSUME NEW s \in Steps, RecordResult(i, s)
        PROVE  RowStep
    BY <2>1, <1>t, <1>l, PlainWrite, StepStatusValues DEF RecordResult, ScannersAreLawful
  <2>2. ASSUME NEW s \in Steps, ScheduleNextPoll(i, s)
        PROVE  RowStep
    BY <2>2, <1>t, PlainWrite DEF ScheduleNextPoll
  <2>3. UNCHANGED step => RowStep
    BY DEF RowStep
  <2>4. \/ UNCHANGED step
        \/ \E s \in Steps : RecordResult(i, s) \/ ScheduleNextPoll(i, s)
    BY DEF Poller, PollerStep, ScanAndProcess, CheckStep, PollRequest,
           DeleteTask, NotifyCoordinator, ReleaseTask, storeVars
  <2> QED
    BY <2>1, <2>2, <2>3, <2>4
<1> DEFINE Good(j, s) == poll'[j][s].pc = "record" /\ poll'[j][s].result = "success"
                           => Settled(s)
<1>c. ASSUME NEW j \in Instances, NEW s \in Steps
      PROVE  Good(j, s)
  <2>o. poll[j][s].pc = "record" /\ poll[j][s].result = "success" => Settled(s)
    BY <1>l DEF ScannersAreLawful
  <2>1. ScanAndProcess(i) => Good(j, s)
    BY <1>t, <2>o DEF ScanAndProcess, NoPoll
  <2>2. ASSUME NEW r \in Steps, NEW task, SetPoll(i, r, task),
               task.pc = "record" /\ task.result = "success" => Settled(r)
        PROVE  Good(j, s)
    BY <2>2, <1>t, <2>o DEF SetPoll
  <2>3. ASSUME NEW r \in Steps, NEW place, PollGoto(i, r, place), place # "record"
        PROVE  Good(j, s)
    <3>1. CASE j = i /\ s = r
      BY <2>3, <3>1, <1>t DEF PollGoto, PollTask
    <3>2. CASE ~(j = i /\ s = r)
      BY <2>3, <3>2, <1>t, <2>o DEF PollGoto
    <3> QED
      BY <3>1, <3>2
  <2>n. NoPoll.pc # "record" /\ \A p : p # "record" => [NoPoll EXCEPT !.pc = p].pc # "record"
    BY DEF NoPoll
  <2> HIDE DEF Good
  <2>4. ASSUME NEW r \in Steps, CheckStep(i, r) \/ NotifyCoordinator(i, r) \/ ReleaseTask(i, r)
        PROVE  Good(j, s)
    BY <2>4, <2>2, <2>3, <2>n DEF CheckStep, NotifyCoordinator, ReleaseTask
  <2>5. ASSUME NEW r \in Steps, PollRequest(i, r)
        PROVE  Good(j, s)
    BY <2>5, <2>2, <2>n DEF PollRequest, PollAnswers, JobAnswers, Settled
  <2>6. ASSUME NEW r \in Steps, RecordResult(i, r) \/ DeleteTask(i, r) \/ ScheduleNextPoll(i, r)
        PROVE  Good(j, s)
    BY <2>6, <2>3 DEF RecordResult, DeleteTask, ScheduleNextPoll
  <2> QED
    BY <2>1, <2>4, <2>5, <2>6 DEF Poller, PollerStep
<1>d. ScannersAreLawful'
  BY <1>c, <1>l, <1>u DEF ScannersAreLawful, Settled
<1> QED
  BY <1>a, <1>b, <1>d, <1>u, BystandersStayLawful

(* Coordinator.Submit keeps the drivers lawful. *)
LEMMA SubmitLawful ==
    ASSUME TypeOK, Transition, NEW i \in Instances,
           SubmitAccepts(i) \/ SubmitDeclines(i) \/ UNCHANGED <<pc, loc>>,
           \A j \in Instances : DriverIsLawful(j)
    PROVE  \A j \in Instances : DriverIsLawful(j)'
<1>1. CASE SubmitAccepts(i)
  <2>1. \A j \in Instances \ {i} : DriverIsLawful(j)'
    BY <1>1, Moved, DriverStaysLawful DEF SubmitAccepts
  <2>2. DriverIsLawful(i)'
    <3>1. pc'[i] = "queued" /\ loc'[i] = loc[i]
      BY <1>1, Moved DEF SubmitAccepts
    <3> QED
      BY <3>1, FreePlaceIsLawful, LocalsStayLawful DEF DriverIsLawful, FreePlaces
  <2> QED
    BY <2>1, <2>2
<1>2. CASE UNCHANGED <<pc, loc>>
  BY <1>2, DriverStaysLawful
<1> QED
  BY <1>1, <1>2 DEF SubmitDeclines

(* The recovery scan keeps the engine lawful. *)
LEMMA RecoveryLawful ==
    ASSUME TypeOK, Lawful, NEW i \in Instances, Recovery(i)
    PROVE  Transition /\ Lawful'
<1>t. tx \in TxRow
  BY DEF TypeOK, StoreTypeOK
<1>u. UNCHANGED <<step, remote, scan, poll>>
  BY DEF Recovery, RecoveryStep, RecoveryList, RecoverySubmit, RecoveryRelease,
         storeVars, execVars, pollerVars
<1>a. Transition
  <2>1. KeepsStatus
    BY <1>t, StatusKept DEF Recovery, RecoveryStep, RecoveryList, RecoverySubmit,
       RecoveryRelease, ListRecoverableTransactions, storeVars
  <2> QED
    BY <1>u, <2>1 DEF Transition
<1>b. RowStep
  BY <1>u DEF RowStep
<1>c. \A j \in Instances : DriverIsLawful(j)'
  <2>1. UNCHANGED <<pc, loc>> \/ SubmitAccepts(i) \/ SubmitDeclines(i)
    BY DEF Recovery, RecoveryStep, RecoveryList, RecoverySubmit, RecoveryRelease, execVars
  <2> QED
    BY <2>1, <1>a, SubmitLawful DEF Lawful
<1> QED
  BY <1>a, <1>b, <1>c, <1>u, EffectsStayLawful, RowsStayTrue, ScannersStayLawful DEF Lawful

(* The timeout scan keeps the engine lawful. *)
LEMMA TimeoutScanLawful ==
    ASSUME TypeOK, Lawful, NEW i \in Instances, TimeoutScan(i)
    PROVE  Transition /\ Lawful'
<1>t. tx \in TxRow /\ scan \in [Instances -> ScanTask]
  BY DEF TypeOK, StoreTypeOK, CoordinatorTypeOK
<1>l. ScannersAreLawful
  BY DEF Lawful
<1>u. UNCHANGED <<step, remote, poll>>
  BY DEF TimeoutScan, TimeoutStep, TimeoutList, TimeoutCAS, TimeoutSubmit, TimeoutRelease,
         storeVars, execVars, pollerVars
<1>a. Transition
  <2>1. TimeoutList(i) \/ TimeoutSubmit(i) \/ TimeoutRelease(i) => KeepsStatus
    BY <1>t, StatusKept DEF TimeoutList, TimeoutSubmit, TimeoutRelease,
       ListTimedOutTransactions, storeVars
  <2>2. TimeoutCAS(i) => KeepsStatus \/ StatusStep
    BY <1>t, <1>l DEF TimeoutCAS, UpdateTransactionStatusCAS, UpdateTransactionStatus,
       TxRow, ScannersAreLawful, KeepsStatus, StatusStep
  <2> QED
    BY <1>u, <2>1, <2>2 DEF Transition, TimeoutScan, TimeoutStep
<1>b. RowStep
  BY <1>u DEF RowStep
<1>c. \A j \in Instances : DriverIsLawful(j)'
  <2>1. UNCHANGED <<pc, loc>> \/ SubmitAccepts(i) \/ SubmitDeclines(i)
    BY DEF TimeoutScan, TimeoutStep, TimeoutList, TimeoutCAS, TimeoutSubmit,
           TimeoutRelease, execVars
  <2> QED
    BY <2>1, <1>a, SubmitLawful DEF Lawful
<1>d. ScannersAreLawful'
  <2>1. ASSUME NEW j \in Instances, scan'[j].pc = "cas"
        PROVE  scan'[j].status \in {"running", "compensating"}
    BY <2>1, <1>t, <1>l DEF TimeoutScan, TimeoutStep, TimeoutList, TimeoutCAS, TimeoutSubmit,
       TimeoutRelease, ListTimedOutTransactions, TimeoutDue, ScannersAreLawful, NoScan, ScanTask
  <2> QED
    BY <2>1, <1>l, <1>u DEF ScannersAreLawful, Settled
<1> QED
  BY <1>a, <1>b, <1>c, <1>d, EffectsStayLawful, RowsStayTrue DEF Lawful

(* Submission and the life cycle of an engine keep it lawful. *)
LEMMA EngineLawful ==
    ASSUME TypeOK, Lawful, NEW i \in Instances, Engine(i)
    PROVE  Transition /\ Lawful'
<1>t. tx \in TxRow
  BY DEF TypeOK, StoreTypeOK
<1>u. UNCHANGED remote
  BY DEF Engine, Create, Enqueue, Start, Stop, Stopped, Crash, Forget, execVars,
         QueryAnswered, QueryFails, WaitCancelled
<1>a. Transition
  BY <1>t, <1>u DEF Engine, Create, CreateTransactionWithSteps, Enqueue, Start, Stop,
     Stopped, Crash, Forget, QueryAnswered, QueryFails, WaitCancelled,
     storeVars, Transition, KeepsStatus, StatusStep, TxRow
<1>b. RowStep
  BY DEF Engine, Create, CreateTransactionWithSteps, Enqueue, Start, Stop,
         Stopped, Crash, Forget, QueryAnswered, QueryFails, WaitCancelled,
         storeVars, RowStep, NewStep
<1>c. CASE \/ Create(i) \/ Start(i) \/ Stop(i) \/ Enqueue(i)
           \/ QueryAnswered(i) \/ QueryFails(i) \/ WaitCancelled(i)
  <2>1. UNCHANGED <<scan, poll>>
    BY <1>c DEF Create, Start, Stop, Enqueue, QueryAnswered, QueryFails, WaitCancelled,
                pollerVars, scanVars
  <2>2. UNCHANGED <<pc, loc>> \/ SubmitAccepts(i) \/ SubmitDeclines(i)
    BY <1>c DEF Create, Start, Stop, Enqueue, QueryAnswered, QueryFails, WaitCancelled, execVars
  <2>3. \A j \in Instances : DriverIsLawful(j)'
    BY <2>2, <1>a, SubmitLawful DEF Lawful
  <2> QED
    BY <1>a, <1>b, <2>1, <2>3, EffectsStayLawful, RowsStayTrue, ScannersStayLawful DEF Lawful
<1>d. CASE Forget(i)
  <2>1. \A j \in Instances \ {i} : DriverIsLawful(j)'
    BY <1>a, <1>d, Moved, DriverStaysLawful DEF Forget, Lawful
  <2>2. DriverIsLawful(i)'
    BY <1>a, <1>d, Moved, LocalsStayLawful, FreePlaceIsLawful
       DEF Forget, FreePlaces, DriverIsLawful, Lawful
  <2>3. ScannersAreLawful'
    <3>1. /\ \A j \in Instances : scan'[j].pc = "cas" => scan'[j] = scan[j]
          /\ \A j \in Instances, s \in Steps : poll'[j][s].pc = "record" => poll'[j][s] = poll[j][s]
      BY <1>d DEF Forget, NoScan, NoPoll, TypeOK, CoordinatorTypeOK, PollerTypeOK
    <3> QED
      BY <3>1, <1>u DEF Lawful, ScannersAreLawful, Settled
  <2> QED
    BY <1>a, <1>b, <2>1, <2>2, <2>3, EffectsStayLawful, RowsStayTrue DEF Lawful
<1> QED
  BY <1>c, <1>d DEF Engine, Stopped, Crash

(* The participants and the clocks keep the engine lawful. *)
LEMMA EnvironmentLawful ==
    ASSUME TypeOK, Lawful,
           (\E s \in Steps : Participant(s)) \/ LeaseClock \/ PollLockClock \/ DeadlineClock
    PROVE  Transition /\ Lawful'
<1>t. tx \in TxRow /\ remote \in [Steps -> Effect]
  BY DEF TypeOK, StoreTypeOK, ExecutorTypeOK
<1>u. UNCHANGED <<step, pc, loc, scan, poll>>
  BY DEF Participant, RequestArrives, JobEnds, LeaseClock, LeaseExpires, PollLockClock,
         PollLockExpires, DeadlineClock, DeadlinePasses, storeVars, execVars, pollerVars, scanVars
<1>a. Transition
  <2>1. ASSUME NEW s \in Steps, Participant(s)
        PROVE  Transition
    <3>1. KeepsStatus
      BY <2>1 DEF Participant, RequestArrives, JobEnds, storeVars, KeepsStatus
    <3>2. Begun
      BY <2>1 DEF Participant, RequestArrives, JobEnds, Lawful, EffectsAreLawful
    <3>3. EffectStep(s)
      BY <2>1, <3>2, <1>t DEF Participant, RequestArrives, JobEnds, Applied, EffectStep,
         Forward, Effect, Lawful, EffectsAreLawful
    <3> QED
      BY <3>1, <3>3 DEF Transition
  <2>2. LeaseClock \/ PollLockClock \/ DeadlineClock => KeepsStatus /\ UNCHANGED remote
    BY <1>t DEF LeaseClock, LeaseExpires, PollLockClock, PollLockExpires, DeadlineClock,
       DeadlinePasses, execVars, KeepsStatus, TxRow
  <2> QED
    BY <2>1, <2>2 DEF Transition
<1>b. RowStep
  BY <1>u DEF RowStep
<1>c. ScannersAreLawful'
  BY <1>a, <1>u, ScannersStayLawful DEF Lawful
<1> QED
  BY <1>a, <1>b, <1>c, <1>u, BystandersStayLawful

(* The engine starts lawful. *)
LEMMA InitLawful == Init => Lawful
<1> SUFFICES ASSUME Init PROVE Lawful
  OBVIOUS
<1>1. EffectsAreLawful /\ SuccessIsComplete /\ RowsAreTrue /\ CompensatedIsUndone
  BY DEF Init, StoreInit, ExecutorInit, EffectsAreLawful, SuccessIsComplete, RowsAreTrue,
         CompensatedIsUndone, NewStep
<1>2. \A i \in Instances : DriverIsLawful(i)
  BY DEF Init, ExecutorInit, NoLocals, NewStep, DriverIsLawful, LocalsAreLawful, PlaceIsLawful
<1>3. ScannersAreLawful
  BY DEF Init, PollerInit, CoordinatorInit, NoPoll, NoScan, ScannersAreLawful
<1> QED
  BY <1>1, <1>2, <1>3 DEF Lawful

(* No step leaves the invariant. *)
LEMMA LawfulStep ==
    ASSUME TypeOK, Lawful, [Next]_vars
    PROVE  Transition /\ Lawful'
<1>1. CASE UNCHANGED vars
  <2>1. UNCHANGED <<tx, step, remote, pc, loc, poll, scan>>
    BY <1>1 DEF vars, storeVars, execVars, pollerVars, scanVars
  <2>2. Transition /\ RowStep
    BY <2>1 DEF Transition, KeepsStatus, RowStep
  <2> QED
    BY <2>1, <2>2, ScannersStayLawful, BystandersStayLawful DEF Lawful
<1>2. CASE Next
  BY <1>2, ExecutorLawful, PollerLawful, DriverLawful, RecoveryLawful, TimeoutScanLawful,
     EngineLawful, EnvironmentLawful DEF Next
<1> QED
  BY <1>1, <1>2

(***************************************************************************)
(* The inductive invariant: no place, row or remembered row of any         *)
(* instance is ahead of what the participants did and of what the status   *)
(* of the transaction admits.                                              *)
(***************************************************************************)
THEOREM LawfulTheorem == Spec => [](TypeOK /\ Lawful)
<1>1. Init => TypeOK /\ Lawful
  BY InitType, InitLawful
<1>2. TypeOK /\ Lawful /\ [Next]_vars => (TypeOK /\ Lawful)'
  BY TypeStep, LawfulStep
<1> QED
  BY <1>1, <1>2, PTL DEF Spec

(***************************************************************************)
(* A transaction recorded as succeeded has every effect in place and none  *)
(* taken back, although executeNextStep decides on rows read before the    *)
(* lease was renewed and the other replicas, pollers and timeout scanners  *)
(* keep writing.                                                           *)
(***************************************************************************)
THEOREM SuccessTheorem == Spec => []SuccessIsComplete
<1>1. TypeOK /\ Lawful => SuccessIsComplete
  BY DEF Lawful
<1> QED
  BY <1>1, LawfulTheorem, PTL

(***************************************************************************)
(* A step CompensateStep recorded as compensated was undone at its         *)
(* participant and stays undone.                                           *)
(***************************************************************************)
THEOREM CompensationTheorem == Spec => []CompensatedIsUndone
<1>1. TypeOK /\ Lawful => CompensatedIsUndone
  BY DEF Lawful
<1> QED
  BY <1>1, LawfulTheorem, PTL

-----------------------------------------------------------------------------
(* A lawful step of the engine is a step, or a stutter, of the contract. *)
LEMMA ContractStep ==
    ASSUME TypeOK, Lawful, Transition
    PROVE  [Contract!Next]_<<tx.status, [s \in Steps |-> EffectOf(remote[s])]>>
<1> DEFINE eff == [s \in Steps |-> EffectOf(remote[s])]
<1>r. remote \in [Steps -> Effect]
  BY DEF TypeOK, ExecutorTypeOK
<1>1. CASE KeepsStatus /\ UNCHANGED remote
  BY <1>1 DEF KeepsStatus
<1>2. CASE StatusStep /\ UNCHANGED remote
  <2>1. (\A s \in Steps : remote[s] = "done") => \A s \in Steps : eff[s] = "applied"
    BY DEF EffectOf
  <2>2. UNCHANGED eff
    BY <1>2
  <2>3. tx'.status # tx.status
    BY <1>2 DEF StatusStep
  <2> QED
    BY <1>2, <2>1, <2>2
       DEF StatusStep, Contract!Next, Contract!Submit, Contract!Begin, Contract!Abort,
           Contract!Fail, Contract!Succeed
<1>3. CASE KeepsStatus /\ \E s \in Steps : EffectStep(s)
  <2> PICK s \in Steps : EffectStep(s)
    BY <1>3
  <2>1. CASE GivenUp /\ remote' = [remote EXCEPT ![s] = "undone"]
    <3>1. eff' = [eff EXCEPT ![s] = "undone"]
      BY <2>1, <1>r DEF EffectOf
    <3> QED
      BY <1>3, <2>1, <3>1 DEF KeepsStatus, GivenUp, Contract!Next, Contract!Undo
  <2>2. ASSUME NEW r \in Effect, Begun, remote' = [remote EXCEPT ![s] = r],
               <<remote[s], r>> \in Forward
        PROVE  [Contract!Next]_<<tx.status, eff>>
    <3>1. CASE r = "done"
      <4>1. eff[s] = "none" /\ eff' = [eff EXCEPT ![s] = "applied"]
        BY <2>2, <3>1, <1>r DEF EffectOf, Forward
      <4>2. tx.status # "succeeded"
        BY <2>2, <3>1 DEF Forward, Lawful, SuccessIsComplete
      <4> QED
        BY <1>3, <2>2, <4>1, <4>2 DEF KeepsStatus, Begun, Contract!Next, Contract!Apply
    <3>2. CASE r # "done"
      <4>1. EffectOf(r) = "none" /\ EffectOf(remote[s]) = "none"
        BY <2>2, <3>2 DEF EffectOf, Forward
      <4>2. \A u \in Steps : EffectOf(remote'[u]) = EffectOf(remote[u])
        BY <2>2, <4>1, <1>r
      <4>3. UNCHANGED eff
        BY <4>2
      <4> QED
        BY <1>3, <4>3 DEF KeepsStatus
    <3> QED
      BY <3>1, <3>2
  <2> QED
    BY <2>1, <2>2 DEF EffectStep
<1> QED
  BY <1>1, <1>2, <1>3 DEF Transition

(***************************************************************************)
(* The engine implements its contract: with any number of replicas,        *)
(* crashes, lost requests, lapsed leases and store failures, the status a  *)
(* caller reads only moves along the documented graph, effects appear only *)
(* once the transaction runs and are taken back only after it was given    *)
(* up, and success is recorded only over a full set of effects.            *)
(***************************************************************************)
THEOREM RefinementTheorem == Spec => Refinement
<1>1. Init => Contract!Init
  BY DEF Init, StoreInit, ExecutorInit, EffectOf, Contract!Init
<1>2. TypeOK /\ Lawful /\ [Next]_vars
        => [Contract!Next]_<<tx.status, [s \in Steps |-> EffectOf(remote[s])]>>
  BY LawfulStep, ContractStep
<1> QED
  BY <1>1, <1>2, LawfulTheorem, PTL DEF Spec, Refinement, Contract!Spec

-----------------------------------------------------------------------------
(* Only a query that found a verdict tells the caller, and it tells that one. *)
LEMMA CallerStep ==
    ASSUME TypeOK, [Next]_vars
    PROVE  \/ client'.pc # "told"
           \/ UNCHANGED client
           \/ /\ client'.verdict = tx.status
              /\ tx.status \in {"succeeded", "failed"}
              /\ UNCHANGED tx
<1> USE DEF NoCaller
<1>t. client \in Caller
  BY DEF TypeOK
<1>1. ASSUME NEW i \in Instances, Engine(i)
      PROVE  \/ client'.pc # "told"
             \/ UNCHANGED client
             \/ /\ client'.verdict = tx.status
                /\ tx.status \in {"succeeded", "failed"}
                /\ UNCHANGED tx
  <2>1. CASE Create(i) \/ Start(i) \/ Stop(i) \/ WaitCancelled(i)
    BY <2>1 DEF Create, Start, Stop, WaitCancelled
  <2>2. CASE Enqueue(i)
    BY <2>2, <1>t DEF Enqueue, Caller
  <2>3. CASE Stopped(i) \/ Crash(i)
    BY <2>3 DEF Stopped, Crash, Forget
  <2>4. CASE QueryFails(i)
    BY <2>4, <1>t DEF QueryFails, Waiting, Caller
  <2>5. CASE QueryAnswered(i)
    <3>1. CASE tx.status \in {"succeeded", "failed"}
      BY <2>5, <3>1 DEF QueryAnswered, GetTransaction, storeVars
    <3>2. CASE tx.status \notin {"succeeded", "failed"}
      BY <2>5, <3>2, <1>t DEF QueryAnswered, Waiting, GetTransaction, Caller
    <3> QED
      BY <3>1, <3>2
  <2> QED
    BY <1>1, <2>1, <2>2, <2>3, <2>4, <2>5 DEF Engine
<1>2. CASE UNCHANGED vars
  BY <1>2 DEF vars
<1>3. CASE \/ \E i \in Instances : \/ Driver(i) \/ Executor(i) \/ Poller(i)
                                  \/ Recovery(i) \/ TimeoutScan(i)
           \/ \E s \in Steps : Participant(s)
           \/ LeaseClock \/ PollLockClock \/ DeadlineClock
  BY <1>3 DEF Driver, Executor, Poller, Recovery, TimeoutScan, Participant,
              LeaseClock, PollLockClock, DeadlineClock
<1> QED
  BY <1>1, <1>2, <1>3 DEF Next

(***************************************************************************)
(* What SubmitAndWait returned stays true: the row it read is terminal,    *)
(* nothing any replica still has under way rewrites it, and a success it   *)
(* reported keeps every effect in place.                                   *)
(***************************************************************************)
THEOREM VerdictTheorem == Spec => []VerdictTold
<1> DEFINE Told == client.pc = "told" => client.verdict \in {"succeeded", "failed"}
<1>1. Init => VerdictTold /\ Told
  BY DEF Init, NoCaller, VerdictTold
<1>2. ASSUME TypeOK, Lawful, Lawful', VerdictTold, Told, [Next]_vars
      PROVE  (VerdictTold /\ Told)'
  <2> SUFFICES ASSUME client'.pc = "told"
               PROVE  /\ tx'.status = client'.verdict
                      /\ client'.verdict \in {"succeeded", "failed"}
    BY <1>2 DEF VerdictTold, Lawful, SuccessIsComplete
  <2>1. \/ UNCHANGED client
        \/ /\ client'.verdict = tx.status
           /\ tx.status \in {"succeeded", "failed"}
           /\ UNCHANGED tx
    BY <1>2, CallerStep
  <2>2. Transition
    BY <1>2, LawfulStep
  <2>3. CASE UNCHANGED client
    <3>1. tx.status = client.verdict /\ client.verdict \in {"succeeded", "failed"}
      BY <1>2, <2>3 DEF VerdictTold
    <3> QED
      BY <3>1, <2>2, <2>3 DEF Transition, KeepsStatus, StatusStep
  <2> QED
    BY <2>1, <2>3
<1>3. TypeOK /\ Lawful /\ VerdictTold /\ Told /\ (TypeOK /\ Lawful)' /\ [Next]_vars
        => (VerdictTold /\ Told)'
  BY <1>2
<1> QED
  BY <1>1, <1>3, LawfulTheorem, PTL DEF Spec
=============================================================================
