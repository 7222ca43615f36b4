--------------------------- MODULE SagaSoloProofs ----------------------------
(***************************************************************************)
(* Theorems about a saga deployment that runs one engine at a time, each   *)
(* replaced after a crash or a stop (MaxLive <= 1): any number of engines  *)
(* and steps, any retry and poll limits, crashes, stops and expired locks. *)
(***************************************************************************)
EXTENDS SagaProofs, FiniteSetTheorems

-----------------------------------------------------------------------------
(* Only one engine works *)

OneEngine == \A i, j \in Instances : Live(i) /\ Live(j) => i = j

(* Nothing is left in the memory of an engine that does not run. *)
Gone(i) == /\ pc[i] = "idle"
           /\ recovery[i] = "off"
           /\ scan[i].pc = "idle"
           /\ notifyCh[i] = "absent"
           /\ \A s \in Steps : poll[i][s].pc = "idle"

OnlyLiveWork == \A i \in Instances : Live(i) \/ Gone(i)

Solo == OneEngine /\ OnlyLiveWork

(* The others, which a step of engine i leaves alone. *)
Untouched(j) == /\ pc'[j] = pc[j]
                /\ loc'[j] = loc[j]
                /\ recovery'[j] = recovery[j]
                /\ scan'[j] = scan[j]
                /\ notifyCh'[j] = notifyCh[j]
                /\ poll'[j] = poll[j]
                /\ phase'[j] = phase[j]

Others(i) == Instances \ {i}

Works(i) == Driver(i) \/ Executor(i) \/ Poller(i) \/ Recovery(i) \/ TimeoutScan(i)

-----------------------------------------------------------------------------
(* What the steps do, field by field *)

(* A row of saga_steps gets a status, or a retry is counted, and no more. *)
Written(s, v) ==
    /\ step'[s].status = v
    /\ step'[s].retryCount = step[s].retryCount
    /\ step'[s].pollCount = step[s].pollCount
    /\ \A r \in Steps : r # s => step'[r] = step[r]

RetryCounted(s) ==
    /\ step'[s].status = step[s].status
    /\ step'[s].retryCount = step[s].retryCount + 1
    /\ step'[s].pollCount = step[s].pollCount
    /\ \A r \in Steps : r # s => step'[r] = step[r]

PollCounted(s) ==
    /\ step'[s].status = step[s].status
    /\ step'[s].retryCount = step[s].retryCount
    /\ step'[s].pollCount = step[s].pollCount + 1
    /\ \A r \in Steps : r # s => step'[r] = step[r]

LEMMA RowFields ==
    ASSUME step \in [Steps -> StepRow], NEW s \in Steps
    PROVE  /\ \A v : UpdateStepStatus(s, v) => Written(s, v)
           /\ IncrementStepRetry(s) => RetryCounted(s)
           /\ IncrementStepPollCount(s) => PollCounted(s)
<1>1. step[s] \in StepRow
  OBVIOUS
<1>2. ASSUME NEW v, UpdateStepStatus(s, v)
      PROVE  Written(s, v)
  BY <1>1, <1>2 DEF UpdateStepStatus, Written, StepRow
<1>3. ASSUME IncrementStepRetry(s)
      PROVE  RetryCounted(s)
  BY <1>1, <1>3 DEF IncrementStepRetry, RetryCounted, StepRow
<1>4. ASSUME IncrementStepPollCount(s)
      PROVE  PollCounted(s)
  BY <1>1, <1>4 DEF IncrementStepPollCount, PollCounted, StepRow
<1> QED
  BY <1>2, <1>3, <1>4

(* The place of a driver, with its locals kept or forgotten. *)
Keeps(i, place)   == pc'[i] = place /\ loc'[i] = loc[i]
Forgets(i, place) == pc'[i] = place /\ loc'[i] = NoLocals

LEMMA PlaceFields ==
    ASSUME ExecutorTypeOK, NEW i \in Instances, NEW place
    PROVE  /\ Goto(i, place) => Keeps(i, place)
           /\ Leave(i, place) => Forgets(i, place)
<1> QED
  BY DEF ExecutorTypeOK, Goto, Leave, Keeps, Forgets

(* The next step of executeCompensation. *)
GoesOn(i) ==
    /\ pc'[i] = "compensate"
    /\ loc'[i].todo = loc[i].todo \ {loc[i].cur}
    /\ loc'[i].steps = loc[i].steps
    /\ loc'[i].status = loc[i].status

LEMMA CompensatedFields ==
    ASSUME ExecutorTypeOK, NEW i \in Instances
    PROVE  /\ Compensated(i, TRUE) => GoesOn(i) /\ loc'[i].clean = loc[i].clean
           /\ Compensated(i, FALSE) => GoesOn(i) /\ loc'[i].clean = FALSE
<1>1. loc[i] \in Locals /\ loc \in [Instances -> Locals] /\ pc \in [Instances -> DriverPC]
  BY DEF ExecutorTypeOK
<1>2. ASSUME Compensated(i, TRUE)
      PROVE  GoesOn(i) /\ loc'[i].clean = loc[i].clean
  BY <1>1, <1>2 DEF Compensated, GoesOn, Locals
<1>3. ASSUME Compensated(i, FALSE)
      PROVE  GoesOn(i) /\ loc'[i].clean = FALSE
  BY <1>1, <1>3 DEF Compensated, GoesOn, Locals
<1> QED
  BY <1>2, <1>3

(* The calls of executor.go, in the order of module SagaExecutor. *)
ExecutorMove(i) ==
    LET t == loc[i].cur
    IN
    \/ /\ pc[i] = "markRunning"
       /\ UNCHANGED <<remote, pollTask>>
       /\ \/ Keeps(i, "call") /\ Written(t, "running")
          \/ Forgets(i, "trigger") /\ UNCHANGED step
    \/ /\ pc[i] = "call"
       /\ UNCHANGED <<remote, pollTask>>
       /\ Forgets(i, "trigger")
       /\ UNCHANGED step \/ Written(t, "failed")
    \/ /\ pc[i] = "call"
       /\ UNCHANGED <<step, pollTask>>
       /\ remote' = [remote EXCEPT ![t] = Applied(t)]
       /\ Keeps(i, IF t \in AsyncSteps THEN "createPoll" ELSE "markSucceeded")
    \/ /\ pc[i] = "call"
       /\ UNCHANGED <<step, pollTask>>
       /\ UNCHANGED remote \/ remote' = [remote EXCEPT ![t] = Lost(t)]
       /\ Keeps(i, "httpError")
    \/ /\ pc[i] = "httpError"
       /\ UNCHANGED <<remote, pollTask>>
       /\ \/ Forgets(i, "trigger") /\ (UNCHANGED step \/ Written(t, "failed"))
          \/ /\ pc'[i] = "afterRetry"
             /\ loc'[i] = [loc[i] EXCEPT !.retry = loc[i].retry + 1]
             /\ RetryCounted(t) \/ (UNCHANGED step /\ StoreError)
    \/ /\ pc[i] = "afterRetry"
       /\ UNCHANGED <<remote, pollTask>>
       /\ \/ /\ loc[i].retry < MaxRetry
             /\ Forgets(i, "load")
             /\ Written(t, "pending") \/ (UNCHANGED step /\ StoreError)
          \/ /\ ~(loc[i].retry < MaxRetry)
             /\ Forgets(i, "trigger")
             /\ Written(t, "failed") \/ (UNCHANGED step /\ StoreError)
    \/ /\ pc[i] = "markSucceeded"
       /\ UNCHANGED <<remote, pollTask>>
       /\ \/ Keeps(i, "advance") /\ Written(t, "succeeded")
          \/ Forgets(i, "trigger") /\ UNCHANGED step
    \/ /\ pc[i] = "createPoll"
       /\ UNCHANGED <<remote, step>>
       /\ \A s \in Steps : s # t => pollTask'[s] = pollTask[s]
       /\ \/ Keeps(i, "markPolling")
          \/ Forgets(i, "trigger")
    \/ /\ pc[i] = "markPolling"
       /\ UNCHANGED <<remote, pollTask>>
       /\ \/ Keeps(i, "register") /\ Written(t, "polling")
          \/ Forgets(i, "trigger") /\ UNCHANGED step
    \/ /\ pc[i] = "compCall"
       /\ UNCHANGED pollTask
       /\ \/ /\ UNCHANGED step
             /\ remote' = [remote EXCEPT ![t] = "undone"]
             /\ Keeps(i, "compSave")
          \/ /\ UNCHANGED step
             /\ UNCHANGED remote \/ remote' = [remote EXCEPT ![t] = "undone"]
             /\ Keeps(i, "compFail")
          \/ /\ UNCHANGED step \/ Written(t, "failed")
             /\ UNCHANGED remote \/ remote' = [remote EXCEPT ![t] = "undone"]
             /\ GoesOn(i) /\ loc'[i].clean = FALSE
    \/ /\ pc[i] = "compSave"
       /\ UNCHANGED <<remote, pollTask>>
       /\ GoesOn(i)
       /\ \/ Written(t, "compensated") /\ loc'[i].clean = loc[i].clean
          \/ UNCHANGED step /\ loc'[i].clean = FALSE
    \/ /\ pc[i] = "compFail"
       /\ UNCHANGED <<remote, pollTask>>
       /\ GoesOn(i) /\ loc'[i].clean = FALSE
       /\ UNCHANGED step \/ Written(t, "failed")

LEMMA ExecutorMoves ==
    ASSUME TypeOK, NEW i \in Instances, Executor(i)
    PROVE  /\ ExecutorMove(i)
           /\ Live(i)
           /\ UNCHANGED <<tx, phase, pollerVars, scanVars, client>>
           /\ \A j \in Others(i) : pc'[j] = pc[j] /\ loc'[j] = loc[j]
<1>t. ExecutorTypeOK /\ step \in [Steps -> StepRow] /\ loc[i].cur \in Steps
      /\ loc[i] \in Locals /\ loc \in [Instances -> Locals] /\ pc \in [Instances -> DriverPC]
  BY CurType DEF TypeOK, StoreTypeOK, ExecutorTypeOK
<1> USE <1>t, RowFields, PlaceFields, CompensatedFields DEF At
<1>1. MarkRunning(i) => ExecutorMove(i) /\ Live(i)
  BY DEF MarkRunning, ExecutorMove, ExecOK, ExecFails, CallOK, CallFails, Live
<1>2. RequestNotBuilt(i) => ExecutorMove(i) /\ Live(i)
  BY DEF RequestNotBuilt, ExecutorMove, ExecOK, ExecFails, CallOK, CallFails, DurableOK, DurableFails, Live
<1>3. CallSucceeds(i) => ExecutorMove(i) /\ Live(i)
  BY DEF CallSucceeds, ExecutorMove, Live, storeVars
<1>4. CallFailsHTTP(i) => ExecutorMove(i) /\ Live(i)
  BY DEF CallFailsHTTP, ExecutorMove, storeVars
<1>5. HandleHTTPError(i) => ExecutorMove(i) /\ Live(i)
  BY DEF HandleHTTPError, ExecutorMove, DurableOK, DurableFails
<1>6. AfterRetry(i) => ExecutorMove(i) /\ Live(i)
  BY DEF AfterRetry, ExecutorMove, MoreRetries, DurableOK, DurableFails
<1>7. MarkSucceeded(i) => ExecutorMove(i) /\ Live(i)
  BY DEF MarkSucceeded, ExecutorMove, DurableOK, DurableFails
<1>8. SetUpPolling(i) => ExecutorMove(i) /\ Live(i)
  BY DEF SetUpPolling, ExecutorMove, DurableOK, DurableFails, CreatePollTask, TypeOK, StoreTypeOK
<1>9. MarkPolling(i) => ExecutorMove(i) /\ Live(i)
  BY DEF MarkPolling, ExecutorMove, DurableOK, DurableFails
<1>10. CallCompensation(i) => ExecutorMove(i) /\ Live(i)
  BY DEF CallCompensation, ExecutorMove, CallOK, CallFails, Live
<1>11. SaveCompensated(i) => ExecutorMove(i) /\ Live(i)
  BY DEF SaveCompensated, ExecutorMove, DurableOK, DurableFails
<1>12. SaveCompensationFailed(i) => ExecutorMove(i) /\ Live(i)
  BY DEF SaveCompensationFailed, ExecutorMove, DurableOK, DurableFails
<1>13. ExecutorMove(i) /\ Live(i)
  BY <1>1, <1>2, <1>3, <1>4, <1>5, <1>6, <1>7, <1>8, <1>9, <1>10, <1>11, <1>12
     DEF Executor, ExecutorStep
<1>14. UNCHANGED <<tx, phase, pollerVars, scanVars, client>>
  BY DEF Executor, ExecutorStep, MarkRunning, RequestNotBuilt, CallSucceeds,
         CallFailsHTTP, HandleHTTPError, AfterRetry, MarkSucceeded, SetUpPolling,
         MarkPolling, CallCompensation, SaveCompensated, SaveCompensationFailed,
         storeVars, clockVars
<1>15. \A j \in Others(i) : pc'[j] = pc[j] /\ loc'[j] = loc[j]
  BY Moved DEF Others, Executor, ExecutorStep, MarkRunning, RequestNotBuilt, CallSucceeds,
         CallFailsHTTP, HandleHTTPError, AfterRetry, MarkSucceeded, SetUpPolling,
         MarkPolling, CallCompensation, SaveCompensated, SaveCompensationFailed
<1> QED
  BY <1>13, <1>14, <1>15

(* The fields of the transaction's row that the locks and current_step leave alone. *)
SameVerdict == tx'.status = tx.status /\ tx'.lastError = tx.lastError

(* A compare-and-swap of the status. *)
Swapped(u, v, reason) == tx.status = u /\ tx'.status = v /\ tx'.lastError = reason

LEMMA TxFields ==
    ASSUME tx \in TxRow, NEW i \in Instances
    PROVE  /\ Lock(i) => SameVerdict
           /\ ReleaseTransaction(i) => SameVerdict
           /\ \A n : UpdateTransactionStep(n) => SameVerdict
           /\ UNCHANGED tx => SameVerdict
           /\ \A u, v, r : UpdateTransactionStatusCAS(u, v, r) => SameVerdict \/ Swapped(u, v, r)
           /\ \A v, r : UpdateTransactionStatus(v, r) => tx'.status = v /\ tx'.lastError = r
<1>1. Lock(i) => SameVerdict
  BY DEF Lock, SameVerdict, TxRow
<1>2. ReleaseTransaction(i) => SameVerdict
  BY DEF ReleaseTransaction, SameVerdict, TxRow
<1>3. \A n : UpdateTransactionStep(n) => SameVerdict
  BY DEF UpdateTransactionStep, SameVerdict, TxRow
<1>4. UNCHANGED tx => SameVerdict
  BY DEF SameVerdict
<1>5. \A u, v, r : UpdateTransactionStatusCAS(u, v, r) => SameVerdict \/ Swapped(u, v, r)
  BY DEF UpdateTransactionStatusCAS, UpdateTransactionStatus, SameVerdict, Swapped, TxRow
<1>6. \A v, r : UpdateTransactionStatus(v, r) => tx'.status = v /\ tx'.lastError = r
  BY DEF UpdateTransactionStatus, TxRow
<1> QED
  BY <1>1, <1>2, <1>3, <1>4, <1>5, <1>6

(* The step executeNextStep takes, and what it starts with. *)
Takes(i, place, s) ==
    /\ pc'[i] = place
    /\ loc'[i] = [NoLocals EXCEPT !.cur = s, !.retry = loc[i].steps[s].retryCount]

Begins(i) ==
    /\ pc'[i] = "compensate"
    /\ loc'[i] = [NoLocals EXCEPT !.todo = ToCompensate(loc[i].steps),
                                  !.skip = Pending(loc[i].steps)]

DispatchMove(i) ==
    LET rows == loc[i].steps
    IN
    \/ Forgets(i, "release")
    \/ loc[i].status = "pending" /\ Forgets(i, "casRunning")
    \/ loc[i].status = "running" /\ Forgets(i, "trigger")
    \/ loc[i].status = "running" /\ AllSucceeded(rows) /\ Forgets(i, "casSucceeded")
    \/ /\ loc[i].status = "running"
       /\ StepsIn(rows, {"failed"}) = {}
       /\ \E s \in Steps :
             /\ IsCurrentStep(s, rows)
             /\ \/ rows[s].status \in {"pending", "running"} /\ Takes(i, "markRunning", s)
                \/ rows[s].status # "pending" /\ Takes(i, "register", s)
    \/ /\ loc[i].status = "compensating"
       /\ tx.status \in ActiveStatus /\ phase[i] = "up"
       /\ Begins(i)

LEMMA DispatchFields ==
    ASSUME NEW i \in Instances
    PROVE  /\ Begins(i) => /\ pc'[i] = "compensate"
                           /\ loc'[i].todo = ToCompensate(loc[i].steps)
                           /\ loc'[i].skip = Pending(loc[i].steps)
                           /\ loc'[i].clean
           /\ \A p, s : Takes(i, p, s) => /\ pc'[i] = p
                                         /\ loc'[i].cur = s
                                         /\ loc'[i].retry = loc[i].steps[s].retryCount
           /\ DispatchMove(i) => \/ pc'[i] \in {"release", "casRunning", "trigger",
                                                "casSucceeded", "markRunning", "register"}
                                \/ Begins(i)
<1>1. NoLocals \in Locals /\ NoLocals.clean
  BY NoLocalsType DEF NoLocals
<1>2. ASSUME Begins(i)
      PROVE  /\ pc'[i] = "compensate"
             /\ loc'[i].todo = ToCompensate(loc[i].steps)
             /\ loc'[i].skip = Pending(loc[i].steps)
             /\ loc'[i].clean
  BY <1>1, <1>2 DEF Begins, Locals
<1>3. ASSUME NEW p, NEW s, Takes(i, p, s)
      PROVE  pc'[i] = p /\ loc'[i].cur = s /\ loc'[i].retry = loc[i].steps[s].retryCount
  BY <1>1, <1>3 DEF Takes, Locals
<1>4. DispatchMove(i) => \/ pc'[i] \in {"release", "casRunning", "trigger",
                                       "casSucceeded", "markRunning", "register"}
                       \/ Begins(i)
  BY DEF DispatchMove, Forgets, Takes
<1> QED
  BY <1>2, <1>3, <1>4

(* The loop of driveTransaction, in the order of module SagaCoordinator. *)
LoopMove(i) ==
    \/ /\ pc[i] = "queued" /\ SameVerdict
       /\ \/ Keeps(i, "load") /\ tx.status \in ActiveStatus
          \/ Keeps(i, "idle")
    \/ /\ pc[i] = "load" /\ SameVerdict
       /\ \/ pc'[i] = "loadSteps" /\ loc'[i] = [loc[i] EXCEPT !.status = tx.status]
          \/ Forgets(i, "release")
    \/ /\ pc[i] = "loadSteps" /\ SameVerdict
       /\ \/ pc'[i] = "renew" /\ loc'[i] = [loc[i] EXCEPT !.steps = step]
          \/ Forgets(i, "release")
    \/ pc[i] = "renew" /\ SameVerdict /\ DispatchMove(i)
    \/ /\ pc[i] = "casRunning"
       /\ SameVerdict \/ Swapped("pending", "running", "none")
       /\ Forgets(i, "load") \/ Forgets(i, "release")
    \/ /\ pc[i] = "casSucceeded"
       /\ SameVerdict \/ Swapped("running", "succeeded", "none")
       /\ Forgets(i, "release")
    \/ pc[i] = "advance" /\ SameVerdict /\ (Forgets(i, "load") \/ Forgets(i, "trigger"))
    \/ /\ pc[i] = "trigger"
       /\ SameVerdict \/ Swapped("running", "compensating", "other")
       /\ Keeps(i, "load")
    \/ pc[i] = "advanceNotified" /\ SameVerdict /\ Forgets(i, "load")
    \/ pc[i] = "release" /\ SameVerdict /\ Keeps(i, "deactivate")
    \/ pc[i] = "deactivate" /\ SameVerdict /\ Keeps(i, "idle")

(* waitForAsyncStep, with the channel it registers *)
WaitMove(i) ==
    \/ /\ pc[i] = "register"
       /\ \/ Forgets(i, "trigger") /\ UNCHANGED notifyCh
          \/ /\ Keeps(i, "reread")
             /\ notifyCh'[i] = IF notifyCh[i] = "absent" THEN "empty" ELSE notifyCh[i]
    \/ /\ pc[i] = "reread"
       /\ \/ Forgets(i, "release") \/ Forgets(i, "trigger") \/ Forgets(i, "load")
          \/ Keeps(i, "advance")
          \/ /\ step[loc[i].cur].status \in {"pending", "running", "polling"}
             /\ Keeps(i, "waiting") /\ UNCHANGED notifyCh
    \/ /\ pc[i] = "waiting"
       /\ Forgets(i, "trigger") \/ Forgets(i, "release") \/ Keeps(i, "advanceNotified")

(* executeCompensation *)
UndoMove(i) ==
    \/ /\ pc[i] = "compensate" /\ SameVerdict
       /\ \E s \in Steps :
             /\ IsGreatest(s, loc[i].todo)
             /\ \/ /\ Written(s, "compensating")
                   /\ pc'[i] = "compCall"
                   /\ loc'[i] = [loc[i] EXCEPT !.cur = s]
                \/ /\ UNCHANGED step /\ StoreError
                   /\ pc'[i] = "compensate"
                   /\ loc'[i] = [loc[i] EXCEPT !.todo = loc[i].todo \ {s}, !.clean = FALSE]
                \/ UNCHANGED step /\ phase[i] = "stopping" /\ Forgets(i, "release")
    \/ /\ pc[i] = "compensate" /\ SameVerdict
       /\ loc[i].todo = {}
       /\ \/ loc[i].skip = {} /\ UNCHANGED step /\ Keeps(i, "finish")
          \/ \E s \in Steps :
                /\ IsLeast(s, loc[i].skip)
                /\ UNCHANGED step \/ Written(s, "skipped")
                /\ pc'[i] = "compensate"
                /\ loc'[i] = [loc[i] EXCEPT !.skip = loc[i].skip \ {s}]
    \/ /\ pc[i] = "finish" /\ UNCHANGED step
       /\ \/ /\ phase[i] = "up" /\ tx'.status = "failed"
             /\ tx'.lastError = (IF loc[i].clean THEN "completed" ELSE "partial")
          \/ SameVerdict /\ (phase[i] = "stopping" \/ StoreError)
       /\ Forgets(i, "release")

LEMMA LoopMoves ==
    ASSUME TypeOK, NEW i \in Instances,
           \/ Claim(i) \/ LoadTransaction(i) \/ LoadSteps(i) \/ RenewAndDispatch(i)
           \/ StartRunning(i) \/ Succeed(i) \/ Advance(i) \/ TriggerCompensation(i)
           \/ AdvanceNotified(i) \/ Release(i) \/ Deactivate(i)
    PROVE  LoopMove(i) /\ Live(i) /\ UNCHANGED <<step, pollerVars>>
<1>t. ExecutorTypeOK /\ loc[i].cur \in Steps /\ tx \in TxRow
      /\ loc[i] \in Locals /\ loc \in [Instances -> Locals] /\ pc \in [Instances -> DriverPC]
  BY CurType DEF TypeOK, StoreTypeOK, ExecutorTypeOK
<1> USE <1>t, PlaceFields, TxFields DEF At, CallOK, CallFails, DurableOK, DurableFails, Live, LoopMove
<1>1. Claim(i) => LoopMove(i) /\ Live(i) /\ UNCHANGED <<step, pollerVars>>
  BY DEF Claim, ClaimTransaction, Claimable
<1>2. LoadTransaction(i) => LoopMove(i) /\ Live(i) /\ UNCHANGED <<step, pollerVars>>
  BY DEF LoadTransaction, GetTransaction, storeVars
<1>3. LoadSteps(i) => LoopMove(i) /\ Live(i) /\ UNCHANGED <<step, pollerVars>>
  BY DEF LoadSteps, GetSteps, storeVars
<1>4. RenewAndDispatch(i) => LoopMove(i) /\ Live(i) /\ UNCHANGED <<step, pollerVars>>
  <2> SUFFICES ASSUME RenewAndDispatch(i)
               PROVE  LoopMove(i) /\ Live(i) /\ UNCHANGED <<step, pollerVars>>
    OBVIOUS
  <2>1. pc[i] = "renew" /\ Live(i) /\ UNCHANGED <<step, pollerVars>>
    BY DEF RenewAndDispatch
  <2>2. SameVerdict
    BY DEF RenewAndDispatch, ClaimTransaction
  <2>3. CASE Leave(i, "release")
    BY <2>1, <2>2, <2>3 DEF DispatchMove
  <2>4. CASE /\ CallOK(i) /\ ClaimTransaction(i)
             /\ CASE loc[i].status = "pending"      -> Leave(i, "casRunning")
                  [] loc[i].status = "running"      -> ExecuteNextStep(i)
                  [] loc[i].status = "compensating" -> BeginCompensation(i)
                  [] OTHER                          -> Leave(i, "release")
    <3>1. tx.status \in ActiveStatus /\ phase[i] = "up"
      BY <2>4 DEF ClaimTransaction, Claimable
    <3>2. CASE loc[i].status = "pending"
      BY <2>1, <2>2, <2>4, <3>2 DEF DispatchMove
    <3>3. CASE loc[i].status = "running"
      <4>1. ExecuteNextStep(i)
        BY <2>4, <3>3
      <4>2. ASSUME NEW s \in Steps, NEW p, Take(i, p, s)
            PROVE  Takes(i, p, s)
        BY <4>2 DEF Take, Takes
      <4>3. DispatchMove(i)
        BY <3>3, <4>1, <4>2 DEF ExecuteNextStep, DispatchMove
      <4> QED
        BY <2>1, <2>2, <4>3
    <3>4. CASE loc[i].status = "compensating"
      <4>1. BeginCompensation(i)
        BY <2>4, <3>4
      <4>2. Begins(i)
        BY <4>1 DEF BeginCompensation, Begins
      <4> QED
        BY <2>1, <2>2, <3>1, <3>4, <4>2 DEF DispatchMove
    <3>5. CASE loc[i].status \notin {"pending", "running", "compensating"}
      BY <2>3, <2>4, <3>5
    <3> QED
      BY <3>2, <3>3, <3>4, <3>5
  <2> QED
    BY <2>3, <2>4 DEF RenewAndDispatch
<1>5. StartRunning(i) => LoopMove(i) /\ Live(i) /\ UNCHANGED <<step, pollerVars>>
  BY DEF StartRunning
<1>6. Succeed(i) => LoopMove(i) /\ Live(i) /\ UNCHANGED <<step, pollerVars>>
  BY DEF Succeed
<1>7. Advance(i) => LoopMove(i) /\ Live(i) /\ UNCHANGED <<step, pollerVars>>
  BY DEF Advance
<1>8. TriggerCompensation(i) => LoopMove(i) /\ Live(i) /\ UNCHANGED <<step, pollerVars>>
  BY DEF TriggerCompensation
<1>9. AdvanceNotified(i) => LoopMove(i) /\ Live(i) /\ UNCHANGED <<step, pollerVars>>
  BY DEF AdvanceNotified
<1>10. Release(i) => LoopMove(i) /\ Live(i) /\ UNCHANGED <<step, pollerVars>>
  BY DEF Release
<1>11. Deactivate(i) => LoopMove(i) /\ Live(i) /\ UNCHANGED <<step, pollerVars>>
  BY DEF Deactivate, storeVars
<1> QED
  BY <1>1, <1>2, <1>3, <1>4, <1>5, <1>6, <1>7, <1>8, <1>9, <1>10, <1>11

(* What the steps of driveTransaction never touch. *)
DriverFrame(i) ==
    /\ UNCHANGED <<remote, pollTask, timedOut, expiries, phase, poll, scanVars, client>>
    /\ \A j \in Others(i) : pc'[j] = pc[j] /\ loc'[j] = loc[j]

LEMMA DriverFrames ==
    ASSUME TypeOK, NEW i \in Instances, Driver(i)
    PROVE  DriverFrame(i) /\ Live(i)
<1>1. UNCHANGED <<remote, pollTask, timedOut, expiries, phase, poll, scanVars, client>>
  BY DEF Driver, DriverStep, Claim, LoadTransaction, LoadSteps, RenewAndDispatch,
         StartRunning, Succeed, Advance, TriggerCompensation, Register, Reread,
         WaitTimesOut, WaitStopped, WaitNotified, AdvanceNotified, CompensateNext,
         MarkSkipped, FinishCompensation, Release, Deactivate, storeVars, clockVars, pollerVars
<1>2. Live(i)
  BY DEF Driver, DriverStep, Claim, LoadTransaction, LoadSteps, RenewAndDispatch,
         StartRunning, Succeed, Advance, TriggerCompensation, Register, Reread,
         WaitTimesOut, WaitStopped, WaitNotified, AdvanceNotified, CompensateNext,
         MarkSkipped, FinishCompensation, Release, Deactivate, CallOK, CallFails,
         DurableOK, DurableFails, Live
<1>3. \A j \in Others(i) : pc'[j] = pc[j] /\ loc'[j] = loc[j]
  <2>1. \A p : Goto(i, p) \/ Leave(i, p) => \A j \in Others(i) : pc'[j] = pc[j] /\ loc'[j] = loc[j]
    BY DEF Goto, Leave, Others, TypeOK, ExecutorTypeOK
  <2>2. \A v, p : \/ pc' = [pc EXCEPT ![i] = p] /\ loc' = [loc EXCEPT ![i] = v]
                  \/ UNCHANGED pc /\ loc' = [loc EXCEPT ![i] = v]
                  => \A j \in Others(i) : pc'[j] = pc[j] /\ loc'[j] = loc[j]
    BY DEF Others, TypeOK, ExecutorTypeOK
  <2>3. RenewAndDispatch(i) => \A j \in Others(i) : pc'[j] = pc[j] /\ loc'[j] = loc[j]
    BY <2>1, <2>2 DEF RenewAndDispatch, ExecuteNextStep, Take, BeginCompensation
  <2>4. CompensateNext(i) \/ MarkSkipped(i)
          => \A j \in Others(i) : pc'[j] = pc[j] /\ loc'[j] = loc[j]
    BY <2>1, <2>2 DEF CompensateNext, MarkSkipped
  <2>5. LoadTransaction(i) \/ LoadSteps(i)
          => \A j \in Others(i) : pc'[j] = pc[j] /\ loc'[j] = loc[j]
    BY <2>1, <2>2 DEF LoadTransaction, LoadSteps
  <2> QED
    BY <2>1, <2>3, <2>4, <2>5
       DEF Driver, DriverStep, Claim, StartRunning, Succeed, Advance, TriggerCompensation,
           Register, Reread, WaitTimesOut, WaitStopped, WaitNotified, AdvanceNotified,
           FinishCompensation, Release, Deactivate
<1> QED
  BY <1>1, <1>2, <1>3 DEF DriverFrame

LEMMA WaitMoves ==
    ASSUME TypeOK, NEW i \in Instances,
           \/ Register(i) \/ Reread(i) \/ WaitTimesOut(i) \/ WaitStopped(i) \/ WaitNotified(i)
    PROVE  /\ WaitMove(i)
           /\ UNCHANGED <<tx, step>>
           /\ \A j \in Others(i) : notifyCh'[j] = notifyCh[j]
<1>t. ExecutorTypeOK /\ loc[i].cur \in Steps
      /\ notifyCh \in [Instances -> {"absent", "empty", "success", "failure"}]
  BY CurType DEF TypeOK, PollerTypeOK
<1>1. UNCHANGED <<tx, step>>
  BY DEF Register, Reread, WaitTimesOut, WaitStopped, WaitNotified, storeVars
<1>2. \A j \in Others(i) : notifyCh'[j] = notifyCh[j]
  BY <1>t DEF Others, Register, Reread, WaitTimesOut, WaitStopped, WaitNotified,
              RegisterNotify, UnregisterNotify
<1> USE <1>t, PlaceFields DEF At, WaitMove
<1>3. Register(i) => WaitMove(i)
  BY DEF Register, RegisterNotify
<1>4. Reread(i) => WaitMove(i)
  BY DEF Reread, GetStep
<1>5. WaitTimesOut(i) \/ WaitStopped(i) \/ WaitNotified(i) => WaitMove(i)
  BY DEF WaitTimesOut, WaitStopped, WaitNotified
<1> QED
  BY <1>1, <1>2, <1>3, <1>4, <1>5

LEMMA UndoMoves ==
    ASSUME TypeOK, NEW i \in Instances,
           CompensateNext(i) \/ MarkSkipped(i) \/ FinishCompensation(i)
    PROVE  UndoMove(i) /\ UNCHANGED notifyCh
<1>t. ExecutorTypeOK /\ loc[i].cur \in Steps /\ tx \in TxRow /\ step \in [Steps -> StepRow]
      /\ loc[i] \in Locals /\ loc \in [Instances -> Locals] /\ pc \in [Instances -> DriverPC]
  BY CurType DEF TypeOK, StoreTypeOK, ExecutorTypeOK
<1>1. UNCHANGED notifyCh
  BY DEF CompensateNext, MarkSkipped, FinishCompensation, pollerVars
<1> USE <1>t, PlaceFields, RowFields, TxFields DEF At, UndoMove, CallOK, CallFails
<1>2. CompensateNext(i) => UndoMove(i)
  BY DEF CompensateNext
<1>3. MarkSkipped(i) => UndoMove(i)
  BY DEF MarkSkipped
<1>4. FinishCompensation(i) => UndoMove(i)
  BY DEF FinishCompensation
<1> QED
  BY <1>1, <1>2, <1>3, <1>4

(* scanAndProcess, and processPollTask of a step *)
ScanMove(i) ==
    /\ phase[i] = "up"
    /\ UNCHANGED <<step, notifyCh>>
    /\ \A s \in Steps : /\ poll[i][s].pc = "idle"
                        /\ poll'[i][s].pc = "idle" \/ (poll'[i][s].pc = "check" /\ pollTask[s] = "free")
                        /\ pollTask'[s] = "absent" <=> pollTask[s] = "absent"

PollMove(i, s) ==
    LET p == poll[i][s].pc
        q == poll'[i][s].pc
    IN
    \/ /\ p = "check" /\ q \in {"release", "idle"} /\ UNCHANGED <<step, notifyCh>>
    \/ /\ p = "check" /\ q = "ask" /\ UNCHANGED <<step, notifyCh>>
       /\ step[s].status = "polling" /\ phase[i] = "up"
       /\ poll'[i][s].count = step[s].pollCount
    \/ /\ p = "ask" /\ q = "record" /\ UNCHANGED <<step, notifyCh>>
       /\ poll'[i][s].result # "none"
    \/ /\ p = "ask" /\ q = "reschedule" /\ UNCHANGED <<step, notifyCh>>
       /\ ~PollsExhausted(poll[i][s].count)
    \/ p = "ask" /\ q = "release" /\ UNCHANGED <<step, notifyCh>>
    \/ /\ p = "record" /\ q = "delete" /\ UNCHANGED notifyCh
       /\ \/ /\ phase[i] = "up"
             /\ \/ Written(s, "succeeded") /\ poll[i][s].result = "success"
                \/ Written(s, "failed")
          \/ UNCHANGED step /\ (phase[i] = "stopping" \/ StoreError)
    \/ p = "delete" /\ q = "notify" /\ UNCHANGED <<step, notifyCh>>
    \/ /\ p = "notify" /\ q = "idle" /\ UNCHANGED step
       /\ notifyCh[i] # "absent" => notifyCh'[i] \in {"success", "failure"}
       /\ notifyCh[i] = "absent" => notifyCh'[i] = "absent"
    \/ /\ p = "reschedule" /\ q = "release" /\ UNCHANGED notifyCh
       /\ UNCHANGED step \/ PollCounted(s)
    \/ p = "release" /\ q = "idle" /\ UNCHANGED <<step, notifyCh>>

PollFrame(i, s) ==
    /\ \A r \in Steps : r # s => poll'[i][r] = poll[i][r]
    /\ \A r \in Steps : pollTask[r] = "absent" => pollTask'[r] = "absent"

LEMMA PollerMoves ==
    ASSUME TypeOK, NEW i \in Instances, Poller(i)
    PROVE  /\ ScanMove(i) \/ \E s \in Steps : PollMove(i, s) /\ PollFrame(i, s)
           /\ Live(i)
           /\ UNCHANGED <<tx, timedOut, expiries, phase, execVars, scanVars, client>>
           /\ \A j \in Others(i) : poll'[j] = poll[j] /\ notifyCh'[j] = notifyCh[j]
<1>t. /\ poll \in [Instances -> [Steps -> PollTask]]
      /\ notifyCh \in [Instances -> {"absent", "empty", "success", "failure"}]
      /\ step \in [Steps -> StepRow]
      /\ pollTask \in [Steps -> {"absent", "free", "locked"}]
  BY DEF TypeOK, PollerTypeOK, StoreTypeOK
<1>1. UNCHANGED <<tx, timedOut, expiries, phase, execVars, scanVars, client>> /\ Live(i)
  BY DEF Poller, PollerStep, ScanAndProcess, CheckStep, PollRequest, RecordResult, DeleteTask,
         NotifyCoordinator, ScheduleNextPoll, ReleaseTask, CallOK, CallFails, Live,
         storeVars, clockVars
<1>2. \A j \in Others(i) : poll'[j] = poll[j] /\ notifyCh'[j] = notifyCh[j]
  BY <1>t DEF Others, Poller, PollerStep, ScanAndProcess, CheckStep, PollRequest, RecordResult,
         DeleteTask, NotifyCoordinator, ScheduleNextPoll, ReleaseTask, SetPoll, PollGoto, Notify
<1>3. CASE ScanAndProcess(i)
  <2>1. PICK due \in SUBSET Steps :
          /\ AcquirePollTasks(due)
          /\ poll' = [poll EXCEPT ![i] =
                        [s \in Steps |-> IF s \in due
                                           THEN [NoPoll EXCEPT !.pc = "check"]
                                           ELSE NoPoll]]
    BY <1>3 DEF ScanAndProcess
  <2>2. \A s \in Steps : /\ poll'[i][s].pc = "idle" \/ (poll'[i][s].pc = "check" /\ pollTask[s] = "free")
                         /\ pollTask'[s] = "absent" <=> pollTask[s] = "absent"
    BY <1>t, <2>1 DEF AcquirePollTasks, NoPoll
  <2> QED
    BY <1>1, <1>2, <1>3, <2>2 DEF ScanAndProcess, ScanMove, CallOK
<1>4. ASSUME NEW s \in Steps,
             \/ CheckStep(i, s) \/ PollRequest(i, s) \/ RecordResult(i, s) \/ DeleteTask(i, s)
             \/ NotifyCoordinator(i, s) \/ ScheduleNextPoll(i, s) \/ ReleaseTask(i, s)
      PROVE  PollMove(i, s) /\ PollFrame(i, s)
  <2>1. \A t : SetPoll(i, s, t) => poll'[i][s] = t /\ \A r \in Steps : r # s => poll'[i][r] = poll[i][r]
    BY <1>t DEF SetPoll
  <2>2. \A p : PollGoto(i, s, p) => /\ poll'[i][s] = [poll[i][s] EXCEPT !.pc = p]
                                    /\ \A r \in Steps : r # s => poll'[i][r] = poll[i][r]
    BY <1>t DEF PollGoto
  <2>3. PollFrame(i, s)
    BY <1>t, <1>4, <2>1, <2>2
       DEF PollFrame, CheckStep, PollRequest, RecordResult, DeleteTask,
         NotifyCoordinator, ScheduleNextPoll, ReleaseTask, DeletePollTask, ReleasePollTask, storeVars
  <2>4. poll[i][s] \in PollTask
    BY <1>t
  <2>5. ASSUME NEW p, PollGoto(i, s, p)
        PROVE  poll'[i][s].pc = p
    <3>1. poll'[i][s] = [poll[i][s] EXCEPT !.pc = p]
      BY <2>2, <2>5
    <3> QED
      BY <2>4, <3>1 DEF PollTask
  <2> USE <1>t, <2>1, <2>4, <2>5, RowFields DEF PollMove, CallOK, CallFails
  <2>6. CheckStep(i, s) => PollMove(i, s)
    BY DEF CheckStep, NoPoll, GetStep
  <2>7. PollRequest(i, s) => PollMove(i, s)
    BY DEF PollRequest, NoPoll, storeVars
  <2>8. RecordResult(i, s) => PollMove(i, s)
    BY DEF RecordResult
  <2>9. DeleteTask(i, s) => PollMove(i, s)
    BY DEF DeleteTask
  <2>10. NotifyCoordinator(i, s) => PollMove(i, s)
    BY DEF NotifyCoordinator, Notify, NoPoll, TypeOK, PollerTypeOK, PollTask, storeVars
  <2>11. ScheduleNextPoll(i, s) => PollMove(i, s)
    BY DEF ScheduleNextPoll
  <2>12. ReleaseTask(i, s) => PollMove(i, s)
    BY DEF ReleaseTask, NoPoll
  <2> QED
    BY <1>4, <2>3, <2>6, <2>7, <2>8, <2>9, <2>10, <2>11, <2>12
<1> QED
  BY <1>1, <1>2, <1>3, <1>4 DEF Poller, PollerStep

(* Coordinator.Submit: the transaction enters the queue, or nothing happens. *)
Queues(i) ==
    /\ UNCHANGED loc
    /\ \/ UNCHANGED pc
       \/ /\ pc[i] = "idle" /\ pc'[i] = "queued"
          /\ \A j \in Others(i) : pc'[j] = pc[j]

(* The recovery scan and the timeout scanner of an engine. *)
LEMMA ScannerMoves ==
    ASSUME TypeOK, NEW i \in Instances, Recovery(i) \/ TimeoutScan(i)
    PROVE  /\ Queues(i) /\ Live(i)
           /\ SameVerdict \/ (scan[i].pc = "cas" /\ Swapped(scan[i].status, "compensating", "other"))
           /\ UNCHANGED <<step, pollTask, remote, phase, notifyCh, poll, client>>
           /\ \A j \in Others(i) : recovery'[j] = recovery[j] /\ scan'[j] = scan[j]
<1>1. Live(i) /\ UNCHANGED <<step, pollTask, remote, phase, notifyCh, poll, client>>
  BY DEF Recovery, RecoveryStep, RecoveryList, RecoverySubmit, RecoveryRelease, TimeoutScan,
         TimeoutStep, TimeoutList, TimeoutCAS, TimeoutSubmit, TimeoutRelease, CallOK, CallFails,
         Live, storeVars, clockVars, execVars, pollerVars
<1>2. Queues(i)
  BY DEF Recovery, RecoveryStep, RecoveryList, RecoverySubmit, RecoveryRelease, TimeoutScan,
         TimeoutStep, TimeoutList, TimeoutCAS, TimeoutSubmit, TimeoutRelease, SubmitAccepts,
         SubmitDeclines, Goto, Queues, Others, execVars, TypeOK, ExecutorTypeOK
<1>3. \A j \in Others(i) : recovery'[j] = recovery[j] /\ scan'[j] = scan[j]
  BY DEF Recovery, RecoveryStep, RecoveryList, RecoverySubmit, RecoveryRelease, TimeoutScan,
         TimeoutStep, TimeoutList, TimeoutCAS, TimeoutSubmit, TimeoutRelease, Others,
         TypeOK, CoordinatorTypeOK
<1>4. tx \in TxRow
  BY DEF TypeOK, StoreTypeOK
<1>5. SameVerdict \/ (scan[i].pc = "cas" /\ Swapped(scan[i].status, "compensating", "other"))
  BY <1>4, TxFields
     DEF Recovery, RecoveryStep, RecoveryList, RecoverySubmit, RecoveryRelease, TimeoutScan,
         TimeoutStep, TimeoutList, TimeoutCAS, TimeoutSubmit, TimeoutRelease, storeVars,
         ListRecoverableTransactions, ListTimedOutTransactions
<1> QED
  BY <1>1, <1>2, <1>3, <1>5

(* The process of an engine ends, in the middle of its work if it crashes. *)
Ends(i) ==
    /\ pc[i] \in {"idle", "queued"} \/ CanCrash
    /\ Gone(i)' /\ Live(i) /\ phase'[i] = "dead"
    /\ UNCHANGED <<tx, step, pollTask, remote>>
    /\ \A j \in Others(i) : Untouched(j)

LEMMA ForgetMoves ==
    ASSUME TypeOK, NEW i \in Instances, Stopped(i) \/ Crash(i)
    PROVE  Ends(i)
<1>f. Forget(i) /\ (pc[i] \in {"idle", "queued"} \/ CanCrash)
  BY DEF Stopped, Crash
<1>l. Live(i)
  BY DEF Stopped, Crash, Live
<1>1. Gone(i)' /\ phase'[i] = "dead"
  BY <1>f DEF TypeOK, StoreTypeOK, ExecutorTypeOK, PollerTypeOK, CoordinatorTypeOK, Forget, Leave,
         UnregisterNotify, Gone, Live, NoPoll, NoScan
<1>2. UNCHANGED <<tx, step, pollTask, remote>>
  BY <1>f DEF Forget, storeVars
<1>3. \A j \in Others(i) : Untouched(j)
  BY <1>f DEF TypeOK, StoreTypeOK, ExecutorTypeOK, PollerTypeOK, CoordinatorTypeOK, Forget, Leave,
         UnregisterNotify, Untouched, Others
<1> QED
  BY <1>f, <1>l, <1>1, <1>2, <1>3 DEF Ends

(* Engine.Submit creates the transaction. *)
Born ==
    /\ tx.status = "none" /\ tx'.status = "pending"
    /\ step' = [s \in Steps |-> NewStep]
    /\ UNCHANGED <<pollTask, remote, phase, pc, loc, notifyCh, poll, scanVars>>

(***************************************************************************)
(* Nothing but the participants, the clocks, the caller or the phase of an *)
(* engine moves.                                                           *)
(***************************************************************************)
Calm ==
    /\ SameVerdict
    /\ UNCHANGED <<step, pc, loc, notifyCh, poll, scan>>
    /\ \A i \in Instances : phase'[i] = "up" => phase[i] = "up" \/ ~Live(i)
    /\ \A s \in Steps : /\ pollTask'[s] = "absent" <=> pollTask[s] = "absent"
                        /\ \/ remote'[s] = remote[s]
                           \/ remote[s] = "inflight" /\ remote'[s] = Applied(s)
                           \/ remote[s] = "accepted" /\ remote'[s] \in {"done", "failed"}

LEMMA CalmMoves ==
    ASSUME TypeOK,
           \/ \E i \in Instances : \/ Start(i) \/ Stop(i) \/ QueryAnswered(i)
                                   \/ QueryFails(i) \/ WaitCancelled(i)
           \/ \E s \in Steps : Participant(s)
           \/ LeaseClock \/ PollLockClock \/ DeadlineClock \/ UNCHANGED vars
    PROVE  Calm
<1>t. tx \in TxRow /\ remote \in [Steps -> Effect]
      /\ pollTask \in [Steps -> {"absent", "free", "locked"}]
      /\ phase \in [Instances -> {"down", "up", "stopping", "dead"}]
  BY DEF TypeOK, StoreTypeOK, ExecutorTypeOK
<1>1. ASSUME NEW i \in Instances,
             Start(i) \/ Stop(i) \/ QueryAnswered(i) \/ QueryFails(i) \/ WaitCancelled(i)
      PROVE  Calm
  BY <1>t, <1>1 DEF SameVerdict, Live, Start, Stop, QueryAnswered, QueryFails, WaitCancelled, Calm, storeVars, clockVars,
         execVars, pollerVars, scanVars
<1>2. ASSUME NEW s \in Steps, Participant(s)
      PROVE  Calm
  BY <1>t, <1>2 DEF SameVerdict, Participant, RequestArrives, JobEnds, Calm, storeVars, clockVars, pollerVars, scanVars
<1>3. CASE LeaseClock
  <2>1. SameVerdict
    BY <1>t, <1>3 DEF LeaseClock, LeaseExpires, SameVerdict, TxRow
  <2> QED
    BY <1>3, <2>1 DEF LeaseClock, LeaseExpires, Calm, execVars, pollerVars, scanVars
<1>4. CASE PollLockClock
  BY <1>t, <1>4 DEF SameVerdict, PollLockClock, PollLockExpires, Calm, execVars, pollerVars, scanVars
<1>5. CASE DeadlineClock \/ UNCHANGED vars
  BY <1>5 DEF SameVerdict, DeadlineClock, DeadlinePasses, Calm, vars, storeVars, clockVars, execVars, pollerVars, scanVars
<1> QED
  BY <1>1, <1>2, <1>3, <1>4, <1>5

-----------------------------------------------------------------------------
(* One engine at a time *)

ExecutorActs(i) == ExecutorMove(i) /\ UNCHANGED <<tx, phase, notifyCh, poll, scan>>
LoopActs(i)     == LoopMove(i) /\ UNCHANGED <<step, remote, pollTask, phase, notifyCh, poll, scan>>
WaitActs(i)     == WaitMove(i) /\ UNCHANGED <<tx, step, remote, pollTask, phase, poll, scan>>
UndoActs(i)     == UndoMove(i) /\ UNCHANGED <<remote, pollTask, phase, notifyCh, poll, scan>>
ScanActs(i)     == ScanMove(i) /\ UNCHANGED <<tx, remote, phase, pc, loc, scan>>
PollActs(i, s)  == /\ PollMove(i, s) /\ PollFrame(i, s)
                   /\ UNCHANGED <<tx, remote, phase, pc, loc, scan>>
QueueActs(i)    ==
    /\ Queues(i)
    /\ SameVerdict \/ (scan[i].pc = "cas" /\ Swapped(scan[i].status, "compensating", "other"))
    /\ UNCHANGED <<step, pollTask, remote, phase, notifyCh, poll>>

Acts(i) ==
    \/ ExecutorActs(i) \/ LoopActs(i) \/ WaitActs(i) \/ UndoActs(i) \/ ScanActs(i)
    \/ (\E s \in Steps : PollActs(i, s)) \/ QueueActs(i) \/ Born \/ Ends(i)

(* The other engines hold nothing while engine i acts. *)
Alone(i) == \A j \in Others(i) : Gone(j) /\ Gone(j)'

LEMMA StaysGone ==
    ASSUME NEW j, Gone(j), Untouched(j)
    PROVE  Gone(j)'
BY DEF Gone, Untouched

(* What an engine at work does, and that the others keep still. *)
LEMMA WorkActs ==
    ASSUME TypeOK, NEW i \in Instances, Works(i)
    PROVE  Acts(i) /\ Live(i) /\ UNCHANGED phase /\ \A j \in Others(i) : Untouched(j)
<1>1. CASE Driver(i)
  <2>1. DriverFrame(i) /\ Live(i)
    BY <1>1, DriverFrames
  <2>2. CASE \/ Claim(i) \/ LoadTransaction(i) \/ LoadSteps(i) \/ RenewAndDispatch(i)
             \/ StartRunning(i) \/ Succeed(i) \/ Advance(i) \/ TriggerCompensation(i)
             \/ AdvanceNotified(i) \/ Release(i) \/ Deactivate(i)
    <3>1. LoopMove(i) /\ UNCHANGED <<step, pollerVars>>
      BY <2>2, LoopMoves
    <3> QED
      BY <2>1, <3>1 DEF DriverFrame, Acts, LoopActs, Untouched, pollerVars, scanVars
  <2>3. CASE \/ Register(i) \/ Reread(i) \/ WaitTimesOut(i) \/ WaitStopped(i) \/ WaitNotified(i)
    <3>1. /\ WaitMove(i) /\ UNCHANGED <<tx, step>>
          /\ \A j \in Others(i) : notifyCh'[j] = notifyCh[j]
      BY <2>3, WaitMoves
    <3> QED
      BY <2>1, <3>1 DEF DriverFrame, Acts, WaitActs, Untouched, scanVars
  <2>4. CASE CompensateNext(i) \/ MarkSkipped(i) \/ FinishCompensation(i)
    <3>1. UndoMove(i) /\ UNCHANGED notifyCh
      BY <2>4, UndoMoves
    <3> QED
      BY <2>1, <3>1 DEF DriverFrame, Acts, UndoActs, Untouched, scanVars
  <2> QED
    BY <1>1, <2>2, <2>3, <2>4 DEF Driver, DriverStep
<1>2. CASE Executor(i)
  <2>1. /\ ExecutorMove(i) /\ Live(i)
        /\ UNCHANGED <<tx, phase, pollerVars, scanVars, client>>
        /\ \A j \in Others(i) : pc'[j] = pc[j] /\ loc'[j] = loc[j]
    BY <1>2, ExecutorMoves
  <2> QED
    BY <2>1 DEF Acts, ExecutorActs, Untouched, pollerVars, scanVars
<1>3. CASE Poller(i)
  <2>1. /\ ScanMove(i) \/ \E s \in Steps : PollMove(i, s) /\ PollFrame(i, s)
        /\ Live(i)
        /\ UNCHANGED <<tx, timedOut, expiries, phase, execVars, scanVars, client>>
        /\ \A j \in Others(i) : poll'[j] = poll[j] /\ notifyCh'[j] = notifyCh[j]
    BY <1>3, PollerMoves
  <2> QED
    BY <2>1 DEF Acts, ScanActs, PollActs, Untouched, execVars, scanVars
<1>4. CASE Recovery(i) \/ TimeoutScan(i)
  <2>1. /\ Queues(i) /\ Live(i)
        /\ SameVerdict \/ (scan[i].pc = "cas" /\ Swapped(scan[i].status, "compensating", "other"))
        /\ UNCHANGED <<step, pollTask, remote, phase, notifyCh, poll, client>>
        /\ \A j \in Others(i) : recovery'[j] = recovery[j] /\ scan'[j] = scan[j]
    BY <1>4, ScannerMoves
  <2>2. \A j \in Others(i) : Untouched(j)
    BY <2>1 DEF Queues, Untouched
  <2> QED
    BY <2>1, <2>2 DEF Acts, QueueActs
<1> QED
  BY <1>1, <1>2, <1>3, <1>4 DEF Works

(* An engine is started only when none runs. *)
LEMMA StartsAlone ==
    ASSUME MaxLive <= 1, NEW i \in Instances, Start(i), OneEngine
    PROVE  \A j \in Instances : ~Live(j)
<1> SUFFICES ASSUME NEW j \in Instances, Live(j)
             PROVE  FALSE
  OBVIOUS
<1>1. LiveInstances = {j}
  BY DEF LiveInstances, OneEngine
<1>2. Cardinality(LiveInstances) = 1
  BY <1>1, FS_Singleton
<1> QED
  BY <1>2, EngineAssumption DEF Start

LEMMA InitSolo == Init => Solo
BY DEF Init, StoreInit, ExecutorInit, PollerInit, CoordinatorInit, Solo, OneEngine,
       OnlyLiveWork, Gone, Live, NoPoll, NoScan

(* Alone, an engine that is up or was replaced keeps the others still. *)
LEMMA AloneStep ==
    ASSUME TypeOK, Solo, NEW i \in Instances, Live(i) \/ \A j \in Instances : ~Live(j),
           \A j \in Others(i) : Untouched(j), Live(i)' \/ Gone(i)'
    PROVE  Alone(i) /\ Solo'
<1>1. \A j \in Others(i) : ~Live(j)
  BY DEF Solo, OneEngine, Others
<1>2. \A j \in Others(i) : Gone(j)
  BY <1>1 DEF Solo, OnlyLiveWork, Others
<1>3. \A j \in Others(i) : Gone(j)' /\ ~Live(j)'
  BY <1>1, <1>2, StaysGone DEF Untouched, Live
<1>4. OneEngine'
  BY <1>3 DEF OneEngine, Others
<1>5. OnlyLiveWork'
  BY <1>3 DEF OnlyLiveWork, Others
<1> QED
  BY <1>2, <1>3, <1>4, <1>5 DEF Alone, Solo

(***************************************************************************)
(* Every step leaves drivers, pollers, rows and verdict alone or is one    *)
(* act of an engine while all others hold nothing.                         *)
(***************************************************************************)
LEMMA SoloStep ==
    ASSUME MaxLive <= 1, TypeOK, Solo, [Next]_vars
    PROVE  Solo' /\ (Calm \/ \E i \in Instances : Alone(i) /\ Acts(i))
<1>1. ASSUME NEW i \in Instances, Works(i)
      PROVE  Solo' /\ Alone(i) /\ Acts(i)
  <2>1. Acts(i) /\ Live(i) /\ UNCHANGED phase /\ \A j \in Others(i) : Untouched(j)
    BY <1>1, WorkActs
  <2>2. Live(i)'
    BY <2>1 DEF Live
  <2> QED
    BY <2>1, <2>2, AloneStep
<1>2. ASSUME NEW i \in Instances, Create(i) \/ Enqueue(i)
      PROVE  Solo' /\ Alone(i) /\ Acts(i)
  <2>1. Live(i) /\ UNCHANGED phase
    BY <1>2 DEF Create, Enqueue, clockVars
  <2>2. Live(i)'
    BY <2>1 DEF Live
  <2>3. tx \in TxRow
    BY DEF TypeOK, StoreTypeOK
  <2>4. CASE Create(i)
    <3>1. Born
      BY <2>3, <2>4 DEF Create, CreateTransactionWithSteps, Born, TxRow, clockVars, execVars, pollerVars, scanVars
    <3>2. \A j \in Others(i) : Untouched(j)
      BY <3>1 DEF Born, Untouched, scanVars
    <3> QED
      BY <2>1, <2>2, <3>1, <3>2, AloneStep DEF Acts
  <2>5. CASE Enqueue(i)
    <3>1. Queues(i)
      BY <2>5 DEF Enqueue, SubmitAccepts, SubmitDeclines, Goto, Queues, Others, TypeOK, ExecutorTypeOK
    <3>2. QueueActs(i)
      BY <2>5, <3>1 DEF Enqueue, QueueActs, SameVerdict, storeVars, clockVars, pollerVars
    <3>3. \A j \in Others(i) : Untouched(j)
      BY <2>5, <3>1 DEF Enqueue, Queues, Untouched, storeVars, clockVars, pollerVars, scanVars
    <3> QED
      BY <2>1, <2>2, <3>2, <3>3, AloneStep DEF Acts
  <2> QED
    BY <1>2, <2>4, <2>5
<1>3. ASSUME NEW i \in Instances, Stopped(i) \/ Crash(i)
      PROVE  Solo' /\ Alone(i) /\ Acts(i)
  <2>1. Live(i)
    BY <1>3 DEF Stopped, Crash, Live
  <2>2. Ends(i)
    BY <1>3, ForgetMoves
  <2> QED
    BY <2>1, <2>2, AloneStep DEF Ends, Acts
<1>4. ASSUME NEW i \in Instances, Start(i)
      PROVE  Solo' /\ Calm
  <2>1. \A j \in Instances : ~Live(j)
    BY <1>4, StartsAlone DEF Solo
  <2>2. \A j \in Others(i) : Untouched(j)
    BY <1>4 DEF Start, Untouched, Others, execVars, pollerVars, TypeOK, StoreTypeOK, CoordinatorTypeOK
  <2>3. Live(i)'
    BY <1>4 DEF Start, Live, TypeOK, StoreTypeOK
  <2> QED
    BY <1>4, <2>1, <2>2, <2>3, AloneStep, CalmMoves
<1>5. ASSUME NEW i \in Instances, Stop(i)
      PROVE  Solo' /\ Calm
  <2>1. \A j \in Others(i) : Untouched(j)
    BY <1>5 DEF Stop, Untouched, Others, execVars, pollerVars, scanVars, TypeOK, StoreTypeOK
  <2>2. Live(i) /\ Live(i)'
    BY <1>5 DEF Stop, Live, TypeOK, StoreTypeOK
  <2> QED
    BY <1>5, <2>1, <2>2, AloneStep, CalmMoves
<1>6. ASSUME \/ \E i \in Instances : QueryAnswered(i) \/ QueryFails(i) \/ WaitCancelled(i)
             \/ \E s \in Steps : Participant(s)
             \/ LeaseClock \/ PollLockClock \/ DeadlineClock \/ UNCHANGED vars
      PROVE  Solo' /\ Calm
  <2>1. UNCHANGED <<phase, pc, recovery, scan, notifyCh, poll>>
    BY <1>6 DEF QueryAnswered, QueryFails, WaitCancelled, Participant, RequestArrives, JobEnds,
           LeaseClock, LeaseExpires, PollLockClock, PollLockExpires, DeadlineClock,
           DeadlinePasses, vars, clockVars, execVars, pollerVars, scanVars
  <2>2. Solo'
    BY <2>1 DEF Solo, OneEngine, OnlyLiveWork, Gone, Live
  <2> QED
    BY <1>6, <2>2, CalmMoves
<1> QED
  BY <1>1, <1>2, <1>3, <1>4, <1>5, <1>6 DEF Next, Engine, Works

(* Some engine acts alone, or nothing but the environment moves. *)
Step == Calm \/ \E i \in Instances : Alone(i) /\ Acts(i)

(***************************************************************************)
(* Before Engine.Submit there is nothing to drive and nothing to poll.     *)
(***************************************************************************)
Unborn ==
    tx.status = "none" =>
       /\ \A i \in Instances : pc[i] \in {"idle", "queued"}
       /\ \A s \in Steps : /\ pollTask[s] = "absent"
                           /\ \A i \in Instances : poll[i][s].pc = "idle"

LEMMA UnbornStep ==
    ASSUME TypeOK, Unborn, Step
    PROVE  Unborn'
<1> SUFFICES ASSUME tx'.status = "none"
             PROVE  /\ \A j \in Instances : pc'[j] \in {"idle", "queued"}
                    /\ \A s \in Steps : /\ pollTask'[s] = "absent"
                                        /\ \A j \in Instances : poll'[j][s].pc = "idle"
  BY DEF Unborn
<1>1. CASE Calm
  BY <1>1 DEF Calm, SameVerdict, Unborn
<1>2. ASSUME NEW i \in Instances, Alone(i), Acts(i)
      PROVE  /\ \A j \in Instances : pc'[j] \in {"idle", "queued"}
             /\ \A s \in Steps : /\ pollTask'[s] = "absent"
                                 /\ \A j \in Instances : poll'[j][s].pc = "idle"
  <2>o. \A j \in Others(i) : pc'[j] = "idle" /\ \A s \in Steps : poll'[j][s].pc = "idle"
    BY <1>2 DEF Alone, Gone
  <2> SUFFICES /\ pc'[i] \in {"idle", "queued"}
               /\ \A s \in Steps : pollTask'[s] = "absent" /\ poll'[i][s].pc = "idle"
    BY <2>o DEF Others
  <2>1. CASE Ends(i)
    BY <2>1 DEF Ends, Gone, Unborn
  <2>2. CASE ~Ends(i)
    <3>1. tx.status = "none" /\ ~Born
      BY <1>2, <2>2 DEF Acts, ExecutorActs, LoopActs, LoopMove, WaitActs, UndoActs, UndoMove, ScanActs,
             PollActs, QueueActs, Born, Ends, SameVerdict, Swapped
    <3>2. /\ pc[i] \in {"idle", "queued"}
          /\ \A s \in Steps : pollTask[s] = "absent" /\ poll[i][s].pc = "idle"
      BY <3>1 DEF Unborn
    <3>3. ~ExecutorActs(i) /\ ~WaitActs(i) /\ ~UndoActs(i) /\ ~\E s \in Steps : PollActs(i, s)
      BY <3>2 DEF ExecutorActs, ExecutorMove, WaitActs, WaitMove, UndoActs, UndoMove, PollActs, PollMove
    <3>4. CASE LoopActs(i)
      BY <3>1, <3>2, <3>4 DEF LoopActs, LoopMove, Keeps, ActiveStatus
    <3>5. CASE ScanActs(i)
      BY <3>2, <3>5 DEF ScanActs, ScanMove
    <3>6. CASE QueueActs(i)
      BY <3>2, <3>6 DEF QueueActs, Queues
    <3> QED
      BY <1>2, <2>2, <3>1, <3>3, <3>4, <3>5, <3>6 DEF Acts
  <2> QED
    BY <2>1, <2>2
<1> QED
  BY <1>1, <1>2 DEF Step

-----------------------------------------------------------------------------
(* The verdict is final *)

Resting == {"idle", "queued", "release", "deactivate"}

(* Nobody is at work on a transaction that is decided. *)
Rest == tx.status \in {"succeeded", "failed"} => \A i \in Instances : pc[i] \in Resting

Kept == tx.status \in {"succeeded", "failed"} => SameVerdict

LEMMA RestStep ==
    ASSUME TypeOK, ScannersAreLawful, Rest, Step
    PROVE  Rest' /\ Kept
<1>1. CASE Calm
  BY <1>1 DEF Calm, SameVerdict, Rest, Kept
<1>2. ASSUME NEW i \in Instances, Alone(i), Acts(i)
      PROVE  Rest' /\ Kept
  <2>o. \A j \in Others(i) : pc'[j] = "idle"
    BY <1>2 DEF Alone, Gone
  <2> SUFFICES (tx'.status \in {"succeeded", "failed"} => pc'[i] \in Resting) /\ Kept
    BY <2>o DEF Others, Rest, Resting
  <2>r. tx.status \in {"succeeded", "failed"} => pc[i] \in Resting
    BY DEF Rest
  <2>1. CASE ExecutorActs(i)
    BY <2>1, <2>r DEF ExecutorActs, ExecutorMove, Resting, Kept, SameVerdict
  <2>2. CASE LoopActs(i)
    BY <2>2, <2>r DEF LoopActs, LoopMove, DispatchMove, Keeps, Forgets, Resting, Kept, SameVerdict,
           Swapped, ActiveStatus
  <2>3. CASE WaitActs(i)
    BY <2>3, <2>r DEF WaitActs, WaitMove, Resting, Kept, SameVerdict
  <2>4. CASE UndoActs(i)
    BY <2>4, <2>r DEF UndoActs, UndoMove, Forgets, Resting, Kept, SameVerdict
  <2>5. CASE ScanActs(i) \/ \E s \in Steps : PollActs(i, s)
    BY <2>5, <2>r DEF ScanActs, PollActs, Kept, SameVerdict
  <2>6. CASE QueueActs(i)
    BY <2>6, <2>r DEF QueueActs, Queues, Resting, Kept, SameVerdict, Swapped, ScannersAreLawful
  <2>7. CASE Born
    BY <2>7 DEF Born, Kept
  <2>8. CASE Ends(i)
    BY <2>8 DEF Ends, Gone, Resting, Kept, SameVerdict
  <2> QED
    BY <1>2, <2>1, <2>2, <2>3, <2>4, <2>5, <2>6, <2>7, <2>8 DEF Acts
<1> QED
  BY <1>1, <1>2 DEF Step

(* The invariant of every theorem below. *)
Base == TypeOK /\ Lawful /\ Solo /\ Unborn /\ Rest

LEMMA InitBase == Init => Base
<1>1. Init => Unborn /\ Rest
  BY DEF Init, StoreInit, ExecutorInit, PollerInit, Unborn, NoPoll, Rest
<1> QED
  BY <1>1, InitType, InitLawful, InitSolo DEF Base

LEMMA BaseStep ==
    ASSUME MaxLive <= 1, Base, [Next]_vars
    PROVE  Base' /\ Step /\ Transition /\ Kept
<1>1. TypeOK' /\ Lawful' /\ Solo' /\ Step /\ Transition
  BY TypeStep, LawfulStep, SoloStep DEF Base, Step
<1> QED
  BY <1>1, UnbornStep, RestStep DEF Base, Lawful

(***************************************************************************)
(* With one engine at a time, the verdict of a transaction and the reason  *)
(* written beside it never change again: no driver is between reading the  *)
(* rows and writing when executeCompensation or executeNextStep writes the *)
(* verdict, across crashes, stops and expired leases.                      *)
(***************************************************************************)
THEOREM VerdictFinalTheorem ==
    ASSUME MaxLive <= 1
    PROVE  Spec => VerdictIsFinal
<1>1. Base /\ [Next]_vars
        => /\ Base'
           /\ [tx.status \in {"succeeded", "failed"}
                 => tx'.status = tx.status /\ tx'.lastError = tx.lastError]_vars
  BY BaseStep DEF Kept, SameVerdict
<1> QED
  BY <1>1, InitBase, PTL DEF Spec, VerdictIsFinal

-----------------------------------------------------------------------------
(* Polls are counted once each *)

(* The count a poll works with is the row's, and leaves room for one more. *)
PollsCounted ==
    \A i \in Instances, s \in Steps :
       /\ poll[i][s].pc = "ask" => poll[i][s].count = step[s].pollCount
       /\ poll[i][s].pc = "reschedule" => step[s].pollCount < PollMaxTimes

PollInv == PollsBounded /\ PollsCounted

LEMMA PollInvStep ==
    ASSUME TypeOK, Unborn, PollInv, Step
    PROVE  PollInv'
<1>t. step \in [Steps -> StepRow] /\ \A s \in Steps : step[s].pollCount \in Nat
  BY DEF TypeOK, StoreTypeOK, StepRow
<1>1. CASE Calm
  BY <1>1 DEF Calm, PollInv, PollsBounded, PollsCounted
<1>2. ASSUME NEW i \in Instances, Alone(i), Acts(i)
      PROVE  PollInv'
  <2>o. \A j \in Others(i), s \in Steps : poll'[j][s].pc = "idle"
    BY <1>2 DEF Alone, Gone
  <2>i. \A s \in Steps : /\ step[s].pollCount <= PollMaxTimes
                         /\ poll[i][s].pc = "ask" => poll[i][s].count = step[s].pollCount
                         /\ poll[i][s].pc = "reschedule" => step[s].pollCount < PollMaxTimes
    BY DEF PollInv, PollsBounded, PollsCounted
  <2> SUFFICES ASSUME NEW s \in Steps
               PROVE  /\ step'[s].pollCount <= PollMaxTimes
                      /\ poll'[i][s].pc = "ask" => poll'[i][s].count = step'[s].pollCount
                      /\ poll'[i][s].pc = "reschedule" => step'[s].pollCount < PollMaxTimes
    BY <2>o DEF PollInv, PollsBounded, PollsCounted, Others
  <2>1. CASE ExecutorActs(i) \/ UndoActs(i)
    <3>1. \A r \in Steps : \A v : Written(r, v) => step'[s].pollCount = step[s].pollCount
      BY DEF Written
    <3>2. \A r \in Steps : RetryCounted(r) => step'[s].pollCount = step[s].pollCount
      BY DEF RetryCounted
    <3>3. loc[i].cur \in Steps
      BY CurType DEF TypeOK
    <3>4. step'[s].pollCount = step[s].pollCount
      BY <2>1, <3>1, <3>2, <3>3 DEF ExecutorActs, ExecutorMove, UndoActs, UndoMove
    <3> QED
      BY <2>1, <2>i, <3>4 DEF ExecutorActs, UndoActs
  <2>2. CASE LoopActs(i) \/ WaitActs(i) \/ QueueActs(i)
    BY <2>2, <2>i DEF LoopActs, WaitActs, QueueActs
  <2>3. CASE ScanActs(i)
    BY <2>3, <2>i DEF ScanActs, ScanMove
  <2>4. ASSUME NEW r \in Steps, PollActs(i, r)
        PROVE  /\ step'[s].pollCount <= PollMaxTimes
               /\ poll'[i][s].pc = "ask" => poll'[i][s].count = step'[s].pollCount
               /\ poll'[i][s].pc = "reschedule" => step'[s].pollCount < PollMaxTimes
    <3>1. CASE r # s
      BY <2>4, <3>1, <2>i DEF PollActs, PollFrame, PollMove, Written, PollCounted
    <3>2. CASE r = s
      BY <2>4, <3>2, <2>i, <1>t, PollerAssumption
         DEF PollActs, PollMove, Written, PollCounted, PollsExhausted
    <3> QED
      BY <3>1, <3>2
  <2>5. CASE Born
    BY <2>5, PollerAssumption DEF Born, Unborn, NewStep
  <2>6. CASE Ends(i)
    BY <2>6, <2>i DEF Ends, Gone
  <2> QED
    BY <1>2, <2>1, <2>2, <2>3, <2>4, <2>5, <2>6 DEF Acts
<1> QED
  BY <1>1, <1>2 DEF Step

(***************************************************************************)
(* With one engine at a time, processPollTask counts at most PollMaxTimes  *)
(* polls of a step: the count it compares is the one it then increments,   *)
(* although the row is read, compared and incremented in three calls and   *)
(* the process may crash or the poll lock expire between any two of them.  *)
(***************************************************************************)
THEOREM PollsBoundedTheorem ==
    ASSUME MaxLive <= 1
    PROVE  Spec => []PollsBounded
<1>1. Init => Base /\ PollInv
  BY InitBase, PollerAssumption
     DEF Init, StoreInit, PollerInit, PollInv, PollsBounded, PollsCounted, NewStep, NoPoll
<1>2. ASSUME Base, PollInv, [Next]_vars
      PROVE  (Base /\ PollInv)'
  <2>1. Base' /\ Step
    BY <1>2, BaseStep
  <2> QED
    BY <1>2, <2>1, PollInvStep DEF Base
<1>3. Base /\ PollInv /\ [Next]_vars => (Base /\ PollInv)'
  BY <1>2
<1>4. PollInv => PollsBounded
  BY DEF PollInv
<1> QED
  BY <1>1, <1>3, <1>4, PTL DEF Spec

-----------------------------------------------------------------------------
(* No wakeup is lost *)

(* A driver inside waitForAsyncStep has a channel registered. *)
Listening == \A i \in Instances : pc[i] \in {"reread", "waiting"} => notifyCh[i] # "absent"

WakeupInv == Listening /\ NoLostWakeup

LEMMA WakeupInvStep ==
    ASSUME TypeOK, WakeupInv, Step
    PROVE  WakeupInv'
<1>1. CASE Calm
  BY <1>1 DEF Calm, WakeupInv, Listening, NoLostWakeup
<1>2. ASSUME NEW i \in Instances, Alone(i), Acts(i)
      PROVE  WakeupInv'
  <2> DEFINE Woken == \/ notifyCh[i] \in {"success", "failure"}
                      \/ poll[i][loc[i].cur].pc \in {"delete", "notify"}
  <2>o. \A j \in Others(i) : pc'[j] = "idle"
    BY <1>2 DEF Alone, Gone
  <2>i. /\ pc[i] \in {"reread", "waiting"} => notifyCh[i] # "absent"
        /\ pc[i] = "waiting" /\ step[loc[i].cur].status \in {"succeeded", "failed"} => Woken
    BY DEF WakeupInv, Listening, NoLostWakeup
  <2> SUFFICES /\ pc'[i] \in {"reread", "waiting"} => notifyCh'[i] # "absent"
               /\ pc'[i] = "waiting" /\ step'[loc'[i].cur].status \in {"succeeded", "failed"} => Woken'
    BY <2>o DEF WakeupInv, Listening, NoLostWakeup, Others
  <2>t. loc[i].cur \in Steps
    BY CurType DEF TypeOK
  <2>1. CASE ExecutorActs(i)
    BY <2>1 DEF ExecutorActs, ExecutorMove, Keeps, Forgets, GoesOn
  <2>2. CASE LoopActs(i)
    BY <2>2 DEF LoopActs, LoopMove, DispatchMove, Takes, Begins, Keeps, Forgets
  <2>3. CASE WaitActs(i)
    BY <2>3, <2>i DEF WaitActs, WaitMove, Keeps, Forgets
  <2>4. CASE UndoActs(i)
    BY <2>4 DEF UndoActs, UndoMove, Keeps, Forgets
  <2>5. CASE ScanActs(i)
    BY <2>5, <2>i, <2>t DEF ScanActs, ScanMove
  <2>6. ASSUME NEW r \in Steps, PollActs(i, r)
        PROVE  /\ pc'[i] \in {"reread", "waiting"} => notifyCh'[i] # "absent"
               /\ pc'[i] = "waiting" /\ step'[loc'[i].cur].status \in {"succeeded", "failed"} => Woken'
    <3>1. UNCHANGED <<pc, loc>>
      BY <2>6 DEF PollActs
    <3>2. notifyCh[i] # "absent" => notifyCh'[i] # "absent"
      BY <2>6 DEF PollActs, PollMove
    <3>3. notifyCh[i] \in {"success", "failure"} => notifyCh'[i] \in {"success", "failure"}
      BY <2>6 DEF PollActs, PollMove
    <3>4. CASE r # loc[i].cur
      BY <2>6, <2>i, <2>t, <3>1, <3>2, <3>3, <3>4 DEF PollActs, PollMove, PollFrame, Written, PollCounted
    <3>5. CASE r = loc[i].cur
      BY <2>6, <2>i, <2>t, <3>1, <3>2, <3>3, <3>5 DEF PollActs, PollMove, Written, PollCounted
    <3> QED
      BY <3>4, <3>5
  <2>7. CASE QueueActs(i)
    BY <2>7, <2>i DEF QueueActs, Queues
  <2>8. CASE Born
    BY <2>8, <2>i, <2>t DEF Born, NewStep
  <2>9. CASE Ends(i)
    BY <2>9 DEF Ends, Gone
  <2> QED
    BY <1>2, <2>1, <2>2, <2>3, <2>4, <2>5, <2>6, <2>7, <2>8, <2>9 DEF Acts
<1> QED
  BY <1>1, <1>2 DEF Step

(***************************************************************************)
(* With one engine at a time, waitForAsyncStep never sleeps through a      *)
(* result: once the outcome of the step it waits for is recorded, a        *)
(* notification is in its channel or the poller is about to send one.      *)
(* Registering before the second read of the step is what this rests on.   *)
(***************************************************************************)
THEOREM WakeupTheorem ==
    ASSUME MaxLive <= 1
    PROVE  Spec => []NoLostWakeup
<1>1. Init => Base /\ WakeupInv
  BY InitBase DEF Init, ExecutorInit, WakeupInv, Listening, NoLostWakeup
<1>2. ASSUME Base, WakeupInv, [Next]_vars
      PROVE  (Base /\ WakeupInv)'
  <2>1. Base' /\ Step
    BY <1>2, BaseStep
  <2> QED
    BY <1>2, <2>1, WakeupInvStep DEF Base
<1>3. Base /\ WakeupInv /\ [Next]_vars => (Base /\ WakeupInv)'
  BY <1>2
<1>4. WakeupInv => NoLostWakeup
  BY DEF WakeupInv
<1> QED
  BY <1>1, <1>3, <1>4, PTL DEF Spec

-----------------------------------------------------------------------------
(* Rows are not ahead of the requests *)

Reached(s) == remote[s] \in {"accepted", "done", "failed", "undone"}
Past       == {"polling", "succeeded", "compensating", "compensated"}
Undoing    == {"compensate", "compCall", "compSave", "compFail"}

(***************************************************************************)
(* A step that its row, a remembered row or executeCompensation's list     *)
(* takes for executed has reached its participant.                         *)
(***************************************************************************)
ArrivedDriver(i) ==
    /\ pc[i] = "renew" => \A s \in Steps : loc[i].steps[s].status \in Past => Reached(s)
    /\ pc[i] \in Undoing => \A s \in loc[i].todo : Reached(s)
    /\ pc[i] \in {"createPoll", "markPolling", "markSucceeded", "compCall"} => Reached(loc[i].cur)

Arrived ==
    /\ \A s \in Steps : step[s].status \in Past => Reached(s)
    /\ \A i \in Instances : ArrivedDriver(i)

(* An effect, once there, is not forgotten. *)
LEMMA ReachedStays ==
    ASSUME TypeOK, Transition
    PROVE  \A s \in Steps : Reached(s) => Reached(s)'
BY DEF Transition, EffectStep, Forward, Reached, TypeOK, ExecutorTypeOK

LEMMA ArrivedStep ==
    ASSUME TypeOK, Lawful, Transition, Arrived, Step
    PROVE  Arrived'
<1>m. \A s \in Steps : Reached(s) => Reached(s)'
  BY ReachedStays
<1>1. CASE Calm
  <2>1. \A i \in Instances : loc[i].cur \in Steps /\ loc[i].todo \subseteq Steps
    BY DEF TypeOK, ExecutorTypeOK, Locals
  <2> QED
    BY <1>1, <1>m, <2>1 DEF Calm, Arrived, ArrivedDriver
<1>2. ASSUME NEW i \in Instances, Alone(i), Acts(i)
      PROVE  Arrived'
  <2>o. \A j \in Others(i) : pc'[j] = "idle"
    BY <1>2 DEF Alone, Gone
  <2>i. (\A s \in Steps : step[s].status \in Past => Reached(s)) /\ ArrivedDriver(i)
    BY DEF Arrived
  <2> SUFFICES (\A s \in Steps : step'[s].status \in Past => Reached(s)') /\ ArrivedDriver(i)'
    BY <2>o DEF Arrived, ArrivedDriver, Others, Undoing
  <2>t. loc[i] \in Locals /\ loc[i].cur \in Steps /\ loc[i].todo \subseteq Steps
        /\ remote \in [Steps -> Effect]
    BY DEF TypeOK, ExecutorTypeOK, Locals
  <2>r. UNCHANGED step => \A s \in Steps : step'[s].status \in Past => Reached(s)'
    BY <1>m, <2>i
  <2>w. ASSUME NEW s \in Steps, NEW v, Written(s, v), v \in Past => Reached(s)
        PROVE  \A r \in Steps : step'[r].status \in Past => Reached(r)'
    BY <1>m, <2>i, <2>w DEF Written
  <2>1. CASE ExecutorActs(i)
    <3>1. \A s \in Steps : step'[s].status \in Past => Reached(s)'
      <4>1. RetryCounted(loc[i].cur) => \A s \in Steps : step'[s].status = step[s].status
        BY DEF RetryCounted
      <4>2. pc[i] = "compSave" => Reached(loc[i].cur)
        BY DEF Lawful, DriverIsLawful, PlaceIsLawful, Reached
      <4>3. pc[i] = "compSave" \/ pc[i] = "markSucceeded" \/ pc[i] = "markPolling" =>
              Reached(loc[i].cur)
        BY <2>i, <4>2 DEF ArrivedDriver
      <4>4. \/ UNCHANGED step \/ RetryCounted(loc[i].cur)
            \/ Written(loc[i].cur, "running") \/ Written(loc[i].cur, "failed")
            \/ Written(loc[i].cur, "pending")
            \/ Reached(loc[i].cur) /\ \E v : Written(loc[i].cur, v)
        BY <2>1, <4>3 DEF ExecutorActs, ExecutorMove
      <4> QED
        BY <1>m, <2>i, <2>t, <2>r, <2>w, <4>1, <4>4 DEF Past
    <3>2. \A s \in Steps : Applied(s) \in {"accepted", "done", "failed", "undone"}
      BY <2>t DEF Applied, Effect
    <3>3. ArrivedDriver(i)'
      BY <1>m, <2>1, <2>i, <2>t, <3>2
         DEF ExecutorActs, ExecutorMove, ArrivedDriver, Keeps, Forgets, GoesOn, Undoing, Reached
    <3> QED
      BY <3>1, <3>3
  <2>2. CASE LoopActs(i)
    <3>1. UNCHANGED <<step, remote>>
      BY <2>2 DEF LoopActs
    <3>2. \/ pc[i] = "loadSteps" /\ pc'[i] = "renew" /\ loc'[i] = [loc[i] EXCEPT !.steps = step]
          \/ pc[i] = "renew" /\ Begins(i)
          \/ pc'[i] \notin Undoing \cup {"renew", "createPoll", "markPolling", "markSucceeded"}
      BY <2>2, DispatchFields DEF LoopActs, LoopMove, Keeps, Forgets, Undoing
    <3>3. CASE pc'[i] = "renew" /\ loc'[i] = [loc[i] EXCEPT !.steps = step]
      BY <1>m, <2>i, <2>t, <2>r, <3>1, <3>3 DEF ArrivedDriver, Locals, Undoing
    <3>4. CASE pc[i] = "renew" /\ Begins(i)
      <4>1. loc'[i].todo = ToCompensate(loc[i].steps) /\ pc'[i] = "compensate"
        BY <3>4, DispatchFields
      <4> QED
        BY <1>m, <2>i, <2>r, <3>1, <3>4, <4>1 DEF ArrivedDriver, Undoing, ToCompensate, StepsIn, Past
    <3>5. CASE pc'[i] \notin Undoing \cup {"renew", "createPoll", "markPolling", "markSucceeded"}
      BY <2>r, <3>1, <3>5 DEF ArrivedDriver, Undoing
    <3> QED
      BY <2>r, <3>1, <3>2, <3>3, <3>4, <3>5
  <2>3. CASE WaitActs(i)
    BY <2>3, <2>r DEF WaitActs, WaitMove, ArrivedDriver, Keeps, Forgets, Undoing
  <2>4. CASE UndoActs(i)
    <3>1. \A s \in Steps : step'[s].status \in Past => Reached(s)'
      <4>1. \/ UNCHANGED step
            \/ \E s \in Steps : Written(s, "skipped") \/ (Reached(s) /\ Written(s, "compensating"))
        BY <2>4, <2>i DEF UndoActs, UndoMove, ArrivedDriver, Undoing, IsGreatest
      <4>2. "skipped" \notin Past
        BY DEF Past
      <4> QED
        BY <2>r, <2>w, <4>1, <4>2
    <3>2. CASE pc[i] = "compensate" /\ loc[i].todo # {}
      BY <1>m, <2>4, <2>i, <2>t, <3>1, <3>2
         DEF UndoActs, UndoMove, ArrivedDriver, Forgets, Undoing, IsGreatest, Locals
    <3>3. CASE pc[i] = "compensate" /\ loc[i].todo = {}
      BY <2>4, <2>t, <3>1, <3>3 DEF UndoActs, UndoMove, ArrivedDriver, Keeps, Undoing, IsGreatest, Locals
    <3>4. CASE pc[i] = "finish"
      BY <2>4, <3>1, <3>4 DEF UndoActs, UndoMove, ArrivedDriver, Forgets, Undoing
    <3> QED
      BY <2>4, <3>1, <3>2, <3>3, <3>4 DEF UndoActs, UndoMove
  <2>5. CASE ScanActs(i)
    BY <1>m, <2>5, <2>i, <2>r, <2>t DEF ScanActs, ScanMove, ArrivedDriver
  <2>6. ASSUME NEW s \in Steps, PollActs(i, s)
        PROVE  (\A r \in Steps : step'[r].status \in Past => Reached(r)') /\ ArrivedDriver(i)'
    <3>1. poll[i][s].pc = "record" /\ poll[i][s].result = "success" => Reached(s)
      BY DEF Lawful, ScannersAreLawful, Settled, Reached
    <3>2. PollCounted(s) => \A r \in Steps : step'[r].status = step[r].status
      BY DEF PollCounted
    <3>3. \/ UNCHANGED step \/ PollCounted(s) \/ Written(s, "failed")
          \/ Reached(s) /\ Written(s, "succeeded")
      BY <2>6, <3>1 DEF PollActs, PollMove
    <3>4. \A r \in Steps : step'[r].status \in Past => Reached(r)'
      BY <1>m, <2>i, <2>r, <2>w, <3>2, <3>3 DEF Past
    <3> QED
      BY <1>m, <2>6, <2>i, <2>t, <3>4 DEF PollActs, ArrivedDriver
  <2>7. CASE QueueActs(i)
    BY <1>m, <2>7, <2>i, <2>r, <2>t DEF QueueActs, Queues, ArrivedDriver, Undoing
  <2>8. CASE Born
    BY <1>m, <2>8, <2>i, <2>t DEF Born, NewStep, Past, ArrivedDriver
  <2>9. CASE Ends(i)
    BY <2>9, <2>r DEF Ends, Gone, ArrivedDriver, Undoing
  <2> QED
    BY <1>2, <2>1, <2>2, <2>3, <2>4, <2>5, <2>6, <2>7, <2>8, <2>9 DEF Acts
<1> QED
  BY <1>1, <1>2 DEF Step

-----------------------------------------------------------------------------
(* The forward phase *)

ForwardStatus == {"pending", "running", "polling", "succeeded", "failed"}

(* Only the last step begun may have failed or be under way. *)
InOrder ==
    \A s \in Steps :
       /\ step[s].status \in ForwardStatus
       /\ step[s].status # "pending" => \A r \in 1..(s - 1) : step[r].status = "succeeded"

Calling == {"call", "httpError", "afterRetry", "markSucceeded", "createPoll", "markPolling"}

Forwarding(i) ==
    \/ pc[i] \in Calling \cup {"markRunning", "register", "reread", "waiting", "advance",
                               "advanceNotified", "casSucceeded"}
    \/ pc[i] \in {"loadSteps", "renew"} /\ loc[i].status = "running"

(***************************************************************************)
(* For engine i there is nothing taken back yet: the transaction was not   *)
(* given up, or it was while the driver is still busy with a forward step. *)
(***************************************************************************)
Unturned(i) == tx.status \in {"none", "pending", "running"} \/ Forwarding(i)

(* A poll whose result is not written yet. *)
Asking(i, s) == poll[i][s].pc \in {"ask", "record"}

Ahead(i) ==
    Unturned(i) => /\ InOrder
                   /\ \A s \in Steps : remote[s] # "undone"
                   /\ \A j \in Instances, s \in Steps :
                         Asking(j, s) => step[s].status = "polling"

(* The rows a driver remembers are the rows there are, but for poll results. *)
Agree(i) ==
    \A s \in Steps :
       \/ step[s].status = loc[i].steps[s].status
       \/ /\ loc[i].steps[s].status = "polling"
          /\ step[s].status \in {"succeeded", "failed"}

ForwardDriver(i) ==
    /\ pc[i] \in Calling => step[loc[i].cur].status = "running"
    /\ pc[i] = "markRunning" => /\ step[loc[i].cur].status \in {"pending", "running"}
                                /\ \A r \in 1..(loc[i].cur - 1) : step[r].status = "succeeded"
    /\ pc[i] = "renew" /\ loc[i].status = "running" => Agree(i)
    /\ pc[i] = "casSucceeded" => \A s \in Steps : step[s].status = "succeeded"

Recorded(i) ==
    tx.status = "succeeded" =>
       \A s \in Steps : step[s].status = "succeeded" /\ ~Asking(i, s)

ForwardInv ==
    /\ SuccessIsRecorded
    /\ \A i \in Instances : Ahead(i) /\ ForwardDriver(i) /\ Recorded(i)

(* The compensation phase is never left for the forward one. *)
LEMMA Turns ==
    ASSUME TypeOK, Transition, NEW i \in Instances, Acts(i), Unturned(i)'
    PROVE  Unturned(i)
<1>t. loc[i] \in Locals
  BY DEF TypeOK, ExecutorTypeOK
<1>1. CASE tx'.status \in {"none", "pending", "running"}
  BY <1>1 DEF Transition, StatusStep, KeepsStatus, Unturned
<1>2. CASE Forwarding(i)'
  <2> SUFFICES Forwarding(i) \/ tx.status = "running"
    BY DEF Unturned
  <2>1. CASE ExecutorActs(i)
    BY <1>2, <2>1 DEF ExecutorActs, ExecutorMove, Forwarding, Calling, Keeps, Forgets, GoesOn
  <2>2. CASE LoopActs(i)
    <3>1. CASE pc[i] = "renew"
      BY <1>2, <2>2, <3>1, DispatchFields
         DEF LoopActs, LoopMove, DispatchMove, Forwarding, Calling, Forgets
    <3>2. CASE pc[i] = "load" \/ pc[i] = "loadSteps"
      BY <1>t, <1>2, <2>2, <3>2 DEF LoopActs, LoopMove, Forwarding, Calling, Forgets, Locals
    <3>3. CASE pc[i] \notin {"renew", "load", "loadSteps"}
      BY <1>2, <2>2, <3>3 DEF LoopActs, LoopMove, Forwarding, Calling, Keeps, Forgets
    <3> QED
      BY <3>1, <3>2, <3>3
  <2>3. CASE WaitActs(i)
    BY <2>3 DEF WaitActs, WaitMove, Forwarding
  <2>4. CASE UndoActs(i)
    BY <1>2, <2>4 DEF UndoActs, UndoMove, Forwarding, Calling, Keeps, Forgets
  <2>5. CASE ScanActs(i) \/ (\E s \in Steps : PollActs(i, s)) \/ Born
    BY <1>2, <2>5 DEF ScanActs, PollActs, Born, Forwarding
  <2>6. CASE QueueActs(i)
    BY <1>2, <2>6 DEF QueueActs, Queues, Forwarding, Calling
  <2>7. CASE Ends(i)
    BY <1>2, <2>7 DEF Ends, Gone, Forwarding, Calling
  <2> QED
    BY <2>1, <2>2, <2>3, <2>4, <2>5, <2>6, <2>7 DEF Acts
<1> QED
  BY <1>1, <1>2 DEF Unturned

(* A step in hand, all before it succeeded, may be given any forward status. *)
LEMMA WriteInOrder ==
    ASSUME InOrder, NEW s \in Steps, NEW v \in ForwardStatus, Written(s, v),
           step[s].status \in {"pending", "running", "polling"},
           \A r \in 1..(s - 1) : step[r].status = "succeeded"
    PROVE  InOrder'
<1> SUFFICES ASSUME NEW t \in Steps
             PROVE  /\ step'[t].status \in ForwardStatus
                    /\ step'[t].status # "pending" => \A r \in 1..(t - 1) : step'[r].status = "succeeded"
  BY DEF InOrder
<1>n. s \in Nat /\ t \in Nat /\ 1..(t - 1) \subseteq Steps /\ 1..(s - 1) \subseteq Steps
  BY StoreAssumption DEF Steps
<1>1. CASE t = s
  BY <1>1, <1>n DEF Written
<1>2. CASE t < s
  BY <1>2, <1>n DEF Written, InOrder
<1>3. CASE t > s
  <2>1. s \in 1..(t - 1)
    BY <1>3, <1>n DEF Steps
  <2>2. step[t].status = "pending"
    BY <2>1 DEF InOrder
  <2> QED
    BY <1>3, <2>2, <1>n DEF Written, ForwardStatus
<1> QED
  BY <1>1, <1>2, <1>3, <1>n

(* Counting leaves the order alone. *)
LEMMA SameStatusInOrder ==
    ASSUME InOrder, \A s \in Steps : step'[s].status = step[s].status
    PROVE  InOrder'
<1>1. \A s \in Steps : 1..(s - 1) \subseteq Steps
  BY StoreAssumption DEF Steps
<1> QED
  BY <1>1 DEF InOrder

(* What ForwardInv says of the engine that acts. *)
ForwardOf(i) ==
    /\ Unturned(i) => /\ InOrder
                      /\ \A s \in Steps : remote[s] # "undone"
                      /\ \A s \in Steps : Asking(i, s) => step[s].status = "polling"
    /\ ForwardDriver(i)
    /\ Recorded(i)

(* The engines at rest, with nothing in hand, add nothing to it. *)
LEMMA ForwardOthers ==
    ASSUME NEW i \in Instances, Alone(i)
    PROVE  /\ ForwardInv => ForwardOf(i)
           /\ ForwardOf(i)' => ForwardInv'
<1>1. ForwardInv => ForwardOf(i)
  BY DEF ForwardInv, Ahead, ForwardOf
<1>2. ASSUME ForwardOf(i)', NEW j \in Instances
      PROVE  (Ahead(j) /\ ForwardDriver(j) /\ Recorded(j))'
  <2>1. \A k \in Others(i) : pc'[k] = "idle" /\ \A s \in Steps : ~Asking(k, s)'
    BY DEF Alone, Gone, Asking
  <2>2. \A k \in Others(i) : Unturned(k)' => Unturned(i)'
    BY <2>1 DEF Unturned, Forwarding, Calling
  <2>3. Ahead(j)'
    BY <1>2, <2>1, <2>2 DEF Ahead, ForwardOf, Others
  <2>4. ForwardDriver(j)'
    BY <1>2, <2>1 DEF ForwardDriver, ForwardOf, Others, Calling
  <2>5. Recorded(j)'
    BY <1>2, <2>1 DEF Recorded, ForwardOf, Others
  <2> QED
    BY <2>3, <2>4, <2>5
<1>3. Recorded(i)' => SuccessIsRecorded'
  BY DEF Recorded, SuccessIsRecorded
<1> QED
  BY <1>1, <1>2, <1>3 DEF ForwardInv, ForwardOf

(* executeNextStep picks a step all before which have succeeded. *)
LEMMA PickInOrder ==
    ASSUME TypeOK, InOrder, NEW i \in Instances, Agree(i), NEW s \in Steps,
           StepsIn(loc[i].steps, {"failed"}) = {},
           IsCurrentStep(s, loc[i].steps),
           loc[i].steps[s].status \in {"pending", "running"}
    PROVE  /\ step[s].status \in {"pending", "running"}
           /\ \A r \in 1..(s - 1) : step[r].status = "succeeded"
<1> DEFINE rows == loc[i].steps
<1>n. \A r \in 1..(s - 1) : r \in Steps /\ r < s
  BY StoreAssumption DEF Steps
<1>1. step[s].status = rows[s].status
  BY DEF Agree
<1>2. CASE rows[s].status = "running"
  BY <1>1, <1>2 DEF InOrder
<1>3. CASE rows[s].status = "pending"
  <2>1. InProgress(rows) = {} /\ IsLeast(s, Pending(rows))
    BY <1>3 DEF IsCurrentStep, InProgress, StepsIn, IsGreatest
  <2>2. ASSUME NEW r \in 1..(s - 1)
        PROVE  step[r].status = "succeeded"
    <3>1. r \in Steps /\ ~(s <= r)
      BY <1>n, StoreAssumption DEF Steps
    <3>2. rows[r].status \notin {"pending", "running", "polling", "failed"}
      BY <2>1, <3>1 DEF IsLeast, Pending, InProgress, StepsIn
    <3> QED
      BY <3>1, <3>2 DEF Agree, InOrder, ForwardStatus
  <2> QED
    BY <1>1, <1>3, <2>2
<1> QED
  BY <1>2, <1>3

LEMMA ForwardExecutor ==
    ASSUME TypeOK, Lawful, Rest, NEW i \in Instances, ForwardOf(i), ExecutorActs(i)
    PROVE  ForwardOf(i)'
<1>t. loc[i].cur \in Steps /\ loc[i] \in Locals /\ remote \in [Steps -> Effect]
  BY CurType DEF TypeOK, ExecutorTypeOK
<1>u. UNCHANGED <<tx, poll>>
  BY DEF ExecutorActs
<1>1. CASE pc[i] \in {"compCall", "compSave", "compFail"}
  <2>1. tx'.status \in {"compensating", "failed"}
    BY <1>1, <1>u DEF Lawful, DriverIsLawful, PlaceIsLawful, GivenUp
  <2>2. pc'[i] \in {"compensate", "compSave", "compFail"}
    BY <1>1 DEF ExecutorActs, ExecutorMove, Keeps, GoesOn
  <2> QED
    BY <2>1, <2>2 DEF ForwardOf, ForwardDriver, Recorded, Unturned, Forwarding, Calling
<1>2. CASE pc[i] \in Calling \cup {"markRunning"}
  <2> DEFINE c == loc[i].cur
  <2>1. /\ InOrder
        /\ \A s \in Steps : remote[s] # "undone"
        /\ \A s \in Steps : Asking(i, s) => step[s].status = "polling"
    BY <1>2 DEF ForwardOf, Unturned, Forwarding
  <2>2. /\ step[c].status \in {"pending", "running"}
        /\ pc[i] # "markRunning" => step[c].status = "running"
        /\ \A r \in 1..(c - 1) : step[r].status = "succeeded"
    BY <1>t, <1>2, <2>1 DEF ForwardOf, ForwardDriver, InOrder
  <2>3. tx'.status # "succeeded"
    BY <1>2, <1>u DEF Rest, Resting, Calling
  <2>4. \/ \A s \in Steps : step'[s].status = step[s].status
        \/ \E v \in ForwardStatus : Written(c, v)
    BY <1>2 DEF ExecutorActs, ExecutorMove, Calling, ForwardStatus, RetryCounted
  <2>5. InOrder'
    BY <1>t, <2>1, <2>2, <2>4, WriteInOrder, SameStatusInOrder
  <2>6. \A s \in Steps : remote'[s] # "undone"
    <3>1. Applied(c) # "undone" /\ Lost(c) # "undone"
      BY <1>t, <2>1 DEF Applied, Lost
    <3>2. UNCHANGED remote \/ remote' = [remote EXCEPT ![c] = Applied(c)] \/ remote' = [remote EXCEPT ![c] = Lost(c)]
      BY <1>2 DEF ExecutorActs, ExecutorMove, Calling
    <3> QED
      BY <1>t, <2>1, <3>1, <3>2
  <2>7. \A s \in Steps : Asking(i, s)' => step'[s].status = "polling"
    BY <1>u, <2>1, <2>2, <2>4 DEF Asking, Written
  <2>8. ForwardDriver(i)'
    <3>1. pc'[i] \in Calling \cup {"trigger", "load", "advance", "register"}
      BY <1>2 DEF ExecutorActs, ExecutorMove, Calling, Keeps, Forgets
    <3>2. ASSUME pc'[i] \in Calling
          PROVE  loc'[i].cur = c /\ step'[c].status = "running"
      BY <1>t, <1>2, <2>2, <3>2
         DEF ExecutorActs, ExecutorMove, Calling, Keeps, Forgets, Written, RetryCounted, Locals
    <3> QED
      BY <3>1, <3>2 DEF ForwardDriver, Calling
  <2> QED
    BY <2>3, <2>5, <2>6, <2>7, <2>8 DEF ForwardOf, Recorded
<1> QED
  BY <1>1, <1>2 DEF ExecutorActs, ExecutorMove, Calling

LEMMA ForwardLoop ==
    ASSUME TypeOK, Transition, NEW i \in Instances, ForwardOf(i), LoopActs(i)
    PROVE  ForwardOf(i)'
<1>t. loc[i] \in Locals
  BY DEF TypeOK, ExecutorTypeOK
<1>u. UNCHANGED <<step, remote, poll>>
  BY DEF LoopActs
<1>1. Unturned(i)' => Unturned(i)
  BY Turns DEF Acts
<1>2. Unturned(i)' => /\ InOrder'
                      /\ \A s \in Steps : remote'[s] # "undone"
                      /\ \A s \in Steps : Asking(i, s)' => step'[s].status = "polling"
  BY <1>u, <1>1 DEF ForwardOf, InOrder, Asking
<1>3. Recorded(i)'
  <2>1. CASE SameVerdict
    BY <1>u, <2>1 DEF SameVerdict, ForwardOf, Recorded, Asking
  <2>2. CASE ~SameVerdict /\ tx'.status = "succeeded"
    <3>1. pc[i] = "casSucceeded"
      BY <2>2 DEF LoopActs, LoopMove, Swapped
    <3>2. \A s \in Steps : step[s].status = "succeeded" /\ ~Asking(i, s)
      BY <3>1 DEF ForwardOf, ForwardDriver, Unturned, Forwarding
    <3> QED
      BY <1>u, <3>2 DEF Recorded, Asking
  <2>3. CASE tx'.status # "succeeded"
    BY <2>3 DEF Recorded
  <2> QED
    BY <2>1, <2>2, <2>3
<1>4. ForwardDriver(i)'
  <2>1. CASE pc[i] = "loadSteps"
    BY <1>t, <1>u, <2>1 DEF LoopActs, LoopMove, Forgets, ForwardDriver, Agree, Calling, Locals
  <2>2. CASE pc[i] = "renew" /\ loc[i].status = "running"
    <3>1. InOrder /\ Agree(i)
      BY <2>2 DEF ForwardOf, ForwardDriver, Unturned, Forwarding
    <3>2. \/ pc'[i] \in {"release", "trigger", "register"}
          \/ AllSucceeded(loc[i].steps) /\ pc'[i] = "casSucceeded"
          \/ /\ StepsIn(loc[i].steps, {"failed"}) = {}
             /\ \E s \in Steps : /\ IsCurrentStep(s, loc[i].steps)
                                 /\ loc[i].steps[s].status \in {"pending", "running"}
                                 /\ Takes(i, "markRunning", s)
      BY <2>2, DispatchFields DEF LoopActs, LoopMove, DispatchMove, Forgets
    <3>3. CASE pc'[i] \in {"release", "trigger", "register"}
      BY <3>3 DEF ForwardDriver, Calling
    <3>4. CASE AllSucceeded(loc[i].steps) /\ pc'[i] = "casSucceeded"
      <4>1. \A s \in Steps : loc[i].steps[s].status = "succeeded"
        BY <3>4 DEF AllSucceeded, StepsIn
      <4> QED
        BY <1>u, <3>1, <3>4, <4>1 DEF ForwardDriver, Agree, Calling
    <3>5. ASSUME NEW s \in Steps, StepsIn(loc[i].steps, {"failed"}) = {},
                 IsCurrentStep(s, loc[i].steps),
                 loc[i].steps[s].status \in {"pending", "running"},
                 Takes(i, "markRunning", s)
          PROVE  ForwardDriver(i)'
      BY <1>u, <3>1, <3>5, PickInOrder, DispatchFields DEF ForwardDriver, Calling
    <3> QED
      BY <3>2, <3>3, <3>4, <3>5
  <2>3. CASE pc[i] # "loadSteps" /\ ~(pc[i] = "renew" /\ loc[i].status = "running")
    <3>1. pc'[i] \notin Calling \cup {"markRunning", "renew", "casSucceeded"}
      BY <2>3, DispatchFields DEF LoopActs, LoopMove, DispatchMove, Keeps, Forgets, Calling
    <3> QED
      BY <3>1 DEF ForwardDriver
  <2> QED
    BY <2>1, <2>2, <2>3
<1> QED
  BY <1>2, <1>3, <1>4 DEF ForwardOf

LEMMA ForwardPoll ==
    ASSUME TypeOK, Transition, NEW i \in Instances, ForwardOf(i), NEW s \in Steps, PollActs(i, s)
    PROVE  ForwardOf(i)'
<1>t. loc[i].cur \in Steps /\ \A t \in Steps : 1..(t - 1) \subseteq Steps
  BY CurType, StoreAssumption DEF TypeOK, Steps
<1>u. UNCHANGED <<tx, remote, pc, loc>>
  BY DEF PollActs
<1>1. Unturned(i)' <=> Unturned(i)
  BY <1>u DEF Unturned, Forwarding
<1>2. \/ \A t \in Steps : step'[t].status = step[t].status
      \/ /\ poll[i][s].pc = "record" /\ poll'[i][s].pc = "delete"
         /\ Written(s, "succeeded") \/ Written(s, "failed")
  BY DEF PollActs, PollMove, PollCounted
<1>3. \A t \in Steps : Asking(i, t)' => Asking(i, t) \/ (t = s /\ step'[s].status = "polling")
  <2>1. \A t \in Steps : t # s => (Asking(i, t)' <=> Asking(i, t))
    BY DEF PollActs, PollFrame, Asking
  <2>2. Asking(i, s)' => Asking(i, s) \/ step'[s].status = "polling"
    BY DEF PollActs, PollMove, Asking
  <2> QED
    BY <2>1, <2>2
<1>4. CASE \A t \in Steps : step'[t].status = step[t].status
  <2>1. Unturned(i)' => /\ InOrder'
                        /\ \A t \in Steps : remote'[t] # "undone"
                        /\ \A t \in Steps : Asking(i, t)' => step'[t].status = "polling"
    BY <1>u, <1>1, <1>3, <1>4, SameStatusInOrder DEF ForwardOf
  <2>2. ForwardDriver(i)'
    BY <1>t, <1>u, <1>4 DEF ForwardOf, ForwardDriver, Agree
  <2>3. Recorded(i)'
    BY <1>u, <1>3, <1>4 DEF ForwardOf, Recorded
  <2> QED
    BY <2>1, <2>2, <2>3 DEF ForwardOf
<1>5. CASE /\ poll[i][s].pc = "record" /\ poll'[i][s].pc = "delete"
           /\ Written(s, "succeeded") \/ Written(s, "failed")
  <2>1. Asking(i, s) /\ ~Asking(i, s)'
    BY <1>5 DEF Asking
  <2>2. tx'.status # "succeeded"
    BY <1>u, <2>1 DEF ForwardOf, Recorded
  <2>3. CASE ~Unturned(i)
    BY <1>u, <1>1, <2>2, <2>3 DEF ForwardOf, Recorded, ForwardDriver, Unturned, Forwarding
  <2>4. CASE Unturned(i)
    <3>1. InOrder /\ step[s].status = "polling"
      BY <2>1, <2>4 DEF ForwardOf
    <3>2. InOrder'
      <4>1. \A r \in 1..(s - 1) : step[r].status = "succeeded"
        BY <3>1 DEF InOrder
      <4> QED
        BY <1>5, <3>1, <4>1, WriteInOrder DEF ForwardStatus
    <3>3. \A t \in Steps : Asking(i, t)' => step'[t].status = "polling"
      BY <1>3, <1>5, <2>1, <2>4 DEF ForwardOf, Written
    <3>4. ForwardDriver(i)'
      <4>1. \A t \in Steps : step[t].status # "polling" => step'[t].status = step[t].status
        BY <1>5, <3>1 DEF Written
      <4>2. Agree(i) => Agree(i)'
        BY <1>u, <1>5, <3>1, <4>1 DEF Agree, Written
      <4> QED
        BY <1>t, <1>u, <4>1, <4>2 DEF ForwardOf, ForwardDriver
    <3> QED
      BY <1>u, <2>2, <2>4, <3>2, <3>3, <3>4 DEF ForwardOf, Recorded
  <2> QED
    BY <2>3, <2>4
<1> QED
  BY <1>2, <1>4, <1>5

LEMMA ForwardInvStep ==
    ASSUME TypeOK, Lawful, Unborn, Rest, Transition, ForwardInv, Step
    PROVE  ForwardInv'
<1>1. CASE Calm
  <2>t. (\A i \in Instances : loc[i].cur \in Steps) /\ remote \in [Steps -> Effect]
        /\ \A t \in Steps : 1..(t - 1) \subseteq Steps
    BY CurType, StoreAssumption DEF TypeOK, ExecutorTypeOK, Steps
  <2>1. UNCHANGED <<step, pc, loc, poll>> /\ tx'.status = tx.status
    BY <1>1 DEF Calm, SameVerdict
  <2>2. \A s \in Steps : remote[s] # "undone" => remote'[s] # "undone"
    BY <1>1, <2>t DEF Calm, Applied
  <2>r. SuccessIsRecorded'
    BY <2>1 DEF ForwardInv, SuccessIsRecorded
  <2> SUFFICES ASSUME NEW i \in Instances
               PROVE  (Ahead(i) /\ ForwardDriver(i) /\ Recorded(i))'
    BY <2>r DEF ForwardInv
  <2>3. Ahead(i) /\ ForwardDriver(i) /\ Recorded(i)
    BY DEF ForwardInv
  <2>4. Ahead(i)'
    BY <2>1, <2>2, <2>3 DEF Ahead, Unturned, Forwarding, InOrder, Asking
  <2>5. ForwardDriver(i)'
    BY <2>1, <2>3 DEF ForwardDriver, Agree
  <2>6. Recorded(i)'
    BY <2>1, <2>3 DEF Recorded, Asking
  <2> QED
    BY <2>4, <2>5, <2>6
<1>2. ASSUME NEW i \in Instances, Alone(i), Acts(i)
      PROVE  ForwardInv'
  <2>f. ForwardOf(i)
    BY <1>2, ForwardOthers
  <2> SUFFICES ForwardOf(i)'
    BY <1>2, ForwardOthers
  <2>n. Unturned(i)' => Unturned(i)
    BY <1>2, Turns
  <2>1. CASE ExecutorActs(i)
    BY <2>f, <2>1, ForwardExecutor
  <2>2. CASE LoopActs(i)
    BY <2>f, <2>2, ForwardLoop
  <2>3. CASE WaitActs(i)
    <3>1. UNCHANGED <<tx, step, remote, poll>>
      BY <2>3 DEF WaitActs
    <3>2. pc'[i] \notin Calling \cup {"markRunning", "renew", "casSucceeded"}
      BY <2>3 DEF WaitActs, WaitMove, Keeps, Forgets, Calling
    <3> QED
      BY <2>f, <2>n, <3>1, <3>2 DEF ForwardOf, ForwardDriver, Recorded, InOrder, Asking
  <2>4. CASE UndoActs(i)
    <3>1. tx.status \in {"compensating", "failed"}
      BY <2>4 DEF UndoActs, UndoMove, Lawful, DriverIsLawful, PlaceIsLawful, GivenUp
    <3>2. tx'.status \in {"compensating", "failed"}
      BY <2>4, <3>1 DEF UndoActs, UndoMove, SameVerdict
    <3>3. pc'[i] \in {"compensate", "compCall", "finish", "release"}
      BY <2>4 DEF UndoActs, UndoMove, Keeps, Forgets
    <3> QED
      BY <3>2, <3>3 DEF ForwardOf, ForwardDriver, Recorded, Unturned, Forwarding, Calling
  <2>5. CASE ScanActs(i)
    <3>1. UNCHANGED <<tx, step, remote, pc, loc>> /\ \A s \in Steps : ~Asking(i, s)'
      BY <2>5 DEF ScanActs, ScanMove, Asking
    <3> QED
      BY <2>f, <2>n, <3>1 DEF ForwardOf, ForwardDriver, Recorded, InOrder, Agree
  <2>6. CASE \E s \in Steps : PollActs(i, s)
    BY <2>f, <2>6, ForwardPoll
  <2>7. CASE QueueActs(i)
    <3>1. UNCHANGED <<step, remote, poll, loc>>
      BY <2>7 DEF QueueActs, Queues
    <3>2. pc'[i] = pc[i] \/ pc'[i] = "queued"
      BY <2>7 DEF QueueActs, Queues
    <3>3. tx'.status = "succeeded" => tx.status = "succeeded"
      BY <2>7 DEF QueueActs, SameVerdict, Swapped
    <3> QED
      BY <2>f, <2>n, <3>1, <3>2, <3>3 DEF ForwardOf, ForwardDriver, Recorded, InOrder, Asking, Agree, Calling
  <2>8. CASE Born
    <3>1. \A s \in Steps : step'[s].status = "pending"
      BY <2>8 DEF Born, NewStep
    <3>2. pc'[i] \in {"idle", "queued"} /\ \A s \in Steps : ~Asking(i, s)'
      BY <2>8 DEF Born, Unborn, Asking
    <3>3. \A s \in Steps : remote'[s] # "undone"
      BY <2>f, <2>8 DEF Born, ForwardOf, Unturned
    <3>4. InOrder'
      BY <3>1 DEF InOrder, ForwardStatus
    <3>5. tx'.status # "succeeded"
      BY <2>8 DEF Born
    <3> QED
      BY <3>2, <3>3, <3>4, <3>5 DEF ForwardOf, ForwardDriver, Recorded, Calling
  <2>9. CASE Ends(i)
    <3>1. UNCHANGED <<tx, step, remote>> /\ pc'[i] = "idle" /\ \A s \in Steps : ~Asking(i, s)'
      BY <2>9 DEF Ends, Gone, Asking
    <3> QED
      BY <2>f, <2>n, <3>1 DEF ForwardOf, ForwardDriver, Recorded, InOrder, Calling
  <2> QED
    BY <1>2, <2>1, <2>2, <2>3, <2>4, <2>5, <2>6, <2>7, <2>8, <2>9 DEF Acts
<1> QED
  BY <1>1, <1>2 DEF Step

SoloInv == Base /\ Arrived /\ ForwardInv

LEMMA InitSoloInv == Init => SoloInv
<1> SUFFICES ASSUME Init
             PROVE  Arrived /\ ForwardInv
  BY InitBase DEF SoloInv
<1>1. /\ \A s \in Steps : step[s].status = "pending" /\ remote[s] = "none"
      /\ \A i \in Instances : pc[i] = "idle" /\ \A s \in Steps : poll[i][s].pc = "idle"
      /\ tx.status = "none"
  BY DEF Init, StoreInit, ExecutorInit, PollerInit, NewStep, NoPoll
<1>2. Arrived
  BY <1>1 DEF Arrived, ArrivedDriver, Past, Undoing
<1>3. InOrder
  BY <1>1 DEF InOrder, ForwardStatus
<1>4. ForwardInv
  BY <1>1, <1>3 DEF ForwardInv, SuccessIsRecorded, Ahead, ForwardDriver, Recorded, Asking, Calling
<1> QED
  BY <1>2, <1>4

LEMMA SoloInvStep ==
    ASSUME MaxLive <= 1, SoloInv, [Next]_vars
    PROVE  SoloInv' /\ Step /\ Transition
<1>1. Base' /\ Step /\ Transition
  BY BaseStep DEF SoloInv
<1> QED
  BY <1>1, ArrivedStep, ForwardInvStep DEF SoloInv, Base

(***************************************************************************)
(* With one engine at a time, a transaction is succeeded only while every  *)
(* row says so, although executeNextStep decides on rows read before the   *)
(* lease was renewed and a poll under way may still record its result.     *)
(***************************************************************************)
THEOREM RecordedTheorem ==
    ASSUME MaxLive <= 1
    PROVE  Spec => []SuccessIsRecorded
<1>1. SoloInv /\ [Next]_vars => SoloInv'
  BY SoloInvStep
<1>2. SoloInv => SuccessIsRecorded
  BY DEF SoloInv, ForwardInv
<1> QED
  BY <1>1, <1>2, InitSoloInv, PTL DEF Spec

(* A participant is first reached by the driver's request for the step. *)
LEMMA FirstReached ==
    ASSUME TypeOK, Arrived, Step, NEW s \in Steps, remote[s] = "none", remote'[s] # "none"
    PROVE  \E i \in Instances : pc[i] = "call" /\ loc[i].cur = s
<1>t. remote \in [Steps -> Effect]
  BY DEF TypeOK, ExecutorTypeOK
<1>1. ~Calm
  BY DEF Calm
<1>2. PICK i \in Instances : Alone(i) /\ Acts(i)
  BY <1>1 DEF Step
<1>3. ExecutorActs(i)
  BY <1>2 DEF Acts, LoopActs, WaitActs, UndoActs, ScanActs, PollActs, QueueActs, Born, Ends
<1>4. loc[i].cur \in Steps /\ pc[i] \in {"call", "compCall"}
  BY <1>3, CurType DEF ExecutorActs, ExecutorMove, TypeOK
<1>5. loc[i].cur = s
  BY <1>t, <1>3, <1>4 DEF ExecutorActs, ExecutorMove
<1>6. pc[i] # "compCall"
  BY <1>5 DEF Arrived, ArrivedDriver, Reached
<1> QED
  BY <1>4, <1>5, <1>6

(***************************************************************************)
(* With one engine at a time, a step reaches its participant only when all *)
(* earlier steps are done there: after any crash, stop or expired lease    *)
(* the next engine finds the step to go on with, and a poll result that    *)
(* comes in between never makes it skip one.                               *)
(***************************************************************************)
THEOREM ForwardOrderTheorem ==
    ASSUME MaxLive <= 1
    PROVE  Spec => ForwardInOrder
<1> DEFINE Ordered == \A s \in Steps :
                         remote[s] = "none" /\ remote'[s] # "none"
                            => \A r \in 1..(s - 1) : remote[r] = "done"
<1>1. ASSUME SoloInv, [Next]_vars
      PROVE  SoloInv' /\ Ordered
  <2>1. SoloInv' /\ Step
    BY <1>1, SoloInvStep
  <2> SUFFICES ASSUME NEW s \in Steps, remote[s] = "none", remote'[s] # "none",
                      NEW r \in 1..(s - 1)
               PROVE  remote[r] = "done"
    BY <2>1
  <2>2. PICK i \in Instances : pc[i] = "call" /\ loc[i].cur = s
    BY <1>1, <2>1, FirstReached DEF SoloInv, Base
  <2>3. step[s].status = "running" /\ InOrder /\ \A t \in Steps : remote[t] # "undone"
    BY <1>1, <2>2 DEF SoloInv, ForwardInv, ForwardDriver, Ahead, Unturned, Forwarding, Calling
  <2>4. r \in Steps
    BY StoreAssumption DEF Steps
  <2>5. step[r].status = "succeeded"
    BY <2>3 DEF InOrder
  <2>6. Settled(r)
    BY <1>1, <2>4, <2>5 DEF SoloInv, Base, Lawful, RowsAreTrue
  <2> QED
    BY <2>3, <2>4, <2>6 DEF Settled
<1>2. SoloInv /\ [Next]_vars => SoloInv' /\ [Ordered]_vars
  BY <1>1
<1> QED
  BY <1>2, InitSoloInv, PTL DEF Spec, ForwardInOrder

-----------------------------------------------------------------------------
(* Failed calls of the database, and engines that died *)

LEMMA ErrsStep ==
    ASSUME [Next]_vars
    PROVE  UNCHANGED errs \/ StoreError
<1> USE DEF CallOK, CallFails, DurableOK, DurableFails, ExecOK, ExecFails, storeVars, clockVars
<1>1. ASSUME NEW i \in Instances, Engine(i)
      PROVE  UNCHANGED errs \/ StoreError
  BY <1>1 DEF Engine, Create, Enqueue, Start, Stop, Stopped, Crash, Forget, QueryAnswered, QueryFails,
         WaitCancelled
<1>2. ASSUME NEW i \in Instances, Driver(i)
      PROVE  UNCHANGED errs \/ StoreError
  BY <1>2 DEF Driver, DriverStep, Claim, LoadTransaction, LoadSteps, RenewAndDispatch, StartRunning,
         Succeed, Advance, TriggerCompensation, Register, Reread, WaitTimesOut, WaitStopped,
         WaitNotified, AdvanceNotified, CompensateNext, MarkSkipped, FinishCompensation, Release,
         Deactivate
<1>3. ASSUME NEW i \in Instances, Executor(i)
      PROVE  UNCHANGED errs \/ StoreError
  BY <1>3 DEF Executor, ExecutorStep, MarkRunning, RequestNotBuilt, CallSucceeds, CallFailsHTTP,
         HandleHTTPError, AfterRetry, MarkSucceeded, SetUpPolling, MarkPolling, CallCompensation,
         SaveCompensated, SaveCompensationFailed
<1>4. ASSUME NEW i \in Instances, Poller(i)
      PROVE  UNCHANGED errs \/ StoreError
  BY <1>4 DEF Poller, PollerStep, ScanAndProcess, CheckStep, PollRequest, RecordResult, DeleteTask,
         NotifyCoordinator, ScheduleNextPoll, ReleaseTask
<1>5. ASSUME NEW i \in Instances, Recovery(i) \/ TimeoutScan(i)
      PROVE  UNCHANGED errs \/ StoreError
  BY <1>5 DEF Recovery, RecoveryStep, RecoveryList, RecoverySubmit, RecoveryRelease, TimeoutScan,
         TimeoutStep, TimeoutList, TimeoutCAS, TimeoutSubmit, TimeoutRelease
<1>6. CASE \/ \E s \in Steps : Participant(s)
           \/ LeaseClock \/ PollLockClock \/ DeadlineClock \/ UNCHANGED vars
  BY <1>6 DEF Participant, RequestArrives, JobEnds, LeaseClock, LeaseExpires, PollLockClock,
         PollLockExpires, DeadlineClock, DeadlinePasses, vars
<1> QED
  BY <1>1, <1>2, <1>3, <1>4, <1>5, <1>6 DEF Next

(* An engine that died stays dead, and at most one dies in a step. *)
LEMMA DeadStep ==
    ASSUME TypeOK, [Next]_vars
    PROVE  /\ \/ UNCHANGED Dead
              \/ \E i \in Instances \ Dead : Dead' = Dead \cup {i}
           /\ \A i \in Instances : Live(i) /\ phase'[i] = "dead" => i \notin Dead /\ i \in Dead'
<1>t. phase \in [Instances -> {"down", "up", "stopping", "dead"}]
  BY DEF TypeOK, StoreTypeOK
<1> DEFINE Goal == \/ UNCHANGED Dead
                   \/ \E i \in Instances \ Dead : Dead' = Dead \cup {i}
<1>0. \A i \in Instances : Live(i) /\ phase'[i] = "dead" => i \notin Dead /\ i \in Dead'
  BY DEF Live, Dead
<1>s. UNCHANGED phase => Goal
  BY DEF Dead
<1>f. ASSUME NEW i \in Instances, Live(i), Forget(i)
      PROVE  Goal
  <2>1. phase' = [phase EXCEPT ![i] = "dead"] /\ i \notin Dead
    BY <1>f DEF Forget, Live, Dead
  <2>2. Dead' = Dead \cup {i}
    BY <1>t, <2>1 DEF Dead
  <2> QED
    BY <2>1, <2>2
<1> HIDE DEF Goal
<1>1. ASSUME NEW i \in Instances, Works(i)
      PROVE  Goal
  BY <1>1, <1>s, WorkActs
<1>2. ASSUME NEW i \in Instances, Stopped(i) \/ Crash(i)
      PROVE  Goal
  BY <1>2, <1>f DEF Stopped, Crash, Live
<1>3. ASSUME NEW i \in Instances, Start(i) \/ Stop(i)
      PROVE  Goal
  <2>1. \E p \in {"up", "stopping"} : phase' = [phase EXCEPT ![i] = p] /\ phase[i] # "dead"
    BY <1>3 DEF Start, Stop
  <2>2. UNCHANGED Dead
    BY <1>t, <2>1 DEF Dead
  <2> QED
    BY <2>2 DEF Goal
<1>4. ASSUME \/ \E i \in Instances : \/ Create(i) \/ Enqueue(i) \/ QueryAnswered(i)
                                     \/ QueryFails(i) \/ WaitCancelled(i)
             \/ \E s \in Steps : Participant(s)
             \/ LeaseClock \/ PollLockClock \/ DeadlineClock \/ UNCHANGED vars
      PROVE  Goal
  <2>1. UNCHANGED phase
    BY <1>4 DEF Create, Enqueue, QueryAnswered, QueryFails, WaitCancelled, Participant,
           RequestArrives, JobEnds, LeaseClock, LeaseExpires, PollLockClock, PollLockExpires,
           DeadlineClock, DeadlinePasses, vars, clockVars
  <2> QED
    BY <2>1, <1>s
<1>5. Goal
  BY <1>1, <1>2, <1>3, <1>4 DEF Next, Engine, Works
<1> QED
  BY <1>0, <1>5 DEF Goal

(* What may cost a retry more than the limit is counted and not forgotten. *)
Grown ==
    /\ Lapses \in Nat /\ Lapses' \in Nat /\ Lapses <= Lapses'
    /\ StoreError => Lapses < Lapses'
    /\ \A i \in Instances : CanCrash /\ Live(i) /\ phase'[i] = "dead" => Lapses < Lapses'

LEMMA Sums ==
    ASSUME NEW x \in Nat, NEW y \in Nat
    PROVE  x + y \in Nat /\ (x > 0 => 0 < x + y)
OBVIOUS

LEMMA LapsesGrow ==
    ASSUME TypeOK, IsFiniteSet(Dead), [Next]_vars
    PROVE  IsFiniteSet(Dead)' /\ Grown
<1> DEFINE n == Cardinality(Dead)
<1>t. errs \in Nat /\ errs' \in Nat /\ errs <= errs' /\ (StoreError => errs' = errs + 1)
  <2>1. errs \in Nat
    BY StoreAssumption DEF TypeOK, StoreTypeOK
  <2> QED
    BY <2>1, ErrsStep DEF StoreError
<1>1. n \in Nat
  BY FS_CardinalityType
<1>2. /\ IsFiniteSet(Dead') /\ Cardinality(Dead') \in {n, n + 1}
      /\ Dead' # Dead => Cardinality(Dead') = n + 1
  <2>1. CASE UNCHANGED Dead
    BY <2>1
  <2>2. ASSUME NEW i \in Instances \ Dead, Dead' = Dead \cup {i}
        PROVE  IsFiniteSet(Dead') /\ Cardinality(Dead') = n + 1
    BY <2>2, FS_AddElement
  <2> QED
    BY <2>1, <2>2, DeadStep
<1>3. \A i \in Instances : Live(i) /\ phase'[i] = "dead" => Cardinality(Dead') = n + 1
  BY <1>2, DeadStep
<1>4. /\ Lapses = errs + (IF CanCrash THEN n ELSE 0)
      /\ Lapses' = errs' + (IF CanCrash THEN Cardinality(Dead') ELSE 0)
  BY DEF Lapses
<1> HIDE DEF n
<1>c. CASE CanCrash
  <2>1. Lapses = errs + n /\ Lapses' = errs' + Cardinality(Dead')
    BY <1>4, <1>c
  <2>2. Lapses \in Nat /\ Lapses' \in Nat /\ Lapses <= Lapses'
    BY <1>t, <1>1, <1>2, <2>1
  <2>3. StoreError => Lapses < Lapses'
    BY <1>t, <1>1, <1>2, <2>1
  <2>4. ASSUME Cardinality(Dead') = n + 1
        PROVE  Lapses < Lapses'
    <3>1. PICK q \in Nat : q = Lapses'
      BY <2>2
    <3>2. Lapses = errs + n /\ q = errs' + (n + 1)
      BY <2>1, <2>4, <3>1, Zenon
    <3>3. PICK e \in Nat : e = errs'
      BY <1>t, Zenon
    <3>4. errs \in Nat /\ errs <= e
      BY <1>t, <3>3, Zenon
    <3>5. errs + n < e + (n + 1)
      BY <1>1, <3>4
    <3> QED
      BY <3>1, <3>2, <3>3, <3>5, Zenon
  <2> QED
    BY <1>2, <1>3, <2>2, <2>3, <2>4 DEF Grown
<1>d. CASE ~CanCrash
  <2>1. Lapses = errs /\ Lapses' = errs'
    <3>1. Lapses = errs + 0 /\ Lapses' = errs' + 0
      BY <1>4, <1>d, Zenon
    <3>2. \A e \in Nat : e + 0 = e
      OBVIOUS
    <3> QED
      BY <1>t, <3>1, <3>2, Zenon
  <2>2. Lapses \in Nat /\ Lapses' \in Nat /\ Lapses <= Lapses'
    BY <1>t, <2>1
  <2>3. StoreError => Lapses < Lapses'
    BY <1>t, <2>1
  <2> QED
    BY <1>2, <1>d, <2>2, <2>3 DEF Grown
<1> QED
  BY <1>c, <1>d

-----------------------------------------------------------------------------
(* Retries are counted once each *)

(* A step that may be executed again has a retry left, unless it is being failed. *)
Exhaustible ==
    \A s \in Steps :
       step[s].status \in {"pending", "running"} =>
          \/ step[s].retryCount < MaxRetry + Lapses
          \/ \E i \in Instances : pc[i] = "afterRetry" /\ loc[i].cur = s

(* The count in memory is that of the row, or more if a retry could not be written. *)
RetryDriver(i) ==
    /\ pc[i] = "renew" => \A s \in Steps : loc[i].steps[s].retryCount = step[s].retryCount
    /\ pc[i] \in {"markRunning", "call", "httpError"}
         => /\ loc[i].retry = step[loc[i].cur].retryCount
            /\ step[loc[i].cur].retryCount < MaxRetry + Lapses
    /\ pc[i] = "afterRetry" => step[loc[i].cur].retryCount <= loc[i].retry

RetryInv ==
    /\ IsFiniteSet(Dead)
    /\ RetriesBounded
    /\ Exhaustible
    /\ \A i \in Instances : RetryDriver(i)

(* What RetryInv says of the engine that acts. *)
RetryOf(i) ==
    /\ RetriesBounded
    /\ \A s \in Steps :
          step[s].status \in {"pending", "running"} =>
             step[s].retryCount < MaxRetry + Lapses \/ (pc[i] = "afterRetry" /\ loc[i].cur = s)
    /\ RetryDriver(i)

LEMMA RetryOthers ==
    ASSUME NEW i \in Instances, Alone(i)
    PROVE  /\ RetryInv => RetryOf(i)
           /\ IsFiniteSet(Dead)' /\ RetryOf(i)' => RetryInv'
<1>1. \A j \in Others(i) : pc[j] = "idle" /\ pc'[j] = "idle"
  BY DEF Alone, Gone
<1>2. RetryInv => RetryOf(i)
  BY <1>1 DEF RetryInv, RetryOf, Exhaustible, Others
<1>3. IsFiniteSet(Dead)' /\ RetryOf(i)' => RetryInv'
  BY <1>1 DEF RetryInv, RetryOf, Exhaustible, RetryDriver, Others
<1> QED
  BY <1>2, <1>3

(* Only the driver counts retries or puts a step back to work. *)
RetriesKept ==
    \A s \in Steps : /\ step'[s].retryCount = step[s].retryCount
                     /\ step'[s].status \in {"pending", "running"} => step'[s].status = step[s].status

LEMMA RetryExecutor ==
    ASSUME TypeOK, NEW i \in Instances, RetryOf(i), ExecutorActs(i), Grown
    PROVE  RetryOf(i)'
<1>g. /\ MaxRetry \in Nat /\ Lapses \in Nat /\ Lapses' \in Nat /\ Lapses <= Lapses'
      /\ StoreError => Lapses < Lapses'
  BY ExecutorAssumption DEF Grown
<1>p. PICK p \in Nat, q \in Nat : p = Lapses /\ q = Lapses'
  BY <1>g
<1>q. p <= q /\ (StoreError => p < q)
  BY <1>g, <1>p, Zenon
<1> DEFINE c == loc[i].cur
           m == MaxRetry + p
           n == MaxRetry + q
<1>e. m = MaxRetry + Lapses /\ n = MaxRetry + Lapses'
  BY <1>p, Zenon
<1>t. c \in Steps /\ loc[i] \in Locals /\ \A s \in Steps : step[s].retryCount \in Nat
  BY CurType DEF TypeOK, ExecutorTypeOK, StoreTypeOK, StepRow
<1>r. loc[i].retry \in Nat
  BY <1>t DEF Locals
<1>m. MaxRetry \in Nat /\ m \in Nat /\ n \in Nat /\ MaxRetry <= m /\ m <= n /\ (StoreError => m < n)
  BY <1>g, <1>q
<1>i. /\ \A s \in Steps : step[s].retryCount <= m
      /\ \A s \in Steps :
          step[s].status \in {"pending", "running"} =>
             step[s].retryCount < m \/ (pc[i] = "afterRetry" /\ c = s)
      /\ pc[i] \in {"markRunning", "call", "httpError"} => loc[i].retry = step[c].retryCount /\ step[c].retryCount < m
      /\ pc[i] = "afterRetry" => step[c].retryCount <= loc[i].retry
  BY <1>e DEF RetryOf, RetryDriver, RetriesBounded
<1>n. /\ \A s \in Steps : step[s].retryCount <= n
      /\ \A s \in Steps : step[s].retryCount < m => step[s].retryCount < n
      /\ StoreError => \A s \in Steps : step[s].retryCount < n
      /\ step[c].retryCount < m => step[c].retryCount + 1 <= n
  BY <1>t, <1>m, <1>i
<1> SUFFICES /\ \A s \in Steps : step'[s].retryCount <= n
             /\ \A s \in Steps :
                   step'[s].status \in {"pending", "running"} =>
                      step'[s].retryCount < n \/ (pc'[i] = "afterRetry" /\ loc'[i].cur = s)
             /\ RetryDriver(i)'
  BY <1>e DEF RetryOf, RetriesBounded
<1>d. /\ pc'[i] \in {"markRunning", "call", "httpError"}
           => loc'[i].retry = step'[loc'[i].cur].retryCount /\ step'[loc'[i].cur].retryCount < n
      /\ pc'[i] = "afterRetry" => step'[loc'[i].cur].retryCount <= loc'[i].retry
      /\ pc'[i] # "renew"
      => RetryDriver(i)'
  BY <1>e DEF RetryDriver
<1> HIDE DEF m, n
<1>1. CASE pc[i] = "markRunning"
  BY <1>t, <1>i, <1>n, <1>d, <1>1 DEF ExecutorActs, ExecutorMove, Keeps, Forgets, Written
<1>2. CASE pc[i] = "call"
  BY <1>t, <1>i, <1>n, <1>d, <1>2 DEF ExecutorActs, ExecutorMove, Keeps, Forgets, Written
<1>3. CASE pc[i] = "httpError"
  <2>1. CASE Forgets(i, "trigger") /\ (UNCHANGED step \/ Written(c, "failed"))
    BY <1>t, <1>i, <1>n, <1>d, <1>3, <2>1 DEF Forgets, Written
  <2>2. CASE /\ pc'[i] = "afterRetry"
             /\ loc'[i] = [loc[i] EXCEPT !.retry = loc[i].retry + 1]
             /\ RetryCounted(c) \/ (UNCHANGED step /\ StoreError)
    <3>1. loc'[i].retry = loc[i].retry + 1 /\ loc'[i].cur = c
      BY <1>t, <2>2 DEF Locals
    <3>2. CASE RetryCounted(c)
      BY <1>t, <1>r, <1>i, <1>n, <1>d, <1>3, <2>2, <3>1, <3>2 DEF RetryCounted
    <3>3. CASE UNCHANGED step
      BY <1>t, <1>r, <1>i, <1>n, <1>d, <1>3, <2>2, <3>1, <3>3
    <3> QED
      BY <2>2, <3>2, <3>3
  <2> QED
    BY <1>3, <2>1, <2>2 DEF ExecutorActs, ExecutorMove
<1>4. CASE pc[i] = "afterRetry"
  <2>1. /\ pc'[i] \in {"load", "trigger"}
        /\ \/ loc[i].retry < MaxRetry /\ (Written(c, "pending") \/ UNCHANGED step)
           \/ Written(c, "failed")
           \/ UNCHANGED step /\ StoreError
    BY <1>4 DEF ExecutorActs, ExecutorMove, Forgets
  <2>2. loc[i].retry < MaxRetry => step[c].retryCount < n
    BY <1>t, <1>r, <1>m, <1>i, <1>4
  <2>3. RetryDriver(i)'
    BY <1>d, <2>1
  <2> QED
    BY <1>t, <1>i, <1>n, <1>4, <2>1, <2>2, <2>3 DEF Written
<1>5. CASE pc[i] \in {"markSucceeded", "createPoll", "markPolling", "compCall", "compSave", "compFail"}
  <2>1. pc'[i] \notin {"renew", "markRunning", "call", "httpError", "afterRetry"}
    BY <1>5 DEF ExecutorActs, ExecutorMove, Keeps, Forgets, GoesOn
  <2>2. UNCHANGED step \/ \E v : Written(c, v) /\ v \notin {"pending", "running"}
    BY <1>5 DEF ExecutorActs, ExecutorMove
  <2> QED
    BY <1>t, <1>i, <1>n, <1>d, <1>5, <2>1, <2>2 DEF Written
<1> QED
  BY <1>1, <1>2, <1>3, <1>4, <1>5 DEF ExecutorActs, ExecutorMove

LEMMA RetryLoop ==
    ASSUME TypeOK, NEW i \in Instances, ForwardDriver(i), RetryOf(i), LoopActs(i), Grown
    PROVE  RetryOf(i)'
<1>t. loc[i] \in Locals
  BY DEF TypeOK, ExecutorTypeOK
<1>u. UNCHANGED step /\ pc[i] # "afterRetry"
  BY DEF LoopActs, LoopMove
<1>n. \A s \in Steps : step[s].retryCount \in Nat
  BY DEF TypeOK, StoreTypeOK, StepRow
<1>1. RetriesBounded' /\ \A s \in Steps :
        step'[s].status \in {"pending", "running"} => step'[s].retryCount < MaxRetry + Lapses'
  BY <1>u, <1>n, ExecutorAssumption DEF RetryOf, RetriesBounded, Grown
<1>2. RetryDriver(i)'
  <2>1. CASE pc[i] = "loadSteps"
    BY <1>t, <1>u, <2>1 DEF LoopActs, LoopMove, Forgets, RetryDriver, Locals
  <2>2. CASE pc[i] = "renew"
    <3>m. DispatchMove(i)
      BY <2>2 DEF LoopActs, LoopMove
    <3>1. CASE pc'[i] # "markRunning"
      BY <3>m, <3>1, DispatchFields DEF RetryDriver
    <3>2. ASSUME NEW s \in Steps, loc[i].status = "running",
                 loc[i].steps[s].status \in {"pending", "running"}, Takes(i, "markRunning", s)
          PROVE  RetryDriver(i)'
      <4>1. step[s].status \in {"pending", "running"}
        BY <2>2, <3>2 DEF ForwardDriver, Agree
      <4>2. loc[i].steps[s].retryCount = step[s].retryCount
        BY <2>2 DEF RetryOf, RetryDriver
      <4>3. step'[s].retryCount < MaxRetry + Lapses'
        BY <1>1, <1>u, <4>1
      <4> QED
        BY <1>u, <3>2, <4>2, <4>3, DispatchFields DEF RetryDriver
    <3>3. CASE pc'[i] = "markRunning"
      <4>1. PICK s \in Steps : /\ loc[i].status = "running"
                              /\ loc[i].steps[s].status \in {"pending", "running"}
                              /\ Takes(i, "markRunning", s)
        BY <3>m, <3>3, DispatchFields DEF DispatchMove, Forgets
      <4> QED
        BY <3>2, <4>1
    <3> QED
      BY <3>1, <3>3
  <2>3. CASE pc[i] \notin {"loadSteps", "renew"}
    BY <2>3 DEF LoopActs, LoopMove, Keeps, Forgets, RetryDriver
  <2> QED
    BY <2>1, <2>2, <2>3
<1> QED
  BY <1>1, <1>2 DEF RetryOf

(* The rows' counts stay, and the limit does not shrink. *)
LEMMA RetryRows ==
    ASSUME TypeOK, NEW i \in Instances, RetryOf(i), RetriesKept, Grown
    PROVE  /\ RetriesBounded'
           /\ \A s \in Steps :
                 /\ step[s].retryCount < MaxRetry + Lapses => step'[s].retryCount < MaxRetry + Lapses'
                 /\ Lapses < Lapses' => step'[s].retryCount < MaxRetry + Lapses'
                 /\ step'[s].status \in {"pending", "running"} =>
                       \/ step'[s].retryCount < MaxRetry + Lapses'
                       \/ pc[i] = "afterRetry" /\ loc[i].cur = s
<1>n. \A s \in Steps : step[s].retryCount \in Nat
  BY DEF TypeOK, StoreTypeOK, StepRow
<1>1. \A s \in Steps : /\ step[s].retryCount <= MaxRetry + Lapses
                       /\ step'[s].retryCount = step[s].retryCount
  BY DEF RetryOf, RetriesBounded, RetriesKept
<1>2. \A s \in Steps :
         /\ step'[s].retryCount <= MaxRetry + Lapses'
         /\ step[s].retryCount < MaxRetry + Lapses => step'[s].retryCount < MaxRetry + Lapses'
         /\ Lapses < Lapses' => step'[s].retryCount < MaxRetry + Lapses'
  BY <1>n, <1>1, ExecutorAssumption DEF Grown
<1> QED
  BY <1>2 DEF RetryOf, RetriesKept, RetriesBounded

(* Where the driver goes next it holds no count. *)
LEMMA RetryElsewhere ==
    ASSUME TypeOK, NEW i \in Instances, RetryOf(i), RetriesKept, Grown,
           pc[i] # "afterRetry" \/ Lapses < Lapses',
           pc'[i] \notin {"renew", "markRunning", "call", "httpError", "afterRetry"}
    PROVE  RetryOf(i)'
BY RetryRows DEF RetryOf, RetryDriver

(* While the driver stays where it is, so does what it knows. *)
LEMMA RetrySamePlace ==
    ASSUME TypeOK, NEW i \in Instances, RetryOf(i), RetriesKept, Grown, UNCHANGED <<pc, loc>>
    PROVE  RetryOf(i)'
<1>1. loc[i].cur \in Steps
  BY CurType DEF TypeOK
<1>2. RetryDriver(i)'
  BY <1>1, RetryRows DEF RetryOf, RetriesKept, RetryDriver
<1> QED
  BY <1>2, RetryRows DEF RetryOf

LEMMA RetryInvStep ==
    ASSUME MaxRetry > 0, TypeOK, Unborn, ForwardInv, RetryInv, Step, IsFiniteSet(Dead)', Grown
    PROVE  RetryInv'
<1>n. \A s \in Steps : step[s].retryCount \in Nat
  BY DEF TypeOK, StoreTypeOK, StepRow
<1>1. CASE Calm
  <2>1. UNCHANGED <<step, pc, loc>>
    BY <1>1 DEF Calm
  <2>2. \A s \in Steps :
           /\ step[s].retryCount <= MaxRetry + Lapses => step[s].retryCount <= MaxRetry + Lapses'
           /\ step[s].retryCount < MaxRetry + Lapses => step[s].retryCount < MaxRetry + Lapses'
    BY <1>n, ExecutorAssumption DEF Grown
  <2>3. \A i \in Instances : loc[i].cur \in Steps
    BY CurType DEF TypeOK
  <2> QED
    BY <2>1, <2>2, <2>3 DEF RetryInv, RetriesBounded, Exhaustible, RetryDriver
<1>2. ASSUME NEW i \in Instances, Alone(i), Acts(i)
      PROVE  RetryInv'
  <2>f. RetryOf(i) /\ ForwardDriver(i)
    BY <1>2, RetryOthers DEF ForwardInv
  <2> SUFFICES RetryOf(i)'
    BY <1>2, RetryOthers
  <2>1. CASE ExecutorActs(i)
    BY <2>f, <2>1, RetryExecutor
  <2>2. CASE LoopActs(i)
    BY <2>f, <2>2, RetryLoop
  <2>3. CASE WaitActs(i)
    <3>1. RetriesKept
      BY <2>3 DEF WaitActs, RetriesKept
    <3>2. /\ pc[i] # "afterRetry"
          /\ pc'[i] \notin {"renew", "markRunning", "call", "httpError", "afterRetry"}
      BY <2>3 DEF WaitActs, WaitMove, Keeps, Forgets
    <3> QED
      BY <2>f, <3>1, <3>2, RetryElsewhere
  <2>4. CASE UndoActs(i)
    <3>1. UNCHANGED step \/ \E s \in Steps : Written(s, "compensating") \/ Written(s, "skipped")
      BY <2>4 DEF UndoActs, UndoMove
    <3>2. RetriesKept
      BY <3>1 DEF RetriesKept, Written
    <3>3. /\ pc[i] # "afterRetry"
          /\ pc'[i] \notin {"renew", "markRunning", "call", "httpError", "afterRetry"}
      BY <2>4 DEF UndoActs, UndoMove, Keeps, Forgets
    <3> QED
      BY <2>f, <3>2, <3>3, RetryElsewhere
  <2>5. CASE ScanActs(i)
    BY <2>f, <2>5, RetrySamePlace DEF ScanActs, ScanMove, RetriesKept
  <2>6. ASSUME NEW s \in Steps, PollActs(i, s)
        PROVE  RetryOf(i)'
    <3>1. RetriesKept
      BY <2>6 DEF PollActs, PollMove, Written, PollCounted, RetriesKept
    <3> QED
      BY <2>f, <2>6, <3>1, RetrySamePlace DEF PollActs
  <2>7. CASE QueueActs(i)
    <3>1. RetriesKept /\ UNCHANGED loc
      BY <2>7 DEF QueueActs, Queues, RetriesKept
    <3>2. UNCHANGED pc \/ (pc[i] = "idle" /\ pc'[i] = "queued")
      BY <2>7 DEF QueueActs, Queues
    <3> QED
      BY <2>f, <3>1, <3>2, RetrySamePlace, RetryElsewhere
  <2>8. CASE Born
    <3>1. \A s \in Steps : step'[s].retryCount = 0
      BY <2>8 DEF Born, NewStep
    <3>2. pc'[i] \in {"idle", "queued"}
      BY <2>8 DEF Born, Unborn
    <3>g. MaxRetry \in Nat /\ MaxRetry > 0 /\ Lapses' \in Nat
      BY ExecutorAssumption DEF Grown
    <3>3. MaxRetry + Lapses' \in Nat /\ 0 < MaxRetry + Lapses'
      BY <3>g, Sums, Zenon
    <3> QED
      BY <3>1, <3>2, <3>3 DEF RetryOf, RetriesBounded, RetryDriver
  <2>9. CASE Ends(i)
    <3>1. RetriesKept /\ pc'[i] = "idle"
      BY <2>9 DEF Ends, Gone, RetriesKept
    <3>2. pc[i] # "afterRetry" \/ Lapses < Lapses'
      BY <2>9 DEF Ends, Grown
    <3> QED
      BY <2>f, <3>1, <3>2, RetryElsewhere
  <2> QED
    BY <1>2, <2>1, <2>2, <2>3, <2>4, <2>5, <2>6, <2>7, <2>8, <2>9 DEF Acts
<1> QED
  BY <1>1, <1>2 DEF Step

(***************************************************************************)
(* With one engine at a time and a retry limit of at least one (the        *)
(* builder turns zero into three), handleHTTPError counts at most MaxRetry *)
(* failed attempts of a step, and at most one more for each failed call of *)
(* the database and each crash: the count is compared in memory after it   *)
(* was written to the row, and the next round of the drive loop reads it   *)
(* back.                                                                   *)
(***************************************************************************)
THEOREM RetriesTheorem ==
    ASSUME MaxLive <= 1, MaxRetry > 0
    PROVE  Spec => []RetriesBounded
<1>1. Init => RetryInv
  <2> SUFFICES ASSUME Init
               PROVE  RetryInv
    OBVIOUS
  <2>1. /\ \A s \in Steps : step[s].retryCount = 0
        /\ \A i \in Instances : pc[i] = "idle" /\ phase[i] = "down"
        /\ errs = 0
    BY DEF Init, StoreInit, ExecutorInit, NewStep
  <2>2. Dead = {}
    BY <2>1 DEF Dead
  <2>3. IsFiniteSet(Dead) /\ Lapses = 0
    BY <2>1, <2>2, FS_EmptySet DEF Lapses
  <2>4. MaxRetry + Lapses = MaxRetry /\ MaxRetry \in Nat
    BY <2>3, ExecutorAssumption
  <2> QED
    BY <2>1, <2>3, <2>4 DEF RetryInv, RetriesBounded, Exhaustible, RetryDriver
<1>2. ASSUME SoloInv, RetryInv, [Next]_vars
      PROVE  (SoloInv /\ RetryInv)'
  <2>1. SoloInv' /\ Step
    BY <1>2, SoloInvStep
  <2>2. IsFiniteSet(Dead)' /\ Grown
    BY <1>2, LapsesGrow DEF SoloInv, Base, RetryInv
  <2> QED
    BY <1>2, <2>1, <2>2, RetryInvStep DEF SoloInv, Base
<1>3. SoloInv /\ RetryInv /\ [Next]_vars => (SoloInv /\ RetryInv)'
  BY <1>2
<1>4. RetryInv => RetriesBounded
  BY DEF RetryInv
<1> QED
  BY <1>1, <1>3, <1>4, InitSoloInv, PTL DEF Spec

-----------------------------------------------------------------------------
(* Only async steps are polled *)

PollsAsync ==
    /\ \A s \in Steps : pollTask[s] # "absent" => s \in AsyncSteps
    /\ \A i \in Instances, s \in Steps : poll[i][s].pc # "idle" => s \in AsyncSteps
    /\ \A i \in Instances : pc[i] \in {"createPoll", "markPolling"} => loc[i].cur \in AsyncSteps

LEMMA PollsAsyncStep ==
    ASSUME TypeOK, PollsAsync, Step
    PROVE  PollsAsync'
<1>1. CASE Calm
  BY <1>1 DEF Calm, PollsAsync
<1>2. ASSUME NEW i \in Instances, Alone(i), Acts(i)
      PROVE  PollsAsync'
  <2> DEFINE Async ==
        /\ \A s \in Steps : pollTask[s] # "absent" => s \in AsyncSteps
        /\ \A s \in Steps : poll[i][s].pc # "idle" => s \in AsyncSteps
        /\ pc[i] \in {"createPoll", "markPolling"} => loc[i].cur \in AsyncSteps
  <2>o. \A j \in Others(i) : pc'[j] = "idle" /\ \A s \in Steps : poll'[j][s].pc = "idle"
    BY <1>2 DEF Alone, Gone
  <2>i. Async
    BY DEF PollsAsync
  <2> SUFFICES Async'
    BY <2>o DEF PollsAsync, Others
  <2>1. CASE ExecutorActs(i)
    <3>1. \A s \in Steps : pollTask'[s] # pollTask[s] => pc[i] = "createPoll" /\ s = loc[i].cur
      BY <2>1 DEF ExecutorActs, ExecutorMove
    <3>2. pc'[i] \in {"createPoll", "markPolling"} => loc'[i] = loc[i] /\ loc[i].cur \in AsyncSteps
      BY <2>1, <2>i DEF ExecutorActs, ExecutorMove, Keeps, Forgets, GoesOn
    <3> QED
      BY <2>1, <2>i, <3>1, <3>2 DEF ExecutorActs
  <2>2. CASE LoopActs(i)
    <3>1. pc'[i] \notin {"createPoll", "markPolling"}
      BY <2>2, DispatchFields DEF LoopActs, LoopMove, Keeps, Forgets
    <3> QED
      BY <2>2, <2>i, <3>1 DEF LoopActs
  <2>3. CASE WaitActs(i) \/ UndoActs(i)
    <3>1. pc'[i] \notin {"createPoll", "markPolling"} /\ UNCHANGED <<pollTask, poll>>
      BY <2>3 DEF WaitActs, WaitMove, UndoActs, UndoMove, Keeps, Forgets
    <3> QED
      BY <2>i, <3>1
  <2>4. CASE ScanActs(i)
    BY <2>4, <2>i DEF ScanActs, ScanMove
  <2>5. ASSUME NEW s \in Steps, PollActs(i, s)
        PROVE  Async'
    <3>1. poll[i][s].pc # "idle" /\ UNCHANGED <<pc, loc>>
      BY <2>5 DEF PollActs, PollMove
    <3>2. \A r \in Steps : r # s => poll'[i][r] = poll[i][r]
      BY <2>5 DEF PollActs, PollFrame
    <3>3. \A r \in Steps : pollTask[r] = "absent" => pollTask'[r] = "absent"
      BY <2>5 DEF PollActs, PollFrame
    <3> QED
      BY <2>i, <3>1, <3>2, <3>3
  <2>6. CASE QueueActs(i)
    BY <2>6, <2>i DEF QueueActs, Queues
  <2>7. CASE Born
    BY <2>7, <2>i DEF Born
  <2>8. CASE Ends(i)
    BY <2>8, <2>i DEF Ends, Gone
  <2> QED
    BY <1>2, <2>1, <2>2, <2>3, <2>4, <2>5, <2>6, <2>7, <2>8 DEF Acts
<1> QED
  BY <1>1, <1>2 DEF Step

-----------------------------------------------------------------------------
(* Between two rounds of the drive loop nobody undoes *)

UndoPlaces == Undoing \cup {"finish"}

(***************************************************************************)
(* While its engine does not compensate, a poll under way is about a step  *)
(* that is still polling.                                                  *)
(***************************************************************************)
FreshPolls(i) ==
    phase[i] = "up" /\ pc[i] \notin UndoPlaces /\ tx.status # "failed" =>
       \A s \in Steps : Asking(i, s) => step[s].status = "polling"

(* The rows remembered when the lease is renewed are the rows there are. *)
Remembers(i) == pc[i] = "renew" => Agree(i)

FreshInv == \A i \in Instances : FreshPolls(i) /\ Remembers(i)

LEMMA FreshStep ==
    ASSUME MaxStoreErrors = 0, TypeOK, Solo, Unborn, Rest, Kept, ForwardInv, FreshInv, Step
    PROVE  FreshInv'
<1>e. ~StoreError
  BY DEF StoreError, TypeOK, StoreTypeOK
<1>1. CASE Calm
  <2> SUFFICES ASSUME NEW i \in Instances
               PROVE  (FreshPolls(i) /\ Remembers(i))'
    BY DEF FreshInv
  <2>1. UNCHANGED <<step, pc, loc, poll>> /\ tx'.status = tx.status
    BY <1>1 DEF Calm, SameVerdict
  <2>2. Remembers(i)'
    BY <2>1 DEF FreshInv, Remembers, Agree
  <2>3. phase'[i] = "up" => phase[i] = "up" \/ \A s \in Steps : ~Asking(i, s)
    BY <1>1 DEF Calm, Solo, OnlyLiveWork, Gone, Asking
  <2>4. FreshPolls(i)'
    BY <2>1, <2>3 DEF FreshInv, FreshPolls, Asking
  <2> QED
    BY <2>2, <2>4
<1>2. ASSUME NEW i \in Instances, Alone(i), Acts(i)
      PROVE  FreshInv'
  <2>o. \A j \in Others(i) : pc'[j] = "idle" /\ \A s \in Steps : ~Asking(j, s)'
    BY <1>2 DEF Alone, Gone, Asking
  <2>i. FreshPolls(i) /\ Remembers(i)
    BY DEF FreshInv
  <2> SUFFICES (FreshPolls(i) /\ Remembers(i))'
    BY <2>o DEF FreshInv, FreshPolls, Remembers, Others
  <2>t. loc[i].cur \in Steps /\ loc[i] \in Locals
    BY CurType DEF TypeOK, ExecutorTypeOK
  <2>k. tx'.status # "failed" => tx.status # "failed"
    BY DEF Kept, SameVerdict
  <2>1. CASE ExecutorActs(i)
    <3>1. UNCHANGED <<tx, phase, poll>> /\ pc'[i] # "renew"
      BY <2>1 DEF ExecutorActs, ExecutorMove, Keeps, Forgets, GoesOn
    <3>2. CASE pc[i] \in {"compCall", "compSave", "compFail"}
      <4>1. pc'[i] \in Undoing
        BY <2>1, <3>2 DEF ExecutorActs, ExecutorMove, Keeps, GoesOn, Undoing
      <4> QED
        BY <3>1, <4>1 DEF FreshPolls, Remembers, UndoPlaces
    <3>3. CASE pc[i] \in Calling \cup {"markRunning"}
      <4>1. \A s \in Steps : Asking(i, s) => step[s].status = "polling"
        BY <3>3 DEF ForwardInv, Ahead, Unturned, Forwarding
      <4>2. step[loc[i].cur].status # "polling"
        BY <3>3 DEF ForwardInv, ForwardDriver
      <4>3. \A s \in Steps : s # loc[i].cur => step'[s].status = step[s].status
        BY <2>1, <3>3 DEF ExecutorActs, ExecutorMove, Calling, Written, RetryCounted
      <4> QED
        BY <3>1, <4>1, <4>2, <4>3 DEF FreshPolls, Remembers, Asking
    <3> QED
      BY <2>1, <3>2, <3>3 DEF ExecutorActs, ExecutorMove, Calling
  <2>2. CASE LoopActs(i)
    <3>1. UNCHANGED <<step, phase, poll>> /\ pc[i] \notin UndoPlaces
      BY <2>2 DEF LoopActs, LoopMove, UndoPlaces, Undoing
    <3>2. FreshPolls(i)'
      BY <2>i, <2>k, <3>1 DEF FreshPolls, Asking
    <3>3. pc'[i] = "renew" => pc[i] = "loadSteps" /\ loc'[i] = [loc[i] EXCEPT !.steps = step]
      BY <2>2, DispatchFields DEF LoopActs, LoopMove, Keeps, Forgets
    <3>4. Remembers(i)'
      BY <2>t, <3>1, <3>3 DEF Remembers, Agree, Locals
    <3> QED
      BY <3>2, <3>4
  <2>3. CASE WaitActs(i)
    <3>1. UNCHANGED <<tx, step, phase, poll>> /\ pc[i] \notin UndoPlaces /\ pc'[i] # "renew"
      BY <2>3 DEF WaitActs, WaitMove, UndoPlaces, Undoing, Keeps, Forgets
    <3> QED
      BY <2>i, <3>1 DEF FreshPolls, Remembers, Asking
  <2>4. CASE UndoActs(i)
    <3>1. \/ pc'[i] \in UndoPlaces
          \/ phase'[i] # "up"
          \/ tx'.status = "failed"
      BY <1>e, <2>4 DEF UndoActs, UndoMove, UndoPlaces, Undoing, Keeps
    <3>2. pc'[i] # "renew"
      BY <2>4 DEF UndoActs, UndoMove, Keeps, Forgets
    <3> QED
      BY <3>1, <3>2 DEF FreshPolls, Remembers
  <2>5. CASE ScanActs(i)
    <3>1. UNCHANGED <<step, pc, loc>> /\ \A s \in Steps : ~Asking(i, s)'
      BY <2>5 DEF ScanActs, ScanMove, Asking
    <3> QED
      BY <2>i, <3>1 DEF FreshPolls, Remembers, Agree
  <2>6. ASSUME NEW s \in Steps, PollActs(i, s)
        PROVE  (FreshPolls(i) /\ Remembers(i))'
    <3>1. UNCHANGED <<tx, phase, pc, loc>> /\ \A r \in Steps : r # s => (Asking(i, r)' <=> Asking(i, r))
      BY <2>6 DEF PollActs, PollFrame, Asking
    <3>2. \A r \in Steps : r # s => step'[r].status = step[r].status
      BY <2>6 DEF PollActs, PollMove, Written, PollCounted
    <3>3. \/ /\ step'[s].status = step[s].status
             /\ Asking(i, s)' => Asking(i, s) \/ step[s].status = "polling"
          \/ /\ poll[i][s].pc = "record" /\ phase[i] = "up" /\ ~Asking(i, s)'
             /\ step'[s].status \in {"succeeded", "failed"}
      BY <2>6 DEF PollActs, PollMove, Asking, Written, PollCounted
    <3>4. FreshPolls(i)'
      BY <2>i, <3>1, <3>2, <3>3 DEF FreshPolls
    <3>5. ASSUME pc[i] = "renew", poll[i][s].pc = "record", phase[i] = "up"
          PROVE  step[s].status = "polling"
      <4>1. tx.status # "failed"
        BY <3>5 DEF Rest, Resting
      <4> QED
        BY <2>i, <3>5, <4>1 DEF FreshPolls, UndoPlaces, Undoing, Asking
    <3>6. Remembers(i)'
      BY <2>i, <3>1, <3>2, <3>3, <3>5 DEF Remembers, Agree
    <3> QED
      BY <3>4, <3>6
  <2>7. CASE QueueActs(i)
    <3>1. UNCHANGED <<step, phase, poll, loc>> /\ (UNCHANGED pc \/ (pc[i] = "idle" /\ pc'[i] = "queued"))
      BY <2>7 DEF QueueActs, Queues
    <3> QED
      BY <2>i, <2>k, <3>1 DEF FreshPolls, Remembers, Agree, Asking, UndoPlaces, Undoing
  <2>8. CASE Born
    <3>1. pc'[i] # "renew" /\ \A s \in Steps : ~Asking(i, s)'
      BY <2>8 DEF Born, Unborn, Asking
    <3> QED
      BY <3>1 DEF FreshPolls, Remembers
  <2>9. CASE Ends(i)
    <3>1. pc'[i] # "renew" /\ \A s \in Steps : ~Asking(i, s)'
      BY <2>9 DEF Ends, Gone, Asking
    <3> QED
      BY <3>1 DEF FreshPolls, Remembers
  <2> QED
    BY <1>2, <2>1, <2>2, <2>3, <2>4, <2>5, <2>6, <2>7, <2>8, <2>9 DEF Acts
<1> QED
  BY <1>1, <1>2 DEF Step

-----------------------------------------------------------------------------
(* Compensation runs backwards *)

(* No sync step that is still recorded as succeeded has been passed over. *)
SyncLeft(i) ==
    pc[i] \in Undoing =>
       \A t \in Steps \ AsyncSteps : step[t].status = "succeeded" => t \in loc[i].todo

(* The step being compensated is the last one to be. *)
CurIsLast(i) ==
    pc[i] \in {"compCall", "compSave", "compFail"} =>
       /\ IsGreatest(loc[i].cur, loc[i].todo)
       /\ loc[i].cur \in AsyncSteps \/ step[loc[i].cur].status # "succeeded"

ReverseInv == \A i \in Instances : SyncLeft(i) /\ CurIsLast(i)

LEMMA ReverseStep ==
    ASSUME MaxStoreErrors = 0, TypeOK, PollsAsync, FreshInv, ReverseInv, Step
    PROVE  ReverseInv'
<1>e. ~StoreError
  BY DEF StoreError, TypeOK, StoreTypeOK
<1>1. CASE Calm
  BY <1>1 DEF Calm, ReverseInv, SyncLeft, CurIsLast, IsGreatest
<1>2. ASSUME NEW i \in Instances, Alone(i), Acts(i)
      PROVE  ReverseInv'
  <2>o. \A j \in Others(i) : pc'[j] = "idle"
    BY <1>2 DEF Alone, Gone
  <2>i. SyncLeft(i) /\ CurIsLast(i)
    BY DEF ReverseInv
  <2> SUFFICES (SyncLeft(i) /\ CurIsLast(i))'
    BY <2>o DEF ReverseInv, SyncLeft, CurIsLast, Others, Undoing
  <2>t. loc[i].cur \in Steps /\ loc[i] \in Locals /\ loc[i].todo \subseteq Steps
    BY CurType DEF TypeOK, ExecutorTypeOK, Locals
  <2>n. pc'[i] \notin Undoing => (SyncLeft(i) /\ CurIsLast(i))'
    BY DEF SyncLeft, CurIsLast, Undoing
  <2>1. CASE ExecutorActs(i)
    <3>1. CASE pc[i] \in {"compCall", "compSave", "compFail"}
      <4>1. \A s \in Steps : /\ s # loc[i].cur => step'[s].status = step[s].status
                             /\ \/ step'[s].status = step[s].status
                                \/ step'[s].status # "succeeded"
        BY <2>1, <3>1 DEF ExecutorActs, ExecutorMove, Written
      <4>2. CASE pc'[i] \in {"compSave", "compFail"} /\ loc'[i] = loc[i]
        BY <2>i, <2>t, <3>1, <4>1, <4>2 DEF SyncLeft, CurIsLast, IsGreatest, Undoing
      <4>3. CASE GoesOn(i)
        <5>1. \A t \in Steps \ AsyncSteps : step'[t].status = "succeeded" =>
                 t \in loc[i].todo /\ t # loc[i].cur
          BY <2>i, <2>t, <3>1, <4>1 DEF SyncLeft, CurIsLast, Undoing
        <5> QED
          BY <4>3, <5>1 DEF GoesOn, SyncLeft, CurIsLast, Undoing
      <4> QED
        BY <2>1, <3>1, <4>2, <4>3 DEF ExecutorActs, ExecutorMove, Keeps
    <3>2. CASE pc[i] \notin {"compCall", "compSave", "compFail"}
      <4>1. pc'[i] \notin Undoing
        BY <2>1, <3>2 DEF ExecutorActs, ExecutorMove, Keeps, Forgets, Undoing
      <4> QED
        BY <2>n, <4>1
    <3> QED
      BY <3>1, <3>2
  <2>2. CASE LoopActs(i)
    <3>1. CASE pc[i] = "renew" /\ Begins(i)
      <4>1. Agree(i) /\ pc'[i] = "compensate" /\ UNCHANGED step
            /\ loc'[i].todo = ToCompensate(loc[i].steps)
        BY <2>2, <3>1, DispatchFields DEF FreshInv, Remembers, LoopActs
      <4>2. \A t \in Steps : step'[t].status = "succeeded" => t \in ToCompensate(loc[i].steps)
        BY <4>1 DEF Agree, ToCompensate, StepsIn
      <4> QED
        BY <4>1, <4>2 DEF SyncLeft, CurIsLast
    <3>2. CASE pc'[i] \notin Undoing
      BY <2>n, <3>2
    <3> QED
      BY <2>2, <3>1, <3>2, DispatchFields DEF LoopActs, LoopMove, Keeps, Forgets, Undoing
  <2>3. CASE WaitActs(i)
    BY <2>n, <2>3 DEF WaitActs, WaitMove, Keeps, Forgets, Undoing
  <2>4. CASE UndoActs(i)
    <3>1. CASE pc'[i] \notin Undoing
      BY <2>n, <3>1
    <3>2. ASSUME NEW s \in Steps, pc[i] = "compensate", IsGreatest(s, loc[i].todo),
                 Written(s, "compensating"), pc'[i] = "compCall",
                 loc'[i] = [loc[i] EXCEPT !.cur = s]
          PROVE  (SyncLeft(i) /\ CurIsLast(i))'
      <4>1. loc'[i].cur = s /\ loc'[i].todo = loc[i].todo
        BY <2>t, <3>2 DEF Locals
      <4> QED
        BY <2>i, <3>2, <4>1 DEF SyncLeft, CurIsLast, Undoing, Written, IsGreatest
    <3>3. ASSUME NEW s \in Steps, pc[i] = "compensate", UNCHANGED step \/ Written(s, "skipped"),
                 pc'[i] = "compensate",
                 loc'[i] = [loc[i] EXCEPT !.skip = loc[i].skip \ {s}]
          PROVE  (SyncLeft(i) /\ CurIsLast(i))'
      <4>1. loc'[i].todo = loc[i].todo
        BY <2>t, <3>3 DEF Locals
      <4> QED
        BY <2>i, <3>3, <4>1 DEF SyncLeft, CurIsLast, Undoing, Written
    <3> QED
      BY <1>e, <2>4, <3>1, <3>2, <3>3 DEF UndoActs, UndoMove, Keeps, Forgets, Undoing
  <2>5. CASE ScanActs(i)
    BY <2>i, <2>5, <2>t DEF ScanActs, ScanMove, SyncLeft, CurIsLast, IsGreatest
  <2>6. ASSUME NEW s \in Steps, PollActs(i, s)
        PROVE  (SyncLeft(i) /\ CurIsLast(i))'
    <3>1. s \in AsyncSteps
      BY <2>6 DEF PollActs, PollMove, PollsAsync
    <3>2. \A r \in Steps : r # s => step'[r].status = step[r].status
      BY <2>6 DEF PollActs, PollMove, Written, PollCounted
    <3> QED
      BY <2>6, <2>i, <2>t, <3>1, <3>2 DEF PollActs, SyncLeft, CurIsLast, IsGreatest
  <2>7. CASE QueueActs(i)
    BY <2>7, <2>i, <2>t DEF QueueActs, Queues, SyncLeft, CurIsLast, IsGreatest, Undoing
  <2>8. CASE Born
    BY <2>8, <2>i, <2>t DEF Born, NewStep, SyncLeft, CurIsLast, IsGreatest
  <2>9. CASE Ends(i)
    BY <2>9, <2>n DEF Ends, Gone, Undoing
  <2> QED
    BY <1>2, <2>1, <2>2, <2>3, <2>4, <2>5, <2>6, <2>7, <2>8, <2>9 DEF Acts
<1> QED
  BY <1>1, <1>2 DEF Step

-----------------------------------------------------------------------------
(* A completed compensation leaves nothing behind *)

(* A step that is recorded as executed, or whose poll may still say so. *)
Leftover(s) == step[s].status \in Past \/ \E i \in Instances : Asking(i, s)

(* While nothing went wrong, what is not taken back is still on the list. *)
Cleaned(i) ==
    pc[i] \in UndoPlaces /\ loc[i].clean =>
       \A s \in Steps :
          Leftover(s) => remote[s] = "undone" \/ (pc[i] # "finish" /\ s \in loc[i].todo)

Completed ==
    tx.status = "failed" /\ tx.lastError = "completed" =>
       \A s \in Steps : Leftover(s) => remote[s] = "undone"

CleanInv == Completed /\ \A i \in Instances : Cleaned(i)

(* What is taken back stays so. *)
LEMMA UndoneStays ==
    ASSUME TypeOK, Transition
    PROVE  \A s \in Steps : remote[s] = "undone" => remote'[s] = "undone"
BY DEF Transition, EffectStep, Forward, TypeOK, ExecutorTypeOK

(* Nothing is left over anew by an engine that rests or compensates. *)
LEMMA LeftoverStays ==
    ASSUME TypeOK, NEW i \in Instances, Alone(i), Acts(i), ~Born,
           pc[i] \in Resting \cup UndoPlaces, NEW s \in Steps, Leftover(s)'
    PROVE  \/ Leftover(s)
           \/ s = loc[i].cur /\ pc[i] = "compSave" /\ step'[s].status = "compensated"
           \/ pc[i] = "compensate" /\ s \in loc[i].todo
<1>o. \A j \in Others(i) : ~Asking(j, s)'
  BY DEF Alone, Gone, Asking
<1>t. loc[i].cur \in Steps
  BY CurType DEF TypeOK
<1>1. step'[s].status \in Past \/ Asking(i, s)'
  BY <1>o DEF Leftover, Others
<1>2. UNCHANGED step /\ UNCHANGED poll => Leftover(s)
  BY <1>1 DEF Leftover, Asking
<1>3. CASE ExecutorActs(i)
  <2>1. \/ step'[s].status = step[s].status
        \/ s = loc[i].cur /\ step'[s].status = "failed"
        \/ s = loc[i].cur /\ pc[i] = "compSave" /\ step'[s].status = "compensated"
    BY <1>3, <1>t DEF ExecutorActs, ExecutorMove, Written, Resting, UndoPlaces, Undoing
  <2>2. Asking(i, s)' => Asking(i, s)
    BY <1>3 DEF ExecutorActs, Asking
  <2> QED
    BY <1>1, <2>1, <2>2 DEF Leftover, Past
<1>4. CASE LoopActs(i) \/ WaitActs(i) \/ QueueActs(i)
  BY <1>2, <1>4 DEF LoopActs, WaitActs, QueueActs
<1>5. CASE UndoActs(i)
  <2>1. \/ step'[s].status = step[s].status
        \/ step'[s].status = "skipped"
        \/ pc[i] = "compensate" /\ s \in loc[i].todo
    BY <1>5 DEF UndoActs, UndoMove, Written, IsGreatest
  <2>2. Asking(i, s)' => Asking(i, s)
    BY <1>5 DEF UndoActs, Asking
  <2> QED
    BY <1>1, <2>1, <2>2 DEF Leftover, Past
<1>6. CASE ScanActs(i)
  BY <1>1, <1>6 DEF ScanActs, ScanMove, Asking, Leftover
<1>7. ASSUME NEW r \in Steps, PollActs(i, r)
      PROVE  Leftover(s)
  <2>1. CASE r # s
    <3>1. Asking(i, s)' => Asking(i, s)
      BY <1>7, <2>1 DEF PollActs, PollFrame, Asking
    <3>2. step'[s].status = step[s].status
      BY <1>7, <2>1 DEF PollActs, PollMove, Written, PollCounted
    <3> QED
      BY <1>1, <3>1, <3>2 DEF Leftover
  <2>2. CASE r = s
    <3>1. step'[s].status = step[s].status \/ Asking(i, s)
      BY <1>7, <2>2 DEF PollActs, PollMove, PollCounted, Asking
    <3>2. Asking(i, s)' => Asking(i, s) \/ step[s].status = "polling"
      BY <1>7, <2>2 DEF PollActs, PollMove, Asking
    <3> QED
      BY <1>1, <3>1, <3>2 DEF Leftover, Past
  <2> QED
    BY <2>1, <2>2
<1>8. CASE Ends(i)
  BY <1>1, <1>8 DEF Ends, Gone, Asking, Leftover
<1> QED
  BY <1>3, <1>4, <1>5, <1>6, <1>7, <1>8 DEF Acts

LEMMA CompletedStep ==
    ASSUME MaxStoreErrors = 0, TypeOK, ScannersAreLawful, Rest, Transition, CleanInv, Step
    PROVE  Completed'
<1>m. \A s \in Steps : remote[s] = "undone" => remote'[s] = "undone"
  BY UndoneStays
<1> SUFFICES ASSUME tx'.status = "failed", tx'.lastError = "completed", NEW s \in Steps, Leftover(s)'
             PROVE  remote'[s] = "undone"
  BY DEF Completed
<1>1. CASE Calm
  <2>1. Leftover(s) /\ tx.status = "failed" /\ tx.lastError = "completed"
    BY <1>1 DEF Calm, SameVerdict, Leftover, Asking
  <2> QED
    BY <1>m, <2>1 DEF CleanInv, Completed
<1>2. ASSUME NEW i \in Instances, Alone(i), Acts(i)
      PROVE  remote'[s] = "undone"
  <2>1. CASE SameVerdict
    <3>1. tx.status = "failed" /\ tx.lastError = "completed" /\ pc[i] \in Resting /\ ~Born
      BY <2>1 DEF SameVerdict, Rest, Born
    <3>2. Leftover(s)
      BY <1>2, <3>1, LeftoverStays DEF Resting
    <3> QED
      BY <1>m, <3>1, <3>2 DEF CleanInv, Completed
  <2>2. CASE ~SameVerdict
    <3>1. UndoActs(i) /\ pc[i] = "finish" /\ loc[i].clean
      BY <1>2, <2>2 DEF Acts, ExecutorActs, LoopActs, LoopMove, WaitActs, UndoActs, UndoMove,
             ScanActs, PollActs, QueueActs, Born, Ends, SameVerdict, Swapped
    <3>2. ~Born
      BY <3>1, <1>2 DEF Born, UndoActs, UndoMove
    <3>3. Leftover(s)
      BY <1>2, <3>1, <3>2, LeftoverStays DEF UndoPlaces
    <3> QED
      BY <1>m, <3>1, <3>3 DEF CleanInv, Cleaned, UndoPlaces
  <2> QED
    BY <2>1, <2>2
<1> QED
  BY <1>1, <1>2 DEF Step

LEMMA CleanedStep ==
    ASSUME MaxStoreErrors = 0, TypeOK, Lawful, Unborn, Transition, FreshInv, CleanInv, Step
    PROVE  \A i \in Instances : Cleaned(i)'
<1>m. \A s \in Steps : remote[s] = "undone" => remote'[s] = "undone"
  BY UndoneStays
<1>e. ~StoreError
  BY DEF StoreError, TypeOK, StoreTypeOK
<1>1. CASE Calm
  <2>1. \A s \in Steps : Leftover(s)' => Leftover(s)
    BY <1>1 DEF Calm, Leftover, Asking
  <2> QED
    BY <1>m, <1>1, <2>1 DEF Calm, CleanInv, Cleaned
<1>2. ASSUME NEW i \in Instances, Alone(i), Acts(i)
      PROVE  \A j \in Instances : Cleaned(j)'
  <2>o. \A j \in Others(i) : pc'[j] = "idle"
    BY <1>2 DEF Alone, Gone
  <2>i. Cleaned(i)
    BY DEF CleanInv
  <2> SUFFICES Cleaned(i)'
    BY <2>o DEF Cleaned, Others, UndoPlaces, Undoing
  <2>t. loc[i] \in Locals /\ loc[i].cur \in Steps
    BY CurType DEF TypeOK, ExecutorTypeOK
  <2> SUFFICES ASSUME pc'[i] \in UndoPlaces, loc'[i].clean, NEW s \in Steps, Leftover(s)'
               PROVE  remote'[s] = "undone" \/ (pc'[i] # "finish" /\ s \in loc'[i].todo)
    BY DEF Cleaned
  <2>1. CASE pc[i] = "renew"
    <3>1. LoopActs(i) \/ UNCHANGED pc
      BY <1>2, <2>1 DEF Acts, ExecutorActs, ExecutorMove, WaitActs, WaitMove, UndoActs, UndoMove,
             ScanActs, PollActs, QueueActs, Queues, Born, Ends, Gone, UndoPlaces, Undoing
    <3>2. LoopActs(i)
      BY <2>1, <3>1 DEF UndoPlaces, Undoing
    <3>3. DispatchMove(i) /\ UNCHANGED <<step, phase, poll>>
      BY <2>1, <3>2 DEF LoopActs, LoopMove
    <3>4. Begins(i) /\ tx.status \in ActiveStatus /\ phase[i] = "up"
      BY <3>3, DispatchFields DEF DispatchMove, Forgets, UndoPlaces, Undoing
    <3>5. loc'[i].todo = ToCompensate(loc[i].steps) /\ pc'[i] = "compensate"
      BY <3>4, DispatchFields
    <3>6. step[s].status \in Past
      <4>1. \A j \in Others(i) : ~Asking(j, s)'
        BY <1>2 DEF Alone, Gone, Asking
      <4>2. step[s].status \in Past \/ Asking(i, s)
        BY <3>3, <4>1 DEF Leftover, Asking, Others
      <4>3. Asking(i, s) => step[s].status = "polling"
        BY <2>1, <3>4 DEF FreshInv, FreshPolls, UndoPlaces, Undoing, ActiveStatus
      <4> QED
        BY <4>2, <4>3 DEF Past
    <3>7. Agree(i)
      BY <2>1 DEF FreshInv, Remembers
    <3>8. CASE step[s].status = "compensated"
      BY <1>m, <3>8 DEF Lawful, CompensatedIsUndone
    <3>9. CASE step[s].status # "compensated"
      BY <3>5, <3>6, <3>7, <3>9 DEF Agree, ToCompensate, StepsIn, Past
    <3> QED
      BY <3>8, <3>9
  <2>2. CASE pc[i] # "renew"
    <3>1. pc[i] \in UndoPlaces /\ ~Born
      <4>1. ~Born
        BY DEF Born, Unborn, UndoPlaces, Undoing
      <4>2. ~Ends(i) /\ ~WaitActs(i)
        BY DEF Ends, Gone, WaitActs, WaitMove, Keeps, Forgets, UndoPlaces, Undoing
      <4>3. ASSUME LoopActs(i)
            PROVE  FALSE
        <5>1. LoopMove(i)
          BY <4>3 DEF LoopActs
        <5>2. pc'[i] \in {"load", "idle", "loadSteps", "renew", "release", "deactivate", "trigger"}
          BY <2>2, <5>1 DEF LoopMove, Keeps, Forgets
        <5> QED
          BY <5>2 DEF UndoPlaces, Undoing
      <4>4. CASE ExecutorActs(i)
        <5>1. pc[i] \in UndoPlaces
          BY <4>4 DEF ExecutorActs, ExecutorMove, Keeps, Forgets, UndoPlaces, Undoing
        <5> QED
          BY <4>1, <5>1
      <4>5. CASE UndoActs(i)
        <5>1. pc[i] \in UndoPlaces
          BY <4>5 DEF UndoActs, UndoMove, UndoPlaces, Undoing
        <5> QED
          BY <4>1, <5>1
      <4>6. CASE ScanActs(i) \/ (\E r \in Steps : PollActs(i, r)) \/ QueueActs(i)
        BY <4>1, <4>6 DEF ScanActs, PollActs, QueueActs, Queues, UndoPlaces, Undoing
      <4> QED
        BY <1>2, <4>1, <4>2, <4>3, <4>4, <4>5, <4>6 DEF Acts
    <3>2. \/ Leftover(s)
          \/ s = loc[i].cur /\ pc[i] = "compSave" /\ step'[s].status = "compensated"
          \/ pc[i] = "compensate" /\ s \in loc[i].todo
      BY <1>2, <3>1, LeftoverStays
    <3>3. s = loc[i].cur /\ pc[i] = "compSave" => remote'[s] = "undone"
      BY <1>m DEF Lawful, DriverIsLawful, PlaceIsLawful
    <3>4. loc[i].clean => remote'[s] = "undone" \/ (pc[i] # "finish" /\ s \in loc[i].todo)
      BY <1>m, <2>i, <3>1, <3>2, <3>3 DEF Cleaned
    <3>5. CASE ExecutorActs(i)
      <4>1. pc[i] \in {"compCall", "compSave", "compFail"}
        BY <3>1, <3>5 DEF ExecutorActs, ExecutorMove, UndoPlaces, Undoing
      <4>2. CASE loc'[i] = loc[i]
        BY <3>4, <3>5, <4>1, <4>2 DEF ExecutorActs, ExecutorMove, Keeps, GoesOn
      <4>3. CASE pc[i] = "compSave" /\ GoesOn(i) /\ loc'[i].clean = loc[i].clean
        BY <3>3, <3>4, <4>3 DEF GoesOn
      <4> QED
        BY <3>5, <4>1, <4>2, <4>3 DEF ExecutorActs, ExecutorMove, Keeps
    <3>6. CASE UndoActs(i)
      <4>1. CASE pc'[i] = "finish"
        BY <1>e, <3>4, <3>6, <4>1 DEF UndoActs, UndoMove, Keeps, Forgets
      <4>2. ASSUME NEW r \in Steps, pc[i] = "compensate", pc'[i] = "compCall",
                   loc'[i] = [loc[i] EXCEPT !.cur = r]
            PROVE  remote'[s] = "undone" \/ (pc'[i] # "finish" /\ s \in loc'[i].todo)
        BY <2>t, <3>4, <4>2 DEF Locals
      <4>3. ASSUME NEW r \in Steps, pc[i] = "compensate", pc'[i] = "compensate",
                   loc'[i] = [loc[i] EXCEPT !.skip = loc[i].skip \ {r}]
            PROVE  remote'[s] = "undone" \/ (pc'[i] # "finish" /\ s \in loc'[i].todo)
        BY <2>t, <3>4, <4>3 DEF Locals
      <4> QED
        BY <1>e, <3>6, <4>1, <4>2, <4>3 DEF UndoActs, UndoMove, Keeps, Forgets, UndoPlaces, Undoing
    <3>7. CASE ScanActs(i) \/ (\E r \in Steps : PollActs(i, r)) \/ QueueActs(i)
      BY <3>1, <3>4, <3>7 DEF ScanActs, PollActs, QueueActs, Queues, UndoPlaces, Undoing
    <3>8. ~LoopActs(i) /\ ~WaitActs(i) /\ ~Ends(i)
      BY <3>1 DEF LoopActs, LoopMove, WaitActs, WaitMove, Ends, Gone, UndoPlaces, Undoing
    <3> QED
      BY <1>2, <3>1, <3>5, <3>6, <3>7, <3>8 DEF Acts
  <2> QED
    BY <2>1, <2>2
<1> QED
  BY <1>1, <1>2 DEF Step

(***************************************************************************)
(* The inductive invariant of the two theorems about compensation: what    *)
(* holds forward, polls of async steps only, rows that are still what the  *)
(* driver remembers, the order of the list and what is left to take back.  *)
(***************************************************************************)
UndoInv == SoloInv /\ PollsAsync /\ FreshInv /\ ReverseInv /\ CleanInv

LEMMA InitUndoInv == Init => UndoInv
<1> SUFFICES ASSUME Init
             PROVE  PollsAsync /\ FreshInv /\ ReverseInv /\ CleanInv
  BY InitSoloInv DEF UndoInv
<1>1. /\ \A s \in Steps : pollTask[s] = "absent"
      /\ \A i \in Instances : pc[i] = "idle" /\ \A s \in Steps : poll[i][s].pc = "idle"
      /\ tx.status = "none"
  BY DEF Init, StoreInit, ExecutorInit, PollerInit, NoPoll
<1>2. PollsAsync
  BY <1>1 DEF PollsAsync
<1>3. FreshInv
  BY <1>1 DEF FreshInv, FreshPolls, Remembers, Asking
<1>4. ReverseInv
  BY <1>1 DEF ReverseInv, SyncLeft, CurIsLast, Undoing
<1>5. CleanInv
  BY <1>1 DEF CleanInv, Completed, Cleaned, UndoPlaces, Undoing
<1> QED
  BY <1>2, <1>3, <1>4, <1>5

LEMMA UndoInvStep ==
    ASSUME MaxLive <= 1, MaxStoreErrors = 0, UndoInv, [Next]_vars
    PROVE  UndoInv' /\ Step
<1>1. SoloInv' /\ Step /\ Transition
  BY SoloInvStep DEF UndoInv
<1>2. TypeOK /\ Lawful /\ Solo /\ Unborn /\ Rest /\ ForwardInv /\ ScannersAreLawful
  BY DEF UndoInv, SoloInv, Base, Lawful
<1>3. Kept
  BY BaseStep DEF UndoInv, SoloInv
<1>4. PollsAsync'
  BY <1>1, <1>2, PollsAsyncStep DEF UndoInv
<1>5. FreshInv'
  BY <1>1, <1>2, <1>3, FreshStep DEF UndoInv
<1>6. ReverseInv'
  BY <1>1, <1>2, ReverseStep DEF UndoInv
<1>7. CleanInv'
  BY <1>1, <1>2, CompletedStep, CleanedStep DEF UndoInv, CleanInv
<1> QED
  BY <1>1, <1>4, <1>5, <1>6, <1>7 DEF UndoInv

(* A participant takes an effect back at the driver's request for the step. *)
LEMMA TakenBack ==
    ASSUME TypeOK, Step, NEW s \in Steps, remote[s] # "undone", remote'[s] = "undone"
    PROVE  \E i \in Instances : pc[i] = "compCall" /\ loc[i].cur = s
<1>t. remote \in [Steps -> Effect]
  BY DEF TypeOK, ExecutorTypeOK
<1>1. ~Calm
  BY DEF Calm, Applied
<1>2. PICK i \in Instances : Alone(i) /\ Acts(i)
  BY <1>1 DEF Step
<1>3. ExecutorActs(i)
  BY <1>2 DEF Acts, LoopActs, WaitActs, UndoActs, ScanActs, PollActs, QueueActs, Born, Ends
<1>4. loc[i].cur \in Steps /\ pc[i] \in {"call", "compCall"}
  BY <1>3, CurType DEF ExecutorActs, ExecutorMove, TypeOK
<1>5. loc[i].cur = s
  BY <1>t, <1>3, <1>4 DEF ExecutorActs, ExecutorMove
<1>6. pc[i] # "call"
  BY <1>t, <1>3, <1>5 DEF ExecutorActs, ExecutorMove, Applied, Lost
<1> QED
  BY <1>4, <1>5, <1>6

(***************************************************************************)
(* With one engine at a time and a store that answers, compensation runs   *)
(* backwards through any crash, stop and takeover: when a step is taken    *)
(* back, no later sync step is still recorded as succeeded.  A failed      *)
(* write is excluded because executeCompensation, when it cannot record a  *)
(* step as compensating, passes over the step and goes on to the one       *)
(* before it.                                                              *)
(***************************************************************************)
THEOREM CompensationOrderTheorem ==
    ASSUME MaxLive <= 1, MaxStoreErrors = 0
    PROVE  Spec => CompensateInReverse
<1> DEFINE Reverse == \A s \in Steps :
                         remote[s] # "undone" /\ remote'[s] = "undone"
                            => \A t \in ((s + 1)..N) \ AsyncSteps : step[t].status # "succeeded"
<1>1. ASSUME UndoInv, [Next]_vars
      PROVE  UndoInv' /\ Reverse
  <2>1. UndoInv' /\ Step
    BY <1>1, UndoInvStep
  <2> SUFFICES ASSUME NEW s \in Steps, remote[s] # "undone", remote'[s] = "undone",
                      NEW t \in ((s + 1)..N) \ AsyncSteps, step[t].status = "succeeded"
               PROVE  FALSE
    BY <2>1
  <2>2. PICK i \in Instances : pc[i] = "compCall" /\ loc[i].cur = s
    BY <1>1, <2>1, TakenBack DEF UndoInv, SoloInv, Base
  <2>3. t \in Steps \ AsyncSteps /\ t > s
    BY StoreAssumption DEF Steps
  <2>4. t \in loc[i].todo
    BY <1>1, <2>2, <2>3 DEF UndoInv, ReverseInv, SyncLeft, Undoing
  <2>5. t <= s
    BY <1>1, <2>2, <2>4 DEF UndoInv, ReverseInv, CurIsLast, IsGreatest
  <2> QED
    BY <2>3, <2>5 DEF Steps
<1>2. UndoInv /\ [Next]_vars => UndoInv' /\ [Reverse]_vars
  BY <1>1
<1> QED
  BY <1>2, InitUndoInv, PTL DEF Spec, CompensateInReverse

(***************************************************************************)
(* With one engine at a time and a store that answers, a transaction that  *)
(* executeCompensation reports as completed has taken back every step that *)
(* is recorded as executed, although polls go on recording results while   *)
(* the list is worked off.  A failed write is excluded because that a step *)
(* could not be taken back is known only in memory: when the verdict       *)
(* cannot be written, the next round of the drive loop finds the step      *)
(* failed, has nothing on its list and reports completion, and the result  *)
(* of a poll still under way then rewrites the step.                       *)
(***************************************************************************)
THEOREM NothingLeftTheorem ==
    ASSUME MaxLive <= 1, MaxStoreErrors = 0
    PROVE  Spec => []NoRecordedEffectLeft
<1>1. UndoInv /\ [Next]_vars => UndoInv'
  BY UndoInvStep
<1>2. ASSUME UndoInv
      PROVE  NoRecordedEffectLeft
  <2> SUFFICES ASSUME tx.status = "failed", tx.lastError = "completed",
                      NEW s \in Steps, remote[s] \in {"accepted", "done"}
               PROVE  step[s].status \in {"pending", "running", "failed", "skipped"}
    BY DEF NoRecordedEffectLeft
  <2>1. step[s].status \notin Past
    BY <1>2 DEF UndoInv, CleanInv, Completed, Leftover
  <2>2. step[s].status \in StepStatus
    BY <1>2 DEF UndoInv, SoloInv, Base, TypeOK, StoreTypeOK, StepRow
  <2> QED
    BY <2>1, <2>2 DEF StepStatus, Past
<1> QED
  BY <1>1, <1>2, InitUndoInv, PTL DEF Spec
=============================================================================
