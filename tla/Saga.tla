-------------------------------- MODULE Saga ---------------------------------
(***************************************************************************)
(* The saga engine (saga/engine.go): a set of engine instances that share  *)
(* one database and drive one transaction, each made of the coordinator,   *)
(* executor and poller modules this one composes.  Here are the life cycle *)
(* of an instance, Engine.Submit, the whole next-state relation and the    *)
(* properties.                                                             *)
(***************************************************************************)
EXTENDS SagaCoordinator

CONSTANTS
    MaxLive,     \* instances that may run at the same time
    CanStop,     \* whether Engine.Stop may be called
    CanCrash,    \* whether a process may crash
    CallerWaits, \* whether the caller uses SubmitAndWait, not Submit
    QueryRetryLimit   \* submitAndWaitQueryRetryLimit

ASSUME EngineAssumption ==
    /\ MaxLive \in Nat
    /\ CanStop \in BOOLEAN
    /\ CanCrash \in BOOLEAN
    /\ CallerWaits \in BOOLEAN
    /\ QueryRetryLimit \in Nat \ {0}

VARIABLE client   \* the caller: inside Submit after the insert, then waiting

vars == <<storeVars, clockVars, execVars, pollerVars, scanVars, client>>

Caller == [pc      : {"idle", "submit", "wait", "told"},
           at      : Instances \cup {NoInstance},
           fails   : 0..QueryRetryLimit,
           verdict : {"none", "succeeded", "failed"}]

NoCaller == [pc |-> "idle", at |-> NoInstance, fails |-> 0, verdict |-> "none"]

TypeOK ==
    /\ StoreTypeOK
    /\ ExecutorTypeOK
    /\ PollerTypeOK
    /\ CoordinatorTypeOK
    /\ client \in Caller

Init ==
    /\ StoreInit
    /\ ExecutorInit
    /\ PollerInit
    /\ CoordinatorInit
    /\ client = NoCaller

-----------------------------------------------------------------------------
(* Engine.Submit: one SQL transaction, then Coordinator.Submit *)

Create(i) ==
    /\ Live(i)
    /\ tx.status = "none"
    /\ CreateTransactionWithSteps
    /\ client' = [pc |-> "submit", at |-> i, fails |-> 0, verdict |-> "none"]
    /\ UNCHANGED <<pollTask, clockVars, execVars, pollerVars, scanVars>>

Enqueue(i) ==
    /\ client.pc = "submit"
    /\ client.at = i
    /\ Live(i)
    /\ SubmitAccepts(i) \/ SubmitDeclines(i)
    /\ client' = IF CallerWaits THEN [client EXCEPT !.pc = "wait"] ELSE NoCaller
    /\ UNCHANGED <<storeVars, clockVars, remote, pollerVars, scanVars>>

-----------------------------------------------------------------------------
(***************************************************************************)
(* waitForTransaction: query, wait, query again.  The timer between two    *)
(* queries and the steps of the view are left out; a call that ends        *)
(* without a verdict leaves no trace.  The caller's context is not the     *)
(* engine's: a stop does not end it.                                       *)
(***************************************************************************)
Waiting(i) == client.pc = "wait" /\ client.at = i /\ Live(i)

(* Seeded fault: compensating is taken for the end. *)
QueryAnswered_Early(i) ==
    /\ Waiting(i)
    /\ client' = IF tx.status \in {"succeeded", "failed", "compensating"}
                   THEN [client EXCEPT !.pc = "told", !.fails = 0,
                           !.verdict = IF tx.status = "succeeded" THEN "succeeded" ELSE "failed"]
                   ELSE [client EXCEPT !.fails = 0]
    /\ UNCHANGED <<storeVars, clockVars, execVars, pollerVars, scanVars>>

(* Seeded fault: only success ends the wait. *)
QueryAnswered_SuccessOnly(i) ==
    /\ Waiting(i)
    /\ client' = IF tx.status = "succeeded"
                   THEN [client EXCEPT !.pc = "told", !.fails = 0, !.verdict = tx.status]
                   ELSE [client EXCEPT !.fails = 0]
    /\ UNCHANGED <<storeVars, clockVars, execVars, pollerVars, scanVars>>

QueryAnswered(i) ==
    /\ Waiting(i)
    /\ client' = IF GetTransaction.status \in {"succeeded", "failed"}
                   THEN [pc |-> "told", at |-> i, fails |-> 0,
                         verdict |-> GetTransaction.status]
                   ELSE [client EXCEPT !.fails = 0]
    /\ UNCHANGED <<storeVars, clockVars, execVars, pollerVars, scanVars>>

(* QueryRetryLimit failures in a row end the call. *)
QueryFails(i) ==
    /\ Waiting(i)
    /\ StoreError
    /\ client' = IF client.fails + 1 >= QueryRetryLimit
                   THEN NoCaller ELSE [client EXCEPT !.fails = client.fails + 1]
    /\ UNCHANGED <<storeVars, timedOut, expiries, phase, execVars, pollerVars, scanVars>>

(* The caller's context ends. *)
WaitCancelled(i) ==
    /\ Waiting(i)
    /\ client' = NoCaller
    /\ UNCHANGED <<storeVars, clockVars, execVars, pollerVars, scanVars>>

-----------------------------------------------------------------------------
(* The life cycle of an engine *)

LiveInstances == {i \in Instances : Live(i)}

(* Engine.Start: poller, workers, recovery scan and timeout scanner. *)
Start(i) ==
    /\ phase[i] = "down"
    /\ Cardinality(LiveInstances) < MaxLive
    /\ phase' = [phase EXCEPT ![i] = "up"]
    /\ recovery' = [recovery EXCEPT ![i] = "wait"]
    /\ UNCHANGED <<storeVars, timedOut, expiries, errs, execVars, pollerVars, scan, client>>

(* Engine.Stop cancels the context, closes stopCh and waits. *)
Stop(i) ==
    /\ CanStop
    /\ phase[i] = "up"
    /\ phase' = [phase EXCEPT ![i] = "stopping"]
    /\ UNCHANGED <<storeVars, timedOut, expiries, errs, execVars, pollerVars, scanVars, client>>

(* The memory of a process that is gone, or whose database is closed. *)
Forget(i) ==
    /\ phase' = [phase EXCEPT ![i] = "dead"]
    /\ Leave(i, "idle")
    /\ UnregisterNotify(i)
    /\ poll' = [poll EXCEPT ![i] = [s \in Steps |-> NoPoll]]
    /\ recovery' = [recovery EXCEPT ![i] = "off"]
    /\ scan' = [scan EXCEPT ![i] = NoScan]
    /\ client' = IF client.at = i /\ client.pc # "told" THEN NoCaller ELSE client
    /\ UNCHANGED <<storeVars, timedOut, expiries, errs, remote>>

(***************************************************************************)
(* Every goroutine has returned: the workers with the queue abandoned, the *)
(* scanners and the poller between two rounds.                             *)
(***************************************************************************)
Stopped(i) ==
    /\ phase[i] = "stopping"
    /\ pc[i] \in {"idle", "queued"}
    /\ recovery[i] \in {"off", "wait"}
    /\ scan[i].pc = "idle"
    /\ \A s \in Steps : poll[i][s].pc = "idle"
    /\ Forget(i)

Crash(i) ==
    /\ CanCrash
    /\ Live(i)
    /\ Forget(i)

-----------------------------------------------------------------------------
Executor(i)    == ExecutorStep(i) /\ UNCHANGED <<pollerVars, scanVars, client>>
Driver(i)      == DriverStep(i) /\ UNCHANGED client
Poller(i)      == PollerStep(i) /\ UNCHANGED <<scanVars, client>>
Recovery(i)    == RecoveryStep(i) /\ UNCHANGED client
TimeoutScan(i) == TimeoutStep(i) /\ UNCHANGED client
Participant(s) == (RequestArrives(s) \/ JobEnds(s))
                  /\ UNCHANGED <<pollerVars, scanVars, client>>

(* The lock holder is between claiming or listing and releasing. *)
LeaseInUse ==
    \E i \in LiveInstances :
        /\ tx.lockedBy = i
        /\ \/ pc[i] # "idle"
           \/ recovery[i] \in {"submit", "release"}
           \/ scan[i].pc # "idle"

(* A poll of the step goes on in a running process. *)
PollInUse(s) == \E i \in LiveInstances : poll[i][s].pc # "idle"

LeaseClock    == LeaseExpires(LeaseInUse)
                 /\ UNCHANGED <<execVars, pollerVars, scanVars, client>>
PollLockClock == (\E s \in Steps : PollLockExpires(s, PollInUse(s)))
                 /\ UNCHANGED <<execVars, pollerVars, scanVars, client>>
DeadlineClock == DeadlinePasses
                 /\ UNCHANGED <<execVars, pollerVars, scanVars, client>>

Engine(i) ==
    \/ Create(i)
    \/ Enqueue(i)
    \/ Start(i)
    \/ Stop(i)
    \/ Stopped(i)
    \/ Crash(i)
    \/ QueryAnswered(i)
    \/ QueryFails(i)
    \/ WaitCancelled(i)

Next ==
    \/ \E i \in Instances :
          \/ Engine(i)
          \/ Driver(i)
          \/ Executor(i)
          \/ Poller(i)
          \/ Recovery(i)
          \/ TimeoutScan(i)
    \/ \E s \in Steps : Participant(s)
    \/ LeaseClock
    \/ PollLockClock
    \/ DeadlineClock

Spec == Init /\ [][Next]_vars

(***************************************************************************)
(* Fairness: every goroutine of a running process is scheduled, timers     *)
(* fire, requests to participants end, and somebody starts the engine,     *)
(* completes Engine.Submit and goes on querying.  Nothing is assumed of    *)
(* crashes, stops, store failures, callers that give up or lost requests   *)
(* that arrive late.                                                       *)
(***************************************************************************)
Fairness ==
    /\ \A i \in Instances :
          /\ WF_vars(Create(i))
          /\ WF_vars(Enqueue(i))
          /\ WF_vars(QueryAnswered(i))
          /\ WF_vars(Start(i))
          /\ WF_vars(Stopped(i))
          /\ WF_vars(Driver(i) \/ Executor(i))
          /\ WF_vars(Poller(i))
          /\ WF_vars(Recovery(i))
          /\ WF_vars(TimeoutScan(i))
    /\ WF_vars(LeaseClock)
    /\ WF_vars(DeadlineClock)

FairSpec == Spec /\ Fairness

-----------------------------------------------------------------------------
(* Properties that hold however many instances run at once *)

(***************************************************************************)
(* A transaction is recorded as succeeded only when every participant has  *)
(* done its part and none of it was taken back: executeNextStep decides on *)
(* rows it read earlier, while pollers, other drivers and the timeout      *)
(* scanner write.                                                          *)
(***************************************************************************)
SuccessIsComplete ==
    tx.status = "succeeded" => \A s \in Steps : remote[s] = "done"

(***************************************************************************)
(* A step recorded as compensated was taken back at its participant.       *)
(***************************************************************************)
CompensatedIsUndone ==
    \A s \in Steps : step[s].status = "compensated" => remote[s] = "undone"

(***************************************************************************)
(* The engine implements the contract of a saga (module SagaAbstract): the *)
(* status graph of docs/modules/saga.md, with effects tied to it.          *)
(***************************************************************************)
EffectOf(r) == CASE r = "done"   -> "applied"
                 [] r = "undone" -> "undone"
                 [] OTHER        -> "none"

Contract == INSTANCE SagaAbstract
              WITH status <- tx.status,
                   effect <- [s \in Steps |-> EffectOf(remote[s])]

Refinement == Contract!Spec

(***************************************************************************)
(* The invariant these rest on.  The places of the drivers, scanners and   *)
(* pollers and the rows they hold are never ahead of what the participants *)
(* did and what the transaction's status admits: a row or a remembered row *)
(* that says succeeded is true of the participant, a forward request       *)
(* belongs to a transaction that has begun and a compensating one to a     *)
(* transaction that was given up.                                          *)
(***************************************************************************)
Begun      == tx.status \in {"running", "compensating", "succeeded", "failed"}
GivenUp    == tx.status \in {"compensating", "failed"}
Settled(s) == remote[s] \in {"done", "undone"}

EffectsAreLawful ==
    \A s \in Steps : /\ remote[s] # "none" => Begun
                     /\ remote[s] = "undone" => GivenUp
                     /\ remote[s] \in {"accepted", "failed"} => s \in AsyncSteps

RowsAreTrue ==
    \A s \in Steps : step[s].status = "succeeded" => Settled(s)

LocalsAreLawful(i) ==
    /\ loc[i].status = "running" => Begun
    /\ loc[i].status = "compensating" => GivenUp
    /\ \A s \in Steps : loc[i].steps[s].status = "succeeded" => Settled(s)

PlaceIsLawful(i) ==
    /\ pc[i] \in {"markRunning", "call"} => Begun
    /\ pc[i] \in {"compensate", "compCall", "compSave", "compFail", "finish"} => GivenUp
    /\ pc[i] = "markSucceeded" => Settled(loc[i].cur)
    /\ pc[i] = "casSucceeded" => \A s \in Steps : Settled(s)
    /\ pc[i] = "compSave" => remote[loc[i].cur] = "undone"

DriverIsLawful(i) == LocalsAreLawful(i) /\ PlaceIsLawful(i)

ScannersAreLawful ==
    \A i \in Instances :
       /\ scan[i].pc = "cas" => scan[i].status \in {"running", "compensating"}
       /\ \A s \in Steps : poll[i][s].pc = "record" /\ poll[i][s].result = "success"
                             => Settled(s)

Lawful ==
    /\ EffectsAreLawful
    /\ SuccessIsComplete
    /\ RowsAreTrue
    /\ CompensatedIsUndone
    /\ \A i \in Instances : DriverIsLawful(i)
    /\ ScannersAreLawful

-----------------------------------------------------------------------------
(* Properties of a deployment that runs one instance at a time *)

(***************************************************************************)
(* A succeeded transaction has every step recorded as succeeded.           *)
(***************************************************************************)
SuccessIsRecorded ==
    tx.status = "succeeded" => \A s \in Steps : step[s].status = "succeeded"

(***************************************************************************)
(* Forward actions run in order: when a step first reaches its participant *)
(* every earlier step is done (executeNextStep and the recovery of a       *)
(* half-done transaction).                                                 *)
(***************************************************************************)
ForwardInOrder ==
    [][\A s \in Steps :
          remote[s] = "none" /\ remote'[s] # "none"
             => \A r \in 1..(s - 1) : remote[r] = "done"]_vars

(***************************************************************************)
(* Compensation runs backwards: when a step is taken back no later sync    *)
(* step is still recorded as succeeded.  (A late poll result may rewrite   *)
(* an async step whose compensation was already tried.)                    *)
(***************************************************************************)
CompensateInReverse ==
    [][\A s \in Steps :
          remote[s] # "undone" /\ remote'[s] = "undone"
             => \A t \in ((s + 1)..N) \ AsyncSteps : step[t].status # "succeeded"]_vars

(***************************************************************************)
(* The verdict of a transaction, with the reason written beside it, is     *)
(* final.                                                                  *)
(***************************************************************************)
VerdictIsFinal ==
    [][tx.status \in {"succeeded", "failed"}
          => tx'.status = tx.status /\ tx'.lastError = tx.lastError]_vars

(***************************************************************************)
(* Of a transaction whose compensation is reported as completed, no step   *)
(* keeps its effect unless its row says the forward action did not come to *)
(* an end that was recorded.                                               *)
(***************************************************************************)
NoRecordedEffectLeft ==
    tx.status = "failed" /\ tx.lastError = "completed" =>
       \A s \in Steps :
          remote[s] \in {"accepted", "done"}
             => step[s].status \in {"pending", "running", "failed", "skipped"}

(***************************************************************************)
(* handleHTTPError counts at most MaxRetry failed attempts of a step, and  *)
(* one more for each failed call of the database and each crash: that the  *)
(* limit was reached is known only to the process until the step is        *)
(* written failed.                                                         *)
(***************************************************************************)
Dead   == {i \in Instances : phase[i] = "dead"}
Lapses == errs + (IF CanCrash THEN Cardinality(Dead) ELSE 0)

RetriesBounded == \A s \in Steps : step[s].retryCount <= MaxRetry + Lapses

(***************************************************************************)
(* processPollTask counts at most PollMaxTimes polls of a step, across     *)
(* crashes of the poller between counting and releasing.                   *)
(***************************************************************************)
PollsBounded == \A s \in Steps : step[s].pollCount <= PollMaxTimes

(***************************************************************************)
(* A driver that waits for an async step whose outcome is recorded has a   *)
(* notification in its channel or on its way (RegisterNotify, the second   *)
(* read of the step and notify close the race between them).               *)
(***************************************************************************)
NoLostWakeup ==
    \A i \in Instances :
       pc[i] = "waiting" /\ step[loc[i].cur].status \in {"succeeded", "failed"}
          => \/ notifyCh[i] \in {"success", "failure"}
             \/ poll[i][loc[i].cur].pc \in {"delete", "notify"}

(***************************************************************************)
(* What SubmitAndWait returned is the verdict the transaction keeps, and a *)
(* success is one with every effect in place.                              *)
(***************************************************************************)
VerdictTold ==
    client.pc = "told" =>
       /\ tx.status = client.verdict
       /\ client.verdict = "succeeded" => \A s \in Steps : remote[s] = "done"

-----------------------------------------------------------------------------
(* Liveness *)

Decided == tx.status \in {"succeeded", "failed"}
AllDead == \A i \in Instances : phase[i] = "dead"

(***************************************************************************)
(* A submitted transaction is decided, if nothing crashes or is stopped.   *)
(***************************************************************************)
EventuallyDecided == tx.status = "pending" ~> Decided

(***************************************************************************)
(* A transaction with a deadline that has begun is decided as long as an   *)
(* instance is left to run.                                                *)
(***************************************************************************)
BegunIsDecided == tx.status \in {"running", "compensating"} ~> Decided \/ AllDead

(***************************************************************************)
(* SubmitAndWait returns although its caller's context never ends, in the  *)
(* setting of EventuallyDecided.                                           *)
(***************************************************************************)
WaitReturns == client.pc = "wait" ~> client.pc # "wait"

(* Engine.Stop returns. *)
StopReturns == \A i \in Instances : phase[i] = "stopping" ~> phase[i] = "dead"

-----------------------------------------------------------------------------
(* What comments and documents say and the code does not do *)

(***************************************************************************)
(* "only one instance processes a given transaction at a time"             *)
(* (coordinator.go:269): no two instances have a request of it under way.  *)
(***************************************************************************)
Requesting(i) == pc[i] \in {"call", "compCall"}

OneDriver == \A i, j \in Instances : Requesting(i) /\ Requesting(j) => i = j

(***************************************************************************)
(* A crashed instance's transaction is taken over (saga/README.md:566).    *)
(***************************************************************************)
CrashIsRecovered == tx.status \in ActiveStatus ~> Decided \/ AllDead
=============================================================================
