------------------------------ MODULE SagaStore ------------------------------
(***************************************************************************)
(* The durable state of one saga transaction and the operations that       *)
(* saga/store.go performs on it: the row of saga_transactions, the rows of *)
(* saga_steps and the rows of saga_poll_tasks, all in one PostgreSQL       *)
(* database shared by every engine instance.                               *)
(*                                                                         *)
(* Each SQL statement (or SQL transaction) is atomic.  Time is             *)
(* asynchronous: a lease, a poll-task lock and the transaction's deadline  *)
(* may run out at any moment after they were set.                          *)
(***************************************************************************)
EXTENDS Integers, FiniteSets

CONSTANTS
    Instances,       \* engine instances; a restarted process is a new one
    NoInstance,      \* locked_by IS NULL
    N,               \* number of steps of the transaction
    AsyncSteps,      \* the steps of type async; the others are sync
    HasTimeout,      \* TimeoutSec > 0, that is timeout_at IS NOT NULL
    MaxExpiries,     \* bound on the locks that run out while in use
    MaxStoreErrors   \* bound on the transient store failures of a behaviour

Steps == 1..N

ASSUME StoreAssumption ==
    /\ NoInstance \notin Instances
    /\ N \in Nat \ {0}
    /\ AsyncSteps \subseteq Steps
    /\ HasTimeout \in BOOLEAN
    /\ MaxExpiries \in Nat
    /\ MaxStoreErrors \in Nat

VARIABLES
    tx,         \* the row of saga_transactions; status "none" before Submit
    step,       \* the rows of saga_steps
    pollTask,   \* the rows of saga_poll_tasks: "absent", "free" or "locked"
    timedOut,   \* timeout_at < NOW()
    expiries,   \* locks that ran out while in use, so far
    errs,       \* store failures so far
    phase       \* life cycle of each engine, whose ctx every call carries

storeVars == <<tx, step, pollTask>>
clockVars == <<timedOut, expiries, errs, phase>>

ActiveStatus == {"pending", "running", "compensating"}
TxStatus     == ActiveStatus \cup {"none", "succeeded", "failed"}
StepStatus   == {"pending", "running", "polling", "succeeded", "failed",
                 "compensating", "compensated", "skipped"}
StepRow      == [status : StepStatus, retryCount : Nat, pollCount : Nat]
NewStep      == [status |-> "pending", retryCount |-> 0, pollCount |-> 0]

(***************************************************************************)
(* `lastError' keeps apart only the two verdicts of executeCompensation;   *)
(* every other reason is "other".                                          *)
(***************************************************************************)
TxRow == [status      : TxStatus,
          lockedBy    : Instances \cup {NoInstance},
          expired     : BOOLEAN,          \* locked_until < NOW()
          currentStep : 0..N,
          lastError   : {"none", "other", "completed", "partial"}]

StoreTypeOK ==
    /\ tx \in TxRow
    /\ step \in [Steps -> StepRow]
    /\ pollTask \in [Steps -> {"absent", "free", "locked"}]
    /\ timedOut \in BOOLEAN
    /\ expiries \in 0..MaxExpiries
    /\ errs \in 0..MaxStoreErrors
    /\ phase \in [Instances -> {"down", "up", "stopping", "dead"}]

StoreInit ==
    /\ tx = [status |-> "none", lockedBy |-> NoInstance, expired |-> FALSE,
             currentStep |-> 0, lastError |-> "none"]
    /\ step = [s \in Steps |-> NewStep]
    /\ pollTask = [s \in Steps |-> "absent"]
    /\ timedOut = FALSE
    /\ expiries = 0
    /\ errs = 0
    /\ phase = [i \in Instances |-> "down"]

-----------------------------------------------------------------------------
(***************************************************************************)
(* How a call of an instance ends.  A call made with the engine's own      *)
(* context fails once Engine.Stop has cancelled it; a call made with       *)
(* durableStoreContext outlives the cancellation.  Either may hit a        *)
(* transient failure of the database, which changes nothing there.         *)
(***************************************************************************)
Live(i) == phase[i] \in {"up", "stopping"}

StoreError == errs < MaxStoreErrors /\ errs' = errs + 1

CallOK(i)    == phase[i] = "up" /\ UNCHANGED errs

(* Seeded fault: a cancelled context does not end the call. *)
CallFails_NotCancelled(i) == phase[i] = "up" /\ StoreError

CallFails(i) == \/ phase[i] = "stopping" /\ UNCHANGED errs
                \/ phase[i] = "up" /\ StoreError

DurableOK(i)    == Live(i) /\ UNCHANGED errs
DurableFails(i) == Live(i) /\ StoreError

(***************************************************************************)
(* A call made with withTransactionExecutionContext also fails once the    *)
(* deadline of the transaction has passed.                                 *)
(***************************************************************************)
ExecOK(i)    == CallOK(i) /\ ~timedOut
ExecFails(i) == \/ CallFails(i)
                \/ Live(i) /\ timedOut /\ UNCHANGED errs

-----------------------------------------------------------------------------
(* saga_transactions *)

CreateTransactionWithSteps ==
    /\ tx' = [tx EXCEPT !.status = "pending"]
    /\ step' = [s \in Steps |-> NewStep]

GetTransaction == tx

LockFree == tx.lockedBy = NoInstance \/ tx.expired

Lock(i) == tx' = [tx EXCEPT !.lockedBy = i, !.expired = FALSE]

Claimable(i) == tx.status \in ActiveStatus /\ (LockFree \/ tx.lockedBy = i)

ClaimTransaction(i) == Claimable(i) /\ Lock(i)

ReleaseTransaction(i) ==
    tx' = IF tx.lockedBy = i
            THEN [tx EXCEPT !.lockedBy = NoInstance, !.expired = FALSE]
            ELSE tx

Recoverable == tx.status \in ActiveStatus /\ LockFree

ListRecoverableTransactions(i) == Recoverable /\ Lock(i)

(* Seeded faults: the status filter is missing, or names only one status. *)
TimeoutDue_AnyStatus   == tx.status # "none" /\ timedOut /\ LockFree
TimeoutDue_RunningOnly == tx.status = "running" /\ timedOut /\ LockFree

TimeoutDue == tx.status \in {"running", "compensating"} /\ timedOut /\ LockFree

ListTimedOutTransactions(i) == TimeoutDue /\ Lock(i)

UpdateTransactionStatus(status, reason) ==
    tx' = [tx EXCEPT !.status = status, !.lastError = reason]

UpdateTransactionStatusCAS(expected, status, reason) ==
    IF tx.status = expected
      THEN UpdateTransactionStatus(status, reason)
      ELSE UNCHANGED tx

(* Seeded fault: one step too far. *)
UpdateTransactionStep_OneMore(n) == tx' = [tx EXCEPT !.currentStep = n + 1]

UpdateTransactionStep(n) == tx' = [tx EXCEPT !.currentStep = n]

-----------------------------------------------------------------------------
(* saga_steps and saga_poll_tasks *)

GetSteps   == step
GetStep(s) == step[s]

UpdateStepStatus(s, status) == step' = [step EXCEPT ![s].status = status]

IncrementStepRetry(s) ==
    step' = [step EXCEPT ![s].retryCount = step[s].retryCount + 1]

(***************************************************************************)
(* One SQL transaction over both tables, rolled back when the poll task    *)
(* row is gone.                                                            *)
(***************************************************************************)
IncrementStepPollCount(s) ==
    /\ pollTask[s] # "absent"
    /\ step' = [step EXCEPT ![s].pollCount = step[s].pollCount + 1]

(***************************************************************************)
(* ON CONFLICT DO UPDATE only moves next_poll_at: a lock held on the       *)
(* existing row stays.                                                     *)
(***************************************************************************)
CreatePollTask(s) ==
    pollTask' = [pollTask EXCEPT ![s] =
                    IF pollTask[s] = "absent" THEN "free" ELSE pollTask[s]]

DeletePollTask(s) == pollTask' = [pollTask EXCEPT ![s] = "absent"]

AcquirePollTasks(due) ==
    /\ due # {}
    /\ \A s \in due : pollTask[s] = "free"
    /\ pollTask' = [s \in Steps |-> IF s \in due THEN "locked" ELSE pollTask[s]]

ReleasePollTask(s) ==
    pollTask' = [pollTask EXCEPT ![s] =
                    IF pollTask[s] = "locked" THEN "free" ELSE pollTask[s]]

-----------------------------------------------------------------------------
(* The passage of time *)

LockExpires == expiries < MaxExpiries /\ expiries' = expiries + 1

(***************************************************************************)
(* locked_until passes.  The owner renews only at the top of its loop, and *)
(* one iteration may outlast any lease: the default LeaseDuration is 5     *)
(* minutes, the default AsyncStepTimeout 10.  A lease nobody acts under    *)
(* (inUse is false) always runs out.                                       *)
(***************************************************************************)
LeaseExpires(inUse) ==
    /\ tx.lockedBy # NoInstance
    /\ ~tx.expired
    /\ IF inUse THEN LockExpires ELSE UNCHANGED expiries
    /\ tx' = [tx EXCEPT !.expired = TRUE]
    /\ UNCHANGED <<step, pollTask, timedOut, errs, phase>>

(* A poll-task lock of AcquirePollTasks runs out after two minutes.  One    *)
(* nobody acts under (its holder died, or its release failed) always does;  *)
(* while a poll goes on it is a delay, counted like a lapsed lease.         *)
PollLockExpires(s, inUse) ==
    /\ pollTask[s] = "locked"
    /\ IF inUse THEN LockExpires ELSE UNCHANGED expiries
    /\ pollTask' = [pollTask EXCEPT ![s] = "free"]
    /\ UNCHANGED <<tx, step, timedOut, errs, phase>>

(* timeout_at passes. *)
DeadlinePasses ==
    /\ HasTimeout
    /\ tx.status # "none"
    /\ ~timedOut
    /\ timedOut' = TRUE
    /\ UNCHANGED <<tx, step, pollTask, expiries, errs, phase>>
=============================================================================
