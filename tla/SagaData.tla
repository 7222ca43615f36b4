------------------------------ MODULE SagaData ------------------------------
(***************************************************************************)
(* What the requests of a saga say: the data of one transaction on its way *)
(* from the responses through the store into the templates of later        *)
(* requests (executor.go, coordinator.go, poller.go).                      *)
(*                                                                         *)
(* The control of the saga is that of Saga.tla, reduced to one driver and  *)
(* one poller; the driver renders from the steps it loaded at the start of *)
(* its round, the poller from the steps it reads itself.  How a template   *)
(* is rendered and a response judged is a parameter here; SagaTemplate     *)
(* has the operators of template.go and jsonpath.go that TLC puts in.      *)
(***************************************************************************)
EXTENDS Integers, FiniteSets

CONSTANTS
    N,              \* steps of the transaction
    AsyncSteps,
    ActionTpls, PollTpls, CompensateTpls,   \* templates the definitions choose from
    Responses,      \* what participants answer to an action
    PollResponses,  \* and to a poll
    Nil,            \* the response of a step that has none
    Data(_, _),     \* BuildTemplateData: rows of the steps, number of the current one
    Render(_, _),   \* RenderURL and RenderPayloadJSON: template, data
    Means(_, _, _), \* a request says what its template means, given the data
    Accepts(_),     \* parseHTTPResponseEnvelope
    Verdict(_),     \* MatchPollResult with the settings of the step
    MaxRetry, PollMaxTimes, MaxCrashes

Steps == 1..N

ASSUME SagaDataAssumption ==
    /\ {N, MaxRetry, PollMaxTimes, MaxCrashes} \subseteq Nat
    /\ AsyncSteps \subseteq Steps

VARIABLES
    tpl,      \* the templates of the steps
    steps,    \* the steps as stored: status and ActionResponse
    tx,       \* status of the transaction
    task,     \* the poll task of a step exists
    driver,   \* the worker: where it is, its step, what is left to compensate
    mem,      \* the steps it loaded
    poller,   \* the poller: where it is, its step, the response it got
    count,    \* retries of a step, polls of a step
    crashes,
    sent      \* every request rendered, sent or given up before (for the properties)

vars == <<tpl, steps, tx, task, driver, mem, poller, count, crashes, sent>>

Statuses == {"pending", "running", "polling", "succeeded", "failed",
             "compensating", "compensated", "skipped"}
Rows     == [Steps -> [status : Statuses, response : Responses \cup PollResponses \cup {Nil}]]
Tpls     == [action : ActionTpls, poll : PollTpls, compensate : CompensateTpls]

At(p, i)     == [at |-> p, step |-> i, todo |-> {}]
Back(todo)   == [at |-> "back", step |-> 0, todo |-> todo]
DriverIdle   == driver' = At("idle", 0) /\ mem' = <<>>
Holding(p, i, r) == [at |-> p, step |-> i, response |-> r]
PollerIdle   == poller' = Holding("idle", 0, Nil)

Init ==
    /\ tpl \in [Steps -> Tpls]
    /\ steps = [i \in Steps |-> [status |-> "pending", response |-> Nil]]
    /\ tx = "running"
    /\ task = [i \in Steps |-> FALSE]
    /\ driver = At("idle", 0) /\ mem = <<>>
    /\ poller = Holding("idle", 0, Nil)
    /\ count = [i \in Steps |-> [retry |-> 0, poll |-> 0]]
    /\ crashes = 0
    /\ sent = {}

Put(i, status)    == [steps EXCEPT ![i].status = status]
Store(i, r)       == [steps EXCEPT ![i].response = r]
Sends(kind, i, r) == sent' = sent \cup {[kind |-> kind, step |-> i, req |-> r]}

-----------------------------------------------------------------------------
(* The driver: a round begins with loading the steps. *)
Load ==
    /\ driver.at = "idle"
    /\ tx \in {"running", "compensating"}
    /\ mem' = steps
    /\ driver' = IF tx = "running" THEN At("forward", 0)
                 ELSE Back({i \in Steps : steps[i].status \in {"succeeded", "polling", "compensating"}})
    /\ UNCHANGED <<tpl, steps, tx, task, poller, count, crashes, sent>>

Failed     == {i \in Steps : mem[i].status = "failed"}
Left       == {i \in Steps : mem[i].status # "succeeded"}
Current(i) == i \in Left /\ \A j \in Left : i <= j

(* triggerCompensation, after which the loop starts again *)
Compensate(why) ==
    /\ why
    /\ tx' = "compensating"
    /\ DriverIdle

FindsFailed ==
    /\ driver.at = "forward"
    /\ Compensate(Failed # {})
    /\ UNCHANGED <<tpl, steps, task, poller, count, crashes, sent>>

Succeed ==
    /\ driver.at = "forward"
    /\ Left = {}
    /\ tx' = "succeeded"
    /\ DriverIdle
    /\ UNCHANGED <<tpl, steps, task, poller, count, crashes, sent>>

(* The deadline of the transaction or of the wait, wherever it is looked at. *)
TimeOut ==
    /\ driver.at \in {"forward", "wait"}
    /\ Compensate(TRUE)
    /\ UNCHANGED <<tpl, steps, task, poller, count, crashes, sent>>

(* ExecuteStep and ExecuteAsyncStep up to the request *)
Execute(i) ==
    /\ driver.at = "forward" /\ Failed = {} /\ Current(i)
    /\ \/ mem[i].status = "pending"
       \/ mem[i].status = "running" /\ i \notin AsyncSteps
    /\ LET r == Render(tpl[i].action, Data(mem, i))
       IN  IF r.ok THEN /\ steps' = Put(i, "running")
                        /\ Sends("action", i, r.val)
                        /\ driver' = At("sent", i)
                        /\ UNCHANGED <<tx, mem>>
                   ELSE /\ steps' = Put(i, "failed")
                        /\ Compensate(TRUE)
                        /\ UNCHANGED sent
    /\ UNCHANGED <<tpl, task, poller, count, crashes>>

(* updateStepResponse *)
Answered ==
    /\ driver.at = "sent"
    /\ \E r \in Responses : Accepts(r) /\ steps' = Store(driver.step, r)
    /\ driver' = At("answered", driver.step)
    /\ UNCHANGED <<tpl, tx, task, mem, poller, count, crashes, sent>>

(* handleHTTPError: another attempt, or none when there were enough *)
NotAnswered ==
    /\ driver.at = "sent"
    /\ LET i == driver.step
       IN  /\ count' = [count EXCEPT ![i].retry = @ + 1]
           /\ IF count[i].retry + 1 < MaxRetry
                THEN steps' = Put(i, "pending") /\ DriverIdle /\ UNCHANGED tx
                ELSE steps' = Put(i, "failed") /\ Compensate(TRUE)
    /\ UNCHANGED <<tpl, task, poller, crashes, sent>>

(* No attempt is left to make: the request could not be signed, or the     *)
(* transaction timed out during the call.                                  *)
GivenUp ==
    /\ driver.at = "sent"
    /\ steps' = Put(driver.step, "failed")
    /\ Compensate(TRUE)
    /\ UNCHANGED <<tpl, task, poller, count, crashes, sent>>

(* A synchronous step is done; an asynchronous one gets its poll task first. *)
Record ==
    /\ driver.at = "answered"
    /\ LET i == driver.step
       IN  IF i \in AsyncSteps
             THEN /\ task' = [task EXCEPT ![i] = TRUE]
                  /\ driver' = At("tasked", i)
                  /\ UNCHANGED <<steps, mem>>
             ELSE steps' = Put(i, "succeeded") /\ DriverIdle /\ UNCHANGED task
    /\ UNCHANGED <<tpl, tx, poller, count, crashes, sent>>

StartPolling ==
    /\ driver.at = "tasked"
    /\ steps' = Put(driver.step, "polling")
    /\ driver' = At("wait", driver.step)
    /\ UNCHANGED <<tpl, tx, task, mem, poller, count, crashes, sent>>

(* waitForAsyncStep, entered again after a restart *)
AwaitAgain(i) ==
    /\ driver.at = "forward" /\ Failed = {} /\ Current(i)
    /\ i \in AsyncSteps /\ mem[i].status \in {"running", "polling"}
    /\ driver' = At("wait", i)
    /\ UNCHANGED <<tpl, steps, tx, task, mem, poller, count, crashes, sent>>

Awaited ==
    /\ driver.at = "wait"
    /\ \/ steps[driver.step].status = "succeeded" /\ DriverIdle /\ UNCHANGED tx
       \/ Compensate(steps[driver.step].status = "failed")
    /\ UNCHANGED <<tpl, steps, task, poller, count, crashes, sent>>

(* CompensateStep, last step first; a request that cannot be rendered ends it at once. *)
Undo(i) ==
    /\ driver.at = "back" /\ i \in driver.todo
    /\ \A j \in driver.todo : j <= i
    /\ LET r    == Render(tpl[i].compensate, Data(mem, i))
           left == driver.todo \ {i}
       IN  IF r.ok THEN /\ steps' = Put(i, "compensating")
                        /\ Sends("compensate", i, r.val)
                        /\ driver' = [at |-> "undoing", step |-> i, todo |-> left]
                   ELSE /\ steps' = Put(i, "failed")
                        /\ driver' = Back(left)
                        /\ UNCHANGED sent
    /\ UNCHANGED <<tpl, tx, task, mem, poller, count, crashes>>

Undone ==
    /\ driver.at = "undoing"
    /\ \E status \in {"compensated", "failed"} : steps' = Put(driver.step, status)
    /\ driver' = Back(driver.todo)
    /\ UNCHANGED <<tpl, tx, task, mem, poller, count, crashes, sent>>

(* executeCompensation's end: steps never begun are skipped. *)
Settle ==
    /\ driver.at = "back" /\ driver.todo = {}
    /\ steps' = [i \in Steps |-> IF mem[i].status = "pending"
                                   THEN [steps[i] EXCEPT !.status = "skipped"] ELSE steps[i]]
    /\ tx' = "failed"
    /\ DriverIdle
    /\ UNCHANGED <<tpl, task, poller, count, crashes, sent>>

-----------------------------------------------------------------------------
(* The poller: read the step, ask, judge the answer, write it down. *)

Ask(i) ==
    /\ poller.at = "idle"
    /\ task[i] /\ steps[i].status = "polling"
    /\ LET r == Render(tpl[i].poll, Data(steps, i))
       IN  r.ok /\ Sends("poll", i, r.val)
    /\ poller' = Holding("asked", i, Nil)
    /\ UNCHANGED <<tpl, steps, tx, task, driver, mem, count, crashes>>

DropTask(i) ==
    /\ poller.at = "idle"
    /\ task[i] /\ steps[i].status # "polling"
    /\ task' = [task EXCEPT ![i] = FALSE]
    /\ UNCHANGED <<tpl, steps, tx, driver, mem, poller, count, crashes, sent>>

(* The answer says that the work is done. *)
JudgeSuccess(r) ==
    /\ poller.at = "asked"
    /\ Verdict(r) = "success"
    /\ poller' = Holding("success", poller.step, r)
    /\ UNCHANGED <<tpl, steps, tx, task, driver, mem, count, crashes, sent>>

(* What handlePollFailure and handlePollTimeout write *)
FailPolled ==
    /\ steps' = Put(poller.step, "failed")
    /\ task' = [task EXCEPT ![poller.step] = FALSE]
    /\ PollerIdle
    /\ UNCHANGED <<tpl, tx, driver, mem, count, crashes, sent>>

GiveUp(r) ==
    /\ poller.at = "asked"
    /\ \/ Verdict(r) = "failure"
       \/ Verdict(r) = "processing" /\ count[poller.step].poll >= PollMaxTimes
    /\ FailPolled

AskLater(r) ==
    /\ poller.at = "asked"
    /\ Verdict(r) = "processing" /\ count[poller.step].poll < PollMaxTimes
    /\ count' = [count EXCEPT ![poller.step].poll = @ + 1]
    /\ PollerIdle
    /\ UNCHANGED <<tpl, steps, tx, task, driver, mem, crashes, sent>>

(* The poll was not signed, which ends the step, or it failed or got an     *)
(* answer parseHTTPResponseEnvelope does not accept: the task is released   *)
(* and asked about again.                                                   *)
NotPolled ==
    /\ poller.at = "asked"
    /\ \/ FailPolled
       \/ /\ PollerIdle
          /\ UNCHANGED <<tpl, steps, tx, task, driver, mem, count, crashes, sent>>

Judge == \E r \in PollResponses : Accepts(r) /\ (JudgeSuccess(r) \/ GiveUp(r) \/ AskLater(r))

(* Seeded fault: the step is marked first, its response stored afterwards. *)
StoreResponse_AfterMark ==
    /\ poller.at = "success"
    /\ IF steps[poller.step].status = "polling"
         THEN steps' = Put(poller.step, "succeeded") /\ UNCHANGED poller
         ELSE /\ steps' = Store(poller.step, poller.response)
              /\ poller' = [poller EXCEPT !.at = "stored"]
    /\ UNCHANGED <<tpl, tx, task, driver, mem, count, crashes, sent>>

(* handlePollSuccess: the response takes the place of the action's. *)
StoreResponse ==
    /\ poller.at = "success"
    /\ steps' = Store(poller.step, poller.response)
    /\ poller' = [poller EXCEPT !.at = "stored"]
    /\ UNCHANGED <<tpl, tx, task, driver, mem, count, crashes, sent>>

MarkSucceeded ==
    /\ poller.at = "stored"
    /\ steps' = Put(poller.step, "succeeded")
    /\ task' = [task EXCEPT ![poller.step] = FALSE]
    /\ PollerIdle
    /\ UNCHANGED <<tpl, tx, driver, mem, count, crashes, sent>>

-----------------------------------------------------------------------------
(* The process dies and another one goes on from the store. *)
Crash ==
    /\ crashes < MaxCrashes
    /\ driver.at # "idle" \/ poller.at # "idle"
    /\ crashes' = crashes + 1
    /\ DriverIdle
    /\ PollerIdle
    /\ UNCHANGED <<tpl, steps, tx, task, count, sent>>

Drive == \/ Load \/ FindsFailed \/ Succeed \/ TimeOut \/ Answered \/ NotAnswered \/ GivenUp
         \/ Record \/ StartPolling \/ Awaited \/ Undone \/ Settle
         \/ \E i \in Steps : Execute(i) \/ AwaitAgain(i) \/ Undo(i)

PollStep == (\E i \in AsyncSteps : Ask(i) \/ DropTask(i)) \/ Judge \/ NotPolled
            \/ StoreResponse \/ MarkSucceeded

Next == Drive \/ PollStep \/ Crash

Spec == Init /\ [][Next]_vars

-----------------------------------------------------------------------------
MeansNow(x, t) == Means(x.req, t, Data(steps, x.step))

(***************************************************************************)
(* What was sent under an idempotency key is what would be sent again: an  *)
(* action, the compensation of a synchronous step, and a poll say what     *)
(* their templates mean of the responses that are stored now, whatever was *)
(* retried, polled or begun again after a crash (ExecuteStep,              *)
(* CompensateStep, Poll, handlePollSuccess).  Once a poll's answer has     *)
(* taken the place of the action's, the polls and the compensation of that *)
(* step may change.                                                        *)
(***************************************************************************)
RequestsHold ==
    \A x \in sent :
       /\ x.kind = "action" => MeansNow(x, tpl[x.step].action)
       /\ x.kind = "compensate" /\ x.step \notin AsyncSteps => MeansNow(x, tpl[x.step].compensate)
       /\ x.kind = "poll" /\ steps[x.step].response \notin PollResponses
            => MeansNow(x, tpl[x.step].poll)

-----------------------------------------------------------------------------
(***************************************************************************)
(* What the definitions of a transaction must see to: an action reads the  *)
(* responses of earlier steps and no others, a compensation and a poll     *)
(* those of their own step besides, and no template reads the status of a  *)
(* step.  Stated of the rows each is rendered from for the first time.     *)
(***************************************************************************)
Alike(old, new, n) == \A j \in 1..n : old[j].response = new[j].response

Depends(t, i, old, n) ==
    LET r == Render(t, Data(old, i))
    IN  r.ok => \A new \in Rows : Alike(old, new, n) =>
                   /\ Means(r.val, t, Data(new, i))
                   /\ n < i => Render(t, Data(new, i)) = r

FirstAttempt(old, i) ==
    \A j \in Steps : IF j < i THEN old[j].status = "succeeded"
                     ELSE old[j] = [status |-> "pending", response |-> Nil]

LocalTemplates ==
    \A i \in Steps : \A old \in Rows :
       /\ FirstAttempt(old, i) => \A t \in ActionTpls : Depends(t, i, old, i - 1)
       /\ i \notin AsyncSteps /\ old[i].status \in {"succeeded", "compensating"}
            => \A t \in CompensateTpls : Depends(t, i, old, i)
       /\ i \in AsyncSteps /\ old[i].status = "polling"
            => \A t \in PollTpls : Depends(t, i, old, i)
=============================================================================
