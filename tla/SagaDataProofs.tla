--------------------------- MODULE SagaDataProofs ---------------------------
(***************************************************************************)
(* Proofs about SagaData: the requests sent under an idempotency key, for  *)
(* every number of steps and every choice of templates, responses and ways *)
(* to render that LocalTemplates allows.                                   *)
(***************************************************************************)
EXTENDS SagaData, TLAPS

Begun(i)  == \E x \in sent : x.kind = "action" /\ x.step = i
Polled(i) == \E x \in sent : x.kind = "poll" /\ x.step = i

Contents == Responses \cup PollResponses \cup {Nil}

DataTypeOK ==
    /\ tpl \in [Steps -> Tpls]
    /\ steps \in Rows
    /\ driver \in [at : {"idle", "forward", "sent", "answered", "tasked", "wait", "back", "undoing"},
                   step : Int, todo : SUBSET Steps]
    /\ poller \in [at : {"idle", "asked", "success", "stored"}, step : Int, response : Contents]
    /\ poller.at \in {"success", "stored"} => poller.response \in PollResponses
    /\ poller.at # "idle" => poller.step \in AsyncSteps
    /\ driver.at \in {"sent", "answered", "tasked", "wait", "undoing"} => driver.step \in Steps
    /\ driver.at = "tasked" => driver.step \in AsyncSteps
    /\ driver.at \in {"forward", "back", "undoing"} => mem \in Rows
    /\ \A x \in sent : x.step \in Steps

(* What the driver works on, and how far its rows can be behind the store. *)
DriverInv ==
    /\ driver.at \in {"forward", "sent", "answered", "tasked", "wait"} => tx = "running"
    /\ driver.at \in {"back", "undoing"} => tx = "compensating"
    /\ driver.at \in {"sent", "answered", "tasked"} => steps[driver.step].status = "running"
    /\ driver.at = "undoing" => Begun(driver.step)
    /\ driver.at = "forward" =>
          \A i \in Steps : mem[i] = steps[i] \/ (mem[i].status = "polling" /\ Begun(i))
    /\ driver.at \in {"back", "undoing"} =>
          \A i \in driver.todo :
             /\ mem[i].status \in {"succeeded", "polling", "compensating"}
             /\ mem[i].status = "polling" => i \in AsyncSteps
             /\ Begun(i)
             /\ i \notin AsyncSteps => Alike(mem, steps, i)

(* No step after the one the poller is about has begun. *)
PollerInv ==
    poller.at # "idle" =>
       /\ Begun(poller.step)
       /\ \A k \in Steps : k > poller.step => ~Begun(k)
       /\ tx = "running" => steps[poller.step].status = "polling"

(* The order of the steps, as their rows show it. *)
BegunInv ==
    \A i \in Steps :
       /\ ~Begun(i) => /\ steps[i].response = Nil
                       /\ tx = "running" => steps[i].status = "pending"
       /\ steps[i].status \in {"running", "polling", "succeeded", "compensating", "compensated"}
             => Begun(i)
       /\ steps[i].status = "polling" => i \in AsyncSteps
       /\ Polled(i) => Begun(i) /\ steps[i].status \notin {"pending", "running"}
       /\ Begun(i) => \A j \in Steps : j < i =>
             /\ steps[j].status \notin {"pending", "running", "polling"}
             /\ tx = "running" => steps[j].status = "succeeded"

(* What x says of template t depends on no response but the first n, as rows has them. *)
Fixed(x, t, n, rows) ==
    \A new \in Rows : Alike(rows, new, n) =>
       /\ Means(x.req, t, Data(new, x.step))
       /\ n < x.step => LET r == Render(t, Data(new, x.step)) IN r.ok /\ r.val = x.req

SentOK(x) ==
    /\ x.kind = "action" => Fixed(x, tpl[x.step].action, x.step - 1, steps)
    /\ x.kind = "compensate" /\ x.step \notin AsyncSteps =>
          /\ tx # "running"
          /\ Begun(x.step)
          /\ Fixed(x, tpl[x.step].compensate, x.step, steps)
    /\ x.kind = "poll" => \/ steps[x.step].response \in PollResponses
                          \/ Fixed(x, tpl[x.step].poll, x.step, steps)

SentInv == \A x \in sent : SentOK(x)

Control == DataTypeOK /\ DriverInv /\ PollerInv /\ BegunInv

IInv == Control /\ SentInv

-----------------------------------------------------------------------------
(* Begun and Polled depend on nothing but what was sent. *)
LEMMA NothingSent ==
    ASSUME sent' = sent
    PROVE  \A i : (Begun(i)' <=> Begun(i)) /\ (Polled(i)' <=> Polled(i))
BY DEF Begun, Polled

(* A request that is sent counts for the step and the kind it is of. *)
LEMMA SendCounts ==
    ASSUME NEW kind \in {"action", "poll", "compensate"}, NEW i, NEW r, Sends(kind, i, r)
    PROVE  \A k : /\ Begun(k)' <=> Begun(k) \/ (kind = "action" /\ k = i)
                  /\ Polled(k)' <=> Polled(k) \/ (kind = "poll" /\ k = i)
<1> DEFINE y == [kind |-> kind, step |-> i, req |-> r]
<1>1. sent' = sent \cup {y} /\ y.kind = kind /\ y.step = i
  BY DEF Sends
<1> HIDE DEF y
<1>2. TAKE k
<1>3. Begun(k)' <=> Begun(k) \/ (kind = "action" /\ k = i)
  BY <1>1 DEF Begun
<1>4. Polled(k)' <=> Polled(k) \/ (kind = "poll" /\ k = i)
  BY <1>1 DEF Polled
<1> QED
  BY <1>3, <1>4

(* Writing a status leaves the responses alone, and the other rows. *)
LEMMA PutRows ==
    ASSUME steps \in Rows, NEW i \in Steps, NEW s \in Statuses
    PROVE  /\ Put(i, s) \in Rows
           /\ \A j \in Steps : Put(i, s)[j].response = steps[j].response
           /\ \A j \in Steps \ {i} : Put(i, s)[j] = steps[j]
           /\ Put(i, s)[i].status = s
BY DEF Rows, Put

(* Writing a response leaves the statuses alone, and the other rows. *)
LEMMA StoreRows ==
    ASSUME steps \in Rows, NEW i \in Steps, NEW r \in Contents
    PROVE  /\ Store(i, r) \in Rows
           /\ \A j \in Steps : Store(i, r)[j].status = steps[j].status
           /\ \A j \in Steps \ {i} : Store(i, r)[j] = steps[j]
           /\ Store(i, r)[i].response = r
BY DEF Rows, Store, Contents

(* Rows that have the same first responses fix the same request. *)
LEMMA FixedBy ==
    ASSUME NEW x, NEW t, NEW n, NEW a, NEW b, Alike(a, b, n), Fixed(x, t, n, a)
    PROVE  Fixed(x, t, n, b)
BY DEF Fixed, Alike

(* A row has a status and a response. *)
LEMMA RowFields ==
    ASSUME NEW rows \in Rows, NEW i \in Steps
    PROVE  rows[i].status \in Statuses /\ rows[i].response \in Contents
BY DEF Rows, Contents

LEMMA Numbers == Steps \subseteq Int /\ AsyncSteps \subseteq Steps
BY SagaDataAssumption DEF Steps

LEMMA Firsts == \A k \in Steps : \A j \in 1..k : j \in Steps
BY SagaDataAssumption DEF Steps

LEMMA InitControl ==
    ASSUME Init
    PROVE  IInv
<1>1. DataTypeOK
  BY DEF Init, DataTypeOK, At, Holding, Rows, Statuses, Contents, Tpls
<1>2. \A i \in Steps : steps[i].status = "pending" /\ steps[i].response = Nil
  BY DEF Init
<1>3. \A i : ~Begun(i) /\ ~Polled(i)
  BY DEF Init, Begun, Polled
<1>4. DriverInv /\ PollerInv
  BY DEF Init, DriverInv, PollerInv, At, Holding
<1>5. BegunInv
  BY <1>2, <1>3 DEF BegunInv
<1> QED
  BY <1>1, <1>4, <1>5 DEF Init, IInv, Control, SentInv, SentOK

-----------------------------------------------------------------------------
(* The control of the driver, action by action. *)

LEMMA LoadControl ==
    ASSUME Control, Load
    PROVE  Control'
<1>1. UNCHANGED <<tpl, steps, tx, poller, sent>> /\ mem' = steps
  BY DEF Load
<1>2. \A i : (Begun(i)' <=> Begun(i)) /\ (Polled(i)' <=> Polled(i))
  BY <1>1, NothingSent
<1>3. PollerInv' /\ BegunInv'
  BY <1>1, <1>2 DEF Control, PollerInv, BegunInv
<1>4. CASE tx = "running"
  <2>1. driver' = At("forward", 0)
    BY <1>4 DEF Load
  <2> QED
    BY <1>1, <1>3, <1>4, <2>1 DEF Control, DataTypeOK, DriverInv, At
<1>5. CASE tx # "running"
  <2>1. /\ tx = "compensating"
        /\ driver' = Back({i \in Steps : steps[i].status \in {"succeeded", "polling", "compensating"}})
    BY <1>5 DEF Load
  <2>2. DataTypeOK'
    BY <1>1, <2>1 DEF Control, DataTypeOK, Back
  <2>3. DriverInv'
    BY <1>1, <1>2, <2>1 DEF Control, BegunInv, DriverInv, Back, Alike
  <2> QED
    BY <1>3, <2>2, <2>3 DEF Control
<1> QED
  BY <1>4, <1>5

(* The driver goes idle and neither a row nor a request is written. *)
LEMMA ReturnControl ==
    ASSUME Control, DriverIdle, UNCHANGED <<tpl, steps, poller, sent>>,
           tx' = "running" => tx = "running"
    PROVE  Control'
<1>1. \A i : (Begun(i)' <=> Begun(i)) /\ (Polled(i)' <=> Polled(i))
  BY NothingSent
<1>2. DataTypeOK' /\ DriverInv'
  BY DEF Control, DataTypeOK, DriverInv, DriverIdle, At
<1>3. PollerInv' /\ BegunInv'
  BY <1>1 DEF Control, PollerInv, BegunInv
<1> QED
  BY <1>2, <1>3 DEF Control

LEMMA AwaitAgainControl ==
    ASSUME Control, NEW i \in Steps, AwaitAgain(i)
    PROVE  Control'
<1>1. UNCHANGED <<tpl, steps, tx, poller, sent>> /\ driver' = At("wait", i) /\ driver.at = "forward"
  BY DEF AwaitAgain
<1>2. \A k : (Begun(k)' <=> Begun(k)) /\ (Polled(k)' <=> Polled(k))
  BY <1>1, NothingSent
<1>3. DataTypeOK' /\ DriverInv'
  BY <1>1, Numbers DEF Control, DataTypeOK, DriverInv, At
<1>4. PollerInv' /\ BegunInv'
  BY <1>1, <1>2 DEF Control, PollerInv, BegunInv
<1> QED
  BY <1>3, <1>4 DEF Control

LEMMA AnsweredControl ==
    ASSUME Control, Answered
    PROVE  Control'
<1> DEFINE i == driver.step
<1>1. i \in Steps /\ steps \in Rows /\ driver.at = "sent" /\ tx = "running" /\ steps[i].status = "running"
  BY DEF Control, DataTypeOK, DriverInv, Answered
<1>2. PICK r \in Responses : steps' = Store(i, r)
  BY DEF Answered
<1>3. /\ steps' \in Rows
      /\ \A j \in Steps : steps'[j].status = steps[j].status
      /\ \A j \in Steps \ {i} : steps'[j] = steps[j]
  BY <1>1, <1>2, StoreRows DEF Contents
<1>4. UNCHANGED <<tpl, tx, poller, sent>> /\ driver' = At("answered", i)
  BY DEF Answered
<1>5. \A k : (Begun(k)' <=> Begun(k)) /\ (Polled(k)' <=> Polled(k))
  BY <1>4, NothingSent
<1>6. Begun(i)
  BY <1>1 DEF Control, BegunInv
<1>7. DataTypeOK' /\ DriverInv'
  BY <1>1, <1>3, <1>4, Numbers DEF Control, DataTypeOK, DriverInv, At
<1>8. PollerInv'
  BY <1>1, <1>3, <1>4, <1>5, Numbers DEF Control, DataTypeOK, PollerInv
<1>9. BegunInv'
  BY <1>1, <1>3, <1>4, <1>5, <1>6 DEF Control, BegunInv
<1> QED
  BY <1>7, <1>8, <1>9 DEF Control

LEMMA NotAnsweredControl ==
    ASSUME Control, NotAnswered \/ GivenUp
    PROVE  Control'
<1> DEFINE i == driver.step
<1>1. i \in Steps /\ steps \in Rows /\ driver.at = "sent" /\ tx = "running" /\ steps[i].status = "running"
  BY DEF Control, DataTypeOK, DriverInv, NotAnswered, GivenUp
<1>2. PICK s \in {"pending", "failed"} :
         /\ steps' = Put(i, s) /\ DriverIdle
         /\ s = "pending" => tx' = tx
         /\ s = "failed" => tx' = "compensating"
  BY DEF NotAnswered, GivenUp, Compensate
<1>3. s \in Statuses
  BY DEF Statuses
<1>4. /\ steps' \in Rows
      /\ \A j \in Steps : steps'[j].response = steps[j].response
      /\ \A j \in Steps \ {i} : steps'[j] = steps[j]
      /\ steps'[i].status = s
  BY <1>1, <1>2, <1>3, PutRows
<1>5. UNCHANGED <<tpl, poller, sent>>
  BY DEF NotAnswered, GivenUp
<1>6. \A k : (Begun(k)' <=> Begun(k)) /\ (Polled(k)' <=> Polled(k))
  BY <1>5, NothingSent
<1>7. Begun(i) /\ ~Polled(i)
  BY <1>1 DEF Control, BegunInv
<1>8. DataTypeOK' /\ DriverInv'
  BY <1>2, <1>4, <1>5, Numbers DEF Control, DataTypeOK, DriverInv, DriverIdle, At
<1>9. poller.at # "idle" => poller.step \in Steps \ {i}
  BY <1>1, Numbers DEF Control, DataTypeOK, PollerInv
<1>10. PollerInv'
  BY <1>1, <1>2, <1>4, <1>5, <1>6, <1>9 DEF Control, PollerInv
<1>11. BegunInv'
  <2> SUFFICES ASSUME NEW k \in Steps
               PROVE /\ ~Begun(k) => /\ steps'[k].response = Nil
                                     /\ tx' = "running" => steps'[k].status = "pending"
                     /\ steps'[k].status \in {"running", "polling", "succeeded", "compensating", "compensated"}
                           => Begun(k)
                     /\ steps'[k].status = "polling" => k \in AsyncSteps
                     /\ Polled(k) => Begun(k) /\ steps'[k].status \notin {"pending", "running"}
                     /\ Begun(k) => \A j \in Steps : j < k =>
                           /\ steps'[j].status \notin {"pending", "running", "polling"}
                           /\ tx' = "running" => steps'[j].status = "succeeded"
    BY <1>6 DEF BegunInv
  <2>1. Begun(k) => ~(i < k)
    BY <1>1 DEF Control, BegunInv
  <2> QED
    BY <1>1, <1>2, <1>4, <1>7, <2>1 DEF Control, BegunInv
<1> QED
  BY <1>8, <1>10, <1>11 DEF Control

LEMMA RecordControl ==
    ASSUME Control, Record
    PROVE  Control'
<1> DEFINE i == driver.step
<1>1. i \in Steps /\ steps \in Rows /\ driver.at = "answered" /\ tx = "running" /\ steps[i].status = "running"
  BY DEF Control, DataTypeOK, DriverInv, Record
<1>2. UNCHANGED <<tpl, tx, poller, sent>>
  BY DEF Record
<1>3. \A k : (Begun(k)' <=> Begun(k)) /\ (Polled(k)' <=> Polled(k))
  BY <1>2, NothingSent
<1>4. CASE i \in AsyncSteps
  <2>1. UNCHANGED <<steps, mem>> /\ driver' = At("tasked", i)
    BY <1>4 DEF Record
  <2>2. DataTypeOK' /\ DriverInv'
    BY <1>1, <1>2, <1>4, <2>1, Numbers DEF Control, DataTypeOK, DriverInv, At
  <2>3. PollerInv' /\ BegunInv'
    BY <1>2, <1>3, <2>1 DEF Control, PollerInv, BegunInv
  <2> QED
    BY <2>2, <2>3 DEF Control
<1>5. CASE i \notin AsyncSteps
  <2>1. steps' = Put(i, "succeeded") /\ DriverIdle
    BY <1>5 DEF Record
  <2>2. /\ steps' \in Rows
        /\ \A j \in Steps : steps'[j].response = steps[j].response
        /\ \A j \in Steps \ {i} : steps'[j] = steps[j]
        /\ steps'[i].status = "succeeded"
    BY <1>1, <2>1, PutRows DEF Statuses
  <2>3. Begun(i) /\ ~Polled(i)
    BY <1>1 DEF Control, BegunInv
  <2>4. DataTypeOK' /\ DriverInv'
    BY <1>2, <2>1, <2>2, Numbers DEF Control, DataTypeOK, DriverInv, DriverIdle, At
  <2>5. PollerInv'
    BY <1>1, <1>2, <1>3, <2>2, Numbers DEF Control, DataTypeOK, PollerInv
  <2>6. BegunInv'
    BY <1>1, <1>2, <1>3, <2>2, <2>3 DEF Control, BegunInv
  <2> QED
    BY <2>4, <2>5, <2>6 DEF Control
<1> QED
  BY <1>4, <1>5

LEMMA StartPollingControl ==
    ASSUME Control, StartPolling
    PROVE  Control'
<1> DEFINE i == driver.step
<1>1. /\ i \in Steps /\ i \in AsyncSteps /\ steps \in Rows
      /\ driver.at = "tasked" /\ tx = "running" /\ steps[i].status = "running"
  BY DEF Control, DataTypeOK, DriverInv, StartPolling
<1>2. UNCHANGED <<tpl, tx, poller, sent, mem>> /\ steps' = Put(i, "polling") /\ driver' = At("wait", i)
  BY DEF StartPolling
<1>3. \A k : (Begun(k)' <=> Begun(k)) /\ (Polled(k)' <=> Polled(k))
  BY <1>2, NothingSent
<1>4. /\ steps' \in Rows
      /\ \A j \in Steps : steps'[j].response = steps[j].response
      /\ \A j \in Steps \ {i} : steps'[j] = steps[j]
      /\ steps'[i].status = "polling"
  BY <1>1, <1>2, PutRows DEF Statuses
<1>5. Begun(i) /\ \A k \in Steps : Begun(k) => ~(i < k)
  BY <1>1 DEF Control, BegunInv
<1>6. DataTypeOK' /\ DriverInv'
  BY <1>1, <1>2, <1>4, Numbers DEF Control, DataTypeOK, DriverInv, At
<1>7. PollerInv'
  BY <1>1, <1>2, <1>3, <1>4, Numbers DEF Control, DataTypeOK, PollerInv
<1>8. BegunInv'
  BY <1>1, <1>2, <1>3, <1>4, <1>5 DEF Control, BegunInv
<1> QED
  BY <1>6, <1>7, <1>8 DEF Control

LEMMA UndoneControl ==
    ASSUME Control, Undone
    PROVE  Control'
<1> DEFINE i == driver.step
<1>1. i \in Steps /\ steps \in Rows /\ driver.at = "undoing" /\ tx = "compensating" /\ Begun(i)
  BY DEF Control, DataTypeOK, DriverInv, Undone
<1>2. UNCHANGED <<tpl, tx, poller, sent, mem>> /\ driver' = Back(driver.todo)
  BY DEF Undone
<1>3. \A k : (Begun(k)' <=> Begun(k)) /\ (Polled(k)' <=> Polled(k))
  BY <1>2, NothingSent
<1>4. PICK s \in {"compensated", "failed"} : steps' = Put(i, s)
  BY DEF Undone
<1>5. /\ steps' \in Rows
      /\ \A j \in Steps : steps'[j].response = steps[j].response
      /\ \A j \in Steps \ {i} : steps'[j] = steps[j]
      /\ steps'[i].status = s
  BY <1>1, <1>4, PutRows DEF Statuses
<1>6. DataTypeOK'
  BY <1>1, <1>2, <1>5 DEF Control, DataTypeOK, Back
<1>7. DriverInv'
  <2>1. \A k \in Steps : Alike(mem, steps, k) => Alike(mem, steps', k)
    BY <1>5, Firsts DEF Alike
  <2>2. driver.todo \subseteq Steps
    BY DEF Control, DataTypeOK
  <2> QED
    BY <1>1, <1>2, <1>3, <2>1, <2>2 DEF Control, DriverInv, Back
<1>8. PollerInv' /\ BegunInv'
  BY <1>1, <1>2, <1>3, <1>4, <1>5 DEF Control, PollerInv, BegunInv
<1> QED
  BY <1>6, <1>7, <1>8 DEF Control

LEMMA SettleControl ==
    ASSUME Control, Settle
    PROVE  Control' /\ \A j \in Steps : steps'[j].response = steps[j].response
<1>1. steps \in Rows /\ UNCHANGED <<tpl, poller, sent>> /\ tx' = "failed" /\ DriverIdle
  BY DEF Control, DataTypeOK, Settle
<1>2. \A k : (Begun(k)' <=> Begun(k)) /\ (Polled(k)' <=> Polled(k))
  BY <1>1, NothingSent
<1>3. /\ steps' \in Rows
      /\ \A j \in Steps : /\ steps'[j].response = steps[j].response
                          /\ steps'[j].status \in {"skipped", steps[j].status}
  BY <1>1 DEF Settle, Rows, Statuses
<1>4. DataTypeOK' /\ DriverInv'
  BY <1>1, <1>3 DEF Control, DataTypeOK, DriverInv, DriverIdle, At
<1>5. PollerInv' /\ BegunInv'
  BY <1>1, <1>2, <1>3 DEF Control, PollerInv, BegunInv
<1> QED
  BY <1>3, <1>4, <1>5 DEF Control

LEMMA ExecuteControl ==
    ASSUME Control, NEW i \in Steps, Execute(i)
    PROVE  Control' /\ \A j \in Steps : steps'[j].response = steps[j].response
<1>1. /\ driver.at = "forward" /\ tx = "running" /\ mem \in Rows /\ steps \in Rows
      /\ mem[i].status \in {"pending", "running"} /\ mem[i].status # "succeeded"
      /\ \A j \in Steps : mem[j].status # "succeeded" => i <= j
      /\ UNCHANGED <<tpl, poller>>
  BY DEF Control, DataTypeOK, DriverInv, Execute, Current, Left
<1>2. steps[i].status \in {"pending", "running"}
  BY <1>1 DEF Control, DriverInv
<1>3. \A j \in Steps : j < i => steps[j].status = "succeeded"
  BY <1>1, Numbers DEF Control, DriverInv
<1>4. \A k \in Steps : Begun(k) => ~(i < k)
  BY <1>2 DEF Control, BegunInv
<1>5. ~Polled(i)
  BY <1>2 DEF Control, BegunInv
<1>6. poller.at # "idle" => poller.step \in Steps /\ ~(i > poller.step) /\ poller.step # i
  BY <1>1, <1>2, <1>3, Numbers DEF Control, DataTypeOK, PollerInv
<1> DEFINE r == Render(tpl[i].action, Data(mem, i))
<1> HIDE DEF r
<1>7. CASE r.ok
  <2>1. steps' = Put(i, "running") /\ Sends("action", i, r.val) /\ driver' = At("sent", i) /\ tx' = tx
    BY <1>7 DEF Execute, r
  <2>2. /\ steps' \in Rows
        /\ \A j \in Steps : steps'[j].response = steps[j].response
        /\ \A j \in Steps \ {i} : steps'[j] = steps[j]
        /\ steps'[i].status = "running"
    BY <1>1, <2>1, PutRows DEF Statuses
  <2>3. \A k : (Begun(k)' <=> Begun(k) \/ k = i) /\ (Polled(k)' <=> Polled(k))
    BY <2>1, SendCounts
  <2>4. \A x \in sent' : x.step \in Steps
    BY <2>1 DEF Control, DataTypeOK, Sends
  <2>5. DataTypeOK' /\ DriverInv'
    BY <1>1, <2>1, <2>2, <2>4, Numbers DEF Control, DataTypeOK, DriverInv, At
  <2>6. PollerInv'
    BY <1>1, <1>6, <2>1, <2>2, <2>3 DEF Control, PollerInv
  <2>7. BegunInv'
    <3>1. \A k \in Steps \ {i} : Begun(k)' => \A j \in Steps : j < k =>
             /\ steps'[j].status \notin {"pending", "running", "polling"}
             /\ tx' = "running" => steps'[j].status = "succeeded"
      BY <1>1, <1>4, <2>1, <2>2, <2>3 DEF Control, BegunInv
    <3>2. \A j \in Steps : j < i => steps'[j].status = "succeeded"
      BY <1>3, <2>2, Numbers
    <3>3. \A k \in Steps :
             /\ ~Begun(k)' => /\ steps'[k].response = Nil
                              /\ tx' = "running" => steps'[k].status = "pending"
             /\ steps'[k].status \in {"running", "polling", "succeeded", "compensating", "compensated"}
                   => Begun(k)'
             /\ steps'[k].status = "polling" => k \in AsyncSteps
             /\ Polled(k)' => Begun(k)' /\ steps'[k].status \notin {"pending", "running"}
      BY <1>5, <2>1, <2>2, <2>3 DEF Control, BegunInv
    <3> QED
      BY <3>1, <3>2, <3>3 DEF BegunInv
  <2> QED
    BY <2>2, <2>5, <2>6, <2>7 DEF Control
<1>8. CASE ~r.ok
  <2>1. steps' = Put(i, "failed") /\ tx' = "compensating" /\ DriverIdle /\ sent' = sent
    BY <1>8 DEF Execute, Compensate, r
  <2>2. /\ steps' \in Rows
        /\ \A j \in Steps : steps'[j].response = steps[j].response
        /\ \A j \in Steps \ {i} : steps'[j] = steps[j]
        /\ steps'[i].status = "failed"
    BY <1>1, <2>1, PutRows DEF Statuses
  <2>3. \A k : (Begun(k)' <=> Begun(k)) /\ (Polled(k)' <=> Polled(k))
    BY <2>1, NothingSent
  <2>4. DataTypeOK' /\ DriverInv'
    BY <1>1, <2>1, <2>2 DEF Control, DataTypeOK, DriverInv, DriverIdle, At
  <2>5. PollerInv' /\ BegunInv'
    BY <1>1, <1>4, <2>1, <2>2, <2>3 DEF Control, PollerInv, BegunInv
  <2> QED
    BY <2>2, <2>4, <2>5 DEF Control
<1> QED
  BY <1>7, <1>8

LEMMA UndoControl ==
    ASSUME Control, NEW i \in Steps, Undo(i)
    PROVE  Control' /\ \A j \in Steps : steps'[j].response = steps[j].response
<1> DEFINE r == Render(tpl[i].compensate, Data(mem, i))
           left == driver.todo \ {i}
<1>1. /\ driver.at = "back" /\ tx = "compensating" /\ steps \in Rows /\ mem \in Rows
      /\ i \in driver.todo /\ driver.todo \subseteq Steps /\ Begun(i)
      /\ UNCHANGED <<tpl, tx, mem, poller>>
  BY DEF Control, DataTypeOK, DriverInv, Undo
<1> HIDE DEF r
<1>2. PICK s \in {"compensating", "failed"} :
         /\ steps' = Put(i, s)
         /\ driver' \in [at : {"back", "undoing"}, step : Int, todo : {left}]
         /\ driver'.at = "undoing" => driver'.step = i
         /\ sent' = sent \/ Sends("compensate", i, r.val)
  <2>1. CASE r.ok
    BY <1>1, <2>1, Numbers DEF Undo, r
  <2>2. CASE ~r.ok
    BY <2>2 DEF Undo, r, Back
  <2> QED
    BY <2>1, <2>2
<1>3. /\ steps' \in Rows
      /\ \A j \in Steps : steps'[j].response = steps[j].response
      /\ \A j \in Steps \ {i} : steps'[j] = steps[j]
      /\ steps'[i].status = s
  BY <1>1, <1>2, PutRows DEF Statuses
<1>4. \A k : (Begun(k)' <=> Begun(k)) /\ (Polled(k)' <=> Polled(k))
  BY <1>2, NothingSent, SendCounts
<1>5. \A x \in sent' : x.step \in Steps
  BY <1>2 DEF Control, DataTypeOK, Sends
<1>6. DataTypeOK'
  BY <1>1, <1>2, <1>3, <1>5 DEF Control, DataTypeOK
<1>7. DriverInv'
  <2>1. \A k \in Steps : Alike(mem, steps, k) => Alike(mem, steps', k)
    BY <1>3, Firsts DEF Alike
  <2> QED
    BY <1>1, <1>2, <1>4, <2>1 DEF Control, DriverInv
<1>8. PollerInv' /\ BegunInv'
  BY <1>1, <1>2, <1>3, <1>4 DEF Control, PollerInv, BegunInv
<1> QED
  BY <1>3, <1>6, <1>7, <1>8 DEF Control

(* The process dies: driver and poller forget what they were doing. *)
LEMMA CrashControl ==
    ASSUME Control, Crash
    PROVE  Control'
<1>1. UNCHANGED <<tpl, steps, tx, sent>> /\ DriverIdle /\ PollerIdle
  BY DEF Crash
<1>2. \A k : (Begun(k)' <=> Begun(k)) /\ (Polled(k)' <=> Polled(k))
  BY <1>1, NothingSent
<1>3. DataTypeOK' /\ DriverInv'
  BY <1>1 DEF Control, DataTypeOK, DriverInv, DriverIdle, PollerIdle, At, Holding, Contents
<1>4. PollerInv' /\ BegunInv'
  BY <1>1, <1>2 DEF Control, PollerInv, BegunInv, PollerIdle, Holding
<1> QED
  BY <1>3, <1>4 DEF Control

-----------------------------------------------------------------------------
(* The control of the poller. *)

LEMMA AskControl ==
    ASSUME Control, NEW i \in AsyncSteps, Ask(i)
    PROVE  Control'
<1>1. /\ i \in Steps /\ steps[i].status = "polling"
      /\ UNCHANGED <<tpl, steps, tx, driver, mem>> /\ poller' = Holding("asked", i, Nil)
  BY Numbers DEF Ask
<1>2. PICK r : Sends("poll", i, r)
  BY DEF Ask
<1>3. Begun(i) /\ \A k \in Steps : k > i => ~Begun(k)
  BY <1>1, Numbers DEF Control, BegunInv
<1>4. \A k : (Begun(k)' <=> Begun(k)) /\ (Polled(k)' <=> Polled(k) \/ k = i)
  BY <1>2, SendCounts
<1>5. \A x \in sent' : x.step \in Steps
  BY <1>1, <1>2 DEF Control, DataTypeOK, Sends
<1>6. DataTypeOK'
  BY <1>1, <1>5, Numbers DEF Control, DataTypeOK, Holding, Contents
<1>7. DriverInv' /\ PollerInv'
  BY <1>1, <1>3, <1>4 DEF Control, DriverInv, PollerInv, Holding
<1>8. BegunInv'
  BY <1>1, <1>3, <1>4 DEF Control, BegunInv
<1> QED
  BY <1>6, <1>7, <1>8 DEF Control

(* The poller goes on without writing a row. *)
LEMMA PollerControl ==
    ASSUME Control, UNCHANGED <<tpl, steps, tx, driver, mem, sent>>,
           poller' \in [at : {"idle", "asked", "success", "stored"}, step : Int, response : Contents],
           poller'.at # "idle" => poller.at # "idle" /\ poller'.step = poller.step,
           poller'.at \in {"success", "stored"} => poller'.response \in PollResponses
    PROVE  Control'
<1>1. \A k : (Begun(k)' <=> Begun(k)) /\ (Polled(k)' <=> Polled(k))
  BY NothingSent
<1>2. DataTypeOK' /\ DriverInv'
  BY <1>1 DEF Control, DataTypeOK, DriverInv
<1>3. PollerInv' /\ BegunInv'
  BY <1>1 DEF Control, PollerInv, BegunInv
<1> QED
  BY <1>2, <1>3 DEF Control

LEMMA StoreResponseControl ==
    ASSUME Control, StoreResponse
    PROVE  Control'
<1> DEFINE i == poller.step
<1>1. /\ i \in Steps /\ i \in AsyncSteps /\ i \in Int /\ steps \in Rows /\ poller.at = "success"
      /\ poller.response \in Contents
      /\ Begun(i) /\ \A k \in Steps : k > i => ~Begun(k)
      /\ tx = "running" => steps[i].status = "polling"
  BY Numbers DEF Control, DataTypeOK, PollerInv, StoreResponse
<1>2. /\ steps' = Store(i, poller.response) /\ poller' = [poller EXCEPT !.at = "stored"]
      /\ UNCHANGED <<tpl, tx, driver, mem, sent>>
  BY DEF StoreResponse
<1>3. /\ steps' \in Rows
      /\ \A j \in Steps : steps'[j].status = steps[j].status
      /\ \A j \in Steps \ {i} : steps'[j] = steps[j]
  BY <1>1, <1>2, StoreRows
<1>4. \A k : (Begun(k)' <=> Begun(k)) /\ (Polled(k)' <=> Polled(k))
  BY <1>2, NothingSent
<1>5. poller' = [at |-> "stored", step |-> i, response |-> poller.response]
  BY <1>2 DEF Control, DataTypeOK
<1>6. DataTypeOK'
  BY <1>1, <1>2, <1>3, <1>5 DEF Control, DataTypeOK, StoreResponse
<1>7. DriverInv'
  <2>1. ASSUME NEW k \in driver.todo, driver.at \in {"back", "undoing"}, k \notin AsyncSteps
        PROVE  Alike(mem, steps', k)
    <3>1. k \in Steps /\ Begun(k) /\ Alike(mem, steps, k)
      BY <2>1 DEF Control, DataTypeOK, DriverInv
    <3>2. i \notin 1..k
      BY <1>1, <2>1, <3>1, Numbers
    <3> QED
      BY <1>3, <3>1, <3>2, Firsts DEF Alike
  <2>2. driver.at = "forward" => \A j \in Steps : mem[j] = steps'[j] \/ (mem[j].status = "polling" /\ Begun(j))
    BY <1>1, <1>3 DEF Control, DriverInv
  <2>3. driver.at \in {"sent", "answered", "tasked"} => steps'[driver.step].status = "running"
    BY <1>1, <1>3 DEF Control, DriverInv, DataTypeOK
  <2> QED
    BY <1>2, <1>4, <2>1, <2>2, <2>3 DEF Control, DriverInv
<1>8. PollerInv'
  BY <1>1, <1>2, <1>3, <1>4, <1>5 DEF Control, PollerInv
<1>9. BegunInv'
  BY <1>1, <1>2, <1>3, <1>4 DEF Control, BegunInv
<1> QED
  BY <1>6, <1>7, <1>8, <1>9 DEF Control

(* The poller ends a step, one way or the other. *)
LEMMA VerdictControl ==
    ASSUME Control, poller.at # "idle", PollerIdle, UNCHANGED <<tpl, tx, driver, mem, sent>>,
           NEW s \in {"succeeded", "failed"}, steps' = Put(poller.step, s)
    PROVE  Control' /\ \A j \in Steps : steps'[j].response = steps[j].response
<1> DEFINE i == poller.step
<1>1. /\ i \in Steps /\ i \in AsyncSteps /\ i \in Int /\ steps \in Rows
      /\ Begun(i) /\ \A k \in Steps : k > i => ~Begun(k)
      /\ tx = "running" => steps[i].status = "polling"
  BY Numbers DEF Control, DataTypeOK, PollerInv
<1>2. /\ steps' \in Rows
      /\ \A j \in Steps : steps'[j].response = steps[j].response
      /\ \A j \in Steps \ {i} : steps'[j] = steps[j]
      /\ steps'[i].status = s
  BY <1>1, PutRows DEF Statuses
<1>3. \A k : (Begun(k)' <=> Begun(k)) /\ (Polled(k)' <=> Polled(k))
  BY NothingSent
<1>4. DataTypeOK' /\ PollerInv'
  BY <1>2 DEF Control, DataTypeOK, PollerInv, PollerIdle, Holding, Contents
<1>5. DriverInv'
  <2>1. \A k \in Steps : Alike(mem, steps, k) => Alike(mem, steps', k)
    BY <1>2, Firsts DEF Alike
  <2>2. driver.at = "forward" => \A j \in Steps : mem[j] = steps'[j] \/ (mem[j].status = "polling" /\ Begun(j))
    BY <1>1, <1>2 DEF Control, DriverInv
  <2>3. driver.at \in {"sent", "answered", "tasked"} => steps'[driver.step].status = "running"
    BY <1>1, <1>2 DEF Control, DriverInv, DataTypeOK
  <2>4. driver.todo \subseteq Steps
    BY DEF Control, DataTypeOK
  <2> QED
    BY <1>3, <2>1, <2>2, <2>3, <2>4 DEF Control, DriverInv
<1>6. BegunInv'
  BY <1>1, <1>2, <1>3, Numbers DEF Control, BegunInv
<1> QED
  BY <1>2, <1>4, <1>5, <1>6 DEF Control

-----------------------------------------------------------------------------
(* The requests. *)

(* A request that holds goes on holding while the responses stay as they are. *)
LEMMA HoldsStill ==
    ASSUME Control, NEW x \in sent, SentOK(x), tpl' = tpl, tx # "running" => tx' # "running",
           \A k : Begun(k) => Begun(k)',
           \A j \in Steps : steps'[j].response = steps[j].response
    PROVE  SentOK(x)'
<1>1. x.step \in Steps /\ x.step \in Int
  BY Numbers DEF Control, DataTypeOK
<1>2. Alike(steps, steps', x.step) /\ Alike(steps, steps', x.step - 1)
  BY <1>1, Firsts DEF Alike
<1> QED
  BY <1>1, <1>2, FixedBy DEF SentOK

LEMMA AllHoldStill ==
    ASSUME Control, SentInv, tpl' = tpl, sent' = sent, tx # "running" => tx' # "running",
           \A j \in Steps : steps'[j].response = steps[j].response
    PROVE  SentInv'
<1>1. \A k : Begun(k) => Begun(k)'
  BY NothingSent
<1>2. \A x \in sent : SentOK(x)'
  BY <1>1, HoldsStill DEF SentInv
<1> QED
  BY <1>2 DEF SentInv

(* An attempt at an action, the first or another one, sends what does not change. *)
LEMMA ExecuteSent ==
    ASSUME IInv, LocalTemplates, NEW i \in Steps, Execute(i)
    PROVE  SentInv'
<1> DEFINE t == tpl[i].action
           r == Render(t, Data(mem, i))
<1>1. /\ Control /\ SentInv
      /\ driver.at = "forward" /\ tx = "running" /\ mem \in Rows /\ steps \in Rows
      /\ mem[i].status \in {"pending", "running"}
      /\ \A j \in Steps : mem[j].status # "succeeded" => i <= j
      /\ \A j \in Steps : mem[j] = steps[j] \/ mem[j].status = "polling"
      /\ tpl' = tpl /\ t \in ActionTpls
  BY DEF IInv, Control, DataTypeOK, DriverInv, Execute, Current, Left, Tpls
<1>2. \A j \in Steps : steps'[j].response = steps[j].response
  BY <1>1, ExecuteControl
<1>3. CASE ~r.ok
  <2>1. sent' = sent /\ tx' = "compensating"
    BY <1>3 DEF Execute, Compensate
  <2> QED
    BY <1>1, <1>2, <2>1, AllHoldStill
<1>4. CASE r.ok
  <2>1. tx' = tx /\ Sends("action", i, r.val)
    BY <1>4 DEF Execute
  <2>0. PICK y : y.kind = "action" /\ y.step = i /\ y.req = r.val /\ sent' = sent \cup {y}
    BY <2>1 DEF Sends
  <2>2. steps[i] = mem[i]
    BY <1>1
  <2>3. \A j \in Steps : j < i => mem[j].status = "succeeded" /\ mem[j] = steps[j]
    BY <1>1, Numbers
  <2>4. \A j \in 1..(i - 1) : j \in Steps /\ j < i
    BY SagaDataAssumption DEF Steps
  <2>5. Alike(mem, steps, i - 1) /\ Alike(steps, mem, i - 1) /\ Alike(steps, steps', i - 1)
    BY <1>2, <2>3, <2>4 DEF Alike
  <2>6. Fixed(y, t, i - 1, steps)
    <3>1. CASE ~Begun(i)
      <4>1. ASSUME NEW j \in Steps, ~(j < i)
            PROVE  mem[j] = [status |-> "pending", response |-> Nil]
        <5>1. ~Begun(j)
          BY <1>1, <2>2, <3>1, <4>1, Numbers DEF Control, BegunInv
        <5>2. steps[j].status = "pending" /\ steps[j].response = Nil /\ mem[j] = steps[j]
          BY <1>1, <5>1 DEF Control, BegunInv, DriverInv
        <5> QED
          BY <1>1, <5>2 DEF Rows
      <4>2. FirstAttempt(mem, i)
        BY <2>3, <4>1 DEF FirstAttempt
      <4>3. Depends(t, i, mem, i - 1)
        BY <1>1, <4>2 DEF LocalTemplates
      <4>4. Fixed(y, t, i - 1, mem)
        BY <1>4, <2>0, <4>3, Numbers DEF Depends, Fixed
      <4> QED
        BY <2>5, <4>4, FixedBy
    <3>2. CASE Begun(i)
      <4>1. PICK x \in sent : x.kind = "action" /\ x.step = i
        BY <3>2 DEF Begun
      <4>2. Fixed(x, t, i - 1, steps)
        BY <1>1, <4>1 DEF SentInv, SentOK
      <4>3. r.val = x.req
        BY <1>1, <2>5, <4>1, <4>2, Numbers DEF Fixed
      <4> QED
        BY <2>0, <4>1, <4>2, <4>3 DEF Fixed
    <3> QED
      BY <3>1, <3>2
  <2>7. SentOK(y)'
    <3>1. Fixed(y, t, i - 1, steps')
      BY <2>5, <2>6, FixedBy
    <3> QED
      BY <1>1, <2>0, <3>1 DEF SentOK
  <2>8. \A k : Begun(k) => Begun(k)'
    BY <2>1, SendCounts
  <2>9. \A x \in sent : SentOK(x)'
    BY <1>1, <1>2, <2>1, <2>8, HoldsStill DEF SentInv
  <2> QED
    BY <2>0, <2>7, <2>9 DEF SentInv
<1> QED
  BY <1>3, <1>4

(* A compensation is rendered from rows whose first responses stay as they are. *)
LEMMA UndoSent ==
    ASSUME IInv, LocalTemplates, NEW i \in Steps, Undo(i)
    PROVE  SentInv'
<1> DEFINE t == tpl[i].compensate
           r == Render(t, Data(mem, i))
<1>1. /\ Control /\ SentInv
      /\ driver.at = "back" /\ tx = "compensating" /\ mem \in Rows /\ steps \in Rows /\ Begun(i)
      /\ i \notin AsyncSteps => mem[i].status \in {"succeeded", "compensating"} /\ Alike(mem, steps, i)
      /\ tpl' = tpl /\ tx' = tx /\ t \in CompensateTpls
  BY DEF IInv, Control, DataTypeOK, DriverInv, Undo, Tpls
<1>2. \A j \in Steps : steps'[j].response = steps[j].response
  BY <1>1, UndoControl
<1>3. CASE ~r.ok
  <2>1. sent' = sent
    BY <1>3 DEF Undo
  <2> QED
    BY <1>1, <1>2, <2>1, AllHoldStill
<1>4. CASE r.ok
  <2>1. Sends("compensate", i, r.val)
    BY <1>4 DEF Undo
  <2>2. PICK y : y.kind = "compensate" /\ y.step = i /\ y.req = r.val /\ sent' = sent \cup {y}
    BY <2>1 DEF Sends
  <2>3. \A k : Begun(k) => Begun(k)'
    BY <2>1, SendCounts
  <2>4. SentOK(y)'
    <3>1. CASE i \in AsyncSteps
      BY <2>2, <3>1 DEF SentOK
    <3>2. CASE i \notin AsyncSteps
      <4>1. Depends(t, i, mem, i)
        BY <1>1, <3>2 DEF LocalTemplates
      <4>2. Fixed(y, t, i, mem)
        BY <1>4, <2>2, <4>1, Numbers DEF Depends, Fixed
      <4>3. Alike(mem, steps', i)
        BY <1>1, <1>2, <3>2, Firsts DEF Alike
      <4>4. Fixed(y, t, i, steps')
        BY <4>2, <4>3, FixedBy
      <4> QED
        BY <1>1, <2>2, <2>3, <4>4 DEF SentOK
    <3> QED
      BY <3>1, <3>2
  <2>5. \A x \in sent : SentOK(x)'
    BY <1>1, <1>2, <2>3, HoldsStill DEF SentInv
  <2> QED
    BY <2>2, <2>4, <2>5 DEF SentInv
<1> QED
  BY <1>3, <1>4

LEMMA AskSent ==
    ASSUME IInv, LocalTemplates, NEW i \in AsyncSteps, Ask(i)
    PROVE  SentInv'
<1> DEFINE t == tpl[i].poll
           r == Render(t, Data(steps, i))
<1>1. /\ Control /\ SentInv /\ i \in Steps /\ steps \in Rows /\ steps[i].status = "polling"
      /\ UNCHANGED <<tpl, steps, tx>> /\ t \in PollTpls
      /\ r.ok /\ Sends("poll", i, r.val)
  BY Numbers DEF IInv, Control, DataTypeOK, Ask, Tpls
<1>2. PICK y : y.kind = "poll" /\ y.step = i /\ y.req = r.val /\ sent' = sent \cup {y}
  BY <1>1 DEF Sends
<1>3. \A k : Begun(k) => Begun(k)'
  BY <1>1, SendCounts
<1>4. Depends(t, i, steps, i)
  BY <1>1 DEF LocalTemplates
<1>5. Fixed(y, t, i, steps)
  BY <1>1, <1>2, <1>4, Numbers DEF Depends, Fixed
<1>6. SentOK(y)'
  BY <1>1, <1>2, <1>5 DEF SentOK
<1>7. \A x \in sent : SentOK(x)'
  BY <1>1, <1>3, HoldsStill DEF SentInv
<1> QED
  BY <1>2, <1>6, <1>7 DEF SentInv

(***************************************************************************)
(* A response that is written for step i disturbs no request but the polls *)
(* of i: no later step has begun, and i is not one whose compensation is   *)
(* spoken for.                                                             *)
(***************************************************************************)
LEMMA WriteSent ==
    ASSUME Control, SentInv, NEW i \in Steps, NEW r \in Contents, steps' = Store(i, r),
           UNCHANGED <<tpl, tx, sent>>,
           \A k \in Steps : Begun(k) => ~(i < k),
           tx = "running" \/ i \in AsyncSteps,
           Polled(i) => r \in PollResponses
    PROVE  SentInv'
<1>1. /\ \A j \in Steps \ {i} : steps'[j] = steps[j]
      /\ steps'[i].response = r
  BY StoreRows DEF Control, DataTypeOK
<1>2. \A k : Begun(k)' <=> Begun(k)
  BY NothingSent
<1> SUFFICES ASSUME NEW x \in sent
             PROVE  SentOK(x)'
  BY DEF SentInv
<1>3. x.step \in Steps /\ x.step \in Int /\ i \in Int /\ SentOK(x)
  BY Numbers DEF Control, DataTypeOK, SentInv
<1>4. ASSUME x.kind = "action"
      PROVE  Fixed(x, tpl[x.step].action, x.step - 1, steps')
  <2>1. Begun(x.step)
    BY <1>4 DEF Begun
  <2>2. i \notin 1..(x.step - 1) /\ \A j \in 1..(x.step - 1) : j \in Steps
    BY <1>3, <2>1, Firsts
  <2>3. Alike(steps, steps', x.step - 1)
    BY <1>1, <2>2 DEF Alike
  <2> QED
    BY <1>3, <1>4, <2>3, FixedBy DEF SentOK
<1>5. ASSUME x.kind = "compensate", x.step \notin AsyncSteps
      PROVE  /\ tx # "running"
             /\ Begun(x.step)
             /\ Fixed(x, tpl[x.step].compensate, x.step, steps')
  <2>1. tx # "running" /\ Begun(x.step) /\ Fixed(x, tpl[x.step].compensate, x.step, steps)
    BY <1>3, <1>5 DEF SentOK
  <2>2. i \notin 1..x.step
    BY <1>3, <1>5, <2>1
  <2>3. Alike(steps, steps', x.step)
    BY <1>1, <1>3, <2>2, Firsts DEF Alike
  <2> QED
    BY <2>1, <2>3, FixedBy
<1>6. ASSUME x.kind = "poll"
      PROVE  \/ steps'[x.step].response \in PollResponses
             \/ Fixed(x, tpl[x.step].poll, x.step, steps')
  <2>1. Polled(x.step)
    BY <1>6 DEF Polled
  <2>2. CASE x.step = i
    BY <1>1, <2>1, <2>2
  <2>3. CASE x.step # i
    <3>1. Begun(x.step)
      BY <1>3, <2>1 DEF Control, BegunInv
    <3>2. i \notin 1..x.step
      BY <1>3, <2>3, <3>1
    <3>3. Alike(steps, steps', x.step)
      BY <1>1, <1>3, <3>2, Firsts DEF Alike
    <3> QED
      BY <1>1, <1>3, <1>6, <2>3, <3>3, FixedBy DEF SentOK
  <2> QED
    BY <2>2, <2>3
<1> QED
  BY <1>2, <1>4, <1>5, <1>6 DEF SentOK

-----------------------------------------------------------------------------
(* Every step keeps the inductive invariant. *)
LEMMA StepInv ==
    ASSUME IInv, LocalTemplates, [Next]_vars
    PROVE  IInv'
<1>0. Control /\ SentInv
  BY DEF IInv
<1>1. CASE Load
  <2>1. SentInv'
    BY <1>0, <1>1, AllHoldStill DEF Load
  <2> QED
    BY <1>0, <1>1, <2>1, LoadControl DEF IInv
<1>2. CASE FindsFailed \/ Succeed \/ TimeOut \/ Awaited
  <2>1. /\ DriverIdle /\ UNCHANGED <<tpl, steps, poller, sent>>
        /\ tx' \in {tx, "compensating", "succeeded"}
    BY <1>2 DEF FindsFailed, Succeed, TimeOut, Awaited, Compensate
  <2>2. Control'
    BY <1>0, <2>1, ReturnControl
  <2>3. SentInv'
    BY <1>0, <2>1, AllHoldStill
  <2> QED
    BY <2>2, <2>3 DEF IInv
<1>3. CASE Answered
  <2> DEFINE i == driver.step
  <2>1. i \in Steps /\ tx = "running" /\ steps[i].status = "running"
    BY <1>0, <1>3 DEF Control, DataTypeOK, DriverInv, Answered
  <2>2. PICK r \in Contents : steps' = Store(i, r)
    BY <1>3 DEF Answered, Contents
  <2>3. ~Polled(i) /\ \A k \in Steps : Begun(k) => ~(i < k)
    BY <1>0, <2>1 DEF Control, BegunInv
  <2>4. SentInv'
    BY <1>0, <1>3, <2>1, <2>2, <2>3, WriteSent DEF Answered
  <2> QED
    BY <1>0, <1>3, <2>4, AnsweredControl DEF IInv
<1>4. CASE NotAnswered \/ GivenUp
  <2>1. \A j \in Steps : steps'[j].response = steps[j].response
    <3>1. driver.step \in Steps /\ steps \in Rows
      BY <1>0, <1>4 DEF Control, DataTypeOK, NotAnswered, GivenUp
    <3>2. steps' = Put(driver.step, "pending") \/ steps' = Put(driver.step, "failed")
      BY <1>4 DEF NotAnswered, GivenUp
    <3> QED
      BY <3>1, <3>2, PutRows DEF Statuses
  <2>2. UNCHANGED <<tpl, sent>> /\ tx' \in {tx, "compensating"}
    BY <1>4 DEF NotAnswered, GivenUp, Compensate
  <2>3. SentInv'
    BY <1>0, <2>1, <2>2, AllHoldStill
  <2> QED
    BY <1>0, <1>4, <2>3, NotAnsweredControl DEF IInv
<1>5. CASE Record \/ StartPolling \/ Undone
  <2>1. \A j \in Steps : steps'[j].response = steps[j].response
    <3>1. driver.step \in Steps /\ steps \in Rows
      BY <1>0, <1>5, Numbers DEF Control, DataTypeOK, Record, StartPolling, Undone
    <3>2. \/ steps' = steps
          \/ \E s \in {"succeeded", "polling", "compensated", "failed"} : steps' = Put(driver.step, s)
      BY <1>5 DEF Record, StartPolling, Undone
    <3> QED
      BY <3>1, <3>2, PutRows DEF Statuses
  <2>2. UNCHANGED <<tpl, tx, sent>>
    BY <1>5 DEF Record, StartPolling, Undone
  <2>3. SentInv'
    BY <1>0, <2>1, <2>2, AllHoldStill
  <2> QED
    BY <1>0, <1>5, <2>3, RecordControl, StartPollingControl, UndoneControl DEF IInv
<1>6. CASE Settle
  <2>1. UNCHANGED <<tpl, sent>> /\ tx' = "failed"
    BY <1>6 DEF Settle
  <2>2. Control' /\ SentInv'
    BY <1>0, <1>6, <2>1, SettleControl, AllHoldStill
  <2> QED
    BY <2>2 DEF IInv
<1>7. ASSUME NEW i \in Steps, Execute(i) \/ Undo(i)
      PROVE  IInv'
  BY <1>0, <1>7, ExecuteControl, UndoControl, ExecuteSent, UndoSent DEF IInv
<1>8. ASSUME NEW i \in Steps, AwaitAgain(i)
      PROVE  IInv'
  <2>1. SentInv'
    BY <1>0, <1>8, AllHoldStill DEF AwaitAgain
  <2> QED
    BY <1>0, <1>8, <2>1, AwaitAgainControl DEF IInv
<1>9. ASSUME NEW i \in AsyncSteps, Ask(i)
      PROVE  IInv'
  BY <1>0, <1>9, AskControl, AskSent DEF IInv
<1>10. ASSUME NEW i \in AsyncSteps, DropTask(i)
       PROVE  IInv'
  <2>1. UNCHANGED <<tpl, steps, tx, driver, mem, poller, sent>>
    BY <1>10 DEF DropTask
  <2>2. SentInv'
    BY <1>0, <2>1, AllHoldStill
  <2>3. Control'
    BY <1>0, <2>1, PollerControl DEF Control, DataTypeOK
  <2> QED
    BY <2>2, <2>3 DEF IInv
<1>11. ASSUME poller.at = "asked", UNCHANGED <<tpl, steps, tx, driver, mem, sent>>,
              PollerIdle \/ \E r \in PollResponses : JudgeSuccess(r)
       PROVE  IInv'
  <2>1. \/ \E r \in PollResponses : poller' = Holding("success", poller.step, r)
        \/ poller' = Holding("idle", 0, Nil)
    BY <1>11 DEF JudgeSuccess, PollerIdle
  <2>2. SentInv'
    BY <1>0, <1>11, AllHoldStill
  <2>3. Control'
    BY <1>0, <1>11, <2>1, PollerControl DEF Control, DataTypeOK, Holding, Contents
  <2> QED
    BY <2>2, <2>3 DEF IInv
<1>12. ASSUME poller.at = "asked", FailPolled
       PROVE  IInv'
  <2>1. /\ PollerIdle /\ UNCHANGED <<tpl, tx, driver, mem, sent>> /\ poller.at # "idle"
        /\ steps' = Put(poller.step, "failed")
    BY <1>12 DEF FailPolled
  <2>2. Control' /\ SentInv'
    BY <1>0, <2>1, VerdictControl, AllHoldStill
  <2> QED
    BY <2>2 DEF IInv
<1>13. CASE MarkSucceeded
  <2>1. /\ PollerIdle /\ UNCHANGED <<tpl, tx, driver, mem, sent>> /\ poller.at # "idle"
        /\ steps' = Put(poller.step, "succeeded")
    BY <1>13 DEF MarkSucceeded
  <2>2. Control' /\ SentInv'
    BY <1>0, <2>1, VerdictControl, AllHoldStill
  <2> QED
    BY <2>2 DEF IInv
<1>14. CASE StoreResponse
  <2> DEFINE i == poller.step
  <2>1. /\ i \in AsyncSteps /\ i \in Steps /\ i \in Int
        /\ poller.response \in PollResponses /\ poller.response \in Contents
        /\ \A k \in Steps : k > i => ~Begun(k)
    BY <1>0, <1>14, Numbers DEF Control, DataTypeOK, PollerInv, StoreResponse, Contents
  <2>2. steps' = Store(i, poller.response) /\ UNCHANGED <<tpl, tx, sent>>
    BY <1>14 DEF StoreResponse
  <2>3. \A k \in Steps : Begun(k) => ~(i < k)
    BY <2>1, Numbers
  <2>4. SentInv'
    BY <1>0, <2>1, <2>2, <2>3, WriteSent
  <2> QED
    BY <1>0, <1>14, <2>4, StoreResponseControl DEF IInv
<1>15. CASE Crash
  <2>1. SentInv'
    BY <1>0, <1>15, AllHoldStill DEF Crash
  <2> QED
    BY <1>0, <1>15, <2>1, CrashControl DEF IInv
<1>16. CASE UNCHANGED vars
  <2>1. SentInv'
    BY <1>0, <1>16, AllHoldStill DEF vars
  <2>2. Control'
    BY <1>0, <1>16, PollerControl, NothingSent
       DEF vars, Control, DataTypeOK, DriverInv, PollerInv, BegunInv
  <2> QED
    BY <2>1, <2>2 DEF IInv
<1>17. Judge \/ NotPolled =>
          /\ poller.at = "asked"
          /\ \/ FailPolled
             \/ /\ UNCHANGED <<tpl, steps, tx, driver, mem, sent>>
                /\ PollerIdle \/ \E r \in PollResponses : JudgeSuccess(r)
  BY DEF Judge, NotPolled, JudgeSuccess, GiveUp, AskLater
<1> QED
  BY <1>1, <1>2, <1>3, <1>4, <1>5, <1>6, <1>7, <1>8, <1>9, <1>10, <1>11, <1>12, <1>13, <1>14,
     <1>15, <1>16, <1>17 DEF Next, Drive, PollStep

(* The invariant holds of every behaviour whose templates are local. *)
THEOREM DataInvariant ==
    ASSUME LocalTemplates
    PROVE  Spec => []IInv
<1>1. Init => IInv
  BY InitControl
<1>2. IInv /\ [Next]_vars => IInv'
  BY StepInv
<1> QED
  BY <1>1, <1>2, PTL DEF Spec

(***************************************************************************)
(* RequestsHold for any number of steps and crashes: what was sent under   *)
(* an idempotency key is what the templates mean of the responses that are *)
(* stored, so an attempt after a crash or a retry would say it again       *)
(* (ExecuteStep, CompensateStep, Poll).                                    *)
(***************************************************************************)
THEOREM RequestsTheorem ==
    ASSUME LocalTemplates
    PROVE  Spec => []RequestsHold
<1>1. IInv => RequestsHold
  <2> SUFFICES ASSUME IInv, NEW x \in sent
               PROVE  /\ x.kind = "action" => MeansNow(x, tpl[x.step].action)
                      /\ x.kind = "compensate" /\ x.step \notin AsyncSteps
                           => MeansNow(x, tpl[x.step].compensate)
                      /\ x.kind = "poll" /\ steps[x.step].response \notin PollResponses
                           => MeansNow(x, tpl[x.step].poll)
    BY DEF RequestsHold
  <2>1. SentOK(x) /\ steps \in Rows
    BY DEF IInv, Control, DataTypeOK, SentInv
  <2>2. \A n : Alike(steps, steps, n)
    BY DEF Alike
  <2> QED
    BY <2>1, <2>2 DEF SentOK, Fixed, MeansNow
<1> QED
  BY <1>1, DataInvariant, PTL

(***************************************************************************)
(* Two attempts at the action of a step send the same request, whatever    *)
(* happened in between: a participant that finds the idempotency key in    *)
(* its books finds the request it has answered (ExecuteStep).              *)
(***************************************************************************)
THEOREM AttemptsAgree ==
    ASSUME LocalTemplates
    PROVE  Spec => [](\A x, y \in sent :
              x.kind = "action" /\ y.kind = "action" /\ x.step = y.step => x.req = y.req)
<1>1. IInv => \A x, y \in sent :
         x.kind = "action" /\ y.kind = "action" /\ x.step = y.step => x.req = y.req
  <2> SUFFICES ASSUME IInv, NEW x \in sent, NEW y \in sent,
                      x.kind = "action", y.kind = "action", x.step = y.step
               PROVE  x.req = y.req
    OBVIOUS
  <2>1. x.step \in Steps /\ x.step \in Int /\ steps \in Rows /\ SentInv
    BY Numbers DEF IInv, Control, DataTypeOK
  <2>2. SentOK(x) /\ SentOK(y)
    BY <2>1 DEF SentInv
  <2>3. x.step - 1 < x.step /\ Alike(steps, steps, x.step - 1)
    BY <2>1 DEF Alike
  <2>4. /\ Render(tpl[x.step].action, Data(steps, x.step)).val = x.req
        /\ Render(tpl[x.step].action, Data(steps, x.step)).val = y.req
    BY <2>1, <2>2, <2>3 DEF SentOK, Fixed
  <2> QED
    BY <2>4
<1> QED
  BY <1>1, DataInvariant, PTL
=============================================================================
