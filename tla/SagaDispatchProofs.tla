-------------------------- MODULE SagaDispatchProofs --------------------------
(***************************************************************************)
(* Proofs about the dispatch of transactions to workers, for any number of *)
(* processes, workers and transactions and any capacity of the queues.     *)
(***************************************************************************)
EXTENDS SagaDispatch, FiniteSetTheorems, TLAPS

Scanning == InSubmit \cup {"release"}

(***************************************************************************)
(* Whoever is at work has a transaction in hand.  This is what makes the   *)
(* type invariant inductive.                                               *)
(***************************************************************************)
InHand ==
    \A i \in Instances :
       /\ scan[i].pc \in Scanning => scan[i].cur \in Txs
       /\ \A w \in Workers : worker[i][w].pc # "idle" => worker[i][w].tx \in Txs

TypeInv == TypeOK /\ InHand

-----------------------------------------------------------------------------
(* Lemmas about the parts the actions are made of *)

LEMMA LockedType ==
    ASSUME NEW r \in Row, NEW i \in Instances \cup {NoInstance, Gone}
    PROVE  /\ Locked(r, i) \in Row
           /\ Locked(r, i).status = r.status
           /\ Locked(r, i).lockedBy = i
           /\ ~Locked(r, i).expired
<1> QED
  BY DEF Locked, Row

LEMMA StatusSet ==
    ASSUME NEW r \in Row, NEW s \in ActiveStatus \cup {"none", "succeeded", "failed"}
    PROVE  /\ [r EXCEPT !.status = s] \in Row
           /\ [r EXCEPT !.status = s].status = s
           /\ [r EXCEPT !.status = s].lockedBy = r.lockedBy
<1> QED
  BY DEF Row

(* Rows after a lock statement, and after a release. *)
LEMMA LockAllRows ==
    ASSUME TypeOK, NEW i \in Instances, NEW S, LockAll(i, S)
    PROVE  /\ row' \in [Txs -> Row]
           /\ \A t \in Txs : row'[t].status = row[t].status
           /\ \A t \in Txs : row'[t].lockedBy = IF t \in S THEN i ELSE row[t].lockedBy
<1>1. \A t \in Txs : row[t] \in Row
  BY DEF TypeOK
<1> QED
  BY <1>1, LockedType DEF LockAll

LEMMA ReleaseRows ==
    ASSUME TypeOK, NEW i \in Instances, NEW t, ReleaseTransaction(i, t)
    PROVE  /\ row' \in [Txs -> Row]
           /\ \A u \in Txs : row'[u].status = row[u].status
           /\ \A u \in Txs : u # t \/ phase[i] # "up" \/ row[u].lockedBy # i
                               => row'[u] = row[u]
           /\ t \in Txs /\ phase[i] = "up" => row'[t].lockedBy # i
           /\ \A u \in Txs : row'[u].lockedBy \in {row[u].lockedBy, NoInstance}
<1>1. row \in [Txs -> Row] /\ NoInstance # i
  BY DispatchAssumption DEF TypeOK
<1>2. CASE phase[i] = "up" /\ row[t].lockedBy = i
  <2>1. row' = [row EXCEPT ![t] = Locked(row[t], NoInstance)]
    BY <1>2 DEF ReleaseTransaction
  <2>2. CASE t \in Txs
    <3>1. /\ Locked(row[t], NoInstance) \in Row
          /\ Locked(row[t], NoInstance).status = row[t].status
          /\ Locked(row[t], NoInstance).lockedBy = NoInstance
      BY <1>1, <2>2, LockedType
    <3> QED
      BY <1>1, <1>2, <2>1, <2>2, <3>1
  <2>3. CASE t \notin Txs
    <3>1. row' = row
      BY <1>1, <2>1, <2>3
    <3> QED
      BY <1>1, <2>3, <3>1
  <2> QED
    BY <2>2, <2>3
<1>3. CASE ~(phase[i] = "up" /\ row[t].lockedBy = i)
  <2>1. row' = row
    BY <1>3 DEF ReleaseTransaction
  <2> QED
    BY <1>1, <1>3, <2>1
<1> QED
  BY <1>2, <1>3

(* What a worker is after Goto. *)
LEMMA GotoState ==
    ASSUME TypeOK, NEW i \in Instances, NEW w \in Workers,
           NEW place \in {"idle", "claim", "drive", "release", "unmark"},
           Goto(i, w, place)
    PROVE  /\ worker' \in [Instances -> [Workers -> Job]]
           /\ worker'[i][w].pc = place /\ worker'[i][w].tx = worker[i][w].tx
           /\ \A v \in Workers \ {w} : worker'[i][v] = worker[i][v]
           /\ \A j \in Instances \ {i} : worker'[j] = worker[j]
<1>1. worker \in [Instances -> [Workers -> Job]]
  BY DEF TypeOK
<1>2. worker' = [worker EXCEPT ![i] = [worker[i] EXCEPT ![w] = [worker[i][w] EXCEPT !.pc = place]]]
  BY <1>1 DEF Goto
<1>3. worker[i][w] \in Job
  BY <1>1
<1>4. /\ [worker[i][w] EXCEPT !.pc = place] \in Job
      /\ [worker[i][w] EXCEPT !.pc = place].pc = place
      /\ [worker[i][w] EXCEPT !.pc = place].tx = worker[i][w].tx
  BY <1>3 DEF Job
<1> QED
  BY <1>1, <1>2, <1>4

(* Submit leaves the queue within its capacity and marks transactions only. *)
LEMMA SubmitTypes ==
    ASSUME TypeOK, NEW i \in Instances, NEW t \in Txs, NEW p, NEW q,
           SubmitStep(i, t, p, q)
    PROVE  /\ queue' \in [Instances -> Seq(Txs)]
           /\ \A j \in Instances : Len(queue'[j]) <= QueueSize
           /\ active' \in [Instances -> SUBSET Txs]
           /\ turned' \subseteq Txs
           /\ \A j \in Instances \ {i} : queue'[j] = queue[j] /\ active'[j] = active[j]
           /\ p \in InSubmit /\ q \in SubmitOutcomes
<1>1. /\ queue \in [Instances -> Seq(Txs)]
      /\ \A j \in Instances : Len(queue[j]) <= QueueSize
      /\ active \in [Instances -> SUBSET Txs]
      /\ turned \subseteq Txs
      /\ QueueSize \in Nat
  BY DispatchAssumption DEF TypeOK
<1>2. CASE SubmitMarks(i, t) \/ SubmitSkips(i, t) \/ SubmitFindsFull(i) \/ SubmitUnmarks(i, t)
  BY <1>1, <1>2 DEF SubmitStep, SubmitMarks, SubmitSkips, SubmitFindsFull, SubmitUnmarks, LetGo,
                    InSubmit, SubmitOutcomes
<1>3. CASE SubmitEnqueues(i, t)
  <2>1. Append(queue[i], t) \in Seq(Txs) /\ Len(Append(queue[i], t)) = Len(queue[i]) + 1
    BY <1>1
  <2>2. Len(queue[i]) \in Nat /\ Len(queue[i]) < QueueSize
    BY <1>1, <1>3 DEF SubmitEnqueues
  <2>3. queue' = [queue EXCEPT ![i] = Append(queue[i], t)] /\ UNCHANGED <<active, turned>>
    BY <1>3 DEF SubmitEnqueues
  <2>4. p \in InSubmit /\ q \in SubmitOutcomes
    BY DEF SubmitStep, InSubmit, SubmitOutcomes
  <2> QED
    BY <1>1, <2>1, <2>2, <2>3, <2>4
<1> QED
  BY <1>2, <1>3 DEF SubmitStep

(* What a scan is after a step of Submit. *)
LEMMA AfterSubmitState ==
    ASSUME NEW sc \in Scan, NEW t \in Txs, NEW q \in SubmitOutcomes
    PROVE  /\ AfterSubmit(sc, t, q) \in Scan
           /\ AfterSubmit(sc, t, q).todo = sc.todo \ {t}
           /\ q # "accepted" => /\ AfterSubmit(sc, t, q).cur = t
                                /\ AfterSubmit(sc, t, q).pc \in Scanning
           /\ q = "accepted" => AfterSubmit(sc, t, q).pc = "next"
           /\ AfterSubmit(sc, t, q).pc \in Marked <=> q \in Marked
           /\ AfterSubmit(sc, t, q).pc \in {"next", "release", "enqueue", "unmark"}
<1>1. t \in 0..NTx /\ 0 \in 0..NTx
  BY DispatchAssumption DEF Txs
<1> DEFINE place == CASE q \in InSubmit -> q
                      [] q = "accepted" -> "next"
                      [] q = "declined" -> "release"
           here  == IF q = "accepted" THEN 0 ELSE t
           left  == sc.todo \ {t}
<1>2. AfterSubmit(sc, t, q) = [sc EXCEPT !.todo = left, !.pc = place, !.cur = here]
  BY DEF AfterSubmit
<1>3. left \in SUBSET Txs /\ here \in 0..NTx
  BY <1>1 DEF Scan
<1>4. /\ q \in {"enqueue", "unmark"} => place = q
      /\ q = "accepted" => place = "next"
      /\ q = "declined" => place = "release"
  BY DEF InSubmit
<1>5. q # "accepted" => here = t
  OBVIOUS
<1>6. left = sc.todo \ {t}
  OBVIOUS
<1>7. q \in {"enqueue", "unmark", "accepted", "declined"}
  BY DEF SubmitOutcomes
<1> HIDE DEF place, here, left
<1>8. /\ AfterSubmit(sc, t, q).todo = left
      /\ AfterSubmit(sc, t, q).pc = place
      /\ AfterSubmit(sc, t, q).cur = here
  BY <1>2 DEF Scan
<1>9. AfterSubmit(sc, t, q) \in Scan
  BY <1>2, <1>3, <1>4, <1>7 DEF Scan, InSubmit
<1> QED
  BY <1>4, <1>5, <1>6, <1>7, <1>8, <1>9 DEF Scanning, Marked, InSubmit

(* A scan whose release is done. *)
LEMMA HandEmpty ==
    ASSUME NEW sc \in Scan
    PROVE  /\ [sc EXCEPT !.pc = "next", !.cur = 0] \in Scan
           /\ [sc EXCEPT !.pc = "next", !.cur = 0].pc = "next"
           /\ [sc EXCEPT !.pc = "next", !.cur = 0].todo = sc.todo
<1>1. 0 \in 0..NTx
  BY DispatchAssumption
<1> QED
  BY <1>1 DEF Scan

LEMMA FreshScan ==
    ASSUME NEW place \in {"off", "wait", "next"}
    PROVE  ScanAt(place) \in Scan /\ ScanAt(place).pc \notin Scanning
           /\ ScanAt(place).pc = place /\ ScanAt(place).todo = {}
<1> QED
  BY DispatchAssumption DEF ScanAt, Scan, Scanning, InSubmit

-----------------------------------------------------------------------------
(* The type invariant *)

LEMMA InitType == Init => TypeInv
<1> SUFFICES ASSUME Init PROVE TypeInv
  OBVIOUS
<1>1. row \in [Txs -> Row]
  <2>0. PICK left \in 0..NTx :
               \E status \in [1..left -> ActiveStatus], lock \in [1..left -> {NoInstance, Gone}] :
                  row = [t \in Txs |-> IF t > left THEN NewRow
                           ELSE [NewRow EXCEPT !.status = status[t], !.lockedBy = lock[t]]]
    BY DEF Init
  <2>1. PICK status \in [1..left -> ActiveStatus], lock \in [1..left -> {NoInstance, Gone}] :
               row = [t \in Txs |-> IF t > left THEN NewRow
                        ELSE [NewRow EXCEPT !.status = status[t], !.lockedBy = lock[t]]]
    BY <2>0
  <2>2. NewRow \in Row
    BY DEF NewRow, Row
  <2>3. ASSUME NEW t \in Txs, ~(t > left)
        PROVE  [NewRow EXCEPT !.status = status[t], !.lockedBy = lock[t]] \in Row
    <3>1. t \in 1..left
      BY <2>3, DispatchAssumption DEF Txs
    <3>2. status[t] \in ActiveStatus /\ lock[t] \in {NoInstance, Gone}
      BY <3>1
    <3> QED
      BY <3>2 DEF NewRow, Row
  <2> QED
    BY <2>1, <2>2, <2>3
<1>2. /\ phase \in [Instances -> {"down", "up", "stopping", "dead"}]
      /\ active \in [Instances -> SUBSET Txs]
      /\ turned \subseteq Txs
  BY DEF Init
<1>3. queue \in [Instances -> Seq(Txs)] /\ \A i \in Instances : Len(queue[i]) <= QueueSize
  <2>1. <<>> \in Seq(Txs) /\ Len(<<>>) = 0 /\ QueueSize \in Nat
    BY DispatchAssumption
  <2>2. queue = [i \in Instances |-> <<>>]
    BY DEF Init
  <2> QED
    BY <2>1, <2>2
<1>4. worker \in [Instances -> [Workers -> Job]]
  <2>1. Idle \in Job
    BY DispatchAssumption DEF Idle, Job
  <2>2. worker = [i \in Instances |-> [w \in Workers |-> Idle]]
    BY DEF Init
  <2> QED
    BY <2>1, <2>2
<1>5. client \in [Txs -> Call]
  BY DEF Init, NoCall, Call
<1>6. recovery \in [Instances -> Scan] /\ scan \in [Instances -> Scan]
  BY FreshScan DEF Init
<1>7. InHand
  BY FreshScan DEF Init, InHand, Idle
<1> QED
  BY <1>1, <1>2, <1>3, <1>4, <1>5, <1>6, <1>7 DEF TypeInv, TypeOK

LEMMA ClientTypes ==
    ASSUME TypeInv, NEW i \in Instances, NEW t \in Txs, Create(i, t) \/ Submit(i, t)
    PROVE  TypeInv'
<1>1. TypeOK /\ InHand
  BY DEF TypeInv
<1>2. CASE Create(i, t)
  <2>1. [row[t] EXCEPT !.status = "pending"] \in Row
    BY <1>1, StatusSet DEF TypeOK, ActiveStatus
  <2>2. [pc |-> "mark", at |-> i] \in Call
    BY DEF Call, InSubmit
  <2>3. row' \in [Txs -> Row] /\ client' \in [Txs -> Call]
    BY <1>1, <1>2, <2>1, <2>2 DEF Create, TypeOK
  <2> QED
    BY <1>1, <1>2, <2>3 DEF Create, procVars, TypeInv, TypeOK, InHand
<1>3. CASE Submit(i, t)
  <2>1. PICK q \in SubmitOutcomes :
          /\ SubmitStep(i, t, client[t].pc, q)
          /\ client' = [client EXCEPT ![t] = IF q \in InSubmit
                           THEN [pc |-> q, at |-> i] ELSE [NoCall EXCEPT !.pc = "done"]]
    BY <1>3 DEF Submit
  <2>2. [NoCall EXCEPT !.pc = "done"] \in Call /\ (q \in InSubmit => [pc |-> q, at |-> i] \in Call)
    BY DEF NoCall, Call
  <2>3. client' \in [Txs -> Call]
    BY <1>1, <2>1, <2>2 DEF TypeOK
  <2> QED
    BY <1>1, <1>3, <2>1, <2>3, SubmitTypes DEF Submit, TypeInv, TypeOK, InHand
<1> QED
  BY <1>2, <1>3

LEMMA WorkerTypes ==
    ASSUME TypeInv, NEW i \in Instances, Worker(i)
    PROVE  TypeInv'
<1>1. TypeOK /\ InHand
  BY DEF TypeInv
<1>2. PICK w \in Workers : \/ TakeTask(i, w) \/ Claim(i, w) \/ Drive(i, w)
                           \/ DriveEnds(i, w) \/ Release(i, w) \/ Unmark(i, w)
  BY DEF Worker
<1>3. worker[i][w] \in Job /\ worker \in [Instances -> [Workers -> Job]]
  BY <1>1 DEF TypeOK
<1>4. CASE TakeTask(i, w)
  <2>1. /\ Head(queue[i]) \in Txs /\ Tail(queue[i]) \in Seq(Txs)
        /\ Len(Tail(queue[i])) <= QueueSize
    <3>1. queue[i] \in Seq(Txs) /\ queue[i] # <<>> /\ Len(queue[i]) <= QueueSize /\ QueueSize \in Nat
      BY <1>1, <1>4, DispatchAssumption DEF TakeTask, TypeOK
    <3> QED
      BY <3>1
  <2>2. [pc |-> "claim", tx |-> Head(queue[i])] \in Job
    BY <2>1, DispatchAssumption DEF Job, Txs
  <2>3. worker' = [worker EXCEPT ![i] = [worker[i] EXCEPT ![w] = [pc |-> "claim", tx |-> Head(queue[i])]]]
    BY <1>3, <1>4 DEF TakeTask
  <2>4. worker' \in [Instances -> [Workers -> Job]]
    BY <1>3, <2>2, <2>3
  <2>5. queue' = [queue EXCEPT ![i] = Tail(queue[i])]
    BY <1>4 DEF TakeTask
  <2>6. queue' \in [Instances -> Seq(Txs)] /\ \A j \in Instances : Len(queue'[j]) <= QueueSize
    BY <1>1, <2>1, <2>5 DEF TypeOK
  <2>7. InHand'
    BY <1>1, <1>3, <1>4, <2>1, <2>3 DEF InHand, TakeTask
  <2> QED
    BY <1>1, <1>4, <2>4, <2>6, <2>7 DEF TakeTask, TypeInv, TypeOK
<1>5. CASE Claim(i, w)
  <2>1. \E place \in {"drive", "unmark"} : Goto(i, w, place)
    BY <1>5 DEF Claim
  <2>2. row' \in [Txs -> Row]
    BY <1>1, <1>5, LockAllRows DEF Claim, TypeOK
  <2>3. worker' \in [Instances -> [Workers -> Job]] /\ InHand'
    BY <1>1, <1>5, <2>1, GotoState DEF Claim, InHand
  <2> QED
    BY <1>1, <1>5, <2>2, <2>3 DEF Claim, TypeInv, TypeOK
<1>6. CASE Drive(i, w)
  <2>1. worker[i][w].tx \in Txs
    BY <1>1, <1>6 DEF Drive, InHand
  <2>2. PICK s \in Moves(row[worker[i][w].tx].status) :
          /\ row' = [row EXCEPT ![worker[i][w].tx] = [Locked(@, i) EXCEPT !.status = s]]
          /\ Goto(i, w, IF s \in ActiveStatus THEN "drive" ELSE "release")
    BY <1>6 DEF Drive
  <2>3. s \in ActiveStatus \cup {"succeeded", "failed"}
    BY <2>2 DEF Moves, ActiveStatus
  <2>4. row' \in [Txs -> Row]
    <3>1. row[worker[i][w].tx] \in Row /\ row \in [Txs -> Row]
      BY <1>1, <2>1 DEF TypeOK
    <3>2. Locked(row[worker[i][w].tx], i) \in Row
      BY <3>1, LockedType
    <3>3. [Locked(row[worker[i][w].tx], i) EXCEPT !.status = s] \in Row
      BY <2>3, <3>2, StatusSet
    <3> QED
      BY <2>2, <3>1, <3>3
  <2>5. PICK place \in {"drive", "release"} : Goto(i, w, place)
    BY <2>2
  <2>6. worker' \in [Instances -> [Workers -> Job]]
    BY <1>1, <2>5, GotoState
  <2>7. scan' = scan
    BY <1>6 DEF Drive
  <2>8. InHand'
    BY <1>1, <2>1, <2>5, <2>7, GotoState DEF InHand
  <2> QED
    BY <1>1, <1>6, <2>4, <2>6, <2>8 DEF Drive, TypeInv, TypeOK
<1>7. CASE DriveEnds(i, w)
  <2>1. turned' \subseteq Txs
    BY <1>1, <1>7 DEF DriveEnds, LetGo, InHand, TypeOK
  <2>2. worker' \in [Instances -> [Workers -> Job]] /\ InHand'
    BY <1>1, <1>7, GotoState DEF DriveEnds, InHand
  <2> QED
    BY <1>1, <1>7, <2>1, <2>2 DEF DriveEnds, TypeInv, TypeOK
<1>8. CASE Release(i, w)
  <2>1. worker' \in [Instances -> [Workers -> Job]] /\ InHand'
    BY <1>1, <1>8, GotoState DEF Release, InHand
  <2>2. row' \in [Txs -> Row]
    BY <1>1, <1>8, ReleaseRows DEF Release
  <2> QED
    BY <1>1, <1>8, <2>1, <2>2 DEF Release, TypeInv, TypeOK
<1>9. CASE Unmark(i, w)
  <2>1. Idle \in Job
    BY DispatchAssumption DEF Idle, Job
  <2>2. worker' = [worker EXCEPT ![i] = [worker[i] EXCEPT ![w] = Idle]]
    BY <1>3, <1>9 DEF Unmark
  <2>3. worker' \in [Instances -> [Workers -> Job]] /\ InHand'
    BY <1>1, <1>3, <1>9, <2>1, <2>2 DEF Unmark, InHand, Idle
  <2>4. active' \in [Instances -> SUBSET Txs]
    BY <1>1, <1>9 DEF Unmark, TypeOK
  <2> QED
    BY <1>1, <1>9, <2>3, <2>4 DEF Unmark, TypeInv, TypeOK
<1> QED
  BY <1>2, <1>4, <1>5, <1>6, <1>7, <1>8, <1>9

LEMMA RecoveryTypes ==
    ASSUME TypeInv, NEW i \in Instances, Recovery(i)
    PROVE  TypeInv'
<1>1. TypeOK /\ InHand
  BY DEF TypeInv
<1>2. recovery \in [Instances -> Scan]
  BY <1>1 DEF TypeOK
<1>3. CASE RecoveryList(i)
  <2> DEFINE listed == Oldest(Recoverable, RecoveryLimit)
  <2>1. listed \subseteq Txs
    BY DEF Oldest, Recoverable
  <2>2. /\ LockAll(i, listed)
        /\ recovery' = [recovery EXCEPT ![i] = [ScanAt("next") EXCEPT !.todo = listed]]
        /\ turned' = turned \cup {t \in Txs \ listed : Orphan(t)}
        /\ UNCHANGED <<phase, queue, active, worker, client, scan>>
    BY <1>3 DEF RecoveryList, LetGo
  <2> HIDE DEF listed
  <2>3. [ScanAt("next") EXCEPT !.todo = listed] \in Scan
    BY <2>1, FreshScan DEF Scan
  <2>4. recovery' \in [Instances -> Scan] /\ turned' \subseteq Txs
    BY <1>1, <1>2, <2>2, <2>3 DEF TypeOK
  <2>5. row' \in [Txs -> Row]
    BY <1>1, <2>2, LockAllRows
  <2> QED
    BY <1>1, <2>2, <2>4, <2>5 DEF TypeInv, TypeOK, InHand
<1>4. CASE RecoverySubmit(i)
  <2>1. PICK t \in Txs, p \in InSubmit, q \in SubmitOutcomes :
          /\ SubmitStep(i, t, p, q)
          /\ recovery' = [recovery EXCEPT ![i] = AfterSubmit(recovery[i], t, q)]
    BY <1>4 DEF RecoverySubmit
  <2>2. AfterSubmit(recovery[i], t, q) \in Scan
    BY <1>2, AfterSubmitState
  <2>3. recovery' \in [Instances -> Scan]
    BY <1>2, <2>1, <2>2
  <2> QED
    BY <1>1, <1>4, <2>1, <2>3, SubmitTypes DEF RecoverySubmit, TypeInv, TypeOK, InHand
<1>5. CASE RecoveryRelease(i)
  <2>1. [recovery[i] EXCEPT !.pc = "next", !.cur = 0] \in Scan
    BY <1>2, HandEmpty
  <2>2. recovery' = [recovery EXCEPT ![i] = [recovery[i] EXCEPT !.pc = "next", !.cur = 0]]
    BY <1>2, <1>5 DEF RecoveryRelease
  <2>3. recovery' \in [Instances -> Scan]
    BY <1>2, <2>1, <2>2
  <2>4. row' \in [Txs -> Row]
    BY <1>1, <1>5, ReleaseRows DEF RecoveryRelease
  <2> QED
    BY <1>1, <1>5, <2>3, <2>4 DEF RecoveryRelease, TypeInv, TypeOK, InHand
<1>6. CASE RecoveryEnds(i) \/ RecoveryQuits(i)
  <2>1. recovery' \in [Instances -> Scan]
    BY <1>2, <1>6, FreshScan DEF RecoveryEnds, RecoveryQuits
  <2> QED
    BY <1>1, <1>6, <2>1 DEF RecoveryEnds, RecoveryQuits, TypeInv, TypeOK, InHand
<1> QED
  BY <1>3, <1>4, <1>5, <1>6 DEF Recovery

(* The timeout scan after it took t off its list. *)
TakenOff(sc, t, place) ==
    [[sc EXCEPT !.todo = @ \ {t}, !.seen = @ \ {t}, !.cur = t] EXCEPT !.pc = place]

LEMMA NextOfScan ==
    ASSUME NEW sc \in Scan, NEW t \in sc.todo, NEW place \in {"mark", "release"}
    PROVE  /\ TakenOff(sc, t, place) \in Scan
           /\ TakenOff(sc, t, place).pc = place
           /\ TakenOff(sc, t, place).cur = t
           /\ TakenOff(sc, t, place).todo = sc.todo \ {t}
           /\ t \in Txs
<1>1. t \in Txs /\ t \in 0..NTx
  BY DispatchAssumption DEF Scan, Txs
<1> QED
  BY <1>1 DEF Scan, TakenOff, InSubmit

LEMMA TimeoutScanTypes ==
    ASSUME TypeInv, NEW i \in Instances, TimeoutScan(i)
    PROVE  TypeInv'
<1>1. TypeOK /\ InHand
  BY DEF TypeInv
<1>2. scan \in [Instances -> Scan]
  BY <1>1 DEF TypeOK
<1>3. CASE ScanList(i)
  <2>1. PICK S \in SUBSET TimeoutDue :
          /\ LockAll(i, S)
          /\ scan' = [scan EXCEPT ![i] = [ScanAt("next") EXCEPT !.todo = S,
                             !.seen = {t \in S : row[t].status = "running"}]]
    BY <1>3 DEF ScanList
  <2>2. S \subseteq Txs
    BY <2>1, DispatchAssumption DEF TimeoutDue
  <2> DEFINE new == [ScanAt("next") EXCEPT !.todo = S,
                             !.seen = {t \in S : row[t].status = "running"}]
  <2>3. new \in Scan /\ new.pc = "next"
    BY <2>2, FreshScan DEF Scan
  <2>4. scan' \in [Instances -> Scan] /\ InHand'
    <3> HIDE DEF new
    <3>1. scan' = [scan EXCEPT ![i] = new]
      BY <2>1 DEF new
    <3>2. worker' = worker
      BY <1>3 DEF ScanList
    <3> QED
      BY <1>1, <1>2, <2>3, <3>1, <3>2 DEF InHand, Scanning, InSubmit
  <2>5. row' \in [Txs -> Row]
    BY <1>1, <2>1, LockAllRows
  <2> QED
    BY <1>1, <1>3, <2>4, <2>5 DEF ScanList, TypeInv, TypeOK
<1>4. CASE ScanCAS(i)
  <2>1. PICK t \in scan[i].todo, place \in {"mark", "release"} :
          /\ scan' = [scan EXCEPT ![i] = TakenOff(scan[i], t, place)]
          /\ row' = [row EXCEPT ![t].status = "compensating"] \/ row' = row
    BY <1>4 DEF ScanCAS, TakenOff
  <2> DEFINE new == TakenOff(scan[i], t, place)
  <2>2. new \in Scan /\ new.cur \in Txs /\ t \in Txs
    BY <1>2, NextOfScan
  <2>3. scan' \in [Instances -> Scan] /\ InHand'
    <3> HIDE DEF new
    <3>1. scan' = [scan EXCEPT ![i] = new]
      BY <2>1 DEF new
    <3>2. worker' = worker
      BY <1>4 DEF ScanCAS
    <3> QED
      BY <1>1, <1>2, <2>2, <3>1, <3>2 DEF InHand
  <2>4. row' \in [Txs -> Row]
    <3>1. [row[t] EXCEPT !.status = "compensating"] \in Row
      BY <1>1, <2>2, StatusSet DEF TypeOK, ActiveStatus
    <3>2. row \in [Txs -> Row]
      BY <1>1 DEF TypeOK
    <3> QED
      BY <2>1, <2>2, <3>1, <3>2
  <2>5. UNCHANGED <<phase, queue, active, worker, client, recovery, turned>>
    BY <1>4 DEF ScanCAS
  <2> QED
    BY <1>1, <2>3, <2>4, <2>5 DEF TypeInv, TypeOK
<1>5. CASE ScanSubmit(i)
  <2>1. PICK q \in SubmitOutcomes :
          /\ SubmitStep(i, scan[i].cur, scan[i].pc, q)
          /\ scan' = [scan EXCEPT ![i] = AfterSubmit(scan[i], scan[i].cur, q)]
    BY <1>5 DEF ScanSubmit
  <2>2. scan[i].cur \in Txs
    BY <1>1, <2>1 DEF InHand, SubmitStep, Scanning, InSubmit
  <2> DEFINE new == AfterSubmit(scan[i], scan[i].cur, q)
  <2>3. new \in Scan /\ (q # "accepted" => new.cur \in Txs) /\ (q = "accepted" => new.pc = "next")
    BY <1>2, <2>2, AfterSubmitState
  <2>4. scan' \in [Instances -> Scan] /\ InHand'
    <3> HIDE DEF new
    <3>1. scan' = [scan EXCEPT ![i] = new]
      BY <2>1 DEF new
    <3>2. worker' = worker
      BY <1>5 DEF ScanSubmit
    <3> QED
      BY <1>1, <1>2, <2>3, <3>1, <3>2 DEF InHand, Scanning, InSubmit
  <2> QED
    BY <1>1, <1>5, <2>1, <2>2, <2>4, SubmitTypes DEF ScanSubmit, TypeInv, TypeOK
<1>6. CASE ScanRelease(i)
  <2>1. [scan[i] EXCEPT !.pc = "next", !.cur = 0] \in Scan
    BY <1>2, HandEmpty
  <2>2. scan' = [scan EXCEPT ![i] = [scan[i] EXCEPT !.pc = "next", !.cur = 0]]
    BY <1>2, <1>6 DEF ScanRelease
  <2>3. scan' \in [Instances -> Scan]
    BY <1>2, <2>1, <2>2
  <2>4. row' \in [Txs -> Row]
    BY <1>1, <1>6, ReleaseRows DEF ScanRelease
  <2>5. scan'[i].pc = "next" /\ \A j \in Instances \ {i} : scan'[j] = scan[j]
    BY <1>2, <2>2 DEF Scan
  <2>6. InHand'
    BY <1>1, <1>6, <2>5 DEF InHand, ScanRelease, Scanning, InSubmit
  <2> QED
    BY <1>1, <1>6, <2>3, <2>4, <2>6 DEF ScanRelease, TypeInv, TypeOK
<1>7. CASE ScanEnds(i)
  <2>1. scan' \in [Instances -> Scan] /\ InHand'
    BY <1>1, <1>2, <1>7, FreshScan DEF ScanEnds, InHand
  <2> QED
    BY <1>1, <1>7, <2>1 DEF ScanEnds, TypeInv, TypeOK
<1> QED
  BY <1>3, <1>4, <1>5, <1>6, <1>7 DEF TimeoutScan

LEMMA LifeTypes ==
    ASSUME TypeInv, NEW i \in Instances, Start(i) \/ Stop(i) \/ Stopped(i) \/ Crash(i)
    PROVE  TypeInv'
<1>1. TypeOK /\ InHand
  BY DEF TypeInv
<1>2. CASE Start(i)
  BY <1>1, <1>2, FreshScan DEF Start, TypeInv, TypeOK, InHand
<1>3. CASE Stop(i)
  BY <1>1, <1>3 DEF Stop, procVars, TypeInv, TypeOK, InHand
<1>4. CASE Forget(i)
  <2>1. <<>> \in Seq(Txs) /\ Len(<<>>) <= QueueSize
    BY DispatchAssumption
  <2>2. Idle \in Job /\ Idle.pc = "idle"
    BY DispatchAssumption DEF Idle, Job
  <2>3. [NoCall EXCEPT !.pc = "done"] \in Call
    BY DEF NoCall, Call
  <2>4. client' \in [Txs -> Call]
    BY <1>1, <1>4, <2>3 DEF Forget, TypeOK
  <2>5. queue' \in [Instances -> Seq(Txs)] /\ \A j \in Instances : Len(queue'[j]) <= QueueSize
    BY <1>1, <1>4, <2>1 DEF Forget, TypeOK
  <2>6. worker' = [worker EXCEPT ![i] = [w \in Workers |-> Idle]]
    BY <1>4 DEF Forget
  <2>7. worker' \in [Instances -> [Workers -> Job]]
    BY <1>1, <2>2, <2>6 DEF TypeOK
  <2>8. /\ recovery' \in [Instances -> Scan] /\ scan' \in [Instances -> Scan]
        /\ scan'[i].pc \notin Scanning /\ \A j \in Instances \ {i} : scan'[j] = scan[j]
    BY <1>1, <1>4, FreshScan DEF Forget, TypeOK
  <2>9. InHand'
    BY <1>1, <2>2, <2>6, <2>8 DEF InHand, TypeOK
  <2> QED
    BY <1>1, <1>4, <2>4, <2>5, <2>7, <2>8, <2>9 DEF Forget, TypeInv, TypeOK
<1> QED
  BY <1>2, <1>3, <1>4 DEF Stopped, Crash

LEMMA ExpiryTypes ==
    ASSUME TypeInv, NEW t \in Txs, LeaseExpires(t)
    PROVE  /\ TypeInv'
           /\ \A u \in Txs : row'[u].status = row[u].status /\ row'[u].lockedBy = row[u].lockedBy
<1>1. TypeOK /\ InHand
  BY DEF TypeInv
<1>2. /\ [row[t] EXCEPT !.expired = TRUE] \in Row
      /\ [row[t] EXCEPT !.expired = TRUE].status = row[t].status
      /\ [row[t] EXCEPT !.expired = TRUE].lockedBy = row[t].lockedBy
  BY <1>1 DEF TypeOK, Row
<1>3. row' = [row EXCEPT ![t] = [row[t] EXCEPT !.expired = TRUE]]
  BY DEF LeaseExpires
<1>4. /\ row' \in [Txs -> Row]
      /\ \A u \in Txs : row'[u].status = row[u].status /\ row'[u].lockedBy = row[u].lockedBy
  BY <1>1, <1>2, <1>3 DEF TypeOK
<1> QED
  BY <1>1, <1>4 DEF LeaseExpires, procVars, TypeInv, TypeOK, InHand

LEMMA TypeStep == TypeInv /\ [Next]_vars => TypeInv'
<1> SUFFICES ASSUME TypeInv, [Next]_vars PROVE TypeInv'
  OBVIOUS
<1>1. CASE UNCHANGED vars
  BY <1>1 DEF vars, procVars, TypeInv, TypeOK, InHand
<1>2. CASE Next
  BY <1>2, ClientTypes, WorkerTypes, RecoveryTypes, TimeoutScanTypes, LifeTypes, ExpiryTypes DEF Next
<1> QED
  BY <1>1, <1>2

(***************************************************************************)
(* The variables of the dispatch keep their types: the taskQueue never     *)
(* exceeds its capacity, the scans list and the workers hold transactions  *)
(* only.                                                                   *)
(***************************************************************************)
THEOREM DispatchTypeCorrect == Spec => []TypeOK
<1>1. TypeInv => TypeOK
  BY DEF TypeInv
<1> QED
  BY <1>1, InitType, TypeStep, PTL DEF Spec

-----------------------------------------------------------------------------
(* Who has not been created has not been submitted *)

(* No statement takes a row back to where it does not exist. *)
LEMMA RowsStay ==
    ASSUME TypeInv, Next, NEW t \in Txs, row[t].status # "none"
    PROVE  row'[t].status # "none"
<1>1. TypeOK /\ InHand /\ row \in [Txs -> Row]
  BY DEF TypeInv, TypeOK
<1>2. CASE \E i \in Instances, u \in Txs : Create(i, u) \/ Submit(i, u)
  <2>1. PICK i \in Instances, u \in Txs : Create(i, u) \/ Submit(i, u)
    BY <1>2
  <2>2. row' = row \/ (u \in Txs /\ row' = [row EXCEPT ![u] = [row[u] EXCEPT !.status = "pending"]])
    BY <2>1 DEF Create, Submit
  <2>3. [row[u] EXCEPT !.status = "pending"].status = "pending"
    BY <1>1, StatusSet DEF ActiveStatus
  <2> QED
    BY <1>1, <2>2, <2>3
<1>3. CASE \E i \in Instances : Worker(i)
  <2>1. PICK i \in Instances, w \in Workers :
          \/ TakeTask(i, w) \/ Claim(i, w) \/ Drive(i, w)
          \/ DriveEnds(i, w) \/ Release(i, w) \/ Unmark(i, w)
    BY <1>3 DEF Worker
  <2>2. CASE Drive(i, w)
    <3> DEFINE u == worker[i][w].tx
    <3>1. PICK s \in Moves(row[u].status) : row' = [row EXCEPT ![u] = [Locked(row[u], i) EXCEPT !.status = s]]
      BY <2>2 DEF Drive
    <3>2. u \in Txs
      BY <1>1, <2>2 DEF Drive, InHand
    <3>3. s \in ActiveStatus \cup {"succeeded", "failed"} /\ s # "none"
      BY <3>1 DEF Moves, ActiveStatus
    <3> HIDE DEF u
    <3>4. [Locked(row[u], i) EXCEPT !.status = s].status = s
      BY <1>1, <3>2, <3>3, LockedType, StatusSet
    <3> QED
      BY <1>1, <3>1, <3>2, <3>3, <3>4
  <2>3. CASE Claim(i, w) \/ Release(i, w)
    BY <1>1, <2>3, LockAllRows, ReleaseRows DEF Claim, Release
  <2>4. CASE TakeTask(i, w) \/ DriveEnds(i, w) \/ Unmark(i, w)
    BY <2>4 DEF TakeTask, DriveEnds, Unmark
  <2> QED
    BY <2>1, <2>2, <2>3, <2>4
<1>4. CASE \E i \in Instances : Recovery(i)
  BY <1>1, <1>4, LockAllRows, ReleaseRows
     DEF Recovery, RecoveryList, RecoverySubmit, RecoveryRelease, RecoveryEnds, RecoveryQuits
<1>5. CASE \E i \in Instances : TimeoutScan(i)
  <2>1. PICK i \in Instances : TimeoutScan(i)
    BY <1>5
  <2>2. CASE ScanCAS(i)
    <3>1. PICK u : row' = row \/ row' = [row EXCEPT ![u] = [row[u] EXCEPT !.status = "compensating"]]
      BY <2>2 DEF ScanCAS
    <3>2. u \in Txs => [row[u] EXCEPT !.status = "compensating"].status = "compensating"
      BY <1>1, StatusSet DEF ActiveStatus
    <3> QED
      BY <1>1, <3>1, <3>2
  <2>3. CASE ScanList(i)
    <3>1. PICK S : LockAll(i, S)
      BY <2>3 DEF ScanList
    <3> QED
      BY <1>1, <3>1, LockAllRows
  <2>4. CASE ScanRelease(i)
    BY <1>1, <2>4, ReleaseRows DEF ScanRelease
  <2>5. CASE ScanSubmit(i) \/ ScanEnds(i)
    BY <2>5 DEF ScanSubmit, ScanEnds
  <2> QED
    BY <2>1, <2>2, <2>3, <2>4, <2>5 DEF TimeoutScan
<1>6. CASE \E i \in Instances : Start(i) \/ Stop(i) \/ Stopped(i) \/ Crash(i)
  BY <1>6 DEF Start, Stop, Stopped, Crash, Forget
<1>7. CASE \E u \in Txs : LeaseExpires(u)
  BY <1>7, ExpiryTypes
<1> QED
  BY <1>2, <1>3, <1>4, <1>5, <1>6, <1>7 DEF Next

(* The goroutines of a process leave the callers and the life cycle alone. *)
LEMMA GoroutinesKeep ==
    ASSUME NEW i \in Instances, Worker(i) \/ Recovery(i) \/ TimeoutScan(i)
    PROVE  client' = client /\ phase' = phase
<1>1. CASE Worker(i)
  BY <1>1 DEF Worker, TakeTask, Claim, Drive, DriveEnds, Release, Unmark
<1>2. CASE Recovery(i)
  BY <1>2 DEF Recovery, RecoveryList, RecoverySubmit, RecoveryRelease, RecoveryEnds, RecoveryQuits
<1>3. CASE TimeoutScan(i)
  BY <1>3 DEF TimeoutScan, ScanList, ScanCAS, ScanSubmit, ScanRelease, ScanEnds
<1> QED
  BY <1>1, <1>2, <1>3

(* Engine.Submit hands over only what it has written. *)
Called == \A t \in Txs : row[t].status = "none" => client[t] = NoCall

LEMMA CalledStep ==
    ASSUME TypeInv, Called, Next
    PROVE  Called'
<1>1. SUFFICES ASSUME NEW t \in Txs, row'[t].status = "none"
               PROVE  client'[t] = NoCall
  BY DEF Called
<1>2. TypeOK /\ row[t].status = "none" /\ client[t] = NoCall /\ client[t].at = NoInstance
  BY <1>1, RowsStay DEF Called, NoCall, TypeInv
<1>3. client \in [Txs -> Call] /\ NoInstance \notin Instances
  BY <1>2, DispatchAssumption DEF TypeOK
<1>4. CASE \E i \in Instances, u \in Txs : Create(i, u)
  <2>1. PICK i \in Instances, u \in Txs : Create(i, u)
    BY <1>4
  <2>2. row' = [row EXCEPT ![u] = [row[u] EXCEPT !.status = "pending"]]
    BY <2>1 DEF Create
  <2>3. [row[u] EXCEPT !.status = "pending"].status = "pending" /\ row \in [Txs -> Row]
    BY <1>2, StatusSet DEF ActiveStatus, TypeOK
  <2>4. u # t
    BY <1>1, <2>2, <2>3
  <2> QED
    BY <1>2, <1>3, <2>1, <2>4 DEF Create
<1>5. CASE \E i \in Instances, u \in Txs : Submit(i, u)
  BY <1>2, <1>3, <1>5 DEF Submit
<1>6. CASE \E i \in Instances : Forget(i)
  BY <1>2, <1>3, <1>6 DEF Forget
<1>7. CASE client' = client
  BY <1>2, <1>7
<1>8. CASE \E i \in Instances : Worker(i) \/ Recovery(i) \/ TimeoutScan(i)
  BY <1>7, <1>8, GoroutinesKeep
<1>9. CASE (\E i \in Instances : Start(i) \/ Stop(i)) \/ (\E u \in Txs : LeaseExpires(u))
  BY <1>7, <1>9 DEF Start, Stop, LeaseExpires
<1> QED
  BY <1>4, <1>5, <1>6, <1>8, <1>9 DEF Next, Stopped, Crash

-----------------------------------------------------------------------------
(***************************************************************************)
(* The places of OnePlace as predicates, and the invariant that says it    *)
(* without counting: a transaction is marked when it is somewhere, it is   *)
(* in one kind of place at a time, and in each of them once.               *)
(***************************************************************************)
AtCaller(i, t) == client[t].at = i /\ client[t].pc \in Marked
AtScan(sc, t)  == sc.cur = t /\ sc.pc \in Marked
Waits(i, t)    == \E k \in 1..Len(queue[i]) : queue[i][k] = t
AtWork(i, t)   == \E w \in Workers : worker[i][w].pc # "idle" /\ worker[i][w].tx = t

WaitsOnce(i, t) ==
    \A k, l \in 1..Len(queue[i]) : queue[i][k] = t /\ queue[i][l] = t => k = l

WorkedOnOnce(i, t) ==
    \A v, w \in Workers :
       /\ worker[i][v].pc # "idle" /\ worker[i][v].tx = t
       /\ worker[i][w].pc # "idle" /\ worker[i][w].tx = t
       => v = w

Placed(i, t) ==
    /\ t \in active[i] <=> \/ AtCaller(i, t) \/ AtScan(recovery[i], t) \/ AtScan(scan[i], t)
                           \/ Waits(i, t) \/ AtWork(i, t)
    /\ AtCaller(i, t) => /\ ~AtScan(recovery[i], t) /\ ~AtScan(scan[i], t)
                         /\ ~Waits(i, t) /\ ~AtWork(i, t)
    /\ AtScan(recovery[i], t) => ~AtScan(scan[i], t) /\ ~Waits(i, t) /\ ~AtWork(i, t)
    /\ AtScan(scan[i], t) => ~Waits(i, t) /\ ~AtWork(i, t)
    /\ Waits(i, t) => ~AtWork(i, t)
    /\ WaitsOnce(i, t)
    /\ WorkedOnOnce(i, t)

(* A process that does not run has nothing marked and serves no caller. *)
Quiet(i) == ~Live(i) => active[i] = {} /\ \A t \in Txs : client[t].at # i

PlaceInv ==
    /\ TypeInv /\ Called
    /\ \A i \in Instances : Quiet(i) /\ \A t \in Txs : Placed(i, t)

(***************************************************************************)
(* What LeaseIsBacked rests on: a scan that is not under way lists         *)
(* nothing, and the leases of the store name processes that have run.      *)
(***************************************************************************)
NothingListed(sc) == sc.pc \in {"off", "wait"} => sc.todo = {}

LeaseInv ==
    /\ TypeInv
    /\ \A i \in Instances : NothingListed(recovery[i]) /\ NothingListed(scan[i])
    /\ \A t \in Txs : row[t].status = "none" => row[t].lockedBy = NoInstance
    /\ \A i \in Instances, t \in Txs : phase[i] = "down" => row[t].lockedBy # i
    /\ LeaseIsBacked

-----------------------------------------------------------------------------
(* One place for each transaction *)

(* What a step of Submit does to the marks and to the queues. *)
LEMMA SubmitMoves ==
    ASSUME TypeOK, NEW i \in Instances, NEW t \in Txs, NEW p, NEW q,
           SubmitStep(i, t, p, q)
    PROVE  /\ \A j \in Instances, u \in Txs :
                j # i \/ u # t => /\ u \in active'[j] <=> u \in active[j]
                                  /\ Waits(j, u)' <=> Waits(j, u)
                                  /\ WaitsOnce(j, u) => WaitsOnce(j, u)'
           /\ \/ p = "mark" /\ q = "enqueue" /\ queue' = queue
                /\ t \notin active[i] /\ t \in active'[i]
              \/ p = "mark" /\ q = "declined" /\ UNCHANGED <<queue, active>>
              \/ p = "enqueue" /\ q = "accepted" /\ UNCHANGED active
                /\ Waits(i, t)' /\ (~Waits(i, t) => WaitsOnce(i, t)')
              \/ p = "enqueue" /\ q = "unmark" /\ UNCHANGED <<queue, active>>
              \/ p = "unmark" /\ q = "declined" /\ queue' = queue /\ t \notin active'[i]
<1>1. /\ queue \in [Instances -> Seq(Txs)]
      /\ active \in [Instances -> SUBSET Txs]
  BY DEF TypeOK
<1>2. CASE queue' = queue
  <2>1. /\ \A j \in Instances, u \in Txs : j # i \/ u # t => (u \in active'[j] <=> u \in active[j])
        /\ \A j \in Instances, u \in Txs : Waits(j, u)' <=> Waits(j, u)
        /\ \A j \in Instances, u \in Txs : WaitsOnce(j, u) => WaitsOnce(j, u)'
    BY <1>1, <1>2 DEF SubmitStep, SubmitMarks, SubmitSkips, SubmitEnqueues, SubmitFindsFull,
                      SubmitUnmarks, Waits, WaitsOnce
  <2>2. ~SubmitEnqueues(i, t)
    <3>1. queue[i] \in Seq(Txs) /\ Append(queue[i], t) # queue[i]
      BY <1>1
    <3> QED
      BY <1>1, <1>2, <3>1 DEF SubmitEnqueues
  <2>3. \/ p = "mark" /\ q = "enqueue" /\ t \notin active[i] /\ t \in active'[i]
        \/ p = "mark" /\ q = "declined" /\ UNCHANGED active
        \/ p = "enqueue" /\ q = "unmark" /\ UNCHANGED active
        \/ p = "unmark" /\ q = "declined" /\ t \notin active'[i]
    BY <1>1, <2>2 DEF SubmitStep, SubmitMarks, SubmitSkips, SubmitFindsFull, SubmitUnmarks
  <2> QED
    BY <1>2, <2>1, <2>3
<1>3. CASE p = "enqueue" /\ q = "accepted" /\ SubmitEnqueues(i, t)
  <2>1. queue' = [queue EXCEPT ![i] = Append(queue[i], t)] /\ active' = active
    BY <1>3 DEF SubmitEnqueues
  <2> DEFINE n == Len(queue[i])
  <2>2. /\ n \in Nat /\ Len(queue'[i]) = n + 1 /\ queue'[i][n + 1] = t
        /\ \A k \in 1..n : queue'[i][k] = queue[i][k]
        /\ \A j \in Instances \ {i} : queue'[j] = queue[j]
    <3>1. queue[i] \in Seq(Txs) /\ queue'[i] = Append(queue[i], t)
      BY <1>1, <2>1
    <3> QED
      BY <1>1, <2>1, <3>1
  <2> HIDE DEF n
  <2>3. \A k : k \in 1..(n + 1) <=> k \in 1..n \/ k = n + 1
    BY <2>2
  <2>4. n = Len(queue[i]) /\ n + 1 \in 1..(n + 1)
    BY <2>2 DEF n
  <2>5. Waits(i, t)' /\ (~Waits(i, t) => WaitsOnce(i, t)')
    BY <2>2, <2>3, <2>4 DEF Waits, WaitsOnce
  <2>6. ASSUME NEW u \in Txs, u # t
        PROVE  (Waits(i, u)' <=> Waits(i, u)) /\ (WaitsOnce(i, u) => WaitsOnce(i, u)')
    BY <2>2, <2>3, <2>4, <2>6 DEF Waits, WaitsOnce
  <2>7. ASSUME NEW u \in Txs, NEW j \in Instances \ {i}
        PROVE  (Waits(j, u)' <=> Waits(j, u)) /\ (WaitsOnce(j, u) => WaitsOnce(j, u)')
    BY <2>2 DEF Waits, WaitsOnce
  <2>8. \A j \in Instances, u \in Txs :
           j # i \/ u # t => /\ u \in active'[j] <=> u \in active[j]
                             /\ Waits(j, u)' <=> Waits(j, u)
                             /\ WaitsOnce(j, u) => WaitsOnce(j, u)'
    BY <2>1, <2>6, <2>7
  <2> QED
    BY <1>3, <2>1, <2>5, <2>8
<1> QED
  BY <1>2, <1>3 DEF SubmitStep, SubmitMarks, SubmitSkips, SubmitFindsFull, SubmitUnmarks

(***************************************************************************)
(* A step that leaves alone all that places a transaction in a process     *)
(* leaves it placed.                                                       *)
(***************************************************************************)
LEMMA PlacedFrame ==
    ASSUME NEW i \in Instances, NEW t \in Txs, Placed(i, t),
           t \in active'[i] <=> t \in active[i],
           AtCaller(i, t)' <=> AtCaller(i, t),
           AtScan(recovery'[i], t) <=> AtScan(recovery[i], t),
           AtScan(scan'[i], t) <=> AtScan(scan[i], t),
           Waits(i, t)' <=> Waits(i, t),
           WaitsOnce(i, t) => WaitsOnce(i, t)',
           AtWork(i, t)' <=> AtWork(i, t),
           WorkedOnOnce(i, t) => WorkedOnOnce(i, t)'
    PROVE  Placed(i, t)'
<1> QED
  BY DEF Placed

(* Only the caller's view of t changes; its step of Submit keeps t in one place. *)
LEMMA ClientPlaces ==
    ASSUME PlaceInv, NEW i \in Instances, NEW t \in Txs, Create(i, t) \/ Submit(i, t)
    PROVE  \A j \in Instances : Quiet(j)' /\ \A u \in Txs : Placed(j, u)'
<1>1. TypeOK /\ Called
  BY DEF TypeInv, PlaceInv
<1>2. /\ \A j \in Instances : Quiet(j)
      /\ \A j \in Instances, u \in Txs : Placed(j, u)
  BY DEF PlaceInv
<1>3. client \in [Txs -> Call] /\ NoInstance \notin Instances
  BY <1>1, DispatchAssumption DEF TypeOK
<1>4. UNCHANGED <<phase, worker, recovery, scan>>
  BY DEF Create, Submit, procVars
<1>5. \A j \in Instances, u \in Txs :
        /\ AtScan(recovery'[j], u) <=> AtScan(recovery[j], u)
        /\ AtScan(scan'[j], u) <=> AtScan(scan[j], u)
        /\ AtWork(j, u)' <=> AtWork(j, u)
        /\ WorkedOnOnce(j, u) => WorkedOnOnce(j, u)'
  BY <1>4 DEF AtWork, WorkedOnOnce
<1>6. CASE Create(i, t)
  <2>1. UNCHANGED <<queue, active>> /\ Live(i)
        /\ client' = [client EXCEPT ![t] = [pc |-> "mark", at |-> i]]
    BY <1>6 DEF Create, procVars
  <2>2. client[t].at = NoInstance
    BY <1>1, <1>6 DEF Create, Called, NoCall
  <2>3. \A j \in Instances, u \in Txs : AtCaller(j, u)' <=> AtCaller(j, u)
    BY <1>3, <2>1, <2>2 DEF AtCaller, Marked
  <2>4. \A j \in Instances, u \in Txs : /\ Waits(j, u)' <=> Waits(j, u)
                                        /\ WaitsOnce(j, u) => WaitsOnce(j, u)'
    BY <2>1 DEF Waits, WaitsOnce
  <2>5. \A j \in Instances, u \in Txs : Placed(j, u)'
    BY <1>2, <1>5, <2>1, <2>3, <2>4, PlacedFrame
  <2>6. \A j \in Instances : Quiet(j)'
    BY <1>2, <1>3, <1>4, <2>1 DEF Quiet, Live
  <2> QED
    BY <2>5, <2>6
<1>7. CASE Submit(i, t)
  <2>1. client[t].at = i
    BY <1>7 DEF Submit
  <2> DEFINE p == client[t].pc
  <2>2. PICK q \in SubmitOutcomes :
          /\ SubmitStep(i, t, p, q)
          /\ client' = [client EXCEPT ![t] = IF q \in InSubmit
                           THEN [pc |-> q, at |-> i] ELSE [NoCall EXCEPT !.pc = "done"]]
    BY <1>7 DEF Submit
  <2>3. Live(i)
    BY <1>2, <2>1 DEF Quiet
  <2>4. /\ AtCaller(i, t) <=> p \in Marked
        /\ AtCaller(i, t)' <=> q \in Marked
        /\ \A j \in Instances, u \in Txs : j # i \/ u # t => (AtCaller(j, u)' <=> AtCaller(j, u))
    BY <1>3, <2>1, <2>2 DEF AtCaller, Marked, SubmitOutcomes, InSubmit, NoCall
  <2> HIDE DEF p
  <2>5. \A j \in Instances, u \in Txs : j # i \/ u # t => Placed(j, u)'
    BY <1>1, <1>2, <1>5, <2>2, <2>4, SubmitMoves, PlacedFrame
  <2>6. Placed(i, t)'
    <3>1. Placed(i, t)
      BY <1>2
    <3>2. /\ AtScan(recovery'[i], t) <=> AtScan(recovery[i], t)
          /\ AtScan(scan'[i], t) <=> AtScan(scan[i], t)
          /\ AtWork(i, t)' <=> AtWork(i, t)
          /\ WorkedOnOnce(i, t) => WorkedOnOnce(i, t)'
      BY <1>5
    <3>3. queue' = queue => (Waits(i, t)' <=> Waits(i, t)) /\ (WaitsOnce(i, t)' <=> WaitsOnce(i, t))
      BY DEF Waits, WaitsOnce
    <3>4. \/ p = "mark" /\ q = "enqueue" /\ queue' = queue
             /\ t \notin active[i] /\ t \in active'[i]
          \/ p = "mark" /\ q = "declined" /\ UNCHANGED <<queue, active>>
          \/ p = "enqueue" /\ q = "accepted" /\ UNCHANGED active
             /\ Waits(i, t)' /\ (~Waits(i, t) => WaitsOnce(i, t)')
          \/ p = "enqueue" /\ q = "unmark" /\ UNCHANGED <<queue, active>>
          \/ p = "unmark" /\ q = "declined" /\ queue' = queue /\ t \notin active'[i]
      BY <1>1, <2>2, SubmitMoves
    <3> QED
      BY <2>4, <3>1, <3>2, <3>3, <3>4 DEF Placed, Marked
  <2>7. \A j \in Instances : Quiet(j)'
    <3>1. \A j \in Instances \ {i}, u \in Txs : client'[u].at = j => client[u].at = j
      BY <1>3, <2>2 DEF NoCall
    <3>2. \A j \in Instances \ {i} : active'[j] = active[j]
      BY <1>1, <2>2, SubmitTypes
    <3> QED
      BY <1>2, <1>4, <2>3, <3>1, <3>2 DEF Quiet, Live
  <2> QED
    BY <2>5, <2>6, <2>7
<1> QED
  BY <1>6, <1>7

(***************************************************************************)
(* Of t's places in process i a step of Submit moves one party only: here  *)
(* the scan sc of the two, whose view of the others is empty.              *)
(***************************************************************************)
LEMMA ScanHandsOver ==
    ASSUME NEW sc \in Scan, NEW t \in Txs, NEW p \in InSubmit, NEW q \in SubmitOutcomes,
           (sc.pc = "next" /\ p = "mark") \/ (sc.pc = p /\ sc.cur = t)
    PROVE  /\ AtScan(sc, t) <=> p \in Marked
           /\ AtScan(AfterSubmit(sc, t, q), t) <=> q \in Marked
           /\ \A u \in Txs \ {t} : ~AtScan(sc, u) /\ ~AtScan(AfterSubmit(sc, t, q), u)
<1>1. /\ q # "accepted" => AfterSubmit(sc, t, q).cur = t
      /\ q = "accepted" => AfterSubmit(sc, t, q).pc = "next"
      /\ AfterSubmit(sc, t, q).pc \in Marked <=> q \in Marked
  BY AfterSubmitState
<1>2. "next" \notin Marked /\ "mark" \notin Marked /\ "accepted" \notin Marked
  BY DEF Marked
<1> QED
  BY <1>1, <1>2 DEF AtScan

LEMMA RecoveryPlaces ==
    ASSUME PlaceInv, NEW i \in Instances, Recovery(i)
    PROVE  \A j \in Instances, u \in Txs : Placed(j, u)'
<1>1. TypeOK /\ recovery \in [Instances -> Scan]
  BY DEF TypeInv, PlaceInv, TypeOK
<1>2. \A j \in Instances, u \in Txs : Placed(j, u)
  BY DEF PlaceInv
<1>3. UNCHANGED <<client, worker, scan>>
  BY GoroutinesKeep
     DEF Recovery, RecoveryList, RecoverySubmit, RecoveryRelease, RecoveryEnds, RecoveryQuits
<1>4. \A j \in Instances, u \in Txs :
        /\ AtCaller(j, u)' <=> AtCaller(j, u)
        /\ AtScan(scan'[j], u) <=> AtScan(scan[j], u)
        /\ AtWork(j, u)' <=> AtWork(j, u)
        /\ WorkedOnOnce(j, u) => WorkedOnOnce(j, u)'
  BY <1>3 DEF AtCaller, AtWork, WorkedOnOnce
<1>5. CASE RecoverySubmit(i)
  <2>1. PICK t \in Txs, p \in InSubmit, q \in SubmitOutcomes :
          /\ (recovery[i].pc = "next" /\ p = "mark") \/ (recovery[i].pc = p /\ recovery[i].cur = t)
          /\ SubmitStep(i, t, p, q)
          /\ recovery' = [recovery EXCEPT ![i] = AfterSubmit(recovery[i], t, q)]
    BY <1>5 DEF RecoverySubmit
  <2>2. /\ AtScan(recovery[i], t) <=> p \in Marked
        /\ AtScan(recovery'[i], t) <=> q \in Marked
        /\ \A u \in Txs \ {t} : ~AtScan(recovery[i], u) /\ ~AtScan(recovery'[i], u)
        /\ \A j \in Instances \ {i} : recovery'[j] = recovery[j]
    BY <1>1, <2>1, ScanHandsOver
  <2>3. \A j \in Instances, u \in Txs : j # i \/ u # t => Placed(j, u)'
    BY <1>1, <1>2, <1>4, <2>1, <2>2, SubmitMoves, PlacedFrame
  <2>4. Placed(i, t)'
    <3>1. Placed(i, t)
      BY <1>2
    <3>2. /\ AtCaller(i, t)' <=> AtCaller(i, t)
          /\ AtScan(scan'[i], t) <=> AtScan(scan[i], t)
          /\ AtWork(i, t)' <=> AtWork(i, t)
          /\ WorkedOnOnce(i, t) => WorkedOnOnce(i, t)'
      BY <1>4
    <3>3. queue' = queue => (Waits(i, t)' <=> Waits(i, t)) /\ (WaitsOnce(i, t)' <=> WaitsOnce(i, t))
      BY DEF Waits, WaitsOnce
    <3>4. \/ p = "mark" /\ q = "enqueue" /\ queue' = queue
             /\ t \notin active[i] /\ t \in active'[i]
          \/ p = "mark" /\ q = "declined" /\ UNCHANGED <<queue, active>>
          \/ p = "enqueue" /\ q = "accepted" /\ UNCHANGED active
             /\ Waits(i, t)' /\ (~Waits(i, t) => WaitsOnce(i, t)')
          \/ p = "enqueue" /\ q = "unmark" /\ UNCHANGED <<queue, active>>
          \/ p = "unmark" /\ q = "declined" /\ queue' = queue /\ t \notin active'[i]
      BY <1>1, <2>1, SubmitMoves
    <3> QED
      BY <2>2, <3>1, <3>2, <3>3, <3>4 DEF Placed, Marked
  <2> QED
    BY <2>3, <2>4
<1>6. CASE RecoveryList(i) \/ RecoveryRelease(i) \/ RecoveryEnds(i) \/ RecoveryQuits(i)
  <2>1. UNCHANGED <<queue, active>>
    BY <1>6 DEF RecoveryList, RecoveryRelease, RecoveryEnds, RecoveryQuits
  <2>2. recovery[i].pc \notin Marked
    BY <1>6 DEF RecoveryList, RecoveryRelease, RecoveryEnds, RecoveryQuits, Marked
  <2>3. recovery'[i].pc \notin Marked /\ \A j \in Instances \ {i} : recovery'[j] = recovery[j]
    <3>1. CASE RecoveryList(i)
      <4>1. PICK S : recovery' = [recovery EXCEPT ![i] = [ScanAt("next") EXCEPT !.todo = S]]
        BY <3>1 DEF RecoveryList
      <4>2. [ScanAt("next") EXCEPT !.todo = S].pc = "next"
        BY DEF ScanAt
      <4> QED
        BY <1>1, <4>1, <4>2 DEF Marked
    <3>2. CASE RecoveryRelease(i)
      <4>1. recovery' = [recovery EXCEPT ![i] = [recovery[i] EXCEPT !.pc = "next", !.cur = 0]]
        BY <1>1, <3>2 DEF RecoveryRelease
      <4> QED
        BY <1>1, <4>1, HandEmpty DEF Marked
    <3>3. CASE RecoveryEnds(i) \/ RecoveryQuits(i)
      BY <1>1, <3>3, FreshScan DEF RecoveryEnds, RecoveryQuits, Marked
    <3> QED
      BY <1>6, <3>1, <3>2, <3>3
  <2>4. \A j \in Instances, u \in Txs : AtScan(recovery'[j], u) <=> AtScan(recovery[j], u)
    BY <2>2, <2>3 DEF AtScan
  <2>5. \A j \in Instances, u \in Txs : /\ Waits(j, u)' <=> Waits(j, u)
                                        /\ WaitsOnce(j, u) => WaitsOnce(j, u)'
    BY <2>1 DEF Waits, WaitsOnce
  <2> QED
    BY <1>2, <1>4, <2>1, <2>4, <2>5, PlacedFrame
<1> QED
  BY <1>5, <1>6 DEF Recovery

LEMMA TimeoutScanPlaces ==
    ASSUME PlaceInv, NEW i \in Instances, TimeoutScan(i)
    PROVE  \A j \in Instances, u \in Txs : Placed(j, u)'
<1>1. TypeOK /\ InHand /\ scan \in [Instances -> Scan]
  BY DEF TypeInv, PlaceInv, TypeOK
<1>2. \A j \in Instances, u \in Txs : Placed(j, u)
  BY DEF PlaceInv
<1>3. UNCHANGED <<client, worker, recovery>>
  BY GoroutinesKeep DEF TimeoutScan, ScanList, ScanCAS, ScanSubmit, ScanRelease, ScanEnds
<1>4. \A j \in Instances, u \in Txs :
        /\ AtCaller(j, u)' <=> AtCaller(j, u)
        /\ AtScan(recovery'[j], u) <=> AtScan(recovery[j], u)
        /\ AtWork(j, u)' <=> AtWork(j, u)
        /\ WorkedOnOnce(j, u) => WorkedOnOnce(j, u)'
  BY <1>3 DEF AtCaller, AtWork, WorkedOnOnce
<1>5. CASE ScanSubmit(i)
  <2>1. scan[i].cur \in Txs /\ scan[i].pc \in InSubmit
    <3>1. scan[i].pc \in InSubmit
      BY <1>5 DEF ScanSubmit, SubmitStep, InSubmit
    <3> QED
      BY <1>1, <3>1 DEF InHand, Scanning
  <2>2. PICK t \in Txs, p \in InSubmit, q \in SubmitOutcomes :
          /\ scan[i].pc = p /\ scan[i].cur = t
          /\ SubmitStep(i, t, p, q)
          /\ scan' = [scan EXCEPT ![i] = AfterSubmit(scan[i], t, q)]
    BY <1>5, <2>1 DEF ScanSubmit
  <2>4. /\ AtScan(scan[i], t) <=> p \in Marked
        /\ AtScan(scan'[i], t) <=> q \in Marked
        /\ \A u \in Txs \ {t} : ~AtScan(scan[i], u) /\ ~AtScan(scan'[i], u)
        /\ \A j \in Instances \ {i} : scan'[j] = scan[j]
    BY <1>1, <2>2, ScanHandsOver
  <2>5. \A j \in Instances, u \in Txs : j # i \/ u # t => Placed(j, u)'
    BY <1>1, <1>2, <1>4, <2>2, <2>4, SubmitMoves, PlacedFrame
  <2>6. Placed(i, t)'
    <3>1. Placed(i, t)
      BY <1>2
    <3>2. /\ AtCaller(i, t)' <=> AtCaller(i, t)
          /\ AtScan(recovery'[i], t) <=> AtScan(recovery[i], t)
          /\ AtWork(i, t)' <=> AtWork(i, t)
          /\ WorkedOnOnce(i, t) => WorkedOnOnce(i, t)'
      BY <1>4
    <3>3. queue' = queue => (Waits(i, t)' <=> Waits(i, t)) /\ (WaitsOnce(i, t)' <=> WaitsOnce(i, t))
      BY DEF Waits, WaitsOnce
    <3>4. \/ p = "mark" /\ q = "enqueue" /\ queue' = queue
             /\ t \notin active[i] /\ t \in active'[i]
          \/ p = "mark" /\ q = "declined" /\ UNCHANGED <<queue, active>>
          \/ p = "enqueue" /\ q = "accepted" /\ UNCHANGED active
             /\ Waits(i, t)' /\ (~Waits(i, t) => WaitsOnce(i, t)')
          \/ p = "enqueue" /\ q = "unmark" /\ UNCHANGED <<queue, active>>
          \/ p = "unmark" /\ q = "declined" /\ queue' = queue /\ t \notin active'[i]
      BY <1>1, <2>2, SubmitMoves
    <3> QED
      BY <2>4, <3>1, <3>2, <3>3, <3>4 DEF Placed, Marked
  <2> QED
    BY <2>5, <2>6
<1>6. CASE ScanList(i) \/ ScanCAS(i) \/ ScanRelease(i) \/ ScanEnds(i)
  <2>1. UNCHANGED <<queue, active>>
    BY <1>6 DEF ScanList, ScanCAS, ScanRelease, ScanEnds
  <2>2. scan[i].pc \notin Marked
    BY <1>6 DEF ScanList, ScanCAS, ScanRelease, ScanEnds, Marked
  <2>3. scan'[i].pc \notin Marked /\ \A j \in Instances \ {i} : scan'[j] = scan[j]
    <3>1. CASE ScanList(i)
      <4>1. PICK S, R : scan' = [scan EXCEPT ![i] = [ScanAt("next") EXCEPT !.todo = S, !.seen = R]]
        BY <3>1 DEF ScanList
      <4>2. [ScanAt("next") EXCEPT !.todo = S, !.seen = R].pc = "next"
        BY DEF ScanAt
      <4> QED
        BY <1>1, <4>1, <4>2 DEF Marked
    <3>2. CASE ScanCAS(i)
      <4>1. PICK t \in scan[i].todo, place \in {"mark", "release"} :
              scan' = [scan EXCEPT ![i] = TakenOff(scan[i], t, place)]
        BY <3>2 DEF ScanCAS, TakenOff
      <4>2. TakenOff(scan[i], t, place).pc = place
        BY <1>1, NextOfScan
      <4> QED
        BY <1>1, <4>1, <4>2 DEF Marked
    <3>3. CASE ScanRelease(i)
      <4>1. scan' = [scan EXCEPT ![i] = [scan[i] EXCEPT !.pc = "next", !.cur = 0]]
        BY <1>1, <3>3 DEF ScanRelease
      <4> QED
        BY <1>1, <4>1, HandEmpty DEF Marked
    <3>4. CASE ScanEnds(i)
      BY <1>1, <3>4, FreshScan DEF ScanEnds, Marked
    <3> QED
      BY <1>6, <3>1, <3>2, <3>3, <3>4
  <2>4. \A j \in Instances, u \in Txs : AtScan(scan'[j], u) <=> AtScan(scan[j], u)
    BY <2>2, <2>3 DEF AtScan
  <2>5. \A j \in Instances, u \in Txs : /\ Waits(j, u)' <=> Waits(j, u)
                                        /\ WaitsOnce(j, u) => WaitsOnce(j, u)'
    BY <2>1 DEF Waits, WaitsOnce
  <2> QED
    BY <1>2, <1>4, <2>1, <2>4, <2>5, PlacedFrame
<1> QED
  BY <1>5, <1>6 DEF TimeoutScan

(* The head of a queue leaves it; the others stay, each as often as before. *)
LEMMA QueueTail ==
    ASSUME TypeOK, NEW i \in Instances, queue[i] # <<>>,
           queue' = [queue EXCEPT ![i] = Tail(@)]
    PROVE  /\ Head(queue[i]) \in Txs /\ Waits(i, Head(queue[i]))
           /\ \A u \in Txs : u # Head(queue[i]) => (Waits(i, u)' <=> Waits(i, u))
           /\ \A u \in Txs : WaitsOnce(i, u) => WaitsOnce(i, u)'
           /\ \A u \in Txs : u = Head(queue[i]) /\ WaitsOnce(i, u) => ~Waits(i, u)'
           /\ \A j \in Instances, u \in Txs :
                 j # i => (Waits(j, u)' <=> Waits(j, u)) /\ (WaitsOnce(j, u) => WaitsOnce(j, u)')
<1>1. queue \in [Instances -> Seq(Txs)] /\ queue[i] \in Seq(Txs)
  BY DEF TypeOK
<1>2. queue'[i] = Tail(queue[i]) /\ \A j \in Instances : j # i => queue'[j] = queue[j]
  BY <1>1
<1> DEFINE n == Len(queue[i])
<1>3. /\ n \in Nat /\ n >= 1 /\ queue[i][1] = Head(queue[i]) /\ Head(queue[i]) \in Txs
      /\ Len(queue'[i]) = n - 1
      /\ \A k \in 1..(n - 1) : queue'[i][k] = queue[i][k + 1]
  BY <1>1, <1>2
<1>4. n = Len(queue[i])
  OBVIOUS
<1> HIDE DEF n
<1>5. \A k \in 1..n : k = 1 \/ (k - 1 \in 1..(n - 1) /\ queue'[i][k - 1] = queue[i][k])
  BY <1>3
<1>6. \A k \in 1..(n - 1) : k + 1 \in 1..n /\ k + 1 # 1
  BY <1>3
<1>7. 1 \in 1..n
  BY <1>3
<1>8. Waits(i, Head(queue[i]))
  BY <1>3, <1>4, <1>7 DEF Waits
<1>9. ASSUME NEW u \in Txs, u # Head(queue[i])
      PROVE  Waits(i, u)' <=> Waits(i, u)
  <2>1. ASSUME NEW k \in 1..n, queue[i][k] = u
        PROVE  Waits(i, u)'
    <3>1. k - 1 \in 1..Len(queue'[i]) /\ queue'[i][k - 1] = u
      BY <1>3, <1>5, <1>9, <2>1
    <3> QED
      BY <3>1 DEF Waits
  <2>2. ASSUME NEW k \in 1..(n - 1), queue'[i][k] = u
        PROVE  Waits(i, u)
    <3>1. k + 1 \in 1..n /\ queue[i][k + 1] = u
      BY <1>3, <1>6, <2>2
    <3> QED
      BY <1>4, <3>1 DEF Waits
  <2> QED
    BY <1>3, <1>4, <2>1, <2>2 DEF Waits
<1>10. ASSUME NEW u \in Txs, WaitsOnce(i, u)
       PROVE  WaitsOnce(i, u)'
  <2>1. ASSUME NEW k \in 1..(n - 1), NEW l \in 1..(n - 1), queue'[i][k] = u, queue'[i][l] = u
        PROVE  k = l
    <3>1. k + 1 = l + 1
      BY <1>3, <1>4, <1>6, <1>10, <2>1 DEF WaitsOnce
    <3> QED
      BY <1>3, <3>1
  <2> QED
    BY <1>3, <2>1 DEF WaitsOnce
<1>11. ASSUME NEW u \in Txs, u = Head(queue[i]), WaitsOnce(i, u), Waits(i, u)'
       PROVE  FALSE
  <2>1. PICK k \in 1..(n - 1) : queue'[i][k] = u
    BY <1>3, <1>11 DEF Waits
  <2>2. queue[i][k + 1] = u /\ queue[i][1] = u /\ k + 1 \in 1..n /\ k + 1 # 1
    BY <1>3, <1>6, <1>11, <2>1
  <2> QED
    BY <1>4, <1>7, <1>11, <2>2 DEF WaitsOnce
<1>12. ASSUME NEW j \in Instances, NEW u \in Txs, j # i
       PROVE  (Waits(j, u)' <=> Waits(j, u)) /\ (WaitsOnce(j, u) => WaitsOnce(j, u)')
  BY <1>2, <1>12 DEF Waits, WaitsOnce
<1> QED
  BY <1>3, <1>8, <1>9, <1>10, <1>11, <1>12

LEMMA WorkerPlaces ==
    ASSUME PlaceInv, NEW i \in Instances, Worker(i)
    PROVE  \A j \in Instances, u \in Txs : Placed(j, u)'
<1>1. TypeOK /\ InHand /\ worker \in [Instances -> [Workers -> Job]]
  BY DEF TypeInv, PlaceInv, TypeOK
<1>2. \A j \in Instances, u \in Txs : Placed(j, u)
  BY DEF PlaceInv
<1>3. UNCHANGED <<client, recovery, scan>>
  BY GoroutinesKeep DEF Worker, TakeTask, Claim, Drive, DriveEnds, Release, Unmark
<1>4. \A j \in Instances, u \in Txs :
        /\ AtCaller(j, u)' <=> AtCaller(j, u)
        /\ AtScan(recovery'[j], u) <=> AtScan(recovery[j], u)
        /\ AtScan(scan'[j], u) <=> AtScan(scan[j], u)
  BY <1>3 DEF AtCaller
<1>5. PICK w \in Workers : \/ TakeTask(i, w) \/ Claim(i, w) \/ Drive(i, w)
                           \/ DriveEnds(i, w) \/ Release(i, w) \/ Unmark(i, w)
  BY DEF Worker
<1>6. CASE TakeTask(i, w)
  <2>1. PICK h \in Txs : h = Head(queue[i])
    BY <1>1, <1>6, QueueTail DEF TakeTask
  <2>2. /\ queue[i] # <<>> /\ queue' = [queue EXCEPT ![i] = Tail(@)] /\ active' = active
        /\ worker[i][w].pc = "idle"
        /\ worker' = [worker EXCEPT ![i] = [worker[i] EXCEPT ![w] = [pc |-> "claim", tx |-> h]]]
    BY <1>1, <1>6, <2>1 DEF TakeTask
  <2>3. /\ Waits(i, h) /\ (WaitsOnce(i, h) => ~Waits(i, h)')
        /\ \A u \in Txs : u # h => (Waits(i, u)' <=> Waits(i, u))
        /\ \A j \in Instances, u \in Txs : WaitsOnce(j, u) => WaitsOnce(j, u)'
        /\ \A j \in Instances, u \in Txs : j # i => (Waits(j, u)' <=> Waits(j, u))
    BY <1>1, <2>1, <2>2, QueueTail
  <2>4. /\ worker'[i][w].pc = "claim" /\ worker'[i][w].tx = h
        /\ \A v \in Workers \ {w} : worker'[i][v] = worker[i][v]
        /\ \A j \in Instances \ {i} : worker'[j] = worker[j]
    BY <1>1, <2>2
  <2>5. ASSUME NEW u \in Txs, u # h
        PROVE  (AtWork(i, u)' <=> AtWork(i, u)) /\ (WorkedOnOnce(i, u) => WorkedOnOnce(i, u)')
    BY <2>2, <2>4, <2>5 DEF AtWork, WorkedOnOnce
  <2>6. ASSUME NEW j \in Instances, NEW u \in Txs, j # i
        PROVE  (AtWork(j, u)' <=> AtWork(j, u)) /\ (WorkedOnOnce(j, u) => WorkedOnOnce(j, u)')
    BY <2>4, <2>6 DEF AtWork, WorkedOnOnce
  <2>7. AtWork(i, h)' /\ (~AtWork(i, h) => WorkedOnOnce(i, h)')
    BY <2>4 DEF AtWork, WorkedOnOnce
  <2>8. \A j \in Instances, u \in Txs : j # i \/ u # h => Placed(j, u)'
    BY <1>2, <1>4, <2>2, <2>3, <2>5, <2>6, PlacedFrame
  <2>9. Placed(i, h)'
    BY <1>2, <1>4, <2>2, <2>3, <2>7 DEF Placed
  <2> QED
    BY <2>8, <2>9
<1>7. CASE Claim(i, w) \/ Drive(i, w) \/ DriveEnds(i, w) \/ Release(i, w)
  <2>1. UNCHANGED <<queue, active>> /\ worker[i][w].pc # "idle"
    BY <1>7 DEF Claim, Drive, DriveEnds, Release
  <2>2. \E place \in {"drive", "release", "unmark"} : Goto(i, w, place)
    BY <1>7 DEF Claim, Drive, DriveEnds, Release
  <2>3. /\ worker'[i][w].pc # "idle" /\ worker'[i][w].tx = worker[i][w].tx
        /\ \A v \in Workers \ {w} : worker'[i][v] = worker[i][v]
        /\ \A j \in Instances \ {i} : worker'[j] = worker[j]
    BY <1>1, <2>2, GotoState
  <2>4. \A j \in Instances, v \in Workers :
           /\ worker'[j][v].pc # "idle" <=> worker[j][v].pc # "idle"
           /\ worker'[j][v].tx = worker[j][v].tx
    BY <2>1, <2>3
  <2>5. \A j \in Instances, u \in Txs : /\ AtWork(j, u)' <=> AtWork(j, u)
                                        /\ WorkedOnOnce(j, u) => WorkedOnOnce(j, u)'
    BY <2>4 DEF AtWork, WorkedOnOnce
  <2>6. \A j \in Instances, u \in Txs : /\ Waits(j, u)' <=> Waits(j, u)
                                        /\ WaitsOnce(j, u) => WaitsOnce(j, u)'
    BY <2>1 DEF Waits, WaitsOnce
  <2> QED
    BY <1>2, <1>4, <2>1, <2>5, <2>6, PlacedFrame
<1>8. CASE Unmark(i, w)
  <2>1. PICK t \in Txs : t = worker[i][w].tx
    BY <1>1, <1>8 DEF Unmark, InHand
  <2>2. /\ worker[i][w].pc = "unmark" /\ queue' = queue
        /\ active' = [active EXCEPT ![i] = @ \ {t}]
        /\ worker' = [worker EXCEPT ![i] = [worker[i] EXCEPT ![w] = Idle]]
    BY <1>1, <1>8, <2>1 DEF Unmark
  <2>3. /\ worker'[i][w].pc = "idle"
        /\ \A v \in Workers \ {w} : worker'[i][v] = worker[i][v]
        /\ \A j \in Instances \ {i} : worker'[j] = worker[j]
    BY <1>1, <2>2 DEF Idle
  <2>4. ASSUME NEW u \in Txs, u # t
        PROVE  (AtWork(i, u)' <=> AtWork(i, u)) /\ (WorkedOnOnce(i, u) => WorkedOnOnce(i, u)')
    BY <2>1, <2>3, <2>4 DEF AtWork, WorkedOnOnce
  <2>5. ASSUME NEW j \in Instances, NEW u \in Txs, j # i
        PROVE  (AtWork(j, u)' <=> AtWork(j, u)) /\ (WorkedOnOnce(j, u) => WorkedOnOnce(j, u)')
    BY <2>3, <2>5 DEF AtWork, WorkedOnOnce
  <2>6. /\ AtWork(i, t)
        /\ WorkedOnOnce(i, t) => WorkedOnOnce(i, t)' /\ ~AtWork(i, t)'
    BY <2>1, <2>2, <2>3 DEF AtWork, WorkedOnOnce
  <2>7. \A j \in Instances, u \in Txs : /\ Waits(j, u)' <=> Waits(j, u)
                                        /\ WaitsOnce(j, u) => WaitsOnce(j, u)'
    BY <2>2 DEF Waits, WaitsOnce
  <2>8. /\ t \notin active'[i]
        /\ \A j \in Instances, u \in Txs : j # i \/ u # t => (u \in active'[j] <=> u \in active[j])
    BY <1>1, <2>2 DEF TypeOK
  <2>9. \A j \in Instances, u \in Txs : j # i \/ u # t => Placed(j, u)'
    BY <1>2, <1>4, <2>4, <2>5, <2>7, <2>8, PlacedFrame
  <2>10. Placed(i, t)'
    BY <1>2, <1>4, <2>6, <2>7, <2>8 DEF Placed
  <2> QED
    BY <2>9, <2>10
<1> QED
  BY <1>5, <1>6, <1>7, <1>8

(* A process starts with nothing in hand, and forgets everything. *)
LEMMA LifePlaces ==
    ASSUME PlaceInv, NEW i \in Instances, Start(i) \/ Stop(i) \/ Stopped(i) \/ Crash(i)
    PROVE  \A j \in Instances : Quiet(j)' /\ \A u \in Txs : Placed(j, u)'
<1>1. TypeOK
  BY DEF TypeInv, PlaceInv
<1>2. /\ \A j \in Instances : Quiet(j)
      /\ \A j \in Instances, u \in Txs : Placed(j, u)
  BY DEF PlaceInv
<1>3. CASE Stop(i)
  <2>1. UNCHANGED <<queue, active, worker, client, recovery, scan>>
    BY <1>3 DEF Stop, procVars
  <2>2. \A j \in Instances : Live(j)' <=> Live(j)
    BY <1>1, <1>3 DEF Stop, Live, TypeOK
  <2>3. \A j \in Instances, u \in Txs : Placed(j, u)'
    BY <1>2, <2>1 DEF Placed, AtCaller, Waits, AtWork, WaitsOnce, WorkedOnOnce
  <2> QED
    BY <1>2, <2>1, <2>2, <2>3 DEF Quiet
<1>4. CASE Start(i)
  <2>1. UNCHANGED <<queue, active, worker, client>> /\ phase[i] = "down" /\ phase'[i] = "up"
        /\ \A j \in Instances \ {i} : phase'[j] = phase[j]
    BY <1>1, <1>4 DEF Start, TypeOK
  <2>2. /\ recovery'[i].pc = "wait" /\ scan'[i].pc = "wait"
        /\ \A j \in Instances \ {i} : recovery'[j] = recovery[j] /\ scan'[j] = scan[j]
    BY <1>1, <1>4, FreshScan DEF Start, TypeOK
  <2>3. \A u \in Txs : u \notin active[i]
    BY <1>2, <2>1 DEF Quiet, Live
  <2>4. \A j \in Instances, u \in Txs :
          /\ AtCaller(j, u)' <=> AtCaller(j, u)
          /\ Waits(j, u)' <=> Waits(j, u)
          /\ WaitsOnce(j, u) => WaitsOnce(j, u)'
          /\ AtWork(j, u)' <=> AtWork(j, u)
          /\ WorkedOnOnce(j, u) => WorkedOnOnce(j, u)'
    BY <2>1 DEF AtCaller, Waits, WaitsOnce, AtWork, WorkedOnOnce
  <2>5. \A u \in Txs : ~AtScan(recovery'[i], u) /\ ~AtScan(scan'[i], u)
    BY <2>2 DEF AtScan, Marked
  <2>6. ASSUME NEW u \in Txs PROVE Placed(i, u)'
    BY <1>2, <2>1, <2>3, <2>4, <2>5 DEF Placed
  <2>7. ASSUME NEW j \in Instances \ {i}, NEW u \in Txs PROVE Placed(j, u)'
    BY <1>2, <2>1, <2>2, <2>4, PlacedFrame
  <2>8. \A j \in Instances : Quiet(j)'
    BY <1>2, <2>1 DEF Quiet, Live
  <2> QED
    BY <2>6, <2>7, <2>8
<1>5. CASE Forget(i)
  <2>1. /\ queue'[i] = <<>> /\ active'[i] = {} /\ phase'[i] = "dead"
        /\ \A w \in Workers : worker'[i][w].pc = "idle"
        /\ \A u \in Txs : client'[u].at # i
        /\ recovery'[i].pc = "off" /\ scan'[i].pc = "off"
    <3>1. NoCall.at # i /\ [NoCall EXCEPT !.pc = "done"].at = NoInstance /\ NoInstance # i
      BY DispatchAssumption DEF NoCall
    <3>2. queue'[i] = <<>> /\ active'[i] = {} /\ phase'[i] = "dead"
      BY <1>1, <1>5 DEF Forget, TypeOK
    <3>3. \A w \in Workers : worker'[i][w].pc = "idle"
      BY <1>1, <1>5 DEF Forget, TypeOK, Idle
    <3>4. \A u \in Txs : client'[u].at # i
      BY <1>1, <1>5, <3>1 DEF Forget, TypeOK
    <3>5. recovery'[i].pc = "off" /\ scan'[i].pc = "off"
      BY <1>1, <1>5, FreshScan DEF Forget, TypeOK
    <3> QED
      BY <3>2, <3>3, <3>4, <3>5
  <2>2. \A j \in Instances \ {i} :
          /\ queue'[j] = queue[j] /\ active'[j] = active[j] /\ phase'[j] = phase[j]
          /\ worker'[j] = worker[j] /\ recovery'[j] = recovery[j] /\ scan'[j] = scan[j]
    BY <1>1, <1>5 DEF Forget, TypeOK
  <2>3. \A j \in Instances \ {i}, u \in Txs :
          client'[u] = client[u] \/ (client'[u].at \notin Instances /\ client[u].at = i)
    BY <1>1, <1>5, DispatchAssumption DEF Forget, TypeOK, NoCall
  <2>4. ASSUME NEW u \in Txs PROVE Placed(i, u)'
    <3>1. ~AtCaller(i, u)' /\ ~AtWork(i, u)' /\ ~Waits(i, u)' /\ WaitsOnce(i, u)' /\ WorkedOnOnce(i, u)'
      BY <2>1 DEF AtCaller, AtWork, Waits, WaitsOnce, WorkedOnOnce
    <3>2. ~AtScan(recovery'[i], u) /\ ~AtScan(scan'[i], u)
      BY <2>1 DEF AtScan, Marked
    <3> QED
      BY <2>1, <3>1, <3>2 DEF Placed
  <2>5. ASSUME NEW j \in Instances \ {i}, NEW u \in Txs PROVE Placed(j, u)'
    <3>1. AtCaller(j, u)' <=> AtCaller(j, u)
      BY <2>3 DEF AtCaller
    <3>2. /\ Waits(j, u)' <=> Waits(j, u)
          /\ WaitsOnce(j, u) => WaitsOnce(j, u)'
          /\ AtWork(j, u)' <=> AtWork(j, u)
          /\ WorkedOnOnce(j, u) => WorkedOnOnce(j, u)'
      BY <2>2 DEF Waits, WaitsOnce, AtWork, WorkedOnOnce
    <3> QED
      BY <1>2, <2>2, <3>1, <3>2, PlacedFrame
  <2>6. \A j \in Instances : Quiet(j)'
    BY <1>2, <2>1, <2>2, <2>3 DEF Quiet, Live
  <2> QED
    BY <2>4, <2>5, <2>6
<1> QED
  BY <1>3, <1>4, <1>5 DEF Stopped, Crash

(* The goroutines of a process mark transactions only while it runs. *)
LEMMA QuietStays ==
    ASSUME PlaceInv, NEW i \in Instances, Worker(i) \/ Recovery(i) \/ TimeoutScan(i)
    PROVE  \A j \in Instances : Quiet(j)'
<1>1. TypeOK /\ InHand /\ \A j \in Instances : Quiet(j)
  BY DEF PlaceInv, TypeInv
<1>2. client' = client /\ phase' = phase
  BY GoroutinesKeep
<1>3. \A j \in Instances : Live(j) \/ active'[j] = active[j] \/ active'[j] \subseteq active[j]
  <2>1. CASE Worker(i)
    BY <1>1, <2>1 DEF Worker, TakeTask, Claim, Drive, DriveEnds, Release, Unmark, TypeOK
  <2>2. CASE Recovery(i)
    <3>1. CASE RecoverySubmit(i)
      <4>1. Live(i) /\ \E t \in Txs : \E p, q : SubmitStep(i, t, p, q)
        BY <3>1 DEF RecoverySubmit, Live
      <4> QED
        BY <1>1, <4>1, SubmitTypes
    <3>2. CASE ~RecoverySubmit(i)
      BY <2>2, <3>2 DEF Recovery, RecoveryList, RecoveryRelease, RecoveryEnds, RecoveryQuits
    <3> QED
      BY <3>1, <3>2
  <2>3. CASE TimeoutScan(i)
    <3>1. CASE ScanSubmit(i)
      <4>1. Live(i) /\ \E q : SubmitStep(i, scan[i].cur, scan[i].pc, q)
        BY <3>1 DEF ScanSubmit
      <4>2. scan[i].cur \in Txs
        BY <1>1, <4>1 DEF InHand, SubmitStep, Scanning, InSubmit
      <4> QED
        BY <1>1, <4>1, <4>2, SubmitTypes
    <3>2. CASE ~ScanSubmit(i)
      BY <2>3, <3>2 DEF TimeoutScan, ScanList, ScanCAS, ScanRelease, ScanEnds
    <3> QED
      BY <3>1, <3>2
  <2> QED
    BY <2>1, <2>2, <2>3
<1> QED
  BY <1>1, <1>2, <1>3 DEF Quiet, Live

LEMMA InitPlaces == Init => PlaceInv
<1> SUFFICES ASSUME Init PROVE PlaceInv
  OBVIOUS
<1>1. TypeInv
  BY InitType
<1>2. Called
  BY DEF Init, Called
<1>3. NoInstance \notin Instances
  BY DispatchAssumption
<1>4. ASSUME NEW i \in Instances
      PROVE  Quiet(i)
  BY <1>3 DEF Init, Quiet, NoCall
<1>5. ASSUME NEW i \in Instances, NEW t \in Txs
      PROVE  Placed(i, t)
  <2>1. ~AtCaller(i, t)
    BY <1>3 DEF Init, AtCaller, NoCall
  <2>2. ~AtScan(recovery[i], t) /\ ~AtScan(scan[i], t)
    BY FreshScan DEF Init, AtScan, Marked
  <2>3. ~Waits(i, t) /\ WaitsOnce(i, t)
    <3>1. Len(queue[i]) = 0
      BY DEF Init
    <3> QED
      BY <3>1 DEF Waits, WaitsOnce
  <2>4. ~AtWork(i, t) /\ WorkedOnOnce(i, t)
    BY DEF Init, AtWork, WorkedOnOnce, Idle
  <2>5. t \notin active[i]
    BY DEF Init
  <2> QED
    BY <2>1, <2>2, <2>3, <2>4, <2>5 DEF Placed
<1> QED
  BY <1>1, <1>2, <1>4, <1>5 DEF PlaceInv

LEMMA PlaceStep == PlaceInv /\ [Next]_vars => PlaceInv'
<1> SUFFICES ASSUME PlaceInv, [Next]_vars PROVE PlaceInv'
  OBVIOUS
<1>1. TypeInv'
  BY TypeStep DEF PlaceInv
<1>2. CASE UNCHANGED vars
  <2>1. \A i \in Instances, t \in Txs : Placed(i, t)'
    BY <1>2 DEF vars, procVars, PlaceInv, Placed, AtCaller, Waits, AtWork, WaitsOnce, WorkedOnOnce
  <2>2. \A i \in Instances : Quiet(i)'
    BY <1>2 DEF vars, procVars, PlaceInv, Quiet, Live
  <2>3. Called'
    BY <1>2 DEF vars, procVars, PlaceInv, Called
  <2> QED
    BY <1>1, <2>1, <2>2, <2>3 DEF PlaceInv
<1>3. CASE Next
  <2>1. Called'
    BY <1>3, CalledStep DEF PlaceInv
  <2>2. \A i \in Instances : Quiet(i)' /\ \A t \in Txs : Placed(i, t)'
    <3>1. CASE \E i \in Instances, t \in Txs : Create(i, t) \/ Submit(i, t)
      BY <3>1, ClientPlaces
    <3>2. CASE \E i \in Instances : Worker(i) \/ Recovery(i) \/ TimeoutScan(i)
      BY <3>2, WorkerPlaces, RecoveryPlaces, TimeoutScanPlaces, QuietStays
    <3>3. CASE \E i \in Instances : Start(i) \/ Stop(i) \/ Stopped(i) \/ Crash(i)
      BY <3>3, LifePlaces
    <3>4. CASE \E t \in Txs : LeaseExpires(t)
      <4>1. UNCHANGED <<phase, queue, active, worker, recovery, scan, client>>
        BY <3>4 DEF LeaseExpires, procVars
      <4>2. \A i \in Instances, t \in Txs : Placed(i, t)'
        BY <4>1 DEF PlaceInv, Placed, AtCaller, Waits, AtWork, WaitsOnce, WorkedOnOnce
      <4> QED
        BY <4>1, <4>2 DEF PlaceInv, Quiet, Live
    <3> QED
      BY <1>3, <3>1, <3>2, <3>3, <3>4 DEF Next
  <2> QED
    BY <1>1, <2>1, <2>2 DEF PlaceInv
<1> QED
  BY <1>2, <1>3

(* The counts of OnePlace from the predicates. *)
LEMMA PlacesCount ==
    ASSUME TypeOK, NEW i \in Instances, NEW t \in Txs, Placed(i, t)
    PROVE  Cardinality(Submitting(i, t)) + Cardinality(InQueue(i, t))
              + Cardinality(AtWorkers(i, t)) = IF t \in active[i] THEN 1 ELSE 0
<1>1. Submitting(i, t) = {s \in {"caller", "recovery", "scan"} :
                            \/ s = "caller"   /\ AtCaller(i, t)
                            \/ s = "recovery" /\ AtScan(recovery[i], t)
                            \/ s = "scan"     /\ AtScan(scan[i], t)}
  BY DEF Submitting, AtCaller, AtScan
<1>2. queue[i] \in Seq(Txs) /\ DOMAIN queue[i] = 1..Len(queue[i])
  BY DEF TypeOK
<1>3. /\ ~Waits(i, t) => InQueue(i, t) = {}
      /\ Waits(i, t) /\ WaitsOnce(i, t) => \E k : InQueue(i, t) = {k}
  BY <1>2 DEF InQueue, Waits, WaitsOnce
<1>4. /\ ~AtWork(i, t) => AtWorkers(i, t) = {}
      /\ AtWork(i, t) /\ WorkedOnOnce(i, t) => \E w : AtWorkers(i, t) = {w}
  BY DEF AtWorkers, AtWork, WorkedOnOnce
<1>5. Cardinality({}) = 0 /\ \A x : Cardinality({x}) = 1
  BY FS_EmptySet, FS_Singleton
<1>6. /\ ~AtCaller(i, t) /\ ~AtScan(recovery[i], t) /\ ~AtScan(scan[i], t) => Submitting(i, t) = {}
      /\ AtCaller(i, t) /\ ~AtScan(recovery[i], t) /\ ~AtScan(scan[i], t)
            => Submitting(i, t) = {"caller"}
      /\ ~AtCaller(i, t) /\ AtScan(recovery[i], t) /\ ~AtScan(scan[i], t)
            => Submitting(i, t) = {"recovery"}
      /\ ~AtCaller(i, t) /\ ~AtScan(recovery[i], t) /\ AtScan(scan[i], t)
            => Submitting(i, t) = {"scan"}
  BY <1>1
<1>7. /\ ~Waits(i, t) => Cardinality(InQueue(i, t)) = 0
      /\ Waits(i, t) /\ WaitsOnce(i, t) => Cardinality(InQueue(i, t)) = 1
      /\ ~AtWork(i, t) => Cardinality(AtWorkers(i, t)) = 0
      /\ AtWork(i, t) /\ WorkedOnOnce(i, t) => Cardinality(AtWorkers(i, t)) = 1
  BY <1>3, <1>4, <1>5
<1> DEFINE S == Cardinality(Submitting(i, t))
           Q == Cardinality(InQueue(i, t))
           W == Cardinality(AtWorkers(i, t))
<1>8. \/ t \notin active[i] /\ S = 0 /\ Q = 0 /\ W = 0
      \/ t \in active[i] /\ S = 1 /\ Q = 0 /\ W = 0
      \/ t \in active[i] /\ S = 0 /\ Q = 1 /\ W = 0
      \/ t \in active[i] /\ S = 0 /\ Q = 0 /\ W = 1
  <2>1. CASE Waits(i, t)
    BY <1>5, <1>6, <1>7, <2>1 DEF Placed
  <2>2. CASE AtWork(i, t)
    BY <1>5, <1>6, <1>7, <2>2 DEF Placed
  <2>3. CASE ~Waits(i, t) /\ ~AtWork(i, t)
    BY <1>5, <1>6, <1>7, <2>3 DEF Placed
  <2> QED
    BY <2>1, <2>2, <2>3
<1> HIDE DEF S, Q, W
<1>9. S + Q + W = IF t \in active[i] THEN 1 ELSE 0
  BY <1>8
<1> QED
  BY <1>9 DEF S, Q, W

(***************************************************************************)
(* A process has a transaction in exactly one place while it is in         *)
(* activeTx and in none otherwise, for any number of workers and any       *)
(* capacity of the queue: no two workers drive the same transaction, and   *)
(* a mark never outlives what it stands for (coordinator.go, Submit,       *)
(* worker and the deferred delete of driveTransaction).                    *)
(***************************************************************************)
THEOREM OnePlaceTheorem == Spec => []OnePlace
<1>1. PlaceInv => OnePlace
  BY PlacesCount DEF PlaceInv, TypeInv, OnePlace
<1> QED
  BY <1>1, InitPlaces, PlaceStep, PTL DEF Spec

-----------------------------------------------------------------------------
(* No lease without somebody behind it *)

ListedBy(sc, t) == t \in sc.todo \/ (sc.cur = t /\ sc.pc \notin {"off", "wait", "next"})
WorkedOn(i, t)  == \E w \in Workers : /\ worker[i][w].tx = t
                                      /\ worker[i][w].pc \in {"claim", "drive", "release"}

LEMMA BackedParts ==
    ASSUME NEW i \in Instances, NEW t \in Txs, queue[i] \in Seq(Txs)
    PROVE  Backed(i, t) <=> \/ WorkedOn(i, t) \/ Waits(i, t)
                            \/ ListedBy(recovery[i], t) \/ ListedBy(scan[i], t)
<1>1. t \in ToSet(queue[i]) <=> Waits(i, t)
  BY DEF ToSet, Waits
<1>2. Listed(i, t) <=> ListedBy(recovery[i], t) \/ ListedBy(scan[i], t)
  BY DEF Listed, ListedBy
<1>3. WorkedOn(i, t) <=> Driving(i, t) \/ \E w \in Workers : worker[i][w].tx = t /\ worker[i][w].pc = "claim"
  BY DEF WorkedOn, Driving
<1> QED
  BY <1>1, <1>2, <1>3 DEF Backed, Queued

LEMMA BackedPartsNext ==
    ASSUME NEW i \in Instances, NEW t \in Txs, queue'[i] \in Seq(Txs)
    PROVE  Backed(i, t)' <=> \/ WorkedOn(i, t)' \/ Waits(i, t)'
                             \/ ListedBy(recovery'[i], t) \/ ListedBy(scan'[i], t)
<1>1. (t \in ToSet(queue[i]))' <=> Waits(i, t)'
  BY DEF ToSet, Waits
<1>2. Listed(i, t)' <=> ListedBy(recovery'[i], t) \/ ListedBy(scan'[i], t)
  BY DEF Listed, ListedBy
<1>3. WorkedOn(i, t)' <=> Driving(i, t)' \/ \E w \in Workers : worker'[i][w].tx = t /\ worker'[i][w].pc = "claim"
  BY DEF WorkedOn, Driving
<1> QED
  BY <1>1, <1>2, <1>3 DEF Backed, Queued

(* Whom a step makes the holder of a lease. *)
LEMMA LeaseMoves ==
    ASSUME TypeInv, Next, NEW t \in Txs
    PROVE  \/ row'[t].lockedBy = row[t].lockedBy
           \/ row'[t].lockedBy = NoInstance
           \/ \E i \in Instances : /\ row'[t].lockedBy = i /\ phase[i] = "up"
                                   /\ row[t].status \in ActiveStatus
<1>1. TypeOK /\ InHand /\ row \in [Txs -> Row]
  BY DEF TypeInv, TypeOK
<1>2. ASSUME NEW i \in Instances, NEW u, ReleaseTransaction(i, u)
      PROVE  row'[t].lockedBy = row[t].lockedBy \/ row'[t].lockedBy = NoInstance
  <2>1. row' = row \/ row' = [row EXCEPT ![u] = Locked(row[u], NoInstance)]
    BY <1>2 DEF ReleaseTransaction
  <2>2. Locked(row[t], NoInstance).lockedBy = NoInstance
    BY <1>1, LockedType
  <2> QED
    BY <1>1, <2>1, <2>2
<1>3. CASE \E i \in Instances, u \in Txs : Create(i, u) \/ Submit(i, u)
  <2>1. PICK u \in Txs : row' = row \/ row' = [row EXCEPT ![u] = [row[u] EXCEPT !.status = "pending"]]
    BY <1>3 DEF Create, Submit
  <2>2. [row[u] EXCEPT !.status = "pending"].lockedBy = row[u].lockedBy
    BY <1>1, StatusSet DEF ActiveStatus
  <2> QED
    BY <1>1, <2>1, <2>2
<1>4. CASE \E i \in Instances : Worker(i)
  <2>1. PICK i \in Instances, w \in Workers :
          \/ TakeTask(i, w) \/ Claim(i, w) \/ Drive(i, w)
          \/ DriveEnds(i, w) \/ Release(i, w) \/ Unmark(i, w)
    BY <1>4 DEF Worker
  <2> DEFINE u == worker[i][w].tx
  <2>2. CASE Drive(i, w)
    <3>1. PICK s \in Moves(row[u].status) : row' = [row EXCEPT ![u] = [Locked(row[u], i) EXCEPT !.status = s]]
      BY <2>2 DEF Drive
    <3>2. u \in Txs /\ phase[i] = "up" /\ row[u].status \in ActiveStatus
      BY <1>1, <2>2 DEF Drive, InHand, Claimable
    <3>3. s \in ActiveStatus \cup {"succeeded", "failed"}
      BY <3>1 DEF Moves, ActiveStatus
    <3> HIDE DEF u
    <3>4. [Locked(row[u], i) EXCEPT !.status = s].lockedBy = i
      BY <1>1, <3>2, <3>3, LockedType, StatusSet
    <3> QED
      BY <1>1, <3>1, <3>2, <3>4
  <2>3. CASE Claim(i, w)
    <3>1. row' = row \/ (phase[i] = "up" /\ row[u].status \in ActiveStatus /\ LockAll(i, {u}))
      BY <2>3 DEF Claim, Claimable
    <3> QED
      BY <1>1, <3>1, LockAllRows
  <2>4. CASE Release(i, w)
    BY <1>2, <2>4 DEF Release
  <2>5. CASE TakeTask(i, w) \/ DriveEnds(i, w) \/ Unmark(i, w)
    BY <2>5 DEF TakeTask, DriveEnds, Unmark
  <2> QED
    BY <2>1, <2>2, <2>3, <2>4, <2>5
<1>5. CASE \E i \in Instances : Recovery(i)
  <2>1. PICK i \in Instances : Recovery(i)
    BY <1>5
  <2>2. CASE RecoveryList(i)
    <3>1. PICK S \in SUBSET Recoverable : LockAll(i, S) /\ phase[i] = "up"
      BY <2>2 DEF RecoveryList, Oldest
    <3> QED
      BY <1>1, <3>1, LockAllRows DEF Recoverable
  <2>3. CASE RecoveryRelease(i)
    BY <1>2, <2>3 DEF RecoveryRelease
  <2>4. CASE RecoverySubmit(i) \/ RecoveryEnds(i) \/ RecoveryQuits(i)
    BY <2>4 DEF RecoverySubmit, RecoveryEnds, RecoveryQuits
  <2> QED
    BY <2>1, <2>2, <2>3, <2>4 DEF Recovery
<1>6. CASE \E i \in Instances : TimeoutScan(i)
  <2>1. PICK i \in Instances : TimeoutScan(i)
    BY <1>6
  <2>2. CASE ScanList(i)
    <3>1. PICK S \in SUBSET TimeoutDue : LockAll(i, S) /\ phase[i] = "up"
      BY <2>2 DEF ScanList
    <3>2. \A u \in S : row[u].status \in ActiveStatus
      BY <3>1 DEF TimeoutDue, ActiveStatus
    <3> QED
      BY <1>1, <3>1, <3>2, LockAllRows
  <2>3. CASE ScanCAS(i)
    <3>1. PICK u : row' = row \/ row' = [row EXCEPT ![u] = [row[u] EXCEPT !.status = "compensating"]]
      BY <2>3 DEF ScanCAS
    <3>2. u \in Txs => [row[u] EXCEPT !.status = "compensating"].lockedBy = row[u].lockedBy
      BY <1>1, StatusSet DEF ActiveStatus
    <3> QED
      BY <1>1, <3>1, <3>2
  <2>4. CASE ScanRelease(i)
    BY <1>2, <2>4 DEF ScanRelease
  <2>5. CASE ScanSubmit(i) \/ ScanEnds(i)
    BY <2>5 DEF ScanSubmit, ScanEnds
  <2> QED
    BY <2>1, <2>2, <2>3, <2>4, <2>5 DEF TimeoutScan
<1>7. CASE \E i \in Instances : Start(i) \/ Stop(i) \/ Stopped(i) \/ Crash(i)
  BY <1>7 DEF Start, Stop, Stopped, Crash, Forget
<1>8. CASE \E u \in Txs : LeaseExpires(u)
  BY <1>8, ExpiryTypes
<1> QED
  BY <1>3, <1>4, <1>5, <1>6, <1>7, <1>8 DEF Next

(* A process goes up once. *)
LEMMA DownStays ==
    ASSUME TypeOK, Next, NEW i \in Instances, phase'[i] = "down"
    PROVE  phase[i] = "down"
<1>1. CASE phase' = phase
  BY <1>1
<1>2. CASE \E j \in Instances : Worker(j) \/ Recovery(j) \/ TimeoutScan(j)
  BY <1>1, <1>2, GoroutinesKeep
<1>3. CASE \E j \in Instances : Start(j) \/ Stop(j) \/ Stopped(j) \/ Crash(j)
  BY <1>3 DEF Start, Stop, Stopped, Crash, Forget, TypeOK
<1>4. CASE \/ \E j \in Instances, t \in Txs : Create(j, t) \/ Submit(j, t)
           \/ \E t \in Txs : LeaseExpires(t)
  BY <1>1, <1>4 DEF Create, Submit, LeaseExpires
<1> QED
  BY <1>2, <1>3, <1>4 DEF Next

(* A row that does not exist and a process that never ran have no lease. *)
LEMMA LeasesInOrder ==
    ASSUME LeaseInv, Next
    PROVE  /\ \A t \in Txs : row'[t].status = "none" => row'[t].lockedBy = NoInstance
           /\ \A i \in Instances, t \in Txs : phase'[i] = "down" => row'[t].lockedBy # i
<1>1. TypeInv /\ TypeOK /\ NoInstance \notin Instances
  BY DispatchAssumption DEF LeaseInv, TypeInv
<1>2. ASSUME NEW t \in Txs, row'[t].status = "none"
      PROVE  row'[t].lockedBy = NoInstance
  <2>1. row[t].status = "none" /\ row[t].lockedBy = NoInstance /\ row[t].status \notin ActiveStatus
    BY <1>1, <1>2, RowsStay DEF LeaseInv, ActiveStatus
  <2> QED
    BY <1>1, <2>1, LeaseMoves
<1>3. ASSUME NEW i \in Instances, NEW t \in Txs, phase'[i] = "down"
      PROVE  row'[t].lockedBy # i
  <2>1. phase[i] = "down" /\ row[t].lockedBy # i
    BY <1>1, <1>3, DownStays DEF LeaseInv
  <2> QED
    BY <1>1, <2>1, LeaseMoves
<1> QED
  BY <1>2, <1>3

(* The premise of LeaseIsBacked: process i runs and has the lease of t. *)
Leased(i, t) == phase[i] = "up" /\ row[t].lockedBy = i /\ row[t].status \in ActiveStatus

LEMMA ClientBacked ==
    ASSUME LeaseInv, NEW i \in Instances, NEW t \in Txs, Create(i, t) \/ Submit(i, t),
           NEW j \in Instances, NEW u \in Txs, Leased(j, u)'
    PROVE  Backed(j, u)'
<1>1. TypeInv /\ TypeOK /\ row \in [Txs -> Row] /\ queue[j] \in Seq(Txs)
  BY DEF LeaseInv, TypeInv, TypeOK
<1>2. queue'[j] \in Seq(Txs)
  BY <1>1, ClientTypes DEF TypeInv, TypeOK
<1>3. Leased(j, u) => Backed(j, u)
  BY DEF LeaseInv, LeaseIsBacked, Leased
<1>4. UNCHANGED <<phase, worker, recovery, scan>>
  BY DEF Create, Submit, procVars
<1>5. WorkedOn(j, u)' <=> WorkedOn(j, u)
  BY <1>4 DEF WorkedOn
<1>6. CASE Create(i, t)
  <2>1. row' = [row EXCEPT ![t] = [row[t] EXCEPT !.status = "pending"]] /\ queue' = queue
        /\ row[t].status = "none"
    BY <1>6 DEF Create, procVars
  <2>2. /\ [row[t] EXCEPT !.status = "pending"].lockedBy = NoInstance
        /\ NoInstance # j
    BY <1>1, <2>1, StatusSet, DispatchAssumption DEF LeaseInv, ActiveStatus
  <2>3. u # t /\ row'[u] = row[u]
    BY <1>1, <2>1, <2>2 DEF Leased
  <2>4. Leased(j, u)
    BY <1>4, <2>3 DEF Leased
  <2>5. Waits(j, u)' <=> Waits(j, u)
    BY <2>1 DEF Waits
  <2> QED
    BY <1>1, <1>2, <1>3, <1>4, <1>5, <2>4, <2>5, BackedParts, BackedPartsNext
<1>7. CASE Submit(i, t)
  <2>1. row' = row /\ \E q : SubmitStep(i, t, client[t].pc, q)
    BY <1>7 DEF Submit
  <2>2. Leased(j, u)
    BY <1>4, <2>1 DEF Leased
  <2>3. Waits(j, u) => Waits(j, u)'
    <3>1. CASE queue' = queue
      BY <3>1 DEF Waits
    <3>2. CASE queue' # queue
      BY <1>1, <2>1, <3>2, SubmitMoves
    <3> QED
      BY <3>1, <3>2
  <2> QED
    BY <1>1, <1>2, <1>3, <1>4, <1>5, <2>2, <2>3, BackedParts, BackedPartsNext
<1> QED
  BY <1>6, <1>7

LEMMA WorkerBacked ==
    ASSUME LeaseInv, NEW i \in Instances, Worker(i),
           NEW j \in Instances, NEW u \in Txs, Leased(j, u)'
    PROVE  Backed(j, u)'
<1>1. /\ TypeInv /\ TypeOK /\ InHand /\ row \in [Txs -> Row] /\ queue[j] \in Seq(Txs)
      /\ worker \in [Instances -> [Workers -> Job]]
  BY DEF LeaseInv, TypeInv, TypeOK
<1>2. queue'[j] \in Seq(Txs)
  BY <1>1, WorkerTypes DEF TypeInv, TypeOK
<1>3. Leased(j, u) => Backed(j, u)
  BY DEF LeaseInv, LeaseIsBacked, Leased
<1>4. PICK w \in Workers : \/ TakeTask(i, w) \/ Claim(i, w) \/ Drive(i, w)
                           \/ DriveEnds(i, w) \/ Release(i, w) \/ Unmark(i, w)
  BY DEF Worker
<1>5. UNCHANGED <<phase, recovery, scan>>
  BY <1>4 DEF TakeTask, Claim, Drive, DriveEnds, Release, Unmark
<1>6. SUFFICES ASSUME Leased(j, u) => WorkedOn(j, u) \/ Waits(j, u),
                      ~ListedBy(recovery[j], u), ~ListedBy(scan[j], u)
               PROVE  WorkedOn(j, u)' \/ Waits(j, u)'
  BY <1>1, <1>2, <1>3, <1>5, BackedParts, BackedPartsNext
<1>7. CASE TakeTask(i, w)
  <2>1. PICK h \in Txs : h = Head(queue[i])
    BY <1>1, <1>7, QueueTail DEF TakeTask
  <2>2. /\ row' = row /\ queue[i] # <<>> /\ queue' = [queue EXCEPT ![i] = Tail(@)]
        /\ worker[i][w].pc = "idle"
        /\ worker' = [worker EXCEPT ![i] = [worker[i] EXCEPT ![w] = [pc |-> "claim", tx |-> h]]]
    BY <1>1, <1>7, <2>1 DEF TakeTask
  <2>3. /\ worker'[i][w].pc = "claim" /\ worker'[i][w].tx = h
        /\ \A v \in Workers \ {w} : worker'[i][v] = worker[i][v]
        /\ \A k \in Instances \ {i} : worker'[k] = worker[k]
    BY <1>1, <2>2
  <2>4. Waits(j, u) => Waits(j, u)' \/ (j = i /\ u = h)
    BY <1>1, <2>1, <2>2, QueueTail
  <2>5. WorkedOn(j, u) => WorkedOn(j, u)'
    BY <2>2, <2>3 DEF WorkedOn
  <2>6. j = i /\ u = h => WorkedOn(j, u)'
    BY <2>3 DEF WorkedOn
  <2>7. Leased(j, u)
    BY <1>5, <2>2 DEF Leased
  <2> QED
    BY <1>6, <2>4, <2>5, <2>6, <2>7
<1>8. ASSUME queue' = queue, NEW place \in {"drive", "release", "unmark"}, Goto(i, w, place),
             NEW t \in Txs, t = worker[i][w].tx
      PROVE  /\ Waits(j, u) => Waits(j, u)'
             /\ place # "unmark" \/ j # i \/ u # t => (WorkedOn(j, u) => WorkedOn(j, u)')
             /\ place # "unmark" => WorkedOn(i, t)'
  <2>1. /\ worker'[i][w].pc = place /\ worker'[i][w].tx = t
        /\ \A v \in Workers \ {w} : worker'[i][v] = worker[i][v]
        /\ \A k \in Instances \ {i} : worker'[k] = worker[k]
    BY <1>1, <1>8, GotoState
  <2>2. place # "unmark" => place \in {"drive", "release"}
    OBVIOUS
  <2>3. Waits(j, u) => Waits(j, u)'
    BY <1>8 DEF Waits
  <2>4. place # "unmark" \/ j # i \/ u # t => (WorkedOn(j, u) => WorkedOn(j, u)')
    BY <1>8, <2>1, <2>2 DEF WorkedOn
  <2>5. place # "unmark" => WorkedOn(i, t)'
    BY <2>1, <2>2 DEF WorkedOn
  <2> QED
    BY <2>3, <2>4, <2>5
<1>9. CASE Claim(i, w)
  <2>1. PICK t \in Txs : t = worker[i][w].tx
    BY <1>1, <1>9 DEF Claim, InHand
  <2>2. queue' = queue
    BY <1>9 DEF Claim
  <2>3. CASE LockAll(i, {t}) /\ Goto(i, w, "drive")
    <3>1. WorkedOn(i, t)' /\ (Waits(j, u) => Waits(j, u)') /\ (WorkedOn(j, u) => WorkedOn(j, u)')
      BY <1>8, <2>1, <2>2, <2>3
    <3>2. u = t => j = i
      BY <1>1, <2>3, LockAllRows DEF Leased
    <3>3. u # t => Leased(j, u)
      BY <1>1, <1>5, <2>3, LockAllRows DEF Leased
    <3> QED
      BY <1>6, <3>1, <3>2, <3>3
  <2>4. CASE row' = row /\ (phase[i] = "stopping" \/ ~Claimable(i, t)) /\ Goto(i, w, "unmark")
    <3>1. Leased(j, u)
      BY <1>5, <2>4 DEF Leased
    <3>2. j # i \/ u # t
      BY <2>4, <3>1 DEF Leased, Claimable
    <3> QED
      BY <1>6, <1>8, <2>1, <2>2, <2>4, <3>1, <3>2
  <2> QED
    BY <1>9, <2>1, <2>3, <2>4 DEF Claim
<1>10. CASE Drive(i, w)
  <2>1. PICK t \in Txs : t = worker[i][w].tx
    BY <1>1, <1>10 DEF Drive, InHand
  <2>2. PICK s \in Moves(row[t].status) :
          /\ row' = [row EXCEPT ![t] = [Locked(row[t], i) EXCEPT !.status = s]]
          /\ Goto(i, w, IF s \in ActiveStatus THEN "drive" ELSE "release")
    BY <1>10, <2>1 DEF Drive
  <2>3. queue' = queue /\ \E place \in {"drive", "release"} : Goto(i, w, place)
    BY <1>10, <2>2 DEF Drive
  <2>4. s \in ActiveStatus \cup {"succeeded", "failed"}
    BY <2>2 DEF Moves, ActiveStatus
  <2>5. [Locked(row[t], i) EXCEPT !.status = s].lockedBy = i
    BY <1>1, <2>4, LockedType, StatusSet
  <2>6. (u = t => j = i) /\ (u # t => Leased(j, u))
    BY <1>1, <1>5, <2>2, <2>5 DEF Leased
  <2>7. WorkedOn(i, t)' /\ (Waits(j, u) => Waits(j, u)') /\ (WorkedOn(j, u) => WorkedOn(j, u)')
    BY <1>8, <2>1, <2>3
  <2> QED
    BY <1>6, <2>6, <2>7
<1>11. CASE DriveEnds(i, w)
  <2>1. PICK t \in Txs : t = worker[i][w].tx
    BY <1>1, <1>11 DEF DriveEnds, InHand
  <2>2. queue' = queue /\ row' = row /\ Goto(i, w, "release")
    BY <1>11 DEF DriveEnds
  <2>3. Leased(j, u)
    BY <1>5, <2>2 DEF Leased
  <2> QED
    BY <1>6, <1>8, <2>1, <2>2, <2>3
<1>12. CASE Release(i, w)
  <2>1. PICK t \in Txs : t = worker[i][w].tx
    BY <1>1, <1>12 DEF Release, InHand
  <2>2. queue' = queue /\ ReleaseTransaction(i, t) /\ Goto(i, w, "unmark")
    BY <1>12, <2>1 DEF Release
  <2>3. Leased(j, u) /\ (j # i \/ u # t)
    BY <1>1, <1>5, <2>2, ReleaseRows, DispatchAssumption DEF Leased
  <2> QED
    BY <1>6, <1>8, <2>1, <2>2, <2>3
<1>13. CASE Unmark(i, w)
  <2>1. queue' = queue /\ row' = row /\ worker[i][w].pc = "unmark"
        /\ worker' = [worker EXCEPT ![i] = [worker[i] EXCEPT ![w] = Idle]]
    BY <1>1, <1>13 DEF Unmark
  <2>2. /\ \A v \in Workers \ {w} : worker'[i][v] = worker[i][v]
        /\ \A k \in Instances \ {i} : worker'[k] = worker[k]
    BY <1>1, <2>1
  <2>3. Leased(j, u) /\ (Waits(j, u) => Waits(j, u)')
    BY <1>5, <2>1 DEF Leased, Waits
  <2>4. WorkedOn(j, u) => WorkedOn(j, u)'
    BY <2>1, <2>2 DEF WorkedOn
  <2> QED
    BY <1>6, <2>3, <2>4
<1> QED
  BY <1>4, <1>7, <1>9, <1>10, <1>11, <1>12, <1>13

(* A scan goes on listing all but what it handed over. *)
LEMMA ListGoesOn ==
    ASSUME NEW sc \in Scan, NEW t \in Txs, NEW p \in InSubmit, NEW q \in SubmitOutcomes,
           (sc.pc = "next" /\ p = "mark") \/ (sc.pc = p /\ sc.cur = t)
    PROVE  /\ q # "accepted" => ListedBy(AfterSubmit(sc, t, q), t)
           /\ \A u \in Txs \ {t} : ListedBy(sc, u) => ListedBy(AfterSubmit(sc, t, q), u)
           /\ NothingListed(AfterSubmit(sc, t, q))
<1>1. /\ AfterSubmit(sc, t, q).todo = sc.todo \ {t}
      /\ q # "accepted" => AfterSubmit(sc, t, q).cur = t /\ AfterSubmit(sc, t, q).pc \in Scanning
      /\ AfterSubmit(sc, t, q).pc \in {"next", "release", "enqueue", "unmark"}
  BY AfterSubmitState
<1> QED
  BY <1>1 DEF ListedBy, NothingListed, Scanning, InSubmit

LEMMA RecoveryBacked ==
    ASSUME LeaseInv, NEW i \in Instances, Recovery(i)
    PROVE  /\ \A j \in Instances : NothingListed(recovery'[j])
           /\ \A j \in Instances, u \in Txs : Leased(j, u)' => Backed(j, u)'
<1>1. /\ TypeInv /\ TypeOK /\ row \in [Txs -> Row] /\ recovery \in [Instances -> Scan]
      /\ \A j \in Instances : queue[j] \in Seq(Txs) /\ queue'[j] \in Seq(Txs)
      /\ \A j \in Instances : NothingListed(recovery[j])
  BY RecoveryTypes DEF LeaseInv, TypeInv, TypeOK
<1>2. \A j \in Instances, u \in Txs : Leased(j, u) => Backed(j, u)
  BY DEF LeaseInv, LeaseIsBacked, Leased
<1>3. UNCHANGED <<phase, worker, scan>>
  BY DEF Recovery, RecoveryList, RecoverySubmit, RecoveryRelease, RecoveryEnds, RecoveryQuits
<1>4. \A j \in Instances, u \in Txs : WorkedOn(j, u)' <=> WorkedOn(j, u)
  BY <1>3 DEF WorkedOn
<1>5. CASE RecoverySubmit(i)
  <2>1. PICK t \in Txs, p \in InSubmit, q \in SubmitOutcomes :
          /\ (recovery[i].pc = "next" /\ p = "mark") \/ (recovery[i].pc = p /\ recovery[i].cur = t)
          /\ SubmitStep(i, t, p, q)
          /\ recovery' = [recovery EXCEPT ![i] = AfterSubmit(recovery[i], t, q)]
    BY <1>5 DEF RecoverySubmit
  <2>2. /\ q # "accepted" => ListedBy(recovery'[i], t)
        /\ \A u \in Txs \ {t} : ListedBy(recovery[i], u) => ListedBy(recovery'[i], u)
        /\ NothingListed(recovery'[i])
        /\ \A j \in Instances \ {i} : recovery'[j] = recovery[j]
    BY <1>1, <2>1, ListGoesOn
  <2>3. q = "accepted" => Waits(i, t)'
    BY <1>1, <2>1, SubmitMoves
  <2>4. ASSUME NEW j \in Instances, NEW u \in Txs, j # i \/ u # t
        PROVE  Waits(j, u)' <=> Waits(j, u)
    BY <1>1, <2>1, <2>4, SubmitMoves
  <2>5. row' = row
    BY <1>5 DEF RecoverySubmit
  <2>6. ASSUME NEW j \in Instances, NEW u \in Txs, Leased(j, u)'
        PROVE  Backed(j, u)'
    <3>1. Leased(j, u)
      BY <1>3, <2>5, <2>6 DEF Leased
    <3>2. CASE j = i /\ u = t
      BY <1>1, <2>2, <2>3, <3>2, BackedPartsNext
    <3>3. CASE j # i \/ u # t
      BY <1>1, <1>2, <1>3, <1>4, <2>2, <2>4, <3>1, <3>3, BackedParts, BackedPartsNext
    <3> QED
      BY <3>2, <3>3
  <2> QED
    BY <1>1, <2>2, <2>6
<1>6. CASE ~RecoverySubmit(i)
  <2>1. queue' = queue
    BY <1>6 DEF Recovery, RecoveryList, RecoveryRelease, RecoveryEnds, RecoveryQuits
  <2>2. \A j \in Instances, u \in Txs : Waits(j, u)' <=> Waits(j, u)
    BY <2>1 DEF Waits
  <2>3. CASE RecoveryList(i)
    <3>1. PICK S : /\ LockAll(i, S) /\ recovery[i].pc = "wait"
                   /\ recovery' = [recovery EXCEPT ![i] = [ScanAt("next") EXCEPT !.todo = S]]
      BY <2>3 DEF RecoveryList
    <3>2. [ScanAt("next") EXCEPT !.todo = S].todo = S /\ [ScanAt("next") EXCEPT !.todo = S].pc = "next"
      BY DEF ScanAt
    <3>3. /\ recovery'[i].todo = S /\ recovery'[i].pc = "next"
          /\ \A j \in Instances \ {i} : recovery'[j] = recovery[j]
      BY <1>1, <3>1, <3>2
    <3>4. \A u \in Txs : ~ListedBy(recovery[i], u)
      BY <1>1, <3>1 DEF ListedBy, NothingListed
    <3>5. \A j \in Instances, u \in Txs : Leased(j, u)' => (u \in S /\ j = i) \/ Leased(j, u)
      BY <1>1, <1>3, <3>1, LockAllRows DEF Leased
    <3>6. \A u \in Txs : u \in S => ListedBy(recovery'[i], u)
      BY <3>3 DEF ListedBy
    <3>7. \A j \in Instances, u \in Txs : Leased(j, u)' => Backed(j, u)'
      BY <1>1, <1>2, <1>3, <1>4, <2>2, <3>3, <3>4, <3>5, <3>6, BackedParts, BackedPartsNext
    <3> QED
      BY <1>1, <3>3, <3>7 DEF NothingListed
  <2>4. CASE RecoveryRelease(i)
    <3>1. PICK t : t = recovery[i].cur
      OBVIOUS
    <3>2. /\ ReleaseTransaction(i, t) /\ recovery[i].pc = "release"
          /\ recovery' = [recovery EXCEPT ![i] = [recovery[i] EXCEPT !.pc = "next", !.cur = 0]]
      BY <1>1, <2>4, <3>1 DEF RecoveryRelease
    <3>3. /\ recovery'[i].pc = "next" /\ recovery'[i].todo = recovery[i].todo
          /\ \A j \in Instances \ {i} : recovery'[j] = recovery[j]
      BY <1>1, <3>2, HandEmpty
    <3>4. \A u \in Txs : u # t /\ ListedBy(recovery[i], u) => ListedBy(recovery'[i], u)
      BY <3>1, <3>3 DEF ListedBy
    <3>5. \A j \in Instances, u \in Txs : Leased(j, u)' => Leased(j, u) /\ (j # i \/ u # t)
      BY <1>1, <1>3, <3>2, ReleaseRows, DispatchAssumption DEF Leased
    <3>6. \A j \in Instances, u \in Txs : Leased(j, u)' => Backed(j, u)'
      BY <1>1, <1>2, <1>3, <1>4, <2>2, <3>3, <3>4, <3>5, BackedParts, BackedPartsNext
    <3> QED
      BY <1>1, <3>3, <3>6 DEF NothingListed
  <2>5. CASE RecoveryEnds(i) \/ RecoveryQuits(i)
    <3>1. /\ row' = row /\ recovery' = [recovery EXCEPT ![i] = ScanAt("off")]
          /\ phase[i] # "up" \/ (recovery[i].pc = "next" /\ recovery[i].todo = {})
      BY <2>5 DEF RecoveryEnds, RecoveryQuits
    <3>2. /\ recovery'[i].pc = "off" /\ recovery'[i].todo = {}
          /\ \A j \in Instances \ {i} : recovery'[j] = recovery[j]
      BY <1>1, <3>1, FreshScan
    <3>3. \A u \in Txs : phase[i] = "up" => ~ListedBy(recovery[i], u)
      BY <3>1 DEF ListedBy
    <3>4. \A j \in Instances, u \in Txs : Leased(j, u)' => Leased(j, u)
      BY <1>3, <3>1 DEF Leased
    <3>5. \A j \in Instances, u \in Txs : Leased(j, u)' => phase[j] = "up"
      BY <1>3 DEF Leased
    <3>6. \A j \in Instances, u \in Txs : Leased(j, u)' => Backed(j, u)'
      BY <1>1, <1>2, <1>3, <1>4, <2>2, <3>2, <3>3, <3>4, <3>5, BackedParts, BackedPartsNext
    <3> QED
      BY <1>1, <3>2, <3>6 DEF NothingListed
  <2> QED
    BY <1>6, <2>3, <2>4, <2>5 DEF Recovery
<1> QED
  BY <1>5, <1>6

LEMMA TimeoutScanBacked ==
    ASSUME LeaseInv, NEW i \in Instances, TimeoutScan(i)
    PROVE  /\ \A j \in Instances : NothingListed(scan'[j])
           /\ \A j \in Instances, u \in Txs : Leased(j, u)' => Backed(j, u)'
<1>1. /\ TypeInv /\ TypeOK /\ InHand /\ row \in [Txs -> Row] /\ scan \in [Instances -> Scan]
      /\ \A j \in Instances : queue[j] \in Seq(Txs) /\ queue'[j] \in Seq(Txs)
      /\ \A j \in Instances : NothingListed(scan[j])
  BY TimeoutScanTypes DEF LeaseInv, TypeInv, TypeOK
<1>2. \A j \in Instances, u \in Txs : Leased(j, u) => Backed(j, u)
  BY DEF LeaseInv, LeaseIsBacked, Leased
<1>3. UNCHANGED <<phase, worker, recovery>>
  BY DEF TimeoutScan, ScanList, ScanCAS, ScanSubmit, ScanRelease, ScanEnds
<1>4. \A j \in Instances, u \in Txs : WorkedOn(j, u)' <=> WorkedOn(j, u)
  BY <1>3 DEF WorkedOn
<1>5. CASE ScanSubmit(i)
  <2>1. scan[i].cur \in Txs /\ scan[i].pc \in InSubmit
    <3>1. scan[i].pc \in InSubmit
      BY <1>5 DEF ScanSubmit, SubmitStep, InSubmit
    <3> QED
      BY <1>1, <3>1 DEF InHand, Scanning
  <2>2. PICK t \in Txs, p \in InSubmit, q \in SubmitOutcomes :
          /\ scan[i].pc = p /\ scan[i].cur = t
          /\ SubmitStep(i, t, p, q)
          /\ scan' = [scan EXCEPT ![i] = AfterSubmit(scan[i], t, q)]
    BY <1>5, <2>1 DEF ScanSubmit
  <2>3. /\ q # "accepted" => ListedBy(scan'[i], t)
        /\ \A u \in Txs \ {t} : ListedBy(scan[i], u) => ListedBy(scan'[i], u)
        /\ NothingListed(scan'[i])
        /\ \A j \in Instances \ {i} : scan'[j] = scan[j]
    BY <1>1, <2>2, ListGoesOn
  <2>4. q = "accepted" => Waits(i, t)'
    BY <1>1, <2>2, SubmitMoves
  <2>5. ASSUME NEW j \in Instances, NEW u \in Txs, j # i \/ u # t
        PROVE  Waits(j, u)' <=> Waits(j, u)
    BY <1>1, <2>2, <2>5, SubmitMoves
  <2>6. row' = row
    BY <1>5 DEF ScanSubmit
  <2>7. ASSUME NEW j \in Instances, NEW u \in Txs, Leased(j, u)'
        PROVE  Backed(j, u)'
    <3>1. Leased(j, u)
      BY <1>3, <2>6, <2>7 DEF Leased
    <3>2. CASE j = i /\ u = t
      BY <1>1, <2>3, <2>4, <3>2, BackedPartsNext
    <3>3. CASE j # i \/ u # t
      BY <1>1, <1>2, <1>3, <1>4, <2>3, <2>5, <3>1, <3>3, BackedParts, BackedPartsNext
    <3> QED
      BY <3>2, <3>3
  <2> QED
    BY <1>1, <2>3, <2>7
<1>6. CASE ~ScanSubmit(i)
  <2>1. queue' = queue
    BY <1>6 DEF TimeoutScan, ScanList, ScanCAS, ScanRelease, ScanEnds
  <2>2. \A j \in Instances, u \in Txs : Waits(j, u)' <=> Waits(j, u)
    BY <2>1 DEF Waits
  <2>3. CASE ScanList(i)
    <3>1. PICK S, R : /\ LockAll(i, S) /\ scan[i].pc = "wait"
                      /\ scan' = [scan EXCEPT ![i] = [ScanAt("next") EXCEPT !.todo = S, !.seen = R]]
      BY <2>3 DEF ScanList
    <3>2. /\ [ScanAt("next") EXCEPT !.todo = S, !.seen = R].todo = S
          /\ [ScanAt("next") EXCEPT !.todo = S, !.seen = R].pc = "next"
      BY DEF ScanAt
    <3>3. /\ scan'[i].todo = S /\ scan'[i].pc = "next"
          /\ \A j \in Instances \ {i} : scan'[j] = scan[j]
      BY <1>1, <3>1, <3>2
    <3>4. \A u \in Txs : ~ListedBy(scan[i], u)
      BY <1>1, <3>1 DEF ListedBy, NothingListed
    <3>5. \A j \in Instances, u \in Txs : Leased(j, u)' => (u \in S /\ j = i) \/ Leased(j, u)
      BY <1>1, <1>3, <3>1, LockAllRows DEF Leased
    <3>6. \A u \in Txs : u \in S => ListedBy(scan'[i], u)
      BY <3>3 DEF ListedBy
    <3>7. \A j \in Instances, u \in Txs : Leased(j, u)' => Backed(j, u)'
      BY <1>1, <1>2, <1>3, <1>4, <2>2, <3>3, <3>4, <3>5, <3>6, BackedParts, BackedPartsNext
    <3> QED
      BY <1>1, <3>3, <3>7 DEF NothingListed
  <2>4. CASE ScanCAS(i)
    <3>1. PICK t \in scan[i].todo, place \in {"mark", "release"} :
            /\ scan[i].pc = "next"
            /\ scan' = [scan EXCEPT ![i] = TakenOff(scan[i], t, place)]
            /\ \/ row' = row
               \/ /\ row[t].status \in {"running", "compensating"}
                  /\ row' = [row EXCEPT ![t] = [row[t] EXCEPT !.status = "compensating"]]
      BY <2>4 DEF ScanCAS, TakenOff
    <3>2. /\ scan'[i].pc = place /\ scan'[i].cur = t /\ scan'[i].todo = scan[i].todo \ {t}
          /\ \A j \in Instances \ {i} : scan'[j] = scan[j]
          /\ t \in Txs
      BY <1>1, <3>1, NextOfScan
    <3>3. \A u \in Txs : ListedBy(scan[i], u) => ListedBy(scan'[i], u)
      BY <3>1, <3>2 DEF ListedBy
    <3>4. [row[t] EXCEPT !.status = "compensating"].lockedBy = row[t].lockedBy
      BY <1>1, <3>2, StatusSet DEF ActiveStatus
    <3>5. \A j \in Instances, u \in Txs : Leased(j, u)' => Leased(j, u)
      BY <1>1, <1>3, <3>1, <3>2, <3>4 DEF Leased, ActiveStatus
    <3>6. \A j \in Instances, u \in Txs : Leased(j, u)' => Backed(j, u)'
      BY <1>1, <1>2, <1>3, <1>4, <2>2, <3>2, <3>3, <3>5, BackedParts, BackedPartsNext
    <3> QED
      BY <1>1, <3>2, <3>6 DEF NothingListed
  <2>5. CASE ScanRelease(i)
    <3>1. PICK t : t = scan[i].cur
      OBVIOUS
    <3>2. /\ ReleaseTransaction(i, t) /\ scan[i].pc = "release"
          /\ scan' = [scan EXCEPT ![i] = [scan[i] EXCEPT !.pc = "next", !.cur = 0]]
      BY <1>1, <2>5, <3>1 DEF ScanRelease
    <3>3. /\ scan'[i].pc = "next" /\ scan'[i].todo = scan[i].todo
          /\ \A j \in Instances \ {i} : scan'[j] = scan[j]
      BY <1>1, <3>2, HandEmpty
    <3>4. \A u \in Txs : u # t /\ ListedBy(scan[i], u) => ListedBy(scan'[i], u)
      BY <3>1, <3>3 DEF ListedBy
    <3>5. \A j \in Instances, u \in Txs : Leased(j, u)' => Leased(j, u) /\ (j # i \/ u # t)
      BY <1>1, <1>3, <3>2, ReleaseRows, DispatchAssumption DEF Leased
    <3>6. \A j \in Instances, u \in Txs : Leased(j, u)' => Backed(j, u)'
      BY <1>1, <1>2, <1>3, <1>4, <2>2, <3>3, <3>4, <3>5, BackedParts, BackedPartsNext
    <3> QED
      BY <1>1, <3>3, <3>6 DEF NothingListed
  <2>6. CASE ScanEnds(i)
    <3>1. /\ row' = row /\ scan' = [scan EXCEPT ![i] = ScanAt("wait")]
          /\ scan[i].pc = "next" /\ scan[i].todo = {}
      BY <2>6 DEF ScanEnds
    <3>2. /\ scan'[i].pc = "wait" /\ scan'[i].todo = {}
          /\ \A j \in Instances \ {i} : scan'[j] = scan[j]
      BY <1>1, <3>1, FreshScan
    <3>3. \A u \in Txs : ~ListedBy(scan[i], u)
      BY <3>1 DEF ListedBy
    <3>4. \A j \in Instances, u \in Txs : Leased(j, u)' => Leased(j, u)
      BY <1>3, <3>1 DEF Leased
    <3>5. \A j \in Instances, u \in Txs : Leased(j, u)' => Backed(j, u)'
      BY <1>1, <1>2, <1>3, <1>4, <2>2, <3>2, <3>3, <3>4, BackedParts, BackedPartsNext
    <3> QED
      BY <1>1, <3>2, <3>5 DEF NothingListed
  <2> QED
    BY <1>6, <2>3, <2>4, <2>5, <2>6 DEF TimeoutScan
<1> QED
  BY <1>5, <1>6

(* A process comes up without leases; one that goes down backs none. *)
LEMMA LifeBacked ==
    ASSUME LeaseInv, NEW i \in Instances, Start(i) \/ Stop(i) \/ Stopped(i) \/ Crash(i)
    PROVE  /\ \A j \in Instances : NothingListed(recovery'[j]) /\ NothingListed(scan'[j])
           /\ \A j \in Instances, u \in Txs : Leased(j, u)' => Backed(j, u)'
<1>1. TypeOK /\ \A j \in Instances : NothingListed(recovery[j]) /\ NothingListed(scan[j])
  BY DEF LeaseInv, TypeInv
<1>2. \A j \in Instances, u \in Txs : Leased(j, u) => Backed(j, u)
  BY DEF LeaseInv, LeaseIsBacked, Leased
<1>3. row' = row
  BY DEF Start, Stop, Stopped, Crash, Forget
<1>4. \A u \in Txs : ~Leased(i, u)'
  BY <1>1, <1>3 DEF Start, Stop, Stopped, Crash, Forget, TypeOK, Leased, LeaseInv
<1>5. \A j \in Instances \ {i} : /\ phase'[j] = phase[j] /\ queue'[j] = queue[j]
                                 /\ worker'[j] = worker[j]
                                 /\ recovery'[j] = recovery[j] /\ scan'[j] = scan[j]
  BY <1>1 DEF Start, Stop, Stopped, Crash, Forget, TypeOK, procVars
<1>6. NothingListed(recovery'[i]) /\ NothingListed(scan'[i])
  <2>1. CASE Stop(i)
    BY <1>1, <2>1 DEF Stop, procVars
  <2>2. CASE ~Stop(i)
    <3>1. \E place \in {"off", "wait"} : recovery'[i] = ScanAt(place) /\ scan'[i] = ScanAt(place)
      BY <1>1, <2>2 DEF Start, Stopped, Crash, Forget, TypeOK
    <3> QED
      BY <3>1, FreshScan DEF NothingListed
  <2> QED
    BY <2>1, <2>2
<1>7. ASSUME NEW j \in Instances \ {i}, NEW u \in Txs, Leased(j, u)'
      PROVE  Backed(j, u)'
  <2>1. Leased(j, u)
    BY <1>3, <1>5, <1>7 DEF Leased
  <2>2. queue[j] \in Seq(Txs) /\ queue'[j] \in Seq(Txs)
    BY <1>1, <1>5 DEF TypeOK
  <2>3. (WorkedOn(j, u)' <=> WorkedOn(j, u)) /\ (Waits(j, u)' <=> Waits(j, u))
    BY <1>5 DEF WorkedOn, Waits
  <2> QED
    BY <1>2, <1>5, <2>1, <2>2, <2>3, BackedParts, BackedPartsNext
<1> QED
  BY <1>1, <1>4, <1>5, <1>6, <1>7

LEMMA InitLeases == Init => LeaseInv
<1> SUFFICES ASSUME Init PROVE LeaseInv
  OBVIOUS
<1>1. TypeInv
  BY InitType
<1>2. \A i \in Instances : NothingListed(recovery[i]) /\ NothingListed(scan[i])
  BY FreshScan DEF Init, NothingListed
<1>3. /\ \A t \in Txs : row[t].status = "none" => row[t].lockedBy = NoInstance
      /\ \A t \in Txs : row[t].lockedBy \in {NoInstance, Gone}
  <2>1. PICK left \in 0..NTx :
          \E status \in [1..left -> ActiveStatus], lock \in [1..left -> {NoInstance, Gone}] :
             row = [t \in Txs |-> IF t > left THEN NewRow
                      ELSE [NewRow EXCEPT !.status = status[t], !.lockedBy = lock[t]]]
    BY DEF Init
  <2>2. PICK status \in [1..left -> ActiveStatus], lock \in [1..left -> {NoInstance, Gone}] :
          row = [t \in Txs |-> IF t > left THEN NewRow
                   ELSE [NewRow EXCEPT !.status = status[t], !.lockedBy = lock[t]]]
    BY <2>1
  <2>3. ASSUME NEW t \in Txs, ~(t > left)
        PROVE  row[t].status \in ActiveStatus /\ row[t].lockedBy \in {NoInstance, Gone}
    <3>1. t \in 1..left
      BY <2>3, DispatchAssumption DEF Txs
    <3>2. row[t] = [NewRow EXCEPT !.status = status[t], !.lockedBy = lock[t]]
      BY <2>2, <2>3
    <3>3. row[t].status = status[t] /\ row[t].lockedBy = lock[t]
      BY <3>2 DEF NewRow
    <3> QED
      BY <3>1, <3>3
  <2>4. ASSUME NEW t \in Txs, t > left
        PROVE  row[t].lockedBy = NoInstance
    BY <2>2, <2>4 DEF NewRow
  <2> QED
    BY <2>3, <2>4 DEF ActiveStatus
<1>4. \A i \in Instances, t \in Txs : row[t].lockedBy # i
  BY <1>3, DispatchAssumption
<1> QED
  BY <1>1, <1>2, <1>3, <1>4 DEF LeaseInv, LeaseIsBacked

LEMMA LeaseStep == LeaseInv /\ [Next]_vars => LeaseInv'
<1> SUFFICES ASSUME LeaseInv, [Next]_vars PROVE LeaseInv'
  OBVIOUS
<1>1. TypeInv'
  BY TypeStep DEF LeaseInv
<1>2. CASE UNCHANGED vars
  <2>1. LeaseIsBacked'
    BY <1>2 DEF LeaseInv, LeaseIsBacked, Backed, Driving, Listed, Queued, vars, procVars
  <2> QED
    BY <1>1, <1>2, <2>1 DEF LeaseInv, vars, procVars
<1>3. CASE Next
  <2>1. /\ \A t \in Txs : row'[t].status = "none" => row'[t].lockedBy = NoInstance
        /\ \A i \in Instances, t \in Txs : phase'[i] = "down" => row'[t].lockedBy # i
    BY <1>3, LeasesInOrder
  <2>2. \A i \in Instances : NothingListed(recovery[i]) /\ NothingListed(scan[i])
    BY DEF LeaseInv
  <2>3. /\ \A i \in Instances : NothingListed(recovery'[i]) /\ NothingListed(scan'[i])
        /\ \A i \in Instances, t \in Txs : Leased(i, t)' => Backed(i, t)'
    <3>1. CASE \E i \in Instances, t \in Txs : Create(i, t) \/ Submit(i, t)
      <4>1. UNCHANGED <<recovery, scan>>
        BY <3>1 DEF Create, Submit, procVars
      <4> QED
        BY <2>2, <3>1, <4>1, ClientBacked
    <3>2. CASE \E i \in Instances : Worker(i)
      <4>1. UNCHANGED <<recovery, scan>>
        BY <3>2 DEF Worker, TakeTask, Claim, Drive, DriveEnds, Release, Unmark
      <4> QED
        BY <2>2, <3>2, <4>1, WorkerBacked
    <3>3. CASE \E i \in Instances : Recovery(i)
      <4>1. scan' = scan
        BY <3>3 DEF Recovery, RecoveryList, RecoverySubmit, RecoveryRelease, RecoveryEnds, RecoveryQuits
      <4> QED
        BY <2>2, <3>3, <4>1, RecoveryBacked
    <3>4. CASE \E i \in Instances : TimeoutScan(i)
      <4>1. recovery' = recovery
        BY <3>4 DEF TimeoutScan, ScanList, ScanCAS, ScanSubmit, ScanRelease, ScanEnds
      <4> QED
        BY <2>2, <3>4, <4>1, TimeoutScanBacked
    <3>5. CASE \E i \in Instances : Start(i) \/ Stop(i) \/ Stopped(i) \/ Crash(i)
      BY <3>5, LifeBacked
    <3>6. CASE \E t \in Txs : LeaseExpires(t)
      <4>1. PICK t \in Txs : LeaseExpires(t)
        BY <3>6
      <4>2. UNCHANGED <<phase, queue, worker, recovery, scan>>
        BY <4>1 DEF LeaseExpires, procVars
      <4>3. ASSUME NEW i \in Instances, NEW u \in Txs, Leased(i, u)'
            PROVE  Backed(i, u)'
        <5>1. Leased(i, u)
          BY <4>1, <4>2, <4>3, ExpiryTypes DEF Leased, LeaseInv
        <5>2. Backed(i, u)
          BY <5>1 DEF LeaseInv, LeaseIsBacked, Leased
        <5> QED
          BY <4>2, <5>2 DEF Backed, Driving, Listed, Queued
      <4> QED
        BY <2>2, <4>2, <4>3
    <3> QED
      BY <1>3, <3>1, <3>2, <3>3, <3>4, <3>5, <3>6 DEF Next
  <2>4. LeaseIsBacked'
    BY <2>3 DEF LeaseIsBacked, Leased
  <2> QED
    BY <1>1, <2>1, <2>3, <2>4 DEF LeaseInv
<1> QED
  BY <1>2, <1>3

(***************************************************************************)
(* A running process holds no lease that nothing in it stands behind, for  *)
(* any number of processes and any limits of the scans: a worker, a place  *)
(* in the queue or a scan that will submit the transaction or give its     *)
(* lease back (driveTransaction, recoveryScan, scanTimeouts).              *)
(***************************************************************************)
THEOREM LeaseTheorem == Spec => []LeaseIsBacked
<1>1. LeaseInv => LeaseIsBacked
  BY DEF LeaseInv
<1> QED
  BY <1>1, InitLeases, LeaseStep, PTL DEF Spec

-----------------------------------------------------------------------------
(***************************************************************************)
(* Nobody is forgotten.  The ways in which process i may be concerned with *)
(* transaction t, as predicates: it has t for itself, a worker of it is    *)
(* done with t, a scan lists t, a scan is about to give the lease back, or *)
(* will find the status of t changed.                                      *)
(***************************************************************************)
Has(i, t) ==
    \/ client[t].at = i
    \/ Waits(i, t)
    \/ \E w \in Workers : worker[i][w].tx = t /\ worker[i][w].pc \in {"claim", "drive"}

Leaving(i, t) ==
    \E w \in Workers : worker[i][w].tx = t /\ worker[i][w].pc \in {"release", "unmark"}

Lists(i, t) == ListedBy(recovery[i], t) \/ ListedBy(scan[i], t)

Declined(sc, t) == sc.cur = t /\ sc.pc = "release"

Late(i, t) ==
    /\ t \in scan[i].todo
    /\ row[t].status # IF t \in scan[i].seen THEN "running" ELSE "compensating"

Touches(i, t) == Has(i, t) \/ Leaving(i, t) \/ Lists(i, t)
Alone(i, t)   == \A j \in Instances \ {i} : ~Touches(j, t)

(* Some process has not yet looked for what was left. *)
Unlooked == \E i \in Instances : phase[i] = "down" \/ recovery[i].pc = "wait"

(* Nobody is concerned with t, and there is still one who will look for it. *)
Left(t) ==
    /\ Unlooked
    /\ row[t].lockedBy \notin Instances
    /\ \A j \in Instances : ~Touches(j, t)

(* The process that was called with t has it, without a lease. *)
Kept(i, t) ==
    /\ row[t].lockedBy = NoInstance
    /\ Has(i, t) /\ ~Leaving(i, t) /\ ~Lists(i, t)
    /\ Alone(i, t)

(***************************************************************************)
(* Process i has the lease of t, which does not run out.  One of its scans *)
(* may list what it has already, and will give back a lease its worker     *)
(* relies on: then no other process is concerned with t.                   *)
(***************************************************************************)
Held(i, t) ==
    /\ row[t].lockedBy = i /\ ~row[t].expired
    /\ Has(i, t) \/ Lists(i, t)
    /\ ~Leaving(i, t)
    /\ ~(ListedBy(recovery[i], t) /\ ListedBy(scan[i], t))
    /\ Declined(recovery[i], t) \/ Declined(scan[i], t) \/ Late(i, t) => Has(i, t)
    /\ Has(i, t) /\ Lists(i, t) => Alone(i, t)
    /\ \A j \in Instances \ {i} : ~Lists(j, t)

InHands(t) == \E i \in Instances : Kept(i, t) \/ Held(i, t)

Care(t) ==
    /\ row[t].status = "none" => \A j \in Instances : ~Touches(j, t)
    /\ Undecided(t) => Left(t) \/ InHands(t)

(* A scan does not list what it has in hand. *)
Apart(sc) == sc.pc \in Scanning => sc.cur \notin sc.todo

CareInv ==
    /\ PlaceInv /\ LeaseInv
    /\ \A i \in Instances : Apart(recovery[i]) /\ Apart(scan[i])
    /\ Undisturbed => \A t \in Txs : Care(t)

-----------------------------------------------------------------------------
(* Steps of which t sees nothing in process i *)
Same(i, t) ==
    /\ Has(i, t)' <=> Has(i, t)
    /\ Leaving(i, t)' <=> Leaving(i, t)
    /\ ListedBy(recovery'[i], t) <=> ListedBy(recovery[i], t)
    /\ ListedBy(scan'[i], t) <=> ListedBy(scan[i], t)
    /\ Declined(recovery'[i], t) <=> Declined(recovery[i], t)
    /\ Declined(scan'[i], t) <=> Declined(scan[i], t)
    /\ Late(i, t)' => Late(i, t)

SameLock(t) == row'[t].lockedBy = row[t].lockedBy /\ row'[t].expired = row[t].expired

LEMMA SameTouches ==
    ASSUME NEW i \in Instances, NEW t \in Txs, Same(i, t)
    PROVE  (Touches(i, t)' <=> Touches(i, t)) /\ (Lists(i, t)' <=> Lists(i, t))
BY DEF Same, Touches, Lists

(* Who has t, with or without a lease, goes on having it. *)
LEMMA HandsFrame ==
    ASSUME NEW t \in Txs, InHands(t), SameLock(t), \A j \in Instances : Same(j, t)
    PROVE  InHands(t)'
<1>1. \A j \in Instances : /\ Touches(j, t)' <=> Touches(j, t)
                           /\ Lists(j, t)' <=> Lists(j, t)
  BY SameTouches
<1>2. \A j \in Instances : Alone(j, t) => Alone(j, t)'
  BY <1>1 DEF Alone
<1>3. PICK i \in Instances : Kept(i, t) \/ Held(i, t)
  BY DEF InHands
<1>4. Same(i, t)
  OBVIOUS
<1>5. CASE Kept(i, t)
  <2>1. Kept(i, t)'
    BY <1>1, <1>2, <1>4, <1>5 DEF Kept, Same, SameLock
  <2> QED
    BY <2>1 DEF InHands
<1>6. CASE Held(i, t)
  <2>1. Held(i, t)'
    BY <1>1, <1>2, <1>4, <1>6 DEF Held, Same, SameLock
  <2> QED
    BY <2>1 DEF InHands
<1> QED
  BY <1>3, <1>5, <1>6

LEMMA CareFrame ==
    ASSUME NEW t \in Txs, Care(t), SameLock(t), \A j \in Instances : Same(j, t),
           row'[t].status = row[t].status, t \in turned => t \in turned',
           Unlooked => Unlooked'
    PROVE  Care(t)'
<1>1. \A j \in Instances : Touches(j, t)' <=> Touches(j, t)
  BY SameTouches
<1>2. ASSUME row'[t].status = "none"
      PROVE  \A j \in Instances : ~Touches(j, t)'
  BY <1>1, <1>2 DEF Care
<1>3. ASSUME Undecided(t)'
      PROVE  Left(t)' \/ InHands(t)'
  <2>1. Undecided(t)
    BY <1>3 DEF Undecided
  <2>2. CASE Left(t)
    BY <1>1, <2>2 DEF Left, SameLock
  <2>3. CASE InHands(t)
    BY <2>3, HandsFrame
  <2> QED
    BY <2>1, <2>2, <2>3 DEF Care
<1> QED
  BY <1>2, <1>3 DEF Care

(* What process i does with t does not concern the holder of the lease. *)
LEMMA HeldElsewhere ==
    ASSUME NEW t \in Txs, NEW i \in Instances, NEW k \in Instances \ {i}, Held(k, t), SameLock(t),
           \A j \in Instances \ {i} : Same(j, t),
           Lists(i, t)' => Lists(i, t), Touches(i, t)' => Touches(i, t)
    PROVE  InHands(t)'
<1>1. \A j \in Instances \ {i} : /\ Touches(j, t)' <=> Touches(j, t)
                                 /\ Lists(j, t)' <=> Lists(j, t)
  BY SameTouches
<1>2. Alone(k, t) => Alone(k, t)'
  BY <1>1 DEF Alone
<1>3. \A j \in Instances \ {k} : ~Lists(j, t)'
  BY <1>1 DEF Held
<1>4. Same(k, t) /\ (Lists(k, t)' <=> Lists(k, t))
  BY <1>1
<1>5. Held(k, t)'
  BY <1>2, <1>3, <1>4 DEF Held, Same, SameLock
<1> QED
  BY <1>5 DEF InHands

LEMMA ListedIf ==
    ASSUME NEW sc, NEW t
    PROVE  /\ AtScan(sc, t) => ListedBy(sc, t) /\ ~Declined(sc, t)
           /\ Declined(sc, t) => ListedBy(sc, t)
BY DEF AtScan, ListedBy, Declined, Marked

(* Where t can be while process i has it marked. *)
LEMMA MarkedSomewhere ==
    ASSUME PlaceInv, NEW i \in Instances, NEW t \in Txs, t \in active[i]
    PROVE  \/ client[t].at = i /\ client[t].pc \in Marked
           \/ Waits(i, t)
           \/ \E w \in Workers : worker[i][w].tx = t /\ worker[i][w].pc \in {"claim", "drive"}
           \/ Leaving(i, t)
           \/ AtScan(recovery[i], t) \/ AtScan(scan[i], t)
<1>1. \A w \in Workers : worker[i][w].pc \in {"idle", "claim", "drive", "release", "unmark"}
  BY DEF PlaceInv, TypeInv, TypeOK, Job
<1> QED
  BY <1>1 DEF PlaceInv, Placed, AtCaller, AtWork, Leaving

-----------------------------------------------------------------------------
(* Process i is called with t, and its caller goes through Submit. *)
LEMMA CreateCare ==
    ASSUME CareInv, Undisturbed, NEW i \in Instances, NEW t \in Txs, Create(i, t)
    PROVE  \A u \in Txs : Care(u)'
<1>1. /\ TypeOK /\ row \in [Txs -> Row] /\ client \in [Txs -> Call] /\ NoInstance \notin Instances
      /\ \A u \in Txs : Care(u)
      /\ row[t].status = "none" => row[t].lockedBy = NoInstance /\ client[t].at = NoInstance
  BY DispatchAssumption DEF CareInv, PlaceInv, LeaseInv, TypeInv, TypeOK, Called, NoCall
<1>2. /\ UNCHANGED <<phase, queue, active, worker, recovery, scan, turned>>
      /\ row[t].status = "none"
      /\ row' = [row EXCEPT ![t] = [row[t] EXCEPT !.status = "pending"]]
      /\ client' = [client EXCEPT ![t] = [pc |-> "mark", at |-> i]]
  BY DEF Create, procVars
<1>3. /\ row'[t].status = "pending" /\ row'[t].lockedBy = NoInstance
      /\ \A u \in Txs \ {t} : row'[u] = row[u] /\ client'[u] = client[u]
      /\ client'[t].at = i
  BY <1>1, <1>2 DEF Row
<1>4. \A j \in Instances, u \in Txs :
        /\ Waits(j, u)' <=> Waits(j, u)
        /\ Leaving(j, u)' <=> Leaving(j, u)
  BY <1>2 DEF Waits, Leaving
<1>5. ASSUME NEW u \in Txs \ {t}
      PROVE  Care(u)'
  <2>1. \A j \in Instances : Same(j, u)
    BY <1>2, <1>3, <1>4, <1>5 DEF Same, Has, Late
  <2>2. SameLock(u) /\ row'[u].status = row[u].status /\ (Unlooked => Unlooked')
    BY <1>2, <1>3 DEF SameLock, Unlooked
  <2> QED
    BY <1>1, <1>2, <2>1, <2>2, CareFrame
<1>6. Care(t)'
  <2>1. \A j \in Instances : ~Touches(j, t)
    BY <1>1, <1>2 DEF Care
  <2>2. Has(i, t)' /\ \A j \in Instances \ {i} : ~Has(j, t)'
    BY <1>1, <1>2, <1>3, <1>4, <2>1 DEF Has, Touches
  <2>3. \A j \in Instances : ~Leaving(j, t)' /\ ~Lists(j, t)'
    BY <1>2, <1>4, <2>1 DEF Touches, Lists
  <2>4. Kept(i, t)'
    BY <1>3, <2>2, <2>3 DEF Kept, Alone, Touches
  <2> QED
    BY <1>3, <2>4 DEF Care, InHands
<1> QED
  BY <1>5, <1>6

LEMMA SubmitCare ==
    ASSUME CareInv, Undisturbed, NEW i \in Instances, NEW t \in Txs, Submit(i, t)
    PROVE  \A u \in Txs : Care(u)'
<1>1. /\ TypeOK /\ PlaceInv /\ client \in [Txs -> Call] /\ NoInstance \notin Instances
      /\ \A u \in Txs : Care(u)
      /\ Apart(recovery[i]) /\ Apart(scan[i])
  BY DispatchAssumption DEF CareInv, PlaceInv, TypeInv, TypeOK
<1>2. /\ UNCHANGED <<row, phase, worker, recovery, scan>>
      /\ client[t].at = i
  BY DEF Submit
<1>3. PICK q \in SubmitOutcomes :
        /\ SubmitStep(i, t, client[t].pc, q)
        /\ client' = [client EXCEPT ![t] = IF q \in InSubmit
                         THEN [pc |-> q, at |-> i] ELSE [NoCall EXCEPT !.pc = "done"]]
  BY DEF Submit
<1>4. /\ \A u \in Txs \ {t} : client'[u] = client[u]
      /\ client'[t].at = IF q \in InSubmit THEN i ELSE NoInstance
  BY <1>1, <1>3 DEF NoCall
<1>5. /\ \A j \in Instances, u \in Txs : j # i \/ u # t => (Waits(j, u)' <=> Waits(j, u))
      /\ \/ q \in {"enqueue", "unmark"} /\ queue' = queue
         \/ client[t].pc = "mark" /\ q = "declined" /\ UNCHANGED <<queue, active>>
         \/ q = "accepted" /\ Waits(i, t)'
         \/ client[t].pc = "unmark" /\ q = "declined" /\ queue' = queue
      /\ turned \subseteq turned'
  BY <1>1, <1>3, SubmitMoves DEF SubmitStep, SubmitMarks, SubmitSkips, SubmitEnqueues,
                                 SubmitFindsFull, SubmitUnmarks, LetGo
<1>6. \A j \in Instances, u \in Txs :
        /\ Leaving(j, u)' <=> Leaving(j, u)
        /\ Late(j, u)' <=> Late(j, u)
        /\ (\E w \in Workers : worker'[j][w].tx = u /\ worker'[j][w].pc \in {"claim", "drive"})
             <=> \E w \in Workers : worker[j][w].tx = u /\ worker[j][w].pc \in {"claim", "drive"}
  BY <1>2 DEF Leaving, Late
<1>7. \A u \in Txs : SameLock(u) /\ row'[u].status = row[u].status /\ (Unlooked => Unlooked')
  BY <1>2 DEF SameLock, Unlooked
<1>8. \A j \in Instances, u \in Txs : j # i \/ u # t => Same(j, u)
  BY <1>2, <1>4, <1>5, <1>6, <1>1 DEF Same, Has
<1>9. ASSUME NEW u \in Txs \ {t}
      PROVE  Care(u)'
  BY <1>1, <1>5, <1>7, <1>8, CareFrame
<1>10. Care(t)'
  <2>0. Has(i, t)
    BY <1>2 DEF Has
  <2>1. CASE Has(i, t)'
    <3>1. Same(i, t)
      BY <1>2, <1>6, <2>0, <2>1 DEF Same
    <3> QED
      BY <1>1, <1>5, <1>7, <1>8, <3>1, CareFrame
  <2>2. CASE ~Has(i, t)'
    <3>1. q = "declined" /\ queue' = queue
      BY <1>3, <1>4, <1>5, <2>2 DEF Has, SubmitOutcomes, InSubmit
    <3>2. CASE client[t].pc = "unmark"
      <4>1. t \in turned'
        BY <1>3, <3>1, <3>2 DEF SubmitStep, SubmitUnmarks, LetGo
      <4> QED
        BY <1>1, <1>7, <2>0, <4>1 DEF Care, Undecided, Touches
    <3>3. CASE client[t].pc = "mark" /\ Undecided(t)
      <4>1. t \in active[i]
        BY <1>3, <3>1, <3>3 DEF SubmitStep, SubmitSkips
      <4>2. ~Waits(i, t) /\ ~\E w \in Workers : worker[i][w].tx = t /\ worker[i][w].pc \in {"claim", "drive"}
        BY <1>6, <2>2, <3>1 DEF Has, Waits
      <4>3. Leaving(i, t) \/ AtScan(recovery[i], t) \/ AtScan(scan[i], t)
        BY <1>1, <3>3, <4>1, <4>2, MarkedSomewhere DEF Marked
      <4>4. /\ Touches(i, t) /\ (Touches(i, t)' => Touches(i, t))
            /\ Lists(i, t)' <=> Lists(i, t)
        BY <1>2, <1>6, <2>0 DEF Touches, Lists
      <4>5. PICK k \in Instances : Kept(k, t) \/ Held(k, t)
        BY <1>1, <3>3, <4>4 DEF Care, Left, InHands
      <4>6. CASE k # i
        <5>1. Held(k, t)
          BY <4>4, <4>5, <4>6 DEF Kept, Alone
        <5>2. InHands(t)'
          BY <1>7, <1>8, <4>4, <4>6, <5>1, HeldElsewhere
        <5> QED
          BY <1>1, <1>7, <2>0, <5>2 DEF Care, Touches
      <4>7. CASE k = i
        <5>1. Held(i, t)
          BY <4>3, <4>5, <4>7, ListedIf DEF Kept, Lists
        <5>2. /\ ~Declined(recovery[i], t) /\ ~Declined(scan[i], t) /\ ~Late(i, t)
              /\ Lists(i, t)
          BY <1>1, <4>3, <5>1, ListedIf DEF Held, Lists, Late, Apart, AtScan, Marked, Scanning,
                                            InSubmit, ListedBy
        <5>3. \A j \in Instances \ {i} : ~Lists(j, t)'
          BY <1>8, <5>1, SameTouches DEF Held
        <5>4. Held(i, t)'
          BY <1>2, <1>6, <1>7, <2>2, <4>4, <5>1, <5>2, <5>3 DEF Held, SameLock, Declined
        <5> QED
          BY <1>1, <1>7, <2>0, <5>4 DEF Care, InHands, Touches
      <4> QED
        BY <4>6, <4>7
    <3>4. CASE ~Undecided(t)
      <4>1. ~Undecided(t)'
        BY <1>5, <1>7, <3>4 DEF Undecided
      <4> QED
        BY <1>1, <1>7, <2>0, <4>1 DEF Care, Touches
    <3> QED
      BY <1>5, <3>1, <3>2, <3>3, <3>4
  <2> QED
    BY <2>1, <2>2
<1> QED
  BY <1>9, <1>10

-----------------------------------------------------------------------------
(* A worker of process i goes on with t: what it is to every process. *)
LEMMA GotoCare ==
    ASSUME TypeOK, NEW i \in Instances, NEW w \in Workers, NEW t \in Txs, t = worker[i][w].tx,
           NEW place \in {"idle", "drive", "release", "unmark"}, worker[i][w].pc # "idle",
           \/ Goto(i, w, place)
           \/ place = "idle" /\ worker' = [worker EXCEPT ![i][w] = Idle],
           UNCHANGED <<queue, client, recovery, scan>>
    PROVE  /\ \A j \in Instances, u \in Txs :
                 j # i \/ u # t => (Has(j, u)' <=> Has(j, u)) /\ (Leaving(j, u)' <=> Leaving(j, u))
           /\ \A j \in Instances, u \in Txs : Lists(j, u)' <=> Lists(j, u)
           /\ Touches(i, t)
           /\ place = "drive" => Has(i, t)' /\ (Leaving(i, t)' => Leaving(i, t))
           /\ place = "drive" /\ worker[i][w].pc \in {"claim", "drive"} =>
                 (Has(i, t)' <=> Has(i, t)) /\ (Leaving(i, t)' <=> Leaving(i, t))
<1>1. worker \in [Instances -> [Workers -> Job]]
  BY DEF TypeOK
<1>2. /\ worker'[i][w].pc = place
      /\ \A v \in Workers \ {w} : worker'[i][v] = worker[i][v]
      /\ \A j \in Instances \ {i} : worker'[j] = worker[j]
      /\ place # "idle" => worker'[i][w].tx = t
  <2>1. CASE Goto(i, w, place)
    BY <2>1, GotoState
  <2>2. CASE place = "idle" /\ worker' = [worker EXCEPT ![i][w] = Idle]
    <3>1. worker' = [worker EXCEPT ![i] = [worker[i] EXCEPT ![w] = Idle]]
      BY <1>1, <2>2
    <3> QED
      BY <1>1, <2>2, <3>1 DEF Idle
  <2> QED
    BY <2>1, <2>2
<1>3. /\ \A j \in Instances, u \in Txs : Waits(j, u)' <=> Waits(j, u)
      /\ \A j \in Instances, u \in Txs : Lists(j, u)' <=> Lists(j, u)
  BY DEF Waits, Lists
<1>4. \A j \in Instances, u \in Txs :
         j # i \/ u # t => (Has(j, u)' <=> Has(j, u)) /\ (Leaving(j, u)' <=> Leaving(j, u))
  BY <1>2, <1>3 DEF Has, Leaving
<1>5. worker[i][w].pc \in {"claim", "drive", "release", "unmark"}
  BY <1>1 DEF Job
<1>6. Touches(i, t)
  BY <1>5 DEF Touches, Has, Leaving
<1>7. place = "drive" => Has(i, t)' /\ (Leaving(i, t)' => Leaving(i, t))
  BY <1>2 DEF Has, Leaving
<1>8. ASSUME place = "drive", worker[i][w].pc \in {"claim", "drive"}
      PROVE  (Has(i, t)' <=> Has(i, t)) /\ (Leaving(i, t)' <=> Leaving(i, t))
  BY <1>2, <1>7, <1>8 DEF Has, Leaving
<1> QED
  BY <1>3, <1>4, <1>6, <1>7, <1>8

(* The worker that has t for process i takes the lease, or renews it. *)
LEMMA TakenUp ==
    ASSUME NEW t \in Txs, NEW i \in Instances, Kept(i, t) \/ Held(i, t), Has(i, t),
           row'[t].lockedBy = i, ~row'[t].expired, Has(i, t)', ~Leaving(i, t)',
           \A j \in Instances : (Touches(j, t)' <=> Touches(j, t)) /\ (Lists(j, t)' <=> Lists(j, t)),
           UNCHANGED <<recovery, scan>>
    PROVE  InHands(t)'
<1>0. Alone(i, t) => \A j \in Instances \ {i} : ~Lists(j, t)
  BY DEF Alone, Touches
<1>1. /\ \A j \in Instances \ {i} : ~Lists(j, t)
      /\ Lists(i, t) => Alone(i, t)
  <2>1. CASE Kept(i, t)
    BY <1>0, <2>1 DEF Kept
  <2>2. CASE Held(i, t)
    BY <2>2 DEF Held
  <2> QED
    BY <2>1, <2>2
<1>2. ~(ListedBy(recovery'[i], t) /\ ListedBy(scan'[i], t))
  BY DEF Kept, Held, Lists
<1>3. Alone(i, t) => Alone(i, t)'
  BY DEF Alone
<1>4. Held(i, t)'
  BY <1>1, <1>2, <1>3 DEF Held
<1> QED
  BY <1>4 DEF InHands

(* A worker that finds t in the hands of another process leaves it there. *)
LEMMA LeftElsewhere ==
    ASSUME NEW t \in Txs, NEW i \in Instances, Care(t), Touches(i, t), SameLock(t),
           row'[t].status = row[t].status, row[t].status # "none", turned \subseteq turned',
           \A j \in Instances \ {i} : Same(j, t),
           Lists(i, t)' => Lists(i, t),
           row[t].status \in ActiveStatus => ~Held(i, t) /\ ~Kept(i, t)
    PROVE  Care(t)'
<1>1. SUFFICES ASSUME Undecided(t)' PROVE InHands(t)'
  BY DEF Care
<1>2. Undecided(t)
  BY <1>1 DEF Undecided
<1>3. PICK k \in Instances : Kept(k, t) \/ Held(k, t)
  BY <1>2 DEF Care, Left, InHands
<1>4. k # i /\ ~Kept(k, t)
  BY <1>2, <1>3 DEF Undecided, Kept, Alone
<1> QED
  BY <1>3, <1>4, HeldElsewhere

LEMMA WorkerCare ==
    ASSUME CareInv, Undisturbed, NEW i \in Instances, Worker(i)
    PROVE  \A u \in Txs : Care(u)'
<1>1. /\ TypeOK /\ InHand /\ row \in [Txs -> Row] /\ worker \in [Instances -> [Workers -> Job]]
      /\ NoInstance \notin Instances
      /\ phase[i] \in {"down", "up"}
      /\ \A u \in Txs : Care(u)
  BY DispatchAssumption DEF CareInv, PlaceInv, TypeInv, TypeOK, Undisturbed
<1>2. PICK w \in Workers : \/ TakeTask(i, w) \/ Claim(i, w) \/ Drive(i, w)
                           \/ DriveEnds(i, w) \/ Release(i, w) \/ Unmark(i, w)
  BY DEF Worker
<1>3. /\ UNCHANGED <<phase, client, recovery, scan>> /\ turned \subseteq turned'
      /\ Unlooked => Unlooked'
  BY <1>2 DEF TakeTask, Claim, Drive, DriveEnds, Release, Unmark, LetGo, Unlooked
<1>4. CASE TakeTask(i, w)
  <2>1. PICK h \in Txs : h = Head(queue[i])
    BY <1>1, <1>4, QueueTail DEF TakeTask
  <2>2. /\ row' = row /\ queue[i] # <<>> /\ queue' = [queue EXCEPT ![i] = Tail(@)]
        /\ worker[i][w].pc = "idle"
        /\ worker' = [worker EXCEPT ![i] = [worker[i] EXCEPT ![w] = [pc |-> "claim", tx |-> h]]]
    BY <1>1, <1>4, <2>1 DEF TakeTask
  <2>3. /\ worker'[i][w].pc = "claim" /\ worker'[i][w].tx = h
        /\ \A v \in Workers \ {w} : worker'[i][v] = worker[i][v]
        /\ \A k \in Instances \ {i} : worker'[k] = worker[k]
    BY <1>1, <2>2
  <2>4. /\ Waits(i, h)
        /\ \A j \in Instances, u \in Txs : j # i \/ u # h => (Waits(j, u)' <=> Waits(j, u))
    BY <1>1, <2>1, <2>2, QueueTail
  <2>5. \A j \in Instances, u \in Txs : Leaving(j, u)' <=> Leaving(j, u)
    BY <2>2, <2>3 DEF Leaving
  <2>6. \A j \in Instances, u \in Txs : j # i \/ u # h => (Has(j, u)' <=> Has(j, u))
    BY <1>3, <2>2, <2>3, <2>4 DEF Has
  <2>7. Has(i, h) /\ Has(i, h)'
    BY <2>3, <2>4 DEF Has
  <2>8. \A j \in Instances, u \in Txs : Same(j, u)
    BY <1>3, <2>2, <2>5, <2>6, <2>7 DEF Same, Late
  <2> QED
    BY <1>1, <1>3, <2>2, <2>8, CareFrame DEF SameLock
<1>5. CASE ~TakeTask(i, w)
  <2>1. queue' = queue /\ worker[i][w].pc # "idle"
    BY <1>2, <1>5 DEF Claim, Drive, DriveEnds, Release, Unmark
  <2>2. PICK t \in Txs : t = worker[i][w].tx
    BY <1>1, <2>1 DEF InHand
  <2>3. PICK place \in {"idle", "drive", "release", "unmark"} :
          /\ \/ Goto(i, w, place)
             \/ place = "idle" /\ worker' = [worker EXCEPT ![i][w] = Idle]
          /\ \/ /\ Claim(i, w) /\ Claimable(i, t) /\ LockAll(i, {t}) /\ place = "drive"
                /\ worker[i][w].pc = "claim" /\ turned' = turned
             \/ /\ Claimable(i, t) /\ turned' = turned /\ worker[i][w].pc = "drive"
                /\ \E s \in Moves(row[t].status) :
                      /\ row' = [row EXCEPT ![t] = [Locked(row[t], i) EXCEPT !.status = s]]
                      /\ place = IF s \in ActiveStatus THEN "drive" ELSE "release"
             \/ row' = row /\ (~Claimable(i, t) \/ t \in turned')
             \/ /\ worker[i][w].pc \in {"release", "unmark"}
                /\ row' = row \/ ReleaseTransaction(i, t)
    <3>1. CASE Claim(i, w)
      BY <1>1, <2>2, <3>1 DEF Claim
    <3>2. CASE Drive(i, w)
      <4>1. PICK s \in Moves(row[t].status) :
              /\ row' = [row EXCEPT ![t] = [Locked(row[t], i) EXCEPT !.status = s]]
              /\ Goto(i, w, IF s \in ActiveStatus THEN "drive" ELSE "release")
        BY <2>2, <3>2 DEF Drive
      <4>2. Claimable(i, t) /\ turned' = turned /\ worker[i][w].pc = "drive"
        BY <2>2, <3>2 DEF Drive
      <4> QED
        BY <4>1, <4>2
    <3>3. CASE DriveEnds(i, w)
      BY <1>1, <2>2, <3>3 DEF DriveEnds, LetGo
    <3>4. CASE Release(i, w)
      BY <2>2, <3>4 DEF Release
    <3>5. CASE Unmark(i, w)
      BY <3>5 DEF Unmark
    <3> QED
      BY <1>2, <1>5, <3>1, <3>2, <3>3, <3>4, <3>5
  <2>4. /\ \A j \in Instances, u \in Txs :
             j # i \/ u # t => (Has(j, u)' <=> Has(j, u)) /\ (Leaving(j, u)' <=> Leaving(j, u))
        /\ \A j \in Instances, u \in Txs : Lists(j, u)' <=> Lists(j, u)
        /\ Touches(i, t)
        /\ place = "drive" => Has(i, t)' /\ (Leaving(i, t)' => Leaving(i, t))
        /\ place = "drive" /\ worker[i][w].pc \in {"claim", "drive"} =>
              (Has(i, t)' <=> Has(i, t)) /\ (Leaving(i, t)' <=> Leaving(i, t))
    BY <1>1, <1>3, <2>1, <2>2, <2>3, GotoCare
  <2>5. \A j \in Instances, u \in Txs :
           (j # i \/ u # t) /\ row'[u].status = row[u].status => Same(j, u)
    BY <1>3, <2>4 DEF Same, Late
  <2>6. row[t].status # "none"
    BY <1>1, <2>4 DEF Care
  <2>7. ASSUME NEW u \in Txs \ {t}, row'[u] = row[u]
        PROVE  Care(u)'
    BY <1>1, <1>3, <2>5, <2>7, CareFrame DEF SameLock
  <2>8. CASE Claimable(i, t) /\ LockAll(i, {t}) /\ place = "drive" /\ worker[i][w].pc = "claim"
             /\ turned' = turned
    <3>1. /\ \A u \in Txs : row'[u].status = row[u].status
          /\ \A u \in Txs \ {t} : row'[u] = row[u]
          /\ row'[t].lockedBy = i /\ ~row'[t].expired
      BY <1>1, <2>8, LockedType DEF LockAll
    <3>3. \A j \in Instances : (Touches(j, t)' <=> Touches(j, t)) /\ (Lists(j, t)' <=> Lists(j, t))
      BY <2>4, <2>8 DEF Touches
    <3>4. ASSUME Undecided(t)'
          PROVE  InHands(t)'
      <4>1. Undecided(t)
        BY <2>8, <3>1, <3>4 DEF Undecided
      <4>2. PICK k \in Instances : Kept(k, t) \/ Held(k, t)
        BY <1>1, <2>4, <4>1 DEF Care, Left, InHands
      <4>3. k = i
        BY <1>1, <2>4, <2>8, <4>2 DEF Kept, Held, Alone, Claimable, LockFree
      <4>4. Has(i, t) /\ Has(i, t)' /\ ~Leaving(i, t)'
        BY <2>4, <2>8, <4>2, <4>3 DEF Kept, Held
      <4> QED
        BY <1>3, <3>1, <3>3, <4>2, <4>3, <4>4, TakenUp
    <3>5. Care(t)'
      BY <2>6, <3>1, <3>4 DEF Care
    <3> QED
      BY <2>7, <3>1, <3>5
  <2>9. CASE /\ Claimable(i, t) /\ turned' = turned /\ worker[i][w].pc = "drive"
             /\ \E s \in Moves(row[t].status) :
                   /\ row' = [row EXCEPT ![t] = [Locked(row[t], i) EXCEPT !.status = s]]
                   /\ place = IF s \in ActiveStatus THEN "drive" ELSE "release"
    <3>1. PICK s \in Moves(row[t].status) :
            /\ row' = [row EXCEPT ![t] = [Locked(row[t], i) EXCEPT !.status = s]]
            /\ place = IF s \in ActiveStatus THEN "drive" ELSE "release"
      BY <2>9
    <3>2. s \in ActiveStatus \cup {"succeeded", "failed"} /\ s # "none"
      BY <3>1 DEF Moves, ActiveStatus
    <3>3. /\ [Locked(row[t], i) EXCEPT !.status = s].status = s
          /\ [Locked(row[t], i) EXCEPT !.status = s].lockedBy = i
          /\ ~[Locked(row[t], i) EXCEPT !.status = s].expired
      BY <1>1, <3>2 DEF Locked, Row
    <3>4. /\ \A u \in Txs \ {t} : row'[u] = row[u]
          /\ row'[t].lockedBy = i /\ ~row'[t].expired /\ row'[t].status = s
      BY <1>1, <3>1, <3>3
    <3>5. ASSUME Undecided(t)'
          PROVE  InHands(t)'
      <4>1. Undecided(t) /\ place = "drive"
        BY <2>9, <3>1, <3>4, <3>5 DEF Undecided, Claimable
      <4>2. PICK k \in Instances : Kept(k, t) \/ Held(k, t)
        BY <1>1, <2>4, <4>1 DEF Care, Left, InHands
      <4>3. k = i
        BY <1>1, <2>4, <2>9, <4>2 DEF Kept, Held, Alone, Claimable, LockFree
      <4>4. /\ Has(i, t) /\ Has(i, t)' /\ ~Leaving(i, t)'
            /\ \A j \in Instances : (Touches(j, t)' <=> Touches(j, t)) /\ (Lists(j, t)' <=> Lists(j, t))
        BY <2>4, <2>9, <4>1, <4>2, <4>3 DEF Touches, Kept, Held
      <4> QED
        BY <1>3, <3>4, <4>2, <4>3, <4>4, TakenUp
    <3>6. Care(t)'
      BY <3>2, <3>4, <3>5 DEF Care
    <3> QED
      BY <2>7, <3>4, <3>6
  <2>10. CASE row' = row /\ (~Claimable(i, t) \/ t \in turned')
    <3>2. ASSUME ~Claimable(i, t)
          PROVE  Care(t)'
      <4>1. row[t].status \in ActiveStatus => ~Held(i, t) /\ ~Kept(i, t)
        BY <3>2 DEF Held, Kept, Claimable, LockFree
      <4> QED
        BY <1>1, <1>3, <2>4, <2>5, <2>6, <2>10, <4>1, LeftElsewhere DEF SameLock
    <3>3. Care(t)'
      BY <2>6, <2>10, <3>2 DEF Care, Undecided
    <3> QED
      BY <2>7, <2>10, <3>3
  <2>11. CASE worker[i][w].pc \in {"release", "unmark"} /\ (row' = row \/ ReleaseTransaction(i, t))
    <3>1. /\ \A u \in Txs : row'[u].status = row[u].status
          /\ \A u \in Txs \ {t} : row'[u] = row[u]
          /\ row[t].lockedBy # i => row'[t] = row[t]
      BY <1>1, <2>11, ReleaseRows
    <3>2. ~Held(i, t) /\ ~Kept(i, t)
      BY <2>2, <2>11 DEF Held, Kept, Leaving
    <3>3. CASE row'[t] = row[t]
      <4>1. Care(t)'
        BY <1>1, <1>3, <2>4, <2>5, <2>6, <3>1, <3>2, <3>3, LeftElsewhere DEF SameLock
      <4> QED
        BY <2>7, <3>1, <4>1
    <3>4. CASE row[t].lockedBy = i
      <4>1. ~Undecided(t)
        BY <1>1, <2>4, <3>2, <3>4 DEF Care, Left, InHands, Held, Kept
      <4>2. Care(t)'
        BY <1>3, <2>6, <3>1, <4>1 DEF Care, Undecided
      <4> QED
        BY <2>7, <3>1, <4>2
    <3> QED
      BY <3>1, <3>3, <3>4
  <2> QED
    BY <2>3, <2>8, <2>9, <2>10, <2>11
<1> QED
  BY <1>4, <1>5

-----------------------------------------------------------------------------
(***************************************************************************)
(* The scans.  Process i takes the lease of t and lists it: nobody listed  *)
(* it before, and at most one process has it, without a lease.             *)
(***************************************************************************)
LEMMA ListCare ==
    ASSUME NEW t \in Txs, NEW i \in Instances, Care(t),
           row[t].status \in ActiveStatus, LockFree(t), turned \subseteq turned',
           row'[t].lockedBy = i, ~row'[t].expired, row'[t].status = row[t].status,
           \A j \in Instances : (Has(j, t)' <=> Has(j, t)) /\ (Leaving(j, t)' <=> Leaving(j, t)),
           \A j \in Instances \ {i} : Lists(j, t)' <=> Lists(j, t),
           Lists(i, t)',
           ~Lists(i, t) => /\ ~(ListedBy(recovery'[i], t) /\ ListedBy(scan'[i], t))
                           /\ ~Declined(recovery'[i], t) /\ ~Declined(scan'[i], t)
                           /\ ~Late(i, t)'
    PROVE  Care(t)'
<1>1. SUFFICES ASSUME Undecided(t)' PROVE InHands(t)'
  BY DEF Care, ActiveStatus
<1>2. Left(t) \/ \E c \in Instances : Kept(c, t)
  <2>1. Undecided(t) /\ \A k \in Instances : ~Held(k, t)
    BY <1>1, DispatchAssumption DEF Undecided, Held, LockFree
  <2> QED
    BY <2>1 DEF Care, InHands
<1>3. /\ \A j \in Instances : ~Lists(j, t) /\ ~Leaving(j, t)
      /\ Has(i, t) => \A j \in Instances \ {i} : ~Has(j, t)
  BY <1>2 DEF Left, Kept, Alone, Touches
<1>4. Has(i, t)' => Alone(i, t)'
  BY <1>3 DEF Alone, Touches
<1>5. Held(i, t)'
  BY <1>3, <1>4 DEF Held
<1> QED
  BY <1>5 DEF InHands

(* A scan of process i submits the transaction it lists: a step of Submit. *)
Hands(i, t, p, q) ==
    \/ /\ scan' = scan /\ recovery' = [recovery EXCEPT ![i] = AfterSubmit(recovery[i], t, q)]
       /\ \/ recovery[i].pc = "next" /\ p = "mark" /\ t \in recovery[i].todo
          \/ recovery[i].pc = p /\ recovery[i].cur = t
    \/ /\ recovery' = recovery /\ scan' = [scan EXCEPT ![i] = AfterSubmit(scan[i], t, q)]
       /\ scan[i].pc = p /\ scan[i].cur = t

LEMMA SeenStays ==
    ASSUME NEW sc \in Scan, NEW t, NEW q
    PROVE  AfterSubmit(sc, t, q).seen = sc.seen
BY DEF AfterSubmit, Scan

(* What a scan lists after that. *)
LEMMA HandedOver ==
    ASSUME NEW sc \in Scan, NEW t \in Txs, NEW p \in InSubmit, NEW q \in SubmitOutcomes,
           \/ sc.pc = "next" /\ p = "mark" /\ t \in sc.todo
           \/ sc.pc = p /\ sc.cur = t
    PROVE  /\ \A u \in Txs \ {t} : /\ ListedBy(AfterSubmit(sc, t, q), u) <=> ListedBy(sc, u)
                                   /\ Declined(AfterSubmit(sc, t, q), u) <=> Declined(sc, u)
           /\ ListedBy(sc, t) /\ ~Declined(sc, t)
           /\ ListedBy(AfterSubmit(sc, t, q), t) <=> q # "accepted"
           /\ q \in {"enqueue", "unmark", "accepted"} => ~Declined(AfterSubmit(sc, t, q), t)
           /\ p = "mark" => ~AtScan(sc, t)
           /\ Apart(AfterSubmit(sc, t, q))
<1>1. /\ AfterSubmit(sc, t, q).todo = sc.todo \ {t}
      /\ q # "accepted" => AfterSubmit(sc, t, q).cur = t /\ AfterSubmit(sc, t, q).pc \in Scanning
      /\ q = "accepted" => AfterSubmit(sc, t, q).pc = "next"
      /\ AfterSubmit(sc, t, q).pc \in Marked <=> q \in Marked
  BY AfterSubmitState
<1>2. sc.pc \notin {"release", "off", "wait"} /\ (sc.pc # "next" => sc.cur = t)
  BY DEF InSubmit
<1>3. q \in {"enqueue", "unmark", "accepted", "declined"}
  BY DEF SubmitOutcomes
<1> QED
  BY <1>1, <1>2, <1>3 DEF ListedBy, Declined, Scanning, InSubmit, Marked, AtScan, Apart

LEMMA HandsCare ==
    ASSUME CareInv, Undisturbed, NEW i \in Instances, NEW t \in Txs,
           NEW p \in InSubmit, NEW q \in SubmitOutcomes,
           SubmitStep(i, t, p, q), Hands(i, t, p, q),
           UNCHANGED <<row, phase, worker, client>>, phase[i] = "up",
           recovery[i].pc # "wait" \/ recovery' = recovery
    PROVE  \A u \in Txs : Care(u)'
<1>1. /\ TypeOK /\ PlaceInv /\ recovery \in [Instances -> Scan] /\ scan \in [Instances -> Scan]
      /\ NoInstance \notin Instances
      /\ \A u \in Txs : Care(u)
  BY DispatchAssumption DEF CareInv, PlaceInv, TypeInv, TypeOK
<1>2. /\ \A j \in Instances, u \in Txs : j # i \/ u # t => (Waits(j, u)' <=> Waits(j, u))
      /\ \/ q \in {"enqueue", "unmark"} /\ queue' = queue
         \/ p = "mark" /\ q = "declined" /\ UNCHANGED <<queue, active>> /\ t \in active[i]
         \/ q = "accepted" /\ Waits(i, t)'
         \/ p = "unmark" /\ q = "declined" /\ t \in turned'
      /\ turned \subseteq turned'
  BY <1>1, SubmitMoves DEF SubmitStep, SubmitMarks, SubmitSkips, SubmitEnqueues,
                           SubmitFindsFull, SubmitUnmarks, LetGo
<1>3. /\ \A j \in Instances, u \in Txs : Leaving(j, u)' <=> Leaving(j, u)
      /\ \A j \in Instances, u \in Txs : j # i \/ u # t => (Has(j, u)' <=> Has(j, u))
      /\ queue' = queue => (Has(i, t)' <=> Has(i, t))
      /\ Waits(i, t)' => Has(i, t)'
  BY <1>2 DEF Leaving, Has, Waits
<1>4. /\ \A j \in Instances, u \in Txs :
            /\ j # i \/ u # t => /\ ListedBy(recovery'[j], u) <=> ListedBy(recovery[j], u)
                                 /\ Declined(recovery'[j], u) <=> Declined(recovery[j], u)
                                 /\ ListedBy(scan'[j], u) <=> ListedBy(scan[j], u)
                                 /\ Declined(scan'[j], u) <=> Declined(scan[j], u)
            /\ Late(j, u)' => Late(j, u)
      /\ \/ /\ ListedBy(recovery[i], t) /\ ~Declined(recovery[i], t)
            /\ ListedBy(recovery'[i], t) <=> q # "accepted"
            /\ q \in {"enqueue", "unmark", "accepted"} => ~Declined(recovery'[i], t)
            /\ p = "mark" => ~AtScan(recovery[i], t)
            /\ scan' = scan
         \/ /\ ListedBy(scan[i], t) /\ ~Declined(scan[i], t)
            /\ ListedBy(scan'[i], t) <=> q # "accepted"
            /\ q \in {"enqueue", "unmark", "accepted"} => ~Declined(scan'[i], t)
            /\ p = "mark" => ~AtScan(scan[i], t)
            /\ recovery' = recovery
  <2>1. CASE /\ scan' = scan /\ recovery' = [recovery EXCEPT ![i] = AfterSubmit(recovery[i], t, q)]
             /\ \/ recovery[i].pc = "next" /\ p = "mark" /\ t \in recovery[i].todo
                \/ recovery[i].pc = p /\ recovery[i].cur = t
    <3>1. recovery'[i] = AfterSubmit(recovery[i], t, q) /\ \A j \in Instances \ {i} : recovery'[j] = recovery[j]
      BY <1>1, <2>1
    <3>2. \A j \in Instances, u \in Txs : Late(j, u)' => Late(j, u)
      BY <2>1 DEF Late
    <3> QED
      BY <1>1, <2>1, <3>1, <3>2, HandedOver
  <2>2. CASE /\ recovery' = recovery /\ scan' = [scan EXCEPT ![i] = AfterSubmit(scan[i], t, q)]
             /\ scan[i].pc = p /\ scan[i].cur = t
    <3>1. scan'[i] = AfterSubmit(scan[i], t, q) /\ \A j \in Instances \ {i} : scan'[j] = scan[j]
      BY <1>1, <2>2
    <3>2. scan'[i].todo = scan[i].todo \ {t} /\ scan'[i].seen = scan[i].seen
      BY <1>1, <3>1, AfterSubmitState, SeenStays
    <3>3. \A j \in Instances, u \in Txs : Late(j, u)' => Late(j, u)
      BY <3>1, <3>2 DEF Late
    <3> QED
      BY <1>1, <2>2, <3>1, <3>3, HandedOver
  <2> QED
    BY <2>1, <2>2 DEF Hands
<1>5. Unlooked => Unlooked'
  <2>1. ASSUME NEW j \in Instances, phase[j] = "down" \/ recovery[j].pc = "wait"
        PROVE  Unlooked'
    <3>1. recovery'[j] = recovery[j]
      <4>1. CASE j = i
        BY <2>1, <4>1
      <4>2. CASE j # i
        BY <1>1, <4>2 DEF Hands
      <4> QED
        BY <4>1, <4>2
    <3> QED
      BY <2>1, <3>1 DEF Unlooked
  <2> QED
    BY <2>1 DEF Unlooked
<1>6. \A j \in Instances, u \in Txs : j # i \/ u # t => Same(j, u)
  BY <1>3, <1>4 DEF Same
<1>7. ASSUME NEW u \in Txs \ {t}
      PROVE  Care(u)'
  BY <1>1, <1>2, <1>5, <1>6, CareFrame DEF SameLock
<1>8. Care(t)'
  <2>1. Lists(i, t) /\ row[t].status # "none"
    BY <1>1, <1>4 DEF Lists, Touches, Care
  <2>2. SUFFICES ASSUME Undecided(t)' PROVE InHands(t)'
    BY <2>1 DEF Care
  <2>3. Undecided(t) /\ t \notin turned'
    BY <1>2, <2>2 DEF Undecided
  <2>4. Held(i, t)
    BY <1>1, <2>1, <2>3 DEF Care, Left, InHands, Kept, Held, Alone, Touches
  <2>5. /\ \A j \in Instances \ {i} : /\ Touches(j, t)' <=> Touches(j, t)
                                      /\ Lists(j, t)' <=> Lists(j, t)
    BY <1>6, SameTouches
  <2>6. (Alone(i, t) => Alone(i, t)') /\ \A j \in Instances \ {i} : ~Lists(j, t)'
    BY <2>4, <2>5 DEF Alone, Held
  <2>7. CASE q \in {"enqueue", "unmark"} /\ queue' = queue
    <3>1. Same(i, t)
      BY <1>3, <1>4, <2>7 DEF Same
    <3> QED
      BY <1>6, <2>4, <3>1, HandsFrame DEF InHands, SameLock
  <2>8. CASE q = "accepted" /\ Waits(i, t)'
    <3>1. Has(i, t)' /\ ~Lists(i, t)'
      BY <1>3, <1>4, <2>4, <2>8 DEF Held, Lists
    <3>2. Held(i, t)'
      BY <1>3, <2>4, <2>6, <3>1 DEF Held, Lists
    <3> QED
      BY <3>2 DEF InHands
  <2>9. CASE p = "mark" /\ q = "declined" /\ UNCHANGED <<queue, active>> /\ t \in active[i]
    <3>1. Has(i, t)
      BY <1>1, <1>4, <2>4, <2>9, MarkedSomewhere, ListedIf DEF Has, Held
    <3>2. Has(i, t)' /\ Alone(i, t)'
      BY <1>3, <2>1, <2>4, <2>6, <2>9, <3>1 DEF Held
    <3>3. ~(ListedBy(recovery'[i], t) /\ ListedBy(scan'[i], t))
      BY <1>4, <2>4 DEF Held
    <3>4. Held(i, t)'
      BY <1>3, <2>4, <2>6, <3>2, <3>3 DEF Held
    <3> QED
      BY <3>4 DEF InHands
  <2> QED
    BY <1>2, <2>3, <2>7, <2>8, <2>9
<1> QED
  BY <1>7, <1>8

(***************************************************************************)
(* A scan of process i gives back the lease of what Submit declined: the   *)
(* process has it already, in the queue or at a worker, which claims it.   *)
(***************************************************************************)
LEMMA GivenBack ==
    ASSUME NEW sc \in Scan, sc.pc = "release", Apart(sc), NEW after,
           after = [sc EXCEPT !.pc = "next", !.cur = 0]
    PROVE  /\ \A u \in Txs : u # sc.cur => (ListedBy(after, u) <=> ListedBy(sc, u))
           /\ \A u \in Txs : u # sc.cur => ~Declined(sc, u)
           /\ \A u \in Txs : ~Declined(after, u)
           /\ sc.cur \in Txs => /\ Declined(sc, sc.cur) /\ ListedBy(sc, sc.cur)
                                /\ ~ListedBy(after, sc.cur)
           /\ Apart(after)
<1>1. after.pc = "next" /\ after.todo = sc.todo
  BY HandEmpty
<1> QED
  BY <1>1 DEF ListedBy, Declined, Apart, Scanning, InSubmit

LEMMA ReleaseCare ==
    ASSUME CareInv, Undisturbed, NEW i \in Instances, NEW c, phase[i] = "up",
           ReleaseTransaction(i, c), UNCHANGED <<phase, queue, worker, client, turned>>,
           \/ /\ recovery[i].pc = "release" /\ c = recovery[i].cur /\ scan' = scan
              /\ recovery' = [recovery EXCEPT ![i] = [recovery[i] EXCEPT !.pc = "next", !.cur = 0]]
           \/ /\ scan[i].pc = "release" /\ c = scan[i].cur /\ recovery' = recovery
              /\ scan' = [scan EXCEPT ![i] = [scan[i] EXCEPT !.pc = "next", !.cur = 0]]
    PROVE  \A u \in Txs : Care(u)'
<1>1. /\ TypeOK /\ recovery \in [Instances -> Scan] /\ scan \in [Instances -> Scan]
      /\ NoInstance \notin Instances /\ row \in [Txs -> Row]
      /\ \A u \in Txs : Care(u)
      /\ Apart(recovery[i]) /\ Apart(scan[i])
  BY DispatchAssumption DEF CareInv, PlaceInv, TypeInv, TypeOK
<1>2. /\ \A u \in Txs : row'[u].status = row[u].status
      /\ \A u \in Txs \ {c} : row'[u] = row[u]
      /\ c \in Txs /\ row[c].lockedBy = i => row'[c].lockedBy = NoInstance
  BY <1>1, ReleaseRows
<1>3. \A j \in Instances, u \in Txs : (Has(j, u)' <=> Has(j, u)) /\ (Leaving(j, u)' <=> Leaving(j, u))
  BY DEF Has, Leaving, Waits
<1>4. /\ \A j \in Instances, u \in Txs :
            /\ j # i \/ u # c => /\ ListedBy(recovery'[j], u) <=> ListedBy(recovery[j], u)
                                 /\ Declined(recovery'[j], u) <=> Declined(recovery[j], u)
                                 /\ ListedBy(scan'[j], u) <=> ListedBy(scan[j], u)
                                 /\ Declined(scan'[j], u) <=> Declined(scan[j], u)
            /\ Late(j, u)' => Late(j, u)
      /\ c \in Txs => \/ /\ Declined(recovery[i], c) /\ ListedBy(recovery[i], c)
                         /\ ~ListedBy(recovery'[i], c) /\ scan' = scan
                      \/ /\ Declined(scan[i], c) /\ ListedBy(scan[i], c)
                         /\ ~ListedBy(scan'[i], c) /\ recovery' = recovery
      /\ \A j \in Instances : recovery'[j].pc = "wait" <=> recovery[j].pc = "wait"
  <2>1. CASE /\ recovery[i].pc = "release" /\ c = recovery[i].cur /\ scan' = scan
             /\ recovery' = [recovery EXCEPT ![i] = [recovery[i] EXCEPT !.pc = "next", !.cur = 0]]
    <3>1. /\ recovery'[i] = [recovery[i] EXCEPT !.pc = "next", !.cur = 0] /\ recovery'[i].pc = "next"
          /\ \A j \in Instances \ {i} : recovery'[j] = recovery[j]
      BY <1>1, <2>1, HandEmpty
    <3>2. \A j \in Instances, u \in Txs : Late(j, u)' => Late(j, u)
      BY <1>2, <2>1 DEF Late
    <3> QED
      BY <1>1, <2>1, <3>1, <3>2, GivenBack
  <2>2. CASE /\ scan[i].pc = "release" /\ c = scan[i].cur /\ recovery' = recovery
             /\ scan' = [scan EXCEPT ![i] = [scan[i] EXCEPT !.pc = "next", !.cur = 0]]
    <3>1. /\ scan'[i] = [scan[i] EXCEPT !.pc = "next", !.cur = 0]
          /\ \A j \in Instances \ {i} : scan'[j] = scan[j]
      BY <1>1, <2>2
    <3>2. scan'[i].todo = scan[i].todo /\ scan'[i].seen = scan[i].seen
      BY <1>1, <3>1 DEF Scan
    <3>3. \A j \in Instances, u \in Txs : Late(j, u)' => Late(j, u)
      BY <1>2, <3>1, <3>2 DEF Late
    <3> QED
      BY <1>1, <2>2, <3>1, <3>3, GivenBack
  <2> QED
    BY <2>1, <2>2
<1>5. Unlooked => Unlooked'
  BY <1>4 DEF Unlooked
<1>6. \A j \in Instances, u \in Txs : j # i \/ u # c => Same(j, u)
  BY <1>3, <1>4 DEF Same
<1>7. ASSUME NEW u \in Txs \ {c}
      PROVE  Care(u)'
  BY <1>1, <1>2, <1>5, <1>6, CareFrame DEF SameLock
<1>8. ASSUME c \in Txs
      PROVE  Care(c)'
  <2>1. Lists(i, c) /\ row[c].status # "none"
    BY <1>1, <1>4, <1>8 DEF Lists, Touches, Care
  <2>2. SUFFICES ASSUME Undecided(c)' PROVE InHands(c)'
    BY <1>2, <1>8, <2>1 DEF Care
  <2>3. Undecided(c)
    BY <1>2, <1>8, <2>2 DEF Undecided
  <2>4. Held(i, c)
    BY <1>1, <1>8, <2>1, <2>3 DEF Care, Left, InHands, Kept, Held, Alone, Touches
  <2>5. \A j \in Instances \ {i} : Touches(j, c)' <=> Touches(j, c)
    BY <1>6, <1>8, SameTouches
  <2>6. Has(i, c) /\ Alone(i, c)
    BY <1>4, <1>8, <2>1, <2>4 DEF Held
  <2>7. Alone(i, c)'
    BY <2>5, <2>6 DEF Alone
  <2>8. ~Lists(i, c)'
    BY <1>4, <1>8, <2>4 DEF Held, Lists
  <2>9. Kept(i, c)'
    BY <1>2, <1>3, <1>8, <2>4, <2>6, <2>7, <2>8 DEF Kept, Held
  <2> QED
    BY <2>9 DEF InHands
<1> QED
  BY <1>7, <1>8

LEMMA RecoveryCare ==
    ASSUME CareInv, Undisturbed, NEW i \in Instances, Recovery(i)
    PROVE  \A u \in Txs : Care(u)'
<1>1. /\ TypeOK /\ PlaceInv /\ row \in [Txs -> Row] /\ recovery \in [Instances -> Scan]
      /\ NoInstance \notin Instances
      /\ \A u \in Txs : Care(u)
      /\ phase[i] \in {"down", "up"}
      /\ NothingListed(recovery[i])
  BY DispatchAssumption DEF CareInv, PlaceInv, LeaseInv, TypeInv, TypeOK, Undisturbed
<1>2. CASE RecoveryList(i)
  <2>1. PICK S \in SUBSET Recoverable :
          /\ LockAll(i, S) /\ recovery[i].pc = "wait"
          /\ recovery' = [recovery EXCEPT ![i] = [ScanAt("next") EXCEPT !.todo = S]]
          /\ LetGo({t \in Txs \ S : Orphan(t)})
    BY <1>2 DEF RecoveryList, Oldest
  <2>2. UNCHANGED <<phase, queue, active, worker, client, scan>> /\ turned \subseteq turned'
    BY <1>2 DEF RecoveryList, LetGo
  <2>3. /\ [ScanAt("next") EXCEPT !.todo = S].todo = S
        /\ [ScanAt("next") EXCEPT !.todo = S].pc = "next"
    BY DEF ScanAt
  <2>4. /\ recovery'[i].todo = S /\ recovery'[i].pc = "next"
        /\ \A j \in Instances \ {i} : recovery'[j] = recovery[j]
    BY <1>1, <2>1, <2>3
  <2>5. \A j \in Instances, u \in Txs : (Has(j, u)' <=> Has(j, u)) /\ (Leaving(j, u)' <=> Leaving(j, u))
    BY <2>2 DEF Has, Leaving, Waits
  <2>6. /\ \A u \in Txs : row'[u].status = row[u].status
        /\ \A u \in S : row'[u].lockedBy = i /\ ~row'[u].expired
        /\ \A u \in Txs \ S : row'[u] = row[u]
    BY <1>1, <2>1, LockedType DEF LockAll, Recoverable
  <2>7. \A j \in Instances, u \in Txs : Late(j, u)' => Late(j, u)
    BY <2>2, <2>6 DEF Late
  <2>8. /\ \A u \in Txs : ~ListedBy(recovery[i], u) /\ ~Declined(recovery[i], u)
        /\ \A u \in Txs : ~Declined(recovery'[i], u)
        /\ \A u \in Txs : ListedBy(recovery'[i], u) <=> u \in S
    BY <1>1, <2>1, <2>4 DEF ListedBy, Declined, NothingListed
  <2>9. ASSUME NEW u \in S
        PROVE  Care(u)'
    <3>1. u \in Txs /\ row[u].status \in ActiveStatus /\ LockFree(u)
      BY DEF Recoverable
    <3>2. /\ Lists(i, u)' /\ \A j \in Instances \ {i} : Lists(j, u)' <=> Lists(j, u)
      BY <2>2, <2>4, <2>8, <3>1 DEF Lists
    <3>3. ASSUME ~Lists(i, u)
          PROVE  /\ ~(ListedBy(recovery'[i], u) /\ ListedBy(scan'[i], u))
                 /\ ~Declined(recovery'[i], u) /\ ~Declined(scan'[i], u)
                 /\ ~Late(i, u)'
      BY <2>2, <2>7, <2>8, <3>1, <3>3 DEF Lists, Late, ListedBy, Declined
    <3> QED
      BY <1>1, <2>2, <2>5, <2>6, <3>1, <3>2, <3>3, ListCare
  <2>10. ASSUME NEW u \in Txs \ S
         PROVE  Care(u)'
    <3>1. \A j \in Instances : Same(j, u)
      BY <2>2, <2>4, <2>5, <2>7, <2>8 DEF Same
    <3>2. row[u].status = "none" => \A j \in Instances : ~Touches(j, u)'
      BY <1>1, <3>1, SameTouches DEF Care
    <3>3. ASSUME Undecided(u)'
          PROVE  InHands(u)'
      <4>1. Undecided(u) /\ u \notin turned'
        BY <2>2, <2>6, <3>3 DEF Undecided
      <4>2. ~Left(u)
        <5>1. SUFFICES ASSUME Left(u) PROVE FALSE
          OBVIOUS
        <5>2. \A j \in Instances : ~Touches(j, u) /\ row[u].lockedBy # j
          BY <5>1 DEF Left
        <5>3. \A j \in Instances : u \notin active[j]
          BY <1>1, <5>2, MarkedSomewhere, ListedIf DEF Touches, Has, Lists
        <5>4. Orphan(u)
          BY <4>1, <5>2, <5>3 DEF Orphan, Undecided
        <5> QED
          BY <2>1, <4>1, <5>4 DEF LetGo
      <4> QED
        BY <1>1, <2>6, <3>1, <4>1, <4>2, HandsFrame DEF Care, SameLock
    <3> QED
      BY <2>6, <3>2, <3>3 DEF Care
  <2> QED
    BY <2>9, <2>10
<1>3. CASE RecoverySubmit(i)
  <2>1. PICK t \in Txs, p \in InSubmit, q \in SubmitOutcomes :
          /\ \/ recovery[i].pc = "next" /\ p = "mark" /\ t \in recovery[i].todo
             \/ recovery[i].pc = p /\ recovery[i].cur = t
          /\ SubmitStep(i, t, p, q)
          /\ recovery' = [recovery EXCEPT ![i] = AfterSubmit(recovery[i], t, q)]
    BY <1>3 DEF RecoverySubmit
  <2>2. UNCHANGED <<row, phase, worker, client, scan>>
    BY <1>3 DEF RecoverySubmit
  <2>3. recovery[i].pc # "wait" /\ Hands(i, t, p, q) /\ phase[i] = "up"
    BY <1>1, <1>3, <2>1, <2>2 DEF Hands, InSubmit, RecoverySubmit, Live
  <2> QED
    BY <2>1, <2>2, <2>3, HandsCare
<1>4. CASE RecoveryRelease(i)
  <2>1. PICK c : c = recovery[i].cur
    OBVIOUS
  <2>2. /\ ReleaseTransaction(i, c) /\ recovery[i].pc = "release"
        /\ recovery' = [recovery EXCEPT ![i] = [recovery[i] EXCEPT !.pc = "next", !.cur = 0]]
        /\ UNCHANGED <<phase, queue, worker, client, scan, turned>> /\ phase[i] = "up"
    BY <1>1, <1>4, <2>1 DEF RecoveryRelease, Live
  <2> QED
    BY <2>1, <2>2, ReleaseCare
<1>5. CASE RecoveryEnds(i)
  <2>1. /\ recovery[i].pc = "next" /\ recovery[i].todo = {} /\ phase[i] = "up"
        /\ recovery' = [recovery EXCEPT ![i] = ScanAt("off")]
        /\ UNCHANGED <<row, phase, queue, worker, client, scan, turned>>
    BY <1>5 DEF RecoveryEnds
  <2>2. /\ recovery'[i].pc = "off" /\ recovery'[i].todo = {}
        /\ \A j \in Instances \ {i} : recovery'[j] = recovery[j]
    BY <1>1, <2>1, FreshScan
  <2>3. \A j \in Instances, u \in Txs : /\ ListedBy(recovery'[j], u) <=> ListedBy(recovery[j], u)
                                        /\ Declined(recovery'[j], u) <=> Declined(recovery[j], u)
    BY <2>1, <2>2 DEF ListedBy, Declined
  <2>4. \A j \in Instances, u \in Txs : Same(j, u)
    BY <2>1, <2>3 DEF Same, Has, Leaving, Waits, Late
  <2>5. Unlooked => Unlooked'
    BY <2>1, <2>2 DEF Unlooked
  <2> QED
    BY <1>1, <2>1, <2>4, <2>5, CareFrame DEF SameLock
<1>6. ~RecoveryQuits(i)
  BY <1>1 DEF RecoveryQuits
<1> QED
  BY <1>2, <1>3, <1>4, <1>5, <1>6 DEF Recovery

LEMMA TimeoutScanCare ==
    ASSUME CareInv, Undisturbed, NEW i \in Instances, TimeoutScan(i)
    PROVE  \A u \in Txs : Care(u)'
<1>1. /\ TypeOK /\ InHand /\ row \in [Txs -> Row] /\ scan \in [Instances -> Scan]
      /\ NoInstance \notin Instances
      /\ \A u \in Txs : Care(u)
      /\ phase[i] \in {"down", "up"}
      /\ NothingListed(scan[i])
  BY DispatchAssumption DEF CareInv, PlaceInv, LeaseInv, TypeInv, TypeOK, Undisturbed
<1>2. UNCHANGED <<phase, worker, client, recovery>> /\ (Unlooked => Unlooked')
  BY DEF TimeoutScan, ScanList, ScanCAS, ScanSubmit, ScanRelease, ScanEnds, Unlooked
<1>3. CASE ScanList(i)
  <2>1. PICK S \in SUBSET TimeoutDue :
          /\ LockAll(i, S) /\ scan[i].pc = "wait"
          /\ scan' = [scan EXCEPT ![i] = [ScanAt("next") EXCEPT !.todo = S,
                             !.seen = {t \in S : row[t].status = "running"}]]
    BY <1>3 DEF ScanList
  <2>2. queue' = queue /\ turned' = turned
    BY <1>3 DEF ScanList
  <2>3. /\ scan'[i].todo = S /\ scan'[i].pc = "next"
        /\ scan'[i].seen = {t \in S : row[t].status = "running"}
        /\ \A j \in Instances \ {i} : scan'[j] = scan[j]
    <3>1. PICK new : new = [ScanAt("next") EXCEPT !.todo = S,
                                     !.seen = {t \in S : row[t].status = "running"}]
      OBVIOUS
    <3>2. new.todo = S /\ new.pc = "next" /\ new.seen = {t \in S : row[t].status = "running"}
      BY <3>1 DEF ScanAt
    <3> QED
      BY <1>1, <2>1, <3>1, <3>2
  <2>4. \A j \in Instances, u \in Txs : (Has(j, u)' <=> Has(j, u)) /\ (Leaving(j, u)' <=> Leaving(j, u))
    BY <1>2, <2>2 DEF Has, Leaving, Waits
  <2>5. /\ \A u \in Txs : row'[u].status = row[u].status
        /\ \A u \in S : row'[u].lockedBy = i /\ ~row'[u].expired
        /\ \A u \in Txs \ S : row'[u] = row[u]
    <3>1. S \subseteq Txs
      BY DispatchAssumption DEF TimeoutDue
    <3> QED
      BY <1>1, <2>1, <3>1, LockedType DEF LockAll
  <2>6. \A u \in Txs : ~Late(i, u)'
    <3>1. \A u \in S : row'[u].status = IF u \in scan'[i].seen THEN "running" ELSE "compensating"
      BY <2>3, <2>5, DispatchAssumption DEF TimeoutDue
    <3> QED
      BY <2>3, <3>1 DEF Late
  <2>7. \A j \in Instances \ {i}, u \in Txs : Late(j, u)' => Late(j, u)
    BY <2>3, <2>5 DEF Late
  <2>8. /\ \A u \in Txs : ~ListedBy(scan[i], u) /\ ~Declined(scan[i], u)
        /\ \A u \in Txs : ~Declined(scan'[i], u)
        /\ \A u \in Txs : ListedBy(scan'[i], u) <=> u \in S
    BY <1>1, <2>1, <2>3 DEF ListedBy, Declined, NothingListed
  <2>9. ASSUME NEW u \in S
        PROVE  Care(u)'
    <3>1. u \in Txs /\ row[u].status \in ActiveStatus /\ LockFree(u)
      BY DispatchAssumption DEF TimeoutDue, ActiveStatus
    <3>2. /\ Lists(i, u)' /\ \A j \in Instances \ {i} : Lists(j, u)' <=> Lists(j, u)
      BY <1>2, <2>3, <2>8, <3>1 DEF Lists
    <3>3. ASSUME ~Lists(i, u)
          PROVE  /\ ~(ListedBy(recovery'[i], u) /\ ListedBy(scan'[i], u))
                 /\ ~Declined(recovery'[i], u) /\ ~Declined(scan'[i], u)
                 /\ ~Late(i, u)'
      BY <1>2, <2>6, <2>8, <3>1, <3>3, ListedIf DEF Lists
    <3> QED
      BY <1>1, <2>2, <2>4, <2>5, <3>1, <3>2, <3>3, ListCare
  <2>10. ASSUME NEW u \in Txs \ S
         PROVE  Care(u)'
    <3>1. \A j \in Instances : Same(j, u)
      BY <1>2, <2>3, <2>4, <2>6, <2>7, <2>8 DEF Same
    <3> QED
      BY <1>1, <1>2, <2>2, <2>5, <3>1, CareFrame DEF SameLock
  <2> QED
    BY <2>9, <2>10
<1>4. CASE ScanCAS(i)
  <2>1. PICK t \in scan[i].todo, place \in {"mark", "release"} :
          /\ scan[i].pc = "next"
          /\ scan' = [scan EXCEPT ![i] = TakenOff(scan[i], t, place)]
          /\ \/ /\ place = "mark"
                /\ row[t].status \in {"running", "compensating"}
                /\ row' = [row EXCEPT ![t] = [row[t] EXCEPT !.status = "compensating"]]
             \/ place = "release" /\ row' = row /\ Late(i, t)
    BY <1>1, <1>4 DEF ScanCAS, TakenOff, Late
  <2>2. queue' = queue /\ turned' = turned
    BY <1>4 DEF ScanCAS
  <2>3. /\ scan'[i].pc = place /\ scan'[i].cur = t /\ scan'[i].todo = scan[i].todo \ {t}
        /\ scan'[i].seen = scan[i].seen \ {t}
        /\ \A j \in Instances \ {i} : scan'[j] = scan[j]
        /\ t \in Txs
    <3>1. TakenOff(scan[i], t, place).seen = scan[i].seen \ {t}
      BY <1>1 DEF TakenOff, Scan
    <3> QED
      BY <1>1, <2>1, <3>1, NextOfScan
  <2>4. /\ \A u \in Txs \ {t} : row'[u] = row[u]
        /\ SameLock(t)
        /\ row[t].status = "none" <=> row'[t].status = "none"
        /\ row'[t].status \in ActiveStatus => row[t].status \in ActiveStatus
    <3>1. row[t] \in Row
      BY <1>1, <2>3
    <3> QED
      BY <1>1, <2>1, <2>3, <3>1 DEF SameLock, Row, ActiveStatus
  <2>5. \A j \in Instances, u \in Txs : (Has(j, u)' <=> Has(j, u)) /\ (Leaving(j, u)' <=> Leaving(j, u))
    BY <1>2, <2>2 DEF Has, Leaving, Waits
  <2>6. \A j \in Instances, u \in Txs : /\ ListedBy(scan'[j], u) <=> ListedBy(scan[j], u)
                                        /\ u # t => (Declined(scan'[j], u) <=> Declined(scan[j], u))
                                        /\ u # t => (Late(j, u)' => Late(j, u))
    BY <2>1, <2>3, <2>4 DEF ListedBy, Declined, Late
  <2>7. ASSUME NEW u \in Txs \ {t}
        PROVE  Care(u)'
    <3>1. \A j \in Instances : Same(j, u)
      BY <1>2, <2>5, <2>6 DEF Same
    <3> QED
      BY <1>1, <1>2, <2>2, <2>4, <3>1, CareFrame DEF SameLock
  <2>8. Care(t)'
    <3>1. /\ \A j \in Instances : (Touches(j, t)' <=> Touches(j, t)) /\ (Lists(j, t)' <=> Lists(j, t))
          /\ Lists(i, t) /\ row[t].status # "none"
      BY <1>1, <1>2, <2>3, <2>5, <2>6 DEF Touches, Lists, ListedBy, Care
    <3>2. SUFFICES ASSUME Undecided(t)' PROVE InHands(t)'
      BY <2>4, <3>1 DEF Care
    <3>3. Undecided(t)
      BY <2>2, <2>4, <3>2 DEF Undecided
    <3>4. Held(i, t)
      BY <1>1, <2>3, <3>1, <3>3 DEF Care, Left, InHands, Kept, Held, Alone, Touches
    <3>5. (Alone(i, t) => Alone(i, t)') /\ \A j \in Instances \ {i} : ~Lists(j, t)'
      BY <3>1, <3>4 DEF Alone, Held
    <3>6. ~Late(i, t)' /\ (Declined(scan'[i], t) => Has(i, t)')
      BY <2>1, <2>3, <2>5, <3>4 DEF Late, Declined, Held
    <3>7. ~(ListedBy(recovery'[i], t) /\ ListedBy(scan'[i], t))
      BY <1>2, <2>3, <2>6, <3>4 DEF Held
    <3>8. Declined(recovery'[i], t) => Has(i, t)'
      BY <1>2, <2>3, <2>5, <3>4 DEF Held
    <3>9. Held(i, t)'
      BY <2>3, <2>4, <2>5, <3>1, <3>4, <3>5, <3>6, <3>7, <3>8 DEF Held, SameLock
    <3> QED
      BY <3>9 DEF InHands
  <2> QED
    BY <2>7, <2>8
<1>5. CASE ScanSubmit(i)
  <2>1. PICK q \in SubmitOutcomes :
          /\ SubmitStep(i, scan[i].cur, scan[i].pc, q)
          /\ scan' = [scan EXCEPT ![i] = AfterSubmit(scan[i], scan[i].cur, q)]
    BY <1>5 DEF ScanSubmit
  <2>2. scan[i].pc \in InSubmit /\ row' = row /\ phase[i] = "up"
    BY <1>1, <1>5, <2>1 DEF ScanSubmit, SubmitStep, InSubmit, Live
  <2>3. PICK t \in Txs, p \in InSubmit : t = scan[i].cur /\ p = scan[i].pc
    BY <1>1, <2>2 DEF InHand, Scanning
  <2>4. Hands(i, t, p, q)
    BY <1>2, <2>1, <2>3 DEF Hands
  <2> QED
    BY <1>2, <2>1, <2>2, <2>3, <2>4, HandsCare
<1>6. CASE ScanRelease(i)
  <2>1. PICK c : c = scan[i].cur
    OBVIOUS
  <2>2. /\ ReleaseTransaction(i, c) /\ scan[i].pc = "release"
        /\ scan' = [scan EXCEPT ![i] = [scan[i] EXCEPT !.pc = "next", !.cur = 0]]
        /\ UNCHANGED <<phase, queue, worker, client, recovery, turned>> /\ phase[i] = "up"
    BY <1>1, <1>6, <2>1 DEF ScanRelease, Live
  <2> QED
    BY <2>1, <2>2, ReleaseCare
<1>7. CASE ScanEnds(i)
  <2>1. /\ scan[i].pc = "next" /\ scan[i].todo = {}
        /\ scan' = [scan EXCEPT ![i] = ScanAt("wait")]
        /\ UNCHANGED <<row, queue, turned>>
    BY <1>7 DEF ScanEnds
  <2>2. /\ scan'[i].pc = "wait" /\ scan'[i].todo = {}
        /\ \A j \in Instances \ {i} : scan'[j] = scan[j]
    BY <1>1, <2>1, FreshScan
  <2>3. \A j \in Instances, u \in Txs : /\ ListedBy(scan'[j], u) <=> ListedBy(scan[j], u)
                                        /\ Declined(scan'[j], u) <=> Declined(scan[j], u)
                                        /\ Late(j, u)' => Late(j, u)
    BY <2>1, <2>2 DEF ListedBy, Declined, Late
  <2>4. \A j \in Instances, u \in Txs : Same(j, u)
    BY <1>2, <2>1, <2>3 DEF Same, Has, Leaving, Waits
  <2> QED
    BY <1>1, <1>2, <2>1, <2>4, CareFrame DEF SameLock
<1> QED
  BY <1>3, <1>4, <1>5, <1>6, <1>7 DEF TimeoutScan

-----------------------------------------------------------------------------
(* A process comes up: it has nothing in hand, and will look for what is left. *)
LEMMA StartCare ==
    ASSUME CareInv, Undisturbed, NEW i \in Instances, Start(i)
    PROVE  \A u \in Txs : Care(u)'
<1>1. /\ TypeOK /\ InHand /\ recovery \in [Instances -> Scan] /\ scan \in [Instances -> Scan]
      /\ \A u \in Txs : Care(u) /\ row[u].lockedBy # i
  BY DEF CareInv, PlaceInv, LeaseInv, TypeInv, TypeOK, Start
<1>2. /\ UNCHANGED <<row, queue, active, worker, client, turned>>
      /\ recovery'[i] = ScanAt("wait") /\ scan'[i] = ScanAt("wait")
      /\ \A j \in Instances \ {i} : recovery'[j] = recovery[j] /\ scan'[j] = scan[j]
  BY <1>1 DEF Start
<1>3. \A j \in Instances, u \in Txs : (Has(j, u)' <=> Has(j, u)) /\ (Leaving(j, u)' <=> Leaving(j, u))
  BY <1>2 DEF Has, Leaving, Waits
<1>4. \A u \in Txs : ~Touches(i, u) \/ Lists(i, u)
  <2>1. Quiet(i) /\ ~Live(i) /\ \A u \in Txs : Placed(i, u)
    BY DEF CareInv, PlaceInv, Start, Live
  <2>2. \A u \in Txs : client[u].at # i /\ ~Waits(i, u) /\ ~AtWork(i, u)
    BY <2>1 DEF Quiet, Placed
  <2> QED
    BY <2>2 DEF Touches, Has, Leaving, AtWork
<1>5. recovery'[i].pc = "wait" /\ \A u \in Txs : /\ ~ListedBy(recovery'[i], u) /\ ~ListedBy(scan'[i], u)
                                                 /\ ~Declined(recovery'[i], u) /\ ~Declined(scan'[i], u)
                                                 /\ ~Late(i, u)'
  BY <1>2, FreshScan DEF ListedBy, Declined, Late
<1>6. Unlooked'
  BY <1>5 DEF Unlooked
<1>7. ASSUME NEW u \in Txs
      PROVE  Care(u)'
  <2>1. CASE Lists(i, u)
    <3>1. Touches(i, u) /\ ~Has(i, u)
      <4>1. ~Has(i, u)
        BY DEF CareInv, PlaceInv, Start, Live, Quiet, Placed, Has, AtWork
      <4> QED
        BY <2>1, <4>1 DEF Touches
    <3>2. ~Undecided(u) /\ row[u].status # "none"
      BY <1>1, <2>1, <3>1 DEF Care, Left, InHands, Kept, Held, Alone
    <3> QED
      BY <1>2, <3>2 DEF Care, Undecided
  <2>2. CASE ~Lists(i, u)
    <3>1. Same(i, u)
      BY <1>3, <1>5, <2>2, ListedIf DEF Same, Lists
    <3>2. \A j \in Instances \ {i} : Same(j, u)
      BY <1>2, <1>3 DEF Same, Late
    <3> QED
      BY <1>1, <1>2, <1>6, <3>1, <3>2, CareFrame DEF SameLock
  <2> QED
    BY <2>1, <2>2
<1> QED
  BY <1>7

(* A lease that runs out was nobody's: who holds one stands behind it. *)
LEMMA ExpiryCare ==
    ASSUME CareInv, Undisturbed, NEW t \in Txs, LeaseExpires(t)
    PROVE  \A u \in Txs : Care(u)'
<1>1. /\ TypeInv /\ TypeOK /\ LeaseInv /\ NoInstance \notin Instances
      /\ \A u \in Txs : Care(u)
  BY DispatchAssumption DEF CareInv, LeaseInv, TypeInv
<1>2. /\ UNCHANGED <<phase, queue, worker, recovery, scan, client, turned>>
      /\ row[t].lockedBy # NoInstance /\ ~InUse(t)
  BY DEF LeaseExpires, procVars
<1>3. /\ \A u \in Txs : row'[u].status = row[u].status /\ row'[u].lockedBy = row[u].lockedBy
      /\ \A u \in Txs \ {t} : row'[u] = row[u]
  BY <1>1, ExpiryTypes DEF LeaseExpires, TypeOK
<1>4. \A j \in Instances, u \in Txs : Same(j, u)
  BY <1>2, <1>3 DEF Same, Has, Leaving, Waits, Late
<1>5. Unlooked => Unlooked'
  BY <1>2 DEF Unlooked
<1>6. ASSUME NEW u \in Txs \ {t}
      PROVE  Care(u)'
  BY <1>1, <1>2, <1>3, <1>4, <1>5, <1>6, CareFrame DEF SameLock
<1>7. ~Undecided(t) \/ Left(t)
  <2>1. SUFFICES ASSUME Undecided(t), NEW k \in Instances, Held(k, t) PROVE FALSE
    BY <1>1, <1>2 DEF Care, InHands, Kept
  <2>2. phase[k] = "up" /\ row[t].lockedBy = k
    BY <1>1, <2>1 DEF Held, LeaseInv, Undisturbed
  <2>3. Backed(k, t)
    BY <1>1, <2>1, <2>2 DEF LeaseInv, LeaseIsBacked, Undecided
  <2> QED
    BY <1>2, <2>2, <2>3 DEF InUse, Live
<1>8. Care(t)'
  <2>1. \A j \in Instances : Touches(j, t)' <=> Touches(j, t)
    BY <1>4, SameTouches
  <2>2. row[t].status = "none" => \A j \in Instances : ~Touches(j, t)'
    BY <1>1, <2>1 DEF Care
  <2>3. Undecided(t)' => Left(t)'
    BY <1>2, <1>3, <1>5, <1>7, <2>1 DEF Undecided, Left
  <2> QED
    BY <1>3, <2>2, <2>3 DEF Care
<1> QED
  BY <1>6, <1>8

-----------------------------------------------------------------------------
(* No step lists what it takes in hand. *)
LEMMA ApartStep ==
    ASSUME CareInv, Next
    PROVE  \A i \in Instances : Apart(recovery'[i]) /\ Apart(scan'[i])
<1>1. /\ TypeOK /\ InHand /\ recovery \in [Instances -> Scan] /\ scan \in [Instances -> Scan]
      /\ \A j \in Instances : Apart(recovery[j]) /\ Apart(scan[j])
  BY DEF CareInv, PlaceInv, TypeInv, TypeOK
<1>2. \A place \in {"off", "wait", "next"} : Apart(ScanAt(place))
  BY FreshScan DEF Apart
<1>3. CASE \E i \in Instances : Recovery(i)
  <2>1. PICK i \in Instances : Recovery(i)
    BY <1>3
  <2>2. scan' = scan /\ \E new : recovery' = [recovery EXCEPT ![i] = new]
    <3>1. recovery'= [recovery EXCEPT ![i] = recovery'[i]]
      BY <1>1, <2>1 DEF Recovery, RecoveryList, RecoverySubmit, RecoveryRelease, RecoveryEnds, RecoveryQuits
    <3> QED
      BY <2>1, <3>1 DEF Recovery, RecoveryList, RecoverySubmit, RecoveryRelease, RecoveryEnds, RecoveryQuits
  <2>3. CASE RecoveryList(i)
    <3>1. recovery'[i].pc = "next"
      BY <1>1, <2>3 DEF RecoveryList, ScanAt
    <3> QED
      BY <1>1, <2>2, <3>1 DEF Apart, Scanning, InSubmit
  <2>4. CASE RecoverySubmit(i)
    <3>1. PICK t \in Txs, q \in SubmitOutcomes :
            recovery' = [recovery EXCEPT ![i] = AfterSubmit(recovery[i], t, q)]
      BY <2>4 DEF RecoverySubmit
    <3> QED
      BY <1>1, <2>2, <3>1, AfterSubmitState DEF Apart, Scanning, InSubmit
  <2>5. CASE RecoveryRelease(i)
    <3>1. recovery' = [recovery EXCEPT ![i] = [recovery[i] EXCEPT !.pc = "next", !.cur = 0]]
      BY <1>1, <2>5 DEF RecoveryRelease
    <3> QED
      BY <1>1, <2>2, <3>1, HandEmpty DEF Apart, Scanning, InSubmit
  <2>6. CASE RecoveryEnds(i) \/ RecoveryQuits(i)
    BY <1>1, <1>2, <2>2, <2>6 DEF RecoveryEnds, RecoveryQuits
  <2> QED
    BY <2>1, <2>3, <2>4, <2>5, <2>6 DEF Recovery
<1>4. CASE \E i \in Instances : TimeoutScan(i)
  <2>1. PICK i \in Instances : TimeoutScan(i)
    BY <1>4
  <2>2. recovery' = recovery
    BY <2>1 DEF TimeoutScan, ScanList, ScanCAS, ScanSubmit, ScanRelease, ScanEnds
  <2>3. CASE ScanList(i)
    <3>1. PICK S, R : scan' = [scan EXCEPT ![i] = [ScanAt("next") EXCEPT !.todo = S, !.seen = R]]
      BY <2>3 DEF ScanList
    <3>2. [ScanAt("next") EXCEPT !.todo = S, !.seen = R].pc = "next"
      BY DEF ScanAt
    <3> QED
      BY <1>1, <2>2, <3>1, <3>2 DEF Apart, Scanning, InSubmit
  <2>4. CASE ScanCAS(i)
    <3>1. PICK t \in scan[i].todo, place \in {"mark", "release"} :
            scan' = [scan EXCEPT ![i] = TakenOff(scan[i], t, place)]
      BY <2>4 DEF ScanCAS, TakenOff
    <3> QED
      BY <1>1, <2>2, <3>1, NextOfScan DEF Apart
  <2>5. CASE ScanSubmit(i)
    <3>1. PICK q \in SubmitOutcomes : /\ SubmitStep(i, scan[i].cur, scan[i].pc, q)
                                      /\ scan' = [scan EXCEPT ![i] = AfterSubmit(scan[i], scan[i].cur, q)]
      BY <2>5 DEF ScanSubmit
    <3>2. scan[i].cur \in Txs
      BY <1>1, <3>1 DEF SubmitStep, InHand, Scanning, InSubmit
    <3> QED
      BY <1>1, <2>2, <3>1, <3>2, AfterSubmitState DEF Apart, Scanning, InSubmit
  <2>6. CASE ScanRelease(i)
    <3>1. scan' = [scan EXCEPT ![i] = [scan[i] EXCEPT !.pc = "next", !.cur = 0]]
      BY <1>1, <2>6 DEF ScanRelease
    <3> QED
      BY <1>1, <2>2, <3>1, HandEmpty DEF Apart, Scanning, InSubmit
  <2>7. CASE ScanEnds(i)
    BY <1>1, <1>2, <2>2, <2>7 DEF ScanEnds
  <2> QED
    BY <2>1, <2>3, <2>4, <2>5, <2>6, <2>7 DEF TimeoutScan
<1>5. CASE \E i \in Instances : Start(i) \/ Stopped(i) \/ Crash(i)
  BY <1>1, <1>2, <1>5 DEF Start, Stopped, Crash, Forget
<1>6. CASE \/ \E i \in Instances, t \in Txs : Create(i, t) \/ Submit(i, t)
           \/ \E i \in Instances : Worker(i) \/ Stop(i)
           \/ \E t \in Txs : LeaseExpires(t)
  <2>1. UNCHANGED <<recovery, scan>>
    BY <1>6 DEF Create, Submit, Worker, TakeTask, Claim, Drive, DriveEnds, Release, Unmark,
                Stop, LeaseExpires, procVars
  <2> QED
    BY <1>1, <2>1
<1> QED
  BY <1>3, <1>4, <1>5, <1>6 DEF Next

LEMMA InitCare ==
    ASSUME Instances # {}
    PROVE  Init => CareInv
<1> SUFFICES ASSUME Init PROVE CareInv
  OBVIOUS
<1>1. PlaceInv /\ LeaseInv
  BY InitPlaces, InitLeases
<1>2. \A i \in Instances : /\ recovery[i] = ScanAt("off") /\ scan[i] = ScanAt("off")
                           /\ Apart(recovery[i]) /\ Apart(scan[i])
  BY FreshScan DEF Init, Apart
<1>3. Unlooked /\ \A i \in Instances : phase[i] = "down"
  BY DEF Init, Unlooked
<1>4. \A i \in Instances, t \in Txs : ~Touches(i, t)
  <2>1. NoInstance \notin Instances
    BY DispatchAssumption
  <2>2. \A i \in Instances, t \in Txs : ~Waits(i, t)
    <3>1. \A i \in Instances : Len(queue[i]) = 0
      BY DEF Init
    <3> QED
      BY <3>1 DEF Waits
  <2>3. \A i \in Instances, t \in Txs : ~Has(i, t) /\ ~Leaving(i, t)
    BY <2>1, <2>2 DEF Init, Has, Leaving, NoCall, Idle
  <2>4. \A i \in Instances, t \in Txs : ~Lists(i, t)
    BY <1>2, FreshScan DEF Lists, ListedBy
  <2> QED
    BY <2>3, <2>4 DEF Touches
<1>5. ASSUME NEW t \in Txs
      PROVE  Care(t)
  <2>1. row[t].lockedBy \notin Instances
    BY <1>1, <1>3 DEF LeaseInv
  <2> QED
    BY <1>3, <1>4, <2>1 DEF Care, Left
<1> QED
  BY <1>1, <1>2, <1>5 DEF CareInv

LEMMA CareStep == CareInv /\ [Next]_vars => CareInv'
<1> SUFFICES ASSUME CareInv, [Next]_vars PROVE CareInv'
  OBVIOUS
<1>1. PlaceInv' /\ LeaseInv'
  BY PlaceStep, LeaseStep DEF CareInv
<1>2. CASE UNCHANGED vars
  <2>1. /\ UNCHANGED <<row, phase, queue, worker, client, recovery, scan, turned>>
        /\ \A i \in Instances : Apart(recovery'[i]) /\ Apart(scan'[i])
    BY <1>2 DEF vars, procVars, CareInv
  <2>2. \A i \in Instances, t \in Txs : Same(i, t)
    BY <2>1 DEF Same, Has, Leaving, Waits, Late
  <2>3. Undisturbed' => Undisturbed /\ (Unlooked => Unlooked')
    BY <2>1 DEF Undisturbed, Unlooked
  <2>4. Undisturbed' => \A t \in Txs : Care(t)'
    BY <2>1, <2>2, <2>3, CareFrame DEF CareInv, SameLock
  <2> QED
    BY <1>1, <2>1, <2>4 DEF CareInv
<1>3. CASE Next
  <2>1. TypeOK
    BY DEF CareInv, LeaseInv, TypeInv
  <2>2. ASSUME Undisturbed'
        PROVE  \A t \in Txs : Care(t)'
    <3>1. CASE \E i \in Instances, t \in Txs : Create(i, t) \/ Submit(i, t)
      <4>1. Undisturbed
        BY <2>2, <3>1 DEF Create, Submit, Undisturbed
      <4> QED
        BY <3>1, <4>1, CreateCare, SubmitCare
    <3>2. CASE \E i \in Instances : Worker(i) \/ Recovery(i) \/ TimeoutScan(i)
      <4>1. Undisturbed
        BY <2>2, <3>2, GoroutinesKeep DEF Undisturbed
      <4> QED
        BY <3>2, <4>1, WorkerCare, RecoveryCare, TimeoutScanCare
    <3>3. CASE \E i \in Instances : Start(i)
      <4>1. Undisturbed
        BY <2>1, <2>2, <3>3 DEF Start, Undisturbed, TypeOK
      <4> QED
        BY <3>3, <4>1, StartCare
    <3>4. CASE \E i \in Instances : Stop(i) \/ Stopped(i) \/ Crash(i)
      BY <2>1, <2>2, <3>4 DEF Stop, Stopped, Crash, Forget, Undisturbed, TypeOK
    <3>5. CASE \E t \in Txs : LeaseExpires(t)
      <4>1. Undisturbed
        BY <2>2, <3>5 DEF LeaseExpires, Undisturbed
      <4> QED
        BY <3>5, <4>1, ExpiryCare
    <3> QED
      BY <1>3, <3>1, <3>2, <3>3, <3>4, <3>5 DEF Next
  <2> QED
    BY <1>1, <1>3, <2>2, ApartStep DEF CareInv
<1> QED
  BY <1>2, <1>3

(***************************************************************************)
(* Nothing is forgotten, for any number of processes, workers and          *)
(* transactions and any limits of the queues and the scans: once every     *)
(* process has looked for what was left, an undecided transaction that     *)
(* nobody let go is with a caller, a scan that will submit it, a queue or  *)
(* a worker (Submit, recoveryScan, scanTimeouts, driveTransaction).        *)
(***************************************************************************)
THEOREM NothingForgottenTheorem ==
    ASSUME Instances # {}
    PROVE  Spec => []NothingForgotten
<1>1. ASSUME CareInv
      PROVE  NothingForgotten
  <2>1. SUFFICES ASSUME \A i \in Instances : phase[i] = "up" /\ recovery[i].pc # "wait",
                        NEW t \in Txs, Undecided(t)
                 PROVE  \E i \in Instances : Attended(i, t)
    BY DEF NothingForgotten
  <2>2. Undisturbed /\ ~Unlooked
    BY <2>1 DEF Undisturbed, Unlooked
  <2>3. PICK i \in Instances : Kept(i, t) \/ Held(i, t)
    BY <1>1, <2>1, <2>2 DEF CareInv, Care, Left, InHands
  <2>4. Has(i, t) => Attended(i, t)
    <3>1. Waits(i, t) => t \in ToSet(queue[i])
      <4>1. queue[i] \in Seq(Txs)
        BY <1>1 DEF CareInv, LeaseInv, TypeInv, TypeOK
      <4> QED
        BY <4>1 DEF Waits, ToSet
    <3> QED
      BY <3>1 DEF Has, Attended, Queued, Driven
  <2>5. Held(i, t) /\ ~Has(i, t) => Attended(i, t)
    <3>1. recovery[i] \in Scan /\ scan[i] \in Scan
      BY <1>1 DEF CareInv, LeaseInv, TypeInv, TypeOK
    <3> QED
      BY <3>1 DEF Held, Lists, ListedBy, Declined, Attended, Submits, Scan
  <2> QED
    BY <2>3, <2>4, <2>5 DEF Kept
<1> QED
  BY <1>1, InitCare, CareStep, PTL DEF Spec
=============================================================================
