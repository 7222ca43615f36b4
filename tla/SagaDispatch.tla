---------------------------- MODULE SagaDispatch -----------------------------
(***************************************************************************)
(* saga/coordinator.go seen from the side of the queue: several            *)
(* transactions, the bounded taskQueue of every instance, its workers, the *)
(* set activeTx, and the three sources that feed the queue through Submit: *)
(* the callers of Engine.Submit, the recovery scan and the timeout scan.   *)
(*                                                                         *)
(* What a worker does with a transaction is the subject of SagaCoordinator *)
(* and is reduced here to the course of its status.  A store call fails    *)
(* here only because the engine's context is cancelled, and a lease does   *)
(* not run out while somebody in its process stands behind it.             *)
(***************************************************************************)
EXTENDS Integers, Sequences, FiniteSets, FiniteSetsExt, SequencesExt

CONSTANTS
    Instances,      \* engine processes
    NoInstance,     \* locked_by IS NULL
    Gone,           \* the engine processes that ran before and ended
    NTx,            \* transactions, numbered in the order of created_at
    Expiring,       \* those that have a timeout_at
    WorkerCount,    \* workers of a process
    QueueSize,      \* capacity of taskQueue (1000 in the code)
    RecoveryLimit,  \* batch size of the recovery scan (100 in the code)
    ScanLimit,      \* batch size of the timeout scan (50 in the code)
    CanStop         \* whether processes are stopped or crash

Txs     == 1..NTx
Workers == 1..WorkerCount

ASSUME DispatchAssumption ==
    /\ {NoInstance, Gone} \cap Instances = {} /\ NoInstance # Gone
    /\ NTx \in Nat
    /\ Expiring \subseteq Txs
    /\ {WorkerCount, QueueSize, RecoveryLimit, ScanLimit} \subseteq Nat \ {0}
    /\ CanStop \in BOOLEAN

VARIABLES
    row,        \* saga_transactions: status, lockedBy, expired
    phase,      \* life cycle of each process
    queue,      \* taskQueue of each process
    active,     \* activeTx of each process
    worker,     \* its workers: where in driveTransaction, and with which
    client,     \* the call of Engine.Submit for each transaction
    recovery,   \* recoveryScan of each process
    scan,       \* its timeoutScanner
    turned      \* transactions a process let go undone (for the properties)

procVars == <<queue, active, worker, recovery, scan>>
vars     == <<row, phase, procVars, client, turned>>

ActiveStatus == {"pending", "running", "compensating"}
Row == [status   : ActiveStatus \cup {"none", "succeeded", "failed"},
        lockedBy : Instances \cup {NoInstance, Gone},
        expired  : BOOLEAN]      \* locked_until < NOW()

(* The places of Submit: the two sections under activeTxMu, the select between. *)
InSubmit == {"mark", "enqueue", "unmark"}
Job      == [pc : {"idle", "claim", "drive", "release", "unmark"}, tx : 0..NTx]
Call     == [pc : InSubmit \cup {"none", "done"}, at : Instances \cup {NoInstance}]
Scan     == [pc : InSubmit \cup {"off", "wait", "next", "release"},
             todo : SUBSET Txs, cur : 0..NTx,
             seen : SUBSET Txs]      \* of the listed ones, those found running
Idle     == [pc |-> "idle", tx |-> 0]
NoCall   == [pc |-> "none", at |-> NoInstance]
ScanAt(place) == [pc |-> place, todo |-> {}, cur |-> 0, seen |-> {}]

TypeOK ==
    /\ row \in [Txs -> Row]
    /\ phase \in [Instances -> {"down", "up", "stopping", "dead"}]
    /\ queue \in [Instances -> Seq(Txs)]
    /\ \A i \in Instances : Len(queue[i]) <= QueueSize
    /\ active \in [Instances -> SUBSET Txs]
    /\ worker \in [Instances -> [Workers -> Job]]
    /\ client \in [Txs -> Call]
    /\ recovery \in [Instances -> Scan]
    /\ scan \in [Instances -> Scan]
    /\ turned \subseteq Txs

(***************************************************************************)
(* The transactions up to some number were left by earlier processes,      *)
(* anywhere in their course, under a lease that still runs or under none.  *)
(***************************************************************************)
NewRow == [status |-> "none", lockedBy |-> NoInstance, expired |-> FALSE]

Init ==
    /\ \E left \in 0..NTx :
          \E status \in [1..left -> ActiveStatus], lock \in [1..left -> {NoInstance, Gone}] :
             row = [t \in Txs |-> IF t > left THEN NewRow
                      ELSE [NewRow EXCEPT !.status = status[t], !.lockedBy = lock[t]]]
    /\ phase = [i \in Instances |-> "down"]
    /\ queue = [i \in Instances |-> <<>>]
    /\ active = [i \in Instances |-> {}]
    /\ worker = [i \in Instances |-> [w \in Workers |-> Idle]]
    /\ client = [t \in Txs |-> NoCall]
    /\ recovery = [i \in Instances |-> ScanAt("off")]
    /\ scan = [i \in Instances |-> ScanAt("off")]
    /\ turned = {}

Live(i)  == phase[i] \in {"up", "stopping"}
LetGo(S) == turned' = turned \cup S

-----------------------------------------------------------------------------
(* Statements of store.go *)

LockFree(t) == row[t].lockedBy = NoInstance \/ row[t].expired

(* Seeded fault: the lease an instance has already is in its own way. *)
Claimable_NotOwn(i, t) == row[t].status \in ActiveStatus /\ LockFree(t)

Claimable(i, t) == row[t].status \in ActiveStatus /\ (LockFree(t) \/ row[t].lockedBy = i)

Locked(r, i) == [r EXCEPT !.lockedBy = i, !.expired = FALSE]

LockAll(i, S) == row' = [t \in Txs |-> IF t \in S THEN Locked(row[t], i) ELSE row[t]]

(* The statement carries the engine's context and the instance's name. *)
ReleaseTransaction(i, t) ==
    row' = IF phase[i] = "up" /\ row[t].lockedBy = i
             THEN [row EXCEPT ![t] = Locked(row[t], NoInstance)]
             ELSE row

(* No running process has the lease of t or has it in its queue. *)
Orphan(t) ==
    /\ row[t].status \in ActiveStatus
    /\ \A i \in Instances : Live(i) => row[t].lockedBy # i /\ t \notin active[i]

Recoverable == {t \in Txs : row[t].status \in ActiveStatus /\ LockFree(t)}
TimeoutDue  == {t \in Expiring : row[t].status \in {"running", "compensating"} /\ LockFree(t)}

(* The first n of S in the order of created_at. *)
Oldest(S, n) == {t \in S : Cardinality({u \in S : u < t}) < n}

-----------------------------------------------------------------------------
(***************************************************************************)
(* Coordinator.Submit for the process i and the transaction t, in three    *)
(* places of its caller: mark it active, unless it is; put it on the       *)
(* queue; or, the queue being full, take the mark back.                    *)
(***************************************************************************)

(* Seeded fault: activeTx is not looked at. *)
SubmitMarks_Blind(i, t) ==
    /\ active' = [active EXCEPT ![i] = @ \cup {t}]
    /\ UNCHANGED <<queue, turned>>

SubmitMarks(i, t) ==
    /\ t \notin active[i]
    /\ active' = [active EXCEPT ![i] = @ \cup {t}]
    /\ UNCHANGED <<queue, turned>>

SubmitSkips(i, t) == t \in active[i] /\ UNCHANGED <<queue, active, turned>>

SubmitEnqueues(i, t) ==
    /\ Len(queue[i]) < QueueSize
    /\ queue' = [queue EXCEPT ![i] = Append(@, t)]
    /\ UNCHANGED <<active, turned>>

SubmitFindsFull(i) == Len(queue[i]) = QueueSize /\ UNCHANGED <<queue, active, turned>>

SubmitUnmarks(i, t) ==
    /\ active' = [active EXCEPT ![i] = @ \ {t}]
    /\ LetGo({t})
    /\ UNCHANGED queue

(* A step of Submit by a caller at place p, which it leaves for q. *)
SubmitStep(i, t, p, q) ==
    \/ p = "mark"    /\ q = "enqueue"  /\ SubmitMarks(i, t)
    \/ p = "mark"    /\ q = "declined" /\ SubmitSkips(i, t)
    \/ p = "enqueue" /\ q = "accepted" /\ SubmitEnqueues(i, t)
    \/ p = "enqueue" /\ q = "unmark"   /\ SubmitFindsFull(i)
    \/ p = "unmark"  /\ q = "declined" /\ SubmitUnmarks(i, t)

SubmitOutcomes == {"enqueue", "unmark", "accepted", "declined"}

-----------------------------------------------------------------------------
(***************************************************************************)
(* Engine.Submit: the row is written, then the transaction is handed to    *)
(* the coordinator, whose answer is not looked at.                         *)
(***************************************************************************)
Create(i, t) ==
    /\ Live(i)
    /\ row[t].status = "none"
    /\ t > 1 => row[t - 1].status # "none"
    /\ row' = [row EXCEPT ![t].status = "pending"]
    /\ client' = [client EXCEPT ![t] = [pc |-> "mark", at |-> i]]
    /\ UNCHANGED <<phase, procVars, turned>>

Submit(i, t) ==
    /\ client[t].at = i
    /\ \E q \in SubmitOutcomes :
          /\ SubmitStep(i, t, client[t].pc, q)
          /\ client' = [client EXCEPT ![t] = IF q \in InSubmit
                           THEN [pc |-> q, at |-> i] ELSE [NoCall EXCEPT !.pc = "done"]]
    /\ UNCHANGED <<row, phase, worker, recovery, scan>>

-----------------------------------------------------------------------------
(* worker and driveTransaction *)

Goto(i, w, place) == worker' = [worker EXCEPT ![i][w].pc = place]

(***************************************************************************)
(* The select of a worker; idle workers are alike, the first one goes.     *)
(* With stopCh closed it may still take a transaction.                     *)
(***************************************************************************)
TakeTask(i, w) ==
    /\ Live(i)
    /\ worker[i][w].pc = "idle" /\ \A v \in 1..(w - 1) : worker[i][v].pc # "idle"
    /\ queue[i] # <<>>
    /\ worker' = [worker EXCEPT ![i][w] = [pc |-> "claim", tx |-> Head(queue[i])]]
    /\ queue' = [queue EXCEPT ![i] = Tail(@)]
    /\ UNCHANGED <<row, phase, active, client, recovery, scan, turned>>

Claim(i, w) ==
    LET t == worker[i][w].tx
    IN  /\ worker[i][w].pc = "claim"
        /\ \/ /\ phase[i] = "up" /\ Claimable(i, t)
              /\ LockAll(i, {t})
              /\ Goto(i, w, "drive")
           \/ /\ phase[i] = "stopping" \/ ~Claimable(i, t)
              /\ Goto(i, w, "unmark")
              /\ UNCHANGED row
        /\ UNCHANGED <<phase, queue, active, client, recovery, scan, turned>>

(* What an iteration makes of the status: a step forward, or the end. *)
Moves(status) == CASE status = "pending" -> {"running"}
                   [] status = "running" -> {"succeeded", "compensating"}
                   [] OTHER              -> {"failed"}

(* An iteration of the loop, which begins by renewing the lease. *)
Drive(i, w) ==
    LET t == worker[i][w].tx
    IN  /\ worker[i][w].pc = "drive"
        /\ phase[i] = "up" /\ Claimable(i, t)
        /\ \E s \in Moves(row[t].status) :
              /\ row' = [row EXCEPT ![t] = [Locked(@, i) EXCEPT !.status = s]]
              /\ Goto(i, w, IF s \in ActiveStatus THEN "drive" ELSE "release")
        /\ UNCHANGED <<phase, queue, active, client, recovery, scan, turned>>

(* The loop ends: the engine stops, the lease is lost, or a call failed. *)
DriveEnds(i, w) ==
    LET t == worker[i][w].tx
    IN  /\ worker[i][w].pc = "drive"
        /\ \/ /\ phase[i] = "stopping" \/ ~Claimable(i, t)
              /\ UNCHANGED turned
           \/ /\ phase[i] = "up" /\ t \notin turned
              /\ LetGo({t})
        /\ Goto(i, w, "release")
        /\ UNCHANGED <<row, phase, queue, active, client, recovery, scan>>

(* The deferred calls: the lease is given back first, the mark last. *)
Release(i, w) ==
    /\ worker[i][w].pc = "release"
    /\ ReleaseTransaction(i, worker[i][w].tx)
    /\ Goto(i, w, "unmark")
    /\ UNCHANGED <<phase, queue, active, client, recovery, scan, turned>>

(* Seeded fault: the mark of a transaction stays when its drive ends. *)
Unmark_Never(i, w) ==
    /\ worker[i][w].pc = "unmark"
    /\ worker' = [worker EXCEPT ![i][w] = Idle]
    /\ UNCHANGED <<row, phase, queue, active, client, recovery, scan, turned>>

Unmark(i, w) ==
    /\ worker[i][w].pc = "unmark"
    /\ active' = [active EXCEPT ![i] = @ \ {worker[i][w].tx}]
    /\ worker' = [worker EXCEPT ![i][w] = Idle]
    /\ UNCHANGED <<row, phase, queue, client, recovery, scan, turned>>

Worker(i) == \E w \in Workers : \/ TakeTask(i, w)
                                \/ Claim(i, w)
                                \/ Drive(i, w)
                                \/ DriveEnds(i, w)
                                \/ Release(i, w)
                                \/ Unmark(i, w)
-----------------------------------------------------------------------------
(* recoveryScan *)

(***************************************************************************)
(* A second after the start the oldest transactions nobody holds are       *)
(* leased and listed; the ones past the limit and the ones whose lease     *)
(* still runs are left where they are.                                     *)
(***************************************************************************)
RecoveryList(i) ==
    LET listed == Oldest(Recoverable, RecoveryLimit)
    IN  /\ phase[i] = "up"
        /\ recovery[i].pc = "wait"
        /\ LockAll(i, listed)
        /\ recovery' = [recovery EXCEPT ![i] = [ScanAt("next") EXCEPT !.todo = listed]]
        /\ LetGo({t \in Txs \ listed : Orphan(t)})
        /\ UNCHANGED <<phase, queue, active, worker, client, scan>>

(* Seeded fault: the lease of a transaction that was declined is kept. *)
AfterSubmit_KeepsLease(sc, t, q) ==
    [sc EXCEPT !.todo = @ \ {t},
               !.pc  = IF q \in InSubmit THEN q ELSE "next",
               !.cur = IF q \in InSubmit THEN t ELSE 0]

(* After Submit a scan goes on, or gives the lease back. *)
AfterSubmit(sc, t, q) ==
    [sc EXCEPT !.todo = @ \ {t},
               !.pc  = CASE q \in InSubmit -> q
                         [] q = "accepted" -> "next"
                         [] q = "declined" -> "release",
               !.cur = IF q = "accepted" THEN 0 ELSE t]

(***************************************************************************)
(* A step of Submit for the next transaction of the list, or for the one   *)
(* in hand.  The list is in the order of created_at.                       *)
(***************************************************************************)
RecoverySubmit(i) ==
    /\ \E t \in Txs, p \in InSubmit, q \in SubmitOutcomes :
          /\ \/ /\ phase[i] = "up" /\ p = "mark" /\ recovery[i].pc = "next"
                /\ t \in recovery[i].todo /\ \A u \in recovery[i].todo : t <= u
             \/ Live(i) /\ p = recovery[i].pc /\ t = recovery[i].cur
          /\ SubmitStep(i, t, p, q)
          /\ recovery' = [recovery EXCEPT ![i] = AfterSubmit(@, t, q)]
    /\ UNCHANGED <<row, phase, worker, client, scan>>

RecoveryRelease(i) ==
    /\ Live(i)
    /\ recovery[i].pc = "release"
    /\ ReleaseTransaction(i, recovery[i].cur)
    /\ recovery' = [recovery EXCEPT ![i].pc = "next", ![i].cur = 0]
    /\ UNCHANGED <<phase, queue, active, worker, client, scan, turned>>

RecoveryEnds(i) ==
    /\ phase[i] = "up"
    /\ recovery[i].pc = "next" /\ recovery[i].todo = {}
    /\ recovery' = [recovery EXCEPT ![i] = ScanAt("off")]
    /\ UNCHANGED <<row, phase, queue, active, worker, client, scan, turned>>

(***************************************************************************)
(* The engine stops: the scan returns, before it began or between two      *)
(* transactions; the releases of the remaining ones carry the cancelled    *)
(* context and fail.                                                       *)
(***************************************************************************)
RecoveryQuits(i) ==
    /\ phase[i] = "stopping"
    /\ recovery[i].pc \in {"wait", "next"}
    /\ recovery' = [recovery EXCEPT ![i] = ScanAt("off")]
    /\ UNCHANGED <<row, phase, queue, active, worker, client, scan, turned>>

Recovery(i) == \/ RecoveryList(i)
               \/ RecoverySubmit(i)
               \/ RecoveryRelease(i)
               \/ RecoveryEnds(i)
               \/ RecoveryQuits(i)
-----------------------------------------------------------------------------
(* timeoutScanner and scanTimeouts *)

(* A tick: lease and list transactions past their deadline. *)
ScanList(i) ==
    /\ phase[i] = "up"
    /\ scan[i].pc = "wait"
    /\ TimeoutDue # {}
    /\ \E S \in SUBSET TimeoutDue :
          /\ Cardinality(S) = Min({ScanLimit, Cardinality(TimeoutDue)})
          /\ LockAll(i, S)
          /\ scan' = [scan EXCEPT ![i] = [ScanAt("next") EXCEPT !.todo = S,
                             !.seen = {t \in S : row[t].status = "running"}]]
    /\ UNCHANGED <<phase, queue, active, worker, client, recovery, turned>>

(***************************************************************************)
(* The status of the next transaction goes from what it was when listed to *)
(* compensating.  If it is another one by now, or the call fails, the      *)
(* lease is given back.                                                    *)
(***************************************************************************)
ScanCAS(i) ==
    \E t \in scan[i].todo :
       LET holds == row[t].status = IF t \in scan[i].seen THEN "running" ELSE "compensating"
           next  == [scan[i] EXCEPT !.todo = @ \ {t}, !.seen = @ \ {t}, !.cur = t]
       IN  /\ Live(i)
           /\ scan[i].pc = "next"
           /\ \/ /\ phase[i] = "up" /\ holds
                 /\ row' = [row EXCEPT ![t].status = "compensating"]
                 /\ scan' = [scan EXCEPT ![i] = [next EXCEPT !.pc = "mark"]]
              \/ /\ phase[i] = "stopping" \/ ~holds
                 /\ scan' = [scan EXCEPT ![i] = [next EXCEPT !.pc = "release"]]
                 /\ UNCHANGED row
           /\ UNCHANGED <<phase, queue, active, worker, client, recovery, turned>>

ScanSubmit(i) ==
    /\ Live(i)
    /\ \E q \in SubmitOutcomes :
          /\ SubmitStep(i, scan[i].cur, scan[i].pc, q)
          /\ scan' = [scan EXCEPT ![i] = AfterSubmit(@, @.cur, q)]
    /\ UNCHANGED <<row, phase, worker, client, recovery>>

ScanRelease(i) ==
    /\ Live(i)
    /\ scan[i].pc = "release"
    /\ ReleaseTransaction(i, scan[i].cur)
    /\ scan' = [scan EXCEPT ![i].pc = "next", ![i].cur = 0]
    /\ UNCHANGED <<phase, queue, active, worker, client, recovery, turned>>

(* Back to the ticker. *)
ScanEnds(i) ==
    /\ Live(i)
    /\ scan[i].pc = "next" /\ scan[i].todo = {}
    /\ scan' = [scan EXCEPT ![i] = ScanAt("wait")]
    /\ UNCHANGED <<row, phase, queue, active, worker, client, recovery, turned>>

TimeoutScan(i) == \/ ScanList(i)
                  \/ ScanCAS(i)
                  \/ ScanSubmit(i)
                  \/ ScanRelease(i)
                  \/ ScanEnds(i)
-----------------------------------------------------------------------------
(* Engine.Start, Engine.Stop, and the end of a process *)

Start(i) ==
    /\ phase[i] = "down"
    /\ phase' = [phase EXCEPT ![i] = "up"]
    /\ recovery' = [recovery EXCEPT ![i] = ScanAt("wait")]
    /\ scan' = [scan EXCEPT ![i] = ScanAt("wait")]
    /\ UNCHANGED <<row, queue, active, worker, client, turned>>

Stop(i) ==
    /\ CanStop
    /\ phase[i] = "up"
    /\ phase' = [phase EXCEPT ![i] = "stopping"]
    /\ UNCHANGED <<row, procVars, client, turned>>

(* All that a process held in memory is gone, its queue included. *)
Forget(i) ==
    /\ phase' = [phase EXCEPT ![i] = "dead"]
    /\ queue' = [queue EXCEPT ![i] = <<>>]
    /\ active' = [active EXCEPT ![i] = {}]
    /\ worker' = [worker EXCEPT ![i] = [w \in Workers |-> Idle]]
    /\ recovery' = [recovery EXCEPT ![i] = ScanAt("off")]
    /\ scan' = [scan EXCEPT ![i] = ScanAt("off")]
    /\ client' = [t \in Txs |-> IF client[t].at = i THEN [NoCall EXCEPT !.pc = "done"]
                                                    ELSE client[t]]
    /\ UNCHANGED <<row, turned>>

(* wg.Wait of Coordinator.Stop returns when every goroutine has. *)
Stopped(i) ==
    /\ phase[i] = "stopping"
    /\ \A w \in Workers : worker[i][w].pc = "idle"
    /\ recovery[i].pc = "off"
    /\ scan[i].pc = "wait"
    /\ Forget(i)

Crash(i) == CanStop /\ Live(i) /\ Forget(i)

(* A worker of process i is at work on t, or about to give it back. *)
Driving(i, t) == \E w \in Workers : worker[i][w].tx = t
                                       /\ worker[i][w].pc \in {"drive", "release"}

(* t is on its way through a scan of process i. *)
Listed(i, t) ==
    \E sc \in {recovery[i], scan[i]} :
        t \in sc.todo \/ (sc.cur = t /\ sc.pc \notin {"off", "wait", "next"})

Queued(i, t) == t \in ToSet(queue[i])
                  \/ \E w \in Workers : worker[i][w].tx = t /\ worker[i][w].pc = "claim"

Backed(i, t) == Driving(i, t) \/ Listed(i, t) \/ Queued(i, t)

InUse(t) == \E i \in Instances : row[t].lockedBy = i /\ Live(i) /\ Backed(i, t)

LeaseExpires(t) ==
    /\ row[t].lockedBy # NoInstance
    /\ ~row[t].expired
    /\ ~InUse(t)
    /\ row' = [row EXCEPT ![t].expired = TRUE]
    /\ UNCHANGED <<phase, procVars, client, turned>>

Next ==
    \/ \E i \in Instances : \/ \E t \in Txs : Create(i, t) \/ Submit(i, t)
                            \/ Worker(i)
                            \/ Recovery(i)
                            \/ TimeoutScan(i)
                            \/ Start(i)
                            \/ Stop(i)
                            \/ Stopped(i)
                            \/ Crash(i)
    \/ \E t \in Txs : LeaseExpires(t)

Spec == Init /\ [][Next]_vars

(***************************************************************************)
(* Every goroutine of a process is scheduled: some worker that can go on,  *)
(* either scan, the calls of Engine.Submit.  Somebody starts the engines,  *)
(* a stop comes to its end, and leases nobody uses run out.                *)
(***************************************************************************)
Fairness ==
    /\ \A i \in Instances :
          /\ WF_vars(Start(i) \/ Stopped(i))
          /\ WF_vars(Worker(i))
          /\ WF_vars(Recovery(i))
          /\ WF_vars(TimeoutScan(i))
          /\ WF_vars(\E t \in Txs : Submit(i, t))
    /\ WF_vars(\E t \in Txs : LeaseExpires(t))

FairSpec == Spec /\ Fairness

-----------------------------------------------------------------------------
(***************************************************************************)
(* A process has a transaction in exactly one place while it is in         *)
(* activeTx, and in none otherwise: a caller inside Submit, the queue, or  *)
(* a worker.  So two workers never drive the same one, and a dropped or    *)
(* finished one can be submitted again (Submit and the deferred delete of  *)
(* driveTransaction use the mutex in sections of their own).               *)
(***************************************************************************)
Marked == {"enqueue", "unmark"}

Submitting(i, t) ==
    {s \in {"caller", "recovery", "scan"} :
        \/ s = "caller"   /\ client[t].at = i      /\ client[t].pc \in Marked
        \/ s = "recovery" /\ recovery[i].cur = t   /\ recovery[i].pc \in Marked
        \/ s = "scan"     /\ scan[i].cur = t       /\ scan[i].pc \in Marked}

InQueue(i, t)   == {k \in DOMAIN queue[i] : queue[i][k] = t}
AtWorkers(i, t) == {w \in Workers : worker[i][w].pc # "idle" /\ worker[i][w].tx = t}

OnePlace ==
    \A i \in Instances, t \in Txs :
       Cardinality(Submitting(i, t)) + Cardinality(InQueue(i, t))
          + Cardinality(AtWorkers(i, t)) = IF t \in active[i] THEN 1 ELSE 0

(***************************************************************************)
(* A running process holds no lease that nothing in it stands behind: the  *)
(* lease of an unfinished transaction is backed by a worker, by its place  *)
(* in the queue or by a scan that will submit it or give the lease back.   *)
(***************************************************************************)
LeaseIsBacked ==
    \A i \in Instances, t \in Txs :
       /\ phase[i] = "up"
       /\ row[t].lockedBy = i
       /\ row[t].status \in ActiveStatus
       => Backed(i, t)

(***************************************************************************)
(* Nothing is forgotten silently: with all engines running, a transaction  *)
(* leaves pending unless a full queue, the recovery scan with its limit or *)
(* a failed drive let it go.                                               *)
(***************************************************************************)
Undisturbed == \A i \in Instances : phase[i] \in {"down", "up"}

EveryoneIsServed ==
    \A t \in Txs : row[t].status = "pending"
                     ~> row[t].status # "pending" \/ t \in turned \/ ~Undisturbed

(***************************************************************************)
(* What that rests on, as a state shows it: once every process runs and    *)
(* has looked for what was left, an undecided transaction that nobody let  *)
(* go is on its way to a worker, or driven: a caller or a scan is about to *)
(* submit it, or it is queued.  A scan that declines it or gives its lease *)
(* back leaves it to somebody else (Submit, recoveryScan, scanTimeouts).   *)
(***************************************************************************)
Driven(i, t) == \E w \in Workers : worker[i][w].tx = t /\ worker[i][w].pc = "drive"

Submits(sc, t) == t \in sc.todo \/ (sc.cur = t /\ sc.pc \in InSubmit)

Attended(i, t) ==
    \/ client[t].at = i
    \/ Submits(recovery[i], t) \/ Submits(scan[i], t)
    \/ Queued(i, t) \/ Driven(i, t)

Undecided(t) == row[t].status \in ActiveStatus /\ t \notin turned

NothingForgotten ==
    (\A i \in Instances : phase[i] = "up" /\ recovery[i].pc # "wait")
       => \A t \in Txs : Undecided(t) => \E i \in Instances : Attended(i, t)

(***************************************************************************)
(* A transaction that has begun and has a deadline is decided while an     *)
(* engine is left, however full the queues were when it was listed.        *)
(***************************************************************************)
ExpiredIsDecided ==
    \A t \in Expiring :
       row[t].status \in {"running", "compensating"}
          ~> row[t].status \in {"succeeded", "failed"} \/ \A i \in Instances : phase[i] = "dead"
=============================================================================
