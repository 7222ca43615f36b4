------------------------- MODULE ConfigLoaderProofs -------------------------
(***************************************************************************)
(* Proofs about ConfigLoader: types, and that a loader that is loaded once *)
(* never rests with a change that a callback has not seen, for any number  *)
(* of callbacks, changes of the file and runs under way.                   *)
(***************************************************************************)
EXTENDS ConfigLoader, TLAPS

Contents == [version : Nat, good : BOOLEAN]

LoaderTypeOK ==
    /\ file \in Contents
    /\ events \in Nat
    /\ mem \in Int
    /\ load \in [at : {"no", "read", "watch", "end"}, got : Contents]
    /\ watch \in {"no", "watching", "hooked"}
    /\ watcher \in [at : {"idle", "read", "call"}, got : Contents]
    /\ callbacks \in 0..NCallback
    /\ timer \in BOOLEAN
    /\ run \in [Runs -> [on : BOOLEAN, todo : Seq(Callbacks), half : Int]]
    /\ done \in BOOLEAN
    /\ seen \in [Callbacks -> SUBSET (Int \X Int)]
    /\ owed \subseteq 1..callbacks

(* How far the one call of Load has come, and what startWatching has done. *)
LoadedOnce ==
    /\ load.at \in {"no", "read"} => watch = "no"
    /\ watch = "hooked" => load.at = "end"
    /\ load.at = "watch" => watch \in {"no", "watching"}
    /\ watch = "no" => events = 0 /\ watcher.at = "idle"
    /\ owed # {} => watch = "hooked"

(* What viper's goroutine read is old only if another event is waiting. *)
Fresh ==
    /\ events = 0 /\ watcher.at = "read" => watcher.got = file
    /\ owed # {} => \/ events > 0
                    \/ watcher.at = "read"
                    \/ file.good => mem = file.version

(* A run still has callback c to call, or is in its apply with the present content. *)
Will(r, c) ==
    /\ run[r].on
    /\ \E k \in 1..Len(run[r].todo) : run[r].todo[k] = c
    /\ Head(run[r].todo) = c => run[r].half \in {-1, mem}

OnItsWay(c) ==
    \/ events > 0
    \/ watcher.at # "idle"
    \/ timer
    \/ \E r \in Runs : Will(r, c)
    \/ <<mem, mem>> \in seen[c]

Reported == done \/ \A c \in owed \ Panicky : OnItsWay(c)

IInv == LoaderTypeOK /\ LoadedOnce /\ Fresh /\ Reported

-----------------------------------------------------------------------------
(* What is left of a sequence without its head. *)
LEMMA TailFacts ==
    ASSUME NEW S, NEW s \in Seq(S), s # <<>>
    PROVE  /\ Tail(s) \in Seq(S)
           /\ Len(s) \in Nat \ {0} /\ Len(Tail(s)) = Len(s) - 1
           /\ Head(s) = s[1] /\ Head(s) \in S
           /\ \A k \in 2..Len(s) : k - 1 \in 1..Len(Tail(s)) /\ Tail(s)[k - 1] = s[k]
OBVIOUS

LEMMA Numbered ==
    ASSUME NEW S, NEW n \in Nat, NEW f \in [1..n -> S]
    PROVE  f \in Seq(S) /\ Len(f) = n
OBVIOUS

(* What a run becomes when it is done with a callback. *)
LEMMA RowFacts ==
    ASSUME NEW T, NEW w \in [on : BOOLEAN, todo : T, half : Int], NEW t \in T, NEW h \in Int
    PROVE  [w EXCEPT !.half = h, !.todo = t] \in [on : BOOLEAN, todo : T, half : Int]
OBVIOUS

LEMMA InitInv == Init => IInv
<1> SUFFICES ASSUME Init PROVE IInv
  OBVIOUS
<1>1. LoaderTypeOK
  <2>1. file \in Contents
    BY DEF Init, Contents
  <2>2. run \in [Runs -> [on : BOOLEAN, todo : Seq(Callbacks), half : Int]]
    <3>1. <<>> \in Seq(Callbacks)
      OBVIOUS
    <3>2. NotRun \in [on : BOOLEAN, todo : Seq(Callbacks), half : Int]
      BY <3>1 DEF NotRun
    <3> QED
      BY <3>2 DEF Init
  <2>3. load \in [at : {"no", "read", "watch", "end"}, got : Contents]
    BY <2>1 DEF Init
  <2>4. watcher \in [at : {"idle", "read", "call"}, got : Contents]
    BY <2>1 DEF Init
  <2>5. seen \in [Callbacks -> SUBSET (Int \X Int)]
    BY DEF Init
  <2>6. events \in Nat /\ mem \in Int /\ watch = "no" /\ timer = FALSE /\ done = FALSE
    BY DEF Init
  <2>7. callbacks \in 0..NCallback /\ owed \subseteq 1..callbacks
    BY ConfigLoaderAssumption DEF Init
  <2> QED
    BY <2>1, <2>2, <2>3, <2>4, <2>5, <2>6, <2>7 DEF LoaderTypeOK
<1> QED
  BY <1>1 DEF Init, IInv, LoadedOnce, Fresh, Reported

-----------------------------------------------------------------------------
(* Types *)
LEMMA TypeStep ==
    ASSUME LoaderTypeOK, [Next]_vars
    PROVE  LoaderTypeOK'
<1> USE ConfigLoaderAssumption DEF LoaderTypeOK
<1>1. CASE Write
  <2>1. file' \in Contents /\ events' \in Nat
    BY <1>1 DEF Write, Contents
  <2> QED
    BY <1>1, <2>1 DEF Write
<1>2. CASE Loading
  <2>1. CASE LoadReads
    BY <2>1 DEF LoadReads
  <2>2. CASE LoadTakes
    <3>1. mem' \in Int
      BY <2>2 DEF LoadTakes, Takes, Contents
    <3>2. load' \in [at : {"no", "read", "watch", "end"}, got : Contents]
      BY <2>2 DEF LoadTakes
    <3> QED
      BY <2>2, <3>1, <3>2 DEF LoadTakes
  <2>3. CASE WatchConfig \/ OnConfigChange
    BY <2>3 DEF WatchConfig, OnConfigChange
  <2> QED
    BY <1>2, <2>1, <2>2, <2>3 DEF Loading
<1>3. CASE OnChange
  <2>1. callbacks' \in 0..NCallback /\ owed' \subseteq 1..callbacks'
    BY <1>3 DEF OnChange
  <2> QED
    BY <1>3, <2>1 DEF OnChange
<1>4. CASE Close
  BY <1>4 DEF Close
<1>5. CASE Watching
  <2>1. CASE WatcherReads
    BY <2>1 DEF WatcherReads
  <2>2. CASE WatcherTakes
    <3>1. mem' \in Int
      BY <2>2 DEF WatcherTakes, Takes, Contents
    <3> QED
      BY <2>2, <3>1 DEF WatcherTakes
  <2>3. CASE Hook
    BY <2>3 DEF Hook
  <2> QED
    BY <1>5, <2>1, <2>2, <2>3 DEF Watching
<1>6. ASSUME NEW r \in Runs, Calling(r)
      PROVE  LoaderTypeOK'
  <2>1. CASE executeCallbacks(r)
    <3>1. callbacks \in Nat /\ 1..callbacks \subseteq Callbacks
      BY DEF Callbacks
    <3>2. [k \in 1..callbacks |-> k] \in [1..callbacks -> Callbacks]
      BY <3>1
    <3>3. [k \in 1..callbacks |-> k] \in Seq(Callbacks)
      BY <3>1, <3>2, Numbered
    <3> DEFINE Begun == [on |-> TRUE, todo |-> [k \in 1..callbacks |-> k], half |-> -1]
    <3>4. Begun \in [on : BOOLEAN, todo : Seq(Callbacks), half : Int]
      BY <3>3
    <3> HIDE DEF Begun
    <3>5. run' = IF done THEN run ELSE [run EXCEPT ![r] = Begun]
      BY <2>1 DEF executeCallbacks, Begun
    <3>6. run' \in [Runs -> [on : BOOLEAN, todo : Seq(Callbacks), half : Int]]
      BY <3>4, <3>5
    <3> QED
      BY <2>1, <3>6 DEF executeCallbacks
  <2>2. CASE Apply(r) \/ Panic(r)
    <3>1. run[r].todo \in Seq(Callbacks) /\ run[r].todo # <<>>
      BY <2>2 DEF Apply, Panic
    <3>2. Tail(run[r].todo) \in Seq(Callbacks)
      BY <3>1, TailFacts
    <3>3. Head(run[r].todo) \in Callbacks
      BY <3>1, TailFacts
    <3>4. run' \in [Runs -> [on : BOOLEAN, todo : Seq(Callbacks), half : Int]]
      <4>1. PICK row \in [on : BOOLEAN, todo : Seq(Callbacks), half : Int] :
              run' = [run EXCEPT ![r] = row]
        <5>1. CASE run' = [run EXCEPT ![r].half = mem]
          BY <5>1
        <5>2. CASE run' = [run EXCEPT ![r].half = -1, ![r].todo = Tail(@)]
          <6>1. PICK t \in Seq(Callbacks) : t = Tail(run[r].todo)
            BY <3>2
          <6>2. [run[r] EXCEPT !.half = -1, !.todo = t]
                  \in [on : BOOLEAN, todo : Seq(Callbacks), half : Int]
            <7>1. run[r] \in [on : BOOLEAN, todo : Seq(Callbacks), half : Int]
              OBVIOUS
            <7>2. -1 \in Int
              OBVIOUS
            <7> HIDE DEF LoaderTypeOK
            <7> QED
              BY <7>1, <7>2, RowFacts
          <6>3. run' = [run EXCEPT ![r] = [run[r] EXCEPT !.half = -1, !.todo = t]]
            BY <5>2, <6>1
          <6> QED
            BY <6>2, <6>3
        <5> QED
          BY <2>2, <5>1, <5>2 DEF Apply, Panic
      <4> QED
        BY <4>1
    <3>5. seen' \in [Callbacks -> SUBSET (Int \X Int)]
      BY <2>2, <3>3 DEF Apply, Panic
    <3> QED
      BY <2>2, <3>4, <3>5 DEF Apply, Panic
  <2>3. CASE RunEnds(r)
    BY <2>3 DEF RunEnds, NotRun
  <2> QED
    BY <1>6, <2>1, <2>2, <2>3 DEF Calling
<1>7. CASE UNCHANGED vars
  BY <1>7 DEF vars
<1> QED
  BY <1>1, <1>2, <1>3, <1>4, <1>5, <1>6, <1>7 DEF Next

(* Load is called once: what it reads is in memory before the file is watched. *)
LEMMA LoadedStep ==
    ASSUME ~CanReload, LoaderTypeOK, LoadedOnce, [Next]_vars
    PROVE  LoadedOnce'
<1> USE DEF LoaderTypeOK, LoadedOnce
<1>1. CASE Write
  BY <1>1 DEF Write
<1>2. CASE Loading
  BY <1>2 DEF Loading, LoadReads, LoadTakes, WatchConfig, OnConfigChange
<1>3. CASE OnChange \/ Close \/ Watching
  BY <1>3 DEF OnChange, Close, Watching, WatcherReads, WatcherTakes, Hook
<1>4. ASSUME NEW r \in Runs, Calling(r)
      PROVE  LoadedOnce'
  BY <1>4 DEF Calling, executeCallbacks, Apply, Panic, RunEnds
<1>5. CASE UNCHANGED vars
  BY <1>5 DEF vars
<1> QED
  BY <1>1, <1>2, <1>3, <1>4, <1>5 DEF Next

LEMMA FreshStep ==
    ASSUME ~CanReload, LoaderTypeOK, LoadedOnce, Fresh, [Next]_vars
    PROVE  Fresh'
<1> USE DEF LoaderTypeOK, LoadedOnce, Fresh
<1>1. CASE Write
  <2>1. watch # "no" => events' > 0
    BY <1>1 DEF Write
  <2> QED
    BY <1>1, <2>1 DEF Write
<1>2. CASE Loading
  BY <1>2 DEF Loading, LoadReads, LoadTakes, WatchConfig, OnConfigChange
<1>3. CASE OnChange \/ Close \/ Watching
  BY <1>3 DEF OnChange, Close, Watching, WatcherReads, WatcherTakes, Hook, Takes
<1>4. ASSUME NEW r \in Runs, Calling(r)
      PROVE  Fresh'
  BY <1>4 DEF Calling, executeCallbacks, Apply, Panic, RunEnds
<1>5. CASE UNCHANGED vars
  BY <1>5 DEF vars
<1> QED
  BY <1>1, <1>2, <1>3, <1>4, <1>5 DEF Next
-----------------------------------------------------------------------------
(***************************************************************************)
(* What is owed stays on its way: one step moves it from the events to     *)
(* viper's goroutine, the timer, a run of executeCallbacks and `seen', and *)
(* a step that changes the content in memory is one of the goroutine.      *)
(***************************************************************************)

(* Calls under way are lost to no step that leaves the runs and the content alone. *)
LEMMA WayStays ==
    ASSUME Reported, done' = done, events' = events, watcher' = watcher, timer' = timer,
           run' = run, mem' = mem, seen' = seen, owed' = owed
    PROVE  Reported'
  BY DEF Reported, OnItsWay, Will

(* The hook starts the timer for what is owed. *)
LEMMA HookKeeps ==
    ASSUME LoaderTypeOK, LoadedOnce, Hook
    PROVE  Reported'
<1>1. owed # {} => watch = "hooked"
  BY DEF LoadedOnce
<1>2. done' = done /\ owed' = owed /\ (watch = "hooked" /\ ~done => timer')
  BY DEF Hook
<1> QED
  BY <1>1, <1>2 DEF Reported, OnItsWay

(* A run that begins has every callback to call that is owed something. *)
LEMMA BeginKeeps ==
    ASSUME LoaderTypeOK, Reported, NEW r \in Runs, executeCallbacks(r)
    PROVE  Reported'
<1>1. CASE done
  BY <1>1 DEF Reported, executeCallbacks
<1>2. CASE ~done
  <2>1. callbacks \in Nat /\ owed \subseteq 1..callbacks
    BY ConfigLoaderAssumption DEF LoaderTypeOK
  <2> DEFINE Todo == [k \in 1..callbacks |-> k]
  <2>2. Todo \in Seq(1..callbacks) /\ Len(Todo) = callbacks
    BY <2>1, Numbered
  <2>3. /\ run' = [run EXCEPT ![r] = [on |-> TRUE, todo |-> Todo, half |-> -1]]
        /\ owed' = owed
    BY <1>2 DEF executeCallbacks
  <2>4. run'[r].on /\ run'[r].todo = Todo /\ run'[r].half = -1
    BY <2>3 DEF LoaderTypeOK
  <2>5. ASSUME NEW c \in owed
        PROVE  Will(r, c)'
    <3>1. c \in 1..Len(Todo) /\ Todo[c] = c
      BY <2>1, <2>2
    <3> QED
      BY <2>4, <3>1 DEF Will
  <2> QED
    BY <2>3, <2>5 DEF Reported, OnItsWay
<1> QED
  BY <1>1, <1>2

(* A run goes on to the next callback: it still has every other one to call. *)
LEMMA OthersWait ==
    ASSUME LoaderTypeOK, NEW r \in Runs, NEW q \in Runs, NEW c, Will(q, c),
           run[r].on, run[r].todo # <<>>, mem' = mem,
           run' = [run EXCEPT ![r].half = -1, ![r].todo = Tail(@)],
           q = r => Head(run[r].todo) # c
    PROVE  Will(q, c)'
<1>1. CASE q # r
  <2>1. run'[q] = run[q]
    BY <1>1 DEF LoaderTypeOK
  <2> QED
    BY <2>1 DEF Will
<1>2. CASE q = r
  <2> DEFINE s == run[r].todo
  <2>1. s \in Seq(Callbacks) /\ s # <<>>
    BY DEF LoaderTypeOK
  <2>2. run'[r].on /\ run'[r].todo = Tail(s) /\ run'[r].half = -1
    BY DEF LoaderTypeOK
  <2>3. PICK k \in 1..Len(s) : s[k] = c
    BY <1>2 DEF Will
  <2> HIDE DEF s
  <2>4. Head(s) = s[1] /\ Len(s) \in Nat
    BY <2>1, TailFacts
  <2>5. k \in 2..Len(s)
    BY <1>2, <2>3, <2>4 DEF s
  <2>6. k - 1 \in 1..Len(Tail(s)) /\ Tail(s)[k - 1] = c
    BY <2>1, <2>3, <2>5, TailFacts
  <2> QED
    BY <1>2, <2>2, <2>6 DEF Will
<1> QED
  BY <1>1, <1>2

(* A callback reads one key, then the other: if the content was the same, it has seen it. *)
LEMMA ApplyKeeps ==
    ASSUME LoaderTypeOK, Reported, NEW r \in Runs, Apply(r)
    PROVE  Reported'
<1>1. /\ run[r].on /\ run[r].todo # <<>> /\ mem' = mem /\ done' = done /\ owed' = owed
      /\ events' = events /\ watcher' = watcher /\ timer' = timer
  BY DEF Apply
<1>2. run[r].half \in Int /\ mem \in Int /\ Head(run[r].todo) \in Callbacks
  <2>1. run[r].todo \in Seq(Callbacks) /\ run[r].half \in Int /\ mem \in Int
    BY DEF LoaderTypeOK
  <2> QED
    BY <1>1, <2>1, TailFacts
<1>3. CASE run[r].half < 0
  <2>1. run' = [run EXCEPT ![r].half = mem] /\ seen' = seen
    BY <1>3 DEF Apply
  <2>2. ASSUME NEW q \in Runs, NEW c, Will(q, c)
        PROVE  Will(q, c)'
    <3>1. run'[q].on = run[q].on /\ run'[q].todo = run[q].todo /\ run'[q].half \in {run[q].half, mem}
      BY <2>1 DEF LoaderTypeOK
    <3> QED
      BY <1>1, <2>2, <3>1 DEF Will
  <2> QED
    BY <1>1, <2>1, <2>2 DEF Reported, OnItsWay
<1>4. CASE ~(run[r].half < 0)
  <2> DEFINE d == Head(run[r].todo)
  <2>1. /\ run' = [run EXCEPT ![r].half = -1, ![r].todo = Tail(@)]
        /\ seen' = [seen EXCEPT ![d] = @ \cup {<<run[r].half, mem>>}]
    BY <1>4 DEF Apply
  <2>2. \A c \in Callbacks : seen[c] \subseteq seen'[c]
    BY <2>1 DEF LoaderTypeOK
  <2>3. ASSUME NEW c \in Callbacks, OnItsWay(c)
        PROVE  OnItsWay(c)'
    <3>1. CASE Will(r, c) /\ c = d
      <4>1. run[r].half = mem
        BY <1>2, <1>4, <3>1 DEF Will
      <4>2. <<mem, mem>> \in seen'[d]
        BY <1>2, <2>1, <4>1 DEF LoaderTypeOK
      <4> QED
        BY <1>1, <3>1, <4>2 DEF OnItsWay
    <3>2. ASSUME NEW q \in Runs, Will(q, c), ~(q = r /\ c = d)
          PROVE  Will(q, c)'
      BY <1>1, <2>1, <3>2, OthersWait
    <3> QED
      BY <1>1, <2>2, <2>3, <3>1, <3>2 DEF OnItsWay
  <2>4. owed \subseteq Callbacks
    BY ConfigLoaderAssumption DEF LoaderTypeOK, Callbacks
  <2> QED
    BY <1>1, <2>3, <2>4 DEF Reported
<1> QED
  BY <1>3, <1>4

(* A callback that panics is not one of those the property is about. *)
LEMMA PanicKeeps ==
    ASSUME LoaderTypeOK, Reported, NEW r \in Runs, Panic(r)
    PROVE  Reported'
<1>1. /\ run[r].on /\ run[r].todo # <<>> /\ mem' = mem /\ done' = done /\ owed' = owed
      /\ events' = events /\ watcher' = watcher /\ timer' = timer /\ seen' = seen
      /\ run' = [run EXCEPT ![r].half = -1, ![r].todo = Tail(@)]
      /\ Head(run[r].todo) \in Panicky
  BY DEF Panic
<1>2. ASSUME NEW q \in Runs, NEW c, c \notin Panicky, Will(q, c)
      PROVE  Will(q, c)'
  BY <1>1, <1>2, OthersWait
<1> QED
  BY <1>1, <1>2 DEF Reported, OnItsWay

LEMMA EndKeeps ==
    ASSUME LoaderTypeOK, Reported, NEW r \in Runs, RunEnds(r)
    PROVE  Reported'
<1>1. /\ run[r].todo = <<>> /\ mem' = mem /\ done' = done /\ owed' = owed
      /\ events' = events /\ watcher' = watcher /\ timer' = timer /\ seen' = seen
      /\ run' = [run EXCEPT ![r] = NotRun]
  BY DEF RunEnds
<1>2. ASSUME NEW q \in Runs, NEW c, Will(q, c)
      PROVE  Will(q, c)'
  <2>1. q # r
    BY <1>1, <1>2 DEF Will
  <2>2. run'[q] = run[q]
    BY <1>1, <2>1 DEF LoaderTypeOK
  <2> QED
    BY <1>1, <1>2, <2>2 DEF Will
<1> QED
  BY <1>1, <1>2 DEF Reported, OnItsWay

LEMMA ReportedStep ==
    ASSUME ~CanReload, LoaderTypeOK, LoadedOnce, Reported, [Next]_vars
    PROVE  Reported'
<1>1. CASE Write
  <2>1. CASE watch = "no"
    <3>1. owed' = {}
      BY <1>1, <2>1 DEF Write, LoadedOnce
    <3> QED
      BY <3>1 DEF Reported
  <2>2. CASE watch # "no"
    <3>1. events' > 0
      BY <1>1, <2>2 DEF Write, LoaderTypeOK
    <3> QED
      BY <3>1 DEF Reported, OnItsWay
  <2> QED
    BY <2>1, <2>2
<1>2. CASE Loading
  <2>1. CASE LoadTakes
    <3>1. owed' = {}
      BY <2>1 DEF LoadTakes, LoadedOnce
    <3> QED
      BY <3>1 DEF Reported
  <2>2. CASE LoadReads \/ WatchConfig \/ OnConfigChange
    BY <2>2, WayStays DEF LoadReads, WatchConfig, OnConfigChange
  <2> QED
    BY <1>2, <2>1, <2>2 DEF Loading
<1>3. CASE OnChange
  BY <1>3, WayStays DEF OnChange
<1>4. CASE Close
  BY <1>4 DEF Close, Reported
<1>5. CASE Watching
  <2>1. CASE WatcherReads \/ WatcherTakes
    <3>1. watcher'.at # "idle"
      BY <2>1 DEF WatcherReads, WatcherTakes, LoaderTypeOK
    <3> QED
      BY <3>1 DEF Reported, OnItsWay
  <2>2. CASE Hook
    BY <2>2, HookKeeps
  <2> QED
    BY <1>5, <2>1, <2>2 DEF Watching
<1>6. ASSUME NEW r \in Runs, Calling(r)
      PROVE  Reported'
  BY <1>6, BeginKeeps, ApplyKeeps, PanicKeeps, EndKeeps DEF Calling
<1>7. CASE UNCHANGED vars
  BY <1>7, WayStays DEF vars
<1> QED
  BY <1>1, <1>2, <1>3, <1>4, <1>5, <1>6, <1>7 DEF Next

-----------------------------------------------------------------------------
(* Every variable keeps its type, whether or not Load is called again. *)
THEOREM LoaderTypeCorrect == Spec => []LoaderTypeOK
<1>1. Init => LoaderTypeOK
  BY InitInv DEF IInv
<1>2. LoaderTypeOK /\ [Next]_vars => LoaderTypeOK'
  BY TypeStep
<1> QED
  BY <1>1, <1>2, PTL DEF Spec

LEMMA Invariant ==
    ASSUME ~CanReload
    PROVE  Spec => []IInv
<1>1. Init => IInv
  BY InitInv
<1>2. IInv /\ [Next]_vars => IInv'
  BY TypeStep, LoadedStep, FreshStep, ReportedStep DEF IInv
<1> QED
  BY <1>1, <1>2, PTL DEF Spec

(***************************************************************************)
(* A loader whose Load is called once does not come to rest with a change  *)
(* that a registered callback has not seen, however many changes, panics   *)
(* and overlapping runs of executeCallbacks there are (startWatching,      *)
(* executeCallbacks).                                                      *)
(***************************************************************************)
THEOREM RestsUpToDateTheorem ==
    ASSUME ~CanReload
    PROVE  Spec => []RestsUpToDate
<1>1. IInv => RestsUpToDate
  <2> SUFFICES ASSUME IInv, AtRest, ~done, NEW c \in owed \ Panicky
               PROVE  UpToDate(c)
    BY DEF RestsUpToDate
  <2>1. <<mem, mem>> \in seen[c]
    BY DEF IInv, Reported, OnItsWay, Will, AtRest
  <2>2. file.good => mem = file.version
    BY DEF IInv, Fresh, AtRest
  <2> QED
    BY <2>1, <2>2 DEF UpToDate
<1> QED
  BY <1>1, Invariant, PTL
=============================================================================
