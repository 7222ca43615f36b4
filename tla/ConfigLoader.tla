---------------------------- MODULE ConfigLoader ----------------------------
(***************************************************************************)
(* config/viper.go: a loader that reads a file, watches it and calls back  *)
(* those who registered with OnChange.                                     *)
(*                                                                         *)
(* viper and fsnotify are external: a change of the file makes one or two  *)
(* events; viper's goroutine takes one, reads the file, puts the content   *)
(* in memory if it could be parsed, and calls the hook in either case.     *)
(* The content is a version, of which a callback reads two keys, one after *)
(* the other, without a lock.                                              *)
(***************************************************************************)
EXTENDS Integers, Sequences, FiniteSets

CONSTANTS
    NCallback,   \* callbacks the application registers, in this order
    Panicky,     \* those of them that panic
    MaxWrites,   \* bound on the changes of the file
    MaxRuns,     \* bound on the runs of executeCallbacks under way at once
    CanReload    \* whether Load is called again later

Callbacks == 1..NCallback
Runs      == 1..MaxRuns

ASSUME ConfigLoaderAssumption ==
    /\ {NCallback, MaxWrites, MaxRuns} \subseteq Nat
    /\ Panicky \subseteq Callbacks
    /\ CanReload \in BOOLEAN

VARIABLES
    file,       \* version of the file and whether it can be parsed
    events,     \* fsnotify events viper has not taken
    mem,        \* viper's copy
    load,       \* the call of Load under way
    watch,      \* what startWatching has done: nothing, WatchConfig, the hook set
    watcher,    \* viper's goroutine
    callbacks,  \* how many are registered
    timer,      \* debounceTimer is running
    run,        \* goroutines in executeCallbacks
    done,       \* Close was called
    seen,       \* contents a callback got from apply (for the properties)
    owed        \* callbacks that were registered when the watched file changed

vars == <<file, events, mem, load, watch, watcher, callbacks, timer, run, done, seen, owed>>

NotRun == [on |-> FALSE, todo |-> <<>>, half |-> -1]

Init ==
    /\ file = [version |-> 0, good |-> TRUE]
    /\ events = 0
    /\ mem = -1
    /\ load = [at |-> "no", got |-> file]
    /\ watch = "no"
    /\ watcher = [at |-> "idle", got |-> file]
    /\ callbacks = 0
    /\ timer = FALSE
    /\ run = [r \in Runs |-> NotRun]
    /\ done = FALSE
    /\ seen = [c \in Callbacks |-> {}]
    /\ owed = {}

-----------------------------------------------------------------------------
(* Someone changes the file. *)
Write ==
    /\ file.version < MaxWrites
    /\ \E good \in BOOLEAN : file' = [version |-> file.version + 1, good |-> good]
    /\ \E n \in 1..2 : events' = IF watch = "no" THEN 0 ELSE events + n
    /\ owed' = IF watch = "hooked" THEN owed \cup 1..callbacks ELSE owed
    /\ UNCHANGED <<mem, load, watch, watcher, callbacks, timer, run, done, seen>>

(* ReadInConfig has read and parsed; its content takes the place of the old one. *)
Takes(got) == mem' = IF got.good THEN got.version ELSE mem

(* Load, under mu: read the file, and once start watching it. *)
LoadReads ==
    /\ load.at \in IF CanReload THEN {"no", "end"} ELSE {"no"}
    /\ load' = [at |-> "read", got |-> file]
    /\ UNCHANGED <<file, events, mem, watch, watcher, callbacks, timer, run, done, seen, owed>>

LoadTakes ==
    /\ load.at = "read"
    /\ Takes(load.got)
    /\ load' = [load EXCEPT !.at = CASE watch # "no" -> "end"
                                     [] watch = "no" /\ load.got.good -> "watch"
                                     [] OTHER -> "no"]
    /\ UNCHANGED <<file, events, watch, watcher, callbacks, timer, run, done, seen, owed>>

(* startWatching: viper's goroutine first, then the hook it is to call *)
WatchConfig ==
    /\ load.at = "watch" /\ watch = "no"
    /\ watch' = "watching"
    /\ UNCHANGED <<file, events, mem, load, watcher, callbacks, timer, run, done, seen, owed>>

OnConfigChange ==
    /\ load.at = "watch" /\ watch = "watching"
    /\ watch' = "hooked"
    /\ load' = [load EXCEPT !.at = "end"]
    /\ UNCHANGED <<file, events, mem, watcher, callbacks, timer, run, done, seen, owed>>

(* mu is held by Load; executeCallbacks and OnChange wait for it. *)
Unlocked == load.at \in {"no", "end"}

OnChange ==
    /\ Unlocked
    /\ callbacks < NCallback
    /\ callbacks' = callbacks + 1
    /\ UNCHANGED <<file, events, mem, load, watch, watcher, timer, run, done, seen, owed>>

Close ==
    /\ ~done
    /\ done' = TRUE
    /\ UNCHANGED <<file, events, mem, load, watch, watcher, callbacks, timer, run, seen, owed>>

-----------------------------------------------------------------------------
(* viper's goroutine *)
WatcherReads ==
    /\ watcher.at = "idle" /\ events > 0
    /\ events' = events - 1
    /\ watcher' = [at |-> "read", got |-> file]
    /\ UNCHANGED <<file, mem, load, watch, callbacks, timer, run, done, seen, owed>>

WatcherTakes ==
    /\ watcher.at = "read"
    /\ Takes(watcher.got)
    /\ watcher' = [watcher EXCEPT !.at = "call"]
    /\ UNCHANGED <<file, events, load, watch, callbacks, timer, run, done, seen, owed>>

(* Seeded fault: an event is ignored while callbacks are being called. *)
Hook_Busy ==
    /\ watcher.at = "call"
    /\ timer' = (timer \/ (watch = "hooked" /\ ~done /\ \A r \in Runs : ~run[r].on))
    /\ watcher' = [watcher EXCEPT !.at = "idle"]
    /\ UNCHANGED <<file, events, mem, load, watch, callbacks, run, done, seen, owed>>

(* The hook: the timer starts again, whether it was running or not. *)
Hook ==
    /\ watcher.at = "call"
    /\ timer' = (timer \/ (watch = "hooked" /\ ~done))
    /\ watcher' = [watcher EXCEPT !.at = "idle"]
    /\ UNCHANGED <<file, events, mem, load, watch, callbacks, run, done, seen, owed>>

-----------------------------------------------------------------------------
(***************************************************************************)
(* executeCallbacks, in the timer's goroutine: several of them may be      *)
(* under way, when callbacks take longer than the timer.                   *)
(***************************************************************************)
executeCallbacks(r) ==
    /\ timer /\ Unlocked
    /\ ~run[r].on /\ \A q \in 1..(r - 1) : run[q].on
    /\ timer' = FALSE
    /\ run' = [run EXCEPT ![r] = IF done THEN @
                 ELSE [on |-> TRUE, todo |-> [k \in 1..callbacks |-> k], half |-> -1]]
    /\ UNCHANGED <<file, events, mem, load, watch, watcher, callbacks, done, seen, owed>>

(* A callback calls apply, which reads one key and then the other. *)
Apply(r) ==
    /\ run[r].on /\ run[r].todo # <<>>
    /\ LET c == Head(run[r].todo)
       IN  IF run[r].half < 0
             THEN run' = [run EXCEPT ![r].half = mem] /\ UNCHANGED seen
             ELSE /\ run' = [run EXCEPT ![r].half = -1, ![r].todo = Tail(@)]
                  /\ seen' = [seen EXCEPT ![c] = @ \cup {<<run[r].half, mem>>}]
    /\ UNCHANGED <<file, events, mem, load, watch, watcher, callbacks, timer, done, owed>>

(* A panic is recovered and the next callback is called. *)
Panic(r) ==
    /\ run[r].on /\ run[r].todo # <<>> /\ Head(run[r].todo) \in Panicky
    /\ run' = [run EXCEPT ![r].half = -1, ![r].todo = Tail(@)]
    /\ UNCHANGED <<file, events, mem, load, watch, watcher, callbacks, timer, done, seen, owed>>

RunEnds(r) ==
    /\ run[r].on /\ run[r].todo = <<>>
    /\ run' = [run EXCEPT ![r] = NotRun]
    /\ UNCHANGED <<file, events, mem, load, watch, watcher, callbacks, timer, done, seen, owed>>

-----------------------------------------------------------------------------
Loading  == LoadReads \/ LoadTakes \/ WatchConfig \/ OnConfigChange
Watching == WatcherReads \/ WatcherTakes \/ Hook
Calling(r) == executeCallbacks(r) \/ Apply(r) \/ Panic(r) \/ RunEnds(r)

Next == Write \/ Loading \/ OnChange \/ Close \/ Watching \/ \E r \in Runs : Calling(r)

Spec == Init /\ [][Next]_vars

(* Goroutines go on, the timer fires and mu lets everyone in: strong fairness for  *)
(* who needs it.  Nobody has to load, write or close.                              *)
FairSpec == /\ Spec
            /\ WF_vars(LoadTakes \/ WatchConfig \/ OnConfigChange)
            /\ WF_vars(Watching)
            /\ SF_vars(\E r \in Runs : executeCallbacks(r))
            /\ \A r \in Runs : WF_vars(Apply(r) \/ Panic(r) \/ RunEnds(r))

-----------------------------------------------------------------------------
(***************************************************************************)
(* A callback that was registered when the watched file changed gets to    *)
(* see the last content that could be read, both keys of it, in some call  *)
(* of apply, unless the loader is closed: neither the debouncing, nor runs *)
(* that overlap, nor a panic of another callback loses the change          *)
(* (startWatching, executeCallbacks).                                      *)
(***************************************************************************)
UpToDate(c) == <<mem, mem>> \in seen[c] /\ (file.good => mem = file.version)

NoChangeMissed == <>[](done \/ \A c \in owed \ Panicky : UpToDate(c))

(***************************************************************************)
(* The loader does not come to rest with a change unreported: when no      *)
(* event is left, viper's goroutine waits for one, the timer is off and no *)
(* callback is being called, those who were owed the change have seen it.  *)
(***************************************************************************)
AtRest == events = 0 /\ watcher.at = "idle" /\ ~timer /\ \A r \in Runs : ~run[r].on

RestsUpToDate == AtRest /\ ~done => \A c \in owed \ Panicky : UpToDate(c)
=============================================================================
