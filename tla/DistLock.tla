------------------------------ MODULE DistLock -------------------------------
(***************************************************************************)
(* lock/redis.go: distributed locks of one name.  A redisLock holds a      *)
(* redsync mutex whose random value is the token it wrote to the Redis     *)
(* key, and, when enabled, a watchdog goroutine that renews the key every  *)
(* watchdogInterval(TTL).                                                  *)
(*                                                                         *)
(* Each lock has one client goroutine (a Lock must not be shared between   *)
(* goroutines) next to its watchdog, so muMu is only ever waited for while *)
(* startWatchdog keeps it: at pc "stopOld".  Redis and redsync are         *)
(* modelled from how this code uses them.                                  *)
(*                                                                         *)
(* Time advances in ticks.  MaxDelay bounds how late a renewal ends, and   *)
(* how long a client takes from the key being set to its watchdog running. *)
(***************************************************************************)
EXTENDS Integers

CONSTANTS
    Locks,           \* Lock values made by Client.New with the same name
    TTL,             \* LockOption.TTL, in ticks
    RetryCount,      \* LockOption.RetryCount
    EnableWatchdog,  \* LockOption.EnableWatchdog
    MaxDelay,        \* see above
    MaxErrors,       \* bound on the Redis calls that fail
    MaxTokens,       \* bound on the calls of Acquire and TryAcquire
    CanReacquire     \* whether a client acquires again without Release

(* Seeded fault: a whole TTL. *)
watchdogInterval_Whole(ttl) == ttl

(* The period of the watchdog; a TTL below three units still gets one. *)
watchdogInterval(ttl) ==
    IF ttl \div 3 > 0 THEN ttl \div 3
    ELSE IF ttl \div 2 > 0 THEN ttl \div 2 ELSE ttl

ASSUME LockAssumption ==
    /\ TTL \in Nat \ {0}
    /\ RetryCount \in Nat \ {0}
    /\ EnableWatchdog \in BOOLEAN
    /\ MaxDelay \in Nat
    /\ MaxErrors \in Nat
    /\ MaxTokens \in Nat
    /\ CanReacquire \in BOOLEAN

VARIABLES
    key,       \* the token under the name in Redis, 0 when there is none
    ttl,       \* its remaining lifetime
    expired,   \* the tokens that ran out
    drawn,     \* tokens drawn so far
    errs,      \* Redis calls failed so far
    mu,        \* l.mu of each lock: the token it holds and its tries
    wd,        \* the goroutine of l.wd
    pc,        \* place of the client of each lock
    token,     \* value drawn by the LockContext under way
    tried,     \* its attempts so far
    late,      \* ticks since its key was set
    holders    \* locks whose client believes to hold the lock

vars == <<key, ttl, expired, drawn, errs, mu, wd, pc, token, tried, late, holders>>

redisVars  == <<key, ttl, expired, errs>>
clientVars == <<token, tried, late, holders>>

LockPC == {"idle", "lock", "refused", "start", "tryLock", "swap",
           "stopOld", "stopWd", "unlock"}

(* Seeded fault: one attempt too many. *)
NewMutex_OneMore == [value |-> 0, tries |-> RetryCount + 1]

NewMutex == [value |-> 0, tries |-> RetryCount]

NoWatchdog  == [pc |-> "none", timer |-> 0, value |-> 0]
newWatchdog == [pc |-> "sleep", timer |-> watchdogInterval(TTL), value |-> 0]

TypeOK ==
    /\ key \in Nat
    /\ ttl \in 0..TTL
    /\ expired \subseteq Nat
    /\ drawn \in Nat
    /\ errs \in 0..MaxErrors
    /\ mu \in [Locks -> [value : Nat, tries : 1..RetryCount]]
    /\ wd \in [Locks -> [pc : {"none", "sleep", "renew", "extend"},
                         timer : (-MaxDelay)..TTL, value : Nat]]
    /\ pc \in [Locks -> LockPC]
    /\ token \in [Locks -> Nat]
    /\ tried \in [Locks -> 0..RetryCount]
    /\ late \in [Locks -> 0..MaxDelay]
    /\ holders \subseteq Locks

Init ==
    /\ key = 0 /\ ttl = 0 /\ expired = {} /\ drawn = 0 /\ errs = 0
    /\ mu = [l \in Locks |-> NewMutex]
    /\ wd = [l \in Locks |-> NoWatchdog]
    /\ pc = [l \in Locks |-> "idle"]
    /\ token = [l \in Locks |-> 0]
    /\ tried = [l \in Locks |-> 0]
    /\ late = [l \in Locks |-> 0]
    /\ holders = {}
-----------------------------------------------------------------------------
(* Redis and redsync, external *)

RedisError == errs < MaxErrors /\ errs' = errs + 1

SetNX(t) == key = 0 /\ key' = t /\ ttl' = TTL

(***************************************************************************)
(* An attempt of LockContext that does not succeed: the key is there, or   *)
(* the call fails, and then the key may have been set all the same.        *)
(***************************************************************************)
AttemptFails(l) ==
    \/ key # 0 /\ UNCHANGED <<key, ttl, errs>>
    \/ RedisError /\ UNCHANGED <<key, ttl>>
    \/ RedisError /\ SetNX(token[l])

(* Seeded fault: the scripts do not compare the token. *)
Matches_Any(t) == key # 0

(* ExtendContext and UnlockContext compare the token in a script. *)
Matches(t) == key # 0 /\ key = t

-----------------------------------------------------------------------------
(* Acquire *)

Goto(l, place) == pc' = [pc EXCEPT ![l] = place]

(* The call returns and its locals are gone. *)
Done(l) ==
    /\ Goto(l, "idle")
    /\ token' = [token EXCEPT ![l] = 0]
    /\ tried' = [tried EXCEPT ![l] = 0]
    /\ late' = [late EXCEPT ![l] = 0]

Running(l) == wd[l].pc # "none"

(* LockContext draws one random value for all its attempts. *)
Call(l, place) ==
    /\ pc[l] = "idle"
    /\ CanReacquire \/ (l \notin holders /\ ~Running(l))
    /\ drawn < MaxTokens
    /\ drawn' = drawn + 1
    /\ token' = [token EXCEPT ![l] = drawn + 1]
    /\ Goto(l, place)
    /\ UNCHANGED <<redisVars, mu, wd, tried, late, holders>>

Acquire(l) == Call(l, "lock")

(***************************************************************************)
(* The watchdog of an earlier Acquire, if any, has the same redsync mutex; *)
(* an extension under way reads its value before or after it is written.   *)
(***************************************************************************)
LockSucceeds(l) ==
    /\ pc[l] = "lock"
    /\ SetNX(token[l])
    /\ mu' = [mu EXCEPT ![l].value = token[l]]
    /\ \/ UNCHANGED wd
       \/ wd[l].pc = "extend" /\ wd' = [wd EXCEPT ![l].value = token[l]]
    /\ Goto(l, "start")
    /\ UNCHANGED <<expired, errs, drawn, clientVars>>

LockFails(l) ==
    /\ pc[l] = "lock"
    /\ AttemptFails(l)
    /\ tried' = [tried EXCEPT ![l] = tried[l] + 1]
    /\ Goto(l, IF tried[l] + 1 < mu[l].tries THEN "lock" ELSE "refused")
    /\ UNCHANGED <<expired, drawn, mu, wd, token, late, holders>>

(* ErrNotAcquired, or the error of a context that ended between attempts. *)
AcquireReturns(l) ==
    /\ pc[l] \in {"lock", "refused"}
    /\ Done(l)
    /\ UNCHANGED <<redisVars, drawn, mu, wd, holders>>

-----------------------------------------------------------------------------
(***************************************************************************)
(* startWatchdog, with muMu held.  A watchdog left from before is told to  *)
(* stop and waited for, muMu still held.                                   *)
(***************************************************************************)
startWatchdog(l) ==
    IF EnableWatchdog /\ Running(l)
      THEN Goto(l, "stopOld") /\ UNCHANGED <<wd, clientVars>>
      ELSE /\ wd' = [wd EXCEPT ![l] = IF EnableWatchdog THEN newWatchdog ELSE wd[l]]
           /\ Done(l)
           /\ holders' = holders \cup {l}

StartWatchdog(l) ==
    /\ pc[l] = "start"
    /\ startWatchdog(l)
    /\ UNCHANGED <<redisVars, drawn, mu>>

OldWatchdogEnded(l) ==
    /\ pc[l] = "stopOld"
    /\ ~Running(l)
    /\ wd' = [wd EXCEPT ![l] = newWatchdog]
    /\ Done(l)
    /\ holders' = holders \cup {l}
    /\ UNCHANGED <<redisVars, drawn, mu>>

-----------------------------------------------------------------------------
(* TryAcquire: one attempt with a temporary mutex, which then replaces l.mu *)

TryAcquire(l) == Call(l, "tryLock")

TryLock(l) ==
    /\ pc[l] = "tryLock"
    /\ \/ /\ SetNX(token[l])
          /\ Goto(l, "swap")
          /\ UNCHANGED <<errs, token, tried, late>>
       \/ AttemptFails(l) /\ Done(l)
    /\ UNCHANGED <<expired, drawn, mu, wd, holders>>

(* Seeded fault: l.mu is not replaced. *)
Swap_KeepsOld(l) ==
    /\ pc[l] = "swap"
    /\ startWatchdog(l)
    /\ UNCHANGED <<redisVars, drawn, mu>>

Swap(l) ==
    /\ pc[l] = "swap"
    /\ mu' = [mu EXCEPT ![l] = [value |-> token[l], tries |-> 1]]
    /\ startWatchdog(l)
    /\ UNCHANGED <<redisVars, drawn>>

-----------------------------------------------------------------------------
(* Release and Renew *)

(* Seeded fault: the watchdog is left alone. *)
Release_KeepsWatchdog(l) ==
    /\ pc[l] = "idle"
    /\ l \in holders
    /\ Goto(l, "unlock")
    /\ holders' = holders \ {l}
    /\ UNCHANGED <<redisVars, drawn, mu, wd, token, tried, late>>

(* Take the watchdog and the mutex; the watchdog is stopped without muMu. *)
Release(l) ==
    /\ pc[l] = "idle"
    /\ Goto(l, IF Running(l) THEN "stopWd" ELSE "unlock")
    /\ holders' = holders \ {l}
    /\ UNCHANGED <<redisVars, drawn, mu, wd, token, tried, late>>

WatchdogEnded(l) ==
    /\ pc[l] = "stopWd"
    /\ ~Running(l)
    /\ Goto(l, "unlock")
    /\ UNCHANGED <<redisVars, drawn, mu, wd, clientVars>>

(* The key is deleted if it is ours; a call that fails may have done it. *)
Unlock(l) ==
    /\ pc[l] = "unlock"
    /\ \/ /\ Matches(mu[l].value)
          /\ key' = 0 /\ ttl' = 0
          /\ UNCHANGED errs \/ RedisError
       \/ /\ ~Matches(mu[l].value)
          /\ UNCHANGED <<key, ttl, errs>>
       \/ RedisError /\ UNCHANGED <<key, ttl>>
    /\ Goto(l, "idle")
    /\ UNCHANGED <<expired, drawn, mu, wd, clientVars>>

(* Renew by the client, who gives the lock up on ErrLockExpired. *)
Renew(l) ==
    /\ pc[l] = "idle"
    /\ l \in holders
    /\ \/ /\ Matches(mu[l].value)
          /\ ttl' = TTL
          /\ UNCHANGED <<errs, holders>>
       \/ /\ ~Matches(mu[l].value)
          /\ holders' = holders \ {l}
          /\ UNCHANGED <<ttl, errs>>
       \/ RedisError /\ UNCHANGED <<ttl, holders>>
    /\ UNCHANGED <<key, expired, drawn, mu, wd, pc, token, tried, late>>

-----------------------------------------------------------------------------
(* The goroutine of newWatchdog; stop is closed while a client waits for it *)

StopClosed(l) == pc[l] \in {"stopOld", "stopWd"}

(* Seeded fault: the select has no case for stop. *)
WatchdogStops_Never(l) == StopClosed(l) /\ UNCHANGED vars

WatchdogStops(l) ==
    /\ wd[l].pc = "sleep"
    /\ StopClosed(l)
    /\ wd' = [wd EXCEPT ![l] = NoWatchdog]
    /\ UNCHANGED <<redisVars, drawn, mu, pc, clientVars>>

WatchdogFires(l) ==
    /\ wd[l].pc = "sleep"
    /\ wd[l].timer <= 0
    /\ wd' = [wd EXCEPT ![l].pc = "renew"]
    /\ UNCHANGED <<redisVars, drawn, mu, pc, clientVars>>

MuMuFree(l) == pc[l] # "stopOld"

(* l.Renew: take muMu for a moment to read l.mu ... *)
WatchdogReadsMu(l) ==
    /\ wd[l].pc = "renew"
    /\ MuMuFree(l)
    /\ wd' = [wd EXCEPT ![l].pc = "extend", ![l].value = mu[l].value]
    /\ UNCHANGED <<redisVars, drawn, mu, pc, clientVars>>

(* ... and extend the key; whatever comes of it, go on. *)
WatchdogExtends(l) ==
    /\ wd[l].pc = "extend"
    /\ \/ Matches(wd[l].value) /\ ttl' = TTL /\ UNCHANGED errs
       \/ ~Matches(wd[l].value) /\ UNCHANGED <<ttl, errs>>
       \/ RedisError /\ UNCHANGED ttl
    /\ wd' = [wd EXCEPT ![l] = newWatchdog]
    /\ UNCHANGED <<key, expired, drawn, mu, pc, clientVars>>

-----------------------------------------------------------------------------
(* Time *)

Starting(l) == pc[l] \in {"start", "swap"}
Waiting(l)  == wd[l].pc = "renew" /\ ~MuMuFree(l)

(* Nobody whose delay is bounded is at the bound. *)
OnTime(l) ==
    /\ Starting(l) => late[l] < MaxDelay
    /\ Running(l) /\ ~Waiting(l) => wd[l].timer > -MaxDelay

Tick ==
    /\ \A l \in Locks : OnTime(l)
    /\ ttl' = IF ttl = 0 THEN 0 ELSE ttl - 1
    /\ key' = IF ttl <= 1 THEN 0 ELSE key
    /\ expired' = IF ttl = 1 THEN expired \cup {key} ELSE expired
    /\ wd' = [l \in Locks |->
                IF Running(l) /\ ~Waiting(l)
                  THEN [wd[l] EXCEPT !.timer = wd[l].timer - 1] ELSE wd[l]]
    /\ late' = [l \in Locks |-> IF Starting(l) THEN late[l] + 1 ELSE late[l]]
    /\ UNCHANGED <<errs, drawn, mu, pc, token, tried, holders>>

-----------------------------------------------------------------------------
ClientStep(l) ==
    \/ LockSucceeds(l) \/ LockFails(l) \/ AcquireReturns(l)
    \/ StartWatchdog(l) \/ OldWatchdogEnded(l)
    \/ TryLock(l) \/ Swap(l)
    \/ WatchdogEnded(l) \/ Unlock(l)

ClientCall(l) == Acquire(l) \/ TryAcquire(l) \/ Release(l) \/ Renew(l)

WatchdogStep(l) ==
    WatchdogStops(l) \/ WatchdogFires(l) \/ WatchdogReadsMu(l) \/ WatchdogExtends(l)

Next ==
    \/ \E l \in Locks : ClientCall(l) \/ ClientStep(l) \/ WatchdogStep(l)
    \/ Tick

Spec == Init /\ [][Next]_vars

(***************************************************************************)
(* Calls to Redis end, goroutines are scheduled and time passes; a select  *)
(* that finds stop closed in round after round takes that case in the end  *)
(* (at its entry the timer, armed anew, is not ready).                     *)
(***************************************************************************)
Fairness ==
    /\ \A l \in Locks : WF_vars(ClientStep(l)) /\ WF_vars(WatchdogStep(l))
    /\ \A l \in Locks : SF_vars(WatchdogStops(l))
    /\ WF_vars(Tick)

FairSpec == Spec /\ Fairness

-----------------------------------------------------------------------------
(* Properties *)

(***************************************************************************)
(* Renewals "every TTL/3" (lock.go:105) come in time: even if every Redis  *)
(* failure hits a renewal, one succeeds before the key runs out.           *)
(***************************************************************************)
Timely ==
    /\ TTL >= 3
    /\ (MaxErrors + 1) * (TTL \div 3 + MaxDelay) + MaxDelay < TTL

(***************************************************************************)
(* With the watchdog on and renewals in time, a client that believes to    *)
(* hold the lock has its token in Redis, for as long as it likes.          *)
(***************************************************************************)
WatchdogKeepsLock ==
    EnableWatchdog /\ Timely => \A l \in holders : key = mu[l].value

(***************************************************************************)
(* Under the same conditions the locks of one name are a mutex: Acquire    *)
(* and TryAcquire let a client in when nobody is in, Release and a Renew   *)
(* that finds the lock gone let it out, and nothing else changes who is.   *)
(***************************************************************************)
Abstract  == INSTANCE Mutex WITH Clients <- Locks
Exclusion == Abstract!Spec

(***************************************************************************)
(* A holder loses the key only because it ran out: no Release, Renew,      *)
(* TryAcquire or watchdog of another lock, or of an earlier acquisition,   *)
(* takes it away.                                                          *)
(***************************************************************************)
LostOnlyByExpiry ==
    \A l \in holders : key = mu[l].value \/ mu[l].value \in expired

(* Acquire, TryAcquire and Release return. *)
CallsReturn == \A l \in Locks : pc[l] # "idle" ~> pc[l] = "idle"

(***************************************************************************)
(* A key that no client means to hold any more goes away, also when the    *)
(* call that should have deleted it failed.                                *)
(***************************************************************************)
Wanted(t) == \E l \in Locks :
                \/ l \in holders /\ mu[l].value = t
                \/ pc[l] \in {"lock", "tryLock", "start", "swap", "stopOld"} /\ token[l] = t

AbandonedKeyGoes ==
    \A t \in 1..MaxTokens : key = t /\ ~Wanted(t) ~> key # t
=============================================================================
