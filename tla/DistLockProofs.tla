---------------------------- MODULE DistLockProofs ----------------------------
(***************************************************************************)
(* Proofs about DistLock: types, that a holder loses its key only when it  *)
(* runs out, and that timely renewals keep it.                             *)
(***************************************************************************)
EXTENDS DistLock, TLAPS

Interval == watchdogInterval(TTL)

WatchdogType == [pc : {"none", "sleep", "renew", "extend"},
                 timer : (-MaxDelay)..TTL, value : Nat]

(* The period of the watchdog is positive and at most the TTL. *)
LEMMA IntervalType == Interval \in 1..TTL
  BY LockAssumption DEF Interval, watchdogInterval

(* The records the program builds have their types. *)
LEMMA RecordTypes ==
    /\ NewMutex \in [value : Nat, tries : 1..RetryCount]
    /\ NoWatchdog \in WatchdogType
    /\ newWatchdog \in WatchdogType
  BY IntervalType, LockAssumption
  DEF Interval, NewMutex, NoWatchdog, newWatchdog, WatchdogType

-----------------------------------------------------------------------------
(***************************************************************************)
(* What TypeOK needs of its own past: LockContext has an attempt left at   *)
(* "lock", and a call starts with none made.                               *)
(***************************************************************************)
Attempts ==
    \A l \in Locks :
       /\ pc[l] = "lock" => tried[l] < mu[l].tries
       /\ pc[l] \notin {"lock", "refused", "start", "stopOld"} => tried[l] = 0

(* A failed attempt keeps the types of what Redis holds. *)
LEMMA AttemptType ==
    ASSUME TypeOK, NEW l \in Locks, AttemptFails(l)
    PROVE  key' \in Nat /\ ttl' \in 0..TTL /\ errs' \in 0..MaxErrors
  BY LockAssumption DEF TypeOK, AttemptFails, RedisError, SetNX

(* Returning keeps the types of the locals. *)
LEMMA DoneType ==
    ASSUME TypeOK, NEW l \in Locks, Done(l)
    PROVE  /\ pc' \in [Locks -> LockPC]
           /\ token' \in [Locks -> Nat]
           /\ tried' \in [Locks -> 0..RetryCount]
           /\ late' \in [Locks -> 0..MaxDelay]
<1>1. /\ pc \in [Locks -> LockPC] /\ token \in [Locks -> Nat]
      /\ tried \in [Locks -> 0..RetryCount] /\ late \in [Locks -> 0..MaxDelay]
  BY DEF TypeOK
<1>2. "idle" \in LockPC /\ 0 \in 0..RetryCount /\ 0 \in 0..MaxDelay
  BY LockAssumption DEF LockPC
<1> QED BY <1>1, <1>2 DEF Done, Goto

(* startWatchdog keeps the types of what it assigns. *)
LEMMA StartType ==
    ASSUME TypeOK, NEW l \in Locks, startWatchdog(l)
    PROVE  /\ wd' \in [Locks -> WatchdogType]
           /\ pc' \in [Locks -> LockPC]
           /\ token' \in [Locks -> Nat]
           /\ tried' \in [Locks -> 0..RetryCount]
           /\ late' \in [Locks -> 0..MaxDelay]
           /\ holders' \subseteq Locks
<1>1. CASE EnableWatchdog /\ Running(l)
  BY <1>1 DEF TypeOK, WatchdogType, startWatchdog, Goto, LockPC, clientVars
<1>2. CASE ~(EnableWatchdog /\ Running(l))
  <2>1. wd' \in [Locks -> WatchdogType]
    BY <1>2, RecordTypes DEF TypeOK, WatchdogType, startWatchdog
  <2>2. /\ pc' \in [Locks -> LockPC]
        /\ token' \in [Locks -> Nat]
        /\ tried' \in [Locks -> 0..RetryCount]
        /\ late' \in [Locks -> 0..MaxDelay]
    BY <1>2, DoneType DEF startWatchdog
  <2> QED BY <1>2, <2>1, <2>2 DEF TypeOK, startWatchdog
<1> QED BY <1>1, <1>2

(* Every variable keeps its type, one step at a time. *)
LEMMA TypeStep == TypeOK /\ Attempts /\ [Next]_vars => TypeOK'
<1> SUFFICES ASSUME TypeOK, Attempts, [Next]_vars PROVE TypeOK'
  OBVIOUS
<1> USE LockAssumption
<1>1. ASSUME NEW l \in Locks, ClientCall(l) PROVE TypeOK'
  <2>1. CASE Acquire(l) \/ TryAcquire(l)
    <3>1. PICK place \in {"lock", "tryLock"} : Call(l, place)
      BY <2>1 DEF Acquire, TryAcquire
    <3>2. pc' \in [Locks -> LockPC]
      BY <3>1 DEF TypeOK, Call, Goto, LockPC
    <3>3. drawn' \in Nat /\ token' \in [Locks -> Nat]
      BY <3>1 DEF TypeOK, Call
    <3> QED BY <3>1, <3>2, <3>3 DEF TypeOK, Call, redisVars
  <2>2. CASE Release(l)
    BY <2>2 DEF TypeOK, Release, Goto, LockPC, redisVars
  <2>3. CASE Renew(l)
    BY <2>3 DEF TypeOK, Renew, RedisError
  <2> QED BY <1>1, <2>1, <2>2, <2>3 DEF ClientCall
<1>2. ASSUME NEW l \in Locks, ClientStep(l) PROVE TypeOK'
  <2>1. CASE LockSucceeds(l)
    <3>1. pc' \in [Locks -> LockPC]
      BY <2>1 DEF TypeOK, LockSucceeds, Goto, LockPC
    <3>2. mu' \in [Locks -> [value : Nat, tries : 1..RetryCount]]
      BY <2>1 DEF TypeOK, LockSucceeds
    <3>3. wd' \in [Locks -> WatchdogType]
      <4>1. wd \in [Locks -> WatchdogType] /\ token[l] \in Nat
        BY DEF TypeOK, WatchdogType
      <4>2. [wd[l] EXCEPT !.value = token[l]] \in WatchdogType
        BY <4>1 DEF WatchdogType
      <4> QED BY <2>1, <4>1, <4>2 DEF LockSucceeds
    <3>4. key' \in Nat /\ ttl' \in 0..TTL
      BY <2>1 DEF TypeOK, LockSucceeds, SetNX
    <3> QED BY <2>1, <3>1, <3>2, <3>3, <3>4 DEF TypeOK, WatchdogType, LockSucceeds, clientVars
  <2>2. CASE LockFails(l)
    <3>1. key' \in Nat /\ ttl' \in 0..TTL /\ errs' \in 0..MaxErrors
      BY <2>2, AttemptType DEF LockFails
    <3>2. pc' \in [Locks -> LockPC]
      BY <2>2 DEF TypeOK, LockFails, Goto, LockPC
    <3>3. tried[l] + 1 \in 0..RetryCount
      BY <2>2 DEF TypeOK, Attempts, LockFails
    <3>4. tried' \in [Locks -> 0..RetryCount]
      BY <2>2, <3>3 DEF TypeOK, LockFails
    <3> QED BY <2>2, <3>1, <3>2, <3>4 DEF TypeOK, LockFails
  <2>3. CASE AcquireReturns(l)
    BY <2>3 DEF TypeOK, AcquireReturns, Done, Goto, LockPC, redisVars
  <2>4. CASE StartWatchdog(l)
    BY <2>4, StartType DEF TypeOK, WatchdogType, StartWatchdog, redisVars
  <2>5. CASE OldWatchdogEnded(l)
    <3>1. wd' \in [Locks -> WatchdogType]
      BY <2>5, RecordTypes DEF TypeOK, WatchdogType, OldWatchdogEnded
    <3> QED BY <2>5, <3>1 DEF TypeOK, WatchdogType, OldWatchdogEnded, Done, Goto, LockPC, redisVars
  <2>6. CASE TryLock(l)
    <3>1. key' \in Nat /\ ttl' \in 0..TTL /\ errs' \in 0..MaxErrors
      BY <2>6, AttemptType DEF TypeOK, TryLock, SetNX
    <3>2. /\ pc' \in [Locks -> LockPC]
          /\ token' \in [Locks -> Nat]
          /\ tried' \in [Locks -> 0..RetryCount]
          /\ late' \in [Locks -> 0..MaxDelay]
      <4>1. CASE Done(l)
        BY <4>1, DoneType
      <4>2. CASE Goto(l, "swap") /\ UNCHANGED <<token, tried, late>>
        BY <4>2 DEF TypeOK, Goto, LockPC
      <4> QED BY <2>6, <4>1, <4>2 DEF TryLock
    <3> QED BY <2>6, <3>1, <3>2 DEF TypeOK, TryLock
  <2>7. CASE Swap(l)
    <3>1. mu' \in [Locks -> [value : Nat, tries : 1..RetryCount]]
      BY <2>7 DEF TypeOK, Swap
    <3> QED BY <2>7, <3>1, StartType DEF TypeOK, WatchdogType, Swap, redisVars
  <2>8. CASE WatchdogEnded(l)
    BY <2>8 DEF TypeOK, WatchdogEnded, Goto, LockPC, redisVars, clientVars
  <2>9. CASE Unlock(l)
    BY <2>9 DEF TypeOK, Unlock, RedisError, Goto, LockPC, clientVars
  <2> QED BY <1>2, <2>1, <2>2, <2>3, <2>4, <2>5, <2>6, <2>7, <2>8, <2>9 DEF ClientStep
<1>3. ASSUME NEW l \in Locks, WatchdogStep(l) PROVE TypeOK'
  <2>1. CASE WatchdogStops(l)
    BY <2>1, RecordTypes DEF TypeOK, WatchdogType, WatchdogStops, redisVars, clientVars
  <2>2. CASE WatchdogFires(l)
    BY <2>2 DEF TypeOK, WatchdogFires, redisVars, clientVars
  <2>3. CASE WatchdogReadsMu(l)
    BY <2>3 DEF TypeOK, WatchdogReadsMu, redisVars, clientVars
  <2>4. CASE WatchdogExtends(l)
    BY <2>4, RecordTypes DEF TypeOK, WatchdogType, WatchdogExtends, RedisError, clientVars
  <2> QED BY <1>3, <2>1, <2>2, <2>3, <2>4 DEF WatchdogStep
<1>4. CASE Tick
  <2>1. wd' \in [Locks -> WatchdogType]
    <3> DEFINE next(l) == IF Running(l) /\ ~Waiting(l)
                            THEN [wd[l] EXCEPT !.timer = wd[l].timer - 1] ELSE wd[l]
    <3>0. wd' = [l \in Locks |-> next(l)]
      BY <1>4 DEF Tick
    <3> SUFFICES ASSUME NEW l \in Locks PROVE next(l) \in WatchdogType
      BY <3>0
    <3>1. wd[l] \in WatchdogType
      BY DEF TypeOK, WatchdogType
    <3>2. Running(l) /\ ~Waiting(l) => wd[l].timer - 1 \in (-MaxDelay)..TTL
      BY <1>4, <3>1 DEF Tick, OnTime, WatchdogType
    <3> QED BY <3>1, <3>2 DEF WatchdogType
  <2>2. late' \in [Locks -> 0..MaxDelay]
    BY <1>4 DEF TypeOK, Tick, OnTime
  <2>3. key' \in Nat /\ ttl' \in 0..TTL /\ expired' \subseteq Nat
    <3>1. key \in Nat /\ ttl \in 0..TTL /\ expired \subseteq Nat
      BY DEF TypeOK
    <3> QED BY <1>4, <3>1 DEF Tick
  <2> QED BY <1>4, <2>1, <2>2, <2>3 DEF TypeOK, WatchdogType, Tick
<1>5. CASE UNCHANGED vars
  BY <1>5 DEF TypeOK, vars
<1> QED BY <1>1, <1>2, <1>3, <1>4, <1>5 DEF Next

(* The count of attempts is kept within tries. *)
LEMMA AttemptsStep == TypeOK /\ Attempts /\ [Next]_vars => Attempts'
<1> SUFFICES ASSUME TypeOK, Attempts, [Next]_vars, NEW m \in Locks
             PROVE  /\ pc'[m] = "lock" => tried'[m] < mu'[m].tries
                    /\ pc'[m] \notin {"lock", "refused", "start", "stopOld"} => tried'[m] = 0
  BY DEF Attempts
<1>0. /\ pc[m] = "lock" => tried[m] < mu[m].tries
      /\ pc[m] \notin {"lock", "refused", "start", "stopOld"} => tried[m] = 0
  BY DEF Attempts
<1>1. ASSUME NEW l \in Locks, ClientCall(l) PROVE
        /\ pc'[m] = "lock" => tried'[m] < mu'[m].tries
        /\ pc'[m] \notin {"lock", "refused", "start", "stopOld"} => tried'[m] = 0
  BY <1>0, <1>1, LockAssumption
  DEF TypeOK, ClientCall, Acquire, TryAcquire, Call, Release, Renew, Goto
<1>2. ASSUME NEW l \in Locks, ClientStep(l) PROVE
        /\ pc'[m] = "lock" => tried'[m] < mu'[m].tries
        /\ pc'[m] \notin {"lock", "refused", "start", "stopOld"} => tried'[m] = 0
  <2>1. CASE LockSucceeds(l)
    BY <1>0, <2>1 DEF TypeOK, LockSucceeds, Goto, clientVars
  <2>2. CASE LockFails(l)
    BY <1>0, <2>2 DEF TypeOK, LockFails, Goto
  <2>3. CASE StartWatchdog(l)
    BY <1>0, <2>3 DEF TypeOK, StartWatchdog, startWatchdog, Done, Goto, clientVars
  <2>4. CASE Swap(l)
    BY <1>0, <2>4 DEF TypeOK, Swap, startWatchdog, Done, Goto, clientVars
  <2>5. CASE TryLock(l)
    BY <1>0, <2>5 DEF TypeOK, TryLock, Done, Goto
  <2>6. CASE AcquireReturns(l) \/ OldWatchdogEnded(l)
    BY <1>0, <2>6 DEF TypeOK, AcquireReturns, OldWatchdogEnded, Done, Goto
  <2>7. CASE WatchdogEnded(l) \/ Unlock(l)
    BY <1>0, <2>7 DEF TypeOK, WatchdogEnded, Unlock, Goto, clientVars
  <2> QED BY <1>2, <2>1, <2>2, <2>3, <2>4, <2>5, <2>6, <2>7 DEF ClientStep
<1>3. ASSUME NEW l \in Locks, WatchdogStep(l) PROVE UNCHANGED <<pc, tried, mu>>
  BY <1>3 DEF WatchdogStep, WatchdogStops, WatchdogFires, WatchdogReadsMu, WatchdogExtends, clientVars
<1>4. CASE Tick \/ UNCHANGED vars
  BY <1>0, <1>4 DEF Tick, vars
<1> QED BY <1>0, <1>1, <1>2, <1>3, <1>4 DEF Next

(* The types hold at the start. *)
LEMMA TypeInit == Init => TypeOK /\ Attempts
  BY RecordTypes, LockAssumption DEF Init, TypeOK, WatchdogType, LockPC, Attempts

(***************************************************************************)
(* Types are kept, for any locks, TTL, options and bounds; LockContext     *)
(* makes no more attempts than the RetryCount it was created with.         *)
(***************************************************************************)
THEOREM LockTypeCorrect == Spec => []TypeOK
<1> QED BY TypeInit, TypeStep, AttemptsStep, PTL DEF Spec

-----------------------------------------------------------------------------
(***************************************************************************)
(* Ownership.  A token that was set is in Redis until it runs out or its   *)
(* own lock deletes it; no two locks know the same token.                  *)
(***************************************************************************)
Kept(t) == t # 0 /\ (key = t \/ t \in expired)

TokensDrawn == \A l \in Locks : token[l] <= drawn /\ mu[l].value <= drawn

TokensApart ==
    \A l, m \in Locks : l # m =>
       /\ mu[l].value = mu[m].value => mu[l].value = 0
       /\ token[l] = mu[m].value => token[l] = 0
       /\ token[l] = token[m] => token[l] = 0

Believes(l) == l \in holders \/ pc[l] \in {"start", "stopOld"}

TokensKept ==
    \A l \in Locks :
       /\ Believes(l) => Kept(mu[l].value)
       /\ pc[l] = "swap" => Kept(token[l])
       /\ pc[l] \in {"stopWd", "unlock"} => l \notin holders
       /\ pc[l] \in {"lock", "tryLock"} => token[l] # 0

KeyLives == key # 0 => ttl > 0

Ownership == KeyLives /\ TokensDrawn /\ TokensApart /\ TokensKept

(* Which steps write a token, a mutex or the count of tokens. *)
TokenStep(l) ==
    \/ /\ drawn' = drawn + 1 /\ token' = [token EXCEPT ![l] = drawn + 1] /\ UNCHANGED mu
    \/ /\ drawn' = drawn /\ UNCHANGED token
       /\ mu' = [mu EXCEPT ![l].value = token[l]]
    \/ /\ drawn' = drawn /\ token' \in {token, [token EXCEPT ![l] = 0]}
       /\ mu' \in {mu, [mu EXCEPT ![l] = [value |-> token[l], tries |-> 1]]}

(* Tokens only move from a call to the mutex of its own lock. *)
LEMMA TokensMove ==
    ASSUME TypeOK, TokensDrawn, TokensApart, NEW l \in Locks, TokenStep(l)
    PROVE  TokensDrawn' /\ TokensApart'
<1>1. CASE drawn' = drawn + 1 /\ token' = [token EXCEPT ![l] = drawn + 1] /\ UNCHANGED mu
  BY <1>1 DEF TypeOK, TokensDrawn, TokensApart
<1>2. CASE drawn' = drawn /\ UNCHANGED token /\ mu' = [mu EXCEPT ![l].value = token[l]]
  BY <1>2 DEF TypeOK, TokensDrawn, TokensApart
<1>3. CASE /\ drawn' = drawn /\ token' \in {token, [token EXCEPT ![l] = 0]}
           /\ mu' \in {mu, [mu EXCEPT ![l] = [value |-> token[l], tries |-> 1]]}
  BY <1>3 DEF TypeOK, TokensDrawn, TokensApart
<1> QED BY <1>1, <1>2, <1>3 DEF TokenStep

(* Every step moves tokens that way. *)
LEMMA EveryTokenStep ==
    ASSUME NEW l \in Locks, ClientCall(l) \/ ClientStep(l) \/ WatchdogStep(l)
    PROVE  TokenStep(l)
<1>1. CASE ClientCall(l)
  BY <1>1 DEF TokenStep, ClientCall, Acquire, TryAcquire, Call, Release, Renew
<1>2. CASE ClientStep(l)
  <2>1. CASE LockSucceeds(l)
    BY <2>1 DEF TokenStep, LockSucceeds, clientVars
  <2>2. CASE LockFails(l) \/ AcquireReturns(l) \/ OldWatchdogEnded(l) \/ TryLock(l)
    BY <2>2 DEF TokenStep, LockFails, AcquireReturns, OldWatchdogEnded, TryLock, Done
  <2>3. CASE StartWatchdog(l) \/ Swap(l)
    BY <2>3 DEF TokenStep, StartWatchdog, Swap, startWatchdog, Done, clientVars
  <2>4. CASE WatchdogEnded(l) \/ Unlock(l)
    BY <2>4 DEF TokenStep, WatchdogEnded, Unlock, clientVars
  <2> QED BY <1>2, <2>1, <2>2, <2>3, <2>4 DEF ClientStep
<1>3. CASE WatchdogStep(l)
  BY <1>3 DEF TokenStep, WatchdogStep, WatchdogStops, WatchdogFires, WatchdogReadsMu,
              WatchdogExtends, clientVars
<1> QED BY <1>1, <1>2, <1>3

(***************************************************************************)
(* Only Unlock deletes a key, and only one with the token of its lock;     *)
(* whatever else a lock does to Redis keeps every token that was kept.     *)
(***************************************************************************)
LEMMA KeptByOthers ==
    ASSUME TypeOK, TokensApart, NEW l \in Locks, NEW t \in Nat, Kept(t),
           ClientCall(l) \/ ClientStep(l) \/ WatchdogStep(l)
    PROVE  Kept(t)' \/ (pc[l] = "unlock" /\ t = mu[l].value)
<1>0. SetNX(token[l]) => key = 0
  BY DEF SetNX
<1>1. CASE ClientCall(l)
  BY <1>1 DEF Kept, ClientCall, Acquire, TryAcquire, Call, Release, Renew, redisVars
<1>2. CASE ClientStep(l)
  <2>1. CASE LockSucceeds(l)
    BY <1>0, <2>1 DEF Kept, LockSucceeds
  <2>2. CASE LockFails(l) \/ TryLock(l)
    BY <1>0, <2>2 DEF Kept, LockFails, TryLock, AttemptFails
  <2>3. CASE AcquireReturns(l) \/ StartWatchdog(l) \/ OldWatchdogEnded(l) \/ Swap(l) \/ WatchdogEnded(l)
    BY <2>3 DEF Kept, AcquireReturns, StartWatchdog, OldWatchdogEnded, Swap, WatchdogEnded, redisVars
  <2>4. CASE Unlock(l)
    BY <2>4 DEF Kept, Unlock, Matches
  <2> QED BY <1>2, <2>1, <2>2, <2>3, <2>4 DEF ClientStep
<1>3. CASE WatchdogStep(l)
  BY <1>3 DEF Kept, WatchdogStep, WatchdogStops, WatchdogFires, WatchdogReadsMu,
              WatchdogExtends, redisVars
<1> QED BY <1>1, <1>2, <1>3

(* The part of TokensKept that is about one lock. *)
Keeps(l) ==
    /\ Believes(l) => Kept(mu[l].value)
    /\ pc[l] = "swap" => Kept(token[l])
    /\ pc[l] \in {"stopWd", "unlock"} => l \notin holders
    /\ pc[l] \in {"lock", "tryLock"} => token[l] # 0

(* A step of one lock leaves the variables of the others alone. *)
LEMMA OthersUntouched ==
    ASSUME TypeOK, NEW l \in Locks, NEW m \in Locks, m # l,
           ClientCall(l) \/ ClientStep(l) \/ WatchdogStep(l)
    PROVE  /\ pc'[m] = pc[m] /\ token'[m] = token[m] /\ mu'[m] = mu[m]
           /\ wd'[m] = wd[m] /\ late'[m] = late[m]
           /\ m \in holders' <=> m \in holders
<1>1. CASE ClientCall(l)
  BY <1>1 DEF TypeOK, ClientCall, Acquire, TryAcquire, Call, Release, Renew, Goto
<1>2. CASE ClientStep(l)
  <2>1. CASE LockSucceeds(l)
    BY <2>1 DEF TypeOK, LockSucceeds, Goto, clientVars
  <2>2. CASE LockFails(l) \/ TryLock(l) \/ AcquireReturns(l) \/ OldWatchdogEnded(l)
    BY <2>2 DEF TypeOK, LockFails, TryLock, AcquireReturns, OldWatchdogEnded, Done, Goto
  <2>3. CASE StartWatchdog(l) \/ Swap(l)
    BY <2>3 DEF TypeOK, StartWatchdog, Swap, startWatchdog, Done, Goto, clientVars
  <2>4. CASE WatchdogEnded(l) \/ Unlock(l)
    BY <2>4 DEF TypeOK, WatchdogEnded, Unlock, Goto, clientVars
  <2> QED BY <1>2, <2>1, <2>2, <2>3, <2>4 DEF ClientStep
<1>3. CASE WatchdogStep(l)
  BY <1>3 DEF TypeOK, WatchdogStep, WatchdogStops, WatchdogFires, WatchdogReadsMu,
              WatchdogExtends, clientVars
<1> QED BY <1>1, <1>2, <1>3

(* The lock that takes the step keeps what it must. *)
LEMMA OwnKeeps ==
    ASSUME TypeOK, TokensApart, TokensDrawn, NEW l \in Locks, Keeps(l),
           ClientCall(l) \/ ClientStep(l) \/ WatchdogStep(l)
    PROVE  Keeps(l)'
<1>1. PICK v \in Nat : v = mu[l].value
  BY DEF TypeOK
<1>2. PICK w \in Nat : w = token[l]
  BY DEF TypeOK
<1>3. pc[l] # "unlock" => (Kept(v) => Kept(v)') /\ (Kept(w) => Kept(w)')
  BY <1>1, KeptByOthers
<1>4. /\ l \in holders \/ pc[l] \in {"start", "stopOld"} => Kept(v)
      /\ pc[l] = "swap" => Kept(w)
      /\ pc[l] \in {"stopWd", "unlock"} => l \notin holders
      /\ pc[l] \in {"lock", "tryLock"} => w # 0
  BY <1>1, <1>2 DEF Keeps, Believes
<1>5. /\ pc \in [Locks -> LockPC] /\ token \in [Locks -> Nat] /\ drawn \in Nat
      /\ mu \in [Locks -> [value : Nat, tries : 1..RetryCount]]
  BY DEF TypeOK
<1>6. CASE ClientCall(l)
  <2>1. CASE Acquire(l) \/ TryAcquire(l)
    BY <1>1, <1>3, <1>4, <1>5, <2>1
    DEF Keeps, Believes, Kept, Acquire, TryAcquire, Call, Goto
  <2>2. CASE Release(l)
    BY <1>1, <1>3, <1>4, <1>5, <2>2 DEF Keeps, Believes, Kept, Release, Goto
  <2>3. CASE Renew(l)
    BY <1>1, <1>3, <1>4, <1>5, <2>3 DEF Keeps, Believes, Kept, Renew
  <2> QED BY <1>6, <2>1, <2>2, <2>3 DEF ClientCall
<1>7. CASE ClientStep(l)
  <2>1. CASE LockSucceeds(l)
    BY <1>2, <1>4, <1>5, <2>1
    DEF Keeps, Believes, Kept, LockSucceeds, SetNX, Goto, clientVars
  <2>2. CASE LockFails(l)
    BY <1>1, <1>2, <1>3, <1>4, <1>5, <2>2 DEF Keeps, Believes, Kept, LockFails, Goto
  <2>3. CASE AcquireReturns(l)
    BY <1>1, <1>3, <1>4, <1>5, <2>3 DEF Keeps, Believes, Kept, AcquireReturns, Done, Goto
  <2>4. CASE StartWatchdog(l)
    BY <1>1, <1>3, <1>4, <1>5, <2>4
    DEF Keeps, Believes, Kept, StartWatchdog, startWatchdog, Done, Goto, clientVars
  <2>5. CASE OldWatchdogEnded(l)
    BY <1>1, <1>3, <1>4, <1>5, <2>5 DEF Keeps, Believes, Kept, OldWatchdogEnded, Done, Goto
  <2>6. CASE TryLock(l)
    <3>1. CASE SetNX(token[l]) /\ Goto(l, "swap") /\ UNCHANGED token
      BY <1>1, <1>2, <1>3, <1>4, <1>5, <2>6, <3>1
      DEF Keeps, Believes, Kept, TryLock, SetNX, Goto
    <3>2. CASE Done(l)
      BY <1>1, <1>3, <1>4, <1>5, <2>6, <3>2 DEF Keeps, Believes, Kept, TryLock, Done, Goto
    <3> QED BY <2>6, <3>1, <3>2 DEF TryLock
  <2>7. CASE Swap(l)
    BY <1>2, <1>3, <1>4, <1>5, <2>7
    DEF Keeps, Believes, Kept, Swap, startWatchdog, Done, Goto, clientVars
  <2>8. CASE WatchdogEnded(l)
    BY <1>1, <1>3, <1>4, <1>5, <2>8 DEF Keeps, Believes, Kept, WatchdogEnded, Goto, clientVars
  <2>9. CASE Unlock(l)
    BY <1>1, <1>4, <1>5, <2>9 DEF Keeps, Believes, Unlock, Goto, clientVars
  <2> QED BY <1>7, <2>1, <2>2, <2>3, <2>4, <2>5, <2>6, <2>7, <2>8, <2>9 DEF ClientStep
<1>8. CASE WatchdogStep(l)
  <2>1. UNCHANGED <<pc, mu, token, holders>>
    BY <1>8 DEF WatchdogStep, WatchdogStops, WatchdogFires, WatchdogReadsMu,
                WatchdogExtends, clientVars
  <2>2. pc[l] # "unlock" \/ UNCHANGED <<key, expired>>
    BY <1>8 DEF WatchdogStep, WatchdogStops, WatchdogFires, WatchdogReadsMu,
                WatchdogExtends, redisVars
  <2> QED BY <1>1, <1>2, <1>3, <1>4, <2>1, <2>2 DEF Keeps, Believes, Kept
<1> QED BY <1>6, <1>7, <1>8

(* A tick keeps every token: what runs out is remembered as expired. *)
LEMMA KeptByTick ==
    ASSUME TypeOK, KeyLives, Tick, NEW t \in Nat, Kept(t)
    PROVE  Kept(t)'
<1>1. ttl \in Nat
  BY LockAssumption DEF TypeOK
<1>2. CASE t \in expired
  BY <1>2 DEF Tick, Kept
<1>3. CASE key = t
  BY <1>1, <1>3 DEF KeyLives, Tick, Kept
<1> QED BY <1>2, <1>3 DEF Kept

(* A key in Redis has some lifetime left. *)
LEMMA KeyLivesStep == TypeOK /\ KeyLives /\ [Next]_vars => KeyLives'
<1> SUFFICES ASSUME TypeOK, KeyLives, [Next]_vars PROVE KeyLives'
  OBVIOUS
<1>0. ttl \in Nat /\ TTL > 0
  BY LockAssumption DEF TypeOK
<1>1. ASSUME NEW l \in Locks, ClientCall(l) PROVE KeyLives'
  BY <1>0, <1>1 DEF KeyLives, ClientCall, Acquire, TryAcquire, Call, Release, Renew, redisVars
<1>2. ASSUME NEW l \in Locks, ClientStep(l) PROVE KeyLives'
  <2>1. CASE LockSucceeds(l) \/ LockFails(l) \/ TryLock(l)
    BY <1>0, <2>1 DEF KeyLives, LockSucceeds, LockFails, TryLock, AttemptFails, SetNX
  <2>2. CASE AcquireReturns(l) \/ StartWatchdog(l) \/ OldWatchdogEnded(l) \/ Swap(l) \/ WatchdogEnded(l)
    BY <2>2 DEF KeyLives, AcquireReturns, StartWatchdog, OldWatchdogEnded, Swap, WatchdogEnded, redisVars
  <2>3. CASE Unlock(l)
    BY <2>3 DEF KeyLives, Unlock
  <2> QED BY <1>2, <2>1, <2>2, <2>3 DEF ClientStep
<1>3. ASSUME NEW l \in Locks, WatchdogStep(l) PROVE KeyLives'
  BY <1>0, <1>3 DEF KeyLives, WatchdogStep, WatchdogStops, WatchdogFires, WatchdogReadsMu,
                    WatchdogExtends, redisVars
<1>4. CASE Tick
  BY <1>0, <1>4 DEF KeyLives, Tick
<1>5. CASE UNCHANGED vars
  BY <1>5 DEF KeyLives, vars
<1> QED BY <1>1, <1>2, <1>3, <1>4, <1>5 DEF Next

(* Ownership is kept by every step. *)
LEMMA OwnershipStep == TypeOK /\ Ownership /\ [Next]_vars => Ownership'
<1> SUFFICES ASSUME TypeOK, Ownership, [Next]_vars PROVE Ownership'
  OBVIOUS
<1>0. KeyLives'
  BY KeyLivesStep DEF Ownership
<1>1. ASSUME NEW l \in Locks, ClientCall(l) \/ ClientStep(l) \/ WatchdogStep(l)
      PROVE  Ownership'
  <2>1. TokensDrawn' /\ TokensApart'
    BY <1>1, EveryTokenStep, TokensMove DEF Ownership
  <2>2. ASSUME NEW m \in Locks PROVE Keeps(m)'
    <3>0. Keeps(m) /\ Keeps(l)
      BY DEF Ownership, TokensKept, Keeps
    <3>1. CASE m = l
      BY <1>1, <3>0, <3>1, OwnKeeps DEF Ownership
    <3>2. CASE m # l
      <4>1. PICK v \in Nat : v = mu[m].value
        BY DEF TypeOK
      <4>2. PICK w \in Nat : w = token[m]
        BY DEF TypeOK
      <4>3. /\ Kept(v) => Kept(v)'
            /\ Kept(w) => Kept(w)'
        <5>1. /\ v # 0 => v # mu[l].value
              /\ w # 0 => w # mu[l].value
          BY <3>2, <4>1, <4>2 DEF Ownership, TokensApart
        <5> QED BY <1>1, <5>1, KeptByOthers DEF Ownership, Kept
      <4>4. /\ pc'[m] = pc[m] /\ token'[m] = token[m] /\ mu'[m] = mu[m]
            /\ m \in holders' <=> m \in holders
        BY <1>1, <3>2, OthersUntouched
      <4> QED BY <3>0, <4>1, <4>2, <4>3, <4>4 DEF Keeps, Believes, Kept
    <3> QED BY <3>1, <3>2
  <2> QED BY <1>0, <2>1, <2>2 DEF Ownership, TokensKept, Keeps
<1>2. CASE Tick
  <2>1. UNCHANGED <<drawn, mu, pc, token, holders>>
    BY <1>2 DEF Tick
  <2>2. ASSUME NEW m \in Locks PROVE Keeps(m)'
    <3>0. Keeps(m)
      BY DEF Ownership, TokensKept, Keeps
    <3>1. PICK v \in Nat : v = mu[m].value
      BY DEF TypeOK
    <3>2. PICK w \in Nat : w = token[m]
      BY DEF TypeOK
    <3>3. (Kept(v) => Kept(v)') /\ (Kept(w) => Kept(w)')
      BY <1>2, KeptByTick DEF Ownership
    <3> QED BY <3>0, <3>1, <3>2, <3>3, <2>1 DEF Keeps, Believes, Kept
  <2> QED BY <1>0, <2>1, <2>2 DEF Ownership, TokensDrawn, TokensApart, TokensKept, Keeps
<1>3. CASE UNCHANGED vars
  BY <1>0, <1>3 DEF vars, Ownership, TokensDrawn, TokensApart, TokensKept, Believes, Kept
<1> QED BY <1>1, <1>2, <1>3 DEF Next

(* No token is drawn at the start. *)
LEMMA OwnershipInit == Init => Ownership
  BY DEF Init, NewMutex, Ownership, KeyLives, TokensDrawn, TokensApart, TokensKept, Believes, Kept

(***************************************************************************)
(* LostOnlyByExpiry for any number of locks, TTL, delay and failures, also *)
(* when the watchdog is off or late: Unlock and Extend compare the token,  *)
(* and TryAcquire hands its own token to Release and Renew.                *)
(***************************************************************************)
THEOREM LockOwnership == Spec => []LostOnlyByExpiry
<1>2. TypeOK /\ Ownership => LostOnlyByExpiry
  BY DEF TypeOK, Ownership, TokensKept, Believes, Kept, LostOnlyByExpiry
<1> QED BY <1>2, TypeInit, OwnershipInit, TypeStep, AttemptsStep, OwnershipStep, PTL DEF Spec

-----------------------------------------------------------------------------
(***************************************************************************)
(* Renewals in time.  Reserve(e) is what the key must have left, at the    *)
(* latest moment of a renewal, to outlive the failures that may still come *)
(* after e of them.                                                        *)
(***************************************************************************)
Reserve(e) == (MaxErrors - e) * (Interval + MaxDelay)

(* Each failure takes one period off the reserve, and Timely bounds it. *)
LEMMA ReserveFacts ==
    /\ \A e \in 0..MaxErrors : Reserve(e) \in Nat
    /\ \A e \in 0..MaxErrors : e < MaxErrors => Reserve(e) = Reserve(e + 1) + Interval + MaxDelay
    /\ \A e \in 0..MaxErrors : Timely => Interval + MaxDelay + MaxDelay + Reserve(e) < TTL
<1> DEFINE P == Interval + MaxDelay
<1>0. P \in Nat /\ Interval \in Nat /\ MaxDelay \in Nat /\ MaxErrors \in Nat /\ TTL \in Nat
  BY IntervalType, LockAssumption
<1>1. ASSUME NEW e \in 0..MaxErrors
      PROVE  Reserve(e) \in Nat /\ Reserve(e) <= MaxErrors * P
  <2>1. PICK k \in Nat : k = MaxErrors - e /\ k <= MaxErrors
    BY <1>0
  <2> HIDE DEF P
  <2>2. k * P \in Nat /\ k * P <= MaxErrors * P
    <3>1. PICK j \in Nat : MaxErrors = k + j
      BY <1>0, <2>1
    <3>2. (k + j) * P = k * P + j * P /\ j * P \in Nat /\ k * P \in Nat
      BY <1>0
    <3> QED BY <3>1, <3>2
  <2> QED BY <2>1, <2>2 DEF Reserve, P
<1>2. ASSUME NEW e \in 0..MaxErrors, e < MaxErrors
      PROVE  Reserve(e) = Reserve(e + 1) + Interval + MaxDelay
  <2>1. PICK k \in Nat : k = MaxErrors - (e + 1) /\ MaxErrors - e = k + 1
    BY <1>0, <1>2
  <2> HIDE DEF P
  <2>2. (k + 1) * P = k * P + P
    BY <1>0
  <2>3. Reserve(e) = Reserve(e + 1) + P
    BY <2>1, <2>2 DEF Reserve, P
  <2> QED BY <1>0, <1>1, <2>1, <2>3 DEF P, Reserve
<1>3. ASSUME NEW e \in 0..MaxErrors, Timely
      PROVE  Interval + MaxDelay + MaxDelay + Reserve(e) < TTL
  <2>1. (MaxErrors + 1) * P + MaxDelay < TTL
    <3>1. Interval = TTL \div 3
      BY <1>3, LockAssumption DEF Timely, Interval, watchdogInterval
    <3> QED BY <1>3, <3>1 DEF Timely
  <2> HIDE DEF P
  <2>2. (MaxErrors + 1) * P = MaxErrors * P + P /\ MaxErrors * P \in Nat
    BY <1>0
  <2>3. P + MaxDelay + Reserve(e) < TTL
    BY <1>0, <1>1, <2>1, <2>2
  <2> QED BY <2>3 DEF P
<1> QED BY <1>1, <1>2, <1>3

(* The key of a lock that holds it, with time enough to the next renewal. *)
Held(l) ==
    /\ Running(l)
    /\ key = mu[l].value
    /\ wd[l].timer <= Interval
    /\ wd[l].timer + MaxDelay + Reserve(errs) < ttl
    /\ wd[l].pc = "extend" => wd[l].value = mu[l].value

Safe(l) ==
    /\ l \in holders => Held(l) /\ pc[l] \in {"idle", "lock", "refused", "tryLock"}
    /\ Running(l) => l \in holders \/ pc[l] = "stopWd"
    /\ pc[l] \in {"start", "swap"} => key = token[l] /\ ttl >= TTL - late[l]
    /\ pc[l] = "start" => mu[l].value = token[l]
    /\ pc[l] \notin {"start", "swap"} => late[l] = 0
    /\ pc[l] # "stopOld"

AllSafe == \A l \in Locks : Safe(l)

(* A step that at most prolongs the key or counts a failure. *)
Quiet == key' = key /\ ttl' \in {ttl, TTL} /\ (errs' = errs \/ RedisError)

(* Every step is quiet, sets a free key or deletes its own. *)
LEMMA QuietSteps ==
    ASSUME NEW l \in Locks, ClientCall(l) \/ ClientStep(l) \/ WatchdogStep(l)
    PROVE  Quiet \/ key = 0 \/ (pc[l] = "unlock" /\ key = mu[l].value)
<1>1. CASE ClientCall(l)
  BY <1>1 DEF Quiet, ClientCall, Acquire, TryAcquire, Call, Release, Renew, redisVars
<1>2. CASE ClientStep(l)
  <2>1. CASE LockSucceeds(l) \/ LockFails(l) \/ TryLock(l)
    BY <2>1 DEF Quiet, LockSucceeds, LockFails, TryLock, AttemptFails, SetNX
  <2>2. CASE AcquireReturns(l) \/ StartWatchdog(l) \/ OldWatchdogEnded(l) \/ Swap(l) \/ WatchdogEnded(l)
    BY <2>2 DEF Quiet, AcquireReturns, StartWatchdog, OldWatchdogEnded, Swap, WatchdogEnded, redisVars
  <2>3. CASE Unlock(l)
    BY <2>3 DEF Quiet, Unlock, Matches
  <2> QED BY <1>2, <2>1, <2>2, <2>3 DEF ClientStep
<1>3. CASE WatchdogStep(l)
  BY <1>3 DEF Quiet, WatchdogStep, WatchdogStops, WatchdogFires, WatchdogReadsMu,
              WatchdogExtends, redisVars
<1> QED BY <1>1, <1>2, <1>3

(* What a quiet step leaves of the time a lock has. *)
LEMMA QuietTime ==
    ASSUME TypeOK, Timely, Quiet, NEW timer \in Int, timer <= Interval,
           timer + MaxDelay + Reserve(errs) < ttl
    PROVE  timer + MaxDelay + Reserve(errs') < ttl'
<1>1. /\ ttl \in Nat /\ TTL \in Nat /\ MaxDelay \in Nat /\ Interval \in Nat
      /\ errs \in 0..MaxErrors
  BY LockAssumption, IntervalType DEF TypeOK
<1>2. errs' \in 0..MaxErrors
  BY <1>1, LockAssumption DEF Quiet, RedisError
<1>3. Reserve(errs) \in Nat /\ Reserve(errs') \in Nat /\ Reserve(errs') <= Reserve(errs)
  <2>1. CASE errs' = errs
    BY <1>1, <2>1, ReserveFacts
  <2>2. CASE RedisError
    BY <1>1, <1>2, <2>2, ReserveFacts DEF RedisError
  <2> QED BY <2>1, <2>2 DEF Quiet
<1>4. Interval + MaxDelay + MaxDelay + Reserve(errs') < TTL
  BY <1>2, ReserveFacts
<1> QED BY <1>1, <1>3, <1>4 DEF Quiet

(* The locks that do not take the step stay safe. *)
LEMMA OtherSafe ==
    ASSUME TypeOK, Ownership, Timely, NEW l \in Locks, NEW m \in Locks, m # l, Safe(m),
           ClientCall(l) \/ ClientStep(l) \/ WatchdogStep(l)
    PROVE  Safe(m)'
<1>1. /\ pc'[m] = pc[m] /\ token'[m] = token[m] /\ mu'[m] = mu[m]
      /\ wd'[m] = wd[m] /\ late'[m] = late[m]
      /\ m \in holders' <=> m \in holders
  BY OthersUntouched
<1>2. CASE m \in holders \/ pc[m] \in {"start", "swap"}
  <2>1. key # 0 /\ key # mu[l].value
    <3>1. m \in holders \/ pc[m] = "start" => key = mu[m].value /\ key # 0
      BY DEF Safe, Held, Ownership, TokensKept, Believes, Kept
    <3>2. pc[m] = "swap" => key = token[m] /\ key # 0
      BY DEF Safe, Ownership, TokensKept, Kept
    <3> QED BY <1>2, <3>1, <3>2 DEF Ownership, TokensApart
  <2>2. Quiet
    BY <2>1, QuietSteps
  <2>3. wd[m].timer \in Int /\ ttl \in Int /\ TTL \in Int /\ late[m] \in Nat
    BY LockAssumption DEF TypeOK
  <2>4. m \in holders => Held(m)'
    <3> SUFFICES ASSUME m \in holders PROVE Held(m)'
      OBVIOUS
    <3>1. Held(m)
      BY DEF Safe
    <3>2. wd[m].timer + MaxDelay + Reserve(errs') < ttl'
      BY <2>2, <2>3, <3>1, QuietTime DEF Held
    <3> QED BY <1>1, <2>2, <3>1, <3>2 DEF Held, Running, Quiet, Interval, Reserve
  <2>5. pc[m] \in {"start", "swap"} => key' = token'[m] /\ ttl' >= TTL - late'[m]
    BY <1>1, <2>2, <2>3 DEF Safe, Quiet
  <2> QED BY <1>1, <2>4, <2>5 DEF Safe, Running
<1>3. CASE m \notin holders /\ pc[m] \notin {"start", "swap"}
  BY <1>1, <1>3 DEF Safe, Running
<1> QED BY <1>2, <1>3

(* A watchdog that starts in time has enough of the TTL left. *)
LEMMA FreshWatchdog ==
    ASSUME TypeOK, Timely, NEW left \in Nat, left >= TTL - MaxDelay, NEW e \in 0..MaxErrors
    PROVE  Interval + MaxDelay + Reserve(e) < left
  BY ReserveFacts, IntervalType, LockAssumption

(* The lock that takes the step stays safe. *)
LEMMA OwnSafe ==
    ASSUME TypeOK, Ownership, Timely, EnableWatchdog, NEW l \in Locks, Safe(l),
           ClientCall(l) \/ ClientStep(l) \/ WatchdogStep(l)
    PROVE  Safe(l)'
<1>0. /\ pc \in [Locks -> LockPC] /\ token \in [Locks -> Nat] /\ late \in [Locks -> 0..MaxDelay]
      /\ mu \in [Locks -> [value : Nat, tries : 1..RetryCount]]
      /\ wd \in [Locks -> WatchdogType]
      /\ ttl \in Nat /\ TTL \in Nat /\ MaxDelay \in Nat /\ errs \in 0..MaxErrors
  BY LockAssumption DEF TypeOK, WatchdogType
<1>1. wd[l].timer \in Int /\ -MaxDelay <= wd[l].timer
  BY <1>0 DEF WatchdogType
<1>2. /\ l \in holders => key = mu[l].value /\ key # 0
      /\ pc[l] = "start" => key = mu[l].value /\ key # 0
      /\ pc[l] \in {"lock", "tryLock"} => token[l] # 0
      /\ pc[l] \in {"stopWd", "unlock"} => l \notin holders
  BY DEF Safe, Held, Ownership, TokensKept, Believes, Kept
<1>3. ASSUME Quiet, wd'[l] = wd[l], mu'[l].value = mu[l].value, l \in holders
      PROVE  Held(l)'
  <2>1. Held(l)
    BY <1>3 DEF Safe
  <2>2. wd[l].timer + MaxDelay + Reserve(errs') < ttl'
    BY <1>1, <1>3, <2>1, QuietTime DEF Held
  <2> QED BY <1>3, <2>1, <2>2 DEF Held, Running, Quiet, Interval, Reserve
<1>4. CASE ClientCall(l)
  <2>1. Quiet
    BY <1>4 DEF Quiet, ClientCall, Acquire, TryAcquire, Call, Release, Renew, redisVars
  <2>2. UNCHANGED <<wd, mu>>
    BY <1>4 DEF ClientCall, Acquire, TryAcquire, Call, Release, Renew
  <2>3. l \in holders => Held(l)'
    BY <1>3, <2>1, <2>2
  <2>4. CASE Acquire(l) \/ TryAcquire(l)
    BY <1>0, <2>2, <2>3, <2>4 DEF Safe, Running, Acquire, TryAcquire, Call, Goto
  <2>5. CASE Release(l)
    BY <1>0, <2>2, <2>5 DEF Safe, Running, Release, Goto
  <2>6. CASE Renew(l)
    <3>1. holders' = holders
      BY <1>2, <2>6 DEF Renew, Matches
    <3> QED BY <1>0, <2>2, <2>3, <2>6, <3>1 DEF Safe, Running, Renew
  <2> QED BY <1>4, <2>4, <2>5, <2>6 DEF ClientCall
<1>5. CASE ClientStep(l)
  <2>1. CASE LockSucceeds(l)
    <3>1. key = 0 /\ key' = token[l] /\ ttl' = TTL
      BY <2>1 DEF LockSucceeds, SetNX
    <3>2. l \notin holders /\ ~Running(l)
      BY <1>2, <2>1, <3>1 DEF Safe, LockSucceeds
    <3>3. UNCHANGED wd /\ holders' = holders /\ late' = late /\ token' = token
      BY <2>1, <3>2 DEF LockSucceeds, Safe, clientVars, Running
    <3>4. pc'[l] = "start" /\ mu'[l].value = token[l] /\ late[l] \in Nat
      BY <1>0, <2>1 DEF LockSucceeds, Goto
    <3> QED BY <1>0, <3>1, <3>2, <3>3, <3>4 DEF Safe, Running
  <2>2. CASE LockFails(l)
    <3>1. pc[l] = "lock" /\ pc'[l] \in {"lock", "refused"} /\ UNCHANGED <<mu, wd, token, late, holders>>
      BY <1>0, <2>2 DEF LockFails, Goto
    <3>2. l \in holders => Held(l)'
      BY <1>2, <1>3, <2>2, <3>1 DEF LockFails, AttemptFails, SetNX, Quiet
    <3> QED BY <3>1, <3>2 DEF Safe, Running
  <2>3. CASE AcquireReturns(l)
    <3>1. /\ pc[l] \in {"lock", "refused"} /\ pc'[l] = "idle" /\ late'[l] = 0
          /\ UNCHANGED <<mu, wd, holders, key, ttl, errs>>
      BY <1>0, <2>3 DEF AcquireReturns, Done, Goto, redisVars
    <3>2. l \in holders => Held(l)'
      BY <1>3, <3>1 DEF Quiet
    <3> QED BY <3>1, <3>2 DEF Safe, Running
  <2>4. ASSUME pc[l] \in {"start", "swap"}, startWatchdog(l), UNCHANGED redisVars,
               mu'[l].value = token[l]
        PROVE  Safe(l)'
    <3>1. ~Running(l) /\ key = token[l] /\ ttl >= TTL - late[l]
      BY <2>4 DEF Safe
    <3>2. /\ wd'[l] = newWatchdog /\ pc'[l] = "idle" /\ late'[l] = 0 /\ l \in holders'
          /\ key' = key /\ ttl' = ttl /\ errs' = errs
      BY <1>0, <2>4, <3>1 DEF startWatchdog, Done, Goto, redisVars
    <3>3. Interval + MaxDelay + Reserve(errs) < ttl
      BY <1>0, <3>1, FreshWatchdog
    <3>4. Held(l)'
      BY <1>0, <2>4, <3>1, <3>2, <3>3, IntervalType
      DEF Held, Running, newWatchdog, Interval, Reserve
    <3> QED BY <3>2, <3>4 DEF Safe
  <2>5. CASE StartWatchdog(l)
    BY <2>4, <2>5 DEF StartWatchdog, Safe
  <2>6. CASE Swap(l)
    BY <1>0, <2>4, <2>6 DEF Swap
  <2>7. CASE OldWatchdogEnded(l)
    BY <2>7 DEF OldWatchdogEnded, Safe
  <2>8. CASE TryLock(l)
    <3>1. CASE SetNX(token[l]) /\ Goto(l, "swap") /\ UNCHANGED <<errs, token, tried, late>>
      <4>1. key = 0 /\ key' = token[l] /\ ttl' = TTL /\ pc'[l] = "swap" /\ late[l] \in Nat
        BY <1>0, <3>1 DEF SetNX, Goto
      <4>2. l \notin holders /\ ~Running(l) /\ UNCHANGED <<mu, wd, holders>>
        BY <1>2, <2>8, <4>1 DEF Safe, TryLock
      <4> QED BY <1>0, <3>1, <4>1, <4>2 DEF Safe, Running
    <3>2. CASE AttemptFails(l) /\ Done(l)
      <4>1. pc'[l] = "idle" /\ late'[l] = 0 /\ pc[l] = "tryLock" /\ UNCHANGED <<mu, wd, holders>>
        BY <1>0, <2>8, <3>2 DEF Done, Goto, TryLock
      <4>2. l \in holders => Held(l)'
        BY <1>2, <1>3, <3>2, <4>1 DEF AttemptFails, SetNX, Quiet
      <4> QED BY <4>1, <4>2 DEF Safe, Running
    <3> QED BY <2>8, <3>1, <3>2 DEF TryLock
  <2>9. CASE WatchdogEnded(l)
    BY <1>0, <1>2, <2>9 DEF WatchdogEnded, Safe, Running, Goto, redisVars, clientVars
  <2>10. CASE Unlock(l)
    BY <1>0, <1>2, <2>10 DEF Unlock, Safe, Running, Goto, clientVars
  <2> QED BY <1>5, <2>1, <2>2, <2>3, <2>5, <2>6, <2>7, <2>8, <2>9, <2>10 DEF ClientStep
<1>6. CASE WatchdogStep(l)
  <2>0. UNCHANGED <<pc, mu, token, late, holders>>
    BY <1>6 DEF WatchdogStep, WatchdogStops, WatchdogFires, WatchdogReadsMu, WatchdogExtends, clientVars
  <2>1. CASE WatchdogStops(l)
    <3>1. pc[l] = "stopWd" /\ ~Running(l)'
      BY <1>0, <2>0, <2>1 DEF WatchdogStops, StopClosed, Safe, Running, NoWatchdog
    <3> QED BY <1>2, <2>0, <3>1 DEF Safe
  <2>2. CASE WatchdogFires(l) \/ WatchdogReadsMu(l)
    <3>1. /\ wd'[l].pc # "none" /\ wd[l].pc # "none" /\ wd'[l].timer = wd[l].timer
          /\ wd'[l].pc = "extend" => wd'[l].value = mu[l].value
          /\ UNCHANGED <<key, ttl, errs>>
      BY <1>0, <2>2 DEF WatchdogFires, WatchdogReadsMu, WatchdogType, redisVars
    <3>2. l \in holders => Held(l)'
      BY <2>0, <3>1 DEF Safe, Held, Running, Interval, Reserve
    <3> QED BY <2>0, <3>1, <3>2 DEF Safe, Running
  <2>3. CASE WatchdogExtends(l)
    <3>1. wd'[l] = newWatchdog /\ wd[l].pc = "extend" /\ key' = key
      BY <1>0, <2>3 DEF WatchdogExtends
    <3>2. l \in holders => Interval + MaxDelay + Reserve(errs') < ttl'
      <4> SUFFICES ASSUME l \in holders PROVE Interval + MaxDelay + Reserve(errs') < ttl'
        OBVIOUS
      <4>1. Matches(wd[l].value)
        BY <1>2, <3>1 DEF Safe, Held, Matches
      <4>2. CASE ttl' = TTL /\ UNCHANGED errs
        BY <1>0, <4>2, FreshWatchdog
      <4>3. CASE RedisError /\ UNCHANGED ttl
        <5>1. Reserve(errs) = Reserve(errs') + Interval + MaxDelay /\ Reserve(errs') \in Nat
          BY <1>0, <4>3, ReserveFacts, LockAssumption DEF RedisError
        <5>2. wd[l].timer + MaxDelay + Reserve(errs) < ttl
          BY DEF Safe, Held
        <5> QED BY <1>0, <1>1, <4>3, <5>1, <5>2, IntervalType
      <4> QED BY <2>3, <4>1, <4>2, <4>3 DEF WatchdogExtends
    <3>3. l \in holders => Held(l)'
      BY <1>0, <1>2, <2>0, <3>1, <3>2, IntervalType
      DEF Held, Running, newWatchdog, Interval, Reserve
    <3>4. Running(l) /\ pc[l] \notin {"start", "swap"}
      BY <3>1 DEF Running, Safe
    <3> QED BY <2>0, <3>3, <3>4 DEF Safe
  <2> QED BY <1>6, <2>1, <2>2, <2>3 DEF WatchdogStep
<1> QED BY <1>4, <1>5, <1>6

(* While everyone is on time, a tick leaves the keys of holders alive. *)
LEMMA TickSafe ==
    ASSUME TypeOK, Timely, EnableWatchdog, Tick, NEW l \in Locks, Safe(l)
    PROVE  Safe(l)'
<1>0. /\ ttl \in Nat /\ TTL \in Nat /\ MaxDelay \in Nat /\ errs \in 0..MaxErrors
      /\ late[l] \in 0..MaxDelay /\ wd[l] \in WatchdogType
  BY LockAssumption DEF TypeOK, WatchdogType
<1>1. UNCHANGED <<errs, mu, pc, token, holders>> /\ ~Waiting(l) /\ OnTime(l)
  BY DEF Tick, Safe, Waiting, MuMuFree
<1>2. /\ wd'[l].pc = wd[l].pc /\ wd'[l].value = wd[l].value
      /\ Running(l) => wd'[l].timer = wd[l].timer - 1 /\ wd[l].timer + MaxDelay >= 1
  BY <1>0, <1>1 DEF Tick, OnTime, WatchdogType
<1>3. ttl > 1 => key' = key /\ ttl' = ttl - 1
  BY <1>0 DEF Tick
<1>4. l \in holders => Held(l)'
  <2> SUFFICES ASSUME l \in holders PROVE Held(l)'
    OBVIOUS
  <2>1. Held(l)
    BY DEF Safe
  <2>2. Reserve(errs) \in Nat /\ wd[l].timer \in Int /\ Interval \in Nat
    BY <1>0, ReserveFacts, IntervalType DEF WatchdogType
  <2>3. ttl > 1
    BY <1>0, <1>2, <2>1, <2>2 DEF Held
  <2>4. wd[l].timer - 1 + MaxDelay + Reserve(errs) < ttl' /\ wd[l].timer - 1 <= Interval
    BY <1>0, <1>3, <2>1, <2>2, <2>3 DEF Held
  <2> QED BY <1>1, <1>2, <1>3, <2>1, <2>3, <2>4 DEF Held, Running, Interval, Reserve
<1>5. pc[l] \in {"start", "swap"} => key' = token[l] /\ ttl' >= TTL - late'[l]
  <2> SUFFICES ASSUME pc[l] \in {"start", "swap"}
               PROVE  key' = token[l] /\ ttl' >= TTL - late'[l]
    OBVIOUS
  <2>1. late'[l] = late[l] + 1 /\ late[l] < MaxDelay
    BY <1>1 DEF Tick, OnTime, Starting
  <2>2. Interval + MaxDelay + MaxDelay + Reserve(errs) < TTL /\ Reserve(errs) \in Nat
    BY <1>0, ReserveFacts
  <2>3. ttl >= TTL - late[l] /\ key = token[l]
    BY DEF Safe
  <2> QED BY <1>0, <1>3, <2>1, <2>2, <2>3, IntervalType
<1>6. pc[l] \notin {"start", "swap"} => late'[l] = late[l]
  BY DEF Tick, Starting
<1> QED BY <1>1, <1>2, <1>4, <1>5, <1>6 DEF Safe, Running

(* With timely renewals every lock stays safe. *)
LEMMA SafeStep ==
    TypeOK /\ Ownership /\ EnableWatchdog /\ Timely /\ AllSafe /\ [Next]_vars => AllSafe'
<1> SUFFICES ASSUME TypeOK, Ownership, EnableWatchdog, Timely, AllSafe, [Next]_vars,
                    NEW m \in Locks
             PROVE  Safe(m)'
  BY DEF AllSafe
<1>0. \A l \in Locks : Safe(l)
  BY DEF AllSafe
<1>1. ASSUME NEW l \in Locks, ClientCall(l) \/ ClientStep(l) \/ WatchdogStep(l)
      PROVE  Safe(m)'
  BY <1>0, <1>1, OwnSafe, OtherSafe
<1>2. CASE Tick
  BY <1>0, <1>2, TickSafe
<1>3. CASE UNCHANGED vars
  BY <1>0, <1>3 DEF vars, Safe, Held, Running, Interval, Reserve
<1> QED BY <1>1, <1>2, <1>3 DEF Next

LockInv == TypeOK /\ Attempts /\ Ownership /\ (EnableWatchdog /\ Timely => AllSafe)

(* The whole invariant is inductive. *)
LEMMA LockInvariant == Spec => []LockInv
<1>1. Init => LockInv
  <2>3. Init => AllSafe
    <3>1. ASSUME Init, NEW l \in Locks PROVE Safe(l)
      <4>1. /\ holders = {} /\ pc[l] = "idle" /\ late[l] = 0 /\ wd[l].pc = "none"
        BY <3>1 DEF Init, NoWatchdog
      <4> QED BY <4>1 DEF Safe, Running
    <3> QED BY <3>1 DEF AllSafe
  <2> QED BY <2>3, TypeInit, OwnershipInit DEF LockInv
<1>2. LockInv /\ [Next]_vars => LockInv'
  <2> SUFFICES ASSUME LockInv, [Next]_vars PROVE LockInv'
    OBVIOUS
  <2>1. TypeOK' /\ Attempts' /\ Ownership'
    BY TypeStep, AttemptsStep, OwnershipStep DEF LockInv
  <2>2. EnableWatchdog /\ Timely => AllSafe'
    BY SafeStep DEF LockInv
  <2> QED BY <2>1, <2>2 DEF LockInv, Timely
<1> QED BY <1>1, <1>2, PTL DEF Spec

(***************************************************************************)
(* WatchdogKeepsLock for any TTL, delay and number of failures that fit    *)
(* Timely: a third of the TTL leaves time for the renewals that fail.      *)
(***************************************************************************)
THEOREM WatchdogTheorem == Spec => []WatchdogKeepsLock
<1>1. LockInv => WatchdogKeepsLock
  BY DEF LockInv, TypeOK, AllSafe, Safe, Held, WatchdogKeepsLock
<1> QED BY <1>1, LockInvariant, PTL

(***************************************************************************)
(* With timely renewals startWatchdog never finds an old watchdog to stop, *)
(* so it never waits for one with muMu held (redis.go:217).                *)
(***************************************************************************)
THEOREM NoSecondWatchdog ==
    Spec => [](EnableWatchdog /\ Timely => \A l \in Locks : pc[l] # "stopOld")
<1>1. LockInv => (EnableWatchdog /\ Timely => \A l \in Locks : pc[l] # "stopOld")
  BY DEF LockInv, AllSafe, Safe
<1> QED BY <1>1, LockInvariant, PTL

(* What a step of one lock may do to the set of holders. *)
LEMMA HoldersStep ==
    ASSUME NEW l \in Locks, ClientCall(l) \/ ClientStep(l) \/ WatchdogStep(l)
    PROVE  holders' \in {holders, holders \cup {l}, holders \ {l}}
<1>1. CASE ClientCall(l)
  BY <1>1 DEF ClientCall, Acquire, TryAcquire, Call, Release, Renew
<1>2. CASE ClientStep(l)
  BY <1>2 DEF ClientStep, LockSucceeds, LockFails, AcquireReturns, StartWatchdog, OldWatchdogEnded,
              TryLock, Swap, WatchdogEnded, Unlock, startWatchdog, Done, clientVars
<1>3. CASE WatchdogStep(l)
  BY <1>3 DEF WatchdogStep, WatchdogStops, WatchdogFires, WatchdogReadsMu, WatchdogExtends,
              clientVars
<1> QED BY <1>1, <1>2, <1>3

OneHolder == \A l, m \in holders : l = m

(* Two holders would have one token. *)
LEMMA HolderAlone ==
    ASSUME EnableWatchdog, Timely
    PROVE  LockInv => OneHolder
<1> SUFFICES ASSUME LockInv, NEW l \in holders, NEW m \in holders
             PROVE  l = m
  BY DEF OneHolder
<1>1. l \in Locks /\ m \in Locks /\ AllSafe /\ Kept(mu[l].value)
  BY DEF LockInv, TypeOK, Ownership, TokensKept, Believes
<1>2. key = mu[l].value /\ key = mu[m].value /\ mu[l].value # 0
  BY <1>1 DEF AllSafe, Safe, Held, Kept
<1> QED BY <1>1, <1>2 DEF LockInv, Ownership, TokensApart

(***************************************************************************)
(* The locks of one name implement a mutex, for any number of them, any    *)
(* TTL, delay and number of failures that fit Timely: a client comes in    *)
(* (startWatchdog returns) only when nobody else believes to be in.        *)
(***************************************************************************)
THEOREM MutexTheorem ==
    ASSUME EnableWatchdog, Timely
    PROVE  Spec => Exclusion
<1>1. Init => Abstract!Init
  BY DEF Init, Abstract!Init
<1>2. OneHolder /\ OneHolder' /\ [Next]_vars => [Abstract!Next]_holders
  <2> SUFFICES ASSUME OneHolder, OneHolder', [Next]_vars, holders' # holders
               PROVE  Abstract!Next
    OBVIOUS
  <2>1. PICK l \in Locks : holders' \in {holders \cup {l}, holders \ {l}}
    BY HoldersStep DEF Next, Tick, vars
  <2>2. CASE holders' = holders \cup {l}
    BY <2>2 DEF OneHolder, Abstract!Next, Abstract!Enter
  <2>3. CASE holders' = holders \ {l}
    BY <2>3 DEF OneHolder, Abstract!Next, Abstract!Leave
  <2> QED BY <2>1, <2>2, <2>3
<1> QED BY <1>1, <1>2, HolderAlone, LockInvariant, PTL DEF Spec, Exclusion, Abstract!Spec
=============================================================================
