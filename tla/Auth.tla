-------------------------------- MODULE Auth ---------------------------------
(***************************************************************************)
(* Request authentication (auth/): Signer.Sign at the callers,             *)
(* AKSKAuthMiddleware and Verifier.Verify in concurrent request handlers,  *)
(* MemoryNonceStore with its cleanup goroutine and MemoryStore with        *)
(* credentials that are replaced while requests are verified.              *)
(*                                                                         *)
(* A signed request may be delivered more than once, and changed on its    *)
(* way: what Verify reads of it is what was delivered.  A nonce is random  *)
(* and named by the request it was made for.  Time counts in ticks;        *)
(* timestamps are whole seconds of a clock that may differ from the        *)
(* server's.                                                               *)
(***************************************************************************)
EXTENDS Integers

CONSTANTS
    Requests,         \* requests the callers make
    PublicRequests,   \* those whose path the Skipper exempts
    OtherNonces,      \* values of X-NSP-Nonce that no signer made
    Handlers,         \* goroutines, each of which serves one delivery
    AccessKeys,
    Secrets,
    NoCredential,     \* GetByAK returned nil
    NotSigned,
    TicksPerSecond,
    Tolerance,        \* VerifierConfig.TimestampTolerance, in ticks
    NonceTTL,         \* VerifierConfig.NonceTTL
    CleanupInterval,  \* of the ticker of cleanupLoop
    MaxDelay,         \* bound on the time a goroutine waits for the processor
    Skews,            \* what the signers' clocks differ by from the server's
    MaxSignTime,      \* bound on the time at which requests are signed
    MaxTime,          \* bound on the clock
    MaxAdds           \* bound on the calls of MemoryStore.Add

Nonces == Requests \cup OtherNonces

Credential == [secret : Secrets, enabled : BOOLEAN]

ASSUME AuthAssumption ==
    /\ PublicRequests \subseteq Requests
    /\ NoCredential \notin Credential
    /\ NotSigned \notin [ak : AccessKeys, secret : Secrets, timestamp : Int, raw : BOOLEAN]
    /\ OtherNonces \cap Requests = {}
    /\ TicksPerSecond \in Nat \ {0}
    /\ Tolerance \in Nat
    /\ NonceTTL \in Nat
    /\ CleanupInterval \in Nat \ {0}
    /\ MaxDelay \in 0..CleanupInterval
    /\ Skews \subseteq Int
    /\ MaxTime \in Nat
    /\ MaxAdds \in Nat

VARIABLES
    now,       \* the server's clock
    signed,    \* the headers Sign put on each request, and how it signed the query
    creds,     \* MemoryStore.creds
    adds,      \* calls of MemoryStore.Add
    nonces,    \* MemoryNonceStore.nonces: expiresAt of each, or Unseen
    sweep,     \* the next tick of the ticker, or NoSweep once cleanupLoop was stopped
    handler    \* where each handler is and what it holds

vars == <<now, signed, creds, adds, nonces, sweep, handler>>

Unseen  == -1
NoSweep == -1

(* raw: url.ParseQuery rejects the query, which is then signed as it stands. *)
Signature == [ak : AccessKeys, secret : Secrets, timestamp : Int, raw : BOOLEAN]

(***************************************************************************)
(* What reaches the server of a request: as it was sent, with its query in *)
(* another order, with another timestamp or nonce (and perhaps more),      *)
(* with anything else the signature covers changed or cut short, or        *)
(* without one of the headers.                                             *)
(***************************************************************************)
Form == {"intact", "reordered", "restamped", "altered", "noAuth", "noTimestamp", "noNonce"}

(* The errors of Verify, as far as they differ. *)
Refusal == {"malformed", "expired", "reused", "unknownKey", "mismatch"}

HandlerState ==
    [pc        : {"idle", "nonce", "lookup", "compare", "served"} \cup Refusal,
     req       : Requests \cup {NotSigned},
     form      : Form,
     ak        : AccessKeys \cup {NotSigned},      \* of the Authorization header
     nonce     : Nonces \cup {NotSigned},          \* X-NSP-Nonce as delivered
     checkedAt : Nat,                              \* when the timestamp was checked
     cred      : Credential \cup {NoCredential},   \* what GetByAK returned
     held      : SUBSET BOOLEAN]   \* whether the key named Holds, at each moment since

NoHandler == [pc |-> "idle", req |-> NotSigned, form |-> "noAuth", ak |-> NotSigned,
              nonce |-> NotSigned, checkedAt |-> 0, cred |-> NoCredential, held |-> {}]

TypeOK ==
    /\ now \in 0..MaxTime
    /\ signed \in [Requests -> Signature \cup {NotSigned}]
    /\ creds \in [AccessKeys -> Credential \cup {NoCredential}]
    /\ adds \in 0..MaxAdds
    /\ nonces \in [Nonces -> Nat \cup {Unseen}]
    /\ sweep \in Nat \cup {NoSweep}
    /\ handler \in [Handlers -> HandlerState]

Init ==
    /\ now = 0
    /\ signed = [r \in Requests |-> NotSigned]
    /\ creds \in [AccessKeys -> Credential \cup {NoCredential}]
    /\ adds = 0
    /\ nonces = [n \in Nonces |-> Unseen]
    /\ sweep = CleanupInterval
    /\ handler = [h \in Handlers |-> NoHandler]

-----------------------------------------------------------------------------
(* Signer *)

(* time.Now().Unix(): the fraction of the second is cut off. *)
Unix(t) == (t \div TicksPerSecond) * TicksPerSecond

(***************************************************************************)
(* A request whose body is too large is not signed and not sent.  What the *)
(* public ones carry is never looked at.                                   *)
(***************************************************************************)
Sign(r) ==
    /\ r \notin PublicRequests
    /\ signed[r] = NotSigned
    /\ now <= MaxSignTime
    /\ \E ak \in AccessKeys, sk \in Secrets, skew \in Skews, raw \in BOOLEAN :
          signed' = [signed EXCEPT ![r] = [ak |-> ak, secret |-> sk,
                                           timestamp |-> Unix(now + skew), raw |-> raw]]
    /\ UNCHANGED <<now, creds, adds, nonces, sweep, handler>>

-----------------------------------------------------------------------------
(* MemoryStore *)

GetByAK(ak) == creds[ak]

(* The key named is enabled with the secret of the signer. *)
Holds(c, r) == c # NoCredential /\ c.enabled /\ c.secret = signed[r].secret

(* The handlers under way on the key note the credential: only the properties use it. *)
Noted(ak, c) ==
    [h \in Handlers |->
       IF handler[h].pc \in {"nonce", "lookup"} /\ handler[h].ak = ak
         THEN [handler[h] EXCEPT !.held = handler[h].held \cup {Holds(c, handler[h].req)}]
         ELSE handler[h]]

Add(ak, c) ==
    /\ adds < MaxAdds
    /\ creds[ak] # c
    /\ adds' = adds + 1
    /\ creds' = [creds EXCEPT ![ak] = c]
    /\ handler' = Noted(ak, c)
    /\ UNCHANGED <<now, signed, nonces, sweep>>

-----------------------------------------------------------------------------
(* MemoryNonceStore: mu makes each of its operations one step *)

(* Seeded fault: the margin is dropped. *)
ExpiresAt_Once(t) == t + NonceTTL

ExpiresAt(t) == t + 2 * NonceTTL

(* Any nonce still in the map is a used one, expired or not. *)
CheckAndStore(n, used) ==
    /\ used = (nonces[n] # Unseen)
    /\ nonces' = IF used THEN nonces ELSE [nonces EXCEPT ![n] = ExpiresAt(now)]

(* Seeded fault: the life of a nonce is added once more. *)
Expired_Late(n) == now > nonces[n] + NonceTTL

Expired(n) == now > nonces[n]

(* cleanupLoop and cleanup, at the next tick or up to MaxDelay later. *)
Cleanup ==
    /\ sweep # NoSweep
    /\ now >= sweep
    /\ nonces' = [n \in Nonces |-> IF Expired(n) THEN Unseen ELSE nonces[n]]
    /\ sweep' = sweep + CleanupInterval
    /\ UNCHANGED <<now, signed, creds, adds, handler>>

(***************************************************************************)
(* Stop closes stopCh and cleanupLoop returns, perhaps after one more      *)
(* tick: the stop counts from there.  CheckAndStore goes on working.       *)
(***************************************************************************)
StopStore ==
    /\ sweep # NoSweep
    /\ sweep' = NoSweep
    /\ UNCHANGED <<now, signed, creds, adds, nonces, handler>>

-----------------------------------------------------------------------------
(* AKSKAuthMiddleware and Verifier.Verify *)

(* Verify comes to its next check, or its end; its local variables are not read again. *)
Goto(h, place) ==
    handler' = [handler EXCEPT ![h].pc = place, ![h].checkedAt = 0, ![h].cred = NoCredential]

(* parseAndValidateTimestamp, either side of the server's clock. *)
InTolerance(t) == now - t <= Tolerance /\ t - now <= Tolerance

(* The timestamps and nonces a delivery may carry: a nonce has to be made first. *)
Timestamps == {Unix(t + skew) : t \in 0..MaxTime, skew \in Skews}

KnownNonces == OtherNonces \cup {r \in Requests : signed[r] # NotSigned}

(***************************************************************************)
(* The Skipper lets public requests through; of the others the headers are *)
(* parsed and the timestamp delivered is compared with one reading of the  *)
(* clock.  The key's name may be another one: no signature covers it.      *)
(* Nothing is kept of a request that is refused here.                      *)
(***************************************************************************)
Arrive(h, r, form, ak, t, n) ==
    LET outcome == CASE r \in PublicRequests              -> "served"
                     [] form \in {"noAuth", "noTimestamp"} -> "malformed"
                     [] ~InTolerance(t)                    -> "expired"
                     [] form = "noNonce"                   -> "malformed"
                     [] OTHER                              -> "nonce"
    IN /\ handler[h].pc = "idle"
       /\ \/ signed[r] = NotSigned /\ form = "noAuth"
          \/ /\ signed[r] # NotSigned
             /\ form = "restamped" <=> t # signed[r].timestamp \/ n # r
       /\ handler' = [handler EXCEPT ![h] =
                         IF outcome = "nonce"
                           THEN [pc |-> "nonce", req |-> r, form |-> form, ak |-> ak,
                                 nonce |-> n, checkedAt |-> now, cred |-> NoCredential,
                                 held |-> {Holds(creds[ak], r)}]
                           ELSE [NoHandler EXCEPT !.pc = outcome, !.req = r]]
       /\ UNCHANGED <<now, signed, creds, adds, nonces, sweep>>

(* ErrNonceReused: only the nonce is of interest afterwards. *)
Refuse(h) ==
    handler' = [handler EXCEPT ![h] = [NoHandler EXCEPT !.pc = "reused",
                                                        !.nonce = handler[h].nonce]]

CheckNonce(h) ==
    /\ handler[h].pc = "nonce"
    /\ \/ CheckAndStore(handler[h].nonce, TRUE) /\ Refuse(h)
       \/ CheckAndStore(handler[h].nonce, FALSE) /\ Goto(h, "lookup")
    /\ UNCHANGED <<now, signed, creds, adds, sweep>>

(* Seeded fault: Enabled is not looked at. *)
Usable_Any(c) == c # NoCredential

Usable(c) == c # NoCredential /\ c.enabled

(* The credential found is a pointer: Add does not change what it points to. *)
Lookup(h) ==
    LET c == GetByAK(handler[h].ak)
    IN /\ handler[h].pc = "lookup"
       /\ \/ ~Usable(c) /\ Goto(h, "unknownKey")
          \/ /\ Usable(c)
             /\ handler' = [handler EXCEPT ![h].pc = "compare", ![h].cred = c]
       /\ UNCHANGED <<now, signed, creds, adds, nonces, sweep>>

(* Seeded fault: the query is signed in the order it came in. *)
StringToSign_RawQuery(r, form) == <<r, form>>

(***************************************************************************)
(* The canonical query, if it can be parsed, the headers that are covered  *)
(* and the body; what is not covered is gone.                              *)
(***************************************************************************)
StringToSign(r, form) ==
    <<r, IF form = "reordered" /\ ~signed[r].raw THEN "intact" ELSE form>>

(* computeHMACSHA256, with no two inputs of one result *)
HMAC(secret, string) == <<secret, string>>

(* A body that is too large to hash, or cannot be read to its end, was altered. *)
Compare(h) ==
    LET r == handler[h].req
        same == HMAC(signed[r].secret, StringToSign(r, "intact"))
                  = HMAC(handler[h].cred.secret, StringToSign(r, handler[h].form))
    IN /\ handler[h].pc = "compare"
       /\ \/ same /\ Goto(h, "served")
          \/ ~same /\ Goto(h, "mismatch")
       /\ UNCHANGED <<now, signed, creds, adds, nonces, sweep>>

-----------------------------------------------------------------------------
(***************************************************************************)
(* Time passes unless a handler between its two checks, or a tick of the   *)
(* ticker, has waited MaxDelay already.                                    *)
(***************************************************************************)
Tick ==
    /\ now < MaxTime
    /\ \A h \in Handlers : handler[h].pc = "nonce" => now < handler[h].checkedAt + MaxDelay
    /\ sweep # NoSweep => now < sweep + MaxDelay
    /\ now' = now + 1
    /\ UNCHANGED <<signed, creds, adds, nonces, sweep, handler>>

Next ==
    \/ \E r \in Requests : Sign(r)
    \/ \E ak \in AccessKeys, c \in Credential : Add(ak, c)
    \/ \E h \in Handlers, r \in Requests, form \in Form, ak \in AccessKeys,
          t \in Timestamps, n \in KnownNonces : Arrive(h, r, form, ak, t, n)
    \/ \E h \in Handlers : CheckNonce(h) \/ Lookup(h) \/ Compare(h)
    \/ Cleanup
    \/ StopStore
    \/ Tick

Spec == Init /\ [][Next]_vars

-----------------------------------------------------------------------------
(* Properties *)

(***************************************************************************)
(* A nonce outlives every moment at which its request may still pass the   *)
(* timestamp check, and the wait between that check and the next.  The     *)
(* defaults (5 and 15 minutes) leave a margin of 20 minutes; NewVerifier   *)
(* takes other values unchecked.                                           *)
(***************************************************************************)
Covered == 2 * NonceTTL >= 2 * Tolerance + MaxDelay

PastNonce(h) ==
    \/ handler[h].pc \in {"lookup", "compare", "unknownKey", "mismatch"}
    \/ handler[h].pc = "served" /\ handler[h].req \notin PublicRequests

(* The deliveries of r with its own timestamp and nonce that CheckAndStore let go on. *)
Granted(r) ==
    {h \in Handlers : handler[h].req = r /\ handler[h].form # "restamped" /\ PastNonce(h)}

(***************************************************************************)
(* Of the deliveries of a request that carry the timestamp and the nonce   *)
(* it was signed with, at most one passes CheckAndStore, however late and  *)
(* however many at once, and whatever else uses the nonce meanwhile: it is *)
(* not evicted while a copy can still pass the timestamp check taken       *)
(* before it.                                                              *)
(***************************************************************************)
GrantedOnce ==
    Covered => \A r \in Requests : \A h, k \in Granted(r) : h = k

(* A delivery that can be served is the request as its signer sent it. *)
Authentic(h) ==
    \/ handler[h].form = "intact"
    \/ handler[h].form = "reordered" /\ ~signed[handler[h].req].raw

(***************************************************************************)
(* A handler behind the middleware runs only for a public path or for a    *)
(* request as its signer sent it, under a key that was enabled with the    *)
(* signer's secret at some moment since the request arrived: a key         *)
(* disabled or replaced by Add before that opens nothing.                  *)
(***************************************************************************)
ServedIsAuthorized ==
    \A h \in Handlers :
       handler[h].pc = "served" =>
          \/ handler[h].req \in PublicRequests
          \/ /\ Authentic(h)
             /\ TRUE \in handler[h].held

(***************************************************************************)
(* No false refusal: a request refused as a repetition carries a nonce     *)
(* that another delivery was let through with; one refused for its key or  *)
(* its signature was changed on its way (an unparsable query by reordering *)
(* it alone), or the key it names was missing, disabled or had another     *)
(* secret at some moment since it arrived.                                 *)
(***************************************************************************)
RefusedForACause ==
    \A h \in Handlers :
       /\ handler[h].pc = "reused" =>
             \E g \in Handlers : PastNonce(g) /\ handler[g].nonce = handler[h].nonce
       /\ handler[h].pc \in {"unknownKey", "mismatch"} =>
             ~Authentic(h) \/ FALSE \in handler[h].held

(***************************************************************************)
(* The map does not keep a nonce for longer than its life and one interval *)
(* of cleanupLoop: the map is bounded by the rate of requests.             *)
(***************************************************************************)
NoncesAreSwept ==
    sweep # NoSweep =>
       \A n \in Nonces :
          nonces[n] # Unseen => now <= nonces[n] + CleanupInterval + MaxDelay
=============================================================================
