------------------------------ MODULE AuthProofs ------------------------------
(***************************************************************************)
(* Proofs about request authentication, for any number of requests,        *)
(* deliveries, keys and secrets and any configuration of the times.        *)
(***************************************************************************)
EXTENDS Auth, TLAPS

Others == <<now, signed, creds, adds, nonces, sweep>>

(* What a handler is after Goto. *)
LEMMA GotoState ==
    ASSUME TypeOK, NEW h \in Handlers, NEW place, Goto(h, place)
    PROVE  /\ handler'[h].pc = place
           /\ handler'[h].req = handler[h].req
           /\ handler'[h].form = handler[h].form
           /\ handler'[h].ak = handler[h].ak
           /\ handler'[h].nonce = handler[h].nonce
           /\ handler'[h].held = handler[h].held
           /\ \A g \in Handlers \ {h} : handler'[g] = handler[g]
           /\ place \in {"lookup", "served"} \cup Refusal
                => handler' \in [Handlers -> HandlerState]
<1>1. handler \in [Handlers -> HandlerState]
  BY DEF TypeOK
<1>2. handler'[h] = [handler[h] EXCEPT !.pc = place, !.checkedAt = 0, !.cred = NoCredential]
      /\ \A g \in Handlers \ {h} : handler'[g] = handler[g]
  BY <1>1 DEF Goto, HandlerState
<1>3. /\ handler'[h].pc = place
      /\ handler'[h].req = handler[h].req
      /\ handler'[h].form = handler[h].form
      /\ handler'[h].ak = handler[h].ak
      /\ handler'[h].nonce = handler[h].nonce
      /\ handler'[h].held = handler[h].held
  BY <1>1, <1>2 DEF HandlerState
<1>4. ASSUME place \in {"lookup", "served"} \cup Refusal
      PROVE  handler'[h] \in HandlerState
  <2>1. ASSUME NEW s \in HandlerState
        PROVE  [s EXCEPT !.pc = place, !.checkedAt = 0, !.cred = NoCredential] \in HandlerState
    BY <1>4 DEF HandlerState
  <2> QED
    BY <1>1, <1>2, <2>1
<1> QED
  BY <1>1, <1>2, <1>3, <1>4 DEF Goto

(* What is kept of a handler that is done with a request, and how little that is. *)
LEMMA NothingKept ==
    ASSUME NEW place \in {"served"} \cup Refusal, NEW r \in Requests
    PROVE  LET s == [NoHandler EXCEPT !.pc = place, !.req = r]
           IN s \in HandlerState /\ s.pc = place /\ s.req = r
  BY DEF NoHandler, HandlerState, Form, Refusal

(* What a handler is after Refuse. *)
LEMMA RefuseState ==
    ASSUME TypeOK, NEW h \in Handlers, Refuse(h)
    PROVE  /\ handler'[h].pc = "reused"
           /\ handler'[h].nonce = handler[h].nonce
           /\ \A g \in Handlers \ {h} : handler'[g] = handler[g]
           /\ handler' \in [Handlers -> HandlerState]
<1>1. handler \in [Handlers -> HandlerState] /\ handler[h].nonce \in Nonces \cup {NotSigned}
  BY DEF TypeOK, HandlerState
<1>2. handler'[h] = [NoHandler EXCEPT !.pc = "reused", !.nonce = handler[h].nonce]
      /\ \A g \in Handlers \ {h} : handler'[g] = handler[g]
  BY <1>1 DEF Refuse
<1>3. ASSUME NEW n \in Nonces \cup {NotSigned}
      PROVE  LET s == [NoHandler EXCEPT !.pc = "reused", !.nonce = n]
             IN s \in HandlerState /\ s.pc = "reused" /\ s.nonce = n
  BY DEF NoHandler, HandlerState, Form, Refusal
<1> QED
  BY <1>1, <1>2, <1>3 DEF Refuse

(* What a handler is when its request has arrived. *)
LEMMA ArriveState ==
    ASSUME TypeOK, NEW h \in Handlers, NEW r \in Requests, NEW form \in Form,
           NEW ak \in AccessKeys, NEW t \in Timestamps, NEW n \in KnownNonces,
           Arrive(h, r, form, ak, t, n)
    PROVE  /\ handler[h].pc = "idle" /\ UNCHANGED Others
           /\ \A g \in Handlers \ {h} : handler'[g] = handler[g]
           /\ handler' \in [Handlers -> HandlerState]
           /\ \/ /\ handler'[h].pc = "served" /\ handler'[h].req = r
                 /\ r \in PublicRequests
              \/ handler'[h].pc \in {"malformed", "expired"}
              \/ /\ handler'[h].pc = "nonce"
                 /\ handler'[h].req = r /\ handler'[h].form = form
                 /\ handler'[h].ak = ak /\ handler'[h].nonce = n
                 /\ r \notin PublicRequests /\ n \in Nonces
                 /\ form \in {"intact", "reordered", "restamped", "altered"}
                 /\ signed[r] \in Signature
                 /\ handler'[h].checkedAt = now
                 /\ InTolerance(t)
                 /\ form # "restamped" => t = signed[r].timestamp /\ n = r
                 /\ handler'[h].held = {Holds(creds[ak], r)}
<1> DEFINE passed == [pc |-> "nonce", req |-> r, form |-> form, ak |-> ak,
                      nonce |-> n, checkedAt |-> now, cred |-> NoCredential,
                      held |-> {Holds(creds[ak], r)}]
           outcome == CASE r \in PublicRequests              -> "served"
                        [] form \in {"noAuth", "noTimestamp"} -> "malformed"
                        [] ~InTolerance(t)                    -> "expired"
                        [] form = "noNonce"                   -> "malformed"
                        [] OTHER                              -> "nonce"
<1>1. handler' = [handler EXCEPT ![h] =
                    IF outcome = "nonce"
                      THEN passed
                      ELSE [NoHandler EXCEPT !.pc = outcome, !.req = r]]
  BY Zenon DEF Arrive
<1>2. /\ handler[h].pc = "idle" /\ UNCHANGED Others
      /\ \/ signed[r] = NotSigned /\ form = "noAuth"
         \/ /\ signed[r] # NotSigned
            /\ form = "restamped" <=> t # signed[r].timestamp \/ n # r
  BY DEF Arrive, Others
<1>3. /\ now \in Nat /\ signed[r] \in Signature \cup {NotSigned}
      /\ handler \in [Handlers -> HandlerState]
      /\ n \in Nonces
  BY AuthAssumption DEF TypeOK, KnownNonces, Nonces
<1>4. \/ outcome = "served" /\ r \in PublicRequests
      \/ outcome \in {"malformed", "expired"}
      \/ /\ outcome = "nonce" /\ r \notin PublicRequests
         /\ form \in {"intact", "reordered", "restamped", "altered"}
         /\ InTolerance(t)
  BY DEF Form
<1>5. Holds(creds[ak], r) \in BOOLEAN
  BY DEF Holds
<1>6. passed \in HandlerState /\ passed.pc = "nonce" /\ passed.req = r /\ passed.form = form
      /\ passed.ak = ak /\ passed.nonce = n /\ passed.checkedAt = now
      /\ passed.held = {Holds(creds[ak], r)}
  BY <1>3, <1>5 DEF HandlerState
<1> HIDE DEF passed, outcome
<1>7. CASE outcome = "nonce"
  <2>1. handler'[h] = passed /\ \A g \in Handlers \ {h} : handler'[g] = handler[g]
    BY <1>1, <1>3, <1>7
  <2>2. handler' \in [Handlers -> HandlerState]
    BY <1>1, <1>3, <1>6, <1>7
  <2> QED
    BY <1>2, <1>3, <1>4, <1>6, <1>7, <2>1, <2>2
<1>8. CASE outcome # "nonce"
  <2>1. outcome \in {"served"} \cup Refusal
    BY <1>4, <1>8 DEF Refusal
  <2>2. handler'[h] = [NoHandler EXCEPT !.pc = outcome, !.req = r]
        /\ \A g \in Handlers \ {h} : handler'[g] = handler[g]
    BY <1>1, <1>3, <1>8
  <2>3. /\ [NoHandler EXCEPT !.pc = outcome, !.req = r] \in HandlerState
        /\ [NoHandler EXCEPT !.pc = outcome, !.req = r].pc = outcome
        /\ [NoHandler EXCEPT !.pc = outcome, !.req = r].req = r
    BY <2>1, NothingKept
  <2>5. handler' \in [Handlers -> HandlerState]
    BY <1>1, <1>3, <1>8, <2>3
  <2>4. handler'[h].pc = outcome /\ handler'[h].req = r
    BY <2>2, <2>3
  <2> QED
    BY <1>2, <1>4, <1>8, <2>2, <2>4, <2>5
<1> QED
  BY <1>7, <1>8

(* What a handler is when it found a credential. *)
LEMMA FoundState ==
    ASSUME TypeOK, NEW h \in Handlers, NEW c \in Credential \cup {NoCredential},
           handler' = [handler EXCEPT ![h].pc = "compare", ![h].cred = c]
    PROVE  /\ handler'[h].pc = "compare"
           /\ handler'[h].req = handler[h].req
           /\ handler'[h].form = handler[h].form
           /\ handler'[h].ak = handler[h].ak
           /\ handler'[h].nonce = handler[h].nonce
           /\ handler'[h].cred = c
           /\ handler'[h].held = handler[h].held
           /\ \A g \in Handlers \ {h} : handler'[g] = handler[g]
           /\ handler' \in [Handlers -> HandlerState]
<1>1. handler \in [Handlers -> HandlerState]
  BY DEF TypeOK
<1>2. handler'[h] = [handler[h] EXCEPT !.pc = "compare", !.cred = c]
      /\ \A g \in Handlers \ {h} : handler'[g] = handler[g]
  BY <1>1 DEF HandlerState
<1>3. /\ handler'[h].pc = "compare"
      /\ handler'[h].req = handler[h].req
      /\ handler'[h].form = handler[h].form
      /\ handler'[h].ak = handler[h].ak
      /\ handler'[h].nonce = handler[h].nonce
      /\ handler'[h].cred = c
      /\ handler'[h].held = handler[h].held
  BY <1>1, <1>2 DEF HandlerState
<1>4. ASSUME NEW s \in HandlerState
      PROVE  [s EXCEPT !.pc = "compare", !.cred = c] \in HandlerState
  BY DEF HandlerState
<1> QED
  BY <1>1, <1>2, <1>3, <1>4

(* Noting a credential changes nothing but what a handler has seen of its key. *)
LEMMA NotedState ==
    ASSUME TypeOK, NEW ak \in AccessKeys, NEW c \in Credential, handler' = Noted(ak, c)
    PROVE  /\ handler' \in [Handlers -> HandlerState]
           /\ \A h \in Handlers :
                 /\ handler'[h].pc = handler[h].pc
                 /\ handler'[h].req = handler[h].req
                 /\ handler'[h].form = handler[h].form
                 /\ handler'[h].ak = handler[h].ak
                 /\ handler'[h].nonce = handler[h].nonce
                 /\ handler'[h].checkedAt = handler[h].checkedAt
                 /\ handler'[h].cred = handler[h].cred
                 /\ handler[h].held \subseteq handler'[h].held
                 /\ handler[h].pc \in {"nonce", "lookup"} /\ handler[h].ak = ak
                       => Holds(c, handler[h].req) \in handler'[h].held
                 /\ handler[h].pc \notin {"nonce", "lookup"} => handler'[h] = handler[h]
<1>1. handler \in [Handlers -> HandlerState]
  BY DEF TypeOK
<1>2. ASSUME NEW s \in HandlerState, NEW b \in BOOLEAN
      PROVE  LET n == [s EXCEPT !.held = s.held \cup {b}]
             IN /\ n \in HandlerState
                /\ n.pc = s.pc /\ n.req = s.req /\ n.form = s.form /\ n.ak = s.ak
                /\ n.nonce = s.nonce /\ n.checkedAt = s.checkedAt /\ n.cred = s.cred
                /\ n.held = s.held \cup {b}
  BY DEF HandlerState
<1>3. \A h \in Handlers :
        /\ handler[h].pc \in {"nonce", "lookup"} /\ handler[h].ak = ak =>
              handler'[h] = [handler[h] EXCEPT !.held = handler[h].held
                                                          \cup {Holds(c, handler[h].req)}]
        /\ ~(handler[h].pc \in {"nonce", "lookup"} /\ handler[h].ak = ak) =>
              handler'[h] = handler[h]
  BY DEF Noted
<1>4. handler' = [h \in Handlers |-> handler'[h]]
  BY DEF Noted
<1>5. ASSUME NEW h \in Handlers
      PROVE  Holds(c, handler[h].req) \in BOOLEAN /\ handler[h] \in HandlerState
  BY <1>1 DEF Holds
<1>6. ASSUME NEW h \in Handlers
      PROVE  /\ handler'[h] \in HandlerState
             /\ handler'[h].pc = handler[h].pc
             /\ handler'[h].req = handler[h].req
             /\ handler'[h].form = handler[h].form
             /\ handler'[h].ak = handler[h].ak
             /\ handler'[h].nonce = handler[h].nonce
             /\ handler'[h].checkedAt = handler[h].checkedAt
             /\ handler'[h].cred = handler[h].cred
             /\ handler[h].held \subseteq handler'[h].held
             /\ handler[h].pc \in {"nonce", "lookup"} /\ handler[h].ak = ak
                   => Holds(c, handler[h].req) \in handler'[h].held
  <2> DEFINE b == Holds(c, handler[h].req)
  <2>1. b \in BOOLEAN /\ handler[h] \in HandlerState
    BY <1>5
  <2>2. CASE handler[h].pc \in {"nonce", "lookup"} /\ handler[h].ak = ak
    <3>1. handler'[h] = [handler[h] EXCEPT !.held = handler[h].held \cup {b}]
      BY <1>3, <2>2
    <3> HIDE DEF b
    <3>2. /\ handler'[h] \in HandlerState
          /\ handler'[h].pc = handler[h].pc /\ handler'[h].req = handler[h].req
          /\ handler'[h].form = handler[h].form /\ handler'[h].ak = handler[h].ak
          /\ handler'[h].nonce = handler[h].nonce
          /\ handler'[h].checkedAt = handler[h].checkedAt
          /\ handler'[h].cred = handler[h].cred
          /\ handler'[h].held = handler[h].held \cup {b}
      BY <1>2, <2>1, <3>1
    <3> QED
      BY <3>2 DEF b
  <2>3. CASE ~(handler[h].pc \in {"nonce", "lookup"} /\ handler[h].ak = ak)
    BY <1>3, <2>1, <2>3
  <2> QED
    BY <2>2, <2>3
<1>7. handler' \in [Handlers -> HandlerState]
  BY <1>4, <1>6
<1> QED
  BY <1>3, <1>6, <1>7

-----------------------------------------------------------------------------
(* Types *)

(* A handler under way has a signed request that is not public. *)
InFlight ==
    \A h \in Handlers :
       handler[h].pc \in {"nonce", "lookup", "compare"} =>
          /\ handler[h].req \in Requests \ PublicRequests
          /\ handler[h].form \in {"intact", "reordered", "restamped", "altered"}
          /\ handler[h].form # "restamped" => handler[h].nonce = handler[h].req
          /\ handler[h].ak \in AccessKeys
          /\ handler[h].nonce \in Nonces
          /\ signed[handler[h].req] \in Signature

(* Init gives every variable its type. *)
LEMMA AuthInitType == Init => TypeOK /\ InFlight
<1> SUFFICES ASSUME Init PROVE TypeOK /\ InFlight
  OBVIOUS
<1>1. NoHandler \in HandlerState /\ NoHandler.pc = "idle"
  BY DEF NoHandler, HandlerState, Form
<1>2. /\ now \in 0..MaxTime
      /\ adds \in 0..MaxAdds
      /\ sweep \in Nat \cup {NoSweep}
  BY AuthAssumption DEF Init
<1>3. /\ signed \in [Requests -> Signature \cup {NotSigned}]
      /\ creds \in [AccessKeys -> Credential \cup {NoCredential}]
      /\ nonces \in [Nonces -> Nat \cup {Unseen}]
  BY DEF Init
<1>4. handler \in [Handlers -> HandlerState]
  BY <1>1 DEF Init
<1> QED
  BY <1>1, <1>2, <1>3, <1>4 DEF TypeOK, InFlight, Init

(* No step leaves the types. *)
LEMMA AuthTypeStep ==
    ASSUME TypeOK, InFlight, [Next]_vars
    PROVE  TypeOK' /\ InFlight'
<1> USE AuthAssumption
<1>t. /\ now \in 0..MaxTime
      /\ signed \in [Requests -> Signature \cup {NotSigned}]
      /\ creds \in [AccessKeys -> Credential \cup {NoCredential}]
      /\ adds \in 0..MaxAdds
      /\ nonces \in [Nonces -> Nat \cup {Unseen}]
      /\ sweep \in Nat \cup {NoSweep}
      /\ handler \in [Handlers -> HandlerState]
  BY DEF TypeOK
<1>1. ASSUME NEW r \in Requests, Sign(r)
      PROVE  TypeOK' /\ InFlight'
  <2>1. \A t \in Int : Unix(t) \in Int
    BY DEF Unix
  <2>2. PICK sig \in Signature : signed' = [signed EXCEPT ![r] = sig]
    <3>1. PICK ak \in AccessKeys, sk \in Secrets, skew \in Skews, raw \in BOOLEAN :
             signed' = [signed EXCEPT ![r] = [ak |-> ak, secret |-> sk,
                                              timestamp |-> Unix(now + skew), raw |-> raw]]
      BY <1>1 DEF Sign
    <3>2. Unix(now + skew) \in Int
      BY <1>t, <2>1
    <3>3. [ak |-> ak, secret |-> sk, timestamp |-> Unix(now + skew), raw |-> raw]
            \in Signature
      BY <3>2 DEF Signature
    <3> QED
      BY <3>1, <3>3
  <2>3. TypeOK'
    BY <1>1, <1>t, <2>2 DEF Sign, TypeOK
  <2>4. InFlight'
    BY <1>1, <1>t, <2>2 DEF Sign, InFlight
  <2> QED
    BY <2>3, <2>4
<1>2. ASSUME NEW ak \in AccessKeys, NEW c \in Credential, Add(ak, c)
      PROVE  TypeOK' /\ InFlight'
  <2>1. handler' = Noted(ak, c)
    BY <1>2 DEF Add
  <2>2. TypeOK'
    BY <1>2, <1>t, <2>1, NotedState DEF Add, TypeOK
  <2>3. UNCHANGED signed
    BY <1>2 DEF Add
  <2>4. InFlight'
    BY <2>1, <2>3, NotedState DEF InFlight
  <2> QED
    BY <2>2, <2>4
<1>3. ASSUME NEW h \in Handlers, NEW r \in Requests, NEW form \in Form,
             NEW ak \in AccessKeys, NEW t \in Timestamps, NEW n \in KnownNonces,
             Arrive(h, r, form, ak, t, n)
      PROVE  TypeOK' /\ InFlight'
  <2>1. TypeOK'
    BY <1>3, <1>t, ArriveState DEF Others, TypeOK
  <2>2. UNCHANGED signed
    BY <1>3 DEF Arrive
  <2>3. InFlight'
    BY <1>3, <2>2, ArriveState DEF InFlight
  <2> QED
    BY <2>1, <2>3
<1>4. ASSUME NEW h \in Handlers, CheckNonce(h)
      PROVE  TypeOK' /\ InFlight'
  <2>1. Refuse(h) \/ Goto(h, "lookup")
    BY <1>4 DEF CheckNonce
  <2>2. nonces' \in [Nonces -> Nat \cup {Unseen}]
    BY <1>4, <1>t DEF CheckNonce, CheckAndStore, ExpiresAt
  <2>3. handler' \in [Handlers -> HandlerState]
    BY <2>1, GotoState, RefuseState
  <2>4. UNCHANGED <<now, signed, creds, adds, sweep>> /\ handler[h].pc = "nonce"
    BY <1>4 DEF CheckNonce
  <2>5. InFlight'
    BY <2>1, <2>4, GotoState, RefuseState DEF InFlight
  <2> QED
    BY <1>t, <2>2, <2>3, <2>4, <2>5 DEF TypeOK
<1>5. ASSUME NEW h \in Handlers, Lookup(h)
      PROVE  TypeOK' /\ InFlight'
  <2> DEFINE c == GetByAK(handler[h].ak)
  <2>1. handler[h].pc = "lookup" /\ UNCHANGED Others
    BY <1>5 DEF Lookup, Others
  <2>2. c \in Credential \cup {NoCredential}
    BY <1>t, <2>1 DEF InFlight, Signature, GetByAK
  <2>3. \/ Goto(h, "unknownKey")
        \/ handler' = [handler EXCEPT ![h].pc = "compare", ![h].cred = c]
    BY <1>5 DEF Lookup
  <2> HIDE DEF c
  <2>4. TypeOK'
    BY <1>t, <2>1, <2>2, <2>3, GotoState, FoundState DEF TypeOK, Others, Refusal
  <2>5. UNCHANGED signed
    BY <2>1 DEF Others
  <2>6. InFlight'
    BY <2>1, <2>2, <2>3, <2>5, GotoState, FoundState DEF InFlight
  <2> QED
    BY <2>4, <2>6
<1>6. ASSUME NEW h \in Handlers, Compare(h)
      PROVE  TypeOK' /\ InFlight'
  <2>1. PICK place \in {"served", "mismatch"} : Goto(h, place)
    BY <1>6 DEF Compare
  <2>2. UNCHANGED Others
    BY <1>6 DEF Compare, Others
  <2>3. TypeOK'
    BY <1>t, <2>1, <2>2, GotoState DEF TypeOK, Others, Refusal
  <2>4. UNCHANGED signed
    BY <2>2 DEF Others
  <2>5. InFlight'
    BY <2>1, <2>4, GotoState DEF InFlight
  <2> QED
    BY <2>3, <2>5
<1>7. CASE Cleanup \/ StopStore \/ Tick
  <2>1. UNCHANGED <<signed, creds, adds, handler>>
    BY <1>7 DEF Cleanup, StopStore, Tick
  <2>2. now' \in 0..MaxTime
    BY <1>7, <1>t DEF Cleanup, StopStore, Tick
  <2>3. sweep' \in Nat \cup {NoSweep}
    BY <1>7, <1>t DEF Cleanup, StopStore, Tick
  <2>4. nonces' \in [Nonces -> Nat \cup {Unseen}]
    BY <1>7, <1>t DEF Cleanup, StopStore, Tick
  <2> QED
    BY <1>t, <2>1, <2>2, <2>3, <2>4 DEF TypeOK, InFlight
<1>8. CASE UNCHANGED vars
  BY <1>t, <1>8 DEF vars, TypeOK, InFlight
<1> QED
  BY <1>1, <1>2, <1>3, <1>4, <1>5, <1>6, <1>7, <1>8 DEF Next

(***************************************************************************)
(* Every variable of the verifier and its stores keeps its type.           *)
(***************************************************************************)
THEOREM AuthTypeCorrect == Spec => []TypeOK
<1>1. Spec => [](TypeOK /\ InFlight)
  BY AuthInitType, AuthTypeStep, PTL DEF Spec
<1> QED
  BY <1>1, PTL

-----------------------------------------------------------------------------
(* Authorization *)

(* The handler noted whether the credential holds for its request. *)
Sees(h, c) ==
    /\ Holds(c, handler[h].req) => TRUE \in handler[h].held
    /\ ~Holds(c, handler[h].req) => FALSE \in handler[h].held

(***************************************************************************)
(* Up to its lookup a handler has seen the credential now in the store; at *)
(* the comparison it holds one it has seen, and an enabled one.            *)
(***************************************************************************)
Witnessed(h) ==
    /\ handler[h].pc \in {"nonce", "lookup"} => Sees(h, creds[handler[h].ak])
    /\ handler[h].pc = "compare"
          => /\ Sees(h, handler[h].cred)
             /\ handler[h].cred # NoCredential
             /\ handler[h].cred.enabled

(* The outcome of one handler is the right one. *)
Justified(h) ==
    /\ handler[h].pc = "served" =>
          \/ handler[h].req \in PublicRequests
          \/ /\ handler[h].req \in Requests /\ signed[handler[h].req] \in Signature
             /\ Authentic(h)
             /\ TRUE \in handler[h].held
    /\ handler[h].pc \in {"unknownKey", "mismatch"} =>
          /\ handler[h].req \in Requests /\ signed[handler[h].req] \in Signature
          /\ ~Authentic(h) \/ FALSE \in handler[h].held

Authorization == \A h \in Handlers : Witnessed(h) /\ Justified(h)

(* Every step keeps what the handlers have seen and decided. *)
LEMMA AuthorizationStep ==
    ASSUME TypeOK, InFlight, Authorization, [Next]_vars
    PROVE  Authorization'
<1>t. /\ signed \in [Requests -> Signature \cup {NotSigned}]
      /\ creds \in [AccessKeys -> Credential \cup {NoCredential}]
      /\ NotSigned \notin Signature
  BY AuthAssumption DEF TypeOK, Signature
<1>1. ASSUME NEW r \in Requests, Sign(r)
      PROVE  Authorization'
  <2>1. UNCHANGED <<creds, handler>> /\ signed[r] \notin Signature
    BY <1>1, <1>t DEF Sign
  <2>2. \A q \in Requests \ {r} : signed'[q] = signed[q]
    BY <1>1, <1>t DEF Sign
  <2>3. ASSUME NEW h \in Handlers
        PROVE  Witnessed(h)'
    BY <2>1, <2>2 DEF Authorization, Witnessed, InFlight, Sees, Holds
  <2>4. ASSUME NEW h \in Handlers
        PROVE  Justified(h)'
    BY <2>1, <2>2 DEF Authorization, Justified, Authentic
  <2> QED
    BY <2>3, <2>4 DEF Authorization
<1>2. ASSUME NEW ak \in AccessKeys, NEW c \in Credential, Add(ak, c)
      PROVE  Authorization'
  <2>1. handler' = Noted(ak, c) /\ UNCHANGED signed /\ creds' = [creds EXCEPT ![ak] = c]
    BY <1>2 DEF Add
  <2>2. ASSUME NEW h \in Handlers
        PROVE  Witnessed(h)'
    <3>1. CASE handler[h].pc \in {"nonce", "lookup"}
      <4>1. /\ handler[h].ak \in AccessKeys
            /\ Sees(h, creds[handler[h].ak])
        BY <3>1 DEF InFlight, Authorization, Witnessed
      <4>2. CASE handler[h].ak = ak
        <5>1. Holds(c, handler[h].req) \in handler'[h].held /\ handler'[h].req = handler[h].req
          BY <2>1, <3>1, <4>2, NotedState
        <5>2. Holds(c, handler[h].req)' <=> Holds(c, handler[h].req)
          BY <2>1, <5>1 DEF Holds
        <5>3. Sees(h, c)'
          <6>1. Holds(c, handler[h].req) \in BOOLEAN
            BY DEF Holds
          <6>2. /\ Holds(c, handler[h].req) => TRUE \in handler'[h].held
                /\ ~Holds(c, handler[h].req) => FALSE \in handler'[h].held
            BY <5>1, <6>1
          <6> QED
            BY <5>1, <5>2, <6>2 DEF Sees
        <5>4. creds'[handler'[h].ak] = c /\ handler'[h].pc = handler[h].pc
          BY <1>t, <2>1, <4>2, NotedState
        <5> QED
          BY <3>1, <5>3, <5>4 DEF Witnessed
      <4>3. CASE handler[h].ak # ak
        <5>1. /\ handler'[h].ak = handler[h].ak /\ handler'[h].pc = handler[h].pc
              /\ handler'[h].req = handler[h].req
              /\ handler[h].held \subseteq handler'[h].held
              /\ creds'[handler[h].ak] = creds[handler[h].ak]
          BY <1>t, <2>1, <4>1, <4>3, NotedState
        <5> QED
          BY <2>1, <3>1, <4>1, <5>1 DEF Witnessed, Sees, Holds
      <4> QED
        BY <4>2, <4>3
    <3>2. CASE handler[h].pc \notin {"nonce", "lookup"}
      <4>1. handler'[h] = handler[h]
        BY <2>1, <3>2, NotedState
      <4> QED
        BY <2>1, <3>2, <4>1 DEF Authorization, Witnessed, Sees, Holds
    <3> QED
      BY <3>1, <3>2
  <2>3. ASSUME NEW h \in Handlers
        PROVE  Justified(h)'
    <3>1. handler'[h].pc = handler[h].pc
          /\ (handler[h].pc \notin {"nonce", "lookup"} => handler'[h] = handler[h])
      BY <2>1, NotedState
    <3>2. CASE handler[h].pc \in {"nonce", "lookup"}
      BY <3>1, <3>2 DEF Justified
    <3>3. CASE handler[h].pc \notin {"nonce", "lookup"}
      BY <2>1, <3>1, <3>3 DEF Authorization, Justified, Authentic
    <3> QED
      BY <3>2, <3>3
  <2> QED
    BY <2>2, <2>3 DEF Authorization
<1>3. ASSUME NEW h \in Handlers, UNCHANGED <<signed, creds>>,
             \A g \in Handlers \ {h} : handler'[g] = handler[g],
             Justified(h)', Witnessed(h)'
      PROVE  Authorization'
  <2>1. ASSUME NEW g \in Handlers \ {h}
        PROVE  Witnessed(g)' /\ Justified(g)'
    BY <1>3 DEF Authorization, Witnessed, Justified, Sees, Holds, Authentic
  <2> QED
    BY <1>3, <2>1 DEF Authorization
<1>4. ASSUME NEW h \in Handlers, NEW r \in Requests, NEW form \in Form,
             NEW ak \in AccessKeys, NEW t \in Timestamps, NEW n \in KnownNonces,
             Arrive(h, r, form, ak, t, n)
      PROVE  Authorization'
  <2>1. UNCHANGED <<signed, creds>>
    BY <1>4 DEF Arrive
  <2>2. Justified(h)'
    BY <1>4, ArriveState DEF Justified
  <2>3. ASSUME handler'[h].pc \in {"nonce", "lookup", "compare"}
        PROVE  Witnessed(h)'
    <3>1. /\ handler'[h].pc = "nonce" /\ handler'[h].ak = ak /\ handler'[h].req = r
          /\ handler'[h].held = {Holds(creds[ak], r)}
      BY <1>4, <2>3, ArriveState
    <3>2. Holds(creds[ak], r) \in BOOLEAN
      BY DEF Holds
    <3>3. /\ Holds(creds[ak], r) => TRUE \in handler'[h].held
          /\ ~Holds(creds[ak], r) => FALSE \in handler'[h].held
      BY <3>1, <3>2
    <3>4. Holds(creds[handler[h].ak], handler[h].req)' <=> Holds(creds[ak], r)
      BY <2>1, <3>1 DEF Holds
    <3> QED
      BY <3>1, <3>3, <3>4 DEF Witnessed, Sees
  <2>4. Witnessed(h)'
    BY <2>3 DEF Witnessed
  <2> QED
    BY <1>4, <2>1, <2>2, <2>4, <1>3, ArriveState
<1>5. ASSUME NEW h \in Handlers, CheckNonce(h)
      PROVE  Authorization'
  <2>1. Refuse(h) \/ Goto(h, "lookup")
    BY <1>5 DEF CheckNonce
  <2>2. UNCHANGED <<signed, creds>> /\ handler[h].pc = "nonce"
    BY <1>5 DEF CheckNonce
  <2>3. Justified(h)'
    <3>1. handler'[h].pc \in {"reused", "lookup"}
      BY <2>1, GotoState, RefuseState
    <3> QED
      BY <3>1 DEF Justified
  <2>4. Sees(h, creds[handler[h].ak])
    BY <2>2 DEF Authorization, Witnessed
  <2>5. Witnessed(h)'
    BY <2>1, <2>2, <2>4, GotoState, RefuseState DEF Witnessed, Sees, Holds
  <2> QED
    BY <2>1, <2>2, <2>3, <2>5, <1>3, GotoState, RefuseState
<1>6. ASSUME NEW h \in Handlers, Lookup(h)
      PROVE  Authorization'
  <2> DEFINE c == GetByAK(handler[h].ak)
  <2>1. UNCHANGED <<signed, creds>> /\ handler[h].pc = "lookup"
    BY <1>6 DEF Lookup
  <2>2. /\ c \in Credential \cup {NoCredential}
        /\ Sees(h, c)
        /\ handler[h].req \in Requests /\ signed[handler[h].req] \in Signature
    BY <1>t, <2>1 DEF InFlight, GetByAK, Authorization, Witnessed
  <2>3. \/ ~Usable(c) /\ Goto(h, "unknownKey")
        \/ Usable(c) /\ handler' = [handler EXCEPT ![h].pc = "compare", ![h].cred = c]
    BY <1>6 DEF Lookup
  <2> HIDE DEF c
  <2>4. CASE ~Usable(c) /\ Goto(h, "unknownKey")
    <3>1. FALSE \in handler[h].held
      BY <2>2, <2>4 DEF Usable, Sees, Holds
    <3>2. /\ handler'[h].pc = "unknownKey"
          /\ handler'[h].req = handler[h].req
          /\ handler'[h].held = handler[h].held
      BY <2>4, GotoState
    <3>3. Justified(h)' /\ Witnessed(h)'
      BY <2>1, <2>2, <3>1, <3>2 DEF Justified, Witnessed
    <3> QED
      BY <2>1, <2>4, <3>3, <1>3, GotoState
  <2>5. CASE Usable(c) /\ handler' = [handler EXCEPT ![h].pc = "compare", ![h].cred = c]
    <3>1. /\ handler'[h].pc = "compare"
          /\ handler'[h].cred = c
          /\ handler'[h].req = handler[h].req
          /\ handler'[h].held = handler[h].held
          /\ \A g \in Handlers \ {h} : handler'[g] = handler[g]
      BY <2>2, <2>5, FoundState
    <3>2. Justified(h)'
      BY <3>1 DEF Justified
    <3>3. c # NoCredential /\ c.enabled
      BY <2>5 DEF Usable
    <3>4. Witnessed(h)'
      <4>1. Sees(h, handler[h].cred)'
        BY <2>1, <2>2, <3>1 DEF Sees, Holds
      <4>2. (handler[h].cred # NoCredential /\ handler[h].cred.enabled)'
        BY <3>1, <3>3, Zenon
      <4> QED
        BY <3>1, <4>1, <4>2, Zenon DEF Witnessed
    <3> QED
      BY <2>1, <3>1, <3>2, <3>4, <1>3
  <2> QED
    BY <2>3, <2>4, <2>5
<1>7. ASSUME NEW h \in Handlers, Compare(h)
      PROVE  Authorization'
  <2> DEFINE r == handler[h].req
             same == HMAC(signed[r].secret, StringToSign(r, "intact"))
                       = HMAC(handler[h].cred.secret, StringToSign(r, handler[h].form))
  <2>1. UNCHANGED <<signed, creds>> /\ handler[h].pc = "compare"
    BY <1>7 DEF Compare
  <2>2. same <=> signed[r].secret = handler[h].cred.secret /\ Authentic(h)
    BY DEF HMAC, StringToSign, Authentic
  <2>3. \/ same /\ Goto(h, "served")
        \/ ~same /\ Goto(h, "mismatch")
    BY <1>7 DEF Compare
  <2>4. /\ r \in Requests /\ signed[r] \in Signature
        /\ Sees(h, handler[h].cred)
        /\ handler[h].cred # NoCredential /\ handler[h].cred.enabled
    BY <2>1 DEF InFlight, Authorization, Witnessed
  <2> HIDE DEF same
  <2>5. Justified(h)' /\ Witnessed(h)'
    <3>1. CASE same /\ Goto(h, "served")
      <4>1. TRUE \in handler[h].held /\ Authentic(h)
        BY <2>2, <2>4, <3>1 DEF Sees, Holds
      <4>2. /\ handler'[h].pc = "served" /\ handler'[h].req = r
            /\ handler'[h].form = handler[h].form /\ handler'[h].held = handler[h].held
        BY <3>1, GotoState
      <4> QED
        BY <2>1, <2>4, <4>1, <4>2 DEF Justified, Witnessed, Authentic
    <3>2. CASE ~same /\ Goto(h, "mismatch")
      <4>1. ~Authentic(h) \/ FALSE \in handler[h].held
        BY <2>2, <2>4, <3>2 DEF Sees, Holds
      <4>2. /\ handler'[h].pc = "mismatch" /\ handler'[h].req = r
            /\ handler'[h].form = handler[h].form /\ handler'[h].held = handler[h].held
        BY <3>2, GotoState
      <4> QED
        BY <2>1, <2>4, <4>1, <4>2 DEF Justified, Witnessed, Authentic
    <3> QED
      BY <2>3, <3>1, <3>2
  <2> QED
    BY <2>1, <2>3, <2>5, <1>3, GotoState
<1>8. CASE Cleanup \/ StopStore \/ Tick \/ UNCHANGED vars
  <2>1. UNCHANGED <<signed, creds, handler>>
    BY <1>8 DEF Cleanup, StopStore, Tick, vars
  <2> QED
    BY <2>1 DEF Authorization, Witnessed, Justified, Sees, Holds, Authentic
<1> QED
  BY <1>1, <1>2, <1>4, <1>5, <1>6, <1>7, <1>8 DEF Next

(* The types and the authorization, together. *)
LEMMA AuthorizationInv == Spec => [](TypeOK /\ InFlight /\ Authorization)
<1>1. Init => Authorization
  <2>1. Init => \A h \in Handlers : handler[h].pc = "idle"
    BY DEF Init, NoHandler
  <2> QED
    BY <2>1 DEF Authorization, Witnessed, Justified
<1> QED
  BY <1>1, AuthInitType, AuthTypeStep, AuthorizationStep, PTL DEF Spec

(***************************************************************************)
(* Whatever is added, replaced or disabled while requests are verified,    *)
(* the middleware lets a request through only with a signature made with   *)
(* the secret of a key that was enabled since the request arrived.         *)
(***************************************************************************)
THEOREM AuthorizedTheorem == Spec => []ServedIsAuthorized
<1>1. Authorization => ServedIsAuthorized
  BY DEF Authorization, Justified, ServedIsAuthorized
<1> QED
  BY <1>1, AuthorizationInv, PTL

-----------------------------------------------------------------------------
(* Eviction *)

(* The last tick is at most one interval ago, and swept what was expired then. *)
SweepOnTime ==
    sweep # NoSweep =>
       /\ sweep - CleanupInterval <= now
       /\ now <= sweep + MaxDelay
       /\ \A n \in Nonces : nonces[n] # Unseen => nonces[n] >= sweep - CleanupInterval

(* Every step keeps the sweeps on time. *)
LEMMA SweepStep ==
    ASSUME TypeOK, InFlight, SweepOnTime, [Next]_vars
    PROVE  SweepOnTime'
<1> USE AuthAssumption
<1>t. /\ now \in Nat
      /\ nonces \in [Nonces -> Nat \cup {Unseen}]
      /\ sweep \in Nat \cup {NoSweep}
      /\ NoSweep = -1 /\ Unseen = -1
  BY DEF TypeOK, Unseen, NoSweep
<1>1. CASE UNCHANGED <<now, sweep, nonces>>
  BY <1>1 DEF SweepOnTime
<1>2. ASSUME NEW h \in Handlers, CheckNonce(h)
      PROVE  SweepOnTime'
  <2>1. UNCHANGED <<now, sweep>>
    BY <1>2 DEF CheckNonce
  <2>2. \A n \in Nonces : nonces'[n] = nonces[n] \/ nonces'[n] = now + 2 * NonceTTL
    BY <1>2, <1>t DEF CheckNonce, CheckAndStore, ExpiresAt
  <2> QED
    BY <1>t, <2>1, <2>2 DEF SweepOnTime
<1>3. CASE Cleanup
  <2>1. /\ sweep # NoSweep /\ now >= sweep /\ UNCHANGED now
        /\ sweep' = sweep + CleanupInterval
    BY <1>3 DEF Cleanup
  <2>2. \A n \in Nonces : nonces'[n] # Unseen => nonces'[n] = nonces[n] /\ nonces[n] >= now
    BY <1>3, <1>t DEF Cleanup, Expired
  <2> QED
    BY <1>t, <2>1, <2>2 DEF SweepOnTime
<1>4. CASE Tick
  BY <1>t, <1>4 DEF Tick, SweepOnTime
<1>5. CASE StopStore
  BY <1>5 DEF StopStore, SweepOnTime
<1>6. ASSUME NEW r \in Requests, Sign(r)
      PROVE  SweepOnTime'
  BY <1>1, <1>6 DEF Sign
<1>7. ASSUME NEW ak \in AccessKeys, NEW c \in Credential, Add(ak, c)
      PROVE  SweepOnTime'
  BY <1>1, <1>7 DEF Add
<1>8. ASSUME NEW h \in Handlers, NEW r \in Requests, NEW form \in Form,
             NEW ak \in AccessKeys, NEW t \in Timestamps, NEW n \in KnownNonces,
             Arrive(h, r, form, ak, t, n)
      PROVE  SweepOnTime'
  BY <1>1, <1>8 DEF Arrive
<1>9. ASSUME NEW h \in Handlers, Lookup(h) \/ Compare(h)
      PROVE  SweepOnTime'
  BY <1>1, <1>9 DEF Lookup, Compare
<1>10. CASE UNCHANGED vars
  BY <1>1, <1>10 DEF vars
<1> QED
  BY <1>2, <1>3, <1>4, <1>5, <1>6, <1>7, <1>8, <1>9, <1>10 DEF Next

(***************************************************************************)
(* As long as cleanupLoop runs, no nonce stays longer than its life and    *)
(* one interval: the map cannot grow with the number of requests alone.    *)
(***************************************************************************)
THEOREM SweptTheorem == Spec => []NoncesAreSwept
<1>1. Init => SweepOnTime
  BY AuthAssumption DEF Init, SweepOnTime, NoSweep, Unseen
<1>2. TypeOK /\ SweepOnTime => NoncesAreSwept
  BY AuthAssumption DEF TypeOK, SweepOnTime, NoncesAreSwept, NoSweep, Unseen
<1> QED
  BY <1>1, <1>2, AuthInitType, AuthTypeStep, SweepStep, PTL DEF Spec

-----------------------------------------------------------------------------
(* What a step does to one handler, one nonce and one request *)

(* A handler stays where it is, or goes on by one check. *)
LEMMA HandlerMoves ==
    ASSUME TypeOK, InFlight, [Next]_vars, NEW g \in Handlers
    PROVE  \/ /\ handler'[g].pc = handler[g].pc
              /\ handler'[g].req = handler[g].req
              /\ handler'[g].form = handler[g].form
              /\ handler'[g].nonce = handler[g].nonce
           \/ /\ handler[g].pc = "idle"
              /\ \/ handler'[g].pc \in {"malformed", "expired", "nonce"}
                 \/ handler'[g].pc = "served" /\ handler'[g].req \in PublicRequests
           \/ CheckNonce(g)
           \/ /\ handler[g].pc \in {"lookup", "compare"}
              /\ handler'[g].pc \in {"compare", "unknownKey", "mismatch", "served"}
              /\ handler'[g].req = handler[g].req
              /\ handler'[g].form = handler[g].form
              /\ handler'[g].nonce = handler[g].nonce
<1>1. ASSUME NEW ak \in AccessKeys, NEW c \in Credential, Add(ak, c)
      PROVE  /\ handler'[g].pc = handler[g].pc
             /\ handler'[g].req = handler[g].req
             /\ handler'[g].form = handler[g].form
             /\ handler'[g].nonce = handler[g].nonce
  BY <1>1, NotedState DEF Add
<1>2. ASSUME NEW h \in Handlers, NEW r \in Requests, NEW form \in Form,
             NEW ak \in AccessKeys, NEW t \in Timestamps, NEW n \in KnownNonces,
             Arrive(h, r, form, ak, t, n)
      PROVE  \/ handler'[g] = handler[g]
             \/ /\ handler[g].pc = "idle"
                /\ \/ handler'[g].pc \in {"malformed", "expired", "nonce"}
                   \/ handler'[g].pc = "served" /\ handler'[g].req \in PublicRequests
  BY <1>2, ArriveState
<1>3. ASSUME NEW h \in Handlers, CheckNonce(h)
      PROVE  handler'[g] = handler[g] \/ CheckNonce(g)
  <2>1. \A k \in Handlers \ {h} : handler'[k] = handler[k]
    BY <1>3, GotoState, RefuseState DEF CheckNonce
  <2> QED
    BY <1>3, <2>1
<1>4. ASSUME NEW h \in Handlers, Lookup(h)
      PROVE  \/ handler'[g] = handler[g]
             \/ /\ handler[g].pc = "lookup"
                /\ handler'[g].pc \in {"compare", "unknownKey"}
                /\ handler'[g].req = handler[g].req
                /\ handler'[g].form = handler[g].form
                /\ handler'[g].nonce = handler[g].nonce
  <2> DEFINE c == GetByAK(handler[h].ak)
  <2>1. handler[h].pc = "lookup"
    BY <1>4 DEF Lookup
  <2>2. c \in Credential \cup {NoCredential}
    BY <2>1 DEF InFlight, GetByAK, TypeOK
  <2>3. \/ Goto(h, "unknownKey")
        \/ handler' = [handler EXCEPT ![h].pc = "compare", ![h].cred = c]
    BY <1>4 DEF Lookup
  <2> HIDE DEF c
  <2> QED
    BY <2>1, <2>2, <2>3, GotoState, FoundState
<1>5. ASSUME NEW h \in Handlers, Compare(h)
      PROVE  \/ handler'[g] = handler[g]
             \/ /\ handler[g].pc = "compare"
                /\ handler'[g].pc \in {"served", "mismatch"}
                /\ handler'[g].req = handler[g].req
                /\ handler'[g].form = handler[g].form
                /\ handler'[g].nonce = handler[g].nonce
  <2>1. handler[h].pc = "compare" /\ (Goto(h, "served") \/ Goto(h, "mismatch"))
    BY <1>5 DEF Compare
  <2> QED
    BY <2>1, GotoState
<1>6. CASE (\E r \in Requests : Sign(r)) \/ Cleanup \/ StopStore \/ Tick \/ UNCHANGED vars
  BY <1>6 DEF Sign, Cleanup, StopStore, Tick, vars
<1> QED
  BY <1>1, <1>2, <1>3, <1>4, <1>5, <1>6 DEF Next

(* CheckNonce either lets the handler go on or refuses it. *)
LEMMA CheckedState ==
    ASSUME TypeOK, InFlight, NEW g \in Handlers, CheckNonce(g)
    PROVE  /\ UNCHANGED <<now, signed>> /\ handler[g].pc = "nonce"
           /\ handler[g].nonce \in Nonces
           /\ handler'[g].nonce = handler[g].nonce
           /\ \A k \in Handlers \ {g} : handler'[k] = handler[k]
           /\ \/ /\ nonces[handler[g].nonce] # Unseen /\ nonces' = nonces
                 /\ handler'[g].pc = "reused"
              \/ /\ nonces[handler[g].nonce] = Unseen
                 /\ nonces' = [nonces EXCEPT ![handler[g].nonce] = ExpiresAt(now)]
                 /\ handler'[g].pc = "lookup"
                 /\ handler'[g].req = handler[g].req /\ handler'[g].form = handler[g].form
<1>1. /\ UNCHANGED <<now, signed>> /\ handler[g].pc = "nonce"
      /\ \/ /\ nonces[handler[g].nonce] # Unseen /\ nonces' = nonces
            /\ Refuse(g)
         \/ /\ nonces[handler[g].nonce] = Unseen
            /\ nonces' = [nonces EXCEPT ![handler[g].nonce] = ExpiresAt(now)]
            /\ Goto(g, "lookup")
  BY DEF CheckNonce, CheckAndStore
<1>2. handler[g].nonce \in Nonces
  BY <1>1 DEF InFlight
<1> QED
  BY <1>1, <1>2, GotoState, RefuseState

(* Who is past the nonce check stays there. *)
LEMMA PastKept ==
    ASSUME TypeOK, InFlight, [Next]_vars, NEW g \in Handlers, PastNonce(g)
    PROVE  /\ PastNonce(g)'
           /\ handler'[g].req = handler[g].req
           /\ handler'[g].form = handler[g].form
           /\ handler'[g].nonce = handler[g].nonce
<1>1. ~CheckNonce(g)
  BY DEF CheckNonce, PastNonce
<1>2. handler[g].pc \in {"lookup", "compare"} => handler[g].req \notin PublicRequests
  BY DEF InFlight
<1> QED
  BY <1>1, <1>2, HandlerMoves DEF PastNonce

(* Who comes past it was let through by CheckAndStore in this step. *)
LEMMA PastNew ==
    ASSUME TypeOK, InFlight, [Next]_vars, NEW g \in Handlers, PastNonce(g)', ~PastNonce(g)
    PROVE  CheckNonce(g) /\ handler'[g].pc = "lookup"
<1>1. CheckNonce(g)
  BY HandlerMoves DEF PastNonce
<1> QED
  BY <1>1, CheckedState DEF PastNonce

(* A nonce is stored by the handler it lets through, and evicted when it has expired. *)
LEMMA NonceMoves ==
    ASSUME TypeOK, InFlight, [Next]_vars, NEW n \in Nonces
    PROVE  \/ nonces'[n] = nonces[n] /\ now' \in {now, now + 1}
           \/ /\ now' = now /\ nonces[n] = Unseen /\ nonces'[n] = ExpiresAt(now)
              /\ \E g \in Handlers : CheckNonce(g) /\ handler[g].nonce = n
                                        /\ handler'[g].pc = "lookup"
           \/ now' = now /\ nonces'[n] = Unseen /\ nonces[n] # Unseen /\ now > nonces[n]
<1>t. nonces \in [Nonces -> Nat \cup {Unseen}]
  BY DEF TypeOK
<1>1. ASSUME NEW g \in Handlers, CheckNonce(g)
      PROVE  \/ nonces'[n] = nonces[n] /\ now' = now
             \/ /\ now' = now /\ nonces[n] = Unseen /\ nonces'[n] = ExpiresAt(now)
                /\ handler[g].nonce = n /\ handler'[g].pc = "lookup"
  BY <1>1, <1>t, CheckedState
<1>2. CASE Cleanup
  BY <1>2, <1>t DEF Cleanup, Expired
<1>3. CASE Tick
  BY <1>3 DEF Tick
<1>4. ASSUME NEW h \in Handlers, NEW q \in Requests, NEW form \in Form,
             NEW ak \in AccessKeys, NEW t \in Timestamps, NEW m \in KnownNonces,
             Arrive(h, q, form, ak, t, m)
      PROVE  UNCHANGED <<now, nonces>>
  BY <1>4 DEF Arrive
<1>5. ASSUME NEW r \in Requests, Sign(r)
      PROVE  UNCHANGED <<now, nonces>>
  BY <1>5 DEF Sign
<1>6. ASSUME NEW ak \in AccessKeys, NEW c \in Credential, Add(ak, c)
      PROVE  UNCHANGED <<now, nonces>>
  BY <1>6 DEF Add
<1>7. ASSUME NEW h \in Handlers, Lookup(h) \/ Compare(h)
      PROVE  UNCHANGED <<now, nonces>>
  BY <1>7 DEF Lookup, Compare
<1>8. CASE StopStore \/ UNCHANGED vars
  BY <1>8 DEF StopStore, vars
<1> QED
  BY <1>1, <1>2, <1>3, <1>4, <1>5, <1>6, <1>7, <1>8 DEF Next

(* A request is signed once. *)
LEMMA SignedKept ==
    ASSUME TypeOK, [Next]_vars, NEW r \in Requests, signed[r] \in Signature
    PROVE  signed'[r] = signed[r]
<1>1. NotSigned \notin Signature /\ signed \in [Requests -> Signature \cup {NotSigned}]
  BY AuthAssumption DEF Signature, TypeOK
<1>2. ASSUME NEW q \in Requests, Sign(q)
      PROVE  signed'[r] = signed[r]
  BY <1>1, <1>2 DEF Sign
<1>3. ASSUME NEW h \in Handlers, NEW q \in Requests, NEW form \in Form,
             NEW ak \in AccessKeys, NEW t \in Timestamps, NEW m \in KnownNonces,
             Arrive(h, q, form, ak, t, m)
      PROVE  UNCHANGED signed
  BY <1>3 DEF Arrive
<1>4. ASSUME NEW ak \in AccessKeys, NEW c \in Credential, Add(ak, c)
      PROVE  UNCHANGED signed
  BY <1>4 DEF Add
<1>5. ASSUME NEW h \in Handlers, CheckNonce(h) \/ Lookup(h) \/ Compare(h)
      PROVE  UNCHANGED signed
  BY <1>5 DEF CheckNonce, Lookup, Compare
<1>6. CASE Cleanup \/ StopStore \/ Tick \/ UNCHANGED vars
  BY <1>6 DEF Cleanup, StopStore, Tick, vars
<1> QED
  BY <1>2, <1>3, <1>4, <1>5, <1>6 DEF Next

-----------------------------------------------------------------------------
(* Refusals *)

(* Behind each stored nonce, and each repetition, is a delivery that was let through. *)
LetThrough(n) == \E g \in Handlers : PastNonce(g) /\ handler[g].nonce = n

Backed ==
    /\ \A n \in Nonces : nonces[n] # Unseen => LetThrough(n)
    /\ \A h \in Handlers : handler[h].pc = "reused" => LetThrough(handler[h].nonce)

(* Every step keeps the reason of a repetition. *)
LEMMA BackedStep ==
    ASSUME TypeOK, InFlight, Backed, [Next]_vars
    PROVE  Backed'
<1>1. ASSUME NEW n, LetThrough(n)
      PROVE  LetThrough(n)'
  BY <1>1, PastKept DEF LetThrough
<1>2. ASSUME NEW n \in Nonces, nonces'[n] # Unseen
      PROVE  LetThrough(n)'
  <2>1. CASE nonces[n] # Unseen
    BY <1>1, <2>1 DEF Backed
  <2>2. CASE nonces[n] = Unseen
    <3>1. PICK g \in Handlers : CheckNonce(g) /\ handler[g].nonce = n /\ handler'[g].pc = "lookup"
      BY <1>2, <2>2, NonceMoves
    <3>2. handler'[g].nonce = n
      BY <3>1, CheckedState
    <3> QED
      BY <3>1, <3>2 DEF LetThrough, PastNonce
  <2> QED
    BY <2>1, <2>2
<1>3. ASSUME NEW h \in Handlers, handler'[h].pc = "reused"
      PROVE  LetThrough(handler[h].nonce)'
  <2>1. CASE CheckNonce(h)
    <3>1. /\ handler[h].nonce \in Nonces /\ nonces[handler[h].nonce] # Unseen
          /\ handler'[h].nonce = handler[h].nonce
      BY <1>3, <2>1, CheckedState
    <3>2. LetThrough(handler[h].nonce)
      BY <3>1 DEF Backed
    <3>3. ASSUME NEW n, n = handler[h].nonce, LetThrough(n)
          PROVE  LetThrough(n)'
      BY <1>1, <3>3
    <3>4. PICK g \in Handlers : PastNonce(g) /\ handler[g].nonce = handler[h].nonce
      BY <3>2 DEF LetThrough
    <3>5. PastNonce(g)' /\ handler'[g].nonce = handler[g].nonce
      BY <3>4, PastKept
    <3> QED
      BY <3>1, <3>4, <3>5 DEF LetThrough
  <2>2. CASE ~CheckNonce(h)
    <3>1. handler[h].pc = "reused" /\ handler'[h].nonce = handler[h].nonce
      BY <1>3, <2>2, HandlerMoves
    <3>2. PICK g \in Handlers : PastNonce(g) /\ handler[g].nonce = handler[h].nonce
      BY <3>1 DEF Backed, LetThrough
    <3>3. PastNonce(g)' /\ handler'[g].nonce = handler[g].nonce
      BY <3>2, PastKept
    <3> QED
      BY <3>1, <3>2, <3>3 DEF LetThrough
  <2> QED
    BY <2>1, <2>2
<1> QED
  BY <1>2, <1>3 DEF Backed

(***************************************************************************)
(* A request refused as a repetition has a nonce another delivery was let  *)
(* through with; one refused for its key or its signature was changed on   *)
(* its way, or its key did not hold throughout.                            *)
(***************************************************************************)
THEOREM RefusalTheorem == Spec => []RefusedForACause
<1>1. Init => Backed
  <2>1. Init => (\A h \in Handlers : handler[h].pc = "idle") /\ \A n \in Nonces : nonces[n] = Unseen
    BY DEF Init, NoHandler
  <2> QED
    BY <2>1 DEF Backed
<1>2. Spec => []Backed
  BY <1>1, BackedStep, AuthInitType, AuthTypeStep, PTL DEF Spec
<1>3. Authorization /\ Backed => RefusedForACause
  BY DEF Authorization, Justified, Backed, LetThrough, RefusedForACause
<1> QED
  BY <1>2, <1>3, AuthorizationInv, PTL

-----------------------------------------------------------------------------
(* At most one delivery *)

(* Between its two checks a genuine delivery is within the tolerance and MaxDelay. *)
OnTime ==
    \A h \in Handlers :
       handler[h].pc = "nonce" =>
          /\ handler[h].checkedAt <= now
          /\ now <= handler[h].checkedAt + MaxDelay
          /\ handler[h].form # "restamped" =>
                /\ handler[h].checkedAt - signed[handler[h].req].timestamp <= Tolerance
                /\ signed[handler[h].req].timestamp - handler[h].checkedAt <= Tolerance

(* When the nonce of r may be evicted at the earliest, once a genuine delivery stored it. *)
Earliest(r) == signed[r].timestamp - Tolerance + 2 * NonceTTL

(***************************************************************************)
(* Of the request r at most one genuine delivery went on; since then its   *)
(* nonce is in the store, or no other can come to the nonce check.         *)
(***************************************************************************)
Remembered(r) ==
    Granted(r) # {} =>
       /\ signed[r] \in Signature
       /\ \A h, k \in Granted(r) : h = k
       /\ nonces[r] # Unseen => nonces[r] >= Earliest(r)
       /\ nonces[r] = Unseen => now > Earliest(r)

Once == Covered => \A r \in Requests : Remembered(r)

(* Every step keeps the handlers on time. *)
LEMMA OnTimeStep ==
    ASSUME TypeOK, InFlight, OnTime, [Next]_vars
    PROVE  OnTime'
<1> USE AuthAssumption
<1>t. /\ now \in Nat
      /\ signed \in [Requests -> Signature \cup {NotSigned}]
      /\ NotSigned \notin Signature
      /\ \A h \in Handlers : handler[h].checkedAt \in Nat
  BY DEF TypeOK, Signature, HandlerState
<1>1. ASSUME NEW r \in Requests, Sign(r)
      PROVE  OnTime'
  <2>1. UNCHANGED <<now, handler>> /\ signed[r] \notin Signature
    BY <1>1, <1>t DEF Sign
  <2>2. \A q \in Requests \ {r} : signed'[q] = signed[q]
    BY <1>1, <1>t DEF Sign
  <2> QED
    BY <2>1, <2>2 DEF OnTime, InFlight
<1>2. ASSUME NEW ak \in AccessKeys, NEW c \in Credential, Add(ak, c)
      PROVE  OnTime'
  <2>1. UNCHANGED <<now, signed>> /\ handler' = Noted(ak, c)
    BY <1>2 DEF Add
  <2> QED
    BY <2>1, NotedState DEF OnTime
<1>3. ASSUME NEW h \in Handlers, NEW r \in Requests, NEW form \in Form,
             NEW ak \in AccessKeys, NEW t \in Timestamps, NEW n \in KnownNonces,
             Arrive(h, r, form, ak, t, n)
      PROVE  OnTime'
  <2>1. UNCHANGED <<now, signed>>
    BY <1>3 DEF Arrive
  <2>2. ASSUME handler'[h].pc = "nonce"
        PROVE  /\ handler'[h].checkedAt = now
               /\ handler'[h].form # "restamped" =>
                     /\ now - signed[handler'[h].req].timestamp <= Tolerance
                     /\ signed[handler'[h].req].timestamp - now <= Tolerance
    BY <1>3, <2>2, ArriveState DEF InTolerance
  <2>3. \A g \in Handlers \ {h} : handler'[g] = handler[g]
    BY <1>3, ArriveState
  <2> QED
    BY <1>t, <2>1, <2>2, <2>3 DEF OnTime
<1>4. ASSUME NEW h \in Handlers, CheckNonce(h) \/ Lookup(h) \/ Compare(h)
      PROVE  OnTime'
  <2>1. UNCHANGED <<now, signed>>
    BY <1>4 DEF CheckNonce, Lookup, Compare
  <2>2. handler'[h].pc # "nonce" /\ \A g \in Handlers \ {h} : handler'[g] = handler[g]
    <3>1. CASE \E place \in {"lookup", "unknownKey", "served", "mismatch"} : Goto(h, place)
      BY <3>1, GotoState
    <3>2. CASE Refuse(h)
      BY <3>2, RefuseState
    <3>3. CASE \E c : handler' = [handler EXCEPT ![h].pc = "compare", ![h].cred = c]
      BY <3>3 DEF TypeOK, HandlerState
    <3> QED
      BY <1>4, <3>1, <3>2, <3>3 DEF CheckNonce, Lookup, Compare
  <2> QED
    BY <2>1, <2>2 DEF OnTime
<1>5. CASE Tick
  BY <1>5, <1>t DEF Tick, OnTime
<1>6. CASE Cleanup \/ StopStore \/ UNCHANGED vars
  BY <1>6 DEF Cleanup, StopStore, vars, OnTime
<1> QED
  BY <1>1, <1>2, <1>3, <1>4, <1>5, <1>6 DEF Next

(* No step lets a second delivery through. *)
LEMMA OnceStep ==
    ASSUME TypeOK, InFlight, OnTime, Once, Covered, [Next]_vars, NEW r \in Requests
    PROVE  Remembered(r)'
<1> USE AuthAssumption
<1>t. /\ now \in Nat
      /\ nonces \in [Nonces -> Nat \cup {Unseen}]
      /\ Unseen = -1
      /\ r \in Nonces
      /\ \A q \in Requests : signed[q] \in Signature => signed[q].timestamp \in Int
      /\ \A h \in Handlers : handler[h].checkedAt \in Nat
  BY DEF TypeOK, Signature, Unseen, Nonces, HandlerState
<1>r. Remembered(r)
  BY DEF Once
<1>k. \A g \in Granted(r) : g \in Granted(r)'
  BY PastKept DEF Granted
<1>1. ASSUME NEW g \in Handlers, g \in Granted(r)', g \notin Granted(r)
      PROVE  Remembered(r)'
  <2>1. CheckNonce(g) /\ handler'[g].pc = "lookup"
    <3>1. CASE PastNonce(g)
      BY <1>1, <3>1, PastKept DEF Granted
    <3>2. CASE ~PastNonce(g)
      BY <1>1, <3>2, PastNew DEF Granted
    <3> QED
      BY <3>1, <3>2
  <2>2. /\ UNCHANGED <<now, signed>> /\ handler[g].pc = "nonce"
        /\ nonces[handler[g].nonce] = Unseen
        /\ nonces' = [nonces EXCEPT ![handler[g].nonce] = ExpiresAt(now)]
        /\ handler'[g].req = handler[g].req /\ handler'[g].form = handler[g].form
        /\ \A k \in Handlers \ {g} : handler'[k] = handler[k]
    BY <2>1, CheckedState
  <2>3. handler[g].req = r /\ handler[g].form # "restamped"
    BY <1>1, <2>2 DEF Granted
  <2>4. handler[g].nonce = r /\ signed[r] \in Signature
    BY <2>2, <2>3 DEF InFlight
  <2>5. /\ handler[g].checkedAt <= now
        /\ now <= handler[g].checkedAt + MaxDelay
        /\ handler[g].checkedAt - signed[r].timestamp <= Tolerance
        /\ signed[r].timestamp - handler[g].checkedAt <= Tolerance
    BY <2>2, <2>3 DEF OnTime
  <2>6. handler[g].checkedAt \in Nat /\ signed[r].timestamp \in Int
    BY <1>t, <2>4
  <2>7. now <= Earliest(r) /\ ExpiresAt(now) >= Earliest(r) /\ ExpiresAt(now) \in Nat
    BY <1>t, <2>5, <2>6 DEF Covered, Earliest, ExpiresAt
  <2>8. Earliest(r) \in Int
    BY <2>6 DEF Earliest
  <2>9. Granted(r) = {}
    BY <1>r, <1>t, <2>2, <2>4, <2>7, <2>8 DEF Remembered
  <2>10. \A k \in Granted(r)' : k = g
    BY <2>2, <2>9 DEF Granted, PastNonce
  <2>11. nonces'[r] = ExpiresAt(now)
    BY <1>t, <2>2, <2>4
  <2>12. Earliest(r)' = Earliest(r) /\ signed'[r] = signed[r]
    BY <2>2 DEF Earliest
  <2>13. nonces'[r] # Unseen /\ nonces'[r] >= Earliest(r)'
    BY <1>t, <2>7, <2>11, <2>12
  <2> QED
    BY <2>4, <2>10, <2>12, <2>13 DEF Remembered
<1>2. CASE \A g \in Handlers : g \in Granted(r)' => g \in Granted(r)
  <2>1. Granted(r)' = Granted(r)
    <3>1. Granted(r)' \subseteq Handlers
      BY DEF Granted
    <3> QED
      BY <1>2, <1>k, <3>1
  <2>2. CASE Granted(r) = {}
    BY <2>1, <2>2 DEF Remembered
  <2>3. CASE Granted(r) # {}
    <3>1. /\ signed[r] \in Signature
          /\ \A h, k \in Granted(r) : h = k
          /\ nonces[r] # Unseen => nonces[r] >= Earliest(r)
          /\ nonces[r] = Unseen => now > Earliest(r)
      BY <1>r, <2>3 DEF Remembered
    <3>2. signed'[r] = signed[r]
      BY <3>1, SignedKept
    <3>3. Earliest(r)' = Earliest(r) /\ Earliest(r) \in Int
      BY <1>t, <3>1, <3>2 DEF Earliest
    <3>4. PICK m : m = now'
      OBVIOUS
    <3>5. PICK x : x = nonces'[r]
      OBVIOUS
    <3>6. \/ x = nonces[r] /\ m \in {now, now + 1}
          \/ m = now /\ nonces[r] = Unseen /\ x = ExpiresAt(now)
          \/ m = now /\ x = Unseen /\ nonces[r] # Unseen /\ now > nonces[r]
      BY <1>t, <3>4, <3>5, NonceMoves
    <3>7. /\ x # Unseen => x >= Earliest(r)
          /\ x = Unseen => m > Earliest(r)
      <4>1. nonces[r] \in Nat \cup {Unseen}
        BY <1>t
      <4> QED
        BY <1>t, <3>1, <3>3, <3>6, <4>1 DEF ExpiresAt
    <3> QED
      BY <2>1, <3>1, <3>2, <3>3, <3>4, <3>5, <3>7 DEF Remembered
  <2> QED
    BY <2>2, <2>3
<1> QED
  BY <1>1, <1>2

(***************************************************************************)
(* When the life of a nonce covers the window of the timestamps and the    *)
(* wait between the two checks, at most one of any number of concurrent or *)
(* late deliveries of a request with its own timestamp and nonce passes    *)
(* CheckAndStore, whatever else is delivered.                              *)
(***************************************************************************)
THEOREM GrantedTheorem == Spec => []GrantedOnce
<1>1. Init => OnTime /\ Once
  <2>1. Init => \A h \in Handlers : handler[h].pc = "idle"
    BY DEF Init, NoHandler
  <2> QED
    BY <2>1 DEF OnTime, Once, Remembered, Granted, PastNonce
<1>2. TypeOK /\ InFlight /\ OnTime /\ Once /\ [Next]_vars => Once'
  BY OnceStep DEF Once, Covered
<1>3. Once => GrantedOnce
  BY DEF Once, Remembered, GrantedOnce
<1> QED
  BY <1>1, <1>2, <1>3, AuthInitType, AuthTypeStep, OnTimeStep, PTL DEF Spec
=============================================================================
