-------------------------------- MODULE Mutex --------------------------------
(***************************************************************************)
(* What the locks of one name promise: they serialise access to a shared   *)
(* resource (lock_test.go:630).  A client comes in when nobody is in.      *)
(***************************************************************************)
CONSTANT Clients

VARIABLE holders    \* the clients that believe to hold the lock

Init == holders = {}

Enter(c) == holders = {} /\ holders' = {c}
Leave(c) == holders = {c} /\ holders' = {}

Next == \E c \in Clients : Enter(c) \/ Leave(c)

Spec == Init /\ [][Next]_holders
=============================================================================
