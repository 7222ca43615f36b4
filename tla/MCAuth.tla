-------------------------------- MODULE MCAuth --------------------------------
EXTENDS Auth, TLC
CONSTANTS order, health, other, h1, h2, old, new
Symmetry == Permutations(Handlers) \cup Permutations(Secrets)

(***************************************************************************)
(* Once the store is stopped nothing is evicted: the runs end there.  And  *)
(* a key is replaced only while no nonce of another making was used: what  *)
(* a nonce is never decides what becomes of a key.                         *)
(***************************************************************************)
Bound ==
    /\ sweep # NoSweep
    /\ adds > 0 => \A n \in OtherNonces : nonces[n] = Unseen
=============================================================================
