--------------------------- MODULE MCConfigLoader ---------------------------
(* Two callbacks, the first of which panics at times. *)
EXTENDS ConfigLoader
=============================================================================
