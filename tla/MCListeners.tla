---------------------------- MODULE MCListeners ----------------------------
(* The instances of Listeners that TLC checks. *)
EXTENDS Listeners, TLC
=============================================================================
