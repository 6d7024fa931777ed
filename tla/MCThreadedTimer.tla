--------------------------- MODULE MCThreadedTimer ---------------------------
(* ThreadedTimer.tla for TLC: the bounds are in the configurations. *)
EXTENDS ThreadedTimer
==============================================================================
