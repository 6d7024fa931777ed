---------------------------- MODULE MCDppOnboard ----------------------------
(* Instance of DppOnboard for TLC.                                         *)
EXTENDS DppOnboard
=============================================================================
