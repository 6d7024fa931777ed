------------------------------ MODULE MCCtrlCli ------------------------------
(* CtrlCli.tla for TLC: the bounds are in the configurations. *)
EXTENDS CtrlCli
==============================================================================
