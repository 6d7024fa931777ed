----------------------------- MODULE MCEmThread -----------------------------
(* The instance of MCEmOrch with the threads of the ems.                   *)
EXTENDS MCEmOrch, EmThread
=============================================================================
