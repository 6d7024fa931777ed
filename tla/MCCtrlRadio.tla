----------------------------- MODULE MCCtrlRadio -----------------------------
(***************************************************************************)
(* An instance of CtrlRadio that begins in one of three ways: two new      *)
(* radios onboarded by two M1 messages; two configured radios, one of      *)
(* which starts again while a command comes from outside; two radios       *)
(* configured before, which commands from outside follow one another.      *)
(***************************************************************************)
EXTENDS CtrlRadio

Onboarding == [state |-> "unconfigured", used |-> [m1 |-> 0, cmds |-> 2, ids |-> 1]]
Operation == [state |-> "configured", used |-> [m1 |-> 2, cmds |-> 0, ids |-> 0]]

Both == [state |-> "configured", used |-> [m1 |-> 1, cmds |-> 1, ids |-> 0]]

MCStarts == {Onboarding, Both, Operation}
=============================================================================
