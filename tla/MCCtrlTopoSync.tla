--------------------------- MODULE MCCtrlTopoSync ---------------------------
(* Instances of CtrlTopoSync: two radios, of one device or of two.         *)
EXTENDS CtrlTopoSync

CONSTANTS r1, r2, d1, d2

OneDevice == [r \in Radios |-> d1]
TwoDevices == [r \in Radios |-> IF r = r1 THEN d1 ELSE d2]
=============================================================================
