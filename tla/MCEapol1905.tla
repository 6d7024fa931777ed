----------------------------- MODULE MCEapol1905 -----------------------------
(* Eapol1905.tla for TLC: the bounds are in the configurations. *)
EXTENDS Eapol1905
==============================================================================
