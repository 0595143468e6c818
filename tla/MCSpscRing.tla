------------------------------ MODULE MCSpscRing ------------------------------
(***************************************************************************)
(* SpscRing for TLC: four slots and two bytes that can be told apart, so   *)
(* that a slot read too early or overwritten too soon shows.               *)
(***************************************************************************)
EXTENDS SpscRing

MCSize == 4
=============================================================================
