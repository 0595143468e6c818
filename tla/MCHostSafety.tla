---------------------------- MODULE MCHostSafety ----------------------------
(***************************************************************************)
(* HostSafety for TLC: two cells, one of which the stimulus drops, and     *)
(* readings at and just past every limit.                                  *)
(***************************************************************************)
EXTENDS HostSafety

MCTestVoltages ==
    {NotFinite, -1, 27996, 28000, 42000, 42002, 42010, 655351}
=============================================================================
