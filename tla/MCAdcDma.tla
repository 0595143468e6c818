------------------------------- MODULE MCAdcDma -------------------------------
(***************************************************************************)
(* AdcDma for TLC: halves of two scans, a handler that may come more than  *)
(* a half too late, and a clock that wraps within the run.                 *)
(***************************************************************************)
EXTENDS AdcDma

MCHalf == 4
MCLatencyMax == MCHalf + 1
MCHandlerMax == 2
MCAgeLimit == MCHalf
MCTimeModulus == 15
=============================================================================
