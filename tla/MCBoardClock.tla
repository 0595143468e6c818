----------------------------- MODULE MCBoardClock -----------------------------
(***************************************************************************)
(* BoardClock for TLC: a timer with a short period and a clock that wraps. *)
(***************************************************************************)
EXTENDS BoardClock

MCPeriod == 4
MCTimeModulus == 10         \* not a multiple of the period, like 2^32
MCMaxTime == 6 * MCPeriod   \* the clock wraps twice
=============================================================================
