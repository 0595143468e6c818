--------------------------- MODULE MCBaremetalBench ---------------------------
(***************************************************************************)
(* BaremetalBench for TLC, in units of Unit milliseconds.                  *)
(***************************************************************************)
EXTENDS BaremetalBench

CONSTANT Unit

Units(ms) == ms \div Unit

MCTimerPeriod == Units(100)
MCStaleLimit == Units(250)
MCInitDelay == Units(100)
MCInitMax == Units(230) + 1     \* 26 bus phases of 5 ms and the delay
MCReadMax == Units(100)         \* 20 bus phases of 5 ms
=============================================================================
