-------------------------- MODULE MCFreeRtosBench ---------------------------
(***************************************************************************)
(* FreeRtosBench for TLC.  One unit of time is Unit milliseconds; the      *)
(* times of the firmware are given in milliseconds and converted here.     *)
(***************************************************************************)
EXTENDS FreeRtosBench

CONSTANT Unit

Units(ms) == ms \div Unit

MCSamplePeriod == Units(50)
MCTimerPeriod == Units(100)
MCStaleLimit == Units(250)
MCInitDelay == Units(100)
MCInitMax == Units(230) + 1     \* 26 bus phases of 5 ms and the delay
MCReadMax == Units(100)         \* 20 bus phases of 5 ms
MCHungMax == 4                  \* a bus that hangs past a stale limit of one unit
=============================================================================
