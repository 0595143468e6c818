------------------------------ MODULE MCUartRing ------------------------------
(***************************************************************************)
(* UartRing for TLC: rings of four slots, and messages that fill the ring  *)
(* or are longer than it.                                                  *)
(***************************************************************************)
EXTENDS UartRing

MCSize == 4
MCLengths == {MCSize - 1, MCSize}
=============================================================================
