---------------------------- MODULE MCFlashCalls ----------------------------
(* Pages of one double word of two bytes near the end of a 5-bit address   *)
(* space: one of bank 1, two of slot B, one of metadata, one behind them.  *)
EXTENDS FlashCalls

CONSTANT x

MCByte == {x, Blank}
=============================================================================
