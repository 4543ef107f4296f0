----------------------------- MODULE MCUartOta -----------------------------
(* Two files of the same size, longer than the sequence numbers, and a     *)
(* shorter one that the device refuses.                                    *)
EXTENDS UartOta, TLC

CONSTANTS f1, f2, f3

MCFiles == {f1, f2, f3}
MCGood == {f1, f2}
MCFrameCount == f1 :> 3 @@ f2 :> 3 @@ f3 :> 2
MCValidSizes == {3}
=============================================================================
