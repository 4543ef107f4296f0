--------------------------- MODULE MCPayloadPath ---------------------------
(* Block, buffer and frame sizes without common factors where the code     *)
(* leaves them unaligned: every position of a boundary inside a frame.     *)
EXTENDS PayloadPath

MCPayloadSizes == 1..APP_B_IMAGE_SIZE
=============================================================================
