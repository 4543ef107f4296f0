SPECIFICATION Spec
CONSTANTS
  f1 = f1
  f2 = f2
  f3 = f3
  NoFile = NoFile
  Files <- MCFiles
  Good <- MCGood
  FrameCount <- MCFrameCount
  ValidSizes <- MCValidSizes
  SeqMod = 2
  MaxSessions = 2
  MaxFaults = 2
  MaxResets = 1
INVARIANTS
  InStep
  StreamsAgree
  UndisturbedSucceeds
PROPERTIES
  ImplementsTransfer
  SenderEnds
  ReceiverReturns
CHECK_DEADLOCK FALSE
