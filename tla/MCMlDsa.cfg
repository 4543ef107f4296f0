SPECIFICATION Spec
CONSTANTS
  q = 257
  HalfR = 8192
  QINV <- MCqinv
  Degree = 8
  ROOT = 2
  MontSquaredByN = 255
  Factors <- MCFactors
  Rate = 3
  Width = 4
  Handle = {1, 2}
  MaxFed = 5
  MaxDrawn = 4
  N = 4
  K = 2
  L = 1
  OMEGA = 2
  Matrix <- MCMatrix
  Messages <- MCMessages
  Contexts <- MCContexts
  Secrets <- MCSecrets
  Masks <- MCMasks
  Challenges <- MCChallenges
  SEEDBYTES = 1
  TRBYTES = 1
  CTILDEBYTES = 1
  POLYETA = 1
  POLYT0 = 2
  POLYT1 = 1
  POLYZ = 2
  Byte = {0, 1}
INVARIANTS
  XofIsSponge
  PermutationIsKeccak
  SamplersFollowStream
  CoefficientsReadBack
  EncodingIsUnique
  ProductIsNegacyclic
  VerifiesWhatWasSigned
