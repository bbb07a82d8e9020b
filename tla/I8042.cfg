SPECIFICATION Spec
CONSTANTS
  Polls = 2
  Flush = 2
  Configs <- MCConfigs
  Keys <- MCKeys
  MaxKeys = 3
INVARIANTS
  TypeOK
  ConfigKept
  TypingFaithful
  OneByteLost
  StuckByLossOnly
  FailedClosed
PROPERTIES
  InitReturns
  KeysServed
