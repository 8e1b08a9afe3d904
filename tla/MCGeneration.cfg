CONSTANTS
  None = None
  Chunks <- SmallChunks
  MaxTokens = 1
  Timeout = 5
  SilenceTimeout = 2
  ConnectTimeout = 1
  ReadTimeout = 3
  MaxWork = 1
  MaxClock = 14
  MaxTrickles = 2
SPECIFICATION FairSpec
INVARIANT TypeOK
INVARIANT FaultExcludesDerail
INVARIANT LatchIsReported
INVARIANT ColdStartIsNotSilence
INVARIANT EstimateWithinBudget
INVARIANT EndsInTime
PROPERTY Terminates
