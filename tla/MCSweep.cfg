SPECIFICATION FairSpec
CONSTANTS
  Models = 2
  Cases = 2
  None = None
INVARIANT
  SweepTypeOK
  ExitIsBacked
  VerdictIsOwn
  OnlyCutScriptsLeak
PROPERTY
  SweepEnds
