SPECIFICATION FairSpec
CONSTANTS
  p1 = p1
  p2 = p2
  None = None
  Forks = {p1, p2}
INVARIANT
  BlameIsFair
PROPERTY
  OracleEnds
