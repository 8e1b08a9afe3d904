SPECIFICATION SessionFairSpec
CONSTANTS
  w1 = w1
  w2 = w2
  None = None
  Foreign = Foreign
  Workers = {w1, w2}
  Intruders = {Foreign}
  Launches = 2
  MaxPolls = 2
  MaxTurns = 1
INVARIANT
  TypeOK
  LeaderIsGone
  SurvivorsWereTold
  TrafficStaysInside
PROPERTY
  AllLaunchesEnd
