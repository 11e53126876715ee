CONSTANTS
  s1 = s1
  s2 = s2
  s3 = s3
  Sessions = {s1, s2, s3}
  Stallers = {s3}
SPECIFICATION StatsSpec
INVARIANT StatsReachEveryone
PROPERTY CountArrives
CHECK_DEADLOCK FALSE
