SPECIFICATION FairSpec
CONSTANTS
  Conns = {c1, c2}
  Cuts = {{}, {2}, {1, 2}}
  PoolSize = 4
  MaxBad = 1
  States = {s1, s2, s3}
  NoState = NoState
  MaxAborts = 1
INVARIANTS
  TypeOK
  OwnState
PROPERTIES
  ConnectionEnds
  Heard
CHECK_DEADLOCK FALSE
