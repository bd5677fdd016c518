SPECIFICATION FairSpec
CONSTANTS
  c1 = c1
  c2 = c2
  c3 = c3
  c4 = c4
  Conns = {c1, c2, c3, c4}
  NoConn = noconn
  Limits = {2, 3}
  Capacity = 2
INVARIANT TypeOK
INVARIANT CountersExact
PROPERTY EveryConnAnswered
CHECK_DEADLOCK FALSE
