CONSTANTS
  Workers = {w1}
  Conns = {c1}
  worker_factor = 2
  MaxConnectionsPerChild = 0
  MaxTimers = 0
  NoConn = NoConn
SPECIFICATION FairSpec
PROPERTY AcceptsAgain
CHECK_DEADLOCK FALSE
