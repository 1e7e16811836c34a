CONSTANTS
  Workers = {w1}
  Conns = {c1}
  worker_factor = 2
  MaxConnectionsPerChild = 1
  MaxTimers = 1
  NoConn = NoConn
SPECIFICATION FairSpec
PROPERTIES ShutdownEnds 
CHECK_DEADLOCK FALSE
