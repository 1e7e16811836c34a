CONSTANTS
  server_limit = 3
  active_daemons_limit = 3
  threads_per_child = 4
  min_spare_threads = 1
  max_spare_threads = 6
  ap_daemons_to_start = 1
  MAX_SPAWN_RATE = 2
  HOLD_OFF = 0
  MaxGeneration = 1
  MaxFaults = 1
  MaxPod = 1
SPECIFICATION FairSpec
INVARIANTS AllInReach  PodSuffices
PROPERTIES  ServiceReturns
CHECK_DEADLOCK FALSE
