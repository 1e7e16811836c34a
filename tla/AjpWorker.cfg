CONSTANTS
  Threads = {t1, t2}
  Uploads = {2}
  retries = 2
  Configurations <- MCConfigurations
  MaxRequests = 2
  MaxFaults = 1
SPECIFICATION FairSpec
INVARIANTS SocketsOwned EndpointsHeld CacheIsClean  ExecutedOnce
PROPERTY RequestEnds
CHECK_DEADLOCK FALSE
