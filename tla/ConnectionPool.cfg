CONSTANTS
  Threads = {t1, t2, t3, t4}
  DatabasePropertiesSize = 2
  poolSize = 1
  NoConn = NoConn
  HandlerMayLeak = TRUE
  MaxRequests = 2
SPECIFICATION FairSpec
INVARIANT NoLostWakeup
PROPERTIES ImplementsContract EveryRequestServed
CHECK_DEADLOCK FALSE
