CONSTANTS
  Threads = {t1, t2}
  poolSize = 2
  MaxRequests = 3
  Ratings <- LowAndNormal
  SqlMayFail = TRUE
SPECIFICATION FairSpec
INVARIANTS ViewIsComplete ChildsMatchReplies
PROPERTY ViewsEnd
CHECK_DEADLOCK FALSE
