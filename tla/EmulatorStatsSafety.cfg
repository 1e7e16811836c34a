CONSTANTS
  c1 = c1
  c2 = c2
  Clients <- Threads
  MaxRequests = 3
  MaxSessions = 1
SPECIFICATION Spec
SYMMETRY ThreadSymmetry
INVARIANTS CountsAccounted NothingTwice 
CHECK_DEADLOCK FALSE
