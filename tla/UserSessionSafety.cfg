CONSTANTS
  nbRows = 26
  transitions <- CommentTable
  maxNbOfTransitions = 5
  MaxUserSessions = 2
  Pages <- ServletPages
SPECIFICATION FairSessionSpec
INVARIANTS BackAlwaysPossible HomeAfterError
PROPERTY ThreadStops
CHECK_DEADLOCK FALSE
