CONSTANTS
  Threads = {t1, t2}
  poolSize = 2
  MaxRequests = 4
  SqlMayFail = TRUE
SPECIFICATION FairSpec
INVARIANTS NoSubmissionLost ReportedOutcomeHolds
PROPERTIES SettledStaysSettled StoreAndRejectAnswered
CHECK_DEADLOCK FALSE
