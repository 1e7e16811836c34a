CONSTANTS
  Threads = {t1, t2}
  poolSize = 2
  MaxRequests = 3
  Comments = {c1, c2}
  Missing = nocomment
  Users = {u1, u2}
  FirstRatings <- Ends
  SqlMayFail = TRUE
SPECIFICATION Spec
SYMMETRY ThreadSymmetry
INVARIANTS RatingsAgree MenuIsExact LogReplays
CHECK_DEADLOCK FALSE
