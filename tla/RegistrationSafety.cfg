CONSTANTS
  Clients = {p1, p2, p3}
  Nicknames = {n1, n2}
  poolSize = 2
  MaxRequests = 5
  SqlMayFail = TRUE
SPECIFICATION Spec
SYMMETRY Symmetry
INVARIANTS WelcomedOwnRow NicknamesAreOnes
CHECK_DEADLOCK FALSE
