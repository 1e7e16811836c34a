CONSTANTS
  Workers = {w1, w2}
  Conns = {c1, c2}
  worker_factor = 2
  MaxConnectionsPerChild = 0
  MaxTimers = 0
  NoConn = NoConn
SPECIFICATION Spec
SYMMETRY Symmetry
INVARIANTS IdlersAccounted CountsExact TimeoutsArmed OneHolder
PROPERTIES ListenerLeavesNothing ImplementsChild
CHECK_DEADLOCK FALSE
