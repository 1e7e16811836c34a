--------------------------- MODULE MCEventParent ---------------------------
EXTENDS EventParent
=============================================================================
