-------------------------- MODULE MCConnectionPool --------------------------
(* ConnectionPool for TLC.  The threads are interchangeable: ThreadSymmetry is
   sound for the invariants and not used where liveness is checked.     *)
EXTENDS ConnectionPool, TLC

ThreadSymmetry == Permutations(Threads)
=============================================================================
