-------------------------- MODULE MCStoryLifecycle --------------------------
(* StoryLifecycle for TLC.  The threads are interchangeable: ThreadSymmetry is
   sound for the invariants and not used where liveness is checked.     *)
EXTENDS StoryLifecycle, TLC

ThreadSymmetry == Permutations(Threads)
=============================================================================
