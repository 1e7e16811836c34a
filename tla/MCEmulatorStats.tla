--------------------------- MODULE MCEmulatorStats ----------------------------
(* Small instances of EmulatorStats for TLC. *)
EXTENDS EmulatorStats, TLC

CONSTANTS c1, c2

Threads == {c1, c2}
ThreadSymmetry == Permutations(Threads)
=============================================================================
