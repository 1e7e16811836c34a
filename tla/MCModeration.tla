---------------------------- MODULE MCModeration -----------------------------
(* Small instances of Moderation for TLC. *)
EXTENDS Moderation, TLC

ThreadSymmetry == Permutations(Threads)
Ends == {-1, 4, 5}
=============================================================================
