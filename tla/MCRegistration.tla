--------------------------- MODULE MCRegistration ----------------------------
(* Small instances of Registration for TLC. *)
EXTENDS Registration, TLC

Symmetry == Permutations(Clients) \union Permutations(Nicknames)
=============================================================================
