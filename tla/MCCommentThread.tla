--------------------------- MODULE MCCommentThread ---------------------------
(* A small instance of CommentThread for TLC: ratings at which a filter     *)
(* hides a comment and shows it.                                            *)
EXTENDS CommentThread

LowAndNormal == {-1, 0}
=============================================================================
