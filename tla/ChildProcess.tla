---------------------------- MODULE ChildProcess ----------------------------
(***************************************************************************)
(* What a child process of the event MPM shows its parent: it starts, it   *)
(* is up, it quits because it has been told to (or has told itself), it    *)
(* has exited.  EventParent is written against this, and EventChild        *)
(* implements it.                                                          *)
(***************************************************************************)

(* The steps of a child that nobody kills and nothing goes wrong in.       *)
Steps ==
  {<<"starting", "up">>, <<"up", "quitting">>, <<"quitting", "exited">>}

VARIABLE phase

ChildInit == phase \in {"starting", "up"}
ChildNext == <<phase, phase'>> \in Steps
ChildSpec == ChildInit /\ [][ChildNext]_phase
=============================================================================
