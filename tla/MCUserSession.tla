---------------------------- MODULE MCUserSession -----------------------------
(* A small instance of UserSession for TLC: a part of the author's default *)
(* table.  0 Home, 7 ViewStory, 8 PostComment, 9 StoreComment, 10           *)
(* ViewComment, 19 and 20 the author's login and tasks, 21 ReviewStories,   *)
(* 22 AcceptStory, 24 Back, 25 End of Session.                              *)
EXTENDS UserSession

CommentTable ==
  {<<0, 7>>, <<0, 19>>, <<0, 25>>, <<7, 8>>, <<7, 10>>, <<7, 24>>, <<8, 9>>,
   <<9, 25>>, <<10, 10>>, <<10, 24>>, <<19, 20>>, <<20, 21>>, <<21, 22>>,
   <<22, 24>>, <<22, 0>>}

(* Replies without a link or form; with a list of stories, or any other     *)
(* once lastStoryId is set; a story; a story or comment with comments and   *)
(* the filter form; the form to post a comment; the stories to review.      *)
ServletPages ==
  {{}, {7}, {7, 8}, {7, 8, 9, 10, 11}, {9}, {7, 9}, {7, 22, 23}}
=============================================================================
