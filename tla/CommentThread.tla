--------------------------- MODULE CommentThread ----------------------------
(***************************************************************************)
(* The comments on one story.  StoreComment.java adds a row to the comment *)
(* table and then, in a second statement, increments the "childs" counter  *)
(* of the parent row.  ViewStory.java and ViewComment.java, through        *)
(* Comment.java, fetch the tree one level per query, going one level       *)
(* deeper only while some fetched row has childs > 0, and print a row's    *)
(* replies only if the row says childs > 0.                                *)
(*                                                                         *)
(* A row is known by its AUTO_INCREMENT id, its place in the sequence      *)
(* comments.  Parent 0 is the story itself.  As in StoryLifecycle a        *)
(* statement is atomic and may throw, and a pool is a count.               *)
(***************************************************************************)
EXTENDS Integers, Sequences, FiniteSets

CONSTANTS
  Threads,       \* worker threads
  poolSize,      \* connections of each servlet's pool
  MaxRequests,   \* bound: requests in all
  Ratings,       \* ratings of the comment that is there at the start
  SqlMayFail     \* TRUE: any statement may throw an SQLException

ASSUME CommentAssumption ==
  /\ poolSize \in Nat /\ MaxRequests \in Nat
  /\ Ratings \subseteq Int
  /\ SqlMayFail \in BOOLEAN

Servlets == {"StoreComment", "ViewComment", "ViewStory"}
filter == 0       \* the default of ViewStory and ViewComment

VARIABLES
  comments,   \* the rows of the comment table
  counted,    \* history: comments whose parent was told of them
  avail,      \* free connections of each servlet's pool
  requests,   \* requests started so far
  pc, op,     \* per thread: next statement, servlet
  parent,     \* per thread: StoreComment's parameter, ViewComment's local
  commentId,  \* per thread: ViewComment's parameter (0: the whole story)
  display,    \* per thread: 0 main threads only, 1 nested
  mine,       \* per thread: the row StoreComment inserted
  level,      \* per thread: level the next fetchLowerLevels() asks for
  map,        \* per thread: the rows fetched so far
  due,        \* history: what a view that starts now has to show
  shown,      \* per thread: ids of the comments on the page
  printed     \* per thread: fetchAndDisplay() printed the page

table == <<comments, counted>>
store == <<mine>>
view == <<commentId, display, level, map, due, shown, printed>>
vars == <<table, avail, requests, pc, op, parent, store, view>>

CommentIds == DOMAIN comments

Init ==
  /\ \/ comments = <<>>
     \/ \E r \in Ratings : comments = <<[parent |-> 0, childs |-> 0, rating |-> r]>>
  /\ counted = DOMAIN comments
  /\ avail = [s \in Servlets |-> poolSize]
  /\ requests = 0
  /\ pc = [t \in Threads |-> "idle"]
  /\ op = [t \in Threads |-> "StoreComment"]
  /\ parent = [t \in Threads |-> 0]
  /\ commentId = [t \in Threads |-> 0]
  /\ display = [t \in Threads |-> 1]
  /\ mine = [t \in Threads |-> 0]
  /\ level = [t \in Threads |-> 0]
  /\ map = [t \in Threads |-> {}]
  /\ due = [t \in Threads |-> {}]
  /\ shown = [t \in Threads |-> {}]
  /\ printed = [t \in Threads |-> FALSE]

-----------------------------------------------------------------------------
Goto(t, l) == pc' = [pc EXCEPT ![t] = l]

(* The handler's locals do not outlive it. *)
Return(t) ==
  /\ Goto(t, "idle")
  /\ op' = [op EXCEPT ![t] = "StoreComment"]
  /\ parent' = [parent EXCEPT ![t] = 0]
  /\ commentId' = [commentId EXCEPT ![t] = 0]
  /\ display' = [display EXCEPT ![t] = 1]
  /\ mine' = [mine EXCEPT ![t] = 0]
  /\ level' = [level EXCEPT ![t] = 0]
  /\ map' = [map EXCEPT ![t] = {}]
  /\ due' = [due EXCEPT ![t] = {}]
  /\ shown' = [shown EXCEPT ![t] = {}]
  /\ printed' = [printed EXCEPT ![t] = FALSE]

Arrive(t, s) ==
  /\ pc[t] = "idle"
  /\ requests < MaxRequests
  /\ requests' = requests + 1
  /\ op' = [op EXCEPT ![t] = s]
  /\ Goto(t, "connect")
  /\ UNCHANGED <<table, avail, mine>>

Connected(t, s, l) ==
  /\ pc[t] = "connect" /\ op[t] = s
  /\ avail[s] > 0
  /\ avail' = [avail EXCEPT ![s] = @ - 1]
  /\ Goto(t, l)
  /\ UNCHANGED <<table, requests, op, parent, store, view>>

closeConnection(t) ==
  /\ pc[t] = "close"
  /\ avail' = [avail EXCEPT ![op[t]] = @ + 1]
  /\ Return(t)
  /\ UNCHANGED <<table, requests>>

(* A statement inside a try block throws: report, close, return. *)
SqlException(t) ==
  /\ SqlMayFail
  /\ pc[t] \in {"insert", "update", "selectStory", "selectParent", "fetch", "fetchLower"}
  /\ Goto(t, "close")
  /\ UNCHANGED <<table, avail, requests, op, parent, store, view>>

-----------------------------------------------------------------------------
(* StoreComment: a reply to the story or to a comment. *)
StoreComment(t, p) ==
  /\ Arrive(t, "StoreComment")
  /\ parent' = [parent EXCEPT ![t] = p]
  /\ UNCHANGED view

StoreCommentConnect(t) == Connected(t, "StoreComment", "authenticate")

(* sp.authenticate() turns an exception into a string that is no number;   *)
(* Integer.valueOf then throws out of the handler, past closeConnection.   *)
authenticate(t) ==
  /\ pc[t] = "authenticate"
  /\ \/ Goto(t, "insert") /\ UNCHANGED <<op, parent, store, view>>
     \/ SqlMayFail /\ Return(t)
  /\ UNCHANGED <<table, avail, requests>>

(* Mutant: an exception of the INSERT does not keep the UPDATE from running. *)
InsertComment_IgnoresException(t) ==
  /\ pc[t] = "insert"
  /\ Goto(t, "update")
  /\ UNCHANGED <<table, avail, requests, op, parent, store, view>>

InsertComment(t) ==
  /\ pc[t] = "insert"
  /\ comments' = Append(comments, [parent |-> parent[t], childs |-> 0, rating |-> 0])
  /\ mine' = [mine EXCEPT ![t] = Len(comments) + 1]
  /\ Goto(t, "update")
  /\ UNCHANGED <<counted, avail, requests, op, parent, view>>

(* UPDATE ... SET childs=childs+1 WHERE id=parent: no row for parent 0. *)
UpdateParent(t) ==
  /\ pc[t] = "update"
  /\ comments' = [i \in CommentIds |->
                    IF i = parent[t] THEN [comments[i] EXCEPT !.childs = @ + 1]
                    ELSE comments[i]]
  /\ counted' = counted \union {mine[t]}
  /\ Goto(t, "close")
  /\ UNCHANGED <<avail, requests, op, parent, store, view>>

-----------------------------------------------------------------------------
(* ViewComment and ViewStory. *)

(* What a view of comment c that starts now must show in nested display:   *)
(* c, or all first-level comments, and below them every comment that was   *)
(* completely stored and whose parent must be shown.                       *)
MustReach(c) ==
  LET reach[i \in CommentIds] ==
        IF c # 0 /\ i = c THEN TRUE
        ELSE IF comments[i].parent = 0 THEN c = 0
        ELSE i \in counted /\ reach[comments[i].parent]
  IN  {i \in CommentIds : reach[i]}

View(t, s, c, d) ==
  /\ Arrive(t, s)
  /\ commentId' = [commentId EXCEPT ![t] = c]
  /\ display' = [display EXCEPT ![t] = d]
  /\ due' = [due EXCEPT ![t] = {i \in MustReach(c) : comments[i].rating >= filter}]
  /\ UNCHANGED <<parent, level, map, shown, printed>>

ViewComment(t, c, d) == View(t, "ViewComment", c, d)

ViewStory(t) == View(t, "ViewStory", 0, 1)

ViewStoryConnect(t) == Connected(t, "ViewStory", "selectStory")

(* The story is looked for in stories, then in old_stories, which no       *)
(* request of the model changes; found is whether either has it.           *)
SelectStory(t, found) ==
  /\ pc[t] = "selectStory"
  /\ Goto(t, IF found THEN "fetch" ELSE "close")
  /\ UNCHANGED <<table, avail, requests, op, parent, store, view>>

ViewCommentConnect(t) ==
  Connected(t, "ViewComment", IF commentId[t] = 0 THEN "fetch" ELSE "selectParent")

SelectParent(t) ==
  /\ pc[t] = "selectParent"
  /\ IF commentId[t] \in CommentIds
     THEN /\ parent' = [parent EXCEPT ![t] = comments[commentId[t]].parent]
          /\ Goto(t, "fetch")
     ELSE UNCHANGED parent /\ Goto(t, "close")
  /\ UNCHANGED <<table, avail, requests, op, store, view>>

(* The rows the query for level l returns: the join of l + 1 copies of the *)
(* table, each one's parent being the one before, the first hanging below  *)
(* cid and, if a comment was asked for, being that comment.                *)
RowsAtLevel(cid, c, l) ==
  LET ids[k \in 0 .. l] ==
        IF k = 0 THEN {i \in CommentIds : comments[i].parent = cid /\ (c # 0 => i = c)}
        ELSE {i \in CommentIds : comments[i].parent \in ids[k - 1]}
  IN  {[id |-> i, row |-> comments[i]] : i \in ids[l]}

(* displayComments() and displayLowerLevelComments(): walk down from cid   *)
(* through rows with childs > 0, printing those that pass the filter.      *)
Displayed(m, cid, d) ==
  LET at[k \in 0 .. Len(comments)] ==
        IF k = 0 THEN {r \in m : r.row.parent = cid}
        ELSE {r \in m : \E q \in at[k - 1] : r.row.parent = q.id /\ q.row.childs > 0}
      visited == IF d = 0 THEN at[0] ELSE UNION {at[k] : k \in DOMAIN at}
  IN  {r.id : r \in {r \in visited : r.row.rating >= filter}}

(* Mutant: "deeper" reflects the last row read instead of any row. *)
FetchLevel_LastRowDecides(t, l) ==
  LET rows   == RowsAtLevel(parent[t], commentId[t], l)
      got    == map[t] \union rows
      deeper == \E r \in rows : r.row.childs > 0 /\ \A q \in rows : q.id <= r.id
  IN  /\ map' = [map EXCEPT ![t] = got]
      /\ level' = [level EXCEPT ![t] = l + 1]
      /\ printed' = [printed EXCEPT ![t] = ~deeper]
      /\ IF deeper THEN UNCHANGED shown /\ Goto(t, "fetchLower")
         ELSE /\ shown' = [shown EXCEPT ![t] = Displayed(got, parent[t], display[t])]
              /\ Goto(t, "close")
      /\ UNCHANGED <<table, avail, requests, op, parent, store, commentId, display, due>>

(* Mutant: the recursive call does not pass level + 1. *)
FetchLevel_SameLevel(t, l) ==
  LET rows == RowsAtLevel(parent[t], commentId[t], l)
  IN  /\ map' = [map EXCEPT ![t] = @ \union rows]
      /\ level' = [level EXCEPT ![t] = 1]
      /\ Goto(t, IF \E r \in rows : r.row.childs > 0 THEN "fetchLower" ELSE "close")
      /\ UNCHANGED <<table, avail, requests, op, parent, store, commentId, display, due, shown, printed>>

(* One query; when no row of it has replies the page is printed. *)
FetchLevel(t, l) ==
  LET rows   == RowsAtLevel(parent[t], commentId[t], l)
      got    == map[t] \union rows
      deeper == \E r \in rows : r.row.childs > 0
  IN  /\ map' = [map EXCEPT ![t] = got]
      /\ level' = [level EXCEPT ![t] = l + 1]
      /\ printed' = [printed EXCEPT ![t] = ~deeper]
      /\ IF deeper THEN UNCHANGED shown /\ Goto(t, "fetchLower")
         ELSE /\ shown' = [shown EXCEPT ![t] = Displayed(got, parent[t], display[t])]
              /\ Goto(t, "close")
      /\ UNCHANGED <<table, avail, requests, op, parent, store, commentId, display, due>>

fetchComments(t) == pc[t] = "fetch" /\ FetchLevel(t, 0)

fetchLowerLevels(t) == pc[t] = "fetchLower" /\ FetchLevel(t, level[t])

-----------------------------------------------------------------------------
(* The handler goes on without an exception. *)
Statement(t) ==
  \/ StoreCommentConnect(t) \/ authenticate(t) \/ InsertComment(t) \/ UpdateParent(t)
  \/ ViewStoryConnect(t) \/ \E found \in BOOLEAN : SelectStory(t, found)
  \/ ViewCommentConnect(t) \/ SelectParent(t) \/ fetchComments(t) \/ fetchLowerLevels(t)
  \/ closeConnection(t)

Step(t) == Statement(t) \/ SqlException(t)

Request(t) ==
  \/ \E p \in CommentIds \union {0} : StoreComment(t, p)
  \/ ViewStory(t)
  \/ \E c \in 0 .. Len(comments) + 1, d \in {0, 1} : ViewComment(t, c, d)

Next == \E t \in Threads : Request(t) \/ Step(t)

Spec == Init /\ [][Next]_vars

(* A handler goes on as long as it is not blocked in the pool; that        *)
(* statements throw is not relied upon.                                    *)
FairSpec == Spec /\ \A t \in Threads : WF_vars(Statement(t))

-----------------------------------------------------------------------------
Replies(c) == {i \in CommentIds : comments[i].parent = c}
InFlight(c) == {t \in Threads : pc[t] = "update" /\ parent[t] = c}
Uncounted(c) == {i \in Replies(c) \ counted : \A t \in InFlight(c) : mine[t] # i}

(* childs counts the replies, but for those whose UPDATE is still to come  *)
(* and those whose UPDATE threw, however the statements interleave.        *)
ChildsMatchReplies ==
  \A c \in CommentIds :
    comments[c].childs + Cardinality(InFlight(c)) + Cardinality(Uncounted(c))
      = Cardinality(Replies(c))

(* A nested view that ends without an error shows every comment that was   *)
(* completely stored, ancestors included, when the view began, however the *)
(* level-by-level queries interleave with new replies.                     *)
ViewIsComplete ==
  \A t \in Threads :
    printed[t] /\ display[t] = 1 => due[t] \subseteq shown[t]

(* A view comes to an end: each level it asks for lies below the last one, *)
(* and comments are finite.                                                *)
ViewsEnd ==
  \A t \in Threads : (pc[t] # "idle" /\ op[t] # "StoreComment") ~> (pc[t] = "idle")
=============================================================================
