----------------------------- MODULE Moderation ------------------------------
(***************************************************************************)
(* Comment moderation.  StoreModeratorLog.java reads a comment's rating,   *)
(* decides whether the vote may still be applied, and adds it to the       *)
(* rating of the comment's writer and to the rating of the comment in two  *)
(* more statements, each autocommitted.  Comment.displayFilterChooser()    *)
(* counts the comments of each rating for the filter menu of a page.       *)
(*                                                                         *)
(* As in StoryLifecycle a statement is atomic and may throw, and the pool  *)
(* is a count.                                                             *)
(***************************************************************************)
EXTENDS Integers, Sequences, FiniteSets, FiniteSetsExt

CONSTANTS
  Threads,       \* worker threads
  poolSize,      \* connections of the servlet's pool
  MaxRequests,   \* bound: requests in all
  Comments,      \* ids of the comments of a story
  Missing,       \* an id no comment has
  Users,         \* the writers of comments
  FirstRatings,  \* ratings comments may have at the start
  SqlMayFail     \* TRUE: any statement may throw an SQLException

ASSUME ModerationAssumption ==
  /\ poolSize \in Nat /\ MaxRequests \in Nat
  /\ IsFiniteSet(Comments) /\ IsFiniteSet(Threads)
  /\ Missing \notin Comments
  /\ FirstRatings \subseteq -1 .. 5
  /\ SqlMayFail \in BOOLEAN

Votes == {-1, 0, 1}     \* the options of ModerateComment's form

VARIABLES
  writer,        \* comment -> its writer
  rating,        \* comment -> comments.rating
  userRating,    \* user -> users.rating
  moderatorLog,  \* rows of moderator_log: <<comment, vote>>
  first,         \* history: comment -> its rating at the start
  drift,         \* history: user -> votes that reached only the user
  avail,         \* free connections
  requests,      \* requests started so far
  serial,        \* history: no two votes overlapped and no statement threw
  pc,            \* per thread: next statement
  commentId, vote,  \* per thread: parameters
  seen, options  \* per thread: what displayFilterChooser() read and printed

db == <<writer, rating, userRating, moderatorLog, first, drift>>
load == <<requests, serial>>
locals == <<commentId, vote, seen, options>>
vars == <<db, avail, load, pc, locals>>

Init ==
  /\ writer \in [Comments -> Users]
  /\ rating \in [Comments -> FirstRatings]
  /\ first = rating
  /\ userRating = [u \in Users |->
       MapThenSumSet(LAMBDA c : rating[c], {c \in Comments : writer[c] = u})]
  /\ moderatorLog = <<>>
  /\ drift = [u \in Users |-> 0]
  /\ avail = poolSize
  /\ requests = 0
  /\ serial = TRUE
  /\ pc = [t \in Threads |-> "idle"]
  /\ commentId = [t \in Threads |-> Missing]
  /\ vote = [t \in Threads |-> 0]
  /\ seen = [t \in Threads |-> <<>>]
  /\ options = [t \in Threads |-> <<>>]

-----------------------------------------------------------------------------
Goto(t, l) == pc' = [pc EXCEPT ![t] = l]

Begin(t, l) ==
  /\ pc[t] = "idle"
  /\ requests < MaxRequests
  /\ requests' = requests + 1
  /\ serial' = (serial /\ \A u \in Threads \ {t} : pc[u] \in {"idle", "menu"})
  /\ Goto(t, l)

StoreModeratorLog(t, c, v) ==
  /\ Begin(t, "connect")
  /\ commentId' = [commentId EXCEPT ![t] = c]
  /\ vote' = [vote EXCEPT ![t] = v]
  /\ UNCHANGED <<db, avail, seen, options>>

getRWConnection(t) ==
  /\ pc[t] = "connect"
  /\ avail > 0
  /\ avail' = avail - 1
  /\ Goto(t, "authenticate")
  /\ UNCHANGED <<db, load, locals>>

Authenticate(t, access) ==
  /\ pc[t] = "authenticate"
  /\ Goto(t, IF access THEN "select" ELSE "close")
  /\ UNCHANGED <<db, avail, load, locals>>

AtMaximum(r, v) == (r = -1 /\ v = -1) \/ (r = 5 /\ v = 1)

(* SELECT writer,rating.  With no such comment rs.getInt() throws. *)
SelectComment(t) ==
  /\ pc[t] = "select"
  /\ LET c == commentId[t]
         stop == c # Missing /\ AtMaximum(rating[c], vote[t])
     IN  Goto(t, IF c = Missing THEN "close"
                 ELSE IF stop \/ vote[t] = 0 THEN "log"
                 ELSE "updateUser")
  /\ UNCHANGED <<db, avail, load, locals>>

(* UPDATE users SET rating=rating+vote WHERE id=writer *)
UpdateUser(t) ==
  /\ pc[t] = "updateUser"
  /\ userRating' = [userRating EXCEPT ![writer[commentId[t]]] = @ + vote[t]]
  /\ Goto(t, "updateComment")
  /\ UNCHANGED <<writer, first, rating, moderatorLog, drift, avail, load,
                 commentId, vote, seen, options>>

(* Mutant: rating written back as a value instead of rating=rating+vote. *)
UpdateComment_Absolute(t) ==
  /\ pc[t] = "updateComment"
  /\ rating' = [rating EXCEPT ![commentId[t]] = vote[t]]
  /\ Goto(t, "log")
  /\ UNCHANGED <<writer, first, userRating, moderatorLog, drift, avail, load, locals>>

(* UPDATE comments SET rating=rating+vote WHERE id=commentId *)
UpdateComment(t) ==
  /\ pc[t] = "updateComment"
  /\ rating' = [rating EXCEPT ![commentId[t]] = @ + vote[t]]
  /\ Goto(t, "log")
  /\ UNCHANGED <<writer, first, userRating, moderatorLog, drift, avail, load, locals>>

(* Mutant: only votes in favour are logged. *)
InsertModeratorLog_OnlyFor(t) ==
  /\ pc[t] = "log"
  /\ moderatorLog' = IF vote[t] < 0 THEN moderatorLog
                     ELSE Append(moderatorLog, <<commentId[t], vote[t]>>)
  /\ Goto(t, "close")
  /\ UNCHANGED <<writer, first, rating, userRating, drift, avail, load, locals>>

(* The two SELECTs of the new ratings change nothing; then the INSERT. *)
InsertModeratorLog(t) ==
  /\ pc[t] = "log"
  /\ moderatorLog' = Append(moderatorLog, <<commentId[t], vote[t]>>)
  /\ Goto(t, "close")
  /\ UNCHANGED <<writer, first, rating, userRating, drift, avail, load, locals>>

(* Any statement throws: print, close.  A vote that got as far as the      *)
(* user's rating stays there.                                              *)
SqlException(t) ==
  /\ SqlMayFail
  /\ pc[t] \in {"authenticate", "select", "updateUser", "updateComment", "log"}
  /\ drift' = IF pc[t] = "updateComment"
              THEN [drift EXCEPT ![writer[commentId[t]]] = @ + vote[t]] ELSE drift
  /\ serial' = FALSE
  /\ Goto(t, "close")
  /\ UNCHANGED <<writer, first, rating, userRating, moderatorLog, avail, requests, locals>>

closeConnection(t) ==
  /\ pc[t] = "close"
  /\ avail' = avail + 1
  /\ Goto(t, "idle")
  /\ commentId' = [commentId EXCEPT ![t] = Missing]
  /\ vote' = [vote EXCEPT ![t] = 0]
  /\ UNCHANGED <<db, load, seen, options>>

-----------------------------------------------------------------------------
(* SELECT rating, COUNT(rating) ... GROUP BY rating ORDER BY rating *)
GroupByRating(rs) ==
  LET values == {rs[c] : c \in Comments}
      kth[k \in 1 .. Cardinality(values)] ==
        Min(values \ {kth[j] : j \in 1 .. k - 1})
  IN  [k \in 1 .. Cardinality(values) |->
        [rating |-> kth[k], count |-> Cardinality({c \in Comments : rs[c] = kth[k]})]]

(* The options i, i+1, ... to-1 with no comments. *)
Zeros(i, to) == [k \in 1 .. IF to > i THEN to - i ELSE 0 |-> [rating |-> i + k - 1, count |-> 0]]

(* Mutant: the counter is not advanced after an option with comments. *)
ChooserRow_NoIncrement(i, row) ==
  LET j == IF row.rating \in i .. 5 THEN row.rating ELSE IF i < 6 THEN 6 ELSE i
  IN  [next |-> j,
       out  |-> Zeros(i, j) \o IF row.rating = j THEN <<row>> ELSE <<>>]

(* One turn of the do-while: options without comments up to the row's      *)
(* rating or, if it is not ahead, up to 5; then the row if it is next.     *)
ChooserRow(i, row) ==
  LET j == IF row.rating \in i .. 5 THEN row.rating ELSE IF i < 6 THEN 6 ELSE i
  IN  [next |-> IF row.rating = j THEN j + 1 ELSE j,
       out  |-> Zeros(i, j) \o IF row.rating = j THEN <<row>> ELSE <<>>]

(* The menu printed for the rows of the query: i starts at -1, and what is *)
(* left below 6 follows with no comments.                                  *)
displayFilterChooser(rows) ==
  LET run[k \in 0 .. Len(rows)] ==
        IF k = 0 THEN [next |-> -1, out |-> <<>>]
        ELSE LET turn == ChooserRow(run[k - 1].next, rows[k])
             IN  [next |-> turn.next, out |-> run[k - 1].out \o turn.out]
      last == run[Len(rows)]
  IN  last.out \o Zeros(last.next, 6)

(* A page of comments is viewed; one query, so one step. *)
ViewMenu(t) ==
  /\ Begin(t, "menu")
  /\ seen' = [seen EXCEPT ![t] = rating]
  /\ options' = [options EXCEPT ![t] = displayFilterChooser(GroupByRating(rating))]
  /\ UNCHANGED <<db, avail, commentId, vote>>

MenuDone(t) ==
  /\ pc[t] = "menu"
  /\ Goto(t, "idle")
  /\ seen' = [seen EXCEPT ![t] = <<>>]
  /\ options' = [options EXCEPT ![t] = <<>>]
  /\ UNCHANGED <<db, avail, load, commentId, vote>>

-----------------------------------------------------------------------------
Step(t) ==
  \/ getRWConnection(t)
  \/ \E access \in BOOLEAN : Authenticate(t, access)
  \/ SelectComment(t) \/ UpdateUser(t) \/ UpdateComment(t)
  \/ InsertModeratorLog(t) \/ SqlException(t) \/ closeConnection(t) \/ MenuDone(t)

Request(t) ==
  \/ \E c \in Comments \union {Missing}, v \in Votes : StoreModeratorLog(t, c, v)
  \/ ViewMenu(t)

Next == \E t \in Threads : Request(t) \/ Step(t)

Spec == Init /\ [][Next]_vars

-----------------------------------------------------------------------------
InRange(rs) == \A c \in Comments : rs[c] \in -1 .. 5
PendingFor(u) == {t \in Threads : pc[t] = "updateComment" /\ writer[commentId[t]] = u}
Written(u) == {c \in Comments : writer[c] = u}

(* A writer's rating is the sum of the ratings of the comments they wrote, *)
(* plus the votes whose second UPDATE is still to come or was lost to an   *)
(* exception: interleaved moderators never make the two disagree.          *)
RatingsAgree ==
  \A u \in Users :
    userRating[u] = drift[u] + MapThenSumSet(LAMBDA c : rating[c], Written(u))
                             + MapThenSumSet(LAMBDA t : vote[t], PendingFor(u))

(* When all ratings lie in -1..5 the menu offers each filter from -1 to 5  *)
(* once, in order, with the number of comments that have that rating.      *)
MenuIsExact ==
  \A t \in Threads :
    pc[t] = "menu" /\ InRange(seen[t]) =>
      options[t] = [k \in 1 .. 7 |->
        [rating |-> k - 2, count |-> Cardinality({c \in Comments : seen[t][c] = k - 2})]]

(* The moderator log is an audit trail as long as moderators do not        *)
(* overlap and no statement throws: between requests, replaying its rows   *)
(* for a comment from the comment's first rating, by the rule the handler  *)
(* applies, gives the rating in the table, which stays on the scale.       *)
LogReplays ==
  LET replay[c \in Comments, k \in 0 .. Len(moderatorLog)] ==
        IF k = 0 THEN first[c]
        ELSE LET r == replay[c, k - 1]
                 row == moderatorLog[k]
             IN  IF row[1] # c \/ AtMaximum(r, row[2]) THEN r ELSE r + row[2]
  IN  serial /\ (\A t \in Threads : pc[t] \in {"idle", "menu"}) =>
        /\ InRange(rating)
        /\ \A c \in Comments : rating[c] = replay[c, Len(moderatorLog)]
=============================================================================
