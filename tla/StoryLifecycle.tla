--------------------------- MODULE StoryLifecycle ---------------------------
(***************************************************************************)
(* The life of a story: StoreStory.java puts it in table submissions (or,  *)
(* for an author, straight into table stories), AcceptStory.java copies it *)
(* from submissions to stories and deletes the submission, RejectStory.java*)
(* deletes the submission.  The servlets run in the container's worker     *)
(* threads and talk to MySQL in auto-commit mode: every SQL statement is   *)
(* atomic, a sequence of them is not, and any of them may throw.  A        *)
(* request holds one connection of its servlet's pool (PoolContract, here  *)
(* as a count) from getRWConnection() to closeConnection().                *)
(*                                                                         *)
(* A submission is known by its id.  A story is known by the submission it *)
(* was copied from, or FromAuthor.  Early returns before a connection is   *)
(* asked for (a missing parameter) change nothing and are left out.        *)
(***************************************************************************)
EXTENDS Integers, Sequences, SequencesExt, FiniteSets

CONSTANTS
  Threads,       \* worker threads
  poolSize,      \* connections of each servlet's pool
  MaxRequests,   \* bound: requests in all
  SqlMayFail     \* TRUE: any statement may throw an SQLException

ASSUME StoryAssumption ==
  /\ poolSize \in Nat
  /\ MaxRequests \in Nat
  /\ SqlMayFail \in BOOLEAN
  /\ IsFiniteSet(Threads)

Servlets == {"StoreStory", "AcceptStory", "RejectStory"}
FromAuthor == 0
Ids == 1 .. MaxRequests    \* the story ids a request may name

VARIABLES
  submissions,     \* ids of the rows of table submissions
  nextId,          \* its AUTO_INCREMENT counter
  stories,         \* rows of table stories in insertion order
  rejected,        \* history: submissions a RejectStory really deleted
  avail,           \* free connections of each servlet's pool
  requests,        \* requests started so far
  pc,              \* per thread: the statement the handler is about to run
  op,              \* per thread: the servlet it runs
  storyId,         \* per thread: request parameter storyId
  table,           \* per thread: StoreStory's local "table"
  ok               \* per thread: the handler reached its success message

tables == <<submissions, nextId, stories, rejected>>
vars == <<tables, avail, requests, pc, op, storyId, table, ok>>

Init ==
  /\ submissions = {} /\ nextId = 1 /\ stories = <<>> /\ rejected = {}
  /\ avail = [s \in Servlets |-> poolSize]
  /\ requests = 0
  /\ pc = [t \in Threads |-> "idle"]
  /\ op = [t \in Threads |-> "StoreStory"]
  /\ storyId = [t \in Threads |-> 0]
  /\ table = [t \in Threads |-> "submissions"]
  /\ ok = [t \in Threads |-> FALSE]

-----------------------------------------------------------------------------
Goto(t, l) == pc' = [pc EXCEPT ![t] = l]

(* A request arrives and its handler calls getRWConnection(). *)
doGet(t, s, id) ==
  /\ pc[t] = "idle"
  /\ requests < MaxRequests
  /\ requests' = requests + 1
  /\ op' = [op EXCEPT ![t] = s]
  /\ storyId' = [storyId EXCEPT ![t] = id]
  /\ ok' = [ok EXCEPT ![t] = FALSE]
  /\ Goto(t, "connect")
  /\ UNCHANGED <<tables, avail, table>>

(* getRWConnection() returns; l is where the handler goes on. *)
Connected(t, s, l) ==
  /\ pc[t] = "connect" /\ op[t] = s
  /\ avail[s] > 0
  /\ avail' = [avail EXCEPT ![s] = @ - 1]
  /\ Goto(t, l)
  /\ UNCHANGED <<tables, requests, op, storyId, table, ok>>

(* closeConnection(stmt, conn) and, if ok, the success message. *)
closeConnection(t) ==
  /\ pc[t] = "close"
  /\ avail' = [avail EXCEPT ![op[t]] = @ + 1]
  /\ Goto(t, "idle")
  /\ UNCHANGED <<tables, requests, op, storyId, table, ok>>

(* A statement throws: the handler reports it, closes and returns. *)
SqlException(t) ==
  /\ SqlMayFail
  /\ pc[t] \in {"authenticate", "insert", "select", "publish", "unqueue", "reject"}
  /\ Goto(t, "close")
  /\ UNCHANGED <<tables, avail, requests, op, storyId, table, ok>>

-----------------------------------------------------------------------------
(* StoreStory *)
StoreStoryConnect(t) == Connected(t, "StoreStory", "authenticate")

(* SELECT id,access FROM users: a user with access posts to stories, all   *)
(* others, the anonymous one included, to submissions.                     *)
Authenticate(t, access) ==
  /\ pc[t] = "authenticate"
  /\ table' = [table EXCEPT ![t] = IF access = 0 THEN "submissions" ELSE "stories"]
  /\ Goto(t, "insert")
  /\ UNCHANGED <<tables, avail, requests, op, storyId, ok>>

(* INSERT INTO submissions | stories. *)
InsertStory(t) ==
  /\ pc[t] = "insert"
  /\ IF table[t] = "stories"
     THEN /\ stories' = Append(stories, FromAuthor)
          /\ UNCHANGED <<submissions, nextId>>
     ELSE /\ submissions' = submissions \union {nextId}
          /\ nextId' = nextId + 1
          /\ UNCHANGED stories
  /\ ok' = [ok EXCEPT ![t] = TRUE]
  /\ Goto(t, "close")
  /\ UNCHANGED <<rejected, avail, requests, op, storyId, table>>

-----------------------------------------------------------------------------
(* AcceptStory and RejectStory *)
RejectStoryConnect(t) == Connected(t, "RejectStory", "select")

(* The parameter is read after the connection was taken.  When it is 0     *)
(* (0 stands for an unparsable one too) the handler returns there and      *)
(* then, its connection unreleased.                                        *)
AcceptStoryConnect(t) ==
  Connected(t, "AcceptStory", IF storyId[t] = 0 THEN "idle" ELSE "select")

(* Mutant: RejectStory returns without closeConnection when there is no    *)
(* such submission.                                                        *)
SelectSubmission_NoClose(t) ==
  /\ pc[t] = "select"
  /\ Goto(t, IF storyId[t] \notin submissions
             THEN IF op[t] = "RejectStory" THEN "idle" ELSE "close"
             ELSE IF op[t] = "AcceptStory" THEN "publish" ELSE "reject")
  /\ UNCHANGED <<tables, avail, requests, op, storyId, table, ok>>

(* Mutant: the result of rs.first() is not tested. *)
SelectSubmission_NoCheck(t) ==
  /\ pc[t] = "select"
  /\ Goto(t, IF op[t] = "AcceptStory" THEN "publish" ELSE "reject")
  /\ UNCHANGED <<tables, avail, requests, op, storyId, table, ok>>

(* SELECT ... FROM submissions WHERE id = storyId, and rs.first(). *)
SelectSubmission(t) ==
  /\ pc[t] = "select"
  /\ Goto(t, IF storyId[t] \notin submissions THEN "close"
             ELSE IF op[t] = "AcceptStory" THEN "publish" ELSE "reject")
  /\ UNCHANGED <<tables, avail, requests, op, storyId, table, ok>>

(* Mutant: the catch block around the INSERT falls through to the DELETE. *)
PublishStory_IgnoresException(t) ==
  /\ pc[t] = "publish"
  /\ stories' = stories \/ stories' = Append(stories, storyId[t])
  /\ Goto(t, "unqueue")
  /\ UNCHANGED <<submissions, nextId, rejected, avail, requests, op, storyId, table, ok>>

(* AcceptStory: INSERT INTO stories, with the values of the SELECT. *)
PublishStory(t) ==
  /\ pc[t] = "publish"
  /\ stories' = Append(stories, storyId[t])
  /\ Goto(t, "unqueue")
  /\ UNCHANGED <<submissions, nextId, rejected, avail, requests, op, storyId, table, ok>>

(* Mutant: AcceptStory forgets to execute stmtdel. *)
DeleteAccepted_Forgotten(t) ==
  /\ pc[t] = "unqueue"
  /\ ok' = [ok EXCEPT ![t] = TRUE]
  /\ Goto(t, "close")
  /\ UNCHANGED <<tables, avail, requests, op, storyId, table>>

(* AcceptStory: DELETE FROM submissions.  The number of rows is ignored. *)
DeleteAccepted(t) ==
  /\ pc[t] = "unqueue"
  /\ submissions' = submissions \ {storyId[t]}
  /\ ok' = [ok EXCEPT ![t] = TRUE]
  /\ Goto(t, "close")
  /\ UNCHANGED <<nextId, stories, rejected, avail, requests, op, storyId, table>>

(* RejectStory: DELETE FROM submissions. *)
DeleteRejected(t) ==
  /\ pc[t] = "reject"
  /\ submissions' = submissions \ {storyId[t]}
  /\ rejected' = rejected \union (submissions \intersect {storyId[t]})
  /\ ok' = [ok EXCEPT ![t] = TRUE]
  /\ Goto(t, "close")
  /\ UNCHANGED <<nextId, stories, avail, requests, op, storyId, table>>

-----------------------------------------------------------------------------
(* The handler goes on without an exception. *)
Statement(t) ==
  \/ StoreStoryConnect(t) \/ AcceptStoryConnect(t) \/ RejectStoryConnect(t)
  \/ \E access \in {0, 1} : Authenticate(t, access)
  \/ InsertStory(t) \/ SelectSubmission(t) \/ PublishStory(t)
  \/ DeleteAccepted(t) \/ DeleteRejected(t)
  \/ closeConnection(t)

Step(t) == Statement(t) \/ SqlException(t)

Request(t) ==
  \/ doGet(t, "StoreStory", 0)
  \/ \E id \in Ids \union {0} : doGet(t, "AcceptStory", id)
  \/ \E id \in Ids : doGet(t, "RejectStory", id)

Next == \E t \in Threads : Request(t) \/ Step(t)

Spec == Init /\ [][Next]_vars

(* A handler goes on as long as it is not blocked in getRWConnection();    *)
(* that statements throw is not relied upon.                               *)
FairSpec == Spec /\ \A t \in Threads : WF_vars(Statement(t))

-----------------------------------------------------------------------------
Published == Range(stories)
Copies(s) == Cardinality({k \in DOMAIN stories : stories[k] = s})
Issued == 1 .. nextId - 1   \* the submissions there have been
Holding(s) == {t \in Threads : op[t] = s /\ pc[t] \notin {"idle", "connect"}}

Labels == {"idle", "connect", "authenticate", "insert", "select", "publish",
           "unqueue", "reject", "close"}

(* The types of the tables and of the handlers' locals. *)
TypeOK ==
  /\ nextId \in Nat \ {0}
  /\ submissions \subseteq Issued
  /\ stories \in Seq(Issued \union {FromAuthor})
  /\ rejected \subseteq Issued
  /\ avail \in [Servlets -> Nat]
  /\ requests \in Nat
  /\ pc \in [Threads -> Labels]
  /\ op \in [Threads -> Servlets]
  /\ storyId \in [Threads -> Nat]
  /\ table \in [Threads -> {"submissions", "stories"}]
  /\ ok \in [Threads -> BOOLEAN]

(* No submission disappears: it waits for review, is published, or was     *)
(* deleted by a RejectStory, whatever runs concurrently and wherever a     *)
(* statement fails.  (AcceptStory inserts before it deletes.)              *)
NoSubmissionLost == Issued \subseteq submissions \union Published \union rejected

(* The success messages are true when they are printed and ever after:     *)
(* "successfully moved" - the story is published and no longer queued;     *)
(* "successfully removed" - it is no longer queued.                        *)
ReportedOutcomeHolds ==
  \A t \in Threads : ok[t] =>
    /\ op[t] = "AcceptStory" => storyId[t] \in Published /\ storyId[t] \notin submissions
    /\ op[t] = "RejectStory" => storyId[t] \notin submissions

(* A submission whose row is gone, and that no AcceptStory has read but    *)
(* not yet copied, is settled: it is never published (again) nor queued.   *)
Settled(s) ==
  /\ s \in Issued \ submissions
  /\ \A t \in Threads : ~(pc[t] = "publish" /\ storyId[t] = s)

SettledStaysSettled ==
  [][\A s \in Issued : Settled(s) => Settled(s)' /\ Copies(s)' = Copies(s)]_vars

(* StoreStory and RejectStory return every connection they take; only      *)
(* AcceptStory's early return loses some.                                  *)
ConnectionsAccounted ==
  /\ \A s \in {"StoreStory", "RejectStory"} :
       avail[s] + Cardinality(Holding(s)) = poolSize
  /\ avail["AcceptStory"] + Cardinality(Holding("AcceptStory")) <= poolSize

(* A StoreStory or RejectStory request is always answered. *)
StoreAndRejectAnswered ==
  \A t \in Threads :
    (pc[t] # "idle" /\ op[t] # "AcceptStory") ~> (pc[t] = "idle")
=============================================================================
