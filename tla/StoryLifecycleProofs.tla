------------------------ MODULE StoryLifecycleProofs ------------------------
(***************************************************************************)
(* No submission is lost and no success message is wrong, for any number   *)
(* of threads, requests and connections.                                   *)
(*                                                                         *)
(* The argument: the rows a handler has seen published stay published, and *)
(* a submission whose row is gone stays gone (Monotone), because ids are   *)
(* never reused.  So what a handler knows from its own statements (Known)  *)
(* survives the statements of all the others.                              *)
(***************************************************************************)
EXTENDS StoryLifecycle, SequenceTheorems, FiniteSetTheorems, TLAPS

(* Zenon proves most of the steps; SMT is cited where it is needed.        *)
USE ZenonT(60)

Known(t) ==
  /\ pc[t] \in {"publish", "unqueue"} =>
       op[t] = "AcceptStory" /\ storyId[t] \in Issued
  /\ pc[t] = "reject" => op[t] = "RejectStory" /\ storyId[t] \in Issued
  /\ pc[t] = "insert" => op[t] = "StoreStory"
  /\ pc[t] = "authenticate" => op[t] = "StoreStory"
  /\ pc[t] = "select" => op[t] # "StoreStory"
  /\ pc[t] = "unqueue" => storyId[t] \in Published
  /\ ok[t] => pc[t] \in {"close", "idle"}
  /\ ok[t] /\ op[t] # "StoreStory" => storyId[t] \in Issued \ submissions
  /\ ok[t] /\ op[t] = "AcceptStory" => storyId[t] \in Published

StoryInv ==
  /\ TypeOK
  /\ NoSubmissionLost
  /\ \A t \in Threads : Known(t)

(* The invariant holds initially: there are no rows and no requests. *)
LEMMA StoryInit == Init => StoryInv
<1> SUFFICES ASSUME Init PROVE StoryInv
  OBVIOUS
<1>1. Issued = {}
  BY SMT DEF Init, Issued
<1>2. stories \in Seq(Issued \union {FromAuthor})
  BY EmptySeq DEF Init
<1> QED
  BY SMT, <1>1, <1>2, StoryAssumption
     DEF Init, StoryInv, TypeOK, NoSubmissionLost, Known, Servlets, Labels

(* What a step may do to the tables. *)
Monotone ==
  /\ Issued \subseteq Issued'
  /\ Published \subseteq Published'
  /\ Issued \ submissions \subseteq Issued' \ submissions'

(* The steps of t leave the locals of the other threads alone. *)
OthersUnchanged(t) ==
  \A u \in Threads \ {t} : /\ pc'[u] = pc[u] /\ op'[u] = op[u]
                           /\ storyId'[u] = storyId[u] /\ ok'[u] = ok[u]

(* What a handler knows survives the statements of the others. *)
LEMMA OthersKeepKnown ==
  ASSUME StoryInv, Monotone, NEW t \in Threads, OthersUnchanged(t),
         NEW u \in Threads, u # t
  PROVE  Known(u)'
<1>1. Known(u)
  BY DEF StoryInv
<1>2. pc'[u] = pc[u] /\ op'[u] = op[u] /\ storyId'[u] = storyId[u] /\ ok'[u] = ok[u]
  BY DEF OthersUnchanged
<1> QED BY <1>1, <1>2 DEF Known, Monotone

(* INSERT INTO stories adds to what is published and removes nothing. *)
LEMMA AppendStory ==
  ASSUME NEW S, NEW s \in Seq(S), NEW x \in S
  PROVE  /\ Append(s, x) \in Seq(S)
         /\ Range(Append(s, x)) = Range(s) \union {x}
<1>1. /\ Append(s, x) \in Seq(S) /\ Len(Append(s, x)) = Len(s) + 1
      /\ \A i \in 1 .. Len(s) : Append(s, x)[i] = s[i]
      /\ Append(s, x)[Len(s) + 1] = x
  BY SMT, AppendProperties
<1>2. /\ Len(s) \in Nat /\ DOMAIN s = 1 .. Len(s)
      /\ DOMAIN Append(s, x) = 1 .. Len(s) + 1
  BY <1>1, LenProperties
<1>3. Range(Append(s, x)) \subseteq Range(s) \union {x}
  BY SMT, <1>1, <1>2 DEF Range
<1>4. Range(s) \union {x} \subseteq Range(Append(s, x))
  BY SMT, <1>1, <1>2 DEF Range
<1> QED BY <1>1, <1>3, <1>4

(* A step that leaves the tables alone and moves one thread. *)
LEMMA LocalStep ==
  ASSUME StoryInv, NEW t \in Threads, UNCHANGED tables,
         OthersUnchanged(t), TypeOK', Known(t)'
  PROVE  StoryInv'
<1>1. Monotone
  BY DEF Monotone, tables, Issued, Published
<1>2. \A u \in Threads : Known(u)'
  BY <1>1, OthersKeepKnown
<1>3. NoSubmissionLost'
  BY DEF StoryInv, NoSubmissionLost, tables, Issued, Published
<1> QED BY <1>2, <1>3 DEF StoryInv

(* StoreStory's INSERT adds a submission under a fresh id, or a story. *)
LEMMA StoreInsertPreserves ==
  ASSUME StoryInv, NEW t \in Threads, InsertStory(t)
  PROVE  StoryInv'
<1>0. TypeOK /\ Known(t)
  BY DEF StoryInv
<1>1. OthersUnchanged(t)
  BY <1>0 DEF InsertStory, OthersUnchanged, TypeOK, Goto
<1>2. /\ pc' = [pc EXCEPT ![t] = "close"]
      /\ ok' = [ok EXCEPT ![t] = TRUE]
      /\ UNCHANGED <<rejected, avail, requests, op, storyId, table>>
  BY DEF InsertStory, Goto
<1>3. CASE table[t] = "stories"
  <2>1. stories' = Append(stories, FromAuthor) /\ UNCHANGED <<submissions, nextId>>
    BY <1>3 DEF InsertStory
  <2>2. Issued' = Issued
    BY <2>1 DEF Issued
  <2>3. /\ stories' \in Seq(Issued \union {FromAuthor})
        /\ Published \subseteq Published'
    <3> DEFINE S == Issued \union {FromAuthor}
    <3>1. stories \in Seq(S) /\ FromAuthor \in S
      BY <1>0 DEF TypeOK
    <3> HIDE DEF S
    <3>2. stories' \in Seq(S) /\ Range(stories') = Range(stories) \union {FromAuthor}
      BY SMT, <2>1, <3>1, AppendStory
    <3> QED BY <3>2 DEF S, Published
  <2>4. Monotone /\ NoSubmissionLost'
    BY <1>2, <2>1, <2>2, <2>3 DEF Monotone, StoryInv, NoSubmissionLost
  <2>5. TypeOK'
    BY <1>0, <1>2, <2>1, <2>2, <2>3 DEF TypeOK, Labels
  <2>6. Known(t)'
    BY <1>0, <1>2 DEF Known, InsertStory, TypeOK
  <2> QED BY <1>1, <2>4, <2>5, <2>6, OthersKeepKnown DEF StoryInv
<1>4. CASE table[t] # "stories"
  <2>1. /\ submissions' = submissions \union {nextId}
        /\ nextId' = nextId + 1
        /\ stories' = stories
    BY <1>4 DEF InsertStory
  <2>2. Issued' = Issued \union {nextId} /\ nextId \notin Issued
    BY SMT, <1>0, <2>1 DEF Issued, TypeOK
  <2>3. Published' = Published
    BY <2>1 DEF Published
  <2>4. Monotone /\ NoSubmissionLost'
    BY <1>2, <2>1, <2>2, <2>3 DEF Monotone, StoryInv, NoSubmissionLost
  <2>5. stories' \in Seq(Issued' \union {FromAuthor})
    BY <1>0, <2>1, <2>2, SeqMonotonic DEF TypeOK
  <2>6. TypeOK'
    BY SMT, <1>0, <1>2, <2>1, <2>2, <2>5 DEF TypeOK, Labels
  <2>7. Known(t)'
    BY <1>0, <1>2 DEF Known, InsertStory, TypeOK
  <2> QED BY <1>1, <2>4, <2>6, <2>7, OthersKeepKnown DEF StoryInv
<1> QED BY <1>3, <1>4

(* AcceptStory's INSERT publishes a submission that has been there. *)
LEMMA PublishPreserves ==
  ASSUME StoryInv, NEW t \in Threads, PublishStory(t)
  PROVE  StoryInv'
<1>0. TypeOK /\ Known(t)
  BY DEF StoryInv
<1>1. /\ stories' = Append(stories, storyId[t])
      /\ pc' = [pc EXCEPT ![t] = "unqueue"]
      /\ UNCHANGED <<submissions, nextId, rejected, avail, requests, op, storyId, table, ok>>
  BY DEF PublishStory, Goto
<1>2. storyId[t] \in Issued /\ op[t] = "AcceptStory" /\ ~ok[t]
  BY <1>0 DEF Known, PublishStory
<1>3. Issued' = Issued
  BY <1>1 DEF Issued
<1>4. /\ stories' \in Seq(Issued \union {FromAuthor})
      /\ Published' = Published \union {storyId[t]}
  <2> DEFINE S == Issued \union {FromAuthor}
  <2>1. stories \in Seq(S) /\ storyId[t] \in S
    BY <1>0, <1>2 DEF TypeOK
  <2> HIDE DEF S
  <2>2. stories' \in Seq(S) /\ Range(stories') = Range(stories) \union {storyId[t]}
    BY SMT, <1>1, <2>1, AppendStory
  <2> QED BY <2>2 DEF S, Published
<1>5. Monotone /\ NoSubmissionLost'
  BY <1>1, <1>3, <1>4 DEF Monotone, StoryInv, NoSubmissionLost
<1>6. TypeOK'
  BY <1>0, <1>1, <1>3, <1>4 DEF TypeOK, Labels
<1>7. Known(t)'
  BY <1>0, <1>1, <1>2, <1>3, <1>4 DEF Known, TypeOK
<1>8. OthersUnchanged(t)
  BY <1>0, <1>1 DEF OthersUnchanged, TypeOK
<1> QED BY <1>5, <1>6, <1>7, <1>8, OthersKeepKnown DEF StoryInv

(* Both DELETEs: the row is published already, or goes to "rejected". *)
LEMMA DeletePreserves ==
  ASSUME StoryInv, NEW t \in Threads, DeleteAccepted(t) \/ DeleteRejected(t)
  PROVE  StoryInv'
<1>0. TypeOK /\ Known(t)
  BY DEF StoryInv
<1>1. /\ submissions' = submissions \ {storyId[t]}
      /\ pc' = [pc EXCEPT ![t] = "close"]
      /\ ok' = [ok EXCEPT ![t] = TRUE]
      /\ UNCHANGED <<nextId, stories, avail, requests, op, storyId, table>>
  BY DEF DeleteAccepted, DeleteRejected, Goto
<1>2. Issued' = Issued /\ Published' = Published
  BY <1>1 DEF Issued, Published
<1>3. rejected \subseteq rejected' /\ rejected' \subseteq Issued
  BY <1>0 DEF DeleteAccepted, DeleteRejected, TypeOK
<1>4. storyId[t] \in submissions => storyId[t] \in Published \union rejected'
  BY <1>0 DEF DeleteAccepted, DeleteRejected, Known
<1>5. NoSubmissionLost'
  BY <1>1, <1>2, <1>3, <1>4 DEF StoryInv, NoSubmissionLost
<1>6. Monotone
  BY <1>1, <1>2 DEF Monotone
<1>7. TypeOK'
  BY <1>0, <1>1, <1>2, <1>3 DEF TypeOK, Labels
<1>8. Known(t)'
  <2>1. storyId[t] \in Issued /\ op[t] # "StoreStory"
    BY <1>0 DEF DeleteAccepted, DeleteRejected, Known
  <2>2. op[t] = "AcceptStory" => storyId[t] \in Published
    BY <1>0 DEF DeleteAccepted, DeleteRejected, Known
  <2> QED BY <1>0, <1>1, <1>2, <2>1, <2>2 DEF Known, TypeOK
<1>9. OthersUnchanged(t)
  BY <1>0, <1>1 DEF OthersUnchanged, TypeOK
<1> QED BY <1>5, <1>6, <1>7, <1>8, <1>9, OthersKeepKnown DEF StoryInv
-----------------------------------------------------------------------------
(* Every step preserves StoryInv. *)
LEMMA StoryNext == StoryInv /\ [Next]_vars => StoryInv'
<1> SUFFICES ASSUME StoryInv, [Next]_vars PROVE StoryInv'
  OBVIOUS
<1>0. TypeOK /\ \A t \in Threads : Known(t)
  BY DEF StoryInv
<1>1. ASSUME NEW t \in Threads, NEW s \in Servlets, NEW id \in Nat, doGet(t, s, id)
      PROVE  StoryInv'
  <2>1. TypeOK'
    BY SMT, <1>0, <1>1 DEF doGet, Goto, TypeOK, Labels, tables, Issued
  <2>2. Known(t)' /\ OthersUnchanged(t) /\ UNCHANGED tables
    BY <1>0, <1>1 DEF doGet, Goto, TypeOK, Known, OthersUnchanged
  <2> QED BY <2>1, <2>2, LocalStep
<1>2. ASSUME NEW t \in Threads, NEW s \in Servlets, NEW l \in Labels, Connected(t, s, l),
             l \in {"idle", "authenticate", "select"},
             l = "authenticate" => s = "StoreStory",
             l = "select" => s # "StoreStory"
      PROVE  StoryInv'
  <2>1. TypeOK'
    BY SMT, <1>0, <1>2 DEF Connected, Goto, TypeOK, tables, Issued
  <2>2. ~ok[t]
    BY <1>0, <1>2 DEF Known, Connected
  <2>3. Known(t)' /\ OthersUnchanged(t) /\ UNCHANGED tables
    BY <1>0, <1>2, <2>2 DEF Connected, Goto, TypeOK, Known, OthersUnchanged
  <2> QED BY <2>1, <2>3, LocalStep
<1>3. ASSUME NEW t \in Threads,
             StoreStoryConnect(t) \/ AcceptStoryConnect(t) \/ RejectStoryConnect(t)
      PROVE  StoryInv'
  BY <1>2, <1>3
     DEF StoreStoryConnect, AcceptStoryConnect, RejectStoryConnect, Servlets, Labels
<1>4. ASSUME NEW t \in Threads, NEW access \in {0, 1}, Authenticate(t, access)
      PROVE  StoryInv'
  <2>1. TypeOK'
    BY <1>0, <1>4 DEF Authenticate, Goto, TypeOK, Labels, tables, Issued
  <2>2. Known(t)' /\ OthersUnchanged(t) /\ UNCHANGED tables
    BY <1>0, <1>4 DEF Authenticate, Goto, TypeOK, Known, OthersUnchanged
  <2> QED BY <2>1, <2>2, LocalStep
<1>5. ASSUME NEW t \in Threads, SelectSubmission(t) PROVE StoryInv'
  <2>1. TypeOK'
    BY <1>0, <1>5 DEF SelectSubmission, Goto, TypeOK, Labels, tables, Issued
  <2>2. OthersUnchanged(t) /\ UNCHANGED tables
    BY <1>0, <1>5 DEF SelectSubmission, Goto, TypeOK, OthersUnchanged
  <2>3. Issued' = Issued /\ submissions' = submissions /\ Published' = Published
    BY <2>2 DEF tables, Issued, Published
  <2>4. Known(t)'
    BY <1>0, <1>5, <2>3 DEF SelectSubmission, Goto, TypeOK, Known, Servlets
  <2> QED BY <2>1, <2>2, <2>4, LocalStep
<1>6. ASSUME NEW t \in Threads, SqlException(t) PROVE StoryInv'
  <2>1. TypeOK'
    BY <1>0, <1>6 DEF SqlException, Goto, TypeOK, Labels, tables, Issued
  <2>2. Known(t)' /\ OthersUnchanged(t) /\ UNCHANGED tables
    BY <1>0, <1>6 DEF SqlException, Goto, TypeOK, Known, OthersUnchanged
  <2> QED BY <2>1, <2>2, LocalStep
<1>7. ASSUME NEW t \in Threads, closeConnection(t) PROVE StoryInv'
  <2>1. TypeOK'
    BY SMT, <1>0, <1>7 DEF closeConnection, Goto, TypeOK, Labels, tables, Issued
  <2>2. OthersUnchanged(t) /\ UNCHANGED tables
    BY <1>0, <1>7 DEF closeConnection, Goto, TypeOK, OthersUnchanged
  <2>3. Issued' = Issued /\ submissions' = submissions /\ Published' = Published
    BY <2>2 DEF tables, Issued, Published
  <2>4. Known(t)'
    BY <1>0, <1>7, <2>3 DEF closeConnection, Goto, TypeOK, Known
  <2> QED BY <2>1, <2>2, <2>4, LocalStep
<1>8. CASE UNCHANGED vars
  <2>1. UNCHANGED <<tables, avail, requests, pc, op, storyId, table, ok>>
    BY <1>8 DEF vars
  <2>2. Issued' = Issued /\ Published' = Published
    BY <2>1 DEF tables, Issued, Published
  <2> QED BY <2>1, <2>2 DEF tables, StoryInv, TypeOK, NoSubmissionLost, Known
<1>9. ASSUME NEW t \in Threads, Request(t) PROVE StoryInv'
  <2>1. Ids \subseteq Nat
    BY SMT, StoryAssumption DEF Ids
  <2> QED BY <1>1, <1>9, <2>1 DEF Request, Servlets
<1>10. ASSUME NEW t \in Threads, Step(t) PROVE StoryInv'
  BY <1>3, <1>4, <1>5, <1>6, <1>7, <1>10, StoreInsertPreserves, PublishPreserves,
     DeletePreserves DEF Step, Statement
<1> QED BY <1>8, <1>9, <1>10 DEF Next

(* The strengthened invariant holds in every reachable state. *)
THEOREM StoryInvariant == Spec => []StoryInv
BY StoryInit, StoryNext, PTL DEF Spec

(* Types of the tables and of the handlers' locals. *)
THEOREM StoryTypeCorrect == Spec => []TypeOK
<1>1. StoryInv => TypeOK
  BY DEF StoryInv
<1> QED BY <1>1, StoryInvariant, PTL

(* A submitted story is queued, published or rejected, never lost, for any *)
(* interleaving of the three servlets and any failing statement.           *)
THEOREM SubmissionsAreNeverLost == Spec => []NoSubmissionLost
<1>1. StoryInv => NoSubmissionLost
  BY DEF StoryInv
<1> QED BY <1>1, StoryInvariant, PTL

(* What AcceptStory and RejectStory report stays true. *)
THEOREM ReportsAreTrue == Spec => []ReportedOutcomeHolds
<1>1. StoryInv => ReportedOutcomeHolds
  BY DEF StoryInv, Known, ReportedOutcomeHolds
<1> QED BY <1>1, StoryInvariant, PTL
-----------------------------------------------------------------------------
(* The four ways in which a step can change the tables. *)
LEMMA TableSteps ==
  ASSUME StoryInv, [Next]_vars
  PROVE  \/ UNCHANGED <<submissions, nextId, stories>>
         \/ \E t \in Threads : InsertStory(t)
         \/ \E t \in Threads : PublishStory(t)
         \/ \E t \in Threads : DeleteAccepted(t) \/ DeleteRejected(t)
<1>1. ASSUME NEW t \in Threads, Request(t) PROVE UNCHANGED tables
  BY <1>1 DEF Request, doGet
<1>2. ASSUME NEW t \in Threads, Step(t)
      PROVE  \/ UNCHANGED tables \/ InsertStory(t) \/ PublishStory(t)
             \/ DeleteAccepted(t) \/ DeleteRejected(t)
  BY <1>2 DEF Step, Statement, StoreStoryConnect, AcceptStoryConnect, RejectStoryConnect,
     Connected, Authenticate, SelectSubmission, SqlException, closeConnection
<1>3. CASE UNCHANGED vars
  BY <1>3 DEF vars, tables
<1> QED BY <1>1, <1>2, <1>3 DEF Next, tables

(* Where a thread that is about to publish s comes from. *)
LEMMA PublishersComeFromSelect ==
  ASSUME StoryInv, [Next]_vars, NEW u \in Threads, pc'[u] = "publish"
  PROVE  \/ pc[u] = "publish" /\ storyId'[u] = storyId[u]
         \/ storyId'[u] = storyId[u] /\ storyId[u] \in submissions
<1>0. TypeOK
  BY DEF StoryInv
<1>1. ASSUME NEW t \in Threads, t # u, Request(t) \/ Step(t)
      PROVE  pc'[u] = pc[u] /\ storyId'[u] = storyId[u]
  <2>1. CASE Request(t)
    BY <1>0, <1>1, <2>1 DEF Request, doGet, Goto, TypeOK
  <2>2. CASE Step(t)
    BY <1>0, <1>1, <2>2
       DEF Step, Statement, Goto, TypeOK, StoreStoryConnect, AcceptStoryConnect,
           RejectStoryConnect, Connected, Authenticate, InsertStory,
           SelectSubmission, PublishStory, DeleteAccepted, DeleteRejected,
           SqlException, closeConnection
  <2> QED BY <1>1, <2>1, <2>2
<1>2. CASE Request(u)
  BY <1>0, <1>2 DEF Request, doGet, Goto, TypeOK
<1>3. CASE Step(u)
  BY <1>0, <1>3
     DEF Step, Statement, Goto, TypeOK, StoreStoryConnect, AcceptStoryConnect,
         RejectStoryConnect, Connected, Authenticate, InsertStory,
         SelectSubmission, PublishStory, DeleteAccepted, DeleteRejected,
         SqlException, closeConnection
<1>4. CASE UNCHANGED vars
  BY <1>4 DEF vars
<1> QED BY <1>1, <1>2, <1>3, <1>4 DEF Next

(* Once settled, a submission is never copied to stories again. *)
THEOREM SettledSubmissionsStaySettled == Spec => SettledStaysSettled
<1>1. ASSUME StoryInv, [Next]_vars, NEW s \in Issued, Settled(s)
      PROVE  Settled(s)' /\ Copies(s)' = Copies(s)
  <2>0. TypeOK /\ \A t \in Threads : Known(t)
    BY <1>1 DEF StoryInv
  <2>1. \A t \in Threads : ~(pc'[t] = "publish" /\ storyId'[t] = s)
    BY <1>1, PublishersComeFromSelect DEF Settled
  <2>2. s \in Issued \ submissions
    BY <1>1 DEF Settled
  <2>3. CASE UNCHANGED <<submissions, nextId, stories>>
    BY <2>1, <2>2, <2>3 DEF Settled, Copies, Issued
  <2>4. ASSUME NEW t \in Threads, DeleteAccepted(t) \/ DeleteRejected(t)
        PROVE  Settled(s)' /\ Copies(s)' = Copies(s)
    BY <2>1, <2>2, <2>4 DEF Settled, Copies, Issued, DeleteAccepted, DeleteRejected
  <2>5. ASSUME NEW x \in Issued \union {FromAuthor}, x # s,
               stories' = Append(stories, x)
        PROVE  Copies(s)' = Copies(s)
    <3> DEFINE S == Issued \union {FromAuthor}
    <3>1. stories \in Seq(S) /\ x \in S
      BY <2>0 DEF TypeOK
    <3> HIDE DEF S
    <3>2. /\ Len(Append(stories, x)) = Len(stories) + 1
          /\ Append(stories, x) \in Seq(S)
          /\ \A k \in 1 .. Len(stories) : Append(stories, x)[k] = stories[k]
          /\ Append(stories, x)[Len(stories) + 1] = x
      BY SMT, <3>1, AppendProperties
    <3>3. /\ DOMAIN stories = 1 .. Len(stories) /\ Len(stories) \in Nat
          /\ DOMAIN stories' = 1 .. Len(stories) + 1
      BY <2>5, <3>1, <3>2, LenProperties
    <3>4. {k \in DOMAIN stories' : stories'[k] = s} = {k \in DOMAIN stories : stories[k] = s}
      BY SMT, <2>5, <3>2, <3>3
    <3> QED BY <3>4 DEF Copies
  <2>6. ASSUME NEW t \in Threads, PublishStory(t)
        PROVE  Settled(s)' /\ Copies(s)' = Copies(s)
    <3>1. storyId[t] \in Issued /\ storyId[t] # s
      BY <1>1, <2>0, <2>6 DEF PublishStory, Known, Settled
    <3>2. Copies(s)' = Copies(s)
      BY <2>5, <2>6, <3>1 DEF PublishStory
    <3> QED BY <2>1, <2>2, <2>6, <3>2 DEF PublishStory, Settled, Issued
  <2>7. ASSUME NEW t \in Threads, InsertStory(t)
        PROVE  Settled(s)' /\ Copies(s)' = Copies(s)
    <3>1. CASE table[t] = "stories"
      <4>1. FromAuthor # s
        BY SMT, <2>2 DEF FromAuthor, Issued
      <4>2. stories' = Append(stories, FromAuthor) /\ UNCHANGED <<submissions, nextId>>
        BY <2>7, <3>1 DEF InsertStory
      <4> QED BY <2>1, <2>2, <2>5, <4>1, <4>2 DEF Settled, Issued
    <3>2. CASE table[t] # "stories"
      <4>1. /\ submissions' = submissions \union {nextId}
            /\ nextId' = nextId + 1 /\ stories' = stories
        BY <2>7, <3>2 DEF InsertStory
      <4>2. s \in Issued' \ submissions'
        BY SMT, <2>0, <2>2, <4>1 DEF Issued, TypeOK
      <4> QED BY <2>1, <4>1, <4>2 DEF Settled, Copies
    <3> QED BY <3>1, <3>2
  <2> QED BY <1>1, <2>3, <2>4, <2>6, <2>7, TableSteps
<1>2. StoryInv /\ [Next]_vars =>
        [\A s \in Issued : Settled(s) => Settled(s)' /\ Copies(s)' = Copies(s)]_vars
  BY <1>1
<1> QED BY <1>2, StoryInvariant, PTL DEF Spec, SettledStaysSettled
-----------------------------------------------------------------------------
(* A thread that keeps its servlet and stays on its side of the connection *)
(* changes nobody's holdings.                                              *)
LEMMA SameHolders ==
  ASSUME TypeOK, NEW t \in Threads, NEW l, Goto(t, l),
         \/ op' = op /\ pc[t] \notin {"idle", "connect"} /\ l \notin {"idle", "connect"}
         \/ op' = op /\ pc[t] \in {"idle", "connect"} /\ l \in {"idle", "connect"}
         \/ /\ \E s \in Servlets : op' = [op EXCEPT ![t] = s]
            /\ pc[t] = "idle" /\ l = "connect"
  PROVE  \A s \in Servlets : Holding(s)' = Holding(s)
BY DEF Goto, Holding, TypeOK

(* Every handler step moves a connection between its pool and a holder, or *)
(* moves none.                                                             *)
LEMMA ConnectionSteps ==
  ASSUME StoryInv, ConnectionsAccounted, [Next]_vars
  PROVE  ConnectionsAccounted'
<1>0. TypeOK /\ poolSize \in Nat /\ IsFiniteSet(Threads)
  BY StoryAssumption DEF StoryInv, StoryAssumption
<1>1. \A s \in Servlets : IsFiniteSet(Holding(s)) /\ Cardinality(Holding(s)) \in Nat
  BY <1>0, FS_Subset, FS_CardinalityType DEF Holding
<1>2. \A s \in Servlets : avail[s] \in Nat
  BY <1>0 DEF TypeOK
<1>3. ASSUME \A s \in Servlets : Holding(s)' = Holding(s), avail' = avail
      PROVE  ConnectionsAccounted'
  BY <1>3 DEF ConnectionsAccounted, Servlets
<1>4. ASSUME NEW t \in Threads, Request(t) PROVE ConnectionsAccounted'
  <2>1. /\ pc[t] = "idle" /\ Goto(t, "connect") /\ avail' = avail
        /\ \E s \in Servlets : op' = [op EXCEPT ![t] = s]
    BY <1>4 DEF Request, doGet, Servlets
  <2> QED BY <1>0, <1>3, <2>1, SameHolders
<1>5. ASSUME NEW t \in Threads, NEW s \in Servlets,
             Connected(t, s, IF s = "StoreStory" THEN "authenticate" ELSE "select")
      PROVE  ConnectionsAccounted'
  <2>1. /\ pc[t] = "connect" /\ op[t] = s /\ op' = op
        /\ avail' = [avail EXCEPT ![s] = avail[s] - 1]
        /\ pc'[t] \notin {"idle", "connect"}
        /\ \A u \in Threads : u # t => pc'[u] = pc[u]
    BY <1>0, <1>5 DEF Connected, Goto, TypeOK
  <2>2. Holding(s)' = Holding(s) \union {t} /\ t \notin Holding(s)
    BY <2>1 DEF Holding
  <2>3. Cardinality(Holding(s)') = Cardinality(Holding(s)) + 1
    BY <1>1, <2>2, FS_AddElement
  <2>4. \A r \in Servlets : r # s => Holding(r)' = Holding(r)
    BY <2>1 DEF Holding
  <2>5. /\ avail'[s] = avail[s] - 1
        /\ \A r \in Servlets : r # s => avail'[r] = avail[r]
    BY <1>0, <2>1 DEF TypeOK
  <2> QED BY SMT, <1>0, <1>1, <1>2, <2>3, <2>4, <2>5 DEF ConnectionsAccounted, Servlets
<1>6. ASSUME NEW t \in Threads, Connected(t, "AcceptStory", "idle")
      PROVE  ConnectionsAccounted'
  <2>1. /\ pc[t] = "connect" /\ op' = op /\ Goto(t, "idle")
        /\ avail' = [avail EXCEPT !["AcceptStory"] = avail["AcceptStory"] - 1]
    BY <1>6 DEF Connected
  <2>2. \A s \in Servlets : Holding(s)' = Holding(s)
    BY <1>0, <2>1, SameHolders
  <2>3. /\ avail'["AcceptStory"] = avail["AcceptStory"] - 1
        /\ \A r \in Servlets : r # "AcceptStory" => avail'[r] = avail[r]
    BY <1>0, <2>1 DEF TypeOK, Servlets
  <2> QED BY SMT, <1>0, <1>1, <1>2, <2>2, <2>3 DEF ConnectionsAccounted, Servlets
<1>7. ASSUME NEW t \in Threads, closeConnection(t) PROVE ConnectionsAccounted'
  <2>1. PICK s \in Servlets : s = op[t]
    BY <1>0 DEF TypeOK
  <2>2. /\ pc[t] = "close" /\ op' = op
        /\ avail' = [avail EXCEPT ![s] = avail[s] + 1]
        /\ pc'[t] = "idle" /\ \A u \in Threads : u # t => pc'[u] = pc[u]
    BY <1>0, <1>7, <2>1 DEF closeConnection, Goto, TypeOK
  <2>3. Holding(s)' = Holding(s) \ {t} /\ t \in Holding(s)
    BY <2>1, <2>2 DEF Holding
  <2>4. \A r \in Servlets : r # s => Holding(r)' = Holding(r)
    BY <2>1, <2>2 DEF Holding
  <2>5. Cardinality(Holding(s)') = Cardinality(Holding(s)) - 1
    BY <1>1, <2>1, <2>3, FS_RemoveElement
  <2>6. /\ avail'[s] = avail[s] + 1
        /\ \A r \in Servlets : r # s => avail'[r] = avail[r]
    BY <1>0, <2>1, <2>2 DEF TypeOK
  <2> QED BY SMT, <1>0, <1>1, <1>2, <2>1, <2>4, <2>5, <2>6 DEF ConnectionsAccounted, Servlets
<1>8. ASSUME NEW t \in Threads,
             \/ SqlException(t) \/ \E access \in {0, 1} : Authenticate(t, access)
             \/ InsertStory(t) \/ SelectSubmission(t) \/ PublishStory(t)
             \/ DeleteAccepted(t) \/ DeleteRejected(t)
      PROVE  ConnectionsAccounted'
  <2>1. /\ pc[t] \notin {"idle", "connect"} /\ op' = op /\ avail' = avail
        /\ \E l : l \notin {"idle", "connect"} /\ Goto(t, l)
    BY <1>8 DEF SqlException, Authenticate, InsertStory, SelectSubmission, PublishStory,
       DeleteAccepted, DeleteRejected
  <2> QED BY <1>0, <1>3, <2>1, SameHolders
<1>9. ASSUME NEW t \in Threads, Step(t) PROVE ConnectionsAccounted'
  <2>1. CASE StoreStoryConnect(t)
    BY <1>5, <2>1 DEF StoreStoryConnect, Servlets
  <2>2. CASE AcceptStoryConnect(t)
    BY <1>5, <1>6, <2>2 DEF AcceptStoryConnect, Servlets
  <2>3. CASE RejectStoryConnect(t)
    BY <1>5, <2>3 DEF RejectStoryConnect, Servlets
  <2> QED BY <1>7, <1>8, <1>9, <2>1, <2>2, <2>3 DEF Step, Statement
<1>10. CASE UNCHANGED vars
  BY <1>3, <1>10 DEF vars, Holding
<1> QED BY <1>4, <1>9, <1>10 DEF Next

(* StoreStory and RejectStory give back every connection they take, also   *)
(* when a statement throws; AcceptStory never gives back more than it took.*)
THEOREM ConnectionsAreAccounted == Spec => []ConnectionsAccounted
<1>1. ASSUME Init PROVE ConnectionsAccounted
  <2>1. \A s \in Servlets : Holding(s) = {} /\ avail[s] = poolSize
    BY <1>1 DEF Init, Holding
  <2> QED BY SMT, <2>1, FS_EmptySet, StoryAssumption
          DEF ConnectionsAccounted, Servlets, StoryAssumption
<1> QED BY <1>1, ConnectionSteps, StoryInvariant, PTL DEF Spec
=============================================================================
