--------------------------- MODULE EmulatorProofs ---------------------------
(***************************************************************************)
(* Proofs about the client emulator.                                       *)
(*                                                                         *)
(* EmulatorStats: what its reports may lose and what they may not, for any *)
(* number of session threads, requests and sessions.  Each field has its   *)
(* own window: from the moment merge() has read it in a ramp to the        *)
(* reset() that follows.  Outside the window the reports and the shared    *)
(* object together hold what was recorded, inside it the reports alone do; *)
(* what is recorded in the window is lost.                                 *)
(*                                                                         *)
(* UserSession: one session thread, for every transition table             *)
(* without Back from the home page and every number of transitions and     *)
(* sessions.  The heart is Sound: the bottom of the history is a state     *)
(* without Back, and a current state with Back has a history.  Going back  *)
(* uncovers a state together with the history it had when it was left, so  *)
(* Sound survives any number of Backs, and a reset to the home page.       *)
(***************************************************************************)
EXTENDS EmulatorStats, UserSession, FiniteSetTheorems, TLAPS

(* Where merge() reads a field. *)
Index(f) == CASE f = "count" -> 1 [] f = "error" -> 2 [] f = "transactions" -> 3
              [] f = "nbSessions" -> 4

(* Instruction k, a merge, has read field f. *)
HasRead(k, f) == step > k \/ (step = k /\ field > Index(f))

(* The field is in a report and still in the shared object. *)
Held(f) == step <= 4 /\ (HasRead(3, f) \/ (HasRead(1, f) /\ step <= 2))

(* What the reports of the two phases that are reset hold. *)
Ramps(f) == stats["up"][f] + stats["run"][f]

(* The main thread is at a field of an object only while it merges. *)
Aligned == step \in {2, 4, 6} \union 8 .. 11 => field = 1

(* A report that is not begun is empty. *)
Unread ==
  \A f \in FieldNames :
    /\ ~HasRead(1, f) => stats["up"][f] = 0
    /\ ~HasRead(3, f) => stats["run"][f] = 0
    /\ ~HasRead(5, f) => stats["down"][f] = 0
    /\ ~HasRead(7, f) => stats["all"][f] = 0

(* The reports hold at most what was recorded. *)
AtMostOnce ==
  \A f \in FieldNames :
    /\ Held(f) => Ramps(f) <= issued[f]
    /\ ~Held(f) => Ramps(f) + stats["live"][f] <= issued[f]
    /\ stats["down"][f] <= stats["live"][f]
    /\ step <= 8 => stats["all"][f] <= stats["live"][f]
    /\ step = 9 => stats["all"][f] + stats["up"][f] <= issued[f]
    /\ step > 9 => stats["all"][f] <= issued[f]

(* The requests counted are in the reports, in the shared object or lost. *)
Accounted ==
  /\ Held("count") => Ramps("count") + slipped = issued["count"]
  /\ ~Held("count") => Ramps("count") + stats["live"]["count"] + slipped = issued["count"]

(* Threads whose request is counted and not yet explained. *)
Pending == {c \in Clients : pc[c] \in {"failed", "answered"}}

(* The report p, merged by instruction k, explains its requests so far. *)
ExplainedBy(p, k) ==
  /\ HasRead(k, "count") /\ ~HasRead(k, "error") =>
       stats[p]["count"] <= stats["live"]["error"] + stats["live"]["transactions"]
                              + Cardinality(Pending)
  /\ HasRead(k, "error") /\ ~HasRead(k, "transactions") =>
       stats[p]["count"] <= stats[p]["error"] + stats["live"]["transactions"]
                              + Cardinality(Clients)
  /\ HasRead(k, "transactions") =>
       stats[p]["count"] <= stats[p]["error"] + stats[p]["transactions"]
                              + Cardinality(Clients)

Explained ==
  /\ stats["live"]["count"] <= stats["live"]["error"] + stats["live"]["transactions"]
                                 + Cardinality(Pending)
  /\ ExplainedBy("up", 1) /\ ExplainedBy("run", 3) /\ ExplainedBy("down", 5)

IInv == TypeOK /\ Aligned /\ Unread /\ AtMostOnce /\ Accounted /\ Explained

-----------------------------------------------------------------------------
(* Zenon proves most of the steps; SMT is cited where it is needed.        *)
USE ZenonT(60)

(* The ten instructions, one by one. *)
LEMMA Instructions ==
  /\ Len(Program) = 10 /\ Len(Fields) = 4
  /\ Program[1] = <<"merge", "live", "up">> /\ Program[2] = <<"reset">>
  /\ Program[3] = <<"merge", "live", "run">> /\ Program[4] = <<"reset">>
  /\ Program[5] = <<"merge", "live", "down">> /\ Program[6] = <<"setEndOfSimulation">>
  /\ Program[7] = <<"merge", "live", "all">> /\ Program[8] = <<"mergeOwn", "run", "all">>
  /\ Program[9] = <<"mergeOwn", "up", "all">> /\ Program[10] = <<"display_stats">>
  /\ Fields[1] = "count" /\ Fields[2] = "error" /\ Fields[3] = "transactions"
  /\ Fields[4] = "nbSessions"
  BY DEF Program, Fields

(* The fields are read in the order of their index. *)
LEMMA Indices ==
  /\ Index("count") = 1 /\ Index("error") = 2 /\ Index("transactions") = 3
  /\ Index("nbSessions") = 4
  BY DEF Index

(* Which instruction is which. *)
LEMMA AtInstruction ==
  ASSUME step \in 1 .. 10
  PROVE  /\ Instruction[1] = "merge" => step \in {1, 3, 5, 7}
         /\ Instruction[1] = "reset" => step \in {2, 4}
         /\ Instruction[1] = "mergeOwn" => step \in {8, 9}
         /\ Instruction[1] = "setEndOfSimulation" => step = 6
         /\ Instruction[1] = "display_stats" => step = 10
  <1>1. step \in {1, 2, 3, 4, 5, 6, 7, 8, 9, 10}  BY SMT
  <1> QED BY SMT, <1>1, Instructions DEF Instruction

(* The threads under way are finitely many, at most all. *)
LEMMA PendingFinite ==
  /\ IsFiniteSet(Clients) /\ Cardinality(Clients) \in Nat
  /\ IsFiniteSet(Pending) /\ Cardinality(Pending) \in Nat
  /\ Cardinality(Pending) <= Cardinality(Clients)
  <1>1. IsFiniteSet(Clients)  BY StatsAssumption DEF StatsAssumption
  <1>2. Pending \subseteq Clients  BY DEF Pending
  <1> QED BY <1>1, <1>2, FS_Subset, FS_CardinalityType

(* A thread whose request is counted joins them; one that says what became *)
(* of its request leaves.                                                  *)
LEMMA PendingSteps ==
  ASSUME TypeOK, NEW c \in Clients, NEW v, pc' = [pc EXCEPT ![c] = v]
  PROVE  /\ pc[c] = "call" /\ v \in {"failed", "answered"} =>
               Cardinality(Pending') = Cardinality(Pending) + 1
         /\ pc[c] \in {"failed", "answered"} /\ v = "next" =>
               Cardinality(Pending') = Cardinality(Pending) - 1
         /\ pc[c] \notin {"failed", "answered"} /\ v \notin {"failed", "answered"} =>
               Pending' = Pending
  <1>1. ASSUME pc[c] = "call", v \in {"failed", "answered"}
        PROVE  Cardinality(Pending') = Cardinality(Pending) + 1
    <2>1. Pending' = Pending \union {c} /\ c \notin Pending
      BY <1>1 DEF Pending, TypeOK
    <2> QED BY <2>1, PendingFinite, FS_AddElement
  <1>2. ASSUME pc[c] \in {"failed", "answered"}, v = "next"
        PROVE  Cardinality(Pending') = Cardinality(Pending) - 1
    <2>1. Pending' = Pending \ {c} /\ c \in Pending
      BY <1>2 DEF Pending, TypeOK
    <2> QED BY <2>1, PendingFinite, FS_RemoveElement
  <1>3. ASSUME pc[c] \notin {"failed", "answered"}, v \notin {"failed", "answered"}
        PROVE  Pending' = Pending
    BY <1>3 DEF Pending, TypeOK
  <1> QED BY <1>1, <1>2, <1>3

(* What a method of the shared object does, field by field. *)
LEMMA AddEffect ==
  ASSUME TypeOK, NEW fs, Add(fs)
  PROVE  /\ stats' \in [Objects -> [FieldNames -> Nat]]
         /\ issued' \in [FieldNames -> Nat] /\ slipped' \in Nat
         /\ \A o \in Objects \ {"live"} : stats'[o] = stats[o]
         /\ \A f \in FieldNames :
              /\ f \in fs => /\ stats'["live"][f] = stats["live"][f] + 1
                              /\ issued'[f] = issued[f] + 1
              /\ f \notin fs => /\ stats'["live"][f] = stats["live"][f]
                                 /\ issued'[f] = issued[f]
         /\ "count" \in fs /\ InWindow => slipped' = slipped + 1
         /\ ~("count" \in fs /\ InWindow) => slipped' = slipped
  <1> DEFINE New == [f \in FieldNames |-> stats["live"][f] + (IF f \in fs THEN 1 ELSE 0)]
  <1> HIDE DEF New
  <1>1. "live" \in Objects  BY DEF Objects
  <1>2. New \in [FieldNames -> Nat]  BY SMT, <1>1 DEF TypeOK, New
  <1>3. stats' = [stats EXCEPT !["live"] = New]  BY DEF Add, New
  <1>4. \A f \in FieldNames : /\ f \in fs => New[f] = stats["live"][f] + 1
                              /\ f \notin fs => New[f] = stats["live"][f]
    BY SMT, <1>1 DEF TypeOK, New
  <1>5. /\ stats' \in [Objects -> [FieldNames -> Nat]] /\ stats'["live"] = New
        /\ \A o \in Objects \ {"live"} : stats'[o] = stats[o]
    BY <1>1, <1>2, <1>3 DEF TypeOK
  <1>6. /\ issued' \in [FieldNames -> Nat]
        /\ \A f \in FieldNames : /\ f \in fs => issued'[f] = issued[f] + 1
                                 /\ f \notin fs => issued'[f] = issued[f]
    BY SMT DEF Add, TypeOK
  <1>7. /\ slipped' \in Nat
        /\ "count" \in fs /\ InWindow => slipped' = slipped + 1
        /\ ~("count" \in fs /\ InWindow) => slipped' = slipped
    BY SMT DEF Add, TypeOK
  <1> QED BY <1>4, <1>5, <1>6, <1>7

(* The window of the counts is the one of the history variable. *)
LEMMA WindowOfCounts ==
  ASSUME TypeOK, Aligned
  PROVE  InWindow <=> Held("count")
  <1>1. step \in {1, 2, 3, 4, 5, 6, 7, 8, 9, 10, 11} /\ field \in {1, 2, 3, 4}
    BY SMT, Instructions DEF TypeOK
  <1>2. 1 % 2 = 1 /\ 2 % 2 = 0 /\ 3 % 2 = 1 /\ 4 % 2 = 0  BY SMT
  <1> QED BY SMT, <1>1, <1>2, Indices DEF InWindow, Held, HasRead, Aligned

(* The numbers of the Stats objects are numbers. *)
LEMMA Numbers ==
  ASSUME TypeOK
  PROVE  /\ \A f \in FieldNames :
              /\ stats["live"][f] \in Nat /\ stats["up"][f] \in Nat /\ stats["run"][f] \in Nat
              /\ stats["down"][f] \in Nat /\ stats["all"][f] \in Nat /\ issued[f] \in Nat
         /\ step \in 1 .. 11 /\ field \in 1 .. 4
  BY SMT, Instructions DEF TypeOK, Objects, Phases

(* A method of the shared object adds to it and to what is recorded alike. *)
LEMMA AddStep ==
  ASSUME IInv, NEW fs, Add(fs), UNCHANGED main
  PROVE  Aligned' /\ Unread' /\ AtMostOnce' /\ Accounted'
  <1> USE DEF IInv
  <1>1. step' = step /\ field' = field  BY DEF main
  <1>2. \A k, f : HasRead(k, f)' <=> HasRead(k, f)  BY <1>1 DEF HasRead
  <1>3. \A f : Held(f)' <=> Held(f)  BY <1>1, <1>2 DEF Held
  <1>4. /\ stats'["up"] = stats["up"] /\ stats'["run"] = stats["run"]
        /\ stats'["down"] = stats["down"] /\ stats'["all"] = stats["all"]
    BY AddEffect DEF Objects, Phases
  <1>5. Aligned'  BY <1>1 DEF Aligned
  <1>6. Unread'  BY <1>2, <1>4 DEF Unread
  <1>7. AtMostOnce'
    <2> SUFFICES ASSUME NEW f \in FieldNames
                 PROVE  /\ Held(f) => Ramps(f)' <= issued'[f]
                        /\ ~Held(f) => Ramps(f)' + stats'["live"][f] <= issued'[f]
                        /\ stats'["down"][f] <= stats'["live"][f]
                        /\ step <= 8 => stats'["all"][f] <= stats'["live"][f]
                        /\ step = 9 => stats'["all"][f] + stats'["up"][f] <= issued'[f]
                        /\ step > 9 => stats'["all"][f] <= issued'[f]
      BY <1>1, <1>3 DEF AtMostOnce
    <2>1. Ramps(f)' = Ramps(f) /\ Ramps(f) \in Nat  BY SMT, <1>4, Numbers DEF Ramps
    <2>2. \/ stats'["live"][f] = stats["live"][f] + 1 /\ issued'[f] = issued[f] + 1
          \/ stats'["live"][f] = stats["live"][f] /\ issued'[f] = issued[f]
      BY AddEffect
    <2>3. /\ Held(f) => Ramps(f) <= issued[f]
          /\ ~Held(f) => Ramps(f) + stats["live"][f] <= issued[f]
          /\ stats["down"][f] <= stats["live"][f]
          /\ step <= 8 => stats["all"][f] <= stats["live"][f]
          /\ step = 9 => stats["all"][f] + stats["up"][f] <= issued[f]
          /\ step > 9 => stats["all"][f] <= issued[f]
      BY DEF AtMostOnce
    <2> QED BY SMT, <1>4, <2>1, <2>2, <2>3, Numbers
  <1>8. Accounted'
    <2>1. "count" \in FieldNames  BY DEF FieldNames
    <2>2. Ramps("count")' = Ramps("count") /\ Ramps("count") \in Nat
      BY SMT, <1>4, <2>1, Numbers DEF Ramps
    <2>3. InWindow <=> Held("count")  BY WindowOfCounts
    <2>4. CASE "count" \in fs
      <3>1. /\ stats'["live"]["count"] = stats["live"]["count"] + 1
            /\ issued'["count"] = issued["count"] + 1
            /\ Held("count") => slipped' = slipped + 1
            /\ ~Held("count") => slipped' = slipped
        BY <2>1, <2>3, <2>4, AddEffect
      <3>2. slipped \in Nat  BY DEF TypeOK
      <3> QED BY SMT, <1>3, <2>1, <2>2, <3>1, <3>2, Numbers DEF Accounted
    <2>5. CASE "count" \notin fs
      <3>1. /\ stats'["live"]["count"] = stats["live"]["count"]
            /\ issued'["count"] = issued["count"] /\ slipped' = slipped
        BY <2>1, <2>5, AddEffect
      <3> QED BY <1>3, <2>2, <3>1 DEF Accounted
    <2> QED BY <2>4, <2>5
  <1> QED BY <1>5, <1>6, <1>7, <1>8

(* A step that takes no explanation away keeps the reports explained.      *)
LEMMA KeepsExplained ==
  ASSUME IInv, TypeOK', UNCHANGED main,
         stats'["up"] = stats["up"], stats'["run"] = stats["run"],
         stats'["down"] = stats["down"],
         stats'["live"]["error"] + stats'["live"]["transactions"] + Cardinality(Pending')
           >= stats["live"]["error"] + stats["live"]["transactions"] + Cardinality(Pending),
         stats'["live"]["transactions"] >= stats["live"]["transactions"],
         stats'["live"]["count"] <= stats'["live"]["error"] + stats'["live"]["transactions"]
                                      + Cardinality(Pending')
  PROVE  Explained'
  <1> USE DEF IInv
  <1>1. step' = step /\ field' = field  BY DEF main
  <1>2. \A k, f : HasRead(k, f)' <=> HasRead(k, f)  BY <1>1 DEF HasRead
  <1>3. {"count", "error", "transactions"} \subseteq FieldNames  BY DEF FieldNames
  <1>4. Cardinality(Pending) \in Nat /\ Cardinality(Clients) \in Nat  BY PendingFinite
  <1>5. Cardinality(Pending') \in Nat
    <2>1. Pending' \subseteq Clients  BY DEF Pending
    <2> QED BY <2>1, PendingFinite, FS_Subset, FS_CardinalityType
  <1>6. /\ stats'["live"]["error"] \in Nat /\ stats'["live"]["transactions"] \in Nat
        /\ stats'["live"]["count"] \in Nat
    BY <1>3 DEF TypeOK, Objects
  <1> DEFINE B == stats["live"]["error"] + stats["live"]["transactions"] + Cardinality(Pending)
             D == stats'["live"]["error"] + stats'["live"]["transactions"]
                    + Cardinality(Pending')
  <1>7. B \in Nat /\ D \in Nat /\ B <= D  BY SMT, <1>3, <1>4, <1>5, <1>6, Numbers
  <1>8. ASSUME NEW p \in Phases, NEW k, ExplainedBy(p, k), stats'[p] = stats[p]
        PROVE  ExplainedBy(p, k)'
    <2>1. /\ stats[p]["count"] \in Nat /\ stats[p]["error"] \in Nat
          /\ stats[p]["transactions"] \in Nat
      BY <1>3 DEF TypeOK, Objects
    <2>2. /\ HasRead(k, "count") /\ ~HasRead(k, "error") => stats[p]["count"] <= B
          /\ HasRead(k, "error") /\ ~HasRead(k, "transactions") =>
               stats[p]["count"] <= stats[p]["error"] + stats["live"]["transactions"]
                                      + Cardinality(Clients)
          /\ HasRead(k, "transactions") =>
               stats[p]["count"] <= stats[p]["error"] + stats[p]["transactions"]
                                      + Cardinality(Clients)
      BY <1>8 DEF ExplainedBy
    <2> HIDE DEF B, D
    <2>3. HasRead(k, "count") /\ ~HasRead(k, "error") => stats[p]["count"] <= D
      BY SMT, <1>7, <2>1, <2>2
    <2>4. HasRead(k, "error") /\ ~HasRead(k, "transactions") =>
            stats[p]["count"] <= stats[p]["error"] + stats'["live"]["transactions"]
                                   + Cardinality(Clients)
      BY SMT, <1>3, <1>4, <1>6, <2>1, <2>2, Numbers
    <2> QED BY <1>2, <1>8, <2>2, <2>3, <2>4 DEF ExplainedBy, D
  <1> QED BY <1>8 DEF Explained, Phases
(* The steps of a session thread. *)
LEMMA SessionSteps ==
  ASSUME IInv, NEW c \in Clients,
         \/ NextRequest(c) \/ incrementCount(c) \/ incrementError(c) \/ updateTime(c)
         \/ addSessionTime(c) \/ Stop(c)
  PROVE  IInv'
  <1> USE DEF IInv
  <1>1. {"count", "error", "transactions"} \subseteq FieldNames  BY DEF FieldNames
  <1>2. Cardinality(Pending) \in Nat  BY PendingFinite
  <1>3. stats["live"]["count"] <= stats["live"]["error"] + stats["live"]["transactions"]
                                    + Cardinality(Pending)
    BY DEF Explained
  <1>4. ASSUME NEW v \in {"call", "done"}, pc' = [pc EXCEPT ![c] = v],
               pc[c] \in {"idle", "next"}, requests' \in 0 .. MaxRequests,
               UNCHANGED <<stats, main, endOfSimulation, issued, slipped>>
        PROVE  IInv'
    <2>1. TypeOK'  BY <1>4 DEF TypeOK, main
    <2>2. Pending' = Pending  BY <1>4, PendingSteps
    <2>3. Aligned' /\ Unread' /\ AtMostOnce' /\ Accounted'
      BY <1>4 DEF main, Aligned, Unread, AtMostOnce, Accounted, HasRead, Held, Ramps
    <2>4. Explained'
      BY SMTT(60), <1>4, <2>2 DEF main, Explained, ExplainedBy, HasRead
    <2> QED BY <2>1, <2>3, <2>4
  <1>5. CASE NextRequest(c)
    <2>1. requests' \in 0 .. MaxRequests
      BY SMT, <1>5, StatsAssumption DEF NextRequest, TypeOK, StatsAssumption
    <2> QED BY <1>4, <1>5, <2>1 DEF NextRequest
  <1>6. CASE Stop(c)
    <2>1. requests' \in 0 .. MaxRequests  BY <1>6 DEF Stop, TypeOK
    <2> QED BY <1>4, <1>6, <2>1 DEF Stop
  <1>7. ASSUME NEW fs, Add(fs), UNCHANGED <<main, endOfSimulation, requests>>,
               pc' \in [Clients -> {"idle", "call", "failed", "answered", "next", "done"}],
               stats'["live"]["error"] + stats'["live"]["transactions"] + Cardinality(Pending')
                 >= stats["live"]["error"] + stats["live"]["transactions"]
                      + Cardinality(Pending),
               stats'["live"]["transactions"] >= stats["live"]["transactions"],
               stats'["live"]["count"] <= stats'["live"]["error"]
                                 + stats'["live"]["transactions"] + Cardinality(Pending')
        PROVE  IInv'
    <2>1. TypeOK'  BY <1>7, AddEffect DEF TypeOK, main
    <2>2. Aligned' /\ Unread' /\ AtMostOnce' /\ Accounted'  BY <1>7, AddStep
    <2>3. /\ stats'["up"] = stats["up"] /\ stats'["run"] = stats["run"]
          /\ stats'["down"] = stats["down"]
      BY <1>7, AddEffect DEF Objects, Phases
    <2>4. Explained'  BY <1>7, <2>1, <2>3, KeepsExplained
    <2> QED BY <2>1, <2>2, <2>4
  <1>8. CASE incrementCount(c)
    <2>1. PICK v \in {"failed", "answered"} : pc' = [pc EXCEPT ![c] = v]
      BY <1>8 DEF incrementCount
    <2>2. Cardinality(Pending') = Cardinality(Pending) + 1
      BY <1>8, <2>1, PendingSteps DEF incrementCount
    <2>3. /\ stats'["live"]["count"] = stats["live"]["count"] + 1
          /\ stats'["live"]["error"] = stats["live"]["error"]
          /\ stats'["live"]["transactions"] = stats["live"]["transactions"]
      BY SMTT(60), <1>1, <1>8, AddEffect DEF incrementCount
    <2>4. pc' \in [Clients -> {"idle", "call", "failed", "answered", "next", "done"}]
      BY <2>1 DEF TypeOK
    <2>5. Add({"count"}) /\ UNCHANGED <<main, endOfSimulation, requests>>
      BY <1>8 DEF incrementCount
    <2> QED BY SMTT(60), <1>1, <1>2, <1>3, <1>7, <2>2, <2>3, <2>4, <2>5, Numbers
  <1>9. CASE incrementError(c)
    <2>1. Cardinality(Pending') = Cardinality(Pending) - 1
      BY <1>9, PendingSteps DEF incrementError
    <2>2. /\ stats'["live"]["count"] = stats["live"]["count"]
          /\ stats'["live"]["error"] = stats["live"]["error"] + 1
          /\ stats'["live"]["transactions"] = stats["live"]["transactions"]
      BY SMT, <1>1, <1>9, AddEffect DEF incrementError
    <2>3. pc' \in [Clients -> {"idle", "call", "failed", "answered", "next", "done"}]
      BY <1>9 DEF TypeOK, incrementError
    <2>4. Add({"error"}) /\ UNCHANGED <<main, endOfSimulation, requests>>
      BY <1>9 DEF incrementError
    <2> QED BY SMTT(60), <1>1, <1>2, <1>3, <1>7, <2>1, <2>2, <2>3, <2>4, Numbers
  <1>10. CASE updateTime(c)
    <2>1. Cardinality(Pending') = Cardinality(Pending) - 1
      BY <1>10, PendingSteps DEF updateTime
    <2>2. /\ stats'["live"]["count"] = stats["live"]["count"]
          /\ stats'["live"]["error"] = stats["live"]["error"]
          /\ stats'["live"]["transactions"] = stats["live"]["transactions"] + 1
      BY SMT, <1>1, <1>10, AddEffect DEF updateTime
    <2>3. pc' \in [Clients -> {"idle", "call", "failed", "answered", "next", "done"}]
      BY <1>10 DEF TypeOK, updateTime
    <2>4. Add({"transactions"}) /\ UNCHANGED <<main, endOfSimulation, requests>>
      BY <1>10 DEF updateTime
    <2> QED BY SMTT(60), <1>1, <1>2, <1>3, <1>7, <2>1, <2>2, <2>3, <2>4, Numbers
  <1>11. CASE addSessionTime(c)
    <2>1. Pending' = Pending
      <3>1. pc[c] = "next" /\ pc' = [pc EXCEPT ![c] = "idle"]  BY <1>11 DEF addSessionTime
      <3> QED BY <3>1 DEF Pending, TypeOK
    <2>2. /\ stats'["live"]["count"] = stats["live"]["count"]
          /\ stats'["live"]["error"] = stats["live"]["error"]
          /\ stats'["live"]["transactions"] = stats["live"]["transactions"]
      BY SMT, <1>1, <1>11, AddEffect DEF addSessionTime
    <2>3. pc' \in [Clients -> {"idle", "call", "failed", "answered", "next", "done"}]
      BY <1>11 DEF TypeOK, addSessionTime
    <2>4. Add({"nbSessions"}) /\ UNCHANGED <<main, endOfSimulation, requests>>
      BY <1>11 DEF addSessionTime
    <2> QED BY SMTT(60), <1>1, <1>2, <1>3, <1>7, <2>1, <2>2, <2>3, <2>4, Numbers
  <1> QED BY <1>5, <1>6, <1>8, <1>9, <1>10, <1>11

(* merge() reads one field g of the shared object into the report o. *)
LEMMA MergeEffect ==
  ASSUME TypeOK, Aligned, merge
  PROVE  \E o \in {"up", "run", "down", "all"}, g \in FieldNames :
           /\ (o = "up" /\ step = 1) \/ (o = "run" /\ step = 3) \/ (o = "down" /\ step = 5)
                \/ (o = "all" /\ step = 7)
           /\ field = Index(g)
           /\ stats' \in [Objects -> [FieldNames -> Nat]]
           /\ stats'[o][g] = stats[o][g] + stats["live"][g]
           /\ \A p \in Objects, f \in FieldNames : p # o \/ f # g => stats'[p][f] = stats[p][f]
  <1>1. step \in {1, 3, 5, 7} /\ field \in {1, 2, 3, 4}
    BY SMTT(60), AtInstruction, Instructions, Numbers DEF merge
  <1> DEFINE o == Instruction[3]
             g == Fields[field]
  <1>2. /\ (o = "up" /\ step = 1) \/ (o = "run" /\ step = 3) \/ (o = "down" /\ step = 5)
             \/ (o = "all" /\ step = 7)
        /\ Instruction[2] = "live"
    BY SMT, <1>1, Instructions DEF Instruction
  <1>3. g \in FieldNames /\ field = Index(g)
    BY <1>1, Instructions, Indices DEF FieldNames
  <1>4. stats' = [stats EXCEPT ![o][g] = @ + stats["live"][g]]
    BY <1>2 DEF merge
  <1>5. o \in {"up", "run", "down", "all"} /\ o \in Objects  BY <1>2 DEF Objects, Phases
  <1> HIDE DEF o, g
  <1>6. stats["live"][g] \in Nat /\ stats[o][g] \in Nat
    BY <1>3, <1>5, Numbers DEF TypeOK
  <1>7. /\ stats' \in [Objects -> [FieldNames -> Nat]]
        /\ stats'[o][g] = stats[o][g] + stats["live"][g]
        /\ \A p \in Objects, f \in FieldNames : p # o \/ f # g => stats'[p][f] = stats[p][f]
    BY SMT, <1>3, <1>4, <1>5, <1>6 DEF TypeOK
  <1> QED BY <1>2, <1>3, <1>5, <1>7
(* What merge() changes for each of the bookkeeping predicates. *)
LEMMA MergeReads ==
  ASSUME TypeOK, Aligned, merge, NEW g \in FieldNames, field = Index(g)
  PROVE  /\ step' <= 8 /\ step' \in 1 .. 11 /\ field' \in 1 .. 4
         /\ ~HasRead(step, g) /\ Aligned'
         /\ \A j \in {1, 3, 5, 7}, f \in FieldNames :
              HasRead(j, f)' <=> (HasRead(j, f) \/ (j = step /\ f = g))
         /\ \A f \in FieldNames :
              Held(f)' <=> (Held(f) \/ (step \in {1, 3} /\ f = g))
  <1>1. step \in {1, 3, 5, 7} /\ field \in {1, 2, 3, 4}
    BY SMTT(60), AtInstruction, Instructions, Numbers DEF merge
  <1>2. \A f \in FieldNames : Index(f) \in {1, 2, 3, 4} /\ (Index(f) = Index(g) <=> f = g)
    BY SMT, Indices DEF FieldNames
  <1>3. \/ field = 4 /\ field' = 1 /\ step' = step + 1
        \/ field # 4 /\ field' = field + 1 /\ step' = step
    BY Instructions DEF merge
  <1>4. step' <= 8 /\ step' \in 1 .. 11 /\ field' \in 1 .. 4 /\ Aligned'
    BY SMT, <1>1, <1>3 DEF Aligned
  <1>5. ~HasRead(step, g)  BY SMT, <1>1, <1>2 DEF HasRead
  <1>6. ASSUME NEW j \in {1, 3, 5, 7}, NEW f \in FieldNames
        PROVE  HasRead(j, f)' <=> (HasRead(j, f) \/ (j = step /\ f = g))
    <2>1. Index(f) \in {1, 2, 3, 4} /\ (Index(f) = field <=> f = g)  BY <1>2
    <2> QED BY SMT, <1>1, <1>3, <2>1 DEF HasRead
  <1>7. ASSUME NEW f \in FieldNames
        PROVE  Held(f)' <=> (Held(f) \/ (step \in {1, 3} /\ f = g))
    <2>1. /\ HasRead(1, f)' <=> (HasRead(1, f) \/ (1 = step /\ f = g))
          /\ HasRead(3, f)' <=> (HasRead(3, f) \/ (3 = step /\ f = g))
      BY <1>6
    <2>2. step = 3 => HasRead(1, f) /\ ~(HasRead(1, f) /\ step <= 2)  BY SMT DEF HasRead
    <2>3. step = 1 => ~HasRead(3, f)  BY SMT DEF HasRead
    <2> QED BY SMT, <1>1, <1>3, <2>1, <2>2, <2>3 DEF Held
  <1> QED BY <1>4, <1>5, <1>6, <1>7

(* merge() keeps what the reports hold at most what was recorded. *)
LEMMA MergeCounts ==
  ASSUME IInv, merge,
         NEW o \in {"up", "run", "down", "all"}, NEW g \in FieldNames,
         (o = "up" /\ step = 1) \/ (o = "run" /\ step = 3) \/ (o = "down" /\ step = 5)
           \/ (o = "all" /\ step = 7),
         field = Index(g),
         stats'[o][g] = stats[o][g] + stats["live"][g],
         \A p \in Objects, f \in FieldNames : p # o \/ f # g => stats'[p][f] = stats[p][f]
  PROVE  Unread' /\ AtMostOnce' /\ Accounted'
  <1> USE DEF IInv
  <1>1. issued' = issued /\ slipped' = slipped  BY DEF merge
  <1>2. /\ step' <= 8 /\ ~HasRead(step, g)
        /\ \A j \in {1, 3, 5, 7}, f \in FieldNames :
             HasRead(j, f)' <=> (HasRead(j, f) \/ (j = step /\ f = g))
        /\ \A f \in FieldNames : Held(f)' <=> (Held(f) \/ (step \in {1, 3} /\ f = g))
    BY MergeReads
  <1>3. ASSUME NEW f \in FieldNames, f # g
        PROVE  /\ stats'["live"][f] = stats["live"][f] /\ stats'["up"][f] = stats["up"][f]
               /\ stats'["run"][f] = stats["run"][f] /\ stats'["down"][f] = stats["down"][f]
               /\ stats'["all"][f] = stats["all"][f] /\ Ramps(f)' = Ramps(f)
               /\ Held(f)' <=> Held(f)
               /\ \A j \in {1, 3, 5, 7} : HasRead(j, f)' <=> HasRead(j, f)
    BY <1>2, <1>3 DEF Objects, Phases, Ramps
  <1>4. stats[o][g] = 0 /\ stats'[o][g] = stats["live"][g]
    BY SMTT(60), <1>2, Numbers DEF Unread
  <1>5. step = 1 => stats["run"][g] = 0
    BY SMT DEF Unread, HasRead
  <1>6. /\ stats'["live"][g] = stats["live"][g]
        /\ o # "up" => stats'["up"][g] = stats["up"][g]
        /\ o # "run" => stats'["run"][g] = stats["run"][g]
        /\ o # "down" => stats'["down"][g] = stats["down"][g]
        /\ o # "all" => stats'["all"][g] = stats["all"][g]
    BY DEF Objects, Phases
  <1>7. step \in {1, 3, 5, 7} /\ ~Held(g)
    <2>1. step \in {1, 3, 5, 7}  OBVIOUS
    <2> QED BY SMT, <1>2, <2>1 DEF Held, HasRead
  <1>8. Unread'
    <2>1. ASSUME NEW f \in FieldNames, f # g
          PROVE  /\ ~HasRead(1, f)' => stats'["up"][f] = 0
                 /\ ~HasRead(3, f)' => stats'["run"][f] = 0
                 /\ ~HasRead(5, f)' => stats'["down"][f] = 0
                 /\ ~HasRead(7, f)' => stats'["all"][f] = 0
      BY <1>3, <2>1 DEF Unread
    <2>2. /\ ~HasRead(1, g)' => stats'["up"][g] = 0
          /\ ~HasRead(3, g)' => stats'["run"][g] = 0
          /\ ~HasRead(5, g)' => stats'["down"][g] = 0
          /\ ~HasRead(7, g)' => stats'["all"][g] = 0
      BY <1>2, <1>6 DEF Unread
    <2> QED BY <2>1, <2>2 DEF Unread
  <1>9. /\ Held(g)' => Ramps(g)' <= issued[g]
        /\ ~Held(g)' => Ramps(g)' + stats'["live"][g] <= issued[g]
        /\ stats'["down"][g] <= stats'["live"][g]
        /\ stats'["all"][g] <= stats'["live"][g]
    <2>1. /\ stats["up"][g] + stats["run"][g] + stats["live"][g] <= issued[g]
          /\ stats["down"][g] <= stats["live"][g]
          /\ stats["all"][g] <= stats["live"][g]
      BY SMT, <1>7 DEF AtMostOnce, Ramps
    <2>2. Held(g)' <=> step \in {1, 3}  BY <1>2, <1>7
    <2>3. CASE step = 1  BY SMTT(60), <1>4, <1>5, <1>6, <2>1, <2>2, <2>3, Numbers DEF Ramps
    <2>4. CASE step = 3  BY SMTT(60), <1>4, <1>6, <2>1, <2>2, <2>4, Numbers DEF Ramps
    <2>5. CASE step = 5  BY SMTT(60), <1>4, <1>6, <2>1, <2>2, <2>5, Numbers DEF Ramps
    <2>6. CASE step = 7  BY SMTT(60), <1>4, <1>6, <2>1, <2>2, <2>6, Numbers DEF Ramps
    <2> QED BY <1>7, <2>3, <2>4, <2>5, <2>6
  <1>10. AtMostOnce'
    <2>1. ASSUME NEW f \in FieldNames, f # g
          PROVE  /\ Held(f)' => Ramps(f)' <= issued[f]
                 /\ ~Held(f)' => Ramps(f)' + stats'["live"][f] <= issued[f]
                 /\ stats'["down"][f] <= stats'["live"][f]
                 /\ stats'["all"][f] <= stats'["live"][f]
      <3>1. step <= 8  BY SMT, <1>7
      <3> QED BY <1>3, <2>1, <3>1 DEF AtMostOnce
    <2>2. step' \in Int /\ ~(step' = 9) /\ ~(step' > 9)  BY SMTT(60), <1>2, MergeReads
    <2> QED BY <1>1, <1>9, <2>1, <2>2 DEF AtMostOnce
  <1>11. Accounted'
    <2>1. "count" \in FieldNames /\ slipped \in Nat  BY DEF FieldNames, TypeOK
    <2>2. CASE g # "count"  BY <1>1, <1>3, <2>1, <2>2 DEF Accounted
    <2>3. CASE g = "count"
      <3>1. stats["up"][g] + stats["run"][g] + stats["live"][g] + slipped = issued[g]
        BY <1>7, <2>3 DEF Accounted, Ramps
      <3>2. Held(g)' <=> step \in {1, 3}  BY <1>2, <1>7
      <3>3. CASE step = 1
        BY SMTT(60), <1>1, <1>4, <1>5, <1>6, <2>1, <2>3, <3>1, <3>2, <3>3,
           Numbers DEF Accounted, Ramps
      <3>4. CASE step = 3
        <4>1. stats["run"][g] = 0  BY SMT, <1>4, <3>4
        <4> QED BY SMTT(60), <1>1, <1>4, <1>6, <2>1, <2>3, <3>1, <3>2, <3>4, <4>1, Numbers
                DEF Accounted, Ramps
      <3>5. CASE step \in {5, 7}
        BY SMTT(60), <1>1, <1>6, <2>1, <2>3, <3>1, <3>2, <3>5 DEF Accounted, Ramps
      <3> QED BY <1>7, <3>3, <3>4, <3>5
    <2> QED BY <2>2, <2>3
  <1> QED BY <1>8, <1>10, <1>11
(* merge() reads the counts before what explains them. *)
LEMMA MergeExplains ==
  ASSUME IInv, merge,
         NEW o \in {"up", "run", "down", "all"}, NEW g \in FieldNames,
         (o = "up" /\ step = 1) \/ (o = "run" /\ step = 3) \/ (o = "down" /\ step = 5)
           \/ (o = "all" /\ step = 7),
         field = Index(g),
         stats'[o][g] = stats[o][g] + stats["live"][g],
         \A p \in Objects, f \in FieldNames : p # o \/ f # g => stats'[p][f] = stats[p][f]
  PROVE  Explained'
  <1> USE DEF IInv
  <1>1. Pending' = Pending  BY DEF merge, Pending
  <1>2. {"count", "error", "transactions"} \subseteq FieldNames  BY DEF FieldNames
  <1>3. /\ stats'["live"]["count"] = stats["live"]["count"]
        /\ stats'["live"]["error"] = stats["live"]["error"]
        /\ stats'["live"]["transactions"] = stats["live"]["transactions"]
    BY <1>2 DEF Objects, Phases
  <1>4. /\ ~HasRead(step, g)
        /\ \A j \in {1, 3, 5, 7}, f \in FieldNames :
             HasRead(j, f)' <=> (HasRead(j, f) \/ (j = step /\ f = g))
    BY MergeReads
  <1>5. ASSUME NEW p \in Phases, NEW k \in {1, 3, 5}, ExplainedBy(p, k), o = p <=> step = k
        PROVE  ExplainedBy(p, k)'
    <2>1. CASE o # p
      <3>1. /\ stats'[p]["count"] = stats[p]["count"] /\ stats'[p]["error"] = stats[p]["error"]
            /\ stats'[p]["transactions"] = stats[p]["transactions"]
        BY <1>2, <2>1 DEF Objects
      <3>2. \A f \in FieldNames : HasRead(k, f)' <=> HasRead(k, f)  BY <1>4, <1>5, <2>1
      <3> QED BY <1>1, <1>2, <1>3, <1>5, <3>1, <3>2 DEF ExplainedBy
    <2>2. CASE o = p
      <3>1. step = k  BY <1>5, <2>2
      <3>2. /\ HasRead(k, "error") => HasRead(k, "count")
            /\ HasRead(k, "transactions") => HasRead(k, "error")
            /\ g = "count" => ~HasRead(k, "error") /\ ~HasRead(k, "transactions")
            /\ g = "error" => HasRead(k, "count") /\ ~HasRead(k, "transactions")
            /\ g = "transactions" => HasRead(k, "error")
        BY SMT, <3>1, Indices, Numbers DEF HasRead
      <3>3. \A f \in FieldNames : HasRead(k, f)' <=> (HasRead(k, f) \/ f = g)
        BY SMT, <1>4, <3>1
      <3>4. stats[p][g] = 0 /\ stats'[p][g] = stats["live"][g]
        BY SMTT(60), <1>4, <2>2, Numbers DEF Unread
      <3>5. \A f \in FieldNames : f # g => stats'[p][f] = stats[p][f]  BY DEF Objects
      <3>6. /\ Cardinality(Pending) \in Nat /\ Cardinality(Clients) \in Nat
            /\ Cardinality(Pending) <= Cardinality(Clients)
        BY PendingFinite
      <3>7. stats["live"]["count"] <= stats["live"]["error"] + stats["live"]["transactions"]
                                        + Cardinality(Pending)
        BY DEF Explained
      <3>8. CASE g = "count"
        BY <1>1, <1>2, <1>3, <3>2, <3>3, <3>4, <3>7, <3>8 DEF ExplainedBy
      <3>9. CASE g = "error"
        <4>1. stats[p]["count"] <= stats["live"]["error"] + stats["live"]["transactions"]
                                     + Cardinality(Pending)
          BY <1>4, <1>5, <3>1, <3>2, <3>9 DEF ExplainedBy
        <4>2. stats[p]["count"] \in Nat  BY SMT, <1>2 DEF TypeOK, Objects
        <4>3. stats[p]["count"] <= stats["live"]["error"] + stats["live"]["transactions"]
                                     + Cardinality(Clients)
          BY SMT, <1>2, <3>6, <4>1, <4>2, Numbers
        <4> QED BY <1>1, <1>2, <1>3, <3>2, <3>3, <3>4, <3>5, <3>9, <4>3 DEF ExplainedBy
      <3>10. CASE g = "transactions"
        <4>1. stats[p]["count"] <= stats[p]["error"] + stats["live"]["transactions"]
                                     + Cardinality(Clients)
          BY <1>4, <1>5, <3>1, <3>2, <3>10 DEF ExplainedBy
        <4> QED BY <1>1, <1>2, <1>3, <3>2, <3>3, <3>4, <3>5, <3>10, <4>1 DEF ExplainedBy
      <3>11. CASE g = "nbSessions"
        <4>1. \A f \in {"count", "error", "transactions"} :
                stats'[p][f] = stats[p][f] /\ (HasRead(k, f)' <=> HasRead(k, f))
          BY <1>2, <3>3, <3>5, <3>11
        <4> QED BY <1>1, <1>3, <1>5, <4>1 DEF ExplainedBy
      <3> QED BY <3>8, <3>9, <3>10, <3>11 DEF FieldNames
    <2> QED BY <2>1, <2>2
  <1>6. /\ o = "up" <=> step = 1
        /\ o = "run" <=> step = 3
        /\ o = "down" <=> step = 5
    BY SMT
  <1>7. ExplainedBy("up", 1)' /\ ExplainedBy("run", 3)' /\ ExplainedBy("down", 5)'
    BY <1>5, <1>6 DEF Explained, Phases
  <1> QED BY <1>1, <1>3, <1>7 DEF Explained

(* merge() keeps the invariant. *)
LEMMA MergeStep ==
  ASSUME IInv, merge
  PROVE  IInv'
  <1> USE DEF IInv
  <1>1. PICK o \in {"up", "run", "down", "all"}, g \in FieldNames :
           /\ (o = "up" /\ step = 1) \/ (o = "run" /\ step = 3) \/ (o = "down" /\ step = 5)
                \/ (o = "all" /\ step = 7)
           /\ field = Index(g)
           /\ stats' \in [Objects -> [FieldNames -> Nat]]
           /\ stats'[o][g] = stats[o][g] + stats["live"][g]
           /\ \A p \in Objects, f \in FieldNames : p # o \/ f # g => stats'[p][f] = stats[p][f]
    BY MergeEffect
  <1>2. step' \in 1 .. 11 /\ field' \in 1 .. 4 /\ Aligned'  BY <1>1, MergeReads
  <1>3. TypeOK'  BY SMTT(60), <1>1, <1>2, Instructions DEF TypeOK, merge
  <1>4. Unread' /\ AtMostOnce' /\ Accounted'  BY <1>1, MergeCounts
  <1>5. Explained'  BY <1>1, MergeExplains
  <1> QED BY <1>2, <1>3, <1>4, <1>5

(* The overall report takes the reports of the run and of the up ramp. *)
LEMMA MergeOwnStep ==
  ASSUME IInv, mergeOwn
  PROVE  IInv'
  <1> USE DEF IInv
  <1>1. step \in {8, 9} /\ step' = step + 1 /\ field' = field /\ field = 1
    BY SMTT(60), AtInstruction, Instructions, Numbers DEF mergeOwn, Aligned
  <1> DEFINE q == IF step = 8 THEN "run" ELSE "up"
             New == [f \in FieldNames |-> stats["all"][f] + stats[q][f]]
  <1>2. q \in {"run", "up"} /\ (step = 8 => q = "run") /\ (step = 9 => q = "up")  BY SMT
  <1>3. stats' = [stats EXCEPT !["all"] = New]
    <2>1. Instruction[2] = q /\ Instruction[3] = "all"
      BY SMTT(60), <1>1, Instructions DEF Instruction
    <2> QED BY <2>1 DEF mergeOwn
  <1> HIDE DEF q
  <1>4. New \in [FieldNames -> Nat]  BY SMT, <1>2, Numbers
  <1>5. \A f \in FieldNames : New[f] = stats["all"][f] + stats[q][f]  OBVIOUS
  <1> HIDE DEF New
  <1>6. /\ stats' \in [Objects -> [FieldNames -> Nat]]
        /\ \A f \in FieldNames : stats'["all"][f] = stats["all"][f] + stats[q][f]
        /\ stats'["live"] = stats["live"] /\ stats'["up"] = stats["up"]
        /\ stats'["run"] = stats["run"] /\ stats'["down"] = stats["down"]
    BY <1>3, <1>4, <1>5 DEF TypeOK, Objects, Phases
  <1>7. TypeOK'  BY SMTT(60), <1>1, <1>6, Instructions DEF TypeOK, mergeOwn
  <1>8. Aligned'  BY <1>1 DEF Aligned
  <1>9. \A k \in {1, 3, 5, 7}, f \in FieldNames : HasRead(k, f) /\ HasRead(k, f)'
    BY SMT, <1>1 DEF HasRead
  <1>10. \A f : ~Held(f) /\ ~Held(f)'  BY SMT, <1>1 DEF Held
  <1>11. Unread'  BY <1>9 DEF Unread
  <1>12. issued' = issued /\ slipped' = slipped /\ Pending' = Pending
    BY DEF mergeOwn, Pending
  <1>13. AtMostOnce'
    <2> SUFFICES ASSUME NEW f \in FieldNames
                 PROVE  /\ Ramps(f)' + stats'["live"][f] <= issued[f]
                        /\ stats'["down"][f] <= stats'["live"][f]
                        /\ step' = 9 => stats'["all"][f] + stats'["up"][f] <= issued[f]
                        /\ step' > 9 => stats'["all"][f] <= issued[f]
      BY SMTT(60), <1>1, <1>10, <1>12 DEF AtMostOnce
    <2>1. /\ stats["up"][f] + stats["run"][f] + stats["live"][f] <= issued[f]
          /\ stats["down"][f] <= stats["live"][f]
          /\ step <= 8 => stats["all"][f] <= stats["live"][f]
          /\ step = 9 => stats["all"][f] + stats["up"][f] <= issued[f]
      BY <1>10 DEF AtMostOnce, Ramps
    <2>2. CASE step = 8  BY SMTT(60), <1>1, <1>2, <1>6, <2>1, <2>2, Numbers DEF Ramps
    <2>3. CASE step = 9  BY SMTT(60), <1>1, <1>2, <1>6, <2>1, <2>3, Numbers DEF Ramps
    <2> QED BY <1>1, <2>2, <2>3
  <1>14. Accounted'  BY <1>6, <1>10, <1>12 DEF Accounted, Ramps
  <1>15. Explained'
    <2>1. {"count", "error", "transactions"} \subseteq FieldNames  BY DEF FieldNames
    <2> QED BY <1>6, <1>9, <1>12, <2>1 DEF Explained, ExplainedBy
  <1> QED BY <1>7, <1>8, <1>11, <1>13, <1>14, <1>15
(* reset() ends the windows of all fields. *)
LEMMA ResetStep ==
  ASSUME IInv, reset
  PROVE  IInv'
  <1> USE DEF IInv
  <1>1. step \in {2, 4} /\ step' = step + 1 /\ field' = field /\ field = 1
    BY SMTT(60), AtInstruction, Instructions, Numbers DEF reset, Aligned
  <1>2. Empty \in [FieldNames -> Nat] /\ \A f \in FieldNames : Empty[f] = 0  BY DEF Empty
  <1>3. /\ stats' \in [Objects -> [FieldNames -> Nat]]
        /\ \A f \in FieldNames : stats'["live"][f] = 0
        /\ stats'["all"] = stats["all"] /\ stats'["up"] = stats["up"]
        /\ stats'["run"] = stats["run"] /\ stats'["down"] = stats["down"]
    BY <1>2 DEF reset, TypeOK, Objects, Phases
  <1>4. TypeOK'  BY SMTT(60), <1>1, <1>3, Instructions DEF TypeOK, reset
  <1>5. Aligned'  BY <1>1 DEF Aligned
  <1>6. \A k \in {1, 3, 5, 7}, f \in FieldNames : HasRead(k, f)' <=> HasRead(k, f)
    <2>1. \A f \in FieldNames : Index(f) \in {1, 2, 3, 4}  BY Indices DEF FieldNames
    <2> QED BY SMT, <1>1, <2>1 DEF HasRead
  <1>7. \A f \in FieldNames : Held(f) /\ ~Held(f)'
    <2>1. \A f \in FieldNames : Index(f) \in {1, 2, 3, 4}  BY Indices DEF FieldNames
    <2> QED BY SMT, <1>1, <2>1 DEF Held, HasRead
  <1>8. issued' = issued /\ slipped' = slipped /\ Pending' = Pending
    BY DEF reset, Pending
  <1>9. Unread'  BY SMTT(60), <1>3, <1>6 DEF Unread
  <1>10. AtMostOnce'
    <2> SUFFICES ASSUME NEW f \in FieldNames
                 PROVE  /\ Ramps(f)' + stats'["live"][f] <= issued[f]
                        /\ stats'["down"][f] <= stats'["live"][f]
                        /\ stats'["all"][f] <= stats'["live"][f]
      BY SMTT(60), <1>1, <1>7, <1>8 DEF AtMostOnce
    <2>1. stats["up"][f] + stats["run"][f] <= issued[f]
      BY <1>7 DEF AtMostOnce, Ramps
    <2>2. stats["down"][f] = 0 /\ stats["all"][f] = 0
      BY SMT, <1>1 DEF Unread, HasRead
    <2> QED BY SMT, <1>3, <2>1, <2>2, Numbers DEF Ramps
  <1>11. Accounted'
    <2>1. "count" \in FieldNames /\ slipped \in Nat  BY DEF FieldNames, TypeOK
    <2>2. stats["up"]["count"] + stats["run"]["count"] + slipped = issued["count"]
      BY <1>7, <2>1 DEF Accounted, Ramps
    <2> QED BY SMTT(60), <1>3, <1>7, <1>8, <2>1, <2>2, Numbers DEF Accounted, Ramps
  <1>12. Explained'
    <2>1. {"count", "error", "transactions"} \subseteq FieldNames  BY DEF FieldNames
    <2>2. Cardinality(Pending) \in Nat  BY PendingFinite
    <2>3. \A k \in {1, 3, 5} : HasRead(k, "count") => HasRead(k, "error") /\ HasRead(k, "transactions")
      BY SMT, <1>1, Indices DEF HasRead
    <2>4. ASSUME NEW p \in Phases, NEW k \in {1, 3, 5}, ExplainedBy(p, k), stats'[p] = stats[p]
          PROVE  ExplainedBy(p, k)'
      <3>1. HasRead(k, "transactions") =>
              stats'[p]["count"] <= stats'[p]["error"] + stats'[p]["transactions"]
                                      + Cardinality(Clients)
        BY <2>4 DEF ExplainedBy
      <3>2. /\ HasRead(k, "error") => HasRead(k, "transactions")
            /\ HasRead(k, "count") => HasRead(k, "error")
        BY SMT, <1>1, <2>3, Indices DEF HasRead
      <3>3. \A f \in {"count", "error", "transactions"} : HasRead(k, f)' <=> HasRead(k, f)
        BY <1>6, <2>1
      <3> QED BY <3>1, <3>2, <3>3 DEF ExplainedBy
    <2>5. ExplainedBy("up", 1)' /\ ExplainedBy("run", 3)' /\ ExplainedBy("down", 5)'
      BY <1>3, <2>4 DEF Explained, Phases
    <2> QED BY SMTT(60), <1>3, <1>8, <2>1, <2>2, <2>5 DEF Explained
  <1> QED BY <1>4, <1>5, <1>9, <1>10, <1>11, <1>12

(* The two instructions that only move on. *)
LEMMA QuietSteps ==
  ASSUME IInv, setEndOfSimulation \/ display_stats
  PROVE  IInv'
  <1> USE DEF IInv
  <1>1. /\ step \in {6, 10} /\ step' = step + 1 /\ field' = field /\ field = 1
        /\ stats' = stats /\ issued' = issued /\ slipped' = slipped /\ pc' = pc
        /\ requests' = requests
    BY SMTT(60), AtInstruction, Instructions, Numbers DEF setEndOfSimulation,
       display_stats, Aligned
  <1>2. endOfSimulation' \in BOOLEAN  BY DEF setEndOfSimulation, display_stats, TypeOK
  <1>3. TypeOK'  BY SMTT(60), <1>1, <1>2, Instructions DEF TypeOK
  <1>4. Aligned'  BY <1>1 DEF Aligned
  <1>5. \A k \in {1, 3, 5, 7}, f \in FieldNames : HasRead(k, f)' <=> HasRead(k, f)
    <2>1. \A f \in FieldNames : Index(f) \in {1, 2, 3, 4}  BY Indices DEF FieldNames
    <2> QED BY SMT, <1>1, <2>1 DEF HasRead
  <1>6. \A f : ~Held(f) /\ ~Held(f)'  BY SMT, <1>1 DEF Held
  <1>7. Pending' = Pending  BY <1>1 DEF Pending
  <1>8. Unread'  BY <1>1, <1>5 DEF Unread
  <1>9. AtMostOnce'
    <2>1. CASE step = 6  BY SMTT(60), <1>1, <1>6, <2>1 DEF AtMostOnce, Ramps
    <2>2. CASE step = 10  BY SMTT(60), <1>1, <1>6, <2>2 DEF AtMostOnce, Ramps
    <2> QED BY <1>1, <2>1, <2>2
  <1>10. Accounted'  BY <1>1, <1>6 DEF Accounted, Ramps
  <1>11. Explained'
    <2>1. {"count", "error", "transactions"} \subseteq FieldNames  BY DEF FieldNames
    <2> QED BY SMTT(60), <1>1, <1>5, <1>7, <2>1 DEF Explained, ExplainedBy
  <1> QED BY <1>3, <1>4, <1>8, <1>9, <1>10, <1>11

(* The invariant holds before the first step. *)
LEMMA InitIInv ==
  ASSUME Init
  PROVE  IInv
  <1>1. \A o \in Objects, f \in FieldNames : stats[o][f] = 0 /\ issued[f] = 0
    BY DEF Init, Empty
  <1>2. TypeOK
    <2>1. Empty \in [FieldNames -> Nat]  BY DEF Empty
    <2>2. 0 \in 0 .. MaxRequests  BY SMT, StatsAssumption DEF StatsAssumption
    <2>3. stats \in [Objects -> [FieldNames -> Nat]] /\ issued \in [FieldNames -> Nat]
      BY <2>1 DEF Init
    <2>4. endOfSimulation \in BOOLEAN  BY DEF Init
    <2>5. /\ step \in 1 .. 11 /\ field \in 1 .. 4 /\ requests \in 0 .. MaxRequests
          /\ slipped \in Nat
      BY SMT, <2>2 DEF Init
    <2>6. pc \in [Clients -> {"idle", "call", "failed", "answered", "next", "done"}]
      BY DEF Init
    <2> QED BY SMT, <2>3, <2>4, <2>5, <2>6, Instructions DEF TypeOK
  <1>3. step = 1 /\ field = 1 /\ slipped = 0  BY DEF Init
  <1>4. \A f \in FieldNames : Index(f) \in {1, 2, 3, 4}  BY Indices DEF FieldNames
  <1>5. \A k \in {1, 3, 5, 7}, f \in FieldNames : ~HasRead(k, f)  BY SMT, <1>3,
     <1>4 DEF HasRead
  <1>6. \A f \in FieldNames : ~Held(f)  BY <1>3, <1>5 DEF Held
  <1>7. {"count", "error", "transactions"} \subseteq FieldNames  BY DEF FieldNames
  <1>8. Aligned /\ Unread  BY <1>1, <1>3 DEF Aligned, Unread, Objects, Phases
  <1>9. AtMostOnce /\ Accounted
    BY SMTT(60), <1>1, <1>3, <1>6, <1>7 DEF AtMostOnce, Accounted, Ramps, Objects, Phases
  <1>10. Explained
    BY SMTT(60), <1>1, <1>5, <1>7, PendingFinite DEF Explained, ExplainedBy, Objects
  <1> QED BY <1>2, <1>8, <1>9, <1>10 DEF IInv

(* Every step of the emulator keeps the invariant. *)
LEMMA StepIInv ==
  ASSUME IInv, [Next]_vars
  PROVE  IInv'
  <1>1. CASE Next
    BY <1>1, MergeStep, MergeOwnStep, ResetStep, QuietSteps, SessionSteps DEF Next
  <1>2. CASE UNCHANGED vars
    <2> USE <1>2 DEF vars, main
    <2>1. TypeOK'  BY DEF IInv, TypeOK
    <2>2. Aligned' /\ Unread' /\ AtMostOnce' /\ Accounted'
      BY DEF IInv, Aligned, Unread, AtMostOnce, Accounted, HasRead, Held, Ramps
    <2>3. Pending' = Pending  BY DEF Pending
    <2>4. Explained'  BY SMTT(60), <2>3 DEF IInv, Explained, ExplainedBy, HasRead
    <2> QED BY <2>1, <2>2, <2>4 DEF IInv
  <1> QED BY <1>1, <1>2

-----------------------------------------------------------------------------
(* The inductive invariant of the emulator's statistics. *)
THEOREM Invariance == Spec => []IInv
  <1> QED BY InitIInv, StepIInv, PTL DEF Spec

(* The objects of the statistics keep their types. *)
THEOREM StatsTypeCorrect == Spec => []TypeOK
  <1>1. IInv => TypeOK  BY DEF IInv
  <1> QED BY <1>1, Invariance, PTL

(* "As this is not atomic we may lose some stats here": the requests that  *)
(* are missing from a phase are exactly the ones counted while the main    *)
(* thread is between merge() and reset().                                  *)
THEOREM OnlyTheWindowLoses == Spec => []CountsAccounted
  <1>1. ASSUME IInv  PROVE CountsAccounted
    <2> USE <1>1 DEF IInv
    <2>1. InWindow <=> Held("count")  BY WindowOfCounts
    <2> QED BY <2>1 DEF CountsAccounted, Accounted, Ramps
  <1> QED BY <1>1, Invariance, PTL

(* No request, error, response or session is reported twice, neither over  *)
(* the phases nor in the overall report.                                   *)
THEOREM NothingIsReportedTwice == Spec => []NothingTwice
  <1>1. ASSUME IInv  PROVE NothingTwice
    <2> USE <1>1 DEF IInv
    <2> SUFFICES ASSUME Reported, NEW f \in FieldNames
                 PROVE  /\ stats["all"][f] <= issued[f]
                        /\ stats["up"][f] + stats["run"][f] + stats["down"][f] <= issued[f]
      BY DEF NothingTwice
    <2>1. step > 10  BY Instructions DEF Reported
    <2>2. ~Held(f)  BY SMT, <2>1, Numbers DEF Held
    <2>3. /\ stats["all"][f] <= issued[f] /\ stats["down"][f] <= stats["live"][f]
          /\ stats["up"][f] + stats["run"][f] + stats["live"][f] <= issued[f]
      BY SMTT(60), <2>1, <2>2, Numbers DEF AtMostOnce, Ramps
    <2> QED BY SMTT(60), <2>3, Numbers
  <1> QED BY <1>1, Invariance, PTL

(* A phase reports at most one unexplained request of each thread, since   *)
(* merge() reads the counts before the errors and the response times.      *)
THEOREM PhasesExplainTheirRequests == Spec => []CountsExplained
  <1>1. ASSUME IInv  PROVE CountsExplained
    <2> USE <1>1 DEF IInv
    <2>1. /\ Merged("up") => HasRead(1, "transactions")
          /\ Merged("run") => HasRead(3, "transactions")
          /\ Merged("down") => HasRead(5, "transactions")
      BY DEF Merged, HasRead
    <2> QED BY <2>1 DEF Explained, ExplainedBy, CountsExplained, Phases
  <1> QED BY <1>1, Invariance, PTL

-----------------------------------------------------------------------------
(* The session thread.  A current state and a history that fit together. *)
Sound(cur, stack) ==
  /\ cur \in Rows /\ cur # BackRow
  /\ stack \in Seq(Columns)
  /\ stack # <<>> => stack[1] \notin CanGoBack
  /\ cur \in CanGoBack => stack # <<>>

Errors == {"null", "ERROR"}   \* the failed replies that do not say "Sorry"

(* After such a reply the session is at the home page. *)
ErrorMeansHome ==
  /\ lastHTMLReply \in Errors => currentState = Home /\ arg = Home
  /\ afterError => Failed(lastHTMLReply)

SessionInv ==
  /\ SessionTypeOK
  /\ Sound(currentState, previousStates)
  /\ at \in {"loop", "compute"} => arg \in {currentState, NoState}
  /\ CountedIsRequested
  /\ ErrorMeansHome
  /\ NoNullDereference

-----------------------------------------------------------------------------
(* The home page has no Back, and it is an ordinary page. *)
LEMMA HomeFacts ==
  /\ Home \in Columns /\ Home \in Rows
  /\ Home \notin CanGoBack /\ Home # BackRow
BY TransitionAssumption, SMTT(60) DEF Home, Columns, Rows, CanGoBack, BackRow

(* What is left of a history, and what comes off it. *)
LEMMA PopFacts ==
  ASSUME NEW s \in Seq(Columns), s # <<>>
  PROVE  /\ Popped(s) \in Seq(Columns)
         /\ Top(s) \in Columns
         /\ Popped(s) # <<>> => Popped(s)[1] = s[1]
         /\ Popped(s) = <<>> => Top(s) = s[1]
<1> DEFINE n == Len(s)
<1>1. n \in Nat /\ n > 0
  BY SMTT(60)
<1> DEFINE rest == SubSeq(s, 1, n - 1)
<1>2. rest \in Seq(Columns) /\ Len(rest) = n - 1 /\ \A i \in 1 .. n - 1 : rest[i] = s[i]
  <2>1. 1 \in Int /\ n - 1 \in Int /\ \A i \in 1 .. n - 1 : s[i] \in Columns
    BY <1>1, SMTT(60)
  <2> HIDE DEF n
  <2> QED BY <1>1, <2>1, SMT
<1>3. Popped(s) = rest /\ Top(s) = s[n] /\ s[n] \in Columns
  BY <1>1, SMTT(60) DEF Popped, Top
<1> HIDE DEF rest
<1>4. rest # <<>> => n > 1
  BY <1>1, <1>2, SMTT(60)
<1>5. rest = <<>> => n = 1
  BY <1>1, <1>2, SMTT(60)
<1> QED BY <1>1, <1>2, <1>3, <1>4, <1>5, SMTT(60)

(* Going back keeps state and history fitting. *)
LEMMA SoundBack ==
  ASSUME NEW cur, NEW stack, Sound(cur, stack)
  PROVE  /\ Sound(BackFrom(cur, stack), Popped(stack))
         /\ Top(stack) \in {BackFrom(cur, stack), NoState}
<1>1. CASE stack = <<>>
  BY <1>1 DEF Sound, BackFrom, Popped, Top
<1>2. CASE stack # <<>>
  <2>1. stack \in Seq(Columns) /\ BackFrom(cur, stack) = Top(stack)
    BY <1>2 DEF Sound, BackFrom, Top
  <2>2. /\ Popped(stack) \in Seq(Columns)
        /\ Top(stack) \in Columns
        /\ Popped(stack) # <<>> => Popped(stack)[1] = stack[1]
        /\ Popped(stack) = <<>> => Top(stack) = stack[1]
    BY <1>2, <2>1, PopFacts
  <2>3. Top(stack) \in Rows /\ Top(stack) # BackRow
    BY <2>2, TransitionAssumption, SMTT(60) DEF Columns, Rows, BackRow
  <2> QED BY <1>2, <2>1, <2>2, <2>3 DEF Sound
<1> QED BY <1>1, <1>2

(* A reset to the home page fits any history. *)
LEMMA SoundHome ==
  ASSUME NEW cur, NEW stack, Sound(cur, stack)
  PROVE  Sound(Home, stack)
BY HomeFacts DEF Sound

(* nextState() keeps state and history fitting, Back included. *)
LEMMA SoundNext ==
  ASSUME Sound(currentState, previousStates), currentState \in Columns,
         NEW i \in Rows, nextState(i)
  PROVE  Sound(currentState, previousStates)'
<1>1. CASE i = BackRow
  <2>1. currentState \in CanGoBack
    BY <1>1 DEF nextState, CanGoBack, Sound
  <2>2. previousStates # <<>>
    BY <2>1 DEF Sound
  <2>3. currentState' = BackFrom(currentState, previousStates)
        /\ previousStates' = Popped(previousStates)
    BY <1>1, <2>2 DEF nextState, BackFrom, Top
  <2> QED BY <2>3, SoundBack
<1>2. CASE i # BackRow /\ i = EndRow
  <2>1. currentState' = EndRow /\ previousStates' = previousStates
    BY <1>2 DEF nextState
  <2>2. EndRow \notin CanGoBack
    BY TransitionAssumption, SMTT(60) DEF EndRow, CanGoBack, Columns
  <2> QED BY <1>2, <2>1, <2>2 DEF Sound
<1>3. CASE i # BackRow /\ i # EndRow /\ i \notin CanGoBack
  <2>1. currentState' = i /\ previousStates' = <<>>
    BY <1>3 DEF nextState
  <2> QED BY <1>3, <2>1, SMTT(60) DEF Sound
<1>4. CASE i # BackRow /\ i # EndRow /\ i \in CanGoBack
  <2>1. currentState' = i /\ previousStates' = Append(previousStates, currentState)
    BY <1>4 DEF nextState
  <2>2. previousStates \in Seq(Columns)
    BY DEF Sound
  <2>3. /\ previousStates' \in Seq(Columns)
        /\ previousStates' # <<>>
        /\ previousStates # <<>> => previousStates'[1] = previousStates[1]
        /\ previousStates = <<>> => previousStates'[1] = currentState
    BY <2>1, <2>2, SMTT(60)
  <2> QED BY <1>4, <2>1, <2>3 DEF Sound
<1> QED BY <1>1, <1>2, <1>3, <1>4

-----------------------------------------------------------------------------
(* One call of computeURLFromState(), given a state s that fits. *)
LEMMA ComputeStep ==
  ASSUME SessionInv, at = "compute",
         NEW s \in Rows \union {NoState}, NEW cur, NEW stack,
         Sound(cur, stack), s \in {cur, NoState},
         lastHTMLReply \in Errors => s = Home /\ cur = Home,
         Compute(s, cur, stack),
         UNCHANGED <<isEndOfSimulation, reply, afterError>>
  PROVE  SessionInv'
<1> USE HomeFacts
<1>0. /\ isEndOfSimulation' \in BOOLEAN
      /\ lastHTMLReply' \in Replies /\ offers' \in Pages \union {{}}
      /\ lastHTMLReply' = lastHTMLReply /\ afterError' = afterError
  BY DEF SessionInv, SessionTypeOK, reply
<1>h. ASSUME NoUrl, previousStates' = stack PROVE SessionInv'
  <2>1. currentState' = Home /\ page' = Home /\ at' = "call" /\ arg' = arg
    BY <1>h DEF NoUrl, Url
  <2>2. Sound(currentState, previousStates)'
    BY <1>h, <2>1, SoundHome DEF Sound
  <2>3. SessionTypeOK'
    BY <1>0, <2>1, <2>2 DEF SessionTypeOK, SessionInv, Sound
  <2>4. ErrorMeansHome'
    BY <1>0, <2>1, SMTT(60) DEF ErrorMeansHome, SessionInv
  <2> QED BY <2>1, <2>2, <2>3, <2>4 DEF SessionInv, CountedIsRequested,
     NoNullDereference
<1>b. ASSUME GoBack(cur, stack), lastHTMLReply \notin Errors PROVE SessionInv'
  <2>1. /\ arg' = Top(stack)
        /\ currentState' = BackFrom(cur, stack)
        /\ previousStates' = Popped(stack)
        /\ page' = page /\ at' = at
    BY <1>b DEF GoBack
  <2>2. Sound(currentState, previousStates)' /\ arg' \in {currentState', NoState}
    BY <2>1, SoundBack
  <2>3. SessionTypeOK'
    BY <1>0, <2>1, <2>2 DEF SessionTypeOK, SessionInv, Sound
  <2> QED BY <1>0, <1>b, <2>1, <2>2, <2>3, SMTT(60) DEF SessionInv, CountedIsRequested, ErrorMeansHome, NoNullDereference
<1>1. CASE s = NoState
  <2>1. NoUrl /\ previousStates' = stack
    BY <1>1, TransitionAssumption, SMTT(60) DEF Compute, NoState, LinkStates,
       FormStates, ReviewStates
  <2> QED BY <2>1, <1>h
<1>2. CASE s # NoState /\ s \in LinkStates /\ s \notin offers
  <2>1. GoBack(cur, stack)
    BY <1>2, TransitionAssumption, SMTT(60) DEF Compute, LinkStates, FormStates,
       ReviewStates
  <2>2. lastHTMLReply \notin Errors
    BY <1>2, SMTT(60) DEF LinkStates, Home
  <2> QED BY <1>b, <2>1, <2>2
<1>3. CASE s # NoState /\ s \in FormStates /\ s \notin offers
  <2>1. lastHTMLReply \notin Errors
    BY <1>3, SMTT(60) DEF FormStates, Home
  <2>2. NoForm(s, cur, stack)
    BY <1>3, TransitionAssumption, SMTT(60) DEF Compute, LinkStates, FormStates,
       ReviewStates
  <2>3. (NoUrl /\ previousStates' = stack) \/ GoBack(cur, stack)
    BY <2>1, <2>2 DEF NoForm, Errors
  <2> QED BY <2>1, <2>3, <1>h, <1>b
<1>4. CASE s # NoState /\ s \in ReviewStates /\ s \notin offers
  BY <1>4, <1>h, TransitionAssumption, SMTT(60) DEF Compute, LinkStates,
     FormStates, ReviewStates
<1>5. CASE /\ s # NoState /\ s >= nbRows - 2
           /\ ~(s \in LinkStates \union FormStates \union ReviewStates /\ s \notin offers)
  BY <1>5, <1>h DEF Compute
<1>6. CASE /\ s # NoState /\ ~(s >= nbRows - 2)
           /\ ~(s \in LinkStates \union FormStates \union ReviewStates /\ s \notin offers)
  <2>1. Url(s) /\ currentState' = cur /\ previousStates' = stack
    BY <1>6 DEF Compute
  <2>2. page' = s /\ at' = "call" /\ arg' = arg /\ s = cur
    BY <1>6, <2>1 DEF Url
  <2>3. s \in Columns
    BY <1>6, TransitionAssumption, SMTT(60) DEF Columns, Rows
  <2>4. Sound(currentState, previousStates)'
    BY <2>1
  <2>5. SessionTypeOK'
    BY <1>0, <2>1, <2>2, <2>3, <2>4 DEF SessionTypeOK, SessionInv, Sound
  <2>6. ErrorMeansHome'
    BY <1>0, <2>1, <2>2, SMTT(60) DEF ErrorMeansHome, SessionInv
  <2> QED BY <2>1, <2>2, <2>4, <2>5, <2>6 DEF SessionInv, CountedIsRequested,
     NoNullDereference
<1> QED
  <2>1. (s \in LinkStates /\ s \notin offers) \/ (s \in FormStates /\ s \notin offers)
        \/ (s \in ReviewStates /\ s \notin offers)
        \/ ~(s \in LinkStates \union FormStates \union ReviewStates /\ s \notin offers)
    OBVIOUS
  <2> QED BY <2>1, <1>1, <1>2, <1>3, <1>4, <1>5, <1>6

(* The invariant holds initially. *)
LEMMA InitSession == SessionInit => SessionInv
<1> SUFFICES ASSUME SessionInit PROVE SessionInv
  OBVIOUS
<1> USE HomeFacts
<1>1. previousStates \in Seq(Columns)
  BY SMTT(60) DEF SessionInit
<1>2. SessionTypeOK
  BY <1>1 DEF SessionInit, SessionTypeOK, Replies
<1>3. Sound(currentState, previousStates)
  BY <1>1 DEF SessionInit, Sound
<1> QED BY <1>2, <1>3 DEF SessionInit, SessionInv, CountedIsRequested, ErrorMeansHome,
   NoNullDereference

(* The invariant is inductive. *)
LEMMA StepSession == SessionInv /\ [SessionNext]_sessionVars => SessionInv'
<1> SUFFICES ASSUME SessionInv, [SessionNext]_sessionVars PROVE SessionInv'
  OBVIOUS
<1> USE HomeFacts
<1>1. CASE UNCHANGED sessionVars
  BY <1>1 DEF sessionVars, table, reply, SessionInv, SessionTypeOK, Sound, CountedIsRequested, ErrorMeansHome, NoNullDereference
<1>2. CASE EndSimulation
  BY <1>2 DEF EndSimulation, table, reply, SessionInv, SessionTypeOK, Sound,
     CountedIsRequested, ErrorMeansHome, NoNullDereference
<1>3. CASE StartSession
  <2>1. Sound(Home, previousStates)
    BY SoundHome, SMTT(60) DEF SessionInv
  <2> QED BY <1>3, <2>1 DEF StartSession, reply, SessionInv, SessionTypeOK, Sound,
     CountedIsRequested, ErrorMeansHome, NoNullDereference
<1>4. CASE StopThread
  BY <1>4 DEF StopThread, table, reply, SessionInv, SessionTypeOK, Sound,
     CountedIsRequested, ErrorMeansHome, NoNullDereference
<1>5. CASE LoopTest
  BY <1>5 DEF LoopTest, table, reply, SessionInv, SessionTypeOK, Sound,
     CountedIsRequested, ErrorMeansHome, NoNullDereference
<1>6. CASE computeURLFromState
  <2>0. at = "compute" /\ UNCHANGED <<isEndOfSimulation, reply, afterError>>
    BY <1>6 DEF computeURLFromState
  <2>1. CASE Sorry(lastHTMLReply)
    <3> DEFINE s == Top(previousStates)
               cur == BackFrom(currentState, previousStates)
               stack == Popped(previousStates)
    <3>1. Compute(s, cur, stack)
      BY <1>6, <2>1 DEF computeURLFromState
    <3>2. Sound(cur, stack) /\ s \in {cur, NoState}
      BY SoundBack, SMTT(60) DEF SessionInv
    <3>3. s \in Rows \union {NoState}
      BY <3>2 DEF Sound
    <3>4. lastHTMLReply \notin Errors
      BY <2>1 DEF Sorry, Errors
    <3> HIDE DEF s, cur, stack
    <3> QED BY <2>0, <3>1, <3>2, <3>3, <3>4, ComputeStep, SMTT(60)
  <2>2. CASE ~Sorry(lastHTMLReply)
    <3>1. Compute(arg, currentState, previousStates)
      BY <1>6, <2>2 DEF computeURLFromState
    <3>2. /\ Sound(currentState, previousStates)
          /\ arg \in {currentState, NoState}
          /\ arg \in Rows \union {NoState}
          /\ lastHTMLReply \in Errors => arg = Home /\ currentState = Home
      BY <2>0 DEF SessionInv, SessionTypeOK, ErrorMeansHome
    <3> QED BY <2>0, <3>1, <3>2, ComputeStep, SMTT(60)
  <2> QED BY <2>1, <2>2
<1>7. ASSUME NEW r \in Replies, NEW links \in Pages, callHTTPServer(r, links)
      PROVE  SessionInv'
  <2>1. /\ at = "call" /\ at' = "loop" /\ arg' = currentState'
        /\ lastHTMLReply' = r /\ page' = page /\ isEndOfSimulation' = isEndOfSimulation
        /\ afterError' = Failed(r)
        /\ offers' = IF r = "null" THEN {} ELSE links
    BY <1>7 DEF callHTTPServer, Offers
  <2>2. currentState \in Columns
    BY <2>1 DEF SessionInv, CountedIsRequested, SessionTypeOK
  <2>3. Sound(currentState, previousStates)'
    <3>1. CASE Failed(r)
      <4>1. currentState' = Home /\ previousStates' = previousStates
        BY <1>7, <3>1 DEF callHTTPServer
      <4> QED BY <4>1, SoundHome, SMTT(60) DEF SessionInv
    <3>2. CASE ~Failed(r)
      <4>1. PICK i \in Rows : nextState(i)
        BY <1>7, <3>2 DEF callHTTPServer
      <4> QED BY <4>1, <2>2, SoundNext, SMTT(60) DEF SessionInv
    <3> QED BY <3>1, <3>2
  <2>4. r \in Errors => currentState' = Home
    BY <1>7 DEF callHTTPServer, Failed, Errors
  <2>5. SessionTypeOK'
    BY <2>1, <2>3 DEF SessionTypeOK, SessionInv, Sound
  <2> QED BY <2>1, <2>3, <2>4, <2>5 DEF SessionInv, CountedIsRequested, ErrorMeansHome,
     NoNullDereference
<1> QED BY <1>1, <1>2, <1>3, <1>4, <1>5, <1>6, <1>7 DEF SessionNext, Step

(* A session's state and history always fit together. *)
THEOREM SessionInvariant == SessionSpec => []SessionInv
<1>1. SessionInit => SessionInv
  BY InitSession
<1>2. SessionInv /\ [SessionNext]_sessionVars => SessionInv'
  BY StepSession
<1> QED BY <1>1, <1>2, PTL DEF SessionSpec

(* The types of the session thread and its transition table. *)
THEOREM SessionTypeCorrect == SessionSpec => []SessionTypeOK
<1>1. SessionInv => SessionTypeOK
  BY DEF SessionInv
<1>2. SessionSpec => []SessionInv
  BY SessionInvariant
<1> QED BY <1>1, <1>2, PTL

(* nextState() never prints "Trying to go back but no previous state". *)
THEOREM BackNeverFails == SessionSpec => []BackAlwaysPossible
<1>1. SessionInv => BackAlwaysPossible
  BY DEF SessionInv, Sound, BackAlwaysPossible
<1>2. SessionSpec => []SessionInv
  BY SessionInvariant
<1> QED BY <1>1, <1>2, PTL

(* stats.incrementCount(next) is given the state that was requested. *)
THEOREM RequestsCountedRight == SessionSpec => []CountedIsRequested
<1>1. SessionInv => CountedIsRequested
  BY DEF SessionInv
<1>2. SessionSpec => []SessionInv
  BY SessionInvariant
<1> QED BY <1>1, <1>2, PTL

(* computeURLFromState() never looks into a null reply. *)
THEOREM NeverDereferencesNull == SessionSpec => []NoNullDereference
<1>1. SessionInv => NoNullDereference
  BY DEF SessionInv
<1>2. SessionSpec => []SessionInv
  BY SessionInvariant
<1> QED BY <1>1, <1>2, PTL

(* "If an error occured, reset to Home page": the page requested after an  *)
(* error is the home page, whatever the history of the session holds.      *)
THEOREM ErrorsLeadHome == SessionSpec => []HomeAfterError
<1>1. ASSUME SessionInv PROVE HomeAfterError
  <2>1. afterError /\ ~Sorry(lastHTMLReply) => lastHTMLReply \in Errors
    BY <1>1 DEF SessionInv, ErrorMeansHome, Failed, Sorry, Errors
  <2> QED BY <1>1, <2>1 DEF SessionInv, ErrorMeansHome, CountedIsRequested,
     HomeAfterError
<1>2. SessionSpec => []SessionInv
  BY SessionInvariant
<1> QED BY <1>1, <1>2, PTL
=============================================================================
