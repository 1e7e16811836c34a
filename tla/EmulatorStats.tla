---------------------------- MODULE EmulatorStats ----------------------------
(***************************************************************************)
(* The statistics of a client emulator: session threads (UserSession.run)  *)
(* add to one shared Stats object while the main thread (ClientEmulator)   *)
(* goes through the up ramp, the run and the down ramp, and between them   *)
(* merges that object into the Stats of the phase and resets it.           *)
(*                                                                         *)
(* Stats.merge() locks the object it adds to, not the one it reads: it     *)
(* reads field after field, each an action of its own here.  The entries   *)
(* of a Stats object do not interact, so one is modelled.  Its times are   *)
(* left out: they are added and merged with the transactions and sessions  *)
(* they belong to.                                                         *)
(***************************************************************************)
EXTENDS Integers, Sequences, FiniteSets

CONSTANTS
  Clients,      \* session threads
  MaxRequests,  \* bound: requests sent by all of them
  MaxSessions   \* bound: sessions ended by all of them

ASSUME StatsAssumption == IsFiniteSet(Clients) /\ MaxRequests \in Nat /\ MaxSessions \in Nat

Phases == {"up", "run", "down"}
Objects == Phases \union {"live", "all"}   \* live is the shared object stats

(* The fields of a Stats object, in the order merge() reads them. *)
Fields == <<"count", "error", "transactions", "nbSessions">>
FieldNames == {"count", "error", "transactions", "nbSessions"}

(* What the main thread does once the session threads are started. *)
Program ==
  << <<"merge", "live", "up">>,   <<"reset">>,
     <<"merge", "live", "run">>,  <<"reset">>,
     <<"merge", "live", "down">>, <<"setEndOfSimulation">>,
     <<"merge", "live", "all">>, <<"mergeOwn", "run", "all">>, <<"mergeOwn", "up", "all">>,
     <<"display_stats">> >>

VARIABLES
  stats,            \* the Stats objects
  step,             \* next instruction of the main thread
  field,            \* next field merge() reads
  endOfSimulation,
  pc,               \* where each session thread is
  requests,         \* requests sent so far
  issued,           \* history: what was ever added to each field of live
  slipped           \* history: count added between merge()'s read and reset()

main == <<step, field>>
vars == <<stats, main, endOfSimulation, pc, requests, issued, slipped>>

Empty == [f \in FieldNames |-> 0]

Init ==
  /\ stats = [o \in Objects |-> Empty]
  /\ step = 1 /\ field = 1
  /\ endOfSimulation = FALSE
  /\ pc = [c \in Clients |-> "idle"]
  /\ requests = 0
  /\ issued = Empty
  /\ slipped = 0

-----------------------------------------------------------------------------
(* Session threads *)

(* The main thread has read count for this phase and not yet reset it. *)
InWindow == /\ step \in 1 .. 4
            /\ step % 2 = 0 \/ field > 1

(* One synchronized method of the shared object adds 1 to the fields fs. *)
Add(fs) ==
  /\ stats' = [stats EXCEPT !["live"] = [f \in FieldNames |-> @[f] + (IF f \in fs THEN 1 ELSE 0)]]
  /\ issued' = [f \in FieldNames |-> issued[f] + (IF f \in fs THEN 1 ELSE 0)]
  /\ slipped' = slipped + (IF "count" \in fs /\ InWindow THEN 1 ELSE 0)

(* A new session, or the next request of this one. *)
NextRequest(c) ==
  /\ pc[c] \in {"idle", "next"} /\ ~endOfSimulation
  /\ requests < MaxRequests
  /\ requests' = requests + 1
  /\ pc' = [pc EXCEPT ![c] = "call"]
  /\ UNCHANGED <<stats, main, endOfSimulation, issued, slipped>>

incrementCount(c) ==
  /\ pc[c] = "call"
  /\ Add({"count"})
  /\ \E outcome \in {"failed", "answered"} : pc' = [pc EXCEPT ![c] = outcome]
  /\ UNCHANGED <<main, endOfSimulation, requests>>

incrementError(c) ==
  /\ pc[c] = "failed"
  /\ Add({"error"})
  /\ pc' = [pc EXCEPT ![c] = "next"]
  /\ UNCHANGED <<main, endOfSimulation, requests>>

updateTime(c) ==
  /\ pc[c] = "answered"
  /\ Add({"transactions"})
  /\ pc' = [pc EXCEPT ![c] = "next"]
  /\ UNCHANGED <<main, endOfSimulation, requests>>

(* The session has ended and is recorded. *)
addSessionTime(c) ==
  /\ pc[c] = "next" /\ issued["nbSessions"] < MaxSessions
  /\ Add({"nbSessions"})
  /\ pc' = [pc EXCEPT ![c] = "idle"]
  /\ UNCHANGED <<main, endOfSimulation, requests>>

(* run() returns; a session not at its end is aborted and not recorded. *)
Stop(c) ==
  /\ pc[c] \in {"idle", "next"} /\ endOfSimulation
  /\ pc' = [pc EXCEPT ![c] = "done"]
  /\ UNCHANGED <<stats, main, endOfSimulation, requests, issued, slipped>>

-----------------------------------------------------------------------------
(* The main thread *)

Instruction == Program[step]

(* Mutant: merge() reads the vectors first and the counts last. *)
merge_CountLast ==
  /\ step <= Len(Program) /\ Instruction[1] = "merge"
  /\ LET f == Fields[Len(Fields) + 1 - field]
     IN  stats' = [stats EXCEPT ![Instruction[3]][f] = @ + stats[Instruction[2]][f]]
  /\ IF field = Len(Fields) THEN field' = 1 /\ step' = step + 1
     ELSE field' = field + 1 /\ UNCHANGED step
  /\ UNCHANGED <<endOfSimulation, pc, requests, issued, slipped>>

(* One field of another object is read and added. *)
merge ==
  /\ step <= Len(Program) /\ Instruction[1] = "merge"
  /\ LET f == Fields[field]
     IN  stats' = [stats EXCEPT ![Instruction[3]][f] = @ + stats[Instruction[2]][f]]
  /\ IF field = Len(Fields) THEN field' = 1 /\ step' = step + 1
     ELSE field' = field + 1 /\ UNCHANGED step
  /\ UNCHANGED <<endOfSimulation, pc, requests, issued, slipped>>

(* An object of the main thread alone is read: nothing can come between. *)
mergeOwn ==
  /\ step <= Len(Program) /\ Instruction[1] = "mergeOwn"
  /\ stats' = [stats EXCEPT ![Instruction[3]] =
                 [f \in FieldNames |-> @[f] + stats[Instruction[2]][f]]]
  /\ step' = step + 1
  /\ UNCHANGED <<field, endOfSimulation, pc, requests, issued, slipped>>

(* Mutant: the shared object is not reset between two phases. *)
reset_Missing ==
  /\ step <= Len(Program) /\ Instruction[1] = "reset"
  /\ step' = step + 1
  /\ UNCHANGED <<stats, field, endOfSimulation, pc, requests, issued, slipped>>

reset ==
  /\ step <= Len(Program) /\ Instruction[1] = "reset"
  /\ stats' = [stats EXCEPT !["live"] = Empty]
  /\ step' = step + 1
  /\ UNCHANGED <<field, endOfSimulation, pc, requests, issued, slipped>>

setEndOfSimulation ==
  /\ step <= Len(Program) /\ Instruction[1] = "setEndOfSimulation"
  /\ endOfSimulation' = TRUE
  /\ step' = step + 1
  /\ UNCHANGED <<stats, field, pc, requests, issued, slipped>>

display_stats ==
  /\ step <= Len(Program) /\ Instruction[1] = "display_stats"
  /\ step' = step + 1
  /\ UNCHANGED <<stats, field, endOfSimulation, pc, requests, issued, slipped>>

Next ==
  \/ merge \/ mergeOwn \/ reset \/ setEndOfSimulation \/ display_stats
  \/ \E c \in Clients :
       \/ NextRequest(c) \/ incrementCount(c) \/ incrementError(c) \/ updateTime(c)
       \/ addSessionTime(c) \/ Stop(c)

Spec == Init /\ [][Next]_vars

-----------------------------------------------------------------------------
Reported == step > Len(Program)
Merged(p) == step > (CASE p = "up" -> 1 [] p = "run" -> 3 [] p = "down" -> 5)

(* Types of the Stats objects and of the threads. *)
TypeOK ==
  /\ stats \in [Objects -> [FieldNames -> Nat]]
  /\ step \in 1 .. Len(Program) + 1
  /\ field \in 1 .. Len(Fields)
  /\ endOfSimulation \in BOOLEAN
  /\ pc \in [Clients -> {"idle", "call", "failed", "answered", "next", "done"}]
  /\ requests \in 0 .. MaxRequests
  /\ issued \in [FieldNames -> Nat]
  /\ slipped \in Nat

(* "As this is not atomic we may lose some stats here": in each phase the  *)
(* counts of the phases before and of the shared object are all there is,  *)
(* but for requests counted between merge() and reset().                   *)
CountsAccounted ==
  ~InWindow /\ field = 1 =>
    stats["up"]["count"] + stats["run"]["count"] + stats["live"]["count"] + slipped
      = issued["count"]

(* Nothing is reported twice: neither the overall report nor the three     *)
(* phases together hold more of anything than the sessions recorded.       *)
NothingTwice ==
  Reported =>
    \A f \in FieldNames :
      /\ stats["all"][f] <= issued[f]
      /\ stats["up"][f] + stats["run"][f] + stats["down"][f] <= issued[f]

(* Since merge() reads the counts first, a phase reports no request        *)
(* without its error or response, but for one of each thread.              *)
CountsExplained ==
  \A p \in Phases :
    Merged(p) => stats[p]["count"] <= stats[p]["error"] + stats[p]["transactions"]
                                        + Cardinality(Clients)

=============================================================================
