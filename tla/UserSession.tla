----------------------------- MODULE UserSession -----------------------------
(***************************************************************************)
(* One emulated user: the run() loop of UserSession.java together with its *)
(* TransitionTable, the Markov chain over pages with a history stack for   *)
(* the browser's Back button.  A page is computed from the state and from  *)
(* the last HTML reply, which may lack the link or form the state needs;   *)
(* computeURLFromState() then goes back, itself recursively, gives up, or  *)
(* goes home.  Each recursive call is one step here.                       *)
(*                                                                         *)
(* Probabilities become the set of transitions that are not 0.  A reply is *)
(* abstracted to what the session looks for in it.                         *)
(***************************************************************************)
EXTENDS Integers, Sequences

CONSTANTS
  nbRows,              \* rows of the table: the states, Back, End of Session
  transitions,         \* pairs <<from, to>> with a probability that is not 0
  maxNbOfTransitions,  \* workload_maximum_number_of_transitions
  MaxUserSessions,     \* bound: sessions of this thread
  Pages                \* for each kind of reply, the states it has a link or form for

Home == 0
BackRow == nbRows - 2
EndRow == nbRows - 1
Columns == 0 .. nbRows - 3
Rows == 0 .. nbRows - 1
NoState == -1

(* The table files of the workload have no Back from the home page, and    *)
(* every state the code names, up to 23, is a page of the table.           *)
ASSUME TransitionAssumption ==
  /\ nbRows \in Nat /\ nbRows > 25
  /\ transitions \subseteq Columns \X Rows
  /\ <<Home, BackRow>> \notin transitions
  /\ maxNbOfTransitions \in Nat /\ MaxUserSessions \in Nat
  /\ Pages \subseteq SUBSET Columns

CanGoBack == {s \in Columns : <<s, BackRow>> \in transitions}

LinkStates == {7, 10, 11}      \* need a link of the last reply, else go back
FormStates == {8, 9, 12, 14}   \* need a form of the last reply, else no URL
ReviewStates == {22, 23}       \* need a story to review, else go home

(* null, or a page: an error, "Sorry", both in one text, or neither. *)
Replies == {"null", "ERROR", "ERROR: Sorry", "Sorry", "ok"}
(* What the extract methods find in a reply. *)
Offers(r, links) == IF r = "null" THEN {} ELSE links
Sorry(r) == r \in {"ERROR: Sorry", "Sorry"}
Failed(r) == r \in {"null", "ERROR", "ERROR: Sorry"}

VARIABLES
  isEndOfSimulation, \* ClientEmulator.endOfSimulation
  currentState, previousStates,      \* TransitionTable
  at,               \* where run() is
  arg,              \* the state computeURLFromState() is called with
  page,             \* the page lastURL is for
  lastHTMLReply,
  offers,           \* the states whose link or form is in the last reply
  nbOfTransitions,
  afterError,       \* history: the last reply was an error
  sessions          \* sessions started so far

table == <<currentState, previousStates>>
reply == <<lastHTMLReply, offers>>
sessionVars == <<isEndOfSimulation, table, at, arg, page, reply, nbOfTransitions,
          afterError, sessions>>

SessionInit ==
  /\ isEndOfSimulation = FALSE
  /\ currentState = Home /\ previousStates = <<>>
  /\ at = "session"
  /\ arg = Home
  /\ page = Home
  /\ lastHTMLReply = "null" /\ offers = {}
  /\ nbOfTransitions = 0
  /\ afterError = FALSE
  /\ sessions = 0

-----------------------------------------------------------------------------
(* TransitionTable *)

Top(stack) == IF stack = <<>> THEN NoState ELSE stack[Len(stack)]
Popped(stack) == IF stack = <<>> THEN <<>> ELSE SubSeq(stack, 1, Len(stack) - 1)
BackFrom(cur, stack) == IF stack = <<>> THEN cur ELSE stack[Len(stack)]

isEndOfSession == currentState = EndRow

(* Mutant: the state entered is pushed instead of the one left. *)
nextState_PushesNew(i) ==
  /\ i = currentState \/ <<currentState, i>> \in transitions
  /\ IF i = BackRow
     THEN /\ currentState' = IF previousStates = <<>> THEN BackRow ELSE Top(previousStates)
          /\ previousStates' = Popped(previousStates)
     ELSE /\ currentState' = i
          /\ previousStates' = IF i = EndRow THEN previousStates
                               ELSE Append(previousStates, i)

(* i is the row the random number selects, or the current state if the     *)
(* row sums to less than the number.  Entering a state without Back clears *)
(* the history, any other pushes the state left.                           *)
nextState(i) ==
  /\ i = currentState \/ <<currentState, i>> \in transitions
  /\ IF i = BackRow
     THEN /\ currentState' = IF previousStates = <<>> THEN BackRow ELSE Top(previousStates)
          /\ previousStates' = Popped(previousStates)
     ELSE /\ currentState' = i
          /\ previousStates' = IF i = EndRow THEN previousStates
                               ELSE IF i \notin CanGoBack THEN <<>>
                               ELSE Append(previousStates, currentState)

-----------------------------------------------------------------------------
(* UserSession.run() *)

EndSimulation ==
  /\ ~isEndOfSimulation
  /\ isEndOfSimulation' = TRUE
  /\ UNCHANGED <<table, at, arg, page, reply, nbOfTransitions,
                 afterError, sessions>>

(* The outer loop: a new user, from the home page. *)
StartSession ==
  /\ at = "session" /\ ~isEndOfSimulation
  /\ sessions < MaxUserSessions
  /\ sessions' = sessions + 1
  /\ nbOfTransitions' = maxNbOfTransitions
  /\ currentState' = Home
  /\ arg' = Home
  /\ at' = "loop"
  /\ UNCHANGED <<isEndOfSimulation, previousStates, page, reply, afterError>>

StopThread ==
  /\ at = "session" /\ isEndOfSimulation
  /\ at' = "done"
  /\ UNCHANGED <<isEndOfSimulation, table, arg, page, reply, nbOfTransitions,
                 afterError, sessions>>

(* The inner loop goes on, or the session ends. *)
LoopTest ==
  /\ at = "loop"
  /\ at' = IF ~isEndOfSimulation /\ ~isEndOfSession /\ nbOfTransitions > 0
           THEN "compute" ELSE "session"
  /\ UNCHANGED <<isEndOfSimulation, table, arg, page, reply, nbOfTransitions,
                 afterError, sessions>>

(* The URL of page p is ready. *)
Url(p) == page' = p /\ at' = "call" /\ UNCHANGED arg

(* No URL: run() restarts from the home page. *)
NoUrl == currentState' = Home /\ Url(Home)

(* computeURLFromState(transition.backToPreviousState()) *)
GoBack(cur, stack) ==
  /\ arg' = Top(stack)
  /\ currentState' = BackFrom(cur, stack)
  /\ previousStates' = Popped(stack)
  /\ UNCHANGED <<page, at>>

(* No form of state s: null for run() to handle.  State 8 tests for a null *)
(* reply, and goes back from a link that lacks a parameter; the others     *)
(* search the reply without a test.                                        *)
NoForm(s, cur, stack) ==
  \/ /\ lastHTMLReply = "null" /\ s # 8
     /\ at' = "crash" /\ currentState' = cur /\ previousStates' = stack
     /\ UNCHANGED <<arg, page>>
  \/ /\ lastHTMLReply # "null" \/ s = 8
     /\ NoUrl /\ previousStates' = stack
  \/ /\ lastHTMLReply # "null" /\ s = 8
     /\ GoBack(cur, stack)

(* Mutant: getPreviousState() where backToPreviousState() is meant. *)
Compute_Peeks(s, cur, stack) ==
  CASE s = NoState -> NoUrl /\ previousStates' = stack
    [] s \in LinkStates /\ s \notin offers ->
         /\ arg' = Top(stack)
         /\ currentState' = BackFrom(cur, stack)
         /\ previousStates' = stack
         /\ UNCHANGED <<page, at>>
    [] s \in FormStates /\ s \notin offers -> NoForm(s, cur, stack)
    [] s \in ReviewStates /\ s \notin offers -> NoUrl /\ previousStates' = stack
    [] s >= nbRows - 2 -> NoUrl /\ previousStates' = stack
    [] OTHER -> Url(s) /\ currentState' = cur /\ previousStates' = stack

(* What one call of computeURLFromState() does in state s, with cur and    *)
(* stack what the table then holds.                                        *)
Compute(s, cur, stack) ==
  CASE s = NoState -> NoUrl /\ previousStates' = stack
    [] s \in LinkStates /\ s \notin offers -> GoBack(cur, stack)
    [] s \in FormStates /\ s \notin offers -> NoForm(s, cur, stack)
    [] s \in ReviewStates /\ s \notin offers -> NoUrl /\ previousStates' = stack
    [] s >= nbRows - 2 -> NoUrl /\ previousStates' = stack
    [] OTHER -> Url(s) /\ currentState' = cur /\ previousStates' = stack

computeURLFromState ==
  /\ at = "compute"
  /\ IF Sorry(lastHTMLReply)
     THEN Compute(Top(previousStates), BackFrom(currentState, previousStates),
                  Popped(previousStates))
     ELSE Compute(arg, currentState, previousStates)
  /\ UNCHANGED <<isEndOfSimulation, reply, nbOfTransitions, afterError, sessions>>

(* Mutant: after an error the state is not reset. *)
callHTTPServer_NoReset(r, links) ==
  /\ at = "call"
  /\ lastHTMLReply' = r
  /\ offers' = Offers(r, links)
  /\ IF Failed(r) THEN UNCHANGED table ELSE \E i \in Rows : nextState(i)
  /\ arg' = currentState'
  /\ nbOfTransitions' = nbOfTransitions - 1
  /\ afterError' = Failed(r)
  /\ at' = "loop"
  /\ UNCHANGED <<isEndOfSimulation, page, sessions>>

(* The request, counted under the current state; null after five failed    *)
(* attempts to connect or a broken reply.  Then home after an error, or on *)
(* to the next state.                                                      *)
callHTTPServer(r, links) ==
  /\ at = "call"
  /\ lastHTMLReply' = r
  /\ offers' = Offers(r, links)
  /\ IF Failed(r) THEN currentState' = Home /\ UNCHANGED previousStates
     ELSE \E i \in Rows : nextState(i)
  /\ arg' = currentState'
  /\ nbOfTransitions' = nbOfTransitions - 1
  /\ afterError' = Failed(r)
  /\ at' = "loop"
  /\ UNCHANGED <<isEndOfSimulation, page, sessions>>

Step ==
  \/ StopThread \/ LoopTest \/ computeURLFromState
  \/ \E r \in Replies, links \in Pages : callHTTPServer(r, links)

SessionNext == EndSimulation \/ StartSession \/ Step

SessionSpec == SessionInit /\ [][SessionNext]_sessionVars

(* The thread is scheduled, the server answers or the connection breaks,   *)
(* and the emulator's main thread ends the simulation.                     *)
FairSessionSpec == SessionSpec /\ WF_sessionVars(Step) /\ WF_sessionVars(EndSimulation)

-----------------------------------------------------------------------------
(* Types of the table, of run()'s locals and of the history. *)
SessionTypeOK ==
  /\ isEndOfSimulation \in BOOLEAN
  /\ currentState \in Rows
  /\ previousStates \in Seq(Columns)
  /\ at \in {"session", "loop", "compute", "call", "done", "crash"}
  /\ arg \in Rows \union {NoState}
  /\ page \in Columns
  /\ lastHTMLReply \in Replies
  /\ offers \in Pages \union {{}}

(* "Error detected: Trying to go back but no previous state is available"  *)
(* is never printed: Back is not chosen with an empty history, whatever    *)
(* the replies, errors and recursive Backs of earlier sessions left there. *)
BackAlwaysPossible == currentState # BackRow

(* A request is counted under the state whose page was requested, although *)
(* computing the URL may have moved the state.                             *)
CountedIsRequested == at = "call" => page = currentState

(* A form is never looked for in a null reply (a NullPointerException that *)
(* would end the thread).                                                  *)
NoNullDereference == at # "crash"

(* Going back recursively comes to an end, and once the simulation is over *)
(* the thread stops.                                                       *)
ThreadStops == isEndOfSimulation ~> at = "done"

(* "If an error occured, reset to Home page": what is requested after an   *)
(* error is the home page, unless the reply with the error says "Sorry"    *)
(* too, which computeURLFromState() takes as a reason to go back.          *)
HomeAfterError == at = "call" /\ afterError /\ ~Sorry(lastHTMLReply) => page = Home
=============================================================================
