--------------------------- MODULE ConnectionPool ---------------------------
(***************************************************************************)
(* The connection pool every RUBBoS servlet inherits from                  *)
(* RubbosHttpServlet.java.  Each servlet instance owns one pool: a vector  *)
(* of stacks of free connections, one stack per configured database, all   *)
(* guarded by the servlet object's monitor.  A synchronized method runs    *)
(* from its entry (or from the return of wait()) to its exit (or to the    *)
(* next wait()) without interference, and is one action here.              *)
(*                                                                         *)
(* Each worker thread serves a finite number of requests; a request gets   *)
(* one connection, uses it and releases it.  In the servlet classes that   *)
(* have a path which returns without releasing (AcceptStory.java:90-94,    *)
(* StoreComment.java:149-152) a request may instead abandon it.            *)
(***************************************************************************)
EXTENDS Integers, Sequences, SequencesExt

CONSTANTS
  Threads,                 \* worker threads of the container
  DatabasePropertiesSize,  \* Config.DatabasePropertiesSize
  poolSize,                \* getPoolSize(): connections opened per database
  NoConn,                  \* null
  HandlerMayLeak,          \* TRUE for a class with a path that never releases
  MaxRequests              \* bound: requests one worker thread serves

DbIndexes == 0 .. DatabasePropertiesSize - 1
readWriteIndex == 0
Conns == 1 .. DatabasePropertiesSize * poolSize

ASSUME PoolAssumption ==
  /\ DatabasePropertiesSize \in Nat \ {0}
  /\ poolSize \in Nat
  /\ MaxRequests \in Nat
  /\ HandlerMayLeak \in BOOLEAN
  /\ NoConn \notin Conns

VARIABLES
  databaseConnections,  \* one stack of free connections per database
  pc,        \* per thread: "idle", "waiting" in wait(), "notified" (out of
             \* wait(), not yet back in the monitor), "using" a connection
  tempStack, \* per thread: index of the stack it takes from
  conn,      \* per thread: the connection it holds, or NoConn
  todo,      \* per thread: requests still to serve
  closed,    \* connections closed by finalizeConnections()
  destroyed  \* destroy() has run

vars == <<databaseConnections, pc, tempStack, conn, todo, closed, destroyed>>

OnStack == UNION {Range(databaseConnections[j]) : j \in DbIndexes}
Held == {conn[t] : t \in Threads} \ {NoConn}
Known == OnStack \union Held \union closed

-----------------------------------------------------------------------------
(* initializeConnections() opens poolSize connections to each database and *)
(* pushes every one of them on stack 0, whatever its database.             *)
Init ==
  /\ databaseConnections =
       [j \in DbIndexes |-> IF j = 0 THEN [i \in Conns |-> i] ELSE <<>>]
  /\ pc = [t \in Threads |-> "idle"]
  /\ tempStack = [t \in Threads |-> readWriteIndex]
  /\ conn = [t \in Threads |-> NoConn]
  /\ todo \in [Threads -> 0 .. MaxRequests]
  /\ closed = {}
  /\ destroyed = FALSE

(* connectionLookup maps every connection to 0. *)
connectionLookup(c) == 0

(* The body of the get methods from the test of the while loop on: pop the *)
(* chosen stack, or wait() while it is empty.                              *)
PopOrWait(t, j) ==
  /\ tempStack' = [tempStack EXCEPT ![t] = j]
  /\ IF databaseConnections[j] = <<>>
     THEN /\ pc' = [pc EXCEPT ![t] = "waiting"]
          /\ UNCHANGED <<databaseConnections, conn>>
     ELSE /\ pc' = [pc EXCEPT ![t] = "using"]
          /\ conn' = [conn EXCEPT ![t] = Last(databaseConnections[j])]
          /\ databaseConnections' =
               [databaseConnections EXCEPT ![j] = Front(@)]

StartRequest(t) ==
  /\ pc[t] = "idle"
  /\ todo[t] > 0
  /\ ~destroyed
  /\ todo' = [todo EXCEPT ![t] = @ - 1]

getRWConnection(t) ==
  /\ StartRequest(t)
  /\ PopOrWait(t, readWriteIndex)
  /\ UNCHANGED <<closed, destroyed>>

(* Up to NumAttempts = 3 random stacks are tried and the first non-empty   *)
(* one is kept, else the last: any stack can be the one it settles on.     *)
getRConnection(t) ==
  /\ StartRequest(t)
  /\ \E j \in DbIndexes : PopOrWait(t, j)
  /\ UNCHANGED <<closed, destroyed>>

(* A thread that left wait() gets the monitor back and tests its stack     *)
(* again.                                                                  *)
ReenterMonitor(t) ==
  /\ pc[t] = "notified"
  /\ PopOrWait(t, tempStack[t])
  /\ UNCHANGED <<todo, closed, destroyed>>

(* wait() returns without a notification: an interrupt, which the loop     *)
(* catches, or a spurious wake-up.                                         *)
WaitInterrupted(t) ==
  /\ pc[t] = "waiting"
  /\ pc' = [pc EXCEPT ![t] = "notified"]
  /\ UNCHANGED <<databaseConnections, tempStack, conn, todo, closed, destroyed>>

(* Mutant: notify() wakes one waiting thread. *)
notifyAll_One(p) ==
  IF \E u \in Threads : p[u] = "waiting"
  THEN [p EXCEPT ![CHOOSE u \in Threads : p[u] = "waiting"] = "notified"]
  ELSE p

(* notifyAll(): every waiting thread leaves wait(). *)
notifyAll(p) == [u \in Threads |-> IF p[u] = "waiting" THEN "notified" ELSE p[u]]

(* Mutant: the handler keeps its reference after the release, so that the  *)
(* next closeConnection(stmt, conn) releases the same connection again.    *)
PushAndNotify_DoubleFree(t, j) ==
  /\ Len(databaseConnections[j]) < DatabasePropertiesSize * poolSize
  /\ databaseConnections' = [databaseConnections EXCEPT ![j] = Append(@, conn[t])]
  /\ pc' = IF databaseConnections[j] = <<>> THEN notifyAll(pc) ELSE pc
  /\ UNCHANGED conn

(* Push on stack j; the waiters are notified only if the stack was empty. *)
PushAndNotify(t, j) ==
  LET mustNotify == databaseConnections[j] = <<>>
      returned   == [pc EXCEPT ![t] = "idle"]
  IN  /\ databaseConnections' =
           [databaseConnections EXCEPT ![j] = Append(@, conn[t])]
      /\ pc' = IF mustNotify THEN notifyAll(returned) ELSE returned
      /\ conn' = [conn EXCEPT ![t] = NoConn]

releaseRConnection(t) ==
  /\ pc[t] = "using"
  /\ PushAndNotify(t, connectionLookup(conn[t]))
  /\ UNCHANGED <<tempStack, todo, closed, destroyed>>

releaseRWConnection(t) ==
  /\ pc[t] = "using"
  /\ PushAndNotify(t, readWriteIndex)
  /\ UNCHANGED <<tempStack, todo, closed, destroyed>>

(* The handler returns without calling a release method. *)
AbandonConnection(t) ==
  /\ HandlerMayLeak
  /\ pc[t] = "using"
  /\ pc' = [pc EXCEPT ![t] = "idle"]
  /\ conn' = [conn EXCEPT ![t] = NoConn]
  /\ UNCHANGED <<databaseConnections, tempStack, todo, closed, destroyed>>

(* destroy() runs once, after which the container starts no request, but   *)
(* requests in progress go on.  finalizeConnections() pops and closes what *)
(* is on the stacks, stack after stack, and ends early (destroy() swallows *)
(* the SQLException) when a close() throws: then stack j keeps the n - 1   *)
(* connections below the one that failed, and later stacks keep theirs.    *)
destroy ==
  /\ ~destroyed
  /\ destroyed' = TRUE
  /\ \/ databaseConnections' = [k \in DbIndexes |-> <<>>]
     \/ \E j \in DbIndexes : \E n \in 1 .. Len(databaseConnections[j]) :
          databaseConnections' =
            [k \in DbIndexes |->
               IF k < j THEN <<>>
               ELSE IF k = j THEN SubSeq(databaseConnections[k], 1, n - 1)
               ELSE databaseConnections[k]]
  /\ closed' = closed \union (OnStack \ OnStack')
  /\ UNCHANGED <<pc, tempStack, conn, todo>>

Next ==
  \/ destroy
  \/ \E t \in Threads :
       \/ getRWConnection(t) \/ getRConnection(t)
       \/ ReenterMonitor(t)  \/ WaitInterrupted(t)
       \/ releaseRConnection(t) \/ releaseRWConnection(t)
       \/ AbandonConnection(t)

Spec == Init /\ [][Next]_vars

(* Every thread that can run eventually runs: a thread in service starts   *)
(* its next request, one out of wait() gets the monitor, and a handler     *)
(* that has its connection finishes.                                       *)
Fairness ==
  \A t \in Threads : /\ WF_vars(getRWConnection(t) \/ getRConnection(t))
                     /\ WF_vars(ReenterMonitor(t))
                     /\ WF_vars(releaseRConnection(t) \/ releaseRWConnection(t))

FairSpec == Spec /\ Fairness

-----------------------------------------------------------------------------
(* The types of the fields and locals; a handler that is past the get      *)
(* method has a real connection, never null, and only such a handler does. *)
TypeOK ==
  /\ databaseConnections \in [DbIndexes -> Seq(Conns)]
  /\ pc \in [Threads -> {"idle", "waiting", "notified", "using"}]
  /\ tempStack \in [Threads -> DbIndexes]
  /\ conn \in [Threads -> Conns \union {NoConn}]
  /\ todo \in [Threads -> 0 .. MaxRequests]
  /\ closed \subseteq Conns
  /\ destroyed \in BOOLEAN
  /\ \A t \in Threads : pc[t] = "using" <=> conn[t] # NoConn

(* Two requests never share a connection: one that is in use is not on a   *)
(* stack nor in other hands, none is stacked twice, and none that          *)
(* finalizeConnections() closed is in use or can be handed out.            *)
ExclusiveUse ==
  /\ \A t, u \in Threads : conn[t] = conn[u] /\ conn[t] # NoConn => t = u
  /\ \A j \in DbIndexes : IsInjective(databaseConnections[j])
  /\ \A j, k \in DbIndexes : j # k =>
       Range(databaseConnections[j]) \intersect Range(databaseConnections[k]) = {}
  /\ OnStack \intersect Held = {}
  /\ closed \intersect (OnStack \union Held) = {}

(* Notifying only when the stack was empty, and everybody then, loses no   *)
(* wake-up: nobody stays in wait() while the stack it waits for has a      *)
(* connection (the mustNotify test of the release methods).                *)
NoLostWakeup ==
  \A t \in Threads :
    pc[t] = "waiting" => databaseConnections[tempStack[t]] = <<>>

(* Only stack 0 ever holds a connection, however many databases are        *)
(* configured: initializeConnections() and connectionLookup both say 0.    *)
SecondaryStacksEmpty ==
  \A j \in DbIndexes \ {0} : databaseConnections[j] = <<>>

(* Only a handler that returns without releasing loses a connection: every *)
(* other step, a shutdown that stops half way and releases after it        *)
(* included, leaves each one on a stack, in use, or closed.                *)
NothingLost == [][Known' = Known \/ \E t \in Threads : AbandonConnection(t)]_vars

(* The pool implements its contract: what is free is what is on a stack.   *)
Contract == INSTANCE PoolContract WITH free <- OnStack, held <- conn
ImplementsContract == Contract!Spec

(* Unless the servlet is destroyed or a handler abandons its connection,   *)
(* every request of a finite load is served although wake-ups are not      *)
(* handed over in any order: in the end only readers are left over that    *)
(* getRConnection() made wait for another stack than 0.                    *)
EveryRequestServed ==
  \/ <>(destroyed \/ Known # Conns)
  \/ <>[](\A t \in Threads : \/ pc[t] = "idle" /\ todo[t] = 0
                             \/ pc[t] \in {"waiting", "notified"} /\ tempStack[t] # 0)
=============================================================================
