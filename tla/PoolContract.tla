---------------------------- MODULE PoolContract ----------------------------
(***************************************************************************)
(* What a servlet may rely on when it asks its connection pool for a       *)
(* database connection: a connection is either free, in the hands of       *)
(* exactly one request, or gone (abandoned by a handler that returned      *)
(* without releasing it, or closed when the servlet is destroyed).  How    *)
(* the pool queues its callers, and who is woken when, is not visible      *)
(* here.  ConnectionPool, translated from RubbosHttpServlet.java, is shown *)
(* to implement this module.                                               *)
(***************************************************************************)
CONSTANTS Threads,  \* the container's worker threads
          Conns,    \* the connections opened by initializeConnections()
          NoConn    \* Java's null

VARIABLES free,     \* connections a request may be given
          held      \* the connection each thread holds, or NoConn

vars == <<free, held>>

Init == /\ free = Conns
        /\ held = [t \in Threads |-> NoConn]

(* getRWConnection() / getRConnection() returns. *)
Take(t) == /\ held[t] = NoConn
           /\ \E c \in free : /\ free' = free \ {c}
                              /\ held' = [held EXCEPT ![t] = c]

(* releaseRWConnection(c) / releaseRConnection(c). *)
Give(t) == /\ held[t] # NoConn
           /\ free' = free \union {held[t]}
           /\ held' = [held EXCEPT ![t] = NoConn]

(* The handler returns and the connection is never seen again. *)
Lose(t) == /\ held[t] # NoConn
           /\ held' = [held EXCEPT ![t] = NoConn]
           /\ UNCHANGED free

(* destroy() closes connections that are free. *)
Shut == /\ \E gone \in SUBSET free : free' = free \ gone
        /\ UNCHANGED held

Next == \/ Shut
        \/ \E t \in Threads : Take(t) \/ Give(t) \/ Lose(t)

Spec == Init /\ [][Next]_vars
=============================================================================
