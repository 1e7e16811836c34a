----------------------------- MODULE AjpWorker -----------------------------
(***************************************************************************)
(* mod_jk's ajp13 worker in one httpd child: the request threads that pass *)
(* requests to Tomcat, and the cache of connections that they share.       *)
(*                                                                         *)
(* A thread takes an endpoint (a slot of the cache), sends its request on  *)
(* the slot's socket, on a socket stolen from another slot or on a new     *)
(* one, hands the reply on to the client, tries again when the attempt     *)
(* failed and may be repeated, and gives the endpoint back.  What Tomcat   *)
(* does is external.  A message is known by the attempt it belongs to: a   *)
(* request with the number of the try.  CPING/CPONG is left out, as none   *)
(* of its timeouts is configured (workers.properties), and so are the      *)
(* shared-memory changes of a worker's address.                            *)
(***************************************************************************)
EXTENDS Integers, Sequences, FiniteSets

CONSTANTS
  Threads,         \* request threads of the child
  Uploads,         \* requests with a body; they are POSTs, the others GETs
  retries,
  Configurations,  \* of the worker: those considered
  MaxRequests,     \* bound: requests
  MaxFaults        \* bound: connections closed by Tomcat, ends of Tomcat

ASSUME AjpAssumption ==
  /\ IsFiniteSet(Threads)
  /\ retries \in Nat \ {0} /\ MaxRequests \in Nat /\ MaxFaults \in Nat
  /\ Configurations \subseteq
       [ep_cache_sz : Nat \ {0},
        recovery_opts : SUBSET {"TCGETREQUEST", "TCSENDHEADER", "HEAD", "GET"},
        cache_timeout : BOOLEAN,     \* whether ajp_maintain closes idle connections
        reply_timeout : BOOLEAN]     \* whether there is one
  /\ Uploads \subseteq 1 .. MaxRequests

Requests == 1 .. MaxRequests
Attempts == Requests \X (1 .. retries)

VARIABLES
  config,                        \* what ajp_init read from workers.properties
  sd, avail, reuse, last_op,     \* of the endpoints; sd 0 is no socket
  connected, busy,               \* the worker's counters
  m_sock,                        \* sockets that ajp_maintain is to close
  pc, slot, req, try,            \* of the threads: where, with which endpoint,
  recoverable, headeratclient,   \*   for which request, in which attempt
  posted,                        \* op->post holds the first part of the body
  next,                          \* the next request to arrive
  up,                            \* Tomcat is running
  conn,                          \* the connections, by socket
  orphans,                       \* requests on connections closed by mod_jk
  faults,
  executed,                      \* how often Tomcat executed a request
  client                         \* the attempts that a thread's client has data from

epVars == <<sd, avail, reuse, last_op>>
tomcatVars == <<up, conn, orphans, faults, executed>>
requestVars == <<req, try, recoverable, headeratclient, posted>>
vars == <<config, epVars, connected, busy, m_sock, pc, slot, requestVars, next,
          tomcatVars, client>>

ep_cache_sz == config.ep_cache_sz
recovery_opts == config.recovery_opts

Slots == 1 .. ep_cache_sz
\* Every slot and every socket being closed has at most one.
Sockets == 1 .. 2 * ep_cache_sz

\* A connection: Tomcat's end, the attempts Tomcat has not read yet, the one
\* it works on, and the messages under way to mod_jk.
NoJob == [a |-> <<0, 0>>, stage |-> "none"]
NoConn == [peer |-> "none", inbox |-> <<>>, job |-> NoJob, wire |-> <<>>]
NewConn == [NoConn EXCEPT !.peer = "open"]

Init ==
  /\ config \in Configurations
  /\ sd = [s \in Slots |-> 0]
  /\ avail = [s \in Slots |-> TRUE]
  /\ reuse = [s \in Slots |-> FALSE]
  /\ last_op = [s \in Slots |-> "END_RESPONSE"]
  /\ connected = 0 /\ busy = 0 /\ m_sock = {}
  /\ pc = [t \in Threads |-> "idle"]
  /\ slot = [t \in Threads |-> 0]
  /\ req = [t \in Threads |-> 0]
  /\ try = [t \in Threads |-> 0]
  /\ recoverable = [t \in Threads |-> TRUE]
  /\ headeratclient = [t \in Threads |-> FALSE]
  /\ posted = [t \in Threads |-> FALSE]
  /\ next = 1
  /\ up = TRUE
  /\ conn = [k \in Sockets |-> NoConn]
  /\ orphans = {} /\ faults = 0
  /\ executed = [r \in Requests |-> 0]
  /\ client = [t \in Threads |-> {}]

---------------------------------------------------------------------------
(* Connections, as mod_jk uses them *)

Min(S) == CHOOSE x \in S : \A y \in S : x <= y

own(t) == sd[slot[t]]
At(t, p) == pc' = [pc EXCEPT ![t] = p]
Attempt(t) == <<req[t], try[t]>>

\* Closing sockets: what Tomcat has not read yet it may still read and execute.
CloseAll(K) ==
  /\ conn' = [k \in Sockets |-> IF k \in K THEN NoConn ELSE conn[k]]
  /\ orphans' = orphans \union UNION {{conn[k].inbox[i] : i \in DOMAIN conn[k].inbox} : k \in K}
  /\ connected' = connected - Cardinality(K)

\* ajp_abort_endpoint, and with it the socket's closing if it is valid.
ajp_abort_endpoint(s) ==
  /\ CloseAll({sd[s]} \ {0})
  /\ sd' = [sd EXCEPT ![s] = 0]
  /\ last_op' = [last_op EXCEPT ![s] = "END_RESPONSE"]

Cached == {s \in Slots : avail[s] /\ sd[s] # 0}

(* Mutant: the robbed endpoint keeps its socket. *)
ajp_next_connection_Shared(s) ==
  /\ CloseAll({sd[s]} \ {0})
  /\ sd' = [sd EXCEPT ![s] = IF Cached = {} THEN 0 ELSE sd[Min(Cached)]]

\* Closes the own socket, and takes the socket of the first idle endpoint.
ajp_next_connection(s) ==
  /\ CloseAll({sd[s]} \ {0})
  /\ sd' = IF Cached = {} THEN [sd EXCEPT ![s] = 0]
                          ELSE [sd EXCEPT ![s] = sd[Min(Cached)], ![Min(Cached)] = 0]

\* There is input, or no sign of the other end's having closed.
jk_is_socket_connected(k) == conn[k].peer = "open" \/ conn[k].wire # <<>>

\* Sending to a closed peer may still seem to work, and what is sent is lost.
SendWorks(k, c) == conn' = [conn EXCEPT ![k] = IF @.peer = "open" THEN c ELSE @]
SendFails(s) == conn[sd[s]].peer = "closed" /\ ajp_abort_endpoint(s)

---------------------------------------------------------------------------
(* The request threads: jk_handler *)

\* The first endpoint with a reusable connection, else the first free one.
\* Connections that are not reusable and come before it are closed.
ajp_get_endpoint(t) ==
  LET reusable == {s \in Cached : reuse[s]}
      stale == {s \in Cached \ reusable : \A u \in reusable : s < u}
      free == {s \in Slots : avail[s]}
      s == IF reusable # {} THEN Min(reusable) ELSE Min(free)
  IN /\ pc[t] = "idle" /\ next \in Requests /\ free # {}
     /\ CloseAll({sd[x] : x \in stale})
     /\ sd' = [x \in Slots |-> IF x \in stale THEN 0 ELSE sd[x]]
     /\ last_op' = [x \in Slots |-> IF x \in stale THEN "END_RESPONSE" ELSE last_op[x]]
     /\ avail' = [avail EXCEPT ![s] = FALSE]
     /\ slot' = [slot EXCEPT ![t] = s]
     /\ req' = [req EXCEPT ![t] = next]
     /\ next' = next + 1
     /\ At(t, "service")
     /\ UNCHANGED <<config, reuse, busy, m_sock, try, recoverable, headeratclient,
                    posted, up, faults, executed, client>>

\* No endpoint became free within cache_acquire_timeout.
NoEndpoint(t) ==
  /\ pc[t] = "idle" /\ next \in Requests
  /\ \A s \in Slots : ~ avail[s]
  /\ next' = next + 1
  /\ UNCHANGED <<config, epVars, connected, busy, m_sock, pc, slot, requestVars,
                 tomcatVars, client>>

(* Mutant: the endpoint is not marked as unusable for the time of the request. *)
ajp_service_KeepsReuse(t) ==
  /\ pc[t] = "service"
  /\ recoverable' = [recoverable EXCEPT ![t] = TRUE]
  /\ posted' = [posted EXCEPT ![t] = FALSE]
  /\ try' = [try EXCEPT ![t] = 1]
  /\ \/ busy' = busy + 1 /\ At(t, "send")
     \/ At(t, "done") /\ UNCHANGED busy
  /\ UNCHANGED <<config, epVars, connected, m_sock, slot, req,
                 headeratclient, next, tomcatVars, client>>

(* Mutant: a request that is too large is counted as busy for ever. *)
ajp_service_BusyFirst(t) ==
  /\ pc[t] = "service"
  /\ reuse' = [reuse EXCEPT ![slot[t]] = FALSE]
  /\ recoverable' = [recoverable EXCEPT ![t] = TRUE]
  /\ posted' = [posted EXCEPT ![t] = FALSE]
  /\ try' = [try EXCEPT ![t] = 1]
  /\ busy' = busy + 1
  /\ At(t, "send") \/ At(t, "done")
  /\ UNCHANGED <<config, sd, avail, last_op, connected, m_sock, slot, req,
                 headeratclient, next, tomcatVars, client>>

\* ajp_service up to its loop.
ajp_service(t) ==
  /\ pc[t] = "service"
  /\ reuse' = [reuse EXCEPT ![slot[t]] = FALSE]
  /\ recoverable' = [recoverable EXCEPT ![t] = TRUE]
  /\ posted' = [posted EXCEPT ![t] = FALSE]
  /\ try' = [try EXCEPT ![t] = 1]
  /\ \/ busy' = busy + 1 /\ At(t, "send")
     \/ At(t, "done") /\ UNCHANGED busy   \* the request is too large
  /\ UNCHANGED <<config, sd, avail, last_op, connected, m_sock, slot, req,
                 headeratclient, next, tomcatVars, client>>

\* The start of an attempt: ajp_send_request, whose last request on this
\* endpoint must have ended for its socket to be used.
ajp_send_request(t) ==
  /\ pc[t] = "send"
  /\ recoverable' = [recoverable EXCEPT ![t] = TRUE]
  /\ IF last_op[slot[t]] # "END_RESPONSE"
     THEN ajp_abort_endpoint(slot[t])
     ELSE UNCHANGED <<sd, last_op, conn, orphans, connected>>
  /\ At(t, IF sd'[slot[t]] # 0 THEN "check" ELSE "connect")
  /\ UNCHANGED <<config, avail, reuse, busy, m_sock, slot, req, try, headeratclient,
                 posted, next, up, faults, executed, client>>

StillConnected(t) ==
  /\ pc[t] = "check" /\ jk_is_socket_connected(own(t))
  /\ At(t, "forward")
  /\ UNCHANGED <<config, epVars, connected, busy, m_sock, slot, requestVars, next,
                 tomcatVars, client>>

\* ajp_abort_endpoint, then ajp_next_connection.
TryAnother(t) ==
  /\ pc[t] = "check" /\ ~ jk_is_socket_connected(own(t))
  /\ ajp_next_connection(slot[t])
  /\ last_op' = [last_op EXCEPT ![slot[t]] = "END_RESPONSE"]
  /\ At(t, IF sd'[slot[t]] # 0 THEN "check" ELSE "connect")
  /\ UNCHANGED <<config, avail, reuse, busy, m_sock, slot, requestVars, next, up,
                 faults, executed, client>>

ajp_connect_to_endpoint(t) ==
  LET k == Min({x \in Sockets : conn[x] = NoConn})
  IN /\ pc[t] = "connect"
     /\ IF up
        THEN /\ sd' = [sd EXCEPT ![slot[t]] = k]
             /\ conn' = [conn EXCEPT ![k] = NewConn]
             /\ connected' = connected + 1
             /\ At(t, "forward")
        ELSE /\ At(t, "failed")
             /\ UNCHANGED <<sd, conn, connected>>
     /\ UNCHANGED <<config, avail, reuse, last_op, busy, m_sock, slot, requestVars,
                    next, up, orphans, faults, executed, client>>

\* ajp_connection_tcp_send_message of the request.
Forward(t) ==
  LET k == own(t)
  IN /\ pc[t] = "forward"
     /\ \/ /\ SendWorks(k, [conn[k] EXCEPT !.inbox = Append(@, Attempt(t))])
           /\ last_op' = [last_op EXCEPT ![slot[t]] = "FORWARD_REQUEST"]
           /\ headeratclient' = [headeratclient EXCEPT ![t] = FALSE]
           /\ At(t, IF req[t] \in Uploads THEN "post" ELSE "reply")
           /\ UNCHANGED <<sd, orphans, connected>>
        \/ /\ SendFails(slot[t])
           /\ At(t, "failed")
           /\ UNCHANGED headeratclient
     /\ UNCHANGED <<config, avail, reuse, busy, m_sock, slot, req, try, recoverable,
                    posted, next, up, faults, executed, client>>

\* The end of ajp_service: ajp_update_stats and the return.
Finish(t) == busy' = busy - 1 /\ At(t, "done")

\* The first part of the body: read from the client and kept, or sent again.
Post(t) ==
  /\ pc[t] = "post"
  /\ posted' = [posted EXCEPT ![t] = TRUE]
  /\ \/ At(t, "reply") /\ UNCHANGED <<sd, last_op, conn, orphans, connected>>
     \/ SendFails(slot[t]) /\ At(t, "failed")
  /\ UNCHANGED <<config, avail, reuse, busy, m_sock, slot, req, try, recoverable,
                 headeratclient, next, up, faults, executed, client>>

\* The client sends no body: the request is given up (after an empty message).
BrowserStops(t) ==
  /\ pc[t] = "post" /\ ~ posted[t]
  /\ recoverable' = [recoverable EXCEPT ![t] = FALSE]
  /\ Finish(t)
  /\ \/ UNCHANGED <<sd, last_op, conn, orphans, connected>>
     \/ SendFails(slot[t])
  /\ UNCHANGED <<config, avail, reuse, m_sock, slot, req, try, headeratclient,
                 posted, next, up, faults, executed, client>>

---------------------------------------------------------------------------
(* ajp_get_reply *)

(* Mutant: before the headers an attempt may always be repeated. *)
Recovers_BeforeHeaders(t) ==
  recoverable[t] /\ (headeratclient[t] => "TCSENDHEADER" \notin recovery_opts)

\* Whether an attempt whose reply is lost may be repeated.
Recovers(t) ==
  IF headeratclient[t]
  THEN recoverable[t] /\ "TCSENDHEADER" \notin recovery_opts
  ELSE \/ recoverable[t] /\ "TCGETREQUEST" \notin recovery_opts
       \/ "HEAD" \notin recovery_opts /\ "GET" \in recovery_opts /\ req[t] \notin Uploads

\* Tomcat closed the connection, or did not answer within the reply_timeout.
ReplyLost(t) ==
  LET c == conn[own(t)]
  IN /\ pc[t] = "reply" /\ c.wire = <<>>
     /\ c.peer = "closed" \/ config.reply_timeout
     /\ ajp_abort_endpoint(slot[t])
     /\ recoverable' = [recoverable EXCEPT ![t] = Recovers(t)]
     /\ At(t, "failed")
     /\ UNCHANGED <<config, avail, reuse, busy, m_sock, slot, req, try,
                    headeratclient, posted, next, up, faults, executed, client>>

Message(t) == Head(conn[own(t)].wire)
Receives(t, type) ==
  /\ pc[t] = "reply" /\ conn[own(t)].wire # <<>>
  /\ Message(t).type = type
Read(k) == [conn EXCEPT ![k].wire = Tail(@)]
ToClient(t) == client' = [client EXCEPT ![t] = @ \union {Message(t).a}]
LastOp(t, op) == last_op' = [last_op EXCEPT ![slot[t]] = op]

\* Headers right after headers are not used; headers after other messages of
\* this attempt are used, and then taken as a protocol violation.
SendHeaders(t) ==
  /\ Receives(t, "SEND_HEADERS")
  /\ conn' = Read(own(t))
  /\ IF last_op[slot[t]] = "SEND_HEADERS"
     THEN /\ LastOp(t, "ERROR") /\ At(t, "failed")
          /\ UNCHANGED <<client, headeratclient, recoverable>>
     ELSE /\ ToClient(t) /\ LastOp(t, "SEND_HEADERS")
          /\ headeratclient' = [headeratclient EXCEPT ![t] = TRUE]
          /\ recoverable' = [recoverable EXCEPT ![t] = @ /\ ~ headeratclient[t]]
          /\ At(t, IF headeratclient[t] THEN "failed" ELSE "reply")
  /\ UNCHANGED <<config, sd, avail, reuse, connected, busy, m_sock, slot, req, try,
                 posted, next, up, orphans, faults, executed>>

\* A chunk that precedes the headers is left over from another reply.  The
\* client may be gone.
SendBodyChunk(t) ==
  /\ Receives(t, "SEND_BODY_CHUNK")
  /\ conn' = Read(own(t))
  /\ IF last_op[slot[t]] = "FORWARD_REQUEST"
     THEN /\ LastOp(t, "ERROR") /\ At(t, "failed")
          /\ UNCHANGED <<busy, recoverable, client>>
     ELSE \/ /\ ToClient(t) /\ LastOp(t, "NO_RESPONSE")
             /\ UNCHANGED <<pc, busy, recoverable>>
          \/ /\ LastOp(t, "CLIENT_WR_ERROR")
             /\ recoverable' = [recoverable EXCEPT ![t] = FALSE]
             /\ Finish(t)
             /\ UNCHANGED client
  /\ UNCHANGED <<config, sd, avail, reuse, connected, m_sock, slot, req, try,
                 headeratclient, posted, next, up, orphans, faults, executed>>

\* Tomcat asks for more of the body: from now on there is no second chance.
GetBodyChunk(t) ==
  LET k == own(t)
  IN /\ Receives(t, "GET_BODY_CHUNK")
     /\ recoverable' = [recoverable EXCEPT ![t] = FALSE]
     /\ \/ /\ conn' = [Read(k) EXCEPT ![k].job.stage =
                          IF conn[k].peer = "open" THEN "fed" ELSE @]
           /\ LastOp(t, "HAS_RESPONSE")
           /\ UNCHANGED <<sd, orphans, connected, pc, busy>>
        \/ /\ SendFails(slot[t])
           /\ At(t, "failed") /\ UNCHANGED busy
        \/ /\ conn' = Read(k)                   \* the client cannot be read from
           /\ LastOp(t, "CLIENT_RD_ERROR")
           /\ Finish(t)
           /\ UNCHANGED <<sd, orphans, connected>>
     /\ UNCHANGED <<config, avail, reuse, m_sock, slot, req, try, headeratclient, posted,
                    next, up, faults, executed, client>>

EndResponse(t) ==
  /\ Receives(t, "END_RESPONSE")
  /\ conn' = Read(own(t))
  /\ ToClient(t)
  /\ reuse' = [reuse EXCEPT ![slot[t]] = Message(t).reuse]
  /\ LastOp(t, "END_RESPONSE")
  /\ Finish(t)
  /\ UNCHANGED <<config, sd, avail, connected, m_sock, slot, requestVars, next, up,
                 orphans, faults, executed>>

---------------------------------------------------------------------------
(* After an attempt *)

(* Mutant: the tries are not counted. *)
Retry_Forever(t) ==
  /\ pc[t] = "failed"
  /\ IF ~ recoverable[t]
     THEN /\ Finish(t)
          /\ UNCHANGED <<sd, conn, orphans, connected>>
     ELSE /\ ajp_next_connection(slot[t])
          /\ At(t, "send")
          /\ UNCHANGED busy
  /\ UNCHANGED <<config, avail, reuse, last_op, m_sock, slot, req, try, recoverable,
                 headeratclient, posted, next, up, faults, executed, client>>

\* The end of the loop's body in ajp_service: give up, or get another
\* connection and try again as long as there are tries left.
Retry(t) ==
  /\ pc[t] = "failed"
  /\ IF ~ recoverable[t]
     THEN /\ Finish(t)
          /\ UNCHANGED <<sd, conn, orphans, connected, try>>
     ELSE /\ ajp_next_connection(slot[t])
          /\ IF try[t] < retries
             THEN /\ try' = [try EXCEPT ![t] = @ + 1]
                  /\ At(t, "send")
                  /\ UNCHANGED busy
             ELSE Finish(t) /\ UNCHANGED try
  /\ UNCHANGED <<config, avail, reuse, last_op, m_sock, slot, req, recoverable,
                 headeratclient, posted, next, up, faults, executed, client>>

(* Mutant: ajp_reset_endpoint is not called. *)
ajp_done_NoReset(t) ==
  /\ pc[t] = "done"
  /\ avail' = [avail EXCEPT ![slot[t]] = TRUE]
  /\ slot' = [slot EXCEPT ![t] = 0]
  /\ req' = [req EXCEPT ![t] = 0]
  /\ try' = [try EXCEPT ![t] = 0]
  /\ recoverable' = [recoverable EXCEPT ![t] = TRUE]
  /\ headeratclient' = [headeratclient EXCEPT ![t] = FALSE]
  /\ posted' = [posted EXCEPT ![t] = FALSE]
  /\ client' = [client EXCEPT ![t] = {}]
  /\ At(t, "idle")
  /\ UNCHANGED <<config, sd, last_op, conn, orphans, connected, reuse, busy, m_sock, next, up, faults, executed>>

ajp_done(t) ==
  /\ pc[t] = "done"
  /\ IF reuse[slot[t]]
     THEN UNCHANGED <<sd, last_op, conn, orphans, connected>>
     ELSE ajp_abort_endpoint(slot[t])
  /\ avail' = [avail EXCEPT ![slot[t]] = TRUE]
  /\ slot' = [slot EXCEPT ![t] = 0]
  /\ req' = [req EXCEPT ![t] = 0]
  /\ try' = [try EXCEPT ![t] = 0]
  /\ recoverable' = [recoverable EXCEPT ![t] = TRUE]
  /\ headeratclient' = [headeratclient EXCEPT ![t] = FALSE]
  /\ posted' = [posted EXCEPT ![t] = FALSE]
  /\ client' = [client EXCEPT ![t] = {}]
  /\ At(t, "idle")
  /\ UNCHANGED <<config, reuse, busy, m_sock, next, up, faults, executed>>

---------------------------------------------------------------------------
(* The watchdog: ajp_maintain *)

\* Takes the sockets of endpoints idle for too long from the cache.  It goes
\* on until no more than ep_mincache_sz sockets are open, which it looks at
\* after each slot: the last slot is dealt with in any case.
ajp_maintain ==
  LET open == Cardinality({s \in Slots : sd[s] # 0})
      mincache == (ep_cache_sz + 1) \div 2
  IN /\ config.cache_timeout /\ m_sock = {}
     /\ \E S \in SUBSET Cached \ {{}} :
          /\ IF open > mincache THEN Cardinality(S) <= open - mincache
                                ELSE S = {ep_cache_sz}
          /\ m_sock' = {sd[s] : s \in S}
          /\ sd' = [s \in Slots |-> IF s \in S THEN 0 ELSE sd[s]]
          /\ reuse' = [s \in Slots |-> s \notin S /\ reuse[s]]
          /\ last_op' = [s \in Slots |-> IF s \in S THEN "END_RESPONSE" ELSE last_op[s]]
     /\ UNCHANGED <<config, avail, connected, busy, pc, slot, requestVars, next,
                    tomcatVars, client>>

MaintainCloses ==
  \E k \in m_sock :
    /\ CloseAll({k})
    /\ m_sock' = m_sock \ {k}
    /\ UNCHANGED <<config, epVars, busy, pc, slot, requestVars, next, up, faults,
                   executed, client>>

---------------------------------------------------------------------------
(* Tomcat: external *)

Works(k, stages) == k \in Sockets /\ conn[k].peer = "open" /\ conn[k].job.stage \in stages
Says(k, type, stage, again) ==
  conn' = [conn EXCEPT ![k].wire =
             Append(@, [a |-> conn[k].job.a, type |-> type, reuse |-> again]),
             ![k].job = IF stage = "none" THEN NoJob ELSE [@ EXCEPT !.stage = stage],
             ![k].peer = IF again THEN @ ELSE "closed"]
Run(a) == executed' = [executed EXCEPT ![a[1]] = @ + 1]
OnlyTomcat == UNCHANGED <<config, epVars, connected, busy, m_sock, pc, slot, requestVars,
                          next, client>>

TomcatTakes(k) ==
  /\ Works(k, {"none"}) /\ conn[k].inbox # <<>>
  /\ conn' = [conn EXCEPT ![k].inbox = Tail(@),
                          ![k].job = [a |-> Head(conn[k].inbox), stage |-> "run"]]
  /\ Run(Head(conn[k].inbox))
  /\ OnlyTomcat /\ UNCHANGED <<up, orphans, faults>>

\* Also what came in on a connection that mod_jk has closed since.
TomcatTakesOrphan ==
  /\ \E a \in orphans : Run(a) /\ orphans' = orphans \ {a}
  /\ OnlyTomcat /\ UNCHANGED <<up, conn, faults>>

TomcatReplies(k) ==
  /\ \/ /\ Works(k, {"run"}) /\ conn[k].job.a[1] \in Uploads
        /\ Says(k, "GET_BODY_CHUNK", "asked", TRUE)
     \/ Works(k, {"run", "fed"}) /\ Says(k, "SEND_HEADERS", "headers", TRUE)
     \/ Works(k, {"headers"}) /\ Says(k, "SEND_BODY_CHUNK", "body", TRUE)
     \/ Works(k, {"body"}) /\ Says(k, "END_RESPONSE", "none", TRUE)
  /\ OnlyTomcat /\ UNCHANGED <<up, orphans, faults, executed>>

\* The end of a reply with which Tomcat asks not to reuse the connection.
TomcatEnds(k) ==
  /\ Works(k, {"body"}) /\ faults < MaxFaults
  /\ Says(k, "END_RESPONSE", "none", FALSE)
  /\ faults' = faults + 1
  /\ OnlyTomcat /\ UNCHANGED <<up, orphans, executed>>

\* What Tomcat sent before it closed its end may or may not arrive.
Hangup(c, arrives) ==
  [NoConn EXCEPT !.peer = "closed", !.wire = IF arrives THEN c.wire ELSE <<>>]

TomcatCloses(k) ==
  /\ Works(k, {"none"}) /\ faults < MaxFaults
  /\ faults' = faults + 1
  /\ conn' = [conn EXCEPT ![k] = Hangup(@, TRUE)]
  /\ OnlyTomcat /\ UNCHANGED <<up, orphans, executed>>

TomcatDies ==
  /\ up /\ faults < MaxFaults
  /\ up' = FALSE
  /\ faults' = faults + 1
  /\ \E arrives \in BOOLEAN : conn' =
       [k \in Sockets |-> IF conn[k] = NoConn THEN NoConn ELSE Hangup(conn[k], arrives)]
  /\ orphans' = {}
  /\ OnlyTomcat /\ UNCHANGED executed

TomcatStarts ==
  /\ ~ up
  /\ up' = TRUE
  /\ OnlyTomcat /\ UNCHANGED <<conn, orphans, faults, executed>>

---------------------------------------------------------------------------

Thread(t) ==
  \/ ajp_get_endpoint(t) \/ NoEndpoint(t) \/ ajp_service(t) \/ ajp_send_request(t)
  \/ StillConnected(t) \/ TryAnother(t) \/ ajp_connect_to_endpoint(t) \/ Forward(t)
  \/ Post(t) \/ BrowserStops(t) \/ ReplyLost(t) \/ SendHeaders(t)
  \/ SendBodyChunk(t) \/ GetBodyChunk(t) \/ EndResponse(t) \/ Retry(t) \/ ajp_done(t)

Tomcat(k) == TomcatTakes(k) \/ TomcatReplies(k)
Descriptors == UNION {1 .. 2 * c.ep_cache_sz : c \in Configurations}

Next ==
  \/ \E t \in Threads : Thread(t)
  \/ ajp_maintain \/ MaintainCloses
  \/ \E k \in Descriptors : Tomcat(k) \/ TomcatEnds(k) \/ TomcatCloses(k)
  \/ TomcatTakesOrphan \/ TomcatDies \/ TomcatStarts

Spec == Init /\ [][Next]_vars

\* A thread goes on, once it has a request; Tomcat, where it is running, does
\* answer.  Nothing is assumed of arrivals, of the watchdog or of failures.
FairSpec ==
  /\ Spec
  /\ \A t \in Threads : WF_vars(pc[t] # "idle" /\ Thread(t))
  /\ \A k \in Descriptors : WF_vars(Tomcat(k))

---------------------------------------------------------------------------
(* Properties *)

\* The type invariant of the endpoints, the threads and the connections;
\* among other things ajp_service tries no more often than "retries".
TypeOK ==
  /\ config \in Configurations
  /\ sd \in [Slots -> Sockets \union {0}]
  /\ avail \in [Slots -> BOOLEAN] /\ reuse \in [Slots -> BOOLEAN]
  /\ last_op \in [Slots -> {"END_RESPONSE", "FORWARD_REQUEST", "SEND_HEADERS", "ERROR",
        "NO_RESPONSE", "HAS_RESPONSE", "CLIENT_WR_ERROR", "CLIENT_RD_ERROR"}]
  /\ connected \in Int /\ busy \in Int
  /\ m_sock \subseteq Sockets
  /\ pc \in [Threads -> {"idle", "service", "send", "check", "connect", "forward",
                          "post", "reply", "failed", "done"}]
  /\ slot \in [Threads -> Slots \union {0}]
  /\ req \in [Threads -> Requests \union {0}]
  /\ try \in [Threads -> 0 .. retries]
  /\ recoverable \in [Threads -> BOOLEAN]
  /\ headeratclient \in [Threads -> BOOLEAN] /\ posted \in [Threads -> BOOLEAN]
  /\ next \in 1 .. MaxRequests + 1
  /\ up \in BOOLEAN /\ faults \in 0 .. MaxFaults
  /\ DOMAIN conn = Sockets
  /\ orphans \subseteq Attempts
  /\ executed \in [Requests -> Nat]
  /\ client \in [Threads -> SUBSET Attempts]

\* Whatever threads steal from each other's idle endpoints by
\* ajp_next_connection while ajp_maintain takes sockets too, a socket has one
\* owner, an endpoint or the watchdog, every open socket has one, and the
\* worker's counter "connected" says how many there are.
SocketsOwned ==
  LET owners == {s \in Slots : sd[s] # 0}
      held == {sd[s] : s \in owners}
  IN /\ \A s, u \in owners : sd[s] = sd[u] => s = u
     /\ held \cap m_sock = {}
     /\ held \union m_sock = {k \in Sockets : conn[k] # NoConn}
     /\ connected = Cardinality(held) + Cardinality(m_sock)

\* An endpoint that is not available is in the hands of exactly one thread
\* (ajp_get_endpoint, ajp_done), and the worker is as busy as there are
\* threads in the loop of ajp_service, on whichever path they leave it.
EndpointsHeld ==
  /\ \A s \in Slots : Cardinality({t \in Threads : slot[t] = s}) = IF avail[s] THEN 0 ELSE 1
  /\ busy = Cardinality({t \in Threads : pc[t] \notin {"idle", "service", "done"}})

\* A connection waiting in the cache carries nothing: no request that Tomcat
\* has not answered, no message that nobody read.  Only END_RESPONSE sets the
\* reuse flag by which ajp_done keeps a connection, on all other paths it is
\* closed.
CacheIsClean ==
  \A s \in Cached : conn[sd[s]] \in {NewConn, [NoConn EXCEPT !.peer = "closed"]}

\* A client is never sent anything from the reply to another request, although
\* connections pass from request to request by way of the cache
\* (ajp_get_reply, ajp_reset_endpoint); and it is sent data of two attempts only
\* if the recovery options let ajp_get_reply repeat a request after its headers
\* were sent.
OwnReplies ==
  \A t \in Threads :
    /\ \A a \in client[t] : a[1] = req[t]
    /\ "TCSENDHEADER" \in recovery_opts => Cardinality(client[t]) <= 1

\* Tomcat executes a request no more often than ajp_service tries, and one
\* without a body only once if the recovery options forbid to repeat what Tomcat
\* may have received (RECOVER_ABORT_IF_TCGETREQUEST and _TCSENDHEADER, and not
\* RECOVER_ALWAYS_HTTP_GET).
ExecutedOnce ==
  \A r \in Requests :
    executed[r] <= IF /\ {"TCGETREQUEST", "TCSENDHEADER"} \subseteq recovery_opts
                      /\ "GET" \notin recovery_opts
                      /\ r \notin Uploads
                   THEN 1 ELSE retries

\* Every request that got an endpoint comes to an end and gives it back, as
\* ajp_send_request runs out of connections to steal and ajp_service of tries.
RequestEnds == \A t \in Threads : pc[t] # "idle" ~> pc[t] = "idle"
=============================================================================
