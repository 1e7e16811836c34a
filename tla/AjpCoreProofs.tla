---------------------------- MODULE AjpCoreProofs ---------------------------
(***************************************************************************)
(* Proofs about AjpWorker: what every step keeps.  The invariants come in  *)
(* layers: types, who holds which endpoint, who owns which socket, what is *)
(* under way on a connection, and what a client has been sent.  That a new *)
(* connection finds a socket is assumed here (SocketLeft); it follows from *)
(* the counters, in AjpWorkerProofs, which draws the conclusions.          *)
(***************************************************************************)
EXTENDS AjpWorker, TLAPS

-----------------------------------------------------------------------------
(* The layers of the invariant.                                            *)

(* Types of a connection.                                                  *)
MessageTypes == {"GET_BODY_CHUNK", "SEND_HEADERS", "SEND_BODY_CHUNK", "END_RESPONSE"}
Stages == {"none", "run", "asked", "fed", "headers", "body"}
AnyAttempt == (0 .. MaxRequests) \X (0 .. retries)
Messages == [a : AnyAttempt, type : MessageTypes, reuse : BOOLEAN]
Connections == [peer : {"none", "open", "closed"}, inbox : Seq(Attempts),
                job : [a : AnyAttempt, stage : Stages], wire : Seq(Messages)]

ConnOK ==
  /\ conn \in [Sockets -> Connections]
  /\ \A k \in Sockets : conn[k].peer = "none" => conn[k] = NoConn

(* A connection that nobody uses.                                          *)
ClosedConn == [NoConn EXCEPT !.peer = "closed"]
Clean(c) == c \in {NewConn, ClosedConn}

(* A connection on which attempt a is under way: Tomcat has not taken it   *)
(* yet, has asked for the body, or has said n parts of the reply, of which *)
(* m have been read.                                                       *)
Part(i) == IF i = 1 THEN "SEND_HEADERS" ELSE IF i = 2 THEN "SEND_BODY_CHUNK" ELSE "END_RESPONSE"
StageAfter(n) == IF n = 0 THEN {"run", "fed"} ELSE IF n = 1 THEN {"headers"} ELSE {"body"}

Untaken(c, a) == c.peer = "open" /\ c.inbox = <<a>> /\ c.job = NoJob /\ c.wire = <<>>
Asked(c, a) ==
  /\ c.inbox = <<>> /\ Len(c.wire) = 1
  /\ c.wire[1].a = a /\ c.wire[1].type = "GET_BODY_CHUNK"
  /\ IF c.peer = "open" THEN c.job.a = a /\ c.job.stage = "asked" ELSE c.job = NoJob
Said(c, a, m, n) ==
  /\ m <= n /\ c.inbox = <<>> /\ Len(c.wire) = n - m
  /\ \A i \in 1 .. n - m : c.wire[i].a = a /\ c.wire[i].type = Part(m + i)
  /\ IF c.peer = "open" /\ n < 3 THEN c.job.a = a /\ c.job.stage \in StageAfter(n)
                                 ELSE c.job = NoJob

Serves(c, a, headers) ==
  \/ Untaken(c, a) /\ ~ headers
  \/ Asked(c, a) /\ ~ headers
  \/ \E m, n \in 0 .. 3 : Said(c, a, m, n) /\ (headers <=> m > 0)

(* What is known of a thread by where it is: of its endpoint, of the       *)
(* endpoint's connection, and of what its client has been sent.            *)
InLoop == {"send", "check", "connect", "forward", "post", "reply", "failed"}

EndpointOf(t) ==
  /\ pc[t] = "idle" <=> slot[t] = 0
  /\ pc[t] # "idle" => ~ avail[slot[t]] /\ req[t] \in Requests
  /\ pc[t] \notin {"idle", "service"} => try[t] \in 1 .. retries
  /\ pc[t] \in InLoop => ~ reuse[slot[t]]
  /\ pc[t] \in {"check", "forward", "post", "reply"} => own(t) # 0
  /\ pc[t] = "connect" => own(t) = 0

ConnectionOf(t) ==
  /\ /\ pc[t] \in {"service", "send", "check", "forward", "done"}
     /\ pc[t] = "done" => reuse[slot[t]]
     /\ own(t) # 0
     => Clean(conn[own(t)])
  /\ pc[t] \in {"post", "reply"} =>
       /\ Serves(conn[own(t)], Attempt(t), headeratclient[t])
       /\ last_op[slot[t]] = "FORWARD_REQUEST" => ~ headeratclient[t]

ClientOf(t) ==
  /\ \A a \in client[t] : a[1] = req[t]
  /\ pc[t] \in {"idle", "service"} => client[t] = {}
  /\ "TCSENDHEADER" \in recovery_opts =>
       /\ client[t] \subseteq {Attempt(t)}
       /\ pc[t] \in {"send", "check", "connect", "forward", "post"} => client[t] = {}
       /\ pc[t] = "failed" /\ recoverable[t] => client[t] = {}
       /\ pc[t] = "reply" /\ client[t] # {} => headeratclient[t]

ThreadOK(t) == EndpointOf(t) /\ ConnectionOf(t) /\ ClientOf(t)

(* Endpoints that are taken have one holder.                               *)
Holders ==
  /\ \A t, u \in Threads : slot[t] = slot[u] /\ slot[t] # 0 => t = u
  /\ \A s \in Slots : ~ avail[s] => \E t \in Threads : slot[t] = s

(* Open sockets have one owner.                                            *)
Open == {k \in Sockets : conn[k] # NoConn}

Owners ==
  /\ \A s, u \in Slots : sd[s] = sd[u] /\ sd[s] # 0 => s = u
  /\ \A s \in Slots : sd[s] \notin m_sock
  /\ \A k \in Sockets : k \in Open <=> k \in m_sock \/ \E s \in Slots : sd[s] = k

(* The types, with the connections left to ConnOK.                         *)
Typed ==
  /\ config \in Configurations
  /\ sd \in [Slots -> Sockets \union {0}]
  /\ avail \in [Slots -> BOOLEAN] /\ reuse \in [Slots -> BOOLEAN]
  /\ last_op \in [Slots -> {"END_RESPONSE", "FORWARD_REQUEST", "SEND_HEADERS", "ERROR",
        "NO_RESPONSE", "HAS_RESPONSE", "CLIENT_WR_ERROR", "CLIENT_RD_ERROR"}]
  /\ busy \in Int
  /\ m_sock \subseteq Sockets
  /\ pc \in [Threads -> InLoop \union {"idle", "service", "done"}]
  /\ slot \in [Threads -> Slots \union {0}]
  /\ req \in [Threads -> Requests \union {0}]
  /\ try \in [Threads -> 0 .. retries]
  /\ recoverable \in [Threads -> BOOLEAN]
  /\ headeratclient \in [Threads -> BOOLEAN] /\ posted \in [Threads -> BOOLEAN]
  /\ next \in 1 .. MaxRequests + 1
  /\ up \in BOOLEAN /\ faults \in 0 .. MaxFaults
  /\ orphans \subseteq Attempts
  /\ executed \in [Requests -> Nat]
  /\ client \in [Threads -> SUBSET Attempts]

Core == /\ Typed /\ ConnOK /\ Holders /\ Owners /\ CacheIsClean
        /\ \A t \in Threads : ThreadOK(t)

(* The counters.  Only that a new socket can be had depends on them.       *)
Counts ==
  /\ busy = Cardinality({t \in Threads : pc[t] \in InLoop})
  /\ connected = Cardinality(Open)
  /\ Cardinality(m_sock) <= ep_cache_sz

IInv == Core /\ Counts

(* What a step does to the counters and to what they count.                *)
BusyBook ==
  \/ busy' = busy /\ \A u \in Threads : pc'[u] \in InLoop <=> pc[u] \in InLoop
  \/ \E t \in Threads :
       /\ \A u \in Threads : u # t => (pc'[u] \in InLoop <=> pc[u] \in InLoop)
       /\ \/ pc[t] \notin InLoop /\ pc'[t] \in InLoop /\ busy' = busy + 1
          \/ pc[t] \in InLoop /\ pc'[t] \notin InLoop /\ busy' = busy - 1
SocketBook ==
  \/ Open' = Open /\ connected' = connected
  \/ \E K \in SUBSET Open : Open' = Open \ K /\ connected' = connected - Cardinality(K)
  \/ \E k \in Sockets \ Open : Open' = Open \union {k} /\ connected' = connected + 1
WatchdogBook ==
  /\ UNCHANGED config
  /\ \/ m_sock' = m_sock
     \/ \E k \in m_sock : m_sock' = m_sock \ {k}
     \/ \E S \in SUBSET Slots : m_sock' = {sd[s] : s \in S}

Preserved == Core' /\ BusyBook /\ SocketBook /\ WatchdogBook

(* Two facts about finite sets that the steps rest on, proved later: every *)
(* set of naturals has a least element, and an endpoint that has no socket *)
(* finds one.                                                              *)
Least == \A S \in SUBSET Nat : S # {} => Min(S) \in S
SocketLeft == \A s \in Slots : sd[s] = 0 => Open # Sockets

-----------------------------------------------------------------------------
(* Zenon proves most of the steps; SMT is cited where it is needed.         *)
USE ZenonT(60)

(* The constant connections are connections.                               *)
LEMMA Constants == /\ NoConn \in Connections /\ NewConn \in Connections
                   /\ ClosedConn \in Connections
                   /\ Attempts \subseteq AnyAttempt
                   /\ NoConn.peer = "none" /\ NewConn.peer = "open" /\ ClosedConn.peer = "closed"
                   /\ \A c \in {NoConn, NewConn, ClosedConn} :
                        c.inbox = <<>> /\ c.job = NoJob /\ c.wire = <<>>
  <1>1. Attempts \subseteq AnyAttempt /\ <<0, 0>> \in AnyAttempt
    BY SMT, AjpAssumption DEF Attempts, AnyAttempt, Requests
  <1>2. NoJob \in [a : AnyAttempt, stage : Stages]
    BY <1>1 DEF NoJob, Stages
  <1>3. <<>> \in Seq(Attempts) /\ <<>> \in Seq(Messages)
    BY SMT
  <1>4. /\ NewConn = [peer |-> "open", inbox |-> <<>>, job |-> NoJob, wire |-> <<>>]
        /\ ClosedConn = [peer |-> "closed", inbox |-> <<>>, job |-> NoJob, wire |-> <<>>]
    BY SMT DEF NewConn, ClosedConn, NoConn
  <1>5. /\ NoConn \in Connections /\ NewConn \in Connections /\ ClosedConn \in Connections
    BY <1>2, <1>3, <1>4 DEF Connections, NoConn
  <1> QED
    BY SMT, <1>1, <1>4, <1>5 DEF NoConn

(* A sequence of no messages is the empty one.                             *)
LEMMA EmptySeq == \A w \in Seq(Messages) : Len(w) = 0 => w = <<>>
  BY SMT

(* A message is read: it belongs to the attempt, and what it is says how   *)
(* far the reply has got.                                                  *)
LEMMA ReadServes ==
  ASSUME NEW c \in Connections, c.peer # "none", c.wire # <<>>, NEW a \in Attempts,
         NEW d \in Connections, d.peer = c.peer, d.inbox = c.inbox, d.job = c.job,
         d.wire = Tail(c.wire)
  PROVE  /\ Serves(c, a, FALSE) =>
              /\ Head(c.wire).a = a
              /\ \/ Head(c.wire).type = "GET_BODY_CHUNK" /\ Asked(c, a)
                 \/ Head(c.wire).type = "SEND_HEADERS" /\ Serves(d, a, TRUE)
         /\ Serves(c, a, TRUE) =>
              /\ Head(c.wire).a = a
              /\ \/ Head(c.wire).type = "SEND_BODY_CHUNK" /\ Serves(d, a, TRUE)
                 \/ Head(c.wire).type = "END_RESPONSE" /\ Clean(d)
  <1>1. c.wire \in Seq(Messages) /\ Tail(c.wire) \in Seq(Messages) /\ Len(c.wire) > 0
    BY SMT DEF Connections
  <1>2. \A w \in Seq(Messages) : Len(w) = 0 => w = <<>>
    BY EmptySeq
  <1>3. ~ Untaken(c, a)
    BY DEF Untaken
  <1>4. Asked(c, a) => Head(c.wire).a = a /\ Head(c.wire).type = "GET_BODY_CHUNK"
    <2>1. Head(c.wire) = c.wire[1]
      BY SMT, <1>1
    <2> QED
      BY <2>1 DEF Asked
  <1>5. ASSUME NEW m \in 0 .. 3, NEW n \in 0 .. 3, Said(c, a, m, n)
        PROVE  /\ Head(c.wire).a = a /\ Head(c.wire).type = Part(m + 1)
               /\ m = 0 \/ m = 1 => Serves(d, a, TRUE)
               /\ m = 2 => Clean(d)
               /\ m < 3
    <2>1. n - m > 0 /\ Len(c.wire) = n - m /\ 1 \in 1 .. n - m
      BY SMT, <1>5, <1>1 DEF Said
    <2>2. Head(c.wire) = c.wire[1]
      BY SMT, <1>1
    <2>3. c.wire[1].a = a /\ c.wire[1].type = Part(m + 1)
      BY <1>5, <2>1 DEF Said
    <2>4. Len(d.wire) = n - (m + 1) /\ \A i \in 1 .. n - (m + 1) : d.wire[i] = c.wire[i + 1]
      BY SMT, <2>1, <1>1, <1>2
    <2>5. ASSUME NEW i \in 1 .. n - (m + 1)
          PROVE  d.wire[i].a = a /\ d.wire[i].type = Part((m + 1) + i)
      <3>1. i + 1 \in 1 .. n - m /\ m + (i + 1) = (m + 1) + i
        BY SMT
      <3>2. c.wire[i + 1].a = a /\ c.wire[i + 1].type = Part(m + (i + 1))
        BY <3>1, <1>5 DEF Said
      <3> QED
        BY <3>1, <3>2, <2>4
    <2>6. Said(d, a, m + 1, n)
      BY SMT, <2>1, <2>4, <2>5, <1>5 DEF Said
    <2>7. m + 1 \in 0 .. 3 /\ m < 3
      BY SMT, <2>1
    <2>8. Serves(d, a, TRUE)
      BY SMT, <2>6, <2>7 DEF Serves
    <2>9. ASSUME m = 2 PROVE Clean(d)
      <3>1. n = 3 /\ d.inbox = <<>> /\ d.job = NoJob
        BY SMT, <2>1, <2>6, <2>9 DEF Said
      <3>2. d.wire = <<>>
        <4>1. d.wire \in Seq(Messages) /\ Len(d.wire) = 0
          BY SMT, <2>4, <2>9, <3>1, <1>1
        <4> QED
          BY <4>1, <1>2
      <3>3. d = [peer |-> d.peer, inbox |-> <<>>, job |-> NoJob, wire |-> <<>>]
        BY <3>1, <3>2 DEF Connections
      <3>4. d.peer \in {"open", "closed"}
        BY DEF Connections
      <3> QED
        BY SMT, <3>3, <3>4 DEF Clean, NewConn, ClosedConn, NoConn
    <2> QED
      BY <2>2, <2>3, <2>7, <2>8, <2>9
  <1>6. ASSUME Serves(c, a, FALSE), ~ Asked(c, a)
        PROVE  /\ Head(c.wire).a = a
               /\ Head(c.wire).type = "SEND_HEADERS" /\ Serves(d, a, TRUE)
    <2>1. PICK m, n \in 0 .. 3 : Said(c, a, m, n) /\ m = 0
      BY SMT, <1>3, <1>6 DEF Serves
    <2>2. /\ Head(c.wire).a = a /\ Head(c.wire).type = Part(m + 1)
          /\ m = 0 \/ m = 1 => Serves(d, a, TRUE)
          /\ m = 2 => Clean(d)
          /\ m < 3
      BY <2>1, <1>5
    <2>3. Head(c.wire).type = "SEND_HEADERS"
      BY SMT, <2>1, <2>2 DEF Part
    <2> QED
      BY <2>1, <2>2, <2>3
  <1>7. ASSUME Serves(c, a, TRUE)
        PROVE  /\ Head(c.wire).a = a
               /\ \/ Head(c.wire).type = "SEND_BODY_CHUNK" /\ Serves(d, a, TRUE)
                  \/ Head(c.wire).type = "END_RESPONSE" /\ Clean(d)
    <2>1. PICK m, n \in 0 .. 3 : Said(c, a, m, n) /\ m > 0
      BY <1>7 DEF Serves
    <2>2. /\ Head(c.wire).a = a /\ Head(c.wire).type = Part(m + 1)
          /\ m = 0 \/ m = 1 => Serves(d, a, TRUE)
          /\ m = 2 => Clean(d)
          /\ m < 3
      BY <2>1, <1>5
    <2>3. CASE m = 1
      <3>1. Head(c.wire).type = "SEND_BODY_CHUNK"
        BY SMT, <2>2, <2>3 DEF Part
      <3> QED
        BY <2>2, <2>3, <3>1
    <2>4. CASE m = 2
      <3>1. Head(c.wire).type = "END_RESPONSE"
        BY SMT, <2>2, <2>4 DEF Part
      <3> QED
        BY <2>2, <2>4, <3>1
    <2>5. m = 1 \/ m = 2
      BY SMT, <2>1, <2>2
    <2> QED
      BY <2>3, <2>4, <2>5
  <1> QED
    BY <1>4, <1>6, <1>7

(* What is known of a thread that holds an endpoint.                       *)
LEMMA Holding ==
  ASSUME Core, NEW t \in Threads, pc[t] # "idle"
  PROVE  /\ slot[t] \in Slots /\ ~ avail[slot[t]] /\ req[t] \in Requests
         /\ own(t) \in Sockets \union {0}
         /\ own(t) # 0 => /\ conn[own(t)] \in Connections /\ conn[own(t)].peer # "none"
         /\ pc[t] # "service" => try[t] \in 1 .. retries /\ Attempt(t) \in Attempts
  <1>1. EndpointOf(t) /\ Typed /\ ConnOK /\ Owners
    BY DEF Core, ThreadOK
  <1>2. slot[t] \in Slots /\ own(t) \in Sockets \union {0} /\ req[t] \in Requests
    BY <1>1 DEF EndpointOf, Typed, own
  <1>3. own(t) # 0 => conn[own(t)] # NoConn
    BY <1>1, <1>2 DEF Owners, Open, own
  <1>4. pc[t] # "service" => try[t] \in 1 .. retries /\ Attempt(t) \in Attempts
    BY <1>1, <1>2 DEF EndpointOf, Attempt, Attempts
  <1> QED
    BY <1>1, <1>2, <1>3, <1>4 DEF EndpointOf, ConnOK

(* A thread reads a message of its connection.                             *)
LEMMA Reading ==
  ASSUME Core, NEW t \in Threads, NEW type, Receives(t, type)
  PROVE  /\ pc[t] = "reply" /\ pc[t] \in InLoop /\ ThreadOK(t) /\ Typed
         /\ slot[t] \in Slots /\ ~ avail[slot[t]] /\ own(t) # 0 /\ own(t) \in Sockets
         /\ Attempt(t) \in Attempts /\ Message(t).a = Attempt(t)
         /\ Message(t).reuse \in BOOLEAN
         /\ conn[own(t)] \in Connections /\ conn[own(t)].peer # "none"
         /\ type = "GET_BODY_CHUNK" => Asked(conn[own(t)], Attempt(t)) /\ ~ headeratclient[t]
         /\ \E d \in Connections :
              /\ Read(own(t)) = [conn EXCEPT ![own(t)] = d]
              /\ d.peer # "none"
              /\ type = "SEND_HEADERS" => ~ headeratclient[t] /\ Serves(d, Attempt(t), TRUE)
              /\ type = "SEND_BODY_CHUNK" => headeratclient[t] /\ Serves(d, Attempt(t), TRUE)
              /\ type = "END_RESPONSE" => headeratclient[t] /\ Clean(d)
  <1> DEFINE c == conn[own(t)]
             d == [c EXCEPT !.wire = Tail(@)]
             a == Attempt(t)
             h == headeratclient[t]
  <1>1. /\ pc[t] = "reply" /\ pc[t] \in InLoop /\ ThreadOK(t) /\ Typed
        /\ slot[t] \in Slots /\ ~ avail[slot[t]] /\ own(t) # 0 /\ own(t) \in Sockets
        /\ c \in Connections /\ c.peer # "none" /\ a \in Attempts
    BY Holding DEF Receives, Core, ThreadOK, EndpointOf, InLoop
  <1>2. conn \in [Sockets -> Connections] /\ h \in BOOLEAN
    BY DEF Core, ConnOK, Typed
  <1>3. Serves(c, a, h)
    BY <1>1 DEF ThreadOK, ConnectionOf
  <1>4. c.wire # <<>> /\ Head(c.wire) = Message(t) /\ Message(t).type = type
    BY DEF Receives, Message
  <1>5. c.wire \in Seq(Messages)
    BY <1>1 DEF Connections
  <1>6. Head(c.wire) \in Messages /\ Tail(c.wire) \in Seq(Messages)
    BY SMT, <1>4, <1>5
  <1>7. d \in Connections
    BY <1>1, <1>6 DEF Connections
  <1>8. d.peer = c.peer /\ d.inbox = c.inbox /\ d.job = c.job /\ d.wire = Tail(c.wire)
    BY <1>1 DEF Connections
  <1>9. Read(own(t)) = [conn EXCEPT ![own(t)] = d]
    BY <1>1, <1>2 DEF Read
  <1> HIDE DEF c, d, a, h
  <1>10. /\ Head(c.wire).a = a
         /\ Head(c.wire).type = "GET_BODY_CHUNK" => Asked(c, a) /\ ~ h
         /\ Head(c.wire).type = "SEND_HEADERS" => ~ h /\ Serves(d, a, TRUE)
         /\ Head(c.wire).type = "SEND_BODY_CHUNK" => h /\ Serves(d, a, TRUE)
         /\ Head(c.wire).type = "END_RESPONSE" => h /\ Clean(d)
    <2>1. /\ c \in Connections /\ c.peer # "none" /\ c.wire # <<>> /\ a \in Attempts
          /\ h \in BOOLEAN /\ Serves(c, a, h) /\ d \in Connections /\ d.peer = c.peer
          /\ d.inbox = c.inbox /\ d.job = c.job /\ d.wire = Tail(c.wire)
      BY <1>1, <1>2, <1>3, <1>4, <1>7, <1>8
    <2>2. CASE h
      <3>1. Serves(c, a, TRUE)
        BY <2>1, <2>2
      <3>2. /\ Head(c.wire).a = a
            /\ \/ Head(c.wire).type = "SEND_BODY_CHUNK" /\ Serves(d, a, TRUE)
               \/ Head(c.wire).type = "END_RESPONSE" /\ Clean(d)
        BY <2>1, <3>1, ReadServes
      <3> QED
        BY <2>2, <3>2
    <2>3. CASE ~ h
      <3>1. Serves(c, a, FALSE)
        BY <2>1, <2>3
      <3>2. /\ Head(c.wire).a = a
            /\ \/ Head(c.wire).type = "GET_BODY_CHUNK" /\ Asked(c, a)
               \/ Head(c.wire).type = "SEND_HEADERS" /\ Serves(d, a, TRUE)
        BY <2>1, <3>1, ReadServes
      <3> QED
        BY <2>3, <3>2
    <2> QED
      BY <2>2, <2>3
  <1>11. Message(t).a = a /\ Message(t).reuse \in BOOLEAN
    BY <1>4, <1>6, <1>10 DEF Messages
  <1>12. /\ type = "SEND_HEADERS" => ~ h /\ Serves(d, a, TRUE)
         /\ type = "SEND_BODY_CHUNK" => h /\ Serves(d, a, TRUE)
         /\ type = "END_RESPONSE" => h /\ Clean(d)
         /\ type = "GET_BODY_CHUNK" => Asked(c, a) /\ ~ h
    BY <1>4, <1>10
  <1>13. d.peer # "none"
    BY <1>1, <1>8
  <1> QED
    BY <1>1, <1>7, <1>9, <1>11, <1>12, <1>13 DEF c, a, h

(* Initially all is free.                                                  *)
LEMMA InitCore == Init => Core
  <1> SUFFICES ASSUME Init PROVE Core
    OBVIOUS
  <1>1. ep_cache_sz \in Nat \ {0}
    BY AjpAssumption DEF Init, ep_cache_sz
  <1>2. Typed
    BY SMT, <1>1, AjpAssumption DEF Init, Typed, Slots, Sockets, Requests, InLoop
  <1>3. ConnOK
    BY Constants DEF Init, ConnOK
  <1>4. Holders
    BY DEF Init, Holders
  <1>5. Owners
    <2>1. Open = {}
      BY DEF Init, Open
    <2>2. \A k \in Sockets : k # 0
      BY SMT, <1>1 DEF Sockets
    <2> QED
      BY <2>1, <2>2 DEF Init, Owners
  <1>6. CacheIsClean
    BY DEF Init, CacheIsClean, Cached
  <1>7. ASSUME NEW t \in Threads PROVE ThreadOK(t)
    BY DEF Init, ThreadOK, EndpointOf, ConnectionOf, ClientOf, InLoop
  <1> QED
    BY <1>2, <1>3, <1>4, <1>5, <1>6, <1>7 DEF Core

-----------------------------------------------------------------------------
(* The steps of Tomcat.                                                    *)

(* A change of a connection that disturbs nobody who uses it.              *)
Keeps(c, d) ==
  /\ d \in Connections
  /\ d.peer = "none" => d = NoConn
  /\ c = NoConn <=> d = NoConn
  /\ Clean(c) => Clean(d)
  /\ \A a \in Attempts, headers \in BOOLEAN : Serves(c, a, headers) => Serves(d, a, headers)

(* What Tomcat says next: the stage before, the message, the stage after.  *)
NextPart(before, type, after) ==
  \/ before = "run" /\ type = "GET_BODY_CHUNK" /\ after = "asked"
  \/ before \in {"run", "fed"} /\ type = "SEND_HEADERS" /\ after = "headers"
  \/ before = "headers" /\ type = "SEND_BODY_CHUNK" /\ after = "body"
  \/ before = "body" /\ type = "END_RESPONSE" /\ after = "none"

(* They keep the core, and so does a step in which nothing happens.        *)
LEMMA TomcatStep ==
  Core /\ (\/ \E k \in Descriptors : Tomcat(k) \/ TomcatEnds(k) \/ TomcatCloses(k)
           \/ TomcatTakesOrphan \/ TomcatDies \/ TomcatStarts
           \/ UNCHANGED vars)
    => Preserved
  (* Tomcat takes a request: nobody's who holds an idle connection.          *)
  <1>TakeKeeps.
    ASSUME NEW c \in Connections, c.peer = "open", c.job.stage = "none", c.inbox # <<>>
    PROVE  Keeps(c, [c EXCEPT !.inbox = Tail(@), !.job = [a |-> Head(c.inbox), stage |-> "run"]])
    <2> USE <1>TakeKeeps
    <2> DEFINE d == [c EXCEPT !.inbox = Tail(@), !.job = [a |-> Head(c.inbox), stage |-> "run"]]
    <2>1. /\ c.inbox \in Seq(Attempts) /\ Head(c.inbox) \in Attempts
          /\ Tail(c.inbox) \in Seq(Attempts)
      BY SMT DEF Connections
    <2>2. d \in Connections
      BY <2>1, Constants DEF Connections, Stages
    <2>3. /\ d.peer = "open" /\ d.inbox = Tail(c.inbox) /\ d.wire = c.wire
          /\ d.job = [a |-> Head(c.inbox), stage |-> "run"]
      BY DEF Connections
    <2>4. ~ Clean(c) /\ c # NoConn /\ d # NoConn
      BY <2>3, Constants DEF Clean
    <2>5. ASSUME NEW a \in Attempts, NEW headers \in BOOLEAN, Serves(c, a, headers)
          PROVE  Serves(d, a, headers)
      <3>1. Untaken(c, a) /\ ~ headers
        BY <2>5 DEF Serves, Asked, Said
      <3>2. Said(d, a, 0, 0)
        BY SMT, <3>1, <2>3 DEF Untaken, Said, StageAfter
      <3> QED
        BY SMT, <3>1, <3>2 DEF Serves
    <2> HIDE DEF d
    <2>6. Keeps(c, d)
      BY <2>2, <2>3, <2>4, <2>5 DEF Keeps
    <2> QED
      BY <2>6 DEF d
  (* Tomcat says the next part of a reply.                                   *)
  <1>SayKeeps.
    ASSUME NEW c \in Connections, NEW d, NEW type, NEW stage, NEW again \in BOOLEAN,
           c.peer = "open", NextPart(c.job.stage, type, stage),
           again \/ stage = "none",
           d = [c EXCEPT !.wire = Append(@, [a |-> c.job.a, type |-> type, reuse |-> again]),
                         !.job = IF stage = "none" THEN NoJob ELSE [@ EXCEPT !.stage = stage],
                         !.peer = IF again THEN @ ELSE "closed"]
    PROVE  Keeps(c, d)
    <2> USE <1>SayKeeps
    <2> DEFINE msg == [a |-> c.job.a, type |-> type, reuse |-> again]
               job == IF stage = "none" THEN NoJob ELSE [c.job EXCEPT !.stage = stage]
               peer == IF again THEN "open" ELSE "closed"
               wire == Append(c.wire, msg)
    <2>1. /\ c.job.a \in AnyAttempt /\ c.job.stage \in Stages /\ c.wire \in Seq(Messages)
          /\ c.job \in [a : AnyAttempt, stage : Stages]
          /\ c.inbox \in Seq(Attempts)
      BY DEF Connections
    <2>2. type \in MessageTypes /\ stage \in Stages
      BY DEF NextPart, MessageTypes, Stages
    <2>3. msg \in Messages
      BY <2>1, <2>2 DEF Messages
    <2>4. NoJob \in [a : AnyAttempt, stage : Stages]
      BY Constants DEF Connections
    <2>5. job \in [a : AnyAttempt, stage : Stages]
      <3>1. CASE stage = "none"
        BY <3>1, <2>4
      <3>2. CASE stage # "none"
        BY <3>2, <2>1, <2>2
      <3> QED
        BY <3>1, <3>2
    <2>6. stage # "none" => job.a = c.job.a /\ job.stage = stage
      BY <2>1
    <2>7. stage = "none" => job = NoJob
      OBVIOUS
    <2>8. d = [peer |-> peer, inbox |-> c.inbox, job |-> job, wire |-> wire]
      BY DEF Connections
    <2>9. msg.a = c.job.a /\ msg.type = type
      OBVIOUS
    <2> HIDE DEF msg, job
    <2>10. wire \in Seq(Messages) /\ peer \in {"open", "closed"}
      BY SMT, <2>1, <2>3
    <2> HIDE DEF wire, peer
    <2>11. d \in Connections
      BY SMT, <2>1, <2>5, <2>8, <2>10 DEF Connections
    <2>a. d.peer = peer /\ d.inbox = c.inbox /\ d.job = job /\ d.wire = wire
      <3> DEFINE r == [peer |-> peer, inbox |-> c.inbox, job |-> job, wire |-> wire]
      <3>1. r.peer = peer /\ r.inbox = c.inbox /\ r.job = job /\ r.wire = wire
        OBVIOUS
      <3>2. d = r
        BY <2>8
      <3> HIDE DEF r
      <3> QED
        BY <3>1, <3>2
    <2>12. /\ d.peer = (IF again THEN "open" ELSE "closed") /\ d.inbox = c.inbox
           /\ d.job = job /\ d.wire = Append(c.wire, msg)
      BY <2>a DEF peer, wire
    <2>13. c.job.stage # "none" /\ NoJob.stage = "none"
      BY DEF NextPart, NoJob
    <2>14. ~ Clean(c) /\ c # NoConn /\ d # NoConn /\ d.peer # "none"
      BY <2>12, <2>13, Constants DEF Clean
    <2>15. ASSUME NEW a \in Attempts, NEW headers \in BOOLEAN, Serves(c, a, headers)
           PROVE  Serves(d, a, headers)
      <3>1. ~ Untaken(c, a)
        BY <2>13 DEF Untaken
      <3>2. ~ Asked(c, a)
        BY <2>13 DEF Asked, NextPart
      <3>3. PICK m, n \in 0 .. 3 : Said(c, a, m, n) /\ (headers <=> m > 0)
        BY <3>1, <3>2, <2>15 DEF Serves
      <3>4. /\ n < 3 /\ c.job.a = a /\ c.job.stage \in StageAfter(n) /\ m <= n
            /\ c.inbox = <<>> /\ Len(c.wire) = n - m
            /\ \A i \in 1 .. n - m : c.wire[i].a = a /\ c.wire[i].type = Part(m + i)
        BY <3>3, <2>13 DEF Said
      <3>5. CASE type = "GET_BODY_CHUNK"
        <4>1. n = 0 /\ m = 0 /\ stage = "asked" /\ again
          BY SMT, <3>4, <3>5 DEF NextPart, StageAfter
        <4>2. Len(d.wire) = 1 /\ d.wire[1] = msg
          BY SMT, <4>1, <3>4, <2>12, <2>1, <2>3
        <4>3. Asked(d, a)
          BY <4>1, <4>2, <3>4, <3>5, <2>6, <2>9, <2>12 DEF Asked
        <4> QED
          BY SMT, <4>1, <4>3, <3>3 DEF Serves
      <3>6. CASE type # "GET_BODY_CHUNK"
        <4>1. type = Part(n + 1)
          BY SMT, <3>4, <3>6 DEF NextPart, StageAfter, Part
        <4>2. Len(d.wire) = (n + 1) - m
          BY SMT, <3>4, <2>12, <2>1, <2>3
        <4>3. ASSUME NEW i \in 1 .. (n + 1) - m
              PROVE  d.wire[i].a = a /\ d.wire[i].type = Part(m + i)
          <5>1. CASE i = (n + 1) - m
            <6>1. d.wire[i] = msg
              BY SMT, <5>1, <3>4, <2>12, <2>1, <2>3
            <6>2. m + i = n + 1
              BY SMT, <5>1
            <6> QED
              BY <6>1, <6>2, <4>1, <3>4, <2>9
          <5>2. CASE i # (n + 1) - m
            <6>1. i \in 1 .. n - m
              BY SMT, <5>2, <3>4
            <6>2. d.wire[i] = c.wire[i]
              BY SMT, <6>1, <3>4, <2>12, <2>1, <2>3
            <6> QED
              BY <6>1, <6>2, <3>4
          <5> QED
            BY <5>1, <5>2
        <4>4. IF d.peer = "open" /\ n + 1 < 3 THEN d.job.a = a /\ d.job.stage \in StageAfter(n + 1)
                                              ELSE d.job = NoJob
          BY SMT, <3>4, <3>6, <2>6, <2>7, <2>12 DEF NextPart, StageAfter
        <4>5. Said(d, a, m, n + 1)
          BY SMTT(60), <4>2, <4>3, <4>4, <3>4, <2>12 DEF Said
        <4>6. n + 1 \in 0 .. 3
          BY SMT, <3>4
        <4> QED
          BY <4>5, <4>6, <3>3 DEF Serves
      <3> QED
        BY <3>5, <3>6
    <2> QED
      BY <2>11, <2>14, <2>15 DEF Keeps
  (* Tomcat closes its end, or dies.                                         *)
  <1>HangupKeeps.
    ASSUME NEW c \in Connections, c # NoConn, NEW arrives \in BOOLEAN
    PROVE  Keeps(c, Hangup(c, arrives))
    <2> USE <1>HangupKeeps
    <2> DEFINE wire == IF arrives THEN c.wire ELSE <<>>
               d == [peer |-> "closed", inbox |-> <<>>, job |-> NoJob, wire |-> wire]
    <2>0. NoConn = [peer |-> "none", inbox |-> <<>>, job |-> NoJob, wire |-> <<>>]
      BY DEF NoConn
    <2>1. Hangup(c, arrives) = d
      <3>1. Hangup(c, arrives) = [NoConn EXCEPT !.peer = "closed", !.wire = wire]
        BY DEF Hangup
      <3> HIDE DEF wire
      <3> QED
        BY <3>1, <2>0
    <2>2. /\ wire \in Seq(Messages) /\ <<>> \in Seq(Attempts)
          /\ NoJob \in [a : AnyAttempt, stage : Stages]
      BY Constants DEF Connections
    <2>3. d \in Connections
      BY <2>2 DEF Connections
    <2>4. /\ d.peer = "closed" /\ d.inbox = <<>> /\ d.job = NoJob
          /\ d.wire = IF arrives THEN c.wire ELSE <<>>
      OBVIOUS
    <2>5. ASSUME Clean(c) PROVE Clean(d)
      <3>1. wire = <<>>
        BY <2>5, Constants DEF Clean
      <3> QED
        BY SMT, <3>1 DEF Clean, ClosedConn, NoConn
    <2> HIDE DEF d
    <2>6. ASSUME NEW a \in Attempts, NEW headers \in BOOLEAN, Serves(c, a, headers)
          PROVE  Serves(d, a, headers)
      <3>1. CASE Untaken(c, a) /\ ~ headers
        <4>1. Said(d, a, 0, 0)
          BY SMT, <3>1, <2>4 DEF Untaken, Said
        <4> QED
          BY SMT, <3>1, <4>1 DEF Serves
      <3>2. CASE Asked(c, a) /\ ~ headers
        <4>1. arrives => Asked(d, a)
          BY <3>2, <2>4 DEF Asked
        <4>2. ~ arrives => Said(d, a, 0, 0)
          BY SMT, <2>4 DEF Said
        <4> QED
          BY SMT, <3>2, <4>1, <4>2 DEF Serves
      <3>3. ASSUME NEW m \in 0 .. 3, NEW n \in 0 .. 3, Said(c, a, m, n), headers <=> m > 0
            PROVE  Serves(d, a, headers)
        <4>1. arrives => Said(d, a, m, n)
          BY <3>3, <2>4 DEF Said
        <4>2. ~ arrives => Said(d, a, m, m)
          BY SMT, <2>4 DEF Said
        <4> QED
          BY <3>3, <4>1, <4>2 DEF Serves
      <3> QED
        BY <2>6, <3>1, <3>2, <3>3 DEF Serves
    <2>7. d # NoConn
      BY <2>4, Constants
    <2>8. Keeps(c, d)
      BY <2>3, <2>4, <2>5, <2>6, <2>7 DEF Keeps
    <2> QED
      BY <2>1, <2>8
  (* A step of Tomcat that disturbs nobody who uses a connection.            *)
  <1>TomcatKeeps.
    ASSUME Core, OnlyTomcat,
           \A k \in Sockets : Keeps(conn[k], conn'[k]),
           up' \in BOOLEAN, faults' \in 0 .. MaxFaults, orphans' \subseteq Attempts,
           executed' \in [Requests -> Nat], conn' = [k \in Sockets |-> conn'[k]]
    PROVE  Preserved
    <2> USE <1>TomcatKeeps
    <2>1. Typed'
      BY DEF Core, Typed, OnlyTomcat, Slots, Sockets, ep_cache_sz, epVars, requestVars
    <2>2. Sockets' = Sockets /\ Slots' = Slots
      BY DEF OnlyTomcat, Slots, Sockets, ep_cache_sz
    <2>3. ConnOK'
      BY <2>2 DEF ConnOK, Keeps
    <2>4. Holders'
      BY <2>2 DEF Core, Holders, OnlyTomcat, epVars
    <2>5. Owners' /\ Open' = Open
      <3>1. Open' = Open
        BY <2>2 DEF Open, Keeps
      <3> QED
        BY <2>2, <3>1 DEF Core, Owners, OnlyTomcat, epVars
    <2>6. CacheIsClean'
      <3>1. Cached' = Cached /\ sd' = sd
        BY <2>2 DEF Cached, OnlyTomcat, epVars
      <3>2. ASSUME NEW s \in Cached PROVE Clean(conn'[sd[s]])
        BY SMT, <3>2 DEF Core, Typed, CacheIsClean, Keeps, Cached, Clean, ClosedConn
      <3> QED
        BY <3>1, <3>2 DEF CacheIsClean, Clean, ClosedConn
    <2>7. ASSUME NEW t \in Threads PROVE ThreadOK(t)'
      <3>1. /\ UNCHANGED <<config, sd, avail, reuse, last_op, pc, slot, req, try, recoverable,
                           headeratclient, client>>
            /\ own(t)' = own(t) /\ Attempt(t)' = Attempt(t)
        BY DEF OnlyTomcat, epVars, requestVars, own, Attempt
      <3>2. EndpointOf(t) /\ ConnectionOf(t) /\ ClientOf(t)
        BY DEF Core, ThreadOK
      <3>3. EndpointOf(t)' /\ ClientOf(t)'
        BY <3>1, <3>2 DEF EndpointOf, ClientOf, recovery_opts
      <3>4. ConnectionOf(t)'
        <4>1. pc[t] # "idle" => slot[t] \in Slots /\ own(t) \in Sockets \union {0}
          BY <3>2 DEF Core, Typed, EndpointOf, own
        <4>2. pc[t] \in {"post", "reply"} => own(t) \in Sockets /\ Attempt(t) \in Attempts
          BY <3>2, <4>1 DEF EndpointOf, Attempt, Attempts
        <4>3. headeratclient[t] \in BOOLEAN
          BY DEF Core, Typed
        <4> QED
          BY <3>1, <3>2, <4>1, <4>2, <4>3 DEF ConnectionOf, Keeps
      <3> QED
        BY <3>3, <3>4 DEF ThreadOK
    <2>8. BusyBook /\ SocketBook /\ WatchdogBook
      BY <2>5 DEF BusyBook, SocketBook, WatchdogBook, OnlyTomcat
    <2> QED
      BY <2>1, <2>3, <2>4, <2>5, <2>6, <2>7, <2>8 DEF Core, Preserved
  (* A step of Tomcat on one connection.                                     *)
  <1>TomcatOnOne.
    ASSUME Core, OnlyTomcat, NEW k \in Sockets, NEW d, Keeps(conn[k], d),
           conn' = [conn EXCEPT ![k] = d],
           up' \in BOOLEAN, faults' \in 0 .. MaxFaults, orphans' \subseteq Attempts,
           executed' \in [Requests -> Nat]
    PROVE  Preserved
    <2> USE <1>TomcatOnOne
    <2>1. conn \in [Sockets -> Connections] /\ \A x \in Sockets : conn[x].peer = "none" => conn[x] = NoConn
      BY DEF Core, ConnOK
    <2>2. conn'[k] = d /\ \A x \in Sockets : x # k => conn'[x] = conn[x]
      BY <2>1
    <2>3. conn' = [x \in Sockets |-> conn'[x]]
      BY <2>1
    <2>4. ASSUME NEW x \in Sockets PROVE Keeps(conn[x], conn'[x])
      BY <2>1, <2>2 DEF Keeps
    <2> QED
      BY <2>3, <2>4, <1>TomcatKeeps
  (* What Tomcat executes is counted.                                        *)
  <1>RunTypes.
    ASSUME executed \in [Requests -> Nat], NEW a, Run(a)
    PROVE  executed' \in [Requests -> Nat]
    <2> USE <1>RunTypes
    <2>1. \A r \in Requests : executed[r] + 1 \in Nat
      BY SMT
    <2>2. \A r \in Requests : executed'[r] = IF r = a[1] THEN executed[r] + 1 ELSE executed[r]
      BY DEF Run
    <2>3. executed' = [r \in Requests |-> executed'[r]]
      BY DEF Run
    <2> QED
      BY <2>1, <2>2, <2>3
  (* Tomcat's steps on a connection.                                         *)
  <1>TomcatSteps.
    ASSUME Core, NEW k, Tomcat(k) \/ TomcatEnds(k) \/ TomcatCloses(k)
    PROVE  Preserved
    <2> USE <1>TomcatSteps
    <2>1. /\ conn \in [Sockets -> Connections] /\ executed \in [Requests -> Nat]
          /\ up \in BOOLEAN /\ faults \in 0 .. MaxFaults /\ orphans \subseteq Attempts
      BY DEF Core, Typed, ConnOK
    <2>2. ASSUME k \in Sockets, conn[k].peer = "open",
                 NEW type, NEW stage, NEW again \in BOOLEAN, again \/ stage = "none",
                 NextPart(conn[k].job.stage, type, stage), Says(k, type, stage, again),
                 OnlyTomcat, up' \in BOOLEAN, faults' \in 0 .. MaxFaults,
                 orphans' \subseteq Attempts, executed' \in [Requests -> Nat]
          PROVE  Preserved
      <3> DEFINE c == conn[k]
                 msg == [a |-> c.job.a, type |-> type, reuse |-> again]
                 job == IF stage = "none" THEN NoJob ELSE [c.job EXCEPT !.stage = stage]
                 peer == IF again THEN c.peer ELSE "closed"
                 d == [c EXCEPT !.wire = Append(@, msg), !.job = job, !.peer = peer]
      <3>1. d = [c EXCEPT !.wire = Append(@, [a |-> c.job.a, type |-> type, reuse |-> again]),
                         !.job = IF stage = "none" THEN NoJob ELSE [@ EXCEPT !.stage = stage],
                         !.peer = IF again THEN @ ELSE "closed"]
        OBVIOUS
      <3>2. c \in Connections
        BY <2>1, <2>2
      <3>3. Keeps(c, d)
        <4> HIDE DEF c, d
        <4> QED
          BY <2>2, <3>1, <3>2, <1>SayKeeps DEF c
      <3>4. conn' = [conn EXCEPT ![k] = d]
        BY <2>1, <2>2 DEF Says
      <3> HIDE DEF d
      <3> QED
        BY <2>2, <3>3, <3>4, <1>TomcatOnOne
    <2>3. CASE TomcatTakes(k)
      <3> DEFINE c == conn[k]
                 d == [c EXCEPT !.inbox = Tail(@), !.job = [a |-> Head(c.inbox), stage |-> "run"]]
      <3>1. /\ k \in Sockets /\ c.peer = "open" /\ c.job.stage = "none" /\ c.inbox # <<>>
            /\ c \in Connections
        BY <2>1, <2>3 DEF TomcatTakes, Works
      <3>2. Keeps(c, d)
        BY <3>1, <1>TakeKeeps
      <3>3. conn' = [conn EXCEPT ![k] = d]
        BY <2>1, <2>3, <3>1 DEF TomcatTakes
      <3>4. executed' \in [Requests -> Nat]
        BY <2>1, <2>3, <1>RunTypes DEF TomcatTakes
      <3>5. OnlyTomcat /\ UNCHANGED <<up, orphans, faults>>
        BY <2>3 DEF TomcatTakes
      <3> HIDE DEF d
      <3> QED
        BY <2>1, <3>1, <3>2, <3>3, <3>4, <3>5, <1>TomcatOnOne
    <2>4. CASE TomcatReplies(k)
      <3>1. OnlyTomcat /\ UNCHANGED <<up, orphans, faults, executed>>
        BY <2>4 DEF TomcatReplies
      <3>2. CASE Works(k, {"run"}) /\ Says(k, "GET_BODY_CHUNK", "asked", TRUE)
        <4>1. k \in Sockets /\ conn[k].peer = "open" /\ NextPart(conn[k].job.stage, "GET_BODY_CHUNK", "asked")
          BY <3>2 DEF Works, NextPart
        <4> QED
          BY <2>1, <2>2, <3>1, <3>2, <4>1
      <3>3. CASE Works(k, {"run", "fed"}) /\ Says(k, "SEND_HEADERS", "headers", TRUE)
        <4>1. k \in Sockets /\ conn[k].peer = "open" /\ NextPart(conn[k].job.stage, "SEND_HEADERS", "headers")
          BY <3>3 DEF Works, NextPart
        <4> QED
          BY <2>1, <2>2, <3>1, <3>3, <4>1
      <3>4. CASE Works(k, {"headers"}) /\ Says(k, "SEND_BODY_CHUNK", "body", TRUE)
        <4>1. k \in Sockets /\ conn[k].peer = "open" /\ NextPart(conn[k].job.stage, "SEND_BODY_CHUNK", "body")
          BY <3>4 DEF Works, NextPart
        <4> QED
          BY <2>1, <2>2, <3>1, <3>4, <4>1
      <3>5. CASE Works(k, {"body"}) /\ Says(k, "END_RESPONSE", "none", TRUE)
        <4>1. k \in Sockets /\ conn[k].peer = "open" /\ NextPart(conn[k].job.stage, "END_RESPONSE", "none")
          BY <3>5 DEF Works, NextPart
        <4> QED
          BY <2>1, <2>2, <3>1, <3>5, <4>1
      <3> QED
        BY <2>4, <3>2, <3>3, <3>4, <3>5 DEF TomcatReplies
    <2>5. CASE TomcatEnds(k)
      <3>1. /\ k \in Sockets /\ conn[k].peer = "open" /\ NextPart(conn[k].job.stage, "END_RESPONSE", "none")
            /\ Says(k, "END_RESPONSE", "none", FALSE)
            /\ OnlyTomcat /\ UNCHANGED <<up, orphans, executed>>
        BY <2>5 DEF TomcatEnds, Works, NextPart
      <3>2. faults' \in 0 .. MaxFaults
        BY SMT, <2>1, <2>5, AjpAssumption DEF TomcatEnds
      <3> QED
        BY <2>1, <2>2, <3>1, <3>2
    <2>6. CASE TomcatCloses(k)
      <3> DEFINE d == Hangup(conn[k], TRUE)
      <3>1. /\ k \in Sockets /\ conn[k].peer = "open" /\ conn[k] \in Connections
            /\ conn' = [conn EXCEPT ![k] = d]
            /\ OnlyTomcat /\ UNCHANGED <<up, orphans, executed>>
        BY <2>1, <2>6 DEF TomcatCloses, Works
      <3>2. faults' \in 0 .. MaxFaults
        BY SMT, <2>1, <2>6, AjpAssumption DEF TomcatCloses
      <3>3. Keeps(conn[k], d)
        BY <3>1, <1>HangupKeeps, Constants
      <3> HIDE DEF d
      <3> QED
        BY <2>1, <3>1, <3>2, <3>3, <1>TomcatOnOne
    <2> QED
      BY <2>3, <2>4, <2>5, <2>6 DEF Tomcat
  (* Tomcat's steps that are not about one connection.                       *)
  <1>TomcatOthers.
    ASSUME Core, TomcatTakesOrphan \/ TomcatDies \/ TomcatStarts
    PROVE  Preserved
    <2> USE <1>TomcatOthers
    <2>1. /\ conn \in [Sockets -> Connections] /\ executed \in [Requests -> Nat]
          /\ up \in BOOLEAN /\ faults \in 0 .. MaxFaults /\ orphans \subseteq Attempts
          /\ \A k \in Sockets : conn[k].peer = "none" => conn[k] = NoConn
          /\ conn = [k \in Sockets |-> conn[k]]
      BY DEF Core, Typed, ConnOK
    <2>2. \A k \in Sockets : Keeps(conn[k], conn[k])
      BY <2>1 DEF Keeps
    <2>3. CASE TomcatTakesOrphan
      <3>1. executed' \in [Requests -> Nat] /\ orphans' \subseteq Attempts
        BY <2>1, <2>3, <1>RunTypes DEF TomcatTakesOrphan
      <3>2. OnlyTomcat /\ UNCHANGED <<up, conn, faults>>
        BY <2>3 DEF TomcatTakesOrphan
      <3> QED
        BY <2>1, <2>2, <3>1, <3>2, <1>TomcatKeeps
    <2>4. CASE TomcatDies
      <3>1. PICK arrives \in BOOLEAN : conn' =
              [k \in Sockets |-> IF conn[k] = NoConn THEN NoConn ELSE Hangup(conn[k], arrives)]
        BY <2>4 DEF TomcatDies
      <3>2. ASSUME NEW k \in Sockets PROVE Keeps(conn[k], conn'[k])
        <4>1. CASE conn[k] = NoConn
          BY <2>2, <3>1, <4>1
        <4>2. CASE conn[k] # NoConn
          <5>1. conn'[k] = Hangup(conn[k], arrives)
            BY <3>1, <4>2
          <5> QED
            BY <2>1, <4>2, <5>1, <1>HangupKeeps
        <4> QED
          BY <4>1, <4>2
      <3>3. conn' = [k \in Sockets |-> conn'[k]]
        BY <3>1
      <3>4. /\ OnlyTomcat /\ UNCHANGED executed /\ up' \in BOOLEAN
            /\ faults' \in 0 .. MaxFaults /\ orphans' \subseteq Attempts
        <4>1. up' \in BOOLEAN
          BY Zenon, <2>4 DEF TomcatDies
        <4> QED
          BY SMT, <2>1, <2>4, <4>1, AjpAssumption DEF TomcatDies
      <3> QED
        BY <2>1, <3>2, <3>3, <3>4, <1>TomcatKeeps
    <2>5. CASE TomcatStarts
      <3>1. OnlyTomcat /\ up' \in BOOLEAN /\ UNCHANGED <<conn, orphans, faults, executed>>
        BY <2>5 DEF TomcatStarts
      <3> QED
        BY <2>1, <2>2, <3>1, <1>TomcatKeeps
    <2> QED
      BY <2>3, <2>4, <2>5
  <1>Stuttering. ASSUME Core, UNCHANGED vars PROVE Preserved
    <2>1. OnlyTomcat /\ UNCHANGED <<conn, up, faults, orphans, executed>>
      BY <1>Stuttering DEF vars, OnlyTomcat, tomcatVars
    <2>2. /\ conn \in [Sockets -> Connections]
          /\ \A k \in Sockets : conn[k].peer = "none" => conn[k] = NoConn
          /\ up \in BOOLEAN /\ faults \in 0 .. MaxFaults /\ orphans \subseteq Attempts
          /\ executed \in [Requests -> Nat]
      BY <1>Stuttering DEF Core, ConnOK, Typed
    <2>3. \A k \in Sockets : Keeps(conn[k], conn[k])
      BY <2>2 DEF Keeps
    <2>4. conn = [k \in Sockets |-> conn[k]]
      BY <2>2
    <2> QED
      BY <2>1, <2>2, <2>3, <2>4, <1>Stuttering, <1>TomcatKeeps
  <1> QED
    BY <1>TomcatSteps, <1>TomcatOthers, <1>Stuttering

-----------------------------------------------------------------------------
(* What the operations on sockets do.                                      *)

(* What a step of the holder of endpoint s leaves alone, and what it keeps *)
(* of the cache and of the ownership of sockets.                           *)
SocketsKept(s) ==
  /\ Owners' /\ ConnOK' /\ CacheIsClean'
  /\ sd' \in [Slots -> Sockets \union {0}] /\ SocketBook /\ orphans' \subseteq Attempts
  /\ \A x \in Slots : x # s /\ ~ avail[x] =>
       sd'[x] = sd[x] /\ (sd[x] # 0 => conn'[sd[x]] = conn[sd[x]])

(* Endpoints and sockets are numbered from 1.                              *)
LEMMA Numbers ==
  ASSUME config \in Configurations
  PROVE  /\ ep_cache_sz \in Nat \ {0} /\ 0 \notin Sockets
         /\ Slots \subseteq Nat \ {0} /\ Sockets \subseteq Nat \ {0}
  <1>1. ep_cache_sz \in Nat \ {0}
    BY AjpAssumption DEF ep_cache_sz
  <1> QED
    BY SMT, <1>1 DEF Slots, Sockets

(* Closing sockets that are open.                                          *)
LEMMA Closing ==
  ASSUME Core, UNCHANGED config, NEW K \in SUBSET Open, CloseAll(K)
  PROVE  /\ ConnOK' /\ orphans' \subseteq Attempts
         /\ \A k \in Sockets : conn'[k] = IF k \in K THEN NoConn ELSE conn[k]
         /\ Open' = Open \ K /\ SocketBook
  <1>1. /\ conn \in [Sockets -> Connections]
        /\ \A k \in Sockets : conn[k].peer = "none" => conn[k] = NoConn
        /\ orphans \subseteq Attempts
    BY DEF Core, Typed, ConnOK
  <1>2. Sockets' = Sockets /\ K \subseteq Sockets
    BY DEF Sockets, ep_cache_sz, Open
  <1>3. conn' = [k \in Sockets |-> IF k \in K THEN NoConn ELSE conn[k]]
    BY DEF CloseAll
  <1>4. ConnOK'
    BY <1>1, <1>2, <1>3, Constants DEF ConnOK
  <1>5. ASSUME NEW k \in K, NEW i \in DOMAIN conn[k].inbox
        PROVE  conn[k].inbox[i] \in Attempts
    <2>1. conn[k].inbox \in Seq(Attempts)
      BY <1>1, <1>2 DEF Connections
    <2> QED
      BY SMT, <2>1
  <1>6. orphans' \subseteq Attempts
    BY SMT, <1>1, <1>5 DEF CloseAll
  <1>7. Open' = Open \ K
    BY <1>2, <1>3 DEF Open
  <1>8. SocketBook
    BY <1>7 DEF SocketBook, CloseAll
  <1> QED
    BY <1>3, <1>4, <1>6, <1>7, <1>8

(* No socket is touched.                                                   *)
LEMMA NothingMoves ==
  ASSUME Core, NEW s \in Slots,
         UNCHANGED <<config, avail, m_sock, sd, conn, connected, orphans>>
  PROVE  SocketsKept(s)
  <1>1. Sockets' = Sockets /\ Slots' = Slots /\ ep_cache_sz' = ep_cache_sz
    BY DEF Sockets, Slots, ep_cache_sz
  <1>2. Owners'
    BY <1>1 DEF Core, Owners, Open
  <1>3. ConnOK'
    BY <1>1 DEF Core, ConnOK
  <1>4. CacheIsClean'
    BY <1>1 DEF Core, CacheIsClean, Cached
  <1>5. SocketBook
    BY <1>1 DEF SocketBook, Open
  <1> QED
    BY <1>2, <1>3, <1>4, <1>5 DEF SocketsKept, Core, Typed

(* The connection of endpoint s carries something else.                    *)
LEMMA OwnConnection ==
  ASSUME Core, NEW s \in Slots, ~ avail[s], sd[s] # 0, NEW d \in Connections, d.peer # "none",
         UNCHANGED <<config, avail, m_sock, sd, connected, orphans>>,
         conn' = [conn EXCEPT ![sd[s]] = d]
  PROVE  SocketsKept(s) /\ conn'[sd[s]] = d
  <1>1. Sockets' = Sockets /\ Slots' = Slots /\ ep_cache_sz' = ep_cache_sz
    BY DEF Sockets, Slots, ep_cache_sz
  <1>2. /\ conn \in [Sockets -> Connections] /\ sd \in [Slots -> Sockets \union {0}]
        /\ \A k \in Sockets : conn[k].peer = "none" => conn[k] = NoConn
        /\ Owners /\ CacheIsClean /\ orphans \subseteq Attempts
    BY DEF Core, Typed, ConnOK
  <1>3. sd[s] \in Sockets /\ conn'[sd[s]] = d /\ d # NoConn
        /\ \A k \in Sockets : k # sd[s] => conn'[k] = conn[k]
    BY <1>2, Constants
  <1>4. \A x \in Slots : x # s /\ sd[x] # 0 => conn'[sd[x]] = conn[sd[x]]
    BY SMT, <1>2, <1>3 DEF Owners
  <1>5. ConnOK'
    BY <1>1, <1>2, <1>3 DEF ConnOK
  <1>6. Open' = Open
    <2>1. sd[s] \in Open
      BY <1>2, <1>3 DEF Owners
    <2> QED
      BY <1>1, <1>3, <2>1 DEF Open
  <1>7. Owners'
    BY <1>1, <1>2, <1>6 DEF Owners
  <1>8. CacheIsClean'
    BY <1>1, <1>2, <1>4 DEF CacheIsClean, Cached
  <1>9. SocketBook
    BY <1>6 DEF SocketBook
  <1> QED
    BY <1>2, <1>3, <1>4, <1>5, <1>7, <1>8, <1>9 DEF SocketsKept

(* Endpoint s gives its socket up.                                         *)
LEMMA GivingUp ==
  ASSUME Core, NEW s \in Slots, UNCHANGED <<config, m_sock>>,
         \A x \in Slots : avail'[x] => avail[x] \/ x = s,
         CloseAll({sd[s]} \ {0}), sd' = [sd EXCEPT ![s] = 0]
  PROVE  SocketsKept(s) /\ sd'[s] = 0
  <1> DEFINE K == {sd[s]} \ {0}
  <1>1. Sockets' = Sockets /\ Slots' = Slots /\ ep_cache_sz' = ep_cache_sz
    BY DEF Sockets, Slots, ep_cache_sz
  <1>2. /\ sd \in [Slots -> Sockets \union {0}] /\ Owners /\ CacheIsClean
        /\ config \in Configurations
    BY DEF Core, Typed
  <1>3. K \in SUBSET Open
    BY <1>2 DEF Owners
  <1>4. /\ ConnOK' /\ orphans' \subseteq Attempts
        /\ \A k \in Sockets : conn'[k] = IF k \in K THEN NoConn ELSE conn[k]
        /\ Open' = Open \ K /\ SocketBook
    <2> HIDE DEF K
    <2> QED
      BY <1>3, Closing DEF K
  <1>5. sd'[s] = 0 /\ \A x \in Slots : x # s => sd'[x] = sd[x]
    BY <1>2
  <1>6. sd' \in [Slots -> Sockets \union {0}]
    BY <1>2
  <1>7. \A x \in Slots : x # s /\ sd[x] # 0 => conn'[sd[x]] = conn[sd[x]]
    BY SMT, <1>2, <1>4 DEF Owners
  <1>8. 0 \notin Sockets
    BY <1>2, Numbers
  <1>9. Owners'
    <2>1. \A x, u \in Slots : sd'[x] = sd'[u] /\ sd'[x] # 0 => x = u
      BY <1>2, <1>5 DEF Owners
    <2>2. \A x \in Slots : sd'[x] \notin m_sock
      BY <1>2, <1>5, <1>8 DEF Core, Typed, Owners
    <2>3. ASSUME NEW k \in Sockets
          PROVE  k \in Open' <=> k \in m_sock \/ \E x \in Slots : sd'[x] = k
      <3>1. CASE k = sd[s]
        BY SMT, <1>2, <1>4, <1>5, <1>8, <3>1 DEF Owners
      <3>2. CASE k # sd[s]
        <4>1. (\E x \in Slots : sd'[x] = k) <=> (\E x \in Slots : sd[x] = k)
          BY <1>5, <1>8, <3>2
        <4>2. k \in Open' <=> k \in Open
          BY <1>4, <3>2
        <4> QED
          BY <1>2, <4>1, <4>2 DEF Owners
      <3> QED
        BY <3>1, <3>2
    <2> QED
      BY SMTT(60), <1>1, <1>2, <1>4, <2>1, <2>2, <2>3 DEF Owners
  <1>10. CacheIsClean'
    <2>1. ASSUME NEW x \in Cached' PROVE x \in Cached /\ x # s /\ sd'[x] = sd[x]
      BY <1>1, <1>5, <2>1 DEF Cached
    <2> QED
      BY <1>2, <1>7, <2>1 DEF CacheIsClean, Cached
  <1> QED
    BY <1>4, <1>5, <1>6, <1>7, <1>9, <1>10 DEF SocketsKept

-----------------------------------------------------------------------------
(* The steps of a thread.                                                  *)

(* What no step but a thread's own changes of it.                          *)
Same(u) ==
  /\ pc'[u] = pc[u] /\ slot'[u] = slot[u] /\ req'[u] = req[u] /\ try'[u] = try[u]
  /\ recoverable'[u] = recoverable[u] /\ headeratclient'[u] = headeratclient[u]
  /\ client'[u] = client[u]
  /\ pc[u] # "idle" =>
       /\ avail'[slot[u]] = avail[slot[u]] /\ reuse'[slot[u]] = reuse[slot[u]]
       /\ last_op'[slot[u]] = last_op[slot[u]] /\ sd'[slot[u]] = sd[slot[u]]
       /\ own(u) # 0 => conn'[own(u)] = conn[own(u)]

(* A thread of which nothing changes stays as it is.                       *)
LEMMA Undisturbed ==
  ASSUME NEW u \in Threads, ThreadOK(u), Same(u), UNCHANGED config
  PROVE  ThreadOK(u)'
  <1>1. EndpointOf(u)'
    BY DEF ThreadOK, EndpointOf, Same, own, InLoop
  <1>2. ConnectionOf(u)'
    <2>1. CASE pc[u] = "idle"
      BY <2>1 DEF ConnectionOf, Same
    <2>2. CASE pc[u] # "idle"
      <3>1. own(u)' = own(u) /\ Attempt(u)' = Attempt(u)
        BY <2>2 DEF Same, own, Attempt
      <3>2. pc[u] \in {"post", "reply"} => own(u) # 0
        BY DEF ThreadOK, EndpointOf
      <3> QED
        BY <2>2, <3>1, <3>2 DEF ThreadOK, ConnectionOf, Same
    <2> QED
      BY <2>1, <2>2
  <1>3. ClientOf(u)'
    BY DEF ThreadOK, ClientOf, Same, recovery_opts, Attempt
  <1> QED
    BY <1>1, <1>2, <1>3 DEF ThreadOK

(* The counter busy follows the threads into and out of the loop.          *)
LEMMA BusyMoves ==
  ASSUME Core, NEW t \in Threads, NEW p, At(t, p),
         busy' = busy + (IF p \in InLoop THEN 1 ELSE 0) - (IF pc[t] \in InLoop THEN 1 ELSE 0)
  PROVE  BusyBook /\ busy' \in Int
  <1>1. pc \in [Threads -> InLoop \union {"idle", "service", "done"}] /\ busy \in Int
    BY DEF Core, Typed
  <1>2. pc'[t] = p /\ \A u \in Threads : u # t => pc'[u] = pc[u]
    BY <1>1 DEF At
  <1> QED
    BY SMT, <1>1, <1>2 DEF BusyBook

(* A step by which thread t comes to p and changes nothing of the other    *)
(* threads and of their endpoints.                                         *)
Operations == {"END_RESPONSE", "FORWARD_REQUEST", "SEND_HEADERS", "ERROR",
               "NO_RESPONSE", "HAS_RESPONSE", "CLIENT_WR_ERROR", "CLIENT_RD_ERROR"}

Frame(t, p) ==
  /\ At(t, p) /\ p \in InLoop \union {"done"}
  /\ busy' = busy + (IF p \in InLoop THEN 1 ELSE 0) - (IF pc[t] \in InLoop THEN 1 ELSE 0)
  /\ UNCHANGED <<config, avail, m_sock, slot, req, next, up, faults, executed>>
  /\ \A u \in Threads : u # t =>
       /\ try'[u] = try[u] /\ recoverable'[u] = recoverable[u]
       /\ headeratclient'[u] = headeratclient[u] /\ client'[u] = client[u]
  /\ \A x \in Slots : x # slot[t] => reuse'[x] = reuse[x] /\ last_op'[x] = last_op[x]
  /\ reuse' \in [Slots -> BOOLEAN] /\ last_op' \in [Slots -> Operations]
  /\ try' \in [Threads -> 0 .. retries]
  /\ recoverable' \in [Threads -> BOOLEAN]
  /\ headeratclient' \in [Threads -> BOOLEAN] /\ posted' \in [Threads -> BOOLEAN]
  /\ client' \in [Threads -> SUBSET Attempts]

(* Such a step keeps the invariant, if it does so for the thread itself.   *)
LEMMA ThreadFrame ==
  ASSUME Core, NEW t \in Threads, pc[t] # "idle", NEW p, Frame(t, p), SocketsKept(slot[t]),
         ThreadOK(t)'
  PROVE  Preserved
  <1>1. Slots' = Slots /\ Sockets' = Sockets
    BY DEF Frame, Slots, Sockets, ep_cache_sz
  <1>2. pc \in [Threads -> InLoop \union {"idle", "service", "done"}]
    BY DEF Core, Typed
  <1>3. BusyBook /\ busy' \in Int
    BY BusyMoves DEF Frame
  <1>4. Holders'
    BY <1>1 DEF Core, Holders, Frame
  <1>5. Typed'
    <2>1. pc' \in [Threads -> InLoop \union {"idle", "service", "done"}]
      BY <1>2 DEF Frame, At
    <2> QED
      BY <1>1, <1>3, <2>1 DEF Core, Typed, Frame, SocketsKept, Operations
  <1>6. ASSUME NEW u \in Threads PROVE ThreadOK(u)'
    <2>1. CASE u = t
      BY <2>1
    <2>2. CASE u # t
      <3>1. ThreadOK(u) /\ ThreadOK(t)
        BY DEF Core
      <3>2. pc[u] # "idle" => slot[u] \in Slots /\ slot[u] # slot[t] /\ ~ avail[slot[u]]
        BY SMTT(60), <2>2, <3>1 DEF Core, Typed, Holders, ThreadOK, EndpointOf
      <3>3. pc'[u] = pc[u]
        BY <1>2, <2>2 DEF Frame, At
      <3>4. Same(u)
        BY <2>2, <3>2, <3>3 DEF Same, Frame, SocketsKept, own
      <3> QED
        BY <3>1, <3>4, Undisturbed DEF Frame
    <2> QED
      BY <2>1, <2>2
  <1>7. WatchdogBook
    BY DEF Frame, WatchdogBook
  <1> QED
    BY <1>3, <1>4, <1>5, <1>6, <1>7 DEF Core, Preserved, SocketsKept

(* A send that fails: the endpoint gives its socket up.                    *)
LEMMA FailedSend ==
  ASSUME Core, NEW s \in Slots, UNCHANGED <<config, avail, m_sock>>,
         SendFails(s) \/ ajp_abort_endpoint(s)
  PROVE  /\ SocketsKept(s) /\ sd'[s] = 0
         /\ last_op' \in [Slots -> Operations]
         /\ \A x \in Slots : x # s => last_op'[x] = last_op[x]
  <1>1. ajp_abort_endpoint(s)
    BY DEF SendFails
  <1>2. SocketsKept(s) /\ sd'[s] = 0
    BY <1>1, GivingUp DEF ajp_abort_endpoint
  <1>3. last_op \in [Slots -> Operations]
    BY DEF Core, Typed, Operations
  <1> QED
    BY <1>1, <1>2, <1>3 DEF ajp_abort_endpoint, Operations

(* A thread whose attempt has failed, or whose request is over without a   *)
(* reply that allows reuse, needs nothing of its connection.               *)
LEMMA NoConnectionNeeded ==
  ASSUME Core, NEW t \in Threads, pc[t] \in InLoop, NEW p \in {"failed", "done"},
         pc'[t] = p, slot'[t] = slot[t], req'[t] = req[t], try'[t] = try[t],
         avail'[slot[t]] = avail[slot[t]], reuse'[slot[t]] = reuse[slot[t]],
         ClientOf(t)'
  PROVE  ThreadOK(t)'
  <1>1. ThreadOK(t) /\ pc[t] # "idle" /\ pc[t] # "service"
    BY DEF Core, InLoop
  <1>2. EndpointOf(t)'
    BY <1>1 DEF ThreadOK, EndpointOf, InLoop
  <1>3. ConnectionOf(t)'
    BY <1>1 DEF ThreadOK, EndpointOf, ConnectionOf
  <1> QED
    BY <1>2, <1>3 DEF ThreadOK

(* A thread looks for a connection to send its request on, at first and    *)
(* after an attempt that failed.                                           *)
LEMMA BeforeSending ==
  Core /\ Least /\ SocketLeft => \A t \in Threads :
    \/ ajp_service(t) \/ ajp_send_request(t) \/ StillConnected(t) \/ TryAnother(t)
    \/ ajp_connect_to_endpoint(t) \/ Retry(t)
    => Preserved
  (* Endpoint s gives its socket up and takes the socket of an idle one.     *)
  <1>Stealing.
    ASSUME Core, Least, NEW s \in Slots, ~ avail[s], UNCHANGED <<config, avail, m_sock>>,
           ajp_next_connection(s)
    PROVE  SocketsKept(s) /\ (sd'[s] # 0 => Clean(conn'[sd'[s]]))
    <2> USE <1>Stealing
    <2>1. CASE Cached = {}
      BY <2>1, GivingUp DEF ajp_next_connection
    <2>2. CASE Cached # {}
      <3> DEFINE K == {sd[s]} \ {0}
                 v == Min(Cached)
      <3>1. Sockets' = Sockets /\ Slots' = Slots /\ ep_cache_sz' = ep_cache_sz
        BY DEF Sockets, Slots, ep_cache_sz
      <3>2. /\ sd \in [Slots -> Sockets \union {0}] /\ Owners /\ CacheIsClean
            /\ config \in Configurations /\ 0 \notin Sockets
        BY Numbers DEF Core, Typed
      <3>3. Cached \in SUBSET Nat
        BY <3>2, Numbers DEF Cached
      <3>4. v \in Cached
        BY <2>2, <3>3 DEF Least
      <3>5. v \in Slots /\ avail[v] /\ sd[v] # 0 /\ v # s /\ sd[v] \in Sockets
        BY <3>2, <3>4 DEF Cached
      <3>6. sd' = [sd EXCEPT ![s] = sd[v], ![v] = 0] /\ CloseAll(K)
        BY <2>2 DEF ajp_next_connection
      <3> HIDE DEF v
      <3>7. K \in SUBSET Open
        BY <3>2 DEF Owners
      <3>8. /\ ConnOK' /\ orphans' \subseteq Attempts
            /\ \A k \in Sockets : conn'[k] = IF k \in K THEN NoConn ELSE conn[k]
            /\ Open' = Open \ K /\ SocketBook
        <4> HIDE DEF K
        <4> QED
          BY <3>6, <3>7, Closing DEF K
      <3>9. sd'[s] = sd[v] /\ sd'[v] = 0 /\ \A x \in Slots : x # s /\ x # v => sd'[x] = sd[x]
        BY <3>2, <3>5, <3>6
      <3>10. sd' \in [Slots -> Sockets \union {0}]
        BY <3>2, <3>5, <3>6
      <3>11. \A x \in Slots : x # s /\ sd[x] # 0 => conn'[sd[x]] = conn[sd[x]]
        BY SMT, <3>2, <3>8 DEF Owners
      <3>12. Owners'
        <4>1. \A x, u \in Slots : sd'[x] = sd'[u] /\ sd'[x] # 0 => x = u
          BY SMT, <3>2, <3>5, <3>9 DEF Owners
        <4>2. \A x \in Slots : sd'[x] \notin m_sock
          BY <3>2, <3>5, <3>9 DEF Core, Typed, Owners
        <4>3. ASSUME NEW k \in Sockets
              PROVE  k \in Open' <=> k \in m_sock \/ \E x \in Slots : sd'[x] = k
          <5>1. CASE k = sd[s]
            <6>1. k \notin Open' /\ k \notin m_sock
              BY <3>2, <3>8, <5>1 DEF Owners
            <6>2. ASSUME NEW x \in Slots, sd'[x] = k PROVE FALSE
              <7>1. sd[s] # 0
                BY <3>2, <5>1
              <7>2. \A u \in Slots : u # s => sd[u] # sd[s]
                BY <3>2, <7>1 DEF Owners
              <7> QED
                BY <3>2, <3>5, <3>9, <5>1, <6>2, <7>1, <7>2
            <6> QED
              BY <6>1, <6>2
          <5>2. CASE k # sd[s]
            <6>1. (\E x \in Slots : sd'[x] = k) => (\E x \in Slots : sd[x] = k)
              BY <3>2, <3>5, <3>9
            <6>2. ASSUME NEW x \in Slots, sd[x] = k PROVE \E u \in Slots : sd'[u] = k
              BY <3>5, <3>9, <5>2, <6>2
            <6>3. k \in Open' <=> k \in Open
              BY <3>8, <5>2
            <6> QED
              BY <3>2, <6>1, <6>2, <6>3 DEF Owners
          <5> QED
            BY <5>1, <5>2
        <4> QED
          BY <3>1, <3>2, <3>8, <4>1, <4>2, <4>3 DEF Owners
      <3>13. CacheIsClean'
        <4>1. ASSUME NEW x \in Cached' PROVE x \in Cached /\ x # s /\ sd'[x] = sd[x]
          BY <3>1, <3>9, <4>1 DEF Cached
        <4> QED
          BY <3>2, <3>11, <4>1 DEF CacheIsClean, Cached
      <3>14. Clean(conn'[sd'[s]])
        BY <3>2, <3>4, <3>5, <3>9, <3>11 DEF CacheIsClean, Clean, ClosedConn
      <3>15. \A x \in Slots : x # s /\ ~ avail[x] => sd'[x] = sd[x]
        BY <3>5, <3>9
      <3> QED
        BY <3>8, <3>10, <3>11, <3>12, <3>13, <3>14, <3>15 DEF SocketsKept
    <2> QED
      BY <2>1, <2>2
  (* A new connection is owned by endpoint s alone.                          *)
  <1>Connecting.
    ASSUME Core, Least, SocketLeft, NEW s \in Slots, ~ avail[s], sd[s] = 0,
           UNCHANGED <<config, avail, m_sock, orphans>>,
           NEW k, k = Min({x \in Sockets : conn[x] = NoConn}),
           sd' = [sd EXCEPT ![s] = k], conn' = [conn EXCEPT ![k] = NewConn],
           connected' = connected + 1
    PROVE  SocketsKept(s) /\ sd'[s] \in Sockets /\ conn'[sd'[s]] = NewConn
    <2> USE <1>Connecting
    <2>1. Sockets' = Sockets /\ Slots' = Slots
      BY DEF Sockets, Slots, ep_cache_sz
    <2>2. /\ sd \in [Slots -> Sockets \union {0}] /\ Owners /\ CacheIsClean /\ ConnOK
          /\ 0 \notin Sockets /\ Sockets \subseteq Nat
      BY Numbers DEF Core, Typed
    <2>3. k \in Sockets /\ conn[k] = NoConn
      <3> DEFINE F == {x \in Sockets : conn[x] = NoConn}
      <3>1. F # {} /\ F \in SUBSET Nat
        BY <2>2 DEF Open, SocketLeft
      <3> HIDE DEF F
      <3>2. Min(F) \in F
        BY <3>1 DEF Least
      <3> QED
        BY <3>2 DEF F
    <2>4. sd'[s] = k /\ \A x \in Slots : x # s => sd'[x] = sd[x] /\ sd[x] # k
      BY <2>2, <2>3 DEF Owners, Open
    <2>5. sd' \in [Slots -> Sockets \union {0}]
      BY <2>2, <2>3
    <2>6. conn'[k] = NewConn /\ NewConn # NoConn
           /\ \A x \in Sockets : x # k => conn'[x] = conn[x]
      BY <2>2, <2>3, Constants DEF ConnOK
    <2>7. ConnOK'
      BY <2>1, <2>2, <2>3, Constants DEF ConnOK
    <2>8. Open' = Open \union {k} /\ k \notin Open
      BY <2>1, <2>3, <2>6 DEF Open
    <2>9. SocketBook
      BY <2>3, <2>8 DEF SocketBook
    <2>10. Owners'
      <3>1. k \notin m_sock
        BY <2>2, <2>3 DEF Owners, Open
      <3>2. \A x, u \in Slots : sd'[x] = sd'[u] /\ sd'[x] # 0 => x = u
        BY <2>2, <2>4 DEF Owners
      <3>3. \A x \in Slots : sd'[x] \notin m_sock
        BY <2>2, <2>4, <3>1 DEF Owners
      <3>4. ASSUME NEW x \in Sockets
            PROVE  x \in Open' <=> x \in m_sock \/ \E u \in Slots : sd'[u] = x
        BY <2>2, <2>4, <2>8 DEF Owners
      <3> QED
        BY <2>1, <3>2, <3>3, <3>4 DEF Owners
    <2>11. CacheIsClean'
      <3>1. ASSUME NEW x \in Cached'
            PROVE  x \in Cached /\ sd'[x] = sd[x] /\ conn'[sd[x]] = conn[sd[x]]
        BY <2>1, <2>2, <2>4, <2>6, <3>1 DEF Cached
      <3> QED
        BY <2>2, <3>1 DEF CacheIsClean
    <2>12. \A x \in Slots : x # s /\ sd[x] # 0 => conn'[sd[x]] = conn[sd[x]]
      BY <2>2, <2>4, <2>6
    <2> QED
      BY <2>2, <2>3, <2>4, <2>5, <2>6, <2>7, <2>9, <2>10, <2>11, <2>12 DEF SocketsKept, Core, Typed
  (* ajp_service up to its loop.                                             *)
  <1>ServiceStep.
    ASSUME Core, NEW t \in Threads, ajp_service(t)
    PROVE  Preserved
    <2> USE <1>ServiceStep
    <2>1. pc[t] = "service" /\ slot[t] \in Slots /\ ThreadOK(t) /\ Typed
      BY Holding DEF ajp_service, Core
    <2>2. SocketsKept(slot[t])
      BY <2>1, NothingMoves DEF ajp_service, tomcatVars
    <2>3. PICK p \in {"send", "done"} : Frame(t, p)
      <3>1. PICK p \in {"send", "done"} :
              /\ At(t, p)
              /\ busy' = busy + (IF p \in InLoop THEN 1 ELSE 0) - (IF pc[t] \in InLoop THEN 1 ELSE 0)
        BY SMTT(60), <2>1 DEF ajp_service, InLoop, Typed
      <3>2. try' \in [Threads -> 0 .. retries]
        BY SMTT(60), <2>1, AjpAssumption DEF ajp_service, Typed
      <3>3. Frame(t, p)
        BY <2>1, <3>1, <3>2 DEF ajp_service, Frame, Typed, InLoop, Operations, tomcatVars
      <3> QED
        BY <3>3
    <2>4. ThreadOK(t)'
      <3>1. /\ pc'[t] = p /\ slot'[t] = slot[t] /\ req'[t] = req[t] /\ try'[t] = 1
            /\ reuse'[slot[t]] = FALSE /\ client'[t] = client[t]
            /\ UNCHANGED <<sd, avail, conn, config>>
        BY SMTT(60), <2>1, <2>3 DEF ajp_service, Typed, Frame, At, tomcatVars
      <3>2. EndpointOf(t)'
        BY SMTT(60), <2>1, <3>1, AjpAssumption DEF ThreadOK, EndpointOf, own, InLoop
      <3>3. ConnectionOf(t)'
        BY <2>1, <3>1 DEF ThreadOK, ConnectionOf, own
      <3>4. ClientOf(t)'
        BY <2>1, <3>1 DEF ThreadOK, ClientOf
      <3> QED
        BY <3>2, <3>3, <3>4 DEF ThreadOK
    <2> QED
      BY <2>1, <2>2, <2>3, <2>4, ThreadFrame
  (* The socket is still connected.                                          *)
  <1>StillConnectedStep.
    ASSUME Core, NEW t \in Threads, StillConnected(t)
    PROVE  Preserved
    <2> USE <1>StillConnectedStep
    <2>1. pc[t] = "check" /\ slot[t] \in Slots /\ ThreadOK(t) /\ Typed
      BY Holding DEF StillConnected, Core
    <2>2. SocketsKept(slot[t])
      BY <2>1, NothingMoves DEF StillConnected, epVars, tomcatVars
    <2>3. Frame(t, "forward")
      BY SMTT(60), <2>1 DEF StillConnected, Frame, Typed, InLoop, Operations, epVars, requestVars, tomcatVars
    <2>4. ThreadOK(t)'
      <3>1. /\ pc'[t] = "forward" /\ own(t)' = own(t) /\ Attempt(t)' = Attempt(t)
            /\ UNCHANGED <<config, sd, avail, reuse, last_op, slot, req, try, recoverable,
                           headeratclient, conn, client>>
        BY <2>1 DEF StillConnected, Typed, At, epVars, requestVars, tomcatVars, own, Attempt
      <3>2. EndpointOf(t)'
        BY <2>1, <3>1 DEF ThreadOK, EndpointOf, InLoop
      <3>3. ConnectionOf(t)'
        BY <2>1, <3>1 DEF ThreadOK, ConnectionOf
      <3>4. ClientOf(t)'
        BY <2>1, <3>1 DEF ThreadOK, ClientOf, recovery_opts
      <3> QED
        BY <3>2, <3>3, <3>4 DEF ThreadOK
    <2> QED
      BY <2>1, <2>2, <2>3, <2>4, ThreadFrame
  (* The start of an attempt.                                                *)
  <1>SendRequestStep.
    ASSUME Core, NEW t \in Threads, ajp_send_request(t)
    PROVE  Preserved
    <2> USE <1>SendRequestStep
    <2>1. pc[t] = "send" /\ slot[t] \in Slots /\ ThreadOK(t) /\ Typed
      BY Holding DEF ajp_send_request, Core
    <2> DEFINE p == IF sd'[slot[t]] # 0 THEN "check" ELSE "connect"
    <2>2. /\ SocketsKept(slot[t])
          /\ sd'[slot[t]] # 0 => UNCHANGED <<sd, conn>>
      <3>1. CASE ajp_abort_endpoint(slot[t])
        BY <2>1, <3>1, GivingUp DEF ajp_send_request, ajp_abort_endpoint
      <3>2. CASE UNCHANGED <<sd, last_op, conn, orphans, connected>>
        BY <2>1, <3>2, NothingMoves DEF ajp_send_request
      <3> QED
        BY <3>1, <3>2 DEF ajp_send_request
    <2>3. Frame(t, p)
      <3>1. /\ last_op' \in [Slots -> Operations]
            /\ \A x \in Slots : x # slot[t] => last_op'[x] = last_op[x]
        BY <2>1 DEF ajp_send_request, ajp_abort_endpoint, Typed, Operations
      <3>2. At(t, p) /\ p \in InLoop /\ pc[t] \in InLoop
        BY <2>1 DEF ajp_send_request, InLoop
      <3> QED
        BY SMTT(60), <2>1, <3>1, <3>2 DEF ajp_send_request, Frame, Typed
    <2>4. ThreadOK(t)'
      <3>1. /\ pc'[t] = p /\ Attempt(t)' = Attempt(t)
            /\ UNCHANGED <<config, avail, reuse, slot, req, try, client>>
        BY <2>1 DEF ajp_send_request, Typed, At, Attempt
      <3>2. EndpointOf(t)'
        BY <2>1, <3>1 DEF ThreadOK, EndpointOf, InLoop, own
      <3>3. ConnectionOf(t)'
        BY <2>1, <2>2, <3>1 DEF ThreadOK, ConnectionOf, own
      <3>4. ClientOf(t)'
        BY <2>1, <3>1 DEF ThreadOK, ClientOf, recovery_opts
      <3> QED
        BY <3>2, <3>3, <3>4 DEF ThreadOK
    <2> QED
      BY <2>1, <2>2, <2>3, <2>4, ThreadFrame
  (* The socket is not connected any more: another one is stolen.            *)
  <1>TryAnotherStep.
    ASSUME Core, Least, NEW t \in Threads, TryAnother(t)
    PROVE  Preserved
    <2> USE <1>TryAnotherStep
    <2>1. pc[t] = "check" /\ slot[t] \in Slots /\ ~ avail[slot[t]] /\ ThreadOK(t) /\ Typed
      BY Holding DEF TryAnother, Core
    <2> DEFINE p == IF sd'[slot[t]] # 0 THEN "check" ELSE "connect"
    <2>2. SocketsKept(slot[t]) /\ (sd'[slot[t]] # 0 => Clean(conn'[sd'[slot[t]]]))
      BY <2>1, <1>Stealing DEF TryAnother
    <2>3. Frame(t, p)
      <3>1. /\ last_op' \in [Slots -> Operations]
            /\ \A x \in Slots : x # slot[t] => last_op'[x] = last_op[x]
        BY <2>1 DEF TryAnother, Typed, Operations
      <3>2. At(t, p) /\ p \in InLoop /\ pc[t] \in InLoop
        BY <2>1 DEF TryAnother, InLoop
      <3> QED
        BY SMTT(60), <2>1, <3>1, <3>2 DEF TryAnother, Frame, Typed, requestVars
    <2>4. ThreadOK(t)'
      <3>1. /\ pc'[t] = p /\ Attempt(t)' = Attempt(t)
            /\ UNCHANGED <<config, avail, reuse, slot, req, try, client>>
        BY <2>1 DEF TryAnother, Typed, At, Attempt, requestVars
      <3>2. EndpointOf(t)'
        BY <2>1, <3>1 DEF ThreadOK, EndpointOf, InLoop, own
      <3>3. ConnectionOf(t)'
        BY <2>1, <2>2, <3>1 DEF ThreadOK, ConnectionOf, own
      <3>4. ClientOf(t)'
        BY <2>1, <3>1 DEF ThreadOK, ClientOf, recovery_opts
      <3> QED
        BY <3>2, <3>3, <3>4 DEF ThreadOK
    <2> QED
      BY <2>1, <2>2, <2>3, <2>4, ThreadFrame
  (* A new connection, if Tomcat runs.                                       *)
  <1>ConnectStep.
    ASSUME Core, Least, SocketLeft, NEW t \in Threads, ajp_connect_to_endpoint(t)
    PROVE  Preserved
    <2> USE <1>ConnectStep
    <2>1. pc[t] = "connect" /\ slot[t] \in Slots /\ ~ avail[slot[t]] /\ ThreadOK(t) /\ Typed
      BY Holding DEF ajp_connect_to_endpoint, Core
    <2> DEFINE p == IF up THEN "forward" ELSE "failed"
    <2>2. /\ SocketsKept(slot[t])
          /\ up => sd'[slot[t]] \in Sockets /\ conn'[sd'[slot[t]]] = NewConn
      <3>1. CASE up
        <4>1. sd[slot[t]] = 0
          BY <2>1 DEF ThreadOK, EndpointOf, own
        <4> QED
          BY <2>1, <3>1, <4>1, <1>Connecting DEF ajp_connect_to_endpoint
      <3>2. CASE ~ up
        BY <2>1, <3>2, NothingMoves DEF ajp_connect_to_endpoint
      <3> QED
        BY <3>1, <3>2
    <2>3. Frame(t, p)
      <3>1. At(t, p) /\ p \in InLoop /\ pc[t] \in InLoop
        BY <2>1 DEF ajp_connect_to_endpoint, InLoop
      <3> QED
        BY SMTT(60), <2>1, <3>1 DEF ajp_connect_to_endpoint, Frame, Typed, requestVars, Operations
    <2>4. ThreadOK(t)'
      <3>1. /\ pc'[t] = p /\ Attempt(t)' = Attempt(t)
            /\ UNCHANGED <<config, avail, reuse, slot, req, try, recoverable, client>>
        <4>1. At(t, p)
          BY DEF ajp_connect_to_endpoint
        <4> QED
          BY <2>1, <4>1 DEF ajp_connect_to_endpoint, Typed, At, Attempt, requestVars
      <3>2. 0 \notin Sockets
        BY <2>1, Numbers DEF Typed
      <3>3. EndpointOf(t)'
        BY <2>1, <2>2, <3>1, <3>2 DEF ThreadOK, EndpointOf, InLoop, own
      <3>4. ConnectionOf(t)'
        BY <2>1, <2>2, <3>1 DEF ThreadOK, ConnectionOf, own, Clean
      <3>5. ClientOf(t)'
        BY <2>1, <3>1 DEF ThreadOK, ClientOf, recovery_opts
      <3> QED
        BY <3>3, <3>4, <3>5 DEF ThreadOK
    <2> QED
      BY <2>1, <2>2, <2>3, <2>4, ThreadFrame
  (* After an attempt: another try, or the end.                              *)
  <1>RetryStep.
    ASSUME Core, Least, NEW t \in Threads, Retry(t)
    PROVE  Preserved
    <2> USE <1>RetryStep
    <2>1. /\ pc[t] = "failed" /\ pc[t] \in InLoop /\ ThreadOK(t) /\ Typed
          /\ slot[t] \in Slots /\ ~ avail[slot[t]] /\ try[t] \in 1 .. retries
          /\ req[t] \in Requests
      BY Holding DEF Retry, Core, InLoop
    <2>2. CASE recoverable[t] /\ try[t] < retries
      <3>1. /\ ajp_next_connection(slot[t]) /\ At(t, "send") /\ busy' = busy
            /\ try' = [try EXCEPT ![t] = @ + 1]
        BY <2>2 DEF Retry
      <3>2. SocketsKept(slot[t]) /\ (sd'[slot[t]] # 0 => Clean(conn'[sd'[slot[t]]]))
        BY <2>1, <3>1, <1>Stealing DEF Retry
      <3>3. try' \in [Threads -> 0 .. retries]
        <4>1. try[t] + 1 \in 0 .. retries /\ try \in [Threads -> 0 .. retries]
          BY SMTT(60), <2>1, <2>2, AjpAssumption DEF Typed
        <4> QED
          BY <3>1, <4>1
      <3>4. Frame(t, "send")
        BY SMTT(60), <2>1, <3>1, <3>3 DEF Retry, Frame, Typed, InLoop, Operations
      <3>5. /\ pc'[t] = "send" /\ try'[t] = try[t] + 1
            /\ UNCHANGED <<config, avail, reuse, slot, req, client>>
        BY <2>1, <3>1 DEF Retry, Typed, At
      <3>6. EndpointOf(t)'
        BY SMTT(60), <2>1, <2>2, <3>5, AjpAssumption DEF ThreadOK, EndpointOf, InLoop
      <3>7. ConnectionOf(t)'
        BY <3>2, <3>5 DEF ConnectionOf, own
      <3>8. ClientOf(t)'
        BY <2>1, <2>2, <3>5 DEF ThreadOK, ClientOf, recovery_opts
      <3> QED
        BY <2>1, <3>2, <3>4, <3>6, <3>7, <3>8, ThreadFrame DEF ThreadOK
    <2>3. CASE ~ (recoverable[t] /\ try[t] < retries)
      <3>1. /\ Finish(t) /\ UNCHANGED try
            /\ ajp_next_connection(slot[t]) \/ UNCHANGED <<sd, conn, orphans, connected>>
        BY <2>3 DEF Retry
      <3>2. SocketsKept(slot[t])
        <4>1. CASE ajp_next_connection(slot[t])
          BY <2>1, <4>1, <1>Stealing DEF Retry
        <4>2. CASE UNCHANGED <<sd, conn, orphans, connected>>
          BY <2>1, <4>2, NothingMoves DEF Retry
        <4> QED
          BY <3>1, <4>1, <4>2
      <3>3. Frame(t, "done")
        BY SMTT(60), <2>1, <3>1 DEF Retry, Finish, Frame, Typed, InLoop, Operations
      <3>4. /\ pc'[t] = "done" /\ Attempt(t)' = Attempt(t)
            /\ UNCHANGED <<config, avail, reuse, slot, req, try, client>>
        BY <2>1, <3>1 DEF Retry, Finish, Typed, At, Attempt
      <3>5. ClientOf(t)'
        BY <2>1, <3>4 DEF ThreadOK, ClientOf, recovery_opts
      <3>6. ThreadOK(t)'
        BY <2>1, <3>4, <3>5, NoConnectionNeeded
      <3> QED
        BY <2>1, <3>2, <3>3, <3>6, ThreadFrame
    <2> QED
      BY <2>2, <2>3
  <1> QED
    BY <1>ServiceStep, <1>StillConnectedStep, <1>SendRequestStep, <1>TryAnotherStep, <1>ConnectStep,
       <1>RetryStep

(* A thread sends its request, or the attempt fails.                       *)
LEMMA Sending ==
  Core => \A t \in Threads :
    Forward(t) \/ Post(t) \/ BrowserStops(t) \/ ReplyLost(t) => Preserved
  (* A request is sent on a connection that nobody used.                     *)
  <1>ForwardServes.
    ASSUME NEW c \in Connections, Clean(c), NEW a \in Attempts, NEW d,
           d = IF c.peer = "open" THEN [c EXCEPT !.inbox = Append(@, a)] ELSE c
    PROVE  Serves(d, a, FALSE) /\ d \in Connections /\ d.peer # "none" /\ d # NoConn
    <2> USE <1>ForwardServes
    <2>1. CASE c = NewConn
      <3>1. c = [peer |-> "open", inbox |-> <<>>, job |-> NoJob, wire |-> <<>>]
        BY <2>1 DEF NewConn, NoConn
      <3>2. d = [c EXCEPT !.inbox = Append(@, a)]
        BY <3>1
      <3>3. Append(c.inbox, a) = <<a>>
        BY SMT, <3>1
      <3>4. d = [peer |-> "open", inbox |-> <<a>>, job |-> NoJob, wire |-> <<>>]
        BY <3>1, <3>2, <3>3
      <3>5. <<a>> \in Seq(Attempts) /\ <<>> \in Seq(Messages) /\ NoJob \in [a : AnyAttempt, stage : Stages]
        BY SMT, Constants DEF Connections
      <3>6. d \in Connections
        BY SMT, <3>4, <3>5 DEF Connections
      <3>7. d.peer = "open" /\ d.inbox = <<a>> /\ d.job = NoJob /\ d.wire = <<>>
        <4> DEFINE r == [peer |-> "open", inbox |-> <<a>>, job |-> NoJob, wire |-> <<>>]
        <4>1. r.peer = "open" /\ r.inbox = <<a>> /\ r.job = NoJob /\ r.wire = <<>>
          OBVIOUS
        <4> HIDE DEF r
        <4> QED
          BY <4>1, <3>4 DEF r
      <3> QED
        BY <3>6, <3>7, Constants DEF Serves, Untaken
    <2>2. CASE c = ClosedConn
      <3>1. d = c /\ c.peer = "closed" /\ c.inbox = <<>> /\ c.job = NoJob /\ c.wire = <<>>
        BY <2>2, Constants
      <3>2. Said(d, a, 0, 0)
        BY SMT, <3>1 DEF Said
      <3> QED
        BY SMT, <3>1, <3>2, Constants DEF Serves
    <2> QED
      BY <2>1, <2>2 DEF Clean
  (* The request is sent.                                                    *)
  <1>ForwardStep.
    ASSUME Core, NEW t \in Threads, Forward(t)
    PROVE  Preserved
    <2> USE <1>ForwardStep
    <2>1. /\ pc[t] = "forward" /\ slot[t] \in Slots /\ ~ avail[slot[t]] /\ ThreadOK(t) /\ Typed
          /\ own(t) # 0 /\ own(t) \in Sockets /\ Clean(conn[own(t)])
          /\ conn[own(t)] \in Connections /\ Attempt(t) \in Attempts /\ pc[t] \in InLoop
      BY Holding DEF Forward, Core, ThreadOK, EndpointOf, ConnectionOf, InLoop
    <2> DEFINE k == own(t)
    <2>2. CASE /\ SendWorks(k, [conn[k] EXCEPT !.inbox = Append(@, Attempt(t))])
               /\ last_op' = [last_op EXCEPT ![slot[t]] = "FORWARD_REQUEST"]
               /\ headeratclient' = [headeratclient EXCEPT ![t] = FALSE]
               /\ At(t, IF req[t] \in Uploads THEN "post" ELSE "reply")
               /\ UNCHANGED <<sd, orphans, connected>>
      <3> DEFINE d == IF conn[k].peer = "open" THEN [conn[k] EXCEPT !.inbox = Append(@, Attempt(t))]
                                               ELSE conn[k]
                 p == IF req[t] \in Uploads THEN "post" ELSE "reply"
      <3>1. conn' = [conn EXCEPT ![k] = d]
        BY <2>1, <2>2 DEF SendWorks
      <3>2. Serves(d, Attempt(t), FALSE) /\ d \in Connections /\ d.peer # "none"
        BY <2>1, <1>ForwardServes
      <3> HIDE DEF d
      <3>3. SocketsKept(slot[t]) /\ conn'[k] = d
        BY <2>1, <2>2, <3>1, <3>2, OwnConnection DEF Forward, own
      <3>4. Frame(t, p)
        <4>1. At(t, p) /\ p \in InLoop
          BY <2>2 DEF InLoop
        <4> QED
          BY SMTT(60), <2>1, <2>2, <4>1 DEF Forward, Frame, Typed, Operations
      <3>5. ThreadOK(t)'
        <4>1. /\ pc'[t] = p /\ own(t)' = own(t) /\ Attempt(t)' = Attempt(t)
              /\ headeratclient'[t] = FALSE /\ conn'[own(t)] = d
              /\ UNCHANGED <<config, avail, reuse, slot, req, try, client>>
          BY <2>1, <2>2, <3>3 DEF Forward, Typed, At, Attempt, own
        <4>2. EndpointOf(t)'
          BY <2>1, <4>1 DEF ThreadOK, EndpointOf, InLoop
        <4>3. ConnectionOf(t)'
          BY <3>2, <4>1 DEF ConnectionOf
        <4>4. ClientOf(t)'
          BY <2>1, <4>1 DEF ThreadOK, ClientOf, recovery_opts
        <4> QED
          BY <4>2, <4>3, <4>4 DEF ThreadOK
      <3> QED
        BY <2>1, <3>3, <3>4, <3>5, ThreadFrame
    <2>3. CASE SendFails(slot[t]) /\ At(t, "failed") /\ UNCHANGED headeratclient
      <3>1. /\ SocketsKept(slot[t]) /\ last_op' \in [Slots -> Operations]
            /\ \A x \in Slots : x # slot[t] => last_op'[x] = last_op[x]
        BY <2>1, <2>3, FailedSend DEF Forward
      <3>2. Frame(t, "failed")
        BY SMTT(60), <2>1, <2>3, <3>1 DEF Forward, Frame, Typed, InLoop
      <3>3. ThreadOK(t)'
        <4>1. /\ pc'[t] = "failed" /\ Attempt(t)' = Attempt(t)
              /\ UNCHANGED <<config, avail, reuse, slot, req, try, client>>
          BY <2>1, <2>3 DEF Forward, Typed, At, Attempt
        <4>2. ClientOf(t)'
          BY <2>1, <4>1 DEF ThreadOK, ClientOf, recovery_opts
        <4> QED
          BY <2>1, <4>1, <4>2, NoConnectionNeeded
      <3> QED
        BY <2>1, <3>1, <3>2, <3>3, ThreadFrame
    <2> QED
      BY <2>2, <2>3 DEF Forward
  (* The first part of the body is sent.                                     *)
  <1>PostStep.
    ASSUME Core, NEW t \in Threads, Post(t)
    PROVE  Preserved
    <2> USE <1>PostStep
    <2>1. /\ pc[t] = "post" /\ slot[t] \in Slots /\ ~ avail[slot[t]] /\ ThreadOK(t) /\ Typed
          /\ pc[t] \in InLoop
      BY Holding DEF Post, Core, InLoop
    <2>2. CASE At(t, "reply") /\ UNCHANGED <<sd, last_op, conn, orphans, connected>>
      <3>1. SocketsKept(slot[t])
        BY <2>1, <2>2, NothingMoves DEF Post
      <3>2. Frame(t, "reply")
        BY SMTT(60), <2>1, <2>2 DEF Post, Frame, Typed, InLoop, Operations
      <3>3. ThreadOK(t)'
        <4>1. /\ pc'[t] = "reply" /\ own(t)' = own(t) /\ Attempt(t)' = Attempt(t)
              /\ UNCHANGED <<config, sd, avail, reuse, last_op, conn, slot, req, try,
                             headeratclient, client>>
          BY <2>1, <2>2 DEF Post, Typed, At, Attempt, own
        <4>2. EndpointOf(t)'
          BY <2>1, <4>1 DEF ThreadOK, EndpointOf, InLoop
        <4>3. ConnectionOf(t)'
          BY <2>1, <4>1 DEF ThreadOK, ConnectionOf
        <4>4. ClientOf(t)'
          BY <2>1, <4>1 DEF ThreadOK, ClientOf, recovery_opts
        <4> QED
          BY <4>2, <4>3, <4>4 DEF ThreadOK
      <3> QED
        BY <2>1, <3>1, <3>2, <3>3, ThreadFrame
    <2>3. CASE SendFails(slot[t]) /\ At(t, "failed")
      <3>1. /\ SocketsKept(slot[t]) /\ last_op' \in [Slots -> Operations]
            /\ \A x \in Slots : x # slot[t] => last_op'[x] = last_op[x]
        BY <2>1, <2>3, FailedSend DEF Post
      <3>2. Frame(t, "failed")
        BY SMTT(60), <2>1, <2>3, <3>1 DEF Post, Frame, Typed, InLoop
      <3>3. ThreadOK(t)'
        <4>1. /\ pc'[t] = "failed" /\ Attempt(t)' = Attempt(t)
              /\ UNCHANGED <<config, avail, reuse, slot, req, try, client>>
          BY <2>1, <2>3 DEF Post, Typed, At, Attempt
        <4>2. ClientOf(t)'
          BY <2>1, <4>1 DEF ThreadOK, ClientOf, recovery_opts
        <4> QED
          BY <2>1, <4>1, <4>2, NoConnectionNeeded
      <3> QED
        BY <2>1, <3>1, <3>2, <3>3, ThreadFrame
    <2> QED
      BY <2>2, <2>3 DEF Post
  (* The client sends no body.                                               *)
  <1>BrowserStopsStep.
    ASSUME Core, NEW t \in Threads, BrowserStops(t)
    PROVE  Preserved
    <2> USE <1>BrowserStopsStep
    <2>1. /\ pc[t] = "post" /\ slot[t] \in Slots /\ ~ avail[slot[t]] /\ ThreadOK(t) /\ Typed
          /\ pc[t] \in InLoop
      BY Holding DEF BrowserStops, Core, InLoop
    <2>2. /\ SocketsKept(slot[t]) /\ last_op' \in [Slots -> Operations]
          /\ \A x \in Slots : x # slot[t] => last_op'[x] = last_op[x]
      <3>1. CASE UNCHANGED <<sd, last_op, conn, orphans, connected>>
        BY <2>1, <3>1, NothingMoves DEF BrowserStops, Typed, Operations
      <3>2. CASE SendFails(slot[t])
        BY <2>1, <3>2, FailedSend DEF BrowserStops
      <3> QED
        BY <3>1, <3>2 DEF BrowserStops
    <2>3. Frame(t, "done")
      BY SMTT(60), <2>1, <2>2 DEF BrowserStops, Finish, Frame, Typed, InLoop
    <2>4. ThreadOK(t)'
      <3>1. /\ pc'[t] = "done" /\ Attempt(t)' = Attempt(t)
            /\ UNCHANGED <<config, avail, reuse, slot, req, try, client>>
        BY <2>1 DEF BrowserStops, Finish, Typed, At, Attempt
      <3>2. ClientOf(t)'
        BY <2>1, <3>1 DEF ThreadOK, ClientOf, recovery_opts
      <3> QED
        BY <2>1, <3>1, <3>2, NoConnectionNeeded
    <2> QED
      BY <2>1, <2>2, <2>3, <2>4, ThreadFrame
  (* The reply is lost: repeated is only what the client has no part of, if  *)
  (* the recovery options say so.                                            *)
  <1>ReplyLostStep.
    ASSUME Core, NEW t \in Threads, ReplyLost(t)
    PROVE  Preserved
    <2> USE <1>ReplyLostStep
    <2>1. /\ pc[t] = "reply" /\ slot[t] \in Slots /\ ~ avail[slot[t]] /\ ThreadOK(t) /\ Typed
          /\ pc[t] \in InLoop
      BY Holding DEF ReplyLost, Core, InLoop
    <2>2. /\ SocketsKept(slot[t]) /\ last_op' \in [Slots -> Operations]
          /\ \A x \in Slots : x # slot[t] => last_op'[x] = last_op[x]
      BY <2>1, FailedSend DEF ReplyLost
    <2>3. Recovers(t) \in BOOLEAN
      BY <2>1 DEF Recovers, Typed
    <2>4. Frame(t, "failed")
      <3>1. recoverable' \in [Threads -> BOOLEAN] /\ \A u \in Threads : u # t => recoverable'[u] = recoverable[u]
        BY <2>1, <2>3 DEF ReplyLost, Typed
      <3> QED
        BY SMTT(60), <2>1, <2>2, <3>1 DEF ReplyLost, Frame, Typed, InLoop
    <2>5. ThreadOK(t)'
      <3>1. /\ pc'[t] = "failed" /\ Attempt(t)' = Attempt(t) /\ recoverable'[t] = Recovers(t)
            /\ UNCHANGED <<config, avail, reuse, slot, req, try, client>>
        BY <2>1 DEF ReplyLost, Typed, At, Attempt
      <3>2. ClientOf(t)'
        BY <2>1, <3>1 DEF ThreadOK, ClientOf, recovery_opts, Recovers
      <3> QED
        BY <2>1, <3>1, <3>2, NoConnectionNeeded
    <2> QED
      BY <2>1, <2>2, <2>4, <2>5, ThreadFrame
  <1> QED
    BY <1>ForwardStep, <1>PostStep, <1>BrowserStopsStep, <1>ReplyLostStep

(* A thread reads a message of the reply.                                  *)
LEMMA Receiving ==
  Core => \A t \in Threads :
    SendHeaders(t) \/ SendBodyChunk(t) \/ GetBodyChunk(t) \/ EndResponse(t) => Preserved
  (* Tomcat is given the part of the body that it asked for.                 *)
  <1>FeedServes.
    ASSUME NEW c \in Connections, NEW a \in Attempts, Asked(c, a),
           NEW d \in Connections, d.peer = c.peer, d.inbox = c.inbox, d.wire = Tail(c.wire),
           d.job.a = c.job.a,
           IF c.peer = "open" THEN d.job.stage = "fed" ELSE d.job = c.job
    PROVE  Serves(d, a, FALSE)
    <2> USE <1>FeedServes
    <2>1. c.wire \in Seq(Messages) /\ Len(c.wire) = 1
      BY DEF Connections, Asked
    <2>2. Len(d.wire) = 0
      BY SMT, <2>1
    <2>3. Said(d, a, 0, 0)
      BY SMT, <2>2 DEF Asked, Said, StageAfter
    <2> QED
      BY SMTT(60), <2>3 DEF Serves
  (* The headers of the reply.                                               *)
  <1>SendHeadersStep.
    ASSUME Core, NEW t \in Threads, SendHeaders(t)
    PROVE  Preserved
    <2> USE <1>SendHeadersStep
    <2>1. /\ pc[t] = "reply" /\ pc[t] \in InLoop /\ ThreadOK(t) /\ Typed
          /\ slot[t] \in Slots /\ ~ avail[slot[t]] /\ own(t) # 0 /\ own(t) \in Sockets
          /\ Message(t).a = Attempt(t) /\ Attempt(t) \in Attempts
      BY Reading DEF SendHeaders
    <2>2. PICK d \in Connections :
            /\ conn' = [conn EXCEPT ![own(t)] = d] /\ d.peer # "none"
            /\ ~ headeratclient[t] /\ Serves(d, Attempt(t), TRUE)
      BY Reading DEF SendHeaders
    <2>3. SocketsKept(slot[t]) /\ conn'[own(t)] = d
      BY <2>1, <2>2, OwnConnection DEF SendHeaders, own
    <2>4. CASE last_op[slot[t]] = "SEND_HEADERS"
      <3>1. Frame(t, "failed")
        BY SMTT(60), <2>1, <2>4 DEF SendHeaders, LastOp, Frame, Typed, InLoop, Operations
      <3>2. /\ pc'[t] = "failed" /\ Attempt(t)' = Attempt(t)
            /\ UNCHANGED <<config, avail, reuse, slot, req, try, recoverable, client>>
        BY <2>1, <2>4 DEF SendHeaders, Typed, At, Attempt
      <3>3. ClientOf(t)'
        BY <2>1, <2>2, <3>2 DEF ThreadOK, ClientOf, recovery_opts
      <3>4. ThreadOK(t)'
        BY <2>1, <3>2, <3>3, NoConnectionNeeded
      <3> QED
        BY <2>1, <2>3, <3>1, <3>4, ThreadFrame
    <2>5. CASE last_op[slot[t]] # "SEND_HEADERS"
      <3>1. /\ At(t, "reply") /\ ToClient(t) /\ LastOp(t, "SEND_HEADERS")
            /\ headeratclient' = [headeratclient EXCEPT ![t] = TRUE]
            /\ recoverable' = [recoverable EXCEPT ![t] = @ /\ TRUE]
        BY <2>2, <2>5 DEF SendHeaders
      <3>2. recoverable' = recoverable
        BY <2>1, <3>1 DEF Typed
      <3>3. Frame(t, "reply")
        BY SMTT(60), <2>1, <3>1, <3>2 DEF SendHeaders, LastOp, ToClient, Frame, Typed, InLoop, Operations
      <3>4. /\ pc'[t] = "reply" /\ Attempt(t)' = Attempt(t) /\ own(t)' = own(t)
            /\ headeratclient'[t] = TRUE /\ last_op'[slot[t]] = "SEND_HEADERS"
            /\ client'[t] = client[t] \union {Attempt(t)}
            /\ UNCHANGED <<config, sd, avail, reuse, slot, req, try>>
        BY <2>1, <3>1 DEF SendHeaders, LastOp, ToClient, Typed, At, Attempt, own
      <3>5. EndpointOf(t)'
        BY <2>1, <3>4 DEF ThreadOK, EndpointOf
      <3>6. ConnectionOf(t)'
        BY <2>2, <2>3, <3>4 DEF ConnectionOf
      <3>7. ClientOf(t)'
        <4>1. Attempt(t)[1] = req[t]
          BY DEF Attempt
        <4> QED
          BY <2>1, <3>4, <4>1 DEF ThreadOK, ClientOf, recovery_opts
      <3> QED
        BY <2>1, <2>3, <3>3, <3>5, <3>6, <3>7, ThreadFrame DEF ThreadOK
    <2> QED
      BY <2>4, <2>5
  (* A part of the body of the reply.                                        *)
  <1>SendBodyChunkStep.
    ASSUME Core, NEW t \in Threads, SendBodyChunk(t)
    PROVE  Preserved
    <2> USE <1>SendBodyChunkStep
    <2>1. /\ pc[t] = "reply" /\ pc[t] \in InLoop /\ ThreadOK(t) /\ Typed
          /\ slot[t] \in Slots /\ ~ avail[slot[t]] /\ own(t) # 0 /\ own(t) \in Sockets
          /\ Message(t).a = Attempt(t) /\ Attempt(t) \in Attempts
      BY Reading DEF SendBodyChunk
    <2>2. PICK d \in Connections :
            /\ conn' = [conn EXCEPT ![own(t)] = d] /\ d.peer # "none"
            /\ headeratclient[t] /\ Serves(d, Attempt(t), TRUE)
      BY Reading DEF SendBodyChunk
    <2>3. SocketsKept(slot[t]) /\ conn'[own(t)] = d
      BY <2>1, <2>2, OwnConnection DEF SendBodyChunk, own
    <2>4. last_op[slot[t]] # "FORWARD_REQUEST"
      BY <2>1, <2>2 DEF ThreadOK, ConnectionOf
    <2>5. CASE ToClient(t) /\ LastOp(t, "NO_RESPONSE") /\ UNCHANGED <<pc, busy, recoverable>>
      <3>1. At(t, "reply")
        BY <2>1, <2>5 DEF At, Typed
      <3>2. Frame(t, "reply")
        BY SMTT(60), <2>1, <2>5, <3>1 DEF SendBodyChunk, LastOp, ToClient, Frame, Typed, InLoop, Operations
      <3>3. /\ pc'[t] = "reply" /\ Attempt(t)' = Attempt(t) /\ own(t)' = own(t)
            /\ headeratclient'[t] = TRUE /\ last_op'[slot[t]] = "NO_RESPONSE"
            /\ client'[t] = client[t] \union {Attempt(t)}
            /\ UNCHANGED <<config, sd, avail, reuse, slot, req, try>>
        BY <2>1, <2>2, <2>5 DEF SendBodyChunk, LastOp, ToClient, Typed, Attempt, own
      <3>4. EndpointOf(t)'
        BY <2>1, <3>3 DEF ThreadOK, EndpointOf
      <3>5. ConnectionOf(t)'
        BY <2>2, <2>3, <3>3 DEF ConnectionOf
      <3>6. ClientOf(t)'
        <4>1. Attempt(t)[1] = req[t]
          BY DEF Attempt
        <4> QED
          BY <2>1, <3>3, <4>1 DEF ThreadOK, ClientOf, recovery_opts
      <3> QED
        BY <2>1, <2>3, <3>2, <3>4, <3>5, <3>6, ThreadFrame DEF ThreadOK
    <2>6. CASE /\ LastOp(t, "CLIENT_WR_ERROR")
               /\ recoverable' = [recoverable EXCEPT ![t] = FALSE]
               /\ Finish(t)
               /\ UNCHANGED client
      <3>1. Frame(t, "done")
        BY SMTT(60), <2>1, <2>6 DEF SendBodyChunk, LastOp, Finish, Frame, Typed, InLoop, Operations
      <3>2. /\ pc'[t] = "done" /\ Attempt(t)' = Attempt(t)
            /\ UNCHANGED <<config, avail, reuse, slot, req, try, client>>
        BY <2>1, <2>6 DEF SendBodyChunk, Finish, Typed, At, Attempt
      <3>3. ClientOf(t)'
        BY <2>1, <3>2 DEF ThreadOK, ClientOf, recovery_opts
      <3>4. ThreadOK(t)'
        BY <2>1, <3>2, <3>3, NoConnectionNeeded
      <3> QED
        BY <2>1, <2>3, <3>1, <3>4, ThreadFrame
    <2> QED
      BY <2>4, <2>5, <2>6 DEF SendBodyChunk
  (* Tomcat asks for more of the body.                                       *)
  <1>GetBodyChunkStep.
    ASSUME Core, NEW t \in Threads, GetBodyChunk(t)
    PROVE  Preserved
    <2> USE <1>GetBodyChunkStep
    <2> DEFINE k == own(t)
    <2>1. /\ pc[t] = "reply" /\ pc[t] \in InLoop /\ ThreadOK(t) /\ Typed
          /\ slot[t] \in Slots /\ ~ avail[slot[t]] /\ k # 0 /\ k \in Sockets
          /\ Attempt(t) \in Attempts /\ conn[k] \in Connections /\ conn[k].peer # "none"
          /\ Asked(conn[k], Attempt(t)) /\ ~ headeratclient[t]
      BY Reading DEF GetBodyChunk
    <2>2. conn \in [Sockets -> Connections]
      BY DEF Core, ConnOK
    <2>3. CASE /\ conn' = [Read(k) EXCEPT ![k].job.stage = IF conn[k].peer = "open" THEN "fed" ELSE @]
               /\ LastOp(t, "HAS_RESPONSE")
               /\ UNCHANGED <<sd, orphans, connected, pc, busy>>
      <3> DEFINE c == conn[k]
                 stage == IF c.peer = "open" THEN "fed" ELSE c.job.stage
                 d == [c EXCEPT !.wire = Tail(@), !.job.stage = stage]
      <3>1. c.wire \in Seq(Messages) /\ c.job \in [a : AnyAttempt, stage : Stages] /\ c.wire # <<>>
        BY SMTT(60), <2>1 DEF Connections, Asked
      <3>2. Tail(c.wire) \in Seq(Messages) /\ stage \in Stages
        BY SMTT(60), <3>1 DEF Stages
      <3>3. conn' = [conn EXCEPT ![k] = d]
        BY <2>1, <2>2, <2>3 DEF Read
      <3> HIDE DEF stage
      <3>4. d \in Connections
        BY <2>1, <3>1, <3>2 DEF Connections
      <3>5. /\ d.peer = c.peer /\ d.inbox = c.inbox /\ d.wire = Tail(c.wire)
            /\ d.job.a = c.job.a /\ d.job.stage = stage
        BY <2>1, <3>1 DEF Connections
      <3>6. stage = c.job.stage => d.job = c.job
        BY <2>1, <3>1 DEF Connections
      <3>7. IF c.peer = "open" THEN d.job.stage = "fed" ELSE d.job = c.job
        BY <3>5, <3>6 DEF stage
      <3> HIDE DEF d
      <3>8. Serves(d, Attempt(t), FALSE)
        BY <2>1, <3>4, <3>5, <3>7, <1>FeedServes
      <3>9. SocketsKept(slot[t]) /\ conn'[k] = d
        BY <2>1, <2>3, <3>3, <3>4, <3>5, OwnConnection DEF GetBodyChunk, own
      <3>10. At(t, "reply")
        BY <2>1, <2>3 DEF At, Typed
      <3>11. Frame(t, "reply")
        BY SMTT(60), <2>1, <2>3, <3>10 DEF GetBodyChunk, LastOp, Frame, Typed, InLoop, Operations
      <3>12. /\ pc'[t] = "reply" /\ Attempt(t)' = Attempt(t) /\ own(t)' = own(t)
             /\ headeratclient'[t] = FALSE
             /\ UNCHANGED <<config, sd, avail, reuse, slot, req, try, client>>
        BY <2>1, <2>3 DEF GetBodyChunk, Typed, Attempt, own
      <3>13. EndpointOf(t)'
        BY <2>1, <3>12 DEF ThreadOK, EndpointOf
      <3>14. ConnectionOf(t)'
        BY <3>8, <3>9, <3>12 DEF ConnectionOf
      <3>15. ClientOf(t)'
        BY <2>1, <3>12 DEF ThreadOK, ClientOf, recovery_opts
      <3> QED
        BY <2>1, <3>9, <3>11, <3>13, <3>14, <3>15, ThreadFrame DEF ThreadOK
    <2>4. CASE SendFails(slot[t]) /\ At(t, "failed") /\ UNCHANGED busy
      <3>1. /\ SocketsKept(slot[t]) /\ last_op' \in [Slots -> Operations]
            /\ \A x \in Slots : x # slot[t] => last_op'[x] = last_op[x]
        BY <2>1, <2>4, FailedSend DEF GetBodyChunk
      <3>2. Frame(t, "failed")
        BY SMTT(60), <2>1, <2>4, <3>1 DEF GetBodyChunk, Frame, Typed, InLoop
      <3>3. /\ pc'[t] = "failed" /\ Attempt(t)' = Attempt(t) /\ recoverable'[t] = FALSE
            /\ UNCHANGED <<config, avail, reuse, slot, req, try, client>>
        BY <2>1, <2>4 DEF GetBodyChunk, Typed, At, Attempt
      <3>4. ClientOf(t)'
        BY <2>1, <3>3 DEF ThreadOK, ClientOf, recovery_opts
      <3>5. ThreadOK(t)'
        BY <2>1, <3>3, <3>4, NoConnectionNeeded
      <3> QED
        BY <2>1, <3>1, <3>2, <3>5, ThreadFrame
    <2>5. CASE /\ conn' = Read(k) /\ LastOp(t, "CLIENT_RD_ERROR") /\ Finish(t)
               /\ UNCHANGED <<sd, orphans, connected>>
      <3>1. PICK d \in Connections : conn' = [conn EXCEPT ![k] = d] /\ d.peer # "none"
        BY <2>5, Reading DEF GetBodyChunk
      <3>2. SocketsKept(slot[t])
        BY <2>1, <2>5, <3>1, OwnConnection DEF GetBodyChunk, own
      <3>3. Frame(t, "done")
        BY SMTT(60), <2>1, <2>5 DEF GetBodyChunk, LastOp, Finish, Frame, Typed, InLoop, Operations
      <3>4. /\ pc'[t] = "done" /\ Attempt(t)' = Attempt(t)
            /\ UNCHANGED <<config, avail, reuse, slot, req, try, client>>
        BY <2>1, <2>5 DEF GetBodyChunk, Finish, Typed, At, Attempt
      <3>5. ClientOf(t)'
        BY <2>1, <3>4 DEF ThreadOK, ClientOf, recovery_opts
      <3>6. ThreadOK(t)'
        BY <2>1, <3>4, <3>5, NoConnectionNeeded
      <3> QED
        BY <2>1, <3>2, <3>3, <3>6, ThreadFrame
    <2> QED
      BY <2>3, <2>4, <2>5 DEF GetBodyChunk
  (* The end of the reply: nothing is left on the connection.                *)
  <1>EndResponseStep.
    ASSUME Core, NEW t \in Threads, EndResponse(t)
    PROVE  Preserved
    <2> USE <1>EndResponseStep
    <2>1. /\ pc[t] = "reply" /\ pc[t] \in InLoop /\ ThreadOK(t) /\ Typed
          /\ slot[t] \in Slots /\ ~ avail[slot[t]] /\ own(t) # 0 /\ own(t) \in Sockets
          /\ Message(t).a = Attempt(t) /\ Attempt(t) \in Attempts /\ Message(t).reuse \in BOOLEAN
      BY Reading DEF EndResponse
    <2>2. PICK d \in Connections :
            conn' = [conn EXCEPT ![own(t)] = d] /\ d.peer # "none" /\ Clean(d)
      BY Reading DEF EndResponse
    <2>3. SocketsKept(slot[t]) /\ conn'[own(t)] = d
      BY <2>1, <2>2, OwnConnection DEF EndResponse, own
    <2>4. Frame(t, "done")
      BY SMTT(60), <2>1 DEF EndResponse, LastOp, ToClient, Finish, Frame, Typed, InLoop, Operations, requestVars
    <2>5. /\ pc'[t] = "done" /\ Attempt(t)' = Attempt(t) /\ own(t)' = own(t)
          /\ client'[t] = client[t] \union {Attempt(t)}
          /\ UNCHANGED <<config, sd, avail, slot, req, try>>
      BY <2>1 DEF EndResponse, ToClient, Finish, Typed, At, Attempt, own, requestVars
    <2>6. EndpointOf(t)'
      BY <2>1, <2>5 DEF ThreadOK, EndpointOf, InLoop
    <2>7. ConnectionOf(t)'
      BY <2>2, <2>3, <2>5 DEF ConnectionOf
    <2>8. ClientOf(t)'
      <3>1. Attempt(t)[1] = req[t]
        BY DEF Attempt
      <3> QED
        BY <2>1, <2>5, <3>1 DEF ThreadOK, ClientOf, recovery_opts
    <2> QED
      BY <2>1, <2>3, <2>4, <2>6, <2>7, <2>8, ThreadFrame DEF ThreadOK
  <1> QED
    BY <1>SendHeadersStep, <1>SendBodyChunkStep, <1>GetBodyChunkStep, <1>EndResponseStep

(* A thread takes an endpoint, finds none, or gives its endpoint back.     *)
LEMMA ChangingHands ==
  Core /\ Least => \A t \in Threads :
    ajp_get_endpoint(t) \/ NoEndpoint(t) \/ ajp_done(t) => Preserved
  (* The sockets of a set of idle endpoints are closed.                      *)
  <1>ClosingIdle.
    ASSUME Core, UNCHANGED <<config, m_sock>>, NEW S \in SUBSET Cached,
           CloseAll({sd[x] : x \in S}), sd' = [x \in Slots |-> IF x \in S THEN 0 ELSE sd[x]],
           \A x \in Slots : avail'[x] => avail[x]
    PROVE  /\ Owners' /\ ConnOK' /\ CacheIsClean'
           /\ sd' \in [Slots -> Sockets \union {0}] /\ SocketBook /\ orphans' \subseteq Attempts
           /\ \A x \in Slots : x \notin S =>
                sd'[x] = sd[x] /\ (sd[x] # 0 => conn'[sd[x]] = conn[sd[x]])
    <2> USE <1>ClosingIdle
    <2> DEFINE K == {sd[x] : x \in S}
    <2>1. Sockets' = Sockets /\ Slots' = Slots /\ ep_cache_sz' = ep_cache_sz
      BY DEF Sockets, Slots, ep_cache_sz
    <2>2. /\ sd \in [Slots -> Sockets \union {0}] /\ Owners /\ CacheIsClean
          /\ config \in Configurations /\ 0 \notin Sockets /\ m_sock \subseteq Sockets
      BY Numbers DEF Core, Typed
    <2>3. \A x \in S : x \in Slots /\ sd[x] # 0 /\ sd[x] \in Sockets
      BY <2>2 DEF Cached
    <2>4. K \in SUBSET Open
      BY SMTT(60), <2>2, <2>3 DEF Owners
    <2>5. /\ ConnOK' /\ orphans' \subseteq Attempts
          /\ \A k \in Sockets : conn'[k] = IF k \in K THEN NoConn ELSE conn[k]
          /\ Open' = Open \ K /\ SocketBook
      <3> HIDE DEF K
      <3> QED
        BY <2>4, Closing DEF K
    <2>6. \A x \in Slots : sd[x] # 0 /\ sd[x] \in K => x \in S
      BY <2>2, <2>3 DEF Owners
    <2>7. /\ \A x \in S : sd[x] \in K /\ sd'[x] = 0
          /\ \A x \in Slots : x \notin S => sd'[x] = sd[x]
          /\ \A k \in K : \E x \in S : k = sd[x]
      BY <2>3
    <2> HIDE DEF K
    <2>8. \A x \in Slots : x \notin S /\ sd[x] # 0 => conn'[sd[x]] = conn[sd[x]]
      BY <2>2, <2>5, <2>6
    <2>9. Owners'
      <3>1. \A x, u \in Slots : sd'[x] = sd'[u] /\ sd'[x] # 0 => x = u
        BY <2>2, <2>7 DEF Owners
      <3>2. \A x \in Slots : sd'[x] \notin m_sock
        BY <2>2, <2>7 DEF Owners
      <3>3. ASSUME NEW k \in Sockets
            PROVE  k \in Open' <=> k \in m_sock \/ \E x \in Slots : sd'[x] = k
        <4>1. CASE k \in K
          <5>1. k \notin Open' /\ k \notin m_sock /\ k # 0
            BY SMTT(60), <2>2, <2>3, <2>5, <2>7, <4>1 DEF Owners
          <5>2. ASSUME NEW x \in Slots, sd'[x] = k PROVE FALSE
            BY <2>6, <2>7, <4>1, <5>1, <5>2
          <5> QED
            BY <5>1, <5>2
        <4>2. CASE k \notin K
          <5>1. (\E x \in Slots : sd'[x] = k) <=> (\E x \in Slots : sd[x] = k)
            BY <2>2, <2>7, <4>2
          <5> QED
            BY <2>2, <2>5, <4>2, <5>1 DEF Owners
        <4> QED
          BY <4>1, <4>2
      <3> QED
        BY <2>1, <2>2, <2>5, <3>1, <3>2, <3>3 DEF Owners
    <2>10. CacheIsClean'
      <3>1. ASSUME NEW x \in Cached' PROVE x \in Cached /\ x \notin S /\ sd'[x] = sd[x]
        BY <2>1, <2>7, <3>1 DEF Cached
      <3> QED
        BY <2>2, <2>8, <3>1 DEF CacheIsClean, Cached
    <2>11. sd' \in [Slots -> Sockets \union {0}]
      BY <2>2
    <2> QED
      BY <2>5, <2>7, <2>8, <2>9, <2>10, <2>11
  (* A thread takes an endpoint.                                             *)
  <1>GetEndpointStep.
    ASSUME Core, Least, NEW t \in Threads, ajp_get_endpoint(t)
    PROVE  Preserved
    <2> USE <1>GetEndpointStep
    <2> DEFINE reusable == {s \in Cached : reuse[s]}
               stale == {s \in Cached \ reusable : \A u \in reusable : s < u}
               free == {s \in Slots : avail[s]}
               e == IF reusable # {} THEN Min(reusable) ELSE Min(free)
    <2>1. /\ pc[t] = "idle" /\ next \in Requests /\ free # {}
          /\ CloseAll({sd[x] : x \in stale})
          /\ sd' = [x \in Slots |-> IF x \in stale THEN 0 ELSE sd[x]]
          /\ last_op' = [x \in Slots |-> IF x \in stale THEN "END_RESPONSE" ELSE last_op[x]]
          /\ avail' = [avail EXCEPT ![e] = FALSE]
          /\ slot' = [slot EXCEPT ![t] = e]
          /\ req' = [req EXCEPT ![t] = next]
          /\ next' = next + 1
          /\ At(t, "service")
          /\ UNCHANGED <<config, reuse, busy, m_sock, try, recoverable, headeratclient,
                         posted, up, faults, executed, client>>
      BY DEF ajp_get_endpoint
    <2>2. Typed /\ ThreadOK(t) /\ Holders /\ Slots \subseteq Nat \ {0}
      BY Numbers DEF Core, Typed
    <2>3. e \in Slots /\ avail[e]
      <3>1. CASE reusable # {}
        <4>1. reusable \in SUBSET Nat
          BY <2>2 DEF Cached
        <4> HIDE DEF reusable
        <4>2. Min(reusable) \in reusable
          BY <3>1, <4>1 DEF Least
        <4> QED
          BY <3>1, <4>2 DEF Cached, reusable
      <3>2. CASE reusable = {}
        <4>1. free \in SUBSET Nat
          BY <2>2
        <4> HIDE DEF free, reusable
        <4>2. Min(free) \in free
          BY <2>1, <4>1 DEF Least
        <4> QED
          BY <3>2, <4>2 DEF free
      <3> QED
        BY <3>1, <3>2
    <2>4. stale \in SUBSET Cached
      OBVIOUS
    <2> HIDE DEF stale, e, free, reusable
    <2>5. Slots' = Slots /\ Sockets' = Sockets
      BY <2>1 DEF Slots, Sockets, ep_cache_sz
    <2>6. avail'[e] = FALSE /\ \A x \in Slots : x # e => avail'[x] = avail[x]
      BY <2>1, <2>2, <2>3 DEF Typed
    <2>7. /\ Owners' /\ ConnOK' /\ CacheIsClean'
          /\ sd' \in [Slots -> Sockets \union {0}] /\ SocketBook /\ orphans' \subseteq Attempts
          /\ \A x \in Slots : x \notin stale =>
               sd'[x] = sd[x] /\ (sd[x] # 0 => conn'[sd[x]] = conn[sd[x]])
      <3>1. \A x \in Slots : avail'[x] => avail[x]
        BY <2>3, <2>6
      <3> QED
        BY <2>1, <2>4, <3>1, <1>ClosingIdle
    <2>8. /\ pc'[t] = "service" /\ slot'[t] = e /\ req'[t] = next
          /\ \A u \in Threads : u # t => pc'[u] = pc[u] /\ slot'[u] = slot[u] /\ req'[u] = req[u]
      BY <2>1, <2>2 DEF Typed, At
    <2>9. BusyBook /\ busy' \in Int
      <3>1. "service" \notin InLoop /\ pc[t] \notin InLoop /\ busy \in Int
        BY <2>1, <2>2 DEF InLoop, Typed
      <3> QED
        BY SMTT(60), <2>1, <3>1, BusyMoves
    <2>10. Typed'
      <3>1. last_op' \in [Slots -> Operations]
        BY <2>1, <2>2 DEF Typed, Operations
      <3>2. avail' \in [Slots -> BOOLEAN]
        BY <2>1, <2>2 DEF Typed
      <3>3. slot' \in [Threads -> Slots \union {0}] /\ req' \in [Threads -> Requests \union {0}]
        BY <2>1, <2>2, <2>3 DEF Typed
      <3>4. pc' \in [Threads -> InLoop \union {"idle", "service", "done"}]
        BY <2>1, <2>2 DEF Typed, At
      <3>5. next' \in 1 .. MaxRequests + 1
        BY SMTT(60), <2>1, AjpAssumption DEF Requests
      <3> QED
        BY <2>1, <2>2, <2>5, <2>7, <2>9, <3>1, <3>2, <3>3, <3>4, <3>5 DEF Typed, Operations
    <2>11. \A u \in Threads : pc[u] # "idle" => slot[u] \in Slots /\ ~ avail[slot[u]]
      BY <2>2 DEF Core, Typed, ThreadOK, EndpointOf
    <2>12. \A u \in Threads : slot[u] # e
      <3>1. \A u \in Threads : pc[u] = "idle" => slot[u] = 0
        BY DEF Core, ThreadOK, EndpointOf
      <3> QED
        BY <2>2, <2>3, <2>11, <3>1
    <2>13. Holders'
      <3>1. \A u, v \in Threads : slot'[u] = slot'[v] /\ slot'[u] # 0 => u = v
        BY SMTT(60), <2>2, <2>8, <2>12 DEF Holders
      <3>2. ASSUME NEW s \in Slots, ~ avail'[s] PROVE \E u \in Threads : slot'[u] = s
        <4>1. CASE s = e
          BY <2>8, <4>1
        <4>2. CASE s # e
          <5>1. PICK u \in Threads : slot[u] = s
            BY <2>2, <2>6, <3>2, <4>2 DEF Holders
          <5>2. pc[u] # "idle"
            BY <2>2, <5>1 DEF Core, ThreadOK, EndpointOf
          <5> QED
            BY <2>1, <2>8, <5>1, <5>2
        <4> QED
          BY <4>1, <4>2
      <3> QED
        BY <2>5, <3>1, <3>2 DEF Holders
    <2>14. ASSUME NEW u \in Threads PROVE ThreadOK(u)'
      <3>1. CASE u = t
        <4>1. EndpointOf(t)'
          BY <2>1, <2>2, <2>3, <2>6, <2>8 DEF EndpointOf, InLoop
        <4>2. ConnectionOf(t)'
          <5>1. own(t)' = sd'[e]
            BY <2>8 DEF own
          <5>2. ASSUME sd'[e] # 0 PROVE Clean(conn'[sd'[e]])
            <6>1. e \notin stale
              BY <2>1, <2>3, <5>2
            <6>2. sd'[e] = sd[e] /\ conn'[sd[e]] = conn[sd[e]]
              BY <2>3, <2>7, <5>2, <6>1
            <6>3. e \in Cached
              BY <2>3, <5>2, <6>2 DEF Cached
            <6> QED
              BY <6>2, <6>3 DEF Core, CacheIsClean, Clean, ClosedConn
          <5> QED
            BY <2>8, <5>1, <5>2 DEF ConnectionOf
        <4>3. ClientOf(t)'
          BY <2>1, <2>2 DEF ThreadOK, ClientOf
        <4> QED
          BY <3>1, <4>1, <4>2, <4>3 DEF ThreadOK
      <3>2. CASE u # t
        <4>1. pc[u] # "idle" => slot[u] \notin stale /\ slot[u] # e
          BY <2>4, <2>11, <2>12 DEF Cached
        <4>2. pc[u] # "idle" => last_op'[slot[u]] = last_op[slot[u]]
          BY <2>1, <2>11, <4>1
        <4>3. Same(u)
          BY <2>1, <2>6, <2>7, <2>8, <2>11, <3>2, <4>1, <4>2 DEF Same, own
        <4>4. ThreadOK(u)
          BY DEF Core
        <4> QED
          BY <2>1, <4>3, <4>4, Undisturbed
      <3> QED
        BY <3>1, <3>2
    <2>15. WatchdogBook
      BY <2>1 DEF WatchdogBook
    <2> QED
      BY <2>7, <2>9, <2>10, <2>13, <2>14, <2>15 DEF Core, Preserved
  (* A thread gives its endpoint back.                                       *)
  <1>DoneStep.
    ASSUME Core, NEW t \in Threads, ajp_done(t)
    PROVE  Preserved
    <2> USE <1>DoneStep
    <2> DEFINE e == slot[t]
    <2>1. /\ pc[t] = "done" /\ e \in Slots /\ ~ avail[e] /\ ThreadOK(t) /\ Typed /\ Holders
          /\ Owners /\ ConnOK /\ CacheIsClean
      BY Holding DEF ajp_done, Core
    <2>2. Slots' = Slots /\ Sockets' = Sockets /\ ep_cache_sz' = ep_cache_sz
      BY DEF ajp_done, Slots, Sockets, ep_cache_sz
    <2>3. avail'[e] = TRUE /\ \A x \in Slots : x # e => avail'[x] = avail[x]
      BY <2>1 DEF ajp_done, Typed
    <2>4. /\ SocketsKept(e)
          /\ last_op' \in [Slots -> Operations]
          /\ \A x \in Slots : x # e => last_op'[x] = last_op[x]
      <3>1. CASE reuse[e]
        <4>1. UNCHANGED <<sd, last_op, conn, orphans, connected, m_sock>>
          BY <3>1 DEF ajp_done
        <4>2. Owners' /\ ConnOK'
          BY <2>1, <2>2, <4>1 DEF Owners, ConnOK, Open
        <4>3. CacheIsClean'
          <5>1. sd[e] # 0 => Clean(conn[sd[e]])
            BY <2>1, <3>1 DEF ThreadOK, ConnectionOf, own
          <5>2. ASSUME NEW x \in Cached' PROVE Clean(conn'[sd'[x]])
            <6>1. CASE x = e
              BY <2>2, <4>1, <5>1, <5>2, <6>1 DEF Cached
            <6>2. CASE x # e
              <7>1. x \in Cached
                BY <2>2, <2>3, <4>1, <5>2, <6>2 DEF Cached
              <7> QED
                BY <2>1, <4>1, <7>1 DEF CacheIsClean, Clean, ClosedConn
            <6> QED
              BY <6>1, <6>2
          <5> QED
            BY <5>2 DEF CacheIsClean, Clean, ClosedConn
        <4> QED
          BY <2>1, <2>2, <4>1, <4>2, <4>3 DEF SocketsKept, SocketBook, Open, Typed, Operations
      <3>2. CASE ~ reuse[e]
        <4>1. ajp_abort_endpoint(e) /\ UNCHANGED <<config, m_sock>>
          BY <3>2 DEF ajp_done
        <4>2. SocketsKept(e)
          BY <2>1, <2>3, <4>1, GivingUp DEF ajp_abort_endpoint
        <4> QED
          BY <2>1, <4>1, <4>2 DEF ajp_abort_endpoint, Typed, Operations
      <3> QED
        BY <3>1, <3>2
    <2>5. /\ pc'[t] = "idle" /\ slot'[t] = 0 /\ client'[t] = {}
          /\ \A u \in Threads : u # t =>
               /\ pc'[u] = pc[u] /\ slot'[u] = slot[u] /\ req'[u] = req[u] /\ try'[u] = try[u]
               /\ recoverable'[u] = recoverable[u] /\ headeratclient'[u] = headeratclient[u]
               /\ client'[u] = client[u]
          /\ UNCHANGED <<config, reuse>>
      BY <2>1 DEF ajp_done, Typed, At
    <2>6. BusyBook /\ busy' \in Int
      <3>1. /\ At(t, "idle") /\ "idle" \notin InLoop /\ pc[t] \notin InLoop
            /\ busy \in Int /\ busy' = busy
        BY <2>1 DEF ajp_done, InLoop, Typed
      <3> QED
        BY SMT, <3>1, BusyMoves
    <2>7. Typed'
      <3>1. avail' \in [Slots -> BOOLEAN] /\ slot' \in [Threads -> Slots \union {0}]
        BY <2>1 DEF ajp_done, Typed
      <3>2. req' \in [Threads -> Requests \union {0}] /\ try' \in [Threads -> 0 .. retries]
        BY SMTT(60), <2>1, AjpAssumption DEF ajp_done, Typed
      <3>3. /\ recoverable' \in [Threads -> BOOLEAN] /\ headeratclient' \in [Threads -> BOOLEAN]
            /\ posted' \in [Threads -> BOOLEAN] /\ client' \in [Threads -> SUBSET Attempts]
        BY <2>1 DEF ajp_done, Typed
      <3>4. pc' \in [Threads -> InLoop \union {"idle", "service", "done"}]
        BY <2>1 DEF ajp_done, Typed, At
      <3> QED
        BY <2>1, <2>2, <2>4, <2>6, <3>1, <3>2, <3>3, <3>4
           DEF ajp_done, Typed, Operations, SocketsKept
    <2>8. Holders'
      <3>1. \A u, v \in Threads : slot'[u] = slot'[v] /\ slot'[u] # 0 => u = v
        BY SMTT(60), <2>1, <2>5 DEF Holders
      <3>2. ASSUME NEW s \in Slots, ~ avail'[s] PROVE \E u \in Threads : slot'[u] = s
        <4>1. s # e /\ ~ avail[s]
          BY <2>3, <3>2
        <4>2. PICK u \in Threads : slot[u] = s
          BY <2>1, <4>1 DEF Holders
        <4> QED
          BY <2>5, <4>1, <4>2
      <3> QED
        BY <2>2, <3>1, <3>2 DEF Holders
    <2>9. ASSUME NEW u \in Threads PROVE ThreadOK(u)'
      <3>1. CASE u = t
        BY <2>5, <3>1 DEF ThreadOK, EndpointOf, ConnectionOf, ClientOf, InLoop
      <3>2. CASE u # t
        <4>1. ThreadOK(u)
          BY DEF Core
        <4>2. pc[u] # "idle" => slot[u] \in Slots /\ slot[u] # e /\ ~ avail[slot[u]]
          BY <2>1, <3>2, <4>1 DEF Typed, Holders, ThreadOK, EndpointOf
        <4>3. Same(u)
          BY <2>3, <2>4, <2>5, <3>2, <4>2 DEF Same, SocketsKept, own
        <4> QED
          BY <2>5, <4>1, <4>3, Undisturbed
      <3> QED
        BY <3>1, <3>2
    <2>10. WatchdogBook
      BY DEF ajp_done, WatchdogBook
    <2> QED
      BY <2>4, <2>6, <2>7, <2>8, <2>9, <2>10 DEF Core, Preserved, SocketsKept
  (* No endpoint is free in time.                                            *)
  <1>NoEndpointStep.
    ASSUME Core, NEW t \in Threads, NoEndpoint(t)
    PROVE  Preserved
    <2> USE <1>NoEndpointStep
    <2>1. UNCHANGED <<config, epVars, connected, busy, m_sock, pc, slot, requestVars,
                      tomcatVars, client>>
      BY DEF NoEndpoint
    <2>2. next' \in 1 .. MaxRequests + 1
      BY SMT, AjpAssumption DEF NoEndpoint, Requests
    <2>3. Slots' = Slots /\ Sockets' = Sockets /\ ep_cache_sz' = ep_cache_sz
      BY <2>1 DEF Slots, Sockets, ep_cache_sz
    <2>4. Typed'
      BY <2>1, <2>2, <2>3 DEF Core, Typed, epVars, requestVars, tomcatVars
    <2>5. ConnOK' /\ Owners' /\ CacheIsClean'
      BY <2>1, <2>3 DEF Core, ConnOK, Owners, Open, CacheIsClean, Cached, epVars, tomcatVars
    <2>6. Holders'
      BY <2>1, <2>3 DEF Core, Holders, epVars
    <2>7. ASSUME NEW u \in Threads PROVE ThreadOK(u)'
      <3>1. Same(u) /\ ThreadOK(u)
        BY <2>1 DEF Core, Same, epVars, requestVars, tomcatVars
      <3> QED
        BY <2>1, <3>1, Undisturbed
    <2>8. BusyBook /\ SocketBook /\ WatchdogBook
      BY <2>1, <2>3 DEF BusyBook, SocketBook, WatchdogBook, Open, tomcatVars
    <2> QED
      BY <2>4, <2>5, <2>6, <2>7, <2>8 DEF Core, Preserved
  <1> QED
    BY <1>GetEndpointStep, <1>DoneStep, <1>NoEndpointStep

(* The watchdog takes sockets of idle endpoints, and closes them.          *)
LEMMA Watching ==
  Core /\ (ajp_maintain \/ MaintainCloses) => Preserved
  (* The watchdog takes sockets of idle endpoints.                           *)
  <1>MaintainStep.
    ASSUME Core, ajp_maintain
    PROVE  Preserved
    <2> USE <1>MaintainStep
    <2>1. PICK S \in SUBSET Cached \ {{}} :
            /\ m_sock' = {sd[s] : s \in S}
            /\ sd' = [s \in Slots |-> IF s \in S THEN 0 ELSE sd[s]]
            /\ reuse' = [s \in Slots |-> s \notin S /\ reuse[s]]
            /\ last_op' = [s \in Slots |-> IF s \in S THEN "END_RESPONSE" ELSE last_op[s]]
      BY DEF ajp_maintain
    <2>2. /\ m_sock = {}
          /\ UNCHANGED <<config, avail, connected, busy, pc, slot, requestVars, next,
                         tomcatVars, client>>
      BY DEF ajp_maintain
    <2>3. Typed /\ Owners /\ CacheIsClean /\ ConnOK /\ Holders /\ 0 \notin Sockets
      BY Numbers DEF Core, Typed
    <2>4. S \in SUBSET Slots /\ \A s \in S : avail[s] /\ sd[s] # 0 /\ sd[s] \in Sockets
      BY <2>1, <2>3 DEF Cached, Typed
    <2>5. Slots' = Slots /\ Sockets' = Sockets /\ ep_cache_sz' = ep_cache_sz
      BY <2>2 DEF Slots, Sockets, ep_cache_sz
    <2>6. BusyBook /\ SocketBook /\ WatchdogBook
      BY <2>1, <2>2, <2>4, <2>5 DEF BusyBook, SocketBook, WatchdogBook, Open, tomcatVars
    <2>7. Typed'
      <3>1. sd' \in [Slots -> Sockets \union {0}] /\ m_sock' \subseteq Sockets
        BY SMTT(60), <2>1, <2>3, <2>4 DEF Typed
      <3>2. last_op' \in [Slots -> Operations]
        BY <2>1, <2>3 DEF Typed, Operations
      <3>3. reuse' \in [Slots -> BOOLEAN]
        BY <2>1
      <3> QED
        BY <2>2, <2>3, <2>5, <3>1, <3>2, <3>3 DEF Typed, Operations, requestVars, tomcatVars
    <2>8. ConnOK' /\ Holders'
      BY <2>2, <2>3, <2>5 DEF ConnOK, Holders, tomcatVars
    <2>9. /\ \A s \in S : sd'[s] = 0 /\ sd[s] \in m_sock'
          /\ \A s \in Slots : s \notin S => sd'[s] = sd[s]
          /\ \A k \in m_sock' : \E s \in S : k = sd[s]
      BY <2>1, <2>4
    <2>10. Owners'
      <3>1. \A x, u \in Slots : sd'[x] = sd'[u] /\ sd'[x] # 0 => x = u
        BY <2>3, <2>9 DEF Owners
      <3>2. \A x \in Slots : sd'[x] \notin m_sock'
        BY SMT, <2>3, <2>4, <2>9 DEF Owners
      <3>3. Open' = Open
        BY <2>2, <2>5 DEF Open, tomcatVars
      <3>4. ASSUME NEW k \in Sockets
            PROVE  k \in Open' <=> k \in m_sock' \/ \E x \in Slots : sd'[x] = k
        <4>1. k \in Open <=> \E x \in Slots : sd[x] = k
          BY <2>2, <2>3 DEF Owners
        <4>2. ASSUME NEW x \in Slots, sd[x] = k PROVE k \in m_sock' \/ \E u \in Slots : sd'[u] = k
          BY <2>9, <4>2
        <4>3. k \in m_sock' => \E x \in Slots : sd[x] = k
          BY <2>4, <2>9
        <4>4. ASSUME NEW x \in Slots, sd'[x] = k PROVE sd[x] = k
          BY <2>3, <2>9, <4>4
        <4> QED
          BY <3>3, <4>1, <4>2, <4>3, <4>4
      <3> QED
        BY <2>5, <3>1, <3>2, <3>4 DEF Owners
    <2>11. CacheIsClean'
      <3>1. ASSUME NEW x \in Cached' PROVE x \in Cached /\ sd'[x] = sd[x]
        BY <2>2, <2>5, <2>9, <3>1 DEF Cached
      <3> QED
        BY <2>2, <2>3, <3>1 DEF CacheIsClean, tomcatVars
    <2>12. ASSUME NEW u \in Threads PROVE ThreadOK(u)'
      <3>1. ThreadOK(u)
        BY DEF Core
      <3>2. pc[u] # "idle" => slot[u] \in Slots /\ slot[u] \notin S
        BY <2>3, <2>4, <3>1 DEF Typed, ThreadOK, EndpointOf
      <3>3. pc[u] # "idle" => reuse'[slot[u]] = reuse[slot[u]] /\ last_op'[slot[u]] = last_op[slot[u]]
        BY <2>1, <2>3, <3>2 DEF Typed
      <3>4. Same(u)
        BY <2>2, <2>9, <3>2, <3>3 DEF Same, requestVars, tomcatVars
      <3> QED
        BY <2>2, <3>1, <3>4, Undisturbed
    <2> QED
      BY <2>6, <2>7, <2>8, <2>10, <2>11, <2>12 DEF Core, Preserved
  (* The watchdog closes a socket that it took.                              *)
  <1>MaintainClosesStep.
    ASSUME Core, MaintainCloses
    PROVE  Preserved
    <2> USE <1>MaintainClosesStep
    <2>1. PICK k \in m_sock :
            /\ CloseAll({k})
            /\ m_sock' = m_sock \ {k}
            /\ UNCHANGED <<config, epVars, busy, pc, slot, requestVars, next, up, faults,
                           executed, client>>
      BY DEF MaintainCloses
    <2>2. Typed /\ Owners /\ CacheIsClean /\ Holders
      BY DEF Core
    <2>3. Slots' = Slots /\ Sockets' = Sockets /\ ep_cache_sz' = ep_cache_sz
      BY <2>1 DEF Slots, Sockets, ep_cache_sz
    <2>4. k \in Sockets /\ {k} \in SUBSET Open
      BY <2>2 DEF Owners, Typed
    <2>5. /\ ConnOK' /\ orphans' \subseteq Attempts
          /\ \A x \in Sockets : conn'[x] = IF x \in {k} THEN NoConn ELSE conn[x]
          /\ Open' = Open \ {k} /\ SocketBook
      BY <2>1, <2>4, Closing
    <2>6. \A x \in Slots : sd[x] # 0 => sd[x] \in Sockets /\ sd[x] # k /\ conn'[sd[x]] = conn[sd[x]]
      BY SMTT(60), <2>2, <2>5 DEF Owners, Typed
    <2>7. Typed'
      BY <2>1, <2>2, <2>3, <2>5 DEF Typed, epVars, requestVars
    <2>8. Holders'
      BY <2>1, <2>2, <2>3 DEF Holders, epVars
    <2>9. Owners'
      <3>1. ASSUME NEW x \in Sockets
            PROVE  x \in Open' <=> x \in m_sock' \/ \E s \in Slots : sd'[s] = x
        BY <2>1, <2>2, <2>5 DEF Owners, epVars
      <3> QED
        BY <2>1, <2>2, <2>3, <3>1 DEF Owners, epVars
    <2>10. CacheIsClean'
      BY <2>1, <2>2, <2>3, <2>6 DEF CacheIsClean, Cached, epVars
    <2>11. ASSUME NEW u \in Threads PROVE ThreadOK(u)'
      <3>1. ThreadOK(u)
        BY DEF Core
      <3>2. pc[u] # "idle" => slot[u] \in Slots
        BY <2>2, <3>1 DEF Typed, ThreadOK, EndpointOf
      <3>3. Same(u)
        BY <2>1, <2>6, <3>2 DEF Same, own, epVars, requestVars
      <3> QED
        BY <2>1, <3>1, <3>3, Undisturbed
    <2>12. BusyBook /\ WatchdogBook
      BY <2>1 DEF BusyBook, WatchdogBook
    <2> QED
      BY <2>5, <2>7, <2>8, <2>9, <2>10, <2>11, <2>12 DEF Core, Preserved
  <1> QED
    BY <1>MaintainStep, <1>MaintainClosesStep

(* Every step keeps the core, and the counters in step with what they      *)
(* count.                                                                  *)
LEMMA StepCore == Core /\ Least /\ SocketLeft /\ [Next]_vars => Preserved
  <1>1. ASSUME Core, Least, SocketLeft, NEW t \in Threads, Thread(t) PROVE Preserved
    BY <1>1, BeforeSending, Sending, Receiving, ChangingHands DEF Thread
  <1> QED
    BY <1>1, Watching, TomcatStep DEF Next

=============================================================================
