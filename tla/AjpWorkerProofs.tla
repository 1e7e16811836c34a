-------------------------- MODULE AjpWorkerProofs ---------------------------
(***************************************************************************)
(* Proofs about AjpWorker, for any number of threads, requests, tries and  *)
(* faults and for every configuration: the counters, which say that a      *)
(* thread without a connection finds a socket, with them the invariant,    *)
(* and the properties that follow from it; then how often Tomcat executes  *)
(* a request.                                                              *)
(***************************************************************************)
EXTENDS AjpCoreProofs, FiniteSetTheorems

USE ZenonT(60)

-----------------------------------------------------------------------------
(* Least elements, and what is counted.                                    *)

(* Min, of module AjpWorker, is the least element of a set of naturals.    *)
LEMMA LeastExists == Least
  <1> SUFFICES ASSUME NEW S \in SUBSET Nat, S # {} PROVE Min(S) \in S
    BY DEF Least
  <1>1. PICK x \in S : \A y \in S : ~ (<<y, x>> \in OpToRel(<, Nat))
    BY WFMin, NatLessThanWellFounded
  <1>2. \A y \in S : ~ (y < x)
    BY <1>1 DEF OpToRel
  <1>3. \E w \in S : \A y \in S : w <= y
    BY SMT, <1>2
  <1> QED
    BY <1>3 DEF Min

(* The endpoints and the sockets are finitely many.                        *)
LEMMA Finite ==
  ASSUME config \in Configurations
  PROVE  /\ ep_cache_sz \in Nat \ {0}
         /\ IsFiniteSet(Slots) /\ Cardinality(Slots) = ep_cache_sz
         /\ IsFiniteSet(Sockets) /\ Cardinality(Sockets) = 2 * ep_cache_sz
         /\ Slots \subseteq Nat \ {0} /\ Sockets \subseteq Nat \ {0}
  <1>1. ep_cache_sz \in Nat \ {0}
    BY AjpAssumption DEF ep_cache_sz
  <1>2. 2 * ep_cache_sz \in Int /\ 2 * ep_cache_sz > 0
    BY SMT, <1>1
  <1>3. IsFiniteSet(Slots) /\ Cardinality(Slots) = ep_cache_sz
    BY SMT, <1>1, FS_Interval DEF Slots
  <1>4. IsFiniteSet(Sockets) /\ Cardinality(Sockets) = 2 * ep_cache_sz
    BY SMT, <1>2, FS_Interval DEF Sockets
  <1> QED
    BY SMT, <1>1, <1>3, <1>4 DEF Slots, Sockets

(* The sockets of a set of endpoints are no more than the endpoints.       *)
LEMMA HeldBound ==
  ASSUME NEW S, IsFiniteSet(S)
  PROVE  /\ IsFiniteSet({sd[s] : s \in S})
         /\ Cardinality({sd[s] : s \in S}) <= Cardinality(S)
  <1> DEFINE T == {sd[s] : s \in S}
             f == [s \in S |-> sd[s]]
  <1>1. f \in Surjection(S, T)
    BY DEF Surjection
  <1> HIDE DEF f, T
  <1>2. IsFiniteSet(T) /\ Cardinality(T) <= Cardinality(S)
    BY <1>1, FS_Surjection
  <1> QED
    BY <1>2 DEF T

(* What is counted is finite.                                              *)
LEMMA CountedSets ==
  ASSUME Core
  PROVE  /\ IsFiniteSet(Open) /\ IsFiniteSet(m_sock)
         /\ Cardinality(Open) \in Nat /\ Cardinality(m_sock) \in Nat
  <1>1. IsFiniteSet(Sockets) /\ Open \in SUBSET Sockets /\ m_sock \in SUBSET Sockets
    BY Finite DEF Core, Typed, Open
  <1>2. IsFiniteSet(Open) /\ IsFiniteSet(m_sock)
    BY <1>1, FS_Subset
  <1> QED
    BY <1>2, FS_CardinalityType

(* An endpoint without a socket finds one to connect with, as the others   *)
(* and the watchdog together have fewer than there are.                    *)
LEMMA SocketIsLeft ==
  ASSUME IInv
  PROVE  SocketLeft
  <1> SUFFICES ASSUME NEW s \in Slots, sd[s] = 0 PROVE Open # Sockets
    BY DEF SocketLeft
  <1>1. Core /\ Owners /\ config \in Configurations /\ Cardinality(m_sock) <= ep_cache_sz
    BY DEF IInv, Core, Counts, Typed
  <1>2. /\ ep_cache_sz \in Nat \ {0} /\ IsFiniteSet(Slots) /\ Cardinality(Slots) = ep_cache_sz
        /\ IsFiniteSet(Sockets) /\ Cardinality(Sockets) = 2 * ep_cache_sz
        /\ 0 \notin Sockets /\ IsFiniteSet(m_sock)
    BY <1>1, Finite, CountedSets
  <1> DEFINE H == {sd[x] : x \in Slots \ {s}}
             U == H \union m_sock
  <1>3. IsFiniteSet(H) /\ Cardinality(H) <= ep_cache_sz - 1
    <2> DEFINE S == Slots \ {s}
    <2>1. IsFiniteSet(S) /\ Cardinality(S) = ep_cache_sz - 1
      BY <1>2, FS_RemoveElement
    <2> HIDE DEF S
    <2>2. IsFiniteSet({sd[x] : x \in S}) /\ Cardinality({sd[x] : x \in S}) <= Cardinality(S)
      BY <2>1, HeldBound
    <2> QED
      BY <2>1, <2>2 DEF S
  <1>4. Open \subseteq U
    <2>1. ASSUME NEW x \in Open PROVE x \in m_sock \/ \E u \in Slots \ {s} : sd[u] = x
      <3>1. x \in Sockets /\ x # 0
        BY <1>2 DEF Open
      <3>2. x \in m_sock \/ \E u \in Slots : sd[u] = x
        BY <1>1, <3>1 DEF Owners
      <3> QED
        BY <3>1, <3>2
    <2> QED
      BY <2>1
  <1> HIDE DEF H
  <1>5. IsFiniteSet(U) /\ Cardinality(U) <= 2 * ep_cache_sz - 1
    <2>1. IsFiniteSet(H \intersect m_sock) /\ Cardinality(H \intersect m_sock) \in Nat
      BY <1>2, FS_Intersection, FS_CardinalityType
    <2>2. /\ IsFiniteSet(U)
          /\ Cardinality(U) = Cardinality(H) + Cardinality(m_sock) - Cardinality(H \intersect m_sock)
      BY <1>2, <1>3, FS_Union
    <2>3. Cardinality(H) \in Nat /\ Cardinality(m_sock) \in Nat
      BY <1>2, <1>3, FS_CardinalityType
    <2> QED
      BY SMT, <1>1, <1>2, <1>3, <2>1, <2>2, <2>3
  <1> HIDE DEF U
  <1>6. SUFFICES ASSUME Open = Sockets PROVE FALSE
    OBVIOUS
  <1>7. Sockets \in SUBSET U
    BY <1>4, <1>6
  <1>8. Cardinality(Sockets) <= Cardinality(U)
    BY <1>5, <1>7, FS_Subset
  <1>9. Cardinality(U) \in Nat
    BY <1>5, FS_CardinalityType
  <1> QED
    BY SMT, <1>2, <1>5, <1>8, <1>9

(* "busy" goes on counting the threads in the loop of ajp_service.         *)
LEMMA BusyCount ==
  ASSUME IInv, BusyBook
  PROVE  busy' = Cardinality({u \in Threads : pc'[u] \in InLoop})
  <1> DEFINE B == {u \in Threads : pc[u] \in InLoop}
             C == {u \in Threads : pc'[u] \in InLoop}
  <1>1. busy = Cardinality(B)
    BY DEF IInv, Counts
  <1>2. CASE busy' = busy /\ \A u \in Threads : pc'[u] \in InLoop <=> pc[u] \in InLoop
    <2>1. C = B
      BY <1>2
    <2> QED
      BY <1>1, <1>2, <2>1
  <1>3. CASE \E t \in Threads :
               /\ \A u \in Threads : u # t => (pc'[u] \in InLoop <=> pc[u] \in InLoop)
               /\ \/ pc[t] \notin InLoop /\ pc'[t] \in InLoop /\ busy' = busy + 1
                  \/ pc[t] \in InLoop /\ pc'[t] \notin InLoop /\ busy' = busy - 1
    <2>1. PICK t \in Threads :
            \/ t \notin B /\ C = B \union {t} /\ busy' = busy + 1
            \/ t \in B /\ C = B \ {t} /\ busy' = busy - 1
      BY <1>3
    <2>2. IsFiniteSet(Threads) /\ B \in SUBSET Threads
      BY AjpAssumption
    <2> HIDE DEF B, C
    <2>3. IsFiniteSet(B)
      BY <2>2, FS_Subset
    <2>4. busy' = Cardinality(C)
      BY SMT, <1>1, <2>1, <2>3, FS_AddElement, FS_RemoveElement
    <2> QED
      BY <2>4 DEF C
  <1> QED
    BY <1>2, <1>3 DEF BusyBook

(* "connected" goes on counting the open sockets.                          *)
LEMMA ConnectedCount ==
  ASSUME IInv, SocketBook
  PROVE  connected' = Cardinality(Open')
  <1>1. connected = Cardinality(Open) /\ IsFiniteSet(Open) /\ Cardinality(Open) \in Nat
    BY CountedSets DEF IInv, Counts
  <1>2. CASE Open' = Open /\ connected' = connected
    BY <1>1, <1>2
  <1>3. ASSUME NEW K \in SUBSET Open, Open' = Open \ K, connected' = connected - Cardinality(K)
        PROVE  connected' = Cardinality(Open')
    <2>1. Cardinality(Open \ K) = Cardinality(Open) - Cardinality(Open \intersect K)
      BY <1>1, FS_Difference
    <2>2. Open \intersect K = K
      OBVIOUS
    <2> QED
      BY <1>1, <1>3, <2>1, <2>2
  <1>4. ASSUME NEW k \in Sockets \ Open, Open' = Open \union {k}, connected' = connected + 1
        PROVE  connected' = Cardinality(Open')
    <2>1. Cardinality(Open \union {k}) = Cardinality(Open) + 1
      BY <1>1, FS_AddElement
    <2> QED
      BY <1>1, <1>4, <2>1
  <1> QED
    BY <1>2, <1>3, <1>4 DEF SocketBook

(* The watchdog never has more sockets than there are endpoints.           *)
LEMMA WatchdogCount ==
  ASSUME IInv, WatchdogBook
  PROVE  Cardinality(m_sock') <= ep_cache_sz
  <1>1. /\ Cardinality(m_sock) <= ep_cache_sz /\ IsFiniteSet(m_sock) /\ Cardinality(m_sock) \in Nat
        /\ ep_cache_sz \in Nat /\ IsFiniteSet(Slots) /\ Cardinality(Slots) = ep_cache_sz
    BY CountedSets, Finite DEF IInv, Core, Typed, Counts
  <1>2. ASSUME NEW k \in m_sock, m_sock' = m_sock \ {k} PROVE Cardinality(m_sock') <= ep_cache_sz
    <2>1. Cardinality(m_sock \ {k}) = Cardinality(m_sock) - 1
      BY <1>1, FS_RemoveElement
    <2> QED
      BY SMT, <1>1, <1>2, <2>1
  <1>3. ASSUME NEW S \in SUBSET Slots, m_sock' = {sd[s] : s \in S}
        PROVE  Cardinality(m_sock') <= ep_cache_sz
    <2>1. IsFiniteSet(S) /\ Cardinality(S) <= ep_cache_sz
      BY <1>1, FS_Subset
    <2>2. IsFiniteSet(m_sock') /\ Cardinality(m_sock') <= Cardinality(S)
      BY <1>3, <2>1, HeldBound
    <2>3. Cardinality(m_sock') \in Nat /\ Cardinality(S) \in Nat
      BY <2>1, <2>2, FS_CardinalityType
    <2> QED
      BY SMT, <1>1, <2>1, <2>2, <2>3
  <1> QED
    BY <1>1, <1>2, <1>3 DEF WatchdogBook

-----------------------------------------------------------------------------
(* The invariant, and what follows from it.                                *)

(* Initially all is free and nothing is counted.                           *)
LEMMA InitIInv == Init => IInv
  <1> SUFFICES ASSUME Init PROVE IInv
    OBVIOUS
  <1>1. {t \in Threads : pc[t] \in InLoop} = {} /\ Open = {} /\ m_sock = {}
    BY DEF Init, InLoop, Open
  <1>2. ep_cache_sz \in Nat
    BY AjpAssumption DEF Init, ep_cache_sz
  <1>3. busy = 0 /\ connected = 0
    BY DEF Init
  <1>4. Counts
    BY SMT, <1>1, <1>2, <1>3, FS_EmptySet DEF Counts
  <1> QED
    BY <1>4, InitCore DEF IInv

(* Every step keeps the invariant.                                         *)
LEMMA StepIInv == IInv /\ [Next]_vars => IInv'
  <1> SUFFICES ASSUME IInv, [Next]_vars PROVE IInv'
    OBVIOUS
  <1>1. Preserved
    BY StepCore, LeastExists, SocketIsLeft DEF IInv
  <1>2. ep_cache_sz' = ep_cache_sz
    BY <1>1 DEF Preserved, WatchdogBook, ep_cache_sz
  <1>3. Counts'
    BY <1>1, <1>2, BusyCount, ConnectedCount, WatchdogCount DEF Preserved, Counts
  <1> QED
    BY <1>1, <1>3 DEF IInv, Preserved

(* The invariant holds in every reachable state.                           *)
THEOREM Invariance == Spec => []IInv
  BY InitIInv, StepIInv, PTL DEF Spec

(* The types of the worker's variables, and with them that ajp_service     *)
(* makes no more than "retries" tries.                                     *)
THEOREM WorkerTypeCorrect == Spec => []TypeOK
  <1>1. IInv => TypeOK
    BY SMTT(60), CountedSets DEF IInv, Core, Counts, Typed, ConnOK, TypeOK, InLoop
  <1> QED
    BY <1>1, Invariance, PTL

(* Every open socket has exactly one owner, an endpoint or the watchdog,   *)
(* whatever threads steal from each other, and "connected" counts them.    *)
THEOREM SocketsHaveOneOwner == Spec => []SocketsOwned
  <1>1. ASSUME IInv PROVE SocketsOwned
    <2> DEFINE owners == {s \in Slots : sd[s] # 0}
               held == {sd[s] : s \in owners}
    <2>1. /\ Typed /\ Owners /\ connected = Cardinality(Open)
          /\ IsFiniteSet(Sockets) /\ 0 \notin Sockets
      <3>1. Typed /\ Owners /\ connected = Cardinality(Open)
        BY <1>1 DEF IInv, Core, Counts
      <3> QED
        BY <3>1, Finite DEF Typed
    <2>2. \A s, u \in owners : sd[s] = sd[u] => s = u
      BY <2>1 DEF Owners
    <2>3. held \cap m_sock = {}
      BY <2>1 DEF Owners
    <2>4. held \union m_sock = Open
      <3>1. ASSUME NEW k \in held PROVE k \in Open
        BY SMTT(60), <2>1, <3>1 DEF Owners, Typed
      <3>2. ASSUME NEW k \in m_sock PROVE k \in Open
        BY <2>1, <3>2 DEF Owners, Typed
      <3>3. ASSUME NEW k \in Open PROVE k \in held \union m_sock
        <4>1. k \in Sockets /\ k # 0
          BY <2>1, <3>3 DEF Open
        <4> QED
          BY <2>1, <3>3, <4>1 DEF Owners
      <3> QED
        BY <3>1, <3>2, <3>3
    <2>5. held \in SUBSET Sockets /\ m_sock \in SUBSET Sockets
      BY SMT, <2>1 DEF Typed
    <2> HIDE DEF held
    <2>6. IsFiniteSet(held) /\ IsFiniteSet(m_sock)
      BY <2>1, <2>5, FS_Subset
    <2>7. Cardinality(held \cap m_sock) = 0
      BY <2>3, FS_EmptySet
    <2>8. /\ Cardinality(held \union m_sock) =
               Cardinality(held) + Cardinality(m_sock) - Cardinality(held \cap m_sock)
          /\ Cardinality(held) \in Nat /\ Cardinality(m_sock) \in Nat
      BY <2>6, FS_Union, FS_CardinalityType
    <2>9. connected = Cardinality(held) + Cardinality(m_sock)
      <3>1. connected = Cardinality(held \union m_sock)
        BY <2>1, <2>4
      <3> QED
        BY SMT, <2>7, <2>8, <3>1
    <2> QED
      BY <2>2, <2>3, <2>4, <2>9 DEF SocketsOwned, held, Open
  <1> QED
    BY <1>1, Invariance, PTL

(* An endpoint that is not available is in the hands of exactly one        *)
(* thread, and "busy" counts the threads in the loop of ajp_service.       *)
THEOREM EndpointsHaveOneHolder == Spec => []EndpointsHeld
  <1>1. ASSUME IInv PROVE EndpointsHeld
    <2>1. Typed /\ Holders /\ Counts /\ \A t \in Threads : EndpointOf(t)
      BY <1>1 DEF IInv, Core, ThreadOK
    <2>2. ASSUME NEW s \in Slots
          PROVE  Cardinality({t \in Threads : slot[t] = s}) = IF avail[s] THEN 0 ELSE 1
      <3>1. s # 0
        BY <2>1, Finite DEF Typed
      <3>2. CASE avail[s]
        <4>1. {t \in Threads : slot[t] = s} = {}
          BY <2>1, <3>1, <3>2 DEF EndpointOf
        <4> QED
          BY <3>2, <4>1, FS_EmptySet
      <3>3. CASE ~ avail[s]
        <4>1. PICK t \in Threads : slot[t] = s
          BY <2>1, <3>3 DEF Holders
        <4>2. {u \in Threads : slot[u] = s} = {t}
          BY <2>1, <3>1, <4>1 DEF Holders
        <4> QED
          BY <3>3, <4>2, FS_Singleton
      <3> QED
        BY <3>2, <3>3
    <2>3. {t \in Threads : pc[t] \notin {"idle", "service", "done"}} =
            {t \in Threads : pc[t] \in InLoop}
      BY <2>1 DEF Typed, InLoop
    <2> QED
      BY <2>1, <2>2, <2>3 DEF EndpointsHeld, Counts
  <1> QED
    BY <1>1, Invariance, PTL

(* A connection that waits in the cache carries nothing of an earlier      *)
(* request.                                                                *)
THEOREM CacheStaysClean == Spec => []CacheIsClean
  BY Invariance, PTL DEF IInv, Core

(* A client is never sent anything from the reply to another request, and  *)
(* data of two attempts only if the recovery options allow it.             *)
THEOREM RepliesReachTheirClients == Spec => []OwnReplies
  <1>1. ASSUME IInv PROVE OwnReplies
    <2> SUFFICES ASSUME NEW t \in Threads
                 PROVE  /\ \A a \in client[t] : a[1] = req[t]
                        /\ "TCSENDHEADER" \in recovery_opts => Cardinality(client[t]) <= 1
      BY DEF OwnReplies
    <2>1. ClientOf(t)
      BY <1>1 DEF IInv, Core, ThreadOK
    <2>2. ASSUME "TCSENDHEADER" \in recovery_opts PROVE Cardinality(client[t]) <= 1
      <3> DEFINE A == {Attempt(t)}
      <3>1. client[t] \in SUBSET A
        BY <2>1, <2>2 DEF ClientOf
      <3>2. IsFiniteSet(A) /\ Cardinality(A) = 1
        BY FS_Singleton
      <3> HIDE DEF A
      <3> QED
        BY <3>1, <3>2, FS_Subset
    <2> QED
      BY <2>1, <2>2 DEF ClientOf
  <1> QED
    BY <1>1, Invariance, PTL

-----------------------------------------------------------------------------
(* How often Tomcat executes a request.                                    *)

(* The connections, open and closed, on which Tomcat may still find it.    *)
WaitsAt(r) == {k \in Sockets : conn[k].inbox # <<>> /\ conn[k].inbox[1][1] = r}
Adrift(r) == {a \in orphans : a[1] = r}

(* How often it has been executed, or may be without being sent again.     *)
Owed(r) == executed[r] + Cardinality(WaitsAt(r)) + Cardinality(Adrift(r))

(* The recovery options allow one attempt only.                            *)
Single(r) == /\ {"TCGETREQUEST", "TCSENDHEADER"} \subseteq recovery_opts
             /\ "GET" \notin recovery_opts
             /\ r \notin Uploads

Unsent == {"send", "check", "connect", "forward"}
Sent == {"post", "reply", "failed", "done"}

(* What a thread's request owes by where the thread is: nothing before the *)
(* first attempt, and one execution for each attempt that was sent.        *)
Owes(t, r) ==
  /\ pc[t] = "service" => Owed(r) <= 0
  /\ pc[t] \in Unsent => Owed(r) <= try[t] - 1
  /\ pc[t] \in Sent => Owed(r) <= try[t]
  /\ Single(r) /\ (pc[t] \in Unsent \/ (pc[t] = "failed" /\ recoverable[t])) => Owed(r) <= 0

OwnTries(t) ==
  pc[t] # "idle" =>
    /\ req[t] < next
    /\ \A r \in Requests : r = req[t] => Owes(t, r)
    /\ pc[t] = "post" => req[t] \in Uploads
    /\ pc[t] \in {"post", "reply"} /\ last_op[slot[t]] = "SEND_HEADERS" => headeratclient[t]

AllTries ==
  \A r \in Requests :
    /\ Owed(r) <= retries
    /\ Single(r) => Owed(r) <= 1
    /\ r >= next => Owed(r) <= 0

Apart == \A t, u \in Threads : pc[t] # "idle" /\ pc[u] # "idle" /\ req[t] = req[u] => t = u
Short == \A k \in Sockets : conn[k].inbox = <<>> \/ Len(conn[k].inbox) = 1

Tries == Short /\ AllTries /\ Apart /\ \A t \in Threads : OwnTries(t)

(* No request owes more than before.                                       *)
NoMore == \A r \in Requests : Owed(r)' <= Owed(r)

(* What waits is finite.                                                   *)
LEMMA OwedIsNatural ==
  ASSUME Core, NEW r \in Requests
  PROVE  /\ Owed(r) \in Nat /\ executed[r] \in Nat
         /\ IsFiniteSet(WaitsAt(r)) /\ IsFiniteSet(Adrift(r))
         /\ Cardinality(WaitsAt(r)) \in Nat /\ Cardinality(Adrift(r)) \in Nat
  <1>1. IsFiniteSet(WaitsAt(r))
    <2>1. IsFiniteSet(Sockets) /\ WaitsAt(r) \in SUBSET Sockets
      BY Finite DEF Core, Typed, WaitsAt
    <2> QED
      BY <2>1, FS_Subset
  <1>2. IsFiniteSet(Adrift(r))
    <2>1. IsFiniteSet(Requests) /\ IsFiniteSet(1 .. retries)
      BY SMT, AjpAssumption, FS_Interval DEF Requests
    <2>2. IsFiniteSet(Attempts)
      BY <2>1, FS_Product DEF Attempts
    <2>3. Adrift(r) \in SUBSET Attempts
      BY DEF Core, Typed, Adrift
    <2> QED
      BY <2>2, <2>3, FS_Subset
  <1>3. executed[r] \in Nat
    BY DEF Core, Typed
  <1>4. Cardinality(WaitsAt(r)) \in Nat /\ Cardinality(Adrift(r)) \in Nat
    BY <1>1, <1>2, FS_CardinalityType
  <1> QED
    BY SMT, <1>1, <1>2, <1>3, <1>4 DEF Owed

(* It is so in every state, the next one included.                         *)
LEMMA OwedNumbers == Core => \A q \in Requests : Owed(q) \in Nat
  BY OwedIsNatural

(* The same of the next state.                                             *)
LEMMA OwedStaysNatural == Core' => \A q \in Requests : Owed(q)' \in Nat
  <1>1. Core' => (\A q \in Requests : Owed(q) \in Nat)'
    BY OwedNumbers, PTL
  <1> QED
    BY <1>1 DEF Requests

(* Fewer connections hold requests.                                        *)
LEMMA OwedShrinks ==
  ASSUME Core, Core', Short, UNCHANGED <<config, executed>>, orphans' \subseteq orphans,
         \A k \in Sockets : conn'[k].inbox = conn[k].inbox \/ conn'[k].inbox = <<>>
  PROVE  Short' /\ NoMore
  <1>1. Sockets' = Sockets
    BY DEF Sockets, ep_cache_sz
  <1>2. Short'
    BY <1>1 DEF Short
  <1>3. ASSUME NEW r \in Requests PROVE Owed(r)' <= Owed(r)
    <2>1. WaitsAt(r)' \in SUBSET WaitsAt(r) /\ Adrift(r)' \in SUBSET Adrift(r)
      BY <1>1 DEF WaitsAt, Adrift
    <2>2. /\ IsFiniteSet(WaitsAt(r)) /\ IsFiniteSet(Adrift(r))
          /\ Cardinality(WaitsAt(r)) \in Nat /\ Cardinality(Adrift(r)) \in Nat
          /\ executed[r] \in Nat
      BY OwedIsNatural
    <2>3. /\ Cardinality(WaitsAt(r)') \in Nat /\ Cardinality(WaitsAt(r)') <= Cardinality(WaitsAt(r))
          /\ Cardinality(Adrift(r)') \in Nat /\ Cardinality(Adrift(r)') <= Cardinality(Adrift(r))
      BY <2>1, <2>2, FS_Subset, FS_CardinalityType
    <2>4. executed'[r] = executed[r]
      OBVIOUS
    <2>5. Owed(r)' = executed'[r] + Cardinality(WaitsAt(r)') + Cardinality(Adrift(r)')
      BY DEF Owed
    <2> QED
      BY SMT, <2>2, <2>3, <2>4, <2>5 DEF Owed
  <1> QED
    BY <1>2, <1>3 DEF NoMore

(* A closed connection leaves its request adrift.                          *)
LEMMA OwedOnClosing ==
  ASSUME Core, Core', Short, UNCHANGED <<config, executed>>, NEW K \in SUBSET Sockets, CloseAll(K)
  PROVE  Short' /\ NoMore
  <1>1. Sockets' = Sockets
    BY DEF Sockets, ep_cache_sz
  <1>2. \A k \in Sockets : conn'[k] = IF k \in K THEN NoConn ELSE conn[k]
    BY DEF CloseAll
  <1>3. Short'
    BY <1>1, <1>2, Constants DEF Short
  <1>4. ASSUME NEW r \in Requests PROVE Owed(r)' <= Owed(r)
    <2> DEFINE W == WaitsAt(r)
               A == {conn[k].inbox[1] : k \in W \cap K}
               f == [k \in W \cap K |-> conn[k].inbox[1]]
    <2>1. /\ IsFiniteSet(W) /\ IsFiniteSet(Adrift(r)) /\ executed[r] \in Nat
          /\ Cardinality(Adrift(r)) \in Nat
      BY OwedIsNatural
    <2>2. WaitsAt(r)' = W \ K
      BY <1>1, <1>2, Constants DEF WaitsAt
    <2>3. Adrift(r)' \subseteq Adrift(r) \union A
      <3> SUFFICES ASSUME NEW a \in orphans', a[1] = r, a \notin orphans PROVE a \in A
        BY DEF Adrift
      <3>1. PICK k \in K : \E i \in DOMAIN conn[k].inbox : a = conn[k].inbox[i]
        BY DEF CloseAll
      <3>2. PICK i \in DOMAIN conn[k].inbox : a = conn[k].inbox[i]
        BY <3>1
      <3>3. conn[k].inbox \in Seq(Attempts) /\ (conn[k].inbox = <<>> \/ Len(conn[k].inbox) = 1)
        BY DEF Core, ConnOK, Connections, Short
      <3>4. conn[k].inbox # <<>> /\ i = 1
        BY SMT, <3>3
      <3> QED
        BY <3>2, <3>4 DEF WaitsAt
    <2>4. f \in Surjection(W \cap K, A)
      BY DEF Surjection
    <2> HIDE DEF W, A, f
    <2>5. IsFiniteSet(W \cap K) /\ IsFiniteSet(W \ K)
      <3>1. W \cap K \in SUBSET W /\ W \ K \in SUBSET W
        OBVIOUS
      <3> QED
        BY <2>1, <3>1, FS_Subset
    <2>6. IsFiniteSet(A) /\ Cardinality(A) <= Cardinality(W \cap K)
      BY <2>4, <2>5, FS_Surjection
    <2>7. Cardinality(W) = Cardinality(W \ K) + Cardinality(W \cap K)
      <3>1. W = (W \ K) \union (W \cap K) /\ (W \ K) \cap (W \cap K) = {}
        OBVIOUS
      <3>2. Cardinality(W) = Cardinality(W \ K) + Cardinality(W \cap K) - Cardinality({})
        BY <2>5, <3>1, FS_Union
      <3>3. Cardinality(W \ K) \in Nat /\ Cardinality(W \cap K) \in Nat /\ Cardinality({}) = 0
        BY <2>5, FS_CardinalityType, FS_EmptySet
      <3> QED
        BY SMT, <3>2, <3>3
    <2>8. /\ IsFiniteSet(Adrift(r) \union A)
          /\ Cardinality(Adrift(r) \union A) <= Cardinality(Adrift(r)) + Cardinality(A)
      <3>1. /\ IsFiniteSet(Adrift(r) \union A)
            /\ Cardinality(Adrift(r) \union A)
                 = Cardinality(Adrift(r)) + Cardinality(A) - Cardinality(Adrift(r) \cap A)
        BY <2>1, <2>6, FS_Union
      <3>2. Cardinality(Adrift(r) \cap A) \in Nat /\ Cardinality(A) \in Nat
        BY <2>1, <2>6, FS_Intersection, FS_CardinalityType
      <3> QED
        BY SMT, <2>1, <3>1, <3>2
    <2>9. Cardinality(Adrift(r)') <= Cardinality(Adrift(r) \union A)
      BY <2>3, <2>8, FS_Subset
    <2>10. /\ Cardinality(W \ K) \in Nat /\ Cardinality(W \cap K) \in Nat /\ Cardinality(A) \in Nat
           /\ Cardinality(Adrift(r) \union A) \in Nat
      BY <2>5, <2>6, <2>8, FS_CardinalityType
    <2>11. Cardinality(Adrift(r)') \in Nat
      <3>1. IsFiniteSet(Adrift(r)')
        BY <2>3, <2>8, FS_Subset
      <3> QED
        BY <3>1, FS_CardinalityType
    <2>12. /\ Owed(r)' = executed[r] + Cardinality(W \ K) + Cardinality(Adrift(r)')
           /\ Owed(r) = executed[r] + Cardinality(W) + Cardinality(Adrift(r))
      BY <2>2 DEF Owed, W
    <2> QED
      BY SMT, <2>1, <2>6, <2>7, <2>8, <2>9, <2>10, <2>11, <2>12
  <1> QED
    BY <1>3, <1>4 DEF NoMore

(* Sockets are closed, or left alone.                                      *)
LEMMA OwedOtherwise ==
  ASSUME Core, Core', Short, UNCHANGED <<config, executed>>,
         UNCHANGED <<conn, orphans>> \/ \E K \in SUBSET Sockets : CloseAll(K)
  PROVE  Short' /\ NoMore
  <1>1. CASE UNCHANGED <<conn, orphans>>
    BY <1>1, OwedShrinks
  <1>2. CASE \E K \in SUBSET Sockets : CloseAll(K)
    BY <1>2, OwedOnClosing
  <1> QED
    BY <1>1, <1>2

(* A thread that does not move.                                            *)
StaysPut(u) ==
  /\ pc'[u] = pc[u] /\ req'[u] = req[u] /\ try'[u] = try[u] /\ slot'[u] = slot[u]
  /\ recoverable'[u] = recoverable[u] /\ headeratclient'[u] = headeratclient[u]
  /\ pc[u] # "idle" => last_op'[slot[u]] = last_op[slot[u]]

(* What it knows stays true, if its request owes no more.                  *)
LEMMA OthersTry ==
  ASSUME Core, Core', NEW u \in Threads, OwnTries(u), StaysPut(u), UNCHANGED config,
         next' = next \/ next' = next + 1,
         pc[u] # "idle" => \A r \in Requests : r = req[u] => Owed(r)' <= Owed(r)
  PROVE  OwnTries(u)'
  <1> SUFFICES ASSUME pc[u] # "idle" PROVE OwnTries(u)'
    BY DEF OwnTries, StaysPut
  <1>1. req[u] \in Requests /\ try[u] \in Nat /\ next \in Nat /\ req[u] \in Nat
    <2>1. req[u] \in Requests
      BY Holding
    <2> QED
      BY SMTT(60), <2>1, AjpAssumption DEF Core, Typed, Requests
  <1>2. ASSUME NEW r \in Requests, r = req[u] PROVE Owes(u, r)'
    <2>1. Owed(r) \in Nat /\ Owed(r)' \in Nat /\ Owed(r)' <= Owed(r)
      BY <1>2, OwedIsNatural, OwedStaysNatural
    <2>2. Single(r)' <=> Single(r)
      BY DEF Single, recovery_opts
    <2>3. Owes(u, r)
      BY <1>2 DEF OwnTries
    <2>4. pc'[u] = pc[u] /\ try'[u] = try[u] /\ recoverable'[u] = recoverable[u]
      BY DEF StaysPut
    <2>5. \A n \in Int : Owed(r) <= n => Owed(r)' <= n
      BY SMT, <2>1
    <2>6. 0 \in Int /\ try[u] \in Int /\ try[u] - 1 \in Int
      BY SMT, <1>1
    <2> QED
      BY <2>2, <2>3, <2>4, <2>5, <2>6 DEF Owes
  <1>3. req'[u] < next'
    BY SMT, <1>1 DEF OwnTries, StaysPut
  <1> QED
    BY <1>2, <1>3 DEF OwnTries, StaysPut

(* Steps of the watchdog and of Tomcat.                                    *)
LEMMA NobodyMoves ==
  ASSUME Core, Core', Tries, Short', NoMore, \A u \in Threads : StaysPut(u),
         UNCHANGED <<config, next>>
  PROVE  Tries'
  <1>1. \A u \in Threads : OwnTries(u)'
    BY OthersTry DEF Tries, NoMore
  <1>2. Apart'
    <2>1. \A u \in Threads : pc'[u] = pc[u] /\ req'[u] = req[u]
      BY DEF StaysPut
    <2>2. Apart
      BY DEF Tries
    <2> QED
      BY <2>1, <2>2 DEF Apart
  <1>3. ASSUME NEW r \in Requests
        PROVE  /\ Owed(r)' <= retries
               /\ Single(r)' => Owed(r)' <= 1
               /\ r >= next' => Owed(r)' <= 0
    <2>1. Owed(r) \in Nat /\ Owed(r)' \in Nat /\ Owed(r)' <= Owed(r)
      BY OwedIsNatural, OwedStaysNatural DEF NoMore
    <2>2. \A n \in Int : Owed(r) <= n => Owed(r)' <= n
      BY SMT, <2>1
    <2>3. 0 \in Int /\ 1 \in Int /\ retries \in Int
      BY SMT, AjpAssumption
    <2>4. Single(r)' <=> Single(r)
      BY DEF Single, recovery_opts
    <2> QED
      BY <2>2, <2>3, <2>4 DEF Tries, AllTries
  <1> QED
    BY <1>1, <1>2, <1>3 DEF Tries, AllTries

(* A step of thread t, on whose request it sends at most.                  *)
LEMMA ThreadTries ==
  ASSUME Core, Core', Tries, Short', NEW t \in Threads,
         \A u \in Threads : u # t => StaysPut(u),
         UNCHANGED config, next' = next \/ next' = next + 1,
         \A r \in Requests : (pc[t] = "idle" \/ r # req[t]) => Owed(r)' <= Owed(r),
         pc[t] # "idle" => \A r \in Requests : r = req[t] =>
                             Owed(r)' <= retries /\ (Single(r) => Owed(r)' <= 1),
         pc'[t] # "idle" => req'[t] = next \/ (pc[t] # "idle" /\ req'[t] = req[t]),
         OwnTries(t)'
  PROVE  Tries'
  <1>1. next \in Nat
    BY SMTT(60), AjpAssumption DEF Core, Typed
  <1>2. ASSUME NEW u \in Threads, u # t PROVE OwnTries(u)'
    <2>1. ASSUME pc[u] # "idle", NEW r \in Requests, r = req[u] PROVE Owed(r)' <= Owed(r)
      BY <1>2, <2>1 DEF Tries, Apart
    <2> QED
      BY <1>2, <2>1, OthersTry DEF Tries
  <1>3. ASSUME NEW u \in Threads, u # t, pc'[t] # "idle", pc'[u] # "idle"
        PROVE  req'[t] # req'[u]
    <2>1. pc[u] # "idle" /\ req'[u] = req[u]
      BY <1>3 DEF StaysPut
    <2>2. req[u] < next /\ req[u] \in Requests
      BY <2>1, Holding DEF Tries, OwnTries
    <2>3. req[u] # next
      BY SMT, <1>1, <2>2, AjpAssumption DEF Requests
    <2> QED
      BY <1>3, <2>1, <2>3 DEF Tries, Apart
  <1>4. Apart'
    <2> SUFFICES ASSUME NEW u \in Threads, NEW v \in Threads, pc'[u] # "idle", pc'[v] # "idle",
                        req'[u] = req'[v]
                 PROVE  u = v
      BY DEF Apart
    <2>1. CASE u = t \/ v = t
      BY <1>3, <2>1
    <2>2. CASE u # t /\ v # t
      <3>1. pc[u] # "idle" /\ pc[v] # "idle" /\ req[u] = req[v]
        BY <2>2 DEF StaysPut
      <3> QED
        BY <3>1 DEF Tries, Apart
    <2> QED
      BY <2>1, <2>2
  <1>5. ASSUME NEW r \in Requests
        PROVE  /\ Owed(r)' <= retries
               /\ Single(r)' => Owed(r)' <= 1
               /\ r >= next' => Owed(r)' <= 0
    <2>1. Owed(r) \in Nat /\ Owed(r)' \in Nat
      BY OwedIsNatural, OwedStaysNatural
    <2>2. Single(r)' <=> Single(r)
      BY DEF Single, recovery_opts
    <2>3. r \in Nat /\ retries \in Nat
      BY SMT, AjpAssumption DEF Requests
    <2>4. CASE pc[t] = "idle" \/ r # req[t]
      <3>1. Owed(r)' <= Owed(r)
        BY <2>4
      <3>2. \A n \in Int : Owed(r) <= n => Owed(r)' <= n
        BY SMT, <2>1, <3>1
      <3>3. 0 \in Int /\ 1 \in Int /\ retries \in Int /\ (r >= next' => r >= next)
        BY SMT, <1>1, <2>3
      <3> QED
        BY <2>2, <3>2, <3>3 DEF Tries, AllTries
    <2>5. CASE pc[t] # "idle" /\ r = req[t]
      <3>1. r < next
        BY <2>5 DEF Tries, OwnTries
      <3>2. ~(r >= next')
        BY SMT, <1>1, <2>3, <3>1
      <3> QED
        BY <2>2, <2>5, <3>2
    <2> QED
      BY <2>4, <2>5
  <1> QED
    BY <1>2, <1>4, <1>5 DEF Tries, AllTries

(* Where a thread goes with its request, without sending it.               *)
Goes(t, p) ==
  \/ pc[t] = "service" /\ p \in {"send", "done"} /\ try'[t] = 1
  \/ pc[t] \in Unsent /\ p \in Unsent \union {"failed"} /\ try'[t] = try[t]
  \/ pc[t] \in Sent /\ p \in {"reply", "done"} /\ try'[t] = try[t]
  \/ /\ pc[t] \in Sent /\ p = "failed" /\ try'[t] = try[t]
     /\ recoverable'[t] => ~Single(req[t])
  \/ pc[t] = "failed" /\ recoverable[t] /\ p = "send" /\ try'[t] = try[t] + 1

LEMMA LoopTries ==
  ASSUME Core, Core', Tries, Short', NoMore, NEW t \in Threads, pc[t] # "idle",
         NEW p, At(t, p), Goes(t, p),
         UNCHANGED <<config, slot, req, next>>,
         \A u \in Threads : u # t => /\ try'[u] = try[u] /\ recoverable'[u] = recoverable[u]
                                     /\ headeratclient'[u] = headeratclient[u],
         \A x \in Slots : x # slot[t] => last_op'[x] = last_op[x],
         p = "reply" /\ last_op'[slot[t]] = "SEND_HEADERS" => headeratclient'[t]
  PROVE  Tries'
  <1>1. /\ pc \in [Threads -> InLoop \union {"idle", "service", "done"}]
        /\ slot[t] \in Slots /\ req[t] \in Requests
        /\ pc[t] # "service" => try[t] \in 1 .. retries
        /\ pc'[t] = p /\ \A u \in Threads : u # t => pc'[u] = pc[u]
    BY Holding DEF Core, Typed, At
  <1>2. ASSUME NEW u \in Threads, u # t PROVE StaysPut(u)
    <2>1. ASSUME pc[u] # "idle" PROVE slot[u] \in Slots /\ slot[u] # slot[t]
      <3>1. slot[u] \in Slots
        BY <2>1, Holding
      <3>2. slot[u] # 0
        BY <2>1 DEF Core, ThreadOK, EndpointOf
      <3> QED
        BY <1>2, <3>1, <3>2 DEF Core, Holders
    <2> QED
      BY <1>1, <1>2, <2>1 DEF StaysPut
  <1>3. p # "idle" /\ p # "post" /\ p # "service"
    BY DEF Goes, Unsent
  <1>4. ASSUME NEW r \in Requests, r = req[t]
        PROVE  Owes(t, r)' /\ Owed(r)' <= retries /\ (Single(r) => Owed(r)' <= 1)
    <2>1. Owed(r) \in Nat /\ Owed(r)' \in Nat /\ Owed(r)' <= Owed(r) /\ retries \in Nat
      BY OwedIsNatural, OwedStaysNatural, AjpAssumption DEF NoMore
    <2>2. Owes(t, r) /\ Owed(r) <= retries /\ (Single(r) => Owed(r) <= 1)
      BY <1>4 DEF Tries, OwnTries, AllTries
    <2>3. Single(r)' <=> Single(r)
      BY DEF Single, recovery_opts
    <2>4. \A n \in Int : Owed(r) <= n => Owed(r)' <= n
      BY SMT, <2>1
    <2>5. 0 \in Int /\ 1 \in Int /\ retries \in Int
      BY SMT, <2>1
    <2>6. CASE pc[t] = "service" /\ p \in {"send", "done"} /\ try'[t] = 1
      <3>1. Owed(r)' <= 0
        BY <2>2, <2>4, <2>5, <2>6 DEF Owes
      <3>2. Owed(r)' <= try'[t] - 1 /\ Owed(r)' <= try'[t]
        BY SMT, <2>1, <2>6, <3>1
      <3> QED
        BY <1>1, <1>3, <2>2, <2>4, <2>5, <3>1, <3>2 DEF Owes
    <2>7. CASE pc[t] \in Unsent /\ p \in Unsent \union {"failed"} /\ try'[t] = try[t]
      <3>1. Owed(r) <= try[t] - 1 /\ (Single(r) => Owed(r) <= 0) /\ pc[t] # "service"
        BY <2>2, <2>7 DEF Owes, Unsent
      <3>2. Owed(r)' <= try'[t] - 1 /\ Owed(r)' <= try'[t]
        BY SMTT(60), <1>1, <2>1, <2>7, <3>1
      <3>3. Single(r) => Owed(r)' <= 0
        BY <2>4, <2>5, <3>1
      <3> QED
        BY <1>1, <1>3, <2>2, <2>3, <2>4, <2>5, <3>2, <3>3 DEF Owes
    <2>8. ASSUME pc[t] \in Sent, try'[t] = try[t] PROVE Owed(r)' <= try'[t]
      <3>1. pc[t] # "service" /\ Owed(r) <= try[t]
        BY <2>2, <2>8 DEF Sent, Owes
      <3> QED
        BY SMTT(60), <1>1, <2>1, <2>8, <3>1
    <2>9. CASE pc[t] \in Sent /\ p \in {"reply", "done"} /\ try'[t] = try[t]
      <3>1. p \notin Unsent /\ p # "failed"
        BY <2>9 DEF Unsent
      <3> QED
        BY <1>1, <1>3, <2>2, <2>4, <2>5, <2>8, <2>9, <3>1 DEF Owes
    <2>10. CASE /\ pc[t] \in Sent /\ p = "failed" /\ try'[t] = try[t]
                /\ recoverable'[t] => ~Single(req[t])
      <3>1. p \notin Unsent
        BY <2>10 DEF Unsent
      <3> QED
        BY <1>1, <1>3, <1>4, <2>2, <2>3, <2>4, <2>5, <2>8, <2>10, <3>1 DEF Owes
    <2>11. CASE pc[t] = "failed" /\ recoverable[t] /\ p = "send" /\ try'[t] = try[t] + 1
      <3>1. Owed(r) <= try[t] /\ (Single(r) => Owed(r) <= 0)
        BY <2>2, <2>11 DEF Owes, Sent
      <3>2. Owed(r)' <= try'[t] - 1 /\ p \notin Sent
        BY SMTT(60), <1>1, <2>1, <2>11, <3>1 DEF Sent
      <3>3. Single(r) => Owed(r)' <= 0
        BY <2>4, <2>5, <3>1
      <3> QED
        BY <1>1, <1>3, <2>2, <2>3, <2>4, <2>5, <3>2, <3>3 DEF Owes
    <2> QED
      BY <2>6, <2>7, <2>9, <2>10, <2>11 DEF Goes
  <1>5. OwnTries(t)'
    BY <1>1, <1>3, <1>4 DEF OwnTries, Tries
  <1> QED
    BY <1>2, <1>3, <1>4, <1>5, ThreadTries DEF NoMore

(* The steps of a thread on the way to sending its request.                *)
LEMMA TriesBefore ==
  ASSUME Core, Core', Tries, NEW t \in Threads,
         \/ ajp_service(t) \/ ajp_send_request(t) \/ StillConnected(t) \/ TryAnother(t)
         \/ ajp_connect_to_endpoint(t)
  PROVE  Tries'
  <1>1. /\ Typed /\ Short /\ pc[t] # "idle"
        /\ pc[t] \in {"service"} \union Unsent
    BY DEF Core, Tries, ajp_service, ajp_send_request, StillConnected, TryAnother,
           ajp_connect_to_endpoint, Unsent
  <1>2. /\ slot[t] \in Slots /\ sd \in [Slots -> Sockets \union {0}]
        /\ try \in [Threads -> 0 .. retries] /\ recoverable \in [Threads -> BOOLEAN]
        /\ last_op \in [Slots -> Operations]
    BY <1>1, Holding DEF Typed, Operations
  <1>3. \A s \in Slots : {sd[s]} \ {0} \in SUBSET Sockets
    BY <1>2
  <1>4. CASE ajp_service(t)
    <2>1. Short' /\ NoMore
      BY <1>1, <1>4, OwedOtherwise DEF ajp_service, tomcatVars
    <2>2. PICK p \in {"send", "done"} : At(t, p)
      BY <1>4 DEF ajp_service
    <2> QED
      BY <1>1, <1>2, <1>4, <2>1, <2>2, LoopTries DEF ajp_service, Goes
  <1>5. CASE ajp_send_request(t)
    <2>1. Short' /\ NoMore
      BY <1>1, <1>2, <1>3, <1>5, OwedOtherwise DEF ajp_send_request, ajp_abort_endpoint
    <2>2. PICK p \in {"check", "connect"} : At(t, p)
      BY <1>5 DEF ajp_send_request
    <2>3. \A x \in Slots : x # slot[t] => last_op'[x] = last_op[x]
      BY <1>2, <1>5 DEF ajp_send_request, ajp_abort_endpoint
    <2> QED
      BY <1>1, <1>2, <1>5, <2>1, <2>2, <2>3, LoopTries DEF ajp_send_request, Goes, Unsent
  <1>6. CASE StillConnected(t)
    <2>1. Short' /\ NoMore
      BY <1>1, <1>6, OwedOtherwise DEF StillConnected, tomcatVars
    <2> QED
      BY <1>1, <1>2, <1>6, <2>1, LoopTries DEF StillConnected, Goes, Unsent, requestVars, epVars
  <1>7. CASE TryAnother(t)
    <2>1. Short' /\ NoMore
      BY <1>1, <1>2, <1>3, <1>7, OwedOtherwise DEF TryAnother, ajp_next_connection
    <2>2. PICK p \in {"check", "connect"} : At(t, p)
      BY <1>7 DEF TryAnother
    <2> QED
      BY <1>1, <1>2, <1>7, <2>1, <2>2, LoopTries DEF TryAnother, Goes, Unsent, requestVars
  <1>8. CASE ajp_connect_to_endpoint(t)
    <2>1. \A k \in Sockets : conn'[k].inbox = conn[k].inbox \/ conn'[k].inbox = <<>>
      <3>1. /\ conn \in [Sockets -> Connections]
            /\ \/ conn' = conn
               \/ \E k : conn' = [conn EXCEPT ![k] = NewConn]
        BY <1>8 DEF Core, ConnOK, ajp_connect_to_endpoint
      <3> QED
        BY <3>1, Constants
    <2>2. Short' /\ NoMore
      BY <1>1, <1>8, <2>1, OwedShrinks DEF ajp_connect_to_endpoint
    <2>3. PICK p \in {"forward", "failed"} : At(t, p)
      BY <1>8 DEF ajp_connect_to_endpoint
    <2> QED
      BY <1>1, <1>2, <1>8, <2>2, <2>3, LoopTries DEF ajp_connect_to_endpoint, Goes, Unsent, requestVars
  <1> QED
    BY <1>4, <1>5, <1>6, <1>7, <1>8

(* A request is sent: it owes one more execution at most.                  *)
LEMMA TriesToSend ==
  Core /\ Core' /\ Tries => \A t \in Threads : Forward(t) => Tries'
  (* An attempt is sent.                                                     *)
  <1>OwedOnSending.
    ASSUME Core, Core', Short, NEW t \in Threads, pc[t] = "forward",
           SendWorks(own(t), [conn[own(t)] EXCEPT !.inbox = Append(@, Attempt(t))]),
           UNCHANGED <<config, orphans, executed>>
    PROVE  /\ Short'
           /\ \A r \in Requests : Owed(r)' <= Owed(r) + 1 /\ (r # req[t] => Owed(r)' <= Owed(r))
    <2> USE <1>OwedOnSending
    <2> DEFINE k == own(t)
               c == [conn[k] EXCEPT !.inbox = Append(@, Attempt(t))]
    <2>1. /\ k \in Sockets /\ conn[k] \in Connections /\ req[t] \in Requests
          /\ conn \in [Sockets -> Connections]
      <3>1. k # 0
        BY DEF Core, ThreadOK, EndpointOf
      <3>2. /\ k \in Sockets \union {0} /\ req[t] \in Requests
            /\ k # 0 => conn[k] \in Connections
        BY Holding
      <3> QED
        BY <3>1, <3>2 DEF Core, ConnOK
    <2>2. conn[k].inbox = <<>>
      <3>1. k # 0
        BY DEF Core, ThreadOK, EndpointOf
      <3>2. Clean(conn[k])
        BY <3>1 DEF Core, ThreadOK, ConnectionOf
      <3> QED
        BY <3>2, Constants DEF Clean
    <2>3. Sockets' = Sockets
      BY DEF Sockets, ep_cache_sz
    <2>4. c.inbox = <<Attempt(t)>>
      <3>1. c.inbox = Append(<<>>, Attempt(t))
        BY <2>1, <2>2 DEF Connections
      <3> QED
        BY SMT, <3>1
    <2>5. /\ \A x \in Sockets : x # k => conn'[x] = conn[x]
          /\ conn'[k].inbox = <<>> \/ conn'[k].inbox = <<Attempt(t)>>
      BY <2>1, <2>2, <2>4 DEF SendWorks
    <2>6. Short'
      <3>1. \A x : Len(<<x>>) = 1
        BY SMT
      <3> QED
        BY <2>3, <2>5, <3>1 DEF Short
    <2>7. ASSUME NEW r \in Requests
          PROVE  /\ WaitsAt(r)' \subseteq WaitsAt(r) \union {k}
                 /\ r # req[t] => WaitsAt(r)' \subseteq WaitsAt(r)
      <3>1. <<Attempt(t)>>[1][1] = req[t]
        BY SMT DEF Attempt
      <3> QED
        BY <2>3, <2>5, <3>1 DEF WaitsAt
    <2> HIDE DEF k, c
    <2>8. ASSUME NEW r \in Requests
          PROVE  /\ Owed(r)' <= Owed(r) + 1
                 /\ r # req[t] => Owed(r)' <= Owed(r)
      <3>1. /\ IsFiniteSet(WaitsAt(r)) /\ Cardinality(WaitsAt(r)) \in Nat
            /\ executed[r] \in Nat /\ Cardinality(Adrift(r)) \in Nat
        BY OwedIsNatural
      <3>2. /\ IsFiniteSet(WaitsAt(r) \union {k})
            /\ Cardinality(WaitsAt(r) \union {k})
                 = IF k \in WaitsAt(r) THEN Cardinality(WaitsAt(r)) ELSE Cardinality(WaitsAt(r)) + 1
        BY <3>1, FS_AddElement
      <3>3. /\ IsFiniteSet(WaitsAt(r)')
            /\ Cardinality(WaitsAt(r)') <= Cardinality(WaitsAt(r) \union {k})
        BY <2>7, <3>2, FS_Subset
      <3>4. r # req[t] => Cardinality(WaitsAt(r)') <= Cardinality(WaitsAt(r))
        BY <2>7, <3>1, FS_Subset
      <3>5. Cardinality(WaitsAt(r)') \in Nat
        BY <3>3, FS_CardinalityType
      <3>6. Owed(r)' = executed[r] + Cardinality(WaitsAt(r)') + Cardinality(Adrift(r))
        BY DEF Owed, Adrift
      <3>7. Owed(r)' <= Owed(r) + 1
        BY SMT, <3>1, <3>2, <3>3, <3>5, <3>6 DEF Owed
      <3>8. r # req[t] => Owed(r)' <= Owed(r)
        BY SMT, <3>1, <3>4, <3>5, <3>6 DEF Owed
      <3> QED
        BY <3>7, <3>8
    <2> QED
      BY <2>6, <2>8
  (* The request is sent, or cannot be.                                      *)
  <1>TriesOnForward.
    ASSUME Core, Core', Tries, NEW t \in Threads, Forward(t)
    PROVE  Tries'
    <2> USE <1>TriesOnForward
    <2>1. /\ Typed /\ Short /\ pc[t] = "forward" /\ pc[t] \in Unsent
          /\ UNCHANGED <<config, slot, req, try, recoverable, next, executed>>
      BY DEF Core, Tries, Forward, Unsent
    <2>2. /\ slot[t] \in Slots /\ sd \in [Slots -> Sockets \union {0}] /\ req[t] \in Requests
          /\ try[t] \in 1 .. retries /\ headeratclient \in [Threads -> BOOLEAN]
          /\ last_op \in [Slots -> Operations]
          /\ pc \in [Threads -> InLoop \union {"idle", "service", "done"}]
      BY <2>1, Holding DEF Typed, Operations
    <2>3. CASE SendFails(slot[t]) /\ At(t, "failed") /\ UNCHANGED headeratclient
      <3>1. {sd[slot[t]]} \ {0} \in SUBSET Sockets
        BY <2>2
      <3>2. Short' /\ NoMore
        BY <2>1, <2>3, <3>1, OwedOtherwise DEF SendFails, ajp_abort_endpoint
      <3>3. \A x \in Slots : x # slot[t] => last_op'[x] = last_op[x]
        BY <2>2, <2>3 DEF SendFails, ajp_abort_endpoint
      <3> QED
        BY <2>1, <2>3, <3>2, <3>3, LoopTries DEF Goes
    <2>4. CASE /\ SendWorks(own(t), [conn[own(t)] EXCEPT !.inbox = Append(@, Attempt(t))])
               /\ last_op' = [last_op EXCEPT ![slot[t]] = "FORWARD_REQUEST"]
               /\ headeratclient' = [headeratclient EXCEPT ![t] = FALSE]
               /\ At(t, IF req[t] \in Uploads THEN "post" ELSE "reply")
               /\ UNCHANGED <<sd, orphans, connected>>
      <3>1. /\ Short'
            /\ \A r \in Requests : Owed(r)' <= Owed(r) + 1 /\ (r # req[t] => Owed(r)' <= Owed(r))
        BY <2>1, <2>4, <1>OwedOnSending
      <3>2. /\ pc'[t] = (IF req[t] \in Uploads THEN "post" ELSE "reply")
            /\ \A u \in Threads : u # t => pc'[u] = pc[u] /\ headeratclient'[u] = headeratclient[u]
            /\ last_op'[slot[t]] = "FORWARD_REQUEST"
            /\ \A x \in Slots : x # slot[t] => last_op'[x] = last_op[x]
        BY <2>2, <2>4 DEF At
      <3>3. ASSUME NEW u \in Threads, u # t PROVE StaysPut(u)
        <4>1. ASSUME pc[u] # "idle" PROVE slot[u] \in Slots /\ slot[u] # slot[t]
          <5>1. slot[u] \in Slots
            BY <4>1, Holding
          <5>2. slot[u] # 0
            BY <4>1 DEF Core, ThreadOK, EndpointOf
          <5> QED
            BY <3>3, <5>1, <5>2 DEF Core, Holders
        <4> QED
          BY <2>1, <3>2, <3>3, <4>1 DEF StaysPut
      <3>4. ASSUME NEW r \in Requests, r = req[t]
            PROVE  Owes(t, r)' /\ Owed(r)' <= retries /\ (Single(r) => Owed(r)' <= 1)
        <4>1. Owed(r) \in Nat /\ Owed(r)' \in Nat /\ Owed(r)' <= Owed(r) + 1
          BY <3>1, OwedIsNatural, OwedStaysNatural
        <4>2. Owed(r) <= try[t] - 1 /\ (Single(r) => Owed(r) <= 0)
          BY <2>1, <3>4 DEF Tries, OwnTries, Owes
        <4>3. Owed(r)' <= try[t] /\ Owed(r)' <= retries
          BY SMT, <2>2, <4>1, <4>2, AjpAssumption
        <4>4. Owed(r) <= 0 => Owed(r)' <= 1
          BY SMT, <4>1
        <4>5. pc'[t] \in Sent /\ pc'[t] \notin Unsent /\ pc'[t] # "failed" /\ pc'[t] # "service"
          BY <3>2 DEF Sent, Unsent
        <4> QED
          BY <2>1, <4>2, <4>3, <4>4, <4>5 DEF Owes
      <3>5. OwnTries(t)'
        BY <2>1, <3>2, <3>4 DEF OwnTries, Tries
      <3> QED
        BY <2>1, <3>1, <3>3, <3>4, <3>5, ThreadTries
    <2> QED
      BY <2>3, <2>4 DEF Forward
  <1> QED
    BY <1>TriesOnForward

(* The connection after a message was read and Tomcat's job moved on.      *)
ReadAt(t, s) == [Read(own(t)) EXCEPT ![own(t)].job.stage = s]

(* From the request to the end of the reply nothing is sent again.         *)
LEMMA TriesInReplies ==
  Core /\ Core' /\ Tries => \A t \in Threads :
    \/ Post(t) \/ BrowserStops(t) \/ ReplyLost(t)
    \/ SendHeaders(t) \/ SendBodyChunk(t) \/ GetBodyChunk(t) \/ EndResponse(t)
    => Tries'
  (* A step on the way from the sending of the request to the end of the     *)
  (* reply, after which it may be repeated only where two executions may.    *)
  <1>TriesInReply.
    ASSUME Core, Core', Tries, NEW t \in Threads, pc[t] \in {"post", "reply"},
           NEW p \in {"reply", "failed", "done"}, At(t, p),
           UNCHANGED <<config, slot, req, try, next, executed>>,
           \/ UNCHANGED orphans /\ \A k \in Sockets : conn'[k].inbox = conn[k].inbox
           \/ ajp_abort_endpoint(slot[t]),
           \A u \in Threads : u # t => /\ recoverable'[u] = recoverable[u]
                                       /\ headeratclient'[u] = headeratclient[u],
           \A x \in Slots : x # slot[t] => last_op'[x] = last_op[x],
           p = "reply" /\ last_op'[slot[t]] = "SEND_HEADERS" => headeratclient'[t],
           p = "failed" /\ recoverable'[t] => ~Single(req[t])
    PROVE  Tries'
    <2> USE <1>TriesInReply
    <2>1. Short /\ pc[t] # "idle" /\ pc[t] \in Sent
      BY DEF Tries, Sent
    <2>2. slot[t] \in Slots /\ sd \in [Slots -> Sockets \union {0}]
      BY <2>1, Holding DEF Core, Typed
    <2>3. Short' /\ NoMore
      <3>1. CASE UNCHANGED orphans /\ \A k \in Sockets : conn'[k].inbox = conn[k].inbox
        BY <2>1, <3>1, OwedShrinks
      <3>2. CASE ajp_abort_endpoint(slot[t])
        <4>1. sd[slot[t]] \in Sockets \union {0}
          BY <2>2
        <4>2. {sd[slot[t]]} \ {0} \in SUBSET Sockets
          BY SMTT(60), <4>1
        <4> QED
          BY <2>1, <3>2, <4>2, OwedOtherwise DEF ajp_abort_endpoint
      <3> QED
        BY <3>1, <3>2
    <2>4. Goes(t, p)
      BY <2>1 DEF Goes
    <2> QED
      BY <2>1, <2>3, <2>4, LoopTries
  (* Reading a message takes no request off a connection.                    *)
  <1>ReadKeepsInbox.
    ASSUME Core, NEW t \in Threads, NEW type, Receives(t, type)
    PROVE  /\ \A k \in Sockets : Read(own(t))[k].inbox = conn[k].inbox
           /\ \A s : \A k \in Sockets : ReadAt(t, s)[k].inbox = conn[k].inbox
    <2> USE <1>ReadKeepsInbox
    <2>1. own(t) \in Sockets /\ conn \in [Sockets -> Connections]
      BY Reading DEF Core, ConnOK
    <2>2. Read(own(t)) = [conn EXCEPT ![own(t)] = [conn[own(t)] EXCEPT !.wire = Tail(@)]]
      BY <2>1 DEF Read
    <2>3. /\ Read(own(t)) \in [Sockets -> Connections \union {Read(own(t))[own(t)]}]
          /\ Read(own(t))[own(t)].inbox = conn[own(t)].inbox
          /\ \A k \in Sockets : k # own(t) => Read(own(t))[k] = conn[k]
      BY <2>1, <2>2 DEF Connections
    <2>4. ASSUME NEW s, NEW k \in Sockets
          PROVE  ReadAt(t, s)[k].inbox = conn[k].inbox
      BY SMT, <2>1, <2>2, <2>3 DEF Connections, ReadAt
    <2> QED
      BY <2>3, <2>4
  (* The first part of the body, and failures.                               *)
  <1>TriesAtPost.
    ASSUME Core, Core', Tries, NEW t \in Threads, Post(t) \/ BrowserStops(t) \/ ReplyLost(t)
    PROVE  Tries'
    <2> USE <1>TriesAtPost
    <2>1. pc[t] \in {"post", "reply"} /\ pc[t] # "idle" /\ Typed
      BY DEF Post, BrowserStops, ReplyLost, Core
    <2>2. /\ slot[t] \in Slots /\ recoverable \in [Threads -> BOOLEAN]
          /\ headeratclient \in [Threads -> BOOLEAN] /\ last_op \in [Slots -> Operations]
      BY <2>1, Holding DEF Typed, Operations
    <2>3. \A x \in Slots : x # slot[t] /\ ajp_abort_endpoint(slot[t]) => last_op'[x] = last_op[x]
      BY <2>2 DEF ajp_abort_endpoint
    <2>4. OwnTries(t)
      BY DEF Tries
    <2>5. CASE Post(t)
      <3>1. req[t] \in Uploads /\ UNCHANGED <<config, slot, req, try, next, executed, recoverable, headeratclient>>
        BY <2>4, <2>5 DEF Post, OwnTries
      <3>2. ~Single(req[t])
        BY <3>1 DEF Single
      <3>3. CASE At(t, "reply") /\ UNCHANGED <<sd, last_op, conn, orphans, connected>>
        <4>1. last_op'[slot[t]] = "SEND_HEADERS" => headeratclient'[t]
          BY <2>1, <2>4, <3>1, <3>3 DEF OwnTries
        <4> QED
          BY <2>1, <3>1, <3>2, <3>3, <4>1, <1>TriesInReply
      <3>4. CASE SendFails(slot[t]) /\ At(t, "failed")
        BY <2>1, <2>3, <3>1, <3>2, <3>4, <1>TriesInReply DEF SendFails
      <3> QED
        BY <2>5, <3>3, <3>4 DEF Post
    <2>6. CASE BrowserStops(t)
      <3>1. /\ At(t, "done") /\ UNCHANGED <<config, slot, req, try, next, executed, headeratclient>>
            /\ \A u \in Threads : u # t => recoverable'[u] = recoverable[u]
        BY <2>2, <2>6 DEF BrowserStops, Finish
      <3>2. CASE UNCHANGED <<sd, last_op, conn, orphans, connected>>
        BY <2>1, <3>1, <3>2, <1>TriesInReply
      <3>3. CASE SendFails(slot[t])
        BY <2>1, <2>3, <3>1, <3>3, <1>TriesInReply DEF SendFails
      <3> QED
        BY <2>6, <3>2, <3>3 DEF BrowserStops
    <2>7. CASE ReplyLost(t)
      <3>1. /\ At(t, "failed") /\ ajp_abort_endpoint(slot[t])
            /\ UNCHANGED <<config, slot, req, try, next, executed, headeratclient>>
            /\ recoverable'[t] = Recovers(t)
            /\ \A u \in Threads : u # t => recoverable'[u] = recoverable[u]
        BY <2>2, <2>7 DEF ReplyLost
      <3>2. Recovers(t) => ~Single(req[t])
        BY DEF Recovers, Single
      <3> QED
        BY <2>1, <2>3, <3>1, <3>2, <1>TriesInReply
    <2> QED
      BY <2>5, <2>6, <2>7
  (* The messages of a reply.                                                *)
  <1>TriesOnMessage.
    ASSUME Core, Core', Tries, NEW t \in Threads,
           SendHeaders(t) \/ SendBodyChunk(t) \/ GetBodyChunk(t) \/ EndResponse(t)
    PROVE  Tries'
    <2> USE <1>TriesOnMessage
    <2>1. PICK type : Receives(t, type)
      BY DEF SendHeaders, SendBodyChunk, GetBodyChunk, EndResponse
    <2>2. pc[t] \in {"post", "reply"} /\ pc[t] = "reply" /\ slot[t] \in Slots /\ ThreadOK(t) /\ Typed
      BY <2>1, Reading
    <2>3. /\ recoverable \in [Threads -> BOOLEAN] /\ headeratclient \in [Threads -> BOOLEAN]
          /\ last_op \in [Slots -> Operations] /\ pc \in [Threads -> InLoop \union {"idle", "service", "done"}]
      BY <2>2 DEF Typed, Operations
    <2>4. /\ \A k \in Sockets : Read(own(t))[k].inbox = conn[k].inbox
          /\ \A s : \A k \in Sockets : ReadAt(t, s)[k].inbox = conn[k].inbox
      BY <2>1, <1>ReadKeepsInbox
    <2>5. ASSUME NEW op, LastOp(t, op)
          PROVE  last_op'[slot[t]] = op /\ \A x \in Slots : x # slot[t] => last_op'[x] = last_op[x]
      BY <2>2, <2>3, <2>5 DEF LastOp
    <2>6. UNCHANGED pc => At(t, "reply")
      BY <2>2, <2>3 DEF At
    <2>7. CASE SendHeaders(t)
      <3>1. ~headeratclient[t]
        BY <2>7, Reading DEF SendHeaders
      <3>2. last_op[slot[t]] # "SEND_HEADERS"
        BY <2>2, <3>1 DEF Tries, OwnTries
      <3>3. /\ At(t, "reply") /\ LastOp(t, "SEND_HEADERS") /\ conn' = Read(own(t))
            /\ headeratclient' = [headeratclient EXCEPT ![t] = TRUE]
            /\ recoverable' = [recoverable EXCEPT ![t] = @ /\ ~ headeratclient[t]]
            /\ UNCHANGED <<config, slot, req, try, next, executed, orphans>>
        BY <2>7, <3>1, <3>2 DEF SendHeaders
      <3>4. /\ headeratclient'[t]
            /\ \A u \in Threads : u # t => /\ recoverable'[u] = recoverable[u]
                                           /\ headeratclient'[u] = headeratclient[u]
        BY <2>3, <3>3
      <3> QED
        BY <2>2, <2>4, <2>5, <3>3, <3>4, <1>TriesInReply
    <2>8. CASE SendBodyChunk(t)
      <3>1. headeratclient[t]
        BY <2>8, Reading DEF SendBodyChunk
      <3>2. last_op[slot[t]] # "FORWARD_REQUEST"
        BY <2>2, <3>1 DEF ThreadOK, ConnectionOf
      <3>3. /\ conn' = Read(own(t)) /\ UNCHANGED <<config, slot, req, try, next, executed, orphans, headeratclient>>
            /\ \/ LastOp(t, "NO_RESPONSE") /\ UNCHANGED <<pc, recoverable>>
               \/ /\ LastOp(t, "CLIENT_WR_ERROR") /\ At(t, "done")
                  /\ recoverable' = [recoverable EXCEPT ![t] = FALSE]
        BY <2>8, <3>2 DEF SendBodyChunk, Finish
      <3>4. CASE LastOp(t, "NO_RESPONSE") /\ UNCHANGED <<pc, recoverable>>
        <4>1. /\ At(t, "reply") /\ last_op'[slot[t]] = "NO_RESPONSE"
              /\ \A x \in Slots : x # slot[t] => last_op'[x] = last_op[x]
          BY <2>5, <2>6, <3>4
        <4>2. \A k \in Sockets : conn'[k].inbox = conn[k].inbox
          BY <2>4, <3>3
        <4> QED
          BY <2>2, <3>3, <3>4, <4>1, <4>2, <1>TriesInReply
      <3>5. CASE /\ LastOp(t, "CLIENT_WR_ERROR") /\ At(t, "done")
                 /\ recoverable' = [recoverable EXCEPT ![t] = FALSE]
        BY <2>2, <2>3, <2>4, <2>5, <3>3, <3>5, <1>TriesInReply
      <3> QED
        BY <3>3, <3>4, <3>5
    <2>9. CASE GetBodyChunk(t)
      <3>1. /\ ~recoverable'[t] /\ \A u \in Threads : u # t => recoverable'[u] = recoverable[u]
            /\ UNCHANGED <<config, slot, req, try, next, executed, headeratclient>>
        BY <2>3, <2>9 DEF GetBodyChunk
      <3>2. CASE /\ conn' = [Read(own(t)) EXCEPT ![own(t)].job.stage =
                               IF conn[own(t)].peer = "open" THEN "fed" ELSE @]
                 /\ LastOp(t, "HAS_RESPONSE") /\ UNCHANGED <<sd, orphans, connected, pc, busy>>
        <4>1. \E s : conn' = ReadAt(t, s)
          BY <3>2 DEF ReadAt
        <4>2. \A k \in Sockets : conn'[k].inbox = conn[k].inbox
          BY <2>4, <4>1
        <4>3. /\ last_op'[slot[t]] = "HAS_RESPONSE" /\ At(t, "reply") /\ UNCHANGED orphans
              /\ \A x \in Slots : x # slot[t] => last_op'[x] = last_op[x]
          BY <2>5, <2>6, <3>2
        <4> QED
          BY <2>2, <3>1, <4>2, <4>3, <1>TriesInReply
      <3>3. CASE SendFails(slot[t]) /\ At(t, "failed")
        <4>1. \A x \in Slots : x # slot[t] => last_op'[x] = last_op[x]
          BY <2>2, <2>3, <3>3 DEF SendFails, ajp_abort_endpoint
        <4> QED
          BY <2>2, <3>1, <3>3, <4>1, <1>TriesInReply DEF SendFails
      <3>4. CASE /\ conn' = Read(own(t)) /\ LastOp(t, "CLIENT_RD_ERROR") /\ At(t, "done")
                 /\ UNCHANGED <<sd, orphans, connected>>
        BY <2>2, <2>4, <2>5, <3>1, <3>4, <1>TriesInReply
      <3> QED
        BY <2>9, <3>2, <3>3, <3>4 DEF GetBodyChunk, Finish
    <2>10. CASE EndResponse(t)
      BY <2>2, <2>4, <2>5, <2>10, <1>TriesInReply DEF EndResponse, Finish, requestVars
    <2> QED
      BY <2>7, <2>8, <2>9, <2>10
  <1> QED
    BY <1>TriesAtPost, <1>TriesOnMessage

(* An attempt has failed: another one, or the end.                         *)
LEMMA TriesOnRetry ==
  ASSUME Core, Core', Tries, NEW t \in Threads, Retry(t)
  PROVE  Tries'
  <1>1. /\ Short /\ pc[t] = "failed" /\ pc[t] \in Sent /\ Typed
        /\ UNCHANGED <<config, slot, req, next, executed, recoverable, headeratclient, last_op>>
    BY DEF Tries, Retry, Sent, Core
  <1>2. /\ slot[t] \in Slots /\ sd \in [Slots -> Sockets \union {0}]
        /\ try \in [Threads -> 0 .. retries]
    BY <1>1, Holding DEF Typed
  <1>3. Short' /\ NoMore
    <2>1. {sd[slot[t]]} \ {0} \in SUBSET Sockets
      BY <1>2
    <2> QED
      BY <1>1, <2>1, OwedOtherwise DEF Retry, ajp_next_connection
  <1>4. CASE At(t, "done") /\ UNCHANGED try
    BY <1>1, <1>3, <1>4, LoopTries DEF Goes
  <1>5. CASE recoverable[t] /\ At(t, "send") /\ try' = [try EXCEPT ![t] = @ + 1]
    BY <1>1, <1>2, <1>3, <1>5, LoopTries DEF Goes
  <1> QED
    BY <1>4, <1>5 DEF Retry, Finish

(* A request arrives, and it ends.                                         *)
LEMMA TriesFromTo ==
  Core /\ Core' /\ Tries => \A t \in Threads :
    ajp_get_endpoint(t) \/ NoEndpoint(t) \/ ajp_done(t) => Tries'
  (* The other threads, when one takes or gives back an endpoint.            *)
  <1>OthersStay.
    ASSUME Core, NEW t \in Threads,
           NEW p, At(t, p),
           NEW r, req' = [req EXCEPT ![t] = r], NEW s, slot' = [slot EXCEPT ![t] = s],
           \A u \in Threads : u # t => /\ try'[u] = try[u] /\ recoverable'[u] = recoverable[u]
                                       /\ headeratclient'[u] = headeratclient[u],
           \A x \in Slots : avail[x] \/ x = slot[t] \/ last_op'[x] = last_op[x]
    PROVE  /\ \A u \in Threads : u # t => StaysPut(u)
           /\ pc'[t] = p /\ req'[t] = r
    <2> USE <1>OthersStay
    <2>1. /\ pc \in [Threads -> InLoop \union {"idle", "service", "done"}]
          /\ req \in [Threads -> Requests \union {0}] /\ slot \in [Threads -> Slots \union {0}]
      BY DEF Core, Typed
    <2>2. ASSUME NEW u \in Threads, u # t PROVE StaysPut(u)
      <3>1. ASSUME pc[u] # "idle" PROVE last_op'[slot[u]] = last_op[slot[u]]
        <4>1. slot[u] \in Slots /\ ~avail[slot[u]]
          BY <3>1, Holding
        <4>2. slot[u] # 0
          BY <3>1 DEF Core, ThreadOK, EndpointOf
        <4>3. slot[u] # slot[t]
          BY <2>2, <4>2 DEF Core, Holders
        <4> QED
          BY <4>1, <4>3
      <3> QED
        BY <2>1, <2>2, <3>1 DEF StaysPut, At
    <2> QED
      BY <2>1, <2>2 DEF At
  (* A request arrives.  Nothing was sent for it before.                     *)
  <1>TriesOnArrival.
    ASSUME Core, Core', Tries, NEW t \in Threads, ajp_get_endpoint(t)
    PROVE  Tries'
    <2> USE <1>TriesOnArrival
    <2> DEFINE reusable == {s \in Cached : reuse[s]}
               stale == {s \in Cached \ reusable : \A u \in reusable : s < u}
               e == IF reusable # {} THEN Min(reusable) ELSE Min({s \in Slots : avail[s]})
    <2>1. /\ Short /\ Typed /\ pc[t] = "idle" /\ next \in Requests /\ next' = next + 1
          /\ At(t, "service") /\ req' = [req EXCEPT ![t] = next] /\ slot' = [slot EXCEPT ![t] = e]
          /\ UNCHANGED <<config, try, recoverable, headeratclient, executed>>
          /\ CloseAll({sd[x] : x \in stale})
          /\ last_op' = [x \in Slots |-> IF x \in stale THEN "END_RESPONSE" ELSE last_op[x]]
      BY DEF ajp_get_endpoint, Core, Tries
    <2>2. \A x \in stale : x \in Slots /\ avail[x] /\ sd[x] # 0
      BY DEF Cached
    <2> HIDE DEF reusable, stale, e
    <2>3. {sd[x] : x \in stale} \in SUBSET Sockets
      <3>1. ASSUME NEW x \in stale PROVE sd[x] \in Sockets
        <4>1. sd[x] \in Sockets \union {0} /\ sd[x] # 0
          BY <2>1, <2>2 DEF Typed
        <4> QED
          BY <4>1
      <3> QED
        BY <3>1
    <2>4. Short' /\ NoMore
      BY <2>1, <2>3, OwedOtherwise
    <2>5. /\ \A u \in Threads : u # t => StaysPut(u)
          /\ pc'[t] = "service" /\ req'[t] = next
      BY <2>1, <2>2, <1>OthersStay
    <2>6. next \in Nat /\ next < next + 1 /\ next >= next
      BY SMTT(60), <2>1, AjpAssumption DEF Requests
    <2>7. ASSUME NEW r \in Requests, r = next PROVE Owed(r)' <= 0
      <3>1. Owed(r) <= 0 /\ Owed(r)' <= Owed(r)
        BY <2>4, <2>6, <2>7 DEF Tries, AllTries, NoMore
      <3>2. Owed(r) \in Nat /\ Owed(r)' \in Nat
        BY OwedIsNatural, OwedStaysNatural
      <3> QED
        BY SMT, <3>1, <3>2
    <2>8. OwnTries(t)'
      BY <2>1, <2>5, <2>6, <2>7 DEF OwnTries, Owes, Unsent, Sent
    <2> QED
      BY <2>1, <2>4, <2>5, <2>8, ThreadTries DEF NoMore
  (* A request is turned away, and one ends.                                 *)
  <1>TriesAtEnds.
    ASSUME Core, Core', Tries, NEW t \in Threads, NoEndpoint(t) \/ ajp_done(t)
    PROVE  Tries'
    <2> USE <1>TriesAtEnds
    <2>1. /\ Short /\ Typed /\ slot \in [Threads -> Slots \union {0}]
          /\ sd \in [Slots -> Sockets \union {0}] /\ last_op \in [Slots -> Operations]
          /\ try \in [Threads -> 0 .. retries] /\ recoverable \in [Threads -> BOOLEAN]
          /\ headeratclient \in [Threads -> BOOLEAN]
      BY DEF Tries, Core, Typed, Operations
    <2>2. CASE NoEndpoint(t)
      <3>1. /\ UNCHANGED <<config, last_op, slot, req, try, recoverable, headeratclient, pc, conn, orphans, executed>>
            /\ next' = next + 1 /\ pc[t] = "idle"
        BY <2>2 DEF NoEndpoint, epVars, requestVars, tomcatVars
      <3>2. Short' /\ NoMore
        BY <2>1, <3>1, OwedOtherwise
      <3>3. \A u \in Threads : StaysPut(u)
        BY <3>1 DEF StaysPut
      <3>4. OwnTries(t)'
        BY <3>1 DEF OwnTries
      <3> QED
        BY <3>1, <3>2, <3>3, <3>4, ThreadTries DEF NoMore
    <2>3. CASE ajp_done(t)
      <3>1. /\ pc[t] = "done" /\ pc[t] # "idle" /\ At(t, "idle")
            /\ req' = [req EXCEPT ![t] = 0] /\ slot' = [slot EXCEPT ![t] = 0]
            /\ UNCHANGED <<config, next, executed>>
            /\ \A u \in Threads : u # t => /\ try'[u] = try[u] /\ recoverable'[u] = recoverable[u]
                                           /\ headeratclient'[u] = headeratclient[u]
        BY <2>1, <2>3 DEF ajp_done
      <3>2. slot[t] \in Slots /\ {sd[slot[t]]} \ {0} \in SUBSET Sockets
        <4>1. slot[t] \in Slots
          BY <3>1, Holding
        <4> QED
          BY <2>1, <4>1
      <3>3. Short' /\ NoMore
        BY <2>1, <2>3, <3>1, <3>2, OwedOtherwise DEF ajp_done, ajp_abort_endpoint
      <3>4. \A x \in Slots : x # slot[t] => last_op'[x] = last_op[x]
        BY <2>1, <2>3, <3>2 DEF ajp_done, ajp_abort_endpoint
      <3>5. (\A u \in Threads : u # t => StaysPut(u)) /\ pc'[t] = "idle"
        BY <3>1, <3>4, <1>OthersStay
      <3>6. OwnTries(t)'
        BY <3>5 DEF OwnTries
      <3>7. ASSUME NEW r \in Requests PROVE Owed(r)' <= retries /\ (Single(r) => Owed(r)' <= 1)
        <4>1. Owed(r) \in Nat /\ Owed(r)' \in Nat /\ Owed(r)' <= Owed(r) /\ retries \in Nat
          BY <3>3, OwedIsNatural, OwedStaysNatural, AjpAssumption DEF NoMore
        <4>2. Owed(r) <= retries /\ (Single(r) => Owed(r) <= 1)
          BY DEF Tries, AllTries
        <4>3. Owed(r)' <= retries /\ (Owed(r) <= 1 => Owed(r)' <= 1)
          BY SMT, <4>1, <4>2
        <4> QED
          BY <4>2, <4>3
      <3> QED
        BY <3>1, <3>3, <3>5, <3>6, <3>7, ThreadTries DEF NoMore
    <2> QED
      BY <2>2, <2>3
  <1> QED
    BY <1>TriesOnArrival, <1>TriesAtEnds

(* The watchdog.                                                           *)
LEMMA TriesOfWatchdog ==
  ASSUME Core, Core', Tries, ajp_maintain \/ MaintainCloses
  PROVE  Tries'
  <1>1. /\ Short /\ Typed /\ UNCHANGED <<config, next, pc, slot, req, try, recoverable, headeratclient, executed>>
    BY DEF Tries, Core, ajp_maintain, MaintainCloses, requestVars, tomcatVars
  <1>2. Short' /\ NoMore
    <2>1. CASE ajp_maintain
      BY <1>1, <2>1, OwedOtherwise DEF ajp_maintain, tomcatVars
    <2>2. CASE MaintainCloses
      <3>1. PICK k \in m_sock : CloseAll({k})
        BY <2>2 DEF MaintainCloses
      <3>2. {k} \in SUBSET Sockets
        BY <1>1 DEF Typed
      <3> QED
        BY <1>1, <3>1, <3>2, OwedOtherwise
    <2> QED
      BY <2>1, <2>2
  <1>3. \A s \in Slots : avail[s] \/ last_op'[s] = last_op[s]
    BY DEF ajp_maintain, MaintainCloses, epVars, Cached
  <1>4. ASSUME NEW u \in Threads PROVE StaysPut(u)
    <2>1. pc[u] # "idle" => slot[u] \in Slots /\ ~avail[slot[u]]
      BY Holding
    <2> QED
      BY <1>1, <1>3, <2>1 DEF StaysPut
  <1> QED
    BY <1>1, <1>2, <1>4, NobodyMoves

(* Tomcat executes what it is owed.                                        *)
LEMMA TriesInTomcat ==
  Core /\ Core' /\ Tries
    /\ (\/ \E k \in Descriptors : Tomcat(k) \/ TomcatEnds(k) \/ TomcatCloses(k)
        \/ TomcatTakesOrphan \/ TomcatDies \/ TomcatStarts \/ UNCHANGED vars)
    => Tries'
  (* Tomcat takes a request from a connection.                               *)
  <1>OwedOnTaking.
    ASSUME Core, Core', Short, NEW k, TomcatTakes(k)
    PROVE  Short' /\ NoMore
    <2> USE <1>OwedOnTaking
    <2> DEFINE a == conn[k].inbox[1]
    <2>1. /\ Sockets' = Sockets /\ k \in Sockets /\ conn[k].inbox # <<>>
          /\ conn \in [Sockets -> Connections] /\ executed \in [Requests -> Nat]
          /\ orphans' = orphans
      BY DEF TomcatTakes, Works, OnlyTomcat, Sockets, ep_cache_sz, Core, Typed, ConnOK
    <2>2. conn[k].inbox \in Seq(Attempts) /\ Len(conn[k].inbox) = 1
      BY <2>1 DEF Connections, Short
    <2>3. Head(conn[k].inbox) = a /\ Tail(conn[k].inbox) = <<>> /\ a \in Attempts
      <3>1. \A q \in Seq(Attempts) : Len(q) = 1 =>
              Head(q) = q[1] /\ q[1] \in Attempts /\ Tail(q) \in Seq(Attempts) /\ Len(Tail(q)) = 0
        BY SMT
      <3>2. \A q \in Seq(Attempts) : Len(q) = 0 => q = <<>>
        BY SMT
      <3> QED
        BY <2>2, <3>1, <3>2
    <2>4. /\ conn'[k].inbox = <<>>
          /\ \A x \in Sockets : x # k => conn'[x] = conn[x]
      <3>1. conn' = [conn EXCEPT ![k] =
                       [conn[k] EXCEPT !.inbox = Tail(@), !.job = [a |-> Head(conn[k].inbox), stage |-> "run"]]]
        BY <2>1 DEF TomcatTakes
      <3>2. conn[k] \in Connections
        BY <2>1
      <3>3. conn'[k].inbox = Tail(conn[k].inbox)
        BY <2>1, <3>1, <3>2 DEF Connections
      <3> QED
        BY <2>1, <2>3, <3>1, <3>3
    <2>5. Short'
      BY <2>1, <2>4 DEF Short
    <2>6. ASSUME NEW r \in Requests PROVE Owed(r)' <= Owed(r)
      <3>1. /\ IsFiniteSet(WaitsAt(r)) /\ Cardinality(WaitsAt(r)) \in Nat
            /\ executed[r] \in Nat /\ Cardinality(Adrift(r)) \in Nat
        BY OwedIsNatural
      <3>2. WaitsAt(r)' = WaitsAt(r) \ {k} /\ Adrift(r)' = Adrift(r)
        BY <2>1, <2>4 DEF WaitsAt, Adrift
      <3>3. executed'[r] = IF r = a[1] THEN executed[r] + 1 ELSE executed[r]
        BY <2>1, <2>3 DEF TomcatTakes, Run
      <3>4. r = a[1] <=> k \in WaitsAt(r)
        BY <2>1 DEF WaitsAt
      <3>5. Cardinality(WaitsAt(r)') = IF k \in WaitsAt(r) THEN Cardinality(WaitsAt(r)) - 1
                                                           ELSE Cardinality(WaitsAt(r))
        BY <3>1, <3>2, FS_RemoveElement
      <3>6. Owed(r)' = executed'[r] + Cardinality(WaitsAt(r)') + Cardinality(Adrift(r))
        BY <3>2 DEF Owed
      <3> HIDE DEF a
      <3> QED
        BY SMT, <3>1, <3>3, <3>4, <3>5, <3>6 DEF Owed
    <2> QED
      BY <2>5, <2>6 DEF NoMore
  (* Tomcat takes one that came on a connection closed since.                *)
  <1>OwedOnTakingOrphan.
    ASSUME Core, Core', Short, TomcatTakesOrphan
    PROVE  Short' /\ NoMore
    <2> USE <1>OwedOnTakingOrphan
    <2>1. PICK a \in orphans : Run(a) /\ orphans' = orphans \ {a}
      BY DEF TomcatTakesOrphan
    <2>2. /\ Sockets' = Sockets /\ conn' = conn /\ executed \in [Requests -> Nat]
      BY DEF TomcatTakesOrphan, OnlyTomcat, Sockets, ep_cache_sz, Core, Typed
    <2>3. Short'
      BY <2>2 DEF Short
    <2>4. ASSUME NEW r \in Requests PROVE Owed(r)' <= Owed(r)
      <3>1. /\ IsFiniteSet(Adrift(r)) /\ Cardinality(WaitsAt(r)) \in Nat
            /\ executed[r] \in Nat /\ Cardinality(Adrift(r)) \in Nat
        BY OwedIsNatural
      <3>2. WaitsAt(r)' = WaitsAt(r) /\ Adrift(r)' = Adrift(r) \ {a}
        BY <2>1, <2>2 DEF WaitsAt, Adrift
      <3>3. executed'[r] = IF r = a[1] THEN executed[r] + 1 ELSE executed[r]
        BY <2>1, <2>2 DEF Run
      <3>4. r = a[1] <=> a \in Adrift(r)
        BY DEF Adrift
      <3>5. Cardinality(Adrift(r)') = IF a \in Adrift(r) THEN Cardinality(Adrift(r)) - 1
                                                         ELSE Cardinality(Adrift(r))
        BY <3>1, <3>2, FS_RemoveElement
      <3>6. Owed(r)' = executed'[r] + Cardinality(WaitsAt(r)) + Cardinality(Adrift(r)')
        BY <3>2 DEF Owed
      <3> QED
        BY SMTT(60), <3>1, <3>3, <3>4, <3>5, <3>6 DEF Owed
    <2> QED
      BY <2>3, <2>4 DEF NoMore
  (* Tomcat.                                                                 *)
  <1>TriesOfTomcat.
    ASSUME Core, Core', Tries,
           \/ \E k \in Descriptors : Tomcat(k) \/ TomcatEnds(k) \/ TomcatCloses(k)
           \/ TomcatTakesOrphan \/ TomcatDies \/ TomcatStarts \/ UNCHANGED vars
    PROVE  Tries'
    <2> USE <1>TriesOfTomcat
    <2>1. OnlyTomcat
      BY DEF Tomcat, TomcatTakes, TomcatReplies, TomcatEnds, TomcatCloses, TomcatTakesOrphan,
             TomcatDies, TomcatStarts, vars, OnlyTomcat
    <2>2. \A u \in Threads : StaysPut(u)
      BY <2>1 DEF OnlyTomcat, StaysPut, epVars, requestVars
    <2>3. Short /\ UNCHANGED <<config, next>> /\ conn \in [Sockets -> Connections]
      BY <2>1 DEF Tries, OnlyTomcat, Core, ConnOK
    <2>4. Short' /\ NoMore
      <3>1. ASSUME NEW k, TomcatTakes(k) PROVE Short' /\ NoMore
        BY <2>3, <3>1, <1>OwedOnTaking
      <3>2. ASSUME NEW k \in Sockets, NEW type, NEW stage, NEW again, Says(k, type, stage, again)
            PROVE  \A x \in Sockets : conn'[x].inbox = conn[x].inbox
        BY SMTT(60), <2>3, <3>2 DEF Says, Connections
      <3>3. ASSUME NEW k, TomcatReplies(k) \/ TomcatEnds(k) PROVE Short' /\ NoMore
        <4>1. k \in Sockets /\ UNCHANGED <<orphans, executed>>
              /\ \E type, stage, again : Says(k, type, stage, again)
          BY <3>3 DEF TomcatReplies, TomcatEnds, Works
        <4> QED
          BY <2>3, <3>2, <4>1, OwedShrinks
      <3>4. \A c, b : Hangup(c, b).inbox = <<>>
        BY DEF Hangup, NoConn
      <3>5. ASSUME NEW k, TomcatCloses(k) PROVE Short' /\ NoMore
        <4>1. /\ \A x \in Sockets : conn'[x].inbox = conn[x].inbox \/ conn'[x].inbox = <<>>
              /\ UNCHANGED <<orphans, executed>>
          BY <2>3, <3>4, <3>5 DEF TomcatCloses
        <4> QED
          BY <2>3, <4>1, OwedShrinks
      <3>6. CASE TomcatTakesOrphan
        BY <2>3, <3>6, <1>OwedOnTakingOrphan
      <3>7. CASE TomcatDies
        <4>1. /\ \A x \in Sockets : conn'[x].inbox = conn[x].inbox \/ conn'[x].inbox = <<>>
              /\ orphans' \subseteq orphans /\ executed' = executed
          <5>1. PICK arrives \in BOOLEAN : conn' =
                  [k \in Sockets |-> IF conn[k] = NoConn THEN NoConn ELSE Hangup(conn[k], arrives)]
            BY <3>7 DEF TomcatDies
          <5>2. ASSUME NEW x \in Sockets
                PROVE  conn'[x].inbox = conn[x].inbox \/ conn'[x].inbox = <<>>
            BY <3>4, <5>1
          <5> QED
            BY <3>7, <5>2 DEF TomcatDies
        <4> QED
          BY <2>3, <4>1, OwedShrinks
      <3>8. CASE TomcatStarts \/ UNCHANGED vars
        BY <2>3, <3>8, OwedOtherwise DEF TomcatStarts, vars, tomcatVars
      <3> QED
        BY <3>1, <3>3, <3>5, <3>6, <3>7, <3>8 DEF Tomcat
    <2> QED
      BY <2>2, <2>3, <2>4, NobodyMoves
  <1> QED
    BY <1>TriesOfTomcat

(* At first nothing has been sent.                                         *)
LEMMA InitTries == Init => Tries
  <1> SUFFICES ASSUME Init PROVE Tries
    OBVIOUS
  <1>1. Core /\ IsFiniteSet({}) /\ Cardinality({}) = 0
    BY InitCore, FS_EmptySet
  <1>2. Short /\ \A t \in Threads : pc[t] = "idle"
    BY DEF Init, Short, NoConn
  <1>3. ASSUME NEW r \in Requests PROVE Owed(r) = 0
    <2>1. WaitsAt(r) = {} /\ Adrift(r) = {} /\ executed[r] = 0
      BY DEF Init, WaitsAt, Adrift, NoConn
    <2> QED
      BY SMT, <1>1, <2>1 DEF Owed
  <1>4. 0 <= retries /\ 0 <= 1 /\ 0 <= 0
    BY SMT, AjpAssumption
  <1> QED
    BY <1>2, <1>3, <1>4 DEF Tries, AllTries, Apart, OwnTries

(* Every step keeps the account of attempts.                               *)
LEMMA StepTries == IInv /\ IInv' /\ Tries /\ [Next]_vars => Tries'
  <1> SUFFICES ASSUME Core, Core', Tries, [Next]_vars PROVE Tries'
    BY DEF IInv
  <1>1. ASSUME NEW t \in Threads, Thread(t) PROVE Tries'
    BY <1>1, TriesBefore, TriesToSend, TriesInReplies, TriesOnRetry, TriesFromTo DEF Thread
  <1>2. CASE ajp_maintain \/ MaintainCloses
    BY <1>2, TriesOfWatchdog
  <1>3. ASSUME NEW k \in Descriptors, Tomcat(k) \/ TomcatEnds(k) \/ TomcatCloses(k) PROVE Tries'
    BY <1>3, TriesInTomcat
  <1>4. CASE TomcatTakesOrphan \/ TomcatDies \/ TomcatStarts \/ UNCHANGED vars
    BY <1>4, TriesInTomcat
  <1> QED
    BY <1>1, <1>2, <1>3, <1>4 DEF Next

(* Tomcat executes a request no more often than ajp_service tries, and one *)
(* that the recovery options do not let be repeated once at most, whatever *)
(* replies are lost, connections closed and requests left behind on them.  *)
THEOREM RequestsAreExecutedOnce == Spec => []ExecutedOnce
  <1>1. Core /\ Tries => ExecutedOnce
    <2> SUFFICES ASSUME Core, Tries, NEW r \in Requests
                 PROVE  executed[r] <= retries /\ (Single(r) => executed[r] <= 1)
      BY DEF ExecutedOnce, Single
    <2>1. /\ Cardinality(WaitsAt(r)) \in Nat /\ Cardinality(Adrift(r)) \in Nat
          /\ executed[r] \in Nat /\ retries \in Nat
      BY OwedIsNatural, AjpAssumption
    <2>2. Owed(r) <= retries /\ (Single(r) => Owed(r) <= 1)
      BY DEF Tries, AllTries
    <2>3. executed[r] <= retries /\ (Owed(r) <= 1 => executed[r] <= 1)
      BY SMT, <2>1, <2>2 DEF Owed
    <2> QED
      BY <2>2, <2>3
  <1> QED
    BY <1>1, Invariance, InitTries, StepTries, PTL DEF Spec, IInv

=============================================================================
