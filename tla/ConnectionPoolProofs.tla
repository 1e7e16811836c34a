------------------------ MODULE ConnectionPoolProofs ------------------------
(***************************************************************************)
(* The safety of the connection pool for any number of threads, databases, *)
(* connections and requests.                                               *)
(*                                                                         *)
(* None of the invariants is inductive alone.  ExclusiveUse needs to know  *)
(* that a connection is only ever pushed on stack 0 (SecondaryStacksEmpty) *)
(* and that only a "using" thread holds one (TypeOK).  PoolInv is their    *)
(* conjunction, written with stack 0 in the place of all the stacks.       *)
(***************************************************************************)
EXTENDS ConnectionPool, SequenceTheorems, TLAPS

(* Zenon proves most of the steps; SMT is cited where it is needed.        *)
USE ZenonT(60)

Stack0 == databaseConnections[0]

PoolInv ==
  /\ TypeOK
  /\ SecondaryStacksEmpty
  /\ NoLostWakeup
  /\ IsInjective(Stack0)
  /\ \A t, u \in Threads : conn[t] = conn[u] /\ conn[t] # NoConn => t = u
  /\ \A t \in Threads : conn[t] \notin Range(Stack0)
  /\ closed \intersect Range(Stack0) = {}
  /\ \A t \in Threads : conn[t] \notin closed

(* The lowest n - 1 connections of a stack: what pop() leaves (n is the    *)
(* height then) and what finalizeConnections() leaves when a close() throws. *)
LEMMA PrefixProperties ==
  ASSUME NEW S, NEW s \in Seq(S), NEW n \in 1 .. Len(s)
  PROVE  LET rest == SubSeq(s, 1, n - 1)
         IN  /\ rest \in Seq(S)
             /\ DOMAIN rest = 1 .. n - 1
             /\ \A i \in 1 .. n - 1 : rest[i] = s[i]
             /\ Range(rest) \subseteq Range(s)
             /\ IsInjective(s) => IsInjective(rest)
<1> DEFINE rest == SubSeq(s, 1, n - 1)
<1>1. Len(s) \in Nat /\ DOMAIN s = 1 .. Len(s) /\ n \in Nat
  BY SMT, LenProperties
<1>2. \A i \in 1 .. n - 1 : s[i] \in S
  BY SMT, <1>1, ElementOfSeq
<1>3. /\ rest \in Seq(S)
      /\ Len(rest) = IF 1 <= n - 1 THEN n - 1 - 1 + 1 ELSE 0
      /\ \A i \in 1 .. n - 1 - 1 + 1 : rest[i] = s[1 + i - 1]
  BY SMT, <1>1, <1>2, SubSeqProperties
<1>4. DOMAIN rest = 1 .. n - 1
  BY SMT, <1>1, <1>3, LenProperties
<1>5. \A i \in 1 .. n - 1 : rest[i] = s[i]
  BY SMT, <1>1, <1>3
<1> HIDE DEF rest
<1>6. Range(rest) \subseteq Range(s)
  BY SMT, <1>1, <1>4, <1>5 DEF Range
<1>7. IsInjective(s) => IsInjective(rest)
  BY SMT, <1>1, <1>4, <1>5 DEF IsInjective
<1> QED BY <1>3, <1>4, <1>5, <1>6, <1>7 DEF rest

(* pop(): the connection handed out leaves the stack, and a stack without  *)
(* duplicates stays one.                                                   *)
LEMMA PopProperties ==
  ASSUME NEW S, NEW s \in Seq(S), s # <<>>
  PROVE  /\ Front(s) \in Seq(S)
         /\ Last(s) \in S
         /\ Last(s) \in Range(s)
         /\ IsInjective(s) => /\ IsInjective(Front(s))
                              /\ Range(Front(s)) = Range(s) \ {Last(s)}
<1>1. Len(s) \in Nat \ {0} /\ DOMAIN s = 1 .. Len(s)
  BY EmptySeq, LenProperties
<1>2. Len(s) \in 1 .. Len(s)
  BY SMT, <1>1
<1>3. Last(s) \in S /\ Last(s) \in Range(s)
  BY <1>1, <1>2, ElementOfSeq DEF Last, Range
<1>4. /\ Front(s) \in Seq(S)
      /\ DOMAIN Front(s) = 1 .. Len(s) - 1
      /\ \A i \in 1 .. Len(s) - 1 : Front(s)[i] = s[i]
      /\ Range(Front(s)) \subseteq Range(s)
      /\ IsInjective(s) => IsInjective(Front(s))
  BY <1>2, PrefixProperties DEF Front
<1>5. ASSUME IsInjective(s), NEW c \in Range(Front(s)) PROVE c # Last(s)
  BY SMT, <1>1, <1>4, <1>5 DEF IsInjective, Range, Last
<1>6. ASSUME NEW c \in Range(s), c # Last(s) PROVE c \in Range(Front(s))
  BY SMT, <1>1, <1>4, <1>6 DEF Range, Last
<1> QED BY <1>3, <1>4, <1>5, <1>6

(* push(c) of a connection that is not on the stack. *)
LEMMA PushProperties ==
  ASSUME NEW S, NEW s \in Seq(S), NEW c \in S
  PROVE  /\ Append(s, c) \in Seq(S)
         /\ Append(s, c) # <<>>
         /\ Range(Append(s, c)) = Range(s) \union {c}
         /\ IsInjective(s) /\ c \notin Range(s) => IsInjective(Append(s, c))
<1>1. /\ Append(s, c) \in Seq(S)
      /\ Append(s, c) # <<>>
      /\ Len(Append(s, c)) = Len(s) + 1
      /\ \A i \in 1 .. Len(s) : Append(s, c)[i] = s[i]
      /\ Append(s, c)[Len(s) + 1] = c
  BY AppendProperties
<1>2. /\ Len(s) \in Nat
      /\ DOMAIN s = 1 .. Len(s)
      /\ DOMAIN Append(s, c) = 1 .. Len(s) + 1
  BY <1>1, LenProperties
<1>3. Range(Append(s, c)) \subseteq Range(s) \union {c}
  BY SMT, <1>1, <1>2 DEF Range
<1>4. Range(s) \union {c} \subseteq Range(Append(s, c))
  BY SMT, <1>1, <1>2 DEF Range
<1>5. IsInjective(s) /\ c \notin Range(s) => IsInjective(Append(s, c))
  BY SMT, <1>1, <1>2 DEF IsInjective, Range
<1> QED BY <1>1, <1>3, <1>4, <1>5

(* What the assumption on the constants gives. *)
LEMMA ConstantFacts ==
  /\ 0 \in DbIndexes
  /\ DbIndexes \subseteq Nat
  /\ DatabasePropertiesSize * poolSize \in Nat
BY SMT, PoolAssumption DEF DbIndexes

(* The empty stack. *)
LEMMA EmptyStackFacts ==
  ASSUME NEW S
  PROVE  <<>> \in Seq(S) /\ Range(<<>>) = {} /\ IsInjective(<<>>)
<1>1. <<>> \in Seq(S) /\ DOMAIN <<>> = {}
  BY SMT, EmptySeq, LenProperties
<1> QED BY <1>1 DEF Range, IsInjective

-----------------------------------------------------------------------------
(* initializeConnections() establishes the invariant. *)
LEMMA PoolInit == Init => PoolInv
<1> SUFFICES ASSUME Init PROVE PoolInv
  OBVIOUS
<1> DEFINE all == [i \in Conns |-> i]
<1>1. all \in Seq(Conns) /\ DOMAIN all = Conns
  BY SMT, ConstantFacts, SeqDef DEF Conns
<1>2. /\ databaseConnections \in [DbIndexes -> Seq(Conns)]
      /\ Stack0 = all
      /\ SecondaryStacksEmpty
  BY <1>1, ConstantFacts, EmptyStackFacts DEF Init, Stack0, SecondaryStacksEmpty
<1>3. TypeOK
  BY <1>2, ConstantFacts, PoolAssumption DEF Init, TypeOK, readWriteIndex
<1>4. IsInjective(Stack0) /\ Range(Stack0) \subseteq Conns
  BY <1>1, <1>2 DEF IsInjective, Range
<1> QED
  BY <1>2, <1>3, <1>4, PoolAssumption DEF Init, PoolInv, NoLostWakeup

(* Taking from the pool or going to wait preserves the invariant. *)
LEMMA PopOrWaitPreserves ==
  ASSUME PoolInv, NEW t \in Threads, NEW j \in DbIndexes,
         pc[t] # "using", PopOrWait(t, j), closed' = closed,
         todo' \in [Threads -> 0 .. MaxRequests], destroyed' \in BOOLEAN
  PROVE  PoolInv'
<1> DEFINE s == databaseConnections[j]
<1>0. /\ TypeOK /\ s \in Seq(Conns) /\ conn[t] = NoConn
      /\ NoConn \notin Conns
  BY PoolAssumption DEF PoolInv, TypeOK
<1>1. CASE s = <<>>
  <2>1. /\ databaseConnections' = databaseConnections
        /\ conn' = conn
        /\ pc' = [pc EXCEPT ![t] = "waiting"]
        /\ tempStack' = [tempStack EXCEPT ![t] = j]
    BY <1>1 DEF PopOrWait
  <2>2. TypeOK'
    BY <1>0, <2>1 DEF TypeOK
  <2>3. NoLostWakeup'
    BY <1>0, <1>1, <2>1 DEF PoolInv, NoLostWakeup, TypeOK
  <2> QED BY <2>1, <2>2, <2>3 DEF PoolInv, SecondaryStacksEmpty, Stack0
<1>2. CASE s # <<>>
  <2>1. /\ databaseConnections' = [databaseConnections EXCEPT ![j] = Front(@)]
        /\ conn' = [conn EXCEPT ![t] = Last(s)]
        /\ pc' = [pc EXCEPT ![t] = "using"]
        /\ tempStack' = [tempStack EXCEPT ![t] = j]
    BY <1>2 DEF PopOrWait
  <2>2. j = 0 /\ s = Stack0
    BY <1>2 DEF PoolInv, SecondaryStacksEmpty, Stack0
  <2>3. /\ Front(Stack0) \in Seq(Conns) /\ Last(Stack0) \in Conns
        /\ Last(Stack0) \in Range(Stack0) /\ IsInjective(Front(Stack0))
        /\ Range(Front(Stack0)) = Range(Stack0) \ {Last(Stack0)}
    BY <1>0, <1>2, <2>2, PopProperties DEF PoolInv
  <2>4. Stack0' = Front(Stack0) /\ \A k \in DbIndexes \ {0} :
                      databaseConnections'[k] = databaseConnections[k]
    BY <1>0, <2>1, <2>2 DEF Stack0, TypeOK
  <2>5. TypeOK'
    BY <1>0, <2>1, <2>2, <2>3 DEF TypeOK, Stack0
  <2>6. SecondaryStacksEmpty'
    BY <2>4 DEF PoolInv, SecondaryStacksEmpty
  <2>7. NoLostWakeup'
    <3> SUFFICES ASSUME NEW u \in Threads, pc'[u] = "waiting"
                 PROVE  databaseConnections'[tempStack'[u]] = <<>>
      BY DEF NoLostWakeup
    <3>1. u # t /\ pc[u] = "waiting" /\ tempStack'[u] = tempStack[u]
      BY <1>0, <2>1 DEF TypeOK
    <3>2. databaseConnections[tempStack[u]] = <<>> /\ tempStack[u] \in DbIndexes
      BY <1>0, <3>1 DEF PoolInv, NoLostWakeup, TypeOK
    <3>3. tempStack[u] # j
      BY <1>2, <3>2
    <3> QED BY <2>2, <2>4, <3>1, <3>2, <3>3
  <2>8. \A u \in Threads : conn'[u] = IF u = t THEN Last(Stack0) ELSE conn[u]
    BY <1>0, <2>1, <2>2 DEF TypeOK
  <2>9. \A u, v \in Threads : conn'[u] = conn'[v] /\ conn'[u] # NoConn => u = v
    BY SMT, <2>3, <2>8 DEF PoolInv
  <2>10. /\ \A u \in Threads : conn'[u] \notin Range(Stack0')
         /\ closed' \intersect Range(Stack0') = {}
         /\ \A u \in Threads : conn'[u] \notin closed'
    BY <2>3, <2>4, <2>8 DEF PoolInv
  <2> QED BY <2>3, <2>4, <2>5, <2>6, <2>7, <2>9, <2>10 DEF PoolInv
<1> QED BY <1>1, <1>2

(* Giving a connection back preserves it: whoever was waiting for stack 0  *)
(* saw it empty, so the release notifies them all.                         *)
LEMMA PushPreserves ==
  ASSUME PoolInv, NEW t \in Threads, pc[t] = "using", PushAndNotify(t, 0),
         UNCHANGED <<tempStack, todo, closed, destroyed>>
  PROVE  PoolInv'
<1>0. /\ TypeOK /\ Stack0 \in Seq(Conns) /\ 0 \in DbIndexes
      /\ conn[t] \in Conns /\ conn[t] # NoConn
      /\ NoConn \notin Conns
  BY PoolAssumption, ConstantFacts DEF PoolInv, TypeOK, Stack0
<1>1. /\ databaseConnections' = [databaseConnections EXCEPT ![0] = Append(@, conn[t])]
      /\ conn' = [conn EXCEPT ![t] = NoConn]
  BY DEF PushAndNotify
<1>2. \A u \in Threads :
        pc'[u] = IF u = t THEN "idle"
                 ELSE IF pc[u] = "waiting" /\ Stack0 = <<>> THEN "notified"
                 ELSE pc[u]
  BY <1>0 DEF PushAndNotify, notifyAll, Stack0, TypeOK
<1>3. pc' \in [Threads -> {"idle", "waiting", "notified", "using"}]
  BY <1>0 DEF PushAndNotify, notifyAll, TypeOK
<1>4. /\ Append(Stack0, conn[t]) \in Seq(Conns)
      /\ Range(Append(Stack0, conn[t])) = Range(Stack0) \union {conn[t]}
      /\ IsInjective(Append(Stack0, conn[t]))
  BY SMT, <1>0, PushProperties DEF PoolInv
<1>5. Stack0' = Append(Stack0, conn[t]) /\ \A k \in DbIndexes \ {0} :
                      databaseConnections'[k] = databaseConnections[k]
  BY <1>0, <1>1 DEF Stack0, TypeOK
<1>6. \A u \in Threads : conn'[u] = IF u = t THEN NoConn ELSE conn[u]
  BY <1>0, <1>1 DEF TypeOK
<1>7. TypeOK'
  <2>1. databaseConnections' \in [DbIndexes -> Seq(Conns)]
    BY <1>0, <1>1, <1>4 DEF TypeOK, Stack0
  <2>2. conn' \in [Threads -> Conns \union {NoConn}]
    BY <1>0, <1>1 DEF TypeOK
  <2>3. \A u \in Threads : pc'[u] = "using" <=> conn'[u] # NoConn
    BY <1>0, <1>2, <1>6 DEF TypeOK
  <2> QED BY <1>0, <1>3, <2>1, <2>2, <2>3 DEF TypeOK
<1>8. SecondaryStacksEmpty'
  BY <1>5 DEF PoolInv, SecondaryStacksEmpty
<1>9. NoLostWakeup'
  <2> SUFFICES ASSUME NEW u \in Threads, pc'[u] = "waiting"
               PROVE  databaseConnections'[tempStack'[u]] = <<>>
    BY DEF NoLostWakeup
  <2>1. u # t /\ pc[u] = "waiting" /\ Stack0 # <<>>
    BY <1>2
  <2>2. databaseConnections[tempStack[u]] = <<>> /\ tempStack[u] \in DbIndexes
    BY <1>0, <2>1 DEF PoolInv, NoLostWakeup, TypeOK
  <2> QED BY <1>5, <2>1, <2>2 DEF Stack0
<1>10. \A u, v \in Threads : conn'[u] = conn'[v] /\ conn'[u] # NoConn => u = v
  BY <1>6 DEF PoolInv
<1>11. \A u \in Threads : conn'[u] \notin Range(Stack0')
  <2> SUFFICES ASSUME NEW u \in Threads PROVE conn'[u] \notin Range(Stack0')
    OBVIOUS
  <2>1. Range(Stack0) \subseteq Conns
    BY <1>0, RangeOfSeq
  <2>2. CASE u = t
    BY <1>0, <1>4, <1>5, <1>6, <2>1, <2>2
  <2>3. CASE u # t
    BY <1>0, <1>4, <1>5, <1>6, <2>3 DEF PoolInv
  <2> QED BY <2>2, <2>3
<1>12. /\ closed' \intersect Range(Stack0') = {}
       /\ \A u \in Threads : conn'[u] \notin closed'
  <2>1. NoConn \notin closed
    BY <1>0 DEF TypeOK
  <2> QED BY <1>4, <1>5, <1>6, <2>1 DEF PoolInv
<1> QED BY <1>4, <1>5, <1>7, <1>8, <1>9, <1>10, <1>11, <1>12 DEF PoolInv
(* With nothing on the other stacks, stack 0 is the whole pool. *)
LEMMA OnStackIsStack0 ==
  ASSUME SecondaryStacksEmpty
  PROVE  OnStack = Range(Stack0)
<1>1. \A k \in DbIndexes \ {0} : Range(databaseConnections[k]) = {}
  BY EmptyStackFacts DEF SecondaryStacksEmpty
<1> QED BY <1>1, ConstantFacts DEF OnStack, Stack0

(* finalizeConnections() leaves a prefix of stack 0 and closes the rest. *)
LEMMA DestroyShape ==
  ASSUME PoolInv, destroy
  PROVE  /\ Stack0' \in Seq(Conns)
         /\ Range(Stack0') \subseteq Range(Stack0)
         /\ IsInjective(Stack0')
         /\ databaseConnections' \in [DbIndexes -> Seq(Conns)]
         /\ SecondaryStacksEmpty'
         /\ closed' = closed \union (Range(Stack0) \ Range(Stack0'))
         /\ Stack0 = <<>> => Stack0' = <<>>
<1>0. /\ Stack0 \in Seq(Conns) /\ 0 \in DbIndexes /\ DbIndexes \subseteq Nat
      /\ <<>> \in Seq(Conns) /\ Range(<<>>) = {} /\ IsInjective(<<>>)
      /\ IsInjective(Stack0) /\ SecondaryStacksEmpty
      /\ databaseConnections \in [DbIndexes -> Seq(Conns)]
  BY ConstantFacts, EmptyStackFacts DEF PoolInv, TypeOK, Stack0
<1>1. CASE databaseConnections' = [k \in DbIndexes |-> <<>>]
  <2>1. Stack0' = <<>> /\ SecondaryStacksEmpty'
        /\ databaseConnections' \in [DbIndexes -> Seq(Conns)]
    BY <1>0, <1>1 DEF Stack0, SecondaryStacksEmpty
  <2>2. OnStack = Range(Stack0) /\ OnStack' = Range(Stack0')
    BY <1>0, <1>1, <2>1, OnStackIsStack0 DEF OnStack
  <2>3. closed' = closed \union (OnStack \ OnStack')
    BY DEF destroy
  <2> QED BY <1>0, <2>1, <2>2, <2>3
<1>2. ASSUME NEW j \in DbIndexes, NEW n \in 1 .. Len(databaseConnections[j]),
             databaseConnections' =
               [k \in DbIndexes |->
                  IF k < j THEN <<>>
                  ELSE IF k = j THEN SubSeq(databaseConnections[k], 1, n - 1)
                  ELSE databaseConnections[k]]
      PROVE  /\ Stack0' \in Seq(Conns)
             /\ Range(Stack0') \subseteq Range(Stack0)
             /\ IsInjective(Stack0')
             /\ databaseConnections' \in [DbIndexes -> Seq(Conns)]
             /\ SecondaryStacksEmpty'
             /\ closed' = closed \union (Range(Stack0) \ Range(Stack0'))
             /\ Stack0 = <<>> => Stack0' = <<>>
  <2>1. j = 0
    BY SMT, <1>0, EmptySeq DEF SecondaryStacksEmpty
  <2>2. n \in 1 .. Len(Stack0) /\ Stack0 # <<>>
    BY SMT, <2>1, EmptySeq DEF Stack0
  <2>3. /\ Stack0' = SubSeq(Stack0, 1, n - 1)
        /\ \A k \in DbIndexes \ {0} : databaseConnections'[k] = databaseConnections[k]
    BY SMT, <1>0, <1>2, <2>1 DEF Stack0
  <2>4. /\ Stack0' \in Seq(Conns)
        /\ Range(Stack0') \subseteq Range(Stack0)
        /\ IsInjective(Stack0')
    BY <1>0, <2>2, <2>3, PrefixProperties
  <2>5. SecondaryStacksEmpty'
    BY <1>0, <2>3 DEF SecondaryStacksEmpty
  <2>6. databaseConnections' \in [DbIndexes -> Seq(Conns)]
    <3>1. \A k \in DbIndexes : databaseConnections'[k] \in Seq(Conns)
      BY <1>0, <2>3, <2>4 DEF Stack0
    <3> QED BY <1>2, <3>1
  <2>7. OnStack = Range(Stack0) /\ OnStack' = Range(Stack0')
    <3>1. \A k \in DbIndexes \ {0} : Range(databaseConnections'[k]) = {}
      BY <1>0, <2>5 DEF SecondaryStacksEmpty
    <3> QED BY <1>0, <3>1, OnStackIsStack0 DEF OnStack, Stack0
  <2>8. closed' = closed \union (OnStack \ OnStack')
    BY DEF destroy
  <2> QED BY <2>2, <2>4, <2>5, <2>6, <2>7, <2>8
<1> QED BY <1>1, <1>2 DEF destroy

(* destroy, which empties the stack of its connections. *)
LEMMA DestroyPreserves ==
  ASSUME PoolInv, destroy
  PROVE  PoolInv'
<1>0. TypeOK /\ NoConn \notin Conns
  BY PoolAssumption DEF PoolInv
<1>1. UNCHANGED <<pc, tempStack, conn, todo>> /\ destroyed' = TRUE
  BY DEF destroy
<1>2. Range(Stack0) \subseteq Conns
  BY <1>0, ConstantFacts, RangeOfSeq DEF TypeOK, Stack0
<1>3. TypeOK'
  BY <1>0, <1>1, <1>2, DestroyShape DEF TypeOK
<1>4. NoLostWakeup'
  <2> SUFFICES ASSUME NEW u \in Threads, pc[u] = "waiting"
               PROVE  databaseConnections'[tempStack[u]] = <<>>
    BY <1>1 DEF NoLostWakeup
  <2>1. databaseConnections[tempStack[u]] = <<>> /\ tempStack[u] \in DbIndexes
    BY <1>0 DEF PoolInv, NoLostWakeup, TypeOK
  <2> QED BY <2>1, DestroyShape DEF SecondaryStacksEmpty, Stack0
<1>5. /\ \A t \in Threads : conn'[t] \notin Range(Stack0')
      /\ closed' \intersect Range(Stack0') = {}
      /\ \A t \in Threads : conn'[t] \notin closed'
  BY <1>1, DestroyShape DEF PoolInv
<1>6. \A t, u \in Threads : conn'[t] = conn'[u] /\ conn'[t] # NoConn => t = u
  BY <1>1 DEF PoolInv
<1> QED BY <1>3, <1>4, <1>5, <1>6, DestroyShape DEF PoolInv

-----------------------------------------------------------------------------
(* Every action preserves PoolInv. *)
LEMMA PoolNext == PoolInv /\ [Next]_vars => PoolInv'
<1> SUFFICES ASSUME PoolInv, [Next]_vars PROVE PoolInv'
  OBVIOUS
<1>0. TypeOK /\ NoConn \notin Conns
  BY PoolAssumption DEF PoolInv
<1>1. CASE destroy
  BY <1>1, DestroyPreserves
<1>2. ASSUME NEW t \in Threads, StartRequest(t)
      PROVE  pc[t] # "using" /\ todo' \in [Threads -> 0 .. MaxRequests]
  BY SMT, <1>0, <1>2, PoolAssumption DEF StartRequest, TypeOK
<1>3. ASSUME NEW t \in Threads, getRWConnection(t) PROVE PoolInv'
  BY <1>0, <1>2, <1>3, PopOrWaitPreserves, ConstantFacts
     DEF getRWConnection, readWriteIndex, TypeOK
<1>4. ASSUME NEW t \in Threads, getRConnection(t) PROVE PoolInv'
  <2> PICK j \in DbIndexes : PopOrWait(t, j)
    BY <1>4 DEF getRConnection
  <2> QED BY <1>0, <1>2, <1>4, PopOrWaitPreserves DEF getRConnection, TypeOK
<1>5. ASSUME NEW t \in Threads, ReenterMonitor(t) PROVE PoolInv'
  BY <1>0, <1>5, PopOrWaitPreserves DEF ReenterMonitor, TypeOK
<1>6. ASSUME NEW t \in Threads, WaitInterrupted(t) PROVE PoolInv'
  <2>1. TypeOK' /\ NoLostWakeup'
    BY <1>0, <1>6 DEF WaitInterrupted, PoolInv, TypeOK, NoLostWakeup
  <2> QED BY <1>6, <2>1 DEF WaitInterrupted, PoolInv, SecondaryStacksEmpty, Stack0
<1>7. ASSUME NEW t \in Threads, releaseRConnection(t) \/ releaseRWConnection(t)
      PROVE  PoolInv'
  BY <1>7, PushPreserves
     DEF releaseRConnection, releaseRWConnection, readWriteIndex, connectionLookup
<1>8. ASSUME NEW t \in Threads, AbandonConnection(t) PROVE PoolInv'
  <2>1. \A u \in Threads : conn'[u] = IF u = t THEN NoConn ELSE conn[u]
    BY <1>0, <1>8 DEF AbandonConnection, TypeOK
  <2>2. TypeOK' /\ NoLostWakeup'
    BY <1>0, <1>8 DEF AbandonConnection, PoolInv, TypeOK, NoLostWakeup
  <2>3. NoConn \notin Range(Stack0) /\ NoConn \notin closed
    BY <1>0, ConstantFacts, RangeOfSeq DEF TypeOK, Stack0
  <2>4. UNCHANGED <<databaseConnections, closed>>
    BY <1>8 DEF AbandonConnection
  <2> QED BY <2>1, <2>2, <2>3, <2>4 DEF PoolInv, SecondaryStacksEmpty, Stack0
<1>9. CASE UNCHANGED vars
  BY <1>9 DEF vars, PoolInv, TypeOK, SecondaryStacksEmpty, NoLostWakeup, Stack0
<1> QED
  BY <1>1, <1>3, <1>4, <1>5, <1>6, <1>7, <1>8, <1>9 DEF Next

(* The strengthened invariant holds in every reachable state of the pool. *)
THEOREM PoolInvariant == Spec => []PoolInv
BY PoolInit, PoolNext, PTL DEF Spec

(* No thread is ever handed null, and every field keeps its type. *)
THEOREM TypeCorrect == Spec => []TypeOK
<1>1. PoolInv => TypeOK
  BY DEF PoolInv
<1> QED BY <1>1, PoolInvariant, PTL

(* notifyAll() on the empty-to-non-empty transition loses no wake-up, with *)
(* any number of threads, connections and databases.                       *)
THEOREM WakeupsReachEverybody == Spec => []NoLostWakeup
<1>1. PoolInv => NoLostWakeup
  BY DEF PoolInv
<1> QED BY <1>1, PoolInvariant, PTL

(* With two or more databases the stacks of the others stay empty for ever. *)
THEOREM OtherStacksNeverUsed == Spec => []SecondaryStacksEmpty
<1>1. PoolInv => SecondaryStacksEmpty
  BY DEF PoolInv
<1> QED BY <1>1, PoolInvariant, PTL

(* A connection serves one request at a time, and never after its close(). *)
THEOREM ConnectionsAreExclusive == Spec => []ExclusiveUse
<1>1. PoolInv => ExclusiveUse
  <2> SUFFICES ASSUME PoolInv PROVE ExclusiveUse
    OBVIOUS
  <2>1. OnStack = Range(Stack0)
    BY OnStackIsStack0 DEF PoolInv
  <2>2. \A j \in DbIndexes : IsInjective(databaseConnections[j])
    BY EmptyStackFacts DEF PoolInv, SecondaryStacksEmpty, Stack0
  <2>3. \A j, k \in DbIndexes : j # k =>
          Range(databaseConnections[j]) \intersect Range(databaseConnections[k]) = {}
    BY EmptyStackFacts DEF PoolInv, SecondaryStacksEmpty
  <2>4. OnStack \intersect Held = {} /\ closed \intersect (OnStack \union Held) = {}
    BY <2>1 DEF PoolInv, Held
  <2> QED BY <2>2, <2>3, <2>4 DEF PoolInv, ExclusiveUse
<1> QED BY <1>1, PoolInvariant, PTL
-----------------------------------------------------------------------------
(* What the steps do to the connections, stacks forgotten. *)
Taken(t) ==
  /\ conn[t] = NoConn
  /\ \E c \in OnStack : /\ OnStack' = OnStack \ {c}
                        /\ conn' = [conn EXCEPT ![t] = c]
  /\ closed' = closed

Given(t) ==
  /\ conn[t] # NoConn
  /\ OnStack' = OnStack \union {conn[t]}
  /\ conn' = [conn EXCEPT ![t] = NoConn]
  /\ closed' = closed

Lost(t) ==
  /\ AbandonConnection(t)
  /\ conn[t] # NoConn
  /\ OnStack' = OnStack
  /\ conn' = [conn EXCEPT ![t] = NoConn]
  /\ closed' = closed

Shutdown ==
  /\ OnStack' \subseteq OnStack
  /\ closed' = closed \union (OnStack \ OnStack')
  /\ conn' = conn

(* While the secondary stacks are empty, the first holds all there is. *)
LEMMA OnStackIsStack0Next ==
  ASSUME SecondaryStacksEmpty'
  PROVE  OnStack' = Range(Stack0')
<1>1. \A k \in DbIndexes \ {0} : Range(databaseConnections'[k]) = {}
  BY EmptyStackFacts DEF SecondaryStacksEmpty
<1> QED BY <1>1, ConstantFacts DEF OnStack, Stack0

(* getRWConnection and getRConnection take a connection, or wait. *)
LEMMA PopOrWaitShape ==
  ASSUME PoolInv, PoolInv', NEW t \in Threads, NEW j \in DbIndexes,
         pc[t] # "using", PopOrWait(t, j), closed' = closed
  PROVE  Taken(t) \/ UNCHANGED <<OnStack, conn, closed>>
<1>1. TypeOK /\ conn[t] = NoConn
  BY DEF PoolInv, TypeOK
<1>2. OnStack = Range(Stack0) /\ OnStack' = Range(Stack0')
  BY OnStackIsStack0, OnStackIsStack0Next DEF PoolInv
<1>3. CASE databaseConnections[j] = <<>>
  BY <1>3 DEF PopOrWait, OnStack
<1>4. CASE databaseConnections[j] # <<>>
  <2>1. j = 0 /\ Stack0 # <<>> /\ Stack0 \in Seq(Conns)
    BY <1>1, <1>4 DEF PoolInv, SecondaryStacksEmpty, Stack0, TypeOK
  <2>2. /\ conn' = [conn EXCEPT ![t] = Last(Stack0)]
        /\ Stack0' = Front(Stack0)
    BY <1>1, <1>4, <2>1 DEF PopOrWait, Stack0, TypeOK
  <2>3. /\ Last(Stack0) \in Range(Stack0)
        /\ Range(Front(Stack0)) = Range(Stack0) \ {Last(Stack0)}
    BY <2>1, PopProperties DEF PoolInv
  <2> QED BY <1>1, <1>2, <2>2, <2>3 DEF Taken
<1> QED BY <1>3, <1>4

(* releaseRWConnection and releaseRConnection give one back. *)
LEMMA PushShape ==
  ASSUME PoolInv, PoolInv', NEW t \in Threads, pc[t] = "using",
         PushAndNotify(t, 0), closed' = closed
  PROVE  Given(t)
<1>1. TypeOK /\ conn[t] # NoConn /\ conn[t] \in Conns /\ Stack0 \in Seq(Conns)
  BY ConstantFacts DEF PoolInv, TypeOK, Stack0
<1>2. OnStack = Range(Stack0) /\ OnStack' = Range(Stack0')
  BY OnStackIsStack0, OnStackIsStack0Next DEF PoolInv
<1>3. Stack0' = Append(Stack0, conn[t]) /\ conn' = [conn EXCEPT ![t] = NoConn]
  BY <1>1, ConstantFacts DEF PushAndNotify, Stack0, TypeOK
<1>4. Range(Stack0') = Range(Stack0) \union {conn[t]}
  BY SMT, <1>1, <1>3, PushProperties
<1> QED BY <1>1, <1>2, <1>3, <1>4 DEF Given

(* What a step of the pool does to the contract. *)
LEMMA StepShape ==
  ASSUME PoolInv, PoolInv', [Next]_vars
  PROVE  \/ UNCHANGED <<OnStack, conn, closed>>
         \/ Shutdown
         \/ \E t \in Threads : Taken(t) \/ Given(t) \/ Lost(t)
<1>1. CASE destroy
  <2>1. OnStack = Range(Stack0) /\ OnStack' = Range(Stack0')
    BY OnStackIsStack0, OnStackIsStack0Next DEF PoolInv
  <2> QED BY <1>1, <2>1, DestroyShape DEF Shutdown, destroy
<1>2. ASSUME NEW t \in Threads, getRWConnection(t)
      PROVE  Taken(t) \/ UNCHANGED <<OnStack, conn, closed>>
  BY <1>2, PopOrWaitShape, ConstantFacts
     DEF getRWConnection, StartRequest, readWriteIndex
<1>3. ASSUME NEW t \in Threads, getRConnection(t)
      PROVE  Taken(t) \/ UNCHANGED <<OnStack, conn, closed>>
  BY <1>3, PopOrWaitShape DEF getRConnection, StartRequest
<1>4. ASSUME NEW t \in Threads, ReenterMonitor(t)
      PROVE  Taken(t) \/ UNCHANGED <<OnStack, conn, closed>>
  BY <1>4, PopOrWaitShape DEF ReenterMonitor, PoolInv, TypeOK
<1>5. ASSUME NEW t \in Threads, WaitInterrupted(t)
      PROVE  UNCHANGED <<OnStack, conn, closed>>
  BY <1>5 DEF WaitInterrupted, OnStack
<1>6. ASSUME NEW t \in Threads, releaseRConnection(t) \/ releaseRWConnection(t)
      PROVE  Given(t)
  BY <1>6, PushShape
     DEF releaseRConnection, releaseRWConnection, readWriteIndex, connectionLookup
<1>7. ASSUME NEW t \in Threads, AbandonConnection(t) PROVE Lost(t)
  BY SMTT(60), <1>7 DEF AbandonConnection, Lost, OnStack, PoolInv, TypeOK
<1>8. CASE UNCHANGED vars
  BY <1>8 DEF vars, OnStack
<1> QED BY <1>1, <1>2, <1>3, <1>4, <1>5, <1>6, <1>7, <1>8 DEF Next

(* initializeConnections stacks every connection. *)
LEMMA AllStackedInitially == Init => OnStack = Conns
<1> SUFFICES ASSUME Init PROVE OnStack = Conns
  OBVIOUS
<1>1. OnStack = Range(Stack0)
  BY PoolInit, OnStackIsStack0 DEF PoolInv
<1>2. Stack0 = [i \in Conns |-> i]
  BY ConstantFacts DEF Init, Stack0
<1> QED BY <1>1, <1>2 DEF Range

(* A connection is lost only by a handler that returns without releasing   *)
(* it: no get, release, interrupt or destroy() drops one.                  *)
THEOREM ConnectionsAreConserved == Spec => NothingLost
<1>1. PoolInv /\ PoolInv' /\ [Next]_vars
        => [Known' = Known \/ \E t \in Threads : AbandonConnection(t)]_vars
  <2> SUFFICES ASSUME PoolInv, PoolInv', [Next]_vars
               PROVE  Known' = Known \/ \E t \in Threads : AbandonConnection(t)
    OBVIOUS
  <2>0. conn \in [Threads -> Conns \union {NoConn}] /\ NoConn \notin Conns
        /\ OnStack \subseteq Conns
    <3>1. Range(Stack0) \subseteq Conns
      BY SMT, ConstantFacts DEF PoolInv, TypeOK, Stack0, Range
    <3> QED BY <3>1, PoolAssumption, OnStackIsStack0 DEF PoolInv, TypeOK
  <2>1. CASE UNCHANGED <<OnStack, conn, closed>>
    BY <2>1 DEF Known, Held
  <2>2. CASE Shutdown
    BY <2>2 DEF Shutdown, Known, Held
  <2>3. ASSUME NEW t \in Threads, Taken(t) PROVE Known' = Known
    <3> PICK c \in OnStack : OnStack' = OnStack \ {c} /\ conn' = [conn EXCEPT ![t] = c]
      BY <2>3 DEF Taken
    <3>1. Held' = Held \union {c}
      BY <2>0, <2>3 DEF Taken, Held
    <3> QED BY <2>3, <3>1 DEF Taken, Known
  <2>4. ASSUME NEW t \in Threads, Given(t) PROVE Known' = Known
    <3>1. Held \ {conn[t]} \subseteq Held' /\ Held' \subseteq Held
      BY <2>0, <2>4 DEF Given, Held
    <3>2. conn[t] \in Held
      BY <2>4 DEF Given, Held
    <3> QED BY <2>4, <3>1, <3>2 DEF Given, Known
  <2> QED BY <2>1, <2>2, <2>3, <2>4, StepShape DEF Lost
<1> QED BY <1>1, PoolInvariant, PTL DEF Spec, NothingLost

(* The pool of RubbosHttpServlet.java implements PoolContract, for every   *)
(* number of threads, databases, connections and requests.                 *)
THEOREM PoolImplementsContract == Spec => ImplementsContract
<1>1. Init => Contract!Init
  BY AllStackedInitially DEF Init, Contract!Init
<1>2. PoolInv /\ PoolInv' /\ [Next]_vars => [Contract!Next]_Contract!vars
  <2> SUFFICES ASSUME PoolInv, PoolInv', [Next]_vars
               PROVE  [Contract!Next]_Contract!vars
    OBVIOUS
  <2>1. CASE UNCHANGED <<OnStack, conn, closed>>
    BY <2>1 DEF Contract!vars
  <2>2. CASE Shutdown
    <3>1. OnStack \ OnStack' \in SUBSET OnStack
          /\ OnStack' = OnStack \ (OnStack \ OnStack')
      BY <2>2 DEF Shutdown
    <3> QED BY <2>2, <3>1 DEF Shutdown, Contract!Next, Contract!Shut
  <2>3. ASSUME NEW t \in Threads, Taken(t) PROVE Contract!Next
    BY <2>3 DEF Taken, Contract!Next, Contract!Take
  <2>4. ASSUME NEW t \in Threads, Given(t) PROVE Contract!Next
    BY <2>4 DEF Given, Contract!Next, Contract!Give
  <2>5. ASSUME NEW t \in Threads, Lost(t) PROVE Contract!Next
    BY <2>5 DEF Lost, Contract!Next, Contract!Lose
  <2> QED BY <2>1, <2>2, <2>3, <2>4, <2>5, StepShape
<1> QED
  BY <1>1, <1>2, PoolInvariant, PTL DEF Spec, ImplementsContract, Contract!Spec
=============================================================================
