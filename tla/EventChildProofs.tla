-------------------------- MODULE EventChildProofs --------------------------
(***************************************************************************)
(* The safety of a child of the event MPM, for any number of worker        *)
(* threads and connections.                                                *)
(*                                                                         *)
(* Beside the types, the flags and what the listener holds, the invariant  *)
(* has four parts.  Idle: the counter of idle workers, with where a worker *)
(* must be counted and where the listener must hold a reservation.  Armed: *)
(* the next expiry, queue by queue.  PlacedAt: each connection is in one   *)
(* place, and its state fits the place.  CountsExact: the two counters,    *)
(* which needs the states and hence the places.  The counter of idle       *)
(* workers does not depend on the places, nor do the timeouts; the         *)
(* counters of connections depend on them through every close.             *)
(***************************************************************************)
EXTENDS EventChild, FiniteSetTheorems, TLAPS

States == {"closed", "accepted", "read", "wc", "ka", "linger", "lingering"}
Busy == {"start", "serve", "linger", "drain"}
Counted == {"signal", "check", "pop", "sleep", "timer"}
Labels == Busy \union Counted \union {"idle", "defer", "exit"}

(* The types, without the two counters of connections. *)
Typed ==
  /\ idlers \in Int
  /\ queue \in Seq(Conns \union {NoConn})
  /\ timers \in 0 .. MaxTimers
  /\ sleeping \subseteq Workers
  /\ state \in [Conns -> States]
  /\ wc_q \subseteq Conns /\ ka_q \subseteq Conns /\ linger_q \subseteq Conns
  /\ defer_linger_chain \subseteq Conns
  /\ threads_shutdown \in 0 .. threads_per_child
  /\ conns_this_child \in Int
  /\ terminate_mode \in {"init", "graceful", "ungraceful"}
  /\ events \subseteq Conns \union {Accept}
  /\ current \in Conns \union {NoConn, Accept}
  /\ wpc \in [Workers -> Labels]
  /\ cs \in [Workers -> Conns \union {NoConn}]
  /\ is_idle \in [Workers -> BOOLEAN]

Flags ==
  /\ infoTerminated \in BOOLEAN /\ waiting \in BOOLEAN /\ queueTerminated \in BOOLEAN
  /\ listener_may_exit \in BOOLEAN /\ workers_may_exit \in BOOLEAN /\ dying \in BOOLEAN
  /\ listensocks_disabled \in BOOLEAN /\ queues_next_expiry \in BOOLEAN
  /\ wakeup \in BOOLEAN /\ workers_were_busy \in BOOLEAN
  /\ have_idle_worker \in BOOLEAN /\ timeout_time \in BOOLEAN

(* Who counts as idle, and when the listener has a worker reserved. *)
Idle ==
  /\ IdlersAccounted
  /\ \A w \in Workers : wpc[w] \in Counted => is_idle[w]
  /\ lpc \in {"accept", "push", "retest"} => have_idle_worker
  /\ lpc \in {"locking", "blocked"} => ~have_idle_worker

(* What the listener holds, and what it still has to look at. *)
Listener ==
  /\ lpc = "push" => current \in Conns
  /\ lpc = "accept" => current = Accept
  /\ lpc \in {"locking", "blocked"} => current # NoConn
  /\ lpc \notin {"push", "accept", "locking", "blocked"} => current = NoConn
  /\ lpc \in {"expire_wc", "expire_linger"} => events = {}

(* The queues whose entries the next expiry already covers. *)
Armed ==
  \/ queues_next_expiry
  \/ lpc = "expire_wc" /\ ka_q = {}
  \/ lpc = "expire_linger" /\ ka_q = {} /\ wc_q = {}
  \/ Parked = {}

Waiting == {queue[i] : i \in DOMAIN queue}

(* The states a connection may have in each place. *)
StateFits(c) ==
  /\ c \in wc_q => state[c] = "wc"
  /\ c \in ka_q => state[c] = "ka"
  /\ c \in linger_q => state[c] = "lingering"
  /\ c \in defer_linger_chain => state[c] \in {"read", "ka", "wc"}
  /\ c = current => state[c] \in {"read", "wc", "lingering"}
  /\ c \in Waiting => state[c] \in {"accepted", "read", "wc", "lingering"}
  /\ \A w \in Workers : cs[w] = c =>
       /\ wpc[w] = "start" => state[c] \in {"accepted", "read", "wc", "lingering"}
       /\ wpc[w] = "serve" => state[c] \in {"read", "wc"}
       /\ wpc[w] = "linger" => state[c] = "linger"
       /\ wpc[w] = "drain" => state[c] = "lingering"

(* A connection is in one place. *)
Alone(c) ==
  /\ c \in defer_linger_chain => c \notin Parked
  /\ c = current => c \notin Parked \union defer_linger_chain
  /\ c \in Waiting => c \notin Parked \union defer_linger_chain /\ c # current
  /\ \A w \in Workers : cs[w] = c =>
       /\ c \notin Parked \union defer_linger_chain \union Waiting /\ c # current
       /\ \A v \in Workers : cs[v] = c => v = w
  /\ ~Overrun => \A i, j \in DOMAIN queue : queue[i] = c /\ queue[j] = c => i = j

(* It is in one at all, unless the ring was overrun or workers may exit. *)
Kept(c) ==
  Overrun \/ workers_may_exit \/ state[c] = "closed" \/
    \/ c \in Parked \union defer_linger_chain \union Waiting \/ c = current
    \/ \E w \in Workers : cs[w] = c

PlacedAt(c) ==
  /\ StateFits(c) /\ Alone(c) /\ Kept(c)
  /\ c \in events => c \in Parked

Placed ==
  /\ \A c \in Conns : PlacedAt(c)
  /\ \A w \in Workers : cs[w] = NoConn <=> wpc[w] \notin Busy

(* The main thread leaves its loop only when the child is to terminate. *)
MainThread == mpc # "run" => terminate_mode # "init"

IInv ==
  Typed /\ Flags /\ Idle /\ Listener /\ Armed /\ Placed /\ CountsExact /\ MainThread

-----------------------------------------------------------------------------
(* Zenon proves most of the steps; SMT is cited where it is needed.        *)
USE ZenonT(60)

(* The constants. *)
LEMMA Constants ==
  /\ IsFiniteSet(Workers) /\ IsFiniteSet(Conns)
  /\ threads_per_child \in Nat /\ MaxTimers \in Nat
  /\ NoConn \notin Conns /\ Accept \notin Conns /\ Accept # NoConn
  BY EventChildAssumption, FS_CardinalityType DEF EventChildAssumption, threads_per_child

(* Sequences: length and domain, ... *)
LEMMA SeqFacts ==
  ASSUME NEW S, NEW s \in Seq(S)
  PROVE  /\ Len(s) \in Nat /\ s \in [1 .. Len(s) -> S] /\ DOMAIN s = 1 .. Len(s)
         /\ s # <<>> => Len(s) > 0
  BY SMT

(* ... and the empty one. *)
LEMMA EmptyFacts == /\ Len(<<>>) = 0 /\ DOMAIN <<>> = {} /\ \A S : <<>> \in Seq(S)
  BY SMT

(* One element more. *)
LEMMA AppendFacts ==
  ASSUME NEW S, NEW s \in Seq(S), NEW e \in S
  PROVE  /\ Append(s, e) \in Seq(S) /\ Len(Append(s, e)) = Len(s) + 1
         /\ \A i \in 1 .. Len(s) : Append(s, e)[i] = s[i]
         /\ Append(s, e)[Len(s) + 1] = e
  BY SMT

(* One element less. *)
LEMMA TailFacts ==
  ASSUME NEW S, NEW s \in Seq(S), s # <<>>
  PROVE  /\ Head(s) = s[1] /\ Tail(s) \in Seq(S) /\ Len(Tail(s)) = Len(s) - 1
         /\ \A i \in 1 .. Len(s) - 1 : Tail(s)[i] = s[i + 1]
  BY SMT

(* ap_queue_push_socket, into a ring that is full or not. *)
LEMMA PushFacts ==
  ASSUME Typed, NEW e \in Conns \union {NoConn}, ap_queue_push_socket(e)
  PROVE  /\ queue' \in Seq(Conns \union {NoConn})
         /\ Len(queue') = Len(queue) + 1
         /\ sleeping' \subseteq sleeping
         /\ \A x : x \in Waiting' => x \in Waiting \/ x = e
         /\ ~Overrun' => /\ ~Overrun /\ Waiting' = Waiting \union {e}
                         /\ \A i \in 1 .. Len(queue) : queue'[i] = queue[i]
                         /\ queue'[Len(queue) + 1] = e
  <1> DEFINE U == Conns \union {NoConn}
             n == Len(queue)
             Old == IF ap_queue_full
                    THEN [queue EXCEPT ![n + 1 - threads_per_child] = e] ELSE queue
  <1>1. queue \in Seq(U) /\ e \in U  BY DEF Typed
  <1>2. queue' = Append(Old, e)  BY DEF ap_queue_push_socket
  <1> HIDE DEF U
  <1>3. n \in Nat /\ DOMAIN queue = 1 .. n /\ \A i \in 1 .. n : queue[i] \in U
    BY <1>1, SeqFacts
  <1>4. /\ Old \in Seq(U) /\ Len(Old) = n
        /\ \A i \in 1 .. n : Old[i] = queue[i] \/ Old[i] = e
        /\ ~ap_queue_full => Old = queue
    <2>1. CASE ~ap_queue_full  BY <1>1, <1>3, <2>1
    <2>2. CASE ap_queue_full
      <3> DEFINE k == n + 1 - threads_per_child
      <3>1. Old = [queue EXCEPT ![k] = e]  BY <2>2
      <3> HIDE DEF k, Old
      <3>2. /\ Old \in [1 .. n -> U]
            /\ \A i \in 1 .. n : Old[i] = queue[i] \/ Old[i] = e
        <4>1. queue \in [1 .. n -> U]  BY <1>1, SeqFacts
        <4> HIDE DEF n
        <4> QED BY <1>1, <3>1, <4>1
      <3>3. Old \in Seq(U) /\ Len(Old) = n
        <4> HIDE DEF n
        <4> QED BY SMT, <1>3, <3>2
      <3> QED BY <2>2, <3>2, <3>3
    <2> QED BY <2>1, <2>2
  <1> HIDE DEF Old
  <1>5. /\ queue' \in Seq(U) /\ Len(queue') = n + 1
        /\ \A i \in 1 .. n : queue'[i] = Old[i]
        /\ queue'[n + 1] = e
    BY SMT, <1>1, <1>2, <1>4, AppendFacts
  <1>6. DOMAIN queue' = 1 .. n + 1
    BY <1>5, SeqFacts
  <1>7. \A x : x \in Waiting' => x \in Waiting \/ x = e
    BY SMT, <1>3, <1>4, <1>5, <1>6 DEF Waiting
  <1>8. sleeping' \subseteq sleeping
    BY DEF ap_queue_push_socket, signal_not_empty
  <1>9. ASSUME ~Overrun'
        PROVE  /\ ~Overrun /\ Waiting' = Waiting \union {e}
               /\ \A i \in 1 .. n : queue'[i] = queue[i]
    <2>1. ~ap_queue_full /\ ~Overrun
      BY SMT, <1>3, <1>5, <1>9, Constants DEF ap_queue_full, Overrun, threads_per_child
    <2>2. \A i \in 1 .. n : queue'[i] = queue[i]  BY <1>4, <1>5, <2>1
    <2>3. Waiting \union {e} \subseteq Waiting'
      BY SMT, <1>3, <1>5, <1>6, <2>2 DEF Waiting
    <2>4. Waiting' \subseteq Waiting \union {e}  BY <1>7
    <2> QED BY <2>1, <2>2, <2>3, <2>4
  <1> QED BY <1>5, <1>7, <1>8, <1>9 DEF U

(* ap_queue_pop_something takes the first element. *)
LEMMA PopFacts ==
  ASSUME Typed, pop_socket
  PROVE  /\ queue' \in Seq(Conns \union {NoConn})
         /\ Len(queue') = Len(queue) - 1
         /\ Head(queue) \in Conns \union {NoConn} /\ Head(queue) \in Waiting
         /\ Head(queue) = queue[1] /\ 1 \in DOMAIN queue
         /\ \A x : x \in Waiting' => x \in Waiting
         /\ \A x : x \in Waiting => x \in Waiting' \/ x = Head(queue)
         /\ DOMAIN queue' = 1 .. Len(queue) - 1 /\ DOMAIN queue = 1 .. Len(queue)
         /\ \A i \in 1 .. Len(queue) - 1 : queue'[i] = queue[i + 1]
         /\ ~Overrun /\ ~Overrun' /\ Len(queue) \in Nat
  <1> DEFINE U == Conns \union {NoConn}
             n == Len(queue)
  <1>1. queue \in Seq(U) /\ queue # <<>> /\ queue' = Tail(queue)
    BY DEF Typed, pop_socket
  <1> HIDE DEF U
  <1>2. n \in Nat /\ n > 0 /\ DOMAIN queue = 1 .. n /\ \A i \in 1 .. n : queue[i] \in U
    BY <1>1, SeqFacts
  <1>3. /\ Head(queue) = queue[1] /\ queue' \in Seq(U) /\ Len(queue') = n - 1
        /\ \A i \in 1 .. n - 1 : queue'[i] = queue[i + 1]
    BY <1>1, <1>2, TailFacts
  <1>4. DOMAIN queue' = 1 .. n - 1  BY <1>3, SeqFacts
  <1>5. Head(queue) \in U /\ Head(queue) \in Waiting /\ 1 \in DOMAIN queue
    BY SMT, <1>2, <1>3 DEF Waiting
  <1>6. \A x : x \in Waiting' => x \in Waiting
    <2> SUFFICES ASSUME NEW i \in 1 .. n - 1  PROVE queue'[i] \in Waiting
      BY <1>4 DEF Waiting
    <2>1. i + 1 \in 1 .. n  BY SMT, <1>2
    <2> QED BY <1>2, <1>3, <2>1 DEF Waiting
  <1>7. \A x : x \in Waiting => x \in Waiting' \/ x = Head(queue)
    <2> SUFFICES ASSUME NEW i \in 1 .. n, i # 1  PROVE queue[i] \in Waiting'
      BY <1>2, <1>3 DEF Waiting
    <2>1. i - 1 \in 1 .. n - 1 /\ (i - 1) + 1 = i  BY SMT, <1>2
    <2> QED BY <1>3, <1>4, <2>1 DEF Waiting
  <1>8. ~Overrun /\ ~Overrun'
    BY SMT, <1>2, <1>3, Constants DEF pop_socket, Overrun, threads_per_child
  <1> QED BY <1>2, <1>3, <1>4, <1>5, <1>6, <1>7, <1>8 DEF U

(* The lingering connections. *)
Lingering == {c \in Conns : state[c] = "lingering"}

(* The connections that are counted are finitely many. *)
LEMMA CountFacts ==
  /\ IsFiniteSet(Open) /\ IsFiniteSet(Lingering)
  /\ Cardinality(Open) \in Nat /\ Cardinality(Lingering) \in Nat
  BY Constants, FS_Subset, FS_CardinalityType DEF Open, Lingering

-----------------------------------------------------------------------------
(* The steps, by thread and by whether they move connections.              *)

(* The steps of the listener that move no connection. *)
ListenerControl ==
  \/ check_infinite_requests \/ Top \/ Recheck \/ Count \/ Prepare \/ PollQuiet
  \/ Locking \/ Awake \/ AcceptRefused \/ AcceptEvent
  \/ GetDeferWorker \/ enable_listensocks \/ ListenerExit

(* The steps of the listener that move connections. *)
ListenerMoves ==
  \/ PollReady \/ AcceptConn \/ push2worker \/ SkipExpiry \/ PushDeferred
  \/ \E c \in Conns : WriteEvent(c) \/ ReadEvent(c)
  \/ \E S \in SUBSET Conns :
       ProcessKeepalives(S) \/ ProcessWriteCompletions(S) \/ ProcessLingering(S)

(* The steps of a worker that has no connection. *)
WorkerControl(w) ==
  SetIdle(w) \/ SignalIdler(w) \/ CheckExit(w) \/ PopNothing(w) \/ PopTimer(w) \/ TimerCallback(w)

(* The steps of a worker that move connections. *)
WorkerMoves(w) ==
  PopSocket(w) \/ Start(w) \/ Serve(w) \/ Linger(w) \/ Drain(w) \/ Deferred(w)

(* The steps of the main thread, but for close_worker_sockets. *)
MainControl ==
  \/ NoticeTermination \/ TermQueueInfo \/ ChildExit \/ WakeAgain
  \/ \E mode \in {"graceful", "ungraceful"} : SignalThreads(mode)

(* Every step is one of these. *)
LEMMA StepCases ==
  ASSUME Next
  PROVE  \/ ListenerControl \/ ListenerMoves
         \/ \E w \in Workers : WorkerControl(w) \/ WorkerMoves(w)
         \/ MainControl \/ KillWorkers
  BY DEF Next, ListenerStep, ProcessTimeouts, Worker, Main, ListenerControl, ListenerMoves,
         WorkerControl, WorkerMoves, MainControl

-----------------------------------------------------------------------------
(* The types.                                                              *)


(* The control of the listener keeps the types. *)
LEMMA ListenerControlTyped ==
  ASSUME IInv, Typed, ListenerControl
  PROVE  Typed'
  <1> USE DEF fdqueueVars, connVars, exitVars, listenerVars, workerVars
  <1>2. CASE check_infinite_requests
    BY <1>2 DEF check_infinite_requests, Typed
  <1>3. CASE Top \/ Recheck
    <2>1. sleeping' \subseteq Workers
      BY <1>3 DEF Top, Recheck, TestExit, close_listeners, ap_queue_interrupt_all, Typed
    <2> QED BY <1>3, <2>1 DEF Top, Recheck, TestExit, Typed
  <1>4. CASE Count \/ PollQuiet \/ Locking \/ Awake
    BY <1>4 DEF Count, PollQuiet, Locking, Awake, Typed
  <1>5. CASE Prepare
    <2>1. timers' \in 0 .. MaxTimers
      BY SMTT(60), <1>5, Constants DEF Prepare, ap_queue_push_timer, Typed
    <2>2. sleeping' \subseteq Workers
      BY <1>5 DEF Prepare, ap_queue_push_timer, signal_not_empty, Typed
    <2> QED BY <1>5, <2>1, <2>2 DEF Prepare, Typed
  <1>6. CASE AcceptRefused
    BY <1>6 DEF AcceptRefused, Typed
  <1>7. CASE AcceptEvent
    <2>1. idlers' \in Int
      BY SMT, <1>7 DEF AcceptEvent, GetWorkerBlocking, wait_for_idler, Typed
    <2> QED BY <1>7, <2>1 DEF AcceptEvent, Typed
  <1>8. CASE GetDeferWorker
    <2>1. idlers' \in Int
      BY SMTT(60), <1>8 DEF GetDeferWorker, TakeWorker, try_get_idler, Typed
    <2> QED BY <1>8, <2>1 DEF GetDeferWorker, Typed
  <1>9. CASE enable_listensocks \/ ListenerExit
    BY <1>9 DEF enable_listensocks, ListenerExit, ap_queue_term, Typed
  <1> QED
    BY <1>2, <1>3, <1>4, <1>5, <1>6, <1>7, <1>8, <1>9 DEF ListenerControl

(* So do the steps by which it moves connections. *)
LEMMA ListenerMovesTyped ==
  ASSUME IInv, Typed, ListenerMoves
  PROVE  Typed'
  <1> USE DEF fdqueueVars, connVars, exitVars, listenerVars, workerVars
  <1>2. CASE PollReady
    <2>1. events' \subseteq Conns \union {Accept}
      BY <1>2 DEF PollReady, Parked, Typed
    <2> QED BY <1>2, <2>1 DEF PollReady, Typed
  <1>3. CASE AcceptConn
    <2>1. /\ queue' \in Seq(Conns \union {NoConn}) /\ sleeping' \subseteq Workers
          /\ state' \in [Conns -> States]
      BY <1>3, PushFacts DEF AcceptConn, Typed, States
    <2>2. conns_this_child' \in Int
      BY SMTT(60), <1>3 DEF AcceptConn, Typed
    <2> QED BY <1>3, <2>1, <2>2 DEF AcceptConn, Typed
  <1>4. CASE push2worker
    <2>1. current \in Conns \union {NoConn}  BY <1>4 DEF push2worker, IInv, Listener
    <2>2. queue' \in Seq(Conns \union {NoConn}) /\ sleeping' \subseteq Workers
      BY <1>4, <2>1, PushFacts DEF push2worker, Typed
    <2> QED BY <1>4, <2>2 DEF push2worker, Typed
  <1>5. CASE SkipExpiry
    BY <1>5 DEF SkipExpiry, Typed
  <1>6. CASE PushDeferred
    <2>1. queue' \in Seq(Conns \union {NoConn}) /\ sleeping' \subseteq Workers
      BY <1>6, PushFacts DEF PushDeferred, Typed
    <2> QED BY <1>6, <2>1 DEF PushDeferred, Typed
  <1>7. ASSUME NEW c \in Conns, WriteEvent(c)  PROVE Typed'
    <2>1. idlers' \in Int
      BY SMT, <1>7 DEF WriteEvent, GetWorkerBlocking, wait_for_idler, Typed
    <2> QED BY <1>7, <2>1 DEF WriteEvent, Typed
  <1>8. ASSUME NEW c \in Conns, ReadEvent(c)  PROVE Typed'
    <2>1. idlers' \in Int
      BY SMTT(60), <1>8 DEF ReadEvent, TakeWorker, try_get_idler, Typed
    <2>2. state' \in [Conns -> States]
      BY <1>8 DEF ReadEvent, stop_lingering_close, push_pools, Typed, States
    <2>3. sleeping' \subseteq Workers
      BY <1>8 DEF ReadEvent, stop_lingering_close, Typed
    <2> QED BY <1>8, <2>1, <2>2, <2>3 DEF ReadEvent, Typed
  <1>9. ASSUME NEW S \in SUBSET Conns, ProcessKeepalives(S) \/ ProcessWriteCompletions(S)
        PROVE  Typed'
    BY <1>9 DEF ProcessKeepalives, ProcessWriteCompletions, Expiring, Typed
  <1>10. ASSUME NEW S \in SUBSET Conns, ProcessLingering(S)  PROVE Typed'
    <2>1. state' \in [Conns -> States] /\ sleeping' \subseteq Workers
      BY <1>10 DEF ProcessLingering, stop_lingering_close, push_pools, Typed, States
    <2> QED BY <1>10, <2>1 DEF ProcessLingering, Expiring, Typed
  <1> QED
    BY <1>2, <1>3, <1>4, <1>5, <1>6, <1>7, <1>8, <1>9, <1>10 DEF ListenerMoves

(* The control of a worker keeps the types. *)
LEMMA WorkerControlTyped ==
  ASSUME IInv, Typed, NEW w \in Workers, WorkerControl(w)
  PROVE  Typed'
  <1> USE DEF fdqueueVars, connVars, exitVars, listenerVars, workerVars
  <1>2. ASSUME NEW l \in Labels, GoTo(w, l)  PROVE wpc' \in [Workers -> Labels]
    BY <1>2 DEF GoTo, Typed
  <1>3. /\ "exit" \in Labels /\ "check" \in Labels /\ "signal" \in Labels /\ "pop" \in Labels
        /\ "sleep" \in Labels /\ "timer" \in Labels /\ "defer" \in Labels
    BY DEF Labels, Busy, Counted
  <1>4. CASE SetIdle(w)
    <2>1. wpc' \in [Workers -> Labels]  BY <1>2, <1>3, <1>4 DEF SetIdle
    <2>2. idlers' \in Int  BY SMT, <1>4 DEF SetIdle, set_idle, Typed
    <2>3. is_idle' \in [Workers -> BOOLEAN]  BY <1>4 DEF SetIdle, Typed
    <2> QED BY <1>4, <2>1, <2>2, <2>3 DEF SetIdle, Typed
  <1>5. CASE SignalIdler(w)
    BY <1>2, <1>3, <1>5 DEF SignalIdler, Typed
  <1>6. CASE CheckExit(w)
    <2>1. wpc' \in [Workers -> Labels]  BY <1>2, <1>3, <1>6 DEF CheckExit
    <2>2. connection_count \in Nat  BY CountFacts DEF IInv, CountsExact
    <2>3. threads_shutdown' \in 0 .. threads_per_child
      BY SMTT(60), <1>6, <2>2, Constants DEF CheckExit, ShouldExitEarly, Typed
    <2> QED BY <1>6, <2>1, <2>3 DEF CheckExit, Typed
  <1>7. CASE PopNothing(w)
    <2>1. wpc' \in [Workers -> Labels] /\ sleeping' \subseteq Workers
      BY <1>2, <1>3, <1>7 DEF PopNothing, Typed
    <2> QED BY <1>7, <2>1 DEF PopNothing, Typed
  <1>8. CASE PopTimer(w)
    <2>1. timers' \in 0 .. MaxTimers  BY SMTT(60), <1>8, Constants DEF PopTimer, pop_timer, Typed
    <2> QED BY <1>2, <1>3, <1>8, <2>1 DEF PopTimer, pop_timer, Typed
  <1>9. CASE TimerCallback(w)
    BY <1>2, <1>3, <1>9 DEF TimerCallback, Typed
  <1> QED
    BY <1>4, <1>5, <1>6, <1>7, <1>8, <1>9 DEF WorkerControl

(* So do the steps by which it moves connections. *)
LEMMA WorkerMovesTyped ==
  ASSUME IInv, Typed, NEW w \in Workers, WorkerMoves(w)
  PROVE  Typed'
  <1> USE DEF fdqueueVars, connVars, exitVars, listenerVars, workerVars
  <1>2. ASSUME NEW l \in Labels, GoTo(w, l)  PROVE wpc' \in [Workers -> Labels]
    BY <1>2 DEF GoTo, Typed
  <1>3. /\ "defer" \in Labels /\ "start" \in Labels /\ "drain" \in Labels /\ "serve" \in Labels
        /\ "linger" \in Labels /\ "idle" \in Labels
    BY DEF Labels, Busy, Counted
  <1>4. ASSUME NEW x \in Conns \union {NoConn}, cs' = [cs EXCEPT ![w] = x]
        PROVE  cs' \in [Workers -> Conns \union {NoConn}]
    BY <1>4 DEF Typed
  <1>5. ASSUME NEW c \in Conns, NEW s \in States, state' = [state EXCEPT ![c] = s]
        PROVE  state' \in [Conns -> States]
    BY <1>5 DEF Typed
  <1>6. /\ "read" \in States /\ "closed" \in States /\ "wc" \in States /\ "ka" \in States
        /\ "linger" \in States /\ "lingering" \in States
    BY DEF States
  <1>7. CASE PopSocket(w)
    <2>1. /\ queue' \in Seq(Conns \union {NoConn}) /\ Head(queue) \in Conns \union {NoConn}
          /\ UNCHANGED timers
      BY <1>7, PopFacts DEF PopSocket, pop_socket
    <2>2. wpc' \in [Workers -> Labels]  BY <1>2, <1>3, <1>7 DEF PopSocket
    <2>3. is_idle' \in [Workers -> BOOLEAN]  BY <1>7 DEF PopSocket, Typed
    <2> QED BY <1>4, <1>7, <2>1, <2>2, <2>3 DEF PopSocket, Typed
  <1>8. ASSUME wpc[w] \in Busy  PROVE cs[w] \in Conns
    BY <1>8 DEF IInv, Typed, Placed
  <1>9. ASSUME Leave(w)
        PROVE  wpc' \in [Workers -> Labels] /\ cs' \in [Workers -> Conns \union {NoConn}]
    BY <1>2, <1>3, <1>4, <1>9 DEF Leave
  <1>10. ASSUME CloseConn(w)  PROVE state' \in [Conns -> States]
    BY <1>6, <1>10 DEF CloseConn, push_pools, Typed
  <1>11. CASE Start(w)
    <2>1. cs[w] \in Conns  BY <1>8, <1>11 DEF Start, Busy
    <2>2. state' \in [Conns -> States]
      BY <1>5, <1>6, <1>11, <2>1 DEF Start, Typed
    <2>3. wpc' \in [Workers -> Labels]  BY <1>2, <1>3, <1>11 DEF Start
    <2>4. cs' \in [Workers -> Conns \union {NoConn}]  BY <1>4, <1>11 DEF Start, Typed
    <2> QED BY <1>11, <2>2, <2>3, <2>4 DEF Start, Typed
  <1>12. CASE Serve(w)
    <2>1. cs[w] \in Conns  BY <1>8, <1>12 DEF Serve, Busy
    <2>2. state' \in [Conns -> States]
      BY <1>5, <1>6, <1>12, <2>1 DEF Serve
    <2>3. wpc' \in [Workers -> Labels]  BY <1>2, <1>3, <1>9, <1>12 DEF Serve
    <2>4. cs' \in [Workers -> Conns \union {NoConn}]  BY <1>9, <1>12 DEF Serve, Typed
    <2>5. wc_q' \subseteq Conns /\ ka_q' \subseteq Conns
      BY <1>12, <2>1 DEF Serve, Typed
    <2> QED BY <1>12, <2>2, <2>3, <2>4, <2>5 DEF Serve, Typed
  <1>13. CASE Linger(w)
    <2>1. cs[w] \in Conns  BY <1>8, <1>13 DEF Linger, Busy
    <2>2. state' \in [Conns -> States]
      BY <1>5, <1>6, <1>10, <1>13, <2>1 DEF Linger
    <2>3. wpc' \in [Workers -> Labels]  BY <1>2, <1>3, <1>9, <1>13 DEF Linger, CloseConn
    <2>4. cs' \in [Workers -> Conns \union {NoConn}]
      BY <1>9, <1>13 DEF Linger, CloseConn, Typed
    <2>5. linger_q' = linger_q  BY <1>13 DEF Linger, CloseConn
    <2> QED BY <1>13, <2>2, <2>3, <2>4, <2>5 DEF Linger, Typed
  <1>14. CASE Drain(w)
    <2>1. cs[w] \in Conns  BY <1>8, <1>14 DEF Drain, Busy
    <2>2. state' \in [Conns -> States]
      BY <1>10, <1>14 DEF Drain, Typed
    <2>3. wpc' \in [Workers -> Labels] /\ cs' \in [Workers -> Conns \union {NoConn}]
      BY <1>9, <1>14 DEF Drain, CloseConn
    <2>4. linger_q' \subseteq Conns  BY <1>14, <2>1 DEF Drain, CloseConn, Typed
    <2> QED BY <1>14, <2>2, <2>3, <2>4 DEF Drain, Typed
  <1>15. CASE Deferred(w)
    <2>1. CASE workers_may_exit \/ defer_linger_chain = {}
      BY <1>2, <1>3, <1>15, <2>1 DEF Deferred, Typed
    <2>2. CASE ~(workers_may_exit \/ defer_linger_chain = {})
      <3>1. PICK c \in defer_linger_chain :
              /\ defer_linger_chain' = defer_linger_chain \ {c}
              /\ state' = [state EXCEPT ![c] = "linger"]
              /\ cs' = [cs EXCEPT ![w] = c]
              /\ GoTo(w, "linger")
        BY <1>15, <2>2 DEF Deferred
      <3>2. c \in Conns /\ defer_linger_chain' \subseteq Conns  BY <3>1 DEF Typed
      <3>3. state' \in [Conns -> States] /\ cs' \in [Workers -> Conns \union {NoConn}]
        BY <1>4, <1>5, <1>6, <3>1, <3>2
      <3>4. wpc' \in [Workers -> Labels]  BY <1>2, <1>3, <3>1
      <3> QED BY <1>15, <3>2, <3>3, <3>4 DEF Deferred, Typed
    <2> QED BY <2>1, <2>2
  <1> QED
    BY <1>7, <1>11, <1>12, <1>13, <1>14, <1>15 DEF WorkerMoves

(* And so does the main thread. *)
LEMMA MainTyped ==
  ASSUME IInv, Typed, MainControl \/ KillWorkers
  PROVE  Typed'
  <1> USE DEF fdqueueVars, connVars, exitVars, listenerVars, workerVars, MainVars
  <1>2. CASE MainControl
    BY <1>2 DEF MainControl, NoticeTermination, TermQueueInfo, ChildExit, WakeAgain,
       SignalThreads, ap_queue_info_term, Typed
  <1>3. CASE KillWorkers
    <2>1. sleeping' \subseteq Workers /\ defer_linger_chain' \subseteq Conns
      BY <1>3 DEF KillWorkers, ap_queue_interrupt_all
    <2> QED BY <1>3, <2>1 DEF KillWorkers, Typed
  <1> QED BY <1>2, <1>3

-----------------------------------------------------------------------------
(* The flags.                                                              *)

(* The listener keeps the flags Boolean. *)
LEMMA ListenerFlags ==
  ASSUME IInv, Flags, ListenerControl \/ ListenerMoves
  PROVE  Flags'
  <1> USE DEF fdqueueVars, connVars, exitVars, pollVars, listenerVars, workerVars
  <1>2. CASE check_infinite_requests
    BY <1>2 DEF check_infinite_requests, ap_queue_info_term, Flags
  <1>3. CASE Top \/ Recheck
    <2>1. dying' \in BOOLEAN /\ workers_were_busy' \in BOOLEAN
      BY <1>3 DEF Top, Recheck, TestExit, close_listeners, Flags
    <2>2. CASE Top  BY <2>1, <2>2 DEF Top, TestExit, Flags
    <2>3. CASE Recheck  BY <2>1, <2>3 DEF Recheck, TestExit, Flags
    <2> QED BY <1>3, <2>2, <2>3
  <1>4. CASE Count
    BY <1>4 DEF Count, Flags
  <1>5. CASE PollQuiet
    BY <1>5 DEF PollQuiet, Flags
  <1>6. CASE Locking \/ Awake
    <2>1. /\ waiting' \in BOOLEAN /\ workers_were_busy' \in BOOLEAN
          /\ have_idle_worker' \in BOOLEAN
      BY <1>6 DEF Locking, Awake, Flags
    <2>2. CASE Locking  BY <2>1, <2>2 DEF Locking, Flags
    <2>3. CASE Awake  BY <2>1, <2>3 DEF Awake, Flags
    <2> QED BY <1>6, <2>2, <2>3
  <1>7. CASE Prepare
    BY <1>7 DEF Prepare, Flags
  <1>8. CASE AcceptRefused
    BY <1>8 DEF AcceptRefused, Flags
  <1>9. CASE AcceptEvent
    BY <1>9 DEF AcceptEvent, GetWorkerBlocking, Flags
  <1>10. CASE GetDeferWorker
    BY <1>10 DEF GetDeferWorker, Flags
  <1>11. CASE enable_listensocks
    BY <1>11 DEF enable_listensocks, Flags
  <1>12. CASE ListenerExit
    BY <1>12 DEF ListenerExit, ap_queue_term, Flags
  <1>13. CASE PollReady
    BY <1>13 DEF PollReady, Flags
  <1>14. CASE AcceptConn
    <2>1. have_idle_worker' \in BOOLEAN  BY <1>14 DEF AcceptConn, Flags
    <2> QED BY <1>14, <2>1 DEF AcceptConn, Flags
  <1>15. CASE push2worker \/ PushDeferred \/ SkipExpiry
    <2>1. have_idle_worker' \in BOOLEAN
      BY <1>15 DEF push2worker, PushDeferred, SkipExpiry, Flags
    <2>2. CASE push2worker  BY <2>1, <2>2 DEF push2worker, Flags
    <2>3. CASE PushDeferred  BY <2>1, <2>3 DEF PushDeferred, Flags
    <2>4. CASE SkipExpiry  BY <2>1, <2>4 DEF SkipExpiry, Flags
    <2> QED BY <1>15, <2>2, <2>3, <2>4
  <1>16. ASSUME NEW c \in Conns, WriteEvent(c)  PROVE Flags'
    BY <1>16 DEF WriteEvent, GetWorkerBlocking, Flags
  <1>17. ASSUME NEW c \in Conns, ReadEvent(c)  PROVE Flags'
    <2>1. wakeup' \in BOOLEAN
      BY <1>17 DEF ReadEvent, stop_lingering_close, push_pools, Flags
    <2> QED BY <1>17, <2>1 DEF ReadEvent, Flags
  <1>18. ASSUME NEW S \in SUBSET Conns, ProcessKeepalives(S) \/ ProcessWriteCompletions(S)
         PROVE  Flags'
    <2>1. queues_next_expiry' \in BOOLEAN
      BY <1>18 DEF ProcessKeepalives, ProcessWriteCompletions, Flags
    <2>2. CASE ProcessKeepalives(S)
      BY <2>1, <2>2 DEF ProcessKeepalives, Expiring, Flags
    <2>3. CASE ProcessWriteCompletions(S)
      BY <2>1, <2>3 DEF ProcessWriteCompletions, Expiring, Flags
    <2> QED BY <1>18, <2>2, <2>3
  <1>19. ASSUME NEW S \in SUBSET Conns, ProcessLingering(S)  PROVE Flags'
    <2>1. wakeup' \in BOOLEAN /\ queues_next_expiry' \in BOOLEAN
      BY <1>19 DEF ProcessLingering, stop_lingering_close, push_pools, Flags
    <2> QED BY <1>19, <2>1 DEF ProcessLingering, Expiring, Flags
  <1> QED
    BY <1>2, <1>3, <1>4, <1>5, <1>6, <1>7, <1>8, <1>9, <1>10, <1>11, <1>12, <1>13, <1>14,
       <1>15, <1>16, <1>17, <1>18, <1>19 DEF ListenerControl, ListenerMoves

(* So do the workers and the main thread. *)
LEMMA OtherFlags ==
  ASSUME IInv, Flags,
         \/ \E w \in Workers : WorkerControl(w) \/ WorkerMoves(w)
         \/ MainControl \/ KillWorkers
  PROVE  Flags'
  <1> USE DEF fdqueueVars, connVars, exitVars, pollVars, listenerVars, workerVars, MainVars
  <1>2. ASSUME NEW w \in Workers, WorkerControl(w)  PROVE Flags'
    <2>1. CASE SetIdle(w)  BY <2>1 DEF SetIdle, Flags
    <2>2. CASE SignalIdler(w)  BY <2>2 DEF SignalIdler, signal_idler, Flags
    <2>3. CASE CheckExit(w)  BY <2>3 DEF CheckExit, Flags
    <2>4. CASE PopNothing(w)  BY <2>4 DEF PopNothing, Flags
    <2>5. CASE PopTimer(w)  BY <2>5 DEF PopTimer, Flags
    <2>6. CASE TimerCallback(w)  BY <2>6 DEF TimerCallback, Flags
    <2> QED BY <1>2, <2>1, <2>2, <2>3, <2>4, <2>5, <2>6 DEF WorkerControl
  <1>3. ASSUME TO_QUEUE_APPEND  PROVE wakeup' \in BOOLEAN /\ queues_next_expiry' \in BOOLEAN
    BY <1>3 DEF TO_QUEUE_APPEND, Flags
  <1>4. ASSUME NEW w \in Workers, CloseConn(w)
        PROVE  wakeup' \in BOOLEAN /\ queues_next_expiry' \in BOOLEAN
    BY <1>4 DEF CloseConn, push_pools, Flags
  <1>5. ASSUME NEW w \in Workers, PopSocket(w) \/ Start(w) \/ Deferred(w)  PROVE Flags'
    <2>1. CASE PopSocket(w)  BY <2>1 DEF PopSocket, Flags
    <2>2. CASE Start(w)  BY <2>2 DEF Start, Flags
    <2>3. CASE Deferred(w)  BY <2>3 DEF Deferred, Flags
    <2> QED BY <1>5, <2>1, <2>2, <2>3
  <1>6. ASSUME NEW w \in Workers, Serve(w)  PROVE Flags'
    <2>1. wakeup' \in BOOLEAN /\ queues_next_expiry' \in BOOLEAN
      BY <1>3, <1>6 DEF Serve, Flags
    <2> QED BY <1>6, <2>1 DEF Serve, Flags
  <1>7. ASSUME NEW w \in Workers, Linger(w) \/ Drain(w)  PROVE Flags'
    <2>1. wakeup' \in BOOLEAN /\ queues_next_expiry' \in BOOLEAN
      BY <1>3, <1>4, <1>7 DEF Linger, Drain, Flags
    <2>2. CASE Linger(w)  BY <2>1, <2>2 DEF Linger, Flags
    <2>3. CASE Drain(w)  BY <2>1, <2>3 DEF Drain, Flags
    <2> QED BY <1>7, <2>2, <2>3
  <1>8. CASE MainControl \/ KillWorkers
    <2>1. CASE NoticeTermination  BY <2>1 DEF NoticeTermination, Flags
    <2>2. CASE TermQueueInfo  BY <2>2 DEF TermQueueInfo, ap_queue_info_term, Flags
    <2>3. CASE ChildExit  BY <2>3 DEF ChildExit, Flags
    <2>4. CASE WakeAgain  BY <2>4 DEF WakeAgain, WakeListener, ap_queue_info_term, Flags
    <2>5. ASSUME NEW mode, SignalThreads(mode)  PROVE Flags'
      BY <2>5 DEF SignalThreads, WakeListener, Flags
    <2>6. CASE KillWorkers  BY <2>6 DEF KillWorkers, Flags
    <2> QED BY <1>8, <2>1, <2>2, <2>3, <2>4, <2>5, <2>6 DEF MainControl
  <1> QED BY <1>2, <1>5, <1>6, <1>7, <1>8 DEF WorkerMoves

-----------------------------------------------------------------------------
(* The counter of idle workers.                                            *)

(* A step of the listener or the main thread that neither reserves a       *)
(* worker nor pushes.                                                      *)
LEMMA IdleKept ==
  ASSUME IInv, UNCHANGED <<idlers, is_idle, queue, have_idle_worker, wpc>>,
         \/ lpc' = lpc
         \/ /\ lpc \notin {"locking", "blocked"}
            /\ lpc' \notin {"locking", "blocked", "accept", "push", "retest"}
  PROVE  Idle'
  <1>1. Idle  BY DEF IInv
  <1>2. Reserved' = Reserved  BY DEF Reserved
  <1>3. IdlersAccounted'  BY <1>1, <1>2 DEF Idle, IdlersAccounted
  <1> QED BY <1>1, <1>3 DEF Idle

(* The numbers that the account is made of. *)
LEMMA IdleFacts ==
  ASSUME Typed
  PROVE  /\ IsFiniteSet({w \in Workers : is_idle[w]})
         /\ Cardinality({w \in Workers : is_idle[w]}) \in Nat
         /\ Len(queue) \in Nat
  <1>1. IsFiniteSet({w \in Workers : is_idle[w]})
    BY Constants, FS_Subset
  <1>2. Len(queue) \in Nat  BY SeqFacts DEF Typed
  <1> QED BY <1>1, <1>2, FS_CardinalityType

(* get_worker reserves a worker, or waits for one. *)
LEMMA IdleReserved ==
  ASSUME IInv, idlers' = idlers - 1, UNCHANGED <<is_idle, queue, wpc>>,
         ~have_idle_worker, lpc \notin {"locking", "blocked"},
         \/ have_idle_worker' /\ lpc' \notin {"locking", "blocked"}
         \/ UNCHANGED have_idle_worker /\ lpc' = "locking"
  PROVE  Idle'
  <1>1. Idle /\ Typed  BY DEF IInv
  <1>2. Reserved = 0 /\ Reserved' = 1  BY DEF Reserved
  <1>3. IdlersAccounted'
    <2> DEFINE n == Cardinality({w \in Workers : is_idle[w]})
    <2>1. idlers = n - Len(queue) - 0 /\ n \in Nat /\ Len(queue) \in Nat /\ UNCHANGED n
      BY <1>1, <1>2, IdleFacts DEF Idle, IdlersAccounted
    <2> HIDE DEF n
    <2>2. idlers' = n' - Len(queue') - 1  BY SMT, <2>1
    <2> QED BY <1>2, <2>2 DEF IdlersAccounted, n
  <1>4. /\ lpc' \in {"accept", "push", "retest"} => have_idle_worker'
        /\ lpc' \in {"locking", "blocked"} => ~have_idle_worker'
    <2>1. CASE have_idle_worker' /\ lpc' \notin {"locking", "blocked"}  BY <2>1
    <2>2. CASE UNCHANGED have_idle_worker /\ lpc' = "locking"  BY <2>2
    <2> QED BY <2>1, <2>2
  <1> QED BY <1>1, <1>3, <1>4 DEF Idle

(* push2worker spends the reservation. *)
LEMMA IdlePushed ==
  ASSUME IInv, NEW e \in Conns \union {NoConn}, ap_queue_push_socket(e),
         UNCHANGED <<idlers, is_idle, wpc>>,
         lpc \in {"accept", "push", "retest"}, ~have_idle_worker',
         lpc' \notin {"locking", "blocked", "accept", "push", "retest"}
  PROVE  Idle'
  <1>1. Idle /\ Typed  BY DEF IInv
  <1>2. Reserved = 1 /\ Reserved' = 0  BY <1>1 DEF Idle, Reserved
  <1>3. IdlersAccounted'
    <2> DEFINE n == Cardinality({w \in Workers : is_idle[w]})
    <2>1. /\ idlers = n - Len(queue) - 1 /\ n \in Nat /\ Len(queue) \in Nat /\ UNCHANGED n
          /\ Len(queue') = Len(queue) + 1
      BY <1>1, <1>2, IdleFacts, PushFacts DEF Idle, IdlersAccounted
    <2> HIDE DEF n
    <2>2. idlers' = n' - Len(queue') - 0  BY SMT, <2>1
    <2> QED BY <1>2, <2>2 DEF IdlersAccounted, n
  <1> QED BY <1>1, <1>3 DEF Idle

(* The listener keeps the account. *)
LEMMA ListenerIdle ==
  ASSUME IInv, ListenerControl \/ ListenerMoves
  PROVE  Idle'
  <1> USE DEF fdqueueVars, listenerVars, workerVars
  <1>1. CASE check_infinite_requests
    BY <1>1, IdleKept DEF check_infinite_requests
  <1>2. CASE Top
    BY <1>2, IdleKept DEF Top, TestExit
  <1>3. CASE Recheck
    BY <1>3, IdleKept DEF Recheck, TestExit
  <1>4. CASE Count
    BY <1>4, IdleKept DEF Count
  <1>5. CASE Prepare
    BY <1>5, IdleKept DEF Prepare
  <1>6. CASE PollQuiet \/ PollReady
    BY <1>6, IdleKept DEF PollQuiet, PollReady
  <1>7. CASE AcceptRefused
    BY <1>7, IdleKept DEF AcceptRefused
  <1>8. CASE enable_listensocks \/ ListenerExit
    BY <1>8, IdleKept DEF enable_listensocks, ListenerExit
  <1>9. CASE SkipExpiry
    BY <1>9, IdleKept DEF SkipExpiry
  <1>10. ASSUME NEW S \in SUBSET Conns,
                ProcessKeepalives(S) \/ ProcessWriteCompletions(S) \/ ProcessLingering(S)
         PROVE  Idle'
    <2>1. UNCHANGED Expiring
      BY <1>10 DEF ProcessKeepalives, ProcessWriteCompletions, ProcessLingering
    <2>2. /\ lpc \in {"events", "expire_wc", "expire_linger"}
          /\ lpc' \in {"expire_wc", "expire_linger", "defer"}
      BY <1>10 DEF ProcessKeepalives, ProcessWriteCompletions, ProcessLingering
    <2>3. UNCHANGED <<idlers, is_idle, queue, have_idle_worker, wpc>>  BY <2>1 DEF Expiring
    <2> QED BY <2>2, <2>3, IdleKept
  <1>11. CASE Locking \/ Awake
    <2>1. Idle  BY DEF IInv
    <2>2. /\ lpc \in {"locking", "blocked"} /\ UNCHANGED <<idlers, is_idle, queue, wpc>>
          /\ \/ have_idle_worker' /\ lpc' \notin {"locking", "blocked"}
             \/ ~have_idle_worker' /\ lpc' = "blocked"
      BY <1>11, <2>1 DEF Locking, Awake, AfterWait, Idle
    <2>3. Reserved' = Reserved  BY <2>2 DEF Reserved
    <2>4. IdlersAccounted'  BY <2>1, <2>2, <2>3 DEF Idle, IdlersAccounted
    <2> QED BY <2>1, <2>2, <2>4 DEF Idle
  <1>12. ASSUME NEW next \in {"accept", "push"}, lpc = "events", GetWorkerBlocking(next),
                UNCHANGED <<is_idle, queue, wpc>>
         PROVE  Idle'
    <2>1. CASE have_idle_worker
      <3>1. Idle  BY DEF IInv
      <3>2. Reserved' = Reserved  BY <1>12, <2>1 DEF Reserved, GetWorkerBlocking
      <3>3. IdlersAccounted'  BY <1>12, <2>1, <3>1, <3>2 DEF Idle, IdlersAccounted, GetWorkerBlocking
      <3> QED BY <1>12, <2>1, <3>1, <3>3 DEF Idle, GetWorkerBlocking
    <2>2. CASE ~have_idle_worker
      BY <1>12, <2>2, IdleReserved DEF GetWorkerBlocking, wait_for_idler
    <2> QED BY <2>1, <2>2
  <1>13. CASE AcceptEvent
    BY <1>12, <1>13 DEF AcceptEvent
  <1>14. ASSUME NEW c \in Conns, WriteEvent(c)  PROVE Idle'
    BY <1>12, <1>14 DEF WriteEvent
  <1>15. ASSUME TakeWorker, have_idle_worker' = TRUE, lpc \in {"events", "defer"},
                lpc' \in {"push", "retest"}, UNCHANGED <<is_idle, queue, wpc>>
         PROVE  Idle'
    <2>1. CASE have_idle_worker
      <3>1. Idle  BY DEF IInv
      <3>2. Reserved' = Reserved  BY <1>15, <2>1 DEF Reserved
      <3>3. IdlersAccounted'  BY <1>15, <2>1, <3>1, <3>2 DEF Idle, IdlersAccounted, TakeWorker
      <3> QED BY <1>15, <3>1, <3>3 DEF Idle
    <2>2. CASE ~have_idle_worker
      BY <1>15, <2>2, IdleReserved DEF TakeWorker, try_get_idler
    <2> QED BY <2>1, <2>2
  <1>16. CASE GetDeferWorker
    <2>1. CASE defer_linger_chain # {} /\ GotWorker  BY <1>15, <1>16, <2>1 DEF GetDeferWorker
    <2>2. CASE ~(defer_linger_chain # {} /\ GotWorker)
      BY <1>16, <2>2, IdleKept DEF GetDeferWorker
    <2> QED BY <2>1, <2>2
  <1>17. ASSUME NEW c \in Conns, ReadEvent(c)  PROVE Idle'
    <2>1. CASE GotWorker  BY <1>15, <1>17, <2>1 DEF ReadEvent
    <2>2. CASE ~GotWorker  BY <1>17, <2>2, IdleKept DEF ReadEvent
    <2> QED BY <2>1, <2>2
  <1>18. CASE AcceptConn
    <2>1. ASSUME NEW c \in Conns, ap_queue_push_socket(c), have_idle_worker' = FALSE  PROVE Idle'
      BY <1>18, <2>1, IdlePushed DEF AcceptConn
    <2>2. CASE UNCHANGED <<queue, have_idle_worker>>
      BY <1>18, <2>2, IdleKept DEF AcceptConn
    <2> QED BY <1>18, <2>1, <2>2 DEF AcceptConn
  <1>19. CASE push2worker
    <2>1. current \in Conns  BY <1>19 DEF push2worker, IInv, Listener
    <2> QED BY <1>19, <2>1, IdlePushed DEF push2worker
  <1>20. CASE PushDeferred
    <2>1. CASE defer_linger_chain # {}  BY <1>20, <2>1, IdlePushed DEF PushDeferred
    <2>2. CASE defer_linger_chain = {}  BY <1>20, <2>2, IdleKept DEF PushDeferred
    <2> QED BY <2>1, <2>2
  <1> QED
    BY <1>1, <1>2, <1>3, <1>4, <1>5, <1>6, <1>7, <1>8, <1>9, <1>10, <1>11, <1>13, <1>14,
       <1>16, <1>17, <1>18, <1>19, <1>20 DEF ListenerControl, ListenerMoves

(* A worker and the main thread keep it: a worker enters the account where *)
(* it announces itself, and leaves it with the socket that it pops.        *)
LEMMA OtherIdle ==
  ASSUME IInv,
         \/ \E w \in Workers : WorkerControl(w) \/ WorkerMoves(w)
         \/ MainControl \/ KillWorkers
  PROVE  Idle'
  <1> USE DEF fdqueueVars, listenerVars, workerVars
  <1>1. Idle /\ Typed  BY DEF IInv
  <1>2. CASE MainControl \/ KillWorkers
    <2>1. UNCHANGED <<idlers, is_idle, queue, have_idle_worker, wpc, lpc>>
      BY <1>2 DEF MainControl, NoticeTermination, TermQueueInfo, ChildExit, WakeAgain,
         SignalThreads, KillWorkers, MainVars
    <2> QED BY <2>1, IdleKept
  <1>3. ASSUME NEW w \in Workers, UNCHANGED <<idlers, is_idle, queue, have_idle_worker, lpc>>,
               NEW l, GoTo(w, l), l \in Counted => is_idle[w]
        PROVE  Idle'
    <2>1. \A v \in Workers : wpc'[v] \in Counted => is_idle'[v]
      BY <1>1, <1>3 DEF GoTo, Idle, Typed
    <2>2. IdlersAccounted'  BY <1>1, <1>3 DEF Idle, IdlersAccounted, Reserved
    <2> QED BY <1>1, <1>3, <2>1, <2>2 DEF Idle
  <1>4. ASSUME NEW w \in Workers, SetIdle(w)  PROVE Idle'
    <2>1. CASE workers_may_exit \/ is_idle[w]
      BY <1>3, <1>4, <2>1 DEF SetIdle, Counted
    <2>2. CASE ~(workers_may_exit \/ is_idle[w])
      <3>1. /\ idlers' = idlers + 1 /\ is_idle' = [is_idle EXCEPT ![w] = TRUE]
            /\ UNCHANGED <<queue, have_idle_worker, lpc>> /\ ~is_idle[w]
            /\ \E l : GoTo(w, l)
        BY <1>4, <2>2 DEF SetIdle, set_idle
      <3>2. \A v \in Workers : wpc'[v] \in Counted => is_idle'[v]
        BY <1>1, <3>1 DEF GoTo, Idle, Typed
      <3>3. IdlersAccounted'
        <4> DEFINE A == {v \in Workers : is_idle[v]}
        <4>1. A' = A \union {w} /\ w \notin A  BY <1>1, <3>1 DEF Typed
        <4>2. /\ IsFiniteSet(A) /\ Cardinality(A) \in Nat /\ Len(queue) \in Nat
              /\ idlers = Cardinality(A) - Len(queue) - Reserved /\ Reserved \in {0, 1}
          BY <1>1, IdleFacts DEF Idle, IdlersAccounted, Reserved
        <4>3. UNCHANGED Reserved  BY <3>1 DEF Reserved
        <4> HIDE DEF A
        <4>4. Cardinality(A') = Cardinality(A) + 1  BY <4>1, <4>2, FS_AddElement
        <4>5. idlers' = Cardinality(A') - Len(queue') - Reserved'
          BY SMT, <3>1, <4>2, <4>3, <4>4
        <4> QED BY <4>5 DEF IdlersAccounted, A
      <3> QED BY <1>1, <3>1, <3>2, <3>3 DEF Idle
    <2> QED BY <2>1, <2>2
  <1>5. ASSUME NEW w \in Workers,
               \/ SignalIdler(w) \/ CheckExit(w) \/ PopNothing(w) \/ PopTimer(w)
               \/ TimerCallback(w)
        PROVE  Idle'
    <2>1. wpc[w] \in Counted
      BY <1>5 DEF SignalIdler, CheckExit, PopNothing, PopTimer, TimerCallback, Counted
    <2>2. is_idle[w]  BY <1>1, <2>1 DEF Idle
    <2>3. UNCHANGED <<idlers, is_idle, queue, have_idle_worker, lpc>>
      BY <1>5 DEF SignalIdler, CheckExit, PopNothing, PopTimer, pop_timer, TimerCallback
    <2>4. \E l : GoTo(w, l)
      BY <1>5 DEF SignalIdler, CheckExit, PopNothing, PopTimer, TimerCallback
    <2> QED BY <1>3, <2>2, <2>3, <2>4
  <1>6. ASSUME NEW w \in Workers, PopSocket(w)  PROVE Idle'
    <2>1. /\ is_idle' = [is_idle EXCEPT ![w] = FALSE] /\ UNCHANGED <<idlers, have_idle_worker, lpc>>
          /\ wpc[w] \in {"pop", "sleep"}
          /\ wpc' = [wpc EXCEPT ![w] = IF Head(queue) = NoConn THEN "defer" ELSE "start"]
      BY <1>6 DEF PopSocket, GoTo
    <2>2. is_idle[w]  BY <1>1, <2>1 DEF Idle, Counted
    <2>3. \A v \in Workers : wpc'[v] \in Counted => is_idle'[v]
      <3>1. wpc'[w] \notin Counted  BY <1>1, <2>1 DEF Counted, Typed
      <3>2. \A v \in Workers : v # w => wpc'[v] = wpc[v] /\ is_idle'[v] = is_idle[v]
        BY <1>1, <2>1 DEF Typed
      <3> QED BY <1>1, <3>1, <3>2 DEF Idle
    <2>4. IdlersAccounted'
      <3> DEFINE A == {v \in Workers : is_idle[v]}
      <3>1. A' = A \ {w} /\ w \in A  BY <1>1, <2>1, <2>2 DEF Typed
      <3>2. /\ IsFiniteSet(A) /\ Cardinality(A) \in Nat /\ Len(queue) \in Nat
            /\ idlers = Cardinality(A) - Len(queue) - Reserved /\ Reserved \in {0, 1}
        BY <1>1, IdleFacts DEF Idle, IdlersAccounted, Reserved
      <3>3. UNCHANGED Reserved  BY <2>1 DEF Reserved
      <3>4. Len(queue') = Len(queue) - 1  BY <1>1, <1>6, PopFacts DEF PopSocket
      <3> HIDE DEF A
      <3>5. Cardinality(A') = Cardinality(A) - 1  BY <3>1, <3>2, FS_RemoveElement
      <3>6. idlers' = Cardinality(A') - Len(queue') - Reserved'
        BY SMT, <2>1, <3>2, <3>3, <3>4, <3>5
      <3> QED BY <3>6 DEF IdlersAccounted, A
    <2> QED BY <1>1, <2>1, <2>3, <2>4 DEF Idle
  <1>7. ASSUME NEW w \in Workers,
               Start(w) \/ Serve(w) \/ Linger(w) \/ Drain(w) \/ Deferred(w)
        PROVE  Idle'
    <2>1. UNCHANGED <<idlers, is_idle, queue, have_idle_worker, lpc>>
      BY <1>7 DEF Start, Serve, Linger, Drain, Deferred
    <2>2. \E l : l \notin Counted /\ GoTo(w, l)
      BY <1>7 DEF Start, Serve, Linger, Drain, Deferred, CloseConn, Leave, Counted
    <2> QED BY <1>3, <2>1, <2>2
  <1> QED
    BY <1>2, <1>4, <1>5, <1>6, <1>7 DEF WorkerControl, WorkerMoves

-----------------------------------------------------------------------------
(* What the listener holds, the next expiry, the main thread.              *)

(* A step of the listener or the main thread that leaves what the listener *)
(* holds alone, and parks nothing.                                         *)
LEMMA ArmedKept ==
  ASSUME IInv, wc_q' \subseteq wc_q, ka_q' \subseteq ka_q, linger_q' \subseteq linger_q,
         UNCHANGED queues_next_expiry,
         lpc' = lpc \/ lpc \notin {"expire_wc", "expire_linger"}
  PROVE  Armed'
  <1>1. Armed  BY DEF IInv
  <1>2. Parked = {} => Parked' = {}  BY DEF Parked
  <1>3. ka_q = {} => ka_q' = {}  OBVIOUS
  <1>4. wc_q = {} => wc_q' = {}  OBVIOUS
  <1> QED BY <1>1, <1>2, <1>3, <1>4 DEF Armed

(* The listener's steps: what it holds. *)
LEMMA ListenerHolds ==
  ASSUME IInv, ListenerControl \/ ListenerMoves
  PROVE  Listener'
  <1>1. Listener /\ Typed  BY DEF IInv
  <1>2. ASSUME UNCHANGED current,
               lpc \notin {"push", "accept", "locking", "blocked"},
               lpc' \notin {"push", "accept", "locking", "blocked", "expire_wc", "expire_linger"}
        PROVE  Listener'
    BY <1>1, <1>2 DEF Listener
  <1>3. CASE check_infinite_requests
    BY <1>1, <1>3 DEF check_infinite_requests, listenerVars, Listener
  <1>4. CASE Top \/ Recheck
    BY <1>2, <1>4 DEF Top, Recheck, TestExit
  <1>5. CASE Count \/ Prepare
    BY <1>2, <1>5 DEF Count, Prepare
  <1>6. CASE PollQuiet \/ PollReady
    BY <1>2, <1>6 DEF PollQuiet, PollReady
  <1>7. CASE Locking \/ Awake
    <2>1. current \in Conns \union {Accept}  BY <1>1, <1>7 DEF Locking, Awake, Listener, Typed
    <2>2. UNCHANGED current /\ lpc' \in {"blocked", AfterWait}  BY <1>7 DEF Locking, Awake
    <2> QED BY <2>1, <2>2, Constants DEF AfterWait, Listener
  <1>8. CASE AcceptRefused
    BY <1>1, <1>8 DEF AcceptRefused, Listener
  <1>9. CASE AcceptEvent
    <2>1. current' = Accept /\ lpc' \in {"accept", "locking"}
      BY <1>9 DEF AcceptEvent, GetWorkerBlocking
    <2> QED BY <2>1, Constants DEF Listener
  <1>10. CASE GetDeferWorker
    BY <1>2, <1>10 DEF GetDeferWorker
  <1>11. CASE enable_listensocks \/ ListenerExit
    BY <1>2, <1>11 DEF enable_listensocks, ListenerExit
  <1>12. CASE AcceptConn \/ push2worker
    BY <1>12 DEF AcceptConn, push2worker, Listener
  <1>13. CASE SkipExpiry \/ PushDeferred
    BY <1>2, <1>13 DEF SkipExpiry, PushDeferred
  <1>14. ASSUME NEW c \in Conns, WriteEvent(c)  PROVE Listener'
    <2>1. current' = c /\ lpc' \in {"push", "locking"}
      BY <1>14 DEF WriteEvent, GetWorkerBlocking
    <2> QED BY <2>1, Constants DEF Listener
  <1>15. ASSUME NEW c \in Conns, ReadEvent(c)  PROVE Listener'
    <2>1. \/ current' = c /\ lpc' = "push"
          \/ UNCHANGED <<current, lpc>> /\ lpc = "events"
      BY <1>15 DEF ReadEvent
    <2> QED BY <1>1, <2>1, Constants DEF Listener
  <1>16. ASSUME NEW S \in SUBSET Conns,
                ProcessKeepalives(S) \/ ProcessWriteCompletions(S) \/ ProcessLingering(S)
         PROVE  Listener'
    <2>1. UNCHANGED <<events, current>>
      BY <1>16 DEF ProcessKeepalives, ProcessWriteCompletions, ProcessLingering, Expiring
    <2>2. /\ lpc \in {"events", "expire_wc", "expire_linger"}
          /\ lpc' \in {"expire_wc", "expire_linger", "defer"}
          /\ events = {}
      BY <1>1, <1>16 DEF ProcessKeepalives, ProcessWriteCompletions, ProcessLingering, Listener
    <2> QED BY <1>1, <2>1, <2>2 DEF Listener
  <1> QED
    BY <1>3, <1>4, <1>5, <1>6, <1>7, <1>8, <1>9, <1>10, <1>11, <1>12, <1>13, <1>14, <1>15,
       <1>16 DEF ListenerControl, ListenerMoves

(* The listener's steps: the next expiry. *)
LEMMA ListenerArmed ==
  ASSUME IInv, ListenerControl \/ ListenerMoves
  PROVE  Armed'
  <1> USE DEF connVars, pollVars, listenerVars
  <1>1. CASE check_infinite_requests
    BY <1>1, ArmedKept DEF check_infinite_requests
  <1>2. CASE Top \/ Recheck
    BY <1>2, ArmedKept DEF Top, Recheck, TestExit
  <1>3. CASE Count \/ Prepare
    BY <1>3, ArmedKept DEF Count, Prepare
  <1>4. CASE PollQuiet \/ PollReady
    BY <1>4, ArmedKept DEF PollQuiet, PollReady
  <1>5. CASE Locking \/ Awake
    BY <1>5, ArmedKept DEF Locking, Awake
  <1>6. CASE AcceptRefused \/ AcceptEvent
    BY <1>6, ArmedKept DEF AcceptRefused, AcceptEvent
  <1>7. CASE GetDeferWorker \/ PushDeferred
    BY <1>7, ArmedKept DEF GetDeferWorker, PushDeferred
  <1>8. CASE enable_listensocks \/ ListenerExit
    BY <1>8, ArmedKept DEF enable_listensocks, ListenerExit
  <1>9. CASE AcceptConn \/ push2worker
    BY <1>9, ArmedKept DEF AcceptConn, push2worker
  <1>10. CASE SkipExpiry
    <2>1. ka_q' \subseteq ka_q  BY <1>10 DEF SkipExpiry
    <2> QED BY <1>10, <2>1, ArmedKept DEF SkipExpiry
  <1>11. ASSUME NEW c \in Conns, WriteEvent(c)  PROVE Armed'
    <2>1. wc_q' \subseteq wc_q  BY <1>11 DEF WriteEvent
    <2> QED BY <1>11, <2>1, ArmedKept DEF WriteEvent
  <1>12. ASSUME NEW c \in Conns, ReadEvent(c)  PROVE Armed'
    <2>1. /\ wc_q' \subseteq wc_q /\ ka_q' \subseteq ka_q /\ linger_q' \subseteq linger_q
          /\ UNCHANGED queues_next_expiry /\ lpc = "events"
      BY <1>12 DEF ReadEvent
    <2> QED BY <2>1, ArmedKept
  <1>13. ASSUME NEW S \in SUBSET Conns, ProcessKeepalives(S)  PROVE Armed'
    <2>1. CASE ka_q = S
      <3>1. ka_q' = {} /\ lpc' = "expire_wc"  BY <1>13, <2>1 DEF ProcessKeepalives
      <3> QED BY <3>1 DEF Armed
    <2>2. CASE ka_q # S  BY <1>13, <2>2 DEF ProcessKeepalives, Armed
    <2> QED BY <2>1, <2>2
  <1>14. ASSUME NEW S \in SUBSET Conns, ProcessWriteCompletions(S)  PROVE Armed'
    <2>1. CASE queues_next_expiry \/ wc_q # S
      BY <1>14, <2>1 DEF ProcessWriteCompletions, Armed
    <2>2. CASE ~(queues_next_expiry \/ wc_q # S)
      <3>1. ka_q = {}  BY <1>14, <2>2 DEF ProcessWriteCompletions, IInv, Armed, Parked
      <3>2. ka_q' = {} /\ wc_q' = {} /\ lpc' = "expire_linger"
        BY <1>14, <2>2, <3>1 DEF ProcessWriteCompletions
      <3> QED BY <3>2 DEF Armed
    <2> QED BY <2>1, <2>2
  <1>15. ASSUME NEW S \in SUBSET Conns, ProcessLingering(S)  PROVE Armed'
    <2>1. CASE queues_next_expiry \/ linger_q # S
      BY <1>15, <2>1 DEF ProcessLingering, Armed
    <2>2. CASE ~(queues_next_expiry \/ linger_q # S)
      <3>1. ka_q = {} /\ wc_q = {}
        BY <1>15, <2>2 DEF ProcessLingering, IInv, Armed, Parked
      <3>2. ka_q' = {} /\ wc_q' = {} /\ linger_q' = {}
        BY <1>15, <2>2, <3>1 DEF ProcessLingering
      <3> QED BY <3>2 DEF Armed, Parked
    <2> QED BY <2>1, <2>2
  <1> QED
    BY <1>1, <1>2, <1>3, <1>4, <1>5, <1>6, <1>7, <1>8, <1>9, <1>10, <1>11, <1>12, <1>13, <1>14,
       <1>15 DEF ListenerControl, ListenerMoves

(* The steps of the other threads: a worker that parks a connection sets   *)
(* the next expiry.                                                        *)
LEMMA OtherArmed ==
  ASSUME IInv,
         \/ \E w \in Workers : WorkerControl(w) \/ WorkerMoves(w)
         \/ MainControl \/ KillWorkers
  PROVE  Listener' /\ Armed'
  <1> USE DEF connVars, pollVars, listenerVars
  <1>1. UNCHANGED <<lpc, events, current>>
    <2>1. CASE MainControl \/ KillWorkers
      BY <2>1 DEF MainControl, NoticeTermination, TermQueueInfo, ChildExit, WakeAgain,
         SignalThreads, KillWorkers, MainVars
    <2>2. ASSUME NEW w \in Workers, WorkerControl(w)  PROVE UNCHANGED <<lpc, events, current>>
      BY <2>2 DEF WorkerControl, SetIdle, SignalIdler, CheckExit, PopNothing, PopTimer,
         TimerCallback
    <2>3. ASSUME NEW w \in Workers, WorkerMoves(w)  PROVE UNCHANGED <<lpc, events, current>>
      BY <2>3 DEF WorkerMoves, PopSocket, Start, Serve, Linger, Drain, Deferred
    <2> QED BY <2>1, <2>2, <2>3
  <1>2. Listener'  BY <1>1 DEF IInv, Listener
  <1>3. ASSUME UNCHANGED <<wc_q, ka_q, linger_q, queues_next_expiry>>  PROVE Armed'
    BY <1>1, <1>3, ArmedKept
  <1>4. ASSUME MainControl \/ KillWorkers  PROVE Armed'
    BY <1>3, <1>4 DEF MainControl, NoticeTermination, TermQueueInfo, ChildExit, WakeAgain,
       SignalThreads, KillWorkers, MainVars
  <1>5. ASSUME NEW w \in Workers, WorkerControl(w)  PROVE Armed'
    BY <1>3, <1>5 DEF WorkerControl, SetIdle, SignalIdler, CheckExit, PopNothing, PopTimer,
       TimerCallback
  <1>6. ASSUME NEW w \in Workers, PopSocket(w) \/ Start(w) \/ Deferred(w)  PROVE Armed'
    BY <1>3, <1>6 DEF PopSocket, Start, Deferred
  <1>7. ASSUME TO_QUEUE_APPEND  PROVE Armed'
    BY <1>7 DEF TO_QUEUE_APPEND, Armed
  <1>8. ASSUME NEW w \in Workers, Serve(w)  PROVE Armed'
    BY <1>3, <1>7, <1>8 DEF Serve
  <1>9. ASSUME NEW w \in Workers, Linger(w) \/ Drain(w)  PROVE Armed'
    BY <1>3, <1>7, <1>9 DEF Linger, Drain, CloseConn
  <1>10. ASSUME NEW w \in Workers, WorkerMoves(w)  PROVE Armed'
    BY <1>6, <1>8, <1>9, <1>10 DEF WorkerMoves
  <1> QED BY <1>2, <1>4, <1>5, <1>10

(* The main thread's place and the mode of termination, in any step. *)
LEMMA ModeSteps ==
  ASSUME IInv, Next
  PROVE  /\ terminate_mode # "init" => terminate_mode' # "init"
         /\ mpc = "exit" => mpc' = "exit"
         /\ mpc' = "exit" => mpc \in {"join", "exit"}
         /\ MainThread'
  <1> USE DEF exitVars
  <1>1. MainThread  BY DEF IInv
  <1>2. ASSUME UNCHANGED mpc, terminate_mode' = terminate_mode \/ terminate_mode' # "init"
        PROVE  /\ terminate_mode # "init" => terminate_mode' # "init"
               /\ mpc = "exit" => mpc' = "exit"
               /\ mpc' = "exit" => mpc \in {"join", "exit"}
               /\ MainThread'
    BY <1>1, <1>2 DEF MainThread
  <1>3. CASE ListenerControl
    BY <1>2, <1>3 DEF ListenerControl, check_infinite_requests, Top, Recheck, TestExit, Count,
       Prepare, PollQuiet, Locking, Awake, AcceptRefused, AcceptEvent, GetDeferWorker,
       enable_listensocks, ListenerExit
  <1>4. CASE ListenerMoves
    BY <1>2, <1>4 DEF ListenerMoves, PollReady, AcceptConn, push2worker, SkipExpiry, PushDeferred,
       WriteEvent, ReadEvent, ProcessKeepalives, ProcessWriteCompletions, ProcessLingering, Expiring
  <1>5. ASSUME NEW w \in Workers, WorkerControl(w)
        PROVE  UNCHANGED <<mpc, terminate_mode>>
    BY <1>5 DEF WorkerControl, SetIdle, SignalIdler, CheckExit, PopNothing, PopTimer,
       TimerCallback
  <1>6. ASSUME NEW w \in Workers, WorkerMoves(w)
        PROVE  UNCHANGED <<mpc, terminate_mode>>
    BY <1>6 DEF WorkerMoves, PopSocket, Start, Serve, Linger, Drain, Deferred
  <1>7. CASE NoticeTermination
    BY <1>7 DEF NoticeTermination, MainThread
  <1>8. CASE TermQueueInfo
    BY <1>1, <1>8 DEF TermQueueInfo, MainThread
  <1>9. CASE ChildExit
    BY <1>1, <1>9 DEF ChildExit, MainThread
  <1>10. CASE WakeAgain
    BY <1>2, <1>10 DEF WakeAgain
  <1>11. ASSUME NEW mode \in {"graceful", "ungraceful"}, SignalThreads(mode)
         PROVE  mpc = "run" /\ mpc' = "term" /\ terminate_mode' # "init"
    BY <1>11 DEF SignalThreads
  <1>12. CASE KillWorkers
    BY <1>1, <1>12 DEF KillWorkers, MainThread
  <1>13. CASE MainControl
    BY <1>7, <1>8, <1>9, <1>10, <1>11, <1>13 DEF MainControl, MainThread
  <1> QED
    BY <1>2, <1>3, <1>4, <1>5, <1>6, <1>12, <1>13, StepCases

(* Only the test of connection_count takes the listener to its end. *)
LEMMA ToTerm ==
  ASSUME Next, lpc # "term", lpc' = "term"
  PROVE  Count
  <1> USE DEF listenerVars
  <1>1. CASE ListenerControl
    BY <1>1 DEF ListenerControl, check_infinite_requests, Top, Recheck, TestExit, Prepare,
       PollQuiet, Locking, Awake, AfterWait, AcceptRefused, AcceptEvent, GetWorkerBlocking,
       GetDeferWorker, enable_listensocks, ListenerExit
  <1>2. CASE ListenerMoves
    BY <1>2 DEF ListenerMoves, PollReady, AcceptConn, push2worker, SkipExpiry, PushDeferred,
       WriteEvent, GetWorkerBlocking, ReadEvent, ProcessKeepalives, ProcessWriteCompletions,
       ProcessLingering
  <1>3. ASSUME NEW w \in Workers, WorkerControl(w)  PROVE UNCHANGED lpc
    BY <1>3 DEF WorkerControl, SetIdle, SignalIdler, CheckExit, PopNothing, PopTimer,
       TimerCallback
  <1>4. ASSUME NEW w \in Workers, WorkerMoves(w)  PROVE UNCHANGED lpc
    BY <1>4 DEF WorkerMoves, PopSocket, Start, Serve, Linger, Drain, Deferred
  <1>5. ASSUME MainControl \/ KillWorkers  PROVE UNCHANGED lpc
    BY <1>5 DEF MainControl, NoticeTermination, TermQueueInfo, ChildExit, WakeAgain,
       SignalThreads, KillWorkers, MainVars
  <1> QED BY <1>1, <1>2, <1>3, <1>4, <1>5, StepCases

-----------------------------------------------------------------------------
(* The places.                                                             *)

(* A step that has nothing to do with connection c. *)
SameSpot(c) ==
  /\ state'[c] = state[c]
  /\ c \in wc_q' <=> c \in wc_q
  /\ c \in ka_q' <=> c \in ka_q
  /\ c \in linger_q' <=> c \in linger_q
  /\ c \in defer_linger_chain' <=> c \in defer_linger_chain
  /\ c = current' <=> c = current
  /\ c \in events' => c \in events \union Parked
  /\ \A w \in Workers : cs'[w] = c <=> cs[w] = c
  /\ \A w \in Workers : cs[w] = c => wpc'[w] = wpc[w]
  /\ workers_may_exit => workers_may_exit'

SameQueue(c) ==
  /\ c \in Waiting' => c \in Waiting
  /\ ~Overrun' => /\ ~Overrun
                  /\ c \in Waiting => c \in Waiting'
                  /\ \A i, j \in DOMAIN queue' : queue'[i] = c /\ queue'[j] = c => i = j

(* Such a step leaves c where it is. *)
LEMMA Elsewhere ==
  ASSUME NEW c \in Conns, PlacedAt(c), SameSpot(c), SameQueue(c)
  PROVE  PlacedAt(c)'
  <1>1. c \in Parked' <=> c \in Parked  BY DEF SameSpot, Parked
  <1>2. StateFits(c)'
    BY DEF PlacedAt, StateFits, SameSpot, SameQueue
  <1>3. Alone(c)'
    BY <1>1 DEF PlacedAt, Alone, SameSpot, SameQueue
  <1>4. Kept(c)'
    BY <1>1 DEF PlacedAt, Kept, SameSpot, SameQueue
  <1>5. c \in events' => c \in Parked'
    BY <1>1 DEF PlacedAt, SameSpot
  <1> QED BY <1>2, <1>3, <1>4, <1>5 DEF PlacedAt

(* Nothing is pushed or popped. *)
LEMMA QueueKept ==
  ASSUME NEW c \in Conns, PlacedAt(c), UNCHANGED queue
  PROVE  SameQueue(c)
  <1>1. Waiting' = Waiting /\ (Overrun' <=> Overrun)  BY DEF Waiting, Overrun
  <1> QED BY <1>1 DEF SameQueue, PlacedAt, Alone

(* Something else is pushed. *)
LEMMA QueuePushed ==
  ASSUME NEW c \in Conns, PlacedAt(c), Typed, NEW e \in Conns \union {NoConn}, e # c,
         ap_queue_push_socket(e)
  PROVE  SameQueue(c)
  <1>1. c \in Waiting' => c \in Waiting  BY PushFacts
  <1>2. ASSUME ~Overrun'
        PROVE  /\ ~Overrun
               /\ c \in Waiting => c \in Waiting'
               /\ \A i, j \in DOMAIN queue' : queue'[i] = c /\ queue'[j] = c => i = j
    <2>1. /\ ~Overrun /\ Waiting' = Waiting \union {e}
          /\ \A i \in 1 .. Len(queue) : queue'[i] = queue[i]
          /\ queue'[Len(queue) + 1] = e
      BY <1>2, PushFacts
    <2>2. /\ DOMAIN queue = 1 .. Len(queue) /\ Len(queue) \in Nat
          /\ DOMAIN queue' = 1 .. Len(queue) + 1
      BY PushFacts, SeqFacts DEF Typed
    <2>3. \A i, j \in 1 .. Len(queue) : queue[i] = c /\ queue[j] = c => i = j
      BY <2>1, <2>2 DEF PlacedAt, Alone
    <2>4. \A i \in DOMAIN queue' : queue'[i] = c => i \in 1 .. Len(queue) /\ queue[i] = c
      BY SMT, <2>1, <2>2
    <2> QED BY <2>1, <2>3, <2>4
  <1> QED BY <1>1, <1>2 DEF SameQueue

(* Something else is popped. *)
LEMMA QueuePopped ==
  ASSUME NEW c \in Conns, PlacedAt(c), Typed, pop_socket, c # Head(queue)
  PROVE  SameQueue(c)
  <1>1. /\ c \in Waiting' => c \in Waiting
        /\ c \in Waiting => c \in Waiting'
        /\ ~Overrun
    BY PopFacts
  <1>2. \A i, j \in DOMAIN queue' : queue'[i] = c /\ queue'[j] = c => i = j
    <2> SUFFICES ASSUME NEW i \in DOMAIN queue', NEW j \in DOMAIN queue',
                        queue'[i] = c, queue'[j] = c
                 PROVE  i = j
      OBVIOUS
    <2>1. /\ i \in Int /\ j \in Int
          /\ i + 1 \in DOMAIN queue /\ j + 1 \in DOMAIN queue
          /\ queue[i + 1] = c /\ queue[j + 1] = c
      BY SMT, PopFacts
    <2>2. i + 1 = j + 1  BY <1>1, <2>1 DEF PlacedAt, Alone
    <2> QED BY SMT, <2>1, <2>2
  <1> QED BY <1>1, <1>2 DEF SameQueue

(* Steps that move no connection: the control of the listener, a worker    *)
(* between two connections, the main thread.                               *)
LEMMA NothingMoves ==
  ASSUME IInv, UNCHANGED <<connVars, queue, cs, workers_may_exit>>,
         \A w \in Workers : wpc'[w] = wpc[w] \/ (wpc[w] \notin Busy /\ wpc'[w] \notin Busy),
         current' = current \/ (current \notin Conns /\ current' \notin Conns),
         \A c \in Conns : c \in events' => c \in events
  PROVE  Placed' /\ CountsExact'
  <1> USE DEF IInv
  <1>1. \A w \in Workers : cs'[w] = NoConn <=> wpc'[w] \notin Busy  BY DEF Placed
  <1>2. ASSUME NEW c \in Conns  PROVE PlacedAt(c)'
    <2>1. PlacedAt(c)  BY DEF Placed
    <2>2. \A w \in Workers : cs[w] = c => wpc[w] \in Busy
      BY Constants DEF Placed
    <2>3. SameSpot(c)  BY <2>2 DEF SameSpot, connVars
    <2> QED BY <2>1, <2>3, Elsewhere, QueueKept
  <1>3. CountsExact'  BY DEF CountsExact, Open, connVars
  <1> QED BY <1>1, <1>2, <1>3 DEF Placed

-----------------------------------------------------------------------------
(* The two counters. *)

(* A step that opens, closes and shuts down nothing. *)
LEMMA CountsSame ==
  ASSUME CountsExact, UNCHANGED <<connection_count, lingering_count>>,
         \A c \in Conns :
           \/ state'[c] = state[c]
           \/ /\ state[c] \notin {"closed", "accepted", "lingering"}
              /\ state'[c] \notin {"closed", "accepted", "lingering"}
           \/ state[c] \in {"closed", "accepted"} /\ state'[c] \in {"closed", "accepted"}
  PROVE  CountsExact'
  <1>1. Open' = Open /\ Lingering' = Lingering  BY DEF Open, Lingering
  <1> QED BY <1>1 DEF CountsExact, Lingering

(* The pools of open connections are given back. *)
LEMMA PoolsPushed ==
  ASSUME Typed, CountsExact, NEW S \in SUBSET Conns, push_pools(S), S \subseteq Open
  PROVE  CountsExact'
  <1> DEFINE L == {c \in S : state[c] = "lingering"}
  <1>1. /\ \A c \in Conns : state'[c] = IF c \in S THEN "closed" ELSE state[c]
        /\ connection_count' = connection_count - Cardinality(S)
        /\ lingering_count' = lingering_count - Cardinality(L)
    BY DEF push_pools
  <1>2. Open' = Open \ S /\ Lingering' = Lingering \ L
    BY <1>1 DEF Open, Lingering
  <1>3. S \subseteq Open /\ L \subseteq Lingering  BY DEF Lingering
  <1> HIDE DEF L
  <1>4. Cardinality(Open \ S) = Cardinality(Open) - Cardinality(S)
    <2>1. Open \intersect S = S  BY <1>3
    <2>2. Cardinality(Open \ S) = Cardinality(Open) - Cardinality(Open \intersect S)
      BY CountFacts, FS_Difference
    <2> QED BY <2>1, <2>2
  <1>5. Cardinality(Lingering \ L) = Cardinality(Lingering) - Cardinality(L)
    <2>1. Lingering \intersect L = L  BY <1>3
    <2>2. Cardinality(Lingering \ L)
            = Cardinality(Lingering) - Cardinality(Lingering \intersect L)
      BY CountFacts, FS_Difference
    <2> QED BY <2>1, <2>2
  <1>6. connection_count = Cardinality(Open) /\ lingering_count = Cardinality(Lingering)
    BY DEF CountsExact, Lingering
  <1>7. connection_count' = Cardinality(Open') /\ lingering_count' = Cardinality(Lingering')
    BY <1>1, <1>2, <1>4, <1>5, <1>6
  <1> QED BY <1>7 DEF CountsExact, Lingering

-----------------------------------------------------------------------------
(* The listener moves connections. *)

(* What poll() returns is parked, or the listening socket. *)
LEMMA PollPlaced ==
  ASSUME IInv, PollReady
  PROVE  Placed' /\ CountsExact'
  <1> USE DEF IInv
  <1>1. /\ UNCHANGED <<connVars, queue, current, wpc, cs, workers_may_exit>>
        /\ \A c \in Conns : c \in events' => c \in Parked
    BY Constants DEF PollReady, fdqueueVars, exitVars, workerVars
  <1>2. ASSUME NEW c \in Conns  PROVE PlacedAt(c)'
    <2>1. PlacedAt(c)  BY DEF Placed
    <2>2. SameSpot(c)  BY <1>1 DEF SameSpot, connVars
    <2> QED BY <1>1, <2>1, <2>2, Elsewhere, QueueKept
  <1>3. CountsExact'  BY <1>1 DEF CountsExact, Open, connVars
  <1> QED BY <1>1, <1>2, <1>3 DEF Placed

(* A closed connection is nowhere. *)
LEMMA ClosedIsNowhere ==
  ASSUME NEW c \in Conns, PlacedAt(c), state[c] = "closed", Placed
  PROVE  /\ c \notin Parked \union defer_linger_chain \union Waiting /\ c # current
         /\ \A w \in Workers : cs[w] # c
  <1>1. \A w \in Workers : cs[w] = c => wpc[w] \in Busy  BY Constants DEF Placed
  <1> QED BY <1>1 DEF PlacedAt, StateFits, Parked, Busy

(* A connection that was in no other place is pushed. *)
LEMMA NowWaiting ==
  ASSUME Typed, NEW b \in Conns, ap_queue_push_socket(b),
         UNCHANGED <<wc_q, ka_q, linger_q, defer_linger_chain, cs>>,
         b \notin Parked \union defer_linger_chain \union Waiting,
         \A w \in Workers : cs[w] # b,
         b # current', b \notin events',
         state'[b] \in {"accepted", "read", "wc", "lingering"}
  PROVE  PlacedAt(b)'
  <1>1. Parked' = Parked  BY DEF Parked
  <1>2. b \notin Parked' /\ b \notin defer_linger_chain'  BY <1>1
  <1>3. StateFits(b)'  BY <1>2 DEF StateFits, Parked
  <1>4. ASSUME ~Overrun'
        PROVE  /\ b \in Waiting'
               /\ \A i, j \in DOMAIN queue' : queue'[i] = b /\ queue'[j] = b => i = j
    <2>1. /\ Waiting' = Waiting \union {b}
          /\ \A i \in 1 .. Len(queue) : queue'[i] = queue[i]
      BY <1>4, PushFacts
    <2>2. /\ DOMAIN queue = 1 .. Len(queue) /\ Len(queue) \in Nat
          /\ DOMAIN queue' = 1 .. Len(queue) + 1
      BY PushFacts, SeqFacts DEF Typed
    <2>3. \A i \in 1 .. Len(queue) : queue'[i] # b
      BY <2>1, <2>2 DEF Waiting
    <2> QED BY SMT, <2>1, <2>2, <2>3
  <1>5. Alone(b)'  BY <1>2, <1>4 DEF Alone
  <1>6. Kept(b)'  BY <1>4 DEF Kept
  <1> QED BY <1>3, <1>5, <1>6 DEF PlacedAt

(* A new connection goes to the queue. *)
LEMMA AcceptPlaced ==
  ASSUME IInv, AcceptConn
  PROVE  Placed' /\ CountsExact'
  <1> USE DEF IInv
  <1>1. /\ UNCHANGED <<wc_q, ka_q, linger_q, defer_linger_chain, wpc, cs, workers_may_exit>>
        /\ UNCHANGED <<connection_count, lingering_count, events>>
        /\ current = Accept /\ current' = NoConn
    BY DEF AcceptConn, Listener, exitVars, workerVars
  <1>2. CASE UNCHANGED <<state, queue>>
    <2>1. UNCHANGED connVars  BY <1>1, <1>2 DEF connVars
    <2> QED BY <1>1, <1>2, <2>1, NothingMoves, Constants
  <1>3. ASSUME NEW b \in Conns, state[b] = "closed",
               state' = [state EXCEPT ![b] = "accepted"], ap_queue_push_socket(b)
        PROVE  Placed' /\ CountsExact'
    <2>1. PlacedAt(b)  BY DEF Placed
    <2>2. /\ b \notin Parked \union defer_linger_chain \union Waiting /\ b # current
          /\ \A w \in Workers : cs[w] # b
      BY <1>3, <2>1, ClosedIsNowhere
    <2>3. state'[b] = "accepted" /\ \A c \in Conns : c # b => state'[c] = state[c]
      BY <1>3 DEF Typed
    <2>4. ASSUME NEW c \in Conns, c # b  PROVE PlacedAt(c)'
      <3>1. PlacedAt(c)  BY DEF Placed
      <3>2. SameSpot(c)  BY <1>1, <2>3, <2>4, Constants DEF SameSpot
      <3>3. SameQueue(c)  BY <1>3, <2>4, <3>1, QueuePushed
      <3> QED BY <3>1, <3>2, <3>3, Elsewhere
    <2>5. PlacedAt(b)'
      <3>1. b # current' /\ b \notin events'
        BY <1>1, <2>1, <2>2, Constants DEF PlacedAt
      <3> QED BY <1>1, <1>3, <2>2, <2>3, <3>1, NowWaiting
    <2>6. CountsExact'  BY <1>1, <1>3, <2>3, CountsSame
    <2> QED BY <1>1, <2>4, <2>5, <2>6 DEF Placed
  <1> QED BY <1>2, <1>3 DEF AcceptConn

(* push2worker hands the connection in the listener's hands to the queue. *)
LEMMA PushPlaced ==
  ASSUME IInv, push2worker
  PROVE  Placed' /\ CountsExact'
  <1> USE DEF IInv
  <1>1. /\ UNCHANGED <<connVars, wpc, cs, workers_may_exit, events>>
        /\ current \in Conns /\ current' = NoConn
    BY DEF push2worker, Listener, exitVars, workerVars
  <1>2. PICK b \in Conns : b = current  BY <1>1
  <1>3. ap_queue_push_socket(b)  BY <1>2 DEF push2worker
  <1>4. PlacedAt(b)  BY DEF Placed
  <1>5. ASSUME NEW c \in Conns, c # b  PROVE PlacedAt(c)'
    <2>1. PlacedAt(c)  BY DEF Placed
    <2>2. SameSpot(c)  BY <1>1, <1>2, <1>5, Constants DEF SameSpot, connVars
    <2>3. SameQueue(c)  BY <1>3, <1>5, <2>1, QueuePushed
    <2> QED BY <2>1, <2>2, <2>3, Elsewhere
  <1>6. PlacedAt(b)'
    <2>1. /\ b \notin Parked \union defer_linger_chain \union Waiting
          /\ \A w \in Workers : cs[w] # b
          /\ b \notin events
      BY <1>2, <1>4 DEF PlacedAt, Alone
    <2>2. state'[b] \in {"accepted", "read", "wc", "lingering"}
      BY <1>1, <1>2, <1>4 DEF PlacedAt, StateFits, connVars
    <2> QED BY <1>1, <1>3, <2>1, <2>2, NowWaiting, Constants DEF connVars
  <1>7. CountsExact'  BY <1>1 DEF CountsExact, Open, connVars
  <1> QED BY <1>1, <1>5, <1>6, <1>7 DEF Placed

(* The empty element is not a connection. *)
LEMMA PushDeferredPlaced ==
  ASSUME IInv, PushDeferred
  PROVE  Placed' /\ CountsExact'
  <1> USE DEF IInv
  <1>1. UNCHANGED <<connVars, wpc, cs, workers_may_exit, events, current>>
    BY DEF PushDeferred, exitVars, workerVars
  <1>2. CASE UNCHANGED queue
    BY <1>1, <1>2, NothingMoves
  <1>3. CASE ap_queue_push_socket(NoConn)
    <2>1. ASSUME NEW c \in Conns  PROVE PlacedAt(c)'
      <3>1. PlacedAt(c)  BY DEF Placed
      <3>2. SameSpot(c)  BY <1>1 DEF SameSpot, connVars
      <3>3. SameQueue(c)  BY <1>3, <3>1, QueuePushed, Constants
      <3> QED BY <3>1, <3>2, <3>3, Elsewhere
    <2>2. CountsExact'  BY <1>1 DEF CountsExact, Open, connVars
    <2> QED BY <1>1, <2>1, <2>2 DEF Placed
  <1> QED BY <1>2, <1>3 DEF PushDeferred

(* A connection from a timeout queue comes into the listener's hands. *)
LEMMA NowCurrent ==
  ASSUME Typed, Placed, NEW b \in Conns, b \in Parked, b \notin Parked', b \notin events',
         UNCHANGED <<queue, cs, defer_linger_chain>>, current' = b,
         state'[b] \in {"read", "wc", "lingering"}
  PROVE  PlacedAt(b)'
  <1>1. PlacedAt(b)  BY DEF Placed
  <1>2. Waiting' = Waiting /\ (Overrun' <=> Overrun)  BY DEF Waiting, Overrun
  <1>3. /\ b \notin defer_linger_chain \union Waiting
        /\ \A w \in Workers : cs[w] # b
    BY <1>1 DEF PlacedAt, Alone
  <1>4. StateFits(b)'  BY <1>2, <1>3 DEF StateFits, Parked
  <1>5. Alone(b)'
    <2>1. ~Overrun => \A i, j \in DOMAIN queue : queue[i] = b /\ queue[j] = b => i = j
      BY <1>1 DEF PlacedAt, Alone
    <2> QED BY <1>2, <1>3, <2>1 DEF Alone
  <1>6. Kept(b)'  BY DEF Kept
  <1> QED BY <1>4, <1>5, <1>6 DEF PlacedAt

(* Output is to be completed: the connection leaves the queue. *)
LEMMA WritePlaced ==
  ASSUME IInv, NEW b \in Conns, WriteEvent(b)
  PROVE  Placed' /\ CountsExact'
  <1> USE DEF IInv
  <1>1. /\ UNCHANGED <<state, ka_q, linger_q, defer_linger_chain, connection_count,
                       lingering_count, queue, wpc, cs, workers_may_exit>>
        /\ wc_q' = wc_q \ {b} /\ events' = events \ {b} /\ current' = b
        /\ current = NoConn /\ b \in events /\ state[b] = "wc"
    BY DEF WriteEvent, Listener, exitVars, workerVars
  <1>2. PlacedAt(b)  BY DEF Placed
  <1>3. b \in wc_q /\ b \notin Parked'
    BY <1>1, <1>2 DEF PlacedAt, StateFits, Parked
  <1>4. PlacedAt(b)'
    BY <1>1, <1>3, NowCurrent DEF Parked
  <1>5. ASSUME NEW c \in Conns, c # b  PROVE PlacedAt(c)'
    <2>1. PlacedAt(c)  BY DEF Placed
    <2>2. SameSpot(c)  BY <1>1, <1>5, Constants DEF SameSpot
    <2> QED BY <1>1, <2>1, <2>2, Elsewhere, QueueKept
  <1>6. CountsExact'  BY <1>1 DEF CountsExact, Open
  <1> QED BY <1>1, <1>4, <1>5, <1>6 DEF Placed

(* A connection from a timeout queue joins the deferred closes. *)
LEMMA NowDeferred ==
  ASSUME Typed, Placed, NEW b \in Conns, b \in Parked, b \notin Parked', b \notin events',
         UNCHANGED <<queue, cs, current>>, b \in defer_linger_chain',
         state'[b] \in {"read", "ka", "wc"}
  PROVE  PlacedAt(b)'
  <1>1. PlacedAt(b)  BY DEF Placed
  <1>2. Waiting' = Waiting /\ (Overrun' <=> Overrun)  BY DEF Waiting, Overrun
  <1>3. b \notin Waiting /\ b # current /\ \A w \in Workers : cs[w] # b
    BY <1>1 DEF PlacedAt, Alone
  <1>4. StateFits(b)'  BY <1>2, <1>3 DEF StateFits, Parked
  <1>5. Alone(b)'
    <2>1. ~Overrun => \A i, j \in DOMAIN queue : queue[i] = b /\ queue[j] = b => i = j
      BY <1>1 DEF PlacedAt, Alone
    <2> QED BY <1>2, <1>3, <2>1 DEF Alone
  <1>6. Kept(b)'  BY DEF Kept
  <1> QED BY <1>4, <1>5, <1>6 DEF PlacedAt

(* A connection that is in no place any more is closed. *)
LEMMA NowClosed ==
  ASSUME NEW b \in Conns, PlacedAt(b), state'[b] = "closed",
         b \notin Parked' \union defer_linger_chain' \union events', b # current',
         \A w \in Workers : cs'[w] # b,
         UNCHANGED queue, b \notin Waiting
  PROVE  PlacedAt(b)'
  <1>1. Waiting' = Waiting /\ (Overrun' <=> Overrun)  BY DEF Waiting, Overrun
  <1>2. StateFits(b)'  BY <1>1 DEF StateFits, Parked
  <1>3. Alone(b)'
    <2>1. ~Overrun => \A i, j \in DOMAIN queue : queue[i] = b /\ queue[j] = b => i = j
      BY DEF PlacedAt, Alone
    <2> QED BY <1>1, <2>1 DEF Alone
  <1>4. Kept(b)'  BY DEF Kept
  <1> QED BY <1>2, <1>3, <1>4 DEF PlacedAt

(* A request, or data to be dropped, on a parked connection. *)
LEMMA ReadPlaced ==
  ASSUME IInv, NEW b \in Conns, ReadEvent(b)
  PROVE  Placed' /\ CountsExact'
  <1> USE DEF IInv
  <1>1. /\ UNCHANGED <<wc_q, queue, wpc, cs, workers_may_exit>>
        /\ ka_q' = ka_q \ {b} /\ linger_q' = linger_q \ {b} /\ events' = events \ {b}
        /\ current = NoConn /\ b \in events /\ state[b] \in {"ka", "lingering"}
    BY DEF ReadEvent, Listener, exitVars, workerVars
  <1>2. PlacedAt(b)  BY DEF Placed
  <1>3. b \in Parked /\ b \notin wc_q  BY <1>1, <1>2 DEF PlacedAt, StateFits
  <1>4. b \notin Parked'  BY <1>1, <1>3 DEF Parked
  <1>5. /\ b \notin defer_linger_chain \union Waiting
        /\ \A w \in Workers : cs[w] # b
    BY <1>2, <1>3 DEF PlacedAt, Alone
  <1>6. ASSUME \A c \in Conns : c # b => state'[c] = state[c],
               \A c \in Conns : c # b => (c \in defer_linger_chain' <=> c \in defer_linger_chain),
               current' \in {current, b}
        PROVE  \A c \in Conns : c # b => PlacedAt(c)'
    <2> SUFFICES ASSUME NEW c \in Conns, c # b  PROVE PlacedAt(c)'
      OBVIOUS
    <2>1. PlacedAt(c)  BY DEF Placed
    <2>2. SameSpot(c)  BY <1>1, <1>6, Constants DEF SameSpot
    <2> QED BY <1>1, <2>1, <2>2, Elsewhere, QueueKept
  <1>7. CASE GotWorker
    <2>1. /\ current' = b
          /\ state' = [state EXCEPT ![b] = IF state[b] = "ka" THEN "read" ELSE state[b]]
          /\ UNCHANGED <<defer_linger_chain, connection_count, lingering_count>>
      BY <1>7 DEF ReadEvent
    <2>2. /\ state[b] = "ka" => state'[b] = "read"
          /\ state[b] = "lingering" => state'[b] = "lingering"
          /\ \A c \in Conns : c # b => state'[c] = state[c]
      BY <2>1 DEF Typed
    <2>3. PlacedAt(b)'  BY <1>1, <1>3, <1>4, <2>1, <2>2, NowCurrent
    <2>4. CountsExact'  BY <1>1, <2>1, <2>2, CountsSame
    <2> QED BY <1>1, <1>6, <2>1, <2>2, <2>3, <2>4 DEF Placed
  <1>8. CASE ~GotWorker /\ state[b] = "ka"
    <2>1. /\ current' = current /\ state' = [state EXCEPT ![b] = "read"]
          /\ defer_linger_chain' = defer_linger_chain \union {b}
          /\ UNCHANGED <<connection_count, lingering_count>>
      BY <1>8 DEF ReadEvent
    <2>2. state'[b] = "read" /\ \A c \in Conns : c # b => state'[c] = state[c]
      BY <2>1 DEF Typed
    <2>3. PlacedAt(b)'  BY <1>1, <1>3, <1>4, <2>1, <2>2, NowDeferred
    <2>4. CountsExact'  BY <1>8, <2>1, <2>2, CountsSame
    <2> QED BY <1>1, <1>6, <2>1, <2>2, <2>3, <2>4 DEF Placed
  <1>9. CASE ~GotWorker /\ state[b] = "lingering"
    <2>1. current' = current /\ push_pools({b}) /\ UNCHANGED defer_linger_chain
      BY <1>9 DEF ReadEvent, stop_lingering_close
    <2>2. state'[b] = "closed" /\ \A c \in Conns : c # b => state'[c] = state[c]
      BY <2>1 DEF push_pools
    <2>3. PlacedAt(b)'
      BY <1>1, <1>2, <1>4, <1>5, <2>1, <2>2, NowClosed, Constants
    <2>4. CountsExact'
      <3>1. {b} \in SUBSET Conns /\ {b} \subseteq Open  BY <1>9 DEF Open
      <3> QED BY <2>1, <3>1, PoolsPushed
    <2> QED BY <1>1, <1>6, <2>1, <2>2, <2>3, <2>4 DEF Placed
  <1> QED BY <1>1, <1>7, <1>8, <1>9

(* Connections of a timeout queue are deferred. *)
LEMMA ManyDeferred ==
  ASSUME IInv, NEW S \in SUBSET Conns, S \subseteq ka_q \/ S \subseteq wc_q,
         wc_q' = wc_q \ S, ka_q' = ka_q \ S, events = {},
         defer_linger_chain' = defer_linger_chain \union S,
         UNCHANGED <<state, linger_q, connection_count, lingering_count, queue, cs, wpc,
                     current, events, workers_may_exit>>
  PROVE  Placed' /\ CountsExact'
  <1> USE DEF IInv
  <1>1. ASSUME NEW c \in Conns, c \in S  PROVE PlacedAt(c)'
    <2>1. PlacedAt(c)  BY DEF Placed
    <2>2. state[c] \in {"ka", "wc"} /\ c \in Parked /\ c \notin linger_q
      BY <1>1, <2>1 DEF PlacedAt, StateFits, Parked
    <2>3. c \notin Parked'  BY <1>1, <2>2 DEF Parked
    <2> QED BY <1>1, <2>2, <2>3, NowDeferred
  <1>2. ASSUME NEW c \in Conns, c \notin S  PROVE PlacedAt(c)'
    <2>1. PlacedAt(c)  BY DEF Placed
    <2>2. SameSpot(c)  BY <1>2 DEF SameSpot
    <2> QED BY <2>1, <2>2, Elsewhere, QueueKept
  <1>3. CountsExact'  BY DEF CountsExact, Open
  <1> QED BY <1>1, <1>2, <1>3 DEF Placed

(* process_timeout_queue and process_keepalive_queue. *)
LEMMA ExpiryPlaced ==
  ASSUME IInv, NEW S \in SUBSET Conns,
         SkipExpiry \/ ProcessKeepalives(S) \/ ProcessWriteCompletions(S) \/ ProcessLingering(S)
  PROVE  Placed' /\ CountsExact'
  <1> USE DEF IInv
  <1>0. \A c \in Conns : PlacedAt(c)  BY DEF Placed
  <1>1. ka_q \intersect wc_q = {}
    BY <1>0 DEF PlacedAt, StateFits, Typed
  <1>2. CASE SkipExpiry
    <2> DEFINE K == IF workers_were_busy \/ dying THEN ka_q ELSE {}
    <2>1. K \in SUBSET Conns /\ K \subseteq ka_q  BY DEF Typed
    <2>2. /\ ka_q' = ka_q \ K /\ defer_linger_chain' = defer_linger_chain \union K
          /\ events = {}
          /\ UNCHANGED <<state, wc_q, linger_q, connection_count, lingering_count, queue, cs,
                         wpc, current, events, workers_may_exit>>
      BY <1>2 DEF SkipExpiry, fdqueueVars, exitVars, workerVars
    <2> HIDE DEF K
    <2>3. wc_q' = wc_q \ K  BY <1>1, <2>1, <2>2
    <2> QED BY <2>1, <2>2, <2>3, ManyDeferred
  <1>3. CASE ProcessKeepalives(S)
    <2>1. /\ ka_q' = ka_q \ S /\ defer_linger_chain' = defer_linger_chain \union S
          /\ S \subseteq ka_q /\ events = {}
          /\ UNCHANGED <<state, wc_q, linger_q, connection_count, lingering_count, queue, cs,
                         wpc, current, events, workers_may_exit>>
      BY <1>3 DEF ProcessKeepalives, Expiring, exitVars, workerVars
    <2>2. wc_q' = wc_q \ S  BY <1>1, <2>1
    <2> QED BY <2>1, <2>2, ManyDeferred
  <1>4. CASE ProcessWriteCompletions(S)
    <2>1. /\ wc_q' = wc_q \ S /\ defer_linger_chain' = defer_linger_chain \union S
          /\ S \subseteq wc_q /\ events = {}
          /\ UNCHANGED <<state, ka_q, linger_q, connection_count, lingering_count, queue, cs,
                         wpc, current, events, workers_may_exit>>
      BY <1>4 DEF ProcessWriteCompletions, Expiring, exitVars, workerVars, Listener
    <2>2. ka_q' = ka_q \ S  BY <1>1, <2>1
    <2> QED BY <2>1, <2>2, ManyDeferred
  <1>5. CASE ProcessLingering(S)
    <2>1. /\ linger_q' = linger_q \ S /\ push_pools(S) /\ S \subseteq linger_q /\ events = {}
          /\ UNCHANGED <<ka_q, wc_q, defer_linger_chain, queue, cs, wpc, current, events,
                         workers_may_exit>>
          /\ current = NoConn
      BY <1>5 DEF ProcessLingering, stop_lingering_close, Expiring, exitVars, workerVars, Listener
    <2>2. \A c \in Conns : state'[c] = IF c \in S THEN "closed" ELSE state[c]
      BY <2>1 DEF push_pools
    <2>3. ASSUME NEW c \in Conns, c \in S  PROVE PlacedAt(c)'
      <3>1. PlacedAt(c)  BY DEF Placed
      <3>2. state[c] = "lingering" /\ c \in Parked /\ c \notin ka_q \union wc_q
        BY <2>1, <2>3, <3>1 DEF PlacedAt, StateFits, Parked
      <3>3. c \notin Parked'  BY <2>1, <2>3, <3>2 DEF Parked
      <3>4. /\ c \notin defer_linger_chain \union Waiting
            /\ \A w \in Workers : cs[w] # c
        BY <3>1, <3>2 DEF PlacedAt, Alone
      <3> QED BY <2>1, <2>2, <2>3, <3>1, <3>3, <3>4, NowClosed, Constants
    <2>4. ASSUME NEW c \in Conns, c \notin S  PROVE PlacedAt(c)'
      <3>1. PlacedAt(c)  BY DEF Placed
      <3>2. SameSpot(c)  BY <2>1, <2>2, <2>4 DEF SameSpot
      <3> QED BY <2>1, <3>1, <3>2, Elsewhere, QueueKept
    <2>5. CountsExact'
      <3>1. S \subseteq Open  BY <1>0, <2>1 DEF PlacedAt, StateFits, Open
      <3> QED BY <2>1, <3>1, PoolsPushed
    <2> QED BY <2>1, <2>3, <2>4, <2>5 DEF Placed
  <1> QED BY <1>2, <1>3, <1>4, <1>5

-----------------------------------------------------------------------------
(* The workers move connections. *)

(* The connection a worker is busy with is nowhere else. *)
LEMMA Holding ==
  ASSUME IInv, NEW w \in Workers, wpc[w] \in Busy
  PROVE  /\ cs[w] \in Conns /\ PlacedAt(cs[w])
         /\ cs[w] \notin Parked \union defer_linger_chain \union Waiting \union events
         /\ cs[w] # current
         /\ \A v \in Workers : cs[v] = cs[w] => v = w
  <1> USE DEF IInv
  <1>1. cs[w] \in Conns  BY DEF Placed, Typed
  <1>2. PICK b \in Conns : b = cs[w]  BY <1>1
  <1>3. PlacedAt(b)  BY DEF Placed
  <1>4. /\ b \notin Parked \union defer_linger_chain \union Waiting /\ b # current
        /\ \A v \in Workers : cs[v] = b => v = w
    BY <1>2, <1>3 DEF PlacedAt, Alone
  <1>5. b \notin events  BY <1>3, <1>4 DEF PlacedAt
  <1> QED BY <1>2, <1>3, <1>4, <1>5

(* What it does with it concerns no other connection. *)
LEMMA OthersStay ==
  ASSUME IInv, NEW w \in Workers, NEW b \in Conns, cs[w] = b, NEW l, GoTo(w, l),
         \/ UNCHANGED cs /\ l \in Busy
         \/ cs' = [cs EXCEPT ![w] = NoConn] /\ l \notin Busy,
         UNCHANGED <<queue, defer_linger_chain, events, current, workers_may_exit>>,
         \A c \in Conns : c # b =>
           /\ state'[c] = state[c]
           /\ c \in wc_q' <=> c \in wc_q
           /\ c \in ka_q' <=> c \in ka_q
           /\ c \in linger_q' <=> c \in linger_q
  PROVE  /\ \A c \in Conns : c # b => PlacedAt(c)'
         /\ \A v \in Workers : cs'[v] = NoConn <=> wpc'[v] \notin Busy
         /\ wpc'[w] = l /\ \A v \in Workers : v # w => cs'[v] = cs[v]
         /\ l \notin Busy => cs'[w] = NoConn
  <1> USE DEF IInv
  <1>1. /\ wpc'[w] = l /\ \A v \in Workers : v # w => wpc'[v] = wpc[v]
        /\ \A v \in Workers : v # w => cs'[v] = cs[v]
        /\ (cs'[w] = b /\ l \in Busy) \/ (cs'[w] = NoConn /\ l \notin Busy)
    BY DEF Typed, GoTo
  <1>2. ASSUME NEW c \in Conns, c # b  PROVE PlacedAt(c)'
    <2>1. PlacedAt(c)  BY DEF Placed
    <2>2. SameSpot(c)
      <3>1. \A v \in Workers : cs'[v] = c <=> cs[v] = c
        BY <1>1, <1>2, Constants
      <3>2. \A v \in Workers : cs[v] = c => wpc'[v] = wpc[v]
        BY <1>1, <1>2
      <3> QED BY <1>2, <3>1, <3>2 DEF SameSpot
    <2> QED BY <2>1, <2>2, Elsewhere, QueueKept
  <1>3. \A v \in Workers : cs'[v] = NoConn <=> wpc'[v] \notin Busy
    BY <1>1, Constants DEF Placed
  <1> QED BY <1>1, <1>2, <1>3

(* The worker still has the connection. *)
LEMMA StillHeld ==
  ASSUME IInv, NEW w \in Workers, NEW b \in Conns, cs[w] = b, wpc[w] \in Busy,
         UNCHANGED <<wc_q, ka_q, linger_q, defer_linger_chain, queue, cs, current, events>>,
         \/ wpc'[w] = "serve" /\ state'[b] \in {"read", "wc"}
         \/ wpc'[w] = "linger" /\ state'[b] = "linger"
         \/ wpc'[w] = "drain" /\ state'[b] = "lingering"
  PROVE  PlacedAt(b)'
  <1>1. /\ b \notin Parked \union defer_linger_chain \union Waiting \union events
        /\ b # current /\ PlacedAt(b)
        /\ \A v \in Workers : cs[v] = b => v = w
    BY Holding
  <1>2. Waiting' = Waiting /\ (Overrun' <=> Overrun) /\ Parked' = Parked
    BY DEF Waiting, Overrun, Parked
  <1>3. StateFits(b)'
    <2>1. \A v \in Workers : cs'[v] = b =>
            /\ wpc'[v] = "start" => state'[b] \in {"accepted", "read", "wc", "lingering"}
            /\ wpc'[v] = "serve" => state'[b] \in {"read", "wc"}
            /\ wpc'[v] = "linger" => state'[b] = "linger"
            /\ wpc'[v] = "drain" => state'[b] = "lingering"
      BY <1>1
    <2> QED BY <1>1, <1>2, <2>1 DEF StateFits, Parked
  <1>4. Alone(b)'
    <2>1. ~Overrun => \A i, j \in DOMAIN queue : queue[i] = b /\ queue[j] = b => i = j
      BY <1>1 DEF PlacedAt, Alone
    <2> QED BY <1>1, <1>2, <2>1 DEF Alone
  <1>5. Kept(b)'  BY DEF Kept
  <1> QED BY <1>1, <1>3, <1>4, <1>5 DEF PlacedAt

(* The worker has put it into a timeout queue. *)
LEMMA NowParked ==
  ASSUME IInv, NEW w \in Workers, NEW b \in Conns, cs[w] = b, wpc[w] \in Busy,
         cs' = [cs EXCEPT ![w] = NoConn],
         UNCHANGED <<defer_linger_chain, queue, current, events>>,
         \/ /\ wc_q' = wc_q \union {b} /\ UNCHANGED <<ka_q, linger_q>> /\ state'[b] = "wc"
         \/ /\ ka_q' = ka_q \union {b} /\ UNCHANGED <<wc_q, linger_q>> /\ state'[b] = "ka"
         \/ /\ linger_q' = linger_q \union {b} /\ UNCHANGED <<wc_q, ka_q>>
            /\ state'[b] = "lingering"
  PROVE  PlacedAt(b)'
  <1>1. /\ b \notin Parked \union defer_linger_chain \union Waiting \union events
        /\ b # current /\ PlacedAt(b)
        /\ \A v \in Workers : cs[v] = b => v = w
    BY Holding
  <1>2. Waiting' = Waiting /\ (Overrun' <=> Overrun) /\ b \in Parked'
    BY DEF Waiting, Overrun, Parked
  <1>3. \A v \in Workers : cs'[v] # b  BY <1>1, Constants DEF IInv, Typed
  <1>4. StateFits(b)'  BY <1>1, <1>2, <1>3 DEF StateFits, Parked
  <1>5. Alone(b)'
    <2>1. ~Overrun => \A i, j \in DOMAIN queue : queue[i] = b /\ queue[j] = b => i = j
      BY <1>1 DEF PlacedAt, Alone
    <2> QED BY <1>1, <1>2, <1>3, <2>1 DEF Alone
  <1>6. Kept(b)'  BY <1>2 DEF Kept
  <1> QED BY <1>2, <1>4, <1>5, <1>6 DEF PlacedAt

(* The worker has closed it. *)
LEMMA NowGone ==
  ASSUME IInv, NEW w \in Workers, NEW b \in Conns, cs[w] = b, wpc[w] \in Busy,
         cs' = [cs EXCEPT ![w] = NoConn], state'[b] = "closed",
         UNCHANGED <<wc_q, ka_q, linger_q, defer_linger_chain, queue, current, events>>
  PROVE  PlacedAt(b)'
  <1>1. /\ b \notin Parked \union defer_linger_chain \union Waiting \union events
        /\ b # current /\ PlacedAt(b)
        /\ \A v \in Workers : cs[v] = b => v = w
    BY Holding
  <1>2. \A v \in Workers : cs'[v] # b  BY <1>1, Constants DEF IInv, Typed
  <1>3. b \notin Parked'  BY <1>1 DEF Parked
  <1> QED BY <1>1, <1>2, <1>3, NowClosed

(* The worker keeps its connection, and goes on with it. *)
LEMMA OthersStayPut ==
  ASSUME IInv, NEW w \in Workers, NEW b \in Conns, b = cs[w], NEW l \in Busy, GoTo(w, l),
         UNCHANGED <<cs, wc_q, ka_q, linger_q, defer_linger_chain>>,
         UNCHANGED <<queue, events, current, workers_may_exit>>,
         \A c \in Conns : c # b => state'[c] = state[c]
  PROVE  /\ \A c \in Conns : c # b => PlacedAt(c)'
         /\ \A v \in Workers : cs'[v] = NoConn <=> wpc'[v] \notin Busy
         /\ wpc'[w] = l
  <1>1. \A c \in Conns : c # b =>
           /\ state'[c] = state[c]
           /\ c \in wc_q' <=> c \in wc_q
           /\ c \in ka_q' <=> c \in ka_q
           /\ c \in linger_q' <=> c \in linger_q
    OBVIOUS
  <1> QED BY SMTT(60), <1>1, OthersStay

(* process_socket on a connection that is new, or back. *)
LEMMA StartPlaced ==
  ASSUME IInv, NEW w \in Workers, Start(w)
  PROVE  Placed' /\ CountsExact'
  <1> USE DEF IInv
  <1>1. wpc[w] = "start" /\ wpc[w] \in Busy  BY DEF Start, Busy
  <1>2. PICK b \in Conns : b = cs[w]  BY <1>1, Holding
  <1>3. PlacedAt(b)  BY DEF Placed
  <1>4. state[b] \in {"accepted", "read", "wc", "lingering"}
    BY <1>1, <1>2, <1>3 DEF PlacedAt, StateFits
  <1>5. /\ UNCHANGED <<wc_q, ka_q, linger_q, defer_linger_chain, lingering_count, queue>>
        /\ UNCHANGED <<current, events, workers_may_exit>>
    BY DEF Start, fdqueueVars, exitVars, listenerVars
  <1>6. CASE /\ state[b] = "accepted" /\ state' = [state EXCEPT ![b] = "read"]
             /\ connection_count' = connection_count + 1 /\ GoTo(w, "serve") /\ UNCHANGED cs
    <2>1. state'[b] = "read" /\ \A c \in Conns : c # b => state'[c] = state[c]
      BY <1>6 DEF Typed
    <2>5. /\ "serve" \in Busy /\ GoTo(w, "serve")
          /\ UNCHANGED <<cs, wc_q, ka_q, linger_q, defer_linger_chain>>
          /\ \A c \in Conns : c # b => state'[c] = state[c]
      BY <1>5, <1>6, <2>1 DEF Busy
    <2>2. /\ \A c \in Conns : c # b => PlacedAt(c)'
          /\ \A v \in Workers : cs'[v] = NoConn <=> wpc'[v] \notin Busy
          /\ wpc'[w] = "serve"
      BY <1>2, <1>5, <2>5, OthersStayPut
    <2>3. PlacedAt(b)'  BY <1>1, <1>2, <1>5, <1>6, <2>1, <2>2, StillHeld
    <2>4. CountsExact'
      <3>1. Open' = Open \union {b} /\ b \notin Open /\ Lingering' = Lingering
        BY <1>6, <2>1 DEF Open, Lingering
      <3>2. Cardinality(Open') = Cardinality(Open) + 1
        BY <3>1, CountFacts, FS_AddElement
      <3> QED BY <1>5, <1>6, <3>1, <3>2 DEF CountsExact, Lingering
    <2> QED BY <2>2, <2>3, <2>4 DEF Placed
  <1>7. CASE /\ state[b] = "accepted" /\ state' = [state EXCEPT ![b] = "closed"]
             /\ GoTo(w, "defer") /\ cs' = [cs EXCEPT ![w] = NoConn]
             /\ UNCHANGED connection_count
    <2>1. state'[b] = "closed" /\ \A c \in Conns : c # b => state'[c] = state[c]
      BY <1>7 DEF Typed
    <2>2. /\ \A c \in Conns : c # b => PlacedAt(c)'
          /\ \A v \in Workers : cs'[v] = NoConn <=> wpc'[v] \notin Busy
      BY <1>2, <1>5, <1>7, <2>1, OthersStay DEF Busy
    <2>3. PlacedAt(b)'  BY <1>1, <1>2, <1>5, <1>7, <2>1, NowGone
    <2>4. CountsExact'  BY <1>5, <1>7, <2>1, CountsSame
    <2> QED BY <2>2, <2>3, <2>4 DEF Placed
  <1>8. CASE /\ state[b] # "accepted"
             /\ GoTo(w, IF state[b] = "lingering" THEN "drain" ELSE "serve")
             /\ UNCHANGED <<state, connection_count, cs>>
    <2>1. PICK l \in {"drain", "serve"} : GoTo(w, l) /\ (l = "drain" <=> state[b] = "lingering")
      BY <1>8
    <2>2. /\ \A c \in Conns : c # b => PlacedAt(c)'
          /\ \A v \in Workers : cs'[v] = NoConn <=> wpc'[v] \notin Busy
          /\ wpc'[w] = l
      BY <1>2, <1>5, <1>8, <2>1, OthersStay DEF Busy
    <2>3. PlacedAt(b)'  BY <1>1, <1>2, <1>4, <1>5, <1>8, <2>1, <2>2, StillHeld
    <2>4. CountsExact'  BY <1>5, <1>8, CountsSame
    <2> QED BY <2>2, <2>3, <2>4 DEF Placed
  <1> QED BY <1>2, <1>6, <1>7, <1>8 DEF Start

(* The request has been answered. *)
LEMMA ServePlaced ==
  ASSUME IInv, NEW w \in Workers, Serve(w)
  PROVE  Placed' /\ CountsExact'
  <1> USE DEF IInv
  <1>1. wpc[w] = "serve" /\ wpc[w] \in Busy  BY DEF Serve, Busy
  <1>2. PICK b \in Conns : b = cs[w]  BY <1>1, Holding
  <1>3. PlacedAt(b)  BY DEF Placed
  <1>4. state[b] \in {"read", "wc"}
    BY <1>1, <1>2, <1>3 DEF PlacedAt, StateFits
  <1>5. /\ UNCHANGED <<linger_q, defer_linger_chain, connection_count, lingering_count, queue>>
        /\ UNCHANGED <<current, events, workers_may_exit>>
    BY DEF Serve, fdqueueVars, exitVars, listenerVars
  <1>6. PICK s \in {"wc", "ka", "linger"} :
          /\ state' = [state EXCEPT ![b] = s]
          /\ s = "wc" => wc_q' = wc_q \union {b} /\ UNCHANGED ka_q /\ Leave(w)
          /\ s = "ka" => ka_q' = ka_q \union {b} /\ UNCHANGED wc_q /\ Leave(w)
          /\ s = "linger" => GoTo(w, "linger") /\ UNCHANGED <<wc_q, ka_q, cs>>
    BY <1>2 DEF Serve
  <1>7. state'[b] = s /\ \A c \in Conns : c # b => state'[c] = state[c]
    BY <1>6 DEF Typed
  <1>8. CountsExact'  BY <1>4, <1>5, <1>7, CountsSame
  <1>9. CASE s = "linger"
    <2>1. /\ "linger" \in Busy /\ GoTo(w, "linger")
          /\ UNCHANGED <<cs, wc_q, ka_q, linger_q, defer_linger_chain>>
          /\ \A c \in Conns : c # b => state'[c] = state[c]
      BY <1>5, <1>6, <1>7, <1>9 DEF Busy
    <2>2. /\ \A c \in Conns : c # b => PlacedAt(c)'
          /\ \A v \in Workers : cs'[v] = NoConn <=> wpc'[v] \notin Busy
          /\ wpc'[w] = "linger"
      BY <1>2, <1>5, <2>1, OthersStayPut
    <2>3. PlacedAt(b)'  BY <1>1, <1>2, <1>5, <1>6, <1>7, <1>9, <2>2, StillHeld
    <2> QED BY <1>8, <2>2, <2>3 DEF Placed
  <1>10. CASE s \in {"wc", "ka"}
    <2>1. GoTo(w, "defer") /\ cs' = [cs EXCEPT ![w] = NoConn]
      BY <1>6, <1>10 DEF Leave
    <2>4. /\ \A c \in Conns : c # b =>
               /\ state'[c] = state[c]
               /\ c \in wc_q' <=> c \in wc_q
               /\ c \in ka_q' <=> c \in ka_q
               /\ c \in linger_q' <=> c \in linger_q
          /\ "defer" \notin Busy
      BY <1>5, <1>6, <1>7, <1>10 DEF Busy
    <2>2. /\ \A c \in Conns : c # b => PlacedAt(c)'
          /\ \A v \in Workers : cs'[v] = NoConn <=> wpc'[v] \notin Busy
      BY <1>2, <1>5, <2>1, <2>4, OthersStay
    <2>3. PlacedAt(b)'  BY <1>1, <1>2, <1>5, <1>6, <1>7, <1>10, <2>1, NowParked
    <2> QED BY <1>8, <2>2, <2>3 DEF Placed
  <1> QED BY <1>9, <1>10

(* A worker closes its connection. *)
LEMMA ClosePlaced ==
  ASSUME IInv, NEW w \in Workers, wpc[w] \in {"linger", "drain"}, CloseConn(w),
         UNCHANGED <<wc_q, ka_q, defer_linger_chain, queue, current, events, workers_may_exit>>
  PROVE  Placed' /\ CountsExact'
  <1> USE DEF IInv
  <1>1. wpc[w] \in Busy  BY DEF Busy
  <1>2. PICK b \in Conns : b = cs[w]  BY <1>1, Holding
  <1>3. PlacedAt(b)  BY DEF Placed
  <1>4. state[b] \in {"linger", "lingering"}
    BY <1>2, <1>3 DEF PlacedAt, StateFits
  <1>5. /\ push_pools({b}) /\ cs' = [cs EXCEPT ![w] = NoConn] /\ GoTo(w, "defer")
        /\ UNCHANGED linger_q
    BY <1>2 DEF CloseConn, Leave
  <1>6. state'[b] = "closed" /\ \A c \in Conns : c # b => state'[c] = state[c]
    BY <1>5 DEF push_pools
  <1>7. /\ \A c \in Conns : c # b => PlacedAt(c)'
        /\ \A v \in Workers : cs'[v] = NoConn <=> wpc'[v] \notin Busy
    BY <1>2, <1>5, <1>6, OthersStay DEF Busy
  <1>8. PlacedAt(b)'  BY <1>1, <1>2, <1>5, <1>6, NowGone
  <1>9. CountsExact'
    <2>1. {b} \in SUBSET Conns /\ {b} \subseteq Open  BY <1>4 DEF Open
    <2> QED BY <1>5, <2>1, PoolsPushed
  <1> QED BY <1>7, <1>8, <1>9 DEF Placed

(* start_lingering_close_blocking and process_lingering_close *)
LEMMA LingerPlaced ==
  ASSUME IInv, NEW w \in Workers, Linger(w) \/ Drain(w)
  PROVE  Placed' /\ CountsExact'
  <1> USE DEF IInv
  <1>1. wpc[w] \in {"linger", "drain"} /\ wpc[w] \in Busy  BY DEF Linger, Drain, Busy
  <1>2. PICK b \in Conns : b = cs[w]  BY <1>1, Holding
  <1>3. PlacedAt(b)  BY DEF Placed
  <1>4. /\ wpc[w] = "linger" => state[b] = "linger"
        /\ wpc[w] = "drain" => state[b] = "lingering"
    BY <1>2, <1>3 DEF PlacedAt, StateFits
  <1>5. UNCHANGED <<wc_q, ka_q, defer_linger_chain, queue, current, events, workers_may_exit>>
    BY DEF Linger, Drain, fdqueueVars, exitVars, listenerVars
  <1>6. CASE CloseConn(w)  BY <1>1, <1>5, <1>6, ClosePlaced
  <1>7. CASE /\ wpc[w] = "linger" /\ state' = [state EXCEPT ![b] = "lingering"]
             /\ lingering_count' = lingering_count + 1 /\ GoTo(w, "drain")
             /\ UNCHANGED <<linger_q, connection_count, cs>>
    <2>1. state'[b] = "lingering" /\ \A c \in Conns : c # b => state'[c] = state[c]
      BY <1>7 DEF Typed
    <2>5. /\ "drain" \in Busy /\ GoTo(w, "drain")
          /\ UNCHANGED <<cs, wc_q, ka_q, linger_q, defer_linger_chain>>
          /\ \A c \in Conns : c # b => state'[c] = state[c]
      BY <1>5, <1>7, <2>1 DEF Busy
    <2>2. /\ \A c \in Conns : c # b => PlacedAt(c)'
          /\ \A v \in Workers : cs'[v] = NoConn <=> wpc'[v] \notin Busy
          /\ wpc'[w] = "drain"
      BY <1>2, <1>5, <2>5, OthersStayPut
    <2>3. PlacedAt(b)'  BY <1>1, <1>2, <1>5, <1>7, <2>1, <2>2, StillHeld
    <2>4. CountsExact'
      <3>1. Lingering' = Lingering \union {b} /\ b \notin Lingering /\ Open' = Open
        BY <1>4, <1>7, <2>1 DEF Open, Lingering
      <3>2. Cardinality(Lingering') = Cardinality(Lingering) + 1
        BY <3>1, CountFacts, FS_AddElement
      <3> QED BY <1>7, <3>1, <3>2 DEF CountsExact, Lingering
    <2> QED BY <2>2, <2>3, <2>4 DEF Placed
  <1>8. CASE /\ wpc[w] = "drain" /\ linger_q' = linger_q \union {b} /\ Leave(w)
             /\ UNCHANGED <<state, connection_count, lingering_count>>
    <2>1. GoTo(w, "defer") /\ cs' = [cs EXCEPT ![w] = NoConn]
      BY <1>8 DEF Leave
    <2>2. /\ \A c \in Conns : c # b => PlacedAt(c)'
          /\ \A v \in Workers : cs'[v] = NoConn <=> wpc'[v] \notin Busy
      BY <1>2, <1>5, <1>8, <2>1, OthersStay DEF Busy
    <2>3. PlacedAt(b)'  BY <1>1, <1>2, <1>4, <1>5, <1>8, <2>1, NowParked
    <2>4. CountsExact'  BY <1>8, CountsSame
    <2> QED BY <2>2, <2>3, <2>4 DEF Placed
  <1>9. CASE Linger(w)
    <2>1. wpc[w] = "linger"  BY <1>9 DEF Linger
    <2>2. \/ CloseConn(w)
          \/ /\ state' = [state EXCEPT ![b] = "lingering"]
             /\ lingering_count' = lingering_count + 1 /\ GoTo(w, "drain")
             /\ UNCHANGED <<linger_q, connection_count, cs>>
      BY <1>2, <1>9 DEF Linger
    <2> QED BY <1>6, <1>7, <2>1, <2>2
  <1>10. CASE Drain(w)
    <2>1. wpc[w] = "drain"  BY <1>10 DEF Drain
    <2>2. \/ CloseConn(w)
          \/ /\ linger_q' = linger_q \union {b} /\ Leave(w)
             /\ UNCHANGED <<state, connection_count, lingering_count>>
      BY <1>2, <1>10 DEF Drain
    <2> QED BY <1>6, <1>8, <2>1, <2>2
  <1> QED BY <1>9, <1>10

(* A worker that had none has taken a connection. *)
LEMMA NowHeld ==
  ASSUME IInv, NEW w \in Workers, NEW b \in Conns, NEW l, wpc[w] \notin Busy,
         cs' = [cs EXCEPT ![w] = b], GoTo(w, l),
         UNCHANGED <<wc_q, ka_q, linger_q, current, events>>,
         b \notin Parked, b # current, \A v \in Workers : cs[v] # b,
         b \notin defer_linger_chain', b \notin Waiting',
         \/ l = "start" /\ state'[b] \in {"accepted", "read", "wc", "lingering"}
         \/ l = "linger" /\ state'[b] = "linger"
  PROVE  PlacedAt(b)'
  <1>1. PlacedAt(b)  BY DEF IInv, Placed
  <1>2. b \notin events /\ Parked' = Parked  BY <1>1 DEF PlacedAt, Parked
  <1>3. /\ wpc'[w] = l /\ cs'[w] = b
        /\ \A v \in Workers : cs'[v] = b => v = w
    BY DEF IInv, Typed, GoTo
  <1>4. StateFits(b)'
    <2>1. \A v \in Workers : cs'[v] = b =>
            /\ wpc'[v] = "start" => state'[b] \in {"accepted", "read", "wc", "lingering"}
            /\ wpc'[v] = "serve" => state'[b] \in {"read", "wc"}
            /\ wpc'[v] = "linger" => state'[b] = "linger"
            /\ wpc'[v] = "drain" => state'[b] = "lingering"
      BY <1>3
    <2> QED BY <1>2, <2>1 DEF StateFits, Parked
  <1>5. \A i \in DOMAIN queue' : queue'[i] # b  BY DEF Waiting
  <1>6. Alone(b)'  BY <1>2, <1>3, <1>5 DEF Alone
  <1>7. Kept(b)'  BY <1>3 DEF Kept
  <1> QED BY <1>2, <1>4, <1>6, <1>7 DEF PlacedAt

(* The other connections do not notice that. *)
LEMMA OthersAfterTaking ==
  ASSUME IInv, NEW w \in Workers, NEW b \in Conns \union {NoConn}, NEW l, wpc[w] \notin Busy,
         cs' = [cs EXCEPT ![w] = b], GoTo(w, l), b = NoConn <=> l \notin Busy,
         UNCHANGED <<wc_q, ka_q, linger_q, current, events, workers_may_exit>>,
         \A c \in Conns : c # b => /\ SameQueue(c) /\ state'[c] = state[c]
                                   /\ c \in defer_linger_chain' <=> c \in defer_linger_chain
  PROVE  /\ \A c \in Conns : c # b => PlacedAt(c)'
         /\ \A v \in Workers : cs'[v] = NoConn <=> wpc'[v] \notin Busy
  <1>1. /\ wpc'[w] = l /\ cs'[w] = b
        /\ \A v \in Workers : v # w => wpc'[v] = wpc[v] /\ cs'[v] = cs[v]
    BY DEF IInv, Typed, GoTo
  <1>2. cs[w] = NoConn  BY DEF IInv, Placed
  <1>3. ASSUME NEW c \in Conns, c # b  PROVE PlacedAt(c)'
    <2>1. PlacedAt(c)  BY DEF IInv, Placed
    <2>2. \A v \in Workers : /\ cs'[v] = c <=> cs[v] = c
                             /\ cs[v] = c => wpc'[v] = wpc[v]
      BY <1>1, <1>2, <1>3, Constants
    <2>3. SameSpot(c)  BY <1>3, <2>2 DEF SameSpot
    <2> QED BY <1>3, <2>1, <2>3, Elsewhere
  <1>4. \A v \in Workers : cs'[v] = NoConn <=> wpc'[v] \notin Busy
    BY <1>1 DEF IInv, Placed
  <1> QED BY <1>3, <1>4

(* A worker takes the first element of the queue. *)
LEMMA PopPlaced ==
  ASSUME IInv, NEW w \in Workers, PopSocket(w)
  PROVE  Placed' /\ CountsExact'
  <1>1. /\ Typed /\ pop_socket /\ wpc[w] \notin Busy
        /\ UNCHANGED <<connVars, current, events, workers_may_exit>>
        /\ cs' = [cs EXCEPT ![w] = Head(queue)]
        /\ GoTo(w, IF Head(queue) = NoConn THEN "defer" ELSE "start")
    BY DEF IInv, PopSocket, Busy, exitVars, listenerVars
  <1>2. PICK b \in Conns \union {NoConn} : b = Head(queue)  BY <1>1, PopFacts
  <1>3. PICK l \in {"defer", "start"} : GoTo(w, l) /\ (l = "defer" <=> b = NoConn)
    BY <1>1, <1>2
  <1>4. l \in Busy <=> b # NoConn  BY <1>3 DEF Busy
  <1>5. ASSUME NEW c \in Conns, c # b  PROVE SameQueue(c)
    BY <1>1, <1>2, <1>5, QueuePopped DEF IInv, Placed
  <1>6. UNCHANGED <<wc_q, ka_q, linger_q, state, defer_linger_chain>>  BY <1>1 DEF connVars
  <1>7. /\ \A c \in Conns : c # b => PlacedAt(c)'
        /\ \A v \in Workers : cs'[v] = NoConn <=> wpc'[v] \notin Busy
    BY <1>1, <1>2, <1>3, <1>4, <1>5, <1>6, OthersAfterTaking
  <1>8. ASSUME b \in Conns  PROVE PlacedAt(b)'
    <2>1. PlacedAt(b)  BY <1>8 DEF IInv, Placed
    <2>2. b \in Waiting  BY <1>1, <1>2, PopFacts
    <2>3. /\ b \notin Parked \union defer_linger_chain /\ b # current
          /\ \A v \in Workers : cs[v] # b
      BY <2>1, <2>2 DEF PlacedAt, Alone
    <2>4. state[b] \in {"accepted", "read", "wc", "lingering"}
      BY <2>1, <2>2 DEF PlacedAt, StateFits
    <2>5. b \notin Waiting'
      <3> SUFFICES ASSUME NEW i \in DOMAIN queue', queue'[i] = b  PROVE FALSE
        BY DEF Waiting
      <3>1. /\ 1 \in DOMAIN queue /\ i + 1 \in DOMAIN queue /\ queue[1] = b /\ queue[i + 1] = b
            /\ i \in 1 .. Len(queue) - 1 /\ Len(queue) \in Nat /\ ~Overrun
        BY SMTT(60), <1>1, <1>2, PopFacts
      <3>2. i + 1 = 1  BY <2>1, <3>1 DEF PlacedAt, Alone
      <3> QED BY SMT, <3>1, <3>2
    <2>6. l = "start"  BY <1>3, <1>8, Constants
    <2> QED BY <1>1, <1>2, <1>3, <1>6, <1>8, <2>3, <2>4, <2>5, <2>6, NowHeld
  <1>9. CountsExact'  BY <1>1 DEF IInv, CountsExact, Open, connVars
  <1> QED BY <1>7, <1>8, <1>9 DEF Placed

(* A worker takes a deferred close, if there is one. *)
LEMMA DeferredPlaced ==
  ASSUME IInv, NEW w \in Workers, Deferred(w)
  PROVE  Placed' /\ CountsExact'
  <1>1. /\ UNCHANGED <<wc_q, ka_q, linger_q, connection_count, lingering_count>>
        /\ UNCHANGED <<queue, current, events, workers_may_exit>>
        /\ wpc[w] = "defer" /\ wpc[w] \notin Busy /\ Typed
    BY DEF IInv, Deferred, fdqueueVars, exitVars, listenerVars, Busy
  <1>2. CASE GoTo(w, "idle") /\ UNCHANGED <<state, defer_linger_chain, cs>>
    <2>1. \A v \in Workers : wpc'[v] = wpc[v] \/ (wpc[v] \notin Busy /\ wpc'[v] \notin Busy)
      BY <1>1, <1>2 DEF GoTo, Typed, Busy
    <2>2. UNCHANGED connVars  BY <1>1, <1>2 DEF connVars
    <2> QED BY <1>1, <1>2, <2>1, <2>2, NothingMoves
  <1>3. ASSUME NEW b \in defer_linger_chain,
               defer_linger_chain' = defer_linger_chain \ {b},
               state' = [state EXCEPT ![b] = "linger"],
               cs' = [cs EXCEPT ![w] = b], GoTo(w, "linger")
        PROVE  Placed' /\ CountsExact'
    <2>1. b \in Conns  BY <1>1 DEF Typed
    <2>2. PlacedAt(b)  BY <2>1 DEF IInv, Placed
    <2>3. /\ b \notin Parked \union Waiting /\ b # current /\ \A v \in Workers : cs[v] # b
          /\ state[b] \in {"read", "ka", "wc"}
      BY <1>3, <2>2 DEF PlacedAt, Alone, StateFits
    <2>4. state'[b] = "linger" /\ \A c \in Conns : c # b => state'[c] = state[c]
      BY <1>1, <1>3, <2>1 DEF Typed
    <2>5. "linger" \in Busy /\ b # NoConn /\ Waiting' = Waiting
      BY <1>1, <2>1, Constants DEF Busy, Waiting
    <2>6. ASSUME NEW c \in Conns  PROVE SameQueue(c)
      BY <1>1, QueueKept DEF IInv, Placed
    <2>7. /\ \A c \in Conns : c # b => PlacedAt(c)'
          /\ \A v \in Workers : cs'[v] = NoConn <=> wpc'[v] \notin Busy
      BY <1>1, <1>3, <2>1, <2>4, <2>5, <2>6, OthersAfterTaking
    <2>8. PlacedAt(b)'  BY <1>1, <1>3, <2>1, <2>3, <2>4, <2>5, NowHeld
    <2>9. CountsExact'  BY <1>1, <2>3, <2>4, CountsSame DEF IInv
    <2> QED BY <2>7, <2>8, <2>9 DEF Placed
  <1> QED BY <1>2, <1>3 DEF Deferred

-----------------------------------------------------------------------------
(* The remaining steps leave the connections where they are, and with that *)
(* every step keeps the places and the two counters.                       *)

(* close_worker_sockets forgets the deferred closes. *)
LEMMA KillPlaced ==
  ASSUME IInv, KillWorkers
  PROVE  Placed' /\ CountsExact'
  <1>1. /\ UNCHANGED <<state, wc_q, ka_q, linger_q, connection_count, lingering_count>>
        /\ UNCHANGED <<queue, current, events, wpc, cs>>
        /\ defer_linger_chain' = {} /\ workers_may_exit' = TRUE
    BY DEF KillWorkers, listenerVars, workerVars
  <1>2. ASSUME NEW c \in Conns  PROVE PlacedAt(c)'
    <2>1. PlacedAt(c)  BY DEF IInv, Placed
    <2>2. Waiting' = Waiting /\ Parked' = Parked /\ (Overrun' <=> Overrun)
      BY <1>1 DEF Waiting, Parked, Overrun
    <2>3. StateFits(c)'  BY <1>1, <2>1, <2>2 DEF PlacedAt, StateFits
    <2>4. Alone(c)'  BY <1>1, <2>1, <2>2 DEF PlacedAt, Alone
    <2>5. Kept(c)'  BY <1>1 DEF Kept
    <2>6. c \in events' => c \in Parked'  BY <1>1, <2>1, <2>2 DEF PlacedAt
    <2> QED BY <2>3, <2>4, <2>5, <2>6 DEF PlacedAt
  <1>3. CountsExact'  BY <1>1 DEF IInv, CountsExact, Open
  <1> QED BY <1>1, <1>2, <1>3 DEF IInv, Placed

(* The control of the listener keeps the places and the counters, ... *)
LEMMA ListenerControlPlaced ==
  ASSUME IInv, ListenerControl
  PROVE  Placed' /\ CountsExact'
  <1> USE DEF fdqueueVars, exitVars, listenerVars, workerVars
  <1>1. UNCHANGED <<connVars, queue, cs, wpc, workers_may_exit>>
    <2>1. CASE check_infinite_requests \/ Count \/ Prepare \/ PollQuiet \/ Locking \/ Awake
      BY <2>1 DEF check_infinite_requests, Count, Prepare, PollQuiet, Locking, Awake
    <2>2. CASE Top \/ Recheck  BY <2>2 DEF Top, Recheck, TestExit
    <2>3. CASE AcceptRefused \/ AcceptEvent  BY <2>3 DEF AcceptRefused, AcceptEvent
    <2>4. CASE GetDeferWorker \/ enable_listensocks \/ ListenerExit
      BY <2>4 DEF GetDeferWorker, enable_listensocks, ListenerExit
    <2> QED BY <2>1, <2>2, <2>3, <2>4 DEF ListenerControl
  <1>2. \/ UNCHANGED <<current, events>>
        \/ UNCHANGED current /\ events' = events \ {Accept}
        \/ lpc = "events" /\ current' = Accept /\ events' = events \ {Accept}
    <2>1. CASE check_infinite_requests \/ Count \/ Prepare \/ PollQuiet \/ Locking \/ Awake
      BY <2>1 DEF check_infinite_requests, Count, Prepare, PollQuiet, Locking, Awake
    <2>2. CASE Top \/ Recheck  BY <2>2 DEF Top, Recheck, TestExit
    <2>3. CASE AcceptRefused \/ AcceptEvent  BY <2>3 DEF AcceptRefused, AcceptEvent
    <2>4. CASE GetDeferWorker \/ enable_listensocks \/ ListenerExit
      BY <2>4 DEF GetDeferWorker, enable_listensocks, ListenerExit
    <2> QED BY <2>1, <2>2, <2>3, <2>4 DEF ListenerControl
  <1>3. lpc = "events" => current = NoConn  BY DEF IInv, Listener
  <1>4. /\ current' = current \/ (current \notin Conns /\ current' \notin Conns)
        /\ \A c \in Conns : c \in events' => c \in events
    BY <1>2, <1>3, Constants
  <1> QED BY <1>1, <1>4, NothingMoves

(* ... so does that of a worker, ... *)
LEMMA WorkerControlPlaced ==
  ASSUME IInv, NEW w \in Workers, WorkerControl(w)
  PROVE  Placed' /\ CountsExact'
  <1>1. UNCHANGED <<connVars, queue, cs, current, events, workers_may_exit>>
    BY DEF WorkerControl, SetIdle, SignalIdler, CheckExit, PopNothing, PopTimer, TimerCallback,
           pop_timer, fdqueueVars, exitVars, listenerVars
  <1>2. wpc[w] \notin Busy /\ \E l \in Labels \ Busy : GoTo(w, l)
    BY DEF WorkerControl, SetIdle, SignalIdler, CheckExit, PopNothing, PopTimer, TimerCallback,
           Labels, Busy, Counted
  <1>3. \A v \in Workers : wpc'[v] = wpc[v] \/ (wpc[v] \notin Busy /\ wpc'[v] \notin Busy)
    BY <1>2 DEF IInv, Typed, GoTo
  <1> QED BY <1>1, <1>3, NothingMoves

(* ... and the main thread. *)
LEMMA MainControlPlaced ==
  ASSUME IInv, MainControl
  PROVE  Placed' /\ CountsExact'
  <1>1. UNCHANGED <<connVars, queue, cs, wpc, current, events, workers_may_exit>>
    BY DEF MainControl, NoticeTermination, TermQueueInfo, ChildExit, WakeAgain, SignalThreads,
           MainVars, fdqueueVars, listenerVars, workerVars
  <1> QED BY <1>1, NothingMoves

(* Every step keeps the places and the counters. *)
LEMMA StepPlaced ==
  ASSUME IInv, Next
  PROVE  Placed' /\ CountsExact'
  <1>1. CASE ListenerMoves
    BY <1>1, PollPlaced, AcceptPlaced, PushPlaced, PushDeferredPlaced, WritePlaced, ReadPlaced,
       ExpiryPlaced DEF ListenerMoves
  <1>2. ASSUME NEW w \in Workers, WorkerMoves(w)  PROVE Placed' /\ CountsExact'
    BY <1>2, PopPlaced, StartPlaced, ServePlaced, LingerPlaced, DeferredPlaced DEF WorkerMoves
  <1> QED
    BY <1>1, <1>2, StepCases, ListenerControlPlaced, WorkerControlPlaced, MainControlPlaced, KillPlaced

-----------------------------------------------------------------------------
(* The theorems.                                                           *)

(* The invariant holds when the threads of a child start. *)
LEMMA InitIInv == Init => IInv
  <1> SUFFICES ASSUME Init  PROVE IInv
    OBVIOUS
  <1> USE DEF Init, FdQueueInit
  <1>1. Typed
    <2>1. 0 \in Int /\ 0 \in 0 .. MaxTimers /\ 0 \in 0 .. threads_per_child
      BY SMT, Constants
    <2>2. queue \in Seq(Conns \union {NoConn})  BY EmptyFacts
    <2>3. conns_this_child \in Int  BY SMT, EventChildAssumption DEF EventChildAssumption
    <2>4. /\ state \in [Conns -> States] /\ wpc \in [Workers -> Labels]
          /\ cs \in [Workers -> Conns \union {NoConn}] /\ is_idle \in [Workers -> BOOLEAN]
      BY DEF States, Labels
    <2> QED BY <2>1, <2>2, <2>3, <2>4 DEF Typed
  <1>2. Flags  BY DEF Flags
  <1>3. Idle
    <2>1. {w \in Workers : is_idle[w]} = {}  OBVIOUS
    <2>2. Cardinality({w \in Workers : is_idle[w]}) = 0  BY <2>1, FS_EmptySet
    <2>3. Len(queue) = 0  BY EmptyFacts
    <2>4. Reserved = 0  BY DEF Reserved
    <2>5. IdlersAccounted  BY SMT, <2>2, <2>3, <2>4 DEF IdlersAccounted
    <2> QED BY <2>5 DEF Idle, Counted
  <1>4. Listener /\ Armed /\ MainThread  BY DEF Listener, Armed, Parked, MainThread
  <1>5. Placed
    <2>1. Waiting = {} /\ DOMAIN queue = {}
      <3>1. DOMAIN queue = {}  BY EmptyFacts
      <3> QED BY <3>1 DEF Waiting
    <2>2. ASSUME NEW c \in Conns  PROVE PlacedAt(c)
      <3>1. c # current /\ c \notin Parked /\ state[c] = "closed" /\ c \notin events
        BY Constants DEF Parked
      <3>2. \A w \in Workers : cs[w] # c  BY Constants
      <3>3. StateFits(c)  BY <2>1, <3>1, <3>2 DEF StateFits
      <3>4. Alone(c)  BY <2>1, <3>1, <3>2 DEF Alone
      <3>5. Kept(c)  BY <3>1 DEF Kept
      <3> QED BY <3>1, <3>3, <3>4, <3>5 DEF PlacedAt
    <2>3. \A w \in Workers : cs[w] = NoConn <=> wpc[w] \notin Busy  BY DEF Busy
    <2> QED BY <2>2, <2>3 DEF Placed
  <1>6. CountsExact
    <2>1. Open = {} /\ {c \in Conns : state[c] = "lingering"} = {}  BY DEF Open
    <2> QED BY <2>1, FS_EmptySet DEF CountsExact
  <1> QED BY <1>1, <1>2, <1>3, <1>4, <1>5, <1>6 DEF IInv

(* Every step of any thread preserves it. *)
LEMMA StepIInv == IInv /\ [Next]_vars => IInv'
  <1>1. ASSUME IInv, UNCHANGED vars  PROVE IInv'
    <2> USE DEF IInv, vars, fdqueueVars, connVars, exitVars, pollVars, listenerVars, workerVars
    <2>1. Typed'  BY <1>1 DEF Typed
    <2>2. Flags'  BY <1>1 DEF Flags
    <2>3. Idle'  BY <1>1 DEF Idle, IdlersAccounted, Reserved
    <2>4. Listener' /\ Armed' /\ MainThread'
      BY <1>1 DEF Listener, Armed, Parked, MainThread
    <2>5. Placed' /\ CountsExact'  BY <1>1, NothingMoves
    <2> QED BY <2>1, <2>2, <2>3, <2>4, <2>5
  <1>2. ASSUME IInv, Next  PROVE IInv'
    <2>1. Typed'
      BY <1>2, StepCases, ListenerControlTyped, ListenerMovesTyped, WorkerControlTyped,
         WorkerMovesTyped, MainTyped DEF IInv
    <2>2. Flags'  BY <1>2, StepCases, ListenerFlags, OtherFlags DEF IInv
    <2>3. Idle'  BY <1>2, StepCases, ListenerIdle, OtherIdle
    <2>4. Listener' /\ Armed'
      BY <1>2, StepCases, ListenerHolds, ListenerArmed, OtherArmed
    <2>5. Placed' /\ CountsExact'  BY <1>2, StepPlaced
    <2>6. MainThread'  BY <1>2, ModeSteps
    <2> QED BY <2>1, <2>2, <2>3, <2>4, <2>5, <2>6 DEF IInv
  <1> QED BY <1>1, <1>2

(* The invariant holds in every state of a child. *)
THEOREM Invariance == Spec => []IInv
  BY InitIInv, StepIInv, PTL DEF Spec

(* The type invariant, with the two counters of connections. *)
THEOREM ChildTypeCorrect == Spec => []TypeOK
  <1>1. IInv => TypeOK
    <2> SUFFICES ASSUME IInv  PROVE TypeOK
      OBVIOUS
    <2>1. connection_count \in Nat /\ lingering_count \in Nat
      BY CountFacts DEF IInv, CountsExact, Lingering
    <2>2. Parked \union defer_linger_chain \subseteq Conns  BY DEF IInv, Typed, Parked
    <2>3. {infoTerminated, waiting, queueTerminated} \subseteq BOOLEAN  BY DEF IInv, Flags
    <2>4. {listener_may_exit, workers_may_exit, dying, listensocks_disabled,
           queues_next_expiry, wakeup, workers_were_busy, have_idle_worker,
           timeout_time} \subseteq BOOLEAN
      BY DEF IInv, Flags
    <2>5. Typed  BY DEF IInv
    <2> QED BY <2>1, <2>2, <2>3, <2>4, <2>5 DEF TypeOK, Typed, States
  <1> QED BY <1>1, Invariance, PTL

(* The counter by which the listener reserves workers is exact, whatever   *)
(* the interleaving of ap_queue_info_set_idle, get_worker, push2worker and *)
(* ap_queue_pop_something.                                                 *)
THEOREM IdleWorkersAreAccounted == Spec => []IdlersAccounted
  <1>1. IInv => IdlersAccounted  BY DEF IInv, Idle
  <1> QED BY <1>1, Invariance, PTL

(* connection_count and lingering_count are exact. *)
THEOREM ConnectionCountsAreExact == Spec => []CountsExact
  <1>1. IInv => CountsExact  BY DEF IInv
  <1> QED BY <1>1, Invariance, PTL

(* No timeout is forgotten. *)
THEOREM TimeoutsStayArmed == Spec => []TimeoutsArmed
  <1>1. IInv => TimeoutsArmed
    <2> SUFFICES ASSUME IInv, ~queues_next_expiry  PROVE Parked = Unprocessed
      BY DEF TimeoutsArmed
    <2>1. CASE lpc = "expire_wc" /\ ka_q = {}  BY <2>1 DEF Parked, Unprocessed
    <2>2. CASE lpc = "expire_linger" /\ ka_q = {} /\ wc_q = {}
      BY <2>2 DEF Parked, Unprocessed
    <2>3. CASE Parked = {}
      <3>1. Unprocessed \subseteq Parked  BY DEF Parked, Unprocessed
      <3> QED BY <2>3, <3>1
    <2> QED BY <2>1, <2>2, <2>3 DEF IInv, Armed
  <1> QED BY <1>1, Invariance, PTL

(* A connection is in one place. *)
THEOREM ConnectionsHaveOneHolder == Spec => []OneHolder
  <1>1. IInv => OneHolder
    <2> SUFFICES ASSUME IInv, ~Overrun, NEW c \in Conns
                 PROVE  /\ Holders(c) <= IF state[c] = "closed" THEN 0 ELSE 1
                        /\ Holders(c) = 0 => workers_may_exit \/ state[c] = "closed"
      BY DEF OneHolder
    <2> DEFINE Q == {q \in {<<1, wc_q>>, <<2, ka_q>>, <<3, linger_q>>,
                            <<4, defer_linger_chain>>, <<5, {current}>>} : c \in q[2]}
               H == Held(c)
               W == Queued(c)
    <2>1. StateFits(c) /\ Alone(c) /\ Kept(c)  BY DEF IInv, Placed, PlacedAt
    <2>2. Holders(c) = Cardinality(H) + Cardinality(W) + Cardinality(Q)  BY DEF Holders
    <2>3. (c \in Waiting) <=> W # {}  BY DEF Waiting, Queued
    <2>4. c \notin wc_q \union ka_q \union linger_q \union defer_linger_chain \union {current}
            => Q = {}
      BY SMT
    <2>5. c \in Parked \union defer_linger_chain \union {current} => \E x : Q = {x}
      <3>1. CASE c \in wc_q
        <4>1. c \notin ka_q \union linger_q \union defer_linger_chain \union {current}
          BY <2>1, <3>1 DEF StateFits, Alone, Parked
        <4>2. Q = {<<1, wc_q>>}  BY SMT, <3>1, <4>1
        <4> QED BY <4>2
      <3>2. CASE c \in ka_q
        <4>1. c \notin wc_q \union linger_q \union defer_linger_chain \union {current}
          BY <2>1, <3>2 DEF StateFits, Alone, Parked
        <4>2. Q = {<<2, ka_q>>}  BY SMT, <3>2, <4>1
        <4> QED BY <4>2
      <3>3. CASE c \in linger_q
        <4>1. c \notin wc_q \union ka_q \union defer_linger_chain \union {current}
          BY <2>1, <3>3 DEF StateFits, Alone, Parked
        <4>2. Q = {<<3, linger_q>>}  BY SMT, <3>3, <4>1
        <4> QED BY <4>2
      <3>4. CASE c \in defer_linger_chain
        <4>1. c \notin wc_q \union ka_q \union linger_q \union {current}
          BY <2>1, <3>4 DEF Alone, Parked
        <4>2. Q = {<<4, defer_linger_chain>>}  BY SMT, <3>4, <4>1
        <4> QED BY <4>2
      <3>5. CASE c = current
        <4>1. c \notin wc_q \union ka_q \union linger_q \union defer_linger_chain
          BY <2>1, <3>5 DEF Alone, Parked
        <4>2. Q = {<<5, {current}>>}  BY SMT, <3>5, <4>1
        <4> QED BY <4>2
      <3> QED BY <3>1, <3>2, <3>3, <3>4, <3>5 DEF Parked
    <2>6. ASSUME state[c] = "closed"  PROVE H = {} /\ W = {} /\ Q = {}
      <3>1. \A w \in Workers : cs[w] = c => wpc[w] \in Busy  BY Constants DEF IInv, Placed
      <3>2. H = {}  BY <2>1, <2>6, <3>1 DEF Held, StateFits, Busy
      <3>3. W = {}  BY <2>1, <2>3, <2>6 DEF StateFits
      <3>4. Q = {}  BY <2>1, <2>4, <2>6 DEF StateFits
      <3> QED BY <3>2, <3>3, <3>4
    <2> HIDE DEF Q
    <2>7. CASE H # {}
      <3>1. PICK w \in Workers : cs[w] = c  BY <2>7 DEF Held
      <3>2. H = {w}  BY <2>1, <3>1 DEF Held, Alone
      <3>3. W = {}  BY <2>1, <2>3, <3>1 DEF Alone
      <3>4. Q = {}  BY <2>1, <2>4, <3>1 DEF Alone, Parked
      <3>5. Cardinality(H) = 1 /\ Cardinality(W) = 0 /\ Cardinality(Q) = 0
        BY <3>2, <3>3, <3>4, FS_EmptySet, FS_Singleton
      <3>6. state[c] # "closed"  BY <2>6, <2>7
      <3> QED BY SMT, <2>2, <3>5, <3>6
    <2>8. CASE H = {} /\ W # {}
      <3>1. c \in Waiting  BY <2>3, <2>8
      <3>2. PICK i \in DOMAIN queue : queue[i] = c  BY <2>8 DEF Queued
      <3>3. W = {i}  BY <2>1, <3>2 DEF Queued, Alone
      <3>4. Q = {}  BY <2>1, <2>4, <3>1 DEF Alone, Parked
      <3>5. Cardinality(H) = 0 /\ Cardinality(W) = 1 /\ Cardinality(Q) = 0
        BY <2>8, <3>3, <3>4, FS_EmptySet, FS_Singleton
      <3>6. state[c] # "closed"  BY <2>6, <2>8
      <3> QED BY SMT, <2>2, <3>5, <3>6
    <2>9. CASE H = {} /\ W = {}
      <3>1. Cardinality(H) = 0 /\ Cardinality(W) = 0  BY <2>9, FS_EmptySet
      <3>2. CASE Q # {}
        <4>1. \E x : Q = {x}  BY <2>4, <2>5, <3>2 DEF Parked
        <4>2. Cardinality(Q) = 1  BY <4>1, FS_Singleton
        <4>3. state[c] # "closed"  BY <2>6, <3>2
        <4> QED BY SMT, <2>2, <3>1, <4>2, <4>3
      <3>3. CASE Q = {}
        <4>1. Cardinality(Q) = 0  BY <3>3, FS_EmptySet
        <4>2. workers_may_exit \/ state[c] = "closed"
          <5>1. c \notin Parked \union defer_linger_chain \union {current}  BY <2>5, <3>3
          <5>2. c \notin Waiting /\ \A w \in Workers : cs[w] # c  BY <2>3, <2>9 DEF Held
          <5> QED BY <2>1, <5>1, <5>2 DEF Kept
        <4>3. Holders(c) = 0  BY SMT, <2>2, <3>1, <4>1
        <4> QED BY SMT, <4>2, <4>3
      <3> QED BY <3>2, <3>3
    <2> QED BY <2>7, <2>8, <2>9
  <1> QED BY <1>1, Invariance, PTL

(* In a graceful stop the listener leaves its loop only when no connection *)
(* is parked, deferred or begun.                                           *)
THEOREM NothingIsLeftBehind == Spec => ListenerLeavesNothing
  <1>1. ASSUME IInv, Next, lpc # "term", lpc' = "term", terminate_mode = "graceful"
        PROVE  /\ Parked \union defer_linger_chain = {}
               /\ \A w \in Workers : cs[w] # NoConn => state[cs[w]] = "accepted"
    <2>1. connection_count = 0  BY <1>1, ToTerm DEF Count
    <2>2. Open = {}  BY <1>1, <2>1, CountFacts, FS_EmptySet DEF IInv, CountsExact
    <2>3. \A c \in Conns : state[c] \in {"closed", "accepted"}  BY <2>2 DEF Open
    <2>4. \A c \in Conns : StateFits(c)  BY <1>1 DEF IInv, Placed, PlacedAt
    <2>5. Parked \union defer_linger_chain \subseteq Conns  BY <1>1 DEF IInv, Typed, Parked
    <2>6. Parked \union defer_linger_chain = {}
      BY <2>3, <2>4, <2>5 DEF StateFits, Parked
    <2>7. ASSUME NEW w \in Workers, cs[w] # NoConn  PROVE state[cs[w]] = "accepted"
      <3>1. cs[w] \in Conns /\ wpc[w] \in Busy  BY <1>1, <2>7 DEF IInv, Typed, Placed
      <3> QED BY <2>3, <2>4, <3>1 DEF StateFits, Busy
    <2> QED BY <2>6, <2>7
  <1>2. IInv /\ [Next]_vars =>
          [(lpc # "term" /\ lpc' = "term" /\ terminate_mode = "graceful") =>
             /\ Parked \union defer_linger_chain = {}
             /\ \A w \in Workers : cs[w] # NoConn => state[cs[w]] = "accepted"]_vars
    BY <1>1
  <1> QED BY <1>2, Invariance, PTL DEF Spec, ListenerLeavesNothing

(* The child is the ChildProcess that its parent takes it for. *)
THEOREM ChildImplementsProcess == Spec => ImplementsChild
  <1>1. Init => Child!ChildInit
    BY DEF Init, Child!ChildInit, ChildPhase
  <1>2. IInv /\ [Next]_vars => [Child!ChildNext]_ChildPhase
    <2> SUFFICES ASSUME IInv, [Next]_vars  PROVE [Child!ChildNext]_ChildPhase
      OBVIOUS
    <2>1. CASE UNCHANGED vars  BY <2>1 DEF vars, exitVars, ChildPhase
    <2>2. CASE Next
      <3>1. /\ terminate_mode # "init" => terminate_mode' # "init"
            /\ mpc = "exit" => mpc' = "exit"
            /\ mpc' = "exit" => mpc \in {"join", "exit"}
            /\ mpc # "run" => terminate_mode # "init"
            /\ mpc' # "run" => terminate_mode' # "init"
        BY <2>2, ModeSteps DEF IInv, MainThread
      <3>2. CASE mpc = "exit"  BY <3>1, <3>2 DEF ChildPhase
      <3>3. CASE mpc # "exit" /\ mpc' = "exit"
        <4>1. ChildPhase = "quitting" /\ ChildPhase' = "exited"  BY <3>1, <3>3 DEF ChildPhase
        <4> QED BY <4>1 DEF Child!ChildNext, Child!Steps
      <3>4. CASE mpc # "exit" /\ mpc' # "exit"
        <4>1. \/ ChildPhase' = ChildPhase
              \/ ChildPhase = "up" /\ ChildPhase' = "quitting"
          BY <3>1, <3>4 DEF ChildPhase
        <4> QED BY <4>1 DEF Child!ChildNext, Child!Steps
      <3> QED BY <3>2, <3>3, <3>4
    <2> QED BY <2>1, <2>2
  <1> QED
    BY <1>1, <1>2, Invariance, PTL DEF Spec, ImplementsChild, Child!ChildSpec

=============================================================================
