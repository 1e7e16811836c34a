----------------------------- MODULE EventChild -----------------------------
(***************************************************************************)
(* One child process of httpd's event MPM (server/mpm/event/event.c): the  *)
(* listener thread, the worker threads and the main thread, which share    *)
(* the queue of module FdQueue, the timeout queues, the chain of deferred  *)
(* closes and a handful of counters and flags.                             *)
(*                                                                         *)
(* A connection is its transaction pool: "closed" is a pool in the         *)
(* recycled list (or destroyed), so that a connection whose pool is        *)
(* returned twice would be two connections in one.  A timeout queue is a   *)
(* set, whose members are the ones that are also in event_pollset:         *)
(* timeout_mutex makes the two move together.  linger_q stands for the     *)
(* normal and the short one.  Of the time in queues_next_expiry only       *)
(* whether it is set is kept; which entries have expired is open.          *)
(* Connections are never SUSPENDED: no module the scripts build does that. *)
(***************************************************************************)
EXTENDS FdQueue

CONSTANTS
  Conns,                   \* bound: connections (pools) at one time
  worker_factor,           \* AsyncRequestWorkerFactor
  MaxConnectionsPerChild,  \* ap_max_requests_per_child, 0 for no limit
  MaxTimers,               \* bound: timers waiting for a worker
  NoConn                   \* NULL

Accept == "accept"         \* a listening socket in the results of poll()

ASSUME EventChildAssumption ==
  /\ IsFiniteSet(Workers) /\ Workers # {}
  /\ IsFiniteSet(Conns)
  /\ worker_factor \in Nat
  /\ MaxConnectionsPerChild \in Nat
  /\ MaxTimers \in Nat
  /\ NoConn \notin Conns
  /\ Accept \notin Conns \union {NoConn}

VARIABLES
  state,        \* of a connection: "closed" (not there), "accepted" (in the
                \* queue, no cs yet), then pub.state
  wc_q, ka_q, linger_q,
  defer_linger_chain,
  connection_count, lingering_count, threads_shutdown, conns_this_child,
  listener_may_exit, workers_may_exit, dying, terminate_mode,
  listensocks_disabled,
  queues_next_expiry,   \* is it set?
  wakeup,               \* is there a byte in the pollset's wakeup pipe?
  lpc, events, current, workers_were_busy, have_idle_worker, timeout_time,
  wpc, cs, is_idle,
  mpc

connVars == <<state, wc_q, ka_q, linger_q, defer_linger_chain,
              connection_count, lingering_count>>
exitVars == <<listener_may_exit, workers_may_exit, dying, terminate_mode,
              threads_shutdown>>
pollVars == <<queues_next_expiry, wakeup>>
listenerVars == <<lpc, events, current, workers_were_busy, have_idle_worker,
                  timeout_time, conns_this_child>>
workerVars == <<wpc, cs, is_idle>>
vars == <<fdqueueVars, connVars, exitVars, listensocks_disabled, pollVars,
          listenerVars, workerVars, mpc>>

Parked == wc_q \union ka_q \union linger_q

Init ==
  /\ FdQueueInit
  /\ state = [c \in Conns |-> "closed"]
  /\ wc_q = {} /\ ka_q = {} /\ linger_q = {} /\ defer_linger_chain = {}
  /\ connection_count = 0 /\ lingering_count = 0 /\ threads_shutdown = 0
  /\ conns_this_child = MaxConnectionsPerChild
  /\ listener_may_exit = FALSE /\ workers_may_exit = FALSE /\ dying = FALSE
  /\ terminate_mode = "init"
  /\ listensocks_disabled = FALSE
  /\ queues_next_expiry = FALSE /\ wakeup = FALSE
  /\ lpc = "top" /\ events = {} /\ current = NoConn
  /\ workers_were_busy = FALSE /\ have_idle_worker = FALSE
  /\ timeout_time = FALSE
  /\ wpc = [w \in Workers |-> "idle"]
  /\ cs = [w \in Workers |-> NoConn]
  /\ is_idle = [w \in Workers |-> FALSE]
  /\ mpc = "run"

-----------------------------------------------------------------------------
(* Helpers.                                                                *)

AboveLimit(conns, lingering) ==
  LET i_count == ap_queue_info_num_idlers
      spare == IF listensocks_disabled THEN i_count - 1 ELSE i_count
  IN  ~ /\ i_count > 0
        /\ \/ conns <= lingering
           \/ conns - lingering < threads_per_child + spare * worker_factor

connections_above_limit == AboveLimit(connection_count, lingering_count)

(* Mutant: the listener is not woken for a new first expiry. *)
TO_QUEUE_APPEND_NoWakeup ==
  /\ queues_next_expiry' = TRUE
  /\ UNCHANGED wakeup

(* TO_QUEUE_APPEND for any of the queues: the next expiry is set if it was *)
(* not, and may come nearer if it was.                                     *)
TO_QUEUE_APPEND ==
  /\ queues_next_expiry' = TRUE
  /\ wakeup' \in IF queues_next_expiry THEN {wakeup, TRUE} ELSE {TRUE}

(* Mutant: nobody tells the listener that the last connection is gone. *)
push_pools_NoWakeup(S) ==
  /\ state' = [c \in Conns |-> IF c \in S THEN "closed" ELSE state[c]]
  /\ connection_count' = connection_count - Cardinality(S)
  /\ lingering_count' =
       lingering_count - Cardinality({c \in S : state[c] = "lingering"})
  /\ UNCHANGED wakeup

(* The pools of S, counted connections all, are cleared or destroyed,      *)
(* which runs decrement_connection_count on each.                          *)
push_pools(S) ==
  LET lingering == {c \in S : state[c] = "lingering"}
      conns == connection_count - Cardinality(S)
      lingers == lingering_count - Cardinality(lingering)
  IN  /\ state' = [c \in Conns |-> IF c \in S THEN "closed" ELSE state[c]]
      /\ connection_count' = conns
      /\ lingering_count' = lingers
      /\ wakeup' = \/ wakeup
                   \/ /\ S # {}
                      /\ \/ conns = 0 /\ listener_may_exit
                         \/ listensocks_disabled /\ ~AboveLimit(conns, lingers)

(* close_listeners: the first call tells everybody.                        *)
close_listeners ==
  /\ dying' = TRUE
  /\ IF dying THEN UNCHANGED sleeping ELSE ap_queue_interrupt_all

-----------------------------------------------------------------------------
(* The listener thread.                                                    *)

(* check_infinite_requests calls signal_threads(ST_GRACEFUL) when          *)
(* MaxConnectionsPerChild connections have been accepted.                  *)
QuotaReached ==
  /\ MaxConnectionsPerChild > 0 /\ conns_this_child <= 0
  /\ terminate_mode = "init"

check_infinite_requests ==
  /\ lpc = "top"
  /\ QuotaReached
  /\ terminate_mode' = "graceful"
  /\ listener_may_exit' = TRUE
  /\ listensocks_disabled' = TRUE
  /\ wakeup' = TRUE
  /\ ap_queue_info_term
  /\ UNCHANGED <<idlers, queue, timers, queueTerminated, sleeping, connVars,
                 workers_may_exit, dying, threads_shutdown,
                 queues_next_expiry, listenerVars, workerVars, mpc>>

(* The test of listener_may_exit, at the top of the loop and after poll(). *)
TestExit(here, count, go) ==
  /\ lpc = here
  /\ IF listener_may_exit
     THEN close_listeners /\ lpc' = count
     ELSE UNCHANGED <<dying, sleeping>> /\ lpc' = go
  /\ UNCHANGED <<idlers, infoTerminated, waiting, queue, timers,
                 queueTerminated, connVars, listener_may_exit,
                 workers_may_exit, terminate_mode, threads_shutdown,
                 listensocks_disabled, pollVars, events, current,
                 have_idle_worker, timeout_time, conns_this_child,
                 workerVars, mpc>>

Top ==
  /\ ~QuotaReached
  /\ TestExit("top", "count", "prepare")
  /\ workers_were_busy' = FALSE

Recheck ==
  /\ TestExit("recheck", "recount", "events")
  /\ UNCHANGED workers_were_busy

(* Mutant: a graceful stop does not wait for the connections. *)
Count_Hurried ==
  /\ lpc \in {"count", "recount"}
  /\ lpc' = "term"
  /\ UNCHANGED <<fdqueueVars, connVars, exitVars, listensocks_disabled,
                 pollVars, events, current, workers_were_busy,
                 have_idle_worker, timeout_time, conns_this_child,
                 workerVars, mpc>>

(* "break" out of the loop if told to, or if no connection is left.        *)
Count ==
  /\ lpc \in {"count", "recount"}
  /\ lpc' = IF terminate_mode = "ungraceful" \/ connection_count = 0
            THEN "term"
            ELSE IF lpc = "count" THEN "prepare" ELSE "events"
  /\ UNCHANGED <<fdqueueVars, connVars, exitVars, listensocks_disabled,
                 pollVars, events, current, workers_were_busy,
                 have_idle_worker, timeout_time, conns_this_child,
                 workerVars, mpc>>

(* Push the timers that have expired, read the next expiry of the queues.  *)
Prepare ==
  /\ lpc = "prepare"
  /\ \/ timers < MaxTimers /\ ap_queue_push_timer
     \/ UNCHANGED <<timers, sleeping>>
  /\ timeout_time' = queues_next_expiry
  /\ lpc' = "poll"
  /\ UNCHANGED <<idlers, infoTerminated, waiting, queue, queueTerminated,
                 connVars, exitVars, listensocks_disabled, pollVars, events,
                 current, workers_were_busy, have_idle_worker,
                 conns_this_child, workerVars, mpc>>

(* apr_pollset_poll.  Clients: any of the parked connections may be        *)
(* readable or writable, and so may be the listening socket, unless it is  *)
(* out of the pollset; a timer may have expired.                           *)
PollReady ==
  /\ lpc = "poll"
  /\ events' \in SUBSET (Parked \union IF listensocks_disabled THEN {} ELSE {Accept})
  /\ events' # {} \/ MaxTimers > 0
  /\ lpc' = "recheck"
  /\ wakeup' = FALSE
  /\ UNCHANGED <<fdqueueVars, connVars, exitVars, listensocks_disabled,
                 queues_next_expiry, current, workers_were_busy,
                 have_idle_worker, timeout_time, conns_this_child, workerVars,
                 mpc>>

(* No client: the wakeup pipe alone is EINTR, nothing at all is the        *)
(* expiry that was read before.                                            *)
PollQuiet ==
  /\ lpc = "poll"
  /\ \/ /\ wakeup /\ ~listener_may_exit /\ ~listensocks_disabled
        /\ lpc' = "top"
        /\ UNCHANGED timeout_time
     \/ /\ wakeup /\ (listener_may_exit \/ listensocks_disabled)
        /\ lpc' = "recheck"
        /\ timeout_time' = FALSE
     \/ /\ ~wakeup /\ timeout_time
        /\ lpc' = "recheck"
        /\ UNCHANGED timeout_time
  /\ wakeup' = FALSE
  /\ UNCHANGED <<fdqueueVars, connVars, exitVars, listensocks_disabled,
                 queues_next_expiry, events, current, workers_were_busy,
                 have_idle_worker, conns_this_child, workerVars, mpc>>

(* Mutant: a worker is reserved even if one is reserved already. *)
GetWorkerBlocking_Twice(next) ==
  /\ wait_for_idler
  /\ IF MustLock
     THEN lpc' = "locking" /\ UNCHANGED have_idle_worker
     ELSE lpc' = next /\ have_idle_worker' = TRUE

(* get_worker(..., blocking = 1) up to the mutex, then "next".             *)
GetWorkerBlocking(next) ==
  IF have_idle_worker
  THEN lpc' = next /\ UNCHANGED <<idlers, have_idle_worker>>
  ELSE /\ wait_for_idler
       /\ IF MustLock
          THEN lpc' = "locking" /\ UNCHANGED have_idle_worker
          ELSE lpc' = next /\ have_idle_worker' = TRUE

AfterWait == IF current = Accept THEN "accept" ELSE "push"

(* ap_queue_info_wait_for_idler with the mutex held ...                    *)
Locking ==
  /\ lpc = "locking"
  /\ IF MustSleep
     THEN /\ waiting' = TRUE
          /\ workers_were_busy' = TRUE
          /\ lpc' = "blocked"
          /\ UNCHANGED have_idle_worker
     ELSE /\ have_idle_worker' = TRUE
          /\ lpc' = AfterWait
          /\ UNCHANGED <<waiting, workers_were_busy>>
  /\ UNCHANGED <<idlers, infoTerminated, queue, timers, queueTerminated,
                 sleeping, connVars, exitVars, listensocks_disabled, pollVars,
                 events, current, timeout_time, conns_this_child, workerVars,
                 mpc>>

(* ... and after the wait, which is not repeated: APR_SUCCESS and APR_EOF  *)
(* both count as a worker reserved.                                        *)
Awake ==
  /\ lpc = "blocked" /\ ~waiting
  /\ have_idle_worker' = TRUE
  /\ lpc' = AfterWait
  /\ UNCHANGED <<fdqueueVars, connVars, exitVars, listensocks_disabled,
                 pollVars, events, current, workers_were_busy, timeout_time,
                 conns_this_child, workerVars, mpc>>

(* A listening socket is ready, but accepting is off, is turned off now    *)
(* for want of workers, or over.                                           *)
AcceptRefused ==
  /\ lpc = "events" /\ Accept \in events
  /\ events' = events \ {Accept}
  /\ \/ /\ \/ listensocks_disabled
           \/ /\ ~workers_were_busy /\ ~connections_above_limit
              /\ listener_may_exit
        /\ UNCHANGED <<listensocks_disabled, workers_were_busy>>
     \/ /\ ~listensocks_disabled
        /\ workers_were_busy \/ connections_above_limit
        /\ listensocks_disabled' = TRUE
        /\ workers_were_busy' = TRUE
  /\ UNCHANGED <<fdqueueVars, connVars, exitVars, pollVars, lpc, current,
                 have_idle_worker, timeout_time, conns_this_child,
                 workerVars, mpc>>

AcceptEvent ==
  /\ lpc = "events" /\ Accept \in events
  /\ ~listensocks_disabled /\ ~workers_were_busy
  /\ ~connections_above_limit /\ ~listener_may_exit
  /\ events' = events \ {Accept}
  /\ current' = Accept
  /\ GetWorkerBlocking("accept")
  /\ UNCHANGED <<infoTerminated, waiting, queue, timers, queueTerminated,
                 sleeping, connVars, exitVars, listensocks_disabled, pollVars,
                 workers_were_busy, timeout_time, conns_this_child,
                 workerVars, mpc>>

(* accept_func and push2worker; if accept() fails the reserved worker is   *)
(* kept for the next event.                                                *)
AcceptConn ==
  /\ lpc = "accept"
  /\ \/ \E c \in Conns :
          /\ state[c] = "closed"
          /\ state' = [state EXCEPT ![c] = "accepted"]
          /\ conns_this_child' = IF MaxConnectionsPerChild = 0 THEN 0
                                 ELSE conns_this_child - 1
          /\ ap_queue_push_socket(c)
          /\ have_idle_worker' = FALSE
     \/ UNCHANGED <<state, conns_this_child, queue, sleeping, have_idle_worker>>
  /\ current' = NoConn
  /\ lpc' = "events"
  /\ UNCHANGED <<idlers, infoTerminated, waiting, timers, queueTerminated,
                 wc_q, ka_q, linger_q, defer_linger_chain, connection_count,
                 lingering_count, exitVars, listensocks_disabled, pollVars,
                 events, workers_were_busy, timeout_time, workerVars, mpc>>

(* Mutant: the connection stays in the write completion queue. *)
WriteEvent_NotRemoved(c) ==
  /\ lpc = "events" /\ c \in events /\ state[c] = "wc"
  /\ events' = events \ {c}
  /\ current' = c
  /\ GetWorkerBlocking("push")
  /\ UNCHANGED <<infoTerminated, waiting, queue, timers, queueTerminated,
                 sleeping, connVars, exitVars, listensocks_disabled, pollVars,
                 workers_were_busy, timeout_time, conns_this_child,
                 workerVars, mpc>>

(* A parked connection is ready: it leaves its queue and the pollset.      *)
(* Write completion waits for a worker ...                                 *)
WriteEvent(c) ==
  /\ lpc = "events" /\ c \in events /\ state[c] = "wc"
  /\ events' = events \ {c}
  /\ wc_q' = wc_q \ {c}
  /\ current' = c
  /\ GetWorkerBlocking("push")
  /\ UNCHANGED <<infoTerminated, waiting, queue, timers, queueTerminated,
                 sleeping, state, ka_q, linger_q, defer_linger_chain,
                 connection_count, lingering_count, exitVars,
                 listensocks_disabled, pollVars, workers_were_busy,
                 timeout_time, conns_this_child, workerVars, mpc>>

(* ... a request on a kept-alive connection and data on a lingering one do *)
(* not: without a worker the first is closed by a worker later on, the     *)
(* second is reset here.                                                   *)
GotWorker == have_idle_worker \/ IdlerAvailable

TakeWorker ==
  IF have_idle_worker THEN UNCHANGED idlers ELSE try_get_idler

stop_lingering_close(S) ==
  /\ push_pools(S)
  /\ \E T \in SUBSET sleeping :
       /\ Cardinality(T) =
            IF ~dying THEN 0
            ELSE IF Cardinality(S) < Cardinality(sleeping)
                 THEN Cardinality(S) ELSE Cardinality(sleeping)
       /\ sleeping' = sleeping \ T

ReadEvent(c) ==
  /\ lpc = "events" /\ c \in events /\ state[c] \in {"ka", "lingering"}
  /\ events' = events \ {c}
  /\ ka_q' = ka_q \ {c}
  /\ linger_q' = linger_q \ {c}
  /\ IF GotWorker
     THEN /\ TakeWorker
          /\ have_idle_worker' = TRUE
          /\ current' = c
          /\ lpc' = "push"
          /\ state' = [state EXCEPT ![c] = IF @ = "ka" THEN "read" ELSE @]
          /\ UNCHANGED <<sleeping, defer_linger_chain, connection_count,
                         lingering_count, wakeup, workers_were_busy>>
     ELSE /\ workers_were_busy' = TRUE
          /\ IF state[c] = "ka"
             THEN /\ state' = [state EXCEPT ![c] = "read"]
                  /\ defer_linger_chain' = defer_linger_chain \union {c}
                  /\ UNCHANGED <<sleeping, connection_count, lingering_count,
                                 wakeup>>
             ELSE /\ stop_lingering_close({c})
                  /\ UNCHANGED defer_linger_chain
          /\ UNCHANGED <<idlers, have_idle_worker, current, lpc>>
  /\ UNCHANGED <<infoTerminated, waiting, queue, timers, queueTerminated,
                 wc_q, exitVars, listensocks_disabled, queues_next_expiry,
                 timeout_time, conns_this_child, workerVars, mpc>>

push2worker ==
  /\ lpc = "push"
  /\ ap_queue_push_socket(current)
  /\ have_idle_worker' = FALSE
  /\ current' = NoConn
  /\ lpc' = "events"
  /\ UNCHANGED <<idlers, infoTerminated, waiting, timers, queueTerminated,
                 connVars, exitVars, listensocks_disabled, pollVars, events,
                 workers_were_busy, timeout_time, conns_this_child,
                 workerVars, mpc>>

(* After the events, if the expiry read before poll() has passed:          *)
(* process_timeout_queue on one queue after the other.  The entries S of   *)
(* the queue go, the oldest of those that stay may be the next expiry, and *)
(* timeout_mutex is free while S is dealt with, before the next queue.     *)
Expiring == <<idlers, infoTerminated, waiting, queue, timers, queueTerminated,
              exitVars, listensocks_disabled, events, current,
              workers_were_busy, have_idle_worker, timeout_time,
              conns_this_child, workerVars, mpc>>

(* Kept-alive connections all go if the workers are busy or the child is   *)
(* dying.  This is the first queue: the next expiry is computed anew.      *)
ProcessKeepalives(S) ==
  /\ lpc = "events" /\ events = {}
  /\ timeout_time
  /\ S \subseteq ka_q /\ (workers_were_busy \/ dying => S = ka_q)
  /\ ka_q' = ka_q \ S
  /\ defer_linger_chain' = defer_linger_chain \union S
  /\ queues_next_expiry' = (ka_q # S)
  /\ lpc' = "expire_wc"
  /\ UNCHANGED <<Expiring, sleeping, state, wc_q, linger_q, connection_count,
                 lingering_count, wakeup>>

ProcessWriteCompletions(S) ==
  /\ lpc = "expire_wc"
  /\ S \subseteq wc_q
  /\ wc_q' = wc_q \ S
  /\ defer_linger_chain' = defer_linger_chain \union S
  /\ queues_next_expiry' = (queues_next_expiry \/ wc_q # S)
  /\ lpc' = "expire_linger"
  /\ UNCHANGED <<Expiring, sleeping, state, ka_q, linger_q, connection_count,
                 lingering_count, wakeup>>

(* Mutant: the next expiry is that of the last queue alone. *)
ProcessLingering_Overwrites(S) ==
  /\ lpc = "expire_linger"
  /\ S \subseteq linger_q
  /\ linger_q' = linger_q \ S
  /\ stop_lingering_close(S)
  /\ queues_next_expiry' = (linger_q # S)
  /\ lpc' = "defer"
  /\ UNCHANGED <<Expiring, wc_q, ka_q, defer_linger_chain>>

ProcessLingering(S) ==
  /\ lpc = "expire_linger"
  /\ S \subseteq linger_q
  /\ linger_q' = linger_q \ S
  /\ stop_lingering_close(S)
  /\ queues_next_expiry' = (queues_next_expiry \/ linger_q # S)
  /\ lpc' = "defer"
  /\ UNCHANGED <<Expiring, wc_q, ka_q, defer_linger_chain>>

ProcessTimeouts(S) ==
  ProcessKeepalives(S) \/ ProcessWriteCompletions(S) \/ ProcessLingering(S)

(* If it has not, the kept-alive connections may have to go all the same.  *)
SkipExpiry ==
  /\ lpc = "events" /\ events = {}
  /\ LET killed == IF workers_were_busy \/ dying THEN ka_q ELSE {}
     IN  /\ ka_q' = ka_q \ killed
         /\ defer_linger_chain' = defer_linger_chain \union killed
  /\ lpc' = "defer"
  /\ UNCHANGED <<fdqueueVars, state, wc_q, linger_q, connection_count,
                 lingering_count, exitVars, listensocks_disabled, pollVars,
                 events, current, workers_were_busy, have_idle_worker,
                 timeout_time, conns_this_child, workerVars, mpc>>

Expire(c) == \E S \in SUBSET Conns : c \in S /\ ProcessTimeouts(S)

(* Deferred closes are announced to a worker, if one is idle, by an empty  *)
(* element of the queue, unless they are gone by then.                     *)
GetDeferWorker ==
  /\ lpc = "defer"
  /\ IF defer_linger_chain = {}
     THEN lpc' = "enable" /\ UNCHANGED <<idlers, have_idle_worker, workers_were_busy>>
     ELSE IF GotWorker
     THEN /\ TakeWorker
          /\ have_idle_worker' = TRUE
          /\ lpc' = "retest"
          /\ UNCHANGED workers_were_busy
     ELSE /\ workers_were_busy' = TRUE
          /\ lpc' = "enable"
          /\ UNCHANGED <<idlers, have_idle_worker>>
  /\ UNCHANGED <<infoTerminated, waiting, queue, timers, queueTerminated,
                 sleeping, connVars, exitVars, listensocks_disabled, pollVars,
                 events, current, timeout_time, conns_this_child, workerVars,
                 mpc>>

PushDeferred ==
  /\ lpc = "retest"
  /\ lpc' = "enable"
  /\ IF defer_linger_chain # {}
     THEN ap_queue_push_socket(NoConn) /\ have_idle_worker' = FALSE
     ELSE UNCHANGED <<queue, sleeping, have_idle_worker>>
  /\ UNCHANGED <<idlers, infoTerminated, waiting, timers, queueTerminated,
                 connVars, exitVars, listensocks_disabled, pollVars, events,
                 current, workers_were_busy, timeout_time, conns_this_child,
                 workerVars, mpc>>

enable_listensocks ==
  /\ lpc = "enable"
  /\ lpc' = "top"
  /\ listensocks_disabled' =
       /\ listensocks_disabled
       /\ \/ workers_were_busy \/ connections_above_limit
          \/ listener_may_exit
  /\ UNCHANGED <<fdqueueVars, connVars, exitVars, pollVars, events, current,
                 workers_were_busy, have_idle_worker, timeout_time,
                 conns_this_child, workerVars, mpc>>

ListenerExit ==
  /\ lpc = "term"
  /\ lpc' = "exit"
  /\ ap_queue_term
  /\ UNCHANGED <<idlers, infoTerminated, waiting, queue, timers, connVars,
                 exitVars, listensocks_disabled, pollVars, events, current,
                 workers_were_busy, have_idle_worker, timeout_time,
                 conns_this_child, workerVars, mpc>>

ListenerStep ==
  \/ check_infinite_requests \/ Top \/ Recheck \/ Count \/ Prepare \/ PollQuiet
  \/ Locking \/ Awake \/ AcceptRefused \/ AcceptEvent \/ AcceptConn
  \/ \E c \in Conns : WriteEvent(c) \/ ReadEvent(c)
  \/ push2worker \/ SkipExpiry
  \/ \E S \in SUBSET Conns : ProcessTimeouts(S)
  \/ GetDeferWorker \/ PushDeferred \/ enable_listensocks \/ ListenerExit

-----------------------------------------------------------------------------
(* The worker threads.                                                     *)

GoTo(w, label) == wpc' = [wpc EXCEPT ![w] = label]

(* The top of the loop: ap_queue_info_set_idle unless still counted.       *)
SetIdle(w) ==
  /\ wpc[w] = "idle"
  /\ IF workers_may_exit \/ is_idle[w]
     THEN /\ GoTo(w, IF workers_may_exit THEN "exit" ELSE "check")
          /\ UNCHANGED <<idlers, is_idle>>
     ELSE /\ set_idle
          /\ is_idle' = [is_idle EXCEPT ![w] = TRUE]
          /\ GoTo(w, IF OwesSignal THEN "signal" ELSE "check")
  /\ UNCHANGED <<infoTerminated, waiting, queue, timers, queueTerminated,
                 sleeping, connVars, exitVars, listensocks_disabled, pollVars,
                 listenerVars, cs, mpc>>

SignalIdler(w) ==
  /\ wpc[w] = "signal"
  /\ signal_idler
  /\ GoTo(w, "check")
  /\ UNCHANGED <<idlers, infoTerminated, queue, timers, queueTerminated,
                 sleeping, connVars, exitVars, listensocks_disabled, pollVars,
                 listenerVars, cs, is_idle, mpc>>

(* worker_pop: leave if told to, or if the child is dying and has more     *)
(* threads than connections (worker_thread_should_exit_early).             *)
ShouldExitEarly == dying /\ connection_count < threads_per_child - threads_shutdown

CheckExit(w) ==
  /\ wpc[w] = "check"
  /\ IF workers_may_exit
     THEN GoTo(w, "exit") /\ UNCHANGED threads_shutdown
     ELSE IF ShouldExitEarly
     THEN GoTo(w, "exit") /\ threads_shutdown' = threads_shutdown + 1
     ELSE GoTo(w, "pop") /\ UNCHANGED threads_shutdown
  /\ UNCHANGED <<fdqueueVars, connVars, listener_may_exit, workers_may_exit,
                 dying, terminate_mode, listensocks_disabled, pollVars,
                 listenerVars, cs, is_idle, mpc>>

(* ap_queue_pop_something finds the queue empty ...                        *)
PopNothing(w) ==
  /\ ap_queue_empty
  /\ \/ /\ wpc[w] = "pop" /\ ~queueTerminated
        /\ GoTo(w, "sleep")
        /\ sleeping' = sleeping \union {w}
     \/ /\ wpc[w] = "sleep" /\ w \notin sleeping /\ ~queueTerminated
        /\ GoTo(w, "check")
        /\ UNCHANGED sleeping
     \/ /\ wpc[w] \in {"pop", "sleep"} /\ w \notin sleeping /\ queueTerminated
        /\ GoTo(w, "exit")
        /\ UNCHANGED sleeping
  /\ UNCHANGED <<idlers, infoTerminated, waiting, queue, timers,
                 queueTerminated, connVars, exitVars, listensocks_disabled,
                 pollVars, listenerVars, cs, is_idle, mpc>>

(* ... or takes a timer, which leaves the worker counted as idle, ...      *)
PopTimer(w) ==
  /\ wpc[w] \in {"pop", "sleep"} /\ w \notin sleeping
  /\ pop_timer
  /\ GoTo(w, "timer")
  /\ UNCHANGED <<idlers, infoTerminated, waiting, queueTerminated, sleeping,
                 connVars, exitVars, listensocks_disabled, pollVars,
                 listenerVars, cs, is_idle, mpc>>

(* ... or a socket, or the empty element that announces deferred closes.   *)
PopSocket(w) ==
  /\ wpc[w] \in {"pop", "sleep"} /\ w \notin sleeping
  /\ pop_socket
  /\ is_idle' = [is_idle EXCEPT ![w] = FALSE]
  /\ cs' = [cs EXCEPT ![w] = Head(queue)]
  /\ GoTo(w, IF Head(queue) = NoConn THEN "defer" ELSE "start")
  /\ UNCHANGED <<idlers, infoTerminated, waiting, queueTerminated, sleeping,
                 connVars, exitVars, listensocks_disabled, pollVars,
                 listenerVars, mpc>>

TimerCallback(w) ==
  /\ wpc[w] = "timer"
  /\ GoTo(w, "defer")
  /\ UNCHANGED <<fdqueueVars, connVars, exitVars, listensocks_disabled,
                 pollVars, listenerVars, cs, is_idle, mpc>>

(* Mutant: the connection is counted before it is known to be there. *)
Start_CountsGone(w) ==
  LET c == cs[w]
      new == state[c] = "accepted"
  IN  /\ wpc[w] = "start"
      /\ connection_count' = IF new THEN connection_count + 1 ELSE connection_count
      /\ \/ /\ state' = [state EXCEPT ![c] = IF new THEN "read" ELSE @]
            /\ GoTo(w, IF state[c] = "lingering" THEN "drain" ELSE "serve")
            /\ UNCHANGED cs
         \/ /\ new
            /\ state' = [state EXCEPT ![c] = "closed"]
            /\ GoTo(w, "defer")
            /\ cs' = [cs EXCEPT ![w] = NoConn]
      /\ UNCHANGED <<fdqueueVars, wc_q, ka_q, linger_q, defer_linger_chain,
                     lingering_count, exitVars, listensocks_disabled,
                     pollVars, listenerVars, is_idle, mpc>>

(* process_socket.  A new connection gets its cs and is counted, unless it *)
(* is gone already; one that is back goes on where it was.                 *)
Start(w) ==
  LET c == cs[w]
  IN  /\ wpc[w] = "start"
      /\ \/ /\ state[c] = "accepted"
            /\ state' = [state EXCEPT ![c] = "read"]
            /\ connection_count' = connection_count + 1
            /\ GoTo(w, "serve")
            /\ UNCHANGED cs
         \/ /\ state[c] = "accepted"
            /\ state' = [state EXCEPT ![c] = "closed"]
            /\ GoTo(w, "defer")
            /\ cs' = [cs EXCEPT ![w] = NoConn]
            /\ UNCHANGED connection_count
         \/ /\ state[c] # "accepted"
            /\ GoTo(w, IF state[c] = "lingering" THEN "drain" ELSE "serve")
            /\ UNCHANGED <<state, connection_count, cs>>
      /\ UNCHANGED <<fdqueueVars, wc_q, ka_q, linger_q, defer_linger_chain,
                     lingering_count, exitVars, listensocks_disabled,
                     pollVars, listenerVars, is_idle, mpc>>

(* The worker is done with its connection for now.                         *)
Leave(w) ==
  /\ cs' = [cs EXCEPT ![w] = NoConn]
  /\ GoTo(w, "defer")

(* Requests are read and answered, then output is still to be written, or  *)
(* the connection is kept alive, or it is to be closed.                    *)
Serve(w) ==
  LET c == cs[w]
  IN  /\ wpc[w] = "serve"
      /\ \/ /\ state' = [state EXCEPT ![c] = "wc"]
            /\ wc_q' = wc_q \union {c}
            /\ TO_QUEUE_APPEND
            /\ Leave(w)
            /\ UNCHANGED ka_q
         \/ /\ ~listener_may_exit
            /\ state' = [state EXCEPT ![c] = "ka"]
            /\ ka_q' = ka_q \union {c}
            /\ TO_QUEUE_APPEND
            /\ Leave(w)
            /\ UNCHANGED wc_q
         \/ /\ state' = [state EXCEPT ![c] = "linger"]
            /\ GoTo(w, "linger")
            /\ UNCHANGED <<wc_q, ka_q, pollVars, cs>>
      /\ UNCHANGED <<fdqueueVars, linger_q, defer_linger_chain,
                     connection_count, lingering_count, exitVars,
                     listensocks_disabled, listenerVars, is_idle, mpc>>

(* The connection is closed, and its pool recycled.                        *)
CloseConn(w) ==
  /\ push_pools({cs[w]})
  /\ Leave(w)
  /\ UNCHANGED <<linger_q, queues_next_expiry>>

(* start_lingering_close_blocking                                          *)
Linger(w) ==
  LET c == cs[w]
  IN  /\ wpc[w] = "linger"
      /\ \/ CloseConn(w)
         \/ /\ state' = [state EXCEPT ![c] = "lingering"]
            /\ lingering_count' = lingering_count + 1
            /\ GoTo(w, "drain")
            /\ UNCHANGED <<linger_q, connection_count, pollVars, cs>>
      /\ UNCHANGED <<fdqueueVars, wc_q, ka_q, defer_linger_chain, exitVars,
                     listensocks_disabled, listenerVars, is_idle, mpc>>

(* process_lingering_close                                                 *)
Drain(w) ==
  LET c == cs[w]
  IN  /\ wpc[w] = "drain"
      /\ \/ CloseConn(w)
         \/ /\ linger_q' = linger_q \union {c}
            /\ TO_QUEUE_APPEND
            /\ Leave(w)
            /\ UNCHANGED <<state, connection_count, lingering_count>>
      /\ UNCHANGED <<fdqueueVars, wc_q, ka_q, defer_linger_chain, exitVars,
                     listensocks_disabled, listenerVars, is_idle, mpc>>

(* The loop over the deferred closes.                                      *)
Deferred(w) ==
  /\ wpc[w] = "defer"
  /\ IF workers_may_exit \/ defer_linger_chain = {}
     THEN /\ GoTo(w, "idle")
          /\ UNCHANGED <<state, defer_linger_chain, cs>>
     ELSE \E c \in defer_linger_chain :
            /\ defer_linger_chain' = defer_linger_chain \ {c}
            /\ state' = [state EXCEPT ![c] = "linger"]
            /\ cs' = [cs EXCEPT ![w] = c]
            /\ GoTo(w, "linger")
  /\ UNCHANGED <<fdqueueVars, wc_q, ka_q, linger_q, connection_count,
                 lingering_count, exitVars, listensocks_disabled, pollVars,
                 listenerVars, is_idle, mpc>>

Worker(w) ==
  \/ SetIdle(w) \/ SignalIdler(w) \/ CheckExit(w)
  \/ PopNothing(w) \/ PopTimer(w) \/ PopSocket(w) \/ TimerCallback(w)
  \/ Start(w) \/ Serve(w) \/ Linger(w) \/ Drain(w) \/ Deferred(w)

-----------------------------------------------------------------------------
(* The main thread: child_main waits on the pipe of death, or for the      *)
(* listener to have started a termination, then signal_threads and         *)
(* join_workers.                                                           *)

MainVars == <<connVars, workers_may_exit, dying, threads_shutdown,
              queues_next_expiry, listenerVars, workerVars>>

WakeListener ==
  /\ listener_may_exit' = TRUE
  /\ listensocks_disabled' = TRUE
  /\ wakeup' = TRUE

(* signal_threads(mode), first half of wakeup_listener                     *)
SignalThreads(mode) ==
  /\ mpc = "run"
  /\ terminate_mode \in {"init", "graceful"} \ {mode}
  /\ terminate_mode' = mode
  /\ WakeListener
  /\ mpc' = "term"
  /\ UNCHANGED <<fdqueueVars, MainVars>>

(* Mutant: any interrupted read of the pipe of death ends the child. *)
NoticeTermination_Unchecked ==
  /\ mpc = "run"
  /\ mpc' = "join"
  /\ UNCHANGED <<fdqueueVars, terminate_mode, listener_may_exit,
                 listensocks_disabled, wakeup, MainVars>>

(* It has no effect if the listener came first, of which the main thread   *)
(* learns by the SIGTERM of close_listeners.                               *)
NoticeTermination ==
  /\ mpc = "run" /\ terminate_mode # "init"
  /\ mpc' = "join"
  /\ UNCHANGED <<fdqueueVars, terminate_mode, listener_may_exit,
                 listensocks_disabled, wakeup, MainVars>>

(* second half of wakeup_listener                                          *)
TermQueueInfo ==
  /\ mpc = "term"
  /\ ap_queue_info_term
  /\ mpc' = IF terminate_mode = "ungraceful" THEN "kill" ELSE "join"
  /\ UNCHANGED <<idlers, queue, timers, queueTerminated, sleeping,
                 terminate_mode, listener_may_exit, listensocks_disabled,
                 wakeup, MainVars>>

(* The rest of signal_threads(ST_UNGRACEFUL): workers may exit, and        *)
(* close_worker_sockets empties the chain without a word to the counters.  *)
KillWorkers ==
  /\ mpc = "kill"
  /\ workers_may_exit' = TRUE
  /\ ap_queue_interrupt_all
  /\ defer_linger_chain' = {}
  /\ mpc' = "join"
  /\ UNCHANGED <<idlers, infoTerminated, waiting, queue, timers,
                 queueTerminated, state, wc_q, ka_q, linger_q,
                 connection_count, lingering_count, terminate_mode,
                 listener_may_exit, dying, threads_shutdown,
                 listensocks_disabled, pollVars, listenerVars, workerVars>>

(* join_workers wakes the listener again, while it has not stopped         *)
(* accepting, up to ten times.                                             *)
WakeAgain ==
  /\ mpc = "join" /\ ~dying
  /\ WakeListener
  /\ ap_queue_info_term
  /\ UNCHANGED <<idlers, queue, timers, queueTerminated, sleeping,
                 terminate_mode, MainVars, mpc>>

ThreadsExited == lpc = "exit" /\ \A w \in Workers : wpc[w] = "exit"

ChildExit ==
  /\ mpc = "join" /\ ThreadsExited
  /\ mpc' = "exit"
  /\ UNCHANGED <<fdqueueVars, terminate_mode, listener_may_exit,
                 listensocks_disabled, wakeup, MainVars>>

Main == NoticeTermination \/ TermQueueInfo \/ KillWorkers \/ ChildExit

Next ==
  \/ ListenerStep \/ PollReady
  \/ \E w \in Workers : Worker(w)
  \/ Main
  \/ \E mode \in {"graceful", "ungraceful"} : SignalThreads(mode)
  \/ WakeAgain

Spec == Init /\ [][Next]_vars

(* Every thread that can take a step takes one: the kernel schedules them  *)
(* all and handlers end, while nothing is asked of the clients.  The ten   *)
(* wake-ups of join_workers, half a second apart, outlast the listener's   *)
(* way to its wait.  Time passes: so does the next expiry that is read     *)
(* time and again, and an entry that is there time and again when its      *)
(* queue is processed has expired.                                         *)
FairSpec ==
  /\ Spec
  /\ WF_vars(ListenerStep) /\ WF_vars(Main) /\ WF_vars(WakeAgain)
  /\ \A w \in Workers : WF_vars(Worker(w))
  /\ SF_vars(\E S \in SUBSET Conns : ProcessKeepalives(S))
  /\ \A c \in Conns : SF_vars(Expire(c))

-----------------------------------------------------------------------------
(* Properties.                                                             *)

Held(c) == {w \in Workers : cs[w] = c}
Queued(c) == {i \in DOMAIN queue : queue[i] = c}

(* The type invariant of the child's threads, queues, counters and flags.  *)
TypeOK ==
  /\ idlers \in Int
  /\ queue \in Seq(Conns \union {NoConn})
  /\ timers \in 0 .. MaxTimers
  /\ sleeping \subseteq Workers
  /\ {infoTerminated, waiting, queueTerminated} \subseteq BOOLEAN
  /\ state \in [Conns -> {"closed", "accepted", "read", "wc", "ka",
                         "linger", "lingering"}]
  /\ Parked \union defer_linger_chain \subseteq Conns
  /\ connection_count \in Nat /\ lingering_count \in Nat
  /\ threads_shutdown \in 0 .. threads_per_child
  /\ conns_this_child \in Int
  /\ {listener_may_exit, workers_may_exit, dying, listensocks_disabled,
      queues_next_expiry, wakeup, workers_were_busy, have_idle_worker,
      timeout_time} \subseteq BOOLEAN
  /\ terminate_mode \in {"init", "graceful", "ungraceful"}
  /\ events \subseteq Conns \union {Accept}
  /\ current \in Conns \union {NoConn, Accept}
  /\ cs \in [Workers -> Conns \union {NoConn}]
  /\ is_idle \in [Workers -> BOOLEAN]

Reserved == IF have_idle_worker \/ lpc \in {"locking", "blocked"} THEN 1 ELSE 0

(* The counter of idle workers, which four kinds of step of two kinds of   *)
(* thread change without a lock, is exact: the workers that announced      *)
(* themselves by ap_queue_info_set_idle, less the sockets that wait for    *)
(* them in the queue, less the reservation of the listener's get_worker.   *)
IdlersAccounted ==
  idlers = Cardinality({w \in Workers : is_idle[w]}) - Len(queue) - Reserved

Open == {c \in Conns : state[c] \notin {"closed", "accepted"}}

(* connection_count and lingering_count, which decide when to stop         *)
(* accepting and when a graceful stop is complete, are exact, however a    *)
(* connection is closed: by a worker, by the listener for want of one, by  *)
(* a timeout (decrement_connection_count runs once for each).              *)
CountsExact ==
  /\ connection_count = Cardinality(Open)
  /\ lingering_count = Cardinality({c \in Conns : state[c] = "lingering"})

Holders(c) ==
  Cardinality(Held(c)) + Cardinality(Queued(c))
  + Cardinality({q \in {<<1, wc_q>>, <<2, ka_q>>, <<3, linger_q>>,
                        <<4, defer_linger_chain>>, <<5, {current}>>} : c \in q[2]})

(* A connection is in one place: with one worker, once in the queue, in    *)
(* one timeout queue, in the deferred chain or in the listener's hands.    *)
(* So no pool is recycled while somebody uses it, and none is forgotten,   *)
(* except by the close_worker_sockets of an ungraceful stop.  (Once the    *)
(* ring has been overrun all bets are off.)                                *)
OneHolder ==
  ~Overrun => \A c \in Conns :
    /\ Holders(c) <= IF state[c] = "closed" THEN 0 ELSE 1
    /\ Holders(c) = 0 => workers_may_exit \/ state[c] = "closed"

(* The connections in queues that the listener has yet to process.         *)
Unprocessed ==
  IF lpc = "expire_wc" THEN wc_q \union linger_q
  ELSE IF lpc = "expire_linger" THEN linger_q ELSE {}

(* As long as a connection is parked the next expiry is set, whatever the  *)
(* order in which workers append and the listener processes the queues, or *)
(* else the listener is just processing the queues and has not come to     *)
(* this one: no timeout is forgotten (queues_next_expiry, TO_QUEUE_APPEND, *)
(* process_timeout_queue).                                                 *)
TimeoutsArmed == Parked # Unprocessed => queues_next_expiry

(* The listener that leaves its loop in a graceful stop leaves nothing     *)
(* behind: no connection parked, deferred or with a worker that has begun  *)
(* it (the test of connection_count = 0 after close_listeners).            *)
ListenerLeavesNothing ==
  [][(lpc # "term" /\ lpc' = "term" /\ terminate_mode = "graceful") =>
       /\ Parked \union defer_linger_chain = {}
       /\ \A w \in Workers : cs[w] # NoConn => state[cs[w]] = "accepted"]_vars

ChildPhase ==
  IF mpc = "exit" THEN "exited" ELSE IF terminate_mode # "init" THEN "quitting" ELSE "up"

Child == INSTANCE ChildProcess WITH phase <- ChildPhase

(* The child is what its parent takes it for: from up it goes to quitting  *)
(* and from there, when all threads have been joined, to its exit, and     *)
(* never back (child_main, signal_threads).                                *)
ImplementsChild == Child!ChildSpec

(* Clients fall silent: they send no more and read no more.                *)
Silent == <>[](events \subseteq {Accept} /\ timers = 0)

(* The listener sleeps without a timeout while a close is deferred to the  *)
(* workers, none of whom has been told.                                    *)
Starved ==
  /\ lpc = "poll" /\ ~wakeup /\ ~timeout_time
  /\ defer_linger_chain # {} /\ queue = <<>>

(* The listener waits for a worker, and there are none any more.           *)
Stranded ==
  /\ lpc = "blocked" /\ waiting /\ dying
  /\ \A w \in Workers : wpc[w] = "exit"

(* A child told to stop does: once the clients are silent every thread     *)
(* leaves, by timeouts if need be, and join_workers returns.  The          *)
(* exceptions are the three accidents of the code: the ring overrun, the   *)
(* deferred close that nobody was told of, and the listener that went to   *)
(* wait for a worker after the broadcast of ap_queue_info_term, when the   *)
(* child was dying already and join_workers therefore does not repeat it.  *)
ShutdownEnds ==
  Silent => ((terminate_mode # "init")
               ~> (mpc = "exit" \/ Overrun \/ Starved \/ Stranded))

(* A parked connection does not stay parked: its client is heard, or its   *)
(* timeout expires, or the listener has gone.                              *)
ParkedMovesOn ==
  \A c \in Conns : (c \in Parked) ~> (c \notin Parked \/ lpc = "exit")

(* What decrement_connection_count says of itself: it unblocks the         *)
(* listener if the listening sockets were disabled due to limits and can   *)
(* now accept new connections.  So a child that is not stopping, and whose *)
(* clients fall silent, accepts again when their connections have gone.    *)
AcceptsAgain ==
  Silent => ((listensocks_disabled /\ connection_count > 0 /\ terminate_mode = "init")
               ~> (~listensocks_disabled \/ terminate_mode # "init"))
=============================================================================
