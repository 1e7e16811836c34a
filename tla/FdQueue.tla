------------------------------ MODULE FdQueue ------------------------------
(***************************************************************************)
(* server/mpm_fdqueue.c: the queue by which the listener thread of an      *)
(* httpd child hands sockets to its worker threads, and the counter of     *)
(* idle workers by which it reserves one first.  Every operator below is   *)
(* one critical section, or one atomic instruction, of the C code; the     *)
(* threads that call them are in EventChild.                               *)
(*                                                                         *)
(* Conventions.  idlers is relative to zero_pt: n here is zero_pt + n      *)
(* there.  A thread in apr_thread_cond_wait is in the set of sleepers of   *)
(* the condition variable; a signal takes it out of the set, and it goes   *)
(* on once it has the mutex back.                                          *)
(***************************************************************************)
EXTENDS Integers, Sequences, FiniteSets

CONSTANT Workers   \* the worker threads; their number is threads_per_child

threads_per_child == Cardinality(Workers)

VARIABLES
  idlers,           \* queue_info->idlers - zero_pt
  infoTerminated,   \* queue_info->terminated
  waiting,          \* is the listener asleep on wait_for_idler?
  queue,            \* the nelts elements from data[out] on
  timers,           \* how many timers are in queue->timers
  queueTerminated,  \* queue->terminated
  sleeping          \* the workers asleep on not_empty

fdqueueVars ==
  <<idlers, infoTerminated, waiting, queue, timers, queueTerminated, sleeping>>

FdQueueInit ==
  /\ idlers = 0
  /\ infoTerminated = FALSE
  /\ waiting = FALSE
  /\ queue = <<>>
  /\ timers = 0
  /\ queueTerminated = FALSE
  /\ sleeping = {}

-----------------------------------------------------------------------------
(* queue_info: the idle worker count.                                      *)

(* The increment of ap_queue_info_set_idle.  Its caller owes a signal if   *)
(* the count was negative before.                                          *)
set_idle == idlers' = idlers + 1
OwesSignal == idlers < 0

(* Its apr_thread_cond_signal, in a critical section of its own.           *)
signal_idler == waiting' = FALSE

(* ap_queue_info_try_get_idler: the compare-and-swap that succeeds.        *)
IdlerAvailable == idlers > 0
try_get_idler == IdlerAvailable /\ idlers' = idlers - 1

(* ap_queue_info_wait_for_idler: the decrement, then, if there was nobody  *)
(* idle, the test with the mutex held, which may put the caller to sleep.  *)
wait_for_idler == idlers' = idlers - 1
MustLock == idlers <= 0
MustSleep == idlers < 0

ap_queue_info_num_idlers == IF idlers > 0 THEN idlers ELSE 0

ap_queue_info_term ==
  /\ infoTerminated' = TRUE
  /\ waiting' = FALSE

-----------------------------------------------------------------------------
(* The queue of sockets and timers.                                        *)

ap_queue_empty == queue = <<>> /\ timers = 0

(* apr_thread_cond_signal and apr_thread_cond_broadcast on not_empty.      *)
signal_not_empty ==
  \/ sleeping = {} /\ UNCHANGED sleeping
  \/ \E w \in sleeping : sleeping' = sleeping \ {w}

(* ap_queue_push_socket.  data is a ring of threads_per_child elements: a  *)
(* push into a full one lands on the oldest element, which is lost, and    *)
(* the new one will be popped twice.                                       *)
ap_queue_full == Len(queue) >= threads_per_child
Overrun == Len(queue) > threads_per_child

ap_queue_push_socket(e) ==
  /\ queue' = Append(IF ap_queue_full
                     THEN [queue EXCEPT ![Len(queue) + 1 - threads_per_child] = e]
                     ELSE queue,
                     e)
  /\ signal_not_empty

ap_queue_push_timer ==
  /\ timers' = timers + 1
  /\ signal_not_empty

(* The two ways ap_queue_pop_something succeeds: timers go first.  The     *)
(* model hands out no socket once the ring has been overrun.               *)
pop_timer ==
  /\ timers > 0
  /\ timers' = timers - 1
  /\ UNCHANGED queue

pop_socket ==
  /\ timers = 0
  /\ ~Overrun
  /\ queue # <<>>
  /\ queue' = Tail(queue)
  /\ UNCHANGED timers

ap_queue_interrupt_all == sleeping' = {}

ap_queue_term ==
  /\ queueTerminated' = TRUE
  /\ sleeping' = {}
=============================================================================
