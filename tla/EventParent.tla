---------------------------- MODULE EventParent ----------------------------
(***************************************************************************)
(* The parent process of httpd's event MPM: event_run with its             *)
(* server_main_loop, which starts child processes, reaps them, keeps the   *)
(* number of idle threads between two bounds, and restarts or stops the    *)
(* lot on a signal.  A child is what module ChildProcess says, plus the    *)
(* ways in which it can fail; there is one listener bucket.                *)
(*                                                                         *)
(* How many threads of a child are idle or active is not part of the       *)
(* state: the parent reads it from shared memory while the children write, *)
(* so that any number that its phase allows may be read.  active_daemons   *)
(* is left out: it is only ever logged.                                    *)
(***************************************************************************)
EXTENDS Integers, FiniteSets

CONSTANTS
  server_limit, active_daemons_limit, threads_per_child,
  min_spare_threads, max_spare_threads, ap_daemons_to_start,
  MAX_SPAWN_RATE,
  HOLD_OFF,        \* maintenance cycles without doubling after a graceful restart
  MaxGeneration,   \* bound: restarts
  MaxFaults,       \* bound: crashes, failing children and failing forks
  MaxPod           \* bound: bytes of one generation for children to be spared

ASSUME EventParentAssumption ==
  /\ {server_limit, active_daemons_limit, threads_per_child,
      min_spare_threads, ap_daemons_to_start, MAX_SPAWN_RATE} \subseteq Nat \ {0}
  /\ {max_spare_threads, HOLD_OFF, MaxGeneration, MaxFaults, MaxPod} \subseteq Nat
  /\ active_daemons_limit <= server_limit
  /\ max_spare_threads > min_spare_threads + threads_per_child

Slots == 0 .. server_limit - 1
Generations == 0 .. MaxGeneration
max_workers == active_daemons_limit * threads_per_child

VARIABLES
  child,        \* the scoreboard slots: "none" (pid 0), or the child's phase;
                \* "sick" and "fatal" are exits with a status of that name
  generation,   \* of the children
  my_generation,
  max_daemons_limit, total_daemons,
  idle_spawn_rate, hold_off_on_exponential_spawning,
  sick_child_detected, had_healthy_child,
  remaining_children_to_start,
  pod,          \* GRACEFUL bytes in the pipe of death of a generation
  restart_pending, shutdown_pending, is_ungraceful,
  ppc,          \* where event_run is; a graceful restart has its own start
  faults,       \* counts towards MaxFaults
  forgotten     \* children reaped by ap_reclaim_child_processes in restarts

signalVars == <<restart_pending, shutdown_pending, is_ungraceful>>
spawnVars == <<idle_spawn_rate, hold_off_on_exponential_spawning>>
healthVars == <<sick_child_detected, had_healthy_child>>
vars == <<child, generation, my_generation, max_daemons_limit, total_daemons,
          spawnVars, healthVars, remaining_children_to_start, pod, signalVars,
          ppc, faults, forgotten>>

Init ==
  /\ child = [s \in Slots |-> "none"]
  /\ generation = [s \in Slots |-> 0]
  /\ my_generation = 0
  /\ max_daemons_limit = -1
  /\ total_daemons = 0
  /\ idle_spawn_rate = 1
  /\ hold_off_on_exponential_spawning = 0
  /\ sick_child_detected = FALSE /\ had_healthy_child = FALSE
  /\ remaining_children_to_start = 0
  /\ pod = [g \in Generations |-> 0]
  /\ restart_pending = FALSE /\ shutdown_pending = FALSE
  /\ is_ungraceful = FALSE
  /\ ppc = "event_run"
  /\ faults = 0
  /\ forgotten = 0

Gone == {"exited", "sick", "fatal"}     \* what wait() has to tell of
Occupied == {s \in Slots : child[s] # "none"}
InPhase(P) == {s \in Slots : child[s] \in P}
CP(s) == INSTANCE ChildProcess WITH phase <- child[s]

-----------------------------------------------------------------------------
(* The parent.                                                             *)

Max(S) == CHOOSE m \in S : \A n \in S : n <= m
(* Mutant: the number of free slots is derived from total_daemons.         *)
FirstFree_ByTotal(F, n) ==
  {s \in F : LET k == Cardinality({t \in F : t < s})
             IN  k < n /\ k < server_limit - total_daemons}

(* The n lowest of the free slots F.                                       *)
FirstFree(F, n) == {s \in F : Cardinality({t \in F : t < s}) < n}

(* make_child for each slot of S, where fork() works for those of T, the   *)
(* slots of "freed" have just been vacated, total daemons stood at "total" *)
(* and the limit at "limit", which is raised before the fork.              *)
make_child(S, T, freed, total, limit) ==
  /\ child' = [s \in Slots |-> IF s \in T THEN "starting"
                               ELSE IF s \in freed THEN "none" ELSE child[s]]
  /\ generation' = [s \in Slots |-> IF s \in T THEN my_generation
                                    ELSE IF s \in freed THEN 0 ELSE generation[s]]
  /\ max_daemons_limit' = Max({limit} \union {s + 1 : s \in S})
  /\ total_daemons' = total + Cardinality(T)

(* fork() may fail, so that only T of the children S come to be.           *)
Forks(S, T) ==
  /\ T \subseteq S
  /\ faults' = faults + Cardinality(S \ T)
  /\ faults' <= MaxFaults

(* startup_children(n) stops at the first failure.                         *)
startup_children(n) ==
  \E k \in 0 .. n :
    LET T == FirstFree(Slots \ Occupied, k)
        S == FirstFree(Slots \ Occupied, IF k < n THEN k + 1 ELSE n)
    IN  /\ faults' = IF T = S THEN faults ELSE faults + 1
        /\ faults' <= MaxFaults
        /\ make_child(S, T, {}, total_daemons, max_daemons_limit)

to_start == IF ap_daemons_to_start > active_daemons_limit
            THEN active_daemons_limit ELSE ap_daemons_to_start

(* event_run up to the main loop.  After a graceful restart the children   *)
(* are replaced as they go.                                                *)
event_run ==
  /\ ppc \in {"event_run", "was_graceful"}
  /\ ppc' = "loop"
  /\ IF ppc = "was_graceful"
     THEN /\ remaining_children_to_start' = to_start
          /\ hold_off_on_exponential_spawning' = HOLD_OFF
          /\ UNCHANGED <<child, generation, max_daemons_limit, total_daemons,
                         faults>>
     ELSE /\ startup_children(to_start)
          /\ remaining_children_to_start' = 0
          /\ UNCHANGED hold_off_on_exponential_spawning
  /\ UNCHANGED <<my_generation, idle_spawn_rate, healthVars, pod, signalVars,
                 forgotten>>

Looping == ppc = "loop" /\ ~restart_pending /\ ~shutdown_pending

(* server_main_loop: a child of this generation is gone with a fatal       *)
(* error, which ends everything ...                                        *)
ReapFatal(s) ==
  /\ Looping
  /\ child[s] = "fatal" /\ generation[s] = my_generation
  /\ shutdown_pending' = TRUE
  /\ UNCHANGED <<child, generation, my_generation, max_daemons_limit,
                 total_daemons, spawnVars, healthVars,
                 remaining_children_to_start, pod, restart_pending,
                 is_ungraceful, ppc, faults, forgotten>>

(* Mutant: total_daemons is not told of the death.                         *)
Reap_TotalKept(s) ==
  /\ Looping
  /\ child[s] \in Gone
  /\ child[s] = "fatal" => generation[s] # my_generation
  /\ sick_child_detected' = (sick_child_detected \/ child[s] # "exited")
  /\ idle_spawn_rate' = IF child[s] = "sick" THEN 1 ELSE idle_spawn_rate
  /\ LET new == IF child[s] # "sick" /\ remaining_children_to_start > 0
                THEN {s} ELSE {}
     IN  /\ \E T \in SUBSET new :
              /\ Forks(new, T)
              /\ make_child(new, T, {s}, total_daemons, max_daemons_limit)
         /\ remaining_children_to_start' =
              remaining_children_to_start - Cardinality(new)
  /\ UNCHANGED <<my_generation, hold_off_on_exponential_spawning,
                 had_healthy_child, pod, signalVars, ppc,
                 forgotten>>

(* ... or another one is, whose slot is free now, or has a new child at    *)
(* once as long as the children of a graceful restart are being replaced.  *)
Reap(s) ==
  /\ Looping
  /\ child[s] \in Gone
  /\ child[s] = "fatal" => generation[s] # my_generation
  /\ sick_child_detected' = (sick_child_detected \/ child[s] # "exited")
  /\ idle_spawn_rate' = IF child[s] = "sick" THEN 1 ELSE idle_spawn_rate
  /\ LET new == IF child[s] # "sick" /\ remaining_children_to_start > 0
                THEN {s} ELSE {}
     IN  /\ \E T \in SUBSET new :
              /\ Forks(new, T)
              /\ make_child(new, T, {s}, total_daemons - 1, max_daemons_limit)
         /\ remaining_children_to_start' =
              remaining_children_to_start - Cardinality(new)
  /\ UNCHANGED <<my_generation, hold_off_on_exponential_spawning,
                 had_healthy_child, pod, signalVars, ppc,
                 forgotten>>

(* Nobody has died: the parent sleeps for a second, while children may     *)
(* die, and looks at no signal before it has done what follows.            *)
Sleep ==
  /\ Looping /\ InPhase(Gone) = {}
  /\ ppc' = "asleep"
  /\ UNCHANGED <<child, generation, my_generation, max_daemons_limit,
                 total_daemons, spawnVars, healthVars,
                 remaining_children_to_start, pod, signalVars, faults,
                 forgotten>>

Awaken == ppc = "asleep" /\ ppc' = "loop"

(* The rest of the children are started ...                                *)
StartRemaining ==
  /\ Awaken /\ remaining_children_to_start > 0
  /\ startup_children(remaining_children_to_start)
  /\ remaining_children_to_start' = 0
  /\ UNCHANGED <<my_generation, spawnVars, healthVars, pod, signalVars,
                 forgotten>>

(* ... or perform_idle_server_maintenance counts threads.  All threads of  *)
(* a child that is up are active, not all of one that is starting, any     *)
(* number of one that is leaving or has left; those of this generation's   *)
(* children may be idle, or none of them.                                  *)
MostIdle ==
  threads_per_child * Cardinality({s \in Occupied : generation[s] = my_generation})

LeastActive == threads_per_child * Cardinality(InPhase({"up"}))

MostActive ==
  LeastActive + (threads_per_child - 1) * Cardinality(InPhase({"starting"}))
              + threads_per_child * Cardinality(InPhase({"quitting"} \union Gone))

Scan ==
  /\ Awaken /\ remaining_children_to_start = 0
  /\ had_healthy_child' \in
       IF InPhase({"up"}) # {} THEN {TRUE}
       ELSE IF InPhase({"quitting"} \union Gone) # {} THEN {had_healthy_child, TRUE}
       ELSE {had_healthy_child}

(* A child was sick, and no child has been healthy: the end.               *)
GiveUp ==
  /\ Scan
  /\ sick_child_detected /\ ~had_healthy_child'
  /\ shutdown_pending' = TRUE
  /\ UNCHANGED <<child, generation, my_generation, max_daemons_limit,
                 total_daemons, spawnVars, sick_child_detected,
                 remaining_children_to_start, pod, restart_pending,
                 is_ungraceful, faults, forgotten>>
(* Mutant: the children are counted, as if their slots had no gaps.        *)
last_non_dead_Count == Cardinality(Occupied) - 1

last_non_dead == Max({-1} \union Occupied)

ScanHealthy ==
  /\ Scan
  /\ sick_child_detected => had_healthy_child'
  /\ sick_child_detected' = FALSE

(* Too many idle threads: one child is told, unless there are so many      *)
(* children, or so many on their way out, that the scoreboard might fill.  *)
KillOneIdle ==
  /\ ScanHealthy
  /\ MostIdle > max_spare_threads
  /\ IF total_daemons <= active_daemons_limit /\ total_daemons < server_limit
     THEN /\ pod[my_generation] < MaxPod
          /\ pod' = [pod EXCEPT ![my_generation] = @ + 1]
          /\ idle_spawn_rate' = 1
     ELSE UNCHANGED <<pod, idle_spawn_rate>>
  /\ max_daemons_limit' = last_non_dead + 1
  /\ UNCHANGED <<child, generation, my_generation, total_daemons,
                 hold_off_on_exponential_spawning,
                 remaining_children_to_start, signalVars,
                 faults, forgotten>>

(* Too few: up to idle_spawn_rate children are started, and twice as many  *)
(* the next time.                                                          *)
Spawn ==
  LET free_slots == FirstFree(Slots \ Occupied, idle_spawn_rate)
  IN  /\ ScanHealthy
      /\ LeastActive < max_workers
      /\ free_slots # {}
      /\ \E T \in SUBSET free_slots :
           /\ Forks(free_slots, T)
           /\ make_child(free_slots, T, {}, total_daemons, last_non_dead + 1)
      /\ IF hold_off_on_exponential_spawning > 0
         THEN /\ hold_off_on_exponential_spawning' =
                   hold_off_on_exponential_spawning - 1
              /\ UNCHANGED idle_spawn_rate
         ELSE /\ idle_spawn_rate' = IF idle_spawn_rate < MAX_SPAWN_RATE
                                    THEN 2 * idle_spawn_rate
                                    ELSE idle_spawn_rate
              /\ UNCHANGED hold_off_on_exponential_spawning
      /\ UNCHANGED <<my_generation, remaining_children_to_start, pod,
                     signalVars, forgotten>>

(* Enough, or no more to be had.                                           *)
Steady ==
  /\ ScanHealthy
  /\ \/ MostIdle >= min_spare_threads
     \/ MostActive >= max_workers
     \/ Occupied = Slots
  /\ idle_spawn_rate' = 1
  /\ max_daemons_limit' = last_non_dead + 1
  /\ UNCHANGED <<child, generation, my_generation, total_daemons,
                 hold_off_on_exponential_spawning,
                 remaining_children_to_start, pod, signalVars, faults, forgotten>>

(* ap_reclaim_child_processes kills every child in reach, in the end by    *)
(* SIGKILL, and waits for it; ap_relieve_child_processes only reaps those  *)
(* who are gone.  Neither tells total_daemons.                             *)
InReach == {s \in Slots : s < max_daemons_limit}
Without(S) == [s \in Slots |-> IF s \in S THEN "none" ELSE child[s]]

ap_reclaim_child_processes == child' = Without(InReach)
ap_relieve_child_processes == child' = Without(InReach \intersect InPhase(Gone))

(* The pipe of death of an outgoing generation: one byte for each child    *)
(* that there may be.  A pipe that no child is going to read is not kept.  *)
Untold(g) == {s \in InPhase({"starting", "up"}) : generation[s] = g}
Outgoing(g) == g < my_generation \/ ppc = "waiting"
(* Mutant: one byte for each child that is up, none for one that starts.   *)
ap_mpm_podx_killpg_UpOnly ==
  pod' = [pod EXCEPT ![my_generation] = @ + Cardinality(InPhase({"up"}))]

(* Mutant: the new pipe of death is opened before the bytes are written.   *)
ap_mpm_podx_killpg_NewPipe ==
  pod' = [g \in Generations |-> IF g = my_generation + 1 THEN active_daemons_limit
                                ELSE pod[g]]

ap_mpm_podx_killpg ==
  pod' = [pod EXCEPT ![my_generation] = IF Untold(my_generation) = {} THEN 0
                                        ELSE @ + active_daemons_limit]

(* The end of event_run for a restart, and the new configuration up to the *)
(* next event_run: unset_signals, event_pre_config, event_open_logs with a *)
(* new pipe of death.                                                      *)
Restart ==
  /\ ppc = "loop" /\ restart_pending /\ ~shutdown_pending
  /\ IF is_ungraceful
     THEN /\ ap_reclaim_child_processes
          /\ forgotten' = forgotten + Cardinality(InReach \intersect Occupied)
          /\ pod' = [g \in Generations |-> 0]
     ELSE /\ ap_mpm_podx_killpg
          /\ UNCHANGED <<child, forgotten>>
  /\ my_generation' = my_generation + 1
  /\ restart_pending' = FALSE /\ is_ungraceful' = FALSE
  /\ had_healthy_child' = FALSE
  /\ remaining_children_to_start' = 0
  /\ ppc' = IF is_ungraceful THEN "event_run" ELSE "was_graceful"
  /\ UNCHANGED <<generation, max_daemons_limit, total_daemons, spawnVars,
                 sick_child_detected, shutdown_pending, faults>>

(* The end of event_run for a stop: at once ...                            *)
Stop ==
  /\ ppc = "loop" /\ shutdown_pending /\ is_ungraceful
  /\ ap_reclaim_child_processes
  /\ ppc' = "done"
  /\ UNCHANGED <<generation, my_generation, max_daemons_limit, total_daemons,
                 spawnVars, healthVars, remaining_children_to_start, pod,
                 signalVars, faults, forgotten>>

(* ... or when the children have finished, or at a second signal.  What    *)
(* the main loop remembered is of no use any more, and forgotten here.     *)
StopGracefully ==
  /\ ppc = "loop" /\ shutdown_pending /\ ~is_ungraceful
  /\ ap_mpm_podx_killpg
  /\ ap_relieve_child_processes
  /\ shutdown_pending' = FALSE
  /\ remaining_children_to_start' = 0
  /\ idle_spawn_rate' = 1 /\ hold_off_on_exponential_spawning' = 0
  /\ sick_child_detected' = FALSE /\ had_healthy_child' = FALSE
  /\ ppc' = "waiting"
  /\ UNCHANGED <<generation, my_generation, max_daemons_limit, total_daemons,
                 restart_pending, is_ungraceful, faults, forgotten>>

AwaitChildren ==
  /\ ppc = "waiting"
  /\ IF shutdown_pending \/ InReach \intersect Occupied \subseteq InPhase(Gone)
     THEN ap_reclaim_child_processes /\ ppc' = "done"
     ELSE ap_relieve_child_processes /\ UNCHANGED ppc
  /\ UNCHANGED <<generation, my_generation, max_daemons_limit, total_daemons,
                 spawnVars, healthVars, remaining_children_to_start, pod,
                 signalVars, faults, forgotten>>

Parent ==
  \/ Sleep \/ Steady \/ AwaitChildren \/ Restart \/ Stop \/ StopGracefully
  \/ \E s \in Slots : ReapFatal(s) \/ Reap(s)
  \/ event_run \/ StartRemaining \/ GiveUp \/ KillOneIdle \/ Spawn

-----------------------------------------------------------------------------
(* Signals to the parent.  While it waits for its children, a graceful     *)
(* stop does what the other one does, and a restart nothing.               *)

sig_term(graceful) ==
  /\ ppc # "done" /\ (ppc = "waiting" => graceful)
  /\ ~(shutdown_pending /\ (is_ungraceful \/ graceful))
  /\ shutdown_pending' = TRUE
  /\ is_ungraceful' = (is_ungraceful \/ ~graceful)
  /\ UNCHANGED <<child, generation, my_generation, max_daemons_limit,
                 total_daemons, spawnVars, healthVars,
                 remaining_children_to_start, pod, restart_pending,
                 ppc, faults, forgotten>>

sig_restart(graceful) ==
  /\ ppc \notin {"waiting", "done"}
  /\ my_generation < MaxGeneration
  /\ ~(restart_pending /\ (is_ungraceful \/ graceful))
  /\ restart_pending' = TRUE
  /\ is_ungraceful' = (is_ungraceful \/ ~graceful)
  /\ UNCHANGED <<child, generation, my_generation, max_daemons_limit,
                 total_daemons, spawnVars, healthVars,
                 remaining_children_to_start, pod, shutdown_pending,
                 ppc, faults, forgotten>>

-----------------------------------------------------------------------------
(* The children.                                                           *)

(* The child s changes to phase p, having read n bytes.                    *)
Becomes(s, p, n) ==
  LET g == generation[s]
  IN  /\ child' = [child EXCEPT ![s] = p]
      /\ pod' = [pod EXCEPT ![g] = IF Outgoing(g) /\ Untold(g) = {s} /\ p # "up"
                                   THEN 0 ELSE @ - n]
      /\ UNCHANGED <<generation, my_generation, max_daemons_limit,
                     total_daemons, spawnVars, healthVars,
                     remaining_children_to_start, signalVars, ppc, forgotten>>

(* The child starts and stops ...                                          *)
OnItsOwn(s) ==
  /\ child[s] # "up"
  /\ \E p \in {"up", "quitting", "exited"} : Becomes(s, p, 0)
  /\ CP(s)!ChildNext
  /\ UNCHANGED faults

(* ... and is told to stop by a byte from the pipe of death.               *)
ap_mpm_podx_check(s) ==
  /\ child[s] = "up" /\ pod[generation[s]] > 0
  /\ Becomes(s, "quitting", 1)
  /\ UNCHANGED faults

(* It may crash, run out of resources, which stops it gracefully too, or   *)
(* find itself unable to start.                                            *)
Fail(s) ==
  /\ faults < MaxFaults
  /\ faults' = faults + 1
  /\ \/ child[s] \in {"starting", "up"} /\ Becomes(s, "exited", 0)
     \/ child[s] = "up" /\ Becomes(s, "quitting", 0)
     \/ child[s] \in {"starting", "quitting"} /\ Becomes(s, "sick", 0)
     \/ child[s] \in {"starting", "up"} /\ Becomes(s, "fatal", 0)

Next ==
  \/ Parent
  \/ \E graceful \in BOOLEAN : sig_term(graceful) \/ sig_restart(graceful)
  \/ \E s \in Slots : OnItsOwn(s) \/ ap_mpm_podx_check(s) \/ Fail(s)

Spec == Init /\ [][Next]_vars

(* The parent and every child run on; a child that may read the pipe does. *)
(* Nothing is asked of signals and of faults.                              *)
FairSpec ==
  /\ Spec
  /\ WF_vars(Parent)
  /\ \A s \in Slots : WF_vars(OnItsOwn(s) \/ ap_mpm_podx_check(s))

-----------------------------------------------------------------------------
(* Properties.                                                             *)

(* The type invariant of the scoreboard and of the parent's variables.     *)
TypeOK ==
  /\ child \in [Slots -> {"none", "starting", "up", "quitting"} \union Gone]
  /\ generation \in [Slots -> 0 .. my_generation]
  /\ my_generation \in Generations
  /\ max_daemons_limit \in -1 .. server_limit
  /\ total_daemons \in Nat
  /\ idle_spawn_rate \in Nat \ {0}
  /\ hold_off_on_exponential_spawning \in 0 .. HOLD_OFF
  /\ remaining_children_to_start \in 0 .. active_daemons_limit
  /\ pod \in [Generations -> Nat]
  /\ {sick_child_detected, had_healthy_child, restart_pending,
      shutdown_pending, is_ungraceful} \subseteq BOOLEAN
  /\ ppc \in {"event_run", "was_graceful", "loop", "asleep", "waiting", "done"}
  /\ faults \in 0 .. MaxFaults
  /\ forgotten \in Nat

(* max_daemons_limit, which maintenance lowers and make_child raises, is   *)
(* above every slot in use: ap_reclaim_child_processes and                 *)
(* ap_relieve_child_processes, which look no further, miss no child.       *)
AllInReach == Occupied \subseteq InReach

(* total_daemons, by which maintenance decides whether it may stop an idle *)
(* child, counts the children there are, those of earlier generations      *)
(* included, and besides them, for ever, the ones that an ungraceful       *)
(* restart has reclaimed.                                                  *)
TotalAccounted ==
  (ppc \notin {"waiting", "done"}) => total_daemons = Cardinality(Occupied) + forgotten

(* After a graceful restart, and in a graceful stop, there is a byte in    *)
(* the pipe of death for every child that has not been told, however many  *)
(* children were starting, crashing or being spared meanwhile, provided    *)
(* MaxRequestWorkers allows as many children as there are slots.           *)
PodSuffices ==
  active_daemons_limit = server_limit =>
    \A g \in Generations :
      Outgoing(g) => pod[g] >= Cardinality(Untold(g))

(* After a restart, and in a stop, the children that are to go all go,     *)
(* gracefully or not, and their slots are free.                            *)
OutgoingGo ==
  (\E s \in Occupied : Outgoing(generation[s]))
    ~> (\A s \in Occupied : ~Outgoing(generation[s]))

(* A server without a child that is up gets one, or is being stopped: the  *)
(* maintenance cycle makes up for every death, as long as there is an end  *)
(* to faults.                                                              *)
ServiceReturns ==
  (InPhase({"up"}) = {})
    ~> (\E s \in Slots : child[s] = "up" /\ generation[s] = my_generation)
       \/ shutdown_pending \/ ppc \in {"waiting", "done"}
=============================================================================
