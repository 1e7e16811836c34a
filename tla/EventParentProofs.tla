------------------------- MODULE EventParentProofs --------------------------
(***************************************************************************)
(* Proofs about EventParent, for any number of slots, spare threads,       *)
(* restarts and faults.  The claims need each other: total_daemons is a    *)
(* natural number because it counts the slots in use, a reclaim empties    *)
(* the scoreboard because every slot in use is in reach, and there are     *)
(* bytes enough because a reclaim leaves nobody to read them.              *)
(***************************************************************************)
EXTENDS EventParent, FiniteSetTheorems, TLAPS

(* A restart that is pending is one of those that the bound allows.        *)
RestartAllowed == restart_pending => my_generation < MaxGeneration

IInv == TypeOK /\ AllInReach /\ TotalAccounted /\ PodSuffices /\ RestartAllowed

-----------------------------------------------------------------------------
(* Zenon proves most of the steps; SMT is cited where it is needed.        *)
USE ZenonT(60)

(* Least elements and maxima.                                              *)

(* Every non-empty set of naturals has a least element.                    *)
LEMMA LeastNatural ==
  ASSUME NEW T \in SUBSET Nat, T # {}
  PROVE  \E x \in T : \A y \in T : x <= y
<1>1. PICK x \in T : \A y \in T : ~ (<<y, x>> \in OpToRel(<, Nat))
  BY WFMin, NatLessThanWellFounded
<1>2. \A y \in T : ~ (y < x)
  BY <1>1 DEF OpToRel
<1> QED BY SMT, <1>2

(* Max, of module EventParent, is the maximum of a bounded set.            *)
LEMMA MaxIsMaximum ==
  ASSUME NEW n \in Int, NEW S \in SUBSET (-1 .. n), S # {}
  PROVE  Max(S) \in S /\ \A m \in S : m <= Max(S)
<1> DEFINE T == {n - m : m \in S}
<1>0. \A m \in S : n - m \in Nat
  BY SMT
<1>1. T \in SUBSET Nat /\ T # {}
  BY <1>0
<1>2. PICK x \in T : \A y \in T : x <= y
  BY <1>1, LeastNatural
<1>3. PICK m \in S : x = n - m
  BY <1>2
<1>4. \A k \in S : k <= m
  <2> SUFFICES ASSUME NEW k \in S PROVE k <= m
    OBVIOUS
  <2>1. n - m <= n - k
    BY <1>2, <1>3
  <2> QED BY SMT, <2>1
<1>5. \E w \in S : \A k \in S : k <= w
  BY <1>4
<1> QED BY <1>5 DEF Max

(* The scoreboard is finite.                                               *)
LEMMA SlotsFinite ==
  /\ IsFiniteSet(Slots) /\ Cardinality(Slots) = server_limit
  /\ \A S \in SUBSET Slots :
       IsFiniteSet(S) /\ Cardinality(S) \in Nat /\ Cardinality(S) <= server_limit
<1>1. server_limit \in Nat /\ server_limit > 0
  BY SMT, EventParentAssumption
<1>2. IsFiniteSet(Slots) /\ Cardinality(Slots) = server_limit
  BY SMT, <1>1, FS_Interval DEF Slots
<1>3. ASSUME NEW S \in SUBSET Slots
      PROVE  IsFiniteSet(S) /\ Cardinality(S) \in Nat /\ Cardinality(S) <= server_limit
  BY <1>2, FS_Subset, FS_CardinalityType
<1> QED BY <1>2, <1>3

-----------------------------------------------------------------------------
(* What the operators of EventParent do to the scoreboard.                 *)

(* Phases of a slot.                                                       *)
Phases == {"none", "starting", "up", "quitting"} \union Gone

(* The last child that is not dead, plus one, is above all of them.        *)
LEMMA LastNonDead ==
  /\ last_non_dead + 1 \in 0 .. server_limit
  /\ \A s \in Occupied : s < last_non_dead + 1
<1>1. server_limit \in Nat
  BY EventParentAssumption
<1>2. {-1} \union Occupied \in SUBSET (-1 .. server_limit - 1)
  BY SMT, <1>1 DEF Occupied, Slots
<1>3. /\ last_non_dead \in {-1} \union Occupied
      /\ \A m \in {-1} \union Occupied : m <= last_non_dead
  <2> DEFINE U == {-1} \union Occupied
  <2>1. server_limit - 1 \in Int /\ U \in SUBSET (-1 .. server_limit - 1) /\ U # {}
    BY SMT, <1>1, <1>2
  <2> HIDE DEF U
  <2>2. Max(U) \in U /\ \A m \in U : m <= Max(U)
    BY <2>1, MaxIsMaximum
  <2> QED BY <2>2 DEF U, last_non_dead
<1>4. last_non_dead \in -1 .. server_limit - 1
  BY <1>2, <1>3
<1>5. \A s \in Occupied : s \in Int
  BY SMT, <1>1 DEF Occupied, Slots
<1> QED BY SMT, <1>1, <1>3, <1>4, <1>5

(* make_child: of the slots S those of T are in use afterwards, besides    *)
(* the ones that were and are not freed, all of them in reach, and the     *)
(* new children belong to the current generation.                          *)
LEMMA MakeChild ==
  ASSUME TypeOK,
         NEW S \in SUBSET Slots, NEW T \in SUBSET S, NEW freed \in SUBSET Slots,
         NEW total \in Int, NEW limit \in -1 .. server_limit,
         T \intersect (Occupied \ freed) = {},
         \A s \in Occupied \ freed : s < limit,
         make_child(S, T, freed, total, limit)
  PROVE  /\ child' \in [Slots -> Phases]
         /\ generation' \in [Slots -> 0 .. my_generation]
         /\ max_daemons_limit' \in -1 .. server_limit
         /\ AllInReach'
         /\ Cardinality(Occupied') = Cardinality(Occupied \ freed) + Cardinality(T)
         /\ total_daemons' = total + Cardinality(T)
         /\ \A g \in Generations \ {my_generation} : Untold(g)' \subseteq Untold(g)
<1>1. server_limit \in Nat /\ my_generation \in Nat
  BY SMT, EventParentAssumption DEF TypeOK, Generations
<1>2. child' \in [Slots -> Phases] /\ generation' \in [Slots -> 0 .. my_generation]
  BY SMT, <1>1 DEF make_child, TypeOK, Phases
<1>3. /\ max_daemons_limit' \in {limit} \union {s + 1 : s \in S}
      /\ \A m \in {limit} \union {s + 1 : s \in S} : m <= max_daemons_limit'
  <2> DEFINE U == {limit} \union {s + 1 : s \in S}
  <2>1. server_limit \in Int /\ U \in SUBSET (-1 .. server_limit) /\ U # {}
    BY SMT, <1>1 DEF Slots
  <2>2. max_daemons_limit' = Max(U)
    BY DEF make_child
  <2> HIDE DEF U
  <2>3. Max(U) \in U /\ \A m \in U : m <= Max(U)
    BY <2>1, MaxIsMaximum
  <2> QED BY <2>2, <2>3 DEF U
<1>4. max_daemons_limit' \in -1 .. server_limit
  BY SMT, <1>1, <1>3 DEF Slots
<1>5. Occupied' = (Occupied \ freed) \union T
  BY DEF Occupied, make_child, TypeOK
<1>6. ASSUME NEW s \in Slots, child'[s] # "none" PROVE s < max_daemons_limit'
  <2>1. s \in Int /\ max_daemons_limit' \in Int
    BY SMT, <1>1, <1>4 DEF Slots
  <2>2. CASE s \in T
    <3>1. s + 1 \in {limit} \union {r + 1 : r \in S}
      BY <2>2
    <3>2. s + 1 <= max_daemons_limit'
      BY <1>3, <3>1
    <3> QED BY SMT, <2>1, <3>2
  <2>3. CASE s \in Occupied \ freed
    <3>1. s < limit /\ limit <= max_daemons_limit'
      BY <1>3, <2>3
    <3> QED BY SMT, <2>1, <3>1
  <2> QED BY <1>5, <1>6, <2>2, <2>3 DEF Occupied
<1>7. Cardinality(Occupied') = Cardinality(Occupied \ freed) + Cardinality(T)
  <2>1. /\ IsFiniteSet(Occupied \ freed) /\ Cardinality(Occupied \ freed) \in Nat
        /\ IsFiniteSet(T) /\ Cardinality(T) \in Nat
    BY SlotsFinite DEF Occupied
  <2>2. Cardinality((Occupied \ freed) \intersect T) = 0
    <3>1. (Occupied \ freed) \intersect T = {}
      OBVIOUS
    <3> QED BY <3>1, FS_EmptySet
  <2>3. Cardinality((Occupied \ freed) \union T)
          = Cardinality(Occupied \ freed) + Cardinality(T) - 0
    BY <2>1, <2>2, FS_Union
  <2> QED BY SMT, <1>5, <2>1, <2>3
<1>8. ASSUME NEW g \in Generations \ {my_generation}
      PROVE  Untold(g)' \subseteq Untold(g)
  BY <1>8 DEF make_child, Untold, InPhase
<1>9. total_daemons' = total + Cardinality(T)
  BY DEF make_child
<1>10. AllInReach'
  BY <1>6 DEF AllInReach, Occupied, InReach
<1> QED BY <1>2, <1>4, <1>7, <1>8, <1>9, <1>10

(* startup_children(n), which fills the lowest free slots up to the first  *)
(* failure, is make_child for slots that are free.                         *)
LEMMA StartupChildren ==
  ASSUME TypeOK, AllInReach, NEW n \in Nat, startup_children(n)
  PROVE  /\ child' \in [Slots -> Phases]
         /\ generation' \in [Slots -> 0 .. my_generation]
         /\ max_daemons_limit' \in -1 .. server_limit
         /\ faults' \in 0 .. MaxFaults
         /\ AllInReach'
         /\ total_daemons' \in Nat
         /\ total_daemons' - Cardinality(Occupied') = total_daemons - Cardinality(Occupied)
         /\ \A g \in Generations \ {my_generation} : Untold(g)' \subseteq Untold(g)
<1> DEFINE F == Slots \ Occupied
           T(k) == FirstFree(F, k)
           S(k) == FirstFree(F, IF k < n THEN k + 1 ELSE n)
<1>1. PICK k \in 0 .. n : /\ faults' = IF T(k) = S(k) THEN faults ELSE faults + 1
                          /\ faults' <= MaxFaults
                          /\ make_child(S(k), T(k), {}, total_daemons, max_daemons_limit)
  BY DEF startup_children
<1>2. S(k) \in SUBSET F /\ T(k) \in SUBSET S(k)
  <2>1. \A s \in F : Cardinality({r \in F : r < s}) \in Nat
    BY SlotsFinite
  <2> QED BY SMT, <2>1 DEF FirstFree
<1>3. /\ Cardinality(T(k)) \in Nat /\ Cardinality(Occupied) \in Nat
      /\ T(k) \intersect (Occupied \ {}) = {}
      /\ S(k) \in SUBSET Slots
  BY <1>2, SlotsFinite DEF Occupied
<1>4. \A s \in Occupied \ {} : s < max_daemons_limit
  BY DEF AllInReach, InReach
<1>5. total_daemons \in Int /\ max_daemons_limit \in -1 .. server_limit
  BY SMT DEF TypeOK
<1> HIDE DEF T, S
<1>6. /\ child' \in [Slots -> Phases]
      /\ generation' \in [Slots -> 0 .. my_generation]
      /\ max_daemons_limit' \in -1 .. server_limit
      /\ AllInReach'
      /\ Cardinality(Occupied') = Cardinality(Occupied \ {}) + Cardinality(T(k))
      /\ total_daemons' = total_daemons + Cardinality(T(k))
      /\ \A g \in Generations \ {my_generation} : Untold(g)' \subseteq Untold(g)
  BY <1>1, <1>2, <1>3, <1>4, <1>5, MakeChild
<1>7. Cardinality(Occupied \ {}) = Cardinality(Occupied)
  <2>1. Occupied \ {} = Occupied
    OBVIOUS
  <2> QED BY <2>1
<1>8. faults' \in 0 .. MaxFaults
  BY SMT, <1>1, EventParentAssumption DEF TypeOK
<1> QED BY SMT, <1>3, <1>6, <1>7, <1>8 DEF TypeOK

(* PodSuffices is preserved by a step that does not touch the pipes, lets  *)
(* no generation go out and gives outgoing ones no child.                  *)
LEMMA PodKept ==
  ASSUME TypeOK, PodSuffices, pod' = pod,
         \A g \in Generations : Outgoing(g)' => Outgoing(g) /\ Untold(g)' \subseteq Untold(g)
  PROVE  PodSuffices'
<1> SUFFICES ASSUME active_daemons_limit = server_limit,
                    NEW g \in Generations, Outgoing(g)'
             PROVE  pod'[g] >= Cardinality(Untold(g)')
  BY DEF PodSuffices
<1>1. Untold(g) \in SUBSET Slots /\ Untold(g)' \in SUBSET Untold(g)
  BY DEF Untold, InPhase
<1>2. /\ Cardinality(Untold(g)) \in Nat /\ Cardinality(Untold(g)') \in Nat
      /\ Cardinality(Untold(g)') <= Cardinality(Untold(g))
  BY <1>1, SlotsFinite, FS_Subset
<1>3. pod[g] >= Cardinality(Untold(g)) /\ pod[g] \in Nat
  BY DEF PodSuffices, TypeOK
<1> QED BY SMT, <1>2, <1>3

(* Nothing but the parent's own notes changes.                             *)
Notes == UNCHANGED <<child, generation, my_generation, max_daemons_limit,
                     total_daemons, pod, forgotten>>

(* Such a step keeps the three facts about the children. *)
LEMMA NotesOnly ==
  ASSUME IInv, Notes, ppc' # "waiting" \/ ppc = "waiting",
         ppc \in {"waiting", "done"} => ppc' \in {"waiting", "done"}
  PROVE  AllInReach' /\ TotalAccounted' /\ PodSuffices'
<1>1. AllInReach'
  BY DEF IInv, Notes, AllInReach, Occupied, InReach
<1>2. TotalAccounted'
  BY DEF IInv, Notes, TotalAccounted, Occupied
<1>3. \A g \in Generations : Outgoing(g)' => Outgoing(g) /\ Untold(g)' \subseteq Untold(g)
  BY DEF Notes, Outgoing, Untold, InPhase
<1>4. PodSuffices'
  BY <1>3, PodKept DEF IInv, Notes
<1> QED BY <1>1, <1>2, <1>4

-----------------------------------------------------------------------------
(* The invariant holds initially and is preserved, action by action.       *)

(* ap_mpm_run starts with an empty scoreboard. *)
LEMMA InitIInv == Init => IInv
<1> SUFFICES ASSUME Init PROVE IInv
  OBVIOUS
<1>0. /\ server_limit \in Nat /\ active_daemons_limit \in Nat
      /\ MaxGeneration \in Nat /\ MaxFaults \in Nat /\ HOLD_OFF \in Nat
  BY EventParentAssumption
<1>1. TypeOK
  <2>1. /\ child \in [Slots -> {"none", "starting", "up", "quitting"} \union Gone]
        /\ generation \in [Slots -> 0 .. my_generation]
        /\ pod \in [Generations -> Nat]
    BY SMT DEF Init
  <2>2. /\ max_daemons_limit \in -1 .. server_limit /\ total_daemons \in Nat
        /\ idle_spawn_rate \in Nat \ {0} /\ my_generation \in Generations
        /\ hold_off_on_exponential_spawning \in 0 .. HOLD_OFF
        /\ remaining_children_to_start \in 0 .. active_daemons_limit
        /\ faults \in 0 .. MaxFaults /\ forgotten \in Nat
    BY SMT, <1>0 DEF Init, Generations
  <2>3. {sick_child_detected, had_healthy_child, restart_pending,
         shutdown_pending, is_ungraceful} \subseteq BOOLEAN
    BY Zenon DEF Init
  <2>4. ppc = "event_run"
    BY DEF Init
  <2> QED BY <2>1, <2>2, <2>3, <2>4 DEF TypeOK
<1>2. Occupied = {} /\ \A g \in Generations : Untold(g) = {}
  BY DEF Init, Occupied, Untold, InPhase
<1>3. AllInReach /\ TotalAccounted /\ RestartAllowed
  BY SMT, <1>2, FS_EmptySet DEF Init, AllInReach, TotalAccounted, RestartAllowed
<1>4. PodSuffices
  BY SMT, <1>2, FS_EmptySet DEF Init, PodSuffices
<1> QED BY <1>1, <1>3, <1>4 DEF IInv

(* Steps that write only the parent's notes.                               *)
LEMMA NotesSteps ==
  ASSUME IInv,
         \/ Sleep \/ GiveUp \/ \E s \in Slots : ReapFatal(s)
         \/ \E graceful \in BOOLEAN : sig_term(graceful) \/ sig_restart(graceful)
  PROVE  IInv'
<1>1. CASE Sleep
  <2>1. TypeOK' /\ RestartAllowed'
    BY <1>1 DEF Sleep, Looping, spawnVars, healthVars, signalVars, IInv, TypeOK, RestartAllowed
  <2>2. Notes /\ ppc = "loop" /\ ppc' = "asleep"
    BY <1>1 DEF Sleep, Looping, Notes
  <2> QED BY <2>1, <2>2, NotesOnly DEF IInv
<1>2. CASE GiveUp
  <2>0. had_healthy_child' \in BOOLEAN
    BY <1>2 DEF GiveUp, Scan, IInv, TypeOK
  <2>1. TypeOK' /\ RestartAllowed'
    BY <1>2, <2>0 DEF GiveUp, Scan, Awaken, spawnVars, IInv, TypeOK, RestartAllowed
  <2>2. Notes /\ ppc = "asleep" /\ ppc' = "loop"
    BY <1>2 DEF GiveUp, Scan, Awaken, Notes
  <2> QED BY <2>1, <2>2, NotesOnly DEF IInv
<1>3. ASSUME NEW s \in Slots, ReapFatal(s) PROVE IInv'
  <2>1. TypeOK' /\ RestartAllowed'
    BY <1>3 DEF ReapFatal, spawnVars, healthVars, IInv, TypeOK, RestartAllowed
  <2>2. Notes /\ ppc' = ppc
    BY <1>3 DEF ReapFatal, Notes
  <2> QED BY <2>1, <2>2, NotesOnly DEF IInv
<1>4. ASSUME NEW graceful \in BOOLEAN, sig_term(graceful) PROVE IInv'
  <2>1. TypeOK' /\ RestartAllowed'
    BY <1>4 DEF sig_term, spawnVars, healthVars, IInv, TypeOK, RestartAllowed
  <2>2. Notes /\ ppc' = ppc
    BY <1>4 DEF sig_term, Notes
  <2> QED BY <2>1, <2>2, NotesOnly DEF IInv
<1>5. ASSUME NEW graceful \in BOOLEAN, sig_restart(graceful) PROVE IInv'
  <2>1. TypeOK' /\ RestartAllowed'
    BY <1>5 DEF sig_restart, spawnVars, healthVars, IInv, TypeOK, RestartAllowed
  <2>2. Notes /\ ppc' = ppc
    BY <1>5 DEF sig_restart, Notes
  <2> QED BY <2>1, <2>2, NotesOnly DEF IInv
<1> QED BY <1>1, <1>2, <1>3, <1>4, <1>5

(* What children are told, or not, does not concern the current            *)
(* generation as long as the parent is at work.                            *)
LEMMA AtWork ==
  ASSUME IInv, ppc # "waiting", ppc' # "waiting", UNCHANGED <<my_generation, pod>>,
         \A g \in Generations \ {my_generation} : Untold(g)' \subseteq Untold(g)
  PROVE  PodSuffices'
<1>1. my_generation \in Int /\ \A g \in Generations : g \in Int
  BY SMT, EventParentAssumption DEF IInv, TypeOK, Generations
<1>2. \A g \in Generations : Outgoing(g)' => Outgoing(g) /\ Untold(g)' \subseteq Untold(g)
  BY SMT, <1>1 DEF Outgoing
<1> QED BY <1>2, PodKept DEF IInv

(* Steps of the parent that start children.                                *)
LEMMA StartupSteps ==
  ASSUME IInv, event_run \/ StartRemaining
  PROVE  IInv'
<1>1. to_start \in 0 .. active_daemons_limit
  BY SMT, EventParentAssumption DEF to_start
<1>2. CASE event_run /\ ppc = "was_graceful"
  <2>1. TypeOK' /\ RestartAllowed'
    BY SMT, <1>1, <1>2, EventParentAssumption
    DEF event_run, healthVars, signalVars, IInv, TypeOK, RestartAllowed
  <2>2. Notes /\ ppc' = "loop"
    BY <1>2 DEF event_run, Notes
  <2> QED BY <1>2, <2>1, <2>2, NotesOnly DEF IInv
<1>3. CASE \/ event_run /\ ppc # "was_graceful"
           \/ StartRemaining
  <2>1. PICK n \in Nat : startup_children(n)
    BY SMT, <1>1, <1>3, EventParentAssumption DEF event_run, StartRemaining, IInv, TypeOK
  <2>2. /\ child' \in [Slots -> Phases]
        /\ generation' \in [Slots -> 0 .. my_generation]
        /\ max_daemons_limit' \in -1 .. server_limit
        /\ faults' \in 0 .. MaxFaults
        /\ AllInReach'
        /\ total_daemons' \in Nat
        /\ total_daemons' - Cardinality(Occupied') = total_daemons - Cardinality(Occupied)
        /\ \A g \in Generations \ {my_generation} : Untold(g)' \subseteq Untold(g)
    BY <2>1, StartupChildren DEF IInv
  <2>3. /\ UNCHANGED <<my_generation, pod, signalVars, forgotten, healthVars, spawnVars>>
        /\ remaining_children_to_start' = 0
        /\ ppc \in {"event_run", "asleep"} /\ ppc' = "loop"
    BY <1>3 DEF event_run, StartRemaining, Awaken, spawnVars
  <2>4. TypeOK' /\ RestartAllowed'
    BY SMT, <2>2, <2>3, EventParentAssumption
    DEF IInv, TypeOK, RestartAllowed, Phases, signalVars, healthVars, spawnVars
  <2>5. TotalAccounted'
    <3>1. Cardinality(Occupied) \in Nat /\ Cardinality(Occupied') \in Nat
      BY SlotsFinite DEF Occupied
    <3> QED BY SMTT(60), <3>1, <2>2, <2>3 DEF TotalAccounted, IInv, TypeOK
  <2>6. PodSuffices'
    BY <2>2, <2>3, AtWork
  <2> QED BY <2>2, <2>4, <2>5, <2>6 DEF IInv
<1> QED BY <1>2, <1>3

(* A dead child is reaped, and perhaps replaced.                           *)
LEMMA ReapStep ==
  ASSUME IInv, NEW s \in Slots, Reap(s)
  PROVE  IInv'
<1> DEFINE new == IF child[s] # "sick" /\ remaining_children_to_start > 0
                  THEN {s} ELSE {}
<1>1. PICK T \in SUBSET new :
        /\ faults' = faults + Cardinality(new \ T) /\ faults' <= MaxFaults
        /\ make_child(new, T, {s}, total_daemons - 1, max_daemons_limit)
  BY DEF Reap, Forks
<1>2. /\ UNCHANGED <<my_generation, hold_off_on_exponential_spawning,
                     had_healthy_child, pod, signalVars, ppc, forgotten>>
      /\ remaining_children_to_start' = remaining_children_to_start - Cardinality(new)
      /\ idle_spawn_rate' \in {1, idle_spawn_rate}
      /\ sick_child_detected' \in BOOLEAN
      /\ ppc = "loop" /\ s \in Occupied
  BY DEF Reap, Looping, Occupied, Gone
<1>3. /\ new \in SUBSET Slots /\ T \in SUBSET new
      /\ Cardinality(new) \in Nat /\ Cardinality(T) \in Nat /\ Cardinality(new \ T) \in Nat
      /\ remaining_children_to_start - Cardinality(new) \in 0 .. active_daemons_limit
  <2>1. new = {s} \/ new = {}
    OBVIOUS
  <2>2. Cardinality({s}) = 1 /\ Cardinality({}) = 0
    BY FS_Singleton, FS_EmptySet
  <2>3. remaining_children_to_start \in 0 .. active_daemons_limit /\ active_daemons_limit \in Nat
    BY EventParentAssumption DEF IInv, TypeOK
  <2>4. remaining_children_to_start - Cardinality(new) \in 0 .. active_daemons_limit
    BY SMT, <2>2, <2>3
  <2> QED BY <2>1, <2>4, SlotsFinite
<1>4. /\ Cardinality(Occupied) \in Nat
      /\ Cardinality(Occupied \ {s}) = Cardinality(Occupied) - 1
      /\ Cardinality(Occupied \ {s}) \in Nat
  <2>1. IsFiniteSet(Occupied) /\ Occupied \ {s} \in SUBSET Slots
    BY SlotsFinite DEF Occupied
  <2> QED BY <1>2, <2>1, FS_RemoveElement, SlotsFinite DEF Occupied
<1>5. /\ T \intersect (Occupied \ {s}) = {}
      /\ \A r \in Occupied \ {s} : r < max_daemons_limit
      /\ total_daemons - 1 \in Int /\ max_daemons_limit \in -1 .. server_limit
      /\ {s} \in SUBSET Slots
  BY SMT DEF IInv, TypeOK, AllInReach, InReach
<1> HIDE DEF new
<1>6. /\ child' \in [Slots -> Phases]
      /\ generation' \in [Slots -> 0 .. my_generation]
      /\ max_daemons_limit' \in -1 .. server_limit
      /\ AllInReach'
      /\ Cardinality(Occupied') = Cardinality(Occupied \ {s}) + Cardinality(T)
      /\ total_daemons' = total_daemons - 1 + Cardinality(T)
      /\ \A g \in Generations \ {my_generation} : Untold(g)' \subseteq Untold(g)
  BY <1>1, <1>3, <1>5, MakeChild DEF IInv
<1>7. /\ total_daemons' = Cardinality(Occupied') + forgotten'
      /\ total_daemons' \in Nat
  <2>1. total_daemons = Cardinality(Occupied) + forgotten
    BY <1>2 DEF IInv, TotalAccounted
  <2> QED BY SMTT(60), <1>2, <1>3, <1>4, <1>6, <2>1 DEF IInv, TypeOK
<1>8. faults' \in 0 .. MaxFaults
  BY SMT, <1>1, <1>3, EventParentAssumption DEF IInv, TypeOK
<1>9. TypeOK' /\ RestartAllowed'
  BY SMTT(60), <1>2, <1>3, <1>6, <1>7, <1>8 DEF IInv, TypeOK, RestartAllowed, Phases, signalVars
<1>10. PodSuffices'
  BY <1>2, <1>6, AtWork
<1> QED BY <1>6, <1>7, <1>9, <1>10 DEF IInv, TotalAccounted

(* Idle maintenance starts children.                                       *)
LEMMA SpawnStep ==
  ASSUME IInv, Spawn
  PROVE  IInv'
<1> DEFINE free == FirstFree(Slots \ Occupied, idle_spawn_rate)
<1>1. PICK T \in SUBSET free :
        /\ faults' = faults + Cardinality(free \ T) /\ faults' <= MaxFaults
        /\ make_child(free, T, {}, total_daemons, last_non_dead + 1)
  BY DEF Spawn, Forks
<1>2. /\ UNCHANGED <<my_generation, remaining_children_to_start, pod, signalVars, forgotten>>
      /\ idle_spawn_rate' \in Nat \ {0}
      /\ hold_off_on_exponential_spawning' \in 0 .. HOLD_OFF
      /\ ppc = "asleep" /\ ppc' = "loop"
  BY SMTT(60), EventParentAssumption DEF Spawn, ScanHealthy, Scan, Awaken, IInv, TypeOK
<1>3. sick_child_detected' \in BOOLEAN /\ had_healthy_child' \in BOOLEAN
  BY DEF Spawn, ScanHealthy, Scan, IInv, TypeOK
<1>4. /\ free \in SUBSET Slots /\ T \in SUBSET free
      /\ T \intersect (Occupied \ {}) = {}
      /\ Cardinality(T) \in Nat /\ Cardinality(free \ T) \in Nat
      /\ Cardinality(Occupied) \in Nat
  BY SlotsFinite DEF FirstFree, Occupied
<1>5. /\ \A r \in Occupied \ {} : r < last_non_dead + 1
      /\ total_daemons \in Int /\ last_non_dead + 1 \in -1 .. server_limit
      /\ {} \in SUBSET Slots
  BY SMT, LastNonDead, EventParentAssumption DEF IInv, TypeOK
<1> HIDE DEF free
<1>6. /\ child' \in [Slots -> Phases]
      /\ generation' \in [Slots -> 0 .. my_generation]
      /\ max_daemons_limit' \in -1 .. server_limit
      /\ AllInReach'
      /\ Cardinality(Occupied') = Cardinality(Occupied \ {}) + Cardinality(T)
      /\ total_daemons' = total_daemons + Cardinality(T)
      /\ \A g \in Generations \ {my_generation} : Untold(g)' \subseteq Untold(g)
  BY <1>1, <1>4, <1>5, MakeChild DEF IInv
<1>7. /\ total_daemons' = Cardinality(Occupied') + forgotten'
      /\ total_daemons' \in Nat
  <2>1. total_daemons = Cardinality(Occupied) + forgotten
    BY <1>2 DEF IInv, TotalAccounted
  <2>2. Occupied \ {} = Occupied
    OBVIOUS
  <2> QED BY SMTT(60), <1>2, <1>4, <1>6, <2>1, <2>2 DEF IInv, TypeOK
<1>8. faults' \in 0 .. MaxFaults
  BY SMT, <1>1, <1>4, EventParentAssumption DEF IInv, TypeOK
<1>9. TypeOK' /\ RestartAllowed'
  BY <1>2, <1>3, <1>6, <1>7, <1>8 DEF IInv, TypeOK, RestartAllowed, Phases, signalVars
<1>10. PodSuffices'
  BY <1>2, <1>6, AtWork
<1> QED BY <1>6, <1>7, <1>9, <1>10 DEF IInv, TotalAccounted

(* Idle maintenance that starts nobody lowers max_daemons_limit to the     *)
(* last child, and may add a byte to the pipe of a generation that stays.  *)
LEMMA MaintenanceSteps ==
  ASSUME IInv, KillOneIdle \/ Steady
  PROVE  IInv'
<1>1. /\ UNCHANGED <<child, generation, my_generation, total_daemons,
                     hold_off_on_exponential_spawning, remaining_children_to_start,
                     signalVars, faults, forgotten>>
      /\ ppc = "asleep" /\ ppc' = "loop"
      /\ max_daemons_limit' = last_non_dead + 1
      /\ idle_spawn_rate' \in {1, idle_spawn_rate}
      /\ pod' \in {pod, [pod EXCEPT ![my_generation] = @ + 1]}
  BY DEF KillOneIdle, Steady, ScanHealthy, Scan, Awaken
<1>2. sick_child_detected' \in BOOLEAN /\ had_healthy_child' \in BOOLEAN
  BY DEF KillOneIdle, Steady, ScanHealthy, Scan, IInv, TypeOK
<1>3. server_limit \in Nat /\ my_generation \in Generations /\ pod' \in [Generations -> Nat]
  BY SMT, <1>1, EventParentAssumption DEF IInv, TypeOK
<1>4. max_daemons_limit' \in -1 .. server_limit
  BY SMT, <1>1, <1>3, LastNonDead
<1>5. TypeOK' /\ RestartAllowed'
  BY SMT, <1>1, <1>2, <1>3, <1>4 DEF IInv, TypeOK, RestartAllowed, signalVars
<1>6. AllInReach'
  BY <1>1, LastNonDead DEF AllInReach, Occupied, InReach
<1>7. TotalAccounted'
  BY <1>1 DEF IInv, TotalAccounted, Occupied
<1>8. PodSuffices'
  <2> SUFFICES ASSUME active_daemons_limit = server_limit,
                      NEW g \in Generations, Outgoing(g)'
               PROVE  pod'[g] >= Cardinality(Untold(g)')
    BY DEF PodSuffices
  <2>1. g < my_generation /\ g # my_generation /\ Outgoing(g)
    BY SMT, <1>1, <1>3, EventParentAssumption DEF Outgoing, Generations
  <2>2. pod'[g] = pod[g] /\ Untold(g)' = Untold(g)
    BY <1>1, <2>1 DEF Untold, InPhase, IInv, TypeOK
  <2> QED BY <2>1, <2>2 DEF IInv, PodSuffices
<1> QED BY <1>5, <1>6, <1>7, <1>8 DEF IInv

(* A step that only takes children off the scoreboard keeps all of them in *)
(* reach and leaves no more of them to be told.                            *)
LEMMA ChildrenGo ==
  ASSUME IInv, NEW S \in SUBSET Slots, child' = Without(S),
         UNCHANGED <<generation, max_daemons_limit>>
  PROVE  /\ child' \in [Slots -> Phases]
         /\ Occupied' = Occupied \ S
         /\ AllInReach'
         /\ \A g \in Generations : Untold(g)' \subseteq Untold(g)
<1>1. child' \in [Slots -> Phases]
  BY DEF Without, IInv, TypeOK, Phases
<1>2. Occupied' = Occupied \ S
  BY DEF Without, Occupied
<1>3. AllInReach'
  BY <1>2 DEF IInv, AllInReach, InReach
<1>4. \A g \in Generations : Untold(g)' \subseteq Untold(g)
  BY DEF Without, Untold, InPhase
<1> QED BY <1>1, <1>2, <1>3, <1>4

(* ap_mpm_podx_killpg: there is a byte for every child of the generation.  *)
LEMMA Killpg ==
  ASSUME IInv, ap_mpm_podx_killpg
  PROVE  /\ pod' \in [Generations -> Nat]
         /\ \A g \in Generations \ {my_generation} : pod'[g] = pod[g]
         /\ active_daemons_limit = server_limit =>
              pod'[my_generation] >= Cardinality(Untold(my_generation))
<1>1. /\ my_generation \in Generations /\ pod \in [Generations -> Nat]
      /\ active_daemons_limit \in Nat
  BY EventParentAssumption DEF IInv, TypeOK
<1>2. /\ Cardinality(Untold(my_generation)) \in Nat
      /\ Cardinality(Untold(my_generation)) <= server_limit
  BY SlotsFinite DEF Untold, InPhase
<1>3. CASE Untold(my_generation) = {}
  <2>1. pod' = [pod EXCEPT ![my_generation] = 0]
    BY <1>3 DEF ap_mpm_podx_killpg
  <2>2. Cardinality(Untold(my_generation)) = 0
    BY <1>3, FS_EmptySet
  <2> QED BY SMT, <1>1, <2>1, <2>2
<1>4. CASE Untold(my_generation) # {}
  <2>1. pod' = [pod EXCEPT ![my_generation] = @ + active_daemons_limit]
    BY <1>4 DEF ap_mpm_podx_killpg
  <2>2. pod' \in [Generations -> Nat]
    BY SMT, <1>1, <2>1
  <2>3. pod'[my_generation] >= active_daemons_limit
    BY SMT, <1>1, <2>1
  <2> QED BY SMT, <1>1, <1>2, <2>1, <2>2, <2>3
<1> QED BY <1>3, <1>4

(* A restart begins a new generation, with or without killing the old. *)
LEMMA RestartStep ==
  ASSUME IInv, Restart
  PROVE  IInv'
<1>1. /\ UNCHANGED <<generation, max_daemons_limit, total_daemons, spawnVars,
                     sick_child_detected, shutdown_pending, faults>>
      /\ my_generation' = my_generation + 1 /\ restart_pending
      /\ restart_pending' = FALSE /\ is_ungraceful' = FALSE /\ had_healthy_child' = FALSE
      /\ remaining_children_to_start' = 0
      /\ ppc = "loop" /\ ppc' \in {"event_run", "was_graceful"}
  BY DEF Restart
<1>2. /\ my_generation \in Nat /\ MaxGeneration \in Nat /\ my_generation < MaxGeneration
      /\ active_daemons_limit \in Nat
  BY SMT, <1>1, EventParentAssumption DEF IInv, TypeOK, RestartAllowed, Generations
<1>3. RestartAllowed'
  BY <1>1 DEF RestartAllowed
<1>4. /\ my_generation' \in Generations
      /\ generation' \in [Slots -> 0 .. my_generation']
  BY SMT, <1>1, <1>2 DEF IInv, TypeOK, Generations
<1>flags. {sick_child_detected, had_healthy_child, restart_pending,
           shutdown_pending, is_ungraceful}' \subseteq BOOLEAN
  BY <1>1, Zenon DEF IInv, TypeOK
<1>5. CASE is_ungraceful
  <2>1. /\ child' = Without(InReach) /\ pod' = [g \in Generations |-> 0]
        /\ forgotten' = forgotten + Cardinality(InReach \intersect Occupied)
    BY <1>5 DEF Restart, ap_reclaim_child_processes
  <2>2. InReach \in SUBSET Slots /\ InReach \intersect Occupied = Occupied
    BY DEF InReach, IInv, AllInReach
  <2>3. Occupied' = {} /\ AllInReach' /\ child' \in [Slots -> Phases]
    BY <1>1, <2>1, <2>2, ChildrenGo
  <2>4. Cardinality(Occupied') = 0 /\ Cardinality(Occupied) \in Nat
    BY <2>3, FS_EmptySet, SlotsFinite DEF Occupied
  <2>5. TotalAccounted'
    BY SMT, <1>1, <2>1, <2>2, <2>4 DEF IInv, TypeOK, TotalAccounted
  <2>6. \A g \in Generations : Cardinality(Untold(g)') = 0 /\ pod'[g] = 0
    <3>1. \A g \in Generations : Untold(g)' = {}
      BY <2>3 DEF Untold, InPhase, Occupied
    <3> QED BY <2>1, <3>1, FS_EmptySet
  <2>7. PodSuffices'
    BY SMT, <2>6 DEF PodSuffices
  <2>8. TypeOK'
    BY SMTT(60), <1>1, <1>2, <1>4, <1>flags, <2>1, <2>2, <2>3, <2>4 DEF IInv, TypeOK, Phases, spawnVars
  <2> QED BY <1>3, <2>3, <2>5, <2>7, <2>8 DEF IInv
<1>6. CASE ~is_ungraceful
  <2>1. UNCHANGED <<child, forgotten>> /\ ap_mpm_podx_killpg
    BY <1>6 DEF Restart
  <2>2. /\ pod' \in [Generations -> Nat]
        /\ \A g \in Generations \ {my_generation} : pod'[g] = pod[g]
        /\ active_daemons_limit = server_limit =>
             pod'[my_generation] >= Cardinality(Untold(my_generation))
    BY <2>1, Killpg
  <2>3. AllInReach' /\ TotalAccounted'
    BY <1>1, <2>1 DEF IInv, AllInReach, InReach, Occupied, TotalAccounted
  <2>4. PodSuffices'
    <3> SUFFICES ASSUME active_daemons_limit = server_limit,
                        NEW g \in Generations, Outgoing(g)'
                 PROVE  pod'[g] >= Cardinality(Untold(g)')
      BY DEF PodSuffices
    <3>1. Untold(g)' = Untold(g)
      BY <1>1, <2>1 DEF Untold, InPhase
    <3>2. g = my_generation \/ g < my_generation
      BY SMT, <1>1, <1>2 DEF Outgoing, Generations
    <3>3. CASE g = my_generation
      BY <2>2, <3>1, <3>3
    <3>4. CASE g < my_generation /\ g # my_generation
      BY <2>2, <3>1, <3>4 DEF IInv, PodSuffices, Outgoing
    <3> QED BY <3>2, <3>3, <3>4
  <2>5. TypeOK'
    BY SMTT(60), <1>1, <1>2, <1>4, <1>flags, <2>1, <2>2 DEF IInv, TypeOK, spawnVars
  <2> QED BY <1>3, <2>3, <2>4, <2>5 DEF IInv
<1> QED BY <1>5, <1>6 DEF IInv, TypeOK

(* The end of event_run for a stop.                                        *)
LEMMA StopSteps ==
  ASSUME IInv, Stop \/ StopGracefully \/ AwaitChildren
  PROVE  IInv'
<1> DEFINE S == InReach
           G == InReach \intersect InPhase(Gone)
<1>1. S \in SUBSET Slots /\ G \in SUBSET Slots /\ S \intersect Occupied = Occupied
  BY DEF InReach, IInv, AllInReach
<1>2. /\ UNCHANGED <<generation, my_generation, max_daemons_limit, total_daemons,
                     restart_pending, is_ungraceful, faults, forgotten>>
      /\ child' = Without(S) \/ child' = Without(G)
      /\ ppc' \in {"waiting", "done"}
      /\ remaining_children_to_start' \in {0, remaining_children_to_start}
      /\ idle_spawn_rate' \in {1, idle_spawn_rate}
      /\ hold_off_on_exponential_spawning' \in {0, hold_off_on_exponential_spawning}
  BY DEF Stop, StopGracefully, AwaitChildren, ap_reclaim_child_processes,
         ap_relieve_child_processes, spawnVars, signalVars
<1>3. {sick_child_detected, had_healthy_child, restart_pending,
       shutdown_pending, is_ungraceful}' \subseteq BOOLEAN
  <2>1. /\ sick_child_detected' \in {FALSE, sick_child_detected}
        /\ had_healthy_child' \in {FALSE, had_healthy_child}
        /\ shutdown_pending' \in {FALSE, shutdown_pending}
    BY Zenon DEF Stop, StopGracefully, AwaitChildren, healthVars, signalVars
  <2> QED BY <1>2, <2>1, Zenon DEF IInv, TypeOK
<1>4. /\ child' \in [Slots -> Phases] /\ AllInReach'
      /\ \A g \in Generations : Untold(g)' \subseteq Untold(g)
  BY <1>1, <1>2, ChildrenGo
<1>5. TotalAccounted'
  BY <1>2 DEF TotalAccounted
<1>6. RestartAllowed'
  BY <1>2 DEF IInv, RestartAllowed
<1>7. pod' \in [Generations -> Nat] /\ PodSuffices'
  <2>1. CASE StopGracefully
    <3>1. /\ pod' \in [Generations -> Nat]
          /\ \A g \in Generations \ {my_generation} : pod'[g] = pod[g]
          /\ active_daemons_limit = server_limit =>
               pod'[my_generation] >= Cardinality(Untold(my_generation))
      BY <2>1, Killpg DEF StopGracefully
    <3>2. PodSuffices'
      <4> SUFFICES ASSUME active_daemons_limit = server_limit, NEW g \in Generations
                   PROVE  pod'[g] >= Cardinality(Untold(g)')
        BY DEF PodSuffices
      <4>1. /\ Cardinality(Untold(g)) \in Nat /\ Cardinality(Untold(g)') \in Nat
            /\ Cardinality(Untold(g)') <= Cardinality(Untold(g))
        <5>1. Untold(g) \in SUBSET Slots /\ Untold(g)' \in SUBSET Untold(g)
          BY <1>4 DEF Untold, InPhase
        <5> QED BY <5>1, SlotsFinite, FS_Subset
      <4>2. CASE g = my_generation
        BY SMT, <3>1, <4>1, <4>2
      <4>3. CASE g < my_generation
        <5>1. pod'[g] = pod[g] /\ pod[g] >= Cardinality(Untold(g)) /\ pod[g] \in Nat
          BY SMTT(60), <3>1, <4>3, EventParentAssumption
          DEF IInv, TypeOK, PodSuffices, Outgoing, Generations
        <5> QED BY SMT, <4>1, <5>1
      <4>4. CASE g > my_generation
        <5>1. Untold(g)' = {}
          BY SMT, <1>2, <4>4, EventParentAssumption
          DEF Untold, InPhase, IInv, TypeOK, Generations
        <5> QED BY SMT, <3>1, <5>1, FS_EmptySet
      <4> QED BY SMTT(60), <4>2, <4>3, <4>4, EventParentAssumption DEF IInv, TypeOK, Generations
    <3> QED BY <3>1, <3>2
  <2>2. CASE Stop \/ AwaitChildren
    <3>1. pod' = pod /\ (ppc' = "waiting" => ppc = "waiting")
      BY <2>2 DEF Stop, AwaitChildren
    <3>2. \A g \in Generations : Outgoing(g)' => Outgoing(g) /\ Untold(g)' \subseteq Untold(g)
      BY <1>2, <1>4, <3>1 DEF Outgoing
    <3> QED BY <3>1, <3>2, PodKept DEF IInv, TypeOK
  <2> QED BY <2>1, <2>2
<1>8. TypeOK'
  BY SMTT(60), <1>2, <1>3, <1>4, <1>7, EventParentAssumption DEF IInv, TypeOK, Phases
<1> QED BY <1>4, <1>5, <1>6, <1>7, <1>8 DEF IInv

(* A child that is there changes its phase; if it has read a byte it was   *)
(* one of those who had not been told.                                     *)
LEMMA ChildStep ==
  ASSUME IInv, NEW s \in Slots, NEW p \in {"up", "quitting"} \union Gone, NEW n \in {0, 1},
         Becomes(s, p, n), faults' \in 0 .. MaxFaults,
         child[s] # "none", p = "up" => child[s] = "starting",
         n = 1 => child[s] = "up" /\ p = "quitting" /\ pod[generation[s]] > 0
  PROVE  IInv'
<1> DEFINE g == generation[s]
<1>1. /\ child' = [child EXCEPT ![s] = p]
      /\ pod' = [pod EXCEPT ![g] = IF Outgoing(g) /\ Untold(g) = {s} /\ p # "up"
                                   THEN 0 ELSE @ - n]
      /\ UNCHANGED <<generation, my_generation, max_daemons_limit,
                     total_daemons, spawnVars, healthVars,
                     remaining_children_to_start, signalVars, ppc, forgotten>>
  BY DEF Becomes
<1>2. g \in Generations /\ pod \in [Generations -> Nat]
  <2>1. /\ generation \in [Slots -> 0 .. my_generation] /\ my_generation \in 0 .. MaxGeneration
        /\ MaxGeneration \in Nat /\ pod \in [Generations -> Nat]
    BY EventParentAssumption DEF IInv, TypeOK, Generations
  <2> QED BY SMT, <2>1 DEF Generations
<1>3. pod' \in [Generations -> Nat]
  BY SMT, <1>1, <1>2
<1>4. TypeOK' /\ RestartAllowed'
  BY <1>1, <1>3 DEF IInv, TypeOK, RestartAllowed, Gone, spawnVars, healthVars, signalVars
<1>5. Occupied' = Occupied
  BY <1>1 DEF Occupied, Gone, IInv, TypeOK
<1>6. AllInReach' /\ TotalAccounted'
  BY <1>1, <1>5 DEF IInv, AllInReach, InReach, TotalAccounted
<1>7. PodSuffices'
  <2> SUFFICES ASSUME active_daemons_limit = server_limit,
                      NEW h \in Generations, Outgoing(h)'
               PROVE  pod'[h] >= Cardinality(Untold(h)')
    BY DEF PodSuffices
  <2>1. Outgoing(h)
    BY <1>1 DEF Outgoing
  <2>2. pod[h] >= Cardinality(Untold(h)) /\ pod[h] \in Nat
    BY <2>1 DEF IInv, PodSuffices, TypeOK
  <2>3. /\ IsFiniteSet(Untold(h)) /\ Cardinality(Untold(h)) \in Nat
        /\ Cardinality(Untold(h)') \in Nat
    BY SlotsFinite DEF Untold, InPhase
  <2>4. Untold(h)' \in SUBSET Untold(h)
    BY <1>1 DEF Untold, InPhase, Gone, IInv, TypeOK
  <2>5. Cardinality(Untold(h)') <= Cardinality(Untold(h))
    BY <2>3, <2>4, FS_Subset
  <2>6. CASE h # g
    BY SMTT(60), <1>1, <1>2, <2>2, <2>3, <2>5, <2>6
  <2>7. CASE h = g /\ Untold(g) = {s} /\ p # "up"
    <3>1. pod'[h] = 0
      BY <1>1, <1>2, <2>1, <2>7
    <3>2. s \notin Untold(h)'
      BY <1>1, <2>7 DEF Untold, InPhase, Gone, IInv, TypeOK
    <3>3. Untold(h)' = {}
      BY <2>4, <2>7, <3>2
    <3> QED BY SMTT(60), <3>1, <3>3, FS_EmptySet
  <2>8. CASE h = g /\ ~(Untold(g) = {s} /\ p # "up") /\ n = 0
    BY SMTT(60), <1>1, <1>2, <2>2, <2>3, <2>5, <2>8
  <2>9. CASE h = g /\ ~(Untold(g) = {s} /\ p # "up") /\ n = 1
    <3>1. s \in Untold(h)
      BY <2>9 DEF Untold, InPhase
    <3>2. Untold(h)' = Untold(h) \ {s}
      BY <1>1, <2>9 DEF Untold, InPhase, Gone, IInv, TypeOK
    <3>3. Cardinality(Untold(h)') = Cardinality(Untold(h)) - 1
      BY <2>3, <3>1, <3>2, FS_RemoveElement
    <3>4. pod'[h] = pod[h] - 1
      BY <1>1, <1>2, <2>9
    <3> QED BY SMTT(60), <2>2, <2>3, <3>3, <3>4
  <2> QED BY <2>6, <2>7, <2>8, <2>9
<1> QED BY <1>4, <1>6, <1>7 DEF IInv

(* A child moves on by itself, by a byte of the pod, or fails. *)
LEMMA ChildSteps ==
  ASSUME IInv, NEW s \in Slots, OnItsOwn(s) \/ ap_mpm_podx_check(s) \/ Fail(s)
  PROVE  IInv'
<1>1. CASE OnItsOwn(s)
  <2>1. PICK p \in {"up", "quitting", "exited"} : Becomes(s, p, 0)
    BY <1>1 DEF OnItsOwn
  <2>2. child'[s] = p
    BY <2>1 DEF Becomes, IInv, TypeOK
  <2>3. <<child[s], p>> \in CP(s)!Steps /\ child[s] # "up"
    BY <1>1, <2>2 DEF OnItsOwn, CP!ChildNext
  <2>4. child[s] # "none" /\ (p = "up" => child[s] = "starting")
    BY <2>3 DEF CP!Steps
  <2>5. faults' \in 0 .. MaxFaults
    BY <1>1 DEF OnItsOwn, IInv, TypeOK
  <2> QED BY SMTT(60), <2>1, <2>4, <2>5, ChildStep DEF Gone
<1>2. CASE ap_mpm_podx_check(s)
  <2>1. /\ Becomes(s, "quitting", 1) /\ child[s] = "up" /\ pod[generation[s]] > 0
        /\ faults' \in 0 .. MaxFaults
    BY <1>2 DEF ap_mpm_podx_check, IInv, TypeOK
  <2> QED BY <2>1, ChildStep
<1>3. CASE Fail(s)
  <2>1. faults' \in 0 .. MaxFaults
    BY SMTT(60), <1>3, EventParentAssumption DEF Fail, IInv, TypeOK
  <2>2. PICK p \in {"quitting", "exited", "sick", "fatal"} :
          Becomes(s, p, 0) /\ child[s] # "none"
    BY <1>3 DEF Fail
  <2> QED BY SMT, <2>1, <2>2, ChildStep DEF Gone
<1> QED BY <1>1, <1>2, <1>3

(* Every step of the parent and of its children preserves the invariant. *)
LEMMA StepIInv == IInv /\ [Next]_vars => IInv'
<1> SUFFICES ASSUME IInv, [Next]_vars PROVE IInv'
  OBVIOUS
<1>1. CASE UNCHANGED vars
  BY <1>1 DEF vars, spawnVars, healthVars, signalVars, IInv, TypeOK, AllInReach, InReach,
              Occupied, TotalAccounted, PodSuffices, Outgoing, Untold, InPhase, RestartAllowed
<1>2. CASE Next
  BY <1>2, NotesSteps, StartupSteps, ReapStep, SpawnStep, MaintenanceSteps, RestartStep,
     StopSteps, ChildSteps DEF Next, Parent
<1> QED BY <1>1, <1>2

-----------------------------------------------------------------------------
(* The theorems.                                                           *)

(* The invariant holds in every state of the parent. *)
THEOREM Invariance == Spec => []IInv
<1>1. Init => IInv
  BY InitIInv
<1>2. IInv /\ [Next]_vars => IInv'
  BY StepIInv
<1> QED BY <1>1, <1>2, PTL DEF Spec

(* The variables of event_run and the scoreboard keep their types: in      *)
(* particular total_daemons never goes below zero and no pipe of death     *)
(* holds less than nothing.                                                *)
THEOREM ParentTypeCorrect == Spec => []TypeOK
<1>1. IInv => TypeOK
  BY DEF IInv
<1> QED BY <1>1, Invariance, PTL

(* Whatever lowers and raises max_daemons_limit, it stays above every slot *)
(* in use, for any number of slots.                                        *)
THEOREM ChildrenStayInReach == Spec => []AllInReach
<1>1. IInv => AllInReach
  BY DEF IInv
<1> QED BY <1>1, Invariance, PTL

(* total_daemons is the number of children, plus those that ungraceful     *)
(* restarts have reclaimed without telling it.                             *)
THEOREM DaemonsAreAccounted == Spec => []TotalAccounted
<1>1. IInv => TotalAccounted
  BY DEF IInv
<1> QED BY <1>1, Invariance, PTL

(* There is a byte in the pipe of death for every child of an outgoing     *)
(* generation, if MaxRequestWorkers allows for as many as ServerLimit.     *)
THEOREM PodHasBytesForAll == Spec => []PodSuffices
<1>1. IInv => PodSuffices
  BY DEF IInv
<1> QED BY <1>1, Invariance, PTL

(* When event_run returns DONE the scoreboard is empty: no child is left   *)
(* behind by a stop, graceful or not.                                      *)
NoneLeftBehind == ppc = "done" => Occupied = {}

(* A stop leaves no child behind (the end of event_run). *)
THEOREM NobodyIsLeftBehind == Spec => []NoneLeftBehind
<1>1. Init => NoneLeftBehind
  BY DEF Init, NoneLeftBehind
<1>2. ASSUME IInv, NoneLeftBehind, [Next]_vars PROVE NoneLeftBehind'
  <2> SUFFICES ASSUME ppc' = "done" PROVE Occupied' = {}
    BY DEF NoneLeftBehind
  <2>1. CASE ppc # "done"
    <3>1. Stop \/ (AwaitChildren /\ ap_reclaim_child_processes)
      BY <1>2, <2>1 DEF Next, Parent, Sleep, Steady, AwaitChildren, Restart, Stop, StopGracefully,
           ReapFatal, Reap, event_run, StartRemaining, GiveUp, KillOneIdle, Spawn, ScanHealthy,
           Scan, Awaken, Looping, sig_term, sig_restart, OnItsOwn, ap_mpm_podx_check, Fail,
           Becomes, vars
    <3>2. child' = Without(InReach)
      BY <3>1 DEF Stop, ap_reclaim_child_processes
    <3> QED BY <1>2, <3>2 DEF IInv, AllInReach, InReach, Without, Occupied
  <2>2. CASE ppc = "done"
    <3>1. Occupied = {}
      BY <1>2, <2>2 DEF NoneLeftBehind
    <3>2. child' = child \/ \E s \in Slots : OnItsOwn(s)
      BY <1>2, <2>2, <3>1 DEF Next, Parent, Sleep, Steady, AwaitChildren, Restart, Stop,
           StopGracefully, ReapFatal, Reap, event_run, StartRemaining, GiveUp, KillOneIdle, Spawn,
           ScanHealthy, Scan, Awaken, Looping, sig_term, sig_restart, ap_mpm_podx_check, Fail,
           Occupied, vars
    <3>3. ASSUME NEW s \in Slots, OnItsOwn(s) PROVE FALSE
      <4>1. child[s] = "none"
        BY <3>1 DEF Occupied
      <4> QED BY <3>3, <4>1 DEF OnItsOwn, CP!ChildNext, CP!Steps
    <3> QED BY <3>1, <3>2, <3>3 DEF Occupied
  <2> QED BY <2>1, <2>2
<1> QED BY <1>1, <1>2, Invariance, PTL DEF Spec
=============================================================================
