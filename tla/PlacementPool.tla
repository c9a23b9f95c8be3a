---------------------------- MODULE PlacementPool ----------------------------
(***************************************************************************)
(* PooledObjectPlacer, with PlacementSampler in front of it: one queue of  *)
(* solved layouts per environment, refilled when a reset finds one too     *)
(* short.  The solver is abstracted to how many of the layouts it returns  *)
(* for each environment pass validation; a layout, to the seeded solve and *)
(* the rank that determine it within its environment.                      *)
(* An operator named X_..._Mutant is X with a plausible mistake: no        *)
(* behaviour of the specification uses it.                                 *)
(***************************************************************************)
EXTENDS Integers, Sequences, FiniteSets, FiniteSetsExt, SequencesExt, Functions

CONSTANTS
    NumEnvs,           \* num_envs
    PoolSize,          \* pool_size
    MaxAttempts,       \* max_placement_attempts
    MaxRounds,         \* bound on the rounds drawn at once
    MaxSolves,         \* bound on the solves
    None               \* placements are not fixed

ASSUME PoolAssumption ==
    /\ NumEnvs \in Nat \ {0}
    /\ PoolSize \in Nat \ {0}
    /\ MaxAttempts \in Nat
    /\ MaxRounds \in Nat
    /\ MaxSolves \in Nat

Envs == 0 .. NumEnvs - 1

VARIABLES
    allowFallbacks,    \* allow_best_loss_fallbacks
    pools,             \* _env_pools: the queue and the cursor of each environment
    solves,            \* _num_seeded_solves
    hadFallbacks,      \* _had_fallbacks
    phase,             \* what the pool is doing, or how it ended
    target,            \* target_num_layouts_per_env of the last fill
    batch,             \* batch_idx of the fill
    demand,            \* what the caller draws after the fill
    drawn,             \* layouts drawn from each queue so far
    fixed              \* _fixed_placements

vars == <<allowFallbacks, pools, solves, hadFallbacks, phase, target, batch, demand, drawn, fixed>>

-----------------------------------------------------------------------------
(* EnvLayoutPool *)
Available(pool) == Len(pool.layouts) - pool.cursor

Unread(pool) == SubSeq(pool.layouts, pool.cursor + 1, Len(pool.layouts))

DiscardConsumed(pool) == [layouts |-> Unread(pool), cursor |-> 0]

Extend(pool, layouts) == [pool EXCEPT !.layouts = @ \o layouts]

Advance(pool, count) == [pool EXCEPT !.cursor = @ + count]

-----------------------------------------------------------------------------
AtLeastOne(n) == IF n > 1 THEN n ELSE 1

(* Layouts of each environment among so many, rounded up. *)
PerEnv(numLayouts) == AtLeastOne((numLayouts + NumEnvs - 1) \div NumEnvs)

MaxSolveBatches == AtLeastOne(MaxAttempts)

(* sample_for_envs: one layout for each environment being reset.           *)
ResetOf(ids) == [envs |-> ids, each |-> 1, count |-> Cardinality(ids)]

(* sample_without_replacement: complete rounds of all environments.        *)
RoundsOf(rounds) == [envs |-> Envs, each |-> rounds, count |-> rounds * NumEnvs]

Demands ==
    {ResetOf(ids) : ids \in (SUBSET Envs) \ {{}}} \cup {RoundsOf(n) : n \in 1 .. MaxRounds}

NoDemand == [envs |-> {}, each |-> 0, count |-> 0]

Init ==
    /\ allowFallbacks \in BOOLEAN
    /\ pools = [e \in Envs |-> [layouts |-> <<>>, cursor |-> 0]]
    /\ solves = 0
    /\ hadFallbacks = FALSE
    /\ phase = "filling"
    /\ target = PerEnv(PoolSize)
    /\ batch = 0
    /\ demand = NoDemand
    /\ drawn = [e \in Envs |-> {}]
    /\ fixed = None

-----------------------------------------------------------------------------
(* _prepare_seeded_solve: the batches of one fill share its seed. *)
Seed_Mutant == solves - batch

(* _prepare_seeded_solve: no two solves of the pool share a seed. *)
Seed == solves

MaxMissing == target - Min({Available(pools[e]) : e \in Envs})

(* place_ranked_per_env: the layouts of an environment, best first.        *)
LayoutAt(rank, numValid) == [seed |-> Seed, rank |-> rank, valid |-> rank <= numValid]

BatchSize == PerEnv(MaxMissing * NumEnvs)

AllowFallback == allowFallbacks /\ batch = MaxSolveBatches - 1

AtMost(n, bound) == IF n < bound THEN n ELSE bound

(* How many of its layouts a batch adds to a queue that is short: valid    *)
(* ones, then, where fallbacks are allowed, the best of the others.        *)
NumStored(pool, numValid) ==
    LET missing == target - Available(pool)
    IN  IF missing <= 0 THEN 0
        ELSE AtMost(missing, IF AllowFallback THEN BatchSize ELSE numValid)

Stored(pool, numValid) ==
    [rank \in 1 .. NumStored(pool, numValid) |-> LayoutAt(rank, numValid)]

HadFallbacks(stored) ==
    hadFallbacks \/ \E e \in Envs : \E i \in DOMAIN stored[e] : ~ stored[e][i].valid

(* One batch of _solve_and_store: the fill ends when every queue has come  *)
(* to the target, and fails when no batch is left.                         *)
SolveBatch ==
    /\ phase = "filling"
    /\ \E numValid \in [Envs -> 0 .. BatchSize] :
           LET stored == [e \in Envs |-> Stored(pools[e], numValid[e])]
               filled == \A e \in Envs : Available(pools[e]) + Len(stored[e]) >= target
           IN  /\ pools' = [e \in Envs |-> Extend(pools[e], stored[e])]
               /\ hadFallbacks' = HadFallbacks(stored)
               /\ phase' = IF filled THEN "filled"
                           ELSE IF batch + 1 < MaxSolveBatches THEN "filling" ELSE "failed"
    /\ batch' = batch + 1
    /\ solves' = solves + 1
    /\ UNCHANGED <<allowFallbacks, target, demand, drawn, fixed>>

(* The solver raises, for instance for a loss that is not finite. *)
SolveRaises ==
    /\ phase = "filling"
    /\ phase' = "failed"
    /\ solves' = solves + 1
    /\ UNCHANGED <<allowFallbacks, pools, hadFallbacks, target, batch, demand, drawn, fixed>>

(* prepare_live: with resolve_on_reset the construction layout is only     *)
(* looked at; otherwise each environment keeps one of its layouts.         *)
PrepareLive ==
    /\ phase = "filled"
    /\ demand = NoDemand
    /\ phase' = "ready"
    /\ \/ fixed' = None
       \/ fixed' \in {f \in [Envs -> UNION {ToSet(pools[e].layouts) : e \in Envs}] :
                          \A e \in Envs : f[e] \in ToSet(pools[e].layouts)}
    /\ UNCHANGED <<allowFallbacks, pools, solves, hadFallbacks, target, batch, demand, drawn>>

-----------------------------------------------------------------------------
Suffices(d) == \A e \in d.envs : Available(pools[e]) >= d.each

(* Every environment asked for takes the next layouts of its own queue.    *)
Take(d) ==
    /\ pools' = [e \in Envs |-> IF e \in d.envs THEN Advance(pools[e], d.each) ELSE pools[e]]
    /\ drawn' = [e \in Envs |->
           IF e \in d.envs THEN drawn[e] \cup {Unread(pools[e])[i] : i \in 1 .. d.each}
           ELSE drawn[e]]

Sample(d) ==
    /\ phase = "ready"
    /\ fixed = None
    /\ Suffices(d)
    /\ Take(d)
    /\ UNCHANGED <<allowFallbacks, solves, hadFallbacks, phase, target, batch, demand, fixed>>

(* The pool's size is enough, whatever is drawn. *)
FillSize_Mutant(count) == PoolSize

FillSize(count) == IF PoolSize > count THEN PoolSize ELSE count

(* A queue is too short: all are refilled, by a new fill. *)
Refill(d) ==
    /\ phase = "ready"
    /\ fixed = None
    /\ ~ Suffices(d)
    /\ solves + MaxSolveBatches <= MaxSolves
    /\ pools' = [e \in Envs |-> DiscardConsumed(pools[e])]
    /\ demand' = d
    /\ target' = PerEnv(FillSize(d.count))
    /\ batch' = 0
    /\ phase' = "filling"
    /\ UNCHANGED <<allowFallbacks, solves, hadFallbacks, drawn, fixed>>

(* The caller draws from the refilled queues, or raises at an empty one. *)
SampleRefilled ==
    /\ phase = "filled"
    /\ demand # NoDemand
    /\ IF Suffices(demand)
       THEN Take(demand) /\ phase' = "ready"
       ELSE UNCHANGED <<pools, drawn>> /\ phase' = "exhausted"
    /\ demand' = NoDemand
    /\ UNCHANGED <<allowFallbacks, solves, hadFallbacks, target, batch, fixed>>

Next ==
    \/ SolveBatch
    \/ SolveRaises
    \/ PrepareLive
    \/ \E d \in Demands : Sample(d)
    \/ \E d \in Demands : Refill(d)
    \/ SampleRefilled

Spec == Init /\ [][Next]_vars

-----------------------------------------------------------------------------
(* Sampling is without replacement: across resets, refills and the retries *)
(* of a refill, no environment is given the same solved layout twice.      *)
NoLayoutTwice ==
    \A e \in Envs : /\ IsInjective(Unread(pools[e]))
                    /\ drawn[e] \cap ToSet(Unread(pools[e])) = {}

(* A fill that does not raise leaves enough in every queue: the caller     *)
(* never meets the "has no more valid layouts" error of an empty one.      *)
RefillSuffices == phase # "exhausted"

=============================================================================
