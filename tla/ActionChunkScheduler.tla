------------------------ MODULE ActionChunkScheduler ------------------------
(***************************************************************************)
(* ActionChunkScheduler: one action per environment and control step out   *)
(* of chunks of action_chunk_length actions.  A chunk is abstracted to the *)
(* query of the policy that planned it and the episode its observation     *)
(* came from, an action to its chunk and its place in it.                  *)
(* An operator named X_..._Mutant is X with a plausible mistake: no        *)
(* behaviour of the specification uses it.                                 *)
(***************************************************************************)
EXTENDS Integers, FiniteSets

CONSTANTS
    Envs,            \* the parallel environments
    ChunkLength,     \* action_chunk_length
    MaxFetches,      \* bound on the calls of the policy
    MaxResets,       \* bound on the resets of one environment
    Zeros,           \* a cleared chunk
    None             \* no action was taken yet

ASSUME ChunkAssumption == ChunkLength \in Nat \ {0}
ASSUME EnvsAssumption == Envs # {} /\ IsFiniteSet(Envs)
ASSUME SchedulerBounds == MaxFetches \in Nat /\ MaxResets \in Nat

Chunks == [fetch : Nat, episode : Nat]
Actions == [plan : Chunks \cup {Zeros}, place : 0 .. ChunkLength - 1, episode : Nat]

ASSUME ValuesAssumption == Zeros \notin Chunks /\ None \notin Actions

VARIABLES
    chunk,           \* current_action_chunk, per environment
    index,           \* current_action_index, per environment
    requires,        \* the set env_requires_new_chunk selects
    nFetchCalls,     \* _n_fetch_calls
    totalEnvsNeeded, \* _total_envs_needed
    perEnvFetch,     \* _per_env_fetch_count
    (* seen from outside *)
    episode,         \* resets of each environment so far
    served,          \* chunks each environment was given
    action           \* the actions returned last

stateVars == <<chunk, index, requires>>
counterVars == <<nFetchCalls, totalEnvsNeeded, perEnvFetch>>
vars == <<stateVars, counterVars, episode, served, action>>

Init ==
    /\ chunk = [e \in Envs |-> Zeros]
    /\ index = [e \in Envs |-> 0]
    /\ requires = Envs
    /\ nFetchCalls = 0
    /\ totalEnvsNeeded = 0
    /\ perEnvFetch = [e \in Envs |-> 0]
    /\ episode = [e \in Envs |-> 0]
    /\ served = [e \in Envs |-> 0]
    /\ action = [e \in Envs |-> None]

(* What is read of a chunk: its plan, the place, and the episode served.   *)
Taken(plan, place, e) == [plan |-> plan, place |-> place, episode |-> episode[e]]

Bump(counts, ids) == [e \in Envs |-> counts[e] + (IF e \in ids THEN 1 ELSE 0)]

Rewound(ids) == [e \in Envs |-> IF e \in ids THEN 0 ELSE index[e]]

(* A query of the policy plans a chunk for every environment. *)
Planned(e) == [fetch |-> nFetchCalls + 1, episode |-> episode[e]]

(* The answer replaces all the chunks, not only those the mask selects. *)
Refilled_Unmasked_Mutant(ids) == [e \in Envs |-> Planned(e)]

Refilled(ids) == [e \in Envs |-> IF e \in ids THEN Planned(e) ELSE chunk[e]]

(* mask is env_requires_new_chunk itself, not a copy of it: when the needs *)
(* are counted, the flags of the environments fetched for are cleared.     *)
MaskAfterClear(ids) == requires \ ids

Exhausted(place) == {e \in Envs : place[e] + 1 >= ChunkLength}

(* One action is taken at place[e] of plan[e]; an exhausted chunk is       *)
(* cleared, its index set to -1 and a new one requested.                   *)
Advance(plan, place) ==
    /\ action' = [e \in Envs |-> Taken(plan[e], place[e], e)]
    /\ chunk' = [e \in Envs |-> IF e \in Exhausted(place) THEN Zeros ELSE plan[e]]
    /\ index' = [e \in Envs |-> IF e \in Exhausted(place) THEN -1 ELSE place[e] + 1]
    /\ requires' = Exhausted(place)

Replay ==
    /\ requires = {}
    /\ Advance(chunk, index)
    /\ UNCHANGED <<counterVars, episode, served>>

(* The policy is queried for all environments, and its answer kept for     *)
(* those that need it.                                                     *)
FetchAndReplay ==
    /\ requires # {}
    /\ nFetchCalls < MaxFetches
    /\ Advance(Refilled(requires), Rewound(requires))
    /\ nFetchCalls' = nFetchCalls + 1
    /\ totalEnvsNeeded' = totalEnvsNeeded + Cardinality(MaskAfterClear(requires))
    /\ perEnvFetch' = Bump(perEnvFetch, MaskAfterClear(requires))
    /\ served' = Bump(served, requires)
    /\ UNCHANGED episode

(* The new episodes keep what is left of the old chunks. *)
Needing_Mutant(ids) == requires

Needing(ids) == requires \cup ids

(* The environments started new episodes. *)
Reset(ids) ==
    /\ \A e \in ids : episode[e] < MaxResets
    /\ chunk' = [e \in Envs |-> IF e \in ids THEN Zeros ELSE chunk[e]]
    /\ index' = [e \in Envs |-> IF e \in ids THEN -1 ELSE index[e]]
    /\ requires' = Needing(ids)
    /\ episode' = Bump(episode, ids)
    /\ UNCHANGED <<counterVars, served, action>>

Next ==
    \/ Replay
    \/ FetchAndReplay
    \/ \E ids \in (SUBSET Envs) \ {{}} : Reset(ids)

Spec == Init /\ [][Next]_vars

-----------------------------------------------------------------------------
(* Every variable keeps its type: the index stays inside the chunk.        *)
TypeOK ==
    /\ chunk \in [Envs -> Chunks \cup {Zeros}]
    /\ index \in [Envs -> -1 .. ChunkLength - 1]
    /\ requires \in SUBSET Envs
    /\ nFetchCalls \in Nat
    /\ totalEnvsNeeded \in Nat
    /\ perEnvFetch \in [Envs -> Nat]
    /\ episode \in [Envs -> Nat]
    /\ served \in [Envs -> Nat]
    /\ action \in [Envs -> Actions \cup {None}]

(* The two assertions of get_action never fire: an environment that needs  *)
(* no new chunk has an index inside its chunk, and the chunk is one that   *)
(* was planned in its present episode.                                     *)
ReadyToReplay ==
    \A e \in Envs \ requires :
        /\ index[e] \in 0 .. ChunkLength - 1
        /\ chunk[e] # Zeros
        /\ chunk[e].episode = episode[e]

(* The chunk of the last action of e is not over.                          *)
Continues(e) ==
    action[e] # None /\ action[e].episode = episode[e] /\ action[e].place < ChunkLength - 1

(* The counters of get_action count what their comment says: "how many     *)
(* times each env triggered a chunk fetch, and how many envs actually      *)
(* needed the fetch".                                                      *)
FetchCountersCount == perEnvFetch = served
=============================================================================
