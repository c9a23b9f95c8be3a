--------------------- MODULE SyncedBatchActionScheduler ---------------------
(***************************************************************************)
(* SyncedBatchActionScheduler: an ActionChunkScheduler that queries the    *)
(* policy only once every environment needs a chunk; until then those that *)
(* ran out, or were reset, are given a hold action.                        *)
(***************************************************************************)
EXTENDS ActionChunkScheduler

CONSTANT Hold       \* the plan of a hold action

HoldActions == [plan : {Hold}, place : {0}, episode : Nat]

ASSUME HoldAssumption == Hold \notin Chunks /\ Hold # Zeros /\ None \notin HoldActions

VARIABLE waited     \* consecutive hold actions of each environment

syncedVars == <<vars, waited>>

SyncedInit == Init /\ waited = [e \in Envs |-> 0]

(* A chunk is spent one action too late. *)
Spent_Mutant(ready, place) == {e \in ready : place[e] + 1 > ChunkLength}

Spent(ready, place) == {e \in ready : place[e] + 1 >= ChunkLength}

Given(ready, plan, place) ==
    [e \in Envs |-> IF e \in ready THEN Taken(plan[e], place[e], e) ELSE Taken(Hold, 0, e)]

(* The ready environments take an action each, the others hold.            *)
AdvanceReady(ready, plan, place) ==
    /\ action' = Given(ready, plan, place)
    /\ chunk' = [e \in Envs |-> IF e \in Spent(ready, place) THEN Zeros ELSE plan[e]]
    /\ index' = [e \in Envs |->
                    IF e \in Spent(ready, place) THEN -1
                    ELSE IF e \in ready THEN place[e] + 1 ELSE place[e]]
    /\ requires' = (Envs \ ready) \cup Spent(ready, place)
    /\ waited' = [e \in Envs |-> IF e \in ready THEN 0 ELSE waited[e] + 1]

ReplayOrHold ==
    /\ requires # Envs
    /\ AdvanceReady(Envs \ requires, chunk, index)
    /\ UNCHANGED <<counterVars, episode, served>>

WaitingAfterFetch == {}

FetchForAll ==
    /\ requires = Envs
    /\ nFetchCalls < MaxFetches
    /\ AdvanceReady(Envs \ WaitingAfterFetch, Refilled(Envs), Rewound(Envs))
    /\ nFetchCalls' = nFetchCalls + 1
    /\ totalEnvsNeeded' = totalEnvsNeeded + Cardinality(Envs)
    /\ perEnvFetch' = Bump(perEnvFetch, Envs)
    /\ served' = Bump(served, Envs)
    /\ UNCHANGED episode

SyncedReset(ids) == Reset(ids) /\ waited' = [e \in Envs |-> IF e \in ids THEN 0 ELSE waited[e]]

SyncedNext ==
    \/ ReplayOrHold
    \/ FetchForAll
    \/ \E ids \in (SUBSET Envs) \ {{}} : SyncedReset(ids)

SyncedSpec == SyncedInit /\ [][SyncedNext]_syncedVars

-----------------------------------------------------------------------------
(* Every variable keeps its type.                                          *)
SyncedTypeOK ==
    /\ chunk \in [Envs -> Chunks \cup {Zeros}]
    /\ index \in [Envs -> -1 .. ChunkLength - 1]
    /\ requires \in SUBSET Envs
    /\ nFetchCalls \in Nat
    /\ totalEnvsNeeded \in Nat
    /\ perEnvFetch \in [Envs -> Nat]
    /\ episode \in [Envs -> Nat]
    /\ served \in [Envs -> Nat]
    /\ action \in [Envs -> Actions \cup HoldActions \cup {None}]
    /\ waited \in [Envs -> Nat]

(* The environments that are not waiting replay chunks of the last query,  *)
(* planned in their present episodes, all at the same place.               *)
InLockstep ==
    \A e \in Envs \ requires :
        /\ chunk[e] = [fetch |-> nFetchCalls, episode |-> episode[e]]
        /\ \A f \in Envs \ requires : index[e] = index[f]

(* An environment holds "for up to (action_chunk_length - 1) steps before  *)
(* receiving a fresh action tensor", as the class comment promises.        *)
HoldBounded == \A e \in Envs : waited[e] <= ChunkLength - 1

(* Within an episode an environment finishes its chunk in order, then only *)
(* holds until the action at the start of a new chunk.                     *)
Holds(e) == action'[e].plan = Hold

ContinuesOrWaits(e) ==
    IF action[e] # None /\ action[e].plan # Hold /\ Continues(e)
    THEN action'[e].plan = action[e].plan /\ action'[e].place = action[e].place + 1
    ELSE \/ Holds(e)
         \/ action'[e] = Taken([fetch |-> nFetchCalls', episode |-> episode[e]], 0, e)
=============================================================================
