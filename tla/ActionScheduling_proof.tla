----------------------- MODULE ActionScheduling_proof -----------------------
(***************************************************************************)
(* The invariants of both action schedulers, for any environments and any  *)
(* chunk length.                                                           *)
(***************************************************************************)
EXTENDS ActionSchedulers, FiniteSetTheorems, TLAPS

(* The plans an environment can be replaying. *)
LEMMA ChunkFacts ==
    ASSUME NEW plan \in [Envs -> Chunks \cup {Zeros}], NEW place \in [Envs -> 0 .. ChunkLength - 1],
           episode \in [Envs -> Nat], Advance(plan, place)
    PROVE  /\ chunk' \in [Envs -> Chunks \cup {Zeros}]
           /\ index' \in [Envs -> -1 .. ChunkLength - 1]
           /\ requires' \in SUBSET Envs
           /\ action' \in [Envs -> Actions \cup {None}]
<1>1. \A e \in Envs : Taken(plan[e], place[e], e) \in Actions
    BY DEF Taken, Actions
<1>2. action' \in [Envs -> Actions \cup {None}]
    BY <1>1 DEF Advance
<1>3. index' \in [Envs -> -1 .. ChunkLength - 1]
    BY ChunkAssumption DEF Advance, Exhausted
<1> QED BY <1>2, <1>3 DEF Advance, Exhausted

LEMMA BumpType ==
    ASSUME NEW counts \in [Envs -> Nat], NEW ids
    PROVE  Bump(counts, ids) \in [Envs -> Nat]
BY DEF Bump

LEMMA RefilledType ==
    ASSUME NEW ids, chunk \in [Envs -> Chunks \cup {Zeros}], episode \in [Envs -> Nat], nFetchCalls \in Nat
    PROVE  /\ Refilled(ids) \in [Envs -> Chunks \cup {Zeros}]
           /\ \A e \in Envs : Planned(e) \in Chunks
BY DEF Refilled, Planned, Chunks

(* The type invariant and the assertions of get_action, together.          *)
Ready == TypeOK /\ ReadyToReplay

LEMMA ReadyInit == Init => Ready
BY ChunkAssumption, ValuesAssumption DEF Init, Ready, TypeOK, ReadyToReplay

LEMMA ReplayReady == Ready /\ Replay => Ready'
<1> SUFFICES ASSUME Ready, Replay PROVE Ready'
    OBVIOUS
<1>1. index \in [Envs -> 0 .. ChunkLength - 1]
    BY DEF Ready, TypeOK, ReadyToReplay, Replay
<1>2. TypeOK'
    BY <1>1, ChunkFacts DEF Ready, TypeOK, Replay, counterVars
<1>3. ReadyToReplay'
    BY <1>1, ChunkAssumption DEF Ready, TypeOK, ReadyToReplay, Replay, Advance, Exhausted
<1> QED BY <1>2, <1>3 DEF Ready

LEMMA FetchReady == Ready /\ FetchAndReplay => Ready'
<1> SUFFICES ASSUME Ready, FetchAndReplay PROVE Ready'
    OBVIOUS
<1>1. Rewound(requires) \in [Envs -> 0 .. ChunkLength - 1]
    BY ChunkAssumption DEF Rewound, Ready, TypeOK, ReadyToReplay
<1>2. Refilled(requires) \in [Envs -> Chunks \cup {Zeros}]
    BY RefilledType DEF Ready, TypeOK
<1>3. /\ perEnvFetch' \in [Envs -> Nat]
      /\ served' \in [Envs -> Nat]
    BY BumpType DEF FetchAndReplay, Ready, TypeOK
<1>4. totalEnvsNeeded' \in Nat
    <2>1. MaskAfterClear(requires) = {}
        BY DEF MaskAfterClear
    <2>2. Cardinality(MaskAfterClear(requires)) = 0
        BY <2>1, FS_EmptySet
    <2> QED BY <2>2 DEF FetchAndReplay, Ready, TypeOK
<1>5. TypeOK'
    <2>1. Advance(Refilled(requires), Rewound(requires))
        BY DEF FetchAndReplay
    <2>2. /\ chunk' \in [Envs -> Chunks \cup {Zeros}]
          /\ index' \in [Envs -> -1 .. ChunkLength - 1]
          /\ requires' \in SUBSET Envs
          /\ action' \in [Envs -> Actions \cup {None}]
        BY <1>1, <1>2, <2>1, ChunkFacts DEF Ready, TypeOK
    <2>3. nFetchCalls' \in Nat /\ episode' \in [Envs -> Nat]
        BY DEF FetchAndReplay, Ready, TypeOK
    <2> QED BY <1>3, <1>4, <2>2, <2>3 DEF TypeOK
<1>6. ReadyToReplay'
    <2> SUFFICES ASSUME NEW e \in Envs, e \notin requires'
                 PROVE  index'[e] \in 0 .. ChunkLength - 1 /\ chunk'[e] # Zeros /\ chunk'[e].episode = episode'[e]
        BY DEF ReadyToReplay
    <2>1. /\ chunk'[e] = Refilled(requires)[e]
          /\ index'[e] = Rewound(requires)[e] + 1
          /\ Rewound(requires)[e] + 1 < ChunkLength
        BY <1>1, ChunkAssumption DEF FetchAndReplay, Advance, Exhausted
    <2>2. Refilled(requires)[e] # Zeros /\ Refilled(requires)[e].episode = episode[e]
        <3>1. CASE e \in requires
            <4>1. Refilled(requires)[e] = Planned(e)
                BY <3>1 DEF Refilled
            <4>2. Planned(e) \in Chunks /\ Planned(e).episode = episode[e]
                BY RefilledType DEF Planned, Ready, TypeOK
            <4> QED BY <4>1, <4>2, ValuesAssumption
        <3>2. CASE e \notin requires
            BY <3>2 DEF Refilled, Ready, ReadyToReplay
        <3> QED BY <3>1, <3>2
    <2>3. index'[e] \in 0 .. ChunkLength - 1
        <3> DEFINE place == Rewound(requires)[e]
        <3>1. place \in 0 .. ChunkLength - 1
            BY <1>1
        <3>2. index'[e] = place + 1 /\ place + 1 < ChunkLength
            BY <2>1
        <3> HIDE DEF place
        <3> QED BY <3>1, <3>2, ChunkAssumption
    <2>4. episode' = episode
        BY DEF FetchAndReplay
    <2> QED BY <2>1, <2>2, <2>3, <2>4
<1> QED BY <1>5, <1>6 DEF Ready

LEMMA ResetReady == ASSUME NEW ids \in SUBSET Envs, Ready, Reset(ids) PROVE Ready'
<1>1. TypeOK'
    BY BumpType, ChunkAssumption DEF Ready, TypeOK, Reset, Needing, counterVars
<1>2. ReadyToReplay'
    BY DEF Ready, TypeOK, ReadyToReplay, Reset, Needing, Bump
<1> QED BY <1>1, <1>2 DEF Ready

LEMMA ReadyNext == Ready /\ [Next]_vars => Ready'
<1> SUFFICES ASSUME Ready, [Next]_vars PROVE Ready'
    OBVIOUS
<1>1. CASE Replay BY <1>1, ReplayReady
<1>2. CASE FetchAndReplay BY <1>2, FetchReady
<1>3. CASE \E ids \in (SUBSET Envs) \ {{}} : Reset(ids) BY <1>3, ResetReady
<1>4. CASE UNCHANGED vars
    BY <1>4 DEF Ready, TypeOK, ReadyToReplay, vars, stateVars, counterVars
<1> QED BY <1>1, <1>2, <1>3, <1>4 DEF Next

-----------------------------------------------------------------------------
(* How long an environment has held: not longer than the acting ones have  *)
(* acted since the last query.                                             *)
WaitBound ==
    /\ \A f \in Envs \ requires :
        /\ index[f] \in 1 .. ChunkLength - 1
        /\ \A e \in Envs : waited[e] <= index[f] - 1
    /\ \A e \in Envs : waited[e] <= ChunkLength - 1

Synced == SyncedTypeOK /\ InLockstep /\ WaitBound

LEMMA SyncedInitHolds == SyncedInit => Synced
<1> SUFFICES ASSUME SyncedInit PROVE Synced
    OBVIOUS
<1>1. SyncedTypeOK
    BY ChunkAssumption DEF SyncedInit, Init, SyncedTypeOK
<1>2. requires = Envs /\ \A e \in Envs : waited[e] = 0
    BY DEF SyncedInit, Init
<1>3. InLockstep /\ WaitBound
    BY <1>2, ChunkAssumption DEF InLockstep, WaitBound
<1> QED BY <1>1, <1>3 DEF Synced

(* The type of what an action writes, whoever is ready.                    *)
LEMMA AdvanceReadyType ==
    ASSUME NEW ready \in SUBSET Envs,
           NEW plan \in [Envs -> Chunks \cup {Zeros}],
           NEW place \in [Envs -> -1 .. ChunkLength - 1],
           \A e \in ready : place[e] \in 0 .. ChunkLength - 1,
           episode \in [Envs -> Nat], waited \in [Envs -> Nat],
           AdvanceReady(ready, plan, place)
    PROVE  /\ chunk' \in [Envs -> Chunks \cup {Zeros}]
           /\ index' \in [Envs -> -1 .. ChunkLength - 1]
           /\ requires' \in SUBSET Envs
           /\ action' \in [Envs -> Actions \cup HoldActions \cup {None}]
           /\ waited' \in [Envs -> Nat]
<1>1. \A e \in ready : Taken(plan[e], place[e], e) \in Actions
    BY DEF Taken, Actions
<1>2. \A e \in Envs : Taken(Hold, 0, e) \in HoldActions
    BY DEF Taken, HoldActions
<1>3. action' \in [Envs -> Actions \cup HoldActions \cup {None}]
    BY <1>1, <1>2 DEF AdvanceReady, Given
<1>4. index' \in [Envs -> -1 .. ChunkLength - 1]
    BY ChunkAssumption DEF AdvanceReady, Spent
<1>5. waited' \in [Envs -> Nat]
    BY DEF AdvanceReady
<1> QED BY <1>3, <1>4, <1>5 DEF AdvanceReady, Spent

(* An action keeps the ready environments on one index of one chunk, and   *)
(* lets the others hold once more for it.                                  *)
LEMMA AdvanceReadyInStep ==
    ASSUME NEW ready \in SUBSET Envs, NEW k \in 0 .. ChunkLength - 1, NEW plan, NEW place,
           \A e \in ready : place[e] = k,
           \A e \in Envs : waited[e] \in Nat /\ (waited[e] <= k - 1 \/ e \in ready),
           AdvanceReady(ready, plan, place)
    PROVE  /\ \A f \in Envs \ requires' :
                 f \in ready /\ chunk'[f] = plan[f] /\ index'[f] = k + 1 /\ k + 1 < ChunkLength
           /\ \A e \in Envs : waited'[e] <= k
<1>1. \A e \in Envs : waited'[e] <= k
    BY DEF AdvanceReady
<1>2. ASSUME NEW f \in Envs, f \notin requires'
      PROVE  f \in ready /\ chunk'[f] = plan[f] /\ index'[f] = k + 1 /\ k + 1 < ChunkLength
    BY <1>2, ChunkAssumption DEF AdvanceReady, Spent
<1> QED BY <1>1, <1>2

LEMMA ReplayOrHoldSynced == Synced /\ ReplayOrHold => Synced'
<1> SUFFICES ASSUME Synced, ReplayOrHold PROVE Synced'
    OBVIOUS
<1> DEFINE ready == Envs \ requires
<1>1. /\ ready \in SUBSET Envs
      /\ \A e \in ready : index[e] \in 0 .. ChunkLength - 1
      /\ AdvanceReady(ready, chunk, index)
    BY DEF Synced, WaitBound, ReplayOrHold
<1>2. PICK f \in ready : TRUE
    BY DEF ReplayOrHold, Synced, SyncedTypeOK
<1>3. /\ index[f] \in 1 .. ChunkLength - 1
      /\ \A e \in ready : index[e] = index[f]
      /\ \A e \in Envs : waited[e] \in Nat /\ waited[e] <= index[f] - 1
    BY <1>2 DEF Synced, InLockstep, WaitBound, SyncedTypeOK
<1>4. index[f] \in 0 .. ChunkLength - 1
    BY <1>3
<1>5. SyncedTypeOK'
    <2>1. /\ chunk \in [Envs -> Chunks \cup {Zeros}]
          /\ index \in [Envs -> -1 .. ChunkLength - 1]
          /\ episode \in [Envs -> Nat] /\ waited \in [Envs -> Nat]
        BY DEF Synced, SyncedTypeOK
    <2> HIDE DEF ready
    <2>2. /\ chunk' \in [Envs -> Chunks \cup {Zeros}]
          /\ index' \in [Envs -> -1 .. ChunkLength - 1]
          /\ requires' \in SUBSET Envs
          /\ action' \in [Envs -> Actions \cup HoldActions \cup {None}]
          /\ waited' \in [Envs -> Nat]
        BY <1>1, <2>1, AdvanceReadyType
    <2> QED BY <2>2 DEF Synced, SyncedTypeOK, ReplayOrHold, counterVars
<1>6. /\ \A g \in Envs \ requires' :
            /\ g \in ready
            /\ chunk'[g] = chunk[g]
            /\ index'[g] = index[f] + 1
            /\ index[f] + 1 < ChunkLength
      /\ \A e \in Envs : waited'[e] <= index[f]
    <2> HIDE DEF ready
    <2> QED BY <1>1, <1>3, <1>4, AdvanceReadyInStep
<1>7. InLockstep'
    BY <1>6 DEF InLockstep, Synced, ReplayOrHold, counterVars
<1>8. WaitBound'
    <2>1. \A e \in Envs : waited'[e] \in Nat
        BY <1>5 DEF SyncedTypeOK
    <2> QED BY <1>3, <1>6, <2>1, ChunkAssumption DEF WaitBound
<1> QED BY <1>5, <1>7, <1>8 DEF Synced

LEMMA FetchForAllSynced == Synced /\ FetchForAll => Synced'
<1> SUFFICES ASSUME Synced, FetchForAll PROVE Synced'
    OBVIOUS
<1>1. Rewound(Envs) \in [Envs -> 0 .. ChunkLength - 1] /\ \A e \in Envs : Rewound(Envs)[e] = 0
    BY ChunkAssumption DEF Rewound
<1>2. Refilled(Envs) \in [Envs -> Chunks \cup {Zeros}]
    BY RefilledType DEF Synced, SyncedTypeOK
<1>3. AdvanceReady(Envs, Refilled(Envs), Rewound(Envs))
    <2>1. Envs \ WaitingAfterFetch = Envs
        BY DEF WaitingAfterFetch
    <2> QED BY <2>1 DEF FetchForAll
<1>4. perEnvFetch' \in [Envs -> Nat] /\ served' \in [Envs -> Nat]
    BY BumpType DEF FetchForAll, Synced, SyncedTypeOK
<1>5. nFetchCalls' \in Nat /\ episode' = episode
    BY DEF FetchForAll, Synced, SyncedTypeOK
<1>6. totalEnvsNeeded' \in Nat
    <2>1. Cardinality(Envs) \in Nat
        BY EnvsAssumption, FS_CardinalityType
    <2> QED BY <2>1 DEF FetchForAll, Synced, SyncedTypeOK
<1>7. SyncedTypeOK'
    <2>1. episode \in [Envs -> Nat] /\ waited \in [Envs -> Nat]
        BY DEF Synced, SyncedTypeOK
    <2>2. Rewound(Envs) \in [Envs -> -1 .. ChunkLength - 1]
        BY <1>1
    <2>3. /\ chunk' \in [Envs -> Chunks \cup {Zeros}]
          /\ index' \in [Envs -> -1 .. ChunkLength - 1]
          /\ requires' \in SUBSET Envs
          /\ action' \in [Envs -> Actions \cup HoldActions \cup {None}]
          /\ waited' \in [Envs -> Nat]
        BY <1>1, <1>2, <1>3, <2>1, <2>2, AdvanceReadyType
    <2> QED BY <1>4, <1>5, <1>6, <2>1, <2>3 DEF SyncedTypeOK
<1>8. /\ \A g \in Envs \ requires' :
            chunk'[g] = Refilled(Envs)[g] /\ index'[g] = 0 + 1 /\ 0 + 1 < ChunkLength
      /\ \A e \in Envs : waited'[e] <= 0
    <2>1. \A e \in Envs : waited'[e] = 0
        BY <1>3 DEF AdvanceReady
    <2>2. ASSUME NEW g \in Envs, g \notin requires'
          PROVE  chunk'[g] = Refilled(Envs)[g] /\ index'[g] = 0 + 1 /\ 0 + 1 < ChunkLength
        BY <1>1, <1>3, <2>2, ChunkAssumption DEF AdvanceReady, Spent
    <2> QED BY <2>1, <2>2
<1>9. InLockstep'
    <2>1. \A g \in Envs : Refilled(Envs)[g] = [fetch |-> nFetchCalls', episode |-> episode'[g]]
        BY <1>5 DEF Refilled, Planned, FetchForAll
    <2> QED BY <1>8, <2>1 DEF InLockstep
<1>10. WaitBound'
    <2>1. \A g \in Envs \ requires' :
            /\ index'[g] \in 1 .. ChunkLength - 1
            /\ \A e \in Envs : waited'[e] <= index'[g] - 1
        BY <1>8, ChunkAssumption
    <2>2. \A e \in Envs : waited'[e] \in Nat
        BY <1>7 DEF SyncedTypeOK
    <2>3. \A e \in Envs : waited'[e] <= ChunkLength - 1
        BY <1>8, <2>2, ChunkAssumption
    <2> QED BY <2>1, <2>3 DEF WaitBound
<1> QED BY <1>7, <1>9, <1>10 DEF Synced

LEMMA SyncedResetSynced ==
    ASSUME NEW ids \in SUBSET Envs, Synced, SyncedReset(ids) PROVE Synced'
<1>1. SyncedTypeOK'
    BY BumpType, ChunkAssumption
    DEF Synced, SyncedTypeOK, SyncedReset, Reset, Needing, counterVars
<1>2. \A f \in Envs \ requires' :
        /\ f \in Envs \ requires
        /\ chunk'[f] = chunk[f] /\ index'[f] = index[f] /\ episode'[f] = episode[f]
    BY DEF SyncedReset, Reset, Needing, Bump, Synced, SyncedTypeOK
<1>3. \A e \in Envs : waited'[e] = 0 \/ waited'[e] = waited[e]
    BY DEF SyncedReset
<1>4. InLockstep'
    BY <1>2 DEF InLockstep, Synced, SyncedReset, Reset, counterVars
<1>5. WaitBound'
    BY <1>2, <1>3, ChunkAssumption DEF WaitBound, Synced
<1> QED BY <1>1, <1>4, <1>5 DEF Synced

LEMMA SyncedNextHolds == Synced /\ [SyncedNext]_syncedVars => Synced'
<1> SUFFICES ASSUME Synced, [SyncedNext]_syncedVars PROVE Synced'
    OBVIOUS
<1>1. CASE ReplayOrHold BY <1>1, ReplayOrHoldSynced
<1>2. CASE FetchForAll BY <1>2, FetchForAllSynced
<1>3. CASE \E ids \in (SUBSET Envs) \ {{}} : SyncedReset(ids) BY <1>3, SyncedResetSynced
<1>4. CASE UNCHANGED syncedVars
    BY <1>4 DEF Synced, SyncedTypeOK, InLockstep, WaitBound, syncedVars, vars, stateVars, counterVars
<1> QED BY <1>1, <1>2, <1>3, <1>4 DEF SyncedNext

-----------------------------------------------------------------------------
(* Whichever scheduler was selected keeps its own invariant; the one that  *)
(* never holds leaves the counts of held steps at zero.                    *)
Selected ==
    /\ scheduler \in {"chunk", "synced_batch"}
    /\ scheduler = "chunk" => Ready /\ waited = [e \in Envs |-> 0]
    /\ scheduler = "synced_batch" => Synced

LEMMA SelectedInitHolds == SelectedInit => Selected
BY ReadyInit, SyncedInitHolds DEF SelectedInit, SyncedInit, Selected

LEMMA SelectedNextHolds == Selected /\ [SelectedNext]_schedulerVars => Selected'
<1> SUFFICES ASSUME Selected, [SelectedNext]_schedulerVars PROVE Selected'
    OBVIOUS
<1>1. scheduler' = scheduler /\ scheduler \in {"chunk", "synced_batch"}
    BY DEF Selected, SelectedNext, schedulerVars
<1>2. CASE scheduler = "chunk"
    <2>1. Ready /\ waited = [e \in Envs |-> 0]
        BY <1>2 DEF Selected
    <2>2. [Next]_vars /\ waited' = waited
        BY <1>2 DEF SelectedNext, schedulerVars, syncedVars
    <2>3. Ready'
        BY <2>1, <2>2, ReadyNext
    <2> QED BY <1>1, <1>2, <2>1, <2>2, <2>3 DEF Selected
<1>3. CASE scheduler = "synced_batch"
    <2>1. Synced
        BY <1>3 DEF Selected
    <2>2. [SyncedNext]_syncedVars
        BY <1>3 DEF SelectedNext, schedulerVars
    <2>3. Synced'
        BY <2>1, <2>2, SyncedNextHolds
    <2> QED BY <1>1, <1>3, <2>3 DEF Selected
<1> QED BY <1>1, <1>2, <1>3

LEMMA SelectedAlways == SelectedSpec => []Selected
BY SelectedInitHolds, SelectedNextHolds, PTL DEF SelectedSpec

(* The variables of both schedulers keep their types, for any environments *)
(* and any chunk length: no index leaves its chunk.                        *)
THEOREM SchedulersTypeCorrect == SelectedSpec => []SyncedTypeOK
<1>1. Selected => SyncedTypeOK
    <2> SUFFICES ASSUME Selected PROVE SyncedTypeOK
        OBVIOUS
    <2>1. CASE scheduler = "chunk"
        BY <2>1 DEF Selected, Ready, TypeOK, SyncedTypeOK
    <2>2. CASE scheduler = "synced_batch"
        BY <2>2 DEF Selected, Synced
    <2> QED BY <2>1, <2>2 DEF Selected
<1> QED BY <1>1, SelectedAlways, PTL

(* The assertions of get_action never fire, and what an environment        *)
(* replays was planned in its present episode.                             *)
THEOREM AlwaysReadyToReplay == SelectedSpec => []ReadyToReplay
<1>1. Synced => ReadyToReplay
    <2> SUFFICES ASSUME Synced, NEW e \in Envs \ requires
                 PROVE  /\ index[e] \in 0 .. ChunkLength - 1
                        /\ chunk[e] # Zeros
                        /\ chunk[e].episode = episode[e]
        BY DEF ReadyToReplay
    <2>1. index[e] \in 0 .. ChunkLength - 1
        BY DEF Synced, WaitBound
    <2>2. chunk[e] = [fetch |-> nFetchCalls, episode |-> episode[e]]
        BY DEF Synced, InLockstep
    <2>3. chunk[e] \in Chunks
        BY <2>2 DEF Synced, SyncedTypeOK, Chunks
    <2> QED BY <2>1, <2>2, <2>3, ValuesAssumption
<1>2. Selected => ReadyToReplay
    BY <1>1 DEF Selected, Ready
<1> QED BY <1>2, SelectedAlways, PTL

(* Under the synchronised scheduler the environments that act share one    *)
(* query and one place in its chunk, however resets interleave.            *)
THEOREM EnvironmentsActTogether == SelectedSpec => []ActTogether
<1>1. Selected => ActTogether BY DEF Selected, Synced, ActTogether
<1> QED BY <1>1, SelectedAlways, PTL

(* No environment holds longer than action_chunk_length - 1 steps, as the  *)
(* comment of the class promises.                                          *)
THEOREM HoldsAreBounded == SelectedSpec => []HoldBounded
<1>1. Selected => HoldBounded
    BY ChunkAssumption DEF Selected, Synced, WaitBound, HoldBounded
<1> QED BY <1>1, SelectedAlways, PTL

-----------------------------------------------------------------------------
(* The last action of e was of a chunk that is not over, in this episode.  *)
Continuing(e) == action[e] # None /\ action[e].plan # Hold /\ Continues(e)

(* Who needs no chunk is right behind its last action; who does need one   *)
(* has finished its chunk, was reset, or has been holding.                 *)
BehindLastAction(e) ==
    /\ action[e] # None => action[e].episode <= episode[e]
    /\ Continuing(e) <=> e \notin requires
    /\ e \notin requires => chunk[e] = action[e].plan /\ index[e] = action[e].place + 1

InOrder == \A e \in Envs : BehindLastAction(e)

LEMMA InOrderInit == SelectedInit => InOrder
BY DEF SelectedInit, SyncedInit, Init, InOrder, BehindLastAction, Continuing

(* The action that is read of a plan is an action, and no hold.            *)
LEMMA TakenFacts ==
    ASSUME NEW e \in Envs, NEW plan \in Chunks \cup {Zeros}, NEW place \in 0 .. ChunkLength - 1,
           episode \in [Envs -> Nat]
    PROVE  /\ Taken(plan, place, e) # None
           /\ Taken(plan, place, e).plan = plan /\ plan # Hold
           /\ Taken(plan, place, e).place = place
           /\ Taken(plan, place, e).episode = episode[e]
<1>1. Taken(plan, place, e) \in Actions
    BY DEF Taken, Actions
<1> QED BY <1>1, ValuesAssumption, HoldAssumption DEF Taken

LEMMA AdvanceInOrder ==
    ASSUME NEW plan \in [Envs -> Chunks \cup {Zeros}], NEW place \in [Envs -> 0 .. ChunkLength - 1],
           episode \in [Envs -> Nat], episode' = episode, Advance(plan, place)
    PROVE  InOrder'
<1> SUFFICES ASSUME NEW e \in Envs PROVE BehindLastAction(e)'
    BY DEF InOrder
<1>1. plan[e] \in Chunks \cup {Zeros} /\ place[e] \in 0 .. ChunkLength - 1 /\ episode[e] \in Nat
    OBVIOUS
<1>2. action'[e] = Taken(plan[e], place[e], e)
    BY DEF Advance
<1>3. /\ action'[e] # None /\ action'[e].plan = plan[e] /\ plan[e] # Hold
      /\ action'[e].place = place[e] /\ action'[e].episode = episode[e]
    <2>1. ASSUME NEW p \in Chunks \cup {Zeros}, NEW k \in 0 .. ChunkLength - 1, action'[e] = Taken(p, k, e)
           PROVE  /\ action'[e] # None /\ action'[e].plan = p /\ p # Hold
                  /\ action'[e].place = k /\ action'[e].episode = episode[e]
        <3>1. /\ Taken(p, k, e) # None /\ Taken(p, k, e).plan = p /\ p # Hold
              /\ Taken(p, k, e).place = k /\ Taken(p, k, e).episode = episode[e]
            BY TakenFacts
        <3> QED BY <2>1, <3>1
    <2> QED BY <2>1, <1>1, <1>2
<1>4. e \in requires' <=> place[e] + 1 >= ChunkLength
    BY DEF Advance, Exhausted
<1>5. e \notin requires' => chunk'[e] = plan[e] /\ index'[e] = place[e] + 1
    BY DEF Advance
<1>6. Continuing(e)' <=> place[e] < ChunkLength - 1
    BY <1>3 DEF Continuing, Continues
<1> QED BY <1>1, <1>3, <1>4, <1>5, <1>6, ChunkAssumption DEF BehindLastAction

LEMMA AdvanceReadyInOrder ==
    ASSUME NEW ready \in SUBSET Envs,
           NEW plan \in [Envs -> Chunks \cup {Zeros}], NEW place,
           \A e \in ready : place[e] \in 0 .. ChunkLength - 1,
           episode \in [Envs -> Nat], episode' = episode, AdvanceReady(ready, plan, place)
    PROVE  InOrder'
<1> SUFFICES ASSUME NEW e \in Envs PROVE BehindLastAction(e)'
    BY DEF InOrder
<1>0. episode[e] \in Nat
    OBVIOUS
<1>1. CASE e \in ready
    <2>1. plan[e] \in Chunks \cup {Zeros} /\ place[e] \in 0 .. ChunkLength - 1
        BY <1>1
    <2>2. action'[e] = Taken(plan[e], place[e], e)
        BY <1>1 DEF AdvanceReady, Given
    <2>3. /\ action'[e] # None /\ action'[e].plan = plan[e] /\ plan[e] # Hold
          /\ action'[e].place = place[e] /\ action'[e].episode = episode[e]
        <3>1. ASSUME NEW p \in Chunks \cup {Zeros}, NEW k \in 0 .. ChunkLength - 1, action'[e] = Taken(p, k, e)
               PROVE  /\ action'[e] # None /\ action'[e].plan = p /\ p # Hold
                      /\ action'[e].place = k /\ action'[e].episode = episode[e]
            BY ONLY <3>1, e \in Envs, episode \in [Envs -> Nat], TakenFacts
        <3> QED BY <3>1, <2>1, <2>2
    <2>4. e \in requires' <=> place[e] + 1 >= ChunkLength
        BY <1>1 DEF AdvanceReady, Spent
    <2>5. e \notin requires' => chunk'[e] = plan[e] /\ index'[e] = place[e] + 1
        BY <1>1 DEF AdvanceReady
    <2>6. Continuing(e)' <=> place[e] < ChunkLength - 1
        BY <2>3 DEF Continuing, Continues
    <2> QED BY <1>0, <2>1, <2>3, <2>4, <2>5, <2>6, ChunkAssumption DEF BehindLastAction
<1>2. CASE e \notin ready
    <2>1. action'[e] = Taken(Hold, 0, e) /\ e \in requires'
        BY <1>2 DEF AdvanceReady, Given
    <2>2. action'[e].plan = Hold /\ action'[e].episode = episode[e]
        BY <2>1 DEF Taken
    <2> QED BY <1>0, <2>1, <2>2 DEF BehindLastAction, Continuing
<1> QED BY <1>1, <1>2

LEMMA ResetInOrder ==
    ASSUME SyncedTypeOK, InOrder, NEW ids \in SUBSET Envs, Reset(ids) PROVE InOrder'
<1> SUFFICES ASSUME NEW e \in Envs PROVE BehindLastAction(e)'
    BY DEF InOrder
<1>1. BehindLastAction(e) /\ action' = action /\ episode[e] \in Nat
    BY DEF InOrder, Reset, SyncedTypeOK
<1>2. action[e] # None => action[e].episode \in Nat
    BY DEF SyncedTypeOK, Actions, HoldActions
<1>3. CASE e \in ids
    <2>1. e \in requires' /\ episode'[e] = episode[e] + 1
        BY <1>3 DEF Reset, Needing, Bump
    <2>2. ~ Continuing(e)'
        BY <1>1, <1>2, <2>1 DEF BehindLastAction, Continuing, Continues
    <2> QED BY <1>1, <1>2, <2>1, <2>2 DEF BehindLastAction
<1>4. CASE e \notin ids
    <2>1. /\ e \in requires' <=> e \in requires
          /\ episode'[e] = episode[e] /\ chunk'[e] = chunk[e] /\ index'[e] = index[e]
        BY <1>1, <1>4 DEF Reset, Needing, Bump
    <2> QED BY <1>1, <2>1 DEF BehindLastAction, Continuing, Continues
<1> QED BY <1>3, <1>4

(* What is read where a chunk was left continues it.                       *)
LEMMA ReplayContinues ==
    ASSUME NEW e \in Envs, BehindLastAction(e), e \notin requires,
           action'[e] = Taken(chunk[e], index[e], e)
    PROVE  ContinuesOrWaits(e)
BY DEF BehindLastAction, Continuing, ContinuesOrWaits, Taken

(* Who needed a chunk starts the one that was planned for it, or holds.    *)
LEMMA NewChunkStarts ==
    ASSUME NEW e \in Envs, BehindLastAction(e), e \in requires,
           \/ action'[e].plan = Hold
           \/ action'[e] = Taken([fetch |-> nFetchCalls', episode |-> episode[e]], 0, e)
    PROVE  ContinuesOrWaits(e)
BY DEF BehindLastAction, Continuing, ContinuesOrWaits, Holds

OrderedStep == action' # action => \A e \in Envs : ContinuesOrWaits(e)

LEMMA ChunkSteps ==
    ASSUME Ready, SyncedTypeOK, InOrder, [Next]_vars PROVE InOrder' /\ OrderedStep
<1>0. /\ chunk \in [Envs -> Chunks \cup {Zeros}] /\ episode \in [Envs -> Nat]
      /\ requires \in SUBSET Envs /\ nFetchCalls \in Nat
    BY DEF SyncedTypeOK
<1>1. CASE Replay
    <2>1. index \in [Envs -> 0 .. ChunkLength - 1]
        BY <1>1 DEF Ready, TypeOK, ReadyToReplay, Replay
    <2>2. InOrder'
        BY <1>0, <1>1, <2>1, AdvanceInOrder DEF Replay
    <2>3. ASSUME NEW e \in Envs PROVE ContinuesOrWaits(e)
        <3>1. e \notin requires /\ action'[e] = Taken(chunk[e], index[e], e)
            BY <1>1 DEF Replay, Advance
        <3> QED BY <3>1, ReplayContinues DEF InOrder
    <2> QED BY <2>2, <2>3 DEF OrderedStep
<1>2. CASE FetchAndReplay
    <2>1. Rewound(requires) \in [Envs -> 0 .. ChunkLength - 1]
        BY ChunkAssumption DEF Rewound, Ready, TypeOK, ReadyToReplay
    <2>2. Refilled(requires) \in [Envs -> Chunks \cup {Zeros}]
        BY <1>0, RefilledType
    <2>3. Advance(Refilled(requires), Rewound(requires)) /\ episode' = episode
        BY <1>2 DEF FetchAndReplay
    <2>4. InOrder'
        BY <1>0, <2>1, <2>2, <2>3, AdvanceInOrder
    <2>5. ASSUME NEW e \in Envs PROVE ContinuesOrWaits(e)
        <3>1. action'[e] = Taken(Refilled(requires)[e], Rewound(requires)[e], e)
            BY <2>3 DEF Advance
        <3>2. CASE e \in requires
            <4>1. action'[e] = Taken([fetch |-> nFetchCalls', episode |-> episode[e]], 0, e)
                BY <1>2, <3>1, <3>2 DEF Refilled, Rewound, Planned, FetchAndReplay
            <4> QED BY <3>2, <4>1, NewChunkStarts DEF InOrder
        <3>3. CASE e \notin requires
            <4>1. action'[e] = Taken(chunk[e], index[e], e)
                BY <3>1, <3>3 DEF Refilled, Rewound
            <4> QED BY <3>3, <4>1, ReplayContinues DEF InOrder
        <3> QED BY <3>2, <3>3
    <2> QED BY <2>4, <2>5 DEF OrderedStep
<1>3. CASE \E ids \in (SUBSET Envs) \ {{}} : Reset(ids)
    BY <1>3, ResetInOrder DEF Reset, OrderedStep
<1>4. CASE UNCHANGED vars
    BY <1>4 DEF vars, stateVars, InOrder, BehindLastAction, Continuing, Continues, OrderedStep
<1> QED BY <1>1, <1>2, <1>3, <1>4 DEF Next

LEMMA SyncedSteps ==
    ASSUME Synced, InOrder, [SyncedNext]_syncedVars PROVE InOrder' /\ OrderedStep
<1>0. /\ chunk \in [Envs -> Chunks \cup {Zeros}] /\ episode \in [Envs -> Nat]
      /\ requires \in SUBSET Envs /\ nFetchCalls \in Nat
    BY DEF Synced, SyncedTypeOK
<1>1. CASE ReplayOrHold
    <2>1. \A e \in Envs \ requires : index[e] \in 0 .. ChunkLength - 1
        BY DEF Synced, WaitBound
    <2>2. AdvanceReady(Envs \ requires, chunk, index) /\ episode' = episode
        BY <1>1 DEF ReplayOrHold
    <2>3. InOrder'
        BY <1>0, <2>1, <2>2, AdvanceReadyInOrder
    <2>4. ASSUME NEW e \in Envs PROVE ContinuesOrWaits(e)
        <3>1. CASE e \in requires
            <4>1. action'[e] = Taken(Hold, 0, e)
                BY <2>2, <3>1 DEF AdvanceReady, Given
            <4>2. action'[e].plan = Hold
                BY <4>1 DEF Taken
            <4>3. BehindLastAction(e)
                BY DEF InOrder
            <4> QED BY <3>1, <4>2, <4>3, NewChunkStarts
        <3>2. CASE e \notin requires
            <4>1. action'[e] = Taken(chunk[e], index[e], e)
                BY <2>2, <3>2 DEF AdvanceReady, Given
            <4> QED BY <3>2, <4>1, ReplayContinues DEF InOrder
        <3> QED BY <3>1, <3>2
    <2> QED BY <2>3, <2>4 DEF OrderedStep
<1>2. CASE FetchForAll
    <2>1. Rewound(Envs) \in [Envs -> 0 .. ChunkLength - 1] /\ \A e \in Envs : Rewound(Envs)[e] = 0
        BY ChunkAssumption DEF Rewound
    <2>2. Refilled(Envs) \in [Envs -> Chunks \cup {Zeros}]
        BY <1>0, RefilledType
    <2>3. AdvanceReady(Envs, Refilled(Envs), Rewound(Envs)) /\ episode' = episode
        <3>1. Envs \ WaitingAfterFetch = Envs
            BY DEF WaitingAfterFetch
        <3> QED BY <1>2, <3>1 DEF FetchForAll
    <2>4. InOrder'
        BY <1>0, <2>1, <2>2, <2>3, AdvanceReadyInOrder
    <2>5. ASSUME NEW e \in Envs PROVE ContinuesOrWaits(e)
        <3>1. action'[e] = Taken(Refilled(Envs)[e], Rewound(Envs)[e], e)
            BY <2>3 DEF AdvanceReady, Given
        <3>2. action'[e] = Taken([fetch |-> nFetchCalls', episode |-> episode[e]], 0, e)
            BY <1>2, <2>1, <3>1 DEF Refilled, Planned, FetchForAll
        <3>3. e \in requires
            BY <1>2 DEF FetchForAll
        <3> QED BY <3>2, <3>3, NewChunkStarts DEF InOrder
    <2> QED BY <2>4, <2>5 DEF OrderedStep
<1>3. CASE \E ids \in (SUBSET Envs) \ {{}} : SyncedReset(ids)
    BY <1>3, ResetInOrder DEF SyncedReset, Reset, OrderedStep, Synced
<1>4. CASE UNCHANGED syncedVars
    BY <1>4 DEF syncedVars, vars, stateVars, InOrder, BehindLastAction, Continuing, Continues, OrderedStep
<1> QED BY <1>1, <1>2, <1>3, <1>4 DEF SyncedNext

LEMMA SelectedSteps ==
    Selected /\ InOrder /\ [SelectedNext]_schedulerVars => InOrder' /\ OrderedStep
<1> SUFFICES ASSUME Selected, InOrder, [SelectedNext]_schedulerVars PROVE InOrder' /\ OrderedStep
    OBVIOUS
<1>1. CASE scheduler = "chunk"
    <2>1. Ready /\ waited = [e \in Envs |-> 0]
        BY <1>1 DEF Selected
    <2>2. SyncedTypeOK
        BY <2>1 DEF Ready, TypeOK, SyncedTypeOK
    <2>3. [Next]_vars
        BY <1>1 DEF SelectedNext, schedulerVars, syncedVars
    <2> QED BY <2>1, <2>2, <2>3, ChunkSteps
<1>2. CASE scheduler = "synced_batch"
    <2>1. Synced /\ [SyncedNext]_syncedVars
        BY <1>2 DEF Selected, SelectedNext, schedulerVars
    <2> QED BY <2>1, SyncedSteps
<1> QED BY <1>1, <1>2 DEF Selected

(* Under either scheduler, and however resets interleave, an environment   *)
(* takes the actions of a chunk in order and to its end, then the first    *)
(* one of a new chunk, holding at most in between.                         *)
THEOREM ActionsAreInOrder == SelectedSpec => ReplaysInOrder
<1>1. Selected /\ InOrder /\ [SelectedNext]_schedulerVars
          => [action' # action => \A e \in Envs : ContinuesOrWaits(e)]_schedulerVars
    BY SelectedSteps DEF OrderedStep
<1>2. Selected /\ InOrder /\ [SelectedNext]_schedulerVars => InOrder'
    BY SelectedSteps
<1> QED BY <1>1, <1>2, InOrderInit, SelectedAlways, PTL DEF SelectedSpec, ReplaysInOrder
=============================================================================
