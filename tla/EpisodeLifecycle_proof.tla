------------------------ MODULE EpisodeLifecycle_proof ------------------------
(***************************************************************************)
(* Proofs about EpisodeLifecycle and what follows its episodes, for any    *)
(* number of environments, records and episodes.                           *)
(*                                                                         *)
(*   The environment (IInv): type correctness, the accounting of the       *)
(*   episodes, that the assertions of the scheduler and the variation      *)
(*   records never fire, the rows and the records they replay, and that    *)
(*   the environment implements EpisodeBudget.                             *)
(*   The rollout loop of PolicyRollout (RolloutInv).                       *)
(*   The dataset and the progress of EpisodeRecording (RecordingInv).      *)
(*   The clips of EpisodeVideos (VideosInv).                               *)
(***************************************************************************)
EXTENDS EpisodeVideos, PolicyRollout, FiniteSetTheorems, TLAPS

-----------------------------------------------------------------------------
(* Counting environments.                                                  *)

LEMMA EnvSets ==
    ASSUME NEW ids \in SUBSET Envs
    PROVE  IsFiniteSet(ids) /\ Cardinality(ids) \in Nat
<1>1. IsFiniteSet(Envs)
  BY NumEnvsAssumption, FS_Interval DEF Envs
<1> QED
  BY <1>1, FS_Subset, FS_CardinalityType

(* The ids kept by a cut ids[:n] number n, and come from ids. *)
LEMMA PrefixCount ==
    ASSUME NEW ids \in SUBSET Envs, NEW order \in SortedIds(ids),
           NEW n \in 0 .. Cardinality(ids)
    PROVE  LET prefix == [i \in 1 .. n |-> order[i]]
           IN  /\ prefix \in Seq(ids)
               /\ Len(prefix) = n
               /\ IdsOf(prefix) \subseteq ids
               /\ Cardinality(IdsOf(prefix)) = n
<1> DEFINE prefix == [i \in 1 .. n |-> order[i]]
<1>1. Cardinality(ids) \in Nat
  BY EnvSets
<1>2. order \in [1 .. Cardinality(ids) -> ids]
  BY DEF SortedIds
<1>3. \A i \in 1 .. n : order[i] \in ids
  BY <1>1, <1>2
<1>4. prefix \in Seq(ids) /\ Len(prefix) = n /\ DOMAIN prefix = 1 .. n
  BY <1>1, <1>3
<1>5. IdsOf(prefix) \subseteq ids
  BY <1>3, <1>4 DEF IdsOf
<1>6. \A i, j \in 1 .. n : i # j => prefix[i] # prefix[j]
  <2> SUFFICES ASSUME NEW i \in 1 .. n, NEW j \in 1 .. n, i < j
               PROVE  prefix[i] # prefix[j]
    BY <1>1
  <2>1. i \in 1 .. Cardinality(ids) /\ j \in 1 .. Cardinality(ids)
    BY <1>1
  <2>2. order[i] < order[j]
    BY <2>1 DEF SortedIds
  <2>3. order[i] \in Envs /\ order[j] \in Envs
    BY <1>3
  <2>4. order[i] \in Int /\ order[j] \in Int
    BY <2>3, NumEnvsAssumption DEF Envs
  <2> QED
    BY <2>2, <2>4
<1>7. prefix \in Bijection(1 .. n, IdsOf(prefix))
  BY <1>4, <1>6 DEF IdsOf, Bijection, Injection, Surjection, IsInjective
<1>8. Cardinality(IdsOf(prefix)) = n
  BY <1>1, <1>7, FS_CountingElements DEF ExistsBijection
<1> QED
  BY <1>4, <1>5, <1>8

-----------------------------------------------------------------------------
(* The operators of _reset_idx.                                            *)

LEMMA RowType ==
    ASSUME TypeOK, NEW env \in Envs
    PROVE  EpisodeRow(env) \in Rows
<1>1. GetEpisodeIndex(env) \in Nat
  BY DEF GetEpisodeIndex, TypeOK
<1>2. episodeLength[env] \in Nat
  BY BoundsAssumption DEF TypeOK
<1>3. SourceRecord(env) \in Nat \cup {Live}
  BY NumRecordsAssumption DEF SourceRecord, TypeOK
<1>4. SampleForEpisode(env, GetEpisodeIndex(env)) \in Nat \cup {Live}
  BY DEF SampleForEpisode, TypeOK
<1> QED
  BY <1>1, <1>2, <1>3, <1>4 DEF EpisodeRow, Rows

(* The rows of the first n episodes of an enumeration. *)
LEMMA RowsType ==
    ASSUME TypeOK, NEW ids \in SUBSET Envs, NEW order \in SortedIds(ids),
           NEW n \in 0 .. Cardinality(ids)
    PROVE  rows \o [i \in 1 .. n |-> EpisodeRow(order[i])] \in Seq(Rows)
<1>1. Cardinality(ids) \in Nat
  BY EnvSets
<1>2. \A i \in 1 .. n : order[i] \in Envs
  BY <1>1 DEF SortedIds
<1>3. \A i \in 1 .. n : EpisodeRow(order[i]) \in Rows
  BY <1>2, RowType
<1>4. [i \in 1 .. n |-> EpisodeRow(order[i])] \in Seq(Rows)
  BY <1>1, <1>3
<1>5. rows \in Seq(Rows)
  BY DEF TypeOK
<1> QED
  BY <1>4, <1>5

LEMMA CandidatesType ==
    ASSUME TypeOK
    PROVE  Candidates \in SUBSET Envs
BY DEF Candidates, TypeOK

(* The cut to the remaining budget. *)
LEMMA StartOrderFacts ==
    ASSUME TypeOK, Accounting, NEW sorted \in SortedIds(Candidates)
    PROVE  LET order == StartOrder(sorted)
           IN  /\ order \in Seq(Candidates)
               /\ IdsOf(order) \subseteq Candidates
               /\ Cardinality(IdsOf(order)) = Len(order)
               /\ limit # NoLimit => started + Len(order) <= limit
<1> DEFINE n == EpisodeStarts(sorted)
<1>1. Candidates \in SUBSET Envs /\ Cardinality(Candidates) \in Nat
  BY CandidatesType, EnvSets
<1>2. Len(sorted) = Cardinality(Candidates)
  BY <1>1 DEF SortedIds
<1>3. /\ n \in 0 .. Cardinality(Candidates)
      /\ limit # NoLimit => started + n <= limit
  BY <1>1, <1>2 DEF EpisodeStarts, Least, TypeOK, Accounting, Budget!WithinBudget
<1>4. StartOrder(sorted) = [i \in 1 .. n |-> sorted[i]]
  BY DEF StartOrder
<1> HIDE DEF n
<1> QED
  BY <1>1, <1>3, <1>4, PrefixCount

-----------------------------------------------------------------------------
(* The inductive invariant, action by action.                              *)

(* The instance of EpisodeBudget brings a copy of Cardinality. *)
LEMMA SameCardinality ==
    ASSUME NEW ids
    PROVE  Budget!Cardinality(ids) = Cardinality(ids)
BY DEF Budget!Cardinality, Cardinality

LEMMA EmptyAccounting ==
    ASSUME limit = NoLimit, started = 0, completed = 0, active = {}
    PROVE  Accounting
BY FS_EmptySet, SameCardinality DEF Accounting, Budget!Balanced, Budget!WithinBudget

LEMMA InitInvariant == Init => IInv
<1> SUFFICES ASSUME Init PROVE IInv
  OBVIOUS
<1>1. TypeOK
  BY NumEnvsAssumption, BoundsAssumption DEF Init, TypeOK, Envs
<1>2. Accounting
  BY EmptyAccounting DEF Init
<1>3. BookkeepingNeverFails /\ CollaboratorsFollowTheMask /\ CallInProgress
  BY DEF Init, BookkeepingNeverFails, CollaboratorsFollowTheMask, CallInProgress
<1> QED
  BY <1>1, <1>2, <1>3 DEF IInv

LEMMA BuildInvariant == IInv /\ Build => IInv'
<1> SUFFICES ASSUME IInv, Build PROVE IInv'
  OBVIOUS
<1>1. TypeOK'
  <2>1. /\ DOMAIN assigned' \subseteq Envs
        /\ assigned' \in [DOMAIN assigned' -> 0 .. NumRecords - 1]
    BY DEF Build
  <2>2. /\ DOMAIN samples' \subseteq Envs \X Nat
        /\ samples' \in [DOMAIN samples' -> Nat \cup {Live}]
    BY DEF Build, SamplesOfNewEnv
  <2>3. /\ episodeIndex' \in [Envs -> Nat \cup {-1}]
        /\ episodeLength' \in [Envs -> 0 .. MaxEpisodeLength]
    BY BoundsAssumption DEF Build
  <2>4. rows' \in Seq(Rows)
    BY DEF Build
  <2>5. builds' \in Nat
    BY DEF IInv, Build, TypeOK
  <2>6. /\ limit' \in Nat \cup {NoLimit}
        /\ started' \in Nat /\ completed' \in Nat /\ nextOccurrence' \in Nat
        /\ active' \in SUBSET Envs /\ resetIds' \in SUBSET Envs
        /\ reported' \in SUBSET Envs
    BY DEF Build
  <2>7. /\ phase' \in {"idle", "resetting", "starting", "returning", "failed"}
        /\ requested' \in SUBSET Envs /\ finishing' \in SUBSET Envs
        /\ activeBefore' \in SUBSET Envs /\ stepping' \in BOOLEAN
        /\ failure' \in {"none", "recording", "event", "bookkeeping"}
    BY DEF Build
  <2> QED
    BY <2>1, <2>2, <2>3, <2>4, <2>5, <2>6, <2>7 DEF TypeOK
<1>2. Accounting'
  BY FS_EmptySet, SameCardinality
  DEF Build, Accounting, Budget!Balanced, Budget!WithinBudget
<1>3. BookkeepingNeverFails' /\ CollaboratorsFollowTheMask' /\ CallInProgress'
  BY DEF Build, SamplesOfNewEnv, BookkeepingNeverFails, CollaboratorsFollowTheMask,
         CallInProgress
<1> QED
  BY <1>1, <1>2, <1>3 DEF IInv

LEMMA ConfigureInvariant == IInv /\ ConfigureEpisodeLimit => IInv'
<1> SUFFICES ASSUME IInv, ConfigureEpisodeLimit PROVE IInv'
  OBVIOUS
<1> USE DEF IInv, ConfigureEpisodeLimit, schedulerVars, callVars
<1>1. TypeOK'
  BY BoundsAssumption DEF TypeOK
<1>2. Accounting'
  BY BoundsAssumption DEF Accounting, Budget!Balanced, Budget!WithinBudget
<1>3. BookkeepingNeverFails' /\ CollaboratorsFollowTheMask' /\ CallInProgress'
  BY DEF BookkeepingNeverFails, CollaboratorsFollowTheMask, CallInProgress
<1> QED
  BY <1>1, <1>2, <1>3

LEMMA ResetInvariant ==
    ASSUME IInv, NEW ids \in SUBSET Envs, Reset(ids)
    PROVE  IInv'
<1> USE DEF IInv, Reset, schedulerVars
<1>1. TypeOK'
  BY DEF TypeOK
<1>2. Accounting'
  BY DEF Accounting, Budget!Balanced, Budget!WithinBudget
<1>3. BookkeepingNeverFails' /\ CollaboratorsFollowTheMask' /\ CallInProgress'
  BY DEF BookkeepingNeverFails, CollaboratorsFollowTheMask, CallInProgress
<1> QED
  BY <1>1, <1>2, <1>3

LEMMA StepInvariant ==
    ASSUME IInv, NEW done \in SUBSET Envs, Step(done)
    PROVE  IInv'
<1> USE DEF IInv, Step, schedulerVars
<1>1. TypeOK'
  <2>1. episodeLength' \in [Envs -> 0 .. MaxEpisodeLength]
    BY BoundsAssumption DEF TypeOK, Least
  <2> QED
    BY <2>1 DEF TypeOK
<1>2. Accounting'
  BY DEF Accounting, Budget!Balanced, Budget!WithinBudget
<1>3. BookkeepingNeverFails' /\ CollaboratorsFollowTheMask' /\ CallInProgress'
  BY DEF BookkeepingNeverFails, CollaboratorsFollowTheMask, CallInProgress
<1> QED
  BY <1>1, <1>2, <1>3

(* Episodes that finish leave the mask, the scheduler and the recorder     *)
(* together.                                                               *)
LEMMA FinishInvariant == IInv /\ FinishEpisodes => IInv'
<1> SUFFICES ASSUME IInv, FinishEpisodes PROVE IInv'
  OBVIOUS
<1> USE DEF IInv
<1>1. /\ finishing' = requested \cap active
      /\ finishing' \in SUBSET Envs
      /\ finishing' \subseteq active
  BY DEF FinishEpisodes, Finishing, TypeOK
<1>2. failure = "none"
  BY DEF FinishEpisodes, CallInProgress
<1>3. ~Unscheduled(finishing')
  BY <1>1, <1>2 DEF Unscheduled, CollaboratorsFollowTheMask
<1>4. failure' = "none" /\ phase' = "starting"
  BY <1>3 DEF FinishEpisodes
<1>5. rows' \in Seq(Rows)
  <2>1. PICK order \in SortedIds(finishing') :
            rows' = rows \o [i \in DOMAIN order |-> EpisodeRow(order[i])]
    BY DEF FinishEpisodes
  <2>2. DOMAIN order = 1 .. Cardinality(finishing')
    BY <2>1 DEF SortedIds
  <2>3. Cardinality(finishing') \in 0 .. Cardinality(finishing')
    BY <1>1, EnvSets
  <2> QED
    BY <1>1, <2>1, <2>2, <2>3, RowsType
<1>6. TypeOK'
  <2>1. completed' \in Nat
    BY <1>1, EnvSets DEF FinishEpisodes, TypeOK
  <2>2. /\ DOMAIN assigned' \subseteq Envs
        /\ assigned' \in [DOMAIN assigned' -> 0 .. NumRecords - 1]
    BY DEF FinishEpisodes, RemoveKeys, TypeOK
  <2>3. /\ DOMAIN samples' \subseteq Envs \X Nat
        /\ samples' \in [DOMAIN samples' -> Nat \cup {Live}]
    BY DEF FinishEpisodes, RemoveKeys, TypeOK
  <2> QED
    BY <1>1, <1>4, <1>5, <2>1, <2>2, <2>3 DEF FinishEpisodes, TypeOK
<1>7. Accounting'
  <2>1. active' = active \ finishing' /\ active \cap finishing' = finishing'
    BY <1>1 DEF FinishEpisodes
  <2>2. Cardinality(active') = Cardinality(active) - Cardinality(finishing')
    BY <2>1, EnvSets, FS_Difference DEF TypeOK
  <2>3. Cardinality(active) \in Nat /\ Cardinality(finishing') \in Nat
    BY <1>1, EnvSets DEF TypeOK
  <2> QED
    BY <2>2, <2>3, SameCardinality
    DEF FinishEpisodes, TypeOK, Accounting, Budget!Balanced, Budget!WithinBudget
<1>8. CollaboratorsFollowTheMask'
  <2>1. Replaying => DOMAIN assigned' = active'
    BY <1>2 DEF FinishEpisodes, RemoveKeys, CollaboratorsFollowTheMask, Replaying
  <2>2. \A e \in active : GetEpisodeIndex(e) = episodeIndex[e]
    BY DEF GetEpisodeIndex, CallInProgress, TypeOK
  <2>3. ReleasedKeys(finishing') = {<<e, episodeIndex[e]>> : e \in finishing'}
    BY <1>1, <2>2 DEF ReleasedKeys
  <2>4. DOMAIN samples' = {<<e, episodeIndex[e]>> : e \in active \ finishing'}
    BY <1>2, <2>3 DEF FinishEpisodes, RemoveKeys, CollaboratorsFollowTheMask
  <2> QED
    BY <2>1, <2>4 DEF FinishEpisodes, CollaboratorsFollowTheMask
<1>9. BookkeepingNeverFails' /\ CallInProgress'
  BY <1>1, <1>4 DEF FinishEpisodes, BookkeepingNeverFails, CallInProgress
<1> QED
  BY <1>6, <1>7, <1>8, <1>9

LEMMA RecordingRaisesInvariant == IInv /\ RecordingRaises => IInv'
<1> SUFFICES ASSUME IInv, RecordingRaises PROVE IInv'
  OBVIOUS
<1> USE DEF IInv, RecordingRaises, envVars, schedulerVars
<1>1. rows' \in Seq(Rows)
  <2> DEFINE ids == Finishing(requested)
  <2>1. ids \in SUBSET Envs /\ Cardinality(ids) \in Nat
    BY EnvSets DEF Finishing, TypeOK
  <2>2. PICK order \in SortedIds(ids) : \E written \in 0 .. Len(order) - 1 :
            rows' = rows \o [i \in 1 .. written |-> EpisodeRow(order[i])]
    OBVIOUS
  <2>3. Len(order) = Cardinality(ids)
    BY <2>1, <2>2 DEF SortedIds
  <2> HIDE DEF ids
  <2>4. PICK written \in 0 .. Len(order) - 1 :
            rows' = rows \o [i \in 1 .. written |-> EpisodeRow(order[i])]
    BY <2>2
  <2>5. written \in 0 .. Cardinality(ids)
    BY <2>1, <2>3, <2>4
  <2> QED
    BY <2>1, <2>2, <2>4, <2>5, RowsType
<1>2. TypeOK'
  BY <1>1 DEF TypeOK
<1>3. Accounting'
  BY DEF Accounting, Budget!Balanced, Budget!WithinBudget
<1>4. BookkeepingNeverFails' /\ CollaboratorsFollowTheMask' /\ CallInProgress'
  BY DEF BookkeepingNeverFails, CollaboratorsFollowTheMask, CallInProgress
<1> QED
  BY <1>2, <1>3, <1>4

LEMMA NothingStartsInvariant == IInv /\ NothingStarts => IInv'
<1> SUFFICES ASSUME IInv, NothingStarts PROVE IInv'
  OBVIOUS
<1> USE DEF IInv, NothingStarts, envVars, schedulerVars
<1>1. TypeOK'
  BY DEF TypeOK
<1>2. Accounting'
  BY DEF Accounting, Budget!Balanced, Budget!WithinBudget
<1>3. BookkeepingNeverFails' /\ CollaboratorsFollowTheMask' /\ CallInProgress'
  BY DEF BookkeepingNeverFails, CollaboratorsFollowTheMask, CallInProgress
<1> QED
  BY <1>1, <1>2, <1>3

LEMMA ReturnInvariant == IInv /\ Return => IInv'
<1> SUFFICES ASSUME IInv, Return PROVE IInv'
  OBVIOUS
<1> USE DEF IInv, Return, schedulerVars
<1>1. TypeOK'
  BY DEF TypeOK
<1>2. Accounting'
  BY DEF Accounting, Budget!Balanced, Budget!WithinBudget
<1>3. BookkeepingNeverFails' /\ CollaboratorsFollowTheMask' /\ CallInProgress'
  BY DEF BookkeepingNeverFails, CollaboratorsFollowTheMask, CallInProgress
<1> QED
  BY <1>1, <1>2, <1>3


(* BeginEpisodes, with or without the draws: the replacements join the     *)
(* mask, the scheduler and the recorder together.                          *)
LEMMA BeginFacts ==
    ASSUME IInv, phase = "starting", NEW sorted \in SortedIds(Candidates),
           BeginEpisodes(StartOrder(sorted)), limit' = limit, completed' = completed
    PROVE  LET ids == IdsOf(StartOrder(sorted))
           IN  /\ ids \in SUBSET Envs
               /\ ids \cap active = {}
               /\ started' \in Nat /\ nextOccurrence' \in Nat
               /\ active' = active \cup ids
               /\ active' \in SUBSET Envs /\ resetIds' \in SUBSET Envs
               /\ episodeIndex' \in [Envs -> Nat \cup {-1}]
               /\ \A e \in active' : episodeIndex'[e] >= 0
               /\ \A e \in active : episodeIndex'[e] = episodeIndex[e]
               /\ DOMAIN assigned' \subseteq Envs
               /\ assigned' \in [DOMAIN assigned' -> 0 .. NumRecords - 1]
               /\ Replaying => DOMAIN assigned' = DOMAIN assigned \cup ids
               /\ Accounting'
<1> DEFINE order == StartOrder(sorted)
           ids == IdsOf(order)
<1> USE DEF IInv
<1>1. /\ order \in Seq(Candidates)
      /\ ids \subseteq Candidates
      /\ Cardinality(ids) = Len(order)
      /\ limit # NoLimit => started + Len(order) <= limit
  BY StartOrderFacts
<1>2. Candidates \subseteq requested
  BY DEF Candidates, CallInProgress
<1>3. ids \in SUBSET Envs /\ ids \cap active = {}
  BY <1>1, <1>2 DEF CallInProgress, TypeOK
<1>4. Len(order) \in Nat /\ DOMAIN order = 1 .. Len(order)
  BY <1>1
<1>5. /\ episodeIndex' = [e \in Envs |-> episodeIndex[e] + (IF e \in ids THEN 1 ELSE 0)]
      /\ assigned' = IF Replaying THEN Assignment(order) ELSE assigned
      /\ nextOccurrence' = nextOccurrence + (IF Replaying THEN Len(order) ELSE 0)
      /\ started' = started + Len(order)
      /\ active' = active \cup ids
      /\ resetIds' = resetIds \cup ids
  BY DEF BeginEpisodes
<1> HIDE DEF ids, order
<1>6. started' \in Nat /\ nextOccurrence' \in Nat
  BY <1>4, <1>5 DEF TypeOK
<1>7. active' \in SUBSET Envs /\ resetIds' \in SUBSET Envs
  BY <1>3, <1>5 DEF TypeOK
<1>8. /\ episodeIndex' \in [Envs -> Nat \cup {-1}]
      /\ \A e \in active' : episodeIndex'[e] >= 0
      /\ \A e \in active : episodeIndex'[e] = episodeIndex[e]
  <2>1. episodeIndex \in [Envs -> Nat \cup {-1}]
    BY DEF TypeOK
  <2>2. ASSUME NEW e \in Envs
        PROVE  /\ episodeIndex'[e] = episodeIndex[e] + (IF e \in ids THEN 1 ELSE 0)
               /\ episodeIndex'[e] \in Nat \cup {-1}
               /\ e \in ids => episodeIndex'[e] >= 0
               /\ e \notin ids => episodeIndex'[e] = episodeIndex[e]
    BY <1>5, <2>1, <2>2
  <2>3. active \subseteq Envs /\ \A e \in active : episodeIndex[e] >= 0 /\ e \notin ids
    BY <1>3 DEF TypeOK, CallInProgress
  <2>4. episodeIndex' \in [Envs -> Nat \cup {-1}]
    BY <1>5, <2>2
  <2>5. \A e \in active : episodeIndex'[e] = episodeIndex[e]
    BY <2>2, <2>3
  <2>6. \A e \in active' : episodeIndex'[e] >= 0
    BY <1>3, <1>5, <2>2, <2>3, <2>5
  <2> QED
    BY <2>4, <2>5, <2>6
<1>9. /\ DOMAIN assigned' \subseteq Envs
      /\ assigned' \in [DOMAIN assigned' -> 0 .. NumRecords - 1]
      /\ Replaying => DOMAIN assigned' = DOMAIN assigned \cup ids
  <2>1. CASE ~Replaying
    BY <1>5, <2>1 DEF TypeOK
  <2>2. CASE Replaying
    <3>1. NumRecords \in Nat /\ NumRecords > 0
      BY <2>2, NumRecordsAssumption DEF Replaying
    <3>2. ASSUME NEW e \in ids
          PROVE  RecordAt(nextOccurrence + (CHOOSE i \in DOMAIN order : order[i] = e) - 1)
                     \in 0 .. NumRecords - 1
      <4> DEFINE place == CHOOSE i \in DOMAIN order : order[i] = e
      <4>1. \E i \in DOMAIN order : order[i] = e
        BY DEF ids, IdsOf
      <4>2. place \in DOMAIN order
        BY <4>1
      <4>3. place \in 1 .. Len(order)
        BY <4>2, <1>4
      <4> HIDE DEF place
      <4>4. nextOccurrence + place - 1 \in Int
        BY <4>3, <1>4 DEF TypeOK
      <4>5. (nextOccurrence + place - 1) % NumRecords \in 0 .. NumRecords - 1
        BY <4>4, <3>1
      <4> QED
        BY <4>5 DEF place, RecordAt
    <3>3. assigned' = Assignment(order)
      BY <1>5, <2>2
    <3>4. DOMAIN assigned' = DOMAIN assigned \cup ids
      BY <3>3 DEF Assignment, ids
    <3>5. ASSUME NEW e \in DOMAIN assigned'
          PROVE  assigned'[e] \in 0 .. NumRecords - 1
      <4>1. CASE e \in ids
        BY <3>2, <3>3, <3>4, <4>1 DEF Assignment, ids
      <4>2. CASE e \notin ids
        BY <3>3, <3>4, <4>2 DEF Assignment, ids, TypeOK
      <4> QED
        BY <4>1, <4>2
    <3>6. assigned' = [e \in DOMAIN assigned' |-> assigned'[e]]
      BY <3>3 DEF Assignment
    <3> QED
      BY <1>3, <3>4, <3>5, <3>6 DEF TypeOK
  <2> QED
    BY <2>1, <2>2
<1>10. Accounting'
  <2>1. Cardinality(active \cup ids) = Cardinality(active) + Cardinality(ids)
    <3>1. active \in SUBSET Envs
      BY DEF TypeOK
    <3>2. IsFiniteSet(active) /\ IsFiniteSet(ids)
      BY <1>3, <3>1, EnvSets
    <3>3. active \cap ids = {}
      BY <1>3
    <3>4. Cardinality(active) \in Nat /\ Cardinality(ids) \in Nat
      BY <1>3, <3>1, EnvSets
    <3>5. Cardinality(active \cup ids)
              = Cardinality(active) + Cardinality(ids) - Cardinality(active \cap ids)
      BY <3>2, FS_Union
    <3> QED
      BY <3>3, <3>4, <3>5, FS_EmptySet
  <2>2. Cardinality(active) \in Nat
    BY EnvSets DEF TypeOK
  <2> QED
    BY <1>1, <1>4, <1>5, <2>1, <2>2, SameCardinality
    DEF Accounting, Budget!Balanced, Budget!WithinBudget, TypeOK
<1> QED
  BY <1>3, <1>5, <1>6, <1>7, <1>8, <1>9, <1>10 DEF ids, order


(* Draws adds one sample per starting episode to those retained.           *)
LEMMA DrawsFacts ==
    ASSUME IInv, phase = "starting", NEW sorted \in SortedIds(Candidates),
           BeginEpisodes(StartOrder(sorted)), limit' = limit, completed' = completed
    PROVE  LET ids == IdsOf(StartOrder(sorted))
               keys == {<<e, episodeIndex'[e]>> : e \in ids}
           IN  /\ DOMAIN Draws(ids) = DOMAIN samples \cup keys
               /\ DOMAIN Draws(ids) \subseteq Envs \X Nat
               /\ Draws(ids) \in [DOMAIN Draws(ids) -> Nat \cup {Live}]
<1> DEFINE ids == IdsOf(StartOrder(sorted))
           keys == {<<e, episodeIndex'[e]>> : e \in ids}
<1>1. /\ ids \in SUBSET Envs
      /\ active' = active \cup ids
      /\ episodeIndex' \in [Envs -> Nat \cup {-1}]
      /\ \A e \in active' : episodeIndex'[e] >= 0
      /\ DOMAIN assigned' \subseteq Envs
      /\ assigned' \in [DOMAIN assigned' -> 0 .. NumRecords - 1]
      /\ Replaying => DOMAIN assigned' = DOMAIN assigned \cup ids
  BY BeginFacts
<1> HIDE DEF ids
<1>2. DOMAIN Draws(ids) = DOMAIN samples \cup keys
  BY DEF Draws
<1>3. keys \subseteq Envs \X Nat
  <2> SUFFICES ASSUME NEW e \in ids PROVE e \in Envs /\ episodeIndex'[e] \in Nat
    OBVIOUS
  <2>1. e \in Envs /\ e \in active'
    BY <1>1
  <2>2. episodeIndex'[e] >= 0 /\ episodeIndex'[e] \in Nat \cup {-1}
    BY <1>1, <2>1
  <2> QED
    BY <2>1, <2>2
<1>4. DOMAIN Draws(ids) \subseteq Envs \X Nat
  BY <1>2, <1>3 DEF IInv, TypeOK
<1>5. ASSUME NEW key \in DOMAIN Draws(ids)
      PROVE  Draws(ids)[key] \in Nat \cup {Live}
  <2>1. CASE key[1] \in ids /\ key[2] = episodeIndex'[key[1]]
    <3>1. Draws(ids)[key] = IF Replaying THEN assigned'[key[1]] ELSE Live
      BY <1>2, <2>1 DEF Draws
    <3>2. Replaying => assigned'[key[1]] \in 0 .. NumRecords - 1
      BY <1>1, <2>1
    <3> QED
      BY <3>1, <3>2, NumRecordsAssumption
  <2>2. CASE ~(key[1] \in ids /\ key[2] = episodeIndex'[key[1]])
    <3>1. Draws(ids)[key] = samples[key]
      BY <1>2, <2>2 DEF Draws
    <3>2. key \notin keys
      BY <2>2
    <3>3. key \in DOMAIN samples
      BY <1>2, <3>2
    <3> QED
      BY <3>1, <3>3 DEF IInv, TypeOK
  <2> QED
    BY <2>1, <2>2
<1>6. Draws(ids) = [key \in DOMAIN Draws(ids) |-> Draws(ids)[key]]
  BY DEF Draws
<1> QED
  BY <1>2, <1>4, <1>5, <1>6 DEF ids

LEMMA StartInvariant == IInv /\ StartEpisodes => IInv'
<1> SUFFICES ASSUME IInv, StartEpisodes PROVE IInv'
  OBVIOUS
<1>1. PICK sorted \in SortedIds(Candidates) :
          LET order == StartOrder(sorted)
              ids == IdsOf(order)
              broken == AlreadyAssigned(ids) \/ AlreadyDrawn(ids)
          IN  /\ BeginEpisodes(order)
              /\ samples' = Draws(ids)
              /\ episodeLength' = [e \in Envs |-> IF e \in ids THEN 0 ELSE episodeLength[e]]
              /\ failure' = IF broken THEN "bookkeeping" ELSE "none"
              /\ phase' = IF broken THEN "failed" ELSE "returning"
  BY DEF StartEpisodes
<1> DEFINE ids == IdsOf(StartOrder(sorted))
           keys == {<<e, episodeIndex'[e]>> : e \in ids}
<1>2. /\ phase = "starting" /\ limit' = limit /\ completed' = completed
      /\ reported' = reported /\ rows' = rows /\ requested' = requested
      /\ finishing' = finishing /\ stepping' = stepping
      /\ activeBefore' = activeBefore /\ builds' = builds
  BY DEF StartEpisodes
<1>3. failure = "none"
  BY <1>2 DEF IInv, CallInProgress
<1>4. /\ ids \in SUBSET Envs
      /\ ids \cap active = {}
      /\ started' \in Nat /\ nextOccurrence' \in Nat
      /\ active' = active \cup ids
      /\ active' \in SUBSET Envs /\ resetIds' \in SUBSET Envs
      /\ episodeIndex' \in [Envs -> Nat \cup {-1}]
      /\ \A e \in active' : episodeIndex'[e] >= 0
      /\ \A e \in active : episodeIndex'[e] = episodeIndex[e]
      /\ DOMAIN assigned' \subseteq Envs
      /\ assigned' \in [DOMAIN assigned' -> 0 .. NumRecords - 1]
      /\ Replaying => DOMAIN assigned' = DOMAIN assigned \cup ids
      /\ Accounting'
  BY <1>1, <1>2, BeginFacts
<1>5. /\ DOMAIN samples' = DOMAIN samples \cup keys
      /\ DOMAIN samples' \subseteq Envs \X Nat
      /\ samples' \in [DOMAIN samples' -> Nat \cup {Live}]
  BY <1>1, <1>2, DrawsFacts
<1>6. DOMAIN samples = {<<e, episodeIndex[e]>> : e \in active}
  BY <1>3 DEF IInv, CollaboratorsFollowTheMask
<1>7. ~AlreadyAssigned(ids)
  BY <1>3, <1>4 DEF AlreadyAssigned, IInv, CollaboratorsFollowTheMask
<1>8. ~AlreadyDrawn(ids)
  BY <1>4, <1>6 DEF AlreadyDrawn
<1>9. failure' = "none" /\ phase' = "returning"
  BY <1>1, <1>7, <1>8
<1>10. episodeLength' \in [Envs -> 0 .. MaxEpisodeLength]
  BY <1>1, BoundsAssumption DEF IInv, TypeOK
<1> HIDE DEF ids
<1>11. TypeOK'
  <2>1. rows' \in Seq(Rows)
    BY <1>2 DEF IInv, TypeOK
  <2>2. /\ limit' \in Nat \cup {NoLimit} /\ completed' \in Nat /\ reported' \in SUBSET Envs
        /\ requested' \in SUBSET Envs /\ finishing' \in SUBSET Envs
        /\ stepping' \in BOOLEAN /\ activeBefore' \in SUBSET Envs /\ builds' \in Nat
    BY <1>2 DEF IInv, TypeOK
  <2> QED
    BY <1>4, <1>5, <1>9, <1>10, <2>1, <2>2 DEF TypeOK
<1>12. CollaboratorsFollowTheMask'
  <2>1. Replaying => DOMAIN assigned' = active'
    BY <1>3, <1>4 DEF IInv, CollaboratorsFollowTheMask
  <2>2. DOMAIN samples' = {<<e, episodeIndex'[e]>> : e \in active'}
    BY <1>4, <1>5, <1>6
  <2> QED
    BY <2>1, <2>2 DEF CollaboratorsFollowTheMask
<1>13. BookkeepingNeverFails' /\ CallInProgress'
  BY <1>4, <1>9 DEF BookkeepingNeverFails, CallInProgress
<1> QED
  BY <1>4, <1>11, <1>12, <1>13 DEF IInv

LEMMA EventRaisesInvariant == IInv /\ ResetEventRaises => IInv'
<1> SUFFICES ASSUME IInv, ResetEventRaises PROVE IInv'
  OBVIOUS
<1>1. PICK sorted \in SortedIds(Candidates) :
          /\ BeginEpisodes(StartOrder(sorted))
          /\ samples' \in {samples, Draws(IdsOf(StartOrder(sorted)))}
  BY DEF ResetEventRaises
<1> DEFINE ids == IdsOf(StartOrder(sorted))
<1>2. /\ phase = "starting" /\ limit' = limit /\ completed' = completed
      /\ reported' = reported /\ rows' = rows /\ requested' = requested
      /\ finishing' = finishing /\ stepping' = stepping
      /\ activeBefore' = activeBefore /\ builds' = builds
      /\ episodeLength' = episodeLength /\ failure' = "event" /\ phase' = "failed"
  BY DEF ResetEventRaises
<1>3. /\ started' \in Nat /\ nextOccurrence' \in Nat
      /\ active' \in SUBSET Envs /\ resetIds' \in SUBSET Envs
      /\ episodeIndex' \in [Envs -> Nat \cup {-1}]
      /\ \A e \in active' : episodeIndex'[e] >= 0
      /\ DOMAIN assigned' \subseteq Envs
      /\ assigned' \in [DOMAIN assigned' -> 0 .. NumRecords - 1]
      /\ Accounting'
  BY <1>1, <1>2, BeginFacts
<1>4. /\ DOMAIN samples' \subseteq Envs \X Nat
      /\ samples' \in [DOMAIN samples' -> Nat \cup {Live}]
  <2>1. CASE samples' = samples
    BY <2>1 DEF IInv, TypeOK
  <2>2. CASE samples' = Draws(ids)
    BY <1>1, <1>2, <2>2, DrawsFacts
  <2> QED
    BY <1>1, <2>1, <2>2
<1> HIDE DEF ids
<1>5. TypeOK'
  <2>1. rows' \in Seq(Rows) /\ episodeLength' \in [Envs -> 0 .. MaxEpisodeLength]
    BY <1>2 DEF IInv, TypeOK
  <2>2. /\ limit' \in Nat \cup {NoLimit} /\ completed' \in Nat /\ reported' \in SUBSET Envs
        /\ requested' \in SUBSET Envs /\ finishing' \in SUBSET Envs
        /\ stepping' \in BOOLEAN /\ activeBefore' \in SUBSET Envs /\ builds' \in Nat
    BY <1>2 DEF IInv, TypeOK
  <2> QED
    BY <1>2, <1>3, <1>4, <2>1, <2>2 DEF TypeOK
<1>6. BookkeepingNeverFails' /\ CollaboratorsFollowTheMask' /\ CallInProgress'
  BY <1>2, <1>3 DEF BookkeepingNeverFails, CollaboratorsFollowTheMask, CallInProgress
<1> QED
  BY <1>3, <1>5, <1>6 DEF IInv

LEMMA StutterInvariant == IInv /\ UNCHANGED vars => IInv'
<1> SUFFICES ASSUME IInv, UNCHANGED vars PROVE IInv'
  OBVIOUS
<1> USE DEF IInv, vars, envVars, schedulerVars, callVars
<1>1. TypeOK'
  BY DEF TypeOK
<1>2. Accounting'
  BY DEF Accounting, Budget!Balanced, Budget!WithinBudget
<1>3. BookkeepingNeverFails' /\ CollaboratorsFollowTheMask' /\ CallInProgress'
  BY DEF BookkeepingNeverFails, CollaboratorsFollowTheMask, CallInProgress
<1> QED
  BY <1>1, <1>2, <1>3

LEMMA StepInductive == IInv /\ [Next]_vars => IInv'
<1> SUFFICES ASSUME IInv, [Next]_vars PROVE IInv'
  OBVIOUS
<1>1. CASE Build
  BY <1>1, BuildInvariant
<1>2. CASE ConfigureEpisodeLimit
  BY <1>2, ConfigureInvariant
<1>3. CASE \E ids \in (SUBSET Envs) \ {{}} : Reset(ids)
  BY <1>3, ResetInvariant
<1>4. CASE \E done \in SUBSET Envs : Step(done)
  BY <1>4, StepInvariant
<1>5. CASE FinishEpisodes
  BY <1>5, FinishInvariant
<1>6. CASE RecordingRaises
  BY <1>6, RecordingRaisesInvariant
<1>7. CASE NothingStarts
  BY <1>7, NothingStartsInvariant
<1>8. CASE StartEpisodes
  BY <1>8, StartInvariant
<1>9. CASE ResetEventRaises
  BY <1>9, EventRaisesInvariant
<1>10. CASE Return
  BY <1>10, ReturnInvariant
<1>11. CASE UNCHANGED vars
  BY <1>11, StutterInvariant
<1> QED
  BY <1>1, <1>2, <1>3, <1>4, <1>5, <1>6, <1>7, <1>8, <1>9, <1>10, <1>11 DEF Next

-----------------------------------------------------------------------------
(* The invariants, for every value of the constants.                       *)

LEMMA InvariantHolds == Spec => []IInv
<1>1. Init => IInv
  BY InitInvariant
<1>2. IInv /\ [Next]_vars => IInv'
  BY StepInductive
<1> QED
  BY <1>1, <1>2, PTL DEF Spec

(* Every variable of the environment and its collaborators keeps its type. *)
THEOREM TypeCorrect == Spec => []TypeOK
<1>1. IInv => TypeOK
  BY DEF IInv
<1> QED
  BY <1>1, InvariantHolds, PTL

(* _started_episode_count, _completed_episode_count and the active mask    *)
(* agree at every handler, and a configured limit is never exceeded.       *)
THEOREM AccountingCorrect == Spec => []Accounting
<1>1. IInv => Accounting
  BY DEF IInv
<1> QED
  BY <1>1, InvariantHolds, PTL

(* assign_new_episodes, complete_episodes and record_runtime_sample never  *)
(* raise their assertion or lookup errors, in any sequence of resets,      *)
(* steps, failures and rebuilds; and scheduler and recorder hold entries   *)
(* for exactly the episodes in progress, so neither grows with the length  *)
(* of a rollout.                                                           *)
THEOREM CollaboratorsCorrect == Spec => []CollaboratorsAgree
<1>1. IInv => CollaboratorsAgree
  BY DEF IInv, CollaboratorsAgree
<1> QED
  BY <1>1, InvariantHolds, PTL

-----------------------------------------------------------------------------
(* The rows.  A draw that is still held is the one replayed from the       *)
(* record assigned to its environment; rows are written from these.        *)
DrawsPaired ==
    Replaying /\ failure = "none" =>
        \A e \in active : samples[<<e, episodeIndex[e]>>] = assigned[e]

RowsCounted == failure # "recording" => Len(rows) = completed

RowsInv == IInv /\ DrawsPaired /\ RowsCounted /\ RowsPairDrawAndSource

LEMMA AppendedRows ==
    ASSUME RowsInv, failure = "none", NEW ids \in SUBSET active,
           NEW order \in SortedIds(ids), NEW n \in 0 .. Cardinality(ids),
           rows' = rows \o [i \in 1 .. n |-> EpisodeRow(order[i])]
    PROVE  /\ Len(rows') = Len(rows) + n
           /\ RowsPairDrawAndSource'
<1> DEFINE added == [i \in 1 .. n |-> EpisodeRow(order[i])]
<1>1. ids \in SUBSET Envs /\ n \in Nat /\ rows \in Seq(Rows) /\ Len(rows) \in Nat
  BY EnvSets DEF RowsInv, IInv, TypeOK
<1>2. \A i \in 1 .. n : order[i] \in ids
  <2>1. Cardinality(ids) \in Nat
    BY <1>1, EnvSets
  <2>2. order \in [1 .. Cardinality(ids) -> ids]
    BY DEF SortedIds
  <2> QED
    BY <2>1, <2>2
<1>3. \A i \in 1 .. n : EpisodeRow(order[i]) \in Rows
  BY <1>1, <1>2, RowType DEF RowsInv, IInv
<1>4. added \in Seq(Rows) /\ Len(added) = n
  BY <1>1, <1>3
<1>5. ASSUME NEW e \in active, Replaying
      PROVE  EpisodeRow(e).sample = EpisodeRow(e).source
  <2>1. e \in Envs /\ GetEpisodeIndex(e) = episodeIndex[e]
    BY DEF GetEpisodeIndex, RowsInv, IInv, TypeOK, CallInProgress
  <2>2. e \in DOMAIN assigned /\ <<e, episodeIndex[e]>> \in DOMAIN samples
    BY <1>5 DEF RowsInv, IInv, CollaboratorsFollowTheMask
  <2>3. samples[<<e, episodeIndex[e]>>] = assigned[e]
    BY <1>5 DEF RowsInv, DrawsPaired
  <2> QED
    BY <2>1, <2>2, <2>3 DEF EpisodeRow, SampleForEpisode, SourceRecord
<1>6. ASSUME NEW i \in 1 .. Len(rows) + n, Replaying
      PROVE  (rows \o added)[i].sample = (rows \o added)[i].source
  <2>1. CASE i <= Len(rows)
    <3>1. (rows \o added)[i] = rows[i] /\ i \in 1 .. Len(rows)
      BY <1>1, <1>4, <1>6, <2>1
    <3> QED
      BY <1>6, <3>1 DEF RowsInv, RowsPairDrawAndSource
  <2>2. CASE i > Len(rows)
    <3>1. i - Len(rows) \in 1 .. n
      BY <1>1, <1>6, <2>2
    <3>2. (rows \o added)[i] = added[i - Len(rows)]
      BY <1>1, <1>4, <1>6, <2>2
    <3>3. added[i - Len(rows)] = EpisodeRow(order[i - Len(rows)])
      BY <3>1
    <3>4. order[i - Len(rows)] \in active
      BY <1>2, <3>1
    <3> QED
      BY <1>5, <1>6, <3>2, <3>3, <3>4
  <2> QED
    BY <1>1, <1>6, <2>1, <2>2
<1>7. rows' = rows \o added
  OBVIOUS
<1> HIDE DEF added
<1>8. Len(rows') = Len(rows) + n
  BY <1>1, <1>4, <1>7
<1> QED
  BY <1>6, <1>7, <1>8 DEF RowsPairDrawAndSource, Replaying

LEMMA RowsInit == Init => RowsInv
BY InitInvariant DEF Init, RowsInv, DrawsPaired, RowsCounted, RowsPairDrawAndSource

LEMMA FinishRows ==
    ASSUME RowsInv, FinishEpisodes
    PROVE  DrawsPaired' /\ RowsCounted' /\ RowsPairDrawAndSource'
<1>1. failure = "none"
  BY DEF FinishEpisodes, RowsInv, IInv, CallInProgress
<1>2. finishing' \in SUBSET active /\ finishing' \in SUBSET Envs
  BY DEF FinishEpisodes, Finishing, RowsInv, IInv, TypeOK
<1>3. PICK order \in SortedIds(finishing') :
          rows' = rows \o [i \in DOMAIN order |-> EpisodeRow(order[i])]
  BY DEF FinishEpisodes
<1>4. DOMAIN order = 1 .. Cardinality(finishing')
  BY <1>3 DEF SortedIds
<1>5. Cardinality(finishing') \in 0 .. Cardinality(finishing')
  BY <1>2, EnvSets
<1>6. Len(rows') = Len(rows) + Cardinality(finishing') /\ RowsPairDrawAndSource'
  BY <1>1, <1>2, <1>3, <1>4, <1>5, AppendedRows
<1>7. RowsCounted'
  BY <1>1, <1>6 DEF FinishEpisodes, RowsInv, RowsCounted
<1>8. DrawsPaired'
  <2> SUFFICES ASSUME Replaying, NEW e \in active \ finishing'
               PROVE  samples'[<<e, episodeIndex[e]>>] = assigned'[e]
    BY DEF FinishEpisodes, DrawsPaired, Replaying
  <2>1. e \in DOMAIN assigned /\ <<e, episodeIndex[e]>> \in DOMAIN samples
    BY <1>1 DEF RowsInv, IInv, CollaboratorsFollowTheMask
  <2>2. <<e, episodeIndex[e]>> \notin ReleasedKeys(finishing')
    BY DEF ReleasedKeys
  <2>3. /\ assigned'[e] = assigned[e]
        /\ samples'[<<e, episodeIndex[e]>>] = samples[<<e, episodeIndex[e]>>]
    BY <2>1, <2>2 DEF FinishEpisodes, RemoveKeys
  <2> QED
    BY <1>1, <2>3 DEF RowsInv, DrawsPaired
<1> QED
  BY <1>6, <1>7, <1>8

LEMMA RaisedRows ==
    ASSUME RowsInv, RecordingRaises
    PROVE  DrawsPaired' /\ RowsCounted' /\ RowsPairDrawAndSource'
<1>1. failure = "none" /\ failure' = "recording"
  BY DEF RecordingRaises, RowsInv, IInv, CallInProgress
<1> DEFINE ids == Finishing(requested)
<1>2. ids \in SUBSET active /\ ids \in SUBSET Envs
  BY DEF Finishing, RowsInv, IInv, TypeOK
<1>3. PICK order \in SortedIds(ids) : \E written \in 0 .. Len(order) - 1 :
          rows' = rows \o [i \in 1 .. written |-> EpisodeRow(order[i])]
  BY DEF RecordingRaises
<1>4. Len(order) = Cardinality(ids) /\ Cardinality(ids) \in Nat
  BY <1>2, <1>3, EnvSets DEF SortedIds
<1> HIDE DEF ids
<1>5. PICK written \in 0 .. Cardinality(ids) :
          rows' = rows \o [i \in 1 .. written |-> EpisodeRow(order[i])]
  BY <1>3, <1>4
<1>6. RowsPairDrawAndSource'
  BY <1>1, <1>2, <1>3, <1>5, AppendedRows
<1> QED
  BY <1>1, <1>6 DEF DrawsPaired, RowsCounted

LEMMA StartRows ==
    ASSUME RowsInv, StartEpisodes
    PROVE  DrawsPaired' /\ RowsCounted' /\ RowsPairDrawAndSource'
<1>1. failure = "none" /\ phase = "starting"
      /\ UNCHANGED <<limit, completed, rows>> /\ failure' # "recording"
  BY DEF StartEpisodes, RowsInv, IInv, CallInProgress
<1>2. PICK sorted \in SortedIds(Candidates) :
          BeginEpisodes(StartOrder(sorted)) /\ samples' = Draws(IdsOf(StartOrder(sorted)))
  BY DEF StartEpisodes
<1> DEFINE order == StartOrder(sorted)
           ids == IdsOf(order)
<1>3. /\ ids \in SUBSET Envs
      /\ ids \cap active = {}
      /\ active' = active \cup ids
      /\ \A e \in active : episodeIndex'[e] = episodeIndex[e]
  BY <1>1, <1>2, BeginFacts DEF RowsInv
<1>4. RowsCounted' /\ RowsPairDrawAndSource'
  BY <1>1 DEF RowsInv, RowsCounted, RowsPairDrawAndSource, Replaying
<1>5. DrawsPaired'
  <2> SUFFICES ASSUME Replaying, NEW e \in active \cup ids
               PROVE  samples'[<<e, episodeIndex'[e]>>] = assigned'[e]
    BY <1>3 DEF DrawsPaired, Replaying
  <2>1. assigned' = Assignment(order) /\ samples' = Draws(ids)
    BY <1>2 DEF BeginEpisodes
  <2>2. CASE e \in ids
    <3>1. <<e, episodeIndex'[e]>> \in DOMAIN Draws(ids)
      BY <2>2 DEF Draws
    <3> QED
      BY <2>1, <2>2, <3>1 DEF Draws
  <2>3. CASE e \in active
    <3>1. e \notin ids /\ episodeIndex'[e] = episodeIndex[e]
      BY <1>3, <2>3
    <3>2. e \in DOMAIN assigned /\ <<e, episodeIndex[e]>> \in DOMAIN samples
      BY <1>1, <2>3 DEF RowsInv, IInv, CollaboratorsFollowTheMask
    <3>3. assigned'[e] = assigned[e]
      BY <2>1, <3>1, <3>2 DEF Assignment
    <3>4. samples'[<<e, episodeIndex'[e]>>] = samples[<<e, episodeIndex[e]>>]
      <4> HIDE DEF ids
      <4> QED
        BY <2>1, <3>1, <3>2 DEF Draws
    <3> QED
      BY <1>1, <2>3, <3>3, <3>4 DEF RowsInv, DrawsPaired
  <2> QED
    BY <2>2, <2>3
<1> QED
  BY <1>4, <1>5

LEMMA OtherRows ==
    ASSUME RowsInv,
           \/ Build
           \/ ConfigureEpisodeLimit
           \/ \E ids \in (SUBSET Envs) \ {{}} : Reset(ids)
           \/ \E done \in SUBSET Envs : Step(done)
           \/ NothingStarts
           \/ ResetEventRaises
           \/ Return
           \/ UNCHANGED vars
    PROVE  DrawsPaired' /\ RowsCounted' /\ RowsPairDrawAndSource'
<1> USE DEF RowsInv, DrawsPaired, RowsCounted, RowsPairDrawAndSource, Replaying
<1>1. CASE Build
  BY <1>1 DEF Build
<1>2. CASE ConfigureEpisodeLimit
  BY <1>2 DEF ConfigureEpisodeLimit, schedulerVars, callVars
<1>3. CASE \E ids \in (SUBSET Envs) \ {{}} : Reset(ids)
  BY <1>3 DEF Reset, schedulerVars
<1>4. CASE \E done \in SUBSET Envs : Step(done)
  BY <1>4 DEF Step, schedulerVars
<1>5. CASE NothingStarts
  BY <1>5 DEF NothingStarts, envVars, schedulerVars
<1>6. CASE ResetEventRaises
  <2>1. failure' = "event" /\ failure = "none" /\ rows' = rows /\ completed' = completed
    BY <1>6 DEF ResetEventRaises, IInv, CallInProgress
  <2> QED
    BY <2>1
<1>7. CASE Return
  BY <1>7 DEF Return, schedulerVars
<1>8. CASE UNCHANGED vars
  BY <1>8 DEF vars, envVars, schedulerVars, callVars
<1> QED
  BY <1>1, <1>2, <1>3, <1>4, <1>5, <1>6, <1>7, <1>8

LEMMA RowsInductive == RowsInv /\ [Next]_vars => RowsInv'
<1> SUFFICES ASSUME RowsInv, [Next]_vars PROVE RowsInv'
  OBVIOUS
<1>1. IInv'
  BY StepInductive DEF RowsInv
<1>2. DrawsPaired' /\ RowsCounted' /\ RowsPairDrawAndSource'
  BY FinishRows, RaisedRows, StartRows, OtherRows DEF Next
<1> QED
  BY <1>1, <1>2 DEF RowsInv

LEMMA RowsInvariant == Spec => []RowsInv
BY RowsInit, RowsInductive, PTL DEF Spec

(* A row is never written with the draw of another episode, or after its   *)
(* own was released: what it says was drawn is what the record named in it *)
(* holds, for any number of environments, records and interleaved resets.  *)
THEOREM RowsCarryTheirDraws == Spec => []RowsPairDrawAndSource
<1>1. RowsInv => RowsPairDrawAndSource
  BY DEF RowsInv
<1> QED
  BY <1>1, RowsInvariant, PTL

-----------------------------------------------------------------------------
(* The environment implements EpisodeBudget: each handler is one step of   *)
(* the abstract specification or none.                                     *)

LEMMA BudgetInit == Init => Budget!Init
BY DEF Init, Budget!Init

LEMMA FinishImplements ==
    ASSUME IInv, FinishEpisodes
    PROVE  [Budget!Next]_(Budget!vars)
<1>1. /\ finishing' \subseteq active
      /\ finishing' \in SUBSET Envs
      /\ active' = active \ finishing'
      /\ completed' = completed + Cardinality(finishing')
      /\ limit' = limit /\ started' = started
  BY DEF FinishEpisodes, Finishing, IInv, TypeOK
<1>2. CASE finishing' = {}
  <2>1. completed' = completed /\ active' = active
    BY <1>1, <1>2, FS_EmptySet DEF IInv, TypeOK
  <2> QED
    BY <1>1, <2>1 DEF Budget!vars
<1>3. CASE finishing' # {}
  <2>1. Budget!Finish(finishing')
    BY <1>1, <1>3, SameCardinality DEF Budget!Finish
  <2> QED
    BY <1>1, <2>1 DEF Budget!Next
<1> QED
  BY <1>2, <1>3

LEMMA BeginImplements ==
    ASSUME IInv, phase = "starting", NEW sorted \in SortedIds(Candidates),
           StartOrder(sorted) # <<>>, BeginEpisodes(StartOrder(sorted)),
           limit' = limit, completed' = completed
    PROVE  Budget!Next
<1> DEFINE order == StartOrder(sorted)
           ids == IdsOf(order)
<1>1. /\ order \in Seq(Candidates)
      /\ Cardinality(ids) = Len(order)
      /\ limit # NoLimit => started + Len(order) <= limit
  BY StartOrderFacts DEF IInv
<1>2. ids \in SUBSET Envs /\ ids \cap active = {} /\ active' = active \cup ids
  BY BeginFacts
<1>3. started' = started + Len(order)
  BY DEF BeginEpisodes
<1>4. ids # {}
  <2>1. Len(order) \in Nat /\ DOMAIN order = 1 .. Len(order) /\ Len(order) # 0
    BY <1>1
  <2>2. 1 \in DOMAIN order
    BY <2>1
  <2> QED
    BY <2>2 DEF IdsOf
<1> HIDE DEF ids, order
<1>5. Budget!Start(ids)
  BY <1>1, <1>2, <1>3, <1>4, SameCardinality DEF Budget!Start, Budget!Affordable
<1> QED
  BY <1>2, <1>5 DEF Budget!Next

LEMMA StepImplements == IInv /\ [Next]_vars => [Budget!Next]_(Budget!vars)
<1> SUFFICES ASSUME IInv, [Next]_vars PROVE [Budget!Next]_(Budget!vars)
  OBVIOUS
<1>1. CASE Build
  BY <1>1 DEF Build, Budget!Next, Budget!Rebuild
<1>2. CASE ConfigureEpisodeLimit
  <2>1. limit' \in Nat \ {0}
    BY <1>2, BoundsAssumption DEF ConfigureEpisodeLimit
  <2> QED
    BY <1>2, <2>1 DEF ConfigureEpisodeLimit, Budget!Next, Budget!SetBudget
<1>3. CASE \E ids \in (SUBSET Envs) \ {{}} : Reset(ids)
  BY <1>3 DEF Reset, Budget!vars
<1>4. CASE \E done \in SUBSET Envs : Step(done)
  BY <1>4 DEF Step, Budget!vars
<1>5. CASE FinishEpisodes
  BY <1>5, FinishImplements
<1>6. CASE RecordingRaises
  BY <1>6 DEF RecordingRaises, envVars, Budget!vars
<1>7. CASE NothingStarts
  BY <1>7 DEF NothingStarts, envVars, Budget!vars
<1>8. CASE StartEpisodes
  <2>1. /\ phase = "starting" /\ limit' = limit /\ completed' = completed
        /\ \E sorted \in SortedIds(Candidates) :
               StartOrder(sorted) # <<>> /\ BeginEpisodes(StartOrder(sorted))
    BY <1>8 DEF StartEpisodes
  <2> QED
    BY <2>1, BeginImplements
<1>9. CASE ResetEventRaises
  <2>1. /\ phase = "starting" /\ limit' = limit /\ completed' = completed
        /\ \E sorted \in SortedIds(Candidates) :
               StartOrder(sorted) # <<>> /\ BeginEpisodes(StartOrder(sorted))
    BY <1>9 DEF ResetEventRaises
  <2> QED
    BY <2>1, BeginImplements
<1>10. CASE Return
  BY <1>10 DEF Return, Budget!vars
<1>11. CASE UNCHANGED vars
  BY <1>11 DEF vars, envVars, Budget!vars
<1> QED
  BY <1>1, <1>2, <1>3, <1>4, <1>5, <1>6, <1>7, <1>8, <1>9, <1>10, <1>11 DEF Next

(* Every behaviour of the environment is, seen through its limit, counters *)
(* and mask, a behaviour of EpisodeBudget.                                 *)
THEOREM ImplementsBudget == Spec => BudgetSpec
<1>1. Init => Budget!Init
  BY BudgetInit
<1>2. IInv /\ [Next]_vars => [Budget!Next]_(Budget!vars)
  BY StepImplements
<1> QED
  BY <1>1, <1>2, InvariantHolds, PTL DEF Spec, BudgetSpec, Budget!Spec

-----------------------------------------------------------------------------
(* The rows of an environment, one for each episode it finished.           *)

(* A sorted enumeration of a set of environments meets each of them once.  *)
LEMMA SortedIdsEnumerate ==
    ASSUME NEW ids \in SUBSET Envs, NEW order \in SortedIds(ids)
    PROVE  /\ Cardinality(ids) \in Nat
           /\ order \in Seq(ids) /\ Len(order) = Cardinality(ids)
           /\ DOMAIN order = 1 .. Cardinality(ids)
           /\ \A i \in 1 .. Cardinality(ids) : order[i] \in ids
           /\ \A i, j \in DOMAIN order : order[i] = order[j] => i = j
           /\ IdsOf(order) = ids
<1>1. IsFiniteSet(ids) /\ Cardinality(ids) \in Nat
  BY EnvSets
<1>2. order \in [1 .. Cardinality(ids) -> ids]
  BY DEF SortedIds
<1>3. [i \in 1 .. Cardinality(ids) |-> order[i]] = order
  BY <1>2
<1>4. IdsOf(order) \subseteq ids /\ Cardinality(IdsOf(order)) = Cardinality(ids)
  BY <1>1, <1>3, PrefixCount
<1>5. IdsOf(order) = ids
  BY <1>1, <1>4, FS_Subset
<1>6. ASSUME NEW i \in 1 .. Cardinality(ids), NEW j \in 1 .. Cardinality(ids), i < j
      PROVE  order[i] # order[j]
  <2>1. order[i] < order[j]
    BY <1>6 DEF SortedIds
  <2>2. order[i] \in Envs /\ order[j] \in Envs
    BY <1>2
  <2>3. order[i] \in Int /\ order[j] \in Int
    BY <2>2, NumEnvsAssumption DEF Envs
  <2> QED
    BY <2>1, <2>3
<1>7. \A i, j \in 1 .. Cardinality(ids) : order[i] = order[j] => i = j
  BY <1>1, <1>6
<1> QED
  BY <1>1, <1>2, <1>5, <1>7

(* The rows appended for the first n environments of an enumeration.       *)
LEMMA AppendedBlock ==
    ASSUME TypeOK, NEW ids \in SUBSET Envs, NEW order \in SortedIds(ids),
           NEW n \in 0 .. Cardinality(ids),
           rows' = rows \o [i \in 1 .. n |-> EpisodeRow(order[i])]
    PROVE  /\ Len(rows) \in Nat /\ n \in Nat
           /\ Len(rows') = Len(rows) + n
           /\ \A i \in 1 .. Len(rows) : rows'[i] = rows[i]
           /\ \A i \in 1 .. n : rows'[Len(rows) + i] = EpisodeRow(order[i])
<1> DEFINE added == [i \in 1 .. n |-> EpisodeRow(order[i])]
<1>1. /\ Cardinality(ids) \in Nat
      /\ \A i \in 1 .. Cardinality(ids) : order[i] \in Envs
  BY SortedIdsEnumerate
<1>2. n \in Nat /\ \A i \in 1 .. n : order[i] \in Envs
  BY <1>1
<1>3. added \in Seq(Rows) /\ Len(added) = n
  BY <1>2, RowType
<1>4. rows \in Seq(Rows) /\ Len(rows) \in Nat
  BY DEF TypeOK
<1>5. rows' = rows \o added
  OBVIOUS
<1>6. \A i \in 1 .. n : added[i] = EpisodeRow(order[i])
  OBVIOUS
<1> HIDE DEF added
<1> QED
  BY <1>2, <1>3, <1>4, <1>5, <1>6

LEMMA UnfinishedType ==
    ASSUME TypeOK, CallInProgress, NEW e \in Envs
    PROVE  Unfinished(e) \in Nat
<1>1. episodeIndex[e] \in Nat \cup {-1} /\ (e \in active => episodeIndex[e] \in Nat)
  BY DEF TypeOK, CallInProgress
<1> QED
  BY <1>1 DEF Unfinished

(* The row of an episode is the last of its environment.                   *)
LEMMA AppendedOneRow ==
    ASSUME TypeOK, CallInProgress, OneRowPerFinishedEpisode, failure # "recording",
           NEW ids \in SUBSET Envs, NEW order \in SortedIds(ids),
           NEW n \in 0 .. Cardinality(ids),
           ids \subseteq active,
           rows' = rows \o [i \in 1 .. n |-> EpisodeRow(order[i])],
           NEW e \in Envs
    PROVE  /\ \A i, j \in RowsOf(e)' : i < j => rows'[i].episode < rows'[j].episode
           /\ EpisodesOf(e)' = IF e \in {order[i] : i \in 1 .. n}
                               THEN 0 .. Unfinished(e) ELSE 0 .. Unfinished(e) - 1
<1>1. /\ Cardinality(ids) \in Nat
      /\ DOMAIN order = 1 .. Cardinality(ids)
      /\ \A i \in 1 .. Cardinality(ids) : order[i] \in ids
      /\ \A i, j \in DOMAIN order : order[i] = order[j] => i = j
  BY SortedIdsEnumerate
<1>2. /\ Len(rows) \in Nat /\ n \in Nat
      /\ Len(rows') = Len(rows) + n
      /\ \A i \in 1 .. Len(rows) : rows'[i] = rows[i]
      /\ \A i \in 1 .. n : rows'[Len(rows) + i] = EpisodeRow(order[i])
  BY AppendedBlock
<1>3. /\ EpisodesOf(e) = 0 .. Unfinished(e) - 1
      /\ \A i, j \in RowsOf(e) : i < j => rows[i].episode < rows[j].episode
  BY DEF OneRowPerFinishedEpisode
<1>4. Unfinished(e) \in Nat
  BY UnfinishedType
<1>5. ASSUME NEW i \in RowsOf(e)
      PROVE  rows[i].episode \in 0 .. Unfinished(e) - 1
  BY <1>3, <1>5 DEF EpisodesOf
<1>6. ASSUME NEW i \in 1 .. n, order[i] = e
      PROVE  /\ rows'[Len(rows) + i].env = e
             /\ rows'[Len(rows) + i].episode = Unfinished(e)
  <2>1. e \in active /\ episodeIndex[e] \in Nat
    <3>1. e \in ids
      BY <1>1, <1>6
    <3> QED
      BY <3>1 DEF TypeOK, CallInProgress
  <2>2. rows'[Len(rows) + i] = EpisodeRow(e)
    BY <1>2, <1>6
  <2> QED
    BY <2>1, <2>2 DEF EpisodeRow, GetEpisodeIndex, Unfinished
<1>7. ASSUME NEW i \in 1 .. n, order[i] # e
      PROVE  rows'[Len(rows) + i].env # e
  BY <1>2, <1>7 DEF EpisodeRow
<1> DEFINE added == {Len(rows) + i : i \in {k \in 1 .. n : order[k] = e}}
<1>8. RowsOf(e)' = RowsOf(e) \cup added
  <2>1. RowsOf(e)' = {i \in 1 .. Len(rows) + n : rows'[i].env = e}
    BY <1>2 DEF RowsOf
  <2>2. ASSUME NEW i \in 1 .. Len(rows) + n, i > Len(rows)
        PROVE  rows'[i].env = e <=> i \in added
    <3>1. PICK k \in 1 .. n : i = Len(rows) + k
      <4>1. i - Len(rows) \in 1 .. n /\ i = Len(rows) + (i - Len(rows))
        BY <1>2, <2>2
      <4> QED
        BY <4>1
    <3>2. \A l \in 1 .. n : i = Len(rows) + l => l = k
      BY <1>2, <3>1
    <3> QED
      BY <1>6, <1>7, <3>1, <3>2
  <2>3. \A i \in 1 .. Len(rows) + n : i <= Len(rows) => (rows'[i].env = e <=> i \in RowsOf(e))
    BY <1>2 DEF RowsOf
  <2>4. \A i \in RowsOf(e) : i \in 1 .. Len(rows) + n /\ i <= Len(rows)
    BY <1>2 DEF RowsOf
  <2>5. \A i \in added : i \in 1 .. Len(rows) + n /\ i > Len(rows)
    <3>1. \A k \in 1 .. n : Len(rows) + k \in 1 .. Len(rows) + n /\ Len(rows) + k > Len(rows)
      BY <1>2
    <3> QED
      BY <3>1
  <2> HIDE DEF added
  <2>6. ASSUME NEW i \in 1 .. Len(rows) + n
        PROVE  rows'[i].env = e <=> i \in RowsOf(e) \cup added
    <3>1. Len(rows) \in Nat /\ i \in Nat
      BY <1>2
    <3>2. CASE i <= Len(rows)
      BY <2>3, <2>5, <3>1, <3>2
    <3>3. CASE i > Len(rows)
      BY <2>2, <2>4, <3>1, <3>3
    <3> QED
      BY <3>1, <3>2, <3>3
  <2> QED
    BY <2>1, <2>4, <2>5, <2>6
<1>9. ASSUME NEW i \in RowsOf(e)
      PROVE  /\ i \in 1 .. Len(rows) /\ rows'[i] = rows[i]
             /\ rows'[i].episode \in 0 .. Unfinished(e) - 1
  BY <1>2, <1>5, <1>9 DEF RowsOf
<1>10. CASE e \in {order[i] : i \in 1 .. n}
  <2>1. PICK k \in 1 .. n : order[k] = e
    BY <1>10
  <2>2. {l \in 1 .. n : order[l] = e} = {k}
    BY <1>1, <2>1
  <2> DEFINE last == Len(rows) + k
  <2>3. RowsOf(e)' = RowsOf(e) \cup {last}
    BY <1>8, <2>2
  <2>4. rows'[last].episode = Unfinished(e) /\ last \in Nat /\ last > Len(rows)
    <3>1. rows'[Len(rows) + k].episode = Unfinished(e)
      BY <1>6, <2>1
    <3>2. last \in Nat /\ last > Len(rows)
      BY <1>2, <2>1
    <3> QED
      BY <3>1, <3>2
  <2> HIDE DEF last
  <2>5. ASSUME NEW i \in RowsOf(e)', NEW j \in RowsOf(e)', i < j
        PROVE  rows'[i].episode < rows'[j].episode
    <3>1. CASE i \in RowsOf(e) /\ j \in RowsOf(e)
      BY <1>3, <1>9, <2>5, <3>1
    <3>2. CASE i \in RowsOf(e) /\ j = last
      <4>1. rows'[i].episode \in 0 .. Unfinished(e) - 1
        BY <1>9, <3>2
      <4>2. rows'[j].episode = Unfinished(e)
        BY <2>4, <3>2, Zenon
      <4>3. \A u \in Nat : \A m \in 0 .. u - 1 : m < u
        OBVIOUS
      <4>4. rows'[i].episode < Unfinished(e)
        BY <1>4, <4>1, <4>3
      <4> QED
        BY <4>2, <4>4
    <3>3. CASE i = last
      <4>1. j \in 1 .. Len(rows) \/ j = last
        BY <1>9, <2>3, <2>5
      <4> QED
        BY <1>2, <2>4, <2>5, <3>3, <4>1
    <3> QED
      BY <2>3, <2>5, <3>1, <3>2, <3>3
  <2>6. EpisodesOf(e)' = {rows'[i].episode : i \in RowsOf(e)'}
    BY DEF EpisodesOf
  <2>7. EpisodesOf(e) = {rows'[i].episode : i \in RowsOf(e)}
    BY <1>9 DEF EpisodesOf
  <2>8. EpisodesOf(e)' = EpisodesOf(e) \cup {Unfinished(e)}
    BY <2>3, <2>4, <2>6, <2>7
  <2>9. EpisodesOf(e)' = 0 .. Unfinished(e)
    BY <1>3, <1>4, <2>8
  <2> QED
    BY <1>10, <2>5, <2>9
<1>11. CASE e \notin {order[i] : i \in 1 .. n}
  <2>1. RowsOf(e)' = RowsOf(e)
    BY <1>8, <1>11
  <2>2. EpisodesOf(e)' = EpisodesOf(e)
    BY <1>9, <2>1 DEF EpisodesOf
  <2> QED
    BY <1>3, <1>9, <1>11, <2>1, <2>2
<1> QED
  BY <1>10, <1>11

LEMMA InitOneRow == ASSUME rows = <<>>, active = {}, episodeIndex = [e \in Envs |-> -1]
                    PROVE  OneRowPerFinishedEpisode
<1>1. ASSUME NEW e \in Envs
      PROVE  RowsOf(e) = {} /\ EpisodesOf(e) = 0 .. Unfinished(e) - 1
  <2>1. RowsOf(e) = {} /\ EpisodesOf(e) = {} /\ Unfinished(e) = 0
    BY DEF RowsOf, EpisodesOf, Unfinished
  <2> QED
    BY <2>1
<1> QED
  BY <1>1 DEF OneRowPerFinishedEpisode

LEMMA BuildOneRow == Build => OneRowPerFinishedEpisode'
<1> SUFFICES ASSUME Build PROVE OneRowPerFinishedEpisode'
  OBVIOUS
<1>1. rows' = <<>> /\ active' = {} /\ episodeIndex' = [e \in Envs |-> -1]
  BY DEF Build
<1>2. ASSUME NEW e \in Envs
      PROVE  RowsOf(e)' = {} /\ EpisodesOf(e)' = 0 .. Unfinished(e)' - 1
  <2>1. RowsOf(e)' = {} /\ EpisodesOf(e)' = {} /\ Unfinished(e)' = 0
    BY <1>1 DEF RowsOf, EpisodesOf, Unfinished
  <2> QED
    BY <2>1
<1> QED
  BY <1>2 DEF OneRowPerFinishedEpisode

LEMMA FinishOneRow ==
    ASSUME IInv, OneRowPerFinishedEpisode, FinishEpisodes
    PROVE  OneRowPerFinishedEpisode'
<1>1. /\ finishing' = requested \cap active /\ active' = active \ finishing'
      /\ episodeIndex' = episodeIndex
      /\ finishing' \in SUBSET Envs
  BY DEF FinishEpisodes, Finishing, IInv, TypeOK
<1>2. failure # "recording" /\ TypeOK /\ CallInProgress /\ finishing' \subseteq active
  BY <1>1 DEF FinishEpisodes, IInv, CallInProgress
<1>3. PICK order \in SortedIds(finishing') :
          rows' = rows \o [i \in DOMAIN order |-> EpisodeRow(order[i])]
  BY DEF FinishEpisodes
<1>4. /\ Cardinality(finishing') \in 0 .. Cardinality(finishing')
      /\ DOMAIN order = 1 .. Cardinality(finishing')
      /\ {order[i] : i \in 1 .. Cardinality(finishing')} = finishing'
  <2>1. /\ Cardinality(finishing') \in Nat
        /\ DOMAIN order = 1 .. Cardinality(finishing')
        /\ IdsOf(order) = finishing'
    BY <1>1, SortedIdsEnumerate
  <2> QED
    BY <2>1 DEF IdsOf
<1>5. ASSUME NEW e \in Envs
      PROVE  /\ \A i, j \in RowsOf(e)' : i < j => rows'[i].episode < rows'[j].episode
             /\ EpisodesOf(e)' = IF e \in finishing' THEN 0 .. Unfinished(e)
                                 ELSE 0 .. Unfinished(e) - 1
  <2> DEFINE n == Cardinality(finishing')
             taken == {order[i] : i \in 1 .. n}
  <2>1. n \in 0 .. Cardinality(finishing') /\ taken = finishing'
        /\ rows' = rows \o [i \in 1 .. n |-> EpisodeRow(order[i])]
    BY <1>3, <1>4
  <2> HIDE DEF n
  <2>2. /\ \A i, j \in RowsOf(e)' : i < j => rows'[i].episode < rows'[j].episode
        /\ EpisodesOf(e)' = IF e \in taken THEN 0 .. Unfinished(e) ELSE 0 .. Unfinished(e) - 1
    BY <1>1, <1>2, <2>1, AppendedOneRow
  <2> HIDE DEF taken
  <2> QED
    BY <2>1, <2>2
<1>6. ASSUME NEW e \in Envs
      PROVE  EpisodesOf(e)' = 0 .. Unfinished(e)' - 1
  <2>1. Unfinished(e) \in Nat
    BY <1>2, UnfinishedType
  <2>2. e \in finishing' => Unfinished(e)' = Unfinished(e) + 1
    <3> SUFFICES ASSUME e \in finishing' PROVE Unfinished(e)' = Unfinished(e) + 1
      OBVIOUS
    <3>1. e \in active /\ e \notin active' /\ episodeIndex[e] \in Int
      BY <1>1, <1>2 DEF TypeOK
    <3> QED
      BY <1>1, <3>1 DEF Unfinished
  <2>3. e \notin finishing' => Unfinished(e)' = Unfinished(e)
    BY <1>1 DEF Unfinished
  <2> QED
    BY <1>5, <2>1, <2>2, <2>3
<1> QED
  BY <1>5, <1>6 DEF OneRowPerFinishedEpisode

LEMMA RaisesOneRow ==
    ASSUME IInv, OneRowPerFinishedEpisode, RecordingRaises
    PROVE  OneRowPerFinishedEpisode'
<1> DEFINE ids == Finishing(requested)
<1>1. /\ ids \in SUBSET Envs /\ failure # "recording" /\ failure' = "recording"
      /\ active' = active /\ episodeIndex' = episodeIndex
  BY DEF RecordingRaises, Finishing, IInv, TypeOK, CallInProgress, envVars
<1>2. TypeOK /\ CallInProgress /\ ids \subseteq active
  BY DEF Finishing, IInv
<1>3. PICK order \in SortedIds(ids) : \E written \in 0 .. Len(order) - 1 :
          rows' = rows \o [i \in 1 .. written |-> EpisodeRow(order[i])]
  BY DEF RecordingRaises
<1> HIDE DEF ids
<1>4. Len(order) = Cardinality(ids) /\ Cardinality(ids) \in Nat
  BY <1>1, SortedIdsEnumerate
<1>5. PICK written \in 0 .. Cardinality(ids) :
          rows' = rows \o [i \in 1 .. written |-> EpisodeRow(order[i])]
  BY <1>3, <1>4
<1>6. ASSUME NEW e \in Envs
      PROVE  /\ \A i, j \in RowsOf(e)' : i < j => rows'[i].episode < rows'[j].episode
             /\ EpisodesOf(e)' \in {0 .. Unfinished(e), 0 .. Unfinished(e) - 1}
  BY <1>1, <1>2, <1>5, AppendedOneRow
<1>7. \A e \in Envs : Unfinished(e)' = Unfinished(e)
  BY <1>1 DEF Unfinished
<1> QED
  BY <1>1, <1>6, <1>7 DEF OneRowPerFinishedEpisode

(* An episode that starts is the first one that has not finished, as the   *)
(* one its environment waited for was.                                     *)
LEMMA BeginOneRow ==
    ASSUME IInv, OneRowPerFinishedEpisode, phase = "starting", rows' = rows,
           NEW sorted \in SortedIds(Candidates),
           BeginEpisodes(StartOrder(sorted)), limit' = limit, completed' = completed
    PROVE  OneRowPerFinishedEpisode'
<1> DEFINE ids == IdsOf(StartOrder(sorted))
<1>1. /\ ids \cap active = {} /\ active' = active \cup ids /\ failure # "recording"
  BY BeginFacts DEF IInv, CallInProgress
<1>2. episodeIndex' = [e \in Envs |-> episodeIndex[e] + (IF e \in ids THEN 1 ELSE 0)]
  BY DEF BeginEpisodes
<1> HIDE DEF ids
<1>3. \A e \in Envs : Unfinished(e)' = Unfinished(e)
  BY <1>1, <1>2 DEF Unfinished, IInv, TypeOK
<1>4. \A e \in Envs : RowsOf(e)' = RowsOf(e) /\ EpisodesOf(e)' = EpisodesOf(e)
  BY DEF RowsOf, EpisodesOf
<1> QED
  BY <1>1, <1>3, <1>4 DEF OneRowPerFinishedEpisode

LEMMA KeptOneRow ==
    ASSUME OneRowPerFinishedEpisode, UNCHANGED <<rows, active, episodeIndex, failure>>
    PROVE  OneRowPerFinishedEpisode'
<1>1. \A e \in Envs : /\ RowsOf(e)' = RowsOf(e) /\ EpisodesOf(e)' = EpisodesOf(e)
                      /\ Unfinished(e)' = Unfinished(e)
  BY DEF RowsOf, EpisodesOf, Unfinished
<1> QED
  BY <1>1 DEF OneRowPerFinishedEpisode

LEMMA OneRowInductive ==
    ASSUME IInv, OneRowPerFinishedEpisode, [Next]_vars
    PROVE  OneRowPerFinishedEpisode'
<1>1. CASE Build
  BY <1>1, BuildOneRow
<1>2. CASE ConfigureEpisodeLimit
  BY <1>2, KeptOneRow DEF ConfigureEpisodeLimit, callVars
<1>3. CASE \E ids \in (SUBSET Envs) \ {{}} : Reset(ids)
  BY <1>3, KeptOneRow DEF Reset
<1>4. CASE \E done \in SUBSET Envs : Step(done)
  BY <1>4, KeptOneRow DEF Step
<1>5. CASE FinishEpisodes
  BY <1>5, FinishOneRow
<1>6. CASE RecordingRaises
  BY <1>6, RaisesOneRow
<1>7. CASE NothingStarts
  BY <1>7, KeptOneRow DEF NothingStarts, envVars
<1>8. CASE StartEpisodes
  BY <1>8, BeginOneRow DEF StartEpisodes
<1>9. CASE ResetEventRaises
  BY <1>9, BeginOneRow DEF ResetEventRaises
<1>10. CASE Return
  BY <1>10, KeptOneRow DEF Return
<1>11. CASE UNCHANGED vars
  BY <1>11, KeptOneRow DEF vars, envVars, callVars
<1> QED
  BY <1>1, <1>2, <1>3, <1>4, <1>5, <1>6, <1>7, <1>8, <1>9, <1>10, <1>11 DEF Next

(* However episodes end together, are cut by the budget or fail, there is  *)
(* one row per finished episode, in order and without a gap.               *)
THEOREM FinishedEpisodesHaveOneRow == Spec => []OneRowPerFinishedEpisode
<1>1. Init => OneRowPerFinishedEpisode
  BY InitOneRow DEF Init
<1>2. IInv /\ OneRowPerFinishedEpisode /\ [Next]_vars => OneRowPerFinishedEpisode'
  BY OneRowInductive
<1> QED
  BY <1>1, <1>2, InvariantHolds, PTL DEF Spec

-----------------------------------------------------------------------------
(* The turns of the replayed records: a record that was used is held by a  *)
(* running episode or named in the row of a finished one.                  *)

(* As many elements are met as there are indices that meet them.           *)
LEMMA ImageCount ==
    ASSUME NEW S, IsFiniteSet(S), NEW f, \A x, y \in S : f[x] = f[y] => x = y
    PROVE  /\ IsFiniteSet({f[x] : x \in S})
           /\ Cardinality({f[x] : x \in S}) = Cardinality(S)
<1> DEFINE T == {f[x] : x \in S}
           g == [x \in S |-> f[x]]
<1>1. g \in Bijection(S, T)
  BY DEF Bijection, Injection, Surjection, IsInjective
<1>2. ExistsBijection(S, T)
  BY <1>1 DEF ExistsBijection
<1> QED
  BY <1>2, FS_Bijection

(* Two sets without a common element. *)
LEMMA DisjointCount ==
    ASSUME NEW S, IsFiniteSet(S), NEW T, IsFiniteSet(T), S \cap T = {}
    PROVE  /\ IsFiniteSet(S \cup T)
           /\ Cardinality(S) \in Nat /\ Cardinality(T) \in Nat
           /\ Cardinality(S \cup T) = Cardinality(S) + Cardinality(T)
<1>1. Cardinality(S \cap T) = 0
  BY FS_EmptySet
<1>2. Cardinality(S) \in Nat /\ Cardinality(T) \in Nat
  BY FS_CardinalityType
<1>3. /\ IsFiniteSet(S \cup T)
      /\ Cardinality(S \cup T) = Cardinality(S) + Cardinality(T) - Cardinality(S \cap T)
  BY FS_Union
<1> QED
  BY <1>1, <1>2, <1>3

(* What the two sides of ReplayedInTurns count.                            *)
Written(record) == {i \in 1 .. Len(rows) : rows[i].source = record}
Held(record) == {e \in DOMAIN assigned : assigned[e] = record}
Turns(record) == {n \in 0 .. nextOccurrence - 1 : n % NumRecords = record}

LEMMA CountsAreFinite ==
    ASSUME TypeOK, NEW record
    PROVE  /\ IsFiniteSet(Written(record)) /\ Cardinality(Written(record)) \in Nat
           /\ IsFiniteSet(Held(record)) /\ Cardinality(Held(record)) \in Nat
           /\ IsFiniteSet(Turns(record)) /\ Cardinality(Turns(record)) \in Nat
<1>1. Len(rows) \in Nat /\ nextOccurrence \in Nat
  BY DEF TypeOK
<1>2. IsFiniteSet(1 .. Len(rows)) /\ IsFiniteSet(0 .. nextOccurrence - 1)
  BY <1>1, FS_Interval
<1>3. Written(record) \subseteq 1 .. Len(rows) /\ Turns(record) \subseteq 0 .. nextOccurrence - 1
  BY DEF Written, Turns
<1>4. Held(record) \in SUBSET Envs
  BY DEF Held, TypeOK
<1> QED
  BY <1>2, <1>3, <1>4, EnvSets, FS_Subset, FS_CardinalityType

(* The episodes that finish hand their records over to their rows.         *)
LEMMA FinishTurns ==
    ASSUME IInv, Replaying, FinishEpisodes, NEW record
    PROVE  Cardinality(Written(record)') + Cardinality(Held(record)')
           = Cardinality(Written(record)) + Cardinality(Held(record))
<1>1. /\ finishing' = requested \cap active /\ finishing' \in SUBSET Envs
      /\ finishing' \subseteq DOMAIN assigned
      /\ assigned' = RemoveKeys(assigned, finishing')
      /\ TypeOK
  BY DEF FinishEpisodes, Finishing, IInv, TypeOK, CallInProgress, CollaboratorsFollowTheMask
<1>2. PICK order \in SortedIds(finishing') :
          rows' = rows \o [i \in DOMAIN order |-> EpisodeRow(order[i])]
  BY DEF FinishEpisodes
<1> DEFINE n == Cardinality(finishing')
<1>3. /\ n \in Nat /\ DOMAIN order = 1 .. n
      /\ \A i \in 1 .. n : order[i] \in finishing'
      /\ \A i, j \in DOMAIN order : order[i] = order[j] => i = j
      /\ IdsOf(order) = finishing'
  BY <1>1, SortedIdsEnumerate
<1>4. /\ Len(rows) \in Nat
      /\ Len(rows') = Len(rows) + n
      /\ \A i \in 1 .. Len(rows) : rows'[i] = rows[i]
      /\ \A i \in 1 .. n : rows'[Len(rows) + i] = EpisodeRow(order[i])
  BY <1>1, <1>2, <1>3, AppendedBlock
<1> HIDE DEF n
<1> DEFINE K == {i \in 1 .. n : assigned[order[i]] = record}
           moved == {order[i] : i \in K}
           place == [i \in 1 .. n |-> Len(rows) + i]
           added == {place[i] : i \in K}
<1>5. IsFiniteSet(K)
  <2>1. IsFiniteSet(1 .. n)
    BY <1>3, FS_Interval
  <2>2. \A i \in K : i \in 1 .. n
    OBVIOUS
  <2> HIDE DEF K
  <2> QED
    BY <2>1, <2>2, FS_Subset
<1>6. /\ IsFiniteSet(moved) /\ Cardinality(moved) = Cardinality(K)
      /\ IsFiniteSet(added) /\ Cardinality(added) = Cardinality(K)
  <2>1. \A i, j \in K : order[i] = order[j] => i = j
    BY <1>3
  <2>2. \A i, j \in K : place[i] = place[j] => i = j
    BY <1>3, <1>4
  <2> HIDE DEF K, place
  <2> QED
    BY <1>5, <2>1, <2>2, ImageCount
<1>7. Held(record) = Held(record)' \cup moved /\ Held(record)' \cap moved = {}
  <2>1. moved = {e \in finishing' : assigned[e] = record}
    BY <1>3 DEF IdsOf
  <2>2. Held(record)' = {e \in DOMAIN assigned \ finishing' : assigned[e] = record}
    BY <1>1 DEF Held, RemoveKeys
  <2> HIDE DEF moved
  <2> QED
    BY <1>1, <2>1, <2>2 DEF Held
<1>8. Written(record)' = Written(record) \cup added /\ Written(record) \cap added = {}
  <2>1. Written(record)' = {i \in 1 .. Len(rows) + n : rows'[i].source = record}
    BY <1>4 DEF Written
  <2>2. \A i \in 1 .. n : EpisodeRow(order[i]).source = assigned[order[i]]
    BY <1>1, <1>3 DEF EpisodeRow, SourceRecord
  <2>3. ASSUME NEW i \in 1 .. Len(rows) + n, i > Len(rows)
        PROVE  rows'[i].source = record <=> i \in added
    <3>1. PICK k \in 1 .. n : i = Len(rows) + k
      <4>1. i - Len(rows) \in 1 .. n /\ i = Len(rows) + (i - Len(rows))
        BY <1>3, <1>4, <2>3
      <4> QED
        BY <4>1
    <3>2. rows'[i].source = assigned[order[k]]
      BY <1>4, <2>2, <3>1
    <3>3. \A l \in 1 .. n : i = place[l] <=> l = k
      BY <1>3, <1>4, <3>1
    <3>4. i \in added <=> k \in K
      BY <3>3
    <3> QED
      BY <3>2, <3>4
  <2>4. \A i \in added : i \in 1 .. Len(rows) + n /\ i > Len(rows)
    <3>1. \A k \in 1 .. n : place[k] \in 1 .. Len(rows) + n /\ place[k] > Len(rows)
      BY <1>3, <1>4
    <3> HIDE DEF place
    <3> QED
      BY <3>1
  <2>5. \A i \in Written(record) : i \in 1 .. Len(rows) + n /\ i <= Len(rows)
    BY <1>3, <1>4 DEF Written
  <2>6. \A i \in 1 .. Len(rows) + n :
            i <= Len(rows) => (rows'[i].source = record <=> i \in Written(record))
    BY <1>3, <1>4 DEF Written
  <2> HIDE DEF added
  <2>7. ASSUME NEW i \in 1 .. Len(rows) + n
        PROVE  rows'[i].source = record <=> i \in Written(record) \cup added
    <3>1. Len(rows) \in Nat /\ i \in Nat
      BY <1>3, <1>4
    <3>2. CASE i <= Len(rows)
      BY <2>4, <2>6, <3>1, <3>2
    <3>3. CASE i > Len(rows)
      BY <2>3, <2>5, <3>1, <3>3
    <3> QED
      BY <3>1, <3>2, <3>3
  <2>8. Written(record)' = Written(record) \cup added
    BY <2>1, <2>4, <2>5, <2>7
  <2>9. ASSUME NEW i \in Written(record), i \in added
        PROVE  FALSE
    <3>1. Len(rows) \in Nat /\ i \in Nat
      BY <1>3, <1>4, <2>5
    <3> QED
      BY <2>4, <2>5, <2>9, <3>1
  <2> QED
    BY <2>8, <2>9
<1>9. /\ IsFiniteSet(Written(record)) /\ IsFiniteSet(Held(record)')
      /\ Cardinality(Written(record)) \in Nat
  <2>1. IsFiniteSet(Held(record))
    BY <1>1, CountsAreFinite
  <2>2. Held(record)' \subseteq Held(record)
    BY <1>7
  <2> QED
    BY <1>1, <2>1, <2>2, CountsAreFinite, FS_Subset
<1> DEFINE hereafter == Held(record)'
           afterwards == Written(record)'
<1>10. /\ Cardinality(afterwards) = Cardinality(Written(record)) + Cardinality(K)
       /\ Cardinality(Held(record)) = Cardinality(hereafter) + Cardinality(K)
       /\ Cardinality(hereafter) \in Nat /\ Cardinality(K) \in Nat
  <2> HIDE DEF K, moved, added, hereafter, afterwards
  <2>1. Cardinality(afterwards) = Cardinality(Written(record)) + Cardinality(added)
    <3>1. afterwards = Written(record) \cup added /\ Written(record) \cap added = {}
      BY <1>8 DEF afterwards
    <3>2. Cardinality(Written(record) \cup added) = Cardinality(Written(record)) + Cardinality(added)
      BY ONLY <1>6, <1>9, <3>1, DisjointCount
    <3> QED
      BY ONLY <3>1, <3>2
  <2>2. /\ Cardinality(Held(record)) = Cardinality(hereafter) + Cardinality(moved)
        /\ Cardinality(hereafter) \in Nat /\ Cardinality(moved) \in Nat
    <3>1. /\ Held(record) = hereafter \cup moved /\ hereafter \cap moved = {}
          /\ IsFiniteSet(hereafter)
      BY <1>7, <1>9 DEF hereafter
    <3>2. /\ Cardinality(hereafter \cup moved) = Cardinality(hereafter) + Cardinality(moved)
          /\ Cardinality(hereafter) \in Nat /\ Cardinality(moved) \in Nat
      BY ONLY <1>6, <3>1, DisjointCount
    <3> QED
      BY ONLY <3>1, <3>2
  <2> QED
    BY <1>6, <2>1, <2>2
<1>11. Cardinality(Written(record)) \in Nat
  BY <1>9
<1> QED
  <2> HIDE DEF K, hereafter, afterwards
  <2>1. Cardinality(afterwards) + Cardinality(hereafter)
        = Cardinality(Written(record)) + Cardinality(Held(record))
    BY <1>10, <1>11
  <2> QED
    BY <2>1 DEF hereafter, afterwards

(* The episodes that start take the next turns, one each.                  *)
LEMMA BeginTurns ==
    ASSUME IInv, Replaying, phase = "starting", NEW sorted \in SortedIds(Candidates),
           BeginEpisodes(StartOrder(sorted)), limit' = limit, completed' = completed,
           NEW record,
           Cardinality(Written(record)) + Cardinality(Held(record)) = Cardinality(Turns(record))
    PROVE  Cardinality(Written(record)) + Cardinality(Held(record)')
           = Cardinality(Turns(record)')
<1> DEFINE order == StartOrder(sorted)
           ids == IdsOf(order)
           n == Len(order)
<1>1. TypeOK /\ Accounting /\ CollaboratorsFollowTheMask /\ failure = "none"
  BY DEF IInv, CallInProgress
<1>2. ids \cap DOMAIN assigned = {}
  BY <1>1, BeginFacts DEF CollaboratorsFollowTheMask
<1>3. n \in Nat /\ DOMAIN order = 1 .. n
  BY <1>1, StartOrderFacts
<1>4. \A i, j \in 1 .. n : order[i] = order[j] => i = j
  <2>1. Candidates \in SUBSET Envs
    BY <1>1, CandidatesType
  <2>2. /\ \A i, j \in DOMAIN sorted : sorted[i] = sorted[j] => i = j
        /\ DOMAIN sorted = 1 .. Len(sorted) /\ Len(sorted) \in Nat
    BY <2>1, SortedIdsEnumerate
  <2>3. \A i \in 1 .. n : i \in DOMAIN sorted /\ order[i] = sorted[i]
    <3>0. limit # NoLimit => limit - started \in Int
      BY <1>1 DEF TypeOK
    <3>1. /\ order = [i \in 1 .. EpisodeStarts(sorted) |-> sorted[i]]
          /\ EpisodeStarts(sorted) <= Len(sorted) /\ EpisodeStarts(sorted) \in Int
      <4>1. order = [i \in 1 .. EpisodeStarts(sorted) |-> sorted[i]]
        BY DEF StartOrder
      <4>2. EpisodeStarts(sorted) <= Len(sorted) /\ EpisodeStarts(sorted) \in Int
        BY <2>2, <3>0 DEF EpisodeStarts, Least
      <4> QED
        BY <4>1, <4>2
    <3>2. 1 .. n = 1 .. EpisodeStarts(sorted)
      BY <1>3, <3>1
    <3> HIDE DEF order, n
    <3>3. ASSUME NEW i \in 1 .. n
          PROVE  i \in DOMAIN sorted /\ order[i] = sorted[i]
      <4>1. i \in 1 .. EpisodeStarts(sorted)
        BY <3>2
      <4>2. i \in 1 .. Len(sorted)
        BY <2>2, <3>1, <4>1
      <4> QED
        BY <2>2, <3>1, <4>1, <4>2
    <3> QED
      BY <3>3
  <2> HIDE DEF order, n
  <2> QED
    BY <2>2, <2>3
<1>5. /\ assigned' = Assignment(order)
      /\ nextOccurrence' = nextOccurrence + n
  BY DEF BeginEpisodes
<1>6. nextOccurrence \in Nat
  BY <1>1 DEF TypeOK
<1>9. ids = {order[i] : i \in 1 .. n}
  BY <1>3 DEF IdsOf
<1> HIDE DEF order, n
<1> DEFINE turn == [i \in 1 .. n |-> nextOccurrence + i - 1]
<1>7. \A i \in 1 .. n : assigned'[order[i]] = RecordAt(turn[i]) /\ order[i] \in ids
  <2> SUFFICES ASSUME NEW i \in 1 .. n
               PROVE  assigned'[order[i]] = RecordAt(turn[i]) /\ order[i] \in ids
    OBVIOUS
  <2>1. order[i] \in ids
    BY <1>9
  <2>2. (CHOOSE j \in DOMAIN order : order[j] = order[i]) = i
    <3> DEFINE place == CHOOSE j \in DOMAIN order : order[j] = order[i]
    <3>1. place \in DOMAIN order /\ order[place] = order[i]
      BY <1>3
    <3> HIDE DEF place
    <3>2. place = i
      BY <1>3, <1>4, <3>1
    <3> QED
      BY <3>2 DEF place
  <2>3. assigned'[order[i]] = RecordAt(nextOccurrence + i - 1)
    <3>1. order[i] \in IdsOf(order)
      BY <2>1
    <3> HIDE DEF ids, turn
    <3> QED
      BY <1>5, <2>2, <3>1 DEF Assignment
  <2>4. turn[i] = nextOccurrence + i - 1
    OBVIOUS
  <2> HIDE DEF turn
  <2> QED
    BY <2>1, <2>3, <2>4
<1>8. DOMAIN assigned' = DOMAIN assigned \cup ids
      /\ \A e \in DOMAIN assigned : assigned'[e] = assigned[e]
  BY <1>2, <1>5 DEF Assignment
<1> HIDE DEF ids
<1> DEFINE K == {i \in 1 .. n : RecordAt(turn[i]) = record}
           taken == {order[i] : i \in K}
           turns == {turn[i] : i \in K}
<1>10. IsFiniteSet(K)
  <2>1. IsFiniteSet(1 .. n)
    BY <1>3, FS_Interval
  <2>2. K \subseteq 1 .. n
    OBVIOUS
  <2> QED
    BY <2>1, <2>2, FS_Subset
<1>11. /\ IsFiniteSet(taken) /\ Cardinality(taken) = Cardinality(K)
       /\ IsFiniteSet(turns) /\ Cardinality(turns) = Cardinality(K)
  <2>1. \A i, j \in K : order[i] = order[j] => i = j
    BY <1>4
  <2>2. \A i, j \in K : turn[i] = turn[j] => i = j
    BY <1>3, <1>6
  <2> HIDE DEF K, turn
  <2> QED
    BY <1>10, <2>1, <2>2, ImageCount
<1>12. Held(record)' = Held(record) \cup taken /\ Held(record) \cap taken = {}
  <2>1. Held(record)' = {e \in DOMAIN assigned' : assigned'[e] = record}
    BY DEF Held
  <2>2. taken = {e \in ids : assigned'[e] = record}
    <3> HIDE DEF turn
    <3> QED
      BY <1>7, <1>9
  <2> HIDE DEF taken
  <2> QED
    BY <1>2, <1>8, <2>1, <2>2 DEF Held
<1>13. Turns(record)' = Turns(record) \cup turns /\ Turns(record) \cap turns = {}
  <2>1. Turns(record)' = {m \in 0 .. nextOccurrence + n - 1 : RecordAt(m) = record}
    <3>1. Turns(record)' = {m \in 0 .. nextOccurrence' - 1 : RecordAt(m) = record}
      BY DEF Turns, RecordAt
    <3> QED
      BY <1>3, <1>5, <1>6, <3>1
  <2>2. Turns(record) = {m \in 0 .. nextOccurrence - 1 : RecordAt(m) = record}
    BY DEF Turns, RecordAt
  <2>3. \A i \in 1 .. n : /\ turn[i] \in 0 .. nextOccurrence + n - 1
                          /\ turn[i] \notin 0 .. nextOccurrence - 1
    BY <1>3, <1>6
  <2>4. ASSUME NEW m \in 0 .. nextOccurrence + n - 1, m \notin 0 .. nextOccurrence - 1
        PROVE  \E i \in 1 .. n : m = turn[i]
    <3>1. m - nextOccurrence + 1 \in 1 .. n /\ m = nextOccurrence + (m - nextOccurrence + 1) - 1
      BY <1>3, <1>6, <2>4
    <3> QED
      BY <3>1
  <2>5. \A m \in 0 .. nextOccurrence - 1 : m \in 0 .. nextOccurrence + n - 1
    BY <1>3, <1>6
  <2> HIDE DEF turn
  <2>6. turns = {m \in 0 .. nextOccurrence + n - 1 :
                    m \notin 0 .. nextOccurrence - 1 /\ RecordAt(m) = record}
    BY <2>3, <2>4
  <2> HIDE DEF turns
  <2> QED
    BY <2>1, <2>2, <2>5, <2>6
<1>14. /\ IsFiniteSet(Held(record)) /\ Cardinality(Held(record)) \in Nat
       /\ IsFiniteSet(Turns(record)) /\ Cardinality(Turns(record)) \in Nat
       /\ Cardinality(Written(record)) \in Nat
  BY <1>1, CountsAreFinite
<1> DEFINE held == Held(record)'
           had == Turns(record)'
<1> HIDE DEF K, taken, turns, held, had
<1>15. /\ Cardinality(held) = Cardinality(Held(record)) + Cardinality(K)
       /\ Cardinality(K) \in Nat
  <2>1. held = Held(record) \cup taken /\ Held(record) \cap taken = {}
    BY <1>12 DEF held
  <2>2. /\ Cardinality(Held(record) \cup taken) = Cardinality(Held(record)) + Cardinality(taken)
        /\ Cardinality(taken) \in Nat
    BY ONLY <2>1, <1>11, <1>14, DisjointCount
  <2> QED
    BY ONLY <1>11, <2>1, <2>2
<1>16. Cardinality(had) = Cardinality(Turns(record)) + Cardinality(K)
  <2>1. had = Turns(record) \cup turns /\ Turns(record) \cap turns = {}
    BY <1>13 DEF had
  <2>2. Cardinality(Turns(record) \cup turns) = Cardinality(Turns(record)) + Cardinality(turns)
    BY ONLY <2>1, <1>11, <1>14, DisjointCount
  <2> QED
    BY ONLY <1>11, <2>1, <2>2
<1>17. Cardinality(Written(record)) + Cardinality(held) = Cardinality(had)
  BY <1>14, <1>15, <1>16
<1> QED
  BY <1>17 DEF held, had

LEMMA KeptCounts ==
    ASSUME UNCHANGED <<rows, schedulerVars>>, NEW record
    PROVE  /\ Written(record)' = Written(record) /\ Held(record)' = Held(record)
           /\ Turns(record)' = Turns(record)
BY DEF Written, Held, Turns, schedulerVars

(* A failure is cleared by building a new environment only. *)
LEMMA TurnsInductive ==
    ASSUME IInv, ReplayedInTurns, [Next]_vars
    PROVE  ReplayedInTurns'
<1> SUFFICES ASSUME Replaying, failure' \in {"none", "event"},
                    NEW record \in 0 .. NumRecords - 1
             PROVE  Cardinality(Written(record)') + Cardinality(Held(record)')
                    = Cardinality(Turns(record)')
  BY DEF ReplayedInTurns, Replaying, Written, Held, Turns
<1>1. failure \in {"none", "event"} =>
          Cardinality(Written(record)) + Cardinality(Held(record)) = Cardinality(Turns(record))
  BY DEF ReplayedInTurns, Replaying, Written, Held, Turns
<1>2. CASE Build
  <2>1. Written(record)' = {} /\ Held(record)' = {} /\ Turns(record)' = {}
    BY <1>2 DEF Build, Written, Held, Turns
  <2> QED
    BY <2>1, FS_EmptySet
<1>3. ASSUME UNCHANGED <<rows, schedulerVars, failure>>
      PROVE  Cardinality(Written(record)') + Cardinality(Held(record)')
             = Cardinality(Turns(record)')
  BY <1>1, <1>3, KeptCounts
<1>4. CASE ConfigureEpisodeLimit
  BY <1>3, <1>4 DEF ConfigureEpisodeLimit, callVars
<1>5. CASE \E ids \in (SUBSET Envs) \ {{}} : Reset(ids)
  BY <1>3, <1>5 DEF Reset
<1>6. CASE \E done \in SUBSET Envs : Step(done)
  BY <1>3, <1>6 DEF Step
<1>7. CASE FinishEpisodes
  <2>1. failure = "none" /\ nextOccurrence' = nextOccurrence
    BY <1>7 DEF FinishEpisodes, IInv, CallInProgress
  <2>2. Turns(record)' = Turns(record)
    BY <2>1 DEF Turns
  <2>3. Cardinality(Written(record)') + Cardinality(Held(record)')
        = Cardinality(Written(record)) + Cardinality(Held(record))
    BY <1>7, FinishTurns
  <2> QED
    BY <1>1, <2>1, <2>2, <2>3
<1>8. CASE RecordingRaises
  BY <1>8 DEF RecordingRaises
<1>9. CASE NothingStarts
  BY <1>3, <1>9 DEF NothingStarts
<1>10. CASE StartEpisodes \/ ResetEventRaises
  <2>1. /\ phase = "starting" /\ failure = "none"
        /\ limit' = limit /\ completed' = completed /\ rows' = rows
    BY <1>10 DEF StartEpisodes, ResetEventRaises, IInv, CallInProgress
  <2>2. PICK sorted \in SortedIds(Candidates) : BeginEpisodes(StartOrder(sorted))
    BY <1>10 DEF StartEpisodes, ResetEventRaises
  <2>3. Written(record)' = Written(record)
    BY <2>1 DEF Written
  <2> QED
    BY <1>1, <2>1, <2>2, <2>3, BeginTurns
<1>11. CASE Return
  BY <1>3, <1>11 DEF Return
<1>12. CASE UNCHANGED vars
  BY <1>3, <1>12 DEF vars, callVars
<1> QED
  BY <1>2, <1>4, <1>5, <1>6, <1>7, <1>8, <1>9, <1>10, <1>11, <1>12 DEF Next

(* Records are replayed in global round-robin order, in whichever groups   *)
(* the environments reset and however many the budget lets start.          *)
THEOREM RecordsTakeTurns == Spec => []ReplayedInTurns
<1>1. Init => ReplayedInTurns
  <2> SUFFICES ASSUME Init, NEW record
               PROVE  Cardinality(Written(record)) + Cardinality(Held(record))
                      = Cardinality(Turns(record))
    BY DEF ReplayedInTurns, Written, Held, Turns
  <2>1. Written(record) = {} /\ Held(record) = {} /\ Turns(record) = {}
    BY DEF Init, Written, Held, Turns
  <2> QED
    BY <2>1, FS_EmptySet
<1>2. IInv /\ ReplayedInTurns /\ [Next]_vars => ReplayedInTurns'
  BY TurnsInductive
<1> QED
  BY <1>1, <1>2, InvariantHolds, PTL DEF Spec

-----------------------------------------------------------------------------
(* The rollout loop.  It is at a statement of its own exactly while no     *)
(* call of the environment is in progress; once it has ended, a call that  *)
(* raised is left where it was.                                            *)
Statements == {"configure", "reset env", "reset policy", "act", "step env",
               "notify policy", "check limit", "returned"}

AtType == at \in Statements \cup InEnv \cup {"raised"}

InCallOfEnv ==
    /\ at \in Statements => phase = "idle"
    /\ at \in InEnv => phase # "idle"

(* A plan the policy keeps is of the episode that runs, or of one whose    *)
(* successor has been started since, which the policy is yet to be told.   *)
PlansFit ==
    /\ planned \in [Envs -> Nat \cup {-1}]
    /\ at \in {"act", "check limit"} =>
           \A e \in active : planned[e] \in {-1, episodeIndex[e]}
    /\ at = "step env" =>
           \A e \in active : planned[e] = episodeIndex[e]
    /\ at \in {"stepping env", "notify policy"} =>
           \A e \in active \ resetIds : planned[e] = episodeIndex[e]

EndsComplete == at = "returned" /\ numSteps = 0 => completed = limit

RolloutInv == RowsInv /\ AtType /\ InCallOfEnv /\ PlansFit /\ EndsComplete

(* Every statement of the loop is at most one handler of the environment.  *)
LEMMA RolloutDrivesTheEnv == [RolloutNext]_allVars => [Next]_vars
<1> SUFFICES ASSUME RolloutNext \/ UNCHANGED allVars
             PROVE  Next \/ UNCHANGED vars
    OBVIOUS
<1>1. Envs \in (SUBSET Envs) \ {{}}
    BY NumEnvsAssumption DEF Envs
<1>2. CASE Configure BY <1>2 DEF Configure, Next
<1>3. CASE ResetEnv BY <1>1, <1>3 DEF ResetEnv, Next
<1>4. CASE EnvRuns \/ EnvReturns BY <1>4 DEF EnvRuns, EnvReturns, Next
<1>5. CASE StepEnv BY <1>5 DEF StepEnv, Next
<1>6. CASE ResetPolicy \/ GetAction \/ NotifyPolicy \/ CheckLimit \/ Raise
    BY <1>6 DEF ResetPolicy, GetAction, NotifyPolicy, CheckLimit, Raise
<1>7. CASE UNCHANGED allVars BY <1>7 DEF allVars
<1> QED BY <1>2, <1>3, <1>4, <1>5, <1>6, <1>7 DEF RolloutNext

LEMMA RolloutInitial == RolloutInit => RolloutInv
BY RowsInit DEF RolloutInit, Init, RolloutInv, AtType, InCallOfEnv, PlansFit, EndsComplete,
    Statements, InEnv

(* The handlers of the environment: those that start an episode put its    *)
(* environment among the reset ones, the others start none.                *)
LEMMA EnvKeepsPlans ==
    ASSUME RolloutInv, EnvRuns
    PROVE  /\ phase' # "idle"
           /\ \A e \in active' \ resetIds' :
                  e \in active \ resetIds /\ episodeIndex'[e] = episodeIndex[e]
<1>0. episodeIndex \in [Envs -> Nat \cup {-1}]
    BY DEF RolloutInv, RowsInv, IInv, TypeOK
<1>1. CASE FinishEpisodes
    BY <1>1 DEF FinishEpisodes
<1>2. CASE RecordingRaises
    BY <1>2 DEF RecordingRaises, envVars
<1>3. CASE NothingStarts
    BY <1>3 DEF NothingStarts, envVars
<1>4. CASE StartEpisodes \/ ResetEventRaises
    <2>1. PICK sorted \in SortedIds(Candidates) : BeginEpisodes(StartOrder(sorted))
        BY <1>4 DEF StartEpisodes, ResetEventRaises
    <2>2. phase' # "idle"
        BY <1>4 DEF StartEpisodes, ResetEventRaises
    <2> DEFINE ids == IdsOf(StartOrder(sorted))
    <2>3. /\ active' = active \cup ids
          /\ resetIds' = resetIds \cup ids
          /\ episodeIndex' = [e \in Envs |-> episodeIndex[e] + (IF e \in ids THEN 1 ELSE 0)]
        BY <2>1 DEF BeginEpisodes
    <2> HIDE DEF ids
    <2>4. active \in SUBSET Envs
        BY DEF RolloutInv, RowsInv, IInv, TypeOK
    <2> QED BY <1>0, <2>2, <2>3, <2>4
<1> QED BY <1>1, <1>2, <1>3, <1>4 DEF EnvRuns

LEMMA RunningIndices ==
    ASSUME RolloutInv
    PROVE  /\ active \in SUBSET Envs /\ episodeIndex \in [Envs -> Nat \cup {-1}]
           /\ \A e \in active : episodeIndex[e] \in Nat
<1>1. active \in SUBSET Envs /\ episodeIndex \in [Envs -> Nat \cup {-1}]
    BY DEF RolloutInv, RowsInv, IInv, TypeOK
<1>2. \A e \in active : episodeIndex[e] >= 0
    BY DEF RolloutInv, RowsInv, IInv, CallInProgress
<1> QED BY <1>1, <1>2

LEMMA ReturnsAtTheLimit ==
    ASSUME CheckLimit, at' = "returned", numSteps = 0
    PROVE  completed = limit
<1>1. ~ (numSteps > 0)
    OBVIOUS
<1>2. AllEpisodes
    BY <1>1 DEF CheckLimit
<1> QED BY <1>2 DEF AllEpisodes

LEMMA RolloutStep == RolloutInv /\ [RolloutNext]_allVars => RolloutInv'
<1> SUFFICES ASSUME RolloutInv, [RolloutNext]_allVars PROVE RolloutInv'
    OBVIOUS
<1>1. RowsInv'
    BY RolloutDrivesTheEnv, RowsInductive DEF RolloutInv
<1> DEFINE LoopInv == AtType /\ InCallOfEnv /\ PlansFit /\ EndsComplete
<1> SUFFICES LoopInv'
    BY <1>1 DEF RolloutInv
<1> USE DEF RolloutInv, AtType, InCallOfEnv, PlansFit, EndsComplete, Statements, InEnv
<1>2. active \in SUBSET Envs /\ episodeIndex \in [Envs -> Nat \cup {-1}]
      /\ \A e \in active : episodeIndex[e] \in Nat
    BY RunningIndices
<1>3. CASE Configure
    BY <1>3 DEF Configure, ConfigureEpisodeLimit, callVars, vars
<1>4. CASE ResetEnv
    BY <1>4 DEF ResetEnv, Reset
<1>5. CASE EnvRuns
    BY <1>5, EnvKeepsPlans DEF EnvRuns, rolloutVars
<1>6. CASE EnvReturns
    BY <1>6 DEF EnvReturns, Return
<1>7. CASE ResetPolicy
    BY <1>2, <1>7 DEF ResetPolicy, Forget, vars, envVars, callVars
<1>8. CASE GetAction
    BY <1>2, <1>8 DEF GetAction, vars, envVars, callVars
<1>9. CASE StepEnv
    <2>1. PICK done \in SUBSET Envs : Step(done)
        BY <1>9 DEF StepEnv
    <2>2. /\ UNCHANGED <<active, episodeIndex>> /\ resetIds' = {} /\ phase' # "idle"
          /\ at = "step env" /\ at' = "stepping env" /\ planned' = planned
        BY <1>9, <2>1 DEF StepEnv, Step
    <2> QED BY <2>2
<1>10. CASE NotifyPolicy
    BY <1>2, <1>10 DEF NotifyPolicy, Forget, NotifiedEnvs, vars, envVars, callVars
<1>11. CASE CheckLimit
    <2>1. /\ at = "check limit" /\ at' \in {"act", "returned"}
          /\ UNCHANGED <<active, episodeIndex, phase, planned, completed, limit, numSteps>>
        BY <1>11 DEF CheckLimit, vars, envVars, callVars
    <2>2. at' = "returned" /\ numSteps = 0 => completed = limit
        BY <1>11, ReturnsAtTheLimit
    <2>3. AtType' /\ InCallOfEnv' /\ EndsComplete'
        BY <2>1, <2>2
    <2>4. PlansFit'
        <3>1. planned' \in [Envs -> Nat \cup {-1}] /\ at' \in {"act", "returned"}
            BY <2>1
        <3>2. at' = "act" => \A e \in active' : planned'[e] \in {-1, episodeIndex'[e]}
            BY <2>1
        <3> QED BY <3>1, <3>2
    <2> QED BY <2>3, <2>4
<1>12. CASE Raise
    BY <1>12 DEF Raise, Ended, vars, envVars, callVars
<1>13. CASE UNCHANGED allVars
    BY <1>13 DEF allVars, rolloutVars, vars, envVars, callVars
<1> QED
    BY <1>3, <1>4, <1>5, <1>6, <1>7, <1>8, <1>9, <1>10, <1>11, <1>12, <1>13 DEF RolloutNext

LEMMA RolloutInvariant == RolloutSpec => []RolloutInv
BY RolloutInitial, RolloutStep, PTL DEF RolloutSpec

(* policy.reset(env_ids) and the order of the loop are enough for a policy *)
(* that plans ahead: the action applied to a running episode is from a     *)
(* plan made in it.                                                        *)
THEOREM PlansAreOfTheEpisode == RolloutSpec => []PolicyKnowsTheEpisode
<1>1. RolloutInv => PolicyKnowsTheEpisode
    BY DEF RolloutInv, InCallOfEnv, PlansFit, PolicyKnowsTheEpisode, InEnv
<1> QED BY <1>1, RolloutInvariant, PTL

(* A rollout that returns under an episode limit has started and completed *)
(* exactly the limit, leaves no episode open and has a row for each.       *)
THEOREM ReturnedRolloutsAreComplete == RolloutSpec => []ReturnsWithEveryEpisode
<1>1. RolloutInv => ReturnsWithEveryEpisode
    <2> SUFFICES ASSUME RolloutInv, at = "returned", numSteps = 0
                 PROVE  completed = limit /\ started = limit /\ active = {} /\ Len(rows) = limit
        BY DEF ReturnsWithEveryEpisode
    <2>1. completed = limit /\ limit \in Nat /\ limit # NoLimit /\ started \in Nat
        BY NoLimitAssumption DEF RolloutInv, EndsComplete, RowsInv, IInv, TypeOK
    <2>2. active \in SUBSET Envs /\ IsFiniteSet(active) /\ Cardinality(active) \in Nat
        BY EnvSets DEF RolloutInv, RowsInv, IInv, TypeOK
    <2>3. started = completed + Cardinality(active) /\ started <= limit
        BY <2>1, <2>2, SameCardinality
        DEF RolloutInv, RowsInv, IInv, Accounting, Budget!Balanced, Budget!WithinBudget
    <2>4. Cardinality(active) = 0
        BY <2>1, <2>2, <2>3
    <2>5. active = {}
        BY <2>2, <2>4, FS_EmptySet
    <2>6. Len(rows) = completed
        BY DEF RolloutInv, RowsInv, IInv, CallInProgress, RowsCounted, InCallOfEnv, Statements
    <2> QED BY <2>1, <2>3, <2>4, <2>5, <2>6
<1> QED BY <1>1, RolloutInvariant, PTL

-----------------------------------------------------------------------------
(* The recordings: what the tracker, the dataset and the rest poses hold   *)
(* of a running episode is of this episode, as far as it has come.         *)

Demos == [env : Envs, episode : Nat, steps : Nat, initials : Nat]

RecordingTypeOK ==
    /\ trajectory \in [Envs -> [steps : Nat, initials : Nat]]
    /\ exported \in Seq(Demos)
    /\ lastStep \in [Envs -> -1 .. MaxEpisodeLength]
    /\ updates \in [Envs -> 0 .. MaxEpisodeLength]
    /\ snapshot \in {Nothing} \cup [Envs -> Progress]
    /\ rowProgress \in Seq({Nothing} \cup Progress)
    /\ restPose \in [Envs -> Nat \cup {Nothing}]

(* The tracker's index is that of the last step or, after a reset, none.   *)
TrackerInStep ==
    /\ upToDate /\ ~ trackerFailed
    /\ \A e \in Envs : lastStep[e] \in {-1, episodeLength[e]}

StartsAreRequested ==
    /\ phase \in {"resetting", "starting"} => resetIds = {}
    /\ phase = "returning" => resetIds \subseteq requested

(* An initial state is recorded when the call that started it returns.     *)
InitialsAt(e) == IF phase = "returning" /\ e \in resetIds THEN 0 ELSE 1

(* What is kept of a running episode, at every handler, tells its length   *)
(* so far; and it is shorter than the longest unless it is about to end.   *)
Followed(e) ==
    /\ updates[e] = episodeLength[e]
    /\ restPose[e] \in {Nothing, GetEpisodeIndex(e)}
    /\ episodeLength[e] > 0 =>
           /\ snapshot # Nothing
           /\ snapshot[e] = [episode |-> GetEpisodeIndex(e), step |-> episodeLength[e]]
    /\ trajectory[e] = [steps |-> episodeLength[e], initials |-> InitialsAt(e)]
    /\ phase # "resetting" \/ e \notin requested => episodeLength[e] < MaxEpisodeLength

RunningAreFollowed == phase # "failed" => \A e \in active : Followed(e)

FollowInv == RecordingTypeOK /\ TrackerInStep /\ StartsAreRequested /\ RunningAreFollowed

RecordingInv == IInv /\ FollowInv /\ DatasetMatchesRows /\ SteppedRowsCarryOwnProgress

(* Every action of the recordings is at most one handler.                  *)
LEMMA RecordingDrivesTheEnv == [RecordingNext]_recordedVars => [Next]_vars
<1> SUFFICES ASSUME RecordingNext \/ UNCHANGED recordedVars
             PROVE  Next \/ UNCHANGED vars
  OBVIOUS
<1>1. CASE RecordingBuild BY <1>1 DEF RecordingBuild, Next
<1>2. CASE ConfigureEpisodeLimit BY <1>2 DEF Next
<1>3. CASE \E ids \in (SUBSET Envs) \ {{}} : Reset(ids) /\ UNCHANGED recordingVars
  BY <1>3 DEF Next
<1>4. CASE \E done \in SUBSET Envs : RecordingStep(done) BY <1>4 DEF RecordingStep, Next
<1>5. CASE QueryProgress BY <1>5 DEF QueryProgress
<1>6. CASE RecordingFinish BY <1>6 DEF RecordingFinish, Next
<1>7. CASE RecordingFails BY <1>7 DEF RecordingFails, Next
<1>8. CASE NothingStarts BY <1>8 DEF Next
<1>9. CASE RecordingStart BY <1>9 DEF RecordingStart, Next
<1>10. CASE ResetEventRaises BY <1>10 DEF Next
<1>11. CASE RecordingReturn BY <1>11 DEF RecordingReturn, Next
<1>12. CASE UNCHANGED recordedVars BY <1>12 DEF recordedVars
<1> QED
  BY <1>1, <1>2, <1>3, <1>4, <1>5, <1>6, <1>7, <1>8, <1>9, <1>10, <1>11, <1>12
  DEF RecordingNext

LEMMA RecordingInitial == RecordingInit => RecordingInv
<1> SUFFICES ASSUME RecordingInit PROVE RecordingInv
  OBVIOUS
<1>1. IInv
  BY InitInvariant DEF RecordingInit
<1>2. RecordingTypeOK /\ TrackerInStep /\ StartsAreRequested
  BY BoundsAssumption
  DEF RecordingInit, Init, RecordingTypeOK, TrackerInStep, StartsAreRequested, Empty
<1>3. RunningAreFollowed /\ DatasetMatchesRows /\ SteppedRowsCarryOwnProgress
  BY DEF RecordingInit, Init, RunningAreFollowed, DatasetMatchesRows,
         SteppedRowsCarryOwnProgress
<1> QED
  BY <1>1, <1>2, <1>3 DEF RecordingInv, FollowInv

-----------------------------------------------------------------------------
(* What is kept of the running episodes.                                   *)

LEMMA BuildFollows ==
    ASSUME RecordingBuild
    PROVE  FollowInv' /\ DatasetMatchesRows' /\ SteppedRowsCarryOwnProgress'
<1>1. RecordingTypeOK' /\ TrackerInStep' /\ StartsAreRequested'
  BY BoundsAssumption
  DEF RecordingBuild, Build, RecordingTypeOK, TrackerInStep, StartsAreRequested, Empty
<1>2. RunningAreFollowed' /\ DatasetMatchesRows' /\ SteppedRowsCarryOwnProgress'
  BY DEF RecordingBuild, Build, RunningAreFollowed, DatasetMatchesRows,
         SteppedRowsCarryOwnProgress
<1> QED
  BY <1>1, <1>2 DEF FollowInv

(* Handlers during which the recorders have nothing to do.                 *)
LEMMA QuietFollows ==
    ASSUME IInv, FollowInv, UNCHANGED recordingVars,
           \/ ConfigureEpisodeLimit
           \/ \E ids \in SUBSET Envs : Reset(ids)
           \/ NothingStarts
           \/ UNCHANGED vars
    PROVE  FollowInv'
<1>1. UNCHANGED <<trajectory, exported, lastStep, updates, upToDate, trackerFailed, snapshot,
                  rowProgress, restPose>>
      /\ UNCHANGED <<active, episodeIndex, episodeLength>>
  BY DEF recordingVars, ConfigureEpisodeLimit, Reset, NothingStarts, vars, envVars
<1>2. RecordingTypeOK'
  BY <1>1 DEF FollowInv, RecordingTypeOK
<1>3. TrackerInStep'
  BY <1>1 DEF FollowInv, TrackerInStep
<1>4. StartsAreRequested'
  BY DEF FollowInv, StartsAreRequested, ConfigureEpisodeLimit, Reset, NothingStarts, vars,
         envVars, callVars
<1>5. /\ phase' # "failed" => phase # "failed"
      /\ \A e \in Envs : InitialsAt(e)' = InitialsAt(e)
      /\ phase = "resetting" => phase' = "resetting" /\ requested' = requested
  BY DEF FollowInv, StartsAreRequested, ConfigureEpisodeLimit, Reset, NothingStarts, vars,
         envVars, callVars, InitialsAt
<1>6. RunningAreFollowed'
  <2> SUFFICES ASSUME phase' # "failed", NEW e \in active' PROVE Followed(e)'
    BY DEF RunningAreFollowed
  <2>1. e \in Envs /\ Followed(e)
    BY <1>1, <1>5 DEF FollowInv, RunningAreFollowed, IInv, TypeOK
  <2>2. GetEpisodeIndex(e)' = GetEpisodeIndex(e) /\ InitialsAt(e)' = InitialsAt(e)
    BY <1>1, <1>5, <2>1 DEF GetEpisodeIndex
  <2> QED
    BY <1>1, <1>5, <2>1, <2>2 DEF Followed
<1> QED
  BY <1>2, <1>3, <1>4, <1>6 DEF FollowInv

LEMMA RaisesFollows ==
    ASSUME FollowInv, UNCHANGED recordingVars, ResetEventRaises
    PROVE  FollowInv'
<1>1. phase' = "failed" /\ episodeLength' = episodeLength
  BY DEF ResetEventRaises
<1> QED
  BY <1>1 DEF FollowInv, RecordingTypeOK, TrackerInStep, StartsAreRequested,
      RunningAreFollowed, recordingVars

(* The progress is up to date whenever it is queried between two steps.    *)
LEMMA QueryIsQuiet == FollowInv /\ QueryProgress => UNCHANGED recordedVars
BY DEF FollowInv, TrackerInStep, QueryProgress, recordedVars, recordingVars

LEMMA StepFollows ==
    ASSUME IInv, FollowInv, NEW done \in SUBSET Envs, RecordingStep(done)
    PROVE  FollowInv'
<1>1. /\ phase = "idle" /\ active' = active /\ episodeIndex' = episodeIndex
      /\ resetIds' = {} /\ requested' = done
      /\ episodeLength' = [e \in Envs |-> Least(episodeLength[e] + 1, MaxEpisodeLength)]
      /\ {e \in Envs : episodeLength'[e] = MaxEpisodeLength} \subseteq done
      /\ phase' = IF done = {} THEN "returning" ELSE "resetting"
  BY DEF RecordingStep, Step
<1>2. /\ trackerFailed' = \E e \in Envs : ~ NextIndex(e, episodeLength')
      /\ lastStep' = episodeLength'
      /\ updates' = [e \in Envs |-> Least(updates[e] + 1, MaxEpisodeLength)]
      /\ upToDate' = TRUE
      /\ snapshot' = [e \in Envs |-> [episode |-> GetEpisodeIndex(e), step |-> lastStep'[e]]]
      /\ trajectory' = [e \in Envs |->
                           IF e \in active
                           THEN [trajectory[e] EXCEPT !.steps = @ + 1] ELSE trajectory[e]]
      /\ UNCHANGED <<exported, rowProgress>>
  BY DEF RecordingStep, UpdateTaskProgress, Published, RecordedEnvs
<1>3. PICK new \in SUBSET {e \in Envs : restPose[e] = Nothing} :
          restPose' = [e \in Envs |-> IF e \in new THEN GetEpisodeIndex(e) ELSE restPose[e]]
  BY DEF RecordingStep, UpdateTaskProgress, RecordRestPoses
<1>4. /\ TypeOK /\ active \subseteq Envs /\ MaxEpisodeLength \in Nat \ {0}
      /\ episodeLength \in [Envs -> 0 .. MaxEpisodeLength]
      /\ \A e \in Envs : GetEpisodeIndex(e) \in Nat /\ GetEpisodeIndex(e)' = GetEpisodeIndex(e)
  BY <1>1, BoundsAssumption DEF IInv, TypeOK, GetEpisodeIndex
<1>5. episodeLength' \in [Envs -> 0 .. MaxEpisodeLength]
  BY <1>1, <1>4 DEF Least
<1>6. RecordingTypeOK'
  <2>1. lastStep' \in [Envs -> -1 .. MaxEpisodeLength]
    BY <1>2, <1>4, <1>5
  <2>2. updates' \in [Envs -> 0 .. MaxEpisodeLength]
    BY <1>2, <1>4 DEF FollowInv, RecordingTypeOK, Least
  <2>3. snapshot' \in [Envs -> Progress]
    BY <1>2, <1>4, <1>5 DEF Progress
  <2>4. trajectory' \in [Envs -> [steps : Nat, initials : Nat]]
    <3>1. ASSUME NEW e \in Envs
          PROVE  trajectory'[e] \in [steps : Nat, initials : Nat]
      <4>1. trajectory[e] \in [steps : Nat, initials : Nat]
        BY DEF FollowInv, RecordingTypeOK
      <4>2. [trajectory[e] EXCEPT !.steps = @ + 1] \in [steps : Nat, initials : Nat]
        BY <4>1
      <4> QED
        BY <1>2, <4>1, <4>2
    <3> QED
      BY <1>2, <3>1
  <2>5. restPose' \in [Envs -> Nat \cup {Nothing}]
    BY <1>3, <1>4 DEF FollowInv, RecordingTypeOK
  <2> QED
    BY <1>2, <2>1, <2>2, <2>3, <2>4, <2>5 DEF FollowInv, RecordingTypeOK
<1>7. TrackerInStep'
  <2>1. \A e \in Envs : NextIndex(e, episodeLength')
    <3> SUFFICES ASSUME NEW e \in Envs PROVE NextIndex(e, episodeLength')
      OBVIOUS
    <3>1. lastStep[e] \in {-1, episodeLength[e]}
      BY DEF FollowInv, TrackerInStep
    <3> QED
      BY <1>1, <3>1 DEF NextIndex
  <2> QED
    BY <1>2, <1>5, <2>1 DEF TrackerInStep
<1>8. StartsAreRequested'
  BY <1>1 DEF StartsAreRequested
<1>9. ASSUME NEW e \in active PROVE Followed(e)'
  <2>1. e \in Envs /\ Followed(e) /\ episodeLength[e] \in 0 .. MaxEpisodeLength
    BY <1>1, <1>4 DEF FollowInv, RunningAreFollowed
  <2>2. episodeLength[e] < MaxEpisodeLength /\ InitialsAt(e) = 1
    BY <1>1, <2>1 DEF Followed, InitialsAt
  <2>3. episodeLength'[e] = episodeLength[e] + 1
    BY <1>1, <1>4, <2>1, <2>2 DEF Least
  <2>4. updates'[e] = episodeLength'[e]
    BY <1>1, <1>2, <2>1 DEF Followed
  <2>5. InitialsAt(e)' = 1
    BY <1>1 DEF InitialsAt
  <2>6. trajectory'[e] = [steps |-> episodeLength'[e], initials |-> 1]
    BY <1>2, <2>1, <2>2, <2>3 DEF Followed
  <2>7. restPose'[e] \in {Nothing, GetEpisodeIndex(e)}
    BY <1>3, <2>1 DEF Followed
  <2>8. /\ snapshot' # Nothing
        /\ snapshot'[e] = [episode |-> GetEpisodeIndex(e), step |-> episodeLength'[e]]
    <3>1. snapshot' \in [Envs -> Progress]
      BY <1>2, <1>4, <1>5 DEF Progress
    <3> QED
      BY <1>2, <2>1, <3>1, NothingAssumption
  <2>9. e \notin done => episodeLength'[e] < MaxEpisodeLength
    BY <1>1, <1>4, <1>5, <2>1
  <2>10. phase' # "resetting" => e \notin done
    BY <1>1
  <2> QED
    BY <1>1, <1>4, <2>1, <2>4, <2>5, <2>6, <2>7, <2>8, <2>9, <2>10 DEF Followed
<1> QED
  BY <1>1, <1>6, <1>7, <1>8, <1>9 DEF FollowInv, RunningAreFollowed

(* What FinishEpisodes keeps. *)
LEMMA FinishFollows ==
    ASSUME IInv, FollowInv, RecordingTypeOK',
           FinishEpisodes \/ RecordingRaises,
           UNCHANGED <<trajectory, lastStep, updates, upToDate, trackerFailed, snapshot, restPose>>
    PROVE  FollowInv'
<1>1. /\ UNCHANGED <<resetIds, requested, episodeIndex, episodeLength>>
      /\ active' \subseteq active /\ active \subseteq Envs
      /\ phase = "resetting" /\ phase' \in {"starting", "failed"}
      /\ phase' # "failed" => active' = active \ (requested \cap active)
  BY DEF FinishEpisodes, RecordingRaises, envVars, Finishing, IInv, TypeOK
<1>2. TrackerInStep'
  BY <1>1 DEF FollowInv, TrackerInStep
<1>3. StartsAreRequested'
  BY <1>1 DEF FollowInv, StartsAreRequested
<1>4. RunningAreFollowed'
  <2> SUFFICES ASSUME phase' # "failed", NEW e \in active' PROVE Followed(e)'
    BY DEF RunningAreFollowed
  <2>1. e \in Envs /\ Followed(e) /\ e \notin requested
    BY <1>1 DEF FollowInv, RunningAreFollowed
  <2>2. GetEpisodeIndex(e)' = GetEpisodeIndex(e) /\ InitialsAt(e)' = InitialsAt(e)
    BY <1>1 DEF GetEpisodeIndex, InitialsAt
  <2> QED
    BY <1>1, <2>1, <2>2 DEF Followed
<1> QED
  BY <1>2, <1>3, <1>4 DEF FollowInv

LEMMA StartFollows ==
    ASSUME IInv, FollowInv, RecordingStart
    PROVE  FollowInv'
<1>1. /\ phase = "starting" /\ limit' = limit /\ completed' = completed
      /\ requested' = requested /\ phase' \in {"failed", "returning"}
      /\ UNCHANGED <<exported, trackerFailed, snapshot, rowProgress>>
      /\ upToDate' = upToDate
  BY DEF RecordingStart, StartEpisodes, MarkerAfterReset
<1>2. PICK sorted \in SortedIds(Candidates) :
          /\ BeginEpisodes(StartOrder(sorted))
          /\ episodeLength' = [e \in Envs |-> IF e \in IdsOf(StartOrder(sorted))
                                              THEN 0 ELSE episodeLength[e]]
  BY DEF RecordingStart, StartEpisodes
<1> DEFINE ids == IdsOf(StartOrder(sorted))
<1>3. /\ ids \in SUBSET Envs /\ ids \cap active = {}
      /\ active' = active \cup ids
      /\ episodeIndex' \in [Envs -> Nat \cup {-1}]
      /\ \A e \in active : episodeIndex'[e] = episodeIndex[e]
  BY <1>1, <1>2, BeginFacts
<1>4. resetIds = {} /\ resetIds' = ids
  BY <1>1, <1>2 DEF BeginEpisodes, FollowInv, StartsAreRequested
<1>5. ids \subseteq requested
  <2>1. ids \subseteq Candidates
    BY StartOrderFacts DEF IInv
  <2> QED
    BY <1>1, <2>1 DEF Candidates, IInv, CallInProgress
<1> HIDE DEF ids
<1>6. /\ trajectory' = [e \in Envs |-> IF e \in ids THEN Empty ELSE trajectory[e]]
      /\ lastStep' = [e \in Envs |-> IF e \in ids THEN -1 ELSE lastStep[e]]
      /\ updates' = [e \in Envs |-> IF e \in ids THEN 0 ELSE updates[e]]
      /\ restPose' = [e \in Envs |-> IF e \in ids THEN Nothing ELSE restPose[e]]
  BY <1>4 DEF RecordingStart, ClearedPoses
<1>7. episodeLength' = [e \in Envs |-> IF e \in ids THEN 0 ELSE episodeLength[e]]
  BY <1>2 DEF ids
<1>8. active \subseteq Envs /\ MaxEpisodeLength \in Nat \ {0}
      /\ episodeLength \in [Envs -> 0 .. MaxEpisodeLength]
  BY BoundsAssumption DEF IInv, TypeOK
<1>9. RecordingTypeOK'
  BY <1>1, <1>6, <1>8 DEF FollowInv, RecordingTypeOK, Empty
<1>10. TrackerInStep'
  BY <1>1, <1>6, <1>7 DEF FollowInv, TrackerInStep
<1>11. StartsAreRequested'
  BY <1>1, <1>4, <1>5 DEF StartsAreRequested
<1>12. RunningAreFollowed'
  <2> SUFFICES ASSUME phase' # "failed", NEW e \in active' PROVE Followed(e)'
    BY DEF RunningAreFollowed
  <2>1. phase' = "returning" /\ e \in Envs
    BY <1>1, <1>3, <1>8
  <2>2. CASE e \in ids
    <3>1. InitialsAt(e)' = 0
      BY <1>4, <2>1, <2>2 DEF InitialsAt
    <3>2. episodeLength'[e] = 0 /\ updates'[e] = 0 /\ restPose'[e] = Nothing
          /\ trajectory'[e] = [steps |-> 0, initials |-> 0]
      BY <1>6, <1>7, <2>1, <2>2 DEF Empty
    <3> QED
      BY <1>8, <3>1, <3>2 DEF Followed
  <2>3. CASE e \notin ids
    <3>1. Followed(e) /\ e \in active
      BY <1>1, <1>3, <2>3 DEF FollowInv, RunningAreFollowed
    <3>2. InitialsAt(e)' = 1 /\ InitialsAt(e) = 1
      BY <1>1, <1>4, <2>3 DEF InitialsAt
    <3>3. GetEpisodeIndex(e)' = GetEpisodeIndex(e)
      BY <1>3, <3>1 DEF GetEpisodeIndex
    <3>4. /\ episodeLength'[e] = episodeLength[e] /\ updates'[e] = updates[e]
          /\ restPose'[e] = restPose[e] /\ trajectory'[e] = trajectory[e]
      BY <1>6, <1>7, <2>1, <2>3
    <3> QED
      BY <1>1, <3>1, <3>2, <3>3, <3>4 DEF Followed
  <2> QED
    BY <2>2, <2>3
<1> QED
  BY <1>9, <1>10, <1>11, <1>12 DEF FollowInv

LEMMA ReturnFollows ==
    ASSUME IInv, FollowInv, RecordingReturn
    PROVE  FollowInv'
<1>1. /\ phase = "returning" /\ phase' = "idle"
      /\ UNCHANGED <<active, episodeIndex, episodeLength, resetIds>>
      /\ UNCHANGED <<exported, lastStep, updates, upToDate, trackerFailed, snapshot,
                     rowProgress, restPose>>
      /\ trajectory' = [e \in Envs |->
                           IF e \in requested \cap resetIds \cap active
                           THEN [trajectory[e] EXCEPT !.initials = @ + 1] ELSE trajectory[e]]
  BY DEF RecordingReturn, Return, InitialStateEnvs
<1>2. active \subseteq Envs /\ resetIds \subseteq requested
  BY <1>1 DEF IInv, TypeOK, FollowInv, StartsAreRequested
<1>3. RecordingTypeOK'
  <2>1. ASSUME NEW e \in Envs
        PROVE  trajectory'[e] \in [steps : Nat, initials : Nat]
    <3>1. trajectory[e] \in [steps : Nat, initials : Nat]
      BY DEF FollowInv, RecordingTypeOK
    <3>2. [trajectory[e] EXCEPT !.initials = @ + 1] \in [steps : Nat, initials : Nat]
      BY <3>1
    <3> QED
      BY <1>1, <3>1, <3>2
  <2>2. trajectory' \in [Envs -> [steps : Nat, initials : Nat]]
    BY <1>1, <2>1
  <2> QED
    BY <1>1, <2>2 DEF FollowInv, RecordingTypeOK
<1>4. TrackerInStep' /\ StartsAreRequested'
  BY <1>1 DEF FollowInv, TrackerInStep, StartsAreRequested
<1>5. RunningAreFollowed'
  <2> SUFFICES ASSUME NEW e \in active PROVE Followed(e)'
    BY <1>1 DEF RunningAreFollowed
  <2>1. e \in Envs /\ Followed(e)
    BY <1>1, <1>2 DEF FollowInv, RunningAreFollowed
  <2>2. GetEpisodeIndex(e)' = GetEpisodeIndex(e) /\ InitialsAt(e)' = 1
    BY <1>1 DEF GetEpisodeIndex, InitialsAt
  <2>3. trajectory'[e] = [steps |-> episodeLength[e], initials |-> 1]
    <3>1. CASE e \in resetIds
      <4>1. trajectory[e] = [steps |-> episodeLength[e], initials |-> 0]
        BY <1>1, <2>1, <3>1 DEF Followed, InitialsAt
      <4>2. trajectory'[e] = [trajectory[e] EXCEPT !.initials = @ + 1]
        BY <1>1, <1>2, <2>1, <3>1
      <4> QED
        BY <4>1, <4>2
    <3>2. CASE e \notin resetIds
      BY <1>1, <2>1, <3>2 DEF Followed, InitialsAt
    <3> QED
      BY <3>1, <3>2
  <2> QED
    BY <1>1, <2>1, <2>2, <2>3 DEF Followed
<1> QED
  BY <1>3, <1>4, <1>5 DEF FollowInv

-----------------------------------------------------------------------------
(* What is written of the episodes that finish.                            *)

LEMMA ConcatFacts ==
    ASSUME NEW T, NEW s \in Seq(T), NEW n \in Nat, NEW f \in [1 .. n -> T]
    PROVE  /\ s \o f \in Seq(T) /\ Len(s) \in Nat /\ Len(s \o f) = Len(s) + n
           /\ \A i \in 1 .. Len(s) : (s \o f)[i] = s[i]
           /\ \A i \in 1 .. n : (s \o f)[Len(s) + i] = f[i]
<1>1. f \in Seq(T) /\ Len(f) = n
  OBVIOUS
<1> QED
  BY <1>1

(* The rows of a call, whether all of them are written or the recorder     *)
(* raises: each is of an episode that was followed to its end.             *)
LEMMA NewRows ==
    ASSUME IInv, FinishEpisodes \/ RecordingRaises
    PROVE  /\ phase = "resetting" /\ failure = "none"
           /\ \E n \in Nat,
                  order \in [1 .. Cardinality(Finishing(requested)) -> Finishing(requested)] :
                  /\ n <= Cardinality(Finishing(requested))
                  /\ FinishEpisodes => n = Cardinality(Finishing(requested))
                  /\ Len(rows) \in Nat /\ Len(rows') = Len(rows) + n
                  /\ \A i \in 1 .. Len(rows) : rows'[i] = rows[i]
                  /\ \A i \in 1 .. n : order[i] \in Finishing(requested)
                                       /\ rows'[Len(rows) + i] = EpisodeRow(order[i])
<1> DEFINE ids == Finishing(requested)
<1>1. phase = "resetting" /\ failure = "none" /\ TypeOK
  BY DEF FinishEpisodes, RecordingRaises, IInv, CallInProgress
<1>2. ids \in SUBSET Envs
  BY <1>1 DEF Finishing, TypeOK
<1>3. FinishEpisodes => finishing' = ids
  BY DEF FinishEpisodes
<1> HIDE DEF ids
<1>4. Cardinality(ids) \in Nat
  BY <1>2, EnvSets
<1>5. PICK order \in SortedIds(ids), n \in 0 .. Cardinality(ids) :
          /\ FinishEpisodes => n = Cardinality(ids)
          /\ rows' = rows \o [i \in 1 .. n |-> EpisodeRow(order[i])]
  <2>1. CASE FinishEpisodes
    <3>1. PICK order \in SortedIds(ids) :
              rows' = rows \o [i \in DOMAIN order |-> EpisodeRow(order[i])]
      BY <1>3, <2>1 DEF FinishEpisodes
    <3>2. DOMAIN order = 1 .. Cardinality(ids) /\ Cardinality(ids) \in 0 .. Cardinality(ids)
      BY <1>2, <1>4, <3>1, SortedIdsEnumerate
    <3> QED
      BY <3>1, <3>2
  <2>2. CASE RecordingRaises
    <3>1. PICK order \in SortedIds(ids) : \E written \in 0 .. Len(order) - 1 :
              rows' = rows \o [i \in 1 .. written |-> EpisodeRow(order[i])]
      BY <2>2 DEF RecordingRaises, ids
    <3>2. Len(order) = Cardinality(ids)
      BY <1>2, <3>1, SortedIdsEnumerate
    <3>3. PICK written \in 0 .. Len(order) - 1 :
              rows' = rows \o [i \in 1 .. written |-> EpisodeRow(order[i])]
      BY <3>1
    <3>4. written \in 0 .. Cardinality(ids)
      BY <1>4, <3>2, <3>3
    <3>5. ~ FinishEpisodes
      <4>1. failure' = "recording"
        BY <2>2 DEF RecordingRaises
      <4> QED
        BY <4>1 DEF FinishEpisodes
    <3> QED
      BY <3>3, <3>4, <3>5
  <2> QED
    BY <2>1, <2>2
<1>6. /\ order \in [1 .. Cardinality(ids) -> ids]
      /\ \A i \in 1 .. Cardinality(ids) : order[i] \in ids
  BY <1>2, SortedIdsEnumerate DEF SortedIds
<1>7. /\ Len(rows) \in Nat /\ n \in Nat
      /\ Len(rows') = Len(rows) + n
      /\ \A i \in 1 .. Len(rows) : rows'[i] = rows[i]
      /\ \A i \in 1 .. n : rows'[Len(rows) + i] = EpisodeRow(order[i])
  BY <1>1, <1>2, <1>5, AppendedBlock
<1>8. n <= Cardinality(ids) /\ \A i \in 1 .. n : order[i] \in ids
  BY <1>4, <1>5, <1>6, <1>7
<1> QED
  BY <1>1, <1>5, <1>6, <1>7, <1>8 DEF ids

LEMMA NewProgress ==
    ASSUME RecordingInv, FinishEpisodes \/ RecordingRaises,
           rowProgress' = rowProgress
               \o [i \in 1 .. Len(rows') - Len(rows) |-> ProgressOf(rows'[Len(rows) + i].env)]
    PROVE  /\ rowProgress' \in Seq({Nothing} \cup Progress)
           /\ SteppedRowsCarryOwnProgress'
<1>1. PICK n \in Nat, order \in [1 .. Cardinality(Finishing(requested)) -> Finishing(requested)] :
          /\ Len(rows) \in Nat /\ Len(rows') = Len(rows) + n
          /\ \A i \in 1 .. Len(rows) : rows'[i] = rows[i]
          /\ \A i \in 1 .. n : order[i] \in Finishing(requested)
                               /\ rows'[Len(rows) + i] = EpisodeRow(order[i])
  BY NewRows DEF RecordingInv
<1>2. /\ phase = "resetting" /\ TypeOK /\ FollowInv
      /\ rowProgress \in Seq({Nothing} \cup Progress)
      /\ Len(rowProgress) = Len(rows)
  BY NewRows DEF RecordingInv, IInv, FollowInv, RecordingTypeOK, SteppedRowsCarryOwnProgress
<1> DEFINE f == [i \in 1 .. n |-> ProgressOf(rows'[Len(rows) + i].env)]
<1>3. rowProgress' = rowProgress \o f
  <2>1. Len(rows') - Len(rows) = n
    BY <1>1
  <2> QED
    BY <2>1
<1>4. ASSUME NEW i \in 1 .. n
      PROVE  /\ order[i] \in Envs /\ Followed(order[i])
             /\ rows'[Len(rows) + i].episode = GetEpisodeIndex(order[i])
             /\ rows'[Len(rows) + i].length = episodeLength[order[i]]
             /\ f[i] = ProgressOf(order[i])
  <2>1. order[i] \in active /\ rows'[Len(rows) + i] = EpisodeRow(order[i])
    BY <1>1 DEF Finishing
  <2> QED
    BY <1>2, <2>1 DEF EpisodeRow, FollowInv, RunningAreFollowed, TypeOK
<1>5. ASSUME NEW i \in 1 .. n
      PROVE  f[i] \in {Nothing} \cup Progress
  <2>1. snapshot \in {Nothing} \cup [Envs -> Progress]
    BY <1>2 DEF FollowInv, RecordingTypeOK
  <2>2. order[i] \in Envs /\ f[i] = ProgressOf(order[i])
    BY <1>4
  <2> HIDE DEF f
  <2> QED
    BY <2>1, <2>2 DEF ProgressOf
<1>6. f \in [1 .. n -> {Nothing} \cup Progress]
  BY <1>5
<1> HIDE DEF f
<1>7. /\ rowProgress' \in Seq({Nothing} \cup Progress)
      /\ Len(rowProgress') = Len(rowProgress) + n
      /\ \A i \in 1 .. Len(rowProgress) : rowProgress'[i] = rowProgress[i]
      /\ \A i \in 1 .. n : rowProgress'[Len(rowProgress) + i] = f[i]
  <2> DEFINE T == {Nothing} \cup Progress
  <2>1. rowProgress \in Seq(T) /\ f \in [1 .. n -> T]
    BY <1>2, <1>6
  <2> HIDE DEF T
  <2>2. /\ rowProgress \o f \in Seq(T)
        /\ Len(rowProgress \o f) = Len(rowProgress) + n
        /\ \A i \in 1 .. Len(rowProgress) : (rowProgress \o f)[i] = rowProgress[i]
        /\ \A i \in 1 .. n : (rowProgress \o f)[Len(rowProgress) + i] = f[i]
    BY <2>1, ConcatFacts
  <2> QED
    BY <1>3, <2>2 DEF T
<1>8. ASSUME NEW i \in 1 .. Len(rows'), rows'[i].length > 0
      PROVE  rowProgress'[i] = [episode |-> rows'[i].episode, step |-> rows'[i].length]
  <2>1. CASE i <= Len(rows)
    <3>1. i \in 1 .. Len(rows) /\ i \in 1 .. Len(rowProgress)
      BY <1>1, <1>2, <2>1
    <3>2. rows'[i] = rows[i] /\ rowProgress'[i] = rowProgress[i]
      BY <1>1, <1>7, <3>1
    <3>3. rows[i].length > 0
          => rowProgress[i] = [episode |-> rows[i].episode, step |-> rows[i].length]
      BY <3>1 DEF RecordingInv, SteppedRowsCarryOwnProgress
    <3> QED
      BY <1>8, <3>2, <3>3
  <2>2. CASE i > Len(rows)
    <3>1. PICK k \in 1 .. n : i = Len(rows) + k
      <4>1. i - Len(rows) \in 1 .. n /\ i = Len(rows) + (i - Len(rows))
        BY <1>1, <2>2
      <4> QED
        BY <4>1
    <3>2. /\ Followed(order[k])
          /\ rows'[i].episode = GetEpisodeIndex(order[k])
          /\ rows'[i].length = episodeLength[order[k]]
          /\ rowProgress'[i] = ProgressOf(order[k])
      BY <1>2, <1>4, <1>7, <3>1
    <3>3. snapshot # Nothing
          /\ snapshot[order[k]] = [episode |-> GetEpisodeIndex(order[k]),
                                   step |-> episodeLength[order[k]]]
      BY <1>8, <3>2 DEF Followed
    <3> QED
      BY <3>2, <3>3 DEF ProgressOf
  <2>3. i <= Len(rows) \/ i > Len(rows)
    BY <1>1
  <2> QED
    BY <2>1, <2>2, <2>3
<1>9. Len(rowProgress') = Len(rows')
  BY <1>1, <1>2, <1>7
<1> QED
  BY <1>7, <1>8, <1>9 DEF SteppedRowsCarryOwnProgress

LEMMA NewExports ==
    ASSUME RecordingInv, FinishEpisodes \/ RecordingRaises, ExportEpisodes
    PROVE  /\ exported' \in Seq(Demos)
           /\ FinishEpisodes => DatasetMatchesRows'
<1> DEFINE ids == Finishing(requested)
<1>1. /\ phase = "resetting" /\ failure = "none" /\ TypeOK /\ CallInProgress /\ FollowInv
      /\ exported \in Seq(Demos)
      /\ FinishEpisodes => Len(exported) = Len(rows)
  BY NewRows DEF RecordingInv, IInv, FollowInv, RecordingTypeOK, DatasetMatchesRows
<1>2. ids \in SUBSET Envs /\ ids \subseteq active
  BY <1>1 DEF Finishing, TypeOK
<1>3. PICK exports \in SortedIds(ids) : exported' = exported \o Exports(exports)
  BY DEF ExportEpisodes, ExportedEnvs
<1> DEFINE n == Cardinality(ids)
<1>4. /\ n \in Nat /\ DOMAIN exports = 1 .. n
      /\ \A i \in 1 .. n : exports[i] \in ids
      /\ IdsOf(exports) = ids
  BY <1>2, SortedIdsEnumerate
<1> HIDE DEF n
<1>5. ASSUME NEW i \in 1 .. n
      PROVE  /\ Exports(exports)[i] = [env |-> exports[i],
                                       episode |-> GetEpisodeIndex(exports[i]),
                                       steps |-> episodeLength[exports[i]],
                                       initials |-> 1]
             /\ Exports(exports)[i] \in Demos
  <2>1. exports[i] \in active /\ exports[i] \in Envs
    BY <1>2, <1>4
  <2>2. trajectory[exports[i]] = [steps |-> episodeLength[exports[i]], initials |-> 1]
    BY <1>1, <2>1 DEF FollowInv, RunningAreFollowed, Followed, InitialsAt
  <2>3. GetEpisodeIndex(exports[i]) \in Nat /\ episodeLength[exports[i]] \in Nat
    BY <1>1, <2>1, BoundsAssumption DEF GetEpisodeIndex, TypeOK
  <2> QED
    BY <1>4, <2>1, <2>2, <2>3 DEF Exports, Demos
<1>6. Exports(exports) \in [1 .. n -> Demos]
  BY <1>4, <1>5 DEF Exports
<1>7. /\ exported' \in Seq(Demos) /\ Len(exported) \in Nat
      /\ Len(exported') = Len(exported) + n
      /\ \A i \in 1 .. Len(exported) : exported'[i] = exported[i]
      /\ \A i \in 1 .. n : exported'[Len(exported) + i] = Exports(exports)[i]
  <2>1. exported \in Seq(Demos) /\ n \in Nat
    BY <1>1, <1>4
  <2>2. /\ exported \o Exports(exports) \in Seq(Demos) /\ Len(exported) \in Nat
        /\ Len(exported \o Exports(exports)) = Len(exported) + n
        /\ \A i \in 1 .. Len(exported) : (exported \o Exports(exports))[i] = exported[i]
        /\ \A i \in 1 .. n :
               (exported \o Exports(exports))[Len(exported) + i] = Exports(exports)[i]
    BY <1>6, <2>1, ConcatFacts
  <2> QED
    BY <1>3, <2>2
<1>8. ASSUME FinishEpisodes PROVE DatasetMatchesRows'
  <2>1. PICK k \in Nat, order \in [1 .. Cardinality(ids) -> ids] :
            /\ k = n
            /\ Len(rows) \in Nat /\ Len(rows') = Len(rows) + k
            /\ \A i \in 1 .. Len(rows) : rows'[i] = rows[i]
            /\ \A i \in 1 .. k : order[i] \in ids
                                 /\ rows'[Len(rows) + i] = EpisodeRow(order[i])
    BY <1>8, NewRows DEF RecordingInv, n
  <2>2. Len(rows) \in Nat /\ Len(rows') = Len(rows) + n /\ Len(exported) = Len(rows)
    BY <1>1, <1>8, <2>1
  <2>3. ASSUME NEW i \in 1 .. Len(rows')
        PROVE  \E j \in 1 .. Len(exported') :
                   exported'[j] = [env |-> rows'[i].env, episode |-> rows'[i].episode,
                                   steps |-> rows'[i].length, initials |-> 1]
    <3>1. CASE i <= Len(rows)
      <4>1. i \in 1 .. Len(rows) /\ rows'[i] = rows[i]
        BY <2>1, <2>2, <3>1
      <4>2. PICK j \in 1 .. Len(exported) :
                exported[j] = [env |-> rows[i].env, episode |-> rows[i].episode,
                               steps |-> rows[i].length, initials |-> 1]
        BY <1>1, <4>1 DEF RecordingInv, DatasetMatchesRows
      <4>3. j \in 1 .. Len(exported') /\ exported'[j] = exported[j]
        BY <1>4, <1>7
      <4> QED
        BY <4>1, <4>2, <4>3
    <3>2. CASE i > Len(rows)
      <4>1. PICK m \in 1 .. n : i = Len(rows) + m
        <5>1. i - Len(rows) \in 1 .. n /\ i = Len(rows) + (i - Len(rows))
          BY <1>4, <2>2, <3>2
        <5> QED
          BY <5>1
      <4>2. order[m] \in ids /\ rows'[i] = EpisodeRow(order[m])
        BY <2>1, <4>1
      <4>3. PICK j \in 1 .. n : exports[j] = order[m]
        BY <1>4, <4>2 DEF IdsOf
      <4>4. exported'[Len(exported) + j] = Exports(exports)[j]
            /\ Len(exported) + j \in 1 .. Len(exported')
        BY <1>4, <1>7, <4>3
      <4>5. Exports(exports)[j] = [env |-> rows'[i].env, episode |-> rows'[i].episode,
                                   steps |-> rows'[i].length, initials |-> 1]
        BY <1>5, <4>2, <4>3 DEF EpisodeRow
      <4> QED
        BY <4>4, <4>5
    <3> QED
      BY <2>2, <3>1, <3>2
  <2>4. Len(exported') = Len(rows')
    BY <1>7, <2>2
  <2> QED
    BY <2>3, <2>4 DEF DatasetMatchesRows
<1> QED
  BY <1>7, <1>8

LEMMA KeptRecords ==
    ASSUME RecordingInv, UNCHANGED <<rows, exported, rowProgress>>,
           failure' # "recording" => failure # "recording"
    PROVE  DatasetMatchesRows' /\ SteppedRowsCarryOwnProgress'
BY DEF RecordingInv, DatasetMatchesRows, SteppedRowsCarryOwnProgress

LEMMA RecordingStepInv == RecordingInv /\ [RecordingNext]_recordedVars => RecordingInv'
<1> SUFFICES ASSUME RecordingInv, [RecordingNext]_recordedVars PROVE RecordingInv'
  OBVIOUS
<1>1. IInv'
  BY RecordingDrivesTheEnv, StepInductive DEF RecordingInv
<1> DEFINE Rest == FollowInv /\ DatasetMatchesRows /\ SteppedRowsCarryOwnProgress
<1> SUFFICES Rest'
  BY <1>1 DEF RecordingInv
<1>2. IInv /\ FollowInv
  BY DEF RecordingInv
<1>3. CASE RecordingBuild
  BY <1>3, BuildFollows
<1>4. ASSUME UNCHANGED recordingVars,
             \/ ConfigureEpisodeLimit
             \/ \E ids \in SUBSET Envs : Reset(ids)
             \/ NothingStarts
             \/ UNCHANGED vars
      PROVE  Rest'
  <2>1. UNCHANGED <<rows, exported, rowProgress, failure>>
    BY <1>4 DEF recordingVars, ConfigureEpisodeLimit, Reset, NothingStarts, vars, callVars
  <2> QED
    BY <1>2, <1>4, <2>1, QuietFollows, KeptRecords
<1>5. CASE \E ids \in (SUBSET Envs) \ {{}} : Reset(ids) /\ UNCHANGED recordingVars
  BY <1>4, <1>5
<1>6. CASE \E done \in SUBSET Envs : RecordingStep(done)
  <2>1. UNCHANGED <<rows, exported, rowProgress, failure>>
    BY <1>6 DEF RecordingStep, Step
  <2> QED
    BY <1>2, <1>6, <2>1, StepFollows, KeptRecords
<1>7. CASE QueryProgress
  BY <1>2, <1>4, <1>7, QueryIsQuiet DEF recordedVars
<1>8. CASE RecordingFinish
  <2>1. RecordingTypeOK'
    BY <1>8, NewProgress, NewExports
    DEF RecordingFinish, RecordingInv, FollowInv, RecordingTypeOK
  <2>2. DatasetMatchesRows' /\ SteppedRowsCarryOwnProgress'
    BY <1>8, NewProgress, NewExports DEF RecordingFinish
  <2> QED
    BY <1>2, <1>8, <2>1, <2>2, FinishFollows DEF RecordingFinish
<1>9. CASE RecordingFails
  <2>1. RecordingTypeOK'
    BY <1>9, NewProgress, NewExports
    DEF RecordingFails, RecordingInv, FollowInv, RecordingTypeOK
  <2>2. SteppedRowsCarryOwnProgress'
    BY <1>9, NewProgress DEF RecordingFails
  <2>3. DatasetMatchesRows'
    BY <1>9 DEF RecordingFails, RecordingRaises, DatasetMatchesRows
  <2> QED
    BY <1>2, <1>9, <2>1, <2>2, <2>3, FinishFollows DEF RecordingFails
<1>10. CASE RecordingStart
  <2>1. UNCHANGED <<rows, exported, rowProgress>> /\ failure # "recording"
    BY <1>2, <1>10 DEF RecordingStart, StartEpisodes, IInv, CallInProgress
  <2> QED
    BY <1>2, <1>10, <2>1, StartFollows, KeptRecords
<1>11. CASE ResetEventRaises /\ UNCHANGED recordingVars
  <2>1. UNCHANGED <<rows, exported, rowProgress>> /\ failure # "recording"
    BY <1>2, <1>11 DEF ResetEventRaises, recordingVars, IInv, CallInProgress
  <2> QED
    BY <1>2, <1>11, <2>1, RaisesFollows, KeptRecords
<1>12. CASE RecordingReturn
  <2>1. UNCHANGED <<rows, exported, rowProgress, failure>>
    BY <1>12 DEF RecordingReturn, Return
  <2> QED
    BY <1>2, <1>12, <2>1, ReturnFollows, KeptRecords
<1>13. CASE UNCHANGED recordedVars
  BY <1>4, <1>13 DEF recordedVars
<1> QED
  BY <1>3, <1>4, <1>5, <1>6, <1>7, <1>8, <1>9, <1>10, <1>11, <1>12, <1>13 DEF RecordingNext

LEMMA RecordingInvariant == RecordingSpec => []RecordingInv
BY RecordingInitial, RecordingStepInv, PTL DEF RecordingSpec

(* The tracker sees each step of an episode once, rows carry the progress  *)
(* at the end of their own episode, and no rest pose outlives its episode: *)
(* for any number of environments and any order of resets and queries.     *)
THEOREM ProgressIsOfTheEpisode == RecordingSpec => []ProgressFollowsEpisodes
<1>1. RecordingInv => ProgressFollowsEpisodes
  BY DEF RecordingInv, FollowInv, TrackerInStep, RunningAreFollowed, Followed,
         ProgressFollowsEpisodes, TrackerFollowsEpisodes, RestPosesAreOfTheEpisode
<1> QED
  BY <1>1, RecordingInvariant, PTL

(* The dataset holds one demo per row, of the same episode and length and  *)
(* with one initial state, unless a recorder raised.                       *)
THEOREM DemosAreTheRows == RecordingSpec => []DatasetMatchesRows
<1>1. RecordingInv => DatasetMatchesRows
  BY DEF RecordingInv
<1> QED
  BY <1>1, RecordingInvariant, PTL

-----------------------------------------------------------------------------
(* The videos.  A clip that is open belongs to the running episode of its  *)
(* environment, within a step to the one the step ends; its frames are as  *)
(* many as the steps, or one more.                                         *)

VideosTypeOK ==
    /\ encoder \in [Envs -> Clips \cup {Nothing}]
    /\ \A e \in Envs : encoder[e] # Nothing => encoder[e].env = e
    /\ clips \subseteq Clips
    /\ bypassed \subseteq Envs
    /\ closed => \A e \in Envs : encoder[e] = Nothing

(* The environments whose episodes a call ends are known from its arguments. *)
CallShape ==
    /\ phase \in {"idle", "resetting"} => finishing = {}
    /\ phase = "idle" \/ ~ stepping => activeBefore = {}
    /\ phase = "resetting" /\ stepping => activeBefore = active
    /\ phase \in {"starting", "returning"} => finishing \subseteq requested
    /\ phase \in {"starting", "returning"} /\ stepping => finishing = requested \cap activeBefore

(* The open clip of an environment, if any, shows an episode k in n frames *)
(* or in one more.                                                         *)
Opens(e, k, n) ==
    IF encoder[e] = Nothing THEN n = 0
    ELSE /\ encoder[e].episode = k
         /\ Len(encoder[e].frames) \in {n, n + 1} \ {0}
         /\ \A i \in 1 .. Len(encoder[e].frames) : encoder[e].frames[i] = k

IsLastRow(e, i) == i \in RowsOf(e) /\ rows[i].episode = Unfinished(e) - 1

AtRest(e) ==
    IF e \in active THEN Opens(e, episodeIndex[e], episodeLength[e]) ELSE encoder[e] = Nothing

(* A reset leaves the open clips alone. *)
InReset(e) ==
    /\ e \notin finishing => AtRest(e)
    /\ e \in finishing =>
           /\ e \in active => episodeLength[e] = 0
           /\ encoder[e] = Nothing => \E i \in RowsOf(e) : IsLastRow(e, i) /\ rows[i].length = 0

(* A step is a frame ahead of the open clips, and a row may be.            *)
InStep(e) ==
    /\ e \notin activeBefore => encoder[e] = Nothing
    /\ e \notin activeBefore \/ e \in finishing => (e \in active => episodeLength[e] = 0)
    /\ e \in activeBefore \ finishing =>
           e \in active /\ episodeLength[e] > 0 /\ Opens(e, episodeIndex[e], episodeLength[e] - 1)
    /\ e \in finishing =>
           \E i \in RowsOf(e) :
               /\ IsLastRow(e, i) /\ rows[i].length > 0
               /\ Opens(e, rows[i].episode, rows[i].length - 1)

Recorded(e) ==
    /\ phase = "idle" => AtRest(e)
    /\ phase # "idle" /\ ~ stepping => InReset(e)
    /\ phase # "idle" /\ stepping => InStep(e)

EncodersFollow == ~ closed /\ phase # "failed" => \A e \in Envs \ bypassed : Recorded(e)

(* The first episode of an environment whose clip may not be finalised.    *)
Unfinalised(e) == Unfinished(e) - (IF e \in finishing THEN 1 ELSE 0)

ClipsHaveRows ==
    \A c \in clips : c.env \notin bypassed =>
        /\ c.episode < Unfinalised(c.env)
        /\ \E i \in 1 .. Len(rows) : Shows(c, rows[i])

OneClipEach ==
    \A c, d \in clips :
        c.env \notin bypassed /\ c.env = d.env /\ c.episode = d.episode => c = d

RowsHaveClips ==
    phase # "failed" =>
        \A e \in Envs \ bypassed : \A i \in RowsOf(e) :
            rows[i].length > 1 /\ rows[i].episode < Unfinalised(e)
            => \E c \in clips : Shows(c, rows[i])

VideosInv ==
    /\ RecordingInv /\ OneRowPerFinishedEpisode
    /\ VideosTypeOK /\ CallShape /\ EncodersFollow
    /\ ClipsHaveRows /\ OneClipEach /\ RowsHaveClips

LEMMA VideosDriveTheRecorders == [VideosNext]_everything => [RecordingNext]_recordedVars
<1> SUFFICES ASSUME VideosNext \/ UNCHANGED everything
             PROVE  RecordingNext \/ UNCHANGED recordedVars
  OBVIOUS
<1>1. CASE VideosBuild BY <1>1 DEF VideosBuild, RecordingNext
<1>2. CASE InnerCalls BY <1>2 DEF InnerCalls, RecordingNext
<1>3. CASE StepReturns \/ ResetReturns BY <1>3 DEF StepReturns, ResetReturns, RecordingNext
<1>4. CASE CloseVideos BY <1>4 DEF CloseVideos
<1>5. CASE UNCHANGED everything BY <1>5 DEF everything
<1> QED
  BY <1>1, <1>2, <1>3, <1>4, <1>5 DEF VideosNext

LEMMA VideosInitial == VideosInit => VideosInv
<1> SUFFICES ASSUME VideosInit PROVE VideosInv
  OBVIOUS
<1>1. RecordingInv
  BY RecordingInitial DEF VideosInit
<1>2. /\ rows = <<>> /\ active = {} /\ phase = "idle" /\ finishing = {} /\ activeBefore = {}
      /\ ~ stepping /\ episodeIndex = [e \in Envs |-> -1]
      /\ encoder = [e \in Envs |-> Nothing] /\ clips = {} /\ bypassed = {}
  BY DEF VideosInit, RecordingInit, Init
<1>3. OneRowPerFinishedEpisode
  BY <1>2, InitOneRow
<1>4. VideosTypeOK /\ CallShape
  BY <1>2 DEF VideosTypeOK, CallShape
<1>5. EncodersFollow
  BY <1>2 DEF EncodersFollow, Recorded, AtRest
<1>6. ClipsHaveRows /\ OneClipEach /\ RowsHaveClips
  BY <1>2 DEF ClipsHaveRows, OneClipEach, RowsHaveClips, RowsOf
<1> QED
  BY <1>1, <1>3, <1>4, <1>5, <1>6 DEF VideosInv

LEMMA BuildVideos ==
    ASSUME VideosBuild
    PROVE  /\ VideosTypeOK' /\ CallShape' /\ EncodersFollow'
           /\ ClipsHaveRows' /\ OneClipEach' /\ RowsHaveClips'
<1>1. /\ rows' = <<>> /\ active' = {} /\ phase' = "idle" /\ finishing' = {} /\ activeBefore' = {}
      /\ encoder' = [e \in Envs |-> Nothing] /\ clips' = {} /\ bypassed' = {}
  BY DEF VideosBuild, RecordingBuild, Build
<1>2. VideosTypeOK' /\ CallShape'
  BY <1>1 DEF VideosTypeOK, CallShape
<1>3. EncodersFollow'
  BY <1>1 DEF EncodersFollow, Recorded, AtRest
<1>4. ClipsHaveRows' /\ OneClipEach' /\ RowsHaveClips'
  BY <1>1 DEF ClipsHaveRows, OneClipEach, RowsHaveClips, RowsOf
<1> QED
  BY <1>2, <1>3, <1>4

(* The shape of a call, handler by handler. *)
LEMMA CallShapeInductive ==
    ASSUME IInv, CallShape, [Next]_vars
    PROVE  CallShape'
<1>1. CASE Build BY <1>1 DEF Build, CallShape
<1>2. CASE ConfigureEpisodeLimit BY <1>2 DEF ConfigureEpisodeLimit, callVars, CallShape
<1>3. CASE \E ids \in (SUBSET Envs) \ {{}} : Reset(ids) BY <1>3 DEF Reset, CallShape
<1>4. CASE \E done \in SUBSET Envs : Step(done)
  <2>1. PICK done \in SUBSET Envs : Step(done)
    BY <1>4
  <2>2. /\ phase = "idle" /\ finishing' = finishing /\ activeBefore' = active /\ active' = active
        /\ requested' = done /\ stepping' = TRUE
        /\ phase' = IF done = {} THEN "returning" ELSE "resetting"
    BY <2>1 DEF Step
  <2> QED
    BY <2>2 DEF CallShape
<1>5. CASE FinishEpisodes
  <2>1. /\ phase = "resetting" /\ finishing' = requested \cap active
        /\ requested' = requested /\ stepping' = stepping /\ activeBefore' = activeBefore
        /\ phase' \in {"starting", "failed"}
    BY <1>5 DEF FinishEpisodes, Finishing
  <2> QED
    BY <2>1 DEF CallShape
<1>6. CASE RecordingRaises BY <1>6 DEF RecordingRaises, CallShape, envVars
<1>7. CASE NothingStarts BY <1>7 DEF NothingStarts, CallShape, envVars
<1>8. CASE StartEpisodes
  <2>1. /\ phase = "starting" /\ phase' \in {"failed", "returning"}
        /\ UNCHANGED <<requested, finishing, stepping, activeBefore>>
    BY <1>8 DEF StartEpisodes
  <2> QED
    BY <2>1 DEF CallShape
<1>9. CASE ResetEventRaises
  <2>1. /\ phase = "starting" /\ phase' = "failed"
        /\ UNCHANGED <<requested, finishing, stepping, activeBefore>>
    BY <1>9 DEF ResetEventRaises
  <2> QED
    BY <2>1 DEF CallShape
<1>10. CASE Return BY <1>10 DEF Return, CallShape
<1>11. CASE UNCHANGED vars BY <1>11 DEF vars, envVars, callVars, CallShape
<1> QED
  BY <1>1, <1>2, <1>3, <1>4, <1>5, <1>6, <1>7, <1>8, <1>9, <1>10, <1>11 DEF Next

-----------------------------------------------------------------------------
(* The handlers the recorder does not see.                                 *)

Inside ==
    \/ ConfigureEpisodeLimit
    \/ \E ids \in (SUBSET Envs) \ {{}} : Reset(ids)
    \/ \E done \in SUBSET Envs : Step(done)
    \/ FinishEpisodes
    \/ RecordingRaises
    \/ NothingStarts
    \/ StartEpisodes
    \/ ResetEventRaises
    \/ UNCHANGED vars

LEMMA InnerCallsAreInside ==
    ASSUME FollowInv, InnerCalls
    PROVE  Inside /\ phase # "failed"
<1>1. CASE ConfigureEpisodeLimit BY <1>1 DEF Inside, ConfigureEpisodeLimit
<1>2. CASE \E ids \in (SUBSET Envs) \ {{}} : Reset(ids) BY <1>2 DEF Inside, Reset
<1>3. CASE \E done \in SUBSET Envs : RecordingStep(done)
  BY <1>3 DEF Inside, RecordingStep, Step
<1>4. CASE QueryProgress
  BY <1>4, QueryIsQuiet DEF Inside, recordedVars, QueryProgress
<1>5. CASE RecordingFinish BY <1>5 DEF Inside, RecordingFinish, FinishEpisodes
<1>6. CASE RecordingFails BY <1>6 DEF Inside, RecordingFails, RecordingRaises
<1>7. CASE NothingStarts BY <1>7 DEF Inside, NothingStarts
<1>8. CASE RecordingStart BY <1>8 DEF Inside, RecordingStart, StartEpisodes
<1>9. CASE ResetEventRaises BY <1>9 DEF Inside, ResetEventRaises
<1> QED
  BY <1>1, <1>2, <1>3, <1>4, <1>5, <1>6, <1>7, <1>8, <1>9 DEF InnerCalls

LEMMA BeginUnfinished ==
    ASSUME IInv, phase = "starting", NEW sorted \in SortedIds(Candidates),
           BeginEpisodes(StartOrder(sorted)), limit' = limit, completed' = completed,
           finishing' = finishing, NEW e \in Envs
    PROVE  Unfinished(e)' = Unfinished(e) /\ Unfinalised(e)' = Unfinalised(e)
<1> DEFINE ids == IdsOf(StartOrder(sorted))
<1>1. ids \cap active = {} /\ active' = active \cup ids
  BY BeginFacts
<1>2. episodeIndex' = [d \in Envs |-> episodeIndex[d] + (IF d \in ids THEN 1 ELSE 0)]
  BY DEF BeginEpisodes
<1> HIDE DEF ids
<1>3. episodeIndex[e] \in Int
  BY DEF IInv, TypeOK
<1> QED
  BY <1>1, <1>2, <1>3 DEF Unfinished, Unfinalised

(* An episode ends, for the clips, when the call that ends it returns.     *)
LEMMA InsideUnfinalised ==
    ASSUME IInv, CallShape, Inside, NEW e \in Envs
    PROVE  Unfinalised(e)' = Unfinalised(e)
<1>1. CASE FinishEpisodes
  <2>1. /\ finishing = {} /\ finishing' = requested \cap active
        /\ active' = active \ finishing' /\ episodeIndex' = episodeIndex
    BY <1>1 DEF FinishEpisodes, Finishing, CallShape
  <2>2. episodeIndex[e] \in Int
    BY DEF IInv, TypeOK
  <2> QED
    BY <2>1, <2>2 DEF Unfinished, Unfinalised
<1>2. CASE StartEpisodes
  BY <1>2, BeginUnfinished DEF StartEpisodes
<1>3. CASE ResetEventRaises
  BY <1>3, BeginUnfinished DEF ResetEventRaises
<1>4. ASSUME UNCHANGED <<active, episodeIndex, finishing>>
      PROVE  Unfinalised(e)' = Unfinalised(e)
  BY <1>4 DEF Unfinished, Unfinalised
<1>5. CASE ConfigureEpisodeLimit BY <1>4, <1>5 DEF ConfigureEpisodeLimit, callVars
<1>6. CASE \E ids \in (SUBSET Envs) \ {{}} : Reset(ids) BY <1>4, <1>6 DEF Reset
<1>7. CASE \E done \in SUBSET Envs : Step(done) BY <1>4, <1>7 DEF Step
<1>8. CASE RecordingRaises BY <1>4, <1>8 DEF RecordingRaises, envVars
<1>9. CASE NothingStarts BY <1>4, <1>9 DEF NothingStarts, envVars
<1>10. CASE UNCHANGED vars BY <1>4, <1>10 DEF vars, envVars, callVars
<1> QED
  BY <1>1, <1>2, <1>3, <1>5, <1>6, <1>7, <1>8, <1>9, <1>10 DEF Inside

(* A row is written before its clip is finalised.                          *)
LEMMA InsideRows ==
    ASSUME IInv, CallShape, Inside
    PROVE  /\ Len(rows) \in Nat /\ Len(rows') \in Nat /\ Len(rows) <= Len(rows')
           /\ \A i \in 1 .. Len(rows) : rows'[i] = rows[i]
           /\ \A i \in 1 .. Len(rows') :
                  i > Len(rows) => /\ rows'[i].env \in Envs
                                   /\ rows'[i].episode = Unfinalised(rows'[i].env)
<1>1. CASE FinishEpisodes \/ RecordingRaises
  <2>1. PICK n \in Nat, order \in [1 .. Cardinality(Finishing(requested)) -> Finishing(requested)] :
            /\ Len(rows) \in Nat /\ Len(rows') = Len(rows) + n
            /\ \A i \in 1 .. Len(rows) : rows'[i] = rows[i]
            /\ \A i \in 1 .. n : order[i] \in Finishing(requested)
                                 /\ rows'[Len(rows) + i] = EpisodeRow(order[i])
    BY <1>1, NewRows
  <2>2. ASSUME NEW i \in 1 .. Len(rows'), i > Len(rows)
        PROVE  rows'[i].env \in Envs /\ rows'[i].episode = Unfinalised(rows'[i].env)
    <3>1. PICK k \in 1 .. n : i = Len(rows) + k
      <4>1. i - Len(rows) \in 1 .. n /\ i = Len(rows) + (i - Len(rows))
        BY <2>1, <2>2
      <4> QED
        BY <4>1
    <3>2. PICK e \in Finishing(requested) : rows'[i] = EpisodeRow(e)
      BY <2>1, <3>1
    <3>3. /\ e \in active /\ e \in Envs /\ episodeIndex[e] \in Nat /\ finishing = {}
      BY <1>1, <3>2 DEF Finishing, IInv, TypeOK, CallInProgress, CallShape, FinishEpisodes,
                        RecordingRaises
    <3>4. Unfinalised(e) = episodeIndex[e]
      BY <3>3 DEF Unfinalised, Unfinished
    <3> QED
      BY <3>2, <3>3, <3>4 DEF EpisodeRow, GetEpisodeIndex
  <2> QED
    BY <2>1, <2>2
<1>2. ASSUME rows' = rows
      PROVE  /\ Len(rows) \in Nat /\ Len(rows') \in Nat /\ Len(rows) <= Len(rows')
             /\ \A i \in 1 .. Len(rows) : rows'[i] = rows[i]
             /\ \A i \in 1 .. Len(rows') : ~ (i > Len(rows))
  <2>1. Len(rows) \in Nat
    BY DEF IInv, TypeOK
  <2> QED
    BY <1>2, <2>1
<1>3. CASE ~ (FinishEpisodes \/ RecordingRaises)
  <2>1. rows' = rows
    BY <1>3 DEF Inside, ConfigureEpisodeLimit, Reset, Step, NothingStarts, StartEpisodes,
                ResetEventRaises, vars, envVars, callVars
  <2> QED
    BY <1>2, <2>1
<1> QED
  BY <1>1, <1>3

LEMMA InsideClips ==
    ASSUME VideosInv, Inside, phase # "failed", UNCHANGED videoVars
    PROVE  VideosTypeOK' /\ ClipsHaveRows' /\ OneClipEach' /\ RowsHaveClips'
<1>1. /\ Len(rows) \in Nat /\ Len(rows') \in Nat /\ Len(rows) <= Len(rows')
      /\ \A i \in 1 .. Len(rows) : i \in 1 .. Len(rows') /\ rows'[i] = rows[i]
      /\ \A i \in 1 .. Len(rows') :
             i > Len(rows) => /\ rows'[i].env \in Envs
                              /\ rows'[i].episode = Unfinalised(rows'[i].env)
  <2>1. IInv /\ CallShape
    BY DEF VideosInv, RecordingInv
  <2> QED
    BY <2>1, InsideRows
<1>2. \A e \in Envs : Unfinalised(e)' = Unfinalised(e) /\ Unfinalised(e) \in Int
  <2>1. \A e \in Envs : Unfinalised(e)' = Unfinalised(e)
    BY InsideUnfinalised DEF VideosInv, RecordingInv
  <2>2. \A e \in Envs : Unfinished(e) \in Nat
    BY UnfinishedType DEF VideosInv, RecordingInv, IInv
  <2> QED
    BY <2>1, <2>2 DEF Unfinalised
<1>3. encoder' = encoder /\ clips' = clips /\ bypassed' = bypassed /\ closed' = closed
      /\ clips \subseteq Clips
  BY DEF videoVars, VideosInv, VideosTypeOK
<1>4. VideosTypeOK'
  BY <1>3 DEF VideosInv, VideosTypeOK
<1>5. ClipsHaveRows'
  <2> SUFFICES ASSUME NEW c \in clips, c.env \notin bypassed
               PROVE  /\ c.episode < Unfinalised(c.env)'
                      /\ \E i \in 1 .. Len(rows') : Shows(c, rows'[i])
    BY <1>3 DEF ClipsHaveRows
  <2>1. c.env \in Envs
    BY <1>3 DEF Clips
  <2>2. PICK i \in 1 .. Len(rows) : Shows(c, rows[i])
    BY DEF VideosInv, ClipsHaveRows
  <2>3. i \in 1 .. Len(rows') /\ Shows(c, rows'[i])
    BY <1>1, <2>2
  <2>4. c.episode < Unfinalised(c.env)
    BY DEF VideosInv, ClipsHaveRows
  <2> QED
    BY <1>2, <2>1, <2>3, <2>4
<1>6. OneClipEach'
  BY <1>3 DEF VideosInv, OneClipEach
<1>7. RowsHaveClips'
  <2> SUFFICES ASSUME NEW e \in Envs \ bypassed, NEW i \in 1 .. Len(rows'),
                      rows'[i].env = e, rows'[i].length > 1,
                      rows'[i].episode < Unfinalised(e)'
               PROVE  \E c \in clips : Shows(c, rows'[i])
    BY <1>3 DEF RowsHaveClips, RowsOf
  <2>1. i <= Len(rows)
    <3>1. i > Len(rows) => rows'[i].episode = Unfinalised(e)
      BY <1>1
    <3>2. rows'[i].episode < Unfinalised(e) /\ Unfinalised(e) \in Int
      BY <1>2
    <3> QED
      BY <1>1, <3>1, <3>2
  <2>2. i \in 1 .. Len(rows) /\ rows'[i] = rows[i]
    BY <1>1, <2>1
  <2>3. i \in RowsOf(e) /\ rows[i].length > 1 /\ rows[i].episode < Unfinalised(e)
    BY <1>2, <2>2 DEF RowsOf
  <2> QED
    BY <2>2, <2>3 DEF VideosInv, RowsHaveClips
<1> QED
  BY <1>4, <1>5, <1>6, <1>7

-----------------------------------------------------------------------------
(* The open clips between the handlers.                                    *)

(* The rows of the episodes that finish become the last ones of their      *)
(* environments.                                                           *)
LEMMA FinishedRows ==
    ASSUME IInv, FinishEpisodes, NEW e \in finishing'
    PROVE  \E i \in RowsOf(e)' : /\ rows'[i].episode = Unfinished(e)' - 1
                                 /\ rows'[i].episode = episodeIndex[e]
                                 /\ rows'[i].length = episodeLength[e]
<1>1. /\ finishing' = requested \cap active /\ active' = active \ finishing'
      /\ episodeIndex' = episodeIndex
      /\ finishing' \in SUBSET Envs /\ TypeOK
  BY DEF FinishEpisodes, Finishing, IInv, TypeOK
<1>2. PICK order \in SortedIds(finishing') :
          rows' = rows \o [i \in DOMAIN order |-> EpisodeRow(order[i])]
  BY DEF FinishEpisodes
<1> DEFINE n == Cardinality(finishing')
<1>3. n \in Nat /\ n \in 0 .. n /\ DOMAIN order = 1 .. n /\ IdsOf(order) = finishing'
  BY <1>1, SortedIdsEnumerate
<1>4. rows' = rows \o [i \in 1 .. n |-> EpisodeRow(order[i])]
  BY <1>2, <1>3
<1>5. /\ Len(rows) \in Nat /\ Len(rows') = Len(rows) + n
      /\ \A i \in 1 .. n : rows'[Len(rows) + i] = EpisodeRow(order[i])
  BY <1>1, <1>3, <1>4, AppendedBlock
<1>6. PICK k \in 1 .. n : order[k] = e
  BY <1>3 DEF IdsOf
<1> DEFINE i == Len(rows) + k
<1>7. i \in 1 .. Len(rows') /\ rows'[i] = EpisodeRow(e)
  BY <1>3, <1>5, <1>6
<1>8. e \in Envs /\ episodeIndex[e] \in Nat
  BY <1>1 DEF IInv, TypeOK, CallInProgress
<1>9. /\ rows'[i].env = e /\ rows'[i].episode = episodeIndex[e]
      /\ rows'[i].length = episodeLength[e]
  BY <1>7, <1>8 DEF EpisodeRow, GetEpisodeIndex
<1>10. Unfinished(e)' - 1 = episodeIndex[e]
  BY <1>1, <1>8 DEF Unfinished
<1> HIDE DEF i
<1>11. i \in RowsOf(e)'
  BY <1>7, <1>9 DEF RowsOf
<1> QED
  BY <1>9, <1>10, <1>11

LEMMA FinishEncoders ==
    ASSUME VideosInv, FinishEpisodes, UNCHANGED videoVars
    PROVE  EncodersFollow'
<1>1. /\ phase = "resetting" /\ finishing = {} /\ finishing' = requested \cap active
      /\ active' = active \ finishing'
      /\ UNCHANGED <<episodeIndex, episodeLength, stepping, activeBefore>>
      /\ stepping => activeBefore = active
      /\ UNCHANGED <<encoder, bypassed, closed>>
      /\ phase' # "idle"
  BY DEF FinishEpisodes, Finishing, VideosInv, CallShape, videoVars
<1>2. IInv
  BY DEF VideosInv, RecordingInv
<1> SUFFICES ASSUME ~ closed, NEW e \in Envs \ bypassed PROVE Recorded(e)'
  BY <1>1 DEF EncodersFollow
<1>3. Recorded(e)
  BY <1>1 DEF VideosInv, EncodersFollow
<1>4. episodeLength[e] \in Nat
  BY <1>2, BoundsAssumption DEF IInv, TypeOK
<1>5. CASE stepping
  <2>1. InStep(e)
    BY <1>1, <1>3, <1>5 DEF Recorded
  <2>2. CASE e \in finishing'
    <3>1. /\ e \in active /\ e \in activeBefore /\ episodeLength[e] > 0
          /\ Opens(e, episodeIndex[e], episodeLength[e] - 1)
      BY <1>1, <1>5, <2>1, <2>2 DEF InStep
    <3>2. PICK i \in RowsOf(e)' : /\ rows'[i].episode = Unfinished(e)' - 1
                                  /\ rows'[i].episode = episodeIndex[e]
                                  /\ rows'[i].length = episodeLength[e]
      BY <1>2, <2>2, FinishedRows
    <3>3. /\ IsLastRow(e, i)' /\ rows'[i].length > 0
          /\ Opens(e, rows[i].episode, rows[i].length - 1)'
      BY <1>1, <3>1, <3>2 DEF IsLastRow, Opens
    <3>4. InStep(e)'
      BY <1>1, <2>2, <3>1, <3>2, <3>3 DEF InStep
    <3> QED
      BY <1>1, <1>5, <3>4 DEF Recorded
  <2>3. CASE e \notin finishing'
    <3>1. InStep(e)'
      BY <1>1, <1>5, <2>1, <2>3 DEF InStep, Opens
    <3> QED
      BY <1>1, <1>5, <3>1 DEF Recorded
  <2> QED
    BY <2>2, <2>3
<1>6. CASE ~ stepping
  <2>1. AtRest(e)
    BY <1>1, <1>3, <1>6 DEF Recorded, InReset
  <2>2. CASE e \in finishing'
    <3>1. PICK i \in RowsOf(e)' : /\ rows'[i].episode = Unfinished(e)' - 1
                                  /\ rows'[i].episode = episodeIndex[e]
                                  /\ rows'[i].length = episodeLength[e]
      BY <1>2, <2>2, FinishedRows
    <3>2. IsLastRow(e, i)'
      BY <3>1 DEF IsLastRow
    <3>3. encoder[e] = Nothing => rows'[i].length = 0
      BY <1>1, <2>1, <2>2, <3>1 DEF AtRest, Opens
    <3>4. InReset(e)'
      BY <1>1, <2>2, <3>1, <3>2, <3>3 DEF InReset
    <3> QED
      BY <1>1, <1>6, <3>4 DEF Recorded
  <2>3. CASE e \notin finishing'
    <3>1. AtRest(e)'
      BY <1>1, <2>1, <2>3 DEF AtRest, Opens
    <3>2. InReset(e)'
      BY <2>3, <3>1 DEF InReset
    <3> QED
      BY <1>1, <1>6, <3>2 DEF Recorded
  <2> QED
    BY <2>2, <2>3
<1> QED
  BY <1>5, <1>6

(* A slot that is given an episode had no clip, or that of the one before. *)
LEMMA StartEncoders ==
    ASSUME VideosInv, StartEpisodes, UNCHANGED videoVars
    PROVE  EncodersFollow'
<1>1. /\ phase = "starting" /\ phase' \in {"failed", "returning"}
      /\ UNCHANGED <<rows, finishing, stepping, activeBefore>>
      /\ limit' = limit /\ completed' = completed
      /\ UNCHANGED <<encoder, bypassed, closed>>
  BY DEF StartEpisodes, videoVars
<1>2. IInv
  BY DEF VideosInv, RecordingInv
<1>3. PICK sorted \in SortedIds(Candidates) :
          /\ BeginEpisodes(StartOrder(sorted))
          /\ episodeLength' = [e \in Envs |-> IF e \in IdsOf(StartOrder(sorted))
                                              THEN 0 ELSE episodeLength[e]]
  BY DEF StartEpisodes
<1> DEFINE ids == IdsOf(StartOrder(sorted))
<1>4. /\ ids \cap active = {} /\ active' = active \cup ids
      /\ \A e \in active : episodeIndex'[e] = episodeIndex[e]
  BY <1>1, <1>2, <1>3, BeginFacts
<1>5. \A e \in Envs : Unfinished(e)' = Unfinished(e)
  BY <1>1, <1>2, <1>3, BeginUnfinished
<1>6. episodeLength' = [e \in Envs |-> IF e \in ids THEN 0 ELSE episodeLength[e]]
  BY <1>3
<1> HIDE DEF ids
<1> SUFFICES ASSUME ~ closed, phase' = "returning", NEW e \in Envs \ bypassed
             PROVE  Recorded(e)'
  BY <1>1 DEF EncodersFollow
<1>7. Recorded(e)
  BY <1>1 DEF VideosInv, EncodersFollow
<1>8. RowsOf(e)' = RowsOf(e) /\ \A i : IsLastRow(e, i)' = IsLastRow(e, i)
  BY <1>1, <1>5 DEF RowsOf, IsLastRow
<1>9. /\ e \in ids => e \notin active /\ e \in active' /\ episodeLength'[e] = 0
      /\ e \notin ids => /\ e \in active' <=> e \in active
                         /\ episodeLength'[e] = episodeLength[e]
      /\ e \in active => e \notin ids /\ episodeIndex'[e] = episodeIndex[e]
  BY <1>4, <1>6
<1>10. CASE stepping
  <2>1. InStep(e)
    BY <1>1, <1>7, <1>10 DEF Recorded
  <2>2. e \notin activeBefore => encoder'[e] = Nothing
    BY <1>1, <2>1 DEF InStep
  <2>3. e \notin activeBefore' \/ e \in finishing' => (e \in active' => episodeLength'[e] = 0)
    BY <1>1, <1>9, <2>1 DEF InStep
  <2>4. e \in activeBefore' \ finishing' =>
            /\ e \in active' /\ episodeLength'[e] > 0
            /\ Opens(e, episodeIndex[e], episodeLength[e] - 1)'
    <3>1. SUFFICES ASSUME e \in activeBefore \ finishing
                   PROVE  /\ e \in active' /\ episodeLength'[e] > 0
                          /\ Opens(e, episodeIndex[e], episodeLength[e] - 1)'
      BY <1>1
    <3>2. e \in active /\ episodeLength[e] > 0 /\ Opens(e, episodeIndex[e], episodeLength[e] - 1)
      BY <2>1, <3>1 DEF InStep
    <3>3. episodeLength'[e] = episodeLength[e] /\ episodeIndex'[e] = episodeIndex[e]
          /\ e \in active'
      BY <1>9, <3>2
    <3> QED
      BY <1>1, <3>2, <3>3 DEF Opens
  <2>5. e \in finishing' =>
            \E i \in RowsOf(e)' : /\ IsLastRow(e, i)' /\ rows'[i].length > 0
                                  /\ Opens(e, rows[i].episode, rows[i].length - 1)'
    BY <1>1, <1>8, <2>1 DEF InStep, Opens
  <2>6. InStep(e)'
    BY <1>1, <2>2, <2>3, <2>4, <2>5 DEF InStep
  <2> QED
    BY <1>1, <1>10, <2>6 DEF Recorded
<1>11. CASE ~ stepping
  <2>1. InReset(e)
    BY <1>1, <1>7, <1>11 DEF Recorded
  <2>2. e \notin finishing => AtRest(e)'
    <3> SUFFICES ASSUME AtRest(e) PROVE AtRest(e)'
      BY <2>1 DEF InReset
    <3>1. CASE e \in ids
      BY <1>1, <1>9, <3>1 DEF AtRest, Opens
    <3>2. CASE e \notin ids
      BY <1>1, <1>9, <3>2 DEF AtRest, Opens
    <3> QED
      BY <3>1, <3>2
  <2>3. InReset(e)'
    BY <1>1, <1>8, <1>9, <2>1, <2>2 DEF InReset
  <2> QED
    BY <1>1, <1>11, <2>3 DEF Recorded
<1> QED
  BY <1>10, <1>11

(* Physics puts every running episode a step ahead of its clip.            *)
LEMMA StepEncoders ==
    ASSUME VideosInv, NEW done \in SUBSET Envs, Step(done), UNCHANGED videoVars
    PROVE  EncodersFollow'
<1>1. /\ phase = "idle" /\ phase' # "idle" /\ stepping' /\ activeBefore' = active
      /\ finishing = {} /\ finishing' = {}
      /\ UNCHANGED <<active, episodeIndex, rows>>
      /\ episodeLength' = [e \in Envs |-> Least(episodeLength[e] + 1, MaxEpisodeLength)]
      /\ UNCHANGED <<encoder, bypassed, closed>>
  BY DEF Step, VideosInv, CallShape, videoVars
<1> SUFFICES ASSUME ~ closed, NEW e \in Envs \ bypassed PROVE Recorded(e)'
  BY <1>1 DEF EncodersFollow
<1>2. AtRest(e)
  BY <1>1 DEF VideosInv, EncodersFollow, Recorded
<1>3. MaxEpisodeLength \in Nat /\ episodeLength[e] \in Nat
  BY BoundsAssumption DEF VideosInv, RecordingInv, IInv, TypeOK
<1>4. e \in active => episodeLength[e] < MaxEpisodeLength
  BY <1>1 DEF VideosInv, RecordingInv, FollowInv, RunningAreFollowed, Followed
<1>5. e \in active => episodeLength'[e] = episodeLength[e] + 1
  BY <1>1, <1>3, <1>4 DEF Least
<1>6. e \notin active => encoder'[e] = Nothing
  BY <1>1, <1>2 DEF AtRest
<1>7. e \in active => episodeLength'[e] > 0 /\ Opens(e, episodeIndex[e], episodeLength[e] - 1)'
  BY <1>1, <1>2, <1>3, <1>5 DEF AtRest, Opens
<1>8. InStep(e)'
  BY <1>1, <1>6, <1>7 DEF InStep
<1> QED
  BY <1>1, <1>8 DEF Recorded

LEMMA InsideEncoders ==
    ASSUME VideosInv, Inside, phase # "failed", UNCHANGED videoVars
    PROVE  EncodersFollow'
<1>1. CASE FinishEpisodes BY <1>1, FinishEncoders
<1>2. CASE StartEpisodes BY <1>2, StartEncoders
<1>3. CASE \E done \in SUBSET Envs : Step(done) BY <1>3, StepEncoders
<1>4. CASE RecordingRaises \/ ResetEventRaises
  <2>1. phase' = "failed"
    BY <1>4 DEF RecordingRaises, ResetEventRaises
  <2> QED
    BY <2>1 DEF EncodersFollow
<1>5. ASSUME UNCHANGED <<active, episodeIndex, episodeLength, rows, finishing>>,
             \/ phase = "idle" /\ phase' = "resetting" /\ ~ stepping' /\ finishing = {}
             \/ phase # "idle" /\ phase' # "idle" /\ UNCHANGED <<stepping, activeBefore>>
             \/ UNCHANGED <<phase, stepping, activeBefore>>
      PROVE  EncodersFollow'
  <2>1. UNCHANGED <<encoder, bypassed, closed>>
    BY DEF videoVars
  <2> SUFFICES ASSUME ~ closed, NEW e \in Envs \ bypassed PROVE Recorded(e)'
    BY <2>1 DEF EncodersFollow
  <2>2. Recorded(e)
    BY DEF VideosInv, EncodersFollow
  <2>3. /\ AtRest(e)' = AtRest(e) /\ InReset(e)' = InReset(e)
        /\ activeBefore' = activeBefore => InStep(e)' = InStep(e)
    <3>1. RowsOf(e)' = RowsOf(e) /\ Unfinished(e)' = Unfinished(e)
      BY <1>5 DEF RowsOf, Unfinished
    <3>2. AtRest(e)' = AtRest(e)
      BY <1>5, <2>1 DEF AtRest, Opens
    <3>3. \A i : IsLastRow(e, i)' = IsLastRow(e, i)
      BY <1>5, <3>1 DEF IsLastRow
    <3>4. InReset(e)' = InReset(e)
      BY <1>5, <2>1, <3>1, <3>2, <3>3 DEF InReset
    <3>5. activeBefore' = activeBefore => InStep(e)' = InStep(e)
      BY <1>5, <2>1, <3>1, <3>3 DEF InStep, Opens
    <3> QED
      BY <3>2, <3>4, <3>5
  <2>4. CASE phase = "idle" /\ phase' = "resetting" /\ ~ stepping' /\ finishing = {}
    BY <1>5, <2>2, <2>3, <2>4 DEF Recorded, InReset
  <2>5. CASE phase # "idle" /\ phase' # "idle" /\ UNCHANGED <<stepping, activeBefore>>
    BY <2>2, <2>3, <2>5 DEF Recorded
  <2>6. CASE UNCHANGED <<phase, stepping, activeBefore>>
    BY <2>2, <2>3, <2>6 DEF Recorded
  <2> QED
    BY <1>5, <2>4, <2>5, <2>6
<1>6. CASE ConfigureEpisodeLimit BY <1>5, <1>6 DEF ConfigureEpisodeLimit, callVars
<1>7. CASE \E ids \in (SUBSET Envs) \ {{}} : Reset(ids)
  <2>1. finishing = {}
    BY <1>7 DEF Reset, VideosInv, CallShape
  <2> QED
    BY <1>5, <1>7, <2>1 DEF Reset
<1>8. CASE NothingStarts BY <1>5, <1>8 DEF NothingStarts, envVars
<1>9. CASE UNCHANGED vars BY <1>5, <1>9 DEF vars, envVars, callVars
<1> QED
  BY <1>1, <1>2, <1>3, <1>4, <1>6, <1>7, <1>8, <1>9 DEF Inside

-----------------------------------------------------------------------------
(* What a call leaves behind when it returns.                              *)

LEMMA RowsAreUnique ==
    ASSUME OneRowPerFinishedEpisode, IInv, NEW e \in Envs, NEW i \in RowsOf(e), NEW j \in RowsOf(e),
           rows[i].episode = rows[j].episode
    PROVE  i = j
<1>1. Len(rows) \in Nat /\ i \in 1 .. Len(rows) /\ j \in 1 .. Len(rows)
  BY DEF RowsOf, IInv, TypeOK
<1>2. rows[i] \in Rows
  BY <1>1 DEF IInv, TypeOK
<1>3. rows[i].episode \in Nat
  BY <1>2 DEF Rows
<1>4. \A k, l \in RowsOf(e) : k < l => rows[k].episode < rows[l].episode
  BY DEF OneRowPerFinishedEpisode
<1> QED
  BY <1>1, <1>3, <1>4

LEMMA WithFrameFacts ==
    ASSUME VideosInv, NEW e \in active
    PROVE  /\ e \in Envs /\ WithFrame(e) \in Clips /\ WithFrame(e).env = e
           /\ encoder[e] = Nothing => WithFrame(e).episode = episodeIndex[e]
           /\ encoder[e] # Nothing => WithFrame(e).episode = encoder[e].episode
           /\ encoder[e] = Nothing => WithFrame(e).frames = <<episodeIndex[e]>>
           /\ encoder[e] # Nothing =>
                  /\ encoder[e] \in Clips
                  /\ WithFrame(e).frames = Append(encoder[e].frames, episodeIndex[e])
<1>1. e \in Envs /\ episodeIndex[e] \in Nat /\ GetEpisodeIndex(e) = episodeIndex[e]
  BY DEF VideosInv, RecordingInv, IInv, TypeOK, CallInProgress, GetEpisodeIndex
<1>2. encoder[e] # Nothing => encoder[e] \in Clips /\ encoder[e].env = e
  BY <1>1 DEF VideosInv, VideosTypeOK
<1>3. CASE encoder[e] = Nothing
  <2> DEFINE new == [env |-> e, episode |-> episodeIndex[e], frames |-> <<>>]
  <2>1. WithFrame(e) = [new EXCEPT !.frames = Append(@, episodeIndex[e])]
    BY <1>1, <1>3 DEF WithFrame
  <2>2. WithFrame(e) = [env |-> e, episode |-> episodeIndex[e], frames |-> <<episodeIndex[e]>>]
    BY <1>1, <2>1
  <2> HIDE DEF new
  <2> QED
    BY <1>1, <1>3, <2>2 DEF Clips
<1>4. CASE encoder[e] # Nothing
  <2>1. WithFrame(e) = [encoder[e] EXCEPT !.frames = Append(@, episodeIndex[e])]
    BY <1>1, <1>4 DEF WithFrame
  <2>2. encoder[e] \in Clips /\ encoder[e].env = e
    BY <1>2, <1>4
  <2>3. PICK clip \in Clips : clip = encoder[e]
    BY <2>2
  <2>4. /\ clip.env \in Envs /\ clip.episode \in Nat /\ clip.frames \in Seq(Nat)
        /\ clip = [env |-> clip.env, episode |-> clip.episode, frames |-> clip.frames]
    BY DEF Clips
  <2>5. Append(clip.frames, episodeIndex[e]) \in Seq(Nat)
    BY <1>1, <2>4
  <2>6. WithFrame(e) = [env |-> clip.env, episode |-> clip.episode,
                        frames |-> Append(clip.frames, episodeIndex[e])]
    BY <2>1, <2>3, <2>4
  <2> QED
    BY <1>1, <1>4, <2>2, <2>3, <2>4, <2>5, <2>6 DEF Clips
<1> QED
  BY <1>3, <1>4

LEMMA AppendedFrame ==
    ASSUME NEW s \in Seq(Nat), NEW v \in Nat, NEW n \in Nat,
           Len(s) \in {n - 1, n}, \A i \in 1 .. Len(s) : s[i] = v
    PROVE  /\ Len(Append(s, v)) \in {n, n + 1} \ {0}
           /\ \A i \in 1 .. Len(Append(s, v)) : Append(s, v)[i] = v
<1>1. /\ Len(s) \in Nat /\ Len(Append(s, v)) = Len(s) + 1
      /\ Append(s, v)[Len(s) + 1] = v
      /\ \A i \in 1 .. Len(s) : Append(s, v)[i] = s[i]
  OBVIOUS
<1>2. \A i \in 1 .. Len(s) + 1 : i \in 1 .. Len(s) \/ i = Len(s) + 1
  BY <1>1
<1> QED
  BY <1>1, <1>2

(* After a step, the frames written are up to date with the episodes.      *)
LEMMA FramesAtRest ==
    ASSUME VideosInv, NEW e \in Envs, InStep(e), e \notin finishing,
           UNCHANGED <<active, episodeIndex, episodeLength>>,
           encoder' = [d \in Envs |-> IF d \in finishing THEN Nothing
                                      ELSE IF d \in active \ finishing THEN WithFrame(d)
                                      ELSE encoder[d]]
    PROVE  AtRest(e)'
<1>1. CASE e \notin active
  <2>1. e \notin activeBefore
    BY <1>1 DEF InStep
  <2>2. encoder'[e] = Nothing
    BY <1>1, <2>1 DEF InStep
  <2> QED
    BY <1>1, <2>2 DEF AtRest
<1>2. CASE e \in active
  <2>1. encoder'[e] = WithFrame(e)
    BY <1>2
  <2>2. /\ episodeIndex[e] \in Nat /\ episodeLength[e] \in Nat /\ Nothing \notin Clips
    BY <1>2, BoundsAssumption, NoClipAssumption
    DEF VideosInv, RecordingInv, IInv, TypeOK, CallInProgress
  <2>3. encoder'[e] # Nothing
    BY <1>2, <2>1, <2>2, WithFrameFacts
  <2>4. CASE encoder[e] = Nothing
    <3>1. encoder'[e].episode = episodeIndex[e] /\ encoder'[e].frames = <<episodeIndex[e]>>
      BY <1>2, <2>1, <2>4, WithFrameFacts
    <3>2. episodeLength[e] \in {0, 1}
      BY <1>2, <2>2, <2>4 DEF InStep, Opens
    <3> DEFINE shown == encoder'[e].frames
    <3>3. shown = <<episodeIndex[e]>>
      BY <3>1
    <3> HIDE DEF shown
    <3>4. Len(shown) = 1 /\ shown[1] = episodeIndex[e]
      BY <3>3
    <3>5. Len(shown) \in {episodeLength[e], episodeLength[e] + 1} \ {0}
      BY <3>2, <3>4
    <3>6. \A i \in 1 .. Len(shown) : shown[i] = episodeIndex[e]
      BY <3>4
    <3> QED
      BY <1>2, <2>3, <3>1, <3>5, <3>6 DEF AtRest, Opens, shown
  <2>5. CASE encoder[e] # Nothing
    <3>1. /\ encoder'[e].episode = encoder[e].episode
          /\ encoder[e].frames \in Seq(Nat)
          /\ encoder'[e].frames = Append(encoder[e].frames, episodeIndex[e])
      BY <1>2, <2>1, <2>5, WithFrameFacts DEF Clips
    <3>2. e \in activeBefore
      BY <2>5 DEF InStep
    <3>3. /\ encoder[e].episode = episodeIndex[e]
          /\ Len(encoder[e].frames) \in {episodeLength[e] - 1, episodeLength[e]}
          /\ \A i \in 1 .. Len(encoder[e].frames) : encoder[e].frames[i] = episodeIndex[e]
      BY <2>2, <2>5, <3>2 DEF InStep, Opens
    <3> DEFINE s == encoder[e].frames
               v == episodeIndex[e]
    <3>4. /\ s \in Seq(Nat) /\ v \in Nat /\ episodeLength[e] \in Nat
          /\ Len(s) \in {episodeLength[e] - 1, episodeLength[e]}
          /\ \A i \in 1 .. Len(s) : s[i] = v
      BY <2>2, <3>1, <3>3
    <3>5. encoder'[e].frames = Append(s, v)
      BY <3>1
    <3> HIDE DEF s, v
    <3>6. /\ Len(Append(s, v)) \in {episodeLength[e], episodeLength[e] + 1} \ {0}
          /\ \A i \in 1 .. Len(Append(s, v)) : Append(s, v)[i] = v
      BY <3>4, AppendedFrame
    <3>7. /\ Len(encoder'[e].frames) \in {episodeLength[e], episodeLength[e] + 1} \ {0}
          /\ \A i \in 1 .. Len(encoder'[e].frames) : encoder'[e].frames[i] = v
      BY <3>5, <3>6
    <3> QED
      BY <1>2, <2>3, <3>1, <3>3, <3>7 DEF AtRest, Opens, v
  <2> QED
    BY <2>4, <2>5
<1> QED
  BY <1>1, <1>2

(* The clip that is finalised shows the episode of the last row.           *)
LEMMA LastClip ==
    ASSUME VideosInv, NEW e \in Envs, InStep(e), e \in finishing, NEW i \in RowsOf(e),
           IsLastRow(e, i)
    PROVE  /\ rows[i].length > 0
           /\ encoder[e] = Nothing => rows[i].length = 1
           /\ encoder[e] # Nothing => Shows(encoder[e], rows[i])
<1>1. PICK j \in RowsOf(e) : /\ IsLastRow(e, j) /\ rows[j].length > 0
                             /\ Opens(e, rows[j].episode, rows[j].length - 1)
  BY DEF InStep
<1>2. i = j
  BY <1>1, RowsAreUnique DEF IsLastRow, VideosInv, RecordingInv
<1>3. rows[i] \in Rows /\ rows[i].env = e
  BY DEF RowsOf, VideosInv, RecordingInv, IInv, TypeOK
<1>4. rows[i].length \in Nat /\ rows[i].episode \in Nat
  BY <1>3 DEF Rows
<1>5. CASE encoder[e] = Nothing
  BY <1>1, <1>2, <1>4, <1>5 DEF Opens
<1>6. CASE encoder[e] # Nothing
  <2>1. encoder[e] \in Clips /\ encoder[e].env = e
    BY <1>6 DEF VideosInv, VideosTypeOK
  <2>2. encoder[e].frames \in Seq(Nat)
    BY <2>1 DEF Clips
  <2>3. /\ encoder[e].episode = rows[i].episode
        /\ Len(encoder[e].frames) \in {rows[i].length - 1, rows[i].length} \ {0}
        /\ \A k \in 1 .. Len(encoder[e].frames) : encoder[e].frames[k] = rows[i].episode
    BY <1>1, <1>2, <1>4, <1>6 DEF Opens
  <2>4. ToSet(encoder[e].frames) = {rows[i].episode}
    <3>1. /\ 1 \in 1 .. Len(encoder[e].frames)
          /\ DOMAIN encoder[e].frames = 1 .. Len(encoder[e].frames)
      BY <2>2, <2>3
    <3> QED
      BY <2>3, <3>1 DEF ToSet
  <2> QED
    BY <1>1, <1>2, <1>3, <1>6, <2>1, <2>3, <2>4 DEF Shows
<1> QED
  BY <1>1, <1>2, <1>5, <1>6

LEMMA ReturnFacts ==
    ASSUME VideosInv, RecordingReturn
    PROVE  /\ phase = "returning" /\ phase' = "idle" /\ finishing' = {} /\ activeBefore' = {}
           /\ UNCHANGED <<active, episodeIndex, episodeLength, rows, stepping>>
           /\ reported' = IF stepping THEN finishing ELSE {}
           /\ finishing \subseteq requested /\ finishing \subseteq Envs /\ requested \subseteq Envs
           /\ \A e \in Envs : /\ RowsOf(e)' = RowsOf(e) /\ Unfinished(e)' = Unfinished(e)
                              /\ Unfinalised(e)' = Unfinished(e) /\ Unfinished(e) \in Nat
                              /\ Unfinalised(e) <= Unfinished(e)
                              /\ Unfinalised(e) = Unfinished(e) - (IF e \in finishing THEN 1 ELSE 0)
<1>1. /\ phase = "returning" /\ phase' = "idle" /\ finishing' = {} /\ activeBefore' = {}
      /\ UNCHANGED <<active, episodeIndex, episodeLength, rows, stepping>>
      /\ reported' = IF stepping THEN requested \cap activeBefore ELSE {}
  BY DEF RecordingReturn, Return
<1>2. /\ stepping => finishing = requested \cap activeBefore
      /\ finishing \subseteq requested
  BY <1>1 DEF VideosInv, CallShape
<1>3. finishing \subseteq Envs /\ requested \subseteq Envs
  BY DEF VideosInv, RecordingInv, IInv, TypeOK
<1>4. ASSUME NEW e \in Envs
      PROVE  /\ RowsOf(e)' = RowsOf(e) /\ Unfinished(e)' = Unfinished(e)
             /\ Unfinalised(e)' = Unfinished(e) /\ Unfinished(e) \in Nat
             /\ Unfinalised(e) <= Unfinished(e)
             /\ Unfinalised(e) = Unfinished(e) - (IF e \in finishing THEN 1 ELSE 0)
  <2>1. RowsOf(e)' = RowsOf(e) /\ Unfinished(e)' = Unfinished(e)
    BY <1>1 DEF RowsOf, Unfinished
  <2>2. Unfinished(e) \in Nat
    BY UnfinishedType DEF VideosInv, RecordingInv, IInv
  <2>3. Unfinalised(e)' = Unfinished(e)' - 0
    BY <1>1 DEF Unfinalised
  <2> QED
    BY <2>1, <2>2, <2>3 DEF Unfinalised
<1> QED
  BY <1>1, <1>2, <1>3, <1>4

(* step returns: the clips of the episodes it ended, of those that have    *)
(* one, join the others.                                                   *)
LEMMA StepReturnsFacts ==
    ASSUME VideosInv, StepReturns
    PROVE  /\ encoder' = [e \in Envs |-> IF e \in finishing THEN Nothing
                                         ELSE IF e \in active \ finishing THEN WithFrame(e)
                                         ELSE encoder[e]]
           /\ clips' = clips \cup ({encoder[e] : e \in finishing} \ {Nothing})
<1>1. reported' = finishing /\ finishing \subseteq Envs
  BY ReturnFacts DEF StepReturns
<1> DEFINE written == [e \in Envs |-> IF e \in EnvsToRecord THEN WithFrame(e) ELSE encoder[e]]
<1>2. /\ clips' = clips \cup ({written[e] : e \in reported'} \ {Nothing})
      /\ encoder' = [e \in Envs |-> IF e \in reported' THEN Nothing ELSE written[e]]
  BY DEF StepReturns
<1>3. EnvsToRecord = active \ finishing
  BY <1>1 DEF EnvsToRecord
<1>4. \A e \in finishing : written[e] = encoder[e]
  BY <1>1, <1>3
<1>5. \A e \in Envs : written[e] = IF e \in active \ finishing THEN WithFrame(e) ELSE encoder[e]
  BY <1>3
<1> HIDE DEF written
<1>6. clips' = clips \cup ({encoder[e] : e \in finishing} \ {Nothing})
  BY <1>1, <1>2, <1>4
<1>7. encoder' = [e \in Envs |-> IF e \in finishing THEN Nothing
                                 ELSE IF e \in active \ finishing THEN WithFrame(e)
                                 ELSE encoder[e]]
  BY <1>1, <1>2, <1>5
<1> QED
  BY <1>6, <1>7

LEMMA StepReturnsTypes ==
    ASSUME VideosInv, StepReturns, ~ closed
    PROVE  VideosTypeOK'
<1>1. /\ encoder' = [e \in Envs |-> IF e \in finishing THEN Nothing
                                    ELSE IF e \in active \ finishing THEN WithFrame(e)
                                    ELSE encoder[e]]
      /\ clips' = clips \cup ({encoder[e] : e \in finishing} \ {Nothing})
      /\ bypassed' = bypassed /\ closed' = closed
  BY StepReturnsFacts DEF StepReturns
<1>2. VideosTypeOK /\ active \subseteq Envs /\ finishing \subseteq Envs
  BY DEF VideosInv, RecordingInv, IInv, TypeOK
<1>3. ASSUME NEW e \in Envs
      PROVE  encoder'[e] \in Clips \cup {Nothing} /\ (encoder'[e] # Nothing => encoder'[e].env = e)
  <2>1. e \in active => WithFrame(e) \in Clips /\ WithFrame(e).env = e
    BY WithFrameFacts
  <2>2. encoder[e] \in Clips \cup {Nothing} /\ (encoder[e] # Nothing => encoder[e].env = e)
    BY <1>2 DEF VideosTypeOK
  <2> QED
    BY <1>1, <2>1, <2>2
<1>4. encoder' \in [Envs -> Clips \cup {Nothing}]
  BY <1>1, <1>3
<1>5. clips' \subseteq Clips
  BY <1>1, <1>2 DEF VideosTypeOK
<1> QED
  BY <1>1, <1>2, <1>3, <1>4, <1>5 DEF VideosTypeOK

LEMMA StepReturnsEncoders ==
    ASSUME VideosInv, StepReturns, ~ closed
    PROVE  EncodersFollow'
<1>1. /\ encoder' = [e \in Envs |-> IF e \in finishing THEN Nothing
                                    ELSE IF e \in active \ finishing THEN WithFrame(e)
                                    ELSE encoder[e]]
      /\ bypassed' = bypassed /\ closed' = closed /\ stepping
      /\ phase = "returning" /\ phase' = "idle"
      /\ UNCHANGED <<active, episodeIndex, episodeLength>>
  BY StepReturnsFacts, ReturnFacts DEF StepReturns
<1> SUFFICES ASSUME NEW e \in Envs \ bypassed PROVE AtRest(e)'
  BY <1>1 DEF EncodersFollow, Recorded
<1>2. InStep(e)
  BY <1>1 DEF VideosInv, EncodersFollow, Recorded
<1>3. CASE e \in finishing
  <2>1. encoder'[e] = Nothing /\ (e \in active => episodeLength[e] = 0)
    BY <1>1, <1>2, <1>3 DEF InStep
  <2> QED
    BY <1>1, <2>1 DEF AtRest, Opens
<1>4. CASE e \notin finishing
  BY <1>1, <1>2, <1>4, FramesAtRest
<1> QED
  BY <1>3, <1>4

(* The last row of an environment whose episode the call ended.            *)
LEMMA StepReturnsClips ==
    ASSUME VideosInv, StepReturns, ~ closed
    PROVE  ClipsHaveRows' /\ OneClipEach' /\ RowsHaveClips'
<1>1. /\ clips' = clips \cup ({encoder[e] : e \in finishing} \ {Nothing})
      /\ bypassed' = bypassed /\ stepping /\ rows' = rows
      /\ phase = "returning" /\ phase' = "idle" /\ finishing \subseteq Envs
  BY StepReturnsFacts, ReturnFacts DEF StepReturns
<1>2. ASSUME NEW e \in Envs
      PROVE  /\ RowsOf(e)' = RowsOf(e) /\ Unfinalised(e)' = Unfinished(e) /\ Unfinished(e) \in Nat
             /\ Unfinalised(e) = Unfinished(e) - (IF e \in finishing THEN 1 ELSE 0)
             /\ Unfinalised(e) <= Unfinished(e)
  BY ReturnFacts DEF StepReturns
<1>3. /\ VideosTypeOK /\ ClipsHaveRows /\ OneClipEach /\ RowsHaveClips
      /\ \A e \in Envs \ bypassed : InStep(e)
  BY <1>1 DEF VideosInv, EncodersFollow, Recorded
<1>4. ASSUME NEW e \in finishing \ bypassed, encoder[e] # Nothing
      PROVE  /\ encoder[e].env = e /\ encoder[e].episode = Unfinished(e) - 1
             /\ \E i \in 1 .. Len(rows) : Shows(encoder[e], rows[i])
  <2>1. e \in Envs /\ InStep(e) /\ encoder[e].env = e
    BY <1>1, <1>3, <1>4 DEF VideosTypeOK
  <2>2. PICK i \in RowsOf(e) : IsLastRow(e, i)
    BY <1>4, <2>1 DEF InStep
  <2>3. Shows(encoder[e], rows[i])
    BY <1>4, <2>1, <2>2, LastClip
  <2>4. encoder[e].episode = Unfinished(e) - 1
    BY <2>2, <2>3 DEF Shows, IsLastRow
  <2> QED
    BY <2>1, <2>2, <2>3, <2>4 DEF RowsOf
<1>5. ClipsHaveRows'
  <2> SUFFICES ASSUME NEW c \in clips', c.env \notin bypassed
               PROVE  /\ c.episode < Unfinalised(c.env)'
                      /\ \E i \in 1 .. Len(rows) : Shows(c, rows[i])
    BY <1>1 DEF ClipsHaveRows
  <2>1. CASE c \in clips
    <3>1. c.env \in Envs /\ c.episode \in Nat
      BY <1>3, <2>1 DEF VideosTypeOK, Clips
    <3>2. c.episode < Unfinalised(c.env) /\ \E i \in 1 .. Len(rows) : Shows(c, rows[i])
      BY <1>3, <2>1 DEF ClipsHaveRows
    <3>3. /\ Unfinalised(c.env)' = Unfinished(c.env) /\ Unfinished(c.env) \in Nat
          /\ Unfinalised(c.env) = Unfinished(c.env) - (IF c.env \in finishing THEN 1 ELSE 0)
      BY <1>2, <3>1
    <3> QED
      BY <3>1, <3>2, <3>3
  <2>2. CASE c \notin clips
    <3>1. PICK e \in finishing : c = encoder[e] /\ encoder[e] # Nothing
      BY <1>1, <2>2
    <3>2. encoder[e].env = e
      BY <1>1, <1>3, <3>1 DEF VideosTypeOK
    <3>3. /\ c.env = e /\ e \in Envs /\ c.episode = Unfinished(e) - 1
          /\ \E i \in 1 .. Len(rows) : Shows(c, rows[i])
      BY <1>1, <1>4, <3>1, <3>2
    <3>4. Unfinalised(e)' = Unfinished(e) /\ Unfinished(e) \in Nat
      BY <1>2, <3>3
    <3>5. c.episode < Unfinalised(e)'
      BY <3>3, <3>4
    <3> QED
      BY <3>3, <3>5
  <2> QED
    BY <2>1, <2>2
<1>6. OneClipEach'
  <2> SUFFICES ASSUME NEW c \in clips', NEW d \in clips',
                      c.env \notin bypassed, c.env = d.env, c.episode = d.episode
               PROVE  c = d
    BY <1>1 DEF OneClipEach
  <2>1. ASSUME NEW x \in clips', x \notin clips, x.env \notin bypassed
        PROVE  /\ x.env \in finishing /\ x = encoder[x.env]
               /\ x.episode = Unfinished(x.env) - 1
    <3>1. PICK e \in finishing : x = encoder[e] /\ encoder[e] # Nothing
      BY <1>1, <2>1
    <3>2. x.env = e
      BY <1>1, <1>3, <3>1 DEF VideosTypeOK
    <3> QED
      BY <1>4, <2>1, <3>1, <3>2
  <2>2. ASSUME NEW x \in clips, x.env \in finishing, x.env \notin bypassed
        PROVE  x.episode < Unfinished(x.env) - 1
    <3>1. x.episode < Unfinalised(x.env)
      BY <1>3, <2>2 DEF ClipsHaveRows
    <3>2. Unfinalised(x.env) = Unfinished(x.env) - 1
      BY <1>1, <1>2, <2>2
    <3> QED
      BY <3>1, <3>2
  <2>3. ASSUME NEW x \in finishing
        PROVE  ~ (Unfinished(x) - 1 < Unfinished(x) - 1)
    BY <1>1, <1>2, <2>3
  <2>4. CASE c \in clips /\ d \in clips
    BY <1>3, <2>4 DEF OneClipEach
  <2>5. CASE c \notin clips /\ d \notin clips
    BY <2>1, <2>5
  <2>6. CASE c \notin clips /\ d \in clips
    BY <2>1, <2>2, <2>3, <2>6
  <2>7. CASE c \in clips /\ d \notin clips
    BY <2>1, <2>2, <2>3, <2>7
  <2> QED
    BY <2>4, <2>5, <2>6, <2>7
<1>7. RowsHaveClips'
  <2> SUFFICES ASSUME NEW e \in Envs \ bypassed, NEW i \in RowsOf(e),
                      rows[i].length > 1, rows[i].episode < Unfinished(e)
               PROVE  \E c \in clips' : Shows(c, rows[i])
    BY <1>1, <1>2 DEF RowsHaveClips
  <2>1. CASE rows[i].episode < Unfinalised(e)
    BY <1>1, <1>3, <2>1 DEF RowsHaveClips
  <2>2. CASE ~ (rows[i].episode < Unfinalised(e))
    <3>1. e \in finishing /\ rows[i].episode = Unfinished(e) - 1
      <4>1. rows[i] \in Rows
        BY DEF RowsOf, VideosInv, RecordingInv, IInv, TypeOK
      <4>2. rows[i].episode \in Nat
        BY <4>1 DEF Rows
      <4> QED
        BY <1>2, <2>2, <4>2
    <3>2. IsLastRow(e, i) /\ InStep(e)
      BY <1>3, <3>1 DEF IsLastRow
    <3>3. encoder[e] # Nothing /\ Shows(encoder[e], rows[i])
      BY <3>1, <3>2, LastClip
    <3> QED
      BY <1>1, <3>1, <3>3
  <2> QED
    BY <2>1, <2>2
<1> QED
  BY <1>5, <1>6, <1>7

(* reset returns: an environment whose open clip it interrupted is left    *)
(* out; the episode of any other was reset before its first step.          *)
LEMMA ResetReturnsClips ==
    ASSUME VideosInv, ResetReturns, ~ closed
    PROVE  /\ VideosTypeOK' /\ EncodersFollow'
           /\ ClipsHaveRows' /\ OneClipEach' /\ RowsHaveClips'
<1>1. /\ UNCHANGED <<encoder, clips, closed, rows, active, episodeIndex, episodeLength>>
      /\ bypassed' = bypassed \cup {e \in requested : encoder[e] # Nothing}
      /\ ~ stepping /\ finishing \subseteq requested /\ requested \subseteq Envs
      /\ phase = "returning" /\ phase' = "idle" /\ finishing \subseteq Envs
  BY ReturnFacts DEF ResetReturns
<1>2. ASSUME NEW e \in Envs
      PROVE  /\ RowsOf(e)' = RowsOf(e) /\ Unfinalised(e)' = Unfinished(e) /\ Unfinished(e) \in Nat
             /\ Unfinalised(e) = Unfinished(e) - (IF e \in finishing THEN 1 ELSE 0)
             /\ Unfinalised(e) <= Unfinished(e)
  BY ReturnFacts DEF ResetReturns
<1>3. /\ VideosTypeOK /\ ClipsHaveRows /\ OneClipEach /\ RowsHaveClips
      /\ \A e \in Envs \ bypassed : InReset(e)
  BY <1>1 DEF VideosInv, EncodersFollow, Recorded
<1>4. VideosTypeOK'
  BY <1>1, <1>3 DEF VideosTypeOK
<1>5. EncodersFollow'
  <2> SUFFICES ASSUME NEW e \in Envs \ bypassed' PROVE AtRest(e)'
    BY <1>1 DEF EncodersFollow, Recorded
  <2>1. InReset(e) /\ (e \in finishing => encoder[e] = Nothing)
    BY <1>1, <1>3
  <2>2. CASE e \in finishing
    BY <1>1, <2>1, <2>2 DEF InReset, AtRest, Opens
  <2>3. CASE e \notin finishing
    BY <1>1, <2>1, <2>3 DEF InReset, AtRest, Opens
  <2> QED
    BY <2>2, <2>3
<1>6. ClipsHaveRows'
  <2> SUFFICES ASSUME NEW c \in clips, c.env \notin bypassed
               PROVE  /\ c.episode < Unfinalised(c.env)'
                      /\ \E i \in 1 .. Len(rows) : Shows(c, rows[i])
    BY <1>1 DEF ClipsHaveRows
  <2>1. c.env \in Envs /\ c.episode \in Nat
    BY <1>3 DEF VideosTypeOK, Clips
  <2>2. c.episode < Unfinalised(c.env) /\ \E i \in 1 .. Len(rows) : Shows(c, rows[i])
    BY <1>3 DEF ClipsHaveRows
  <2>3. /\ Unfinalised(c.env)' = Unfinished(c.env) /\ Unfinished(c.env) \in Nat
        /\ Unfinalised(c.env) = Unfinished(c.env) - (IF c.env \in finishing THEN 1 ELSE 0)
    BY <1>2, <2>1
  <2> QED
    BY <2>1, <2>2, <2>3
<1>7. OneClipEach'
  BY <1>1, <1>3 DEF OneClipEach
<1>8. RowsHaveClips'
  <2> SUFFICES ASSUME NEW e \in Envs \ bypassed', NEW i \in RowsOf(e),
                      rows[i].length > 1, rows[i].episode < Unfinished(e)
               PROVE  \E c \in clips : Shows(c, rows[i])
    BY <1>1, <1>2 DEF RowsHaveClips
  <2>1. e \in Envs \ bypassed
    BY <1>1
  <2>2. CASE rows[i].episode < Unfinalised(e)
    BY <1>1, <1>3, <2>1, <2>2 DEF RowsHaveClips
  <2>3. CASE ~ (rows[i].episode < Unfinalised(e))
    <3>1. e \in finishing /\ rows[i].episode = Unfinished(e) - 1
      <4>1. rows[i] \in Rows
        BY DEF RowsOf, VideosInv, RecordingInv, IInv, TypeOK
      <4>2. rows[i].episode \in Nat
        BY <4>1 DEF Rows
      <4> QED
        BY <1>2, <2>3, <4>2
    <3>2. InReset(e) /\ encoder[e] = Nothing
      BY <1>1, <1>3, <2>1, <3>1
    <3>3. PICK j \in RowsOf(e) : IsLastRow(e, j) /\ rows[j].length = 0
      BY <3>1, <3>2 DEF InReset
    <3>4. i = j
      BY <3>1, <3>3, RowsAreUnique DEF IsLastRow, VideosInv, RecordingInv
    <3> QED
      BY <3>3, <3>4
  <2> QED
    BY <2>2, <2>3
<1> QED
  BY <1>4, <1>5, <1>6, <1>7, <1>8

LEMMA VideosStepInv == VideosInv /\ [VideosNext]_everything => VideosInv'
<1> SUFFICES ASSUME VideosInv, [VideosNext]_everything PROVE VideosInv'
  OBVIOUS
<1>1. [RecordingNext]_recordedVars /\ [Next]_vars
  BY VideosDriveTheRecorders, RecordingDrivesTheEnv
<1>2. RecordingInv /\ IInv /\ OneRowPerFinishedEpisode /\ CallShape
  BY DEF VideosInv, RecordingInv
<1>3. RecordingInv' /\ OneRowPerFinishedEpisode' /\ CallShape'
  BY <1>1, <1>2, RecordingStepInv, OneRowInductive, CallShapeInductive
<1> DEFINE Rest == /\ VideosTypeOK /\ EncodersFollow
                   /\ ClipsHaveRows /\ OneClipEach /\ RowsHaveClips
<1> SUFFICES Rest'
  BY <1>3 DEF VideosInv
<1>4. CASE VideosBuild
  BY <1>4, BuildVideos
<1>5. CASE ~ closed /\ InnerCalls /\ UNCHANGED videoVars
  <2>1. Inside /\ phase # "failed"
    BY <1>2, <1>5, InnerCallsAreInside DEF RecordingInv
  <2> QED
    BY <1>5, <2>1, InsideClips, InsideEncoders
<1>6. CASE ~ closed /\ StepReturns
  BY <1>6, StepReturnsTypes, StepReturnsEncoders, StepReturnsClips
<1>7. CASE ~ closed /\ ResetReturns
  BY <1>7, ResetReturnsClips
<1>8. ASSUME UNCHANGED <<clips, bypassed, vars>>
      PROVE  ClipsHaveRows' /\ OneClipEach' /\ RowsHaveClips'
  <2>1. UNCHANGED <<active, episodeIndex, finishing, rows, phase>>
    BY <1>8 DEF vars, envVars, callVars
  <2>2. \A e : RowsOf(e)' = RowsOf(e) /\ Unfinalised(e)' = Unfinalised(e)
    BY <2>1 DEF RowsOf, Unfinalised, Unfinished
  <2>3. ClipsHaveRows /\ OneClipEach /\ RowsHaveClips
    BY DEF VideosInv
  <2>4. ClipsHaveRows'
    <3> SUFFICES ASSUME NEW c \in clips, c.env \notin bypassed
                 PROVE  /\ c.episode < Unfinalised(c.env)'
                        /\ \E i \in 1 .. Len(rows) : Shows(c, rows[i])
      BY <1>8, <2>1 DEF ClipsHaveRows
    <3> QED
      BY <2>2, <2>3 DEF ClipsHaveRows
  <2> QED
    BY <1>8, <2>1, <2>2, <2>3, <2>4 DEF OneClipEach, RowsHaveClips
<1>9. CASE CloseVideos
  <2>1. /\ UNCHANGED <<clips, bypassed, vars>> /\ closed'
        /\ encoder' = [e \in Envs |-> Nothing]
    BY <1>9 DEF CloseVideos, recordedVars
  <2>2. VideosTypeOK'
    BY <2>1 DEF VideosInv, VideosTypeOK
  <2>3. EncodersFollow'
    BY <2>1 DEF EncodersFollow
  <2> QED
    BY <1>8, <2>1, <2>2, <2>3
<1>10. CASE UNCHANGED everything
  <2>1. UNCHANGED vars /\ UNCHANGED videoVars
    BY <1>10 DEF everything, recordedVars
  <2>2. UNCHANGED <<encoder, clips, bypassed, closed>>
    BY <2>1 DEF videoVars
  <2>3. VideosTypeOK'
    BY <2>2 DEF VideosInv, VideosTypeOK
  <2>4. EncodersFollow'
    <3>1. UNCHANGED <<active, activeBefore, episodeIndex, episodeLength, rows, finishing,
                      phase, stepping>>
      BY <2>1 DEF vars, envVars, callVars
    <3> QED
      BY <2>2, <3>1
      DEF VideosInv, EncodersFollow, Recorded, AtRest, InReset, InStep, IsLastRow, RowsOf,
          Unfinished, Opens
  <2> QED
    BY <1>8, <2>1, <2>2, <2>3, <2>4
<1> QED
  BY <1>4, <1>5, <1>6, <1>7, <1>9, <1>10 DEF VideosNext

LEMMA VideosAgree == VideosInv => ClipsMatchRows
<1> SUFFICES ASSUME VideosInv PROVE ClipsMatchRows
  OBVIOUS
<1> DEFINE Own(S) == {x \in S : x.env \notin bypassed}
           Finished == Own(ToSet(rows))
<1>1. rows \in Seq(Rows) /\ ToSet(rows) = {rows[i] : i \in 1 .. Len(rows)}
  BY DEF VideosInv, RecordingInv, IInv, TypeOK, ToSet
<1>2. ASSUME NEW clip \in clips, clip.env \notin bypassed
      PROVE  \E row \in Finished : Shows(clip, row)
  <2>1. PICK i \in 1 .. Len(rows) : Shows(clip, rows[i])
    BY <1>2 DEF VideosInv, ClipsHaveRows
  <2>2. rows[i].env = clip.env
    BY <2>1 DEF Shows
  <2> QED
    BY <1>1, <1>2, <2>1, <2>2
<1>3. ASSUME closed PROVE Files = clips
  <2>1. \A e \in Envs : encoder[e] = Nothing
    BY <1>3 DEF VideosInv, VideosTypeOK
  <2> QED
    BY <2>1 DEF Files
<1>4. \A clip \in Own(IF closed THEN Files ELSE clips) : \E row \in Finished : Shows(clip, row)
  BY <1>2, <1>3
<1>5. ASSUME phase = "idle", NEW row \in Finished, row.length > 1
      PROVE  Cardinality({clip \in clips : Shows(clip, row)}) = 1
  <2>1. PICK i \in 1 .. Len(rows) : row = rows[i]
    BY <1>1
  <2>2. row \in Rows
    BY <1>1, <2>1
  <2>3. PICK e \in Envs : e = row.env
    BY <2>2 DEF Rows
  <2>4. i \in RowsOf(e) /\ e \notin bypassed
    BY <2>1, <2>3 DEF RowsOf
  <2>5. row.episode < Unfinalised(e)
    <3>1. failure # "recording" /\ finishing = {}
      BY <1>5 DEF VideosInv, RecordingInv, IInv, CallInProgress, CallShape
    <3>2. EpisodesOf(e) = 0 .. Unfinished(e) - 1
      BY <3>1 DEF VideosInv, OneRowPerFinishedEpisode
    <3>3. row.episode \in 0 .. Unfinished(e) - 1
      BY <2>1, <2>4, <3>2 DEF EpisodesOf
    <3>4. Unfinished(e) \in Nat
      BY UnfinishedType DEF VideosInv, RecordingInv, IInv
    <3> QED
      BY <3>1, <3>3, <3>4 DEF Unfinalised
  <2>6. PICK c \in clips : Shows(c, row)
    BY <1>5, <2>1, <2>3, <2>4, <2>5 DEF VideosInv, RowsHaveClips
  <2>7. ASSUME NEW d \in clips, Shows(d, row) PROVE d = c
    <3>1. /\ c.env = row.env /\ c.episode = row.episode
          /\ d.env = row.env /\ d.episode = row.episode
      BY <2>6, <2>7 DEF Shows
    <3> QED
      BY <2>3, <2>4, <3>1 DEF VideosInv, OneClipEach
  <2>8. {clip \in clips : Shows(clip, row)} = {c}
    BY <2>6, <2>7
  <2> QED
    BY <2>8, FS_Singleton
<1> QED
  BY <1>4, <1>5 DEF ClipsMatchRows

(* Whatever the order of steps, resets, failures and the closing of the    *)
(* recorder, every clip left behind shows a finished episode and no other, *)
(* and every finished episode of several steps has exactly one.            *)
THEOREM ClipsAreOfTheRows == VideosSpec => []ClipsMatchRows
<1> QED
  BY VideosInitial, VideosStepInv, VideosAgree, PTL DEF VideosSpec
=============================================================================
