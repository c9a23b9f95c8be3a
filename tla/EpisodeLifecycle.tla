-------------------------- MODULE EpisodeLifecycle --------------------------
(***************************************************************************)
(* Episode accounting of IsaacLabArenaManagerBasedRLEnv, together with the *)
(* three collaborators it drives from _reset_idx: the per-episode JSONL    *)
(* recorder, the recorder of variation and placement draws, and the replay *)
(* scheduler.                                                              *)
(*                                                                         *)
(* One call of the environment (step or reset) runs through the phases     *)
(*   idle -> resetting -> starting -> returning -> idle                    *)
(* each being a handler the code runs in this order.  A recorder term or a *)
(* reset event may raise in between, which leaves the environment failed.  *)
(***************************************************************************)
EXTENDS Integers, Sequences, FiniteSets

CONSTANTS
    NumEnvs,        \* scene.num_envs
    NumRecords,     \* rows of the replayed JSONL; 0 when nothing is replayed
    MaxEpisodeLength, \* steps after which the time_out termination fires
    MaxLimit,       \* largest episode budget configured
    MaxStarted,     \* bound on the episodes started without a budget
    MaxBuilds,      \* bound on the environments built
    NoLimit,        \* _episode_limit is None
    Live            \* the value of a draw that is sampled, not replayed

ASSUME NumEnvsAssumption == NumEnvs \in Nat \ {0}
ASSUME NumRecordsAssumption == NumRecords \in Nat
ASSUME BoundsAssumption ==
    /\ MaxEpisodeLength \in Nat \ {0}
    /\ MaxLimit \in Nat
    /\ MaxStarted \in Nat
    /\ MaxBuilds \in Nat
ASSUME NoLimitAssumption == NoLimit \notin Nat
ASSUME LiveAssumption == Live \notin Nat

Envs == 0 .. NumEnvs - 1
Replaying == NumRecords > 0

VARIABLES
    (* IsaacLabArenaManagerBasedRLEnv *)
    limit,          \* _episode_limit
    started,        \* _started_episode_count
    completed,      \* _completed_episode_count
    active,         \* the set _active_episode_mask selects
    resetIds,       \* _reset_env_ids
    episodeIndex,   \* _episode_indices, -1 for an absent key
    episodeLength,  \* episode_length_buf
    reported,       \* episodes whose end step() returned in its last result
    (* VariationReplayScheduler *)
    nextOccurrence, \* _next_occurrence_index
    assigned,       \* _source_record_index_by_env
    (* VariationRecord._samples_by_env_episode *)
    samples,
    (* the JSONL file of EpisodeRecorderManager *)
    rows,
    (* the call in progress *)
    phase,          \* the handler that runs next
    requested,      \* env_ids of the pending _reset_idx
    finishing,      \* finishing_env_ids
    stepping,       \* TRUE in a call of step, FALSE in one of reset
    activeBefore,   \* active_before_step
    failure,        \* what made the environment fail
    builds          \* environments built so far

envVars == <<limit, started, completed, active, resetIds, episodeIndex,
             episodeLength, reported>>
schedulerVars == <<nextOccurrence, assigned>>
callVars == <<phase, requested, finishing, stepping, activeBefore, failure, builds>>
vars == <<envVars, schedulerVars, samples, rows, callVars>>

-----------------------------------------------------------------------------
(* Environment ids are sorted before they are used: the one ascending      *)
(* enumeration of a set of ids.                                            *)
SortedIds(ids) ==
    {order \in [1 .. Cardinality(ids) -> ids] :
        \A i, j \in 1 .. Cardinality(ids) : i < j => order[i] < order[j]}

Least(m, n) == IF m <= n THEN m ELSE n

(* Definitions whose name ends in _Mutant are wrong on purpose: each is a   *)
(* plausible defect of the definition after it, kept to show that the      *)
(* properties of the module can tell the difference.                       *)

(* get_episode_index: 0 for an environment that never started an episode. *)
GetEpisodeIndex(env) == IF episodeIndex[env] = -1 THEN 0 ELSE episodeIndex[env]

(* The draws are released before the row is written. *)
SampleForEpisode_Mutant(env, index) == Live

SampleForEpisode(env, index) ==
    IF <<env, index>> \in DOMAIN samples THEN samples[<<env, index>>] ELSE Live

(* source_record_index_for_env, when records are replayed. *)
SourceRecord(env) == IF env \in DOMAIN assigned THEN assigned[env] ELSE Live

(* The fields the core and variation recording terms give a finished row. *)
EpisodeRow(env) ==
    [env     |-> env,
     episode |-> GetEpisodeIndex(env),
     length  |-> episodeLength[env],
     source  |-> SourceRecord(env),
     sample  |-> SampleForEpisode(env, GetEpisodeIndex(env))]

-----------------------------------------------------------------------------
Init ==
    /\ limit = NoLimit
    /\ started = 0
    /\ completed = 0
    /\ active = {}
    /\ resetIds = {}
    /\ episodeIndex = [e \in Envs |-> -1]
    /\ episodeLength = [e \in Envs |-> 0]
    /\ reported = {}
    /\ nextOccurrence = 0
    /\ assigned = <<>>
    /\ samples = <<>>
    /\ rows = <<>>
    /\ phase = "idle"
    /\ requested = {}
    /\ finishing = {}
    /\ stepping = FALSE
    /\ activeBefore = {}
    /\ failure = "none"
    /\ builds = 1

(* bind_env: the listeners outlive the environment, its samples do not. *)
SamplesOfNewEnv_Mutant == samples

SamplesOfNewEnv == <<>>

(* A new environment is built from the same constructor arguments, so with *)
(* the recorder and the scheduler of the one before; its results go to a   *)
(* fresh file.                                                             *)
Build ==
    /\ phase \in {"idle", "failed"}
    /\ builds < MaxBuilds
    /\ builds' = builds + 1
    /\ limit' = NoLimit
    /\ started' = 0
    /\ completed' = 0
    /\ active' = {}
    /\ resetIds' = {}
    /\ episodeIndex' = [e \in Envs |-> -1]
    /\ episodeLength' = [e \in Envs |-> 0]
    /\ reported' = {}
    /\ nextOccurrence' = 0
    /\ assigned' = <<>>
    /\ samples' = SamplesOfNewEnv
    /\ rows' = <<>>
    /\ phase' = "idle"
    /\ requested' = {}
    /\ finishing' = {}
    /\ stepping' = FALSE
    /\ activeBefore' = {}
    /\ failure' = "none"

ConfigureEpisodeLimit ==
    /\ phase = "idle"
    /\ started = 0
    /\ limit' \in 1 .. MaxLimit
    /\ UNCHANGED <<started, completed, active, resetIds, episodeIndex,
                   episodeLength, reported, schedulerVars, samples, rows, callVars>>

(* reset(env_ids): only the initial one under a limit. *)
Reset(ids) ==
    /\ phase = "idle"
    /\ limit = NoLimit \/ started = 0
    /\ started <= MaxStarted
    /\ resetIds' = {}
    /\ requested' = ids
    /\ stepping' = FALSE
    /\ phase' = "resetting"
    /\ UNCHANGED <<limit, started, completed, active, episodeIndex, episodeLength,
                   reported, schedulerVars, samples, rows, finishing, activeBefore,
                   failure, builds>>

(* step() up to the reset: physics runs for every environment, also for    *)
(* the inactive ones, then every environment past the episode length is    *)
(* timed out and any other may terminate.  Lengths saturate at             *)
(* MaxEpisodeLength, past which an inactive environment times out forever. *)
Step(done) ==
    /\ phase = "idle"
    /\ started > 0
    /\ limit = NoLimit => started <= MaxStarted
    /\ activeBefore' = active
    /\ resetIds' = {}
    /\ episodeLength' = [e \in Envs |-> Least(episodeLength[e] + 1, MaxEpisodeLength)]
    /\ {e \in Envs : episodeLength'[e] = MaxEpisodeLength} \subseteq done
    /\ requested' = done
    /\ stepping' = TRUE
    /\ phase' = IF done = {} THEN "returning" ELSE "resetting"
    /\ UNCHANGED <<limit, started, completed, active, episodeIndex, reported,
                   schedulerVars, samples, rows, finishing, failure, builds>>

-----------------------------------------------------------------------------
Unscheduled(ids) == Replaying /\ ~(ids \subseteq DOMAIN assigned)

RemoveKeys(f, keys) == [k \in DOMAIN f \ keys |-> f[k]]

(* Inactive environments request resets as well, having timed out. *)
Finishing_Mutant(ids) == ids

Finishing(ids) == ids \cap active

(* The index has already moved on when the draws are released. *)
ReleasedKeys_Mutant(ids) == {<<e, GetEpisodeIndex(e) + 1>> : e \in ids}

ReleasedKeys(ids) == {<<e, GetEpisodeIndex(e)>> : e \in ids}

(* First half of _reset_idx: the results of the finishing episodes are     *)
(* recorded in id order before anything of them is released.  The scheduler*)
(* raises a KeyError for an environment it has no assignment for.          *)
FinishEpisodes ==
    /\ phase = "resetting"
    /\ finishing' = Finishing(requested)
    /\ \E order \in SortedIds(finishing') :
           rows' = rows \o [i \in DOMAIN order |-> EpisodeRow(order[i])]
    /\ samples' = RemoveKeys(samples, ReleasedKeys(finishing'))
    /\ assigned' = RemoveKeys(assigned, finishing')
    /\ completed' = completed + Cardinality(finishing')
    /\ active' = active \ finishing'
    /\ failure' = IF Unscheduled(finishing') THEN "bookkeeping" ELSE "none"
    /\ phase' = IF Unscheduled(finishing') THEN "failed" ELSE "starting"
    /\ UNCHANGED <<limit, started, resetIds, episodeIndex, episodeLength, reported,
                   nextOccurrence, requested, stepping, activeBefore, builds>>

(* A recording term raises, or the file cannot be appended to, after the   *)
(* rows of some of the finishing episodes were written.                    *)
RecordingRaises ==
    /\ phase = "resetting"
    /\ \E order \in SortedIds(Finishing(requested)) :
           \E written \in 0 .. Len(order) - 1 :
               rows' = rows \o [i \in 1 .. written |-> EpisodeRow(order[i])]
    /\ failure' = "recording"
    /\ phase' = "failed"
    /\ UNCHANGED <<envVars, schedulerVars, samples, requested, finishing, stepping,
                   activeBefore, builds>>

-----------------------------------------------------------------------------
(* The environments that may start an episode, in id order, are cut to the *)
(* remaining budget.                                                       *)
Candidates == IF limit # NoLimit /\ started > 0 THEN finishing ELSE requested

(* All candidates start, whatever remains of the budget. *)
EpisodeStarts_Uncut_Mutant(order) == Len(order)

(* The budget is compared with the episodes completed, not started. *)
EpisodeStarts_Completed_Mutant(order) ==
    IF limit = NoLimit THEN Len(order) ELSE Least(Len(order), limit - completed)

(* The last episode of the budget is never started. *)
EpisodeStarts_OffByOne_Mutant(order) ==
    IF limit = NoLimit THEN Len(order) ELSE Least(Len(order), limit - started - 1)

EpisodeStarts(order) ==
    IF limit = NoLimit THEN Len(order) ELSE Least(Len(order), limit - started)

StartOrder(order) == [i \in 1 .. EpisodeStarts(order) |-> order[i]]

IdsOf(order) == {order[i] : i \in DOMAIN order}

(* The first record replayed is not the first one recorded. *)
RecordAt_Shifted_Mutant(occurrence) == (occurrence + 1) % NumRecords

RecordAt(occurrence) == occurrence % NumRecords

(* assign_new_episodes: consecutive occurrences, in id order. *)
Assignment(order) ==
    [e \in DOMAIN assigned \cup IdsOf(order) |->
        IF e \in IdsOf(order)
        THEN RecordAt(nextOccurrence + (CHOOSE i \in DOMAIN order : order[i] = e) - 1)
        ELSE assigned[e]]

(* The listeners of the samplers drawn from by the reset events. *)
Draws(ids) ==
    [key \in DOMAIN samples \cup {<<e, episodeIndex'[e]>> : e \in ids} |->
        IF key[1] \in ids /\ key[2] = episodeIndex'[key[1]]
        THEN (IF Replaying THEN assigned'[key[1]] ELSE Live)
        ELSE samples[key]]

AlreadyAssigned(ids) == Replaying /\ ids \cap DOMAIN assigned # {}

AlreadyDrawn(ids) == \E e \in ids : <<e, episodeIndex'[e]>> \in DOMAIN samples

(* Second half of _reset_idx, up to the call of Isaac Lab's _reset_idx. *)
BeginEpisodes(order) ==
    /\ episodeIndex' = [e \in Envs |->
                           episodeIndex[e] + (IF e \in IdsOf(order) THEN 1 ELSE 0)]
    /\ assigned' = IF Replaying THEN Assignment(order) ELSE assigned
    /\ nextOccurrence' = nextOccurrence + (IF Replaying THEN Len(order) ELSE 0)
    /\ started' = started + Len(order)
    /\ active' = active \cup IdsOf(order)
    /\ resetIds' = resetIds \cup IdsOf(order)

NothingStarts ==
    /\ phase = "starting"
    /\ \E order \in SortedIds(Candidates) : StartOrder(order) = <<>>
    /\ phase' = "returning"
    /\ UNCHANGED <<envVars, schedulerVars, samples, rows, requested, finishing,
                   stepping, activeBefore, failure, builds>>

(* The scheduler asserts that a starting environment has no assignment, a  *)
(* variation record that its episode was not drawn for before.             *)
StartEpisodes ==
    /\ phase = "starting"
    /\ \E sorted \in SortedIds(Candidates) :
           LET order == StartOrder(sorted)
               ids == IdsOf(order)
               broken == AlreadyAssigned(ids) \/ AlreadyDrawn(ids)
           IN  /\ order # <<>>
               /\ BeginEpisodes(order)
               /\ samples' = Draws(ids)
               /\ episodeLength' = [e \in Envs |-> IF e \in ids THEN 0 ELSE episodeLength[e]]
               /\ failure' = IF broken THEN "bookkeeping" ELSE "none"
               /\ phase' = IF broken THEN "failed" ELSE "returning"
    /\ UNCHANGED <<limit, completed, reported, rows, requested, finishing, stepping,
                   activeBefore, builds>>

(* A reset event raises, for instance because the placement pool cannot be *)
(* refilled, before or after the variations drew their samples.            *)
ResetEventRaises ==
    /\ phase = "starting"
    /\ \E sorted \in SortedIds(Candidates) :
           LET order == StartOrder(sorted)
           IN  /\ order # <<>>
               /\ BeginEpisodes(order)
               /\ samples' \in {samples, Draws(IdsOf(order))}
    /\ failure' = "event"
    /\ phase' = "failed"
    /\ UNCHANGED <<limit, completed, episodeLength, reported, rows, requested, finishing,
                   stepping, activeBefore, builds>>

(* step() reports the ends of the episodes assigned before the step, also  *)
(* of those whose environment was not given another one.                   *)
Return ==
    /\ phase = "returning"
    /\ reported' = IF stepping THEN requested \cap activeBefore ELSE {}
    /\ phase' = "idle"
    /\ requested' = {}
    /\ finishing' = {}
    /\ activeBefore' = {}
    /\ UNCHANGED <<limit, started, completed, active, resetIds, episodeIndex,
                   episodeLength, schedulerVars, samples, rows, stepping, failure, builds>>

Next ==
    \/ Build
    \/ ConfigureEpisodeLimit
    \/ \E ids \in (SUBSET Envs) \ {{}} : Reset(ids)
    \/ \E done \in SUBSET Envs : Step(done)
    \/ FinishEpisodes
    \/ RecordingRaises
    \/ NothingStarts
    \/ StartEpisodes
    \/ ResetEventRaises
    \/ Return

Spec == Init /\ [][Next]_vars

-----------------------------------------------------------------------------
Rows == [env : Envs, episode : Nat, length : Nat,
         source : Nat \cup {Live}, sample : Nat \cup {Live}]

TypeOK ==
    /\ limit \in Nat \cup {NoLimit}
    /\ started \in Nat
    /\ completed \in Nat
    /\ active \in SUBSET Envs
    /\ resetIds \in SUBSET Envs
    /\ episodeIndex \in [Envs -> Nat \cup {-1}]
    /\ episodeLength \in [Envs -> 0 .. MaxEpisodeLength]
    /\ reported \in SUBSET Envs
    /\ nextOccurrence \in Nat
    /\ DOMAIN assigned \subseteq Envs
    /\ assigned \in [DOMAIN assigned -> 0 .. NumRecords - 1]
    /\ DOMAIN samples \subseteq Envs \X Nat
    /\ samples \in [DOMAIN samples -> Nat \cup {Live}]
    /\ rows \in Seq(Rows)
    /\ phase \in {"idle", "resetting", "starting", "returning", "failed"}
    /\ requested \in SUBSET Envs
    /\ finishing \in SUBSET Envs
    /\ stepping \in BOOLEAN
    /\ activeBefore \in SUBSET Envs
    /\ failure \in {"none", "recording", "event", "bookkeeping"}
    /\ builds \in Nat

(* The environment implements the abstract budget: whatever the mask and   *)
(* the counters go through, episodes start within the budget, on free      *)
(* slots, and each is counted once when it ends.                           *)
Budget == INSTANCE EpisodeBudget
              WITH Slots <- Envs, budget <- limit, finished <- completed, running <- active
BudgetSpec == Budget!Spec

(* The two counters and the active mask agree, and a limited rollout never *)
(* starts more episodes than configured.                                   *)
Accounting == Budget!Balanced /\ Budget!WithinBudget

(* The internal assertions and lookups of the scheduler and of the         *)
(* variation records never fire.                                           *)
BookkeepingNeverFails == failure # "bookkeeping"

(* The scheduler holds an assignment for exactly the running episodes, and *)
(* the variation recorder retains the draws of exactly those: memory does  *)
(* not grow with the episodes run.                                         *)
CollaboratorsFollowTheMask ==
    failure = "none" =>
        /\ Replaying => DOMAIN assigned = active
        /\ DOMAIN samples = {<<e, episodeIndex[e]>> : e \in active}

(* The scheduler, the variation recorder and the environment agree, at     *)
(* every handler, on which episodes there are.                             *)
CollaboratorsAgree == BookkeepingNeverFails /\ CollaboratorsFollowTheMask

(* The rows of an environment, the episodes they are of, and the first     *)
(* episode of the environment that has not finished.                       *)
RowsOf(env) == {i \in 1 .. Len(rows) : rows[i].env = env}
EpisodesOf(env) == {rows[i].episode : i \in RowsOf(env)}
Unfinished(env) == episodeIndex[env] + (IF env \in active THEN 0 ELSE 1)

(* Every finished episode has one row, under its own index, and the rows   *)
(* of an environment are in episode order.  Only a raising recorder leaves *)
(* a row of an episode that is not counted as completed.                   *)
OneRowPerFinishedEpisode ==
    \A e \in Envs :
        /\ \A i, j \in RowsOf(e) : i < j => rows[i].episode < rows[j].episode
        /\ \/ EpisodesOf(e) = 0 .. Unfinished(e) - 1
           \/ failure = "recording" /\ EpisodesOf(e) = 0 .. Unfinished(e)

(* The draw written in a row is the one replayed from the record the row   *)
(* names, so an episode is never paired with its neighbour's sample.       *)
RowsPairDrawAndSource ==
    Replaying => \A i \in 1 .. Len(rows) : rows[i].sample = rows[i].source

(* Records are replayed in global round-robin order: running and finished  *)
(* episodes together have used each record as often as the first           *)
(* nextOccurrence turns give it.                                           *)
ReplayedInTurns ==
    Replaying /\ failure \in {"none", "event"} =>
        \A record \in 0 .. NumRecords - 1 :
            Cardinality({i \in 1 .. Len(rows) : rows[i].source = record})
              + Cardinality({e \in DOMAIN assigned : assigned[e] = record})
            = Cardinality({n \in 0 .. nextOccurrence - 1 : n % NumRecords = record})

-----------------------------------------------------------------------------
(* What holds between the handlers of a call; with the properties above it *)
(* is inductive.                                                           *)
CallInProgress ==
    /\ phase = "failed" <=> failure # "none"
    /\ phase = "starting" => requested \cap active = {} /\ finishing \subseteq requested
    /\ \A e \in active : episodeIndex[e] >= 0

IInv ==
    /\ TypeOK
    /\ Accounting
    /\ BookkeepingNeverFails
    /\ CollaboratorsFollowTheMask
    /\ CallInProgress
=============================================================================
