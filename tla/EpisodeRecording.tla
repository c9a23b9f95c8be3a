-------------------------- MODULE EpisodeRecording --------------------------
(***************************************************************************)
(* The recordings that follow the episodes of EpisodeLifecycle: the        *)
(* trajectory dataset of ArenaRecorderManager, the updates of the progress *)
(* tracker, the rest poses it measures progress from, and the progress     *)
(* each JSONL row is given.  Every action is one of EpisodeLifecycle, with *)
(* what the recorders do during it, in a task that tracks its progress and *)
(* whose first milestone is an object coming to rest, as in picking and    *)
(* placing.                                                                *)
(***************************************************************************)
EXTENDS EpisodeLifecycle

CONSTANT Nothing    \* no progress was published, or none was recorded

(* What is published of an environment: the step of the tracker in its     *)
(* episode, -1 before the first.                                           *)
Progress == [episode : Nat, step : Nat \cup {-1}]

ASSUME NothingAssumption == Nothing \notin Nat /\ Nothing \notin [Envs -> Progress]

VARIABLES
    trajectory,     \* per environment, the steps and initial states recorded
    exported,       \* the episodes written to the dataset, in order
    lastStep,       \* _last_processed_step of the tracker
    updates,        \* updates of the tracker since its last reset
    upToDate,       \* _task_progress_step = common_step_counter
    trackerFailed,  \* an assertion of ProgressTracker.step has fired
    snapshot,       \* extras["progress_tracking"]
    rowProgress,    \* the progress each row was given
    restPose        \* _object_initial_rest_pose_recorder, per environment: the
                    \* episode whose pose it holds

recordingVars ==
    <<trajectory, exported, lastStep, updates, upToDate, trackerFailed, snapshot, rowProgress,
      restPose>>
recordedVars == <<vars, recordingVars>>

Empty == [steps |-> 0, initials |-> 0]

RecordingInit ==
    /\ Init
    /\ trajectory = [e \in Envs |-> Empty]
    /\ exported = <<>>
    /\ lastStep = [e \in Envs |-> -1]
    /\ updates = [e \in Envs |-> 0]
    /\ upToDate = TRUE
    /\ trackerFailed = FALSE
    /\ snapshot = Nothing
    /\ rowProgress = <<>>
    /\ restPose = [e \in Envs |-> Nothing]

RecordingBuild ==
    /\ Build
    /\ trajectory' = [e \in Envs |-> Empty]
    /\ exported' = <<>>
    /\ lastStep' = [e \in Envs |-> -1]
    /\ updates' = [e \in Envs |-> 0]
    /\ upToDate' = TRUE
    /\ trackerFailed' = FALSE
    /\ snapshot' = Nothing
    /\ rowProgress' = <<>>
    /\ restPose' = [e \in Envs |-> Nothing]

-----------------------------------------------------------------------------
(* ProgressTracker.step asserts that each index is the one after the last, *)
(* or the first after a reset.  Lengths saturate at MaxEpisodeLength.      *)
NextIndex(e, lengths) ==
    \/ lastStep[e] = -1
    \/ lengths[e] = Least(lastStep[e] + 1, MaxEpisodeLength)

(* objects_settled, the first predicate of the sequence, is evaluated for  *)
(* all environments while one of them is at it; a pose is recorded once.   *)
RecordRestPoses ==
    \E new \in SUBSET {e \in Envs : restPose[e] = Nothing} :
        restPose' = [e \in Envs |-> IF e \in new THEN GetEpisodeIndex(e) ELSE restPose[e]]

UpdateTaskProgress(lengths) ==
    /\ RecordRestPoses
    /\ trackerFailed' = \E e \in Envs : ~ NextIndex(e, lengths)
    /\ lastStep' = lengths
    /\ updates' = [e \in Envs |-> Least(updates[e] + 1, MaxEpisodeLength)]

(* add_to_episodes keeps the rows of the active environments. *)
RecordedEnvs == active

(* The progress is published before it is updated. *)
Published_Mutant(steps) == [e \in Envs |-> [episode |-> GetEpisodeIndex(e), step |-> lastStep[e]]]

(* ProgressTrackingRecorder: the state and events of every environment.    *)
Published(steps) == [e \in Envs |-> [episode |-> GetEpisodeIndex(e), step |-> steps[e]]]

(* Physics advances the step counter; the first query of the progress in   *)
(* this step, by a termination term or by record_post_step, updates the    *)
(* tracker, and no other does.  The recorder terms then see the completed  *)
(* step.                                                                   *)
RecordingStep(done) ==
    /\ Step(done)
    /\ UpdateTaskProgress(episodeLength')
    /\ upToDate' = TRUE
    /\ snapshot' = Published(lastStep')
    /\ trajectory' = [e \in Envs |->
                         IF e \in RecordedEnvs
                         THEN [trajectory[e] EXCEPT !.steps = @ + 1] ELSE trajectory[e]]
    /\ UNCHANGED <<exported, rowProgress>>

(* Any reader of the task progress: update_task_progress has nothing to do *)
(* unless a physics step was made since its last update.                   *)
QueryProgress ==
    /\ phase \in {"idle", "returning"}
    /\ IF upToDate THEN UNCHANGED <<lastStep, updates, trackerFailed, restPose>>
                   ELSE UpdateTaskProgress(episodeLength)
    /\ upToDate' = TRUE
    /\ UNCHANGED <<vars, trajectory, exported, snapshot, rowProgress>>

(* The trajectories of all environments that request a reset are exported. *)
ExportedEnvs_Mutant == requested

ExportedEnvs == Finishing(requested)

Exports(order) ==
    [i \in DOMAIN order |->
        [env      |-> order[i],
         episode  |-> GetEpisodeIndex(order[i]),
         steps    |-> trajectory[order[i]].steps,
         initials |-> trajectory[order[i]].initials]]

(* record_pre_reset: the manager asks the same question as _reset_idx will.*)
ExportEpisodes ==
    \E order \in SortedIds(ExportedEnvs) : exported' = exported \o Exports(order)

(* record_progress_results reads what was published last. *)
ProgressOf(e) == IF snapshot = Nothing THEN Nothing ELSE snapshot[e]

RecordingFinish ==
    /\ FinishEpisodes
    /\ ExportEpisodes
    /\ rowProgress' = rowProgress
           \o [i \in 1 .. Len(rows') - Len(rows) |-> ProgressOf(rows'[Len(rows) + i].env)]
    /\ UNCHANGED <<trajectory, lastStep, updates, upToDate, trackerFailed, snapshot, restPose>>

RecordingFails ==
    /\ RecordingRaises
    /\ ExportEpisodes
    /\ rowProgress' = rowProgress
           \o [i \in 1 .. Len(rows') - Len(rows) |-> ProgressOf(rows'[Len(rows) + i].env)]
    /\ UNCHANGED <<trajectory, lastStep, updates, upToDate, trackerFailed, snapshot, restPose>>

(* The marker is reset with the tracker. *)
MarkerAfterReset_Mutant == FALSE

MarkerAfterReset == upToDate

(* The poses of the episodes that are over are kept. *)
ClearedPoses_Mutant(ids) == restPose

ClearedPoses(ids) == [e \in Envs |-> IF e \in ids THEN Nothing ELSE restPose[e]]

(* Isaac Lab's _reset_idx clears the trajectories, Arena's the tracker and *)
(* the rest poses, of the environments that start.                         *)
RecordingStart ==
    /\ StartEpisodes
    /\ LET ids == resetIds' \ resetIds
       IN  /\ trajectory' = [e \in Envs |-> IF e \in ids THEN Empty ELSE trajectory[e]]
           /\ lastStep' = [e \in Envs |-> IF e \in ids THEN -1 ELSE lastStep[e]]
           /\ updates' = [e \in Envs |-> IF e \in ids THEN 0 ELSE updates[e]]
           /\ restPose' = ClearedPoses(ids)
    /\ upToDate' = MarkerAfterReset
    /\ UNCHANGED <<exported, trackerFailed, snapshot, rowProgress>>

(* record_post_reset, once _reset_idx is over: the environments it reset.  *)
InitialStateEnvs == requested \cap resetIds \cap active

RecordingReturn ==
    /\ Return
    /\ trajectory' = [e \in Envs |->
                         IF e \in InitialStateEnvs
                         THEN [trajectory[e] EXCEPT !.initials = @ + 1] ELSE trajectory[e]]
    /\ UNCHANGED <<exported, lastStep, updates, upToDate, trackerFailed, snapshot, rowProgress,
                   restPose>>

RecordingNext ==
    \/ RecordingBuild
    \/ ConfigureEpisodeLimit /\ UNCHANGED recordingVars
    \/ \E ids \in (SUBSET Envs) \ {{}} : Reset(ids) /\ UNCHANGED recordingVars
    \/ \E done \in SUBSET Envs : RecordingStep(done)
    \/ QueryProgress
    \/ RecordingFinish
    \/ RecordingFails
    \/ NothingStarts /\ UNCHANGED recordingVars
    \/ RecordingStart
    \/ ResetEventRaises /\ UNCHANGED recordingVars
    \/ RecordingReturn

RecordingSpec == RecordingInit /\ [][RecordingNext]_recordedVars

-----------------------------------------------------------------------------
(* The tracker's assertion that its index advances by one never fires, and *)
(* it sees every step of a running episode exactly once, also of those     *)
(* that survive the reset of others in the same step.                      *)
TrackerFollowsEpisodes ==
    /\ ~ trackerFailed
    /\ phase = "idle" => \A e \in active : updates[e] = episodeLength[e]

(* Every finished episode is exported once, with the identity and the      *)
(* length of its JSONL row and the initial state of its own reset: the two *)
(* files can be joined.                                                    *)
DatasetMatchesRows ==
    failure # "recording" =>
        /\ Len(exported) = Len(rows)
        /\ \A i \in 1 .. Len(rows) : \E j \in 1 .. Len(exported) :
               exported[j] = [env |-> rows[i].env, episode |-> rows[i].episode,
                              steps |-> rows[i].length, initials |-> 1]

(* The row of an episode that made a step carries the progress at its end. *)
SteppedRowsCarryOwnProgress ==
    /\ Len(rowProgress) = Len(rows)
    /\ \A i \in 1 .. Len(rows) :
           rows[i].length > 0 =>
               rowProgress[i] = [episode |-> rows[i].episode, step |-> rows[i].length]

(* A lift is measured from where the object came to rest in this episode,  *)
(* never from the rest pose of an episode before it.                       *)
RestPosesAreOfTheEpisode ==
    phase = "idle" => \A e \in active : restPose[e] \in {Nothing, GetEpisodeIndex(e)}

(* The progress is that of the episode that runs: no step of it is missed, *)
(* counted twice or told of another episode, in the tracker or in a row,   *)
(* nor measured from a pose of another episode.                            *)
ProgressFollowsEpisodes ==
    TrackerFollowsEpisodes /\ SteppedRowsCarryOwnProgress /\ RestPosesAreOfTheEpisode
=============================================================================
