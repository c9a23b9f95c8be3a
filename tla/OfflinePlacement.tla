--------------------------- MODULE OfflinePlacement ---------------------------
(***************************************************************************)
(* The recording of settled layouts: the environment of PlacementPool is   *)
(* reset over and over, each reset taking one layout per environment from  *)
(* the pool, physics is stepped, and the layouts that passed the solver's  *)
(* and the post-physics checks are collected, until there are enough or    *)
(* the batches are used up.  A recorded pose is abstracted to the layout   *)
(* and the batch it was measured in.                                       *)
(* An operator named X_..._Mutant is X with a plausible mistake: no        *)
(* behaviour of the specification uses it.                                 *)
(***************************************************************************)
EXTENDS PlacementPool

CONSTANTS
    MinLayouts,        \* min_layouts
    MaxBatches         \* max_batches

ASSUME RecordingAssumption ==
    /\ MinLayouts \in Nat \ {0}
    /\ MaxBatches \in Nat \ {0}

VARIABLES
    stage,             \* of the recording; "idle": rollouts use the pool
    batchIndex,        \* batch_index
    poses,             \* the pose columns
    outcomes,          \* the validation outcomes
    attempted,
    rejections,        \* the environments and batches it has a reason for
    output             \* the rows of the JSONL file, or None: it was not written

recordingVars == <<stage, batchIndex, poses, outcomes, attempted, rejections, output>>

OfflineInit ==
    /\ Init
    /\ stage \in {"idle", "resetting"}
    /\ batchIndex = 0
    /\ poses = <<>>
    /\ outcomes = <<>>
    /\ attempted = 0
    /\ rejections = {}
    /\ output = None

-----------------------------------------------------------------------------
(* The fill at construction.  record_settled_placement_layouts sets        *)
(* resolve_on_reset, whatever the environment says.                        *)
PoolStep ==
    /\ \/ SolveBatch
       \/ SolveRaises
       \/ PrepareLive /\ (stage # "idle" => fixed' = None)
    /\ UNCHANGED recordingVars

(* Episodes that start draw layouts as they come. *)
Rollout ==
    /\ stage = "idle"
    /\ (\E d \in Demands : Sample(d) \/ Refill(d)) \/ SampleRefilled
    /\ UNCHANGED recordingVars

(* env.reset of sample_and_settle_batch. *)
ResetForBatch ==
    /\ stage = "resetting"
    /\ Sample(ResetOf(Envs)) \/ Refill(ResetOf(Envs))
    /\ stage' = "settling"
    /\ UNCHANGED <<batchIndex, poses, outcomes, attempted, rejections, output>>

ResetAfterRefill ==
    /\ stage = "settling"
    /\ SampleRefilled
    /\ UNCHANGED recordingVars

(* get_reset_placement_results: what the last reset took from each queue.  *)
LastResult(e) == pools[e].layouts[pools[e].cursor]

(* The solver has returned it. *)
Eligible_Mutant == Envs

(* solver_validation_failure: a fallback does not count, however stable.   *)
Eligible == {e \in Envs : LastResult(e).valid}

Source(e) == [env |-> e, layout |-> LastResult(e), batch |-> batchIndex]

(* The environments whose layouts passed, in order: outcomes is a dict     *)
(* over range(num_envs).                                                   *)
Accepted(stable) ==
    CHOOSE seq \in SetToSeqs(stable) : \A i, j \in DOMAIN seq : i < j => seq[i] < seq[j]

Firsts(seq, n) == SubSeq(seq, 1, AtMost(n, Len(seq)))

(* Every batch may bring as many as were asked for. *)
Remaining_Mutant == MinLayouts

(* What is missing is counted before the outcomes are extended. *)
Remaining == MinLayouts - Len(outcomes)

(* The rejections keep the index they have in their own call. *)
Rejected_Mutant(stable) == {<<e, 0>> : e \in Envs \ stable}

Rejected(stable) == {<<e, batchIndex>> : e \in Envs \ stable}

(* One round of collect_layouts_until_count, behind its reset.             *)
Collect(stable) ==
    LET sources == [i \in DOMAIN Accepted(stable) |-> Source(Accepted(stable)[i])]
    IN  /\ poses' = poses \o Firsts(sources, Remaining)
        /\ outcomes' = outcomes \o Firsts(sources, Remaining)
        /\ rejections' = rejections \cup Rejected(stable)
        /\ attempted' = attempted + NumEnvs
        /\ batchIndex' = batchIndex + 1
        /\ stage' = IF Len(outcomes') >= MinLayouts \/ batchIndex' = MaxBatches
                    THEN "collected" ELSE "resetting"

(* evaluate_settled_batch: physics leaves some of the layouts stable.      *)
SettleBatch ==
    /\ stage = "settling"
    /\ phase = "ready"
    /\ \E stable \in SUBSET Eligible : Collect(stable)
    /\ UNCHANGED <<vars, output>>

(* write_settled_layouts, unless nothing was accepted: a row is a pose     *)
(* with the outcome at the same index.                                     *)
Write ==
    /\ stage = "collected"
    /\ stage' = "done"
    /\ output' = IF outcomes = <<>> THEN None
                 ELSE [i \in DOMAIN poses |-> [pose |-> poses[i], outcome |-> outcomes[i]]]
    /\ UNCHANGED <<vars, batchIndex, poses, outcomes, attempted, rejections>>

OfflineNext ==
    \/ PoolStep
    \/ Rollout
    \/ ResetForBatch
    \/ ResetAfterRefill
    \/ SettleBatch
    \/ Write

OfflineSpec == OfflineInit /\ [][OfflineNext]_<<vars, recordingVars>>

-----------------------------------------------------------------------------
(* The file holds layouts that passed the solver's checks, none of them    *)
(* twice, each with its own outcome and next to those of its batch: never  *)
(* more than were asked for, and fewer only when every batch was used.     *)
RecordingIsSound ==
    output # None =>
        /\ Len(output) \in 1 .. MinLayouts
        /\ Len(output) < MinLayouts => batchIndex = MaxBatches
        /\ \A i \in DOMAIN output :
               /\ output[i].pose = output[i].outcome
               /\ output[i].pose.layout.valid
               /\ \A j \in DOMAIN output :
                      i < j => /\ output[i].pose.batch <= output[j].pose.batch
                               /\ output[i].pose.env = output[j].pose.env =>
                                      output[i].pose.layout # output[j].pose.layout

(* Each attempt is accounted for by one outcome: a layout is recorded or   *)
(* its rejection is told, except for those of the last batch that were     *)
(* more than what was asked for.                                           *)
AttemptsAddUp ==
    /\ attempted = batchIndex * NumEnvs
    /\ \A i \in DOMAIN outcomes : <<outcomes[i].env, outcomes[i].batch>> \notin rejections
    /\ Len(outcomes) + Cardinality(rejections) <= attempted
    /\ Len(outcomes) < MinLayouts =>
           Len(outcomes) + Cardinality(rejections) = attempted

=============================================================================
