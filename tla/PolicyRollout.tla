---------------------------- MODULE PolicyRollout ----------------------------
(***************************************************************************)
(* rollout_policy: the loop that drives the environment of EpisodeLifecycle*)
(* and a policy that may keep, for each environment, a plan made from an   *)
(* earlier observation (an action chunk, a history), until the configured  *)
(* episodes are completed or the configured steps are taken.               *)
(* An operator named X_..._Mutant is X with a plausible mistake: no        *)
(* behaviour of the specification uses it.                                 *)
(***************************************************************************)
EXTENDS EpisodeLifecycle

CONSTANT MaxSteps      \* bound on num_steps

ASSUME StepsAssumption == MaxSteps \in Nat \ {0}

VARIABLES
    at,                \* the statement of rollout_policy that comes next
    numSteps,          \* num_steps, 0 in a rollout limited by episodes
    stepsCompleted,    \* num_steps_completed
    planned            \* the episode each cached plan was made for, -1 without plan

rolloutVars == <<at, numSteps, stepsCompleted, planned>>
allVars == <<vars, rolloutVars>>

(* The names of the statements and of the outcomes. *)
InEnv == {"resetting env", "stepping env"}
Ended == {"returned", "raised"}

RolloutInit ==
    /\ Init
    /\ at = "configure"
    /\ numSteps \in 0 .. MaxSteps
    /\ stepsCompleted = 0
    /\ planned = [e \in Envs |-> -1]

Forget(ids) == planned' = [e \in Envs |-> IF e \in ids THEN -1 ELSE planned[e]]

Configure ==
    /\ at = "configure"
    /\ IF numSteps = 0 THEN ConfigureEpisodeLimit ELSE UNCHANGED vars
    /\ at' = "reset env"
    /\ UNCHANGED <<numSteps, stepsCompleted, planned>>

ResetEnv ==
    /\ at = "reset env"
    /\ Reset(Envs)
    /\ at' = "resetting env"
    /\ UNCHANGED <<numSteps, stepsCompleted, planned>>

(* The handlers of the environment's step and reset. *)
EnvRuns ==
    /\ at \in InEnv
    /\ FinishEpisodes \/ RecordingRaises \/ NothingStarts \/ StartEpisodes \/ ResetEventRaises
    /\ UNCHANGED rolloutVars

EnvReturns ==
    /\ at \in InEnv
    /\ Return
    /\ at' = IF at = "resetting env" THEN "reset policy" ELSE "notify policy"
    /\ UNCHANGED <<numSteps, stepsCompleted, planned>>

ResetPolicy ==
    /\ at = "reset policy"
    /\ Forget(Envs)
    /\ at' = "act"
    /\ UNCHANGED <<vars, numSteps, stepsCompleted>>

(* get_action: environments without a plan, and any whose plan is used up, *)
(* get one made from the current observation.                              *)
GetAction ==
    /\ at = "act"
    /\ \E usedUp \in SUBSET Envs :
           planned' = [e \in Envs |-> IF e \in usedUp \/ planned[e] = -1
                                      THEN episodeIndex[e] ELSE planned[e]]
    /\ at' = "step env"
    /\ UNCHANGED <<vars, numSteps, stepsCompleted>>

StepEnv ==
    /\ at = "step env"
    /\ \E done \in SUBSET Envs : Step(done)
    /\ at' = "stepping env"
    /\ UNCHANGED <<numSteps, stepsCompleted, planned>>

(* The policy is only told when all environments start again. *)
NotifiedEnvs_Mutant == IF resetIds = Envs THEN Envs ELSE {}

(* policy.reset(env_ids) is called with the environments that were given   *)
(* an episode by the step.                                                 *)
NotifiedEnvs == resetIds

NotifyPolicy ==
    /\ at = "notify policy"
    /\ Forget(NotifiedEnvs)
    /\ at' = "check limit"
    /\ UNCHANGED <<vars, numSteps, stepsCompleted>>

(* The loop ends with the last episode that starts. *)
AllEpisodes_Mutant == numSteps = 0 /\ started = limit

AllEpisodes == numSteps = 0 /\ completed = limit

CheckLimit ==
    /\ at = "check limit"
    /\ stepsCompleted' = IF AllEpisodes \/ numSteps = 0 THEN stepsCompleted ELSE stepsCompleted + 1
    /\ at' = IF AllEpisodes \/ (numSteps > 0 /\ stepsCompleted' >= numSteps)
             THEN "returned" ELSE "act"
    /\ UNCHANGED <<vars, numSteps, planned>>

(* The policy or a metric raises, or the environment has: the rollout ends. *)
Raise ==
    /\ phase = "failed" \/ at \in {"reset policy", "act", "notify policy", "check limit"}
    /\ at \notin Ended
    /\ at' = "raised"
    /\ UNCHANGED <<vars, numSteps, stepsCompleted, planned>>

RolloutNext ==
    \/ Configure
    \/ ResetEnv
    \/ EnvRuns
    \/ EnvReturns
    \/ ResetPolicy
    \/ GetAction
    \/ StepEnv
    \/ NotifyPolicy
    \/ CheckLimit
    \/ Raise

(* One thread runs the loop and nothing in it waits. *)
RolloutSpec == RolloutInit /\ [][RolloutNext]_allVars /\ WF_allVars(RolloutNext)

-----------------------------------------------------------------------------
(* The action applied to a running episode comes from a plan made in that  *)
(* episode: no chunk or history of the episode before is left in use by a  *)
(* policy that does what policy.reset asks.                                *)
PolicyKnowsTheEpisode ==
    at \in {"step env", "stepping env"} /\ phase = "idle" =>
        \A e \in active : planned[e] = episodeIndex[e]

(* A rollout limited by episodes that returns has completed exactly the    *)
(* episodes configured: none is cut off while it runs, each has its row.   *)
ReturnsWithEveryEpisode ==
    at = "returned" /\ numSteps = 0 =>
        completed = limit /\ started = limit /\ active = {} /\ Len(rows) = limit

(* A rollout ends: as the episodes end after MaxEpisodeLength steps at the *)
(* latest, the loop reaches the exact count it waits for.                  *)
RolloutEnds == <>(at \in Ended)
=============================================================================
