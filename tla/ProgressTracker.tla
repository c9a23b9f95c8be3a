--------------------------- MODULE ProgressTracker ---------------------------
(***************************************************************************)
(* ProgressTracker and its CompletionCriteriaRunners: how the predicates   *)
(* of a task's completion criteria and tracked events, evaluated once per  *)
(* control step, turn into milestones, task success and occurrences.       *)
(*                                                                         *)
(* The tracker's tensors have one row per environment, none computed from  *)
(* another; the module has one row, and one episode after another in it.   *)
(* Physics, and what predicates keep of it, is abstracted to the truth of  *)
(* each instantaneous predicate at each step.  Scores are left out: they   *)
(* are the weights of the positions passed.                                *)
(*                                                                         *)
(* An operator named X_..._Mutant is X with a plausible mistake: no        *)
(* behaviour of the specification uses it.                                 *)
(***************************************************************************)
EXTENDS Integers, Sequences, FiniteSets

CONSTANTS
    Preds,          \* instantaneous predicates
    Criteria,       \* completion criteria, by name
    SequencesOf,    \* the predicate sequences of each criteria set
    TrackedEvents,  \* tracked events; each is a predicate sequence
    Chain,          \* predicate_chains: [pred, steps] in order; steps is the
                    \* required_steps of a temporal requirement, or 0
    Logical,        \* "all", "any" or "choose", per criteria set
    K,              \* the sequences "choose" requires
    NumSubtasks,
    SubtaskOf,      \* parent_subtask_idx, from 1
    Desired,        \* desired_subtask_success_state: "met", "unmet" or "ignored"
    Configurations, \* the trackers: [sequential, checksFinal], that is
                    \* subtasks_are_sequential and whether there is a
                    \* desired_subtask_success_state
    MaxSteps        \* bound on the length of an episode

TaskSequences == UNION {SequencesOf[c] : c \in Criteria}
AllSequences == TaskSequences \cup TrackedEvents

ASSUME CriteriaAssumption ==
    /\ Criteria # {} /\ IsFiniteSet(Criteria)
    /\ \A c \in Criteria : IsFiniteSet(SequencesOf[c])
    /\ \A c, d \in Criteria : c # d => SequencesOf[c] \cap SequencesOf[d] = {}
    /\ TaskSequences \cap TrackedEvents = {}
ASSUME ChainAssumption ==
    \A s \in AllSequences :
        /\ Len(Chain[s]) \in Nat \ {0}
        /\ Chain[s] \in [1 .. Len(Chain[s]) -> [pred : Preds, steps : Nat]]
ASSUME LogicalAssumption ==
    \A c \in Criteria :
        /\ SequencesOf[c] # {}
        /\ Logical[c] \in {"all", "any", "choose"}
        /\ Logical[c] = "choose" => K[c] \in 1 .. Cardinality(SequencesOf[c])
ASSUME SubtaskAssumption ==
    /\ NumSubtasks \in Nat \ {0}
    /\ SubtaskOf \in [Criteria -> 1 .. NumSubtasks]
    /\ Desired \in [1 .. NumSubtasks -> {"met", "unmet", "ignored"}]
    /\ Configurations \subseteq [sequential : BOOLEAN, checksFinal : BOOLEAN]
ASSUME StepsAssumption == MaxSteps \in Nat

VARIABLES
    config,         \* the configuration of the tracker
    pos,            \* current_predicate_index of each sequence
    streak,         \* _consecutive_true_steps of each temporal requirement
    success,        \* _task_success
    events,         \* _events of the environment, with their steps
    occurrences,    \* _tracked_event_occurrences, per event
    lastStep,       \* _last_processed_step, -1 before the first update
    truth           \* what the predicates were at each step of the episode

vars == <<config, pos, streak, success, events, occurrences, lastStep, truth>>

Sequential == config.sequential
ChecksFinal == config.checksFinal

Requirements ==
    UNION {{<<s, i>> : i \in {j \in DOMAIN Chain[s] : Chain[s][j].steps > 0}} : s \in AllSequences}

CriteriaOf(s) == CHOOSE c \in Criteria : s \in SequencesOf[c]

NumRequired(c) ==
    CASE Logical[c] = "all" -> Cardinality(SequencesOf[c])
      [] Logical[c] = "any" -> 1
      [] OTHER -> K[c]

SequenceComplete(s) == pos[s] >= Len(Chain[s])

(* is_complete of a runner *)
Complete(c) == Cardinality({s \in SequencesOf[c] : SequenceComplete(s)}) >= NumRequired(c)

SubtaskComplete(k) == \A c \in Criteria : SubtaskOf[c] = k => Complete(c)

Init ==
    /\ config \in Configurations
    /\ pos = [s \in AllSequences |-> 0]
    /\ streak = [r \in Requirements |-> 0]
    /\ success = FALSE
    /\ events = {}
    /\ occurrences = [s \in TrackedEvents |-> <<>>]
    /\ lastStep = -1
    /\ truth = <<>>

-----------------------------------------------------------------------------
(* A subtask is enabled by the completion of those before it as it was     *)
(* before this step. *)
Enabled(k) == Sequential => \A j \in 1 .. k - 1 : SubtaskComplete(j)

(* The sequences that may advance in this step. *)
Active(s) ==
    IF s \in TrackedEvents THEN ~ SequenceComplete(s)
    ELSE Enabled(SubtaskOf[CriteriaOf(s)]) /\ ~ Complete(CriteriaOf(s))

FinalConditionsCount(k) == ChecksFinal /\ Desired[k] # "ignored"

(* The sequences whose final predicate is evaluated again. *)
Rechecked(s) ==
    IF s \in TrackedEvents THEN SequenceComplete(s)
    ELSE /\ FinalConditionsCount(SubtaskOf[CriteriaOf(s)])
         /\ Complete(CriteriaOf(s)) \/ SequenceComplete(s)

(* The final predicate of an unfinished sequence is no longer evaluated    *)
(* once others completed the criteria set.                                 *)
Evaluated_Mutant(s, i) ==
    \/ Active(s) /\ i = pos[s] + 1
    \/ Rechecked(s) /\ i = Len(Chain[s]) /\ SequenceComplete(s)

(* What is evaluated of a sequence in one step: the predicate it is at if  *)
(* it is active, and a final predicate it has reached.                     *)
Evaluated(s, i) ==
    \/ Active(s) /\ i = pos[s] + 1
    \/ Rechecked(s) /\ i = Len(Chain[s]) /\ pos[s] >= i - 1

NextStreak(s, i, holds) ==
    IF ~ holds THEN 0
    ELSE IF streak[<<s, i>>] < Chain[s][i].steps THEN streak[<<s, i>>] + 1
    ELSE streak[<<s, i>>]

(* _evaluate_predicate_with_cache: a temporal requirement not evaluated in *)
(* this step is false, an instantaneous predicate is whatever it is now.   *)
Result(s, i, now) ==
    IF Chain[s][i].steps = 0 THEN now[Chain[s][i].pred]
    ELSE Evaluated(s, i) /\ NextStreak(s, i, now[Chain[s][i].pred]) >= Chain[s][i].steps

Advances(s, now) == Active(s) /\ ~ SequenceComplete(s) /\ Result(s, pos[s] + 1, now)

NextPos(s, now) == pos[s] + (IF Advances(s, now) THEN 1 ELSE 0)

(* A sequence meets its final condition if it reached the predicate, by    *)
(* now, and the predicate holds.                                           *)
FinalConditionMet(s, now) ==
    NextPos(s, now) >= Len(Chain[s]) - 1 /\ Result(s, Len(Chain[s]), now)

FinalConditionsMet(c, now) ==
    Cardinality({s \in SequencesOf[c] : FinalConditionMet(s, now)}) >= NumRequired(c)

(* final_conditions_met of a tracked event that has cleared. *)
Cleared(s, now) == NextPos(s, now) >= Len(Chain[s]) /\ ~ FinalConditionMet(s, now)

(* An event starts over as soon as it occurred. *)
Restarts_Early_Mutant(s, now) == s \in TrackedEvents /\ NextPos(s, now) >= Len(Chain[s])

(* Milestones of the task are taken back as well. *)
Restarts_Always_Mutant(s, now) == Cleared(s, now)

Restarts(s, now) == s \in TrackedEvents /\ Cleared(s, now)

(* _compute_task_success, after every runner has advanced. *)
TaskSuccess(now) ==
    IF ~ ChecksFinal THEN \A c \in Criteria : Complete(c)'
    ELSE \A k \in {j \in 1 .. NumSubtasks : Desired[j] # "ignored"} :
             /\ SubtaskComplete(k)'
             /\ (\A c \in Criteria : SubtaskOf[c] = k => FinalConditionsMet(c, now))
                    = (Desired[k] = "met")

NewEvents(now, step) ==
    {[sequence |-> s, index |-> pos[s] + 1, step |-> step] :
        s \in {t \in TaskSequences : Advances(t, now)}}

Occurs(s, now) == Advances(s, now) /\ NextPos(s, now) >= Len(Chain[s])

(* ProgressTracker.step, called with the next step index. *)
Step(now) ==
    /\ lastStep < MaxSteps
    /\ lastStep' = IF lastStep < 0 THEN 1 ELSE lastStep + 1
    /\ pos' = [s \in AllSequences |-> IF Restarts(s, now) THEN 0 ELSE NextPos(s, now)]
    /\ streak' = [r \in Requirements |->
                     IF Restarts(r[1], now) THEN 0
                     ELSE IF Evaluated(r[1], r[2])
                     THEN NextStreak(r[1], r[2], now[Chain[r[1]][r[2]].pred])
                     ELSE streak[r]]
    /\ events' = events \cup NewEvents(now, lastStep')
    /\ success' = TaskSuccess(now)
    /\ occurrences' = [s \in TrackedEvents |->
                          IF Occurs(s, now)
                          THEN Append(occurrences[s], lastStep') ELSE occurrences[s]]
    /\ truth' = Append(truth, now)
    /\ UNCHANGED config

(* The streaks are carried into the next episode. *)
ClearedStreaks_Mutant == streak

ClearedStreaks == [r \in Requirements |-> 0]

(* ProgressTracker.reset: a new episode starts. *)
Reset ==
    /\ lastStep >= 0
    /\ pos' = [s \in AllSequences |-> 0]
    /\ streak' = ClearedStreaks
    /\ success' = FALSE
    /\ events' = {}
    /\ occurrences' = [s \in TrackedEvents |-> <<>>]
    /\ lastStep' = -1
    /\ truth' = <<>>
    /\ UNCHANGED config

Next ==
    \/ \E now \in [Preds -> BOOLEAN] : Step(now)
    \/ Reset

Spec == Init /\ [][Next]_vars

-----------------------------------------------------------------------------
(* What the documentation of completion criteria says of an episode, in    *)
(* terms of what was true at each step of it, without positions or streaks.*)
StepsSoFar == Len(truth)
Duration(s, i) == IF Chain[s][i].steps = 0 THEN 1 ELSE Chain[s][i].steps

PassedBy(s, i, t) == \E e \in events : e.sequence = s /\ e.index = i /\ e.step <= t
ReachedBy(s, i, t) == i = 1 \/ PassedBy(s, i - 1, t)
CompleteBy(c, t) ==
    Cardinality({s \in SequencesOf[c] : PassedBy(s, Len(Chain[s]), t)}) >= NumRequired(c)
EnabledBy(c, t) ==
    Sequential => \A d \in Criteria : SubtaskOf[d] < SubtaskOf[c] => CompleteBy(d, t)

(* The i-th predicate of s counts at step t: it was reached, and not yet   *)
(* passed, at an earlier step, and its criteria were enabled and open.     *)
CountsAt(s, i, t) ==
    /\ ReachedBy(s, i, t - 1) /\ ~ PassedBy(s, i, t - 1)
    /\ EnabledBy(CriteriaOf(s), t - 1) /\ ~ CompleteBy(CriteriaOf(s), t - 1)

HeldAt(s, i, t) ==
    \A u \in t - Duration(s, i) + 1 .. t : u \in 1 .. t /\ truth[u][Chain[s][i].pred]

Earned(s, i, t) ==
    HeldAt(s, i, t) /\ \A u \in t - Duration(s, i) + 1 .. t : CountsAt(s, i, u)

(* A milestone is recorded exactly at the step it is earned: its predicate *)
(* held for its required steps, all of them after the milestone before it  *)
(* and after the subtasks before it, and none earlier would do.            *)
MilestonesExact ==
    \A s \in TaskSequences : \A i \in DOMAIN Chain[s] : \A t \in 1 .. StepsSoFar :
        [sequence |-> s, index |-> i, step |-> t] \in events <=> Earned(s, i, t)

(* A final condition holds now: its predicate holds, and if it has a       *)
(* duration, for that long since it was reached.                           *)
FinalConditionHolds(s) ==
    LET i == Len(Chain[s])
        since == StepsSoFar - (IF Chain[s][i].steps = 0 THEN 0 ELSE Duration(s, i))
    IN  /\ HeldAt(s, i, StepsSoFar)
        /\ ReachedBy(s, i, since)
        /\ EnabledBy(CriteriaOf(s), since)

(* Task success is the recorded completion of the subtasks that take part, *)
(* and their final conditions as they are in the latest step: a condition  *)
(* lost and held again counts after a new streak only.                     *)
SuccessMeansFinalState ==
    StepsSoFar > 0 =>
        success =
            IF ~ ChecksFinal THEN \A c \in Criteria : CompleteBy(c, StepsSoFar)
            ELSE \A k \in {j \in 1 .. NumSubtasks : Desired[j] # "ignored"} :
                LET criteria == {c \in Criteria : SubtaskOf[c] = k}
                IN  /\ \A c \in criteria : CompleteBy(c, StepsSoFar)
                    /\ (\A c \in criteria :
                            Cardinality({s \in SequencesOf[c] : FinalConditionHolds(s)})
                                >= NumRequired(c))
                       = (Desired[k] = "met")

(* The status get_consecutive_step_progress reports of a requirement.      *)
Status(s, i) ==
    IF i <= pos[s] THEN "completed"
    ELSE IF i = pos[s] + 1 /\ Enabled(SubtaskOf[CriteriaOf(s)]) THEN "active" ELSE "waiting"

(* The summary of an episode is not contradictory: a waiting requirement   *)
(* has no streak, a completed one has the step of its first completion,    *)
(* and no other has one or a full streak while its criteria are open.      *)
SummaryConsistent ==
    \A r \in {q \in Requirements : q[1] \in TaskSequences} :
        LET status == Status(r[1], r[2])
        IN  /\ status = "waiting" => streak[r] = 0
            /\ status = "completed" <=> PassedBy(r[1], r[2], StepsSoFar)
            /\ status = "active" /\ ~ Complete(CriteriaOf(r[1])) =>
                   streak[r] < Chain[r[1]][r[2]].steps

(* A tracked event that persists is recorded once: between two occurrences *)
(* its final condition did not hold at some step, after which its whole    *)
(* sequence was run through again.                                         *)
RunThrough(s, from, to) ==
    \E at \in [DOMAIN Chain[s] -> from .. to] :
        /\ \A i \in DOMAIN Chain[s] : HeldAt(s, i, at[i])
        /\ at[Len(Chain[s])] = to
        /\ \A i \in DOMAIN Chain[s] :
               at[i] - Duration(s, i) >= IF i = 1 THEN from - 1 ELSE at[i - 1]

OccurrencesSeparate ==
    \A s \in TrackedEvents : \A n \in DOMAIN occurrences[s] :
        LET before == IF n = 1 THEN 0 ELSE occurrences[s][n - 1]
        IN  \E lost \in before .. occurrences[s][n] - 1 :
                /\ lost > 0 => lost > before /\ ~ HeldAt(s, Len(Chain[s]), lost)
                /\ RunThrough(s, lost + 1, occurrences[s][n])
=============================================================================
