------------------------ MODULE ProgressTracker_proof ------------------------
(***************************************************************************)
(* What the progress tracker records, for any task and tracked events, any *)
(* number of steps and any history of their predicates: milestones are     *)
(* exact, success is of the final state, the summary is consistent, and    *)
(* occurrences are separate.                                               *)
(***************************************************************************)
EXTENDS ProgressTracker, FiniteSetTheorems, TLAPS

-----------------------------------------------------------------------------
(* The constants. *)
LEMMA ChainFacts ==
    ASSUME NEW s \in AllSequences
    PROVE  /\ Len(Chain[s]) \in Nat /\ Len(Chain[s]) >= 1
           /\ DOMAIN Chain[s] = 1 .. Len(Chain[s])
           /\ \A i \in 1 .. Len(Chain[s]) :
                  Chain[s][i].pred \in Preds /\ Chain[s][i].steps \in Nat
BY ChainAssumption

LEMMA KindFacts ==
    /\ \A s \in TaskSequences : s \in AllSequences /\ s \notin TrackedEvents
    /\ \A s \in TrackedEvents : s \in AllSequences /\ s \notin TaskSequences
    /\ \A s \in AllSequences : s \in TaskSequences \/ s \in TrackedEvents
BY CriteriaAssumption DEF AllSequences

LEMMA CriteriaFacts ==
    /\ \A s \in TaskSequences : CriteriaOf(s) \in Criteria /\ s \in SequencesOf[CriteriaOf(s)]
    /\ \A c \in Criteria : \A s \in SequencesOf[c] : s \in TaskSequences /\ CriteriaOf(s) = c
    /\ \A c \in Criteria : SubtaskOf[c] \in 1 .. NumSubtasks
<1>1. \A c \in Criteria : \A s \in SequencesOf[c] : s \in TaskSequences
    BY DEF TaskSequences
<1>2. \A s \in TaskSequences : \E c \in Criteria : s \in SequencesOf[c]
    BY DEF TaskSequences
<1>3. \A s \in TaskSequences : CriteriaOf(s) \in Criteria /\ s \in SequencesOf[CriteriaOf(s)]
    BY <1>2 DEF CriteriaOf
<1>4. \A c, d \in Criteria : \A s : s \in SequencesOf[c] /\ s \in SequencesOf[d] => c = d
    BY CriteriaAssumption
<1> QED BY <1>1, <1>3, <1>4, SubtaskAssumption

LEMMA RequiredFacts ==
    ASSUME NEW c \in Criteria
    PROVE  NumRequired(c) \in Nat /\ NumRequired(c) >= 1
<1>1. IsFiniteSet(SequencesOf[c]) /\ SequencesOf[c] # {}
    BY CriteriaAssumption, LogicalAssumption
<1>2. Cardinality(SequencesOf[c]) \in Nat /\ Cardinality(SequencesOf[c]) # 0
    BY <1>1, FS_CardinalityType, FS_EmptySet
<1>3. Logical[c] \in {"all", "any", "choose"}
      /\ (Logical[c] = "choose" => K[c] \in 1 .. Cardinality(SequencesOf[c]))
    BY LogicalAssumption
<1> QED BY <1>2, <1>3 DEF NumRequired

(* More complete sequences complete a criteria set that fewer completed.   *)
LEMMA EnoughStays ==
    ASSUME NEW c \in Criteria, NEW few, NEW many,
           few \subseteq many, many \subseteq SequencesOf[c],
           Cardinality(few) >= NumRequired(c)
    PROVE  Cardinality(many) >= NumRequired(c)
<1>1. IsFiniteSet(many)
    BY CriteriaAssumption, FS_Subset
<1>2. IsFiniteSet(few) /\ Cardinality(few) <= Cardinality(many)
    BY <1>1, FS_Subset
<1>3. Cardinality(few) \in Nat /\ Cardinality(many) \in Nat
    BY <1>1, <1>2, FS_CardinalityType
<1> QED BY <1>2, <1>3, RequiredFacts

LEMMA EnoughIsSome ==
    ASSUME NEW c \in Criteria, NEW some, Cardinality(some) >= NumRequired(c)
    PROVE  some # {}
BY RequiredFacts, FS_EmptySet

LEMMA RequirementFacts ==
    /\ \A s \in AllSequences : \A i \in DOMAIN Chain[s] :
           Chain[s][i].steps > 0 => <<s, i>> \in Requirements
    /\ \A r \in Requirements :
           /\ r = <<r[1], r[2]>> /\ r[1] \in AllSequences /\ r[2] \in DOMAIN Chain[r[1]]
           /\ Chain[r[1]][r[2]].steps > 0
BY DEF Requirements

-----------------------------------------------------------------------------
(* The inductive invariant. *)

(* Every variable keeps its type, an event names a predicate of a sequence *)
(* of the task, and steps are counted from one.                            *)
TypeOK ==
    /\ config \in [sequential : BOOLEAN, checksFinal : BOOLEAN]
    /\ pos \in [AllSequences -> Nat]
    /\ \A s \in AllSequences : pos[s] <= Len(Chain[s])
    /\ streak \in [Requirements -> Nat]
    /\ occurrences \in [TrackedEvents -> Seq(Nat)]
    /\ truth \in Seq([Preds -> BOOLEAN])
    /\ lastStep = IF StepsSoFar = 0 THEN -1 ELSE StepsSoFar
    /\ \A e \in events :
           /\ e = [sequence |-> e.sequence, index |-> e.index, step |-> e.step]
           /\ e.sequence \in TaskSequences
           /\ e.index \in DOMAIN Chain[e.sequence]
           /\ e.step \in 1 .. StepsSoFar

(* A sequence of the task is past the predicates that have an event.       *)
Passed(s, i) == \E e \in events : e.sequence = s /\ e.index = i

PassedArePositions ==
    \A s \in TaskSequences : \A i \in DOMAIN Chain[s] : i <= pos[s] <=> Passed(s, i)

(* What was enabled when it started is enabled still. *)
StartedAreEnabled ==
    \A s \in TaskSequences : pos[s] > 0 => Enabled(SubtaskOf[CriteriaOf(s)])

(* A requirement has no streak before it is reached. *)
StreaksAreReached ==
    \A s \in AllSequences : \A i \in DOMAIN Chain[s] :
        Chain[s][i].steps > 0 /\ i > pos[s] + 1 => streak[<<s, i>>] = 0

(* The streak of a requirement that is still to be earned counts, up to    *)
(* its required steps, the latest ones in which it held and counted.       *)
CountedFor(s, i, k) ==
    \A u \in StepsSoFar - k + 1 .. StepsSoFar :
        /\ u >= 1
        /\ truth[u][Chain[s][i].pred]
        /\ CountsAt(s, i, u)

StreaksAreCounted ==
    \A s \in TaskSequences : \A i \in DOMAIN Chain[s] :
        Chain[s][i].steps > 0 /\ i > pos[s] /\ ~ Complete(CriteriaOf(s)) =>
            \A k \in 0 .. Chain[s][i].steps : streak[<<s, i>>] >= k <=> CountedFor(s, i, k)

(* The streak of a final condition goes on beyond completion: it counts    *)
(* the latest steps in which the condition held since it was reached.      *)
FinalFor(s, k) ==
    \E t \in {StepsSoFar - k} :
        /\ ReachedBy(s, Len(Chain[s]), t)
        /\ EnabledBy(CriteriaOf(s), t)
        /\ \A u \in t + 1 .. StepsSoFar : u >= 1 /\ truth[u][Chain[s][Len(Chain[s])].pred]

FinalStreaks ==
    \A s \in TaskSequences :
        Chain[s][Len(Chain[s])].steps > 0 /\ FinalConditionsCount(SubtaskOf[CriteriaOf(s)]) =>
            \A k \in 1 .. Chain[s][Len(Chain[s])].steps :
                streak[<<s, Len(Chain[s])>>] >= k <=> FinalFor(s, k)

(* Success, as positions and streaks have it. *)
FinalNow(s) ==
    /\ pos[s] >= Len(Chain[s]) - 1
    /\ IF Chain[s][Len(Chain[s])].steps = 0
       THEN truth[StepsSoFar][Chain[s][Len(Chain[s])].pred]
       ELSE streak[<<s, Len(Chain[s])>>] >= Chain[s][Len(Chain[s])].steps

FinalsNow(c) == Cardinality({s \in SequencesOf[c] : FinalNow(s)}) >= NumRequired(c)

SuccessIsOfPositions ==
    StepsSoFar > 0 =>
        success =
            IF ~ ChecksFinal THEN \A c \in Criteria : Complete(c)
            ELSE \A k \in {j \in 1 .. NumSubtasks : Desired[j] # "ignored"} :
                /\ SubtaskComplete(k)
                /\ (\A c \in Criteria : SubtaskOf[c] = k => FinalsNow(c)) = (Desired[k] = "met")

MilestonesInv ==
    /\ TypeOK
    /\ PassedArePositions
    /\ StartedAreEnabled
    /\ StreaksAreReached
    /\ StreaksAreCounted
    /\ FinalStreaks
    /\ SuccessIsOfPositions
    /\ MilestonesExact

-----------------------------------------------------------------------------
(* What was passed by a step was passed by every later one. *)
LEMMA PastStays ==
    TypeOK =>
        \A t, u \in Int : t <= u =>
            /\ \A s, i : PassedBy(s, i, t) => PassedBy(s, i, u)
            /\ \A s, i : ReachedBy(s, i, t) => ReachedBy(s, i, u)
            /\ \A c \in Criteria : CompleteBy(c, t) => CompleteBy(c, u)
            /\ \A c \in Criteria : EnabledBy(c, t) => EnabledBy(c, u)
<1> SUFFICES ASSUME TypeOK, NEW t \in Int, NEW u \in Int, t <= u
             PROVE  /\ \A s, i : PassedBy(s, i, t) => PassedBy(s, i, u)
                    /\ \A s, i : ReachedBy(s, i, t) => ReachedBy(s, i, u)
                    /\ \A c \in Criteria : CompleteBy(c, t) => CompleteBy(c, u)
                    /\ \A c \in Criteria : EnabledBy(c, t) => EnabledBy(c, u)
    OBVIOUS
<1>1. \A s, i : PassedBy(s, i, t) => PassedBy(s, i, u)
    <2>1. \A e \in events : e.step \in Int
        BY DEF TypeOK
    <2>2. \A e \in events : e.step <= t => e.step <= u
        BY <2>1
    <2> QED BY <2>2 DEF PassedBy
<1>2. \A s, i : ReachedBy(s, i, t) => ReachedBy(s, i, u)
    BY <1>1 DEF ReachedBy
<1>3. ASSUME NEW c \in Criteria, CompleteBy(c, t)
      PROVE  CompleteBy(c, u)
    <2> DEFINE Few == {s \in SequencesOf[c] : PassedBy(s, Len(Chain[s]), t)}
               Many == {s \in SequencesOf[c] : PassedBy(s, Len(Chain[s]), u)}
    <2>1. Few \subseteq Many /\ Many \subseteq SequencesOf[c]
        BY <1>1
    <2>2. Cardinality(Few) >= NumRequired(c)
        BY <1>3 DEF CompleteBy
    <2> HIDE DEF Few, Many
    <2>3. Cardinality(Many) >= NumRequired(c)
        BY <2>1, <2>2, EnoughStays
    <2> USE DEF Many
    <2> QED BY <2>3 DEF CompleteBy
<1>4. \A c \in Criteria : EnabledBy(c, t) => EnabledBy(c, u)
    BY <1>3 DEF EnabledBy
<1> QED BY <1>1, <1>2, <1>3, <1>4

(* What was passed by now is what the positions say. *)
LEMMA PresentFacts ==
    TypeOK /\ PassedArePositions =>
        \A t \in Int : t >= StepsSoFar =>
            /\ \A s \in TaskSequences : \A i \in DOMAIN Chain[s] :
                   /\ PassedBy(s, i, t) <=> i <= pos[s]
                   /\ ReachedBy(s, i, t) <=> i <= pos[s] + 1
            /\ \A c \in Criteria : CompleteBy(c, t) <=> Complete(c)
            /\ \A c \in Criteria : EnabledBy(c, t) <=> Enabled(SubtaskOf[c])
<1> SUFFICES ASSUME TypeOK, PassedArePositions, NEW t \in Int, t >= StepsSoFar
             PROVE  /\ \A s \in TaskSequences : \A i \in DOMAIN Chain[s] :
                           /\ PassedBy(s, i, t) <=> i <= pos[s]
                           /\ ReachedBy(s, i, t) <=> i <= pos[s] + 1
                    /\ \A c \in Criteria : CompleteBy(c, t) <=> Complete(c)
                    /\ \A c \in Criteria : EnabledBy(c, t) <=> Enabled(SubtaskOf[c])
    OBVIOUS
<1>1. ASSUME NEW s \in TaskSequences, NEW i \in DOMAIN Chain[s]
      PROVE  PassedBy(s, i, t) <=> i <= pos[s]
    <2>0. StepsSoFar \in Nat
        BY DEF TypeOK, StepsSoFar
    <2>1. \A e \in events : e.step \in 1 .. StepsSoFar
        BY DEF TypeOK
    <2>2. \A e \in events : e.step <= t
        BY <2>0, <2>1
    <2>3. PassedBy(s, i, t) <=> Passed(s, i)
        BY <2>2 DEF PassedBy, Passed
    <2> QED BY <2>3 DEF PassedArePositions
<1>2. ASSUME NEW s \in TaskSequences, NEW i \in DOMAIN Chain[s]
      PROVE  ReachedBy(s, i, t) <=> i <= pos[s] + 1
    <2>0. s \in AllSequences
        BY KindFacts
    <2>1. i \in 1 .. Len(Chain[s]) /\ Len(Chain[s]) \in Nat /\ pos[s] \in Nat
        BY <2>0, ChainFacts DEF TypeOK
    <2>2. CASE i = 1
        BY <2>1, <2>2 DEF ReachedBy
    <2>3. CASE i # 1
        <3>1. i - 1 \in DOMAIN Chain[s]
            BY <2>0, <2>1, <2>3, ChainFacts
        <3>2. PassedBy(s, i - 1, t) <=> i - 1 <= pos[s]
            BY <3>1, <1>1
        <3> QED BY <2>1, <2>3, <3>2 DEF ReachedBy
    <2> QED BY <2>2, <2>3
<1>3. ASSUME NEW c \in Criteria
      PROVE  CompleteBy(c, t) <=> Complete(c)
    <2>1. ASSUME NEW s \in SequencesOf[c]
          PROVE  PassedBy(s, Len(Chain[s]), t) <=> SequenceComplete(s)
        <3>1. s \in TaskSequences /\ s \in AllSequences
            BY CriteriaFacts, KindFacts
        <3>2. Len(Chain[s]) \in DOMAIN Chain[s] /\ Len(Chain[s]) \in Nat /\ pos[s] \in Nat
            BY <3>1, ChainFacts DEF TypeOK
        <3> QED BY <3>1, <3>2, <1>1 DEF SequenceComplete
    <2>2. {s \in SequencesOf[c] : PassedBy(s, Len(Chain[s]), t)}
              = {s \in SequencesOf[c] : SequenceComplete(s)}
        BY <2>1
    <2> QED BY <2>2 DEF CompleteBy, Complete
<1>4. ASSUME NEW c \in Criteria
      PROVE  EnabledBy(c, t) <=> Enabled(SubtaskOf[c])
    <2>1. \A d \in Criteria : SubtaskOf[d] < SubtaskOf[c] <=> SubtaskOf[d] \in 1 .. SubtaskOf[c] - 1
        BY CriteriaFacts, SubtaskAssumption
    <2>2. EnabledBy(c, t) <=>
              (Sequential => \A d \in Criteria : SubtaskOf[d] \in 1 .. SubtaskOf[c] - 1 => Complete(d))
        BY <2>1, <1>3 DEF EnabledBy
    <2> QED BY <2>2 DEF Enabled, SubtaskComplete
<1> QED BY <1>1, <1>2, <1>3, <1>4

(* The next step counts for the predicate at which an active sequence is.  *)
LEMMA CountsNow ==
    TypeOK /\ PassedArePositions =>
        \A s \in TaskSequences : \A i \in DOMAIN Chain[s] :
            CountsAt(s, i, StepsSoFar + 1) <=> i = pos[s] + 1 /\ Active(s)
<1> SUFFICES ASSUME TypeOK, PassedArePositions,
                    NEW s \in TaskSequences, NEW i \in DOMAIN Chain[s]
             PROVE  CountsAt(s, i, StepsSoFar + 1) <=> i = pos[s] + 1 /\ Active(s)
    OBVIOUS
<1>1. StepsSoFar \in Nat /\ StepsSoFar + 1 - 1 = StepsSoFar /\ StepsSoFar \in Int
    BY DEF TypeOK, StepsSoFar
<1>2. CriteriaOf(s) \in Criteria /\ s \notin TrackedEvents /\ s \in AllSequences
    BY CriteriaFacts, KindFacts
<1>3. pos[s] \in Nat /\ i \in Nat
    BY <1>2, ChainFacts DEF TypeOK
<1> DEFINE n == StepsSoFar
<1>4. /\ PassedBy(s, i, n) <=> i <= pos[s]
      /\ ReachedBy(s, i, n) <=> i <= pos[s] + 1
      /\ CompleteBy(CriteriaOf(s), n) <=> Complete(CriteriaOf(s))
      /\ EnabledBy(CriteriaOf(s), n) <=> Enabled(SubtaskOf[CriteriaOf(s)])
    BY <1>1, <1>2, PresentFacts
<1>5. CountsAt(s, i, n + 1) <=>
          /\ ReachedBy(s, i, n) /\ ~ PassedBy(s, i, n)
          /\ EnabledBy(CriteriaOf(s), n) /\ ~ CompleteBy(CriteriaOf(s), n)
    BY <1>1 DEF CountsAt
<1>6. i = pos[s] + 1 <=> i <= pos[s] + 1 /\ ~ i <= pos[s]
    BY <1>3
<1> QED BY <1>2, <1>4, <1>5, <1>6 DEF Active

(* What has counted was reached, and enabled. *)
LEMMA CountedIsReached ==
    TypeOK /\ PassedArePositions =>
        \A s \in TaskSequences : \A i \in DOMAIN Chain[s] : \A t \in Int :
            t <= StepsSoFar + 1 /\ CountsAt(s, i, t) =>
                i <= pos[s] + 1 /\ Enabled(SubtaskOf[CriteriaOf(s)])
<1> SUFFICES ASSUME TypeOK, PassedArePositions,
                    NEW s \in TaskSequences, NEW i \in DOMAIN Chain[s], NEW t \in Int,
                    t <= StepsSoFar + 1, CountsAt(s, i, t)
             PROVE  i <= pos[s] + 1 /\ Enabled(SubtaskOf[CriteriaOf(s)])
    OBVIOUS
<1>1. StepsSoFar \in Int /\ t - 1 \in Int /\ t - 1 <= StepsSoFar
    BY DEF TypeOK, StepsSoFar
<1>2. CriteriaOf(s) \in Criteria
    BY CriteriaFacts
<1>3. ReachedBy(s, i, StepsSoFar) /\ EnabledBy(CriteriaOf(s), StepsSoFar)
    BY <1>1, <1>2, PastStays DEF CountsAt
<1> QED BY <1>1, <1>2, <1>3, PresentFacts

-----------------------------------------------------------------------------
(* What a control step does to the history and to the task's sequences.    *)
LEMMA StepEffect ==
    ASSUME TypeOK, NEW now \in [Preds -> BOOLEAN], Step(now)
    PROVE  /\ StepsSoFar \in Nat /\ StepsSoFar' = StepsSoFar + 1
           /\ lastStep' = StepsSoFar + 1
           /\ truth' \in Seq([Preds -> BOOLEAN])
           /\ \A u \in 1 .. StepsSoFar : truth'[u] = truth[u]
           /\ truth'[StepsSoFar + 1] = now
           /\ config' = config
           /\ \A s \in TaskSequences : pos'[s] = NextPos(s, now)
           /\ \A s \in TaskSequences : \A i \in DOMAIN Chain[s] : Chain[s][i].steps > 0 =>
                  streak'[<<s, i>>] =
                      IF Evaluated(s, i) THEN NextStreak(s, i, now[Chain[s][i].pred])
                      ELSE streak[<<s, i>>]
<1>1. StepsSoFar \in Nat /\ StepsSoFar' = StepsSoFar + 1 /\ truth' \in Seq([Preds -> BOOLEAN])
      /\ (\A u \in 1 .. StepsSoFar : truth'[u] = truth[u]) /\ truth'[StepsSoFar + 1] = now
    BY DEF TypeOK, Step, StepsSoFar
<1>2. lastStep' = StepsSoFar + 1
    BY <1>1 DEF TypeOK, Step
<1>3. \A s \in TaskSequences : ~ Restarts(s, now) /\ s \in AllSequences
    BY KindFacts DEF Restarts
<1>4. \A s \in TaskSequences : pos'[s] = NextPos(s, now)
    BY <1>3 DEF Step
<1>5. ASSUME NEW s \in TaskSequences, NEW i \in DOMAIN Chain[s], Chain[s][i].steps > 0
      PROVE  streak'[<<s, i>>] =
                 IF Evaluated(s, i) THEN NextStreak(s, i, now[Chain[s][i].pred])
                 ELSE streak[<<s, i>>]
    <2>1. <<s, i>> \in Requirements /\ <<s, i>>[1] = s /\ <<s, i>>[2] = i
        BY <1>3, <1>5, RequirementFacts
    <2> QED BY <1>3, <2>1 DEF Step
<1> QED BY <1>1, <1>2, <1>4, <1>5 DEF Step

(* Positions and streaks grow by at most one, or start over. *)
LEMMA StepRanges ==
    ASSUME TypeOK, NEW now \in [Preds -> BOOLEAN], Step(now)
    PROVE  /\ \A s \in AllSequences :
                  /\ pos[s] \in Nat /\ NextPos(s, now) \in Nat
                  /\ pos[s] <= NextPos(s, now) /\ NextPos(s, now) <= pos[s] + 1
                  /\ NextPos(s, now) <= Len(Chain[s])
                  /\ Advances(s, now) <=> NextPos(s, now) = pos[s] + 1
                  /\ ~ Advances(s, now) <=> NextPos(s, now) = pos[s]
           /\ \A s \in AllSequences : \A i \in DOMAIN Chain[s] : Chain[s][i].steps > 0 =>
                  /\ streak[<<s, i>>] \in Nat
                  /\ \A holds \in BOOLEAN : NextStreak(s, i, holds) \in Nat
<1>1. ASSUME NEW s \in AllSequences
      PROVE  /\ pos[s] \in Nat /\ NextPos(s, now) \in Nat
             /\ pos[s] <= NextPos(s, now) /\ NextPos(s, now) <= pos[s] + 1
             /\ NextPos(s, now) <= Len(Chain[s])
             /\ Advances(s, now) <=> NextPos(s, now) = pos[s] + 1
             /\ ~ Advances(s, now) <=> NextPos(s, now) = pos[s]
    <2>1. pos[s] \in Nat /\ pos[s] <= Len(Chain[s]) /\ Len(Chain[s]) \in Nat
        BY ChainFacts DEF TypeOK
    <2>2. Advances(s, now) => ~ pos[s] >= Len(Chain[s])
        BY DEF Advances, SequenceComplete
    <2>3. NextPos(s, now) = pos[s] + (IF Advances(s, now) THEN 1 ELSE 0)
        BY DEF NextPos
    <2>4. CASE Advances(s, now)
        BY <2>1, <2>2, <2>3, <2>4
    <2>5. CASE ~ Advances(s, now)
        BY <2>1, <2>3, <2>5
    <2> QED BY <2>4, <2>5
<1>2. ASSUME NEW s \in AllSequences, NEW i \in DOMAIN Chain[s], Chain[s][i].steps > 0
      PROVE  streak[<<s, i>>] \in Nat /\ \A holds \in BOOLEAN : NextStreak(s, i, holds) \in Nat
    <2>1. streak[<<s, i>>] \in Nat
        BY <1>2, RequirementFacts DEF TypeOK
    <2> QED BY <2>1 DEF NextStreak
<1> QED BY <1>1, <1>2

(* A step adds the events of the predicates it passes. *)
LEMMA StepEvents ==
    ASSUME TypeOK, NEW now \in [Preds -> BOOLEAN], Step(now)
    PROVE  events' = events \cup {[sequence |-> s, index |-> pos[s] + 1, step |-> StepsSoFar + 1] :
                                      s \in {t \in TaskSequences : Advances(t, now)}}
<1>1. lastStep' = StepsSoFar + 1
    BY StepEffect
<1>2. events' = events \cup {[sequence |-> s, index |-> pos[s] + 1, step |-> lastStep'] :
                                 s \in {t \in TaskSequences : Advances(t, now)}}
    BY DEF Step, NewEvents
<1> QED BY <1>1, <1>2

LEMMA StepTypeOK ==
    ASSUME TypeOK, NEW now \in [Preds -> BOOLEAN], Step(now)
    PROVE  TypeOK'
<1>1. /\ StepsSoFar \in Nat /\ StepsSoFar' = StepsSoFar + 1 /\ lastStep' = StepsSoFar + 1
      /\ truth' \in Seq([Preds -> BOOLEAN]) /\ config' = config
    BY StepEffect
<1>2. /\ pos' \in [AllSequences -> Nat]
      /\ \A s \in AllSequences : pos'[s] <= Len(Chain[s])
    <2>1. pos' = [s \in AllSequences |-> IF Restarts(s, now) THEN 0 ELSE NextPos(s, now)]
        BY DEF Step
    <2>2. \A s \in AllSequences :
              NextPos(s, now) \in Nat /\ NextPos(s, now) <= Len(Chain[s]) /\ 0 <= Len(Chain[s])
        BY StepRanges, ChainFacts
    <2> QED BY <2>1, <2>2
<1>3. streak' \in [Requirements -> Nat]
    <2>1. ASSUME NEW r \in Requirements
          PROVE  /\ NextStreak(r[1], r[2], now[Chain[r[1]][r[2]].pred]) \in Nat
                 /\ streak[r] \in Nat
        <3>1. /\ r[1] \in AllSequences /\ r[2] \in DOMAIN Chain[r[1]]
              /\ Chain[r[1]][r[2]].steps > 0
            BY RequirementFacts
        <3>2. now[Chain[r[1]][r[2]].pred] \in BOOLEAN
            BY <3>1, ChainFacts
        <3> QED BY <3>1, <3>2, StepRanges DEF TypeOK
    <2> QED BY <2>1 DEF Step
<1>4. occurrences' \in [TrackedEvents -> Seq(Nat)]
    <2>1. \A s \in TrackedEvents : occurrences[s] \in Seq(Nat)
        BY DEF TypeOK
    <2>2. \A s \in TrackedEvents : Append(occurrences[s], lastStep') \in Seq(Nat)
        BY <1>1, <2>1
    <2> QED BY <2>1, <2>2 DEF Step
<1>5. ASSUME NEW e \in events'
      PROVE  /\ e = [sequence |-> e.sequence, index |-> e.index, step |-> e.step]
             /\ e.sequence \in TaskSequences
             /\ e.index \in DOMAIN Chain[e.sequence]
             /\ e.step \in 1 .. StepsSoFar + 1
    <2>1. CASE e \in events
        BY <1>1, <2>1 DEF TypeOK
    <2>2. CASE e \notin events
        <3>1. PICK s \in TaskSequences :
                  /\ Advances(s, now)
                  /\ e = [sequence |-> s, index |-> pos[s] + 1, step |-> StepsSoFar + 1]
            BY <2>2, StepEvents
        <3>2. s \in AllSequences
            BY KindFacts
        <3>3. pos[s] \in Nat /\ pos[s] + 1 <= Len(Chain[s])
            BY <3>1, <3>2, StepRanges
        <3>4. pos[s] + 1 \in DOMAIN Chain[s]
            BY <3>2, <3>3, ChainFacts
        <3> QED BY <1>1, <3>1, <3>4
    <2> QED BY <2>1, <2>2
<1> QED BY <1>1, <1>2, <1>3, <1>4, <1>5 DEF TypeOK

(* What had happened by a past step stays what it was. *)
LEMMA PastIsFixed ==
    ASSUME TypeOK, NEW now \in [Preds -> BOOLEAN], Step(now)
    PROVE  /\ \A t \in Int : t <= StepsSoFar =>
                  /\ \A s, i : PassedBy(s, i, t)' <=> PassedBy(s, i, t)
                  /\ \A s, i : ReachedBy(s, i, t)' <=> ReachedBy(s, i, t)
                  /\ \A c \in Criteria : CompleteBy(c, t)' <=> CompleteBy(c, t)
                  /\ \A c \in Criteria : EnabledBy(c, t)' <=> EnabledBy(c, t)
           /\ \A t \in Int : t <= StepsSoFar + 1 =>
                  \A s \in TaskSequences : \A i : CountsAt(s, i, t)' <=> CountsAt(s, i, t)
           /\ \A t \in Int : t <= StepsSoFar =>
                  \A s \in AllSequences : \A i \in DOMAIN Chain[s] :
                      HeldAt(s, i, t)' <=> HeldAt(s, i, t)
<1>0. StepsSoFar \in Nat
    BY StepEffect
<1>1. ASSUME NEW t \in Int, t <= StepsSoFar, NEW s, NEW i
      PROVE  PassedBy(s, i, t)' <=> PassedBy(s, i, t)
    <2>1. \A e \in events' : e.step <= t => e \in events
        <3> SUFFICES ASSUME NEW e \in events', e.step <= t, e \notin events PROVE FALSE
            OBVIOUS
        <3>1. e.step = StepsSoFar + 1
            BY StepEvents
        <3> QED BY <1>0, <1>1, <3>1
    <2>2. events \subseteq events'
        BY StepEvents
    <2> QED BY <2>1, <2>2 DEF PassedBy
<1>2. ASSUME NEW t \in Int, t <= StepsSoFar, NEW s, NEW i
      PROVE  ReachedBy(s, i, t)' <=> ReachedBy(s, i, t)
    BY <1>1, <1>2 DEF ReachedBy
<1>3. ASSUME NEW t \in Int, t <= StepsSoFar, NEW c \in Criteria
      PROVE  CompleteBy(c, t)' <=> CompleteBy(c, t)
    <2>1. {s \in SequencesOf[c] : PassedBy(s, Len(Chain[s]), t)'}
              = {s \in SequencesOf[c] : PassedBy(s, Len(Chain[s]), t)}
        BY <1>1, <1>3
    <2> QED BY <2>1 DEF CompleteBy
<1>4. ASSUME NEW t \in Int, t <= StepsSoFar, NEW c \in Criteria
      PROVE  EnabledBy(c, t)' <=> EnabledBy(c, t)
    <2>1. Sequential' <=> Sequential
        BY StepEffect DEF Sequential
    <2> QED BY <2>1, <1>3, <1>4 DEF EnabledBy
<1>5. ASSUME NEW t \in Int, t <= StepsSoFar + 1, NEW s \in TaskSequences, NEW i
      PROVE  CountsAt(s, i, t)' <=> CountsAt(s, i, t)
    <2>1. t - 1 \in Int /\ t - 1 <= StepsSoFar /\ CriteriaOf(s) \in Criteria
        BY <1>0, <1>5, CriteriaFacts
    <2> DEFINE v == t - 1
    <2>2. /\ ReachedBy(s, i, v)' <=> ReachedBy(s, i, v)
          /\ PassedBy(s, i, v)' <=> PassedBy(s, i, v)
          /\ CompleteBy(CriteriaOf(s), v)' <=> CompleteBy(CriteriaOf(s), v)
          /\ EnabledBy(CriteriaOf(s), v)' <=> EnabledBy(CriteriaOf(s), v)
        BY <2>1, <1>1, <1>2, <1>3, <1>4
    <2> QED BY <2>2 DEF CountsAt
<1>6. ASSUME NEW t \in Int, t <= StepsSoFar,
             NEW s \in AllSequences, NEW i \in DOMAIN Chain[s]
      PROVE  HeldAt(s, i, t)' <=> HeldAt(s, i, t)
    <2>1. \A u \in t - Duration(s, i) + 1 .. t : u \in 1 .. t => truth'[u] = truth[u]
        <3>1. \A u \in 1 .. t : u \in 1 .. StepsSoFar
            BY <1>0, <1>6
        <3> QED BY <3>1, StepEffect
    <2> QED BY <2>1 DEF HeldAt, Duration
<1> QED BY <1>1, <1>2, <1>3, <1>4, <1>5, <1>6

LEMMA StepPassed ==
    ASSUME TypeOK, PassedArePositions, NEW now \in [Preds -> BOOLEAN], Step(now)
    PROVE  PassedArePositions'
<1> SUFFICES ASSUME NEW s \in TaskSequences, NEW i \in DOMAIN Chain[s]
             PROVE  i <= pos'[s] <=> Passed(s, i)'
    BY DEF PassedArePositions
<1>1. s \in AllSequences
    BY KindFacts
<1>2. Passed(s, i)' <=> Passed(s, i) \/ (i = pos[s] + 1 /\ Advances(s, now))
    <2>1. ASSUME i = pos[s] + 1, Advances(s, now)
          PROVE  Passed(s, i)'
        <3> DEFINE e == [sequence |-> s, index |-> pos[s] + 1, step |-> StepsSoFar + 1]
        <3>1. e \in events'
            BY <2>1, StepEvents
        <3> QED BY <2>1, <3>1 DEF Passed
    <2>2. ASSUME Passed(s, i)', ~ Passed(s, i)
          PROVE  i = pos[s] + 1 /\ Advances(s, now)
        <3>1. PICK e \in events' : e.sequence = s /\ e.index = i
            BY <2>2 DEF Passed
        <3>2. e \notin events
            BY <2>2, <3>1 DEF Passed
        <3> QED BY <3>1, <3>2, StepEvents
    <2>3. Passed(s, i) => Passed(s, i)'
        BY StepEvents DEF Passed
    <2> QED BY <2>1, <2>2, <2>3
<1>3. i <= pos[s] <=> Passed(s, i)
    BY DEF PassedArePositions
<1>4. i \in Nat /\ pos[s] \in Nat
    BY <1>1, ChainFacts DEF TypeOK
<1>5. pos'[s] = NextPos(s, now)
    BY StepEffect
<1>6. CASE Advances(s, now)
    <2>1. pos'[s] = pos[s] + 1
        BY <1>1, <1>5, <1>6, StepRanges
    <2> QED BY <1>2, <1>3, <1>4, <1>6, <2>1
<1>7. CASE ~ Advances(s, now)
    <2>1. pos'[s] = pos[s]
        BY <1>1, <1>5, <1>7, StepRanges
    <2> QED BY <1>2, <1>3, <1>7, <2>1
<1> QED BY <1>6, <1>7

(* Positions of the task's sequences do not go back: what is complete or   *)
(* enabled stays so.                                                       *)
LEMMA StepKeepsComplete ==
    ASSUME TypeOK, NEW now \in [Preds -> BOOLEAN], Step(now)
    PROVE  /\ \A s \in TaskSequences : SequenceComplete(s) => SequenceComplete(s)'
           /\ \A c \in Criteria : Complete(c) => Complete(c)'
           /\ \A k : Enabled(k) => Enabled(k)'
<1>1. ASSUME NEW s \in TaskSequences, SequenceComplete(s)
      PROVE  SequenceComplete(s)'
    <2>1. s \in AllSequences
        BY KindFacts
    <2>2. pos[s] \in Nat /\ pos'[s] \in Nat /\ pos[s] <= pos'[s] /\ Len(Chain[s]) \in Nat
        BY <2>1, StepEffect, StepRanges, ChainFacts
    <2> QED BY <1>1, <2>2 DEF SequenceComplete
<1>2. ASSUME NEW c \in Criteria, Complete(c)
      PROVE  Complete(c)'
    <2> DEFINE Few == {s \in SequencesOf[c] : SequenceComplete(s)}
               Many == {s \in SequencesOf[c] : SequenceComplete(s)'}
    <2>1. Few \subseteq Many /\ Many \subseteq SequencesOf[c]
        BY <1>1, CriteriaFacts
    <2>2. Cardinality(Few) >= NumRequired(c)
        BY <1>2 DEF Complete
    <2> HIDE DEF Few, Many
    <2>3. Cardinality(Many) >= NumRequired(c)
        BY <2>1, <2>2, EnoughStays
    <2> USE DEF Many
    <2> QED BY <2>3 DEF Complete
<1>3. ASSUME NEW k, Enabled(k)
      PROVE  Enabled(k)'
    <2>1. Sequential' <=> Sequential
        BY StepEffect DEF Sequential
    <2> QED BY <2>1, <1>2, <1>3 DEF Enabled, SubtaskComplete
<1> QED BY <1>1, <1>2, <1>3

LEMMA StepStarted ==
    ASSUME TypeOK, StartedAreEnabled, NEW now \in [Preds -> BOOLEAN], Step(now)
    PROVE  StartedAreEnabled'
<1> SUFFICES ASSUME NEW s \in TaskSequences, pos'[s] > 0
             PROVE  Enabled(SubtaskOf[CriteriaOf(s)])'
    BY DEF StartedAreEnabled
<1>1. s \in AllSequences /\ s \notin TrackedEvents
    BY KindFacts
<1>2. CASE Advances(s, now)
    BY <1>1, <1>2, StepKeepsComplete DEF Advances, Active
<1>3. CASE ~ Advances(s, now)
    <2>1. pos'[s] = pos[s]
        BY <1>1, <1>3, StepEffect, StepRanges
    <2> QED BY <2>1, StepKeepsComplete DEF StartedAreEnabled
<1> QED BY <1>2, <1>3

LEMMA StepReached ==
    ASSUME TypeOK, StreaksAreReached, NEW now \in [Preds -> BOOLEAN], Step(now)
    PROVE  StreaksAreReached'
<1> SUFFICES ASSUME NEW s \in AllSequences, NEW i \in DOMAIN Chain[s],
                    Chain[s][i].steps > 0, i > pos'[s] + 1
             PROVE  streak'[<<s, i>>] = 0
    BY DEF StreaksAreReached
<1>1. <<s, i>> \in Requirements /\ <<s, i>>[1] = s /\ <<s, i>>[2] = i
    BY RequirementFacts
<1>2. CASE Restarts(s, now)
    BY <1>1, <1>2 DEF Step
<1>3. CASE ~ Restarts(s, now)
    <2>1. pos'[s] = NextPos(s, now)
        BY <1>3 DEF Step
    <2>2. pos[s] \in Nat /\ i \in Nat /\ i > pos[s] + 1
        BY <2>1, StepRanges, ChainFacts
    <2>3. ~ Evaluated(s, i)
        BY <2>2 DEF Evaluated
    <2>4. streak[<<s, i>>] = 0
        BY <2>2 DEF StreaksAreReached
    <2> QED BY <1>1, <1>3, <2>3, <2>4 DEF Step
<1> QED BY <1>2, <1>3

(* How the streak of an evaluated requirement counts on. *)
LEMMA NextStreakCounts ==
    ASSUME NEW s, NEW i, NEW holds \in BOOLEAN,
           streak[<<s, i>>] \in Nat, Chain[s][i].steps \in Nat,
           NEW k \in Nat, k + 1 <= Chain[s][i].steps
    PROVE  NextStreak(s, i, holds) >= k + 1 <=> holds /\ streak[<<s, i>>] >= k
BY DEF NextStreak

(* A requirement counted for one step more: it held and counted in this.   *)
LEMMA CountedOneMore ==
    ASSUME TypeOK, PassedArePositions, NEW now \in [Preds -> BOOLEAN], Step(now),
           NEW s \in TaskSequences, NEW i \in DOMAIN Chain[s], NEW j \in Nat
    PROVE  CountedFor(s, i, j + 1)' <=>
               /\ now[Chain[s][i].pred]
               /\ i = pos[s] + 1 /\ Active(s)
               /\ CountedFor(s, i, j)
<1>0. PICK n \in Nat, k \in Nat : n = StepsSoFar /\ k = j + 1
    BY StepEffect
<1>1. PICK m \in Nat : m = n + 1 /\ StepsSoFar' = m
    BY <1>0, StepEffect
<1>2. CountsAt(s, i, m)' <=> i = pos[s] + 1 /\ Active(s)
    <2>1. m \in Int /\ m <= StepsSoFar + 1 /\ m = StepsSoFar + 1
        BY <1>0, <1>1
    <2>2. CountsAt(s, i, m)' <=> CountsAt(s, i, m)
        BY <2>1, PastIsFixed
    <2>3. \A u : u = StepsSoFar + 1 => (CountsAt(s, i, u) <=> i = pos[s] + 1 /\ Active(s))
        BY CountsNow
    <2> QED BY <2>1, <2>2, <2>3
<1>3. CountedFor(s, i, k)' <=>
          \A u \in m - k + 1 .. m :
              u >= 1 /\ truth'[u][Chain[s][i].pred] /\ CountsAt(s, i, u)'
    BY <1>1 DEF CountedFor
<1>4. CountedFor(s, i, j) <=>
          \A u \in n - j + 1 .. n :
              u >= 1 /\ truth[u][Chain[s][i].pred] /\ CountsAt(s, i, u)
    BY <1>0 DEF CountedFor
<1>5. \A u : u \in m - k + 1 .. m <=> u \in n - j + 1 .. n \/ u = m
    BY <1>0, <1>1
<1>6. ASSUME NEW u \in n - j + 1 .. n, u >= 1
      PROVE  truth'[u] = truth[u] /\ (CountsAt(s, i, u)' <=> CountsAt(s, i, u))
    <2>1. u \in 1 .. n /\ u \in Int /\ u <= n + 1
        BY <1>6
    <2> QED BY <1>0, <2>1, StepEffect, PastIsFixed
<1>7. truth'[m] = now /\ m >= 1
    BY <1>0, <1>1, StepEffect
<1> QED BY <1>0, <1>2, <1>3, <1>4, <1>5, <1>6, <1>7

LEMMA StepCounted ==
    ASSUME TypeOK, PassedArePositions, StartedAreEnabled, StreaksAreReached, StreaksAreCounted,
           NEW now \in [Preds -> BOOLEAN], Step(now)
    PROVE  StreaksAreCounted'
<1> SUFFICES ASSUME NEW s \in TaskSequences, NEW i \in DOMAIN Chain[s],
                    Chain[s][i].steps > 0, i > pos'[s], ~ Complete(CriteriaOf(s))',
                    NEW k \in 0 .. Chain[s][i].steps
             PROVE  streak'[<<s, i>>] >= k <=> CountedFor(s, i, k)'
    BY DEF StreaksAreCounted
<1> DEFINE p == Chain[s][i].pred
<1>0. PICK n \in Nat : n = StepsSoFar
    BY StepEffect
<1>1. s \in AllSequences /\ s \notin TrackedEvents
    BY KindFacts
<1>2. CriteriaOf(s) \in Criteria /\ ~ Complete(CriteriaOf(s))
    BY CriteriaFacts, StepKeepsComplete
<1>3. /\ pos[s] \in Nat /\ i \in Nat /\ i >= 1 /\ i <= Len(Chain[s]) /\ i > pos[s]
      /\ Len(Chain[s]) \in Nat
    BY <1>1, StepEffect, StepRanges, ChainFacts
<1>4. n \in Nat /\ StepsSoFar = n /\ StepsSoFar' = n + 1 /\ n + 1 \in Int
    BY <1>0, StepEffect
<1>5. /\ Chain[s][i].steps \in Nat /\ p \in Preds /\ now[p] \in BOOLEAN
      /\ streak[<<s, i>>] \in Nat
    BY <1>1, ChainFacts, StepRanges
<1>6. \A j \in 0 .. Chain[s][i].steps : streak[<<s, i>>] >= j <=> CountedFor(s, i, j)
    BY <1>2, <1>3 DEF StreaksAreCounted
<1>7. Evaluated(s, i) <=> i = pos[s] + 1 /\ Active(s)
    <2>1. i = Len(Chain[s]) => ~ SequenceComplete(s)
        BY <1>3 DEF SequenceComplete
    <2>2. ~ (Rechecked(s) /\ i = Len(Chain[s]) /\ pos[s] >= i - 1)
        BY <1>1, <1>2, <2>1 DEF Rechecked
    <2> QED BY <2>2 DEF Evaluated
<1>8. streak'[<<s, i>>] = IF Evaluated(s, i) THEN NextStreak(s, i, now[p]) ELSE streak[<<s, i>>]
    BY StepEffect
<1>9. CASE k = 0
    <2>1. streak'[<<s, i>>] \in Nat
        BY <1>5, <1>8, <1>1, StepRanges
    <2>2. CountedFor(s, i, 0)'
        BY <1>4 DEF CountedFor
    <2> QED BY <1>9, <2>1, <2>2
<1>10. CASE k # 0
    <2> DEFINE j == k - 1
    <2>1. j \in Nat /\ j \in 0 .. Chain[s][i].steps /\ k = j + 1 /\ j + 1 <= Chain[s][i].steps
        BY <1>5, <1>10
    <2>2. CountedFor(s, i, k)' <=>
              now[p] /\ i = pos[s] + 1 /\ Active(s) /\ CountedFor(s, i, j)
        <3> HIDE DEF j
        <3> QED BY <2>1, CountedOneMore
    <2>3. CASE Evaluated(s, i)
        <3>1. NextStreak(s, i, now[p]) >= k <=> now[p] /\ streak[<<s, i>>] >= j
            BY <1>5, <2>1, NextStreakCounts
        <3> QED BY <1>6, <1>7, <1>8, <2>1, <2>2, <2>3, <3>1
    <2>4. CASE ~ Evaluated(s, i)
        <3>1. ~ CountedFor(s, i, k)'
            BY <1>7, <2>2, <2>4
        <3>2. streak[<<s, i>>] = 0
            <4>1. CASE i > pos[s] + 1
                BY <1>1, <4>1 DEF StreaksAreReached
            <4>2. CASE ~ i > pos[s] + 1
                <5>1. i = pos[s] + 1 /\ ~ Enabled(SubtaskOf[CriteriaOf(s)])
                    BY <1>1, <1>2, <1>3, <1>7, <2>4, <4>2 DEF Active
                <5>2. ~ CountsAt(s, i, n)
                    BY <1>4, <5>1, CountedIsReached
                <5>3. n \in n - 1 + 1 .. n /\ 1 \in 0 .. Chain[s][i].steps
                    BY <1>4, <1>5
                <5>4. ~ CountedFor(s, i, 1)
                    BY <1>4, <5>2, <5>3 DEF CountedFor
                <5>5. ~ streak[<<s, i>>] >= 1
                    BY <1>6, <5>3, <5>4
                <5> QED BY <1>5, <5>5
            <4> QED BY <4>1, <4>2
        <3> QED BY <1>8, <1>10, <2>1, <2>4, <3>1, <3>2
    <2> QED BY <2>3, <2>4
<1> QED BY <1>9, <1>10

-----------------------------------------------------------------------------
(* Final conditions. *)
LEMMA CompleteIsEnabled ==
    TypeOK /\ StartedAreEnabled => \A c \in Criteria : Complete(c) => Enabled(SubtaskOf[c])
<1> SUFFICES ASSUME TypeOK, StartedAreEnabled, NEW c \in Criteria, Complete(c)
             PROVE  Enabled(SubtaskOf[c])
    OBVIOUS
<1>1. PICK s \in SequencesOf[c] : SequenceComplete(s)
    <2> DEFINE Done == {s \in SequencesOf[c] : SequenceComplete(s)}
    <2>1. Cardinality(Done) >= NumRequired(c)
        BY DEF Complete
    <2> HIDE DEF Done
    <2>2. Done # {}
        BY <2>1, EnoughIsSome
    <2> QED BY <2>2 DEF Done
<1>2. s \in TaskSequences /\ s \in AllSequences /\ CriteriaOf(s) = c
    BY CriteriaFacts, KindFacts
<1>3. pos[s] > 0
    BY <1>1, <1>2, ChainFacts DEF SequenceComplete, TypeOK
<1> QED BY <1>2, <1>3 DEF StartedAreEnabled

(* A final condition that takes part in success is evaluated whenever its  *)
(* predicate was reached, finished or not.                                 *)
LEMMA FinalIsEvaluated ==
    TypeOK /\ StartedAreEnabled =>
        \A s \in TaskSequences : FinalConditionsCount(SubtaskOf[CriteriaOf(s)]) =>
            (Evaluated(s, Len(Chain[s])) <=>
                 pos[s] >= Len(Chain[s]) - 1 /\ Enabled(SubtaskOf[CriteriaOf(s)]))
<1> SUFFICES ASSUME TypeOK, StartedAreEnabled, NEW s \in TaskSequences,
                    FinalConditionsCount(SubtaskOf[CriteriaOf(s)])
             PROVE  Evaluated(s, Len(Chain[s])) <=>
                        pos[s] >= Len(Chain[s]) - 1 /\ Enabled(SubtaskOf[CriteriaOf(s)])
    OBVIOUS
<1> DEFINE c == CriteriaOf(s)
           last == Len(Chain[s])
<1>1. s \in AllSequences /\ s \notin TrackedEvents /\ c \in Criteria
    BY KindFacts, CriteriaFacts
<1>2. pos[s] \in Nat /\ last \in Nat /\ last >= 1 /\ pos[s] <= last
    BY <1>1, ChainFacts DEF TypeOK
<1>3. SequenceComplete(s) => Enabled(SubtaskOf[c])
    BY <1>2 DEF SequenceComplete, StartedAreEnabled
<1>4. Rechecked(s) <=> Complete(c) \/ SequenceComplete(s)
    BY <1>1 DEF Rechecked
<1>5. Active(s) <=> Enabled(SubtaskOf[c]) /\ ~ Complete(c)
    BY <1>1 DEF Active
<1>6. Evaluated(s, last) <=>
          \/ Active(s) /\ last = pos[s] + 1
          \/ Rechecked(s) /\ pos[s] >= last - 1
    BY DEF Evaluated
<1>7. pos[s] >= last - 1 <=> last = pos[s] + 1 \/ pos[s] >= last
    BY <1>2
<1>8. Complete(c) => Enabled(SubtaskOf[c])
    BY <1>1, CompleteIsEnabled
<1> QED BY <1>3, <1>4, <1>5, <1>6, <1>7, <1>8 DEF SequenceComplete

LEMMA UnreachedFinal ==
    TypeOK /\ PassedArePositions /\ StartedAreEnabled /\ FinalStreaks =>
        \A s \in TaskSequences :
            /\ Chain[s][Len(Chain[s])].steps > 0
            /\ FinalConditionsCount(SubtaskOf[CriteriaOf(s)])
            /\ ~ Evaluated(s, Len(Chain[s]))
            => streak[<<s, Len(Chain[s])>>] = 0
<1> SUFFICES ASSUME TypeOK, PassedArePositions, StartedAreEnabled, FinalStreaks,
                    NEW s \in TaskSequences,
                    Chain[s][Len(Chain[s])].steps > 0,
                    FinalConditionsCount(SubtaskOf[CriteriaOf(s)]),
                    streak[<<s, Len(Chain[s])>>] # 0
             PROVE  Evaluated(s, Len(Chain[s]))
    OBVIOUS
<1> DEFINE c == CriteriaOf(s)
           last == Len(Chain[s])
<1>1. s \in AllSequences /\ c \in Criteria
    BY KindFacts, CriteriaFacts
<1>2. /\ pos[s] \in Nat /\ last \in Nat /\ last \in DOMAIN Chain[s]
      /\ Chain[s][last].steps \in Nat /\ 1 \in 1 .. Chain[s][last].steps
    BY <1>1, ChainFacts DEF TypeOK
<1>3. streak[<<s, last>>] \in Nat
    BY <1>1, <1>2, RequirementFacts DEF TypeOK
<1>4. FinalFor(s, 1)
    BY <1>2, <1>3 DEF FinalStreaks
<1>5. StepsSoFar \in Int /\ StepsSoFar - 1 \in Int /\ StepsSoFar - 1 <= StepsSoFar
      /\ StepsSoFar >= StepsSoFar
    BY DEF TypeOK, StepsSoFar
<1>6. PICK t \in {StepsSoFar - 1} : ReachedBy(s, last, t) /\ EnabledBy(c, t)
    BY <1>4 DEF FinalFor
<1>7. ReachedBy(s, last, StepsSoFar) /\ EnabledBy(c, StepsSoFar)
    BY <1>1, <1>5, <1>6, PastStays
<1>8. last <= pos[s] + 1 /\ Enabled(SubtaskOf[c])
    BY <1>1, <1>2, <1>5, <1>7, PresentFacts
<1> QED BY <1>2, <1>8, FinalIsEvaluated

LEMMA StepFinal ==
    ASSUME TypeOK, PassedArePositions, StartedAreEnabled, FinalStreaks,
           NEW now \in [Preds -> BOOLEAN], Step(now)
    PROVE  FinalStreaks'
<1>a. ChecksFinal' <=> ChecksFinal
    BY StepEffect DEF ChecksFinal
<1> SUFFICES ASSUME NEW s \in TaskSequences,
                    Chain[s][Len(Chain[s])].steps > 0,
                    FinalConditionsCount(SubtaskOf[CriteriaOf(s)]),
                    NEW k \in 1 .. Chain[s][Len(Chain[s])].steps
             PROVE  streak'[<<s, Len(Chain[s])>>] >= k <=> FinalFor(s, k)'
    BY <1>a DEF FinalStreaks, FinalConditionsCount
<1> DEFINE c == CriteriaOf(s)
           last == Len(Chain[s])
           p == Chain[s][last].pred
<1>0. PICK n \in Nat : n = StepsSoFar
    BY StepEffect
<1>1. s \in AllSequences /\ c \in Criteria
    BY KindFacts, CriteriaFacts
<1>2. /\ pos[s] \in Nat /\ last \in Nat /\ last \in DOMAIN Chain[s]
      /\ Chain[s][last].steps \in Nat /\ p \in Preds /\ now[p] \in BOOLEAN
      /\ streak[<<s, last>>] \in Nat
    BY <1>1, ChainFacts, StepRanges
<1>3. StepsSoFar = n /\ StepsSoFar' = n + 1 /\ n \in Int /\ n >= n
    BY <1>0, StepEffect
<1> DEFINE j == k - 1
           first == n + 1 - k
<1>4. j \in Nat /\ k = j + 1 /\ j + 1 <= Chain[s][last].steps
      /\ first \in Int /\ first <= n /\ first = n - j
    BY <1>2
<1>5. streak'[<<s, last>>] =
          IF Evaluated(s, last) THEN NextStreak(s, last, now[p]) ELSE streak[<<s, last>>]
    BY <1>2, StepEffect
<1>6. FinalFor(s, k)' <=>
          /\ ReachedBy(s, last, first) /\ EnabledBy(c, first) /\ now[p]
          /\ \A u \in first + 1 .. n : u >= 1 /\ truth[u][p]
    <2> HIDE DEF first
    <2>1. FinalFor(s, k)' <=>
              /\ ReachedBy(s, last, first)' /\ EnabledBy(c, first)'
              /\ \A u \in first + 1 .. n + 1 : u >= 1 /\ truth'[u][p]
        BY <1>3 DEF FinalFor, first
    <2>2. /\ ReachedBy(s, last, first)' <=> ReachedBy(s, last, first)
          /\ EnabledBy(c, first)' <=> EnabledBy(c, first)
        BY <1>1, <1>3, <1>4, PastIsFixed
    <2>3. \A u : u \in first + 1 .. n + 1 <=> u \in first + 1 .. n \/ u = n + 1
        BY <1>4
    <2>4. \A u \in first + 1 .. n : u >= 1 => truth'[u] = truth[u]
        <3>1. \A u \in first + 1 .. n : u >= 1 => u \in 1 .. n
            BY <1>4
        <3> QED BY <1>3, <3>1, StepEffect
    <2>5. truth'[n + 1] = now /\ n + 1 >= 1
        BY <1>3, StepEffect
    <2> QED BY <2>1, <2>2, <2>3, <2>4, <2>5
<1>7. Evaluated(s, last) <=> last <= pos[s] + 1 /\ Enabled(SubtaskOf[c])
    BY <1>2, FinalIsEvaluated
<1>8. ~ Evaluated(s, last) => streak[<<s, last>>] = 0
    BY UnreachedFinal
<1>9. Evaluated(s, last) => (streak'[<<s, last>>] >= k <=> now[p] /\ streak[<<s, last>>] >= j)
    BY <1>2, <1>4, <1>5, NextStreakCounts
<1>10. CASE j = 0
    <2>1. first = n
        BY <1>4, <1>10
    <2>2. /\ ReachedBy(s, last, n) <=> last <= pos[s] + 1
          /\ EnabledBy(c, n) <=> Enabled(SubtaskOf[c])
        BY <1>1, <1>2, <1>3, PresentFacts
    <2>3. FinalFor(s, k)' <=> Evaluated(s, last) /\ now[p]
        <3>1. \A u : u \notin n + 1 .. n
            OBVIOUS
        <3> QED BY <1>6, <1>7, <2>1, <2>2, <3>1
    <2>4. streak[<<s, last>>] >= j /\ k = 1
        BY <1>2, <1>4, <1>10
    <2> HIDE DEF j
    <2> QED BY <1>5, <1>8, <1>9, <2>3, <2>4
<1>11. CASE j # 0
    <2>1. j \in 1 .. Chain[s][last].steps
        BY <1>4, <1>11, <1>2
    <2>2. FinalFor(s, j) <=>
              /\ ReachedBy(s, last, first) /\ EnabledBy(c, first)
              /\ \A u \in first + 1 .. n : u >= 1 /\ truth[u][p]
        BY <1>3, <1>4 DEF FinalFor
    <2>3. streak[<<s, last>>] >= j <=> FinalFor(s, j)
        BY <2>1 DEF FinalStreaks
    <2>4. FinalFor(s, k)' <=> now[p] /\ streak[<<s, last>>] >= j
        BY <1>6, <2>2, <2>3
    <2>5. k >= 1 /\ j >= 1 /\ ~ 0 >= k /\ ~ 0 >= j
        BY <2>1
    <2> HIDE DEF j
    <2> QED BY <1>5, <1>8, <1>9, <2>4, <2>5
<1> QED BY <1>10, <1>11

LEMMA StepSuccess ==
    ASSUME TypeOK, PassedArePositions, StartedAreEnabled, FinalStreaks,
           NEW now \in [Preds -> BOOLEAN], Step(now)
    PROVE  SuccessIsOfPositions'
<1>1. ChecksFinal' <=> ChecksFinal
    BY StepEffect DEF ChecksFinal
<1>2. ASSUME NEW s \in TaskSequences, FinalConditionsCount(SubtaskOf[CriteriaOf(s)])
      PROVE  FinalConditionMet(s, now) <=> FinalNow(s)'
    <2> DEFINE last == Len(Chain[s])
               p == Chain[s][last].pred
    <2>1. s \in AllSequences
        BY KindFacts
    <2>2. /\ last \in DOMAIN Chain[s] /\ Chain[s][last].steps \in Nat
          /\ p \in Preds /\ now[p] \in BOOLEAN
        BY <2>1, ChainFacts
    <2>3. pos'[s] = NextPos(s, now) /\ truth'[StepsSoFar'] = now
        BY StepEffect
    <2>4. CASE Chain[s][last].steps = 0
        BY <2>3, <2>4 DEF FinalConditionMet, FinalNow, Result
    <2>5. CASE Chain[s][last].steps > 0
        <3>1. streak'[<<s, last>>] =
                  IF Evaluated(s, last) THEN NextStreak(s, last, now[p]) ELSE streak[<<s, last>>]
            BY <2>2, <2>5, StepEffect
        <3>2. ~ Evaluated(s, last) => streak[<<s, last>>] = 0
            BY <1>2, <2>5, UnreachedFinal
        <3>3. Result(s, last, now) <=> streak'[<<s, last>>] >= Chain[s][last].steps
            BY <2>2, <2>5, <3>1, <3>2 DEF Result
        <3> QED BY <2>2, <2>3, <2>5, <3>3 DEF FinalConditionMet, FinalNow
    <2> QED BY <2>2, <2>4, <2>5
<1>3. ASSUME ChecksFinal, NEW c \in Criteria, Desired[SubtaskOf[c]] # "ignored"
      PROVE  FinalConditionsMet(c, now) <=> FinalsNow(c)'
    <2>1. \A s \in SequencesOf[c] : FinalConditionMet(s, now) <=> FinalNow(s)'
        BY <1>2, <1>3, CriteriaFacts DEF FinalConditionsCount
    <2>2. {s \in SequencesOf[c] : FinalConditionMet(s, now)} = {s \in SequencesOf[c] : FinalNow(s)'}
        BY <2>1
    <2> QED BY <2>2 DEF FinalConditionsMet, FinalsNow
<1>4. CASE ~ ChecksFinal
    <2>1. success' = (\A c \in Criteria : Complete(c)')
        BY <1>4 DEF Step, TaskSuccess
    <2> QED BY <1>1, <1>4, <2>1 DEF SuccessIsOfPositions
<1>5. CASE ChecksFinal
    <2> DEFINE Checked == {j \in 1 .. NumSubtasks : Desired[j] # "ignored"}
    <2>1. success' = \A k \in Checked :
              /\ SubtaskComplete(k)'
              /\ (\A c \in Criteria : SubtaskOf[c] = k => FinalConditionsMet(c, now))
                     = (Desired[k] = "met")
        BY <1>5 DEF Step, TaskSuccess
    <2>2. ASSUME NEW k \in Checked
          PROVE  (\A c \in Criteria : SubtaskOf[c] = k => FinalConditionsMet(c, now))
                     <=> (\A c \in Criteria : SubtaskOf[c] = k => FinalsNow(c)')
        BY <1>3, <1>5
    <2>3. (\A k \in Checked :
               /\ SubtaskComplete(k)'
               /\ (\A c \in Criteria : SubtaskOf[c] = k => FinalConditionsMet(c, now))
                      = (Desired[k] = "met"))
          <=> (\A k \in Checked :
               /\ SubtaskComplete(k)'
               /\ (\A c \in Criteria : SubtaskOf[c] = k => FinalsNow(c)') = (Desired[k] = "met"))
        BY <2>2
    <2> QED BY <1>1, <1>5, <2>1, <2>3 DEF SuccessIsOfPositions
<1> QED BY <1>4, <1>5

-----------------------------------------------------------------------------
(* Milestones. *)
LEMMA StepMilestones ==
    ASSUME TypeOK, PassedArePositions, StreaksAreCounted, MilestonesExact,
           NEW now \in [Preds -> BOOLEAN], Step(now)
    PROVE  MilestonesExact'
<1>0. PICK n \in Nat : n = StepsSoFar
    BY StepEffect
<1>1. StepsSoFar = n /\ StepsSoFar' = n + 1 /\ n + 1 \in Int
    BY <1>0, StepEffect
<1> SUFFICES ASSUME NEW s \in TaskSequences, NEW i \in DOMAIN Chain[s], NEW t \in 1 .. n + 1
             PROVE  [sequence |-> s, index |-> i, step |-> t] \in events' <=> Earned(s, i, t)'
    BY <1>1 DEF MilestonesExact
<1> DEFINE e == [sequence |-> s, index |-> i, step |-> t]
           p == Chain[s][i].pred
<1>2. s \in AllSequences /\ s \notin TrackedEvents /\ CriteriaOf(s) \in Criteria
    BY KindFacts, CriteriaFacts
<1>3. /\ pos[s] \in Nat /\ i \in Nat /\ i >= 1 /\ i <= Len(Chain[s]) /\ Len(Chain[s]) \in Nat
      /\ Chain[s][i].steps \in Nat /\ p \in Preds /\ now[p] \in BOOLEAN
    BY <1>2, ChainFacts DEF TypeOK
<1>4. e \in events' <=> e \in events \/ (t = n + 1 /\ i = pos[s] + 1 /\ Advances(s, now))
    BY <1>1, StepEvents
<1>5. e \in events => t # n + 1
    BY <1>1 DEF TypeOK
<1>6. CASE t # n + 1
    <2>1. t \in 1 .. n /\ t \in Int /\ t <= n
        BY <1>6
    <2>2. HeldAt(s, i, t)' <=> HeldAt(s, i, t)
        BY <1>1, <1>2, <2>1, PastIsFixed
    <2>3. \A u \in t - Duration(s, i) + 1 .. t : CountsAt(s, i, u)' <=> CountsAt(s, i, u)
        <3>1. \A u \in t - Duration(s, i) + 1 .. t : u \in Int /\ u <= n + 1
            BY <1>3, <2>1 DEF Duration
        <3> QED BY <1>1, <3>1, PastIsFixed
    <2>4. Earned(s, i, t)' <=> Earned(s, i, t)
        BY <2>2, <2>3 DEF Earned, Duration
    <2>5. e \in events <=> Earned(s, i, t)
        BY <1>1, <2>1 DEF MilestonesExact
    <2> QED BY <1>4, <1>6, <2>4, <2>5
<1>7. CASE t = n + 1
    <2>1. Advances(s, now) /\ i = pos[s] + 1 <=>
              i = pos[s] + 1 /\ Active(s) /\ Result(s, i, now)
        BY <1>3 DEF Advances, SequenceComplete
    <2>2. CASE Chain[s][i].steps = 0
        <3>1. Earned(s, i, t)' <=> truth'[n + 1][p] /\ CountsAt(s, i, n + 1)'
            <4>1. \A u : u \in t - 1 + 1 .. t <=> u = n + 1
                BY <1>7
            <4>2. Duration(s, i) = 1
                BY <2>2 DEF Duration
            <4> QED BY <1>7, <4>1, <4>2 DEF Earned, HeldAt, Duration
        <3>2. CountsAt(s, i, n + 1)' <=> i = pos[s] + 1 /\ Active(s)
            BY <1>1, PastIsFixed, CountsNow
        <3>3. truth'[n + 1] = now
            BY <1>1, StepEffect
        <3>4. Result(s, i, now) <=> now[p]
            BY <2>2 DEF Result
        <3> QED BY <1>4, <1>5, <1>7, <2>1, <3>1, <3>2, <3>3, <3>4
    <2>3. CASE Chain[s][i].steps > 0
        <3> DEFINE d == Chain[s][i].steps
                   j == d - 1
        <3>1. j \in Nat /\ j \in 0 .. d /\ j + 1 = d /\ j + 1 <= d
            BY <1>3, <2>3
        <3>2. Earned(s, i, t)' <=> CountedFor(s, i, d)'
            <4>1. Duration(s, i) = d
                BY <1>3, <2>3 DEF Duration
            <4>2. Earned(s, i, t)' <=>
                      /\ \A u \in t - d + 1 .. t : u \in 1 .. t /\ truth'[u][p]
                      /\ \A u \in t - d + 1 .. t : CountsAt(s, i, u)'
                BY <4>1 DEF Earned, HeldAt, Duration
            <4>3. CountedFor(s, i, d)' <=>
                      \A u \in t - d + 1 .. t : u >= 1 /\ truth'[u][p] /\ CountsAt(s, i, u)'
                BY <1>1, <1>7 DEF CountedFor
            <4>4. \A u \in t - d + 1 .. t : u \in 1 .. t <=> u >= 1
                BY <1>3
            <4> QED BY <4>2, <4>3, <4>4
        <3>3. CountedFor(s, i, d)' <=>
                  now[p] /\ i = pos[s] + 1 /\ Active(s) /\ CountedFor(s, i, j)
            <4> HIDE DEF j
            <4>1. CountedFor(s, i, j + 1)' <=>
                      now[p] /\ i = pos[s] + 1 /\ Active(s) /\ CountedFor(s, i, j)
                BY <3>1, CountedOneMore
            <4> QED BY <3>1, <4>1
        <3>4. ASSUME i = pos[s] + 1, Active(s)
              PROVE  Result(s, i, now) <=> now[p] /\ CountedFor(s, i, j)
            <4>1. Evaluated(s, i)
                BY <3>4 DEF Evaluated
            <4>2. streak[<<s, i>>] >= j <=> CountedFor(s, i, j)
                <5>1. i > pos[s] /\ ~ Complete(CriteriaOf(s))
                    BY <1>2, <1>3, <3>4 DEF Active
                <5> HIDE DEF j
                <5> QED BY <2>3, <3>1, <5>1 DEF StreaksAreCounted
            <4>3. streak[<<s, i>>] \in Nat
                BY <1>2, <2>3, StepRanges
            <4>4. NextStreak(s, i, now[p]) >= d <=> now[p] /\ streak[<<s, i>>] >= j
                <5> HIDE DEF j
                <5>1. NextStreak(s, i, now[p]) >= j + 1 <=> now[p] /\ streak[<<s, i>>] >= j
                    BY <1>3, <3>1, <4>3, NextStreakCounts
                <5> QED BY <3>1, <5>1
            <4> QED BY <1>3, <2>3, <4>1, <4>2, <4>4 DEF Result
        <3> HIDE DEF d, j
        <3> QED BY <1>4, <1>5, <1>7, <2>1, <3>2, <3>3, <3>4
    <2> QED BY <1>3, <2>2, <2>3
<1> QED BY <1>6, <1>7

(* The state in which an episode starts. *)
Fresh ==
    /\ config \in [sequential : BOOLEAN, checksFinal : BOOLEAN]
    /\ pos = [s \in AllSequences |-> 0]
    /\ streak = [r \in Requirements |-> 0]
    /\ success = FALSE
    /\ events = {}
    /\ occurrences = [s \in TrackedEvents |-> <<>>]
    /\ lastStep = -1
    /\ truth = <<>>

LEMMA FreshMilestones == Fresh => MilestonesInv
<1> SUFFICES ASSUME Fresh PROVE MilestonesInv
    OBVIOUS
<1>1. StepsSoFar = 0
    BY DEF Fresh, StepsSoFar
<1>2. TypeOK
    <2>1. <<>> \in Seq(Nat) /\ <<>> \in Seq([Preds -> BOOLEAN])
        OBVIOUS
    <2>2. \A s \in AllSequences : 0 <= Len(Chain[s])
        BY ChainFacts
    <2> QED BY <1>1, <2>1, <2>2 DEF Fresh, TypeOK
<1>3. PassedArePositions
    <2>1. \A s \in TaskSequences : \A i \in DOMAIN Chain[s] : ~ i <= 0
        BY KindFacts, ChainFacts
    <2> QED BY <2>1, KindFacts DEF Fresh, PassedArePositions, Passed
<1>4. StartedAreEnabled
    BY KindFacts DEF Fresh, StartedAreEnabled
<1>5. StreaksAreReached
    BY RequirementFacts DEF Fresh, StreaksAreReached
<1>6. StreaksAreCounted
    <2> SUFFICES ASSUME NEW s \in TaskSequences, NEW i \in DOMAIN Chain[s],
                        Chain[s][i].steps > 0, NEW k \in 0 .. Chain[s][i].steps
                 PROVE  streak[<<s, i>>] >= k <=> CountedFor(s, i, k)
        BY DEF StreaksAreCounted
    <2>1. streak[<<s, i>>] = 0
        BY KindFacts, RequirementFacts DEF Fresh
    <2>2. k \in Nat
        BY KindFacts, ChainFacts
    <2>3. CASE k = 0
        BY <1>1, <2>1, <2>3 DEF CountedFor
    <2>4. CASE k # 0
        <3>1. 0 \in 0 - k + 1 .. 0
            BY <2>2, <2>4
        <3>2. ~ CountedFor(s, i, k)
            BY <1>1, <3>1 DEF CountedFor
        <3> QED BY <2>1, <2>2, <2>4, <3>2
    <2> QED BY <2>3, <2>4
<1>7. FinalStreaks
    <2> SUFFICES ASSUME NEW s \in TaskSequences, Chain[s][Len(Chain[s])].steps > 0,
                        NEW k \in 1 .. Chain[s][Len(Chain[s])].steps
                 PROVE  streak[<<s, Len(Chain[s])>>] >= k <=> FinalFor(s, k)
        BY DEF FinalStreaks
    <2>1. Len(Chain[s]) \in DOMAIN Chain[s]
        BY KindFacts, ChainFacts
    <2>2. streak[<<s, Len(Chain[s])>>] = 0
        BY <2>1, KindFacts, RequirementFacts DEF Fresh
    <2>3. k \in Nat /\ k >= 1
        BY <2>1, KindFacts, ChainFacts
    <2>4. 0 \in 0 - k + 1 .. 0
        BY <2>3
    <2>5. ~ FinalFor(s, k)
        BY <1>1, <2>4 DEF FinalFor
    <2> QED BY <2>2, <2>3, <2>5
<1>8. SuccessIsOfPositions
    BY <1>1 DEF SuccessIsOfPositions
<1>9. MilestonesExact
    BY <1>1 DEF MilestonesExact
<1> QED BY <1>2, <1>3, <1>4, <1>5, <1>6, <1>7, <1>8, <1>9 DEF MilestonesInv

LEMMA InitIsFresh == Init => Fresh
BY SubtaskAssumption DEF Init, Fresh

LEMMA ResetIsFresh == TypeOK /\ Reset => Fresh'
BY DEF TypeOK, Reset, ClearedStreaks, Fresh

LEMMA FreshMilestonesNext == Fresh' => MilestonesInv'
BY FreshMilestones, PTL

LEMMA MilestonesNext == MilestonesInv /\ [Next]_vars => MilestonesInv'
<1> SUFFICES ASSUME MilestonesInv, [Next]_vars PROVE MilestonesInv'
    OBVIOUS
<1>1. ASSUME NEW now \in [Preds -> BOOLEAN], Step(now)
      PROVE  MilestonesInv'
    BY <1>1, StepTypeOK, StepPassed, StepStarted, StepReached, StepCounted, StepFinal,
        StepSuccess, StepMilestones DEF MilestonesInv
<1>2. CASE Reset
    BY <1>2, ResetIsFresh, FreshMilestonesNext DEF MilestonesInv
<1>3. CASE UNCHANGED vars
    <2> USE <1>3 DEF vars
    <2>1. TypeOK'
        BY DEF MilestonesInv, TypeOK, StepsSoFar
    <2>2. PassedArePositions'
        BY DEF MilestonesInv, PassedArePositions, Passed
    <2>3. StartedAreEnabled'
        BY DEF MilestonesInv, StartedAreEnabled, Enabled, Sequential, SubtaskComplete, Complete,
            SequenceComplete
    <2>4. StreaksAreReached'
        BY DEF MilestonesInv, StreaksAreReached
    <2>5. /\ \A s, i, t : PassedBy(s, i, t)' <=> PassedBy(s, i, t)
          /\ \A s, i, t : ReachedBy(s, i, t)' <=> ReachedBy(s, i, t)
          /\ \A c, t : CompleteBy(c, t)' <=> CompleteBy(c, t)
          /\ \A c, t : EnabledBy(c, t)' <=> EnabledBy(c, t)
          /\ \A s, i, t : CountsAt(s, i, t)' <=> CountsAt(s, i, t)
          /\ \A s, i, t : Earned(s, i, t)' <=> Earned(s, i, t)
        BY DEF PassedBy, CompleteBy, EnabledBy, Sequential, CountsAt, ReachedBy, Earned, HeldAt,
            Duration
    <2>6. StreaksAreCounted'
        BY <2>5 DEF MilestonesInv, StreaksAreCounted, CountedFor, Complete, SequenceComplete,
            StepsSoFar
    <2>7. FinalStreaks'
        <3>1. \A s, k : FinalFor(s, k)' <=> FinalFor(s, k)
            BY <2>5 DEF FinalFor, StepsSoFar
        <3>2. \A k : FinalConditionsCount(k)' <=> FinalConditionsCount(k)
            BY DEF FinalConditionsCount, ChecksFinal
        <3>3. streak' = streak
            OBVIOUS
        <3>4. FinalStreaks
            BY DEF MilestonesInv
        <3> QED BY <3>1, <3>2, <3>3, <3>4 DEF FinalStreaks
    <2>8. SuccessIsOfPositions'
        <3>1. \A c : Complete(c)' <=> Complete(c)
            BY DEF Complete, SequenceComplete
        <3>2. \A k : SubtaskComplete(k)' <=> SubtaskComplete(k)
            BY <3>1 DEF SubtaskComplete
        <3>3. \A c : FinalsNow(c)' <=> FinalsNow(c)
            BY DEF FinalsNow, FinalNow, StepsSoFar
        <3>4. /\ ChecksFinal' <=> ChecksFinal
              /\ StepsSoFar' = StepsSoFar
              /\ success' = success
            BY DEF ChecksFinal, StepsSoFar
        <3>5. SuccessIsOfPositions
            BY DEF MilestonesInv
        <3> QED BY <3>1, <3>2, <3>3, <3>4, <3>5 DEF SuccessIsOfPositions
    <2>9. MilestonesExact'
        BY <2>5 DEF MilestonesInv, MilestonesExact, StepsSoFar
    <2> QED BY <2>1, <2>2, <2>3, <2>4, <2>6, <2>7, <2>8, <2>9 DEF MilestonesInv
<1> QED BY <1>1, <1>2, <1>3 DEF Next

LEMMA MilestonesAlways == Spec => []MilestonesInv
<1>1. Init => MilestonesInv
    BY InitIsFresh, FreshMilestones
<1> QED BY <1>1, MilestonesNext, PTL DEF Spec

(* The tracker's variables keep their types, and its events are milestones *)
(* of the task at steps of the episode.                                    *)
THEOREM TrackerTypeCorrect == Spec => []TypeOK
<1>1. MilestonesInv => TypeOK BY DEF MilestonesInv
<1> QED BY <1>1, MilestonesAlways, PTL

(* ProgressTracker.step records a milestone at the step at which it is     *)
(* earned, and at no other, for any criteria and history of predicates.    *)
THEOREM MilestonesAreExact == Spec => []MilestonesExact
<1>1. MilestonesInv => MilestonesExact BY DEF MilestonesInv
<1> QED BY <1>1, MilestonesAlways, PTL

-----------------------------------------------------------------------------
(* Success. *)

(* Positions and streaks say of a final condition what the history does.   *)
LEMMA FinalNowHolds ==
    MilestonesInv =>
        \A s \in TaskSequences :
            /\ StepsSoFar > 0
            /\ Complete(CriteriaOf(s))
            /\ FinalConditionsCount(SubtaskOf[CriteriaOf(s)])
            => (FinalNow(s) <=> FinalConditionHolds(s))
<1> SUFFICES ASSUME MilestonesInv, NEW s \in TaskSequences, StepsSoFar > 0,
                    Complete(CriteriaOf(s)), FinalConditionsCount(SubtaskOf[CriteriaOf(s)])
             PROVE  FinalNow(s) <=> FinalConditionHolds(s)
    OBVIOUS
<1> DEFINE c == CriteriaOf(s)
           last == Len(Chain[s])
           p == Chain[s][last].pred
           d == Chain[s][last].steps
<1>0. PICK n \in Nat : n = StepsSoFar
    BY DEF MilestonesInv, TypeOK, StepsSoFar
<1>1. s \in AllSequences /\ c \in Criteria
    BY KindFacts, CriteriaFacts
<1>2. pos[s] \in Nat /\ last \in Nat /\ last \in DOMAIN Chain[s] /\ d \in Nat
    BY <1>1, ChainFacts DEF MilestonesInv, TypeOK
<1>3. TypeOK /\ PassedArePositions /\ StartedAreEnabled /\ FinalStreaks
    BY DEF MilestonesInv
<1>4. Enabled(SubtaskOf[c])
    BY <1>1, <1>3, CompleteIsEnabled
<1>5. /\ ReachedBy(s, last, n) <=> last <= pos[s] + 1
      /\ EnabledBy(c, n)
    BY <1>0, <1>1, <1>2, <1>3, <1>4, PresentFacts
<1>6. CASE d = 0
    <2>1. FinalConditionHolds(s) <=> HeldAt(s, last, n) /\ ReachedBy(s, last, n) /\ EnabledBy(c, n)
        BY <1>0, <1>6 DEF FinalConditionHolds
    <2>2. HeldAt(s, last, n) <=> truth[n][p]
        <3>1. \A u : u \in n - 1 + 1 .. n <=> u = n
            BY <1>0
        <3>2. n \in 1 .. n
            BY <1>0
        <3> QED BY <1>6, <3>1, <3>2 DEF HeldAt, Duration
    <2>3. FinalNow(s) <=> pos[s] >= last - 1 /\ truth[n][p]
        BY <1>0, <1>6 DEF FinalNow
    <2> QED BY <1>2, <1>5, <2>1, <2>2, <2>3
<1>7. CASE d # 0
    <2>0. PICK t \in Int : t = n - d
        BY <1>0, <1>2
    <2>1. FinalConditionHolds(s) <=> HeldAt(s, last, n) /\ ReachedBy(s, last, t) /\ EnabledBy(c, t)
        BY <1>0, <1>7, <2>0 DEF FinalConditionHolds, Duration
    <2>2. HeldAt(s, last, n) <=> \A u \in t + 1 .. n : u >= 1 /\ truth[u][p]
        <3>1. Duration(s, last) = d /\ n - d + 1 = t + 1
            BY <1>2, <1>7, <2>0 DEF Duration
        <3>2. \A u \in t + 1 .. n : u \in 1 .. n <=> u >= 1
            BY <1>2, <2>0
        <3> QED BY <3>1, <3>2 DEF HeldAt
    <2>3. FinalFor(s, d) <=>
              /\ ReachedBy(s, last, t) /\ EnabledBy(c, t)
              /\ \A u \in t + 1 .. n : u >= 1 /\ truth[u][p]
        BY <1>0, <2>0 DEF FinalFor
    <2>4. streak[<<s, last>>] >= d <=> FinalFor(s, d)
        BY <1>2, <1>3, <1>7 DEF FinalStreaks
    <2>5. FinalNow(s) <=> pos[s] >= last - 1 /\ streak[<<s, last>>] >= d
        BY <1>7 DEF FinalNow
    <2>6. ReachedBy(s, last, t) => ReachedBy(s, last, n)
        BY <1>0, <1>2, <1>3, <2>0, PastStays
    <2> QED BY <1>2, <1>5, <2>1, <2>2, <2>3, <2>4, <2>5, <2>6
<1> QED BY <1>6, <1>7

(* After every step, _compute_task_success is the completion recorded so   *)
(* far together with the final conditions as they hold now.                *)
THEOREM SuccessIsOfTheFinalState == Spec => []SuccessMeansFinalState
<1>1. MilestonesInv => SuccessMeansFinalState
    <2> SUFFICES ASSUME MilestonesInv, StepsSoFar > 0
                 PROVE  SuccessMeansFinalState
        BY DEF SuccessMeansFinalState
    <2>1. StepsSoFar \in Int /\ TypeOK /\ PassedArePositions
        BY DEF MilestonesInv, TypeOK, StepsSoFar
    <2>2. \A c \in Criteria : CompleteBy(c, StepsSoFar) <=> Complete(c)
        BY <2>1, PresentFacts
    <2>3. SuccessIsOfPositions
        BY DEF MilestonesInv
    <2>4. CASE ~ ChecksFinal
        BY <2>2, <2>3, <2>4 DEF SuccessIsOfPositions, SuccessMeansFinalState
    <2>5. CASE ChecksFinal
        <3> DEFINE Checked == {j \in 1 .. NumSubtasks : Desired[j] # "ignored"}
                   HoldIn(c) ==
                       Cardinality({s \in SequencesOf[c] : FinalConditionHolds(s)}) >= NumRequired(c)
        <3>1. ASSUME NEW c \in Criteria, Desired[SubtaskOf[c]] # "ignored", Complete(c)
              PROVE  FinalsNow(c) <=> HoldIn(c)
            <4>1. \A s \in SequencesOf[c] : FinalNow(s) <=> FinalConditionHolds(s)
                BY <2>5, <3>1, FinalNowHolds, CriteriaFacts DEF FinalConditionsCount
            <4>2. {s \in SequencesOf[c] : FinalNow(s)}
                      = {s \in SequencesOf[c] : FinalConditionHolds(s)}
                BY <4>1
            <4> QED BY <4>2 DEF FinalsNow
        <3>2. ASSUME NEW k \in Checked
              PROVE  /\ SubtaskComplete(k)
                            <=> \A c \in {b \in Criteria : SubtaskOf[b] = k} : CompleteBy(c, StepsSoFar)
                     /\ SubtaskComplete(k) =>
                            ((\A c \in Criteria : SubtaskOf[c] = k => FinalsNow(c))
                             <=> \A c \in {b \in Criteria : SubtaskOf[b] = k} : HoldIn(c))
            <4>1. SubtaskComplete(k)
                      <=> \A c \in {b \in Criteria : SubtaskOf[b] = k} : CompleteBy(c, StepsSoFar)
                BY <2>2 DEF SubtaskComplete
            <4>2. ASSUME SubtaskComplete(k)
                  PROVE  (\A c \in Criteria : SubtaskOf[c] = k => FinalsNow(c))
                         <=> \A c \in {b \in Criteria : SubtaskOf[b] = k} : HoldIn(c)
                <5>1. \A c \in Criteria : SubtaskOf[c] = k => (FinalsNow(c) <=> HoldIn(c))
                    BY <3>1, <4>2 DEF SubtaskComplete
                <5> HIDE DEF HoldIn
                <5> QED BY <5>1
            <4> HIDE DEF HoldIn
            <4> QED BY <4>1, <4>2
        <3>3. success =
                  \A k \in Checked :
                      /\ SubtaskComplete(k)
                      /\ (\A c \in Criteria : SubtaskOf[c] = k => FinalsNow(c)) = (Desired[k] = "met")
            BY <2>3, <2>5 DEF SuccessIsOfPositions
        <3>4. (\A k \in Checked :
                   /\ SubtaskComplete(k)
                   /\ (\A c \in Criteria : SubtaskOf[c] = k => FinalsNow(c)) = (Desired[k] = "met"))
              <=> (\A k \in Checked :
                   /\ \A c \in {b \in Criteria : SubtaskOf[b] = k} : CompleteBy(c, StepsSoFar)
                   /\ (\A c \in {b \in Criteria : SubtaskOf[b] = k} : HoldIn(c)) = (Desired[k] = "met"))
            <4> HIDE DEF Checked, HoldIn
            <4> QED BY <3>2
        <3> QED BY <2>5, <3>3, <3>4 DEF SuccessMeansFinalState
    <2> QED BY <2>4, <2>5
<1> QED BY <1>1, MilestonesAlways, PTL

-----------------------------------------------------------------------------
(* The summary of an episode. *)

(* get_consecutive_step_progress never shows progress on a requirement     *)
(* that waits, nor completion without its step, nor a full streak of one   *)
(* that is still to be earned.                                             *)
THEOREM SummaryIsConsistent == Spec => []SummaryConsistent
<1>1. MilestonesInv => SummaryConsistent
    <2> SUFFICES ASSUME MilestonesInv, NEW r \in Requirements, r[1] \in TaskSequences
                 PROVE  /\ Status(r[1], r[2]) = "waiting" => streak[r] = 0
                        /\ Status(r[1], r[2]) = "completed" <=> PassedBy(r[1], r[2], StepsSoFar)
                        /\ Status(r[1], r[2]) = "active" /\ ~ Complete(CriteriaOf(r[1])) =>
                               streak[r] < Chain[r[1]][r[2]].steps
        BY DEF SummaryConsistent
    <2>0. PICK n \in Nat : n = StepsSoFar
        BY DEF MilestonesInv, TypeOK, StepsSoFar
    <2>1. PICK s, i : s \in TaskSequences /\ r = <<s, i>> /\ r[1] = s /\ r[2] = i
        BY RequirementFacts
    <2> DEFINE c == CriteriaOf(s)
    <2>2. /\ s \in TaskSequences /\ s \in AllSequences /\ c \in Criteria /\ i \in DOMAIN Chain[s]
          /\ Chain[s][i].steps > 0
        BY <2>1, KindFacts, CriteriaFacts, RequirementFacts
    <2>3. /\ pos[s] \in Nat /\ i \in Nat /\ i >= 1 /\ Chain[s][i].steps \in Nat
          /\ streak[<<s, i>>] \in Nat
        BY <2>1, <2>2, ChainFacts DEF MilestonesInv, TypeOK
    <2>4. TypeOK /\ PassedArePositions /\ StartedAreEnabled
        BY DEF MilestonesInv
    <2>5. PassedBy(s, i, n) <=> i <= pos[s]
        <3>1. n \in Int /\ n >= StepsSoFar
            BY <2>0
        <3>2. \A q \in TaskSequences : \A j \in DOMAIN Chain[q] : PassedBy(q, j, n) <=> j <= pos[q]
            BY <2>4, <3>1, PresentFacts
        <3> QED BY <2>2, <3>2
    <2>6. ASSUME i > pos[s], ~ Complete(c), NEW k \in 1 .. Chain[s][i].steps,
                 streak[<<s, i>>] >= k
          PROVE  CountedFor(s, i, k) /\ n >= 1 /\ CountsAt(s, i, n)
        <3>1. CountedFor(s, i, k)
            BY <2>2, <2>3, <2>6 DEF MilestonesInv, StreaksAreCounted
        <3>2. n \in n - k + 1 .. n
            BY <2>3
        <3> QED BY <2>0, <3>1, <3>2 DEF CountedFor
    <2>7. ASSUME i > pos[s], i # pos[s] + 1 \/ ~ Enabled(SubtaskOf[c])
          PROVE  streak[<<s, i>>] = 0
        <3>1. CASE i # pos[s] + 1
            BY <2>2, <2>3, <2>7, <3>1 DEF MilestonesInv, StreaksAreReached
        <3>2. CASE ~ Enabled(SubtaskOf[c])
            <4>1. ~ Complete(c)
                BY <2>2, <2>4, <3>2, CompleteIsEnabled
            <4>2. ~ CountsAt(s, i, n)
                BY <2>0, <2>2, <2>4, <3>2, CountedIsReached
            <4>3. 1 \in 1 .. Chain[s][i].steps
                BY <2>2, <2>3
            <4> QED BY <2>3, <2>6, <2>7, <4>1, <4>2, <4>3
        <3> QED BY <2>7, <3>1, <3>2
    <2>8. ASSUME i > pos[s], ~ Complete(c), ~ streak[<<s, i>>] < Chain[s][i].steps
          PROVE  FALSE
        <3>1. /\ Chain[s][i].steps \in 1 .. Chain[s][i].steps
              /\ streak[<<s, i>>] >= Chain[s][i].steps
            BY <2>2, <2>3, <2>8
        <3>2. CountedFor(s, i, Chain[s][i].steps) /\ n >= 1
            BY <2>6, <2>8, <3>1
        <3>3. Earned(s, i, n)
            <4>1. Duration(s, i) = Chain[s][i].steps
                BY <2>2, <2>3 DEF Duration
            <4>2. \A u \in n - Chain[s][i].steps + 1 .. n : u >= 1 => u \in 1 .. n
                BY <2>3
            <4> QED BY <2>0, <3>2, <4>1, <4>2 DEF CountedFor, Earned, HeldAt
        <3>4. [sequence |-> s, index |-> i, step |-> n] \in events
            BY <2>0, <2>2, <3>2, <3>3 DEF MilestonesInv, MilestonesExact
        <3>5. PassedBy(s, i, n)
            BY <3>4 DEF PassedBy
        <3> QED BY <2>3, <2>5, <2>8, <3>5
    <2>9. CASE i <= pos[s]
        BY <2>0, <2>1, <2>5, <2>9 DEF Status
    <2>10. CASE i > pos[s]
        <3>1. ~ i <= pos[s]
            BY <2>3, <2>10
        <3>2. Status(s, i) = IF i = pos[s] + 1 /\ Enabled(SubtaskOf[c]) THEN "active" ELSE "waiting"
            BY <3>1 DEF Status
        <3> QED BY <2>0, <2>1, <2>5, <2>7, <2>8, <2>10, <3>1, <3>2
    <2> QED BY <2>3, <2>9, <2>10
<1> QED BY <1>1, MilestonesAlways, PTL

-----------------------------------------------------------------------------
(* Occurrences of tracked events. *)

(* An event that occurred and was not rearmed holds its final condition.   *)
CompletedHold ==
    \A s \in TrackedEvents :
        Chain[s][Len(Chain[s])].steps > 0 /\ SequenceComplete(s) =>
            streak[<<s, Len(Chain[s])>>] >= Chain[s][Len(Chain[s])].steps

LastOccurrence(s) == IF occurrences[s] = <<>> THEN 0 ELSE occurrences[s][Len(occurrences[s])]

(* What an observation tr of the predicates says of a sequence; with truth *)
(* for tr, HeldIn is HeldAt and RunThroughIn is RunThrough.                *)
HeldIn(tr, s, i, t) ==
    \A u \in t - Duration(s, i) + 1 .. t : u \in 1 .. t /\ tr[u][Chain[s][i].pred]

RunThroughIn(tr, s, from, to) ==
    \E at \in [DOMAIN Chain[s] -> from .. to] :
        /\ \A i \in DOMAIN Chain[s] : HeldIn(tr, s, i, at[i])
        /\ at[Len(Chain[s])] = to
        /\ \A i \in DOMAIN Chain[s] :
               at[i] - Duration(s, i) >= IF i = 1 THEN from - 1 ELSE at[i - 1]

(* An occurrence at step is separate from the one before it. *)
SeparateIn(tr, s, before, step) ==
    \E lost \in before .. step - 1 :
        /\ lost > 0 => lost > before /\ ~ HeldIn(tr, s, Len(Chain[s]), lost)
        /\ RunThroughIn(tr, s, lost + 1, step)

(* The sequence of s has been run through up to position q since step      *)
(* from, the i-th predicate by step at[i], and the next one holds for the  *)
(* latest k of n steps, all of them since.                                 *)
RunIn(tr, s, q, k, n, from, at) ==
    /\ at[0] = from
    /\ \A i \in 1 .. q : HeldIn(tr, s, i, at[i]) /\ at[i] - Duration(s, i) >= at[i - 1]
    /\ Chain[s][q + 1].steps > 0 =>
           \A u \in n - k + 1 .. n : u > at[q] /\ tr[u][Chain[s][q + 1].pred]

(* The sequence of s has just been run through up to position q, at step t. *)
RunReaches(tr, s, q, t, from) ==
    \E at \in [0 .. q -> from .. t] : RunIn(tr, s, q, 0, t, from, at) /\ at[q] = t

(* The event has not occurred since step lost, at which it was rearmed. *)
Rearmed(s, lost) ==
    lost > 0 => lost > LastOccurrence(s) /\ ~ HeldIn(truth, s, Len(Chain[s]), lost)

(* An event that has not occurred is under way since it was rearmed. *)
RunsUnderWay ==
    \A s \in TrackedEvents :
        ~ SequenceComplete(s) =>
            \E lost \in LastOccurrence(s) .. StepsSoFar :
                /\ Rearmed(s, lost)
                /\ \E at \in [0 .. pos[s] -> lost .. StepsSoFar] :
                       RunIn(truth, s, pos[s], streak[<<s, pos[s] + 1>>], StepsSoFar, lost, at)

OccurredBefore ==
    \A s \in TrackedEvents : \A m \in DOMAIN occurrences[s] : occurrences[s][m] \in 1 .. StepsSoFar

Before(s, m) == IF m = 1 THEN 0 ELSE occurrences[s][m - 1]

OccurrencesInv ==
    /\ CompletedHold
    /\ OccurredBefore
    /\ RunsUnderWay
    /\ OccurrencesSeparate

LEMMA SeparateOccurrences ==
    OccurrencesSeparate <=>
        \A s \in TrackedEvents : \A m \in DOMAIN occurrences[s] :
            SeparateIn(truth, s, Before(s, m), occurrences[s][m])
<1>1. \A s, i, t : HeldAt(s, i, t) <=> HeldIn(truth, s, i, t)
    BY DEF HeldAt, HeldIn
<1>2. \A s, from, to : RunThrough(s, from, to) <=> RunThroughIn(truth, s, from, to)
    BY <1>1 DEF RunThrough, RunThroughIn
<1> QED BY <1>1, <1>2 DEF OccurrencesSeparate, SeparateIn, Before

LEMMA OccurrenceFacts ==
    TypeOK /\ OccurredBefore =>
        \A s \in TrackedEvents :
            /\ Len(occurrences[s]) \in Nat /\ DOMAIN occurrences[s] = 1 .. Len(occurrences[s])
            /\ LastOccurrence(s) \in Nat /\ LastOccurrence(s) <= StepsSoFar
            /\ \A m \in DOMAIN occurrences[s] : Before(s, m) \in Nat
<1> SUFFICES ASSUME TypeOK, OccurredBefore, NEW s \in TrackedEvents
             PROVE  /\ Len(occurrences[s]) \in Nat /\ DOMAIN occurrences[s] = 1 .. Len(occurrences[s])
                    /\ LastOccurrence(s) \in Nat /\ LastOccurrence(s) <= StepsSoFar
                    /\ \A m \in DOMAIN occurrences[s] : Before(s, m) \in Nat
    OBVIOUS
<1>1. occurrences[s] \in Seq(Nat) /\ StepsSoFar \in Nat
    BY DEF TypeOK, StepsSoFar
<1>2. /\ Len(occurrences[s]) \in Nat /\ DOMAIN occurrences[s] = 1 .. Len(occurrences[s])
      /\ occurrences[s] # <<>> => Len(occurrences[s]) \in DOMAIN occurrences[s]
    BY <1>1
<1>3. \A m \in DOMAIN occurrences[s] : occurrences[s][m] \in Nat /\ occurrences[s][m] <= StepsSoFar
    BY <1>1 DEF OccurredBefore
<1>4. LastOccurrence(s) \in Nat /\ LastOccurrence(s) <= StepsSoFar
    BY <1>1, <1>2, <1>3 DEF LastOccurrence
<1>5. \A m \in DOMAIN occurrences[s] : m # 1 => m - 1 \in DOMAIN occurrences[s]
    BY <1>2
<1>6. \A m \in DOMAIN occurrences[s] : Before(s, m) \in Nat
    BY <1>3, <1>5 DEF Before
<1> QED BY <1>2, <1>4, <1>6

(* What a control step does to a tracked event. *)
LEMMA StepEvent ==
    ASSUME TypeOK, NEW now \in [Preds -> BOOLEAN], Step(now), NEW s \in TrackedEvents
    PROVE  /\ pos'[s] = IF Restarts(s, now) THEN 0 ELSE NextPos(s, now)
           /\ occurrences'[s] = IF Occurs(s, now)
                                THEN Append(occurrences[s], StepsSoFar + 1) ELSE occurrences[s]
           /\ \A i \in DOMAIN Chain[s] : Chain[s][i].steps > 0 =>
                  streak'[<<s, i>>] =
                      IF Restarts(s, now) THEN 0
                      ELSE IF Evaluated(s, i) THEN NextStreak(s, i, now[Chain[s][i].pred])
                      ELSE streak[<<s, i>>]
<1>1. s \in AllSequences
    BY KindFacts
<1>2. ASSUME NEW i \in DOMAIN Chain[s], Chain[s][i].steps > 0
      PROVE  streak'[<<s, i>>] =
                 IF Restarts(s, now) THEN 0
                 ELSE IF Evaluated(s, i) THEN NextStreak(s, i, now[Chain[s][i].pred])
                 ELSE streak[<<s, i>>]
    <2>1. <<s, i>> \in Requirements /\ <<s, i>>[1] = s /\ <<s, i>>[2] = i
        BY <1>1, <1>2, RequirementFacts
    <2> QED BY <2>1 DEF Step
<1>3. occurrences'[s] = IF Occurs(s, now)
                        THEN Append(occurrences[s], StepsSoFar + 1) ELSE occurrences[s]
    BY StepEffect DEF Step
<1> QED BY <1>1, <1>2, <1>3 DEF Step

(* An event is not rearmed at the step at which it occurs, and one that is *)
(* rearmed was complete.                                                   *)
LEMMA RearmedWasComplete ==
    ASSUME TypeOK, NEW now \in [Preds -> BOOLEAN], Step(now), NEW s \in TrackedEvents,
           Restarts(s, now)
    PROVE  ~ Advances(s, now) /\ SequenceComplete(s)
<1>1. s \in AllSequences
    BY KindFacts
<1>2. /\ pos[s] \in Nat /\ pos[s] <= Len(Chain[s]) /\ Len(Chain[s]) \in Nat
      /\ NextPos(s, now) \in Nat /\ NextPos(s, now) <= Len(Chain[s])
      /\ Advances(s, now) <=> NextPos(s, now) = pos[s] + 1
      /\ ~ Advances(s, now) <=> NextPos(s, now) = pos[s]
    BY <1>1, ChainFacts, StepRanges DEF TypeOK
<1>3. NextPos(s, now) >= Len(Chain[s]) /\ ~ FinalConditionMet(s, now)
    BY DEF Restarts, Cleared
<1>4. ~ Advances(s, now)
    <2> SUFFICES ASSUME Advances(s, now) PROVE FALSE
        OBVIOUS
    <2>1. pos[s] + 1 = Len(Chain[s])
        BY <1>2, <1>3
    <2>2. Result(s, Len(Chain[s]), now)
        BY <2>1 DEF Advances
    <2> QED BY <1>2, <1>3, <2>2 DEF FinalConditionMet
<1> QED BY <1>2, <1>3, <1>4 DEF SequenceComplete

LEMMA StepCompletedHold ==
    ASSUME TypeOK, NEW now \in [Preds -> BOOLEAN], Step(now)
    PROVE  CompletedHold'
<1> SUFFICES ASSUME NEW s \in TrackedEvents, Chain[s][Len(Chain[s])].steps > 0,
                    SequenceComplete(s)'
             PROVE  streak'[<<s, Len(Chain[s])>>] >= Chain[s][Len(Chain[s])].steps
    BY DEF CompletedHold
<1>1. s \in AllSequences /\ Len(Chain[s]) \in Nat /\ Len(Chain[s]) \in DOMAIN Chain[s]
      /\ ~ 0 >= Len(Chain[s]) /\ Chain[s][Len(Chain[s])].steps \in Nat
    BY KindFacts, ChainFacts
<1>2. pos'[s] >= Len(Chain[s])
    BY DEF SequenceComplete
<1>3. ~ Restarts(s, now) /\ NextPos(s, now) >= Len(Chain[s])
    BY <1>1, <1>2, StepEvent
<1>4. Result(s, Len(Chain[s]), now)
    BY <1>3 DEF Restarts, Cleared, FinalConditionMet
<1>5. Chain[s][Len(Chain[s])].steps # 0
    BY <1>1
<1> QED BY <1>1, <1>3, <1>4, <1>5, StepEvent DEF Result

LEMMA StepOccurredBefore ==
    ASSUME TypeOK, OccurredBefore, NEW now \in [Preds -> BOOLEAN], Step(now)
    PROVE  OccurredBefore'
<1>0. PICK n \in Nat : n = StepsSoFar /\ StepsSoFar' = n + 1
    BY StepEffect
<1> SUFFICES ASSUME NEW s \in TrackedEvents, NEW m \in DOMAIN occurrences'[s]
             PROVE  occurrences'[s][m] \in 1 .. n + 1
    BY <1>0 DEF OccurredBefore
<1>1. \A j \in DOMAIN occurrences[s] : occurrences[s][j] \in 1 .. n
    BY <1>0 DEF OccurredBefore
<1>2. occurrences[s] \in Seq(Nat)
    BY DEF TypeOK
<1>3. CASE Occurs(s, now)
    <2>1. occurrences'[s] = Append(occurrences[s], n + 1)
        BY <1>0, <1>3, StepEvent
    <2>2. \/ m \in DOMAIN occurrences[s] /\ occurrences'[s][m] = occurrences[s][m]
          \/ occurrences'[s][m] = n + 1
        BY <1>2, <2>1
    <2> QED BY <1>1, <2>2
<1>4. CASE ~ Occurs(s, now)
    <2>1. occurrences'[s] = occurrences[s]
        BY <1>4, StepEvent
    <2> QED BY <1>1, <2>1
<1> QED BY <1>3, <1>4

LEMMA DurationFacts ==
    ASSUME NEW s \in AllSequences, NEW i \in DOMAIN Chain[s]
    PROVE  Duration(s, i) \in Nat /\ Duration(s, i) >= 1
BY ChainFacts DEF Duration

(* An observation that goes on says the same of the past. *)
LEMMA PastHeld ==
    ASSUME NEW tr, NEW tr2, NEW n \in Nat, \A u \in 1 .. n : tr2[u] = tr[u],
           NEW s \in AllSequences, NEW i \in DOMAIN Chain[s], NEW t \in Int, t <= n
    PROVE  HeldIn(tr2, s, i, t) <=> HeldIn(tr, s, i, t)
<1>1. Duration(s, i) \in Nat
    BY DurationFacts
<1>2. \A u \in 1 .. t : tr2[u] = tr[u]
    OBVIOUS
<1> QED BY <1>2 DEF HeldIn

LEMMA SeparateStays ==
    ASSUME NEW tr, NEW tr2, NEW n \in Nat, \A u \in 1 .. n : tr2[u] = tr[u],
           NEW s \in AllSequences, NEW before \in Nat, NEW step \in 1 .. n,
           SeparateIn(tr, s, before, step)
    PROVE  SeparateIn(tr2, s, before, step)
<1>0. Len(Chain[s]) \in DOMAIN Chain[s]
    BY ChainFacts
<1>1. PICK lost \in before .. step - 1 :
          /\ lost > 0 => lost > before /\ ~ HeldIn(tr, s, Len(Chain[s]), lost)
          /\ RunThroughIn(tr, s, lost + 1, step)
    BY DEF SeparateIn
<1>2. PICK at \in [DOMAIN Chain[s] -> lost + 1 .. step] :
          /\ \A i \in DOMAIN Chain[s] : HeldIn(tr, s, i, at[i])
          /\ at[Len(Chain[s])] = step
          /\ \A i \in DOMAIN Chain[s] :
                 at[i] - Duration(s, i) >= IF i = 1 THEN lost + 1 - 1 ELSE at[i - 1]
    BY <1>1 DEF RunThroughIn
<1>3. HeldIn(tr2, s, Len(Chain[s]), lost) <=> HeldIn(tr, s, Len(Chain[s]), lost)
    <2>1. lost \in Int /\ lost <= n
        OBVIOUS
    <2> QED BY <1>0, <2>1, PastHeld
<1>4. ASSUME NEW i \in DOMAIN Chain[s]
      PROVE  HeldIn(tr2, s, i, at[i])
    <2>1. at[i] \in lost + 1 .. step
        BY <1>2
    <2>2. at[i] \in Int /\ at[i] <= n
        BY <2>1
    <2> QED BY <1>2, <2>2, PastHeld
<1>5. RunThroughIn(tr2, s, lost + 1, step)
    BY <1>2, <1>4 DEF RunThroughIn
<1> QED BY <1>1, <1>3, <1>5 DEF SeparateIn

(* The next predicate held for its duration, all of it since the one       *)
(* before: the sequence is run through one predicate further.              *)
LEMMA NextHasHeld ==
    ASSUME NEW tr, NEW tr2, NEW n \in Nat, \A u \in 1 .. n : tr2[u] = tr[u],
           NEW s \in AllSequences, NEW q \in Nat, q + 1 \in DOMAIN Chain[s],
           NEW k \in Nat, NEW lost \in 0 .. n, NEW at \in [0 .. q -> lost .. n],
           RunIn(tr, s, q, k, n, lost, at),
           tr2[n + 1][Chain[s][q + 1].pred],
           Chain[s][q + 1].steps > 0 => k + 1 >= Chain[s][q + 1].steps
    PROVE  HeldIn(tr2, s, q + 1, n + 1) /\ n + 1 - Duration(s, q + 1) >= at[q]
<1> DEFINE p == Chain[s][q + 1].pred
           d == Chain[s][q + 1].steps
<1>1. d \in Nat
    BY ChainFacts
<1>2. at[q] \in 0 .. n
    OBVIOUS
<1>3. d > 0 => \A u \in n - k + 1 .. n : u > at[q] /\ tr[u][p]
    BY DEF RunIn
<1>4. tr2[n + 1][p] /\ (d > 0 => k + 1 >= d)
    OBVIOUS
<1>5. Duration(s, q + 1) = IF d = 0 THEN 1 ELSE d
    BY DEF Duration
<1>6. PICK i, m : i = q + 1 /\ m = n + 1
    OBVIOUS
<1>60. (\A u \in m - Duration(s, i) + 1 .. m : u \in 1 .. m /\ tr2[u][Chain[s][i].pred])
           => HeldIn(tr2, s, i, m)
    BY DEF HeldIn
<1>61. ASSUME \A u \in n + 1 - Duration(s, q + 1) + 1 .. n + 1 : u \in 1 .. n + 1 /\ tr2[u][p]
      PROVE  HeldIn(tr2, s, q + 1, n + 1)
    <2>1. Chain[s][i].pred = p /\ Duration(s, i) = Duration(s, q + 1) /\ Duration(s, q + 1) \in Nat
        BY <1>6, DurationFacts
    <2>2. m - Duration(s, i) + 1 = n + 1 - Duration(s, q + 1) + 1
        BY <1>6, <2>1
    <2>3. \A u \in m - Duration(s, i) + 1 .. m : u \in 1 .. m /\ tr2[u][Chain[s][i].pred]
        BY <1>6, <1>61, <2>1, <2>2
    <2>4. HeldIn(tr2, s, i, m)
        BY <1>60, <2>3, Zenon
    <2> QED BY <1>6, <2>4, Zenon
<1> HIDE DEF p, d
<1>7. CASE d = 0
    <2>1. \A u \in n + 1 - 1 + 1 .. n + 1 : u = n + 1
        OBVIOUS
    <2>2. n + 1 \in 1 .. n + 1
        OBVIOUS
    <2>3. HeldIn(tr2, s, q + 1, n + 1)
        BY <1>4, <1>5, <1>61, <1>7, <2>1, <2>2
    <2> QED BY <1>2, <1>5, <1>7, <2>3
<1>8. CASE d > 0
    <2>1. \A u \in n + 1 - d + 1 .. n : u > at[q] /\ tr[u][p]
        <3>1. \A u \in n + 1 - d + 1 .. n : u \in n - k + 1 .. n
            BY <1>1, <1>4, <1>8
        <3> QED BY <1>3, <1>8, <3>1
    <2>2. ASSUME NEW u \in n + 1 - d + 1 .. n + 1
          PROVE  u \in 1 .. n + 1 /\ tr2[u][p]
        <3>1. CASE u = n + 1
            BY <1>4, <3>1
        <3>2. CASE u # n + 1
            <4>1. u \in n + 1 - d + 1 .. n
                BY <1>1, <3>2
            <4>2. u > at[q] /\ tr[u][p]
                BY <2>1, <4>1
            <4>3. u \in 1 .. n
                BY <1>1, <1>2, <4>1, <4>2
            <4> QED BY <4>2, <4>3
        <3> QED BY <3>1, <3>2
    <2>3. Duration(s, q + 1) = d
        BY <1>1, <1>5, <1>8
    <2>4. HeldIn(tr2, s, q + 1, n + 1)
        BY <1>61, <2>2, <2>3
    <2>5. n + 1 - d >= at[q]
        <3>1. CASE d = 1
            BY <1>2, <3>1
        <3>2. CASE d # 1
            <4>1. n + 1 - d + 1 \in n + 1 - d + 1 .. n
                BY <1>1, <1>8, <3>2
            <4>2. n + 1 - d + 1 > at[q]
                BY <2>1, <4>1
            <4> QED BY <1>1, <1>2, <4>2
        <3> QED BY <3>1, <3>2
    <2> QED BY <2>3, <2>4, <2>5
<1> QED BY <1>1, <1>7, <1>8

LEMMA RunGoesFurther ==
    ASSUME NEW tr, NEW tr2, NEW n \in Nat, \A u \in 1 .. n : tr2[u] = tr[u],
           NEW s \in AllSequences, NEW q \in Nat, q + 1 \in DOMAIN Chain[s],
           NEW k \in Nat, NEW lost \in 0 .. n, NEW at \in [0 .. q -> lost .. n],
           RunIn(tr, s, q, k, n, lost, at),
           tr2[n + 1][Chain[s][q + 1].pred],
           Chain[s][q + 1].steps > 0 => k + 1 >= Chain[s][q + 1].steps,
           NEW m \in Nat, m = q + 1, NEW t \in Nat, t = n + 1
    PROVE  RunReaches(tr2, s, m, t, lost)
<1>1. HeldIn(tr2, s, q + 1, n + 1) /\ n + 1 - Duration(s, q + 1) >= at[q]
    BY NextHasHeld
<1>2. at[0] = lost
      /\ \A i \in 1 .. q : HeldIn(tr, s, i, at[i]) /\ at[i] - Duration(s, i) >= at[i - 1]
    BY DEF RunIn
<1>3. PICK next : next = [i \in 0 .. q + 1 |-> IF i = q + 1 THEN n + 1 ELSE at[i]]
    OBVIOUS
<1>4. /\ \A i \in 0 .. q : next[i] = at[i] /\ next[i] \in lost .. n
      /\ next[q + 1] = n + 1
    <2>1. \A i \in 0 .. q : i \in 0 .. q + 1 /\ i # q + 1 /\ at[i] \in lost .. n
        OBVIOUS
    <2>2. q + 1 \in 0 .. q + 1
        OBVIOUS
    <2> QED BY <1>3, <2>1, <2>2
<1>5. next \in [0 .. q + 1 -> lost .. n + 1]
    <2>1. ASSUME NEW i \in 0 .. q + 1
          PROVE  (IF i = q + 1 THEN n + 1 ELSE at[i]) \in lost .. n + 1
        <3>1. i # q + 1 => i \in 0 .. q
            OBVIOUS
        <3>2. i # q + 1 => at[i] \in lost .. n
            BY <3>1
        <3> QED BY <3>2
    <2> QED BY <1>3, <2>1
<1>6. ASSUME NEW i \in 1 .. q + 1
      PROVE  HeldIn(tr2, s, i, next[i]) /\ next[i] - Duration(s, i) >= next[i - 1]
    <2>1. CASE i = q + 1
        <3>1. i - 1 = q /\ q \in 0 .. q
            BY <2>1
        <3>2. next[i] = n + 1 /\ next[i - 1] = at[q]
            BY <1>4, <2>1, <3>1
        <3>3. HeldIn(tr2, s, i, next[i])
            <4>1. \A j, u : j = q + 1 /\ u = n + 1 => HeldIn(tr2, s, j, u)
                BY <1>1
            <4> QED BY <2>1, <3>2, <4>1
        <3>4. Duration(s, i) = Duration(s, q + 1) /\ Duration(s, q + 1) \in Nat
            BY <2>1, DurationFacts
        <3>5. next[i] - Duration(s, i) >= next[i - 1]
            BY <1>1, <3>2, <3>4
        <3> QED BY <3>3, <3>5
    <2>2. CASE i # q + 1
        <3>1. i \in 1 .. q /\ i \in 0 .. q /\ i - 1 \in 0 .. q
            BY <2>2
        <3>2. i \in DOMAIN Chain[s]
            BY <3>1, ChainFacts
        <3>3. next[i] = at[i] /\ next[i - 1] = at[i - 1] /\ at[i] \in Int /\ at[i] <= n
            BY <1>4, <3>1
        <3>4. HeldIn(tr2, s, i, at[i]) <=> HeldIn(tr, s, i, at[i])
            BY <3>2, <3>3, PastHeld
        <3> QED BY <1>2, <3>1, <3>3, <3>4
    <2> QED BY <2>1, <2>2
<1>7. next[0] = lost
    BY <1>2, <1>4
<1>8. RunIn(tr2, s, q + 1, 0, n + 1, lost, next)
    <2>1. \A u \in n + 1 - 0 + 1 .. n + 1 : FALSE
        OBVIOUS
    <2> QED BY <1>6, <1>7, <2>1 DEF RunIn
<1>9. next[q + 1] = n + 1
    BY <1>4
<1>10. next \in [0 .. m -> lost .. t] /\ RunIn(tr2, s, m, 0, t, lost, next) /\ next[m] = t
    BY <1>5, <1>8, <1>9, Zenon
<1> QED BY <1>10 DEF RunReaches

(* The sequence stays where it is, and its next predicate goes on or ends. *)
LEMMA RunGoesOn ==
    ASSUME NEW tr, NEW tr2, NEW n \in Nat, \A u \in 1 .. n : tr2[u] = tr[u],
           NEW s \in AllSequences, NEW q \in Nat, q + 1 \in DOMAIN Chain[s],
           NEW k \in Nat, NEW lost \in 0 .. n, NEW at \in [0 .. q -> lost .. n],
           RunIn(tr, s, q, k, n, lost, at),
           NEW j \in Nat, j <= k + 1, j > 0 => tr2[n + 1][Chain[s][q + 1].pred]
    PROVE  at \in [0 .. q -> lost .. n + 1] /\ RunIn(tr2, s, q, j, n + 1, lost, at)
<1>1. \A i \in 0 .. q : at[i] \in lost .. n
    OBVIOUS
<1>2. at \in [0 .. q -> lost .. n + 1]
    <2>1. \A i \in 0 .. q : at[i] \in lost .. n + 1
        BY <1>1
    <2> QED BY <2>1
<1>3. ASSUME NEW i \in 1 .. q
      PROVE  HeldIn(tr2, s, i, at[i]) /\ at[i] - Duration(s, i) >= at[i - 1]
    <2>1. i \in DOMAIN Chain[s]
        BY ChainFacts
    <2>2. at[i] \in Int /\ at[i] <= n
        BY <1>1
    <2>3. HeldIn(tr2, s, i, at[i]) <=> HeldIn(tr, s, i, at[i])
        BY <2>1, <2>2, PastHeld
    <2> QED BY <2>3 DEF RunIn
<1> PICK t \in Nat : t = n + 1
    OBVIOUS
<1>4. ASSUME Chain[s][q + 1].steps > 0, NEW u \in t - j + 1 .. t
      PROVE  u > at[q] /\ tr2[u][Chain[s][q + 1].pred]
    <2>1. at[q] \in 0 .. n
        BY <1>1
    <2>2. CASE u = n + 1
        <3>1. j > 0
            BY <2>2
        <3> QED BY <2>1, <2>2, <3>1
    <2>3. CASE u # n + 1
        <3>1. u \in n - k + 1 .. n
            BY <2>3
        <3>2. u > at[q] /\ tr[u][Chain[s][q + 1].pred]
            BY <1>4, <3>1 DEF RunIn
        <3>3. u \in 1 .. n
            BY <2>1, <3>1, <3>2
        <3> QED BY <3>2, <3>3
    <2> QED BY <2>2, <2>3
<1>5. at[0] = lost
    BY DEF RunIn
<1>6. RunIn(tr2, s, q, j, t, lost, at)
    BY <1>3, <1>4, <1>5 DEF RunIn
<1>7. RunIn(tr2, s, q, j, n + 1, lost, at)
    BY <1>6, Zenon
<1> QED BY <1>2, <1>7

(* A run that reaches the end of the sequence separates the occurrence. *)
LEMMA RunEnds ==
    ASSUME NEW tr, NEW n \in Nat, NEW s \in AllSequences, NEW lost \in 0 .. n,
           NEW q \in Nat, q = Len(Chain[s]), NEW t \in Nat, t = n + 1,
           RunReaches(tr, s, q, t, lost)
    PROVE  RunThroughIn(tr, s, lost + 1, n + 1)
<1>0. PICK at \in [0 .. q -> lost .. t] : RunIn(tr, s, q, 0, t, lost, at) /\ at[q] = t
    BY DEF RunReaches
<1>1. DOMAIN Chain[s] = 1 .. q /\ q >= 1
    BY ChainFacts
<1>2. at[0] = lost
      /\ \A i \in 1 .. q : HeldIn(tr, s, i, at[i]) /\ at[i] - Duration(s, i) >= at[i - 1]
    BY <1>0 DEF RunIn
<1>3. PICK by : by = [i \in 1 .. q |-> at[i]]
    OBVIOUS
<1>4. ASSUME NEW i \in 1 .. q
      PROVE  /\ by[i] = at[i] /\ at[i] \in lost + 1 .. n + 1
             /\ by[i] - Duration(s, i) >= IF i = 1 THEN lost + 1 - 1 ELSE by[i - 1]
    <2>1. Duration(s, i) \in Nat /\ Duration(s, i) >= 1
        BY <1>1, DurationFacts
    <2>2. at[i] \in lost .. n + 1 /\ at[i - 1] \in lost .. n + 1
        OBVIOUS
    <2>3. at[i] >= lost + 1
        BY <1>2, <2>1, <2>2
    <2>4. i # 1 => i - 1 \in 1 .. q
        OBVIOUS
    <2>5. i # 1 => by[i - 1] = at[i - 1]
        BY <1>3, <2>4
    <2> QED BY <1>2, <1>3, <2>2, <2>3, <2>5
<1>5. by \in [1 .. q -> lost + 1 .. n + 1]
    BY <1>3, <1>4
<1>6. by[q] = n + 1
    BY <1>0, <1>1, <1>4
<1>7. \A i \in 1 .. q : HeldIn(tr, s, i, by[i])
    BY <1>2, <1>4, Zenon
<1>8. by[q] = n + 1 /\ q = Len(Chain[s]) /\ 1 .. q = DOMAIN Chain[s]
    BY <1>1, <1>6
<1>9. \A i \in 1 .. q : by[i] - Duration(s, i) >= IF i = 1 THEN lost + 1 - 1 ELSE by[i - 1]
    BY <1>4
<1>10. PICK from, to : from = lost + 1 /\ to = n + 1
    OBVIOUS
<1>11. /\ by \in [DOMAIN Chain[s] -> from .. to] /\ by[Len(Chain[s])] = to
       /\ \A i \in DOMAIN Chain[s] : HeldIn(tr, s, i, by[i])
       /\ \A i \in DOMAIN Chain[s] :
              by[i] - Duration(s, i) >= IF i = 1 THEN from - 1 ELSE by[i - 1]
    <2>1. \A i \in DOMAIN Chain[s] :
              i \in 1 .. q /\ i \in Nat /\ by[i] \in Int /\ Duration(s, i) \in Nat
        BY <1>5, <1>8, DurationFacts
    <2>2. from - 1 = lost + 1 - 1 /\ from - 1 \in Int
        BY <1>10
    <2>3. by \in [DOMAIN Chain[s] -> from .. to] /\ by[Len(Chain[s])] = to
        BY <1>5, <1>8, <1>10
    <2>4. \A i \in DOMAIN Chain[s] :
              by[i] - Duration(s, i) >= IF i = 1 THEN from - 1 ELSE by[i - 1]
        BY <1>9, <2>1, <2>2
    <2> QED BY <1>7, <2>1, <2>3, <2>4
<1>12. RunThroughIn(tr, s, from, to)
    BY <1>11 DEF RunThroughIn
<1> QED BY <1>10, <1>12, Zenon

LEMMA RunStarts ==
    ASSUME NEW tr, NEW n \in Nat, NEW s \in AllSequences
    PROVE  \E at \in [0 .. 0 -> n .. n] : RunIn(tr, s, 0, 0, n, n, at)
<1>1. PICK at : at = [i \in 0 .. 0 |-> n]
    OBVIOUS
<1>2. at \in [0 .. 0 -> n .. n] /\ at[0] = n
    BY <1>1
<1>3. /\ \A i \in 1 .. 0 : FALSE
      /\ \A u \in n - 0 + 1 .. n : FALSE
    OBVIOUS
<1>4. RunIn(tr, s, 0, 0, n, n, at)
    BY <1>2, <1>3 DEF RunIn
<1> QED BY <1>2, <1>4

-----------------------------------------------------------------------------
(* What a control step does to the runs under way. *)
LEMMA AdvanceHasHeld ==
    ASSUME TypeOK, NEW now \in [Preds -> BOOLEAN], Step(now), NEW s \in TrackedEvents,
           Advances(s, now), NEW q, q = pos[s]
    PROVE  /\ q \in Nat /\ q + 1 \in DOMAIN Chain[s] /\ q + 1 <= Len(Chain[s])
           /\ now[Chain[s][q + 1].pred]
           /\ Chain[s][q + 1].steps > 0 =>
                  /\ streak[<<s, q + 1>>] \in Nat
                  /\ streak[<<s, q + 1>>] + 1 >= Chain[s][q + 1].steps
<1>1. s \in AllSequences
    BY KindFacts
<1>2. PICK i : i = q + 1
    OBVIOUS
<1>3. q \in Nat /\ i \in Nat /\ i \in DOMAIN Chain[s] /\ i <= Len(Chain[s])
    <2>1. q \in Nat /\ Len(Chain[s]) \in Nat /\ DOMAIN Chain[s] = 1 .. Len(Chain[s])
        BY <1>1, ChainFacts DEF TypeOK
    <2>2. ~ q >= Len(Chain[s])
        BY DEF Advances, SequenceComplete
    <2> QED BY <1>2, <2>1, <2>2
<1> DEFINE p == Chain[s][i].pred
           d == Chain[s][i].steps
<1>4. d \in Nat /\ now[p] \in BOOLEAN
    BY <1>1, <1>3, ChainFacts
<1>5. Result(s, i, now)
    BY <1>2 DEF Advances
<1>6. CASE d = 0
    <2>1. now[p]
        BY <1>5, <1>6 DEF Result
    <2> QED BY <1>2, <1>3, <1>6, <2>1
<1>7. CASE d > 0
    <2>1. streak[<<s, i>>] \in Nat
        BY <1>1, <1>3, <1>7, StepRanges
    <2>2. NextStreak(s, i, now[p]) >= d
        BY <1>5, <1>7 DEF Result
    <2>3. PICK j \in Nat : j + 1 = d
        <3>1. d - 1 \in Nat /\ d - 1 + 1 = d
            BY <1>4, <1>7
        <3> QED BY <3>1
    <2>4. NextStreak(s, i, now[p]) >= j + 1 <=> now[p] /\ streak[<<s, i>>] >= j
        BY <1>4, <2>1, <2>3, NextStreakCounts
    <2>5. now[p] /\ streak[<<s, i>>] >= j
        BY <2>2, <2>3, <2>4
    <2>6. streak[<<s, i>>] + 1 >= d
        BY <2>1, <2>3, <2>5
    <2> QED BY <1>2, <1>3, <2>1, <2>5, <2>6
<1> QED BY <1>4, <1>6, <1>7

(* The run of an event that is under way, as data. *)
LEMMA RunFacts ==
    ASSUME TypeOK, OccurredBefore, RunsUnderWay, NEW s \in TrackedEvents, ~ SequenceComplete(s),
           NEW n, n = StepsSoFar, NEW q, q = pos[s]
    PROVE  \E before \in Nat, lost \in 0 .. n, k \in Nat :
               /\ before = LastOccurrence(s) /\ before <= lost
               /\ Rearmed(s, lost)
               /\ Chain[s][q + 1].steps > 0 => k = streak[<<s, q + 1>>]
               /\ \E at \in [0 .. q -> lost .. n] : RunIn(truth, s, q, k, n, lost, at)
<1>1. PICK before \in Nat : before = LastOccurrence(s) /\ before <= n
    BY OccurrenceFacts
<1>2. n \in Nat /\ q \in Nat /\ s \in AllSequences /\ q + 1 \in DOMAIN Chain[s]
    <2>1. n \in Nat
        BY DEF TypeOK, StepsSoFar
    <2>2. s \in AllSequences /\ q \in Nat
        BY KindFacts DEF TypeOK
    <2>3. ~ q >= Len(Chain[s])
        BY DEF SequenceComplete
    <2> QED BY <2>1, <2>2, <2>3, ChainFacts
<1>3. PICK lost \in before .. n :
          /\ Rearmed(s, lost)
          /\ \E at \in [0 .. q -> lost .. n] :
                 RunIn(truth, s, q, streak[<<s, q + 1>>], n, lost, at)
    BY <1>1 DEF RunsUnderWay
<1>4. lost \in 0 .. n /\ before <= lost
    BY <1>1, <1>2
<1>5. PICK at \in [0 .. q -> lost .. n] : RunIn(truth, s, q, streak[<<s, q + 1>>], n, lost, at)
    BY <1>3
<1>6. CASE Chain[s][q + 1].steps > 0
    <2>1. <<s, q + 1>> \in Requirements
        BY <1>2, <1>6, RequirementFacts
    <2>2. streak[<<s, q + 1>>] \in Nat
        BY <2>1 DEF TypeOK
    <2> QED BY <1>1, <1>3, <1>4, <2>2
<1>7. CASE ~ Chain[s][q + 1].steps > 0
    <2>1. RunIn(truth, s, q, 0, n, lost, at)
        BY <1>5, <1>7 DEF RunIn
    <2> QED BY <1>1, <1>3, <1>4, <1>7, <2>1
<1> QED BY <1>6, <1>7

(* An event is rearmed at a step at which its final condition fails. *)
LEMMA RearmedFails ==
    ASSUME TypeOK, CompletedHold, NEW now \in [Preds -> BOOLEAN], Step(now),
           NEW s \in TrackedEvents, Restarts(s, now), NEW n, n = StepsSoFar
    PROVE  ~ HeldIn(truth', s, Len(Chain[s]), n + 1)
<1> PICK last : last = Len(Chain[s])
    OBVIOUS
<1>1. s \in AllSequences /\ last \in Nat /\ last >= 1 /\ last \in DOMAIN Chain[s]
    BY KindFacts, ChainFacts
<1> DEFINE p == Chain[s][last].pred
           d == Chain[s][last].steps
<1>2. d \in Nat /\ now[p] \in BOOLEAN
    BY <1>1, ChainFacts
<1>3. SequenceComplete(s) /\ ~ FinalConditionMet(s, now) /\ NextPos(s, now) >= last
    BY RearmedWasComplete DEF Restarts, Cleared
<1>4. ~ Result(s, last, now)
    <2>1. NextPos(s, now) >= last - 1
        BY <1>1, <1>3, StepRanges
    <2> QED BY <1>3, <2>1 DEF FinalConditionMet
<1>5. ~ now[p]
    <2>1. CASE d = 0
        BY <1>4, <2>1 DEF Result
    <2>2. CASE d > 0
        <3>1. streak[<<s, last>>] \in Nat /\ streak[<<s, last>>] >= d
            BY <1>1, <1>3, <2>2, StepRanges DEF CompletedHold
        <3>2. Evaluated(s, last)
            <4>1. pos[s] >= last - 1
                BY <1>1, <1>3, StepRanges DEF SequenceComplete
            <4> QED BY <1>3, <4>1 DEF Evaluated, Rechecked
        <3>3. ~ NextStreak(s, last, now[p]) >= d
            BY <1>2, <1>4, <2>2, <3>2 DEF Result
        <3> QED BY <1>2, <3>1, <3>3 DEF NextStreak
    <2> QED BY <1>2, <2>1, <2>2
<1>6. n \in Nat /\ truth'[n + 1] = now
    BY StepEffect
<1>8. ASSUME HeldIn(truth', s, last, n + 1) PROVE FALSE
    <2>1. PICK t \in Nat : t = n + 1
        BY <1>6
    <2>2. HeldIn(truth', s, last, t)
        <3>1. \A m : m = n + 1 => HeldIn(truth', s, last, m)
            BY <1>8, Zenon
        <3> QED BY <2>1, <3>1
    <2>3. t \in t - Duration(s, last) + 1 .. t /\ truth'[t] = now
        <3>1. Duration(s, last) \in Nat /\ Duration(s, last) >= 1
            BY <1>1, DurationFacts
        <3>2. truth'[t] = now
            BY <1>6, <2>1
        <3> QED BY <3>1, <3>2
    <2>4. \A u \in t - Duration(s, last) + 1 .. t : truth'[u][Chain[s][last].pred]
        BY <2>2 DEF HeldIn
    <2>5. truth'[t][Chain[s][last].pred]
        BY <2>3, <2>4
    <2> QED BY <1>5, <2>3, <2>5
<1> QED BY <1>8

LEMMA StepRuns ==
    ASSUME TypeOK, StreaksAreReached, CompletedHold, OccurredBefore, RunsUnderWay,
           NEW now \in [Preds -> BOOLEAN], Step(now)
    PROVE  RunsUnderWay'
<1> PICK n \in Nat : n = StepsSoFar
    BY StepEffect
<1> PICK tr, tr2 : tr = truth /\ tr2 = truth'
    OBVIOUS
<1>0. /\ n \in Nat /\ n = StepsSoFar /\ StepsSoFar' = n + 1 /\ tr = truth /\ tr2 = truth'
      /\ \A u \in 1 .. n : tr2[u] = tr[u]
      /\ tr2[n + 1] = now
    BY StepEffect
<1> SUFFICES ASSUME NEW s \in TrackedEvents, ~ SequenceComplete(s)'
             PROVE  \E lost \in LastOccurrence(s)' .. n + 1 :
                        /\ Rearmed(s, lost)'
                        /\ \E at \in [0 .. pos'[s] -> lost .. n + 1] :
                               RunIn(tr2, s, pos'[s], streak'[<<s, pos'[s] + 1>>], n + 1, lost, at)
    BY <1>0 DEF RunsUnderWay
<1>1. PICK q \in Nat, last \in Nat : q = pos[s] /\ last = Len(Chain[s])
    <2>1. s \in AllSequences
        BY KindFacts
    <2> QED BY <2>1, ChainFacts DEF TypeOK
<1>2. /\ s \in AllSequences /\ q \in Nat /\ DOMAIN Chain[s] = 1 .. last /\ last >= 1
      /\ NextPos(s, now) \in Nat
      /\ Advances(s, now) => NextPos(s, now) = q + 1
      /\ ~ Advances(s, now) => NextPos(s, now) = q
    BY <1>1, KindFacts, ChainFacts, StepRanges
<1>3. ~ pos'[s] >= last
    BY <1>1 DEF SequenceComplete
<1>4. ~ Occurs(s, now)
    <2>1. CASE Restarts(s, now)
        BY <2>1, RearmedWasComplete DEF Occurs
    <2>2. CASE ~ Restarts(s, now)
        <3>1. pos'[s] = NextPos(s, now)
            BY <2>2, StepEvent
        <3> QED BY <1>1, <1>3, <3>1 DEF Occurs
    <2> QED BY <2>1, <2>2
<1>5. occurrences'[s] = occurrences[s]
    BY <1>4, StepEvent
<1>6. PICK before \in Nat : before = LastOccurrence(s) /\ before <= n
    BY <1>0, OccurrenceFacts
<1>7. LastOccurrence(s)' = before
    BY <1>5, <1>6 DEF LastOccurrence
<1>8. CASE Restarts(s, now)
    <2>1. pos'[s] = 0
        BY <1>8, StepEvent
    <2>2. 1 \in DOMAIN Chain[s]
        BY <1>2
    <2>3. PICK at \in [0 .. 0 -> n + 1 .. n + 1] : RunIn(tr2, s, 0, 0, n + 1, n + 1, at)
        <3>1. PICK m \in Nat : m = n + 1
            BY <1>0
        <3>2. \E at \in [0 .. 0 -> m .. m] : RunIn(tr2, s, 0, 0, m, m, at)
            BY <1>2, RunStarts
        <3> QED BY <3>1, <3>2, Zenon
    <2>4. PICK k : k = streak'[<<s, 1>>]
        OBVIOUS
    <2>5. Chain[s][1].steps > 0 => k = 0
        BY <1>8, <2>2, <2>4, StepEvent
    <2>6. RunIn(tr2, s, 0, k, n + 1, n + 1, at)
        <3>1. CASE Chain[s][1].steps > 0
            BY <2>3, <2>5, <3>1
        <3>2. CASE ~ Chain[s][1].steps > 0
            BY <2>3, <3>2 DEF RunIn
        <3> QED BY <3>1, <3>2
    <2>7. Rearmed(s, n + 1)'
        <3>1. ~ HeldIn(tr2, s, Len(Chain[s]), n + 1)
            BY <1>0, <1>8, RearmedFails
        <3>2. n + 1 > before
            BY <1>6
        <3>3. PICK m : m = n + 1
            OBVIOUS
        <3>4. ~ HeldIn(tr2, s, Len(Chain[s]), m) /\ m > before
            BY <3>1, <3>2, <3>3
        <3>5. Rearmed(s, m)'
            BY <1>0, <1>7, <3>4 DEF Rearmed
        <3> QED BY <3>3, <3>5, Zenon
    <2>8. n + 1 \in before .. n + 1
        BY <1>6
    <2>9. 0 + 1 = 1
        OBVIOUS
    <2> QED BY <1>7, <2>1, <2>3, <2>4, <2>6, <2>7, <2>8, <2>9
<1>9. CASE ~ Restarts(s, now)
    <2>1. pos'[s] = NextPos(s, now)
        BY <1>9, StepEvent
    <2>2. q < last /\ q + 1 \in DOMAIN Chain[s]
        BY <1>2, <1>3, <2>1
    <2>3. ~ SequenceComplete(s)
        BY <1>1, <1>2, <2>2 DEF SequenceComplete
    <2>4. PICK lost \in 0 .. n, k \in Nat :
              /\ before <= lost
              /\ Rearmed(s, lost)
              /\ Chain[s][q + 1].steps > 0 => k = streak[<<s, q + 1>>]
              /\ \E at \in [0 .. q -> lost .. n] : RunIn(tr, s, q, k, n, lost, at)
        BY <1>0, <1>1, <1>6, <2>3, RunFacts
    <2>5. PICK at \in [0 .. q -> lost .. n] : RunIn(tr, s, q, k, n, lost, at)
        BY <2>4
    <2>6. Rearmed(s, lost)' /\ lost \in before .. n + 1
        <3>1. Len(Chain[s]) \in DOMAIN Chain[s] /\ lost \in Int /\ lost <= n
            BY <1>1, <1>2
        <3>2. HeldIn(tr2, s, Len(Chain[s]), lost) <=> HeldIn(tr, s, Len(Chain[s]), lost)
            BY <1>0, <1>2, <3>1, PastHeld
        <3>3. lost > 0 => lost > before /\ ~ HeldIn(tr2, s, Len(Chain[s]), lost)
            BY <1>0, <1>6, <2>4, <3>2 DEF Rearmed
        <3>4. Rearmed(s, lost)'
            BY <1>0, <1>7, <3>3 DEF Rearmed
        <3> QED BY <1>6, <2>4, <3>4
    <2>7. CASE Advances(s, now)
        <3>1. pos'[s] = q + 1
            BY <1>2, <2>1, <2>7
        <3>2. /\ tr2[n + 1][Chain[s][q + 1].pred]
              /\ Chain[s][q + 1].steps > 0 => k + 1 >= Chain[s][q + 1].steps
            BY <1>0, <1>1, <2>4, <2>7, AdvanceHasHeld
        <3>4a. PICK m \in Nat, t \in Nat : m = q + 1 /\ t = n + 1
            OBVIOUS
        <3>3. PICK next \in [0 .. m -> lost .. t] : RunIn(tr2, s, m, 0, t, lost, next)
            <4>1. \A u \in 1 .. n : tr2[u] = tr[u]
                BY <1>0
            <4>2. s \in AllSequences /\ q + 1 \in DOMAIN Chain[s]
                BY <1>2, <2>2
            <4>3. k \in Nat /\ lost \in 0 .. n /\ at \in [0 .. q -> lost .. n]
                OBVIOUS
            <4>4. RunReaches(tr2, s, m, t, lost)
                BY <2>5, <3>2, <3>4a, <4>1, <4>2, <4>3, RunGoesFurther
            <4> QED BY <4>4 DEF RunReaches
        <3>4b. PICK j : j = streak'[<<s, m + 1>>]
            OBVIOUS
        <3>4. m \in Nat /\ m = q + 1 /\ j = streak'[<<s, m + 1>>]
            BY <1>2, <3>4a, <3>4b
        <3>5. m + 1 \in DOMAIN Chain[s] /\ m + 1 > q + 1 /\ m + 1 # q + 1
            BY <1>2, <1>3, <3>1, <3>4
        <3>6. Chain[s][m + 1].steps > 0 => j = 0
            <4>1. ~ Evaluated(s, m + 1)
                BY <1>1, <2>3, <3>5 DEF Evaluated, Rechecked
            <4>2. Chain[s][m + 1].steps > 0 => streak[<<s, m + 1>>] = 0
                BY <1>1, <1>2, <3>5 DEF StreaksAreReached
            <4> QED BY <1>9, <3>4, <3>5, <4>1, <4>2, StepEvent
        <3>7. RunIn(tr2, s, m, j, t, lost, next)
            <4>1. CASE Chain[s][m + 1].steps > 0
                BY <3>3, <3>6, <4>1
            <4>2. CASE ~ Chain[s][m + 1].steps > 0
                BY <3>3, <4>2 DEF RunIn
            <4> QED BY <4>1, <4>2
        <3>8. RunIn(tr2, s, m, j, n + 1, lost, next)
            BY <3>4a, <3>7, Zenon
        <3>9. next \in [0 .. m -> lost .. n + 1] /\ pos'[s] = m
            BY <3>1, <3>3, <3>4, <3>4a
        <3> QED BY <1>7, <2>6, <3>4, <3>8, <3>9
    <2>8. CASE ~ Advances(s, now)
        <3>1. pos'[s] = q
            BY <1>2, <2>1, <2>8
        <3>2. PICK j : j = streak'[<<s, q + 1>>]
            OBVIOUS
        <3>3. CASE Chain[s][q + 1].steps > 0
            <4>1. Evaluated(s, q + 1)
                BY <1>1, <2>3 DEF Evaluated, Active
            <4>2. j = NextStreak(s, q + 1, now[Chain[s][q + 1].pred])
                BY <1>9, <2>2, <3>2, <3>3, <4>1, StepEvent
            <4>3. now[Chain[s][q + 1].pred] \in BOOLEAN /\ k = streak[<<s, q + 1>>]
                BY <1>2, <2>2, <2>4, <3>3, ChainFacts
            <4>4. j \in Nat /\ j <= k + 1 /\ (j > 0 => now[Chain[s][q + 1].pred])
                BY <4>2, <4>3 DEF NextStreak
            <4>5. at \in [0 .. q -> lost .. n + 1] /\ RunIn(tr2, s, q, j, n + 1, lost, at)
                BY <1>0, <1>2, <2>2, <2>5, <4>4, RunGoesOn
            <4> QED BY <1>7, <2>6, <3>1, <3>2, <4>5
        <3>4. CASE ~ Chain[s][q + 1].steps > 0
            <4>1. 0 \in Nat /\ 0 <= k + 1 /\ ~ 0 > 0
                OBVIOUS
            <4>2. at \in [0 .. q -> lost .. n + 1] /\ RunIn(tr2, s, q, 0, n + 1, lost, at)
                BY <1>0, <1>2, <2>2, <2>5, <4>1, RunGoesOn
            <4>3. RunIn(tr2, s, q, j, n + 1, lost, at)
                BY <3>4, <4>2 DEF RunIn
            <4> QED BY <1>7, <2>6, <3>1, <3>2, <4>2, <4>3
        <3> QED BY <3>3, <3>4
    <2> QED BY <2>7, <2>8
<1> QED BY <1>8, <1>9

LEMMA StepSeparate ==
    ASSUME TypeOK, OccurredBefore, RunsUnderWay, OccurrencesSeparate,
           NEW now \in [Preds -> BOOLEAN], Step(now)
    PROVE  OccurrencesSeparate'
<1> PICK n \in Nat : n = StepsSoFar
    BY StepEffect
<1> PICK tr, tr2 : tr = truth /\ tr2 = truth'
    OBVIOUS
<1>0. \A u \in 1 .. n : tr2[u] = tr[u]
    BY StepEffect
<1>1. OccurrencesSeparate' <=>
          (\A s \in TrackedEvents : \A m \in DOMAIN occurrences[s] :
               SeparateIn(truth, s, Before(s, m), occurrences[s][m]))'
    BY SeparateOccurrences, PTL
<1> SUFFICES ASSUME NEW s \in TrackedEvents, NEW m \in DOMAIN occurrences'[s]
             PROVE  SeparateIn(tr2, s, Before(s, m)', occurrences'[s][m])
    BY <1>1
<1>2. /\ s \in AllSequences /\ occurrences[s] \in Seq(Nat) /\ Len(occurrences[s]) \in Nat
      /\ DOMAIN occurrences[s] = 1 .. Len(occurrences[s])
    BY KindFacts DEF TypeOK
<1>3. ASSUME m \in DOMAIN occurrences[s],
             occurrences'[s][m] = occurrences[s][m],
             m # 1 => occurrences'[s][m - 1] = occurrences[s][m - 1]
      PROVE  SeparateIn(tr2, s, Before(s, m)', occurrences'[s][m])
    <2>1. PICK before \in Nat, step \in 1 .. n :
              before = Before(s, m) /\ step = occurrences[s][m]
        BY <1>3, OccurrenceFacts DEF OccurredBefore
    <2>3. SeparateIn(tr, s, before, step)
        BY <1>3, <2>1, SeparateOccurrences
    <2>4. SeparateIn(tr2, s, before, step)
        BY <1>0, <1>2, <2>3, SeparateStays
    <2>5. Before(s, m)' = before
        BY <1>3, <2>1 DEF Before
    <2> QED BY <1>3, <2>1, <2>4, <2>5
<1>4. CASE ~ Occurs(s, now)
    <2>1. occurrences'[s] = occurrences[s]
        BY <1>4, StepEvent
    <2> QED BY <1>3, <2>1
<1>5. CASE Occurs(s, now)
    <2>1. occurrences'[s] = Append(occurrences[s], n + 1)
        BY <1>5, StepEvent
    <2>2. /\ DOMAIN occurrences'[s] = 1 .. Len(occurrences[s]) + 1
          /\ \A j \in 1 .. Len(occurrences[s]) : occurrences'[s][j] = occurrences[s][j]
          /\ occurrences'[s][Len(occurrences[s]) + 1] = n + 1
        BY <1>2, <2>1
    <2>3. CASE m \in DOMAIN occurrences[s]
        <3>1. m # 1 => m - 1 \in 1 .. Len(occurrences[s])
            BY <1>2, <2>3
        <3> QED BY <1>2, <1>3, <2>2, <2>3, <3>1
    <2>4. CASE m \notin DOMAIN occurrences[s]
        <3>1. m = Len(occurrences[s]) + 1
            BY <1>2, <2>2, <2>4
        <3>2. PICK q \in Nat, t \in Nat, last \in Nat :
                  q = pos[s] /\ last = Len(Chain[s]) /\ t = n + 1
            <4>1. pos[s] \in Nat /\ Len(Chain[s]) \in Nat /\ n + 1 \in Nat
                BY <1>2, ChainFacts DEF TypeOK
            <4> QED BY <4>1
        <3>3. Advances(s, now) /\ ~ SequenceComplete(s) /\ last = q + 1
            <4>1. Advances(s, now) /\ NextPos(s, now) >= last
                BY <1>5, <3>2 DEF Occurs
            <4>2. ~ q >= last
                BY <3>2, <4>1 DEF Advances, SequenceComplete
            <4>3. NextPos(s, now) = q + 1
                BY <1>2, <3>2, <4>1, StepRanges
            <4> QED BY <3>2, <4>1, <4>2, <4>3 DEF SequenceComplete
        <3>4. PICK before \in Nat, lost \in 0 .. n, k \in Nat :
                  /\ before = LastOccurrence(s) /\ before <= lost
                  /\ Rearmed(s, lost)
                  /\ Chain[s][q + 1].steps > 0 => k = streak[<<s, q + 1>>]
                  /\ \E at \in [0 .. q -> lost .. n] : RunIn(tr, s, q, k, n, lost, at)
            BY <3>2, <3>3, RunFacts
        <3>5. PICK at \in [0 .. q -> lost .. n] : RunIn(tr, s, q, k, n, lost, at)
            BY <3>4
        <3>6. RunReaches(tr2, s, last, t, lost)
            <4>1. /\ q + 1 \in DOMAIN Chain[s]
                  /\ now[Chain[s][q + 1].pred]
                  /\ Chain[s][q + 1].steps > 0 => k + 1 >= Chain[s][q + 1].steps
                BY <3>2, <3>3, <3>4, AdvanceHasHeld
            <4>2. tr2[n + 1][Chain[s][q + 1].pred]
                <5>1. tr2[n + 1] = now
                    BY StepEffect
                <5> QED BY <4>1, <5>1
            <4>3. s \in AllSequences /\ last = q + 1 /\ t = n + 1
                BY <1>2, <3>2, <3>3
            <4> QED BY <1>0, <3>5, <4>1, <4>2, <4>3, RunGoesFurther
        <3>7. RunThroughIn(tr2, s, lost + 1, n + 1)
            BY <1>2, <3>2, <3>6, RunEnds
        <3>8. lost > 0 => lost > before /\ ~ HeldIn(tr2, s, Len(Chain[s]), lost)
            <4>1. Len(Chain[s]) \in DOMAIN Chain[s] /\ lost \in Int /\ lost <= n
                BY <1>2, ChainFacts
            <4>2. HeldIn(tr2, s, Len(Chain[s]), lost) <=> HeldIn(tr, s, Len(Chain[s]), lost)
                BY <1>0, <1>2, <4>1, PastHeld
            <4> QED BY <3>4, <4>2 DEF Rearmed
        <3>9. lost \in before .. t - 1 /\ t = n + 1 /\ RunThroughIn(tr2, s, lost + 1, t)
            <4>1. lost \in before .. t - 1
                BY <3>2, <3>4
            <4> QED BY <3>2, <3>7, <4>1, Zenon
        <3>10. SeparateIn(tr2, s, before, t)
            BY <3>8, <3>9 DEF SeparateIn
        <3>11. Before(s, m)' = before
            <4>1. m = 1 => before = 0
                <5>1. m = 1 => occurrences[s] = <<>>
                    BY <1>2, <3>1
                <5> QED BY <3>4, <5>1 DEF LastOccurrence
            <4>2. m # 1 => occurrences'[s][m - 1] = before
                <5>1. m # 1 => /\ m - 1 = Len(occurrences[s]) /\ m - 1 \in 1 .. Len(occurrences[s])
                               /\ occurrences[s] # <<>>
                    BY <1>2, <3>1
                <5> QED BY <2>2, <3>4, <5>1 DEF LastOccurrence
            <4> QED BY <4>1, <4>2 DEF Before
        <3>12. occurrences'[s][m] = t
            BY <2>2, <3>1, <3>2
        <3> QED BY <3>10, <3>11, <3>12
    <2> QED BY <2>3, <2>4
<1> QED BY <1>4, <1>5

LEMMA FreshOccurrences == Fresh => OccurrencesInv
<1> SUFFICES ASSUME Fresh PROVE OccurrencesInv
    OBVIOUS
<1>1. StepsSoFar = 0 /\ truth = <<>>
    BY DEF Fresh, StepsSoFar
<1>2. ASSUME NEW s \in TrackedEvents
      PROVE  /\ s \in AllSequences /\ pos[s] = 0 /\ ~ SequenceComplete(s)
             /\ occurrences[s] = <<>> /\ DOMAIN occurrences[s] = {} /\ LastOccurrence(s) = 0
             /\ 1 \in DOMAIN Chain[s]
    <2>1. s \in AllSequences /\ pos[s] = 0 /\ occurrences[s] = <<>>
        BY KindFacts DEF Fresh
    <2>2. DOMAIN occurrences[s] = {}
        BY <2>1
    <2> QED BY <2>1, <2>2, ChainFacts DEF SequenceComplete, LastOccurrence
<1>3. CompletedHold /\ OccurredBefore /\ OccurrencesSeparate
    BY <1>2 DEF CompletedHold, OccurredBefore, OccurrencesSeparate
<1>4. ASSUME NEW s \in TrackedEvents
      PROVE  \E lost \in LastOccurrence(s) .. StepsSoFar :
                 /\ Rearmed(s, lost)
                 /\ \E at \in [0 .. pos[s] -> lost .. StepsSoFar] :
                        RunIn(truth, s, pos[s], streak[<<s, pos[s] + 1>>], StepsSoFar, lost, at)
    <2>1. PICK at \in [0 .. 0 -> 0 .. 0] : RunIn(truth, s, 0, 0, 0, 0, at)
        BY <1>2, RunStarts
    <2>2. PICK k : k = streak[<<s, 1>>]
        OBVIOUS
    <2>3. Chain[s][1].steps > 0 => k = 0
        BY <1>2, <2>2, RequirementFacts DEF Fresh
    <2>4. RunIn(truth, s, 0, k, 0, 0, at)
        <3>1. CASE Chain[s][1].steps > 0
            BY <2>1, <2>3, <3>1
        <3>2. CASE ~ Chain[s][1].steps > 0
            BY <2>1, <3>2 DEF RunIn
        <3> QED BY <3>1, <3>2
    <2>5. Rearmed(s, 0) /\ 0 \in 0 .. 0
        BY DEF Rearmed
    <2>6. streak[<<s, pos[s] + 1>>] = k /\ pos[s] = 0 /\ StepsSoFar = 0 /\ LastOccurrence(s) = 0
        <3>1. 0 + 1 = 1
            OBVIOUS
        <3> QED BY <1>1, <1>2, <2>2, <3>1
    <2>7. PICK q, n : q = 0 /\ n = 0
        OBVIOUS
    <2>8. /\ n \in LastOccurrence(s) .. StepsSoFar /\ Rearmed(s, n)
          /\ at \in [0 .. pos[s] -> n .. StepsSoFar]
          /\ RunIn(truth, s, pos[s], streak[<<s, pos[s] + 1>>], StepsSoFar, n, at)
        BY <2>4, <2>5, <2>6, <2>7, Zenon
    <2> QED BY <2>8, Zenon
<1>5. RunsUnderWay
    BY <1>4 DEF RunsUnderWay
<1> QED BY <1>3, <1>5 DEF OccurrencesInv

LEMMA FreshOccurrencesNext == Fresh' => OccurrencesInv'
BY FreshOccurrences, PTL

LEMMA OccurrencesNext == MilestonesInv /\ OccurrencesInv /\ [Next]_vars => OccurrencesInv'
<1> SUFFICES ASSUME MilestonesInv, OccurrencesInv, [Next]_vars PROVE OccurrencesInv'
    OBVIOUS
<1>1. TypeOK /\ StreaksAreReached
    BY DEF MilestonesInv
<1>2. ASSUME NEW now \in [Preds -> BOOLEAN], Step(now)
      PROVE  OccurrencesInv'
    <2>1. CompletedHold'
        BY <1>1, <1>2, StepCompletedHold
    <2>2. OccurredBefore'
        BY <1>1, <1>2, StepOccurredBefore DEF OccurrencesInv
    <2>3. RunsUnderWay'
        BY <1>1, <1>2, StepRuns DEF OccurrencesInv
    <2>4. OccurrencesSeparate'
        BY <1>1, <1>2, StepSeparate DEF OccurrencesInv
    <2> QED BY <2>1, <2>2, <2>3, <2>4 DEF OccurrencesInv
<1>3. CASE Reset
    BY <1>1, <1>3, ResetIsFresh, FreshOccurrencesNext
<1>4. CASE UNCHANGED vars
    <2>1. /\ pos' = pos /\ streak' = streak /\ occurrences' = occurrences /\ truth' = truth
          /\ StepsSoFar' = StepsSoFar
        BY <1>4 DEF vars, StepsSoFar
    <2>2. \A s : /\ SequenceComplete(s)' <=> SequenceComplete(s)
                 /\ LastOccurrence(s)' = LastOccurrence(s)
        BY <2>1 DEF SequenceComplete, LastOccurrence
    <2>3. \A s, lost : Rearmed(s, lost)' <=> Rearmed(s, lost)
        BY <2>1, <2>2 DEF Rearmed
    <2>4. \A s, i, t : HeldAt(s, i, t)' <=> HeldAt(s, i, t)
        BY <2>1 DEF HeldAt
    <2>5. \A s, from, to : RunThrough(s, from, to)' <=> RunThrough(s, from, to)
        BY <2>4 DEF RunThrough
    <2>6. CompletedHold' /\ OccurredBefore'
        BY <2>1, <2>2 DEF OccurrencesInv, CompletedHold, OccurredBefore
    <2>7. RunsUnderWay'
        BY <2>1, <2>2, <2>3 DEF OccurrencesInv, RunsUnderWay
    <2>8. OccurrencesSeparate'
        BY <2>1, <2>4, <2>5 DEF OccurrencesInv, OccurrencesSeparate
    <2> QED BY <2>6, <2>7, <2>8 DEF OccurrencesInv
<1> QED BY <1>2, <1>3, <1>4 DEF Next

LEMMA OccurrencesAlways == Spec => []OccurrencesInv
<1>1. Init => OccurrencesInv
    BY InitIsFresh, FreshOccurrences
<1> QED BY <1>1, MilestonesAlways, OccurrencesNext, PTL DEF Spec

(* OccurrencesSeparate: an event that persists is recorded once, and its   *)
(* next occurrence has run through the whole sequence after a step at      *)
(* which the final condition did not hold.                                 *)
THEOREM OccurrencesAreSeparate == Spec => []OccurrencesSeparate
<1>1. OccurrencesInv => OccurrencesSeparate
    BY DEF OccurrencesInv
<1> QED BY <1>1, OccurrencesAlways, PTL
=============================================================================
