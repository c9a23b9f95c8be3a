------------------------- MODULE ExperimentRun_proof -------------------------
(***************************************************************************)
(* What an experiment runs, releases and reports, for any number of runs   *)
(* and rebuilds.                                                           *)
(***************************************************************************)
EXTENDS ExperimentRun, SequenceTheorems, NaturalsInduction, WellFoundedInduction, TLAPS

RunningPhases ==
    {"planning", "building", "making policy", "rolling out", "closing policy", "tearing down",
     "closing env", "finishing", "writing", "failed"}

FillRecords == [rebuild : Nat, ended : {"built", "failed", "lost"}]

TypeOK ==
    /\ run \in 0 .. NumRuns
    /\ rebuild \in Nat
    /\ phase \in RunningPhases \cup {"next", "returned", "raised"}
    /\ phase \in RunningPhases => run \in Runs
    /\ {continueOnError, writable, error} \subseteq BOOLEAN
    /\ diagnostics \in [Runs -> Seq(FillRecords)]
    /\ timings \in [Runs -> (SUBSET Runs) \cup {None}]

LEMMA TypeInit == Init => TypeOK
<1> SUFFICES ASSUME Init PROVE TypeOK
    OBVIOUS
<1>1. run \in 0 .. NumRuns
    BY ExperimentAssumption DEF Init
<1>2. diagnostics \in [Runs -> Seq(FillRecords)] /\ timings \in [Runs -> (SUBSET Runs) \cup {None}]
    BY EmptySeq DEF Init
<1>3. {continueOnError, writable, error} \subseteq BOOLEAN
    BY DEF Init
<1> QED
    BY <1>1, <1>2, <1>3 DEF Init, TypeOK, RunningPhases

-----------------------------------------------------------------------------
(* What may be open, in each phase. *)
OpenFits ==
    open \subseteq CASE phase = "closing env"                         -> {"env"}
                     [] phase \in {"making policy", "tearing down"}   -> {"stage", "env"}
                     [] phase \in {"rolling out", "closing policy"}   -> {"stage", "env", "policy"}
                     [] OTHER                                         -> {}

LEMMA OpenInit == Init => OpenFits
BY DEF Init, OpenFits

LEMMA OpenKeeps == ASSUME OpenFits, [Next]_vars PROVE OpenFits'
<1>1. CASE OutputBreaks \/ Return \/ Plan \/ FinishRun \/ WriteRunOutputs \/ RunFailed \/ NextRun
    BY <1>1 DEF OpenFits, OutputBreaks, Return, Plan, FinishRun, WriteRunOutputs, RunFailed, NextRun,
        loopVars, outputVars
<1>2. CASE Build \/ MakePolicy \/ Rollout
    BY <1>2 DEF OpenFits, Build, MakePolicy, Rollout
<1>3. CASE BuildRaises \/ MakePolicyRaises \/ RolloutRaises
    BY <1>3 DEF OpenFits, BuildRaises, MakePolicyRaises, RolloutRaises, FailOfFill, Fail
<1>4. CASE ClosePolicy
    BY <1>4 DEF OpenFits, ClosePolicy, AfterClosePolicy
<1>5. CASE CloseEnv
    <2>1. phase = "closing env" /\ open' = open \ {"env"}
        BY <1>5 DEF CloseEnv
    <2>2. open' = {}
        BY <2>1 DEF OpenFits
    <2> QED
        BY <2>2 DEF OpenFits
<1>6. CASE TearDown
    BY <1>6 DEF OpenFits, TearDown, AfterTearDown
<1>7. CASE UNCHANGED vars
    BY <1>7 DEF OpenFits, vars
<1> QED
    BY <1>1, <1>2, <1>3, <1>4, <1>5, <1>6, <1>7 DEF Next

(* Whatever raises in whichever rebuild, the stage, its environment and    *)
(* its policy are closed before anything else is built and before the run  *)
(* ends.                                                                   *)
THEOREM EverythingIsClosed == Spec => []ResourcesReleased
<1>1. OpenFits => ResourcesReleased
    BY DEF OpenFits, ResourcesReleased
<1> QED
    BY <1>1, OpenInit, OpenKeeps, PTL DEF Spec

-----------------------------------------------------------------------------
(* The fills collected are those to report, in order: of the builds so     *)
(* far, until a step of the run has raised; until then nothing has been    *)
(* written of it, and what is written then is what was collected.          *)
Unwritten ==
    \/ phase \in {"planning", "building", "making policy", "rolling out", "finishing"}
    \/ phase \in {"closing policy", "tearing down", "closing env"} /\ ~ error

FillsFit ==
    /\ fills \in Seq(FillRecords)
    /\ ToSet(fills) = {f \in poolFills : f.ended # "lost"}
    /\ \A i, j \in DOMAIN fills : i < j => Before(fills[i], fills[j])

BuildsSoFar ==
    /\ Unwritten => \A i \in DOMAIN fills : fills[i].ended = "built" /\ fills[i].rebuild <= rebuild
    /\ phase \in {"planning", "building"} => \A i \in DOMAIN fills : fills[i].rebuild < rebuild

DiagnosticsFit ==
    /\ FillsFit
    /\ BuildsSoFar
    /\ \A r \in Runs : r > run => diagnostics[r] = <<>>
    /\ Unwritten => diagnostics[run] = <<>>
    /\ phase \in {"planning", "building", "making policy", "rolling out", "finishing"} => ~ error
    /\ DiagnosticsTellOfTheRun

(* The timings are of the run's own work, and are there for the completed  *)
(* runs; the results are those of the runs so far.                         *)
ResultsFit ==
    /\ results \in Seq([run : Runs, status : {"completed", "failed"}])
    /\ \A i \in DOMAIN results : results[i].run = i
    /\ phase \in {"next", "returned"} => Len(results) = run
    /\ phase \in RunningPhases => Len(results) = run - 1
    /\ timings = [r \in Runs |-> IF r \in Completed THEN {r} ELSE None]
    /\ phase \in RunningPhases => timers \subseteq {run}
    /\ \/ phase \in {"finishing", "writing"}
       \/ phase \in {"closing policy", "tearing down", "closing env"} /\ ~ error
       => run \in timers
    /\ phase = "raised" /\ continueOnError => ~ writable

IInv == TypeOK /\ DiagnosticsFit /\ ResultsFit

LEMMA NoFills == ASSUME fills = <<>>, poolFills = {} PROVE FillsFit /\ DOMAIN fills = {}
<1>1. fills \in Seq(FillRecords) /\ Len(fills) = 0
    BY EmptySeq
<1>2. DOMAIN fills = {}
    BY <1>1, LenProperties
<1> QED BY <1>1, <1>2 DEF FillsFit, ToSet

(* A fill after all others is collected. *)
LEMMA FillCollected ==
    ASSUME FillsFit, NEW fill \in FillRecords, fill.ended # "lost",
           \A i \in DOMAIN fills : Before(fills[i], fill),
           fills' = Append(fills, fill), poolFills' = poolFills \cup {fill}
    PROVE  /\ FillsFit'
           /\ \A i \in DOMAIN fills' : fills'[i] = fill \/ \E j \in DOMAIN fills : fills'[i] = fills[j]
<1>1. fills \in Seq(FillRecords) /\ Len(fills) \in Nat /\ DOMAIN fills = 1 .. Len(fills)
    BY LenProperties DEF FillsFit
<1>2. /\ fills' \in Seq(FillRecords) /\ Len(fills') = Len(fills) + 1
      /\ \A i \in 1 .. Len(fills) : fills'[i] = fills[i]
      /\ fills'[Len(fills) + 1] = fill
    BY <1>1, AppendProperties
<1>3. DOMAIN fills' = 1 .. Len(fills) + 1
    BY <1>2, LenProperties
<1>4. \A i \in DOMAIN fills' :
          \/ i \in DOMAIN fills /\ fills'[i] = fills[i]
          \/ i = Len(fills) + 1 /\ fills'[i] = fill
    BY <1>1, <1>2, <1>3
<1>5. ToSet(fills') = ToSet(fills) \cup {fill}
    <2>1. \A i \in DOMAIN fills : i \in DOMAIN fills' /\ fills'[i] = fills[i]
        BY <1>1, <1>2, <1>3
    <2>2. Len(fills) + 1 \in DOMAIN fills'
        BY <1>1, <1>3
    <2> QED BY <1>2, <1>4, <2>1, <2>2 DEF ToSet
<1>6. ASSUME NEW i \in DOMAIN fills', NEW j \in DOMAIN fills', i < j PROVE Before(fills'[i], fills'[j])
    <2>1. i \in DOMAIN fills /\ fills'[i] = fills[i]
        BY <1>1, <1>3, <1>4, <1>6
    <2>2. CASE j \in DOMAIN fills /\ fills'[j] = fills[j]
        BY <1>6, <2>1, <2>2 DEF FillsFit
    <2>3. CASE fills'[j] = fill
        BY <2>1, <2>3
    <2> QED BY <1>4, <2>2, <2>3
<1>7. FillsFit'
    BY <1>2, <1>5, <1>6 DEF FillsFit
<1> QED BY <1>4, <1>7

LEMMA IInvInit == Init => IInv
<1> SUFFICES ASSUME Init PROVE IInv
    OBVIOUS
<1>1. DiagnosticsFit
    BY NoFills DEF Init, DiagnosticsFit, BuildsSoFar, Unwritten, DiagnosticsTellOfTheRun
<1>2. results \in Seq([run : Runs, status : {"completed", "failed"}]) /\ Len(results) = 0
    BY EmptySeq DEF Init
<1>3. DOMAIN results = {}
    BY <1>2, LenProperties
<1>4. Completed = {}
    BY <1>3 DEF Completed
<1>5. ResultsFit
    BY <1>2, <1>3, <1>4 DEF Init, ResultsFit, RunningPhases
<1> QED
    BY <1>1, <1>5, TypeInit DEF IInv

LEMMA LaterRuns == \A r, s \in Runs : r > s => r # s
BY DEF Runs

(* How the steps move from phase to phase within a run. *)
LEMMA NextRunKeeps == ASSUME IInv, NextRun PROVE IInv'
<1>1. /\ phase = "next" /\ phase' = "planning" /\ run' = run + 1 /\ run < NumRuns
      /\ timers' = {} /\ fills' = <<>> /\ poolFills' = {} /\ rebuild' = 1 /\ error' = FALSE
      /\ UNCHANGED <<cfgs, continueOnError, writable, rollouts, results, timings, diagnostics>>
    BY DEF NextRun, TimersOfNewRun, outputVars
<1>2. run \in 0 .. NumRuns /\ NumRuns \in Nat
    BY ExperimentAssumption DEF IInv, TypeOK
<1>3. run' \in Runs /\ run' \in 0 .. NumRuns /\ run' > run /\ run = run' - 1
    BY <1>1, <1>2 DEF Runs
<1>4. TypeOK'
    BY <1>1, <1>3 DEF IInv, TypeOK, RunningPhases
<1>5. \A r \in Runs : r > run' => r > run
    BY <1>1, <1>2 DEF Runs
<1>a. FillsFit' /\ DOMAIN fills' = {}
    BY <1>1, EmptySeq, LenProperties DEF FillsFit, ToSet
<1>6. DiagnosticsFit'
    BY <1>1, <1>3, <1>5, <1>a
    DEF IInv, DiagnosticsFit, BuildsSoFar, Unwritten, DiagnosticsTellOfTheRun
<1>7. Len(results)' = run' - 1 /\ Completed' = Completed
    BY <1>1, <1>3 DEF IInv, ResultsFit, Completed
<1>8. ResultsFit'
    BY <1>1, <1>7 DEF IInv, ResultsFit, RunningPhases
<1> QED
    BY <1>4, <1>6, <1>8 DEF IInv

(* A step in a run that raises. *)
LEMMA FailKeeps ==
    ASSUME IInv, NEW reported, Fail(reported), FillsFit',
           phase \in {"building", "making policy", "rolling out"},
           timers' \in {timers, timers \cup {run}},
           UNCHANGED <<continueOnError, writable, run, rebuild>>
    PROVE  IInv'
<1>1. /\ error' = TRUE /\ fills' = reported /\ phase' = "closing policy"
      /\ diagnostics' = DiagnosticsWith(reported)
      /\ UNCHANGED <<results, timings>>
    BY DEF Fail
<1>2. run \in Runs /\ reported \in Seq(FillRecords)
    BY <1>1 DEF IInv, TypeOK, RunningPhases, FillsFit
<1>3. diagnostics' \in [Runs -> Seq(FillRecords)]
    BY <1>1, <1>2 DEF IInv, TypeOK, DiagnosticsWith
<1>4. TypeOK'
    BY <1>1, <1>2, <1>3 DEF IInv, TypeOK, RunningPhases
<1>5. diagnostics[run] = <<>>
    BY DEF IInv, DiagnosticsFit, Unwritten
<1>6. writable => diagnostics'[run] = fills'
    BY <1>1, <1>2, <1>5 DEF IInv, TypeOK, DiagnosticsWith
<1>7. \A r \in Runs : r > run => diagnostics'[r] = <<>>
    <2>1. \A r \in Runs : r > run => r # run
        BY <1>2, LaterRuns
    <2>2. \A r \in Runs : r # run => diagnostics'[r] = diagnostics[r]
        BY <1>1, <1>2 DEF IInv, TypeOK, DiagnosticsWith
    <2> QED
        BY <2>1, <2>2 DEF IInv, DiagnosticsFit
<1>8. DiagnosticsFit'
    <2>1. DiagnosticsTellOfTheRun'
        BY <1>6 DEF DiagnosticsTellOfTheRun, FileTellsOfTheFills, FillsFit
    <2>2. BuildsSoFar' /\ ~ Unwritten'
        BY <1>1 DEF BuildsSoFar, Unwritten
    <2> QED BY <2>1, <2>2, <1>1, <1>7 DEF DiagnosticsFit
<1>9. Completed' = Completed /\ Len(results) = run - 1 /\ timers \subseteq {run}
    BY <1>1 DEF IInv, ResultsFit, Completed, RunningPhases
<1>10. ResultsFit'
    BY <1>1, <1>9 DEF IInv, ResultsFit, RunningPhases
<1> QED
    BY <1>4, <1>8, <1>10 DEF IInv

(* The order of the rebuilds. *)
LEMMA UpTo == \A i, j \in Nat : i < j => i <= j
OBVIOUS

LEMMA UpToOrEqual == \A i, j \in Nat : i <= j => i < j \/ i = j
OBVIOUS

LEMMA UpToLater == \A i, j, k \in Nat : i <= j /\ j <= k => i <= k
OBVIOUS

(* A step that raises without a failed fill, and the failed fill itself.   *)
LEMMA FillsKept ==
    ASSUME IInv, fills' = fills, poolFills' \in {poolFills, poolFills \cup {Fill("lost")}}
    PROVE  FillsFit'
<1>1. Fill("lost").ended = "lost"
    BY DEF Fill
<1>2. {f \in poolFills' : f.ended # "lost"} = {f \in poolFills : f.ended # "lost"}
    BY <1>1
<1> QED
    BY <1>2 DEF IInv, DiagnosticsFit, FillsFit

LEMMA FailedFillCollected ==
    ASSUME IInv, phase \in {"building", "rolling out"}, FailOfFill PROVE FillsFit'
<1>1. Fill("failed") \in FillRecords /\ Fill("failed").ended # "lost"
    BY DEF Fill, FillRecords, IInv, TypeOK
<1>2. \A i \in DOMAIN fills : Before(fills[i], Fill("failed"))
    <2>1. SUFFICES ASSUME NEW i \in DOMAIN fills PROVE Before(fills[i], Fill("failed"))
        OBVIOUS
    <2>2. fills[i].ended = "built" /\ fills[i].rebuild <= rebuild
        BY DEF IInv, DiagnosticsFit, BuildsSoFar, Unwritten
    <2>3. fills[i].rebuild \in Nat /\ rebuild \in Nat
        <3>1. fills[i] \in FillRecords
            BY ElementOfSeq, LenProperties DEF IInv, DiagnosticsFit, FillsFit
        <3> QED BY <3>1 DEF FillRecords, IInv, TypeOK
    <2>4. Fill("failed").rebuild = rebuild /\ Fill("failed").ended = "failed"
        BY DEF Fill
    <2> QED BY <2>2, <2>4, UpToOrEqual, <2>3 DEF Before
<1>3. fills' = Append(fills, Fill("failed")) /\ poolFills' = poolFills \cup {Fill("failed")}
    BY DEF FailOfFill, Fail, FillsOfFailure
<1> QED BY <1>1, <1>2, <1>3, FillCollected DEF IInv, DiagnosticsFit

(* What a build collects. *)
LEMMA BuildCollects == ASSUME IInv, Build PROVE FillsFit' /\ BuildsSoFar'
<1>1. /\ phase = "building" /\ phase' = "making policy" /\ rebuild' = rebuild /\ rebuild \in Nat
      /\ FillsFit /\ \A i \in DOMAIN fills : fills[i].ended = "built" /\ fills[i].rebuild < rebuild
    BY DEF Build, IInv, TypeOK, DiagnosticsFit, BuildsSoFar, Unwritten
<1>2. \A i \in DOMAIN fills : fills[i].rebuild \in Nat
    <2>1. \A i \in DOMAIN fills : fills[i] \in FillRecords
        BY <1>1, ElementOfSeq, LenProperties DEF FillsFit
    <2> QED BY <2>1 DEF FillRecords
<1>a. \A i \in DOMAIN fills : fills[i].rebuild <= rebuild
    <2>1. SUFFICES ASSUME NEW i \in DOMAIN fills PROVE fills[i].rebuild <= rebuild
        OBVIOUS
    <2>2. fills[i].rebuild \in Nat /\ rebuild \in Nat /\ fills[i].rebuild < rebuild
        BY <1>1, <1>2
    <2> QED BY <2>2, UpTo
<1>3. CASE UNCHANGED <<fills, poolFills>>
    <2>1. FillsFit'
        BY <1>1, <1>3 DEF FillsFit
    <2>2. \A i \in DOMAIN fills' : fills'[i].ended = "built" /\ fills'[i].rebuild <= rebuild'
        BY <1>1, <1>3, <1>a
    <2> QED BY <1>1, <2>1, <2>2 DEF BuildsSoFar
<1>4. CASE fills' = Append(fills, Fill("built")) /\ poolFills' = poolFills \cup {Fill("built")}
    <2>1. Fill("built") \in FillRecords /\ Fill("built").ended = "built" /\ Fill("built").rebuild = rebuild
        BY <1>1 DEF Fill, FillRecords
    <2>2. \A i \in DOMAIN fills : Before(fills[i], Fill("built"))
        BY <1>1, <2>1 DEF Before
    <2>3. /\ FillsFit'
          /\ \A i \in DOMAIN fills' :
                 fills'[i] = Fill("built") \/ \E j \in DOMAIN fills : fills'[i] = fills[j]
        BY <1>1, <1>4, <2>1, <2>2, FillCollected
    <2>4. \A i \in DOMAIN fills' : fills'[i].ended = "built" /\ fills'[i].rebuild <= rebuild'
        <3>1. SUFFICES ASSUME NEW i \in DOMAIN fills'
                       PROVE  fills'[i].ended = "built" /\ fills'[i].rebuild <= rebuild'
            OBVIOUS
        <3>2. CASE fills'[i] = Fill("built")
            <4>1. rebuild <= rebuild
                <5>1. rebuild \in Nat
                    BY <1>1
                <5> QED BY <5>1
            <4>2. fills'[i].ended = "built" /\ fills'[i].rebuild = rebuild
                BY <2>1, <3>2
            <4>3. rebuild' = rebuild
                BY <1>1
            <4> QED BY <4>1, <4>2, <4>3
        <3>3. CASE \E j \in DOMAIN fills : fills'[i] = fills[j]
            BY <1>1, <1>a, <3>3
        <3> QED BY <2>3, <3>2, <3>3
    <2> QED BY <1>1, <2>3, <2>4 DEF BuildsSoFar
<1> QED BY <1>3, <1>4 DEF Build

(* Steps of a run that write nothing. *)
LEMMA QuietKeeps ==
    ASSUME IInv,
           \/ Plan \/ Build \/ MakePolicy \/ Rollout \/ ClosePolicy \/ TearDown \/ CloseEnv
           \/ OutputBreaks \/ Return
    PROVE  IInv'
<1>a. ~ Build => UNCHANGED <<fills, poolFills>>
    BY DEF Plan, MakePolicy, Rollout, ClosePolicy, TearDown, CloseEnv, OutputBreaks, Return
<1>b. error' \in BOOLEAN
    BY DEF IInv, TypeOK, Plan, Build, MakePolicy, Rollout, ClosePolicy, TearDown, CloseEnv, OutputBreaks,
           Return
<1>c. timers' \in {timers, timers \cup {run}}
    BY DEF Plan, Build, MakePolicy, Rollout, ClosePolicy, TearDown, CloseEnv, OutputBreaks, Return
<1>d. writable' \in {writable, FALSE} /\ UNCHANGED <<run, continueOnError>>
    BY DEF Plan, Build, MakePolicy, Rollout, ClosePolicy, TearDown, CloseEnv, OutputBreaks, Return, loopVars
<1>e. UNCHANGED <<results, timings, diagnostics>>
    BY DEF Plan, Build, MakePolicy, Rollout, ClosePolicy, TearDown, CloseEnv, OutputBreaks, Return, outputVars
<1>f. rebuild' = IF phase = "closing env" /\ phase' = "building" THEN rebuild + 1 ELSE rebuild
    BY DEF Plan, Build, MakePolicy, Rollout, ClosePolicy, TearDown, CloseEnv, OutputBreaks, Return
<1>1. /\ UNCHANGED <<run, continueOnError, results, timings, diagnostics>>
      /\ writable' \in {writable, FALSE} /\ error' \in BOOLEAN
      /\ timers' \in {timers, timers \cup {run}}
      /\ rebuild' \in {rebuild, rebuild + 1}
    BY <1>b, <1>c, <1>d, <1>e, <1>f
<1>2. /\ phase \in RunningPhases <=> phase' \in RunningPhases
      /\ phase' \in RunningPhases \cup {"next", "returned", "raised"}
      /\ phase \notin RunningPhases /\ phase' # phase => phase = "next" /\ phase' = "returned"
    BY DEF IInv, TypeOK, Plan, Build, MakePolicy, Rollout, ClosePolicy, TearDown, CloseEnv, OutputBreaks,
           Return, RunningPhases, AfterClosePolicy, AfterTearDown, AfterCloseEnv
<1>3. TypeOK'
    <2>1. rebuild' \in Nat
        BY <1>1 DEF IInv, TypeOK
    <2> QED
        BY <1>1, <1>2, <2>1 DEF IInv, TypeOK
<1>4. /\ Unwritten' => Unwritten
      /\ phase' \in {"planning", "building", "making policy", "rolling out", "finishing"} => ~ error'
    <2>1. CASE Plan \/ Build \/ MakePolicy \/ Rollout
        <3>1. phase \in {"planning", "building", "making policy", "rolling out"} /\ error' = error
            BY <2>1 DEF Plan, Build, MakePolicy, Rollout
        <3>2. Unwritten /\ ~ error
            BY <3>1 DEF IInv, DiagnosticsFit, Unwritten
        <3> QED BY <3>1, <3>2
    <2>2. CASE ClosePolicy
        BY <2>2 DEF Unwritten, ClosePolicy, AfterClosePolicy
    <2>3. CASE CloseEnv
        BY <2>3 DEF Unwritten, CloseEnv, AfterCloseEnv
    <2>4. CASE OutputBreaks
        <3>1. phase' = phase /\ error' = error
            BY <2>4 DEF OutputBreaks
        <3>2. Unwritten' <=> Unwritten
            BY <3>1 DEF Unwritten
        <3> QED BY <3>1, <3>2 DEF IInv, DiagnosticsFit
    <2>5. CASE Return
        BY <2>5 DEF Return, Unwritten
    <2>6. CASE TearDown
        BY <2>6 DEF Unwritten, TearDown, AfterTearDown
    <2> QED
        BY <2>1, <2>2, <2>3, <2>4, <2>5, <2>6
<1>5. phase' = "writing" \/ (phase' = "closing policy" /\ error') =>
          /\ phase' = phase /\ error' = error /\ poolFills' = poolFills
    BY DEF IInv, TypeOK, DiagnosticsFit, Plan, Build, MakePolicy, Rollout, ClosePolicy, TearDown, CloseEnv,
           OutputBreaks, Return, AfterClosePolicy, AfterTearDown, AfterCloseEnv
<1>6. DiagnosticsTellOfTheRun'
    BY <1>1, <1>5 DEF IInv, TypeOK, DiagnosticsFit, DiagnosticsTellOfTheRun, FileTellsOfTheFills
<1>g. FillsFit' /\ BuildsSoFar'
    <2>1. CASE Build
        BY <2>1, BuildCollects
    <2>2. CASE ~ Build
        <3>1. FillsFit'
            BY <1>a, <2>2 DEF IInv, DiagnosticsFit, FillsFit
        <3>2. \A i \in DOMAIN fills : fills[i].rebuild \in Nat
            <4>1. \A i \in DOMAIN fills : fills[i] \in FillRecords
                BY ElementOfSeq, LenProperties DEF IInv, DiagnosticsFit, FillsFit
            <4> QED BY <4>1 DEF FillRecords
        <3>3. Unwritten' => Unwritten /\ \A i \in DOMAIN fills : fills[i].rebuild <= rebuild'
            <4>1. rebuild \in Nat /\ rebuild' \in Nat /\ rebuild <= rebuild'
                BY <1>1 DEF IInv, TypeOK
            <4>2. Unwritten => \A i \in DOMAIN fills : fills[i].rebuild <= rebuild
                BY DEF IInv, DiagnosticsFit, BuildsSoFar
            <4>3. SUFFICES ASSUME Unwritten', NEW i \in DOMAIN fills
                           PROVE  Unwritten /\ fills[i].rebuild <= rebuild'
                BY <1>4
            <4>4. fills[i].rebuild <= rebuild /\ fills[i].rebuild \in Nat
                BY <1>4, <3>2, <4>2, <4>3
            <4> QED BY <1>4, <4>1, <4>3, <4>4, UpToLater
        <3>4. phase' \in {"planning", "building"} =>
                  \/ phase \in {"planning", "building"} /\ rebuild' = rebuild
                  \/ Unwritten /\ rebuild' = rebuild + 1
            BY <2>2 DEF Plan, MakePolicy, Rollout, ClosePolicy, TearDown, CloseEnv, OutputBreaks,
                Return, AfterClosePolicy, AfterTearDown, AfterCloseEnv, Unwritten, IInv, TypeOK
        <3>5. phase' \in {"planning", "building"} => \A i \in DOMAIN fills : fills[i].rebuild < rebuild'
            <4>1. /\ rebuild \in Nat
                  /\ phase \in {"planning", "building"} => \A i \in DOMAIN fills : fills[i].rebuild < rebuild
                  /\ Unwritten => \A i \in DOMAIN fills : fills[i].rebuild <= rebuild
                BY DEF IInv, TypeOK, DiagnosticsFit, BuildsSoFar
            <4> QED BY <3>2, <3>4, <4>1
        <3> QED BY <1>a, <2>2, <3>1, <3>3, <3>5 DEF IInv, DiagnosticsFit, BuildsSoFar
    <2> QED BY <2>1, <2>2
<1>7. DiagnosticsFit'
    BY <1>1, <1>4, <1>6, <1>g DEF IInv, DiagnosticsFit
<1>8. \/ phase' \in {"finishing", "writing"}
      \/ phase' \in {"closing policy", "tearing down", "closing env"} /\ ~ error'
      => run \in timers'
    BY DEF IInv, TypeOK, ResultsFit, Plan, Build, MakePolicy, Rollout, ClosePolicy, TearDown, CloseEnv,
           OutputBreaks, Return, AfterClosePolicy, AfterTearDown, AfterCloseEnv
<1>9. Completed' = Completed
    BY <1>1 DEF Completed
<1>10. phase' = "raised" => phase = "raised"
    BY <1>2 DEF RunningPhases
<1>11. phase' \in {"next", "returned"} => phase \in {"next", "returned"}
    BY <1>2 DEF RunningPhases
<1>12. phase' \in RunningPhases => timers' \subseteq {run}
    BY <1>1, <1>2 DEF IInv, ResultsFit
<1>13. phase' = "raised" /\ continueOnError => ~ writable'
    BY <1>1, <1>10 DEF IInv, ResultsFit
<1>14. ResultsFit'
    BY <1>1, <1>2, <1>8, <1>9, <1>11, <1>12, <1>13 DEF IInv, ResultsFit
<1> QED
    BY <1>3, <1>7, <1>14 DEF IInv

(* All rebuilds are done. *)
LEMMA FinishRunKeeps == ASSUME IInv, FinishRun PROVE IInv'
<1>1. /\ phase = "finishing" /\ diagnostics' = DiagnosticsWith(fills)
      /\ phase' = IF fills # <<>> /\ ~ writable THEN "failed" ELSE "writing"
      /\ UNCHANGED <<continueOnError, writable, run, rebuild, fills, poolFills, timers, error,
                     results, timings>>
    BY DEF FinishRun, loopVars
<1>2. run \in Runs /\ fills \in Seq(FillRecords) /\ diagnostics[run] = <<>>
    BY <1>1 DEF IInv, TypeOK, DiagnosticsFit, FillsFit, Unwritten, RunningPhases
<1>3. /\ diagnostics' \in [Runs -> Seq(FillRecords)]
      /\ \A r \in Runs : r # run => diagnostics'[r] = diagnostics[r]
    BY <1>1, <1>2 DEF IInv, TypeOK, DiagnosticsWith
<1>4. TypeOK'
    BY <1>1, <1>3 DEF IInv, TypeOK, RunningPhases
<1>5. writable => diagnostics'[run] = fills
    BY <1>1, <1>2 DEF IInv, TypeOK, DiagnosticsWith
<1>6. \A r \in Runs : r > run => diagnostics'[r] = <<>>
    BY <1>2, <1>3, LaterRuns DEF IInv, DiagnosticsFit
<1>7. DiagnosticsFit'
    <2>1. FillsFit'
        BY <1>1 DEF IInv, DiagnosticsFit, FillsFit
    <2>2. DiagnosticsTellOfTheRun'
        BY <1>1, <1>5, <2>1 DEF DiagnosticsTellOfTheRun, FileTellsOfTheFills, FillsFit
    <2>3. BuildsSoFar' /\ ~ Unwritten'
        BY <1>1 DEF BuildsSoFar, Unwritten
    <2> QED BY <1>1, <1>6, <2>1, <2>2, <2>3 DEF DiagnosticsFit
<1>8. Completed' = Completed
    BY <1>1 DEF Completed
<1>9. ResultsFit'
    BY <1>1, <1>8 DEF IInv, ResultsFit, RunningPhases
<1> QED
    BY <1>4, <1>7, <1>9 DEF IInv

-----------------------------------------------------------------------------
(* A run's result is appended. *)
LEMMA ResultAppended ==
    ASSUME IInv, run \in Runs, NEW status \in {"completed", "failed"},
           Len(results) = run - 1, results' = Result(status)
    PROVE  /\ results' \in Seq([run : Runs, status : {"completed", "failed"}])
           /\ \A i \in DOMAIN results' : results'[i].run = i
           /\ Len(results') = run
           /\ Completed' = IF status = "completed" THEN Completed \cup {run} ELSE Completed
<1> DEFINE R == [run : Runs, status : {"completed", "failed"}]
           entry == [run |-> run, status |-> status]
<1>1. results \in Seq(R) /\ entry \in R /\ results' = Append(results, entry)
    BY DEF IInv, ResultsFit, Result
<1>2. run \in Nat /\ run - 1 \in Nat
    BY DEF Runs
<1> HIDE DEF R
<1>3. /\ results' \in Seq(R) /\ Len(results') = Len(results) + 1
      /\ \A i \in 1 .. Len(results) : results'[i] = results[i]
      /\ results'[Len(results) + 1] = entry
    BY <1>1, AppendProperties
<1>4. Len(results') = run
    BY <1>2, <1>3
<1>5. DOMAIN results' = 1 .. run /\ DOMAIN results = 1 .. run - 1
    BY <1>1, <1>3, <1>4, LenProperties
<1>6. 1 .. run = (1 .. run - 1) \cup {run} /\ run \notin 1 .. run - 1
    BY <1>2
<1>7. results'[run] = entry /\ \A i \in 1 .. run - 1 : results'[i] = results[i]
    BY <1>2, <1>3
<1>8. ASSUME NEW i \in DOMAIN results' PROVE results'[i].run = i
    <2>1. CASE i = run
        BY <1>7, <2>1
    <2>2. CASE i # run
        <3>1. i \in DOMAIN results /\ results'[i] = results[i]
            BY <1>5, <1>6, <1>7, <1>8, <2>2
        <3> QED
            BY <3>1 DEF IInv, ResultsFit
    <2> QED BY <2>1, <2>2
<1>9. Completed' = IF status = "completed" THEN Completed \cup {run} ELSE Completed
    BY <1>5, <1>6, <1>7 DEF Completed
<1> QED
    BY <1>3, <1>4, <1>8, <1>9 DEF R

LEMMA ReportKeeps == ASSUME IInv, WriteRunOutputs \/ RunFailed PROVE IInv'
<1>1. /\ phase \in {"writing", "failed"} /\ phase' \in {"next", "raised"}
      /\ UNCHANGED <<continueOnError, writable, run, rebuild, fills, poolFills, diagnostics>>
    BY DEF WriteRunOutputs, RunFailed, loopVars
<1>2. run \in Runs /\ Len(results) = run - 1
    BY <1>1 DEF IInv, TypeOK, ResultsFit, RunningPhases
<1>3. {error'} \subseteq BOOLEAN
    BY DEF IInv, TypeOK, WriteRunOutputs, RunFailed
<1>4. DiagnosticsFit'
    BY <1>1 DEF IInv, DiagnosticsFit, FillsFit, BuildsSoFar, Unwritten, DiagnosticsTellOfTheRun
<1>5. run \notin Completed
    <2>1. DOMAIN results = 1 .. run - 1
        BY <1>2, LenProperties DEF IInv, ResultsFit
    <2>2. run \notin 1 .. run - 1
        BY <1>2 DEF Runs
    <2> QED
        BY <2>1, <2>2 DEF Completed, IInv, ResultsFit
<1>6. CASE WriteRunOutputs /\ writable
    <2>1. timings' = [timings EXCEPT ![run] = timers] /\ results' = Result("completed") /\ phase' = "next"
        BY <1>6 DEF WriteRunOutputs
    <2>2. timers = {run}
        BY <1>6 DEF WriteRunOutputs, IInv, ResultsFit, RunningPhases
    <2>3. timings' = [r \in Runs |-> IF r \in Completed' THEN {r} ELSE None]
        <3>1. Completed' = Completed \cup {run}
            BY <1>2, <2>1, ResultAppended
        <3> QED
            BY <2>1, <2>2, <3>1 DEF IInv, ResultsFit
    <2>4. timings' \in [Runs -> (SUBSET Runs) \cup {None}]
        BY <1>2, <2>1, <2>2 DEF IInv, TypeOK
    <2>5. TypeOK'
        BY <1>1, <1>3, <2>4 DEF IInv, TypeOK, RunningPhases
    <2>6. ResultsFit'
        BY <1>1, <1>2, <2>1, <2>3, ResultAppended DEF ResultsFit, RunningPhases
    <2> QED
        BY <1>4, <2>5, <2>6 DEF IInv
<1>7. CASE WriteRunOutputs /\ ~ writable
    <2>1. phase' = "raised" /\ UNCHANGED <<results, timings>>
        BY <1>7 DEF WriteRunOutputs
    <2>2. TypeOK'
        BY <1>1, <1>3, <2>1 DEF IInv, TypeOK, RunningPhases
    <2>3. Completed' = Completed
        BY <2>1 DEF Completed
    <2>4. ResultsFit'
        BY <1>1, <1>7, <2>1, <2>3 DEF IInv, ResultsFit, RunningPhases
    <2> QED
        BY <1>4, <2>2, <2>4 DEF IInv
<1>8. CASE RunFailed
    <2>1. results' = Result("failed") /\ timings' = timings
          /\ phase' = IF continueOnError THEN "next" ELSE "raised"
        BY <1>8 DEF RunFailed, ResultsAfterFailure
    <2>2. TypeOK'
        BY <1>1, <1>3, <2>1 DEF IInv, TypeOK, RunningPhases
    <2>3. Completed' = Completed
        BY <1>2, <2>1, ResultAppended
    <2>4. ResultsFit'
        BY <1>1, <1>2, <2>1, <2>3, ResultAppended DEF IInv, ResultsFit, RunningPhases
    <2> QED
        BY <1>4, <2>2, <2>4 DEF IInv
<1> QED
    BY <1>6, <1>7, <1>8

LEMMA NextKeeps == ASSUME IInv, [Next]_vars PROVE IInv'
<1>1. CASE NextRun
    BY <1>1, NextRunKeeps
<1>2. CASE \/ Plan \/ Build \/ MakePolicy \/ Rollout \/ ClosePolicy \/ TearDown \/ CloseEnv
           \/ OutputBreaks \/ Return
    BY <1>2, QuietKeeps
<1>3. CASE BuildRaises \/ MakePolicyRaises \/ RolloutRaises
    <2>1. /\ phase \in {"building", "making policy", "rolling out"}
          /\ timers' \in {timers, timers \cup {run}}
          /\ UNCHANGED <<continueOnError, writable, run, rebuild>>
        BY <1>3 DEF BuildRaises, MakePolicyRaises, RolloutRaises, loopVars
    <2>2. CASE FailOfFill /\ phase \in {"building", "rolling out"}
        BY <2>1, <2>2, FailedFillCollected, FailKeeps DEF FailOfFill
    <2>3. CASE Fail(fills) /\ poolFills' \in {poolFills, poolFills \cup {Fill("lost")}}
        <3>1. fills' = fills
            BY <2>3 DEF Fail
        <3> QED BY <2>1, <2>3, <3>1, FillsKept, FailKeeps
    <2> QED
        BY <1>3, <2>2, <2>3 DEF BuildRaises, MakePolicyRaises, RolloutRaises
<1>5. CASE FinishRun
    BY <1>5, FinishRunKeeps
<1>6. CASE WriteRunOutputs \/ RunFailed
    BY <1>6, ReportKeeps
<1>7. CASE UNCHANGED vars
    BY <1>7 DEF vars, loopVars, outputVars, IInv, TypeOK, DiagnosticsFit, FillsFit, BuildsSoFar,
                Unwritten, FileTellsOfTheFills, DiagnosticsTellOfTheRun, ResultsFit, Completed
<1> QED
    BY <1>1, <1>2, <1>3, <1>5, <1>6, <1>7 DEF Next

LEMMA InvariantHolds == Spec => []IInv
BY IInvInit, NextKeeps, PTL DEF Spec

(* Once a step of a rebuild has raised, and when all rebuilds are done,    *)
(* the diagnostics have one entry, in order, for each environment that was *)
(* built with a placement pool, and the fill that failed after them,       *)
(* unless they cannot be written.                                          *)
THEOREM FillsAreReported == Spec => []DiagnosticsTellOfTheRun
<1>1. IInv => DiagnosticsTellOfTheRun
    BY DEF IInv, DiagnosticsFit
<1> QED
    BY <1>1, InvariantHolds, PTL

(* The results are those of the configured runs, in order, each completed  *)
(* run with the timings of its own work, however runs fail; and with       *)
(* continue_on_error only an output that cannot be written ends the        *)
(* experiment.                                                             *)
THEOREM EveryRunIsReported == Spec => []ResultsMatchTheRuns
<1>1. IInv => ResultsMatchTheRuns
    BY DEF IInv, ResultsFit, ResultsMatchTheRuns
<1> QED
    BY <1>1, InvariantHolds, PTL

-----------------------------------------------------------------------------
(* Totals.  A sequence of running sums determines the total: the recursive *)
(* definition of Total has no other solution.                              *)
SumsOf(seq, sums) == [i \in 0 .. Len(seq) |-> IF i = 0 THEN 0 ELSE sums[i - 1] + seq[i]]

Less == {r \in Nat \X Nat : r[1] < r[2]}

LEMMA LeastExists ==
    ASSUME NEW S \in SUBSET Nat, S # {}
    PROVE  \E x \in S : \A y \in S : x <= y
<1>1. Less = OpToRel(<, Nat)
    BY DEF Less, OpToRel
<1>2. IsWellFoundedOn(Less, Nat)
    BY <1>1, NatLessThanWellFounded
<1>3. PICK x \in S : \A y \in S : ~ (<<y, x>> \in Less)
    BY <1>2, WFMin
<1>4. ASSUME NEW y \in S PROVE x <= y
    <2>1. x \in Nat /\ y \in Nat
        OBVIOUS
    <2>2. y < x => <<y, x>> \in Less
        BY <2>1 DEF Less
    <2> QED BY <1>3, <2>1, <2>2
<1> QED BY <1>4

LEMMA SumsAreUnique ==
    ASSUME NEW seq, Len(seq) \in Nat,
           NEW first, NEW second, first = SumsOf(seq, first), second = SumsOf(seq, second)
    PROVE  first[Len(seq)] = second[Len(seq)]
<1> DEFINE Differ == {i \in 0 .. Len(seq) : first[i] # second[i]}
<1>1. \A i \in 0 .. Len(seq) : first[i] = IF i = 0 THEN 0 ELSE first[i - 1] + seq[i]
    BY DEF SumsOf
<1>2. \A i \in 0 .. Len(seq) : second[i] = IF i = 0 THEN 0 ELSE second[i - 1] + seq[i]
    BY DEF SumsOf
<1>3. Differ = {}
    <2> SUFFICES ASSUME Differ # {} PROVE FALSE
        OBVIOUS
    <2>1. Differ \in SUBSET Nat
        OBVIOUS
    <2>2. PICK least \in Differ : \A i \in Differ : least <= i
        <3> HIDE DEF Differ
        <3> QED BY <2>1, LeastExists
    <2>3. least \in 0 .. Len(seq) /\ first[least] # second[least] /\ least \in Nat
        OBVIOUS
    <2>4. least # 0
        BY <1>1, <1>2, <2>3
    <2>5. PICK before : before = least - 1
        OBVIOUS
    <2>6. before \in 0 .. Len(seq) /\ ~ (least <= before)
        BY <2>3, <2>4, <2>5
    <2>7. first[before] = second[before]
        BY <2>2, <2>6
    <2>8. first[least] = first[before] + seq[least] /\ second[least] = second[before] + seq[least]
        BY <1>1, <1>2, <2>3, <2>4, <2>5
    <2> QED BY <2>3, <2>7, <2>8
<1> QED BY <1>3

LEMMA TotalIs ==
    ASSUME NEW seq, Len(seq) \in Nat, NEW sums, sums = SumsOf(seq, sums)
    PROVE  Total(seq) = sums[Len(seq)]
<1> DEFINE chosen == CHOOSE f : f = SumsOf(seq, f)
<1>1. chosen = SumsOf(seq, chosen)
    OBVIOUS
<1>2. Total(seq) = chosen[Len(seq)]
    BY DEF Total, SumsOf
<1> HIDE DEF chosen
<1> QED BY <1>1, <1>2, SumsAreUnique

(* The shares of a split add up to the episodes, and none is empty when    *)
(* there are enough of them.                                               *)
LEMMA SplitFacts ==
    ASSUME NEW episodes \in Nat, NEW rebuilds \in Nat \ {0}
    PROVE  /\ Total(Split(episodes, rebuilds)) = episodes
           /\ episodes >= rebuilds => \A i \in 1 .. rebuilds : Split(episodes, rebuilds)[i] > 0
<1>1. PICK share : share = episodes \div rebuilds
    OBVIOUS
<1>2. PICK rest : rest = episodes % rebuilds
    OBVIOUS
<1>3. share \in Nat /\ rest \in 0 .. rebuilds - 1 /\ episodes = share * rebuilds + rest
    BY <1>1, <1>2
<1>4. PICK split : split = Split(episodes, rebuilds)
    OBVIOUS
<1>5. split = [i \in 1 .. rebuilds |-> share + (IF i <= rest THEN 1 ELSE 0)]
    BY <1>1, <1>2, <1>4 DEF Split
<1>6. Len(split) = rebuilds /\ \A i \in 1 .. rebuilds : split[i] = share + (IF i <= rest THEN 1 ELSE 0)
    BY <1>5
<1>7. PICK sums : sums = [i \in 0 .. rebuilds |-> i * share + (IF i <= rest THEN i ELSE rest)]
    OBVIOUS
<1>8. ASSUME NEW i \in 0 .. rebuilds
      PROVE  sums[i] = IF i = 0 THEN 0 ELSE sums[i - 1] + split[i]
    <2>1. CASE i = 0
        <3>1. sums[0] = 0 * share + (IF 0 <= rest THEN 0 ELSE rest)
            BY <1>7
        <3>2. 0 * share = 0 /\ 0 <= rest
            BY <1>3
        <3> QED BY <2>1, <3>1, <3>2
    <2>2. CASE i # 0
        <3>1. PICK before : before = i - 1
            OBVIOUS
        <3>2. before \in 0 .. rebuilds /\ i \in 1 .. rebuilds /\ i = before + 1 /\ before \in Nat
            BY <2>2, <3>1
        <3>3. sums[before] = before * share + (IF before <= rest THEN before ELSE rest)
            BY <1>7, <3>2
        <3>4. sums[i] = i * share + (IF i <= rest THEN i ELSE rest)
            BY <1>7
        <3>5. i * share = before * share + share
            BY <1>3, <3>2
        <3>6. before * share \in Nat
            BY <1>3, <3>2
        <3>7. PICK passed : passed = before * share
            OBVIOUS
        <3>8. sums[i] = sums[before] + split[i]
            <4>1. split[i] = share + (IF i <= rest THEN 1 ELSE 0)
                BY <1>6, <3>2
            <4>2. sums[i] = passed + share + (IF i <= rest THEN i ELSE rest)
                BY <3>4, <3>5, <3>7
            <4>3. sums[before] = passed + (IF before <= rest THEN before ELSE rest)
                BY <3>3, <3>7
            <4>4. passed \in Nat
                BY <3>6, <3>7
            <4> QED BY <1>3, <3>2, <4>1, <4>2, <4>3, <4>4
        <3> QED BY <2>2, <3>1, <3>8
    <2> QED BY <2>1, <2>2
<1>9. sums = SumsOf(split, sums)
    <2>1. [i \in 0 .. rebuilds |-> IF i = 0 THEN 0 ELSE sums[i - 1] + split[i]] = sums
        <3>1. DOMAIN sums = 0 .. rebuilds /\ sums = [i \in 0 .. rebuilds |-> sums[i]]
            BY <1>7
        <3> QED BY <1>8, <3>1
    <2> QED BY <1>6, <2>1 DEF SumsOf
<1>10. sums[rebuilds] = episodes
    <2>1. sums[rebuilds] = rebuilds * share + (IF rebuilds <= rest THEN rebuilds ELSE rest)
        BY <1>7
    <2>2. ~ (rebuilds <= rest) /\ rebuilds * share = share * rebuilds
        BY <1>3
    <2> QED BY <1>3, <2>1, <2>2
<1>11. Total(split) = episodes
    BY <1>6, <1>9, <1>10, TotalIs
<1>12. episodes >= rebuilds => share > 0
    <2> SUFFICES ASSUME episodes >= rebuilds, share = 0 PROVE FALSE
        BY <1>3
    <2>1. share * rebuilds = 0
        OBVIOUS
    <2> QED BY <1>3, <2>1
<1> QED BY <1>3, <1>4, <1>6, <1>11, <1>12

LEMMA ConstantTotal ==
    ASSUME NEW n \in Nat, NEW k \in Nat
    PROVE  Total([i \in 1 .. n |-> k]) = n * k
<1>1. PICK seq : seq = [i \in 1 .. n |-> k]
    OBVIOUS
<1>2. Len(seq) = n /\ \A i \in 1 .. n : seq[i] = k
    BY <1>1
<1>3. PICK sums : sums = [i \in 0 .. n |-> i * k]
    OBVIOUS
<1>4. ASSUME NEW i \in 0 .. n
      PROVE  sums[i] = IF i = 0 THEN 0 ELSE sums[i - 1] + seq[i]
    <2>1. CASE i = 0
        <3>1. sums[0] = 0 * k /\ 0 * k = 0
            BY <1>3
        <3> QED BY <2>1, <3>1
    <2>2. CASE i # 0
        <3>1. PICK before : before = i - 1
            OBVIOUS
        <3>2. before \in 0 .. n /\ i \in 1 .. n /\ i = before + 1
            BY <2>2, <3>1
        <3>3. sums[before] = before * k /\ sums[i] = i * k
            BY <1>3, <3>2
        <3>4. i * k = before * k + k
            BY <3>2
        <3> QED BY <1>2, <2>2, <3>1, <3>2, <3>3, <3>4
    <2> QED BY <2>1, <2>2
<1>5. sums = SumsOf(seq, sums)
    <2>1. DOMAIN sums = 0 .. n /\ sums = [i \in 0 .. n |-> sums[i]]
        BY <1>3
    <2>2. [i \in 0 .. n |-> IF i = 0 THEN 0 ELSE sums[i - 1] + seq[i]] = sums
        BY <1>4, <2>1
    <2> QED BY <1>2, <2>2 DEF SumsOf
<1>6. sums[n] = n * k
    BY <1>3
<1> QED BY <1>1, <1>2, <1>5, <1>6, TotalIs

(* The budgets of a configuration: one for each rebuild; where episodes    *)
(* limit the run, none is empty and they add up to what was asked for.     *)
LEMMA PlanFacts ==
    ASSUME NEW c \in Configs
    PROVE  /\ c.seed = 0
           /\ c.rebuilds \in Nat \ {0}
           /\ EpisodesPerRebuild(c) = [i \in 1 .. c.rebuilds |-> EpisodesPerRebuild(c)[i]]
           /\ Len(EpisodesPerRebuild(c)) = c.rebuilds
           /\ HasEpisodeLimit(c) =>
                  /\ \A i \in 1 .. c.rebuilds : EpisodesPerRebuild(c)[i] > 0
                  /\ Total(EpisodesPerRebuild(c)) = EpisodesAskedFor(c)
<1>1. /\ c.seed = 0
      /\ c.rebuilds \in Nat \ {0}
      /\ c.episodes # None => c.episodes \in Nat \ {0} /\ c.episodes >= c.rebuilds
      /\ c.listed # None => /\ c.listed \in Seq(Nat \ {0}) /\ c.rebuilds = Len(c.listed)
                            /\ c.paths = None /\ c.replay = None
                            /\ c.episodes \in {None, Total(c.listed)}
      /\ c.paths # None => c.paths \in Seq(Nat \ {0}) /\ c.rebuilds = Len(c.paths) /\ c.replay = None
      /\ c.replay # None => c.replay \in Nat \ {0}
    <2>1. /\ c.seed = 0 /\ c.rebuilds \in 1 .. MaxRebuilds
          /\ c.episodes \in EpisodeLimits \cup {None} /\ c.listed \in EpisodeLists \cup {None}
          /\ c.paths \in ReplayLists \cup {None} /\ c.replay \in Replays \cup {None}
        BY DEF Configs
    <2>2. /\ c.paths # None => c.replay = None /\ c.rebuilds = Len(c.paths)
          /\ c.listed # None => /\ c.paths = None /\ c.replay = None
                                /\ c.rebuilds = Len(c.listed)
                                /\ c.episodes \in {None, Total(c.listed)}
          /\ c.episodes # None => c.episodes >= c.rebuilds
        BY DEF Configs
    <2>3. c.rebuilds \in Nat \ {0}
        BY <2>1, ExperimentAssumption
    <2>4. c.episodes # None => c.episodes \in Nat \ {0}
        BY <2>1, ExperimentAssumption
    <2>5. c.replay # None => c.replay \in Nat \ {0}
        BY <2>1, ExperimentAssumption
    <2>6. /\ c.listed # None => c.listed \in Seq(Nat \ {0})
          /\ c.paths # None => c.paths \in Seq(Nat \ {0})
        BY <2>1, ExperimentAssumption
    <2> QED BY <2>1, <2>2, <2>3, <2>4, <2>5, <2>6
<1> DEFINE budgets == EpisodesPerRebuild(c)
<1>2. CASE c.listed # None
    <2>1. budgets = c.listed
        BY <1>2 DEF EpisodesPerRebuild
    <2>2. \A i \in 1 .. c.rebuilds : c.listed[i] \in Nat \ {0}
        BY <1>1, <1>2, ElementOfSeq
    <2>3. c.listed = [i \in 1 .. c.rebuilds |-> c.listed[i]]
        BY <1>1, <1>2, LenProperties
    <2>4. Total(c.listed) = EpisodesAskedFor(c)
        BY <1>1, <1>2 DEF EpisodesAskedFor
    <2> HIDE DEF budgets
    <2>5. \A i \in 1 .. c.rebuilds : budgets[i] > 0
        BY <2>1, <2>2
    <2>6. Len(budgets) = c.rebuilds /\ budgets = [i \in 1 .. c.rebuilds |-> budgets[i]] /\ Total(budgets) = EpisodesAskedFor(c)
        BY <1>1, <1>2, <2>1, <2>3, <2>4
    <2> QED BY <1>1, <2>5, <2>6 DEF budgets
<1>3. CASE c.listed = None /\ c.episodes # None
    <2>1. budgets = Split(c.episodes, c.rebuilds)
        BY <1>3 DEF EpisodesPerRebuild
    <2>2. Len(budgets) = c.rebuilds /\ budgets = [i \in 1 .. c.rebuilds |-> budgets[i]]
        BY <1>1, <2>1 DEF Split
    <2> HIDE DEF budgets
    <2>3. Total(budgets) = c.episodes /\ \A i \in 1 .. c.rebuilds : budgets[i] > 0
        BY <1>1, <1>3, <2>1, SplitFacts
    <2>4. EpisodesAskedFor(c) = c.episodes
        BY <1>3 DEF EpisodesAskedFor
    <2> QED BY <1>1, <2>2, <2>3, <2>4 DEF budgets
<1>4. CASE c.listed = None /\ c.episodes = None /\ c.paths # None
    <2>1. budgets = c.paths
        BY <1>4 DEF EpisodesPerRebuild
    <2>2. \A i \in 1 .. c.rebuilds : c.paths[i] \in Nat \ {0}
        BY <1>1, <1>4, ElementOfSeq
    <2>3. c.paths = [i \in 1 .. c.rebuilds |-> c.paths[i]]
        BY <1>1, <1>4, LenProperties
    <2>4. Total(c.paths) = EpisodesAskedFor(c)
        BY <1>4 DEF EpisodesAskedFor
    <2> HIDE DEF budgets
    <2>5. \A i \in 1 .. c.rebuilds : budgets[i] > 0
        BY <2>1, <2>2
    <2>6. Len(budgets) = c.rebuilds /\ budgets = [i \in 1 .. c.rebuilds |-> budgets[i]] /\ Total(budgets) = EpisodesAskedFor(c)
        BY <1>1, <1>4, <2>1, <2>3, <2>4
    <2> QED BY <1>1, <2>5, <2>6 DEF budgets
<1>5. CASE c.listed = None /\ c.episodes = None /\ c.paths = None
    <2>1. budgets = [i \in 1 .. c.rebuilds |-> c.replay]
        BY <1>5 DEF EpisodesPerRebuild
    <2>2. Len(budgets) = c.rebuilds /\ budgets = [i \in 1 .. c.rebuilds |-> budgets[i]]
        BY <1>1, <2>1
    <2>3. ASSUME HasEpisodeLimit(c)
          PROVE  /\ \A i \in 1 .. c.rebuilds : budgets[i] > 0
                 /\ Total(budgets) = EpisodesAskedFor(c)
        <3>1. c.replay # None /\ c.replay \in Nat \ {0}
            BY <1>1, <1>5, <2>3 DEF HasEpisodeLimit
        <3>2. \A i \in 1 .. c.rebuilds : budgets[i] = c.replay
            BY <2>1
        <3>3. EpisodesAskedFor(c) = c.rebuilds * c.replay
            BY <1>5 DEF EpisodesAskedFor
        <3> HIDE DEF budgets
        <3>4. Total(budgets) = c.rebuilds * c.replay
            BY <1>1, <2>1, <3>1, ConstantTotal
        <3> QED BY <3>1, <3>2, <3>3, <3>4
    <2> HIDE DEF budgets
    <2> QED BY <1>1, <2>2, <2>3 DEF budgets
<1> QED BY <1>2, <1>3, <1>4, <1>5

-----------------------------------------------------------------------------
(* The rollouts of a run, so many rebuilds into it. *)
Planned(c, i) == [seed     |-> i - 1,
                  replay   |-> CfgForRebuild(c, i).replay,
                  episodes |-> EpisodesPerRebuild(c)[i]]

PlannedRollouts(c, n) == [i \in 1 .. n |-> Planned(c, i)]

Budgeted ==
    {"building", "making policy", "rolling out", "closing policy", "tearing down",
     "closing env", "finishing", "writing"}

PlanFits ==
    /\ phase = "planning" => rebuild = 1
    /\ phase \in Budgeted => /\ plan = EpisodesPerRebuild(cfgs[run])
                             /\ rebuild \in 1 .. cfgs[run].rebuilds

(* How many rebuilds of the run under way were rolled out. *)
RolledSoFar(n) == rollouts[run] = PlannedRollouts(cfgs[run], n)

RolloutsFit ==
    /\ \A r \in Runs : r > run => rollouts[r] = <<>>
    /\ phase = "planning" => RolledSoFar(0)
    /\ phase \in {"building", "making policy", "rolling out"} => RolledSoFar(rebuild - 1)
    /\ phase \in {"closing policy", "tearing down", "closing env"} /\ ~ error => RolledSoFar(rebuild)
    /\ phase \in {"finishing", "writing"} => RolledSoFar(cfgs[run].rebuilds)
    /\ \A r \in Completed : rollouts[r] = PlannedRollouts(cfgs[r], cfgs[r].rebuilds)

RolledInv ==
    /\ cfgs \in [Runs -> Configs]
    /\ DOMAIN rollouts = Runs
    /\ PlanFits
    /\ RolloutsFit

LEMMA NothingPlanned == ASSUME NEW c PROVE PlannedRollouts(c, 0) = <<>>
BY DEF PlannedRollouts

LEMMA PlannedNext ==
    ASSUME NEW c, NEW n \in Nat
    PROVE  Append(PlannedRollouts(c, n), Planned(c, n + 1)) = PlannedRollouts(c, n + 1)
<1> DEFINE R == {Planned(c, i) : i \in Nat}
<1>1. PICK next : next = n + 1
    OBVIOUS
<1>2. PICK s : s = PlannedRollouts(c, n)
    OBVIOUS
<1>3. PICK t : t = PlannedRollouts(c, next)
    OBVIOUS
<1>4. next \in Nat /\ \A i \in 1 .. next : i \in 1 .. n \/ i = next
    BY <1>1
<1>5. s = [i \in 1 .. n |-> Planned(c, i)] /\ t = [i \in 1 .. next |-> Planned(c, i)]
    BY <1>2, <1>3 DEF PlannedRollouts
<1>6. \A i \in Nat : Planned(c, i) \in R
    OBVIOUS
<1> HIDE DEF R
<1>7. s \in Seq(R) /\ t \in Seq(R) /\ Len(s) = n /\ Len(t) = next
    BY <1>4, <1>5, <1>6
<1>8. /\ Append(s, Planned(c, next)) \in Seq(R)
      /\ Len(Append(s, Planned(c, next))) = n + 1
      /\ \A i \in 1 .. n : Append(s, Planned(c, next))[i] = s[i]
      /\ Append(s, Planned(c, next))[n + 1] = Planned(c, next)
    BY <1>4, <1>6, <1>7, AppendProperties
<1>9. PICK u : u = Append(s, Planned(c, next))
    OBVIOUS
<1>10. u \in Seq(R) /\ Len(u) = next /\ \A i \in 1 .. next : u[i] = t[i]
    BY <1>1, <1>4, <1>5, <1>8, <1>9
<1>11. u = t
    BY <1>7, <1>10, SeqEqual
<1> QED BY <1>1, <1>2, <1>3, <1>9, <1>11

LEMMA RolledInit == Init => RolledInv
<1> SUFFICES ASSUME Init PROVE RolledInv
    OBVIOUS
<1>1. Completed = {}
    <2>1. DOMAIN results = {}
        BY DEF Init
    <2> QED BY <2>1 DEF Completed
<1> QED BY <1>1 DEF Init, RolledInv, PlanFits, RolloutsFit, Budgeted

(* While a run is executed, it is not among the completed ones. *)
LEMMA UnderWayNotCompleted ==
    ASSUME IInv, phase \in RunningPhases
    PROVE  run \in Runs /\ run \notin Completed /\ Completed \subseteq Runs
<1>1. run \in Runs /\ Len(results) = run - 1
    BY DEF IInv, TypeOK, ResultsFit
<1>2. DOMAIN results = 1 .. run - 1
    BY <1>1, LenProperties DEF IInv, ResultsFit
<1>3. \A r \in Completed : r \in 1 .. run - 1
    BY <1>2 DEF Completed, IInv, ResultsFit
<1>4. run \notin 1 .. run - 1 /\ \A r \in 1 .. run - 1 : r \in Runs
    BY <1>1, ExperimentAssumption DEF Runs
<1> QED BY <1>1, <1>3, <1>4

LEMMA RolledNextRun == ASSUME IInv, RolledInv, NextRun PROVE RolledInv'
<1>1. /\ phase = "next" /\ phase' = "planning" /\ run' = run + 1 /\ run < NumRuns /\ rebuild' = 1
      /\ UNCHANGED <<cfgs, rollouts, results>>
    BY DEF NextRun, outputVars
<1>2. run \in Nat /\ run' \in Runs /\ run' > run
    BY <1>1, ExperimentAssumption DEF IInv, TypeOK, Runs
<1>3. rollouts'[run'] = <<>>
    BY <1>1, <1>2 DEF RolledInv, RolloutsFit
<1>4. \A r \in Runs : r > run' => r > run
    BY <1>1, <1>2 DEF Runs
<1>5. Completed' = Completed
    BY <1>1 DEF Completed
<1>6. RolledSoFar(0)'
    BY <1>3, NothingPlanned DEF RolledSoFar
<1>7. RolloutsFit'
    BY <1>1, <1>4, <1>5, <1>6 DEF RolledInv, RolloutsFit
<1> QED BY <1>1, <1>7 DEF RolledInv, PlanFits, Budgeted

(* Steps of a run that neither roll out nor report. *)
LEMMA RolledQuiet ==
    ASSUME IInv, RolledInv,
           \/ Plan \/ Build \/ BuildRaises \/ MakePolicy \/ MakePolicyRaises \/ RolloutRaises
           \/ ClosePolicy \/ TearDown \/ FinishRun \/ OutputBreaks \/ Return
    PROVE  RolledInv'
<1>1. UNCHANGED <<run, rebuild, rollouts, results>>
    BY DEF Plan, Build, BuildRaises, MakePolicy, MakePolicyRaises, RolloutRaises, ClosePolicy, TearDown,
           FinishRun, OutputBreaks, Return, FailOfFill, Fail, loopVars, outputVars
<1>2. cfgs' = cfgs
    <2>1. CASE Build \/ BuildRaises
        <3>1. cfgs' = [cfgs EXCEPT ![run] = cfgs[run]]
            BY <2>1 DEF Build, BuildRaises, CfgAfterRebuild
        <3> QED BY <3>1 DEF RolledInv
    <2>2. CASE ~ (Build \/ BuildRaises)
        BY <2>2 DEF Plan, MakePolicy, MakePolicyRaises, RolloutRaises, ClosePolicy, TearDown,
                    FinishRun, OutputBreaks, Return, loopVars
    <2> QED BY <2>1, <2>2
<1>3. Completed' = Completed
    BY <1>1 DEF Completed
<1>5. CASE Plan
    <2>1. /\ phase = "planning"
          /\ \/ plan' = EpisodesPerRebuild(cfgs[run]) /\ phase' = "building"
             \/ phase' = "failed"
        BY <1>5 DEF Plan
    <2>2. cfgs[run].rebuilds \in Nat \ {0}
        <3>1. run \in Runs
            BY <2>1, UnderWayNotCompleted DEF RunningPhases
        <3>2. cfgs[run] \in Configs
            BY <3>1 DEF RolledInv
        <3> QED BY <3>2, PlanFacts
    <2>3. rebuild = 1 /\ RolledSoFar(0) /\ rebuild - 1 = 0 /\ 1 \in 1 .. cfgs[run].rebuilds
        BY <2>1, <2>2 DEF RolledInv, PlanFits, RolloutsFit
    <2>4. PlanFits'
        BY <1>1, <1>2, <2>1, <2>3 DEF PlanFits, Budgeted
    <2>5. phase' = "building" => RolledSoFar(rebuild - 1)'
        BY <1>1, <1>2, <2>3 DEF RolledSoFar
    <2>6. RolloutsFit'
        BY <1>1, <1>2, <1>3, <2>1, <2>5 DEF RolledInv, RolloutsFit
    <2> QED BY <1>1, <1>2, <2>4, <2>6 DEF RolledInv
<1>6. CASE ~ Plan
    <2>1. plan' = plan
        BY <1>6 DEF Build, BuildRaises, MakePolicy, MakePolicyRaises, RolloutRaises, ClosePolicy, TearDown,
                    FinishRun, OutputBreaks, Return, loopVars
    <2>2. /\ phase' \in Budgeted => phase \in Budgeted
          /\ phase' = "planning" => phase = "planning"
          /\ phase' \in {"building", "making policy", "rolling out"} =>
                 phase \in {"building", "making policy", "rolling out"}
          /\ phase' \in {"closing policy", "tearing down", "closing env"} /\ ~ error' =>
                 phase \in {"closing policy", "tearing down", "closing env"} /\ ~ error
          /\ phase' \in {"finishing", "writing"} => phase \in {"finishing", "writing"}
        <3>1. CASE Build \/ MakePolicy \/ FinishRun
            <4>1. \/ phase = "building" /\ phase' = "making policy"
                  \/ phase = "making policy" /\ phase' = "rolling out"
                  \/ phase = "finishing" /\ phase' \in {"failed", "writing"}
                BY <3>1 DEF Build, MakePolicy, FinishRun
            <4> QED BY <4>1 DEF Budgeted
        <3>2. CASE BuildRaises \/ MakePolicyRaises \/ RolloutRaises
            <4>1. /\ phase \in {"building", "making policy", "rolling out"}
                  /\ phase' = "closing policy" /\ error'
                BY <3>2 DEF BuildRaises, MakePolicyRaises, RolloutRaises, FailOfFill, Fail
            <4> QED BY <4>1 DEF Budgeted
        <3>3. CASE ClosePolicy \/ TearDown
            <4>1. /\ \/ phase = "closing policy" /\ phase' = "tearing down"
                     \/ phase = "tearing down" /\ phase' = "closing env"
                  /\ error => error'
                BY <3>3 DEF ClosePolicy, AfterClosePolicy, TearDown, AfterTearDown
            <4> QED BY <4>1 DEF Budgeted
        <3>4. CASE OutputBreaks \/ Return
            <4>1. (error => error') /\ phase' \in {phase, "returned"}
                BY <3>4 DEF OutputBreaks, Return
            <4> QED BY <4>1 DEF Budgeted
        <3> QED BY <1>6, <3>1, <3>2, <3>3, <3>4
    <2>3. PlanFits'
        BY <1>1, <1>2, <2>1, <2>2 DEF RolledInv, PlanFits
    <2>4. RolloutsFit'
        <3>1. phase' \in {"building", "making policy", "rolling out"} => RolledSoFar(rebuild - 1)'
            BY <1>1, <1>2, <2>2 DEF RolledInv, RolloutsFit, RolledSoFar
        <3>2. phase' \in {"closing policy", "tearing down", "closing env"} /\ ~ error' => RolledSoFar(rebuild)'
            BY <1>1, <1>2, <2>2 DEF RolledInv, RolloutsFit, RolledSoFar
        <3>3. phase' \in {"finishing", "writing"} => RolledSoFar(cfgs[run].rebuilds)'
            BY <1>1, <1>2, <2>2 DEF RolledInv, RolloutsFit, RolledSoFar
        <3>4. phase' = "planning" => RolledSoFar(0)'
            BY <1>1, <1>2, <2>2 DEF RolledInv, RolloutsFit, RolledSoFar
        <3> QED BY <1>1, <1>2, <1>3, <3>1, <3>2, <3>3, <3>4 DEF RolledInv, RolloutsFit
    <2> QED BY <1>1, <1>2, <2>3, <2>4 DEF RolledInv
<1> QED BY <1>5, <1>6

LEMMA RolledRollout == ASSUME IInv, RolledInv, Rollout PROVE RolledInv'
<1>1. /\ phase = "rolling out" /\ phase' = "closing policy"
      /\ rollouts' = [rollouts EXCEPT ![run] = Append(rollouts[run], Rolled)]
      /\ UNCHANGED <<cfgs, run, plan, rebuild, error, results>>
    BY DEF Rollout, loopVars
<1>2. run \in Runs /\ run \notin Completed /\ Completed \subseteq Runs
    BY <1>1, UnderWayNotCompleted DEF RunningPhases
<1>3. PICK c : c = cfgs[run]
    OBVIOUS
<1>4. PICK n : n = rebuild - 1
    OBVIOUS
<1>5. c \in Configs /\ n \in Nat /\ rebuild = n + 1
    <2>1. c \in Configs
        BY <1>2, <1>3 DEF RolledInv
    <2>2. c.rebuilds \in Nat \ {0} /\ rebuild \in 1 .. c.rebuilds
        BY <1>1, <1>3, <2>1, PlanFacts DEF RolledInv, PlanFits, Budgeted
    <2> QED BY <1>4, <2>1, <2>2
<1>6. Rolled = Planned(c, n + 1)
    <2>1. plan = EpisodesPerRebuild(c)
        BY <1>1, <1>3 DEF RolledInv, PlanFits, Budgeted
    <2>2. CfgForRebuild(c, rebuild).seed = rebuild - 1
        <3>1. c.seed = 0
            BY <1>5, PlanFacts
        <3>2. CfgForRebuild(c, rebuild).seed = 0 + rebuild - 1
            BY <1>5, <3>1 DEF CfgForRebuild, Configs
        <3> QED BY <1>5, <3>2
    <2> QED BY <1>3, <1>5, <2>1, <2>2 DEF Rolled, Planned
<1>7. rollouts[run] = PlannedRollouts(c, n)
    BY <1>1, <1>3, <1>4 DEF RolledInv, RolloutsFit, RolledSoFar
<1>8. rollouts'[run] = PlannedRollouts(c, n + 1)
    <2>1. rollouts'[run] = Append(rollouts[run], Rolled)
        BY <1>1, <1>2 DEF RolledInv
    <2> QED BY <1>5, <1>6, <1>7, <2>1, PlannedNext
<1>9. RolledSoFar(rebuild)'
    BY <1>1, <1>3, <1>5, <1>8 DEF RolledSoFar
<1>10. \A r \in Runs : r # run => rollouts'[r] = rollouts[r]
    BY <1>1 DEF RolledInv
<1>11. Completed' = Completed
    BY <1>1 DEF Completed
<1>12. \A r \in Runs : r > run' => rollouts'[r] = <<>>
    BY <1>1, <1>2, <1>10, LaterRuns DEF RolledInv, RolloutsFit
<1>13. \A r \in Completed' : rollouts'[r] = PlannedRollouts(cfgs'[r], cfgs'[r].rebuilds)
    BY <1>1, <1>2, <1>10, <1>11 DEF RolledInv, RolloutsFit
<1>14. RolloutsFit'
    BY <1>1, <1>9, <1>12, <1>13 DEF RolloutsFit
<1>15. PlanFits' /\ DOMAIN rollouts' = Runs
    BY <1>1 DEF RolledInv, PlanFits, Budgeted
<1> QED BY <1>1, <1>14, <1>15 DEF RolledInv

(* The last rebuild ends the loop, not an earlier one. *)
LEMMA RolledCloseEnv == ASSUME IInv, RolledInv, CloseEnv PROVE RolledInv'
<1>1. /\ phase = "closing env"
      /\ error' \in BOOLEAN /\ (error => error')
      /\ phase' = AfterCloseEnv(error')
      /\ rebuild' = IF phase' = "building" THEN rebuild + 1 ELSE rebuild
      /\ UNCHANGED <<cfgs, run, plan, rollouts, results>>
    BY DEF CloseEnv, loopVars, outputVars, IInv, TypeOK
<1>2. run \in Runs /\ cfgs[run] \in Configs
    BY <1>1, UnderWayNotCompleted DEF RunningPhases, RolledInv
<1>3. /\ rebuild \in 1 .. cfgs[run].rebuilds /\ cfgs[run].rebuilds \in Nat \ {0}
      /\ Len(plan) = cfgs[run].rebuilds /\ plan = EpisodesPerRebuild(cfgs[run])
    BY <1>1, <1>2, PlanFacts DEF RolledInv, PlanFits, Budgeted
<1>4. Completed' = Completed
    BY <1>1 DEF Completed
<1>6. CASE error'
    <2>1. phase' = "failed"
        BY <1>1, <1>6 DEF AfterCloseEnv
    <2> QED BY <1>1, <1>4, <2>1 DEF RolledInv, PlanFits, RolloutsFit, Budgeted
<1>7. CASE ~ error' /\ rebuild < Len(plan)
    <2>1. phase' = "building" /\ rebuild' = rebuild + 1
        BY <1>1, <1>7 DEF AfterCloseEnv
    <2>2. rebuild' - 1 = rebuild /\ rebuild' \in 1 .. cfgs[run].rebuilds
        BY <1>3, <1>7, <2>1
    <2>3. RolledSoFar(rebuild)
        BY <1>1, <1>7 DEF RolledInv, RolloutsFit
    <2>4. RolledSoFar(rebuild - 1)'
        BY <1>1, <2>2, <2>3 DEF RolledSoFar
    <2>5. PlanFits'
        BY <1>1, <1>3, <2>1, <2>2 DEF PlanFits, Budgeted
    <2>6. RolloutsFit'
        BY <1>1, <1>4, <2>1, <2>4 DEF RolledInv, RolloutsFit
    <2> QED BY <1>1, <2>5, <2>6 DEF RolledInv
<1>8. CASE ~ error' /\ ~ (rebuild < Len(plan))
    <2>1. phase' = "finishing" /\ rebuild' = rebuild
        BY <1>1, <1>8 DEF AfterCloseEnv
    <2>2. rebuild = cfgs[run].rebuilds
        BY <1>3, <1>8
    <2>3. RolledSoFar(rebuild)
        BY <1>1, <1>8 DEF RolledInv, RolloutsFit
    <2>4. RolledSoFar(cfgs[run].rebuilds)'
        BY <1>1, <2>2, <2>3 DEF RolledSoFar
    <2>5. PlanFits'
        BY <1>1, <1>3, <2>1 DEF PlanFits, Budgeted
    <2>6. RolloutsFit'
        BY <1>1, <1>4, <2>1, <2>4 DEF RolledInv, RolloutsFit
    <2> QED BY <1>1, <2>5, <2>6 DEF RolledInv
<1> QED BY <1>1, <1>6, <1>7, <1>8

LEMMA RolledReport == ASSUME IInv, RolledInv, WriteRunOutputs \/ RunFailed PROVE RolledInv'
<1>1. /\ phase \in {"writing", "failed"} /\ phase' \in {"next", "raised"}
      /\ UNCHANGED <<cfgs, run, rebuild, rollouts>>
    BY DEF WriteRunOutputs, RunFailed, loopVars
<1>2. run \in Runs /\ Len(results) = run - 1
    BY <1>1 DEF IInv, TypeOK, ResultsFit, RunningPhases
<1>3. ASSUME NEW r \in Completed'
      PROVE  rollouts[r] = PlannedRollouts(cfgs[r], cfgs[r].rebuilds)
    <2>1. CASE r \in Completed
        BY <2>1 DEF RolledInv, RolloutsFit
    <2>2. CASE r \notin Completed
        <3>1. r = run /\ phase = "writing"
            <4>1. CASE WriteRunOutputs
                <5>1. results' = results \/ results' = Result("completed")
                    BY <4>1 DEF WriteRunOutputs
                <5>2. results' = results => Completed' = Completed
                    BY DEF Completed
                <5>3. results' = Result("completed") => Completed' = Completed \cup {run}
                    BY <1>2, ResultAppended
                <5> QED BY <1>3, <2>2, <4>1, <5>1, <5>2, <5>3 DEF WriteRunOutputs
            <4>2. CASE RunFailed
                <5>1. results' = Result("failed")
                    BY <4>2 DEF RunFailed, ResultsAfterFailure
                <5>2. Completed' = Completed
                    BY <1>2, <5>1, ResultAppended
                <5> QED BY <1>3, <2>2, <5>2
            <4> QED BY <4>1, <4>2
        <3> QED BY <3>1 DEF RolledInv, RolloutsFit, RolledSoFar
    <2> QED BY <2>1, <2>2
<1>4. RolloutsFit'
    BY <1>1, <1>3 DEF RolledInv, RolloutsFit
<1> QED BY <1>1, <1>4 DEF RolledInv, PlanFits, Budgeted

LEMMA RolledKeeps == ASSUME IInv, RolledInv, [Next]_vars PROVE RolledInv'
<1>1. CASE UNCHANGED vars
    <2>1. UNCHANGED <<cfgs, run, plan, rebuild, error, phase, rollouts, results>>
        BY <1>1 DEF vars, loopVars, outputVars
    <2> QED BY <2>1 DEF RolledInv, PlanFits, RolloutsFit, RolledSoFar, Completed
<1>2. CASE Next
    BY <1>2, RolledNextRun, RolledQuiet, RolledRollout, RolledCloseEnv, RolledReport DEF Next
<1> QED BY <1>1, <1>2

(* A run that is reported as completed has rolled out each of its          *)
(* rebuilds, with its seed, its file to replay and its budget; and where   *)
(* episodes limit the run, no budget is empty and together they are the    *)
(* episodes it was configured for.                                         *)
THEOREM CompletedRunsAreWhole == Spec => []CompletedRanEverything
<1>1. IInv /\ RolledInv => CompletedRanEverything
    <2> SUFFICES ASSUME IInv, RolledInv, NEW r \in Completed
                 PROVE  /\ Len(rollouts[r]) = cfgs[r].rebuilds
                        /\ \A i \in DOMAIN rollouts[r] :
                               /\ rollouts[r][i].seed = i - 1
                               /\ rollouts[r][i].replay = CfgForRebuild(cfgs[r], i).replay
                        /\ HasEpisodeLimit(cfgs[r]) =>
                               /\ \A i \in DOMAIN rollouts[r] : rollouts[r][i].episodes > 0
                               /\ Total([i \in DOMAIN rollouts[r] |-> rollouts[r][i].episodes])
                                      = EpisodesAskedFor(cfgs[r])
        BY DEF CompletedRanEverything
    <2>1. PICK c : c = cfgs[r]
        OBVIOUS
    <2>2. r \in Runs
        <3>1. PICK i \in DOMAIN results : r = results[i].run
            BY DEF Completed
        <3>2. PICK R : R = [run : Runs, status : {"completed", "failed"}]
            OBVIOUS
        <3>3. results \in Seq(R) /\ i \in 1 .. Len(results)
            BY <3>1, <3>2, LenProperties DEF IInv, ResultsFit
        <3>4. results[i] \in R
            BY <3>3, ElementOfSeq
        <3> QED BY <3>1, <3>2, <3>4
    <2>3. c \in Configs
        BY <2>1, <2>2 DEF RolledInv
    <2>4. PICK rolled : rolled = rollouts[r]
        OBVIOUS
    <2>5. rolled = [i \in 1 .. c.rebuilds |-> Planned(c, i)]
        BY <2>1, <2>4 DEF RolledInv, RolloutsFit, PlannedRollouts
    <2>6. /\ c.rebuilds \in Nat
          /\ EpisodesPerRebuild(c) = [i \in 1 .. c.rebuilds |-> EpisodesPerRebuild(c)[i]]
          /\ HasEpisodeLimit(c) =>
                 /\ \A i \in 1 .. c.rebuilds : EpisodesPerRebuild(c)[i] > 0
                 /\ Total(EpisodesPerRebuild(c)) = EpisodesAskedFor(c)
        BY <2>3, PlanFacts
    <2>7. DOMAIN rolled = 1 .. c.rebuilds /\ Len(rolled) = c.rebuilds
        BY <2>5, <2>6
    <2>8. \A i \in 1 .. c.rebuilds : /\ rolled[i].seed = i - 1
                                     /\ rolled[i].replay = CfgForRebuild(c, i).replay
                                     /\ rolled[i].episodes = EpisodesPerRebuild(c)[i]
        BY <2>5 DEF Planned
    <2>9. [i \in DOMAIN rolled |-> rolled[i].episodes] = EpisodesPerRebuild(c)
        BY <2>6, <2>7, <2>8
    <2> QED BY <2>1, <2>4, <2>6, <2>7, <2>8, <2>9
<1>2. Spec => []RolledInv
    BY InvariantHolds, RolledInit, RolledKeeps, PTL DEF Spec
<1> QED BY <1>1, <1>2, InvariantHolds, PTL
==============================================================================
