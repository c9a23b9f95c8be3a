---------------------------- MODULE ExperimentRun ----------------------------
(***************************************************************************)
(* execute_experiment and build_and_run: the runs of an experiment are     *)
(* executed in order, each as several rebuilds that build an environment   *)
(* and a policy, roll the policy out and close both again.  Any of these   *)
(* steps may raise, and the output directory may stop being writable.      *)
(* A replay file stands for the number of episodes recorded in it.         *)
(* An operator named X_..._Mutant is X with a plausible mistake: no        *)
(* behaviour of the specification uses it.                                 *)
(***************************************************************************)
EXTENDS Integers, SequencesExt

CONSTANTS
    NumRuns,           \* len(experiment_cfg.runs)
    EpisodeLimits,     \* rollout_limit.num_episodes enumerated
    EpisodeLists,      \* rollout_limit.num_episodes_per_rebuild enumerated
    ReplayLists,       \* recorded_variation_samples_paths enumerated
    Replays,           \* recorded_variation_samples_path enumerated
    MaxRebuilds,       \* bound on num_rebuilds
    None               \* an option that is not set

ASSUME ExperimentAssumption ==
    /\ NumRuns \in Nat
    /\ EpisodeLimits \subseteq Nat \ {0}
    /\ EpisodeLists \cup ReplayLists \subseteq Seq(Nat \ {0}) \ {<<>>}
    /\ Replays \subseteq Nat \ {0}
    /\ MaxRebuilds \in Nat \ {0}
    /\ None \notin Nat

Runs == 1 .. NumRuns

(* sum() *)
Total(seq) ==
    LET sums[i \in 0 .. Len(seq)] == IF i = 0 THEN 0 ELSE sums[i - 1] + seq[i]
    IN  sums[Len(seq)]

(* What ArenaRunCfg.__post_init__ and RolloutLimitCfg.__post_init__ accept. *)
Configs ==
    {c \in [seed : {0}, rebuilds : 1 .. MaxRebuilds, episodes : EpisodeLimits \cup {None},
            listed : EpisodeLists \cup {None}, paths : ReplayLists \cup {None},
            replay : Replays \cup {None}] :
        /\ c.paths # None => c.replay = None /\ c.rebuilds = Len(c.paths)
        /\ c.listed # None => /\ c.paths = None /\ c.replay = None
                              /\ c.rebuilds = Len(c.listed)
                              /\ c.episodes \in {None, Total(c.listed)}
        /\ c.episodes # None => c.episodes >= c.rebuilds}

VARIABLES
    cfgs,              \* the runs' configurations
    continueOnError,   \* continue_on_error
    writable,          \* the output directory can be written to
    run,               \* the run being executed
    plan,              \* episodes_per_rebuild
    rebuild,           \* the rebuild being executed
    open,              \* which of stage, env and policy are not closed yet
    fills,             \* placement_diagnostics_per_rebuild
    poolFills,         \* fills of placement pools in the run, and how they went
    timers,            \* the runs whose work is in the timer registry
    error,             \* an exception is propagating
    phase,             \* the step that comes next
    rollouts,          \* what was rolled out in each run
    results,           \* results of execute_experiment
    timings,           \* the timings file of each run
    diagnostics        \* the placement diagnostics file of each run, <<>> for none

loopVars == <<cfgs, continueOnError, writable, run, plan>>
outputVars == <<rollouts, results, timings, diagnostics>>
vars == <<loopVars, rebuild, open, fills, poolFills, timers, error, phase, outputVars>>

-----------------------------------------------------------------------------
(* The remainder is dropped. *)
Split_Mutant(episodes, rebuilds) == [i \in 1 .. rebuilds |-> episodes \div rebuilds]

(* _split_episodes_across_rebuilds *)
Split(episodes, rebuilds) ==
    [i \in 1 .. rebuilds |->
        (episodes \div rebuilds) + (IF i <= episodes % rebuilds THEN 1 ELSE 0)]

(* One budget for each rebuild, None where steps limit the rollout. *)
EpisodesPerRebuild(c) ==
    IF c.listed # None THEN c.listed
    ELSE IF c.episodes # None THEN Split(c.episodes, c.rebuilds)
    ELSE IF c.paths # None THEN c.paths
    ELSE [i \in 1 .. c.rebuilds |-> c.replay]

(* _cfg_for_rebuild *)
CfgForRebuild(c, i) ==
    [c EXCEPT !.seed = @ + i - 1,
              !.replay = IF c.paths # None THEN c.paths[i] ELSE @,
              !.paths = None]

CfgAfterRebuild(c, i) == c

-----------------------------------------------------------------------------
Init ==
    /\ cfgs \in [Runs -> Configs]
    /\ continueOnError \in BOOLEAN
    /\ writable = TRUE
    /\ run = 0
    /\ plan = <<>>
    /\ rebuild = 0
    /\ open = {}
    /\ fills = <<>>
    /\ poolFills = {}
    /\ timers = {}
    /\ error = FALSE
    /\ phase = "next"
    /\ rollouts = [r \in Runs |-> <<>>]
    /\ results = <<>>
    /\ timings = [r \in Runs |-> None]
    /\ diagnostics = [r \in Runs |-> <<>>]

(* The disk fills up, or a file of the same name is in the way. *)
OutputBreaks ==
    /\ writable
    /\ writable' = FALSE
    /\ UNCHANGED <<cfgs, continueOnError, run, plan, rebuild, open, fills, poolFills,
                   timers, error, phase, outputVars>>

TimersOfNewRun == {}

(* build_and_run is called, with locals of its own. *)
NextRun ==
    /\ phase = "next"
    /\ run < NumRuns
    /\ run' = run + 1
    /\ timers' = TimersOfNewRun
    /\ plan' = <<>>
    /\ rebuild' = 1
    /\ fills' = <<>>
    /\ poolFills' = {}
    /\ error' = FALSE
    /\ phase' = "planning"
    /\ UNCHANGED <<cfgs, continueOnError, writable, open, outputVars>>

Return ==
    /\ phase = "next"
    /\ run = NumRuns
    /\ phase' = "returned"
    /\ UNCHANGED <<loopVars, rebuild, open, fills, poolFills, timers, error, outputVars>>

(* The budgets of the rebuilds; a replay file may be missing or empty. *)
Plan ==
    /\ phase = "planning"
    /\ \/ /\ plan' = EpisodesPerRebuild(cfgs[run])
          /\ phase' = "building"
       \/ /\ phase' = "failed"
          /\ UNCHANGED plan
    /\ UNCHANGED <<cfgs, continueOnError, writable, run, rebuild, open, fills, poolFills,
                   timers, error, outputVars>>

-----------------------------------------------------------------------------
DiagnosticsWith(reported) ==
    IF reported # <<>> /\ writable THEN [diagnostics EXCEPT ![run] = reported] ELSE diagnostics

(* The except clause: the diagnostics collected so far are written. *)
Fail(reported) ==
    /\ error' = TRUE
    /\ fills' = reported
    /\ diagnostics' = DiagnosticsWith(reported)
    /\ phase' = "closing policy"
    /\ UNCHANGED <<rollouts, results, timings>>

(* A fill of the rebuild's placement pool: the environment was "built"     *)
(* with it, the fill "failed", or it was "lost" with a build that raised   *)
(* later.                                                                  *)
Fill(ended) == [rebuild |-> rebuild, ended |-> ended]

(* The environment is built, with a live placement pool or without.        *)
Build ==
    /\ phase = "building"
    /\ cfgs' = [cfgs EXCEPT ![run] = CfgAfterRebuild(@, rebuild)]
    /\ open' = open \cup {"stage", "env"}
    /\ \/ /\ fills' = Append(fills, Fill("built"))
          /\ poolFills' = poolFills \cup {Fill("built")}
       \/ UNCHANGED <<fills, poolFills>>
    /\ phase' = "making policy"
    /\ UNCHANGED <<continueOnError, writable, run, plan, rebuild, timers, error, outputVars>>

(* The fill that failed is not among the diagnostics. *)
FillsOfFailure_Mutant == fills

FillsOfFailure == Append(fills, Fill("failed"))

(* A PlacementPoolFillError: its diagnostics are taken from it.            *)
FailOfFill ==
    /\ Fail(FillsOfFailure)
    /\ poolFills' = poolFills \cup {Fill("failed")}

(* The build raises: it cannot fill its placement pool, or another step of *)
(* it fails, before the pool was filled or after: then no environment is   *)
(* there to read the diagnostics of the fill from.                         *)
BuildRaises ==
    /\ phase = "building"
    /\ cfgs' = [cfgs EXCEPT ![run] = CfgAfterRebuild(@, rebuild)]
    /\ \/ FailOfFill
       \/ Fail(fills) /\ poolFills' \in {poolFills, poolFills \cup {Fill("lost")}}
    /\ UNCHANGED <<continueOnError, writable, run, plan, rebuild, open, timers>>

MakePolicy ==
    /\ phase = "making policy"
    /\ open' = open \cup {"policy"}
    /\ phase' = "rolling out"
    /\ UNCHANGED <<loopVars, rebuild, fills, poolFills, timers, error, outputVars>>

MakePolicyRaises ==
    /\ phase = "making policy"
    /\ Fail(fills)
    /\ UNCHANGED <<loopVars, rebuild, open, poolFills, timers>>

(* What the rebuild runs: its seed, its replay file and its budget. *)
Rolled == [seed     |-> CfgForRebuild(cfgs[run], rebuild).seed,
           replay   |-> CfgForRebuild(cfgs[run], rebuild).replay,
           episodes |-> plan[rebuild]]

Rollout ==
    /\ phase = "rolling out"
    /\ rollouts' = [rollouts EXCEPT ![run] = Append(@, Rolled)]
    /\ timers' = timers \cup {run}
    /\ phase' = "closing policy"
    /\ UNCHANGED <<loopVars, rebuild, open, fills, poolFills, error, results, timings,
                   diagnostics>>

(* A step of the rollout fails, or a reset whose environment's queue is    *)
(* empty cannot fill the pool again.                                       *)
RolloutRaises ==
    /\ phase = "rolling out"
    /\ timers' = timers \cup {run}
    /\ \/ Fill("built") \in poolFills /\ FailOfFill
       \/ Fail(fills) /\ UNCHANGED poolFills
    /\ UNCHANGED <<loopVars, rebuild, open>>

-----------------------------------------------------------------------------
(* An exception of policy.close leaves close_run_resources. *)
AfterClosePolicy_Mutant(raises) == IF raises THEN "failed" ELSE "tearing down"

AfterClosePolicy(raises) == "tearing down"

(* close_run_resources: a policy whose close raises has been closed, and   *)
(* the environment is closed after it in any case.                         *)
ClosePolicy ==
    /\ phase = "closing policy"
    /\ open' = open \ {"policy"}
    /\ \E raises \in BOOLEAN :
          /\ raises => "policy" \in open
          /\ error' = (error \/ raises)
          /\ phase' = AfterClosePolicy(raises)
    /\ UNCHANGED <<loopVars, rebuild, fills, poolFills, timers, outputVars>>

(* An exception of the teardown leaves close_environment. *)
AfterTearDown_Mutant(raises) == IF raises THEN "failed" ELSE "closing env"

AfterTearDown(raises) == "closing env"

(* close_environment: the simulator's stage is torn down before the        *)
(* environment is closed, which happens in any case.                       *)
TearDown ==
    /\ phase = "tearing down"
    /\ open' = open \ {"stage"}
    /\ \E raises \in BOOLEAN :
          /\ raises => "stage" \in open
          /\ error' = (error \/ raises)
          /\ phase' = AfterTearDown(raises)
    /\ UNCHANGED <<loopVars, rebuild, fills, poolFills, timers, outputVars>>

AfterCloseEnv(raised) ==
    IF raised THEN "failed" ELSE IF rebuild < Len(plan) THEN "building" ELSE "finishing"

CloseEnv ==
    /\ phase = "closing env"
    /\ open' = open \ {"env"}
    /\ \E raises \in BOOLEAN :
          /\ raises => "env" \in open
          /\ error' = (error \/ raises)
          /\ phase' = AfterCloseEnv(error')
    /\ rebuild' = IF phase' = "building" THEN rebuild + 1 ELSE rebuild
    /\ UNCHANGED <<loopVars, fills, poolFills, timers, outputVars>>

-----------------------------------------------------------------------------
(* The end of build_and_run. *)
FinishRun ==
    /\ phase = "finishing"
    /\ diagnostics' = DiagnosticsWith(fills)
    /\ phase' = IF fills # <<>> /\ ~ writable THEN "failed" ELSE "writing"
    /\ UNCHANGED <<loopVars, rebuild, open, fills, poolFills, timers, error, rollouts,
                   results, timings>>

Result(status) == Append(results, [run |-> run, status |-> status])

(* The timings of a run are written outside the try statement. *)
WriteRunOutputs ==
    /\ phase = "writing"
    /\ IF writable
       THEN /\ timings' = [timings EXCEPT ![run] = timers]
            /\ results' = Result("completed")
            /\ phase' = "next"
       ELSE /\ phase' = "raised"
            /\ UNCHANGED <<results, timings>>
    /\ UNCHANGED <<loopVars, rebuild, open, fills, poolFills, timers, error, rollouts,
                   diagnostics>>

(* A failed run leaves no result. *)
ResultsAfterFailure_Mutant == results

ResultsAfterFailure == Result("failed")

RunFailed ==
    /\ phase = "failed"
    /\ results' = ResultsAfterFailure
    /\ phase' = IF continueOnError THEN "next" ELSE "raised"
    /\ UNCHANGED <<loopVars, rebuild, open, fills, poolFills, timers, error, rollouts,
                   timings, diagnostics>>

Next ==
    \/ OutputBreaks
    \/ NextRun
    \/ Return
    \/ Plan
    \/ Build
    \/ BuildRaises
    \/ MakePolicy
    \/ MakePolicyRaises
    \/ Rollout
    \/ RolloutRaises
    \/ ClosePolicy
    \/ TearDown
    \/ CloseEnv
    \/ FinishRun
    \/ WriteRunOutputs
    \/ RunFailed

Spec == Init /\ [][Next]_vars

-----------------------------------------------------------------------------
Completed == {results[i].run : i \in {j \in DOMAIN results : results[j].status = "completed"}}

(* Whatever raises, and wherever, neither the simulator's stage nor an     *)
(* environment or a policy of a rebuild is open when the next one is built *)
(* or the run has ended.                                                   *)
ResourcesReleased ==
    open # {} =>
        phase \in {"making policy", "rolling out", "closing policy", "tearing down", "closing env"}

EpisodesAskedFor(c) ==
    IF c.episodes # None THEN c.episodes
    ELSE IF c.listed # None THEN Total(c.listed)
    ELSE IF c.paths # None THEN Total(c.paths)
    ELSE c.rebuilds * c.replay

HasEpisodeLimit(c) ==
    c.episodes # None \/ c.listed # None \/ c.paths # None \/ c.replay # None

(* A run reported as completed has rolled out every rebuild, each with a   *)
(* seed of its own and its own file to replay, none without an episode;    *)
(* and together they ran the episodes it was configured for, neither fewer *)
(* nor more.                                                               *)
CompletedRanEverything ==
    \A r \in Completed :
        /\ Len(rollouts[r]) = cfgs[r].rebuilds
        /\ \A i \in DOMAIN rollouts[r] :
               /\ rollouts[r][i].seed = i - 1
               /\ rollouts[r][i].replay = CfgForRebuild(cfgs[r], i).replay
        /\ HasEpisodeLimit(cfgs[r]) =>
               /\ \A i \in DOMAIN rollouts[r] : rollouts[r][i].episodes > 0
               /\ Total([i \in DOMAIN rollouts[r] |-> rollouts[r][i].episodes])
                      = EpisodesAskedFor(cfgs[r])

(* An experiment that returns has one result for each configured run, in   *)
(* order, as the combined result asserts; every completed run has the      *)
(* timings file that the aggregation asserts, of its own work alone, and   *)
(* only those have one.  With continue_on_error only an output that cannot *)
(* be written stops it.                                                    *)
ResultsMatchTheRuns ==
    /\ \A i \in DOMAIN results : results[i].run = i
    /\ phase \in {"next", "returned"} =>
           /\ Len(results) = run
           /\ timings = [r \in Runs |-> IF r \in Completed THEN {r} ELSE None]
    /\ phase = "raised" /\ continueOnError => ~ writable

Before(f, g) ==
    \/ f.rebuild < g.rebuild
    \/ f.rebuild = g.rebuild /\ f.ended = "built" /\ g.ended = "failed"

(* The file tells, in order and once, of the fill each environment was     *)
(* built with and of the fill that failed.                                 *)
FileTellsOfTheFills ==
    /\ ToSet(diagnostics[run]) = {f \in poolFills : f.ended # "lost"}
    /\ \A i, j \in DOMAIN diagnostics[run] :
           i < j => Before(diagnostics[run][i], diagnostics[run][j])

(* When a step of a rebuild has raised, and when all rebuilds are done,    *)
(* the placement diagnostics file has one entry for each environment the   *)
(* run built with a pool and, when a fill failed, in a build or in a       *)
(* reset of the rollout, that fill after them.  A fill whose build raised  *)
(* later is not in it: a failed build reports no diagnostics.              *)
DiagnosticsTellOfTheRun ==
    writable /\ (phase = "writing" \/ (phase = "closing policy" /\ error)) => FileTellsOfTheFills
=============================================================================
