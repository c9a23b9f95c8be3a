# IsaacLab-Arena: a TLA+ verification project

IsaacLab-Arena evaluates robot policies in many simulated environments at
once, on top of Isaac Lab.  This directory models the part of it that decides
*which* episode an environment runs, *what* is recorded of it, *which* action
a policy gives it, *what* becomes of a whole experiment when a step of it fails,
and how the review GUI shares one simulator process between browser tabs.  The
models are checked with TLC on small instances.  Their safety properties, their
action properties and the two refinements are also proved with TLAPS, for every
value of their constants.

Contents

1. The system: components, state, operations, interactions
2. What is hard about it
3. The modules and how they correspond to the code
4. The runs: what each checks and shows, bounds, fairness
5. What is proved
6. Disagreements between the code and what it says
7. What is not modelled, and the plan

## 1. The system

Paths are relative to `src/isaaclab_arena/` unless they begin with `src/`.

An experiment runs in ONE thread.  Concurrency is that of *environments*:
`num_envs` of them advance in one `env.step`, any subset finishes in it, and
every collaborator holds one slot of state per environment, changed through
sets of environment ids.  Three things run beside it: the server of a remote
policy, the threads in which a VLM agent policy waits for its model, and, apart
from experiments altogether, the review GUI, where a runner process, Streamlit's
sessions and a SimApp server process talk over a Unix socket.

```
 execute_experiment  (evaluation/run_execution.py)
   `- build_and_run, once per rebuild
        |- ArenaEnvBuilder ........ build the environment (may raise)
        |    `- PooledObjectPlacer .. layouts for reset events
        |- rollout_policy (evaluation/policy_runner.py)
        |    |- env.reset / env.step    IsaacLabArenaManagerBasedEnv
        |    |    |- VariationReplayScheduler   which recorded row an episode replays
        |    |    |- VariationRecorder          what each episode drew
        |    |    |- ArenaRecorderManager       trajectory (dataset)
        |    |    |- ProgressTracker            subtasks, events, success
        |    |    |- EpisodeRecorderManager     one JSONL row per episode
        |    |    `- CameraObsVideoRecorder     (around it) one clip per episode
        |    `- policy.get_action / policy.reset(ids)
        |         |- ActionChunkScheduler | SyncedBatchActionScheduler
        |         |- RemotePolicy --websocket--> server (pi0, Cosmos, DreamZero)
        |         `- VLMChunkPolicy | VLMGoalPolicy
        |              `- thread pool --> InferenceBackend --> model endpoint
        `- close policy, tear down simulator, close env; write outputs

 record_placement_layouts (offline_placement/): reset, settle, keep what is stable
   `- PooledObjectPlacer

 gui_runner (review GUI)
   |- SimApp server process  <--unix socket--  SimAppClient of each browser tab
   `- Streamlit process
```

| Component | Source | State it keeps | Operations |
|---|---|---|---|
| Episode lifecycle | `environments/isaaclab_arena_manager_based_env.py` | episode index, active mask, started and completed counts, limit, ids reset in this step | construction, `configure_episode_limit`, `reset`, `step`, `_reset_idx` |
| Replay scheduler | `variations/variation_replay_scheduler.py` | next row, row assigned to each environment | `reset`, `assign_new_episodes`, `complete_episodes` |
| Variation recorder | `variations/variation_recorder.py` | samples by (environment, episode) | record, release, `bind_env` |
| Episode recorder | `recording/episode_recorder_manager.py` | the JSONL file | `set_output_path`, `record_pre_reset` |
| Trajectory recorder | `recording/arena_recorder_manager.py` | buffered trajectories, exported demos | the hooks of Isaac Lab's recorder, filtered by the active mask |
| Initial rest poses | `tasks/predicates/object_settling.py` | the pose an object came to rest in, per environment | record once, clear |
| Episode videos | `video/camera_observation_video_recorder.py` | open encoder per environment, finished clips | `step`, `reset`, `close` |
| Progress tracker | `progress_tracking/`, `tasks/predicates/temporal.py` | positions, streaks, completions, events | `step`, `reset`, success and summary queries |
| Action chunk schedulers | `policy/action_scheduling/` | chunk, index and refetch flag per environment | `get_action`, `reset` |
| Remote policies | `policy/remote_policy_base.py`, `src/isaaclab_arena_openpi`, `src/isaaclab_arena_cosmos` | cached chunk and cursor per environment, connection | `get_action`, `reset`, `close` |
| DreamZero policy | `src/isaaclab_arena_dreamzero/policy/dreamzero_remote_policy.py` | the same, and a session per environment whose history the server keeps | the same, plus the reset protocol |
| VLM agent policies, inference backend | `src/isaaclab_arena_vlm_agent/vlm_agent_policy.py`, `inference/backend.py` | chunk or current and previous goal per environment, conversations of the call, requests in threads | `get_action`, `reset`, `close`; `infer` |
| Rollout | `evaluation/policy_runner.py` | step count, episode count of the environment | `rollout_policy` |
| Placement pool | `relations/pooled_object_placer.py`, `relations/runtime/` | a queue of layouts per environment, a seed counter | fill, sample, sample a round |
| Offline placement | `offline_placement/` | poses, outcomes, rejections, batches | collect until enough, write |
| Run execution | `evaluation/run_execution.py`, `evaluation/resource_cleanup.py` | run status, open resources, timers, result files | `execute_experiment`, `build_and_run` |
| Review GUI sessions | `src/isaaclab_arena_examples/agentic_environment_generation/` (`review_gui/simapp/`, `review_gui/simapp_connector.py`, `gui_runner.py`) | server process, socket, connections, a client per session | render, preview, ping, shutdown, start and stop |

What makes each one correct:

- *Lifecycle*: episodes started = completed + active at every point, a limit is
  met exactly, and an environment left without an episode changes nothing.
- *Scheduler, recorders*: every finished episode has exactly one row, written
  under its own index with its own draws and its own replayed row, before
  these are released; the assertions on duplicate draws never fire.
- *Videos*: a finished episode has one clip per camera, named as its row is, with
  frames of that episode and of no other.
- *Progress*: a milestone is counted exactly when a declarative reading of the
  truth history says so; success means the final state holds as well; a
  condition that persists is one occurrence of an event.
- *Schedulers, remote policies*: no action planned for an episode that is over
  or for another environment; actions of a chunk in order; nobody holds for
  ever; a reconnection invalidates everything the lost server knew.
- *VLM agents*: the command given is of the last prediction made for that
  environment in its present episode, however requests overlap, fail and are
  corrected; the commands of a prediction are given one by one, in order, and all
  of them before the next one's; a goal's request tells how the goal before it ended.
- *Rollout*: it returns, having completed exactly the episodes asked for, and
  tells the policy of every episode that starts.
- *Placement*: no layout is used twice; a refill is enough for the reset that
  asked for it; a reset of one environment costs the others nothing.  A recorded
  layout passed every check and stands beside its own outcome, and every attempt
  is accounted for.
- *Execution*: whatever raises, resources are released, later runs are not
  affected, a run that is `COMPLETED` ran every episode it was asked for, and the
  placement diagnostics tell of every fill they can know of.
- *Review GUI*: a tab is answered what it asked; one tab neither starves nor kills
  the server of the others; whatever happened, no process and no socket is left.

## 2. What is hard about it

`PROJECT.json` lists the hazards line by line.  They fall into seven groups.

1. *Ends and starts in one step.*  `_reset_idx` handles any subset of
   environments; those with no budget left simulate on, time out at every
   step, and must stay invisible.  Five collaborators are called around one
   change of the index, the mask and the counters, in an order that matters.
2. *Chunks across resets.*  A policy plans several steps ahead; episodes end
   in between, at different times per environment, while all of them share
   one query.
3. *Connections.*  A connection can be lost before or after the server handled
   a request; the retry happens inside a loop over the environments, some of
   which have been given an action already.  DreamZero's server keeps a history
   per session and acknowledges a reset on the same connection, maybe late.
4. *Long histories.*  Temporal requirements, streaks and rearmed events depend
   on every step of an episode.
5. *Partial failure.*  A recording term, a reset event, the policy, the
   environment or the file system can raise between any two steps of a
   sequence of bookkeeping or of cleanup.
6. *Requests side by side.*  A VLM policy asks for several environments at once;
   answers come in any order, are retried in one loop and corrected in another,
   while episodes and goals end in between.
7. *Processes.*  One SimApp serves one connection at a time; tabs wait in its
   backlog, go away with a request or a reply pending, and the process may die or
   be stopped at any point.  The backlog is bounded, too: who finds it full waits in
   `connect`.

## 3. The modules

| Module | Models | Builds on |
|---|---|---|
| `EpisodeBudget` | abstract: N episodes dealt to environments, each started once and finished once or cut by a restart | |
| `EpisodeLifecycle` | environment, replay scheduler, variation recorder, JSONL recorder | implements `EpisodeBudget` |
| `EpisodeRecording` | trajectory dataset, published progress and rest poses, following the lifecycle | `EpisodeLifecycle` |
| `EpisodeVideos` | the clips of the camera recorder around it | `EpisodeRecording` |
| `PolicyRollout` | the rollout loop with a planning policy | `EpisodeLifecycle` |
| `EpisodeLifecycle_proof` | theorems of the four above | `EpisodeVideos`, `PolicyRollout` |
| `ActionChunkScheduler` | independent chunk replay | |
| `SyncedBatchActionScheduler` | replay with full-batch queries and holds | `ActionChunkScheduler` |
| `ActionSchedulers` | either of the two, chosen once | both |
| `ActionScheduling_proof` | theorems | `ActionSchedulers` |
| `ProgressTracker`, `MCProgressTracker` | one environment's tracker | |
| `ProgressTracker_proof` | theorems | `ProgressTracker` |
| `RemoteChunkReplay` | pi0 and Cosmos policies | |
| `DreamZeroRemotePolicy` | the DreamZero policy, its connection and its server | implements and extends `RemoteChunkReplay` |
| `RemotePolicies_proof` | theorems of both | `DreamZeroRemotePolicy` |
| `VLMAgentPolicy` | the two VLM policies, their thread pool and the backend's retries | |
| `VLMAgentPolicy_proof` | theorems | `VLMAgentPolicy` |
| `PlacementPool` | the pool and the events that draw from it | |
| `OfflinePlacement` | the recording of settled layouts | `PlacementPool` |
| `OfflinePlacement_proof` | theorems | `OfflinePlacement` |
| `ExperimentRun`, `MCExperimentRun` | runs, rebuilds, cleanup, outputs | |
| `ExperimentRun_proof` | theorems | `ExperimentRun` |
| `SimAppSessions` | tabs, SimApp server and runner of the review GUI | |
| `SimAppSessions_proof` | theorems | `SimAppSessions` |

`PROJECT.json` maps each definition to the lines it translates.  The rest of
this section says how state and actions correspond, and what the abstraction
gives up.

### EpisodeLifecycle

Variables carry the code's names without the leading underscore: `limit`,
`started`, `completed`, `active`, `resetIds`, `episodeIndex` of the
environment, `nextOccurrence` and `assigned` of the scheduler, `samples` of
the recorder, `rows` of the JSONL file.  `phase`, `requested`, `finishing`,
`stepping` and `activeBefore` are the locals and the program point of a call,
which runs through idle, resetting, starting, returning and idle again.

| Action | Code |
|---|---|
| `Build` | `__init__`; a second environment is built over the same recorder and scheduler (`bind_env`, `reset`) |
| `ConfigureEpisodeLimit` | `configure_episode_limit` |
| `Reset(ids)` | `reset`, up to `_reset_idx` |
| `Step(done)` | `step`, up to `_reset_idx`: physics for every environment, then terminations |
| `FinishEpisodes` | `_reset_idx`, first half: rows of the finishing episodes, release of their draws, `complete_episodes`, counter and mask |
| `RecordingRaises` | the same, cut short by a recording term or the file after some of the rows |
| `StartEpisodes`, `NothingStarts` | second half: the candidates cut to the remaining budget, index, `assign_new_episodes`, mask, counter, Isaac Lab's own reset with the draws |
| `ResetEventRaises` | the same, with a reset event that raises before or after the draws |
| `Return` | the end of the call: which ends it reports |

Physics and terminations are nondeterministic: any set of environments may be
done at a step, and all that have made `MaxEpisodeLength` steps are
(`time_out`), the ones without an episode included.  A draw is the number of
the row it replays, or `Live`.  The assertions of the scheduler and the
recorder, and the scheduler's lookups, set `failure = "bookkeeping"`; after a
failure only a new environment can follow, as the exception ends the rollout.

### EpisodeRecording, EpisodeVideos and PolicyRollout

They extend `EpisodeLifecycle` and conjoin every one of its actions with what
their own component does in it, so that the interleaving checked is that of
the real handlers.

`EpisodeRecording` adds the trajectory buffer and its exported demos
(`ArenaRecorderManager`), the tracker's per-environment episode, how often it
was advanced in the present step, and the snapshot that the JSONL row is given
(`progress_terms.py`).  It assumes a task with progress tracking.  An explicit
`env.reset` of an episode that has not made a step writes a row with the
snapshot the episode before it left; the code has no other snapshot to give,
so the property is stated of rows of episodes that made a step.  `restPose`
names the episode in which the object of an environment came to rest
(`ObjectInitialRestPoseRecorder`), the height from which a lift is measured.  It
is recorded in the update of the tracker, once, and cleared by `_reset_idx`.  The
task is one whose first milestone is `objects_settled`, as picking and placing;
`objects_settled` records for *every* environment whenever one of them evaluates
it, so in a sequential composite task the second object's pose may be recorded
in an environment that has not come to its second subtask yet.  This changes the
height a predicate compares with, not which episode the pose is of.

`EpisodeVideos` is the outermost wrapper: `StepReturns` writes a frame for the
environments that were active and did not complete in the step, then finalises
the clips of those that did; an explicit reset goes past it (`bypassed`), and
`CloseVideos` cuts short what is open.  One camera stands for all.

`PolicyRollout` adds `rollout_policy`: the limit by episodes or by steps, the
policy as the set of plans it keeps (`planned[e]` is the episode the plan of
`e` was made in), `policy.reset(env_ids)` with the ids of
`get_reset_env_ids`, and exceptions from the environment or the policy.
Metrics and the progress bar are left out.

### Action chunk schedulers

One action per call of `get_action` (with its fetch, when there is one) and
one for `reset(env_ids)`.  A chunk is the number of the query it came from and
the episode it was planned in; an action is a chunk and a place in it.
`SyncedBatchActionScheduler` extends `ActionChunkScheduler` as the class does,
reuses its state, and adds `waited`, the length of an environment's present
hold.  `ActionSchedulers` has a constant-valued variable `scheduler` choosing
one of the two initially, so that one run and one set of properties cover both.
The bounds `MaxFetches` and `MaxResets` are guards.  `ActionChunkScheduler`
keeps the three diagnostic counters, with the aliasing of
`action_chunk_scheduler.py:71-77` (section 6).

### ProgressTracker

The tracker's tensors have a row per environment and no row is computed from
another, so the module has one row and runs one episode after another in it.
`Step(now)` is one update with `now`, the instantaneous predicates that hold:
sequences advance (`pos`), temporal requirements count (`streak`), criteria
and subtasks complete, task success and tracked events are decided.  `truth`
keeps the history of `now`, which the code does not have: the properties are
written over it, and so say what the incremental code should have computed.
Scores are left out; they are weights of the positions passed.

### RemoteChunkReplay and DreamZeroRemotePolicy

In `RemoteChunkReplay`, a call of `get_action` is `GetAction`, then for each
environment (`cursor`) either `Replay` or an inference, which succeeds
(`Infer`), loses the connection (`LoseAttempt`, `GiveUp` in the last attempt) or
raises (`CallRaises`).  A client that lost its connection is `connecting`: it asks
again every five seconds for as long as it is refused, until there is a server
(`Reconnect`) or another error (`ConnectRaises`).  `Step(ids)` is the return of the
call, the simulator's step and `policy.reset(ids)`.  A chunk is the observation it
was planned from and the connection that brought it.  Numbers of connections
alternate once the bound is reached, so connections may be lost any number of
times: everything is flushed between two of them, so two numbers suffice.

`DreamZeroRemotePolicy` opens the inference up: request built, sent, message
received, with two message queues, a link that can be lost between any two of
these, a server that keeps a history per session and may be restarted with
the connection, and the reset protocol, whose acknowledgement may arrive after
the client has given up waiting.  The server is external: it is modelled by
what the client's code and comments expect of it.  The module extends
`RemoteChunkReplay`, whose state and chunk helpers it uses, and names its own
actions (`StartCall`, `GiveAction`, `ReplayAction`, `LoseRequest`, `ReconnectPolicy`,
`GiveUpRequest`, `StepPolicy`, `ClosePolicy`, ... of `PolicyNext`).  `ReplaysChunks` states that
with the phases `calling` and `awaiting` mapped to `serving`, and `resetting`
to `idle`, every behaviour is one of `RemoteChunkReplay`.

### VLMAgentPolicy

A prediction is named after the request it answers: environment, episode, and
number of the request in the episode.  `GetAction` is the head of the call:
goals that ended are put down as previous ones, and a conversation is opened for
every environment without a command.  `Take`, `Answer` and `TryFails` are the
threads (`workers` of them) with `InferenceBackend`'s retries; `InferRaises` is
the first failed request in the order of the requests, `Validate` the round of
corrections, `Act` the storing of predictions and the commands of this step.
`Step(done)` is the simulation's step and `policy.reset(ids)`; `Close` cancels
what is queued and does not wait for what runs.  Whether a goal is reached or
blocked, and whether an answer is valid, is nondeterministic.  `AdapterRaises` is an
error of the adapter other than an invalid answer, which no correction handles; it
ends the call while answers are validated, as a failed request does.
`given` keeps the last command of each environment's episode, so that the next one can
be compared with it; a command is a prediction and its place in it.

### PlacementPool and OfflinePlacement

`PlacementPool` has a queue of layouts and a cursor per environment, the fill
loop with its seeds, retries and last-batch fallbacks, and its callers: the
pool's construction, the draws of a reset, and complete rounds, for live and for
fixed placements.  A `demand` is what a caller draws; `Sample` serves it from
the queues, `Refill` starts the fill that `SampleRefilled` follows.  The solver
is abstracted to how many of the layouts it returns for each environment are
valid; a layout is identified by the seeded solve and its rank in it.  A seed of
`None`, which draws at random, is treated as giving distinct solves.  Layout ids,
the results kept for diagnostics and the poses are left out.  A fill that raises
and a draw that finds too little are terminal.

`OfflinePlacement` resets all environments, settles, and collects: poses and
outcomes are kept in two columns as the code keeps them, and `Write` joins them
by index.  `stage = "idle"` is the same pool under ordinary rollouts.

### ExperimentRun

`execute_experiment` over `NumRuns` configurations that are chosen initially
from all that `__post_init__` accepts, with and without `continue_on_error`.
Each statement of a rebuild that may raise is an action with a raising twin;
`open` is the set of resources whose close has not been called; the
`finally` clauses are the phases `closing policy`, `tearing down` (the simulator's
stage) and `closing env`, of which each may raise.
`fills` is the list of diagnostics the run collects, `poolFills` what really happened:
a fill that an environment was built with, one that failed, in the build or in a
reset of the rollout, or one that succeeded in a build that raised afterwards and so
is lost with its environment.  Refills that succeed during a rollout are not reported,
by design: the file tells of builds.
`writable` may turn false at any time.  A rollout is reduced to what it was
given (seed, replay file, number of episodes) and whether it raised: what
happens inside it is `PolicyRollout`.

### SimAppSessions

The server's loop (`Accept`, `Serve...`, `BeginWork`, `FinishWork`, `ReadRaises`,
`EndConnection`), a tab's operation (`Start` to `EndWork`, with the two attempts
of `ensure_simapp`) and the runner (`TryConnect` to `Terminate`) are separate
processes.  `queue` holds the server's connections, the first of which may be in
service, each with the request that is unread on it; `client` and `reply` are
the client ends.  The socket behaves as the kernel's: whoever has something
unread when the other side closes gets a reset, the others read the end of the
stream.  Those not accepted yet are in the backlog, whether or not their client is
still there; the kernel admits one more than `listen` was given (`Room`), and a
client beyond that blocks in `connect`, which here means that its action is not
enabled until there is room or the server closes.  A deadline, a dead process and an
interrupt are choices that are always possible.  Specs and pictures are left out: rendering and previewing are `work`.

## 4. The runs

| Run | Configuration | Distinct states | What it shows |
|---|---|---|---|
| `episode_recordings` | 3 environments, 2 replayed rows, episodes of up to 3 steps, limits 1 to 4 or none, 2 builds | 1,093,954 | lifecycle, dataset, progress, rest poses and clips together: assertions, one row per episode with its own draw and source, rows dealt in turns, the other files agree with the rows, refinement of `EpisodeBudget` |
| `action_schedulers` | 3 environments, chunks of 3, 7 queries, 2 resets | 81,276 | replays only present plans, in order; lockstep, bounded holds |
| `progress_tracker` | 2 predicates, 2 subtasks, 6 sequences, 2 events, 6 steps, 3 configurations | 16,383 | milestones, success, summary and occurrences against the truth history |
| `policy_rollout` | 3 environments, episodes of up to 3 steps, limits 1 to 5 episodes or 1 to 4 steps | 54,768 | the loop ends, with every episode, and the policy plans in the present episode |
| `remote_chunk_replay` | 2 environments, horizon 2, 3 attempts, 4 steps | 7,350 | actions of the present episode and in time; nothing survives its connection; calls return unless the server refuses for ever |
| `dreamzero` | 2 environments, horizon 2, 3 steps, 2 losses | 181,933 | histories unmixed and in step; the awaited answer is due; refinement of `RemoteChunkReplay` |
| `vlm_agent` | 2 environments, 1 or 2 threads, chunks and goals of 2 steps, 2 attempts, 1 retry, 2 episodes of up to 4 steps | 176,008 | own predictions, commands in order, the previous goal reported, calls end |
| `offline_placement` | 2 environments, fills of 3, 2 batches of the solver, rounds of up to 3, 4 solves; 3 layouts wanted, 3 settled batches | 198,842 | no layout twice, a refill suffices, the file is sound, attempts add up |
| `experiment_run` | 2 runs, up to 3 rebuilds, 4 episodes | 3,645,568 | cleanup, results, timings and placement diagnostics under failure; completed runs ran everything |
| `simapp_sessions` | 4 tabs, 1 runner, 1 server with a backlog of 1 | 44,876 | requests in step, server's lifetime, everybody returns |

and two that are expected to find a violation: `chunk_fetch_counters` and
`dreamzero_drains_errors` (section 6).

Each property of a passing run has a *mutant* in `PROJECT.json`: a plausible bug
in a mapped definition (the `..._Mutant` operators) under which TLC finds the
property violated in the same configuration.

*Why the bounds are enough.*  Three environments are the fewest in which one
finishes, one runs on and one has no episode; limits of four and of five over
three of them give a second round that does not divide, so the cut by the budget
takes some finishing environments and not others.  Three steps are the shortest
episode with a frame between the first and the one that is left out.  Two replayed rows over three
environments wrap within the first round.  Chunks of three have a first, a
middle and a last place, and the holds of the synchronised scheduler reach
their maximum of two.  In the tracker the longest sequence needs three steps,
so six leave room for it to complete, be lost and be regained.  Three attempts
have a first, a middle and a last one.  Two losses in DreamZero are one loss and
one during its retry; failures to connect come on top.  Four episodes over
three rebuilds do not divide.  Two threads for two requests give every order of
answers, one thread leaves a request queued behind another; two goals per
episode are a first and one with a predecessor, and episodes of four steps have two
chunks that are used up.  Three layouts from two
environments take a second batch, of which one is left over, or a third one.
Four tabs are one in service, two with unread requests behind each other, which is all
that a backlog of one admits, and one that blocks in `connect`; the code's backlog of
five differs in how many tabs that takes, and the theorems hold for any.

*Deadlock.*  `progress_tracker` checks it: a reset is always possible.  The
others say `CHECK_DEADLOCK FALSE`, because their behaviours end: the rollout
has returned or raised (`policy_rollout`), the experiment has (`experiment_run`),
the policy is closed (`remote_chunk_replay`, `dreamzero`, `vlm_agent`), the runner
is done (`simapp_sessions`), the file is written (`offline_placement`), a bound on
episodes, queries or solves is used up, or the component has raised.  Being stuck
is covered by properties instead: `RolloutEnds`, `CallsReturn`, `PredictionCallsEnd`,
`EverybodyReturns`, `AnswerIsDue` (a client that waits has an answer coming) and
`HoldBounded`.

*Fairness.*  `PolicyRollout` assumes `WF(RolloutNext)`: one thread runs the
loop and nothing in it waits for anything; that episodes end is not assumed but
follows from the `time_out` termination.  `RemoteChunkReplay` assumes that an
attempt ends (`FairSpec`): the client's keepalive pings close a connection whose
server is gone.  Both policies configure that by default (`ping_interval` 20 s,
`ping_timeout` 300 s); either may be set to `None`, and then there is no such guarantee
and `CallsReturn` does not apply.  Making a connection is not fair, neither its success
nor its failure: `WebsocketClientPolicy` asks a server that refuses connections again and
again, without a limit (`websocket_client.py:37-52`).  So `CallsReturn` says that each
call returns, or that from some time on the client waits for such a server.
`VLMAgentPolicy` assumes that the calling thread
and the pool's threads run, and that a request comes to an end: the OpenAI client
has a default timeout.  `SimAppSessions` assumes that the server's loop, each
tab's operation and the runner's stop go on while they can, which includes that
Kit returns from its work: the code waits for that without a limit.  A client that is
blocked in `connect` must get its place if places keep becoming free (strong fairness
of `GetClient`): the kernel queues those that wait and wakes one for each connection that is
accepted.  With weak fairness TLC finds a tab that others overtake for ever.  Nobody has
to start an operation, to leave, or to let Kit close.  The other runs check
safety only.

## 5. What is proved

`tlapm` checks eight modules; the theorems hold for every number of environments,
tabs, threads, chunk length, horizon, pool size, number of attempts, runs and
rebuilds, every task of the progress tracker, and every bound.  Every invariant,
action property and refinement of a passing run is stated by a theorem.  What
they assume is the `ASSUME`s of the modules, of which those about `None`,
`Nothing`, `NoLimit` and the like only say that these values are none of the data they stand
beside; one theorem (`AnswersAreDue`) has a hypothesis of its own.

### `EpisodeLifecycle_proof`: the environment

`TypeCorrect`, `AccountingCorrect`, `CollaboratorsCorrect`, `ImplementsBudget`,
`RowsCarryTheirDraws`, `FinishedEpisodesHaveOneRow`, `RecordsTakeTurns`.

The inductive invariant is `IInv` of `EpisodeLifecycle`:
`TypeOK`, `Accounting`, `BookkeepingNeverFails`, `CollaboratorsFollowTheMask`
and `CallInProgress`.  None is inductive alone.  That the assertion on
assignments never fires needs that assignments are those of the active mask;
the mask and the counters are only preserved by `StartEpisodes` because the
candidates are not active any more, which the first half of the call
established and `CallInProgress` carries over to the second.  That a draw is
fresh needs draws to be keyed by the present index of active environments,
since the index only grows.  `ImplementsBudget` maps each action to a start, a
finish, a new budget or a stutter of `EpisodeBudget`; the cardinality facts
(the number of ids in a sorted order, of a union, of a difference) are lemmas.
`RowsCarryTheirDraws` adds (`RowsInv`) that the draws of an active environment under
its present index are of the row it was assigned, and that rows are only
written, with such draws, for environments that are still active.

`OneRowPerFinishedEpisode` is inductive over `IInv`: a call writes one row for
each finishing environment, at the index it has, and moves on the mask with it.
`RecordsTakeTurns` counts.  The uses of a record are the rows that name it and the
running episodes that hold it; the turns are the places below `nextOccurrence` with
its remainder.  Finishing moves environments from the second count to the first,
starting adds to the second the environments whose places have the remainder, and
these correspond one to one to the new turns.

### `EpisodeLifecycle_proof`: what follows the episodes

`PlansAreOfTheEpisode`, `ReturnedRolloutsAreComplete`: every statement of the
rollout loop is a handler of the lifecycle or leaves it alone
(`RolloutDrivesTheEnv`), so `RowsInv` is an invariant here, too.  `InCallOfEnv` ties
the program points of the two to each other, and `PlansFit` says at each
statement whose plans may be those of an episode before: only the ones that
are among the reset ids, of which the policy is told next.

`ProgressIsOfTheEpisode`, `DemosAreTheRows`: `RecordingInv` says at every
handler what the tracker, the buffer and the rest pose hold of a running episode
(`Followed`): all tell its present length, and what was published is of its index.
`StartsAreRequested` is what lets the two halves of a call differ: an environment that
is reset but not yet started again holds nothing of its own, and an initial state
is recorded when the call returns.  It also takes that a running episode is
shorter than the longest unless it is about to end.

`ClipsAreOfTheRows`: `VideosInv` says of the open clip of an environment, in each
phase, how its frames compare with its episode (`AtRest`, `InReset`, `InStep`): a
step is ahead of the clips until it returns, and the row of an episode is written
before its clip is finalised, so that in between the episode counts as `Unfinalised`.
With `OneRowPerFinishedEpisode` a clip is of the last row of its environment.

### `ActionScheduling_proof`

`SchedulersTypeCorrect`, `AlwaysReadyToReplay`, `EnvironmentsActTogether`,
`HoldsAreBounded`, `ActionsAreInOrder`.

For the chunk scheduler `TypeOK` and `ReadyToReplay` are inductive together.
For the synchronised one it takes `InLockstep`, which says that environments
that do not wait are on the same query *and* at the same place, and a bound on
`waited` by the place of those that do not: whoever holds has held for no
longer than the others have replayed.  `ActionSchedulers` combines the two by
the value of `scheduler`, which never changes.  For the order of the actions the
strengthening (`BehindLastAction`) relates the cache to what was last done: who
needs no chunk is right behind its last action, and who needs one has finished
its chunk, was reset, or has been holding.

### `ProgressTracker_proof`

`TrackerTypeCorrect`, `MilestonesAreExact`, `SuccessIsOfTheFinalState`,
`SummaryIsConsistent`, `OccurrencesAreSeparate`.

The properties say over `truth` what should have been computed, the code keeps
positions and streaks; `MilestonesInv` connects the two.  The predicates a
sequence has passed are those that have an event (`PassedArePositions`); a streak
that is still needed counts the latest steps in which its predicate held and counted
(`StreaksAreCounted`: it is at least `k` just when the last `k` steps were such, for
every `k` up to the requirement); the streak of a final condition goes on after its
sequence is complete (`FinalStreaks`), which is what success with a final check
looks at.  Milestones, success and summary follow from it.

`OccurrencesInv` keeps, for each tracked event, the run under way: a step at which
the event was rearmed, no earlier than its last occurrence, and since then a time for
each predicate passed, in order and without overlap.  An occurrence completes the
run, and a predicate that fails after it begins another.

### `RemotePolicies_proof`

Of pi0 and Cosmos: `ReplayTypeCorrect`, `ActionsAreOfTheEpisode`, `ActionsAreInTime`,
`ChunksAreOfTheConnection`.  Of DreamZero: `PolicyReplaysChunks`, `HistoriesAreApart`,
`AnswersAreDue`.

The properties of `RemoteChunkReplay` speak of actions that were given; the
strengthening (`ReplayInv`) says of every *cached* chunk that it is of its
environment and its present episode and that the position counts the control steps
since its observation (`ChunkFits`), one more once the environment has been served in
this call, which `GivenInTurn` ties to the cursor.  `Replay` and `Infer` are both
instances of one lemma, `GiveKeeps`.

`PolicyInv` of DreamZero: the request in progress or its answer is the last message
on its way and the only one of its kind (`ChannelsInOrder`), so that whatever
comes first is an acknowledgement; no two environments share a session and a reset on
its way is of sessions no longer used (`SessionsApart`); the server remembers of a
session in use only what its environment saw in its present episode
(`OwnHistories`), and while the connection is open the last of it is the observation
the cached chunk was planned from (`MemoryInStep`).  With it each action maps to
the action of `RemoteChunkReplay` under the refinement, or to a stutter
(`PolicyReplaysChunks`): the four theorems about that module hold of DreamZero as well.
`AnswersAreDue` is proved under the hypothesis `InferReplies = {"actions"}`, a server
that answers inferences with actions, as in the run: with an error string it is
false, which is the second disagreement of section 6.

### `OfflinePlacement_proof`

`LayoutsAreDrawnOnce`, `RefillsSuffice`, `RecordedLayoutsAreSound`,
`AttemptsAreAccounted`.

The inductive invariant `PoolInv` says that seeds in the queues are below the
solve counter, so what a fill appends is new; that a queue holds no layout twice
and what was drawn is behind its cursor or gone; and that a fill which ended
reached its target, which is no less than the demand.  The last needs that
rounding a total up per environment never loses one, and that the shortest
queue, a `Min` over all, bounds each: the least element of a set of naturals
comes from the library's well-foundedness.  The pool's theorems are stated of
`OfflineSpec`, which contains rollouts and recordings.

`RecordingInv` adds what a recording holds.  What a batch settles was given by its
own reset and is in no outcome (`ResultsAreNew`), and outcomes are in the order
of the batches and of different layouts per environment (`OutcomesSound`), which
`NoLayoutTwice` alone would not give: an environment could settle one layout in two
batches.  Attempts add up because a batch splits all environments into
rejected, collected and left over.  That the accepted environments of a batch have
an ascending sequence at all is proved by ranks: the number of smaller ids is
injective, so the environment of each rank exists.

### `VLMAgentPolicy_proof`

`CommandsAreOwnAndInOrder`, `GoalsAreReported`.

Per environment (`EnvInv`): what is stored is of the last prediction of the present
episode, a conversation asks for the one after it and reports the goal it is the
successor of, and during a call each environment is ready, has its command or is
asked.  The thread pool does not occur in it: since results are paired with
requests and not with arrivals, no order of answers matters.  A kept goal has a
step left while a call runs, because a used up one ended at its head (`GoalLimit`).

The order of the commands is a matter of two in a row, so its invariant (`OrderInv`)
ties what is stored to the last command given: the rest of the chunk is what follows it,
place by place (`ChunkGiven`), the goal, current or ended, has made as many steps as its
place says (`GoalGiven`), and only who has nothing left is asked for (`AskedFits`).
Every step of `Act` then gives the first command of an episode, the next of a
prediction or the first of the following one.

### `ExperimentRun_proof`

`EverythingIsClosed`, `EveryRunIsReported`, `FillsAreReported`,
`CompletedRunsAreWhole`.

The first three are inductive statements over the phases: what may be open in each;
which results and timings exist for runs before and at the present one; that nothing
is written of a run before a step of it raised or it ended, and that the fills
collected are the ones that happened, but for the lost ones, in order (`FillsFit`): all of
them successful builds of rebuilds so far, until one fails (`BuildsSoFar`).  For the fourth (`RolledInv`), the rollouts of a run that is
so many rebuilds into its work are the first so many of the planned ones.  That the
budgets add up to the episodes asked for is a fact about data, proved without an
induction theorem: running sums that satisfy the recursion agree with any explicit
formula that does, or there would be a least place where they differ; and
there is such a formula for equal shares with one more for the first few, and
for a constant budget.

### `SimAppSessions_proof`

`RequestsStayInStep`, `ServerLivesAsLongAsNeeded`.

Neither assumes anything of the number of tabs or of the backlog.
`Connections` says that a client has at most one open connection, which is in one
of four stages (nothing asked, unread, in service, answered) according to
where the client is, and that nothing is left to be done for one that has gone
while Streamlit runs.  This is why no reply meets a closed connection before the
end, and so why no tab ends the server of the others.  The second theorem adds
that the server does not boot while tabs operate and that a client's end, reset or
closing server implies that it stopped serving.

### Only model-checked

Liveness under fairness (`RolloutEnds`, `CallsReturn`, `PredictionCallsEnd`,
`EverybodyReturns`) and everything about `ENABLED`, which the prover does not
handle; and the two violations of section 6, whose content is a counterexample.

## 6. Disagreements between the code and what it says

1. *Fetch counters* (`chunk_fetch_counters`).  `ActionChunkScheduler` promises
   to track how many environments needed a fetch; `mask` is the very tensor
   that is cleared before the counting (`action_chunk_scheduler.py:71-79`), so
   the counters stay at zero.  The counters do not influence any action.
2. *Drained errors* (`dreamzero_drains_errors`).  The loop that discards late
   acknowledgements discards any string, an error string that answers the
   inference included, and then waits without a timeout for a message that is
   not due (`dreamzero_remote_policy.py:372`).  The run `dreamzero` therefore
   takes a server that answers inferences with actions; there the branch for a
   string too many is never taken, as at most one acknowledgement is late.

Behaviours that came up while modelling, which no line of the repository
contradicts outright or no run expresses, but which are worth knowing:

- An explicit `reset` before the first step of an episode writes a row with the
  progress of the episode before (section 3).
- An explicit `reset` in the middle of an episode goes past the video recorder:
  the open clip goes on into the next episode.  `ClipsMatchRows` leaves those
  environments out.
- An episode that begins inside a step, in a slot that had none, has one frame more
  than the others.
- A tab whose connection is reset while it waits for an answer sees an `OSError`,
  not the `SimAppError` its callers handle (`client.py:28`, `simapp_connector.py:61`);
  the outcome `"raised"` of `SimAppSessions`.
- The documentation says that a failed run still writes its placement diagnostics
  (`placement_diagnostics.rst:66-67`).  The `except` clause writes them, and resources
  are closed behind it, in the `finally` clause (`run_execution.py:157-164`), so a run
  that fails in closing writes none.  `DiagnosticsTellOfTheRun` states what does hold.
- A build that fills its placement pool and raises afterwards loses that fill: the
  diagnostics are read from the environment, which there is none of
  (`run_execution.py:133-142`); the fill `"lost"` of `ExperimentRun`.
- With the server of pi0 or Cosmos gone for good, `get_action` does not return: the
  attempts bound lost connections, but not how long a refused one is asked for.
- Without an explicit list of required checks the sweep over a pool makes
  `PHYSICS_SETTLED` decide about a layout (`relations/validation/types.py:97-110`,
  `offline_placement/pool_validation.py:161`); a comment in `tests/test_physics_settle.py`
  calls it optional.  The sweep is not modelled.

## 7. What is not modelled, and the plan

Of the modelled parts, these operations are left out: the draws recorded at build
time (constant), the sweep that validates a pool in place, and the clutter checks
of offline placement.  Not modelled for good: numerical optimisation and physics (relation solver,
layout validation, reachability), data conversions (embodiments, observation
adapters, GR00T translation), configuration parsing, declarative assets and
tasks (composite ones assemble configurations of the progress tracker), agentic environment generation apart from its GUI's processes, reports, visualisation, workflow
scripts.  `PROJECT.json` lists them with their sources and reasons.

The order the project was planned in, and what is done of it:

| Step | Modules | State |
|---|---|---|
| 1 | `EpisodeBudget`, `EpisodeLifecycle`, proofs of safety and refinement | done |
| 2 | `ActionChunkScheduler`, `SyncedBatchActionScheduler`, `ActionSchedulers`, proofs | done |
| 3 | `ProgressTracker` against its truth history, proofs | done |
| 4 | `PolicyRollout`, `EpisodeRecording`: composition with the lifecycle, proofs | done |
| 5 | `RemoteChunkReplay`; `DreamZeroRemotePolicy` refining it; proofs of both and of the refinement | done |
| 6 | `PlacementPool`, `ExperimentRun`, proofs | done |
| 7 | `VLMAgentPolicy` with its inference backend, proofs | done |
| 8 | rest poses, within `EpisodeRecording` | done for one object |
| 9 | `OfflinePlacement`, proofs of the pool and of the recording | done but for the sweep and the clutter checks |
| 10 | `EpisodeVideos`, following episodes as `EpisodeRecording` does, proofs | done |
| 11 | `SimAppSessions`, proofs | done |

No safety property of a passing run is left without a theorem.  What is worth doing
next is to state more: an abstract specification of a chunk scheduler (an
environment works off one plan after another), which the independent one implements
without holds and the synchronised one with bounded holds; one of the layout pool (a
source of layouts that are given once); and the operations that section 7 leaves out,
the sweep over a pool and the clutter checks first.

To repeat the checks: `tlc -config <run>.cfg <module>` for each run of
`PROJECT.json`, and `tlapm <module>` for each `_proof` module.
