--------------------------- MODULE VLMAgentPolicy ---------------------------
(***************************************************************************)
(* VLMChunkPolicy and VLMGoalPolicy over InferenceBackend.  A step asks a  *)
(* model for a prediction for every environment that has used up its last  *)
(* one: the requests run in a thread pool, a request that fails is         *)
(* retried, an answer that is not valid is sent back for correction.       *)
(* Images, prompts and poses are left out.  A prediction is the            *)
(* environment, the episode and the number of the request it answers;      *)
(* whether a goal is reached or blocked is up to the simulation.           *)
(* An operator named X_..._Mutant is X with a plausible mistake: no        *)
(* behaviour of the specification uses it.                                 *)
(***************************************************************************)
EXTENDS Integers, Sequences, FiniteSets, SequencesExt

CONSTANTS
    NumEnvs,
    MaxAttempts,       \* max_attempts, of correction
    MaxRetries,        \* max_retries of InferenceBackend
    ChunkSize,         \* chunk_size
    MaxStepsPerGoal,   \* max_steps_per_goal
    MaxEpisodeLength,  \* bound on the steps of an episode
    MaxEpisodes,       \* bound on the episodes of an environment
    None

Envs == 0 .. NumEnvs - 1

(* A prediction is named after the request it answers. *)
Predictions == [env : Envs, episode : Nat, number : Nat]

EndedGoals == [of : Predictions, outcome : {"reached", "blocked", "timeout"}, executed : Nat]

ASSUME PolicyAssumption ==
    /\ {NumEnvs, MaxAttempts, ChunkSize, MaxStepsPerGoal} \subseteq Nat \ {0}
    /\ {MaxRetries, MaxEpisodeLength, MaxEpisodes} \subseteq Nat
    /\ None \notin [prediction : Predictions, executed : Nat] \cup EndedGoals
                       \cup [prediction : Predictions, place : Nat]

VARIABLES
    kind, workers,     \* which of the two policies, and max_concurrent_requests
    (* the environment *)
    episode, steps,    \* of each environment: its episode, and steps made in it
    (* the policy *)
    chunks,            \* _chunks
    current,           \* _current_goals
    previous,          \* _previous_goals
    asked,             \* predictions stored in the present episode
    given,             \* the last command of each environment in its episode
    (* the call of get_action in progress *)
    at,                \* the statement that comes next
    conversations,     \* the environments without a valid command, and what they asked
    commands,          \* the predictions accepted so far
    attempts,
    (* the thread pool *)
    queued, running,   \* requests not started, and started
    tries,             \* failed tries of each request
    finished           \* answered requests, in the order of their answers

config == <<kind, workers>>
envVars == <<episode, steps>>
policyVars == <<chunks, current, previous, asked, given>>
callVars == <<at, conversations, commands, attempts>>
poolVars == <<queued, running, tries, finished>>
vars == <<config, envVars, policyVars, callVars, poolVars>>

Init ==
    /\ kind \in {"chunk", "goal"}
    /\ workers \in 1 .. NumEnvs
    /\ episode = [e \in Envs |-> 0]
    /\ steps = [e \in Envs |-> 0]
    /\ chunks = [e \in Envs |-> <<>>]
    /\ current = [e \in Envs |-> None]
    /\ previous = [e \in Envs |-> None]
    /\ asked = [e \in Envs |-> 0]
    /\ given = [e \in Envs |-> None]
    /\ at = "get action"
    /\ conversations = <<>>
    /\ commands = <<>>
    /\ attempts = 0
    /\ queued = {}
    /\ running = {}
    /\ tries = [e \in Envs |-> 0]
    /\ finished = <<>>

-----------------------------------------------------------------------------
(* _get_goal_outcome: the budget comes last. *)
Outcomes(e) ==
    {"reached", "blocked"}
        \cup {IF current[e].executed >= MaxStepsPerGoal THEN "timeout" ELSE "still_executing"}

NeedsPrediction(e) == IF kind = "chunk" THEN chunks[e] = <<>> ELSE current'[e] = None

(* The message of the user: the observation, and how the last goal ended.  *)
RequestContent(e) ==
    [asked |-> [env |-> e, episode |-> episode[e], number |-> asked[e] + 1],
     previous |-> previous'[e]]

Restricted(f, S) == [x \in S |-> f[x]]

(* The head of the loop of _infer: one more round of requests, or the end. *)
Ask(ids) ==
    /\ at' = IF ids = {} THEN "act" ELSE IF attempts' > MaxAttempts THEN "raised" ELSE "infer"
    /\ queued' = IF at' = "infer" THEN ids ELSE {}
    /\ running' = {}
    /\ tries' = [e \in Envs |-> 0]
    /\ finished' = <<>>

(* Goals that ended are put down as previous ones before the requests that *)
(* tell of them are built.                                                 *)
GetAction ==
    /\ at = "get action"
    /\ \E outcome \in {o \in [Envs -> {"reached", "blocked", "timeout", "still_executing"}] :
                          \A e \in Envs : IF current[e] = None THEN o[e] = "still_executing"
                                          ELSE o[e] \in Outcomes(e)} :
           LET over == {e \in Envs : outcome[e] # "still_executing"}
           IN  /\ previous' = [e \in Envs |->
                      IF e \in over
                      THEN [of |-> current[e].prediction, outcome |-> outcome[e],
                            executed |-> current[e].executed]
                      ELSE previous[e]]
               /\ current' = [e \in Envs |-> IF e \in over THEN None ELSE current[e]]
    /\ conversations' = [e \in {i \in Envs : NeedsPrediction(i)} |-> RequestContent(e)]
    /\ commands' = <<>>
    /\ attempts' = 1
    /\ Ask(DOMAIN conversations')
    /\ UNCHANGED <<config, envVars, chunks, asked, given>>

-----------------------------------------------------------------------------
(* A worker of the pool takes the next request. *)
Take(e) ==
    /\ e \in queued
    /\ \A i \in queued : e <= i
    /\ Cardinality(running) < workers
    /\ queued' = queued \ {e}
    /\ running' = running \cup {e}
    /\ UNCHANGED <<config, envVars, policyVars, callVars, tries, finished>>

(* InferenceBackend.infer returns parsed JSON. *)
Answer(e) ==
    /\ e \in running
    /\ running' = running \ {e}
    /\ finished' = Append(finished, e)
    /\ UNCHANGED <<config, envVars, policyVars, callVars, queued, tries>>

TriesLeft(e) == tries[e] < MaxRetries

(* A failure does not count as a try. *)
TryFails_Mutant(e) ==
    /\ e \in running
    /\ tries' = [tries EXCEPT ![e] = (@ + 1) % (MaxRetries + 1)]
    /\ UNCHANGED <<config, envVars, policyVars, callVars, queued, running, finished>>

(* The endpoint fails, or its answer is empty or cannot be parsed. *)
TryFails(e) ==
    /\ e \in running
    /\ tries' = [tries EXCEPT ![e] = @ + 1]
    /\ running' = IF TriesLeft(e) THEN running ELSE running \ {e}
    /\ UNCHANGED <<config, envVars, policyVars, callVars, queued, finished>>

Failed(e) == tries[e] > MaxRetries

(* list(map): results are taken in the order of the requests; the first    *)
(* that failed raises, and only what has not been started is cancelled.    *)
InferRaises ==
    /\ at = "infer"
    /\ \E e \in DOMAIN conversations :
           /\ Failed(e)
           /\ \A i \in DOMAIN conversations : i < e => i \in ToSet(finished)
    /\ at' = "raised"
    /\ queued' = {}
    /\ UNCHANGED <<config, envVars, policyVars, conversations, commands, attempts,
                   running, tries, finished>>

(* An adapter fails on an answer, which is not the model's to correct.     *)
AdapterRaises ==
    /\ at = "infer"
    /\ ToSet(finished) = DOMAIN conversations
    /\ at' = "raised"
    /\ UNCHANGED <<config, envVars, policyVars, conversations, commands, attempts, poolVars>>

(* The answers are taken in the order in which they arrived. *)
Output_Mutant(e) == finished[Cardinality({i \in DOMAIN conversations : i <= e})]

(* dict(zip(conversations, model_outputs)) *)
Output(e) == e

(* An answer that is not valid is returned to the conversation it is from. *)
Validate ==
    /\ at = "infer"
    /\ ToSet(finished) = DOMAIN conversations
    /\ \E rejected \in SUBSET DOMAIN conversations :
           LET valid == DOMAIN conversations \ rejected
           IN  /\ commands' = [e \in DOMAIN commands \cup valid |->
                      IF e \in valid THEN conversations[Output(e)].asked ELSE commands[e]]
               /\ conversations' = Restricted(conversations, rejected)
               /\ attempts' = attempts + 1
               /\ Ask(rejected)
    /\ UNCHANGED <<config, envVars, policyVars>>

-----------------------------------------------------------------------------
NewChunk(e) == [i \in 1 .. ChunkSize |-> [prediction |-> commands[e], place |-> i]]

(* The chunk is used from its end. *)
TakeNext_Mutant(chunk) == [command |-> Last(chunk), left |-> Front(chunk)]

(* popleft *)
TakeNext(chunk) == [command |-> Head(chunk), left |-> Tail(chunk)]

NewGoal(e) == [prediction |-> commands[e], executed |-> 0]

(* The new predictions are stored, and every environment is given its next *)
(* command.                                                                *)
Act ==
    /\ at = "act"
    /\ LET chunk == [e \in Envs |-> IF e \in DOMAIN commands THEN NewChunk(e) ELSE chunks[e]]
           goal == [e \in Envs |-> IF e \in DOMAIN commands THEN NewGoal(e) ELSE current[e]]
       IN  IF kind = "chunk"
           THEN /\ chunks' = [e \in Envs |-> TakeNext(chunk[e]).left]
                /\ given' = [e \in Envs |-> TakeNext(chunk[e]).command]
                /\ UNCHANGED current
           ELSE /\ current' = [e \in Envs |-> [goal[e] EXCEPT !.executed = @ + 1]]
                /\ given' = [e \in Envs |-> [prediction |-> goal[e].prediction,
                                             place |-> current'[e].executed]]
                /\ UNCHANGED chunks
    /\ asked' = [e \in Envs |-> asked[e] + (IF e \in DOMAIN commands THEN 1 ELSE 0)]
    /\ at' = "step"
    /\ UNCHANGED <<config, envVars, previous, conversations, commands, attempts, poolVars>>

(* Outside of _infer: an adapter raises, or its action is not a vector of  *)
(* finite numbers.                                                         *)
ActRaises ==
    /\ at \in {"get action", "act"}
    /\ at' = "raised"
    /\ UNCHANGED <<config, envVars, policyVars, conversations, commands, attempts, poolVars>>

(* Only what is executed is discarded. *)
Forgets_Mutant(ids) ==
    /\ chunks' = [e \in Envs |-> IF e \in ids THEN <<>> ELSE chunks[e]]
    /\ current' = [e \in Envs |-> IF e \in ids THEN None ELSE current[e]]
    /\ UNCHANGED previous

(* reset(env_ids) *)
Forgets(ids) ==
    /\ chunks' = [e \in Envs |-> IF e \in ids THEN <<>> ELSE chunks[e]]
    /\ current' = [e \in Envs |-> IF e \in ids THEN None ELSE current[e]]
    /\ previous' = [e \in Envs |-> IF e \in ids THEN None ELSE previous[e]]

(* The simulation's step; the episodes of some environments end in it, and *)
(* the policy is told.                                                     *)
Step(done) ==
    /\ at = "step"
    /\ \A e \in Envs : steps[e] + 1 = MaxEpisodeLength => e \in done
    /\ \A e \in done : episode[e] + 1 < MaxEpisodes
    /\ episode' = [e \in Envs |-> episode[e] + (IF e \in done THEN 1 ELSE 0)]
    /\ steps' = [e \in Envs |-> IF e \in done THEN 0 ELSE steps[e] + 1]
    /\ Forgets(done)
    /\ asked' = [e \in Envs |-> IF e \in done THEN 0 ELSE asked[e]]
    /\ given' = [e \in Envs |-> IF e \in done THEN None ELSE given[e]]
    /\ at' = "get action"
    /\ conversations' = <<>>
    /\ commands' = <<>>
    /\ UNCHANGED <<config, attempts, poolVars>>

(* close: queued requests are cancelled, running ones are not waited for.  *)
Close ==
    /\ at \in {"get action", "raised"}
    /\ at' = "closed"
    /\ queued' = {}
    /\ UNCHANGED <<config, envVars, policyVars, conversations, commands, attempts,
                   running, tries, finished>>

Worker(e) == Take(e) \/ Answer(e) \/ TryFails(e)

Call == InferRaises \/ Validate \/ Act

Next ==
    \/ GetAction \/ Call \/ AdapterRaises \/ ActRaises \/ Close
    \/ \E e \in Envs : Worker(e)
    \/ \E done \in SUBSET Envs : Step(done)

(* The pool's threads and the caller run; a request to the endpoint comes  *)
(* to an end, as the OpenAI client gives up after its default timeout.     *)
Spec == Init /\ [][Next]_vars /\ WF_vars(Call) /\ \A e \in Envs : WF_vars(Worker(e))

-----------------------------------------------------------------------------
(* The command is of the last prediction made for e in its present episode.*)
IsOwn(e) ==
    /\ given[e].prediction.env = e
    /\ given[e].prediction.episode = episode[e]
    /\ given[e].prediction.number = asked[e]

(* All commands of e's last prediction were given, or its goal has ended   *)
(* after the steps made toward it.                                         *)
UsedUp(e) ==
    IF kind = "chunk" THEN given[e].place = ChunkSize
    ELSE /\ previous[e] # None
         /\ previous[e].of = given[e].prediction
         /\ previous[e].executed = given[e].place

First(command) == command.prediction.number = 1 /\ command.place = 1

NextOfSame(command, last) ==
    /\ command.prediction = last.prediction
    /\ command.place = last.place + 1
    /\ command.place <= IF kind = "chunk" THEN ChunkSize ELSE MaxStepsPerGoal

FirstOfNext(command, last) ==
    /\ command.prediction.number = last.prediction.number + 1
    /\ command.place = 1

(* A call gives every environment the next command of the last prediction  *)
(* made for itself in the present episode, whoever else asked at the same  *)
(* time, in whatever order answers came, and how often they were corrected:*)
(* none is given twice or left out, and a new prediction is begun only     *)
(* when the last one was used up, through all resets and calls in between. *)
OwnPredictionsInOrder ==
    [][at = "act" /\ at' = "step" =>
           \A e \in Envs :
               /\ IsOwn(e)'
               /\ IF given[e] = None THEN First(given'[e])
                  ELSE \/ NextOfSame(given'[e], given[e])
                       \/ UsedUp(e) /\ FirstOfNext(given'[e], given[e])]_vars

(* "Each request after the first reports how the previous goal ended": the *)
(* goal before it, of the same episode; the first request of an episode    *)
(* reports nothing.                                                        *)
PreviousGoalReported ==
    kind = "goal" =>
        \A e \in DOMAIN conversations :
            LET request == conversations[e].asked
                goal == conversations[e].previous
            IN  IF request.number = 1 THEN goal = None
                ELSE /\ goal # None
                     /\ goal.of = [request EXCEPT !.number = @ - 1]
                     /\ goal.executed \in 1 .. MaxStepsPerGoal

(* A call returns or raises: retries and corrections are bounded, and no   *)
(* request is waited for that nobody will answer.                          *)
PredictionCallsEnd == at = "infer" ~> at \in {"step", "raised"}
=============================================================================
