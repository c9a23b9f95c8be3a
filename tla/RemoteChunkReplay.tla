-------------------------- MODULE RemoteChunkReplay --------------------------
(***************************************************************************)
(* RemoteChunkReplayPolicy, the base of the pi0 and Cosmos policies: each  *)
(* environment replays the first open_loop_horizon actions of a chunk the  *)
(* inference server planned for it, the rollout steps and resets between   *)
(* the calls, and the connection is lost and made again in any of them.    *)
(* A chunk is abstracted to the observation it was planned from (whose,    *)
(* of which episode, after how many control steps) and the connection      *)
(* that brought it.                                                        *)
(* An operator named X_..._Mutant is X with a plausible mistake: no        *)
(* behaviour of the specification uses it.                                 *)
(***************************************************************************)
EXTENDS Integers

CONSTANTS
    NumEnvs,                 \* env.unwrapped.num_envs
    OpenLoopHorizon,         \* open_loop_horizon
    MaxReconnectAttempts,    \* MAX_RECONNECT_ATTEMPTS
    MaxSteps,                \* bound on the control steps of the rollout
    MaxConnections,          \* bound on the numbers of the connections
    None                     \* no chunk is cached, no action was given

ASSUME RemoteAssumption ==
    /\ NumEnvs \in Nat \ {0}
    /\ OpenLoopHorizon \in Nat \ {0}
    /\ MaxReconnectAttempts \in Nat \ {0}
    /\ MaxSteps \in Nat
    /\ MaxConnections \in Nat \ {0}

Envs == 0 .. NumEnvs - 1

Chunks == [env : Envs, episode : Nat, at : Nat, connection : Nat]
Actions == [chunk : Chunks, row : 0 .. OpenLoopHorizon - 1]

ASSUME NoneAssumption == None \notin Chunks \cup Actions

VARIABLES
    episode,       \* the episode each environment is in
    clock,         \* the control steps made
    cached,        \* _cached_action_chunks
    nextStep,      \* _next_chunk_steps
    connection,    \* the connections made so far: the last is _websocket_client
    phase,         \* "idle", in get_action "serving" or "connecting" anew,
                   \* "failed" or "closed"
    cursor,        \* the environment get_action has come to
    attempt,       \* attempts of the call of the server that failed
    given          \* the actions of this control step

vars == <<episode, clock, cached, nextStep, connection, phase, cursor, attempt, given>>

Init ==
    /\ episode = [e \in Envs |-> 0]
    /\ clock = 0
    /\ cached = [e \in Envs |-> None]
    /\ nextStep = [e \in Envs |-> 0]
    /\ connection = 1
    /\ phase = "idle"
    /\ cursor = 0
    /\ attempt = 0
    /\ given = [e \in Envs |-> None]

-----------------------------------------------------------------------------
GetAction ==
    /\ phase = "idle"
    /\ clock < MaxSteps
    /\ phase' = "serving"
    /\ cursor' = 0
    /\ attempt' = 0
    /\ UNCHANGED <<episode, clock, cached, nextStep, connection, given>>

Exhausted(env) == cached[env] = None \/ nextStep[env] >= OpenLoopHorizon

Serving == phase = "serving" /\ cursor \in Envs

(* The position does not move. *)
RowAfter_Mutant(row) == row

RowAfter(row) == row + 1

(* The next action of the chunk is given and the loop goes on.             *)
Give(chunk, row) ==
    /\ given' = [given EXCEPT ![cursor] = [chunk |-> chunk, row |-> row]]
    /\ cached' = [cached EXCEPT ![cursor] = chunk]
    /\ nextStep' = [nextStep EXCEPT ![cursor] = RowAfter(row)]
    /\ cursor' = cursor + 1
    /\ attempt' = 0
    /\ UNCHANGED <<episode, clock, connection, phase>>

Replay ==
    /\ Serving
    /\ ~ Exhausted(cursor)
    /\ Give(cached[cursor], nextStep[cursor])

Planned == [env |-> cursor, episode |-> episode[cursor], at |-> clock, connection |-> connection]

(* The server answers with a chunk. *)
Infer ==
    /\ Serving
    /\ Exhausted(cursor)
    /\ Give(Planned, 0)

(* Only the environment that was being served loses its chunk. *)
FlushedEnvs_Mutant == {cursor}

FlushedEnvs == Envs

(* The numbers of the last two connections alternate past the bound.       *)
NextConnection ==
    IF connection < MaxConnections THEN connection + 1 ELSE MaxConnections - 1

(* Every connection is granted all attempts. *)
Failed_Mutant == 0

Failed == attempt + 1

(* The connection is lost and attempts are left: the client connects anew, *)
(* which it tries every five seconds for as long as the server refuses.    *)
LoseAttempt ==
    /\ Serving
    /\ Exhausted(cursor)
    /\ Failed < MaxReconnectAttempts
    /\ attempt' = Failed
    /\ phase' = "connecting"
    /\ UNCHANGED <<episode, clock, cached, nextStep, connection, cursor, given>>

(* A new connection flushes the chunks of every environment, then the call *)
(* is made again with the observation it had.                              *)
Reconnect ==
    /\ phase = "connecting"
    /\ phase' = "serving"
    /\ connection' = NextConnection
    /\ cached' = [e \in Envs |-> IF e \in FlushedEnvs THEN None ELSE cached[e]]
    /\ nextStep' = [e \in Envs |-> IF e \in FlushedEnvs THEN 0 ELSE nextStep[e]]
    /\ UNCHANGED <<episode, clock, cursor, attempt, given>>

(* The new connection fails in another way than by being refused.          *)
ConnectRaises ==
    /\ phase = "connecting"
    /\ phase' = "failed"
    /\ UNCHANGED <<episode, clock, cached, nextStep, connection, cursor, attempt, given>>

(* The connection is lost in the last attempt.                             *)
GiveUp ==
    /\ Serving
    /\ Exhausted(cursor)
    /\ Failed >= MaxReconnectAttempts
    /\ phase' = "failed"
    /\ UNCHANGED <<episode, clock, cached, nextStep, connection, cursor, attempt, given>>

(* The answer is not a chunk of the right shape: it is not tried again.    *)
CallRaises ==
    /\ Serving
    /\ Exhausted(cursor)
    /\ phase' = "failed"
    /\ UNCHANGED <<episode, clock, cached, nextStep, connection, cursor, attempt, given>>

(* The environments that did not start an episode lose their chunks. *)
ResetEnvs_Mutant(ids) == Envs \ ids

(* The ids rollout_policy hands to policy.reset. *)
ResetEnvs(ids) == ids

(* get_action returns; the rollout steps the environment, in which the     *)
(* episodes of some environments end and others start, and resets the      *)
(* policy for those.                                                       *)
Step(ids) ==
    /\ phase = "serving"
    /\ cursor = NumEnvs
    /\ phase' = "idle"
    /\ clock' = clock + 1
    /\ given' = [e \in Envs |-> None]
    /\ episode' = [e \in Envs |-> IF e \in ids THEN episode[e] + 1 ELSE episode[e]]
    /\ cached' = [e \in Envs |-> IF e \in ResetEnvs(ids) THEN None ELSE cached[e]]
    /\ nextStep' = [e \in Envs |-> IF e \in ResetEnvs(ids) THEN 0 ELSE nextStep[e]]
    /\ UNCHANGED <<connection, cursor, attempt>>

(* The rollout is over, or has raised.                                     *)
Close ==
    /\ phase \in {"idle", "failed"}
    /\ phase' = "closed"
    /\ UNCHANGED <<episode, clock, cached, nextStep, connection, cursor, attempt, given>>

Next ==
    \/ GetAction
    \/ Replay
    \/ Infer
    \/ LoseAttempt
    \/ Reconnect
    \/ ConnectRaises
    \/ GiveUp
    \/ CallRaises
    \/ \E ids \in SUBSET Envs : Step(ids)
    \/ Close

Spec == Init /\ [][Next]_vars

(* Each attempt ends: the keepalive pings close a connection whose server  *)
(* is gone.  Nothing makes it end well, and nothing makes a server come    *)
(* back that refuses connections: neither way out of that wait is fair.    *)
FairSpec == Spec /\ WF_vars(Replay \/ Infer \/ LoseAttempt \/ GiveUp \/ Step({}))

-----------------------------------------------------------------------------
(* Every variable keeps its type.                                          *)
TypeOK ==
    /\ episode \in [Envs -> Nat]
    /\ clock \in Nat
    /\ cached \in [Envs -> Chunks \cup {None}]
    /\ nextStep \in [Envs -> 0 .. OpenLoopHorizon]
    /\ connection \in Nat
    /\ phase \in {"idle", "serving", "connecting", "failed", "closed"}
    /\ cursor \in 0 .. NumEnvs
    /\ attempt \in 0 .. MaxReconnectAttempts - 1
    /\ given \in [Envs -> Actions \cup {None}]

(* No environment acts on what it saw in an episode that is over, or on    *)
(* what another environment saw.                                           *)
ActionsOfTheEpisode ==
    \A e \in Envs : given[e] # None =>
        given[e].chunk.env = e /\ given[e].chunk.episode = episode[e]

(* The actions of a chunk are given one per control step, in order and     *)
(* without a gap, and none beyond the horizon: the k-th is given k steps   *)
(* after its observation.                                                  *)
RowsFollowTheClock ==
    \A e \in Envs : given[e] # None =>
        /\ given[e].row = clock - given[e].chunk.at
        /\ given[e].row < OpenLoopHorizon

(* "the reconnected server may have lost state": no chunk of an earlier    *)
(* connection is left to replay, also not one fetched earlier in the call. *)
NoChunkOutlivesItsConnection ==
    \A e \in Envs : cached[e] # None => cached[e].connection = connection

(* A call of the policy returns or raises, however often the connection is *)
(* lost, unless it waits for ever for a server that refuses connections:   *)
(* its attempts are counted over the reconnections.                        *)
CallsReturn ==
    \/ phase \in {"serving", "connecting"} ~> phase \in {"idle", "failed"}
    \/ <>[](phase = "connecting")
=============================================================================
