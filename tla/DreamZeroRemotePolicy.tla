------------------------ MODULE DreamZeroRemotePolicy ------------------------
(***************************************************************************)
(* DreamZeroRemotePolicy: the chunk replay of RemoteChunkReplay against a  *)
(* server that keeps a history of observations per session UUID.  The      *)
(* client and the server exchange messages over a websocket that may be    *)
(* lost at any time, the server may lose its histories with it, and the    *)
(* acknowledgement of a reset may come after the client has stopped        *)
(* waiting for it.  The parameters, the state of the replay and its        *)
(* conditions are those of RemoteChunkReplay, the operations are not.      *)
(* An operator named X_..._Mutant is X with a plausible mistake: no        *)
(* behaviour of the specification uses it.                                 *)
(***************************************************************************)
EXTENDS RemoteChunkReplay, Sequences

CONSTANTS
    MaxDrain,                \* _MAX_DRAIN
    InferReplies,            \* what an inference may be answered with
    MaxLosses                \* bound on the connections lost

ASSUME DreamZeroAssumption ==
    /\ MaxDrain \in Nat
    /\ InferReplies \subseteq {"actions", "error"}
    /\ MaxLosses \in Nat
    /\ None \notin Nat

VARIABLES
    ws,            \* a connection is held, open or not: _ws is not None
    link,          \* that connection is open
    sessions,      \* _session_ids
    minted,        \* the UUIDs minted so far
    request,       \* the request of the call in progress
    drained,       \* strings discarded while waiting for its answer
    toServer,      \* messages on their way to the server
    toClient,      \* messages on their way back
    history,       \* per session, the observations the server remembers
    losses         \* connections lost

(* phase is also "calling", "awaiting" an answer, or "resetting".          *)
replayVars == <<episode, clock, cached, nextStep, connection, cursor, attempt, given>>
clientVars == <<phase, ws, sessions, minted, request, drained>>
serverVars == <<link, toServer, toClient, history, losses>>
policyVars == <<replayVars, clientVars, serverVars>>

ChunkReplay == INSTANCE RemoteChunkReplay WITH
    phase <- CASE phase \in {"calling", "awaiting"} -> "serving"
               [] phase = "resetting"               -> "idle"
               [] OTHER                             -> phase

PolicyInit ==
    /\ episode = [e \in Envs |-> 0]
    /\ clock = 0
    /\ cached = [e \in Envs |-> None]
    /\ nextStep = [e \in Envs |-> 0]
    /\ connection = 1
    /\ cursor = 0
    /\ attempt = 0
    /\ given = [e \in Envs |-> None]
    /\ phase = "idle"
    /\ ws = TRUE
    /\ link = TRUE
    /\ sessions = [e \in Envs |-> None]
    /\ minted = 0
    /\ request = None
    /\ drained = 0
    /\ toServer = <<>>
    /\ toClient = <<>>
    /\ history = <<>>
    /\ losses = 0

-----------------------------------------------------------------------------
(* The server, and what may happen to the connection. *)

Observation(message) == [env |-> message.env, episode |-> message.episode, at |-> message.at]

HistoryOf(session) == IF session \in DOMAIN history THEN history[session] ELSE <<>>

ServeInfer ==
    /\ toServer # <<>>
    /\ Head(toServer).kind = "infer"
    /\ LET message == Head(toServer)
       IN  /\ history' = [s \in DOMAIN history \cup {message.session} |->
                             IF s = message.session
                             THEN Append(HistoryOf(s), Observation(message)) ELSE history[s]]
           /\ \E reply \in InferReplies :
                  toClient' = Append(toClient, [kind |-> reply, of |-> Observation(message)])
    /\ toServer' = Tail(toServer)
    /\ UNCHANGED <<replayVars, clientVars, link, losses>>

ServeReset ==
    /\ toServer # <<>>
    /\ Head(toServer).kind = "reset"
    /\ history' = [s \in DOMAIN history \ Head(toServer).sessions |-> history[s]]
    /\ toClient' = Append(toClient, [kind |-> "acknowledged"])
    /\ toServer' = Tail(toServer)
    /\ UNCHANGED <<replayVars, clientVars, link, losses>>

(* What reached the client can still be read, what did not is lost, and    *)
(* the server may have been restarted.                                     *)
LoseConnection ==
    /\ link
    /\ phase # "closed"
    /\ losses < MaxLosses
    /\ losses' = losses + 1
    /\ link' = FALSE
    /\ toServer' = <<>>
    /\ \E n \in 0 .. Len(toClient) : toClient' = SubSeq(toClient, 1, n)
    /\ history' \in {history, <<>>}
    /\ UNCHANGED <<replayVars, clientVars>>

-----------------------------------------------------------------------------
StartCall ==
    /\ ws
    /\ phase = "idle"
    /\ clock < MaxSteps
    /\ phase' = "serving"
    /\ cursor' = 0
    /\ attempt' = 0
    /\ UNCHANGED <<episode, clock, cached, nextStep, connection, given,
                   ws, sessions, minted, request, drained, serverVars>>

GiveAction(chunk, row) ==
    /\ given' = [given EXCEPT ![cursor] = [chunk |-> chunk, row |-> row]]
    /\ cached' = [cached EXCEPT ![cursor] = chunk]
    /\ nextStep' = [nextStep EXCEPT ![cursor] = row + 1]
    /\ cursor' = cursor + 1
    /\ attempt' = 0
    /\ UNCHANGED <<episode, clock, connection>>

ReplayAction ==
    /\ Serving
    /\ ~ Exhausted(cursor)
    /\ GiveAction(cached[cursor], nextStep[cursor])
    /\ UNCHANGED <<clientVars, serverVars>>

(* _get_or_create_session_id, as the sessions are in known. *)
SessionIn(known, env) == IF known[env] = None THEN minted + 1 ELSE known[env]

Request(session) ==
    [kind |-> "infer", session |-> session,
     env |-> cursor, episode |-> episode[cursor], at |-> clock]

BuildRequest ==
    /\ Serving
    /\ Exhausted(cursor)
    /\ LET session == SessionIn(sessions, cursor)
       IN  /\ sessions' = [sessions EXCEPT ![cursor] = session]
           /\ minted' = IF session > minted THEN session ELSE minted
           /\ request' = Request(session)
    /\ phase' = "calling"
    /\ UNCHANGED <<replayVars, ws, drained, serverVars>>

SendRequest ==
    /\ phase = "calling"
    /\ ws
    /\ link
    /\ toServer' = Append(toServer, request)
    /\ phase' = "awaiting"
    /\ drained' = 0
    /\ UNCHANGED <<replayVars, ws, sessions, minted, request, link, toClient, history, losses>>

Receives(kinds) ==
    /\ toClient # <<>>
    /\ Head(toClient).kind \in kinds
    /\ toClient' = Tail(toClient)
    /\ UNCHANGED <<link, toServer, history, losses>>

ReceiveActions ==
    /\ phase = "awaiting"
    /\ Receives({"actions"})
    /\ LET of == Head(toClient).of
       IN  GiveAction([env |-> of.env, episode |-> of.episode, at |-> of.at,
                 connection |-> connection], 0)
    /\ phase' = "serving"
    /\ request' = None
    /\ UNCHANGED <<ws, sessions, minted, drained>>

(* Any message may be discarded. *)
Strings_Mutant == {"acknowledged", "error", "actions"}

Strings == {"acknowledged", "error"}

(* A string is taken for a late acknowledgement, and discarded; the one    *)
(* after the last that may be discarded is taken for an error.             *)
ReceiveString ==
    /\ phase = "awaiting"
    /\ Receives(Strings)
    /\ IF drained < MaxDrain
       THEN drained' = drained + 1 /\ UNCHANGED phase
       ELSE phase' = "failed" /\ UNCHANGED drained
    /\ UNCHANGED <<replayVars, ws, sessions, minted, request>>

(* The chunk is shorter than the horizon. *)
ReceiveShortChunk ==
    /\ phase = "awaiting"
    /\ Receives({"actions"})
    /\ phase' = "failed"
    /\ UNCHANGED <<replayVars, ws, sessions, minted, request, drained>>

(* ConnectionClosed or OSError from send or recv, which still returns what *)
(* was received before; or there is no connection.                         *)
CallFails ==
    \/ phase = "calling" /\ (~ ws \/ ~ link)
    \/ phase = "awaiting" /\ ~ link /\ toClient = <<>>

(* The request keeps the session it was built with. *)
RetriedSession_Mutant(session) == request.session

RetriedSession(session) == session

(* The connection is closed and a new one is tried for RECONNECT_WAIT_S.   *)
LoseRequest ==
    /\ CallFails
    /\ attempt + 1 < MaxReconnectAttempts
    /\ attempt' = attempt + 1
    /\ phase' = "connecting"
    /\ ws' = FALSE
    /\ link' = FALSE
    /\ toServer' = <<>>
    /\ toClient' = <<>>
    /\ UNCHANGED <<episode, clock, cached, nextStep, connection, cursor, given,
                   sessions, minted, request, drained, history, losses>>

(* All sessions and chunks are invalidated, a session is minted for the    *)
(* retry.  When no connection could be made in time, the next attempt      *)
(* fails at once.                                                          *)
ReconnectPolicy ==
    /\ phase = "connecting"
    /\ connection' = NextConnection
    /\ cached' = [e \in Envs |-> None]
    /\ nextStep' = [e \in Envs |-> 0]
    /\ LET session == SessionIn([e \in Envs |-> None], cursor)
       IN  /\ sessions' = [e \in Envs |-> IF e = cursor THEN session ELSE None]
           /\ minted' = session
           /\ request' = [request EXCEPT !.session = RetriedSession(session)]
    /\ ws' \in BOOLEAN
    /\ link' = ws'
    /\ toServer' = <<>>
    /\ toClient' = <<>>
    /\ phase' = "calling"
    /\ UNCHANGED <<episode, clock, cursor, attempt, given, drained, history, losses>>

(* The handshake of the new connection fails in a way that is not          *)
(* suppressed.                                                             *)
ReconnectRaises ==
    /\ phase = "connecting"
    /\ phase' = "failed"
    /\ UNCHANGED <<replayVars, ws, sessions, minted, request, drained, serverVars>>

GiveUpRequest ==
    /\ CallFails
    /\ attempt + 1 >= MaxReconnectAttempts
    /\ phase' = "failed"
    /\ UNCHANGED <<replayVars, ws, sessions, minted, request, drained, serverVars>>

-----------------------------------------------------------------------------
(* The chunks in progress are played to their end. *)
ClearedEnvs_Mutant(ids) == {}

ClearedEnvs(ids) == ids

(* get_action returns, the rollout steps the environment and resets the    *)
(* policy where episodes started: reset clears what the client knows, then *)
(* sends the sessions to the server if there are any, and if it can.       *)
StepPolicy(ids) ==
    /\ phase = "serving"
    /\ cursor = NumEnvs
    /\ clock' = clock + 1
    /\ given' = [e \in Envs |-> None]
    /\ episode' = [e \in Envs |-> IF e \in ids THEN episode[e] + 1 ELSE episode[e]]
    /\ cached' = [e \in Envs |-> IF e \in ClearedEnvs(ids) THEN None ELSE cached[e]]
    /\ nextStep' = [e \in Envs |-> IF e \in ClearedEnvs(ids) THEN 0 ELSE nextStep[e]]
    /\ sessions' = [e \in Envs |-> IF e \in ids THEN None ELSE sessions[e]]
    /\ LET uuids == {sessions[e] : e \in ids} \ {None}
       IN  IF uuids # {} /\ ws /\ link
           THEN /\ toServer' = Append(toServer, [kind |-> "reset", sessions |-> uuids])
                /\ phase' = "resetting"
           ELSE /\ phase' = "idle"
                /\ UNCHANGED toServer
    /\ UNCHANGED <<connection, cursor, attempt, ws, minted, request, drained,
                   link, toClient, history, losses>>

(* _send_reset reads one message, whichever it is. *)
ResetAcknowledged ==
    /\ phase = "resetting"
    /\ Receives({"acknowledged", "actions", "error"})
    /\ phase' = "idle"
    /\ UNCHANGED <<replayVars, ws, sessions, minted, request, drained>>

(* Sixty seconds went by, or the connection was lost: both are suppressed. *)
ResetUnacknowledged ==
    /\ phase = "resetting"
    /\ toClient = <<>>
    /\ phase' = "idle"
    /\ UNCHANGED <<replayVars, ws, sessions, minted, request, drained, serverVars>>

(* close resets all sessions of the server, if it can. *)
ClosePolicy ==
    /\ phase \in {"idle", "failed"}
    /\ phase' = "closed"
    /\ ws' = FALSE
    /\ link' = FALSE
    /\ toServer' = <<>>
    /\ toClient' = <<>>
    /\ history' \in {history, <<>>}
    /\ UNCHANGED <<replayVars, sessions, minted, request, drained, losses>>

PolicyNext ==
    \/ ServeInfer
    \/ ServeReset
    \/ LoseConnection
    \/ StartCall
    \/ ReplayAction
    \/ BuildRequest
    \/ SendRequest
    \/ ReceiveActions
    \/ ReceiveString
    \/ ReceiveShortChunk
    \/ LoseRequest
    \/ ReconnectPolicy
    \/ ReconnectRaises
    \/ GiveUpRequest
    \/ \E ids \in SUBSET Envs : StepPolicy(ids)
    \/ ResetAcknowledged
    \/ ResetUnacknowledged
    \/ ClosePolicy

PolicySpec == PolicyInit /\ [][PolicyNext]_policyVars

-----------------------------------------------------------------------------
(* What the server remembers of a session was seen by one environment in   *)
(* one episode, each observation once and in order.                        *)
HistoriesApart ==
    \A s \in DOMAIN history : \A i, j \in DOMAIN history[s] :
        i < j => /\ history[s][i].env = history[s][j].env
                 /\ history[s][i].episode = history[s][j].episode
                 /\ history[s][i].at < history[s][j].at

(* The server's memory is in step with the chunk being replayed: the       *)
(* session of an environment ends with the observation its chunk was       *)
(* planned from, whatever resets of other sessions are on their way.       *)
HistoryInStep ==
    phase \in {"idle", "resetting"} /\ link =>
        \A e \in Envs : cached[e] # None =>
            /\ sessions[e] \in DOMAIN history
            /\ LET seen == history[sessions[e]]
               IN  seen # <<>> /\ seen[Len(seen)] =
                       [env |-> cached[e].env, episode |-> cached[e].episode, at |-> cached[e].at]

(* "Each parallel environment gets its own UUID so their histories do not  *)
(* mix": a session remembers what its environment has seen in its present  *)
(* episode, and no more, through retries, resets and reconnections.        *)
HistoriesDoNotMix == HistoriesApart /\ HistoryInStep

(* While the client waits on an open connection, the answer it waits for   *)
(* is due: it does not wait for ever for one it has discarded.             *)
AnswerIsDue ==
    phase = "awaiting" /\ link =>
        \/ \E i \in DOMAIN toServer : toServer[i] = request
        \/ \E i \in DOMAIN toClient :
               toClient[i].kind = "actions" /\ toClient[i].of = Observation(request)

(* Sessions and connections aside, the policy is a chunk replay policy.    *)
ReplaysChunks == ChunkReplay!Spec

(* "Drain any stale reset acknowledgement strings": what is discarded      *)
(* while an answer is awaited is an acknowledgement.                       *)
DrainsOnlyAcknowledgements ==
    [][drained' > drained => Head(toClient).kind = "acknowledged"]_policyVars
=============================================================================
