---------------------- MODULE RemotePolicies_proof ----------------------
(***************************************************************************)
(* The safety of the policies that replay chunks of a server, for any      *)
(* environments, horizon and number of attempts: of RemoteChunkReplay, and *)
(* of DreamZeroRemotePolicy, which implements it.                          *)
(***************************************************************************)
EXTENDS DreamZeroRemotePolicy, SequenceTheorems, TLAPS

(* What both policies assume of their parameters.                          *)
LEMMA RemoteFacts ==
    /\ NumEnvs \in Nat \ {0} /\ OpenLoopHorizon \in Nat \ {0}
    /\ MaxReconnectAttempts \in Nat \ {0} /\ MaxConnections \in Nat \ {0}
    /\ None \notin Chunks \cup Actions
BY RemoteAssumption, NoneAssumption

(* How many actions of e's chunk were taken, were its last one given now. *)
Taken(e) == IF given[e] # None THEN 1 ELSE 0

(* A cached chunk is one of its environment and its present episode, and   *)
(* the position in it counts the control steps since its observation; the  *)
(* call has served the environments before the cursor, and outside a call  *)
(* no action is pending.                                                   *)
ChunkFits(e) ==
    cached[e] # None =>
        /\ cached[e].env = e
        /\ cached[e].episode = episode[e]
        /\ nextStep[e] = clock - cached[e].at + Taken(e)

GivenInTurn ==
    /\ phase = "idle" => \A e \in Envs : given[e] = None
    /\ phase \in {"serving", "connecting"} => \A e \in Envs : given[e] # None <=> e < cursor

ReplayInv ==
    /\ TypeOK
    /\ ActionsOfTheEpisode
    /\ RowsFollowTheClock
    /\ NoChunkOutlivesItsConnection
    /\ \A e \in Envs : ChunkFits(e)
    /\ GivenInTurn

LEMMA ReplayInvInit == Init => ReplayInv
BY RemoteFacts
DEF Init, ReplayInv, TypeOK, ActionsOfTheEpisode,
    RowsFollowTheClock, NoChunkOutlivesItsConnection,
    ChunkFits, GivenInTurn, Envs

(* What an action of get_action gives keeps the invariant if it continues  *)
(* the chunk in time, whichever chunk that is.                             *)
LEMMA GiveKeeps ==
    ASSUME ReplayInv, Serving,
           NEW chunk \in Chunks, NEW row \in 0 .. OpenLoopHorizon - 1,
           chunk.env = cursor, chunk.episode = episode[cursor], chunk.connection = connection,
           row = clock - chunk.at, Give(chunk, row)
    PROVE  ReplayInv'
<1> DEFINE action == [chunk |-> chunk, row |-> row]
<1>1. /\ cursor \in Envs /\ phase = "serving"
      /\ cursor' = cursor + 1 /\ cursor + 1 \in 0 .. NumEnvs
    BY RemoteFacts DEF Serving, Give, Envs
<1>2. action \in Actions /\ action # None /\ chunk # None
    BY RemoteFacts DEF Actions
<1>3. /\ given' = [given EXCEPT ![cursor] = action]
      /\ cached' = [cached EXCEPT ![cursor] = chunk]
      /\ nextStep' = [nextStep EXCEPT ![cursor] = row + 1]
      /\ attempt' = 0
      /\ UNCHANGED <<episode, clock, connection, phase>>
    BY DEF Give, RowAfter
<1>4. row + 1 \in 0 .. OpenLoopHorizon
    BY RemoteFacts
<1>5. action.chunk = chunk /\ action.row = row
    OBVIOUS
<1> HIDE DEF action
<1>6. TypeOK'
    BY <1>1, <1>2, <1>3, <1>4, RemoteFacts DEF ReplayInv, TypeOK
<1>7. /\ given'[cursor] = action /\ cached'[cursor] = chunk /\ nextStep'[cursor] = row + 1
      /\ \A e \in Envs \ {cursor} :
            given'[e] = given[e] /\ cached'[e] = cached[e] /\ nextStep'[e] = nextStep[e]
    BY <1>1, <1>3 DEF ReplayInv, TypeOK
<1>8. ActionsOfTheEpisode'
    <2> SUFFICES ASSUME NEW e \in Envs, given'[e] # None
                 PROVE  given'[e].chunk.env = e /\ given'[e].chunk.episode = episode'[e]
        BY DEF ActionsOfTheEpisode
    <2>1. CASE e = cursor BY <2>1, <1>3, <1>5, <1>7
    <2>2. CASE e # cursor BY <2>2, <1>3, <1>7 DEF ReplayInv, ActionsOfTheEpisode
    <2> QED BY <2>1, <2>2
<1>9. RowsFollowTheClock'
    <2> SUFFICES ASSUME NEW e \in Envs, given'[e] # None
                 PROVE  /\ given'[e].row = clock' - given'[e].chunk.at
                        /\ given'[e].row < OpenLoopHorizon
        BY DEF RowsFollowTheClock
    <2>1. CASE e = cursor
        <3>1. row < OpenLoopHorizon
            BY RemoteFacts
        <3> QED BY <2>1, <3>1, <1>3, <1>5, <1>7
    <2>2. CASE e # cursor BY <2>2, <1>3, <1>7 DEF ReplayInv, RowsFollowTheClock
    <2> QED BY <2>1, <2>2
<1>10. NoChunkOutlivesItsConnection'
    <2> SUFFICES ASSUME NEW e \in Envs, cached'[e] # None
                 PROVE  cached'[e].connection = connection'
        BY DEF NoChunkOutlivesItsConnection
    <2>1. CASE e = cursor BY <2>1, <1>3, <1>7
    <2>2. CASE e # cursor BY <2>2, <1>3, <1>7 DEF ReplayInv, NoChunkOutlivesItsConnection
    <2> QED BY <2>1, <2>2
<1>11. ASSUME NEW e \in Envs PROVE ChunkFits(e)'
    <2>1. CASE e = cursor
        <3>1. Taken(e)' = 1
            BY <2>1, <1>2, <1>7 DEF Taken
        <3> QED BY <2>1, <3>1, <1>3, <1>7 DEF ChunkFits
    <2>2. CASE e # cursor
        <3>1. Taken(e)' = Taken(e)
            BY <2>2, <1>7 DEF Taken
        <3>2. ChunkFits(e)
            BY DEF ReplayInv
        <3> QED BY <2>2, <3>1, <3>2, <1>3, <1>7 DEF ChunkFits
    <2> QED BY <2>1, <2>2
<1>12. GivenInTurn'
    <2>1. phase' = "serving"
        BY <1>1, <1>3
    <2> SUFFICES ASSUME NEW e \in Envs PROVE given'[e] # None <=> e < cursor'
        BY <2>1 DEF GivenInTurn
    <2>2. CASE e = cursor BY <2>2, <1>1, <1>2, <1>7 DEF Envs
    <2>3. CASE e # cursor
        <3>1. given[e] # None <=> e < cursor
            BY <1>1 DEF ReplayInv, GivenInTurn
        <3>2. e < cursor <=> e < cursor + 1
            BY <2>3, <1>1 DEF Envs
        <3> QED BY <2>3, <3>1, <3>2, <1>1, <1>7
    <2> QED BY <2>2, <2>3
<1> QED BY <1>6, <1>8, <1>9, <1>10, <1>11, <1>12 DEF ReplayInv

(* A cached chunk with actions left is continued.                          *)
LEMMA ReplayKeeps == ReplayInv /\ Replay => ReplayInv'
<1> SUFFICES ASSUME ReplayInv, Replay PROVE ReplayInv'
    OBVIOUS
<1>1. Serving /\ cursor \in Envs /\ phase = "serving"
    BY DEF Replay, Serving
<1>2. cached[cursor] # None /\ nextStep[cursor] < OpenLoopHorizon
    BY <1>1, RemoteFacts DEF Replay, Exhausted, ReplayInv, TypeOK
<1>3. cached[cursor] \in Chunks /\ nextStep[cursor] \in 0 .. OpenLoopHorizon - 1
    BY <1>1, <1>2, RemoteFacts DEF ReplayInv, TypeOK
<1>4. given[cursor] = None
    BY <1>1 DEF ReplayInv, GivenInTurn, Envs
<1>5. /\ cached[cursor].env = cursor
      /\ cached[cursor].episode = episode[cursor]
      /\ nextStep[cursor] = clock - cached[cursor].at + Taken(cursor)
    BY <1>1, <1>2 DEF ReplayInv, ChunkFits
<1>6. nextStep[cursor] = clock - cached[cursor].at
    BY <1>3, <1>4, <1>5 DEF Taken, Chunks, ReplayInv, TypeOK
<1>7. cached[cursor].connection = connection
    BY <1>1, <1>2 DEF ReplayInv, NoChunkOutlivesItsConnection
<1>8. Give(cached[cursor], nextStep[cursor])
    BY DEF Replay
<1> QED BY <1>1, <1>3, <1>5, <1>6, <1>7, <1>8, GiveKeeps

(* A new chunk starts with the observation just made.                      *)
LEMMA InferKeeps == ReplayInv /\ Infer => ReplayInv'
<1> SUFFICES ASSUME ReplayInv, Infer PROVE ReplayInv'
    OBVIOUS
<1> DEFINE planned == Planned
<1>1. Serving /\ cursor \in Envs /\ Give(planned, 0)
    BY DEF Infer, Serving
<1>2. /\ planned \in Chunks
      /\ planned.env = cursor
      /\ planned.episode = episode[cursor]
      /\ planned.connection = connection
      /\ planned.at = clock
    BY <1>1 DEF Planned, Chunks, ReplayInv, TypeOK
<1>3. \E row \in 0 .. OpenLoopHorizon - 1 : row = clock - planned.at /\ Give(planned, row)
    <2>1. 0 \in 0 .. OpenLoopHorizon - 1 /\ 0 = clock - planned.at
        BY <1>2, RemoteFacts DEF ReplayInv, TypeOK
    <2> QED BY <1>1, <2>1
<1> HIDE DEF planned
<1>4. PICK row \in 0 .. OpenLoopHorizon - 1 : row = clock - planned.at /\ Give(planned, row)
    BY <1>3
<1> QED BY <1>1, <1>2, <1>4, GiveKeeps

(* A reconnection leaves no chunk of any environment.                      *)
LEMMA ReconnectKeeps == ReplayInv /\ Reconnect => ReplayInv'
<1> SUFFICES ASSUME ReplayInv, Reconnect PROVE ReplayInv'
    OBVIOUS
<1>1. /\ \A e \in Envs : cached'[e] = None
      /\ phase = "connecting" /\ phase' = "serving"
      /\ UNCHANGED <<episode, clock, cursor, attempt, given>>
    BY DEF Reconnect, FlushedEnvs
<1>2. connection' \in Nat
    BY RemoteFacts DEF Reconnect, NextConnection, ReplayInv, TypeOK
<1>3. attempt' \in 0 .. MaxReconnectAttempts - 1
    BY <1>1 DEF ReplayInv, TypeOK
<1>4. /\ cached' \in [Envs -> Chunks \cup {None}]
      /\ nextStep' \in [Envs -> 0 .. OpenLoopHorizon]
    BY RemoteFacts DEF Reconnect, FlushedEnvs
<1>5. TypeOK'
    BY <1>1, <1>2, <1>3, <1>4 DEF ReplayInv, TypeOK
<1>6. ActionsOfTheEpisode' /\ RowsFollowTheClock'
    BY <1>1 DEF ReplayInv, ActionsOfTheEpisode, RowsFollowTheClock
<1>7. NoChunkOutlivesItsConnection' /\ \A e \in Envs : ChunkFits(e)'
    BY <1>1 DEF NoChunkOutlivesItsConnection, ChunkFits
<1>8. GivenInTurn'
    BY <1>1 DEF ReplayInv, GivenInTurn
<1> QED BY <1>5, <1>6, <1>7, <1>8 DEF ReplayInv

(* An attempt that failed is counted, and is not the last.                 *)
LEMMA LoseAttemptKeeps == ReplayInv /\ LoseAttempt => ReplayInv'
<1> SUFFICES ASSUME ReplayInv, LoseAttempt PROVE ReplayInv'
    OBVIOUS
<1>1. /\ phase = "serving" /\ phase' = "connecting"
      /\ UNCHANGED <<episode, clock, cached, nextStep, connection, cursor, given>>
    BY DEF LoseAttempt, Serving
<1>2. attempt' \in 0 .. MaxReconnectAttempts - 1
    BY RemoteFacts DEF LoseAttempt, Failed, ReplayInv, TypeOK
<1> QED
    BY <1>1, <1>2 DEF ReplayInv, TypeOK, ActionsOfTheEpisode, RowsFollowTheClock,
        NoChunkOutlivesItsConnection, ChunkFits, Taken, GivenInTurn

(* The clock advances when every environment was given its action, and the *)
(* environments that start an episode lose their chunks.                   *)
LEMMA StepKeeps ==
    ASSUME NEW ids \in SUBSET Envs, ReplayInv, Step(ids) PROVE ReplayInv'
<1>1. /\ phase = "serving" /\ cursor = NumEnvs /\ phase' = "idle"
      /\ clock' = clock + 1
      /\ UNCHANGED <<connection, cursor, attempt>>
    BY DEF Step
<1>2. \A e \in Envs : given[e] # None /\ given'[e] = None
    BY <1>1, RemoteFacts DEF Step, ReplayInv, GivenInTurn, Envs
<1>3. \A e \in Envs :
        \/ cached'[e] = None /\ nextStep'[e] = 0
        \/ /\ cached'[e] = cached[e]
           /\ nextStep'[e] = nextStep[e]
           /\ episode'[e] = episode[e]
    BY DEF Step, ResetEnvs, ReplayInv, TypeOK
<1>4. TypeOK'
    <2>1. /\ episode' \in [Envs -> Nat]
          /\ cached' \in [Envs -> Chunks \cup {None}]
          /\ nextStep' \in [Envs -> 0 .. OpenLoopHorizon]
          /\ given' \in [Envs -> Actions \cup {None}]
        BY RemoteFacts DEF Step, ResetEnvs, ReplayInv, TypeOK
    <2> QED BY <1>1, <2>1 DEF ReplayInv, TypeOK
<1>5. ActionsOfTheEpisode' /\ RowsFollowTheClock'
    BY <1>2 DEF ActionsOfTheEpisode, RowsFollowTheClock
<1>6. NoChunkOutlivesItsConnection'
    BY <1>1, <1>3 DEF ReplayInv, NoChunkOutlivesItsConnection
<1>7. ASSUME NEW e \in Envs, cached'[e] # None
      PROVE  /\ cached'[e].env = e
             /\ cached'[e].episode = episode'[e]
             /\ nextStep'[e] = clock' - cached'[e].at + Taken(e)'
    <2>1. cached'[e] = cached[e] /\ nextStep'[e] = nextStep[e] /\ episode'[e] = episode[e]
        BY <1>3, <1>7
    <2>2. /\ cached[e].env = e
          /\ cached[e].episode = episode[e]
          /\ nextStep[e] = clock - cached[e].at + Taken(e)
        BY <1>7, <2>1 DEF ReplayInv, ChunkFits
    <2>3. Taken(e) = 1 /\ Taken(e)' = 0
        BY <1>2 DEF Taken
    <2>4. cached[e].at \in Nat /\ clock \in Nat
        BY <1>7, <2>1 DEF ReplayInv, TypeOK, Chunks
    <2> QED BY <1>1, <2>1, <2>2, <2>3, <2>4
<1>8. \A e \in Envs : ChunkFits(e)'
    BY <1>7 DEF ChunkFits
<1>9. GivenInTurn'
    BY <1>1, <1>2 DEF GivenInTurn
<1> QED BY <1>4, <1>5, <1>6, <1>8, <1>9 DEF ReplayInv

LEMMA ReplayInvNext == ReplayInv /\ [Next]_vars => ReplayInv'
<1> SUFFICES ASSUME ReplayInv, [Next]_vars PROVE ReplayInv'
    OBVIOUS
<1>1. CASE GetAction
    BY <1>1, RemoteFacts
    DEF GetAction, ReplayInv, TypeOK,
        ActionsOfTheEpisode, RowsFollowTheClock, NoChunkOutlivesItsConnection,
        ChunkFits, Taken, GivenInTurn, Envs
<1>2. CASE Replay BY <1>2, ReplayKeeps
<1>3. CASE Infer BY <1>3, InferKeeps
<1>4. CASE Reconnect BY <1>4, ReconnectKeeps
<1>5. CASE GiveUp \/ CallRaises \/ ConnectRaises \/ Close
    BY <1>5
    DEF GiveUp, CallRaises, ConnectRaises, Close, ReplayInv, TypeOK,
        ActionsOfTheEpisode, RowsFollowTheClock, NoChunkOutlivesItsConnection,
        ChunkFits, Taken, GivenInTurn
<1>6. CASE \E ids \in SUBSET Envs : Step(ids) BY <1>6, StepKeeps
<1>7. CASE UNCHANGED vars
    BY <1>7
    DEF vars, ReplayInv, TypeOK,
        ActionsOfTheEpisode, RowsFollowTheClock, NoChunkOutlivesItsConnection,
        ChunkFits, Taken, GivenInTurn
<1>8. CASE LoseAttempt BY <1>8, LoseAttemptKeeps
<1> QED BY <1>1, <1>2, <1>3, <1>4, <1>5, <1>6, <1>7, <1>8 DEF Next

LEMMA ReplayInvAlways == Spec => []ReplayInv
BY ReplayInvInit, ReplayInvNext, PTL DEF Spec

(* The variables of the replay keep their types: attempts, positions and   *)
(* the cursor stay in their bounds.                                        *)
THEOREM ReplayTypeCorrect == Spec => []TypeOK
<1>1. ReplayInv => TypeOK BY DEF ReplayInv
<1> QED BY <1>1, ReplayInvAlways, PTL

(* No environment acts on what it saw in an episode that is over, or on    *)
(* what another environment saw, whichever environments reset and whenever *)
(* the connection is lost.                                                 *)
THEOREM ActionsAreOfTheEpisode == Spec => []ActionsOfTheEpisode
<1>1. ReplayInv => ActionsOfTheEpisode BY DEF ReplayInv
<1> QED BY <1>1, ReplayInvAlways, PTL

(* The k-th action of a chunk is given k control steps after the           *)
(* observation it was planned from, and none beyond the horizon.           *)
THEOREM ActionsAreInTime == Spec => []RowsFollowTheClock
<1>1. ReplayInv => RowsFollowTheClock BY DEF ReplayInv
<1> QED BY <1>1, ReplayInvAlways, PTL

(* No chunk is left from a connection that was lost.                       *)
THEOREM ChunksAreOfTheConnection == Spec => []NoChunkOutlivesItsConnection
<1>1. ReplayInv => NoChunkOutlivesItsConnection BY DEF ReplayInv
<1> QED BY <1>1, ReplayInvAlways, PTL

-----------------------------------------------------------------------------
(***************************************************************************)
(* The DreamZero policy.                                                   *)
(***************************************************************************)
Observations == [env : Envs, episode : Nat, at : Nat]
Inferences == [kind : {"infer"}, session : Nat, env : Envs, episode : Nat, at : Nat]
ResetRequests == [kind : {"reset"}, sessions : SUBSET Nat]
Messages == Inferences \cup ResetRequests
Replies == [kind : {"actions", "error"}, of : Observations] \cup [kind : {"acknowledged"}]

PolicyTypeOK ==
    /\ episode \in [Envs -> Nat]
    /\ clock \in Nat
    /\ cached \in [Envs -> Chunks \cup {None}]
    /\ nextStep \in [Envs -> Nat]
    /\ connection \in Nat
    /\ cursor \in 0 .. NumEnvs
    /\ phase \in {"idle", "serving", "calling", "awaiting", "connecting", "resetting",
                 "failed", "closed"}
    /\ ws \in BOOLEAN
    /\ link \in BOOLEAN
    /\ sessions \in [Envs -> Nat \cup {None}]
    /\ minted \in Nat
    /\ toServer \in Seq(Messages)
    /\ toClient \in Seq(Replies)
    /\ history \in [DOMAIN history -> Seq(Observations)]

(* A call of the server is made for an environment whose chunk is used up, *)
(* with the session and the observation it has now.                        *)
CallInProgress ==
    phase \in {"calling", "awaiting", "connecting", "failed"} =>
        /\ cursor \in Envs
        /\ Exhausted(cursor)
        /\ sessions[cursor] # None
        /\ request = Request(sessions[cursor])

IsInference(message) == message.kind = "infer"
IsAnswer(message) == message.kind # "acknowledged"

(* The request in progress, or its answer, is the last message on its way, *)
(* and no other inference or answer is on its way.                         *)
ChannelsInOrder ==
    /\ \A i \in DOMAIN toServer : IsInference(toServer[i]) =>
           /\ phase \in {"awaiting", "failed"}
           /\ i = Len(toServer)
           /\ toServer[i] = request
    /\ \A i \in DOMAIN toClient : IsAnswer(toClient[i]) =>
           /\ phase \in {"awaiting", "failed"}
           /\ i = Len(toClient)
           /\ toClient[i].of = Observation(request)
           /\ toServer = <<>>
    /\ ~ link => toServer = <<>>
    /\ ~ ws => ~ link

(* No two environments share a session, and a reset on its way to the      *)
(* server is of sessions that are no longer in use.                        *)
SessionsApart ==
    /\ \A e \in Envs : sessions[e] # None => sessions[e] \in 1 .. minted
    /\ \A e, f \in Envs : e # f /\ sessions[e] # None => sessions[e] # sessions[f]
    /\ DOMAIN history \subseteq 1 .. minted
    /\ \A i \in DOMAIN toServer : ~ IsInference(toServer[i]) =>
           /\ toServer[i].sessions \subseteq 1 .. minted
           /\ \A e \in Envs : sessions[e] \notin toServer[i].sessions

(* The observation e makes now has not been processed by the server.       *)
Unseen(e) ==
    \/ phase \in {"idle", "resetting"}
    \/ phase \in {"serving", "calling"} /\ e >= cursor
    \/ /\ phase \in {"awaiting", "connecting", "failed"} /\ e >= cursor
       /\ e = cursor => \E i \in DOMAIN toServer : IsInference(toServer[i])

(* The server remembers of a session in use what its environment has seen  *)
(* in its present episode.                                                 *)
Remembers(e, seen) ==
    /\ seen.env = e /\ seen.episode = episode[e]
    /\ seen.at <= clock
    /\ Unseen(e) => seen.at < clock

OwnHistories ==
    \A e \in Envs : sessions[e] \in DOMAIN history =>
        \A i \in DOMAIN history[sessions[e]] : Remembers(e, history[sessions[e]][i])

EndsWith(session, observation) ==
    /\ session \in DOMAIN history
    /\ history[session] # <<>>
    /\ history[session][Len(history[session])] = observation

Calling(e) == phase = "awaiting" /\ e = cursor

(* While the connection is open, the server's memory is in step with the   *)
(* chunks, and with the answer on its way.                                 *)
MemoryInStep ==
    phase \notin {"failed", "closed"} /\ link =>
        /\ \A e \in Envs : cached[e] # None /\ ~ Calling(e) =>
               EndsWith(sessions[e], Observation(cached[e]))
        /\ \A i \in DOMAIN toClient : IsAnswer(toClient[i]) =>
               EndsWith(sessions[cursor], Observation(request))

PolicyInv ==
    /\ PolicyTypeOK
    /\ CallInProgress
    /\ ChannelsInOrder
    /\ SessionsApart
    /\ OwnHistories
    /\ HistoriesApart
    /\ MemoryInStep

LEMMA PolicyFacts ==
    /\ NumEnvs \in Nat \ {0} /\ Envs = 0 .. NumEnvs - 1
    /\ None \notin Nat /\ None \notin Chunks
BY DreamZeroAssumption, RemoteFacts DEF Envs

LEMMA NoHistory == <<>> \in [DOMAIN <<>> -> Seq(Observations)]
OBVIOUS

LEMMA PolicyInvInit == PolicyInit => PolicyInv
BY PolicyFacts, NoHistory, DreamZeroAssumption
DEF PolicyInit, PolicyInv, PolicyTypeOK, CallInProgress, ChannelsInOrder, SessionsApart, OwnHistories,
    HistoriesApart, MemoryInStep

(* What is appended to a channel, and what is left of it.                  *)
LEMMA Appended ==
    ASSUME NEW S, NEW q \in Seq(S), NEW x \in S
    PROVE  /\ Append(q, x) \in Seq(S)
           /\ Append(q, x) # <<>>
           /\ Len(Append(q, x)) = Len(q) + 1
           /\ DOMAIN Append(q, x) = 1 .. Len(q) + 1
           /\ \A i \in DOMAIN q : i \in 1 .. Len(q) /\ Append(q, x)[i] = q[i]
           /\ Append(q, x)[Len(q) + 1] = x
OBVIOUS

LEMMA Remaining ==
    ASSUME NEW S, NEW q \in Seq(S), q # <<>>
    PROVE  /\ 1 \in DOMAIN q /\ Head(q) = q[1] /\ Head(q) \in S
           /\ Tail(q) \in Seq(S)
           /\ \A i \in DOMAIN Tail(q) :
                  /\ i + 1 \in DOMAIN q
                  /\ Tail(q)[i] = q[i + 1]
                  /\ i + 1 = Len(q) => i = Len(Tail(q))
           /\ Len(q) = 1 => Tail(q) = <<>>
<1>1. /\ Head(q) \in S /\ Tail(q) \in Seq(S) /\ Len(Tail(q)) = Len(q) - 1
      /\ \A i \in 1 .. Len(Tail(q)) : Tail(q)[i] = q[i + 1]
    BY HeadTailProperties
<1>2. Len(q) \in Nat \ {0} /\ DOMAIN q = 1 .. Len(q) /\ Head(q) = q[1]
    BY EmptySeq, LenProperties
<1>3. DOMAIN Tail(q) = 1 .. Len(Tail(q))
    BY <1>1, LenProperties
<1>4. Len(q) = 1 => Tail(q) = <<>>
    <2>1. Len(q) = 1 => Len(Tail(q)) = 0
        BY <1>1
    <2> QED BY <1>1, <2>1, EmptySeq
<1> QED BY <1>1, <1>2, <1>3, <1>4

LEMMA Cut ==
    ASSUME NEW S, NEW q \in Seq(S), NEW n \in 0 .. Len(q)
    PROVE  /\ SubSeq(q, 1, n) \in Seq(S)
           /\ \A i \in DOMAIN SubSeq(q, 1, n) :
                  /\ i \in DOMAIN q
                  /\ SubSeq(q, 1, n)[i] = q[i]
                  /\ i = Len(q) => i = Len(SubSeq(q, 1, n))
OBVIOUS

-----------------------------------------------------------------------------
(* The server and the connection. *)

(* What the server does to a session in use does not make another session  *)
(* end differently.                                                        *)
LEMMA ServeInferKeeps == ASSUME PolicyInv, ServeInfer PROVE PolicyInv'
<1> DEFINE message == toServer[1]
           session == request.session
           seen == Observation(request)
<1>0. PolicyTypeOK /\ CallInProgress /\ ChannelsInOrder /\ SessionsApart /\ OwnHistories
      /\ HistoriesApart /\ MemoryInStep
    BY DEF PolicyInv
<1>1. /\ 1 \in DOMAIN toServer /\ Head(toServer) = message /\ IsInference(message)
      /\ Tail(toServer) \in Seq(Messages) /\ (Len(toServer) = 1 => Tail(toServer) = <<>>)
    BY <1>0, Remaining DEF ServeInfer, IsInference, PolicyTypeOK
<1>2. phase \in {"awaiting", "failed"} /\ message = request /\ toServer' = <<>>
    BY <1>0, <1>1 DEF ServeInfer, ChannelsInOrder
<1>3. /\ cursor \in Envs /\ Exhausted(cursor) /\ session = sessions[cursor]
      /\ session # None /\ session \in 1 .. minted
      /\ seen = [env |-> cursor, episode |-> episode[cursor], at |-> clock]
    BY <1>0, <1>2 DEF CallInProgress, SessionsApart, Request, Observation
<1>4. seen \in Observations /\ session \in Nat
    BY <1>0, <1>3 DEF PolicyTypeOK, Observations
<1>5. \A i \in DOMAIN toClient : ~ IsAnswer(toClient[i])
    BY <1>0, <1>1 DEF ChannelsInOrder, PolicyTypeOK
<1>6. PICK reply \in InferReplies : toClient' = Append(toClient, [kind |-> reply, of |-> seen])
    BY <1>1, <1>2 DEF ServeInfer
<1>7. history' = [s \in DOMAIN history \cup {session} |->
                     IF s = session THEN Append(HistoryOf(s), seen) ELSE history[s]]
    BY <1>1, <1>2 DEF ServeInfer
<1>8. /\ UNCHANGED <<episode, clock, cached, nextStep, connection, cursor, attempt>>
      /\ UNCHANGED <<phase, ws, sessions, minted, request, drained, link>>
    BY DEF ServeInfer, replayVars, clientVars
<1>9. HistoryOf(session) \in Seq(Observations)
    BY <1>0 DEF HistoryOf, PolicyTypeOK
<1> DEFINE past == HistoryOf(session)
<1>10. /\ history'[session] = Append(past, seen)
       /\ \A s \in DOMAIN history \ {session} : s \in DOMAIN history' /\ history'[s] = history[s]
       /\ DOMAIN history' = DOMAIN history \cup {session}
    BY <1>7
<1>11. /\ Append(past, seen) \in Seq(Observations) /\ Append(past, seen) # <<>>
       /\ Len(Append(past, seen)) = Len(past) + 1
       /\ DOMAIN Append(past, seen) = 1 .. Len(past) + 1
       /\ DOMAIN past = 1 .. Len(past) /\ Len(past) \in Nat
       /\ \A i \in DOMAIN past : Append(past, seen)[i] = past[i]
       /\ Append(past, seen)[Len(past) + 1] = seen
    BY <1>4, <1>9, Appended, LenProperties
<1>12. \A i \in DOMAIN past : past[i].env = cursor /\ past[i].episode = episode[cursor]
                                /\ past[i].at < clock
    <2>1. Unseen(cursor)
        BY <1>0, <1>1, <1>2, <1>3 DEF Unseen, PolicyTypeOK
    <2>2. CASE session \in DOMAIN history
        BY <2>1, <2>2, <1>0, <1>3 DEF OwnHistories, Remembers, HistoryOf
    <2>3. CASE session \notin DOMAIN history
        BY <2>3, <1>9 DEF HistoryOf
    <2> QED BY <2>2, <2>3
<1>13. \A i \in DOMAIN past : past[i].at \in Int
    <2> HIDE DEF past
    <2>1. \A i \in DOMAIN past : past[i] \in Observations
        BY <1>9, <1>11, ElementOfSeq DEF past
    <2> QED BY <2>1 DEF Observations
<1>14. \A i, j \in DOMAIN past : i < j => past[i].at < past[j].at
    BY <1>0, <1>9 DEF HistoriesApart, HistoryOf
<1> HIDE DEF message, session, seen, past
<1>15. PolicyTypeOK'
    <2>1. [kind |-> reply, of |-> seen] \in Replies
        BY <1>4, DreamZeroAssumption DEF Replies
    <2>2. toClient' \in Seq(Replies)
        BY <2>1, <1>0, <1>6, Appended DEF PolicyTypeOK
    <2>3. \A s \in DOMAIN history' : history'[s] \in Seq(Observations)
        BY <1>0, <1>10, <1>11 DEF PolicyTypeOK
    <2>4. history' = [s \in DOMAIN history' |-> history'[s]]
        BY <1>7
    <2>5. history' \in [DOMAIN history' -> Seq(Observations)]
        BY <2>3, <2>4
    <2>6. toServer' \in Seq(Messages)
        BY <1>2
    <2> QED BY <2>2, <2>5, <2>6, <1>0, <1>8 DEF PolicyTypeOK
<1>16. CallInProgress'
    BY <1>0, <1>8 DEF CallInProgress, Exhausted, Request
<1>17. ChannelsInOrder'
    <2>1. \A i \in DOMAIN toClient' :
              \/ i \in DOMAIN toClient /\ toClient'[i] = toClient[i]
              \/ i = Len(toClient') /\ toClient'[i].of = seen
        <3> DEFINE answer == [kind |-> reply, of |-> seen]
        <3>1. answer \in Replies /\ answer.of = seen
            BY <1>4, DreamZeroAssumption DEF Replies
        <3>2. toClient' = Append(toClient, answer) /\ toClient \in Seq(Replies)
            BY <1>0, <1>6 DEF PolicyTypeOK
        <3> HIDE DEF answer
        <3> QED BY <3>1, <3>2, Appended, LenProperties
    <2>2. \A i \in DOMAIN toClient' :
              IsAnswer(toClient'[i]) => i = Len(toClient') /\ toClient'[i].of = seen
        BY <2>1, <1>5
    <2> QED BY <2>2, <1>0, <1>2, <1>8 DEF ChannelsInOrder, seen, Observation
<1>18. SessionsApart'
    BY <1>0, <1>2, <1>3, <1>8, <1>10 DEF SessionsApart
<1>19. OwnHistories'
    <2> SUFFICES ASSUME NEW e \in Envs, sessions[e] \in DOMAIN history',
                        NEW i \in DOMAIN history'[sessions[e]]
                 PROVE  /\ history'[sessions[e]][i].env = e
                        /\ history'[sessions[e]][i].episode = episode[e]
                        /\ history'[sessions[e]][i].at <= clock
                        /\ Unseen(e)' => history'[sessions[e]][i].at < clock
        BY <1>8 DEF OwnHistories, Remembers
    <2>1. Unseen(e)' => Unseen(e)
        BY <1>2, <1>8 DEF Unseen
    <2>2. CASE e = cursor
        <3>1. ~ Unseen(e)'
            BY <2>2, <1>2, <1>8 DEF Unseen
        <3>2. history'[sessions[e]] = Append(past, seen)
            BY <2>2, <1>3, <1>10
        <3>3. CASE i \in DOMAIN past
            BY <3>1, <3>2, <3>3, <2>2, <1>0, <1>8, <1>11, <1>12, <1>13 DEF PolicyTypeOK
        <3>4. CASE i = Len(past) + 1
            BY <3>1, <3>2, <3>4, <2>2, <1>0, <1>3, <1>8, <1>11 DEF PolicyTypeOK
        <3> QED BY <3>2, <3>3, <3>4, <1>11
    <2>3. CASE e # cursor
        <3>1. sessions[e] # session
            BY <2>3, <1>0, <1>3 DEF SessionsApart
        <3>2. sessions[e] \in DOMAIN history /\ history'[sessions[e]] = history[sessions[e]]
            BY <3>1, <1>10
        <3>3. Remembers(e, history[sessions[e]][i])
            BY <3>2, <1>0 DEF OwnHistories
        <3> QED BY <3>2, <3>3, <2>1 DEF Remembers
    <2> QED BY <2>2, <2>3
<1>20. HistoriesApart'
    <2> SUFFICES ASSUME NEW s \in DOMAIN history', NEW i \in DOMAIN history'[s],
                        NEW j \in DOMAIN history'[s], i < j
                 PROVE  /\ history'[s][i].env = history'[s][j].env
                        /\ history'[s][i].episode = history'[s][j].episode
                        /\ history'[s][i].at < history'[s][j].at
        BY DEF HistoriesApart
    <2>1. CASE s = session
        <3>1. i \in DOMAIN past /\ history'[s][i] = past[i]
            BY <2>1, <1>10, <1>11
        <3>2. CASE j \in DOMAIN past
            BY <3>1, <3>2, <2>1, <1>10, <1>11, <1>12, <1>14
        <3>3. CASE j = Len(past) + 1
            BY <3>1, <3>3, <2>1, <1>3, <1>10, <1>11, <1>12
        <3> QED BY <3>2, <3>3, <2>1, <1>10, <1>11
    <2>2. CASE s # session
        BY <2>2, <1>0, <1>10 DEF HistoriesApart
    <2> QED BY <2>1, <2>2
<1>21. MemoryInStep'
    <2> SUFFICES ASSUME phase = "awaiting", link
                 PROVE  /\ \A e \in Envs : cached[e] # None /\ e # cursor =>
                               EndsWith(sessions[e], Observation(cached[e]))'
                        /\ EndsWith(sessions[cursor], Observation(request))'
        BY <1>2, <1>8 DEF MemoryInStep, Calling
    <2>1. EndsWith(sessions[cursor], Observation(request))'
        BY <1>3, <1>8, <1>10, <1>11 DEF EndsWith, seen, Observation
    <2>2. ASSUME NEW e \in Envs, cached[e] # None, e # cursor
          PROVE  EndsWith(sessions[e], Observation(cached[e]))'
        <3>1. EndsWith(sessions[e], Observation(cached[e]))
            BY <2>2, <1>0 DEF MemoryInStep, Calling
        <3>2. sessions[e] # session
            BY <2>2, <1>0, <1>3 DEF SessionsApart
        <3> QED BY <3>1, <3>2, <1>8, <1>10 DEF EndsWith, Observation
    <2> QED BY <2>1, <2>2
<1> QED BY <1>15, <1>16, <1>17, <1>18, <1>19, <1>20, <1>21 DEF PolicyInv

(* The sessions a reset names are in no one's use.                         *)
LEMMA ServeResetKeeps == ASSUME PolicyInv, ServeReset PROVE PolicyInv'
<1> DEFINE message == toServer[1]
           acknowledgement == [kind |-> "acknowledged"]
<1>0. PolicyTypeOK /\ CallInProgress /\ ChannelsInOrder /\ SessionsApart /\ OwnHistories
      /\ HistoriesApart /\ MemoryInStep
    BY DEF PolicyInv
<1>1. /\ 1 \in DOMAIN toServer /\ Head(toServer) = message /\ toServer # <<>>
      /\ toServer' = Tail(toServer) /\ toServer' \in Seq(Messages)
      /\ \A i \in DOMAIN toServer' :
             /\ i + 1 \in DOMAIN toServer
             /\ toServer'[i] = toServer[i + 1]
             /\ i + 1 = Len(toServer) => i = Len(toServer')
    BY <1>0, Remaining DEF ServeReset, PolicyTypeOK
<1>2. ~ IsInference(message)
    BY <1>1 DEF ServeReset, IsInference
<1>3. /\ UNCHANGED <<episode, clock, cached, nextStep, connection, cursor, attempt>>
      /\ UNCHANGED <<phase, ws, sessions, minted, request, drained, link>>
    BY DEF ServeReset, replayVars, clientVars
<1>4. history' = [s \in DOMAIN history \ message.sessions |-> history[s]]
    BY <1>1 DEF ServeReset
<1>5. /\ DOMAIN history' = DOMAIN history \ message.sessions
      /\ \A s \in DOMAIN history' : history'[s] = history[s]
    BY <1>4
<1>6. \A e \in Envs : sessions[e] \notin message.sessions
    BY <1>0, <1>1, <1>2 DEF SessionsApart
<1>7. acknowledgement \in Replies /\ ~ IsAnswer(acknowledgement)
    BY DEF Replies, IsAnswer
<1>8. toClient' = Append(toClient, acknowledgement)
    BY DEF ServeReset
<1> HIDE DEF message, acknowledgement
<1>9. /\ toClient' \in Seq(Replies)
      /\ \A i \in DOMAIN toClient' :
             \/ i \in DOMAIN toClient /\ toClient'[i] = toClient[i]
             \/ toClient'[i] = acknowledgement
    BY <1>0, <1>7, <1>8, Appended, LenProperties DEF PolicyTypeOK
<1>10. \A i \in DOMAIN toClient' : ~ IsAnswer(toClient'[i])
    BY <1>0, <1>1, <1>7, <1>9 DEF ChannelsInOrder
<1>11. PolicyTypeOK'
    <2>1. \A s \in DOMAIN history' : history'[s] \in Seq(Observations)
        BY <1>0, <1>5 DEF PolicyTypeOK
    <2>2. history' \in [DOMAIN history' -> Seq(Observations)]
        BY <1>4, <2>1
    <2> QED BY <2>2, <1>0, <1>1, <1>3, <1>9 DEF PolicyTypeOK
<1>12. CallInProgress'
    BY <1>0, <1>3 DEF CallInProgress, Exhausted, Request
<1>13. ChannelsInOrder'
    <2>1. ASSUME NEW i \in DOMAIN toServer', IsInference(toServer'[i])
          PROVE  phase \in {"awaiting", "failed"} /\ i = Len(toServer') /\ toServer'[i] = request
        BY <2>1, <1>0, <1>1 DEF ChannelsInOrder
    <2>2. ~ link => toServer' = <<>>
        BY <1>0, <1>1 DEF ChannelsInOrder
    <2> QED BY <2>1, <2>2, <1>0, <1>3, <1>10 DEF ChannelsInOrder
<1>14. SessionsApart'
    <2>1. ASSUME NEW i \in DOMAIN toServer', ~ IsInference(toServer'[i])
          PROVE  /\ toServer'[i].sessions \subseteq 1 .. minted
                 /\ \A e \in Envs : sessions[e] \notin toServer'[i].sessions
        BY <2>1, <1>0, <1>1 DEF SessionsApart
    <2> QED BY <2>1, <1>0, <1>3, <1>5 DEF SessionsApart
<1>15. OwnHistories'
    <2>1. \A e \in Envs : Unseen(e)' => Unseen(e)
        BY <1>1, <1>3 DEF Unseen
    <2> QED BY <2>1, <1>0, <1>3, <1>5 DEF OwnHistories, Remembers
<1>16. HistoriesApart'
    BY <1>0, <1>5 DEF HistoriesApart
<1>17. MemoryInStep'
    BY <1>0, <1>3, <1>5, <1>6, <1>10 DEF MemoryInStep, EndsWith, Calling, Observation
<1> QED BY <1>11, <1>12, <1>13, <1>14, <1>15, <1>16, <1>17 DEF PolicyInv

LEMMA LoseConnectionKeeps == ASSUME PolicyInv, LoseConnection PROVE PolicyInv'
<1>0. PolicyTypeOK /\ CallInProgress /\ ChannelsInOrder /\ SessionsApart /\ OwnHistories
      /\ HistoriesApart
    BY DEF PolicyInv
<1>1. link' = FALSE /\ toServer' = <<>> /\ history' \in {history, <<>>}
    BY DEF LoseConnection
<1>2. /\ UNCHANGED <<episode, clock, cached, nextStep, connection, cursor, attempt>>
      /\ UNCHANGED <<phase, ws, sessions, minted, request, drained>>
    BY DEF LoseConnection, replayVars, clientVars
<1>3. /\ toClient' \in Seq(Replies)
      /\ \A i \in DOMAIN toClient' :
             /\ i \in DOMAIN toClient
             /\ toClient'[i] = toClient[i]
             /\ i = Len(toClient) => i = Len(toClient')
    BY <1>0, Cut DEF LoseConnection, PolicyTypeOK
<1>4. \A s \in DOMAIN history' : s \in DOMAIN history /\ history'[s] = history[s]
    BY <1>1
<1>5. PolicyTypeOK'
    <2>1. history' \in [DOMAIN history' -> Seq(Observations)]
        BY <1>0, <1>1, NoHistory DEF PolicyTypeOK
    <2>2. toServer' \in Seq(Messages)
        BY <1>1
    <2>3. link' \in BOOLEAN
        BY <1>1
    <2> QED BY <2>1, <2>2, <2>3, <1>0, <1>2, <1>3 DEF PolicyTypeOK
<1>6. CallInProgress'
    BY <1>0, <1>2 DEF CallInProgress, Exhausted, Request
<1>7. ChannelsInOrder'
    BY <1>0, <1>1, <1>2, <1>3 DEF ChannelsInOrder, Observation
<1>8. SessionsApart'
    BY <1>0, <1>1, <1>2, <1>4 DEF SessionsApart
<1>9. OwnHistories'
    <2>1. \A e \in Envs : Unseen(e)' => Unseen(e)
        BY <1>1, <1>2 DEF Unseen
    <2> QED BY <2>1, <1>0, <1>2, <1>4 DEF OwnHistories, Remembers
<1>10. HistoriesApart'
    BY <1>0, <1>4 DEF HistoriesApart
<1>11. MemoryInStep'
    BY <1>1 DEF MemoryInStep
<1> QED BY <1>5, <1>6, <1>7, <1>8, <1>9, <1>10, <1>11 DEF PolicyInv

-----------------------------------------------------------------------------
(* The client. *)

(* An action of the client that neither sends nor receives, in which the   *)
(* sessions and what the server remembers stay as they are.                *)
ChannelsUnchanged == UNCHANGED <<sessions, minted, link, toServer, toClient, history>>

LEMMA GetActionKeeps == ASSUME PolicyInv, StartCall PROVE PolicyInv'
<1>0. PolicyTypeOK /\ CallInProgress /\ ChannelsInOrder /\ SessionsApart /\ OwnHistories
      /\ HistoriesApart /\ MemoryInStep
    BY DEF PolicyInv
<1>1. /\ phase = "idle" /\ phase' = "serving" /\ cursor' = 0
      /\ UNCHANGED <<episode, clock, cached, nextStep, connection, ws, request>>
      /\ ChannelsUnchanged
    BY DEF StartCall, ChannelsUnchanged, serverVars
<1>2. \A e \in Envs : Unseen(e)
    BY <1>1 DEF Unseen
<1>3. PolicyTypeOK'
    BY <1>0, <1>1, PolicyFacts DEF PolicyTypeOK, ChannelsUnchanged
<1>4. \A i \in DOMAIN toClient : ~ IsAnswer(toClient[i])
    BY <1>0, <1>1 DEF ChannelsInOrder
<1>5. CallInProgress' /\ ChannelsInOrder'
    BY <1>0, <1>1, <1>4 DEF CallInProgress, ChannelsInOrder, ChannelsUnchanged
<1>6. SessionsApart' /\ HistoriesApart'
    BY <1>0, <1>1 DEF SessionsApart, HistoriesApart, ChannelsUnchanged
<1>7. OwnHistories'
    BY <1>0, <1>1, <1>2 DEF OwnHistories, Remembers, ChannelsUnchanged
<1>8. MemoryInStep'
    BY <1>0, <1>1, <1>4 DEF MemoryInStep, ChannelsUnchanged, Calling, EndsWith, Observation
<1> QED BY <1>3, <1>5, <1>6, <1>7, <1>8 DEF PolicyInv

LEMMA ReplayActionKeeps == ASSUME PolicyInv, ReplayAction PROVE PolicyInv'
<1>0. PolicyTypeOK /\ CallInProgress /\ ChannelsInOrder /\ SessionsApart /\ OwnHistories
      /\ HistoriesApart /\ MemoryInStep
    BY DEF PolicyInv
<1>1. /\ phase = "serving" /\ cursor \in Envs /\ cursor' = cursor + 1
      /\ UNCHANGED <<episode, clock, connection, phase, ws, request>>
      /\ ChannelsUnchanged
    BY DEF ReplayAction, Serving, GiveAction, ChannelsUnchanged, serverVars, clientVars
<1>2. cached' = [cached EXCEPT ![cursor] = cached[cursor]]
    BY DEF ReplayAction, GiveAction
<1>3. cached' = cached
    BY <1>0, <1>1, <1>2 DEF PolicyTypeOK
<1>4. nextStep' \in [Envs -> Nat]
    BY <1>0, <1>1 DEF ReplayAction, GiveAction, PolicyTypeOK
<1>5. cursor' \in 0 .. NumEnvs
    BY <1>1, PolicyFacts
<1>6. PolicyTypeOK'
    BY <1>0, <1>1, <1>3, <1>4, <1>5 DEF PolicyTypeOK, ChannelsUnchanged
<1>7. \A i \in DOMAIN toClient : ~ IsAnswer(toClient[i])
    BY <1>0, <1>1 DEF ChannelsInOrder
<1>8. CallInProgress' /\ ChannelsInOrder'
    BY <1>0, <1>1, <1>7 DEF CallInProgress, ChannelsInOrder, ChannelsUnchanged
<1>9. SessionsApart' /\ HistoriesApart'
    BY <1>0, <1>1 DEF SessionsApart, HistoriesApart, ChannelsUnchanged
<1>10. OwnHistories'
    <2>1. \A e \in Envs : Unseen(e)' => Unseen(e)
        BY <1>1, PolicyFacts DEF Unseen
    <2> QED BY <2>1, <1>0, <1>1 DEF OwnHistories, Remembers, ChannelsUnchanged
<1>11. MemoryInStep'
    BY <1>0, <1>1, <1>3, <1>7 DEF MemoryInStep, ChannelsUnchanged, Calling, EndsWith, Observation
<1> QED BY <1>6, <1>8, <1>9, <1>10, <1>11 DEF PolicyInv

(* The session of the request is the environment's, or a new one of which  *)
(* the server remembers nothing.                                           *)
LEMMA BuildRequestKeeps == ASSUME PolicyInv, BuildRequest PROVE PolicyInv'
<1> DEFINE session == SessionIn(sessions, cursor)
<1>0. PolicyTypeOK /\ CallInProgress /\ ChannelsInOrder /\ SessionsApart /\ OwnHistories
      /\ HistoriesApart /\ MemoryInStep
    BY DEF PolicyInv
<1>1. /\ phase = "serving" /\ phase' = "calling" /\ cursor \in Envs /\ Exhausted(cursor)
      /\ UNCHANGED <<episode, clock, cached, nextStep, connection, cursor, ws>>
      /\ UNCHANGED <<link, toServer, toClient, history>>
    BY DEF BuildRequest, Serving, replayVars, serverVars
<1>2. /\ sessions' = [sessions EXCEPT ![cursor] = session]
      /\ minted' = IF session > minted THEN session ELSE minted
      /\ request' = Request(session)
    BY DEF BuildRequest
<1>3. \/ sessions[cursor] # None /\ session = sessions[cursor] /\ session \in 1 .. minted
      \/ sessions[cursor] = None /\ session = minted + 1
    BY <1>0, <1>1 DEF SessionIn, SessionsApart
<1>4. session \in Nat /\ session # None /\ minted \in Nat
    BY <1>0, <1>3, PolicyFacts DEF PolicyTypeOK
<1> HIDE DEF session
<1>5. minted' \in Nat /\ minted <= minted' /\ session \in 1 .. minted'
      /\ (sessions[cursor] # None => minted' = minted)
    BY <1>2, <1>3, <1>4
<1>6. sessions'[cursor] = session /\ \A e \in Envs \ {cursor} : sessions'[e] = sessions[e]
    BY <1>0, <1>1, <1>2 DEF PolicyTypeOK
<1>7. PolicyTypeOK'
    BY <1>0, <1>1, <1>2, <1>4, <1>5 DEF PolicyTypeOK
<1>8. CallInProgress'
    BY <1>1, <1>2, <1>4, <1>6 DEF CallInProgress, Exhausted, Request
<1>9. \A i \in DOMAIN toClient : ~ IsAnswer(toClient[i])
    BY <1>0, <1>1 DEF ChannelsInOrder
<1>10. ChannelsInOrder'
    BY <1>0, <1>1, <1>9 DEF ChannelsInOrder
<1>11. session \in DOMAIN history => sessions[cursor] = session
    BY <1>0, <1>3, <1>4 DEF SessionsApart
<1>12. SessionsApart'
    <2>1. \A e \in Envs : sessions'[e] # None => sessions'[e] \in 1 .. minted'
        BY <1>0, <1>4, <1>5, <1>6 DEF SessionsApart
    <2>2. \A e \in Envs \ {cursor} : sessions[e] # session
        BY <1>0, <1>1, <1>3, <1>4 DEF SessionsApart
    <2>3. \A e, f \in Envs : e # f /\ sessions'[e] # None => sessions'[e] # sessions'[f]
        BY <2>2, <1>0, <1>6 DEF SessionsApart
    <2>4. DOMAIN history' \subseteq 1 .. minted'
        BY <1>0, <1>1, <1>4, <1>5 DEF SessionsApart
    <2>5. ASSUME NEW i \in DOMAIN toServer, ~ IsInference(toServer[i])
          PROVE  /\ toServer[i].sessions \subseteq 1 .. minted'
                 /\ \A e \in Envs : sessions'[e] \notin toServer[i].sessions
        <3>1. /\ toServer[i].sessions \subseteq 1 .. minted
              /\ \A e \in Envs : sessions[e] \notin toServer[i].sessions
            BY <2>5, <1>0 DEF SessionsApart
        <3>2. session \notin toServer[i].sessions
            BY <3>1, <1>1, <1>3, <1>4
        <3> QED BY <3>1, <3>2, <1>4, <1>5, <1>6
    <2> QED BY <2>1, <2>3, <2>4, <2>5, <1>1 DEF SessionsApart
<1>13. HistoriesApart'
    BY <1>0, <1>1 DEF HistoriesApart
<1>14. OwnHistories'
    <2>1. \A e \in Envs : Unseen(e)' => Unseen(e)
        BY <1>1 DEF Unseen
    <2>2. \A e \in Envs : sessions'[e] \in DOMAIN history => sessions[e] = sessions'[e]
        BY <1>6, <1>11
    <2> QED BY <2>1, <2>2, <1>0, <1>1 DEF OwnHistories, Remembers
<1>15. MemoryInStep'
    <2>1. \A e \in Envs : \A o : EndsWith(sessions[e], o) => sessions'[e] = sessions[e]
        <3>1. \A e \in Envs : sessions[e] # None => sessions'[e] = sessions[e]
            BY <1>3, <1>6
        <3>2. None \notin DOMAIN history
            BY <1>0, PolicyFacts DEF SessionsApart
        <3> QED BY <3>1, <3>2 DEF EndsWith
    <2> QED BY <2>1, <1>0, <1>1, <1>9 DEF MemoryInStep, Calling, EndsWith, Observation
<1> QED BY <1>7, <1>8, <1>10, <1>12, <1>13, <1>14, <1>15 DEF PolicyInv

LEMMA SendRequestKeeps == ASSUME PolicyInv, SendRequest PROVE PolicyInv'
<1>0. PolicyTypeOK /\ CallInProgress /\ ChannelsInOrder /\ SessionsApart /\ OwnHistories
      /\ HistoriesApart /\ MemoryInStep
    BY DEF PolicyInv
<1>1. /\ phase = "calling" /\ phase' = "awaiting" /\ ws /\ link
      /\ toServer' = Append(toServer, request)
      /\ UNCHANGED <<episode, clock, cached, nextStep, connection, cursor, ws, sessions,
                     minted, request, link, toClient, history>>
    BY DEF SendRequest, replayVars
<1>2. /\ request = [kind |-> "infer", session |-> sessions[cursor], env |-> cursor,
                    episode |-> episode[cursor], at |-> clock]
      /\ cursor \in Envs /\ sessions[cursor] \in Nat
    BY <1>0, <1>1 DEF CallInProgress, Request, PolicyTypeOK
<1>3. request \in Messages /\ IsInference(request)
    BY <1>0, <1>2 DEF Messages, Inferences, IsInference, PolicyTypeOK
<1>4. /\ toServer' \in Seq(Messages) /\ Len(toServer') = Len(toServer) + 1
      /\ DOMAIN toServer' = 1 .. Len(toServer) + 1 /\ DOMAIN toServer = 1 .. Len(toServer)
      /\ \A i \in DOMAIN toServer : toServer'[i] = toServer[i]
      /\ toServer'[Len(toServer) + 1] = request
    BY <1>0, <1>1, <1>3, Appended, LenProperties DEF PolicyTypeOK
<1>5. /\ \A i \in DOMAIN toServer : ~ IsInference(toServer[i])
      /\ \A i \in DOMAIN toClient : ~ IsAnswer(toClient[i])
    BY <1>0, <1>1 DEF ChannelsInOrder
<1>6. PolicyTypeOK'
    BY <1>0, <1>1, <1>4 DEF PolicyTypeOK
<1>7. CallInProgress'
    BY <1>0, <1>1 DEF CallInProgress, Exhausted, Request
<1>8. ChannelsInOrder'
    BY <1>1, <1>4, <1>5 DEF ChannelsInOrder
<1>9. SessionsApart'
    BY <1>0, <1>1, <1>3, <1>4 DEF SessionsApart
<1>10. OwnHistories'
    <2>1. \A e \in Envs : Unseen(e)' => Unseen(e)
        BY <1>1 DEF Unseen
    <2> QED BY <2>1, <1>0, <1>1 DEF OwnHistories, Remembers
<1>11. HistoriesApart'
    BY <1>0, <1>1 DEF HistoriesApart
<1>12. MemoryInStep'
    BY <1>0, <1>1, <1>5 DEF MemoryInStep, Calling, EndsWith, Observation
<1> QED BY <1>6, <1>7, <1>8, <1>9, <1>10, <1>11, <1>12 DEF PolicyInv

(* One message is read.                                                    *)
LEMMA ReadOne ==
    ASSUME PolicyTypeOK, NEW kinds, Receives(kinds)
    PROVE  /\ 1 \in DOMAIN toClient /\ Head(toClient) = toClient[1] /\ toClient[1].kind \in kinds
           /\ toClient' \in Seq(Replies)
           /\ \A i \in DOMAIN toClient' :
                  /\ i + 1 \in DOMAIN toClient
                  /\ toClient'[i] = toClient[i + 1]
                  /\ i + 1 = Len(toClient) => i = Len(toClient')
           /\ Len(toClient) = 1 => toClient' = <<>>
           /\ UNCHANGED <<link, toServer, history, losses>>
BY Remaining DEF Receives, PolicyTypeOK

(* The chunk that is cached is of the observation the server ends with.    *)
LEMMA ReceiveActionsKeeps == ASSUME PolicyInv, ReceiveActions PROVE PolicyInv'
<1> DEFINE chunk == [env |-> cursor, episode |-> episode[cursor], at |-> clock,
                     connection |-> connection]
<1>0. PolicyTypeOK /\ CallInProgress /\ ChannelsInOrder /\ SessionsApart /\ OwnHistories
      /\ HistoriesApart /\ MemoryInStep
    BY DEF PolicyInv
<1>1. Receives({"actions"}) /\ phase = "awaiting"
    BY DEF ReceiveActions
<1>2. /\ 1 \in DOMAIN toClient /\ Head(toClient) = toClient[1] /\ IsAnswer(toClient[1])
      /\ (Len(toClient) = 1 => toClient' = <<>>)
      /\ UNCHANGED <<link, toServer, history>>
    BY <1>0, <1>1, ReadOne DEF IsAnswer
<1>3. toServer = <<>> /\ toClient' = <<>> /\ toClient[1].of = Observation(request)
    BY <1>0, <1>2 DEF ChannelsInOrder
<1>4. cursor \in Envs /\ request = Request(sessions[cursor]) /\ sessions[cursor] # None
    BY <1>0, <1>1 DEF CallInProgress
<1>5. Observation(request) = [env |-> cursor, episode |-> episode[cursor], at |-> clock]
    BY <1>4 DEF Request, Observation
<1>6. /\ cached' = [cached EXCEPT ![cursor] = chunk]
      /\ nextStep' = [nextStep EXCEPT ![cursor] = 1]
      /\ cursor' = cursor + 1 /\ phase' = "serving"
      /\ UNCHANGED <<episode, clock, connection, ws, sessions, minted>>
    <2>1. Head(toClient).of = [env |-> cursor, episode |-> episode[cursor], at |-> clock]
        BY <1>2, <1>3, <1>5
    <2>2. GiveAction(chunk, 0) /\ UNCHANGED <<ws, sessions, minted>> /\ phase' = "serving"
        BY <2>1 DEF ReceiveActions
    <2> QED BY <2>2 DEF GiveAction
<1>7. chunk \in Chunks
    BY <1>0, <1>4 DEF Chunks, Envs, PolicyTypeOK
<1>8. /\ Observation(chunk) = Observation(request)
    BY <1>5 DEF Observation
<1> HIDE DEF chunk
<1>9. cursor' \in 0 .. NumEnvs
    BY <1>4, <1>6, PolicyFacts
<1>10. PolicyTypeOK'
    <2>1. toClient' \in Seq(Replies)
        BY <1>3
    <2>2. cached' \in [Envs -> Chunks \cup {None}] /\ nextStep' \in [Envs -> Nat]
        BY <1>0, <1>6, <1>7 DEF PolicyTypeOK
    <2> QED BY <2>1, <2>2, <1>0, <1>2, <1>3, <1>6, <1>7, <1>9 DEF PolicyTypeOK
<1>11. CallInProgress' /\ ChannelsInOrder'
    BY <1>0, <1>2, <1>3, <1>6 DEF CallInProgress, ChannelsInOrder
<1>12. SessionsApart' /\ HistoriesApart'
    BY <1>0, <1>2, <1>6 DEF SessionsApart, HistoriesApart
<1>13. OwnHistories'
    <2>1. \A e \in Envs : Unseen(e)' => Unseen(e)
        BY <1>1, <1>4, <1>6, PolicyFacts DEF Unseen
    <2> QED BY <2>1, <1>0, <1>2, <1>6 DEF OwnHistories, Remembers
<1>14. MemoryInStep'
    <2> SUFFICES ASSUME link, NEW e \in Envs, cached'[e] # None
                 PROVE  EndsWith(sessions[e], Observation(cached[e]))'
        BY <1>2, <1>3, <1>6 DEF MemoryInStep
    <2>1. CASE e = cursor
        <3>1. cached'[e] = chunk
            BY <2>1, <1>0, <1>4, <1>6 DEF PolicyTypeOK
        <3>2. EndsWith(sessions[cursor], Observation(request))
            BY <1>0, <1>1, <1>2 DEF MemoryInStep
        <3> QED BY <2>1, <3>1, <3>2, <1>2, <1>6, <1>8 DEF EndsWith, Observation
    <2>2. CASE e # cursor
        <3>1. cached'[e] = cached[e]
            BY <2>2, <1>0, <1>4, <1>6 DEF PolicyTypeOK
        <3>2. EndsWith(sessions[e], Observation(cached[e]))
            BY <2>2, <3>1, <1>0, <1>1 DEF MemoryInStep, Calling
        <3> QED BY <3>1, <3>2, <1>2, <1>6 DEF EndsWith, Observation
    <2> QED BY <2>1, <2>2
<1> QED BY <1>10, <1>11, <1>12, <1>13, <1>14 DEF PolicyInv

(* What is left on its way after a message was read in the call.           *)
LEMMA ReceiveStringKeeps == ASSUME PolicyInv, ReceiveString \/ ReceiveShortChunk PROVE PolicyInv'
<1>0. PolicyTypeOK /\ CallInProgress /\ ChannelsInOrder /\ SessionsApart /\ OwnHistories
      /\ HistoriesApart /\ MemoryInStep
    BY DEF PolicyInv
<1>1. /\ phase = "awaiting" /\ phase' \in {"awaiting", "failed"}
      /\ UNCHANGED <<episode, clock, cached, nextStep, connection, cursor, ws, sessions, minted,
                     request>>
    BY DEF ReceiveString, ReceiveShortChunk, replayVars
<1>2. /\ toClient' \in Seq(Replies)
      /\ \A i \in DOMAIN toClient' :
             /\ i + 1 \in DOMAIN toClient
             /\ toClient'[i] = toClient[i + 1]
             /\ i + 1 = Len(toClient) => i = Len(toClient')
      /\ UNCHANGED <<link, toServer, history>>
    BY <1>0, ReadOne DEF ReceiveString, ReceiveShortChunk
<1>3. PolicyTypeOK'
    BY <1>0, <1>1, <1>2 DEF PolicyTypeOK
<1>4. CallInProgress'
    BY <1>0, <1>1 DEF CallInProgress, Exhausted, Request
<1>5. ChannelsInOrder'
    BY <1>0, <1>1, <1>2 DEF ChannelsInOrder
<1>6. SessionsApart' /\ HistoriesApart'
    BY <1>0, <1>1, <1>2 DEF SessionsApart, HistoriesApart
<1>7. OwnHistories'
    <2>1. \A e \in Envs : Unseen(e)' => Unseen(e)
        BY <1>1, <1>2 DEF Unseen
    <2> QED BY <2>1, <1>0, <1>1, <1>2 DEF OwnHistories, Remembers
<1>8. MemoryInStep'
    BY <1>0, <1>1, <1>2 DEF MemoryInStep, Calling, EndsWith
<1> QED BY <1>3, <1>4, <1>5, <1>6, <1>7, <1>8 DEF PolicyInv

(* Nothing of the lost connection is left, and the session minted for the  *)
(* retry is new.                                                           *)
(* What is on its way is lost; what the server has seen stays seen.        *)
LEMMA LoseRequestKeeps == ASSUME PolicyInv, LoseRequest PROVE PolicyInv'
<1>0. PolicyTypeOK /\ CallInProgress /\ ChannelsInOrder /\ SessionsApart /\ OwnHistories
      /\ HistoriesApart
    BY DEF PolicyInv
<1>1. /\ phase \in {"calling", "awaiting"} /\ phase' = "connecting"
      /\ ws' = FALSE /\ link' = FALSE /\ toServer' = <<>> /\ toClient' = <<>>
      /\ UNCHANGED <<episode, clock, cached, nextStep, connection, cursor, sessions, minted,
                     request, history>>
    BY DEF LoseRequest, CallFails
<1>2. PolicyTypeOK'
    <2>1. toServer' \in Seq(Messages) /\ toClient' \in Seq(Replies)
        BY <1>1
    <2> QED BY <2>1, <1>0, <1>1 DEF PolicyTypeOK
<1>3. CallInProgress'
    BY <1>0, <1>1 DEF CallInProgress, Exhausted, Request
<1>4. ChannelsInOrder'
    BY <1>1 DEF ChannelsInOrder
<1>5. SessionsApart' /\ HistoriesApart'
    BY <1>0, <1>1 DEF SessionsApart, HistoriesApart
<1>6. OwnHistories'
    <2>1. \A e \in Envs : Unseen(e)' => Unseen(e)
        BY <1>1 DEF Unseen
    <2> QED BY <2>1, <1>0, <1>1 DEF OwnHistories, Remembers
<1>7. MemoryInStep'
    BY <1>1 DEF MemoryInStep
<1> QED BY <1>2, <1>3, <1>4, <1>5, <1>6, <1>7 DEF PolicyInv

LEMMA ReconnectPolicyKeeps == ASSUME PolicyInv, ReconnectPolicy PROVE PolicyInv'
<1>0. PolicyTypeOK /\ CallInProgress /\ ChannelsInOrder /\ SessionsApart /\ OwnHistories
      /\ HistoriesApart /\ MemoryInStep
    BY DEF PolicyInv
<1>1. phase = "connecting" /\ phase' = "calling"
    BY DEF ReconnectPolicy
<1>2. cursor \in Envs /\ request = Request(sessions[cursor])
    BY <1>0, <1>1 DEF CallInProgress
<1>3. SessionIn([e \in Envs |-> None], cursor) = minted + 1
    BY <1>2 DEF SessionIn
<1>4. /\ sessions' = [e \in Envs |-> IF e = cursor THEN minted + 1 ELSE None]
      /\ minted' = minted + 1
      /\ request' = [request EXCEPT !.session = minted + 1]
    BY <1>3 DEF ReconnectPolicy, RetriedSession
<1>5. /\ cached' = [e \in Envs |-> None] /\ nextStep' = [e \in Envs |-> 0]
      /\ toServer' = <<>> /\ toClient' = <<>>
      /\ ws' \in BOOLEAN /\ link' = ws'
      /\ UNCHANGED <<episode, clock, cursor, history>>
    BY DEF ReconnectPolicy
<1>6. connection' \in Nat
    BY <1>0, RemoteFacts DEF ReconnectPolicy, NextConnection, PolicyTypeOK
<1>7. minted \in Nat /\ None \notin Nat
    BY <1>0, PolicyFacts DEF PolicyTypeOK
<1>8. PolicyTypeOK'
    <2>1. sessions' \in [Envs -> Nat \cup {None}] /\ minted' \in Nat
        BY <1>4, <1>7
    <2>2. toServer' \in Seq(Messages) /\ toClient' \in Seq(Replies)
        BY <1>5
    <2>3. cached' \in [Envs -> Chunks \cup {None}] /\ nextStep' \in [Envs -> Nat]
        BY <1>5
    <2> QED BY <2>1, <2>2, <2>3, <1>0, <1>1, <1>5, <1>6 DEF PolicyTypeOK
<1>9. CallInProgress'
    <2>1. request' = [kind |-> "infer", session |-> minted + 1, env |-> cursor,
                      episode |-> episode[cursor], at |-> clock]
        BY <1>2, <1>4 DEF Request
    <2>2. sessions'[cursor] = minted + 1 /\ minted + 1 # None /\ cached'[cursor] = None
        BY <1>2, <1>4, <1>5, <1>7
    <2> QED BY <2>1, <2>2, <1>1, <1>2, <1>5 DEF CallInProgress, Exhausted, Request
<1>10. ChannelsInOrder'
    BY <1>5 DEF ChannelsInOrder
<1>11. minted + 1 \notin DOMAIN history /\ None \notin DOMAIN history
    BY <1>0, <1>7 DEF SessionsApart
<1>12. SessionsApart'
    <2>1. \A e \in Envs : sessions'[e] # None => e = cursor /\ sessions'[e] = minted + 1
        BY <1>4
    <2>2. \A e \in Envs : sessions'[e] # None => sessions'[e] \in 1 .. minted'
        BY <2>1, <1>4, <1>7
    <2>3. \A e, f \in Envs : e # f /\ sessions'[e] # None => sessions'[e] # sessions'[f]
        BY <2>1
    <2>4. DOMAIN history' \subseteq 1 .. minted'
        BY <1>0, <1>4, <1>5, <1>7 DEF SessionsApart
    <2> QED BY <2>2, <2>3, <2>4, <1>5 DEF SessionsApart
<1>13. OwnHistories'
    BY <1>4, <1>5, <1>11 DEF OwnHistories
<1>14. HistoriesApart'
    BY <1>0, <1>5 DEF HistoriesApart
<1>15. MemoryInStep'
    BY <1>5 DEF MemoryInStep
<1> QED BY <1>8, <1>9, <1>10, <1>12, <1>13, <1>14, <1>15 DEF PolicyInv

LEMMA GiveUpPolicyKeeps == ASSUME PolicyInv, GiveUpRequest \/ ReconnectRaises PROVE PolicyInv'
<1>0. PolicyTypeOK /\ CallInProgress /\ ChannelsInOrder /\ SessionsApart /\ OwnHistories
      /\ HistoriesApart
    BY DEF PolicyInv
<1>1. /\ phase \in {"calling", "awaiting", "connecting"} /\ phase' = "failed"
      /\ UNCHANGED <<episode, clock, cached, nextStep, connection, cursor, ws, sessions, minted,
                     request, link, toServer, toClient, history>>
    BY DEF GiveUpRequest, ReconnectRaises, CallFails, replayVars, serverVars
<1>2. PolicyTypeOK'
    BY <1>0, <1>1 DEF PolicyTypeOK
<1>3. CallInProgress'
    BY <1>0, <1>1 DEF CallInProgress, Exhausted, Request
<1>4. ChannelsInOrder'
    BY <1>0, <1>1 DEF ChannelsInOrder
<1>5. SessionsApart' /\ HistoriesApart'
    BY <1>0, <1>1 DEF SessionsApart, HistoriesApart
<1>6. OwnHistories'
    <2>1. \A e \in Envs : Unseen(e)' => Unseen(e)
        BY <1>1 DEF Unseen
    <2> QED BY <2>1, <1>0, <1>1 DEF OwnHistories, Remembers
<1>7. MemoryInStep'
    BY <1>1 DEF MemoryInStep
<1> QED BY <1>2, <1>3, <1>4, <1>5, <1>6, <1>7 DEF PolicyInv

(* Sessions whose episodes are over are forgotten by the client, and only  *)
(* those are named in the reset.                                           *)
LEMMA StepPolicyKeeps == ASSUME PolicyInv, NEW ids \in SUBSET Envs, StepPolicy(ids) PROVE PolicyInv'
<1> DEFINE uuids == {sessions[e] : e \in ids} \ {None}
           message == [kind |-> "reset", sessions |-> uuids]
<1>0. PolicyTypeOK /\ CallInProgress /\ ChannelsInOrder /\ SessionsApart /\ OwnHistories
      /\ HistoriesApart /\ MemoryInStep
    BY DEF PolicyInv
<1>1. /\ phase = "serving" /\ phase' \in {"idle", "resetting"}
      /\ clock' = clock + 1
      /\ episode' = [e \in Envs |-> IF e \in ids THEN episode[e] + 1 ELSE episode[e]]
      /\ cached' = [e \in Envs |-> IF e \in ids THEN None ELSE cached[e]]
      /\ nextStep' = [e \in Envs |-> IF e \in ids THEN 0 ELSE nextStep[e]]
      /\ sessions' = [e \in Envs |-> IF e \in ids THEN None ELSE sessions[e]]
      /\ UNCHANGED <<connection, cursor, ws, minted, request, link, toClient, history>>
    BY DEF StepPolicy, ClearedEnvs
<1>2. \/ toServer' = toServer
      \/ link /\ toServer' = Append(toServer, message)
    BY DEF StepPolicy
<1>3. uuids \subseteq 1 .. minted /\ uuids \subseteq Nat
    BY <1>0 DEF SessionsApart, PolicyTypeOK
<1>4. message \in Messages /\ ~ IsInference(message) /\ message.sessions = uuids
    BY <1>3 DEF Messages, ResetRequests, IsInference
<1>5. \A e \in Envs : sessions'[e] \notin uuids
    <2> SUFFICES ASSUME NEW e \in Envs \ ids PROVE sessions[e] \notin uuids
        BY <1>1
    <2> QED BY <1>0 DEF SessionsApart
<1> HIDE DEF message, uuids
<1>6. /\ toServer' \in Seq(Messages)
      /\ \A i \in DOMAIN toServer' :
             \/ i \in DOMAIN toServer /\ toServer'[i] = toServer[i]
             \/ toServer'[i] = message
      /\ ~ link => toServer' = toServer
    <2>1. CASE toServer' = toServer
        BY <2>1, <1>0 DEF PolicyTypeOK
    <2>2. CASE link /\ toServer' = Append(toServer, message)
        BY <2>2, <1>0, <1>4, Appended, LenProperties DEF PolicyTypeOK
    <2> QED BY <2>1, <2>2, <1>2
<1>7. PolicyTypeOK'
    <2>1. /\ episode' \in [Envs -> Nat] /\ nextStep' \in [Envs -> Nat] /\ clock' \in Nat
          /\ cached' \in [Envs -> Chunks \cup {None}]
          /\ sessions' \in [Envs -> Nat \cup {None}]
        BY <1>0, <1>1 DEF PolicyTypeOK
    <2> QED BY <2>1, <1>0, <1>1, <1>6 DEF PolicyTypeOK
<1>8. CallInProgress'
    BY <1>1 DEF CallInProgress
<1>9. ChannelsInOrder'
    <2>1. \A i \in DOMAIN toServer' : ~ IsInference(toServer'[i])
        BY <1>0, <1>1, <1>4, <1>6 DEF ChannelsInOrder
    <2>2. \A i \in DOMAIN toClient : ~ IsAnswer(toClient[i])
        BY <1>0, <1>1 DEF ChannelsInOrder
    <2> QED BY <2>1, <2>2, <1>0, <1>1, <1>6 DEF ChannelsInOrder
<1>10. SessionsApart'
    <2>1. \A e \in Envs : sessions'[e] # None => sessions'[e] = sessions[e]
        BY <1>1
    <2>2. /\ \A e \in Envs : sessions'[e] # None => sessions'[e] \in 1 .. minted
          /\ \A e, f \in Envs : e # f /\ sessions'[e] # None => sessions'[e] # sessions'[f]
        BY <2>1, <1>0, <1>1 DEF SessionsApart
    <2>3. None \notin 1 .. minted
        BY <1>0, PolicyFacts DEF PolicyTypeOK
    <2>4. ASSUME NEW i \in DOMAIN toServer', ~ IsInference(toServer'[i])
          PROVE  /\ toServer'[i].sessions \subseteq 1 .. minted
                 /\ \A e \in Envs : sessions'[e] \notin toServer'[i].sessions
        <3>1. CASE toServer'[i] = message
            BY <3>1, <1>3, <1>4, <1>5
        <3>2. CASE i \in DOMAIN toServer /\ toServer'[i] = toServer[i]
            BY <3>2, <2>1, <2>3, <2>4, <1>0 DEF SessionsApart
        <3> QED BY <3>1, <3>2, <1>6
    <2> QED BY <2>2, <2>4, <1>0, <1>1 DEF SessionsApart
<1>11. HistoriesApart'
    BY <1>0, <1>1 DEF HistoriesApart
<1>12. None \notin DOMAIN history
    BY <1>0, PolicyFacts DEF SessionsApart, PolicyTypeOK
<1>13. OwnHistories'
    <2> SUFFICES ASSUME NEW e \in Envs, sessions'[e] \in DOMAIN history,
                        NEW i \in DOMAIN history[sessions'[e]]
                 PROVE  /\ history[sessions'[e]][i].env = e
                        /\ history[sessions'[e]][i].episode = episode'[e]
                        /\ history[sessions'[e]][i].at < clock'
                        /\ history[sessions'[e]][i].at <= clock'
        BY <1>1 DEF OwnHistories, Remembers
    <2>1. sessions'[e] = sessions[e] /\ episode'[e] = episode[e]
        BY <1>1, <1>12
    <2>2. Remembers(e, history[sessions[e]][i])
        BY <2>1, <1>0 DEF OwnHistories
    <2>3. history[sessions[e]][i] \in Observations
        BY <2>1, <1>0, ElementOfSeq, LenProperties DEF PolicyTypeOK
    <2>4. history[sessions[e]][i].at \in Int /\ clock \in Int
        <3>1. \A o \in Observations : o.at \in Int
            BY DEF Observations
        <3> QED BY <2>3, <3>1, <1>0 DEF PolicyTypeOK
    <2> QED BY <2>1, <2>2, <2>4, <1>1 DEF Remembers
<1>14. MemoryInStep'
    <2>1. \A i \in DOMAIN toClient : ~ IsAnswer(toClient[i])
        BY <1>0, <1>1 DEF ChannelsInOrder
    <2> SUFFICES ASSUME link, NEW e \in Envs, cached'[e] # None
                 PROVE  EndsWith(sessions[e], Observation(cached[e]))'
        BY <2>1, <1>1 DEF MemoryInStep
    <2>2. sessions'[e] = sessions[e] /\ cached'[e] = cached[e] /\ cached[e] # None
        BY <1>1
    <2>3. EndsWith(sessions[e], Observation(cached[e]))
        BY <2>2, <1>0, <1>1 DEF MemoryInStep, Calling
    <2> QED BY <2>2, <2>3, <1>1 DEF EndsWith, Observation
<1> QED BY <1>7, <1>8, <1>9, <1>10, <1>11, <1>13, <1>14 DEF PolicyInv

LEMMA ResetEndsKeeps ==
    ASSUME PolicyInv, ResetAcknowledged \/ ResetUnacknowledged PROVE PolicyInv'
<1>0. PolicyTypeOK /\ CallInProgress /\ ChannelsInOrder /\ SessionsApart /\ OwnHistories
      /\ HistoriesApart /\ MemoryInStep
    BY DEF PolicyInv
<1>1. /\ phase = "resetting" /\ phase' = "idle"
      /\ UNCHANGED <<episode, clock, cached, nextStep, connection, cursor, ws, sessions, minted,
                     request>>
    BY DEF ResetAcknowledged, ResetUnacknowledged, replayVars
<1>2. \A i \in DOMAIN toClient : ~ IsAnswer(toClient[i])
    BY <1>0, <1>1 DEF ChannelsInOrder
<1>3. /\ toClient' \in Seq(Replies)
      /\ \A i \in DOMAIN toClient' : ~ IsAnswer(toClient'[i])
      /\ UNCHANGED <<link, toServer, history>>
    <2>1. CASE ResetAcknowledged
        BY <2>1, <1>0, <1>2, ReadOne DEF ResetAcknowledged
    <2>2. CASE ResetUnacknowledged
        BY <2>2, <1>0, <1>2 DEF ResetUnacknowledged, serverVars, PolicyTypeOK
    <2> QED BY <2>1, <2>2
<1>4. PolicyTypeOK'
    BY <1>0, <1>1, <1>3 DEF PolicyTypeOK
<1>5. CallInProgress' /\ ChannelsInOrder'
    BY <1>0, <1>1, <1>3 DEF CallInProgress, ChannelsInOrder
<1>6. SessionsApart' /\ HistoriesApart'
    BY <1>0, <1>1, <1>3 DEF SessionsApart, HistoriesApart
<1>7. OwnHistories'
    BY <1>0, <1>1, <1>3 DEF OwnHistories, Remembers, Unseen
<1>8. MemoryInStep'
    BY <1>0, <1>1, <1>3 DEF MemoryInStep, Calling, EndsWith
<1> QED BY <1>4, <1>5, <1>6, <1>7, <1>8 DEF PolicyInv

LEMMA ClosePolicyKeeps == ASSUME PolicyInv, ClosePolicy PROVE PolicyInv'
<1>0. PolicyTypeOK /\ SessionsApart /\ OwnHistories /\ HistoriesApart
    BY DEF PolicyInv
<1>1. /\ phase \in {"idle", "failed"} /\ phase' = "closed" /\ ws' = FALSE /\ link' = FALSE
      /\ toServer' = <<>> /\ toClient' = <<>>
      /\ UNCHANGED <<episode, clock, cached, nextStep, connection, cursor, sessions, minted>>
    BY DEF ClosePolicy, replayVars
<1>2. history' \in {history, <<>>}
    BY DEF ClosePolicy
<1>3. \A s \in DOMAIN history' : s \in DOMAIN history /\ history'[s] = history[s]
    BY <1>2
<1>4. PolicyTypeOK'
    <2>1. history' \in [DOMAIN history' -> Seq(Observations)]
        BY <1>0, <1>2, NoHistory DEF PolicyTypeOK
    <2>2. toServer' \in Seq(Messages) /\ toClient' \in Seq(Replies)
        BY <1>1
    <2>3. ws' \in BOOLEAN /\ link' \in BOOLEAN
        BY <1>1
    <2> QED BY <2>1, <2>2, <2>3, <1>0, <1>1 DEF PolicyTypeOK
<1>5. CallInProgress' /\ ChannelsInOrder' /\ MemoryInStep'
    BY <1>1 DEF CallInProgress, ChannelsInOrder, MemoryInStep
<1>6. SessionsApart' /\ HistoriesApart'
    BY <1>0, <1>1, <1>3 DEF SessionsApart, HistoriesApart
<1>7. OwnHistories'
    <2>1. \A e \in Envs : ~ Unseen(e)'
        BY <1>1 DEF Unseen
    <2> QED BY <2>1, <1>0, <1>1, <1>3 DEF OwnHistories, Remembers
<1> QED BY <1>4, <1>5, <1>6, <1>7 DEF PolicyInv

LEMMA PolicyInvNext == PolicyInv /\ [PolicyNext]_policyVars => PolicyInv'
<1> SUFFICES ASSUME PolicyInv, [PolicyNext]_policyVars PROVE PolicyInv'
    OBVIOUS
<1>1. CASE ServeInfer BY <1>1, ServeInferKeeps
<1>2. CASE ServeReset BY <1>2, ServeResetKeeps
<1>3. CASE LoseConnection BY <1>3, LoseConnectionKeeps
<1>4. CASE StartCall BY <1>4, GetActionKeeps
<1>5. CASE ReplayAction BY <1>5, ReplayActionKeeps
<1>6. CASE BuildRequest BY <1>6, BuildRequestKeeps
<1>7. CASE SendRequest BY <1>7, SendRequestKeeps
<1>8. CASE ReceiveActions BY <1>8, ReceiveActionsKeeps
<1>9. CASE ReceiveString \/ ReceiveShortChunk BY <1>9, ReceiveStringKeeps
<1>10. CASE ReconnectPolicy BY <1>10, ReconnectPolicyKeeps
<1>11. CASE GiveUpRequest \/ ReconnectRaises BY <1>11, GiveUpPolicyKeeps
<1>12. CASE \E ids \in SUBSET Envs : StepPolicy(ids) BY <1>12, StepPolicyKeeps
<1>13. CASE ResetAcknowledged \/ ResetUnacknowledged BY <1>13, ResetEndsKeeps
<1>14. CASE ClosePolicy BY <1>14, ClosePolicyKeeps
<1>15. CASE UNCHANGED policyVars
    <2>0. PolicyTypeOK /\ CallInProgress /\ ChannelsInOrder /\ SessionsApart /\ OwnHistories
          /\ HistoriesApart /\ MemoryInStep
        BY DEF PolicyInv
    <2>1. UNCHANGED <<replayVars, phase, ws, sessions, minted, request, link, toServer, toClient,
                      history>>
        BY <1>15 DEF policyVars, clientVars, serverVars
    <2>2. PolicyTypeOK' /\ CallInProgress' /\ ChannelsInOrder'
        BY <2>0, <2>1 DEF replayVars, PolicyTypeOK, CallInProgress, ChannelsInOrder, Exhausted,
            Request, Observation
    <2>3. SessionsApart' /\ HistoriesApart'
        BY <2>0, <2>1 DEF SessionsApart, HistoriesApart
    <2>4. OwnHistories'
        BY <2>0, <2>1 DEF replayVars, OwnHistories, Remembers, Unseen
    <2>5. MemoryInStep'
        BY <2>0, <2>1 DEF replayVars, MemoryInStep, EndsWith, Calling, Observation
    <2> QED BY <2>2, <2>3, <2>4, <2>5 DEF PolicyInv
<1>16. CASE LoseRequest BY <1>16, LoseRequestKeeps
<1> QED BY <1>1, <1>2, <1>3, <1>4, <1>5, <1>6, <1>7, <1>8, <1>9, <1>10, <1>11, <1>12, <1>13,
           <1>14, <1>15, <1>16 DEF PolicyNext

LEMMA PolicyInvAlways == PolicySpec => []PolicyInv
BY PolicyInvInit, PolicyInvNext, PTL DEF PolicySpec

(* A session remembers what its environment has seen in its present        *)
(* episode, each observation once and in order, and while the connection   *)
(* is open it ends with the one the chunk in use was planned from: however *)
(* connections are lost, requests retried, environments reset and          *)
(* acknowledgements delayed, the histories do not mix.                     *)
THEOREM HistoriesAreApart == PolicySpec => []HistoriesDoNotMix
<1>1. PolicyInv => HistoriesDoNotMix
    <2> SUFFICES ASSUME PolicyInv, phase \in {"idle", "resetting"}, link, NEW e \in Envs,
                        cached[e] # None
                 PROVE  EndsWith(sessions[e], Observation(cached[e]))
        BY DEF PolicyInv, HistoriesDoNotMix, HistoryInStep, EndsWith, Observation
    <2> QED BY DEF PolicyInv, MemoryInStep, Calling
<1> QED BY <1>1, PolicyInvAlways, PTL

-----------------------------------------------------------------------------
(* The answer the client waits for. *)
Due ==
    phase = "awaiting" /\ link =>
        \/ \E i \in DOMAIN toServer : IsInference(toServer[i])
        \/ \E i \in DOMAIN toClient : toClient[i].kind = "actions"

(* The server answers an inference with actions, and no action of the      *)
(* client discards them while it waits.                                    *)
LEMMA DueNext ==
    ASSUME InferReplies = {"actions"}, PolicyInv, Due, [PolicyNext]_policyVars PROVE Due'
<1>0. PolicyTypeOK /\ toServer \in Seq(Messages) /\ toClient \in Seq(Replies)
    BY DEF PolicyInv, PolicyTypeOK
<1>1. CASE ServeInfer
    <2>1. PICK m \in Observations : toClient' = Append(toClient, [kind |-> "actions", of |-> m])
        <3>1. /\ 1 \in DOMAIN toServer /\ Head(toServer) = toServer[1] /\ toServer[1] \in Messages
              /\ toServer[1].kind = "infer"
            BY <1>0, <1>1, Remaining DEF ServeInfer
        <3>2. Observation(toServer[1]) \in Observations
            BY <3>1 DEF Messages, Inferences, ResetRequests, Observations, Observation
        <3> QED BY <1>1, <3>1, <3>2 DEF ServeInfer
    <2> DEFINE answer == [kind |-> "actions", of |-> m]
    <2>2. answer \in Replies /\ answer.kind = "actions"
        BY <2>1 DEF Replies
    <2> HIDE DEF answer
    <2>3. toClient' = Append(toClient, answer)
        BY <2>1 DEF answer
    <2>4. Len(toClient) + 1 \in DOMAIN toClient' /\ toClient'[Len(toClient) + 1] = answer
        BY <1>0, <2>2, <2>3, Appended, LenProperties
    <2> QED BY <2>2, <2>4 DEF Due
<1>2. CASE ServeReset
    <2> DEFINE acknowledgement == [kind |-> "acknowledged"]
    <2>1. acknowledgement \in Replies
        BY DEF Replies
    <2>2. toClient' = Append(toClient, acknowledgement) /\ toServer' = Tail(toServer)
          /\ UNCHANGED <<phase, link>> /\ toServer # <<>> /\ Head(toServer).kind = "reset"
        BY <1>2 DEF ServeReset, clientVars
    <2> HIDE DEF acknowledgement
    <2>3. \A i \in DOMAIN toClient : i \in DOMAIN toClient' /\ toClient'[i] = toClient[i]
        BY <1>0, <2>1, <2>2, Appended
    <2>4. ~ IsInference(toServer[1])
        BY <1>0, <2>2, Remaining DEF IsInference
    <2>5. \A i \in DOMAIN toServer : i # 1 =>
              i - 1 \in DOMAIN toServer' /\ toServer'[i - 1] = toServer[i]
        <3>1. /\ toServer' \in Seq(Messages) /\ Len(toServer') = Len(toServer) - 1
              /\ \A i \in 1 .. Len(toServer') : toServer'[i] = toServer[i + 1]
            BY <1>0, <2>2, HeadTailProperties
        <3>2. /\ DOMAIN toServer = 1 .. Len(toServer) /\ Len(toServer) \in Nat
              /\ DOMAIN toServer' = 1 .. Len(toServer')
            BY <1>0, <3>1, LenProperties
        <3> QED BY <3>1, <3>2
    <2> QED BY <2>2, <2>3, <2>4, <2>5 DEF Due
<1>3. CASE SendRequest
    <2>1. request \in Messages /\ IsInference(request) /\ toServer' = Append(toServer, request)
        BY <1>0, <1>3 DEF SendRequest, PolicyInv, CallInProgress, Request, Messages, Inferences,
            IsInference, PolicyTypeOK
    <2>2. Len(toServer) + 1 \in DOMAIN toServer' /\ toServer'[Len(toServer) + 1] = request
        BY <1>0, <2>1, Appended, LenProperties
    <2> QED BY <2>1, <2>2 DEF Due
<1>4. CASE ReceiveString
    <2>1. /\ 1 \in DOMAIN toClient /\ Head(toClient) = toClient[1] /\ toClient[1].kind # "actions"
          /\ UNCHANGED <<link, toServer>> /\ phase = "awaiting" /\ toClient # <<>>
          /\ toClient' = Tail(toClient)
        BY <1>0, <1>4, ReadOne DEF ReceiveString, Receives, Strings
    <2>2. \A i \in DOMAIN toClient : i # 1 =>
              i - 1 \in DOMAIN toClient' /\ toClient'[i - 1] = toClient[i]
        <3>1. /\ toClient' \in Seq(Replies) /\ Len(toClient') = Len(toClient) - 1
              /\ \A i \in 1 .. Len(toClient') : toClient'[i] = toClient[i + 1]
            BY <1>0, <2>1, HeadTailProperties
        <3>2. /\ DOMAIN toClient = 1 .. Len(toClient) /\ Len(toClient) \in Nat
              /\ DOMAIN toClient' = 1 .. Len(toClient')
            BY <1>0, <3>1, LenProperties
        <3> QED BY <3>1, <3>2
    <2> QED BY <2>1, <2>2 DEF Due
<1>5. CASE LoseConnection
    BY <1>5 DEF LoseConnection, Due
<1>6. CASE UNCHANGED <<phase, link, toServer, toClient>>
    BY <1>6 DEF Due
<1>7. CASE phase' # "awaiting"
    BY <1>7 DEF Due
<1>8. \/ ServeInfer \/ ServeReset \/ SendRequest \/ ReceiveString \/ LoseConnection
      \/ UNCHANGED <<phase, link, toServer, toClient>>
      \/ phase' # "awaiting"
    BY DEF PolicyNext, policyVars, replayVars, clientVars, serverVars, StartCall, ReplayAction, Serving,
        BuildRequest, ReceiveActions, ReceiveShortChunk, LoseRequest, ReconnectPolicy,
        ReconnectRaises, GiveUpRequest, StepPolicy, ResetAcknowledged, ResetUnacknowledged, ClosePolicy
<1> QED BY <1>1, <1>2, <1>3, <1>4, <1>5, <1>6, <1>7, <1>8

(* A client that waits on an open connection to a server that answers      *)
(* inferences with actions will be answered: it has not discarded what it  *)
(* waits for, however many late acknowledgements came before.  A server    *)
(* that answers with an error string is the disagreement described in the  *)
(* README.                                                                 *)
THEOREM AnswersAreDue == ASSUME InferReplies = {"actions"} PROVE PolicySpec => []AnswerIsDue
<1>1. PolicyInit => Due
    BY DEF PolicyInit, Due
<1>2. PolicyInv /\ Due /\ [PolicyNext]_policyVars => Due'
    BY DueNext
<1>3. PolicyInv /\ Due => AnswerIsDue
    BY DEF PolicyInv, ChannelsInOrder, Due, AnswerIsDue, IsAnswer
<1> QED BY <1>1, <1>2, <1>3, PolicyInvAlways, PTL DEF PolicySpec

-----------------------------------------------------------------------------
(* The refinement. *)
LEMMA ReplayInit == PolicyInit => ChunkReplay!Init
BY DEF PolicyInit, ChunkReplay!Init, Envs, ChunkReplay!Envs

(* A step of the call that changes the replay, or ends an attempt, is the  *)
(* step of the chunk replay: sending, answering and waiting stutter.       *)
LEMMA ReplaySteps ==
    ASSUME PolicyInv, [PolicyNext]_policyVars PROVE [ChunkReplay!Next]_(ChunkReplay!vars)
<1>1. CASE ServeInfer \/ ServeReset \/ LoseConnection \/ SendRequest \/ BuildRequest
           \/ ResetAcknowledged \/ ResetUnacknowledged \/ UNCHANGED policyVars
    BY <1>1 DEF ServeInfer, ServeReset, LoseConnection, SendRequest, BuildRequest, Serving,
        ResetAcknowledged, ResetUnacknowledged, policyVars, replayVars, clientVars, ChunkReplay!vars
<1>2. CASE StartCall
    <2>1. ChunkReplay!GetAction
        BY <1>2 DEF StartCall, ChunkReplay!GetAction
    <2> QED BY <2>1 DEF ChunkReplay!Next
<1>3. CASE ReplayAction
    <2>1. ChunkReplay!Replay
        BY <1>3 DEF ReplayAction, Serving, Exhausted, GiveAction, clientVars, Envs, ChunkReplay!Replay,
            ChunkReplay!Serving, ChunkReplay!Exhausted, ChunkReplay!Give, ChunkReplay!RowAfter,
            ChunkReplay!Envs
    <2> QED BY <2>1 DEF ChunkReplay!Next
<1> DEFINE InCall == phase \in {"calling", "awaiting"}
<1>4. InCall => ChunkReplay!Serving /\ ChunkReplay!Exhausted(cursor)
    BY DEF PolicyInv, CallInProgress, Exhausted, Envs, ChunkReplay!Serving,
        ChunkReplay!Exhausted, ChunkReplay!Envs
<1>5. CASE ReceiveActions
    <2>1. Head(toClient) = toClient[1] /\ 1 \in DOMAIN toClient /\ IsAnswer(toClient[1])
        BY <1>5, ReadOne DEF ReceiveActions, PolicyInv, IsAnswer
    <2>2. Head(toClient).of = [env |-> cursor, episode |-> episode[cursor], at |-> clock]
        BY <2>1, <1>5 DEF ReceiveActions, PolicyInv, ChannelsInOrder, CallInProgress, Request,
            Observation
    <2>3. GiveAction(ChunkReplay!Planned, 0)
        BY <1>5, <2>2 DEF ReceiveActions, ChunkReplay!Planned
    <2>4. ChunkReplay!Infer
        BY <1>4, <1>5, <2>3 DEF ReceiveActions, GiveAction, ChunkReplay!Infer, ChunkReplay!Give,
            ChunkReplay!RowAfter
    <2> QED BY <2>4 DEF ChunkReplay!Next
<1>6. CASE ReceiveString
    <2>1. CASE phase' = "failed"
        <3>1. ChunkReplay!CallRaises
            BY <1>4, <1>6, <2>1 DEF ReceiveString, replayVars, ChunkReplay!CallRaises
        <3> QED BY <3>1 DEF ChunkReplay!Next
    <2>2. CASE phase' = phase
        BY <1>6, <2>2 DEF ReceiveString, replayVars, ChunkReplay!vars
    <2> QED BY <2>1, <2>2, <1>6 DEF ReceiveString
<1>7. CASE ReceiveShortChunk
    <2>1. ChunkReplay!CallRaises
        BY <1>4, <1>7 DEF ReceiveShortChunk, replayVars, ChunkReplay!CallRaises
    <2> QED BY <2>1 DEF ChunkReplay!Next
<1>8. CASE ReconnectPolicy
    <2>1. ChunkReplay!Reconnect
        BY <1>8 DEF ReconnectPolicy, NextConnection, Envs, ChunkReplay!Reconnect,
            ChunkReplay!NextConnection, ChunkReplay!FlushedEnvs, ChunkReplay!Envs
    <2> QED BY <2>1 DEF ChunkReplay!Next
<1>9. CASE GiveUpRequest
    <2>1. ChunkReplay!GiveUp
        BY <1>4, <1>9 DEF GiveUpRequest, CallFails, replayVars, ChunkReplay!GiveUp, ChunkReplay!Failed
    <2> QED BY <2>1 DEF ChunkReplay!Next
<1>10. CASE \E ids \in SUBSET Envs : StepPolicy(ids)
    <2>1. PICK ids \in SUBSET Envs : StepPolicy(ids)
        BY <1>10
    <2>2. ChunkReplay!Step(ids) /\ ids \in SUBSET ChunkReplay!Envs
        BY <2>1 DEF StepPolicy, ClearedEnvs, Envs, ChunkReplay!Step, ChunkReplay!ResetEnvs,
            ChunkReplay!Envs
    <2> QED BY <2>2 DEF ChunkReplay!Next
<1>11. CASE ClosePolicy
    <2>1. ChunkReplay!Close
        BY <1>11 DEF ClosePolicy, replayVars, ChunkReplay!Close
    <2> QED BY <2>1 DEF ChunkReplay!Next
<1>12. CASE LoseRequest
    <2>1. ChunkReplay!LoseAttempt
        BY <1>4, <1>12 DEF LoseRequest, CallFails, ChunkReplay!LoseAttempt, ChunkReplay!Failed
    <2> QED BY <2>1 DEF ChunkReplay!Next
<1>13. CASE ReconnectRaises
    <2>1. ChunkReplay!ConnectRaises
        BY <1>13 DEF ReconnectRaises, replayVars, ChunkReplay!ConnectRaises
    <2> QED BY <2>1 DEF ChunkReplay!Next
<1> QED BY <1>1, <1>2, <1>3, <1>5, <1>6, <1>7, <1>8, <1>9, <1>10, <1>11, <1>12, <1>13 DEF PolicyNext

(* Sessions, channels and losses aside, the DreamZero policy is a chunk    *)
(* replay policy: what is proved of chunk replay above holds for it.       *)
THEOREM PolicyReplaysChunks == PolicySpec => ReplaysChunks
<1>1. PolicyInv /\ [PolicyNext]_policyVars => [ChunkReplay!Next]_(ChunkReplay!vars)
    BY ReplaySteps
<1> QED BY <1>1, ReplayInit, PolicyInvAlways, PTL DEF PolicySpec, ReplaysChunks, ChunkReplay!Spec
=============================================================================
