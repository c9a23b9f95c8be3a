------------------------ MODULE VLMAgentPolicy_proof ------------------------
(***************************************************************************)
(* The safety of the VLM agent policies, for any number of environments,   *)
(* worker threads, attempts and retries.                                   *)
(***************************************************************************)
EXTENDS VLMAgentPolicy, SequenceTheorems, TLAPS

(* The last prediction stored for e in its present episode, and the next.  *)
LastStored(e) == [env |-> e, episode |-> episode[e], number |-> asked[e]]
Due(e) == [env |-> e, episode |-> episode[e], number |-> asked[e] + 1]

Commands(e) == [prediction : {LastStored(e)}, place : 1 .. ChunkSize]

(* While a call runs, every goal that is kept has a step left.             *)
GoalLimit == IF at \in {"infer", "act"} THEN MaxStepsPerGoal - 1 ELSE MaxStepsPerGoal

Goals(e) == [prediction : {LastStored(e)}, executed : 1 .. GoalLimit]

EndedGoalsOf(e) == {goal \in EndedGoals : goal.of = LastStored(e) /\ goal.executed \in 1 .. MaxStepsPerGoal}

ChunkFits(e) == kind = "chunk" => current[e] = None /\ chunks[e] \in Seq(Commands(e))

(* The last prediction of e is its current goal or its previous one.       *)
GoalFits(e) ==
    kind = "goal" =>
        \/ asked[e] = 0 /\ current[e] = None /\ previous[e] = None
        \/ asked[e] # 0 /\ current[e] \in Goals(e)
        \/ asked[e] # 0 /\ current[e] = None /\ previous[e] \in EndedGoalsOf(e)

Ready(e) == IF kind = "chunk" THEN chunks[e] # <<>> ELSE current[e] \in Goals(e)

ConversationFits(e) ==
    e \in DOMAIN conversations =>
        /\ conversations[e].asked = Due(e)
        /\ kind = "goal" =>
               /\ conversations[e].previous = previous[e]
               /\ IF asked[e] = 0 THEN previous[e] = None ELSE previous[e] \in EndedGoalsOf(e)
        /\ at \in {"infer", "raised", "closed"}

(* During a call an environment can act, or has its prediction, or waits   *)
(* for it.                                                                 *)
CallFits(e) ==
    at \in {"infer", "act"} =>
        /\ e \in DOMAIN conversations \/ e \in DOMAIN commands \/ Ready(e)
        /\ e \in DOMAIN commands => commands[e] = Due(e)

TypeOK ==
    /\ kind \in {"chunk", "goal"}
    /\ episode \in [Envs -> Nat]
    /\ asked \in [Envs -> Nat]
    /\ DOMAIN conversations \subseteq Envs
    /\ at \in {"get action", "infer", "act", "step", "raised", "closed"}

EnvInv(e) ==
    /\ ChunkFits(e)
    /\ GoalFits(e)
    /\ ConversationFits(e)
    /\ CallFits(e)

OwnPredictions == \A e \in Envs : given[e] # None => IsOwn(e)

IInv ==
    /\ TypeOK
    /\ \A e \in Envs : EnvInv(e)
    /\ OwnPredictions

-----------------------------------------------------------------------------
LEMMA NothingYet == DOMAIN <<>> = {}
<1>1. <<>> \in Seq({}) /\ Len(<<>>) = 0
    BY EmptySeq
<1>2. DOMAIN <<>> = 1 .. Len(<<>>)
    BY <1>1, LenProperties
<1> QED
    BY <1>1, <1>2

LEMMA IInvInit == Init => IInv
<1> SUFFICES ASSUME Init PROVE IInv
    OBVIOUS
<1>1. TypeOK
    BY NothingYet DEF Init, TypeOK
<1>2. OwnPredictions
    BY DEF Init, OwnPredictions, IsOwn
<1>3. ASSUME NEW e \in Envs PROVE EnvInv(e)
    <2>1. chunks[e] = <<>> /\ current[e] = None /\ previous[e] = None /\ asked[e] = 0
        BY DEF Init
    <2>2. chunks[e] \in Seq(Commands(e))
        BY <2>1, EmptySeq
    <2>3. e \notin DOMAIN conversations /\ at = "get action"
        BY NothingYet DEF Init
    <2> QED
        BY <2>1, <2>2, <2>3
        DEF EnvInv, ChunkFits, GoalFits, ConversationFits, CallFits
<1> QED
    BY <1>1, <1>2, <1>3 DEF IInv

LEMMA OneStepLess == 1 .. MaxStepsPerGoal - 1 \subseteq 1 .. MaxStepsPerGoal
BY PolicyAssumption

(* The invariant does not depend on the thread pool, and a call that ends  *)
(* by an exception leaves what was stored as it was.                       *)
LEMMA QuietSteps ==
    ASSUME IInv, UNCHANGED <<config, envVars, policyVars, conversations, commands>>,
           \/ at' = at
           \/ at' \in {"raised", "closed"} /\ at \in {"get action", "act", "infer", "raised"}
    PROVE  IInv'
<1>1. /\ UNCHANGED <<kind, episode, steps, chunks, current, previous, asked, given,
                     conversations, commands>>
    BY DEF config, envVars, policyVars
<1>2. TypeOK'
    BY <1>1 DEF IInv, TypeOK
<1>3. OwnPredictions'
    BY <1>1 DEF IInv, OwnPredictions, IsOwn
<1>4. ASSUME NEW e \in Envs PROVE EnvInv(e)'
    <2>1. LastStored(e)' = LastStored(e) /\ Due(e)' = Due(e)
        BY <1>1 DEF LastStored, Due
    <2>2. Commands(e)' = Commands(e) /\ EndedGoalsOf(e)' = EndedGoalsOf(e)
        BY <2>1 DEF Commands, EndedGoalsOf
    <2>3. Goals(e) \subseteq Goals(e)'
        <3>1. CASE at' = at
            BY <2>1, <3>1 DEF Goals, GoalLimit
        <3>2. CASE at' \in {"raised", "closed"}
            <4>1. GoalLimit' = MaxStepsPerGoal
                BY <3>2 DEF GoalLimit
            <4>2. CASE GoalLimit = MaxStepsPerGoal
                BY <2>1, <4>1, <4>2 DEF Goals
            <4>3. CASE GoalLimit = MaxStepsPerGoal - 1
                BY <2>1, <4>1, <4>3, OneStepLess DEF Goals
            <4> QED
                BY <4>2, <4>3 DEF GoalLimit
        <3> QED BY <3>1, <3>2
    <2>4. EnvInv(e)
        BY DEF IInv
    <2>5. ChunkFits(e)'
        BY <1>1, <2>2, <2>4 DEF EnvInv, ChunkFits
    <2>6. GoalFits(e)'
        BY <1>1, <2>2, <2>3, <2>4 DEF EnvInv, GoalFits
    <2>7. ConversationFits(e)'
        BY <1>1, <2>1, <2>2, <2>4 DEF EnvInv, ConversationFits
    <2>8. CallFits(e)'
        <3>1. CASE at' = at
            <4>1. Goals(e)' = Goals(e)
                BY <3>1, <2>1 DEF Goals, GoalLimit
            <4> QED
                BY <3>1, <4>1, <1>1, <2>1, <2>4 DEF EnvInv, CallFits, Ready
        <3>2. CASE at' \in {"raised", "closed"}
            BY <3>2 DEF CallFits
        <3> QED BY <3>1, <3>2
    <2> QED
        BY <2>5, <2>6, <2>7, <2>8 DEF EnvInv
<1> QED
    BY <1>2, <1>3, <1>4 DEF IInv

(* What Ask leaves to be done next. *)
LEMMA AskGoes ==
    ASSUME NEW ids, Ask(ids)
    PROVE  /\ at' \in {"infer", "act", "raised"}
           /\ ids # {} => at' # "act"
           /\ ids = {} => at' = "act"
BY DEF Ask

LEMMA GetActionKeeps == ASSUME IInv, GetAction PROVE IInv'
<1>1. PICK outcome \in [Envs -> {"reached", "blocked", "timeout", "still_executing"}] :
          /\ \A e \in Envs : IF current[e] = None THEN outcome[e] = "still_executing"
                             ELSE outcome[e] \in Outcomes(e)
          /\ previous' = [e \in Envs |->
                 IF e \in {i \in Envs : outcome[i] # "still_executing"}
                 THEN [of |-> current[e].prediction, outcome |-> outcome[e],
                       executed |-> current[e].executed]
                 ELSE previous[e]]
          /\ current' = [e \in Envs |->
                 IF e \in {i \in Envs : outcome[i] # "still_executing"} THEN None ELSE current[e]]
    BY DEF GetAction
<1>2. /\ conversations' = [e \in {i \in Envs : NeedsPrediction(i)} |-> RequestContent(e)]
      /\ commands' = <<>>
      /\ Ask(DOMAIN conversations')
      /\ UNCHANGED <<kind, workers, episode, steps, chunks, asked, given>>
      /\ at = "get action"
    BY DEF GetAction, config, envVars
<1>3. /\ at' \in {"infer", "act", "raised"}
      /\ DOMAIN conversations' # {} => at' # "act"
    BY <1>2, AskGoes
<1>4. DOMAIN conversations' = {i \in Envs : NeedsPrediction(i)} /\ DOMAIN commands' = {}
    BY <1>2, NothingYet
<1>5. TypeOK'
    BY <1>2, <1>3, <1>4 DEF IInv, TypeOK
<1>6. OwnPredictions'
    BY <1>2 DEF IInv, OwnPredictions, IsOwn
<1>7. MaxStepsPerGoal \in Nat \ {0}
    BY PolicyAssumption
<1>8. ASSUME NEW e \in Envs PROVE EnvInv(e)'
    <2>1. LastStored(e)' = LastStored(e) /\ Due(e)' = Due(e) /\ asked'[e] = asked[e] /\ chunks'[e] = chunks[e]
        BY <1>2 DEF LastStored, Due
    <2>2. Commands(e)' = Commands(e) /\ EndedGoalsOf(e)' = EndedGoalsOf(e)
        BY <2>1 DEF Commands, EndedGoalsOf
    <2>3. EnvInv(e) /\ asked[e] \in Nat /\ episode[e] \in Nat
        BY DEF IInv, TypeOK
    <2>4. LastStored(e) \in Predictions
        BY <2>3 DEF LastStored, Predictions
    <2>5. ChunkFits(e)'
        BY <1>1, <1>2, <2>1, <2>2, <2>3 DEF EnvInv, ChunkFits
    <2>6. ASSUME kind = "goal", current[e] # None, outcome[e] # "still_executing"
          PROVE  asked[e] # 0 /\ current'[e] = None /\ previous'[e] \in EndedGoalsOf(e)
        <3>1. asked[e] # 0 /\ current[e] \in Goals(e)
            BY <2>3, <2>6 DEF EnvInv, GoalFits
        <3>2. current[e].prediction = LastStored(e) /\ current[e].executed \in 1 .. MaxStepsPerGoal
            BY <3>1, <1>2 DEF Goals, GoalLimit
        <3>3. outcome[e] \in {"reached", "blocked", "timeout"}
            BY <1>1, <2>6
        <3>4. previous'[e] = [of |-> LastStored(e), outcome |-> outcome[e],
                              executed |-> current[e].executed]
            BY <1>1, <2>6, <3>2
        <3>5. previous'[e] \in EndedGoals
            BY <3>2, <3>3, <3>4, <1>7, <2>4 DEF EndedGoals
        <3> QED
            BY <1>1, <2>6, <3>1, <3>2, <3>4, <3>5 DEF EndedGoalsOf
    <2>7. ASSUME kind = "goal", current[e] # None, outcome[e] = "still_executing"
          PROVE  asked[e] # 0 /\ current'[e] \in Goals(e)'
        <3>1. asked[e] # 0 /\ current[e] \in Goals(e)
            BY <2>3, <2>7 DEF EnvInv, GoalFits
        <3>2. outcome[e] \in Outcomes(e)
            BY <1>1, <2>7
        <3>3. ~ current[e].executed >= MaxStepsPerGoal
            BY <3>2, <2>7 DEF Outcomes
        <3>4. current[e].executed \in 1 .. MaxStepsPerGoal
            BY <3>1, <1>2 DEF Goals, GoalLimit
        <3>5. current[e].executed \in 1 .. MaxStepsPerGoal - 1
            BY <3>3, <3>4, <1>7
        <3>6. current'[e] = current[e]
            BY <1>1, <2>7
        <3>7. current[e].executed \in 1 .. GoalLimit'
            BY <3>4, <3>5 DEF GoalLimit
        <3> QED
            BY <3>1, <3>6, <3>7, <2>1 DEF Goals
    <2>8. ASSUME kind = "goal", current[e] = None
          PROVE  /\ current'[e] = None /\ previous'[e] = previous[e]
                 /\ IF asked[e] = 0 THEN previous[e] = None
                    ELSE previous[e] \in EndedGoalsOf(e)
        <3>1. outcome[e] = "still_executing"
            BY <1>1, <2>8
        <3>2. None \notin Goals(e)
            <4>1. Goals(e) \subseteq [prediction : Predictions, executed : Nat]
                BY <2>4, <1>7 DEF Goals, GoalLimit
            <4> QED BY <4>1, PolicyAssumption
        <3> QED
            BY <1>1, <3>1, <3>2, <2>3, <2>8 DEF EnvInv, GoalFits
    <2>9. GoalFits(e)'
        BY <1>2, <2>1, <2>2, <2>6, <2>7, <2>8 DEF GoalFits
    <2>10. ConversationFits(e)'
        <3> SUFFICES ASSUME e \in DOMAIN conversations' PROVE ConversationFits(e)'
            BY DEF ConversationFits
        <3>1. NeedsPrediction(e) /\ conversations'[e] = RequestContent(e)
            BY <1>2, <1>4
        <3>2. conversations'[e].asked = Due(e)' /\ conversations'[e].previous = previous'[e]
            BY <3>1, <2>1 DEF RequestContent, Due
        <3>3. at' \in {"infer", "raised"}
            BY <1>3
        <3>4. kind = "goal" => current'[e] = None
            BY <3>1 DEF NeedsPrediction
        <3>5. None \notin Goals(e)'
            <4>1. GoalLimit' \in Int
                BY <1>7 DEF GoalLimit
            <4>2. Goals(e)' \subseteq [prediction : Predictions, executed : Nat]
                BY <2>1, <2>4, <4>1 DEF Goals
            <4> QED BY <4>2, PolicyAssumption
        <3>6. kind = "goal" =>
                  IF asked[e] = 0 THEN previous'[e] = None ELSE previous'[e] \in EndedGoalsOf(e)
            BY <3>4, <3>5, <2>6, <2>7, <2>8
        <3> QED
            BY <3>2, <3>3, <3>6, <1>2, <2>1, <2>2 DEF ConversationFits
    <2>11. CallFits(e)'
        <3>1. ASSUME e \notin DOMAIN conversations' PROVE Ready(e)'
            <4>1. ~ NeedsPrediction(e)
                BY <3>1, <1>4
            <4>2. CASE kind = "chunk"
                BY <4>1, <4>2, <1>2 DEF NeedsPrediction, Ready
            <4>3. CASE kind = "goal"
                <5>1. current'[e] # None
                    BY <4>1, <4>3 DEF NeedsPrediction
                <5> QED
                    BY <4>3, <5>1, <1>2, <2>6, <2>7, <2>8 DEF Ready
            <4> QED BY <4>2, <4>3 DEF IInv, TypeOK
        <3> QED BY <3>1, <1>4 DEF CallFits
    <2> QED
        BY <2>5, <2>9, <2>10, <2>11 DEF EnvInv
<1> QED
    BY <1>5, <1>6, <1>8 DEF IInv

-----------------------------------------------------------------------------
LEMMA ValidateKeeps == ASSUME IInv, Validate PROVE IInv'
<1>1. PICK rejected \in SUBSET DOMAIN conversations :
          /\ commands' = [e \in DOMAIN commands \cup (DOMAIN conversations \ rejected) |->
                 IF e \in DOMAIN conversations \ rejected
                 THEN conversations[Output(e)].asked ELSE commands[e]]
          /\ conversations' = Restricted(conversations, rejected)
          /\ Ask(rejected)
    BY DEF Validate
<1>2. /\ at = "infer"
      /\ UNCHANGED <<kind, workers, episode, steps, chunks, current, previous, asked, given>>
    BY DEF Validate, config, envVars, policyVars
<1>3. /\ at' \in {"infer", "act", "raised"}
      /\ rejected # {} => at' # "act"
    BY <1>1, AskGoes
<1>4. /\ DOMAIN conversations' = rejected
      /\ \A e \in rejected : conversations'[e] = conversations[e]
    BY <1>1 DEF Restricted
<1>5. TypeOK'
    BY <1>2, <1>3, <1>4 DEF IInv, TypeOK
<1>6. OwnPredictions'
    BY <1>2 DEF IInv, OwnPredictions, IsOwn
<1>7. MaxStepsPerGoal \in Nat \ {0}
    BY PolicyAssumption
<1>8. ASSUME NEW e \in Envs PROVE EnvInv(e)'
    <2>1. LastStored(e)' = LastStored(e) /\ Due(e)' = Due(e)
        BY <1>2 DEF LastStored, Due
    <2>2. Commands(e)' = Commands(e) /\ EndedGoalsOf(e)' = EndedGoalsOf(e)
        BY <2>1 DEF Commands, EndedGoalsOf
    <2>3. Goals(e) \subseteq Goals(e)'
        BY <1>2, <1>7, <2>1 DEF Goals, GoalLimit
    <2>4. EnvInv(e)
        BY DEF IInv
    <2>5. ChunkFits(e)'
        BY <1>2, <2>2, <2>4 DEF EnvInv, ChunkFits
    <2>6. GoalFits(e)'
        BY <1>2, <2>2, <2>3, <2>4 DEF EnvInv, GoalFits
    <2>7. ConversationFits(e)'
        <3> SUFFICES ASSUME e \in rejected PROVE ConversationFits(e)'
            BY <1>4 DEF ConversationFits
        <3>1. e \in DOMAIN conversations /\ at' \in {"infer", "raised"}
            BY <1>1, <1>3
        <3> QED
            BY <3>1, <1>2, <1>4, <2>1, <2>2, <2>4 DEF EnvInv, ConversationFits
    <2>8. CallFits(e)'
        <3>1. Ready(e) => Ready(e)'
            BY <1>2, <2>3 DEF Ready
        <3>2. DOMAIN commands' = DOMAIN commands \cup (DOMAIN conversations \ rejected)
            BY <1>1
        <3>3. e \in DOMAIN conversations' \/ e \in DOMAIN commands' \/ Ready(e)'
            BY <1>2, <1>4, <2>4, <3>1, <3>2 DEF EnvInv, CallFits
        <3>4. ASSUME e \in DOMAIN commands' PROVE commands'[e] = Due(e)'
            <4>1. CASE e \in DOMAIN conversations \ rejected
                <5>1. commands'[e] = conversations[e].asked
                    BY <4>1, <1>1, <3>2, <3>4 DEF Output
                <5> QED
                    BY <4>1, <5>1, <2>1, <2>4 DEF EnvInv, ConversationFits
            <4>2. CASE e \notin DOMAIN conversations \ rejected
                <5>1. e \in DOMAIN commands /\ commands'[e] = commands[e]
                    BY <4>2, <1>1, <3>2, <3>4
                <5> QED
                    BY <5>1, <1>2, <2>1, <2>4 DEF EnvInv, CallFits
            <4> QED BY <4>1, <4>2
        <3> QED BY <3>3, <3>4 DEF CallFits
    <2> QED
        BY <2>5, <2>6, <2>7, <2>8 DEF EnvInv
<1> QED
    BY <1>5, <1>6, <1>8 DEF IInv
-----------------------------------------------------------------------------
LEMMA ActKeeps == ASSUME IInv, Act PROVE IInv'
<1> DEFINE chunk == [e \in Envs |-> IF e \in DOMAIN commands THEN NewChunk(e) ELSE chunks[e]]
           goal == [e \in Envs |-> IF e \in DOMAIN commands THEN NewGoal(e) ELSE current[e]]
<1>1. /\ at = "act" /\ at' = "step"
      /\ asked' = [e \in Envs |-> asked[e] + (IF e \in DOMAIN commands THEN 1 ELSE 0)]
      /\ UNCHANGED <<kind, workers, episode, steps, previous, conversations, commands>>
    BY DEF Act, config, envVars
<1>2. kind = "chunk" =>
          /\ chunks' = [e \in Envs |-> Tail(chunk[e])]
          /\ given' = [e \in Envs |-> Head(chunk[e])]
          /\ current' = current
    BY DEF Act, TakeNext
<1>3. kind = "goal" =>
          /\ current' = [e \in Envs |-> [goal[e] EXCEPT !.executed = @ + 1]]
          /\ given' = [e \in Envs |-> [prediction |-> goal[e].prediction,
                                         place |-> current'[e].executed]]
    BY DEF Act, IInv, TypeOK
<1> HIDE DEF chunk, goal
<1>4. TypeOK'
    BY <1>1 DEF IInv, TypeOK
<1>5. MaxStepsPerGoal \in Nat \ {0} /\ ChunkSize \in Nat \ {0}
    BY PolicyAssumption
<1>6. ASSUME NEW e \in Envs
      PROVE  /\ e \notin DOMAIN conversations
             /\ e \notin DOMAIN commands => Ready(e)
             /\ e \in DOMAIN commands => commands[e] = Due(e)
    BY <1>1, <1>6 DEF IInv, EnvInv, ConversationFits, CallFits
<1>7. ASSUME NEW e \in Envs
      PROVE  /\ e \in DOMAIN commands => LastStored(e)' = Due(e) /\ asked'[e] # 0
             /\ e \notin DOMAIN commands => LastStored(e)' = LastStored(e) /\ asked'[e] = asked[e]
    <2>1. asked[e] \in Nat
        BY DEF IInv, TypeOK
    <2>2. asked'[e] = asked[e] + (IF e \in DOMAIN commands THEN 1 ELSE 0)
        BY <1>1
    <2> QED
        BY <1>1, <2>1, <2>2 DEF LastStored, Due
<1>8. ASSUME NEW e \in Envs, kind = "chunk"
      PROVE  /\ current'[e] = None
             /\ chunks'[e] \in Seq(Commands(e)')
             /\ given'[e] \in Commands(e)'
    <2>1. chunk[e] \in Seq(Commands(e)') /\ chunk[e] # <<>>
        <3>1. CASE e \in DOMAIN commands
            <4>1. chunk[e] = [i \in 1 .. ChunkSize |-> [prediction |-> commands[e], place |-> i]]
                BY <3>1 DEF chunk, NewChunk
            <4>2. \A i \in 1 .. ChunkSize : [prediction |-> commands[e], place |-> i] \in Commands(e)'
                BY <1>6, <1>7, <3>1 DEF Commands
            <4>3. chunk[e] \in [1 .. ChunkSize -> Commands(e)']
                BY <4>1, <4>2
            <4>4. chunk[e] \in Seq(Commands(e)')
                BY <4>3, <1>5, SeqDef
            <4>5. 1 \in DOMAIN chunk[e]
                BY <4>1, <1>5
            <4> QED
                BY <4>4, <4>5, NothingYet
        <3>2. CASE e \notin DOMAIN commands
            <4>1. chunk[e] = chunks[e]
                BY <3>2 DEF chunk
            <4>2. chunks[e] # <<>>
                BY <1>6, <1>8, <3>2 DEF Ready
            <4>3. chunks[e] \in Seq(Commands(e))
                BY <1>8 DEF IInv, EnvInv, ChunkFits
            <4>4. Commands(e)' = Commands(e)
                BY <1>7, <3>2 DEF Commands
            <4> QED
                BY <4>1, <4>2, <4>3, <4>4
        <3> QED BY <3>1, <3>2
    <2>2. Tail(chunk[e]) \in Seq(Commands(e)') /\ Head(chunk[e]) \in Commands(e)'
        BY <2>1, HeadTailProperties
    <2> QED
        BY <1>2, <1>8, <2>2 DEF IInv, EnvInv, ChunkFits
<1>9. ASSUME NEW e \in Envs, kind = "goal"
      PROVE  /\ asked'[e] # 0
             /\ current'[e] \in Goals(e)'
             /\ given'[e] \in [prediction : {LastStored(e)'}, place : 1 .. MaxStepsPerGoal]
    <2>1. goal[e] \in [prediction : {LastStored(e)'}, executed : 0 .. MaxStepsPerGoal - 1]
        <3>1. CASE e \in DOMAIN commands
            BY <1>5, <1>6, <1>7, <3>1 DEF goal, NewGoal
        <3>2. CASE e \notin DOMAIN commands
            <4>1. current[e] \in Goals(e)
                BY <1>6, <1>9, <3>2 DEF Ready
            <4>2. GoalLimit = MaxStepsPerGoal - 1
                BY <1>1 DEF GoalLimit
            <4>3. 1 .. GoalLimit \subseteq 0 .. MaxStepsPerGoal - 1
                BY <4>2, <1>5
            <4>4. goal[e] = current[e]
                BY <3>2 DEF goal
            <4> QED
                BY <4>1, <4>3, <4>4, <1>7, <3>2 DEF Goals
        <3> QED BY <3>1, <3>2
    <2>2. current'[e] = [prediction |-> LastStored(e)', executed |-> goal[e].executed + 1]
        BY <1>3, <1>9, <2>1
    <2>3. goal[e].executed + 1 \in 1 .. MaxStepsPerGoal
        BY <2>1, <1>5
    <2>4. GoalLimit' = MaxStepsPerGoal
        BY <1>1 DEF GoalLimit
    <2>5. asked'[e] # 0
        <3>1. e \in DOMAIN commands \/ current[e] \in Goals(e)
            BY <1>6, <1>9 DEF Ready
        <3>2. None \notin Goals(e)
            <4>1. LastStored(e) \in Predictions
                BY DEF LastStored, Predictions, IInv, TypeOK
            <4>2. Goals(e) \subseteq [prediction : Predictions, executed : Nat]
                BY <1>5, <4>1 DEF Goals, GoalLimit
            <4> QED BY <4>2, PolicyAssumption
        <3> QED
            BY <1>7, <1>9, <3>1, <3>2 DEF IInv, EnvInv, GoalFits
    <2> QED
        BY <1>3, <1>9, <2>1, <2>2, <2>3, <2>4, <2>5 DEF Goals
<1>10. ASSUME NEW e \in Envs PROVE EnvInv(e)'
    <2>1. ChunkFits(e)'
        BY <1>1, <1>8 DEF ChunkFits
    <2>2. GoalFits(e)'
        BY <1>1, <1>9 DEF GoalFits
    <2>3. ConversationFits(e)'
        BY <1>1, <1>6 DEF ConversationFits
    <2>4. CallFits(e)'
        BY <1>1 DEF CallFits
    <2> QED
        BY <2>1, <2>2, <2>3, <2>4 DEF EnvInv
<1>11. OwnPredictions'
    <2> SUFFICES ASSUME NEW e \in Envs
                 PROVE  given'[e].prediction = LastStored(e)'
        <3>1. \A e \in Envs : /\ LastStored(e)'.env = e /\ LastStored(e)'.episode = episode'[e]
                              /\ LastStored(e)'.number = asked'[e]
            BY DEF LastStored
        <3> QED
            BY <1>1, <3>1 DEF OwnPredictions, IsOwn
    <2>1. CASE kind = "chunk"
        BY <1>8, <2>1 DEF Commands
    <2>2. CASE kind = "goal"
        BY <1>9, <2>2
    <2> QED
        BY <2>1, <2>2 DEF IInv, TypeOK
<1> QED
    BY <1>4, <1>10, <1>11 DEF IInv

LEMMA StepKeeps == ASSUME IInv, NEW done \in SUBSET Envs, Step(done) PROVE IInv'
<1>1. /\ at = "step" /\ at' = "get action"
      /\ episode' = [e \in Envs |-> episode[e] + (IF e \in done THEN 1 ELSE 0)]
      /\ asked' = [e \in Envs |-> IF e \in done THEN 0 ELSE asked[e]]
      /\ given' = [e \in Envs |-> IF e \in done THEN None ELSE given[e]]
      /\ conversations' = <<>>
      /\ kind' = kind
    BY DEF Step, config
<1>2. /\ chunks' = [e \in Envs |-> IF e \in done THEN <<>> ELSE chunks[e]]
      /\ current' = [e \in Envs |-> IF e \in done THEN None ELSE current[e]]
      /\ previous' = [e \in Envs |-> IF e \in done THEN None ELSE previous[e]]
    BY DEF Step, Forgets
<1>3. TypeOK'
    <2>1. ASSUME NEW e \in Envs PROVE episode[e] + (IF e \in done THEN 1 ELSE 0) \in Nat
        <3>1. episode[e] \in Nat
            BY DEF IInv, TypeOK
        <3> QED BY <3>1
    <2>2. episode' \in [Envs -> Nat] /\ asked' \in [Envs -> Nat]
        BY <1>1, <2>1 DEF IInv, TypeOK
    <2> QED
        BY <1>1, <2>2, NothingYet DEF IInv, TypeOK
<1>4. OwnPredictions'
    <2> SUFFICES ASSUME NEW e \in Envs, e \notin done, given[e] # None
                 PROVE  /\ given[e].prediction.env = e
                        /\ given[e].prediction.episode = episode'[e]
                        /\ given[e].prediction.number = asked'[e]
        BY <1>1 DEF OwnPredictions, IsOwn
    <2>1. episode[e] \in Nat /\ asked'[e] = asked[e] /\ episode'[e] = episode[e] + 0
        BY <1>1 DEF IInv, TypeOK
    <2>2. episode'[e] = episode[e]
        BY <2>1
    <2> QED
        BY <2>1, <2>2 DEF IInv, OwnPredictions, IsOwn
<1>5. ASSUME NEW e \in Envs PROVE EnvInv(e)'
    <2>1. EnvInv(e)
        BY DEF IInv
    <2>2. ConversationFits(e)' /\ CallFits(e)'
        BY <1>1, NothingYet DEF ConversationFits, CallFits
    <2>3. CASE e \in done
        <3>1. ChunkFits(e)'
            <4>1. chunks'[e] = <<>> /\ current'[e] = None
                BY <1>2, <2>3
            <4>2. <<>> \in Seq(Commands(e)')
                BY EmptySeq
            <4> QED BY <4>1, <4>2 DEF ChunkFits
        <3>2. GoalFits(e)'
            BY <1>1, <1>2, <2>3 DEF GoalFits
        <3> QED
            BY <3>1, <3>2, <2>2 DEF EnvInv
    <2>4. CASE e \notin done
        <3>1. episode'[e] = episode[e] /\ asked'[e] = asked[e]
            <4>1. episode'[e] = episode[e] + 0
                BY <1>1, <2>4
            <4>2. episode[e] \in Nat
                BY DEF IInv, TypeOK
            <4>3. asked'[e] = asked[e]
                BY <1>1, <2>4
            <4>4. episode'[e] = episode[e]
                BY <4>1, <4>2
            <4> QED
                BY <4>3, <4>4
        <3>2. chunks'[e] = chunks[e] /\ current'[e] = current[e] /\ previous'[e] = previous[e]
            BY <1>2, <2>4
        <3>3. LastStored(e)' = LastStored(e)
            BY <3>1 DEF LastStored
        <3>4. GoalLimit' = GoalLimit
            BY <1>1 DEF GoalLimit
        <3>5. /\ Commands(e)' = Commands(e) /\ Goals(e)' = Goals(e)
              /\ EndedGoalsOf(e)' = EndedGoalsOf(e)
            BY <3>3, <3>4 DEF Commands, Goals, EndedGoalsOf
        <3>6. ChunkFits(e)' /\ GoalFits(e)'
            BY <1>1, <2>1, <3>1, <3>2, <3>5 DEF EnvInv, ChunkFits, GoalFits
        <3> QED
            BY <2>2, <3>6 DEF EnvInv
    <2> QED BY <2>3, <2>4
<1> QED
    BY <1>3, <1>4, <1>5 DEF IInv

LEMMA NextKeeps == ASSUME IInv, [Next]_vars PROVE IInv'
<1>1. CASE GetAction
    BY <1>1, GetActionKeeps
<1>2. CASE InferRaises
    BY <1>2, QuietSteps DEF InferRaises
<1>3. CASE Validate
    BY <1>3, ValidateKeeps
<1>4. CASE Act
    BY <1>4, ActKeeps
<1>5. CASE ActRaises
    BY <1>5, QuietSteps DEF ActRaises
<1>10. CASE AdapterRaises
    BY <1>10, QuietSteps DEF AdapterRaises
<1>6. CASE Close
    BY <1>6, QuietSteps DEF Close
<1>7. CASE \E e \in Envs : Worker(e)
    <2>1. UNCHANGED <<config, envVars, policyVars, conversations, commands, at>>
        BY <1>7 DEF Worker, Take, Answer, TryFails, callVars
    <2> QED
        BY <2>1, QuietSteps
<1>8. CASE \E done \in SUBSET Envs : Step(done)
    BY <1>8, StepKeeps
<1>9. CASE UNCHANGED vars
    BY <1>9, QuietSteps DEF vars, callVars
<1> QED
    BY <1>1, <1>2, <1>3, <1>4, <1>5, <1>6, <1>7, <1>8, <1>9, <1>10 DEF Next, Call

LEMMA InvariantHolds == Spec => []IInv
BY IInvInit, NextKeeps, PTL DEF Spec

(* A request of the goal policy reports the goal before it, of the same    *)
(* episode, with the steps it was executed for; the first one of an        *)
(* episode reports nothing.                                                *)
THEOREM GoalsAreReported == Spec => []PreviousGoalReported
<1>1. ASSUME IInv, kind = "goal", NEW e \in DOMAIN conversations
      PROVE  LET request == conversations[e].asked
                 goal == conversations[e].previous
             IN  IF request.number = 1 THEN goal = None
                 ELSE /\ goal # None
                      /\ goal.of = [request EXCEPT !.number = @ - 1]
                      /\ goal.executed \in 1 .. MaxStepsPerGoal
    <2>1. e \in Envs /\ asked[e] \in Nat
        BY <1>1 DEF IInv, TypeOK
    <2>2. /\ conversations[e].asked = Due(e)
          /\ conversations[e].previous = previous[e]
          /\ IF asked[e] = 0 THEN previous[e] = None ELSE previous[e] \in EndedGoalsOf(e)
        BY <1>1, <2>1 DEF IInv, EnvInv, ConversationFits
    <2>3. [Due(e) EXCEPT !.number = @ - 1] = LastStored(e) /\ Due(e).number = asked[e] + 1
        BY <2>1 DEF Due, LastStored
    <2>4. None \notin EndedGoalsOf(e)
        BY PolicyAssumption DEF EndedGoalsOf
    <2> QED
        BY <2>1, <2>2, <2>3, <2>4 DEF EndedGoalsOf
<1>2. IInv => PreviousGoalReported
    BY <1>1 DEF PreviousGoalReported
<1> QED
    BY <1>2, InvariantHolds, PTL

-----------------------------------------------------------------------------
(* What was given last is what is missing from the chunk, or the steps     *)
(* made toward the goal, which is the current or the previous one.         *)
ChunkGiven(e) ==
    kind = "chunk" =>
        IF given[e] = None THEN chunks[e] = <<>>
        ELSE /\ given[e].place \in 1 .. ChunkSize
             /\ Len(chunks[e]) = ChunkSize - given[e].place
             /\ \A i \in 1 .. Len(chunks[e]) : chunks[e][i].place = given[e].place + i

LastGoal(e) == IF current[e] # None THEN current[e] ELSE previous[e]

GoalGiven(e) ==
    kind = "goal" /\ given[e] # None => LastGoal(e).executed = given[e].place

(* Only who has nothing left asks. *)
AskedFits(e) ==
    at \in {"infer", "act"} /\ e \in DOMAIN conversations \cup DOMAIN commands =>
        IF kind = "chunk" THEN chunks[e] = <<>> ELSE current[e] = None

OrderFits(e) ==
    /\ given[e] = None <=> asked[e] = 0
    /\ given[e] # None => given[e].prediction = LastStored(e)
    /\ ChunkGiven(e)
    /\ GoalGiven(e)
    /\ AskedFits(e)

OrderInv == \A e \in Envs : OrderFits(e)

LEMMA OrderInit == Init => OrderInv
BY NothingYet DEF Init, OrderInv, OrderFits, ChunkGiven, GoalGiven, AskedFits

LEMMA OrderQuiet ==
    ASSUME OrderInv, UNCHANGED <<config, envVars, policyVars, conversations, commands>>,
           at' = at \/ at' \in {"raised", "closed"}
    PROVE  OrderInv'
<1>1. UNCHANGED <<kind, episode, chunks, current, previous, asked, given, conversations, commands>>
    BY DEF config, envVars, policyVars
<1> QED
    BY <1>1 DEF OrderInv, OrderFits, ChunkGiven, GoalGiven, LastGoal, LastStored, AskedFits

LEMMA OrderGetAction == ASSUME IInv, OrderInv, GetAction PROVE OrderInv'
<1>1. PICK outcome :
          /\ \A e \in Envs : current[e] = None => outcome[e] = "still_executing"
          /\ previous' = [e \in Envs |->
                 IF e \in {i \in Envs : outcome[i] # "still_executing"}
                 THEN [of |-> current[e].prediction, outcome |-> outcome[e],
                       executed |-> current[e].executed]
                 ELSE previous[e]]
          /\ current' = [e \in Envs |->
                 IF e \in {i \in Envs : outcome[i] # "still_executing"} THEN None ELSE current[e]]
    BY DEF GetAction
<1>2. /\ conversations' = [e \in {i \in Envs : NeedsPrediction(i)} |-> RequestContent(e)]
      /\ commands' = <<>>
      /\ UNCHANGED <<kind, episode, chunks, asked, given>>
    BY DEF GetAction, config, envVars
<1>3. ASSUME NEW e \in Envs PROVE OrderFits(e)'
    <2>1. OrderFits(e)
        BY DEF OrderInv
    <2>2. /\ (given[e] = None <=> asked[e] = 0)' /\ ChunkGiven(e)'
          /\ given'[e] # None => given'[e].prediction = LastStored(e)'
        BY <1>2, <2>1 DEF OrderFits, ChunkGiven, LastStored
    <2>3. LastGoal(e)'.executed = LastGoal(e).executed
        <3>1. CASE outcome[e] = "still_executing"
            BY <1>1, <3>1 DEF LastGoal
        <3>2. CASE outcome[e] # "still_executing"
            BY <1>1, <3>2 DEF LastGoal
        <3> QED BY <3>1, <3>2
    <2>4. GoalGiven(e)'
        BY <1>2, <2>1, <2>3 DEF OrderFits, GoalGiven
    <2>5. AskedFits(e)'
        <3>1. SUFFICES ASSUME e \in DOMAIN conversations'
                       PROVE  IF kind = "chunk" THEN chunks'[e] = <<>> ELSE current'[e] = None
            BY <1>2, NothingYet DEF AskedFits
        <3> QED BY <1>2, <3>1 DEF NeedsPrediction
    <2> QED BY <2>2, <2>4, <2>5 DEF OrderFits
<1> QED BY <1>3 DEF OrderInv

LEMMA OrderValidate == ASSUME OrderInv, Validate PROVE OrderInv'
<1>1. UNCHANGED <<kind, episode, chunks, current, previous, asked, given>> /\ at = "infer"
    BY DEF Validate, config, envVars, policyVars
<1>2. DOMAIN conversations' \cup DOMAIN commands' \subseteq DOMAIN conversations \cup DOMAIN commands
    BY DEF Validate, Restricted
<1> QED
    BY <1>1, <1>2 DEF OrderInv, OrderFits, ChunkGiven, GoalGiven, LastGoal, LastStored, AskedFits

LEMMA GoalsAreNotNone == ASSUME IInv, NEW e \in Envs PROVE None \notin Goals(e)
<1>1. LastStored(e) \in Predictions
    BY DEF LastStored, Predictions, IInv, TypeOK
<1>2. Goals(e) \subseteq [prediction : Predictions, executed : Nat]
    BY <1>1, PolicyAssumption DEF Goals, GoalLimit
<1> QED
    BY <1>2, PolicyAssumption

(* What Act gives an environment, and what it keeps.                       *)
LEMMA ActGives ==
    ASSUME IInv, OrderInv, Act, NEW e \in Envs
    PROVE  /\ given'[e] # None /\ given'[e].prediction = LastStored(e)' /\ asked'[e] # 0
           /\ ChunkGiven(e)' /\ GoalGiven(e)'
           /\ IF given[e] = None THEN First(given'[e])
              ELSE \/ NextOfSame(given'[e], given[e])
                   \/ UsedUp(e) /\ FirstOfNext(given'[e], given[e])
<1> DEFINE chunk == IF e \in DOMAIN commands THEN NewChunk(e) ELSE chunks[e]
           goal == IF e \in DOMAIN commands THEN NewGoal(e) ELSE current[e]
<1>1. /\ at = "act"
      /\ asked'[e] = asked[e] + (IF e \in DOMAIN commands THEN 1 ELSE 0)
      /\ UNCHANGED <<kind, episode, previous>>
    BY DEF Act, config, envVars
<1>2. kind = "chunk" =>
          chunks'[e] = Tail(chunk) /\ given'[e] = Head(chunk) /\ current' = current
    BY DEF Act, TakeNext
<1>3. kind = "goal" =>
          /\ current'[e] = [goal EXCEPT !.executed = @ + 1]
          /\ given'[e] = [prediction |-> goal.prediction, place |-> current'[e].executed]
    BY DEF Act, IInv, TypeOK
<1> HIDE DEF chunk, goal
<1>4. /\ asked[e] \in Nat /\ MaxStepsPerGoal \in Nat \ {0} /\ ChunkSize \in Nat \ {0}
      /\ LastStored(e) \in Predictions /\ Due(e) \in Predictions
    <2>1. asked[e] \in Nat /\ episode[e] \in Nat
        BY DEF IInv, TypeOK
    <2>2. asked[e] + 1 \in Nat
        BY <2>1
    <2> QED
        BY <2>1, <2>2, PolicyAssumption DEF LastStored, Due, Predictions
<1>5. /\ e \notin DOMAIN conversations
      /\ e \notin DOMAIN commands => Ready(e)
      /\ e \in DOMAIN commands => commands[e] = Due(e)
    BY <1>1 DEF IInv, EnvInv, ConversationFits, CallFits
<1>6. OrderFits(e) /\ EnvInv(e) /\ kind \in {"chunk", "goal"}
    BY DEF OrderInv, IInv, TypeOK
<1>7. /\ e \in DOMAIN commands => LastStored(e)' = Due(e) /\ asked'[e] = asked[e] + 1
      /\ e \notin DOMAIN commands => LastStored(e)' = LastStored(e) /\ asked'[e] = asked[e]
      /\ LastStored(e)' \in Predictions
    BY <1>1, <1>4 DEF LastStored, Due
<1>8. given[e] = None => e \in DOMAIN commands /\ asked[e] = 0
    <2>1. ASSUME given[e] = None PROVE asked[e] = 0 /\ ~ Ready(e)
        <3>1. asked[e] = 0
            BY <1>6, <2>1 DEF OrderFits
        <3>2. CASE kind = "chunk"
            BY <1>6, <2>1, <3>1, <3>2 DEF OrderFits, ChunkGiven, Ready
        <3>3. CASE kind = "goal"
            <4>1. current[e] = None
                BY <1>6, <3>1, <3>3 DEF EnvInv, GoalFits
            <4> QED BY <3>1, <3>3, <4>1, GoalsAreNotNone DEF Ready
        <3> QED BY <1>6, <3>2, <3>3
    <2> QED BY <1>5, <2>1
<1>9. Due(e).number = asked[e] + 1 /\ LastStored(e).number = asked[e]
    BY DEF Due, LastStored
<1>10. CASE kind = "chunk" /\ e \in DOMAIN commands
    <2>1. chunk = [i \in 1 .. ChunkSize |-> [prediction |-> Due(e), place |-> i]]
        BY <1>5, <1>10 DEF chunk, NewChunk
    <2> DEFINE C == [prediction : {Due(e)}, place : 1 .. ChunkSize]
    <2>2. chunk \in Seq(C) /\ Len(chunk) = ChunkSize /\ chunk # <<>>
        <3>1. chunk \in [1 .. ChunkSize -> C]
            BY <2>1
        <3>2. chunk \in Seq(C)
            <4> HIDE DEF C
            <4> QED BY <1>4, <3>1, SeqDef
        <3>3. DOMAIN chunk = 1 .. ChunkSize /\ 1 \in DOMAIN chunk
            BY <1>4, <2>1
        <3>4. Len(chunk) \in Nat /\ DOMAIN chunk = 1 .. Len(chunk)
            BY <3>2, LenProperties
        <3>5. Len(chunk) = ChunkSize
            BY <1>4, <3>3, <3>4
        <3> QED BY <3>2, <3>3, <3>5, NothingYet
    <2>3. /\ given'[e] = chunk[1] /\ Len(chunks'[e]) = ChunkSize - 1
          /\ \A i \in 1 .. ChunkSize - 1 : chunks'[e][i] = chunk[i + 1]
        <3>1. /\ Head(chunk) = chunk[1] /\ Tail(chunk) \in Seq(C) /\ Len(Tail(chunk)) = ChunkSize - 1
              /\ \A i \in 1 .. Len(Tail(chunk)) : Tail(chunk)[i] = chunk[i + 1]
            BY <2>2, HeadTailProperties
        <3> QED BY <1>2, <1>10, <3>1
    <2>4. given'[e] = [prediction |-> Due(e), place |-> 1]
        BY <1>4, <2>1, <2>3
    <2>5. \A i \in 1 .. ChunkSize - 1 : chunks'[e][i].place = 1 + i
        BY <1>4, <2>1, <2>3
    <2>6. given'[e] # None /\ ChunkGiven(e)' /\ GoalGiven(e)'
        BY <1>1, <1>4, <1>10, <2>3, <2>4, <2>5, PolicyAssumption DEF ChunkGiven, GoalGiven
    <2>7. given[e] # None => UsedUp(e)
        <3>1. chunks[e] = <<>>
            BY <1>1, <1>6, <1>10 DEF OrderFits, AskedFits
        <3>2. given[e] # None => given[e].place \in 1 .. ChunkSize /\ 0 = ChunkSize - given[e].place
            BY <1>6, <1>10, <3>1, EmptySeq DEF OrderFits, ChunkGiven
        <3> QED BY <1>4, <1>10, <3>2 DEF UsedUp
    <2>8. given[e] # None => FirstOfNext(given'[e], given[e])
        BY <1>6, <1>9, <2>4 DEF OrderFits, FirstOfNext
    <2>9. given[e] = None => First(given'[e])
        BY <1>8, <1>9, <2>4 DEF First
    <2> QED BY <1>4, <1>7, <1>10, <2>4, <2>6, <2>7, <2>8, <2>9
<1>11. CASE kind = "chunk" /\ e \notin DOMAIN commands
    <2>1. chunk = chunks[e] /\ chunk # <<>> /\ given[e] # None /\ asked[e] # 0
        BY <1>5, <1>6, <1>8, <1>11 DEF chunk, Ready, OrderFits
    <2>2. /\ chunk \in Seq(Commands(e)) /\ given[e].place \in 1 .. ChunkSize
          /\ Len(chunk) = ChunkSize - given[e].place
          /\ \A i \in 1 .. Len(chunk) : chunk[i].place = given[e].place + i
        BY <1>6, <1>11, <2>1 DEF OrderFits, ChunkGiven, EnvInv, ChunkFits
    <2>3. /\ given'[e] = chunk[1] /\ given'[e] \in Commands(e)
          /\ Len(chunk) \in Nat \ {0} /\ Len(chunks'[e]) = Len(chunk) - 1
          /\ \A i \in 1 .. Len(chunk) - 1 : chunks'[e][i] = chunk[i + 1]
        <3>1. /\ Head(chunk) = chunk[1] /\ Head(chunk) \in Commands(e)
              /\ Tail(chunk) \in Seq(Commands(e)) /\ Len(Tail(chunk)) = Len(chunk) - 1
              /\ \A i \in 1 .. Len(Tail(chunk)) : Tail(chunk)[i] = chunk[i + 1]
            BY <2>1, <2>2, HeadTailProperties
        <3>2. Len(chunk) \in Nat \ {0}
            BY <2>1, <2>2, LenProperties, EmptySeq
        <3> QED BY <1>2, <1>11, <3>1, <3>2
    <2>4. given'[e].prediction = LastStored(e) /\ given'[e].place = given[e].place + 1
        BY <2>2, <2>3 DEF Commands
    <2>5. given'[e].place \in 1 .. ChunkSize /\ Len(chunks'[e]) = ChunkSize - given'[e].place
        <3>1. PICK p : p = given[e].place
            OBVIOUS
        <3>2. PICK n : n = Len(chunk)
            OBVIOUS
        <3>3. p \in 1 .. ChunkSize /\ n = ChunkSize - p /\ n \in Nat \ {0}
            BY <2>2, <2>3, <3>1, <3>2
        <3>4. p + 1 \in 1 .. ChunkSize /\ n - 1 = ChunkSize - (p + 1)
            BY <1>4, <3>3
        <3> QED BY <2>3, <2>4, <3>1, <3>2, <3>4
    <2>6. \A i \in 1 .. Len(chunks'[e]) : chunks'[e][i].place = given'[e].place + i
        <3>1. SUFFICES ASSUME NEW i \in 1 .. Len(chunks'[e])
                       PROVE  chunks'[e][i].place = given'[e].place + i
            OBVIOUS
        <3>2. i \in 1 .. Len(chunk) - 1 /\ i + 1 \in 1 .. Len(chunk)
            BY <2>3, <3>1
        <3>3. chunks'[e][i].place = given[e].place + (i + 1)
            BY <2>2, <2>3, <3>2
        <3>4. given[e].place \in Nat /\ i \in Nat
            BY <1>4, <2>2, <3>2
        <3>5. given[e].place + (i + 1) = (given[e].place + 1) + i
            BY <3>4
        <3> QED BY <2>4, <3>3, <3>5
    <2>7. given'[e] # None
        <3>1. Commands(e) \subseteq [prediction : Predictions, place : Nat]
            BY <1>4 DEF Commands
        <3> QED BY <2>3, <3>1, PolicyAssumption
    <2>8. ChunkGiven(e)' /\ GoalGiven(e)'
        BY <1>1, <1>11, <2>5, <2>6, <2>7 DEF ChunkGiven, GoalGiven
    <2>9. NextOfSame(given'[e], given[e])
        BY <1>4, <1>6, <1>11, <2>1, <2>4, <2>5 DEF OrderFits, NextOfSame
    <2> QED BY <1>7, <1>11, <2>1, <2>4, <2>7, <2>8, <2>9
<1>12. CASE kind = "goal" /\ e \in DOMAIN commands
    <2>1. goal = [prediction |-> Due(e), executed |-> 0]
        BY <1>5, <1>12 DEF goal, NewGoal
    <2>2. current'[e] = [prediction |-> Due(e), executed |-> 1]
        BY <1>3, <1>12, <2>1
    <2>3. given'[e] = [prediction |-> Due(e), place |-> 1]
        BY <1>3, <1>12, <2>1, <2>2
    <2>4. given'[e] # None /\ current'[e] # None
        BY <1>4, <2>2, <2>3, PolicyAssumption
    <2>5. ChunkGiven(e)' /\ GoalGiven(e)'
        BY <1>1, <1>12, <2>2, <2>3, <2>4 DEF ChunkGiven, GoalGiven, LastGoal
    <2>6. given[e] # None => UsedUp(e)
        <3>1. SUFFICES ASSUME given[e] # None PROVE UsedUp(e)
            OBVIOUS
        <3>2. current[e] = None
            BY <1>1, <1>6, <1>12 DEF OrderFits, AskedFits
        <3>3. asked[e] # 0
            BY <1>6, <3>1 DEF OrderFits
        <3>4. previous[e] \in EndedGoalsOf(e)
            BY <1>6, <1>12, <3>2, <3>3, GoalsAreNotNone DEF EnvInv, GoalFits
        <3>5. previous[e] # None /\ previous[e].of = LastStored(e)
            BY <3>4, PolicyAssumption DEF EndedGoalsOf
        <3>6. previous[e].executed = given[e].place /\ given[e].prediction = LastStored(e)
            BY <1>6, <1>12, <3>1, <3>2 DEF OrderFits, GoalGiven, LastGoal
        <3> QED BY <1>12, <3>5, <3>6 DEF UsedUp
    <2>7. given[e] # None => FirstOfNext(given'[e], given[e])
        BY <1>6, <1>9, <2>3 DEF OrderFits, FirstOfNext
    <2>8. given[e] = None => First(given'[e])
        BY <1>8, <1>9, <2>3 DEF First
    <2> QED BY <1>4, <1>7, <1>12, <2>3, <2>4, <2>5, <2>6, <2>7, <2>8
<1>13. CASE kind = "goal" /\ e \notin DOMAIN commands
    <2>1. goal = current[e] /\ current[e] \in Goals(e) /\ given[e] # None /\ asked[e] # 0
        BY <1>5, <1>6, <1>8, <1>13 DEF goal, Ready, OrderFits
    <2>2. GoalLimit = MaxStepsPerGoal - 1
        BY <1>1 DEF GoalLimit
    <2>3. /\ goal = [prediction |-> LastStored(e), executed |-> goal.executed]
          /\ goal.executed \in 1 .. MaxStepsPerGoal - 1
        BY <2>1, <2>2 DEF Goals
    <2>4. current'[e] = [prediction |-> LastStored(e), executed |-> goal.executed + 1]
        BY <1>3, <1>13, <2>3
    <2>5. given'[e] = [prediction |-> LastStored(e), place |-> goal.executed + 1]
        BY <1>3, <1>13, <2>3, <2>4
    <2>6. goal.executed + 1 \in Nat /\ goal.executed + 1 <= MaxStepsPerGoal
        BY <1>4, <2>3
    <2>7. given'[e] # None /\ current'[e] # None
        BY <1>4, <2>4, <2>5, <2>6, PolicyAssumption
    <2>8. ChunkGiven(e)' /\ GoalGiven(e)'
        BY <1>1, <1>13, <2>4, <2>5, <2>7 DEF ChunkGiven, GoalGiven, LastGoal
    <2>9. current[e] # None
        BY <2>1, GoalsAreNotNone
    <2>10. goal.executed = given[e].place /\ given[e].prediction = LastStored(e)
        BY <1>6, <1>13, <2>1, <2>9 DEF OrderFits, GoalGiven, LastGoal
    <2>11. NextOfSame(given'[e], given[e])
        BY <1>13, <2>5, <2>6, <2>10 DEF NextOfSame
    <2> QED BY <1>7, <1>13, <2>1, <2>5, <2>7, <2>8, <2>11
<1> QED
    BY <1>6, <1>10, <1>11, <1>12, <1>13

LEMMA OrderAct == ASSUME IInv, OrderInv, Act PROVE OrderInv'
<1>1. ASSUME NEW e \in Envs PROVE OrderFits(e)'
    <2>1. AskedFits(e)'
        BY DEF Act, AskedFits
    <2> QED BY <2>1, ActGives DEF OrderFits
<1> QED BY <1>1 DEF OrderInv

LEMMA OrderStep == ASSUME IInv, OrderInv, NEW done \in SUBSET Envs, Step(done) PROVE OrderInv'
<1>1. ASSUME NEW e \in Envs PROVE OrderFits(e)'
    <2>1. /\ at' = "get action" /\ kind' = kind
          /\ given'[e] = IF e \in done THEN None ELSE given[e]
          /\ asked'[e] = IF e \in done THEN 0 ELSE asked[e]
          /\ chunks'[e] = IF e \in done THEN <<>> ELSE chunks[e]
          /\ episode'[e] = episode[e] + (IF e \in done THEN 1 ELSE 0)
          /\ e \notin done => current'[e] = current[e] /\ previous'[e] = previous[e]
        BY DEF Step, Forgets, config
    <2>2. OrderFits(e) /\ AskedFits(e)'
        BY <2>1 DEF OrderInv, AskedFits
    <2>3. CASE e \in done
        BY <2>1, <2>2, <2>3 DEF OrderFits, ChunkGiven, GoalGiven
    <2>4. CASE e \notin done
        <3>1. episode[e] \in Nat /\ episode'[e] = episode[e] + 0
            BY <2>1, <2>4 DEF IInv, TypeOK
        <3>2. episode'[e] = episode[e]
            BY <3>1
        <3>3. LastStored(e)' = LastStored(e)
            BY <2>1, <2>4, <3>2 DEF LastStored
        <3>4. ChunkGiven(e)' /\ GoalGiven(e)'
            BY <2>1, <2>2, <2>4 DEF OrderFits, ChunkGiven, GoalGiven, LastGoal
        <3> QED BY <2>1, <2>2, <2>4, <3>3, <3>4 DEF OrderFits
    <2> QED BY <2>3, <2>4
<1> QED BY <1>1 DEF OrderInv

LEMMA OrderKeeps == ASSUME IInv, OrderInv, [Next]_vars PROVE OrderInv'
<1>1. CASE GetAction
    BY <1>1, OrderGetAction
<1>2. CASE Validate
    BY <1>2, OrderValidate
<1>3. CASE Act
    BY <1>3, OrderAct
<1>4. CASE \E done \in SUBSET Envs : Step(done)
    BY <1>4, OrderStep
<1>5. CASE InferRaises \/ AdapterRaises \/ ActRaises \/ Close
    BY <1>5, OrderQuiet DEF InferRaises, AdapterRaises, ActRaises, Close
<1>6. CASE \E e \in Envs : Worker(e)
    <2>1. UNCHANGED <<config, envVars, policyVars, conversations, commands, at>>
        BY <1>6 DEF Worker, Take, Answer, TryFails, callVars
    <2> QED BY <2>1, OrderQuiet
<1>7. CASE UNCHANGED vars
    BY <1>7, OrderQuiet DEF vars, callVars
<1> QED
    BY <1>1, <1>2, <1>3, <1>4, <1>5, <1>6, <1>7 DEF Next, Call

(* Only Act ends a call with commands. *)
LEMMA ActEndsTheCall == ASSUME [Next]_vars, at = "act", at' = "step" PROVE Act
<1>1. ASSUME NEW e \in Envs, Worker(e) PROVE at' = at
    BY <1>1 DEF Worker, Take, Answer, TryFails, callVars
<1> QED
    BY <1>1 DEF Next, Call, GetAction, InferRaises, Validate, AdapterRaises, ActRaises, Close, Step, vars,
        callVars

(* However many environments ask at once, and however often a request is   *)
(* retried or an answer corrected, every command of get_action is of the   *)
(* last prediction made for its environment in its present episode; through*)
(* all resets and calls they are given in order: none is left out or given *)
(* twice, and a new prediction is begun when the last was used up.         *)
THEOREM CommandsAreOwnAndInOrder == Spec => OwnPredictionsInOrder
<1>1. ASSUME IInv, OrderInv, [Next]_vars, IInv', at = "act", at' = "step", NEW e \in Envs
      PROVE  /\ IsOwn(e)'
             /\ IF given[e] = None THEN First(given'[e])
                ELSE \/ NextOfSame(given'[e], given[e])
                     \/ UsedUp(e) /\ FirstOfNext(given'[e], given[e])
    <2>1. Act
        BY <1>1, ActEndsTheCall
    <2>2. given'[e] # None
        BY <1>1, <2>1, ActGives
    <2>3. IsOwn(e)'
        BY <1>1, <2>2 DEF IInv, OwnPredictions
    <2> QED
        BY <1>1, <2>1, <2>3, ActGives
<1>2. ASSUME IInv, OrderInv, [Next]_vars, IInv'
      PROVE  [at = "act" /\ at' = "step" =>
                 \A e \in Envs :
                     /\ IsOwn(e)'
                     /\ IF given[e] = None THEN First(given'[e])
                        ELSE \/ NextOfSame(given'[e], given[e])
                             \/ UsedUp(e) /\ FirstOfNext(given'[e], given[e])]_vars
    BY <1>1, <1>2
<1> QED
    BY <1>2, OrderInit, OrderKeeps, InvariantHolds, PTL DEF Spec, OwnPredictionsInOrder
=============================================================================
