---------------------------- MODULE EpisodeBudget ----------------------------
(***************************************************************************)
(* What an Arena environment promises about the number of episodes it      *)
(* runs, with no mention of masks, recorders or the order of the calls:    *)
(* slots run episodes, a finished episode is counted once, and a budget,   *)
(* once set, is never exceeded.                                            *)
(***************************************************************************)
EXTENDS Integers, FiniteSets

CONSTANTS Slots,      \* the parallel environments
          NoLimit     \* no budget was configured

VARIABLES budget,     \* NoLimit, or the number of episodes to run
          started,    \* episodes started since the environment was built
          finished,   \* episodes finished since the environment was built
          running     \* the slots with an episode in progress

vars == <<budget, started, finished, running>>

Init ==
    /\ budget = NoLimit
    /\ started = 0
    /\ finished = 0
    /\ running = {}

SetBudget ==
    /\ started = 0
    /\ budget' \in Nat \ {0}
    /\ UNCHANGED <<started, finished, running>>

Affordable(n) == budget # NoLimit => started + n <= budget

Start(S) ==
    /\ S # {}
    /\ S \cap running = {}
    /\ Affordable(Cardinality(S))
    /\ started' = started + Cardinality(S)
    /\ running' = running \cup S
    /\ UNCHANGED <<budget, finished>>

Finish(S) ==
    /\ S # {}
    /\ S \subseteq running
    /\ finished' = finished + Cardinality(S)
    /\ running' = running \ S
    /\ UNCHANGED <<budget, started>>

(* The environment is closed, whatever was running, and built again. *)
Rebuild ==
    /\ budget' = NoLimit
    /\ started' = 0
    /\ finished' = 0
    /\ running' = {}

Next ==
    \/ SetBudget
    \/ \E S \in SUBSET Slots : Start(S) \/ Finish(S)
    \/ Rebuild

Spec == Init /\ [][Next]_vars

Balanced == started = finished + Cardinality(running)

WithinBudget == budget # NoLimit => started <= budget
==============================================================================
