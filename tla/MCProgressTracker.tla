-------------------------- MODULE MCProgressTracker --------------------------
(***************************************************************************)
(* A task of two subtasks: the first has one sequence, which must not end  *)
(* in its final state; the second has two criteria sets, one completed by  *)
(* any of two sequences and one by two of three.                           *)
(***************************************************************************)
EXTENDS ProgressTracker

CONSTANTS lifted, placed

MCPreds == {lifted, placed}

Now(pred) == [pred |-> pred, steps |-> 0]
For(pred, steps) == [pred |-> pred, steps |-> steps]

MCChain ==
    [pick   |-> <<Now(lifted), For(placed, 2)>>,
     stack  |-> <<Now(placed), For(lifted, 2)>>,
     retry  |-> <<Now(placed)>>,
     rest   |-> <<For(placed, 3)>>,
     hold   |-> <<For(lifted, 2)>>,
     turn   |-> <<Now(placed), Now(lifted)>>,
     drop   |-> <<Now(placed)>>,
     regrip |-> <<Now(placed), For(lifted, 2)>>]

MCTrackedEvents == {"drop", "regrip"}

MCCriteria == {"first", "any", "some"}
MCSequencesOf == [first |-> {"pick"}, any |-> {"stack", "retry"}, some |-> {"rest", "hold", "turn"}]
MCLogical == [first |-> "all", any |-> "any", some |-> "choose"]
MCK == [c \in MCCriteria |-> 2]
MCSubtaskOf == [first |-> 1, any |-> 2, some |-> 2]
UnmetThenMet == <<"unmet", "met">>

(* Subtasks in order, with and without a final check; and criteria that    *)
(* are independent of one another.                                         *)
MCConfigurations ==
    {[sequential |-> TRUE, checksFinal |-> TRUE],
     [sequential |-> TRUE, checksFinal |-> FALSE],
     [sequential |-> FALSE, checksFinal |-> FALSE]}
=============================================================================
