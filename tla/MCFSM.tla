------------------------------- MODULE MCFSM -------------------------------
(* Instances of FSM for TLC: a registration-like machine of three states    *)
(* with loops, a cycle and a self transition, and tables NewFSM refuses.    *)
EXTENDS FSM

MCStates == {"A", "B", "C"}
MCEvents == {"go", "stop"}

Table == <<Transition("go", "A", "B"), Transition("stop", "A", "C"),
           Transition("go", "B", "C"), Transition("stop", "B", "B"),
           Transition("go", "C", "A")>>

MCConfigs ==
    { [trans |-> Table, callbacks |-> MCStates],
      [trans |-> Table \o <<Transition("go", "A", "C")>>, callbacks |-> MCStates],
      [trans |-> <<Transition("go", "A", "B"), Transition("go", "B", "A")>>,
       callbacks |-> {"A", "B", "C"}],
      [trans |-> <<Transition("go", "A", "B"), Transition("go", "B", "A")>>,
       callbacks |-> {"A", "B"}] }
=============================================================================
