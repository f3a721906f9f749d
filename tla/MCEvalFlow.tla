----------------------------- MODULE MCEvalFlow -----------------------------
(***************************************************************************)
(* Model-checking instances of EvalFlow.                                   *)
(***************************************************************************)
EXTENDS EvalFlow

CONSTANTS v1, undef

OneVal == {v1}

AllBlocks   == GoodBlocks \cup {BadBlock}
LocalBlocks == {b \in AllBlocks : ~b.prop}
ValueBlocks == {b \in AllBlocks : ~b.policies}
PlainBlocks == {[scoped |-> TRUE, policies |-> TRUE, prop |-> FALSE, onret |-> FALSE], BadBlock}

\* Everything that is pushed and popped, while the array of contexts grows.
BalanceScript ==
    [nodes |-> {"error", "fatal", "return", "block", "policy", "function", "macro", "if", "include", "subdirectory"},
     blocks |-> LocalBlocks, capacity |-> 2]

\* Loops and values, while it does not.
SignalScript ==
    [nodes |-> {"set", "fatal", "foreach", "while", "break", "continue", "return", "block", "function", "macro", "include"},
     blocks |-> ValueBlocks, capacity |-> 8]

FlowScripts  == {BalanceScript, SignalScript}

\* Loops while it grows.
StaleScripts == {[nodes |-> {"foreach", "break", "block"}, blocks |-> PlainBlocks, capacity |-> 2]}
=============================================================================
