---------------------------- MODULE MCCycleCheck ----------------------------
(* Every graph of N nodes with at most MaxDeps dependencies per node.      *)
EXTENDS CycleCheck
CONSTANT MaxDeps
MCGraphs == [1 .. N -> UNION {[1 .. k -> 0 .. N] : k \in 0 .. MaxDeps}]
=============================================================================
