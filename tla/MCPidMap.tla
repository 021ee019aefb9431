------------------------------- MODULE MCPidMap ------------------------------
(* PidMap for TLC: ranges of one to three ranks among the first eight.       *)
EXTENDS PidMap

MCTuple == [start : 0 .. 7, num : 1 .. 3]
==============================================================================
