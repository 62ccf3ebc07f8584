----------------------------- MODULE MCAgentRuns ------------------------------
(* Small instances of AgentRuns for TLC: a plan of at most two items.       *)
EXTENDS AgentRuns

CONSTANTS i1, i2, w1, w2, c1, c2
===============================================================================
