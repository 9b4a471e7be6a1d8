-------------------------- MODULE MCWorkerRegistry --------------------------
(* Instances of WorkerRegistry for TLC: process p3 runs on a host of its own,  *)
(* the others on the same one; all pids differ.                                *)
EXTENDS WorkerRegistry, FiniteSets

CONSTANTS p3, h1, h2

MCHostOf == [p \in Proc |-> IF p = p3 THEN h2 ELSE h1]
MCPidOf == [p \in Proc |-> p]
MCBoth == {"overlap", "silence"}
MCNeither == {}
=============================================================================
