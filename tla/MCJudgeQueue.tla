---------------------------- MODULE MCJudgeQueue ----------------------------
(* Instances of JudgeQueue for TLC: a practice submission (1) and a contest *)
(* submission (2) with the priority submissions.ts gives it.                *)
EXTENDS JudgeQueue

MCPriority == [s \in Sub |-> IF s = 2 THEN 100 ELSE 0]
Calm == {}
AllAdverse == AdverseKinds
Late == {"lateHeartbeat"}
InFlightRejudge == {"rejudgeInFlight"}
=============================================================================
