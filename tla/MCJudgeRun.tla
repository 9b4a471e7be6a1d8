----------------------------- MODULE MCJudgeRun -----------------------------
(* Instances of JudgeRun for TLC. *)
EXTENDS JudgeRun

Plain == {FALSE}
Either == BOOLEAN
WithChecker == {TRUE}

\* Problems with points stop at the first failure and those without do not; with a checker
\* program, two cases that deserve different verdicts are told apart.
MCInit ==
    /\ Init
    /\ problem.points = [t \in 1..problem.tests |-> IF problem.stopOnFirstFail THEN 30 ELSE 0]
    /\ problem.special => /\ problem.stopOnFirstFail
                          /\ problem.tests = 2 => problem.deserved[1] # problem.deserved[2]
MCSpec == MCInit /\ [][Next]_vars /\ Fairness
=============================================================================
