---------------------------- MODULE MCRunnerPool ----------------------------
(* An instance of RunnerPool for TLC: three submissions at a time, one run box *)
(* each, with or without a checker in the same runner.                         *)
EXTENDS RunnerPool
=============================================================================
