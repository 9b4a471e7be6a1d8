---------------------------- MODULE MCScoreboard ----------------------------
(* Instances of Scoreboard for TLC. *)
EXTENDS Scoreboard, TLC

CONSTANTS m1, p1, p2

Alike == Permutations(Problem)

AnyWindow == {[starts |-> 1, ends |-> 3, freeze |-> 2],
              [starts |-> None, ends |-> 2, freeze |-> None]}
=============================================================================
