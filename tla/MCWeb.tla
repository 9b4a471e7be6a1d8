------------------------------- MODULE MCWeb -------------------------------
(***************************************************************************)
(* Drafts for TLC. Nothing tells the routes apart, so the behaviours that  *)
(* begin at one of them stand for all.                                     *)
(***************************************************************************)
EXTENDS Drafts

CONSTANT i1

MCInit == Init /\ route = i1
MCSpec == MCInit /\ [][Next]_vars /\ Fairness
=============================================================================
