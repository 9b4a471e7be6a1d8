----------------------------- MODULE MCFormats -----------------------------
(* Formats and Editor for TLC: a behaviour writes texts of one kind, or a  *)
(* body in the Markdown field. The bounds are in the cfg.                  *)
EXTENDS Editor

CONSTANTS h

SomeSelections == {<<h>>, <<h, h>>}
SomePoints == {<<0, 0>>, <<30, 20>>}
SomeBodies == {<<SvgOpen, Foreign, SvgClose>>,
               Drawing(<<Shape("rect", "", 2, <<<<0, 0>>, <<30, 20>>>>, Absent)>>)}

\* Two pictures meet each other, and keys and crashes; one meets the board.
PicturesOrBoard == spent.pictures >= 2 => spent.boards = 0

MCInit ==
    \/ InitFormats /\ InitEditor /\ body = <<SvgOpen, Foreign, SvgClose>>
    \/ about = "body" /\ one = <<>> /\ two = <<>> /\ InitEditor
MCNext ==
    \/ about # "body" /\ NextFormats /\ UNCHANGED editorVars
    \/ about = "body" /\ NextEditor /\ PicturesOrBoard' /\ UNCHANGED formatsVars
MCSpec == MCInit /\ [][MCNext]_<<formatsVars, editorVars>>
=============================================================================
