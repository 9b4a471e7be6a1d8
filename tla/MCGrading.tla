----------------------------- MODULE MCGrading -----------------------------
(* Instances of Grading for TLC. *)
EXTENDS Grading

Text(t, crlf) == [text |-> t, crlf |-> crlf]
A == Text("a", FALSE)
B == Text("b", FALSE)
Bodies == {A, B, Text("b", TRUE)}

\* A list that is longer than the one problem begins with, and one as long.
SomeLists == {<<B>>, <<A, Text("b", TRUE)>>}
\* Right at first and with more cases, right after the other list, wrong.
SomeSheets == {<<A, B>>}
=============================================================================
