------------------------------ MODULE Formats ------------------------------
(***************************************************************************)
(* What is written, compared and read back as text: the outputs that the   *)
(* checker compares (packages/core/src/checker.ts), answers and blanks     *)
(* (problemkind.ts), the class list (roster.ts), courses in Markdown and   *)
(* problems in JSON (bulk.ts, and the imports and exports of               *)
(* routes/collections.ts and routes/problems.ts), drawings as SVG          *)
(* (apps/web/src/lib/svgshapes.ts). A behaviour is somebody who writes two *)
(* texts of one kind, symbol after symbol; the properties ask what the     *)
(* program makes of them.                                                  *)
(***************************************************************************)
EXTENDS Integers, Sequences, FiniteSets, SequencesExt

CONSTANTS Absent, MaxLen, MaxLines, MaxCells  \* bounds: the lengths of what is written

ASSUME FormatsAssumption ==
    /\ {MaxLen, MaxLines, MaxCells} \subseteq Nat
    /\ Absent \notin Nat
    /\ Absent \notin {"", "1", "1e-3", "1e-6", "answer", "bad", "blank", "c", "code", "exact",
                     "float", "h", "hint", "lines", "no", "none", "program", "red", "some",
                     "special", "trim", "yes"}

VARIABLES
    about,     \* what is written
    one, two   \* the two texts, sequences of symbols

formatsVars == <<about, one, two>>

-----------------------------------------------------------------------------
(* Outputs. "1" and "2" are digits of tokens that differ by less than      *)
(* floatEpsilon where they stand alone.                                    *)

Chars == {"1", "2", "space", "tab", "LF", "CR"}
Spaces == {"space", "tab", "LF", "CR"}

\* A carriage return ends a line, and so does a line feed, unless it follows one.
ReadChar(acc, ch) ==
    IF ch = "LF" /\ acc.cr THEN [acc EXCEPT !.cr = FALSE]
    ELSE IF ch \in {"LF", "CR"} THEN [lines |-> Append(acc.lines, <<>>), cr |-> ch = "CR"]
    ELSE [lines |-> [acc.lines EXCEPT ![Len(acc.lines)] = Append(@, ch)], cr |-> FALSE]
Lines(text) == FoldLeft(ReadChar, [lines |-> << <<>> >>, cr |-> FALSE], text).lines

\* A sequence without its last elements that are in a set, and without the first ones.
Kept(seq, dropped) == {i \in DOMAIN seq : seq[i] \notin dropped}
DropLast(seq, dropped) ==
    IF Kept(seq, dropped) = {} THEN <<>> ELSE SubSeq(seq, 1, Max(Kept(seq, dropped)))
DropFirst(seq, dropped) ==
    IF Kept(seq, dropped) = {} THEN <<>> ELSE SubSeq(seq, Min(Kept(seq, dropped)), Len(seq))

JsTrim(text) == DropFirst(DropLast(text, Spaces), Spaces)

StripLine(line) == DropLast(line, {"space", "tab"})
NormalizeKeepingEnd(text) ==   \* mutant: the blank lines at the end stay
    [i \in DOMAIN Lines(text) |-> StripLine(Lines(text)[i])]
Normalize(text) ==
    LET blank == {line \in ToSet(Lines(text)) : JsTrim(line) = <<>>}
        lines == DropLast(Lines(text), blank)
    IN  [i \in DOMAIN lines |-> StripLine(lines[i])]

\* The last token is read, and is empty behind spaces.
ReadToken(acc, ch) ==
    IF ch \notin Spaces THEN [acc EXCEPT ![Len(acc)] = Append(@, ch)]
    ELSE IF acc[Len(acc)] = <<>> THEN acc ELSE Append(acc, <<>>)
Tokens(text) == DropLast(FoldLeft(ReadToken, << <<>> >>, text), {<<>>})
Near(a, b) == a = b \/ (Len(a) = 1 /\ Len(b) = 1)

\* check: the worker sends "special" elsewhere.
Check(type, actual, expected) ==
    CASE type = "exact" -> actual = expected
      [] type = "trim"  -> Normalize(actual) = Normalize(expected)
      [] type = "float" -> /\ Len(Tokens(actual)) = Len(Tokens(expected))
                           /\ \A i \in DOMAIN Tokens(expected) :
                                Near(Tokens(actual)[i], Tokens(expected)[i])

GradeAnswer(type, given, expected) == Check(type, JsTrim(given), JsTrim(expected))

-----------------------------------------------------------------------------
(* Blanks: a template of lines, of which some are left out *)

FillBlanks(template, blankLines, filled) ==
    [i \in DOMAIN template |->
        IF i \notin blankLines THEN template[i]
        ELSE IF i \in DOMAIN filled THEN filled[i] ELSE "empty"]
BlankOut(template, blankLines) == FillBlanks(template, blankLines, <<>>)

-----------------------------------------------------------------------------
(* A line of the class list: cells, and how the result is written again *)

CellChars == {"x", "quote", "comma", "tab", "space"}

\* splitCsvLine: inside quotes a doubled quote stands for one.
ReadCell(acc, ch) ==
    LET put == [acc EXCEPT !.cells[Len(acc.cells)] = Append(@, ch), !.closing = FALSE]
    IN  CASE acc.quoted /\ ch = "quote"  -> [acc EXCEPT !.quoted = FALSE, !.closing = TRUE]
          [] acc.quoted /\ ch # "quote"  -> put
          [] ~acc.quoted /\ ch = "quote" ->
                IF acc.closing THEN [put EXCEPT !.quoted = TRUE] ELSE [acc EXCEPT !.quoted = TRUE]
          [] ~acc.quoted /\ ch \in {"comma", "tab"} ->
                [acc EXCEPT !.cells = Append(@, <<>>), !.closing = FALSE]
          [] OTHER -> put
SplitCsvLine(line) ==
    LET acc == FoldLeft(ReadCell, [cells |-> << <<>> >>, quoted |-> FALSE, closing |-> FALSE], line)
    IN  [i \in DOMAIN acc.cells |-> JsTrim(acc.cells[i])]

\* resultCsv
Escaped(cell) ==
    IF {"quote", "comma"} \cap ToSet(cell) = {} THEN cell
    ELSE <<"quote">> \o FlattenSeq([i \in DOMAIN cell |->
            IF cell[i] = "quote" THEN <<"quote", "quote">> ELSE <<cell[i]>>]) \o <<"quote">>
ResultCsv(a, b) == Escaped(a) \o <<"comma">> \o Escaped(b)

-----------------------------------------------------------------------------
(* A course: lines of Markdown, and the items they become. "inner" is an   *)
(* indented heading, "untitled" a heading with nothing behind the hashes.  *)

CourseLines == {"text", "blank", "head", "inner", "untitled", "problem", "misspelt"}

TextItem(heading, body) == [kind |-> "text", heading |-> heading, body |-> body]
ProblemItem == [kind |-> "problem", heading |-> Absent, body |-> <<>>]

TrimBody(lines) ==
    LET body == DropFirst(DropLast(lines, {"blank"}), {"blank"})
    IN  IF body = <<>> THEN body ELSE [body EXCEPT ![1] = IF @ = "inner" THEN "head" ELSE @]

Flush(acc) ==
    LET body == TrimBody(acc.buf)
    IN  [items   |-> IF body # <<>> \/ acc.heading \notin {Absent, ""}
                     THEN Append(acc.items, TextItem(acc.heading, body)) ELSE acc.items,
         heading |-> Absent, buf |-> <<>>]

ReadLine(acc, line) ==
    CASE line = "problem"  -> [Flush(acc) EXCEPT !.items = Append(@, ProblemItem)]
      [] line = "misspelt" -> Flush(acc)
      [] line = "head"     -> [Flush(acc) EXCEPT !.heading = "h"]
      [] line = "untitled" -> [Flush(acc) EXCEPT !.heading = ""]
      [] OTHER             -> [acc EXCEPT !.buf = Append(@, line)]
ParseCourseMarkdown(lines) ==
    Flush(FoldLeft(ReadLine, [items |-> <<>>, heading |-> Absent, buf |-> <<>>], lines)).items

WriteItem(it) ==
    IF it.kind = "problem" THEN <<"problem">>
    ELSE (IF it.heading \in {Absent, ""} THEN <<>> ELSE <<"head", "blank">>)
         \o (IF it.body = <<>> THEN <<>> ELSE Append(it.body, "blank"))
SerializeCourseMarkdown(items) ==
    Append(DropLast(FlattenSeq([i \in DOMAIN items |-> WriteItem(items[i])]), {"blank"}), "blank")

\* PUT /items lets no text pass without a body.
Savable(items) == \A i \in DOMAIN items : items[i].kind = "text" => items[i].body # <<>>

\* Items that the editor sends.
SomeItems == {ProblemItem} \cup
    {TextItem(h, b) : h \in {Absent, "h"}, b \in {<<"text">>, <<"text", "blank", "head">>}}

-----------------------------------------------------------------------------
(* A problem as it is exported, and what importing it again makes of it *)

DefaultEpsilon == "1e-6"
SomeProblems ==
    [kind : {"code", "blank", "answer"}, checkerType : {"exact", "trim", "float", "special"},
     floatEpsilon : {DefaultEpsilon, "1e-3"}, stopOnFirstFail : {"yes", "no"},
     hint : {Absent, "", "hint"}, difficulty : {Absent, "1"},
     blankTemplate : {Absent, "lines"}, blankLines : {Absent, "some"},
     blankLanguage : {Absent, "c"}, checkerSource : {Absent, "program"},
     checkerLanguage : {Absent, "c"}]

\* Entries of a file that somebody wrote: Absent is a field left out, "bad" one that has
\* not the type or the value it should have.
SomeEntries ==
    [kind : {Absent, "bad", "code", "blank"}, checkerType : {Absent, "bad", "float", "special"},
     floatEpsilon : {Absent, "bad", "1e-3"}, stopOnFirstFail : {Absent, "bad", "yes", "no"},
     hint : {Absent, ""}, difficulty : {Absent, "bad"},
     blankTemplate : {Absent, "bad", "lines"}, blankLines : {Absent, "bad", "some"},
     blankLanguage : {Absent, "c"}, checkerSource : {Absent, "program"},
     checkerLanguage : {Absent, "c"}]

\* assertKindFields
KindFieldsThere(p) ==
    /\ p.kind = "blank" => p.blankTemplate # Absent /\ p.blankLanguage # Absent
    /\ p.checkerType = "special" => p.checkerSource # Absent /\ p.checkerLanguage # Absent

\* toBulkProblem
ToBulkProblem(p) ==
    [p EXCEPT !.floatEpsilon    = IF p.checkerType = "float" THEN @ ELSE Absent,
              !.hint            = IF @ = "" THEN Absent ELSE @,
              !.blankLines      = IF p.blankTemplate = Absent THEN Absent
                                  ELSE IF @ = Absent THEN "none" ELSE @,
              !.blankLanguage   = IF p.blankTemplate = Absent THEN Absent ELSE @,
              !.checkerLanguage = IF p.checkerSource = Absent THEN Absent ELSE @]

\* parseBulkProblems: an unknown kind or comparison refuses the entry, other fields that
\* are no good count as left out, and what is not true is false.
Refused(e) == "bad" \in {e.kind, e.checkerType}
OrElse(v, default) == IF v \in {Absent, "bad", ""} THEN default ELSE v
ParseBulkProblem(e) ==
    [field \in DOMAIN e |->
        CASE field = "kind"            -> OrElse(e.kind, "code")
          [] field = "checkerType"     -> OrElse(e.checkerType, "trim")
          [] field = "stopOnFirstFail" -> IF e.stopOnFirstFail = "bad" THEN "no"
                                          ELSE e.stopOnFirstFail
          [] OTHER -> OrElse(e[field], Absent)]

\* POST /import: what an entry becomes.
ImportProblem(e) ==
    [ParseBulkProblem(e) EXCEPT !.floatEpsilon    = OrElse(@, DefaultEpsilon),
                                !.stopOnFirstFail = OrElse(@, "yes")]

-----------------------------------------------------------------------------
(* Drawings: a list of shapes, and the elements of an SVG. Points are pairs.*)

Shape(kind, color, width, points, text) ==
    [kind |-> kind, color |-> color, width |-> width, points |-> points, text |-> text]

Points == {<<0, 0>>, <<10, 25>>, <<30, 20>>}
Corners == Points \X Points
Outlines == {"line", "arrow", "rect", "ellipse", "pen"}
Colors == {"", "red"}
Widths == {2, 3}
SomeShapes ==
    {Shape(kind, color, width, pq, Absent) :
        kind \in Outlines, color \in Colors, width \in Widths, pq \in Corners}
    \cup {Shape("text", color, width, <<p>>, "a<b") :
        color \in Colors, width \in Widths, p \in Points}

\* The corners of a box, and its middle and half its size in halves of a pixel.
Low(points) == [axis \in 1..2 |-> Min({points[1][axis], points[2][axis]})]
High(points) == [axis \in 1..2 |-> Max({points[1][axis], points[2][axis]})]
Plus(p, q) == [axis \in 1..2 |-> p[axis] + q[axis]]
Minus(p, q) == [axis \in 1..2 |-> p[axis] - q[axis]]
Halved(p) == [axis \in 1..2 |-> p[axis] \div 2]

\* What is as in the root of the SVG is not written.
Element(tag, at, stroke, width) == [tag |-> tag, at |-> at, stroke |-> stroke, width |-> width]

ShapeToSvg(s) ==
    LET lo == Low(s.points)
        hi == High(s.points)
        Styled(tag, at) == Element(tag, at, IF s.color = "" THEN Absent ELSE s.color,
                                            IF s.width = 2 THEN Absent ELSE s.width)
    IN  CASE s.kind = "line"    -> Styled("line", s.points)
          [] s.kind = "arrow"   -> Styled("g", s.points)
          [] s.kind = "pen"     -> Styled("polyline", s.points)
          [] s.kind = "rect"    -> Styled("rect", <<lo, Minus(hi, lo)>>)
          [] s.kind = "ellipse" -> Styled("ellipse", <<Plus(lo, hi), Minus(hi, lo)>>)
          [] s.kind = "text"    -> Element("text", <<s.points[1], s.text>>,
                                           IF s.color = "" THEN "currentColor" ELSE s.color,
                                           s.width * 7)
ShapesToSvg(shapes) == [i \in DOMAIN shapes |-> ShapeToSvg(shapes[i])]

ReadElement(el) ==
    LET Styled(kind, points) == Shape(kind, IF el.stroke = Absent THEN "" ELSE el.stroke,
                                            IF el.width = Absent THEN 2 ELSE el.width,
                                            points, Absent)
    IN  CASE el.tag = "line"     -> Styled("line", el.at)
          [] el.tag = "g"        -> Styled("arrow", el.at)
          [] el.tag = "polyline" -> Styled("pen", el.at)
          [] el.tag = "rect"     -> Styled("rect", <<el.at[1], Plus(el.at[1], el.at[2])>>)
          [] el.tag = "ellipse"  -> Styled("ellipse", <<Halved(Minus(el.at[1], el.at[2])),
                                                        Halved(Plus(el.at[1], el.at[2]))>>)
          [] el.tag = "text"     -> Shape("text", IF el.stroke = "currentColor" THEN ""
                                                  ELSE el.stroke,
                                          (el.width + 3) \div 7, <<el.at[1]>>, el.at[2])
SvgToShapes(svg) == [i \in DOMAIN svg |-> ReadElement(svg[i])]

-----------------------------------------------------------------------------
Put(kind, text, Symbols, max) ==
    /\ about = kind /\ Len(text) < max
    /\ \E ch \in Symbols : text' = Append(text, ch)
    /\ UNCHANGED about

InitFormats ==
    /\ about \in {"output", "blank", "roster", "course", "items", "problem",
                 "entry", "drawing"}
    /\ one = <<>> /\ two = <<>>

NextFormats ==
    \/ UNCHANGED two /\ \/ Put("output", one, Chars, MaxLen)
                        \/ Put("blank", one, {"a", "b"}, MaxLines)
                        \/ Put("roster", one, CellChars, MaxLen)
                        \/ Put("course", one, CourseLines, MaxLines)
                        \/ Put("items", one, SomeItems, MaxCells)
                        \/ Put("problem", one, SomeProblems, 1)
                        \/ Put("entry", one, SomeEntries, 1)
                        \/ Put("drawing", one, SomeShapes, 2)
    \/ UNCHANGED one /\ \/ Put("output", two, Chars, MaxLen)
                        \/ Put("blank", two, {"a", "b"}, MaxLines)
                        \/ Put("roster", two, CellChars, MaxLen)

FormatsSpec == InitFormats /\ [][NextFormats]_formatsVars

-----------------------------------------------------------------------------
(* Properties *)

\* A comparison that forgives more accepts more: what is right to the letter is right
\* when the ends of lines are trimmed, and what is right then is right token by token.
\* An answer is graded no harder than the output of a program. Blanks and line ends
\* behind the last line never cost a trimmed comparison (checker.ts 50, problemkind.ts 98).
CheckersNest ==
    about = "output" =>
        /\ Check("exact", one, two) => Check("trim", one, two)
        /\ Check("trim", one, two) => Check("float", one, two)
        /\ \A type \in {"exact", "trim", "float"} :
            Check(type, one, two) => GradeAnswer(type, one, two)
        /\ ToSet(two) \subseteq Spaces => Check("trim", one \o two, one)

\* Whatever is filled in, the other lines are those of the template; and whoever fills in
\* what was left out gets the template back.
BlanksFit ==
    about = "blank" =>
        \A blankLines \in SUBSET (1..(Len(one) + 1)) :
            /\ \A i \in DOMAIN one \ blankLines :
                FillBlanks(one, blankLines, two)[i] = BlankOut(one, blankLines)[i]
            /\ FillBlanks(BlankOut(one, blankLines), blankLines, one) = one

\* The list of new accounts reads back as the cells that were written, but a cell with
\* a tab that nothing makes it quote (roster.ts 155): its tab is read as the end of a cell.
Bare(cell) == "tab" \in ToSet(cell) /\ {"quote", "comma"} \cap ToSet(cell) = {}

RosterKept ==
    about = "roster" /\ ~Bare(JsTrim(one)) /\ ~Bare(JsTrim(two)) =>
        SplitCsvLine(ResultCsv(JsTrim(one), JsTrim(two))) = <<JsTrim(one), JsTrim(two)>>

\* Whether the items can be told apart in a file: no text without a heading follows a
\* text, no heading is untitled, and no text begins with what reads as a heading.
ToldApart(items) ==
    \A i \in DOMAIN items : items[i].kind = "text" =>
        /\ items[i].heading # ""
        /\ i > 1 /\ items[i].heading = Absent => items[i - 1].kind = "problem"
        /\ items[i].body # <<>> => items[i].body[1] # "head"

\* The problems of a course, in their order.
AddProblem(list, it) == IF it.kind = "problem" THEN Append(list, it) ELSE list
Problems(items) == FoldLeft(AddProblem, <<>>, items)

\* Such a course that came from a file comes out of its export as it was; no course
\* loses a problem or changes their order (bulk.ts 336).
CourseSurvives ==
    about = "course" =>
        LET items == ParseCourseMarkdown(one)
            again == ParseCourseMarkdown(SerializeCourseMarkdown(items))
        IN  /\ ToldApart(items) => again = items
            /\ Problems(again) = Problems(items)

\* A problem whose fields fit its kind comes out of an export and an import judged by
\* the same rules (bulk.ts 280), and a second time it does not change at all. So does a
\* problem that came from a file, whatever the file left out or had wrong.
JudgedAlike(p, q) ==
    /\ KindFieldsThere(q)
    /\ \A field \in {"kind", "checkerType", "stopOnFirstFail", "difficulty",
                     "blankTemplate", "checkerSource"} : q[field] = p[field]
    /\ p.checkerType = "float" => q.floatEpsilon = p.floatEpsilon
    /\ p.kind = "blank" => q.blankLanguage = p.blankLanguage

ProblemKept ==
    about \in {"problem", "entry"} /\ one # <<>> /\ ~Refused(one[1]) =>
        LET p == IF about = "entry" THEN ImportProblem(one[1]) ELSE one[1]
            q == ImportProblem(ToBulkProblem(p))
        IN  KindFieldsThere(p) => JudgedAlike(p, q) /\ ImportProblem(ToBulkProblem(q)) = q

\* A drawing that is opened again and put back as it is does not change: the reader is
\* the writer turned round (svgshapes.ts 4-6), and no shape changes its kind or is lost.
DrawingKept ==
    about = "drawing" =>
        LET again == SvgToShapes(ShapesToSvg(one))
        IN  /\ ShapesToSvg(again) = ShapesToSvg(one)
            /\ \A i \in DOMAIN one : again[i].kind = one[i].kind /\ again[i].text = one[i].text

FormatsSound ==
    /\ CheckersNest /\ BlanksFit /\ RosterKept
    /\ CourseSurvives /\ ProblemKept /\ DrawingKept

\* What a comment says of every course: headings and texts stay together through an
\* export and an import (bulk.ts 336-339). Not so: neighbours without a heading merge.
PairsKept ==
    about = "items" => ParseCourseMarkdown(SerializeCourseMarkdown(one)) = one

\* A course that was imported can be saved in the editor. Not so: a heading without a
\* text is kept (bulk.ts 199) and refused (routes/collections.ts 400).
ImportedIsSavable == about = "course" => Savable(ParseCourseMarkdown(one))
=============================================================================
