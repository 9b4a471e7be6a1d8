------------------------------- MODULE Editor -------------------------------
(***************************************************************************)
(* The Markdown field that problems, courses and solutions are written in  *)
(* (apps/web/src/lib/MarkdownInput.svelte), the drawing board it opens     *)
(* (SvgDraw.svelte, svgblock.ts) and the pictures it uploads               *)
(* (apps/api/src/routes/uploads.ts, storage.ts). Uploads go on while one   *)
(* types or draws, several at once; the server writes a picture under the  *)
(* hash of its content and may end half-way. The board lies over the field *)
(* but leaves it the keys: one can write, paste and open it again under it.*)
(*                                                                         *)
(* A body is a sequence of marks. A placeholder has two of them and the    *)
(* address that takes its place three: their lengths differ, and either    *)
(* can be cut in two.                                                      *)
(***************************************************************************)
EXTENDS Formats

CONSTANTS
    Hash,        \* pictures, by the hash of their content
    Selections,  \* sequences of pictures that are chosen, dropped or pasted at once
    Bodies,      \* what a field may hold when it is opened
    Tools,       \* the tools of the board that are used, "select" among them
    Grid,        \* the points of the board that are hit
    MaxPictures, \* bound: pictures chosen
    MaxTyped,    \* bound: keys typed
    MaxShapes,   \* bound: shapes of a drawing
    MaxBoards,   \* bound: times the board is opened
    MaxCrashes,  \* bound: ends of the server
    MaxActs      \* bound: pictures, keys, boards and crashes together

ASSUME EditorAssumption ==
    /\ Selections \subseteq Seq(Hash) \ {<<>>}
    /\ {MaxPictures, MaxTyped, MaxShapes, MaxBoards, MaxCrashes, MaxActs}
            \subseteq Nat
    /\ \A text \in Bodies :
        /\ text \in Seq(ToSet(text))
        /\ \A i \in DOMAIN text :
            /\ text[i][1] \notin {"uploading", "picture"}
            /\ text[i][1] = "shapes" => text[i][2] \in Seq(ToSet(text[i][2]))

VARIABLES
    body,     \* value
    uploads,  \* calls of upload that are under way
    board,    \* the open drawing board, or Absent
    disk,     \* of each picture: "none", "partial" or "whole"
    cached,   \* what a browser that was shown the picture keeps for good
    spent,    \* pictures, keys, boards and crashes so far
    answered, \* history: uploads whose address was put into the body
    broken,   \* history: uploads whose placeholder or address a person has cut
    torn,     \* history: those that the field itself has cut, with the placeholder of the
              \* next picture
    shifted,  \* history: the body has changed before or in the drawing that the open board
              \* is to replace
    unsafe    \* history: pictures that two requests wrote at once, or a crash cut short

editorVars == <<body, uploads, board, disk, cached, spent, answered, broken, torn, shifted,
                unsafe>>

-----------------------------------------------------------------------------
(* Bodies *)

Mark(kind, k, n) == [i \in 1..n |-> <<kind, k, i>>]
Placeholder(k) == Mark("uploading", k, 2)
Address(k) == Mark("picture", k, 3)
Letter == <<"letter", 0, 1>>
SvgOpen == <<"svg", 0, 1>>
SvgClose == <<"svg", 0, 2>>
Foreign == <<"foreign", <<>>, 1>>     \* the inside of an SVG that the board did not make
Drawing(shapes) == <<SvgOpen, <<"shapes", ShapesToSvg(shapes), 1>>, SvgClose>>

Holds(text, seq) == seq \in SubSeqs(text)
Splice(text, from, to, new) == SubSeq(text, 1, from) \o new \o SubSeq(text, to + 1, Len(text))

\* findSvgBlocks: from an opening mark to the next closing one, <<start, end>>.
SvgBlocks(text) ==
    LET CloseOf(i) == {j \in i..Len(text) : text[j] = SvgClose}
        Ends == {<<i - 1, Min(CloseOf(i))>> :
                    i \in {j \in DOMAIN text : text[j] = SvgOpen /\ CloseOf(j) # {}}}
    IN  {b \in Ends : \A c \in Ends : ~(c[1] < b[1] /\ b[1] < c[2])}

\* extractSvgAt: the first block that has pos in it or at its edge.
SvgAt(text, pos) ==
    LET around == {b \in SvgBlocks(text) : b[1] <= pos /\ pos <= b[2]}
    IN  IF around = {} THEN Absent ELSE CHOOSE b \in around : \A c \in around : b[1] <= c[1]

\* isOurSvg, svgToShapes: an SVG that others made is not read.
IsOurSvg(svg) == \E mark \in ToSet(svg) : mark[1] = "shapes"
ShapesIn(svg) == SvgToShapes((CHOOSE mark \in ToSet(svg) : mark[1] = "shapes")[2])

Balanced(text) ==
    \A i \in DOMAIN text : text[i] \in {SvgOpen, SvgClose} =>
        \E b \in SvgBlocks(text) : i \in {b[1] + 1, b[2]}

\* What is there in one piece: uploads by their placeholder or address, and the drawings.
AllDrawings == <<<<0, 0>>, "svg">>
Intact(text) ==
    {k \in {text[i][2] : i \in {j \in DOMAIN text : text[j][1] \in {"uploading", "picture"}}} :
        Holds(text, Placeholder(k)) \/ Holds(text, Address(k))}
    \cup (IF Balanced(text) THEN {AllDrawings} ELSE {})

\* The drawing that the board is to replace, and what is before it, are not there any more.
DrawingMoves(text) ==
    /\ board # Absent /\ board.range # Absent
    /\ ~IsPrefix(SubSeq(body, 1, Min({board.range[2], Len(body)})), text)

Becomes(text) == body' = text /\ shifted' = (shifted \/ DrawingMoves(text))

\* A person changes the body, and may cut what was there in one piece.
Writes(text) ==
    /\ Becomes(text)
    /\ broken' = broken \cup (Intact(body) \ Intact(text))

Counted(what, n, max) ==
    /\ spent[what] + n <= max
    /\ spent.typed + spent.pictures + spent.boards + spent.crashes + n <= MaxActs
    /\ spent' = [spent EXCEPT ![what] = @ + n]

-----------------------------------------------------------------------------
(* Typing, over what is selected: [from, to). The open board takes the keys that erase if *)
(* one of its shapes is picked, and no others.                                             *)

TypeKey(from, to) ==
    /\ Counted("typed", 1, MaxTyped)
    /\ Writes(Splice(body, from, to, <<Letter>>))
    /\ UNCHANGED <<uploads, board, disk, cached, answered, torn, unsafe>>

EraseKey(from, to) ==
    /\ from < to /\ Counted("typed", 1, MaxTyped)
    /\ board # Absent => board.selected = Absent
    /\ Writes(Splice(body, from, to, <<>>))
    /\ UNCHANGED <<uploads, board, disk, cached, answered, torn, unsafe>>

-----------------------------------------------------------------------------
(* upload: picture after picture of one selection *)

\* The name of the n-th picture of a call, as its placeholder and its address have it.
Token(c) == <<c.call, Head(c.rest)>>

\* Pictures are pasted, dropped or chosen: the first placeholder replaces what is selected.
Upload(files, from, to) ==
    /\ Counted("pictures", Len(files), MaxPictures)
    /\ LET c == [call |-> <<spent.pictures, Len(files)>>, rest |-> files, step |-> "sent"]
       IN  /\ uploads' = uploads \cup {c}
           /\ Writes(Splice(body, from, to, Placeholder(Token(c))))
    /\ UNCHANGED <<board, disk, cached, answered, torn, unsafe>>

Steps(c, step) == uploads' = (uploads \ {c}) \cup {[c EXCEPT !.step = step]}

Writers(h) == {c \in uploads : c.step = "writing" /\ Head(c.rest) = h}

\* POST /uploads has checked the picture: is there a file of that name?
LookForFile(c) ==
    /\ c.step = "sent"
    /\ Steps(c, IF disk[Head(c.rest)] = "none" THEN "absent" ELSE "kept")
    /\ unsafe' = IF disk[Head(c.rest)] = "partial" THEN unsafe \cup {Head(c.rest)} ELSE unsafe
    /\ UNCHANGED <<body, board, disk, cached, spent, answered, broken, torn, shifted>>

\* writeFile opens and empties it,
OpenFile(c) ==
    /\ c.step = "absent"
    /\ disk' = [disk EXCEPT ![Head(c.rest)] = "partial"]
    /\ Steps(c, "writing")
    /\ unsafe' = IF disk[Head(c.rest)] = "none" THEN unsafe ELSE unsafe \cup {Head(c.rest)}
    /\ UNCHANGED <<body, board, cached, spent, answered, broken, torn, shifted>>

\* and has written all of it.
CloseFile(c) ==
    /\ c.step = "writing"
    /\ disk' = [disk EXCEPT ![Head(c.rest)] = IF Writers(Head(c.rest)) = {c} THEN "whole" ELSE @]
    /\ Steps(c, "kept")
    /\ UNCHANGED <<body, board, cached, spent, answered, broken, torn, shifted, unsafe>>

\* No picture by its first bytes, too large, not an instructor any more, or the network.
RefusePicture(c) ==
    /\ c.step = "sent"
    /\ Steps(c, "refused")
    /\ UNCHANGED <<body, board, disk, cached, spent, answered, broken, torn, shifted, unsafe>>

\* The server ends: its requests fail, and a file that is open stays as it is.
ServerEnds ==
    /\ Counted("crashes", 1, MaxCrashes)
    /\ unsafe' = unsafe \cup {h \in Hash : Writers(h) # {}}
    /\ uploads' = {[c EXCEPT !.step = "refused"] : c \in uploads}
    /\ UNCHANGED <<body, board, disk, cached, answered, broken, torn, shifted>>

\* What takes the place of the placeholder.
OutcomeKeepingToken(c) ==       \* mutant: a refused upload leaves its placeholder
    IF c.step = "kept" THEN Address(Token(c)) ELSE Placeholder(Token(c))
Outcome(c) == IF c.step = "kept" THEN Address(Token(c)) ELSE <<>>

\* The answer has come.
HasAnswer(c) ==
    /\ c.step \in {"kept", "refused"}
    /\ answered' = IF c.step = "kept" THEN answered \cup {Token(c)} ELSE answered
    /\ UNCHANGED <<board, disk, cached, spent, unsafe>>

Filled(c) == ReplaceFirstSubSeq(Outcome(c), Placeholder(Token(c)), body)

UploadEnds(c) ==
    /\ Tail(c.rest) = <<>>
    /\ HasAnswer(c)
    /\ uploads' = uploads \ {c}
    /\ Becomes(Filled(c))
    /\ UNCHANGED <<broken, torn>>

\* With more pictures to go, the next placeholder goes in at once, over what was selected
\* before the body changed: the field is drawn again only when the handler has let go.
\* Without a field (in the preview) it goes to the end.
NextPicture(c, from, to) ==
    LET next == [c EXCEPT !.rest = Tail(@), !.step = "sent", !.call = <<@[1], @[2] - 1>>]
        size == Len(Filled(c))
    IN  /\ Tail(c.rest) # <<>>
        /\ HasAnswer(c)
        /\ uploads' = (uploads \ {c}) \cup {next}
        /\ Becomes(Splice(Filled(c), Min({from, size}), Min({to, size}),
                          Placeholder(Token(next))))
        /\ torn' = torn \cup (Intact(Filled(c)) \ Intact(body'))
        /\ UNCHANGED broken

\* The preview shows an address: the browser keeps what it gets, and never asks again.
ShowPicture(h) ==
    /\ cached[h] = "none" /\ disk[h] # "none"
    /\ \E k \in answered : k[2] = h /\ Holds(body, Address(k))
    /\ cached' = [cached EXCEPT ![h] = disk[h]]
    /\ UNCHANGED <<body, uploads, board, disk, spent, answered, broken, torn, shifted, unsafe>>

-----------------------------------------------------------------------------
(* The drawing board *)

NoDrawing == [range |-> Absent, initial |-> <<>>, draft |-> Absent, selected |-> Absent,
              shapes |-> <<>>]

\* The button can be pressed again while the board is open: it then takes another drawing
\* to replace, and reads its shapes if it can and if they are others than before.
OpenDraw(pos) ==
    /\ Counted("boards", 1, MaxBoards)
    /\ LET block == SvgAt(body, pos)
           svg == IF block = Absent THEN <<>> ELSE SubSeq(body, block[1] + 1, block[2])
           old == IF board = Absent THEN NoDrawing ELSE board
       IN  board' = [old EXCEPT !.range = block, !.initial = svg,
                        !.shapes = IF svg # old.initial /\ IsOurSvg(svg) THEN ShapesIn(svg)
                                   ELSE @]
    /\ UNCHANGED <<body, uploads, disk, cached, answered, broken, torn, shifted, unsafe>>

OnBoard(next) ==
    /\ board # Absent
    /\ board' = next
    /\ UNCHANGED <<body, uploads, disk, cached, spent, answered, broken, torn, shifted, unsafe>>

Abs(n) == IF n < 0 THEN 0 - n ELSE n
Within(p, lo, hi) == \A axis \in 1..2 : lo[axis] <= p[axis] /\ p[axis] <= hi[axis]
NearShape(s, p) ==
    CASE s.kind = "pen"  -> \E q \in ToSet(s.points) : Abs(q[1] - p[1]) < 8 /\ Abs(q[2] - p[2]) < 8
      [] s.kind = "text" -> Abs(s.points[1][1] - p[1]) < 60 /\ Abs(s.points[1][2] - p[2]) < 16
      [] OTHER -> Within(p, Minus(Low(s.points), <<8, 8>>), Plus(High(s.points), <<8, 8>>))

\* down with the tool that picks: the shape on top.
Pick(p) ==
    /\ board # Absent /\ "select" \in Tools
    /\ LET near == {i \in DOMAIN board.shapes : NearShape(board.shapes[i], p)}
       IN  OnBoard([board EXCEPT !.selected = IF near = {} THEN Absent ELSE Max(near)])

\* down with another tool. A text is there at once, other shapes follow the pointer.
Down(tool, p) ==
    /\ board # Absent /\ board.draft = Absent /\ tool # "select"
    /\ Len(board.shapes) < MaxShapes
    /\ IF tool = "text"
       THEN OnBoard([board EXCEPT !.shapes = Append(@, Shape("text", "", 2, <<p>>, "text"))])
       ELSE OnBoard([board EXCEPT !.draft =
                        Shape(tool, "", 2, IF tool = "pen" THEN <<p>> ELSE <<p, p>>, Absent)])

Move(p) ==
    /\ board # Absent /\ board.draft # Absent
    /\ IF board.draft.kind = "pen"
       THEN Len(board.draft.points) < 2
            /\ OnBoard([board EXCEPT !.draft.points = Append(@, p)])
       ELSE OnBoard([board EXCEPT !.draft.points[2] = p])

\* up: a point by itself was no shape.
Up ==
    /\ board # Absent /\ board.draft # Absent
    /\ LET s == board.draft
           trivial == IF s.kind = "pen" THEN Len(s.points) < 2 ELSE s.points[1] = s.points[2]
       IN  OnBoard([board EXCEPT !.draft = Absent,
                                 !.shapes = IF trivial THEN @ ELSE Append(@, s)])

\* Nothing is removed if what was picked is not there any more.
RemoveSelected ==
    /\ board # Absent /\ board.selected # Absent
    /\ LET kept == IF board.selected \in DOMAIN board.shapes
                   THEN RemoveAt(board.shapes, board.selected) ELSE board.shapes
       IN  OnBoard([board EXCEPT !.shapes = kept, !.selected = Absent])

Undo ==
    /\ board # Absent /\ board.shapes # <<>>
    /\ OnBoard([board EXCEPT !.shapes = Front(@), !.selected = Absent])

ClearAll ==
    /\ board # Absent /\ board.shapes # <<>>
    /\ OnBoard([board EXCEPT !.shapes = <<>>, !.selected = Absent])

CancelDraw ==
    /\ board # Absent
    /\ board' = Absent
    /\ UNCHANGED <<body, uploads, disk, cached, spent, answered, broken, torn, shifted, unsafe>>

\* onDrawSave: a new drawing replaces what is selected,
SaveNewDraw(from, to) ==
    /\ board # Absent /\ board.range = Absent
    /\ board.shapes # <<>> /\ board.draft = Absent
    /\ Writes(Splice(body, from, to, Drawing(board.shapes)))
    /\ board' = Absent
    /\ UNCHANGED <<uploads, disk, cached, spent, answered, torn, unsafe>>

\* and another one what is in the range of the time the board was opened.
SaveDraw ==
    LET from == Min({board.range[1], Len(body)})
        old == SubSeq(body, from + 1, Min({board.range[2], Len(body)}))
    IN  /\ board # Absent /\ board.range # Absent
        /\ board.shapes # <<>> /\ board.draft = Absent
        /\ body' = Splice(body, from, board.range[2], Drawing(board.shapes))
        /\ broken' = broken \cup (Intact(old) \ {AllDrawings})
        /\ board' = Absent
        /\ UNCHANGED <<uploads, disk, cached, spent, answered, torn, shifted, unsafe>>

-----------------------------------------------------------------------------
InitEditor ==
    /\ body \in Bodies
    /\ uploads = {} /\ board = Absent
    /\ disk = [h \in Hash |-> "none"] /\ cached = disk
    /\ spent = [typed |-> 0, pictures |-> 0, boards |-> 0, crashes |-> 0]
    /\ answered = {} /\ broken = {AllDrawings} \ Intact(body) /\ torn = {}
    /\ shifted = FALSE /\ unsafe = {}

Cursor == 0..Len(body)
Selected == {range \in Cursor \X Cursor : range[1] <= range[2]}

Edit ==
    \/ \E range \in Selected :
        \/ TypeKey(range[1], range[2]) \/ EraseKey(range[1], range[2])
        \/ \E files \in Selections : Upload(files, range[1], range[2])
    \/ \E c \in uploads :
        \/ LookForFile(c) \/ OpenFile(c) \/ CloseFile(c) \/ RefusePicture(c) \/ UploadEnds(c)
        \/ \E range \in Selected \cup {<<Len(Filled(c)), Len(Filled(c))>>} :
                NextPicture(c, range[1], range[2])
    \/ ServerEnds
    \/ \E h \in Hash : ShowPicture(h)

Draw ==
    \/ \E pos \in Cursor : OpenDraw(pos)
    \/ \E p \in Grid : Pick(p) \/ Move(p) \/ \E tool \in Tools : Down(tool, p)
    \/ Up \/ RemoveSelected \/ Undo \/ ClearAll \/ CancelDraw
    \/ SaveDraw \/ \E range \in Selected : SaveNewDraw(range[1], range[2])

NextEditor == Edit \/ Draw

EditorSpec == InitEditor /\ [][NextEditor]_editorVars

-----------------------------------------------------------------------------
(* Properties *)

\* A placeholder is there only while its picture is on the way, however many are and in
\* whatever order they end; once its address is in the body it stays there, in one piece.
\* This is as long as neither a person nor the placeholder of the next picture cuts it, and
\* for addresses, as long as the text does not change under a drawing that is open.
UploadsSettle ==
    /\ \A k \in Intact(body) \ (broken \cup torn) :
        Holds(body, Placeholder(k)) => \E c \in uploads : Token(c) = k
    /\ ~shifted => \A k \in answered \ (broken \cup torn) : Holds(body, Address(k))

\* Likewise the drawings: however often they are opened and saved, whatever is typed and
\* uploaded behind them meanwhile, every one stays whole.
DrawingsStay == ~shifted /\ AllDrawings \notin broken \cup torn => Balanced(body)

\* An address that was handed out leads to the whole picture, and so does what a browser
\* keeps of it, if no two requests wrote the picture at once and no crash cut it short.
PicturesWhole ==
    \A h \in Hash \ unsafe :
        /\ (\E k \in answered : k[2] = h) => disk[h] = "whole"
        /\ cached[h] # "partial"
        /\ disk[h] = "partial" => Writers(h) # {}

EditorSound == UploadsSettle /\ DrawingsStay /\ PicturesWhole

-----------------------------------------------------------------------------
(* What the source says and this field does not do *)

\* MarkdownInput.svelte 93: the places of several pictures are kept apart. The next
\* placeholder goes in where the cursor was before the address: into the address.
PlacesKept == spent.boards = 0 => \A k \in answered \ broken : Holds(body, Address(k))

\* MarkdownInput.svelte 132-136: a drawing is put back where it was. Not after a key or an
\* upload that ended meanwhile has moved it.
DrawingsReplaced == AllDrawings \notin broken \cup torn => Balanced(body)

\* uploads.ts 86-87: what is served under a name may be kept for good. Not while it is
\* being written by a second request, nor after a crash.
ServedWhole == \A h \in Hash : cached[h] # "partial"

\* svgshapes.ts 178: a drawing that others made is not spoilt by opening it.
ForeignKept ==
    [][board # Absent /\ board' = Absent /\ Foreign \in ToSet(body)
         => Foreign \in ToSet(body')]_editorVars
=============================================================================
