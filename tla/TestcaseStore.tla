--------------------------- MODULE TestcaseStore ---------------------------
(***************************************************************************)
(* The test cases of problems: rows with hashes in the database, bodies in *)
(* files (apps/api/src/storage.ts), and the routes that replace both:      *)
(* PUT testcases, import and DELETE (routes/problems.ts). Files are written*)
(* one after the other and outside the transaction of the rows, so other   *)
(* requests, the judges and the end of the process come between.           *)
(***************************************************************************)
EXTENDS Integers, Sequences, SequencesExt, FiniteSetsExt, FiniteSets

CONSTANTS
    Problem,
    Body,      \* bodies of a test case: [text, crlf], crlf when lines end in CR LF
    Lists,     \* the lists of bodies that PUT and import are given
    None,
    MaxEdits   \* bound: edits of test cases

ASSUME ListsAssumption ==
    /\ Lists \subseteq Seq(Body) \ {<<>>} /\ None \notin Body
    /\ \E longest \in Lists : \A list \in Lists : Len(list) <= Len(longest)
ASSUME EditsAssumption == MaxEdits \in Nat

VARIABLES
    life,      \* of a problem: "new" (no id yet), "here" or "gone"
    rows,      \* testcases: what the row of each idx says its file contains
    version,   \* problems.testcaseVersion
    edition,   \* which set of rows it is: their ids, new with every replacement
    files,     \* what the directory of the problem holds at each idx
    edits,     \* requests under way
    edited,    \* edits so far
    torn       \* history: problems whose last edit failed half-way or met another edit

storeVars == <<life, rows, version, edition, files, edits, edited, torn>>

MaxLen == Max({Len(list) : list \in Lists})
Idx == 1..MaxLen
NoFiles == [i \in Idx |-> None]

\* writeTestcaseFile ends every line in LF, and answers with the hash of that.
Stored(body) == [body EXCEPT !.crlf = FALSE]

ASSUME StoredAssumption == \A body \in Body : Stored(body) \in Body

Listed(p) == [i \in Idx |-> IF i \in DOMAIN rows[p] THEN rows[p][i] ELSE None]

\* GET export (and the page of a problem): the rows, then a file each; a file that is
\* missing reads as empty.
Empty == [text |-> "", crlf |-> FALSE]
Exported(p) == [i \in DOMAIN rows[p] |-> IF files[p][i] = None THEN Empty ELSE files[p][i]]

-----------------------------------------------------------------------------
EditsOf(p) == {e \in edits : e.problem = p}
Meets(p) == EditsOf(p) # {}

\* An edit is alone while no other edit of its problem is under way.
Joined(e) ==
    {IF d.problem = e.problem THEN [d EXCEPT !.alone = FALSE] ELSE d : d \in edits}
        \cup {[e EXCEPT !.alone = ~Meets(e.problem)]}

BeginEdit(kind, p, list, step) ==
    /\ edited < MaxEdits
    /\ edited' = edited + 1
    /\ edits' = Joined([id |-> edited, kind |-> kind, problem |-> p, list |-> list,
                        step |-> step, hashes |-> <<>>, alone |-> TRUE])

GoesTo(e, step) == edits' = (edits \ {e}) \cup {[e EXCEPT !.step = step]}

\* A request is over. Whoever ran alone to the end has put everything in order.
Completes(e) ==
    /\ edits' = edits \ {e}
    /\ torn' = IF e.alone THEN torn \ {e.problem} ELSE torn \cup {e.problem}

\* PUT testcases, up to the check that the problem is there.
BeginPut(p, list) ==
    /\ life[p] = "here"
    /\ BeginEdit("put", p, list, "clear")
    /\ UNCHANGED <<life, rows, version, edition, files, torn>>

\* POST import: the row of the problem comes first, in a transaction of its own.
BeginImport(p, list) ==
    /\ life[p] = "new"
    /\ life' = [life EXCEPT ![p] = "here"]
    /\ BeginEdit("import", p, list, "write")
    /\ UNCHANGED <<rows, version, edition, files, torn>>

LeaveFiles(e) ==                \* mutant: the directory is not cleared
    /\ e.kind = "put" /\ e.step = "clear"
    /\ GoesTo(e, "write")
    /\ UNCHANGED <<life, rows, version, edition, files, edited, torn>>

\* clearTestcaseDir
ClearFiles(e) ==
    /\ e.kind = "put" /\ e.step = "clear"
    /\ files' = [files EXCEPT ![e.problem] = NoFiles]
    /\ GoesTo(e, "write")
    /\ UNCHANGED <<life, rows, version, edition, edited, torn>>

\* writeTestcaseFile for the next idx; the hash is kept for the row.
WriteFile(e) ==
    /\ e.step = "write" /\ Len(e.hashes) < Len(e.list)
    /\ LET i == Len(e.hashes) + 1
           body == Stored(e.list[i])
       IN  /\ files' = [files EXCEPT ![e.problem][i] = body]
           /\ edits' = (edits \ {e}) \cup {[e EXCEPT !.hashes = Append(@, body)]}
    /\ UNCHANGED <<life, rows, version, edition, edited, torn>>

Written(e) == e.step = "write" /\ Len(e.hashes) = Len(e.list)

NewRows(e) ==
    /\ rows' = [rows EXCEPT ![e.problem] = e.hashes]
    /\ edition' = [edition EXCEPT ![e.problem] = @ + 1]

KeepVersion(e) ==               \* mutant: the version stays
    /\ e.kind = "put" /\ Written(e) /\ life[e.problem] = "here"
    /\ NewRows(e)
    /\ Completes(e)
    /\ UNCHANGED <<life, version, files, edited>>

\* The transaction of PUT: the rows are replaced and the version goes up.
ReplaceRows(e) ==
    /\ e.kind = "put" /\ Written(e) /\ life[e.problem] = "here"
    /\ NewRows(e)
    /\ version' = [version EXCEPT ![e.problem] = @ + 1]
    /\ Completes(e)
    /\ UNCHANGED <<life, files, edited>>

\* Import inserts the rows of the new problem; an idx that is there already refuses them.
InsertRows(e) ==
    /\ e.kind = "import" /\ Written(e) /\ life[e.problem] = "here" /\ rows[e.problem] = <<>>
    /\ NewRows(e)
    /\ Completes(e)
    /\ UNCHANGED <<life, version, files, edited>>

\* A request that writes ends on the way: an error of the disk, of the database (the
\* problem is gone, its rows are there already), or the end of the process.
EditFails(e) ==
    /\ e.kind \in {"put", "import"}
    /\ edits' = edits \ {e}
    /\ torn' = torn \cup {e.problem}
    /\ UNCHANGED <<life, rows, version, edition, files, edited>>

\* DELETE of a problem, before the directory goes; the rows go with the problem.
DeleteRow(p) ==
    /\ life[p] = "here"
    /\ life' = [life EXCEPT ![p] = "gone"]
    /\ rows' = [rows EXCEPT ![p] = <<>>]
    /\ BeginEdit("delete", p, <<>>, "remove")
    /\ UNCHANGED <<version, edition, files, torn>>

\* removeProblemData
RemoveFiles(e) ==
    /\ e.kind = "delete"
    /\ files' = [files EXCEPT ![e.problem] = NoFiles]
    /\ Completes(e)
    /\ UNCHANGED <<life, rows, version, edition, edited>>

\* The process ends before the directory is removed.
RemoveFails(e) ==
    /\ e.kind = "delete"
    /\ edits' = edits \ {e}
    /\ torn' = torn \cup {e.problem}
    /\ UNCHANGED <<life, rows, version, edition, files, edited>>

-----------------------------------------------------------------------------
StoreInit ==
    /\ life \in [Problem -> {"new", "here"}]
    /\ rows = [p \in Problem |-> IF life[p] = "here"
                                 THEN <<Stored(CHOOSE b \in Body : TRUE)>> ELSE <<>>]
    /\ version = [p \in Problem |-> 1] /\ edition = version
    /\ files = [p \in Problem |-> Listed(p)]
    /\ edits = {} /\ edited = 0 /\ torn = {}

\* Edits that leave the submissions alone.
Edit ==
    \/ \E p \in Problem, list \in Lists : BeginPut(p, list) \/ BeginImport(p, list)
    \/ \E e \in edits :
        \/ ClearFiles(e) \/ WriteFile(e)   \/ ReplaceRows(e) \/ InsertRows(e)
        \/ EditFails(e)  \/ RemoveFiles(e) \/ RemoveFails(e)

-----------------------------------------------------------------------------
(* Properties *)

\* scripts/check-data.ts: a file that is missing or differs, a directory without problem.
\* It does not look for files that no row names.
CheckDataFinds(p) ==
    \/ \E i \in DOMAIN rows[p] : files[p][i] # rows[p][i]
    \/ life[p] # "here" /\ files[p] # NoFiles

\* Rows and files agree whenever no edit is under way, for every problem whose last edits
\* neither failed nor met another: check-data finds nothing there, an export has every
\* case, and an edit that runs alone to its end repairs what earlier ones have left.
StoreMatches ==
    \A p \in Problem : ~Meets(p) /\ p \notin torn =>
        files[p] = Listed(p) /\ ~CheckDataFinds(p) /\ Exported(p) = rows[p]

\* routes/problems.ts 576: an export that somebody takes for a backup lacks nothing. While
\* the cases are replaced it has empty ones, and does not say so.
ExportLacksNothing == \A p \in Problem : Exported(p) = rows[p]
=============================================================================
