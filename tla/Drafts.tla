------------------------------- MODULE Drafts -------------------------------
(***************************************************************************)
(* The submission forms of the problem page over Screens: the code editor, *)
(* whose draft is kept by problem and language, and the answer and blank   *)
(* forms, kept by problem. Drafts are in localStorage; they are written    *)
(* 800 ms after the last key, by a timer that any change starts again, and *)
(* read back when the key changes or the form is drawn.                    *)
(*                                                                         *)
(* A text is the problem and language it was typed for.                    *)
(***************************************************************************)
EXTENDS Screens

CONSTANTS
    Language,
    MaxReopens   \* bound: reloads of the page

ASSUME DraftsAssumption ==
    Language # {} /\ None \notin Language /\ MaxReopens \in Nat

VARIABLES
    language, \* the chosen language, None until the list has come
    code,     \* what the form holds
    stored,   \* localStorage, by problem and language
    timer,    \* what the timer will write, and under which key
    sending,  \* the submission on the way
    left,     \* the key of the submission after which the page was left
    reopened

draftVars == <<language, code, stored, timer, sending, left, reopened>>
vars == <<screenVars, draftVars>>

Blank == <<>>
Key == Id \X Language

Keeps == screen.drafts # "none"
Drawn == screen.drafts = "code" \/ Rendered    \* the component with the effects exists

InitDrafts ==
    /\ language \in IF screen.drafts = "form" THEN {CHOOSE l \in Language : TRUE} ELSE {None}
    /\ code = Blank
    /\ stored = [k \in Key |-> Blank]
    /\ timer = None /\ sending = None /\ left = None /\ reopened = 0

KeepCode(k, old) ==       \* mutant: no draft under the new key leaves the old text
    IF stored[k] # Blank THEN stored[k] ELSE old

\* The first effect: the stored draft. Without one the editor is emptied, a form
\* (which is new whenever the problem is) is left as it is.
Restored(k, old) ==
    IF stored[k] # Blank THEN stored[k]
    ELSE IF screen.drafts = "code" THEN Blank ELSE old

\* Both effects, on a new key: the text is read, and the timer started again.
Refill(k, old) ==
    /\ code' = Restored(k, old)
    /\ timer' = [key |-> k, text |-> Restored(k, old)]

\* What a step of the page does to the form: a form that is no longer drawn is gone
\* with its timer, one that is drawn anew reads its draft, the editor follows its key.
FormFollows ==
    /\ IF ~Keeps \/ language = None THEN UNCHANGED <<code, timer>>
       ELSE IF ~Drawn' THEN code' = Blank /\ timer' = None
       ELSE IF ~Drawn THEN Refill(<<route', language>>, Blank)
       ELSE IF route' # route THEN Refill(<<route', language>>, code)
       ELSE UNCHANGED <<code, timer>>
    /\ UNCHANGED <<language, stored, sending, left, reopened>>

Here == left = None
InForm == Keeps /\ Here /\ Rendered /\ language # None

\* The list of languages comes; the last one used, or the first, is chosen.
Languages(l) ==
    /\ screen.drafts = "code" /\ Here /\ language = None
    /\ language' = l
    /\ Refill(<<route, l>>, code)
    /\ UNCHANGED <<screenVars, stored, sending, left, reopened>>

Switch(l) ==
    /\ screen.drafts = "code" /\ InForm /\ l # language
    /\ language' = l
    /\ Refill(<<route, l>>, code)
    /\ UNCHANGED <<screenVars, stored, sending, left, reopened>>

\* A key is typed (a text for what is shown), or everything erased.
Type(erased) ==
    /\ InForm
    /\ code' = IF erased THEN Blank ELSE <<shown.id, language>>
    /\ code' # code
    /\ timer' = [key |-> <<route, language>>, text |-> code']
    /\ UNCHANGED <<screenVars, language, stored, sending, left, reopened>>

\* 800 ms without a change.
TimerFires ==
    /\ timer # None
    /\ stored' = [stored EXCEPT ![timer.key] = timer.text]
    /\ timer' = None
    /\ UNCHANGED <<screenVars, language, code, sending, left, reopened>>

Submit ==
    /\ InForm /\ sending = None /\ code # Blank
    /\ sending' = [key |-> <<route, language>>, text |-> code, ok |-> FALSE]
    /\ UNCHANGED <<screenVars, language, code, stored, timer, left, reopened>>

\* The draft that is removed is the one of the key of now; then goto begins.
Submitted ==
    /\ sending # None /\ ~sending.ok
    /\ sending' = [sending EXCEPT !.ok = TRUE]
    /\ stored' = IF language = None THEN stored
                 ELSE [stored EXCEPT ![<<route, language>>] = Blank]
    /\ UNCHANGED <<screenVars, language, code, timer, left, reopened>>

SubmitRefused ==
    /\ sending # None /\ ~sending.ok /\ failures < MaxFailures
    /\ failures' = failures + 1
    /\ sending' = None
    /\ UNCHANGED <<page, server, content, moves, written, verdicts, crossed, hasty,
                   language, code, stored, timer, left, reopened>>

\* goto has ended: the page is gone, and its timer.
Leave ==
    /\ sending # None /\ sending.ok
    /\ left' = sending.key
    /\ sending' = None /\ timer' = None
    /\ UNCHANGED <<screenVars, language, code, stored, reopened>>

\* The page is opened again, or reloaded: only localStorage is kept.
Reopen ==
    /\ Keeps /\ reopened < MaxReopens
    /\ reopened' = reopened + 1
    /\ asked' = <<Get(route, 1, FALSE)>>
    /\ shown' = None /\ error' = None /\ polling' = FALSE
    /\ code' = Blank /\ timer' = None /\ sending' = None /\ left' = None
    /\ language' = IF screen.drafts = "code" THEN None ELSE language
    /\ UNCHANGED <<screen, route, loaded, posts, server, content, counts, crossed, hasty,
                   stored>>

-----------------------------------------------------------------------------
(* The whole tab *)

Init == InitScreens /\ InitDrafts

OnPage(A) == Here /\ A /\ FormFollows

Page ==
    \/ OnPage(ServeAny)
    \/ OnPage(RefuseAny)
    \/ OnPage(Answered)
    \/ OnPage(Poll)
    \/ OnPage(\E id \in Id : Navigate(id))
    \/ OnPage(Buttons)
    \/ OnPage(SaveItems)
    \/ OnPage(SaveProblem)
    \/ OnPage(WriteEnds)
    \/ OnPage(\E p \in posts : WriteRefused(p))
    \/ OnPage(\E id \in Id : Progress(id))
    \/ OnPage(\E id \in Id : Verdict(id))

Form ==
    \/ \E l \in Language : Languages(l) \/ Switch(l)
    \/ \E erased \in BOOLEAN : Type(erased)
    \/ TimerFires
    \/ Submit
    \/ Submitted
    \/ SubmitRefused
    \/ Leave
    \/ Reopen

Next == Page \/ Form

\* The network answers or fails, intervals tick, judging ends.
Fairness ==
    /\ WF_vars(OnPage(ServeAny)) /\ WF_vars(OnPage(Answered)) /\ WF_vars(OnPage(WriteEnds))
    /\ WF_vars(OnPage(Poll))
    /\ WF_vars(OnPage(\E id \in Id : Progress(id)))
    /\ WF_vars(Submitted) /\ WF_vars(Leave)

Spec == Init /\ [][Next]_vars /\ Fairness

-----------------------------------------------------------------------------
(* Properties *)

\* A draft that is kept, and a submission that is sent, was typed for the problem and
\* the language it is kept or sent under, however one went between them and whenever
\* the timer fired.
DraftsApart ==
    ~crossed => /\ \A k \in Key : stored[k] \in {Blank, k}
                /\ sending # None => sending.text = sending.key

\* What the screens show, save and keep belongs to the route it is shown, saved or
\* kept under.
WebSound == PageAgrees /\ ContentKept /\ DraftsApart

\* The page is left for good, or comes to rest showing what the server has: nothing
\* keeps a screen from going on asking while there is something to wait for.
Converges == <>[](AtRest \/ left # None)

-----------------------------------------------------------------------------
(* What the source says and these screens do not do *)

\* routes/problem/[id]/+page.svelte 78 and 128: a draft is removed once it is submitted.
DraftGone == left # None => stored[left] = Blank

\* api/src/routes/problems.ts 149-154: a special problem is not saved without its checker.
CheckerKept == \A id \in Id : content[id] # "partial"

\* routes/submission/[id]/+page.svelte 93-100: after a rejudge the polling brings the result.
RejudgeShown == screen.acts = "settled" =>
    <>[](moves > 0 \/ error # None \/ (shown # None /\ shown.version = server[route].version))

\* routes/c/[slug]/scoreboard/+page.svelte 57: an ended contest has nothing more to show.
BoardIsFinal == screen.waits = "clock" =>
    <>[](crossed \/ error # None \/ (shown # None /\ shown.version = server[route].version))

\* Nothing drops a late answer: a search shows the list of the search before it.
LateAnswer == asked = <<>> /\ error = None => shown # None /\ shown.id = route

\* routes/admin/collections/[id]/+page.svelte: a save after a failed load empties the course.
CourseKept == \A id \in Id : content[id] # "empty"
=============================================================================
