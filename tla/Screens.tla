------------------------------ MODULE Screens ------------------------------
(***************************************************************************)
(* One screen of the web client (apps/web/src) in one browser tab. A       *)
(* screen loads what its route names with a GET, some ask again on a timer *)
(* while there is something to wait for, some send a POST and load again,  *)
(* and the editors save what they were filled with.                        *)
(*                                                                         *)
(* No screen cancels a request or looks at whether an answer is the one it *)
(* asked for last: answers are taken in the order they come. The screens   *)
(* differ in a few traits; those with the same traits are one screen here. *)
(* crossed and hasty are history: whether an answer has ever been overtaken *)
(* by a later question, whether a form was saved that a load had not filled. *)
(***************************************************************************)
EXTENDS Integers, Sequences, SequencesExt, FiniteSets

CONSTANTS
    None,
    Id,          \* what a route may name: problems, submissions, searches...
    MaxAsked,    \* bound: GETs on the way
    MaxFailures, \* bound: requests that fail
    MaxMoves,    \* bound: navigations
    MaxPosts,    \* bound: POSTs, PUTs and PATCHes
    MaxVerdicts  \* bound: verdicts that change a scoreboard

Status == {"queued", "judging", "done"}
Shown == [id: Id, status: Status, version: Nat, whole: BOOLEAN]

ASSUME ScreensAssumption ==
    /\ None \notin Id \cup Shown \cup {"refused", "failed"}
    /\ MaxAsked \in Nat \ {0}
    /\ {MaxFailures, MaxMoves, MaxPosts, MaxVerdicts} \subseteq Nat

VARIABLES
    screen,   \* the traits of the screen
    route,    \* page.params.id, slug, handle, or the search
    asked,    \* GETs on the way, in the order they were asked
    shown,    \* what the answers have put on the screen
    loaded,   \* a first load has ended (editors draw their form from then on)
    polling,  \* the interval is running
    error,
    posts,    \* writes on the way
    server,   \* what the server would answer, by route
    content,  \* editors: whose content the server keeps, by route
    failures, moves, written, verdicts, crossed, hasty

page == <<screen, route, asked, shown, loaded, polling, error, posts>>
counts == <<failures, moves, written, verdicts>>
screenVars == <<page, server, content, counts, crossed, hasty>>

-----------------------------------------------------------------------------
(* The screens. waits: why it asks again. resets: a new route empties it.  *)
(* keyed: a new route makes a new component. hush: asking drops the error.  *)
(* clears: the failures that empty it. acts: how it writes and loads again. *)
(* form: what it saves. drafts: what it keeps in localStorage.              *)

Plain == [waits |-> "nothing", resets |-> FALSE, keyed |-> FALSE, hush |-> FALSE,
          clears |-> {}, acts |-> "never", form |-> "none", drafts |-> "none"]

SubmissionPage == [Plain EXCEPT !.waits = "status", !.acts = "settled"]
SubmissionList == [Plain EXCEPT !.waits = "status", !.acts = "anytime"]
ScoreboardPage == [Plain EXCEPT !.waits = "clock"]
CollectionPage == [Plain EXCEPT !.acts = "awaited"]
SolutionPage   == [Plain EXCEPT !.acts = "aside", !.clears = {"refused"}]
SolutionList   == [Plain EXCEPT !.acts = "aside", !.clears = {"refused"}]
UserPage       == [Plain EXCEPT !.clears = {"refused", "failed"}]
UserTable      == [Plain EXCEPT !.acts = "table"]
ProblemTable   == [Plain EXCEPT !.acts = "upload"]
ScoresPage     == Plain
CollectionList == Plain
CollectionTable == Plain
RankingPage    == Plain
HomeList       == [Plain EXCEPT !.hush = TRUE]
CourseEditor   == [Plain EXCEPT !.form = "whole", !.acts = "import"]
ProblemEditor  == [Plain EXCEPT !.form = "parts", !.keyed = TRUE,
                                !.resets = TRUE, !.hush = TRUE]
CodePage   == [Plain EXCEPT !.resets = TRUE, !.hush = TRUE, !.drafts = "code"]
AnswerPage == [CodePage EXCEPT !.drafts = "form"]
BlankPage  == [CodePage EXCEPT !.drafts = "form"]

AllScreens == {SubmissionPage, SubmissionList, ScoreboardPage, CollectionPage, SolutionPage,
            SolutionList, UserPage, UserTable, ProblemTable, ScoresPage, CollectionList,
            CollectionTable, RankingPage, HomeList, CourseEditor, ProblemEditor, CodePage,
            AnswerPage, BlankPage}

-----------------------------------------------------------------------------
(* GETs *)

Get(id, part, own) == [id |-> id, part |-> part, own |-> own, got |-> None]

InitScreens ==
    /\ screen \in AllScreens
    /\ route \in Id
    /\ asked = <<Get(route, 1, FALSE)>>
    /\ shown = None /\ loaded = FALSE /\ polling = FALSE /\ error = None
    /\ posts = {}
    /\ \E s \in CASE screen.waits = "status"  -> {"queued", "done"}
                  [] screen.waits = "clock"   -> {"judging"}
                  [] screen.waits = "nothing" -> {"done"} :
            server = [id \in Id |-> [status |-> s, version |-> 0]]
    /\ content = [id \in Id |-> id]
    /\ failures = 0 /\ moves = 0 /\ written = 0 /\ verdicts = 0
    /\ crossed = FALSE /\ hasty = FALSE

Pending(status) == status \in {"queued", "judging"}

\* The server answers with what it has now, or the request fails: the screen is
\* not told before the answer arrives.
Serve(i) ==
    /\ asked[i].got = None
    /\ asked' = [asked EXCEPT ![i].got = server[asked[i].id]]
    /\ UNCHANGED <<screen, route, shown, loaded, polling, error, posts, server, content,
                   counts, crossed, hasty>>

Refuse(i, why) ==
    /\ asked[i].got = None /\ failures < MaxFailures
    /\ failures' = failures + 1
    /\ asked' = [asked EXCEPT ![i].got = [status |-> why, version |-> 0]]
    /\ UNCHANGED <<screen, route, shown, loaded, polling, error, posts, server, content,
                   moves, written, verdicts, crossed, hasty>>

Failed(i) == asked[i].got.status \in {"refused", "failed"}

WaitsWhileQueued(id, got) ==    \* mutant: a submission that is being judged is not waited for
    screen.waits = "status" /\ got.status = "queued"

\* The derived "pending" or "live" of what has just come, for the id that it was asked
\* for: the interval follows it.
Waits(id, got) ==
    CASE screen.waits = "status"  -> Pending(got.status)
      [] screen.waits = "clock"   -> Pending(server[id].status)
      [] screen.waits = "nothing" -> FALSE

\* An answer is put on the screen, whatever the route is by now.
Arrive(i) ==
    LET r == asked[i] IN
    /\ r.part = 1 /\ r.got # None /\ ~Failed(i)
    /\ shown' = [id |-> r.id, status |-> r.got.status, version |-> r.got.version,
                 whole |-> screen.form # "parts"]
    /\ polling' = Waits(r.id, r.got)
    /\ error' = IF screen.hush THEN error ELSE None
    /\ IF screen.form = "parts"
       THEN asked' = Append(RemoveAt(asked, i), Get(r.id, 2, FALSE)) /\ UNCHANGED loaded
       ELSE asked' = RemoveAt(asked, i) /\ loaded' = TRUE
    /\ UNCHANGED <<screen, route, posts, server, content, counts, crossed, hasty>>

\* The answer of /problems/:id/source: a failure is taken for an empty source.
ArriveSource(i) ==
    /\ asked[i].part = 2 /\ asked[i].got # None
    /\ shown' = [shown EXCEPT !.whole = ~Failed(i)]
    /\ loaded' = TRUE
    /\ asked' = RemoveAt(asked, i)
    /\ UNCHANGED <<screen, route, polling, error, posts, server, content, counts, crossed,
                   hasty>>

ArriveFailed(i) ==
    /\ asked[i].part = 1 /\ asked[i].got # None /\ Failed(i)
    /\ error' = asked[i].got.status
    /\ IF asked[i].got.status \in screen.clears THEN shown' = None /\ polling' = FALSE
                                        ELSE UNCHANGED <<shown, polling>>
    /\ loaded' = TRUE
    /\ asked' = RemoveAt(asked, i)
    /\ UNCHANGED <<screen, route, posts, server, content, counts, crossed, hasty>>

Ask(id, own) ==
    /\ Len(asked) < MaxAsked
    /\ asked' = Append(asked, Get(id, 1, own))

Poll ==
    /\ polling
    /\ Ask(route, FALSE)
    /\ error' = IF screen.hush THEN None ELSE error
    /\ UNCHANGED <<screen, route, shown, loaded, polling, posts, server, content, counts,
                   crossed, hasty>>

\* A new route. A keyed component is thrown away with its requests.
Navigate(id) ==
    /\ moves < MaxMoves /\ id # route
    /\ moves' = moves + 1
    /\ route' = id
    /\ IF screen.keyed THEN asked' = <<Get(id, 1, FALSE)>> /\ loaded' = FALSE
                            /\ posts' = {} /\ UNCHANGED crossed
                       ELSE Ask(id, FALSE) /\ crossed' = (crossed \/ asked # <<>>)
                            /\ UNCHANGED <<loaded, posts>>
    /\ IF screen.resets THEN shown' = None /\ polling' = FALSE
                        ELSE UNCHANGED <<shown, polling>>
    /\ error' = IF screen.hush THEN None ELSE error
    /\ UNCHANGED <<screen, server, content, failures, written, verdicts, hasty>>

-----------------------------------------------------------------------------
(* Writes *)

Busy(kind) == (\E p \in posts : p.kind = kind) \/ \E i \in DOMAIN asked : asked[i].own

Write(p) ==
    /\ written < MaxPosts /\ Cardinality(posts) < 2 /\ p \notin posts
    /\ written' = written + 1
    /\ posts' = posts \cup {p}

Rendered == shown # None /\ error = None

\* A write of a button, after which the screen loads again.
ActOn(id) ==
    /\ Write([kind |-> "act", id |-> id, of |-> id, served |-> FALSE])
    /\ UNCHANGED <<screen, route, asked, shown, loaded, polling, error, server, content, failures,
                   moves, verdicts, crossed, hasty>>

Act == ActOn(route)

RejudgeThis == screen.acts = "settled" /\ Rendered /\ ~polling /\ ~Busy("act") /\ Act
\* The list's own button waits for nothing.
RejudgeFromList == screen.acts = "anytime" /\ Rendered /\ Act
\* Of the contest that is shown, which a new route does not empty.
StartOrJoin     == screen.acts = "awaited" /\ Rendered /\ ~Busy("act") /\ ActOn(shown.id)
WriteSolution   == screen.acts = "aside" /\ Rendered /\ ~Busy("act") /\ Act
SetRole         == screen.acts = "table" /\ loaded /\ Act
ImportCourse    == screen.acts = "import" /\ loaded /\ ~Busy("act") /\ Act
ImportProblems  == screen.acts = "upload" /\ ~Busy("act") /\ Act

Buttons ==
    \/ RejudgeThis \/ RejudgeFromList \/ StartOrJoin \/ WriteSolution
    \/ SetRole     \/ ImportCourse    \/ ImportProblems

\* What the form holds: of another route, of nothing, or without its source.
Filling ==
    IF shown = None THEN "empty" ELSE IF ~shown.whole THEN "partial" ELSE shown.id

\* A form is sent whole, to the route.
Save ==
    /\ ~Busy("save")
    /\ Write([kind |-> "save", id |-> route, of |-> Filling, served |-> FALSE])
    /\ error' = None
    /\ hasty' = (hasty \/ asked # <<>> \/ error # None \/ Filling = "partial")
    /\ UNCHANGED <<screen, route, asked, shown, loaded, polling, server, content, failures,
                   moves, verdicts, crossed>>

SaveItems == screen.form = "whole" /\ loaded /\ Save
\* A problem is not saved without a title.
SaveProblem == screen.form = "parts" /\ loaded /\ shown # None /\ Save

\* A rejudge puts the submission back in the queue; other writes make a new version,
\* but for a save, whose version the form holds.
WriteServed(p) ==
    /\ ~p.served
    /\ posts' = (posts \ {p}) \cup {[p EXCEPT !.served = TRUE]}
    /\ server' = [server EXCEPT ![p.id].version = IF p.kind = "act" THEN @ + 1 ELSE @,
                                ![p.id].status = IF screen.waits = "status" THEN "queued"
                                                 ELSE @]
    /\ content' = [content EXCEPT ![p.id] = p.of]
    /\ UNCHANGED <<screen, route, asked, shown, loaded, polling, error, counts, crossed,
                   hasty>>

\* The answer of a write: what acts loads again, under the route of now.
WriteReturns(p) ==
    /\ p.served
    /\ posts' = posts \ {p}
    /\ IF p.kind = "act"
       THEN /\ Ask(route, screen.acts \in {"settled", "awaited", "aside", "upload"})
            /\ crossed' = (crossed \/ asked # <<>>)
       ELSE UNCHANGED <<asked, crossed>>
    /\ UNCHANGED <<screen, route, shown, loaded, polling, error, server, content, counts, hasty>>

\* Some keep this error apart, the list of submissions drops it. The table of users loads
\* again, so that it shows the role that is.
WriteRefused(p) ==
    /\ ~p.served /\ failures < MaxFailures
    /\ failures' = failures + 1
    /\ posts' = posts \ {p}
    /\ error' = IF screen.acts \in {"aside", "anytime"} THEN error ELSE "failed"
    /\ IF screen.acts = "table"
       THEN Ask(route, FALSE) /\ crossed' = (crossed \/ asked # <<>>)
       ELSE UNCHANGED <<asked, crossed>>
    /\ UNCHANGED <<screen, route, shown, loaded, polling, server, content, moves,
                   written, verdicts, hasty>>

-----------------------------------------------------------------------------
(* The server goes on: a submission is judged, a contest ends *)

Progress(id) ==
    /\ Pending(server[id].status)
    /\ server' = [server EXCEPT ![id].status = IF @ = "queued" THEN "judging" ELSE "done"]
    /\ UNCHANGED <<page, content, counts, crossed, hasty>>

\* A submission made in time gets its verdict, perhaps after the end.
Verdict(id) ==
    /\ screen.waits = "clock" /\ verdicts < MaxVerdicts
    /\ verdicts' = verdicts + 1
    /\ server' = [server EXCEPT ![id].version = @ + 1]
    /\ UNCHANGED <<page, content, failures, moves, written, crossed, hasty>>

ServeAny  == \E i \in DOMAIN asked : Serve(i)
\* A 403 differs from other failures only where it empties the screen.
RefuseAny == \E i \in DOMAIN asked, why \in {"failed"} \cup screen.clears : Refuse(i, why)
Answered  == \E i \in DOMAIN asked : Arrive(i) \/ ArriveSource(i) \/ ArriveFailed(i)
WriteEnds == \E p \in posts : WriteServed(p) \/ WriteReturns(p)

-----------------------------------------------------------------------------
(* Properties *)

\* When every question has been answered and none was overtaken, the screen shows
\* what its route names, or an error: no load leaves the last route's data there.
PageAgrees ==
    asked = <<>> /\ ~crossed /\ ~hasty /\ error = None => shown # None /\ shown.id = route

\* A save puts the content of one route under another, or an empty or partial form
\* in its place, only when it was made while a load was on the way, under an error, or
\* after the source failed to load (which nothing on the screen tells).
ContentKept == ~crossed /\ ~hasty => \A id \in Id : content[id] = id

\* A screen comes to rest showing what the server has: while a submission waits or
\* is judged the screen goes on asking, and after a rejudge it begins again.
AtRest ==
    \/ crossed \/ hasty \/ error # None
    \/ /\ shown # None /\ shown.id = route
       /\ screen.waits # "clock" =>
            shown.status = server[route].status /\ shown.version = server[route].version
=============================================================================
