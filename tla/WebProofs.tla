------------------------------ MODULE WebProofs ------------------------------
(***************************************************************************)
(* Theorems about the screens of the client and the drafts of its          *)
(* submission forms (Drafts, Screens), for any routes and languages, any   *)
(* number of requests on the way, failures, navigations, writes and        *)
(* reloads; and about its Markdown field (Editor), for any bodies,         *)
(* pictures and selections, any number of keys, uploads, boards and        *)
(* crashes.                                                                *)
(***************************************************************************)
EXTENDS Drafts, Editor, SequenceTheorems, WellFoundedInduction, TLAPS

-----------------------------------------------------------------------------
(* The invariant *)

Answer == [status: Status, version: Nat]
Got == [status: Status \cup {"refused", "failed"}, version: Nat]
Question == [id: Id, part: {1, 2}, own: BOOLEAN, got: {None} \cup Got]
Content == Id \cup {"empty", "partial"}
Post == [kind: {"act", "save"}, id: Id, of: Content, served: BOOLEAN]
Text == {Blank} \cup Key

PageTyped ==
    /\ screen \in AllScreens
    /\ route \in Id
    /\ asked \in Seq(Question)
    /\ shown \in {None} \cup Shown
    /\ posts \subseteq Post
    /\ server \in [Id -> Answer]
    /\ content \in [Id -> Content]
    /\ crossed \in BOOLEAN /\ hasty \in BOOLEAN

\* A screen that a new route empties shows what its route names, or nothing yet.
ShowsRoute == screen.resets /\ shown # None => shown.id = route

\* The editor of a problem has one request on the way, and never asks again. Its second
\* one is for the source of the problem that is shown.
EditorWaits ==
    IF screen.form = "parts"
    THEN /\ Len(asked) <= 1 /\ \A p \in posts : p.kind # "act"
         /\ \A i \in DOMAIN asked : asked[i].part = 2 => shown # None
    ELSE \A i \in DOMAIN asked : asked[i].part = 1

PageInv ==
    /\ PageTyped
    /\ EditorWaits
    /\ screen.waits = "nothing" => ~polling
    /\ ~crossed => ShowsRoute /\ \A i \in DOMAIN asked : asked[i].id = route
    /\ ~crossed /\ ~hasty =>
         /\ asked = <<>> /\ error = None => shown # None /\ shown.id = route
         /\ \A p \in posts : p.of = p.id
         /\ \A id \in Id : content[id] = id

FormTyped ==
    /\ language \in {None} \cup Language
    /\ code \in Text
    /\ stored \in [Key -> Text]
    /\ timer \in {None} \cup [key: Key, text: Text]
    /\ sending \in {None} \cup [key: Key, text: Text, ok: BOOLEAN]

\* The text of the form, that of the timer and that which is sent were typed for the key
\* they are shown, kept and sent under.
FormInv ==
    /\ FormTyped
    /\ ~Keeps => code = Blank
    /\ screen.drafts = "form" => language # None
    /\ ~crossed =>
         /\ code = Blank \/ (language # None /\ code = <<route, language>>)
         /\ \A k \in Key : stored[k] \in {Blank, k}
         /\ timer = None \/ timer.text \in {Blank, timer.key}
         /\ sending = None \/ sending.text = sending.key

WebInv == PageInv /\ FormInv

-----------------------------------------------------------------------------
(* Screens and sequences *)

LEMMA Traits ==
    ASSUME NEW s \in AllScreens
    PROVE  /\ s.drafts # "none" => s.resets
           /\ s.form = "parts" => /\ s.resets /\ s.keyed
                                  /\ s.waits = "nothing" /\ s.acts = "never"
           /\ s.clears \subseteq {"refused", "failed"}
           /\ s.waits \in {"nothing", "status", "clock"}
           /\ s.form \in {"none", "whole", "parts"}
           /\ s.drafts \in {"none", "code", "form"}
<1> DEFINE Fine(r) == /\ r.drafts # "none" => r.resets
                      /\ r.form = "parts" => /\ r.resets /\ r.keyed
                                             /\ r.waits = "nothing" /\ r.acts = "never"
                      /\ r.clears \subseteq {"refused", "failed"}
                      /\ r.waits \in {"nothing", "status", "clock"}
                      /\ r.form \in {"none", "whole", "parts"}
                      /\ r.drafts \in {"none", "code", "form"}
<1>1. Fine(Plain)
  BY DEF Plain
<1>2. Fine(SubmissionPage) /\ Fine(SubmissionList) /\ Fine(ScoreboardPage)
  BY DEF Plain, SubmissionPage, SubmissionList, ScoreboardPage
<1>3. Fine(CollectionPage) /\ Fine(SolutionPage) /\ Fine(SolutionList) /\ Fine(UserPage)
  BY DEF Plain, CollectionPage, SolutionPage, SolutionList, UserPage
<1>4. Fine(UserTable) /\ Fine(ProblemTable) /\ Fine(HomeList) /\ Fine(CourseEditor)
  BY DEF Plain, UserTable, ProblemTable, HomeList, CourseEditor
<1>5. Fine(ProblemEditor)
  BY DEF Plain, ProblemEditor
<1>6. Fine(CodePage) /\ Fine(AnswerPage) /\ Fine(BlankPage)
  <2>1. PICK c : c = CodePage
    OBVIOUS
  <2>2. c = [waits |-> "nothing", resets |-> TRUE, keyed |-> FALSE, hush |-> TRUE,
             clears |-> {}, acts |-> "never", form |-> "none", drafts |-> "code"]
    BY <2>1 DEF CodePage, Plain
  <2>3. Fine(c)
    BY <2>2
  <2>4. Fine([c EXCEPT !.drafts = "form"])
    BY <2>2
  <2> HIDE DEF Fine
  <2> QED
    BY <2>1, <2>3, <2>4 DEF AnswerPage, BlankPage
<1>7. Fine(ScoresPage) /\ Fine(CollectionList) /\ Fine(CollectionTable) /\ Fine(RankingPage)
  BY <1>1 DEF ScoresPage, CollectionList, CollectionTable, RankingPage
<1> HIDE DEF Fine
<1>8. Fine(s)
  BY <1>2, <1>3, <1>4, <1>5, <1>6, <1>7, Zenon DEF AllScreens
<1> QED
  BY <1>8 DEF Fine

LEMMA Removed ==
    ASSUME NEW S, NEW s \in Seq(S), NEW i \in DOMAIN s
    PROVE  /\ RemoveAt(s, i) \in Seq(S)
           /\ Len(RemoveAt(s, i)) = Len(s) - 1
           /\ \A j \in DOMAIN RemoveAt(s, i) : \E k \in DOMAIN s : RemoveAt(s, i)[j] = s[k]
<1>1. Len(s) \in Nat /\ i \in 1..Len(s)
  OBVIOUS
<1>2. /\ SubSeq(s, 1, i - 1) \in Seq(S) /\ Len(SubSeq(s, 1, i - 1)) = i - 1
      /\ \A j \in 1..(i - 1) : SubSeq(s, 1, i - 1)[j] = s[j]
  BY <1>1
<1>3. /\ SubSeq(s, i + 1, Len(s)) \in Seq(S) /\ Len(SubSeq(s, i + 1, Len(s))) = Len(s) - i
      /\ \A j \in 1..(Len(s) - i) : SubSeq(s, i + 1, Len(s))[j] = s[i + j]
  BY <1>1
<1>4. PICK a \in Seq(S), b \in Seq(S) :
        /\ a = SubSeq(s, 1, i - 1) /\ b = SubSeq(s, i + 1, Len(s))
  BY <1>2, <1>3
<1>5. /\ RemoveAt(s, i) = a \o b /\ Len(a) = i - 1 /\ Len(b) = Len(s) - i
      /\ \A j \in 1..(i - 1) : a[j] = s[j]
      /\ \A j \in 1..(Len(s) - i) : b[j] = s[i + j]
  BY <1>2, <1>3, <1>4 DEF RemoveAt
<1>6. /\ a \o b \in Seq(S) /\ Len(a \o b) = Len(s) - 1
      /\ DOMAIN (a \o b) = 1..(Len(s) - 1)
      /\ \A j \in 1..(Len(s) - 1) : (a \o b)[j] = IF j <= i - 1 THEN a[j] ELSE b[j - (i - 1)]
  <2>1. PICK n \in Nat : n = Len(s) /\ Len(a) + Len(b) = n - 1
    BY <1>1, <1>5
  <2>2. a \o b \in Seq(S) /\ Len(a \o b) = n - 1
    BY <2>1
  <2>3. DOMAIN (a \o b) = 1..(n - 1)
    BY <2>2
  <2>4. \A j \in 1..(n - 1) : (a \o b)[j] = IF j <= i - 1 THEN a[j] ELSE b[j - (i - 1)]
    <3>1. Len(a) \in Nat /\ Len(b) \in Nat /\ Len(a) = i - 1 /\ Len(a) + Len(b) = n - 1
      BY <1>5, <2>1
    <3>2. \A j \in 1..(Len(a) + Len(b)) : (a \o b)[j] = IF j <= Len(a) THEN a[j] ELSE b[j - Len(a)]
      BY SMTT(30)
    <3> QED
      BY <3>1, <3>2
  <2> QED
    BY <2>1, <2>2, <2>3, <2>4
<1>7. ASSUME NEW j \in 1..(Len(s) - 1) PROVE \E k \in DOMAIN s : (a \o b)[j] = s[k]
  <2>1. CASE j <= i - 1
    <3>1. j \in 1..(i - 1) /\ j \in DOMAIN s
      BY <1>1, <2>1
    <3>2. (a \o b)[j] = s[j]
      BY <1>5, <1>6, <2>1, <3>1
    <3> QED
      BY <3>1, <3>2
  <2>2. CASE ~(j <= i - 1)
    <3>1. j - (i - 1) \in 1..(Len(s) - i) /\ i + (j - (i - 1)) = j + 1 /\ j + 1 \in DOMAIN s
      BY <1>1, <2>2
    <3> QED
      BY <1>5, <1>6, <2>2, <3>1
  <2> QED
    BY <2>1, <2>2
<1>8. \A j \in DOMAIN RemoveAt(s, i) : \E k \in DOMAIN s : RemoveAt(s, i)[j] = s[k]
  BY <1>5, <1>6, <1>7
<1> QED
  BY <1>5, <1>6, <1>8

\* One question more.
LEMMA Appended ==
    ASSUME NEW S, NEW s \in Seq(S), NEW x \in S
    PROVE  /\ Append(s, x) \in Seq(S) /\ Len(Append(s, x)) = Len(s) + 1
           /\ Append(s, x) # <<>> /\ Len(s) \in Nat
           /\ \A j \in DOMAIN Append(s, x) : \/ Append(s, x)[j] = x
                                             \/ j \in DOMAIN s /\ Append(s, x)[j] = s[j]
OBVIOUS

\* The answer to a question.
LEMMA Answers ==
    ASSUME NEW s \in Seq(Question), NEW i \in DOMAIN s, NEW g \in Got
    PROVE  /\ [s EXCEPT ![i].got = g] \in Seq(Question)
           /\ DOMAIN [s EXCEPT ![i].got = g] = DOMAIN s
           /\ Len([s EXCEPT ![i].got = g]) = Len(s)
           /\ \A j \in DOMAIN s : /\ [s EXCEPT ![i].got = g][j].id = s[j].id
                                  /\ [s EXCEPT ![i].got = g][j].part = s[j].part
<1>1. PICK q : q = [s[i] EXCEPT !.got = g]
  OBVIOUS
<1>2. s[i] \in Question
  OBVIOUS
<1>3. q \in Question /\ q.id = s[i].id /\ q.part = s[i].part
  BY <1>1, <1>2 DEF Question
<1>4. [s EXCEPT ![i].got = g] = [s EXCEPT ![i] = q]
  BY <1>1
<1>5. /\ [s EXCEPT ![i] = q] \in Seq(Question) /\ Len([s EXCEPT ![i] = q]) = Len(s)
      /\ DOMAIN [s EXCEPT ![i] = q] = DOMAIN s
      /\ \A j \in DOMAIN s : [s EXCEPT ![i] = q][j] = IF j = i THEN q ELSE s[j]
  BY <1>3
<1> QED
  BY <1>3, <1>4, <1>5

-----------------------------------------------------------------------------
(* The page *)

\* The screen of a page has the traits of one of those there are.
LEMMA ScreenTraits ==
    ASSUME PageTyped
    PROVE  /\ Keeps => screen.resets
           /\ screen.form = "parts" => /\ screen.resets /\ screen.keyed
                                       /\ screen.waits = "nothing" /\ screen.acts = "never"
           /\ screen.clears \subseteq {"refused", "failed"}
           /\ screen.waits \in {"nothing", "status", "clock"}
BY Traits DEF PageTyped, Keeps

LEMMA Questions ==
    ASSUME NEW id \in Id, NEW part \in {1, 2}, NEW own \in BOOLEAN
    PROVE  Get(id, part, own) \in Question
BY DEF Get, Question

LEMMA InitPage == InitScreens => PageInv
<1> SUFFICES ASSUME InitScreens PROVE PageInv
  OBVIOUS
<1>1. Get(route, 1, FALSE) \in Question
  BY Questions DEF InitScreens
<1>2. PICK q \in Question : q = Get(route, 1, FALSE)
  BY <1>1
<1>3. asked = <<q>> /\ q.id = route /\ q.part = 1
  BY <1>2 DEF InitScreens, Get
<1>4. /\ asked \in Seq(Question) /\ Len(asked) = 1 /\ asked # <<>>
      /\ \A i \in DOMAIN asked : asked[i] = q
  BY <1>3
<1>5. server \in [Id -> Answer]
  <2>1. screen.waits \in {"nothing", "status", "clock"}
    BY Traits DEF InitScreens
  <2>2. PICK s \in CASE screen.waits = "status"  -> {"queued", "done"}
                     [] screen.waits = "clock"   -> {"judging"}
                     [] screen.waits = "nothing" -> {"done"} :
          server = [id \in Id |-> [status |-> s, version |-> 0]]
    BY DEF InitScreens
  <2>3. s \in Status
    BY <2>1, <2>2 DEF Status
  <2> QED
    BY <2>2, <2>3 DEF Answer
<1>6. /\ screen \in AllScreens /\ route \in Id /\ shown = None /\ polling = FALSE /\ posts = {}
      /\ content = [id \in Id |-> id] /\ crossed = FALSE /\ hasty = FALSE
  BY DEF InitScreens
<1>7. PageTyped
  BY <1>4, <1>5, <1>6 DEF PageTyped, Content
<1>8. EditorWaits
  BY <1>3, <1>4, <1>6 DEF EditorWaits
<1> QED
  BY <1>3, <1>4, <1>6, <1>7, <1>8 DEF PageInv, ShowsRoute

\* A question is answered.
LEMMA ServeKeeps ==
    ASSUME PageInv, NEW i \in DOMAIN asked, NEW g \in Got, asked' = [asked EXCEPT ![i].got = g],
           UNCHANGED <<screen, route, shown, loaded, polling, error, posts, server, content,
                       crossed, hasty>>
    PROVE  PageInv'
<1>1. asked \in Seq(Question)
  BY DEF PageInv, PageTyped
<1>2. /\ asked' \in Seq(Question) /\ DOMAIN asked' = DOMAIN asked /\ Len(asked') = Len(asked)
      /\ \A j \in DOMAIN asked : asked'[j].id = asked[j].id /\ asked'[j].part = asked[j].part
  BY <1>1, Answers
<1>3. asked # <<>> /\ asked' # <<>>
  BY <1>1, <1>2
<1>4. PageTyped'
  BY <1>2 DEF PageInv, PageTyped
<1>5. EditorWaits'
  BY <1>2 DEF PageInv, EditorWaits
<1>6. ~crossed' => ShowsRoute' /\ \A j \in DOMAIN asked' : asked'[j].id = route'
  BY <1>2 DEF PageInv, ShowsRoute
<1> QED
  BY <1>3, <1>4, <1>5, <1>6 DEF PageInv

LEMMA ServeAnyKeeps ==
    ASSUME PageInv, ServeAny \/ RefuseAny
    PROVE  PageInv'
<1>1. ASSUME NEW i \in DOMAIN asked, Serve(i) PROVE PageInv'
  <2>1. asked[i].id \in Id /\ server \in [Id -> Answer]
    <3>1. asked \in Seq(Question) /\ server \in [Id -> Answer]
      BY DEF PageInv, PageTyped
    <3>2. asked[i] \in Question
      BY <3>1
    <3> QED
      BY <3>1, <3>2 DEF Question
  <2>2. PICK g : g = server[asked[i].id]
    OBVIOUS
  <2>3. g \in Got
    BY <2>1, <2>2 DEF Answer, Got
  <2> QED
    BY <1>1, <2>2, <2>3, ServeKeeps DEF Serve, counts
<1>2. ASSUME NEW i \in DOMAIN asked, NEW why \in {"failed"} \cup screen.clears, Refuse(i, why)
      PROVE  PageInv'
  <2>1. why \in {"refused", "failed"}
    BY ScreenTraits DEF PageInv
  <2>2. [status |-> why, version |-> 0] \in Got
    BY <2>1 DEF Got
  <2> QED
    BY <1>2, <2>2, ServeKeeps DEF Refuse
<1> QED
  BY <1>1, <1>2 DEF ServeAny, RefuseAny

\* A question under the route of now: a poll, or after a write.
LEMMA AskKeeps ==
    ASSUME PageInv, Ask(route, FALSE) \/ Ask(route, TRUE), screen.form # "parts",
           UNCHANGED <<screen, route, shown, polling, server, content, hasty>>,
           posts' \subseteq posts, crossed' \in BOOLEAN, crossed => crossed'
    PROVE  PageInv'
<1>1. PICK q : (q = Get(route, 1, FALSE) \/ q = Get(route, 1, TRUE)) /\ asked' = Append(asked, q)
  BY DEF Ask
<1>2. q \in Question /\ q.id = route /\ q.part = 1
  <2>1. route \in Id
    BY DEF PageInv, PageTyped
  <2>2. Get(route, 1, FALSE) \in Question /\ Get(route, 1, TRUE) \in Question
    BY <2>1, Questions
  <2>3. \A own \in BOOLEAN : Get(route, 1, own).id = route /\ Get(route, 1, own).part = 1
    BY DEF Get
  <2>4. CASE q = Get(route, 1, FALSE)
    BY <2>2, <2>3, <2>4
  <2>5. CASE q = Get(route, 1, TRUE)
    BY <2>2, <2>3, <2>5
  <2> QED
    BY <1>1, <2>4, <2>5
<1>3. asked \in Seq(Question)
  BY DEF PageInv, PageTyped
<1>4. /\ asked' \in Seq(Question) /\ asked' # <<>>
      /\ \A j \in DOMAIN asked' : asked'[j] = q \/ (j \in DOMAIN asked /\ asked'[j] = asked[j])
  BY <1>1, <1>2, <1>3, Appended
<1>5. PageTyped'
  BY <1>4 DEF PageInv, PageTyped
<1>6. EditorWaits'
  BY <1>2, <1>4 DEF PageInv, EditorWaits
<1>7. ~crossed' => ~crossed
  BY DEF PageInv, PageTyped
<1>8. ~crossed' => ShowsRoute' /\ \A j \in DOMAIN asked' : asked'[j].id = route'
  BY <1>2, <1>4, <1>7 DEF PageInv, ShowsRoute
<1> QED
  BY <1>4, <1>5, <1>6, <1>7, <1>8 DEF PageInv

LEMMA PollKeeps ==
    ASSUME PageInv, Poll
    PROVE  PageInv'
<1>1. screen.form # "parts"
  BY ScreenTraits DEF PageInv, Poll
<1> QED
  BY <1>1, AskKeeps DEF Poll, PageInv, PageTyped

\* An answer is taken from the list of questions.
LEMMA Taken ==
    ASSUME PageInv, NEW i \in DOMAIN asked
    PROVE  /\ asked \in Seq(Question) /\ asked[i] \in Question
           /\ asked[i].id \in Id /\ asked[i].part \in {1, 2}
           /\ asked[i].got \in {None} \cup Got
           /\ RemoveAt(asked, i) \in Seq(Question)
           /\ Len(asked) \in Nat /\ Len(RemoveAt(asked, i)) = Len(asked) - 1
           /\ \A j \in DOMAIN RemoveAt(asked, i) :
                \E k \in DOMAIN asked : RemoveAt(asked, i)[j] = asked[k]
<1>1. asked \in Seq(Question)
  BY DEF PageInv, PageTyped
<1>2. asked[i] \in Question /\ Len(asked) \in Nat
  BY <1>1
<1>3. asked[i].id \in Id /\ asked[i].part \in {1, 2} /\ asked[i].got \in {None} \cup Got
  BY <1>2 DEF Question
<1> QED
  BY <1>1, <1>2, <1>3, Removed

\* The questions that are left when one has been taken.
LEMMA Rest ==
    ASSUME PageInv, NEW i \in DOMAIN asked, asked' = RemoveAt(asked, i)
    PROVE  /\ asked' \in Seq(Question)
           /\ screen.form = "parts" => Len(asked') <= 1
           /\ screen.form = "parts" => DOMAIN asked' = {}
           /\ screen.form # "parts" => \A j \in DOMAIN asked' : asked'[j].part = 1
           /\ ~crossed => \A j \in DOMAIN asked' : asked'[j].id = route
<1>1. /\ asked' \in Seq(Question) /\ Len(asked) \in Nat /\ Len(asked') = Len(asked) - 1
      /\ \A j \in DOMAIN asked' : \E k \in DOMAIN asked : asked'[j] = asked[k]
  BY Taken
<1>2. Len(asked') \in Nat /\ DOMAIN asked' = 1..Len(asked')
  BY <1>1
<1>3. screen.form = "parts" => Len(asked) <= 1
  BY DEF PageInv, EditorWaits
<1>4. screen.form = "parts" => Len(asked') = 0
  BY <1>1, <1>2, <1>3
<1>5. screen.form # "parts" => \A j \in DOMAIN asked' : asked'[j].part = 1
  BY <1>1 DEF PageInv, EditorWaits
<1>6. ~crossed => \A j \in DOMAIN asked' : asked'[j].id = route
  BY <1>1 DEF PageInv
<1> QED
  BY <1>1, <1>2, <1>4, <1>5, <1>6

LEMMA ArriveKeeps ==
    ASSUME PageInv, NEW i \in DOMAIN asked, Arrive(i)
    PROVE  PageInv'
<1>1. PICK r \in Question : r = asked[i]
  BY Taken
<1>2. /\ r.id \in Id /\ r.got \in Got /\ r.got.status \in Status /\ r.got.version \in Nat
  <2>1. r.id \in Id /\ r.got \in Got
    BY <1>1, Taken DEF Arrive
  <2>2. r.got.status \notin {"refused", "failed"}
    BY <1>1 DEF Arrive, Failed
  <2> QED
    BY <2>1, <2>2 DEF Got
<1>3. /\ shown' = [id |-> r.id, status |-> r.got.status, version |-> r.got.version,
                   whole |-> screen.form # "parts"]
      /\ polling' = Waits(r.id, r.got)
      /\ UNCHANGED <<screen, route, posts, server, content, crossed, hasty>>
  BY <1>1 DEF Arrive
<1>4. shown' \in Shown /\ shown' # None /\ shown'.id = r.id
  <2>1. PICK b \in BOOLEAN : b = (screen.form # "parts")
    OBVIOUS
  <2>2. PICK x : x = [id |-> r.id, status |-> r.got.status, version |-> r.got.version, whole |-> b]
    OBVIOUS
  <2>3. x \in Shown /\ x.id = r.id
    BY <1>2, <2>2 DEF Shown
  <2>4. shown' = x
    BY <1>3, <2>1, <2>2, Zenon
  <2> QED
    BY <2>3, <2>4, ScreensAssumption
<1>5. ~crossed => r.id = route
  BY <1>1 DEF PageInv
<1>6. screen.waits = "nothing" => ~polling'
  BY <1>3 DEF Waits
<1>7. CASE screen.form # "parts"
  <2>1. asked' = RemoveAt(asked, i)
    BY <1>7 DEF Arrive
  <2>2. PageTyped'
    BY <1>3, <1>4, <2>1, Rest DEF PageInv, PageTyped
  <2>3. EditorWaits'
    BY <1>3, <1>7, <2>1, Rest DEF EditorWaits
  <2>4. ~crossed' => ShowsRoute' /\ \A j \in DOMAIN asked' : asked'[j].id = route'
    BY <1>3, <1>4, <1>5, <2>1, Rest DEF ShowsRoute
  <2> QED
    BY <1>3, <1>4, <1>5, <1>6, <2>2, <2>3, <2>4 DEF PageInv
<1>8. CASE screen.form = "parts"
  <2>1. asked' = Append(RemoveAt(asked, i), Get(r.id, 2, FALSE))
    BY <1>1, <1>8 DEF Arrive
  <2>2. PICK q \in Question : q = Get(r.id, 2, FALSE) /\ q.id = r.id
    <3>1. Get(r.id, 2, FALSE) \in Question
      BY <1>2, Questions
    <3>2. Get(r.id, 2, FALSE).id = r.id
      BY DEF Get
    <3> QED
      BY <3>1, <3>2
  <2>3. PICK s \in Seq(Question) : s = RemoveAt(asked, i) /\ Len(s) = Len(asked) - 1
                                   /\ Len(asked) \in Nat /\ Len(asked) <= 1
    BY <1>8, Taken DEF PageInv, EditorWaits
  <2>4. asked' = <<q>>
    <3>1. Len(s) = 0
      BY <2>3
    <3>2. s = <<>>
      BY <2>3, <3>1
    <3> QED
      BY <2>1, <2>2, <2>3, <3>2
  <2>5. /\ asked' \in Seq(Question) /\ Len(asked') = 1 /\ asked' # <<>>
        /\ \A j \in DOMAIN asked' : asked'[j] = q
    BY <2>4
  <2>6. PageTyped'
    BY <1>3, <1>4, <2>5 DEF PageInv, PageTyped
  <2>7. EditorWaits'
    BY <1>3, <1>4, <1>8, <2>5 DEF PageInv, EditorWaits
  <2>8. ~crossed' => ShowsRoute' /\ \A j \in DOMAIN asked' : asked'[j].id = route'
    BY <1>3, <1>4, <1>5, <2>2, <2>5 DEF ShowsRoute
  <2> QED
    BY <1>3, <1>6, <2>5, <2>6, <2>7, <2>8 DEF PageInv
<1> QED
  BY <1>7, <1>8

LEMMA ArriveSourceKeeps ==
    ASSUME PageInv, NEW i \in DOMAIN asked, ArriveSource(i)
    PROVE  PageInv'
<1>1. screen.form = "parts" /\ shown # None
  BY DEF PageInv, EditorWaits, ArriveSource
<1>2. PICK s \in Shown : s = shown
  BY <1>1 DEF PageInv, PageTyped
<1>3. PICK b \in BOOLEAN : shown' = [s EXCEPT !.whole = b]
  BY <1>2 DEF ArriveSource
<1>4. shown' \in Shown /\ shown' # None /\ shown'.id = shown.id
  BY <1>2, <1>3, ScreensAssumption DEF Shown
<1>5. /\ asked' = RemoveAt(asked, i)
      /\ UNCHANGED <<screen, route, polling, error, posts, server, content, crossed, hasty>>
  BY DEF ArriveSource
<1>6. screen.resets
  BY <1>1, ScreenTraits DEF PageInv
<1>7. PageTyped'
  BY <1>4, <1>5, Rest DEF PageInv, PageTyped
<1>8. EditorWaits'
  BY <1>1, <1>5, Rest DEF PageInv, EditorWaits
<1>9. ~crossed' => shown'.id = route' /\ \A j \in DOMAIN asked' : asked'[j].id = route'
  BY <1>1, <1>4, <1>5, <1>6, Rest DEF PageInv, ShowsRoute
<1> QED
  BY <1>4, <1>5, <1>7, <1>8, <1>9 DEF PageInv, ShowsRoute

LEMMA ArriveFailedKeeps ==
    ASSUME PageInv, NEW i \in DOMAIN asked, ArriveFailed(i)
    PROVE  PageInv'
<1>1. error' # None
  BY ScreensAssumption DEF ArriveFailed, Failed
<1>2. /\ asked' = RemoveAt(asked, i)
      /\ (shown' = shown /\ polling' = polling) \/ (shown' = None /\ polling' = FALSE)
      /\ UNCHANGED <<screen, route, posts, server, content, crossed, hasty>>
  BY DEF ArriveFailed
<1>3. PageTyped'
  BY <1>2, Rest DEF PageInv, PageTyped
<1>4. EditorWaits'
  BY <1>2, Rest DEF PageInv, EditorWaits
<1>5. ~crossed' => ShowsRoute' /\ \A j \in DOMAIN asked' : asked'[j].id = route'
  BY <1>2, Rest DEF PageInv, ShowsRoute
<1> QED
  BY <1>1, <1>2, <1>3, <1>4, <1>5 DEF PageInv

LEMMA AnsweredKeeps ==
    ASSUME PageInv, Answered
    PROVE  PageInv'
BY ArriveKeeps, ArriveSourceKeeps, ArriveFailedKeeps DEF Answered

\* Another route. What was on the way under the last one is gone, or marks the page.
LEMMA NavigateKeeps ==
    ASSUME PageInv, NEW id \in Id, Navigate(id)
    PROVE  PageInv'
<1>1. PICK q \in Question : q = Get(id, 1, FALSE) /\ q.id = id /\ q.part = 1 /\ q.part # 2
  <2>1. Get(id, 1, FALSE) \in Question
    BY Questions
  <2> QED
    BY <2>1 DEF Get
<1>2. /\ route' = id
      /\ screen.resets => shown' = None /\ polling' = FALSE
      /\ ~screen.resets => shown' = shown /\ polling' = polling
      /\ UNCHANGED <<screen, server, content, hasty>>
  BY DEF Navigate
<1>3. asked \in Seq(Question) /\ PageTyped
  BY DEF PageInv, PageTyped
<1>4. /\ asked' \in Seq(Question) /\ asked' # <<>> /\ crossed' \in BOOLEAN
      /\ crossed => crossed'
      /\ posts' \subseteq posts
      /\ screen.form = "parts" => Len(asked') <= 1
      /\ \A j \in DOMAIN asked' : asked'[j] = q \/ (j \in DOMAIN asked /\ asked'[j] = asked[j])
      /\ ~crossed' => \A j \in DOMAIN asked' : asked'[j] = q
      /\ screen.form = "parts" => \A j \in DOMAIN asked' : asked'[j] = q
  <2>1. CASE screen.keyed
    <3>1. asked' = <<q>> /\ crossed' = crossed /\ posts' = {}
      BY <1>1, <2>1 DEF Navigate
    <3>2. asked' \in Seq(Question) /\ asked' # <<>> /\ Len(asked') = 1
          /\ \A j \in DOMAIN asked' : asked'[j] = q
      BY <3>1
    <3> QED
      BY <1>3, <3>1, <3>2 DEF PageTyped
  <2>2. CASE ~screen.keyed
    <3>1. asked' = Append(asked, q) /\ crossed' = (crossed \/ asked # <<>>) /\ posts' = posts
      BY <1>1, <2>2 DEF Navigate, Ask
    <3>2. /\ asked' \in Seq(Question) /\ asked' # <<>>
          /\ \A j \in DOMAIN asked' : asked'[j] = q \/ (j \in DOMAIN asked /\ asked'[j] = asked[j])
      BY <1>3, <3>1, Appended
    <3>3. ~crossed' => asked = <<>>
      BY <3>1
    <3>4. asked = <<>> => DOMAIN asked = {}
      OBVIOUS
    <3>5. screen.form # "parts"
      BY <1>3, <2>2, ScreenTraits
    <3>6. crossed' \in BOOLEAN /\ (crossed => crossed')
      BY <1>3, <3>1 DEF PageTyped
    <3> QED
      BY <3>1, <3>2, <3>3, <3>4, <3>5, <3>6
  <2> QED
    BY <2>1, <2>2
<1>5. PageTyped'
  BY <1>2, <1>3, <1>4 DEF PageTyped
<1>6. EditorWaits'
  <2>1. EditorWaits
    BY DEF PageInv
  <2>2. CASE screen.form = "parts"
    <3>1. Len(asked') <= 1 /\ \A j \in DOMAIN asked' : asked'[j] = q
      BY <1>4, <2>2
    <3>2. \A p \in posts' : p.kind # "act"
      BY <1>4, <2>1, <2>2 DEF EditorWaits
    <3>3. \A j \in DOMAIN asked' : asked'[j].part # 2
      BY <1>1, <3>1, Zenon
    <3> QED
      BY <1>2, <2>2, <3>1, <3>2, <3>3 DEF EditorWaits
  <2>3. CASE screen.form # "parts"
    <3>1. \A j \in DOMAIN asked' : asked'[j].part = 1
      BY <1>1, <1>4, <2>1, <2>3 DEF EditorWaits
    <3> QED
      BY <1>2, <2>3, <3>1 DEF EditorWaits
  <2> QED
    BY <2>2, <2>3
<1>7. ~crossed' => ~crossed
  BY <1>3, <1>4 DEF PageTyped
<1>8. ~crossed' => ShowsRoute' /\ \A j \in DOMAIN asked' : asked'[j].id = route'
  BY <1>1, <1>2, <1>4 DEF ShowsRoute
<1>9. screen'.waits = "nothing" => ~polling'
  BY <1>2 DEF PageInv
<1> QED
  BY <1>2, <1>4, <1>5, <1>6, <1>7, <1>8, <1>9 DEF PageInv

\* A button.
LEMMA ActKeeps ==
    ASSUME PageInv, NEW id \in Id, ActOn(id), screen.acts # "never"
    PROVE  PageInv'
<1>1. PICK p : p = [kind |-> "act", id |-> id, of |-> id, served |-> FALSE]
  OBVIOUS
<1>2. p \in Post /\ p.of = p.id
  BY <1>1 DEF PageInv, PageTyped, Post, Content
<1>3. posts' = posts \cup {p}
  BY <1>1 DEF ActOn, Write
<1>4. screen.form # "parts"
  BY ScreenTraits DEF PageInv
<1>5. UNCHANGED <<screen, route, asked, shown, polling, error, server, content, crossed, hasty>>
  BY DEF ActOn
<1>6. PageTyped' /\ EditorWaits'
  BY <1>2, <1>3, <1>4, <1>5 DEF PageInv, PageTyped, EditorWaits
<1> QED
  BY <1>2, <1>3, <1>5, <1>6 DEF PageInv, ShowsRoute

LEMMA ButtonsKeep ==
    ASSUME PageInv, Buttons
    PROVE  PageInv'
<1>1. route \in Id /\ (shown # None => shown.id \in Id)
  BY DEF PageInv, PageTyped, Shown
<1>2. CASE StartOrJoin
  BY <1>1, <1>2, ActKeeps DEF StartOrJoin, Rendered
<1>3. CASE Act /\ screen.acts # "never"
  BY <1>1, <1>3, ActKeeps DEF Act
<1> QED
  BY <1>2, <1>3 DEF Buttons, RejudgeThis, RejudgeFromList, WriteSolution, SetRole,
     ImportCourse, ImportProblems

\* A form is saved: what it holds is of the route, if it was not hasty.
LEMMA SaveKeeps ==
    ASSUME PageInv, Save, screen.form \in {"whole", "parts"}
    PROVE  PageInv'
<1>1. PICK p : p = [kind |-> "save", id |-> route, of |-> Filling, served |-> FALSE]
  OBVIOUS
<1>2. Filling \in Content
  BY DEF PageInv, PageTyped, Filling, Content, Shown
<1>3. p \in Post /\ p.id = route /\ p.of = Filling /\ p.kind = "save"
  BY <1>1, <1>2 DEF PageInv, PageTyped, Post
<1>4. /\ posts' = posts \cup {p}
      /\ hasty' = (hasty \/ asked # <<>> \/ error # None \/ Filling = "partial")
      /\ UNCHANGED <<screen, route, asked, shown, polling, server, content, crossed>>
  BY <1>1 DEF Save, Write
<1>5. hasty' \in BOOLEAN /\ (~hasty' => /\ ~hasty /\ asked = <<>> /\ error = None
                                        /\ Filling # "partial")
  BY <1>4 DEF PageInv, PageTyped
<1>6. ~crossed' /\ ~hasty' => shown # None /\ shown.id = route /\ p.of = p.id
  BY <1>3, <1>4, <1>5 DEF PageInv, Filling
<1>7. PageTyped'
  BY <1>3, <1>4, <1>5 DEF PageInv, PageTyped
<1>8. EditorWaits'
  BY <1>3, <1>4 DEF PageInv, EditorWaits
<1> QED
  BY <1>4, <1>5, <1>6, <1>7, <1>8 DEF PageInv, ShowsRoute

\* The server has a write, or goes on by itself.
LEMMA ServerGoesOn ==
    ASSUME PageInv, server' \in [Id -> Answer], posts' \subseteq Post,
           UNCHANGED <<screen, route, asked, shown, polling, error, crossed, hasty>>,
           \A p \in posts' : \E q \in posts : p.kind = q.kind /\ p.id = q.id /\ p.of = q.of,
           content' = content \/ \E p \in posts : content' = [content EXCEPT ![p.id] = p.of]
    PROVE  PageInv'
<1>1. content' \in [Id -> Content] /\ (~crossed /\ ~hasty => \A id \in Id : content'[id] = id)
  <2>1. content \in [Id -> Content] /\ (~crossed /\ ~hasty => \A id \in Id : content[id] = id)
    BY DEF PageInv, PageTyped
  <2>2. CASE content' = content
    BY <2>1, <2>2
  <2>3. ASSUME NEW p \in posts, content' = [content EXCEPT ![p.id] = p.of]
        PROVE  content' \in [Id -> Content]
               /\ (~crossed /\ ~hasty => \A id \in Id : content'[id] = id)
    <3>1. p.id \in Id /\ p.of \in Content /\ (~crossed /\ ~hasty => p.of = p.id)
      BY DEF PageInv, PageTyped, Post
    <3> QED
      BY <2>1, <2>3, <3>1
  <2> QED
    BY <2>2, <2>3
<1>2. PageTyped'
  BY <1>1 DEF PageInv, PageTyped
<1>3. EditorWaits'
  BY DEF PageInv, EditorWaits
<1>4. ~crossed /\ ~hasty => \A p \in posts' : p.of = p.id
  BY DEF PageInv
<1> QED
  BY <1>1, <1>2, <1>3, <1>4 DEF PageInv, ShowsRoute

\* What the server has of a route after a step of it.
LEMMA AnswerKept ==
    ASSUME NEW s \in [Id -> Answer], NEW id \in Id, NEW n \in Nat, NEW st \in Status
    PROVE  /\ [s EXCEPT ![id].version = n] \in [Id -> Answer]
           /\ [s EXCEPT ![id].status = st] \in [Id -> Answer]
           /\ [s EXCEPT ![id].version = n, ![id].status = st] \in [Id -> Answer]
           /\ s[id].version \in Nat /\ s[id].status \in Status
<1>1. s[id] \in Answer
  OBVIOUS
<1>2. PICK a : a = [s[id] EXCEPT !.version = n]
  OBVIOUS
<1>3. PICK b : b = [s[id] EXCEPT !.status = st]
  OBVIOUS
<1>4. PICK c : c = [a EXCEPT !.status = st]
  OBVIOUS
<1>5. a \in Answer /\ b \in Answer /\ s[id].version \in Nat /\ s[id].status \in Status
  BY <1>1, <1>2, <1>3 DEF Answer
<1>6. c \in Answer
  BY <1>4, <1>5 DEF Answer
<1>7. /\ [s EXCEPT ![id].version = n] = [s EXCEPT ![id] = a]
      /\ [s EXCEPT ![id].status = st] = [s EXCEPT ![id] = b]
  BY <1>2, <1>3
<1>8. [s EXCEPT ![id].version = n, ![id].status = st] = [s EXCEPT ![id] = c]
  <2>1. PICK t : t = [s EXCEPT ![id] = a]
    OBVIOUS
  <2>2. t[id] = a /\ [t EXCEPT ![id] = c] = [s EXCEPT ![id] = c]
    BY <2>1
  <2>3. [t EXCEPT ![id].status = st] = [t EXCEPT ![id] = c]
    BY <1>4, <2>2
  <2> QED
    BY <1>7, <2>1, <2>2, <2>3
<1> QED
  BY <1>5, <1>6, <1>7, <1>8

LEMMA WriteServedKeeps ==
    ASSUME PageInv, NEW p \in posts, WriteServed(p)
    PROVE  PageInv'
<1>1. p \in Post /\ server \in [Id -> Answer] /\ posts \subseteq Post
  BY DEF PageInv, PageTyped
<1>2. p.id \in Id
  BY <1>1 DEF Post
<1>3. PICK q : q = [p EXCEPT !.served = TRUE]
  OBVIOUS
<1>4. q \in Post /\ q.kind = p.kind /\ q.id = p.id /\ q.of = p.of
  BY <1>1, <1>3 DEF Post
<1>5. posts' = (posts \ {p}) \cup {q}
  BY <1>3 DEF WriteServed
<1>6. server' \in [Id -> Answer]
  <2>1. PICK n : n = IF p.kind = "act" THEN server[p.id].version + 1 ELSE server[p.id].version
    OBVIOUS
  <2>2. PICK st : st = IF screen.waits = "status" THEN "queued" ELSE server[p.id].status
    OBVIOUS
  <2>3. n \in Nat /\ st \in Status
    <3>1. server[p.id].version \in Nat /\ server[p.id].status \in Status
      BY <1>1, <1>2 DEF Answer
    <3> QED
      BY <2>1, <2>2, <3>1 DEF Status
  <2>4. server' = [server EXCEPT ![p.id].version = n, ![p.id].status = st]
    BY <1>1, <1>2, <2>1, <2>2 DEF WriteServed
  <2> QED
    BY <1>1, <1>2, <2>3, <2>4, AnswerKept
<1>7. /\ UNCHANGED <<screen, route, asked, shown, polling, error, crossed, hasty>>
      /\ content' = [content EXCEPT ![p.id] = p.of]
  BY DEF WriteServed
<1>8. /\ posts' \subseteq Post
      /\ \A r \in posts' : \E t \in posts : r.kind = t.kind /\ r.id = t.id /\ r.of = t.of
  BY <1>1, <1>4, <1>5
<1> QED
  BY <1>6, <1>7, <1>8, ServerGoesOn

LEMMA ProgressKeeps ==
    ASSUME PageInv, NEW id \in Id, Progress(id) \/ Verdict(id)
    PROVE  PageInv'
<1>1. server \in [Id -> Answer] /\ posts \subseteq Post
  BY DEF PageInv, PageTyped
<1>2. server' \in [Id -> Answer]
  <2>1. CASE Progress(id)
    <3>1. PICK st \in Status : st = IF server[id].status = "queued" THEN "judging" ELSE "done"
      BY DEF Status
    <3>2. server' = [server EXCEPT ![id].status = st]
      BY <1>1, <2>1, <3>1 DEF Progress
    <3>3. 0 \in Nat
      OBVIOUS
    <3> QED
      BY <1>1, <3>2, <3>3, AnswerKept
  <2>2. CASE Verdict(id)
    <3>1. PICK n \in Nat : n = server[id].version + 1
      BY <1>1 DEF Answer
    <3>2. server' = [server EXCEPT ![id].version = n]
      BY <1>1, <2>2, <3>1 DEF Verdict
    <3>3. "done" \in Status
      BY DEF Status
    <3> QED
      BY <1>1, <3>2, <3>3, AnswerKept
  <2> QED
    BY <2>1, <2>2
<1>3. UNCHANGED <<screen, route, asked, shown, polling, error, posts, content, crossed, hasty>>
  BY DEF Progress, Verdict, page
<1> QED
  BY <1>1, <1>2, <1>3, ServerGoesOn

\* The answer of a write, or its failure, after which some screens load again.
LEMMA WriteReturnsKeeps ==
    ASSUME PageInv, NEW p \in posts, WriteReturns(p) \/ WriteRefused(p)
    PROVE  PageInv'
<1>0. PageTyped /\ crossed \in BOOLEAN
  BY DEF PageInv, PageTyped
<1>1. /\ posts' \subseteq posts
      /\ UNCHANGED <<screen, route, shown, polling, server, content, hasty>>
      /\ error' = error \/ error' = "failed"
  BY DEF WriteReturns, WriteRefused
<1>2. CASE asked' = asked /\ crossed' = crossed
  <2>1. PageTyped' /\ EditorWaits'
    BY <1>1, <1>2 DEF PageInv, PageTyped, EditorWaits
  <2>2. error' = None => error = None
    BY <1>1, ScreensAssumption
  <2> QED
    BY <1>1, <1>2, <2>1, <2>2 DEF PageInv, ShowsRoute
<1>3. CASE (p.kind = "act" \/ screen.acts = "table") /\ crossed' = (crossed \/ asked # <<>>)
           /\ (Ask(route, FALSE) \/ Ask(route, TRUE))
  <2>1. screen.form # "parts"
    BY <1>0, <1>3, ScreenTraits DEF PageInv, EditorWaits
  <2>2. crossed' \in BOOLEAN /\ (crossed => crossed')
    BY <1>0, <1>3
  <2> QED
    BY <1>1, <1>3, <2>1, <2>2, AskKeeps
<1>4. ASSUME NEW own \in BOOLEAN, Ask(route, own) PROVE Ask(route, FALSE) \/ Ask(route, TRUE)
  <2>1. CASE own = FALSE
    BY <1>4, <2>1
  <2>2. CASE own = TRUE
    BY <1>4, <2>2
  <2> QED
    BY <2>1, <2>2
<1>5. CASE WriteReturns(p)
  <2>1. CASE p.kind = "act"
    <3> DEFINE Own == screen.acts \in {"settled", "awaited", "aside", "upload"}
    <3>1. Ask(route, Own) /\ crossed' = (crossed \/ asked # <<>>)
      BY <1>5, <2>1 DEF WriteReturns
    <3>2. Own \in BOOLEAN
      BY SMT
    <3>3. Ask(route, FALSE) \/ Ask(route, TRUE)
      <4> HIDE DEF Own
      <4> QED
        BY <1>4, <3>1, <3>2
    <3> QED
      BY <1>3, <2>1, <3>1, <3>3
  <2>2. CASE p.kind # "act"
    BY <1>2, <1>5, <2>2 DEF WriteReturns
  <2> QED
    BY <2>1, <2>2
<1>6. CASE WriteRefused(p)
  BY <1>2, <1>3, <1>6 DEF WriteRefused
<1> QED
  BY <1>5, <1>6

\* The page is opened again.
LEMMA ReopenKeeps ==
    ASSUME PageInv, Reopen
    PROVE  PageInv'
<1>1. PICK q \in Question : q = Get(route, 1, FALSE) /\ q.id = route /\ q.part = 1 /\ q.part # 2
  <2>1. Get(route, 1, FALSE) \in Question
    BY Questions DEF PageInv, PageTyped
  <2> QED
    BY <2>1 DEF Get
<1>2. asked' = <<q>> /\ shown' = None /\ polling' = FALSE
      /\ UNCHANGED <<screen, route, posts, server, content, crossed, hasty>>
  BY <1>1 DEF Reopen
<1>3. asked' \in Seq(Question) /\ Len(asked') = 1 /\ asked' # <<>>
      /\ \A i \in DOMAIN asked' : asked'[i] = q
  BY <1>2
<1>4. PageTyped'
  BY <1>2, <1>3 DEF PageInv, PageTyped
<1>5. \A i \in DOMAIN asked' : asked'[i].part = 1 /\ asked'[i].part # 2 /\ asked'[i].id = route
  BY <1>1, <1>3, Zenon
<1>6. Len(asked') <= 1
  BY <1>3
<1>7. EditorWaits'
  BY <1>2, <1>5, <1>6 DEF PageInv, EditorWaits
<1> QED
  BY <1>2, <1>3, <1>4, <1>5, <1>7 DEF PageInv, ShowsRoute

\* What the page does, with what the forms need to know of it: a route that changes
\* empties the screens that reset.
PageStep ==
    \/ ServeAny \/ RefuseAny \/ Answered \/ Poll
    \/ \E id \in Id : Navigate(id) \/ Progress(id) \/ Verdict(id)
    \/ Buttons \/ SaveItems \/ SaveProblem
    \/ WriteEnds \/ \E p \in posts : WriteRefused(p)

Moves ==
    /\ screen' = screen
    /\ crossed => crossed'
    /\ route' # route /\ screen.resets => shown' = None

LEMMA PageStepMoves ==
    ASSUME PageInv, PageStep
    PROVE  PageInv' /\ Moves
<1>1. CASE ServeAny \/ RefuseAny
  BY <1>1, ServeAnyKeeps DEF ServeAny, RefuseAny, Serve, Refuse, Moves
<1>2. CASE Answered
  <2>1. PICK i \in DOMAIN asked : Arrive(i) \/ ArriveSource(i) \/ ArriveFailed(i)
    BY <1>2 DEF Answered
  <2>2. UNCHANGED <<screen, route, crossed>>
    <3>1. CASE Arrive(i)
      BY <3>1 DEF Arrive
    <3>2. CASE ArriveSource(i)
      BY <3>2 DEF ArriveSource
    <3>3. CASE ArriveFailed(i)
      BY <3>3 DEF ArriveFailed
    <3> QED
      BY <2>1, <3>1, <3>2, <3>3
  <2> QED
    BY <1>2, <2>2, AnsweredKeeps DEF Moves
<1>3. CASE Poll
  BY <1>3, PollKeeps DEF Poll, Moves
<1>4. ASSUME NEW id \in Id, Navigate(id) PROVE PageInv' /\ Moves
  BY <1>4, NavigateKeeps DEF Navigate, Moves
<1>5. ASSUME NEW id \in Id, Progress(id) \/ Verdict(id) PROVE PageInv' /\ Moves
  BY <1>5, ProgressKeeps DEF Progress, Verdict, page, Moves
<1>6. CASE Buttons
  BY <1>6, ButtonsKeep DEF Buttons, RejudgeThis, RejudgeFromList, StartOrJoin, WriteSolution,
     SetRole, ImportCourse, ImportProblems, Act, ActOn, Moves
<1>7. CASE SaveItems \/ SaveProblem
  BY <1>7, SaveKeeps DEF SaveItems, SaveProblem, Save, Moves
<1>8. ASSUME NEW p \in posts, WriteServed(p) PROVE PageInv' /\ Moves
  BY <1>8, WriteServedKeeps DEF WriteServed, Moves
<1>9. ASSUME NEW p \in posts, WriteReturns(p) \/ WriteRefused(p) PROVE PageInv' /\ Moves
  BY <1>9, WriteReturnsKeeps DEF WriteReturns, WriteRefused, Moves
<1> QED
  BY <1>1, <1>2, <1>3, <1>4, <1>5, <1>6, <1>7, <1>8, <1>9 DEF PageStep, WriteEnds

\* The steps of the form leave the page alone.
LEMMA FormLeavesPage ==
    ASSUME PageInv, \/ UNCHANGED screenVars
                    \/ SubmitRefused
    PROVE  PageInv'
<1>1. UNCHANGED <<screen, route, asked, shown, polling, error, posts, server, content,
                  crossed, hasty>>
  BY DEF screenVars, page, SubmitRefused
<1> QED
  BY <1>1 DEF PageInv, PageTyped, EditorWaits, ShowsRoute

-----------------------------------------------------------------------------
(* The forms *)

LEMMA InitForm == Init => FormInv
<1> SUFFICES ASSUME Init PROVE FormInv
  OBVIOUS
<1>1. (CHOOSE l \in Language : TRUE) \in Language
  BY DraftsAssumption
<1>2. /\ language \in {None} \cup Language
      /\ screen.drafts = "form" => language \in Language
  BY <1>1 DEF Init, InitDrafts
<1>3. /\ code = Blank /\ stored = [k \in Key |-> Blank] /\ timer = None /\ sending = None
      /\ Blank \in Text
  BY DEF Init, InitDrafts, Text
<1>4. FormTyped
  BY <1>2, <1>3 DEF FormTyped
<1> QED
  BY <1>2, <1>3, <1>4, DraftsAssumption DEF FormInv

\* The text that is read for a key.
LEMMA RefillReads ==
    ASSUME FormTyped, NEW k \in Key, NEW old \in Text, Refill(k, old)
    PROVE  /\ code' \in Text /\ timer' \in [key: Key, text: Text]
           /\ timer'.key = k /\ timer'.text = code'
           /\ (\A h \in Key : stored[h] \in {Blank, h}) /\ (screen.drafts = "code" \/ old = Blank)
                => code' \in {Blank, k}
<1>1. PICK t : t = Restored(k, old)
  OBVIOUS
<1>2. stored[k] \in Text /\ Blank \in Text
  BY DEF FormTyped, Text
<1>3. t \in Text /\ ((\A h \in Key : stored[h] \in {Blank, h})
                       /\ (screen.drafts = "code" \/ old = Blank) => t \in {Blank, k})
  BY <1>1, <1>2 DEF Restored
<1>4. code' = t /\ timer' = [key |-> k, text |-> t]
  BY <1>1 DEF Refill
<1> QED
  BY <1>3, <1>4

\* A text that is read for a key of the route fits the form.
LEMMA RefillFits ==
    ASSUME PageInv', FormInv, NEW l \in Language, NEW old \in Text,
           Refill(<<route', l>>, old),
           crossed \/ screen.drafts = "code" \/ old = Blank,
           language' = l, Keeps, screen' = screen, crossed => crossed',
           UNCHANGED <<stored, sending>>
    PROVE  FormInv'
<1>1. route' \in Id
  BY DEF PageInv, PageTyped
<1>2. PICK k : k = <<route', l>>
  OBVIOUS
<1>3. k \in Key
  BY <1>1, <1>2 DEF Key
<1>4. /\ code' \in Text /\ timer' \in [key: Key, text: Text]
      /\ timer'.key = k /\ timer'.text = code'
      /\ (\A h \in Key : stored[h] \in {Blank, h}) /\ (screen.drafts = "code" \/ old = Blank)
           => code' \in {Blank, k}
  BY <1>2, <1>3, RefillReads DEF FormInv
<1>5. FormTyped'
  BY <1>4 DEF FormInv, FormTyped
<1>6. l # None /\ Keeps'
  BY DraftsAssumption DEF Keeps
<1>7. ~crossed' => code' \in {Blank, k}
  BY <1>4 DEF FormInv
<1> QED
  BY <1>2, <1>4, <1>5, <1>6, <1>7 DEF FormInv

\* What the form does when the page moves.
LEMMA FollowsKeeps ==
    ASSUME PageInv, PageInv', FormInv, FormFollows, Moves
    PROVE  FormInv'
<1>1. UNCHANGED <<language, stored, sending>> /\ screen' = screen /\ (crossed => crossed')
  BY DEF FormFollows, Moves
<1>2. Keeps' = Keeps /\ Blank \in Text /\ FormTyped
  BY <1>1 DEF Keeps, Text, FormInv
<1>3. CASE ~Keeps \/ language = None
  <2>1. code' = code /\ timer' = timer
    BY <1>3 DEF FormFollows
  <2>2. ~crossed => code = Blank
    BY <1>3 DEF FormInv
  <2> QED
    BY <1>1, <1>2, <2>1, <2>2 DEF FormInv, FormTyped
<1>4. CASE Keeps /\ language # None /\ ~Drawn'
  <2>1. code' = Blank /\ timer' = None
    BY <1>4 DEF FormFollows
  <2> QED
    BY <1>1, <1>2, <2>1 DEF FormInv, FormTyped
<1>5. CASE Keeps /\ language # None /\ Drawn' /\ ~Drawn
  <2>1. Refill(<<route', language>>, Blank)
    BY <1>5 DEF FormFollows
  <2>2. language \in Language
    BY <1>2, <1>5 DEF FormTyped
  <2> QED
    BY <1>1, <1>2, <1>5, <2>1, <2>2, RefillFits
<1>6. CASE Keeps /\ language # None /\ Drawn' /\ Drawn /\ route' # route
  <2>1. Refill(<<route', language>>, code)
    BY <1>6 DEF FormFollows
  <2>2. language \in Language /\ code \in Text
    BY <1>2, <1>6 DEF FormTyped
  <2>3. screen.resets
    BY <1>6, ScreenTraits DEF PageInv
  <2>4. screen.drafts = "code"
    BY <1>1, <1>6, <2>3 DEF Moves, Drawn, Rendered
  <2> QED
    BY <1>1, <1>6, <2>1, <2>2, <2>4, RefillFits
<1>7. CASE Keeps /\ language # None /\ Drawn' /\ Drawn /\ route' = route
  <2>1. code' = code /\ timer' = timer
    BY <1>7 DEF FormFollows
  <2> QED
    BY <1>1, <1>2, <1>7, <2>1 DEF FormInv, FormTyped
<1> QED
  BY <1>3, <1>4, <1>5, <1>6, <1>7

\* The list of languages comes, or another language is chosen.
LEMMA LanguageKeeps ==
    ASSUME PageInv, PageInv', FormInv, NEW l \in Language, Languages(l) \/ Switch(l)
    PROVE  FormInv'
<1>1. /\ screen.drafts = "code" /\ language' = l /\ Refill(<<route, l>>, code)
      /\ UNCHANGED <<screen, route, crossed, stored, sending>>
  BY DEF Languages, Switch, screenVars, page
<1>2. code \in Text /\ Keeps
  BY <1>1 DEF FormInv, FormTyped, Keeps
<1>3. Refill(<<route', l>>, code)
  BY <1>1
<1> QED
  BY <1>1, <1>2, <1>3, RefillFits

\* What is typed is for the problem that is shown, which is that of the route.
LEMMA TypeKeeps ==
    ASSUME PageInv, FormInv, NEW erased \in BOOLEAN, Type(erased)
    PROVE  FormInv'
<1>1. PICK k : k = <<route, language>>
  OBVIOUS
<1>2. PICK x : x = <<shown.id, language>>
  OBVIOUS
<1>3. Keeps /\ shown \in Shown /\ language \in Language /\ route \in Id /\ language # None
  BY DEF Type, InForm, Rendered, PageInv, PageTyped, FormInv, FormTyped
<1>4. screen.resets
  BY <1>3, ScreenTraits DEF PageInv
<1>5. ~crossed => x = k
  BY <1>1, <1>2, <1>4 DEF PageInv, ShowsRoute, Type, InForm, Rendered
<1>6. k \in Key /\ x \in Key
  BY <1>1, <1>2, <1>3 DEF Key, Shown
<1>7. /\ code' \in {Blank, x} /\ timer' = [key |-> k, text |-> code']
      /\ UNCHANGED <<screen, route, crossed, language, stored, sending>>
  BY <1>1, <1>2 DEF Type, screenVars, page
<1>8. code' \in Text
  BY <1>6, <1>7 DEF Text
<1>9. timer' \in [key: Key, text: Text] /\ timer'.key = k /\ timer'.text = code'
  BY <1>6, <1>7, <1>8
<1>10. FormTyped' /\ Keeps' = Keeps
  BY <1>7, <1>8, <1>9 DEF FormInv, FormTyped, Keeps
<1> QED
  BY <1>1, <1>3, <1>5, <1>7, <1>9, <1>10 DEF FormInv

\* A draft is kept under the key of its timer.
LEMMA TimerKeeps ==
    ASSUME FormInv, TimerFires
    PROVE  FormInv'
<1>1. timer \in [key: Key, text: Text] /\ timer.key \in Key /\ timer.text \in Text
  BY DEF TimerFires, FormInv, FormTyped
<1>2. /\ stored' = [stored EXCEPT ![timer.key] = timer.text] /\ timer' = None
      /\ UNCHANGED <<screen, route, crossed, language, code, sending>>
  BY DEF TimerFires, screenVars, page
<1>3. ~crossed => \A k \in Key : stored'[k] \in {Blank, k}
  BY <1>1, <1>2 DEF FormInv, FormTyped, TimerFires
<1>4. FormTyped' /\ Keeps' = Keeps
  BY <1>1, <1>2 DEF FormInv, FormTyped, Keeps
<1> QED
  BY <1>2, <1>3, <1>4 DEF FormInv

LEMMA SubmitKeeps ==
    ASSUME PageInv, FormInv, Submit
    PROVE  FormInv'
<1>1. PICK k : k = <<route, language>>
  OBVIOUS
<1>2. k \in Key /\ code \in Text
  BY <1>1 DEF Submit, InForm, PageInv, PageTyped, FormInv, FormTyped, Key
<1>3. /\ code # Blank /\ sending' = [key |-> k, text |-> code, ok |-> FALSE]
      /\ UNCHANGED <<screen, route, crossed, language, code, stored, timer>>
  BY <1>1 DEF Submit, screenVars, page
<1>4. sending' \in [key: Key, text: Text, ok: BOOLEAN]
  BY <1>2, <1>3
<1>5. ~crossed => sending'.text = sending'.key
  BY <1>1, <1>3 DEF FormInv
<1>6. FormTyped' /\ Keeps' = Keeps
  BY <1>3, <1>4 DEF FormInv, FormTyped, Keeps
<1> QED
  BY <1>3, <1>5, <1>6 DEF FormInv

LEMMA SubmittedKeeps ==
    ASSUME PageInv, FormInv, Submitted
    PROVE  FormInv'
<1>1. sending \in [key: Key, text: Text, ok: BOOLEAN] /\ sending # None
  BY DEF Submitted, FormInv, FormTyped
<1>2. PICK s : s = [sending EXCEPT !.ok = TRUE]
  OBVIOUS
<1>3. /\ s \in [key: Key, text: Text, ok: BOOLEAN]
      /\ s.key = sending.key /\ s.text = sending.text
  BY <1>1, <1>2
<1>4. sending' = s /\ UNCHANGED <<screen, route, crossed, language, code, timer>>
  BY <1>2 DEF Submitted, screenVars, page
<1>5. ~crossed' => s.text = s.key
  BY <1>1, <1>3, <1>4 DEF FormInv
<1>6. CASE language = None
  <2>1. stored' = stored
    BY <1>6 DEF Submitted
  <2> QED
    BY <1>3, <1>4, <1>5, <2>1 DEF FormInv, FormTyped, Keeps
<1>7. CASE language # None
  <2>1. PICK k : k = <<route, language>>
    OBVIOUS
  <2>2. k \in Key /\ Blank \in Text /\ stored \in [Key -> Text]
    BY <1>7, <2>1 DEF PageInv, PageTyped, FormInv, FormTyped, Key, Text
  <2>3. stored' = [stored EXCEPT ![k] = Blank]
    BY <1>7, <2>1 DEF Submitted
  <2>4. /\ stored' \in [Key -> Text]
        /\ \A h \in Key : stored'[h] = Blank \/ stored'[h] = stored[h]
    BY <2>2, <2>3
  <2>5. FormTyped' /\ Keeps' = Keeps
    BY <1>3, <1>4, <2>4 DEF FormInv, FormTyped, Keeps
  <2>6. ~crossed => \A h \in Key : stored'[h] \in {Blank, h}
    BY <2>4 DEF FormInv
  <2> QED
    BY <1>3, <1>4, <1>5, <2>5, <2>6 DEF FormInv
<1> QED
  BY <1>6, <1>7

\* A submission that is refused, a page that is left, one that is opened again.
LEMMA LeavesKeep ==
    ASSUME FormInv, SubmitRefused \/ Leave \/ Reopen
    PROVE  FormInv'
<1>1. UNCHANGED <<screen, route, crossed, stored>>
  BY DEF SubmitRefused, Leave, Reopen, screenVars, page
<1>2. Keeps' = Keeps /\ Blank \in Text
  BY <1>1 DEF Keeps, Text
<1>3. sending' = None /\ (timer' = timer \/ timer' = None)
  BY DEF SubmitRefused, Leave, Reopen
<1>4. \/ language' = language /\ code' = code
      \/ code' = Blank /\ language' = IF screen.drafts = "code" THEN None ELSE language
  BY DEF SubmitRefused, Leave, Reopen
<1>5. FormTyped'
  BY <1>1, <1>2, <1>3, <1>4 DEF FormInv, FormTyped
<1> QED
  BY <1>1, <1>2, <1>3, <1>4, <1>5 DEF FormInv

-----------------------------------------------------------------------------
(* The whole tab *)

LEMMA NextWeb ==
    ASSUME WebInv, [Next]_vars
    PROVE  WebInv'
<1> USE DEF WebInv
<1>1. CASE Page
  <2>1. PageStep /\ FormFollows
    BY <1>1 DEF Page, OnPage, PageStep
  <2> QED
    BY <2>1, PageStepMoves, FollowsKeeps
<1>2. ASSUME NEW l \in Language, Languages(l) \/ Switch(l) PROVE WebInv'
  <2>1. UNCHANGED screenVars
    BY <1>2 DEF Languages, Switch
  <2> QED
    BY <1>2, <2>1, FormLeavesPage, LanguageKeeps
<1>3. ASSUME NEW erased \in BOOLEAN, Type(erased) PROVE WebInv'
  BY <1>3, FormLeavesPage, TypeKeeps DEF Type
<1>4. CASE TimerFires
  BY <1>4, FormLeavesPage, TimerKeeps DEF TimerFires
<1>5. CASE Submit
  BY <1>5, FormLeavesPage, SubmitKeeps DEF Submit
<1>6. CASE Submitted
  BY <1>6, FormLeavesPage, SubmittedKeeps DEF Submitted
<1>7. CASE SubmitRefused
  BY <1>7, FormLeavesPage, LeavesKeep
<1>8. CASE Leave
  BY <1>8, FormLeavesPage, LeavesKeep DEF Leave
<1>9. CASE Reopen
  BY <1>9, ReopenKeeps, LeavesKeep
<1>10. CASE UNCHANGED vars
  <2>1. UNCHANGED screenVars /\ UNCHANGED <<language, code, stored, timer, sending>>
    BY <1>10 DEF vars, draftVars
  <2>2. screen' = screen /\ route' = route /\ crossed' = crossed
    BY <2>1 DEF screenVars, page
  <2>3. FormInv'
    BY <2>1, <2>2 DEF FormInv, FormTyped, Keeps
  <2> QED
    BY <2>1, <2>3, FormLeavesPage
<1> QED
  BY <1>1, <1>2, <1>3, <1>4, <1>5, <1>6, <1>7, <1>8, <1>9, <1>10 DEF Next, Form

\* What the screens show, save and keep belongs to the route it is shown, saved or kept
\* under (WebSound), unless an answer has been overtaken by a later question or a form was
\* saved that no load had filled.
THEOREM WebIsSound == Spec => []WebSound
<1>1. Init => WebInv
  BY InitPage, InitForm DEF Init, WebInv
<1>2. WebInv /\ [Next]_vars => WebInv'
  BY NextWeb
<1>3. WebInv => WebSound
  <2>1. WebInv => PageAgrees
    BY DEF WebInv, PageInv, PageAgrees
  <2>2. WebInv => ContentKept
    BY DEF WebInv, PageInv, ContentKept
  <2>3. WebInv => DraftsApart
    BY DEF WebInv, FormInv, DraftsApart
  <2> QED
    BY <2>1, <2>2, <2>3 DEF WebSound
<1> QED
  BY <1>1, <1>2, <1>3, PTL DEF Spec

-----------------------------------------------------------------------------
(* The Markdown field: texts, place by place *)

IsText(t) == Len(t) \in Nat /\ t = [i \in 1..Len(t) |-> t[i]]

LEMMA TextOfSeq ==
    ASSUME NEW S, NEW t \in Seq(S)
    PROVE  IsText(t)
BY DEF IsText

LEMMA TextDomain ==
    ASSUME NEW t, IsText(t)
    PROVE  DOMAIN t = 1..Len(t) /\ Len(t) \in Nat
<1>1. PICK n : n = Len(t)
  OBVIOUS
<1>2. n \in Nat /\ t = [i \in 1..n |-> t[i]]
  BY <1>1 DEF IsText
<1>3. DOMAIN t = DOMAIN [i \in 1..n |-> t[i]]
  BY <1>2
<1>4. DOMAIN [i \in 1..n |-> t[i]] = 1..n
  OBVIOUS
<1> QED
  BY <1>1, <1>2, <1>3, <1>4

LEMMA SeqOfText ==
    ASSUME NEW t, IsText(t), NEW S, \A i \in 1..Len(t) : t[i] \in S
    PROVE  t \in Seq(S)
BY DEF IsText

LEMMA ConcatBehind ==
    ASSUME NEW S, NEW s \in Seq(S), NEW t \in Seq(S), NEW n, n = Len(s)
    PROVE  \A i \in 1..Len(t) : (s \o t)[n + i] = t[i]
OBVIOUS

LEMMA ConcatParts ==
    ASSUME NEW S, NEW s \in Seq(S), NEW t \in Seq(S), NEW n, n = Len(s), NEW m, m = Len(t)
    PROVE  /\ s \o t \in Seq(S) /\ Len(s \o t) = n + m
           /\ \A i \in 1..n : (s \o t)[i] = s[i]
OBVIOUS

\* How much of a text is behind a place, and what Splice makes of a text.
Behind(text, to) == IF to < Len(text) THEN Len(text) - to ELSE 0

Spliced(r, text, from, to, new) ==
    /\ IsText(r)
    /\ Len(r) = from + Len(new) + Behind(text, to)
    /\ \A i \in 1..from : r[i] = text[i]
    /\ \A i \in 1..Len(new) : r[from + i] = new[i]
    /\ \A i \in 1..Behind(text, to) : r[from + Len(new) + i] = text[to + i]

\* A splice by its places.
LEMMA SpliceParts ==
    ASSUME NEW text, IsText(text), NEW new, IsText(new),
           NEW from \in 0..Len(text), NEW to \in Nat, from <= to
    PROVE  Spliced(Splice(text, from, to, new), text, from, to, new)
<1> DEFINE S == {text[i] : i \in 1..Len(text)} \cup {new[i] : i \in 1..Len(new)}
<1>1. text \in Seq(S) /\ new \in Seq(S)
  BY SeqOfText DEF IsText
<1> HIDE DEF S
<1> DEFINE head == SubSeq(text, 1, from)
           tail == SubSeq(text, to + 1, Len(text))
           rest == Behind(text, to)
<1>2. head \in Seq(S) /\ Len(head) = from /\ \A i \in 1..from : head[i] = text[i]
  BY <1>1 DEF IsText
<1>3. tail \in Seq(S) /\ Len(tail) = rest /\ \A i \in 1..rest : tail[i] = text[to + i]
  <2>1. Len(text) \in Nat
    BY DEF IsText
  <2>2. CASE to < Len(text)
    <3>1. rest = Len(text) - to
      BY <2>2 DEF Behind
    <3>2. tail \in Seq(S) /\ Len(tail) = Len(text) - to
      BY <1>1, <2>1, <2>2
    <3>3. \A i \in 1..(Len(text) - to) : tail[i] = text[to + i]
      BY <1>1, <2>1, <2>2
    <3> QED
      BY <3>1, <3>2, <3>3
  <2>3. CASE ~(to < Len(text))
    <3>1. rest = 0 /\ 1..0 = {}
      BY <2>3 DEF Behind
    <3>2. tail \in Seq(S) /\ Len(tail) = 0
      BY <1>1, <2>1, <2>3
    <3> QED
      BY <3>1, <3>2
  <2> QED
    BY <2>2, <2>3
<1> HIDE DEF head, tail, rest
<1>4. Splice(text, from, to, new) = (head \o new) \o tail
  BY DEF Splice, head, tail
<1>5. head \o new \in Seq(S) /\ Len(head \o new) = from + Len(new)
      /\ (\A i \in 1..from : (head \o new)[i] = text[i])
      /\ (\A i \in 1..Len(new) : (head \o new)[from + i] = new[i])
  BY <1>1, <1>2
<1>6. Len(new) \in Nat /\ rest \in Nat
  BY DEF IsText, rest, Behind
<1> DEFINE front == head \o new
<1> HIDE DEF front
<1>7. front \in Seq(S) /\ Len(front) = from + Len(new)
      /\ (\A i \in 1..from : front[i] = text[i])
      /\ (\A i \in 1..Len(new) : front[from + i] = new[i])
  BY <1>5 DEF front
<1>8. Splice(text, from, to, new) = front \o tail
  BY <1>4 DEF front
<1>9. PICK n \in Nat : n = from + Len(new)
  BY <1>6
<1>10. /\ front \o tail \in Seq(S) /\ Len(front \o tail) = n + rest
       /\ \A i \in 1..n : (front \o tail)[i] = front[i]
  <2>1. front \in Seq(S) /\ n = Len(front)
    BY <1>7, <1>9
  <2>2. tail \in Seq(S) /\ rest = Len(tail)
    BY <1>3
  <2> QED
    BY <2>1, <2>2, ConcatParts
<1>11. \A i \in 1..rest : (front \o tail)[n + i] = tail[i]
  BY <1>3, <1>7, <1>9, ConcatBehind
<1>12. IsText(front \o tail)
  BY <1>10, TextOfSeq
<1>13. \A i \in 1..from : (front \o tail)[i] = text[i]
  BY <1>6, <1>7, <1>9, <1>10
<1>14. \A i \in 1..Len(new) : (front \o tail)[from + i] = new[i]
  BY <1>6, <1>7, <1>9, <1>10
<1>15. \A i \in 1..rest : (front \o tail)[n + i] = text[to + i]
  BY <1>3, <1>11
<1> QED
  BY <1>8, <1>9, <1>10, <1>12, <1>13, <1>14, <1>15 DEF rest, Spliced

\* A piece is in a text when it begins behind one of its places.
PieceAt(text, piece, p) ==
    /\ p \in 0..(Len(text) - Len(piece))
    /\ \A i \in 1..Len(piece) : text[p + i] = piece[i]

LEMMA PieceOfText ==
    ASSUME NEW text, IsText(text), NEW p \in 0..Len(text), NEW q \in p..Len(text)
    PROVE  /\ IsText(SubSeq(text, p + 1, q))
           /\ Len(SubSeq(text, p + 1, q)) = q - p
           /\ \A i \in 1..(q - p) : SubSeq(text, p + 1, q)[i] = text[p + i]
<1> DEFINE S == {text[i] : i \in 1..Len(text)}
<1>1. text \in Seq(S)
  BY SeqOfText
<1> HIDE DEF S
<1>2. SubSeq(text, p + 1, q) \in Seq(S)
  BY <1>1
<1>3. IsText(SubSeq(text, p + 1, q))
  BY <1>2, TextOfSeq
<1>4. Len(SubSeq(text, p + 1, q)) = q - p
  BY <1>1
<1> QED
  BY <1>1, <1>3, <1>4

\* A text holds a piece if the piece is there at some place.
LEMMA HoldsPiece ==
    ASSUME NEW text, IsText(text), NEW piece, IsText(piece), Len(piece) > 0
    PROVE  Holds(text, piece) <=> \E p : PieceAt(text, piece, p)
<1>1. ASSUME Holds(text, piece)
      PROVE  \E p : PieceAt(text, piece, p)
  <2>1. PICK p \in 0..Len(text), q \in 0..Len(text) : piece = SubSeq(text, p + 1, q)
    BY <1>1 DEF Holds, SubSeqs
  <2>2. Len(text) \in Nat
    BY DEF IsText
  <2>3. p <= q
    <3> SUFFICES ASSUME q < p PROVE FALSE
      BY <2>2
    <3>1. q < p + 1 /\ p + 1 \in Int /\ q \in Int
      BY <2>2
    <3>2. piece = <<>>
      BY <2>1, <3>1, SubSeqEmpty, Zenon
    <3> QED
      BY <3>2
  <2>4. q \in p..Len(text)
    BY <2>2, <2>3
  <2>5. Len(piece) = q - p /\ \A i \in 1..(q - p) : piece[i] = text[p + i]
    BY <2>1, <2>4, PieceOfText
  <2>6. p \in 0..(Len(text) - Len(piece))
    BY <2>2, <2>4, <2>5
  <2>7. \A i \in 1..Len(piece) : text[p + i] = piece[i]
    BY <2>5
  <2> QED
    BY <2>6, <2>7 DEF PieceAt
<1>2. ASSUME NEW p, PieceAt(text, piece, p)
      PROVE  Holds(text, piece)
  <2>1. PICK n \in Nat : n = Len(piece)
    BY DEF IsText
  <2>2. Len(text) \in Nat /\ p \in 0..Len(text) /\ p + n \in p..Len(text) /\ (p + n) - p = n
    BY <1>2, <2>1 DEF IsText, PieceAt
  <2> DEFINE found == SubSeq(text, p + 1, p + n)
  <2>3. IsText(found) /\ Len(found) = n /\ \A i \in 1..n : found[i] = text[p + i]
    BY <2>2, PieceOfText
  <2> HIDE DEF found
  <2>4. \A i \in 1..n : found[i] = piece[i]
    BY <1>2, <2>1, <2>3 DEF PieceAt
  <2>5. found = [i \in 1..n |-> found[i]] /\ piece = [i \in 1..n |-> piece[i]]
    BY <2>1, <2>3 DEF IsText
  <2>6. found = piece
    BY <2>4, <2>5
  <2> QED
    BY <2>2, <2>6 DEF Holds, SubSeqs, found
<1> QED
  BY <1>1, <1>2

-----------------------------------------------------------------------------
(* Placeholders and addresses *)

WaitsAt(text, k, p) ==
    /\ p \in Nat /\ p + 2 <= Len(text)
    /\ text[p + 1] = <<"uploading", k, 1>> /\ text[p + 2] = <<"uploading", k, 2>>
ShownAt(text, k, p) ==
    /\ p \in Nat /\ p + 3 <= Len(text)
    /\ text[p + 1] = <<"picture", k, 1>> /\ text[p + 2] = <<"picture", k, 2>>
    /\ text[p + 3] = <<"picture", k, 3>>

LEMMA MarkParts ==
    ASSUME NEW kind, NEW k, NEW n \in Nat
    PROVE  /\ IsText(Mark(kind, k, n)) /\ Len(Mark(kind, k, n)) = n
           /\ \A i \in 1..n : Mark(kind, k, n)[i] = <<kind, k, i>>
<1> DEFINE S == {<<kind, k, i>> : i \in 1..n}
           mark == [i \in 1..n |-> <<kind, k, i>>]
<1>1. mark \in [1..n -> S]
  OBVIOUS
<1>2. mark \in Seq(S)
  BY <1>1, SeqDef
<1>3. DOMAIN mark = 1..n /\ DOMAIN mark = 1..Len(mark) /\ Len(mark) \in Nat
  BY <1>2, LenProperties
<1>4. Len(mark) = n
  BY <1>3
<1>5. mark = Mark(kind, k, n)
  BY DEF Mark
<1>6. IsText(mark)
  BY <1>2, TextOfSeq
<1> QED
  BY <1>4, <1>5, <1>6

LEMMA Marks ==
    ASSUME NEW k
    PROVE  /\ IsText(Placeholder(k)) /\ Len(Placeholder(k)) = 2
           /\ Placeholder(k)[1] = <<"uploading", k, 1>>
           /\ Placeholder(k)[2] = <<"uploading", k, 2>>
           /\ IsText(Address(k)) /\ Len(Address(k)) = 3
           /\ Address(k)[1] = <<"picture", k, 1>>
           /\ Address(k)[2] = <<"picture", k, 2>>
           /\ Address(k)[3] = <<"picture", k, 3>>
<1>1. 1 \in 1..2 /\ 2 \in 1..2 /\ 1 \in 1..3 /\ 2 \in 1..3 /\ 3 \in 1..3
  OBVIOUS
<1>2. /\ IsText(Placeholder(k)) /\ Len(Placeholder(k)) = 2
      /\ \A i \in 1..2 : Placeholder(k)[i] = <<"uploading", k, i>>
  BY MarkParts DEF Placeholder
<1>3. /\ IsText(Address(k)) /\ Len(Address(k)) = 3
      /\ \A i \in 1..3 : Address(k)[i] = <<"picture", k, i>>
  BY MarkParts DEF Address
<1> QED
  BY <1>1, <1>2, <1>3

\* A placeholder is there in one piece: its two marks, one behind the other.
LEMMA Waiting ==
    ASSUME NEW text, IsText(text), NEW k
    PROVE  Holds(text, Placeholder(k)) <=> \E p : WaitsAt(text, k, p)
<1>1. Holds(text, Placeholder(k)) <=> \E p : PieceAt(text, Placeholder(k), p)
  BY Marks, HoldsPiece
<1>2. Len(text) \in Nat /\ Len(Placeholder(k)) = 2
  BY Marks DEF IsText
<1>3. \A p : p \in 0..(Len(text) - 2) <=> p \in Nat /\ p + 2 <= Len(text)
  BY <1>2
<1>4. 1..2 = {1, 2}
  OBVIOUS
<1>5. \A p : PieceAt(text, Placeholder(k), p) <=> WaitsAt(text, k, p)
  BY <1>2, <1>3, <1>4, Marks DEF WaitsAt, PieceAt
<1> QED
  BY <1>1, <1>5

LEMMA Showing ==
    ASSUME NEW text, IsText(text), NEW k
    PROVE  Holds(text, Address(k)) <=> \E p : ShownAt(text, k, p)
<1>1. Holds(text, Address(k)) <=> \E p : PieceAt(text, Address(k), p)
  BY Marks, HoldsPiece
<1>2. Len(text) \in Nat /\ Len(Address(k)) = 3
  BY Marks DEF IsText
<1>3. \A p : p \in 0..(Len(text) - 3) <=> p \in Nat /\ p + 3 <= Len(text)
  BY <1>2
<1>4. 1..3 = {1, 2, 3}
  OBVIOUS
<1>5. \A p : PieceAt(text, Address(k), p) <=> ShownAt(text, k, p)
  BY <1>2, <1>3, <1>4, Marks DEF ShownAt, PieceAt
<1> QED
  BY <1>1, <1>5

LEMMA MinOfNats ==
    ASSUME NEW S \in SUBSET Nat, S # {}
    PROVE  Min(S) \in S /\ \A y \in S : Min(S) <= y
<1>1. \E x \in S : \A y \in S : <<y, x>> \notin OpToRel(<, Nat)
  BY NatLessThanWellFounded, WFMin
<1>2. PICK x \in S : \A y \in S : ~(y < x)
  BY <1>1 DEF OpToRel
<1>3. \E z \in S : \A y \in S : z <= y
  BY <1>2
<1> QED
  BY <1>3, Zenon DEF Min

\* The text up to a place holds a placeholder when one ends there or before.
LEMMA WaitingBefore ==
    ASSUME NEW text, IsText(text), NEW k, NEW n \in 0..Len(text)
    PROVE  /\ Holds(SubSeq(text, 1, n), Placeholder(k)) => \E p : WaitsAt(text, k, p) /\ p + 2 <= n
           /\ \A p : WaitsAt(text, k, p) /\ p + 2 <= n =>
                Holds(SubSeq(text, 1, n), Placeholder(k))
<1> DEFINE front == SubSeq(text, 1, n)
<1>1. IsText(front) /\ Len(front) = n /\ \A i \in 1..n : front[i] = text[i]
  <2>1. 0 \in 0..Len(text) /\ n \in 0..Len(text) /\ Len(text) \in Nat
    BY DEF IsText
  <2>2. /\ IsText(SubSeq(text, 0 + 1, n)) /\ Len(SubSeq(text, 0 + 1, n)) = n - 0
        /\ \A i \in 1..(n - 0) : SubSeq(text, 0 + 1, n)[i] = text[0 + i]
    BY <2>1, PieceOfText
  <2>3. 0 + 1 = 1 /\ n - 0 = n /\ \A i \in 1..n : 0 + i = i
    BY <2>1
  <2> QED
    BY <2>2, <2>3
<1> HIDE DEF front
<1>2. Len(text) \in Nat
  BY DEF IsText
<1>3. Holds(front, Placeholder(k)) <=> \E p : WaitsAt(front, k, p)
  BY <1>1, Waiting
<1>4. \A p \in Nat : p + 2 <= n => front[p + 1] = text[p + 1] /\ front[p + 2] = text[p + 2]
  BY <1>1, <1>2
<1>5. \A p : WaitsAt(front, k, p) <=> WaitsAt(text, k, p) /\ p + 2 <= n
  BY <1>1, <1>2, <1>4 DEF WaitsAt
<1> QED
  BY <1>3, <1>5 DEF front

\* Replacing the first placeholder.
LEMMA FirstReplaced ==
    ASSUME NEW text, IsText(text), NEW k, NEW new
    PROVE  \/ /\ ReplaceFirstSubSeq(new, Placeholder(k), text) = text
              /\ ~Holds(text, Placeholder(k))
           \/ \E p : /\ WaitsAt(text, k, p)
                     /\ ReplaceFirstSubSeq(new, Placeholder(k), text) = Splice(text, p, p + 2, new)
<1>1. CASE ~Holds(text, Placeholder(k))
  BY <1>1 DEF Holds, ReplaceFirstSubSeq
<1>2. CASE Holds(text, Placeholder(k))
  <2> DEFINE Ends == {n \in 0..Len(text) : Holds(SubSeq(text, 1, n), Placeholder(k))}
             IsLast(n) == /\ Holds(SubSeq(text, 1, n), Placeholder(k))
                          /\ \A j \in 0..n - 1 : ~Holds(SubSeq(text, 1, j), Placeholder(k))
             last == CHOOSE n \in 0..Len(text) : IsLast(n)
  <2>1. Len(text) \in Nat
    BY DEF IsText
  <2>2. PICK p0 : WaitsAt(text, k, p0)
    BY <1>2, Waiting
  <2>3. p0 \in Nat /\ p0 + 2 <= Len(text)
    BY <2>2 DEF WaitsAt
  <2>4. p0 + 2 \in Ends
    BY <2>1, <2>2, <2>3, WaitingBefore
  <2>5. Ends \in SUBSET Nat
    BY <2>1
  <2>6. Min(Ends) \in Ends /\ \A y \in Ends : Min(Ends) <= y
    BY <2>4, <2>5, MinOfNats
  <2>7. IsLast(Min(Ends))
    BY <2>1, <2>6
  <2>8. last \in 0..Len(text) /\ IsLast(last)
    BY <2>6, <2>7, Zenon
  <2>9. IndexFirstSubSeq(Placeholder(k), text) = last - (Len(Placeholder(k)) - 1)
    BY Zenon DEF IndexFirstSubSeq, Holds
  <2> HIDE DEF Ends, last
  <2>10. PICK p : WaitsAt(text, k, p) /\ p + 2 <= last
    BY <2>8, WaitingBefore
  <2>11. p \in Nat /\ p + 2 <= Len(text)
    BY <2>10 DEF WaitsAt
  <2>12. ~(p + 2 < last)
    BY <2>1, <2>8, <2>10, <2>11, WaitingBefore
  <2>13. last = p + 2
    BY <2>8, <2>10, <2>11, <2>12
  <2>14. IndexFirstSubSeq(Placeholder(k), text) = p + 1
    <3>1. Len(Placeholder(k)) = 2
      BY Marks
    <3>2. IndexFirstSubSeq(Placeholder(k), text) = (p + 2) - (2 - 1)
      BY <2>9, <2>13, <3>1
    <3> QED
      BY <2>11, <3>2
  <2>15. ReplaceFirstSubSeq(new, Placeholder(k), text)
            = SubSeq(text, 1, (p + 1) - 1) \o new \o SubSeq(text, (p + 1) + 2, Len(text))
    BY <1>2, <2>14, Marks DEF ReplaceFirstSubSeq, ReplaceSubSeqAt, Holds
  <2>16. (p + 1) - 1 = p /\ (p + 1) + 2 = (p + 2) + 1
    BY <2>11
  <2> QED
    BY <2>10, <2>15, <2>16 DEF Splice
<1> QED
  BY <1>1, <1>2

-----------------------------------------------------------------------------
(* Where the marks of a spliced text come from *)

Comes(r, i, text, from, to, new) ==
    \/ i <= from /\ i \in 1..Len(text) /\ r[i] = text[i]
    \/ from < i /\ i - from \in 1..Len(new) /\ r[i] = new[i - from]
    \/ \E j \in 1..Len(text) : to < j /\ i = from + Len(new) + (j - to) /\ r[i] = text[j]

\* Every mark of a spliced text is an old one, or one of the new piece.
LEMMA SpliceSource ==
    ASSUME NEW text, IsText(text), NEW new, IsText(new),
           NEW from \in 0..Len(text), NEW to \in Nat, from <= to,
           NEW r, r = Splice(text, from, to, new), NEW i \in 1..Len(r)
    PROVE  Comes(r, i, text, from, to, new)
<1>1. /\ Len(r) = from + Len(new) + Behind(text, to)
      /\ \A j \in 1..from : r[j] = text[j]
      /\ \A j \in 1..Len(new) : r[from + j] = new[j]
      /\ \A j \in 1..Behind(text, to) : r[from + Len(new) + j] = text[to + j]
  <2>1. Spliced(r, text, from, to, new)
    BY SpliceParts
  <2> QED
    BY <2>1 DEF Spliced
<1>2. Len(text) \in Nat /\ Len(new) \in Nat
  BY DEF IsText
<1>3. Behind(text, to) \in Nat
  BY <1>2 DEF Behind
<1>4. CASE i <= from
  BY <1>1, <1>2, <1>4 DEF Comes
<1>5. CASE from < i /\ i <= from + Len(new)
  <2>1. i - from \in 1..Len(new) /\ from + (i - from) = i
    BY <1>2, <1>5
  <2> QED
    BY <1>1, <1>5, <2>1 DEF Comes
<1>6. CASE from + Len(new) < i
  <2> DEFINE j == i - (from + Len(new))
  <2>1. j \in 1..Behind(text, to) /\ from + Len(new) + j = i
    BY <1>1, <1>2, <1>3, <1>6
  <2>2. r[i] = text[to + j]
    BY <1>1, <2>1
  <2>3. to + j \in 1..Len(text) /\ to < to + j /\ i = from + Len(new) + ((to + j) - to)
    BY <1>2, <2>1 DEF Behind
  <2> QED
    BY <2>2, <2>3 DEF Comes
<1> QED
  BY <1>2, <1>4, <1>5, <1>6

\* What is in one piece on one side of a splice stays in one piece.
KeepsPieces(r, text, from, to, k) ==
    /\ \A p : WaitsAt(text, k, p) /\ (p + 2 <= from \/ to <= p) => \E q : WaitsAt(r, k, q)
    /\ \A p : ShownAt(text, k, p) /\ (p + 3 <= from \/ to <= p) => \E q : ShownAt(r, k, q)

\* An old piece that the splice does not reach is still there.
LEMMA SpliceKeeps ==
    ASSUME NEW text, IsText(text), NEW new, IsText(new),
           NEW from \in 0..Len(text), NEW to \in Nat, from <= to, NEW k
    PROVE  KeepsPieces(Splice(text, from, to, new), text, from, to, k)
<1> DEFINE r == Splice(text, from, to, new)
<1>1. /\ Len(r) = from + Len(new) + Behind(text, to)
      /\ \A j \in 1..from : r[j] = text[j]
      /\ \A j \in 1..Behind(text, to) : r[from + Len(new) + j] = text[to + j]
  <2>1. Spliced(r, text, from, to, new)
    BY SpliceParts
  <2> QED
    BY <2>1 DEF Spliced
<1>2. Len(text) \in Nat /\ Len(new) \in Nat
  BY DEF IsText
<1>3. Behind(text, to) \in Nat
  BY <1>2 DEF Behind
<1> HIDE DEF r
<1>4. ASSUME NEW p \in Nat, to <= p, NEW n \in Nat, n > 0, p + n <= Len(text)
      PROVE  /\ from + Len(new) + (p - to) \in Nat
             /\ (from + Len(new) + (p - to)) + n <= Len(r)
             /\ \A i \in 1..n : r[(from + Len(new) + (p - to)) + i] = text[p + i]
  <2>1. Behind(text, to) = Len(text) - to
    BY <1>2, <1>4 DEF Behind
  <2>2. ASSUME NEW i \in 1..n
        PROVE  r[(from + Len(new) + (p - to)) + i] = text[p + i]
    <3>1. (p - to) + i \in 1..Behind(text, to)
      BY <1>2, <1>4, <2>1, <2>2
    <3>2. from + Len(new) + ((p - to) + i) = (from + Len(new) + (p - to)) + i
          /\ to + ((p - to) + i) = p + i
      BY <1>2, <1>4, <2>2
    <3> QED
      BY <1>1, <3>1, <3>2
  <2> QED
    BY <1>1, <1>2, <1>4, <2>1, <2>2
<1>5. ASSUME NEW p, WaitsAt(text, k, p), p + 2 <= from \/ to <= p
      PROVE  \E q : WaitsAt(r, k, q)
  <2>1. CASE p + 2 <= from
    <3>1. WaitsAt(r, k, p)
      BY <1>1, <1>2, <1>3, <1>5, <2>1 DEF WaitsAt
    <3> QED
      BY <3>1
  <2>2. CASE to <= p
    <3> DEFINE q == from + Len(new) + (p - to)
    <3>1. p \in Nat /\ p + 2 <= Len(text)
      BY <1>5 DEF WaitsAt
    <3>2. q \in Nat /\ q + 2 <= Len(r) /\ \A i \in 1..2 : r[q + i] = text[p + i]
      <4>1. 2 \in Nat /\ 2 > 0
        OBVIOUS
      <4> QED
        BY <1>4, <2>2, <3>1, <4>1, Zenon
    <3> HIDE DEF q
    <3>3. 1..2 = {1, 2}
      OBVIOUS
    <3>4. WaitsAt(r, k, q)
      BY <1>5, <3>2, <3>3 DEF WaitsAt
    <3> QED
      BY <3>4
  <2> QED
    BY <1>5, <2>1, <2>2
<1>6. ASSUME NEW p, ShownAt(text, k, p), p + 3 <= from \/ to <= p
      PROVE  \E q : ShownAt(r, k, q)
  <2>1. CASE p + 3 <= from
    <3>1. p \in Nat /\ p + 3 <= Len(r) /\ {p + 1, p + 2, p + 3} \subseteq 1..from
      BY <1>1, <1>2, <1>3, <1>6, <2>1 DEF ShownAt
    <3>2. r[p + 1] = text[p + 1] /\ r[p + 2] = text[p + 2] /\ r[p + 3] = text[p + 3]
      BY <1>1, <3>1
    <3>3. ShownAt(r, k, p)
      BY <1>6, <3>1, <3>2 DEF ShownAt
    <3> QED
      BY <3>3
  <2>2. CASE to <= p
    <3> DEFINE q == from + Len(new) + (p - to)
    <3>1. p \in Nat /\ p + 3 <= Len(text)
      BY <1>6 DEF ShownAt
    <3>2. q \in Nat /\ q + 3 <= Len(r) /\ \A i \in 1..3 : r[q + i] = text[p + i]
      <4>1. 3 \in Nat /\ 3 > 0
        OBVIOUS
      <4> QED
        BY <1>4, <2>2, <3>1, <4>1, Zenon
    <3> HIDE DEF q
    <3>3. 1..3 = {1, 2, 3}
      OBVIOUS
    <3>4. ShownAt(r, k, q)
      BY <1>6, <3>2, <3>3 DEF ShownAt
    <3> QED
      BY <3>4
  <2> QED
    BY <1>6, <2>1, <2>2
<1> QED
  BY <1>5, <1>6 DEF KeepsPieces, r

-----------------------------------------------------------------------------
(* What is true of a body, of the uploads that are under way (live) and of  *)
(* those whose address was put into it (ans), but for those that were cut.  *)

\* No mark of a placeholder is there twice.
MarksOnce(text) ==
    \A i, j \in 1..Len(text) : text[i][1] = "uploading" /\ text[i] = text[j] => i = j

PicturesKnown(text, ans) ==
    \A i \in 1..Len(text) : text[i][1] = "picture" => text[i][2] \in ans

\* Both marks of a placeholder: then it is in one piece, and waited for.
NoneLeft(text, live, cut) ==
    \A k : k \notin cut =>
        \A p, q \in 1..Len(text) :
            text[p] = <<"uploading", k, 1>> /\ text[q] = <<"uploading", k, 2>> =>
                q = p + 1 /\ k \in live

AllThere(text, live, ans, cut) ==
    /\ \A k \in live \ cut : \E p : WaitsAt(text, k, p)
    /\ \A k \in ans \ cut : \E p : ShownAt(text, k, p)

BodyInv(text, live, ans, cut, moved) ==
    /\ IsText(text) /\ MarksOnce(text) /\ PicturesKnown(text, ans)
    /\ NoneLeft(text, live, cut)
    /\ live \cap ans = {} /\ AllDrawings \notin live \cup ans
    /\ ~moved => AllThere(text, live, ans, cut)

\* What counts as there in one piece.
LEMMA IntactParts ==
    ASSUME NEW text, IsText(text), NEW k, k # AllDrawings
    PROVE  k \in Intact(text) <=> (\E p : WaitsAt(text, k, p)) \/ (\E p : ShownAt(text, k, p))
<1> DEFINE Kinds == {"uploading", "picture"}
           Named == {text[i][2] : i \in {j \in DOMAIN text : text[j][1] \in Kinds}}
<1>1. DOMAIN text = 1..Len(text) /\ Len(text) \in Nat
  BY TextDomain
<1>2. k \in Intact(text) <=> k \in Named /\ (Holds(text, Placeholder(k)) \/ Holds(text, Address(k)))
  BY DEF Intact
<1>3. ASSUME NEW p, WaitsAt(text, k, p) PROVE k \in Named
  <2>1. p + 1 \in DOMAIN text /\ text[p + 1] = <<"uploading", k, 1>>
    BY <1>1, <1>3 DEF WaitsAt
  <2>2. text[p + 1][1] \in Kinds /\ text[p + 1][2] = k
    BY <2>1
  <2> QED
    BY <2>1, <2>2
<1>4. ASSUME NEW p, ShownAt(text, k, p) PROVE k \in Named
  <2>1. p + 1 \in DOMAIN text /\ text[p + 1] = <<"picture", k, 1>>
    BY <1>1, <1>4 DEF ShownAt
  <2>2. text[p + 1][1] \in Kinds /\ text[p + 1][2] = k
    BY <2>1
  <2> QED
    BY <2>1, <2>2
<1> HIDE DEF Named
<1>5. Holds(text, Placeholder(k)) <=> \E p : WaitsAt(text, k, p)
  BY Waiting
<1>6. Holds(text, Address(k)) <=> \E p : ShownAt(text, k, p)
  BY Showing
<1> QED
  BY <1>2, <1>3, <1>4, <1>5, <1>6

\* A body that loses in one piece only what is counted as cut, and gains placeholders
\* of new uploads.
Grows(text, r, ans, fresh) ==
    /\ IsText(r) /\ MarksOnce(r) /\ PicturesKnown(r, ans)
    /\ fresh \cap ans = {} /\ AllDrawings \notin fresh
    /\ \A i \in 1..Len(r) : r[i][1] = "uploading" /\ r[i][2] \notin fresh =>
            \E j \in 1..Len(text) : text[j] = r[i]
    /\ \A k \in fresh : \E p : WaitsAt(r, k, p)

LEMMA WrittenBody ==
    ASSUME NEW text, NEW live, NEW ans, NEW cut, NEW moved, BodyInv(text, live, ans, cut, moved),
           NEW r, NEW fresh, Grows(text, r, ans, fresh)
    PROVE  BodyInv(r, live \cup fresh, ans, cut \cup (Intact(text) \ Intact(r)), moved)
<1> SUFFICES ASSUME IsText(r), MarksOnce(r), PicturesKnown(r, ans),
                    fresh \cap ans = {}, AllDrawings \notin fresh,
                    \A i \in 1..Len(r) : r[i][1] = "uploading" /\ r[i][2] \notin fresh =>
                        \E j \in 1..Len(text) : text[j] = r[i],
                    \A k \in fresh : \E p : WaitsAt(r, k, p)
             PROVE  BodyInv(r, live \cup fresh, ans, cut \cup (Intact(text) \ Intact(r)), moved)
  BY DEF Grows
<1> DEFINE cut2 == cut \cup (Intact(text) \ Intact(r))
<1>1. /\ IsText(text) /\ MarksOnce(text) /\ PicturesKnown(text, ans)
      /\ NoneLeft(text, live, cut)
      /\ live \cap ans = {} /\ AllDrawings \notin live \cup ans
      /\ ~moved => AllThere(text, live, ans, cut)
  BY DEF BodyInv
<1>2. Len(text) \in Nat /\ Len(r) \in Nat
  BY <1>1 DEF IsText
<1>3. ASSUME NEW k, NEW p, WaitsAt(r, k, p)
      PROVE  /\ p + 1 \in 1..Len(r) /\ p + 2 \in 1..Len(r) /\ p + 2 = (p + 1) + 1
             /\ r[p + 1] = <<"uploading", k, 1>> /\ r[p + 2] = <<"uploading", k, 2>>
  BY <1>2, <1>3 DEF WaitsAt
<1>4. ASSUME NEW k, k \notin fresh, NEW p, WaitsAt(r, k, p), k \notin cut
      PROVE  k \in live
  <2>1. r[p + 1][1] = "uploading" /\ r[p + 1][2] = k /\ r[p + 2][1] = "uploading" /\ r[p + 2][2] = k
    BY <1>3, <1>4
  <2>2. PICK i \in 1..Len(text) : text[i] = r[p + 1]
    BY <1>3, <1>4, <2>1
  <2>3. PICK j \in 1..Len(text) : text[j] = r[p + 2]
    BY <1>3, <1>4, <2>1
  <2> QED
    BY <1>1, <1>3, <1>4, <2>2, <2>3 DEF NoneLeft
<1>5. ASSUME NEW k, NEW p, ShownAt(r, k, p)
      PROVE  k \in ans
  <2>1. p + 1 \in 1..Len(r) /\ r[p + 1] = <<"picture", k, 1>>
    BY <1>2, <1>5 DEF ShownAt
  <2> QED
    BY <2>1 DEF PicturesKnown
\* Those that wait still do, those that are shown still are.
<1>6. ASSUME NEW k \in live, k \notin cut2, NEW p, WaitsAt(text, k, p)
      PROVE  \E q : WaitsAt(r, k, q)
  <2>1. k # AllDrawings
    BY <1>1
  <2>2. k \in Intact(text)
    BY <1>1, <1>6, <2>1, IntactParts
  <2>3. k \in Intact(r)
    BY <1>6, <2>2
  <2>4. (\E q : WaitsAt(r, k, q)) \/ (\E q : ShownAt(r, k, q))
    BY <2>1, <2>3, IntactParts
  <2> QED
    BY <1>1, <1>5, <2>4
<1>7. ASSUME NEW k \in ans, k \notin cut2, NEW p, ShownAt(text, k, p)
      PROVE  \E q : ShownAt(r, k, q)
  <2>1. k # AllDrawings /\ k \notin fresh /\ k \notin live
    BY <1>1
  <2>2. k \in Intact(text)
    BY <1>1, <1>7, <2>1, IntactParts
  <2>3. k \in Intact(r)
    BY <1>7, <2>2
  <2>4. (\E q : WaitsAt(r, k, q)) \/ (\E q : ShownAt(r, k, q))
    BY <2>1, <2>3, IntactParts
  <2> QED
    BY <1>4, <1>7, <2>1, <2>4
<1>8. NoneLeft(r, live \cup fresh, cut2)
  <2> SUFFICES ASSUME NEW k, k \notin cut2, NEW p \in 1..Len(r), NEW q \in 1..Len(r),
                      r[p] = <<"uploading", k, 1>>, r[q] = <<"uploading", k, 2>>
               PROVE  q = p + 1 /\ k \in live \cup fresh
    BY DEF NoneLeft
  <2>1. r[p][1] = "uploading" /\ r[p][2] = k /\ r[q][1] = "uploading" /\ r[q][2] = k
    OBVIOUS
  <2>2. ASSUME \E m : WaitsAt(r, k, m)
        PROVE  q = p + 1
    <3>1. PICK m : WaitsAt(r, k, m)
      BY <2>2
    <3>2. /\ m + 1 \in 1..Len(r) /\ m + 2 \in 1..Len(r) /\ m + 2 = (m + 1) + 1
          /\ r[m + 1] = r[p] /\ r[m + 2] = r[q]
      BY <1>3, <3>1
    <3>3. p = m + 1
      BY <2>1, <3>2 DEF MarksOnce
    <3>4. q = m + 2
      BY <2>1, <3>2 DEF MarksOnce
    <3> QED
      BY <3>2, <3>3, <3>4
  <2>3. CASE k \in fresh
    BY <2>2, <2>3
  <2>4. CASE k \notin fresh
    <3>1. PICK i \in 1..Len(text) : text[i] = <<"uploading", k, 1>>
      BY <2>1, <2>4
    <3>2. PICK j \in 1..Len(text) : text[j] = <<"uploading", k, 2>>
      BY <2>1, <2>4
    <3>3. j = i + 1 /\ k \in live
      BY <1>1, <3>1, <3>2 DEF NoneLeft
    <3>4. WaitsAt(text, k, i - 1)
      BY <1>2, <3>1, <3>2, <3>3 DEF WaitsAt
    <3> QED
      BY <1>6, <2>2, <3>3, <3>4
  <2> QED
    BY <2>3, <2>4
<1>9. ~moved => AllThere(r, live \cup fresh, ans, cut2)
  <2> SUFFICES ASSUME ~moved PROVE AllThere(r, live \cup fresh, ans, cut2)
    OBVIOUS
  <2>1. AllThere(text, live, ans, cut)
    BY <1>1
  <2>2. \A k \in (live \cup fresh) \ cut2 : \E p : WaitsAt(r, k, p)
    BY <1>6, <2>1 DEF AllThere
  <2>3. \A k \in ans \ cut2 : \E p : ShownAt(r, k, p)
    BY <1>7, <2>1 DEF AllThere
  <2> QED
    BY <2>2, <2>3 DEF AllThere
<1> QED
  BY <1>1, <1>8, <1>9 DEF BodyInv

\* The marks of a spliced text are those of the text and those that are put in.
LEMMA SplicedMarks ==
    ASSUME NEW text, IsText(text), NEW new, IsText(new), NEW ans,
           NEW from \in 0..Len(text), NEW to \in Nat, from <= to,
           MarksOnce(text), MarksOnce(new), PicturesKnown(text, ans), PicturesKnown(new, ans),
           \A i \in 1..Len(text), j \in 1..Len(new) :
                text[i][1] = "uploading" => text[i] # new[j],
           NEW r, r = Splice(text, from, to, new)
    PROVE  /\ IsText(r) /\ MarksOnce(r) /\ PicturesKnown(r, ans)
           /\ \A i \in 1..Len(r) : \/ \E j \in 1..Len(text) : text[j] = r[i]
                                   \/ \E j \in 1..Len(new) : new[j] = r[i]
<1>1. Spliced(r, text, from, to, new)
  BY SpliceParts
<1>2. IsText(r)
  BY <1>1 DEF Spliced
<1>3. Len(text) \in Nat /\ Len(new) \in Nat /\ Len(r) \in Nat
  BY <1>2 DEF IsText
<1>4. \A i \in 1..Len(r) : \/ i <= from /\ i \in 1..Len(text) /\ r[i] = text[i]
                           \/ from < i /\ i - from \in 1..Len(new) /\ r[i] = new[i - from]
                           \/ \E j \in 1..Len(text) :
                                /\ to < j /\ i = from + Len(new) + (j - to) /\ r[i] = text[j]
  <2>1. \A i \in 1..Len(r) : Comes(r, i, text, from, to, new)
    BY SpliceSource
  <2> QED
    BY <2>1 DEF Comes
<1>5. \A i \in 1..Len(r) : \/ \E j \in 1..Len(text) : text[j] = r[i]
                           \/ \E j \in 1..Len(new) : new[j] = r[i]
  BY <1>4
<1>6. PicturesKnown(r, ans)
  <2> SUFFICES ASSUME NEW i \in 1..Len(r), r[i][1] = "picture"
               PROVE  r[i][2] \in ans
    BY DEF PicturesKnown
  <2> QED
    BY <1>5 DEF PicturesKnown
<1>7. MarksOnce(r)
  <2> SUFFICES ASSUME NEW i \in 1..Len(r), NEW j \in 1..Len(r), r[i][1] = "uploading", r[i] = r[j]
               PROVE  i = j
    BY DEF MarksOnce
  <2>1. \/ i <= from /\ i \in 1..Len(text) /\ r[i] = text[i]
        \/ from < i /\ i - from \in 1..Len(new) /\ r[i] = new[i - from]
        \/ \E m \in 1..Len(text) : to < m /\ i = from + Len(new) + (m - to) /\ r[i] = text[m]
    BY <1>4
  <2>2. \/ j <= from /\ j \in 1..Len(text) /\ r[j] = text[j]
        \/ from < j /\ j - from \in 1..Len(new) /\ r[j] = new[j - from]
        \/ \E m \in 1..Len(text) : to < m /\ j = from + Len(new) + (m - to) /\ r[j] = text[m]
    BY <1>4
  <2>3. CASE from < i /\ i - from \in 1..Len(new) /\ r[i] = new[i - from]
    <3>1. from < j /\ j - from \in 1..Len(new) /\ r[j] = new[j - from]
      BY <2>2, <2>3
    <3>2. i - from = j - from
      BY <2>3, <3>1 DEF MarksOnce
    <3> QED
      BY <1>3, <3>2
  <2>4. CASE from < j /\ j - from \in 1..Len(new) /\ r[j] = new[j - from]
    <3>1. from < i /\ i - from \in 1..Len(new) /\ r[i] = new[i - from]
      BY <2>1, <2>4
    <3>2. i - from = j - from
      BY <2>4, <3>1 DEF MarksOnce
    <3> QED
      BY <1>3, <3>2
  <2>5. CASE /\ i <= from /\ i \in 1..Len(text) /\ r[i] = text[i]
             /\ j <= from /\ j \in 1..Len(text) /\ r[j] = text[j]
    BY <2>5 DEF MarksOnce
  <2>6. ASSUME NEW m \in 1..Len(text), to < m, NEW n \in 1..Len(text), n <= from
        PROVE  text[m] # text[n] \/ text[m][1] # "uploading"
    <3>1. m # n
      BY <1>3, <2>6
    <3> QED
      BY <3>1 DEF MarksOnce
  <2>7. CASE /\ \E m \in 1..Len(text) : to < m /\ i = from + Len(new) + (m - to) /\ r[i] = text[m]
             /\ \E m \in 1..Len(text) : to < m /\ j = from + Len(new) + (m - to) /\ r[j] = text[m]
    <3>1. PICK m \in 1..Len(text) : i = from + Len(new) + (m - to) /\ r[i] = text[m]
      BY <2>7
    <3>2. PICK l \in 1..Len(text) : j = from + Len(new) + (l - to) /\ r[j] = text[l]
      BY <2>7
    <3>3. m = l
      BY <3>1, <3>2 DEF MarksOnce
    <3> QED
      BY <3>1, <3>2, <3>3
  <2> QED
    BY <2>1, <2>2, <2>3, <2>4, <2>5, <2>6, <2>7
<1> QED
  BY <1>2, <1>5, <1>6, <1>7

\* Marks that are no upload's.
Unmarked(new) == \A i \in 1..Len(new) : new[i][1] \notin {"uploading", "picture"}

\* A person types, erases or puts in a drawing.
LEMMA EditedBody ==
    ASSUME NEW text, NEW live, NEW ans, NEW cut, NEW moved, BodyInv(text, live, ans, cut, moved),
           NEW new, IsText(new), Unmarked(new),
           NEW from \in 0..Len(text), NEW to \in Nat, from <= to,
           NEW r, r = Splice(text, from, to, new)
    PROVE  BodyInv(r, live, ans, cut \cup (Intact(text) \ Intact(r)), moved)
<1>1. IsText(text) /\ MarksOnce(text) /\ PicturesKnown(text, ans)
  BY DEF BodyInv
<1>2. MarksOnce(new) /\ PicturesKnown(new, ans)
  BY DEF Unmarked, MarksOnce, PicturesKnown
<1>3. \A i \in 1..Len(text), j \in 1..Len(new) : text[i][1] = "uploading" => text[i] # new[j]
  BY DEF Unmarked
<1>4. /\ IsText(r) /\ MarksOnce(r) /\ PicturesKnown(r, ans)
      /\ \A i \in 1..Len(r) : \/ \E j \in 1..Len(text) : text[j] = r[i]
                              \/ \E j \in 1..Len(new) : new[j] = r[i]
  BY <1>1, <1>2, <1>3, SplicedMarks
<1>5. \A i \in 1..Len(r) : r[i][1] = "uploading" => \E j \in 1..Len(text) : text[j] = r[i]
  BY <1>4 DEF Unmarked
<1> DEFINE fresh == {}
<1>6. /\ fresh \cap ans = {} /\ AllDrawings \notin fresh /\ live \cup fresh = live
      /\ \A k \in fresh : \E p : WaitsAt(r, k, p)
      /\ \A i \in 1..Len(r) : r[i][1] = "uploading" /\ r[i][2] \notin fresh =>
            \E j \in 1..Len(text) : text[j] = r[i]
  BY <1>5
<1> HIDE DEF fresh
<1>7. BodyInv(r, live \cup fresh, ans, cut \cup (Intact(text) \ Intact(r)), moved)
  <2>1. Grows(text, r, ans, fresh)
    BY <1>4, <1>6 DEF Grows
  <2> QED
    BY <2>1, WrittenBody
<1> QED
  BY <1>6, <1>7

\* The placeholder of a new upload is put in, over what is selected.
LEMMA PlacedBody ==
    ASSUME NEW text, NEW live, NEW ans, NEW cut, NEW moved, BodyInv(text, live, ans, cut, moved),
           NEW k, k \notin ans, k # AllDrawings,
           \A i \in 1..Len(text) : text[i][1] = "uploading" => text[i][2] # k,
           NEW at \in 0..Len(text), NEW to \in Nat, at <= to,
           NEW r, r = Splice(text, at, to, Placeholder(k))
    PROVE  BodyInv(r, live \cup {k}, ans, cut \cup (Intact(text) \ Intact(r)), moved)
<1> DEFINE new == Placeholder(k)
<1>1. IsText(text) /\ MarksOnce(text) /\ PicturesKnown(text, ans)
  BY DEF BodyInv
<1>2. /\ IsText(new) /\ Len(new) = 2 /\ 1..2 = {1, 2}
      /\ new[1] = <<"uploading", k, 1>> /\ new[2] = <<"uploading", k, 2>>
  BY Marks
<1>3. at \in Nat /\ Len(text) \in Nat
  BY <1>1 DEF IsText
<1>4. Spliced(r, text, at, to, new)
  BY <1>1, <1>2, <1>3, SpliceParts
<1> HIDE DEF new
<1>5. MarksOnce(new) /\ PicturesKnown(new, ans)
  BY <1>2 DEF MarksOnce, PicturesKnown
<1>6. \A i \in 1..Len(text), j \in 1..Len(new) : text[i][1] = "uploading" => text[i] # new[j]
  BY <1>2
<1>7. /\ IsText(r) /\ MarksOnce(r) /\ PicturesKnown(r, ans)
      /\ \A i \in 1..Len(r) : \/ \E j \in 1..Len(text) : text[j] = r[i]
                              \/ \E j \in 1..Len(new) : new[j] = r[i]
  <2>1. IsText(text) /\ IsText(new) /\ at \in Nat
    BY <1>1, <1>2, <1>3
  <2>2. r = Splice(text, at, to, new)
    BY DEF new
  <2> QED
    BY <1>1, <1>5, <1>6, <2>1, <2>2, SplicedMarks
<1>8. WaitsAt(r, k, at)
  <2>1. Behind(text, to) \in Nat
    BY <1>3 DEF Behind
  <2>2. at + 2 <= Len(r) /\ r[at + 1] = new[1] /\ r[at + 2] = new[2]
    BY <1>2, <1>3, <1>4, <2>1 DEF Spliced
  <2> QED
    BY <1>2, <1>3, <2>2 DEF WaitsAt
<1>9. \A i \in 1..Len(r) : r[i][1] = "uploading" /\ r[i][2] \notin {k} =>
            \E j \in 1..Len(text) : text[j] = r[i]
  BY <1>2, <1>7
<1> DEFINE fresh == {k}
<1>10. /\ fresh \cap ans = {} /\ AllDrawings \notin fresh
       /\ \A m \in fresh : \E p : WaitsAt(r, m, p)
       /\ \A i \in 1..Len(r) : r[i][1] = "uploading" /\ r[i][2] \notin fresh =>
            \E j \in 1..Len(text) : text[j] = r[i]
  BY <1>8, <1>9
<1> HIDE DEF fresh
<1>11. IsText(r) /\ MarksOnce(r) /\ PicturesKnown(r, ans)
  BY <1>7
<1>12. BodyInv(r, live \cup fresh, ans, cut \cup (Intact(text) \ Intact(r)), moved)
  <2>1. Grows(text, r, ans, fresh)
    BY <1>10, <1>11 DEF Grows
  <2> QED
    BY <2>1, WrittenBody
<1> QED
  BY <1>12 DEF fresh

\* Where something is taken out, no two marks come together that were apart.
LEMMA SplicedPairs ==
    ASSUME NEW text, IsText(text), NEW new, IsText(new),
           \A i \in 1..Len(new) : new[i][1] # "uploading",
           NEW from \in 0..Len(text), NEW to \in Nat, from < to,
           NEW live, NEW cut, NoneLeft(text, live, cut),
           NEW r, r = Splice(text, from, to, new)
    PROVE  /\ NoneLeft(r, live, cut)
           /\ \A i \in 1..Len(r) : r[i][1] = "uploading" =>
                \E j \in 1..Len(text) : text[j] = r[i] /\ (j <= from \/ to < j)
<1>1. Len(text) \in Nat /\ Len(new) \in Nat /\ from <= to
  BY DEF IsText
<1>2. ASSUME NEW i \in 1..Len(r), r[i][1] = "uploading"
      PROVE  \E j \in 1..Len(text) :
                /\ text[j] = r[i]
                /\ (j <= from /\ i = j) \/ (to < j /\ i = from + Len(new) + (j - to))
  <2>1. Comes(r, i, text, from, to, new)
    BY <1>1, SpliceSource
  <2> QED
    BY <1>2, <2>1 DEF Comes
<1>3. NoneLeft(r, live, cut)
  <2> SUFFICES ASSUME NEW m, m \notin cut, NEW a \in 1..Len(r), NEW b \in 1..Len(r),
                      r[a] = <<"uploading", m, 1>>, r[b] = <<"uploading", m, 2>>
               PROVE  b = a + 1 /\ m \in live
    BY DEF NoneLeft
  <2>1. r[a][1] = "uploading" /\ r[b][1] = "uploading"
    OBVIOUS
  <2>2. PICK c \in 1..Len(text) :
          /\ text[c] = r[a]
          /\ (c <= from /\ a = c) \/ (to < c /\ a = from + Len(new) + (c - to))
    BY <1>2, <2>1
  <2>3. PICK d \in 1..Len(text) :
          /\ text[d] = r[b]
          /\ (d <= from /\ b = d) \/ (to < d /\ b = from + Len(new) + (d - to))
    BY <1>2, <2>1
  <2>4. d = c + 1 /\ m \in live
    BY <2>2, <2>3 DEF NoneLeft
  <2>5. PICK n \in Nat : n = Len(new)
    BY <1>1
  <2>6. CASE c <= from /\ a = c
    <3>1. ~(to < d)
      BY <2>4, <2>6
    <3> QED
      BY <2>3, <2>4, <2>6, <3>1
  <2>7. CASE to < c /\ a = from + Len(new) + (c - to)
    <3>1. ~(d <= from)
      BY <2>4, <2>7
    <3>2. b = from + Len(new) + (d - to)
      BY <2>3, <3>1
    <3>3. b = from + n + (d - to) /\ a = from + n + (c - to)
      BY <2>5, <2>7, <3>2
    <3> QED
      BY <2>4, <3>3
  <2> QED
    BY <2>2, <2>4, <2>6, <2>7
<1> QED
  BY <1>2, <1>3

LEMMA OutcomeParts ==
    ASSUME NEW k, NEW kept \in BOOLEAN, NEW new, new = IF kept THEN Address(k) ELSE <<>>
    PROVE  /\ IsText(new) /\ Len(new) = IF kept THEN 3 ELSE 0
           /\ \A i \in 1..Len(new) : new[i][1] = "picture" /\ kept /\ new[i][2] = k
<1>1. CASE kept
  <2>1. new = Address(k) /\ 1..3 = {1, 2, 3}
    BY <1>1
  <2>2. IsText(new) /\ Len(new) = 3
    BY <2>1, Marks
  <2>3. new[1] = <<"picture", k, 1>> /\ new[2] = <<"picture", k, 2>> /\ new[3] = <<"picture", k, 3>>
    BY <2>1, Marks
  <2>4. \A i \in {1, 2, 3} : new[i][1] = "picture" /\ new[i][2] = k
    BY <2>3
  <2> QED
    BY <1>1, <2>1, <2>2, <2>4
<1>2. CASE ~kept
  <2>1. new = <<>> /\ Len(new) = 0
    BY <1>2
  <2>2. new = [i \in 1..0 |-> new[i]]
    BY <2>1
  <2> QED
    BY <1>2, <2>1, <2>2 DEF IsText
<1> QED
  BY <1>1, <1>2

\* The answer has come: the address takes the place of the placeholder, or nothing does.
LEMMA FilledBody ==
    ASSUME NEW text, NEW live, NEW ans, NEW cut, NEW moved, BodyInv(text, live, ans, cut, moved),
           NEW k \in live, NEW kept \in BOOLEAN,
           NEW new, new = IF kept THEN Address(k) ELSE <<>>,
           NEW ans2, ans2 = IF kept THEN ans \cup {k} ELSE ans,
           NEW r, r = ReplaceFirstSubSeq(new, Placeholder(k), text)
    PROVE  BodyInv(r, live \ {k}, ans2, cut, moved)
<1> DEFINE live2 == live \ {k}
<1>1. /\ IsText(text) /\ MarksOnce(text) /\ PicturesKnown(text, ans)
      /\ NoneLeft(text, live, cut)
      /\ live \cap ans = {} /\ AllDrawings \notin live \cup ans
      /\ ~moved => AllThere(text, live, ans, cut)
  BY DEF BodyInv
<1>2. PicturesKnown(text, ans2) /\ live2 \cap ans2 = {} /\ AllDrawings \notin live2 \cup ans2
  BY <1>1 DEF PicturesKnown
<1>3. Len(text) \in Nat
  BY <1>1 DEF IsText
<1>4. CASE r = text /\ ~Holds(text, Placeholder(k))
  <2>1. \A p : ~WaitsAt(text, k, p)
    BY <1>1, <1>4, Waiting
  <2>2. NoneLeft(text, live2, cut)
    <3> SUFFICES ASSUME NEW m, m \notin cut, NEW p \in 1..Len(text), NEW q \in 1..Len(text),
                        text[p] = <<"uploading", m, 1>>, text[q] = <<"uploading", m, 2>>
                 PROVE  q = p + 1 /\ m \in live2
      BY DEF NoneLeft
    <3>1. q = p + 1 /\ m \in live
      BY <1>1 DEF NoneLeft
    <3>2. WaitsAt(text, m, p - 1)
      BY <1>3, <3>1 DEF WaitsAt
    <3> QED
      BY <2>1, <3>1, <3>2
  <2>3. ~moved => AllThere(text, live2, ans2, cut)
    BY <1>1, <2>1 DEF AllThere
  <2> QED
    BY <1>1, <1>2, <1>4, <2>2, <2>3 DEF BodyInv
<1>5. ASSUME NEW p, WaitsAt(text, k, p), NEW e, e = p + 2, r = Splice(text, p, e, new)
      PROVE  BodyInv(r, live2, ans2, cut, moved)
  <2>1. /\ p \in 0..Len(text) /\ e \in Nat /\ p <= e /\ e <= Len(text) /\ p \in Nat
        /\ p + 1 \in 1..Len(text) /\ e \in 1..Len(text) /\ e = (p + 1) + 1
        /\ text[p + 1] = <<"uploading", k, 1>> /\ text[e] = <<"uploading", k, 2>>
    BY <1>3, <1>5 DEF WaitsAt
  <2>2. /\ IsText(new) /\ (kept => Len(new) = 3) /\ (~kept => Len(new) = 0)
        /\ \A i \in 1..Len(new) : new[i][1] = "picture" /\ kept /\ new[i][2] = k
    BY OutcomeParts
  <2>3. MarksOnce(new) /\ PicturesKnown(new, ans2)
    BY <2>2 DEF MarksOnce, PicturesKnown
  <2>4. \A i \in 1..Len(text), j \in 1..Len(new) : text[i][1] = "uploading" => text[i] # new[j]
    BY <2>2
  <2>5. IsText(r) /\ MarksOnce(r) /\ PicturesKnown(r, ans2)
    <3>1. /\ IsText(text) /\ IsText(new) /\ p \in 0..Len(text) /\ e \in Nat /\ p <= e
          /\ MarksOnce(text) /\ PicturesKnown(text, ans2) /\ r = Splice(text, p, e, new)
      BY <1>1, <1>2, <1>5, <2>1, <2>2
    <3> QED
      BY <2>3, <2>4, <3>1, SplicedMarks
  <2>6. Len(r) \in Nat /\ Len(new) \in Nat
    BY <2>2, <2>5 DEF IsText
  <2>7. /\ NoneLeft(r, live, cut)
        /\ \A i \in 1..Len(r) : r[i][1] = "uploading" =>
              \E j \in 1..Len(text) : text[j] = r[i] /\ (j <= p \/ e < j)
    <3>1. p < e /\ \A i \in 1..Len(new) : new[i][1] # "uploading"
      BY <2>1, <2>2
    <3>2. /\ IsText(text) /\ IsText(new) /\ NoneLeft(text, live, cut)
          /\ p \in 0..Len(text) /\ e \in Nat /\ r = Splice(text, p, e, new)
      BY <1>1, <1>5, <2>1, <2>2
    <3> QED
      BY <3>1, <3>2, SplicedPairs
  <2>8. NoneLeft(r, live2, cut)
    <3> SUFFICES ASSUME NEW m, m \notin cut, NEW a \in 1..Len(r), NEW b \in 1..Len(r),
                        r[a] = <<"uploading", m, 1>>, r[b] = <<"uploading", m, 2>>
                 PROVE  b = a + 1 /\ m \in live2
      BY DEF NoneLeft
    <3>1. b = a + 1 /\ m \in live
      BY <2>7 DEF NoneLeft
    <3>2. m # k
      <4> SUFFICES ASSUME m = k PROVE FALSE
        OBVIOUS
      <4>1. r[a][1] = "uploading"
        OBVIOUS
      <4>2. PICK c \in 1..Len(text) : text[c] = r[a] /\ (c <= p \/ e < c)
        BY <2>7, <4>1
      <4>3. text[c] = text[p + 1] /\ text[c][1] = "uploading"
        BY <2>1, <4>2
      <4>4. c = p + 1
        BY <1>1, <2>1, <4>3 DEF MarksOnce
      <4> QED
        BY <2>1, <4>2, <4>4
    <3> QED
      BY <3>1, <3>2
\* What is in one piece elsewhere does not overlap the placeholder.
  <2>9. ASSUME NEW m \in live2, NEW q, WaitsAt(text, m, q)
        PROVE  \E s : WaitsAt(r, m, s)
    <3>1. /\ q \in Nat /\ text[q + 1] = <<"uploading", m, 1>> /\ text[q + 2] = <<"uploading", m, 2>>
      BY <2>9 DEF WaitsAt
    <3>2. q + 1 # p + 1 /\ q + 1 # e /\ q + 2 # p + 1
      BY <2>1, <2>9, <3>1
    <3>3. q + 2 <= p \/ e <= q
      BY <2>1, <3>1, <3>2
    <3>5. KeepsPieces(r, text, p, e, m)
      BY <1>1, <1>5, <2>1, <2>2, SpliceKeeps
    <3> QED
      BY <2>9, <3>3, <3>5 DEF KeepsPieces
  <2>10. ASSUME NEW m, NEW q, ShownAt(text, m, q)
         PROVE  \E s : ShownAt(r, m, s)
    <3>1. /\ q \in Nat /\ text[q + 1][1] = "picture" /\ text[q + 2][1] = "picture"
          /\ text[q + 3][1] = "picture"
      BY <2>10 DEF ShownAt
    <3>2. text[p + 1][1] = "uploading" /\ text[e][1] = "uploading"
      BY <2>1
    <3>3. q + 1 # p + 1 /\ q + 1 # e /\ q + 2 # p + 1 /\ q + 3 # p + 1
      BY <3>1, <3>2
    <3>4. q + 3 <= p \/ e <= q
      BY <2>1, <3>1, <3>3
    <3>5. KeepsPieces(r, text, p, e, m)
      BY <1>1, <1>5, <2>1, <2>2, SpliceKeeps
    <3> QED
      BY <2>10, <3>4, <3>5 DEF KeepsPieces
  <2>11. kept => ShownAt(r, k, p)
    <3> SUFFICES ASSUME kept PROVE ShownAt(r, k, p)
      OBVIOUS
    <3>1. Spliced(r, text, p, e, new)
      BY <1>1, <1>5, <2>1, <2>2, SpliceParts
    <3>2. Behind(text, e) \in Nat
      BY <1>3, <2>1 DEF Behind
    <3>3. new = Address(k) /\ Len(new) = 3 /\ 1..3 = {1, 2, 3}
      BY <2>2
    <3>4. Len(r) = p + 3 + Behind(text, e) /\ \A i \in 1..3 : r[p + i] = new[i]
      BY <3>1, <3>3 DEF Spliced
    <3>5. p + 3 <= Len(r)
      BY <2>1, <3>2, <3>4
    <3> QED
      BY <2>1, <3>3, <3>4, <3>5, Marks DEF ShownAt
  <2>12. ~moved => AllThere(r, live2, ans2, cut)
    <3> SUFFICES ASSUME ~moved PROVE AllThere(r, live2, ans2, cut)
      OBVIOUS
    <3>1. AllThere(text, live, ans, cut)
      BY <1>1
    <3>2. \A m \in live2 \ cut : \E q : WaitsAt(r, m, q)
      BY <2>9, <3>1 DEF AllThere
    <3>3. \A m \in ans2 \ cut : \E q : ShownAt(r, m, q)
      BY <2>10, <2>11, <3>1 DEF AllThere
    <3> QED
      BY <3>2, <3>3 DEF AllThere
  <2> QED
    BY <1>2, <2>5, <2>8, <2>12 DEF BodyInv
<1>6. \/ r = text /\ ~Holds(text, Placeholder(k))
      \/ \E p : WaitsAt(text, k, p) /\ r = Splice(text, p, p + 2, new)
  BY <1>1, FirstReplaced
<1> QED
  BY <1>4, <1>5, <1>6

LEMMA MinOfTwo ==
    ASSUME NEW a \in Nat, NEW b \in Nat
    PROVE  Min({a, b}) = IF a <= b THEN a ELSE b
<1>1. Min({a, b}) \in {a, b} /\ \A y \in {a, b} : Min({a, b}) <= y
  <2>1. {a, b} \in SUBSET Nat /\ {a, b} # {}
    OBVIOUS
  <2> QED
    BY <2>1, MinOfNats
<1> QED
  BY <1>1

\* The board's drawing takes the place of an old one.
LEMMA ReplacedBody ==
    ASSUME NEW text, NEW live, NEW ans, NEW cut, NEW moved, BodyInv(text, live, ans, cut, moved),
           NEW new, IsText(new), Unmarked(new),
           NEW from \in 0..Len(text), NEW to \in Nat, from < to,
           ~moved => to <= Len(text) /\ text[from + 1][1] = "svg" /\ text[to][1] = "svg",
           NEW gone,
           gone = Intact(SubSeq(text, from + 1, Min({to, Len(text)}))) \ {AllDrawings},
           NEW r, r = Splice(text, from, to, new)
    PROVE  BodyInv(r, live, ans, cut \cup gone, moved)
<1>1. /\ IsText(text) /\ MarksOnce(text) /\ PicturesKnown(text, ans)
      /\ NoneLeft(text, live, cut)
      /\ live \cap ans = {} /\ AllDrawings \notin live \cup ans
      /\ ~moved => AllThere(text, live, ans, cut)
  BY DEF BodyInv
<1>2. Len(text) \in Nat /\ from <= to
  BY <1>1 DEF IsText
<1>3. MarksOnce(new) /\ PicturesKnown(new, ans)
  BY DEF Unmarked, MarksOnce, PicturesKnown
<1>4. \A i \in 1..Len(text), j \in 1..Len(new) : text[i][1] = "uploading" => text[i] # new[j]
  BY DEF Unmarked
<1>5. IsText(r) /\ MarksOnce(r) /\ PicturesKnown(r, ans)
  BY <1>1, <1>2, <1>3, <1>4, SplicedMarks
<1>6. NoneLeft(r, live, cut)
  <2>1. \A i \in 1..Len(new) : new[i][1] # "uploading"
    BY DEF Unmarked
  <2>2. /\ NoneLeft(r, live, cut)
        /\ \A i \in 1..Len(r) : r[i][1] = "uploading" =>
              \E j \in 1..Len(text) : text[j] = r[i] /\ (j <= from \/ to < j)
    BY <1>1, <2>1, SplicedPairs
  <2> QED
    BY <2>2
<1>7. NoneLeft(r, live, cut \cup gone)
  BY <1>6 DEF NoneLeft
<1>8. ASSUME ~moved
      PROVE  AllThere(r, live, ans, cut \cup gone)
  <2> DEFINE old == SubSeq(text, from + 1, to)
  <2>1. to <= Len(text) /\ text[from + 1][1] = "svg" /\ text[to][1] = "svg"
    BY <1>8
  <2>2. Min({to, Len(text)}) = to
    BY <1>2, <2>1, MinOfTwo
  <2>3. gone = Intact(old) \ {AllDrawings}
    BY <2>2
  <2>4. from \in 0..Len(text) /\ to \in from..Len(text)
    BY <1>2, <2>1
  <2>5. IsText(old) /\ Len(old) = to - from /\ \A i \in 1..(to - from) : old[i] = text[from + i]
    BY <1>1, <2>4, PieceOfText
  <2> HIDE DEF old
  <2>6. ASSUME NEW k \in live \ (cut \cup gone), NEW p, WaitsAt(text, k, p)
        PROVE  \E q : WaitsAt(r, k, q)
    <3>1. /\ p \in Nat /\ p + 2 <= Len(text)
          /\ text[p + 1] = <<"uploading", k, 1>> /\ text[p + 2] = <<"uploading", k, 2>>
      BY <2>6 DEF WaitsAt
    <3>2. p + 1 # from + 1 /\ p + 2 # from + 1 /\ p + 1 # to /\ p + 2 # to
      BY <2>1, <3>1
    <3>3. CASE from < p + 2 /\ p < to
      <4>1. p - from \in Nat /\ (p - from) + 2 <= to - from
            /\ (p - from) + 1 \in 1..(to - from) /\ (p - from) + 2 \in 1..(to - from)
            /\ from + ((p - from) + 1) = p + 1 /\ from + ((p - from) + 2) = p + 2
        BY <1>2, <3>1, <3>2, <3>3
      <4>2. /\ old[(p - from) + 1] = text[from + ((p - from) + 1)]
            /\ old[(p - from) + 2] = text[from + ((p - from) + 2)]
        <5>1. \A i \in 1..(to - from) : old[i] = text[from + i]
          BY <2>5
        <5>2. (p - from) + 1 \in 1..(to - from) /\ (p - from) + 2 \in 1..(to - from)
          BY <4>1
        <5> QED
          BY <5>1, <5>2, Zenon
      <4>3. WaitsAt(old, k, p - from)
        BY <2>5, <3>1, <4>1, <4>2 DEF WaitsAt
      <4>4. k # AllDrawings
        BY <1>1
      <4>5. k \in Intact(old)
        BY <2>5, <4>3, <4>4, IntactParts
      <4> QED
        BY <2>3, <4>4, <4>5
    <3>4. CASE p + 2 <= from \/ to <= p
      <4>1. KeepsPieces(r, text, from, to, k)
        BY <1>1, <1>2, SpliceKeeps
      <4> QED
        BY <2>6, <3>4, <4>1 DEF KeepsPieces
    <3> QED
      BY <1>2, <3>1, <3>3, <3>4
  <2>7. ASSUME NEW k \in ans \ (cut \cup gone), NEW p, ShownAt(text, k, p)
        PROVE  \E q : ShownAt(r, k, q)
    <3>1. /\ p \in Nat /\ p + 3 <= Len(text) /\ text[p + 1] = <<"picture", k, 1>>
          /\ text[p + 2] = <<"picture", k, 2>> /\ text[p + 3] = <<"picture", k, 3>>
      BY <2>7 DEF ShownAt
    <3>2. /\ p + 1 # from + 1 /\ p + 2 # from + 1 /\ p + 3 # from + 1
          /\ p + 1 # to /\ p + 2 # to /\ p + 3 # to
      BY <2>1, <3>1
    <3>3. CASE from < p + 3 /\ p < to
      <4>1. /\ p - from \in Nat /\ (p - from) + 3 <= to - from
            /\ (p - from) + 1 \in 1..(to - from) /\ (p - from) + 2 \in 1..(to - from)
            /\ (p - from) + 3 \in 1..(to - from)
            /\ from + ((p - from) + 1) = p + 1 /\ from + ((p - from) + 2) = p + 2
            /\ from + ((p - from) + 3) = p + 3
        BY <1>2, <3>1, <3>2, <3>3
      <4>2. /\ old[(p - from) + 1] = text[p + 1] /\ old[(p - from) + 2] = text[p + 2]
            /\ old[(p - from) + 3] = text[p + 3]
        <5>1. ASSUME NEW i \in {1, 2, 3}
              PROVE  old[(p - from) + i] = text[p + i]
          <6>1. PICK j \in 1..(to - from) : j = (p - from) + i
            BY <4>1
          <6>2. from + j = p + i
            BY <1>2, <3>1, <6>1
          <6> QED
            BY <2>5, <6>1, <6>2
        <5> QED
          BY <5>1
      <4>3. ShownAt(old, k, p - from)
        <5>1. p - from \in Nat /\ (p - from) + 3 <= Len(old)
          BY <2>5, <4>1
        <5>2. /\ old[(p - from) + 1] = <<"picture", k, 1>>
              /\ old[(p - from) + 2] = <<"picture", k, 2>>
              /\ old[(p - from) + 3] = <<"picture", k, 3>>
          BY <3>1, <4>2
        <5> QED
          BY <5>1, <5>2 DEF ShownAt
      <4>4. k # AllDrawings
        BY <1>1
      <4>5. k \in Intact(old)
        BY <2>5, <4>3, <4>4, IntactParts
      <4> QED
        BY <2>3, <4>4, <4>5
    <3>4. CASE p + 3 <= from \/ to <= p
      <4>1. KeepsPieces(r, text, from, to, k)
        BY <1>1, <1>2, SpliceKeeps
      <4> QED
        BY <2>7, <3>4, <4>1 DEF KeepsPieces
    <3> QED
      BY <1>2, <3>1, <3>3, <3>4
  <2>8. AllThere(text, live, ans, cut)
    BY <1>1, <1>8
  <2>9. \A k \in live \ (cut \cup gone) : \E q : WaitsAt(r, k, q)
    BY <2>6, <2>8 DEF AllThere
  <2>10. \A k \in ans \ (cut \cup gone) : \E q : ShownAt(r, k, q)
    BY <2>7, <2>8 DEF AllThere
  <2> QED
    BY <2>9, <2>10 DEF AllThere
<1> QED
  BY <1>1, <1>5, <1>7, <1>8 DEF BodyInv

-----------------------------------------------------------------------------
(* Drawings: their marks alternate *)

IsSvg(mark) == mark \in {SvgOpen, SvgClose}

Pair(text, i, j) ==
    /\ i \in 1..Len(text) /\ j \in 1..Len(text) /\ i < j
    /\ text[i] = SvgOpen /\ text[j] = SvgClose
    /\ \A m \in 1..Len(text) : i < m /\ m < j => ~IsSvg(text[m])

Alternates(text) ==
    \A i \in 1..Len(text) :
        /\ text[i] = SvgOpen => \E j : Pair(text, i, j)
        /\ text[i] = SvgClose => \E j : Pair(text, j, i)

\* Where a mark that is left alone by a splice is then.
Place(i, from, to, n) == IF i <= from THEN i ELSE from + n + (i - to)

\* A mark that the splice leaves alone is at its new place.
LEMMA Placed ==
    ASSUME NEW text, IsText(text), NEW new, IsText(new), NEW n \in Nat, n = Len(new),
           NEW from \in 0..Len(text), NEW to \in Nat, from <= to,
           NEW i \in 1..Len(text), i <= from \/ to < i,
           NEW r, r = Splice(text, from, to, new)
    PROVE  Place(i, from, to, n) \in 1..Len(r) /\ r[Place(i, from, to, n)] = text[i]
<1>1. /\ Len(r) = from + n + Behind(text, to)
      /\ \A j \in 1..from : r[j] = text[j]
      /\ \A j \in 1..Behind(text, to) : r[from + n + j] = text[to + j]
  <2>1. Spliced(r, text, from, to, new)
    BY SpliceParts
  <2> QED
    BY <2>1 DEF Spliced
<1>2. Len(text) \in Nat
  BY DEF IsText
<1>3. Behind(text, to) \in Nat
  BY <1>2 DEF Behind
<1>4. CASE i <= from
  BY <1>1, <1>2, <1>3, <1>4 DEF Place
<1>5. CASE to < i
  <2>1. PICK j \in 1..Behind(text, to) : j = i - to
    BY <1>2, <1>5 DEF Behind
  <2>2. ~(i <= from) /\ to + j = i /\ Place(i, from, to, n) = from + n + j
    BY <1>2, <1>5, <2>1 DEF Place
  <2>3. from + n + j \in 1..Len(r)
    <3>1. PICK l \in Nat : l = Behind(text, to) /\ j \in 1..l /\ Len(r) = from + n + l
      BY <1>1, <1>3, <2>1
    <3>2. from \in Nat /\ from + n + j \in 1..(from + n + l)
      BY <1>2, <3>1
    <3> QED
      BY <3>1, <3>2
  <2> QED
    BY <1>1, <2>1, <2>2, <2>3
<1> QED
  BY <1>4, <1>5

\* A pair that a splice leaves alone is one afterwards, unless a drawing comes between.
LEMMA PairMoves ==
    ASSUME NEW text, IsText(text), NEW new, IsText(new), NEW n \in Nat, n = Len(new),
           NEW from \in 0..Len(text), NEW to \in Nat, from <= to,
           NEW i, NEW j, Pair(text, i, j), i <= from \/ to < i, j <= from \/ to < j,
           (\E s \in 1..n : IsSvg(new[s])) =>
                \E s \in 1..Len(text) : from < s /\ s <= to /\ IsSvg(text[s]),
           NEW r, r = Splice(text, from, to, new)
    PROVE  Pair(r, Place(i, from, to, n), Place(j, from, to, n))
<1>1. PICK a : a = Place(i, from, to, n)
  OBVIOUS
<1>2. PICK b : b = Place(j, from, to, n)
  OBVIOUS
<1>3. Len(text) \in Nat /\ i \in 1..Len(text) /\ j \in 1..Len(text) /\ i < j
  BY DEF IsText, Pair
<1>4. /\ a \in 1..Len(r) /\ b \in 1..Len(r) /\ r[a] = SvgOpen /\ r[b] = SvgClose
  BY <1>1, <1>2, <1>3, Placed DEF Pair
<1>5. /\ (i <= from /\ a = i) \/ (to < i /\ ~(i <= from) /\ a = from + n + (i - to))
      /\ (j <= from /\ b = j) \/ (to < j /\ ~(j <= from) /\ b = from + n + (j - to))
  BY <1>1, <1>2, <1>3 DEF Place
<1>6. a < b
  BY <1>3, <1>5
<1>7. ASSUME NEW m \in 1..Len(r), a < m, m < b
      PROVE  ~IsSvg(r[m])
  <2>1. \A s \in 1..Len(text) : i < s /\ s < j => ~IsSvg(text[s])
    BY DEF Pair
  <2>2. Comes(r, m, text, from, to, new)
    BY SpliceSource
  <2>3. m \in Nat
    OBVIOUS
  <2>4. CASE m <= from /\ m \in 1..Len(text) /\ r[m] = text[m]
    <3>1. i < m /\ m < j
      BY <1>3, <1>5, <1>7, <2>3, <2>4
    <3> QED
      BY <2>1, <2>4, <3>1
  <2>5. CASE from < m /\ m - from \in 1..n /\ r[m] = new[m - from]
    <3>1. i <= from /\ to < j
      BY <1>3, <1>5, <1>7, <2>3, <2>5
    <3>2. \A s \in 1..Len(text) : from < s /\ s <= to => ~IsSvg(text[s])
      BY <1>3, <2>1, <3>1
    <3> QED
      BY <2>5, <3>2
  <2>6. ASSUME NEW s \in 1..Len(text), to < s, m = from + n + (s - to), r[m] = text[s]
        PROVE  ~IsSvg(r[m])
    <3>1. i < s /\ s < j
      BY <1>3, <1>5, <1>7, <2>3, <2>6
    <3> QED
      BY <2>1, <2>6, <3>1
  <2> QED
    BY <2>2, <2>4, <2>5, <2>6 DEF Comes
<1> QED
  BY <1>1, <1>2, <1>4, <1>6, <1>7 DEF Pair

\* And so is a pair of what is put in.
LEMMA PairComes ==
    ASSUME NEW text, IsText(text), NEW new, IsText(new), NEW n \in Nat, n = Len(new),
           NEW from \in 0..Len(text), NEW to \in Nat, from <= to,
           NEW i, NEW j, Pair(new, i, j),
           NEW r, r = Splice(text, from, to, new)
    PROVE  Pair(r, from + i, from + j)
<1>1. /\ Len(r) = from + n + Behind(text, to)
      /\ \A m \in 1..n : r[from + m] = new[m]
  <2>1. Spliced(r, text, from, to, new)
    BY SpliceParts
  <2> QED
    BY <2>1 DEF Spliced
<1>2. Len(text) \in Nat
  BY DEF IsText
<1>3. Behind(text, to) \in Nat
  BY <1>2 DEF Behind
<1>4. /\ i \in 1..n /\ j \in 1..n /\ i < j /\ new[i] = SvgOpen /\ new[j] = SvgClose
      /\ \A m \in 1..n : i < m /\ m < j => ~IsSvg(new[m])
  BY DEF Pair
<1>5. from + i \in 1..Len(r) /\ from + j \in 1..Len(r) /\ from + i < from + j
  BY <1>1, <1>2, <1>3, <1>4
<1>6. ASSUME NEW m \in 1..Len(r), from + i < m, m < from + j
      PROVE  ~IsSvg(r[m])
  <2>1. PICK s \in 1..n : m = from + s /\ i < s /\ s < j
    <3>1. m - from \in 1..n /\ m = from + (m - from) /\ i < m - from /\ m - from < j
      BY <1>2, <1>4, <1>6
    <3> QED
      BY <3>1
  <2> QED
    BY <1>1, <1>4, <2>1
<1> QED
  BY <1>1, <1>4, <1>5, <1>6 DEF Pair

\* Opening and closing marks alternate after a splice, if they did in both texts.
LEMMA SplicedAlternates ==
    ASSUME NEW text, IsText(text), NEW new, IsText(new), NEW n \in Nat, n = Len(new),
           NEW from \in 0..Len(text), NEW to \in Nat, from <= to,
           Alternates(text), Alternates(new),
           \A i, j : Pair(text, i, j) => (i <= from \/ to < i <=> j <= from \/ to < j),
           (\E s \in 1..n : IsSvg(new[s])) =>
                \E s \in 1..Len(text) : from < s /\ s <= to /\ IsSvg(text[s]),
           NEW r, r = Splice(text, from, to, new)
    PROVE  Alternates(r)
<1>1. Len(text) \in Nat
  BY DEF IsText
<1>2. ASSUME NEW i, NEW j, Pair(text, i, j), i <= from \/ to < i \/ j <= from \/ to < j
      PROVE  Pair(r, Place(i, from, to, n), Place(j, from, to, n))
  <2>1. (i <= from \/ to < i) /\ (j <= from \/ to < j)
    BY <1>2
  <2> QED
    BY <1>2, <2>1, PairMoves
<1>3. ASSUME NEW i, NEW j, Pair(new, i, j)
      PROVE  Pair(r, from + i, from + j)
  BY <1>3, PairComes
<1> SUFFICES ASSUME NEW a \in 1..Len(r)
             PROVE  /\ r[a] = SvgOpen => \E b : Pair(r, a, b)
                    /\ r[a] = SvgClose => \E b : Pair(r, b, a)
  BY DEF Alternates
<1>4. Comes(r, a, text, from, to, new)
  BY SpliceSource
<1>5. ASSUME NEW i \in 1..Len(text), i <= from \/ to < i, a = Place(i, from, to, n), r[a] = text[i]
      PROVE  /\ r[a] = SvgOpen => \E b : Pair(r, a, b)
             /\ r[a] = SvgClose => \E b : Pair(r, b, a)
  <2>1. ASSUME r[a] = SvgOpen PROVE \E b : Pair(r, a, b)
    <3>1. PICK j : Pair(text, i, j)
      BY <1>5, <2>1 DEF Alternates
    <3>2. Pair(r, a, Place(j, from, to, n))
      BY <1>2, <1>5, <3>1
    <3> QED
      BY <3>2
  <2>2. ASSUME r[a] = SvgClose PROVE \E b : Pair(r, b, a)
    <3>1. PICK j : Pair(text, j, i)
      BY <1>5, <2>2 DEF Alternates
    <3>2. Pair(r, Place(j, from, to, n), a)
      BY <1>2, <1>5, <3>1
    <3> QED
      BY <3>2
  <2> QED
    BY <2>1, <2>2
<1>6. CASE a <= from /\ a \in 1..Len(text) /\ r[a] = text[a]
  <2>1. a = Place(a, from, to, n)
    BY <1>6 DEF Place
  <2> QED
    BY <1>5, <1>6, <2>1
<1>7. ASSUME NEW i \in 1..Len(text), to < i, a = from + n + (i - to), r[a] = text[i]
      PROVE  /\ r[a] = SvgOpen => \E b : Pair(r, a, b)
             /\ r[a] = SvgClose => \E b : Pair(r, b, a)
  <2>1. a = Place(i, from, to, n)
    BY <1>1, <1>7 DEF Place
  <2> QED
    BY <1>5, <1>7, <2>1
<1>8. ASSUME from < a, a - from \in 1..n, r[a] = new[a - from]
      PROVE  /\ r[a] = SvgOpen => \E b : Pair(r, a, b)
             /\ r[a] = SvgClose => \E b : Pair(r, b, a)
  <2>1. PICK i \in 1..n : i = a - from
    BY <1>8
  <2>2. a = from + i
    BY <2>1
  <2>3. ASSUME r[a] = SvgOpen PROVE \E b : Pair(r, a, b)
    <3>1. PICK j : Pair(new, i, j)
      BY <1>8, <2>1, <2>3 DEF Alternates
    <3>2. Pair(r, a, from + j)
      BY <1>3, <2>2, <3>1
    <3> QED
      BY <3>2
  <2>4. ASSUME r[a] = SvgClose PROVE \E b : Pair(r, b, a)
    <3>1. PICK j : Pair(new, j, i)
      BY <1>8, <2>1, <2>4 DEF Alternates
    <3>2. Pair(r, from + j, a)
      BY <1>3, <2>2, <3>1
    <3> QED
      BY <3>2
  <2> QED
    BY <2>3, <2>4
<1> QED
  BY <1>4, <1>6, <1>7, <1>8 DEF Comes

\* What is put in and taken out has no drawing.
LEMMA PlainAlternates ==
    ASSUME NEW text, IsText(text), NEW new, IsText(new),
           NEW from \in 0..Len(text), NEW to \in Nat, from <= to,
           Alternates(text),
           \A i \in 1..Len(new) : ~IsSvg(new[i]),
           \A i \in 1..Len(text) : from < i /\ i <= to => ~IsSvg(text[i]),
           NEW r, r = Splice(text, from, to, new)
    PROVE  Alternates(r)
<1>1. PICK n \in Nat : n = Len(new)
  BY DEF IsText
<1>2. Alternates(new)
  BY DEF Alternates, IsSvg
<1>3. ASSUME NEW i, NEW j, Pair(text, i, j)
      PROVE  i <= from \/ to < i <=> j <= from \/ to < j
  <2>1. i \in 1..Len(text) /\ j \in 1..Len(text) /\ IsSvg(text[i]) /\ IsSvg(text[j])
    BY <1>3 DEF Pair, IsSvg
  <2>2. ~(from < i /\ i <= to) /\ ~(from < j /\ j <= to)
    BY <2>1
  <2> QED
    BY <2>1, <2>2
<1>4. ~\E s \in 1..n : IsSvg(new[s])
  BY <1>1
<1> QED
  BY <1>1, <1>2, <1>3, <1>4, SplicedAlternates

\* From an opening mark to the next closing one.
Block(text, from, to) ==
    /\ from \in Nat /\ to \in Nat /\ from + 2 <= to /\ to <= Len(text)
    /\ text[from + 1] = SvgOpen /\ text[to] = SvgClose
    /\ \A m \in 1..Len(text) : from + 1 < m /\ m < to => text[m] # SvgClose

LEMMA DrawingParts ==
    ASSUME NEW shapes
    PROVE  IsText(Drawing(shapes)) /\ Unmarked(Drawing(shapes)) /\ Alternates(Drawing(shapes))
<1> DEFINE d == Drawing(shapes)
<1>1. PICK x : d = <<SvgOpen, <<"shapes", x, 1>>, SvgClose>>
  BY DEF Drawing
<1> HIDE DEF d
<1>2. /\ Len(d) = 3 /\ 1..3 = {1, 2, 3}
      /\ d[1] = SvgOpen /\ d[2] = <<"shapes", x, 1>> /\ d[3] = SvgClose
  BY <1>1
<1>3. IsText(d)
  <2>1. d = [i \in 1..3 |-> d[i]]
    BY <1>1
  <2> QED
    BY <1>2, <2>1 DEF IsText
<1>4. Unmarked(d)
  BY <1>2 DEF Unmarked, SvgOpen, SvgClose
<1>5. d[2] # SvgOpen /\ d[2] # SvgClose /\ SvgOpen # SvgClose
  BY <1>2 DEF SvgOpen, SvgClose
<1>6. Pair(d, 1, 3)
  BY <1>2, <1>5 DEF Pair, IsSvg
<1>7. Alternates(d)
  <2>1. \A i \in {1, 2, 3} : /\ d[i] = SvgOpen => i = 1
                             /\ d[i] = SvgClose => i = 3
    BY <1>2, <1>5
  <2> QED
    BY <1>2, <1>6, <2>1 DEF Alternates
<1> QED
  BY <1>3, <1>4, <1>7 DEF d

\* The board's drawing takes the place of an old one, or is put in.
LEMMA DrawnAlternates ==
    ASSUME NEW text, IsText(text), NEW shapes, NEW from, NEW to, Block(text, from, to),
           Alternates(text),
           NEW r, r = Splice(text, from, to, Drawing(shapes))
    PROVE  Alternates(r)
<1>1. /\ from \in 0..Len(text) /\ to \in Nat /\ from <= to /\ Len(text) \in Nat /\ from \in Nat
      /\ from + 1 \in 1..Len(text) /\ to \in 1..Len(text) /\ from + 1 < to
      /\ text[from + 1] = SvgOpen /\ text[to] = SvgClose
      /\ \A m \in 1..Len(text) : from + 1 < m /\ m < to => text[m] # SvgClose
  BY DEF Block, IsText
<1>2. PICK start \in 1..Len(text) : start = from + 1
  BY <1>1
<1>3. Pair(text, start, to)
  <2>1. PICK j : Pair(text, start, j)
    BY <1>1, <1>2 DEF Alternates
  <2>2. j \in 1..Len(text) /\ start < j /\ text[j] = SvgClose
        /\ \A m \in 1..Len(text) : start < m /\ m < j => ~IsSvg(text[m])
    BY <2>1 DEF Pair
  <2>3. ~(to < j)
    BY <1>1, <1>2, <2>2 DEF IsSvg
  <2>4. ~(j < to)
    BY <1>1, <1>2, <2>2
  <2>5. j = to
    BY <1>1, <2>2, <2>3, <2>4
  <2> QED
    BY <2>1, <2>5
<1>4. \A m \in 1..Len(text) : start < m /\ m < to => ~IsSvg(text[m])
  BY <1>3 DEF Pair
<1>5. ASSUME NEW i, NEW j, Pair(text, i, j)
      PROVE  i <= from \/ to < i <=> j <= from \/ to < j
  <2>1. /\ i \in 1..Len(text) /\ j \in 1..Len(text) /\ i < j
        /\ text[i] = SvgOpen /\ text[j] = SvgClose /\ SvgOpen # SvgClose
        /\ \A m \in 1..Len(text) : i < m /\ m < j => ~IsSvg(text[m])
    BY <1>5 DEF Pair, SvgOpen, SvgClose
  <2>2. ~(i < start /\ start < j) /\ ~(i < to /\ to < j)
    BY <1>1, <1>2, <2>1 DEF IsSvg
  <2>3. ~(start < i /\ i < to) /\ ~(start < j /\ j < to) /\ i # to /\ j # start
    BY <1>1, <1>2, <1>4, <2>1 DEF IsSvg
  <2> QED
    BY <1>1, <1>2, <2>1, <2>2, <2>3
<1>6. \E s \in 1..Len(text) : from < s /\ s <= to /\ IsSvg(text[s])
  BY <1>1 DEF IsSvg
<1>7. IsText(Drawing(shapes)) /\ Alternates(Drawing(shapes))
  BY DrawingParts
<1>8. PICK n \in Nat : n = Len(Drawing(shapes))
  BY <1>7 DEF IsText
<1> QED
  BY <1>1, <1>5, <1>6, <1>7, <1>8, SplicedAlternates

\* The next closing mark.
ClosesAt(text, i, c) ==
    /\ c \in 1..Len(text) /\ i <= c /\ text[c] = SvgClose
    /\ \A m \in 1..Len(text) : i <= m /\ m < c => text[m] # SvgClose

Starts(text, i, c) == i \in 1..Len(text) /\ text[i] = SvgOpen /\ ClosesAt(text, i, c)

\* A block that is opened ends at the next closing mark.
LEMMA NextClose ==
    ASSUME NEW text, IsText(text), NEW i \in 1..Len(text),
           NEW C, C = {j \in i..Len(text) : text[j] = SvgClose}
    PROVE  /\ C # {} => ClosesAt(text, i, Min(C))
           /\ \A c : ClosesAt(text, i, c) => C # {} /\ Min(C) = c
<1>1. Len(text) \in Nat
  BY DEF IsText
<1>2. C \in SUBSET Nat
  BY <1>1
<1>3. ASSUME C # {}
      PROVE  Min(C) \in C /\ \A m \in C : Min(C) <= m
  BY <1>2, <1>3, MinOfNats
<1>4. ASSUME C # {}
      PROVE  ClosesAt(text, i, Min(C))
  <2>1. PICK c : c = Min(C)
    OBVIOUS
  <2>2. c \in C /\ \A m \in C : c <= m
    BY <1>3, <1>4, <2>1
  <2>3. c \in 1..Len(text) /\ i <= c /\ text[c] = SvgClose
    BY <1>1, <2>2
  <2>4. \A m \in 1..Len(text) : i <= m /\ m < c => text[m] # SvgClose
    <3> SUFFICES ASSUME NEW m \in 1..Len(text), i <= m, m < c, text[m] = SvgClose
                 PROVE  FALSE
      OBVIOUS
    <3>1. m \in C
      BY <1>1
    <3> QED
      BY <2>2, <2>3, <3>1
  <2> QED
    BY <2>1, <2>3, <2>4 DEF ClosesAt
<1>5. ASSUME NEW c, ClosesAt(text, i, c)
      PROVE  C # {} /\ Min(C) = c
  <2>1. /\ c \in 1..Len(text) /\ i <= c /\ text[c] = SvgClose
        /\ \A m \in 1..Len(text) : i <= m /\ m < c => text[m] # SvgClose
    BY <1>5 DEF ClosesAt
  <2>2. c \in C
    BY <1>1, <2>1
  <2>3. PICK d : d = Min(C)
    OBVIOUS
  <2>4. d \in C /\ d <= c
    BY <1>3, <2>2, <2>3
  <2>5. d \in 1..Len(text) /\ i <= d /\ text[d] = SvgClose
    BY <1>1, <2>4
  <2>6. d = c
    BY <2>1, <2>4, <2>5
  <2> QED
    BY <2>2, <2>3, <2>6
<1> QED
  BY <1>4, <1>5

\* The blocks that findSvgBlocks finds: none is opened inside another.
LEMMA BlocksOf ==
    ASSUME NEW text, IsText(text), NEW b
    PROVE  b \in SvgBlocks(text) <=>
            \E i, c : /\ Starts(text, i, c) /\ b = <<i - 1, c>>
                      /\ \A j, d : Starts(text, j, d) => ~(j < i /\ i - 1 < d)
<1> DEFINE CloseOf(i) == {j \in i..Len(text) : text[j] = SvgClose}
           Opens == {j \in DOMAIN text : text[j] = SvgOpen /\ CloseOf(j) # {}}
           Ends == {<<i - 1, Min(CloseOf(i))>> : i \in Opens}
<1>1. SvgBlocks(text) = {e \in Ends : \A c \in Ends : ~(c[1] < e[1] /\ e[1] < c[2])}
  BY DEF SvgBlocks
<1>2. DOMAIN text = 1..Len(text) /\ Len(text) \in Nat
  BY TextDomain
<1> HIDE DEF CloseOf
<1>3. \A i \in 1..Len(text) : /\ CloseOf(i) # {} => ClosesAt(text, i, Min(CloseOf(i)))
                              /\ \A c : ClosesAt(text, i, c) =>
                                    CloseOf(i) # {} /\ Min(CloseOf(i)) = c
  BY NextClose DEF CloseOf
<1>4. \A e : e \in Ends <=> \E i, c : Starts(text, i, c) /\ e = <<i - 1, c>>
  <2>1. ASSUME NEW e \in Ends
        PROVE  \E i, c : Starts(text, i, c) /\ e = <<i - 1, c>>
    <3>1. PICK i \in Opens : e = <<i - 1, Min(CloseOf(i))>>
      OBVIOUS
    <3>2. Starts(text, i, Min(CloseOf(i)))
      BY <1>2, <1>3, <3>1 DEF Starts
    <3> QED
      BY <3>1, <3>2
  <2>2. ASSUME NEW i, NEW c, Starts(text, i, c)
        PROVE  <<i - 1, c>> \in Ends
    <3>1. i \in 1..Len(text) /\ text[i] = SvgOpen /\ ClosesAt(text, i, c)
      BY <2>2 DEF Starts
    <3>2. i \in Opens /\ c = Min(CloseOf(i))
      BY <1>2, <1>3, <3>1
    <3> QED
      BY <3>2
  <2> QED
    BY <2>1, <2>2
<1> HIDE DEF Ends, Opens
<1>5. \A j : j \in Nat => <<j - 1, j>>[1] = j - 1
  OBVIOUS
<1>6. ASSUME NEW i, NEW c, Starts(text, i, c), b = <<i - 1, c>>
      PROVE  (\A e \in Ends : ~(e[1] < b[1] /\ b[1] < e[2]))
                <=> \A j, d : Starts(text, j, d) => ~(j < i /\ i - 1 < d)
  <2>1. i \in 1..Len(text) /\ b[1] = i - 1
    BY <1>6 DEF Starts
  <2>2. ASSUME NEW j, NEW d, Starts(text, j, d)
        PROVE  /\ <<j - 1, d>> \in Ends /\ <<j - 1, d>>[1] = j - 1 /\ <<j - 1, d>>[2] = d
               /\ j - 1 < b[1] <=> j < i
    <3>1. j \in 1..Len(text)
      BY <2>2 DEF Starts
    <3>2. <<j - 1, d>> \in Ends
      BY <1>4, <2>2
    <3> QED
      BY <1>2, <2>1, <3>1, <3>2
  <2>3. ASSUME \A e \in Ends : ~(e[1] < b[1] /\ b[1] < e[2]),
               NEW j, NEW d, Starts(text, j, d)
        PROVE  ~(j < i /\ i - 1 < d)
    <3>1. PICK e \in Ends : e[1] = j - 1 /\ e[2] = d
      BY <2>2, <2>3
    <3> QED
      BY <2>1, <2>2, <2>3, <3>1
  <2>4. ASSUME \A j, d : Starts(text, j, d) => ~(j < i /\ i - 1 < d), NEW e \in Ends
        PROVE  ~(e[1] < b[1] /\ b[1] < e[2])
    <3>1. PICK j, d : Starts(text, j, d) /\ e = <<j - 1, d>>
      BY <1>4
    <3> QED
      BY <2>1, <2>2, <2>4, <3>1
  <2> QED
    BY <2>3, <2>4
<1> QED
  BY <1>1, <1>4, <1>6

\* Every mark of a drawing is that of a block: the marks alternate.
LEMMA BalancedText ==
    ASSUME NEW text, IsText(text)
    PROVE  Balanced(text) <=> Alternates(text)
<1>1. DOMAIN text = 1..Len(text) /\ Len(text) \in Nat /\ SvgOpen # SvgClose
  BY DEF IsText, SvgOpen, SvgClose
<1>2. ASSUME NEW i, NEW c, Starts(text, i, c)
      PROVE  /\ i \in 1..Len(text) /\ c \in 1..Len(text) /\ i < c
             /\ text[i] = SvgOpen /\ text[c] = SvgClose
             /\ \A m \in 1..Len(text) : i <= m /\ m < c => text[m] # SvgClose
  <2>1. /\ i \in 1..Len(text) /\ c \in 1..Len(text) /\ i <= c
        /\ text[i] = SvgOpen /\ text[c] = SvgClose
        /\ \A m \in 1..Len(text) : i <= m /\ m < c => text[m] # SvgClose
    BY <1>2 DEF Starts, ClosesAt
  <2>2. i # c
    BY <1>1, <2>1
  <2> QED
    BY <2>1, <2>2
<1>3. ASSUME Balanced(text), NEW i \in 1..Len(text), IsSvg(text[i])
      PROVE  \E j, c : /\ Starts(text, j, c) /\ i \in {j, c}
                       /\ \A s, d : Starts(text, s, d) => ~(s < j /\ j - 1 < d)
  <2>1. PICK b \in SvgBlocks(text) : i \in {b[1] + 1, b[2]}
    BY <1>1, <1>3 DEF Balanced, IsSvg
  <2>2. PICK j, c : /\ Starts(text, j, c) /\ b = <<j - 1, c>>
                    /\ \A s, d : Starts(text, s, d) => ~(s < j /\ j - 1 < d)
    BY <2>1, BlocksOf
  <2>3. b[1] = j - 1 /\ b[2] = c /\ j \in 1..Len(text)
    BY <1>2, <2>2
  <2>4. b[1] + 1 = j
    BY <1>1, <2>3
  <2> QED
    BY <2>1, <2>2, <2>3, <2>4
<1>4. ASSUME Balanced(text), NEW i, NEW c, Starts(text, i, c)
      PROVE  Pair(text, i, c)
  <2>1. /\ i \in 1..Len(text) /\ c \in 1..Len(text) /\ i < c
        /\ text[i] = SvgOpen /\ text[c] = SvgClose
        /\ \A m \in 1..Len(text) : i <= m /\ m < c => text[m] # SvgClose
    BY <1>2, <1>4
  <2>2. ASSUME NEW m \in 1..Len(text), i < m, m < c, IsSvg(text[m])
        PROVE  FALSE
    <3>1. text[m] = SvgOpen
      BY <2>1, <2>2 DEF IsSvg
    <3>2. PICK j, d : /\ Starts(text, j, d) /\ m \in {j, d}
                      /\ \A s, e : Starts(text, s, e) => ~(s < j /\ j - 1 < e)
      BY <1>3, <1>4, <2>2
    <3>3. m = j
      BY <1>1, <1>2, <3>1, <3>2
    <3> QED
      BY <1>1, <1>4, <2>1, <2>2, <3>2, <3>3
  <2> QED
    BY <2>1, <2>2 DEF Pair
<1>5. ASSUME Balanced(text) PROVE Alternates(text)
  <2> SUFFICES ASSUME NEW i \in 1..Len(text)
               PROVE  /\ text[i] = SvgOpen => \E j : Pair(text, i, j)
                      /\ text[i] = SvgClose => \E j : Pair(text, j, i)
    BY DEF Alternates
  <2>1. CASE IsSvg(text[i])
    <3>1. PICK j, c : Starts(text, j, c) /\ i \in {j, c}
      BY <1>3, <1>5, <2>1
    <3>2. Pair(text, j, c)
      BY <1>4, <1>5, <3>1
    <3>3. text[j] = SvgOpen /\ text[c] = SvgClose
      BY <3>2 DEF Pair
    <3> QED
      BY <1>1, <3>1, <3>2, <3>3
  <2> QED
    BY <2>1 DEF IsSvg
<1>6. ASSUME Alternates(text) PROVE Balanced(text)
  <2>1. ASSUME NEW i, NEW c, Pair(text, i, c)
        PROVE  <<i - 1, c>> \in SvgBlocks(text)
    <3>1. /\ i \in 1..Len(text) /\ c \in 1..Len(text) /\ i < c
          /\ text[i] = SvgOpen /\ text[c] = SvgClose
          /\ \A m \in 1..Len(text) : i < m /\ m < c => ~IsSvg(text[m])
      BY <2>1 DEF Pair
    <3>2. \A m \in 1..Len(text) : i <= m /\ m < c => text[m] # SvgClose
      BY <1>1, <3>1 DEF IsSvg
    <3>3. Starts(text, i, c)
      BY <1>1, <3>1, <3>2 DEF Starts, ClosesAt
    <3>4. ASSUME NEW j, NEW d, Starts(text, j, d), j < i, i - 1 < d
          PROVE  FALSE
      <4>1. /\ j \in 1..Len(text) /\ d \in 1..Len(text) /\ j < d
            /\ text[j] = SvgOpen /\ text[d] = SvgClose
            /\ \A m \in 1..Len(text) : j <= m /\ m < d => text[m] # SvgClose
        BY <1>2, <3>4
      <4>2. PICK e : Pair(text, j, e)
        BY <1>6, <4>1 DEF Alternates
      <4>3. /\ e \in 1..Len(text) /\ j < e /\ text[e] = SvgClose
            /\ \A m \in 1..Len(text) : j < m /\ m < e => ~IsSvg(text[m])
        BY <4>2 DEF Pair
      <4>4. ~(d < e) /\ ~(e < d)
        BY <4>1, <4>3 DEF IsSvg
      <4>5. d = e
        BY <4>1, <4>3, <4>4
      <4>6. i < d
        BY <1>1, <3>1, <3>4, <4>1
      <4> QED
        BY <3>1, <3>4, <4>3, <4>5, <4>6 DEF IsSvg
    <3> QED
      BY <3>3, <3>4, BlocksOf
  <2> SUFFICES ASSUME NEW i \in 1..Len(text), text[i] \in {SvgOpen, SvgClose}
               PROVE  \E b \in SvgBlocks(text) : i \in {b[1] + 1, b[2]}
    BY <1>1 DEF Balanced
  <2>2. PICK j, c : Pair(text, j, c) /\ i \in {j, c}
    BY <1>6 DEF Alternates
  <2>3. j \in 1..Len(text) /\ <<j - 1, c>> \in SvgBlocks(text)
    BY <2>1, <2>2 DEF Pair
  <2>4. <<j - 1, c>>[1] + 1 = j /\ <<j - 1, c>>[2] = c
    BY <1>1, <2>3
  <2> QED
    BY <2>2, <2>3, <2>4
<1> QED
  BY <1>5, <1>6

LEMMA BlockAt ==
    ASSUME NEW text, IsText(text), NEW pos, NEW b, b = SvgAt(text, pos), b # Absent
    PROVE  Block(text, b[1], b[2])
<1> DEFINE around == {c \in SvgBlocks(text) : c[1] <= pos /\ pos <= c[2]}
<1>1. ASSUME NEW c \in SvgBlocks(text) PROVE Block(text, c[1], c[2])
  <2>1. PICK i, e : Starts(text, i, e) /\ c = <<i - 1, e>>
    BY <1>1, BlocksOf
  <2>2. c[1] = i - 1 /\ c[2] = e
    BY <2>1
  <2>3. /\ i \in 1..Len(text) /\ e \in 1..Len(text) /\ i <= e
        /\ text[i] = SvgOpen /\ text[e] = SvgClose /\ Len(text) \in Nat
        /\ \A m \in 1..Len(text) : i <= m /\ m < e => text[m] # SvgClose
    BY <2>1 DEF Starts, ClosesAt, IsText
  <2>4. i # e
    BY <2>3 DEF SvgOpen, SvgClose
  <2>5. PICK f \in Nat : f = i - 1 /\ f + 1 = i /\ f + 2 <= e
    BY <2>3, <2>4
  <2>6. \A m \in 1..Len(text) : f + 1 < m /\ m < e => text[m] # SvgClose
    BY <2>3, <2>5
  <2>7. Block(text, f, e)
    BY <2>3, <2>5, <2>6 DEF Block
  <2> QED
    BY <2>2, <2>5, <2>7
<1>2. around # {} /\ b = CHOOSE c \in around : \A d \in around : c[1] <= d[1]
  BY DEF SvgAt
<1>3. \E c \in around : \A d \in around : c[1] <= d[1]
  <2> DEFINE S == {c[1] : c \in around}
  <2>1. S \in SUBSET Nat /\ S # {}
    BY <1>1, <1>2 DEF Block
  <2>2. Min(S) \in S /\ \A y \in S : Min(S) <= y
    <3> HIDE DEF S
    <3> QED
      BY <2>1, MinOfNats
  <2>3. PICK c \in around : Min(S) = c[1]
    BY <2>2
  <2>4. \A d \in around : Min(S) <= d[1]
    BY <2>2
  <2> QED
    BY <2>3, <2>4
<1>4. b \in around
  <2> HIDE DEF around
  <2> QED
    BY <1>2, <1>3, Zenon
<1> QED
  BY <1>1, <1>4

-----------------------------------------------------------------------------
(* What the answers and the drawings do to the drawings of a body *)

\* An answer that takes the place of a placeholder leaves the drawings whole.
LEMMA FilledDrawings ==
    ASSUME NEW text, IsText(text), NEW k, NEW kept \in BOOLEAN,
           NEW new, new = IF kept THEN Address(k) ELSE <<>>,
           NEW r, r = ReplaceFirstSubSeq(new, Placeholder(k), text)
    PROVE  IsText(r) /\ (Balanced(text) => Balanced(r))
<1>1. IsText(new) /\ \A i \in 1..Len(new) : new[i][1] = "picture"
  BY OutcomeParts
<1>2. ASSUME NEW p, WaitsAt(text, k, p), r = Splice(text, p, p + 2, new)
      PROVE  IsText(r) /\ (Balanced(text) => Balanced(r))
  <2>1. PICK e : e = p + 2
    OBVIOUS
  <2>2. /\ p \in 0..Len(text) /\ e \in Nat /\ p <= e /\ Len(text) \in Nat
        /\ \A i \in 1..Len(text) : p < i /\ i <= e => i = p + 1 \/ i = p + 2
    BY <1>2, <2>1 DEF WaitsAt, IsText
  <2>3. IsText(r)
    <3>1. Spliced(r, text, p, e, new)
      BY <1>1, <1>2, <2>1, <2>2, SpliceParts
    <3> QED
      BY <3>1 DEF Spliced
  <2>4. \A i \in 1..Len(new) : ~IsSvg(new[i])
    BY <1>1 DEF IsSvg, SvgOpen, SvgClose
  <2>5. \A i \in 1..Len(text) : p < i /\ i <= e => ~IsSvg(text[i])
    BY <1>2, <2>2 DEF WaitsAt, IsSvg, SvgOpen, SvgClose
  <2>6. Alternates(text) => Alternates(r)
    BY <1>1, <1>2, <2>1, <2>2, <2>4, <2>5, PlainAlternates
  <2> QED
    BY <2>3, <2>6, BalancedText
<1> QED
  BY <1>2, FirstReplaced

\* A block stays where it is if it and what is before it do not change.
StaysUpTo(text, to, r) == IsPrefix(SubSeq(text, 1, Min({to, Len(text)})), r)

LEMMA BlockStays ==
    ASSUME NEW text, IsText(text), NEW from, NEW to, Block(text, from, to),
           NEW r, IsText(r), StaysUpTo(text, to, r)
    PROVE  Block(r, from, to)
<1>1. /\ from \in Nat /\ to \in Nat /\ from + 2 <= to /\ to <= Len(text)
      /\ text[from + 1] = SvgOpen /\ text[to] = SvgClose
      /\ \A m \in 1..Len(text) : from + 1 < m /\ m < to => text[m] # SvgClose
  BY DEF Block
<1>2. PICK l, n : l = Len(text) /\ n = Len(r)
  OBVIOUS
<1>3. l \in Nat /\ n \in Nat /\ to <= l
  BY <1>1, <1>2 DEF IsText
<1>4. Min({to, l}) = to
  BY <1>1, <1>3, MinOfTwo
<1> DEFINE front == SubSeq(text, 1, to)
<1>5. IsPrefix(front, r)
  BY <1>2, <1>4 DEF StaysUpTo
<1>6. Len(front) = to /\ \A i \in 1..to : front[i] = text[i]
  <2>1. 0 \in 0..Len(text) /\ to \in 0..Len(text)
    BY <1>1, <1>2, <1>3
  <2>2. /\ Len(SubSeq(text, 0 + 1, to)) = to - 0
        /\ \A i \in 1..(to - 0) : SubSeq(text, 0 + 1, to)[i] = text[0 + i]
    BY <2>1, PieceOfText
  <2>3. 0 + 1 = 1 /\ to - 0 = to /\ \A i \in 1..to : 0 + i = i
    BY <1>1
  <2> QED
    BY <2>2, <2>3
<1>7. to <= n /\ SubSeq(front, 1, to) = SubSeq(r, 1, to)
  BY <1>2, <1>5, <1>6 DEF IsPrefix
<1>8. \A i \in 1..to : r[i] = text[i]
  <2>1. IsText(front)
    <3>1. 0 \in 0..Len(text) /\ to \in 0..Len(text)
      BY <1>1, <1>2, <1>3
    <3>2. IsText(SubSeq(text, 0 + 1, to))
      BY <3>1, PieceOfText
    <3> QED
      BY <3>2
  <2> HIDE DEF front
  <2>2. /\ \A i \in 1..to : SubSeq(front, 1, to)[i] = front[i]
        /\ \A i \in 1..to : SubSeq(r, 1, to)[i] = r[i]
    <3>1. 0 \in 0..Len(front) /\ to \in 0..Len(front) /\ 0 \in 0..Len(r) /\ to \in 0..Len(r)
      BY <1>1, <1>2, <1>3, <1>6, <1>7
    <3>2. /\ \A i \in 1..(to - 0) : SubSeq(front, 0 + 1, to)[i] = front[0 + i]
          /\ \A i \in 1..(to - 0) : SubSeq(r, 0 + 1, to)[i] = r[0 + i]
      BY <2>1, <3>1, PieceOfText
    <3>3. 0 + 1 = 1 /\ to - 0 = to /\ \A i \in 1..to : 0 + i = i
      BY <1>1
    <3> QED
      BY <3>2, <3>3
  <2> QED
    BY <1>6, <1>7, <2>2
<1>9. /\ from + 1 \in 1..to /\ to \in 1..to
      /\ \A m \in 1..n : m < to => m \in 1..to /\ m \in 1..l
  BY <1>1, <1>3
<1>10. r[from + 1] = SvgOpen /\ r[to] = SvgClose
  BY <1>1, <1>8, <1>9
<1>11. \A m \in 1..n : from + 1 < m /\ m < to => r[m] # SvgClose
  BY <1>1, <1>2, <1>8, <1>9
<1> QED
  BY <1>1, <1>2, <1>7, <1>10, <1>11 DEF Block

\* No upload has the name that stands for the drawings.
Nameable(text) ==
    \A i \in 1..Len(text) : text[i][1] \in {"uploading", "picture"} => text[i][2] # AllDrawings

LEMMA DrawingsIntact ==
    ASSUME NEW text, IsText(text), Nameable(text)
    PROVE  AllDrawings \in Intact(text) <=> Balanced(text)
<1>1. DOMAIN text = 1..Len(text)
  BY DEF IsText
<1> QED
  BY <1>1 DEF Intact, Nameable

\* The shapes of the drawings in a body can be read.
ShapesKnown(text) == \A i \in 1..Len(text) : text[i][1] = "shapes" => IsText(text[i][2])

LEMMA SplicedShapes ==
    ASSUME NEW text, IsText(text), NEW new, IsText(new),
           NEW from \in 0..Len(text), NEW to \in Nat, from <= to,
           ShapesKnown(text), ShapesKnown(new),
           NEW r, r = Splice(text, from, to, new)
    PROVE  ShapesKnown(r)
<1> SUFFICES ASSUME NEW i \in 1..Len(r), r[i][1] = "shapes"
             PROVE  IsText(r[i][2])
  BY DEF ShapesKnown
<1>1. Comes(r, i, text, from, to, new)
  BY SpliceSource
<1> QED
  BY <1>1 DEF Comes, ShapesKnown

LEMMA FilledShapes ==
    ASSUME NEW text, IsText(text), ShapesKnown(text), NEW k, NEW kept \in BOOLEAN,
           NEW new, new = IF kept THEN Address(k) ELSE <<>>,
           NEW r, r = ReplaceFirstSubSeq(new, Placeholder(k), text)
    PROVE  ShapesKnown(r)
<1>1. IsText(new) /\ \A i \in 1..Len(new) : new[i][1] = "picture"
  BY OutcomeParts
<1>2. ShapesKnown(new)
  BY <1>1 DEF ShapesKnown
<1>3. ASSUME NEW p, WaitsAt(text, k, p), r = Splice(text, p, p + 2, new)
      PROVE  ShapesKnown(r)
  <2>1. PICK e : e = p + 2
    OBVIOUS
  <2>2. p \in 0..Len(text) /\ e \in Nat /\ p <= e
    BY <1>3, <2>1 DEF WaitsAt, IsText
  <2> QED
    BY <1>1, <1>2, <1>3, <2>1, <2>2, SplicedShapes
<1> QED
  BY <1>3, FirstReplaced

-----------------------------------------------------------------------------
(* The names of uploads: a call has a number, and how many pictures are left *)

CallSteps == {"sent", "absent", "writing", "kept", "refused"}
Calls == [call : Nat \X Nat, rest : Seq(Hash) \ {<<>>}, step : CallSteps]

\* The name is that of a picture of an earlier call, or one that this call has come past
\* or is at.
Named(k, ups, n) ==
    /\ k \in (Nat \X Nat) \X Hash /\ k[1][1] < n /\ k[1][2] >= 1
    /\ \A c \in ups : k[1][1] = c.call[1] => k[1][2] >= c.call[2]

NamesInv(ups, ans, n) ==
    /\ n \in Nat
    /\ \A c \in ups : c \in Calls /\ c.call[2] = Len(c.rest) /\ c.call[1] < n
    /\ \A c, d \in ups : c.call[1] = d.call[1] => c = d
    /\ \A k \in ans : Named(k, ups, n)
    /\ \A k \in ans, c \in ups : k[1] # c.call

MarksNamed(text, ups, n) ==
    \A i \in 1..Len(text) : text[i][1] = "uploading" => Named(text[i][2], ups, n)

Live(ups) == {Token(c) : c \in ups}

LEMMA TokenParts ==
    ASSUME NEW c \in Calls, c.call[2] = Len(c.rest)
    PROVE  /\ Token(c) = <<c.call, Head(c.rest)>> /\ Token(c)[1] = c.call
           /\ Token(c)[2] = Head(c.rest) /\ Head(c.rest) \in Hash
           /\ c.call[1] \in Nat /\ c.call[2] \in Nat /\ c.call[2] >= 1
           /\ Token(c) \in (Nat \X Nat) \X Hash
<1>1. c.rest \in Seq(Hash) /\ c.rest # <<>> /\ c.call \in Nat \X Nat
  BY DEF Calls
<1>2. Len(c.rest) \in Nat /\ Len(c.rest) # 0 /\ Head(c.rest) \in Hash
  BY <1>1
<1> QED
  BY <1>1, <1>2 DEF Token

LEMMA TokenOfCall ==
    ASSUME NEW ups, NEW ans, NEW n, NamesInv(ups, ans, n), NEW c \in ups
    PROVE  Named(Token(c), ups, n)
<1>1. c \in Calls /\ c.call[2] = Len(c.rest) /\ c.call[1] < n
      /\ \A d \in ups : c.call[1] = d.call[1] => c = d
  BY DEF NamesInv
<1>2. /\ Token(c)[1] = c.call /\ Token(c) \in (Nat \X Nat) \X Hash
      /\ c.call[2] >= 1
  BY <1>1, TokenParts
<1>3. \A d \in ups : c.call[1] = d.call[1] => c.call[2] >= d.call[2]
  BY <1>1, <1>2, TokenParts
<1> QED
  BY <1>1, <1>2, <1>3 DEF Named

\* A body has no mark with the name that stands for the drawings.
LEMMA NamesAllow ==
    ASSUME NEW text, NEW ups, NEW ans, NEW n, NamesInv(ups, ans, n), MarksNamed(text, ups, n),
           PicturesKnown(text, ans)
    PROVE  Nameable(text) /\ AllDrawings \notin ans \cup Live(ups)
<1>1. AllDrawings[1][2] = 0
  BY DEF AllDrawings
<1>2. \A k : Named(k, ups, n) => k # AllDrawings
  BY <1>1 DEF Named
<1>3. \A k \in ans \cup Live(ups) : Named(k, ups, n)
  <2>1. \A k \in ans : Named(k, ups, n)
    BY DEF NamesInv
  <2>2. \A c \in ups : Named(Token(c), ups, n)
    BY TokenOfCall
  <2> QED
    BY <2>1, <2>2 DEF Live
<1> QED
  BY <1>2, <1>3 DEF Nameable, MarksNamed, PicturesKnown

\* Steps of the requests change no name.
LEMMA SameCalls ==
    ASSUME NEW ups, NEW ans, NEW n, NamesInv(ups, ans, n), NEW ups2,
           \A d \in ups2 : d \in Calls /\ \E c \in ups : d.call = c.call /\ d.rest = c.rest,
           \A c \in ups : \E d \in ups2 : d.call = c.call /\ d.rest = c.rest,
           \A c, d \in ups2 : c.call[1] = d.call[1] => c = d
    PROVE  /\ NamesInv(ups2, ans, n) /\ Live(ups2) = Live(ups)
           /\ \A k : Named(k, ups, n) => Named(k, ups2, n)
<1>1. \A k : Named(k, ups, n) => Named(k, ups2, n)
  <2> SUFFICES ASSUME NEW k, Named(k, ups, n), NEW d \in ups2, k[1][1] = d.call[1]
               PROVE  k[1][2] >= d.call[2]
    BY DEF Named
  <2>1. PICK c \in ups : d.call = c.call
    OBVIOUS
  <2> QED
    BY <2>1 DEF Named
<1>2. \A d \in ups2 : d \in Calls /\ d.call[2] = Len(d.rest) /\ d.call[1] < n
  <2> SUFFICES ASSUME NEW d \in ups2
               PROVE  d \in Calls /\ d.call[2] = Len(d.rest) /\ d.call[1] < n
    OBVIOUS
  <2>1. PICK c \in ups : d.call = c.call /\ d.rest = c.rest
    OBVIOUS
  <2>2. c.call[2] = Len(c.rest) /\ c.call[1] < n
    BY DEF NamesInv
  <2> QED
    BY <2>1, <2>2
<1>3. \A k \in ans, d \in ups2 : k[1] # d.call
  <2> SUFFICES ASSUME NEW k \in ans, NEW d \in ups2 PROVE k[1] # d.call
    OBVIOUS
  <2>1. PICK c \in ups : d.call = c.call
    OBVIOUS
  <2> QED
    BY <2>1 DEF NamesInv
<1>4. NamesInv(ups2, ans, n)
  BY <1>1, <1>2, <1>3 DEF NamesInv
<1>5. Live(ups2) = Live(ups)
  <2>1. ASSUME NEW d \in ups2 PROVE Token(d) \in Live(ups)
    <3>1. PICK c \in ups : d.call = c.call /\ d.rest = c.rest
      OBVIOUS
    <3>2. Token(d) = Token(c)
      BY <3>1 DEF Token
    <3> QED
      BY <3>2 DEF Live
  <2>2. ASSUME NEW c \in ups PROVE Token(c) \in Live(ups2)
    <3>1. PICK d \in ups2 : d.call = c.call /\ d.rest = c.rest
      OBVIOUS
    <3>2. Token(c) = Token(d)
      BY <3>1 DEF Token
    <3> QED
      BY <3>2 DEF Live
  <2> QED
    BY <2>1, <2>2 DEF Live
<1> QED
  BY <1>1, <1>4, <1>5

LEMMA SteppedCall ==
    ASSUME NEW c \in Calls, NEW s \in CallSteps
    PROVE  LET d == [c EXCEPT !.step = s]
           IN  d \in Calls /\ d.call = c.call /\ d.rest = c.rest /\ d.step = s
BY DEF Calls

\* A request makes a step: no name changes.
LEMMA CallStepped ==
    ASSUME NEW ups, NEW ans, NEW n, NamesInv(ups, ans, n), NEW c \in ups,
           NEW d \in Calls, d.call = c.call, d.rest = c.rest,
           NEW ups2, ups2 = (ups \ {c}) \cup {d}
    PROVE  /\ NamesInv(ups2, ans, n) /\ Live(ups2) = Live(ups)
           /\ \A k : Named(k, ups, n) => Named(k, ups2, n)
<1>1. \A e \in ups2 : e \in Calls /\ \E f \in ups : e.call = f.call /\ e.rest = f.rest
  BY DEF NamesInv
<1>2. \A f \in ups : \E e \in ups2 : e.call = f.call /\ e.rest = f.rest
  OBVIOUS
<1>3. \A e, f \in ups2 : e.call[1] = f.call[1] => e = f
  BY DEF NamesInv
<1> QED
  BY <1>1, <1>2, <1>3, SameCalls

\* All requests are refused at once.
LEMMA CallsRefused ==
    ASSUME NEW ups, NEW ans, NEW n, NamesInv(ups, ans, n),
           NEW ups2, ups2 = {[c EXCEPT !.step = "refused"] : c \in ups}
    PROVE  /\ NamesInv(ups2, ans, n) /\ Live(ups2) = Live(ups)
           /\ \A k : Named(k, ups, n) => Named(k, ups2, n)
           /\ \A d \in ups2 : d.step = "refused"
<1> DEFINE R(c) == [c EXCEPT !.step = "refused"]
<1>1. \A c \in ups : R(c) \in Calls /\ R(c).call = c.call /\ R(c).rest = c.rest
                     /\ R(c).step = "refused"
  BY DEF NamesInv, Calls, CallSteps
<1>2. ups2 = {R(c) : c \in ups}
  OBVIOUS
<1> HIDE DEF R
<1>3. \A e \in ups2 : e \in Calls /\ \E f \in ups : e.call = f.call /\ e.rest = f.rest
  BY <1>1, <1>2
<1>4. \A f \in ups : \E e \in ups2 : e.call = f.call /\ e.rest = f.rest
  BY <1>1, <1>2
<1>5. \A e, f \in ups2 : e.call[1] = f.call[1] => e = f
  <2> SUFFICES ASSUME NEW c \in ups, NEW d \in ups, R(c).call[1] = R(d).call[1]
               PROVE  R(c) = R(d)
    BY <1>2
  <2>1. c = d
    BY <1>1 DEF NamesInv
  <2> QED
    BY <2>1
<1>6. /\ NamesInv(ups2, ans, n) /\ Live(ups2) = Live(ups)
      /\ \A k : Named(k, ups, n) => Named(k, ups2, n)
  BY <1>3, <1>4, <1>5, SameCalls
<1> QED
  BY <1>1, <1>2, <1>6

\* A selection is chosen.
Begun(c, ups, n, ups2, ans, n2) ==
    /\ NamesInv(ups2, ans, n2) /\ Live(ups2) = Live(ups) \cup {Token(c)}
    /\ \A k : Named(k, ups, n) => Named(k, ups2, n2) /\ k # Token(c)
    /\ Named(Token(c), ups2, n2)

LEMMA CallBegins ==
    ASSUME NEW ups, NEW ans, NEW n, NamesInv(ups, ans, n), NEW files \in Seq(Hash), files # <<>>,
           NEW c, c = [call |-> <<n, Len(files)>>, rest |-> files, step |-> "sent"],
           NEW n2, n2 = n + Len(files), NEW ups2, ups2 = ups \cup {c}
    PROVE  Begun(c, ups, n, ups2, ans, n2)
<1>1. n \in Nat /\ Len(files) \in Nat /\ Len(files) >= 1 /\ n2 \in Nat /\ n < n2 /\ n <= n2
  <2>1. Len(files) \in Nat /\ Len(files) # 0
    OBVIOUS
  <2> QED
    BY <2>1 DEF NamesInv
<1>2. c \in Calls /\ c.call = <<n, Len(files)>> /\ c.call[1] = n /\ c.call[2] = Len(c.rest)
  BY <1>1 DEF Calls, CallSteps
<1>3. ASSUME NEW k, Named(k, ups, n)
      PROVE  Named(k, ups2, n2) /\ k # Token(c) /\ k[1] # c.call
  <2>1. k \in (Nat \X Nat) \X Hash /\ k[1][1] < n
    BY <1>3 DEF Named
  <2>2. k[1][1] < n2 /\ k[1][1] # n
    BY <1>1, <2>1
  <2>3. k # Token(c) /\ k[1] # c.call
    BY <1>2, <2>2, TokenParts
  <2> QED
    BY <1>2, <1>3, <2>2, <2>3 DEF Named
<1>4. \A d \in ups : d.call[1] < n /\ d.call[1] < n2 /\ d.call[1] # n
  <2> SUFFICES ASSUME NEW d \in ups PROVE d.call[1] < n /\ d.call[1] < n2 /\ d.call[1] # n
    OBVIOUS
  <2>1. d \in Calls /\ d.call[1] < n
    BY DEF NamesInv
  <2>2. d.call[1] \in Nat
    BY <2>1 DEF Calls
  <2> QED
    BY <1>1, <2>1, <2>2
<1>5. \A d \in ups2 : d \in Calls /\ d.call[2] = Len(d.rest) /\ d.call[1] < n2
  BY <1>1, <1>2, <1>4 DEF NamesInv
<1>6. \A d, e \in ups2 : d.call[1] = e.call[1] => d = e
  BY <1>2, <1>4 DEF NamesInv
<1>7. NamesInv(ups2, ans, n2)
  BY <1>1, <1>3, <1>5, <1>6 DEF NamesInv
<1>8. Live(ups2) = Live(ups) \cup {Token(c)}
  BY DEF Live
<1>9. Named(Token(c), ups2, n2)
  BY <1>7, TokenOfCall
<1> QED
  BY <1>3, <1>7, <1>8, <1>9 DEF Begun

\* Only this call is at the picture of this name.
LEMMA LiveWithout ==
    ASSUME NEW ups, NEW ans, NEW n, NamesInv(ups, ans, n), NEW c \in ups
    PROVE  Live(ups \ {c}) = Live(ups) \ {Token(c)}
<1>1. \A d \in ups : Token(d) = Token(c) => d = c
  <2> SUFFICES ASSUME NEW d \in ups, Token(d) = Token(c) PROVE d = c
    OBVIOUS
  <2>1. /\ c \in Calls /\ c.call[2] = Len(c.rest)
        /\ d \in Calls /\ d.call[2] = Len(d.rest)
    BY DEF NamesInv
  <2>2. d.call = c.call
    BY <2>1, TokenParts
  <2> QED
    BY <2>2 DEF NamesInv
<1> QED
  BY <1>1 DEF Live

\* The last picture of a call has its answer.
LEMMA CallEnds ==
    ASSUME NEW ups, NEW ans, NEW n, NamesInv(ups, ans, n), NEW c \in ups,
           NEW ans2, ans2 \subseteq ans \cup {Token(c)},
           NEW ups2, ups2 = ups \ {c}
    PROVE  /\ NamesInv(ups2, ans2, n)
           /\ \A k : Named(k, ups, n) => Named(k, ups2, n)
<1>1. \A k : Named(k, ups, n) => Named(k, ups2, n)
  BY DEF Named
<1>2. Named(Token(c), ups2, n)
  BY <1>1, TokenOfCall
<1>3. \A d \in ups2 : Token(c)[1] # d.call
  <2>1. Token(c)[1] = c.call
    BY TokenParts DEF NamesInv
  <2> QED
    BY <2>1 DEF NamesInv
<1> QED
  BY <1>1, <1>2, <1>3 DEF NamesInv

\* The call goes on to its next picture.
LEMMA NextOfCall ==
    ASSUME NEW c \in Calls, c.call[2] = Len(c.rest), Tail(c.rest) # <<>>
    PROVE  LET d == [c EXCEPT !.rest = Tail(@), !.step = "sent", !.call = <<@[1], @[2] - 1>>]
           IN  /\ d \in Calls /\ d.call = <<c.call[1], c.call[2] - 1>>
               /\ d.rest = Tail(c.rest) /\ d.step = "sent"
<1>1. c.rest \in Seq(Hash) /\ c.rest # <<>> /\ c.call \in Nat \X Nat
  BY DEF Calls
<1>2. Tail(c.rest) \in Seq(Hash) \ {<<>>} /\ <<c.call[1], c.call[2] - 1>> \in Nat \X Nat
  <2>1. Len(c.rest) \in Nat /\ Len(c.rest) # 0 /\ Tail(c.rest) \in Seq(Hash)
    BY <1>1
  <2> QED
    BY <1>1, <2>1
<1> QED
  BY <1>2 DEF Calls, CallSteps

GoesOn(c, d, ups, n, ups2, ans2) ==
    /\ NamesInv(ups2, ans2, n)
    /\ Live(ups2) = (Live(ups) \ {Token(c)}) \cup {Token(d)}
    /\ \A k : Named(k, ups, n) => Named(k, ups2, n) /\ k # Token(d)
    /\ Named(Token(d), ups2, n)

LEMMA CallGoesOn ==
    ASSUME NEW ups, NEW ans, NEW n, NamesInv(ups, ans, n), NEW c \in ups, Tail(c.rest) # <<>>,
           NEW ans2, ans2 \subseteq ans \cup {Token(c)},
           NEW d \in Calls, d.call = <<c.call[1], c.call[2] - 1>>, d.rest = Tail(c.rest),
           NEW ups2, ups2 = (ups \ {c}) \cup {d}
    PROVE  GoesOn(c, d, ups, n, ups2, ans2)
<1>1. /\ c \in Calls /\ c.call[2] = Len(c.rest) /\ c.call[1] < n /\ n \in Nat
      /\ \A e \in ups : c.call[1] = e.call[1] => c = e
  BY DEF NamesInv
<1>2. /\ Token(c)[1] = c.call /\ Token(c) \in (Nat \X Nat) \X Hash
      /\ c.call[1] \in Nat /\ c.call[2] \in Nat /\ c.call[2] >= 1
  BY <1>1, TokenParts
<1>3. Tail(c.rest) \in Seq(Hash) /\ Len(Tail(c.rest)) = c.call[2] - 1
  BY <1>1 DEF Calls
<1>4. c.call[2] - 1 \in Nat /\ c.call[2] - 1 < c.call[2]
  BY <1>2
<1>6. /\ d \in Calls /\ d.call[2] = Len(d.rest)
      /\ d.call[1] = c.call[1] /\ d.call[2] < c.call[2]
  BY <1>3, <1>4
<1>7. ASSUME NEW k, Named(k, ups, n)
      PROVE  Named(k, ups2, n) /\ k # Token(d) /\ k[1] # d.call
  <2>1. k \in (Nat \X Nat) \X Hash /\ (k[1][1] = c.call[1] => k[1][2] >= c.call[2])
    BY <1>7 DEF Named
  <2>2. k[1][1] = d.call[1] => k[1][2] > d.call[2]
    <3>1. k[1][2] \in Nat /\ d.call[2] \in Nat /\ c.call[2] \in Nat
      BY <1>2, <1>6, <2>1 DEF Calls
    <3> QED
      BY <1>6, <2>1, <3>1
  <2>3. k[1] # d.call
    BY <1>6, <2>1, <2>2 DEF Calls
  <2>4. k # Token(d)
    BY <1>6, <2>3, TokenParts
  <2>5. \A e \in ups2 : k[1][1] = e.call[1] => k[1][2] >= e.call[2]
    <3>1. k[1][1] = d.call[1] => k[1][2] >= d.call[2]
      BY <1>6, <2>1, <2>2 DEF Calls
    <3> QED
      BY <1>7, <3>1 DEF Named
  <2> QED
    BY <1>7, <2>3, <2>4, <2>5 DEF Named
<1>8. Named(Token(c), ups2, n) /\ Token(c)[1] # d.call
  BY <1>7, TokenOfCall
<1>9. \A e \in ups2 : Token(c)[1] # e.call
  BY <1>1, <1>2, <1>8
<1>10. \A e \in ups2 : e \in Calls /\ e.call[2] = Len(e.rest) /\ e.call[1] < n
  BY <1>1, <1>6 DEF NamesInv
<1>11. \A e, f \in ups2 : e.call[1] = f.call[1] => e = f
  BY <1>1, <1>6 DEF NamesInv
<1>12. \A k \in ans2 : Named(k, ups2, n)
  BY <1>7, <1>8 DEF NamesInv
<1>13. \A k \in ans2, e \in ups2 : k[1] # e.call
  BY <1>7, <1>9 DEF NamesInv
<1>14. NamesInv(ups2, ans2, n)
  BY <1>1, <1>10, <1>11, <1>12, <1>13 DEF NamesInv
<1>15. Live(ups2) = (Live(ups) \ {Token(c)}) \cup {Token(d)}
  <2>1. Live(ups \ {c}) = Live(ups) \ {Token(c)}
    BY LiveWithout
  <2>2. Live(ups2) = Live(ups \ {c}) \cup {Token(d)}
    BY DEF Live
  <2> QED
    BY <2>1, <2>2
<1>16. Named(Token(d), ups2, n)
  BY <1>14, TokenOfCall
<1> QED
  BY <1>7, <1>14, <1>15, <1>16 DEF GoesOn

-----------------------------------------------------------------------------
(* The drawing board *)

LEMMA TextOfFunction ==
    ASSUME NEW n \in Nat, NEW f, f = [i \in 1..n |-> f[i]]
    PROVE  IsText(f) /\ Len(f) = n
<1> DEFINE S == {f[i] : i \in 1..n}
<1>1. f \in [1..n -> S]
  OBVIOUS
<1>2. f \in Seq(S)
  BY <1>1, SeqDef
<1>3. DOMAIN f = 1..n /\ DOMAIN f = 1..Len(f) /\ Len(f) \in Nat
  BY <1>1, <1>2, LenProperties
<1>4. Len(f) = n
  BY <1>3
<1>5. IsText(f)
  BY <1>2, TextOfSeq
<1> QED
  BY <1>4, <1>5

LEMMA MappedTexts ==
    ASSUME NEW t, IsText(t)
    PROVE  IsText(SvgToShapes(t)) /\ IsText(ShapesToSvg(t))
<1>1. DOMAIN t = 1..Len(t) /\ Len(t) \in Nat
  BY TextDomain
<1>2. PICK n : n = Len(t)
  OBVIOUS
<1>3. n \in Nat /\ DOMAIN t = 1..n
  BY <1>1, <1>2
<1>4. SvgToShapes(t) = [i \in 1..n |-> SvgToShapes(t)[i]]
  BY <1>3 DEF SvgToShapes
<1>5. ShapesToSvg(t) = [i \in 1..n |-> ShapesToSvg(t)[i]]
  BY <1>3 DEF ShapesToSvg
<1>6. PICK a, b : a = SvgToShapes(t) /\ b = ShapesToSvg(t)
  OBVIOUS
<1>7. a = [i \in 1..n |-> a[i]] /\ b = [i \in 1..n |-> b[i]]
  BY <1>4, <1>5, <1>6
<1>8. IsText(a) /\ IsText(b)
  BY <1>3, <1>7, TextOfFunction
<1> QED
  BY <1>6, <1>8

LEMMA ChangedTexts ==
    ASSUME NEW t, IsText(t)
    PROVE  /\ IsText(<<>>)
           /\ \A x : IsText(Append(t, x)) /\ DOMAIN t \subseteq DOMAIN Append(t, x)
           /\ \A i \in DOMAIN t : IsText(RemoveAt(t, i))
           /\ t # <<>> => IsText(Front(t))
<1>1. DOMAIN t = 1..Len(t) /\ Len(t) \in Nat
  BY TextDomain
<1>2. ASSUME NEW x
      PROVE  IsText(Append(t, x)) /\ DOMAIN t \subseteq DOMAIN Append(t, x)
  <2> DEFINE S == {t[i] : i \in 1..Len(t)} \cup {x}
  <2>1. t \in Seq(S) /\ x \in S
    BY SeqOfText
  <2> HIDE DEF S
  <2>2. Append(t, x) \in Seq(S) /\ Len(Append(t, x)) = Len(t) + 1
    BY <2>1
  <2>3. IsText(Append(t, x))
    BY <2>2, TextOfSeq
  <2>4. DOMAIN Append(t, x) = 1..(Len(t) + 1)
    BY <2>2
  <2> QED
    BY <1>1, <2>3, <2>4
<1> DEFINE S == {t[i] : i \in 1..Len(t)}
<1>3. t \in Seq(S)
  BY SeqOfText
<1> HIDE DEF S
<1>4. ASSUME NEW i \in DOMAIN t
      PROVE  IsText(RemoveAt(t, i))
  <2>1. SubSeq(t, 1, i - 1) \in Seq(S) /\ SubSeq(t, i + 1, Len(t)) \in Seq(S)
    BY <1>1, <1>3
  <2>2. SubSeq(t, 1, i - 1) \o SubSeq(t, i + 1, Len(t)) \in Seq(S)
    BY <2>1
  <2> QED
    BY <2>2, TextOfSeq DEF RemoveAt
<1>5. ASSUME t # <<>>
      PROVE  IsText(Front(t))
  <2>1. SubSeq(t, 1, Len(t) - 1) \in Seq(S)
    BY <1>1, <1>3
  <2> QED
    BY <2>1, TextOfSeq DEF Front
<1>6. IsText(<<>>)
  <2>1. <<>> \in Seq({})
    OBVIOUS
  <2> QED
    BY <2>1, TextOfSeq
<1> QED
  BY <1>2, <1>4, <1>5, <1>6

BoardFields == {"range", "initial", "draft", "selected", "shapes"}

\* The range of the board is that of a drawing as long as nothing moved it.
BoardOk(b, text, moved) ==
    b # Absent =>
        /\ DOMAIN b = BoardFields
        /\ IsText(b.shapes)
        /\ b.range # Absent =>
            /\ b.range[1] \in Nat /\ b.range[2] \in Nat /\ b.range[1] < b.range[2]
            /\ ~moved => Block(text, b.range[1], b.range[2])

\* Shapes and picks change; the range of the board does not.
LEMMA BoardChanges ==
    ASSUME NEW b, NEW text, NEW moved, BoardOk(b, text, moved), b # Absent,
           NEW b2, DOMAIN b2 = DOMAIN b, b2.range = b.range, IsText(b2.shapes)
    PROVE  BoardOk(b2, text, moved)
BY DEF BoardOk

\* The board knows when the text has changed up to the end of its range.
KnowsMoves(b, text, r, moved, moved2) ==
    ~moved2 => /\ ~moved
               /\ b # Absent /\ b.range # Absent => StaysUpTo(text, b.range[2], r)

LEMMA BoardStays ==
    ASSUME NEW b, NEW text, IsText(text), NEW moved, BoardOk(b, text, moved),
           NEW r, IsText(r), NEW moved2, KnowsMoves(b, text, r, moved, moved2)
    PROVE  BoardOk(b, r, moved2)
<1>1. ASSUME b # Absent, b.range # Absent, ~moved2
      PROVE  Block(r, b.range[1], b.range[2])
  <2>1. Block(text, b.range[1], b.range[2]) /\ StaysUpTo(text, b.range[2], r)
    BY <1>1 DEF BoardOk, KnowsMoves
  <2> QED
    BY <2>1, BlockStays
<1> QED
  BY <1>1 DEF BoardOk

\* The shapes of a drawing in the body can be read.
LEMMA ShapesRead ==
    ASSUME NEW text, IsText(text), ShapesKnown(text), NEW b, Block(text, b[1], b[2]),
           NEW svg, svg = SubSeq(text, b[1] + 1, b[2]), IsOurSvg(svg)
    PROVE  IsText(ShapesIn(svg))
<1>1. PICK from, to : from = b[1] /\ to = b[2]
  OBVIOUS
<1>2. from \in 0..Len(text) /\ to \in from..Len(text) /\ Len(text) \in Nat
  BY <1>1 DEF Block, IsText
<1>3. /\ IsText(svg) /\ Len(svg) = to - from
      /\ \A i \in 1..(to - from) : svg[i] = text[from + i]
  BY <1>1, <1>2, PieceOfText, SMTT(40)
<1>4. DOMAIN svg = 1..(to - from)
  BY <1>3, TextDomain
<1>5. \A i \in 1..(to - from) : from + i \in 1..Len(text)
  BY <1>2
<1>6. \A mark \in ToSet(svg) : mark[1] = "shapes" => IsText(mark[2])
  <2> SUFFICES ASSUME NEW mark \in ToSet(svg), mark[1] = "shapes" PROVE IsText(mark[2])
    OBVIOUS
  <2>1. PICK i \in DOMAIN svg : mark = svg[i]
    BY DEF ToSet
  <2>2. PICK j : j = from + i
    OBVIOUS
  <2>3. j \in 1..Len(text) /\ mark = text[j]
    BY <1>3, <1>4, <1>5, <2>1, <2>2
  <2> QED
    BY <2>3 DEF ShapesKnown
<1> DEFINE first == CHOOSE mark \in ToSet(svg) : mark[1] = "shapes"
<1>7. first \in ToSet(svg) /\ first[1] = "shapes"
  <2>1. \E mark \in ToSet(svg) : mark[1] = "shapes"
    BY DEF IsOurSvg
  <2> QED
    BY <2>1, Zenon
<1>8. ShapesIn(svg) = SvgToShapes(first[2])
  BY DEF ShapesIn
<1> HIDE DEF first
<1>9. IsText(first[2])
  BY <1>6, <1>7
<1> QED
  BY <1>8, <1>9, MappedTexts

-----------------------------------------------------------------------------
(* The field as a whole: the body, the uploads (ups, ans, n), what was cut  *)
(* (brk, trn), whether the board's drawing was moved, and the board (b)     *)

FieldOk(text, ups, ans, n, brk, trn, moved, b) ==
    /\ NamesInv(ups, ans, n) /\ MarksNamed(text, ups, n)
    /\ BodyInv(text, Live(ups), ans, brk \cup trn, moved)
    /\ ShapesKnown(text)
    /\ ~moved /\ AllDrawings \notin brk \cup trn => Balanced(text)
    /\ BoardOk(b, text, moved)

\* The placeholders of a spliced body have the names of uploads.
LEMMA SplicedNamed ==
    ASSUME NEW text, IsText(text), NEW new, IsText(new),
           NEW from \in 0..Len(text), NEW to \in Nat, from <= to,
           NEW ups, NEW n, MarksNamed(text, ups, n), MarksNamed(new, ups, n),
           NEW r, r = Splice(text, from, to, new)
    PROVE  MarksNamed(r, ups, n)
<1> SUFFICES ASSUME NEW i \in 1..Len(r), r[i][1] = "uploading"
             PROVE  Named(r[i][2], ups, n)
  BY DEF MarksNamed
<1>1. Comes(r, i, text, from, to, new)
  BY SpliceSource
<1> QED
  BY <1>1 DEF Comes, MarksNamed

LEMMA FilledNamed ==
    ASSUME NEW text, IsText(text), NEW ups, NEW n, MarksNamed(text, ups, n),
           NEW k, NEW kept \in BOOLEAN,
           NEW new, new = IF kept THEN Address(k) ELSE <<>>,
           NEW r, r = ReplaceFirstSubSeq(new, Placeholder(k), text)
    PROVE  MarksNamed(r, ups, n)
<1>1. IsText(new) /\ \A i \in 1..Len(new) : new[i][1] = "picture"
  BY OutcomeParts
<1>2. MarksNamed(new, ups, n)
  BY <1>1 DEF MarksNamed
<1>3. ASSUME NEW p, WaitsAt(text, k, p), r = Splice(text, p, p + 2, new)
      PROVE  MarksNamed(r, ups, n)
  <2>1. PICK e : e = p + 2
    OBVIOUS
  <2>2. p \in 0..Len(text) /\ e \in Nat /\ p <= e
    BY <1>3, <2>1 DEF WaitsAt, IsText
  <2> QED
    BY <1>1, <1>2, <1>3, <2>1, <2>2, SplicedNamed
<1> QED
  BY <1>3, FirstReplaced

\* A drawing that is cut is counted.
LEMMA CutDrawings ==
    ASSUME NEW text, IsText(text), Nameable(text), NEW r, IsText(r), Nameable(r),
           NEW cut, NEW moved, ~moved /\ AllDrawings \notin cut => Balanced(text),
           ~moved, AllDrawings \notin cut \cup (Intact(text) \ Intact(r))
    PROVE  Balanced(r)
BY DrawingsIntact

\* A person types, erases, or puts in a drawing.
LEMMA FieldWritten ==
    ASSUME NEW text, NEW ups, NEW ans, NEW n, NEW brk, NEW trn, NEW moved, NEW b,
           FieldOk(text, ups, ans, n, brk, trn, moved, b),
           NEW new, IsText(new), Unmarked(new), ShapesKnown(new),
           NEW from \in 0..Len(text), NEW to \in Nat, from <= to,
           NEW r, r = Splice(text, from, to, new),
           NEW moved2, KnowsMoves(b, text, r, moved, moved2)
    PROVE  FieldOk(r, ups, ans, n, brk \cup (Intact(text) \ Intact(r)), trn, moved2, b)
<1>1. /\ NamesInv(ups, ans, n) /\ MarksNamed(text, ups, n)
      /\ BodyInv(text, Live(ups), ans, brk \cup trn, moved)
      /\ ShapesKnown(text)
      /\ ~moved /\ AllDrawings \notin brk \cup trn => Balanced(text)
      /\ BoardOk(b, text, moved)
  BY DEF FieldOk
<1>2. IsText(text) /\ PicturesKnown(text, ans) /\ (~moved2 => ~moved)
  BY <1>1 DEF BodyInv, KnowsMoves
<1> DEFINE gone == Intact(text) \ Intact(r)
<1>3. BodyInv(r, Live(ups), ans, (brk \cup trn) \cup gone, moved)
  BY <1>1, EditedBody
<1> HIDE DEF gone
<1>4. BodyInv(r, Live(ups), ans, (brk \cup gone) \cup trn, moved2)
  <2>1. (brk \cup trn) \cup gone = (brk \cup gone) \cup trn
    OBVIOUS
  <2> QED
    BY <1>2, <1>3, <2>1 DEF BodyInv
<1>5. IsText(r) /\ PicturesKnown(r, ans)
  BY <1>3 DEF BodyInv
<1>6. MarksNamed(new, ups, n)
  BY DEF Unmarked, MarksNamed
<1>7. MarksNamed(r, ups, n)
  BY <1>1, <1>2, <1>6, SplicedNamed
<1>8. ShapesKnown(r)
  BY <1>1, <1>2, SplicedShapes
<1>9. Nameable(text) /\ Nameable(r)
  BY <1>1, <1>2, <1>5, <1>7, NamesAllow
<1>10. ~moved2 /\ AllDrawings \notin (brk \cup gone) \cup trn => Balanced(r)
  BY <1>1, <1>2, <1>5, <1>9, CutDrawings DEF gone
<1>11. BoardOk(b, r, moved2)
  BY <1>1, <1>2, <1>5, BoardStays
<1> QED
  BY <1>1, <1>4, <1>7, <1>8, <1>10, <1>11 DEF FieldOk, gone

\* Requests go on, and change no name.
LEMMA FieldCalls ==
    ASSUME NEW text, NEW ups, NEW ans, NEW n, NEW brk, NEW trn, NEW moved, NEW b,
           FieldOk(text, ups, ans, n, brk, trn, moved, b),
           NEW ups2, NamesInv(ups2, ans, n), Live(ups2) = Live(ups),
           \A k : Named(k, ups, n) => Named(k, ups2, n)
    PROVE  FieldOk(text, ups2, ans, n, brk, trn, moved, b)
<1>1. MarksNamed(text, ups2, n)
  BY DEF FieldOk, MarksNamed
<1> QED
  BY <1>1 DEF FieldOk

\* The board changes.
LEMMA FieldBoard ==
    ASSUME NEW text, NEW ups, NEW ans, NEW n, NEW brk, NEW trn, NEW moved, NEW b,
           FieldOk(text, ups, ans, n, brk, trn, moved, b),
           NEW b2, BoardOk(b2, text, moved)
    PROVE  FieldOk(text, ups, ans, n, brk, trn, moved, b2)
BY DEF FieldOk

\* A selection is chosen: the placeholder of its first picture is put in.
LEMMA FieldChosen ==
    ASSUME NEW text, NEW ups, NEW ans, NEW n, NEW brk, NEW trn, NEW moved, NEW b,
           FieldOk(text, ups, ans, n, brk, trn, moved, b),
           NEW files \in Seq(Hash), files # <<>>,
           NEW c, c = [call |-> <<n, Len(files)>>, rest |-> files, step |-> "sent"],
           NEW n2, n2 = n + Len(files), NEW ups2, ups2 = ups \cup {c},
           NEW at \in 0..Len(text), NEW to \in Nat, at <= to,
           NEW r, r = Splice(text, at, to, Placeholder(Token(c))),
           NEW moved2, KnowsMoves(b, text, r, moved, moved2)
    PROVE  FieldOk(r, ups2, ans, n2, brk \cup (Intact(text) \ Intact(r)), trn, moved2, b)
<1>1. /\ NamesInv(ups, ans, n) /\ MarksNamed(text, ups, n)
      /\ BodyInv(text, Live(ups), ans, brk \cup trn, moved)
      /\ ShapesKnown(text)
      /\ ~moved /\ AllDrawings \notin brk \cup trn => Balanced(text)
      /\ BoardOk(b, text, moved)
  BY DEF FieldOk
<1>2. IsText(text) /\ PicturesKnown(text, ans) /\ (~moved2 => ~moved)
  BY <1>1 DEF BodyInv, KnowsMoves
<1>3. /\ NamesInv(ups2, ans, n2) /\ Live(ups2) = Live(ups) \cup {Token(c)}
      /\ \A k : Named(k, ups, n) => Named(k, ups2, n2) /\ k # Token(c)
      /\ Named(Token(c), ups2, n2)
  <2>1. Begun(c, ups, n, ups2, ans, n2)
    BY <1>1, CallBegins
  <2> QED
    BY <2>1 DEF Begun
<1> DEFINE new == Placeholder(Token(c))
           gone == Intact(text) \ Intact(r)
<1>4. /\ IsText(new) /\ Len(new) = 2 /\ 1..2 = {1, 2}
      /\ new[1] = <<"uploading", Token(c), 1>> /\ new[2] = <<"uploading", Token(c), 2>>
  BY Marks
<1>5. at \in Nat /\ at <= to
  BY <1>2 DEF IsText
<1>6. MarksNamed(text, ups2, n2)
  BY <1>1, <1>3 DEF MarksNamed
<1>7. MarksNamed(new, ups2, n2) /\ ShapesKnown(new)
  <2> HIDE DEF new
  <2> QED
    BY <1>3, <1>4 DEF MarksNamed, ShapesKnown
<1>8. MarksNamed(r, ups2, n2)
  BY <1>2, <1>4, <1>5, <1>6, <1>7, SplicedNamed
<1>9. ShapesKnown(r)
  BY <1>1, <1>2, <1>4, <1>5, <1>7, SplicedShapes
<1>10. Token(c) \notin ans
  BY <1>1, <1>3 DEF NamesInv
<1>11. \A i \in 1..Len(text) : text[i][1] = "uploading" => text[i][2] # Token(c)
  BY <1>1, <1>3 DEF MarksNamed
<1>12. Token(c) # AllDrawings
  <2>1. AllDrawings \notin ans \cup Live(ups2)
    BY <1>2, <1>3, <1>6, NamesAllow
  <2> QED
    BY <1>3, <2>1
<1>13. BodyInv(r, Live(ups) \cup {Token(c)}, ans, (brk \cup trn) \cup gone, moved)
  BY <1>1, <1>10, <1>11, <1>12, PlacedBody
<1> HIDE DEF gone
<1>14. BodyInv(r, Live(ups2), ans, (brk \cup gone) \cup trn, moved2)
  <2>1. (brk \cup trn) \cup gone = (brk \cup gone) \cup trn
    OBVIOUS
  <2> QED
    BY <1>2, <1>3, <1>13, <2>1 DEF BodyInv
<1>15. IsText(r) /\ PicturesKnown(r, ans)
  BY <1>13 DEF BodyInv
<1>16. Nameable(text) /\ Nameable(r)
  BY <1>2, <1>3, <1>6, <1>8, <1>15, NamesAllow
<1>17. ~moved2 /\ AllDrawings \notin (brk \cup gone) \cup trn => Balanced(r)
  BY <1>1, <1>2, <1>15, <1>16, CutDrawings DEF gone
<1>18. BoardOk(b, r, moved2)
  BY <1>1, <1>2, <1>15, BoardStays
<1> QED
  BY <1>3, <1>8, <1>9, <1>14, <1>17, <1>18 DEF FieldOk, gone

\* The answer for c: its picture is kept or refused.
Settles(c, kept, new, text, filled, ans, ans2) ==
    /\ kept \in BOOLEAN
    /\ new = IF kept THEN Address(Token(c)) ELSE <<>>
    /\ filled = ReplaceFirstSubSeq(new, Placeholder(Token(c)), text)
    /\ ans2 = IF kept THEN ans \cup {Token(c)} ELSE ans

\* The last picture of a call has its answer.
LEMMA FieldEnds ==
    ASSUME NEW text, NEW ups, NEW ans, NEW n, NEW brk, NEW trn, NEW moved, NEW b,
           FieldOk(text, ups, ans, n, brk, trn, moved, b),
           NEW c \in ups, NEW kept, NEW new, NEW r, NEW ans2,
           Settles(c, kept, new, text, r, ans, ans2),
           NEW ups2, ups2 = ups \ {c},
           NEW moved2, KnowsMoves(b, text, r, moved, moved2)
    PROVE  FieldOk(r, ups2, ans2, n, brk, trn, moved2, b)
<1> USE DEF Settles
<1>1. /\ NamesInv(ups, ans, n) /\ MarksNamed(text, ups, n)
      /\ BodyInv(text, Live(ups), ans, brk \cup trn, moved)
      /\ ShapesKnown(text)
      /\ ~moved /\ AllDrawings \notin brk \cup trn => Balanced(text)
      /\ BoardOk(b, text, moved)
  BY DEF FieldOk
<1>2. IsText(text) /\ (~moved2 => ~moved)
  BY <1>1 DEF BodyInv, KnowsMoves
<1>3. NamesInv(ups2, ans2, n) /\ \A k : Named(k, ups, n) => Named(k, ups2, n)
  <2>1. ans2 \subseteq ans \cup {Token(c)}
    OBVIOUS
  <2> QED
    BY <1>1, <2>1, CallEnds
<1>4. Token(c) \in Live(ups) /\ Live(ups2) = Live(ups) \ {Token(c)}
  BY <1>1, LiveWithout DEF Live
<1>5. BodyInv(r, Live(ups2), ans2, brk \cup trn, moved)
  <2>1. BodyInv(r, Live(ups) \ {Token(c)}, ans2, brk \cup trn, moved)
    BY <1>1, <1>4, FilledBody
  <2> QED
    BY <1>4, <2>1
<1>6. BodyInv(r, Live(ups2), ans2, brk \cup trn, moved2)
  BY <1>2, <1>5 DEF BodyInv
<1>7. MarksNamed(r, ups2, n)
  <2>1. MarksNamed(text, ups2, n)
    BY <1>1, <1>3 DEF MarksNamed
  <2> QED
    BY <1>2, <2>1, FilledNamed
<1>8. ShapesKnown(r)
  BY <1>1, <1>2, FilledShapes
<1>9. ~moved2 /\ AllDrawings \notin brk \cup trn => Balanced(r)
  BY <1>1, <1>2, FilledDrawings
<1>10. BoardOk(b, r, moved2)
  <2>1. IsText(r)
    BY <1>6 DEF BodyInv
  <2> QED
    BY <1>1, <1>2, <2>1, BoardStays
<1> QED
  BY <1>3, <1>6, <1>7, <1>8, <1>9, <1>10 DEF FieldOk

\* The call goes on to its next picture, whose placeholder is put in.
Advances(c, d, ups, ups2) ==
    /\ c \in ups /\ Tail(c.rest) # <<>>
    /\ d \in Calls /\ d.call = <<c.call[1], c.call[2] - 1>> /\ d.rest = Tail(c.rest)
    /\ ups2 = (ups \ {c}) \cup {d}

PutsNext(d, filled, at, to, r, trn, trn2) ==
    /\ at \in 0..Len(filled) /\ to \in Nat /\ at <= to
    /\ r = Splice(filled, at, to, Placeholder(Token(d)))
    /\ trn2 = trn \cup (Intact(filled) \ Intact(r))

LEMMA FieldGoesOn ==
    ASSUME NEW text, NEW ups, NEW ans, NEW n, NEW brk, NEW trn, NEW moved, NEW b,
           FieldOk(text, ups, ans, n, brk, trn, moved, b),
           NEW c, NEW d, NEW ups2, Advances(c, d, ups, ups2),
           NEW kept, NEW new, NEW filled, NEW ans2,
           Settles(c, kept, new, text, filled, ans, ans2),
           NEW at, NEW to, NEW r, NEW trn2, PutsNext(d, filled, at, to, r, trn, trn2),
           NEW moved2, KnowsMoves(b, text, r, moved, moved2)
    PROVE  FieldOk(r, ups2, ans2, n, brk, trn2, moved2, b)
<1> USE DEF Advances, Settles, PutsNext
<1>1. /\ NamesInv(ups, ans, n) /\ MarksNamed(text, ups, n)
      /\ BodyInv(text, Live(ups), ans, brk \cup trn, moved)
      /\ ShapesKnown(text)
      /\ ~moved /\ AllDrawings \notin brk \cup trn => Balanced(text)
      /\ BoardOk(b, text, moved)
  BY DEF FieldOk
<1>2. IsText(text) /\ (~moved2 => ~moved)
  BY <1>1 DEF BodyInv, KnowsMoves
<1>3. /\ NamesInv(ups2, ans2, n)
      /\ Live(ups2) = (Live(ups) \ {Token(c)}) \cup {Token(d)}
      /\ \A k : Named(k, ups, n) => Named(k, ups2, n) /\ k # Token(d)
      /\ Named(Token(d), ups2, n)
  <2>1. ans2 \subseteq ans \cup {Token(c)}
    OBVIOUS
  <2>2. GoesOn(c, d, ups, n, ups2, ans2)
    BY <1>1, <2>1, CallGoesOn
  <2> QED
    BY <2>2 DEF GoesOn
<1>4. Token(c) \in Live(ups)
  BY DEF Live
<1>5. BodyInv(filled, Live(ups) \ {Token(c)}, ans2, brk \cup trn, moved)
  BY <1>1, <1>4, FilledBody
<1>6. IsText(filled) /\ PicturesKnown(filled, ans2)
  BY <1>5 DEF BodyInv
<1>7. at \in Nat
  BY <1>6 DEF IsText
<1>8. MarksNamed(filled, ups, n)
  BY <1>1, <1>2, FilledNamed
<1>9. MarksNamed(filled, ups2, n)
  BY <1>3, <1>8 DEF MarksNamed
<1> DEFINE put == Placeholder(Token(d))
<1>10. /\ IsText(put) /\ Len(put) = 2 /\ 1..2 = {1, 2}
       /\ put[1] = <<"uploading", Token(d), 1>> /\ put[2] = <<"uploading", Token(d), 2>>
  BY Marks
<1>11. MarksNamed(put, ups2, n) /\ ShapesKnown(put)
  <2> HIDE DEF put
  <2> QED
    BY <1>3, <1>10 DEF MarksNamed, ShapesKnown
<1>12. MarksNamed(r, ups2, n)
  BY <1>6, <1>7, <1>9, <1>10, <1>11, SplicedNamed
<1>13. ShapesKnown(r)
  <2>1. ShapesKnown(filled)
    BY <1>1, <1>2, FilledShapes
  <2> QED
    BY <1>6, <1>7, <1>10, <1>11, <2>1, SplicedShapes
<1>14. Token(d) \notin ans2
  <2>1. d.call[2] = Len(d.rest)
    BY <1>3 DEF NamesInv
  <2>2. Token(d)[1] = d.call
    BY <2>1, TokenParts
  <2> QED
    BY <1>3, <2>2 DEF NamesInv
<1>15. Token(d) # AllDrawings
  <2>1. AllDrawings \notin ans2 \cup Live(ups2)
    BY <1>3, <1>6, <1>9, NamesAllow
  <2> QED
    BY <1>3, <2>1
<1>16. \A i \in 1..Len(filled) : filled[i][1] = "uploading" => filled[i][2] # Token(d)
  BY <1>3, <1>8 DEF MarksNamed
<1> DEFINE gone == Intact(filled) \ Intact(r)
<1>17. BodyInv(r, Live(ups2), ans2, brk \cup trn2, moved)
  <2>1. BodyInv(r, (Live(ups) \ {Token(c)}) \cup {Token(d)}, ans2,
                (brk \cup trn) \cup gone, moved)
    BY <1>5, <1>14, <1>15, <1>16, PlacedBody
  <2> HIDE DEF gone
  <2>2. brk \cup trn2 = (brk \cup trn) \cup gone
    BY DEF gone
  <2> QED
    BY <1>3, <2>1, <2>2
<1>18. BodyInv(r, Live(ups2), ans2, brk \cup trn2, moved2)
  BY <1>2, <1>17 DEF BodyInv
<1>19. IsText(r) /\ PicturesKnown(r, ans2)
  BY <1>17 DEF BodyInv
<1>20. Nameable(filled) /\ Nameable(r)
  BY <1>3, <1>6, <1>9, <1>12, <1>19, NamesAllow
<1>21. ~moved2 /\ AllDrawings \notin brk \cup trn2 => Balanced(r)
  <2> SUFFICES ASSUME ~moved2, AllDrawings \notin brk \cup trn2 PROVE Balanced(r)
    OBVIOUS
  <2>1. AllDrawings \notin (brk \cup trn) \cup (Intact(filled) \ Intact(r))
    OBVIOUS
  <2>2. ~moved /\ AllDrawings \notin brk \cup trn => Balanced(filled)
    BY <1>1, <1>2, FilledDrawings
  <2> QED
    BY <1>2, <1>6, <1>19, <1>20, <2>1, <2>2, CutDrawings
<1>22. BoardOk(b, r, moved2)
  BY <1>1, <1>2, <1>19, BoardStays
<1> QED
  BY <1>3, <1>12, <1>13, <1>18, <1>21, <1>22 DEF FieldOk

\* A drawing that the board has made can be read again.
LEMMA DrawingKnown ==
    ASSUME NEW shapes, IsText(shapes)
    PROVE  ShapesKnown(Drawing(shapes))
<1> DEFINE new == Drawing(shapes)
<1>1. IsText(ShapesToSvg(shapes))
  BY MappedTexts
<1>2. new = <<SvgOpen, <<"shapes", ShapesToSvg(shapes), 1>>, SvgClose>>
  BY DEF Drawing
<1>3. Len(new) = 3 /\ 1..3 = {1, 2, 3} /\ new[1] = SvgOpen /\ new[3] = SvgClose
      /\ new[2] = <<"shapes", ShapesToSvg(shapes), 1>>
  BY <1>2
<1> HIDE DEF new
<1>4. \A i \in 1..Len(new) : new[i][1] = "shapes" => i = 2
  BY <1>3 DEF SvgOpen, SvgClose
<1>5. ShapesKnown(new)
  BY <1>1, <1>3, <1>4 DEF ShapesKnown
<1> QED
  BY <1>5 DEF new

\* The board's drawing takes the place of an old one.
LEMMA FieldReplaced ==
    ASSUME NEW text, NEW ups, NEW ans, NEW n, NEW brk, NEW trn, NEW moved, NEW b,
           FieldOk(text, ups, ans, n, brk, trn, moved, b),
           b # Absent, b.range # Absent,
           NEW from, from = Min({b.range[1], Len(text)}), NEW to, to = b.range[2],
           NEW gone,
           gone = Intact(SubSeq(text, from + 1, Min({to, Len(text)}))) \ {AllDrawings},
           NEW r, r = Splice(text, from, to, Drawing(b.shapes))
    PROVE  FieldOk(r, ups, ans, n, brk \cup gone, trn, moved, Absent)
<1>1. /\ NamesInv(ups, ans, n) /\ MarksNamed(text, ups, n)
      /\ BodyInv(text, Live(ups), ans, brk \cup trn, moved)
      /\ ShapesKnown(text)
      /\ ~moved /\ AllDrawings \notin brk \cup trn => Balanced(text)
      /\ BoardOk(b, text, moved)
  BY DEF FieldOk
<1>2. IsText(text) /\ Len(text) \in Nat
  BY <1>1 DEF BodyInv, IsText
<1>3. /\ b.range[1] \in Nat /\ b.range[2] \in Nat /\ b.range[1] < b.range[2]
      /\ ~moved => Block(text, b.range[1], b.range[2])
  BY <1>1 DEF BoardOk
<1>4. PICK f \in Nat : f = b.range[1] /\ f < to
  BY <1>3
<1>5. from = (IF f <= Len(text) THEN f ELSE Len(text)) /\ to \in Nat
  BY <1>2, <1>3, <1>4, MinOfTwo
<1>6. from \in 0..Len(text) /\ to \in Nat /\ from < to /\ from <= to
  <2>1. PICK l \in Nat : l = Len(text)
    BY <1>2
  <2>2. from = IF f <= l THEN f ELSE l
    BY <1>5, <2>1
  <2>3. to \in Nat /\ f < to
    BY <1>4, <1>5
  <2>4. from \in 0..l /\ from <= f
    BY <2>2
  <2>5. from < to /\ from <= to
    BY <2>3, <2>4
  <2> QED
    BY <2>1, <2>3, <2>4, <2>5
<1>7. ASSUME ~moved PROVE Block(text, from, to)
  <2>1. Block(text, f, to)
    BY <1>3, <1>4, <1>7
  <2>2. f <= Len(text)
    BY <1>2, <1>4, <2>1 DEF Block
  <2>3. from = f
    BY <1>5, <2>2
  <2> QED
    BY <2>1, <2>3
<1>8. ~moved => to <= Len(text) /\ text[from + 1][1] = "svg" /\ text[to][1] = "svg"
  <2>1. SvgOpen[1] = "svg" /\ SvgClose[1] = "svg"
    BY DEF SvgOpen, SvgClose
  <2> QED
    BY <1>7, <2>1, Zenon DEF Block
<1> DEFINE new == Drawing(b.shapes)
<1>9. IsText(new) /\ Unmarked(new)
  BY DrawingParts
<1>10. ShapesKnown(new)
  BY <1>1, DrawingKnown DEF BoardOk
<1>11. BodyInv(r, Live(ups), ans, (brk \cup trn) \cup gone, moved)
  BY <1>1, <1>6, <1>8, <1>9, ReplacedBody
<1>12. BodyInv(r, Live(ups), ans, (brk \cup gone) \cup trn, moved)
  <2>1. (brk \cup trn) \cup gone = (brk \cup gone) \cup trn
    OBVIOUS
  <2> QED
    BY <1>11, <2>1
<1>13. MarksNamed(r, ups, n)
  <2>1. MarksNamed(new, ups, n)
    BY <1>9 DEF Unmarked, MarksNamed
  <2> QED
    BY <1>1, <1>2, <1>6, <1>9, <2>1, SplicedNamed
<1>14. ShapesKnown(r)
  BY <1>1, <1>2, <1>6, <1>9, <1>10, SplicedShapes
<1>15. ~moved /\ AllDrawings \notin (brk \cup gone) \cup trn => Balanced(r)
  <2> SUFFICES ASSUME ~moved, AllDrawings \notin brk \cup trn PROVE Balanced(r)
    OBVIOUS
  <2>1. Alternates(text)
    BY <1>1, <1>2, BalancedText
  <2>2. Alternates(r)
    BY <1>2, <1>7, <2>1, DrawnAlternates
  <2>3. IsText(r)
    BY <1>12 DEF BodyInv
  <2> QED
    BY <2>2, <2>3, BalancedText
<1>16. BoardOk(Absent, r, moved)
  BY DEF BoardOk
<1> QED
  BY <1>1, <1>12, <1>13, <1>14, <1>15, <1>16 DEF FieldOk

-----------------------------------------------------------------------------
(* The files of the pictures *)

FileStates == {"none", "partial", "whole"}

\* What is true of a picture that no two requests wrote and no crash cut short: now is
\* its file, seen what a browser keeps of it.
HashOk(h, now, seen, ups, ans) ==
    /\ \A c \in ups : Head(c.rest) = h /\ c.step = "kept" => now = "whole"
    /\ \A c \in ups : Head(c.rest) = h /\ c.step = "writing" => now = "partial"
    /\ \A c, d \in ups :
        Head(c.rest) = h /\ c.step = "writing" /\ Head(d.rest) = h /\ d.step = "writing" => c = d
    /\ (\E k \in ans : k[2] = h) => now = "whole"
    /\ seen # "partial"
    /\ now = "partial" => \E c \in ups : Head(c.rest) = h /\ c.step = "writing"

DiskOk(files, kept, ups, ans, uns) ==
    /\ files \in [Hash -> FileStates] /\ kept \in [Hash -> FileStates]
    /\ \A h \in Hash \ uns : HashOk(h, files[h], kept[h], ups, ans)

\* The parts of HashOk, for the proofs below.
LEMMA HashParts ==
    ASSUME NEW h, NEW now, NEW seen, NEW ups, NEW ans,
           \A c \in ups : Head(c.rest) = h /\ c.step = "kept" => now = "whole",
           \A c \in ups : Head(c.rest) = h /\ c.step = "writing" => now = "partial",
           \A c, d \in ups :
            Head(c.rest) = h /\ c.step = "writing" /\ Head(d.rest) = h /\ d.step = "writing"
                => c = d,
           (\E k \in ans : k[2] = h) => now = "whole",
           seen # "partial",
           now = "partial" => \E c \in ups : Head(c.rest) = h /\ c.step = "writing"
    PROVE  HashOk(h, now, seen, ups, ans)
BY Zenon DEF HashOk

\* The file stays, and nobody begins or ends to write it.
LEMMA FileStays ==
    ASSUME NEW h, NEW now, NEW seen, NEW ups, NEW ans, HashOk(h, now, seen, ups, ans),
           NEW ups2, NEW ans2,
           \A c \in ups2 : Head(c.rest) = h /\ c.step = "kept" => c \in ups \/ now = "whole",
           \A c \in ups2 : Head(c.rest) = h /\ c.step = "writing" => c \in ups,
           \A c \in ups : Head(c.rest) = h /\ c.step = "writing" => c \in ups2,
           \A k \in ans2 : k[2] = h => k \in ans \/ now = "whole"
    PROVE  HashOk(h, now, seen, ups2, ans2)
<1>1. \A c \in ups2 : Head(c.rest) = h /\ c.step = "kept" => now = "whole"
  BY DEF HashOk
<1>2. \A c \in ups2 : Head(c.rest) = h /\ c.step = "writing" => now = "partial"
  BY DEF HashOk
<1>3. \A c, d \in ups2 :
        Head(c.rest) = h /\ c.step = "writing" /\ Head(d.rest) = h /\ d.step = "writing" => c = d
  BY DEF HashOk
<1>4. (\E k \in ans2 : k[2] = h) => now = "whole"
  BY DEF HashOk
<1>5. seen # "partial"
  BY DEF HashOk
<1>6. now = "partial" => \E c \in ups2 : Head(c.rest) = h /\ c.step = "writing"
  BY DEF HashOk
<1> QED
  BY <1>1, <1>2, <1>3, <1>4, <1>5, <1>6, HashParts, Zenon

\* The file of this picture is opened,
LEMMA FileOpened ==
    ASSUME NEW h, NEW seen, NEW ups, NEW ans, HashOk(h, "none", seen, ups, ans),
           NEW c, NEW d, Head(d.rest) = h, d.step = "writing",
           NEW ups2, ups2 = (ups \ {c}) \cup {d}
    PROVE  HashOk(h, "partial", seen, ups2, ans)
BY DEF HashOk

\* and closed.
LEMMA FileClosed ==
    ASSUME NEW h, NEW now, NEW seen, NEW ups, NEW ans, HashOk(h, now, seen, ups, ans),
           NEW c \in ups, Head(c.rest) = h, c.step = "writing",
           NEW d, Head(d.rest) = h, d.step = "kept",
           NEW ups2, ups2 = (ups \ {c}) \cup {d}
    PROVE  HashOk(h, "whole", seen, ups2, ans)
<1>1. \A e \in ups2 : ~(Head(e.rest) = h /\ e.step = "writing")
  BY DEF HashOk
<1>2. seen # "partial"
  BY DEF HashOk
<1>3. \A e \in ups2 : Head(e.rest) = h /\ e.step = "writing" => "whole" = "partial"
  BY <1>1
<1>4. \A e, f \in ups2 :
        Head(e.rest) = h /\ e.step = "writing" /\ Head(f.rest) = h /\ f.step = "writing" => e = f
  BY <1>1
<1>5. "whole" = "partial" => \E e \in ups2 : Head(e.rest) = h /\ e.step = "writing"
  OBVIOUS
<1> QED
  BY <1>2, <1>3, <1>4, <1>5, HashParts, Zenon

\* What the other pictures have to do with a step of a request.
LEMMA OtherFiles ==
    ASSUME NEW h, NEW now, NEW seen, NEW ups, NEW ans, HashOk(h, now, seen, ups, ans),
           NEW c \in ups, Head(c.rest) # h, NEW d, Head(d.rest) # h,
           NEW ups2, ups2 = (ups \ {c}) \cup {d}
    PROVE  HashOk(h, now, seen, ups2, ans)
BY DEF HashOk

-----------------------------------------------------------------------------
(* The inductive invariant *)

Spent == [typed : Nat, pictures : Nat, boards : Nat, crashes : Nat]

EditorInv ==
    /\ spent \in Spent
    /\ FieldOk(body, uploads, answered, spent.pictures, broken, torn, shifted, board)
    /\ DiskOk(disk, cached, uploads, answered, unsafe)

\* What was counted stays a number.
LEMMA CountedParts ==
    ASSUME spent \in Spent, NEW n \in Nat, NEW max
    PROVE  /\ Counted("typed", n, max) => spent' \in Spent /\ spent'.pictures = spent.pictures
           /\ Counted("boards", n, max) => spent' \in Spent /\ spent'.pictures = spent.pictures
           /\ Counted("crashes", n, max) => spent' \in Spent /\ spent'.pictures = spent.pictures
           /\ Counted("pictures", n, max) =>
                spent' \in Spent /\ spent'.pictures = spent.pictures + n
BY DEF Counted, Spent

LEMMA EditorStarts == InitEditor => EditorInv
<1> SUFFICES ASSUME InitEditor PROVE EditorInv
  OBVIOUS
<1>1. /\ body \in Bodies
      /\ uploads = {} /\ board = Absent
      /\ disk = [h \in Hash |-> "none"] /\ cached = disk
      /\ spent = [typed |-> 0, pictures |-> 0, boards |-> 0, crashes |-> 0]
      /\ answered = {} /\ broken = {AllDrawings} \ Intact(body) /\ torn = {}
      /\ shifted = FALSE /\ unsafe = {}
  BY DEF InitEditor
<1>2. spent \in Spent /\ spent.pictures = 0
  BY <1>1 DEF Spent
<1>3. DiskOk(disk, cached, uploads, answered, unsafe)
  BY <1>1 DEF DiskOk, HashOk, FileStates
<1>4. /\ body \in Seq(ToSet(body))
      /\ \A i \in DOMAIN body : /\ body[i][1] \notin {"uploading", "picture"}
                                /\ body[i][1] = "shapes" => body[i][2] \in Seq(ToSet(body[i][2]))
  BY <1>1, EditorAssumption
<1>5. IsText(body) /\ DOMAIN body = 1..Len(body)
  BY <1>4, TextOfSeq
<1>6. Unmarked(body) /\ ShapesKnown(body)
  BY <1>4, <1>5, TextOfSeq DEF Unmarked, ShapesKnown
<1>7. Live(uploads) = {}
  BY <1>1 DEF Live
<1>8. BodyInv(body, {}, {}, broken \cup torn, FALSE)
  BY <1>5, <1>6 DEF BodyInv, Unmarked, MarksOnce, PicturesKnown, NoneLeft, AllThere
<1>9. NamesInv({}, {}, 0) /\ MarksNamed(body, {}, 0)
  BY <1>6 DEF NamesInv, MarksNamed, Unmarked
<1>10. AllDrawings \notin broken \cup torn => Balanced(body)
  <2>1. Nameable(body)
    BY <1>6 DEF Nameable, Unmarked
  <2> QED
    BY <1>1, <1>5, <2>1, DrawingsIntact
<1>11. FieldOk(body, uploads, answered, spent.pictures, broken, torn, shifted, board)
  BY <1>1, <1>2, <1>6, <1>7, <1>8, <1>9, <1>10 DEF FieldOk, BoardOk
<1> QED
  BY <1>2, <1>3, <1>11 DEF EditorInv

\* What is selected, and what the board knows of a body that becomes another one.
LEMMA SelectedParts ==
    ASSUME EditorInv, NEW range \in Selected
    PROVE  /\ Len(body) \in Nat /\ range[1] \in 0..Len(body) /\ range[2] \in 0..Len(body)
           /\ range[1] \in Nat /\ range[2] \in Nat /\ range[1] <= range[2]
<1>1. Len(body) \in Nat
  BY DEF EditorInv, FieldOk, BodyInv, IsText
<1>2. range \in (0..Len(body)) \X (0..Len(body)) /\ range[1] <= range[2]
  BY DEF Selected, Cursor
<1>3. range[1] \in 0..Len(body) /\ range[2] \in 0..Len(body)
  BY <1>2
<1> QED
  BY <1>1, <1>2, <1>3

LEMMA BecomesKnown ==
    ASSUME NEW text, Becomes(text)
    PROVE  body' = text /\ KnowsMoves(board, body, body', shifted, shifted')
BY Zenon DEF Becomes, DrawingMoves, KnowsMoves, StaysUpTo

\* A key is typed or erases.
LEMMA TypedKeeps ==
    ASSUME EditorInv, NEW range \in Selected,
           TypeKey(range[1], range[2]) \/ EraseKey(range[1], range[2])
    PROVE  EditorInv'
<1>1. /\ spent \in Spent
      /\ FieldOk(body, uploads, answered, spent.pictures, broken, torn, shifted, board)
      /\ DiskOk(disk, cached, uploads, answered, unsafe)
  BY DEF EditorInv
<1>2. PICK from, to : from = range[1] /\ to = range[2]
  OBVIOUS
<1>3. from \in 0..Len(body) /\ to \in Nat /\ from <= to
  BY <1>2, SelectedParts
<1>4. spent' \in Spent /\ spent'.pictures = spent.pictures
  BY <1>1, CountedParts DEF TypeKey, EraseKey
<1>5. /\ board' = board /\ uploads' = uploads /\ answered' = answered /\ torn' = torn
      /\ disk' = disk /\ cached' = cached /\ unsafe' = unsafe
  BY DEF TypeKey, EraseKey
<1>6. PICK new \in {<<Letter>>, <<>>} : Writes(Splice(body, from, to, new))
  BY <1>2 DEF TypeKey, EraseKey
<1>7. IsText(new) /\ Unmarked(new) /\ ShapesKnown(new)
  <2>1. CASE new = <<Letter>>
    <3>1. new \in Seq({Letter}) /\ Len(new) = 1 /\ new[1] = Letter /\ 1..1 = {1}
      BY <2>1
    <3> QED
      BY <3>1, TextOfSeq DEF Unmarked, ShapesKnown, Letter
  <2>2. CASE new = <<>>
    <3>1. new \in Seq({}) /\ 1..Len(new) = {}
      BY <2>2
    <3> QED
      BY <3>1, TextOfSeq DEF Unmarked, ShapesKnown
  <2> QED
    BY <2>1, <2>2
<1>8. /\ body' = Splice(body, from, to, new)
      /\ broken' = broken \cup (Intact(body) \ Intact(body'))
      /\ KnowsMoves(board, body, body', shifted, shifted')
  BY <1>6, BecomesKnown DEF Writes
<1>9. FieldOk(body', uploads, answered, spent.pictures, broken', torn, shifted', board)
  BY <1>1, <1>3, <1>7, <1>8, FieldWritten
<1> QED
  BY <1>1, <1>4, <1>5, <1>9 DEF EditorInv

\* Pictures are chosen.
LEMMA ChosenKeeps ==
    ASSUME EditorInv, NEW range \in Selected, NEW files \in Selections,
           Upload(files, range[1], range[2])
    PROVE  EditorInv'
<1>1. /\ spent \in Spent
      /\ FieldOk(body, uploads, answered, spent.pictures, broken, torn, shifted, board)
      /\ DiskOk(disk, cached, uploads, answered, unsafe)
  BY DEF EditorInv
<1>2. PICK from, to : from = range[1] /\ to = range[2]
  OBVIOUS
<1>3. from \in 0..Len(body) /\ to \in Nat /\ from <= to
  BY <1>2, SelectedParts
<1>4. files \in Seq(Hash) /\ files # <<>> /\ Len(files) \in Nat
  BY EditorAssumption
<1>5. spent' \in Spent /\ spent'.pictures = spent.pictures + Len(files)
  BY <1>1, <1>4, CountedParts DEF Upload
<1>6. PICK c : c = [call |-> <<spent.pictures, Len(files)>>, rest |-> files, step |-> "sent"]
  OBVIOUS
<1>7. /\ uploads' = uploads \cup {c}
      /\ Writes(Splice(body, from, to, Placeholder(Token(c))))
      /\ board' = board /\ answered' = answered /\ torn' = torn
      /\ disk' = disk /\ cached' = cached /\ unsafe' = unsafe
  BY <1>2, <1>6 DEF Upload
<1>8. /\ body' = Splice(body, from, to, Placeholder(Token(c)))
      /\ broken' = broken \cup (Intact(body) \ Intact(body'))
      /\ KnowsMoves(board, body, body', shifted, shifted')
  BY <1>7, BecomesKnown DEF Writes
<1>9. FieldOk(body', uploads', answered, spent'.pictures, broken', torn, shifted', board)
  BY <1>1, <1>3, <1>4, <1>5, <1>6, <1>7, <1>8, FieldChosen
<1>10. DiskOk(disk, cached, uploads', answered, unsafe)
  <2>1. c.step = "sent"
    BY <1>6
  <2>2. ASSUME NEW h \in Hash \ unsafe
        PROVE  HashOk(h, disk[h], cached[h], uploads', answered)
    <3>1. HashOk(h, disk[h], cached[h], uploads, answered)
      BY <1>1 DEF DiskOk
    <3>2. /\ \A d \in uploads' : d.step \in {"kept", "writing"} => d \in uploads
          /\ \A d \in uploads : d \in uploads'
      BY <1>7, <2>1
    <3> QED
      BY <3>1, <3>2, FileStays
  <2> QED
    BY <1>1, <2>2 DEF DiskOk
<1> QED
  BY <1>5, <1>7, <1>9, <1>10 DEF EditorInv

\* A request goes on by a step, as d.
StepsTo(c, d, ups, ups2, s) ==
    /\ d.call = c.call /\ d.rest = c.rest /\ d.step = s
    /\ ups2 = (ups \ {c}) \cup {d}

LEMMA RequestSteps ==
    ASSUME EditorInv, NEW c \in uploads, NEW s \in CallSteps, Steps(c, s)
    PROVE  /\ \E d : StepsTo(c, d, uploads, uploads', s)
           /\ FieldOk(body, uploads', answered, spent.pictures, broken, torn, shifted, board)
<1>1. FieldOk(body, uploads, answered, spent.pictures, broken, torn, shifted, board)
  BY DEF EditorInv
<1>2. NamesInv(uploads, answered, spent.pictures)
  BY <1>1 DEF FieldOk
<1>3. c \in Calls
  BY <1>2 DEF NamesInv
<1>4. PICK d : d = [c EXCEPT !.step = s]
  OBVIOUS
<1>5. d \in Calls /\ d.call = c.call /\ d.rest = c.rest /\ d.step = s
  BY <1>3, <1>4, SteppedCall
<1>6. uploads' = (uploads \ {c}) \cup {d}
  BY <1>4 DEF Steps
<1>7. /\ NamesInv(uploads', answered, spent.pictures) /\ Live(uploads') = Live(uploads)
      /\ \A k : Named(k, uploads, spent.pictures) => Named(k, uploads', spent.pictures)
  <2>1. PICK ups2, n : ups2 = uploads' /\ n = spent.pictures
    OBVIOUS
  <2>2. NamesInv(uploads, answered, n) /\ d.call = c.call /\ d.rest = c.rest
    BY <1>2, <1>5, <2>1
  <2>3. ups2 = (uploads \ {c}) \cup {d} /\ c \in uploads /\ d \in Calls
    BY <1>5, <1>6, <2>1
  <2>4. /\ NamesInv(ups2, answered, n) /\ Live(ups2) = Live(uploads)
        /\ \A k : Named(k, uploads, n) => Named(k, ups2, n)
    BY <2>2, <2>3, CallStepped
  <2> QED
    BY <2>1, <2>4
<1>8. FieldOk(body, uploads', answered, spent.pictures, broken, torn, shifted, board)
  BY <1>1, <1>7, FieldCalls
<1> QED
  BY <1>5, <1>6, <1>8 DEF StepsTo

\* The file of this name is there or not; a file that is not all there is another's.
LEMMA LookedKeeps ==
    ASSUME EditorInv, NEW c \in uploads, LookForFile(c)
    PROVE  EditorInv'
<1> DEFINE h == Head(c.rest)
<1>1. /\ spent \in Spent
      /\ DiskOk(disk, cached, uploads, answered, unsafe)
  BY DEF EditorInv
<1>2. PICK s \in CallSteps : s = IF disk[h] = "none" THEN "absent" ELSE "kept"
  BY DEF CallSteps
<1>3. /\ c.step = "sent" /\ Steps(c, s)
      /\ unsafe' = IF disk[h] = "partial" THEN unsafe \cup {h} ELSE unsafe
      /\ body' = body /\ board' = board /\ disk' = disk /\ cached' = cached
      /\ spent' = spent /\ answered' = answered /\ broken' = broken /\ torn' = torn
      /\ shifted' = shifted
  BY <1>2 DEF LookForFile
<1>4. /\ \E d : StepsTo(c, d, uploads, uploads', s)
      /\ FieldOk(body, uploads', answered, spent.pictures, broken, torn, shifted, board)
  BY <1>3, RequestSteps
<1>5. PICK d : StepsTo(c, d, uploads, uploads', s)
  BY <1>4
<1> HIDE DEF h
<1>6. ASSUME NEW g \in Hash \ unsafe'
      PROVE  HashOk(g, disk[g], cached[g], uploads', answered)
  <2>1. g \in Hash \ unsafe /\ (g = h => disk[h] # "partial")
    BY <1>3
  <2>2. HashOk(g, disk[g], cached[g], uploads, answered) /\ disk[g] \in FileStates
    BY <1>1, <2>1 DEF DiskOk
  <2>3. \A e \in uploads' :
            Head(e.rest) = g /\ e.step = "kept" => e \in uploads \/ disk[g] = "whole"
    BY <1>2, <1>5, <2>1, <2>2 DEF StepsTo, FileStates, h
  <2>4. /\ \A e \in uploads' : e.step = "writing" => e \in uploads
        /\ \A e \in uploads : e.step = "writing" => e \in uploads'
    BY <1>2, <1>3, <1>5 DEF StepsTo
  <2> QED
    BY <2>2, <2>3, <2>4, FileStays
<1>7. DiskOk(disk, cached, uploads', answered, unsafe')
  BY <1>1, <1>6 DEF DiskOk
<1> QED
  BY <1>1, <1>3, <1>4, <1>7 DEF EditorInv

\* The file is opened and empty: another that writes it makes it unsafe.
LEMMA OpenedKeeps ==
    ASSUME EditorInv, NEW c \in uploads, OpenFile(c)
    PROVE  EditorInv'
<1> DEFINE h == Head(c.rest)
<1>1. /\ spent \in Spent
      /\ DiskOk(disk, cached, uploads, answered, unsafe)
  BY DEF EditorInv
<1>2. /\ c.step = "absent" /\ Steps(c, "writing")
      /\ disk' = [disk EXCEPT ![h] = "partial"]
      /\ unsafe' = IF disk[h] = "none" THEN unsafe ELSE unsafe \cup {h}
      /\ body' = body /\ board' = board /\ cached' = cached
      /\ spent' = spent /\ answered' = answered /\ broken' = broken /\ torn' = torn
      /\ shifted' = shifted
  BY DEF OpenFile
<1>3. "writing" \in CallSteps
  BY DEF CallSteps
<1>4. /\ \E d : StepsTo(c, d, uploads, uploads', "writing")
      /\ FieldOk(body, uploads', answered, spent.pictures, broken, torn, shifted, board)
  BY <1>2, <1>3, RequestSteps
<1>5. PICK d : StepsTo(c, d, uploads, uploads', "writing")
  BY <1>4
<1> HIDE DEF h
<1>6. Head(d.rest) = h /\ Head(c.rest) = h /\ d.step = "writing"
      /\ uploads' = (uploads \ {c}) \cup {d}
  BY <1>5 DEF StepsTo, h
<1>7. disk \in [Hash -> FileStates] /\ cached \in [Hash -> FileStates]
  BY <1>1 DEF DiskOk
<1>8. disk' \in [Hash -> FileStates]
  BY <1>2, <1>7 DEF FileStates
<1>9. ASSUME NEW g \in Hash \ unsafe'
      PROVE  HashOk(g, disk'[g], cached[g], uploads', answered)
  <2>1. g \in Hash \ unsafe /\ (g = h => disk[h] = "none")
    BY <1>2
  <2>2. HashOk(g, disk[g], cached[g], uploads, answered)
    BY <1>1, <2>1 DEF DiskOk
  <2>3. CASE g = h
    <3>1. disk'[g] = "partial"
      BY <1>2, <1>7, <2>3
    <3>2. HashOk(g, "none", cached[g], uploads, answered) /\ Head(d.rest) = g
      BY <1>6, <2>1, <2>2, <2>3
    <3> QED
      BY <1>6, <3>1, <3>2, FileOpened
  <2>4. CASE g # h
    <3>1. disk'[g] = disk[g]
      BY <1>2, <1>7, <2>4
    <3>2. Head(c.rest) # g /\ Head(d.rest) # g
      BY <1>6, <2>4
    <3> QED
      BY <1>6, <2>2, <3>1, <3>2, OtherFiles
  <2> QED
    BY <2>3, <2>4
<1>10. DiskOk(disk', cached, uploads', answered, unsafe')
  BY <1>7, <1>8, <1>9 DEF DiskOk
<1> QED
  BY <1>1, <1>2, <1>4, <1>10 DEF EditorInv

\* All of it is written: the file is whole, if only this request wrote it.
LEMMA ClosedKeeps ==
    ASSUME EditorInv, NEW c \in uploads, CloseFile(c)
    PROVE  EditorInv'
<1> DEFINE h == Head(c.rest)
<1>1. /\ spent \in Spent
      /\ DiskOk(disk, cached, uploads, answered, unsafe)
  BY DEF EditorInv
<1>2. /\ c.step = "writing" /\ Steps(c, "kept")
      /\ disk' = [disk EXCEPT ![h] = IF Writers(h) = {c} THEN "whole" ELSE @]
      /\ unsafe' = unsafe
      /\ body' = body /\ board' = board /\ cached' = cached
      /\ spent' = spent /\ answered' = answered /\ broken' = broken /\ torn' = torn
      /\ shifted' = shifted
  BY DEF CloseFile
<1>3. "kept" \in CallSteps
  BY DEF CallSteps
<1>4. /\ \E d : StepsTo(c, d, uploads, uploads', "kept")
      /\ FieldOk(body, uploads', answered, spent.pictures, broken, torn, shifted, board)
  BY <1>2, <1>3, RequestSteps
<1>5. PICK d : StepsTo(c, d, uploads, uploads', "kept")
  BY <1>4
<1> HIDE DEF h
<1>6. Head(d.rest) = h /\ Head(c.rest) = h /\ d.step = "kept"
      /\ uploads' = (uploads \ {c}) \cup {d}
  BY <1>5 DEF StepsTo, h
<1>7. disk \in [Hash -> FileStates] /\ cached \in [Hash -> FileStates]
  BY <1>1 DEF DiskOk
<1>8. disk' \in [Hash -> FileStates]
  BY <1>2, <1>7 DEF FileStates
<1>9. ASSUME NEW g \in Hash \ unsafe
      PROVE  HashOk(g, disk'[g], cached[g], uploads', answered)
  <2>1. HashOk(g, disk[g], cached[g], uploads, answered)
    BY <1>1 DEF DiskOk
  <2>2. CASE g = h
    <3>1. \A e \in uploads : Head(e.rest) = h /\ e.step = "writing" => e = c
      BY <1>2, <1>6, <2>1, <2>2 DEF HashOk
    <3>2. Writers(h) = {c}
      BY <1>2, <1>6, <3>1 DEF Writers
    <3>3. disk'[g] = "whole"
      BY <1>2, <1>7, <2>2, <3>2
    <3>4. Head(c.rest) = g /\ Head(d.rest) = g
      BY <1>6, <2>2
    <3> QED
      BY <1>2, <1>6, <2>1, <3>3, <3>4, FileClosed
  <2>3. CASE g # h
    <3>1. disk'[g] = disk[g]
      BY <1>2, <1>7, <2>3
    <3>2. Head(c.rest) # g /\ Head(d.rest) # g
      BY <1>6, <2>3
    <3> QED
      BY <1>6, <2>1, <3>1, <3>2, OtherFiles
  <2> QED
    BY <2>2, <2>3
<1>10. DiskOk(disk', cached, uploads', answered, unsafe')
  BY <1>2, <1>7, <1>8, <1>9 DEF DiskOk
<1> QED
  BY <1>1, <1>2, <1>4, <1>10 DEF EditorInv

\* The request is refused.
LEMMA RefusedKeeps ==
    ASSUME EditorInv, NEW c \in uploads, RefusePicture(c)
    PROVE  EditorInv'
<1>1. /\ spent \in Spent
      /\ DiskOk(disk, cached, uploads, answered, unsafe)
  BY DEF EditorInv
<1>2. /\ c.step = "sent" /\ Steps(c, "refused")
      /\ unsafe' = unsafe
      /\ body' = body /\ board' = board /\ disk' = disk /\ cached' = cached
      /\ spent' = spent /\ answered' = answered /\ broken' = broken /\ torn' = torn
      /\ shifted' = shifted
  BY DEF RefusePicture
<1>3. "refused" \in CallSteps
  BY DEF CallSteps
<1>4. /\ \E d : StepsTo(c, d, uploads, uploads', "refused")
      /\ FieldOk(body, uploads', answered, spent.pictures, broken, torn, shifted, board)
  BY <1>2, <1>3, RequestSteps
<1>5. PICK d : StepsTo(c, d, uploads, uploads', "refused")
  BY <1>4
<1>6. /\ \A e \in uploads' : e.step \in {"kept", "writing"} => e \in uploads
      /\ \A e \in uploads : e.step = "writing" => e \in uploads'
  BY <1>2, <1>5 DEF StepsTo
<1>7. ASSUME NEW g \in Hash \ unsafe
      PROVE  HashOk(g, disk[g], cached[g], uploads', answered)
  <2>1. HashOk(g, disk[g], cached[g], uploads, answered)
    BY <1>1 DEF DiskOk
  <2> QED
    BY <1>6, <2>1, FileStays
<1>8. DiskOk(disk, cached, uploads', answered, unsafe)
  BY <1>1, <1>7 DEF DiskOk
<1> QED
  BY <1>1, <1>2, <1>4, <1>8 DEF EditorInv

\* The server ends: what it was writing stays as it is.
LEMMA ServerEndKeeps ==
    ASSUME EditorInv, ServerEnds
    PROVE  EditorInv'
<1>1. /\ spent \in Spent
      /\ FieldOk(body, uploads, answered, spent.pictures, broken, torn, shifted, board)
      /\ DiskOk(disk, cached, uploads, answered, unsafe)
  BY DEF EditorInv
<1>2. /\ unsafe' = unsafe \cup {h \in Hash : Writers(h) # {}}
      /\ uploads' = {[c EXCEPT !.step = "refused"] : c \in uploads}
      /\ body' = body /\ board' = board /\ disk' = disk /\ cached' = cached
      /\ answered' = answered /\ broken' = broken /\ torn' = torn /\ shifted' = shifted
  BY DEF ServerEnds
<1>3. spent' \in Spent /\ spent'.pictures = spent.pictures
  BY <1>1, CountedParts DEF ServerEnds
<1>4. NamesInv(uploads, answered, spent.pictures)
  BY <1>1 DEF FieldOk
<1>5. /\ NamesInv(uploads', answered, spent.pictures) /\ Live(uploads') = Live(uploads)
      /\ \A k : Named(k, uploads, spent.pictures) => Named(k, uploads', spent.pictures)
      /\ \A d \in uploads' : d.step = "refused"
  BY <1>2, <1>4, CallsRefused
<1>6. FieldOk(body, uploads', answered, spent.pictures, broken, torn, shifted, board)
  BY <1>1, <1>5, FieldCalls
<1>7. ASSUME NEW g \in Hash \ unsafe'
      PROVE  HashOk(g, disk[g], cached[g], uploads', answered)
  <2>1. g \in Hash \ unsafe /\ Writers(g) = {}
    BY <1>2
  <2>2. HashOk(g, disk[g], cached[g], uploads, answered)
    BY <1>1, <2>1 DEF DiskOk
  <2>3. \A e \in uploads : ~(Head(e.rest) = g /\ e.step = "writing")
    BY <2>1 DEF Writers
  <2>4. \A e \in uploads' : e.step # "kept" /\ e.step # "writing"
    BY <1>5
  <2> QED
    BY <2>2, <2>3, <2>4, FileStays
<1>8. DiskOk(disk, cached, uploads', answered, unsafe')
  BY <1>1, <1>7 DEF DiskOk
<1> QED
  BY <1>2, <1>3, <1>6, <1>8 DEF EditorInv

\* The browser keeps what it was shown: an address is that of a whole picture.
LEMMA ShownKeeps ==
    ASSUME EditorInv, NEW h \in Hash, ShowPicture(h)
    PROVE  EditorInv'
<1>1. /\ spent \in Spent
      /\ FieldOk(body, uploads, answered, spent.pictures, broken, torn, shifted, board)
      /\ DiskOk(disk, cached, uploads, answered, unsafe)
  BY DEF EditorInv
<1>2. /\ \E k \in answered : k[2] = h
      /\ cached' = [cached EXCEPT ![h] = disk[h]]
      /\ body' = body /\ uploads' = uploads /\ board' = board /\ disk' = disk
      /\ spent' = spent /\ answered' = answered /\ broken' = broken /\ torn' = torn
      /\ shifted' = shifted /\ unsafe' = unsafe
  BY DEF ShowPicture
<1>3. disk \in [Hash -> FileStates] /\ cached \in [Hash -> FileStates]
  BY <1>1 DEF DiskOk
<1>4. cached' \in [Hash -> FileStates]
  BY <1>2, <1>3
<1>5. ASSUME NEW g \in Hash \ unsafe
      PROVE  HashOk(g, disk[g], cached'[g], uploads, answered)
  <2>1. HashOk(g, disk[g], cached[g], uploads, answered)
    BY <1>1 DEF DiskOk
  <2>2. cached'[g] = IF g = h THEN disk[g] ELSE cached[g]
    BY <1>2, <1>3
  <2>3. PICK now, seen, seen2 : now = disk[g] /\ seen = cached[g] /\ seen2 = cached'[g]
    OBVIOUS
  <2>4. HashOk(g, now, seen, uploads, answered)
    BY <2>1, <2>3
  <2>5. g = h => now = "whole"
    BY <1>2, <2>4 DEF HashOk
  <2>6. seen2 # "partial"
    BY <2>2, <2>3, <2>4, <2>5 DEF HashOk
  <2>7. HashOk(g, now, seen2, uploads, answered)
    BY <2>4, <2>6 DEF HashOk
  <2> QED
    BY <2>3, <2>7
<1>6. DiskOk(disk, cached', uploads, answered, unsafe)
  BY <1>3, <1>4, <1>5 DEF DiskOk
<1> QED
  BY <1>1, <1>2, <1>6 DEF EditorInv

\* An answer has come: the address is that of a whole picture.
LEMMA AnswerKeepsFiles ==
    ASSUME NEW files, NEW kept, NEW ups, NEW ans, NEW uns, NEW n,
           DiskOk(files, kept, ups, ans, uns), NamesInv(ups, ans, n),
           NEW c \in ups, c.step # "writing",
           NEW ans2, ans2 = IF c.step = "kept" THEN ans \cup {Token(c)} ELSE ans,
           NEW ups2, ups \ {c} \subseteq ups2,
           \A e \in ups2 : e.step \in {"kept", "writing"} => e \in ups
    PROVE  DiskOk(files, kept, ups2, ans2, uns)
<1>1. Token(c)[2] = Head(c.rest)
  BY TokenParts DEF NamesInv
<1>2. ASSUME NEW g \in Hash \ uns
      PROVE  HashOk(g, files[g], kept[g], ups2, ans2)
  <2>1. HashOk(g, files[g], kept[g], ups, ans)
    BY DEF DiskOk
  <2>2. c.step = "kept" /\ Head(c.rest) = g => files[g] = "whole"
    BY <2>1 DEF HashOk
  <2>3. \A k \in ans2 : k[2] = g => k \in ans \/ files[g] = "whole"
    BY <1>1, <2>2
  <2> QED
    BY <2>1, <2>3, FileStays
<1> QED
  BY <1>2 DEF DiskOk

\* The answer to the last picture of a call has come.
LEMMA EndedKeeps ==
    ASSUME EditorInv, NEW c \in uploads, UploadEnds(c)
    PROVE  EditorInv'
<1>1. /\ spent \in Spent
      /\ FieldOk(body, uploads, answered, spent.pictures, broken, torn, shifted, board)
      /\ DiskOk(disk, cached, uploads, answered, unsafe)
  BY DEF EditorInv
<1>2. PICK kept \in BOOLEAN : kept <=> c.step = "kept"
  OBVIOUS
<1>3. PICK new : new = IF kept THEN Address(Token(c)) ELSE <<>>
  OBVIOUS
<1>4. Outcome(c) = new
  BY <1>2, <1>3 DEF Outcome
<1>5. /\ c.step \in {"kept", "refused"}
      /\ answered' = (IF c.step = "kept" THEN answered \cup {Token(c)} ELSE answered)
      /\ board' = board /\ disk' = disk /\ cached' = cached /\ spent' = spent
      /\ unsafe' = unsafe /\ broken' = broken /\ torn' = torn
      /\ uploads' = uploads \ {c}
      /\ Becomes(Filled(c))
  BY DEF UploadEnds, HasAnswer
<1>6. body' = ReplaceFirstSubSeq(new, Placeholder(Token(c)), body)
  BY <1>4, <1>5, BecomesKnown DEF Filled
<1>7. answered' = IF kept THEN answered \cup {Token(c)} ELSE answered
  BY <1>2, <1>5
<1>8. KnowsMoves(board, body, body', shifted, shifted')
  BY <1>5, BecomesKnown
<1>9. FieldOk(body', uploads', answered', spent.pictures, broken, torn, shifted', board)
  <2>1. Settles(c, kept, new, body, body', answered, answered')
    BY <1>3, <1>6, <1>7 DEF Settles
  <2>2. uploads' = uploads \ {c}
    BY <1>5
  <2> QED
    BY <1>1, <1>8, <2>1, <2>2, FieldEnds
<1>10. DiskOk(disk, cached, uploads', answered', unsafe)
  <2>1. NamesInv(uploads, answered, spent.pictures)
    BY <1>1 DEF FieldOk
  <2>2. c.step # "writing"
    BY <1>5
  <2>3. uploads \ {c} \subseteq uploads' /\ \A e \in uploads' : e \in uploads
    BY <1>5
  <2> QED
    BY <1>1, <1>5, <2>1, <2>2, <2>3, AnswerKeepsFiles
<1> QED
  BY <1>1, <1>5, <1>9, <1>10 DEF EditorInv

\* More pictures of the call are to go: the next placeholder is put in.
LEMMA NextKeeps ==
    ASSUME EditorInv, NEW c \in uploads, NEW range,
           range \in Selected \cup {<<Len(Filled(c)), Len(Filled(c))>>},
           NextPicture(c, range[1], range[2])
    PROVE  EditorInv'
<1>1. /\ spent \in Spent
      /\ FieldOk(body, uploads, answered, spent.pictures, broken, torn, shifted, board)
      /\ DiskOk(disk, cached, uploads, answered, unsafe)
  BY DEF EditorInv
<1>2. PICK kept \in BOOLEAN : kept <=> c.step = "kept"
  OBVIOUS
<1>3. PICK new : new = IF kept THEN Address(Token(c)) ELSE <<>>
  OBVIOUS
<1>4. Outcome(c) = new
  BY <1>2, <1>3 DEF Outcome
<1>5. PICK filled : filled = ReplaceFirstSubSeq(new, Placeholder(Token(c)), body)
  OBVIOUS
<1>6. Filled(c) = filled
  BY <1>4, <1>5 DEF Filled
<1>7. NamesInv(uploads, answered, spent.pictures)
  BY <1>1 DEF FieldOk
<1>8. c \in Calls /\ c.call[2] = Len(c.rest)
  BY <1>7 DEF NamesInv
<1>9. PICK d : d = [c EXCEPT !.rest = Tail(@), !.step = "sent", !.call = <<@[1], @[2] - 1>>]
  OBVIOUS
<1>10. PICK at, to : at = Min({range[1], Len(filled)}) /\ to = Min({range[2], Len(filled)})
  OBVIOUS
<1>11. /\ Tail(c.rest) # <<>>
       /\ c.step \in {"kept", "refused"}
       /\ answered' = (IF c.step = "kept" THEN answered \cup {Token(c)} ELSE answered)
       /\ board' = board /\ disk' = disk /\ cached' = cached /\ spent' = spent
       /\ unsafe' = unsafe
  BY DEF NextPicture, HasAnswer
<1>12. /\ uploads' = (uploads \ {c}) \cup {d}
       /\ Becomes(Splice(filled, at, to, Placeholder(Token(d))))
       /\ torn' = torn \cup (Intact(filled) \ Intact(body'))
       /\ broken' = broken
  BY <1>6, <1>9, <1>10 DEF NextPicture
<1>13. /\ body' = Splice(filled, at, to, Placeholder(Token(d)))
       /\ KnowsMoves(board, body, body', shifted, shifted')
  BY <1>12, BecomesKnown
<1>14. /\ d \in Calls /\ d.call = <<c.call[1], c.call[2] - 1>>
       /\ d.rest = Tail(c.rest) /\ d.step = "sent"
  BY <1>8, <1>9, <1>11, NextOfCall
<1>15. answered' = IF kept THEN answered \cup {Token(c)} ELSE answered
  BY <1>2, <1>11
<1>16. IsText(filled)
  <2>1. BodyInv(body, Live(uploads), answered, broken \cup torn, shifted)
    BY <1>1 DEF FieldOk
  <2>2. Token(c) \in Live(uploads)
    BY DEF Live
  <2>3. BodyInv(filled, Live(uploads) \ {Token(c)}, answered', broken \cup torn, shifted)
    BY <1>3, <1>5, <1>15, <2>1, <2>2, FilledBody
  <2> QED
    BY <2>3 DEF BodyInv
<1>17. at \in 0..Len(filled) /\ to \in Nat /\ at <= to
  <2>1. PICK l \in Nat : l = Len(filled)
    BY <1>16 DEF IsText
  <2>2. PICK from, upto : from = range[1] /\ upto = range[2]
    OBVIOUS
  <2>3. from \in Nat /\ upto \in Nat /\ from <= upto
    <3>1. CASE range \in Selected
      BY <2>2, <3>1, SelectedParts
    <3>2. CASE range = <<Len(Filled(c)), Len(Filled(c))>>
      BY <1>6, <2>1, <2>2, <3>2
    <3> QED
      BY <3>1, <3>2
  <2>4. /\ at = IF from <= l THEN from ELSE l
        /\ to = IF upto <= l THEN upto ELSE l
    BY <1>10, <2>1, <2>2, <2>3, MinOfTwo
  <2>5. at \in 0..l /\ to \in Nat /\ at <= to
    BY <2>3, <2>4
  <2> QED
    BY <2>1, <2>5
<1>18. FieldOk(body', uploads', answered', spent.pictures, broken', torn', shifted', board)
  <2>1. FieldOk(body, uploads, answered, spent.pictures, broken, torn, shifted, board)
    BY <1>1
  <2>2. Advances(c, d, uploads, uploads')
    BY <1>11, <1>12, <1>14 DEF Advances
  <2>3. Settles(c, kept, new, body, filled, answered, answered')
    BY <1>3, <1>5, <1>15 DEF Settles
  <2>4. PutsNext(d, filled, at, to, body', torn, torn')
    BY <1>12, <1>13, <1>17 DEF PutsNext
  <2>5. FieldOk(body', uploads', answered', spent.pictures, broken, torn', shifted', board)
    BY <1>13, <2>1, <2>2, <2>3, <2>4, FieldGoesOn
  <2> QED
    BY <1>12, <2>5
<1>19. DiskOk(disk, cached, uploads', answered', unsafe)
  <2>1. c.step # "writing" /\ uploads \ {c} \subseteq uploads'
    BY <1>11, <1>12
  <2>2. \A e \in uploads' : e.step \in {"kept", "writing"} => e \in uploads
    BY <1>12, <1>14
  <2> QED
    BY <1>1, <1>7, <1>11, <2>1, <2>2, AnswerKeepsFiles
<1> QED
  BY <1>1, <1>11, <1>18, <1>19 DEF EditorInv

\* A step of the board that leaves its range alone.
LEMMA BoardKeeps ==
    ASSUME EditorInv, NEW b, OnBoard(b), DOMAIN b = DOMAIN board,
           b.range = board.range, IsText(b.shapes)
    PROVE  EditorInv'
<1>1. /\ spent \in Spent
      /\ FieldOk(body, uploads, answered, spent.pictures, broken, torn, shifted, board)
      /\ DiskOk(disk, cached, uploads, answered, unsafe)
  BY DEF EditorInv
<1>2. /\ board # Absent /\ board' = b
      /\ body' = body /\ uploads' = uploads /\ disk' = disk /\ cached' = cached
      /\ spent' = spent /\ answered' = answered /\ broken' = broken /\ torn' = torn
      /\ shifted' = shifted /\ unsafe' = unsafe
  BY DEF OnBoard
<1>3. BoardOk(board, body, shifted)
  BY <1>1 DEF FieldOk
<1>4. BoardOk(b, body, shifted)
  BY <1>2, <1>3, BoardChanges
<1>5. FieldOk(body, uploads, answered, spent.pictures, broken, torn, shifted, b)
  BY <1>1, <1>4, FieldBoard
<1> QED
  BY <1>1, <1>2, <1>5 DEF EditorInv

\* The shapes of the board.
LEMMA BoardParts ==
    ASSUME EditorInv, board # Absent
    PROVE  DOMAIN board = BoardFields /\ IsText(board.shapes)
BY DEF EditorInv, FieldOk, BoardOk

\* What a board is with other shapes, another pick or another draft.
LEMMA BoardPuts ==
    ASSUME NEW b, DOMAIN b = BoardFields, NEW x, NEW y
    PROVE  /\ LET c == [b EXCEPT !.selected = x]
              IN  DOMAIN c = DOMAIN b /\ c.range = b.range /\ c.shapes = b.shapes
           /\ LET c == [b EXCEPT !.draft = x]
              IN  DOMAIN c = DOMAIN b /\ c.range = b.range /\ c.shapes = b.shapes
           /\ LET c == [b EXCEPT !.shapes = x]
              IN  DOMAIN c = DOMAIN b /\ c.range = b.range /\ c.shapes = x
           /\ LET c == [b EXCEPT !.draft = y, !.shapes = x]
              IN  DOMAIN c = DOMAIN b /\ c.range = b.range /\ c.shapes = x
           /\ LET c == [b EXCEPT !.shapes = x, !.selected = y]
              IN  DOMAIN c = DOMAIN b /\ c.range = b.range /\ c.shapes = x
BY DEF BoardFields

\* The board is opened, or opened again: on the drawing at the cursor, or on none.
LEMMA OpenedBoard ==
    ASSUME EditorInv, NEW pos \in Cursor, OpenDraw(pos)
    PROVE  EditorInv'
<1>1. /\ spent \in Spent
      /\ FieldOk(body, uploads, answered, spent.pictures, broken, torn, shifted, board)
      /\ DiskOk(disk, cached, uploads, answered, unsafe)
  BY DEF EditorInv
<1>2. spent' \in Spent /\ spent'.pictures = spent.pictures
  BY <1>1, CountedParts DEF OpenDraw
<1>3. PICK block : block = SvgAt(body, pos)
  OBVIOUS
<1>4. PICK svg : svg = IF block = Absent THEN <<>> ELSE SubSeq(body, block[1] + 1, block[2])
  OBVIOUS
<1>5. PICK old : old = IF board = Absent THEN NoDrawing ELSE board
  OBVIOUS
<1>6. PICK shapes : shapes = IF svg # old.initial /\ IsOurSvg(svg) THEN ShapesIn(svg)
                             ELSE old.shapes
  OBVIOUS
<1>7. PICK b : b = [old EXCEPT !.range = block, !.initial = svg, !.shapes = shapes]
  OBVIOUS
<1>8. /\ board' = b
      /\ body' = body /\ uploads' = uploads /\ disk' = disk /\ cached' = cached
      /\ answered' = answered /\ broken' = broken /\ torn' = torn
      /\ shifted' = shifted /\ unsafe' = unsafe
  BY <1>3, <1>4, <1>5, <1>6, <1>7 DEF OpenDraw
<1>9. IsText(body) /\ ShapesKnown(body)
  BY <1>1 DEF FieldOk, BodyInv
<1>10. block # Absent => Block(body, block[1], block[2])
  BY <1>3, <1>9, BlockAt
<1>11. PICK none : none = <<>>
  OBVIOUS
<1>12. IsText(none) /\ ~IsOurSvg(none)
  <2>1. none \in Seq({}) /\ DOMAIN none = {}
    BY <1>11
  <2> QED
    BY <2>1, TextOfSeq DEF IsOurSvg, ToSet
<1>13. DOMAIN old = BoardFields /\ IsText(old.shapes)
  <2>1. CASE board = Absent
    <3>1. DOMAIN old = BoardFields /\ old.shapes = none
      BY <1>5, <1>11, <2>1 DEF NoDrawing, BoardFields
    <3> QED
      BY <1>12, <3>1
  <2>2. CASE board # Absent
    BY <1>5, <2>2, BoardParts
  <2> QED
    BY <2>1, <2>2
<1>14. IsText(shapes)
  <2>1. CASE svg # old.initial /\ IsOurSvg(svg)
    <3>1. block # Absent
      BY <1>4, <1>11, <1>12, <2>1
    <3> QED
      BY <1>4, <1>6, <1>9, <1>10, <2>1, <3>1, ShapesRead
  <2>2. CASE ~(svg # old.initial /\ IsOurSvg(svg))
    BY <1>6, <1>13, <2>2
  <2> QED
    BY <2>1, <2>2
<1>15. DOMAIN b = BoardFields /\ b.range = block /\ b.shapes = shapes
  BY <1>7, <1>13 DEF BoardFields
<1>16. block # Absent => block[1] \in Nat /\ block[2] \in Nat /\ block[1] < block[2]
  <2> SUFFICES ASSUME block # Absent
               PROVE  block[1] \in Nat /\ block[2] \in Nat /\ block[1] < block[2]
    OBVIOUS
  <2>1. PICK f, t : f = block[1] /\ t = block[2]
    OBVIOUS
  <2>2. f \in Nat /\ t \in Nat /\ f + 2 <= t
    BY <1>10, <2>1 DEF Block
  <2>3. f < t
    BY <2>2
  <2> QED
    BY <2>1, <2>2, <2>3
<1>17. BoardOk(b, body, shifted)
  BY <1>10, <1>14, <1>15, <1>16 DEF BoardOk
<1>18. FieldOk(body, uploads, answered, spent.pictures, broken, torn, shifted, b)
  BY <1>1, <1>17, FieldBoard
<1> QED
  BY <1>1, <1>2, <1>8, <1>18 DEF EditorInv

LEMMA PickKeeps ==
    ASSUME EditorInv, NEW p, Pick(p)
    PROVE  EditorInv'
<1>1. PICK x : board # Absent /\ OnBoard([board EXCEPT !.selected = x])
  BY DEF Pick
<1>2. DOMAIN board = BoardFields /\ IsText(board.shapes)
  BY <1>1, BoardParts
<1>3. PICK b : b = [board EXCEPT !.selected = x]
  OBVIOUS
<1>4. OnBoard(b)
  BY <1>1, <1>3
<1>5. DOMAIN b = DOMAIN board /\ b.range = board.range /\ b.shapes = board.shapes
  BY <1>2, <1>3, BoardPuts
<1> QED
  BY <1>2, <1>4, <1>5, BoardKeeps

\* The pointer goes down: a text is there at once, another shape is a draft.
LEMMA DownKeeps ==
    ASSUME EditorInv, NEW tool, NEW p, Down(tool, p)
    PROVE  EditorInv'
<1>1. board # Absent
  BY DEF Down
<1>2. DOMAIN board = BoardFields /\ IsText(board.shapes)
  BY <1>1, BoardParts
<1>3. CASE tool = "text"
  <2>1. PICK x : x = Append(board.shapes, Shape("text", "", 2, <<p>>, "text"))
    OBVIOUS
  <2>2. PICK b : b = [board EXCEPT !.shapes = x]
    OBVIOUS
  <2>3. OnBoard(b)
    BY <1>3, <2>1, <2>2 DEF Down
  <2>4. DOMAIN b = DOMAIN board /\ b.range = board.range /\ b.shapes = x
    BY <1>2, <2>2, BoardPuts
  <2>5. IsText(x)
    BY <1>2, <2>1, ChangedTexts
  <2> QED
    BY <2>3, <2>4, <2>5, BoardKeeps
<1>4. CASE tool # "text"
  <2>1. PICK x : x = Shape(tool, "", 2, IF tool = "pen" THEN <<p>> ELSE <<p, p>>, Absent)
    OBVIOUS
  <2>2. PICK b : b = [board EXCEPT !.draft = x]
    OBVIOUS
  <2>3. OnBoard(b)
    BY <1>4, <2>1, <2>2 DEF Down
  <2>4. DOMAIN b = DOMAIN board /\ b.range = board.range /\ b.shapes = board.shapes
    BY <1>2, <2>2, BoardPuts
  <2> QED
    BY <1>2, <2>3, <2>4, BoardKeeps
<1> QED
  BY <1>3, <1>4

LEMMA MoveKeeps ==
    ASSUME EditorInv, NEW p, Move(p)
    PROVE  EditorInv'
<1>1. board # Absent
  BY DEF Move
<1>2. DOMAIN board = BoardFields /\ IsText(board.shapes)
  BY <1>1, BoardParts
<1>3. PICK x : OnBoard([board EXCEPT !.draft = x])
  <2>1. CASE board.draft.kind = "pen"
    <3>1. OnBoard([board EXCEPT !.draft = [board.draft EXCEPT !.points = Append(@, p)]])
      BY <2>1 DEF Move
    <3> QED
      BY <3>1
  <2>2. CASE board.draft.kind # "pen"
    <3>1. OnBoard([board EXCEPT !.draft = [board.draft EXCEPT !.points =
                                            [board.draft.points EXCEPT ![2] = p]]])
      BY <2>2 DEF Move
    <3> QED
      BY <3>1
  <2> QED
    BY <2>1, <2>2
<1>4. PICK b : b = [board EXCEPT !.draft = x]
  OBVIOUS
<1>5. OnBoard(b)
  BY <1>3, <1>4
<1>6. DOMAIN b = DOMAIN board /\ b.range = board.range /\ b.shapes = board.shapes
  BY <1>2, <1>4, BoardPuts
<1> QED
  BY <1>2, <1>5, <1>6, BoardKeeps

LEMMA UpKeeps ==
    ASSUME EditorInv, Up
    PROVE  EditorInv'
<1>1. board # Absent
  BY DEF Up
<1>2. DOMAIN board = BoardFields /\ IsText(board.shapes)
  BY <1>1, BoardParts
<1>3. PICK x : /\ x \in {board.shapes, Append(board.shapes, board.draft)}
               /\ OnBoard([board EXCEPT !.draft = Absent, !.shapes = x])
  <2> DEFINE s == board.draft
             trivial == IF s.kind = "pen" THEN Len(s.points) < 2 ELSE s.points[1] = s.points[2]
  <2>1. OnBoard([board EXCEPT !.draft = Absent,
                              !.shapes = IF trivial THEN @ ELSE Append(@, s)])
    BY DEF Up
  <2> HIDE DEF trivial
  <2> QED
    BY <2>1
<1>4. PICK b : b = [board EXCEPT !.draft = Absent, !.shapes = x]
  OBVIOUS
<1>5. OnBoard(b)
  BY <1>3, <1>4
<1>6. DOMAIN b = DOMAIN board /\ b.range = board.range /\ b.shapes = x
  BY <1>2, <1>4, BoardPuts
<1>7. IsText(x)
  BY <1>2, <1>3, ChangedTexts
<1> QED
  BY <1>5, <1>6, <1>7, BoardKeeps

\* Shapes are taken away.
LEMMA TakenKeeps ==
    ASSUME EditorInv, RemoveSelected \/ Undo \/ ClearAll
    PROVE  EditorInv'
<1>1. board # Absent
  BY DEF RemoveSelected, Undo, ClearAll
<1>2. DOMAIN board = BoardFields /\ IsText(board.shapes)
  BY <1>1, BoardParts
<1>3. PICK x : IsText(x) /\ OnBoard([board EXCEPT !.shapes = x, !.selected = Absent])
  <2>1. CASE RemoveSelected
    <3>1. PICK x : x = IF board.selected \in DOMAIN board.shapes
                       THEN RemoveAt(board.shapes, board.selected) ELSE board.shapes
      OBVIOUS
    <3>2. IsText(x)
      BY <1>2, <3>1, ChangedTexts
    <3>3. OnBoard([board EXCEPT !.shapes = x, !.selected = Absent])
      BY <2>1, <3>1 DEF RemoveSelected
    <3> QED
      BY <3>2, <3>3
  <2>2. CASE Undo
    <3>1. IsText(Front(board.shapes))
      BY <1>2, <2>2, ChangedTexts DEF Undo
    <3> QED
      BY <2>2, <3>1 DEF Undo
  <2>3. CASE ClearAll
    <3>1. IsText(<<>>)
      BY <1>2, ChangedTexts
    <3> QED
      BY <2>3, <3>1 DEF ClearAll
  <2> QED
    BY <2>1, <2>2, <2>3
<1>4. PICK b : b = [board EXCEPT !.shapes = x, !.selected = Absent]
  OBVIOUS
<1>5. OnBoard(b)
  BY <1>3, <1>4
<1>6. DOMAIN b = DOMAIN board /\ b.range = board.range /\ b.shapes = x
  BY <1>2, <1>4, BoardPuts
<1> QED
  BY <1>3, <1>5, <1>6, BoardKeeps

\* The board is closed and changes nothing.
LEMMA CancelKeeps ==
    ASSUME EditorInv, CancelDraw
    PROVE  EditorInv'
<1>1. /\ spent \in Spent
      /\ FieldOk(body, uploads, answered, spent.pictures, broken, torn, shifted, board)
      /\ DiskOk(disk, cached, uploads, answered, unsafe)
  BY DEF EditorInv
<1>2. /\ board' = Absent
      /\ body' = body /\ uploads' = uploads /\ disk' = disk /\ cached' = cached
      /\ spent' = spent /\ answered' = answered /\ broken' = broken /\ torn' = torn
      /\ shifted' = shifted /\ unsafe' = unsafe
  BY DEF CancelDraw
<1>3. BoardOk(Absent, body, shifted)
  BY DEF BoardOk
<1>4. FieldOk(body, uploads, answered, spent.pictures, broken, torn, shifted, Absent)
  BY <1>1, <1>3, FieldBoard
<1> QED
  BY <1>1, <1>2, <1>4 DEF EditorInv

\* The drawing goes over the old one,
LEMMA SavedKeeps ==
    ASSUME EditorInv, SaveDraw
    PROVE  EditorInv'
<1>1. /\ spent \in Spent
      /\ FieldOk(body, uploads, answered, spent.pictures, broken, torn, shifted, board)
      /\ DiskOk(disk, cached, uploads, answered, unsafe)
  BY DEF EditorInv
<1>2. /\ board # Absent /\ board.range # Absent /\ board' = Absent
      /\ uploads' = uploads /\ disk' = disk /\ cached' = cached
      /\ spent' = spent /\ answered' = answered /\ torn' = torn
      /\ shifted' = shifted /\ unsafe' = unsafe
  BY DEF SaveDraw
<1>3. PICK from, to : from = Min({board.range[1], Len(body)}) /\ to = board.range[2]
  OBVIOUS
<1>4. PICK gone : gone = Intact(SubSeq(body, from + 1, Min({to, Len(body)}))) \ {AllDrawings}
  OBVIOUS
<1>5. /\ body' = Splice(body, from, to, Drawing(board.shapes))
      /\ broken' = broken \cup gone
  BY <1>3, <1>4 DEF SaveDraw
<1>6. FieldOk(body', uploads, answered, spent.pictures, broken', torn, shifted, Absent)
  BY <1>1, <1>2, <1>3, <1>4, <1>5, FieldReplaced
<1> QED
  BY <1>1, <1>2, <1>6 DEF EditorInv

\* or a new one over what is selected.
LEMMA NewSavedKeeps ==
    ASSUME EditorInv, NEW range \in Selected, SaveNewDraw(range[1], range[2])
    PROVE  EditorInv'
<1>1. /\ spent \in Spent
      /\ FieldOk(body, uploads, answered, spent.pictures, broken, torn, shifted, board)
      /\ DiskOk(disk, cached, uploads, answered, unsafe)
  BY DEF EditorInv
<1>2. PICK from, to : from = range[1] /\ to = range[2]
  OBVIOUS
<1>3. from \in 0..Len(body) /\ to \in Nat /\ from <= to
  BY <1>2, SelectedParts
<1>4. PICK new : new = Drawing(board.shapes)
  OBVIOUS
<1>5. /\ board # Absent /\ board' = Absent
      /\ Writes(Splice(body, from, to, new))
      /\ uploads' = uploads /\ disk' = disk /\ cached' = cached
      /\ spent' = spent /\ answered' = answered /\ torn' = torn /\ unsafe' = unsafe
  BY <1>2, <1>4 DEF SaveNewDraw
<1>6. /\ body' = Splice(body, from, to, new)
      /\ broken' = broken \cup (Intact(body) \ Intact(body'))
      /\ KnowsMoves(board, body, body', shifted, shifted')
  BY <1>5, BecomesKnown DEF Writes
<1>7. IsText(new) /\ Unmarked(new) /\ ShapesKnown(new)
  BY <1>4, <1>5, BoardParts, DrawingParts, DrawingKnown
<1>8. FieldOk(body', uploads, answered, spent.pictures, broken', torn, shifted', board)
  BY <1>1, <1>3, <1>6, <1>7, FieldWritten
<1>9. BoardOk(Absent, body', shifted')
  BY DEF BoardOk
<1>10. FieldOk(body', uploads, answered, spent.pictures, broken', torn, shifted', Absent)
  BY <1>8, <1>9, FieldBoard
<1> QED
  BY <1>1, <1>5, <1>10 DEF EditorInv

\* Every step keeps the invariant,
LEMMA EditorGoesOn == EditorInv /\ [NextEditor]_editorVars => EditorInv'
<1> SUFFICES ASSUME EditorInv, [NextEditor]_editorVars PROVE EditorInv'
  OBVIOUS
<1>1. CASE \E range \in Selected : TypeKey(range[1], range[2]) \/ EraseKey(range[1], range[2])
  BY <1>1, TypedKeeps
<1>2. CASE \E pos \in Cursor : OpenDraw(pos)
  BY <1>2, OpenedBoard
<1>3. CASE \E range \in Selected : \E files \in Selections : Upload(files, range[1], range[2])
  BY <1>3, ChosenKeeps
<1>4. CASE \E c \in uploads : LookForFile(c)
  BY <1>4, LookedKeeps
<1>5. CASE \E c \in uploads : OpenFile(c)
  BY <1>5, OpenedKeeps
<1>6. CASE \E c \in uploads : CloseFile(c)
  BY <1>6, ClosedKeeps
<1>7. CASE \E c \in uploads : RefusePicture(c)
  BY <1>7, RefusedKeeps
<1>8. CASE \E c \in uploads : UploadEnds(c)
  BY <1>8, EndedKeeps
<1>9. CASE \E c \in uploads :
            \E range \in Selected \cup {<<Len(Filled(c)), Len(Filled(c))>>} :
                NextPicture(c, range[1], range[2])
  BY <1>9, NextKeeps
<1>10. CASE ServerEnds
  BY <1>10, ServerEndKeeps
<1>11. CASE \E h \in Hash : ShowPicture(h)
  BY <1>11, ShownKeeps
<1>12. CASE Draw
  <2>1. CASE \E p \in Grid : Pick(p)
    BY <2>1, PickKeeps
  <2>2. CASE \E p \in Grid : Move(p)
    BY <2>2, MoveKeeps
  <2>3. CASE \E p \in Grid : \E tool \in Tools : Down(tool, p)
    BY <2>3, DownKeeps
  <2>4. CASE Up
    BY <2>4, UpKeeps
  <2>5. CASE RemoveSelected \/ Undo \/ ClearAll
    BY <2>5, TakenKeeps
  <2>6. CASE CancelDraw
    BY <2>6, CancelKeeps
  <2>7. CASE SaveDraw
    BY <2>7, SavedKeeps
  <2>8. CASE \E range \in Selected : SaveNewDraw(range[1], range[2])
    BY <2>8, NewSavedKeeps
  <2> QED
    BY <1>2, <1>12, <2>1, <2>2, <2>3, <2>4, <2>5, <2>6, <2>7, <2>8 DEF Draw
<1>13. CASE UNCHANGED editorVars
  BY <1>13 DEF editorVars, EditorInv
<1>14. CASE Edit
  BY <1>1, <1>3, <1>4, <1>5, <1>6, <1>7, <1>8, <1>9, <1>10, <1>11, <1>14 DEF Edit
<1> QED
  BY <1>12, <1>13, <1>14 DEF NextEditor

\* which says more than what the field promises.
LEMMA EditorInvSound == EditorInv => EditorSound
<1> SUFFICES ASSUME EditorInv PROVE EditorSound
  OBVIOUS
<1>1. /\ FieldOk(body, uploads, answered, spent.pictures, broken, torn, shifted, board)
      /\ DiskOk(disk, cached, uploads, answered, unsafe)
  BY DEF EditorInv
<1>2. /\ BodyInv(body, Live(uploads), answered, broken \cup torn, shifted)
      /\ ~shifted /\ AllDrawings \notin broken \cup torn => Balanced(body)
  BY <1>1 DEF FieldOk
<1>3. /\ IsText(body) /\ NoneLeft(body, Live(uploads), broken \cup torn)
      /\ ~shifted => AllThere(body, Live(uploads), answered, broken \cup torn)
  BY <1>2 DEF BodyInv
<1>4. UploadsSettle
  <2>1. ASSUME NEW k \in Intact(body) \ (broken \cup torn), Holds(body, Placeholder(k))
        PROVE  \E c \in uploads : Token(c) = k
    <3>1. PICK p : WaitsAt(body, k, p)
      BY <1>3, <2>1, Waiting
    <3>2. PICK i, j : i = p + 1 /\ j = p + 2
      OBVIOUS
    <3>3. i \in 1..Len(body) /\ j \in 1..Len(body)
      BY <1>3, <3>1, <3>2 DEF WaitsAt, IsText
    <3>4. body[i] = <<"uploading", k, 1>> /\ body[j] = <<"uploading", k, 2>>
      BY <3>1, <3>2 DEF WaitsAt
    <3>5. k \in Live(uploads)
      BY <1>3, <3>3, <3>4 DEF NoneLeft
    <3> QED
      BY <3>5 DEF Live
  <2>2. ASSUME ~shifted, NEW k \in answered \ (broken \cup torn)
        PROVE  Holds(body, Address(k))
    <3>1. \E p : ShownAt(body, k, p)
      BY <1>3, <2>2 DEF AllThere
    <3> QED
      BY <1>3, <3>1, Showing
  <2> QED
    BY <2>1, <2>2 DEF UploadsSettle
<1>5. DrawingsStay
  BY <1>2 DEF DrawingsStay
<1>6. PicturesWhole
  <2> SUFFICES ASSUME NEW h \in Hash \ unsafe
               PROVE  /\ (\E k \in answered : k[2] = h) => disk[h] = "whole"
                      /\ cached[h] # "partial"
                      /\ disk[h] = "partial" => Writers(h) # {}
    BY DEF PicturesWhole
  <2>1. HashOk(h, disk[h], cached[h], uploads, answered)
    BY <1>1 DEF DiskOk
  <2>2. /\ (\E k \in answered : k[2] = h) => disk[h] = "whole"
        /\ cached[h] # "partial"
    BY <2>1, Zenon DEF HashOk
  <2>3. disk[h] = "partial" => Writers(h) # {}
    BY <2>1 DEF HashOk, Writers
  <2> QED
    BY <2>2, <2>3
<1> QED
  BY <1>4, <1>5, <1>6 DEF EditorSound

\* Whatever is typed, selected, uploaded and drawn at once, in whatever order answers come
\* and requests fail: placeholders are replaced and addresses stay in one piece, drawings
\* stay whole, and what was handed out is a whole picture (EditorSound), but for what a
\* person, the placeholder of a next picture, a text that changed under the open drawing,
\* two requests for one picture at once or a crash has spoilt.
THEOREM EditorIsSound == EditorSpec => []EditorSound
<1>1. EditorSpec => []EditorInv
  BY EditorStarts, EditorGoesOn, PTL DEF EditorSpec
<1> QED
  BY <1>1, EditorInvSound, PTL
=============================================================================
