------------------------------- MODULE Access -------------------------------
(***************************************************************************)
(* Who may see and do what, and when: the rules of apps/api/src/access.ts, *)
(* of packages/core (roles.ts, collections.ts) and of the queries that the *)
(* lists and the profile page make, over the tables they read. A collection*)
(* (course, problem set, contest, exam) is called a course here. The same  *)
(* rule is often written twice, once in TypeScript for one row and once in *)
(* SQL for a list; both forms are here.                                    *)
(***************************************************************************)
EXTENDS Integers, Sequences, SequencesExt, FiniteSetsExt, FiniteSets

CONSTANTS
    User,     \* the accounts
    NoUser,   \* a visitor who is not logged in
    Course,   \* ids of collections, in the order of their creation
    Problem,
    Text,     \* an item that is a paragraph and no problem
    None      \* NULL

ASSUME CourseAssumption == Course \subseteq Nat
ASSUME NullAssumption ==
    /\ None \notin Nat \cup User \cup Problem \cup Course
    /\ NoUser \notin User /\ NoUser # None /\ Text \notin Problem

VARIABLES
    role,     \* users.role
    course,   \* collections, None for an id that is not there
    member,   \* collection_members: the row of a course and a user, or None
    items,    \* collection_items in the order of idx
    problem,  \* the columns of problems that access depends on
    subs,     \* submissions
    now

tables == <<role, course, member, items, problem, subs>>

Rank == [user |-> 0, instructor |-> 1, staff |-> 2, admin |-> 3]
Role == DOMAIN Rank
MemberRole == {"member", "ta", "manager"}

AtLeast(u, r) == u # NoUser /\ Rank[role[u]] >= Rank[r]

-----------------------------------------------------------------------------
(* The five axes of a collection *)

Axes(timing, reveal, scoring, joinPolicy, visibility) ==
    [timing |-> timing, reveal |-> reveal, scoring |-> scoring,
     joinPolicy |-> joinPolicy, visibility |-> visibility]

PresetDefaults ==
    [course     |-> Axes("none", "immediate", "none", "open", "public"),
     problemset |-> Axes("none", "immediate", "progress", "open", "public"),
     contest    |-> Axes("fixed", "frozen", "icpc", "register", "public"),
     exam       |-> Axes("per_user", "after_end", "none", "invite", "private")]

\* validateAxes finds nothing to complain about.
ValidAxes(c) ==
    /\ c.timing = "fixed" => /\ c.startsAt # None /\ c.endsAt # None
                             /\ c.startsAt < c.endsAt
    /\ c.timing = "per_user" => c.duration # None
    /\ c.timing = "none" => c.reveal = "immediate"
    /\ c.reveal = "frozen" => c.scoring # "none"
    /\ c.joinPolicy = "open" => c.visibility # "private"

Within(from, to) == from # None /\ to # None /\ from <= now /\ now <= to
Over(to) == to # None /\ now > to

IsRunning(c, m) ==
    \/ c.timing = "none"
    \/ c.timing = "fixed" /\ Within(c.startsAt, c.endsAt)
    \/ c.timing = "per_user" /\ m # None /\ Within(m.startedAt, m.endsAt)

HasEnded(c, m) ==
    \/ c.timing = "fixed" /\ Over(c.endsAt)
    \/ c.timing = "per_user" /\ m # None /\ Over(m.endsAt)

CanRevealVerdict(c, m) == c.reveal = "after_end" => HasEnded(c, m)

-----------------------------------------------------------------------------
(* collectionAccess, canSeeItems, canAssist *)

MemberOf(u, c) == IF u = NoUser THEN None ELSE member[c][u]
HasRole(u, c, roles) == MemberOf(u, c) # None /\ MemberOf(u, c).role \in roles

CanManageStaffOrManager(u, c) ==  \* mutant: the one who made it is forgotten
    AtLeast(u, "staff") \/ HasRole(u, c, {"manager"})

CanManage(u, c) ==
    \/ AtLeast(u, "staff")
    \/ u # NoUser /\ course[c].owner = u
    \/ HasRole(u, c, {"manager"})

CanView(u, c) ==
    CanManage(u, c) \/ course[c].visibility # "private" \/ MemberOf(u, c) # None

CanAssist(u, c) == CanManage(u, c) \/ HasRole(u, c, {"ta", "manager"})

CanSeeItems(u, c) ==
    \/ CanManage(u, c)
    \/ course[c].timing = "none"
    \/ course[c].timing = "fixed" /\ course[c].startsAt # None /\ now >= course[c].startsAt
    \/ course[c].timing = "per_user" /\ MemberOf(u, c) # None /\ MemberOf(u, c).startedAt # None

Exists(c) == c # None /\ course[c] # None
Courses == {c \in Course : Exists(c)}

-----------------------------------------------------------------------------
(* problemAccess, canEditProblem *)

PubliclyOpen(p) ==
    problem[p].isPublic /\ (problem[p].publicFrom # None => problem[p].publicFrom <= now)

Gates(u, p) ==
    {c \in Courses : /\ course[c].timing # "none" /\ p \in ToSet(items[c])
                     /\ MemberOf(u, c) # None /\ IsRunning(course[c], MemberOf(u, c))}

\* activeGate: the first timed collection, by id, that runs for the user and has the problem.
ActiveGate(u, p) == IF Gates(u, p) = {} THEN None ELSE Min(Gates(u, p))

BelongsTo(u, c) == Exists(c) /\ (CanManage(u, c) \/ MemberOf(u, c) # None)

CanViewProblem(u, p) ==
    \/ AtLeast(u, "staff")
    \/ u = NoUser /\ PubliclyOpen(p)
    \/ u # NoUser /\ ActiveGate(u, p) # None
    \/ u # NoUser /\ problem[p].owner # None /\ BelongsTo(u, problem[p].owner)
    \/ u # NoUser /\ problem[p].owner = None /\ PubliclyOpen(p)

CanSubmit(u, p) == u # NoUser /\ CanViewProblem(u, p)

\* The collection that a submission is made in.
StampOf(u, p) ==
    IF AtLeast(u, "staff") THEN None
    ELSE IF ActiveGate(u, p) # None THEN ActiveGate(u, p)
    ELSE IF problem[p].owner # None /\ BelongsTo(u, problem[p].owner) THEN problem[p].owner
    ELSE None

CanEditProblem(u, p) ==
    \/ AtLeast(u, "staff")
    \/ problem[p].owner # None /\ Exists(problem[p].owner) /\ CanAssist(u, problem[p].owner)

\* assertCanCreate: a problem of the archive (owner None) or of a course.
CanCreateProblem(u, owner) ==
    IF owner = None THEN AtLeast(u, "staff") ELSE Exists(owner) /\ CanManage(u, owner)

-----------------------------------------------------------------------------
(* The lists *)

\* GET /collections, the conditions of its query.
ListedCourses(u) ==
    {c \in Courses : \/ AtLeast(u, "staff")
                     \/ course[c].visibility = "public"
                     \/ u # NoUser /\ course[c].owner = u
                     \/ u # NoUser /\ member[c][u] # None}

\* GET /collections?mine: no short cut for staff.
MineCourses(u) ==
    {c \in Courses : u # NoUser /\ \/ course[c].owner = u
                                   \/ HasRole(u, c, {"manager"})}

\* GET /problems, of the archive and of a course.
ListedProblems(u) ==
    {p \in Problem : problem[p].owner = None /\ (AtLeast(u, "staff") \/ problem[p].isPublic)}
CourseProblems(u, c) ==
    {p \in Problem : problem[p].owner = c /\ CanAssist(u, c)}

\* GET /collections/:slug: the items, none before the start.
ShownItems(u, c) == IF CanView(u, c) /\ CanSeeItems(u, c) THEN items[c] ELSE <<>>

SolvedBy(u) == {s.problem : s \in {t \in subs : t.user = u /\ t.verdict = "accepted"}}

\* GET /collections/:slug: `solved`, of the problems it shows.
PageMarks(u, c) == ToSet(ShownItems(u, c)) \cap SolvedBy(u)
\* GET /problems: `solved`.
ListMarks(u) == ListedProblems(u) \cap SolvedBy(u)
\* GET /collections: `mySolved`; GET /collections/:id/members: `solvedHere`.
SolvedHere(u, c) == Cardinality(ToSet(items[c]) \cap SolvedBy(u))

-----------------------------------------------------------------------------
(* When a verdict is shown *)

\* verdictVisible: the list and the page of a submission, and who has solved it.
VerdictVisible(u, c) ==
    \/ ~Exists(c) \/ AtLeast(u, "staff")
    \/ CanRevealVerdict(course[c], MemberOf(u, c))

OpenOrUnset(to) == to = None \/ to > now

VisibleByCollectionEnd(s) ==    \* mutant: the member's own end is not joined
    \/ ~Exists(s.course) \/ course[s.course].reveal # "after_end"
    \/ course[s.course].timing # "none" /\ ~OpenOrUnset(course[s.course].endsAt)

\* VISIBLE in users.ts: what the profile counts, by the row of the submission's author.
ProfileCounts(s) ==
    LET c == s.course
        m == IF Exists(c) THEN member[c][s.user] ELSE None
    IN  \/ ~Exists(c) \/ course[c].reveal # "after_end"
        \/ course[c].timing = "fixed" /\ ~OpenOrUnset(course[c].endsAt)
        \/ course[c].timing = "per_user" /\ ~OpenOrUnset(IF m = None THEN None ELSE m.endsAt)

ProfileSolved(u) == {s.problem : s \in {t \in subs : /\ t.user = u /\ t.verdict = "accepted"
                                                     /\ ProfileCounts(t)}}

\* hasSolved: opens the solutions of a problem.
HasSolved(u, p) == \E s \in subs : /\ s.user = u /\ s.problem = p /\ s.verdict = "accepted"
                                   /\ VerdictVisible(u, s.course)

CanReadSolutions(u, p) ==
    u # NoUser /\ CanViewProblem(u, p) /\ (AtLeast(u, "staff") \/ HasSolved(u, p))

\* canViewSource
CanViewSource(u, s, isCodePublic) ==
    \/ isCodePublic
    \/ u # NoUser /\ (u = s.user \/ AtLeast(u, "staff"))

\* GET /submissions: the rows it lists for a verdict that is asked for (None: any), and the
\* verdict it shows of each.
ListBy(verdict) == {s \in subs : verdict # None => s.verdict = verdict}
ListVerdict(u, s) == IF s.course = None \/ VerdictVisible(u, s.course) THEN s.verdict ELSE None

\* GET /submissions/:id: the columns that it fills in. An answer is no source code.
DetailShows(u, s, kind, isCodePublic) ==
    LET showVerdict == VerdictVisible(u, s.course)
        showSource == CanViewSource(u, s, isCodePublic)
    IN  (IF showVerdict THEN {"verdict", "score", "results", "compileOutput"} ELSE {})
        \cup (IF showSource THEN {IF kind = "answer" THEN "answers" ELSE "source"} ELSE {})
        \cup (IF showVerdict /\ showSource THEN {"failedStdout", "failedStderr"} ELSE {})
        \cup (IF AtLeast(u, "staff") THEN {"judgeError"} ELSE {})

\* The scoreboard of a collection counts up to here: managers are not frozen.
Cutoff(u, c) ==
    IF course[c].reveal = "frozen" /\ course[c].freeze > 0 /\ course[c].endsAt # None
       /\ ~CanManage(u, c)
    THEN course[c].endsAt - course[c].freeze
    ELSE course[c].endsAt
=============================================================================
