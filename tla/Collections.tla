---------------------------- MODULE Collections ----------------------------
(***************************************************************************)
(* The requests of apps/api/src/routes/collections.ts that write, and the  *)
(* submissions made in a collection, over the tables of Access. A request  *)
(* reads, decides, and writes in a later statement: other requests, and    *)
(* time, come between. What it read and decided by goes with it in flight. *)
(*                                                                         *)
(* Nothing in the code keeps two requests apart, and here nothing does.    *)
(* The history variables outdated and mixed remember which requests have   *)
(* decided by what another has written since, and what came of it.         *)
(***************************************************************************)
EXTENDS Access, TLC

CONSTANTS
    Drafts,      \* collections that POST is asked to make, without their owner
    Patches,     \* columns that PATCH is asked to change
    ProblemPatches, \* columns of a problem that PATCH is asked to change
    ItemLists,   \* lists that PUT items and POST import are given
    Invitations, \* [users, role, replace] that PUT members is given
    RoleChanges, \* [user, role] that PATCH of a member is asked for
    Actor,       \* the users that send requests
    Tables,      \* the tables a behaviour may begin with
    MaxFlight,   \* bound: requests in flight
    MaxRequests, \* bound: requests altogether
    MaxSubs,     \* bound: submissions
    MaxTime      \* bound: the last instant

Kind == {"patch", "items", "import", "members", "role", "remove", "join", "start", "submit",
         "problem"}

\* The columns of a collection and what each of them may hold (schema/collections.ts).
ColumnType ==
    [preset |-> DOMAIN PresetDefaults, owner |-> User \cup {None},
     timing |-> {"none", "fixed", "per_user"}, reveal |-> {"immediate", "frozen", "after_end"},
     scoring |-> {"none", "progress", "icpc", "ioi"},
     joinPolicy |-> {"open", "members", "register", "invite"},
     visibility |-> {"public", "unlisted", "private"},
     startsAt |-> Nat \cup {None}, endsAt |-> Nat \cup {None},
     duration |-> (Nat \ {0}) \cup {None}, freeze |-> Nat]
Column ==
    [preset : ColumnType.preset, owner : ColumnType.owner, timing : ColumnType.timing,
     reveal : ColumnType.reveal, scoring : ColumnType.scoring,
     joinPolicy : ColumnType.joinPolicy, visibility : ColumnType.visibility,
     startsAt : ColumnType.startsAt, endsAt : ColumnType.endsAt,
     duration : ColumnType.duration, freeze : ColumnType.freeze]
MemberRow == [role : MemberRole, startedAt : Nat \cup {None}, endsAt : Nat \cup {None}]
ProblemRow == [isPublic : BOOLEAN, publicFrom : Nat \cup {None}, owner : Course \cup {None}]

\* Body and Body.partial(): whom a collection belongs to is not among what is sent.
Sent == DOMAIN ColumnType \ {"owner"}
Defaulted == {"preset", "startsAt", "endsAt", "duration", "freeze"}
Fits(body) == DOMAIN body \subseteq Sent /\ \A f \in DOMAIN body : body[f] \in ColumnType[f]

ASSUME RequestAssumption ==
    /\ Actor \subseteq User
    /\ \A draft \in Drafts : Fits(draft) /\ Defaulted \subseteq DOMAIN draft
    /\ \A patch \in Patches : Fits(patch)
    /\ \A patch \in ProblemPatches :
        "owner" \in DOMAIN patch => patch.owner \in Course \cup {None}
    /\ ItemLists \subseteq Seq(Problem \cup {Text})
    /\ \A invitation \in Invitations : invitation.role \in MemberRole
    /\ \A change \in RoleChanges : change.user \in User /\ change.role \in MemberRole
ASSUME RowAssumption == None \notin Column \cup MemberRow
ASSUME BoundAssumption ==
    {MaxFlight, MaxRequests, MaxSubs, MaxTime} \subseteq Nat
ASSUME TablesAssumption ==
    \A t \in Tables :
        /\ t.course \in [Course -> Column \cup {None}]
        /\ \A c \in Course : t.course[c] # None => ValidAxes(t.course[c])
        /\ t.member \in [Course -> [User -> MemberRow \cup {None}]]
        /\ t.items \in [Course -> Seq(Problem \cup {Text})]
        /\ t.problem \in [Problem -> ProblemRow]

VARIABLES
    flight,   \* requests that have read and not yet written
    served,   \* requests so far
    outdated, \* history: those in flight that decided by what was written over since
    mixed     \* history: collections that an outdated PATCH was the last to write

history == <<outdated, mixed>>
vars == <<tables, now, flight, served, history>>

NewMember(r) == [role |-> r, startedAt |-> None, endsAt |-> None]

-----------------------------------------------------------------------------
(* A request: Begin reads and checks, Commit writes *)

Begin(kind, u, c, arg) ==
    /\ served < MaxRequests /\ Cardinality(flight) < MaxFlight
    /\ served' = served + 1
    /\ flight' = flight \cup
        {[id |-> served, kind |-> kind, user |-> u, course |-> c, arg |-> arg]}
    /\ UNCHANGED <<tables, now, history>>

\* The columns that each rule of validateAxes compares.
AxisRules == {{"timing", "startsAt", "endsAt"}, {"timing", "duration"}, {"timing", "reveal"},
              {"reveal", "scoring"}, {"joinPolicy", "visibility"}}
Coupled(fields, others) == \E rule \in AxisRules : rule \cap fields # {} /\ rule \cap others # {}

TakesSeats(r) ==
    \/ r.kind = "remove"
    \/ r.kind = "role" /\ r.arg.role # "manager"
    \/ r.kind = "members" /\ r.arg.replace

\* What r writes is what q has decided by: two PATCHes of columns of one rule (or one that
\* was mistaken itself), two starts of a member, a demotion and whatever takes managers away.
Upsets(r, q) ==
    /\ q # r /\ q.course = r.course
    /\ \/ /\ q.kind = "patch" /\ r.kind = "patch"
          /\ (r \in outdated \/ Coupled(DOMAIN q.arg, DOMAIN r.arg))
       \/ q.kind = "start" /\ r.kind = "start" /\ q.user = r.user
       \/ q.kind = "role" /\ TakesSeats(r)

Ends(r) ==
    /\ flight' = flight \ {r}
    /\ outdated' = (outdated \cup {q \in flight : Upsets(r, q)}) \ {r}
    /\ mixed' = IF r.kind # "patch" THEN mixed
                ELSE IF r \in outdated THEN mixed \cup {r.course} ELSE mixed \ {r.course}
    /\ UNCHANGED <<served, now>>

SetMembers(c, row) == member' = [member EXCEPT ![c] = row]

\* { ...row, ...patch }
Merged(patch, row) ==
    [f \in DOMAIN patch \cup DOMAIN row |-> IF f \in DOMAIN patch THEN patch[f] ELSE row[f]]

\* fillAxes: an axis that is not given is the preset's.
FillAxes(draft) == Merged(draft, PresetDefaults[draft.preset])

\* POST /collections: validated, then one INSERT.
Create(u, draft) ==
    LET row == Merged([owner |-> u], FillAxes(draft))
    IN  /\ served < MaxRequests
        /\ AtLeast(u, "instructor") /\ ValidAxes(row)
        /\ \E c \in Course \ Courses :
            /\ \A d \in Course \ Courses : c <= d
            /\ course' = [course EXCEPT ![c] = row]
        /\ served' = served + 1
        /\ UNCHANGED <<role, member, items, problem, subs, now, flight, history>>

PatchUnmerged(u, c, patch) ==   \* mutant: the row is validated without the patch
    c \in Courses /\ CanManage(u, c) /\ ValidAxes(course[c]) /\ Begin("patch", u, c, patch)

\* PATCH: the whole row is validated as it was read, the changed columns are written.
BeginPatch(u, c, patch) ==
    /\ c \in Courses /\ CanManage(u, c)
    /\ ValidAxes(Merged(patch, course[c]))
    /\ Begin("patch", u, c, patch)

WritePatch(r) ==
    /\ r.kind = "patch"
    /\ course' = [course EXCEPT ![r.course] = Merged(r.arg, @)]
    /\ Ends(r)
    /\ UNCHANGED <<role, member, items, problem, subs>>

ItemsByRole(u, c, list) ==      \* mutant: the global role is asked for, not the collection
    AtLeast(u, "instructor") /\ Begin("items", u, c, list)

\* PUT items replaces the list in a transaction.
BeginItems(u, c, list) ==
    c \in Courses /\ CanManage(u, c) /\ Begin("items", u, c, list)

Usable(p, c) == p = Text \/ problem[p].owner \in {None, c}

UsableOf(list, c) ==
    LET kept[n \in 0 .. Len(list)] ==
            IF n = 0 THEN <<>>
            ELSE IF Usable(list[n], c) THEN Append(kept[n - 1], list[n]) ELSE kept[n - 1]
    IN  kept[Len(list)]

\* POST import leaves out problems of other courses.
BeginImport(u, c, list) ==
    c \in Courses /\ CanManage(u, c) /\ Begin("import", u, c, UsableOf(list, c))

WriteItems(r) ==
    /\ r.kind \in {"items", "import"}
    /\ items' = [items EXCEPT ![r.course] = r.arg]
    /\ Ends(r)
    /\ UNCHANGED <<role, course, member, problem, subs>>

\* PUT members. A row that is there already is left as it is, unless all were deleted.
BeginMembers(u, c, invitation) ==
    c \in Courses /\ CanManage(u, c) /\ Begin("members", u, c, invitation)

WriteMembers(r) ==
    /\ r.kind = "members"
    /\ SetMembers(r.course,
         [u \in User |->
            IF u \in r.arg.users /\ (r.arg.replace \/ member[r.course][u] = None)
            THEN NewMember(r.arg.role)
            ELSE IF r.arg.replace THEN None ELSE member[r.course][u]])
    /\ Ends(r)
    /\ UNCHANGED <<role, course, items, problem, subs>>

Managers(c) == {u \in User : HasRole(u, c, {"manager"})}

RoleUnguarded(u, c, change) ==  \* mutant: managers are not counted
    c \in Courses /\ CanManage(u, c)

\* PATCH of a member's role: the last manager of an ownerless collection stays one.
MayChangeRole(u, c, change) ==
    /\ c \in Courses /\ CanManage(u, c)
    /\ ~ /\ change.role = "member" /\ course[c].owner # change.user
         /\ Cardinality(Managers(c)) <= 1 /\ course[c].owner = None

BeginRole(u, c, change) == MayChangeRole(u, c, change) /\ Begin("role", u, c, change)

WriteRole(r) ==
    /\ r.kind = "role"
    /\ member' = IF member[r.course][r.arg.user] = None THEN member
                 ELSE [member EXCEPT ![r.course][r.arg.user].role = r.arg.role]
    /\ Ends(r)
    /\ UNCHANGED <<role, course, items, problem, subs>>

\* DELETE of a member.
BeginRemove(u, c, target) ==
    c \in Courses /\ CanManage(u, c) /\ Begin("remove", u, c, target)

WriteRemove(r) ==
    /\ r.kind = "remove"
    /\ SetMembers(r.course, [member[r.course] EXCEPT ![r.arg] = None])
    /\ Ends(r)
    /\ UNCHANGED <<role, course, items, problem, subs>>

\* POST join.
BeginJoin(u, c) ==
    /\ c \in Courses /\ course[c].joinPolicy \notin {"invite", "members"}
    /\ ~(course[c].timing = "fixed" /\ Over(course[c].endsAt))
    /\ Begin("join", u, c, None)

WriteJoin(r) ==
    /\ r.kind = "join"
    /\ member' = IF member[r.course][r.user] # None THEN member
                 ELSE [member EXCEPT ![r.course][r.user] = NewMember("member")]
    /\ Ends(r)
    /\ UNCHANGED <<role, course, items, problem, subs>>

\* POST start: the window is computed from the clock and the duration that was read.
NotYetStarted(u, c) == member[c][u] # None /\ member[c][u].startedAt = None

BeginStart(u, c) ==
    /\ c \in Courses /\ course[c].timing = "per_user" /\ course[c].duration # None
    /\ NotYetStarted(u, c)
    /\ Begin("start", u, c, [from |-> now, to |-> now + course[c].duration])

WriteStart(r) ==
    /\ r.kind = "start"
    /\ member' = IF member[r.course][r.user] = None THEN member
                 ELSE [member EXCEPT ![r.course][r.user].startedAt = r.arg.from,
                                     ![r.course][r.user].endsAt = r.arg.to]
    /\ Ends(r)
    /\ UNCHANGED <<role, course, items, problem, subs>>

\* PATCH of a problem: only staff move it to another owner.
BeginProblem(u, p, patch) ==
    /\ CanEditProblem(u, p)
    /\ "owner" \in DOMAIN patch /\ patch.owner # problem[p].owner =>
        AtLeast(u, "staff") /\ CanCreateProblem(u, patch.owner)
    /\ Begin("problem", u, problem[p].owner, [problem |-> p, patch |-> patch])

WriteProblem(r) ==
    /\ r.kind = "problem"
    /\ problem' = [problem EXCEPT ![r.arg.problem] = Merged(r.arg.patch, @)]
    /\ Ends(r)
    /\ UNCHANGED <<role, course, member, items, subs>>

-----------------------------------------------------------------------------
(* Submissions in a collection, and time *)

BeginSubmit(u, p) ==
    /\ Cardinality(subs) < MaxSubs
    /\ CanSubmit(u, p)
    /\ Begin("submit", u, StampOf(u, p), p)

WriteSubmit(r) ==
    /\ r.kind = "submit"
    /\ subs' = subs \cup {[id |-> r.id, user |-> r.user, problem |-> r.arg,
                           course |-> r.course, at |-> now, verdict |-> None]}
    /\ Ends(r)
    /\ UNCHANGED <<role, course, member, items, problem>>

\* The queue comes to a verdict.
Judged(s, verdict) ==
    /\ s.verdict = None
    /\ subs' = (subs \ {s}) \cup {[s EXCEPT !.verdict = verdict]}
    /\ UNCHANGED <<role, course, member, items, problem, now, flight, served, history>>

Tick ==
    /\ now < MaxTime
    /\ now' = now + 1
    /\ UNCHANGED <<tables, flight, served, history>>

-----------------------------------------------------------------------------
Init ==
    /\ \E t \in Tables :
        /\ role = t.role /\ course = t.course /\ member = t.member
        /\ items = t.items /\ problem = t.problem
    /\ subs = {} /\ now = 0
    /\ flight = {} /\ served = 0
    /\ outdated = {} /\ mixed = {}

Reads ==
    \E u \in Actor :
        \/ \E draft \in Drafts : Create(u, draft)
        \/ \E p \in Problem :
            \/ BeginSubmit(u, p)
            \/ \E patch \in ProblemPatches : BeginProblem(u, p, patch)
        \/ \E c \in Course :
            \/ \E patch \in Patches : BeginPatch(u, c, patch)
            \/ \E list \in ItemLists : BeginItems(u, c, list) \/ BeginImport(u, c, list)
            \/ \E invitation \in Invitations : BeginMembers(u, c, invitation)
            \/ \E target \in User : BeginRemove(u, c, target)
            \/ \E change \in RoleChanges : BeginRole(u, c, change)
            \/ BeginJoin(u, c)
            \/ BeginStart(u, c)

Writes ==
    \E r \in flight :
        \/ WritePatch(r)  \/ WriteItems(r) \/ WriteMembers(r) \/ WriteRole(r)
        \/ WriteRemove(r) \/ WriteJoin(r)  \/ WriteStart(r)   \/ WriteSubmit(r)
        \/ WriteProblem(r)

Next ==
    \/ Reads \/ Writes \/ Tick
    \/ \E s \in subs, verdict \in {"accepted", "wrong_answer"} : Judged(s, verdict)

Spec == Init /\ [][Next]_vars

-----------------------------------------------------------------------------
(* Properties *)

\* The tables and the requests have their types, and a request is about a collection
\* that exists (none is ever deleted).
CollectionsTypeOK ==
    /\ course \in [Course -> Column \cup {None}]
    /\ member \in [Course -> [User -> MemberRow \cup {None}]]
    /\ items \in [Course -> Seq(Problem \cup {Text})]
    /\ now \in Nat /\ served \in Nat
    /\ \A r \in flight : /\ r.kind \in Kind /\ r.id < served
                          /\ r.kind \notin {"submit", "problem"} => r.course \in Courses
    /\ outdated \subseteq flight /\ mixed \subseteq Courses
    /\ \A s \in subs : s.at <= now /\ (s.course = None \/ s.course \in Courses)

\* The rules that are written twice agree: what a list shows opens, what opens and is
\* not unlisted is listed, "mine" is what one manages, who may edit a problem may open
\* it, and a participant of a running contest or exam can hand in every problem it shows.
PagesAgree ==
    /\ \A u \in User \cup {NoUser} :
        /\ ListedCourses(u) \subseteq {c \in Courses : CanView(u, c)}
        /\ {c \in Courses : CanView(u, c) /\ course[c].visibility # "unlisted"}
              \subseteq ListedCourses(u)
        /\ AtLeast(u, "staff") \/ MineCourses(u) = {c \in Courses : CanManage(u, c)}
        /\ \A p \in Problem : CanEditProblem(u, p) => CanSubmit(u, p)
    /\ \A u \in User : \A c \in Courses :
        member[c][u] # None /\ course[c].timing # "none" /\ IsRunning(course[c], member[c][u])
        => \A p \in ToSet(ShownItems(u, c)) \ {Text} :
              CanSubmit(u, p) /\ (AtLeast(u, "staff") \/ StampOf(u, p) \in Courses)

AtAnEnd(s) == \/ s.course \in Courses /\ course[s.course].endsAt = now
              \/ s.course \in Courses /\ member[s.course][s.user] # None
                                     /\ member[s.course][s.user].endsAt = now

\* The profile (users.ts, in SQL) and the page of a submission (access.ts) hide and show
\* an author's verdict alike, except in the very instant of the end, where SQL is first.
\* So whoever may read the solutions of a problem has it on the profile. And what the
\* list tells of a submission the page tells, to everybody.
RevealRulesAgree ==
    \A s \in subs :
        /\ ~AtLeast(s.user, "staff") =>
            /\ VerdictVisible(s.user, s.course) => ProfileCounts(s)
            /\ ProfileCounts(s) /\ ~AtAnEnd(s) => VerdictVisible(s.user, s.course)
            /\ HasSolved(s.user, s.problem) => s.problem \in ProfileSolved(s.user)
        /\ s.verdict # None => \A u \in User \cup {NoUser}, open \in BOOLEAN :
            LET told == DetailShows(u, s, "code", open)
            IN  /\ ListVerdict(u, s) # None <=> "verdict" \in told
                /\ "failedStdout" \in told => "results" \in told /\ CanViewSource(u, s, open)

\* The axes of a collection fit together (collections.ts 378), however requests overlap:
\* only a PATCH can break them that was validated before another one wrote columns of a
\* rule it writes to as well, and the next PATCH that is not so mends them.
AxesStayValid == \A c \in Courses \ mixed : ValidAxes(course[c])

Outdated(kind) == {r \in outdated \ flight' : r.kind = kind}
Replaced == {r.course : r \in {q \in flight \ flight' : q.kind = "members" /\ q.arg.replace}}

\* A personal window that has been opened does not move while the member is in the list:
\* pressing start cannot be undone nor done twice (collections.ts 890-893). Only a manager
\* who replaces the list of members gives a new one, and a start that overlapped another.
WindowMoves ==
    \E c \in Course, u \in User :
        /\ member[c][u] # None /\ member[c][u].startedAt # None
        /\ member[c][u]' # None /\ c \notin Replaced
        /\ \A r \in Outdated("start") : <<r.course, r.user>> # <<c, u>>
        /\ <<member[c][u].startedAt, member[c][u].endsAt>>' #
           <<member[c][u].startedAt, member[c][u].endsAt>>

\* Making a manager a member never leaves an ownerless collection without a manager
\* (collections.ts 545-546), unless managers were taken away after they were counted.
DemotionOrphans ==
    \E r \in (flight \ flight') \ Outdated("role") :
        /\ r.kind = "role" /\ r.arg.role = "member"
        /\ course[r.course].owner = None
        /\ Managers(r.course) # {} /\ Managers(r.course)' = {}

MembershipKept == [][~WindowMoves /\ ~DemotionOrphans]_vars

\* collections.ts and solutions.ts: a verdict that is hidden until the end must not be
\* told by another page. The items of the collection itself are marked as solved.
HiddenUntilEnd ==
    \A s \in subs : s.verdict = "accepted" /\ ~VerdictVisible(s.user, s.course)
                     => s.problem \notin PageMarks(s.user, s.course)

\* access.ts 166-169: whoever runs the collection always sees the verdicts.
ManagerSeesVerdicts ==
    \A s \in subs : \A u \in User :
        s.course \in Courses /\ CanManage(u, s.course) => VerdictVisible(u, s.course)

\* submissions.ts 310: of a hidden verdict the list tells only that there is one. But
\* asked for the accepted ones it lists just those, hidden or not.
FilterTellsNothing ==
    \A u \in User, s \in subs :
        ~VerdictVisible(u, s.course) => (s \in ListBy("accepted") <=> s \in ListBy("wrong_answer"))
=============================================================================
