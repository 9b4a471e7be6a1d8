-------------------------- MODULE CollectionsProofs --------------------------
(***************************************************************************)
(* Proofs about Collections: the tables keep their types, the rules that   *)
(* are written twice agree, and however requests overlap, what breaks the  *)
(* axes of a collection, moves a window or leaves a collection without a   *)
(* manager is a request that another has outdated.                         *)
(***************************************************************************)
EXTENDS Collections, FiniteSetTheorems, WellFoundedInduction, TLAPS

-----------------------------------------------------------------------------
(* What the provers need of numbers and sequences                          *)

LEMMA Induction ==
    ASSUME NEW S, 0 \in S, \A n \in Nat : n \in S => n + 1 \in S
    PROVE  \A n \in Nat : n \in S
<1>1. SUFFICES ASSUME Nat \ S # {} PROVE FALSE
    OBVIOUS
<1>2. PICK m \in Nat \ S : \A y \in Nat \ S : <<y, m>> \notin OpToRel(<, Nat)
    BY <1>1, NatLessThanWellFounded, WFMin
<1>3. m # 0 /\ m - 1 \in Nat
    OBVIOUS
<1>4. \A y \in Nat \ S : ~(y < m)
    BY <1>2 DEF OpToRel
<1>5. m - 1 \in S
    BY <1>3, <1>4
<1> QED BY <1>3, <1>5

LEMMA MinOfNats ==
    ASSUME NEW S \in SUBSET Nat, S # {}
    PROVE  Min(S) \in S /\ \A y \in S : Min(S) <= y
<1>1. PICK x \in S : \A y \in S : <<y, x>> \notin OpToRel(<, Nat)
    BY NatLessThanWellFounded, WFMin
<1>2. \A y \in S : ~(y < x)
    BY <1>1 DEF OpToRel
<1>3. \E z \in S : \A y \in S : z <= y
    BY <1>2
<1> QED BY <1>3, Zenon DEF Min

\* What is left of a list when problems are left out is a list of problems: by induction
\* on the length, first that the function is there, then what it returns.
LEMMA UsableIsList ==
    ASSUME NEW T, NEW s \in Seq(T), NEW c
    PROVE  UsableOf(s, c) \in Seq(T)
<1> DEFINE Step(g, i) ==
        IF i = 0 THEN <<>>
        ELSE IF Usable(s[i], c) THEN Append(g[i - 1], s[i]) ELSE g[i - 1]
<1> DEFINE Is(n, g) == g = [i \in 0 .. n |-> Step(g, i)]
<1>1. \A n \in Nat : \E g : Is(n, g)
    <2>1. PICK S : S = {n \in Nat : \E g : Is(n, g)}
        OBVIOUS
    <2>2. 0 \in S
        <3>1. Is(0, [i \in 0 .. 0 |-> <<>>])
            OBVIOUS
        <3> QED BY <2>1, <3>1
    <2>3. ASSUME NEW n \in Nat, n \in S PROVE n + 1 \in S
        <3>1. PICK g : Is(n, g)
            BY <2>1, <2>3
        <3>2. PICK last : last = IF Usable(s[n + 1], c) THEN Append(g[n], s[n + 1]) ELSE g[n]
            OBVIOUS
        <3>3. PICK h : h = [i \in 0 .. n + 1 |-> IF i = n + 1 THEN last ELSE g[i]]
            OBVIOUS
        <3>4. ASSUME NEW i \in 0 .. n + 1 PROVE h[i] = Step(h, i)
            <4>1. CASE i = n + 1
                BY <3>2, <3>3, <4>1
            <4>2. CASE i # n + 1
                <5>1. i \in 0 .. n /\ h[i] = g[i] /\ (i # 0 => h[i - 1] = g[i - 1])
                    BY <3>3, <4>2
                <5>2. g[i] = Step(g, i)
                    BY <3>1, <5>1
                <5> QED BY <5>1, <5>2
            <4> QED BY <4>1, <4>2
        <3>5. Is(n + 1, h)
            BY <3>3, <3>4
        <3>6. n + 1 \in Nat /\ \E f : Is(n + 1, f)
            BY <3>5
        <3> HIDE DEF Is
        <3> QED BY <2>1, <3>6
    <2>4. \A n \in Nat : n \in S
        BY <2>2, <2>3, Induction
    <2> QED BY <2>1, <2>4
<1>2. Len(s) \in Nat
    OBVIOUS
<1>3. \E g : Is(Len(s), g)
    BY <1>1, <1>2
<1>4. PICK f : Is(Len(s), f) /\ UsableOf(s, c) = f[Len(s)]
    BY <1>3 DEF UsableOf
<1>5. \A n \in Nat : n <= Len(s) => f[n] \in Seq(T)
    <2>1. PICK S : S = {n \in Nat : n <= Len(s) => f[n] \in Seq(T)}
        OBVIOUS
    <2>2. 0 \in S
        BY <1>2, <1>4, <2>1
    <2>3. ASSUME NEW n \in Nat, n \in S PROVE n + 1 \in S
        <3>1. SUFFICES ASSUME n + 1 <= Len(s) PROVE f[n + 1] \in Seq(T)
            BY <2>1
        <3>2. f[n] \in Seq(T) /\ s[n + 1] \in T
            BY <1>2, <2>1, <2>3, <3>1
        <3>3. f[n + 1] = IF Usable(s[n + 1], c) THEN Append(f[n], s[n + 1]) ELSE f[n]
            <4>1. n + 1 \in 0 .. Len(s) /\ n + 1 # 0 /\ (n + 1) - 1 = n
                BY <1>2, <3>1
            <4>2. f[n + 1] = Step(f, n + 1)
                BY <1>4, <4>1
            <4> QED BY <4>1, <4>2
        <3> QED BY <3>2, <3>3
    <2>4. \A n \in Nat : n \in S
        BY <2>2, <2>3, Induction
    <2> QED BY <2>1, <2>4
<1> QED BY <1>2, <1>4, <1>5

-----------------------------------------------------------------------------
(* Rows and what is merged into them                                       *)

IsRow(r) == /\ r = [f \in DOMAIN ColumnType |-> r[f]]
            /\ \A f \in DOMAIN ColumnType : r[f] \in ColumnType[f]

LEMMA RowIsColumn ==
    ASSUME NEW r, IsRow(r)
    PROVE  r \in Column
BY DEF IsRow, ColumnType, Column

LEMMA ColumnIsRow ==
    ASSUME NEW r \in Column
    PROVE  IsRow(r)
<1> DEFINE Fields == {"preset", "owner", "timing", "reveal", "scoring", "joinPolicy",
                      "visibility", "startsAt", "endsAt", "duration", "freeze"}
<1>1. DOMAIN ColumnType = Fields
    BY DEF ColumnType
<1>2. r = [f \in Fields |-> r[f]]
    BY DEF Column
<1>3. /\ r.preset \in ColumnType.preset /\ r.owner \in ColumnType.owner
      /\ r.timing \in ColumnType.timing /\ r.reveal \in ColumnType.reveal
      /\ r.scoring \in ColumnType.scoring /\ r.joinPolicy \in ColumnType.joinPolicy
    BY DEF Column
<1>4. /\ r.visibility \in ColumnType.visibility /\ r.startsAt \in ColumnType.startsAt
      /\ r.endsAt \in ColumnType.endsAt /\ r.duration \in ColumnType.duration
      /\ r.freeze \in ColumnType.freeze
    BY DEF Column
<1>5. \A f \in Fields : r[f] \in ColumnType[f]
    BY <1>3, <1>4
<1> QED BY <1>1, <1>2, <1>5 DEF IsRow

\* A row stays a row, of the same owner, when columns that PATCH may send are changed.
LEMMA PatchedRow ==
    ASSUME NEW row \in Column, NEW patch, Fits(patch)
    PROVE  Merged(patch, row) \in Column /\ Merged(patch, row).owner = row.owner
<1>1. PICK new : new = Merged(patch, row)
    OBVIOUS
<1>2. IsRow(row)
    BY ColumnIsRow
<1>3. /\ DOMAIN patch \subseteq DOMAIN ColumnType /\ "owner" \notin DOMAIN patch
      /\ "owner" \in DOMAIN ColumnType /\ \A f \in DOMAIN patch : patch[f] \in ColumnType[f]
    BY DEF Fits, Sent, ColumnType
<1>4. DOMAIN row = DOMAIN ColumnType
    BY <1>2 DEF IsRow
<1>5. new = [f \in DOMAIN ColumnType |-> IF f \in DOMAIN patch THEN patch[f] ELSE row[f]]
    BY <1>1, <1>3, <1>4 DEF Merged
<1>6. IsRow(new) /\ new.owner = row.owner
    BY <1>2, <1>3, <1>5 DEF IsRow
<1> QED BY <1>1, <1>6, RowIsColumn

LEMMA CreatedRow ==
    ASSUME NEW u \in User, NEW draft \in Drafts
    PROVE  Merged([owner |-> u], FillAxes(draft)) \in Column
<1>1. PICK row : row = Merged([owner |-> u], FillAxes(draft))
    OBVIOUS
<1>2. /\ DOMAIN draft \subseteq DOMAIN ColumnType \ {"owner"}
      /\ \A f \in DOMAIN draft : draft[f] \in ColumnType[f]
      /\ {"preset", "startsAt", "endsAt", "duration", "freeze"} \subseteq DOMAIN draft
    BY RequestAssumption DEF Fits, Sent, Defaulted
<1>3. PICK preset : preset = PresetDefaults[draft.preset]
    OBVIOUS
<1>4. draft.preset \in DOMAIN PresetDefaults
    BY <1>2 DEF ColumnType
<1>5. /\ DOMAIN preset = {"timing", "reveal", "scoring", "joinPolicy", "visibility"}
      /\ \A f \in DOMAIN preset : preset[f] \in ColumnType[f]
    BY <1>3, <1>4 DEF PresetDefaults, Axes, ColumnType
<1>6. DOMAIN ColumnType = DOMAIN draft \cup DOMAIN preset \cup {"owner"}
    BY <1>2, <1>5 DEF ColumnType
<1>7. PICK filled : filled = Merged(draft, preset)
    OBVIOUS
<1>8. /\ filled = [f \in DOMAIN draft \cup DOMAIN preset |->
                      IF f \in DOMAIN draft THEN draft[f] ELSE preset[f]]
      /\ row = Merged([owner |-> u], filled)
    BY <1>1, <1>3, <1>7 DEF FillAxes, Merged
<1>9. row = [f \in DOMAIN ColumnType |-> IF f = "owner" THEN u ELSE filled[f]]
    <2>1. DOMAIN [owner |-> u] = {"owner"} /\ [owner |-> u]["owner"] = u
        OBVIOUS
    <2> QED BY <1>6, <1>8, <2>1 DEF Merged
<1>10. u \in ColumnType["owner"]
    BY DEF ColumnType
<1>11. \A f \in DOMAIN ColumnType \ {"owner"} : filled[f] \in ColumnType[f]
    BY <1>2, <1>5, <1>6, <1>8
<1>12. IsRow(row)
    BY <1>9, <1>10, <1>11 DEF IsRow
<1> QED BY <1>1, <1>12, RowIsColumn

-----------------------------------------------------------------------------
(* Types. What a request has read is of the types that it writes.          *)

Sound(kind, u, c, arg) ==
    /\ kind \in Kind
    /\ kind \notin {"submit", "problem"} => c \in Courses
    /\ kind = "patch" => Fits(arg)
    /\ kind \in {"items", "import"} => arg \in Seq(Problem \cup {Text})
    /\ kind = "members" => arg.role \in MemberRole
    /\ kind = "role" => arg.user \in User /\ arg.role \in MemberRole
    /\ kind = "remove" => arg \in User
    /\ kind \in {"join", "start", "submit"} => u \in User
    /\ kind = "start" => arg.from \in Nat /\ arg.to \in Nat
    /\ kind = "submit" => c = None \/ c \in Courses
    /\ kind = "problem" /\ "owner" \in DOMAIN arg.patch => arg.patch.owner \in Course \cup {None}

RequestsInv ==
    \A r \in flight : /\ r.id \in Nat /\ r.id < served
                      /\ Sound(r.kind, r.user, r.course, r.arg)

Owners == \A p \in Problem : /\ "owner" \in DOMAIN problem[p]
                                 /\ problem[p].owner \in Course \cup {None}

TablesInv ==
    /\ course \in [Course -> Column \cup {None}]
    /\ member \in [Course -> [User -> MemberRow \cup {None}]]
    /\ items \in [Course -> Seq(Problem \cup {Text})]
    /\ problem = [p \in Problem |-> problem[p]] /\ Owners
    /\ now \in Nat /\ served \in Nat

SubsInv ==
    \A s \in subs : /\ s.user \in User /\ s.at \in Nat /\ s.at <= now
                    /\ s.course = None \/ s.course \in Courses

TypeInv == TablesInv /\ RequestsInv /\ SubsInv

LEMMA SoundStays ==
    ASSUME Courses \subseteq Courses', NEW kind, NEW u, NEW c, NEW arg, Sound(kind, u, c, arg)
    PROVE  Sound(kind, u, c, arg)'
BY DEF Sound

LEMMA BeginTyped ==
    ASSUME TypeInv, NEW kind, NEW u, NEW c, NEW arg, Begin(kind, u, c, arg), Sound(kind, u, c, arg)
    PROVE  TypeInv'
<1>1. PICK q : q = [id |-> served, kind |-> kind, user |-> u, course |-> c, arg |-> arg]
    OBVIOUS
<1>2. q.id = served /\ q.kind = kind /\ q.user = u /\ q.course = c /\ q.arg = arg
    BY <1>1
<1>3. flight' = flight \cup {q} /\ served' = served + 1 /\ UNCHANGED <<tables, now>>
    BY <1>1 DEF Begin
<1>4. UNCHANGED <<course, member, items, problem, subs, now>>
    BY <1>3 DEF tables
<1>5. Courses' = Courses
    BY <1>4 DEF Courses, Exists
<1>6. served \in Nat /\ served' \in Nat
    BY <1>3 DEF TypeInv, TablesInv
<1>7. TablesInv'
    BY <1>4, <1>6 DEF TypeInv, TablesInv, Owners
<1>8. SubsInv'
    BY <1>4, <1>5 DEF TypeInv, SubsInv
<1>9. ASSUME NEW r \in flight'
      PROVE  r.id \in Nat /\ r.id < served' /\ Sound(r.kind, r.user, r.course, r.arg)
    <2>1. CASE r \in flight
        BY <1>3, <1>6, <2>1 DEF TypeInv, RequestsInv
    <2>2. CASE r = q
        BY <1>2, <1>3, <1>6, <2>2
    <2> QED BY <1>3, <2>1, <2>2
<1>10. RequestsInv'
    BY <1>5, <1>9, SoundStays DEF RequestsInv
<1> QED BY <1>7, <1>8, <1>10 DEF TypeInv

\* A step that takes requests away, and no collection.
LEMMA RestTyped ==
    ASSUME TypeInv, TablesInv', flight' \subseteq flight, served' \in {served, served + 1},
           Courses \subseteq Courses', now <= now',
           \A s \in subs' : \/ s \in subs
                            \/ /\ s.user \in User /\ s.at \in Nat /\ s.at <= now'
                               /\ s.course = None \/ s.course \in Courses
    PROVE  TypeInv'
<1>1. served \in Nat /\ now \in Nat /\ now' \in Nat
    BY DEF TypeInv, TablesInv
<1>2. RequestsInv'
    BY <1>1, SoundStays DEF TypeInv, RequestsInv
<1>3. SubsInv'
    BY <1>1 DEF TypeInv, SubsInv
<1> QED BY <1>2, <1>3 DEF TypeInv

LEMMA StampIsCourse ==
    ASSUME TypeInv, NEW u, NEW p \in Problem
    PROVE  StampOf(u, p) = None \/ StampOf(u, p) \in Courses
<1>1. ActiveGate(u, p) # None => ActiveGate(u, p) \in Courses
    <2>1. Gates(u, p) \in SUBSET Nat /\ Gates(u, p) \subseteq Courses
        BY CourseAssumption DEF Gates, Courses
    <2> QED BY <2>1, MinOfNats DEF ActiveGate
<1>2. problem[p].owner # None /\ BelongsTo(u, problem[p].owner) => problem[p].owner \in Courses
    BY DEF BelongsTo, Courses, TypeInv, TablesInv, Owners
<1> QED BY <1>1, <1>2 DEF StampOf

LEMMA ReadsTyped ==
    ASSUME TypeInv, NEW u \in User,
           \/ \E p \in Problem :
                \/ BeginSubmit(u, p)
                \/ \E patch \in ProblemPatches : BeginProblem(u, p, patch)
           \/ \E c \in Course :
                \/ \E patch \in Patches : BeginPatch(u, c, patch)
                \/ \E list \in ItemLists : BeginItems(u, c, list) \/ BeginImport(u, c, list)
                \/ \E invitation \in Invitations : BeginMembers(u, c, invitation)
                \/ \E target \in User : BeginRemove(u, c, target)
                \/ \E change \in RoleChanges : BeginRole(u, c, change)
                \/ BeginJoin(u, c)
                \/ BeginStart(u, c)
    PROVE  TypeInv'
<1>1. ASSUME NEW p \in Problem, BeginSubmit(u, p) PROVE TypeInv'
    <2>1. Sound("submit", u, StampOf(u, p), p)
        BY StampIsCourse DEF Sound, Kind
    <2> QED BY <1>1, <2>1, BeginTyped DEF BeginSubmit
<1>2. ASSUME NEW p \in Problem, NEW patch \in ProblemPatches, BeginProblem(u, p, patch)
      PROVE  TypeInv'
    <2>1. PICK arg : arg = [problem |-> p, patch |-> patch]
        OBVIOUS
    <2>2. Sound("problem", u, problem[p].owner, arg)
        BY <2>1, RequestAssumption DEF Sound, Kind
    <2>3. Begin("problem", u, problem[p].owner, arg)
        BY <1>2, <2>1 DEF BeginProblem
    <2> QED BY <2>2, <2>3, BeginTyped
<1>3. ASSUME NEW c \in Course, NEW patch \in Patches, BeginPatch(u, c, patch) PROVE TypeInv'
    <2>1. Sound("patch", u, c, patch)
        BY <1>3, RequestAssumption DEF Sound, Kind, BeginPatch
    <2> QED BY <1>3, <2>1, BeginTyped DEF BeginPatch
<1>4. ASSUME NEW c \in Course, NEW list \in ItemLists, BeginItems(u, c, list) \/ BeginImport(u, c, list)
      PROVE  TypeInv'
    <2>1. list \in Seq(Problem \cup {Text})
        BY RequestAssumption
    <2>2. UsableOf(list, c) \in Seq(Problem \cup {Text})
        BY <2>1, UsableIsList
    <2>3. Sound("items", u, c, list) /\ Sound("import", u, c, UsableOf(list, c))
        BY <1>4, <2>1, <2>2 DEF Sound, Kind, BeginItems, BeginImport
    <2> QED BY <1>4, <2>3, BeginTyped DEF BeginItems, BeginImport
<1>5. ASSUME NEW c \in Course, NEW invitation \in Invitations, BeginMembers(u, c, invitation)
      PROVE  TypeInv'
    <2>1. Sound("members", u, c, invitation)
        BY <1>5, RequestAssumption DEF Sound, Kind, BeginMembers
    <2> QED BY <1>5, <2>1, BeginTyped DEF BeginMembers
<1>6. ASSUME NEW c \in Course, NEW target \in User, BeginRemove(u, c, target) PROVE TypeInv'
    <2>1. Sound("remove", u, c, target)
        BY <1>6 DEF Sound, Kind, BeginRemove
    <2> QED BY <1>6, <2>1, BeginTyped DEF BeginRemove
<1>7. ASSUME NEW c \in Course, NEW change \in RoleChanges, BeginRole(u, c, change) PROVE TypeInv'
    <2>1. Sound("role", u, c, change)
        BY <1>7, RequestAssumption DEF Sound, Kind, BeginRole, MayChangeRole
    <2> QED BY <1>7, <2>1, BeginTyped DEF BeginRole
<1>8. ASSUME NEW c \in Course, BeginJoin(u, c) PROVE TypeInv'
    <2>1. Sound("join", u, c, None)
        BY <1>8 DEF Sound, Kind, BeginJoin
    <2> QED BY <1>8, <2>1, BeginTyped DEF BeginJoin
<1>9. ASSUME NEW c \in Course, BeginStart(u, c) PROVE TypeInv'
    <2>1. PICK arg : arg = [from |-> now, to |-> now + course[c].duration]
        OBVIOUS
    <2>2. course[c] \in Column /\ course[c].duration # None
        BY <1>9 DEF BeginStart, Courses, Exists, TypeInv, TablesInv
    <2>3. course[c].duration \in Nat
        BY <2>2 DEF Column, ColumnType
    <2>4. arg.from \in Nat /\ arg.to \in Nat
        BY <2>1, <2>3 DEF TypeInv, TablesInv
    <2>5. Sound("start", u, c, arg)
        BY <1>9, <2>4 DEF Sound, Kind, BeginStart
    <2>6. Begin("start", u, c, arg)
        BY <1>9, <2>1 DEF BeginStart
    <2> QED BY <2>5, <2>6, BeginTyped
<1> QED BY <1>1, <1>2, <1>3, <1>4, <1>5, <1>6, <1>7, <1>8, <1>9

LEMMA CreateTyped ==
    ASSUME TypeInv, NEW u \in User, NEW draft \in Drafts, Create(u, draft)
    PROVE  TypeInv' /\ \A c \in Courses : course'[c] = course[c]
<1>1. PICK row : row = Merged([owner |-> u], FillAxes(draft))
    OBVIOUS
<1>2. row \in Column /\ row # None
    BY <1>1, CreatedRow, RowAssumption
<1>3. PICK n \in Course \ Courses : course' = [course EXCEPT ![n] = row]
    BY <1>1 DEF Create
<1>4. /\ UNCHANGED <<role, member, items, problem, subs, now, flight>> /\ served' = served + 1
      /\ course \in [Course -> Column \cup {None}] /\ served \in Nat
    BY DEF Create, TypeInv, TablesInv
<1>5. /\ course' \in [Course -> Column \cup {None}]
      /\ \A c \in Course : c # n => course'[c] = course[c]
    BY <1>2, <1>3, <1>4
<1>6. Courses \subseteq Courses' /\ \A c \in Courses : course'[c] = course[c]
    BY <1>3, <1>5 DEF Courses, Exists
<1>7. TablesInv'
    BY <1>4, <1>5 DEF TypeInv, TablesInv, Owners
<1>8. now <= now'
    BY <1>4 DEF TypeInv, TablesInv
<1> QED BY <1>4, <1>6, <1>7, <1>8, RestTyped

-----------------------------------------------------------------------------
(* What a write does to the members of its collection                      *)

MembersTyped == member \in [Course -> [User -> MemberRow \cup {None}]]

\* How the row a of a user may become another row b.
Moved(r, u, a, b) ==
    \/ r.kind = "remove" /\ b = None
    \/ r.kind = "members" /\ r.arg.replace /\ (b = None \/ b.startedAt = None)
    \/ r.kind \in {"members", "join"} /\ a = None /\ b # None /\ b.startedAt = None
    \/ /\ r.kind = "role" /\ u = r.arg.user /\ a # None /\ b # None
       /\ b.role = r.arg.role /\ b.startedAt = a.startedAt /\ b.endsAt = a.endsAt
    \/ r.kind = "start" /\ u = r.user /\ a # None /\ b # None /\ b.role = a.role

MembersMove(r) ==
    \A c \in Course, u \in User :
        \/ member'[c][u] = member[c][u]
        \/ c = r.course /\ Moved(r, u, member[c][u], member'[c][u])

LEMMA NewMemberTyped ==
    ASSUME NEW r \in MemberRole
    PROVE  /\ NewMember(r) \in MemberRow /\ NewMember(r) # None
           /\ NewMember(r).startedAt = None
<1>1. NewMember(r) \in MemberRow /\ NewMember(r).startedAt = None
    BY DEF NewMember, MemberRow
<1> QED BY <1>1, RowAssumption

\* All rows of a collection are written, or one.
LEMMA ListSet ==
    ASSUME MembersTyped, NEW c \in Course, NEW rows \in [User -> MemberRow \cup {None}],
           member' = [member EXCEPT ![c] = rows]
    PROVE  MembersTyped' /\ member'[c] = rows /\ \A d \in Course \ {c} : member'[d] = member[d]
BY DEF MembersTyped

SetsRow(c, u, row) ==
    /\ c \in Course /\ u \in User /\ row \in MemberRow \cup {None}
    /\ member' = [member EXCEPT ![c][u] = row]

LEMMA RowSet ==
    ASSUME MembersTyped, NEW c, NEW u, NEW row, SetsRow(c, u, row)
    PROVE  /\ MembersTyped' /\ member'[c][u] = row
           /\ \A d \in Course, w \in User : d # c \/ w # u => member'[d][w] = member[d][w]
<1>1. PICK rows : rows = [member[c] EXCEPT ![u] = row]
    OBVIOUS
<1>2. member[c] \in [User -> MemberRow \cup {None}]
    BY DEF MembersTyped, SetsRow
<1>3. /\ rows \in [User -> MemberRow \cup {None}] /\ rows[u] = row
      /\ \A w \in User \ {u} : rows[w] = member[c][w]
    BY <1>1, <1>2 DEF SetsRow
<1>4. member' = [member EXCEPT ![c] = rows] /\ c \in Course
    BY <1>1 DEF SetsRow
<1>5. MembersTyped' /\ member'[c] = rows /\ \A d \in Course \ {c} : member'[d] = member[d]
    BY <1>3, <1>4, ListSet
<1> QED BY <1>3, <1>5

LEMMA MembersWrite ==
    ASSUME MembersTyped, NEW r, r.course \in Course, r.arg.role \in MemberRole, WriteMembers(r)
    PROVE  MembersTyped' /\ MembersMove(r)
<1>1. PICK c \in Course : c = r.course
    OBVIOUS
<1>2. PICK new : new = NewMember(r.arg.role)
    OBVIOUS
<1>3. new \in MemberRow /\ new # None /\ new.startedAt = None
    BY <1>2, NewMemberTyped
<1>4. PICK rows : rows = [u \in User |->
            IF u \in r.arg.users /\ (r.arg.replace \/ member[c][u] = None) THEN new
            ELSE IF r.arg.replace THEN None ELSE member[c][u]]
    OBVIOUS
<1>5. r.kind = "members" /\ member' = [member EXCEPT ![c] = rows]
    BY <1>1, <1>2, <1>4 DEF WriteMembers, SetMembers
<1>6. \A u \in User : member[c][u] \in MemberRow \cup {None}
    BY DEF MembersTyped
<1>7. rows \in [User -> MemberRow \cup {None}]
    BY <1>3, <1>4, <1>6
<1>8. MembersTyped' /\ member'[c] = rows /\ \A d \in Course \ {c} : member'[d] = member[d]
    BY <1>5, <1>7, ListSet
<1>9. ASSUME NEW u \in User PROVE rows[u] = member[c][u] \/ Moved(r, u, member[c][u], rows[u])
    <2>1. \/ rows[u] = member[c][u]
          \/ r.arg.replace /\ (rows[u] = None \/ rows[u] = new)
          \/ member[c][u] = None /\ rows[u] = new
        BY <1>4
    <2> QED BY <1>3, <1>5, <2>1 DEF Moved
<1> QED BY <1>1, <1>8, <1>9 DEF MembersMove

LEMMA RoleWrite ==
    ASSUME MembersTyped, NEW r, r.course \in Course, r.arg.user \in User, r.arg.role \in MemberRole,
           WriteRole(r)
    PROVE  MembersTyped' /\ MembersMove(r)
<1>1. PICK c \in Course : c = r.course
    OBVIOUS
<1>2. PICK u \in User : u = r.arg.user
    OBVIOUS
<1>3. PICK x \in MemberRole : x = r.arg.role
    OBVIOUS
<1>4. PICK a : a = member[c][u]
    OBVIOUS
<1>5. CASE a = None
    <2>1. member' = member
        BY <1>1, <1>2, <1>4, <1>5 DEF WriteRole
    <2> QED BY <2>1 DEF MembersMove, MembersTyped
<1>6. CASE a # None
    <2>1. a \in MemberRow
        BY <1>4, <1>6 DEF MembersTyped
    <2>2. PICK b : b = [a EXCEPT !.role = x]
        OBVIOUS
    <2>3. b \in MemberRow /\ b.role = x /\ b.startedAt = a.startedAt /\ b.endsAt = a.endsAt
        BY <2>1, <2>2 DEF MemberRow
    <2>4. member' = [member EXCEPT ![c][u] = b]
        BY <1>1, <1>2, <1>3, <1>4, <1>6, <2>2 DEF WriteRole
    <2>5. SetsRow(c, u, b)
        BY <2>3, <2>4 DEF SetsRow
    <2>6. /\ MembersTyped' /\ member'[c][u] = b
          /\ \A d \in Course, w \in User : d # c \/ w # u => member'[d][w] = member[d][w]
        BY <2>5, RowSet
    <2>7. Moved(r, u, a, b)
        BY <1>2, <1>3, <1>6, <2>3, RowAssumption DEF Moved, WriteRole
    <2> QED BY <1>1, <1>4, <2>6, <2>7 DEF MembersMove
<1> QED BY <1>5, <1>6

LEMMA RemoveWrite ==
    ASSUME MembersTyped, NEW r, r.course \in Course, r.arg \in User, WriteRemove(r)
    PROVE  MembersTyped' /\ MembersMove(r)
<1>1. PICK c \in Course : c = r.course
    OBVIOUS
<1>2. PICK u \in User : u = r.arg
    OBVIOUS
<1>3. member' = [member EXCEPT ![c][u] = None] /\ r.kind = "remove"
    BY <1>1, <1>2 DEF WriteRemove, SetMembers
<1>4. PICK b : b = None
    OBVIOUS
<1>5. member' = [member EXCEPT ![c][u] = b]
    BY <1>3, <1>4
<1>6. SetsRow(c, u, b)
    BY <1>4, <1>5 DEF SetsRow
<1>7. /\ MembersTyped' /\ member'[c][u] = b
      /\ \A d \in Course, w \in User : d # c \/ w # u => member'[d][w] = member[d][w]
    BY <1>6, RowSet
<1> QED BY <1>1, <1>3, <1>4, <1>7 DEF MembersMove, Moved

LEMMA JoinWrite ==
    ASSUME MembersTyped, NEW r, r.course \in Course, r.user \in User, WriteJoin(r)
    PROVE  MembersTyped' /\ MembersMove(r)
<1>1. PICK c \in Course : c = r.course
    OBVIOUS
<1>2. PICK u \in User : u = r.user
    OBVIOUS
<1>3. PICK b : b = NewMember("member")
    OBVIOUS
<1>4. CASE member[c][u] # None
    <2>1. member' = member
        BY <1>1, <1>2, <1>4 DEF WriteJoin
    <2> QED BY <2>1 DEF MembersMove, MembersTyped
<1>5. CASE member[c][u] = None
    <2>1. b \in MemberRow /\ b # None /\ b.startedAt = None
        BY <1>3, NewMemberTyped DEF MemberRole
    <2>2. member' = [member EXCEPT ![c][u] = b] /\ r.kind = "join"
        BY <1>1, <1>2, <1>3, <1>5 DEF WriteJoin
    <2>3. SetsRow(c, u, b)
        BY <2>1, <2>2 DEF SetsRow
    <2>4. /\ MembersTyped' /\ member'[c][u] = b
          /\ \A d \in Course, w \in User : d # c \/ w # u => member'[d][w] = member[d][w]
        BY <2>3, RowSet
    <2> QED BY <1>1, <1>5, <2>1, <2>2, <2>4 DEF MembersMove, Moved
<1> QED BY <1>4, <1>5

LEMMA StartWrite ==
    ASSUME MembersTyped, NEW r, r.course \in Course, r.user \in User,
           r.arg.from \in Nat, r.arg.to \in Nat, WriteStart(r)
    PROVE  MembersTyped' /\ MembersMove(r)
<1>1. PICK c \in Course : c = r.course
    OBVIOUS
<1>2. PICK u \in User : u = r.user
    OBVIOUS
<1>3. PICK from \in Nat, to \in Nat : from = r.arg.from /\ to = r.arg.to
    OBVIOUS
<1>4. PICK a : a = member[c][u]
    OBVIOUS
<1>5. CASE a = None
    <2>1. member' = member
        BY <1>1, <1>2, <1>4, <1>5 DEF WriteStart
    <2> QED BY <2>1 DEF MembersMove, MembersTyped
<1>6. CASE a # None
    <2>1. a \in MemberRow /\ member \in [Course -> [User -> MemberRow \cup {None}]]
        BY <1>4, <1>6 DEF MembersTyped
    <2>2. PICK b : b = [a EXCEPT !.startedAt = from, !.endsAt = to]
        OBVIOUS
    <2>3. b \in MemberRow /\ b.role = a.role
        BY <2>1, <2>2 DEF MemberRow
    <2>4. member' = [member EXCEPT ![c][u] = b] /\ r.kind = "start"
        <3>1. member' = [member EXCEPT ![c][u].startedAt = from, ![c][u].endsAt = to]
            BY <1>1, <1>2, <1>3, <1>4, <1>6 DEF WriteStart
        <3>2. PICK rows : rows = [member[c] EXCEPT ![u].startedAt = from, ![u].endsAt = to]
            OBVIOUS
        <3>3. rows = [member[c] EXCEPT ![u] = b]
            BY <1>4, <2>1, <2>2, <3>2
        <3>4. member' = [member EXCEPT ![c] = rows]
            BY <2>1, <3>1, <3>2
        <3>5. r.kind = "start"
            BY DEF WriteStart
        <3> QED BY <3>3, <3>4, <3>5
    <2>5. SetsRow(c, u, b)
        BY <2>3, <2>4 DEF SetsRow
    <2>6. /\ MembersTyped' /\ member'[c][u] = b
          /\ \A d \in Course, w \in User : d # c \/ w # u => member'[d][w] = member[d][w]
        BY <2>5, RowSet
    <2>7. Moved(r, u, a, b)
        BY <1>2, <1>6, <2>3, <2>4, RowAssumption DEF Moved
    <2> QED BY <1>1, <1>4, <2>6, <2>7 DEF MembersMove
<1> QED BY <1>5, <1>6

-----------------------------------------------------------------------------
(* What a write leaves: types, the owners of collections, and members that *)
(* moved as above                                                          *)

Left(r) == /\ TypeInv' /\ Ends(r) /\ MembersMove(r)
           /\ \A c \in Courses : course'[c].owner = course[c].owner

LEMMA Unmoved ==
    ASSUME NEW r, member' = member
    PROVE  MembersMove(r)
BY DEF MembersMove

\* A write that changes the members only, or nothing of them and of the collections.
LEMMA TableWritten ==
    ASSUME TypeInv, NEW r \in flight, Ends(r), UNCHANGED <<course, subs>>,
           MembersTyped', MembersMove(r), items' \in [Course -> Seq(Problem \cup {Text})],
           problem' = [p \in Problem |-> problem'[p]], Owners'
    PROVE  Left(r)
<1>1. Courses' = Courses
    BY DEF Courses, Exists
<1>2. flight' \subseteq flight /\ served' = served /\ now' = now
    BY DEF Ends
<1>3. TablesInv'
    BY <1>2 DEF TypeInv, TablesInv, MembersTyped
<1>4. now <= now'
    BY <1>2 DEF TypeInv, TablesInv
<1>5. TypeInv'
    BY <1>1, <1>2, <1>3, <1>4, RestTyped
<1> QED BY <1>5 DEF Left

LEMMA MemberWrites ==
    ASSUME TypeInv, NEW r \in flight,
           WriteMembers(r) \/ WriteRole(r) \/ WriteRemove(r) \/ WriteJoin(r) \/ WriteStart(r)
    PROVE  Left(r)
<1>1. MembersTyped /\ Sound(r.kind, r.user, r.course, r.arg)
    BY DEF TypeInv, TablesInv, MembersTyped, RequestsInv
<1>2. r.kind \notin {"submit", "problem"} => r.course \in Course
    BY <1>1 DEF Sound, Courses
<1>3. MembersTyped' /\ MembersMove(r)
    <2>1. CASE WriteMembers(r)
        BY <1>1, <1>2, <2>1, MembersWrite, SMTT(40) DEF Sound, WriteMembers
    <2>2. CASE WriteRole(r)
        BY <1>1, <1>2, <2>2, RoleWrite DEF Sound, WriteRole
    <2>3. CASE WriteRemove(r)
        BY <1>1, <1>2, <2>3, RemoveWrite DEF Sound, WriteRemove
    <2>4. CASE WriteJoin(r)
        BY <1>1, <1>2, <2>4, JoinWrite, SMTT(40) DEF Sound, WriteJoin
    <2>5. CASE WriteStart(r)
        BY <1>1, <1>2, <2>5, StartWrite DEF Sound, WriteStart
    <2> QED BY <2>1, <2>2, <2>3, <2>4, <2>5
<1>4. Ends(r) /\ UNCHANGED <<course, items, problem, subs>>
    BY DEF WriteMembers, WriteRole, WriteRemove, WriteJoin, WriteStart
<1>5. items' \in [Course -> Seq(Problem \cup {Text})] /\ problem' = [p \in Problem |-> problem'[p]]
    BY <1>4 DEF TypeInv, TablesInv
<1>6. Owners'
    BY <1>4 DEF TypeInv, TablesInv, Owners
<1> QED BY <1>3, <1>4, <1>5, <1>6, TableWritten

LEMMA ItemsWrite ==
    ASSUME TypeInv, NEW r \in flight, WriteItems(r)
    PROVE  Left(r)
<1>1. Ends(r) /\ UNCHANGED <<course, member, problem, subs>> /\ items' = [items EXCEPT ![r.course] = r.arg]
    BY DEF WriteItems
<1>2. r.arg \in Seq(Problem \cup {Text})
    BY DEF WriteItems, TypeInv, RequestsInv, Sound
<1>3. items' \in [Course -> Seq(Problem \cup {Text})]
    BY <1>1, <1>2 DEF TypeInv, TablesInv
<1>4. problem' = [p \in Problem |-> problem'[p]] /\ Owners' /\ MembersTyped'
    BY <1>1 DEF TypeInv, TablesInv, Owners, MembersTyped
<1>5. UNCHANGED <<course, subs>> /\ MembersMove(r)
    BY <1>1, Unmoved
<1> QED BY <1>1, <1>3, <1>4, <1>5, TableWritten

LEMMA ProblemWrites ==
    ASSUME TypeInv, NEW r \in flight, WriteProblem(r)
    PROVE  Left(r)
<1>1. PICK x : x = r.arg.problem
    OBVIOUS
<1>2. PICK patch : patch = r.arg.patch
    OBVIOUS
<1>3. PICK new : new = Merged(patch, problem[x])
    OBVIOUS
<1>4. /\ Ends(r) /\ UNCHANGED <<course, member, items, subs>>
      /\ problem' = [problem EXCEPT ![x] = new]
    BY <1>1, <1>2, <1>3 DEF WriteProblem
<1>5. "owner" \in DOMAIN patch => patch.owner \in Course \cup {None}
    BY <1>2 DEF WriteProblem, TypeInv, RequestsInv, Sound
<1>6. /\ problem = [p \in Problem |-> problem[p]]
      /\ \A p \in Problem : "owner" \in DOMAIN problem[p] /\ problem[p].owner \in Course \cup {None}
    BY DEF TypeInv, TablesInv, Owners
<1>7. x \in Problem => "owner" \in DOMAIN new /\ new.owner \in Course \cup {None}
    BY <1>3, <1>5, <1>6 DEF Merged
<1>8. problem' = [p \in Problem |-> problem'[p]] /\ \A p \in Problem : problem'[p] = IF p = x THEN new ELSE problem[p]
    BY <1>4, <1>6
<1>9. Owners'
    BY <1>6, <1>7, <1>8 DEF Owners
<1>10. items' \in [Course -> Seq(Problem \cup {Text})] /\ MembersTyped'
    BY <1>4 DEF TypeInv, TablesInv, MembersTyped
<1>11. UNCHANGED <<course, subs>> /\ MembersMove(r)
    BY <1>4, Unmoved
<1> QED BY <1>4, <1>8, <1>9, <1>10, <1>11, TableWritten

LEMMA SubmitWrites ==
    ASSUME TypeInv, NEW r \in flight, WriteSubmit(r)
    PROVE  Left(r)
<1>1. PICK s : s = [id |-> r.id, user |-> r.user, problem |-> r.arg,
                    course |-> r.course, at |-> now, verdict |-> None]
    OBVIOUS
<1>2. subs' = subs \cup {s} /\ s.user = r.user /\ s.at = now /\ s.course = r.course
    BY <1>1 DEF WriteSubmit
<1>3. /\ Ends(r) /\ UNCHANGED <<course, member, items, problem>> /\ now \in Nat
      /\ flight' \subseteq flight /\ served' = served /\ now' = now
    BY DEF WriteSubmit, Ends, TypeInv, TablesInv
<1>4. r.user \in User /\ (r.course = None \/ r.course \in Courses)
    BY DEF WriteSubmit, TypeInv, RequestsInv, Sound
<1>5. TablesInv' /\ Courses' = Courses
    BY <1>3 DEF TypeInv, TablesInv, Owners, Courses, Exists
<1>6. now <= now' /\ \A t \in subs' :
            t \in subs \/ /\ t.user \in User /\ t.at \in Nat /\ t.at <= now'
                          /\ t.course = None \/ t.course \in Courses
    BY <1>2, <1>3, <1>4
<1>7. TypeInv'
    BY <1>3, <1>5, <1>6, RestTyped
<1>8. MembersMove(r)
    BY <1>3, Unmoved
<1> QED BY <1>3, <1>7, <1>8 DEF Left

LEMMA PatchWrites ==
    ASSUME TypeInv, NEW r \in flight, WritePatch(r)
    PROVE  Left(r)
<1>1. PICK c : c = r.course
    OBVIOUS
<1>2. PICK row : row = Merged(r.arg, course[c])
    OBVIOUS
<1>3. c \in Courses /\ Fits(r.arg)
    BY <1>1 DEF WritePatch, TypeInv, RequestsInv, Sound
<1>4. course \in [Course -> Column \cup {None}] /\ course[c] \in Column
    BY <1>3 DEF TypeInv, TablesInv, Courses, Exists
<1>5. row \in Column /\ row.owner = course[c].owner
    BY <1>2, <1>3, <1>4, PatchedRow
<1>6. row # None
    BY <1>5, RowAssumption
<1>7. /\ course' = [course EXCEPT ![c] = row] /\ Ends(r)
      /\ UNCHANGED <<member, items, problem, subs>>
      /\ flight' \subseteq flight /\ served' = served /\ now' = now /\ now \in Nat
    BY <1>1, <1>2 DEF WritePatch, Ends, TypeInv, TablesInv
<1>8. /\ course' \in [Course -> Column \cup {None}] /\ course'[c] = row
      /\ \A d \in Course \ {c} : course'[d] = course[d]
    BY <1>3, <1>4, <1>5, <1>7 DEF Courses
<1>9. Courses \subseteq Courses' /\ \A d \in Courses : course'[d].owner = course[d].owner
    BY <1>5, <1>6, <1>8 DEF Courses, Exists
<1>10. TablesInv' /\ now <= now'
    BY <1>7, <1>8 DEF TypeInv, TablesInv, Owners
<1>11. TypeInv'
    BY <1>7, <1>9, <1>10, RestTyped
<1>12. MembersMove(r)
    BY <1>7, Unmoved
<1> QED BY <1>7, <1>9, <1>11, <1>12 DEF Left

LEMMA WritesLeave ==
    ASSUME TypeInv, Writes
    PROVE  \E r \in flight : Left(r)
<1>1. PICK r \in flight :
            \/ WritePatch(r)  \/ WriteItems(r) \/ WriteMembers(r) \/ WriteRole(r)
            \/ WriteRemove(r) \/ WriteJoin(r)  \/ WriteStart(r)   \/ WriteSubmit(r)
            \/ WriteProblem(r)
    BY DEF Writes
<1> QED BY <1>1, PatchWrites, ItemsWrite, MemberWrites, SubmitWrites, ProblemWrites

LEMMA OthersTyped ==
    ASSUME TypeInv,
           Tick \/ (\E s \in subs, v \in {"accepted", "wrong_answer"} : Judged(s, v)) \/ UNCHANGED vars
    PROVE  TypeInv'
<1>1. /\ UNCHANGED <<course, member, items, problem, flight, served>>
      /\ now \in Nat /\ (now' = now \/ now' = now + 1)
    BY DEF Tick, Judged, vars, tables, TypeInv, TablesInv
<1>2. TablesInv' /\ Courses' = Courses /\ now <= now'
    BY <1>1 DEF TypeInv, TablesInv, Owners, Courses, Exists
<1>3. ASSUME NEW t \in subs'
      PROVE  t \in subs \/ /\ t.user \in User /\ t.at \in Nat /\ t.at <= now'
                           /\ t.course = None \/ t.course \in Courses
    <2>1. CASE subs' = subs
        BY <2>1
    <2>2. ASSUME NEW s \in subs, NEW v, Judged(s, v)
          PROVE  t \in subs \/ /\ t.user \in User /\ t.at \in Nat /\ t.at <= now'
                               /\ t.course = None \/ t.course \in Courses
        <3>1. PICK d : d = [s EXCEPT !.verdict = v]
            OBVIOUS
        <3>2. d.user = s.user /\ d.at = s.at /\ d.course = s.course
            BY <3>1
        <3>3. subs' = (subs \ {s}) \cup {d} /\ now' = now
            BY <2>2, <3>1 DEF Judged
        <3> QED BY <3>2, <3>3 DEF TypeInv, SubsInv
    <2> QED BY <2>1, <2>2 DEF Tick, Judged, vars, tables
<1>4. flight' \subseteq flight /\ served' = served /\ Courses \subseteq Courses'
    BY <1>1, <1>2
<1> QED BY <1>2, <1>3, <1>4, RestTyped

LEMMA TypesBegin == Init => TypeInv
<1> SUFFICES ASSUME Init PROVE TypeInv
    OBVIOUS
<1>1. PICK t \in Tables : course = t.course /\ member = t.member /\ items = t.items /\ problem = t.problem
    BY DEF Init
<1>2. subs = {} /\ now = 0 /\ flight = {} /\ served = 0
    BY DEF Init
<1>3. problem \in [Problem -> ProblemRow]
    BY <1>1, TablesAssumption
<1>4. problem = [p \in Problem |-> problem[p]] /\ Owners
    BY <1>3 DEF ProblemRow, Owners
<1>5. TablesInv
    BY <1>1, <1>2, <1>4, TablesAssumption DEF TablesInv
<1> QED BY <1>2, <1>5 DEF TypeInv, RequestsInv, SubsInv

LEMMA TypesNext == TypeInv /\ [Next]_vars => TypeInv'
<1> SUFFICES ASSUME TypeInv, [Next]_vars PROVE TypeInv'
    OBVIOUS
<1>1. CASE Reads
    <2>1. PICK u \in Actor :
            \/ \E draft \in Drafts : Create(u, draft)
            \/ \E p \in Problem :
                \/ BeginSubmit(u, p)
                \/ \E patch \in ProblemPatches : BeginProblem(u, p, patch)
            \/ \E c \in Course :
                \/ \E patch \in Patches : BeginPatch(u, c, patch)
                \/ \E list \in ItemLists : BeginItems(u, c, list) \/ BeginImport(u, c, list)
                \/ \E invitation \in Invitations : BeginMembers(u, c, invitation)
                \/ \E target \in User : BeginRemove(u, c, target)
                \/ \E change \in RoleChanges : BeginRole(u, c, change)
                \/ BeginJoin(u, c)
                \/ BeginStart(u, c)
        BY <1>1 DEF Reads
    <2>2. u \in User
        BY RequestAssumption
    <2>3. CASE \E draft \in Drafts : Create(u, draft)
        BY <2>2, <2>3, CreateTyped
    <2> QED BY <2>1, <2>2, <2>3, ReadsTyped
<1>2. CASE Writes
    BY <1>2, WritesLeave DEF Left
<1> QED BY <1>1, <1>2, OthersTyped DEF Next

LEMMA TypesKept == Spec => []TypeInv
    BY TypesBegin, TypesNext, PTL DEF Spec

-----------------------------------------------------------------------------
(* The axes. A PATCH in flight that is not outdated fits the row as it is:  *)
(* of every rule it changes no column, or nobody else has since.            *)

Patching == {r \in flight : r.kind = "patch"}

AxesInv ==
    /\ course = [c \in Course |-> course[c]]
    /\ AxesStayValid
    /\ outdated \subseteq flight /\ mixed \subseteq Courses
    /\ \A r \in Patching : r.course \in Courses
    /\ \A r \in Patching \ outdated : ValidAxes(Merged(r.arg, course[r.course]))

LEMMA BeginAdds ==
    ASSUME NEW kind, NEW u, NEW c, NEW arg, Begin(kind, u, c, arg)
    PROVE  /\ UNCHANGED <<course, outdated, mixed>> /\ flight \subseteq flight'
           /\ \A r \in flight' : \/ r \in flight
                                 \/ r.kind = kind /\ r.course = c /\ r.arg = arg
<1> DEFINE new == [id |-> served, kind |-> kind, user |-> u, course |-> c, arg |-> arg]
<1>1. flight' = flight \cup {new} /\ UNCHANGED <<course, outdated, mixed>>
    BY DEF Begin, tables, history
<1> QED BY <1>1

\* The axes stay valid when a request is begun that is no PATCH, or one that fits the row.
LEMMA AxesBegun ==
    ASSUME AxesInv, NEW kind, NEW u, NEW c, NEW arg, Begin(kind, u, c, arg),
           kind = "patch" => c \in Courses /\ ValidAxes(Merged(arg, course[c]))
    PROVE  AxesInv'
<1>1. /\ UNCHANGED <<course, outdated, mixed>> /\ flight \subseteq flight'
      /\ \A r \in flight' : \/ r \in flight
                            \/ r.kind = kind /\ r.course = c /\ r.arg = arg
    BY BeginAdds
<1>2. Courses' = Courses
    BY <1>1 DEF Courses, Exists
<1>3. AxesStayValid' /\ outdated' \subseteq flight' /\ mixed' \subseteq Courses'
    BY <1>1, <1>2 DEF AxesInv, AxesStayValid, ValidAxes
<1>4. ASSUME NEW r \in Patching'
      PROVE  /\ r.course \in Courses
             /\ r \notin outdated => ValidAxes(Merged(r.arg, course[r.course]))
    <2>1. CASE r \in flight
        BY <2>1, <1>4 DEF AxesInv, Patching
    <2>2. CASE r.kind = kind /\ r.course = c /\ r.arg = arg
        BY <2>2, <1>4 DEF Patching
    <2> QED BY <1>1, <1>4, <2>1, <2>2 DEF Patching
<1>5. \A r \in (Patching \ outdated)' : ValidAxes(Merged(r.arg, course[r.course]))'
    BY <1>1, <1>4 DEF ValidAxes
<1> QED BY <1>1, <1>2, <1>3, <1>4, <1>5 DEF AxesInv

LEMMA OtherWrite ==
    ASSUME NEW r \in flight, Ends(r), r.kind # "patch", course' = course, AxesInv
    PROVE  AxesInv'
<1>1. /\ Patching' \subseteq Patching /\ mixed' = mixed /\ outdated' \subseteq flight'
      /\ Patching' \ outdated' \subseteq Patching \ outdated
    BY DEF Patching, Ends, Upsets, AxesInv
<1>2. Courses' = Courses
    BY DEF Courses, Exists
<1> QED BY <1>1, <1>2 DEF AxesInv, AxesStayValid, ValidAxes

\* A row that fits still does after another PATCH, if no rule has columns of both.
LEMMA UncoupledFits ==
    ASSUME NEW p, NEW q, NEW row, ~Coupled(DOMAIN p, DOMAIN q),
           ValidAxes(Merged(p, row)), ValidAxes(Merged(q, row)),
           DOMAIN ColumnType \subseteq DOMAIN row
    PROVE  ValidAxes(Merged(p, Merged(q, row)))
<1> DEFINE a == Merged(p, row)
           b == Merged(q, row)
           both == Merged(p, b)
<1>1. /\ DOMAIN a = DOMAIN p \cup DOMAIN row /\ DOMAIN b = DOMAIN q \cup DOMAIN row
      /\ DOMAIN both = DOMAIN p \cup DOMAIN q \cup DOMAIN row
    BY DEF Merged
<1>2. \A f \in DOMAIN row : /\ f \notin DOMAIN p => both[f] = b[f]
                            /\ f \notin DOMAIN q => both[f] = a[f]
    BY <1>1 DEF Merged
<1>3. {"timing", "startsAt", "endsAt", "duration", "reveal", "scoring", "joinPolicy", "visibility"}
        \subseteq DOMAIN row
    BY DEF ColumnType
<1>4. ASSUME NEW rule \in AxisRules
      PROVE  (\A f \in rule : both[f] = a[f]) \/ (\A f \in rule : both[f] = b[f])
    <2>1. rule \cap DOMAIN p = {} \/ rule \cap DOMAIN q = {}
        BY DEF Coupled
    <2>2. rule \subseteq DOMAIN row
        BY <1>3 DEF AxisRules
    <2> QED BY <1>2, <2>1, <2>2
<1>5. ValidAxes(a) /\ ValidAxes(b)
    OBVIOUS
<1> HIDE DEF a, b, both
<1>6. \/ both["timing"] = a["timing"] /\ both["startsAt"] = a["startsAt"] /\ both["endsAt"] = a["endsAt"]
      \/ both["timing"] = b["timing"] /\ both["startsAt"] = b["startsAt"] /\ both["endsAt"] = b["endsAt"]
    BY <1>4 DEF AxisRules
<1>7. \/ both["timing"] = a["timing"] /\ both["duration"] = a["duration"]
      \/ both["timing"] = b["timing"] /\ both["duration"] = b["duration"]
    BY <1>4 DEF AxisRules
<1>8. \/ both["timing"] = a["timing"] /\ both["reveal"] = a["reveal"]
      \/ both["timing"] = b["timing"] /\ both["reveal"] = b["reveal"]
    BY <1>4 DEF AxisRules
<1>9. \/ both["reveal"] = a["reveal"] /\ both["scoring"] = a["scoring"]
      \/ both["reveal"] = b["reveal"] /\ both["scoring"] = b["scoring"]
    BY <1>4 DEF AxisRules
<1>10. \/ both["joinPolicy"] = a["joinPolicy"] /\ both["visibility"] = a["visibility"]
       \/ both["joinPolicy"] = b["joinPolicy"] /\ both["visibility"] = b["visibility"]
    BY <1>4 DEF AxisRules
<1>11. ValidAxes(both)
    BY <1>5, <1>6, <1>7, <1>8, <1>9, <1>10 DEF ValidAxes
<1> QED BY <1>11 DEF both, b

\* A PATCH that was outdated leaves its collection to the mixed ones and outdates all others
\* of it; any other leaves a row that fits, and outdates those of columns of the same rules.
LEMMA PatchWritten ==
    ASSUME TypeInv, NEW r \in flight, WritePatch(r), AxesInv
    PROVE  AxesInv'
<1> DEFINE row == Merged(r.arg, course[r.course])
<1>1. /\ course' = [course EXCEPT ![r.course] = row] /\ flight' = flight \ {r}
      /\ outdated' = (outdated \cup {q \in flight : Upsets(r, q)}) \ {r}
      /\ mixed' = IF r \in outdated THEN mixed \cup {r.course} ELSE mixed \ {r.course}
      /\ r \in Patching
    BY DEF WritePatch, Ends, Patching
<1>2. r.course \in Courses /\ (r \notin outdated => ValidAxes(row))
    BY <1>1 DEF AxesInv
<1>3. /\ DOMAIN course = Course /\ course' = [c \in Course |-> course'[c]]
      /\ \A c \in Course : course'[c] = IF c = r.course THEN row ELSE course[c]
    BY <1>1 DEF AxesInv
<1>4. course[r.course] \in Column /\ Fits(r.arg)
    BY <1>2 DEF TypeInv, TablesInv, Courses, Exists, RequestsInv, Sound, WritePatch
<1>5. row \in Column
    BY <1>4, PatchedRow
<1>6. Courses' = Courses
    BY <1>2, <1>3, <1>5, RowAssumption DEF Courses, Exists
<1>7. ASSUME NEW c \in Courses \ mixed' PROVE ValidAxes(course'[c])
    <2>1. c \in Course
        BY DEF Courses
    <2>2. CASE c = r.course
        BY <1>1, <1>2, <1>3, <2>1, <2>2
    <2>3. CASE c # r.course
        <3>1. course'[c] = course[c] /\ c \notin mixed
            BY <1>1, <1>3, <1>7, <2>1, <2>3
        <3> QED BY <3>1 DEF AxesInv, AxesStayValid
    <2> QED BY <2>2, <2>3
<1>8. ASSUME NEW q \in Patching' \ outdated'
      PROVE  ValidAxes(Merged(q.arg, course'[q.course]))
    <2>1. q \in Patching \ outdated /\ q # r /\ ~Upsets(r, q)
        BY <1>1 DEF Patching
    <2>2. q.course \in Courses /\ ValidAxes(Merged(q.arg, course[q.course]))
        BY <2>1 DEF AxesInv
    <2>3. CASE q.course # r.course
        BY <1>3, <2>2, <2>3 DEF Courses
    <2>4. CASE q.course = r.course
        <3>1. r \notin outdated /\ ~Coupled(DOMAIN q.arg, DOMAIN r.arg)
            BY <1>1, <2>1, <2>4 DEF Upsets, Patching
        <3>2. DOMAIN course[r.course] = DOMAIN ColumnType
            BY <1>4, ColumnIsRow DEF IsRow
        <3>3. ValidAxes(Merged(q.arg, row))
            BY <1>2, <2>2, <2>4, <3>1, <3>2, UncoupledFits
        <3> QED BY <1>2, <1>3, <2>4, <3>3 DEF Courses
    <2> QED BY <2>3, <2>4
<1>9. AxesStayValid'
    BY <1>6, <1>7 DEF AxesStayValid, ValidAxes
<1>10. outdated' \subseteq flight' /\ mixed' \subseteq Courses'
    BY <1>1, <1>2, <1>6 DEF AxesInv
<1>11. \A q \in Patching' : q.course \in Courses'
    BY <1>1, <1>6 DEF AxesInv, Patching
<1>12. \A q \in (Patching \ outdated)' : ValidAxes(Merged(q.arg, course[q.course]))'
    BY <1>8 DEF ValidAxes
<1> QED BY <1>3, <1>9, <1>10, <1>11, <1>12 DEF AxesInv

LEMMA Created ==
    ASSUME TypeInv, NEW u \in User, NEW draft \in Drafts, Create(u, draft), AxesInv
    PROVE  AxesInv'
<1> DEFINE row == Merged([owner |-> u], FillAxes(draft))
<1>1. /\ ValidAxes(row) /\ UNCHANGED <<flight, outdated, mixed>>
      /\ \E c \in Course \ Courses : course' = [course EXCEPT ![c] = row]
    BY DEF Create, history
<1>2. PICK n \in Course \ Courses : course' = [course EXCEPT ![n] = row]
    BY <1>1
<1>3. /\ DOMAIN course = Course /\ course' = [c \in Course |-> course'[c]]
      /\ \A c \in Course : course'[c] = IF c = n THEN row ELSE course[c]
    BY <1>2 DEF AxesInv
<1>4. \A c \in Courses : c \in Course /\ course'[c] = course[c] /\ c \in Courses'
    BY <1>2, <1>3 DEF Courses, Exists
<1>5. ASSUME NEW c \in Courses' \ mixed' PROVE ValidAxes(course'[c])
    <2>1. c \in Course
        BY DEF Courses
    <2>2. CASE c = n
        BY <1>1, <1>3, <2>1, <2>2
    <2>3. CASE c # n
        <3>1. course'[c] = course[c] /\ c \in Courses /\ c \notin mixed
            BY <1>1, <1>3, <1>5, <2>1, <2>3 DEF Courses, Exists
        <3> QED BY <3>1 DEF AxesInv, AxesStayValid
    <2> QED BY <2>2, <2>3
<1>6. ASSUME NEW q \in Patching'
      PROVE  /\ q.course \in Courses'
             /\ q \notin outdated' => ValidAxes(Merged(q.arg, course'[q.course]))
    <2>1. q \in Patching /\ q.course \in Courses
        BY <1>1 DEF Patching, AxesInv
    <2>2. q \notin outdated => ValidAxes(Merged(q.arg, course[q.course]))
        BY <2>1 DEF AxesInv
    <2> QED BY <1>1, <1>4, <2>1, <2>2
<1>7. AxesStayValid'
    BY <1>5 DEF AxesStayValid, ValidAxes
<1>8. outdated' \subseteq flight' /\ mixed' \subseteq Courses'
    BY <1>1, <1>4 DEF AxesInv
<1>9. \A q \in (Patching \ outdated)' : ValidAxes(Merged(q.arg, course[q.course]))'
    BY <1>6 DEF ValidAxes
<1> QED BY <1>3, <1>6, <1>7, <1>8, <1>9 DEF AxesInv

LEMMA AxesInvInit == Init => AxesInv
<1> SUFFICES ASSUME Init PROVE AxesInv
    OBVIOUS
<1>1. PICK t \in Tables : course = t.course
    BY DEF Init
<1>2. flight = {} /\ outdated = {} /\ mixed = {}
    BY DEF Init
<1> QED BY <1>1, <1>2, TablesAssumption
        DEF AxesInv, AxesStayValid, Patching, Courses, Exists

LEMMA AxesInvNext == TypeInv /\ AxesInv /\ [Next]_vars => AxesInv'
<1> SUFFICES ASSUME TypeInv, AxesInv, [Next]_vars PROVE AxesInv'
    OBVIOUS
<1>1. CASE Reads
    <2>1. PICK u \in Actor :
            \/ \E draft \in Drafts : Create(u, draft)
            \/ \E p \in Problem :
                \/ BeginSubmit(u, p)
                \/ \E patch \in ProblemPatches : BeginProblem(u, p, patch)
            \/ \E c \in Course :
                \/ \E patch \in Patches : BeginPatch(u, c, patch)
                \/ \E list \in ItemLists : BeginItems(u, c, list) \/ BeginImport(u, c, list)
                \/ \E invitation \in Invitations : BeginMembers(u, c, invitation)
                \/ \E target \in User : BeginRemove(u, c, target)
                \/ \E change \in RoleChanges : BeginRole(u, c, change)
                \/ BeginJoin(u, c)
                \/ BeginStart(u, c)
        BY <1>1 DEF Reads
    <2>2. CASE \E draft \in Drafts : Create(u, draft)
        BY <2>2, Created, RequestAssumption
    <2>3. ASSUME NEW p \in Problem, BeginSubmit(u, p)
          PROVE  AxesInv'
        BY <2>3, AxesBegun DEF BeginSubmit
    <2>8. ASSUME NEW p \in Problem, NEW patch \in ProblemPatches, BeginProblem(u, p, patch)
          PROVE  AxesInv'
        <3>1. \E arg : Begin("problem", u, problem[p].owner, arg)
            BY <2>8 DEF BeginProblem
        <3> QED BY <3>1, AxesBegun
    <2>4. ASSUME NEW c \in Course, NEW patch \in Patches, BeginPatch(u, c, patch)
          PROVE  AxesInv'
        BY <2>4, AxesBegun DEF BeginPatch
    <2>5. ASSUME NEW c \in Course, NEW list \in ItemLists,
                 BeginItems(u, c, list) \/ BeginImport(u, c, list)
          PROVE  AxesInv'
        BY <2>5, AxesBegun DEF BeginItems, BeginImport
    <2>6. ASSUME NEW c \in Course, NEW x,
                 \/ BeginMembers(u, c, x) \/ BeginRemove(u, c, x) \/ BeginRole(u, c, x)
          PROVE  AxesInv'
        BY <2>6, AxesBegun DEF BeginMembers, BeginRemove, BeginRole
    <2>7. ASSUME NEW c \in Course, BeginJoin(u, c) \/ BeginStart(u, c)
          PROVE  AxesInv'
        BY <2>7, AxesBegun DEF BeginJoin, BeginStart
    <2> QED BY <2>1, <2>2, <2>3, <2>4, <2>5, <2>6, <2>7, <2>8
<1>2. CASE Writes
    <2>1. PICK r \in flight :
            \/ WritePatch(r)  \/ WriteItems(r) \/ WriteMembers(r) \/ WriteRole(r)
            \/ WriteRemove(r) \/ WriteJoin(r)  \/ WriteStart(r)   \/ WriteSubmit(r)
            \/ WriteProblem(r)
        BY <1>2 DEF Writes
    <2>2. CASE WritePatch(r)
        BY <2>2, PatchWritten
    <2>3. CASE WriteItems(r) \/ WriteMembers(r) \/ WriteRole(r) \/ WriteRemove(r)
        BY <2>3, OtherWrite DEF WriteItems, WriteMembers, WriteRole, WriteRemove
    <2>4. CASE WriteJoin(r) \/ WriteStart(r) \/ WriteSubmit(r)
        BY <2>4, OtherWrite DEF WriteJoin, WriteStart, WriteSubmit
    <2>5. CASE WriteProblem(r)
        BY <2>5, OtherWrite DEF WriteProblem
    <2> QED BY <2>1, <2>2, <2>3, <2>4, <2>5
<1>3. CASE UNCHANGED <<course, flight, outdated, mixed>>
    BY <1>3 DEF AxesInv, AxesStayValid, Patching, Courses, Exists, ValidAxes
<1>4. Tick \/ (\E s \in subs, v \in {"accepted", "wrong_answer"} : Judged(s, v))
        \/ UNCHANGED vars => UNCHANGED <<course, flight, outdated, mixed>>
    BY DEF Tick, Judged, vars, tables, history
<1> QED BY <1>1, <1>2, <1>3, <1>4 DEF Next

LEMMA AxesKept == Spec => [](TypeInv /\ AxesInv)
<1>1. Init => TypeInv /\ AxesInv
    BY TypesBegin, AxesInvInit
<1>2. (TypeInv /\ AxesInv) /\ [Next]_vars => (TypeInv /\ AxesInv)'
    BY TypesNext, AxesInvNext
<1> QED BY <1>1, <1>2, PTL DEF Spec

\* However requests overlap, the axes of a collection fit together (validateAxes finds
\* nothing to complain about), unless a PATCH that another had outdated was the last to
\* write them (collections.ts 376-386): two PATCHes that overlap break them only if both
\* change columns of one rule.
THEOREM AxesFit == Spec => []AxesStayValid
<1>1. AxesInv => AxesStayValid
    BY DEF AxesInv
<1> QED BY AxesKept, <1>1, PTL

\* The tables and the requests in flight have their types, and what a request or a
\* submission is about is a collection that exists (collections.ts: none is deleted).
THEOREM CollectionTypes == Spec => []CollectionsTypeOK
<1>1. TypeInv /\ AxesInv => CollectionsTypeOK
    BY DEF TypeInv, TablesInv, RequestsInv, SubsInv, Sound, AxesInv, CollectionsTypeOK
<1> QED BY <1>1, AxesKept, PTL

-----------------------------------------------------------------------------
(* The rules that are written twice. They follow from the types.           *)

LEMMA ListsAgree ==
    ASSUME TypeInv, NEW u \in User \cup {NoUser}
    PROVE  /\ ListedCourses(u) \subseteq {c \in Courses : CanView(u, c)}
           /\ {c \in Courses : CanView(u, c) /\ course[c].visibility # "unlisted"}
                 \subseteq ListedCourses(u)
           /\ AtLeast(u, "staff") \/ MineCourses(u) = {c \in Courses : CanManage(u, c)}
           /\ \A p \in Problem : CanEditProblem(u, p) => CanSubmit(u, p)
<1>1. \A c \in Courses : course[c].visibility \in {"public", "unlisted", "private"}
    <2>1. \A c \in Courses : course[c] \in Column
        BY DEF TypeInv, TablesInv, Courses, Exists
    <2> QED BY <2>1 DEF Column, ColumnType
<1>2. ListedCourses(u) \subseteq {c \in Courses : CanView(u, c)}
    BY DEF ListedCourses, CanView, CanManage, MemberOf
<1>3. {c \in Courses : CanView(u, c) /\ course[c].visibility # "unlisted"} \subseteq ListedCourses(u)
    BY <1>1 DEF ListedCourses, CanView, CanManage, HasRole, MemberOf
<1>4. AtLeast(u, "staff") \/ MineCourses(u) = {c \in Courses : CanManage(u, c)}
    BY DEF MineCourses, CanManage, HasRole, MemberOf
<1>5. ASSUME NEW p \in Problem, CanEditProblem(u, p) PROVE CanSubmit(u, p)
    <2>1. u # NoUser
        BY <1>5 DEF CanEditProblem, CanAssist, CanManage, HasRole, MemberOf, AtLeast
    <2>2. AtLeast(u, "staff") \/ (problem[p].owner # None /\ BelongsTo(u, problem[p].owner))
        BY <1>5 DEF CanEditProblem, CanAssist, HasRole, BelongsTo
    <2> QED BY <2>1, <2>2 DEF CanSubmit, CanViewProblem
<1> QED BY <1>2, <1>3, <1>4, <1>5

LEMMA ShownIsOpen ==
    ASSUME TypeInv, NEW u \in User, NEW c \in Courses, member[c][u] # None,
           course[c].timing # "none", IsRunning(course[c], member[c][u]),
           NEW p \in ToSet(ShownItems(u, c)) \ {Text}
    PROVE  CanSubmit(u, p) /\ (AtLeast(u, "staff") \/ StampOf(u, p) \in Courses)
<1>1. u # NoUser /\ MemberOf(u, c) = member[c][u]
    BY NullAssumption DEF MemberOf
<1>2. p \in ToSet(items[c])
    BY DEF ShownItems, ToSet
<1>3. c \in Gates(u, p)
    BY <1>1, <1>2 DEF Gates
<1>4. Gates(u, p) \in SUBSET Nat /\ Gates(u, p) \subseteq Courses
    BY CourseAssumption DEF Gates, Courses
<1>5. ActiveGate(u, p) \in Courses
    BY <1>3, <1>4, MinOfNats DEF ActiveGate
<1>6. ActiveGate(u, p) # None
    BY <1>5 DEF Courses, Exists
<1> QED BY <1>1, <1>5, <1>6 DEF CanSubmit, CanViewProblem, StampOf

\* What a list shows opens and what opens is listed, whoever may edit a problem may open
\* it, and a participant can hand in every problem that a running exam shows him.
THEOREM PagesAlwaysAgree == Spec => []PagesAgree
<1>1. TypeInv => PagesAgree
    BY ListsAgree, ShownIsOpen DEF PagesAgree
<1> QED BY <1>1, TypesKept, PTL

\* The ends of a collection and of a window are instants, or open.
LEMMA EndsTyped ==
    ASSUME TypeInv, NEW c \in Courses
    PROVE  /\ course[c].endsAt \in Nat \cup {None}
           /\ \A u \in User : member[c][u] # None => member[c][u].endsAt \in Nat \cup {None}
<1>1. course[c] \in Column /\ \A u \in User : member[c][u] \in MemberRow \cup {None}
    BY DEF TypeInv, TablesInv, Courses, Exists
<1>2. course[c].endsAt \in Nat \cup {None}
    BY <1>1 DEF Column, ColumnType
<1>3. \A u \in User : member[c][u] # None => member[c][u].endsAt \in Nat \cup {None}
    BY <1>1 DEF MemberRow
<1> QED BY <1>2, <1>3

LEMMA AuthorSees ==
    ASSUME TypeInv, NEW s \in subs, ~AtLeast(s.user, "staff")
    PROVE  /\ VerdictVisible(s.user, s.course) => ProfileCounts(s)
           /\ ProfileCounts(s) /\ ~AtAnEnd(s) => VerdictVisible(s.user, s.course)
<1>1. s.user \in User /\ (s.course = None \/ s.course \in Courses) /\ now \in Nat
    BY DEF TypeInv, SubsInv, TablesInv
<1>2. s.user # NoUser
    BY <1>1, NullAssumption
<1>3. CASE ~Exists(s.course)
    BY <1>3 DEF VerdictVisible, ProfileCounts
<1>4. CASE Exists(s.course)
    <2>1. PICK c \in Courses : c = s.course
        BY <1>1, <1>4 DEF Exists
    <2>2. PICK m : m = member[c][s.user]
        OBVIOUS
    <2>3. course[c].endsAt \in Nat \cup {None} /\ (m # None => m.endsAt \in Nat \cup {None})
        BY <1>1, <2>2, EndsTyped
    <2>4. None \notin Nat
        BY NullAssumption
    <2>5. VerdictVisible(s.user, s.course) <=>
            \/ course[c].reveal # "after_end"
            \/ course[c].timing = "fixed" /\ Over(course[c].endsAt)
            \/ course[c].timing = "per_user" /\ m # None /\ Over(m.endsAt)
        BY <1>2, <1>4, <2>1, <2>2 DEF VerdictVisible, CanRevealVerdict, HasEnded, MemberOf
    <2>6. ProfileCounts(s) <=>
            \/ course[c].reveal # "after_end"
            \/ course[c].timing = "fixed" /\ ~OpenOrUnset(course[c].endsAt)
            \/ course[c].timing = "per_user" /\ m # None /\ ~OpenOrUnset(m.endsAt)
        BY <1>4, <2>1, <2>2 DEF ProfileCounts, OpenOrUnset
    <2>7. AtAnEnd(s) <=> course[c].endsAt = now \/ (m # None /\ m.endsAt = now)
        BY <2>1, <2>2 DEF AtAnEnd
    <2>8. \A to \in Nat \cup {None} :
            /\ Over(to) => ~OpenOrUnset(to)
            /\ ~OpenOrUnset(to) => Over(to) \/ to = now
        BY <1>1, <2>4 DEF Over, OpenOrUnset
    <2> QED BY <2>3, <2>5, <2>6, <2>7, <2>8
<1> QED BY <1>3, <1>4

LEMMA SolvedIsCounted ==
    ASSUME TypeInv, NEW s \in subs, ~AtLeast(s.user, "staff"), HasSolved(s.user, s.problem)
    PROVE  s.problem \in ProfileSolved(s.user)
<1>1. PICK t \in subs : /\ t.user = s.user /\ t.problem = s.problem /\ t.verdict = "accepted"
                        /\ VerdictVisible(s.user, t.course)
    BY DEF HasSolved
<1>2. ProfileCounts(t)
    BY <1>1, AuthorSees
<1> QED BY <1>1, <1>2 DEF ProfileSolved

LEMMA PagesTellAlike ==
    ASSUME NEW s \in subs, s.verdict # None, NEW u, NEW open
    PROVE  /\ ListVerdict(u, s) # None <=> "verdict" \in DetailShows(u, s, "code", open)
           /\ "failedStdout" \in DetailShows(u, s, "code", open) =>
                "results" \in DetailShows(u, s, "code", open) /\ CanViewSource(u, s, open)
<1>1. /\ "verdict" \in DetailShows(u, s, "code", open) <=> VerdictVisible(u, s.course)
      /\ "results" \in DetailShows(u, s, "code", open) <=> VerdictVisible(u, s.course)
      /\ "failedStdout" \in DetailShows(u, s, "code", open)
            => VerdictVisible(u, s.course) /\ CanViewSource(u, s, open)
    BY DEF DetailShows
<1>2. s.course = None => VerdictVisible(u, s.course)
    BY DEF VerdictVisible, Exists
<1> QED BY <1>1, <1>2 DEF ListVerdict

\* The profile and the page of a submission hide and show an author's verdict alike but in
\* the instant of the end, and the list tells what the page tells.
THEOREM RevealRulesAlwaysAgree == Spec => []RevealRulesAgree
<1>1. TypeInv => RevealRulesAgree
    BY AuthorSees, SolvedIsCounted, PagesTellAlike DEF RevealRulesAgree
<1> QED BY <1>1, TypesKept, PTL

-----------------------------------------------------------------------------
(* Windows and managers. A start in flight that is not outdated is for a    *)
(* window that is still closed, and such a demotion still leaves another    *)
(* manager to a collection without an owner.                                *)

Opened(c, u) == member[c][u] # None /\ member[c][u].startedAt # None
Manager(c, u) == member[c][u] # None /\ member[c][u].role = "manager"
AnotherManages(c, u) == \E a \in User \ {u} : Manager(c, a)

SeatsInv ==
    \A r \in flight \ outdated :
        /\ r.kind = "start" => ~Opened(r.course, r.user)
        /\ r.kind = "role" /\ r.arg.role = "member" /\ course[r.course].owner = None
           => AnotherManages(r.course, r.arg.user)

Keeps == ~WindowMoves /\ ~DemotionOrphans

LEMMA ManagersAre == \A c : Managers(c) = {u \in User : Manager(c, u)}
BY NullAssumption DEF Managers, Manager, HasRole, MemberOf

\* More than one manager: another than any given one.
LEMMA DemotionChecked ==
    ASSUME NEW u, NEW c, NEW change \in RoleChanges, MayChangeRole(u, c, change),
           change.role = "member", course[c].owner = None
    PROVE  AnotherManages(c, change.user)
<1>1. change.user \in User /\ None \notin User
    BY RequestAssumption, NullAssumption
<1>2. ~(Cardinality(Managers(c)) <= 1)
    BY <1>1 DEF MayChangeRole
<1>3. Managers(c) # {}
    BY <1>2, FS_EmptySet
<1>4. Managers(c) # {change.user}
    BY <1>2, FS_Singleton
<1>5. \E a \in Managers(c) : a # change.user
    BY <1>3, <1>4
<1> QED BY <1>5, ManagersAre DEF AnotherManages

LEMMA SeatsBegun ==
    ASSUME SeatsInv, NEW kind, NEW u, NEW c, NEW arg, Begin(kind, u, c, arg),
           kind = "start" => ~Opened(c, u),
           kind = "role" /\ arg.role = "member" /\ course[c].owner = None
           => AnotherManages(c, arg.user)
    PROVE  SeatsInv' /\ Keeps
<1>1. PICK q : q = [id |-> served, kind |-> kind, user |-> u, course |-> c, arg |-> arg]
    OBVIOUS
<1>2. q.kind = kind /\ q.user = u /\ q.course = c /\ q.arg = arg
    BY <1>1
<1>3. flight' = flight \cup {q} /\ UNCHANGED <<course, member, outdated>>
    BY <1>1 DEF Begin, tables, history
<1>6. \A a, b : /\ Opened(a, b)' = Opened(a, b)
                /\ AnotherManages(a, b)' = AnotherManages(a, b)
    BY <1>3 DEF Opened, AnotherManages, Manager
<1>7. ASSUME NEW r \in flight' \ outdated'
      PROVE  /\ r.kind = "start" => ~Opened(r.course, r.user)
             /\ r.kind = "role" /\ r.arg.role = "member" /\ course[r.course].owner = None
                => AnotherManages(r.course, r.arg.user)
    <2>1. CASE r \in flight
        BY <1>3, <1>7, <2>1 DEF SeatsInv
    <2>2. CASE r = q
        BY <1>2, <2>2
    <2> QED BY <1>3, <1>7, <2>1, <2>2
<1>8. SeatsInv'
    BY <1>3, <1>6, <1>7 DEF SeatsInv
<1>9. Keeps
    BY <1>3 DEF Keeps, WindowMoves, DemotionOrphans
<1> QED BY <1>8, <1>9

LEMMA SeatsRead ==
    ASSUME TypeInv, SeatsInv, NEW u \in User,
           \/ \E p \in Problem :
                \/ BeginSubmit(u, p)
                \/ \E patch \in ProblemPatches : BeginProblem(u, p, patch)
           \/ \E c \in Course :
                \/ \E patch \in Patches : BeginPatch(u, c, patch)
                \/ \E list \in ItemLists : BeginItems(u, c, list) \/ BeginImport(u, c, list)
                \/ \E invitation \in Invitations : BeginMembers(u, c, invitation)
                \/ \E target \in User : BeginRemove(u, c, target)
                \/ \E change \in RoleChanges : BeginRole(u, c, change)
                \/ BeginJoin(u, c)
                \/ BeginStart(u, c)
    PROVE  SeatsInv' /\ Keeps
<1>1. ASSUME NEW c \in Course, NEW change \in RoleChanges, BeginRole(u, c, change)
      PROVE  SeatsInv' /\ Keeps
    <2>1. change.role = "member" /\ course[c].owner = None => AnotherManages(c, change.user)
        BY <1>1, DemotionChecked DEF BeginRole
    <2>2. Begin("role", u, c, change)
        BY <1>1 DEF BeginRole
    <2> QED BY <2>1, <2>2, SeatsBegun
<1>2. ASSUME NEW c \in Course, BeginStart(u, c) PROVE SeatsInv' /\ Keeps
    <2>1. PICK arg : arg = [from |-> now, to |-> now + course[c].duration]
        OBVIOUS
    <2>2. Begin("start", u, c, arg) /\ ~Opened(c, u)
        BY <1>2, <2>1 DEF BeginStart, NotYetStarted, Opened
    <2> QED BY <2>2, SeatsBegun
<1>3. ASSUME NEW kind \in Kind \ {"role", "start"}, NEW c, NEW arg, Begin(kind, u, c, arg)
      PROVE  SeatsInv' /\ Keeps
    BY <1>3, SeatsBegun
<1>4. CASE \E c \in Course : \/ \E change \in RoleChanges : BeginRole(u, c, change)
                             \/ BeginStart(u, c)
    BY <1>1, <1>2, <1>4
<1>5. CASE \E p \in Problem : \/ BeginSubmit(u, p)
                              \/ \E patch \in ProblemPatches : BeginProblem(u, p, patch)
    BY <1>3, <1>5 DEF BeginSubmit, BeginProblem, Kind
<1>6. CASE \E c \in Course :
                \/ \E patch \in Patches : BeginPatch(u, c, patch)
                \/ \E list \in ItemLists : BeginItems(u, c, list) \/ BeginImport(u, c, list)
                \/ \E invitation \in Invitations : BeginMembers(u, c, invitation)
                \/ \E target \in User : BeginRemove(u, c, target)
                \/ BeginJoin(u, c)
    BY <1>3, <1>6 DEF BeginPatch, BeginItems, BeginImport, BeginMembers, BeginRemove,
                      BeginJoin, Kind
<1> QED BY <1>4, <1>5, <1>6

\* A step that takes no request, moves no member and gives away no collection.
LEMMA SeatsRest ==
    ASSUME TypeInv, SeatsInv, UNCHANGED <<member, flight, outdated>>,
           \A c \in Courses : course'[c] = course[c]
    PROVE  SeatsInv' /\ Keeps
<1>1. \A c, u : /\ Opened(c, u)' = Opened(c, u)
                /\ AnotherManages(c, u)' = AnotherManages(c, u)
    BY DEF Opened, AnotherManages, Manager
<1>2. \A r \in flight : r.kind = "role" => course'[r.course] = course[r.course]
    BY DEF TypeInv, RequestsInv, Sound
<1>3. SeatsInv'
    BY <1>1, <1>2 DEF SeatsInv
<1> QED BY <1>3 DEF Keeps, WindowMoves, DemotionOrphans

\* What other requests write opens no window of a start, nor takes the other manager of a
\* demotion away, without outdating it.
LEMMA SeatsWritten ==
    ASSUME TypeInv, SeatsInv, NEW w \in flight, Left(w)
    PROVE  SeatsInv'
<1>1. /\ flight' = flight \ {w} /\ MembersMove(w)
      /\ \A q \in flight' \ outdated' : /\ q \in flight \ outdated /\ q # w
                                       /\ ~Upsets(w, q)
      /\ \A c \in Courses : course'[c].owner = course[c].owner
    BY DEF Left, Ends
<1>2. \A r \in flight : /\ r.kind \in {"start", "role"} => r.course \in Courses
                        /\ r.kind = "start" => r.user \in User
    BY DEF TypeInv, RequestsInv, Sound
<1>3. ASSUME NEW r \in flight' \ outdated', r.kind = "start" PROVE ~Opened(r.course, r.user)'
    <2>0. r \in flight
        BY <1>1
    <2>1. PICK c \in Course, u \in User : c = r.course /\ u = r.user
        BY <1>2, <1>3, <2>0 DEF Courses
    <2>2. ~Opened(c, u)
        BY <1>1, <1>3, <2>1 DEF SeatsInv
    <2>3. ~(w.kind = "start" /\ w.course = c /\ w.user = u)
        BY <1>1, <1>3, <2>1 DEF Upsets
    <2>4. \/ member'[c][u] = member[c][u] \/ member'[c][u] = None
          \/ member'[c][u].startedAt = None
          \/ member[c][u] # None /\ member'[c][u].startedAt = member[c][u].startedAt
        BY <1>1, <2>3 DEF MembersMove, Moved
    <2> QED BY <2>1, <2>2, <2>4 DEF Opened
<1>4. ASSUME NEW r \in flight' \ outdated', r.kind = "role", r.arg.role = "member",
             course'[r.course].owner = None
      PROVE  AnotherManages(r.course, r.arg.user)'
    <2>0. r \in flight
        BY <1>1
    <2>1. PICK c \in Courses : c = r.course
        BY <1>2, <1>4, <2>0
    <2>2. course[c].owner = None
        BY <1>1, <1>4, <2>1
    <2>3. PICK a \in User \ {r.arg.user} : Manager(c, a)
        BY <1>1, <1>4, <2>1, <2>2 DEF SeatsInv, AnotherManages
    <2>4. ~(TakesSeats(w) /\ w.course = c)
        BY <1>1, <1>4, <2>1 DEF Upsets
    <2>5. \/ member'[c][a] = member[c][a]
          \/ member'[c][a] # None /\ member'[c][a].role = "manager"
        BY <1>1, <2>1, <2>3, <2>4 DEF MembersMove, Moved, Manager, Courses, TakesSeats
    <2>6. Manager(c, a)'
        BY <2>3, <2>5 DEF Manager
    <2> QED BY <2>1, <2>3, <2>6 DEF AnotherManages
<1> QED BY <1>3, <1>4 DEF SeatsInv

LEMMA WriteKeeps ==
    ASSUME TypeInv, SeatsInv, NEW w \in flight, Left(w)
    PROVE  Keeps
<1>1. flight \ flight' = {w} /\ MembersMove(w)
    BY DEF Left, Ends
<1>2. ASSUME NEW c \in Course, NEW u \in User, Opened(c, u), member[c][u]' # None,
             c \notin Replaced, \A r \in Outdated("start") : <<r.course, r.user>> # <<c, u>>
      PROVE  <<member[c][u].startedAt, member[c][u].endsAt>>' =
             <<member[c][u].startedAt, member[c][u].endsAt>>
    <2>1. CASE member'[c][u] = member[c][u]
        BY <2>1
    <2>2. CASE c = w.course /\ Moved(w, u, member[c][u], member'[c][u])
        <3>1. ~(w.kind = "members" /\ w.arg.replace)
            BY <1>1, <1>2, <2>2 DEF Replaced
        <3>2. ~(w.kind = "start" /\ u = w.user)
            BY <1>1, <1>2, <2>2 DEF SeatsInv, Outdated
        <3>3. /\ member'[c][u].startedAt = member[c][u].startedAt
              /\ member'[c][u].endsAt = member[c][u].endsAt
            BY <1>2, <2>2, <3>1, <3>2 DEF Moved, Opened
        <3> QED BY <3>3
    <2> QED BY <1>1, <2>1, <2>2 DEF MembersMove
<1>3. ~WindowMoves
    BY <1>2 DEF WindowMoves, Opened
<1>4. ASSUME NEW r \in (flight \ flight') \ Outdated("role"), r.kind = "role",
             r.arg.role = "member", course[r.course].owner = None
      PROVE  Managers(r.course)' # {}
    <2>1. r = w /\ w \notin outdated
        BY <1>1, <1>4 DEF Outdated
    <2>2. PICK c \in Courses : c = w.course
        BY <1>4, <2>1 DEF TypeInv, RequestsInv, Sound
    <2>3. PICK a \in User \ {w.arg.user} : Manager(c, a)
        BY <1>4, <2>1, <2>2 DEF SeatsInv, AnotherManages
    <2>4. member'[c][a] = member[c][a]
        BY <1>1, <1>4, <2>1, <2>2, <2>3 DEF MembersMove, Moved, Courses
    <2>5. Manager(c, a)'
        BY <2>3, <2>4 DEF Manager
    <2>6. a \in Managers(c)'
        BY <2>3, <2>5, NullAssumption DEF Managers, Manager, HasRole, MemberOf
    <2> QED BY <2>1, <2>2, <2>6
<1>5. ~DemotionOrphans
    BY <1>4 DEF DemotionOrphans
<1> QED BY <1>3, <1>5 DEF Keeps

LEMMA SeatsNext ==
    ASSUME TypeInv, SeatsInv, [Next]_vars
    PROVE  SeatsInv' /\ Keeps
<1>1. CASE Reads
    <2>1. PICK u \in Actor :
            \/ \E draft \in Drafts : Create(u, draft)
            \/ \E p \in Problem :
                \/ BeginSubmit(u, p)
                \/ \E patch \in ProblemPatches : BeginProblem(u, p, patch)
            \/ \E c \in Course :
                \/ \E patch \in Patches : BeginPatch(u, c, patch)
                \/ \E list \in ItemLists : BeginItems(u, c, list) \/ BeginImport(u, c, list)
                \/ \E invitation \in Invitations : BeginMembers(u, c, invitation)
                \/ \E target \in User : BeginRemove(u, c, target)
                \/ \E change \in RoleChanges : BeginRole(u, c, change)
                \/ BeginJoin(u, c)
                \/ BeginStart(u, c)
        BY <1>1 DEF Reads
    <2>2. u \in User
        BY RequestAssumption
    <2>3. ASSUME NEW draft \in Drafts, Create(u, draft) PROVE SeatsInv' /\ Keeps
        <3>1. UNCHANGED <<member, flight, outdated>>
            BY <2>3 DEF Create, history
        <3>2. \A c \in Courses : course'[c] = course[c]
            BY <2>2, <2>3, CreateTyped
        <3> QED BY <3>1, <3>2, SeatsRest
    <2> QED BY <2>1, <2>2, <2>3, SeatsRead
<1>2. CASE Writes
    BY <1>2, WritesLeave, SeatsWritten, WriteKeeps
<1>3. CASE Tick \/ (\E s \in subs, v \in {"accepted", "wrong_answer"} : Judged(s, v)) \/ UNCHANGED vars
    <2>1. UNCHANGED <<member, flight, course, outdated>>
        BY <1>3 DEF Tick, Judged, vars, tables, history
    <2> QED BY <2>1, SeatsRest
<1> QED BY <1>1, <1>2, <1>3 DEF Next

\* However requests overlap: a window that was opened moves (collections.ts 890-893) only
\* by a start that another start of the same member came before, and a demotion takes the
\* last manager of a collection without an owner (collections.ts 545-546) only if managers
\* were taken away between its count and its write.
THEOREM MembershipAlwaysKept == Spec => MembershipKept
<1>1. Init => TypeInv /\ SeatsInv
    <2>1. Init => SeatsInv
        BY DEF Init, SeatsInv
    <2> QED BY <2>1, TypesBegin
<1>2. TypeInv /\ SeatsInv /\ [Next]_vars => (TypeInv /\ SeatsInv)'
    BY SeatsNext, TypesNext
<1>3. TypeInv /\ SeatsInv /\ [Next]_vars => [~WindowMoves /\ ~DemotionOrphans]_vars
    BY SeatsNext DEF Keeps
<1> QED BY <1>1, <1>2, <1>3, PTL DEF Spec, MembershipKept
=============================================================================
