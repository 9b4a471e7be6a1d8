----------------------------- MODULE Community -----------------------------
(***************************************************************************)
(* Solutions that users share and the comments under them                  *)
(* (apps/api/src/routes/solutions.ts, packages/core/src/solutions.ts),     *)
(* beside the accounts whose roles they depend on. Who may read a problem's*)
(* solutions is a rule of Access; here it is the constant Solver. Rows are *)
(* never deleted, only marked. The number of comments is kept in the row of*)
(* the solution, and what a user may write in a day is counted before the  *)
(* row is inserted.                                                        *)
(***************************************************************************)
EXTENDS Accounts

CONSTANTS
    Post,            \* ids of solutions
    Comment,         \* ids of comments
    Solver,          \* users for whom gate lets the problem pass
    Solved,          \* users.solvedCount
    DailyBase, DailyPerSolved, DailyMax,  \* SOLUTION_LIMITS
    MaxDay           \* bound: days

ASSUME CommunityAssumption ==
    /\ Post \subseteq Nat /\ Comment \subseteq Nat /\ Solver \subseteq User
    /\ Solved \in [User -> Nat] /\ DailyPerSolved \in Nat \ {0}
    /\ {DailyBase, DailyMax, MaxDay} \subseteq Nat

PostRow == [user : User, day : Int, deleted : BOOLEAN, count : Nat]
CommentRow == [user : User, day : Int, deleted : BOOLEAN, post : Post]

ASSUME RowAssumption == None \notin PostRow \cup CommentRow

VARIABLES
    posts,     \* solutions
    comments,  \* solution_comments
    day        \* the day in Seoul

communityVars == <<posts, comments, day>>
vars == <<accountVars, flight, served, communityVars>>

\* dailyWriteLimit
DailyLimit(u) == Min({DailyMax, DailyBase + Solved[u] \div DailyPerSolved})

Live(table, i) == table[i] # None /\ ~table[i].deleted
WrittenBy(u, table, ids, d) ==
    Cardinality({i \in ids : table[i] # None /\ table[i].user = u /\ table[i].day = d})
\* writtenToday: what was deleted counts.
WrittenToday(u) == WrittenBy(u, posts, Post, day) + WrittenBy(u, comments, Comment, day)

MayRead(u) == u \in Account /\ (IsStaff(u) \/ u \in Solver)

MayWrite(u) == MayRead(u) /\ WrittenToday(u) < DailyLimit(u)

Free(table, ids) == {i \in ids : table[i] = None}
Keeps == UNCHANGED accountVars

\* POST /solutions
BeginPost(u) ==
    /\ MayWrite(u)
    /\ Begin("post", <<"writer", u>>, [post |-> None])
    /\ Nothing /\ UNCHANGED communityVars

WritePost(r) ==
    /\ r.kind = "post" /\ Free(posts, Post) # {}
    /\ posts' = [posts EXCEPT ![Min(Free(posts, Post))] =
                    [user |-> r.about[2], day |-> day, deleted |-> FALSE, count |-> 0]]
    /\ Ends(r) /\ Nothing
    /\ UNCHANGED <<comments, day>>

MayDelete(u, row) == u = row.user \/ IsStaff(u)

\* DELETE /solutions/:id
BeginDeletePost(u, i) ==
    /\ u \in Account /\ Live(posts, i) /\ MayDelete(u, posts[i])
    /\ Begin("unpost", <<"post", i>>, [post |-> i])
    /\ Nothing /\ UNCHANGED communityVars

WriteDeletePost(r) ==
    /\ r.kind = "unpost"
    /\ posts' = [posts EXCEPT ![r.arg.post].deleted = TRUE]
    /\ Ends(r) /\ Nothing
    /\ UNCHANGED <<comments, day>>

\* POST /solutions/:id/comments
BeginComment(u, i) ==
    /\ Live(posts, i) /\ MayWrite(u)
    /\ Begin("comment", <<"writer", u>>, [post |-> i])
    /\ Nothing /\ UNCHANGED communityVars

WriteComment(r) ==
    /\ r.kind = "comment" /\ Free(comments, Comment) # {}
    /\ comments' = [comments EXCEPT ![Min(Free(comments, Comment))] =
                      [user |-> r.about[2], day |-> day, deleted |-> FALSE, post |-> r.arg.post]]
    /\ posts' = [posts EXCEPT ![r.arg.post].count = @ + 1]
    /\ Ends(r) /\ Nothing
    /\ UNCHANGED day

DeleteEvenDeleted(u, c) ==      \* mutant: a comment can be deleted again
    u \in Account /\ comments[c] # None /\ MayDelete(u, comments[c])
MayDeleteComment(u, c) ==
    u \in Account /\ Live(comments, c) /\ MayDelete(u, comments[c])

\* DELETE /solutions/:id/comments/:commentId
BeginDeleteComment(u, c) ==
    /\ MayDeleteComment(u, c)
    /\ Begin("uncomment", <<"comment", c>>, [comment |-> c])
    /\ Nothing /\ UNCHANGED communityVars

WriteDeleteComment(r) ==
    /\ r.kind = "uncomment"
    /\ comments' = [comments EXCEPT ![r.arg.comment].deleted = TRUE]
    /\ posts' = [posts EXCEPT ![comments[r.arg.comment].post].count = Max({@ - 1, 0})]
    /\ Ends(r) /\ Nothing
    /\ UNCHANGED day

NextDay ==
    /\ day < MaxDay
    /\ day' = day + 1
    /\ Nothing /\ UNCHANGED <<flight, served, hurried, posts, comments>>

-----------------------------------------------------------------------------
CONSTANT Tables0  \* what a behaviour may begin with: [users, emails, posts, comments]

\* The tables of a site that has been at rest until day 0. Ids that are
\* not negative are given to what requests insert.
AtRest(t) ==
    LET here == {u \in User : t.users[u] # None}
        of(u) == {e \in t.emails : e.user = u}
        written(table, ids) == {i \in ids : table[i] # None}
        under(i) == {c \in written(t.comments, Comment) : t.comments[c].post = i}
    IN  /\ t.users \in [User -> AccountRow \cup {None}]
        /\ \A u, w \in here : t.users[u].handle = t.users[w].handle => u = w
        /\ \E u \in here : t.users[u].role = "admin"
        /\ t.emails \subseteq AddressRow /\ IsFiniteSet(t.emails)
        /\ \A e \in t.emails : e.user \in here /\ e.id < 0
        /\ \A e, f \in t.emails : e.email = f.email \/ e.id = f.id => e = f
        /\ \A u \in here : /\ Cardinality(of(u)) <= MaxEmails
                           /\ \E p \in of(u) : p.primary /\ \A e \in of(u) \ {p} : ~e.primary
        /\ t.posts \in [Post -> PostRow \cup {None}] /\ IsFiniteSet(written(t.posts, Post))
        /\ \A i \in written(t.posts, Post) :
             /\ t.posts[i].day <= 0
             /\ t.posts[i].count = Cardinality({c \in under(i) : ~t.comments[c].deleted})
        /\ t.comments \in [Comment -> CommentRow \cup {None}]
        /\ IsFiniteSet(written(t.comments, Comment))
        /\ \A c \in written(t.comments, Comment) :
             t.comments[c].day <= 0 /\ t.comments[c].post \in written(t.posts, Post)
        /\ \A u \in User : WrittenBy(u, t.posts, Post, 0) + WrittenBy(u, t.comments, Comment, 0)
                           <= DailyLimit(u)

ASSUME TablesAssumption == \A t \in Tables0 : AtRest(t)

Init ==
    /\ \E t \in Tables0 : /\ users = t.users /\ emails = t.emails
                          /\ posts = t.posts /\ comments = t.comments
    /\ roster = {} /\ created = {} /\ refused = {}
    /\ flight = {} /\ served = 0 /\ hurried = {}
    /\ day = 0

CommunityNext ==
    \/ NextDay
    \/ \E u \in User :
        \/ BeginPost(u)
        \/ \E i \in Post : BeginDeletePost(u, i) \/ BeginComment(u, i)
        \/ \E c \in Comment : BeginDeleteComment(u, c)
    \/ \E r \in flight :
        \/ WritePost(r) \/ WriteDeletePost(r) \/ WriteComment(r) \/ WriteDeleteComment(r)

Next == CommunityNext \/ (AccountsNext /\ UNCHANGED communityVars)

Spec == Init /\ [][Next]_vars

-----------------------------------------------------------------------------
(* Properties *)

CommentsOf(i) == {c \in Comment : comments[c] # None /\ comments[c].post = i}

\* The number of comments shown in the list is that of the comments shown on the page
\* (solutions.ts 280), as long as no comment was deleted by two requests at a time.
CommentsCounted ==
    \A i \in Post : posts[i] # None /\ (\A c \in CommentsOf(i) : <<"comment", c>> \notin hurried)
        => posts[i].count = Cardinality({c \in CommentsOf(i) : ~comments[c].deleted})

\* Nobody writes more in a day than the limit allows, when his requests do not overlap.
\* A request counts on the day that it is written.
QuotaKept ==
    \A u \in User : <<"writer", u>> \notin hurried => WrittenToday(u) <= DailyLimit(u)

CommunitySound == CommentsCounted /\ QuotaKept
=============================================================================
