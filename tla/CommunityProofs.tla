-------------------------- MODULE CommunityProofs --------------------------
(***************************************************************************)
(* Proofs about Accounts and Community: whatever requests overlap, handles *)
(* and addresses are unique and a roster tells of accounts that are there; *)
(* and where requests about one thing do not overlap, an account keeps its *)
(* primary address, the site its administrator, a solution its number of   *)
(* comments and a user his quota.                                          *)
(***************************************************************************)
EXTENDS Community, FiniteSetTheorems, WellFoundedInduction, TLAPS

LEMMA MinOfNats ==
    ASSUME NEW S \in SUBSET Nat, S # {}
    PROVE  Min(S) \in S /\ \A y \in S : Min(S) <= y
<1>1. \E x \in S : \A y \in S : <<y, x>> \notin OpToRel(<, Nat)
  BY NatLessThanWellFounded, WFMin
<1>2. PICK x \in S : \A y \in S : ~(y < x)
  BY <1>1 DEF OpToRel
<1>3. \E z \in S : \A y \in S : z <= y
  BY <1>2
<1> QED
  BY <1>3, Zenon DEF Min

-----------------------------------------------------------------------------
(* The requests in flight. An id is spent when nothing in flight can still *)
(* insert a row with it.                                                   *)

Spent(id) == id \in Int /\ id < served /\ \A r \in flight : r.id # id

FlightInv ==
    /\ served \in Nat
    /\ \A r \in flight : r.id \in Nat /\ r.id < served
    /\ \A r, q \in flight : r.id = q.id => r = q
    /\ \A r, q \in flight : r.about = q.about => r = q \/ r.about \in hurried

-----------------------------------------------------------------------------
(* Accounts and rosters                                                    *)

UsersRequest(r) ==
    /\ r.kind = "register" => r.arg.handle \in Handle /\ r.arg.granted \in BOOLEAN
    /\ r.kind = "roster" => r.arg.handle \in Handle /\ r.arg.owner \subseteq Account
    /\ r.kind = "role" => /\ r.about = Roles /\ r.arg.user \in Account
                          /\ r.arg.role \in {"user", "admin"}

UsersInv ==
    /\ users \in [User -> AccountRow \cup {None}]
    /\ \A u, w \in Account : users[u].handle = users[w].handle => u = w
    /\ roster \subseteq Account /\ RosterTold
    /\ \A r \in flight : UsersRequest(r)

\* Somebody else is an administrator when one is about to be none any more.
RolesRequest(r) == r.kind = "role" /\ r.arg.role # "admin" => Admins \ {r.arg.user} # {}

RolesInv == Roles \notin hurried => Admins # {} /\ \A r \in flight : RolesRequest(r)

-----------------------------------------------------------------------------
(* Addresses                                                               *)

AddressesRight(u) ==
    /\ Cardinality(EmailsOf(u)) <= MaxEmails
    /\ \E p \in EmailsOf(u) : p.primary /\ \A e \in EmailsOf(u) \ {p} : ~e.primary

\* An address with this id is of this account, if it is still there.
Owned(u, id) == Spent(id) /\ \A e \in emails : e.id = id => e.user = u

\* What a request that overlaps no other about this account can rely on.
Timely(r, u) ==
    /\ r.kind = "add" => Cardinality(EmailsOf(u)) < MaxEmails
    /\ r.kind = "primary" => \E e \in EmailsOf(u) : e.id = r.arg.email
    /\ r.kind = "delete" =>
         \E e \in EmailsOf(u) :
            /\ e.id = r.arg.email
            /\ IF e.primary THEN \E f \in EmailsOf(u) \ {e} : f.id = r.arg.next
                            ELSE r.arg.next = None

EmailRequest(r) ==
    /\ r.kind \in {"register", "roster"} => r.arg.email \in Email
    /\ r.kind = "add" => r.arg.new \in Email
    /\ r.kind \in {"add", "primary", "delete"} =>
         /\ r.about[2] \in Account /\ r.about = <<"user", r.about[2]>>
         /\ r.about \notin hurried => Timely(r, r.about[2])
    /\ r.kind = "delete" =>
         /\ Owned(r.about[2], r.arg.email)
         /\ r.arg.next # None => Owned(r.about[2], r.arg.next)

EmailsInv ==
    /\ emails \subseteq AddressRow /\ IsFiniteSet(emails)
    /\ \A e, f \in emails : e.email = f.email \/ e.id = f.id => e = f
    /\ \A e \in emails : e.user \in Account /\ Spent(e.id)
    /\ \A u \in Account : <<"user", u>> \notin hurried => AddressesRight(u)
    /\ \A r \in flight : EmailRequest(r)

-----------------------------------------------------------------------------
(* Solutions and comments                                                  *)

PostRequest(r) ==
    /\ r.kind \in {"post", "comment"} =>
         /\ r.about[2] \in User /\ r.about = <<"writer", r.about[2]>>
         /\ r.about \notin hurried => WrittenToday(r.about[2]) < DailyLimit(r.about[2])
    /\ r.kind \in {"unpost", "comment"} => r.arg.post \in Post /\ posts[r.arg.post] # None
    /\ r.kind = "uncomment" =>
         /\ r.arg.comment \in Comment /\ r.about = <<"comment", r.arg.comment>>
         /\ comments[r.arg.comment] # None
         /\ r.about \notin hurried => ~comments[r.arg.comment].deleted

Written(table, ids) == {i \in ids : table[i] # None}

TablesTyped ==
    /\ posts \in [Post -> PostRow \cup {None}] /\ IsFiniteSet(Written(posts, Post))
    /\ comments \in [Comment -> CommentRow \cup {None}] /\ IsFiniteSet(Written(comments, Comment))
    /\ day \in Nat
    /\ \A i \in Written(posts, Post) : posts[i].day <= day
    /\ \A c \in Written(comments, Comment) :
         comments[c].day <= day /\ comments[c].post \in Written(posts, Post)

PostsInv ==
    /\ TablesTyped /\ CommentsCounted /\ QuotaKept
    /\ \A r \in flight : PostRequest(r)

-----------------------------------------------------------------------------
(* What a step does to the requests in flight.                             *)

Asked(q) ==
    /\ flight' = flight \cup {q} /\ q.id = served /\ served' = served + 1
    /\ hurried' = hurried \cup {r.about : r \in {p \in flight : p.about = q.about}}

Quiet ==
    /\ flight' = flight /\ hurried \subseteq hurried' /\ served' \in {served, served + 1}

\* What no step takes away.
Onward ==
    /\ FlightInv' /\ hurried \subseteq hurried' /\ \A id : Spent(id) => Spent(id)'

LEMMA BeginAsks ==
    ASSUME NEW kind, NEW about, NEW arg, Begin(kind, about, arg)
    PROVE  \E q : /\ Asked(q) /\ q.kind = kind /\ q.about = about /\ q.arg = arg
<1>1. PICK q : q = [id |-> served, kind |-> kind, about |-> about, arg |-> arg]
  OBVIOUS
<1>2. q.id = served /\ q.kind = kind /\ q.about = about /\ q.arg = arg
  BY <1>1
<1>3. Asked(q)
  BY <1>1, <1>2 DEF Asked, Begin
<1> QED
  BY <1>2, <1>3

LEMMA AskedGoesOn ==
    ASSUME FlightInv, NEW q, Asked(q)
    PROVE  Onward
<1>1. \A r \in flight : r.id # q.id
  BY DEF FlightInv, Asked
<1>2. served' \in Nat /\ \A r \in flight' : r.id \in Nat /\ r.id < served'
  BY DEF FlightInv, Asked
<1>3. \A r, p \in flight' : r.id = p.id => r = p
  BY <1>1 DEF FlightInv, Asked
<1>4. \A r \in flight : r.about = q.about => r.about \in hurried' /\ q.about \in hurried'
  BY DEF Asked
<1>5. \A r, p \in flight' : r.about = p.about => r = p \/ r.about \in hurried'
  BY <1>4 DEF FlightInv, Asked
<1>6. \A id : Spent(id) => Spent(id)'
  BY DEF Spent, FlightInv, Asked
<1> QED
  BY <1>2, <1>3, <1>5, <1>6 DEF Onward, FlightInv, Asked

LEMMA EndGoesOn ==
    ASSUME FlightInv, NEW r \in flight, Ends(r)
    PROVE  Onward /\ Spent(r.id)' /\ flight' = flight \ {r} /\ hurried' = hurried
BY DEF Onward, FlightInv, Spent, Ends

LEMMA QuietGoesOn ==
    ASSUME FlightInv, Quiet
    PROVE  Onward
BY DEF Onward, FlightInv, Spent, Quiet

-----------------------------------------------------------------------------
(* Steps that leave a part of the state alone keep what is said of it: the *)
(* requests that remain were in order before, or are new and in order.     *)

LEMMA UsersStay ==
    ASSUME UsersInv, UNCHANGED <<users, roster, created, refused>>,
           \A r \in flight' : r \in flight \/ UsersRequest(r)
    PROVE  UsersInv'
<1>1. Account' = Account
  BY DEF Account
<1>2. \A r : UsersRequest(r)' <=> UsersRequest(r)
  BY <1>1 DEF UsersRequest
<1>3. RosterTold'
  BY <1>1 DEF UsersInv, RosterTold
<1> QED
  BY <1>1, <1>2, <1>3 DEF UsersInv

LEMMA RolesStay ==
    ASSUME RolesInv, Admins' = Admins, hurried \subseteq hurried',
           \A r \in flight' : r \in flight \/ RolesRequest(r)
    PROVE  RolesInv'
BY DEF RolesInv, RolesRequest

LEMMA TimelyStays ==
    ASSUME NEW r, NEW u, EmailsOf(u)' = EmailsOf(u), Timely(r, u)
    PROVE  Timely(r, u)'
BY DEF Timely

LEMMA EmailsStay ==
    ASSUME EmailsInv, emails' = emails, Account' = Account, Onward,
           \A r \in flight' : r \in flight \/ EmailRequest(r)
    PROVE  EmailsInv'
<1>1. \A u : EmailsOf(u)' = EmailsOf(u)
  BY DEF EmailsOf
<1>2. \A u, id : Owned(u, id) => Owned(u, id)'
  BY DEF Owned, Onward
<1>3. ASSUME NEW r \in flight' PROVE EmailRequest(r)'
  <2>1. EmailRequest(r)
    BY DEF EmailsInv
  <2>2. r.about \notin hurried' => r.about \notin hurried
    BY DEF Onward
  <2>3. Timely(r, r.about[2]) => Timely(r, r.about[2])'
    BY <1>1, TimelyStays
  <2> QED
    BY <1>2, <2>1, <2>2, <2>3 DEF EmailRequest
<1>4. \A u : AddressesRight(u)' <=> AddressesRight(u)
  BY <1>1 DEF AddressesRight
<1>5. \A u \in Account' : <<"user", u>> \notin hurried' => AddressesRight(u)'
  BY <1>4 DEF EmailsInv, Onward
<1>6. \A e \in emails' : e.user \in Account' /\ Spent(e.id)'
  BY DEF EmailsInv, Onward
<1> QED
  BY <1>3, <1>5, <1>6 DEF EmailsInv

LEMMA PostsStay ==
    ASSUME PostsInv, UNCHANGED communityVars, hurried \subseteq hurried',
           \A r \in flight' : r \in flight \/ PostRequest(r)
    PROVE  PostsInv'
<1>1. UNCHANGED <<posts, comments, day>>
  BY DEF communityVars
<1>2. \A u : WrittenToday(u)' = WrittenToday(u)
  BY <1>1 DEF WrittenToday, WrittenBy
<1>3. ASSUME NEW r \in flight' PROVE PostRequest(r)'
  <2>1. PostRequest(r)
    BY DEF PostsInv
  <2> QED
    BY <1>1, <1>2, <2>1 DEF PostRequest
<1>4. TablesTyped'
  BY <1>1 DEF TablesTyped, PostsInv, Written
<1>5. CommentsCounted'
  <2>1. \A i : CommentsOf(i)' = CommentsOf(i)
    BY <1>1 DEF CommentsOf
  <2> QED
    BY <1>1, <2>1 DEF CommentsCounted, PostsInv
<1>6. QuotaKept'
  BY <1>2 DEF QuotaKept, PostsInv, DailyLimit
<1> QED
  BY <1>3, <1>4, <1>5, <1>6 DEF PostsInv

-----------------------------------------------------------------------------
(* Requests that begin, and those that end without having written          *)

SiteInv == FlightInv /\ UsersInv /\ RolesInv /\ EmailsInv /\ PostsInv

InOrder(r) == UsersRequest(r) /\ RolesRequest(r) /\ EmailRequest(r) /\ PostRequest(r)

LEMMA TablesStay ==
    ASSUME SiteInv, Onward, Nothing, UNCHANGED communityVars,
           \A r \in flight' : r \in flight \/ InOrder(r)
    PROVE  SiteInv'
<1>1. UNCHANGED <<users, emails, roster, created, refused>>
  BY DEF Nothing
<1>2. Account' = Account /\ Admins' = Admins
  BY <1>1 DEF Account, Admins
<1>3. UsersInv'
  BY <1>1, UsersStay DEF SiteInv, InOrder
<1>4. RolesInv'
  BY <1>2, RolesStay DEF SiteInv, InOrder, Onward
<1>5. EmailsInv'
  BY <1>1, <1>2, EmailsStay DEF SiteInv, InOrder
<1>6. PostsInv'
  BY PostsStay DEF SiteInv, InOrder, Onward
<1> QED
  BY <1>3, <1>4, <1>5, <1>6 DEF SiteInv, Onward

LEMMA AskKeeps ==
    ASSUME SiteInv, Nothing, UNCHANGED communityVars, NEW q, Asked(q), InOrder(q)
    PROVE  SiteInv'
<1>1. Onward
  BY AskedGoesOn DEF SiteInv
<1>2. \A r \in flight' : r \in flight \/ r = q
  BY DEF Asked
<1> QED
  BY <1>1, <1>2, TablesStay

LEMMA NewAccountsBegin ==
    ASSUME SiteInv, UNCHANGED communityVars, NEW h \in Handle, NEW a \in Email,
           (\E granted \in BOOLEAN : BeginRegister(h, a, granted)) \/ BeginRoster(h, a)
    PROVE  SiteInv'
<1>1. ASSUME NEW granted \in BOOLEAN, BeginRegister(h, a, granted) PROVE SiteInv'
  <2>1. PICK q : /\ Asked(q) /\ q.kind = "register" /\ q.about = NewAccounts
                 /\ q.arg = [handle |-> h, email |-> a, granted |-> granted]
    BY <1>1, BeginAsks DEF BeginRegister
  <2>2. InOrder(q)
    BY <2>1 DEF InOrder, UsersRequest, RolesRequest, EmailRequest, PostRequest
  <2> QED
    BY <1>1, <2>1, <2>2, AskKeeps DEF BeginRegister
<1>2. ASSUME BeginRoster(h, a) PROVE SiteInv'
  <2>1. PICK q : /\ Asked(q) /\ q.kind = "roster" /\ q.about = NewAccounts
                 /\ q.arg = [handle |-> h, email |-> a,
                             owner |-> OwnerOfEmail(a) \cup OwnerOfHandle(h)]
    BY <1>2, BeginAsks DEF BeginRoster
  <2>2. OwnerOfEmail(a) \cup OwnerOfHandle(h) \subseteq Account
    BY DEF OwnerOfEmail, OwnerOfHandle, SiteInv, EmailsInv
  <2>3. InOrder(q)
    BY <2>1, <2>2 DEF InOrder, UsersRequest, RolesRequest, EmailRequest, PostRequest
  <2> QED
    BY <1>2, <2>1, <2>3, AskKeeps DEF BeginRoster
<1> QED
  BY <1>1, <1>2

LEMMA AddressesBegin ==
    ASSUME SiteInv, UNCHANGED communityVars,
           \/ \E u \in User, a \in Email : BeginAddEmail(u, a)
           \/ \E e \in emails : BeginPrimary(e) \/ BeginDeleteEmail(e)
    PROVE  SiteInv'
<1>1. ASSUME NEW u \in User, NEW a \in Email, BeginAddEmail(u, a) PROVE SiteInv'
  <2>1. PICK q : Asked(q) /\ q.kind = "add" /\ q.about = <<"user", u>> /\ q.arg = [new |-> a]
    BY <1>1, BeginAsks DEF BeginAddEmail
  <2>2. Timely(q, u) /\ q.about[2] = u
    BY <1>1, <2>1 DEF Timely, BeginAddEmail, RoomForEmail
  <2>3. InOrder(q)
    BY <1>1, <2>1, <2>2
       DEF InOrder, UsersRequest, RolesRequest, EmailRequest, PostRequest, BeginAddEmail
  <2> QED
    BY <1>1, <2>1, <2>3, AskKeeps DEF BeginAddEmail
<1>2. ASSUME NEW e \in emails PROVE e.user \in Account /\ Owned(e.user, e.id) /\ e \in EmailsOf(e.user)
  BY DEF SiteInv, EmailsInv, Owned, EmailsOf
<1>3. ASSUME NEW e \in emails, BeginPrimary(e) PROVE SiteInv'
  <2>1. PICK q : Asked(q) /\ q.kind = "primary" /\ q.about = <<"user", e.user>> /\ q.arg = [email |-> e.id]
    BY <1>3, BeginAsks DEF BeginPrimary
  <2>2. Timely(q, e.user) /\ q.about[2] = e.user
    BY <1>2, <2>1 DEF Timely
  <2>3. InOrder(q)
    BY <1>2, <2>1, <2>2 DEF InOrder, UsersRequest, RolesRequest, EmailRequest, PostRequest
  <2> QED
    BY <1>3, <2>1, <2>3, AskKeeps DEF BeginPrimary
<1>4. ASSUME NEW e \in emails, BeginDeleteEmail(e) PROVE SiteInv'
  <2>1. PICK f \in EmailsOf(e.user) \ {e} :
           Begin("delete", <<"user", e.user>>,
                 [email |-> e.id, next |-> IF e.primary THEN f.id ELSE None])
    BY <1>4 DEF BeginDeleteEmail
  <2>2. PICK q : /\ Asked(q) /\ q.kind = "delete" /\ q.about = <<"user", e.user>>
                 /\ q.arg = [email |-> e.id, next |-> IF e.primary THEN f.id ELSE None]
    BY <2>1, BeginAsks
  <2>3. q.arg.email = e.id /\ q.about[2] = e.user
    BY <2>2
  <2>4. q.arg.next = IF e.primary THEN f.id ELSE None
    BY <2>2
  <2>5. Timely(q, e.user)
    BY <1>2, <2>1, <2>2, <2>3, <2>4 DEF Timely
  <2>6. f \in emails /\ f.user = e.user
    BY <2>1 DEF EmailsOf
  <2>7. q.arg.next # None => Owned(e.user, q.arg.next)
    BY <1>2, <2>4, <2>6
  <2>8. InOrder(q)
    BY <1>2, <2>2, <2>3, <2>5, <2>7 DEF InOrder, UsersRequest, RolesRequest, EmailRequest, PostRequest
  <2> QED
    BY <1>4, <2>2, <2>8, AskKeeps DEF BeginDeleteEmail
<1> QED
  BY <1>1, <1>3, <1>4

LEMMA RoleBegins ==
    ASSUME SiteInv, UNCHANGED communityVars, NEW me \in User, NEW u \in User,
           NEW role \in {"user", "admin"}, BeginRole(me, u, role)
    PROVE  SiteInv'
<1>1. PICK q : Asked(q) /\ q.kind = "role" /\ q.about = Roles /\ q.arg = [user |-> u, role |-> role]
  BY BeginAsks DEF BeginRole
<1>2. q.arg.user = u /\ q.arg.role = role /\ u \in Account
  BY <1>1 DEF BeginRole
<1>3. RolesRequest(q)
  BY <1>2 DEF RolesRequest, BeginRole, NotMyself
<1>4. InOrder(q)
  BY <1>1, <1>2, <1>3 DEF InOrder, UsersRequest, EmailRequest, PostRequest
<1> QED
  BY <1>1, <1>4, AskKeeps DEF BeginRole

LEMMA PostsBegin ==
    ASSUME SiteInv, NEW u \in User,
           \/ BeginPost(u)
           \/ \E i \in Post : BeginDeletePost(u, i) \/ BeginComment(u, i)
           \/ \E c \in Comment : BeginDeleteComment(u, c)
    PROVE  SiteInv'
<1>1. ASSUME BeginPost(u) PROVE SiteInv'
  <2>1. PICK q : Asked(q) /\ q.kind = "post" /\ q.about = <<"writer", u>> /\ q.arg = [post |-> None]
    BY <1>1, BeginAsks DEF BeginPost
  <2>2. InOrder(q)
    BY <1>1, <2>1 DEF InOrder, UsersRequest, RolesRequest, EmailRequest, PostRequest, BeginPost, MayWrite
  <2> QED
    BY <1>1, <2>1, <2>2, AskKeeps DEF BeginPost
<1>2. ASSUME NEW i \in Post, BeginDeletePost(u, i) PROVE SiteInv'
  <2>1. PICK q : Asked(q) /\ q.kind = "unpost" /\ q.about = <<"post", i>> /\ q.arg = [post |-> i]
    BY <1>2, BeginAsks DEF BeginDeletePost
  <2>2. InOrder(q)
    BY <1>2, <2>1 DEF InOrder, UsersRequest, RolesRequest, EmailRequest, PostRequest, BeginDeletePost, Live
  <2> QED
    BY <1>2, <2>1, <2>2, AskKeeps DEF BeginDeletePost
<1>3. ASSUME NEW i \in Post, BeginComment(u, i) PROVE SiteInv'
  <2>1. PICK q : Asked(q) /\ q.kind = "comment" /\ q.about = <<"writer", u>> /\ q.arg = [post |-> i]
    BY <1>3, BeginAsks DEF BeginComment
  <2>2. InOrder(q)
    BY <1>3, <2>1 DEF InOrder, UsersRequest, RolesRequest, EmailRequest, PostRequest, BeginComment, MayWrite, Live
  <2> QED
    BY <1>3, <2>1, <2>2, AskKeeps DEF BeginComment
<1>4. ASSUME NEW c \in Comment, BeginDeleteComment(u, c) PROVE SiteInv'
  <2>1. PICK q : Asked(q) /\ q.kind = "uncomment" /\ q.about = <<"comment", c>> /\ q.arg = [comment |-> c]
    BY <1>4, BeginAsks DEF BeginDeleteComment
  <2>2. InOrder(q)
    BY <1>4, <2>1
       DEF InOrder, UsersRequest, RolesRequest, EmailRequest, PostRequest, BeginDeleteComment,
           MayDeleteComment, Live
  <2> QED
    BY <1>4, <2>1, <2>2, AskKeeps DEF BeginDeleteComment
<1> QED
  BY <1>1, <1>2, <1>3, <1>4

LEMMA FailureKeeps ==
    ASSUME SiteInv, UNCHANGED communityVars, NEW r \in flight, RequestFails(r)
    PROVE  SiteInv'
<1>1. Onward /\ flight' = flight \ {r}
  BY EndGoesOn DEF SiteInv, RequestFails
<1> QED
  BY <1>1, TablesStay DEF RequestFails

-----------------------------------------------------------------------------
(* Accounts that are made, and rows of accounts that change                *)

\* The account w is made, with the address x.
Makes(w, x, h) ==
    /\ w = NextUser
    /\ \E c \in BOOLEAN : NewAccount(x.id, h, x.email, c)
    /\ x = Address(x.id, w, x.email, TRUE)

LEMMA AccountMade ==
    ASSUME UsersInv, NEW w, NEW x, NEW h \in Handle, x.id \in Int, x.email \in Email, Makes(w, x, h)
    PROVE  /\ w \in User \ Account /\ x \in AddressRow
           /\ x.user = w /\ x.primary = TRUE
           /\ Account' = Account \cup {w} /\ Admins' = Admins
           /\ users' \in [User -> AccountRow \cup {None}] /\ users'[w].handle = h
           /\ \A u \in Account : users'[u] = users[u]
           /\ emails' = emails \cup {x} /\ ~EmailTaken(x.email) /\ ~HandleTaken(h)
<1>0. PICK c \in BOOLEAN : NewAccount(x.id, h, x.email, c)
  BY DEF Makes
<1>1. Account \subseteq User /\ Account # User /\ User \subseteq Nat
  BY <1>0, AccountsAssumption DEF Account, NewAccount
<1>2. User \ Account \in SUBSET Nat /\ User \ Account # {}
  BY <1>1
<1>4. w \in User \ Account
  BY <1>2, MinOfNats DEF NextUser, Makes
<1>5. PICK row : row = [NewUser(h, "user") EXCEPT !.consents = c]
  OBVIOUS
<1>6. row \in AccountRow /\ row.handle = h /\ row.role = "user" /\ row # None
  <2>1. row \in AccountRow /\ row.handle = h /\ row.role = "user"
    BY <1>5 DEF NewUser, AccountRow
  <2> QED
    BY <2>1, NoneAssumption
<1>7. users' = [users EXCEPT ![w] = row] /\ users \in [User -> AccountRow \cup {None}]
  BY <1>0, <1>5 DEF NewAccount, UsersInv, Makes
<1>8. /\ users' \in [User -> AccountRow \cup {None}] /\ users'[w] = row
      /\ \A u \in User \ {w} : users'[u] = users[u]
  BY <1>4, <1>6, <1>7
<1>9. Account' = Account \cup {w}
  BY <1>4, <1>6, <1>8 DEF Account
<1>10. Admins' = Admins
  BY <1>1, <1>4, <1>6, <1>8, <1>9 DEF Admins
<1>11. PICK id \in Int : id = x.id
  OBVIOUS
<1>12. x \in AddressRow /\ x.user = w /\ x.primary = TRUE
  <2>1. PICK a \in Email : a = x.email
    OBVIOUS
  <2>2. x = [id |-> id, user |-> w, email |-> a, primary |-> TRUE]
    BY <1>11, <2>1 DEF Makes, Address
  <2> QED
    BY <1>4, <2>2 DEF AddressRow
<1>13. emails' = emails \cup {x} /\ ~EmailTaken(x.email) /\ ~HandleTaken(h)
  BY <1>0 DEF NewAccount, Makes
<1> QED
  BY <1>1, <1>4, <1>6, <1>8, <1>9, <1>10, <1>12, <1>13

LEMMA AccountChanged ==
    ASSUME UsersInv, NEW u \in Account, NEW row \in AccountRow, row.handle = users[u].handle,
           users' = [users EXCEPT ![u] = row]
    PROVE  /\ users' \in [User -> AccountRow \cup {None}] /\ Account' = Account
           /\ users'[u] = row /\ \A w \in Account \ {u} : users'[w] = users[w]
           /\ \A w \in Account : users'[w].handle = users[w].handle
<1>1. /\ users' \in [User -> AccountRow \cup {None}] /\ users'[u] = row
      /\ \A w \in User \ {u} : users'[w] = users[w]
  BY DEF UsersInv, Account
<1>2. row # None
  BY NoneAssumption
<1>3. Account' = Account
  BY <1>1, <1>2 DEF Account
<1> QED
  BY <1>1, <1>3 DEF Account

\* Handles stay, and rosters grow.
LEMMA UsersKept ==
    ASSUME UsersInv, users' \in [User -> AccountRow \cup {None}], Account \subseteq Account',
           \A u \in Account : users'[u].handle = users[u].handle,
           \A u, w \in Account' : users'[u].handle = users'[w].handle => u = w,
           roster \subseteq roster', roster' \subseteq Account',
           \A h \in created' \ refused' : h \in created \ refused \/ \E u \in roster' : users'[u].handle = h,
           flight' \subseteq flight
    PROVE  UsersInv'
<1>1. RosterTold'
  <2> SUFFICES ASSUME NEW h \in created' \ refused'
               PROVE  \E u \in roster' : u \in Account' /\ users'[u].handle = h
    BY DEF RosterTold
  <2>1. CASE h \in created \ refused
    <3>1. PICK u \in roster : u \in Account /\ users[u].handle = h
      BY <2>1 DEF UsersInv, RosterTold
    <3> QED
      BY <3>1
  <2> QED
    BY <2>1
<1>2. \A r \in flight' : UsersRequest(r)'
  BY DEF UsersInv, UsersRequest
<1> QED
  BY <1>1, <1>2 DEF UsersInv

LEMMA RosterChanges ==
    ASSUME UsersInv, users' = users, roster \subseteq roster', roster' \subseteq Account,
           created' \ refused' \subseteq created \ refused, flight' \subseteq flight
    PROVE  UsersInv' /\ Account' = Account /\ Admins' = Admins
<1>1. Account' = Account /\ Admins' = Admins
  BY DEF Account, Admins
<1>2. \A u, w \in Account' : users'[u].handle = users'[w].handle => u = w
  BY <1>1 DEF UsersInv
<1>3. users' \in [User -> AccountRow \cup {None}] /\ \A u \in Account : users'[u].handle = users[u].handle
  BY DEF UsersInv
<1>4. \A h \in created' \ refused' : h \in created \ refused
  OBVIOUS
<1> QED
  BY <1>1, <1>2, <1>3, <1>4, UsersKept

LEMMA RowChangeKeeps ==
    ASSUME UsersInv, NEW u \in Account, NEW row \in AccountRow, row.handle = users[u].handle,
           users' = [users EXCEPT ![u] = row], UNCHANGED <<roster, created, refused>>,
           flight' \subseteq flight
    PROVE  UsersInv'
<1>1. /\ users' \in [User -> AccountRow \cup {None}] /\ Account' = Account
      /\ \A w \in Account : users'[w].handle = users[w].handle
  BY AccountChanged
<1>2. \A v, w \in Account' : users'[v].handle = users'[w].handle => v = w
  BY <1>1 DEF UsersInv
<1>3. roster' \subseteq Account'
  BY <1>1 DEF UsersInv
<1> QED
  BY <1>1, <1>2, <1>3, UsersKept

-----------------------------------------------------------------------------
(* Addresses. A request changes those of one account, and is then done.    *)

LEMMA EmailsMoved ==
    ASSUME FlightInv, EmailsInv, NEW r \in flight, Ends(r), NEW w \in Account',
           Account \subseteq Account', Account' \subseteq Account \cup {w},
           w \notin Account \/ r.about = <<"user", w>>,
           emails' \subseteq AddressRow, IsFiniteSet(emails'),
           \A e, f \in emails' : e.email = f.email \/ e.id = f.id => e = f,
           \A e \in emails' : \/ \E d \in emails : d.id = e.id /\ d.user = e.user
                              \/ e.id = r.id /\ e.user = w,
           \A u \in Account \ {w} : EmailsOf(u)' = EmailsOf(u),
           <<"user", w>> \notin hurried => AddressesRight(w)'
    PROVE  EmailsInv'
<1>1. Onward /\ Spent(r.id)' /\ flight' = flight \ {r} /\ hurried' = hurried
  BY EndGoesOn
<1>2. \A e \in emails' : e.user \in Account' /\ Spent(e.id)'
  BY <1>1 DEF EmailsInv, Onward
<1>3. ASSUME NEW u \in Account', <<"user", u>> \notin hurried' PROVE AddressesRight(u)'
  <2>1. CASE u = w
    BY <1>1, <1>3, <2>1
  <2>2. CASE u # w
    <3>1. u \in Account /\ AddressesRight(u) /\ EmailsOf(u)' = EmailsOf(u)
      BY <1>1, <1>3, <2>2 DEF EmailsInv
    <3> QED
      BY <3>1 DEF AddressesRight
  <2> QED
    BY <2>1, <2>2
<1>4. ASSUME NEW u, NEW id, Owned(u, id) PROVE Owned(u, id)'
  <2>1. Spent(id)' /\ id # r.id
    BY <1>1, <1>4 DEF Owned, Onward, Spent
  <2> QED
    BY <1>4, <2>1 DEF Owned
<1>5. ASSUME NEW q \in flight' PROVE EmailRequest(q)'
  <2>1. EmailRequest(q) /\ q \in flight /\ q # r
    BY <1>1 DEF EmailsInv
  <2>2. ASSUME q.kind \in {"add", "primary", "delete"}, q.about \notin hurried'
        PROVE  Timely(q, q.about[2])'
    <3>1. q.about[2] \in Account /\ q.about = <<"user", q.about[2]>> /\ Timely(q, q.about[2])
      BY <1>1, <2>1, <2>2 DEF EmailRequest
    <3>2. q.about[2] # w
      BY <1>1, <2>1, <2>2, <3>1 DEF FlightInv
    <3> QED
      BY <3>1, <3>2, TimelyStays
  <2> QED
    BY <1>4, <2>1, <2>2 DEF EmailRequest
<1> QED
  BY <1>2, <1>3, <1>5 DEF EmailsInv

LEMMA AddressAdded ==
    ASSUME FlightInv, EmailsInv, NEW r \in flight, Ends(r), NEW w \in Account',
           Account \subseteq Account', Account' \subseteq Account \cup {w},
           w \notin Account \/ r.about = <<"user", w>>,
           NEW x \in AddressRow, emails' = emails \cup {x}, x.id = r.id, x.user = w, ~EmailTaken(x.email),
           w \notin Account => x.primary = TRUE,
           w \in Account => /\ x.primary = FALSE
                            /\ <<"user", w>> \notin hurried => Cardinality(EmailsOf(w)) < MaxEmails
    PROVE  EmailsInv'
<1>1. emails' \subseteq AddressRow /\ IsFiniteSet(emails')
  BY FS_AddElement DEF EmailsInv
<1>2. \A e \in emails : e.email # x.email /\ e.id # x.id
  BY DEF EmailTaken, EmailsInv, Spent
<1>3. \A e, f \in emails' : e.email = f.email \/ e.id = f.id => e = f
  BY <1>2 DEF EmailsInv
<1>4. \A u \in Account \ {w} : EmailsOf(u)' = EmailsOf(u)
  BY DEF EmailsOf
<1>5. EmailsOf(w)' = EmailsOf(w) \cup {x} /\ x \notin EmailsOf(w)
  BY <1>2 DEF EmailsOf
<1>6. IsFiniteSet(EmailsOf(w))
  <2>1. EmailsOf(w) \in SUBSET emails /\ IsFiniteSet(emails)
    BY DEF EmailsOf, EmailsInv
  <2> QED
    BY <2>1, FS_Subset
<1>7. Cardinality(EmailsOf(w)') = Cardinality(EmailsOf(w)) + 1 /\ Cardinality(EmailsOf(w)) \in Nat
  BY <1>5, <1>6, FS_AddElement, FS_CardinalityType
<1>8. ASSUME <<"user", w>> \notin hurried PROVE AddressesRight(w)'
  <2>1. CASE w \in Account
    <3>1. AddressesRight(w) /\ Cardinality(EmailsOf(w)) < MaxEmails
      BY <1>8, <2>1 DEF EmailsInv
    <3>2. PICK p \in EmailsOf(w) : p.primary /\ \A e \in EmailsOf(w) \ {p} : ~e.primary
      BY <3>1 DEF AddressesRight
    <3>3. p.primary /\ \A e \in EmailsOf(w)' \ {p} : ~e.primary
      BY <1>5, <2>1, <3>2
    <3>4. Cardinality(EmailsOf(w)') <= MaxEmails
      BY <1>7, <3>1, AccountsAssumption
    <3> QED
      BY <1>5, <3>3, <3>4 DEF AddressesRight
  <2>2. CASE w \notin Account
    <3>1. EmailsOf(w) = {}
      BY <2>2 DEF EmailsOf, EmailsInv
    <3>2. Cardinality(EmailsOf(w)') = 1 /\ EmailsOf(w)' = {x}
      BY <1>5, <1>7, <3>1, FS_EmptySet
    <3>3. Cardinality(EmailsOf(w)') <= MaxEmails
      BY <3>2, AccountsAssumption
    <3> QED
      BY <2>2, <3>2, <3>3 DEF AddressesRight
  <2> QED
    BY <2>1, <2>2
<1>9. \A e \in emails' : \/ \E d \in emails : d.id = e.id /\ d.user = e.user
                         \/ e.id = r.id /\ e.user = w
  OBVIOUS
<1> QED
  BY <1>1, <1>3, <1>4, <1>8, <1>9, EmailsMoved

\* Some addresses of w go, others become primary or cease to be.
Rewritten(w, kept, k) ==
    /\ kept \subseteq emails /\ emails' = {k[e] : e \in kept}
    /\ \A e \in emails \ kept : e.user = w
    /\ \A e \in kept : /\ k[e] \in AddressRow /\ k[e].id = e.id /\ k[e].user = e.user
                       /\ k[e].email = e.email /\ (e.user # w => k[e] = e)
    /\ <<"user", w>> \notin hurried =>
           \E p \in kept : /\ p.user = w /\ k[p].primary
                           /\ \A e \in kept : e.user = w /\ k[e].primary => e = p

LEMMA AddressesRewritten ==
    ASSUME FlightInv, EmailsInv, NEW r \in flight, Ends(r), users' = users,
           NEW w \in Account, r.about = <<"user", w>>,
           NEW kept, NEW k, Rewritten(w, kept, k)
    PROVE  EmailsInv'
<1>0. /\ kept \in SUBSET emails /\ emails' = {k[e] : e \in kept}
      /\ \A e \in emails \ kept : e.user = w
      /\ \A e \in kept : /\ k[e] \in AddressRow /\ k[e].id = e.id /\ k[e].user = e.user
                         /\ k[e].email = e.email /\ (e.user # w => k[e] = e)
  BY DEF Rewritten
<1>1. Account' = Account
  BY DEF Account
<1>2. PICK S : S = {e \in kept : e.user = w}
  OBVIOUS
<1>3. PICK g : g = [e \in kept |-> k[e]]
  OBVIOUS
<1>4. g \in Surjection(kept, emails')
  BY <1>0, <1>3 DEF Surjection
<1>5. IsFiniteSet(emails')
  <2>1. IsFiniteSet(kept)
    BY <1>0, FS_Subset DEF EmailsInv
  <2> QED
    BY <1>4, <2>1, FS_Surjection
<1>6. \A e, f \in emails' : e.email = f.email \/ e.id = f.id => e = f
  BY <1>0 DEF EmailsInv
<1>7. \A e \in emails' : \E d \in emails : d.id = e.id /\ d.user = e.user
  BY <1>0
<1>8. \A u \in Account \ {w} : EmailsOf(u)' = EmailsOf(u)
  BY <1>0 DEF EmailsOf
<1>9. EmailsOf(w)' = {k[e] : e \in S} /\ S \in SUBSET EmailsOf(w)
  BY <1>0, <1>2 DEF EmailsOf
<1>10. Cardinality(EmailsOf(w)') <= Cardinality(EmailsOf(w)) /\ Cardinality(EmailsOf(w)) \in Nat
       /\ Cardinality(EmailsOf(w)') \in Nat
  <2>1. EmailsOf(w) \in SUBSET emails /\ IsFiniteSet(emails)
    BY DEF EmailsOf, EmailsInv
  <2>2. IsFiniteSet(EmailsOf(w))
    BY <2>1, FS_Subset
  <2>3. IsFiniteSet(S) /\ Cardinality(S) <= Cardinality(EmailsOf(w))
    BY <1>9, <2>2, FS_Subset
  <2>4. PICK h : h = [e \in S |-> k[e]]
    OBVIOUS
  <2>5. h \in Surjection(S, EmailsOf(w)')
    BY <1>9, <2>4 DEF Surjection
  <2>6. IsFiniteSet(EmailsOf(w)') /\ Cardinality(EmailsOf(w)') <= Cardinality(S)
    BY <2>3, <2>5, FS_Surjection
  <2>7. Cardinality(S) \in Nat /\ Cardinality(EmailsOf(w)) \in Nat /\ Cardinality(EmailsOf(w)') \in Nat
    BY <2>2, <2>3, <2>6, FS_CardinalityType
  <2> QED
    BY <2>3, <2>6, <2>7
<1>11. ASSUME <<"user", w>> \notin hurried PROVE AddressesRight(w)'
  <2>1. PICK p \in kept : /\ p.user = w /\ k[p].primary
                          /\ \A e \in kept : e.user = w /\ k[e].primary => e = p
    BY <1>11 DEF Rewritten
  <2>2. k[p] \in EmailsOf(w)' /\ \A e \in EmailsOf(w)' \ {k[p]} : ~e.primary
    BY <1>2, <1>9, <2>1
  <2>3. Cardinality(EmailsOf(w)) <= MaxEmails
    BY <1>11 DEF EmailsInv, AddressesRight
  <2>4. Cardinality(EmailsOf(w)') <= MaxEmails
    BY <1>10, <2>3, AccountsAssumption
  <2> QED
    BY <2>1, <2>2, <2>4 DEF AddressesRight
<1>12. emails' \subseteq AddressRow
  BY <1>0
<1> QED
  BY <1>1, <1>5, <1>6, <1>7, <1>8, <1>11, <1>12, EmailsMoved

LEMMA AddWrites ==
    ASSUME FlightInv, EmailsInv, NEW r \in flight, WriteAddEmail(r)
    PROVE  EmailsInv'
<1> DEFINE w == r.about[2]
<1>1. /\ r.kind = "add" /\ EmailRequest(r) /\ ~EmailTaken(r.arg.new) /\ Ends(r) /\ users' = users
      /\ r.id \in Int
  BY DEF WriteAddEmail, EmailsInv, FlightInv
<1>2. w \in Account /\ r.about = <<"user", w>> /\ r.arg.new \in Email
  BY <1>1 DEF EmailRequest
<1>3. <<"user", w>> \notin hurried => Cardinality(EmailsOf(w)) < MaxEmails
  BY <1>1, <1>2 DEF EmailRequest, Timely
<1>4. PICK x : x = Address(r.id, w, r.arg.new, FALSE)
  OBVIOUS
<1>5. /\ x \in AddressRow /\ x.id = r.id /\ x.user = w /\ x.email = r.arg.new
      /\ x.primary = FALSE
  BY <1>1, <1>2, <1>4 DEF Address, AddressRow, Account
<1>6. emails' = emails \cup {x}
  BY <1>4 DEF WriteAddEmail
<1>7. Account' = Account
  BY <1>1 DEF Account
<1> HIDE DEF w
<1> QED
  BY <1>1, <1>2, <1>3, <1>5, <1>6, <1>7, AddressAdded

LEMMA PrimaryWrites ==
    ASSUME FlightInv, EmailsInv, NEW r \in flight, WritePrimary(r)
    PROVE  EmailsInv'
<1>1. PICK w : w = r.about[2]
  OBVIOUS
<1>2. PICK id : id = r.arg.email
  OBVIOUS
<1>3. r.kind = "primary" /\ EmailRequest(r) /\ Ends(r) /\ users' = users
  BY DEF WritePrimary, EmailsInv
<1>4. w \in Account /\ r.about = <<"user", w>>
  BY <1>1, <1>3 DEF EmailRequest
<1>5. PICK k : k = [e \in emails |-> IF e.user # w THEN e ELSE [e EXCEPT !.primary = e.id = id]]
  OBVIOUS
<1>6. emails' = {k[e] : e \in emails}
  BY <1>1, <1>2, <1>5 DEF WritePrimary, PrimaryOf
<1>7. ASSUME NEW e \in emails
      PROVE  /\ k[e] \in AddressRow /\ k[e].id = e.id /\ k[e].user = e.user
             /\ k[e].email = e.email /\ (e.user # w => k[e] = e)
             /\ e.user = w => (k[e].primary <=> e.id = id)
  <2>1. e \in AddressRow
    BY DEF EmailsInv
  <2>2. CASE e.user # w
    BY <1>5, <2>1, <2>2
  <2>3. CASE e.user = w
    <3>1. k[e] = [e EXCEPT !.primary = e.id = id]
      BY <1>5, <2>3
    <3> QED
      BY <2>1, <2>3, <3>1 DEF AddressRow
  <2> QED
    BY <2>2, <2>3
<1>8. ASSUME <<"user", w>> \notin hurried
      PROVE  \E p \in emails : /\ p.user = w /\ k[p].primary
                               /\ \A e \in emails : e.user = w /\ k[e].primary => e = p
  <2>1. PICK p \in EmailsOf(w) : p.id = id
    BY <1>1, <1>2, <1>3, <1>4, <1>8 DEF EmailRequest, Timely
  <2>2. p \in emails /\ p.user = w
    BY DEF EmailsOf
  <2>3. \A e \in emails : e.id = id => e = p
    BY <2>1, <2>2 DEF EmailsInv
  <2> QED
    BY <1>7, <2>1, <2>2, <2>3
<1>9. PICK kept : kept = emails
  OBVIOUS
<1>10. Rewritten(w, kept, k)
  BY <1>6, <1>7, <1>8, <1>9 DEF Rewritten
<1> QED
  BY <1>3, <1>4, <1>10, AddressesRewritten

LEMMA DeleteWrites ==
    ASSUME FlightInv, EmailsInv, NEW r \in flight, WriteDeleteEmail(r)
    PROVE  EmailsInv'
<1>1. PICK w : w = r.about[2]
  OBVIOUS
<1>2. PICK id : id = r.arg.email
  OBVIOUS
<1>3. PICK next : next = r.arg.next
  OBVIOUS
<1>4. r.kind = "delete" /\ EmailRequest(r) /\ Ends(r) /\ users' = users
  BY DEF WriteDeleteEmail, EmailsInv
<1>5. /\ w \in Account /\ r.about = <<"user", w>> /\ Owned(w, id)
      /\ next # None => Owned(w, next)
  BY <1>1, <1>2, <1>3, <1>4 DEF EmailRequest
<1>6. PICK kept : kept = {f \in emails : f.id # id}
  OBVIOUS
<1>7. PICK k : k = [e \in kept |-> IF e.id = next THEN [e EXCEPT !.primary = TRUE] ELSE e]
  OBVIOUS
<1>8. emails' = {k[e] : e \in kept}
  BY <1>2, <1>3, <1>6, <1>7 DEF WriteDeleteEmail
<1>9. \A e \in emails : e \in AddressRow /\ e.id \in Int /\ e.id # None
  BY NoneAssumption DEF EmailsInv, AddressRow
<1>10. ASSUME NEW e \in kept
       PROVE  /\ k[e] \in AddressRow /\ k[e].id = e.id /\ k[e].user = e.user
              /\ k[e].email = e.email /\ (e.user # w => k[e] = e)
              /\ k[e].primary <=> e.primary \/ e.id = next
  <2>1. e \in AddressRow /\ e \in emails /\ e.id # None
    BY <1>6, <1>9
  <2>2. CASE e.id # next
    BY <1>7, <2>1, <2>2
  <2>3. CASE e.id = next
    <3>1. k[e] = [e EXCEPT !.primary = TRUE] /\ e.user = w
      BY <1>5, <1>7, <2>1, <2>3 DEF Owned
    <3> QED
      BY <2>1, <2>3, <3>1 DEF AddressRow
  <2> QED
    BY <2>2, <2>3
<1>11. \A e \in emails \ kept : e.user = w
  BY <1>5, <1>6 DEF Owned
<1>12. ASSUME <<"user", w>> \notin hurried
       PROVE  \E p \in kept : /\ p.user = w /\ k[p].primary
                              /\ \A e \in kept : e.user = w /\ k[e].primary => e = p
  <2>1. PICK e \in EmailsOf(w) :
           /\ e.id = id
           /\ IF e.primary THEN \E f \in EmailsOf(w) \ {e} : f.id = next ELSE next = None
    BY <1>1, <1>2, <1>3, <1>4, <1>5, <1>12 DEF EmailRequest, Timely
  <2>2. PICK o \in EmailsOf(w) : o.primary /\ \A d \in EmailsOf(w) \ {o} : ~d.primary
    BY <1>5, <1>12 DEF EmailsInv, AddressesRight
  <2>3. \A d \in EmailsOf(w) : d \in emails /\ d.user = w
    BY DEF EmailsOf
  <2>4. \A d \in kept : d.user = w => d \in EmailsOf(w)
    BY <1>6 DEF EmailsOf
  <2>5. \A d, f \in emails : d.id = f.id => d = f
    BY DEF EmailsInv
  <2>6. CASE e.primary
    <3>1. PICK f \in EmailsOf(w) \ {e} : f.id = next
      BY <2>1, <2>6
    <3>2. f \in kept /\ e \notin kept /\ f.user = w /\ e = o
      BY <1>6, <2>1, <2>2, <2>3, <2>5, <2>6, <3>1
    <3>3. k[f].primary
      BY <1>10, <3>1, <3>2
    <3>4. ASSUME NEW d \in kept, d.user = w, k[d].primary PROVE d = f
      <4>1. d.primary \/ d.id = next
        BY <1>10, <3>4
      <4>2. d \in EmailsOf(w) /\ d \in emails /\ d # e
        BY <1>6, <2>4, <3>2, <3>4
      <4> QED
        BY <2>2, <2>3, <2>5, <3>1, <3>2, <4>1, <4>2
    <3> QED
      BY <3>2, <3>3, <3>4
  <2>7. CASE ~e.primary
    <3>1. next = None /\ o # e
      BY <2>1, <2>2, <2>7
    <3>2. o \in kept /\ o.user = w
      BY <1>6, <2>1, <2>3, <2>5, <3>1
    <3>3. \A d \in kept : k[d].primary <=> d.primary
      BY <1>6, <1>9, <1>10, <3>1
    <3> QED
      BY <2>2, <2>4, <3>2, <3>3
  <2> QED
    BY <2>6, <2>7
<1>13. Rewritten(w, kept, k)
  BY <1>6, <1>8, <1>10, <1>11, <1>12 DEF Rewritten
<1> QED
  BY <1>4, <1>5, <1>13, AddressesRewritten

-----------------------------------------------------------------------------
(* What the steps of Accounts keep                                         *)

LEMMA MadeKeeps ==
    ASSUME SiteInv, UNCHANGED communityVars, NEW r \in flight, Ends(r),
           r.kind \in {"register", "roster"}, NEW c \in BOOLEAN,
           NewAccount(r.id, r.arg.handle, r.arg.email, c), refused' = refused,
           \/ roster' = roster /\ created' = created
           \/ roster' = roster \cup {NextUser} /\ created' = created \cup {r.arg.handle}
    PROVE  SiteInv'
<1>1. Onward /\ flight' = flight \ {r} /\ hurried' = hurried
  BY EndGoesOn DEF SiteInv
<1>2. UsersInv /\ EmailsInv /\ FlightInv /\ UsersRequest(r) /\ EmailRequest(r)
  BY DEF SiteInv, UsersInv, EmailsInv
<1>3. r.id \in Int /\ r.arg.handle \in Handle /\ r.arg.email \in Email
  BY <1>2 DEF UsersRequest, EmailRequest, FlightInv
<1>4. PICK h : h = r.arg.handle
  OBVIOUS
<1>5. PICK a : a = r.arg.email
  OBVIOUS
<1>6. PICK w : w = NextUser
  OBVIOUS
<1>7. PICK x : x = Address(r.id, w, a, TRUE)
  OBVIOUS
<1>8. /\ w \in User \ Account /\ x \in AddressRow
      /\ x.id = r.id /\ x.user = w /\ x.email = a /\ x.primary = TRUE
      /\ Account' = Account \cup {w} /\ Admins' = Admins
      /\ users' \in [User -> AccountRow \cup {None}] /\ users'[w].handle = h
      /\ \A u \in Account : users'[u] = users[u]
      /\ emails' = emails \cup {x} /\ ~EmailTaken(a) /\ ~HandleTaken(h)
  <2>1. x.id = r.id /\ x.email = a
    BY <1>7 DEF Address
  <2>2. Makes(w, x, h)
    BY <1>4, <1>5, <1>6, <1>7, <2>1 DEF Makes
  <2>3. UsersInv /\ h \in Handle /\ x.id \in Int /\ x.email \in Email
    BY <1>2, <1>3, <1>4, <1>5, <2>1
  <2>4. /\ w \in User \ Account /\ x \in AddressRow
        /\ x.user = w /\ x.primary = TRUE
        /\ Account' = Account \cup {w} /\ Admins' = Admins
        /\ users' \in [User -> AccountRow \cup {None}] /\ users'[w].handle = h
        /\ \A u \in Account : users'[u] = users[u]
        /\ emails' = emails \cup {x} /\ ~EmailTaken(x.email) /\ ~HandleTaken(h)
    BY <2>2, <2>3, AccountMade
  <2> QED
    BY <2>1, <2>4
<1>9. \A u, v \in Account' : users'[u].handle = users'[v].handle => u = v
  BY <1>2, <1>8 DEF HandleTaken, UsersInv
<1>10. UsersInv'
  <2>1. roster \subseteq roster' /\ roster' \subseteq Account'
    BY <1>2, <1>6, <1>8 DEF UsersInv
  <2>2. \A g \in created' \ refused' : g \in created \ refused \/ \E u \in roster' : users'[u].handle = g
    BY <1>4, <1>6, <1>8
  <2> QED
    BY <1>1, <1>2, <1>8, <1>9, <2>1, <2>2, UsersKept
<1>11. RolesInv'
  BY <1>1, <1>8, RolesStay DEF SiteInv, Onward
<1>12. EmailsInv'
  <2>1. /\ w \in Account' /\ Account \subseteq Account' /\ Account' \subseteq Account \cup {w}
        /\ w \notin Account
    BY <1>8
  <2>2. ~EmailTaken(x.email) /\ x \in AddressRow /\ x.id = r.id /\ x.user = w
    BY <1>8
  <2>3. x.primary = TRUE /\ emails' = emails \cup {x}
    BY <1>8
  <2> QED
    BY <1>2, <2>1, <2>2, <2>3, AddressAdded
<1>13. PostsInv'
  BY <1>1, PostsStay DEF SiteInv
<1> QED
  BY <1>1, <1>10, <1>11, <1>12, <1>13 DEF SiteInv, Onward

LEMMA NewAccountWrites ==
    ASSUME SiteInv, UNCHANGED communityVars, NEW r \in flight, WriteRegister(r) \/ WriteRosterNew(r)
    PROVE  SiteInv'
<1>1. CASE WriteRegister(r)
  <2>1. PICK c : c = r.arg.granted
    OBVIOUS
  <2>2. c \in BOOLEAN
    BY <1>1, <2>1 DEF SiteInv, UsersInv, UsersRequest, WriteRegister
  <2> QED
    BY <1>1, <2>1, <2>2, MadeKeeps DEF WriteRegister
<1>2. CASE WriteRosterNew(r)
  BY <1>2, MadeKeeps DEF WriteRosterNew
<1> QED
  BY <1>1, <1>2

LEMMA AddressWrites ==
    ASSUME SiteInv, UNCHANGED communityVars, NEW r \in flight,
           WriteAddEmail(r) \/ WritePrimary(r) \/ WriteDeleteEmail(r)
    PROVE  SiteInv'
<1>1. Ends(r) /\ UNCHANGED <<users, roster, created, refused>>
  BY DEF WriteAddEmail, WritePrimary, WriteDeleteEmail
<1>2. Onward /\ flight' = flight \ {r}
  BY <1>1, EndGoesOn DEF SiteInv
<1>3. EmailsInv'
  BY AddWrites, PrimaryWrites, DeleteWrites DEF SiteInv
<1>4. Admins' = Admins
  BY <1>1 DEF Admins, Account
<1>5. UsersInv' /\ RolesInv' /\ PostsInv'
  BY <1>1, <1>2, <1>4, UsersStay, RolesStay, PostsStay DEF SiteInv, Onward
<1> QED
  BY <1>2, <1>3, <1>5 DEF SiteInv, Onward

LEMMA RosterWrites ==
    ASSUME SiteInv, UNCHANGED communityVars,
           \/ \E r \in flight : WriteRosterLinked(r) \/ RosterFails(r)
           \/ \E h \in Handle, a \in Email : RosterMismatch(h, a)
    PROVE  SiteInv'
<1>1. ASSUME flight' \subseteq flight, Onward, UNCHANGED <<users, emails>>,
             roster \subseteq roster', roster' \subseteq Account,
             created' \ refused' \subseteq created \ refused
      PROVE  SiteInv'
  <2>1. UsersInv' /\ Account' = Account /\ Admins' = Admins
    BY <1>1, RosterChanges DEF SiteInv
  <2>2. RolesInv' /\ EmailsInv' /\ PostsInv'
    BY <1>1, <2>1, RolesStay, EmailsStay, PostsStay DEF SiteInv, Onward
  <2> QED
    BY <1>1, <2>1, <2>2 DEF SiteInv, Onward
<1>2. roster \subseteq Account
  BY DEF SiteInv, UsersInv
<1>3. ASSUME NEW r \in flight, WriteRosterLinked(r) PROVE SiteInv'
  <2>1. Onward /\ flight' = flight \ {r}
    BY <1>3, EndGoesOn DEF SiteInv, WriteRosterLinked
  <2>2. r.arg.owner \subseteq Account
    BY <1>3 DEF SiteInv, UsersInv, UsersRequest, WriteRosterLinked
  <2> QED
    BY <1>1, <1>2, <1>3, <2>1, <2>2 DEF WriteRosterLinked
<1>4. ASSUME NEW r \in flight, RosterFails(r) PROVE SiteInv'
  <2>1. Onward /\ flight' = flight \ {r}
    BY <1>4, EndGoesOn DEF SiteInv, RosterFails
  <2>2. created' \ refused' \subseteq created \ refused
    BY <1>4 DEF RosterFails
  <2> QED
    BY <1>1, <1>2, <1>4, <2>1, <2>2 DEF RosterFails
<1>5. ASSUME NEW h \in Handle, NEW a \in Email, RosterMismatch(h, a) PROVE SiteInv'
  <2>1. Onward
    BY <1>5, QuietGoesOn DEF SiteInv, Quiet, RosterMismatch
  <2> QED
    BY <1>1, <1>2, <1>5, <2>1 DEF RosterMismatch
<1> QED
  BY <1>3, <1>4, <1>5

\* The row of an account changes, and nothing else.
LEMMA RowWritten ==
    ASSUME SiteInv, UNCHANGED communityVars, NEW u \in Account, NEW row \in AccountRow,
           row.handle = users[u].handle, users' = [users EXCEPT ![u] = row],
           UNCHANGED <<emails, roster, created, refused>>, flight' \subseteq flight, Onward, RolesInv'
    PROVE  SiteInv'
<1>1. UsersInv' /\ Account' = Account
  BY RowChangeKeeps, AccountChanged DEF SiteInv
<1>2. EmailsInv' /\ PostsInv'
  BY <1>1, EmailsStay, PostsStay DEF SiteInv, Onward
<1> QED
  BY <1>1, <1>2 DEF SiteInv, Onward

LEMMA ConsentWrites ==
    ASSUME SiteInv, UNCHANGED communityVars, NEW u \in User, GrantConsent(u) \/ RevokeConsent(u)
    PROVE  SiteInv'
<1>1. PICK b \in BOOLEAN : users' = [users EXCEPT ![u].consents = b]
  BY DEF GrantConsent, RevokeConsent
<1>2. u \in Account /\ UNCHANGED <<emails, roster, created, refused, flight, hurried>> /\ Quiet
  BY DEF GrantConsent, RevokeConsent, Quiet
<1>3. Onward
  BY <1>2, QuietGoesOn DEF SiteInv
<1>4. PICK row : row = [users[u] EXCEPT !.consents = b]
  OBVIOUS
<1>5. users[u] \in AccountRow
  BY <1>2 DEF SiteInv, UsersInv, Account
<1>6. row \in AccountRow /\ row.handle = users[u].handle /\ row.role = users[u].role
  BY <1>4, <1>5 DEF AccountRow
<1>7. users' = [users EXCEPT ![u] = row]
  BY <1>1, <1>4
<1>8. /\ Account' = Account /\ users'[u] = row
      /\ \A w \in Account \ {u} : users'[w] = users[w]
  BY <1>2, <1>6, <1>7, AccountChanged DEF SiteInv
<1>9. Admins' = Admins
  BY <1>6, <1>8 DEF Admins
<1>10. RolesInv'
  BY <1>2, <1>9, RolesStay DEF SiteInv
<1> QED
  BY <1>2, <1>3, <1>6, <1>7, <1>10, RowWritten

LEMMA RoleWrites ==
    ASSUME SiteInv, UNCHANGED communityVars,
           \/ \E r \in flight : WriteRole(r)
           \/ \E u \in User, role \in {"user", "admin"} : SetRole(u, role)
    PROVE  SiteInv'
<1>1. ASSUME NEW u \in Account, NEW role \in {"user", "admin"},
             users' = [users EXCEPT ![u].role = role],
             UNCHANGED <<emails, roster, created, refused>>, flight' \subseteq flight, Onward,
             Roles \in hurried' \/ role = "admin" \/ Admins \ {u} # {},
             Roles \in hurried' \/ \A q \in flight' : q.kind # "role"
      PROVE  SiteInv'
  <2>1. PICK row : row = [users[u] EXCEPT !.role = role]
    OBVIOUS
  <2>2. users[u] \in AccountRow
    BY DEF SiteInv, UsersInv, Account
  <2>3. row \in AccountRow /\ row.handle = users[u].handle /\ row.role = role
    BY <2>1, <2>2 DEF AccountRow
  <2>4. users' = [users EXCEPT ![u] = row]
    BY <1>1, <2>1
  <2>5. /\ Account' = Account /\ users'[u] = row
        /\ \A w \in Account \ {u} : users'[w] = users[w]
    BY <2>3, <2>4, AccountChanged DEF SiteInv
  <2>6. Roles \in hurried' \/ Admins' # {}
    <3>1. \A w \in Admins \ {u} : w \in Admins'
      BY <2>5 DEF Admins
    <3>2. role = "admin" => u \in Admins'
      BY <2>3, <2>5 DEF Admins
    <3> QED
      BY <1>1, <3>1, <3>2
  <2>7. RolesInv'
    BY <1>1, <2>6 DEF RolesInv, RolesRequest
  <2> QED
    BY <1>1, <2>3, <2>4, <2>7, RowWritten
<1>2. ASSUME NEW r \in flight, WriteRole(r) PROVE SiteInv'
  <2>1. Onward /\ flight' = flight \ {r} /\ hurried' = hurried
    BY <1>2, EndGoesOn DEF SiteInv, WriteRole
  <2>2. PICK u : u = r.arg.user
    OBVIOUS
  <2>3. PICK role : role = r.arg.role
    OBVIOUS
  <2>4. u \in Account /\ role \in {"user", "admin"} /\ r.about = Roles
    BY <1>2, <2>2, <2>3 DEF SiteInv, UsersInv, UsersRequest, WriteRole
  <2>5. Roles \in hurried \/ role = "admin" \/ Admins \ {u} # {}
    BY <1>2, <2>2, <2>3 DEF SiteInv, RolesInv, RolesRequest, WriteRole
  <2>6. Roles \in hurried \/ \A q \in flight' : q.kind # "role"
    BY <2>1, <2>4 DEF SiteInv, UsersInv, UsersRequest, FlightInv
  <2>7. users' = [users EXCEPT ![u].role = role] /\ UNCHANGED <<emails, roster, created, refused>>
    BY <1>2, <2>2, <2>3 DEF WriteRole
  <2> QED
    BY <1>1, <2>1, <2>4, <2>5, <2>6, <2>7
<1>3. ASSUME NEW u \in User, NEW role \in {"user", "admin"}, SetRole(u, role) PROVE SiteInv'
  <2>1. Quiet /\ Roles \in hurried' /\ u \in Account /\ flight' = flight
    BY <1>3 DEF SetRole, Quiet
  <2>2. Onward
    BY <2>1, QuietGoesOn DEF SiteInv
  <2>3. users' = [users EXCEPT ![u].role = role] /\ UNCHANGED <<emails, roster, created, refused>>
    BY <1>3 DEF SetRole
  <2> QED
    BY <1>1, <2>1, <2>2, <2>3
<1> QED
  BY <1>2, <1>3

LEMMA AccountsKeep ==
    ASSUME SiteInv, AccountsNext, UNCHANGED communityVars
    PROVE  SiteInv'
BY NewAccountsBegin, AddressesBegin, RoleBegins, FailureKeeps, NewAccountWrites, AddressWrites,
   RosterWrites, ConsentWrites, RoleWrites
   DEF AccountsNext

-----------------------------------------------------------------------------
(* Tables in which a row is new, or keeps its writer and its day           *)

LEMMA RowAdded ==
    ASSUME NEW ids, NEW table, NEW new, NEW n \in ids, NEW row,
           table[n] = None, row # None, new[n] = row,
           \A i \in ids \ {n} : new[i] = table[i], IsFiniteSet(Written(table, ids))
    PROVE  /\ Written(new, ids) = Written(table, ids) \cup {n}
           /\ IsFiniteSet(Written(new, ids))
           /\ \A u, d : WrittenBy(u, new, ids, d) =
                IF row.user = u /\ row.day = d THEN WrittenBy(u, table, ids, d) + 1
                                               ELSE WrittenBy(u, table, ids, d)
<1>1. Written(new, ids) = Written(table, ids) \cup {n}
  BY DEF Written
<1>2. IsFiniteSet(Written(new, ids))
  BY <1>1, FS_AddElement
<1>3. ASSUME NEW u, NEW d
      PROVE  WrittenBy(u, new, ids, d) =
                IF row.user = u /\ row.day = d THEN WrittenBy(u, table, ids, d) + 1
                                               ELSE WrittenBy(u, table, ids, d)
  <2>1. PICK S : S = {i \in ids : table[i] # None /\ table[i].user = u /\ table[i].day = d}
    OBVIOUS
  <2>2. PICK T : T = {i \in ids : new[i] # None /\ new[i].user = u /\ new[i].day = d}
    OBVIOUS
  <2>3. WrittenBy(u, table, ids, d) = Cardinality(S) /\ WrittenBy(u, new, ids, d) = Cardinality(T)
    BY <2>1, <2>2 DEF WrittenBy
  <2>4. n \notin S /\ T = IF row.user = u /\ row.day = d THEN S \cup {n} ELSE S
    BY <2>1, <2>2
  <2>5. IsFiniteSet(S)
    BY <2>1, FS_Subset DEF Written
  <2>6. Cardinality(S \cup {n}) = Cardinality(S) + 1
    BY <2>4, <2>5, FS_AddElement
  <2> QED
    BY <2>3, <2>4, <2>6
<1> QED
  BY <1>1, <1>2, <1>3

LEMMA RowsMarked ==
    ASSUME NEW ids, NEW table, NEW new, \A i \in ids : new[i] = None <=> table[i] = None,
           \A i \in Written(table, ids) : new[i].user = table[i].user /\ new[i].day = table[i].day
    PROVE  /\ Written(new, ids) = Written(table, ids)
           /\ \A u, d : WrittenBy(u, new, ids, d) = WrittenBy(u, table, ids, d)
<1>1. Written(new, ids) = Written(table, ids)
  BY DEF Written
<1>2. ASSUME NEW u, NEW d PROVE WrittenBy(u, new, ids, d) = WrittenBy(u, table, ids, d)
  <2>1. {i \in ids : new[i] # None /\ new[i].user = u /\ new[i].day = d}
        = {i \in ids : table[i] # None /\ table[i].user = u /\ table[i].day = d}
    BY DEF Written
  <2> QED
    BY <2>1 DEF WrittenBy
<1> QED
  BY <1>1, <1>2

\* How many rows there are of a writer and a day.
LEMMA WritesAreFinite ==
    ASSUME NEW ids, NEW table, IsFiniteSet(Written(table, ids)), NEW u, NEW d
    PROVE  /\ WrittenBy(u, table, ids, d) \in Nat
           /\ (\A i \in Written(table, ids) : table[i].day # d) => WrittenBy(u, table, ids, d) = 0
<1>1. PICK S : S = {i \in ids : table[i] # None /\ table[i].user = u /\ table[i].day = d}
  OBVIOUS
<1>2. WrittenBy(u, table, ids, d) = Cardinality(S)
  BY <1>1 DEF WrittenBy
<1>3. IsFiniteSet(S)
  BY <1>1, FS_Subset DEF Written
<1>4. (\A i \in Written(table, ids) : table[i].day # d) => S = {}
  BY <1>1 DEF Written
<1> QED
  BY <1>2, <1>3, <1>4, FS_CardinalityType, FS_EmptySet

LEMMA LimitIsNat ==
    ASSUME NEW u \in User
    PROVE  DailyLimit(u) \in Nat
<1>1. PICK s \in Nat : s = Solved[u]
  BY CommunityAssumption
<1>2. PICK k \in Nat : k = s \div DailyPerSolved
  BY <1>1, CommunityAssumption
<1>3. DailyMax \in Nat /\ DailyBase + k \in Nat
  BY CommunityAssumption
<1>4. Min({DailyMax, DailyBase + k}) \in Nat
  BY <1>3, MinOfNats
<1> QED
  BY <1>1, <1>2, <1>4 DEF DailyLimit

-----------------------------------------------------------------------------
(* What the steps of Community keep. The request that ends was the only    *)
(* one about its writer or its comment, or that one was hurried.           *)

LEMMA PostsWritten ==
    ASSUME SiteInv, Nothing, NEW r \in flight, Ends(r), TablesTyped', CommentsCounted', QuotaKept',
           \A u : <<"writer", u>> # r.about => WrittenToday(u)' = WrittenToday(u),
           \A i \in Post : posts[i] # None => posts'[i] # None,
           \A c \in Comment : comments[c] # None =>
              /\ comments'[c] # None
              /\ <<"comment", c>> # r.about => comments'[c].deleted = comments[c].deleted
    PROVE  SiteInv'
<1>1. Onward /\ flight' = flight \ {r} /\ hurried' = hurried
  BY EndGoesOn DEF SiteInv
<1>2. UNCHANGED <<users, emails, roster, created, refused>>
  BY DEF Nothing
<1>3. Account' = Account /\ Admins' = Admins
  BY <1>2 DEF Account, Admins
<1>4. UsersInv'
  BY <1>1, <1>2, UsersStay DEF SiteInv
<1>5. RolesInv'
  BY <1>1, <1>3, RolesStay DEF SiteInv, Onward
<1>6. EmailsInv'
  BY <1>1, <1>2, <1>3, EmailsStay DEF SiteInv
<1>7. ASSUME NEW q \in flight' PROVE PostRequest(q)'
  <2>1. PostRequest(q) /\ q \in flight /\ q # r
    BY <1>1 DEF SiteInv, PostsInv
  <2>2. q.about \notin hurried => q.about # r.about
    BY <2>1 DEF SiteInv, FlightInv
  <2>3. q.kind \in {"post", "comment"} =>
          /\ q.about[2] \in User /\ q.about = <<"writer", q.about[2]>>
          /\ q.about \notin hurried => WrittenToday(q.about[2])' < DailyLimit(q.about[2])
    <3>1. SUFFICES ASSUME q.kind \in {"post", "comment"}
                   PROVE  /\ q.about[2] \in User /\ q.about = <<"writer", q.about[2]>>
                          /\ q.about \notin hurried => WrittenToday(q.about[2])' < DailyLimit(q.about[2])
      OBVIOUS
    <3>2. PICK u : u = q.about[2]
      OBVIOUS
    <3>3. /\ u \in User /\ q.about = <<"writer", u>>
          /\ q.about \notin hurried => WrittenToday(u) < DailyLimit(u)
      BY <2>1, <3>1, <3>2 DEF PostRequest
    <3>4. q.about \notin hurried => WrittenToday(u)' = WrittenToday(u)
      BY <2>2, <3>3
    <3> QED
      BY <3>2, <3>3, <3>4
  <2>4. q.kind \in {"unpost", "comment"} => q.arg.post \in Post /\ posts'[q.arg.post] # None
    BY <2>1 DEF PostRequest
  <2>5. q.kind = "uncomment" =>
          /\ q.arg.comment \in Comment /\ q.about = <<"comment", q.arg.comment>>
          /\ comments'[q.arg.comment] # None
          /\ q.about \notin hurried => ~comments'[q.arg.comment].deleted
    BY <2>1, <2>2 DEF PostRequest
  <2> QED
    BY <1>1, <2>3, <2>4, <2>5 DEF PostRequest, DailyLimit
<1>8. PostsInv'
  BY <1>7 DEF PostsInv
<1> QED
  BY <1>1, <1>4, <1>5, <1>6, <1>8 DEF SiteInv, Onward

LEMMA FirstFree ==
    ASSUME NEW ids \in SUBSET Nat, NEW table, Free(table, ids) # {}
    PROVE  Min(Free(table, ids)) \in ids /\ table[Min(Free(table, ids))] = None
<1>1. Free(table, ids) \in SUBSET Nat
  BY DEF Free
<1>2. Min(Free(table, ids)) \in Free(table, ids)
  BY <1>1, MinOfNats
<1> QED
  BY <1>2 DEF Free

\* Nothing that is counted changes when all comments stay.
LEMMA CountsStay ==
    ASSUME CommentsCounted, comments' = comments, hurried' = hurried,
           \A i \in Post : posts'[i] # None =>
              \/ posts[i] # None /\ posts'[i].count = posts[i].count
              \/ CommentsOf(i) = {} /\ posts'[i].count = 0
    PROVE  CommentsCounted'
<1>1. \A i : CommentsOf(i)' = CommentsOf(i)
  BY DEF CommentsOf
<1>2. ASSUME NEW i \in Post, posts'[i] # None,
             \A c \in CommentsOf(i) : <<"comment", c>> \notin hurried
      PROVE  posts'[i].count = Cardinality({c \in CommentsOf(i) : ~comments[c].deleted})
  <2>1. CASE posts[i] # None /\ posts'[i].count = posts[i].count
    BY <1>2, <2>1 DEF CommentsCounted
  <2>2. CASE CommentsOf(i) = {} /\ posts'[i].count = 0
    <3>1. {c \in CommentsOf(i) : ~comments[c].deleted} = {}
      BY <2>2
    <3> QED
      BY <2>2, <3>1, FS_EmptySet
  <2> QED
    BY <1>2, <2>1, <2>2
<1> QED
  BY <1>1, <1>2 DEF CommentsCounted

LEMMA PostWrites ==
    ASSUME SiteInv, NEW r \in flight, WritePost(r)
    PROVE  SiteInv'
<1>1. PICK n : n = Min(Free(posts, Post))
  OBVIOUS
<1>2. PICK u : u = r.about[2]
  OBVIOUS
<1>3. PICK row : row = [user |-> u, day |-> day, deleted |-> FALSE, count |-> 0]
  OBVIOUS
<1>4. PICK p : p = posts'
  OBVIOUS
<1>5. /\ PostsInv /\ TablesTyped /\ r.about = <<"writer", u>> /\ u \in User
      /\ r.about \notin hurried => WrittenToday(u) < DailyLimit(u)
  BY <1>2 DEF SiteInv, PostsInv, PostRequest, WritePost
<1>6. /\ day \in Nat /\ posts \in [Post -> PostRow \cup {None}]
      /\ IsFiniteSet(Written(posts, Post)) /\ IsFiniteSet(Written(comments, Comment))
  BY <1>5 DEF TablesTyped
<1>7. row \in PostRow /\ row.user = u /\ row.day = day /\ row.count = 0
  BY <1>3, <1>5, <1>6 DEF PostRow
<1>8. row # None
  BY <1>7, RowAssumption
<1>9. n \in Post /\ posts[n] = None
  BY <1>1, FirstFree, CommunityAssumption DEF WritePost
<1>10. p = [posts EXCEPT ![n] = row] /\ comments' = comments /\ day' = day
  BY <1>1, <1>2, <1>3, <1>4 DEF WritePost
<1>11. /\ p \in [Post -> PostRow \cup {None}] /\ p[n] = row
       /\ \A i \in Post \ {n} : p[i] = posts[i]
  BY <1>6, <1>7, <1>9, <1>10
<1>12. /\ Written(p, Post) = Written(posts, Post) \cup {n} /\ IsFiniteSet(Written(p, Post))
       /\ \A w, d : WrittenBy(w, p, Post, d) =
             IF row.user = w /\ row.day = d THEN WrittenBy(w, posts, Post, d) + 1
                                            ELSE WrittenBy(w, posts, Post, d)
  BY <1>6, <1>8, <1>9, <1>11, RowAdded
<1>13. TablesTyped'
  <2>1. \A i \in Written(p, Post) : p[i].day <= day
    BY <1>5, <1>6, <1>7, <1>11, <1>12 DEF TablesTyped, Written
  <2>2. \A c \in Written(comments, Comment) :
           comments[c].day <= day /\ comments[c].post \in Written(p, Post)
    BY <1>5, <1>12 DEF TablesTyped
  <2>3. /\ Written(posts, Post)' = Written(p, Post)
        /\ Written(comments, Comment)' = Written(comments, Comment)
    BY <1>4, <1>10 DEF Written
  <2> QED
    BY <1>4, <1>5, <1>10, <1>11, <1>12, <2>1, <2>2, <2>3 DEF TablesTyped
<1>14. CommentsCounted'
  <2>1. CommentsOf(n) = {}
    BY <1>5, <1>9 DEF TablesTyped, CommentsOf, Written
  <2>2. CommentsCounted /\ hurried' = hurried
    BY <1>5 DEF PostsInv, WritePost, Ends
  <2> QED
    BY <1>4, <1>7, <1>9, <1>10, <1>11, <2>1, <2>2, CountsStay
<1>15. \A w : WrittenToday(w)' = WrittenBy(w, p, Post, day) + WrittenBy(w, comments, Comment, day)
  BY <1>4, <1>10 DEF WrittenToday, WrittenBy
<1>16. \A w : <<"writer", w>> # r.about => WrittenToday(w)' = WrittenToday(w)
  BY <1>5, <1>7, <1>12, <1>15 DEF WrittenToday
<1>17. QuotaKept'
  <2>1. WrittenToday(u)' = WrittenToday(u) + 1
    <3>1. WrittenBy(u, posts, Post, day) \in Nat /\ WrittenBy(u, comments, Comment, day) \in Nat
      BY <1>6, WritesAreFinite
    <3> QED
      BY <1>7, <1>12, <1>15, <3>1 DEF WrittenToday
  <2>2. WrittenToday(u) \in Nat /\ DailyLimit(u) \in Nat
    BY <1>5, <1>6, WritesAreFinite, LimitIsNat DEF WrittenToday
  <2>3. <<"writer", u>> \notin hurried => WrittenToday(u)' <= DailyLimit(u)
    BY <1>5, <2>1, <2>2
  <2>4. \A w \in User : <<"writer", w>> \notin hurried => WrittenToday(w)' <= DailyLimit(w)
    BY <1>5, <1>16, <2>3 DEF PostsInv, QuotaKept
  <2> QED
    BY <2>4 DEF QuotaKept, WritePost, Ends, DailyLimit
<1>18. \A i \in Post : posts[i] # None => posts'[i] # None
  BY <1>4, <1>8, <1>11
<1> QED
  BY <1>10, <1>13, <1>14, <1>16, <1>17, <1>18, PostsWritten DEF WritePost

LEMMA DeletePostWrites ==
    ASSUME SiteInv, NEW r \in flight, WriteDeletePost(r)
    PROVE  SiteInv'
<1>1. PICK n : n = r.arg.post
  OBVIOUS
<1>2. PICK p : p = posts'
  OBVIOUS
<1>3. PostsInv /\ TablesTyped /\ n \in Post /\ posts[n] # None
  BY <1>1 DEF SiteInv, PostsInv, PostRequest, WriteDeletePost
<1>4. day \in Nat /\ posts \in [Post -> PostRow \cup {None}]
  BY <1>3 DEF TablesTyped
<1>5. PICK row : row = [posts[n] EXCEPT !.deleted = TRUE]
  OBVIOUS
<1>6. posts[n] \in PostRow
  BY <1>3, <1>4
<1>7. row \in PostRow /\ row.user = posts[n].user /\ row.day = posts[n].day /\ row.count = posts[n].count
  BY <1>5, <1>6 DEF PostRow
<1>8. row # None
  BY <1>7, RowAssumption
<1>9. p = [posts EXCEPT ![n] = row] /\ comments' = comments /\ day' = day
  BY <1>1, <1>2, <1>5 DEF WriteDeletePost
<1>10. /\ p \in [Post -> PostRow \cup {None}] /\ p[n] = row
       /\ \A i \in Post \ {n} : p[i] = posts[i]
  BY <1>3, <1>4, <1>7, <1>9
<1>11. /\ \A i \in Post : p[i] = None <=> posts[i] = None
       /\ \A i \in Written(posts, Post) : /\ p[i].user = posts[i].user /\ p[i].day = posts[i].day
                                          /\ p[i].count = posts[i].count
  BY <1>3, <1>7, <1>8, <1>10 DEF Written
<1>12. /\ Written(p, Post) = Written(posts, Post)
       /\ \A w, d : WrittenBy(w, p, Post, d) = WrittenBy(w, posts, Post, d)
  BY <1>11, RowsMarked
<1>13. TablesTyped'
  <2>1. /\ Written(posts, Post)' = Written(p, Post)
        /\ Written(comments, Comment)' = Written(comments, Comment)
    BY <1>2, <1>9 DEF Written
  <2>2. \A i \in Written(p, Post) : p[i].day <= day
    BY <1>3, <1>11, <1>12 DEF TablesTyped
  <2>3. /\ comments \in [Comment -> CommentRow \cup {None}] /\ IsFiniteSet(Written(comments, Comment))
        /\ IsFiniteSet(Written(p, Post))
        /\ \A c \in Written(comments, Comment) :
             comments[c].day <= day /\ comments[c].post \in Written(p, Post)
    BY <1>3, <1>12 DEF TablesTyped
  <2> QED
    BY <1>2, <1>4, <1>9, <1>10, <2>1, <2>2, <2>3 DEF TablesTyped
<1>14. CommentsCounted'
  <2>1. CommentsCounted /\ hurried' = hurried
    BY <1>3 DEF PostsInv, WriteDeletePost, Ends
  <2>2. \A i \in Post : posts'[i] # None => posts[i] # None /\ posts'[i].count = posts[i].count
    BY <1>2, <1>11 DEF Written
  <2> QED
    BY <1>9, <2>1, <2>2, CountsStay
<1>15. \A w : WrittenToday(w)' = WrittenBy(w, p, Post, day) + WrittenBy(w, comments, Comment, day)
  BY <1>2, <1>9 DEF WrittenToday, WrittenBy
<1>16. \A w : WrittenToday(w)' = WrittenToday(w)
  BY <1>12, <1>15 DEF WrittenToday
<1>17. QuotaKept'
  BY <1>3, <1>16 DEF PostsInv, QuotaKept, WriteDeletePost, Ends, DailyLimit
<1>18. \A i \in Post : posts[i] # None => posts'[i] # None
  BY <1>2, <1>11
<1> QED
  BY <1>9, <1>13, <1>14, <1>16, <1>17, <1>18, PostsWritten DEF WriteDeletePost

\* What is counted of a solution, with one comment more.
LEMMA CommentCounts ==
    ASSUME SiteInv, NEW r \in flight, WriteComment(r), NEW c \in Comment, comments[c] = None,
           NEW row \in CommentRow, ~row.deleted, row.post = r.arg.post,
           comments' = [comments EXCEPT ![c] = row]
    PROVE  CommentsCounted'
<1>1. PICK n : n = r.arg.post
  OBVIOUS
<1>2. /\ TablesTyped /\ CommentsCounted /\ n \in Post /\ posts[n] # None
      /\ hurried' = hurried
  BY <1>1 DEF SiteInv, PostsInv, PostRequest, WriteComment, Ends
<1>3. posts \in [Post -> PostRow \cup {None}] /\ comments \in [Comment -> CommentRow \cup {None}]
  BY <1>2 DEF TablesTyped
<1>4. row # None
  BY RowAssumption
<1>5. comments'[c] = row /\ \A d \in Comment \ {c} : comments'[d] = comments[d]
  BY <1>3
<1>6. posts[n] \in PostRow /\ posts[n].count \in Nat
  BY <1>2, <1>3 DEF PostRow
<1>7. posts'[n].count = posts[n].count + 1
  BY <1>1, <1>2, <1>3, <1>6 DEF WriteComment, PostRow
<1>8. \A i \in Post \ {n} : posts'[i] = posts[i]
  BY <1>1, <1>2, <1>3 DEF WriteComment
<1>9. CommentsOf(n)' = CommentsOf(n) \cup {c} /\ c \notin CommentsOf(n)
  BY <1>1, <1>4, <1>5 DEF CommentsOf
<1>10. \A i \in Post \ {n} : CommentsOf(i)' = CommentsOf(i) /\ c \notin CommentsOf(i)
  BY <1>1, <1>4, <1>5 DEF CommentsOf
<1>11. ASSUME \A d \in CommentsOf(n)' : <<"comment", d>> \notin hurried
       PROVE  posts'[n].count = Cardinality({d \in CommentsOf(n)' : ~comments'[d].deleted})
  <2>1. PICK S : S = {d \in CommentsOf(n) : ~comments[d].deleted}
    OBVIOUS
  <2>2. posts[n].count = Cardinality(S)
    BY <1>2, <1>9, <1>11, <2>1 DEF CommentsCounted
  <2>3. \A d \in CommentsOf(n) : comments'[d] = comments[d]
    BY <1>5, <1>9 DEF CommentsOf
  <2>4. {d \in CommentsOf(n)' : ~comments'[d].deleted} = S \cup {c}
    BY <1>5, <1>9, <2>1, <2>3
  <2>5. IsFiniteSet(S) /\ c \notin S
    <3>1. S \subseteq Written(comments, Comment)
      BY <2>1 DEF CommentsOf, Written
    <3> QED
      BY <1>2, <1>9, <2>1, <3>1, FS_Subset DEF TablesTyped
  <2>6. Cardinality(S \cup {c}) = Cardinality(S) + 1
    BY <2>5, FS_AddElement
  <2> QED
    BY <1>7, <2>2, <2>4, <2>6
<1>12. ASSUME NEW i \in Post \ {n}, posts'[i] # None,
              \A d \in CommentsOf(i)' : <<"comment", d>> \notin hurried
       PROVE  posts'[i].count = Cardinality({d \in CommentsOf(i)' : ~comments'[d].deleted})
  <2>1. \A d \in CommentsOf(i) : comments'[d] = comments[d]
    BY <1>5, <1>10 DEF CommentsOf
  <2>2. {d \in CommentsOf(i)' : ~comments'[d].deleted} = {d \in CommentsOf(i) : ~comments[d].deleted}
    BY <1>10, <2>1
  <2>3. posts[i].count = Cardinality({d \in CommentsOf(i) : ~comments[d].deleted})
    BY <1>2, <1>8, <1>10, <1>12 DEF CommentsCounted
  <2> QED
    BY <1>8, <2>2, <2>3
<1> QED
  BY <1>2, <1>11, <1>12 DEF CommentsCounted

LEMMA CommentWrites ==
    ASSUME SiteInv, NEW r \in flight, WriteComment(r)
    PROVE  SiteInv'
<1>1. PICK c : c = Min(Free(comments, Comment))
  OBVIOUS
<1>2. PICK u : u = r.about[2]
  OBVIOUS
<1>3. PICK n : n = r.arg.post
  OBVIOUS
<1>4. PICK row : row = [user |-> u, day |-> day, deleted |-> FALSE, post |-> n]
  OBVIOUS
<1>5. PICK p : p = posts'
  OBVIOUS
<1>6. PICK k : k = comments'
  OBVIOUS
<1>7. /\ PostsInv /\ TablesTyped /\ r.about = <<"writer", u>> /\ u \in User
      /\ n \in Post /\ posts[n] # None
      /\ r.about \notin hurried => WrittenToday(u) < DailyLimit(u)
  BY <1>2, <1>3 DEF SiteInv, PostsInv, PostRequest, WriteComment
<1>8. /\ day \in Nat /\ posts \in [Post -> PostRow \cup {None}]
      /\ comments \in [Comment -> CommentRow \cup {None}]
      /\ IsFiniteSet(Written(posts, Post)) /\ IsFiniteSet(Written(comments, Comment))
  BY <1>7 DEF TablesTyped
<1>9. row \in CommentRow /\ row.user = u /\ row.day = day /\ row.post = n /\ ~row.deleted
  BY <1>4, <1>7, <1>8 DEF CommentRow
<1>10. row # None
  BY <1>9, RowAssumption
<1>11. c \in Comment /\ comments[c] = None
  BY <1>1, FirstFree, CommunityAssumption DEF WriteComment
<1>12. k = [comments EXCEPT ![c] = row] /\ day' = day
  BY <1>1, <1>2, <1>3, <1>4, <1>6 DEF WriteComment
<1>13. /\ k \in [Comment -> CommentRow \cup {None}] /\ k[c] = row
       /\ \A d \in Comment \ {c} : k[d] = comments[d]
  BY <1>8, <1>9, <1>11, <1>12
<1>14. PICK rich : rich = [posts[n] EXCEPT !.count = @ + 1]
  OBVIOUS
<1>15. rich \in PostRow /\ rich.user = posts[n].user /\ rich.day = posts[n].day
  <2>1. posts[n] \in PostRow
    BY <1>7, <1>8
  <2>2. posts[n].count + 1 \in Nat
    BY <2>1 DEF PostRow
  <2> QED
    BY <1>14, <2>1, <2>2 DEF PostRow
<1>16. p = [posts EXCEPT ![n] = rich]
  BY <1>3, <1>5, <1>14 DEF WriteComment
<1>17. /\ p \in [Post -> PostRow \cup {None}] /\ p[n] = rich
       /\ \A i \in Post \ {n} : p[i] = posts[i]
  BY <1>7, <1>8, <1>15, <1>16
<1>18. rich # None
  BY <1>15, RowAssumption
<1>19. /\ \A i \in Post : p[i] = None <=> posts[i] = None
       /\ \A i \in Written(posts, Post) : p[i].user = posts[i].user /\ p[i].day = posts[i].day
  BY <1>7, <1>15, <1>17, <1>18 DEF Written
<1>20. /\ Written(p, Post) = Written(posts, Post)
       /\ \A w, d : WrittenBy(w, p, Post, d) = WrittenBy(w, posts, Post, d)
  BY <1>19, RowsMarked
<1>21. /\ Written(k, Comment) = Written(comments, Comment) \cup {c} /\ IsFiniteSet(Written(k, Comment))
       /\ \A w, d : WrittenBy(w, k, Comment, d) =
             IF row.user = w /\ row.day = d THEN WrittenBy(w, comments, Comment, d) + 1
                                            ELSE WrittenBy(w, comments, Comment, d)
  BY <1>8, <1>10, <1>11, <1>13, RowAdded
<1>22. TablesTyped'
  <2>1. \A i \in Written(p, Post) : p[i].day <= day
    BY <1>7, <1>19, <1>20 DEF TablesTyped
  <2>2. \A d \in Written(k, Comment) : k[d].day <= day /\ k[d].post \in Written(p, Post)
    <3>1. k[c].day <= day /\ k[c].post \in Written(posts, Post)
      BY <1>7, <1>8, <1>9, <1>13 DEF Written
    <3>2. \A d \in Written(comments, Comment) : d # c /\ k[d] = comments[d]
      BY <1>11, <1>13 DEF Written
    <3> QED
      BY <1>7, <1>20, <1>21, <3>1, <3>2 DEF TablesTyped
  <2>3. /\ Written(posts, Post)' = Written(p, Post)
        /\ Written(comments, Comment)' = Written(k, Comment)
    BY <1>5, <1>6 DEF Written
  <2> QED
    BY <1>5, <1>6, <1>8, <1>12, <1>13, <1>17, <1>20, <1>21, <2>1, <2>2, <2>3 DEF TablesTyped
<1>23. CommentsCounted'
  BY <1>3, <1>6, <1>9, <1>11, <1>12, CommentCounts
<1>24. \A w : WrittenToday(w)' = WrittenBy(w, p, Post, day) + WrittenBy(w, k, Comment, day)
  BY <1>5, <1>6, <1>12 DEF WrittenToday, WrittenBy
<1>25. \A w : <<"writer", w>> # r.about => WrittenToday(w)' = WrittenToday(w)
  BY <1>7, <1>9, <1>20, <1>21, <1>24 DEF WrittenToday
<1>26. QuotaKept'
  <2>1. WrittenToday(u)' = WrittenToday(u) + 1
    <3>1. WrittenBy(u, posts, Post, day) \in Nat /\ WrittenBy(u, comments, Comment, day) \in Nat
      BY <1>8, WritesAreFinite
    <3> QED
      BY <1>9, <1>20, <1>21, <1>24, <3>1 DEF WrittenToday
  <2>2. WrittenToday(u) \in Nat /\ DailyLimit(u) \in Nat
    BY <1>7, <1>8, WritesAreFinite, LimitIsNat DEF WrittenToday
  <2>3. <<"writer", u>> \notin hurried => WrittenToday(u)' <= DailyLimit(u)
    BY <1>7, <2>1, <2>2
  <2>4. \A w \in User : <<"writer", w>> \notin hurried => WrittenToday(w)' <= DailyLimit(w)
    BY <1>7, <1>25, <2>3 DEF PostsInv, QuotaKept
  <2> QED
    BY <2>4 DEF QuotaKept, WriteComment, Ends, DailyLimit
<1>27. \A i \in Post : posts[i] # None => posts'[i] # None
  BY <1>5, <1>19
<1>28. \A d \in Comment : comments[d] # None => comments'[d] # None /\ comments'[d].deleted = comments[d].deleted
  BY <1>6, <1>11, <1>13
<1> QED
  BY <1>22, <1>23, <1>25, <1>26, <1>27, <1>28, PostsWritten DEF WriteComment

LEMMA OneLess ==
    ASSUME NEW k \in Nat
    PROVE  Max({k - 1, 0}) \in Nat /\ (k # 0 => Max({k - 1, 0}) = k - 1)
<1>1. PICK m : m = Max({k - 1, 0})
  OBVIOUS
<1>2. \E x \in {k - 1, 0} : \A y \in {k - 1, 0} : x >= y
  <2>1. CASE k = 0
    BY <2>1
  <2>2. CASE k # 0
    BY <2>2
  <2> QED
    BY <2>1, <2>2
<1>3. m \in {k - 1, 0} /\ \A y \in {k - 1, 0} : m >= y
  BY <1>1, <1>2, Zenon DEF Max
<1> QED
  BY <1>1, <1>3

\* What is counted of a solution, with one comment less.
LEMMA DeletedCommentCounts ==
    ASSUME SiteInv, NEW r \in flight, WriteDeleteComment(r),
           NEW c \in Comment, c = r.arg.comment, NEW n \in Post, n = comments[c].post,
           comments'[c].post = n, comments'[c] # None, comments'[c].deleted,
           \A d \in Comment \ {c} : comments'[d] = comments[d],
           posts[n] # None => posts'[n].count = Max({posts[n].count - 1, 0}),
           \A i \in Post : posts'[i] # None => posts[i] # None,
           \A i \in Post \ {n} : posts'[i] = posts[i]
    PROVE  CommentsCounted'
<1>1. /\ TablesTyped /\ CommentsCounted /\ hurried' = hurried /\ comments[c] # None
      /\ <<"comment", c>> \notin hurried => ~comments[c].deleted
  BY DEF SiteInv, PostsInv, PostRequest, WriteDeleteComment, Ends
<1>2. \A i \in Post : CommentsOf(i)' = CommentsOf(i)
  <2>1. ASSUME NEW i \in Post, NEW d \in Comment
        PROVE  (comments'[d] # None /\ comments'[d].post = i) <=> (comments[d] # None /\ comments[d].post = i)
    <3>1. CASE d = c
      BY <1>1, <3>1
    <3>2. CASE d # c
      BY <3>2
    <3> QED
      BY <3>1, <3>2
  <2> QED
    BY <2>1 DEF CommentsOf
<1>3. ASSUME posts'[n] # None, \A d \in CommentsOf(n) : <<"comment", d>> \notin hurried
      PROVE  posts'[n].count = Cardinality({d \in CommentsOf(n) : ~comments'[d].deleted})
  <2>1. PICK S : S = {d \in CommentsOf(n) : ~comments[d].deleted}
    OBVIOUS
  <2>2. c \in CommentsOf(n)
    BY <1>1 DEF CommentsOf
  <2>3. c \in S
    BY <1>1, <1>3, <2>1, <2>2
  <2>4. posts[n].count = Cardinality(S)
    BY <1>1, <1>3, <2>1 DEF CommentsCounted
  <2>5. {d \in CommentsOf(n) : ~comments'[d].deleted} = S \ {c}
    BY <2>1 DEF CommentsOf
  <2>6. IsFiniteSet(S)
    <3>1. S \subseteq Written(comments, Comment)
      BY <2>1 DEF CommentsOf, Written
    <3> QED
      BY <1>1, <3>1, FS_Subset DEF TablesTyped
  <2>7. Cardinality(S) \in Nat /\ Cardinality(S) # 0
    BY <2>3, <2>6, FS_CardinalityType, FS_EmptySet
  <2>8. Cardinality(S \ {c}) = Cardinality(S) - 1
    BY <2>3, <2>6, FS_RemoveElement
  <2>9. Max({Cardinality(S) - 1, 0}) = Cardinality(S) - 1
    BY <2>7, OneLess
  <2>10. posts'[n].count = Max({posts[n].count - 1, 0})
    BY <1>3
  <2> QED
    BY <2>4, <2>5, <2>8, <2>9, <2>10
<1>4. ASSUME NEW i \in Post \ {n}, posts'[i] # None,
             \A d \in CommentsOf(i) : <<"comment", d>> \notin hurried
      PROVE  posts'[i].count = Cardinality({d \in CommentsOf(i) : ~comments'[d].deleted})
  <2>1. \A d \in CommentsOf(i) : comments'[d] = comments[d]
    BY DEF CommentsOf
  <2>2. {d \in CommentsOf(i) : ~comments'[d].deleted} = {d \in CommentsOf(i) : ~comments[d].deleted}
    BY <2>1
  <2>3. posts[i].count = Cardinality({d \in CommentsOf(i) : ~comments[d].deleted})
    BY <1>1, <1>4 DEF CommentsCounted
  <2> QED
    BY <2>2, <2>3
<1>5. ASSUME NEW i \in Post, posts'[i] # None,
             \A d \in CommentsOf(i)' : <<"comment", d>> \notin hurried'
      PROVE  posts'[i].count = Cardinality({d \in CommentsOf(i)' : ~comments'[d].deleted})
  <2>1. posts'[i].count = Cardinality({d \in CommentsOf(i) : ~comments'[d].deleted})
    <3>1. \A d \in CommentsOf(i) : <<"comment", d>> \notin hurried
      BY <1>1, <1>2, <1>5
    <3>2. CASE i = n
      BY <1>3, <1>5, <3>1, <3>2
    <3>3. CASE i # n
      BY <1>4, <1>5, <3>1, <3>3
    <3> QED
      BY <3>2, <3>3
  <2>2. CommentsOf(i)' = CommentsOf(i)
    BY <1>2
  <2> QED
    BY <2>1, <2>2
<1> QED
  BY <1>5 DEF CommentsCounted

LEMMA DeleteCommentWrites ==
    ASSUME SiteInv, NEW r \in flight, WriteDeleteComment(r)
    PROVE  SiteInv'
<1>1. PICK c : c = r.arg.comment
  OBVIOUS
<1>2. PICK n : n = comments[c].post
  OBVIOUS
<1>3. PICK p : p = posts'
  OBVIOUS
<1>4. PICK k : k = comments'
  OBVIOUS
<1>5. /\ PostsInv /\ TablesTyped /\ c \in Comment /\ comments[c] # None
      /\ r.about = <<"comment", c>>
  BY <1>1 DEF SiteInv, PostsInv, PostRequest, WriteDeleteComment
<1>6. /\ posts \in [Post -> PostRow \cup {None}] /\ comments \in [Comment -> CommentRow \cup {None}]
      /\ n \in Post /\ posts[n] # None
  BY <1>2, <1>5 DEF TablesTyped, Written
<1>7. comments[c] \in CommentRow /\ posts[n] \in PostRow
  BY <1>5, <1>6
<1>8. PICK gone : gone = [comments[c] EXCEPT !.deleted = TRUE]
  OBVIOUS
<1>9. gone \in CommentRow /\ gone.user = comments[c].user /\ gone.day = comments[c].day
  BY <1>7, <1>8 DEF CommentRow
<1>10. gone.post = n /\ gone.deleted
  BY <1>2, <1>7, <1>8 DEF CommentRow
<1>11. k = [comments EXCEPT ![c] = gone] /\ day' = day
  BY <1>1, <1>4, <1>8 DEF WriteDeleteComment
<1>12. /\ k \in [Comment -> CommentRow \cup {None}] /\ k[c] = gone
       /\ \A d \in Comment \ {c} : k[d] = comments[d]
  BY <1>5, <1>6, <1>9, <1>11
<1>13. PICK less : less = Max({posts[n].count - 1, 0})
  OBVIOUS
<1>14. less \in Nat
  <2>1. posts[n].count \in Nat
    BY <1>7 DEF PostRow
  <2> QED
    BY <1>13, <2>1, OneLess
<1>15. PICK poor : poor = [posts[n] EXCEPT !.count = less]
  OBVIOUS
<1>16. /\ poor \in PostRow /\ poor.user = posts[n].user /\ poor.day = posts[n].day
       /\ poor.count = less
  BY <1>7, <1>14, <1>15 DEF PostRow
<1>17. p = [posts EXCEPT ![n] = poor]
  BY <1>1, <1>2, <1>3, <1>13, <1>15 DEF WriteDeleteComment
<1>18. /\ p \in [Post -> PostRow \cup {None}] /\ p[n] = poor
       /\ \A i \in Post \ {n} : p[i] = posts[i]
  BY <1>6, <1>16, <1>17
<1>19. poor # None /\ gone # None
  BY <1>9, <1>16, RowAssumption
<1>20. /\ \A i \in Post : p[i] = None <=> posts[i] = None
       /\ \A i \in Written(posts, Post) : p[i].user = posts[i].user /\ p[i].day = posts[i].day
  BY <1>6, <1>16, <1>18, <1>19 DEF Written
<1>21. /\ \A d \in Comment : k[d] = None <=> comments[d] = None
       /\ \A d \in Written(comments, Comment) : k[d].user = comments[d].user /\ k[d].day = comments[d].day
  BY <1>5, <1>9, <1>12, <1>19 DEF Written
<1>22. /\ Written(p, Post) = Written(posts, Post)
       /\ \A w, d : WrittenBy(w, p, Post, d) = WrittenBy(w, posts, Post, d)
  BY <1>20, RowsMarked
<1>23. /\ Written(k, Comment) = Written(comments, Comment)
       /\ \A w, d : WrittenBy(w, k, Comment, d) = WrittenBy(w, comments, Comment, d)
  BY <1>21, RowsMarked
<1>24. TablesTyped'
  <2>1. \A d \in Written(comments, Comment) : k[d].post = comments[d].post
    BY <1>2, <1>10, <1>12 DEF Written
  <2>2. /\ Written(posts, Post)' = Written(p, Post)
        /\ Written(comments, Comment)' = Written(k, Comment)
    BY <1>3, <1>4 DEF Written
  <2>3. \A i \in Written(p, Post) : p[i].day <= day
    BY <1>5, <1>20, <1>22 DEF TablesTyped
  <2>4. \A d \in Written(k, Comment) : k[d].day <= day /\ k[d].post \in Written(p, Post)
    BY <1>5, <1>21, <1>22, <1>23, <2>1 DEF TablesTyped
  <2> QED
    BY <1>3, <1>4, <1>5, <1>11, <1>12, <1>18, <1>22, <1>23, <2>2, <2>3, <2>4 DEF TablesTyped
<1>25. CommentsCounted'
  <2>1. comments'[c].post = n /\ comments'[c] # None /\ comments'[c].deleted
    BY <1>4, <1>10, <1>12, <1>19
  <2>2. posts'[n].count = Max({posts[n].count - 1, 0})
    BY <1>3, <1>13, <1>16, <1>18
  <2>3. /\ \A d \in Comment \ {c} : comments'[d] = comments[d]
        /\ \A i \in Post \ {n} : posts'[i] = posts[i]
        /\ \A i \in Post : posts'[i] # None => posts[i] # None
    BY <1>3, <1>4, <1>12, <1>18, <1>20
  <2>4. c \in Comment /\ c = r.arg.comment /\ n \in Post /\ n = comments[c].post
    BY <1>1, <1>2, <1>5, <1>6
  <2> QED
    BY <2>1, <2>2, <2>3, <2>4, DeletedCommentCounts
<1>26. \A w : WrittenToday(w)' = WrittenBy(w, p, Post, day) + WrittenBy(w, k, Comment, day)
  BY <1>3, <1>4, <1>11 DEF WrittenToday, WrittenBy
<1>27. \A w : WrittenToday(w)' = WrittenToday(w)
  BY <1>22, <1>23, <1>26 DEF WrittenToday
<1>28. QuotaKept'
  BY <1>5, <1>27 DEF PostsInv, QuotaKept, WriteDeleteComment, Ends, DailyLimit
<1>29. \A i \in Post : posts[i] # None => posts'[i] # None
  BY <1>3, <1>20
<1>30. \A d \in Comment : comments[d] # None =>
          /\ comments'[d] # None
          /\ <<"comment", d>> # r.about => comments'[d].deleted = comments[d].deleted
  BY <1>4, <1>5, <1>12, <1>21
<1> QED
  BY <1>24, <1>25, <1>27, <1>28, <1>29, <1>30, PostsWritten DEF WriteDeleteComment

LEMMA DayPasses ==
    ASSUME SiteInv, NextDay
    PROVE  SiteInv'
<1>1. /\ Nothing /\ UNCHANGED <<flight, served, hurried, posts, comments>> /\ day' = day + 1
      /\ PostsInv /\ TablesTyped
  BY DEF NextDay, SiteInv, PostsInv
<1>2. /\ day \in Nat /\ IsFiniteSet(Written(posts, Post)) /\ IsFiniteSet(Written(comments, Comment))
      /\ posts \in [Post -> PostRow \cup {None}] /\ comments \in [Comment -> CommentRow \cup {None}]
  BY <1>1 DEF TablesTyped
<1>3. /\ \A i \in Written(posts, Post) : posts[i].day \in Int /\ posts[i].day <= day
      /\ \A c \in Written(comments, Comment) : comments[c].day \in Int /\ comments[c].day <= day
  BY <1>1, <1>2 DEF TablesTyped, Written, PostRow, CommentRow
<1>4. \A u : WrittenBy(u, posts, Post, day + 1) = 0 /\ WrittenBy(u, comments, Comment, day + 1) = 0
  BY <1>2, <1>3, WritesAreFinite
<1>5. \A u : WrittenToday(u)' = WrittenBy(u, posts, Post, day + 1) + WrittenBy(u, comments, Comment, day + 1)
  BY <1>1 DEF WrittenToday, WrittenBy
<1>6. \A u : WrittenToday(u)' = 0
  BY <1>4, <1>5
<1>7. \A u : WrittenToday(u) \in Nat
  BY <1>2, WritesAreFinite DEF WrittenToday
<1>8. TablesTyped'
  <2>1. /\ Written(posts, Post)' = Written(posts, Post)
        /\ Written(comments, Comment)' = Written(comments, Comment)
    BY <1>1 DEF Written
  <2>2. /\ \A i \in Written(posts, Post) : posts[i].day <= day + 1
        /\ \A c \in Written(comments, Comment) : comments[c].day <= day + 1
    BY <1>2, <1>3
  <2> QED
    BY <1>1, <1>2, <2>1, <2>2 DEF TablesTyped
<1>9. CommentsCounted'
  <2>1. CommentsCounted /\ \A i : CommentsOf(i)' = CommentsOf(i)
    BY <1>1 DEF PostsInv, CommentsOf
  <2> QED
    BY <1>1, <2>1 DEF CommentsCounted
<1>10. QuotaKept'
  <2>1. \A u \in User : 0 <= DailyLimit(u)
    BY LimitIsNat
  <2> QED
    BY <1>6, <2>1 DEF QuotaKept, DailyLimit
<1>11. ASSUME NEW q \in flight' PROVE PostRequest(q)'
  <2>1. PostRequest(q)
    BY <1>1 DEF PostsInv
  <2>2. \A u \in User : WrittenToday(u) < DailyLimit(u) => WrittenToday(u)' < DailyLimit(u)
    BY <1>6, <1>7, LimitIsNat
  <2>3. PICK u : u = q.about[2]
    OBVIOUS
  <2>4. q.kind \in {"post", "comment"} =>
          /\ u \in User /\ q.about = <<"writer", u>>
          /\ q.about \notin hurried => WrittenToday(u)' < DailyLimit(u)
    BY <2>1, <2>2, <2>3 DEF PostRequest
  <2>5. /\ q.kind \in {"unpost", "comment"} => q.arg.post \in Post /\ posts[q.arg.post] # None
        /\ q.kind = "uncomment" =>
             /\ q.arg.comment \in Comment /\ q.about = <<"comment", q.arg.comment>>
             /\ comments[q.arg.comment] # None
             /\ q.about \notin hurried => ~comments[q.arg.comment].deleted
    BY <2>1 DEF PostRequest
  <2> QED
    BY <1>1, <2>3, <2>4, <2>5 DEF PostRequest, DailyLimit
<1>12. PostsInv'
  BY <1>8, <1>9, <1>10, <1>11 DEF PostsInv
<1>13. Onward
  BY <1>1, QuietGoesOn DEF SiteInv, Quiet
<1>14. UNCHANGED <<users, emails, roster, created, refused>> /\ Account' = Account /\ Admins' = Admins
  BY <1>1 DEF Nothing, Account, Admins
<1>15. UsersInv' /\ RolesInv' /\ EmailsInv'
  BY <1>1, <1>13, <1>14, UsersStay, RolesStay, EmailsStay DEF SiteInv, Onward
<1> QED
  BY <1>12, <1>13, <1>15 DEF SiteInv, Onward

LEMMA CommunityKeeps ==
    ASSUME SiteInv, CommunityNext
    PROVE  SiteInv'
BY PostsBegin, PostWrites, DeletePostWrites, CommentWrites, DeleteCommentWrites, DayPasses
   DEF CommunityNext

-----------------------------------------------------------------------------
(* Behaviours *)

LEMMA BeginsSound == Init => SiteInv
<1>1. SUFFICES ASSUME Init PROVE SiteInv
  OBVIOUS
<1>2. PICK t \in Tables0 : users = t.users /\ emails = t.emails /\ posts = t.posts /\ comments = t.comments
  BY <1>1 DEF Init
<1>3. AtRest(t)
  BY TablesAssumption
<1>4. /\ flight = {} /\ served = 0 /\ hurried = {} /\ day = 0
      /\ roster = {} /\ created = {} /\ refused = {}
  BY <1>1 DEF Init
<1>5. FlightInv
  BY <1>4 DEF FlightInv
<1>6. UsersInv
  BY <1>2, <1>3, <1>4 DEF AtRest, UsersInv, RosterTold, Account
<1>7. RolesInv
  BY <1>2, <1>3, <1>4 DEF AtRest, RolesInv, Admins, Account
<1>8. EmailsInv
  <2>1. /\ emails \subseteq AddressRow /\ IsFiniteSet(emails)
        /\ \A e, f \in emails : e.email = f.email \/ e.id = f.id => e = f
    BY <1>2, <1>3 DEF AtRest
  <2>2. \A e \in emails : e.user \in Account /\ e.id < 0
    BY <1>2, <1>3 DEF AtRest, Account
  <2>3. \A e \in emails : Spent(e.id)
    BY <1>4, <2>1, <2>2 DEF Spent, AddressRow
  <2>4. ASSUME NEW u \in Account PROVE AddressesRight(u)
    <3>1. u \in User /\ t.users[u] # None /\ EmailsOf(u) = {e \in t.emails : e.user = u}
      BY <1>2 DEF Account, EmailsOf
    <3>2. PICK S : S = {e \in t.emails : e.user = u}
      OBVIOUS
    <3>3. Cardinality(S) <= MaxEmails /\ \E p \in S : p.primary /\ \A e \in S \ {p} : ~e.primary
      <4>1. \A w \in {v \in User : t.users[v] # None} :
              /\ Cardinality({e \in t.emails : e.user = w}) <= MaxEmails
              /\ \E p \in {e \in t.emails : e.user = w} :
                    p.primary /\ \A e \in {f \in t.emails : f.user = w} \ {p} : ~e.primary
        BY <1>3, Zenon DEF AtRest
      <4> QED
        BY <3>1, <3>2, <4>1
    <3> QED
      BY <3>1, <3>2, <3>3 DEF AddressesRight
  <2> QED
    BY <1>4, <2>1, <2>2, <2>3, <2>4 DEF EmailsInv
<1>9. PostsInv
  <2>1. TablesTyped
    BY <1>2, <1>3, <1>4 DEF AtRest, TablesTyped, Written
  <2>2. CommentsCounted
    <3>1. ASSUME NEW i \in Post, posts[i] # None
          PROVE  posts[i].count = Cardinality({c \in CommentsOf(i) : ~comments[c].deleted})
      <4>1. CommentsOf(i) = {c \in Written(comments, Comment) : comments[c].post = i}
        BY DEF CommentsOf, Written
      <4> QED
        BY <1>2, <1>3, <3>1, <4>1 DEF AtRest, Written
    <3> QED
      BY <3>1 DEF CommentsCounted
  <2>3. QuotaKept
    <3>1. \A u \in User : WrittenBy(u, posts, Post, 0) + WrittenBy(u, comments, Comment, 0) <= DailyLimit(u)
      BY <1>2, <1>3 DEF AtRest
    <3> QED
      BY <1>4, <3>1 DEF QuotaKept, WrittenToday
  <2> QED
    BY <1>4, <2>1, <2>2, <2>3 DEF PostsInv
<1> QED
  BY <1>5, <1>6, <1>7, <1>8, <1>9 DEF SiteInv

LEMMA SiteGoesOn == SiteInv /\ [Next]_vars => SiteInv'
<1>1. ASSUME SiteInv, UNCHANGED vars PROVE SiteInv'
  <2>1. Nothing /\ UNCHANGED communityVars /\ Quiet
    BY <1>1 DEF vars, accountVars, communityVars, Nothing, Quiet
  <2>2. Onward
    BY <1>1, <2>1, QuietGoesOn DEF SiteInv
  <2> QED
    BY <1>1, <2>1, <2>2, TablesStay DEF Quiet
<1> QED
  BY <1>1, AccountsKeep, CommunityKeeps DEF Next

\* What AddressesRight says in numbers.
LEMMA AddressesCounted ==
    ASSUME NEW u, IsFiniteSet(emails), AddressesRight(u)
    PROVE  /\ Cardinality(EmailsOf(u)) \in 1 .. MaxEmails
           /\ Cardinality({e \in EmailsOf(u) : e.primary}) = 1
<1>1. PICK p \in EmailsOf(u) : p.primary /\ \A e \in EmailsOf(u) \ {p} : ~e.primary
  BY DEF AddressesRight
<1>2. IsFiniteSet(EmailsOf(u))
  BY FS_Subset DEF EmailsOf
<1>3. Cardinality(EmailsOf(u)) \in Nat /\ Cardinality(EmailsOf(u)) # 0
  BY <1>1, <1>2, FS_CardinalityType, FS_EmptySet
<1>4. Cardinality(EmailsOf(u)) <= MaxEmails /\ MaxEmails \in Nat
  BY AccountsAssumption DEF AddressesRight
<1>5. {e \in EmailsOf(u) : e.primary} = {p}
  BY <1>1
<1>6. Cardinality({e \in EmailsOf(u) : e.primary}) = 1
  BY <1>5, FS_Singleton
<1>7. Cardinality(EmailsOf(u)) \in 1 .. MaxEmails
  BY <1>3, <1>4
<1> QED
  BY <1>6, <1>7

LEMMA SiteSound == SiteInv => AccountsSound /\ CommunitySound
<1>1. SUFFICES ASSUME SiteInv PROVE AccountsSound /\ CommunitySound
  OBVIOUS
<1>2. EmailsSound
  <2>1. \A u, w \in Account : users[u].handle = users[w].handle => u = w
    BY <1>1 DEF SiteInv, UsersInv
  <2>2. /\ \A e, f \in emails : e.email = f.email => e = f
        /\ \A e \in emails : e.user \in Account
    BY <1>1 DEF SiteInv, EmailsInv
  <2>3. \A u \in Account : <<"user", u>> \notin hurried =>
          /\ Cardinality(EmailsOf(u)) \in 1 .. MaxEmails
          /\ Cardinality({e \in EmailsOf(u) : e.primary}) = 1
    BY <1>1, AddressesCounted DEF SiteInv, EmailsInv
  <2> QED
    BY <2>1, <2>2, <2>3 DEF EmailsSound
<1>3. AdminRemains /\ RosterTold
  BY <1>1 DEF SiteInv, RolesInv, UsersInv, AdminRemains
<1> QED
  BY <1>1, <1>2, <1>3 DEF AccountsSound, CommunitySound, SiteInv, PostsInv

LEMMA SiteKept == Spec => []SiteInv
  BY BeginsSound, SiteGoesOn, PTL DEF Spec

\* Whatever requests overlap, no two accounts have one handle or one address and a roster
\* tells of accounts that are there; an account whose own requests do not overlap keeps
\* one primary address and no more than MaxEmails, and roles that are changed one at a
\* time leave an administrator (auth.ts 120-259, meta.ts 115-118).
THEOREM AccountsKept == Spec => []AccountsSound
  BY SiteKept, SiteSound, PTL

\* A solution's number of comments is that of the comments that are shown, and nobody
\* writes more in a day than his limit, as long as no two requests about the comment or
\* of the writer overlap (solutions.ts).
THEOREM CommunityKept == Spec => []CommunitySound
  BY SiteKept, SiteSound, PTL
=============================================================================
