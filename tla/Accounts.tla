----------------------------- MODULE Accounts -----------------------------
(***************************************************************************)
(* Accounts, their e-mail addresses, roles and consents, and the requests  *)
(* that change them: apps/api/src/routes/auth.ts, the roster of a          *)
(* collection (routes/collections.ts), the roles in routes/meta.ts and     *)
(* scripts/set-role.ts. A request reads and decides, and writes in a later *)
(* transaction; the unique indexes of the database have the last word. The *)
(* requests in flight are those of every module that extends this one.     *)
(***************************************************************************)
EXTENDS Integers, FiniteSets, FiniteSetsExt

CONSTANTS
    User,        \* ids of accounts, in the order of their creation
    Handle,      \* handles in lower case
    Email,       \* addresses in lower case
    None,
    MaxEmails,   \* MAX_EMAILS
    MaxFlight,   \* bound: requests in flight
    MaxRequests  \* bound: requests altogether

ASSUME AccountsAssumption ==
    /\ User \subseteq Nat
    /\ MaxEmails \in Nat \ {0} /\ {MaxFlight, MaxRequests} \subseteq Nat

AccountRow == [handle : Handle, role : {"user", "staff", "admin"}, consents : BOOLEAN]
AddressRow == [id : Int, user : User, email : Email, primary : BOOLEAN]

ASSUME NoneAssumption == None \notin Int \cup AccountRow

VARIABLES
    users,     \* the row of each id, with whether a consent is in force, or None
    emails,    \* user_emails
    roster,    \* members of the collection that rosters are sent to
    created,   \* handles that a roster's answer lists as created, with a password
    refused,   \* handles that it lists among the errors
    flight,    \* requests in flight
    served,    \* requests so far
    hurried    \* history: what overlapping requests were about

accountVars == <<users, emails, roster, created, refused, hurried>>

Account == {u \in User : users[u] # None}
EmailsOf(u) == {e \in emails : e.user = u}
Admins == {u \in Account : users[u].role = "admin"}
IsStaff(u) == users[u].role \in {"staff", "admin"}
HandleTaken(h) == \E u \in Account : users[u].handle = h
EmailTaken(a) == \E e \in emails : e.email = a

-----------------------------------------------------------------------------
(* Requests. What two of them that overlap are about is remembered: a pair *)
(* <<"user", u>>, <<"writer", u>>, <<"post", i>>, <<"comment", c>>, or one *)
(* of these two.                                                           *)

NewAccounts == <<"new", 0>>
Roles == <<"roles", 0>>

Begin(kind, about, arg) ==
    /\ served < MaxRequests /\ Cardinality(flight) < MaxFlight
    /\ served' = served + 1
    /\ flight' = flight \cup {[id |-> served, kind |-> kind, about |-> about, arg |-> arg]}
    /\ hurried' = hurried \cup {r.about : r \in {q \in flight : q.about = about}}

Ends(r) == flight' = flight \ {r} /\ UNCHANGED <<served, hurried>>

Nothing == UNCHANGED <<users, emails, roster, created, refused>>

\* The transaction of a request fails, the process or the connection ends.
RequestFails(r) == r.kind # "roster" /\ Ends(r) /\ Nothing

NextUser == Min(User \ Account)

NewUser(h, role) == [handle |-> h, role |-> role, consents |-> FALSE]

Address(id, u, a, primary) == [id |-> id, user |-> u, email |-> a, primary |-> primary]

NewAccount(id, h, a, consents) ==
    /\ Account # User /\ ~HandleTaken(h) /\ ~EmailTaken(a)
    /\ users' = [users EXCEPT ![NextUser] = [NewUser(h, "user") EXCEPT !.consents = consents]]
    /\ emails' = emails \cup {Address(id, NextUser, a, TRUE)}

\* POST /register
BeginRegister(h, a, granted) ==
    /\ ~HandleTaken(h) /\ ~EmailTaken(a)
    /\ Begin("register", NewAccounts, [handle |-> h, email |-> a, granted |-> granted])
    /\ Nothing

WriteRegister(r) ==
    /\ r.kind = "register"
    /\ NewAccount(r.id, r.arg.handle, r.arg.email, r.arg.granted)
    /\ Ends(r)
    /\ UNCHANGED <<roster, created, refused>>

RoomForEmail(u) == Cardinality(EmailsOf(u)) < MaxEmails

\* POST /emails
BeginAddEmail(u, a) ==
    /\ u \in Account /\ RoomForEmail(u) /\ ~EmailTaken(a)
    /\ Begin("add", <<"user", u>>, [new |-> a])
    /\ Nothing

WriteAddEmail(r) ==
    /\ r.kind = "add" /\ ~EmailTaken(r.arg.new)
    /\ emails' = emails \cup {Address(r.id, r.about[2], r.arg.new, FALSE)}
    /\ Ends(r)
    /\ UNCHANGED <<users, roster, created, refused>>

PrimaryOf(u, id) ==
    {IF e.user # u THEN e ELSE [e EXCEPT !.primary = e.id = id] : e \in emails}

\* PATCH /emails/:id/primary
BeginPrimary(e) ==
    Begin("primary", <<"user", e.user>>, [email |-> e.id]) /\ Nothing

WritePrimary(r) ==
    /\ r.kind = "primary"
    /\ emails' = PrimaryOf(r.about[2], r.arg.email)
    /\ Ends(r)
    /\ UNCHANGED <<users, roster, created, refused>>

\* DELETE /emails/:id: which address follows the primary one is chosen before the
\* transaction.
BeginDeleteEmail(e) ==
    /\ Cardinality(EmailsOf(e.user)) > 1
    /\ \E f \in EmailsOf(e.user) \ {e} :
        Begin("delete", <<"user", e.user>>,
              [email |-> e.id, next |-> IF e.primary THEN f.id ELSE None])
    /\ Nothing

WriteDeleteEmail(r) ==
    /\ r.kind = "delete"
    /\ emails' = {IF e.id = r.arg.next THEN [e EXCEPT !.primary = TRUE] ELSE e :
                  e \in {f \in emails : f.id # r.arg.email}}
    /\ Ends(r)
    /\ UNCHANGED <<users, roster, created, refused>>

\* PUT /consent/research, each way one statement.
GrantConsent(u) ==
    /\ u \in Account /\ served < MaxRequests /\ served' = served + 1
    /\ users' = [users EXCEPT ![u].consents = TRUE]
    /\ UNCHANGED <<emails, roster, created, refused, flight, hurried>>

RevokeConsent(u) ==
    /\ u \in Account /\ served < MaxRequests /\ served' = served + 1
    /\ users' = [users EXCEPT ![u].consents = FALSE]
    /\ UNCHANGED <<emails, roster, created, refused, flight, hurried>>

-----------------------------------------------------------------------------
(* A line of a roster: one transaction that reads, then makes or finds the account *)

OwnerOfEmail(a) == {e.user : e \in {f \in emails : f.email = a}}
OwnerOfHandle(h) == {u \in Account : users[u].handle = h}

BeginRoster(h, a) ==
    /\ Cardinality(OwnerOfEmail(a) \cup OwnerOfHandle(h)) <= 1
    /\ Begin("roster", NewAccounts,
             [handle |-> h, email |-> a, owner |-> OwnerOfEmail(a) \cup OwnerOfHandle(h)])
    /\ Nothing

\* The two belong to different accounts: an error of the line.
RosterMismatch(h, a) ==
    /\ Cardinality(OwnerOfEmail(a) \cup OwnerOfHandle(h)) = 2
    /\ served < MaxRequests /\ served' = served + 1
    /\ refused' = refused \cup {h}
    /\ UNCHANGED <<users, emails, roster, created, flight, hurried>>

WriteRosterNew(r) ==
    /\ r.kind = "roster" /\ r.arg.owner = {}
    /\ NewAccount(r.id, r.arg.handle, r.arg.email, FALSE)
    /\ roster' = roster \cup {NextUser}
    /\ created' = created \cup {r.arg.handle}
    /\ Ends(r)
    /\ UNCHANGED refused

WriteRosterLinked(r) ==
    /\ r.kind = "roster" /\ r.arg.owner # {}
    /\ roster' = roster \cup r.arg.owner
    /\ Ends(r)
    /\ UNCHANGED <<users, emails, created, refused>>

\* The transaction is rolled back; the line is an error, and a new account may already be
\* in the list of those that were made.
RosterFails(r) ==
    /\ r.kind = "roster"
    /\ refused' = refused \cup {r.arg.handle}
    /\ \/ created' = created
       \/ r.arg.owner = {} /\ created' = created \cup {r.arg.handle}
    /\ Ends(r)
    /\ UNCHANGED <<users, emails, roster>>

-----------------------------------------------------------------------------
(* Roles *)

DemoteAnybody(me, u, role) == TRUE  \* mutant: one's own role can be lowered
NotMyself(me, u, role) == me = u => role = "admin"

\* PATCH /admin/users/:id/role: the role of the one who asks was read with the request.
BeginRole(me, u, role) ==
    /\ me \in Admins /\ u \in Account /\ NotMyself(me, u, role)
    /\ Begin("role", Roles, [user |-> u, role |-> role])
    /\ Nothing

WriteRole(r) ==
    /\ r.kind = "role"
    /\ users' = [users EXCEPT ![r.arg.user].role = r.arg.role]
    /\ Ends(r)
    /\ UNCHANGED <<emails, roster, created, refused>>

\* scripts/set-role.ts asks nobody.
SetRole(u, role) ==
    /\ u \in Account /\ served < MaxRequests /\ served' = served + 1
    /\ users' = [users EXCEPT ![u].role = role]
    /\ hurried' = hurried \cup {Roles}
    /\ UNCHANGED <<emails, roster, created, refused, flight>>

-----------------------------------------------------------------------------
AccountsNext ==
    \/ \E h \in Handle, a \in Email :
        \/ \E granted \in BOOLEAN : BeginRegister(h, a, granted)
        \/ BeginRoster(h, a) \/ RosterMismatch(h, a)
    \/ \E u \in User, a \in Email : BeginAddEmail(u, a)
    \/ \E e \in emails : BeginPrimary(e) \/ BeginDeleteEmail(e)
    \/ \E u \in User : GrantConsent(u) \/ RevokeConsent(u)
    \/ \E u \in User, role \in {"user", "admin"} :
        \/ \E me \in User : BeginRole(me, u, role)
        \/ SetRole(u, role)
    \/ \E r \in flight :
        \/ WriteRegister(r)    \/ WriteAddEmail(r)  \/ WritePrimary(r)
        \/ WriteDeleteEmail(r) \/ WriteRosterNew(r) \/ WriteRosterLinked(r)
        \/ RosterFails(r)      \/ WriteRole(r)      \/ RequestFails(r)

-----------------------------------------------------------------------------
(* Properties *)

\* No two accounts have one handle or one address, whatever overlaps. An account whose
\* requests did not overlap has an address to log in with, at most MaxEmails of them, and
\* exactly one primary (schema/users.ts 48-58, auth.ts 196 and 206).
EmailsSound ==
    /\ \A u, w \in Account : users[u].handle = users[w].handle => u = w
    /\ \A e, f \in emails : e.email = f.email => e = f
    /\ \A e \in emails : e.user \in Account
    /\ \A u \in Account : <<"user", u>> \notin hurried =>
        /\ Cardinality(EmailsOf(u)) \in 1..MaxEmails
        /\ Cardinality({e \in EmailsOf(u) : e.primary}) = 1

\* Changing roles one at a time never leaves the site without an administrator
\* (meta.ts 115-118).
AdminRemains == Roles \in hurried \/ Admins # {}

\* Every account that a roster says it has made, in a line that is not also an error, is
\* there and in the list of members.
RosterTold ==
    \A h \in created \ refused : \E u \in roster : u \in Account /\ users[u].handle = h

AccountsSound == EmailsSound /\ AdminRemains /\ RosterTold
=============================================================================
