----------------------------- MODULE Scoreboard -----------------------------
(***************************************************************************)
(* The score board and the grade matrix of a collection while submissions  *)
(* arrive, are judged and are judged again: packages/db/src/scoreboard.ts, *)
(* the routes /scoreboard and /scores of routes/collections.ts. Both are   *)
(* computed from the submissions at every request; no state is kept. Time  *)
(* counts in parts of a minute, so that rounding to minutes shows.         *)
(***************************************************************************)
EXTENDS Integers, FiniteSets, FiniteSetsExt, Functions, Sequences

CONSTANTS
    Member,      \* members of the collection
    Problem,     \* problems of the site
    Items,       \* those of the collection
    None,
    Minute,      \* parts of a minute
    Penalty,     \* penaltyMinutes of a rejected submission
    Full,        \* the score of an accepted submission
    Windows,     \* [starts, ends, freeze]: startsAt, endsAt and freezeAt, each may be None
    MaxSubs,     \* bound: submissions
    MaxRejudges, \* bound: rejudges
    MaxTime      \* bound: the last moment

Verdict == {"accepted", "wrong_answer", "internal_error"}

\* What a cell of the grade matrix says of a member and a problem.
CellOf == [best : Nat, tries : Nat, solved : BOOLEAN, first : Nat \cup {None}]

ASSUME ScoreboardAssumption ==
    /\ IsFiniteSet(Problem) /\ Items \subseteq Problem
    /\ {Minute, Full} \subseteq Nat \ {0}
    /\ {Penalty, MaxSubs, MaxRejudges, MaxTime} \subseteq Nat
    /\ \A w \in Windows : {w.starts, w.ends, w.freeze} \subseteq Nat \cup {None}
    /\ None \notin Nat \cup Verdict \cup CellOf

VARIABLES
    window,    \* the window of the collection
    subs,      \* submissions, in the order of their ids
    now,
    rejudged   \* rejudges so far

vars == <<window, subs, now, rejudged>>

Ids == DOMAIN subs

-----------------------------------------------------------------------------
(* The queries. A cutoff is a moment or None. *)

InWindow(s, cut) ==
    /\ window.starts = None \/ s.at >= window.starts
    /\ cut = None \/ s.at <= cut

Of(m, p) == {i \in Ids : subs[i].user = m /\ subs[i].problem = p}
Inside(m, p) == {i \in Of(m, p) : subs[i].inside}

\* CTE ac
Accepts(m, p, cut) ==
    {i \in Inside(m, p) : subs[i].verdict = "accepted" /\ InWindow(subs[i], cut)}
AcceptedAt(m, p, cut) == Min({subs[i].at : i \in Accepts(m, p, cut)})

WrongAnytime(m, p, cut) ==  \* mutant: rejections after the accepted one count
    {i \in Inside(m, p) :
        /\ subs[i].verdict \notin {None, "accepted", "internal_error"}
        /\ InWindow(subs[i], None)}
WrongAndFailed(m, p, cut) ==  \* mutant: errors of the judge count
    {i \in Inside(m, p) :
        /\ subs[i].verdict \notin {None, "accepted"}
        /\ subs[i].at < AcceptedAt(m, p, cut)
        /\ InWindow(subs[i], None)}

\* CTE wrong
Wrong(m, p, cut) ==
    {i \in Inside(m, p) :
        /\ subs[i].verdict \notin {None, "accepted", "internal_error"}
        /\ subs[i].at < AcceptedAt(m, p, cut)
        /\ InWindow(subs[i], None)}

Solved(m, cut) == {p \in Problem : Accepts(m, p, cut) # {}}

MinutesTo(at) == IF window.starts = None THEN 0 ELSE (at - window.starts) \div Minute

PenaltyOf(m, p, cut) ==
    MinutesTo(AcceptedAt(m, p, cut)) + Cardinality(Wrong(m, p, cut)) * Penalty

\* sum of SQL
Total(f) == FoldFunction(+, 0, f)

Icpc(cut) ==
    [m \in Member |->
        [solved  |-> Cardinality(Solved(m, cut)),
         penalty |-> Total([p \in Solved(m, cut) |-> PenaltyOf(m, p, cut)]),
         score   |-> 0]]

Best(m, p, cut) ==
    Max({0} \cup {subs[i].score : i \in {j \in Inside(m, p) : InWindow(subs[j], cut)}})

Ioi(cut) ==
    [m \in Member |->
        [solved  |-> Cardinality({p \in Problem : Best(m, p, cut) > 0}),
         penalty |-> 0,
         score   |-> Total([p \in Problem |-> Best(m, p, cut)])]]

\* Submissions from outside the collection and from before its start count.
Progress(cut) ==
    [m \in Member |->
        [solved  |-> Cardinality({p \in Items : \E i \in Of(m, p) :
                        subs[i].verdict = "accepted" /\ (cut = None \/ subs[i].at <= cut)}),
         penalty |-> 0, score |-> 0]]

Board(cut) == <<Icpc(cut), Ioi(cut), Progress(cut)>>

\* Members see the board of the freeze, managers that of the end.
Cutoff(canManage) ==
    IF canManage \/ window.freeze = None THEN window.ends ELSE window.freeze

\* GET /scores: a cell of the grade matrix, or None when nothing of it is judged.
Cell(m, p) ==
    LET done == {i \in Of(m, p) : subs[i].verdict # None}
        ac   == {i \in done : subs[i].verdict = "accepted"}
    IN  IF done = {} THEN None
        ELSE [best   |-> Max({subs[i].score : i \in done}),
              tries  |-> Cardinality(done),
              solved |-> ac # {},
              first  |-> IF ac = {} THEN None ELSE Min({subs[i].at : i \in ac})]

-----------------------------------------------------------------------------
(* What happens to submissions meanwhile (routes/submissions.ts, the worker) *)

\* Ids are drawn in the order of time; inside: it belongs to the collection.
Submit(m, p, inside) ==
    /\ Len(subs) < MaxSubs
    /\ subs' = Append(subs, [user |-> m, problem |-> p, inside |-> inside, at |-> now,
                             verdict |-> None, score |-> 0])
    /\ UNCHANGED <<window, now, rejudged>>

Scores(verdict) ==
    CASE verdict = "accepted"       -> {Full}
      [] verdict = "wrong_answer"   -> 0..(Full - 1)
      [] verdict = "internal_error" -> {0}

Judged(i, verdict, score) ==
    /\ subs[i].verdict = None
    /\ subs' = [subs EXCEPT ![i].verdict = verdict, ![i].score = score]
    /\ UNCHANGED <<window, now, rejudged>>

\* enqueue
Rejudge(i) ==
    /\ rejudged < MaxRejudges /\ subs[i].verdict # None
    /\ rejudged' = rejudged + 1
    /\ subs' = [subs EXCEPT ![i].verdict = None, ![i].score = 0]
    /\ UNCHANGED <<window, now>>

Tick == now < MaxTime /\ now' = now + 1 /\ UNCHANGED <<window, subs, rejudged>>

Init == window \in Windows /\ subs = <<>> /\ now = 0 /\ rejudged = 0

Next ==
    \/ \E m \in Member, p \in Problem, inside \in BOOLEAN :
        (inside => p \in Items) /\ Submit(m, p, inside)
    \/ \E i \in Ids, verdict \in Verdict :
        \E score \in Scores(verdict) : Judged(i, verdict, score)
    \/ \E i \in Ids : Rejudge(i)
    \/ Tick

Spec == Init /\ [][Next]_vars

-----------------------------------------------------------------------------
(* The rules of a contest, read submission after submission *)

Started(s) == window.starts = None \/ s.at >= window.starts

\* One submission after what the member had on the problem. An accepted submission is
\* final; a rejection at its very moment does not count.
Enter(cell, s) ==
    IF cell.solved \/ s.verdict \in {None, "internal_error"} THEN cell
    ELSE IF s.verdict = "accepted"
    THEN [cell EXCEPT !.solved = TRUE,
                      !.penalty = @ + MinutesTo(s.at) - (IF cell.last = s.at THEN cell.tied ELSE 0)]
    ELSE [cell EXCEPT !.penalty = @ + Penalty, !.last = s.at,
                      !.tied = IF cell.last = s.at THEN @ + Penalty ELSE Penalty]

Counts(s, m, p, cut) ==
    s.user = m /\ s.problem = p /\ s.inside /\ Started(s) /\ (cut = None \/ s.at <= cut)

Blank == [solved |-> FALSE, penalty |-> 0, last |-> None, tied |-> 0]

Standing(m, p, cut) ==
    LET after[i \in 0..Len(subs)] ==
            IF i = 0 THEN Blank
            ELSE IF Counts(subs[i], m, p, cut) THEN Enter(after[i - 1], subs[i])
            ELSE after[i - 1]
    IN  after[Len(subs)]

\* At every moment and for both cutoffs the ICPC board is what reading the submissions
\* in their order gives: minutes to the first accepted one, and the penalty of those
\* rejected before it, if there is one (routes/collections.ts 931, scoreboard.ts 89-105).
\* Whoever has solved a problem on a board has solved it in the grade matrix, no later.
BoardsAgree ==
    \A canManage \in BOOLEAN, m \in Member :
        LET cut  == Cutoff(canManage)
            done == {p \in Problem : Standing(m, p, cut).solved}
        IN  /\ Icpc(cut)[m].solved = Cardinality(done)
            /\ Icpc(cut)[m].penalty = Total([p \in done |-> Standing(m, p, cut).penalty])
            /\ Ioi(cut)[m].score >= Full * Icpc(cut)[m].solved
            /\ \A p \in done : Cell(m, p) # None /\ Cell(m, p).solved
                               /\ Cell(m, p).first <= AcceptedAt(m, p, cut)

\* Which submissions a step adds or changes.
Touched == {i \in DOMAIN subs' : i \notin Ids \/ subs'[i] # subs[i]}

\* A frozen board hides everything that was sent in after the freeze, whatever becomes
\* of it (routes/collections.ts 933); and a problem that is solved stays as it is,
\* whatever its solver sends in later.
LateChangesNothing ==
    [][/\ (\A i \in Touched : Cutoff(FALSE) # None /\ subs'[i].at > Cutoff(FALSE))
            => Board(Cutoff(FALSE))' = Board(Cutoff(FALSE))
       /\ \A m \in Member, p \in Problem :
            LET cut == Cutoff(TRUE)
            IN  Accepts(m, p, cut) # {}
                /\ (\A i \in Touched : subs'[i].at > AcceptedAt(m, p, cut))
                => PenaltyOf(m, p, cut)' = PenaltyOf(m, p, cut)]_vars
=============================================================================
