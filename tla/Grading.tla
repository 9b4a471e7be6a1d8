------------------------------ MODULE Grading ------------------------------
(***************************************************************************)
(* Submissions graded against the test case store while it is edited: by a *)
(* worker (apps/worker/src/judge.ts) or, for the kind "answer", by the     *)
(* request itself (gradeAnswerSubmission in routes/submissions.ts); and the*)
(* counters of accepted problems and users that both keep. Leases, crashes *)
(* and test case results are in JudgeQueue and JudgeRun; here a grading    *)
(* reads its problem, its rows and its files one after the other, and its  *)
(* transaction is open for a while before others see it.                   *)
(***************************************************************************)
EXTENDS TestcaseStore

CONSTANTS
    User,
    Kinds,       \* the kinds of problem a behaviour may have: subset of {"code", "answer"}
    Sheet,       \* what a submission answers: a sequence of bodies
    Id,          \* ids of submissions
    MaxAttempts, \* MAX_JUDGE_ATTEMPTS
    MaxRejudges, \* bound: rejudges
    MaxRecounts, \* bound: runs of scripts/recount.ts
    MaxRequests  \* bound: edits, submissions, rejudges and recounts together

ASSUME GradingAssumption ==
    /\ Id \subseteq Nat /\ Sheet \subseteq Seq(Body) /\ Kinds \subseteq {"code", "answer"}
    /\ MaxAttempts \in Nat \ {0} /\ {MaxRejudges, MaxRecounts, MaxRequests} \subseteq Nat

Verdict == {"accepted", "wrong_answer", "internal_error"}

Submission ==
    [user : User, problem : Problem, sheet : Sheet, verdict : Verdict \cup {None},
     status : {"queued", "judging", "done", "deleted"}, version : Nat \cup {None},
     attempts : Nat, seen : Seq(Body \cup {None}) \cup {None}]

ASSUME NoneAssumption == None \notin Nat \cup Verdict \cup Submission

VARIABLES
    kind,      \* of each problem
    subs,      \* submissions
    gradings,  \* workers' handlers and API requests that grade
    solved,    \* users.solvedCount
    accepted,  \* problems.acceptedCount
    sentBy,    \* users.submissionCount
    sentTo,    \* problems.submissionCount
    rejudged,  \* rejudges so far
    recounted, \* recounts so far
    unsure     \* history: <<user, problem>> whose count the code does not keep right

subVars == <<kind, subs, gradings, solved, accepted, sentBy, sentTo, rejudged, recounted, unsure>>
vars == <<storeVars, subVars>>

Pair(s) == <<subs[s].user, subs[s].problem>>
Known(s) == subs[s] # None
Accepted(s) == Known(s) /\ subs[s].verdict = "accepted"
AcceptedPairs == {Pair(s) : s \in {t \in Id : Accepted(t)}}

GradingsOf(s) == {g \in gradings : g.sub = s}
\* The row of a submission is locked from the UPDATE in a transaction to its end.
Locked(s) == \E g \in GradingsOf(s) : g.step = "commit"

Sent == Cardinality({s \in Id : Known(s)})
WithinBounds == edited + Sent + rejudged + recounted <= MaxRequests

Moves(g, h) == gradings' = (gradings \ {g}) \cup {h}

-----------------------------------------------------------------------------
(* Submitting *)

NewGrading(s, by) ==
    [sub |-> s, problem |-> subs[s].problem, by |-> by, step |-> "problem", version |-> None,
     tries |-> subs[s].attempts, edition |-> None, cases |-> <<>>, seen |-> <<>>, verdict |-> None, first |-> FALSE]

\* POST /submissions: one transaction inserts the row and counts it. An answer is graded
\* by the same request.
Submit(u, p, sheet, s) ==
    /\ life[p] = "here"
    /\ ~Known(s) /\ \A t \in Id : t < s => Known(t)
    /\ subs' = [subs EXCEPT ![s] =
         [user |-> u, problem |-> p, sheet |-> sheet, status |-> "queued", verdict |-> None,
          version |-> None, attempts |-> 0, seen |-> None]]
    /\ sentBy' = [sentBy EXCEPT ![u] = @ + 1]
    /\ sentTo' = [sentTo EXCEPT ![p] = @ + 1]
    /\ gradings' = IF kind[p] = "answer"
                   THEN gradings \cup {NewGrading(s, "api")'}
                   ELSE gradings
    /\ UNCHANGED <<storeVars, kind, solved, accepted, rejudged, recounted, unsure>>

\* A worker claims whatever row is queued.
Claim(s) ==
    /\ Known(s) /\ subs[s].status = "queued" /\ ~Locked(s)
    /\ subs' = [subs EXCEPT ![s].status = "judging", ![s].attempts = @ + 1]
    /\ gradings' = gradings \cup {NewGrading(s, "worker")'}
    /\ UNCHANGED <<storeVars, kind, solved, accepted, sentBy, sentTo, rejudged, recounted, unsure>>

-----------------------------------------------------------------------------
(* Grading: the problem, the rows, the files, then one transaction *)

Reads(g, h) ==
    /\ Moves(g, h)
    /\ UNCHANGED <<storeVars, kind, subs, solved, accepted, sentBy, sentTo, rejudged, recounted,
                   unsure>>

\* The problem, with the version that the verdict will be stamped with. The API does not
\* stamp it.
ReadProblem(g) ==
    /\ g.step = "problem"
    /\ Reads(g, [g EXCEPT !.step = "rows",
                          !.version = IF g.by = "worker" THEN version[g.problem] ELSE None])

\* The rows: edition stands for their ids, which PUT replaces with the rows.
ReadRows(g) ==
    /\ g.step = "rows"
    /\ g.by = "worker" => kind[g.problem] # "answer" \/ rows[g.problem] = <<>>
    /\ Reads(g, [g EXCEPT !.step = "files", !.cases = rows[g.problem],
                          !.edition = edition[g.problem]])

\* The file of the next row. The API takes a missing file for an empty one.
ReadFile(g) ==
    /\ g.step = "files" /\ Len(g.seen) < Len(g.cases)
    /\ LET found == files[g.problem][Len(g.seen) + 1]
       IN  /\ g.by = "worker" => found # None
           /\ Reads(g, [g EXCEPT !.seen = Append(@, found)])

Passes(sheet, seen) ==
    \A i \in DOMAIN seen : i \in DOMAIN sheet /\ sheet[i] = seen[i]

\* Without a case a worker cannot judge, and an answer is wrong.
VerdictOf(g) ==
    IF g.cases = <<>> THEN (IF g.by = "worker" THEN "internal_error" ELSE "wrong_answer")
    ELSE IF Passes(subs[g.sub].sheet, g.seen) THEN "accepted" ELSE "wrong_answer"

AlwaysFirst(g) == TRUE          \* mutant: earlier accepted submissions are not counted

\* The count in the transaction sees what others have committed.
FirstAccepted(g) ==
    \A s \in Id \ {g.sub} : ~(Accepted(s) /\ Pair(s) = Pair(g.sub))

\* The results refer to the rows that were read: when PUT has replaced them, the
\* transaction fails.
RowsStillThere(g) == g.cases = <<>> \/ g.edition = edition[g.problem]

InTransaction(pair) == \E g \in gradings : /\ g.step = "commit" /\ g.verdict = "accepted"
                                           /\ Pair(g.sub) = pair

\* The transaction up to its COMMIT.
OpenTransaction(g) ==
    /\ g.step = "files" /\ Len(g.seen) = Len(g.cases)
    /\ Known(g.sub) /\ RowsStillThere(g) /\ ~Locked(g.sub)
    /\ Moves(g, [g EXCEPT !.step = "commit", !.verdict = VerdictOf(g),
                          !.first = VerdictOf(g) = "accepted" /\ FirstAccepted(g)])
    /\ unsure' = IF VerdictOf(g) = "accepted" /\ InTransaction(Pair(g.sub))
                 THEN unsure \cup {Pair(g.sub)} ELSE unsure
    /\ UNCHANGED <<storeVars, kind, subs, solved, accepted, sentBy, sentTo, rejudged, recounted>>

\* COMMIT: finalize, or the end of gradeAnswerSubmission.
Commit(g) ==
    /\ g.step = "commit"
    /\ subs' = [subs EXCEPT ![g.sub] =
         [@ EXCEPT !.status = "done", !.verdict = g.verdict, !.seen = g.seen,
                   !.version = IF g.by = "worker" THEN g.version ELSE subs[g.sub].version]]
    /\ solved' = IF g.first THEN [solved EXCEPT ![subs[g.sub].user] = @ + 1] ELSE solved
    /\ accepted' = IF g.first THEN [accepted EXCEPT ![g.problem] = @ + 1] ELSE accepted
    /\ gradings' = gradings \ {g}
    /\ unsure' = IF Accepted(g.sub) THEN unsure \cup {Pair(g.sub)} ELSE unsure
    /\ UNCHANGED <<storeVars, kind, sentBy, sentTo, rejudged, recounted>>

\* The reads begin with that of the problem, so that a failure falls after it.
GivesUpLate(g) == g.tries > MaxAttempts  \* mutant: one try too many
GivesUp(g) == g.tries >= MaxAttempts

\* A worker's grading throws: the problem is gone, an answer has no language, a file is
\* missing, the rows were replaced, the sandbox failed. The row goes back, or is given up.
JudgeFailure(g) ==
    /\ g.by = "worker" /\ g.step \in {"rows", "files"} /\ Known(g.sub) /\ ~Locked(g.sub)
    /\ gradings' = gradings \ {g}
    /\ subs' = [subs EXCEPT ![g.sub] =
         IF GivesUp(g)
         THEN [@ EXCEPT !.status = "done", !.verdict = "internal_error", !.seen = <<>>]
         ELSE [@ EXCEPT !.status = "queued"]]
    /\ unsure' = IF Accepted(g.sub) THEN unsure \cup {Pair(g.sub)} ELSE unsure
    /\ UNCHANGED <<storeVars, kind, solved, accepted, sentBy, sentTo, rejudged, recounted>>

\* The request that grades an answer ends with an error; nobody takes its row back.
GradeFails(g) ==
    /\ g.by = "api" /\ g.step = "files"
    /\ gradings' = gradings \ {g}
    /\ UNCHANGED <<storeVars, kind, subs, solved, accepted, sentBy, sentTo, rejudged, recounted,
                   unsure>>

-----------------------------------------------------------------------------
(* Rejudging, deleting, recounting *)

\* enqueue: the verdict is taken away, the counters stay. Of one submission, or of all of
\* a problem.
Rejudge(S) ==
    /\ rejudged < MaxRejudges
    /\ S # {} /\ \A s \in S : Known(s) /\ subs[s].status # "deleted" /\ ~Locked(s)
    /\ subs' = [s \in Id |-> IF s \in S THEN [subs[s] EXCEPT !.status = "queued",
                                                 !.verdict = None, !.attempts = 0,
                                                 !.seen = None]
                             ELSE subs[s]]
    /\ unsure' = unsure \cup {Pair(s) : s \in {t \in S : Accepted(t) \/ GradingsOf(t) # {}}}
    /\ rejudged' = rejudged + 1
    /\ UNCHANGED <<storeVars, kind, gradings, solved, accepted, sentBy, sentTo, recounted>>

OfProblem(p) == {s \in Id : Known(s) /\ subs[s].problem = p}

\* DELETE of a problem takes its submissions with it: those who grade them can write
\* nothing any more, and do not matter.
DeleteProblem(p) ==
    /\ DeleteRow(p)
    /\ \A s \in OfProblem(p) : ~Locked(s)
    /\ subs' = [s \in Id |-> IF s \in OfProblem(p)
                             THEN [subs[s] EXCEPT !.status = "deleted", !.verdict = None]
                             ELSE subs[s]]
    /\ gradings' = {g \in gradings : g.problem # p}
    /\ unsure' = unsure \cup {<<u, p>> : u \in User}
    /\ UNCHANGED <<kind, solved, accepted, sentBy, sentTo, rejudged, recounted>>

ActualSolved(u) == Cardinality({pair \in AcceptedPairs : pair[1] = u})
ActualAccepted(p) == Cardinality({pair \in AcceptedPairs : pair[2] = p})
ActuallySent(S) == Cardinality({s \in S : Known(s) /\ subs[s].status # "deleted"})

\* scripts/recount.ts --apply. A transaction that is open is not seen by it, and counts
\* itself afterwards.
Recount ==
    /\ recounted < MaxRecounts
    /\ recounted' = recounted + 1
    /\ solved' = [u \in User |-> ActualSolved(u)]
    /\ accepted' = [p \in Problem |-> ActualAccepted(p)]
    /\ sentBy' = [u \in User |-> ActuallySent({s \in Id : Known(s) /\ subs[s].user = u})]
    /\ sentTo' = [p \in Problem |-> ActuallySent(OfProblem(p))]
    /\ unsure' = {pair \in unsure : \E g \in gradings : Known(g.sub) /\ Pair(g.sub) = pair}
    /\ UNCHANGED <<storeVars, kind, subs, gradings, rejudged>>

-----------------------------------------------------------------------------
Init ==
    /\ StoreInit
    /\ kind \in [Problem -> Kinds]
    /\ subs = [s \in Id |-> None] /\ gradings = {}
    /\ solved = [u \in User |-> 0] /\ sentBy = solved
    /\ accepted = [p \in Problem |-> 0] /\ sentTo = accepted
    /\ rejudged = 0 /\ recounted = 0 /\ unsure = {}

\* An open transaction holds the rows that its results refer to.
HoldsRows(p) == \E g \in gradings : g.problem = p /\ g.step = "commit" /\ g.cases # <<>>
EditWithSubmissions ==
    /\ Edit
    /\ \A p \in Problem : HoldsRows(p) => edition'[p] = edition[p]
    /\ UNCHANGED subVars

Requests ==
    \/ EditWithSubmissions
    \/ \E p \in Problem : DeleteProblem(p)
    \/ \E u \in User, p \in Problem, sheet \in Sheet, s \in Id : Submit(u, p, sheet, s)
    \/ \E s \in Id : Rejudge({s})
    \/ \E p \in Problem : Rejudge(OfProblem(p))
    \/ Recount

Next ==
    \/ Requests /\ WithinBounds'
    \/ \E s \in Id : Claim(s)
    \/ \E g \in gradings :
        \/ ReadProblem(g)     \/ ReadRows(g) \/ ReadFile(g)
        \/ OpenTransaction(g) \/ Commit(g)
        \/ JudgeFailure(g)    \/ GradeFails(g)

Spec == Init /\ [][Next]_vars

-----------------------------------------------------------------------------
(* Properties *)

\* Types, and: a row that is done has a verdict and was graded by someone, a row that a
\* worker judges has not been tried more often than MAX_JUDGE_ATTEMPTS (when no rejudge
\* has begun its tries anew under a handler that was at work), and rows and versions only
\* count up.
GradingTypeOK ==
    /\ kind \in [Problem -> Kinds] /\ life \in [Problem -> {"new", "here", "gone"}]
    /\ \A p \in Problem : /\ rows[p] \in Seq(Body) /\ files[p] \in [Idx -> Body \cup {None}]
                           /\ 1 <= version[p] /\ version[p] <= edition[p]
    /\ \A s \in Id : Known(s) =>
         /\ subs[s] \in Submission
         /\ subs[s].status = "done" => subs[s].verdict # None
         /\ subs[s].status = "judging" => \E g \in GradingsOf(s) : g.by = "worker"
         /\ rejudged = 0 => subs[s].attempts <= MaxAttempts
    /\ \A g \in gradings : Known(g.sub) /\ Pair(g.sub)[2] = g.problem

\* problems.testcaseVersion tells old verdicts from those of the present test cases
\* (schema/problems.ts 68-73): a submission stamped with the present version was compared
\* with the present bodies, unless it found no case at all or an edit went wrong.
VersionTells ==
    \A s \in Id : Known(s) =>
        LET p == subs[s].problem
        IN  /\ subs[s].status = "done" /\ subs[s].version = version[p]
            /\ ~Meets(p) /\ p \notin torn /\ life[p] = "here"
            => subs[s].seen = rows[p] \/ subs[s].seen = <<>>

\* docs/schema.md 107-117: the cached counters are what counting the submissions gives,
\* for every user and problem that no rejudge, deletion or overlapping first accept has
\* made unsure; and a recount makes them so.
CountersSound ==
    /\ \A u \in User : (\A p \in Problem : <<u, p>> \notin unsure) => solved[u] = ActualSolved(u)
    /\ \A p \in Problem : (\A u \in User : <<u, p>> \notin unsure) => accepted[p] = ActualAccepted(p)
    /\ \A p \in Problem : life[p] # "gone" => sentTo[p] = Cardinality(OfProblem(p))
    /\ recounted = 0 => \A u \in User : solved[u] >= ActualSolved(u)

\* judge.ts 80: an answer never comes to a worker. Not so: rejudging one, or the moment
\* between the insert of its row and the end of its grading, brings it there.
AnswersSkipQueue ==
    \A g \in gradings : g.by = "worker" => kind[g.problem] # "answer"
=============================================================================
