------------------------------ MODULE JudgeRun ------------------------------
(***************************************************************************)
(* One submission in the worker, from judge to finalize                    *)
(* (apps/worker/src/judge.ts): its test cases are drained by several boxes *)
(* at a time, its progress is written after every case, the first wrong    *)
(* answer may stop it, a failure of the sandbox throws it back, and a later*)
(* call of judge may try it again.                                         *)
(*                                                                         *)
(* A drain that has not thrown goes on after the call it belongs to has    *)
(* failed and given its boxes back: nothing tells it to stop. Two programs *)
(* in one box disturb each other, and so do two checks in the one box for  *)
(* the checker program. The history variable clashed remembers the calls   *)
(* that began while older drains were at work, or checked two at a time.   *)
(***************************************************************************)
EXTENDS Naturals, FiniteSets, FiniteSetsExt, Sequences, SequencesExt

CONSTANTS
    MaxTests,   \* bound: test cases of a problem
    Points,     \* points a test case may have
    RunVerdict, \* what can come of a run that the sandbox brought to its end
    Special,    \* whether the problem has a checker program: a set of BOOLEANs
    Box,        \* the boxes of the pool
    TcParallel, \* WORKER_TC_PARALLEL
    MaxCalls,   \* bound: calls of judge for the submission, one after the other
    MaxWork     \* bound: test cases of all those calls together

Test == 1..MaxTests
Call == 1..MaxCalls

\* verdict.ts, the worst first.
Severity == <<"internal_error", "compile_error", "output_limit_exceeded",
              "memory_limit_exceeded", "time_limit_exceeded", "runtime_error",
              "wrong_answer", "accepted">>
Verdict == ToSet(Severity)

ASSUME VerdictAssumption == RunVerdict \subseteq Verdict
ASSUME BoxAssumption == IsFiniteSet(Box) /\ TcParallel \in 1..Cardinality(Box)
ASSUME BoundAssumption == {MaxTests, MaxCalls, MaxWork} \subseteq Nat /\ Points \subseteq Nat

VARIABLES
    problem,   \* what the problem and its test cases are
    row,       \* the submission
    pc,        \* of each call
    lent,      \* to which call each box is lent, 0 to none
    drain,     \* of each call and box
    next,      \* of each call: the closure's next, stopped, judged and outcomes
    stopped,
    judged,
    outcomes,
    disturbed, \* calls and boxes whose run shared the box with another program
    checked,   \* of each call: the test case whose files are in the checker box
    clashed    \* history: calls that began while others were at work, or checked two at once

vars == <<problem, row, pc, lent, drain, next, stopped, judged, outcomes,
          disturbed, checked, clashed>>

closure == <<next, stopped, judged, outcomes>>

-----------------------------------------------------------------------------
(* Verdicts and scores *)

Worse(u, v) == \E i, j \in DOMAIN Severity :
                   i < j /\ Severity[i] = u /\ Severity[j] = v

WorstReversed(V) ==             \* mutant: the mildest verdict instead
    IF V = {} THEN "internal_error"
    ELSE CHOOSE v \in V : \A u \in V : u = v \/ Worse(u, v)

\* worstVerdict
Worst(V) == IF V = {} THEN "internal_error"
            ELSE CHOOSE v \in V : \A u \in V : u = v \/ Worse(v, u)

Failing(O) == {o \in O : o.verdict # "accepted"}

\* The points of the cases T, added up.
PointsOf(T) ==
    LET sum[n \in 0..problem.tests] ==
            IF n = 0 THEN 0
            ELSE sum[n - 1] + (IF n \in T THEN problem.points[n] ELSE 0)
    IN  sum[problem.tests]

Earned(O) == PointsOf({o.test : o \in O \ Failing(O)})

Percent(part, whole) == (200 * part + whole) \div (2 * whole)

\* finalize: the points earned, or where nobody earned a point the share of the
\* cases that passed among those that ran.
Score(O) ==
    IF Earned(O) > 0 THEN Earned(O)
    ELSE IF O = {} THEN 0
    ELSE Percent(Cardinality(O \ Failing(O)), Cardinality(O))

FailedIdxFirstRun(seq) ==       \* mutant: outcomes are not sorted
    IF Failing(ToSet(seq)) = {} THEN 0
    ELSE SelectSeq(seq, LAMBDA o : o.verdict # "accepted")[1].test

\* The outcomes are sorted by idx before the first failing one is looked for.
FailedIdx(seq) ==
    IF Failing(ToSet(seq)) = {} THEN 0
    ELSE Min({o.test : o \in Failing(ToSet(seq))})

-----------------------------------------------------------------------------
(* judge *)

Resting == [at |-> "none", test |-> 0, count |-> 0]

BoxesOf(k) == {b \in Box : lent[b] = k}

SetDrain(k, b, d) == drain' = [drain EXCEPT ![k][b] = d]
GoTo(k, b, at) == SetDrain(k, b, [drain[k][b] EXCEPT !.at = at])

\* finalize's row: by the outcomes, or by a verdict that needs none.
Close(k, verdict) ==
    LET O == ToSet(outcomes[k])
    IN  /\ row' = [status |-> "done", verdict |-> verdict, score |-> Score(O),
                   judgedCount |-> Len(outcomes[k]), failedIdx |-> FailedIdx(outcomes[k])]
        /\ pc' = [pc EXCEPT ![k] = "closing"]

\* claimNext has the row for the first call, or for the next one after a failed call.
Claimed(k) == /\ pc[k] = "idle" /\ (k > 1 => pc[k - 1] = "failed")
              /\ k * problem.tests <= MaxWork

\* Drains of the call that have not ended.
AtWork(c) == \E b \in Box : drain[c][b].at \in {"pick", "run", "check", "write"}

Judge(k) ==
    /\ Claimed(k)
    /\ problem.tests > 0
    /\ clashed' = IF \E c \in Call : AtWork(c) THEN clashed \cup {k} ELSE clashed
    /\ row' = [row EXCEPT !.status = "judging", !.judgedCount = 0]
    /\ \E B \in SUBSET {b \in Box : lent[b] = 0} :
        /\ Cardinality(B) = Min({TcParallel, problem.tests})
        /\ lent' = [b \in Box |-> IF b \in B THEN k ELSE lent[b]]
    /\ pc' = [pc EXCEPT ![k] = "compiling"]
    /\ UNCHANGED <<problem, drain, closure, disturbed, checked>>

JudgeWithoutTests(k) ==
    /\ Claimed(k)
    /\ problem.tests = 0
    /\ Close(k, "internal_error")
    /\ UNCHANGED <<problem, lent, drain, closure, disturbed, checked, clashed>>

\* The database fails, or acquire: the boxes taken so far are given back.
JudgeThrows(k) ==
    /\ Claimed(k)
    /\ \E n \in {row.judgedCount, 0} :
        row' = [row EXCEPT !.status = "judging", !.judgedCount = n]
    /\ pc' = [pc EXCEPT ![k] = "throwing"]
    /\ UNCHANGED <<problem, lent, drain, closure, disturbed, checked, clashed>>

CompileOk(k) ==
    /\ pc[k] = "compiling"
    /\ drain' = [drain EXCEPT ![k] = [b \in Box |-> IF lent[b] = k
                                        THEN [Resting EXCEPT !.at = "pick"]
                                        ELSE Resting]]
    /\ pc' = [pc EXCEPT ![k] = "running"]
    /\ UNCHANGED <<problem, row, lent, closure, disturbed, checked, clashed>>

CompileError(k) ==
    /\ pc[k] = "compiling"
    /\ Close(k, "compile_error")
    /\ UNCHANGED <<problem, lent, drain, closure, disturbed, checked, clashed>>

\* The sandbox fails in compile, or the checker does not compile.
CompileThrows(k) ==
    /\ pc[k] = "compiling"
    /\ pc' = [pc EXCEPT ![k] = "throwing"]
    /\ UNCHANGED <<problem, row, lent, drain, closure, disturbed, checked, clashed>>

AllDone(k) == \A b \in BoxesOf(k) : drain[k][b].at = "done"

\* Promise.all is fulfilled when every drain has returned.
Finalize(k) ==
    /\ pc[k] = "running"
    /\ AllDone(k)
    /\ Close(k, Worst({o.verdict : o \in ToSet(outcomes[k])}))
    /\ UNCHANGED <<problem, lent, drain, closure, disturbed, checked, clashed>>

\* finalize's transaction fails.
FinalizeFails(k) ==
    /\ pc[k] = "running"
    /\ AllDone(k)
    /\ pc' = [pc EXCEPT ![k] = "throwing"]
    /\ UNCHANGED <<problem, row, lent, drain, closure, disturbed, checked, clashed>>

\* Promise.all is rejected by the first drain that throws; the others go on.
Reject(k) ==
    /\ pc[k] = "running"
    /\ \E b \in Box : drain[k][b].at = "threw"
    /\ pc' = [pc EXCEPT ![k] = "throwing"]
    /\ UNCHANGED <<problem, row, lent, drain, closure, disturbed, checked, clashed>>

ReleaseBoxIfJudged(k, b) ==     \* mutant: not in a `finally`
    /\ pc[k] = "closing"
    /\ lent[b] = k
    /\ lent' = [lent EXCEPT ![b] = 0]
    /\ UNCHANGED <<problem, row, pc, drain, closure, disturbed, checked, clashed>>

\* `finally`, a box after the other.
ReleaseBox(k, b) ==
    /\ pc[k] \in {"closing", "throwing"}
    /\ lent[b] = k
    /\ lent' = [lent EXCEPT ![b] = 0]
    /\ UNCHANGED <<problem, row, pc, drain, closure, disturbed, checked, clashed>>

\* handleOne ends; after an exception onJudgeFailure has put the row back.
End(k) ==
    /\ pc[k] \in {"closing", "throwing"}
    /\ BoxesOf(k) = {}
    /\ pc' = [pc EXCEPT ![k] = IF @ = "closing" THEN "judged" ELSE "failed"]
    /\ row' = IF pc[k] = "closing" THEN row ELSE [row EXCEPT !.status = "queued"]
    /\ UNCHANGED <<problem, lent, drain, closure, disturbed, checked, clashed>>

-----------------------------------------------------------------------------
(* drain: one of the boxes of a call *)

Running(k, b) == drain[k][b].at = "run"
Sharing(b) == {<<k, b>> : k \in {c \in Call : Running(c, b)}}

DrainEnds(k, b) ==
    /\ drain[k][b].at = "pick"
    /\ stopped[k] \/ next[k] > problem.tests
    /\ GoTo(k, b, "done")
    /\ next' = IF stopped[k] THEN next ELSE [next EXCEPT ![k] = @ + 1]
    /\ UNCHANGED <<problem, row, pc, lent, stopped, judged, outcomes, disturbed,
                   checked, clashed>>

NextTest(k) == next[k]

\* The next case, its input into the box and the program started.
StartRun(k, b) ==
    /\ drain[k][b].at = "pick"
    /\ ~stopped[k]
    /\ next[k] <= problem.tests
    /\ SetDrain(k, b, [at |-> "run", test |-> NextTest(k), count |-> 0])
    /\ next' = [next EXCEPT ![k] = @ + 1]
    /\ disturbed' = IF Sharing(b) = {} THEN disturbed
                    ELSE disturbed \cup Sharing(b) \cup {<<k, b>>}
    /\ UNCHANGED <<problem, row, pc, lent, stopped, judged, outcomes, checked, clashed>>

TestOfShared(k, b) == next[k] - 1 \* mutant: the shared counter, read after the run

\* The drain's own i.
TestOf(k, b) == drain[k][b].test

\* The outcome is pushed, judged counted up and the UPDATE of the progress sent.
Push(k, b, verdict) ==
    /\ outcomes' = [outcomes EXCEPT ![k] =
                       Append(@, [test |-> TestOf(k, b), verdict |-> verdict])]
    /\ judged' = [judged EXCEPT ![k] = @ + 1]
    /\ SetDrain(k, b, [drain[k][b] EXCEPT !.at = "write", !.count = judged[k] + 1])

\* The verdicts of a run whose output is compared with the expected one.
Compared == {"accepted", "wrong_answer"}

\* A run that no other program disturbed gives what the program deserves.
SeenVerdicts(k, b) == IF <<k, b>> \in disturbed THEN RunVerdict
                      ELSE {problem.deserved[drain[k][b].test]}

\* The program ends and its output is compared, without a checker program.
EndRun(k, b) ==
    /\ Running(k, b)
    /\ \E v \in SeenVerdicts(k, b) :
        /\ problem.special => v \notin Compared
        /\ Push(k, b, v)
    /\ disturbed' = disturbed \ {<<k, b>>}
    /\ UNCHANGED <<problem, row, pc, lent, next, stopped, checked, clashed>>

\* The input, the output of the program and the expected one, all of the same case.
FilesGiven(k, b) == drain[k][b].test

\* The program ends with an output to be checked: its files go to the one checker
\* box of the call.
GiveToChecker(k, b) ==
    /\ Running(k, b)
    /\ problem.special
    /\ SeenVerdicts(k, b) \cap Compared # {}
    /\ checked' = [checked EXCEPT ![k] = FilesGiven(k, b)]
    /\ disturbed' = disturbed \ {<<k, b>>}
    /\ clashed' = IF \E a \in Box \ {b} : drain[k][a].at = "check"
                  THEN clashed \cup {k} ELSE clashed
    /\ GoTo(k, b, "check")
    /\ UNCHANGED <<problem, row, pc, lent, closure>>

\* The checker judges the files it finds, right or wrong.
EndCheck(k, b) ==
    /\ drain[k][b].at = "check"
    /\ \E v \in Compared :
        /\ problem.deserved[checked[k]] \in Compared => v = problem.deserved[checked[k]]
        /\ Push(k, b, v)
    /\ UNCHANGED <<problem, row, pc, lent, next, stopped, disturbed, checked, clashed>>

ThrowAsVerdict(k, b) ==         \* mutant: a failure becomes a verdict of the case
    /\ drain[k][b].at \in {"run", "check"}
    /\ Push(k, b, "internal_error")
    /\ disturbed' = disturbed \ {<<k, b>>}
    /\ UNCHANGED <<problem, row, pc, lent, next, stopped, checked, clashed>>

\* The sandbox, the checker or a file of the test case fails.
Throw(k, b) ==
    /\ drain[k][b].at \in {"run", "check"}
    /\ disturbed' = disturbed \ {<<k, b>>}
    /\ GoTo(k, b, "threw")
    /\ UNCHANGED <<problem, row, pc, lent, closure, checked, clashed>>

\* The UPDATE of the progress is done, or it failed and is forgotten.
WriteProgress(k, b) ==
    /\ drain[k][b].at = "write"
    /\ row' \in {row, [row EXCEPT !.judgedCount = drain[k][b].count]}
    /\ LET wrong == \E o \in Failing(ToSet(outcomes[k])) : o.test = drain[k][b].test
       IN  IF problem.stopOnFirstFail /\ wrong
           THEN stopped' = [stopped EXCEPT ![k] = TRUE] /\ GoTo(k, b, "done")
           ELSE stopped' = stopped /\ GoTo(k, b, "pick")
    /\ UNCHANGED <<problem, pc, lent, next, judged, outcomes, disturbed, checked, clashed>>

-----------------------------------------------------------------------------

Problem == UNION {[tests: {n}, deserved: [1..n -> RunVerdict],
                   points: [1..n -> Points], stopOnFirstFail: BOOLEAN,
                   special: Special] : n \in 0..MaxTests}

Init ==
    /\ problem \in Problem
    /\ row = [status |-> "judging", verdict |-> "none", score |-> 0,
              judgedCount |-> 0, failedIdx |-> 0]
    /\ pc = [k \in Call |-> "idle"]
    /\ lent = [b \in Box |-> 0]
    /\ drain = [k \in Call |-> [b \in Box |-> Resting]]
    /\ next = [k \in Call |-> 1]
    /\ stopped = [k \in Call |-> FALSE]
    /\ judged = [k \in Call |-> 0]
    /\ outcomes = [k \in Call |-> <<>>]
    /\ disturbed = {}
    /\ checked = [k \in Call |-> 0]
    /\ clashed = {}

CallStep(k) == \/ Judge(k) \/ JudgeWithoutTests(k) \/ JudgeThrows(k)
               \/ CompileOk(k) \/ CompileError(k) \/ CompileThrows(k)
               \/ Finalize(k) \/ FinalizeFails(k) \/ Reject(k) \/ End(k)
               \/ \E b \in Box : ReleaseBox(k, b)

DrainStep(k, b) == \/ DrainEnds(k, b) \/ StartRun(k, b) \/ EndRun(k, b)
                   \/ GiveToChecker(k, b) \/ EndCheck(k, b) \/ Throw(k, b)
                   \/ WriteProgress(k, b)

Next == \E k \in Call : CallStep(k) \/ \E b \in Box : DrainStep(k, b)

Spec == Init /\ [][Next]_vars

\* The process goes on and isolate stops every program at its limits.
Fairness == \A k \in Call : /\ WF_vars(CallStep(k))
                            /\ \A b \in Box : WF_vars(DrainStep(k, b))

FairSpec == Spec /\ Fairness

-----------------------------------------------------------------------------

DrainPhase == {"none", "pick", "run", "check", "write", "done", "threw"}

\* Every variable has its type.
TypeOK ==
    /\ problem \in Problem
    /\ row \in [status: {"judging", "queued", "done"}, verdict: Verdict \cup {"none"},
                score: Nat, judgedCount: 0..MaxTests, failedIdx: 0..MaxTests]
    /\ pc \in [Call -> {"idle", "compiling", "running", "closing", "throwing",
                        "judged", "failed"}]
    /\ lent \in [Box -> Call \cup {0}]
    /\ drain \in [Call -> [Box -> [at: DrainPhase, test: 0..MaxTests,
                                   count: 0..MaxTests]]]
    /\ next \in [Call -> Nat]
    /\ stopped \in [Call -> BOOLEAN]
    /\ judged \in [Call -> 0..MaxTests]
    /\ \A k \in Call :
         ToSet(outcomes[k]) \subseteq [test: Test, verdict: RunVerdict \cup Compared]
    /\ disturbed \subseteq Call \X Box
    /\ checked \in [Call -> 0..MaxTests]
    /\ clashed \subseteq Call

\* The call has written its verdict, from test cases.
Settled(k) == pc[k] \in {"closing", "judged"} /\ outcomes[k] # <<>>

Deserved == {problem.deserved[t] : t \in 1..problem.tests}
FirstWrong ==
    LET wrong == {t \in 1..problem.tests : problem.deserved[t] # "accepted"}
    IN  IF wrong = {} THEN 0 ELSE Min(wrong)

\* However many drains there are, the cases judged are the first ones of the problem,
\* each once, and all of them unless a failing case stopped the run.
PrefixJudged ==
    \A k \in Call : Settled(k) =>
        LET O == ToSet(outcomes[k])
        IN  /\ {o.test : o \in O} = 1..Len(outcomes[k])
            /\ Len(outcomes[k]) < problem.tests =>
                   problem.stopOnFirstFail /\ Failing(O) # {}

\* A verdict that was come to undisturbed.
Clean(k) == Settled(k) /\ k \notin clashed

\* Every case has the verdict the program deserves for it, whatever drains of other calls
\* and checks of other cases went on, but for two sequences: the call began while drains of
\* a failed one were at work, or two of its drains were at the checker at once.
OutcomesDeserved ==
    \A k \in Call : Clean(k) =>
        \A o \in ToSet(outcomes[k]) : o.verdict = problem.deserved[o.test]

\* What the documents say: no other program ever shares the box of a run (the working
\* directory is cleaned when a box is lent, docs/koj-differences.md) nor that of the
\* checker (it runs "one at a time", comment in judge).
EveryOutcomeDeserved ==
    \A k \in Call : Settled(k) =>
        \A o \in ToSet(outcomes[k]) : o.verdict = problem.deserved[o.test]

\* The failing case shown to the user is the first one of the problem that the program
\* fails, whichever of the parallel drains failed first.
FirstFailureReported ==
    \A k \in Call : Clean(k) => row.failedIdx = FirstWrong

\* A submission is accepted if and only if it passes every case of the problem.
AcceptedMeansAllPass ==
    \A k \in Call : Clean(k) =>
        (row.verdict = "accepted" <=> Deserved = {"accepted"})

\* An accepted submission has all the points of the problem, 100 when it has none.
AcceptedHasFullScore ==
    LET total == PointsOf(1..problem.tests)
    IN  row.verdict = "accepted" =>
            row.score = (IF total > 0 THEN total ELSE 100)

\* When the submission is done its progress is the number of cases judged: no write
\* of a drain comes after finalize's.
ProgressAtEnd ==
    \A k \in Call \ clashed : pc[k] \in {"closing", "judged"} =>
        row.judgedCount = Len(outcomes[k])

\* What the row tells in the end does not depend on how the drains took turns: the cases
\* judged, the failing one and the progress are those of one case after the other.
AsIfSerial == PrefixJudged /\ FirstFailureReported /\ ProgressAtEnd

\* "Accepted" is earned: every case of the problem passed, with all the points there are.
AcceptedEarned == AcceptedMeansAllPass /\ AcceptedHasFullScore

\* Every box a call has borrowed comes back, whatever the call ends with.
EveryBoxReturned == \A b \in Box : lent[b] # 0 ~> lent[b] = 0

\* A problem with points scores the points earned ("problems that do not use partial
\* scores, all points 0, score the share of cases passed", comment in finalize).
ScoreByPoints ==
    \A k \in Call : Settled(k) /\ (\E t \in 1..problem.tests : problem.points[t] > 0) =>
        row.score = Earned(ToSet(outcomes[k]))

\* Stopping at the first wrong answer does not change the verdict ("saves resources,
\* is not a rule of the verdict", comment in runTestcases).
StoppingKeepsVerdict ==
    \A k \in Call : Settled(k) => row.verdict = Worst(Deserved)
=============================================================================
