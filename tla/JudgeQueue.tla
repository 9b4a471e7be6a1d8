----------------------------- MODULE JudgeQueue -----------------------------
(***************************************************************************)
(* The judge queue: the submissions table is the queue                     *)
(* (packages/db/src/queue.ts), workers claim rows from it, keep them alive *)
(* with heartbeats, finish or give them back (apps/worker/src/index.ts and *)
(* finalize of judge.ts), and the API submits and rejudges                 *)
(* (apps/api/src/routes/submissions.ts).                                   *)
(*                                                                         *)
(* An action is one statement (or one transaction) of the database, so     *)
(* everything the code does in two statements can be interleaved here.     *)
(*                                                                         *)
(* The code has no guard against four things that time normally prevents.  *)
(* Each is a member of Adverse when a model lets it happen:                *)
(*   "lateHeartbeat"   a live worker's heartbeats stay away longer than    *)
(*                     the lease (120 s against a period of 15 s)          *)
(*   "rejudgeInFlight" staff rejudge a submission some worker is judging   *)
(*   "slowExit"        a worker claims a row it has given back before the  *)
(*                     old handler has run its `finally`                   *)
(*   "splitRejudge"    something comes between the UPDATE and the DELETE   *)
(*                     of enqueue: a claim, or the end of the API process  *)
(***************************************************************************)
EXTENDS Naturals, FiniteSets

CONSTANTS
    Sub,          \* submission ids
    Worker,       \* WORKER_IDs
    NoWorker,     \* claimed_by IS NULL
    Priority,     \* submissions.priority of every id
    Capacity,     \* WORKER_CAPACITY
    MaxAttempts,  \* MAX_JUDGE_ATTEMPTS
    TestedVerdict,\* verdicts of runs that store rows in submission_results
    MaxHandlers,  \* bound: no claim while so many handlers run, old ones included
    MaxStops,     \* bound: crashes and orderly stops of workers, together
    MaxRejudges,  \* bound: rejudge requests
    Adverse       \* see above

AdverseKinds == {"lateHeartbeat", "rejudgeInFlight", "slowExit", "splitRejudge"}

ASSUME SubAssumption == Sub \subseteq Nat
ASSUME WorkerAssumption == NoWorker \notin Worker
ASSUME PriorityAssumption == Priority \in [Sub -> Nat]
ASSUME LimitAssumption ==
    /\ Capacity \in Nat \ {0}
    /\ MaxAttempts \in Nat \ {0}
    /\ MaxHandlers \in Nat
    /\ MaxStops \in Nat
    /\ MaxRejudges \in Nat
ASSUME VerdictAssumption ==
    TestedVerdict \cap {"compile_error", "internal_error", "none"} = {}
ASSUME AdverseAssumption == Adverse \subseteq AdverseKinds

VARIABLES
    row,       \* the queue columns of the submissions table
    results,   \* submission_results: how many runs have their rows stored
    wiping,    \* rejudged ids whose old results enqueue has yet to delete
    up,        \* the worker processes that run
    draining,  \* the workers that got a SIGTERM
    picked,    \* rows marked by claimNext's UPDATE, not yet read back
    inFlight,  \* the Set of the worker process
    handlers,  \* the handleOne calls in progress
    stops,     \* crashes and stops so far
    rejudges   \* rejudge requests so far

vars == <<row, results, wiping, up, draining, picked, inFlight, handlers,
          stops, rejudges>>

-----------------------------------------------------------------------------
(* Rows and handlers *)

\* What finalize can write: a tested verdict, or one without any result row
\* (compile error; internal_error when the problem has no test cases).
UntestedVerdict == {"compile_error", "internal_error"}
FinalVerdict == TestedVerdict \cup UntestedVerdict

Status == {"absent", "queued", "judging", "done"}

Row == [status: Status, verdict: FinalVerdict \cup {"none"},
        claimedBy: Worker \cup {NoWorker}, attempts: Nat,
        lease: {"none", "fresh", "expired"}]

\* attempts is the copy the claim returned; phase "exit" is a handler that has
\* written its outcome and has yet to run `finally`; no tells the calls of
\* one worker for one submission apart.
Handler == [by: Worker, sub: Sub, no: 0..MaxHandlers, attempts: Nat,
            phase: {"judging", "exit"}]

AbsentRow == [status |-> "absent", verdict |-> "none", claimedBy |-> NoWorker,
              attempts |-> 0, lease |-> "none"]

\* enqueue: every queue column back to its first value.
EnqueuedRow(r) ==
    [r EXCEPT !.status = "queued", !.verdict = "none", !.claimedBy = NoWorker,
              !.attempts = 0, !.lease = "none"]

ClaimedRowUnmarked(r, w) ==     \* mutant: claimed without the ownership mark
    [r EXCEPT !.claimedBy = w, !.lease = "fresh", !.attempts = @ + 1]

ClaimedRow(r, w) == [r EXCEPT !.status = "judging", !.claimedBy = w,
                              !.lease = "fresh", !.attempts = @ + 1]

RequeuedRowKeepsLease(r) ==     \* mutant: heartbeat_at is not cleared
    [r EXCEPT !.status = "queued", !.claimedBy = NoWorker]

\* Taken back from whoever held it; the verdict is left alone.
RequeuedRow(r) == [r EXCEPT !.status = "queued", !.claimedBy = NoWorker,
                            !.lease = "none"]

FinalRow(r, v) == [r EXCEPT !.status = "done", !.verdict = v,
                            !.claimedBy = NoWorker, !.lease = "none"]

ReclaimedRowNoCap(r) ==         \* mutant: reclaimed for ever
    [RequeuedRow(r) EXCEPT !.verdict = "none"]

\* reclaimStale: the CASE on attempts.
ReclaimedRow(r) ==
    IF r.attempts >= MaxAttempts
    THEN FinalRow(r, "internal_error")
    ELSE [RequeuedRow(r) EXCEPT !.verdict = "none"]

FailedRowOneMore(r, attempts) == \* mutant: off by one
    IF attempts > MaxAttempts
    THEN FinalRow(r, "internal_error")
    ELSE RequeuedRow(r)

\* onJudgeFailure decides with the copy of attempts the claim returned.
FailedRow(r, attempts) ==
    IF attempts >= MaxAttempts
    THEN FinalRow(r, "internal_error")
    ELSE RequeuedRow(r)

WithStatus(st) == {s \in Sub : row[s].status = st}
StaleWithTries ==               \* mutant: rows without tries left are not looked for
    {s \in WithStatus("judging") : row[s].lease = "expired" /\ row[s].attempts < MaxAttempts}
StaleAny == WithStatus("judging") \* mutant: the lease is not looked at
Stale == {s \in WithStatus("judging") : row[s].lease = "expired"}

FreeNo(w, s) ==
    LET taken == {h.no : h \in {g \in handlers : g.by = w /\ g.sub = s}}
    IN  CHOOSE n \in 0..MaxHandlers : n \notin taken \/ 0..MaxHandlers \subseteq taken

HandlersOf(w) == {h \in handlers : h.by = w}

\* Ids some worker process still deals with.
Busy == {h.sub : h \in handlers} \cup UNION {picked[w] : w \in Worker}

AttendedUnread(s) ==            \* mutant: no heartbeats for what is in flight
    \E w \in up : row[s].claimedBy = w /\ s \in picked[w]

\* A live worker sends heartbeats for s, or is just reading it back.
Attended(s) == \E w \in up : /\ row[s].claimedBy = w
                             /\ s \in inFlight[w] \cup picked[w]

\* ORDER BY priority DESC, id ASC
Before(s, t) == \/ Priority[s] > Priority[t]
                \/ Priority[s] = Priority[t] /\ s < t

\* ... LIMIT n
FirstOf(Q, n) == {s \in Q : Cardinality({t \in Q : Before(t, s)}) < n}

-----------------------------------------------------------------------------
(* The API *)

\* POST /: the row is inserted as queued. (NOTIFY only makes a claim come
\* sooner: the poll of the worker's main loop would find the row anyway.)
Submit(s) ==
    /\ row[s].status = "absent"
    /\ row' = [row EXCEPT ![s] = EnqueuedRow(@)]
    /\ UNCHANGED <<results, wiping, up, draining, picked, inFlight,
                   handlers, stops, rejudges>>

\* POST /:id/rejudge, /rejudge and /problems/:id/rejudge: enqueue's UPDATE.
\* Bound: one request at a time.
Rejudge(S) ==
    /\ rejudges < MaxRejudges
    /\ wiping = {}
    /\ S # {}
    /\ S \cap WithStatus("absent") = {}
    /\ "rejudgeInFlight" \in Adverse \/ S \cap Busy = {}
    /\ row' = [s \in Sub |-> IF s \in S THEN EnqueuedRow(row[s]) ELSE row[s]]
    /\ wiping' = S
    /\ rejudges' = rejudges + 1
    /\ UNCHANGED <<results, up, draining, picked, inFlight, handlers, stops>>

WipeResultsSkipped ==           \* mutant: the old results stay
    /\ wiping # {}
    /\ wiping' = {}
    /\ UNCHANGED <<row, results, up, draining, picked, inFlight, handlers, stops,
                   rejudges>>

\* enqueue's DELETE of the old results.
WipeResults ==
    /\ wiping # {}
    /\ results' = [s \in Sub |-> IF s \in wiping THEN 0 ELSE results[s]]
    /\ wiping' = {}
    /\ UNCHANGED <<row, up, draining, picked, inFlight, handlers, stops,
                   rejudges>>

\* The API stops, or loses the database, between the two statements.
WipeLost ==
    /\ "splitRejudge" \in Adverse
    /\ wiping # {}
    /\ wiping' = {}
    /\ UNCHANGED <<row, results, up, draining, picked, inFlight, handlers,
                   stops, rejudges>>

-----------------------------------------------------------------------------
(* The worker: main loop *)

FreeSlotsAll(w) == Capacity      \* mutant: what is in flight is not counted

FreeSlots(w) == Capacity - Cardinality(inFlight[w])

\* claimNext's UPDATE for the free slots of w. The main loop makes one claim
\* at a time. The first bound is of the model, MaxHandlers.
Claim(w) ==
    LET ids == FirstOf(WithStatus("queued"), FreeSlots(w))
    IN  /\ w \in up \ draining
        /\ picked[w] = {}
        /\ Cardinality(handlers) < MaxHandlers
        /\ FreeSlots(w) > 0
        /\ ids # {}
        /\ "slowExit" \in Adverse \/ ids \cap {h.sub : h \in HandlersOf(w)} = {}
        /\ "splitRejudge" \in Adverse \/ ids \cap wiping = {}
        /\ row' = [s \in Sub |-> IF s \in ids THEN ClaimedRow(row[s], w) ELSE row[s]]
        /\ picked' = [picked EXCEPT ![w] = ids]
        /\ UNCHANGED <<results, wiping, up, draining, inFlight, handlers,
                       stops, rejudges>>

\* claimNext's SELECT: the rows as they are by then. A handler starts for each.
StartHandlers(w) ==
    /\ w \in up
    /\ picked[w] # {}
    /\ handlers' = handlers \cup
         {[by |-> w, sub |-> s, no |-> FreeNo(w, s), attempts |-> row[s].attempts,
           phase |-> "judging"] : s \in picked[w]}
    /\ inFlight' = [inFlight EXCEPT ![w] = @ \cup picked[w]]
    /\ picked' = [picked EXCEPT ![w] = {}]
    /\ UNCHANGED <<row, results, wiping, up, draining, stops, rejudges>>

\* The SELECT fails: the loop logs it and goes on with no rows. What the
\* UPDATE marked stays marked until its lease runs out.
ClaimReadFails(w) ==
    /\ w \in up
    /\ picked[w] # {}
    /\ picked' = [picked EXCEPT ![w] = {}]
    /\ UNCHANGED <<row, results, wiping, up, draining, inFlight, handlers,
                   stops, rejudges>>

-----------------------------------------------------------------------------
(* The worker: handleOne *)

ToExitNot(h) == UNCHANGED handlers \* mutant: the handler may write again

\* The handler has its outcome; `finally` comes later.
ToExit(h) == handlers' = (handlers \ {h}) \cup {[h EXCEPT !.phase = "exit"]}

\* judge ends in finalize: results and row in one transaction, by id alone.
Finalize(h, v) ==
    /\ h.phase = "judging"
    /\ row' = [row EXCEPT ![h.sub] = FinalRow(@, v)]
    /\ results' = IF v \in TestedVerdict
                  THEN [results EXCEPT ![h.sub] = @ + 1]
                  ELSE results
    /\ ToExit(h)
    /\ UNCHANGED <<wiping, up, draining, picked, inFlight, stops, rejudges>>

\* judge threw: onJudgeFailure gives the row back or gives up on it, by id alone.
JudgeFailure(h) ==
    /\ h.phase = "judging"
    /\ row' = [row EXCEPT ![h.sub] = FailedRow(@, h.attempts)]
    /\ ToExit(h)
    /\ UNCHANGED <<results, wiping, up, draining, picked, inFlight, stops,
                   rejudges>>

\* judge threw and the failure could not be written either.
FailureNotRecorded(h) ==
    /\ h.phase = "judging"
    /\ ToExit(h)
    /\ UNCHANGED <<row, results, wiping, up, draining, picked, inFlight,
                   stops, rejudges>>

\* `finally`: inFlight is keyed by the id, whoever else runs under it.
HandlerExit(h) ==
    /\ h.phase = "exit"
    /\ handlers' = handlers \ {h}
    /\ inFlight' = [inFlight EXCEPT ![h.by] = @ \ {h.sub}]
    /\ UNCHANGED <<row, results, wiping, up, draining, picked, stops, rejudges>>

-----------------------------------------------------------------------------
(* The worker: leases *)

\* heartbeat: only rows this worker still owns.
Heartbeat(w) ==
    LET mine == {s \in inFlight[w] : row[s].claimedBy = w /\ row[s].status = "judging"}
    IN  /\ w \in up
        /\ \E s \in mine : row[s].lease = "expired"
        /\ row' = [s \in Sub |-> IF s \in mine THEN [row[s] EXCEPT !.lease = "fresh"]
                                               ELSE row[s]]
        /\ UNCHANGED <<results, wiping, up, draining, picked, inFlight,
                       handlers, stops, rejudges>>

ExpireLease(s) ==
    /\ row[s].lease = "fresh"
    /\ row' = [row EXCEPT ![s].lease = "expired"]
    /\ UNCHANGED <<results, wiping, up, draining, picked, inFlight,
                   handlers, stops, rejudges>>

\* 120 s pass and nobody sends heartbeats for s.
LeaseRunsOut(s) == ~Attended(s) /\ ExpireLease(s)

\* 120 s pass and the heartbeats of a live worker do not get through.
HeartbeatsLate(s) == "lateHeartbeat" \in Adverse /\ Attended(s) /\ ExpireLease(s)

\* reclaimLoop of any worker: one UPDATE for all stale rows.
ReclaimStale ==
    /\ up # {}
    /\ Stale # {}
    /\ row' = [s \in Sub |-> IF s \in Stale THEN ReclaimedRow(row[s]) ELSE row[s]]
    /\ UNCHANGED <<results, wiping, up, draining, picked, inFlight,
                   handlers, stops, rejudges>>

-----------------------------------------------------------------------------
(* The worker: life of the process *)

\* SIGTERM or SIGINT.
Drain(w) ==
    /\ w \in up \ draining
    /\ stops < MaxStops
    /\ stops' = stops + 1
    /\ draining' = draining \cup {w}
    /\ UNCHANGED <<row, results, wiping, up, picked, inFlight, handlers,
                   rejudges>>

\* The process is gone with everything in its memory.
ProcessEnds(w) ==
    /\ up' = up \ {w}
    /\ draining' = draining \ {w}
    /\ picked' = [picked EXCEPT ![w] = {}]
    /\ inFlight' = [inFlight EXCEPT ![w] = {}]
    /\ handlers' = handlers \ HandlersOf(w)
    /\ UNCHANGED <<row, results, wiping, rejudges>>

ShutdownAtOnce(w) ==            \* mutant: what is in flight is not waited for
    /\ w \in up \cap draining
    /\ picked[w] = {}
    /\ ProcessEnds(w)
    /\ UNCHANGED stops

\* The drained main loop: the claim it waited for is over and inFlight is empty.
Shutdown(w) ==
    /\ w \in up \cap draining
    /\ picked[w] = {}
    /\ inFlight[w] = {}
    /\ ProcessEnds(w)
    /\ UNCHANGED stops

\* SIGKILL, a third signal, a lost registration, a machine that fails.
Crash(w) ==
    /\ w \in up
    /\ stops < MaxStops
    /\ stops' = stops + 1
    /\ ProcessEnds(w)

\* systemd starts the worker again.
Restart(w) ==
    /\ w \in Worker \ up
    /\ up' = up \cup {w}
    /\ UNCHANGED <<row, results, wiping, draining, picked, inFlight,
                   handlers, stops, rejudges>>

-----------------------------------------------------------------------------

Init ==
    /\ row = [s \in Sub |-> AbsentRow]
    /\ results = [s \in Sub |-> 0]
    /\ wiping = {}
    /\ up = Worker
    /\ draining = {}
    /\ picked = [w \in Worker |-> {}]
    /\ inFlight = [w \in Worker |-> {}]
    /\ handlers = {}
    /\ stops = 0
    /\ rejudges = 0

Next ==
    \/ \E s \in Sub : Submit(s) \/ LeaseRunsOut(s) \/ HeartbeatsLate(s)
    \/ \E S \in SUBSET Sub : Rejudge(S)
    \/ WipeResults
    \/ WipeLost
    \/ \E w \in Worker : Claim(w) \/ StartHandlers(w) \/ ClaimReadFails(w)
    \/ \E h \in handlers, v \in FinalVerdict : Finalize(h, v)
    \/ \E h \in handlers : JudgeFailure(h) \/ FailureNotRecorded(h) \/ HandlerExit(h)
    \/ \E w \in Worker : Heartbeat(w)
    \/ ReclaimStale
    \/ \E w \in Worker : Drain(w) \/ Shutdown(w) \/ Crash(w) \/ Restart(w)

Spec == Init /\ [][Next]_vars

HandlerSteps(w, s) ==
    \E h \in handlers :
        /\ h.by = w
        /\ h.sub = s
        /\ \/ \E v \in FinalVerdict : Finalize(h, v)
           \/ JudgeFailure(h)
           \/ FailureNotRecorded(h)
           \/ HandlerExit(h)

Fairness ==
    /\ WF_vars(WipeResults \/ WipeLost)
    /\ WF_vars(ReclaimStale)
    /\ \A w \in Worker :
        /\ WF_vars(Claim(w))
        /\ WF_vars(StartHandlers(w) \/ ClaimReadFails(w))
        /\ WF_vars(Shutdown(w))
        /\ WF_vars(Restart(w))
        /\ \A s \in Sub : WF_vars(HandlerSteps(w, s))
    /\ \A s \in Sub : WF_vars(LeaseRunsOut(s))

FairSpec == Spec /\ Fairness

-----------------------------------------------------------------------------
(* Properties that hold whatever is in Adverse *)

\* Every variable has its type (the columns of packages/db/src/schema/submissions.ts).
TypeOK ==
    /\ row \in [Sub -> Row]
    /\ results \in [Sub -> Nat]
    /\ wiping \subseteq Sub
    /\ up \subseteq Worker
    /\ draining \subseteq up
    /\ picked \in [Worker -> SUBSET Sub]
    /\ inFlight \in [Worker -> SUBSET Sub]
    /\ handlers \subseteq Handler
    /\ stops \in Nat
    /\ rejudges \in Nat

\* "judging" is the ownership: a row has an owner and a lease exactly while it is
\* being judged, and has a verdict as soon as it is done. Six writers in three
\* files touch these columns, each sets them by hand.
OwnedRow(r) ==
    /\ r.status = "judging" <=> r.claimedBy # NoWorker
    /\ r.status = "judging" <=> r.lease # "none"
    /\ r.status = "done" => r.verdict # "none"

OwnedWhileJudging == \A s \in Sub : OwnedRow(row[s])

\* A worker never tracks more submissions than WORKER_CAPACITY, with the rows it
\* has marked and not read back: the slots computed before a claim are still there
\* when the claim is over.
SlotsRespected == \A w \in Worker : Cardinality(inFlight[w] \cup picked[w]) <= Capacity

\* Every submission put in the queue ends with a verdict, through crashes, lost
\* claims, unrecorded failures, stale workers and rejudges: nothing is lost, and
\* nothing is retried for ever.
EveryJudged == \A s \in Sub : row[s].status = "queued" ~> row[s].status = "done"

-----------------------------------------------------------------------------
(* Properties that need Adverse = {} *)

\* No submission is judged by two handlers at a time, of one worker or of two
\* (what SKIP LOCKED, the lease and the ownership mark are for).
SoleHandler ==
    \A g, h \in handlers :
        g.sub = h.sub /\ g.phase = "judging" /\ h.phase = "judging" => g = h

\* A handler that still judges owns its row, and its copy of attempts is the
\* row's: finalize and onJudgeFailure may write by id alone.
HandlerOwnsRow ==
    \A h \in handlers : h.phase = "judging" =>
        /\ row[h.sub].status = "judging"
        /\ row[h.sub].claimedBy = h.by
        /\ row[h.sub].attempts = h.attempts

\* inFlight is what the worker is judging: the heartbeats, the free slots and the
\* orderly stop rely on it.
InFlightIsHandlers ==
    \A w \in Worker : inFlight[w] = {h.sub : h \in HandlersOf(w)}

\* A submission has the results of one run when its verdict came from tests, and
\* none otherwise, except while a rejudge is deleting the old ones.
ResultsMatchVerdict ==
    \A s \in Sub \ wiping :
        /\ row[s].status = "done" /\ row[s].verdict \in TestedVerdict
               => results[s] = 1
        /\ ~(row[s].status = "done" /\ row[s].verdict \in TestedVerdict)
               => results[s] = 0

\* At no time are the results of two runs stored for one submission ("if they are
\* not deleted they mix with the new results", comment of enqueue).
ResultsNotMixed == \A s \in Sub : results[s] <= 1

\* A submission is claimed at most MaxAttempts times before it gets its verdict.
AttemptsBounded == \A s \in Sub : row[s].attempts <= MaxAttempts

\* A verdict is there only while the status is "done".
VerdictOnlyWhenDone ==
    \A s \in Sub : row[s].verdict # "none" => row[s].status = "done"

\* A verdict stands until staff ask for a rejudge: no late handler, reclaim or
\* failure reopens or replaces it.
VerdictStands ==
    [][\A s \in Sub : row[s].status = "done" => row'[s] = row[s] \/ s \in wiping']_vars

\* A worker told to stop ends only when none of its handlers judges any more.
DrainFinishesWork ==
    [][\A w \in draining : w \notin up' /\ stops' = stops => HandlersOf(w) = {}]_vars

\* The rest of what has to hold for the properties above to be kept by every step:
\* a process that has ended left nothing behind, a worker has one call for a
\* submission, a row that is being read back is fresh and nobody else's, a lease
\* does not run out under a handler that judges, a row that waits has tries left,
\* and a row whose results are being deleted waits.
ProcessMemory ==
    /\ \A h \in handlers : h.by \in up
    /\ \A w \in Worker \ up : picked[w] = {} /\ inFlight[w] = {}

OneCallEach == \A g, h \in handlers : g.by = h.by /\ g.sub = h.sub => g = h

PickedIsFresh ==
    \A w \in Worker : \A s \in picked[w] :
        /\ row[s].status = "judging"
        /\ row[s].claimedBy = w
        /\ row[s].lease = "fresh"
        /\ s \notin inFlight[w]

JudgedIsFresh ==
    \A h \in handlers : h.phase = "judging" => row[h.sub].lease = "fresh"

TriesLeft ==
    \A s \in Sub : row[s].status = "queued" => row[s].attempts < MaxAttempts

WipedIsQueued == \A s \in wiping : row[s].status = "queued"

\* The inductive invariant: each part is needed by another to be kept.
CalmInv ==
    /\ TypeOK
    /\ OwnedWhileJudging
    /\ HandlerOwnsRow
    /\ InFlightIsHandlers
    /\ ResultsMatchVerdict
    /\ AttemptsBounded
    /\ VerdictOnlyWhenDone
    /\ ProcessMemory
    /\ OneCallEach
    /\ PickedIsFresh
    /\ JudgedIsFresh
    /\ TriesLeft
    /\ WipedIsQueued

\* The jobs of the abstract specification: the old results that a rejudge has yet
\* to delete do not count.
jobs == [s \in Sub |-> [status |-> row[s].status, verdict |-> row[s].verdict,
                        tries |-> row[s].attempts,
                        results |-> IF s \in wiping THEN 0 ELSE results[s]]]

Lifecycle == INSTANCE SubmissionLifecycle WITH MaxTries <- MaxAttempts, job <- jobs

\* The queue keeps the promise of SubmissionLifecycle: workers, leases, crashes and
\* the two statements of a rejudge are invisible from outside.
ImplementsLifecycle == Lifecycle!Spec

=============================================================================
