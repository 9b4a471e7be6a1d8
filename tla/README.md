# OJIK in TLA+

OJIK is an online judge: a web client, an API (`src/apps/api`), judge workers
(`src/apps/worker`) and a PostgreSQL database (`src/packages/db`) which is also the
judge queue. This directory holds TLA+ modules of the parts whose behaviour is hard to
test, the TLC configurations that check them on small instances, and machine-checked
proofs. `PROJECT.json` maps every definition to the lines it models and lists runs,
mutants, findings, hazards and theorems.

    tlc -workers 2 -config MCJudgeQueue_calm.cfg MCJudgeQueue
    tlc -workers 2 -config MCCollections.cfg MCCollections
    tlapm JudgeQueueProofs.tla
    tlapm CollectionsProofs.tla
    tlapm RunnerPoolProofs.tla
    tlapm JudgeRunProofs.tla
    tlapm GradingProofs.tla
    tlapm CommunityProofs.tla
    tlapm ReadingProofs.tla
    tlapm WebProofs.tla

## 1. The system

| Component | State it keeps | Operations | What is hard | What makes it correct |
|---|---|---|---|---|
| Judge queue (`packages/db/src/queue.ts`, `apps/worker/src/index.ts`, `finalize` in `judge.ts`, `routes/submissions.ts`) | `submissions` rows (status, verdict, claimed_by, attempts, heartbeat_at), `submission_results`, per worker `inFlight` and `draining` | submit, rejudge (`enqueue`), `claimNext`, `handleOne`, `finalize`, `onJudgeFailure`, `heartbeat`, `reclaimStale`, SIGTERM, crash, restart | several workers, two-statement operations, leases against late handlers, crash at any point | one handler per submission, a handler that writes owns its row, results belong to the verdict, every submission ends with a verdict |
| Runner pool (`pool.ts`) | free boxes and waiters per runner, containers up / starting | `acquire`, `release`, `ensureRunner`, `initBox` | hold-and-wait of run boxes and checker box, failures of every sandbox call, waiters to be woken | no box lost or lent twice, no call hangs, no container replaced under a submission |
| Judging one submission (`judge.ts`, `specialjudge.ts`, `verdict.ts`) | boxes of the call, the closure of `runTestcases` (`next`, `stopped`, `judged`, `outcomes`), the checker box, the row | compile, drain per box, checker, progress writes, `finalize` | drains in parallel, stop at the first failure, one drain throwing, a retry after it | verdict, score, failing case and progress do not depend on the order of the drains |
| Worker registration (`index.ts` 205-266, 293-303) | row of `judge_workers` | check, upsert, heartbeat by pid, delete | check and upsert are two statements, deletion does not look at the pid | one process per WORKER_ID |
| Worker wake-up (`index.ts` 32, 59-74, 137-148) | `wake` | NOTIFY, poke, poll | a poke without anybody waiting is lost | the poll finds what a lost poke announced |
| Answer grading and accept counters (`routes/submissions.ts` 100-189, `judge.ts` 431-455, `scripts/recount.ts`) | accepted_count, solved_count, submission_count | grade, count first accept, recount | two first accepts at once, a submission finalized twice, a deletion, a rejudge | counters equal what recount computes |
| Test case store (`routes/problems.ts`, `storage.ts`, `scripts/check-data.ts`) | files and `testcases` rows, testcase_version | replace, import, delete, export | files before rows, failures between, a judge or an export that reads between | a version is one set of cases |
| Problems and access (`routes/problems.ts`, `access.ts`, `core/roles.ts`) | visibility, owner, items of collections | view, submit, edit, move, publish | owner, staff, running contests and courses overlap; rules written in SQL and again in TypeScript | pages, lists and profile agree |
| Collections (`routes/collections.ts`, `core/collections.ts`) | five axes, members and roles, items, personal windows | create, patch, items, import, members, role, remove, join, start | what was read is stale when it is written | axes fit, somebody manages, a window starts once |
| Scoreboard (`db/src/scoreboard.ts`, `routes/collections.ts`) | none, computed | boards, freeze, grade matrix | order of submissions, boundary instants, late verdicts | the queries give what the rules of a contest say |
| Solutions and comments (`routes/solutions.ts`, `core/solutions.ts`) | posts, comments, comment_count | write, delete, comment | quota counted before the insert, counter against rows | the counter is the number of visible comments |
| Accounts (`routes/auth.ts`, `routes/meta.ts`, the roster in `routes/collections.ts`) | users, addresses, roles, consents | register, addresses, primary, roles, roster | limits and last ones counted before the write | one primary address, unique names, an administrator |
| Text formats (`core/checker.ts`, `problemkind.ts`, `roster.ts`, `bulk.ts`, `web/lib/svgshapes.ts`) | none | compare, fill in, read, write | blank lines, quotes, headings, defaults | what is written reads back the same |
| Editor and uploads (`MarkdownInput.svelte`, `SvgDraw.svelte`, `routes/uploads.ts`, `storage.ts`) | the text, uploads under way, the board, files | type, upload, draw, save | several uploads at once, stale positions, a crash while writing | placeholders vanish, drawings and pictures stay whole |
| Screens and drafts (`apps/web/src/routes`, `lib/ProblemEditor.svelte`) | route, requests on the way, what is shown, localStorage | load, poll, navigate, write, save, submit | answers out of order, polling that stops, timers | what is shown, saved and kept belongs to its route |
| Others | | | | languages, isolate command lines, judge environment, sessions, migrations, tests and seeding: listed in PROJECT.json with the reason they are left out |

The API puts a row into the queue by inserting it. Workers claim rows (`claimNext`), start
one `handleOne` per row, which calls `judge`; `judge` borrows boxes from the worker's
pool, runs the test cases and calls `finalize`, which writes results and row in one
transaction. `heartbeatLoop` keeps the leases of `inFlight`, `reclaimLoop` of any worker
takes rows back whose lease ran out. A rejudge (`enqueue`) puts rows back from the API
side. Nothing but the row connects the processes.

Every other request of the API is a handful of awaits: it reads, decides, and writes in a
later statement or transaction. Nothing but the unique indexes of the database keeps two
of them apart, so the modules of the API model a request as a Begin that reads and a
Write that carries what was read. The client sends one request per button and per timer,
cancels none, and takes answers as they come.

## 2. The modules

| Module | What it is |
|---|---|
| `SubmissionLifecycle` | the abstract promise of the queue: one submission waits, is tried, goes back or ends, together with its results; a rejudge forgets everything at once |
| `JudgeQueue` | the queue in detail, refines `SubmissionLifecycle` |
| `JudgeQueueProofs` | theorems about `JudgeQueue`, its steps, and its refinement of `SubmissionLifecycle` |
| `RunnerPool` | the pool of boxes and the order in which judge calls take and return them |
| `JudgeRun` | one submission inside a worker, over several tries |
| `WorkerRegistry` | the processes started under one WORKER_ID, their row and their containers |
| `Access` | the tables of users, collections, members, items, problems and submissions, and the rules over them: who sees, edits, submits, and when verdicts are shown, in both forms where the code has two |
| `Collections` | the requests that write those tables, two of them at a time; extends `Access` |
| `CollectionsProofs` | theorems about `Collections` and the rules of `Access` |
| `RunnerPoolProofs` | theorems about `RunnerPool` and `WorkerRegistry` |
| `JudgeRunProofs` | theorems about `JudgeRun` |
| `GradingProofs` | theorems about `Grading` and the store below it |
| `CommunityProofs` | theorems about `Community` and the accounts below it |
| `ReadingProofs` | theorems about `Scoreboard` and `Formats` |
| `WebProofs` | theorems about `Drafts` and the screens below it, and about `Editor` |
| `TestcaseStore` | test cases as rows and files, and the requests that replace both |
| `Grading` | submissions of both kinds graded over `TestcaseStore` while it is edited, the accept counters, recount; extends `TestcaseStore` |
| `Accounts` | accounts, addresses, roles, rosters |
| `Community` | solutions and comments beside the accounts; extends `Accounts` |
| `Scoreboard` | boards as the queries compute them, against the rules read submission after submission |
| `Formats` | what is compared, read and written as text, as operators over short texts |
| `Editor` | the Markdown field, its drawing board and the uploads on both sides; extends `Formats` for the drawings |
| `Screens` | one screen of the client: loads, polling, navigation, writes, forms |
| `Drafts` | the submission forms and localStorage over `Screens`; the whole tab |
| `MCJudgeQueue`, `MCRunnerPool`, `MCJudgeRun`, `MCWorkerRegistry`, `MCCollections`, `MCGrading`, `MCCommunity`, `MCScoreboard`, `MCFormats`, `MCWeb` | instances for TLC |

### JudgeQueue

One action is one database statement or transaction, or one step between two awaits of a
worker. `row[s]` has the queue columns; `lease` stands for heartbeat_at (absent, younger
or older than 120 s). `picked[w]` holds the rows that `claimNext`'s UPDATE marked and its
SELECT has not read back. `handlers` are the running `handleOne` calls with the copy of
`attempts` they decide by; phase `exit` is between the outcome and `finally`.
`SKIP LOCKED` and NOTIFY have no state of their own: a row locked by another claim is
simply not claimed now, and a lost NOTIFY is a delay, since the main loop polls.

The code has no guard against four things which time normally prevents. They are members
of the constant `Adverse`, so that what holds without them and what holds in any case are
separate statements:

- `lateHeartbeat`: a live worker's heartbeats stay away longer than the lease;
- `rejudgeInFlight`: a rejudge hits a submission which some worker is dealing with;
- `slowExit`: a worker claims again what one of its handlers gave back before that handler ran `finally`;
- `splitRejudge`: a claim, or the end of the API process, comes between the UPDATE and the DELETE of `enqueue`.

Only kinds that a worker judges are in this model; the answer kind is in `Grading`.

### RunnerPool

Boxes are `Replicas * (ceil(Capacity * TcParallel / Replicas) + 1)` per runner, as the
constructor computes. A judge call takes its run boxes one after the other, then perhaps a
checker box, possibly of the same runner, and releases them in `finally`. The source says
that the one spare box is for compilation that overlaps runs; the model shows another use:
without it (mutant `BoxesPerContainerNoSpare`) all calls hold one box and wait for a checker
box for ever. The free boxes are a set: which one is popped makes no difference to the
properties.

### JudgeRun

`Judge` borrows the boxes in one step (the waiting is `RunnerPool`'s), `CompileOk` starts a
drain per box, and a drain is a program of its own: next case, run, perhaps check, push,
write the progress, stop or go on. `problem` is chosen once: the verdict each case deserves,
points, whether to stop at the first failure, whether there is a checker program. A run
gives what the program deserves unless another program used the box at the same time. The
three files of the checker are written in one step. A later call of `judge` is the retry after
`onJudgeFailure`; giving up after `MAX_JUDGE_ATTEMPTS` is in `JudgeQueue`. Drains of a failed
call go on beside it. The history variable `clashed` holds the calls that began while such
drains were at work and those that had two drains at the checker at once: there a verdict may
be undeserved (`EveryOutcomeDeserved`, section 5), and the properties are about all other calls.

### WorkerRegistry

A process is one incarnation (a host, a pid) that starts once; a restart is the start of
another. The check of the row and its upsert are two actions. `silent` stands for a
`lastSeenAt` older than 120 s. `container[h]` is the process whose runner containers are on
a host: their names have only the WORKER_ID in them, so the next process that needs one
removes it. Two timings are members of `Adverse`: an overlap of two checks, and heartbeats
of a live process that stay away. A draining process counts as working until its last
submission is over. The queue model's worker is the one process that works in the end.

### Access and Collections

A variable is a table; `course[c]` is a row of `collections` with its five axes, window and
owner, `member[c][u]` the row of a member. `Access` has the rules as operators: the ones of
`access.ts` for one row, and the conditions of the queries behind the lists, the profile and
the pages, which repeat them. `Collections` has a Begin for the read and the check of every
writing request and a Write for its transaction; `flight` holds the requests between the two,
with the values they decided by. Nothing in the code orders requests and nothing in the model
does: every one may come between the read and the write of every other. What that breaks is
remembered by two history variables. A request in flight is in `outdated` once another has
written what it decided by (`Upsets`): a PATCH, when another PATCH wrote a column of a rule of
`validateAxes` that it writes to as well; a start, when the member has started meanwhile; a change
of a role, when managers were taken away. A collection is in `mixed` while the last PATCH that
wrote it was outdated. `AxesStayValid` and `MembershipKept` hold for everything else, and fail
in the run when any of the three kinds of `Upsets` is taken out (hazards at
`collections.ts` 378, 914 and 556).

### TestcaseStore and Grading

`rows[p]` is what the database says of each test case (the hash is the body it was computed
from, after CR LF became LF), `files[p]` what the directory holds. PUT clears the directory,
writes a file at a time and then replaces the rows; it may end between any two. `torn` remembers the problems whose last edit
failed or overlapped another, `alone` that an edit ran by itself. `Grading` adds submissions: a grading reads the
problem, the rows and then a file at a time, opens its transaction (where the first accept is
counted, of what is committed) and commits. Leases are `JudgeQueue`'s; here a claim takes any
queued row, including those of the answer kind. `unsure` remembers the users and problems
whose count the source itself does not promise: after a rejudge of an accepted submission, a
deletion, two first accepts at once.

### Accounts and Community

A user row, the set of addresses, and requests in flight. `hurried` remembers what two
overlapping requests were about; the limits and "last one" rules are claimed for the others.
Unique handles and addresses are claimed in any case, since indexes enforce them at the write. A
roster line reads inside its transaction. `Community` adds the posts, the comments and the
day the quota counts by.

### Scoreboard

No state but submissions; the boards are the SQL of `scoreboard.ts` as set expressions.
`Standing` is independent of them: a recursive function of the number of submissions read,
which keeps what a contestant has on a problem (`Enter`): whether it is solved, the penalty so
far, and the moment and the penalty of the last rejections, which an accepted submission of
the same moment takes back, as the query's `<` does. The queries are compared with it at every
reachable state, for the cutoff of members and of managers.

### Formats and Editor

`Formats` has operators for the pure functions and a trivial behaviour that writes texts
symbol by symbol, so that every text up to the bounds is a reachable state. Symbols are what
the functions tell apart (a digit, a blank, CR, LF, a quote, kinds of lines), not characters.
`Editor` has the text as marks, with the two-mark placeholder and the three-mark address of an
upload, so that replacing one moves what follows. The drawing in the text is the output of
`Formats`' writer. The server's side of an upload is three actions (look for the file, open,
close), and a crash may come between them. Three history variables say what is not claimed:
`broken` holds the uploads (and `AllDrawings`) that a person has cut in two with a key, a paste or a new drawing
over what was selected, `torn` those that the field itself has cut, when the next placeholder of several
replaces the selection of before the last answer changed the text, and `shifted` that the text has changed before
or in the drawing which the open board is to replace. The board is an overlay that keeps no keys from the field:
one can type, paste and press its button again under it, and only a shape that is picked takes the keys that erase. `unsafe` holds the pictures that two requests wrote at
once or a crash cut short.

### Screens and Drafts

One tab. A screen is a record of traits (why it polls, whether a new route empties it, how it
writes), one record for each page of `routes` and for `ProblemEditor`; all of them run through the same actions.
`asked` are the GETs on the way, in order; answers are served and arrive
in any order. `crossed` and `hasty` remember that an answer was overtaken, and that a form was
saved before it was filled: what goes wrong after that is listed among the findings. `Drafts` adds the three submission forms
with their two effects and the 800 ms timer.

## 3. Runs

| Run | Bounds | What it shows |
|---|---|---|
| `queue_calm` | 2 workers of capacity 1, 2 submissions (one with contest priority), 3 attempts, 2 crashes or stops, 1 rejudge of any subset, `Adverse = {}` | one handler per submission, ownership of the writer, `inFlight`, results against verdict, attempts, slots, the inductive invariant; a verdict stands, an orderly stop abandons nothing, refinement of `SubmissionLifecycle` |
| `queue_adverse` | 2 workers of capacity 2, 1 submission, 2 attempts, 1 stop, 1 rejudge, everything adverse | the ownership columns agree whatever happens, and every submission is judged in the end |
| `queue_rejudge` (violation) | 1 submission, 2 workers, 1 rejudge in flight | results of two runs are stored for one submission |
| `runner_pool` | 3 calls of capacity 3, 1 runner of 4 boxes, checker or not | boxes are conserved, nobody is stranded, no start under a submission, every call ends, no deadlock |
| `judge_run` | up to 3 cases, 2 boxes, with and without a checker program, 2 tries of up to 2 cases or 1 of 3; points of 30 where the first failure stops the run, none elsewhere | prefix, verdict, score, failing case, progress, boxes returned, beside the drains of a failed try |
| `registry` | 4 processes on 2 hosts, distinct pids, everything adverse | a refused process touches no container, in the end at most one works |
| `collections` | 2 collections, 2 problems, 3 users of whom 2 send requests, 3 requests with 2 in flight, 1 submission, times 0 to 2; two worlds: an exam with a lecture, a contest with hidden verdicts | lists open what they show and show what opens, the hiding of verdicts is one rule, the axes fit, windows and managers are kept |
| `archive` | 1 problem of either kind, 2 edits, lists of one and two cases, 2 submissions, 2 tries, 1 rejudge, 1 recount, 3 requests in all | files match rows, a version tells the cases, counters are right |
| `people` | 2 accounts and a third, 3 handles, 3 addresses of 2 allowed, 1 post, 2 comments, with and without a commented post at the beginning, quota 1, 2 days, 3 requests with 2 in flight | unique names, primary address, administrator, roster, comment counter, quota |
| `contest` | 1 member, 2 problems, 3 submissions, 1 rejudge, times 0 to 3 of half minutes, with and without freeze; the two problems are symmetric | queries equal rules, late submissions change nothing |
| `files` | texts of 3 characters (two of them; a list entry is two cells of 3), 5 lines, 4 items, 2 shapes, all single records; editor with 2 pictures, 1 key, 2 openings of the board, 1 crash, 3 of them together, and 2 pictures only without a board | comparisons nest, formats round-trip, uploads settle, drawings and pictures stay whole |
| `web` | 19 screens, 2 routes, 2 GETs on the way, 1 failure, 1 navigation, 2 writes, 1 verdict, 1 reload | screens agree with their route and come to rest at what the server has; drafts stay with their problem and language |

A run of `PROJECT.json` checks a definition that says several named things where they are about
one state: `FormatsSound`, `EditorSound`, `AccountsSound`, `CommunitySound`, `WebSound`,
`AsIfSerial`, `AcceptedEarned`, `PoolSound` and `RegistrySound` are conjunctions; a run of one
conjunct is the same cfg with its name.

Why the bounds are enough to be interesting: two workers and one late or crashed handler
are what every ownership hazard needs; three attempts distinguish first, middle and last
try; the second submission makes priority and the limit of a claim matter. The pool needs
as many calls as boxes less one for hold-and-wait. Three cases over two boxes let one drain
run ahead, fail first, or finish last; two tries of two cases let drains of the first go on
beside the second, and end before it. `MaxHandlers`, `MaxStops`, `MaxRejudges`, `MaxTests`,
`MaxCalls` and `MaxWork` (cases of all tries together) bound only the model; the first limits
claims while abandoned handlers are
around, the others count environment events. `CHECK_DEADLOCK FALSE` is set where the
system may really come to rest: all submissions judged and the events used up, or the one
judge call over, the requests of the API used up. `RunnerPool` is checked for deadlock.

For the API: two requests in flight are what every read-then-write hazard needs, a third
makes the sequences (join, start, replace the members) that single pairs miss. A list that is
longer than the one before and one that is shorter let files of two lists mix. Two shapes let
one be picked, removed and undone. Two openings of the board let it be opened again while it is open, and a drawing
be opened that was just put back; three pictures, the least with which the placeholder of a next one cuts another
that still waits, are left to the proof. Two GETs on the way are enough for an answer to be
overtaken.

Fairness (`FairSpec`). Queue: a claim is fair because the main loop polls every
`POLL_INTERVAL_MS`; a handler goes on because every sandbox run is limited; a worker comes
back because systemd restarts it (`deploy/ojik-worker.service`); leases run out with time and
`reclaimLoop` runs for ever; `enqueue` ends or its process does. Crashes, stops, late
heartbeats and rejudges are never fair, and they are bounded, so the environment
eventually rests. Registry: only that a started process gets on with starting and that
`heartbeatLoop` runs. Pool: `docker exec` has no timeout in the code; that it returns is assumed.
Judging: drains and the call go on, and a program ends at its limits. Client: the network answers or
fails, intervals tick, judging ends; nobody has to press a button. The other modules have no
fairness, for nothing in them must happen.

## 4. Proofs

`JudgeQueueProofs` proves for all workers, submissions, capacities, attempts and bounds:

| Theorem | Statement | Assumes |
|---|---|---|
| `TypeCorrect` | `Spec => []TypeOK` | nothing |
| `Ownership` | `Spec => []OwnedWhileJudging` | nothing: holds with everything adverse |
| `CalmCorrect` | `Spec => []CalmInv` | `Adverse = {}` |
| `OneJudge`, `WritersOwn`, `ResultsOfOneRun`, `TriesBounded` | `SoleHandler`, `HandlerOwnsRow`, `ResultsMatchVerdict`, `AttemptsBounded` | `Adverse = {}` |

`SoleHandler` is not inductive: that a claim finds no handler of the row needs that a judging
handler owns its row (`HandlerOwnsRow`), which a reclaim keeps only if the lease of such a
row is not expired (`JudgedIsFresh`), which holds because the lease runs out only when the
owner does not send heartbeats for it, hence because `inFlight` is exactly the ids of the
handlers (`InFlightIsHandlers`), which in turn needs one call per worker and submission
(`OneCallEach`), rows being read back that are nobody else's (`PickedIsFresh`) and an empty
memory of dead processes (`ProcessMemory`). Bounded attempts need that a waiting row has
tries left (`TriesLeft`), and the results need that a row whose results are being deleted
waits (`WipedIsQueued`). `CalmInv` is their conjunction; the proof has a lemma per group of
actions (API, claim, outcome, handler exit, lease, process), each with a step per conjunct the
action can disturb. The run `queue_calm` checks `CalmInv` itself.

`CollectionsProofs` proves, for all users, collections, problems, bodies and requests:

| Theorem | Statement | Assumes |
|---|---|---|
| `CollectionTypes` | `Spec => []CollectionsTypeOK` | nothing |
| `PagesAlwaysAgree` | `Spec => []PagesAgree` | nothing |
| `RevealRulesAlwaysAgree` | `Spec => []RevealRulesAgree` | nothing |
| `AxesFit` | `Spec => []AxesStayValid` | nothing |
| `MembershipAlwaysKept` | `Spec => MembershipKept` | nothing |

The types need that a request carries values its schema lets
pass (`Fits`) for a collection that exists (`RequestsInv`); the two forms of a rule are then compared
table by table, in any state of the right types: nothing about the order of requests
is needed for them, which is why they hold with every overlap. `AxesInv` says that a PATCH
in flight that is not outdated would still leave a row that fits: each rule of `validateAxes` compares the
columns of one member of `AxisRules`, and of every rule either the PATCH or the one that was written before
it changes no column (`UncoupledFits`). `SeatsInv` says of a start and of a demotion in flight that are not
outdated that the window is still closed, and that a collection without an owner has another
manager still. Each write is shown to move members in a way that keeps both (`MembersMove`), or to outdate
the request.

Three more theorems of `JudgeQueueProofs` build on `CalmInv`, assuming `Adverse = {}`: `VerdictsStand` (a handler
writes to the row of a submission that is being judged, so a finished row changes by a rejudge only),
`DrainedAreDone` (the loop waits for `inFlight`, and `InFlightIsHandlers` says that this leaves
out no handler) and `QueueImplements`. The last one is the refinement: `Init` maps to the initial state of
`SubmissionLifecycle`, and each action moves every submission by one step of it or not at
all. The steps that need the invariant are the claim (`TriesLeft`), the end of a
judging (`HandlerOwnsRow`, `ResultsMatchVerdict`) and the wipe after a rejudge (`WipedIsQueued`). `CapacityKept`
(`Spec => []SlotsRespected`) holds with everything adverse, for a finite `Sub`: the
LIMIT of a claim is counted by mapping each row it takes to the number of rows that come before.

`RunnerPoolProofs` proves `NoBoxLost` (`Spec => []PoolSound`) and `StartsAlone` (`Spec =>
StartDisturbsNobody`) for any runners, calls, boxes and parallelism, and any failures. `OnePlace`
says place by place what `BoxesConserved` counts. It is inductive together with `Room` (a call that asks for a box
lacks one, so it knows which runner it wants) and `OneTurn` (a call that waits stands in
one queue once, or is the heir of one box), without which a waiter could be given two boxes while it
has room for one. `StartsAlone` adds `DownMeansFull`: no box is lent before its containers are up.
`NoWaiterStranded` (`Spec => []NobodyStranded`) is a counting argument. A call is tied to a runner while it stands in its
queue, has one of its boxes in hand, or goes on with a box of it. While somebody waits
for a runner, it has no more free boxes than there are calls that are not tied to it (`FreeInv`): a box becomes
free without waking anybody only when its call fails, and that call lets go of the runner. This is inductive for
any number of boxes. If now every call with a box of the runner stood in a queue, the free boxes, at most one per
untied call, those in hand, one per call, and those held, fewer than `TcParallel + 1` per waiting
call, could not make up the number that the constructor works out, at least one more than
`TcParallel` for each call (`TooMany`).

`RunnerPoolProofs` also proves `RefusedIsHarmless`: `RegistrySpec => []RegistrySound` for any number of
processes and hosts, with equal pids among them and everything adverse. The invariant
(`RegistryInv`) adds to what is claimed that a process that works has written the row, which
tells the one whose turn it is to make containers from those that were refused.

`JudgeRunProofs` proves `EachCaseOnce` (`Spec => []PrefixJudged`) for any number of cases, boxes,
drains and calls. The invariant says of each call that a case taken from the counter is with exactly one
drain or in exactly one outcome (`Cases`), and that a drain ends only when it stopped or ran out of
cases (`Drains`); when all have ended, the outcomes are as many as the cases taken, by a
bijection. `DrainsInvisible` (`AsIfSerial`), `EachAsDeserved` (`OutcomesDeserved`) and
`AcceptedIsEarned` (`AcceptedMeansAllPass`) hold for any number of calls, with or without a checker
program. Their invariant (`OpenInv`) says that calls come one after the other, each after the failure of
the one before (`Order`), so that beside a call that is going on only drains of failed ones move; that
none moves beside one that is not `clashed` (`Lone`); and that such a call has no program but its own
in its boxes, its one checked case's files in the checker box, and outcomes that are deserved (`Right`).
The first failing case needs no existence of a minimum: what is least among
the failing outcomes is least among the failing cases and the other way round.
`RunTypes` (`Spec => []TypeOK`) is more than types: no more cases are judged or counted than there are, even by
the drains of a failed call that go on beside its retry, because outcomes inject into cases (`CountInv`).
`AcceptedIsFull` (`AcceptedEarned`) says that the score of what `finalize` has written is that of the
outcomes (`RowInv`), of a clashed call too, that outcomes in any order add up to the points of their cases, and that all of them passing
gives the full score or 100. The sums are recursive functions over a count (`PointsOf`).

`GradingProofs` proves, for any problems, bodies, lists, submissions, users, tries and requests:

- `FilesMatchRows` (`StoreMatches`). For one problem at a time (`Orderly`): an edit that is alone has written exactly the bodies
  whose hashes it has collected, one whose problem nobody else edits leaves files like its rows when it ends, and what is
  neither edited nor torn is in order.
- `VersionsTell` (`VersionTells`). `Effect` is what any step can do to a problem as seen by a grader: the rows change only with the edition, and a
  problem that was dirty gets a new version when it is clean again. A grader that
  has read rows of the edition of its version has compared with those bodies, or its problem is dirty and
  will be known as another version (`SawRows`, `Judged`).
- `GradingTypes` (`GradingTypeOK`). A row that a worker judges has that worker and is within its tries until somebody rejudges it (`TriesInv`).
- `CountersCount` (`CountersSound`). A counter is the number of accepted pairs, unless one of them is unsure, and the row whose
  accept is the first of its pair is known before it commits (`FirstRight`, `CommitsInOrder`); a step adds a
  pair to the set and one to its two counters, or neither. Before the first recount
  no counter is below the pairs that have been earned.

`CommunityProofs` proves `AccountsKept` (`Spec => []AccountsSound`) and `CommunityKept` (`Spec => []CommunitySound`) for any users,
handles, addresses, posts, comments, limits and days. Names and addresses are unique by the index alone. The rest
says what a request in flight may still rely on: a request that overlaps no other about the same account, role or comment finds what it read
(`Timely`, `RolesRequest`, `PostRequest`), and one that does puts its subject into `hurried`. Ids are given out once
(`Spent`), so that an address is deleted or made primary by the account it is of. The next primary address is the least id,
for which the library's well-founded induction gives the minimum.

`ReadingProofs` proves of the boards, for any members, windows, penalties, scores, numbers of submissions and rejudges, and a
finite set of problems (`ScoreboardAssumption`, which also says that `None` is no number, verdict or cell):

- `BoardOrdered` (`Spec => []BoardInv`), the invariant the others rest on: the moments of submissions do
  not decrease along their ids and none is in the future, and an accepted submission has the full score. The order is what lets a reading by ids agree with queries that compare moments only.
- `LateIsHidden` (`Spec => LateChangesNothing`). A step either adds a submission at the end, rewrites the verdict of
  one, or touches none (`EveryStepGoes`). If all it touches lies after the cutoff, every query selects the same ids with
  the same values (`EarlySame`), hence the same board (`FrozenBoard`); what lies after the first accepted submission is
  neither a rejection before it nor an earlier acceptance (`SolvedStays`).
- `BoardIsTheReading` (`Spec => []BoardsAgree`). After each submission the cell of `Standing` is what the queries
  would count of those read so far (`Read`): solved if one of them is accepted, then the minutes to the first and the penalty of
  the rejections before its moment; else the penalty of all rejections, with those of the last moment apart (`ReadStep`, a case
  each for what does not count, a rejection and an acceptance). This is an induction over the number read. The
  sums of the board exist and grow with their terms by induction over the size of the set summed over (`SumsExist`,
  `TotalAtLeast`). Both inductions argue by the least counterexample.

And of the texts it proves `FormatsIsSound` (`FormatsSpec => []FormatsSound`), for outputs, answers, class lists,
courses and blanks of any length, and for the drawings and problems of the sets `SomeShapes` and `SomeProblems`.
`FormatsAssumption` says that the bounds are natural numbers and that `Absent` is none of the values it stands
beside. The invariant is about the text alone, so the type of the state is all it needs; the work is in the functions.

- A reading is a fold. `FoldLeft` is the function on prefixes that `Reads` describes, and a property of what has been read (or a
  relation between two readings, of one text or of two) that one more element keeps, holds of the whole text,
  by induction on the length. As the library's induction cannot be instantiated, each such argument is by the
  least prefix that would break it.
- Trimming takes a text apart: what is dropped at either end is in the set, and the first and the last of what is kept are not
  (`DropLast`, `DropFirst`). Two texts that differ in what is dropped are the same when trimmed.
- Outputs: the tokens of a text are those of its lines, one line after the other, and neither a blank at the end of a line nor
  an empty line at the end of the text adds one. So what is right with `trim` is right with `float`.
- Answers: an answer is trimmed at both ends before it is compared. It normalizes to what the output
  does but for the blanks and empty lines before it, and has the same tokens (`AnswerTrimmed`), so that it is right wherever the output is.
- Courses and class lists: what the writer makes of one item or entry, the reader takes in from the state the earlier
  ones left, whatever they were, and leaves in the state the next one begins with. Courses are told apart by
  what their writer can express; for the others only the problems are claimed, in their order.

`WebProofs` proves `WebIsSound` (`Spec => []WebSound`) for any routes, languages and numbers of requests, failures, navigations, writes
and reloads. As long as nothing was overtaken, every question on the way is for the route of now, and a screen that a new route
empties shows what its route names or nothing (`ShowsRoute`); the editor of a problem has one question at a time, and its
second one belongs to the problem that is shown (`EditorWaits`); what is being written was filled from the
route it is written to (`PageInv`). The text of the form, that of the timer and that which is
sent were typed for their keys (`FormInv`), because a key can only be typed while
the screen shows its route, and a new key always reads its own draft. Each action of the page is proved once for
the page (`PageStepMoves`) and what the form does with it once for all of them (`FollowsKeeps`).

`WebProofs` also proves `EditorIsSound` (`EditorSpec => []EditorSound`) for any selections, any numbers of pictures, keys,
boards, shapes and crashes, and any bodies without marks of an upload that is not there (`EditorAssumption`: a
field is opened with saved text, and the token of an upload is new). `EditorInv` says of the field (`FieldOk`):

- each call under way has a name no other has and no answered one had (`NamesInv`), and every mark of a placeholder in
  the body bears such a name (`MarksNamed`);
- no placeholder mark is there twice, and what nobody has cut is in one piece (`BodyInv`): where both marks of a placeholder
  are, they are together and its upload is under way, and, as long as no drawing was put back in the wrong place, every
  upload under way has its placeholder and every answered one its address.
  `UploadsSettle` alone is not inductive: an answer replaces the first placeholder of its name, which takes it out of the
  body only if there is one of them;
- opening and closing marks of drawings alternate (`Balanced`). A change in one place keeps this if it is not inside a
  drawing's range, or replaces just such a range, and the board's range is one while the text up to its
  end is the same (`BoardOk`, `BlockStays`).

Of the server it says, picture by picture (`DiskOk`), that a call which has
its answer ready or given leaves it whole, that one call at most writes it, that it is partial just while one does, and that no browser has kept a part of it. The
lemmas about splicing say where each mark of a new body comes from (`SpliceSource`), and what is in one piece before stays so.

Some definitions were made exact for these proofs, and agree with the source as before: the tables of `Access`
have their columns' types as assumptions on the worlds a run begins with, a rejudge in
`Grading` leaves out rows that are deleted, and `None` is none of the values it stands beside.
Proving `EditorSound` showed two places where the model claimed too much: with a third picture the next placeholder
cuts one that is still waiting (now `torn`), and a body that is opened with
a drawing cut short is not the field's doing (then `AllDrawings` starts in `broken`).
`TypeOK` of `JudgeRun` lets an outcome be any verdict that a comparison can give: with a checker program, drains that
share its box can get one of another kind.

Only model-checked: all liveness: `EveryJudged`, `EveryCallEnds`,
`EveryBoxReturned`, `AtMostOneStays` and `Converges` (fairness and ENABLED are outside what the prover handles).
The library's theorems for induction over data take an operator that the provers cannot instantiate. Where a
function counts a number up or down (`PointsOf`, `UsableOf` in `Collections`, `Standing`) or a text is
read by a fold (`Formats`), the theorems above argue by the least counterexample instead, one property at a time.

## 5. What the checks found

Each is a definition that TLC finds violated; the runs or cfgs are named. For the others, put
the name in place of the properties of the cfg of the module's instance.

Judging:

- A refused duplicate start deletes the registration of the worker that runs, so the next start of the same WORKER_ID is let in and removes its containers (`MCWorkerRegistry_refused.cfg`); the first worker leaves at its next heartbeat (`registry`).
- A rejudge of a submission in flight mixes the results of two runs (run `queue_rejudge`).
- A handler whose lease ran out may reopen a finished submission and leave its verdict (`MCJudgeQueue_late.cfg`).
- With parallel drains the one checker box is shared without a lock (`MCJudgeRun_checker.cfg`), contrary to the comment that it is used one case at a time (`EveryOutcomeDeserved`). With one run box it is right (`MCJudgeRun_serial.cfg` passes).
- After one drain throws, the others keep running in boxes given back, and a retry beside them may get a verdict its program does not deserve (`EveryOutcomeDeserved`, `MCJudgeRun_leftover.cfg`).
- Whether a problem uses points is decided from points earned (`MCJudgeRun_score.cfg`).
- Answer submissions do come to the workers, by a rejudge or while they are being graded (`AnswersSkipQueue`, `MCGrading`).

API:

- The manager of an exam does not see its verdicts (`ManagerSeesVerdicts`), the page of a collection and the filter of the list tell verdicts that are hidden (`HiddenUntilEnd`, `FilterTellsNothing`; `MCCollections`).
- An export during or after a broken replacement has empty cases without saying so (`ExportLacksNothing`, `MCGrading`).
- Texts of a course without headings merge through an export and an import (`PairsKept`), an imported heading without text cannot be saved (`ImportedIsSavable`; `MCFormats`).
- A picture that is being written, or was cut short by a crash, is served as final (`ServedWhole`, `MCFormats`).

Client:

- Several pictures at once, a key or an upload under an open drawing board, a drawing of others (`PlacesKept`, `DrawingsReplaced`, `ForeignKept`; `MCFormats`).
- A draft survives its submission (`DraftGone`), an editor that failed to load saves an empty course (`CourseKept`) or a special problem without checker (`CheckerKept`), a late answer stays (`LateAnswer`), a rejudge or a last verdict is not shown (`RejudgeShown`, `BoardIsFinal`; `MCWeb`).

Seen while reading, without a run: the comment above `exec` (`pool.ts` 368) promises to
recreate a lost container, the code below explains why it does not. A cell of the list of new accounts that has a tab is not quoted, and the reader of lists takes
the tab for the end of a cell (`roster.ts` 155 and 70). A roster line whose transaction is
rolled back stays in the list of created accounts (`created.push` inside it). The list of problems does
not look at `publicFrom`, their page does. A frozen board stays frozen for members after the end. Only making somebody a
plain member counts the managers; making him an assistant, removing him or replacing the list does not.
`check-data` does not notice files that no row names.

## 6. Not modelled

- NOTIFY and the wake-up of the main loop: a lost poke is a delay of one poll; fairness stands for both.
- Docker, the sandbox, limits, `isolate` arguments and meta files: outside the program or string conversions.
- Sessions, passwords, cookies and the session store of the client, where a lost logout makes screen and cookie differ: `Screens` starts logged in.
- A POST whose answer is lost after the server has done it: in `Screens` a failed write has not happened.
- The e-mail of two overlapping deletions, and the demotion of each other by two administrators, are in `Community`, but its properties exclude them by `hurried`, since the code does not handle them.
- The search, paging and order of lists, ranks and names of boards, statement fields, tags, languages, layout.
- Migrations, seeding, smoke and end-to-end tests.

## 7. Plan

1. (done) The queue and the worker: `JudgeQueue`, `SubmissionLifecycle`, `RunnerPool`, `JudgeRun`, `WorkerRegistry`.
2. (done) The API: `Access`, `Collections`, `TestcaseStore`, `Grading`, `Accounts`, `Community`, `Scoreboard`, `Formats`.
3. (done) The client: `Editor`, `Screens`, `Drafts`.
4. (done) Theorems: the queue with its refinement, the pool, judging, registration, the rules and requests of collections, grading and the store, accounts and community, the boards, the client and its Markdown field, the formats.
5. Wake-up of the main loop (`poke` against `claimNext`) under `JudgeQueue`'s fairness; sessions.
