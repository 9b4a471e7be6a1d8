----------------------------- MODULE RunnerPool -----------------------------
(***************************************************************************)
(* The pool of sandbox boxes of a worker (apps/worker/src/pool.ts) and the *)
(* way judge (apps/worker/src/judge.ts) takes boxes from it: the run boxes *)
(* one after the other, then perhaps one for a checker, all of them given  *)
(* back at the end, whatever happened. Docker and isolate may fail at      *)
(* every call.                                                             *)
(*                                                                         *)
(* An action is what the process does between two awaits.                  *)
(***************************************************************************)
EXTENDS Naturals, Sequences, FiniteSets

CONSTANTS
    Runner,     \* RUNNER_IDS, one image per group of languages
    Slot,       \* the judge calls that may run at a time: WORKER_CAPACITY many
    TcParallel, \* WORKER_TC_PARALLEL: run boxes of a submission, at most
    Replicas,   \* RUNNER_REPLICAS: containers per runner
    None        \* no checker, no submission, no box, no waiter

ASSUME SlotAssumption == IsFiniteSet(Slot)
ASSUME SizeAssumption == TcParallel \in Nat \ {0} /\ Replicas \in Nat \ {0}

CeilDiv(a, b) == (a + b - 1) \div b

BoxesPerContainerNoSpare ==     \* mutant: the spare box is left out
    CeilDiv(Cardinality(Slot) * TcParallel, Replicas)

\* The constructor: all that can run at a time, and one to spare.
BoxesPerContainer == CeilDiv(Cardinality(Slot) * TcParallel, Replicas) + 1

\* start: every runner has its boxes from the beginning.
BoxesOf(r) == {r} \X (1..(Replicas * BoxesPerContainer))
Box == UNION {BoxesOf(r) : r \in Runner}
RunnerOf(b) == b[1]

VARIABLES
    state,   \* of each runner: slots.has and starting.has
    free,    \* the free list of each runner
    waiters, \* the queue of each runner
    pc,      \* where each judge call is
    job,     \* what it judges
    held,    \* boxes and checkerBox of the call, in the order of their release
    hand,    \* the box it is initialising, for itself or for a waiter
    heir     \* the waiter a released box is initialised for

vars == <<state, free, waiters, pc, job, held, hand, heir>>

Phase == {"idle", "judging", "ensuring", "initing", "waiting", "releasing", "handing"}

\* A submission: the runner of its language, how many test cases run in parallel
\* and the runner of the checker.
Job == [lang: Runner, boxes: 1..TcParallel, checker: Runner \cup {None}]

ASSUME NoneAssumption == None \notin Runner \cup Slot \cup Box \cup Job

\* The runner whose box the call takes next.
Wanted(c) == IF Len(held[c]) < job[c].boxes THEN job[c].lang ELSE job[c].checker

RunBoxesHeld(c) == Len(held[c]) >= job[c].boxes
AllHeld(c) == Len(held[c]) = job[c].boxes + (IF job[c].checker = None THEN 0 ELSE 1)

Ensuring(r) == {c \in Slot : pc[c] = "ensuring" /\ Wanted(c) = r}

-----------------------------------------------------------------------------
(* judge *)

Begin(c) ==
    /\ pc[c] = "idle"
    /\ \E j \in Job : job' = [job EXCEPT ![c] = j]
    /\ pc' = [pc EXCEPT ![c] = "judging"]
    /\ UNCHANGED <<state, free, waiters, held, hand, heir>>

NeedsStartAlways(r) == state[r] # "starting" \* mutant: slots is not looked at

\* ensureRunner: up, or on its way by somebody else's call, is good enough.
NeedsStart(r) == state[r] = "down"

\* acquire, up to the await of ensureRunner.
Acquire(c) ==
    /\ pc[c] = "judging"
    /\ ~AllHeld(c)
    /\ pc' = [pc EXCEPT ![c] = "ensuring"]
    /\ state' = IF NeedsStart(Wanted(c))
                THEN [state EXCEPT ![Wanted(c)] = "starting"]
                ELSE state
    /\ UNCHANGED <<free, waiters, job, held, hand, heir>>

\* The verdict, a compile error, an exception: on to the `finally`. Nothing but
\* acquire runs before the run boxes are there.
Finish(c) ==
    /\ pc[c] = "judging"
    /\ RunBoxesHeld(c)
    /\ pc' = [pc EXCEPT ![c] = "releasing"]
    /\ UNCHANGED <<state, free, waiters, job, held, hand, heir>>

\* handleOne is over; the main loop may judge something else in its place.
Leave(c) ==
    /\ pc[c] = "releasing"
    /\ held[c] = <<>>
    /\ pc' = [pc EXCEPT ![c] = "idle"]
    /\ job' = [job EXCEPT ![c] = None]
    /\ UNCHANGED <<state, free, waiters, held, hand, heir>>

-----------------------------------------------------------------------------
(* ensureRunner *)

RunnerStarts(r) ==
    /\ state[r] = "starting"
    /\ state' = [state EXCEPT ![r] = "up"]
    /\ UNCHANGED <<free, waiters, pc, job, held, hand, heir>>

\* Every call that waits for this start gets the error.
RunnerFails(r) ==
    /\ state[r] = "starting"
    /\ state' = [state EXCEPT ![r] = "down"]
    /\ pc' = [c \in Slot |-> IF c \in Ensuring(r) THEN "releasing" ELSE pc[c]]
    /\ UNCHANGED <<free, waiters, job, held, hand, heir>>

-----------------------------------------------------------------------------
(* acquire, with the runner up *)

TakeFree(c) ==
    /\ pc[c] = "ensuring"
    /\ state[Wanted(c)] = "up"
    /\ \E b \in free[Wanted(c)] :
        /\ free' = [free EXCEPT ![Wanted(c)] = @ \ {b}]
        /\ hand' = [hand EXCEPT ![c] = b]
    /\ pc' = [pc EXCEPT ![c] = "initing"]
    /\ UNCHANGED <<state, waiters, job, held, heir>>

Queue(c) ==
    /\ pc[c] = "ensuring"
    /\ state[Wanted(c)] = "up"
    /\ free[Wanted(c)] = {}
    /\ waiters' = [waiters EXCEPT ![Wanted(c)] = Append(@, c)]
    /\ pc' = [pc EXCEPT ![c] = "waiting"]
    /\ UNCHANGED <<state, free, job, held, hand, heir>>

InitOk(c) ==
    /\ pc[c] = "initing"
    /\ held' = [held EXCEPT ![c] = Append(@, hand[c])]
    /\ hand' = [hand EXCEPT ![c] = None]
    /\ pc' = [pc EXCEPT ![c] = "judging"]
    /\ UNCHANGED <<state, free, waiters, job, heir>>

InitFailsLeaks(c) ==            \* mutant: the box is not pushed back
    /\ pc[c] = "initing"
    /\ hand' = [hand EXCEPT ![c] = None]
    /\ pc' = [pc EXCEPT ![c] = "releasing"]
    /\ UNCHANGED <<state, free, waiters, job, held, heir>>

\* The box goes back to the free list, and nobody is woken.
InitFails(c) ==
    /\ pc[c] = "initing"
    /\ free' = [free EXCEPT ![RunnerOf(hand[c])] = @ \cup {hand[c]}]
    /\ hand' = [hand EXCEPT ![c] = None]
    /\ pc' = [pc EXCEPT ![c] = "releasing"]
    /\ UNCHANGED <<state, waiters, job, held, heir>>

-----------------------------------------------------------------------------
(* release, after the cleanup *)

ReleaseToFree(c) ==
    LET b == Head(held[c])
    IN  /\ pc[c] = "releasing"
        /\ held[c] # <<>>
        /\ waiters[RunnerOf(b)] = <<>>
        /\ free' = [free EXCEPT ![RunnerOf(b)] = @ \cup {b}]
        /\ held' = [held EXCEPT ![c] = Tail(@)]
        /\ UNCHANGED <<state, waiters, pc, job, hand, heir>>

\* The first waiter is to have the box, if it can be initialised.
ReleaseToWaiter(c) ==
    LET b == Head(held[c])
    IN  /\ pc[c] = "releasing"
        /\ held[c] # <<>>
        /\ waiters[RunnerOf(b)] # <<>>
        /\ heir' = [heir EXCEPT ![c] = Head(waiters[RunnerOf(b)])]
        /\ waiters' = [waiters EXCEPT ![RunnerOf(b)] = Tail(@)]
        /\ held' = [held EXCEPT ![c] = Tail(@)]
        /\ hand' = [hand EXCEPT ![c] = b]
        /\ pc' = [pc EXCEPT ![c] = "handing"]
        /\ UNCHANGED <<state, free, job>>

HandOver(c) ==
    /\ pc[c] = "handing"
    /\ held' = [held EXCEPT ![heir[c]] = Append(@, hand[c])]
    /\ hand' = [hand EXCEPT ![c] = None]
    /\ heir' = [heir EXCEPT ![c] = None]
    /\ pc' = [pc EXCEPT ![c] = "releasing", ![heir[c]] = "judging"]
    /\ UNCHANGED <<state, free, waiters, job>>

HandFailsSilently(c) ==         \* mutant: the waiter is not rejected
    /\ pc[c] = "handing"
    /\ free' = [free EXCEPT ![RunnerOf(hand[c])] = @ \cup {hand[c]}]
    /\ hand' = [hand EXCEPT ![c] = None]
    /\ heir' = [heir EXCEPT ![c] = None]
    /\ pc' = [pc EXCEPT ![c] = "releasing"]
    /\ UNCHANGED <<state, waiters, job, held>>

\* The waiter gets the error, its judge call goes to its own `finally`.
HandFails(c) ==
    /\ pc[c] = "handing"
    /\ free' = [free EXCEPT ![RunnerOf(hand[c])] = @ \cup {hand[c]}]
    /\ hand' = [hand EXCEPT ![c] = None]
    /\ heir' = [heir EXCEPT ![c] = None]
    /\ pc' = [pc EXCEPT ![c] = "releasing", ![heir[c]] = "releasing"]
    /\ UNCHANGED <<state, waiters, job, held>>

-----------------------------------------------------------------------------

Init ==
    /\ state = [r \in Runner |-> "down"]
    /\ free = [r \in Runner |-> BoxesOf(r)]
    /\ waiters = [r \in Runner |-> <<>>]
    /\ pc = [c \in Slot |-> "idle"]
    /\ job = [c \in Slot |-> None]
    /\ held = [c \in Slot |-> <<>>]
    /\ hand = [c \in Slot |-> None]
    /\ heir = [c \in Slot |-> None]

Next ==
    \/ \E c \in Slot :
        \/ Begin(c) \/ Acquire(c) \/ Finish(c) \/ Leave(c)
        \/ TakeFree(c) \/ Queue(c) \/ InitOk(c) \/ InitFails(c)
        \/ ReleaseToFree(c) \/ ReleaseToWaiter(c) \/ HandOver(c) \/ HandFails(c)
    \/ \E r \in Runner : RunnerStarts(r) \/ RunnerFails(r)

Spec == Init /\ [][Next]_vars

\* Every call to docker or isolate ends, every program under test is stopped at its
\* limit, and what can go on in the process does.
CallGoesOn(c) ==
    \/ Acquire(c) \/ Finish(c) \/ Leave(c) \/ TakeFree(c) \/ Queue(c)
    \/ InitOk(c) \/ InitFails(c) \/ ReleaseToFree(c) \/ ReleaseToWaiter(c)
    \/ HandOver(c) \/ HandFails(c)

Fairness ==
    /\ \A c \in Slot : WF_vars(CallGoesOn(c))
    /\ \A r \in Runner : WF_vars(RunnerStarts(r) \/ RunnerFails(r))

FairSpec == Spec /\ Fairness

-----------------------------------------------------------------------------

\* Every variable has its type; a call has a box in its hand, and an heir for it, just
\* while isolate initialises that box.
TypeOK ==
    /\ state \in [Runner -> {"down", "starting", "up"}]
    /\ free \in [Runner -> SUBSET Box]
    /\ waiters \in [Runner -> Seq(Slot)]
    /\ pc \in [Slot -> Phase]
    /\ job \in [Slot -> Job \cup {None}]
    /\ held \in [Slot -> Seq(Box)]
    /\ hand \in [Slot -> Box \cup {None}]
    /\ heir \in [Slot -> Slot \cup {None}]
    /\ \A c \in Slot : /\ hand[c] # None <=> pc[c] \in {"initing", "handing"}
                       /\ heir[c] # None <=> pc[c] = "handing"

\* The places that a box is in.
Places(b) ==
    {<<"free", r>> : r \in {q \in Runner : b \in free[q]}}
    \cup {<<"hand", c>> : c \in {d \in Slot : hand[d] = b}}
    \cup UNION {{<<"held", c, i>> : i \in {j \in DOMAIN held[c] : held[c][j] = b}} : c \in Slot}

\* A box is always in exactly one place: never lost, however often an
\* initialisation fails, and never with two submissions.
BoxesConserved == \A b \in Box : \E p \in Places(b) : Places(b) = {p}

\* Types, and no box is lost or lent twice: pool.ts 313-350 gives every box back on every
\* path, the failures of an initialisation included.
PoolSound == TypeOK /\ BoxesConserved

InQueue(c) == \E r \in Runner : \E i \in DOMAIN waiters[r] : waiters[r][i] = c

\* Nobody waits for a box that nobody will hand over: while a call waits for a box
\* of a runner, some call that is in no queue holds one and will release it.
\* InitFails and HandFails put boxes back without waking anybody; that this strands
\* no waiter is owed to the number of boxes.
NobodyStranded ==
    \A r \in Runner : waiters[r] # <<>> =>
        \E c \in Slot : /\ ~InQueue(c)
                        /\ \E i \in DOMAIN held[c] : RunnerOf(held[c][i]) = r

\* Starting a runner removes its containers by force, so none is started while a
\* submission has one of its boxes.
StartDisturbsNobody ==
    [][\A r \in Runner : state[r] # "starting" /\ state'[r] = "starting"
                            => free[r] = BoxesOf(r)]_vars

\* Every judge call gets to its end: neither the boxes it holds while it waits for
\* others nor a failed initialisation leaves it hanging.
EveryCallEnds == \A c \in Slot : pc[c] # "idle" ~> pc[c] = "idle"
=============================================================================
