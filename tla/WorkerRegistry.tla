--------------------------- MODULE WorkerRegistry ---------------------------
(***************************************************************************)
(* The registration of the worker processes that are started under one     *)
(* WORKER_ID (apps/worker/src/index.ts): the row of judge_workers they     *)
(* check, write, renew and delete, and the runner containers whose names   *)
(* they share. A process is one incarnation, it starts once.               *)
(*                                                                         *)
(* Two things happen only when they are members of Adverse:                *)
(*   "overlap" a process checks the row while another is between its check *)
(*             and its upsert                                              *)
(*   "silence" the heartbeats of a live process stay away for 120 s        *)
(***************************************************************************)
EXTENDS Naturals

CONSTANTS
    Proc,    \* processes of the WORKER_ID
    Host,
    HostOf,  \* os.hostname() of every process
    Pid,
    PidOf,   \* process.pid of every process
    Nobody,  \* no row, no container
    Adverse  \* see above

ASSUME ProcAssumption == HostOf \in [Proc -> Host] /\ PidOf \in [Proc -> Pid]
ASSUME NobodyAssumption == Nobody \notin Proc
ASSUME AdverseAssumption == Adverse \subseteq {"overlap", "silence"}

VARIABLES
    row,        \* the row of judge_workers
    stage,      \* where each process is
    registered, \* the processes that have written the row
    container   \* of each host: the process whose runner containers are there

registryVars == <<row, stage, registered, container>>

Place == {"new", "checking", "upserting", "starting", "working", "stopping",
          "cleaning", "ended"}

\* Between main's register and the end of the main loop.
Works(p) == stage[p] \in {"starting", "working"}

\* What process.kill(pid, 0) finds on this host.
Alive(h, pid) == \E p \in Proc : /\ stage[p] \notin {"new", "ended"}
                                 /\ HostOf[p] = h
                                 /\ PidOf[p] = pid

RowOf(p) == [hostname |-> HostOf[p], pid |-> PidOf[p], silent |-> FALSE]

MineById(p) == row # Nobody     \* mutant: the pid is not compared

\* The condition of heartbeatLoop's UPDATE.
Mine(p) == row # Nobody /\ row.pid = PidOf[p]

GoTo(p, place) == stage' = [stage EXCEPT ![p] = place]

-----------------------------------------------------------------------------

Start(p) ==
    /\ stage[p] = "new"
    /\ \/ "overlap" \in Adverse
       \/ \A q \in Proc : stage[q] \notin {"checking", "upserting"}
    /\ GoTo(p, "checking")
    /\ UNCHANGED <<row, registered, container>>

\* ensureNotDuplicate returns: no row, a silent one, or one of a dead process here.
MayRegister(p) ==
    \/ row = Nobody
    \/ row.silent
    \/ row.hostname = HostOf[p] /\ ~Alive(row.hostname, row.pid)

Check(p) ==
    /\ stage[p] = "checking"
    /\ GoTo(p, IF MayRegister(p) THEN "upserting" ELSE "stopping")
    /\ UNCHANGED <<row, registered, container>>

\* register: the row is this process's, whatever it has become since the check.
Upsert(p) ==
    /\ stage[p] = "upserting"
    /\ row' = RowOf(p)
    /\ registered' = registered \cup {p}
    /\ GoTo(p, "starting")
    /\ UNCHANGED container

\* The pool starts, the loops begin.
BeginLoops(p) ==
    /\ stage[p] = "starting"
    /\ GoTo(p, "working")
    /\ UNCHANGED <<row, registered, container>>

\* The database or docker fails: main rejects, its catch calls shutdown.
Fatal(p) ==
    /\ stage[p] \in {"checking", "upserting", "starting"}
    /\ GoTo(p, "stopping")
    /\ UNCHANGED <<row, registered, container>>

UsesPoolEarly(p) ==             \* mutant: pool.start before register
    stage[p] \in {"checking", "upserting", "starting", "working"}

UsesPool(p) == Works(p)

\* ensureContainer: the container of this name, whoever made it, is removed.
MakeContainers(p) ==
    /\ UsesPool(p)
    /\ container[HostOf[p]] # p
    /\ container' = [container EXCEPT ![HostOf[p]] = p]
    /\ UNCHANGED <<row, stage, registered>>

-----------------------------------------------------------------------------
(* heartbeatLoop *)

Beat(p) ==
    /\ stage[p] = "working"
    /\ Mine(p)
    /\ row.silent
    /\ row' = [row EXCEPT !.silent = FALSE]
    /\ UNCHANGED <<stage, registered, container>>

\* No row was updated: exit, the containers stay.
BeatLost(p) ==
    /\ stage[p] = "working"
    /\ ~Mine(p)
    /\ GoTo(p, "ended")
    /\ UNCHANGED <<row, registered, container>>

\* 120 s without a heartbeat.
FallSilent ==
    /\ row # Nobody
    /\ ~row.silent
    /\ "silence" \in Adverse \/ ~(\E p \in Proc : Works(p) /\ Mine(p))
    /\ row' = [row EXCEPT !.silent = TRUE]
    /\ UNCHANGED <<stage, registered, container>>

-----------------------------------------------------------------------------
(* shutdown *)

\* SIGTERM, and all submissions in flight are finished: a draining process works on.
Drain(p) ==
    /\ stage[p] = "working"
    /\ GoTo(p, "stopping")
    /\ UNCHANGED <<row, registered, container>>

\* The DELETE is by the id alone; it may fail.
DeleteRow(p) ==
    /\ stage[p] = "stopping"
    /\ row' \in {row, Nobody}
    /\ GoTo(p, "cleaning")
    /\ UNCHANGED <<registered, container>>

\* pool.stop removes the containers this process made.
StopPool(p) ==
    /\ stage[p] = "cleaning"
    /\ GoTo(p, "ended")
    /\ container' = [h \in Host |-> IF container[h] = p THEN Nobody ELSE container[h]]
    /\ UNCHANGED <<row, registered>>

Crash(p) ==
    /\ stage[p] \notin {"new", "ended"}
    /\ GoTo(p, "ended")
    /\ UNCHANGED <<row, registered, container>>

-----------------------------------------------------------------------------

InitRegistry ==
    /\ row = Nobody
    /\ stage = [p \in Proc |-> "new"]
    /\ registered = {}
    /\ container = [h \in Host |-> Nobody]

Step(p) ==
    \/ Start(p) \/ Check(p) \/ Upsert(p) \/ BeginLoops(p) \/ Fatal(p)
    \/ MakeContainers(p) \/ Beat(p) \/ BeatLost(p)
    \/ Drain(p) \/ DeleteRow(p) \/ StopPool(p) \/ Crash(p)

NextRegistry == FallSilent \/ \E p \in Proc : Step(p)

RegistrySpec == InitRegistry /\ [][NextRegistry]_registryVars

\* main goes on to its loops or to shutdown, and heartbeatLoop goes round.
RegistryFairness ==
    \A p \in Proc : /\ WF_registryVars(BeginLoops(p) \/ Fatal(p))
                    /\ WF_registryVars(BeatLost(p))

RegistryFairSpec == RegistrySpec /\ RegistryFairness

-----------------------------------------------------------------------------

\* Every variable has its type; the row names one process, host and pid together.
RegistryTypeOK ==
    /\ row \in {Nobody} \cup {[RowOf(p) EXCEPT !.silent = s] : p \in Proc, s \in BOOLEAN}
    /\ stage \in [Proc -> Place]
    /\ registered \subseteq Proc
    /\ container \in [Host -> Proc \cup {Nobody}]

\* A process that is refused touches no container ("the duplicate is looked for
\* before the containers are touched", comment in main).
RefusedTouchesNothing ==
    \A h \in Host : container[h] # Nobody =>
        /\ container[h] \in registered
        /\ HostOf[container[h]] = h

\* Types, and a process that ensureNotDuplicate refuses has touched no container: the
\* registration comes before the pool.
RegistrySound == RegistryTypeOK /\ RefusedTouchesNothing

\* However many processes have passed the check, in whatever order they wrote the row
\* and whoever deleted it, in the end at most one of them works ("better that one dies
\* than that both go on", comment of heartbeatLoop).
AtMostOneStays ==
    <>[](\A p, q \in Proc : Works(p) /\ Works(q) => p = q)

\* Of two processes of one WORKER_ID one is refused ("a second worker of the same
\* WORKER_ID is refused", README).
SecondIsRefused == \A p, q \in Proc : Works(p) /\ Works(q) => p = q
=============================================================================
