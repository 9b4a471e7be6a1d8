------------------------ MODULE SubmissionLifecycle -------------------------
(***************************************************************************)
(* What the judge queue promises about each submission, with no workers,   *)
(* leases, handlers or databases in it: it waits, it is tried, it goes     *)
(* back to wait while it has tries left, and it ends with one verdict that *)
(* comes together with the results of exactly the run that reached it. Only*)
(* a rejudge reopens it, and a rejudge forgets everything at once.         *)
(***************************************************************************)
EXTENDS Naturals

CONSTANTS
    Sub,            \* submissions
    MaxTries,       \* how often one is tried before it is given up
    TestedVerdict,  \* verdicts that have results
    UntestedVerdict \* verdicts that have none

VARIABLE job

Job == [status: {"absent", "queued", "judging", "done"},
        verdict: TestedVerdict \cup UntestedVerdict \cup {"none"},
        tries: Nat, results: Nat]

JobOf(status, verdict, tries, results) ==
    [status |-> status, verdict |-> verdict, tries |-> tries, results |-> results]

Waiting(tries) == JobOf("queued", "none", tries, 0)

Enter(j, k) == j.status = "absent" /\ k = Waiting(0)

Try(j, k) ==
    /\ j.status = "queued"
    /\ j.tries < MaxTries
    /\ k = JobOf("judging", j.verdict, j.tries + 1, j.results)

GiveBack(j, k) ==
    /\ j.status = "judging"
    /\ j.tries < MaxTries
    /\ k = Waiting(j.tries)

Conclude(j, k) ==
    /\ j.status = "judging"
    /\ \/ \E v \in TestedVerdict : k = JobOf("done", v, j.tries, 1)
       \/ \E v \in UntestedVerdict : k = JobOf("done", v, j.tries, 0)

Reopen(j, k) == j.status # "absent" /\ k = Waiting(0)

Step(j, k) == \/ Enter(j, k)
              \/ Try(j, k)
              \/ GiveBack(j, k)
              \/ Conclude(j, k)
              \/ Reopen(j, k)

Init == job = [s \in Sub |-> JobOf("absent", "none", 0, 0)]

\* One step of the system may move several submissions (a claim, a reclaim, a
\* rejudge of a whole problem).
Next == /\ job' = [s \in Sub |-> job'[s]]
        /\ \A s \in Sub : job'[s] = job[s] \/ Step(job[s], job'[s])

Spec == Init /\ [][Next]_job
=============================================================================
