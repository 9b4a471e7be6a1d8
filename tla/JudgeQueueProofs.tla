-------------------------- MODULE JudgeQueueProofs --------------------------
(***************************************************************************)
(* Proofs about JudgeQueue, for any submissions, workers and limits: its   *)
(* types and the bound on what a worker tracks under every adverse timing; *)
(* and, when nothing in Adverse happens, that handlers own their rows,     *)
(* verdicts stand, a drained worker has finished, and each step is one of  *)
(* SubmissionLifecycle or invisible there.                                 *)
(***************************************************************************)
EXTENDS JudgeQueue, FiniteSetTheorems, TLAPS

USE SubAssumption, WorkerAssumption, LimitAssumption, VerdictAssumption

-----------------------------------------------------------------------------
(* The row operators *)

\* Every writer of the queue columns leaves a row of the right type.
LEMMA RowTypes ==
    /\ AbsentRow \in Row
    /\ \A r \in Row : /\ EnqueuedRow(r) \in Row
                      /\ ReclaimedRow(r) \in Row
                      /\ [r EXCEPT !.lease = "fresh"] \in Row
                      /\ [r EXCEPT !.lease = "expired"] \in Row
    /\ \A r \in Row, w \in Worker : ClaimedRow(r, w) \in Row
    /\ \A r \in Row, v \in FinalVerdict : FinalRow(r, v) \in Row
    /\ \A r \in Row, n \in Nat : FailedRow(r, n) \in Row
<1> USE DEF Row, Status
<1>1. AbsentRow \in Row
  BY DEF AbsentRow
<1>2. ASSUME NEW r \in Row
      PROVE  /\ EnqueuedRow(r) \in Row
             /\ [r EXCEPT !.lease = "fresh"] \in Row
             /\ [r EXCEPT !.lease = "expired"] \in Row
  BY DEF EnqueuedRow
<1>3. ASSUME NEW r \in Row, NEW w \in Worker PROVE ClaimedRow(r, w) \in Row
  <2>1. r.attempts + 1 \in Nat
    OBVIOUS
  <2>2. \A k \in Nat : [r EXCEPT !.status = "judging", !.claimedBy = w,
                                 !.lease = "fresh", !.attempts = k] \in Row
    OBVIOUS
  <2> QED
    BY <2>1, <2>2 DEF ClaimedRow
<1>4. ASSUME NEW r \in Row PROVE RequeuedRow(r) \in Row
  BY DEF RequeuedRow
<1>5. ASSUME NEW r \in Row, NEW v \in FinalVerdict PROVE FinalRow(r, v) \in Row
  BY DEF FinalRow
<1>6. "internal_error" \in FinalVerdict
  BY DEF FinalVerdict, UntestedVerdict
<1>7. ASSUME NEW r \in Row PROVE FinalRow(r, "internal_error") \in Row
  BY <1>5, <1>6
<1>8. ASSUME NEW r \in Row PROVE ReclaimedRow(r) \in Row
  <2>1. \A q \in Row : [q EXCEPT !.verdict = "none"] \in Row
    OBVIOUS
  <2> QED
    BY <1>4, <1>7, <2>1 DEF ReclaimedRow
<1>9. ASSUME NEW r \in Row, NEW n \in Nat PROVE FailedRow(r, n) \in Row
  BY <1>4, <1>7 DEF FailedRow
<1> QED
  BY <1>1, <1>2, <1>3, <1>5, <1>8, <1>9

\* The number of a new handler is one of those a handler may have.
LEMMA FreeNoType ==
    ASSUME NEW w \in Worker, NEW s \in Sub
    PROVE  FreeNo(w, s) \in 0..MaxHandlers
<1> DEFINE taken == {h.no : h \in {g \in handlers : g.by = w /\ g.sub = s}}
           P(n) == n \notin taken \/ 0..MaxHandlers \subseteq taken
<1>1. \E n \in 0..MaxHandlers : P(n)
  OBVIOUS
<1>2. (CHOOSE n \in 0..MaxHandlers : P(n)) \in 0..MaxHandlers
  BY <1>1
<1> QED
  BY <1>2 DEF FreeNo

LEMMA CountUp ==
    /\ \A n \in Nat : n + 1 \in Nat
    /\ \A f \in [Sub -> Nat], s \in Sub : [f EXCEPT ![s] = @ + 1] \in [Sub -> Nat]
OBVIOUS

\* A claim takes queued rows.
LEMMA FirstOfSubset == ASSUME NEW Q, NEW n PROVE FirstOf(Q, n) \subseteq Q
BY DEF FirstOf

\* Marking one handler as having written its outcome keeps the handlers typed.
LEMMA ToExitType ==
    ASSUME handlers \subseteq Handler, NEW h \in handlers, ToExit(h)
    PROVE  handlers' \subseteq Handler
<1>1. [h EXCEPT !.phase = "exit"] \in Handler
  BY DEF Handler
<1> QED
  BY <1>1 DEF ToExit

-----------------------------------------------------------------------------
(* Types *)

\* No step breaks a type.
LEMMA TypeStep == TypeOK /\ [Next]_vars => TypeOK'
<1> SUFFICES ASSUME TypeOK, [Next]_vars PROVE TypeOK'
  OBVIOUS
<1> USE DEF TypeOK
<1>1. ASSUME NEW s \in Sub, Submit(s) PROVE TypeOK'
  BY <1>1, RowTypes DEF Submit
<1>2. ASSUME NEW s \in Sub, LeaseRunsOut(s) \/ HeartbeatsLate(s) PROVE TypeOK'
  <2>1. row' = [row EXCEPT ![s] = [row[s] EXCEPT !.lease = "expired"]]
    BY <1>2 DEF LeaseRunsOut, HeartbeatsLate, ExpireLease
  <2> QED
    BY <1>2, <2>1, RowTypes DEF LeaseRunsOut, HeartbeatsLate, ExpireLease
<1>3. ASSUME NEW S \in SUBSET Sub, Rejudge(S) PROVE TypeOK'
  <2>1. row' \in [Sub -> Row]
    BY <1>3, RowTypes DEF Rejudge
  <2>2. rejudges' \in Nat
    BY <1>3, CountUp DEF Rejudge
  <2> QED
    BY <1>3, <2>1, <2>2 DEF Rejudge
<1>4. CASE WipeResults
  BY <1>4 DEF WipeResults
<1>5. CASE WipeLost
  BY <1>5 DEF WipeLost
<1>6. ASSUME NEW w \in Worker, Claim(w) PROVE TypeOK'
  <2>1. FirstOf(WithStatus("queued"), FreeSlots(w)) \subseteq Sub
    BY DEF FirstOf, WithStatus
  <2> QED
    BY <1>6, <2>1, RowTypes DEF Claim
<1>7. ASSUME NEW w \in Worker, StartHandlers(w) PROVE TypeOK'
  <2>1. \A s \in Sub : [by |-> w, sub |-> s, no |-> FreeNo(w, s),
                        attempts |-> row[s].attempts, phase |-> "judging"] \in Handler
    BY FreeNoType DEF Handler, Row
  <2>2. handlers' \subseteq Handler
    BY <1>7, <2>1 DEF StartHandlers
  <2> QED
    BY <1>7, <2>2 DEF StartHandlers
<1>8. ASSUME NEW w \in Worker, ClaimReadFails(w) PROVE TypeOK'
  BY <1>8 DEF ClaimReadFails
<1>9. ASSUME NEW h \in handlers, NEW v \in FinalVerdict, Finalize(h, v)
      PROVE TypeOK'
  <2>1. h.sub \in Sub
    BY DEF Handler
  <2>2. FinalRow(row[h.sub], v) \in Row
    BY <2>1, RowTypes
  <2>3. handlers' \subseteq Handler
    BY <1>9, ToExitType DEF Finalize
  <2>4. results' \in [Sub -> Nat]
    BY <1>9, <2>1, CountUp DEF Finalize
  <2> QED
    BY <1>9, <2>2, <2>3, <2>4 DEF Finalize
<1>10. ASSUME NEW h \in handlers, JudgeFailure(h) PROVE TypeOK'
  <2>1. h.sub \in Sub /\ h.attempts \in Nat
    BY DEF Handler
  <2>2. FailedRow(row[h.sub], h.attempts) \in Row
    BY <2>1, RowTypes
  <2>3. handlers' \subseteq Handler
    BY <1>10, ToExitType DEF JudgeFailure
  <2> QED
    BY <1>10, <2>2, <2>3 DEF JudgeFailure
<1>11. ASSUME NEW h \in handlers, FailureNotRecorded(h) PROVE TypeOK'
  <2>1. handlers' \subseteq Handler
    BY <1>11, ToExitType DEF FailureNotRecorded
  <2> QED
    BY <1>11, <2>1 DEF FailureNotRecorded
<1>12. ASSUME NEW h \in handlers, HandlerExit(h) PROVE TypeOK'
  BY <1>12 DEF HandlerExit
<1>13. ASSUME NEW w \in Worker, Heartbeat(w) PROVE TypeOK'
  BY <1>13, RowTypes DEF Heartbeat
<1>14. CASE ReclaimStale
  BY <1>14, RowTypes DEF ReclaimStale
<1>15. ASSUME NEW w \in Worker, Drain(w) PROVE TypeOK'
  BY <1>15 DEF Drain
<1>16. ASSUME NEW w \in Worker, Shutdown(w) \/ Crash(w) PROVE TypeOK'
  <2>1. stops' \in Nat
    BY <1>16, CountUp DEF Shutdown, Crash
  <2>2. picked' \in [Worker -> SUBSET Sub] /\ inFlight' \in [Worker -> SUBSET Sub]
    BY <1>16 DEF Shutdown, Crash, ProcessEnds
  <2> QED
    BY <1>16, <2>1, <2>2 DEF Shutdown, Crash, ProcessEnds
<1>17. ASSUME NEW w \in Worker, Restart(w) PROVE TypeOK'
  BY <1>17 DEF Restart
<1>18. CASE UNCHANGED vars
  BY <1>18 DEF vars
<1> QED
  BY <1>1, <1>2, <1>3, <1>4, <1>5, <1>6, <1>7, <1>8, <1>9, <1>10, <1>11, <1>12,
     <1>13, <1>14, <1>15, <1>16, <1>17, <1>18 DEF Next

\* Every variable keeps its type, whatever adverse timing is allowed.
THEOREM TypeCorrect == Spec => []TypeOK
<1>1. Init => TypeOK
  <2> SUFFICES ASSUME Init PROVE TypeOK
    OBVIOUS
  <2> QED
    BY RowTypes DEF Init, TypeOK
<1> QED
  BY <1>1, TypeStep, PTL DEF Spec

-----------------------------------------------------------------------------
(* What the writers leave in a row *)

LEMMA RowFields ==
    ASSUME NEW r \in Row
    PROVE  /\ EnqueuedRow(r).status = "queued"
           /\ EnqueuedRow(r).verdict = "none"
           /\ EnqueuedRow(r).claimedBy = NoWorker
           /\ EnqueuedRow(r).attempts = 0
           /\ EnqueuedRow(r).lease = "none"
           /\ RequeuedRow(r).status = "queued"
           /\ RequeuedRow(r).verdict = r.verdict
           /\ RequeuedRow(r).claimedBy = NoWorker
           /\ RequeuedRow(r).attempts = r.attempts
           /\ RequeuedRow(r).lease = "none"
           /\ \A v : /\ FinalRow(r, v).status = "done"
                     /\ FinalRow(r, v).verdict = v
                     /\ FinalRow(r, v).claimedBy = NoWorker
                     /\ FinalRow(r, v).attempts = r.attempts
                     /\ FinalRow(r, v).lease = "none"
           /\ \A w : /\ ClaimedRow(r, w).status = "judging"
                     /\ ClaimedRow(r, w).verdict = r.verdict
                     /\ ClaimedRow(r, w).claimedBy = w
                     /\ ClaimedRow(r, w).attempts = r.attempts + 1
                     /\ ClaimedRow(r, w).lease = "fresh"
BY DEF Row, EnqueuedRow, RequeuedRow, FinalRow, ClaimedRow

\* A reclaimed row is out of tries and done, or waits with tries left.
LEMMA ReclaimedFields ==
    ASSUME NEW r \in Row
    PROVE  /\ ReclaimedRow(r).claimedBy = NoWorker
           /\ ReclaimedRow(r).attempts = r.attempts
           /\ ReclaimedRow(r).lease = "none"
           /\ \/ /\ r.attempts >= MaxAttempts
                 /\ ReclaimedRow(r).status = "done"
                 /\ ReclaimedRow(r).verdict = "internal_error"
              \/ /\ r.attempts < MaxAttempts
                 /\ ReclaimedRow(r).status = "queued"
                 /\ ReclaimedRow(r).verdict = "none"
<1>1. r.attempts \in Nat /\ MaxAttempts \in Nat
  BY DEF Row
<1>2. RequeuedRow(r) \in Row
  BY DEF Row, RequeuedRow, Status
<1>3. CASE r.attempts >= MaxAttempts
  BY <1>1, <1>3, RowFields DEF ReclaimedRow
<1>4. CASE ~(r.attempts >= MaxAttempts)
  <2>1. ReclaimedRow(r) = [RequeuedRow(r) EXCEPT !.verdict = "none"]
    BY <1>4 DEF ReclaimedRow
  <2>2. \A q \in Row : LET p == [q EXCEPT !.verdict = "none"]
                       IN  /\ p.verdict = "none"
                           /\ p.status = q.status
                           /\ p.claimedBy = q.claimedBy
                           /\ p.attempts = q.attempts
                           /\ p.lease = q.lease
    BY DEF Row
  <2>3. r.attempts < MaxAttempts
    BY <1>1, <1>4
  <2> QED
    BY <1>2, <2>1, <2>2, <2>3, RowFields
<1> QED
  BY <1>3, <1>4

\* A failed try gives up after as many attempts as its copy says, or waits again
\* with the verdict it had.
LEMMA FailedFields ==
    ASSUME NEW r \in Row, NEW n \in Nat
    PROVE  /\ FailedRow(r, n).claimedBy = NoWorker
           /\ FailedRow(r, n).attempts = r.attempts
           /\ FailedRow(r, n).lease = "none"
           /\ \/ /\ n >= MaxAttempts
                 /\ FailedRow(r, n).status = "done"
                 /\ FailedRow(r, n).verdict = "internal_error"
              \/ /\ n < MaxAttempts
                 /\ FailedRow(r, n).status = "queued"
                 /\ FailedRow(r, n).verdict = r.verdict
<1>1. CASE n >= MaxAttempts
  BY <1>1, RowFields DEF FailedRow
<1>2. CASE ~(n >= MaxAttempts)
  <2>1. n < MaxAttempts
    BY <1>2
  <2> QED
    BY <1>2, <2>1, RowFields DEF FailedRow
<1> QED
  BY <1>1, <1>2

\* Heartbeats and time change the lease and nothing else.
LEMMA LeaseFields ==
    ASSUME NEW r \in Row, NEW l \in {"fresh", "expired"}
    PROVE  /\ [r EXCEPT !.lease = l].status = r.status
           /\ [r EXCEPT !.lease = l].verdict = r.verdict
           /\ [r EXCEPT !.lease = l].claimedBy = r.claimedBy
           /\ [r EXCEPT !.lease = l].attempts = r.attempts
           /\ [r EXCEPT !.lease = l].lease = l
BY DEF Row

-----------------------------------------------------------------------------
(* Ownership, whatever is in Adverse *)

\* What any step may do to one row.
RowStep(s) ==
    \/ row'[s] = row[s]
    \/ row'[s] = EnqueuedRow(row[s])
    \/ \E w \in Worker : row'[s] = ClaimedRow(row[s], w)
    \/ \E v \in FinalVerdict : row'[s] = FinalRow(row[s], v)
    \/ \E n \in Nat : row'[s] = FailedRow(row[s], n)
    \/ row'[s] = ReclaimedRow(row[s])
    \/ \E l \in {"fresh", "expired"} :
         /\ row[s].status = "judging" \/ row[s].lease = "fresh"
         /\ row'[s] = [row[s] EXCEPT !.lease = l]

LEMMA RowSteps ==
    ASSUME TypeOK, [Next]_vars, NEW s \in Sub
    PROVE  RowStep(s)
<1> USE DEF TypeOK, RowStep
<1>1. ASSUME NEW t \in Sub, Submit(t) PROVE RowStep(s)
  BY <1>1 DEF Submit
<1>2. ASSUME NEW t \in Sub, LeaseRunsOut(t) \/ HeartbeatsLate(t) PROVE RowStep(s)
  BY <1>2 DEF LeaseRunsOut, HeartbeatsLate, ExpireLease
<1>3. ASSUME NEW S \in SUBSET Sub, Rejudge(S) PROVE RowStep(s)
  BY <1>3 DEF Rejudge
<1>4. ASSUME NEW w \in Worker, Claim(w) PROVE RowStep(s)
  BY <1>4 DEF Claim
<1>5. ASSUME NEW h \in handlers, NEW v \in FinalVerdict, Finalize(h, v)
      PROVE RowStep(s)
  BY <1>5 DEF Finalize
<1>6. ASSUME NEW h \in handlers, JudgeFailure(h) PROVE RowStep(s)
  <2>1. h.attempts \in Nat
    BY DEF Handler
  <2> QED
    BY <1>6, <2>1 DEF JudgeFailure
<1>7. ASSUME NEW w \in Worker, Heartbeat(w) PROVE RowStep(s)
  BY <1>7 DEF Heartbeat
<1>8. CASE ReclaimStale
  BY <1>8 DEF ReclaimStale
<1>9. ASSUME row' = row PROVE RowStep(s)
  BY <1>9
<1>10. CASE WipeResults \/ WipeLost \/ UNCHANGED vars
  BY <1>10, <1>9 DEF WipeResults, WipeLost, vars
<1>11. ASSUME NEW w \in Worker,
              StartHandlers(w) \/ ClaimReadFails(w) \/ Drain(w) \/ Shutdown(w)
              \/ Crash(w) \/ Restart(w)
       PROVE RowStep(s)
  BY <1>11, <1>9 DEF StartHandlers, ClaimReadFails, Drain, Shutdown, Crash, Restart,
     ProcessEnds
<1>12. ASSUME NEW h \in handlers, FailureNotRecorded(h) \/ HandlerExit(h)
       PROVE RowStep(s)
  BY <1>12, <1>9 DEF FailureNotRecorded, HandlerExit
<1> QED
  BY <1>1, <1>2, <1>3, <1>4, <1>5, <1>6, <1>7, <1>8, <1>10, <1>11, <1>12 DEF Next

\* Each writer of the queue columns keeps ownership and status together.
LEMMA OwnedStep ==
    ASSUME TypeOK, [Next]_vars, NEW s \in Sub, OwnedRow(row[s])
    PROVE  OwnedRow(row'[s])
<1> DEFINE r == row[s]
<1>1. r \in Row
  BY DEF TypeOK
<1>2. RowStep(s)
  BY RowSteps
<1> USE <1>1 DEF OwnedRow
<1>3. CASE row'[s] = r
  BY <1>3
<1>4. CASE row'[s] = EnqueuedRow(r)
  BY <1>4, RowFields
<1>5. ASSUME NEW w \in Worker, row'[s] = ClaimedRow(r, w) PROVE OwnedRow(row'[s])
  BY <1>5, RowFields
<1>6. ASSUME NEW v \in FinalVerdict, row'[s] = FinalRow(r, v) PROVE OwnedRow(row'[s])
  <2>1. v # "none"
    BY DEF FinalVerdict, UntestedVerdict
  <2> QED
    BY <1>6, <2>1, RowFields
<1>7. ASSUME NEW n \in Nat, row'[s] = FailedRow(r, n) PROVE OwnedRow(row'[s])
  BY <1>7, FailedFields
<1>8. CASE row'[s] = ReclaimedRow(r)
  BY <1>8, ReclaimedFields
<1>9. ASSUME NEW l \in {"fresh", "expired"}, r.status = "judging" \/ r.lease = "fresh",
             row'[s] = [r EXCEPT !.lease = l]
      PROVE OwnedRow(row'[s])
  BY <1>9, LeaseFields
<1> QED
  BY <1>2, <1>3, <1>4, <1>5, <1>6, <1>7, <1>8, <1>9 DEF RowStep

\* A row has an owner and a lease exactly while it is being judged, in every
\* behaviour and under every adverse timing: handlers that write by id alone can
\* spoil verdicts and results, never the ownership columns.
THEOREM Ownership == Spec => []OwnedWhileJudging
<1>1. Init => OwnedWhileJudging
  BY DEF Init, OwnedWhileJudging, OwnedRow, AbsentRow
<1>2. TypeOK /\ OwnedWhileJudging /\ [Next]_vars => OwnedWhileJudging'
  BY OwnedStep DEF OwnedWhileJudging
<1> QED
  BY <1>1, <1>2, TypeCorrect, PTL DEF Spec

-----------------------------------------------------------------------------
(* The inductive invariant, when nothing in Adverse happens *)

\* What CalmInv says beyond types and ownership.
CalmParts ==
    /\ HandlerOwnsRow
    /\ InFlightIsHandlers
    /\ ResultsMatchVerdict
    /\ AttemptsBounded
    /\ VerdictOnlyWhenDone
    /\ ProcessMemory
    /\ OneCallEach
    /\ PickedIsFresh
    /\ JudgedIsFresh
    /\ TriesLeft
    /\ WipedIsQueued

LEMMA CalmInvParts == CalmInv <=> TypeOK /\ OwnedWhileJudging /\ CalmParts
BY DEF CalmInv, CalmParts

\* A handler that has written its outcome is still there, but judges no more.
LEMMA ToExitFacts ==
    ASSUME handlers \subseteq Handler, NEW h \in handlers, ToExit(h)
    PROVE  /\ \A g \in handlers' : g.phase = "judging" => g \in handlers /\ g # h
           /\ \A w \in Worker : {g.sub : g \in HandlersOf(w)'} = {g.sub : g \in HandlersOf(w)}
           /\ OneCallEach => OneCallEach'
           /\ \A g \in handlers' : \E k \in handlers : g.by = k.by /\ g.sub = k.sub
<1> DEFINE x == [h EXCEPT !.phase = "exit"]
<1>1. x.phase = "exit" /\ x.by = h.by /\ x.sub = h.sub
  BY DEF Handler
<1>2. handlers' = (handlers \ {h}) \cup {x}
  BY DEF ToExit
<1> HIDE DEF x
<1>3. \A g \in handlers' : g.phase = "judging" => g \in handlers /\ g # h
  BY <1>1, <1>2
<1>4. ASSUME NEW w \in Worker
      PROVE  {g.sub : g \in HandlersOf(w)'} = {g.sub : g \in HandlersOf(w)}
  BY <1>1, <1>2 DEF HandlersOf
<1>5. OneCallEach => OneCallEach'
  BY <1>1, <1>2 DEF OneCallEach
<1>6. \A g \in handlers' : \E k \in handlers : g.by = k.by /\ g.sub = k.sub
  BY <1>1, <1>2
<1> QED
  BY <1>3, <1>4, <1>5, <1>6

\* A row some handler still judges is no other handler's and nobody reads it back.
LEMMA JudgedAlone ==
    ASSUME TypeOK, CalmParts, NEW h \in handlers, h.phase = "judging"
    PROVE  /\ \A g \in handlers : g.phase = "judging" /\ g.sub = h.sub => g = h
           /\ \A w \in Worker : h.sub \notin picked[w]
           /\ h.sub \in Sub /\ h.by \in Worker /\ h.attempts \in Nat
           /\ row[h.sub] \in Row
           /\ row[h.sub].status = "judging"
           /\ row[h.sub].verdict = "none"
           /\ row[h.sub].attempts = h.attempts
           /\ h.sub \notin wiping
           /\ results[h.sub] = 0
<1>1. h.sub \in Sub /\ h.by \in Worker /\ h.attempts \in Nat
  BY DEF TypeOK, Handler
<1>2. /\ row[h.sub] \in Row
      /\ row[h.sub].status = "judging"
      /\ row[h.sub].claimedBy = h.by
      /\ row[h.sub].attempts = h.attempts
  BY <1>1 DEF CalmParts, HandlerOwnsRow, TypeOK
<1>3. \A g \in handlers : g.phase = "judging" /\ g.sub = h.sub => g = h
  BY <1>2 DEF CalmParts, HandlerOwnsRow, OneCallEach
<1>4. h.sub \in inFlight[h.by]
  BY <1>1 DEF CalmParts, InFlightIsHandlers, HandlersOf
<1>5. \A w \in Worker : h.sub \notin picked[w]
  BY <1>2, <1>4 DEF CalmParts, PickedIsFresh
<1>6. h.sub \notin wiping
  BY <1>2 DEF CalmParts, WipedIsQueued
<1>7. row[h.sub].verdict = "none"
  BY <1>1, <1>2 DEF CalmParts, VerdictOnlyWhenDone
<1>8. results[h.sub] = 0
  BY <1>1, <1>2, <1>6 DEF CalmParts, ResultsMatchVerdict
<1> QED
  BY <1>1, <1>2, <1>3, <1>5, <1>6, <1>7, <1>8

\* The API's steps.
LEMMA CalmAPI ==
    ASSUME Adverse = {}, TypeOK, OwnedWhileJudging, CalmParts,
           \/ \E s \in Sub : Submit(s)
           \/ \E S \in SUBSET Sub : Rejudge(S)
           \/ WipeResults
           \/ WipeLost
    PROVE  CalmParts'
<1> USE DEF TypeOK
<1>1. ASSUME NEW s \in Sub, Submit(s) PROVE CalmParts'
  <2>1. /\ row' = [row EXCEPT ![s] = EnqueuedRow(row[s])]
        /\ row[s] \in Row
        /\ row[s].status = "absent"
        /\ UNCHANGED <<results, wiping, up, picked, inFlight, handlers>>
    BY <1>1 DEF Submit
  <2>2. row'[s].status = "queued" /\ row'[s].verdict = "none" /\ row'[s].attempts = 0
    <3>1. row'[s] = EnqueuedRow(row[s])
      BY <2>1
    <3> QED
      BY <2>1, <3>1, RowFields
  <2>3. \A t \in Sub : t # s => row'[t] = row[t]
    BY <2>1
  <2>4. HandlerOwnsRow' /\ JudgedIsFresh'
    BY <2>1, <2>3 DEF CalmParts, HandlerOwnsRow, JudgedIsFresh, Handler
  <2>5. PickedIsFresh'
    BY <2>1, <2>3 DEF CalmParts, PickedIsFresh
  <2>6. ResultsMatchVerdict'
    BY <2>1, <2>2, <2>3 DEF CalmParts, ResultsMatchVerdict, WipedIsQueued
  <2>7. AttemptsBounded' /\ TriesLeft'
    BY <2>2, <2>3 DEF CalmParts, AttemptsBounded, TriesLeft
  <2>8. VerdictOnlyWhenDone' /\ WipedIsQueued'
    BY <2>1, <2>2, <2>3 DEF CalmParts, VerdictOnlyWhenDone, WipedIsQueued
  <2>9. InFlightIsHandlers' /\ ProcessMemory' /\ OneCallEach'
    BY <2>1 DEF CalmParts, InFlightIsHandlers, ProcessMemory, OneCallEach, HandlersOf
  <2> QED
    BY <2>4, <2>5, <2>6, <2>7, <2>8, <2>9 DEF CalmParts
<1>2. ASSUME NEW S \in SUBSET Sub, Rejudge(S) PROVE CalmParts'
  <2>1. /\ wiping = {} /\ wiping' = S
        /\ S \cap Busy = {}
        /\ UNCHANGED <<results, up, picked, inFlight, handlers>>
    BY <1>2 DEF Rejudge
  <2>2. \A s \in S : /\ row'[s].status = "queued"
                     /\ row'[s].verdict = "none"
                     /\ row'[s].attempts = 0
    <3>1. \A s \in S : row'[s] = EnqueuedRow(row[s]) /\ row[s] \in Row
      BY <1>2 DEF Rejudge
    <3> QED
      BY <3>1, RowFields
  <2>3. \A s \in Sub \ S : row'[s] = row[s]
    BY <1>2 DEF Rejudge
  <2>4. \A h \in handlers : h.sub \in Sub \ S
    BY <2>1 DEF Busy, Handler
  <2>5. \A w \in Worker : picked[w] \subseteq Sub \ S
    BY <2>1 DEF Busy
  <2>6. HandlerOwnsRow' /\ JudgedIsFresh'
    BY <2>1, <2>3, <2>4 DEF CalmParts, HandlerOwnsRow, JudgedIsFresh
  <2>7. PickedIsFresh'
    BY <2>1, <2>3, <2>5 DEF CalmParts, PickedIsFresh
  <2>8. ResultsMatchVerdict' /\ WipedIsQueued'
    BY <2>1, <2>2, <2>3 DEF CalmParts, ResultsMatchVerdict, WipedIsQueued
  <2>9. AttemptsBounded' /\ TriesLeft'
    BY <2>2, <2>3 DEF CalmParts, AttemptsBounded, TriesLeft
  <2>10. VerdictOnlyWhenDone'
    BY <2>2, <2>3 DEF CalmParts, VerdictOnlyWhenDone
  <2>11. InFlightIsHandlers' /\ ProcessMemory' /\ OneCallEach'
    BY <2>1 DEF CalmParts, InFlightIsHandlers, ProcessMemory, OneCallEach, HandlersOf
  <2> QED
    BY <2>6, <2>7, <2>8, <2>9, <2>10, <2>11 DEF CalmParts
<1>3. CASE WipeResults
  <2>1. /\ wiping' = {}
        /\ UNCHANGED <<row, up, picked, inFlight, handlers>>
        /\ \A s \in wiping : results'[s] = 0
        /\ \A s \in Sub \ wiping : results'[s] = results[s]
    BY <1>3 DEF WipeResults
  <2>2. ResultsMatchVerdict'
    BY <2>1 DEF CalmParts, ResultsMatchVerdict, WipedIsQueued
  <2>3. HandlerOwnsRow' /\ JudgedIsFresh' /\ PickedIsFresh'
    BY <2>1 DEF CalmParts, HandlerOwnsRow, JudgedIsFresh, PickedIsFresh
  <2>4. AttemptsBounded' /\ TriesLeft' /\ VerdictOnlyWhenDone' /\ WipedIsQueued'
    BY <2>1 DEF CalmParts, AttemptsBounded, TriesLeft, VerdictOnlyWhenDone, WipedIsQueued
  <2>5. InFlightIsHandlers' /\ ProcessMemory' /\ OneCallEach'
    BY <2>1 DEF CalmParts, InFlightIsHandlers, ProcessMemory, OneCallEach, HandlersOf
  <2> QED
    BY <2>2, <2>3, <2>4, <2>5 DEF CalmParts
<1>4. ~WipeLost
  BY DEF WipeLost
<1> QED
  BY <1>1, <1>2, <1>3, <1>4

\* The main loop's steps.
LEMMA CalmClaim ==
    ASSUME Adverse = {}, TypeOK, OwnedWhileJudging, CalmParts, NEW w \in Worker,
           Claim(w) \/ StartHandlers(w) \/ ClaimReadFails(w)
    PROVE  CalmParts'
<1> USE DEF TypeOK
<1>1. CASE Claim(w)
  <2> DEFINE ids == FirstOf(WithStatus("queued"), FreeSlots(w))
  <2>1. /\ w \in up
        /\ ids \cap {h.sub : h \in HandlersOf(w)} = {}
        /\ ids \cap wiping = {}
        /\ row' = [s \in Sub |-> IF s \in ids THEN ClaimedRow(row[s], w) ELSE row[s]]
        /\ picked' = [picked EXCEPT ![w] = ids]
        /\ UNCHANGED <<results, wiping, up, inFlight, handlers>>
    BY <1>1 DEF Claim
  <2>2. ids \subseteq Sub /\ \A s \in ids : row[s].status = "queued"
    BY FirstOfSubset DEF WithStatus
  <2> HIDE DEF ids
  <2>3. \A s \in ids : /\ row'[s].status = "judging"
                       /\ row'[s].verdict = row[s].verdict
                       /\ row'[s].claimedBy = w
                       /\ row'[s].attempts = row[s].attempts + 1
                       /\ row'[s].lease = "fresh"
    <3>1. \A s \in ids : row'[s] = ClaimedRow(row[s], w) /\ row[s] \in Row
      BY <2>1, <2>2
    <3> QED
      BY <3>1, RowFields
  <2>4. \A s \in Sub \ ids : row'[s] = row[s]
    BY <2>1
  <2>5. \A h \in handlers : h.phase = "judging" => h.sub \in Sub \ ids
    BY <2>2 DEF CalmParts, HandlerOwnsRow, Handler
  <2>6. HandlerOwnsRow' /\ JudgedIsFresh'
    BY <2>1, <2>4, <2>5 DEF CalmParts, HandlerOwnsRow, JudgedIsFresh
  <2>7. PickedIsFresh'
    <3> SUFFICES ASSUME NEW v \in Worker, NEW s \in picked'[v]
                 PROVE  /\ row'[s].status = "judging"
                        /\ row'[s].claimedBy = v
                        /\ row'[s].lease = "fresh"
                        /\ s \notin inFlight'[v]
      BY DEF PickedIsFresh
    <3>1. CASE v = w
      <4>1. s \in ids
        BY <2>1, <3>1
      <4>2. s \notin inFlight[w]
        BY <2>1, <4>1 DEF CalmParts, InFlightIsHandlers
      <4> QED
        BY <2>1, <2>3, <3>1, <4>1, <4>2
    <3>2. CASE v # w
      <4>1. s \in picked[v] /\ s \in Sub
        BY <2>1, <3>2
      <4>2. s \notin ids
        BY <2>2, <4>1 DEF CalmParts, PickedIsFresh
      <4> QED
        BY <2>1, <2>4, <4>1, <4>2 DEF CalmParts, PickedIsFresh
    <3> QED
      BY <3>1, <3>2
  <2>8. ResultsMatchVerdict'
    BY <2>1, <2>2, <2>3, <2>4 DEF CalmParts, ResultsMatchVerdict
  <2>9. WipedIsQueued'
    BY <2>1, <2>4 DEF CalmParts, WipedIsQueued
  <2>10. AttemptsBounded' /\ TriesLeft'
    <3>1. \A s \in Sub : row[s].attempts \in Nat
      BY DEF Row
    <3>2. \A s \in ids : row'[s].attempts <= MaxAttempts
      BY <2>2, <2>3, <3>1 DEF CalmParts, TriesLeft
    <3>3. AttemptsBounded'
      BY <3>2, <2>4 DEF CalmParts, AttemptsBounded
    <3>4. TriesLeft'
      BY <2>3, <2>4 DEF CalmParts, TriesLeft
    <3> QED
      BY <3>3, <3>4
  <2>11. VerdictOnlyWhenDone'
    BY <2>2, <2>3, <2>4 DEF CalmParts, VerdictOnlyWhenDone
  <2>12. ProcessMemory'
    BY <2>1 DEF CalmParts, ProcessMemory
  <2>13. InFlightIsHandlers' /\ OneCallEach'
    BY <2>1 DEF CalmParts, InFlightIsHandlers, OneCallEach, HandlersOf
  <2> QED
    BY <2>6, <2>7, <2>8, <2>9, <2>10, <2>11, <2>12, <2>13 DEF CalmParts
<1>2. CASE StartHandlers(w)
  <2> DEFINE new(s) == [by |-> w, sub |-> s, no |-> FreeNo(w, s),
                        attempts |-> row[s].attempts, phase |-> "judging"]
  <2>1. /\ w \in up
        /\ handlers' = handlers \cup {new(s) : s \in picked[w]}
        /\ inFlight' = [inFlight EXCEPT ![w] = inFlight[w] \cup picked[w]]
        /\ picked' = [picked EXCEPT ![w] = {}]
        /\ UNCHANGED <<row, results, wiping, up>>
    BY <1>2 DEF StartHandlers
  <2>2. \A s \in picked[w] : new(s).by = w /\ new(s).sub = s
                             /\ new(s).attempts = row[s].attempts
    OBVIOUS
  <2> HIDE DEF new
  <2>3. HandlerOwnsRow' /\ JudgedIsFresh'
    BY <2>1, <2>2 DEF CalmParts, HandlerOwnsRow, JudgedIsFresh, PickedIsFresh
  <2>4. InFlightIsHandlers'
    <3> SUFFICES ASSUME NEW v \in Worker
                 PROVE  inFlight'[v] = {h.sub : h \in HandlersOf(v)'}
      BY DEF InFlightIsHandlers
    <3>1. inFlight[v] = {h.sub : h \in HandlersOf(v)}
      BY DEF CalmParts, InFlightIsHandlers
    <3>2. CASE v = w
      <4>1. \A h \in HandlersOf(w) : h \in HandlersOf(w)'
        BY <2>1 DEF HandlersOf
      <4>2. \A s \in picked[w] : new(s) \in HandlersOf(w)'
        BY <2>1, <2>2 DEF HandlersOf
      <4>3. \A h \in HandlersOf(w)' : h \in HandlersOf(w) \/ \E s \in picked[w] : h = new(s)
        BY <2>1 DEF HandlersOf
      <4>4. inFlight'[v] = inFlight[w] \cup picked[w]
        BY <2>1, <3>2
      <4>5. inFlight[w] = {h.sub : h \in HandlersOf(w)}
        BY DEF CalmParts, InFlightIsHandlers
      <4>6. \A x \in inFlight'[v] : \E h \in HandlersOf(w)' : x = h.sub
        <5>1. \A x \in inFlight[w] : \E h \in HandlersOf(w)' : x = h.sub
          BY <4>1, <4>5
        <5>2. \A x \in picked[w] : \E h \in HandlersOf(w)' : x = h.sub
          BY <2>2, <4>2
        <5> QED
          BY <4>4, <5>1, <5>2
      <4>7. \A h \in HandlersOf(w)' : h.sub \in inFlight'[v]
        BY <2>2, <4>3, <4>4, <4>5
      <4> QED
        BY <3>2, <4>6, <4>7 DEF HandlersOf
    <3>3. CASE v # w
      <4>1. HandlersOf(v)' = HandlersOf(v)
        BY <2>1, <2>2, <3>3 DEF HandlersOf
      <4> QED
        BY <2>1, <3>1, <3>3, <4>1
    <3> QED
      BY <3>2, <3>3
  <2>5. OneCallEach'
    <3>1. \A h \in handlers : h.by = w => h.sub \notin picked[w]
      BY DEF CalmParts, InFlightIsHandlers, PickedIsFresh, HandlersOf
    <3> QED
      BY <2>1, <2>2, <3>1 DEF CalmParts, OneCallEach
  <2>6. PickedIsFresh'
    BY <2>1 DEF CalmParts, PickedIsFresh
  <2>7. ProcessMemory'
    BY <2>1, <2>2 DEF CalmParts, ProcessMemory
  <2>8. ResultsMatchVerdict' /\ VerdictOnlyWhenDone' /\ WipedIsQueued'
    BY <2>1 DEF CalmParts, ResultsMatchVerdict, VerdictOnlyWhenDone, WipedIsQueued
  <2>9. AttemptsBounded' /\ TriesLeft'
    BY <2>1 DEF CalmParts, AttemptsBounded, TriesLeft
  <2> QED
    BY <2>3, <2>4, <2>5, <2>6, <2>7, <2>8, <2>9 DEF CalmParts
<1>3. CASE ClaimReadFails(w)
  <2>1. /\ picked' = [picked EXCEPT ![w] = {}]
        /\ UNCHANGED <<row, results, wiping, up, inFlight, handlers>>
    BY <1>3 DEF ClaimReadFails
  <2>2. PickedIsFresh' /\ ProcessMemory'
    BY <2>1 DEF CalmParts, PickedIsFresh, ProcessMemory
  <2>3. HandlerOwnsRow' /\ InFlightIsHandlers' /\ OneCallEach' /\ JudgedIsFresh'
    BY <2>1 DEF CalmParts, HandlerOwnsRow, InFlightIsHandlers, OneCallEach,
       JudgedIsFresh, HandlersOf
  <2>4. ResultsMatchVerdict' /\ VerdictOnlyWhenDone' /\ WipedIsQueued'
    BY <2>1 DEF CalmParts, ResultsMatchVerdict, VerdictOnlyWhenDone, WipedIsQueued
  <2>5. AttemptsBounded' /\ TriesLeft'
    BY <2>1 DEF CalmParts, AttemptsBounded, TriesLeft
  <2> QED
    BY <2>2, <2>3, <2>4, <2>5 DEF CalmParts
<1> QED
  BY <1>1, <1>2, <1>3

\* What a handler's last write keeps, given the row it leaves.
LEMMA CalmOutcome ==
    ASSUME TypeOK, CalmParts, NEW h \in handlers, h.phase = "judging", ToExit(h),
           UNCHANGED <<up, picked, inFlight, wiping>>,
           \A s \in Sub \ {h.sub} : row'[s] = row[s] /\ results'[s] = results[s],
           row'[h.sub].attempts = row[h.sub].attempts,
           \/ /\ row'[h.sub] = row[h.sub]
              /\ results'[h.sub] = 0
           \/ /\ row'[h.sub].status = "queued"
              /\ row'[h.sub].verdict = "none"
              /\ row'[h.sub].attempts < MaxAttempts
              /\ results'[h.sub] = 0
           \/ /\ row'[h.sub].status = "done"
              /\ row'[h.sub].verdict \in TestedVerdict
              /\ results'[h.sub] = 1
           \/ /\ row'[h.sub].status = "done"
              /\ row'[h.sub].verdict \notin TestedVerdict
              /\ results'[h.sub] = 0
    PROVE  CalmParts'
<1> USE DEF TypeOK
<1>1. /\ \A g \in handlers : g.phase = "judging" /\ g.sub = h.sub => g = h
      /\ \A w \in Worker : h.sub \notin picked[w]
      /\ h.sub \in Sub
      /\ row[h.sub].status = "judging"
      /\ row[h.sub].verdict = "none"
      /\ h.sub \notin wiping
  BY JudgedAlone
<1>2. /\ \A g \in handlers' : g.phase = "judging" => g \in handlers /\ g # h
      /\ \A w \in Worker : {g.sub : g \in HandlersOf(w)'} = {g.sub : g \in HandlersOf(w)}
      /\ OneCallEach => OneCallEach'
      /\ \A g \in handlers' : \E k \in handlers : g.by = k.by /\ g.sub = k.sub
  BY ToExitFacts
<1>3. \A g \in handlers' : g.phase = "judging" =>
         g \in handlers /\ g.sub \in Sub /\ row'[g.sub] = row[g.sub]
  BY <1>1, <1>2 DEF Handler
<1>4. HandlerOwnsRow' /\ JudgedIsFresh'
  BY <1>3 DEF CalmParts, HandlerOwnsRow, JudgedIsFresh
<1>5. InFlightIsHandlers' /\ OneCallEach'
  BY <1>2 DEF CalmParts, InFlightIsHandlers
<1>6. ProcessMemory'
  BY <1>2 DEF CalmParts, ProcessMemory
<1>7. PickedIsFresh'
  BY <1>1 DEF CalmParts, PickedIsFresh
<1>8. WipedIsQueued'
  BY <1>1 DEF CalmParts, WipedIsQueued
<1>9. AttemptsBounded' /\ TriesLeft'
  BY <1>1 DEF CalmParts, AttemptsBounded, TriesLeft
<1>10. VerdictOnlyWhenDone'
  BY <1>1 DEF CalmParts, VerdictOnlyWhenDone
<1>11. ResultsMatchVerdict'
  BY <1>1 DEF CalmParts, ResultsMatchVerdict
<1> QED
  BY <1>4, <1>5, <1>6, <1>7, <1>8, <1>9, <1>10, <1>11 DEF CalmParts

\* handleOne's steps.
LEMMA CalmHandler ==
    ASSUME Adverse = {}, TypeOK, OwnedWhileJudging, CalmParts, NEW h \in handlers,
           \/ \E v \in FinalVerdict : Finalize(h, v)
           \/ JudgeFailure(h)
           \/ FailureNotRecorded(h)
           \/ HandlerExit(h)
    PROVE  CalmParts'
<1> USE DEF TypeOK
<1>1. ASSUME NEW v \in FinalVerdict, Finalize(h, v) PROVE CalmParts'
  <2>1. /\ h.phase = "judging" /\ ToExit(h)
        /\ UNCHANGED <<up, picked, inFlight, wiping>>
    BY <1>1 DEF Finalize
  <2>2. h.sub \in Sub /\ row[h.sub] \in Row /\ results[h.sub] = 0
    BY <2>1, JudgedAlone
  <2>3. \A s \in Sub \ {h.sub} : row'[s] = row[s] /\ results'[s] = results[s]
    BY <1>1 DEF Finalize
  <2>4. row'[h.sub] = FinalRow(row[h.sub], v)
    BY <1>1, <2>2 DEF Finalize
  <2>5. /\ row'[h.sub].status = "done"
        /\ row'[h.sub].verdict = v
        /\ row'[h.sub].attempts = row[h.sub].attempts
    BY <2>2, <2>4, RowFields
  <2>6. v \in TestedVerdict => results'[h.sub] = 1
    BY <1>1, <2>2 DEF Finalize
  <2>7. v \notin TestedVerdict => results'[h.sub] = 0
    BY <1>1, <2>2 DEF Finalize
  <2> QED
    BY <2>1, <2>3, <2>5, <2>6, <2>7, CalmOutcome
<1>2. CASE JudgeFailure(h)
  <2>1. /\ h.phase = "judging" /\ ToExit(h)
        /\ UNCHANGED <<up, picked, inFlight, wiping, results>>
    BY <1>2 DEF JudgeFailure
  <2>2. /\ h.sub \in Sub
        /\ row[h.sub] \in Row
        /\ row[h.sub].verdict = "none"
        /\ row[h.sub].attempts = h.attempts
        /\ h.attempts \in Nat
        /\ results[h.sub] = 0
    BY <2>1, JudgedAlone
  <2>3. \A s \in Sub \ {h.sub} : row'[s] = row[s] /\ results'[s] = results[s]
    BY <1>2, <2>1 DEF JudgeFailure
  <2>4. row'[h.sub] = FailedRow(row[h.sub], h.attempts) /\ results'[h.sub] = 0
    BY <1>2, <2>1, <2>2 DEF JudgeFailure
  <2>5. /\ row'[h.sub].attempts = h.attempts
        /\ \/ row'[h.sub].status = "done" /\ row'[h.sub].verdict = "internal_error"
           \/ /\ row'[h.sub].status = "queued"
              /\ row'[h.sub].verdict = "none"
              /\ h.attempts < MaxAttempts
    BY <2>2, <2>4, FailedFields
  <2>6. "internal_error" \notin TestedVerdict
    OBVIOUS
  <2> QED
    BY <2>1, <2>2, <2>3, <2>4, <2>5, <2>6, CalmOutcome
<1>3. CASE FailureNotRecorded(h)
  <2>1. /\ h.phase = "judging" /\ ToExit(h)
        /\ UNCHANGED <<up, picked, inFlight, wiping, results, row>>
    BY <1>3 DEF FailureNotRecorded
  <2>2. results[h.sub] = 0
    BY <2>1, JudgedAlone
  <2> QED
    BY <2>1, <2>2, CalmOutcome
<1>4. CASE HandlerExit(h)
  <2>1. /\ h.phase = "exit"
        /\ handlers' = handlers \ {h}
        /\ inFlight' = [inFlight EXCEPT ![h.by] = inFlight[h.by] \ {h.sub}]
        /\ UNCHANGED <<row, results, wiping, up, picked>>
    BY <1>4 DEF HandlerExit
  <2>2. HandlerOwnsRow' /\ JudgedIsFresh' /\ OneCallEach'
    BY <2>1 DEF CalmParts, HandlerOwnsRow, JudgedIsFresh, OneCallEach
  <2>3. InFlightIsHandlers'
    <3> SUFFICES ASSUME NEW w \in Worker
                 PROVE  inFlight'[w] = {g.sub : g \in {g \in handlers' : g.by = w}}
      BY DEF InFlightIsHandlers, HandlersOf
    <3>1. inFlight[w] = {g.sub : g \in {g \in handlers : g.by = w}}
      BY DEF CalmParts, InFlightIsHandlers, HandlersOf
    <3>2. CASE w # h.by
      BY <2>1, <3>1, <3>2
    <3>3. CASE w = h.by
      <4>1. inFlight'[w] = inFlight[w] \ {h.sub}
        BY <2>1, <3>3
      <4>2. \A g \in handlers : g.by = w /\ g.sub = h.sub => g = h
        BY <3>3 DEF CalmParts, OneCallEach
      <4> QED
        BY <2>1, <3>1, <3>3, <4>1, <4>2
    <3> QED
      BY <3>2, <3>3
  <2>4. PickedIsFresh'
    BY <2>1 DEF CalmParts, PickedIsFresh
  <2>5. ProcessMemory'
    BY <2>1 DEF CalmParts, ProcessMemory
  <2>6. ResultsMatchVerdict' /\ VerdictOnlyWhenDone' /\ WipedIsQueued'
    BY <2>1 DEF CalmParts, ResultsMatchVerdict, VerdictOnlyWhenDone, WipedIsQueued
  <2>7. AttemptsBounded' /\ TriesLeft'
    BY <2>1 DEF CalmParts, AttemptsBounded, TriesLeft
  <2> QED
    BY <2>2, <2>3, <2>4, <2>5, <2>6, <2>7 DEF CalmParts
<1> QED
  BY <1>1, <1>2, <1>3, <1>4

\* A step that touches leases only, and leaves those a worker relies on fresh.
LEMMA CalmLease ==
    ASSUME TypeOK, CalmParts,
           UNCHANGED <<results, wiping, up, picked, inFlight, handlers>>,
           \A s \in Sub : /\ row'[s].status = row[s].status
                          /\ row'[s].verdict = row[s].verdict
                          /\ row'[s].claimedBy = row[s].claimedBy
                          /\ row'[s].attempts = row[s].attempts,
           \A h \in handlers : h.phase = "judging" => row'[h.sub].lease = "fresh",
           \A w \in Worker : \A s \in picked[w] : row'[s].lease = "fresh"
    PROVE  CalmParts'
<1> USE DEF TypeOK
<1>1. HandlerOwnsRow' /\ JudgedIsFresh'
  BY DEF CalmParts, HandlerOwnsRow, JudgedIsFresh, Handler
<1>2. PickedIsFresh'
  BY DEF CalmParts, PickedIsFresh
<1>3. ResultsMatchVerdict'
  BY DEF CalmParts, ResultsMatchVerdict
<1>4. VerdictOnlyWhenDone' /\ WipedIsQueued'
  BY DEF CalmParts, VerdictOnlyWhenDone, WipedIsQueued
<1>5. AttemptsBounded' /\ TriesLeft'
  BY DEF CalmParts, AttemptsBounded, TriesLeft
<1>6. InFlightIsHandlers' /\ ProcessMemory' /\ OneCallEach'
  BY DEF CalmParts, InFlightIsHandlers, ProcessMemory, OneCallEach, HandlersOf
<1> QED
  BY <1>1, <1>2, <1>3, <1>4, <1>5, <1>6 DEF CalmParts

\* Heartbeats, time and the reclaim loop.
LEMMA CalmLeases ==
    ASSUME Adverse = {}, TypeOK, OwnedWhileJudging, CalmParts,
           \/ \E s \in Sub : LeaseRunsOut(s) \/ HeartbeatsLate(s)
           \/ \E w \in Worker : Heartbeat(w)
           \/ ReclaimStale
    PROVE  CalmParts'
<1> USE DEF TypeOK
<1>1. ASSUME NEW s \in Sub, LeaseRunsOut(s) PROVE CalmParts'
  <2>1. /\ ~Attended(s)
        /\ row' = [row EXCEPT ![s] = [row[s] EXCEPT !.lease = "expired"]]
        /\ UNCHANGED <<results, wiping, up, picked, inFlight, handlers>>
    BY <1>1 DEF LeaseRunsOut, ExpireLease
  <2>2. \A t \in Sub : t # s => row'[t] = row[t]
    BY <2>1
  <2>3. /\ row'[s].status = row[s].status
        /\ row'[s].verdict = row[s].verdict
        /\ row'[s].claimedBy = row[s].claimedBy
        /\ row'[s].attempts = row[s].attempts
    BY <2>1, LeaseFields
  <2>4. \A h \in handlers : h.phase = "judging" => h.sub # s /\ h.sub \in Sub
    <3> SUFFICES ASSUME NEW h \in handlers, h.phase = "judging"
                 PROVE  h.sub # s /\ h.sub \in Sub
      OBVIOUS
    <3>1. h.sub \in Sub /\ h.by \in Worker
      BY DEF Handler
    <3>2. h.by \in up /\ row[h.sub].claimedBy = h.by
      BY DEF CalmParts, HandlerOwnsRow, ProcessMemory
    <3>3. h.sub \in inFlight[h.by]
      BY <3>1 DEF CalmParts, InFlightIsHandlers, HandlersOf
    <3>4. Attended(h.sub)
      BY <3>2, <3>3 DEF Attended
    <3> QED
      BY <2>1, <3>1, <3>4
  <2>5. \A w \in Worker : s \notin picked[w]
    BY <2>1 DEF CalmParts, PickedIsFresh, ProcessMemory, Attended
  <2>6. \A h \in handlers : h.phase = "judging" => row'[h.sub].lease = "fresh"
    BY <2>2, <2>4 DEF CalmParts, JudgedIsFresh
  <2>7. \A w \in Worker : \A t \in picked[w] : row'[t].lease = "fresh"
    BY <2>2, <2>5 DEF CalmParts, PickedIsFresh
  <2> QED
    BY <2>1, <2>2, <2>3, <2>6, <2>7, CalmLease
<1>2. ASSUME NEW s \in Sub PROVE ~HeartbeatsLate(s)
  BY DEF HeartbeatsLate
<1>3. ASSUME NEW w \in Worker, Heartbeat(w) PROVE CalmParts'
  <2>1. UNCHANGED <<results, wiping, up, picked, inFlight, handlers>>
    BY <1>3 DEF Heartbeat
  <2>2. \A s \in Sub : row'[s] = row[s] \/ row'[s] = [row[s] EXCEPT !.lease = "fresh"]
    BY <1>3 DEF Heartbeat
  <2>3. \A s \in Sub : /\ row'[s].status = row[s].status
                       /\ row'[s].verdict = row[s].verdict
                       /\ row'[s].claimedBy = row[s].claimedBy
                       /\ row'[s].attempts = row[s].attempts
                       /\ row[s].lease = "fresh" => row'[s].lease = "fresh"
    <3> SUFFICES ASSUME NEW s \in Sub
                 PROVE  /\ row'[s].status = row[s].status
                        /\ row'[s].verdict = row[s].verdict
                        /\ row'[s].claimedBy = row[s].claimedBy
                        /\ row'[s].attempts = row[s].attempts
                        /\ row[s].lease = "fresh" => row'[s].lease = "fresh"
      OBVIOUS
    <3>1. CASE row'[s] = row[s]
      BY <3>1
    <3>2. CASE row'[s] = [row[s] EXCEPT !.lease = "fresh"]
      <4>1. row[s] \in Row
        OBVIOUS
      <4> QED
        BY <3>2, <4>1, LeaseFields
    <3> QED
      BY <2>2, <3>1, <3>2
  <2>4. \A h \in handlers : h.phase = "judging" => row'[h.sub].lease = "fresh"
    BY <2>3 DEF CalmParts, JudgedIsFresh, Handler
  <2>5. \A v \in Worker : \A t \in picked[v] : row'[t].lease = "fresh"
    BY <2>3 DEF CalmParts, PickedIsFresh
  <2> QED
    BY <2>1, <2>3, <2>4, <2>5, CalmLease
<1>4. CASE ReclaimStale
  <2>1. UNCHANGED <<results, wiping, up, picked, inFlight, handlers>>
    BY <1>4 DEF ReclaimStale
  <2>2. \A s \in Stale : row'[s] = ReclaimedRow(row[s]) /\ row[s] \in Row
    BY <1>4 DEF ReclaimStale, Stale, WithStatus
  <2>3. \A s \in Sub \ Stale : row'[s] = row[s]
    BY <1>4 DEF ReclaimStale
  <2>4. \A s \in Stale : /\ s \in Sub
                         /\ row[s].status = "judging"
                         /\ row[s].lease = "expired"
    BY DEF Stale, WithStatus
  <2>5. \A s \in Stale :
          \/ /\ row'[s].status = "done"
             /\ row'[s].verdict = "internal_error"
             /\ row'[s].attempts = row[s].attempts
          \/ /\ row'[s].status = "queued"
             /\ row'[s].verdict = "none"
             /\ row'[s].attempts = row[s].attempts
             /\ row'[s].attempts < MaxAttempts
    BY <2>2, ReclaimedFields
  <2>6. \A h \in handlers : h.phase = "judging" => h.sub \in Sub \ Stale
    BY <2>4 DEF CalmParts, JudgedIsFresh, Handler
  <2>7. \A w \in Worker : picked[w] \subseteq Sub \ Stale
    BY <2>4 DEF CalmParts, PickedIsFresh
  <2>8. HandlerOwnsRow' /\ JudgedIsFresh'
    BY <2>1, <2>3, <2>6 DEF CalmParts, HandlerOwnsRow, JudgedIsFresh
  <2>9. PickedIsFresh'
    BY <2>1, <2>3, <2>7 DEF CalmParts, PickedIsFresh
  <2>10. WipedIsQueued'
    BY <2>1, <2>3, <2>4 DEF CalmParts, WipedIsQueued
  <2>11. ResultsMatchVerdict'
    <3>1. \A s \in Stale : results[s] = 0
      BY <2>4 DEF CalmParts, ResultsMatchVerdict, WipedIsQueued
    <3>2. "internal_error" \notin TestedVerdict
      OBVIOUS
    <3> QED
      BY <2>1, <2>3, <2>5, <3>1, <3>2 DEF CalmParts, ResultsMatchVerdict
  <2>12. AttemptsBounded' /\ TriesLeft'
    BY <2>3, <2>4, <2>5 DEF CalmParts, AttemptsBounded, TriesLeft
  <2>13. VerdictOnlyWhenDone'
    BY <2>3, <2>5 DEF CalmParts, VerdictOnlyWhenDone
  <2>14. InFlightIsHandlers' /\ ProcessMemory' /\ OneCallEach'
    BY <2>1 DEF CalmParts, InFlightIsHandlers, ProcessMemory, OneCallEach, HandlersOf
  <2> QED
    BY <2>8, <2>9, <2>10, <2>11, <2>12, <2>13, <2>14 DEF CalmParts
<1> QED
  BY <1>1, <1>2, <1>3, <1>4

\* Signals, crashes and restarts.
LEMMA CalmProcess ==
    ASSUME TypeOK, OwnedWhileJudging, CalmParts, NEW w \in Worker,
           Drain(w) \/ Shutdown(w) \/ Crash(w) \/ Restart(w)
    PROVE  CalmParts'
<1> USE DEF TypeOK
<1>1. UNCHANGED <<row, results, wiping>>
  BY DEF Drain, Shutdown, Crash, Restart, ProcessEnds
<1>2. /\ ResultsMatchVerdict' /\ VerdictOnlyWhenDone' /\ WipedIsQueued'
      /\ AttemptsBounded' /\ TriesLeft'
  BY <1>1 DEF CalmParts, ResultsMatchVerdict, VerdictOnlyWhenDone, WipedIsQueued,
     AttemptsBounded, TriesLeft
<1>3. CASE Drain(w)
  <2>1. UNCHANGED <<row, up, picked, inFlight, handlers>>
    BY <1>3 DEF Drain
  <2>2. /\ HandlerOwnsRow' /\ JudgedIsFresh' /\ PickedIsFresh'
        /\ InFlightIsHandlers' /\ ProcessMemory' /\ OneCallEach'
    BY <2>1 DEF CalmParts, HandlerOwnsRow, JudgedIsFresh, PickedIsFresh,
       InFlightIsHandlers, ProcessMemory, OneCallEach, HandlersOf
  <2> QED
    BY <1>2, <2>2 DEF CalmParts
<1>4. CASE ProcessEnds(w)
  <2>1. /\ up' = up \ {w}
        /\ picked' = [picked EXCEPT ![w] = {}]
        /\ inFlight' = [inFlight EXCEPT ![w] = {}]
        /\ handlers' = {h \in handlers : h.by # w}
    BY <1>4 DEF ProcessEnds, HandlersOf
  <2>2. HandlerOwnsRow' /\ JudgedIsFresh' /\ OneCallEach'
    BY <1>1, <2>1 DEF CalmParts, HandlerOwnsRow, JudgedIsFresh, OneCallEach
  <2>3. PickedIsFresh'
    BY <1>1, <2>1 DEF CalmParts, PickedIsFresh
  <2>4. ProcessMemory'
    BY <2>1 DEF CalmParts, ProcessMemory
  <2>5. InFlightIsHandlers'
    <3> SUFFICES ASSUME NEW v \in Worker
                 PROVE  inFlight'[v] = {g.sub : g \in {g \in handlers' : g.by = v}}
      BY DEF InFlightIsHandlers, HandlersOf
    <3>1. inFlight[v] = {g.sub : g \in {g \in handlers : g.by = v}}
      BY DEF CalmParts, InFlightIsHandlers, HandlersOf
    <3>2. CASE v = w
      BY <2>1, <3>2
    <3>3. CASE v # w
      <4>1. {g \in handlers' : g.by = v} = {g \in handlers : g.by = v}
        BY <2>1, <3>3
      <4>2. inFlight'[v] = inFlight[v]
        BY <2>1, <3>3
      <4> QED
        BY <3>1, <4>1, <4>2
    <3> QED
      BY <3>2, <3>3
  <2> QED
    BY <1>2, <2>2, <2>3, <2>4, <2>5 DEF CalmParts
<1>5. CASE Restart(w)
  <2>1. up' = up \cup {w} /\ UNCHANGED <<row, picked, inFlight, handlers>>
    BY <1>5 DEF Restart
  <2>2. ProcessMemory'
    BY <2>1 DEF CalmParts, ProcessMemory
  <2>3. /\ HandlerOwnsRow' /\ JudgedIsFresh' /\ PickedIsFresh'
        /\ InFlightIsHandlers' /\ OneCallEach'
    BY <2>1 DEF CalmParts, HandlerOwnsRow, JudgedIsFresh, PickedIsFresh,
       InFlightIsHandlers, OneCallEach, HandlersOf
  <2> QED
    BY <1>2, <2>2, <2>3 DEF CalmParts
<1> QED
  BY <1>3, <1>4, <1>5 DEF Shutdown, Crash

\* CalmInv is inductive: every step that no adverse timing disturbs keeps it.
LEMMA CalmStep == Adverse = {} => (CalmInv /\ [Next]_vars => CalmInv')
<1> SUFFICES ASSUME Adverse = {}, CalmInv, [Next]_vars PROVE CalmInv'
  OBVIOUS
<1>1. TypeOK /\ OwnedWhileJudging /\ CalmParts
  BY CalmInvParts
<1>2. TypeOK'
  BY <1>1, TypeStep
<1>3. OwnedWhileJudging'
  BY <1>1, OwnedStep DEF OwnedWhileJudging
<1>4. CalmParts'
  <2>1. CASE UNCHANGED vars
    BY <1>1, <2>1 DEF vars, CalmParts, HandlerOwnsRow, InFlightIsHandlers,
       ResultsMatchVerdict, AttemptsBounded, VerdictOnlyWhenDone, ProcessMemory,
       OneCallEach, PickedIsFresh, JudgedIsFresh, TriesLeft, WipedIsQueued, HandlersOf
  <2> QED
    BY <1>1, <2>1, CalmAPI, CalmClaim, CalmHandler, CalmLeases, CalmProcess DEF Next
<1> QED
  BY <1>2, <1>3, <1>4 DEF CalmInv, CalmParts

LEMMA CalmInit == Init => CalmInv
<1> SUFFICES ASSUME Init PROVE CalmInv
  OBVIOUS
<1>1. TypeOK
  BY RowTypes DEF Init, TypeOK
<1>2. OwnedWhileJudging
  BY DEF Init, OwnedWhileJudging, OwnedRow, AbsentRow
<1>3. CalmParts
  BY DEF Init, AbsentRow, CalmParts, HandlerOwnsRow, InFlightIsHandlers, HandlersOf,
     ResultsMatchVerdict, AttemptsBounded, VerdictOnlyWhenDone, ProcessMemory,
     OneCallEach, PickedIsFresh, JudgedIsFresh, TriesLeft, WipedIsQueued
<1> QED
  BY <1>1, <1>2, <1>3 DEF CalmInv, CalmParts

\* Without adverse timing the inductive invariant holds in every reachable state.
THEOREM CalmCorrect == Adverse = {} => (Spec => []CalmInv)
<1> SUFFICES ASSUME Adverse = {} PROVE Spec => []CalmInv
  OBVIOUS
<1>1. CalmInv /\ [Next]_vars => CalmInv'
  BY CalmStep
<1> QED
  BY <1>1, CalmInit, PTL DEF Spec

-----------------------------------------------------------------------------
(* What it gives *)

\* No submission is judged by two handlers at a time.
THEOREM OneJudge == Adverse = {} => (Spec => []SoleHandler)
<1> SUFFICES ASSUME Adverse = {} PROVE Spec => []SoleHandler
  OBVIOUS
<1>1. CalmInv => SoleHandler
  BY JudgedAlone DEF CalmInv, CalmParts, SoleHandler
<1> QED
  BY <1>1, CalmCorrect, PTL

\* finalize and onJudgeFailure, which write by id alone, write only to rows their
\* own worker still owns.
THEOREM WritersOwn == Adverse = {} => (Spec => []HandlerOwnsRow)
<1> SUFFICES ASSUME Adverse = {} PROVE Spec => []HandlerOwnsRow
  OBVIOUS
<1>1. CalmInv => HandlerOwnsRow
  BY DEF CalmInv
<1> QED
  BY <1>1, CalmCorrect, PTL

\* A submission shows the results of one run, of the one its verdict is from.
THEOREM ResultsOfOneRun == Adverse = {} => (Spec => []ResultsMatchVerdict)
<1> SUFFICES ASSUME Adverse = {} PROVE Spec => []ResultsMatchVerdict
  OBVIOUS
<1>1. CalmInv => ResultsMatchVerdict
  BY DEF CalmInv
<1> QED
  BY <1>1, CalmCorrect, PTL

\* A submission is tried at most MaxAttempts times before its verdict.
THEOREM TriesBounded == Adverse = {} => (Spec => []AttemptsBounded)
<1> SUFFICES ASSUME Adverse = {} PROVE Spec => []AttemptsBounded
  OBVIOUS
<1>1. CalmInv => AttemptsBounded
  BY DEF CalmInv
<1> QED
  BY <1>1, CalmCorrect, PTL

-----------------------------------------------------------------------------
(* Verdicts stand *)

VerdictKept == \A s \in Sub : row[s].status = "done" => row'[s] = row[s] \/ s \in wiping'

\* A handler writes to the row of a submission that is being judged, never to another.
LEMMA WritesToJudged ==
    ASSUME CalmInv, NEW h \in handlers, h.phase = "judging",
           NEW r, row' = [row EXCEPT ![h.sub] = r]
    PROVE  VerdictKept
<1>1. row[h.sub].status = "judging"
  BY DEF CalmInv, HandlerOwnsRow
<1> QED
  BY <1>1 DEF CalmInv, TypeOK, VerdictKept

LEMMA VerdictStep ==
    ASSUME CalmInv, [Next]_vars
    PROVE  VerdictKept
<1> USE DEF VerdictKept
<1>1. ASSUME NEW t \in Sub, Submit(t) PROVE VerdictKept
  BY <1>1 DEF Submit, CalmInv, TypeOK
<1>2. ASSUME NEW t \in Sub, LeaseRunsOut(t) \/ HeartbeatsLate(t) PROVE VerdictKept
  <2>1. row' = [row EXCEPT ![t].lease = "expired"] /\ row[t].lease = "fresh"
    BY <1>2 DEF LeaseRunsOut, HeartbeatsLate, ExpireLease
  <2>2. row[t].status = "judging"
    BY <2>1 DEF CalmInv, OwnedWhileJudging, OwnedRow
  <2> QED
    BY <2>1, <2>2 DEF CalmInv, TypeOK
<1>3. ASSUME NEW S \in SUBSET Sub, Rejudge(S) PROVE VerdictKept
  BY <1>3 DEF Rejudge
<1>4. ASSUME NEW w \in Worker, Claim(w) PROVE VerdictKept
  <2>1. FirstOf(WithStatus("queued"), FreeSlots(w)) \subseteq WithStatus("queued")
    BY FirstOfSubset
  <2> QED
    BY <1>4, <2>1 DEF Claim, WithStatus
<1>5. ASSUME NEW h \in handlers, NEW v \in FinalVerdict, Finalize(h, v)
      PROVE VerdictKept
  BY <1>5, WritesToJudged DEF Finalize
<1>6. ASSUME NEW h \in handlers, JudgeFailure(h) PROVE VerdictKept
  BY <1>6, WritesToJudged DEF JudgeFailure
<1>7. ASSUME NEW w \in Worker, Heartbeat(w) PROVE VerdictKept
  BY <1>7 DEF Heartbeat
<1>8. CASE ReclaimStale
  BY <1>8 DEF ReclaimStale, Stale, WithStatus
<1>9. ASSUME row' = row PROVE VerdictKept
  BY <1>9
<1>10. CASE WipeResults \/ WipeLost \/ UNCHANGED vars
  BY <1>10, <1>9 DEF WipeResults, WipeLost, vars
<1>11. ASSUME NEW w \in Worker,
              StartHandlers(w) \/ ClaimReadFails(w) \/ Drain(w) \/ Shutdown(w)
              \/ Crash(w) \/ Restart(w)
       PROVE VerdictKept
  BY <1>11, <1>9 DEF StartHandlers, ClaimReadFails, Drain, Shutdown, Crash, Restart,
     ProcessEnds
<1>12. ASSUME NEW h \in handlers, FailureNotRecorded(h) \/ HandlerExit(h)
       PROVE VerdictKept
  BY <1>12, <1>9 DEF FailureNotRecorded, HandlerExit
<1> QED
  BY <1>1, <1>2, <1>3, <1>4, <1>5, <1>6, <1>7, <1>8, <1>10, <1>11, <1>12 DEF Next

\* A verdict stands until staff ask for a rejudge, in every behaviour without adverse
\* timing: finalize, onJudgeFailure and reclaimStale reopen nothing.
THEOREM VerdictsStand == Adverse = {} => (Spec => VerdictStands)
<1> SUFFICES ASSUME Adverse = {} PROVE Spec => VerdictStands
  OBVIOUS
<1>1. CalmInv /\ [Next]_vars
      => [\A s \in Sub : row[s].status = "done" => row'[s] = row[s] \/ s \in wiping']_vars
  BY VerdictStep DEF VerdictKept
<1> QED
  BY <1>1, CalmCorrect, PTL DEF Spec, VerdictStands

-----------------------------------------------------------------------------
(* An orderly stop *)

LEMMA StopStep ==
    ASSUME CalmInv, [Next]_vars
    PROVE  \A w \in draining : w \notin up' /\ stops' = stops => HandlersOf(w) = {}
<1> SUFFICES ASSUME NEW w \in draining, w \notin up', stops' = stops
             PROVE  HandlersOf(w) = {}
  OBVIOUS
<1>1. w \in up /\ w \in Worker
  BY DEF CalmInv, TypeOK
<1>2. stops \in Nat /\ stops + 1 # stops
  BY DEF CalmInv, TypeOK
<1>3. PICK x \in Worker : Shutdown(x)
  BY <1>1, <1>2 DEF Next, vars, Submit, LeaseRunsOut, HeartbeatsLate, ExpireLease, Rejudge,
     WipeResults, WipeLost, Claim, StartHandlers, ClaimReadFails, Finalize, JudgeFailure,
     FailureNotRecorded, HandlerExit, Heartbeat, ReclaimStale, Drain, Crash, Restart
<1>4. x = w
  BY <1>1, <1>3 DEF Shutdown, ProcessEnds
<1>5. inFlight[w] = {}
  BY <1>3, <1>4 DEF Shutdown
<1> QED
  BY <1>1, <1>5 DEF CalmInv, InFlightIsHandlers

\* A worker told to stop leaves the main loop only when none of its handlers judges, in
\* every behaviour without adverse timing: inFlight, which it waits for, leaves nobody out.
THEOREM DrainedAreDone == Adverse = {} => (Spec => DrainFinishesWork)
<1> SUFFICES ASSUME Adverse = {} PROVE Spec => DrainFinishesWork
  OBVIOUS
<1>1. CalmInv /\ [Next]_vars
      => [\A w \in draining : w \notin up' /\ stops' = stops => HandlersOf(w) = {}]_vars
  BY StopStep
<1> QED
  BY <1>1, CalmCorrect, PTL DEF Spec, DrainFinishesWork

-----------------------------------------------------------------------------
(* Each step is one of SubmissionLifecycle *)

Left(s) == IF s \in wiping THEN 0 ELSE results[s]

LEMMA JobParts ==
    ASSUME NEW s \in Sub
    PROVE  /\ jobs[s] = Lifecycle!JobOf(row[s].status, row[s].verdict, row[s].attempts, Left(s))
           /\ jobs'[s] = Lifecycle!JobOf(row'[s].status, row'[s].verdict, row'[s].attempts, Left(s)')
BY DEF jobs, Left, Lifecycle!JobOf

\* The abstract steps between jobs that are given by their parts.
LEMMA AbstractSteps ==
    ASSUME NEW st, NEW v, NEW n \in Nat, NEW m, NEW j, j = Lifecycle!JobOf(st, v, n, m)
    PROVE  /\ Lifecycle!Step(j, Lifecycle!JobOf("queued", "none", 0, 0))
           /\ st = "queued" /\ n < MaxAttempts
              => Lifecycle!Step(j, Lifecycle!JobOf("judging", v, n + 1, m))
           /\ st = "judging" /\ n < MaxAttempts
              => Lifecycle!Step(j, Lifecycle!JobOf("queued", "none", n, 0))
           /\ \A x \in TestedVerdict :
                st = "judging" => Lifecycle!Step(j, Lifecycle!JobOf("done", x, n, 1))
           /\ \A x \in UntestedVerdict :
                st = "judging" => Lifecycle!Step(j, Lifecycle!JobOf("done", x, n, 0))
<1>1. j.status = st /\ j.verdict = v /\ j.tries = n /\ j.results = m
  BY DEF Lifecycle!JobOf
<1>2. /\ Lifecycle!Step(j, Lifecycle!JobOf("queued", "none", 0, 0))
      /\ st = "queued" /\ n < MaxAttempts
         => Lifecycle!Step(j, Lifecycle!JobOf("judging", v, n + 1, m))
      /\ st = "judging" /\ n < MaxAttempts
         => Lifecycle!Step(j, Lifecycle!JobOf("queued", "none", n, 0))
  BY <1>1 DEF Lifecycle!Step, Lifecycle!Enter, Lifecycle!Try, Lifecycle!GiveBack,
     Lifecycle!Reopen, Lifecycle!Waiting
<1>3. /\ \A x \in TestedVerdict :
           st = "judging" => Lifecycle!Step(j, Lifecycle!JobOf("done", x, n, 1))
      /\ \A x \in UntestedVerdict :
           st = "judging" => Lifecycle!Step(j, Lifecycle!JobOf("done", x, n, 0))
  BY <1>1 DEF Lifecycle!Step, Lifecycle!Conclude
<1> QED
  BY <1>2, <1>3

JobStep(s) == jobs'[s] = jobs[s] \/ Lifecycle!Step(jobs[s], jobs'[s])

\* A row that keeps its status, verdict and attempts, and its results, stutters.
LEMMA Stutters ==
    ASSUME NEW s \in Sub, row'[s].status = row[s].status, row'[s].verdict = row[s].verdict,
           row'[s].attempts = row[s].attempts, Left(s)' = Left(s)
    PROVE  JobStep(s)
BY JobParts DEF JobStep

\* Only a handler that judges, a rejudge and its deletion touch results.
LEMMA LeftAlone ==
    ASSUME UNCHANGED <<results, wiping>>, NEW s \in Sub
    PROVE  Left(s)' = Left(s)
BY DEF Left

\* A submission that is new, or forgotten with its results, as an abstract step.
LEMMA ResetStep ==
    ASSUME TypeOK, NEW s \in Sub, row'[s] = EnqueuedRow(row[s]), Left(s)' = 0
    PROVE  JobStep(s)
<1>1. row[s] \in Row /\ row[s].attempts \in Nat
  BY DEF TypeOK, Row
<1>2. jobs'[s] = Lifecycle!JobOf("queued", "none", 0, 0)
  BY <1>1, RowFields, JobParts
<1>3. PICK j, k : j = jobs[s] /\ k = jobs'[s]
  OBVIOUS
<1>4. j = Lifecycle!JobOf(row[s].status, row[s].verdict, row[s].attempts, Left(s))
  BY <1>3, JobParts
<1>5. Lifecycle!Step(j, k)
  BY <1>1, <1>2, <1>3, <1>4, AbstractSteps, Zenon
<1> QED
  BY <1>3, <1>5 DEF JobStep

\* A submission that is claimed, as an abstract step.
LEMMA TryStep ==
    ASSUME CalmInv, NEW s \in Sub, NEW w \in Worker, row[s].status = "queued",
           row'[s] = ClaimedRow(row[s], w), Left(s)' = Left(s)
    PROVE  JobStep(s)
<1>1. row[s] \in Row /\ row[s].attempts \in Nat
  BY DEF CalmInv, TypeOK, Row
<1>2. row[s].attempts < MaxAttempts
  BY DEF CalmInv, TriesLeft
<1>3. jobs'[s] = Lifecycle!JobOf("judging", row[s].verdict, row[s].attempts + 1, Left(s))
  <2>1. /\ row'[s].status = "judging" /\ row'[s].verdict = row[s].verdict
        /\ row'[s].attempts = row[s].attempts + 1
    BY <1>1, RowFields
  <2>2. jobs'[s] = Lifecycle!JobOf(row'[s].status, row'[s].verdict, row'[s].attempts, Left(s)')
    BY JobParts, Zenon
  <2> QED
    BY <2>1, <2>2
<1>4. jobs[s] = Lifecycle!JobOf("queued", row[s].verdict, row[s].attempts, Left(s))
  BY JobParts
<1>5. PICK j, k : j = jobs[s] /\ k = jobs'[s]
  OBVIOUS
<1>6. j = Lifecycle!JobOf("queued", row[s].verdict, row[s].attempts, Left(s))
  BY <1>4, <1>5
<1>7. Lifecycle!Step(j, Lifecycle!JobOf("judging", row[s].verdict, row[s].attempts + 1, Left(s)))
  BY <1>1, <1>2, <1>6, AbstractSteps, Zenon
<1> QED
  BY <1>3, <1>5, <1>7 DEF JobStep

\* A submission that is judged, and given back or concluded, as an abstract step.
LEMMA JudgedStep ==
    ASSUME CalmInv, NEW s \in Sub, row[s].status = "judging",
           \/ /\ row[s].attempts < MaxAttempts
              /\ row'[s].status = "queued" /\ row'[s].verdict = "none" /\ Left(s)' = 0
           \/ /\ row'[s].status = "done" /\ row'[s].verdict \in TestedVerdict /\ Left(s)' = 1
           \/ /\ row'[s].status = "done" /\ row'[s].verdict \in UntestedVerdict
              /\ Left(s)' = 0,
           row'[s].attempts = row[s].attempts
    PROVE  JobStep(s)
<1>1. row[s].attempts \in Nat
  BY DEF CalmInv, TypeOK, Row
<1>2. PICK j, k : j = jobs[s] /\ k = jobs'[s]
  OBVIOUS
<1>3. /\ j = Lifecycle!JobOf("judging", row[s].verdict, row[s].attempts, Left(s))
      /\ k = Lifecycle!JobOf(row'[s].status, row'[s].verdict, row[s].attempts, Left(s)')
  BY <1>2, JobParts
<1>4. /\ row[s].attempts < MaxAttempts
         => Lifecycle!Step(j, Lifecycle!JobOf("queued", "none", row[s].attempts, 0))
      /\ \A x \in TestedVerdict :
            Lifecycle!Step(j, Lifecycle!JobOf("done", x, row[s].attempts, 1))
      /\ \A x \in UntestedVerdict :
            Lifecycle!Step(j, Lifecycle!JobOf("done", x, row[s].attempts, 0))
  BY <1>1, <1>3, AbstractSteps, Zenon
<1>5. Lifecycle!Step(j, k)
  BY <1>3, <1>4, Zenon
<1> QED
  BY <1>2, <1>5 DEF JobStep

\* Nothing is stored of a submission that has no verdict.
LEMMA NothingLeft ==
    ASSUME CalmInv, NEW s \in Sub, row[s].status # "done"
    PROVE  Left(s) = 0 /\ row[s].verdict = "none"
BY DEF CalmInv, ResultsMatchVerdict, VerdictOnlyWhenDone, Left

LEMMA LifecycleStep ==
    ASSUME Adverse = {}, CalmInv, [Next]_vars, NEW s \in Sub
    PROVE  JobStep(s)
<1> USE DEF CalmInv, TypeOK
<1>r. row[s] \in Row /\ row[s].attempts \in Nat
  BY DEF Row
<1>same. ASSUME row' = row, UNCHANGED <<results, wiping>> PROVE JobStep(s)
  BY <1>same, Stutters, LeftAlone
<1>1. ASSUME NEW t \in Sub, Submit(t) PROVE JobStep(s)
  <2>1. UNCHANGED <<results, wiping>>
    BY <1>1 DEF Submit
  <2>2. CASE s = t
    <3>1. row[s].status = "absent" /\ row'[s] = EnqueuedRow(row[s])
      BY <1>1, <2>2 DEF Submit
    <3>2. Left(s)' = 0
      BY <2>1, <3>1, NothingLeft, LeftAlone
    <3> QED
      BY <3>1, <3>2, ResetStep
  <2>3. CASE s # t
    BY <1>1, <2>1, <2>3, Stutters, LeftAlone DEF Submit
  <2> QED
    BY <2>2, <2>3
<1>2. ASSUME NEW t \in Sub, LeaseRunsOut(t) \/ HeartbeatsLate(t) PROVE JobStep(s)
  <2>1. row' = [row EXCEPT ![t] = [row[t] EXCEPT !.lease = "expired"]]
    BY <1>2 DEF LeaseRunsOut, HeartbeatsLate, ExpireLease
  <2>2. UNCHANGED <<results, wiping>>
    BY <1>2 DEF LeaseRunsOut, HeartbeatsLate, ExpireLease
  <2>3. row'[s] = row[s] \/ row'[s] = [row[s] EXCEPT !.lease = "expired"]
    BY <2>1
  <2>4. /\ row'[s].status = row[s].status /\ row'[s].verdict = row[s].verdict
        /\ row'[s].attempts = row[s].attempts
    BY <1>r, <2>3, LeaseFields
  <2> QED
    BY <2>2, <2>4, LeftAlone, Stutters
<1>3. ASSUME NEW S \in SUBSET Sub, Rejudge(S) PROVE JobStep(s)
  <2>1. /\ row'[s] = IF s \in S THEN EnqueuedRow(row[s]) ELSE row[s]
        /\ wiping = {} /\ wiping' = S /\ results' = results
        /\ s \in S => row[s].status # "absent"
    BY <1>3 DEF Rejudge, WithStatus
  <2>2. CASE s \in S
    <3>1. Left(s)' = 0
      BY <2>1, <2>2 DEF Left
    <3> QED
      BY <2>1, <2>2, <3>1, ResetStep
  <2>3. CASE s \notin S
    BY <2>1, <2>3, Stutters DEF Left
  <2> QED
    BY <2>2, <2>3
<1>4. CASE WipeResults
  <2>1. row' = row /\ Left(s)' = Left(s)
    BY <1>4 DEF WipeResults, Left
  <2> QED
    BY <2>1, Stutters
<1>5. CASE WipeLost
  BY <1>5 DEF WipeLost
<1>6. ASSUME NEW w \in Worker, Claim(w) PROVE JobStep(s)
  <2> DEFINE ids == FirstOf(WithStatus("queued"), FreeSlots(w))
  <2>1. /\ row'[s] = IF s \in ids THEN ClaimedRow(row[s], w) ELSE row[s]
        /\ UNCHANGED <<results, wiping>>
    BY <1>6 DEF Claim
  <2>2. CASE s \in ids
    <3>1. row[s].status = "queued"
      BY <2>2, FirstOfSubset DEF WithStatus
    <3>2. Left(s)' = Left(s)
      BY <2>1, LeftAlone
    <3>3. row'[s] = ClaimedRow(row[s], w)
      BY <2>1, <2>2
    <3> HIDE DEF ids
    <3> QED
      BY <3>1, <3>2, <3>3, TryStep
  <2>3. CASE s \notin ids
    BY <2>1, <2>3, LeftAlone, Stutters
  <2> QED
    BY <2>2, <2>3
<1>7. ASSUME NEW w \in Worker,
             StartHandlers(w) \/ ClaimReadFails(w) \/ Drain(w) \/ Shutdown(w)
             \/ Crash(w) \/ Restart(w)
      PROVE JobStep(s)
  BY <1>7, <1>same DEF StartHandlers, ClaimReadFails, Drain, Shutdown, Crash, Restart,
     ProcessEnds
<1>8. ASSUME NEW h \in handlers, NEW v \in FinalVerdict, Finalize(h, v) PROVE JobStep(s)
  <2>1. /\ row[h.sub].status = "judging" /\ h.sub \in Sub
        /\ row' = [row EXCEPT ![h.sub] = FinalRow(row[h.sub], v)]
        /\ wiping' = wiping /\ h.sub \notin wiping /\ results[h.sub] = 0
        /\ results' = IF v \in TestedVerdict THEN [results EXCEPT ![h.sub] = @ + 1]
                                             ELSE results
    BY <1>8, JudgedAlone, CalmInvParts DEF Finalize
  <2>2. CASE s = h.sub
    <3>1. row'[s] = FinalRow(row[s], v)
      BY <2>1, <2>2
    <3>2. Left(s)' = IF v \in TestedVerdict THEN 1 ELSE 0
      BY <2>1, <2>2 DEF Left
    <3>3. row'[s].status = "done" /\ row'[s].verdict = v
          /\ row'[s].attempts = row[s].attempts
      BY <1>r, <3>1, RowFields
    <3>4. v \in TestedVerdict \/ v \in UntestedVerdict
      BY DEF FinalVerdict
    <3>5. v \in UntestedVerdict => v \notin TestedVerdict
      BY VerdictAssumption DEF UntestedVerdict
    <3> QED
      BY <2>1, <2>2, <3>2, <3>3, <3>4, <3>5, JudgedStep
  <2>3. CASE s # h.sub
    <3>1. row'[s] = row[s] /\ results'[s] = results[s]
      BY <2>1, <2>3
    <3> QED
      BY <2>1, <3>1, Stutters DEF Left
  <2> QED
    BY <2>2, <2>3
<1>9. ASSUME NEW h \in handlers, JudgeFailure(h) PROVE JobStep(s)
  <2>1. /\ row[h.sub].status = "judging" /\ h.sub \in Sub
        /\ row[h.sub].attempts = h.attempts /\ h.attempts \in Nat
        /\ row' = [row EXCEPT ![h.sub] = FailedRow(row[h.sub], h.attempts)]
        /\ UNCHANGED <<results, wiping>>
    BY <1>9, JudgedAlone, CalmInvParts DEF JudgeFailure
  <2>2. CASE s = h.sub
    <3>1. row'[s] = FailedRow(row[s], h.attempts)
      BY <2>1, <2>2
    <3>2. Left(s)' = 0 /\ row[s].verdict = "none"
      BY <2>1, <2>2, NothingLeft, LeftAlone
    <3>3. row'[s].attempts = row[s].attempts
      BY <1>r, <2>1, <3>1, FailedFields
    <3>4. \/ row'[s].status = "done" /\ row'[s].verdict = "internal_error"
          \/ row[s].attempts < MaxAttempts /\ row'[s].status = "queued"
             /\ row'[s].verdict = "none"
      BY <1>r, <2>1, <2>2, <3>1, <3>2, FailedFields
    <3>5. "internal_error" \in UntestedVerdict
      BY DEF UntestedVerdict
    <3> QED
      BY <2>1, <2>2, <3>2, <3>3, <3>4, <3>5, JudgedStep
  <2>3. CASE s # h.sub
    BY <2>1, <2>3, LeftAlone, Stutters
  <2> QED
    BY <2>2, <2>3
<1>10. ASSUME NEW h \in handlers, FailureNotRecorded(h) \/ HandlerExit(h) PROVE JobStep(s)
  BY <1>10, <1>same DEF FailureNotRecorded, HandlerExit
<1>11. ASSUME NEW w \in Worker, Heartbeat(w) PROVE JobStep(s)
  <2>1. row'[s] = row[s] \/ row'[s] = [row[s] EXCEPT !.lease = "fresh"]
    BY <1>11 DEF Heartbeat
  <2>2. UNCHANGED <<results, wiping>>
    BY <1>11 DEF Heartbeat
  <2>3. /\ row'[s].status = row[s].status /\ row'[s].verdict = row[s].verdict
        /\ row'[s].attempts = row[s].attempts
    BY <1>r, <2>1, LeaseFields
  <2> QED
    BY <2>2, <2>3, LeftAlone, Stutters
<1>12. CASE ReclaimStale
  <2>1. /\ row'[s] = IF s \in Stale THEN ReclaimedRow(row[s]) ELSE row[s]
        /\ UNCHANGED <<results, wiping>>
    BY <1>12 DEF ReclaimStale
  <2>2. CASE s \in Stale
    <3>1. row[s].status = "judging"
      BY <2>2 DEF Stale, WithStatus
    <3>2. Left(s)' = 0
      BY <2>1, <3>1, NothingLeft, LeftAlone
    <3>3. "internal_error" \in UntestedVerdict
      BY DEF UntestedVerdict
    <3>4. row'[s] = ReclaimedRow(row[s])
      BY <2>1, <2>2
    <3> QED
      BY <1>r, <3>1, <3>2, <3>3, <3>4, ReclaimedFields, JudgedStep
  <2>3. CASE s \notin Stale
    BY <2>1, <2>3, LeftAlone, Stutters
  <2> QED
    BY <2>2, <2>3
<1>13. CASE UNCHANGED vars
  BY <1>13, <1>same DEF vars
<1> QED
  BY <1>1, <1>2, <1>3, <1>4, <1>5, <1>6, <1>7, <1>8, <1>9, <1>10, <1>11, <1>12, <1>13
     DEF Next

LEMMA LifecycleInit == Init => Lifecycle!Init
<1> SUFFICES ASSUME Init PROVE Lifecycle!Init
  OBVIOUS
<1>1. ASSUME NEW s \in Sub PROVE Left(s) = 0
  BY DEF Init, Left
<1>2. ASSUME NEW s \in Sub
      PROVE  jobs[s] = Lifecycle!JobOf("absent", "none", 0, 0)
  BY <1>1, JobParts DEF Init, AbsentRow
<1>3. jobs = [s \in Sub |-> jobs[s]]
  BY DEF jobs
<1> QED
  BY <1>2, <1>3 DEF Lifecycle!Init

\* The queue implements SubmissionLifecycle, for any submissions, workers, capacity and
\* limits, in every behaviour without adverse timing.
THEOREM QueueImplements == Adverse = {} => (Spec => ImplementsLifecycle)
<1> SUFFICES ASSUME Adverse = {} PROVE Spec => ImplementsLifecycle
  OBVIOUS
<1>1. CalmInv /\ [Next]_vars => [Lifecycle!Next]_jobs
  <2> SUFFICES ASSUME CalmInv, [Next]_vars PROVE Lifecycle!Next
    OBVIOUS
  <2>1. jobs' = [s \in Sub |-> jobs'[s]]
    BY DEF jobs
  <2>2. \A s \in Sub : JobStep(s)
    BY LifecycleStep
  <2> QED
    BY <2>1, <2>2 DEF Lifecycle!Next, JobStep
<1> QED
  BY <1>1, LifecycleInit, CalmCorrect, PTL DEF Spec, ImplementsLifecycle, Lifecycle!Spec

-----------------------------------------------------------------------------
(* Capacity, whatever is in Adverse *)

\* The order of a claim is strict, and no two submissions are equal in it.
LEMMA BeforeOrder ==
    ASSUME NEW s \in Sub, NEW t \in Sub
    PROVE  /\ ~Before(s, s)
           /\ s = t \/ Before(s, t) \/ Before(t, s)
           /\ \A u \in Sub : Before(u, s) /\ Before(s, t) => Before(u, t)
<1>1. Sub \subseteq Nat /\ \A x \in Sub : Priority[x] \in Nat
  BY SubAssumption, PriorityAssumption
<1> QED
  BY <1>1 DEF Before

\* ORDER BY ... LIMIT n returns at most n rows: each has its own number of rows before it,
\* below n.
LEMMA LimitCounts ==
    ASSUME NEW Q \in SUBSET Sub, IsFiniteSet(Q), NEW n \in Nat
    PROVE  IsFiniteSet(FirstOf(Q, n)) /\ Cardinality(FirstOf(Q, n)) <= n
<1> DEFINE Ahead(s) == {t \in Q : Before(t, s)}
           F == FirstOf(Q, n)
           place == [s \in F |-> Cardinality(Ahead(s))]
<1>1. F \subseteq Q /\ \A s \in F : Cardinality(Ahead(s)) < n
  BY DEF FirstOf
<1>2. \A s \in Q : IsFiniteSet(Ahead(s)) /\ Cardinality(Ahead(s)) \in Nat
  BY FS_Subset, FS_CardinalityType
<1>3. ASSUME NEW s \in F, NEW t \in F, Before(s, t)
      PROVE  Cardinality(Ahead(s)) # Cardinality(Ahead(t))
  <2>1. s \in Sub /\ t \in Sub /\ s \in Q /\ t \in Q
    BY <1>1
  <2>2. Ahead(s) \subseteq Ahead(t)
    BY <1>3, <2>1, BeforeOrder
  <2>3. s \in Ahead(t) /\ s \notin Ahead(s)
    BY <1>3, <2>1, BeforeOrder
  <2>4. IsFiniteSet(Ahead(t))
    BY <1>2, <2>1
  <2> QED
    BY <2>2, <2>3, <2>4, FS_Subset
<1>4. \A s, t \in F : s = t \/ Before(s, t) \/ Before(t, s)
  <2>1. F \subseteq Sub
    BY <1>1
  <2> QED
    BY <2>1, BeforeOrder
<1>5. place \in Injection(F, 0..(n - 1))
  <2>1. ASSUME NEW s \in F PROVE Cardinality(Ahead(s)) \in 0..(n - 1)
    <3>1. \A k \in Nat : k < n => k \in 0..(n - 1)
      OBVIOUS
    <3>2. Cardinality(Ahead(s)) \in Nat /\ Cardinality(Ahead(s)) < n
      BY <1>1, <1>2
    <3> QED
      BY <3>1, <3>2
  <2>2. \A s, t \in F : place[s] = place[t] => s = t
    BY <1>3, <1>4
  <2>3. place \in [F -> 0..(n - 1)]
    BY <2>1
  <2> QED
    BY <2>2, <2>3 DEF Injection, IsInjective
<1>6. IsFiniteSet(0..(n - 1)) /\ Cardinality(0..(n - 1)) = n
  BY FS_Interval
<1> QED
  BY <1>5, <1>6, FS_Injection

LEMMA SlotsStep ==
    ASSUME IsFiniteSet(Sub), TypeOK, SlotsRespected, [Next]_vars
    PROVE  SlotsRespected'
<1> SUFFICES ASSUME NEW w \in Worker
             PROVE  Cardinality(inFlight'[w] \cup picked'[w]) <= Capacity
  BY DEF SlotsRespected
<1> DEFINE tracked == inFlight[w] \cup picked[w]
<1>1. /\ IsFiniteSet(tracked) /\ Cardinality(tracked) \in Nat
      /\ Cardinality(tracked) <= Capacity /\ Capacity \in Nat
  BY FS_Subset, FS_CardinalityType, LimitAssumption DEF TypeOK, SlotsRespected
<1>2. ASSUME inFlight'[w] \cup picked'[w] \subseteq tracked
      PROVE  Cardinality(inFlight'[w] \cup picked'[w]) <= Capacity
  <2>1. Cardinality(inFlight'[w] \cup picked'[w]) \in Nat
    BY <1>1, <1>2, FS_Subset, FS_CardinalityType
  <2>2. Cardinality(inFlight'[w] \cup picked'[w]) <= Cardinality(tracked)
    BY <1>1, <1>2, FS_Subset
  <2> QED
    BY <1>1, <2>1, <2>2
<1>3. ASSUME NEW x \in Worker, Claim(x)
      PROVE  Cardinality(inFlight'[w] \cup picked'[w]) <= Capacity
  <2> DEFINE ids == FirstOf(WithStatus("queued"), FreeSlots(x))
  <2>1. inFlight' = inFlight /\ picked' = [picked EXCEPT ![x] = ids]
        /\ picked[x] = {} /\ FreeSlots(x) > 0
    BY <1>3 DEF Claim
  <2>2. CASE w = x
    <3>1. picked'[w] = ids /\ tracked = inFlight[w] /\ FreeSlots(x) = Capacity - Cardinality(tracked)
      BY <2>1, <2>2 DEF TypeOK, FreeSlots
    <3>2. FreeSlots(x) \in Nat
      BY <1>1, <3>1
    <3>3. WithStatus("queued") \subseteq Sub /\ IsFiniteSet(WithStatus("queued"))
      BY FS_Subset DEF WithStatus
    <3>4. IsFiniteSet(ids) /\ Cardinality(ids) <= FreeSlots(x)
      BY <3>2, <3>3, LimitCounts
    <3>5. Cardinality(ids) \in Nat
      BY <3>4, FS_CardinalityType
    <3>6. Cardinality(tracked \cap ids) \in Nat
      BY <1>1, FS_Intersection, FS_CardinalityType
    <3>7. Cardinality(tracked \cup ids)
            = Cardinality(tracked) + Cardinality(ids) - Cardinality(tracked \cap ids)
      BY <1>1, <3>4, FS_Union
    <3>8. inFlight'[w] \cup picked'[w] = tracked \cup ids
      BY <2>1, <3>1
    <3> HIDE DEF ids, tracked
    <3>9. Cardinality(tracked \cup ids) <= Capacity
      BY <1>1, <3>1, <3>2, <3>4, <3>5, <3>6, <3>7
    <3> QED
      BY <3>8, <3>9
  <2>3. CASE w # x
    BY <1>2, <2>1, <2>3
  <2> QED
    BY <2>2, <2>3
<1>4. ASSUME NEW x \in Worker,
             StartHandlers(x) \/ ClaimReadFails(x) \/ Shutdown(x) \/ Crash(x)
      PROVE  inFlight'[w] \cup picked'[w] \subseteq tracked
  BY <1>4 DEF StartHandlers, ClaimReadFails, Shutdown, Crash, ProcessEnds, TypeOK
<1>5. ASSUME NEW h \in handlers, HandlerExit(h)
      PROVE  inFlight'[w] \cup picked'[w] \subseteq tracked
  BY <1>5 DEF HandlerExit, TypeOK
<1>6. ASSUME UNCHANGED <<inFlight, picked>>
      PROVE  inFlight'[w] \cup picked'[w] \subseteq tracked
  BY <1>6
<1>7. ASSUME NEW h \in handlers, \/ \E v \in FinalVerdict : Finalize(h, v)
                                 \/ JudgeFailure(h) \/ FailureNotRecorded(h)
      PROVE  UNCHANGED <<inFlight, picked>>
  BY <1>7 DEF Finalize, JudgeFailure, FailureNotRecorded
<1>8. ASSUME NEW x \in Worker, Heartbeat(x) \/ Drain(x) \/ Restart(x)
      PROVE  UNCHANGED <<inFlight, picked>>
  BY <1>8 DEF Heartbeat, Drain, Restart
<1>9. ASSUME \/ \E s \in Sub : Submit(s) \/ LeaseRunsOut(s) \/ HeartbeatsLate(s)
             \/ \E S \in SUBSET Sub : Rejudge(S)
             \/ WipeResults \/ WipeLost \/ ReclaimStale \/ UNCHANGED vars
      PROVE  UNCHANGED <<inFlight, picked>>
  BY <1>9 DEF Submit, LeaseRunsOut, HeartbeatsLate, ExpireLease, Rejudge, WipeResults,
     WipeLost, ReclaimStale, vars
<1> QED
  BY <1>2, <1>3, <1>4, <1>5, <1>6, <1>7, <1>8, <1>9 DEF Next

\* A worker never tracks more than WORKER_CAPACITY submissions, in every behaviour and
\* under every adverse timing, for any finite number of submissions: a claim asks for the
\* free slots, and LIMIT keeps to them.
THEOREM CapacityKept == IsFiniteSet(Sub) => (Spec => []SlotsRespected)
<1> SUFFICES ASSUME IsFiniteSet(Sub) PROVE Spec => []SlotsRespected
  OBVIOUS
<1>1. Init => SlotsRespected
  BY FS_EmptySet, LimitAssumption DEF Init, SlotsRespected
<1>2. TypeOK /\ SlotsRespected /\ [Next]_vars => SlotsRespected'
  BY SlotsStep
<1> QED
  BY <1>1, <1>2, TypeCorrect, PTL DEF Spec
=============================================================================
