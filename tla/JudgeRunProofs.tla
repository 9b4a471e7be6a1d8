--------------------------- MODULE JudgeRunProofs ---------------------------
(***************************************************************************)
(* Theorems about JudgeRun, for any number of test cases, boxes and        *)
(* parallel drains.                                                        *)
(***************************************************************************)
EXTENDS JudgeRun, FiniteSetTheorems, WellFoundedInduction, TLAPS

-----------------------------------------------------------------------------
(* The invariant *)

Outcome == [test: Nat, verdict: RunVerdict \cup Compared]

Typed ==
    /\ problem \in Problem
    /\ pc \in [Call -> {"idle", "compiling", "running", "closing", "throwing",
                        "judged", "failed"}]
    /\ lent \in [Box -> Call \cup {0}]
    /\ drain \in [Call -> [Box -> [at: DrainPhase, test: Nat, count: Nat]]]
    /\ next \in [Call -> Nat]
    /\ stopped \in [Call -> BOOLEAN]
    /\ judged \in [Call -> Nat]
    /\ outcomes \in [Call -> Seq(Outcome)]
    /\ checked \in [Call -> Nat]

\* The drain has a case that is not among the outcomes, and may never be.
Busy(k, b) == drain[k][b].at \in {"run", "check", "threw"}
Reported(k, t) == \E i \in DOMAIN outcomes[k] : outcomes[k][i].test = t

\* Every case that was taken is with one drain or in one outcome.
Cases(k) ==
    /\ next[k] >= 1
    /\ \A i \in DOMAIN outcomes[k] : outcomes[k][i].test \in 1..problem.tests
                                     /\ outcomes[k][i].test < next[k]
    /\ \A i, j \in DOMAIN outcomes[k] : outcomes[k][i].test = outcomes[k][j].test => i = j
    /\ \A b \in Box : Busy(k, b) => /\ drain[k][b].test \in 1..problem.tests
                                    /\ drain[k][b].test < next[k]
                                    /\ ~Reported(k, drain[k][b].test)
    /\ \A b, c \in Box : Busy(k, b) /\ Busy(k, c) /\ drain[k][b].test = drain[k][c].test
                           => b = c
    /\ \A t \in 1..problem.tests : t < next[k] =>
         Reported(k, t) \/ \E b \in Box : Busy(k, b) /\ drain[k][b].test = t

Exhausted(k) == stopped[k] \/ next[k] > problem.tests

\* Before and after the drains of a call, and when they may end.
Drains(k) ==
    /\ pc[k] \in {"idle", "compiling"} =>
         /\ \A b \in Box : drain[k][b].at = "none"
         /\ outcomes[k] = <<>>
    /\ pc[k] \in {"compiling", "running"} => \E b \in Box : lent[b] = k
    /\ pc[k] = "running" => \A b \in Box : lent[b] = k <=> drain[k][b].at # "none"
    /\ \A b \in Box : drain[k][b].at = "done" => Exhausted(k)
    /\ stopped[k] => /\ problem.stopOnFirstFail
                     /\ \E i \in DOMAIN outcomes[k] : outcomes[k][i].verdict # "accepted"
    /\ pc[k] \in {"closing", "judged"} =>
         /\ \A b \in Box : drain[k][b].at \in {"none", "done"}
         /\ outcomes[k] # <<>> => Exhausted(k)

CallInv(k) == Cases(k) /\ Drains(k)

RunInv == Typed /\ \A k \in Call : CallInv(k)

-----------------------------------------------------------------------------
(* Facts about the constants and operators *)

LEMMA ProblemFacts ==
    ASSUME problem \in Problem
    PROVE  /\ problem.tests \in Nat
           /\ problem.deserved \in [1..problem.tests -> RunVerdict]
           /\ problem.stopOnFirstFail \in BOOLEAN
           /\ problem.special \in Special
<1>1. PICK n \in 0..MaxTests :
        problem \in [tests: {n}, deserved: [1..n -> RunVerdict], points: [1..n -> Points],
                     stopOnFirstFail: BOOLEAN, special: Special]
  BY DEF Problem
<1> QED
  BY <1>1, BoundAssumption

LEMMA Appended ==
    ASSUME NEW S, NEW s \in Seq(S), NEW x \in S
    PROVE  /\ Append(s, x) \in Seq(S)
           /\ Len(s) + 1 \notin DOMAIN s
           /\ DOMAIN Append(s, x) = DOMAIN s \cup {Len(s) + 1}
           /\ \A i \in DOMAIN s : Append(s, x)[i] = s[i]
           /\ Append(s, x)[Len(s) + 1] = x
OBVIOUS

\* A call that does not move keeps what is known of it.
LEMMA OtherCall ==
    ASSUME NEW j \in Call, CallInv(j), problem' = problem, pc'[j] = pc[j],
           drain'[j] = drain[j], next'[j] = next[j], stopped'[j] = stopped[j],
           outcomes'[j] = outcomes[j], \A b \in Box : lent'[b] = j <=> lent[b] = j
    PROVE  CallInv(j)'
BY DEF CallInv, Cases, Drains, Busy, Reported, Exhausted

\* Nor does what is known of its cases change while only the call moves.
LEMMA SameCases ==
    ASSUME NEW k \in Call, Cases(k), problem' = problem, drain'[k] = drain[k],
           next'[k] = next[k], outcomes'[k] = outcomes[k]
    PROVE  Cases(k)'
BY DEF Cases, Busy, Reported

-----------------------------------------------------------------------------
(* The steps of the call *)

LEMMA InitRun == Init => RunInv
<1> SUFFICES ASSUME Init PROVE RunInv
  OBVIOUS
<1>1. Typed
  BY DEF Init, Typed, Resting, DrainPhase
<1>2. ASSUME NEW k \in Call PROVE CallInv(k)
  <2>1. /\ \A b \in Box : drain[k][b].at = "none"
        /\ outcomes[k] = <<>> /\ next[k] = 1 /\ stopped[k] = FALSE /\ pc[k] = "idle"
    BY DEF Init, Resting
  <2>2. problem.tests \in Nat
    BY ProblemFacts DEF Init
  <2>3. Cases(k)
    BY <2>1, <2>2 DEF Cases, Busy, Reported
  <2> QED
    BY <2>1, <2>3 DEF CallInv, Drains
<1> QED
  BY <1>1, <1>2 DEF RunInv

\* The steps of a call that move none of its drains.
LEMMA CallMoves ==
    ASSUME RunInv, NEW k \in Call, Typed', problem' = problem, drain' = drain,
           UNCHANGED closure,
           \A j \in Call \ {k} : pc'[j] = pc[j] /\ \A b \in Box : lent'[b] = j <=> lent[b] = j,
           Drains(k)'
    PROVE  RunInv'
<1>1. ASSUME NEW j \in Call \ {k} PROVE CallInv(j)'
  BY OtherCall DEF RunInv, closure
<1>2. Cases(k)'
  BY SameCases DEF RunInv, CallInv, closure
<1> QED
  BY <1>1, <1>2 DEF RunInv, CallInv

LEMMA JudgeStep ==
    ASSUME RunInv, NEW k \in Call, Judge(k)
    PROVE  RunInv'
<1> USE DEF RunInv, Judge
<1>0. k # 0 /\ problem.tests \in Nat
  BY ProblemFacts DEF Call, Typed
<1>1. PICK B \in SUBSET {b \in Box : lent[b] = 0} :
        /\ Cardinality(B) = Min({TcParallel, problem.tests})
        /\ lent' = [b \in Box |-> IF b \in B THEN k ELSE lent[b]]
  OBVIOUS
<1>2. B # {}
  <2>1. TcParallel \in Nat /\ TcParallel >= 1
    BY BoxAssumption, FS_CardinalityType
  <2>2. Min({TcParallel, problem.tests}) \in {TcParallel, problem.tests}
    <3>1. \E x \in {TcParallel, problem.tests} : \A y \in {TcParallel, problem.tests} : x =< y
      BY <1>0, <2>1
    <3> QED
      BY <3>1 DEF Min
  <2>3. Cardinality(B) # 0
    BY <1>0, <1>1, <2>1, <2>2
  <2> QED
    BY <2>3, FS_EmptySet
<1>3. Typed'
  BY <1>1 DEF Typed, closure
<1>4. pc' = [pc EXCEPT ![k] = "compiling"] /\ pc[k] = "idle"
  BY DEF Claimed
<1>5. \A j \in Call \ {k} : pc'[j] = pc[j] /\ \A b \in Box : lent'[b] = j <=> lent[b] = j
  BY <1>1, <1>4 DEF Typed, Call
<1>6. Drains(k)'
  <2>1. \E b \in Box : lent'[b] = k
    BY <1>1, <1>2
  <2> QED
    BY <1>4, <2>1 DEF CallInv, Drains, Typed, Exhausted, closure
<1> QED
  BY <1>3, <1>5, <1>6, CallMoves

\* The call ends before its drains were started.
LEMMA EarlyEnd ==
    ASSUME RunInv, NEW k \in Call, pc[k] \in {"idle", "compiling"}, NEW p,
           p \in {"closing", "throwing"},
           pc' = [pc EXCEPT ![k] = p], UNCHANGED <<problem, lent, drain, closure, checked>>
    PROVE  RunInv'
<1>1. Typed'
  BY DEF RunInv, Typed, closure
<1>2. Drains(k)'
  BY DEF RunInv, Typed, CallInv, Drains, Exhausted, closure
<1>3. \A j \in Call \ {k} : pc'[j] = pc[j] /\ \A b \in Box : lent'[b] = j <=> lent[b] = j
  BY DEF RunInv, Typed
<1> QED
  BY <1>1, <1>2, <1>3, CallMoves

LEMMA EarlySteps ==
    ASSUME RunInv, NEW k \in Call,
           \/ JudgeWithoutTests(k) \/ JudgeThrows(k) \/ CompileError(k) \/ CompileThrows(k)
    PROVE  RunInv'
BY EarlyEnd DEF JudgeWithoutTests, JudgeThrows, CompileError, CompileThrows, Close, Claimed

LEMMA CompileOkStep ==
    ASSUME RunInv, NEW k \in Call, CompileOk(k)
    PROVE  RunInv'
<1> USE DEF RunInv, CompileOk
<1>1. /\ drain'[k] = [b \in Box |-> IF lent[b] = k THEN [Resting EXCEPT !.at = "pick"]
                                    ELSE Resting]
      /\ \A j \in Call \ {k} : drain'[j] = drain[j]
  BY DEF Typed
<1>2. Typed'
  BY <1>1 DEF Typed, Resting, DrainPhase, closure
<1>3. \A b \in Box : drain'[k][b].at = IF lent[b] = k THEN "pick" ELSE "none"
  BY <1>1 DEF Resting
<1>4. ~stopped[k] \/ outcomes[k] # <<>>
  BY DEF CallInv, Drains
<1>5. Cases(k)'
  BY <1>3 DEF CallInv, Cases, Drains, Busy, Reported, closure
<1>6. Drains(k)'
  BY <1>3 DEF CallInv, Drains, Typed, Exhausted, closure
<1>7. ASSUME NEW j \in Call \ {k} PROVE CallInv(j)'
  BY <1>1, OtherCall DEF Typed, closure
<1> QED
  BY <1>2, <1>5, <1>6, <1>7 DEF CallInv

LEMMA FinalizeStep ==
    ASSUME RunInv, NEW k \in Call, Finalize(k)
    PROVE  RunInv'
<1> USE DEF RunInv, Finalize, Close
<1>1. Typed'
  BY DEF Typed, closure
\* Some drain is done, and so the cases are exhausted.
<1>2. /\ Exhausted(k)
      /\ \A b \in Box : drain[k][b].at \in {"none", "done"}
  BY DEF CallInv, Drains, AllDone, BoxesOf
<1>3. Drains(k)'
  <2>1. pc'[k] = "closing" /\ stopped' = stopped /\ next' = next /\ outcomes' = outcomes
    BY DEF Typed, closure
  <2>2. Exhausted(k)'
    BY <1>2, <2>1 DEF Exhausted
  <2> QED
    BY <1>2, <2>1, <2>2 DEF CallInv, Drains
<1>4. \A j \in Call \ {k} : pc'[j] = pc[j] /\ \A b \in Box : lent'[b] = j <=> lent[b] = j
  BY DEF Typed
<1> QED
  BY <1>1, <1>3, <1>4, CallMoves

LEMMA ThrowingStep ==
    ASSUME RunInv, NEW k \in Call, FinalizeFails(k) \/ Reject(k)
    PROVE  RunInv'
<1> USE DEF RunInv, FinalizeFails, Reject
<1>1. Typed'
  BY DEF Typed, closure
<1>2. Drains(k)'
  <2>1. /\ pc'[k] = "throwing" /\ stopped' = stopped /\ next' = next
        /\ outcomes' = outcomes /\ drain' = drain
    BY DEF Typed, closure
  <2>2. Exhausted(k)' <=> Exhausted(k)
    BY <2>1 DEF Exhausted
  <2> QED
    BY <2>1, <2>2 DEF CallInv, Drains
<1>3. \A j \in Call \ {k} : pc'[j] = pc[j] /\ \A b \in Box : lent'[b] = j <=> lent[b] = j
  BY DEF Typed
<1>4. problem' = problem /\ drain' = drain /\ UNCHANGED closure
  OBVIOUS
<1> QED
  BY <1>1, <1>2, <1>3, <1>4, CallMoves

LEMMA ReleaseBoxStep ==
    ASSUME RunInv, NEW k \in Call, NEW b \in Box, ReleaseBox(k, b)
    PROVE  RunInv'
<1> USE DEF RunInv, ReleaseBox
<1>1. Typed'
  BY DEF Typed, closure
<1>2. Drains(k)'
  BY DEF CallInv, Drains, Typed, Exhausted, closure
<1>3. \A j \in Call \ {k} : pc'[j] = pc[j] /\ \A c \in Box : lent'[c] = j <=> lent[c] = j
  BY DEF Typed, Call
<1> QED
  BY <1>1, <1>2, <1>3, CallMoves

LEMMA EndStep ==
    ASSUME RunInv, NEW k \in Call, End(k)
    PROVE  RunInv'
<1> USE DEF RunInv, End
<1>1. Typed'
  BY DEF Typed, closure
<1>2. Drains(k)'
  BY DEF CallInv, Drains, Typed, Exhausted, closure
<1>3. \A j \in Call \ {k} : pc'[j] = pc[j] /\ \A b \in Box : lent'[b] = j <=> lent[b] = j
  BY DEF Typed
<1> QED
  BY <1>1, <1>2, <1>3, CallMoves

-----------------------------------------------------------------------------
(* The steps of a drain *)

Moving(k, b) == drain[k][b].at \in {"pick", "run", "check", "write"}

Slot == [at: DrainPhase, test: Nat, count: Nat]

\* Of the drains only that of b is another.
Placed(k, b, d) ==
    /\ drain' \in [Call -> [Box -> [at: DrainPhase, test: Nat, count: Nat]]]
    /\ drain'[k][b] = d
    /\ \A c \in Box \ {b} : drain'[k][c] = drain[k][c]
    /\ \A j \in Call \ {k} : drain'[j] = drain[j]

LEMMA DrainSet ==
    ASSUME Typed, NEW k \in Call, NEW b \in Box, NEW d \in Slot, SetDrain(k, b, d)
    PROVE  Placed(k, b, d)
<1>1. d \in [at: DrainPhase, test: Nat, count: Nat]
  BY DEF Slot
<1>2. drain' = [drain EXCEPT ![k][b] = d]
  BY DEF SetDrain
<1> QED
  BY <1>1, <1>2 DEF Typed, Placed

LEMMA DrainGoes ==
    ASSUME Typed, NEW k \in Call, NEW b \in Box, NEW p \in DrainPhase, GoTo(k, b, p)
    PROVE  /\ drain' \in [Call -> [Box -> [at: DrainPhase, test: Nat, count: Nat]]]
           /\ drain'[k][b].at = p /\ drain'[k][b].test = drain[k][b].test
           /\ \A c \in Box \ {b} : drain'[k][c] = drain[k][c]
           /\ \A j \in Call \ {k} : drain'[j] = drain[j]
<1> DEFINE d == [drain[k][b] EXCEPT !.at = p]
<1>1. SetDrain(k, b, d)
  BY DEF GoTo
<1>2. /\ d \in [at: DrainPhase, test: Nat, count: Nat]
      /\ d.at = p /\ d.test = drain[k][b].test
  <2>1. drain[k][b] \in [at: DrainPhase, test: Nat, count: Nat]
    BY DEF Typed
  <2> QED
    BY <2>1
<1>3. d \in Slot
  BY <1>2 DEF Slot
<1> HIDE DEF d
<1>4. Placed(k, b, d)
  BY <1>1, <1>3, DrainSet, Zenon
<1> QED
  BY <1>2, <1>4 DEF Placed

LEMMA DrainMoves ==
    ASSUME RunInv, NEW k \in Call, NEW b \in Box, Moving(k, b), Typed',
           UNCHANGED <<problem, pc, lent>>,
           \A j \in Call \ {k} : /\ drain'[j] = drain[j] /\ next'[j] = next[j]
                                 /\ stopped'[j] = stopped[j] /\ outcomes'[j] = outcomes[j],
           \A c \in Box \ {b} : drain'[k][c] = drain[k][c],
           drain'[k][b].at # "none", drain'[k][b].at = "done" => Exhausted(k)',
           Exhausted(k) => Exhausted(k)',
           stopped'[k] => /\ problem.stopOnFirstFail
                          /\ \E i \in DOMAIN outcomes'[k] :
                               outcomes'[k][i].verdict # "accepted",
           Cases(k)'
    PROVE  RunInv'
<1>1. ASSUME NEW j \in Call \ {k} PROVE CallInv(j)'
  BY OtherCall DEF RunInv
<1>2. pc[k] \notin {"idle", "compiling", "closing", "judged"}
  BY DEF RunInv, CallInv, Drains, Moving
<1>3. Drains(k)'
  <2>1. \A c \in Box : drain'[k][c].at = "done" => Exhausted(k)'
    BY DEF RunInv, CallInv, Drains
  <2>2. \A c \in Box : drain'[k][c].at # "none" <=> drain[k][c].at # "none"
    BY DEF Moving
  <2> QED
    BY <1>2, <2>1, <2>2 DEF RunInv, CallInv, Drains
<1> QED
  BY <1>1, <1>3 DEF RunInv, CallInv

LEMMA DrainEndsStep ==
    ASSUME RunInv, NEW k \in Call, NEW b \in Box, DrainEnds(k, b)
    PROVE  RunInv'
<1> USE DEF RunInv
<1>0. problem.tests \in Nat /\ next[k] \in Nat
  BY ProblemFacts DEF Typed
<1>2. /\ drain' \in [Call -> [Box -> [at: DrainPhase, test: Nat, count: Nat]]]
      /\ drain'[k][b].at = "done"
      /\ \A c \in Box \ {b} : drain'[k][c] = drain[k][c]
      /\ \A j \in Call \ {k} : drain'[j] = drain[j]
  BY DrainGoes DEF DrainEnds, DrainPhase
<1>4. /\ next' \in [Call -> Nat] /\ \A j \in Call \ {k} : next'[j] = next[j]
      /\ next'[k] = next[k] \/ (next'[k] = next[k] + 1 /\ next[k] > problem.tests)
      /\ stopped[k] \/ next[k] > problem.tests
  BY <1>0 DEF DrainEnds, Typed
<1>5. /\ UNCHANGED <<problem, row, pc, lent, stopped, judged, outcomes, disturbed, checked>>
      /\ Moving(k, b)
  BY DEF DrainEnds, Moving
<1>6. Typed'
  BY <1>2, <1>4, <1>5 DEF Typed
<1>7. Exhausted(k)'
  BY <1>0, <1>4, <1>5 DEF Exhausted
<1>8. Cases(k)'
  <2>1. \A c \in Box : Busy(k, c)' <=> Busy(k, c)
    BY <1>2, <1>5 DEF Busy, Moving, DrainEnds
  <2>2. \A c \in Box : Busy(k, c) => drain'[k][c] = drain[k][c]
    BY <1>2 DEF Busy, DrainEnds
  <2>3. \A t \in 1..problem.tests : t < next'[k] <=> t < next[k]
    BY <1>0, <1>4
  <2>4. \A t : Reported(k, t)' <=> Reported(k, t)
    BY <1>5 DEF Reported
  <2>5. next'[k] >= 1
    BY <1>0, <1>4 DEF CallInv, Cases
  <2> QED
    BY <1>5, <2>1, <2>2, <2>3, <2>4, <2>5 DEF CallInv, Cases, DrainEnds
<1>9. stopped[k] => /\ problem.stopOnFirstFail
                    /\ \E i \in DOMAIN outcomes[k] : outcomes[k][i].verdict # "accepted"
  BY DEF CallInv, Drains
<1> QED
  BY <1>2, <1>4, <1>5, <1>6, <1>7, <1>8, <1>9, DrainMoves

LEMMA StartRunStep ==
    ASSUME RunInv, NEW k \in Call, NEW b \in Box, StartRun(k, b)
    PROVE  RunInv'
<1> USE DEF RunInv
<1> DEFINE d == [at |-> "run", test |-> next[k], count |-> 0]
<1>0. problem.tests \in Nat /\ next[k] \in Nat
  BY ProblemFacts DEF Typed
<1>1. /\ drain' \in [Call -> [Box -> [at: DrainPhase, test: Nat, count: Nat]]]
      /\ drain'[k][b] = d
      /\ \A c \in Box \ {b} : drain'[k][c] = drain[k][c]
      /\ \A j \in Call \ {k} : drain'[j] = drain[j]
  <2>1. SetDrain(k, b, d)
    BY DEF StartRun, SetDrain, NextTest
  <2>2. d \in [at: DrainPhase, test: Nat, count: Nat]
    BY <1>0 DEF DrainPhase
  <2>3. d \in Slot
    BY <2>2 DEF Slot
  <2> HIDE DEF d
  <2>4. Placed(k, b, d)
    BY <2>1, <2>3, DrainSet, Zenon
  <2> QED
    BY <2>4 DEF Placed
<1>2. d.at = "run" /\ d.test = next[k]
  OBVIOUS
<1> HIDE DEF d
<1>3. /\ next' \in [Call -> Nat] /\ \A j \in Call \ {k} : next'[j] = next[j]
      /\ next'[k] = next[k] + 1
  BY <1>0 DEF StartRun, Typed
<1>4. /\ UNCHANGED <<problem, pc, lent, stopped, judged, outcomes, checked>>
      /\ drain[k][b].at = "pick" /\ ~stopped[k] /\ next[k] <= problem.tests
  BY DEF StartRun
<1>5. Typed'
  BY <1>1, <1>3, <1>4 DEF Typed
<1>6. Cases(k)'
  <2>1. \A c \in Box : Busy(k, c)' <=> Busy(k, c) \/ c = b
    BY <1>1, <1>2 DEF Busy
  <2>2. ~Busy(k, b) /\ \A c \in Box : Busy(k, c) => drain'[k][c] = drain[k][c]
    BY <1>1, <1>4 DEF Busy
  <2>3. \A t : Reported(k, t)' <=> Reported(k, t)
    BY <1>4 DEF Reported
  <2>4. drain'[k][b].test = next[k] /\ next[k] >= 1 /\ ~Reported(k, next[k])
    BY <1>0, <1>1, <1>2 DEF CallInv, Cases, Reported
  <2>5. (\A c \in Box : Busy(k, c) => /\ drain[k][c].test \in 1..problem.tests
                                      /\ drain[k][c].test < next[k]
                                      /\ ~Reported(k, drain[k][c].test))'
    BY <1>0, <1>3, <1>4, <2>1, <2>2, <2>3, <2>4 DEF CallInv, Cases
  <2>6. \A c, e \in Box : Busy(k, c)' /\ Busy(k, e)' /\ drain'[k][c].test = drain'[k][e].test
                            => c = e
    BY <1>0, <2>1, <2>2, <2>4 DEF CallInv, Cases
  <2>7. ASSUME NEW t \in 1..problem.tests, t < next'[k]
        PROVE  Reported(k, t)' \/ \E c \in Box : Busy(k, c)' /\ drain'[k][c].test = t
    <3>1. CASE t = next[k]
      BY <2>1, <2>4, <3>1
    <3>2. CASE t # next[k]
      <4>1. t < next[k]
        BY <1>0, <1>3, <2>7, <3>2
      <4> QED
        BY <2>1, <2>2, <2>3, <4>1 DEF CallInv, Cases
    <3> QED
      BY <3>1, <3>2
  <2>8. \A i \in DOMAIN outcomes'[k] : outcomes'[k][i].test \in 1..problem.tests
                                         /\ outcomes'[k][i].test < next'[k]
    BY <1>0, <1>3, <1>4 DEF CallInv, Cases
  <2>9. \A i, j \in DOMAIN outcomes'[k] : outcomes'[k][i].test = outcomes'[k][j].test => i = j
    BY <1>4 DEF CallInv, Cases
  <2>10. next'[k] >= 1
    BY <1>0, <1>3
  <2>11. problem'.tests = problem.tests
    BY <1>4
  <2> QED
    BY <2>5, <2>6, <2>7, <2>8, <2>9, <2>10, <2>11 DEF Cases
<1>7. Exhausted(k) => Exhausted(k)'
  BY <1>0, <1>4 DEF Exhausted
<1>8. Moving(k, b)
  BY <1>4 DEF Moving
<1> QED
  BY <1>1, <1>2, <1>3, <1>4, <1>5, <1>6, <1>7, <1>8, DrainMoves

\* A drain that goes on with the case it has, to the checker or to its end.
LEMMA SameCase ==
    ASSUME RunInv, NEW k \in Call, NEW b \in Box, NEW p \in {"check", "threw"},
           drain[k][b].at \in {"run", "check"}, GoTo(k, b, p), checked' \in [Call -> Nat],
           UNCHANGED <<problem, pc, lent, closure>>
    PROVE  RunInv'
<1> USE DEF RunInv
<1>1. /\ drain' \in [Call -> [Box -> [at: DrainPhase, test: Nat, count: Nat]]]
      /\ drain'[k][b].at = p /\ drain'[k][b].test = drain[k][b].test
      /\ \A c \in Box \ {b} : drain'[k][c] = drain[k][c]
      /\ \A j \in Call \ {k} : drain'[j] = drain[j]
  BY DrainGoes DEF DrainPhase
<1>2. UNCHANGED <<next, stopped, judged, outcomes>>
  BY DEF closure
<1>3. Typed'
  BY <1>1, <1>2 DEF Typed
<1>4. Cases(k)'
  <2>1. \A c \in Box : (Busy(k, c)' <=> Busy(k, c)) /\ drain'[k][c].test = drain[k][c].test
    BY <1>1 DEF Busy
  <2>2. \A t : Reported(k, t)' <=> Reported(k, t)
    BY <1>2 DEF Reported
  <2> QED
    BY <1>2, <2>1, <2>2 DEF CallInv, Cases
<1>5. Exhausted(k)' <=> Exhausted(k)
  BY <1>2 DEF Exhausted
<1>6. stopped[k] => /\ problem.stopOnFirstFail
                    /\ \E i \in DOMAIN outcomes[k] : outcomes[k][i].verdict # "accepted"
  BY DEF CallInv, Drains
<1>7. Moving(k, b)
  BY DEF Moving
<1> QED
  BY <1>1, <1>2, <1>3, <1>4, <1>5, <1>6, <1>7, DrainMoves

LEMMA Written ==
    ASSUME NEW x \in [at: DrainPhase, test: Nat, count: Nat], NEW n \in Nat
    PROVE  /\ [x EXCEPT !.at = "write", !.count = n] \in [at: DrainPhase, test: Nat, count: Nat]
           /\ [x EXCEPT !.at = "write", !.count = n].at = "write"
BY DEF DrainPhase

\* The outcome of the case a drain has.
LEMMA PushStep ==
    ASSUME RunInv, NEW k \in Call, NEW b \in Box, NEW v \in RunVerdict \cup Compared,
           drain[k][b].at \in {"run", "check"}, Push(k, b, v),
           UNCHANGED <<problem, pc, lent, next, stopped, checked>>
    PROVE  RunInv'
<1> USE DEF RunInv
<1> DEFINE d == [drain[k][b] EXCEPT !.at = "write", !.count = judged[k] + 1]
           o == [test |-> drain[k][b].test, verdict |-> v]
           n == Len(outcomes[k]) + 1
<1>1. /\ drain' \in [Call -> [Box -> [at: DrainPhase, test: Nat, count: Nat]]]
      /\ drain'[k][b].at = "write"
      /\ \A c \in Box \ {b} : drain'[k][c] = drain[k][c]
      /\ \A j \in Call \ {k} : drain'[j] = drain[j]
  <2>1. SetDrain(k, b, d)
    BY DEF Push
  <2>2. drain[k][b] \in [at: DrainPhase, test: Nat, count: Nat] /\ judged[k] + 1 \in Nat
    BY DEF Typed
  <2>3. d \in [at: DrainPhase, test: Nat, count: Nat] /\ d.at = "write"
    BY <2>2, Written
  <2>4. d \in Slot
    BY <2>3 DEF Slot
  <2> HIDE DEF d
  <2>5. Placed(k, b, d)
    BY <2>1, <2>4, DrainSet, Zenon
  <2> QED
    BY <2>3, <2>5 DEF Placed
<1>2. o \in Outcome /\ o.test = drain[k][b].test /\ o.verdict = v
  BY DEF Typed, Outcome
<1>3. outcomes' = [outcomes EXCEPT ![k] = Append(@, o)]
  BY DEF Push, TestOf
<1> HIDE DEF d, o
<1>4. /\ outcomes' \in [Call -> Seq(Outcome)]
      /\ \A j \in Call \ {k} : outcomes'[j] = outcomes[j]
      /\ n \notin DOMAIN outcomes[k]
      /\ DOMAIN outcomes'[k] = DOMAIN outcomes[k] \cup {n}
      /\ \A i \in DOMAIN outcomes[k] : outcomes'[k][i] = outcomes[k][i]
      /\ outcomes'[k][n] = o
  BY <1>2, <1>3, Appended DEF Typed
<1> HIDE DEF n
<1>5. judged' \in [Call -> Nat]
  BY DEF Push, Typed
<1>6. Typed'
  BY <1>1, <1>4, <1>5 DEF Typed
<1>7. Cases(k)'
  <2>1. Busy(k, b) /\ ~Reported(k, o.test)
    BY <1>2 DEF Busy, CallInv, Cases
  <2>2. \A c \in Box : Busy(k, c)' <=> Busy(k, c) /\ c # b
    BY <1>1 DEF Busy
  <2>3. \A c \in Box : Busy(k, c)' => drain'[k][c] = drain[k][c] /\ drain[k][c].test # o.test
    BY <1>1, <1>2, <2>1, <2>2 DEF CallInv, Cases
  <2>4. \A t : Reported(k, t)' <=> Reported(k, t) \/ t = o.test
    BY <1>4 DEF Reported
  <2>5. /\ \A i \in DOMAIN outcomes'[k] : outcomes'[k][i].test \in 1..problem.tests
                                            /\ outcomes'[k][i].test < next[k]
        /\ \A i, j \in DOMAIN outcomes'[k] :
             outcomes'[k][i].test = outcomes'[k][j].test => i = j
    BY <1>2, <1>4, <2>1 DEF CallInv, Cases, Reported
  <2>6. (\A c \in Box : Busy(k, c) => /\ drain[k][c].test \in 1..problem.tests
                                      /\ drain[k][c].test < next[k]
                                      /\ ~Reported(k, drain[k][c].test))'
    BY <2>2, <2>3, <2>4 DEF CallInv, Cases
  <2>7. \A c, e \in Box : Busy(k, c)' /\ Busy(k, e)' /\ drain'[k][c].test = drain'[k][e].test
                            => c = e
    BY <2>2, <2>3 DEF CallInv, Cases
  <2>8. \A t \in 1..problem.tests : t < next[k] =>
          Reported(k, t)' \/ \E c \in Box : Busy(k, c)' /\ drain'[k][c].test = t
    BY <1>2, <2>2, <2>3, <2>4 DEF CallInv, Cases
  <2>9. next[k] >= 1
    BY DEF CallInv, Cases
  <2> QED
    BY <2>5, <2>6, <2>7, <2>8, <2>9 DEF Cases
<1>8. Exhausted(k)' <=> Exhausted(k)
  BY DEF Exhausted
<1>9. stopped[k] => /\ problem.stopOnFirstFail
                    /\ \E i \in DOMAIN outcomes'[k] : outcomes'[k][i].verdict # "accepted"
  BY <1>4 DEF CallInv, Drains
<1>10. Moving(k, b)
  BY DEF Moving
<1> QED
  BY <1>1, <1>4, <1>6, <1>7, <1>8, <1>9, <1>10, DrainMoves

LEMMA RunSteps ==
    ASSUME RunInv, NEW k \in Call, NEW b \in Box,
           EndRun(k, b) \/ GiveToChecker(k, b) \/ EndCheck(k, b) \/ Throw(k, b)
    PROVE  RunInv'
<1>1. CASE EndRun(k, b)
  <2>1. Busy(k, b) /\ drain[k][b].at = "run"
    BY <1>1 DEF EndRun, Running, Busy
  <2>2. SeenVerdicts(k, b) \subseteq RunVerdict
    BY <2>1, ProblemFacts DEF RunInv, Typed, CallInv, Cases, SeenVerdicts
  <2>3. PICK v \in SeenVerdicts(k, b) : Push(k, b, v)
    BY <1>1 DEF EndRun
  <2> QED
    BY <1>1, <2>1, <2>2, <2>3, PushStep DEF EndRun
<1>2. CASE GiveToChecker(k, b)
  <2>1. checked' \in [Call -> Nat]
    BY <1>2 DEF GiveToChecker, FilesGiven, RunInv, Typed
  <2> QED
    BY <1>2, <2>1, SameCase DEF GiveToChecker, Running
<1>3. CASE EndCheck(k, b)
  <2>1. PICK v \in Compared : Push(k, b, v)
    BY <1>3 DEF EndCheck
  <2> QED
    BY <1>3, <2>1, PushStep DEF EndCheck
<1>4. CASE Throw(k, b)
  BY <1>4, SameCase DEF Throw, RunInv, Typed
<1> QED
  BY <1>1, <1>2, <1>3, <1>4

LEMMA WriteProgressStep ==
    ASSUME RunInv, NEW k \in Call, NEW b \in Box, WriteProgress(k, b)
    PROVE  RunInv'
<1> USE DEF RunInv
<1>1. PICK p \in {"pick", "done"} :
        /\ GoTo(k, b, p)
        /\ p = "pick" => stopped' = stopped
        /\ p = "done" =>
             /\ stopped' = [stopped EXCEPT ![k] = TRUE]
             /\ problem.stopOnFirstFail
             /\ \E o \in Failing(ToSet(outcomes[k])) : o.test = drain[k][b].test
  BY DEF WriteProgress
<1>2. /\ drain' \in [Call -> [Box -> [at: DrainPhase, test: Nat, count: Nat]]]
      /\ drain'[k][b].at = p
      /\ \A c \in Box \ {b} : drain'[k][c] = drain[k][c]
      /\ \A j \in Call \ {k} : drain'[j] = drain[j]
  BY <1>1, DrainGoes DEF DrainPhase
<1>3. UNCHANGED <<problem, pc, lent, next, judged, outcomes, disturbed, checked>>
  BY DEF WriteProgress
<1>4. /\ stopped' \in [Call -> BOOLEAN]
      /\ \A j \in Call \ {k} : stopped'[j] = stopped[j]
      /\ stopped[k] => stopped'[k]
      /\ p = "done" => stopped'[k]
      /\ p = "pick" => stopped'[k] = stopped[k]
  BY <1>1 DEF Typed
<1>5. Typed'
  BY <1>2, <1>3, <1>4 DEF Typed
<1>6. Cases(k)'
  <2>1. \A c \in Box : Busy(k, c)' <=> Busy(k, c)
    BY <1>2 DEF Busy, WriteProgress
  <2>2. \A c \in Box : Busy(k, c) => drain'[k][c] = drain[k][c]
    BY <1>2 DEF Busy, WriteProgress
  <2>3. \A t : Reported(k, t)' <=> Reported(k, t)
    BY <1>3 DEF Reported
  <2> QED
    BY <1>3, <2>1, <2>2, <2>3 DEF CallInv, Cases
<1>7. /\ Exhausted(k) => Exhausted(k)'
      /\ p = "done" => Exhausted(k)'
  BY <1>3, <1>4 DEF Exhausted
<1>8. stopped'[k] => /\ problem.stopOnFirstFail
                     /\ \E i \in DOMAIN outcomes[k] : outcomes[k][i].verdict # "accepted"
  <2>1. CASE p = "done"
    BY <1>1, <2>1 DEF Failing, ToSet
  <2>2. CASE p = "pick"
    BY <1>4, <2>2 DEF CallInv, Drains
  <2> QED
    BY <2>1, <2>2
<1>9. Moving(k, b)
  BY DEF Moving, WriteProgress
<1> QED
  BY <1>2, <1>3, <1>4, <1>5, <1>6, <1>7, <1>8, <1>9, DrainMoves

LEMMA NextRun == RunInv /\ [Next]_vars => RunInv'
<1> SUFFICES ASSUME RunInv, [Next]_vars PROVE RunInv'
  OBVIOUS
<1>1. ASSUME NEW k \in Call, CallStep(k) PROVE RunInv'
  BY <1>1, JudgeStep, EarlySteps, CompileOkStep, FinalizeStep, ThrowingStep, ReleaseBoxStep,
     EndStep DEF CallStep
<1>2. ASSUME NEW k \in Call, NEW b \in Box, DrainStep(k, b) PROVE RunInv'
  BY <1>2, DrainEndsStep, StartRunStep, RunSteps, WriteProgressStep DEF DrainStep
<1>3. CASE UNCHANGED vars
  <2>1. UNCHANGED <<problem, pc, lent, drain, next, stopped, judged, outcomes, checked>>
    BY <1>3 DEF vars, closure
  <2>2. Typed'
    BY <2>1 DEF RunInv, Typed
  <2> QED
    BY <2>1, <2>2, OtherCall DEF RunInv
<1> QED
  BY <1>1, <1>2, <1>3 DEF Next

-----------------------------------------------------------------------------
(* The cases judged *)

\* A list of different numbers that names all of 1..m has m entries.
OneToOne(f, n, m) ==
    /\ f \in [1..n -> 1..m]
    /\ \A i, j \in 1..n : f[i] = f[j] => i = j
    /\ \A t \in 1..m : \E i \in 1..n : f[i] = t

LEMMA EquallyMany ==
    ASSUME NEW n \in Nat, NEW m \in Nat, NEW f, OneToOne(f, n, m)
    PROVE  n = m
<1>1. f \in Injection(1..n, 1..m) /\ f \in Surjection(1..n, 1..m)
  BY DEF OneToOne, Injection, Surjection, IsInjective
<1>2. /\ IsFiniteSet(1..n) /\ Cardinality(1..n) = n
      /\ IsFiniteSet(1..m) /\ Cardinality(1..m) = m
  BY FS_Interval
<1>3. Cardinality(1..n) <= Cardinality(1..m)
  BY <1>1, <1>2, FS_Injection
<1>4. Cardinality(1..m) <= Cardinality(1..n)
  BY <1>1, <1>2, FS_Surjection
<1> QED
  BY <1>2, <1>3, <1>4

\* What the outcomes of a call are when it is over.
LEMMA CasesJudged ==
    ASSUME RunInv, NEW k \in Call, Settled(k)
    PROVE  /\ Len(outcomes[k]) \in Nat /\ Len(outcomes[k]) <= problem.tests
           /\ \A t : Reported(k, t) <=> t \in 1..Len(outcomes[k])
           /\ Len(outcomes[k]) < problem.tests =>
                problem.stopOnFirstFail
                /\ \E i \in DOMAIN outcomes[k] : outcomes[k][i].verdict # "accepted"
<1> DEFINE n == Len(outcomes[k])
           m == IF next[k] > problem.tests THEN problem.tests ELSE next[k] - 1
           f == [i \in 1..n |-> outcomes[k][i].test]
<1>1. /\ Typed /\ Cases(k) /\ Drains(k) /\ problem.tests \in Nat /\ next[k] \in Nat
      /\ n \in Nat /\ DOMAIN outcomes[k] = 1..n
  BY ProblemFacts DEF RunInv, CallInv, Typed
<1>2. m \in Nat /\ m <= problem.tests /\ \A t \in 1..problem.tests : t < next[k] <=> t <= m
  BY <1>1 DEF Cases
<1> HIDE DEF m, n
<1>3. \A b \in Box : ~Busy(k, b)
  BY <1>1 DEF Settled, Drains, Busy
<1>4. Exhausted(k)
  BY <1>1 DEF Settled, Drains
<1>5. \A i \in 1..n : outcomes[k][i].test \in 1..m
  BY <1>1, <1>2 DEF Cases
<1>6. \A t \in 1..m : Reported(k, t)
  <2>1. \A t \in 1..m : t \in 1..problem.tests /\ t < next[k]
    BY <1>1, <1>2
  <2> QED
    BY <1>1, <1>3, <2>1 DEF Cases
<1>7. n = m
  <2>1. f \in [1..n -> 1..m]
    BY <1>5
  <2>2. \A i, j \in 1..n : f[i] = f[j] => i = j
    BY <1>1 DEF Cases
  <2>3. \A t \in 1..m : \E i \in 1..n : f[i] = t
    BY <1>1, <1>6 DEF Reported
  <2>4. n \in Nat /\ m \in Nat
    BY <1>1, <1>2
  <2> HIDE DEF f
  <2>5. OneToOne(f, n, m)
    BY <2>1, <2>2, <2>3 DEF OneToOne
  <2> QED
    BY <2>4, <2>5, EquallyMany, Zenon
<1>8. \A t : Reported(k, t) <=> t \in 1..n
  BY <1>1, <1>5, <1>6, <1>7 DEF Reported
<1>9. n < problem.tests => stopped[k]
  BY <1>1, <1>2, <1>4, <1>7 DEF Exhausted, m
<1> QED
  BY <1>1, <1>2, <1>7, <1>8, <1>9 DEF n, Drains

LEMMA PrefixOfInv == RunInv => PrefixJudged
<1> SUFFICES ASSUME RunInv, NEW k \in Call, Settled(k)
             PROVE  /\ {o.test : o \in ToSet(outcomes[k])} = 1..Len(outcomes[k])
                    /\ Len(outcomes[k]) < problem.tests =>
                         problem.stopOnFirstFail /\ Failing(ToSet(outcomes[k])) # {}
  BY DEF PrefixJudged
<1>1. \A t : t \in {o.test : o \in ToSet(outcomes[k])} <=> Reported(k, t)
  BY DEF ToSet, Reported
<1>2. {o.test : o \in ToSet(outcomes[k])} = 1..Len(outcomes[k])
  BY <1>1, CasesJudged
<1>3. (\E i \in DOMAIN outcomes[k] : outcomes[k][i].verdict # "accepted")
        => Failing(ToSet(outcomes[k])) # {}
  BY DEF ToSet, Failing
<1> QED
  BY <1>2, <1>3, CasesJudged

\* Whatever turns the drains of runTestcases take, and whatever fails in them: the cases of a
\* finished call are the first ones, each once, and all of them unless a failing one
\* stopped it.
THEOREM EachCaseOnce == Spec => []PrefixJudged
<1> QED
  BY InitRun, NextRun, PrefixOfInv, PTL DEF Spec

(* Verdicts in their order *)

\* verdict.ts orders the verdicts, so some verdict of a set is the worst.
LEMMA WorstExists ==
    ASSUME NEW V \in SUBSET Verdict, V # {}
    PROVE  \E v \in V : \A u \in V : u = v \/ Worse(v, u)
<1> DEFINE I == {n \in 1..8 : Severity[n] \in V}
<1>1. DOMAIN Severity = 1..8 /\ \A v \in V : \E n \in I : Severity[n] = v
  BY DEF Verdict, ToSet, Severity
<1>2. I \subseteq 1..8 /\ I # {}
  BY <1>1
<1>3. PICK n \in I : \A m \in I : n <= m
  <2> HIDE DEF I
  <2> SUFFICES ASSUME \A n \in I : \E m \in I : ~(n <= m) PROVE FALSE
    OBVIOUS
  <2>1. \A n \in I : \E m \in I : m < n
    BY <1>2
  <2>2. 1 \notin I
    BY <1>2, <2>1
  <2>3. 2 \notin I
    BY <1>2, <2>1, <2>2
  <2>4. 3 \notin I /\ 4 \notin I
    BY <1>2, <2>1, <2>2, <2>3
  <2>5. 5 \notin I /\ 6 \notin I
    BY <1>2, <2>1, <2>2, <2>3, <2>4
  <2>6. 7 \notin I /\ 8 \notin I
    BY <1>2, <2>1, <2>2, <2>3, <2>4, <2>5
  <2>7. \A n \in 1..8 : n \in {1, 2, 3, 4, 5, 6, 7, 8}
    OBVIOUS
  <2>8. \A n \in I : n \in {1, 2, 3, 4, 5, 6, 7, 8}
    BY <1>2, <2>7
  <2> QED
    BY <1>2, <2>2, <2>3, <2>4, <2>5, <2>6, <2>8
<1>4. \A m \in I : Severity[m] = Severity[n] \/ Worse(Severity[n], Severity[m])
  BY <1>1, <1>3 DEF Worse
<1> QED
  BY <1>1, <1>3, <1>4

LEMMA AcceptedIsLast ==
    ASSUME NEW V \in SUBSET Verdict, V # {}
    PROVE  Worst(V) = "accepted" <=> V = {"accepted"}
<1>1. \A u : ~Worse("accepted", u)
  BY DEF Worse, Severity
<1>2. Worst(V) \in V /\ \A u \in V : u = Worst(V) \/ Worse(Worst(V), u)
  BY WorstExists DEF Worst
<1> QED
  BY <1>1, <1>2

-----------------------------------------------------------------------------
(* Types: the points *)

LEMMA Induction ==
    ASSUME NEW S, 0 \in S, \A n \in Nat : n \in S => n + 1 \in S
    PROVE  \A n \in Nat : n \in S
<1>1. SUFFICES ASSUME Nat \ S # {} PROVE FALSE
  OBVIOUS
<1>2. PICK m \in Nat \ S : \A y \in Nat \ S : <<y, m>> \notin OpToRel(<, Nat)
  BY <1>1, NatLessThanWellFounded, WFMin
<1>3. m # 0 /\ m - 1 \in Nat
  OBVIOUS
<1>4. \A y \in Nat \ S : ~(y < m)
  BY <1>2 DEF OpToRel
<1>5. m - 1 \in S
  BY <1>3, <1>4
<1> QED
  BY <1>3, <1>5

\* The points of any cases are a number: by induction on the number of cases, first that
\* the function of PointsOf is there, then what it returns.
LEMMA PointsAreNat ==
    ASSUME problem \in Problem, NEW T
    PROVE  PointsOf(T) \in Nat
<1> DEFINE Step(g, i) ==
      IF i = 0 THEN 0 ELSE g[i - 1] + (IF i \in T THEN problem.points[i] ELSE 0)
<1> DEFINE Is(n, g) == g = [i \in 0..n |-> Step(g, i)]
<1>1. \A n \in Nat : \E g : Is(n, g)
  <2>1. PICK S : S = {n \in Nat : \E g : Is(n, g)}
    OBVIOUS
  <2>2. 0 \in S
    <3>1. Is(0, [i \in 0..0 |-> 0])
      OBVIOUS
    <3> QED
      BY <2>1, <3>1
  <2>3. ASSUME NEW n \in Nat, n \in S PROVE n + 1 \in S
    <3>1. PICK g : Is(n, g)
      BY <2>1, <2>3
    <3>2. PICK last : last = g[n] + (IF n + 1 \in T THEN problem.points[n + 1] ELSE 0)
      OBVIOUS
    <3>3. PICK h : h = [i \in 0..(n + 1) |-> IF i = n + 1 THEN last ELSE g[i]]
      OBVIOUS
    <3>4. ASSUME NEW i \in 0..(n + 1) PROVE h[i] = Step(h, i)
      <4>1. CASE i = n + 1
        BY <3>2, <3>3, <4>1
      <4>2. CASE i # n + 1
        <5>1. i \in 0..n /\ h[i] = g[i] /\ (i # 0 => h[i - 1] = g[i - 1])
          BY <3>3, <4>2
        <5>2. g[i] = Step(g, i)
          BY <3>1, <5>1
        <5> QED
          BY <5>1, <5>2
      <4> QED
        BY <4>1, <4>2
    <3>5. Is(n + 1, h)
      BY <3>3, <3>4
    <3>6. n + 1 \in Nat /\ \E f : Is(n + 1, f)
      BY <3>5
    <3> HIDE DEF Is
    <3> QED
      BY <2>1, <3>6
  <2>4. \A n \in Nat : n \in S
    BY <2>2, <2>3, Induction
  <2> QED
    BY <2>1, <2>4
<1>2. /\ problem.tests \in Nat
      /\ \A n \in 1..problem.tests : problem.points[n] \in Nat
  <2>1. PICK n \in 0..MaxTests :
          problem \in [tests: {n}, deserved: [1..n -> RunVerdict], points: [1..n -> Points],
                       stopOnFirstFail: BOOLEAN, special: Special]
    BY DEF Problem
  <2>2. n \in Nat /\ problem.tests = n
    BY <2>1, BoundAssumption
  <2>3. problem.points \in [1..n -> Points]
    BY <2>1
  <2>4. \A i \in 1..n : problem.points[i] \in Points
    BY <2>3
  <2> QED
    BY <2>2, <2>4, BoundAssumption
<1>3. \E g : Is(problem.tests, g)
  BY <1>1, <1>2
<1>4. PICK f : Is(problem.tests, f) /\ PointsOf(T) = f[problem.tests]
  BY <1>3 DEF PointsOf
<1>5. \A n \in Nat : n <= problem.tests => f[n] \in Nat
  <2>1. PICK S : S = {n \in Nat : n <= problem.tests => f[n] \in Nat}
    OBVIOUS
  <2>2. 0 \in S
    BY <1>2, <1>4, <2>1
  <2>3. ASSUME NEW n \in Nat, n \in S PROVE n + 1 \in S
    <3>1. SUFFICES ASSUME n + 1 <= problem.tests PROVE f[n + 1] \in Nat
      BY <2>1
    <3>2. f[n] \in Nat /\ problem.points[n + 1] \in Nat
      BY <1>2, <2>1, <2>3, <3>1
    <3>3. f[n + 1] = f[n] + (IF n + 1 \in T THEN problem.points[n + 1] ELSE 0)
      <4>1. n + 1 \in 0..problem.tests /\ n + 1 # 0 /\ (n + 1) - 1 = n
        BY <1>2, <3>1
      <4>2. f[n + 1] = Step(f, n + 1)
        BY <1>4, <4>1
      <4> QED
        BY <4>1, <4>2
    <3> QED
      BY <3>2, <3>3
  <2>4. \A n \in Nat : n \in S
    BY <2>2, <2>3, Induction
  <2> QED
    BY <2>1, <2>4
<1>6. f[problem.tests] \in Nat
  BY <1>2, <1>5
<1> HIDE DEF Is
<1> QED
  BY <1>4, <1>6

LEMMA FiniteOutcomes ==
    ASSUME NEW S, NEW s \in Seq(S)
    PROVE  IsFiniteSet(ToSet(s))
<1>1. s \in Surjection(1..Len(s), ToSet(s)) /\ Len(s) \in Nat
  BY DEF Surjection, ToSet
<1>2. IsFiniteSet(1..Len(s))
  BY <1>1, FS_Interval
<1> QED
  BY <1>1, <1>2, FS_Surjection

LEMMA DivIsNat ==
    ASSUME NEW a \in Nat, NEW b \in Nat, b > 0
    PROVE  a \div b \in Nat
OBVIOUS

LEMMA ScoreIsNat ==
    ASSUME problem \in Problem, NEW S, NEW s \in Seq(S)
    PROVE  Score(ToSet(s)) \in Nat
<1> DEFINE O == ToSet(s)
<1>1. Earned(O) \in Nat
  BY PointsAreNat DEF Earned
<1>2. IsFiniteSet(O) /\ IsFiniteSet(O \ Failing(O))
  BY FiniteOutcomes, FS_Difference
<1> HIDE DEF O
<1>3. Cardinality(O) \in Nat /\ Cardinality(O \ Failing(O)) \in Nat
  BY <1>2, FS_CardinalityType
<1>4. O # {} => Cardinality(O) > 0
  BY <1>2, <1>3, FS_EmptySet
<1>5. ASSUME O # {} PROVE Percent(Cardinality(O \ Failing(O)), Cardinality(O)) \in Nat
  <2>1. PICK a \in Nat : a = 200 * Cardinality(O \ Failing(O)) + Cardinality(O)
    BY <1>3
  <2>2. PICK b \in Nat : b = 2 * Cardinality(O) /\ b > 0
    BY <1>3, <1>4, <1>5
  <2> QED
    BY <2>1, <2>2, DivIsNat DEF Percent
<1>6. Score(O) \in Nat
  BY <1>1, <1>5 DEF Score
<1> QED
  BY <1>6 DEF O

-----------------------------------------------------------------------------
(* Types: the row and the counts *)

Row == [status: {"judging", "queued", "done"}, verdict: Verdict \cup {"none"},
        score: Nat, judgedCount: 0..MaxTests, failedIdx: 0..MaxTests]

\* judged counts the outcomes, of which there are no more than cases.
CountInv ==
    /\ row \in Row
    /\ \A k \in Call :
         /\ judged[k] = Len(outcomes[k])
         /\ \A b \in Box : drain[k][b].test \in 0..MaxTests /\ drain[k][b].count \in 0..MaxTests
    /\ disturbed \subseteq Call \X Box
    /\ checked \in [Call -> 0..MaxTests]
    /\ clashed \subseteq Call

LEMMA CaseNumber ==
    ASSUME NEW p \in Problem
    PROVE  p.tests \in 0..MaxTests
<1>1. PICK n \in 0..MaxTests :
        p \in [tests: {n}, deserved: [1..n -> RunVerdict], points: [1..n -> Points],
              stopOnFirstFail: BOOLEAN, special: Special]
  BY DEF Problem
<1> QED
  BY <1>1

LEMMA NotMore ==
    ASSUME NEW n \in Nat, NEW m \in Nat, NEW f \in [1..n -> 1..m],
           \A i, j \in 1..n : f[i] = f[j] => i = j
    PROVE  n <= m
<1>1. f \in Injection(1..n, 1..m)
  BY DEF Injection, IsInjective
<1>2. IsFiniteSet(1..n) /\ Cardinality(1..n) = n
  BY FS_Interval
<1>3. IsFiniteSet(1..m) /\ Cardinality(1..m) = m
  BY FS_Interval
<1>4. Cardinality(1..n) <= Cardinality(1..m)
  BY <1>1, <1>3, FS_Injection
<1> QED
  BY <1>2, <1>3, <1>4

\* A list of outcomes of different cases.
LEMMA Few ==
    ASSUME NEW n \in 0..MaxTests, NEW s \in Seq(Outcome),
           \A i \in DOMAIN s : s[i].test \in 1..n,
           \A i, j \in DOMAIN s : s[i].test = s[j].test => i = j
    PROVE  Len(s) \in 0..MaxTests
<1> DEFINE f == [i \in 1..Len(s) |-> s[i].test]
<1>1. Len(s) \in Nat /\ DOMAIN s = 1..Len(s) /\ MaxTests \in Nat /\ n \in Nat
  BY BoundAssumption
<1>2. f \in [1..Len(s) -> 1..n] /\ \A i, j \in 1..Len(s) : f[i] = f[j] => i = j
  BY <1>1
<1> HIDE DEF f
<1>3. Len(s) <= n
  BY <1>1, <1>2, NotMore
<1> QED
  BY <1>1, <1>3

LEMMA NotMoreThanCases ==
    ASSUME Typed, NEW k \in Call, Cases(k)
    PROVE  Len(outcomes[k]) \in 0..MaxTests
BY CaseNumber, Few DEF Typed, Cases

LEMMA MinOfNats ==
    ASSUME NEW S \in SUBSET Nat, S # {}
    PROVE  Min(S) \in S
<1>1. PICK x \in S : \A y \in S : <<y, x>> \notin OpToRel(<, Nat)
  BY NatLessThanWellFounded, WFMin
<1>2. \A y \in S : ~(y < x)
  BY <1>1 DEF OpToRel
<1>3. \E z \in S : \A y \in S : z =< y
  BY <1>2
<1> QED
  BY <1>3, Zenon DEF Min

LEMMA FailedIsCase ==
    ASSUME Typed, NEW k \in Call, Cases(k)
    PROVE  FailedIdx(outcomes[k]) \in 0..MaxTests
<1> DEFINE S == {o.test : o \in Failing(ToSet(outcomes[k]))}
<1>1. problem.tests \in 0..MaxTests /\ MaxTests \in Nat
  BY CaseNumber, BoundAssumption DEF Typed
<1>2. \A t \in S : t \in 1..problem.tests
  <2>1. \A o \in Failing(ToSet(outcomes[k])) : \E i \in DOMAIN outcomes[k] : o = outcomes[k][i]
    BY DEF Failing, ToSet
  <2>2. \A i \in DOMAIN outcomes[k] : outcomes[k][i].test \in 1..problem.tests
    BY DEF Cases
  <2> QED
    BY <2>1, <2>2
<1>3. S \in SUBSET Nat /\ (Failing(ToSet(outcomes[k])) # {} => S # {})
  BY <1>1, <1>2
<1>4. \/ FailedIdx(outcomes[k]) = 0
      \/ S # {} /\ FailedIdx(outcomes[k]) = Min(S)
  BY <1>3 DEF FailedIdx
<1> HIDE DEF S
<1>5. S # {} => Min(S) \in S
  BY <1>3, MinOfNats
<1>6. FailedIdx(outcomes[k]) = 0 \/ FailedIdx(outcomes[k]) \in 1..problem.tests
  BY <1>2, <1>4, <1>5
<1> QED
  BY <1>1, <1>6

\* A verdict as finalize is given it.
LEMMA VerdictNames ==
    /\ "internal_error" \in Verdict /\ "compile_error" \in Verdict
    /\ Compared \subseteq Verdict
<1>1. \A n \in 1..8 : Severity[n] \in Verdict
  BY DEF Verdict, ToSet, Severity
<1>2. Severity[1] = "internal_error" /\ Severity[2] = "compile_error"
      /\ Severity[7] = "wrong_answer" /\ Severity[8] = "accepted"
  BY DEF Severity
<1> QED
  BY <1>1, <1>2 DEF Compared

LEMMA WorstIsVerdict ==
    ASSUME Typed, NEW k \in Call
    PROVE  Worst({o.verdict : o \in ToSet(outcomes[k])}) \in Verdict
<1> DEFINE V == {o.verdict : o \in ToSet(outcomes[k])}
<1>1. \A i \in DOMAIN outcomes[k] : outcomes[k][i] \in Outcome
  BY DEF Typed
<1>2. V \in SUBSET Verdict
  BY <1>1, VerdictNames, VerdictAssumption DEF Outcome, ToSet
<1> HIDE DEF V
<1>3. Worst(V) \in Verdict
  <2>1. CASE V = {}
    BY <2>1, VerdictNames DEF Worst
  <2>2. CASE V # {}
    BY <1>2, <2>2, WorstExists DEF Worst
  <2> QED
    BY <2>1, <2>2
<1> QED
  BY <1>3 DEF V

\* The row of finalize.
LEMMA CloseTyped ==
    ASSUME Typed, NEW k \in Call, Cases(k), NEW v \in Verdict, Close(k, v)
    PROVE  row' \in Row
<1>1. Score(ToSet(outcomes[k])) \in Nat
  BY ScoreIsNat DEF Typed
<1>2. Len(outcomes[k]) \in 0..MaxTests /\ FailedIdx(outcomes[k]) \in 0..MaxTests
  BY NotMoreThanCases, FailedIsCase
<1>3. row' = [status |-> "done", verdict |-> v, score |-> Score(ToSet(outcomes[k])),
              judgedCount |-> Len(outcomes[k]), failedIdx |-> FailedIdx(outcomes[k])]
  BY DEF Close
<1> QED
  BY <1>1, <1>2, <1>3 DEF Row

\* What a step makes of a row whose verdict is not final.
LEMMA RowChanged ==
    ASSUME NEW x \in Row, NEW n \in 0..MaxTests, NEW s \in {"judging", "queued"}
    PROVE  /\ [x EXCEPT !.judgedCount = n] \in Row
           /\ [x EXCEPT !.status = s] \in Row
           /\ [x EXCEPT !.status = s, !.judgedCount = n] \in Row
           /\ [x EXCEPT !.judgedCount = n].verdict = x.verdict
           /\ [x EXCEPT !.status = s].verdict = x.verdict
           /\ [x EXCEPT !.status = s, !.judgedCount = n].verdict = x.verdict
BY DEF Row

LEMMA InitCounts == Init => CountInv
<1> SUFFICES ASSUME Init PROVE CountInv
  OBVIOUS
<1>1. MaxTests \in Nat
  BY BoundAssumption
<1>2. row \in Row
  BY <1>1 DEF Init, Row
<1>3. \A k \in Call : /\ judged[k] = Len(outcomes[k])
                      /\ \A b \in Box : drain[k][b].test = 0 /\ drain[k][b].count = 0
  BY DEF Init, Resting
<1> QED
  BY <1>1, <1>2, <1>3 DEF Init, CountInv

LEMMA CallCounts ==
    ASSUME RunInv, CountInv, NEW k \in Call, CallStep(k)
    PROVE  CountInv'
<1>0. Typed /\ Cases(k) /\ MaxTests \in Nat /\ row \in Row
  BY BoundAssumption DEF RunInv, CallInv, CountInv
<1>1. judged' = judged /\ outcomes' = outcomes /\ disturbed' = disturbed /\ checked' = checked
  BY DEF CallStep, Judge, JudgeWithoutTests, JudgeThrows, CompileOk, CompileError, CompileThrows,
         Finalize, FinalizeFails, Reject, End, ReleaseBox, closure
<1>c. clashed' \subseteq Call
  BY DEF CallStep, Judge, JudgeWithoutTests, JudgeThrows, CompileOk, CompileError, CompileThrows,
         Finalize, FinalizeFails, Reject, End, ReleaseBox, CountInv
<1>2. row' \in Row
  <2>1. CASE Judge(k)
    <3>1. PICK x \in Row : x = row
      BY <1>0
    <3>2. row' = [x EXCEPT !.status = "judging", !.judgedCount = 0]
      BY <2>1, <3>1 DEF Judge
    <3>3. 0 \in 0..MaxTests
      BY <1>0
    <3> QED
      BY <3>2, <3>3, RowChanged
  <2>2. CASE JudgeThrows(k)
    <3>1. PICK n \in {row.judgedCount, 0} :
            row' = [row EXCEPT !.status = "judging", !.judgedCount = n]
      BY <2>2 DEF JudgeThrows
    <3>2. n \in 0..MaxTests
      BY <1>0 DEF Row
    <3> QED
      BY <1>0, <3>1, <3>2, RowChanged
  <2>3. CASE JudgeWithoutTests(k) \/ CompileError(k)
    BY <1>0, <2>3, CloseTyped, VerdictNames DEF JudgeWithoutTests, CompileError
  <2>4. CASE Finalize(k)
    BY <1>0, <2>4, CloseTyped, WorstIsVerdict DEF Finalize
  <2>5. CASE End(k)
    <3>1. PICK x \in Row : x = row
      BY <1>0
    <3>2. row' = x \/ row' = [x EXCEPT !.status = "queued"]
      BY <2>5, <3>1 DEF End
    <3>3. 0 \in 0..MaxTests
      BY <1>0
    <3> QED
      BY <3>1, <3>2, <3>3, RowChanged
  <2>6. CASE row' = row
    BY <1>0, <2>6
  <2>7. CASE CompileOk(k) \/ CompileThrows(k) \/ FinalizeFails(k) \/ Reject(k)
    BY <2>6, <2>7 DEF CompileOk, CompileThrows, FinalizeFails, Reject
  <2>8. ASSUME NEW b \in Box, ReleaseBox(k, b) PROVE row' \in Row
    BY <2>6, <2>8 DEF ReleaseBox
  <2> QED
    BY <2>1, <2>2, <2>3, <2>4, <2>5, <2>7, <2>8, Zenon DEF CallStep
<1>3. \A j \in Call : \A b \in Box :
        drain'[j][b].test \in 0..MaxTests /\ drain'[j][b].count \in 0..MaxTests
  <2>1. CASE drain' = drain
    BY <2>1 DEF CountInv
  <2>2. CASE CompileOk(k)
    <3>1. /\ drain'[k] = [b \in Box |-> IF lent[b] = k THEN [Resting EXCEPT !.at = "pick"]
                                        ELSE Resting]
          /\ \A j \in Call \ {k} : drain'[j] = drain[j]
      BY <1>0, <2>2 DEF CompileOk, Typed
    <3>2. PICK x : x = [Resting EXCEPT !.at = "pick"]
      OBVIOUS
    <3>3. x.test = 0 /\ x.count = 0 /\ Resting.test = 0 /\ Resting.count = 0
      BY <3>2 DEF Resting
    <3>4. \A b \in Box : drain'[k][b] = x \/ drain'[k][b] = Resting
      BY <3>1, <3>2
    <3>5. \A b \in Box : drain'[k][b].test = 0 /\ drain'[k][b].count = 0
      BY <3>3, <3>4
    <3>6. 0 \in 0..MaxTests
      BY <1>0
    <3>7. \A j \in Call \ {k} : \A b \in Box :
            drain'[j][b].test \in 0..MaxTests /\ drain'[j][b].count \in 0..MaxTests
      BY <3>1 DEF CountInv
    <3> QED
      BY <3>5, <3>6, <3>7
  <2> QED
    BY <2>1, <2>2 DEF CallStep, Judge, JudgeWithoutTests, JudgeThrows, CompileError,
       CompileThrows, Finalize, FinalizeFails, Reject, End, ReleaseBox
<1> QED
  BY <1>1, <1>c, <1>2, <1>3 DEF CountInv

\* A drain that goes elsewhere with its case and its count.
LEMMA GoesCounts ==
    ASSUME Typed, CountInv, NEW k \in Call, NEW b \in Box, NEW p \in DrainPhase, GoTo(k, b, p)
    PROVE  \A j \in Call : \A c \in Box :
             drain'[j][c].test \in 0..MaxTests /\ drain'[j][c].count \in 0..MaxTests
<1>2. drain[k][b] \in [at: DrainPhase, test: Nat, count: Nat]
  BY DEF Typed
<1>3. PICK d : d = [drain[k][b] EXCEPT !.at = p]
  OBVIOUS
<1>4. d.test = drain[k][b].test /\ d.count = drain[k][b].count
      /\ d \in [at: DrainPhase, test: Nat, count: Nat]
  BY <1>2, <1>3
<1>5. SetDrain(k, b, d)
  BY <1>3 DEF GoTo, SetDrain
<1>6. /\ drain'[k][b] = d
      /\ \A c \in Box \ {b} : drain'[k][c] = drain[k][c]
      /\ \A j \in Call \ {k} : drain'[j] = drain[j]
  <2>1. d \in Slot
    BY <1>4 DEF Slot
  <2>2. Placed(k, b, d)
    BY <1>5, <2>1, DrainSet, Zenon
  <2> QED
    BY <2>2 DEF Placed
<1> QED
  BY <1>4, <1>6 DEF CountInv

LEMMA PushCounts ==
    ASSUME RunInv, RunInv', CountInv, NEW k \in Call, NEW b \in Box,
           NEW v \in RunVerdict \cup Compared, Push(k, b, v), row' = row,
           checked' = checked, clashed' = clashed, disturbed' \subseteq disturbed
    PROVE  CountInv'
<1>0. Typed /\ Typed' /\ Cases(k)' /\ MaxTests \in Nat
  BY BoundAssumption DEF RunInv, CallInv
<1>1. PICK o : o = [test |-> drain[k][b].test, verdict |-> v]
  OBVIOUS
<1>2. o \in Outcome
  BY <1>0, <1>1 DEF Typed, Outcome
<1>3. outcomes' = [outcomes EXCEPT ![k] = Append(@, o)]
  BY <1>1 DEF Push, TestOf
<1>4. /\ outcomes[k] \in Seq(Outcome) /\ outcomes'[k] = Append(outcomes[k], o)
      /\ \A j \in Call \ {k} : outcomes'[j] = outcomes[j]
  BY <1>0, <1>3 DEF Typed
<1>5. Len(outcomes'[k]) = Len(outcomes[k]) + 1
  BY <1>2, <1>4
<1>6. judged'[k] = judged[k] + 1 /\ \A j \in Call \ {k} : judged'[j] = judged[j]
  BY <1>0 DEF Push, Typed
<1>7. \A j \in Call : judged'[j] = Len(outcomes'[j])
  BY <1>4, <1>5, <1>6 DEF CountInv
<1>8. Len(outcomes'[k]) \in 0..MaxTests
  <2>1. problem'.tests \in 0..MaxTests
    BY <1>0, CaseNumber DEF Typed
  <2>2. outcomes'[k] \in Seq(Outcome)
    BY <1>0 DEF Typed
  <2>3. /\ \A i \in DOMAIN outcomes'[k] : outcomes'[k][i].test \in 1..problem'.tests
        /\ \A i, j \in DOMAIN outcomes'[k] : outcomes'[k][i].test = outcomes'[k][j].test => i = j
    BY <1>0 DEF Cases
  <2> QED
    BY <2>1, <2>2, <2>3, Few
<1>9. judged[k] + 1 \in 0..MaxTests
  BY <1>5, <1>8 DEF CountInv
<1>10. PICK d : d = [drain[k][b] EXCEPT !.at = "write", !.count = judged[k] + 1]
  OBVIOUS
<1>11. drain[k][b] \in [at: DrainPhase, test: Nat, count: Nat] /\ judged[k] + 1 \in Nat
  BY <1>0 DEF Typed
<1>12. /\ d.test = drain[k][b].test /\ d.count = judged[k] + 1
       /\ d \in [at: DrainPhase, test: Nat, count: Nat]
  BY <1>10, <1>11, Written
<1>13. SetDrain(k, b, d)
  BY <1>10 DEF Push, SetDrain
<1>14. /\ drain'[k][b] = d
       /\ \A c \in Box \ {b} : drain'[k][c] = drain[k][c]
       /\ \A j \in Call \ {k} : drain'[j] = drain[j]
  <2>1. d \in Slot
    BY <1>12 DEF Slot
  <2>2. Placed(k, b, d)
    BY <1>0, <1>13, <2>1, DrainSet, Zenon
  <2> QED
    BY <2>2 DEF Placed
<1>15. \A j \in Call : \A c \in Box :
         drain'[j][c].test \in 0..MaxTests /\ drain'[j][c].count \in 0..MaxTests
  BY <1>9, <1>12, <1>14 DEF CountInv
<1> QED
  BY <1>7, <1>15 DEF CountInv

LEMMA DrainCounts ==
    ASSUME RunInv, RunInv', CountInv, NEW k \in Call, NEW b \in Box, DrainStep(k, b)
    PROVE  CountInv'
<1>0. Typed /\ Cases(k) /\ MaxTests \in Nat /\ problem.tests \in 0..MaxTests /\ k \in Call
  BY BoundAssumption, CaseNumber DEF RunInv, CallInv, Typed
\* The steps that only send the drain elsewhere.
<1>1. ASSUME NEW p \in DrainPhase, GoTo(k, b, p), row' \in Row, disturbed' \subseteq disturbed,
             checked' \in [Call -> 0..MaxTests], clashed' \subseteq Call,
             judged' = judged, outcomes' = outcomes
      PROVE  CountInv'
  <2>1. \A j \in Call : \A c \in Box :
          drain'[j][c].test \in 0..MaxTests /\ drain'[j][c].count \in 0..MaxTests
    BY <1>0, <1>1, GoesCounts
  <2> QED
    BY <1>1, <2>1 DEF CountInv
<1>2. CASE DrainEnds(k, b)
  BY <1>1, <1>2 DEF DrainEnds, DrainPhase, CountInv
<1>3. CASE StartRun(k, b)
  <2>1. PICK d : d = [at |-> "run", test |-> next[k], count |-> 0]
    OBVIOUS
  <2>2. next[k] \in 0..MaxTests /\ next[k] \in Nat
    BY <1>0, <1>3 DEF StartRun, Typed
  <2>3. d.test = next[k] /\ d.count = 0 /\ d \in [at: DrainPhase, test: Nat, count: Nat]
    BY <2>1, <2>2 DEF DrainPhase
  <2>4. SetDrain(k, b, d)
    BY <1>3, <2>1 DEF StartRun, SetDrain, NextTest
  <2>5. /\ drain'[k][b] = d
        /\ \A c \in Box \ {b} : drain'[k][c] = drain[k][c]
        /\ \A j \in Call \ {k} : drain'[j] = drain[j]
    <3>1. d \in Slot
      BY <2>3 DEF Slot
    <3>2. Placed(k, b, d)
      BY <1>0, <2>4, <3>1, DrainSet, Zenon
    <3> QED
      BY <3>2 DEF Placed
  <2>6. \A j \in Call : \A c \in Box :
          drain'[j][c].test \in 0..MaxTests /\ drain'[j][c].count \in 0..MaxTests
    <3>1. drain'[k][b].test \in 0..MaxTests /\ drain'[k][b].count \in 0..MaxTests
      BY <1>0, <2>2, <2>3, <2>5
    <3>2. \A j \in Call : \A c \in Box :
            drain[j][c].test \in 0..MaxTests /\ drain[j][c].count \in 0..MaxTests
      BY DEF CountInv
    <3> QED
      BY <2>5, <3>1, <3>2, Zenon
  <2>7. disturbed' \subseteq Call \X Box
    BY <1>0, <1>3 DEF StartRun, Sharing, CountInv
  <2> QED
    BY <1>3, <2>6, <2>7 DEF StartRun, CountInv
<1>4. CASE EndRun(k, b)
  <2>1. Busy(k, b)
    BY <1>4 DEF EndRun, Running, Busy
  <2>2. SeenVerdicts(k, b) \subseteq RunVerdict
    BY <1>0, <2>1, ProblemFacts DEF Typed, Cases, SeenVerdicts
  <2>3. PICK v \in SeenVerdicts(k, b) : Push(k, b, v)
    BY <1>4 DEF EndRun
  <2> QED
    BY <1>4, <2>2, <2>3, PushCounts DEF EndRun
<1>5. CASE GiveToChecker(k, b)
  <2>1. checked' \in [Call -> 0..MaxTests]
    BY <1>5 DEF GiveToChecker, FilesGiven, CountInv
  <2> QED
    BY <1>1, <1>5, <2>1 DEF GiveToChecker, DrainPhase, CountInv, closure
<1>6. CASE EndCheck(k, b)
  <2>1. PICK v \in Compared : Push(k, b, v)
    BY <1>6 DEF EndCheck
  <2> QED
    BY <1>6, <2>1, PushCounts DEF EndCheck
<1>7. CASE Throw(k, b)
  BY <1>1, <1>7 DEF Throw, DrainPhase, CountInv, closure
<1>8. CASE WriteProgress(k, b)
  <2>1. PICK p \in {"pick", "done"} : GoTo(k, b, p)
    BY <1>8 DEF WriteProgress
  <2>2. PICK x \in Row : x = row
    BY DEF CountInv
  <2>3. PICK n \in 0..MaxTests : n = drain[k][b].count
    BY DEF CountInv
  <2>4. row' = row \/ row' = [row EXCEPT !.judgedCount = drain[k][b].count]
    BY <1>8, Zenon DEF WriteProgress
  <2>5. row' = x \/ row' = [x EXCEPT !.judgedCount = n]
    BY <2>2, <2>3, <2>4
  <2>6. [x EXCEPT !.judgedCount = n] \in Row
    BY RowChanged, Zenon
  <2>7. row' \in Row
    BY <2>5, <2>6, Zenon
  <2> QED
    BY <1>1, <1>8, <2>1, <2>7 DEF WriteProgress, DrainPhase, CountInv
<1> QED
  BY <1>2, <1>3, <1>4, <1>5, <1>6, <1>7, <1>8 DEF DrainStep

LEMMA NextCounts == RunInv /\ RunInv' /\ CountInv /\ [Next]_vars => CountInv'
<1> SUFFICES ASSUME RunInv, RunInv', CountInv, [Next]_vars PROVE CountInv'
  OBVIOUS
<1>1. CASE UNCHANGED vars
  BY <1>1 DEF vars, closure, CountInv
<1> QED
  BY <1>1, CallCounts, DrainCounts DEF Next

LEMMA TypesOfInv == RunInv /\ CountInv => TypeOK
<1> SUFFICES ASSUME RunInv, CountInv PROVE TypeOK
  OBVIOUS
<1>0. Typed /\ MaxTests \in Nat /\ problem.tests \in 0..MaxTests
  BY BoundAssumption, CaseNumber DEF RunInv, Typed
<1>1. judged \in [Call -> 0..MaxTests]
  <2>1. \A k \in Call : judged[k] \in 0..MaxTests
    BY <1>0, NotMoreThanCases DEF RunInv, CallInv, CountInv
  <2> QED
    BY <1>0, <2>1 DEF Typed
<1>2. \A k \in Call :
        ToSet(outcomes[k]) \subseteq [test: Test, verdict: RunVerdict \cup Compared]
  <2> SUFFICES ASSUME NEW k \in Call, NEW i \in DOMAIN outcomes[k]
               PROVE  outcomes[k][i] \in [test: Test, verdict: RunVerdict \cup Compared]
    BY DEF ToSet
  <2>1. outcomes[k][i] \in Outcome
    BY <1>0 DEF Typed
  <2>2. outcomes[k][i].test \in 1..problem.tests
    BY DEF RunInv, CallInv, Cases
  <2>3. outcomes[k][i].test \in Test
    BY <1>0, <2>2 DEF Test
  <2> QED
    BY <2>1, <2>3 DEF Outcome
<1>3. drain \in [Call -> [Box -> [at: DrainPhase, test: 0..MaxTests, count: 0..MaxTests]]]
  <2>1. ASSUME NEW k \in Call, NEW b \in Box
        PROVE  drain[k][b] \in [at: DrainPhase, test: 0..MaxTests, count: 0..MaxTests]
    <3>1. drain[k][b] \in [at: DrainPhase, test: Nat, count: Nat]
      BY <1>0 DEF Typed
    <3> QED
      BY <3>1 DEF CountInv
  <2> QED
    BY <1>0, <2>1 DEF Typed
<1> QED
  BY <1>0, <1>1, <1>2, <1>3 DEF Typed, CountInv, TypeOK, Row

\* For any number of cases, calls, boxes and drains, those of a failed call that go on among
\* them: no case is judged or counted beyond those of the problem, every verdict is one of the
\* table, the score is a number and the failing case one of the cases.
THEOREM RunTypes == Spec => []TypeOK
<1>1. Init => RunInv /\ CountInv
  BY InitRun, InitCounts
<1>2. RunInv /\ CountInv /\ [Next]_vars => (RunInv /\ CountInv)'
  BY NextRun, NextCounts
<1> QED
  BY <1>1, <1>2, TypesOfInv, PTL DEF Spec

-----------------------------------------------------------------------------
(* Calls that no other one disturbs *)

\* The calls come one after the other, each after the failure of the one before.
Order == \A j, k \in Call : j < k /\ pc[k] # "idle" => pc[j] = "failed"

\* A call that goes on or has ended, and began while no drain was at work.
Open(k) == k \notin clashed /\ pc[k] \in {"compiling", "running", "closing", "judged"}

Lone(k) == \A c \in Call \ {k} : ~AtWork(c)

\* No other program is in its boxes, its checker box has the files of the one case that
\* is checked, and its outcomes are what the program deserves.
Right(k) ==
    /\ \A b \in Box : <<k, b>> \notin disturbed
    /\ \A a, b \in Box : drain[k][a].at = "check" /\ drain[k][b].at = "check" => a = b
    /\ \A b \in Box : drain[k][b].at = "check" =>
         checked[k] = drain[k][b].test /\ problem.deserved[checked[k]] \in Compared
    /\ \A i \in DOMAIN outcomes[k] :
         outcomes[k][i].verdict = problem.deserved[outcomes[k][i].test]

Begun(k) == pc[k] = "compiling" \/ \E b \in Box : drain[k][b].at # "none"

OpenInv ==
    /\ Order
    /\ \A k \in Call : \A b \in Box : <<k, b>> \in disturbed => drain[k][b].at = "run"
    /\ \A k \in Call : Begun(k) => problem.tests > 0
    /\ \A k \in Call : Open(k) => Lone(k) /\ Right(k)

LEMMA InitOpen == Init => OpenInv
<1> SUFFICES ASSUME Init PROVE OpenInv
  OBVIOUS
<1>1. \A k \in Call : pc[k] = "idle" /\ \A b \in Box : drain[k][b].at = "none"
  BY DEF Init, Resting
<1>2. disturbed = {}
  BY DEF Init
<1> QED
  BY <1>1, <1>2 DEF OpenInv, Order, Open, Begun

\* When a call takes a step, those before it have failed and those after it have not begun.
LEMMA OneGoesOn ==
    ASSUME Typed, Order, NEW k \in Call, CallStep(k)
    PROVE  /\ \A j \in Call : j < k => pc[j] = "failed"
           /\ \A j \in Call : j > k => pc[j] = "idle"
           /\ pc[k] \notin {"failed", "judged"}
           /\ \A j \in Call \ {k} : pc'[j] = pc[j] /\ pc[j] \in {"idle", "failed"}
<1>1. \A j \in Call : j \in Nat
  BY DEF Call
<1>2. \/ Claimed(k)
      \/ pc[k] \in {"compiling", "running", "closing", "throwing"}
  BY DEF CallStep, Judge, JudgeWithoutTests, JudgeThrows, CompileOk, CompileError,
         CompileThrows, Finalize, FinalizeFails, Reject, End, ReleaseBox
<1>3. pc[k] \notin {"failed", "judged"}
  BY <1>2 DEF Claimed
<1>4. \A j \in Call : j > k => pc[j] = "idle"
  BY <1>1, <1>3 DEF Order
<1>5. ASSUME NEW j \in Call, j < k PROVE pc[j] = "failed"
  <2>1. CASE pc[k] # "idle"
    BY <1>5, <2>1 DEF Order
  <2>2. CASE pc[k] = "idle"
    <3>1. k - 1 \in Call /\ k > 1 /\ (j = k - 1 \/ j < k - 1)
      BY <1>5, BoundAssumption DEF Call
    <3>2. pc[k - 1] = "failed"
      BY <1>2, <2>2, <3>1 DEF Claimed
    <3> QED
      BY <3>1, <3>2 DEF Order
  <2> QED
    BY <2>1, <2>2
<1>6. \A j \in Call \ {k} : pc'[j] = pc[j]
  BY DEF CallStep, Judge, JudgeWithoutTests, JudgeThrows, CompileOk, CompileError,
         CompileThrows, Finalize, FinalizeFails, Reject, End, ReleaseBox, Close, Typed
<1>7. \A j \in Call \ {k} : j < k \/ j > k
  BY <1>1
<1> QED
  BY <1>3, <1>4, <1>5, <1>6, <1>7

\* What the steps of a call leave alone.
LEMMA CallLeaves ==
    ASSUME NEW k \in Call, CallStep(k)
    PROVE  /\ UNCHANGED <<problem, outcomes, disturbed, checked>>
           /\ drain' = drain \/ CompileOk(k)
           /\ clashed' = clashed \/ Judge(k)
           /\ clashed \subseteq clashed'
BY DEF CallStep, Judge, JudgeWithoutTests, JudgeThrows, CompileOk, CompileError,
       CompileThrows, Finalize, FinalizeFails, Reject, End, ReleaseBox, closure

LEMMA CallOpen ==
    ASSUME RunInv, OpenInv, NEW k \in Call, CallStep(k)
    PROVE  OpenInv'
<1>0. Typed /\ Order /\ Drains(k)
  BY DEF RunInv, CallInv, OpenInv
<1>1. /\ \A j \in Call : j < k => pc[j] = "failed"
      /\ \A j \in Call : j > k => pc[j] = "idle"
      /\ pc[k] \notin {"failed", "judged"}
      /\ \A j \in Call \ {k} : pc'[j] = pc[j] /\ pc[j] \in {"idle", "failed"}
  BY <1>0, OneGoesOn
<1>2. /\ UNCHANGED <<problem, outcomes, disturbed, checked>>
      /\ drain' = drain \/ CompileOk(k)
      /\ clashed' = clashed \/ Judge(k)
      /\ clashed \subseteq clashed'
  BY CallLeaves
<1>3. Order'
  <2> SUFFICES ASSUME NEW i \in Call, NEW j \in Call, i < j, pc'[j] # "idle"
               PROVE  pc'[i] = "failed"
    BY DEF Order
  <2>1. j = k \/ j < k \/ j > k
    BY DEF Call
  <2>2. CASE j = k
    <3>1. i # k
      BY <2>2 DEF Call
    <3> QED
      BY <1>1, <2>2, <3>1
  <2>3. CASE j < k
    <3>1. i < k /\ i # k
      BY <2>3 DEF Call
    <3> QED
      BY <1>1, <3>1
  <2>4. CASE j > k
    <3>1. j # k
      BY <2>4 DEF Call
    <3> QED
      BY <1>1, <2>4, <3>1
  <2> QED
    BY <2>1, <2>2, <2>3, <2>4
\* Only when it has compiled does a call change its drains, which are at rest.
<1>4. CompileOk(k) => /\ \A b \in Box : drain[k][b].at = "none"
                      /\ \A b \in Box : drain'[k][b].at \in {"none", "pick"}
                      /\ \A j \in Call \ {k} : drain'[j] = drain[j]
                      /\ pc[k] = "compiling" /\ outcomes[k] = <<>>
  <2> SUFFICES ASSUME CompileOk(k)
               PROVE  /\ \A b \in Box : drain[k][b].at = "none"
                      /\ \A b \in Box : drain'[k][b].at \in {"none", "pick"}
                      /\ \A j \in Call \ {k} : drain'[j] = drain[j]
                      /\ pc[k] = "compiling" /\ outcomes[k] = <<>>
    OBVIOUS
  <2>1. pc[k] = "compiling"
    BY DEF CompileOk
  <2>2. /\ drain'[k] = [b \in Box |-> IF lent[b] = k THEN [Resting EXCEPT !.at = "pick"]
                                      ELSE Resting]
        /\ \A j \in Call \ {k} : drain'[j] = drain[j]
    BY <1>0 DEF CompileOk, Typed
  <2>3. \A b \in Box : drain'[k][b].at = IF lent[b] = k THEN "pick" ELSE "none"
    BY <2>2 DEF Resting
  <2> QED
    BY <1>0, <2>1, <2>2, <2>3 DEF Drains
<1>5. \A j \in Call : \A b \in Box : <<j, b>> \in disturbed' => drain'[j][b].at = "run"
  BY <1>2, <1>4 DEF OpenInv
<1>6. Begun(k)' => problem.tests > 0
  <2>1. CASE Judge(k)
    BY <2>1 DEF Judge
  <2>2. CASE ~Judge(k)
    <3>1. pc'[k] # "compiling" \/ pc[k] = "compiling"
      BY <1>0, <2>2 DEF CallStep, JudgeWithoutTests, JudgeThrows, CompileOk, CompileError,
         CompileThrows, Finalize, FinalizeFails, Reject, End, ReleaseBox, Close, Typed
    <3>2. Begun(k)' => Begun(k)
      BY <1>2, <1>4, <3>1 DEF Begun
    <3> QED
      BY <3>2 DEF OpenInv
  <2> QED
    BY <2>1, <2>2
<1>7. \A j \in Call \ {k} : Begun(j)' => Begun(j)
  BY <1>1, <1>2, <1>4 DEF Begun
<1>8. ASSUME Open(k)' PROVE Lone(k)' /\ Right(k)'
  <2>1. CASE pc[k] = "idle"
    <3>1. (\A b \in Box : drain[k][b].at = "none") /\ outcomes[k] = <<>> /\ drain' = drain
      BY <1>0, <1>2, <2>1 DEF Drains, CompileOk
    <3>2. Right(k)'
      BY <1>2, <3>1 DEF Right, OpenInv
    <3>3. \A c \in Call : ~AtWork(c)
      <4>1. CASE Judge(k)
        BY <1>8, <4>1 DEF Judge, Open
      <4>2. CASE problem.tests = 0
        BY <4>2 DEF OpenInv, Begun, AtWork
      <4>3. Judge(k) \/ problem.tests = 0
        BY <1>0, <1>8, <2>1 DEF Open, CallStep, JudgeWithoutTests, JudgeThrows, CompileOk,
           CompileError, CompileThrows, Finalize, FinalizeFails, Reject, End, ReleaseBox, Typed
      <4> QED
        BY <4>1, <4>2, <4>3
    <3>4. Lone(k)'
      BY <3>1, <3>3 DEF Lone, AtWork
    <3> QED
      BY <3>2, <3>4
  <2>2. CASE pc[k] # "idle"
    <3>1. pc'[k] = pc[k] \/ pc[k] \in {"compiling", "running", "closing"} \/ pc'[k] = "failed"
      BY <1>0, <2>2 DEF CallStep, Judge, Claimed, JudgeWithoutTests, JudgeThrows, CompileOk,
         CompileError, CompileThrows, Finalize, FinalizeFails, Reject, End, ReleaseBox, Typed
    <3>2. Open(k)
      BY <1>2, <1>8, <3>1 DEF Open
    <3>3. Lone(k) /\ Right(k)
      BY <3>2 DEF OpenInv
    <3>4. Lone(k)'
      BY <1>2, <1>4, <3>3 DEF Lone, AtWork
    <3>5. Right(k)'
      BY <1>2, <1>4, <3>3 DEF Right
    <3> QED
      BY <3>4, <3>5
  <2> QED
    BY <2>1, <2>2
<1>9. \A j \in Call \ {k} : ~Open(j)'
  BY <1>1 DEF Open
<1>10. \A j \in Call : Begun(j)' => problem'.tests > 0
  BY <1>2, <1>6, <1>7 DEF OpenInv
<1> QED
  BY <1>3, <1>5, <1>8, <1>9, <1>10 DEF OpenInv

\* A drain that moves leaves the other open calls as they are: there are none.
LEMMA DrainKeepsOpen ==
    ASSUME Typed, OpenInv, NEW k \in Call, NEW b \in Box, Moving(k, b),
           pc' = pc, problem' = problem, clashed \subseteq clashed',
           \A c \in Box \ {b} : drain'[k][c] = drain[k][c],
           \A j \in Call \ {k} : drain'[j] = drain[j],
           \A j \in Call : \A c \in Box : <<j, c>> \in disturbed' => drain'[j][c].at = "run",
           Open(k)' => Right(k)'
    PROVE  OpenInv'
<1>1. Order'
  BY DEF Order, OpenInv
<1>2. \A j \in Call : Begun(j)' => Begun(j)
  BY DEF Begun, Moving
<1>3. \A j \in Call : Open(j)' => Open(j)
  BY DEF Open
<1>4. AtWork(k)
  BY DEF AtWork, Moving
<1>5. \A j \in Call \ {k} : ~Open(j)
  BY <1>4 DEF OpenInv, Lone
<1>6. Open(k)' => Lone(k)'
  <2>1. \A j \in Call \ {k} : AtWork(j)' <=> AtWork(j)
    BY DEF AtWork
  <2> QED
    BY <1>3, <2>1 DEF OpenInv, Lone
<1> QED
  BY <1>1, <1>2, <1>3, <1>5, <1>6 DEF OpenInv

\* The outcome of a case with the verdict it deserves.
LEMMA PushOpen ==
    ASSUME RunInv, OpenInv, NEW k \in Call, NEW b \in Box, NEW v \in RunVerdict \cup Compared,
           drain[k][b].at \in {"run", "check"}, Push(k, b, v),
           UNCHANGED <<problem, pc, checked, clashed>>, disturbed' = disturbed \ {<<k, b>>},
           Open(k) => v = problem.deserved[drain[k][b].test]
    PROVE  OpenInv'
<1>0. Typed
  BY DEF RunInv
<1>1. PICK o : o = [test |-> drain[k][b].test, verdict |-> v]
  OBVIOUS
<1>2. o \in Outcome /\ o.test = drain[k][b].test /\ o.verdict = v
  BY <1>0, <1>1 DEF Typed, Outcome
<1>3. outcomes' = [outcomes EXCEPT ![k] = Append(@, o)]
  BY <1>1 DEF Push, TestOf
<1>4. outcomes[k] \in Seq(Outcome) /\ outcomes'[k] = Append(outcomes[k], o)
  BY <1>0, <1>3 DEF Typed
<1>5. PICK d : d = [drain[k][b] EXCEPT !.at = "write", !.count = judged[k] + 1]
  OBVIOUS
<1>6. drain[k][b] \in [at: DrainPhase, test: Nat, count: Nat] /\ judged[k] + 1 \in Nat
  BY <1>0 DEF Typed
<1>7. d.at = "write" /\ d \in [at: DrainPhase, test: Nat, count: Nat]
  BY <1>5, <1>6, Written
<1>8. SetDrain(k, b, d)
  BY <1>5 DEF Push, SetDrain
<1>9. /\ drain'[k][b] = d
      /\ \A c \in Box \ {b} : drain'[k][c] = drain[k][c]
      /\ \A j \in Call \ {k} : drain'[j] = drain[j]
  <2>1. d \in Slot
    BY <1>7 DEF Slot
  <2>2. Placed(k, b, d)
    BY <1>0, <1>8, <2>1, DrainSet, Zenon
  <2> QED
    BY <2>2 DEF Placed
<1>10. Moving(k, b)
  BY DEF Moving
<1>11. \A j \in Call : \A c \in Box : <<j, c>> \in disturbed' => drain'[j][c].at = "run"
  BY <1>9 DEF OpenInv
<1>12. ASSUME Open(k)' PROVE Right(k)'
  <2>1. Open(k)
    BY <1>12 DEF Open
  <2>2. Right(k) /\ v = problem.deserved[drain[k][b].test]
    BY <2>1 DEF OpenInv
  <2>3. \A i \in DOMAIN outcomes'[k] :
          outcomes'[k][i].verdict = problem.deserved[outcomes'[k][i].test]
    BY <1>2, <1>4, <2>2, Appended DEF Right
  <2>4. drain'[k][b].at = "write"
    BY <1>7, <1>9
  <2> QED
    BY <1>9, <2>2, <2>3, <2>4 DEF Right
<1> QED
  BY <1>0, <1>9, <1>10, <1>11, <1>12, DrainKeepsOpen

\* A drain that goes elsewhere, but not to the checker.
LEMMA GoesOpen ==
    ASSUME Typed, OpenInv, NEW k \in Call, NEW b \in Box, Moving(k, b),
           NEW p \in {"pick", "done", "threw"}, GoTo(k, b, p),
           UNCHANGED <<problem, pc, outcomes, checked, clashed>>,
           disturbed' = disturbed \ {<<k, b>>}
    PROVE  OpenInv'
<1>1. /\ drain'[k][b].at = p
      /\ \A c \in Box \ {b} : drain'[k][c] = drain[k][c]
      /\ \A j \in Call \ {k} : drain'[j] = drain[j]
  BY DrainGoes DEF DrainPhase
<1>2. \A j \in Call : \A c \in Box : <<j, c>> \in disturbed' => drain'[j][c].at = "run"
  BY <1>1 DEF OpenInv
<1>3. Open(k)' => Right(k)'
  <2>1. Open(k)' => Right(k)
    BY DEF Open, OpenInv
  <2>2. p # "check"
    OBVIOUS
  <2> QED
    BY <1>1, <2>1, <2>2 DEF Right
<1> QED
  BY <1>1, <1>2, <1>3, DrainKeepsOpen

LEMMA DrainOpen ==
    ASSUME RunInv, OpenInv, NEW k \in Call, NEW b \in Box, DrainStep(k, b)
    PROVE  OpenInv'
<1>0. Typed /\ Cases(k)
  BY DEF RunInv, CallInv
\* Outside a run nothing is disturbed.
<1>a. drain[k][b].at # "run" => disturbed = disturbed \ {<<k, b>>}
  BY DEF OpenInv
<1>1. CASE DrainEnds(k, b)
  BY <1>0, <1>a, <1>1, GoesOpen DEF DrainEnds, Moving
<1>2. CASE StartRun(k, b)
  <2>1. PICK d : d = [at |-> "run", test |-> next[k], count |-> 0]
    OBVIOUS
  <2>2. d.at = "run" /\ d \in Slot
    <3>1. next[k] \in Nat
      BY <1>0 DEF Typed
    <3>2. d \in [at: DrainPhase, test: Nat, count: Nat]
      BY <2>1, <3>1 DEF DrainPhase
    <3> QED
      BY <2>1, <3>2 DEF Slot
  <2>3. SetDrain(k, b, d)
    BY <1>2, <2>1 DEF StartRun, SetDrain, NextTest
  <2>4. /\ drain'[k][b] = d
        /\ \A c \in Box \ {b} : drain'[k][c] = drain[k][c]
        /\ \A j \in Call \ {k} : drain'[j] = drain[j]
    <3>1. Placed(k, b, d)
      BY <1>0, <2>2, <2>3, DrainSet, Zenon
    <3> QED
      BY <3>1 DEF Placed
  <2>5. /\ UNCHANGED <<problem, pc, outcomes, checked, clashed>>
        /\ drain[k][b].at = "pick" /\ Moving(k, b)
        /\ disturbed' = IF Sharing(b) = {} THEN disturbed
                        ELSE disturbed \cup Sharing(b) \cup {<<k, b>>}
    BY <1>2 DEF StartRun, Moving
  <2>6. \A j \in Call : \A c \in Box : <<j, c>> \in disturbed' => drain'[j][c].at = "run"
    <3> SUFFICES ASSUME NEW j \in Call, NEW c \in Box, <<j, c>> \in disturbed'
                 PROVE  drain'[j][c].at = "run"
      OBVIOUS
    <3>1. CASE <<j, c>> \in disturbed
      BY <2>4, <2>5, <3>1 DEF OpenInv
    <3>2. CASE <<j, c>> \in Sharing(b)
      BY <2>4, <2>5, <3>2 DEF Sharing, Running
    <3>3. CASE <<j, c>> = <<k, b>>
      BY <2>2, <2>4, <3>3
    <3> QED
      BY <2>5, <3>1, <3>2, <3>3
  <2>7. ASSUME Open(k)' PROVE Right(k)'
    <3>1. Open(k)
      BY <2>5, <2>7 DEF Open
    <3>2. Lone(k) /\ Right(k)
      BY <3>1 DEF OpenInv
    <3>3. \A c \in Call : ~Running(c, b)
      BY <2>5, <3>2 DEF Lone, AtWork, Running
    <3>4. disturbed' = disturbed
      BY <2>5, <3>3 DEF Sharing
    <3> QED
      BY <2>2, <2>4, <2>5, <3>2, <3>4 DEF Right
  <2> QED
    BY <1>0, <2>4, <2>5, <2>6, <2>7, DrainKeepsOpen
<1>3. CASE EndRun(k, b)
  <2>1. Busy(k, b) /\ drain[k][b].at = "run"
    BY <1>3 DEF EndRun, Running, Busy
  <2>2. SeenVerdicts(k, b) \subseteq RunVerdict
    BY <1>0, <2>1, ProblemFacts DEF Typed, Cases, SeenVerdicts
  <2>3. PICK v \in SeenVerdicts(k, b) : Push(k, b, v)
    BY <1>3 DEF EndRun
  <2>4. Open(k) => v = problem.deserved[drain[k][b].test]
    BY <2>3 DEF OpenInv, Right, SeenVerdicts
  <2> QED
    BY <1>3, <2>1, <2>2, <2>3, <2>4, PushOpen DEF EndRun
<1>4. CASE GiveToChecker(k, b)
  <2>1. /\ UNCHANGED <<problem, pc, outcomes>> /\ clashed \subseteq clashed'
        /\ drain[k][b].at = "run" /\ Moving(k, b)
        /\ disturbed' = disturbed \ {<<k, b>>}
        /\ checked' = [checked EXCEPT ![k] = drain[k][b].test]
        /\ SeenVerdicts(k, b) \cap Compared # {}
        /\ GoTo(k, b, "check")
        /\ clashed' = IF \E a \in Box \ {b} : drain[k][a].at = "check"
                      THEN clashed \cup {k} ELSE clashed
    BY <1>4 DEF GiveToChecker, Running, Moving, FilesGiven, closure
  <2>2. /\ drain'[k][b].at = "check" /\ drain'[k][b].test = drain[k][b].test
        /\ \A c \in Box \ {b} : drain'[k][c] = drain[k][c]
        /\ \A j \in Call \ {k} : drain'[j] = drain[j]
    BY <1>0, <2>1, DrainGoes DEF DrainPhase
  <2>3. \A j \in Call : \A c \in Box : <<j, c>> \in disturbed' => drain'[j][c].at = "run"
    BY <2>1, <2>2 DEF OpenInv
  <2>4. ASSUME Open(k)' PROVE Right(k)'
    <3>1. Open(k) /\ \A a \in Box \ {b} : drain[k][a].at # "check"
      BY <2>1, <2>4 DEF Open
    <3>2. Right(k)
      BY <3>1 DEF OpenInv
    <3>3. problem.deserved[drain[k][b].test] \in Compared
      BY <2>1, <3>2 DEF Right, SeenVerdicts
    <3>4. checked'[k] = drain[k][b].test
      BY <1>0, <2>1 DEF Typed
    <3> QED
      BY <2>1, <2>2, <3>1, <3>2, <3>3, <3>4 DEF Right
  <2> QED
    BY <1>0, <2>1, <2>2, <2>3, <2>4, DrainKeepsOpen
<1>5. CASE EndCheck(k, b)
  <2>1. PICK v \in Compared :
          /\ problem.deserved[checked[k]] \in Compared => v = problem.deserved[checked[k]]
          /\ Push(k, b, v)
    BY <1>5 DEF EndCheck
  <2>2. drain[k][b].at = "check"
    BY <1>5 DEF EndCheck
  <2>3. Open(k) => v = problem.deserved[drain[k][b].test]
    BY <2>1, <2>2 DEF OpenInv, Right
  <2>4. UNCHANGED <<problem, pc, checked, clashed>> /\ disturbed' = disturbed \ {<<k, b>>}
    BY <1>a, <1>5, <2>2 DEF EndCheck
  <2>5. v \in RunVerdict \cup Compared /\ drain[k][b].at \in {"run", "check"}
    BY <2>2
  <2> QED
    BY <2>1, <2>3, <2>4, <2>5, PushOpen
<1>6. CASE Throw(k, b)
  BY <1>0, <1>6, GoesOpen DEF Throw, Moving, closure
<1>7. CASE WriteProgress(k, b)
  <2>1. PICK p \in {"pick", "done"} : GoTo(k, b, p)
    BY <1>7 DEF WriteProgress
  <2> QED
    BY <1>0, <1>a, <1>7, <2>1, GoesOpen DEF WriteProgress, Moving
<1> QED
  BY <1>1, <1>2, <1>3, <1>4, <1>5, <1>6, <1>7 DEF DrainStep

LEMMA NextOpen == RunInv /\ OpenInv /\ [Next]_vars => OpenInv'
<1> SUFFICES ASSUME RunInv, OpenInv, [Next]_vars PROVE OpenInv'
  OBVIOUS
<1>1. CASE UNCHANGED vars
  BY <1>1 DEF vars, closure, OpenInv, Order, Open, Lone, Right, Begun, AtWork
<1> QED
  BY <1>1, CallOpen, DrainOpen DEF Next

-----------------------------------------------------------------------------
(* What the row says of a finished call *)

Reports(k) ==
    LET O == ToSet(outcomes[k])
    IN  /\ row.failedIdx = FailedIdx(outcomes[k])
        /\ row.score = Score(O)
        /\ outcomes[k] # <<>> => row.verdict = Worst({o.verdict : o \in O})
        /\ k \notin clashed => row.judgedCount = Len(outcomes[k])

Over(k) == pc[k] \in {"closing", "judged"}

\* Nobody but finalize writes "accepted".
RowInv ==
    /\ \A k \in Call : Over(k) => Reports(k)
    /\ row.verdict = "accepted" => \E k \in Call : Settled(k)

LEMMA InitRow == Init => RowInv
BY DEF Init, RowInv, Over

\* The row stays, or all but its count does where the count is not held to anything.
LEMMA RowStays ==
    ASSUME RowInv, UNCHANGED <<problem, row>>, clashed \subseteq clashed',
           \A k \in Call : Over(k)' <=> Over(k),
           \A k \in Call : Over(k) => outcomes'[k] = outcomes[k]
    PROVE  RowInv'
<1>1. ASSUME NEW k \in Call, Over(k) PROVE Reports(k)'
  <2>1. outcomes'[k] = outcomes[k]
    BY <1>1
  <2>2. /\ FailedIdx(outcomes[k])' = FailedIdx(outcomes[k])
        /\ Score(ToSet(outcomes[k]))' = Score(ToSet(outcomes[k]))
    BY <2>1 DEF FailedIdx, Failing, Score, Earned, PointsOf
  <2>3. Reports(k)
    BY <1>1 DEF RowInv
  <2> QED
    BY <2>1, <2>2, <2>3 DEF Reports
<1>2. \A k \in Call : Settled(k)' <=> Settled(k)
  BY DEF Settled, Over
<1> QED
  BY <1>1, <1>2 DEF RowInv

\* No call is over.
LEMMA RowOpen ==
    ASSUME CountInv, RowInv, \A k \in Call : ~Over(k) /\ ~Over(k)',
           \/ row' = row
           \/ \E n \in 0..MaxTests : row' = [row EXCEPT !.judgedCount = n]
           \/ \E n \in 0..MaxTests : row' = [row EXCEPT !.status = "judging", !.judgedCount = n]
           \/ 0 \in 0..MaxTests /\ row' = [row EXCEPT !.status = "queued"]
    PROVE  RowInv'
<1>1. row.verdict # "accepted"
  BY DEF RowInv, Settled, Over
<1>2. PICK x \in Row : x = row
  BY DEF CountInv
<1>3. row'.verdict = x.verdict
  <2>1. CASE row' = row
    BY <1>2, <2>1, Zenon
  <2>2. ASSUME NEW n \in 0..MaxTests, row' = [row EXCEPT !.judgedCount = n]
        PROVE  row'.verdict = x.verdict
    BY <1>2, <2>2, RowChanged, Zenon
  <2>3. ASSUME NEW n \in 0..MaxTests,
               row' = [row EXCEPT !.status = "judging", !.judgedCount = n]
        PROVE  row'.verdict = x.verdict
    BY <1>2, <2>3, RowChanged, Zenon
  <2>4. CASE 0 \in 0..MaxTests /\ row' = [row EXCEPT !.status = "queued"]
    BY <1>2, <2>4, RowChanged, Zenon
  <2> QED
    BY <2>1, <2>2, <2>3, <2>4, Zenon
<1>4. row'.verdict # "accepted"
  BY <1>1, <1>2, <1>3
<1> QED
  BY <1>4, Zenon DEF RowInv

LEMMA RowClosed ==
    ASSUME NEW k \in Call, NEW v, Close(k, v), UNCHANGED <<problem, outcomes>>,
           pc'[k] = "closing", \A j \in Call \ {k} : ~Over(j)',
           outcomes[k] # <<>> => v = Worst({o.verdict : o \in ToSet(outcomes[k])}),
           v = "accepted" => outcomes[k] # <<>>
    PROVE  RowInv'
<1>1. /\ row'.score = Score(ToSet(outcomes[k])) /\ row'.verdict = v
      /\ row'.failedIdx = FailedIdx(outcomes[k]) /\ row'.judgedCount = Len(outcomes[k])
  BY DEF Close
<1>2. /\ FailedIdx(outcomes[k])' = FailedIdx(outcomes[k])
      /\ Score(ToSet(outcomes[k]))' = Score(ToSet(outcomes[k]))
  BY DEF FailedIdx, Failing, Score, Earned, PointsOf
<1>3. Reports(k)'
  BY <1>1, <1>2 DEF Reports
<1>4. row'.verdict = "accepted" => Settled(k)'
  BY <1>1 DEF Settled
<1> QED
  BY <1>3, <1>4 DEF RowInv

LEMMA CallRow ==
    ASSUME RunInv, OpenInv, CountInv, RowInv, NEW k \in Call, CallStep(k)
    PROVE  RowInv'
<1>0. Typed /\ Order /\ Drains(k) /\ row \in Row /\ 0 \in 0..MaxTests
  BY BoundAssumption DEF RunInv, CallInv, OpenInv, CountInv
<1>1. UNCHANGED <<problem, outcomes>> /\ clashed \subseteq clashed'
  BY CallLeaves
<1>2. /\ \A j \in Call \ {k} : ~Over(j) /\ ~Over(j)'
      /\ pc \in [Call -> {"idle", "compiling", "running", "closing", "throwing",
                          "judged", "failed"}]
  <2>1. \A j \in Call \ {k} : pc'[j] = pc[j] /\ pc[j] \in {"idle", "failed"}
    BY <1>0, OneGoesOn
  <2> QED
    BY <1>0, <2>1 DEF Over, Typed
<1>3. CASE Judge(k)
  <2>1. /\ pc[k] = "idle" /\ pc'[k] = "compiling"
        /\ row' = [row EXCEPT !.status = "judging", !.judgedCount = 0]
    BY <1>2, <1>3 DEF Judge, Claimed
  <2>2. ~Over(k) /\ ~Over(k)'
    BY <2>1 DEF Over
  <2> QED
    BY <1>0, <1>2, <2>1, <2>2, RowOpen
<1>4. CASE JudgeThrows(k)
  <2>1. PICK n \in {row.judgedCount, 0} :
          row' = [row EXCEPT !.status = "judging", !.judgedCount = n]
    BY <1>4 DEF JudgeThrows
  <2>2. n \in 0..MaxTests
    BY <1>0 DEF Row
  <2>3. pc[k] = "idle" /\ pc'[k] = "throwing"
    BY <1>2, <1>4 DEF JudgeThrows, Claimed
  <2>4. ~Over(k) /\ ~Over(k)'
    BY <2>3 DEF Over
  <2> QED
    BY <1>2, <2>1, <2>2, <2>4, RowOpen
<1>5. CASE CompileOk(k) \/ CompileThrows(k) \/ FinalizeFails(k) \/ Reject(k)
  <2>1. pc[k] \in {"compiling", "running"} /\ pc'[k] \in {"running", "throwing"} /\ row' = row
    BY <1>2, <1>5 DEF CompileOk, CompileThrows, FinalizeFails, Reject
  <2>2. ~Over(k) /\ ~Over(k)'
    BY <2>1 DEF Over
  <2> QED
    BY <1>2, <2>1, <2>2, RowOpen
<1>6. CASE JudgeWithoutTests(k) \/ CompileError(k)
  <2>1. PICK v \in {"internal_error", "compile_error"} : Close(k, v)
    BY <1>6 DEF JudgeWithoutTests, CompileError
  <2>2. pc'[k] = "closing" /\ outcomes[k] = <<>>
    BY <1>0, <1>2, <1>6, <2>1 DEF Close, JudgeWithoutTests, CompileError, Claimed, Drains
  <2> QED
    BY <1>1, <1>2, <2>1, <2>2, RowClosed
<1>7. CASE Finalize(k)
  <2>1. PICK v : v = Worst({o.verdict : o \in ToSet(outcomes[k])}) /\ Close(k, v)
    BY <1>7 DEF Finalize
  <2>2. pc'[k] = "closing"
    BY <1>2, <2>1 DEF Close
  <2>3. outcomes[k] = <<>> => v = "internal_error"
    <3>1. outcomes[k] = <<>> => {o.verdict : o \in ToSet(outcomes[k])} = {}
      BY DEF ToSet
    <3> QED
      BY <2>1, <3>1 DEF Worst
  <2> QED
    BY <1>1, <1>2, <2>1, <2>2, <2>3, RowClosed
<1>8. CASE End(k)
  <2>1. CASE pc[k] = "closing"
    <3>1. row' = row /\ pc'[k] = "judged"
      BY <1>2, <1>8, <2>1 DEF End
    <3>2. Over(k) /\ Over(k)'
      BY <2>1, <3>1 DEF Over
    <3> QED
      BY <1>1, <1>2, <3>1, <3>2, RowStays
  <2>2. CASE pc[k] # "closing"
    <3>1. /\ pc[k] = "throwing" /\ pc'[k] = "failed"
          /\ row' = [row EXCEPT !.status = "queued"]
      BY <1>2, <1>8, <2>2 DEF End
    <3>2. ~Over(k) /\ ~Over(k)'
      BY <3>1 DEF Over
    <3> QED
      BY <1>0, <1>2, <3>1, <3>2, RowOpen
  <2> QED
    BY <2>1, <2>2
<1>9. ASSUME NEW b \in Box, ReleaseBox(k, b) PROVE RowInv'
  <2>1. pc' = pc /\ row' = row
    BY <1>9 DEF ReleaseBox
  <2>2. \A j \in Call : Over(j)' <=> Over(j)
    BY <2>1 DEF Over
  <2> QED
    BY <1>1, <2>1, <2>2, RowStays
<1> QED
  BY <1>3, <1>4, <1>5, <1>6, <1>7, <1>8, <1>9, Zenon DEF CallStep

\* A drain that is at work belongs to no finished call; where an earlier call's is, the
\* finished call is among the clashed.
LEMMA DrainRow ==
    ASSUME RunInv, OpenInv, CountInv, RowInv, NEW k \in Call, NEW b \in Box, DrainStep(k, b)
    PROVE  RowInv'
<1>1. /\ drain[k][b].at \in {"pick", "run", "check", "write"}
      /\ UNCHANGED <<problem, pc>> /\ clashed \subseteq clashed'
  BY DEF DrainStep, DrainEnds, StartRun, EndRun, GiveToChecker, EndCheck, Throw, WriteProgress,
         Running
<1>2. ~Over(k) /\ \A j \in Call : Over(j)' <=> Over(j)
  BY <1>1 DEF RunInv, CallInv, Drains, Over
<1>3. \A j \in Call \ {k} : outcomes'[j] = outcomes[j]
  <2>1. \/ outcomes' = outcomes
        \/ \E v \in RunVerdict \cup Compared \cup SeenVerdicts(k, b) : Push(k, b, v)
    BY DEF DrainStep, DrainEnds, StartRun, EndRun, GiveToChecker, EndCheck, Throw, WriteProgress,
           closure
  <2> QED
    BY <2>1 DEF Push, RunInv, Typed
<1>4. CASE row' = row
  BY <1>1, <1>2, <1>3, <1>4, RowStays
<1>5. CASE WriteProgress(k, b) /\ row' # row
  <2>1. PICK n \in 0..MaxTests : n = drain[k][b].count
    BY DEF CountInv
  <2>2. row' = [row EXCEPT !.judgedCount = n]
    BY <1>5, <2>1 DEF WriteProgress
  <2>3. PICK x \in Row : x = row
    BY DEF CountInv
  <2>4. row' = [x EXCEPT !.judgedCount = n]
    BY <2>2, <2>3
  <2>5. /\ row'.verdict = row.verdict /\ row'.score = row.score
        /\ row'.failedIdx = row.failedIdx
    BY <2>3, <2>4 DEF Row
  <2>6. UNCHANGED <<outcomes, clashed>>
    BY <1>5 DEF WriteProgress
  <2>7. ASSUME NEW j \in Call, Over(j) PROVE Reports(j)'
    <3>1. j # k /\ AtWork(k)
      BY <1>1, <1>2, <2>7 DEF AtWork
    <3>2. j \in clashed
      BY <2>7, <3>1 DEF OpenInv, Open, Lone, Over
    <3>3. /\ FailedIdx(outcomes[j])' = FailedIdx(outcomes[j])
          /\ Score(ToSet(outcomes[j]))' = Score(ToSet(outcomes[j]))
      BY <1>1, <2>6 DEF FailedIdx, Failing, Score, Earned, PointsOf
    <3>4. Reports(j)
      BY <2>7 DEF RowInv
    <3> QED
      BY <2>5, <2>6, <3>2, <3>3, <3>4 DEF Reports
  <2>8. \A j \in Call : Settled(j)' <=> Settled(j)
    BY <1>1, <2>6 DEF Settled
  <2> QED
    BY <1>2, <2>5, <2>7, <2>8 DEF RowInv
<1>6. WriteProgress(k, b) \/ row' = row
  BY DEF DrainStep, DrainEnds, StartRun, EndRun, GiveToChecker, EndCheck, Throw
<1> QED
  BY <1>4, <1>5, <1>6

LEMMA NextRow == RunInv /\ OpenInv /\ CountInv /\ RowInv /\ [Next]_vars => RowInv'
<1> SUFFICES ASSUME RunInv, OpenInv, CountInv, RowInv, [Next]_vars PROVE RowInv'
  OBVIOUS
<1>1. CASE UNCHANGED vars
  BY <1>1, RowStays DEF vars, closure, Over
<1> QED
  BY <1>1, CallRow, DrainRow DEF Next

\* All of it.
JudgeInv == RunInv /\ CountInv /\ OpenInv /\ RowInv

LEMMA JudgeAlways == Spec => []JudgeInv
<1>1. Init => JudgeInv
  BY InitRun, InitCounts, InitOpen, InitRow DEF JudgeInv
<1>2. JudgeInv /\ [Next]_vars => JudgeInv'
  BY NextRun, NextCounts, NextOpen, NextRow DEF JudgeInv
<1> QED
  BY <1>1, <1>2, PTL DEF Spec

-----------------------------------------------------------------------------
(* What the user is told *)

\* What the outcomes of a call undisturbed say of the program.
LEMMA Told ==
    ASSUME JudgeInv, NEW k \in Call, Clean(k)
    PROVE  /\ Len(outcomes[k]) \in Nat /\ problem.tests \in Nat
           /\ 1 <= Len(outcomes[k]) /\ Len(outcomes[k]) <= problem.tests
           /\ \A t, v : (\E o \in ToSet(outcomes[k]) : o.test = t /\ o.verdict = v)
                          <=> t \in 1..Len(outcomes[k]) /\ v = problem.deserved[t]
           /\ Len(outcomes[k]) < problem.tests =>
                \E t \in 1..Len(outcomes[k]) : problem.deserved[t] # "accepted"
<1>0. RunInv /\ Settled(k) /\ Right(k)
  BY DEF JudgeInv, OpenInv, Open, Clean, Settled
<1>1. /\ outcomes[k] \in Seq(Outcome) /\ outcomes[k] # <<>> /\ problem.tests \in Nat
  BY <1>0, ProblemFacts DEF RunInv, Typed, Settled
<1>2. Len(outcomes[k]) \in Nat /\ 1 <= Len(outcomes[k]) /\ DOMAIN outcomes[k] = 1..Len(outcomes[k])
  BY <1>1
<1>3. /\ Len(outcomes[k]) <= problem.tests
      /\ \A t : Reported(k, t) <=> t \in 1..Len(outcomes[k])
      /\ Len(outcomes[k]) < problem.tests =>
           \E i \in DOMAIN outcomes[k] : outcomes[k][i].verdict # "accepted"
  BY <1>0, CasesJudged
<1>4. \A i \in DOMAIN outcomes[k] :
        /\ outcomes[k][i].verdict = problem.deserved[outcomes[k][i].test]
        /\ outcomes[k][i].test \in 1..Len(outcomes[k])
  BY <1>0, <1>3 DEF Right, Reported
<1>5. \A t, v : (\E o \in ToSet(outcomes[k]) : o.test = t /\ o.verdict = v)
                  <=> \E i \in DOMAIN outcomes[k] : /\ outcomes[k][i].test = t
                                                    /\ outcomes[k][i].verdict = v
  BY DEF ToSet
<1>6. \A t, v : (\E o \in ToSet(outcomes[k]) : o.test = t /\ o.verdict = v)
                  <=> t \in 1..Len(outcomes[k]) /\ v = problem.deserved[t]
  BY <1>3, <1>4, <1>5 DEF Reported
<1>7. Len(outcomes[k]) < problem.tests =>
        \E t \in 1..Len(outcomes[k]) : problem.deserved[t] # "accepted"
  BY <1>3, <1>4
<1> QED
  BY <1>1, <1>2, <1>3, <1>6, <1>7

LEMMA SameMin ==
    ASSUME NEW S, NEW T,
           \A x : (x \in S /\ \A y \in S : x =< y) <=> (x \in T /\ \A y \in T : x =< y)
    PROVE  Min(S) = Min(T)
BY Zenon DEF Min

LEMMA FirstFailure ==
    ASSUME JudgeInv, NEW k \in Call, Clean(k)
    PROVE  row.failedIdx = FirstWrong
<1> DEFINE n == Len(outcomes[k])
           S == {o.test : o \in Failing(ToSet(outcomes[k]))}
           W == {t \in 1..problem.tests : problem.deserved[t] # "accepted"}
<1>1. /\ n \in Nat /\ problem.tests \in Nat /\ n <= problem.tests
      /\ \A t, v : (\E o \in ToSet(outcomes[k]) : o.test = t /\ o.verdict = v)
                     <=> t \in 1..n /\ v = problem.deserved[t]
      /\ n < problem.tests => \E t \in 1..n : problem.deserved[t] # "accepted"
  BY Told
<1>2. row.failedIdx = IF Failing(ToSet(outcomes[k])) = {} THEN 0 ELSE Min(S)
  BY DEF JudgeInv, RowInv, Reports, Over, Clean, Settled, FailedIdx
<1>3. \A t : t \in S <=> \E o \in ToSet(outcomes[k]) : o.test = t /\ o.verdict # "accepted"
  BY DEF Failing
<1>4. Failing(ToSet(outcomes[k])) = {} <=> S = {}
  OBVIOUS
<1> HIDE DEF n, S
<1>5. \A t : t \in S <=> t \in W /\ t <= n
  <2>1. ASSUME NEW t PROVE t \in S <=> t \in 1..n /\ problem.deserved[t] # "accepted"
    <3>1. t \in S <=> \E v : v # "accepted" /\ \E o \in ToSet(outcomes[k]) :
                                              o.test = t /\ o.verdict = v
      BY <1>3
    <3>2. \A v : (\E o \in ToSet(outcomes[k]) : o.test = t /\ o.verdict = v)
                   <=> t \in 1..n /\ v = problem.deserved[t]
      BY <1>1
    <3> QED
      BY <3>1, <3>2
  <2>2. \A t : t \in 1..n <=> t \in 1..problem.tests /\ t <= n
    BY <1>1
  <2> QED
    BY <2>1, <2>2
<1>6. n < problem.tests => S # {}
  BY <1>1, <1>5
<1>7. \A t \in W : t \in Nat
  BY <1>1
<1>8. S = {} <=> W = {}
  BY <1>1, <1>5, <1>6
<1>9. Min(S) = Min(W)
  <2>1. ASSUME NEW x, x \in S, \A y \in S : x =< y
        PROVE  x \in W /\ \A y \in W : x =< y
    BY <1>1, <1>5, <1>7, <2>1
  <2>2. ASSUME NEW x, x \in W, \A y \in W : x =< y
        PROVE  x \in S /\ \A y \in S : x =< y
    <3>1. CASE S = {}
      BY <1>8, <2>2, <3>1
    <3>2. CASE S # {}
      <4>1. PICK y \in S : TRUE
        BY <3>2
      <4>2. x =< y /\ y <= n /\ x \in Nat /\ y \in Nat
        BY <1>5, <1>7, <2>2, <4>1
      <4> QED
        BY <1>1, <1>5, <2>2, <4>2
    <3> QED
      BY <3>1, <3>2
  <2> QED
    BY <2>1, <2>2, SameMin
<1> QED
  BY <1>2, <1>4, <1>8, <1>9 DEF FirstWrong

LEMMA SerialOfInv == JudgeInv => AsIfSerial /\ OutcomesDeserved
<1> SUFFICES ASSUME JudgeInv PROVE AsIfSerial /\ OutcomesDeserved
  OBVIOUS
<1>1. PrefixJudged
  BY PrefixOfInv DEF JudgeInv
<1>2. FirstFailureReported
  BY FirstFailure DEF FirstFailureReported
<1>3. ProgressAtEnd
  BY DEF JudgeInv, RowInv, Reports, Over, ProgressAtEnd
<1>4. OutcomesDeserved
  BY DEF JudgeInv, OpenInv, Open, Right, Clean, Settled, OutcomesDeserved, ToSet
<1> QED
  BY <1>1, <1>2, <1>3, <1>4 DEF AsIfSerial

\* The row of a submission is what one case after the other would have given, for any number
\* of cases, calls and parallel drains, with or without a checker program: the cases judged,
\* the failing one, the progress (judge.ts, runTestcases and finalize). Only of the last two
\* is a call left out that began among the drains of a failed one, or checked two at a time.
THEOREM DrainsInvisible == Spec => []AsIfSerial
<1> QED
  BY JudgeAlways, SerialOfInv, PTL

\* No drain of another call and no other check gives a case a verdict that the program does
\* not deserve, but in those two sequences: judge.ts:258 is the one, specialjudge.ts:77 the
\* other.
THEOREM EachAsDeserved == Spec => []OutcomesDeserved
<1> QED
  BY JudgeAlways, SerialOfInv, PTL

-----------------------------------------------------------------------------
(* Accepted *)

LEMMA AcceptedOfInv == JudgeInv => AcceptedMeansAllPass
<1> SUFFICES ASSUME JudgeInv, NEW k \in Call, Clean(k)
             PROVE  row.verdict = "accepted" <=> Deserved = {"accepted"}
  BY DEF AcceptedMeansAllPass
<1> DEFINE n == Len(outcomes[k])
           V == {o.verdict : o \in ToSet(outcomes[k])}
<1>1. /\ n \in Nat /\ problem.tests \in Nat /\ 1 <= n /\ n <= problem.tests
      /\ \A t, v : (\E o \in ToSet(outcomes[k]) : o.test = t /\ o.verdict = v)
                     <=> t \in 1..n /\ v = problem.deserved[t]
      /\ n < problem.tests => \E t \in 1..n : problem.deserved[t] # "accepted"
  BY Told
<1>2. row.verdict = Worst(V)
  BY DEF JudgeInv, RowInv, Reports, Over, Clean, Settled
<1>3. \A v : v \in V <=> \E t \in 1..n : v = problem.deserved[t]
  <2>1. ASSUME NEW v PROVE v \in V <=> \E t \in 1..n : v = problem.deserved[t]
    <3>1. v \in V <=> \E t : \E o \in ToSet(outcomes[k]) : o.test = t /\ o.verdict = v
      OBVIOUS
    <3>2. \A t : (\E o \in ToSet(outcomes[k]) : o.test = t /\ o.verdict = v)
                   <=> t \in 1..n /\ v = problem.deserved[t]
      BY <1>1
    <3> HIDE DEF V
    <3> QED
      BY <3>1, <3>2
  <2> QED
    BY <2>1
<1> HIDE DEF V, n
<1>4. V \subseteq Verdict /\ V # {}
  <2>0. \A t \in 1..n : t \in 1..problem.tests
    BY <1>1
  <2>1. \A t \in 1..n : problem.deserved[t] \in RunVerdict
    BY <2>0, ProblemFacts DEF JudgeInv, RunInv, Typed
  <2> QED
    BY <1>1, <1>3, <2>1, VerdictAssumption
<1>5. V = {"accepted"} <=> Deserved = {"accepted"}
  <2>1. ASSUME V = {"accepted"} PROVE Deserved = {"accepted"}
    <3>0. ASSUME NEW t \in 1..n PROVE problem.deserved[t] = "accepted"
      <4>1. problem.deserved[t] \in V
        BY <1>3, Zenon
      <4> QED
        BY <2>1, <4>1, Zenon
    <3>1. n = problem.tests
      <4>1. /\ n \in Nat /\ problem.tests \in Nat /\ n <= problem.tests
            /\ n < problem.tests => \E t \in 1..n : problem.deserved[t] # "accepted"
        BY <1>1
      <4>2. ~(n < problem.tests)
        BY <3>0, <4>1, Zenon
      <4> QED
        BY <4>1, <4>2
    <3>2. \A v : v \in Deserved <=> v \in V
      BY <1>3, <3>1, Zenon DEF Deserved
    <3> QED
      BY <2>1, <3>2
  <2>2. ASSUME Deserved = {"accepted"} PROVE V = {"accepted"}
    <3>1. V \subseteq Deserved
      BY <1>1, <1>3 DEF Deserved
    <3> QED
      BY <1>4, <2>2, <3>1
  <2> QED
    BY <2>1, <2>2
<1> QED
  BY <1>2, <1>4, <1>5, AcceptedIsLast

\* A submission is accepted if and only if its program passes every case of the problem, for any
\* number of cases and parallel drains, whether or not the first failing case stops the run,
\* unless its call began among the drains of a failed one or checked two cases at once.
THEOREM AcceptedIsEarned == Spec => []AcceptedMeansAllPass
<1> QED
  BY JudgeAlways, AcceptedOfInv, PTL

-----------------------------------------------------------------------------
(* The score of an accepted submission *)

\* All of them passed: a hundred per cent.
LEMMA AllOfThem ==
    ASSUME NEW c \in Nat, c > 0
    PROVE  Percent(c, c) = 100
<1>1. 200 * c + c = 100 * (2 * c) + c /\ 0 <= c /\ c < 2 * c /\ 2 * c > 0
  OBVIOUS
<1>2. PICK d \in Nat : d = 2 * c /\ d > 0 /\ c < d
  BY <1>1
<1>3. (100 * d + c) \div d = 100
  BY <1>2
<1> QED
  BY <1>1, <1>2, <1>3 DEF Percent

\* Also of a call that was disturbed: whatever is written as accepted has run every case.
LEMMA FullScore ==
    ASSUME JudgeInv
    PROVE  AcceptedHasFullScore
<1> SUFFICES ASSUME row.verdict = "accepted"
             PROVE  row.score = IF PointsOf(1..problem.tests) > 0 THEN PointsOf(1..problem.tests)
                                ELSE 100
  BY DEF AcceptedHasFullScore
<1>1. PICK k \in Call : Settled(k)
  BY DEF JudgeInv, RowInv
<1> DEFINE O == ToSet(outcomes[k])
           V == {o.verdict : o \in O}
<1>2. /\ RunInv /\ Reports(k) /\ outcomes[k] \in Seq(Outcome) /\ outcomes[k] # <<>>
  BY <1>1 DEF JudgeInv, RowInv, Over, Settled, RunInv, Typed
<1>3. IsFiniteSet(O) /\ O # {} /\ outcomes[k][1] \in O
  <2>1. outcomes[k][1] \in O
    BY <1>2 DEF ToSet
  <2> QED
    BY <1>2, <2>1, FiniteOutcomes
<1>4. row.score = Score(O) /\ row.verdict = Worst(V)
  BY <1>2 DEF Reports
<1>5. V \in SUBSET Verdict /\ V # {}
  <2>1. \A i \in DOMAIN outcomes[k] : outcomes[k][i] \in Outcome
    BY <1>2
  <2>2. V \in SUBSET Verdict
    BY <2>1, VerdictNames, VerdictAssumption DEF Outcome, ToSet
  <2>3. V # {}
    BY <1>3
  <2> QED
    BY <2>2, <2>3
<1>6. V = {"accepted"}
  <2> HIDE DEF V
  <2> QED
    BY <1>4, <1>5, AcceptedIsLast
<1>7. \A o \in O : o.verdict = "accepted"
  BY <1>6
<1>8. \A i \in DOMAIN outcomes[k] : outcomes[k][i].verdict = "accepted"
  BY <1>7 DEF ToSet
<1>9. /\ problem.tests \in Nat /\ Len(outcomes[k]) \in Nat
      /\ Len(outcomes[k]) = problem.tests
  <2>1. Len(outcomes[k]) \in Nat /\ Len(outcomes[k]) <= problem.tests
        /\ ~(Len(outcomes[k]) < problem.tests)
    BY <1>1, <1>2, <1>8, CasesJudged
  <2>2. problem.tests \in Nat
    BY <1>2, ProblemFacts DEF RunInv, Typed
  <2> QED
    BY <2>1, <2>2
<1>10. O \ Failing(O) = O
  BY <1>7 DEF Failing
<1>11. {o.test : o \in O} = 1..problem.tests
  <2>1. {o.test : o \in O} = 1..Len(outcomes[k])
    BY <1>1, <1>2, PrefixOfInv DEF PrefixJudged
  <2> QED
    BY <1>9, <2>1
<1> HIDE DEF O
<1>12. Earned(O) = PointsOf(1..problem.tests)
  BY <1>10, <1>11 DEF Earned
<1>13. PICK c \in Nat : c = Cardinality(O) /\ c > 0
  BY <1>3, FS_EmptySet, FS_CardinalityType
<1>14. Percent(Cardinality(O), Cardinality(O)) = 100
  BY <1>13, AllOfThem
<1>15. Score(O) = IF PointsOf(1..problem.tests) > 0 THEN PointsOf(1..problem.tests) ELSE 100
  BY <1>3, <1>10, <1>12, <1>14, Zenon DEF Score
<1> QED
  BY <1>4, <1>15

\* An accepted submission has all the points of the problem, or 100 when it has none, and unless
\* its call was disturbed it has passed every case (judge.ts, finalize), for any number of
\* cases, points, calls and parallel drains.
THEOREM AcceptedIsFull == Spec => []AcceptedEarned
<1>1. JudgeInv => AcceptedEarned
  BY AcceptedOfInv, FullScore DEF AcceptedEarned
<1> QED
  BY <1>1, JudgeAlways, PTL
=============================================================================
