---------------------------- MODULE ReadingProofs ----------------------------
(***************************************************************************)
(* Theorems about what is read out of what is stored or written: the       *)
(* standing of a collection out of its submissions (Scoreboard), for any   *)
(* members, problems, windows, scores and penalties, and for any number of *)
(* submissions and rejudges; and outputs, answers, class lists, courses,   *)
(* problems and drawings out of their texts (Formats), of any length.      *)
(***************************************************************************)
EXTENDS Scoreboard, Formats, FiniteSetTheorems, SequenceTheorems, WellFoundedInduction, TLAPS

LEMMA Induction ==
    ASSUME NEW S, 0 \in S, \A n \in Nat : n \in S => n + 1 \in S
    PROVE  \A n \in Nat : n \in S
<1>1. SUFFICES ASSUME Nat \ S # {} PROVE FALSE
  OBVIOUS
<1>2. PICK m \in Nat \ S : \A y \in Nat \ S : <<y, m>> \notin OpToRel(<, Nat)
  BY <1>1, NatLessThanWellFounded, WFMin
<1>3. m # 0 /\ m - 1 \in Nat
  OBVIOUS
<1>4. \A y \in Nat \ S : ~(y < m)
  BY <1>2 DEF OpToRel
<1>5. m - 1 \in S
  BY <1>3, <1>4
<1> QED
  BY <1>3, <1>5

LEMMA LeastOfNats ==
    ASSUME NEW S \in SUBSET Nat, S # {}
    PROVE  Min(S) \in S /\ \A n \in S : Min(S) <= n
<1>1. \E m \in S : \A n \in S : <<n, m>> \notin OpToRel(<, Nat)
  BY NatLessThanWellFounded, WFMin
<1>2. PICK m \in S : \A n \in S : ~(n < m)
  BY <1>1 DEF OpToRel
<1>3. \E m_1 \in S : \A n \in S : m_1 <= n
  BY <1>2
<1> QED
  BY <1>3, Zenon DEF Min

LEMMA MinIs ==
    ASSUME NEW S \in SUBSET Nat, NEW a \in S, \A n \in S : a <= n
    PROVE  Min(S) = a
<1>1. Min(S) \in S /\ Min(S) <= a
  BY LeastOfNats
<1>2. a <= Min(S) /\ Min(S) \in Nat /\ a \in Nat
  BY <1>1
<1> QED
  BY <1>1, <1>2

\* The largest of the numbers up to b.
LEMMA LargestOfNats ==
    ASSUME NEW b \in Nat, NEW S \in SUBSET (0..b), S # {}
    PROVE  Max(S) \in S /\ \A n \in S : n <= Max(S)
<1> DEFINE D == {b - n : n \in S}
<1>1. \A n \in S : b - n \in Nat
  OBVIOUS
<1>2. D \in SUBSET Nat /\ D # {}
  BY <1>1
<1>3. Min(D) \in D /\ \A n \in D : Min(D) <= n
  BY <1>2, LeastOfNats
<1>4. PICK m \in S : Min(D) = b - m
  BY <1>3
<1>5. \A n \in S : n <= m
  <2> TAKE n \in S
  <2>1. Min(D) <= b - n
    BY <1>3
  <2> QED
    BY <1>4, <2>1
<1>6. \E x \in S : \A n \in S : x >= n
  BY <1>5
<1> QED
  BY <1>6, Zenon DEF Max

-----------------------------------------------------------------------------
(* The invariant: submissions have their types, their order is the order in *)
(* which they came, and an accepted one has the full score.                 *)

Submission ==
    [user : Member, problem : Problem, inside : BOOLEAN, at : Nat,
     verdict : Verdict \cup {None}, score : 0..Full]

BoardInv ==
    /\ window \in Windows
    /\ now \in Nat
    /\ subs \in Seq(Submission)
    /\ \A i \in Ids : /\ subs[i].at <= now
                      /\ subs[i].verdict = "accepted" => subs[i].score = Full
    /\ \A i, j \in Ids : i <= j => subs[i].at <= subs[j].at

LEMMA BoardInit == Init => BoardInv
  BY ScoreboardAssumption DEF Init, BoardInv, Ids

\* What Judged and Rejudge do to the submissions.
Rewritten(s, i, v, n, t) ==
    /\ t \in Seq(Submission) /\ Len(t) = Len(s)
    /\ \A j \in DOMAIN s : t[j] = IF j = i THEN [s[i] EXCEPT !.verdict = v, !.score = n] ELSE s[j]

LEMMA Rewriting ==
    ASSUME NEW s \in Seq(Submission), NEW i \in DOMAIN s,
           NEW v \in Verdict \cup {None}, NEW n \in 0..Full
    PROVE  Rewritten(s, i, v, n, [s EXCEPT ![i].verdict = v, ![i].score = n])
<1> DEFINE r == [s[i] EXCEPT !.verdict = v, !.score = n]
<1>1. s[i] \in Submission
  OBVIOUS
<1>2. r \in Submission
  BY <1>1 DEF Submission
<1>3. [s EXCEPT ![i].verdict = v, ![i].score = n] = [s EXCEPT ![i] = r]
  OBVIOUS
<1> HIDE DEF r
<1>4. [s EXCEPT ![i] = r] \in Seq(Submission) /\ Len([s EXCEPT ![i] = r]) = Len(s)
  BY <1>2
<1>5. \A j \in DOMAIN s : [s EXCEPT ![i] = r][j] = IF j = i THEN r ELSE s[j]
  OBVIOUS
<1> QED
  BY <1>3, <1>4, <1>5 DEF Rewritten, r

\* A step that gives one submission a verdict, or takes it.
Verdicts(i, v, n) ==
    /\ i \in Ids /\ v \in Verdict \cup {None} /\ n \in 0..Full /\ (v = "accepted" => n = Full)
    /\ UNCHANGED <<window, now>>
    /\ Rewritten(subs, i, v, n, subs')

LEMMA VerdictSteps ==
    ASSUME BoardInv, NEW i \in Ids,
           \/ Rejudge(i)
           \/ \E verdict \in Verdict : \E score \in Scores(verdict) : Judged(i, verdict, score)
    PROVE  \E v, n : Verdicts(i, v, n)
<1>1. subs \in Seq(Submission) /\ Ids = DOMAIN subs
  BY DEF BoardInv, Ids
<1>2. None \notin Verdict /\ Full \in Nat
  BY ScoreboardAssumption
<1>3. CASE Rejudge(i)
  <2>1. subs' = [subs EXCEPT ![i].verdict = None, ![i].score = 0] /\ UNCHANGED <<window, now>>
    BY <1>3 DEF Rejudge
  <2>2. Rewritten(subs, i, None, 0, subs')
    <3>1. None \in Verdict \cup {None} /\ 0 \in 0..Full /\ i \in DOMAIN subs
      BY <1>1, <1>2
    <3>2. Rewritten(subs, i, None, 0, [subs EXCEPT ![i].verdict = None, ![i].score = 0])
      BY <1>1, <3>1, Rewriting
    <3> QED
      BY <2>1, <3>2, Zenon
  <2>3. Verdicts(i, None, 0)
    BY <1>2, <2>1, <2>2 DEF Verdicts, Verdict
  <2> QED
    BY <2>3
<1>4. ASSUME NEW v \in Verdict, NEW n \in Scores(v), Judged(i, v, n)
      PROVE  Verdicts(i, v, n)
  <2>1. n \in 0..Full /\ (v = "accepted" => n = Full)
    <3>1. CASE v = "accepted"
      BY <1>2, <3>1 DEF Scores
    <3>2. CASE v = "wrong_answer"
      BY <1>2, <3>2 DEF Scores
    <3>3. CASE v = "internal_error"
      BY <1>2, <3>3 DEF Scores
    <3> QED
      BY <3>1, <3>2, <3>3 DEF Verdict
  <2>2. subs' = [subs EXCEPT ![i].verdict = v, ![i].score = n] /\ UNCHANGED <<window, now>>
    BY <1>4 DEF Judged
  <2>3. Rewritten(subs, i, v, n, subs')
    BY <1>1, <2>1, <2>2, Rewriting
  <2> QED
    BY <2>1, <2>2, <2>3 DEF Verdicts
<1> QED
  BY <1>3, <1>4

\* What it leaves of the submissions.
LEMMA VerdictForm ==
    ASSUME BoardInv, NEW i, NEW v, NEW n, Verdicts(i, v, n)
    PROVE  /\ subs' \in Seq(Submission) /\ DOMAIN subs' = Ids
           /\ UNCHANGED <<window, now>>
           /\ \A j \in Ids : /\ subs'[j].user = subs[j].user
                             /\ subs'[j].problem = subs[j].problem
                             /\ subs'[j].inside = subs[j].inside
                             /\ subs'[j].at = subs[j].at
                             /\ j # i => subs'[j] = subs[j]
           /\ subs'[i].verdict = v /\ subs'[i].score = n
<1>1. subs \in Seq(Submission) /\ Ids = DOMAIN subs
  BY DEF BoardInv, Ids
<1>2. i \in Ids /\ UNCHANGED <<window, now>> /\ Rewritten(subs, i, v, n, subs')
  BY DEF Verdicts
<1>3. /\ subs' \in Seq(Submission) /\ Len(subs') = Len(subs)
      /\ \A j \in Ids : subs'[j] = IF j = i THEN [subs[i] EXCEPT !.verdict = v, !.score = n]
                                   ELSE subs[j]
  BY <1>1, <1>2 DEF Rewritten
<1>4. PICK s : s = subs[i]
  OBVIOUS
<1>5. s \in Submission
  BY <1>1, <1>2, <1>4
<1>6. PICK t : t = [s EXCEPT !.verdict = v, !.score = n]
  OBVIOUS
<1>7. /\ t.user = s.user /\ t.problem = s.problem /\ t.inside = s.inside /\ t.at = s.at
      /\ t.verdict = v /\ t.score = n
  BY <1>5, <1>6, Zenon DEF Submission
<1>8. subs'[i] = t /\ \A j \in Ids \ {i} : subs'[j] = subs[j]
  BY <1>2, <1>3, <1>4, <1>6
<1>9. DOMAIN subs' = Ids
  BY <1>1, <1>3
<1> QED
  BY <1>2, <1>3, <1>4, <1>7, <1>8, <1>9

\* What Submit leaves of them.
LEMMA SubmitForm ==
    ASSUME BoardInv, NEW m \in Member, NEW p \in Problem, NEW inside \in BOOLEAN,
           Submit(m, p, inside)
    PROVE  /\ subs' \in Seq(Submission)
           /\ Len(subs) \in Nat /\ Ids = 1..Len(subs) /\ DOMAIN subs' = 1..(Len(subs) + 1)
           /\ UNCHANGED <<window, now>>
           /\ \A j \in Ids : subs'[j] = subs[j]
           /\ subs'[Len(subs) + 1].at = now /\ subs'[Len(subs) + 1].verdict = None
<1>1. subs \in Seq(Submission) /\ Ids = 1..Len(subs) /\ now \in Nat
  BY DEF BoardInv, Ids
<1>2. PICK s : s = [user |-> m, problem |-> p, inside |-> inside, at |-> now,
                    verdict |-> None, score |-> 0]
  OBVIOUS
<1>3. s \in Submission /\ s.at = now /\ s.verdict = None
  BY <1>1, <1>2, ScoreboardAssumption DEF Submission
<1>4. subs' = Append(subs, s) /\ UNCHANGED <<window, now>>
  BY <1>2 DEF Submit
<1>5. Len(subs) \in Nat
  BY <1>1
<1>6. subs' \in Seq(Submission) /\ DOMAIN subs' = 1..(Len(subs) + 1)
  BY <1>1, <1>3, <1>4
<1>7. subs'[Len(subs) + 1] = s /\ \A j \in Ids : subs'[j] = subs[j]
  BY <1>1, <1>3, <1>4
<1> QED
  BY <1>1, <1>3, <1>4, <1>5, <1>6, <1>7

LEMMA SubmissionTypes ==
    ASSUME BoardInv
    PROVE  \A i \in Ids : subs[i] \in Submission /\ subs[i].at \in Nat
<1>1. \A i \in Ids : subs[i] \in Submission
  BY DEF BoardInv, Ids
<1> QED
  BY <1>1 DEF Submission

LEMMA BoardNext == BoardInv /\ [Next]_vars => BoardInv'
<1> SUFFICES ASSUME BoardInv, [Next]_vars PROVE BoardInv'
  OBVIOUS
<1>1. /\ window \in Windows /\ now \in Nat
      /\ \A i \in Ids : /\ subs[i].at <= now
                        /\ subs[i].verdict = "accepted" => subs[i].score = Full
      /\ \A i, j \in Ids : i <= j => subs[i].at <= subs[j].at
      /\ \A i \in Ids : subs[i].at \in Nat
  BY SubmissionTypes DEF BoardInv
<1>2. None # "accepted"
  BY ScoreboardAssumption DEF Verdict
<1>3. ASSUME NEW m \in Member, NEW p \in Problem, NEW inside \in BOOLEAN, Submit(m, p, inside)
      PROVE  BoardInv'
  <2> DEFINE k == Len(subs) + 1
  <2>1. /\ subs' \in Seq(Submission)
        /\ Len(subs) \in Nat /\ Ids = 1..Len(subs) /\ Ids' = 1..k
        /\ UNCHANGED <<window, now>>
        /\ \A j \in Ids : subs'[j] = subs[j]
        /\ subs'[k].at = now /\ subs'[k].verdict = None
    BY <1>3, SubmitForm DEF Ids
  <2>2. \A i \in Ids' : i \in Ids \/ i = k
    BY <2>1
  <2>3. \A i \in Ids' : /\ subs'[i].at <= now'
                        /\ subs'[i].verdict = "accepted" => subs'[i].score = Full
    BY <1>1, <1>2, <2>1, <2>2
  <2>4. \A i, j \in Ids' : i <= j => subs'[i].at <= subs'[j].at
    <3> SUFFICES ASSUME NEW i \in Ids', NEW j \in Ids', i <= j
                 PROVE  subs'[i].at <= subs'[j].at
      OBVIOUS
    <3>1. CASE j = k
      BY <1>1, <2>1, <2>3, <3>1
    <3>2. CASE j # k
      <4>1. i \in Ids /\ j \in Ids
        BY <2>1, <2>2, <3>2
      <4> QED
        BY <1>1, <2>1, <4>1
    <3> QED
      BY <3>1, <3>2
  <2> QED
    BY <1>1, <2>1, <2>3, <2>4 DEF BoardInv
<1>4. ASSUME NEW i \in Ids, NEW v, NEW n, Verdicts(i, v, n) PROVE BoardInv'
  <2>1. /\ subs' \in Seq(Submission) /\ Ids' = Ids
        /\ UNCHANGED <<window, now>>
        /\ \A j \in Ids : subs'[j].at = subs[j].at /\ (j # i => subs'[j] = subs[j])
        /\ subs'[i].verdict = v /\ subs'[i].score = n
    BY <1>4, VerdictForm DEF Ids
  <2>2. v = "accepted" => n = Full
    BY <1>4 DEF Verdicts
  <2>3. \A j \in Ids' : /\ subs'[j].at <= now'
                        /\ subs'[j].verdict = "accepted" => subs'[j].score = Full
    BY <1>1, <2>1, <2>2
  <2>4. \A j, l \in Ids' : j <= l => subs'[j].at <= subs'[l].at
    BY <1>1, <2>1
  <2> QED
    BY <1>1, <2>1, <2>3, <2>4 DEF BoardInv
<1>5. CASE Tick
  <2>1. now' = now + 1 /\ UNCHANGED <<window, subs>> /\ Ids' = Ids
    BY <1>5 DEF Tick, Ids
  <2>2. \A i \in Ids' : subs'[i].at <= now'
    BY <1>1, <2>1
  <2> QED
    BY <1>1, <2>1, <2>2 DEF BoardInv
<1>6. CASE UNCHANGED vars
  BY <1>6 DEF vars, BoardInv, Ids
<1> QED
  BY <1>3, <1>4, <1>5, <1>6, VerdictSteps DEF Next

THEOREM BoardOrdered == Spec => []BoardInv
  BY BoardInit, BoardNext, PTL DEF Spec

-----------------------------------------------------------------------------
(* What a late submission leaves alone. *)

\* What every step keeps: the window, the submissions that are there and their moments.
Goes ==
    /\ BoardInv /\ BoardInv'
    /\ window' = window
    /\ \A i \in Ids : i \in DOMAIN subs' /\ subs'[i].at = subs[i].at

LEMMA EveryStepGoes ==
    ASSUME BoardInv, [Next]_vars
    PROVE  Goes
<1>1. BoardInv'
  BY BoardNext
<1>2. ASSUME NEW m \in Member, NEW p \in Problem, NEW inside \in BOOLEAN, Submit(m, p, inside)
      PROVE  Goes
  <2>1. /\ Ids = 1..Len(subs) /\ DOMAIN subs' = 1..(Len(subs) + 1) /\ Len(subs) \in Nat
        /\ window' = window /\ \A j \in Ids : subs'[j] = subs[j]
    BY <1>2, SubmitForm
  <2> QED
    BY <1>1, <2>1 DEF Goes
<1>3. ASSUME NEW i \in Ids, NEW v, NEW n, Verdicts(i, v, n) PROVE Goes
  BY <1>1, <1>3, VerdictForm DEF Goes
<1>4. CASE Tick \/ UNCHANGED vars
  BY <1>1, <1>4 DEF Goes, Tick, vars, Ids
<1> QED
  BY <1>2, <1>3, <1>4, VerdictSteps DEF Next

\* Whatever came up to a moment is the same when only later submissions are touched.
LEMMA EarlySame ==
    ASSUME Goes, NEW c \in Nat, \A i \in Touched : subs'[i].at > c
    PROVE  /\ \A i : (i \in Ids /\ subs[i].at <= c) <=> (i \in Ids' /\ subs'[i].at <= c)
           /\ \A i \in Ids : subs[i].at <= c => subs'[i] = subs[i]
<1>1. /\ \A i \in Ids : subs[i].at \in Nat
      /\ \A i \in Ids' : subs'[i].at \in Nat
  <2>1. subs \in Seq(Submission) /\ subs' \in Seq(Submission)
    BY DEF Goes, BoardInv
  <2>2. \A i \in Ids : subs[i] \in Submission
    BY <2>1 DEF Ids
  <2>3. \A i \in Ids' : subs'[i] \in Submission
    BY <2>1 DEF Ids
  <2> QED
    BY <2>2, <2>3 DEF Submission
<1>2. \A i \in Ids : i \in Ids' /\ subs'[i].at = subs[i].at
  BY DEF Goes, Ids
<1>3. \A i \in Ids' : subs'[i].at <= c => i \in Ids /\ subs'[i] = subs[i]
  <2> SUFFICES ASSUME NEW i \in Ids', subs'[i].at <= c PROVE i \in Ids /\ subs'[i] = subs[i]
    OBVIOUS
  <2>1. i \notin Touched
    BY <1>1
  <2> QED
    BY <2>1 DEF Touched, Ids
<1> QED
  BY <1>1, <1>2, <1>3

LEMMA AcceptMoments ==
    ASSUME BoardInv, NEW m, NEW p, NEW c
    PROVE  {subs[i].at : i \in Accepts(m, p, c)} \in SUBSET Nat
<1>1. \A i \in Accepts(m, p, c) : i \in Ids
  BY DEF Accepts, Inside, Of
<1> QED
  BY <1>1, SubmissionTypes

LEMMA AcceptedFirst ==
    ASSUME BoardInv, NEW m, NEW p, NEW c, Accepts(m, p, c) # {}
    PROVE  /\ AcceptedAt(m, p, c) \in Nat
           /\ \E i \in Accepts(m, p, c) : AcceptedAt(m, p, c) = subs[i].at
           /\ \A i \in Accepts(m, p, c) : AcceptedAt(m, p, c) <= subs[i].at
<1> DEFINE T == {subs[i].at : i \in Accepts(m, p, c)}
<1>1. T \in SUBSET Nat /\ T # {}
  BY AcceptMoments
<1>2. Min(T) \in T /\ \A n \in T : Min(T) <= n
  BY <1>1, LeastOfNats
<1>3. AcceptedAt(m, p, c) = Min(T)
  BY DEF AcceptedAt
<1>4. Min(T) \in Nat
  BY <1>1, <1>2
<1> QED
  BY <1>2, <1>3, <1>4

LEMMA AcceptedIs ==
    ASSUME BoardInv, NEW m, NEW p, NEW c, NEW a \in Nat,
           \E i \in Accepts(m, p, c) : a = subs[i].at,
           \A i \in Accepts(m, p, c) : a <= subs[i].at
    PROVE  AcceptedAt(m, p, c) = a
<1> DEFINE T == {subs[i].at : i \in Accepts(m, p, c)}
<1>1. T \in SUBSET Nat
  BY AcceptMoments
<1>2. a \in T /\ \A n \in T : a <= n
  OBVIOUS
<1>3. Min(T) = a
  BY <1>1, <1>2, MinIs
<1> QED
  BY <1>3 DEF AcceptedAt

\* A problem that is solved keeps its penalty when all that is touched is later.
LEMMA SolvedStays ==
    ASSUME Goes, NEW m, NEW p, NEW c, Accepts(m, p, c) # {},
           \A i \in Touched : subs'[i].at > AcceptedAt(m, p, c)
    PROVE  PenaltyOf(m, p, c)' = PenaltyOf(m, p, c)
<1>1. PICK a : a = AcceptedAt(m, p, c)
  OBVIOUS
<1>2. /\ a \in Nat /\ \E i \in Accepts(m, p, c) : a = subs[i].at
      /\ \A i \in Accepts(m, p, c) : a <= subs[i].at
  BY <1>1, AcceptedFirst DEF Goes
<1>3. /\ \A i : (i \in Ids /\ subs[i].at <= a) <=> (i \in Ids' /\ subs'[i].at <= a)
      /\ \A i \in Ids : subs[i].at <= a => subs'[i] = subs[i]
  BY <1>1, <1>2, EarlySame
<1>4. window' = window /\ BoardInv /\ BoardInv'
  BY DEF Goes
<1>5. \A i : (i \in Accepts(m, p, c) /\ subs[i].at <= a)
                <=> (i \in Accepts(m, p, c)' /\ subs'[i].at <= a)
  BY <1>3, <1>4 DEF Accepts, Inside, Of, InWindow
<1>6. (\A i \in Ids : subs[i].at \in Nat) /\ (\A i \in Ids' : subs'[i].at \in Nat)
  <2>1. subs' \in Seq(Submission)
    BY <1>4 DEF BoardInv
  <2>2. \A i \in Ids' : subs'[i] \in Submission
    BY <2>1 DEF Ids
  <2> QED
    BY <1>4, <2>2, SubmissionTypes DEF Submission
<1>7. AcceptedAt(m, p, c)' = a
  <2>1. \E i \in Accepts(m, p, c)' : a = subs'[i].at
    <3>1. PICK i \in Accepts(m, p, c) : a = subs[i].at
      BY <1>2
    <3>2. i \in Ids
      BY DEF Accepts, Inside, Of
    <3>3. subs'[i] = subs[i] /\ i \in Accepts(m, p, c)'
      BY <1>2, <1>3, <1>5, <3>1, <3>2
    <3> QED
      BY <3>1, <3>3
  <2>2. \A i \in Accepts(m, p, c)' : a <= subs'[i].at
    <3> SUFFICES ASSUME NEW i \in Accepts(m, p, c)' PROVE a <= subs'[i].at
      OBVIOUS
    <3>1. i \in Ids'
      BY DEF Accepts, Inside, Of
    <3>2. CASE subs'[i].at <= a
      <4>1. i \in Accepts(m, p, c) /\ i \in Ids /\ subs'[i] = subs[i]
        BY <1>3, <1>5, <3>1, <3>2
      <4> QED
        BY <1>2, <4>1
    <3>3. CASE ~(subs'[i].at <= a)
      BY <1>2, <1>6, <3>1, <3>3
    <3> QED
      BY <3>2, <3>3
  <2>3. \E i \in Accepts(m, p, c)' : a = subs'[i].at
    BY <2>1
  <2>4. PICK T : T = {subs'[i].at : i \in Accepts(m, p, c)'}
    OBVIOUS
  <2>5. T \in SUBSET Nat
    <3>1. \A i \in Accepts(m, p, c)' : i \in Ids'
      BY DEF Accepts, Inside, Of
    <3> QED
      BY <1>6, <2>4, <3>1
  <2>6. a \in T /\ \A n \in T : a <= n
    BY <2>2, <2>3, <2>4
  <2>7. Min(T) = a
    BY <2>5, <2>6, MinIs
  <2> QED
    BY <2>4, <2>7 DEF AcceptedAt
<1>8. Wrong(m, p, c)' = Wrong(m, p, c)
  <2>1. ASSUME NEW i
        PROVE  i \in Wrong(m, p, c)' <=> i \in Wrong(m, p, c)
    <3>1. i \in Wrong(m, p, c)' => i \in Ids' /\ subs'[i].at < a
      BY <1>7 DEF Wrong, Inside, Of
    <3>2. i \in Wrong(m, p, c) => i \in Ids /\ subs[i].at < a
      BY <1>1 DEF Wrong, Inside, Of
    <3>3. CASE i \in Ids /\ subs[i].at <= a
      <4>1. i \in Ids' /\ subs'[i] = subs[i]
        BY <1>3, <3>3
      <4> QED
        BY <1>1, <1>4, <1>7, <3>3, <4>1 DEF Wrong, Inside, Of, InWindow
    <3>4. CASE ~(i \in Ids /\ subs[i].at <= a)
      <4>1. ~(i \in Ids /\ subs[i].at < a) /\ ~(i \in Ids' /\ subs'[i].at < a)
        BY <1>2, <1>3, <1>6, <3>4
      <4> QED
        BY <3>1, <3>2, <4>1
    <3> QED
      BY <3>3, <3>4
  <2> QED
    BY <2>1
<1> QED
  BY <1>1, <1>4, <1>7, <1>8 DEF PenaltyOf, MinutesTo

\* Members' submissions after the cutoff of a board change nothing on it.
LEMMA FrozenBoard ==
    ASSUME Goes, NEW c \in Nat, \A i \in Touched : subs'[i].at > c
    PROVE  Icpc(c)' = Icpc(c) /\ Ioi(c)' = Ioi(c) /\ Progress(c)' = Progress(c)
<1>1. /\ \A i : (i \in Ids /\ subs[i].at <= c) <=> (i \in Ids' /\ subs'[i].at <= c)
      /\ \A i \in Ids : subs[i].at <= c => subs'[i] = subs[i]
  BY EarlySame
<1>2. window' = window /\ BoardInv /\ c # None
  BY ScoreboardAssumption DEF Goes
<1>3. ASSUME NEW m, NEW p
      PROVE  Accepts(m, p, c)' = Accepts(m, p, c)
  BY <1>1, <1>2 DEF Accepts, Inside, Of, InWindow
<1>4. ASSUME NEW m
      PROVE  /\ Solved(m, c)' = Solved(m, c)
             /\ \A p \in Solved(m, c) : PenaltyOf(m, p, c)' = PenaltyOf(m, p, c)
  <2>1. Solved(m, c)' = Solved(m, c)
    BY <1>3 DEF Solved
  <2>2. ASSUME NEW p \in Solved(m, c)
        PROVE  PenaltyOf(m, p, c)' = PenaltyOf(m, p, c)
    <3>1. Accepts(m, p, c) # {}
      BY DEF Solved
    <3>2. /\ AcceptedAt(m, p, c) \in Nat
          /\ \E i \in Accepts(m, p, c) : AcceptedAt(m, p, c) = subs[i].at
      BY <1>2, <3>1, AcceptedFirst
    <3>3. AcceptedAt(m, p, c) <= c
      BY <1>2, <3>2 DEF Accepts, InWindow
    <3>4. \A i \in Touched : subs'[i].at \in Nat
      <4>1. subs' \in Seq(Submission)
        BY DEF Goes, BoardInv
      <4>2. \A i \in Touched : subs'[i] \in Submission
        BY <4>1 DEF Touched
      <4> QED
        BY <4>2 DEF Submission
    <3>5. \A i \in Touched : subs'[i].at > AcceptedAt(m, p, c)
      BY <3>2, <3>3, <3>4
    <3> QED
      BY <3>1, <3>5, SolvedStays
  <2> QED
    BY <2>1, <2>2
<1>5. Icpc(c)' = Icpc(c)
  <2>1. ASSUME NEW m
        PROVE  [p \in Solved(m, c) |-> PenaltyOf(m, p, c)]'
                = [p \in Solved(m, c) |-> PenaltyOf(m, p, c)]
    BY <1>4
  <2>2. ASSUME NEW m
        PROVE  Cardinality(Solved(m, c))' = Cardinality(Solved(m, c))
    BY <1>4
  <2> QED
    BY <2>1, <2>2 DEF Icpc
<1>6. ASSUME NEW m, NEW p
      PROVE  Best(m, p, c)' = Best(m, p, c)
  <2>1. {j \in Inside(m, p) : InWindow(subs[j], c)}' = {j \in Inside(m, p) : InWindow(subs[j], c)}
    BY <1>1, <1>2 DEF Inside, Of, InWindow
  <2>2. \A i \in {j \in Inside(m, p) : InWindow(subs[j], c)} : subs'[i] = subs[i]
    BY <1>1, <1>2 DEF Inside, Of, InWindow
  <2>3. {subs[i].score : i \in {j \in Inside(m, p) : InWindow(subs[j], c)}}'
            = {subs[i].score : i \in {j \in Inside(m, p) : InWindow(subs[j], c)}}
    BY <2>1, <2>2
  <2> QED
    BY <2>3 DEF Best, Max
<1>7. Ioi(c)' = Ioi(c)
  <2>1. ASSUME NEW m
        PROVE  [p \in Problem |-> Best(m, p, c)]' = [p \in Problem |-> Best(m, p, c)]
    BY <1>6
  <2>2. ASSUME NEW m
        PROVE  {p \in Problem : Best(m, p, c) > 0}' = {p \in Problem : Best(m, p, c) > 0}
    BY <1>6
  <2> QED
    BY <2>1, <2>2 DEF Ioi
<1>8. Progress(c)' = Progress(c)
  <2>1. ASSUME NEW m, NEW p
        PROVE  (\E i \in Of(m, p) : subs[i].verdict = "accepted" /\ (c = None \/ subs[i].at <= c))'
                <=> \E i \in Of(m, p) :
                        subs[i].verdict = "accepted" /\ (c = None \/ subs[i].at <= c)
    BY <1>1, <1>2 DEF Of
  <2>2. ASSUME NEW m
        PROVE  {p \in Items : \E i \in Of(m, p) :
                    subs[i].verdict = "accepted" /\ (c = None \/ subs[i].at <= c)}'
                = {p \in Items : \E i \in Of(m, p) :
                    subs[i].verdict = "accepted" /\ (c = None \/ subs[i].at <= c)}
    BY <2>1
  <2> QED
    BY <2>2 DEF Progress
<1> QED
  BY <1>5, <1>7, <1>8

\* What is sent in after the freeze changes no board that members see, and what is sent
\* in after a problem is solved does not change its penalty, whatever becomes of it.
THEOREM LateIsHidden == Spec => LateChangesNothing
<1> DEFINE Late ==
      /\ (\A i \in Touched : Cutoff(FALSE) # None /\ subs'[i].at > Cutoff(FALSE))
            => Board(Cutoff(FALSE))' = Board(Cutoff(FALSE))
      /\ \A m \in Member, p \in Problem :
            LET cut == Cutoff(TRUE)
            IN  Accepts(m, p, cut) # {}
                /\ (\A i \in Touched : subs'[i].at > AcceptedAt(m, p, cut))
                => PenaltyOf(m, p, cut)' = PenaltyOf(m, p, cut)
<1>1. ASSUME BoardInv, [Next]_vars PROVE Late
  <2>1. Goes /\ window' = window
    BY <1>1, EveryStepGoes DEF Goes
  <2>2. ASSUME \A i \in Touched : Cutoff(FALSE) # None /\ subs'[i].at > Cutoff(FALSE)
        PROVE  Board(Cutoff(FALSE))' = Board(Cutoff(FALSE))
    <3>1. PICK c : c = Cutoff(FALSE)
      OBVIOUS
    <3>2. c = Cutoff(FALSE)'
      BY <2>1, <3>1 DEF Cutoff
    <3>3. CASE Touched = {}
      <4>1. subs' = subs
        <5>1. \A i \in DOMAIN subs' : i \in Ids /\ subs'[i] = subs[i]
          BY <3>3 DEF Touched
        <5>2. \A i \in Ids : i \in DOMAIN subs'
          BY <2>1 DEF Goes
        <5>3. subs \in Seq(Submission) /\ subs' \in Seq(Submission)
          BY <2>1 DEF Goes, BoardInv
        <5> QED
          BY <5>1, <5>2, <5>3 DEF Ids
      <4> QED
        BY <2>1, <4>1 DEF Board, Icpc, Ioi, Progress, Cutoff, Solved, PenaltyOf, AcceptedAt,
                          Accepts, Wrong, MinutesTo, Best, Inside, Of, Ids, InWindow
    <3>4. CASE Touched # {}
      <4>1. c \in Nat
        <5>1. c # None
          BY <2>2, <3>1, <3>4
        <5>2. window \in Windows
          BY <1>1 DEF BoardInv
        <5> QED
          BY <3>1, <5>1, <5>2, ScoreboardAssumption DEF Cutoff
      <4>2. \A i \in Touched : subs'[i].at > c
        BY <2>2, <3>1
      <4>3. Icpc(c)' = Icpc(c) /\ Ioi(c)' = Ioi(c) /\ Progress(c)' = Progress(c)
        BY <2>1, <4>1, <4>2, FrozenBoard
      <4>4. Board(c)' = Board(c)
        BY <4>3 DEF Board
      <4> QED
        BY <3>1, <3>2, <4>4
    <3> QED
      BY <3>3, <3>4
  <2>3. ASSUME NEW m \in Member, NEW p \in Problem, Accepts(m, p, Cutoff(TRUE)) # {},
               \A i \in Touched : subs'[i].at > AcceptedAt(m, p, Cutoff(TRUE))
        PROVE  PenaltyOf(m, p, Cutoff(TRUE))' = PenaltyOf(m, p, Cutoff(TRUE))
    <3>1. PICK c : c = Cutoff(TRUE)
      OBVIOUS
    <3>2. c = Cutoff(TRUE)'
      BY <2>1, <3>1 DEF Cutoff
    <3>3. PenaltyOf(m, p, c)' = PenaltyOf(m, p, c)
      BY <2>1, <2>3, <3>1, SolvedStays
    <3> QED
      BY <3>1, <3>2, <3>3
  <2> QED
    BY <2>2, <2>3
<1>2. [][Late]_vars <=> LateChangesNothing
  BY PTL DEF LateChangesNothing
<1> QED
  BY <1>1, <1>2, BoardInit, BoardNext, PTL DEF Spec

-----------------------------------------------------------------------------
(* Sums *)

\* What the recursion of a sum over S asks of the function it defines.
Sums(f, S, g) ==
    g = [s \in SUBSET S |-> IF s = {} THEN 0
                            ELSE f[CHOOSE x \in s : TRUE] + g[s \ {CHOOSE x \in s : TRUE}]]

LEMMA TotalForm ==
    ASSUME NEW S, NEW f, DOMAIN f = S
    PROVE  Total(f) = (CHOOSE g : Sums(f, S, g))[S]
  BY DEF Total, FoldFunction, FoldFunctionOnSet, MapThenFoldSet, Sums

LEMMA Chosen ==
    ASSUME NEW s, s # {}
    PROVE  (CHOOSE x \in s : TRUE) \in s
  OBVIOUS

LEMMA FiniteSubset ==
    ASSUME NEW S, IsFiniteSet(S), NEW s \in SUBSET S
    PROVE  IsFiniteSet(s) /\ Cardinality(s) \in Nat /\ (Cardinality(s) = 0 <=> s = {})
  BY FS_Subset, FS_CardinalityType, FS_EmptySet

\* The function of the recursion is there: by induction on the size of the subsets.
LEMMA SumsExist ==
    ASSUME NEW S, IsFiniteSet(S), NEW f
    PROVE  \E g : Sums(f, S, g)
<1> DEFINE Step(g, s) == IF s = {} THEN 0
                         ELSE f[CHOOSE x \in s : TRUE] + g[s \ {CHOOSE x \in s : TRUE}]
<1> DEFINE Small(n) == {s \in SUBSET S : Cardinality(s) <= n}
<1> DEFINE Is(n, g) == g = [s \in Small(n) |-> Step(g, s)]
<1>1. \A n \in Nat : \E g : Is(n, g)
  <2>1. PICK N : N = {n \in Nat : \E g : Is(n, g)}
    OBVIOUS
  <2>2. 0 \in N
    <3>1. \A s \in Small(0) : s = {}
      <4> SUFFICES ASSUME NEW s \in Small(0) PROVE s = {}
        OBVIOUS
      <4>1. Cardinality(s) \in Nat /\ (Cardinality(s) = 0 <=> s = {})
        BY FiniteSubset
      <4> QED
        BY <4>1
    <3>2. PICK g : g = [s \in Small(0) |-> 0]
      OBVIOUS
    <3>3. Is(0, g)
      BY <3>1, <3>2
    <3> HIDE DEF Is
    <3> QED
      BY <2>1, <3>3
  <2>3. ASSUME NEW n \in Nat, n \in N PROVE n + 1 \in N
    <3>1. PICK g : Is(n, g)
      BY <2>1, <2>3
    <3>2. PICK h : h = [s \in Small(n + 1) |-> IF s \in Small(n) THEN g[s] ELSE Step(g, s)]
      OBVIOUS
    <3>3. ASSUME NEW s \in Small(n + 1) PROVE h[s] = Step(h, s)
      <4>1. h[s] = Step(g, s)
        BY <3>1, <3>2
      <4>2. CASE s = {}
        BY <4>1, <4>2
      <4>3. CASE s # {}
        <5>1. PICK x : x = CHOOSE y \in s : TRUE
          OBVIOUS
        <5>2. x \in s
          BY <4>3, <5>1, Chosen
        <5>3. IsFiniteSet(s) /\ Cardinality(s) \in Nat
          BY FiniteSubset
        <5>4. Cardinality(s \ {x}) = Cardinality(s) - 1
          BY <5>2, <5>3, FS_RemoveElement
        <5>5. s \ {x} \in Small(n) /\ s \ {x} \in Small(n + 1)
          BY <5>3, <5>4
        <5>6. h[s \ {x}] = g[s \ {x}]
          BY <3>2, <5>5
        <5> QED
          BY <4>1, <5>1, <5>6
      <4> QED
        BY <4>2, <4>3
    <3>4. Is(n + 1, h)
      <4> HIDE DEF Step, Small
      <4> QED
        BY <3>2, <3>3
    <3> HIDE DEF Is
    <3>5. n + 1 \in Nat /\ \E e : Is(n + 1, e)
      BY <3>4
    <3> QED
      BY <2>1, <3>5
  <2>4. \A n \in Nat : n \in N
    BY <2>2, <2>3, Induction
  <2> QED
    BY <2>1, <2>4
<1>2. Cardinality(S) \in Nat
  BY FS_CardinalityType
<1>3. Small(Cardinality(S)) = SUBSET S
  BY FS_Subset
<1>4. PICK g : Is(Cardinality(S), g)
  BY <1>1, <1>2
<1>5. Sums(f, S, g)
  BY <1>3, <1>4 DEF Sums
<1> QED
  BY <1>5

\* A sum of numbers is at least as many times k as there are summands of k or more.
LEMMA TotalAtLeast ==
    ASSUME NEW S, IsFiniteSet(S), NEW f \in [S -> Nat],
           NEW T \in SUBSET S, NEW k \in Nat, \A x \in T : f[x] >= k
    PROVE  Total(f) \in Nat /\ Total(f) >= k * Cardinality(T)
<1>1. PICK g : Sums(f, S, g) /\ Total(f) = g[S]
  BY SumsExist, TotalForm
<1> DEFINE Good(s) == g[s] \in Nat /\ g[s] >= k * Cardinality(s \cap T)
<1>2. PICK N : N = {n \in Nat : \A s \in SUBSET S : Cardinality(s) = n => Good(s)}
  OBVIOUS
<1>3. 0 \in N
  <2>1. ASSUME NEW s \in SUBSET S, Cardinality(s) = 0 PROVE Good(s)
    <3>1. s = {}
      BY <2>1, FiniteSubset
    <3>2. g[s] = 0 /\ s \cap T = {} /\ Cardinality(s \cap T) = 0
      BY <1>1, <3>1, FS_EmptySet DEF Sums
    <3> QED
      BY <3>2
  <2> QED
    BY <1>2, <2>1
<1>4. ASSUME NEW n \in Nat, n \in N PROVE n + 1 \in N
  <2>1. ASSUME NEW s \in SUBSET S, Cardinality(s) = n + 1 PROVE Good(s)
    <3>1. IsFiniteSet(s) /\ s # {}
      <4>1. IsFiniteSet(s) /\ (Cardinality(s) = 0 <=> s = {})
        BY FiniteSubset
      <4> QED
        BY <2>1, <4>1
    <3>2. PICK x : x = CHOOSE y \in s : TRUE
      OBVIOUS
    <3>3. x \in s /\ x \in S
      BY <3>1, <3>2, Chosen
    <3>4. PICK r : r = s \ {x}
      OBVIOUS
    <3>5. r \in SUBSET S /\ Cardinality(r) = n
      <4>1. Cardinality(r) = Cardinality(s) - 1
        BY <3>1, <3>3, <3>4, FS_RemoveElement
      <4> QED
        BY <2>1, <3>4, <4>1
    <3>6. g[r] \in Nat /\ g[r] >= k * Cardinality(r \cap T)
      BY <1>2, <1>4, <3>5
    <3>7. g[s] = f[x] + g[r]
      BY <1>1, <3>1, <3>2, <3>4 DEF Sums
    <3>8. f[x] \in Nat
      BY <3>3
    <3>9. IsFiniteSet(s \cap T) /\ Cardinality(s \cap T) \in Nat
      BY <2>1, FiniteSubset
    <3>10. r \cap T = (s \cap T) \ {x}
      BY <3>4
    <3>11. CASE x \in T
      <4>1. Cardinality(r \cap T) = Cardinality(s \cap T) - 1
        <5>1. x \in s \cap T
          BY <3>3, <3>11
        <5>2. Cardinality((s \cap T) \ {x}) = Cardinality(s \cap T) - 1
          BY <3>9, <5>1, FS_RemoveElement
        <5> QED
          BY <3>10, <5>2
      <4>2. f[x] >= k
        BY <3>11
      <4>3. k * (Cardinality(s \cap T) - 1) = k * Cardinality(s \cap T) - k
        BY <3>9
      <4>4. PICK a \in Int : a = k * Cardinality(s \cap T)
        BY <3>9
      <4>5. g[r] >= a - k
        BY <3>6, <4>1, <4>3, <4>4
      <4>6. g[s] \in Nat /\ g[s] >= a
        BY <3>6, <3>7, <3>8, <4>2, <4>5
      <4> QED
        BY <4>4, <4>6
    <3>12. CASE x \notin T
      <4>1. r \cap T = s \cap T
        BY <3>10, <3>12
      <4>2. PICK a \in Int : a = k * Cardinality(s \cap T)
        BY <3>9
      <4>3. g[r] >= a
        BY <3>6, <4>1, <4>2
      <4>4. g[s] \in Nat /\ g[s] >= a
        BY <3>6, <3>7, <3>8, <4>3
      <4> QED
        BY <4>2, <4>4
    <3> QED
      BY <3>11, <3>12
  <2>2. n + 1 \in Nat
    OBVIOUS
  <2> HIDE DEF Good
  <2> QED
    BY <1>2, <2>1, <2>2
<1>5. \A n \in Nat : n \in N
  BY <1>3, <1>4, Induction
<1>6. Cardinality(S) \in Nat /\ S \cap T = T
  BY FS_CardinalityType
<1>7. Good(S)
  <2> HIDE DEF Good
  <2> QED
    BY <1>2, <1>5, <1>6
<1> QED
  BY <1>1, <1>6, <1>7

-----------------------------------------------------------------------------
(* Reading the submissions in their order *)

CellState == [solved : BOOLEAN, penalty : Int, last : Nat \cup {None}, tied : Int]

\* The submissions of a cell among the first k: accepted ones, and rejected ones.
Won(m, p, c, k) ==
    {i \in Ids : i <= k /\ Counts(subs[i], m, p, c) /\ subs[i].verdict = "accepted"}
Lost(m, p, c, k) ==
    {i \in Ids : /\ i <= k /\ Counts(subs[i], m, p, c)
                 /\ subs[i].verdict \notin {None, "accepted", "internal_error"}}

At(S, t) == {i \in S : subs[i].at = t}
Before(S, t) == {i \in S : subs[i].at < t}

\* What the cell has come to when the first k are read.
Read(m, p, c, k, cell) ==
    /\ cell \in CellState
    /\ cell.solved <=> Won(m, p, c, k) # {}
    /\ ~cell.solved =>
          /\ cell.penalty = Cardinality(Lost(m, p, c, k)) * Penalty
          /\ cell.last = None => Lost(m, p, c, k) = {}
          /\ cell.last # None =>
                /\ \A i \in Lost(m, p, c, k) : subs[i].at <= cell.last
                /\ \E i \in Lost(m, p, c, k) : subs[i].at = cell.last
                /\ cell.tied = Cardinality(At(Lost(m, p, c, k), cell.last)) * Penalty
    /\ \A j \in Won(m, p, c, k) : (\A i \in Won(m, p, c, k) : j <= i) =>
          cell.penalty = MinutesTo(subs[j].at)
                         + Cardinality(Before(Lost(m, p, c, k), subs[j].at)) * Penalty

LEMMA CellFinite ==
    ASSUME BoardInv, NEW S \in SUBSET Ids
    PROVE  IsFiniteSet(S) /\ Cardinality(S) \in Nat
<1>1. Len(subs) \in Nat /\ Ids = 1..Len(subs)
  BY DEF BoardInv, Ids
<1>2. IsFiniteSet(Ids)
  BY <1>1, FS_Interval
<1> QED
  BY <1>2, FiniteSubset

LEMMA MinutesAreInt ==
    ASSUME BoardInv, NEW t \in Nat
    PROVE  MinutesTo(t) \in Int
<1>1. window \in Windows
  BY DEF BoardInv
<1>2. window.starts \in Nat \cup {None} /\ Minute \in Nat \ {0}
  BY <1>1, ScoreboardAssumption
<1>3. CASE window.starts = None
  BY <1>3 DEF MinutesTo
<1>4. CASE window.starts # None
  <2>1. PICK d \in Int : d = t - window.starts
    BY <1>2, <1>4
  <2>2. \A a \in Int, b \in Nat \ {0} : a \div b \in Int
    OBVIOUS
  <2>3. d \div Minute \in Int
    BY <1>2, <2>1, <2>2
  <2> QED
    BY <1>4, <2>1, <2>3 DEF MinutesTo
<1> QED
  BY <1>3, <1>4

\* What Enter does with a submission.
LEMMA EnterForm ==
    ASSUME BoardInv, NEW cell \in CellState, NEW s \in Submission,
           NEW e, e = Enter(cell, s)
    PROVE  /\ e \in CellState
           /\ cell.solved \/ s.verdict \in {None, "internal_error"} => e = cell
           /\ ~cell.solved /\ s.verdict = "accepted" =>
                e.solved /\ e.penalty = cell.penalty + MinutesTo(s.at)
                                        - (IF cell.last = s.at THEN cell.tied ELSE 0)
           /\ ~cell.solved /\ s.verdict = "wrong_answer" =>
                /\ ~e.solved /\ e.penalty = cell.penalty + Penalty /\ e.last = s.at
                /\ e.tied = IF cell.last = s.at THEN cell.tied + Penalty ELSE Penalty
<1>1. /\ cell.solved \in BOOLEAN /\ cell.penalty \in Int /\ cell.last \in Nat \cup {None}
      /\ cell.tied \in Int
  BY DEF CellState
<1>2. s.verdict \in Verdict \cup {None} /\ s.at \in Nat /\ MinutesTo(s.at) \in Int
  BY MinutesAreInt DEF Submission
<1>3. Penalty \in Nat /\ None \notin Verdict
  BY ScoreboardAssumption
<1>4. CASE cell.solved \/ s.verdict \in {None, "internal_error"}
  <2>1. e = cell
    BY <1>4 DEF Enter
  <2>2. ~(~cell.solved /\ s.verdict \in {"accepted", "wrong_answer"})
    BY <1>3, <1>4 DEF Verdict
  <2> QED
    BY <2>1, <2>2
<1>5. CASE ~cell.solved /\ s.verdict = "accepted"
  <2>1. s.verdict \notin {None, "internal_error"}
    BY <1>3, <1>5 DEF Verdict
  <2>2. PICK n \in Int : n = cell.penalty + MinutesTo(s.at)
                             - (IF cell.last = s.at THEN cell.tied ELSE 0)
    BY <1>1, <1>2
  <2>3. e = [cell EXCEPT !.solved = TRUE, !.penalty = n]
    BY <1>5, <2>1, <2>2 DEF Enter
  <2>4. e \in CellState /\ e.solved = TRUE /\ e.penalty = n
    BY <2>3, Zenon DEF CellState
  <2> QED
    BY <1>5, <2>1, <2>2, <2>4
<1>6. CASE ~cell.solved /\ s.verdict = "wrong_answer"
  <2>1. s.verdict \notin {None, "internal_error", "accepted"}
    BY <1>3, <1>6 DEF Verdict
  <2>2. PICK n \in Int : n = cell.penalty + Penalty
    BY <1>1, <1>3
  <2>3. PICK d \in Int : d = IF cell.last = s.at THEN cell.tied + Penalty ELSE Penalty
    BY <1>1, <1>3
  <2>4. PICK t \in Nat : t = s.at
    BY <1>2
  <2>5. e = [cell EXCEPT !.penalty = n, !.last = t, !.tied = d]
    BY <1>6, <2>1, <2>2, <2>3, <2>4 DEF Enter
  <2>6. t \in Nat \cup {None}
    OBVIOUS
  <2>7. /\ e \in CellState /\ e.solved = cell.solved /\ e.penalty = n /\ e.last = t
        /\ e.tied = d
    BY <2>5, <2>6, Zenon DEF CellState
  <2> QED
    BY <1>6, <2>1, <2>2, <2>3, <2>4, <2>7
<1> QED
  BY <1>2, <1>4, <1>5, <1>6 DEF Verdict

\* One submission more.
LEMMA WonMore ==
    ASSUME BoardInv, NEW m, NEW p, NEW c, NEW k \in Nat, k + 1 \in Ids
    PROVE  \/ /\ Counts(subs[k + 1], m, p, c) /\ subs[k + 1].verdict = "accepted"
              /\ Won(m, p, c, k + 1) = Won(m, p, c, k) \cup {k + 1}
           \/ /\ ~(Counts(subs[k + 1], m, p, c) /\ subs[k + 1].verdict = "accepted")
              /\ Won(m, p, c, k + 1) = Won(m, p, c, k)
<1>1. \A i \in Ids : i \in Nat
  BY DEF BoardInv, Ids
<1>2. \A i \in Ids : i <= k + 1 <=> i <= k \/ i = k + 1
  BY <1>1
<1> QED
  BY <1>2 DEF Won

LEMMA LostMore ==
    ASSUME BoardInv, NEW m, NEW p, NEW c, NEW k \in Nat, k + 1 \in Ids
    PROVE  \/ /\ Counts(subs[k + 1], m, p, c)
              /\ subs[k + 1].verdict \notin {None, "accepted", "internal_error"}
              /\ Lost(m, p, c, k + 1) = Lost(m, p, c, k) \cup {k + 1}
           \/ /\ ~(Counts(subs[k + 1], m, p, c)
                   /\ subs[k + 1].verdict \notin {None, "accepted", "internal_error"})
              /\ Lost(m, p, c, k + 1) = Lost(m, p, c, k)
<1>1. \A i \in Ids : i \in Nat
  BY DEF BoardInv, Ids
<1>2. \A i \in Ids : i <= k + 1 <=> i <= k \/ i = k + 1
  BY <1>1
<1> QED
  BY <1>2 DEF Lost

LEMMA EarlierRead ==
    ASSUME BoardInv, NEW m, NEW p, NEW c, NEW k \in Nat, k + 1 \in Ids
    PROVE  /\ \A i \in Won(m, p, c, k) \cup Lost(m, p, c, k) :
                /\ i \in Ids /\ i \in Nat /\ i <= k /\ subs[i].at \in Nat
                /\ subs[i].at <= subs[k + 1].at
           /\ subs[k + 1].at \in Nat /\ subs[k + 1] \in Submission
<1>1. \A i \in Ids : i \in Nat
  BY DEF BoardInv, Ids
<1>2. \A i, j \in Ids : i <= j => subs[i].at <= subs[j].at
  BY DEF BoardInv
<1>3. \A i \in Won(m, p, c, k) \cup Lost(m, p, c, k) : i \in Ids /\ i <= k
  BY DEF Won, Lost
<1>4. \A i \in Won(m, p, c, k) \cup Lost(m, p, c, k) : i <= k + 1
  BY <1>1, <1>3
<1> QED
  BY <1>1, <1>2, <1>3, <1>4, SubmissionTypes

\* A submission that does not count, and one that comes when the cell is solved.
LEMMA ReadOver ==
    ASSUME BoardInv, NEW m, NEW p, NEW c, NEW k \in Nat, k + 1 \in Ids,
           NEW cell, Read(m, p, c, k, cell),
           \/ ~Counts(subs[k + 1], m, p, c)
           \/ cell.solved
           \/ subs[k + 1].verdict \in {None, "internal_error"}
    PROVE  Read(m, p, c, k + 1, cell)
<1> DEFINE W == Won(m, p, c, k)
           L == Lost(m, p, c, k)
           V == Won(m, p, c, k + 1)
           M == Lost(m, p, c, k + 1)
<1>1. /\ cell \in CellState
      /\ cell.solved <=> W # {}
      /\ \A j \in W : (\A i \in W : j <= i) =>
            cell.penalty = MinutesTo(subs[j].at) + Cardinality(Before(L, subs[j].at)) * Penalty
  BY DEF Read
<1>2. V = W \/ V = W \cup {k + 1}
  BY WonMore
<1>3. M = L \/ M = L \cup {k + 1}
  BY LostMore
<1>4. CASE ~cell.solved
  <2>1. V = W /\ M = L
    <3>1. None # "accepted"
      BY ScoreboardAssumption DEF Verdict
    <3>2. ~(Counts(subs[k + 1], m, p, c) /\ subs[k + 1].verdict = "accepted")
      BY <1>4, <3>1
    <3>3. ~(Counts(subs[k + 1], m, p, c)
            /\ subs[k + 1].verdict \notin {None, "accepted", "internal_error"})
      BY <1>4
    <3> QED
      BY <3>2, <3>3, WonMore, LostMore
  <2> QED
    BY <2>1 DEF Read
<1>5. CASE cell.solved
  <2>1. W # {} /\ V # {}
    BY <1>1, <1>2, <1>5
  <2>2. ASSUME NEW j \in V, \A i \in V : j <= i
        PROVE  cell.penalty = MinutesTo(subs[j].at) + Cardinality(Before(M, subs[j].at)) * Penalty
    <3>1. PICK w \in W : w \in V
      BY <1>2, <2>1
    <3>2. w <= k /\ w \in Nat
      BY EarlierRead
    <3>3. j \in W /\ \A i \in W : j <= i
      BY <1>2, <2>2, <3>1, <3>2
    <3>4. subs[j].at <= subs[k + 1].at /\ subs[j].at \in Nat /\ subs[k + 1].at \in Nat
      BY <3>3, EarlierRead
    <3>5. Before(M, subs[j].at) = Before(L, subs[j].at)
      BY <1>3, <3>4 DEF Before
    <3> QED
      BY <1>1, <3>3, <3>5
  <2>3. \A j \in V : (\A i \in V : j <= i) =>
            cell.penalty = MinutesTo(subs[j].at) + Cardinality(Before(M, subs[j].at)) * Penalty
    BY <2>2
  <2> QED
    BY <1>1, <1>5, <2>1, <2>3 DEF Read
<1> QED
  BY <1>4, <1>5

\* A rejected submission of a cell that is not solved.
LEMMA ReadRejected ==
    ASSUME BoardInv, NEW m, NEW p, NEW c, NEW k \in Nat, k + 1 \in Ids,
           NEW cell, Read(m, p, c, k, cell), ~cell.solved,
           Counts(subs[k + 1], m, p, c), subs[k + 1].verdict = "wrong_answer",
           NEW e, e = Enter(cell, subs[k + 1])
    PROVE  Read(m, p, c, k + 1, e)
<1> DEFINE W == Won(m, p, c, k)
           L == Lost(m, p, c, k)
           M == Lost(m, p, c, k + 1)
<1>1. PICK t : t = subs[k + 1].at
  OBVIOUS
<1>2. /\ cell \in CellState /\ W = {}
      /\ cell.penalty = Cardinality(L) * Penalty
      /\ cell.last = None => L = {}
      /\ cell.last # None =>
            /\ \A i \in L : subs[i].at <= cell.last
            /\ \E i \in L : subs[i].at = cell.last
            /\ cell.tied = Cardinality(At(L, cell.last)) * Penalty
  BY DEF Read
<1>3. /\ e \in CellState /\ ~e.solved /\ e.penalty = cell.penalty + Penalty /\ e.last = t
      /\ e.tied = IF cell.last = t THEN cell.tied + Penalty ELSE Penalty
  BY <1>1, <1>2, EnterForm, EarlierRead
<1>4. None \notin Verdict /\ None \notin Nat /\ Penalty \in Nat
  BY ScoreboardAssumption
<1>5. Won(m, p, c, k + 1) = {} /\ M = L \cup {k + 1}
  <2>1. subs[k + 1].verdict \notin {None, "accepted", "internal_error"}
    BY <1>4 DEF Verdict
  <2>2. ~(subs[k + 1].verdict = "accepted")
    BY <2>1
  <2>3. Won(m, p, c, k + 1) = Won(m, p, c, k)
    BY <2>2, WonMore
  <2>4. Lost(m, p, c, k + 1) = Lost(m, p, c, k) \cup {k + 1}
    BY <2>1, LostMore
  <2> QED
    BY <1>2, <2>3, <2>4
<1>6. /\ \A i \in L : i \in Ids /\ subs[i].at \in Nat /\ subs[i].at <= t
      /\ k + 1 \notin L /\ t \in Nat
  <2>1. \A i \in L : i \in Ids /\ i \in Nat /\ i <= k /\ subs[i].at \in Nat /\ subs[i].at <= t
    BY <1>1, EarlierRead
  <2>2. k + 1 \notin L
    BY <2>1
  <2> QED
    BY <1>1, <2>1, <2>2, EarlierRead
<1>7. L \in SUBSET Ids /\ At(L, t) \in SUBSET Ids /\ k + 1 \notin At(L, t)
  BY <1>6 DEF At
<1>8. IsFiniteSet(L) /\ Cardinality(L) \in Nat /\ IsFiniteSet(At(L, t))
      /\ Cardinality(At(L, t)) \in Nat
  BY <1>7, CellFinite
<1>9. e.penalty = Cardinality(M) * Penalty
  <2>1. Cardinality(M) = Cardinality(L) + 1
    BY <1>5, <1>6, <1>8, FS_AddElement
  <2>2. (Cardinality(L) + 1) * Penalty = Cardinality(L) * Penalty + Penalty
    BY <1>4, <1>8
  <2> QED
    BY <1>2, <1>3, <2>1, <2>2
<1>10. At(M, t) = At(L, t) \cup {k + 1}
  BY <1>1, <1>5 DEF At
<1>11. Cardinality(At(M, t)) = Cardinality(At(L, t)) + 1
  BY <1>7, <1>8, <1>10, FS_AddElement
<1>12. e.tied = Cardinality(At(M, t)) * Penalty
  <2>1. CASE cell.last = t
    <3>1. cell.tied = Cardinality(At(L, t)) * Penalty
      BY <1>2, <1>4, <1>6, <2>1
    <3>2. (Cardinality(At(L, t)) + 1) * Penalty = Cardinality(At(L, t)) * Penalty + Penalty
      BY <1>4, <1>8
    <3> QED
      BY <1>3, <1>11, <2>1, <3>1, <3>2
  <2>2. CASE cell.last # t
    <3>1. At(L, t) = {}
      <4>1. CASE cell.last = None
        BY <1>2, <4>1 DEF At
      <4>2. CASE cell.last # None
        <5>1. PICK l \in L : subs[l].at = cell.last
          BY <1>2, <4>2
        <5>2. cell.last \in Nat /\ cell.last < t
          BY <1>6, <2>2, <5>1
        <5>3. \A i \in L : subs[i].at < t
          BY <1>2, <1>6, <4>2, <5>2
        <5>4. \A i \in L : subs[i].at # t
          BY <1>6, <5>3
        <5> QED
          BY <5>4 DEF At
      <4> QED
        BY <4>1, <4>2
    <3>2. Cardinality(At(M, t)) = 1
      BY <1>11, <3>1, FS_EmptySet
    <3> QED
      BY <1>3, <1>4, <2>2, <3>2
  <2> QED
    BY <2>1, <2>2
<1>13. e.last # None /\ \A i \in M : subs[i].at <= t
  BY <1>1, <1>3, <1>4, <1>5, <1>6
<1>14. \E i \in M : subs[i].at = t
  BY <1>1, <1>5
<1> HIDE DEF M, L, W
<1>15. Read(m, p, c, k + 1, e)
  BY <1>3, <1>5, <1>9, <1>12, <1>13, <1>14 DEF Read, M
<1> QED
  BY <1>15

\* The first accepted submission of a cell.
LEMMA ReadAccepted ==
    ASSUME BoardInv, NEW m, NEW p, NEW c, NEW k \in Nat, k + 1 \in Ids,
           NEW cell, Read(m, p, c, k, cell), ~cell.solved,
           Counts(subs[k + 1], m, p, c), subs[k + 1].verdict = "accepted",
           NEW e, e = Enter(cell, subs[k + 1])
    PROVE  Read(m, p, c, k + 1, e)
<1> DEFINE W == Won(m, p, c, k)
           L == Lost(m, p, c, k)
           M == Lost(m, p, c, k + 1)
<1>1. PICK t : t = subs[k + 1].at
  OBVIOUS
<1>2. /\ cell \in CellState /\ W = {}
      /\ cell.penalty = Cardinality(L) * Penalty
      /\ cell.last = None => L = {}
      /\ cell.last # None =>
            /\ \A i \in L : subs[i].at <= cell.last
            /\ \E i \in L : subs[i].at = cell.last
            /\ cell.tied = Cardinality(At(L, cell.last)) * Penalty
  BY DEF Read
<1>3. /\ e \in CellState /\ e.solved
      /\ e.penalty = cell.penalty + MinutesTo(t) - (IF cell.last = t THEN cell.tied ELSE 0)
  BY <1>1, <1>2, EnterForm, EarlierRead
<1>4. None \notin Nat /\ Penalty \in Nat
  BY ScoreboardAssumption
<1>5. Won(m, p, c, k + 1) = {k + 1} /\ M = L
  <2>1. ~(subs[k + 1].verdict \notin {None, "accepted", "internal_error"})
    OBVIOUS
  <2>2. Won(m, p, c, k + 1) = Won(m, p, c, k) \cup {k + 1}
    BY WonMore
  <2>3. Lost(m, p, c, k + 1) = Lost(m, p, c, k)
    BY <2>1, LostMore
  <2> QED
    BY <1>2, <2>2, <2>3
<1>6. (\A i \in L : i \in Ids /\ subs[i].at \in Nat /\ subs[i].at <= t) /\ t \in Nat
  BY <1>1, EarlierRead
<1>7. /\ IsFiniteSet(L) /\ Cardinality(L) \in Nat
      /\ Cardinality(At(L, t)) \in Nat /\ Cardinality(Before(L, t)) \in Nat
      /\ IsFiniteSet(Before(L, t)) /\ IsFiniteSet(At(L, t))
  <2>1. L \in SUBSET Ids /\ At(L, t) \in SUBSET Ids /\ Before(L, t) \in SUBSET Ids
    BY <1>6 DEF At, Before
  <2> QED
    BY <2>1, CellFinite
<1>8. Cardinality(L) = Cardinality(Before(L, t)) + Cardinality(At(L, t))
  <2>1. L = Before(L, t) \cup At(L, t) /\ Before(L, t) \cap At(L, t) = {}
    BY <1>6 DEF Before, At
  <2>2. Cardinality(Before(L, t) \cup At(L, t)) =
          Cardinality(Before(L, t)) + Cardinality(At(L, t))
            - Cardinality(Before(L, t) \cap At(L, t))
    BY <1>7, FS_Union
  <2>3. Cardinality(Before(L, t) \cap At(L, t)) = 0
    BY <2>1, FS_EmptySet
  <2>4. Cardinality(L) = Cardinality(Before(L, t) \cup At(L, t))
    BY <2>1
  <2> HIDE DEF L
  <2> QED
    BY <1>7, <2>2, <2>3, <2>4
<1>9. MinutesTo(t) \in Int
  BY <1>6, MinutesAreInt
<1>10. e.penalty = MinutesTo(t) + Cardinality(Before(L, t)) * Penalty
  <2>1. PICK a \in Nat : a = Cardinality(Before(L, t))
    BY <1>7
  <2>2. PICK b \in Nat : b = Cardinality(At(L, t))
    BY <1>7
  <2>3. (a + b) * Penalty = a * Penalty + b * Penalty /\ a * Penalty \in Int /\ b * Penalty \in Int
    BY <1>4
  <2>4. cell.penalty = a * Penalty + b * Penalty
    BY <1>2, <1>8, <2>1, <2>2, <2>3
  <2>5. CASE cell.last = t
    <3>1. cell.tied = b * Penalty
      BY <1>2, <1>4, <1>6, <2>2, <2>5
    <3> QED
      BY <1>3, <1>9, <2>1, <2>3, <2>4, <2>5, <3>1
  <2>6. CASE cell.last # t
    <3>1. At(L, t) = {}
      <4>1. CASE cell.last = None
        BY <1>2, <4>1 DEF At
      <4>2. CASE cell.last # None
        <5>1. PICK l \in L : subs[l].at = cell.last
          BY <1>2, <4>2
        <5>2. cell.last \in Nat /\ cell.last < t
          BY <1>6, <2>6, <5>1
        <5>3. \A i \in L : subs[i].at < t
          BY <1>2, <1>6, <4>2, <5>2
        <5>4. \A i \in L : subs[i].at # t
          BY <1>6, <5>3
        <5> QED
          BY <5>4 DEF At
      <4> QED
        BY <4>1, <4>2
    <3>2. b = 0
      BY <2>2, <3>1, FS_EmptySet
    <3>3. b * Penalty = 0
      BY <1>4, <3>2
    <3> QED
      BY <1>3, <1>9, <2>1, <2>3, <2>4, <2>6, <3>3
  <2> QED
    BY <2>5, <2>6
<1> HIDE DEF W, L, M
<1>11. Read(m, p, c, k + 1, e)
  BY <1>1, <1>3, <1>5, <1>10 DEF Read, M, L
<1> QED
  BY <1>11

LEMMA ReadStep ==
    ASSUME BoardInv, NEW m, NEW p, NEW c, NEW k \in Nat, k + 1 \in Ids,
           NEW cell, Read(m, p, c, k, cell)
    PROVE  Read(m, p, c, k + 1, IF Counts(subs[k + 1], m, p, c)
                                THEN Enter(cell, subs[k + 1]) ELSE cell)
<1>1. cell \in CellState /\ subs[k + 1] \in Submission
  BY EarlierRead DEF Read
<1>2. CASE ~Counts(subs[k + 1], m, p, c)
  BY <1>2, ReadOver
<1>3. CASE Counts(subs[k + 1], m, p, c)
  <2>1. PICK e : e = Enter(cell, subs[k + 1])
    OBVIOUS
  <2>2. CASE cell.solved \/ subs[k + 1].verdict \in {None, "internal_error"}
    <3>1. e = cell
      BY <1>1, <2>1, <2>2, EnterForm
    <3> QED
      BY <1>3, <2>1, <2>2, <3>1, ReadOver
  <2>3. CASE ~cell.solved /\ subs[k + 1].verdict = "accepted"
    BY <1>3, <2>1, <2>3, ReadAccepted
  <2>4. CASE ~cell.solved /\ subs[k + 1].verdict = "wrong_answer"
    BY <1>3, <2>1, <2>4, ReadRejected
  <2> QED
    BY <1>1, <2>2, <2>3, <2>4 DEF Submission, Verdict
<1> QED
  BY <1>2, <1>3

\* The reading of the whole list is there, and it is what Read says.
LEMMA StandingRead ==
    ASSUME BoardInv, NEW m, NEW p, NEW c
    PROVE  Read(m, p, c, Len(subs), Standing(m, p, c))
<1> DEFINE Step(g, i) == IF i = 0 THEN Blank
                         ELSE IF Counts(subs[i], m, p, c) THEN Enter(g[i - 1], subs[i])
                         ELSE g[i - 1]
<1> DEFINE Is(n, g) == g = [i \in 0..n |-> Step(g, i)]
<1>1. \A n \in Nat : \E g : Is(n, g)
  <2>1. PICK N : N = {n \in Nat : \E g : Is(n, g)}
    OBVIOUS
  <2>2. 0 \in N
    <3>1. PICK g : g = [i \in 0..0 |-> Blank]
      OBVIOUS
    <3>2. Is(0, g)
      BY <3>1
    <3> HIDE DEF Is
    <3> QED
      BY <2>1, <3>2
  <2>3. ASSUME NEW n \in Nat, n \in N PROVE n + 1 \in N
    <3>1. PICK g : Is(n, g)
      BY <2>1, <2>3
    <3>2. PICK end : end = IF Counts(subs[n + 1], m, p, c) THEN Enter(g[n], subs[n + 1]) ELSE g[n]
      OBVIOUS
    <3>3. PICK h : h = [i \in 0..(n + 1) |-> IF i = n + 1 THEN end ELSE g[i]]
      OBVIOUS
    <3>4. ASSUME NEW i \in 0..(n + 1) PROVE h[i] = Step(h, i)
      <4>1. CASE i = n + 1
        <5>1. h[n] = g[n] /\ h[i] = end /\ i - 1 = n /\ i # 0
          BY <3>3, <4>1
        <5> QED
          BY <3>2, <4>1, <5>1
      <4>2. CASE i # n + 1
        <5>1. i \in 0..n /\ h[i] = g[i] /\ (i # 0 => h[i - 1] = g[i - 1])
          BY <3>3, <4>2
        <5>2. g[i] = Step(g, i)
          BY <3>1, <5>1
        <5> QED
          BY <5>1, <5>2
      <4> QED
        BY <4>1, <4>2
    <3>5. Is(n + 1, h)
      <4> HIDE DEF Step
      <4> QED
        BY <3>3, <3>4
    <3> HIDE DEF Is
    <3>6. n + 1 \in Nat /\ \E f : Is(n + 1, f)
      BY <3>5
    <3> QED
      BY <2>1, <3>6
  <2>4. \A n \in Nat : n \in N
    BY <2>2, <2>3, Induction
  <2> QED
    BY <2>1, <2>4
<1>2. Len(subs) \in Nat /\ Ids = 1..Len(subs)
  BY DEF BoardInv, Ids
<1>3. \E g : Is(Len(subs), g)
  BY <1>1, <1>2
<1>4. PICK f : Is(Len(subs), f) /\ Standing(m, p, c) = f[Len(subs)]
  BY <1>3 DEF Standing
<1>5. PICK N : N = {n \in Nat : n <= Len(subs) => Read(m, p, c, n, f[n])}
  OBVIOUS
<1>6. 0 \in N
  <2>1. f[0] = Blank
    BY <1>2, <1>4
  <2>2. \A i \in Ids : ~(i <= 0)
    BY <1>2
  <2>3. Won(m, p, c, 0) = {} /\ Lost(m, p, c, 0) = {}
    BY <2>2 DEF Won, Lost
  <2>4. /\ Blank \in CellState /\ ~Blank.solved /\ Blank.last = None
        /\ Blank.penalty = 0
    BY DEF Blank, CellState
  <2>5. Cardinality(Lost(m, p, c, 0)) * Penalty = 0
    BY <2>3, FS_EmptySet, ScoreboardAssumption
  <2>6. Read(m, p, c, 0, Blank)
    BY <2>3, <2>4, <2>5 DEF Read
  <2> QED
    BY <1>5, <2>1, <2>6
<1>7. ASSUME NEW n \in Nat, n \in N PROVE n + 1 \in N
  <2>1. SUFFICES ASSUME n + 1 <= Len(subs) PROVE Read(m, p, c, n + 1, f[n + 1])
    BY <1>5
  <2>2. n + 1 \in Ids /\ n <= Len(subs) /\ n + 1 \in 0..Len(subs) /\ n + 1 # 0
        /\ (n + 1) - 1 = n
    BY <1>2, <2>1
  <2>3. Read(m, p, c, n, f[n])
    BY <1>5, <1>7, <2>2
  <2>4. f[n + 1] = Step(f, n + 1)
    <3> HIDE DEF Step
    <3> QED
      BY <1>4, <2>2
  <2>5. f[n + 1] = IF Counts(subs[n + 1], m, p, c) THEN Enter(f[n], subs[n + 1]) ELSE f[n]
    BY <2>2, <2>4
  <2> QED
    BY <2>2, <2>3, <2>5, ReadStep
<1>8. Len(subs) \in N
  BY <1>2, <1>6, <1>7, Induction
<1> QED
  BY <1>2, <1>4, <1>5, <1>8

-----------------------------------------------------------------------------
(* The boards agree with the reading *)

LEMMA CutoffType ==
    ASSUME BoardInv, NEW canManage \in BOOLEAN
    PROVE  Cutoff(canManage) \in Nat \cup {None}
<1>1. window \in Windows
  BY DEF BoardInv
<1> QED
  BY <1>1, ScoreboardAssumption DEF Cutoff

\* A cell is solved by the reading when the board counts it, with the same penalty.
LEMMA StandingIsBoard ==
    ASSUME BoardInv, NEW m, NEW p, NEW c \in Nat \cup {None}
    PROVE  /\ Standing(m, p, c).solved <=> Accepts(m, p, c) # {}
           /\ Standing(m, p, c).solved => Standing(m, p, c).penalty = PenaltyOf(m, p, c)
<1> DEFINE n == Len(subs)
<1>1. PICK cell : cell = Standing(m, p, c)
  OBVIOUS
<1>2. n \in Nat /\ Ids = 1..n
  BY DEF BoardInv, Ids
<1>3. \A i \in Ids : i <= n /\ i \in Nat
  BY <1>2
<1>4. \A i \in Ids : Counts(subs[i], m, p, c) <=> i \in Inside(m, p) /\ InWindow(subs[i], c)
  BY DEF Counts, Inside, Of, InWindow, Started
<1>5. Won(m, p, c, n) = Accepts(m, p, c)
  <2>1. Accepts(m, p, c) \subseteq Ids
    BY DEF Accepts, Inside, Of
  <2> QED
    BY <1>3, <1>4, <2>1 DEF Won, Accepts
<1>6. Read(m, p, c, n, cell)
  BY <1>1, StandingRead
<1>7. cell.solved <=> Accepts(m, p, c) # {}
  BY <1>5, <1>6 DEF Read
<1>8. ASSUME Accepts(m, p, c) # {} PROVE cell.penalty = PenaltyOf(m, p, c)
  <2>1. Accepts(m, p, c) \in SUBSET Nat
    BY <1>3 DEF Accepts, Inside, Of
  <2>2. PICK j \in Accepts(m, p, c) : \A i \in Accepts(m, p, c) : j <= i
    BY <1>8, <2>1, LeastOfNats
  <2>3. PICK a : a = subs[j].at
    OBVIOUS
  <2>4. Accepts(m, p, c) \subseteq Ids
    BY DEF Accepts, Inside, Of
  <2>5. \A i \in Accepts(m, p, c) : a <= subs[i].at
    BY <2>2, <2>3, <2>4 DEF BoardInv
  <2>6. a \in Nat
    BY <2>3, <2>4, SubmissionTypes
  <2>7. AcceptedAt(m, p, c) = a
    BY <2>3, <2>5, <2>6, AcceptedIs
  <2>8. cell.penalty = MinutesTo(a) + Cardinality(Before(Lost(m, p, c, n), a)) * Penalty
    BY <1>5, <1>6, <2>2, <2>3 DEF Read
  <2>9. c = None \/ a <= c
    BY <2>3 DEF Accepts, InWindow
  <2>10. Before(Lost(m, p, c, n), a) = Wrong(m, p, c)
    <3>1. ASSUME NEW i \in Ids, subs[i].at < a
          PROVE  c = None \/ subs[i].at <= c
      <4>1. subs[i].at \in Nat
        BY SubmissionTypes
      <4> QED
        BY <2>6, <2>9, <3>1, <4>1
    <3>2. None \notin Nat
      BY ScoreboardAssumption
    <3>3. \A i \in Ids : subs[i].at < a =>
              (Counts(subs[i], m, p, c) <=> i \in Inside(m, p) /\ InWindow(subs[i], None))
      BY <3>1 DEF Counts, Inside, Of, InWindow, Started
    <3>4. Inside(m, p) \subseteq Ids
      BY DEF Inside, Of
    <3> QED
      BY <1>3, <2>7, <3>3, <3>4 DEF Before, Lost, Wrong
  <2> QED
    BY <2>7, <2>8, <2>10 DEF PenaltyOf
<1> QED
  BY <1>1, <1>7, <1>8

\* The best score of a cell is a number, and the full score when it is solved.
LEMMA BestBounds ==
    ASSUME BoardInv, NEW m, NEW p, NEW c
    PROVE  Best(m, p, c) \in Nat /\ (Accepts(m, p, c) # {} => Best(m, p, c) >= Full)
<1> DEFINE S == {0} \cup {subs[i].score : i \in {j \in Inside(m, p) : InWindow(subs[j], c)}}
<1>1. Full \in Nat
  BY ScoreboardAssumption
<1>2. \A i \in Ids : subs[i].score \in 0..Full
  BY SubmissionTypes DEF Submission
<1>3. S \in SUBSET (0..Full) /\ S # {}
  BY <1>1, <1>2 DEF Inside, Of
<1>4. Max(S) \in S /\ \A n \in S : n <= Max(S)
  BY <1>1, <1>3, LargestOfNats
<1>5. Best(m, p, c) = Max(S)
  BY DEF Best
<1>6. ASSUME Accepts(m, p, c) # {} PROVE Full \in S
  <2>1. PICK i \in Accepts(m, p, c) : TRUE
    BY <1>6
  <2>2. i \in Ids /\ i \in Inside(m, p) /\ InWindow(subs[i], c) /\ subs[i].verdict = "accepted"
    BY DEF Accepts, Inside, Of
  <2>3. subs[i].score = Full
    BY <2>2 DEF BoardInv
  <2> QED
    BY <2>2, <2>3
<1> HIDE DEF S
<1>7. Max(S) \in Nat
  <2>1. Max(S) \in 0..Full
    BY <1>3, <1>4
  <2> QED
    BY <1>1, <2>1
<1> QED
  BY <1>1, <1>4, <1>5, <1>6, <1>7

\* What the grade matrix says of a problem that a board counts as solved.
LEMMA CellOfSolved ==
    ASSUME BoardInv, NEW m, NEW p, NEW c, Accepts(m, p, c) # {}
    PROVE  /\ Cell(m, p) # None /\ Cell(m, p).solved
           /\ Cell(m, p).first <= AcceptedAt(m, p, c)
<1> DEFINE done == {i \in Of(m, p) : subs[i].verdict # None}
           ac == {i \in done : subs[i].verdict = "accepted"}
           S == {subs[i].score : i \in done}
           T == {subs[i].at : i \in ac}
<1>1. /\ Full \in Nat /\ None # "accepted" /\ None \notin CellOf
  BY ScoreboardAssumption DEF Verdict
<1>2. done \in SUBSET Ids /\ ac \in SUBSET Ids
  BY DEF Of
<1>3. Accepts(m, p, c) \subseteq ac
  BY <1>1 DEF Accepts, Inside, Of
<1>4. ac # {} /\ done # {}
  BY <1>3
<1>5. \A i \in Ids : subs[i].score \in 0..Full /\ subs[i].at \in Nat
  BY SubmissionTypes DEF Submission
<1>6. S \in SUBSET (0..Full) /\ S # {}
  BY <1>2, <1>4, <1>5
<1>7. T \in SUBSET Nat /\ T # {}
  BY <1>2, <1>4, <1>5
<1>8. Cardinality(done) \in Nat
  BY <1>2, CellFinite
<1>9. Cell(m, p) = [best |-> Max(S), tries |-> Cardinality(done), solved |-> TRUE,
                    first |-> Min(T)]
  BY <1>4 DEF Cell
<1>10. AcceptedAt(m, p, c) \in T
  BY <1>3, AcceptedFirst
<1> HIDE DEF S, T
<1>11. Max(S) \in Nat
  <2>1. Max(S) \in S
    BY <1>1, <1>6, LargestOfNats
  <2>2. Max(S) \in 0..Full
    BY <1>6, <2>1
  <2> QED
    BY <1>1, <2>2
<1>12. Min(T) \in Nat /\ \A n \in T : Min(T) <= n
  BY <1>7, LeastOfNats
<1>13. Cell(m, p) \in CellOf
  BY <1>8, <1>9, <1>11, <1>12 DEF CellOf
<1>14. Cell(m, p).solved /\ Cell(m, p).first = Min(T)
  BY <1>9
<1>15. Min(T) <= AcceptedAt(m, p, c)
  BY <1>10, <1>12
<1> QED
  BY <1>1, <1>13, <1>14, <1>15

\* With any number of submissions at one moment, rejudged in any order: the boards, which
\* are counted by sets, are what reading the submissions one after the other gives.
THEOREM BoardIsTheReading == Spec => []BoardsAgree
<1>1. BoardInv => BoardsAgree
  <2> SUFFICES ASSUME BoardInv, NEW canManage \in BOOLEAN, NEW m \in Member
               PROVE  LET cut  == Cutoff(canManage)
                          done == {p \in Problem : Standing(m, p, cut).solved}
                      IN  /\ Icpc(cut)[m].solved = Cardinality(done)
                          /\ Icpc(cut)[m].penalty =
                                Total([p \in done |-> Standing(m, p, cut).penalty])
                          /\ Ioi(cut)[m].score >= Full * Icpc(cut)[m].solved
                          /\ \A p \in done : Cell(m, p) # None /\ Cell(m, p).solved
                                             /\ Cell(m, p).first <= AcceptedAt(m, p, cut)
    BY DEF BoardsAgree
  <2>1. PICK c : c = Cutoff(canManage)
    OBVIOUS
  <2>2. c \in Nat \cup {None}
    BY <2>1, CutoffType
  <2>3. PICK done : done = {p \in Problem : Standing(m, p, c).solved}
    OBVIOUS
  <2>4. done = Solved(m, c)
    BY <2>2, <2>3, StandingIsBoard DEF Solved
  <2>5. Icpc(c)[m].solved = Cardinality(Solved(m, c))
        /\ Icpc(c)[m].penalty = Total([p \in Solved(m, c) |-> PenaltyOf(m, p, c)])
        /\ Ioi(c)[m].score = Total([p \in Problem |-> Best(m, p, c)])
    BY DEF Icpc, Ioi
  <2>6. [p \in done |-> Standing(m, p, c).penalty] = [p \in Solved(m, c) |-> PenaltyOf(m, p, c)]
    <3>1. \A p \in done : Standing(m, p, c).penalty = PenaltyOf(m, p, c)
      BY <2>2, <2>3, StandingIsBoard
    <3> QED
      BY <2>4, <3>1
  <2>7. Ioi(c)[m].score >= Full * Cardinality(Solved(m, c))
    <3>1. PICK f : f = [p \in Problem |-> Best(m, p, c)]
      OBVIOUS
    <3>2. f \in [Problem -> Nat] /\ \A p \in Solved(m, c) : f[p] >= Full
      BY <3>1, BestBounds DEF Solved
    <3>3. IsFiniteSet(Problem) /\ Full \in Nat /\ Solved(m, c) \in SUBSET Problem
      BY ScoreboardAssumption DEF Solved
    <3>4. Total(f) >= Full * Cardinality(Solved(m, c))
      BY <3>2, <3>3, TotalAtLeast
    <3> QED
      BY <2>5, <3>1, <3>4
  <2>8. \A p \in done : Cell(m, p) # None /\ Cell(m, p).solved
                        /\ Cell(m, p).first <= AcceptedAt(m, p, c)
    BY <2>4, CellOfSolved DEF Solved
  <2> QED
    BY <2>1, <2>3, <2>4, <2>5, <2>6, <2>7, <2>8
<1> QED
  BY <1>1, BoardInit, BoardNext, PTL DEF Spec

-----------------------------------------------------------------------------
(* What is written, compared and read back (Formats) *)

LEMMA MaxOfPlaces ==
    ASSUME NEW n \in Nat, NEW S \in SUBSET (1..n), S # {}
    PROVE  Max(S) \in S /\ \A y \in S : Max(S) >= y
<1>1. S \in SUBSET (0..n)
  OBVIOUS
<1>2. Max(S) \in S /\ \A y \in S : y <= Max(S)
  BY <1>1, LargestOfNats
<1> QED
  BY <1>2

LEMMA LargestPlace ==
    ASSUME NEW m \in Nat, NEW S \in SUBSET (1..m), m \in S
    PROVE  Max(S) = m
<1>1. \E x \in S : \A y \in S : x >= y
  OBVIOUS
<1>2. Max(S) \in S /\ \A y \in S : Max(S) >= y
  BY <1>1, Zenon DEF Max
<1>3. Max(S) >= m /\ Max(S) \in 1..m
  BY <1>2
<1> QED
  BY <1>3
-----------------------------------------------------------------------------
(* Folds *)

\* The recursion of FoldLeft: what it asks of the function it defines.
Iterates(F, base, seq, it) ==
    it = [s \in SUBSET DOMAIN seq |->
            IF s = {} THEN base ELSE F[<<it[s \ {Max(s)}], seq[Max(s)]>>]]

LEMMA FoldExists ==
    ASSUME NEW A, NEW C, NEW F \in [A \X C -> A], NEW base \in A, NEW seq \in Seq(C)
    PROVE  \E it \in [SUBSET DOMAIN seq -> A] : Iterates(F, base, seq, it)
<1> DEFINE Step(g, s) == IF s = {} THEN base ELSE F[<<g[s \ {Max(s)}], seq[Max(s)]>>]
<1> DEFINE Is(n, g) == g \in [SUBSET (1..n) -> A] /\ \A s \in SUBSET (1..n) : g[s] = Step(g, s)
<1>1. PICK len \in Nat : len = Len(seq) /\ DOMAIN seq = 1..len /\ \A i \in 1..len : seq[i] \in C
  OBVIOUS
<1> DEFINE N == {n \in Nat : n <= len => \E g : Is(n, g)}
<1>2. \A n : n \in N <=> n \in Nat /\ (n <= len => \E g : Is(n, g))
  <2> HIDE DEF Is
  <2> QED
    OBVIOUS
<1> HIDE DEF N
<1>3. 0 \in N
  <2>1. 1..0 = {}
    OBVIOUS
  <2>2. ASSUME NEW s \in SUBSET (1..0) PROVE s = {}
    BY <2>1
  <2>3. PICK g : g = [s \in SUBSET (1..0) |-> base]
    OBVIOUS
  <2>4. ASSUME NEW s \in SUBSET (1..0) PROVE g[s] = Step(g, s)
    BY <2>2, <2>3
  <2>5. Is(0, g)
    BY <2>3, <2>4
  <2> HIDE DEF Is
  <2>6. 0 \in Nat /\ \E h : Is(0, h)
    BY <2>5
  <2> QED
    BY <1>2, <2>6
<1>4. ASSUME NEW n \in Nat, n \in N PROVE n + 1 \in N
  <2>1. SUFFICES ASSUME n + 1 <= len PROVE \E g : Is(n + 1, g)
    <3> HIDE DEF Is
    <3> QED
      BY <1>2
  <2>2. PICK g : Is(n, g)
    <3>1. n <= len
      BY <1>1, <2>1
    <3> HIDE DEF Is
    <3> QED
      BY <1>2, <1>4, <3>1
  <2>3. PICK m \in Nat : m = n + 1 /\ m <= len /\ n \in Nat
    BY <2>1
  <2>4. ASSUME NEW s \in SUBSET (1..m), m \in s
        PROVE  Max(s) = m /\ s \ {m} \in SUBSET (1..n) /\ s # {}
    <3>1. Max(s) = m
      BY <2>4, LargestPlace
    <3> QED
      BY <2>3, <2>4, <3>1
  <2>5. ASSUME NEW s \in SUBSET (1..m), m \notin s PROVE s \in SUBSET (1..n)
    BY <2>3, <2>5
  <2>6. seq[m] \in C
    BY <1>1, <2>3
  <2>7. PICK h : h = [s \in SUBSET (1..m) |->
                        IF m \in s THEN F[<<g[s \ {m}], seq[m]>>] ELSE g[s]]
    OBVIOUS
  <2>8. \A s \in SUBSET (1..n) : h[s] = g[s] /\ s \in SUBSET (1..m) /\ g[s] \in A
    <3>1. TAKE s \in SUBSET (1..n)
    <3>2. s \in SUBSET (1..m) /\ m \notin s
      BY <2>3
    <3> QED
      BY <2>2, <2>7, <3>2
  <2>9. ASSUME NEW s \in SUBSET (1..m) PROVE h[s] = Step(h, s) /\ h[s] \in A
    <3>1. CASE m \in s
      <4>1. Max(s) = m /\ s \ {m} \in SUBSET (1..n) /\ s # {}
        BY <2>4, <3>1
      <4>2. h[s] = F[<<g[s \ {m}], seq[m]>>]
        BY <2>7, <3>1
      <4>3. h[s \ {m}] = g[s \ {m}] /\ g[s \ {m}] \in A
        BY <2>8, <4>1
      <4>4. h[s] = Step(h, s)
        BY <4>1, <4>2, <4>3
      <4>5. h[s] \in A
        BY <2>6, <4>2, <4>3
      <4> QED
        BY <4>4, <4>5
    <3>2. CASE m \notin s
      <4>1. s \in SUBSET (1..n)
        BY <2>5, <3>2
      <4>2. h[s] = g[s] /\ g[s] = Step(g, s) /\ g[s] \in A
        BY <2>2, <2>8, <4>1
      <4>3. CASE s = {}
        BY <4>2, <4>3
      <4>4. CASE s # {}
        <5>1. s \ {Max(s)} \in SUBSET (1..n)
          BY <4>1
        <5>2. h[s \ {Max(s)}] = g[s \ {Max(s)}]
          BY <2>8, <5>1
        <5> QED
          BY <4>2, <4>4, <5>2
      <4> QED
        BY <4>3, <4>4
    <3> QED
      BY <3>1, <3>2
  <2>10. h \in [SUBSET (1..m) -> A]
    BY <2>7, <2>9
  <2>11. Is(m, h)
    BY <2>9, <2>10
  <2> HIDE DEF Is
  <2> QED
    BY <2>3, <2>11
<1>5. len \in N
  <2> HIDE DEF Is
  <2> QED
    BY <1>3, <1>4, Induction
<1>6. PICK g : Is(len, g)
  <2> HIDE DEF Is
  <2> QED
    BY <1>2, <1>5
<1>7. g \in [SUBSET DOMAIN seq -> A] /\ \A s \in SUBSET DOMAIN seq : g[s] = Step(g, s)
  BY <1>1, <1>6
<1>8. Iterates(F, base, seq, g)
  BY <1>7 DEF Iterates
<1> QED
  BY <1>7, <1>8

LEMMA FirstPlaces ==
    ASSUME NEW i \in Nat, i > 0
    PROVE  Max(1..i) = i /\ (1..i) \ {i} = 1..(i - 1) /\ 1..i # {}
<1>1. Max(1..i) = i
  BY LargestPlace
<1> QED
  BY <1>1

\* F reads elements of C, one by one, from a state of A.
Reader(A, C, F, base) == F \in [A \X C -> A] /\ base \in A

Reading(F, base, seq, g) ==
    g[0] = base /\ \A i \in 1..Len(seq) : g[i] = F[<<g[i - 1], seq[i]>>]

\* An element after the other is read.
LEMMA FoldReads ==
    ASSUME NEW A, NEW C, NEW F, NEW base, Reader(A, C, F, base), NEW seq \in Seq(C)
    PROVE  \E g : Reading(F, base, seq, g)
<1>0. PICK it \in [SUBSET DOMAIN seq -> A] : Iterates(F, base, seq, it)
  BY FoldExists DEF Reader
<1>1. PICK n \in Nat : n = Len(seq) /\ DOMAIN seq = 1..n
  OBVIOUS
<1>2. PICK g : g = [i \in 0..n |-> it[1..i]]
  OBVIOUS
<1>3. \A s \in SUBSET (1..n) : it[s] = IF s = {} THEN base ELSE F[<<it[s \ {Max(s)}], seq[Max(s)]>>]
  BY <1>0, <1>1 DEF Iterates
<1>4. \A i \in 0..n : 1..i \in SUBSET (1..n)
  OBVIOUS
<1>6. g[0] = base
  <2>1. PICK none : none = 1..0
    OBVIOUS
  <2>2. none = {} /\ none \in SUBSET (1..n)
    BY <2>1
  <2>3. it[none] = base
    BY <1>3, <2>2
  <2>4. g[0] = it[1..0]
    BY <1>2
  <2> QED
    BY <2>1, <2>3, <2>4
<1>7. ASSUME NEW i \in 1..n PROVE g[i] = F[<<g[i - 1], seq[i]>>]
  <2>1. Max(1..i) = i /\ (1..i) \ {i} = 1..(i - 1) /\ 1..i # {}
    <3>1. i \in Nat /\ i > 0
      OBVIOUS
    <3> QED
      BY <3>1, FirstPlaces
  <2>2. PICK s : s = 1..i
    OBVIOUS
  <2>3. s \in SUBSET (1..n)
    BY <1>4, <2>2
  <2>6. s # {} /\ Max(s) = i /\ s \ {Max(s)} = 1..(i - 1)
    BY <2>1, <2>2
  <2>4. it[s] = F[<<it[1..(i - 1)], seq[i]>>]
    BY <1>3, <2>3, <2>6
  <2>5. g[i] = it[s] /\ g[i - 1] = it[1..(i - 1)]
    BY <1>2, <2>2
  <2> QED
    BY <2>4, <2>5
<1> QED
  BY <1>1, <1>6, <1>7 DEF Reading

\* Two readings that begin alike and go on alike are alike.
LEMMA SameReading ==
    ASSUME NEW n \in Nat, NEW g, NEW h, g[0] = h[0],
           \A i \in 1..n : g[i - 1] = h[i - 1] => g[i] = h[i]
    PROVE  g[n] = h[n]
<1>1. PICK N : N = {i \in Nat : i <= n => g[i] = h[i]}
  OBVIOUS
<1>2. 0 \in N
  BY <1>1
<1>3. ASSUME NEW i \in Nat, i \in N PROVE i + 1 \in N
  <2>1. SUFFICES ASSUME i + 1 <= n PROVE g[i + 1] = h[i + 1]
    BY <1>1
  <2>2. PICK j : j = i + 1
    OBVIOUS
  <2>3. j \in 1..n /\ j - 1 = i /\ i <= n
    BY <2>1, <2>2
  <2>4. g[j - 1] = h[j - 1]
    BY <1>1, <1>3, <2>3
  <2> QED
    BY <2>2, <2>3, <2>4
<1>4. n \in N
  BY <1>2, <1>3, Induction
<1> QED
  BY <1>1, <1>4

Reads(F, base, seq) == LET g == CHOOSE g : Reading(F, base, seq, g) IN g[Len(seq)]

LEMMA ReadingTyped ==
    ASSUME NEW A, NEW C, NEW F, NEW base, Reader(A, C, F, base), NEW seq \in Seq(C),
           NEW g, Reading(F, base, seq, g)
    PROVE  \A i \in 0..Len(seq) : g[i] \in A
<1>1. PICK n \in Nat : n = Len(seq) /\ \A i \in 1..n : seq[i] \in C
  OBVIOUS
<1>2. PICK N : N = {i \in Nat : i <= n => g[i] \in A}
  OBVIOUS
<1>3. 0 \in N
  BY <1>2 DEF Reading, Reader
<1>4. ASSUME NEW i \in Nat, i \in N PROVE i + 1 \in N
  <2>1. SUFFICES ASSUME i + 1 <= n PROVE g[i + 1] \in A
    BY <1>2
  <2>2. PICK j : j = i + 1
    OBVIOUS
  <2>3. j \in 1..n /\ j - 1 = i /\ i <= n
    BY <2>1, <2>2
  <2>4. g[j] = F[<<g[i], seq[j]>>]
    BY <1>1, <2>3 DEF Reading
  <2>5. g[i] \in A /\ seq[j] \in C
    BY <1>1, <1>2, <1>4, <2>3
  <2> QED
    BY <2>2, <2>4, <2>5 DEF Reader
<1>5. \A i \in Nat : i \in N
  BY <1>3, <1>4, Induction
<1> QED
  BY <1>1, <1>2, <1>5

\* What is read of a sequence, however the reading is written down.
LEMMA ReadsIs ==
    ASSUME NEW A, NEW C, NEW F, NEW base, Reader(A, C, F, base), NEW seq \in Seq(C)
    PROVE  /\ Reads(F, base, seq) \in A
           /\ \E g : Reading(F, base, seq, g)
           /\ \A g : Reading(F, base, seq, g) => g[Len(seq)] = Reads(F, base, seq)
<1>3. \E g : Reading(F, base, seq, g)
  BY FoldReads
<1> DEFINE the == CHOOSE g : Reading(F, base, seq, g)
<1>4. Reading(F, base, seq, the)
  BY <1>3, Zenon
<1>5. Reads(F, base, seq) = the[Len(seq)]
  BY DEF Reads
<1> HIDE DEF the
<1>6. Len(seq) \in Nat /\ Len(seq) \in 0..Len(seq)
  OBVIOUS
<1>7. Reads(F, base, seq) \in A
  BY <1>4, <1>5, <1>6, ReadingTyped
<1>8. ASSUME NEW g, Reading(F, base, seq, g) PROVE g[Len(seq)] = the[Len(seq)]
  <2>1. g[0] = the[0] /\ \A i \in 1..Len(seq) : g[i - 1] = the[i - 1] => g[i] = the[i]
    BY <1>4, <1>8 DEF Reading
  <2> QED
    BY <1>6, <2>1, SameReading
<1> QED
  BY <1>3, <1>5, <1>7, <1>8

LEMMA ReadsNone ==
    ASSUME NEW A, NEW C, NEW F, NEW base, Reader(A, C, F, base)
    PROVE  Reads(F, base, <<>>) = base
<1>1. <<>> \in Seq(C) /\ Len(<<>>) = 0
  OBVIOUS
<1> DEFINE none == <<>>
<1>2. none \in Seq(C)
  BY <1>1
<1>6. Len(none) = 0
  BY <1>1
<1> HIDE DEF none
<1>3. PICK g : Reading(F, base, none, g)
  BY <1>2, ReadsIs
<1>4. g[Len(none)] = Reads(F, base, none)
  BY <1>2, <1>3, ReadsIs
<1>5. Reads(F, base, none) = base
  BY <1>3, <1>4, <1>6 DEF Reading
<1> QED
  BY <1>5 DEF none

\* What is read of a sequence that goes on.
LEMMA ReadsOn ==
    ASSUME NEW A, NEW C, NEW F, NEW base, Reader(A, C, F, base),
           NEW seq \in Seq(C), NEW more \in Seq(C)
    PROVE  Reads(F, base, seq \o more) = Reads(F, Reads(F, base, seq), more)
<1> DEFINE all == seq \o more
           n == Len(seq)
           m == Len(more)
<1>1. /\ all \in Seq(C) /\ n \in Nat /\ m \in Nat /\ Len(all) = n + m
      /\ Len(seq) = n /\ Len(more) = m
      /\ \A i \in 1..n : all[i] = seq[i]
      /\ \A i \in 1..m : all[n + i] = more[i]
  OBVIOUS
<1> HIDE DEF all, n, m
<1>2. PICK g : Reading(F, base, seq, g) /\ g[n] = Reads(F, base, seq) /\ g[n] \in A
  BY <1>1, ReadsIs
<1>11. Reader(A, C, F, g[n])
  BY <1>2 DEF Reader
<1>3. PICK h : Reading(F, g[n], more, h)
  BY <1>11, ReadsIs
<1>4. PICK k : k = [i \in 0..(n + m) |-> IF i <= n THEN g[i] ELSE h[i - n]]
  OBVIOUS
<1>5. k[0] = base /\ g[n] = h[0]
  BY <1>1, <1>2, <1>3, <1>4 DEF Reading
<1>6. ASSUME NEW i \in 1..(n + m) PROVE k[i] = F[<<k[i - 1], all[i]>>]
  <2>1. CASE i <= n
    <3>1. k[i] = g[i] /\ k[i - 1] = g[i - 1] /\ i \in 1..n
      BY <1>1, <1>4, <2>1
    <3> QED
      BY <1>1, <1>2, <3>1 DEF Reading
  <2>2. CASE i > n
    <3>1. PICK j : j = i - n /\ j \in 1..m /\ i = n + j
      BY <1>1, <2>2
    <3>2. k[i] = h[j]
      BY <1>1, <1>4, <2>2, <3>1
    <3>3. k[i - 1] = h[j - 1]
      <4>1. CASE j = 1
        <5>1. i - 1 = n /\ j - 1 = 0 /\ n \in 0..(n + m)
          BY <1>1, <3>1, <4>1
        <5>2. k[n] = g[n]
          BY <1>1, <1>4, <5>1
        <5> QED
          BY <1>5, <5>1, <5>2
      <4>2. CASE j # 1
        <5>1. i - 1 > n /\ (i - 1) - n = j - 1 /\ i - 1 \in 0..(n + m)
          BY <1>1, <3>1, <4>2
        <5> QED
          BY <1>1, <1>4, <5>1
      <4> QED
        BY <4>1, <4>2
    <3>4. h[j] = F[<<h[j - 1], more[j]>>]
      BY <1>1, <1>3, <3>1 DEF Reading
    <3>5. all[i] = more[j]
      BY <1>1, <3>1
    <3> QED
      BY <3>2, <3>3, <3>4, <3>5
  <2> QED
    BY <1>1, <2>1, <2>2
<1>7. Reading(F, base, all, k)
  BY <1>1, <1>5, <1>6 DEF Reading
<1>8. k[n + m] = Reads(F, base, all)
  <2>2. all \in Seq(C)
    BY <1>1
  <2>1. k[Len(all)] = Reads(F, base, all)
    BY <1>7, <2>2, ReadsIs
  <2> QED
    BY <1>1, <2>1
<1>9. h[m] = Reads(F, g[n], more)
  <2>1. h[Len(more)] = Reads(F, g[n], more)
    BY <1>3, <1>11, ReadsIs
  <2> QED
    BY <1>1, <2>1
<1>10. k[n + m] = h[m]
  <2>1. CASE m = 0
    <3>1. k[n] = g[n] /\ n + m = n
      BY <1>1, <1>4, <2>1
    <3> QED
      BY <1>5, <2>1, <3>1
  <2>2. CASE m # 0
    <3>1. n + m > n /\ (n + m) - n = m /\ n + m \in 0..(n + m)
      BY <1>1, <2>2
    <3> QED
      BY <1>1, <1>4, <3>1
  <2> QED
    BY <2>1, <2>2
<1> QED
  BY <1>2, <1>8, <1>9, <1>10 DEF all

LEMMA ReadsOne ==
    ASSUME NEW A, NEW C, NEW F, NEW base, Reader(A, C, F, base),
           NEW seq \in Seq(C), NEW c \in C
    PROVE  Reads(F, base, Append(seq, c)) = F[<<Reads(F, base, seq), c>>]
<1> DEFINE all == Append(seq, c)
           n == Len(seq)
<1>1. /\ all \in Seq(C) /\ n \in Nat /\ Len(all) = n + 1 /\ Len(seq) = n
      /\ \A i \in 1..n : all[i] = seq[i]
      /\ all[n + 1] = c
  OBVIOUS
<1> HIDE DEF all, n
<1>2. PICK g : Reading(F, base, all, g) /\ g[n + 1] = Reads(F, base, all)
  BY <1>1, ReadsIs
<1>3. Reading(F, base, seq, g)
  BY <1>1, <1>2 DEF Reading
<1>4. g[n] = Reads(F, base, seq)
  BY <1>1, <1>3, ReadsIs
<1>5. g[n + 1] = F[<<g[n], c>>]
  <2>1. n + 1 \in 1..(n + 1) /\ (n + 1) - 1 = n
    BY <1>1
  <2> QED
    BY <1>1, <1>2, <2>1 DEF Reading
<1> QED
  BY <1>2, <1>4, <1>5 DEF all

\* What holds of what is read of nothing, and goes on holding, holds of what is read.
LEMMA ReadsKeep ==
    ASSUME NEW A, NEW C, NEW F, NEW base, Reader(A, C, F, base), NEW seq \in Seq(C),
           NEW good, base \in good,
           \A i \in 1..Len(seq), a \in A : a \in good => F[<<a, seq[i]>>] \in good
    PROVE  Reads(F, base, seq) \in good
<1>1. PICK g : Reading(F, base, seq, g) /\ g[Len(seq)] = Reads(F, base, seq)
  BY ReadsIs
<1>2. \A i \in 0..Len(seq) : g[i] \in A
  BY <1>1, ReadingTyped
<1>3. PICK n \in Nat : n = Len(seq) /\ \A i \in 1..n : seq[i] \in C
  OBVIOUS
<1>4. PICK N : N = {i \in Nat : i <= n => g[i] \in good}
  OBVIOUS
<1>5. 0 \in N
  BY <1>1, <1>4 DEF Reading
<1>6. ASSUME NEW i \in Nat, i \in N PROVE i + 1 \in N
  <2>1. SUFFICES ASSUME i + 1 <= n PROVE g[i + 1] \in good
    BY <1>4
  <2>2. PICK j : j = i + 1
    OBVIOUS
  <2>3. j \in 1..n /\ j - 1 = i /\ i <= n /\ i \in 0..n
    BY <2>1, <2>2
  <2>4. g[j] = F[<<g[i], seq[j]>>]
    BY <1>1, <1>3, <2>3 DEF Reading
  <2>5. g[i] \in A /\ g[i] \in good /\ seq[j] \in C
    BY <1>2, <1>3, <1>4, <1>6, <2>3
  <2>6. j \in 1..Len(seq)
    BY <1>3, <2>3
  <2>7. F[<<g[i], seq[j]>>] \in good
    BY <2>5, <2>6
  <2> QED
    BY <2>2, <2>4, <2>7
<1>7. n \in N
  BY <1>5, <1>6, Induction
<1> QED
  BY <1>1, <1>3, <1>4, <1>7
Recurses(A, C, F, base, seq, it) ==
    /\ it = [s \in SUBSET DOMAIN seq |-> it[s]]
    /\ it[{}] = base
    /\ \A s \in SUBSET DOMAIN seq : s # {} =>
        /\ it[s \ {Max(s)}] \in A /\ seq[Max(s)] \in C
        /\ it[s] = F[<<it[s \ {Max(s)}], seq[Max(s)]>>]

FoldsOn(A, C, F, base, seq, it) ==
    /\ it[{}] = base
    /\ \A s \in SUBSET DOMAIN seq :
        s # {} /\ it[s \ {Max(s)}] \in A /\ seq[Max(s)] \in C
            => it[s] = F[<<it[s \ {Max(s)}], seq[Max(s)]>>]

\* A recursion over the places of a sequence that goes on as F does: there is one, and
\* each returns what F reads.
LEMMA Recursion ==
    ASSUME NEW A, NEW C, NEW F, NEW base, Reader(A, C, F, base), NEW seq \in Seq(C)
    PROVE  \E it : Recurses(A, C, F, base, seq, it)
<1>1. PICK it \in [SUBSET DOMAIN seq -> A] : Iterates(F, base, seq, it)
  BY FoldExists DEF Reader
<1>2. PICK n \in Nat : n = Len(seq) /\ DOMAIN seq = 1..n /\ \A i \in 1..n : seq[i] \in C
  OBVIOUS
<1>3. ASSUME NEW s \in SUBSET DOMAIN seq, s # {} PROVE Max(s) \in s
  <2>1. s \in SUBSET (1..n)
    BY <1>2
  <2> QED
    BY <1>3, <2>1, MaxOfPlaces
<1>4. \A s \in SUBSET DOMAIN seq :
        it[s] = IF s = {} THEN base ELSE F[<<it[s \ {Max(s)}], seq[Max(s)]>>]
  BY <1>1 DEF Iterates
<1>5. ASSUME NEW s \in SUBSET DOMAIN seq, s # {}
      PROVE  /\ it[s \ {Max(s)}] \in A /\ seq[Max(s)] \in C
             /\ it[s] = F[<<it[s \ {Max(s)}], seq[Max(s)]>>]
  BY <1>1, <1>2, <1>3, <1>4, <1>5
<1>6. it = [s \in SUBSET DOMAIN seq |-> it[s]] /\ it[{}] = base
  BY <1>1, <1>4
<1>7. Recurses(A, C, F, base, seq, it)
  BY <1>5, <1>6 DEF Recurses
<1> QED
  BY <1>7

LEMMA RecursionReads ==
    ASSUME NEW A, NEW C, NEW F, NEW base, Reader(A, C, F, base), NEW seq \in Seq(C),
           NEW it, FoldsOn(A, C, F, base, seq, it)
    PROVE  it[DOMAIN seq] = Reads(F, base, seq)
<1>1. PICK n \in Nat : n = Len(seq) /\ DOMAIN seq = 1..n /\ \A i \in 1..n : seq[i] \in C
  OBVIOUS
<1>2. PICK g : g = [i \in 0..n |-> it[1..i]]
  OBVIOUS
<1>3. g[0] = base /\ base \in A
  <2>1. 1..0 = {}
    OBVIOUS
  <2>2. g[0] = it[1..0]
    BY <1>2
  <2> QED
    BY <2>1, <2>2 DEF Reader, FoldsOn
<1>4. ASSUME NEW i \in 1..n, g[i - 1] \in A
      PROVE  g[i] = F[<<g[i - 1], seq[i]>>] /\ g[i] \in A
  <2>1. i \in Nat /\ i > 0
    OBVIOUS
  <2>2. Max(1..i) = i /\ (1..i) \ {i} = 1..(i - 1) /\ 1..i # {}
    BY <2>1, FirstPlaces
  <2>3. PICK s : s = 1..i
    OBVIOUS
  <2>4. s \in SUBSET DOMAIN seq
    BY <1>1, <2>3
  <2>5. Max(s) = i /\ s \ {Max(s)} = 1..(i - 1) /\ s # {}
    BY <2>2, <2>3
  <2>6. g[i] = it[s] /\ g[i - 1] = it[1..(i - 1)]
    BY <1>2, <2>3
  <2>7. seq[Max(s)] \in C /\ it[s \ {Max(s)}] \in A
    BY <1>1, <1>4, <2>5, <2>6
  <2>8. it[s] = F[<<it[s \ {Max(s)}], seq[Max(s)]>>]
    BY <2>4, <2>5, <2>7 DEF FoldsOn
  <2>9. g[i] = F[<<g[i - 1], seq[i]>>]
    BY <2>5, <2>6, <2>8
  <2> QED
    BY <1>1, <1>4, <2>9 DEF Reader
<1>5. \A i \in 0..n : g[i] \in A
  <2> DEFINE N == {i \in Nat : i <= n => g[i] \in A}
  <2>1. 0 \in N
    BY <1>3
  <2>2. ASSUME NEW i \in Nat, i \in N PROVE i + 1 \in N
    <3>1. SUFFICES ASSUME i + 1 <= n PROVE g[i + 1] \in A
      OBVIOUS
    <3>2. PICK j : j = i + 1
      OBVIOUS
    <3>3. j \in 1..n /\ g[j - 1] \in A
      BY <2>2, <3>1, <3>2
    <3> QED
      BY <1>4, <3>2, <3>3
  <2> HIDE DEF N
  <2>3. \A i \in Nat : i \in N
    BY <2>1, <2>2, Induction
  <2> QED
    BY <2>3 DEF N
<1>6. Reading(F, base, seq, g)
  <2>1. ASSUME NEW i \in 1..n PROVE g[i] = F[<<g[i - 1], seq[i]>>]
    <3>1. i - 1 \in 0..n
      OBVIOUS
    <3> QED
      BY <1>4, <1>5, <3>1
  <2> QED
    BY <1>1, <1>3, <2>1 DEF Reading
<1>7. g[Len(seq)] = Reads(F, base, seq)
  BY <1>6, ReadsIs
<1>8. g[n] = it[DOMAIN seq]
  BY <1>1, <1>2
<1> QED
  BY <1>1, <1>7, <1>8

\* A sequence that is not empty, as its last element behind the others.
LEMMA LastSplit ==
    ASSUME NEW S, NEW seq \in Seq(S), seq # <<>>
    PROVE  \E pre \in Seq(S), x \in S : seq = Append(pre, x)
<1>1. PICK n \in Nat : n + 1 = Len(seq)
  <2>1. Len(seq) \in Nat \ {0}
    BY EmptySeq
  <2>2. PICK m : m = Len(seq) - 1
    OBVIOUS
  <2> QED
    BY <2>1, <2>2
<1>2. PICK pre : pre = SubSeq(seq, 1, n)
  OBVIOUS
<1>3. pre \in Seq(S) /\ Len(pre) = n /\ \A i \in 1..n : pre[i] = seq[i]
  BY <1>1, <1>2
<1>4. PICK x : x = seq[n + 1]
  OBVIOUS
<1>5. x \in S
  BY <1>1, <1>4
<1>6. PICK all : all = Append(pre, x)
  OBVIOUS
<1>7. /\ all \in Seq(S) /\ Len(all) = n + 1
      /\ \A i \in 1..n : all[i] = pre[i]
      /\ all[n + 1] = x
  BY <1>3, <1>5, <1>6
<1>8. ASSUME NEW i \in 1..(n + 1) PROVE all[i] = seq[i]
  <2>1. CASE i = n + 1
    BY <1>4, <1>7, <2>1
  <2>2. CASE i \in 1..n
    BY <1>3, <1>7, <2>2
  <2> QED
    BY <2>1, <2>2
<1>9. all = seq
  BY <1>1, <1>7, <1>8, SeqEqual
<1> QED
  BY <1>3, <1>5, <1>6, <1>9

LEMMA LastPut ==
    ASSUME NEW S, NEW pre \in Seq(Seq(S)), NEW x \in Seq(S), NEW c \in S
    PROVE  [Append(pre, x) EXCEPT ![Len(Append(pre, x))] = Append(@, c)] = Append(pre, Append(x, c))
<1>1. PICK all : all = Append(pre, x)
  OBVIOUS
<1>2. PICK n \in Nat : n = Len(pre)
  OBVIOUS
<1>20. PICK y : y = Append(x, c)
  OBVIOUS
<1>3. y \in Seq(S) /\ y = Append(x, c)
  BY <1>20, AppendProperties
<1>4. /\ all \in Seq(Seq(S)) /\ Len(all) = n + 1
      /\ \A i \in 1..n : all[i] = pre[i]
      /\ all[n + 1] = x
  BY <1>1, <1>2
<1>5. PICK put : put = [all EXCEPT ![n + 1] = y]
  OBVIOUS
<1>6. PICK other : other = Append(pre, y)
  OBVIOUS
<1>7. /\ other \in Seq(Seq(S)) /\ Len(other) = n + 1
      /\ \A i \in 1..n : other[i] = pre[i]
      /\ other[n + 1] = y
  BY <1>2, <1>3, <1>6
<1>8. put \in Seq(Seq(S)) /\ Len(put) = n + 1
  BY <1>3, <1>4, <1>5
<1>9. ASSUME NEW i \in 1..(n + 1) PROVE put[i] = other[i]
  <2>1. CASE i = n + 1
    BY <1>4, <1>5, <1>7, <2>1
  <2>2. CASE i \in 1..n
    BY <1>4, <1>5, <1>7, <2>2
  <2> QED
    BY <2>1, <2>2
<1>10. put = other
  BY <1>7, <1>8, <1>9, SeqEqual
<1> QED
  BY <1>1, <1>3, <1>4, <1>5, <1>6, <1>10

LEMMA LastOf ==
    ASSUME NEW S, NEW pre \in Seq(S), NEW x \in S
    PROVE  /\ Append(pre, x) \in Seq(S) /\ Append(pre, x) # <<>>
           /\ Append(pre, x)[Len(Append(pre, x))] = x
<1>1. PICK all : all = Append(pre, x)
  OBVIOUS
<1>2. PICK n \in Nat : n = Len(pre)
  OBVIOUS
<1>3. all \in Seq(S) /\ Len(all) = n + 1 /\ all[n + 1] = x /\ all # <<>>
  BY <1>1, <1>2, AppendProperties
<1> QED
  BY <1>1, <1>3

-----------------------------------------------------------------------------
(* The lines and the tokens of an output *)

Visible == Chars \ {"LF", "CR"}
LineStates == [lines : Seq(Seq(Visible)) \ {<<>>}, cr : BOOLEAN]
CharReader == [p \in LineStates \X Chars |-> ReadChar(p[1], p[2])]

\* The reading of a line x behind other lines.
InLine(pre, x, cr) == [lines |-> Append(pre, x), cr |-> cr]

LEMMA InLineStates ==
    /\ \A pre \in Seq(Seq(Visible)), x \in Seq(Visible), cr \in BOOLEAN :
        InLine(pre, x, cr) \in LineStates
    /\ \A acc \in LineStates : \E pre \in Seq(Seq(Visible)), x \in Seq(Visible), cr \in BOOLEAN :
        acc = InLine(pre, x, cr)
<1>1. ASSUME NEW pre \in Seq(Seq(Visible)), NEW x \in Seq(Visible), NEW cr \in BOOLEAN
      PROVE  InLine(pre, x, cr) \in LineStates
  <2>1. Append(pre, x) \in Seq(Seq(Visible)) /\ Append(pre, x) # <<>>
    BY AppendProperties
  <2> QED
    BY <2>1 DEF InLine, LineStates
<1>2. ASSUME NEW acc \in LineStates
      PROVE  \E pre \in Seq(Seq(Visible)), x \in Seq(Visible), cr \in BOOLEAN :
                acc = InLine(pre, x, cr)
  <2>1. acc = [lines |-> acc.lines, cr |-> acc.cr] /\ acc.cr \in BOOLEAN
    BY DEF LineStates
  <2>2. acc.lines \in Seq(Seq(Visible)) /\ acc.lines # <<>>
    BY DEF LineStates
  <2>3. PICK pre \in Seq(Seq(Visible)), x \in Seq(Visible) : acc.lines = Append(pre, x)
    BY <2>2, LastSplit
  <2>4. acc = InLine(pre, x, acc.cr)
    BY <2>1, <2>3 DEF InLine
  <2> QED
    BY <2>1, <2>4
<1> QED
  BY <1>1, <1>2

LEMMA ReadInLine ==
    ASSUME NEW pre \in Seq(Seq(Visible)), NEW x \in Seq(Visible), NEW cr \in BOOLEAN
    PROVE  /\ ReadChar(InLine(pre, x, TRUE), "LF") = InLine(pre, x, FALSE)
           /\ ReadChar(InLine(pre, x, FALSE), "LF") = InLine(Append(pre, x), <<>>, FALSE)
           /\ ReadChar(InLine(pre, x, cr), "CR") = InLine(Append(pre, x), <<>>, TRUE)
           /\ \A c \in Visible : ReadChar(InLine(pre, x, cr), c) = InLine(pre, Append(x, c), FALSE)
<1>1. PICK all : all = Append(pre, x)
  OBVIOUS
<1>2. \A c \in Visible : [all EXCEPT ![Len(all)] = Append(@, c)] = Append(pre, Append(x, c))
  BY <1>1, LastPut
<1>3. \A q : InLine(pre, x, q) = [lines |-> all, cr |-> q]
  BY <1>1 DEF InLine
<1>4. ReadChar(InLine(pre, x, TRUE), "LF") = InLine(pre, x, FALSE)
  <2>1. ReadChar([lines |-> all, cr |-> TRUE], "LF") = [lines |-> all, cr |-> FALSE]
    BY DEF ReadChar
  <2> QED
    BY <1>3, <2>1
<1>5. ReadChar(InLine(pre, x, FALSE), "LF") = InLine(Append(pre, x), <<>>, FALSE)
  <2>1. ReadChar([lines |-> all, cr |-> FALSE], "LF") = [lines |-> Append(all, <<>>), cr |-> FALSE]
    BY DEF ReadChar
  <2> QED
    BY <1>1, <1>3, <2>1 DEF InLine
<1>6. ReadChar(InLine(pre, x, cr), "CR") = InLine(Append(pre, x), <<>>, TRUE)
  <2>1. ReadChar([lines |-> all, cr |-> cr], "CR") = [lines |-> Append(all, <<>>), cr |-> TRUE]
    BY DEF ReadChar
  <2> QED
    BY <1>1, <1>3, <2>1 DEF InLine
<1>7. ASSUME NEW c \in Visible
      PROVE  ReadChar(InLine(pre, x, cr), c) = InLine(pre, Append(x, c), FALSE)
  <2>1. c # "LF" /\ c # "CR"
    BY DEF Visible
  <2>2. ReadChar([lines |-> all, cr |-> cr], c)
            = [lines |-> [all EXCEPT ![Len(all)] = Append(@, c)], cr |-> FALSE]
    BY <2>1 DEF ReadChar
  <2> QED
    BY <1>2, <1>3, <2>2 DEF InLine
<1> QED
  BY <1>4, <1>5, <1>6, <1>7

LEMMA ReadCharType ==
    ASSUME NEW acc \in LineStates, NEW ch \in Chars
    PROVE  ReadChar(acc, ch) \in LineStates
<1>1. PICK pre \in Seq(Seq(Visible)), x \in Seq(Visible), cr \in BOOLEAN : acc = InLine(pre, x, cr)
  BY InLineStates
<1>2. PICK none : none = <<>>
  OBVIOUS
<1>3. none \in Seq(Visible) /\ Append(pre, x) \in Seq(Seq(Visible))
  BY <1>2, EmptySeq
<1>4. \A p \in Seq(Seq(Visible)), y \in Seq(Visible), q \in {TRUE, FALSE} :
            InLine(p, y, q) \in LineStates
  BY InLineStates
<1>5. CASE ch = "LF" /\ cr = TRUE
  BY <1>1, <1>4, <1>5, ReadInLine
<1>6. CASE ch = "LF" /\ cr = FALSE
  <2>1. ReadChar(acc, ch) = InLine(Append(pre, x), none, FALSE)
    BY <1>1, <1>2, <1>6, ReadInLine
  <2> QED
    BY <1>3, <1>4, <2>1
<1>7. CASE ch = "CR"
  <2>1. ReadChar(acc, ch) = InLine(Append(pre, x), none, TRUE)
    BY <1>1, <1>2, <1>7, ReadInLine
  <2> QED
    BY <1>3, <1>4, <2>1
<1>8. CASE ch \in Visible
  <2>1. ReadChar(acc, ch) = InLine(pre, Append(x, ch), FALSE)
    BY <1>1, <1>8, ReadInLine
  <2>2. Append(x, ch) \in Seq(Visible)
    BY <1>8, AppendProperties
  <2> QED
    BY <1>4, <2>1, <2>2
<1>9. ch = "LF" \/ ch = "CR" \/ ch \in Visible
  BY DEF Visible
<1> QED
  BY <1>5, <1>6, <1>7, <1>8, <1>9

LEMMA CharReaderReads ==
    ASSUME NEW base \in LineStates
    PROVE  /\ Reader(LineStates, Chars, CharReader, base)
           /\ \A acc \in LineStates, ch \in Chars : CharReader[<<acc, ch>>] = ReadChar(acc, ch)
BY ReadCharType DEF Reader, CharReader

LEMMA CharsRead ==
    ASSUME NEW base \in LineStates, NEW seq \in Seq(Chars)
    PROVE  FoldLeft(ReadChar, base, seq) = Reads(CharReader, base, seq)
<1>1. Reader(LineStates, Chars, CharReader, base)
  BY CharReaderReads
<1> DEFINE Step(it, s) ==
        IF s = {} THEN base ELSE ReadChar(it[s \ {Max(s)}], seq[Max(s)])
<1>2. PICK jt : Recurses(LineStates, Chars, CharReader, base, seq, jt)
  BY <1>1, Recursion
<1>3. \A s \in SUBSET DOMAIN seq : jt[s] = Step(jt, s)
  BY <1>2, CharReaderReads DEF Recurses
<1>4. jt = [s \in SUBSET DOMAIN seq |-> Step(jt, s)]
  <2> HIDE DEF Step
  <2> QED
    BY <1>2, <1>3 DEF Recurses
<1>5. PICK it : /\ it = [s \in SUBSET DOMAIN seq |-> Step(it, s)]
                /\ FoldLeft(ReadChar, base, seq) = it[DOMAIN seq]
  BY <1>4 DEF FoldLeft, MapThenFoldSet
<1>6. FoldsOn(LineStates, Chars, CharReader, base, seq, it)
  BY <1>5, CharReaderReads DEF FoldsOn
<1>7. it[DOMAIN seq] = Reads(CharReader, base, seq)
  BY <1>1, <1>6, RecursionReads
<1> QED
  BY <1>5, <1>7

TokenStates == Seq(Seq(Chars)) \ {<<>>}
TokenReader == [p \in TokenStates \X Chars |-> ReadToken(p[1], p[2])]

LEMMA ReadInToken ==
    ASSUME NEW pre \in Seq(Seq(Chars)), NEW x \in Seq(Chars), NEW c \in Chars
    PROVE  /\ c \notin Spaces => ReadToken(Append(pre, x), c) = Append(pre, Append(x, c))
           /\ c \in Spaces /\ x = <<>> => ReadToken(Append(pre, x), c) = Append(pre, x)
           /\ c \in Spaces /\ x # <<>>
                => ReadToken(Append(pre, x), c) = Append(Append(pre, x), <<>>)
<1>1. PICK all : all = Append(pre, x)
  OBVIOUS
<1>2. [all EXCEPT ![Len(all)] = Append(@, c)] = Append(pre, Append(x, c))
  BY <1>1, LastPut
<1>3. all[Len(all)] = x
  BY <1>1, LastOf
<1>4. ASSUME c \notin Spaces PROVE ReadToken(all, c) = Append(pre, Append(x, c))
  BY <1>2, <1>4 DEF ReadToken
<1>5. ASSUME c \in Spaces, x = <<>> PROVE ReadToken(all, c) = all
  BY <1>3, <1>5 DEF ReadToken
<1>6. ASSUME c \in Spaces, x # <<>> PROVE ReadToken(all, c) = Append(all, <<>>)
  BY <1>3, <1>6 DEF ReadToken
<1> QED
  BY <1>1, <1>4, <1>5, <1>6

LEMMA TokensAt ==
    /\ \A pre \in Seq(Seq(Chars)), x \in Seq(Chars) : Append(pre, x) \in TokenStates
    /\ \A acc \in TokenStates : \E pre \in Seq(Seq(Chars)), x \in Seq(Chars) : acc = Append(pre, x)
<1>1. ASSUME NEW pre \in Seq(Seq(Chars)), NEW x \in Seq(Chars) PROVE Append(pre, x) \in TokenStates
  BY AppendProperties DEF TokenStates
<1>2. ASSUME NEW acc \in TokenStates
      PROVE  \E pre \in Seq(Seq(Chars)), x \in Seq(Chars) : acc = Append(pre, x)
  <2>1. acc \in Seq(Seq(Chars)) /\ acc # <<>>
    BY DEF TokenStates
  <2> QED
    BY <2>1, LastSplit
<1> QED
  BY <1>1, <1>2

LEMMA ReadTokenType ==
    ASSUME NEW acc \in TokenStates, NEW c \in Chars
    PROVE  ReadToken(acc, c) \in TokenStates
<1>1. PICK pre \in Seq(Seq(Chars)), x \in Seq(Chars) : acc = Append(pre, x)
  BY TokensAt
<1>2. PICK none : none = <<>>
  OBVIOUS
<1>3. none \in Seq(Chars) /\ Append(pre, x) \in Seq(Seq(Chars)) /\ Append(x, c) \in Seq(Chars)
  BY <1>2, EmptySeq
<1>4. CASE c \notin Spaces
  <2>1. ReadToken(acc, c) = Append(pre, Append(x, c))
    BY <1>1, <1>4, ReadInToken
  <2> QED
    BY <1>3, <2>1, TokensAt
<1>5. CASE c \in Spaces /\ x = none
  <2>1. ReadToken(acc, c) = acc
    BY <1>1, <1>2, <1>5, ReadInToken
  <2> QED
    BY <2>1
<1>6. CASE c \in Spaces /\ x # none
  <2>1. ReadToken(acc, c) = Append(Append(pre, x), none)
    BY <1>1, <1>2, <1>6, ReadInToken
  <2> QED
    BY <1>3, <2>1, TokensAt
<1> QED
  BY <1>4, <1>5, <1>6

LEMMA TokenReaderReads ==
    ASSUME NEW base \in TokenStates
    PROVE  /\ Reader(TokenStates, Chars, TokenReader, base)
           /\ \A acc \in TokenStates, c \in Chars : TokenReader[<<acc, c>>] = ReadToken(acc, c)
BY ReadTokenType DEF Reader, TokenReader

LEMMA TokensRead ==
    ASSUME NEW base \in TokenStates, NEW seq \in Seq(Chars)
    PROVE  FoldLeft(ReadToken, base, seq) = Reads(TokenReader, base, seq)
<1>1. Reader(TokenStates, Chars, TokenReader, base)
  BY TokenReaderReads
<1> DEFINE Step(it, s) ==
        IF s = {} THEN base ELSE ReadToken(it[s \ {Max(s)}], seq[Max(s)])
<1>2. PICK jt : Recurses(TokenStates, Chars, TokenReader, base, seq, jt)
  BY <1>1, Recursion
<1>3. \A s \in SUBSET DOMAIN seq : jt[s] = Step(jt, s)
  BY <1>2, TokenReaderReads DEF Recurses
<1>4. jt = [s \in SUBSET DOMAIN seq |-> Step(jt, s)]
  <2> HIDE DEF Step
  <2> QED
    BY <1>2, <1>3 DEF Recurses
<1>5. PICK it : /\ it = [s \in SUBSET DOMAIN seq |-> Step(it, s)]
                /\ FoldLeft(ReadToken, base, seq) = it[DOMAIN seq]
  BY <1>4 DEF FoldLeft, MapThenFoldSet
<1>6. FoldsOn(TokenStates, Chars, TokenReader, base, seq, it)
  BY <1>5, TokenReaderReads DEF FoldsOn
<1>7. it[DOMAIN seq] = Reads(TokenReader, base, seq)
  BY <1>1, <1>6, RecursionReads
<1> QED
  BY <1>5, <1>7

\* What is written is made of the symbols of its kind.
FormatsInv ==
    /\ about = "output"  => one \in Seq(Chars) /\ two \in Seq(Chars)
    /\ about = "blank"   => one \in Seq({"a", "b"}) /\ two \in Seq({"a", "b"})
    /\ about = "roster"  => one \in Seq(CellChars) /\ two \in Seq(CellChars)
    /\ about = "course"  => one \in Seq(CourseLines)
    /\ about = "problem" => one \in Seq(SomeProblems)
    /\ about = "entry"   => one \in Seq(SomeEntries)
    /\ about = "drawing" => one \in Seq(SomeShapes)

LEMMA FormatsStarts == InitFormats => FormatsInv
<1> SUFFICES ASSUME InitFormats PROVE FormatsInv
  OBVIOUS
<1>1. one = <<>> /\ two = <<>>
  BY DEF InitFormats
<1>2. \A S : <<>> \in Seq(S)
  OBVIOUS
<1> QED
  BY <1>1, <1>2 DEF FormatsInv

LEMMA FormatsGoesOn == FormatsInv /\ [NextFormats]_formatsVars => FormatsInv'
<1> SUFFICES ASSUME FormatsInv, [NextFormats]_formatsVars PROVE FormatsInv'
  OBVIOUS
<1> USE DEF Put
<1>1. CASE UNCHANGED formatsVars
  BY <1>1 DEF FormatsInv, formatsVars
<1>2. CASE UNCHANGED two /\ Put("output", one, Chars, MaxLen)
  <2>1. about = "output" /\ about' = about /\ one' \in Seq(Chars) /\ two' = two
    BY <1>2 DEF FormatsInv
  <2> QED
    BY <2>1 DEF FormatsInv
<1>3. CASE UNCHANGED two /\ Put("blank", one, {"a", "b"}, MaxLines)
  <2>1. about = "blank" /\ about' = about /\ one' \in Seq({"a", "b"}) /\ two' = two
    BY <1>3 DEF FormatsInv
  <2> QED
    BY <2>1 DEF FormatsInv
<1>4. CASE UNCHANGED two /\ Put("roster", one, CellChars, MaxLen)
  <2>1. about = "roster" /\ about' = about /\ one' \in Seq(CellChars) /\ two' = two
    BY <1>4 DEF FormatsInv
  <2> QED
    BY <2>1 DEF FormatsInv
<1>5. CASE UNCHANGED two /\ Put("course", one, CourseLines, MaxLines)
  <2>1. about = "course" /\ about' = about /\ one' \in Seq(CourseLines)
    BY <1>5 DEF FormatsInv
  <2> QED
    BY <2>1 DEF FormatsInv
<1>6. CASE UNCHANGED two /\ Put("items", one, SomeItems, MaxCells)
  BY <1>6 DEF FormatsInv
<1>7. CASE UNCHANGED two /\ Put("problem", one, SomeProblems, 1)
  <2>1. about = "problem" /\ about' = about /\ one' \in Seq(SomeProblems)
    BY <1>7 DEF FormatsInv
  <2> QED
    BY <2>1 DEF FormatsInv
<1>8. CASE UNCHANGED two /\ Put("entry", one, SomeEntries, 1)
  <2>1. about = "entry" /\ about' = about /\ one' \in Seq(SomeEntries)
    BY <1>8 DEF FormatsInv
  <2> QED
    BY <2>1 DEF FormatsInv
<1>9. CASE UNCHANGED two /\ Put("drawing", one, SomeShapes, 2)
  <2>1. about = "drawing" /\ about' = about /\ one' \in Seq(SomeShapes)
    BY <1>9 DEF FormatsInv
  <2> QED
    BY <2>1 DEF FormatsInv
<1>10. CASE UNCHANGED one /\ Put("output", two, Chars, MaxLen)
  <2>1. about = "output" /\ about' = about /\ two' \in Seq(Chars) /\ one' = one
    BY <1>10 DEF FormatsInv
  <2> QED
    BY <2>1 DEF FormatsInv
<1>11. CASE UNCHANGED one /\ Put("blank", two, {"a", "b"}, MaxLines)
  <2>1. about = "blank" /\ about' = about /\ two' \in Seq({"a", "b"}) /\ one' = one
    BY <1>11 DEF FormatsInv
  <2> QED
    BY <2>1 DEF FormatsInv
<1>12. CASE UNCHANGED one /\ Put("roster", two, CellChars, MaxLen)
  <2>1. about = "roster" /\ about' = about /\ two' \in Seq(CellChars) /\ one' = one
    BY <1>12 DEF FormatsInv
  <2> QED
    BY <2>1 DEF FormatsInv
<1> QED
  BY <1>1, <1>2, <1>3, <1>4, <1>5, <1>6, <1>7, <1>8, <1>9, <1>10, <1>11, <1>12 DEF NextFormats

-----------------------------------------------------------------------------
LEMMA BlanksAreFilled == FormatsInv => BlanksFit
<1> SUFFICES ASSUME about = "blank", one \in Seq({"a", "b"}),
                    NEW lines \in SUBSET (1..(Len(one) + 1))
             PROVE  /\ \A i \in DOMAIN one \ lines :
                        FillBlanks(one, lines, two)[i] = BlankOut(one, lines)[i]
                    /\ FillBlanks(BlankOut(one, lines), lines, one) = one
  BY DEF FormatsInv, BlanksFit
<1>1. PICK n \in Nat : n = Len(one) /\ DOMAIN one = 1..n /\ one = [i \in 1..n |-> one[i]]
  OBVIOUS
<1>2. PICK out : out = BlankOut(one, lines)
  OBVIOUS
<1>3. out = [i \in 1..n |-> IF i \notin lines THEN one[i] ELSE "empty"]
  <2>1. DOMAIN <<>> = {}
    OBVIOUS
  <2> QED
    BY <1>1, <1>2, <2>1 DEF BlankOut, FillBlanks
<1>4. ASSUME NEW i \in DOMAIN one \ lines
      PROVE  FillBlanks(one, lines, two)[i] = out[i]
  BY <1>1, <1>3, <1>4 DEF FillBlanks
<1>5. FillBlanks(out, lines, one) = one
  <2>1. FillBlanks(out, lines, one) =
            [i \in 1..n |-> IF i \notin lines THEN out[i]
                            ELSE IF i \in 1..n THEN one[i] ELSE "empty"]
    BY <1>1, <1>3 DEF FillBlanks
  <2>2. \A i \in 1..n : i \notin lines => out[i] = one[i]
    BY <1>3
  <2> QED
    BY <1>1, <2>1, <2>2
<1> QED
  BY <1>2, <1>4, <1>5

-----------------------------------------------------------------------------
LEMMA PairsOfPoints ==
    ASSUME NEW a \in Nat, NEW b \in Nat
    PROVE  /\ Min({a, b}) \in Nat /\ Max({a, b}) \in Nat /\ Min({a, b}) <= Max({a, b})
           /\ a <= b => Min({a, b}) = a /\ Max({a, b}) = b
BY DEF Min, Max

Spot == Nat \X Nat

\* The corners of a box, and of the box between them.
LEMMA CornersKept ==
    ASSUME NEW pq \in Spot \X Spot
    PROVE  /\ Low(pq) \in Spot /\ High(pq) \in Spot
           /\ Low(<<Low(pq), High(pq)>>) = Low(pq) /\ High(<<Low(pq), High(pq)>>) = High(pq)
           /\ Plus(Low(pq), Minus(High(pq), Low(pq))) = High(pq)
           /\ Halved(Minus(Plus(Low(pq), High(pq)), Minus(High(pq), Low(pq)))) = Low(pq)
           /\ Halved(Plus(Plus(Low(pq), High(pq)), Minus(High(pq), Low(pq)))) = High(pq)
<1>1. PICK lo : lo = Low(pq)
  OBVIOUS
<1>2. PICK hi : hi = High(pq)
  OBVIOUS
<1>3. /\ lo = [axis \in 1..2 |-> lo[axis]] /\ hi = [axis \in 1..2 |-> hi[axis]]
      /\ \A axis \in 1..2 : lo[axis] \in Nat /\ hi[axis] \in Nat /\ lo[axis] <= hi[axis]
  <2>1. \A axis \in 1..2 : pq[1][axis] \in Nat /\ pq[2][axis] \in Nat
    BY DEF Spot
  <2>2. \A axis \in 1..2 : lo[axis] = Min({pq[1][axis], pq[2][axis]})
                           /\ hi[axis] = Max({pq[1][axis], pq[2][axis]})
    BY <1>1, <1>2 DEF Low, High
  <2>3. lo = [axis \in 1..2 |-> lo[axis]] /\ hi = [axis \in 1..2 |-> hi[axis]]
    BY <1>1, <1>2 DEF Low, High
  <2> QED
    BY <2>1, <2>2, <2>3, PairsOfPoints
<1>4. lo \in Spot /\ hi \in Spot
  BY <1>3 DEF Spot
<1>5. Low(<<lo, hi>>) = lo /\ High(<<lo, hi>>) = hi
  <2>1. \A axis \in 1..2 :
            Min({lo[axis], hi[axis]}) = lo[axis] /\ Max({lo[axis], hi[axis]}) = hi[axis]
    BY <1>3, PairsOfPoints
  <2> QED
    BY <1>3, <2>1 DEF Low, High
<1>6. Plus(lo, Minus(hi, lo)) = hi
  BY <1>3 DEF Plus, Minus
<1>7. Halved(Minus(Plus(lo, hi), Minus(hi, lo))) = lo
  <2>1. \A axis \in 1..2 : ((lo[axis] + hi[axis]) - (hi[axis] - lo[axis])) \div 2 = lo[axis]
    BY <1>3
  <2> QED
    BY <1>3, <2>1 DEF Plus, Minus, Halved
<1>8. Halved(Plus(Plus(lo, hi), Minus(hi, lo))) = hi
  <2>1. \A axis \in 1..2 : ((lo[axis] + hi[axis]) + (hi[axis] - lo[axis])) \div 2 = hi[axis]
    BY <1>3
  <2> QED
    BY <1>3, <2>1 DEF Plus, Minus, Halved
<1> QED
  BY <1>1, <1>2, <1>4, <1>5, <1>6, <1>7, <1>8

SameShape(s, again) ==
    ShapeToSvg(again) = ShapeToSvg(s) /\ again.kind = s.kind /\ again.text = s.text

LEMMA ShapeParts ==
    ASSUME NEW s \in SomeShapes
    PROVE  \/ \E kind \in Outlines, color \in Colors, width \in Widths, pq \in Corners :
                s = Shape(kind, color, width, pq, Absent)
           \/ \E color \in Colors, width \in Widths, p \in Points :
                s = Shape("text", color, width, <<p>>, "a<b")
<1>1. \/ s \in {Shape(kind, color, width, pq, Absent) :
                kind \in Outlines, color \in Colors, width \in Widths, pq \in Corners}
      \/ s \in {Shape("text", color, width, <<p>>, "a<b") :
                color \in Colors, width \in Widths, p \in Points}
  BY DEF SomeShapes
<1> QED
  BY <1>1

LEMMA FieldsOfShape ==
    ASSUME NEW kind, NEW color, NEW width, NEW points, NEW text
    PROVE  /\ Shape(kind, color, width, points, text).kind = kind
           /\ Shape(kind, color, width, points, text).color = color
           /\ Shape(kind, color, width, points, text).width = width
           /\ Shape(kind, color, width, points, text).points = points
           /\ Shape(kind, color, width, points, text).text = text
BY DEF Shape

LEMMA FieldsOfElement ==
    ASSUME NEW tag, NEW at, NEW stroke, NEW width, NEW el, el = Element(tag, at, stroke, width)
    PROVE  el.tag = tag /\ el.at = at /\ el.stroke = stroke /\ el.width = width
BY DEF Element

Stroke(color) == IF color = "" THEN Absent ELSE color
Wide(width) == IF width = 2 THEN Absent ELSE width

Outlined(kind, color, width, points, text) ==
    CASE kind = "rect" ->
            Element("rect", <<Low(points), Minus(High(points), Low(points))>>,
                    Stroke(color), Wide(width))
      [] kind = "ellipse" ->
            Element("ellipse",
                    <<Plus(Low(points), High(points)), Minus(High(points), Low(points))>>,
                    Stroke(color), Wide(width))
      [] kind = "text" ->
            Element("text", <<points[1], text>>,
                    IF color = "" THEN "currentColor" ELSE color, width * 7)
      [] OTHER ->
            Element(IF kind = "line" THEN "line" ELSE IF kind = "arrow" THEN "g" ELSE "polyline",
                    points, Stroke(color), Wide(width))

LEMMA BoxWritten ==
    ASSUME NEW kind \in Outlines \cup {"text"}, NEW color, NEW width, NEW points, NEW text
    PROVE  ShapeToSvg(Shape(kind, color, width, points, text)) =
                Outlined(kind, color, width, points, text)
<1>1. PICK r : r = Shape(kind, color, width, points, text)
  OBVIOUS
<1>2. /\ r.kind = kind /\ r.color = color /\ r.width = width
      /\ r.points = points /\ r.text = text
  BY <1>1, FieldsOfShape
<1>3. ShapeToSvg(r) = Outlined(r.kind, r.color, r.width, r.points, r.text)
  BY <1>2 DEF ShapeToSvg, Stroke, Wide, Outlined, Outlines
<1> QED
  BY <1>1, <1>2, <1>3

LEMMA TextKept ==
    ASSUME NEW color \in Colors, NEW width \in Widths, NEW p
    PROVE  SameShape(Shape("text", color, width, <<p>>, "a<b"),
                     ReadElement(ShapeToSvg(Shape("text", color, width, <<p>>, "a<b"))))
<1>0. PICK s : s = Shape("text", color, width, <<p>>, "a<b")
  OBVIOUS
<1>1. PICK el : el = ShapeToSvg(s)
  OBVIOUS
<1>2. PICK pen : pen = IF color = "" THEN "currentColor" ELSE color
  OBVIOUS
<1>3. PICK points : points = <<p>>
  OBVIOUS
<1>4. el = Element("text", <<points[1], "a<b">>, pen, width * 7) /\ points[1] = p
  <2>1. s = Shape("text", color, width, points, "a<b")
    BY <1>0, <1>3
  <2>2. el = Outlined("text", color, width, points, "a<b")
    BY <1>1, <2>1, BoxWritten
  <2>3. el = Element("text", <<points[1], "a<b">>, pen, width * 7)
    BY <1>2, <2>2 DEF Outlined
  <2> QED
    BY <1>3, <2>3
<1>5. (width * 7 + 3) \div 7 = width
  BY DEF Widths
<1>6. el.tag = "text" /\ el.at = <<points[1], "a<b">> /\ el.stroke = pen /\ el.width = width * 7
  BY <1>4, FieldsOfElement
<1>7. (IF pen = "currentColor" THEN "" ELSE pen) = color
  BY <1>2 DEF Colors
<1>8. PICK at : at = <<points[1], "a<b">>
  OBVIOUS
<1>9. at[1] = points[1] /\ at[2] = "a<b" /\ el.at = at
  BY <1>6, <1>8
<1>10. ReadElement(el) = Shape("text", color, width, <<points[1]>>, "a<b")
  BY <1>5, <1>6, <1>7, <1>9 DEF ReadElement
<1>11. ReadElement(el) = s
  BY <1>0, <1>4, <1>10
<1> QED
  BY <1>0, <1>1, <1>11 DEF SameShape

LEMMA OutlineKept ==
    ASSUME NEW kind \in Outlines, NEW color \in Colors, NEW width \in Widths, NEW points \in Corners
    PROVE  SameShape(Shape(kind, color, width, points, Absent),
                     ReadElement(ShapeToSvg(Shape(kind, color, width, points, Absent))))
<1>0. PICK s : s = Shape(kind, color, width, points, Absent)
  OBVIOUS
<1>1. PICK el : el = ShapeToSvg(s)
  OBVIOUS
<1>2. PICK r : r = ReadElement(el)
  OBVIOUS
<1>12. SUFFICES SameShape(s, r)
  BY <1>0, <1>1, <1>2
<1>3. PICK stroke : stroke = Stroke(color)
  OBVIOUS
<1>4. PICK wide : wide = Wide(width)
  OBVIOUS
<1>5. (IF stroke = Absent THEN "" ELSE stroke) = color
  BY <1>3, FormatsAssumption DEF Stroke, Colors
<1>6. (IF wide = Absent THEN 2 ELSE wide) = width
  <2>1. Absent \notin Nat
    BY FormatsAssumption
  <2>2. Absent # 3
    BY <2>1
  <2> QED
    BY <1>4, <2>2 DEF Wide, Widths
<1>7. PICK lo : lo = Low(points)
  OBVIOUS
<1>8. PICK hi : hi = High(points)
  OBVIOUS
<1>9. ASSUME NEW corners, r = Shape(kind, color, width, corners, Absent), ShapeToSvg(r) = el
      PROVE  SameShape(s, r)
  <2>1. s.kind = kind /\ s.text = Absent
    BY <1>0, FieldsOfShape
  <2>2. r.kind = kind /\ r.text = Absent
    BY <1>9, FieldsOfShape
  <2> QED
    BY <1>1, <1>9, <2>1, <2>2 DEF SameShape
<1>10. CASE kind \in {"line", "arrow", "pen"}
  <2>1. PICK tag : tag = IF kind = "line" THEN "line"
                         ELSE IF kind = "arrow" THEN "g" ELSE "polyline"
    OBVIOUS
  <2>2. el = Element(tag, points, stroke, wide)
    <3>1. el = Outlined(kind, color, width, points, Absent)
      BY <1>0, <1>1, BoxWritten
    <3> QED
      BY <1>3, <1>4, <1>10, <2>1, <3>1 DEF Outlined
  <2>3. el.tag = tag /\ el.at = points /\ el.stroke = stroke /\ el.width = wide
    BY <2>2, FieldsOfElement
  <2>4. r = Shape(kind, color, width, points, Absent)
    BY <1>2, <1>5, <1>6, <1>10, <2>1, <2>3 DEF ReadElement
  <2>5. r = s
    BY <1>0, <2>4
  <2> QED
    BY <1>1, <1>2, <1>9, <2>4, <2>5
<1>11. CASE kind \in {"rect", "ellipse"}
  <2>1. points \in Spot \X Spot
    <3>1. <<0, 0>> \in Spot /\ <<10, 25>> \in Spot /\ <<30, 20>> \in Spot
      BY DEF Spot
    <3>2. Points \subseteq Spot
      BY <3>1 DEF Points
    <3> QED
      BY <3>2 DEF Corners
  <2>2. /\ Low(<<lo, hi>>) = lo /\ High(<<lo, hi>>) = hi
        /\ Plus(lo, Minus(hi, lo)) = hi
        /\ Halved(Minus(Plus(lo, hi), Minus(hi, lo))) = lo
        /\ Halved(Plus(Plus(lo, hi), Minus(hi, lo))) = hi
    BY <1>7, <1>8, <2>1, CornersKept
  <2>3. PICK at : at = IF kind = "rect" THEN <<lo, Minus(hi, lo)>>
                       ELSE <<Plus(lo, hi), Minus(hi, lo)>>
    OBVIOUS
  <2>4. el = Element(kind, at, stroke, wide)
    <3>1. el = Outlined(kind, color, width, points, Absent)
      BY <1>0, <1>1, BoxWritten
    <3> QED
      BY <1>3, <1>4, <1>7, <1>8, <1>11, <2>3, <3>1 DEF Outlined
  <2>5. el.tag = kind /\ el.at = at /\ el.stroke = stroke /\ el.width = wide
    BY <2>4, FieldsOfElement
  <2>6. at[1] = (IF kind = "rect" THEN lo ELSE Plus(lo, hi)) /\ at[2] = Minus(hi, lo)
    BY <2>3
  <2>7. r = Shape(kind, color, width, <<lo, hi>>, Absent)
    <3>1. CASE kind = "rect"
      <4>1. r = Shape("rect", color, width, <<at[1], Plus(at[1], at[2])>>, Absent)
        BY <1>2, <1>5, <1>6, <2>5, <3>1 DEF ReadElement
      <4> QED
        BY <2>2, <2>6, <3>1, <4>1
    <3>2. CASE kind = "ellipse"
      <4>1. r = Shape("ellipse", color, width,
                      <<Halved(Minus(at[1], at[2])), Halved(Plus(at[1], at[2]))>>, Absent)
        BY <1>2, <1>5, <1>6, <2>5, <3>2 DEF ReadElement
      <4> QED
        BY <2>2, <2>6, <3>2, <4>1
    <3> QED
      BY <1>11, <3>1, <3>2
  <2>8. PICK corners : corners = <<lo, hi>>
    OBVIOUS
  <2>9. r = Shape(kind, color, width, corners, Absent) /\ lo = Low(corners) /\ hi = High(corners)
    BY <2>2, <2>7, <2>8
  <2>10. ShapeToSvg(r) = el
    <3>1. ShapeToSvg(r) = Outlined(kind, color, width, corners, Absent)
      BY <2>9, BoxWritten
    <3> QED
      BY <1>3, <1>4, <1>11, <2>3, <2>4, <2>9, <3>1 DEF Outlined
  <2> QED
    BY <1>1, <1>2, <1>9, <2>9, <2>10
<1> QED
  BY <1>10, <1>11 DEF Outlines

LEMMA ShapeKept ==
    ASSUME NEW s \in SomeShapes
    PROVE  SameShape(s, ReadElement(ShapeToSvg(s)))
<1>1. CASE \E kind \in Outlines, color \in Colors, width \in Widths, pq \in Corners :
                s = Shape(kind, color, width, pq, Absent)
  BY <1>1, OutlineKept
<1>2. CASE \E color \in Colors, width \in Widths, p \in Points :
                s = Shape("text", color, width, <<p>>, "a<b")
  BY <1>2, TextKept
<1> QED
  BY <1>1, <1>2, ShapeParts

LEMMA DrawingsKept ==
    ASSUME about = "drawing" => one \in Seq(SomeShapes)
    PROVE  DrawingKept
<1> SUFFICES ASSUME about = "drawing", one \in Seq(SomeShapes) PROVE DrawingKept
  BY DEF DrawingKept
<1>1. PICK n \in Nat : n = Len(one) /\ DOMAIN one = 1..n /\ \A i \in 1..n : one[i] \in SomeShapes
  OBVIOUS
<1>2. PICK svg : svg = ShapesToSvg(one)
  OBVIOUS
<1>3. svg = [i \in 1..n |-> ShapeToSvg(one[i])]
  BY <1>1, <1>2 DEF ShapesToSvg
<1>4. PICK again : again = SvgToShapes(svg)
  OBVIOUS
<1>5. again = [i \in 1..n |-> ReadElement(svg[i])]
  BY <1>3, <1>4 DEF SvgToShapes
<1>6. \A i \in 1..n : SameShape(one[i], again[i])
  BY <1>1, <1>3, <1>5, ShapeKept
<1>7. ShapesToSvg(again) = [i \in 1..n |-> ShapeToSvg(again[i])]
  BY <1>5 DEF ShapesToSvg
<1>8. ShapesToSvg(again) = svg
  BY <1>3, <1>6, <1>7 DEF SameShape
<1> QED
  BY <1>1, <1>2, <1>4, <1>6, <1>8 DEF DrawingKept, SameShape

ProblemFields ==
    {"kind", "checkerType", "floatEpsilon", "stopOnFirstFail", "hint", "difficulty",
     "blankTemplate", "blankLines", "blankLanguage", "checkerSource", "checkerLanguage"}

HasFields(p) == p = [field \in ProblemFields |-> p[field]]

\* What a problem has where: no field is bad, and those that a problem always has are there.
Stored(p) ==
    /\ HasFields(p)
    /\ p.kind \notin {Absent, "bad", ""} /\ p.checkerType \notin {Absent, "bad", ""}
    /\ p.floatEpsilon \notin {Absent, "bad", ""} /\ p.stopOnFirstFail \in {"yes", "no"}
    /\ p.hint # "bad"
    /\ \A field \in {"difficulty", "blankTemplate", "blankLines", "blankLanguage",
                     "checkerSource", "checkerLanguage"} : p[field] \notin {"bad", ""}

LEMMA AbsentIsNone ==
    /\ Absent \notin {"bad", "", "1", "1e-3", "1e-6", "answer", "blank", "c", "code", "exact",
                      "float"}
    /\ Absent \notin {"hint", "lines", "no", "none", "program", "some", "special", "trim", "yes"}
<1>1. Absent \notin {"", "1", "1e-3", "1e-6", "answer", "bad", "blank", "c", "code", "exact",
                     "float", "h", "hint", "lines", "no", "none", "program", "red", "some",
                     "special", "trim", "yes"}
  BY FormatsAssumption
<1> QED
  BY <1>1

\* The fields of what an entry becomes, and of an exported problem.
Imported(e, q) ==
    /\ HasFields(q)
    /\ q.kind = OrElse(e.kind, "code") /\ q.checkerType = OrElse(e.checkerType, "trim")
    /\ q.floatEpsilon = OrElse(OrElse(e.floatEpsilon, Absent), DefaultEpsilon)
    /\ q.stopOnFirstFail =
        OrElse(IF e.stopOnFirstFail = "bad" THEN "no" ELSE e.stopOnFirstFail, "yes")
    /\ \A field \in {"hint", "difficulty", "blankTemplate", "blankLines", "blankLanguage",
                     "checkerSource", "checkerLanguage"} : q[field] = OrElse(e[field], Absent)

Exported(p, e) ==
    /\ HasFields(e)
    /\ e.kind = p.kind /\ e.checkerType = p.checkerType
    /\ e.floatEpsilon = (IF p.checkerType = "float" THEN p.floatEpsilon ELSE Absent)
    /\ e.stopOnFirstFail = p.stopOnFirstFail
    /\ e.hint = (IF p.hint = "" THEN Absent ELSE p.hint) /\ e.difficulty = p.difficulty
    /\ e.blankTemplate = p.blankTemplate
    /\ e.blankLines = (IF p.blankTemplate = Absent THEN Absent
                       ELSE IF p.blankLines = Absent THEN "none" ELSE p.blankLines)
    /\ e.blankLanguage = (IF p.blankTemplate = Absent THEN Absent ELSE p.blankLanguage)
    /\ e.checkerSource = p.checkerSource
    /\ e.checkerLanguage = (IF p.checkerSource = Absent THEN Absent ELSE p.checkerLanguage)

LEMMA ImportedFields ==
    ASSUME NEW e, HasFields(e)
    PROVE  Imported(e, ImportProblem(e))
<1>1. PICK b : b = ParseBulkProblem(e)
  OBVIOUS
<1>2. DOMAIN e = ProblemFields
  BY DEF HasFields
<1>3. b = [field \in ProblemFields |->
            CASE field = "kind"            -> OrElse(e.kind, "code")
              [] field = "checkerType"     -> OrElse(e.checkerType, "trim")
              [] field = "stopOnFirstFail" -> IF e.stopOnFirstFail = "bad" THEN "no"
                                              ELSE e.stopOnFirstFail
              [] OTHER -> OrElse(e[field], Absent)]
  BY <1>1, <1>2 DEF ParseBulkProblem
<1>4. /\ DOMAIN b = ProblemFields
      /\ b.kind = OrElse(e.kind, "code") /\ b.checkerType = OrElse(e.checkerType, "trim")
      /\ b.stopOnFirstFail = (IF e.stopOnFirstFail = "bad" THEN "no" ELSE e.stopOnFirstFail)
      /\ \A field \in {"floatEpsilon", "hint", "difficulty", "blankTemplate", "blankLines",
                       "blankLanguage", "checkerSource", "checkerLanguage"} :
            b[field] = OrElse(e[field], Absent)
  BY <1>3 DEF ProblemFields
<1>5. PICK q : q = [b EXCEPT !.floatEpsilon    = OrElse(@, DefaultEpsilon),
                             !.stopOnFirstFail = OrElse(@, "yes")]
  OBVIOUS
<1>6. q = ImportProblem(e)
  BY <1>1, <1>5 DEF ImportProblem
<1>7. HasFields(q)
  BY <1>4, <1>5 DEF HasFields
<1>8. /\ q.floatEpsilon = OrElse(b.floatEpsilon, DefaultEpsilon)
      /\ q.stopOnFirstFail = OrElse(b.stopOnFirstFail, "yes")
      /\ \A field \in ProblemFields \ {"floatEpsilon", "stopOnFirstFail"} : q[field] = b[field]
  BY <1>4, <1>5 DEF ProblemFields
<1>9. Imported(e, q)
  <2>1. q.kind = b.kind /\ q.checkerType = b.checkerType
    BY <1>8 DEF ProblemFields
  <2>2. \A field \in {"hint", "difficulty", "blankTemplate", "blankLines", "blankLanguage",
                     "checkerSource", "checkerLanguage"} : q[field] = b[field]
    BY <1>8 DEF ProblemFields
  <2> QED
    BY <1>4, <1>7, <1>8, <2>1, <2>2 DEF Imported
<1> QED
  BY <1>6, <1>9

LEMMA ExportedFields ==
    ASSUME NEW p, HasFields(p)
    PROVE  Exported(p, ToBulkProblem(p))
<1>1. DOMAIN p = ProblemFields
  BY DEF HasFields
<1>2. PICK e : e = ToBulkProblem(p)
  OBVIOUS
<1>3. HasFields(e)
  BY <1>1, <1>2 DEF ToBulkProblem, HasFields
<1>4. Exported(p, e)
  BY <1>1, <1>2, <1>3 DEF ToBulkProblem, ProblemFields, Exported
<1> QED
  BY <1>2, <1>4

\* What an export and an import make of a problem.
Again(p, q) ==
    /\ q.kind = p.kind /\ q.checkerType = p.checkerType
    /\ q.floatEpsilon = (IF p.checkerType = "float" THEN p.floatEpsilon ELSE DefaultEpsilon)
    /\ q.stopOnFirstFail = p.stopOnFirstFail
    /\ q.hint = (IF p.hint = "" THEN Absent ELSE p.hint) /\ q.difficulty = p.difficulty
    /\ q.blankTemplate = p.blankTemplate
    /\ q.blankLines = (IF p.blankTemplate = Absent THEN Absent
                       ELSE IF p.blankLines = Absent THEN "none" ELSE p.blankLines)
    /\ q.blankLanguage = (IF p.blankTemplate = Absent THEN Absent ELSE p.blankLanguage)
    /\ q.checkerSource = p.checkerSource
    /\ q.checkerLanguage = (IF p.checkerSource = Absent THEN Absent ELSE p.checkerLanguage)

LEMMA ProblemAgain ==
    ASSUME NEW p, Stored(p)
    PROVE  /\ Stored(ImportProblem(ToBulkProblem(p)))
           /\ Again(p, ImportProblem(ToBulkProblem(p)))
<1>1. PICK e : e = ToBulkProblem(p)
  OBVIOUS
<1>2. PICK q : q = ImportProblem(e)
  OBVIOUS
<1>3. Exported(p, e)
  BY <1>1, ExportedFields DEF Stored
<1>4. Imported(e, q)
  BY <1>2, <1>3, ImportedFields DEF Exported
<1>5. q.kind = p.kind /\ q.checkerType = p.checkerType
  <2>1. q.kind = OrElse(p.kind, "code") /\ q.checkerType = OrElse(p.checkerType, "trim")
    BY <1>3, <1>4 DEF Exported, Imported
  <2> QED
    BY <2>1 DEF OrElse, Stored
<1>6. q.floatEpsilon = IF p.checkerType = "float" THEN p.floatEpsilon ELSE DefaultEpsilon
  <2>1. q.floatEpsilon = OrElse(OrElse(IF p.checkerType = "float" THEN p.floatEpsilon ELSE Absent,
                                       Absent), DefaultEpsilon)
    BY <1>3, <1>4 DEF Exported, Imported
  <2>2. p.floatEpsilon \notin {Absent, "bad", ""}
    BY DEF Stored
  <2> QED
    BY <2>1, <2>2 DEF OrElse
<1>7. q.stopOnFirstFail = p.stopOnFirstFail
  <2>1. q.stopOnFirstFail
          = OrElse(IF p.stopOnFirstFail = "bad" THEN "no" ELSE p.stopOnFirstFail, "yes")
    BY <1>3, <1>4 DEF Exported, Imported
  <2>2. p.stopOnFirstFail \in {"yes", "no"}
    BY DEF Stored
  <2> QED
    BY <2>1, <2>2, AbsentIsNone DEF OrElse
<1>8. ASSUME NEW field \in {"hint", "difficulty", "blankTemplate", "blankLines", "blankLanguage",
                            "checkerSource", "checkerLanguage"}
      PROVE  q[field] = OrElse(e[field], Absent)
  BY <1>4 DEF Imported
<1>9. q.hint = IF p.hint = "" THEN Absent ELSE p.hint
  <2>1. q.hint = OrElse(IF p.hint = "" THEN Absent ELSE p.hint, Absent)
    BY <1>3, <1>8 DEF Exported
  <2>2. p.hint # "bad"
    BY DEF Stored
  <2> QED
    BY <2>1, <2>2, AbsentIsNone DEF OrElse
<1>10. \A field \in {"difficulty", "blankTemplate", "blankLines", "blankLanguage",
                     "checkerSource", "checkerLanguage"} : p[field] \notin {"bad", ""}
  BY DEF Stored
<1>11. q.difficulty = p.difficulty /\ q.blankTemplate = p.blankTemplate
  <2>1. /\ q.difficulty = OrElse(p.difficulty, Absent)
        /\ q.blankTemplate = OrElse(p.blankTemplate, Absent)
    BY <1>3, <1>8 DEF Exported
  <2>2. p.difficulty \notin {"bad", ""} /\ p.blankTemplate \notin {"bad", ""}
    BY <1>10
  <2> QED
    BY <2>1, <2>2 DEF OrElse
<1>12. q.blankLines = IF p.blankTemplate = Absent THEN Absent
                      ELSE IF p.blankLines = Absent THEN "none" ELSE p.blankLines
  <2>1. q.blankLines = OrElse(IF p.blankTemplate = Absent THEN Absent
                              ELSE IF p.blankLines = Absent THEN "none" ELSE p.blankLines, Absent)
    BY <1>3, <1>8 DEF Exported
  <2>2. p.blankLines \notin {"bad", ""}
    BY <1>10
  <2> QED
    BY <2>1, <2>2, AbsentIsNone DEF OrElse
<1>13. q.blankLanguage = IF p.blankTemplate = Absent THEN Absent ELSE p.blankLanguage
  <2>1. q.blankLanguage
          = OrElse(IF p.blankTemplate = Absent THEN Absent ELSE p.blankLanguage, Absent)
    BY <1>3, <1>8 DEF Exported
  <2>2. p.blankLanguage \notin {"bad", ""}
    BY <1>10
  <2> QED
    BY <2>1, <2>2 DEF OrElse
<1>14. q.checkerSource = p.checkerSource
  <2>1. q.checkerSource = OrElse(p.checkerSource, Absent)
    BY <1>3, <1>8 DEF Exported
  <2>2. p.checkerSource \notin {"bad", ""}
    BY <1>10
  <2> QED
    BY <2>1, <2>2 DEF OrElse
<1>15. q.checkerLanguage = IF p.checkerSource = Absent THEN Absent ELSE p.checkerLanguage
  <2>1. q.checkerLanguage =
            OrElse(IF p.checkerSource = Absent THEN Absent ELSE p.checkerLanguage, Absent)
    BY <1>3, <1>8 DEF Exported
  <2>2. p.checkerLanguage \notin {"bad", ""}
    BY <1>10
  <2> QED
    BY <2>1, <2>2 DEF OrElse
<1>16. Again(p, q)
  BY <1>5, <1>6, <1>7, <1>9, <1>11, <1>12, <1>13, <1>14, <1>15 DEF Again
<1>17. Stored(q)
  <2>1. q.kind \notin {Absent, "bad", ""} /\ q.checkerType \notin {Absent, "bad", ""}
    BY <1>5 DEF Stored
  <2>2. q.floatEpsilon \notin {Absent, "bad", ""}
    <3>1. p.floatEpsilon \notin {Absent, "bad", ""}
      BY DEF Stored
    <3> QED
      BY <1>6, <3>1, AbsentIsNone DEF DefaultEpsilon
  <2>3. q.stopOnFirstFail \in {"yes", "no"} /\ q.hint # "bad"
    BY <1>7, <1>9, AbsentIsNone DEF Stored
  <2>4. \A field \in {"difficulty", "blankTemplate", "blankLines", "blankLanguage",
                     "checkerSource", "checkerLanguage"} : q[field] \notin {"bad", ""}
    <3>1. q.difficulty \notin {"bad", ""} /\ q.blankTemplate \notin {"bad", ""}
          /\ q.checkerSource \notin {"bad", ""}
      BY <1>10, <1>11, <1>14
    <3>2. q.blankLines \notin {"bad", ""}
      <4>1. p.blankLines \notin {"bad", ""}
        BY <1>10
      <4> QED
        BY <1>12, <4>1, AbsentIsNone
    <3>3. q.blankLanguage \notin {"bad", ""}
      <4>1. p.blankLanguage \notin {"bad", ""}
        BY <1>10
      <4> QED
        BY <1>13, <4>1, AbsentIsNone
    <3>4. q.checkerLanguage \notin {"bad", ""}
      <4>1. p.checkerLanguage \notin {"bad", ""}
        BY <1>10
      <4> QED
        BY <1>15, <4>1, AbsentIsNone
    <3> QED
      BY <3>1, <3>2, <3>3, <3>4
  <2>5. HasFields(q)
    BY <1>4 DEF Imported
  <2> QED
    BY <2>1, <2>2, <2>3, <2>4, <2>5 DEF Stored
<1> QED
  BY <1>1, <1>2, <1>16, <1>17

LEMMA SameFields ==
    ASSUME NEW p, NEW q, HasFields(p), HasFields(q),
           \A field \in ProblemFields : p[field] = q[field]
    PROVE  p = q
BY DEF HasFields

LEMMA StoredIsKept ==
    ASSUME NEW p, Stored(p), KindFieldsThere(p)
    PROVE  LET q == ImportProblem(ToBulkProblem(p))
           IN  JudgedAlike(p, q) /\ ImportProblem(ToBulkProblem(q)) = q
<1>1. PICK q : q = ImportProblem(ToBulkProblem(p))
  OBVIOUS
<1>2. Stored(q) /\ Again(p, q)
  BY <1>1, ProblemAgain
<1>3. JudgedAlike(p, q)
  BY <1>2 DEF JudgedAlike, KindFieldsThere, Again
<1>4. PICK r : r = ImportProblem(ToBulkProblem(q))
  OBVIOUS
<1>5. Stored(r) /\ Again(q, r)
  BY <1>2, <1>4, ProblemAgain
<1>6. r.floatEpsilon = q.floatEpsilon /\ r.hint = q.hint
  BY <1>2, <1>5, AbsentIsNone DEF Again
<1>7. r.blankLines = q.blankLines
  BY <1>2, <1>5, AbsentIsNone DEF Again
<1>8. r.blankLanguage = q.blankLanguage /\ r.checkerLanguage = q.checkerLanguage
  BY <1>2, <1>5 DEF Again
<1>9. /\ r.kind = q.kind /\ r.checkerType = q.checkerType /\ r.stopOnFirstFail = q.stopOnFirstFail
      /\ r.difficulty = q.difficulty /\ r.blankTemplate = q.blankTemplate
      /\ r.checkerSource = q.checkerSource
  BY <1>5 DEF Again
<1>10. \A field \in ProblemFields : r[field] = q[field]
  BY <1>6, <1>7, <1>8, <1>9 DEF ProblemFields
<1>11. r = q
  BY <1>2, <1>5, <1>10, SameFields DEF Stored
<1> QED
  BY <1>1, <1>3, <1>4, <1>11

LEMMA ProblemsStored ==
    ASSUME NEW p \in SomeProblems
    PROVE  Stored(p)
<1>1. /\ p.kind \in {"code", "blank", "answer"}
      /\ p.checkerType \in {"exact", "trim", "float", "special"}
      /\ p.floatEpsilon \in {DefaultEpsilon, "1e-3"} /\ p.stopOnFirstFail \in {"yes", "no"}
      /\ p.hint \in {Absent, "", "hint"} /\ p.difficulty \in {Absent, "1"}
      /\ p.blankTemplate \in {Absent, "lines"} /\ p.blankLines \in {Absent, "some"}
      /\ p.blankLanguage \in {Absent, "c"} /\ p.checkerSource \in {Absent, "program"}
      /\ p.checkerLanguage \in {Absent, "c"}
  BY DEF SomeProblems
<1>2. DOMAIN p = ProblemFields /\ p = [field \in DOMAIN p |-> p[field]]
  BY DEF SomeProblems, ProblemFields
<1>3. HasFields(p)
  BY <1>2 DEF HasFields
<1>4. p.kind \notin {Absent, "bad", ""} /\ p.checkerType \notin {Absent, "bad", ""}
  BY <1>1, AbsentIsNone
<1>5. p.floatEpsilon \notin {Absent, "bad", ""} /\ p.hint # "bad"
  BY <1>1, AbsentIsNone DEF DefaultEpsilon
<1>6. \A field \in {"difficulty", "blankTemplate", "blankLines", "blankLanguage",
                    "checkerSource", "checkerLanguage"} : p[field] \notin {"bad", ""}
  <2>1. p.difficulty \notin {"bad", ""}
    BY <1>1, AbsentIsNone
  <2>2. p.blankTemplate \notin {"bad", ""} /\ p.blankLines \notin {"bad", ""}
    BY <1>1, AbsentIsNone
  <2>3. p.blankLanguage \notin {"bad", ""} /\ p.checkerLanguage \notin {"bad", ""}
    BY <1>1, AbsentIsNone
  <2>4. p.checkerSource \notin {"bad", ""}
    BY <1>1, AbsentIsNone
  <2> QED
    BY <2>1, <2>2, <2>3, <2>4
<1> QED
  BY <1>1, <1>3, <1>4, <1>5, <1>6 DEF Stored

LEMMA EntriesStored ==
    ASSUME NEW e \in SomeEntries, ~Refused(e)
    PROVE  Stored(ImportProblem(e))
<1>1. /\ e.kind \in {Absent, "bad", "code", "blank"}
      /\ e.checkerType \in {Absent, "bad", "float", "special"}
      /\ e.floatEpsilon \in {Absent, "bad", "1e-3"}
      /\ e.stopOnFirstFail \in {Absent, "bad", "yes", "no"}
  BY DEF SomeEntries
<1>2. DOMAIN e = ProblemFields /\ e = [field \in DOMAIN e |-> e[field]]
  BY DEF SomeEntries, ProblemFields
<1>3. HasFields(e)
  BY <1>2 DEF HasFields
<1>4. PICK q : q = ImportProblem(e)
  OBVIOUS
<1>5. Imported(e, q)
  BY <1>3, <1>4, ImportedFields
<1>6. q.kind \notin {Absent, "bad", ""}
  <2>1. q.kind = OrElse(e.kind, "code")
    BY <1>5 DEF Imported
  <2>2. e.kind \in {Absent, "code", "blank"}
    BY <1>1 DEF Refused
  <2> QED
    BY <2>1, <2>2, AbsentIsNone DEF OrElse
<1>7. q.checkerType \notin {Absent, "bad", ""}
  <2>1. q.checkerType = OrElse(e.checkerType, "trim")
    BY <1>5 DEF Imported
  <2>2. e.checkerType \in {Absent, "float", "special"}
    BY <1>1 DEF Refused
  <2> QED
    BY <2>1, <2>2, AbsentIsNone DEF OrElse
<1>8. q.floatEpsilon \notin {Absent, "bad", ""}
  <2>1. q.floatEpsilon = OrElse(OrElse(e.floatEpsilon, Absent), DefaultEpsilon)
    BY <1>5 DEF Imported
  <2> QED
    BY <1>1, <2>1, AbsentIsNone DEF OrElse, DefaultEpsilon
<1>9. q.stopOnFirstFail \in {"yes", "no"}
  <2>1. q.stopOnFirstFail =
            OrElse(IF e.stopOnFirstFail = "bad" THEN "no" ELSE e.stopOnFirstFail, "yes")
    BY <1>5 DEF Imported
  <2> QED
    BY <1>1, <2>1, AbsentIsNone DEF OrElse
<1>10. \A field \in {"hint", "difficulty", "blankTemplate", "blankLines", "blankLanguage",
                     "checkerSource", "checkerLanguage"} : q[field] \notin {"bad", ""}
  <2>1. \A v : OrElse(v, Absent) \notin {"bad", ""}
    BY AbsentIsNone DEF OrElse
  <2> QED
    BY <1>5, <2>1 DEF Imported
<1>11. HasFields(q)
  BY <1>5 DEF Imported
<1>12. Stored(q)
  BY <1>6, <1>7, <1>8, <1>9, <1>10, <1>11 DEF Stored
<1> QED
  BY <1>4, <1>12

LEMMA ProblemsKept ==
    ASSUME about = "problem" => one \in Seq(SomeProblems),
           about = "entry" => one \in Seq(SomeEntries)
    PROVE  ProblemKept
<1> SUFFICES ASSUME about \in {"problem", "entry"}, one # <<>>, ~Refused(one[1]),
                    NEW p, p = IF about = "entry" THEN ImportProblem(one[1]) ELSE one[1],
                    NEW q, q = ImportProblem(ToBulkProblem(p)), KindFieldsThere(p)
             PROVE  JudgedAlike(p, q) /\ ImportProblem(ToBulkProblem(q)) = q
  BY DEF ProblemKept
<1>1. CASE about = "problem"
  <2>1. p \in SomeProblems
    BY <1>1
  <2> QED
    BY <2>1, ProblemsStored, StoredIsKept
<1>2. CASE about = "entry"
  <2>1. one[1] \in SomeEntries
    BY <1>2
  <2>2. Stored(p)
    BY <1>2, <2>1, EntriesStored
  <2> QED
    BY <2>2, StoredIsKept
<1> QED
  BY <1>1, <1>2

\* Where a sequence ends, or begins, when what is dropped is not counted.
EndsAt(seq, D, n) ==
    /\ n \in 0..Len(seq)
    /\ n > 0 => seq[n] \notin D
    /\ \A i \in (n + 1)..Len(seq) : seq[i] \in D

BeginsAt(seq, D, m) ==
    /\ m \in 1..(Len(seq) + 1)
    /\ m <= Len(seq) => seq[m] \notin D
    /\ \A i \in 1..(m - 1) : seq[i] \in D

LEMMA DroppedLast ==
    ASSUME NEW S, NEW seq \in Seq(S), NEW D
    PROVE  /\ \E n : EndsAt(seq, D, n)
           /\ \A n : EndsAt(seq, D, n) => DropLast(seq, D) = SubSeq(seq, 1, n)
<1>1. PICK len \in Nat : len = Len(seq) /\ DOMAIN seq = 1..len
  OBVIOUS
<1>2. PICK kept : kept = Kept(seq, D)
  OBVIOUS
<1>3. kept = {i \in 1..len : seq[i] \notin D}
  BY <1>1, <1>2 DEF Kept
<1>4. CASE kept = {}
  <2>1. \A i \in 1..len : seq[i] \in D
    BY <1>3, <1>4
  <2>2. EndsAt(seq, D, 0)
    BY <1>1, <2>1 DEF EndsAt
  <2>3. ASSUME NEW n, EndsAt(seq, D, n) PROVE n = 0
    BY <1>1, <2>1, <2>3 DEF EndsAt
  <2>4. DropLast(seq, D) = <<>> /\ SubSeq(seq, 1, 0) = <<>>
    BY <1>2, <1>4 DEF DropLast
  <2> QED
    BY <2>2, <2>3, <2>4
<1>5. CASE kept # {}
  <2>1. kept \in SUBSET (1..len)
    BY <1>3
  <2>2. PICK last : last = Max(kept)
    OBVIOUS
  <2>3. last \in kept /\ \A i \in kept : last >= i
    BY <1>5, <2>1, <2>2, MaxOfPlaces
  <2>4. last \in 1..len /\ seq[last] \notin D
    BY <1>3, <2>3
  <2>5. \A i \in 1..len : i > last => seq[i] \in D
    BY <1>3, <2>3, <2>4
  <2>6. EndsAt(seq, D, last)
    BY <1>1, <2>4, <2>5 DEF EndsAt
  <2>7. ASSUME NEW n, EndsAt(seq, D, n) PROVE n = last
    <3>1. n \in 0..len /\ (n > 0 => seq[n] \notin D) /\ \A i \in (n + 1)..len : seq[i] \in D
      BY <1>1, <2>7 DEF EndsAt
    <3>2. ~(last > n)
      BY <2>4, <3>1
    <3>3. ~(n > last)
      BY <2>4, <2>5, <3>1
    <3> QED
      BY <2>4, <3>1, <3>2, <3>3
  <2>8. DropLast(seq, D) = SubSeq(seq, 1, last)
    BY <1>2, <1>5, <2>2 DEF DropLast
  <2> QED
    BY <2>6, <2>7, <2>8
<1> QED
  BY <1>4, <1>5

LEMMA DroppedFirst ==
    ASSUME NEW S, NEW seq \in Seq(S), NEW D
    PROVE  /\ \E m : BeginsAt(seq, D, m)
           /\ \A m : BeginsAt(seq, D, m) => DropFirst(seq, D) = SubSeq(seq, m, Len(seq))
<1>1. PICK len \in Nat : len = Len(seq) /\ DOMAIN seq = 1..len
  OBVIOUS
<1>2. PICK kept : kept = Kept(seq, D)
  OBVIOUS
<1>3. kept = {i \in 1..len : seq[i] \notin D}
  BY <1>1, <1>2 DEF Kept
<1>4. CASE kept = {}
  <2>1. \A i \in 1..len : seq[i] \in D
    BY <1>3, <1>4
  <2>2. BeginsAt(seq, D, len + 1)
    BY <1>1, <2>1 DEF BeginsAt
  <2>3. ASSUME NEW m, BeginsAt(seq, D, m) PROVE m = len + 1
    BY <1>1, <2>1, <2>3 DEF BeginsAt
  <2>4. DropFirst(seq, D) = <<>> /\ SubSeq(seq, len + 1, len) = <<>>
    BY <1>2, <1>4 DEF DropFirst
  <2> QED
    BY <1>1, <2>2, <2>3, <2>4
<1>5. CASE kept # {}
  <2>1. kept \in SUBSET Nat
    BY <1>3
  <2>2. PICK first : first = Min(kept)
    OBVIOUS
  <2>3. first \in kept /\ \A i \in kept : first <= i
    BY <1>5, <2>1, <2>2, LeastOfNats
  <2>4. first \in 1..len /\ seq[first] \notin D
    BY <1>3, <2>3
  <2>5. \A i \in 1..len : i < first => seq[i] \in D
    BY <1>3, <2>3, <2>4
  <2>6. BeginsAt(seq, D, first)
    BY <1>1, <2>4, <2>5 DEF BeginsAt
  <2>7. ASSUME NEW m, BeginsAt(seq, D, m) PROVE m = first
    <3>1. m \in 1..(len + 1) /\ (m <= len => seq[m] \notin D) /\ \A i \in 1..(m - 1) : seq[i] \in D
      BY <1>1, <2>7 DEF BeginsAt
    <3>2. ~(first < m)
      BY <2>4, <3>1
    <3>3. ~(m < first)
      BY <2>4, <2>5, <3>1
    <3> QED
      BY <2>4, <3>1, <3>2, <3>3
  <2>8. DropFirst(seq, D) = SubSeq(seq, first, Len(seq))
    BY <1>2, <1>5, <2>2 DEF DropFirst
  <2> QED
    BY <2>6, <2>7, <2>8
<1> QED
  BY <1>4, <1>5

-----------------------------------------------------------------------------
LEMMA PutTogether ==
    ASSUME NEW S, NEW seq \in Seq(S), NEW n \in 0..Len(seq)
    PROVE  SubSeq(seq, 1, n) \o SubSeq(seq, n + 1, Len(seq)) = seq
<1>1. PICK len \in Nat : len = Len(seq)
  OBVIOUS
<1>2. n \in 0..len
  BY <1>1
<1>3. PICK front : front = SubSeq(seq, 1, n)
  OBVIOUS
<1>4. PICK rest : rest = SubSeq(seq, n + 1, len)
  OBVIOUS
<1>5. front \in Seq(S) /\ Len(front) = n /\ \A i \in 1..n : front[i] = seq[i]
  BY <1>1, <1>2, <1>3
<1>6. rest \in Seq(S) /\ Len(rest) = len - n /\ \A i \in 1..(len - n) : rest[i] = seq[n + i]
  BY <1>1, <1>2, <1>4
<1>7. PICK all : all = front \o rest
  OBVIOUS
<1>8. all \in Seq(S) /\ Len(all) = len
  <2>6. front \in Seq(S) /\ rest \in Seq(S)
    BY <1>5, <1>6
  <2>1. all \in Seq(S)
    BY <1>7, <2>6
  <2>2. Len(all) = Len(front) + Len(rest)
    BY <1>7, <2>6
  <2>3. PICK more \in Nat : more = len - n
    BY <1>2
  <2>4. Len(all) = n + more
    BY <1>5, <1>6, <2>2, <2>3
  <2>5. Len(all) = len
    BY <1>1, <1>2, <2>3, <2>4
  <2> QED
    BY <2>1, <2>5
<1>9. ASSUME NEW i \in 1..len PROVE all[i] = seq[i]
  <2>1. CASE i <= n
    <3>1. i \in 1..n /\ all[i] = front[i]
      BY <1>2, <1>5, <1>6, <1>7, <2>1
    <3> QED
      BY <1>5, <3>1
  <2>2. CASE i > n
    <3>1. PICK j : j = i - n
      OBVIOUS
    <3>2. j \in 1..(len - n) /\ n + j = i
      BY <1>2, <2>2, <3>1
    <3>3. all[n + j] = rest[j]
      BY <1>2, <1>5, <1>6, <1>7, <3>2
    <3> QED
      BY <1>6, <3>2, <3>3
  <2> QED
    BY <1>2, <2>1, <2>2
<1>10. all = seq
  BY <1>1, <1>8, <1>9, SeqEqual
<1> QED
  BY <1>1, <1>3, <1>4, <1>7, <1>10

\* What a sequence does not begin, or end, with.
Begins(seq, D) == seq # <<>> => seq[1] \notin D
Ends(seq, D) == seq # <<>> => seq[Len(seq)] \notin D

LEMMA LastDropped ==
    ASSUME NEW S, NEW D, NEW seq \in Seq(S), NEW trail \in Seq(S), trail \in Seq(D), Ends(seq, D)
    PROVE  DropLast(seq \o trail, D) = seq
<1>1. PICK a \in Nat : a = Len(seq)
  OBVIOUS
<1>2. PICK c \in Nat : c = Len(trail) /\ \A i \in 1..c : trail[i] \in D
  OBVIOUS
<1>3. PICK all : all = seq \o trail
  OBVIOUS
<1>4. /\ all \in Seq(S) /\ Len(all) = a + c
      /\ \A i \in 1..a : all[i] = seq[i]
      /\ \A i \in 1..c : all[a + i] = trail[i]
  BY <1>1, <1>2, <1>3
<1>5. SubSeq(all, 1, a) = seq
  BY <1>1, <1>2, <1>4
<1>6. ASSUME NEW i \in (a + 1)..(a + c) PROVE all[i] \in D
  <2>1. PICK j : j = i - a
    OBVIOUS
  <2>2. j \in 1..c /\ a + j = i
    BY <1>1, <1>2, <2>1
  <2> QED
    BY <1>2, <1>4, <2>2
<1>7. a > 0 => all[a] \notin D
  <2>1. SUFFICES ASSUME a > 0 PROVE all[a] \notin D
    OBVIOUS
  <2>2. a \in 1..a /\ seq # <<>>
    BY <1>1, <2>1
  <2> QED
    BY <1>1, <1>4, <2>2 DEF Ends
<1>8. a \in 0..Len(all)
  BY <1>4
<1>9. EndsAt(all, D, a)
  BY <1>4, <1>6, <1>7, <1>8 DEF EndsAt
<1>10. DropLast(all, D) = SubSeq(all, 1, a)
  BY <1>4, <1>9, DroppedLast
<1> QED
  BY <1>3, <1>5, <1>10

LEMMA FirstDropped ==
    ASSUME NEW S, NEW D, NEW seq \in Seq(S), NEW lead \in Seq(S), lead \in Seq(D), Begins(seq, D)
    PROVE  DropFirst(lead \o seq, D) = seq
<1>1. PICK a \in Nat : a = Len(seq)
  OBVIOUS
<1>2. PICK c \in Nat : c = Len(lead) /\ \A i \in 1..c : lead[i] \in D
  OBVIOUS
<1>3. PICK all : all = lead \o seq
  OBVIOUS
<1>4. /\ all \in Seq(S) /\ Len(all) = c + a
      /\ \A i \in 1..c : all[i] = lead[i]
      /\ \A i \in 1..a : all[c + i] = seq[i]
  BY <1>1, <1>2, <1>3
<1>5. SubSeq(all, c + 1, Len(all)) = seq
  <2>1. PICK rest : rest = SubSeq(all, c + 1, c + a)
    OBVIOUS
  <2>2. rest \in Seq(S) /\ Len(rest) = a /\ \A i \in 1..a : rest[i] = all[c + i]
    BY <1>1, <1>2, <1>4, <2>1
  <2>3. rest = seq
    BY <1>1, <1>4, <2>2, SeqEqual
  <2> QED
    BY <1>4, <2>1, <2>3
<1>6. \A i \in 1..((c + 1) - 1) : all[i] \in D
  BY <1>2, <1>4
<1>7. c + 1 <= Len(all) => all[c + 1] \notin D
  <2>1. SUFFICES ASSUME a > 0 PROVE all[c + 1] \notin D
    BY <1>4
  <2>2. 1 \in 1..a /\ seq # <<>>
    BY <1>1, <2>1
  <2> QED
    BY <1>1, <1>4, <2>2 DEF Begins
<1>8. c + 1 \in 1..(Len(all) + 1)
  BY <1>4
<1>9. BeginsAt(all, D, c + 1)
  BY <1>6, <1>7, <1>8 DEF BeginsAt
<1>10. DropFirst(all, D) = SubSeq(all, c + 1, Len(all))
  BY <1>4, <1>9, DroppedFirst
<1> QED
  BY <1>3, <1>5, <1>10

\* What is dropped can be put back.
EndsIn(S, D, front, seq) == \E trail \in Seq(S) : trail \in Seq(D) /\ seq = front \o trail
LeadsTo(S, D, rest, seq) == \E lead \in Seq(S) : lead \in Seq(D) /\ seq = lead \o rest

LEMMA LastPutBack ==
    ASSUME NEW S, NEW D, NEW seq \in Seq(S)
    PROVE  /\ DropLast(seq, D) \in Seq(S) /\ Ends(DropLast(seq, D), D)
           /\ EndsIn(S, D, DropLast(seq, D), seq)
<1>1. PICK n : EndsAt(seq, D, n) /\ DropLast(seq, D) = SubSeq(seq, 1, n)
  BY DroppedLast
<1>2. PICK len \in Nat : len = Len(seq) /\ \A i \in 1..len : seq[i] \in S
  OBVIOUS
<1>3. n \in 0..len /\ (n > 0 => seq[n] \notin D) /\ \A i \in (n + 1)..len : seq[i] \in D
  BY <1>1, <1>2 DEF EndsAt
<1>4. PICK front : front = SubSeq(seq, 1, n)
  OBVIOUS
<1>5. front \in Seq(S) /\ Len(front) = n /\ \A i \in 1..n : front[i] = seq[i]
  BY <1>2, <1>3, <1>4
<1>6. Ends(front, D)
  BY <1>3, <1>5 DEF Ends
<1>7. PICK trail : trail = SubSeq(seq, n + 1, len)
  OBVIOUS
<1>8. trail \in Seq(S) /\ Len(trail) = len - n /\ \A i \in 1..(len - n) : trail[i] = seq[n + i]
  BY <1>2, <1>3, <1>7
<1>9. ASSUME NEW i \in 1..Len(trail) PROVE trail[i] \in D
  <2>1. i \in 1..(len - n) /\ n + i \in (n + 1)..len
    BY <1>2, <1>3, <1>8
  <2> QED
    BY <1>3, <1>8, <2>1
<1>10. trail \in Seq(D)
  BY <1>8, <1>9
<1>11. seq = front \o trail
  BY <1>2, <1>3, <1>4, <1>7, PutTogether
<1>12. EndsIn(S, D, front, seq)
  BY <1>8, <1>10, <1>11 DEF EndsIn
<1> QED
  BY <1>1, <1>4, <1>5, <1>6, <1>12

LEMMA FirstPutBack ==
    ASSUME NEW S, NEW D, NEW seq \in Seq(S)
    PROVE  /\ DropFirst(seq, D) \in Seq(S) /\ Begins(DropFirst(seq, D), D)
           /\ DropFirst(seq, D) # <<>> =>
                DropFirst(seq, D)[Len(DropFirst(seq, D))] = seq[Len(seq)] /\ seq # <<>>
           /\ LeadsTo(S, D, DropFirst(seq, D), seq)
<1>1. PICK m : BeginsAt(seq, D, m) /\ DropFirst(seq, D) = SubSeq(seq, m, Len(seq))
  BY DroppedFirst
<1>2. PICK len \in Nat : len = Len(seq) /\ \A i \in 1..len : seq[i] \in S
  OBVIOUS
<1>3. m \in 1..(len + 1) /\ (m <= len => seq[m] \notin D) /\ \A i \in 1..(m - 1) : seq[i] \in D
  BY <1>1, <1>2 DEF BeginsAt
<1>4. PICK rest : rest = SubSeq(seq, m, len)
  OBVIOUS
<1>5. /\ rest \in Seq(S) /\ Len(rest) = len + 1 - m
      /\ \A i \in 1..(len + 1 - m) : rest[i] = seq[m + i - 1]
  BY <1>2, <1>3, <1>4
<1>6. ASSUME rest # <<>> PROVE rest[1] = seq[m] /\ m <= len /\ rest[Len(rest)] = seq[len]
  <2>1. m <= len
    BY <1>3, <1>5, <1>6
  <2>2. PICK k : k = len + 1 - m
    OBVIOUS
  <2>3. 1 \in 1..k /\ k \in 1..k /\ m + k - 1 = len /\ m + 1 - 1 = m
    BY <1>3, <2>1, <2>2
  <2> QED
    BY <1>5, <2>1, <2>2, <2>3
<1>7. Begins(rest, D)
  BY <1>3, <1>6 DEF Begins
<1>8. PICK lead : lead = SubSeq(seq, 1, m - 1)
  OBVIOUS
<1>9. lead \in Seq(S) /\ Len(lead) = m - 1 /\ \A i \in 1..(m - 1) : lead[i] = seq[i]
  BY <1>2, <1>3, <1>8
<1>10. lead \in Seq(D)
  BY <1>3, <1>9
<1>11. seq = lead \o rest
  <2>1. PICK n : n = m - 1
    OBVIOUS
  <2>2. n \in 0..Len(seq) /\ n + 1 = m
    BY <1>2, <1>3, <2>1
  <2>3. SubSeq(seq, 1, n) \o SubSeq(seq, n + 1, Len(seq)) = seq
    BY <2>2, PutTogether
  <2> QED
    BY <1>2, <1>4, <1>8, <2>1, <2>2, <2>3
<1>12. rest # <<>> => rest[Len(rest)] = seq[Len(seq)] /\ seq # <<>>
  BY <1>2, <1>3, <1>6
<1>13. LeadsTo(S, D, rest, seq)
  BY <1>9, <1>10, <1>11 DEF LeadsTo
<1> QED
  BY <1>1, <1>2, <1>4, <1>5, <1>7, <1>12, <1>13

Trim(seq, D) == DropFirst(DropLast(seq, D), D)
Tight(seq, D) == Begins(seq, D) /\ Ends(seq, D)

Around(S, D, lead, mid, trail) ==
    /\ mid \in Seq(S) /\ Tight(mid, D)
    /\ lead \in Seq(S) /\ lead \in Seq(D)
    /\ trail \in Seq(S) /\ trail \in Seq(D)

Wrapped(S, D, mid, seq) ==
    \E lead, trail : Around(S, D, lead, mid, trail) /\ seq = (lead \o mid) \o trail

\* Blanks around what is tight are dropped, and nothing else.
LEMMA TrimIs ==
    ASSUME NEW S, NEW D, NEW lead, NEW mid, NEW trail, Around(S, D, lead, mid, trail)
    PROVE  Trim((lead \o mid) \o trail, D) = mid
<1> /\ mid \in Seq(S) /\ Tight(mid, D)
    /\ lead \in Seq(S) /\ lead \in Seq(D) /\ trail \in Seq(S) /\ trail \in Seq(D)
  BY DEF Around
<1>1. PICK front : front = lead \o mid
  OBVIOUS
<1>2. front \in Seq(S)
  BY <1>1
<1>3. CASE mid = <<>>
  <2>1. PICK rest : rest = lead \o trail
    OBVIOUS
  <2>2. rest \in Seq(S) /\ rest \in Seq(D) /\ front = lead /\ front \o trail = rest
    BY <1>1, <1>3, <2>1
  <2>3. Ends(mid, D) /\ mid \o rest = rest
    BY <1>3, <2>2 DEF Ends
  <2>4. DropLast(rest, D) = mid
    <3>1. DropLast(mid \o rest, D) = mid
      BY <2>2, <2>3, LastDropped
    <3> QED
      BY <2>3, <3>1
  <2>5. Begins(mid, D) /\ mid \o mid = mid /\ mid \in Seq(D)
    BY <1>3 DEF Begins
  <2>6. DropFirst(mid, D) = mid
    <3>1. DropFirst(mid \o mid, D) = mid
      BY <2>5, FirstDropped
    <3> QED
      BY <2>5, <3>1
  <2> QED
    BY <1>1, <2>2, <2>4, <2>6 DEF Trim
<1>4. CASE mid # <<>>
  <2>1. front # <<>> /\ front[Len(front)] = mid[Len(mid)]
    BY <1>1, <1>4
  <2>2. Ends(front, D)
    BY <1>4, <2>1 DEF Tight, Ends
  <2>3. DropLast(front \o trail, D) = front
    BY <1>2, <2>2, LastDropped
  <2>4. Begins(mid, D)
    BY DEF Tight
  <2>5. DropFirst(lead \o mid, D) = mid
    BY <2>4, FirstDropped
  <2> QED
    BY <1>1, <2>3, <2>5 DEF Trim
<1> QED
  BY <1>3, <1>4

LEMMA TrimParts ==
    ASSUME NEW S, NEW seq \in Seq(S), NEW D
    PROVE  /\ Trim(seq, D) \in Seq(S) /\ Tight(Trim(seq, D), D)
           /\ Wrapped(S, D, Trim(seq, D), seq)
<1>1. PICK front : front = DropLast(seq, D)
  OBVIOUS
<1>2. front \in Seq(S) /\ Ends(front, D)
  BY <1>1, LastPutBack
<1>10. EndsIn(S, D, front, seq)
  BY <1>1, LastPutBack
<1>3. PICK trail \in Seq(S) : trail \in Seq(D) /\ seq = front \o trail
  BY <1>10 DEF EndsIn
<1>4. PICK mid : mid = DropFirst(front, D)
  OBVIOUS
<1>5. /\ mid \in Seq(S) /\ Begins(mid, D)
      /\ mid # <<>> => mid[Len(mid)] = front[Len(front)] /\ front # <<>>
  BY <1>2, <1>4, FirstPutBack
<1>11. LeadsTo(S, D, mid, front)
  BY <1>2, <1>4, FirstPutBack
<1>6. PICK lead \in Seq(S) : lead \in Seq(D) /\ front = lead \o mid
  BY <1>11 DEF LeadsTo
<1>7. Trim(seq, D) = mid
  BY <1>1, <1>4 DEF Trim
<1>8. Tight(mid, D)
  BY <1>2, <1>5 DEF Tight, Ends
<1>9. seq = (lead \o mid) \o trail
  BY <1>3, <1>6
<1>12. Around(S, D, lead, mid, trail)
  BY <1>3, <1>5, <1>6, <1>8 DEF Around
<1>13. Wrapped(S, D, mid, seq)
  BY <1>9, <1>12 DEF Wrapped
<1> QED
  BY <1>5, <1>7, <1>8, <1>13

\* What is tight is left as it is.
LEMMA TrimTight ==
    ASSUME NEW S, NEW seq \in Seq(S), NEW D, Tight(seq, D)
    PROVE  Trim(seq, D) = seq
<1>1. PICK none : none = <<>>
  OBVIOUS
<1>2. Around(S, D, none, seq, none) /\ (none \o seq) \o none = seq
  BY <1>1 DEF Around
<1>3. Trim((none \o seq) \o none, D) = seq
  BY <1>2, TrimIs
<1> QED
  BY <1>2, <1>3

-----------------------------------------------------------------------------
(* Two readings of one sequence, and readings of what is put together *)

\* R goes on from each pair of states to the next.
Relates(A, B, C, F, G, R) ==
    \A a \in A, b \in B, c \in C : <<a, b>> \in R => <<F[<<a, c>>], G[<<b, c>>]>> \in R

LEMMA ReadsRelate ==
    ASSUME NEW A, NEW B, NEW C, NEW F, NEW G, NEW a0, NEW b0,
           Reader(A, C, F, a0), Reader(B, C, G, b0), NEW seq \in Seq(C),
           NEW R, Relates(A, B, C, F, G, R), <<a0, b0>> \in R
    PROVE  <<Reads(F, a0, seq), Reads(G, b0, seq)>> \in R
<1>1. PICK g : Reading(F, a0, seq, g) /\ g[Len(seq)] = Reads(F, a0, seq)
  BY ReadsIs
<1>2. PICK h : Reading(G, b0, seq, h) /\ h[Len(seq)] = Reads(G, b0, seq)
  BY ReadsIs
<1>3. \A i \in 0..Len(seq) : g[i] \in A
  BY <1>1, ReadingTyped
<1>4. \A i \in 0..Len(seq) : h[i] \in B
  BY <1>2, ReadingTyped
<1>5. PICK n \in Nat : n = Len(seq) /\ \A i \in 1..n : seq[i] \in C
  OBVIOUS
<1>6. PICK N : N = {i \in Nat : i <= n => <<g[i], h[i]>> \in R}
  OBVIOUS
<1>7. 0 \in N
  BY <1>1, <1>2, <1>6 DEF Reading
<1>8. ASSUME NEW i \in Nat, i \in N PROVE i + 1 \in N
  <2>1. SUFFICES ASSUME i + 1 <= n PROVE <<g[i + 1], h[i + 1]>> \in R
    BY <1>6
  <2>2. PICK j : j = i + 1
    OBVIOUS
  <2>3. j \in 1..n /\ j - 1 = i /\ i <= n /\ i \in 0..n
    BY <2>1, <2>2
  <2>4. g[j] = F[<<g[i], seq[j]>>] /\ h[j] = G[<<h[i], seq[j]>>]
    BY <1>1, <1>2, <1>5, <2>3 DEF Reading
  <2>5. g[i] \in A /\ h[i] \in B /\ seq[j] \in C /\ <<g[i], h[i]>> \in R
    BY <1>3, <1>4, <1>5, <1>6, <1>8, <2>3
  <2> QED
    BY <2>2, <2>4, <2>5 DEF Relates
<1>9. n \in N
  BY <1>7, <1>8, Induction
<1> QED
  BY <1>1, <1>2, <1>5, <1>6, <1>9

\* The same, element for element: what two sequences of one length stand for.
RelatesAt(A, B, C, D, F, G, R, seq, other) ==
    /\ Len(seq) = Len(other)
    /\ \A i \in 1..Len(seq) : \A a \in A, b \in B :
        <<a, b>> \in R => <<F[<<a, seq[i]>>], G[<<b, other[i]>>]>> \in R

LEMMA ReadsRelateAt ==
    ASSUME NEW A, NEW B, NEW C, NEW D, NEW F, NEW G, NEW a0, NEW b0,
           Reader(A, C, F, a0), Reader(B, D, G, b0), NEW seq \in Seq(C), NEW other \in Seq(D),
           NEW R, RelatesAt(A, B, C, D, F, G, R, seq, other), <<a0, b0>> \in R
    PROVE  <<Reads(F, a0, seq), Reads(G, b0, other)>> \in R
<1>1. PICK g : Reading(F, a0, seq, g) /\ g[Len(seq)] = Reads(F, a0, seq)
  BY ReadsIs
<1>2. PICK h : Reading(G, b0, other, h) /\ h[Len(other)] = Reads(G, b0, other)
  BY ReadsIs
<1>3. \A i \in 0..Len(seq) : g[i] \in A
  BY <1>1, ReadingTyped
<1>4. \A i \in 0..Len(other) : h[i] \in B
  BY <1>2, ReadingTyped
<1>5. PICK n \in Nat : n = Len(seq) /\ n = Len(other)
  BY DEF RelatesAt
<1>6. PICK N : N = {i \in Nat : i <= n => <<g[i], h[i]>> \in R}
  OBVIOUS
<1>7. 0 \in N
  BY <1>1, <1>2, <1>6 DEF Reading
<1>8. ASSUME NEW i \in Nat, i \in N PROVE i + 1 \in N
  <2>1. SUFFICES ASSUME i + 1 <= n PROVE <<g[i + 1], h[i + 1]>> \in R
    BY <1>6
  <2>2. PICK j : j = i + 1
    OBVIOUS
  <2>3. j \in 1..n /\ j - 1 = i /\ i <= n /\ i \in 0..n
    BY <2>1, <2>2
  <2>4. g[j] = F[<<g[i], seq[j]>>] /\ h[j] = G[<<h[i], other[j]>>]
    BY <1>1, <1>2, <1>5, <2>3 DEF Reading
  <2>5. g[i] \in A /\ h[i] \in B /\ <<g[i], h[i]>> \in R
    BY <1>3, <1>4, <1>5, <1>6, <1>8, <2>3
  <2>6. <<F[<<g[i], seq[j]>>], G[<<h[i], other[j]>>]>> \in R
    BY <1>5, <2>3, <2>5 DEF RelatesAt
  <2> QED
    BY <2>2, <2>4, <2>6
<1>9. n \in N
  BY <1>7, <1>8, Induction
<1>10. <<g[n], h[n]>> \in R
  BY <1>6, <1>9
<1> QED
  BY <1>1, <1>2, <1>5, <1>10

-----------------------------------------------------------------------------
\* Sequences one behind the other: what FlattenSeq puts together.
Joiner(C) == [p \in Seq(C) \X Seq(C) |-> p[1] \o p[2]]

LEMMA JoinerReads ==
    ASSUME NEW C
    PROVE  /\ \A a \in Seq(C) : Reader(Seq(C), Seq(C), Joiner(C), a)
           /\ \A a \in Seq(C), b \in Seq(C) : Joiner(C)[<<a, b>>] = a \o b
<1>1. \A a \in Seq(C), b \in Seq(C) : a \o b \in Seq(C)
  OBVIOUS
<1>2. Joiner(C) \in [Seq(C) \X Seq(C) -> Seq(C)]
  BY <1>1 DEF Joiner
<1>3. \A a \in Seq(C), b \in Seq(C) : Joiner(C)[<<a, b>>] = a \o b
  BY DEF Joiner
<1> QED
  BY <1>2, <1>3 DEF Reader

LEMMA Flattened ==
    ASSUME NEW C, NEW seqs \in Seq(Seq(C))
    PROVE  FlattenSeq(seqs) = Reads(Joiner(C), <<>>, seqs)
<1>20. PICK none : none = <<>>
  OBVIOUS
<1>1. none \in Seq(C) /\ none = <<>>
  BY <1>20, EmptySeq
<1>2. Reader(Seq(C), Seq(C), Joiner(C), none)
  BY <1>1, JoinerReads
<1>3. PICK g : Reading(Joiner(C), none, seqs, g) /\ g[Len(seqs)] = Reads(Joiner(C), none, seqs)
  BY <1>2, ReadsIs
<1>4. \A i \in 0..Len(seqs) : g[i] \in Seq(C)
  BY <1>2, <1>3, ReadingTyped
<1>5. PICK n \in Nat : n = Len(seqs) /\ \A i \in 1..n : seqs[i] \in Seq(C)
  OBVIOUS
<1>6. CASE n = 0
  <2>1. seqs = <<>>
    BY <1>5, <1>6, EmptySeq
  <2>2. FlattenSeq(seqs) = none
    BY <1>1, <1>5, <1>6, <2>1 DEF FlattenSeq
  <2>3. g[0] = none
    BY <1>3 DEF Reading
  <2> QED
    BY <1>1, <1>3, <1>5, <1>6, <2>2, <2>3
<1>7. CASE n > 0
  <2> DEFINE Step(f, i) == IF i = 1 THEN seqs[i] ELSE f[i - 1] \o seqs[i]
  <2>1. ASSUME NEW i \in 1..n PROVE g[i] = g[i - 1] \o seqs[i] /\ g[i] = Step(g, i)
    <3>1. g[i] = Joiner(C)[<<g[i - 1], seqs[i]>>] /\ g[0] = <<>>
      BY <1>1, <1>3, <1>5 DEF Reading
    <3>2. g[i - 1] \in Seq(C) /\ seqs[i] \in Seq(C)
      BY <1>4, <1>5
    <3>3. g[i] = g[i - 1] \o seqs[i]
      BY <3>1, <3>2, JoinerReads
    <3>4. CASE i = 1
      <4>1. g[i - 1] = <<>>
        BY <3>1, <3>4
      <4>2. <<>> \o seqs[i] = seqs[i]
        BY <3>2
      <4> QED
        BY <3>3, <3>4, <4>1, <4>2
    <3> QED
      BY <3>3, <3>4
  <2>2. PICK f : f = [i \in 1..n |-> g[i]]
    OBVIOUS
  <2>3. ASSUME NEW i \in 1..n PROVE f[i] = Step(f, i)
    <3>1. CASE i = 1
      BY <2>1, <2>2, <3>1
    <3>2. CASE i # 1
      <4>1. i - 1 \in 1..n
        BY <3>2
      <4> QED
        BY <2>1, <2>2, <3>2, <4>1
    <3> QED
      BY <3>1, <3>2
  <2>4. f = [i \in 1..n |-> Step(f, i)]
    <3> HIDE DEF Step
    <3> QED
      BY <2>2, <2>3
  <2>5. PICK k : /\ k = [i \in 1..Len(seqs) |-> Step(k, i)]
                 /\ FlattenSeq(seqs) = k[Len(seqs)]
    <3>1. Len(seqs) # 0
      BY <1>5, <1>7
    <3> QED
      BY <1>5, <2>4, <3>1, Zenon DEF FlattenSeq
  <2>6. PICK N : N = {i \in Nat : i + 1 <= n => k[i + 1] = g[i + 1]}
    OBVIOUS
  <2>7. \A i \in 1..n : k[i] = Step(k, i)
    BY <1>5, <2>5
  <2>8. 0 \in N
    <3>2. 1 \in 1..n
      BY <1>7
    <3>1. k[1] = seqs[1] /\ g[1] = seqs[1]
      BY <2>1, <2>7, <3>2
    <3> QED
      BY <2>6, <3>1
  <2>9. ASSUME NEW i \in Nat, i \in N PROVE i + 1 \in N
    <3>1. SUFFICES ASSUME i + 2 <= n PROVE k[i + 2] = g[i + 2]
      BY <2>6
    <3>2. PICK j : j = i + 2
      OBVIOUS
    <3>3. j \in 1..n /\ j # 1 /\ j - 1 = i + 1 /\ i + 1 <= n
      BY <3>1, <3>2
    <3>4. k[j - 1] = g[j - 1]
      BY <2>6, <2>9, <3>3
    <3>5. g[j] = g[j - 1] \o seqs[j]
      BY <2>1, <3>3
    <3>6. k[j] = k[j - 1] \o seqs[j]
      BY <2>7, <3>3
    <3> QED
      BY <3>2, <3>4, <3>5, <3>6
  <2>10. PICK m : m = n - 1
    OBVIOUS
  <2>11. m \in Nat /\ m + 1 = n
    BY <1>7, <2>10
  <2>12. m \in N
    BY <2>8, <2>9, <2>11, Induction
  <2>13. k[n] = g[n]
    BY <2>6, <2>11, <2>12
  <2> QED
    BY <1>1, <1>3, <1>5, <2>5, <2>13
<1> QED
  BY <1>5, <1>6, <1>7

\* Reading what is put together is reading one part after the other.
PartReader(A, C, F) == [p \in A \X Seq(C) |-> Reads(F, p[1], p[2])]

LEMMA PartReaderReads ==
    ASSUME NEW A, NEW C, NEW F, NEW base, Reader(A, C, F, base)
    PROVE  /\ Reader(A, Seq(C), PartReader(A, C, F), base)
           /\ \A a \in A, part \in Seq(C) :
                PartReader(A, C, F)[<<a, part>>] = Reads(F, a, part) /\ Reads(F, a, part) \in A
<1>1. ASSUME NEW a \in A PROVE Reader(A, C, F, a)
  BY DEF Reader
<1>2. ASSUME NEW a \in A, NEW part \in Seq(C) PROVE Reads(F, a, part) \in A
  <2>1. Reader(A, C, F, a)
    BY <1>1
  <2> QED
    BY <2>1, ReadsIs
<1>3. \A a \in A, part \in Seq(C) : PartReader(A, C, F)[<<a, part>>] = Reads(F, a, part)
  BY DEF PartReader
<1>4. PartReader(A, C, F) \in [A \X Seq(C) -> A]
  BY <1>2 DEF PartReader
<1>5. base \in A
  BY DEF Reader
<1>6. Reader(A, Seq(C), PartReader(A, C, F), base)
  BY <1>4, <1>5 DEF Reader
<1> QED
  BY <1>2, <1>3, <1>6

LEMMA ReadsParts ==
    ASSUME NEW A, NEW C, NEW F, NEW base, Reader(A, C, F, base), NEW seqs \in Seq(Seq(C))
    PROVE  Reads(F, base, FlattenSeq(seqs)) = Reads(PartReader(A, C, F), base, seqs)
<1>20. PICK none : none = <<>>
  OBVIOUS
<1>1. none \in Seq(C) /\ none = <<>>
  BY <1>20, EmptySeq
<1>2. Reader(Seq(C), Seq(C), Joiner(C), none)
  BY <1>1, JoinerReads
<1>3. Reader(A, Seq(C), PartReader(A, C, F), base)
  BY PartReaderReads
<1>4. FlattenSeq(seqs) = Reads(Joiner(C), none, seqs)
  BY <1>1, Flattened
<1>5. PICK R : R = {p \in Seq(C) \X A : Reads(F, base, p[1]) = p[2]}
  OBVIOUS
<1>6. \A s \in Seq(C), a \in A : <<s, a>> \in R <=> Reads(F, base, s) = a
  BY <1>5
<1>7. <<none, base>> \in R
  <2>1. Reads(F, base, none) = base
    BY <1>1, ReadsNone
  <2>2. base \in A
    BY DEF Reader
  <2> QED
    BY <1>1, <1>6, <2>1, <2>2
<1>8. ASSUME NEW s \in Seq(C), NEW a \in A, NEW part \in Seq(C), <<s, a>> \in R
      PROVE  <<Joiner(C)[<<s, part>>], PartReader(A, C, F)[<<a, part>>]>> \in R
  <2>1. Joiner(C)[<<s, part>>] = s \o part
    BY JoinerReads
  <2>5. s \o part \in Seq(C)
    OBVIOUS
  <2>2. PartReader(A, C, F)[<<a, part>>] = Reads(F, a, part) /\ Reads(F, a, part) \in A
    BY PartReaderReads
  <2>3. Reads(F, base, s \o part) = Reads(F, Reads(F, base, s), part)
    BY ReadsOn
  <2>4. Reads(F, base, s) = a
    BY <1>6, <1>8
  <2> QED
    BY <1>6, <2>1, <2>2, <2>3, <2>4, <2>5
<1>9. Relates(Seq(C), A, Seq(C), Joiner(C), PartReader(A, C, F), R)
  BY <1>8 DEF Relates
<1>10. <<Reads(Joiner(C), none, seqs), Reads(PartReader(A, C, F), base, seqs)>> \in R
  BY <1>2, <1>3, <1>7, <1>9, ReadsRelate
<1>11. Reads(Joiner(C), none, seqs) \in Seq(C) /\ Reads(PartReader(A, C, F), base, seqs) \in A
  BY <1>2, <1>3, ReadsIs
<1> QED
  BY <1>4, <1>6, <1>10, <1>11

LEMMA OneLonger ==
    ASSUME NEW C, NEW seq \in Seq(C), NEW i \in 1..Len(seq)
    PROVE  /\ SubSeq(seq, 1, i - 1) \in Seq(C)
           /\ Append(SubSeq(seq, 1, i - 1), seq[i]) = SubSeq(seq, 1, i)
<1>1. PICK n \in Nat : n = Len(seq) /\ \A k \in 1..n : seq[k] \in C
  OBVIOUS
<1>2. PICK j \in 0..n : j = i - 1 /\ j + 1 = i
  BY <1>1
<1>3. PICK front : front = SubSeq(seq, 1, j)
  OBVIOUS
<1>4. front \in Seq(C) /\ Len(front) = j /\ \A k \in 1..j : front[k] = seq[k]
  BY <1>1, <1>2, <1>3
<1>5. PICK more : more = SubSeq(seq, 1, i)
  OBVIOUS
<1>6. more \in Seq(C) /\ Len(more) = j + 1 /\ \A k \in 1..(j + 1) : more[k] = seq[k]
  BY <1>1, <1>2, <1>5
<1>7. PICK other : other = Append(front, seq[i])
  OBVIOUS
<1>8. /\ other \in Seq(C) /\ Len(other) = j + 1
      /\ \A k \in 1..j : other[k] = front[k]
      /\ other[j + 1] = seq[i]
  BY <1>1, <1>4, <1>7
<1>9. \A k \in 1..(j + 1) : other[k] = more[k]
  <2> SUFFICES ASSUME NEW k \in 1..(j + 1) PROVE other[k] = more[k]
    OBVIOUS
  <2>1. CASE k = j + 1
    BY <1>2, <1>6, <1>8, <2>1
  <2>2. CASE k \in 1..j
    BY <1>4, <1>6, <1>8, <2>2
  <2> QED
    BY <1>2, <2>1, <2>2
<1>10. other = more
  BY <1>6, <1>8, <1>9, SeqEqual
<1> QED
  BY <1>2, <1>3, <1>4, <1>5, <1>7, <1>10

\* A reader that puts each element behind what it has copies the sequence.
Copier(C) == [p \in Seq(C) \X C |-> Append(p[1], p[2])]

LEMMA CopierReads ==
    ASSUME NEW C
    PROVE  /\ \A a \in Seq(C) : Reader(Seq(C), C, Copier(C), a)
           /\ \A a \in Seq(C), c \in C : Copier(C)[<<a, c>>] = Append(a, c)
BY DEF Reader, Copier

LEMMA Copied ==
    ASSUME NEW C, NEW seq \in Seq(C)
    PROVE  Reads(Copier(C), <<>>, seq) = seq
<1>20. PICK none : none = <<>>
  OBVIOUS
<1>1. none \in Seq(C) /\ none = <<>>
  BY <1>20, EmptySeq
<1>2. Reader(Seq(C), C, Copier(C), none)
  BY <1>1, CopierReads
<1>3. PICK n \in Nat : n = Len(seq) /\ \A i \in 1..n : seq[i] \in C
  OBVIOUS
<1>4. PICK g : g = [i \in 0..n |-> SubSeq(seq, 1, i)]
  OBVIOUS
<1>5. g[0] = none
  BY <1>1, <1>4
<1>6. ASSUME NEW i \in 1..n PROVE g[i] = Copier(C)[<<g[i - 1], seq[i]>>]
  <2>1. PICK front : front = SubSeq(seq, 1, i - 1)
    OBVIOUS
  <2>2. front \in Seq(C) /\ Append(front, seq[i]) = SubSeq(seq, 1, i)
    BY <1>3, <2>1, OneLonger
  <2>5. i \in 0..n /\ i - 1 \in 0..n
    OBVIOUS
  <2>3. g[i] = SubSeq(seq, 1, i) /\ g[i - 1] = front
    BY <1>4, <2>1, <2>5
  <2>4. Copier(C)[<<front, seq[i]>>] = Append(front, seq[i])
    BY <1>3, <2>2, CopierReads
  <2> QED
    BY <2>2, <2>3, <2>4
<1>7. Reading(Copier(C), none, seq, g)
  BY <1>3, <1>5, <1>6 DEF Reading
<1>8. g[Len(seq)] = Reads(Copier(C), none, seq)
  BY <1>2, <1>7, ReadsIs
<1>9. g[Len(seq)] = seq
  BY <1>3, <1>4, SubSeqFull
<1> QED
  BY <1>1, <1>8, <1>9

LEMMA OneMore ==
    ASSUME NEW S, NEW seq \in Seq(S), NEW n \in Nat, n = Len(seq), NEW e \in S
    PROVE  /\ Append(seq, e) \in Seq(S) /\ Len(Append(seq, e)) = n + 1
           /\ \A i \in 1..n : Append(seq, e)[i] = seq[i]
           /\ Append(seq, e)[n + 1] = e
BY AppendProperties

LEMMA ReadsFew ==
    ASSUME NEW A, NEW C, NEW F, NEW base, Reader(A, C, F, base)
    PROVE  /\ \A c \in C : Reads(F, base, <<c>>) = F[<<base, c>>] /\ F[<<base, c>>] \in A
           /\ \A c \in C, d \in C : Reads(F, base, <<c, d>>) = F[<<F[<<base, c>>], d>>]
<1>1. PICK none : none = <<>>
  OBVIOUS
<1>2. none \in Seq(C) /\ Reads(F, base, none) = base
  BY <1>1, EmptySeq, ReadsNone
<1>3. ASSUME NEW c \in C
      PROVE  Reads(F, base, <<c>>) = F[<<base, c>>] /\ F[<<base, c>>] \in A
  <2>1. Reads(F, base, Append(none, c)) = F[<<Reads(F, base, none), c>>]
    BY <1>2, ReadsOne
  <2>2. Append(none, c) = <<c>>
    BY <1>1
  <2>3. F[<<base, c>>] \in A
    BY DEF Reader
  <2> QED
    BY <1>2, <2>1, <2>2, <2>3
<1>4. ASSUME NEW c \in C, NEW d \in C PROVE Reads(F, base, <<c, d>>) = F[<<F[<<base, c>>], d>>]
  <2>1. PICK single : single = <<c>>
    OBVIOUS
  <2>2. single \in Seq(C) /\ Len(single) = 1 /\ single[1] = c
    BY <2>1
  <2>4. Append(single, d) = <<c, d>>
    <3>1. PICK both : both = <<c, d>>
      OBVIOUS
    <3>2. both \in Seq(C) /\ Len(both) = 2 /\ both[1] = c /\ both[2] = d
      BY <3>1
    <3>3. PICK more : more = Append(single, d)
      OBVIOUS
    <3>6. more \in Seq(C) /\ Len(more) = Len(single) + 1 /\ more[Len(single) + 1] = d
      BY <2>2, <3>3, AppendProperties
    <3>7. \A i \in 1..Len(single) : more[i] = single[i]
      BY <2>2, <3>3, AppendProperties
    <3>4. more \in Seq(C) /\ Len(more) = 2 /\ more[1] = c /\ more[2] = d
      BY <2>2, <3>6, <3>7
    <3>5. more = both
      BY <3>2, <3>4, SeqEqual
    <3> QED
      BY <3>1, <3>3, <3>5
  <2>3. Reads(F, base, Append(single, d)) = F[<<Reads(F, base, single), d>>]
    BY <2>2, ReadsOne
  <2> QED
    BY <1>3, <2>1, <2>3, <2>4
<1> QED
  BY <1>3, <1>4

-----------------------------------------------------------------------------
(* The class list *)

CellStates == [cells : Seq(Seq(CellChars)) \ {<<>>}, quoted : BOOLEAN, closing : BOOLEAN]
CellReader == [p \in CellStates \X CellChars |-> ReadCell(p[1], p[2])]

\* The reading of a cell x behind other cells.
InCell(pre, x, quoted, closing) ==
    [cells |-> Append(pre, x), quoted |-> quoted, closing |-> closing]

LEMMA ReadInCell ==
    ASSUME NEW pre \in Seq(Seq(CellChars)), NEW x \in Seq(CellChars), NEW closing \in BOOLEAN
    PROVE  /\ ReadCell(InCell(pre, x, TRUE, closing), "quote") = InCell(pre, x, FALSE, TRUE)
           /\ \A c \in CellChars : c # "quote" =>
                ReadCell(InCell(pre, x, TRUE, closing), c) = InCell(pre, Append(x, c), TRUE, FALSE)
           /\ ReadCell(InCell(pre, x, FALSE, TRUE), "quote")
                = InCell(pre, Append(x, "quote"), TRUE, FALSE)
           /\ ReadCell(InCell(pre, x, FALSE, FALSE), "quote") = InCell(pre, x, TRUE, FALSE)
           /\ \A c \in {"comma", "tab"} :
                ReadCell(InCell(pre, x, FALSE, closing), c)
                    = InCell(Append(pre, x), <<>>, FALSE, FALSE)
           /\ \A c \in CellChars : c \notin {"quote", "comma", "tab"} =>
                ReadCell(InCell(pre, x, FALSE, closing), c)
                    = InCell(pre, Append(x, c), FALSE, FALSE)
<1>1. PICK all : all = Append(pre, x)
  OBVIOUS
<1>2. \A c \in CellChars : [all EXCEPT ![Len(all)] = Append(@, c)] = Append(pre, Append(x, c))
  BY <1>1, LastPut
<1>3. "quote" \in CellChars /\ "comma" \in CellChars
  BY DEF CellChars
<1>4. \A quoted, cl : InCell(pre, x, quoted, cl)
                        = [cells |-> all, quoted |-> quoted, closing |-> cl]
  BY <1>1 DEF InCell
<1>11. PICK put : put = [c \in CellChars |-> [all EXCEPT ![Len(all)] = Append(@, c)]]
  OBVIOUS
<1>12. \A quoted : \A c \in CellChars :
        [cells |-> put[c], quoted |-> quoted, closing |-> FALSE]
            = InCell(pre, Append(x, c), quoted, FALSE)
  BY <1>2, <1>11 DEF InCell
<1>5. ReadCell(InCell(pre, x, TRUE, closing), "quote") = InCell(pre, x, FALSE, TRUE)
  <2>1. ReadCell([cells |-> all, quoted |-> TRUE, closing |-> closing], "quote")
            = [cells |-> all, quoted |-> FALSE, closing |-> TRUE]
    BY DEF ReadCell
  <2> QED
    BY <1>4, <2>1
<1>6. ASSUME NEW c \in CellChars, c # "quote"
      PROVE  ReadCell(InCell(pre, x, TRUE, closing), c) = InCell(pre, Append(x, c), TRUE, FALSE)
  <2>1. ReadCell([cells |-> all, quoted |-> TRUE, closing |-> closing], c)
            = [cells |-> [all EXCEPT ![Len(all)] = Append(@, c)],
               quoted |-> TRUE, closing |-> FALSE]
    BY <1>6 DEF ReadCell
  <2> QED
    BY <1>4, <1>11, <1>12, <2>1
<1>7. ReadCell(InCell(pre, x, FALSE, TRUE), "quote") = InCell(pre, Append(x, "quote"), TRUE, FALSE)
  <2>1. ReadCell([cells |-> all, quoted |-> FALSE, closing |-> TRUE], "quote")
            = [cells |-> [all EXCEPT ![Len(all)] = Append(@, "quote")],
               quoted |-> TRUE, closing |-> FALSE]
    BY DEF ReadCell
  <2> QED
    BY <1>3, <1>4, <1>11, <1>12, <2>1
<1>8. ReadCell(InCell(pre, x, FALSE, FALSE), "quote") = InCell(pre, x, TRUE, FALSE)
  <2>1. ReadCell([cells |-> all, quoted |-> FALSE, closing |-> FALSE], "quote")
            = [cells |-> all, quoted |-> TRUE, closing |-> FALSE]
    BY DEF ReadCell
  <2> QED
    BY <1>4, <2>1
<1>9. ASSUME NEW c \in {"comma", "tab"}
      PROVE  ReadCell(InCell(pre, x, FALSE, closing), c)
                = InCell(Append(pre, x), <<>>, FALSE, FALSE)
  <2>1. ReadCell([cells |-> all, quoted |-> FALSE, closing |-> closing], c)
            = [cells |-> Append(all, <<>>), quoted |-> FALSE, closing |-> FALSE]
    BY <1>9 DEF ReadCell
  <2> QED
    BY <1>1, <1>4, <2>1 DEF InCell
<1>10. ASSUME NEW c \in CellChars, c \notin {"quote", "comma", "tab"}
       PROVE  ReadCell(InCell(pre, x, FALSE, closing), c) = InCell(pre, Append(x, c), FALSE, FALSE)
  <2>1. ReadCell([cells |-> all, quoted |-> FALSE, closing |-> closing], c)
            = [cells |-> [all EXCEPT ![Len(all)] = Append(@, c)], quoted |-> FALSE,
               closing |-> FALSE]
    BY <1>10 DEF ReadCell
  <2> QED
    BY <1>4, <1>11, <1>12, <2>1
<1> QED
  BY <1>5, <1>6, <1>7, <1>8, <1>9, <1>10

LEMMA InCellStates ==
    /\ \A pre \in Seq(Seq(CellChars)), x \in Seq(CellChars), quoted \in BOOLEAN,
          closing \in BOOLEAN : InCell(pre, x, quoted, closing) \in CellStates
    /\ \A acc \in CellStates : \E pre \in Seq(Seq(CellChars)), x \in Seq(CellChars) :
          acc = InCell(pre, x, acc.quoted, acc.closing)
<1>1. ASSUME NEW pre \in Seq(Seq(CellChars)), NEW x \in Seq(CellChars), NEW quoted \in BOOLEAN,
             NEW closing \in BOOLEAN
      PROVE  InCell(pre, x, quoted, closing) \in CellStates
  <2>1. Append(pre, x) \in Seq(Seq(CellChars)) /\ Append(pre, x) # <<>>
    BY AppendProperties
  <2> QED
    BY <2>1 DEF InCell, CellStates
<1>2. ASSUME NEW acc \in CellStates
      PROVE  \E pre \in Seq(Seq(CellChars)), x \in Seq(CellChars) :
                acc = InCell(pre, x, acc.quoted, acc.closing)
  <2>1. /\ acc = [cells |-> acc.cells, quoted |-> acc.quoted, closing |-> acc.closing]
        /\ acc.cells \in Seq(Seq(CellChars)) /\ acc.cells # <<>>
    BY DEF CellStates
  <2>2. PICK n \in Nat : n + 1 = Len(acc.cells)
    <3>1. Len(acc.cells) \in Nat \ {0}
      BY <2>1, EmptySeq
    <3>2. PICK m : m = Len(acc.cells) - 1
      OBVIOUS
    <3> QED
      BY <3>1, <3>2
  <2>3. PICK pre : pre = SubSeq(acc.cells, 1, n)
    OBVIOUS
  <2>4. /\ pre \in Seq(Seq(CellChars)) /\ Len(pre) = n
        /\ \A i \in 1..n : pre[i] = acc.cells[i]
    BY <2>1, <2>2, <2>3
  <2>5. PICK x : x = acc.cells[n + 1]
    OBVIOUS
  <2>6. x \in Seq(CellChars)
    BY <2>1, <2>2, <2>5
  <2>7. PICK all : all = Append(pre, x)
    OBVIOUS
  <2>8. /\ all \in Seq(Seq(CellChars)) /\ Len(all) = n + 1
        /\ \A i \in 1..n : all[i] = pre[i]
        /\ all[n + 1] = x
    BY <2>4, <2>6, <2>7
  <2>9. ASSUME NEW i \in 1..(n + 1) PROVE all[i] = acc.cells[i]
    <3>1. CASE i = n + 1
      BY <2>5, <2>8, <3>1
    <3>2. CASE i \in 1..n
      BY <2>4, <2>8, <3>2
    <3> QED
      BY <3>1, <3>2
  <2>10. all = acc.cells
    BY <2>1, <2>2, <2>8, <2>9, SeqEqual
  <2>11. acc = InCell(pre, x, acc.quoted, acc.closing)
    BY <2>1, <2>7, <2>10 DEF InCell
  <2> QED
    BY <2>4, <2>6, <2>11
<1> QED
  BY <1>1, <1>2

LEMMA ReadCellType ==
    ASSUME NEW acc \in CellStates, NEW c \in CellChars
    PROVE  ReadCell(acc, c) \in CellStates
<1>2. PICK quoted \in BOOLEAN, closing \in BOOLEAN : quoted = acc.quoted /\ closing = acc.closing
  BY DEF CellStates
<1>1. PICK pre \in Seq(Seq(CellChars)), x \in Seq(CellChars) : acc = InCell(pre, x, quoted, closing)
  BY <1>2, InCellStates
<1>20. PICK longer : longer = Append(x, c)
  OBVIOUS
<1>3. longer \in Seq(CellChars) /\ longer = Append(x, c)
  BY <1>20, AppendProperties
<1>4. PICK none : none = <<>>
  OBVIOUS
<1>5. none \in Seq(CellChars)
  BY <1>4, EmptySeq
<1>6. Append(pre, x) \in Seq(Seq(CellChars))
  OBVIOUS
<1>7. \/ ReadCell(acc, c) = InCell(pre, x, FALSE, TRUE)
      \/ ReadCell(acc, c) = InCell(pre, longer, TRUE, FALSE)
      \/ ReadCell(acc, c) = InCell(pre, x, TRUE, FALSE)
      \/ ReadCell(acc, c) = InCell(Append(pre, x), none, FALSE, FALSE)
      \/ ReadCell(acc, c) = InCell(pre, longer, FALSE, FALSE)
  <2>1. CASE quoted = TRUE /\ c = "quote"
    BY <1>1, <2>1, ReadInCell
  <2>2. CASE quoted = TRUE /\ c # "quote"
    BY <1>1, <1>3, <2>2, ReadInCell
  <2>3. CASE quoted = FALSE /\ closing = TRUE /\ c = "quote"
    BY <1>1, <1>3, <2>3, ReadInCell
  <2>4. CASE quoted = FALSE /\ closing = FALSE /\ c = "quote"
    BY <1>1, <2>4, ReadInCell
  <2>5. CASE quoted = FALSE /\ c \in {"comma", "tab"}
    BY <1>1, <1>4, <2>5, ReadInCell
  <2>6. CASE quoted = FALSE /\ c \notin {"quote", "comma", "tab"}
    BY <1>1, <1>3, <2>6, ReadInCell, ZenonT(40)
  <2> QED
    BY <2>1, <2>2, <2>3, <2>4, <2>5, <2>6
<1>8. \A p \in Seq(Seq(CellChars)), y \in Seq(CellChars), q \in {TRUE, FALSE},
        cl \in {TRUE, FALSE} :
            InCell(p, y, q, cl) \in CellStates
  BY InCellStates
<1> QED
  BY <1>3, <1>5, <1>6, <1>7, <1>8

LEMMA CellReaderReads ==
    ASSUME NEW base \in CellStates
    PROVE  /\ Reader(CellStates, CellChars, CellReader, base)
           /\ \A acc \in CellStates, c \in CellChars : CellReader[<<acc, c>>] = ReadCell(acc, c)
BY ReadCellType DEF Reader, CellReader

LEMMA CellsRead ==
    ASSUME NEW base \in CellStates, NEW seq \in Seq(CellChars)
    PROVE  FoldLeft(ReadCell, base, seq) = Reads(CellReader, base, seq)
<1>1. Reader(CellStates, CellChars, CellReader, base)
  BY CellReaderReads
<1> DEFINE Step(it, s) ==
        IF s = {} THEN base ELSE ReadCell(it[s \ {Max(s)}], seq[Max(s)])
<1>2. PICK jt : Recurses(CellStates, CellChars, CellReader, base, seq, jt)
  BY <1>1, Recursion
<1>3. \A s \in SUBSET DOMAIN seq : jt[s] = Step(jt, s)
  BY <1>2, CellReaderReads DEF Recurses
<1>4. jt = [s \in SUBSET DOMAIN seq |-> Step(jt, s)]
  <2> HIDE DEF Step
  <2> QED
    BY <1>2, <1>3 DEF Recurses
<1>5. PICK it : /\ it = [s \in SUBSET DOMAIN seq |-> Step(it, s)]
                /\ FoldLeft(ReadCell, base, seq) = it[DOMAIN seq]
  BY <1>4 DEF FoldLeft, MapThenFoldSet
<1>6. FoldsOn(CellStates, CellChars, CellReader, base, seq, it)
  BY <1>5, CellReaderReads DEF FoldsOn
<1>7. it[DOMAIN seq] = Reads(CellReader, base, seq)
  BY <1>1, <1>6, RecursionReads
<1> QED
  BY <1>5, <1>7

\* Where the reading of a cell begins.
LEMMA CellBegins ==
    ASSUME NEW pre \in Seq(Seq(CellChars)), NEW quoted \in BOOLEAN
    PROVE  /\ InCell(pre, <<>>, quoted, FALSE) \in CellStates
           /\ Reader(CellStates, CellChars, CellReader, InCell(pre, <<>>, quoted, FALSE))
<1>1. PICK none : none = <<>>
  OBVIOUS
<1>2. none \in Seq(CellChars)
  BY <1>1, EmptySeq
<1>3. InCell(pre, none, quoted, FALSE) \in CellStates
  BY <1>2, InCellStates
<1> QED
  BY <1>1, <1>3, CellReaderReads

\* A cell with neither quotes nor commas nor tabs is read as it is.
LEMMA PlainCell ==
    ASSUME NEW pre \in Seq(Seq(CellChars)), NEW x \in Seq(CellChars),
           \A i \in 1..Len(x) : x[i] \notin {"quote", "comma", "tab"}
    PROVE  Reads(CellReader, InCell(pre, <<>>, FALSE, FALSE), x) = InCell(pre, x, FALSE, FALSE)
<1>1. PICK none : none = <<>>
  OBVIOUS
<1>2. none \in Seq(CellChars)
  BY <1>1, EmptySeq
<1>3. PICK base : base = InCell(pre, none, FALSE, FALSE)
  OBVIOUS
<1>4. base \in CellStates /\ Reader(CellStates, CellChars, CellReader, base)
  BY <1>1, <1>3, CellBegins
<1>5. Reader(Seq(CellChars), CellChars, Copier(CellChars), none)
  BY <1>2, CopierReads
<1>6. PICK R : R = {p \in CellStates \X Seq(CellChars) : p[1] = InCell(pre, p[2], FALSE, FALSE)}
  OBVIOUS
<1>7. \A a \in CellStates, b \in Seq(CellChars) :
        <<a, b>> \in R <=> a = InCell(pre, b, FALSE, FALSE)
  BY <1>6
<1>8. <<base, none>> \in R
  BY <1>2, <1>3, <1>4, <1>7
<1>9. ASSUME NEW i \in 1..Len(x), NEW a \in CellStates, NEW b \in Seq(CellChars), <<a, b>> \in R
      PROVE  <<CellReader[<<a, x[i]>>], Copier(CellChars)[<<b, x[i]>>]>> \in R
  <2>1. PICK c : c = x[i]
    OBVIOUS
  <2>2. c \in CellChars /\ c \notin {"quote", "comma", "tab"}
    BY <2>1
  <2>3. a = InCell(pre, b, FALSE, FALSE)
    BY <1>7, <1>9
  <2>7. CellReader[<<a, c>>] = ReadCell(a, c)
    BY <2>2, CellReaderReads
  <2>8. ReadCell(a, c) \in CellStates
    BY <2>2, ReadCellType
  <2>4. CellReader[<<a, c>>] = ReadCell(a, c) /\ ReadCell(a, c) \in CellStates
    BY <2>7, <2>8
  <2>5. ReadCell(a, c) = InCell(pre, Append(b, c), FALSE, FALSE)
    BY <2>2, <2>3, ReadInCell
  <2>10. Append(b, c) \in Seq(CellChars)
    BY <2>2, AppendProperties
  <2>11. Copier(CellChars)[<<b, c>>] = Append(b, c)
    BY <2>2, CopierReads
  <2>6. Copier(CellChars)[<<b, c>>] = Append(b, c) /\ Append(b, c) \in Seq(CellChars)
    BY <2>10, <2>11
  <2> QED
    BY <1>7, <2>1, <2>4, <2>5, <2>6
<1>10. RelatesAt(CellStates, Seq(CellChars), CellChars, CellChars, CellReader, Copier(CellChars),
                 R, x, x)
  BY <1>9 DEF RelatesAt
<1>11. <<Reads(CellReader, base, x), Reads(Copier(CellChars), none, x)>> \in R
  BY <1>4, <1>5, <1>8, <1>10, ReadsRelateAt
<1>12. Reads(Copier(CellChars), none, x) = x
  BY <1>1, Copied
<1>13. Reads(CellReader, base, x) \in CellStates
  BY <1>4, ReadsIs
<1> QED
  BY <1>1, <1>3, <1>7, <1>11, <1>12, <1>13

\* Between quotes every quote is doubled, and read as one.
Doubled(x) == [i \in DOMAIN x |-> IF x[i] = "quote" THEN <<"quote", "quote">> ELSE <<x[i]>>]

LEMMA DoubledParts ==
    ASSUME NEW x \in Seq(CellChars)
    PROVE  /\ Doubled(x) \in Seq(Seq(CellChars)) /\ Len(Doubled(x)) = Len(x)
           /\ \A i \in 1..Len(x) :
                Doubled(x)[i] = IF x[i] = "quote" THEN <<"quote", "quote">> ELSE <<x[i]>>
<1>1. PICK n \in Nat : n = Len(x) /\ DOMAIN x = 1..n /\ \A i \in 1..n : x[i] \in CellChars
  OBVIOUS
<1>2. "quote" \in CellChars
  BY DEF CellChars
<1>3. PICK both : both = <<"quote", "quote">>
  OBVIOUS
<1>4. both \in Seq(CellChars)
  BY <1>2, <1>3
<1>5. Doubled(x) = [i \in 1..n |-> IF x[i] = "quote" THEN both ELSE <<x[i]>>]
  BY <1>1, <1>3 DEF Doubled
<1>6. ASSUME NEW i \in 1..n PROVE (IF x[i] = "quote" THEN both ELSE <<x[i]>>) \in Seq(CellChars)
  BY <1>1, <1>4
<1>7. Doubled(x) \in Seq(Seq(CellChars)) /\ Len(Doubled(x)) = n
  BY <1>5, <1>6
<1> QED
  BY <1>1, <1>3, <1>5, <1>7

LEMMA QuotedCell ==
    ASSUME NEW pre \in Seq(Seq(CellChars)), NEW x \in Seq(CellChars)
    PROVE  Reads(CellReader, InCell(pre, <<>>, TRUE, FALSE), FlattenSeq(Doubled(x)))
                = InCell(pre, x, TRUE, FALSE)
<1>1. PICK none : none = <<>>
  OBVIOUS
<1>2. none \in Seq(CellChars)
  BY <1>1, EmptySeq
<1>3. PICK base : base = InCell(pre, none, TRUE, FALSE)
  OBVIOUS
<1>4. base \in CellStates /\ Reader(CellStates, CellChars, CellReader, base)
  BY <1>1, <1>3, CellBegins
<1>5. Reader(Seq(CellChars), CellChars, Copier(CellChars), none)
  BY <1>2, CopierReads
<1> DEFINE Parts == PartReader(CellStates, CellChars, CellReader)
<1>6. /\ Reader(CellStates, Seq(CellChars), Parts, base)
      /\ \A a \in CellStates, part \in Seq(CellChars) :
            Parts[<<a, part>>]
              = Reads(CellReader, a, part) /\ Reads(CellReader, a, part) \in CellStates
  BY <1>4, PartReaderReads
<1> HIDE DEF Parts
<1>7. PICK R : R = {p \in CellStates \X Seq(CellChars) : p[1] = InCell(pre, p[2], TRUE, FALSE)}
  OBVIOUS
<1>8. \A a \in CellStates, b \in Seq(CellChars) :
        <<a, b>> \in R <=> a = InCell(pre, b, TRUE, FALSE)
  BY <1>7
<1>9. <<base, none>> \in R
  BY <1>2, <1>3, <1>4, <1>8
<1>10. PICK parts : parts = Doubled(x)
  OBVIOUS
<1>11. /\ parts \in Seq(Seq(CellChars)) /\ Len(parts) = Len(x)
       /\ \A i \in 1..Len(x) :
            parts[i] = IF x[i] = "quote" THEN <<"quote", "quote">> ELSE <<x[i]>>
  BY <1>10, DoubledParts
<1>12. ASSUME NEW i \in 1..Len(parts), NEW a \in CellStates, NEW b \in Seq(CellChars),
              <<a, b>> \in R
       PROVE  <<Parts[<<a, parts[i]>>], Copier(CellChars)[<<b, x[i]>>]>> \in R
  <2>1. PICK c : c = x[i]
    OBVIOUS
  <2>9. "quote" \in CellChars
    BY DEF CellChars
  <2>2. c \in CellChars /\ "quote" \in CellChars /\ i \in 1..Len(x)
    BY <1>11, <2>1, <2>9
  <2>3. a = InCell(pre, b, TRUE, FALSE)
    BY <1>8, <1>12
  <2>4. Reader(CellStates, CellChars, CellReader, a)
    BY CellReaderReads
  <2>5. parts[i] \in Seq(CellChars)
    BY <1>11
  <2>6. Parts[<<a, parts[i]>>]
          = Reads(CellReader, a, parts[i]) /\ Reads(CellReader, a, parts[i]) \in CellStates
    BY <1>6, <2>5
  <2>10. Append(b, c) \in Seq(CellChars)
    BY <2>2, AppendProperties
  <2>11. Copier(CellChars)[<<b, c>>] = Append(b, c)
    BY <2>2, CopierReads
  <2>7. Copier(CellChars)[<<b, c>>] = Append(b, c) /\ Append(b, c) \in Seq(CellChars)
    BY <2>10, <2>11
  <2>8. Reads(CellReader, a, parts[i]) = InCell(pre, Append(b, c), TRUE, FALSE)
    <3>1. CASE c = "quote"
      <4>1. PICK shut : shut = InCell(pre, b, FALSE, TRUE)
        OBVIOUS
      <4>2. ReadCell(a, "quote") = shut
        BY <2>3, <4>1, ReadInCell
      <4>3. shut \in CellStates
        BY <2>2, <4>2, ReadCellType
      <4>4. ReadCell(shut, "quote") = InCell(pre, Append(b, c), TRUE, FALSE)
        BY <3>1, <4>1, ReadInCell
      <4>5. CellReader[<<a, "quote">>] = shut
        BY <2>2, <4>2, CellReaderReads
      <4>6. CellReader[<<shut, "quote">>] = ReadCell(shut, "quote")
        BY <2>2, <4>3, CellReaderReads
      <4>7. Reads(CellReader, a, <<"quote", "quote">>)
              = CellReader[<<CellReader[<<a, "quote">>], "quote">>]
        BY <2>2, <2>4, ReadsFew
      <4>8. parts[i] = <<"quote", "quote">>
        BY <1>11, <2>1, <2>2, <3>1
      <4> QED
        BY <4>4, <4>5, <4>6, <4>7, <4>8
    <3>2. CASE c # "quote"
      <4>1. ReadCell(a, c) = InCell(pre, Append(b, c), TRUE, FALSE)
        BY <2>2, <2>3, <3>2, ReadInCell
      <4>2. CellReader[<<a, c>>] = ReadCell(a, c)
        BY <2>2, CellReaderReads
      <4>3. Reads(CellReader, a, <<c>>) = CellReader[<<a, c>>]
        BY <2>2, <2>4, ReadsFew
      <4>4. parts[i] = <<c>>
        BY <1>11, <2>1, <2>2, <3>2
      <4> QED
        BY <4>1, <4>2, <4>3, <4>4
    <3> QED
      BY <3>1, <3>2
  <2> QED
    BY <1>8, <2>1, <2>6, <2>7, <2>8
<1>13. RelatesAt(CellStates, Seq(CellChars), Seq(CellChars), CellChars, Parts, Copier(CellChars),
                 R, parts, x)
  BY <1>11, <1>12 DEF RelatesAt
<1>14. <<Reads(Parts, base, parts), Reads(Copier(CellChars), none, x)>> \in R
  BY <1>5, <1>6, <1>9, <1>11, <1>13, ReadsRelateAt
<1>15. Reads(Copier(CellChars), none, x) = x
  BY <1>1, Copied
<1>16. Reads(Parts, base, parts) \in CellStates
  BY <1>6, <1>11, ReadsIs
<1>17. Reads(CellReader, base, FlattenSeq(parts)) = Reads(Parts, base, parts)
  BY <1>4, <1>11, ReadsParts DEF Parts
<1> QED
  BY <1>1, <1>3, <1>8, <1>10, <1>14, <1>15, <1>16, <1>17

\* A cell is read as it was before it was escaped.
LEMMA EscapedCell ==
    ASSUME NEW pre \in Seq(Seq(CellChars)), NEW x \in Seq(CellChars), ~Bare(x)
    PROVE  /\ Escaped(x) \in Seq(CellChars)
           /\ \E closing \in BOOLEAN :
                Reads(CellReader, InCell(pre, <<>>, FALSE, FALSE), Escaped(x))
                    = InCell(pre, x, FALSE, closing)
<1>1. PICK plain \in BOOLEAN : plain = ({"quote", "comma"} \cap ToSet(x) = {})
  OBVIOUS
<1>2. CASE plain = TRUE
  <2>1. Escaped(x) = x
    BY <1>1, <1>2 DEF Escaped
  <2>2. \A i \in 1..Len(x) : x[i] \in ToSet(x)
    BY DEF ToSet
  <2>5. "tab" \notin ToSet(x)
    BY <1>1, <1>2 DEF Bare
  <2>3. \A i \in 1..Len(x) : x[i] \notin {"quote", "comma", "tab"}
    BY <1>1, <1>2, <2>2, <2>5
  <2>4. Reads(CellReader, InCell(pre, <<>>, FALSE, FALSE), x) = InCell(pre, x, FALSE, FALSE)
    BY <2>3, PlainCell
  <2> QED
    BY <2>1, <2>4
<1>3. CASE plain = FALSE
  <2>1. PICK flat : flat = FlattenSeq(Doubled(x))
    OBVIOUS
  <2>2. Escaped(x) = (<<"quote">> \o flat) \o <<"quote">>
    BY <1>1, <1>3, <2>1 DEF Escaped, Doubled
  <2>3. flat \in Seq(CellChars)
    <3>1. Doubled(x) \in Seq(Seq(CellChars))
      BY DoubledParts
    <3>2. PICK none : none = <<>>
      OBVIOUS
    <3>3. none \in Seq(CellChars)
      BY <3>2, EmptySeq
    <3>4. Reader(Seq(CellChars), Seq(CellChars), Joiner(CellChars), none)
      BY <3>3, JoinerReads
    <3>5. Reads(Joiner(CellChars), none, Doubled(x)) \in Seq(CellChars)
      BY <3>1, <3>4, ReadsIs
    <3> QED
      BY <2>1, <3>1, <3>2, <3>5, Flattened
  <2>4. "quote" \in CellChars
    BY DEF CellChars
  <2>5. PICK quote : quote = <<"quote">>
    OBVIOUS
  <2>6. quote \in Seq(CellChars)
    BY <2>4, <2>5
  <2>7. PICK base : base = InCell(pre, <<>>, FALSE, FALSE)
    OBVIOUS
  <2>8. base \in CellStates /\ Reader(CellStates, CellChars, CellReader, base)
    BY <2>7, CellBegins
  <2>9. PICK open : open = InCell(pre, <<>>, TRUE, FALSE)
    OBVIOUS
  <2>10. open \in CellStates /\ Reader(CellStates, CellChars, CellReader, open)
    BY <2>9, CellBegins
  <2>11. Reads(CellReader, base, quote) = open
    <3>1. PICK none : none = <<>>
      OBVIOUS
    <3>2. none \in Seq(CellChars)
      BY <3>1, EmptySeq
    <3>3. ReadCell(base, "quote") = open
      BY <2>7, <2>9, <3>1, <3>2, ReadInCell
    <3>4. CellReader[<<base, "quote">>] = ReadCell(base, "quote")
      BY <2>4, <2>8, CellReaderReads
    <3>5. Reads(CellReader, base, quote) = CellReader[<<base, "quote">>]
      BY <2>4, <2>5, <2>8, ReadsFew
    <3> QED
      BY <3>3, <3>4, <3>5
  <2>12. PICK inside : inside = InCell(pre, x, TRUE, FALSE)
    OBVIOUS
  <2>13. Reads(CellReader, open, flat) = inside
    BY <2>1, <2>9, <2>12, QuotedCell
  <2>14. inside \in CellStates
    BY <2>12, InCellStates
  <2>15. Reads(CellReader, inside, quote) = InCell(pre, x, FALSE, TRUE)
    <3>1. ReadCell(inside, "quote") = InCell(pre, x, FALSE, TRUE)
      BY <2>12, ReadInCell
    <3>2. CellReader[<<inside, "quote">>] = ReadCell(inside, "quote")
      BY <2>4, <2>14, CellReaderReads
    <3>3. Reader(CellStates, CellChars, CellReader, inside)
      BY <2>14, CellReaderReads
    <3>4. Reads(CellReader, inside, quote) = CellReader[<<inside, "quote">>]
      BY <2>4, <2>5, <3>3, ReadsFew
    <3> QED
      BY <3>1, <3>2, <3>4
  <2>16. PICK front : front = quote \o flat
    OBVIOUS
  <2>17. front \in Seq(CellChars)
    BY <2>3, <2>6, <2>16
  <2>18. Reads(CellReader, base, front) = inside
    <3>1. Reads(CellReader, base, quote \o flat)
            = Reads(CellReader, Reads(CellReader, base, quote), flat)
      BY <2>3, <2>6, <2>8, ReadsOn
    <3> QED
      BY <2>11, <2>13, <2>16, <3>1
  <2>19. Reads(CellReader, base, front \o quote) = InCell(pre, x, FALSE, TRUE)
    <3>1. Reads(CellReader, base, front \o quote)
            = Reads(CellReader, Reads(CellReader, base, front), quote)
      BY <2>6, <2>8, <2>17, ReadsOn
    <3> QED
      BY <2>15, <2>18, <3>1
  <2>20. front \o quote \in Seq(CellChars)
    BY <2>6, <2>17
  <2>21. Escaped(x) = front \o quote
    BY <2>2, <2>5, <2>16
  <2> QED
    BY <2>7, <2>19, <2>20, <2>21
<1> QED
  BY <1>2, <1>3

\* A line of two cells is read as these.
LEMMA CellsKept ==
    ASSUME NEW x \in Seq(CellChars), NEW y \in Seq(CellChars), Tight(x, Spaces), Tight(y, Spaces),
           ~Bare(x), ~Bare(y)
    PROVE  SplitCsvLine(ResultCsv(x, y)) = <<x, y>>
<1>1. PICK none : none = <<>>
  OBVIOUS
<1>2. none \in Seq(Seq(CellChars)) /\ none \in Seq(CellChars)
  BY <1>1, EmptySeq
<1>3. PICK base : base = InCell(none, none, FALSE, FALSE)
  OBVIOUS
<1>4. base \in CellStates /\ Reader(CellStates, CellChars, CellReader, base)
  BY <1>1, <1>2, <1>3, CellBegins
<1>5. base = [cells |-> << <<>> >>, quoted |-> FALSE, closing |-> FALSE]
  <2>1. Append(none, none) = << <<>> >>
    BY <1>1
  <2> QED
    BY <1>3, <2>1 DEF InCell
<1>6. PICK first : first = Escaped(x)
  OBVIOUS
<1>7. PICK cl \in BOOLEAN : Reads(CellReader, base, first) = InCell(none, x, FALSE, cl)
  BY <1>1, <1>2, <1>3, <1>6, EscapedCell
<1>8. PICK pre : pre = Append(none, x)
  OBVIOUS
<1>9. pre \in Seq(Seq(CellChars)) /\ Len(pre) = 1 /\ pre[1] = x
  BY <1>1, <1>2, <1>8
<1>10. PICK second : second = Escaped(y)
  OBVIOUS
<1>11. PICK cm \in BOOLEAN :
            Reads(CellReader, InCell(pre, <<>>, FALSE, FALSE), second) = InCell(pre, y, FALSE, cm)
  BY <1>9, <1>10, EscapedCell
<1>12. first \in Seq(CellChars) /\ second \in Seq(CellChars)
  BY <1>2, <1>6, <1>10, EscapedCell
<1>13. PICK comma : comma = <<"comma">>
  OBVIOUS
<1>14. "comma" \in CellChars
  BY DEF CellChars
<1>15. comma \in Seq(CellChars)
  BY <1>13, <1>14
<1>16. PICK mid : mid = InCell(none, x, FALSE, cl)
  OBVIOUS
<1>17. mid \in CellStates /\ Reader(CellStates, CellChars, CellReader, mid)
  <2>1. mid \in CellStates
    BY <1>2, <1>16, InCellStates
  <2> QED
    BY <2>1, CellReaderReads
<1>18. Reads(CellReader, mid, comma) = InCell(pre, <<>>, FALSE, FALSE)
  <2>1. ReadCell(mid, "comma") = InCell(pre, <<>>, FALSE, FALSE)
    BY <1>2, <1>8, <1>16, ReadInCell
  <2>2. CellReader[<<mid, "comma">>] = ReadCell(mid, "comma")
    BY <1>14, <1>17, CellReaderReads
  <2>3. Reads(CellReader, mid, comma) = CellReader[<<mid, "comma">>]
    BY <1>13, <1>14, <1>17, ReadsFew
  <2> QED
    BY <2>1, <2>2, <2>3
<1>19. PICK front : front = first \o comma
  OBVIOUS
<1>20. front \in Seq(CellChars)
  BY <1>12, <1>15, <1>19
<1>21. Reads(CellReader, base, front) = InCell(pre, <<>>, FALSE, FALSE)
  <2>1. Reads(CellReader, base, first \o comma)
          = Reads(CellReader, Reads(CellReader, base, first), comma)
    BY <1>4, <1>12, <1>15, ReadsOn
  <2> QED
    BY <1>7, <1>16, <1>18, <1>19, <2>1
<1>22. PICK all : all = front \o second
  OBVIOUS
<1>23. all \in Seq(CellChars)
  BY <1>12, <1>20, <1>22
<1>24. Reads(CellReader, base, all) = InCell(pre, y, FALSE, cm)
  <2>1. Reads(CellReader, base, front \o second)
          = Reads(CellReader, Reads(CellReader, base, front), second)
    BY <1>4, <1>12, <1>20, ReadsOn
  <2> QED
    BY <1>11, <1>21, <1>22, <2>1
<1>25. all = ResultCsv(x, y)
  BY <1>6, <1>10, <1>13, <1>19, <1>22 DEF ResultCsv
<1>26. FoldLeft(ReadCell, base, all) = InCell(pre, y, FALSE, cm)
  BY <1>4, <1>23, <1>24, CellsRead
<1>27. PICK cells : cells = Append(pre, y)
  OBVIOUS
<1>28. /\ cells \in Seq(Seq(CellChars)) /\ Len(cells) = 2 /\ cells[1] = x /\ cells[2] = y
       /\ DOMAIN cells = 1..2
  <2>1. PICK n \in Nat : n = Len(pre)
    OBVIOUS
  <2>2. /\ cells \in Seq(Seq(CellChars)) /\ Len(cells) = n + 1
        /\ \A i \in 1..n : cells[i] = pre[i]
        /\ cells[n + 1] = y
    <3>1. PICK S : S = Seq(CellChars)
      OBVIOUS
    <3>2. pre \in Seq(S) /\ y \in S
      BY <1>9, <3>1
    <3>3. /\ Append(pre, y) \in Seq(S) /\ Len(Append(pre, y)) = n + 1
          /\ \A i \in 1..n : Append(pre, y)[i] = pre[i]
          /\ Append(pre, y)[n + 1] = y
      BY <2>1, <3>2, OneMore
    <3> QED
      BY <1>27, <3>1, <3>3
  <2>3. n = 1 /\ 1 \in 1..n /\ n + 1 = 2
    BY <1>9, <2>1
  <2> QED
    BY <1>9, <2>2, <2>3
<1>29. SplitCsvLine(all) = [i \in DOMAIN cells |-> JsTrim(cells[i])]
  <2>1. InCell(pre, y, FALSE, cm).cells = cells
    BY <1>27 DEF InCell
  <2> QED
    BY <1>5, <1>26, <2>1 DEF SplitCsvLine
<1>30. JsTrim(x) = x /\ JsTrim(y) = y
  BY TrimTight DEF JsTrim, Trim
<1>31. SplitCsvLine(all) = <<x, y>>
  <2>1. PICK split : split = [i \in 1..2 |-> JsTrim(cells[i])]
    OBVIOUS
  <2>2. split[1] = x /\ split[2] = y
    BY <1>28, <1>30, <2>1
  <2>4. split \in Seq(Seq(CellChars)) /\ Len(split) = 2
    <3>1. \A i \in 1..2 : JsTrim(cells[i]) \in Seq(CellChars)
      BY <1>28, <1>30
    <3> QED
      BY <2>1, <3>1
  <2>5. PICK both : both = <<x, y>>
    OBVIOUS
  <2>6. both \in Seq(Seq(CellChars)) /\ Len(both) = 2 /\ both[1] = x /\ both[2] = y
    BY <2>5
  <2>7. \A i \in 1..2 : split[i] = both[i]
    BY <2>2, <2>6
  <2>3. split = <<x, y>>
    BY <2>4, <2>5, <2>6, <2>7, SeqEqual
  <2> QED
    BY <1>28, <1>29, <2>1, <2>3
<1> QED
  BY <1>25, <1>31

LEMMA RosterIsKept ==
    ASSUME about = "roster" => one \in Seq(CellChars) /\ two \in Seq(CellChars)
    PROVE  RosterKept
<1> SUFFICES ASSUME about = "roster", ~Bare(JsTrim(one)), ~Bare(JsTrim(two))
             PROVE  SplitCsvLine(ResultCsv(JsTrim(one), JsTrim(two))) = <<JsTrim(one), JsTrim(two)>>
  BY DEF RosterKept
<1>1. one \in Seq(CellChars) /\ two \in Seq(CellChars)
  OBVIOUS
<1>2. JsTrim(one) = Trim(one, Spaces) /\ JsTrim(two) = Trim(two, Spaces)
  BY DEF JsTrim, Trim
<1>3. Trim(one, Spaces) \in Seq(CellChars) /\ Tight(Trim(one, Spaces), Spaces)
  BY <1>1, TrimParts
<1>4. Trim(two, Spaces) \in Seq(CellChars) /\ Tight(Trim(two, Spaces), Spaces)
  BY <1>1, TrimParts
<1>6. ~Bare(Trim(one, Spaces)) /\ ~Bare(Trim(two, Spaces))
  BY <1>2
<1>5. SplitCsvLine(ResultCsv(Trim(one, Spaces), Trim(two, Spaces)))
        = <<Trim(one, Spaces), Trim(two, Spaces)>>
  BY <1>3, <1>4, <1>6, CellsKept
<1> QED
  BY <1>2, <1>5

\* What is dropped behind a sequence makes no difference to what is left of it.
LEMMA DropBehind ==
    ASSUME NEW S, NEW D, NEW seq \in Seq(S), NEW trail \in Seq(S), trail \in Seq(D)
    PROVE  DropLast(seq \o trail, D) = DropLast(seq, D)
<1>1. PICK e : e = DropLast(seq, D)
  OBVIOUS
<1>2. e \in Seq(S) /\ Ends(e, D)
  BY <1>1, LastPutBack
<1>10. EndsIn(S, D, e, seq)
  BY <1>1, LastPutBack
<1>3. PICK t \in Seq(S) : t \in Seq(D) /\ seq = e \o t
  BY <1>10 DEF EndsIn
<1>4. PICK rest : rest = t \o trail
  OBVIOUS
<1>8. t \in Seq(S) /\ t \in Seq(D)
  BY <1>3
<1>5. rest \in Seq(S) /\ rest \in Seq(D)
  BY <1>4, <1>8
<1>6. (e \o t) \o trail = e \o (t \o trail)
  BY <1>2, <1>3, ConcatAssociative
<1>7. DropLast(e \o rest, D) = e
  BY <1>2, <1>5, LastDropped
<1>9. seq \o trail = e \o rest
  BY <1>3, <1>4, <1>6
<1> QED
  BY <1>1, <1>7, <1>9

-----------------------------------------------------------------------------
(* Tokens *)

Blank1 == {"space", "tab"}
Sp(acc) == ReadToken(acc, "space")
NoToken == << <<>> >>

LEMMA SpacesRead ==
    /\ \A acc \in TokenStates : Sp(acc) \in TokenStates /\ Sp(Sp(acc)) = Sp(acc)
    /\ \A acc \in TokenStates, c \in Spaces : ReadToken(acc, c) = Sp(acc)
    /\ \A acc \in TokenStates : DropLast(Sp(acc), {<<>>}) = DropLast(acc, {<<>>})
    /\ NoToken \in TokenStates /\ Sp(NoToken) = NoToken
<1>1. "space" \in Chars /\ "space" \in Spaces /\ \A c \in Spaces : c \in Chars
  BY DEF Chars, Spaces
<1>2. PICK none : none = <<>>
  OBVIOUS
<1>3. none \in Seq(Chars) /\ none \in Seq(Seq(Chars))
  BY <1>2, EmptySeq
<1>4. ASSUME NEW acc \in TokenStates
      PROVE  /\ Sp(acc) \in TokenStates /\ Sp(Sp(acc)) = Sp(acc)
             /\ \A c \in Spaces : ReadToken(acc, c) = Sp(acc)
             /\ DropLast(Sp(acc), {<<>>}) = DropLast(acc, {<<>>})
  <2>1. PICK pre \in Seq(Seq(Chars)), x \in Seq(Chars) : acc = Append(pre, x)
    BY TokensAt
  <2>2. acc \in Seq(Seq(Chars))
    BY DEF TokenStates
  <2>3. CASE x = none
    <3>1. \A c \in Spaces : ReadToken(acc, c) = acc
      BY <1>1, <1>2, <2>1, <2>3, ReadInToken
    <3>2. Sp(acc) = acc
      BY <1>1, <3>1 DEF Sp
    <3> QED
      BY <3>1, <3>2
  <2>4. CASE x # none
    <3>1. PICK more : more = Append(acc, none)
      OBVIOUS
    <3>2. \A c \in Spaces : ReadToken(acc, c) = more
      BY <1>1, <1>2, <2>1, <2>4, <3>1, ReadInToken
    <3>3. Sp(acc) = more
      BY <1>1, <3>2 DEF Sp
    <3>4. ReadToken(more, "space") = more
      BY <1>1, <1>2, <1>3, <2>2, <3>1, ReadInToken
    <3>5. more \in TokenStates
      BY <1>3, <2>2, <3>1, TokensAt
    <3>6. DropLast(more, {none}) = DropLast(acc, {none})
      <4>1. PICK trail : trail = <<none>>
        OBVIOUS
      <4>2. trail \in Seq(Seq(Chars)) /\ trail \in Seq({none})
        BY <1>3, <4>1
      <4>3. more = acc \o trail
        BY <1>3, <2>2, <3>1, <4>1, AppendIsConcat
      <4> QED
        BY <2>2, <4>2, <4>3, DropBehind
    <3> QED
      BY <1>2, <3>2, <3>3, <3>4, <3>5, <3>6 DEF Sp
  <2> QED
    BY <2>3, <2>4
<1>5. NoToken \in TokenStates /\ Sp(NoToken) = NoToken
  <2>1. NoToken = Append(none, none)
    BY <1>2 DEF NoToken
  <2>2. ReadToken(Append(none, none), "space") = Append(none, none)
    BY <1>1, <1>2, <1>3, ReadInToken
  <2> QED
    BY <1>3, <2>1, <2>2, TokensAt DEF Sp
<1> QED
  BY <1>4, <1>5

\* A sequence of blanks is read as one, or as none.
LEMMA BlanksRead ==
    ASSUME NEW acc \in TokenStates, NEW seq \in Seq(Chars), seq \in Seq(Spaces)
    PROVE  /\ Reads(TokenReader, acc, seq) \in {acc, Sp(acc)}
           /\ Sp(Reads(TokenReader, acc, seq)) = Sp(acc)
<1>1. PICK good : good = {acc, Sp(acc)}
  OBVIOUS
<1>2. Reader(TokenStates, Chars, TokenReader, acc)
  BY TokenReaderReads
<1>3. acc \in good
  BY <1>1
<1>4. ASSUME NEW i \in 1..Len(seq), NEW a \in TokenStates, a \in good
      PROVE  TokenReader[<<a, seq[i]>>] \in good
  <2>1. PICK c : c = seq[i]
    OBVIOUS
  <2>2. c \in Chars /\ c \in Spaces
    BY <2>1
  <2>3. TokenReader[<<a, c>>] = ReadToken(a, c)
    BY <2>2, TokenReaderReads
  <2>4. ReadToken(a, c) = Sp(a)
    BY <2>2, SpacesRead
  <2>5. Sp(a) = Sp(acc)
    BY <1>1, <1>4, SpacesRead
  <2> QED
    BY <1>1, <2>1, <2>3, <2>4, <2>5
<1>5. Reads(TokenReader, acc, seq) \in good
  BY <1>2, <1>3, <1>4, ReadsKeep
<1>6. Sp(Sp(acc)) = Sp(acc)
  BY SpacesRead
<1> QED
  BY <1>1, <1>5, <1>6

\* Lines as they are read for their tokens.
LineReader == [p \in TokenStates \X Seq(Visible) |-> Sp(Reads(TokenReader, p[1], p[2]))]

LEMMA VisibleText == \A x \in Seq(Visible) : x \in Seq(Chars)
<1> SUFFICES ASSUME NEW x \in Seq(Visible) PROVE x \in Seq(Chars)
  OBVIOUS
<1>1. Visible \subseteq Chars
  BY DEF Visible
<1> QED
  BY <1>1

LEMMA LineReaderReads ==
    ASSUME NEW base \in TokenStates
    PROVE  /\ Reader(TokenStates, Seq(Visible), LineReader, base)
           /\ \A acc \in TokenStates, x \in Seq(Visible) :
                LineReader[<<acc, x>>] = Sp(Reads(TokenReader, acc, x))
<1>1. ASSUME NEW acc \in TokenStates, NEW x \in Seq(Visible)
      PROVE  Sp(Reads(TokenReader, acc, x)) \in TokenStates
  <2>1. x \in Seq(Chars)
    BY VisibleText
  <2>2. Reader(TokenStates, Chars, TokenReader, acc)
    BY TokenReaderReads
  <2>3. Reads(TokenReader, acc, x) \in TokenStates
    BY <2>1, <2>2, ReadsIs
  <2> QED
    BY <2>3, SpacesRead
<1>2. LineReader \in [TokenStates \X Seq(Visible) -> TokenStates]
  BY <1>1 DEF LineReader
<1>3. \A acc \in TokenStates, x \in Seq(Visible) :
        LineReader[<<acc, x>>] = Sp(Reads(TokenReader, acc, x))
  BY DEF LineReader
<1> QED
  BY <1>2, <1>3 DEF Reader

\* The blanks at the end of a line make no difference to its tokens.
LEMMA StrippedLine ==
    ASSUME NEW acc \in TokenStates, NEW x \in Seq(Visible)
    PROVE  /\ StripLine(x) \in Seq(Visible)
           /\ LineReader[<<acc, StripLine(x)>>] = LineReader[<<acc, x>>]
<1>1. PICK e : e = StripLine(x)
  OBVIOUS
<1>2. e = DropLast(x, Blank1)
  BY <1>1 DEF StripLine, Blank1
<1>3. e \in Seq(Visible)
  BY <1>2, LastPutBack
<1>14. EndsIn(Visible, Blank1, e, x)
  BY <1>2, LastPutBack
<1>4. PICK t \in Seq(Visible) : t \in Seq(Blank1) /\ x = e \o t
  BY <1>14 DEF EndsIn
<1>5. t \in Seq(Chars) /\ t \in Seq(Spaces) /\ e \in Seq(Chars)
  <2>1. Blank1 \subseteq Spaces
    BY DEF Blank1, Spaces
  <2>2. t \in Seq(Spaces)
    BY <1>4, <2>1
  <2> QED
    BY <1>3, <2>2, VisibleText
<1>6. Reader(TokenStates, Chars, TokenReader, acc)
  BY TokenReaderReads
<1>7. Reads(TokenReader, acc, e) \in TokenStates
  BY <1>5, <1>6, ReadsIs
<1>8. Reads(TokenReader, acc, e \o t) = Reads(TokenReader, Reads(TokenReader, acc, e), t)
  BY <1>5, <1>6, ReadsOn
<1>9. Sp(Reads(TokenReader, Reads(TokenReader, acc, e), t)) = Sp(Reads(TokenReader, acc, e))
  BY <1>5, <1>7, BlanksRead
<1>10. LineReader[<<acc, x>>] = Sp(Reads(TokenReader, acc, x))
  BY LineReaderReads
<1>11. LineReader[<<acc, e>>] = Sp(Reads(TokenReader, acc, e))
  BY <1>3, LineReaderReads
<1>13. Sp(Reads(TokenReader, acc, x)) = Sp(Reads(TokenReader, acc, e))
  BY <1>4, <1>8, <1>9
<1> QED
  BY <1>1, <1>3, <1>10, <1>11, <1>13

\* Blank lines are read as a blank, or as nothing.
LEMMA BlankLinesRead ==
    ASSUME NEW acc \in TokenStates, NEW lines \in Seq(Seq(Visible)), lines \in Seq(Seq(Blank1))
    PROVE  Reads(LineReader, acc, lines) \in {acc, Sp(acc)}
<1>1. PICK good : good = {acc, Sp(acc)}
  OBVIOUS
<1>2. Reader(TokenStates, Seq(Visible), LineReader, acc)
  BY LineReaderReads
<1>3. acc \in good
  BY <1>1
<1>4. ASSUME NEW i \in 1..Len(lines), NEW a \in TokenStates, a \in good
      PROVE  LineReader[<<a, lines[i]>>] \in good
  <2>1. PICK x : x = lines[i]
    OBVIOUS
  <2>2. x \in Seq(Visible) /\ x \in Seq(Blank1)
    BY <2>1
  <2>3. x \in Seq(Chars) /\ x \in Seq(Spaces)
    <3>1. Blank1 \subseteq Spaces
      BY DEF Blank1, Spaces
    <3>2. x \in Seq(Spaces)
      BY <2>2, <3>1
    <3> QED
      BY <2>2, <3>2, VisibleText
  <2>4. Sp(Reads(TokenReader, a, x)) = Sp(a)
    BY <2>3, BlanksRead
  <2>5. LineReader[<<a, x>>] = Sp(a)
    BY <2>2, <2>4, LineReaderReads
  <2>6. Sp(a) = Sp(acc)
    BY <1>1, <1>4, SpacesRead
  <2> QED
    BY <1>1, <2>1, <2>5, <2>6
<1>5. Reads(LineReader, acc, lines) \in good
  BY <1>2, <1>3, <1>4, ReadsKeep
<1> QED
  BY <1>1, <1>5

-----------------------------------------------------------------------------
(* The tokens of an output are those of its lines *)

NoLine == [lines |-> << <<>> >>, cr |-> FALSE]

\* What has been read of the tokens when so much has been read of the lines.
SoFar(s, t) ==
    \E pre \in Seq(Seq(Visible)), x \in Seq(Visible), cr \in BOOLEAN :
        /\ s = InLine(pre, x, cr)
        /\ t = Reads(TokenReader, Reads(LineReader, NoToken, pre), x)
        /\ cr = TRUE => Sp(t) = t

LEMMA NoLineYet ==
    /\ NoLine = InLine(<<>>, <<>>, FALSE)
    /\ NoLine \in LineStates
<1>1. PICK none : none = <<>>
  OBVIOUS
<1>2. none \in Seq(Visible) /\ none \in Seq(Seq(Visible)) /\ Append(none, none) = << <<>> >>
  BY <1>1, EmptySeq
<1>3. NoLine = InLine(none, none, FALSE)
  BY <1>2 DEF NoLine, InLine
<1> QED
  BY <1>1, <1>2, <1>3, InLineStates

LEMMA LineTokenType ==
    ASSUME NEW pre \in Seq(Seq(Visible)), NEW x \in Seq(Visible)
    PROVE  /\ Reads(LineReader, NoToken, pre) \in TokenStates
           /\ Reads(TokenReader, Reads(LineReader, NoToken, pre), x) \in TokenStates
           /\ Reads(LineReader, NoToken, Append(pre, x))
                = Sp(Reads(TokenReader, Reads(LineReader, NoToken, pre), x))
<1>1. Reader(TokenStates, Seq(Visible), LineReader, NoToken)
  BY LineReaderReads, SpacesRead
<1>2. PICK u : u = Reads(LineReader, NoToken, pre)
  OBVIOUS
<1>3. u \in TokenStates
  BY <1>1, <1>2, ReadsIs
<1>4. Reader(TokenStates, Chars, TokenReader, u)
  BY <1>3, TokenReaderReads
<1>5. x \in Seq(Chars)
  BY VisibleText
<1>6. Reads(TokenReader, u, x) \in TokenStates
  BY <1>4, <1>5, ReadsIs
<1>7. Reads(LineReader, NoToken, Append(pre, x)) = LineReader[<<u, x>>]
  BY <1>1, <1>2, ReadsOne
<1>8. LineReader[<<u, x>>] = Sp(Reads(TokenReader, u, x))
  BY <1>3, LineReaderReads
<1> QED
  BY <1>2, <1>3, <1>6, <1>7, <1>8

LEMMA SoFarStep ==
    ASSUME NEW s \in LineStates, NEW t \in TokenStates, SoFar(s, t), NEW c \in Chars
    PROVE  SoFar(ReadChar(s, c), ReadToken(t, c))
<1>1. PICK pre \in Seq(Seq(Visible)), x \in Seq(Visible), cr \in BOOLEAN :
        /\ s = InLine(pre, x, cr)
        /\ t = Reads(TokenReader, Reads(LineReader, NoToken, pre), x)
        /\ cr = TRUE => Sp(t) = t
  BY DEF SoFar
<1>2. PICK none : none = <<>>
  OBVIOUS
<1>3. none \in Seq(Visible)
  BY <1>2, EmptySeq
<1>4. "LF" \in Spaces /\ "CR" \in Spaces
  BY DEF Spaces
<1>5. CASE c = "LF" /\ cr = TRUE
  <2>1. ReadChar(s, c) = InLine(pre, x, FALSE)
    BY <1>1, <1>5, ReadInLine
  <2>2. ReadToken(t, c) = t
    BY <1>1, <1>4, <1>5, SpacesRead
  <2> QED
    BY <1>1, <2>1, <2>2 DEF SoFar
<1>6. CASE c = "CR" \/ (c = "LF" /\ cr = FALSE)
  <2>1. PICK q \in BOOLEAN : ReadChar(s, c) = InLine(Append(pre, x), none, q)
    BY <1>1, <1>2, <1>6, ReadInLine, ZenonT(40)
  <2>2. ReadToken(t, c) = Sp(t) /\ Sp(Sp(t)) = Sp(t) /\ Sp(t) \in TokenStates
    BY <1>4, <1>6, SpacesRead
  <2>3. Reads(LineReader, NoToken, Append(pre, x)) = Sp(t)
    BY <1>1, LineTokenType
  <2>4. Reader(TokenStates, Chars, TokenReader, Sp(t))
    BY <2>2, TokenReaderReads
  <2>5. Reads(TokenReader, Sp(t), none) = Sp(t)
    BY <1>2, <2>4, ReadsNone
  <2>6. Append(pre, x) \in Seq(Seq(Visible))
    BY AppendProperties
  <2>7. Sp(t) = Reads(TokenReader, Reads(LineReader, NoToken, Append(pre, x)), none)
    BY <2>3, <2>5
  <2> QED
    BY <1>3, <2>1, <2>2, <2>6, <2>7 DEF SoFar
<1>7. CASE c \in Visible
  <2>1. ReadChar(s, c) = InLine(pre, Append(x, c), FALSE)
    BY <1>1, <1>7, ReadInLine
  <2>2. PICK u : u = Reads(LineReader, NoToken, pre)
    OBVIOUS
  <2>3. u \in TokenStates
    BY <1>1, <2>2, LineTokenType
  <2>4. Reader(TokenStates, Chars, TokenReader, u) /\ x \in Seq(Chars)
    BY <2>3, TokenReaderReads, VisibleText
  <2>5. Reads(TokenReader, u, Append(x, c)) = TokenReader[<<Reads(TokenReader, u, x), c>>]
    BY <2>4, ReadsOne
  <2>6. TokenReader[<<t, c>>] = ReadToken(t, c)
    BY TokenReaderReads
  <2>7. ReadToken(t, c) = Reads(TokenReader, Reads(LineReader, NoToken, pre), Append(x, c))
    BY <1>1, <2>2, <2>5, <2>6
  <2>8. Append(x, c) \in Seq(Visible)
    BY <1>7, AppendProperties
  <2> QED
    BY <1>1, <2>1, <2>7, <2>8 DEF SoFar
<1>8. c = "LF" \/ c = "CR" \/ c \in Visible
  BY DEF Visible
<1> QED
  BY <1>5, <1>6, <1>7, <1>8

LEMMA LinesOf ==
    ASSUME NEW text \in Seq(Chars)
    PROVE  /\ Lines(text) = Reads(CharReader, NoLine, text).lines
           /\ Reads(CharReader, NoLine, text) \in LineStates
           /\ Lines(text) \in Seq(Seq(Visible))
<1>1. Reader(LineStates, Chars, CharReader, NoLine)
  BY NoLineYet, CharReaderReads
<1>2. Reads(CharReader, NoLine, text) \in LineStates
  BY <1>1, ReadsIs
<1>3. FoldLeft(ReadChar, NoLine, text) = Reads(CharReader, NoLine, text)
  BY NoLineYet, CharsRead
<1>4. Lines(text) = Reads(CharReader, NoLine, text).lines
  BY <1>3 DEF Lines, NoLine
<1> QED
  BY <1>2, <1>4 DEF LineStates

LEMMA TokensOf ==
    ASSUME NEW text \in Seq(Chars)
    PROVE  /\ Tokens(text) = DropLast(Reads(TokenReader, NoToken, text), {<<>>})
           /\ Reads(TokenReader, NoToken, text) \in TokenStates
<1>1. NoToken \in TokenStates
  BY SpacesRead
<1>2. Reader(TokenStates, Chars, TokenReader, NoToken)
  BY <1>1, TokenReaderReads
<1>3. Reads(TokenReader, NoToken, text) \in TokenStates
  BY <1>2, ReadsIs
<1>4. FoldLeft(ReadToken, NoToken, text) = Reads(TokenReader, NoToken, text)
  BY <1>1, TokensRead
<1> QED
  BY <1>3, <1>4 DEF Tokens, NoToken

LEMMA TokensOfLines ==
    ASSUME NEW text \in Seq(Chars)
    PROVE  Tokens(text) = DropLast(Reads(LineReader, NoToken, Lines(text)), {<<>>})
<1>1. Reader(LineStates, Chars, CharReader, NoLine)
  BY NoLineYet, CharReaderReads
<1>2. Reader(TokenStates, Chars, TokenReader, NoToken)
  BY SpacesRead, TokenReaderReads
<1>3. PICK R : R = {p \in LineStates \X TokenStates : SoFar(p[1], p[2])}
  OBVIOUS
<1>4. \A s \in LineStates, t \in TokenStates : <<s, t>> \in R <=> SoFar(s, t)
  BY <1>3
<1>5. <<NoLine, NoToken>> \in R
  <2>1. PICK none : none = <<>>
    OBVIOUS
  <2>2. none \in Seq(Visible) /\ none \in Seq(Seq(Visible))
    BY <2>1, EmptySeq
  <2>3. Reader(TokenStates, Seq(Visible), LineReader, NoToken)
    BY SpacesRead, LineReaderReads
  <2>4. Reads(LineReader, NoToken, none) = NoToken
    BY <2>1, <2>3, ReadsNone
  <2>5. Reads(TokenReader, NoToken, none) = NoToken
    BY <1>2, <2>1, ReadsNone
  <2>6. NoLine = InLine(none, none, FALSE)
    BY <2>1, NoLineYet
  <2>7. SoFar(NoLine, NoToken)
    BY <2>2, <2>4, <2>5, <2>6 DEF SoFar
  <2> QED
    BY <1>4, <2>7, NoLineYet, SpacesRead
<1>6. ASSUME NEW s \in LineStates, NEW t \in TokenStates, NEW c \in Chars, <<s, t>> \in R
      PROVE  <<CharReader[<<s, c>>], TokenReader[<<t, c>>]>> \in R
  <2>1. SoFar(s, t)
    BY <1>4, <1>6
  <2>2. SoFar(ReadChar(s, c), ReadToken(t, c))
    BY <2>1, SoFarStep
  <2>3. ReadChar(s, c) \in LineStates /\ ReadToken(t, c) \in TokenStates
    BY ReadCharType, ReadTokenType
  <2>4. CharReader[<<s, c>>] = ReadChar(s, c)
    BY CharReaderReads
  <2>5. TokenReader[<<t, c>>] = ReadToken(t, c)
    BY TokenReaderReads
  <2> QED
    BY <1>4, <2>2, <2>3, <2>4, <2>5
<1>7. Relates(LineStates, TokenStates, Chars, CharReader, TokenReader, R)
  BY <1>6 DEF Relates
<1>8. PICK s \in LineStates : s = Reads(CharReader, NoLine, text)
  BY LinesOf
<1>9. PICK t \in TokenStates : t = Reads(TokenReader, NoToken, text)
  BY TokensOf
<1>10. <<s, t>> \in R
  BY <1>1, <1>2, <1>5, <1>7, <1>8, <1>9, ReadsRelate
<1>11. SoFar(s, t)
  BY <1>4, <1>10
<1>12. PICK pre \in Seq(Seq(Visible)), x \in Seq(Visible), cr \in BOOLEAN :
        /\ s = InLine(pre, x, cr)
        /\ t = Reads(TokenReader, Reads(LineReader, NoToken, pre), x)
  BY <1>11 DEF SoFar
<1>13. Lines(text) = Append(pre, x)
  <2>1. Lines(text) = s.lines
    BY <1>8, LinesOf
  <2> QED
    BY <1>12, <2>1 DEF InLine
<1>14. Reads(LineReader, NoToken, Append(pre, x)) = Sp(t)
  BY <1>12, LineTokenType
<1>15. DropLast(Sp(t), {<<>>}) = DropLast(t, {<<>>})
  BY SpacesRead
<1>16. Tokens(text) = DropLast(t, {<<>>})
  BY <1>9, TokensOf
<1> QED
  BY <1>13, <1>14, <1>15, <1>16

-----------------------------------------------------------------------------
(* Normalized outputs *)

Empty1 == {<<>>}
VisibleLines == Seq(Seq(Visible))
StripAll(lines) == [i \in DOMAIN lines |-> StripLine(lines[i])]

LEMMA BlankLine ==
    ASSUME NEW line \in Seq(Visible)
    PROVE  /\ JsTrim(line) = <<>> <=> line \in Seq(Blank1)
           /\ StripLine(line) = <<>> <=> line \in Seq(Blank1)
           /\ StripLine(line) \in Seq(Visible)
<1>1. JsTrim(line) = Trim(line, Spaces)
  BY DEF JsTrim, Trim
<1>2. StripLine(line) = DropLast(line, Blank1)
  BY DEF StripLine, Blank1
<1>3. PICK none : none = <<>>
  OBVIOUS
<1>4. none \in Seq(Visible) /\ none \in Seq(Spaces) /\ none \in Seq(Blank1)
  BY <1>3, EmptySeq
<1>5. Blank1 \subseteq Spaces /\ \A c \in Visible : c \in Spaces => c \in Blank1
  BY DEF Blank1, Spaces, Visible, Chars
<1>6. ASSUME line \in Seq(Blank1) PROVE JsTrim(line) = <<>> /\ StripLine(line) = <<>>
  <2>1. line \in Seq(Spaces)
    BY <1>5, <1>6
  <2>2. none \o line = line /\ (none \o none) \o line = line
    BY <1>3
  <2>3. Tight(none, Spaces) /\ Ends(none, Blank1)
    BY <1>3 DEF Tight, Begins, Ends
  <2>4. Around(Visible, Spaces, none, none, line)
    BY <1>4, <2>1, <2>3 DEF Around
  <2>5. Trim((none \o none) \o line, Spaces) = none
    BY <2>4, TrimIs
  <2>6. DropLast(none \o line, Blank1) = none
    BY <1>4, <1>6, <2>3, LastDropped
  <2> QED
    BY <1>1, <1>2, <1>3, <2>2, <2>5, <2>6
<1>7. ASSUME JsTrim(line) = <<>> PROVE line \in Seq(Blank1)
  <2>0. PICK mid : mid = Trim(line, Spaces)
    OBVIOUS
  <2>8. Wrapped(Visible, Spaces, mid, line)
    BY <2>0, TrimParts
  <2>1. PICK lead, trail :
            Around(Visible, Spaces, lead, mid, trail) /\ line = (lead \o mid) \o trail
    BY <2>8 DEF Wrapped
  <2>2. lead \in Seq(Spaces) /\ trail \in Seq(Spaces)
    BY <2>1 DEF Around
  <2>6. mid \in Seq(Spaces)
    BY <1>1, <1>3, <1>4, <1>7, <2>0
  <2>3. line \in Seq(Spaces)
    BY <2>1, <2>2, <2>6
  <2>4. PICK n \in Nat : n = Len(line) /\ DOMAIN line = 1..n
    OBVIOUS
  <2>5. \A i \in 1..n : line[i] \in Visible /\ line[i] \in Spaces
    BY <2>3, <2>4
  <2>7. \A i \in 1..n : line[i] \in Blank1
    BY <1>5, <2>5
  <2> QED
    BY <2>4, <2>7
<1>8. ASSUME StripLine(line) = <<>> PROVE line \in Seq(Blank1)
  <2>1. EndsIn(Visible, Blank1, none, line)
    BY <1>2, <1>3, <1>8, LastPutBack
  <2>2. PICK trail \in Seq(Visible) : trail \in Seq(Blank1) /\ line = none \o trail
    BY <2>1 DEF EndsIn
  <2> QED
    BY <1>3, <2>2
<1>9. StripLine(line) \in Seq(Visible)
  BY <1>2, LastPutBack
<1> QED
  BY <1>6, <1>7, <1>8, <1>9

LEMMA StrippedLines ==
    ASSUME NEW lines \in VisibleLines
    PROVE  /\ StripAll(lines) \in VisibleLines /\ Len(StripAll(lines)) = Len(lines)
           /\ \A i \in 1..Len(lines) : StripAll(lines)[i] = StripLine(lines[i])
<1>1. PICK n \in Nat : n = Len(lines) /\ DOMAIN lines = 1..n
  BY DEF VisibleLines
<1>2. \A i \in 1..n : lines[i] \in Seq(Visible)
  BY <1>1 DEF VisibleLines
<1>3. \A i \in 1..n : StripLine(lines[i]) \in Seq(Visible)
  BY <1>2, BlankLine
<1>4. StripAll(lines) = [i \in 1..n |-> StripLine(lines[i])]
  BY <1>1 DEF StripAll
<1>5. StripAll(lines) \in [1..n -> Seq(Visible)]
  BY <1>3, <1>4
<1>6. StripAll(lines) \in Seq(Seq(Visible)) /\ Len(StripAll(lines)) = n
  BY <1>5
<1> QED
  BY <1>1, <1>4, <1>6 DEF VisibleLines

LEMMA NormalForm ==
    ASSUME NEW text \in Seq(Chars)
    PROVE  /\ Normalize(text) = DropLast(StripAll(Lines(text)), Empty1)
           /\ Normalize(text) \in VisibleLines
<1>1. PICK lines : lines = Lines(text)
  OBVIOUS
<1>2. lines \in VisibleLines /\ lines \in Seq(Seq(Visible))
  BY <1>1, LinesOf DEF VisibleLines
<1>3. PICK n \in Nat : n = Len(lines) /\ DOMAIN lines = 1..n
  BY <1>2
<1>4. PICK blank : blank = {line \in ToSet(lines) : JsTrim(line) = <<>>}
  OBVIOUS
<1>5. PICK ls : ls = StripAll(lines)
  OBVIOUS
<1>6. /\ ls \in VisibleLines /\ ls \in Seq(Seq(Visible)) /\ Len(ls) = n
      /\ \A i \in 1..n : ls[i] = StripLine(lines[i])
  BY <1>2, <1>3, <1>5, StrippedLines DEF VisibleLines
<1>7. \A i \in 1..n : lines[i] \in blank <=> ls[i] \in Empty1
  <2> SUFFICES ASSUME NEW i \in 1..n PROVE lines[i] \in blank <=> ls[i] \in Empty1
    OBVIOUS
  <2>1. lines[i] \in Seq(Visible)
    BY <1>2, <1>3
  <2>3. lines[i] \in ToSet(lines)
    BY <1>3, Zenon DEF ToSet
  <2>2. JsTrim(lines[i]) = <<>> <=> StripLine(lines[i]) = <<>>
    BY <2>1, BlankLine
  <2> QED
    BY <1>4, <1>6, <2>1, <2>2, <2>3 DEF Empty1
<1>8. PICK k : EndsAt(lines, blank, k)
  BY <1>2, DroppedLast
<1>9. DropLast(lines, blank) = SubSeq(lines, 1, k)
  BY <1>2, <1>8, DroppedLast
<1>10. k \in 0..n /\ EndsAt(ls, Empty1, k)
  <2>1. /\ k \in 0..n /\ (k > 0 => lines[k] \notin blank)
        /\ \A i \in (k + 1)..n : lines[i] \in blank
    BY <1>3, <1>8 DEF EndsAt
  <2>2. k > 0 => ls[k] \notin Empty1
    BY <1>7, <2>1
  <2>3. \A i \in (k + 1)..n : ls[i] \in Empty1
    BY <1>7, <2>1
  <2> QED
    BY <1>6, <2>1, <2>2, <2>3 DEF EndsAt
<1>11. DropLast(ls, Empty1) = SubSeq(ls, 1, k)
  BY <1>6, <1>10, DroppedLast
<1>12. PICK front : front = SubSeq(lines, 1, k)
  OBVIOUS
<1>13. DOMAIN front = 1..k /\ \A i \in 1..k : front[i] = lines[i]
  BY <1>2, <1>3, <1>10, <1>12
<1>14. PICK short : short = SubSeq(ls, 1, k)
  OBVIOUS
<1>15. short \in Seq(Seq(Visible)) /\ Len(short) = k /\ \A i \in 1..k : short[i] = ls[i]
  BY <1>6, <1>10, <1>14
<1>16. Normalize(text) = [i \in 1..k |-> StripLine(front[i])]
  BY <1>1, <1>4, <1>9, <1>12, <1>13 DEF Normalize
<1>17. short = [i \in 1..k |-> short[i]]
  BY <1>15
<1>18. \A i \in 1..k : StripLine(front[i]) = short[i]
  <2> SUFFICES ASSUME NEW i \in 1..k PROVE StripLine(front[i]) = short[i]
    OBVIOUS
  <2>1. i \in 1..n
    BY <1>10
  <2>2. short[i] = ls[i] /\ ls[i] = StripLine(lines[i]) /\ front[i] = lines[i]
    BY <1>6, <1>13, <1>15, <2>1
  <2> QED
    BY <2>2
<1>19. [i \in 1..k |-> StripLine(front[i])] = [i \in 1..k |-> short[i]]
  BY <1>18
<1> QED
  BY <1>1, <1>5, <1>11, <1>14, <1>15, <1>16, <1>17, <1>19 DEF VisibleLines

-----------------------------------------------------------------------------
(* What is right when the ends of lines are trimmed is right token by token *)

Same(A) == {p \in A \X A : p[1] = p[2]}

LEMMA TokensOfNormal ==
    ASSUME NEW text \in Seq(Chars)
    PROVE  Tokens(text) = DropLast(Reads(LineReader, NoToken, Normalize(text)), Empty1)
<1>1. PICK lines : lines = Lines(text)
  OBVIOUS
<1>2. lines \in VisibleLines /\ lines \in Seq(Seq(Visible))
  BY <1>1, LinesOf DEF VisibleLines
<1>3. PICK ls : ls = StripAll(lines)
  OBVIOUS
<1>4. /\ ls \in Seq(Seq(Visible)) /\ Len(ls) = Len(lines)
      /\ \A i \in 1..Len(lines) : ls[i] = StripLine(lines[i])
  BY <1>2, <1>3, StrippedLines DEF VisibleLines
<1>5. Reader(TokenStates, Seq(Visible), LineReader, NoToken)
  BY SpacesRead, LineReaderReads
<1>6. PICK R : R = Same(TokenStates)
  OBVIOUS
<1>7. \A a \in TokenStates, b \in TokenStates : <<a, b>> \in R <=> a = b
  BY <1>6 DEF Same
<1>8. ASSUME NEW i \in 1..Len(lines), NEW a \in TokenStates, NEW b \in TokenStates, <<a, b>> \in R
      PROVE  <<LineReader[<<a, lines[i]>>], LineReader[<<b, ls[i]>>]>> \in R
  <2>1. PICK x : x = lines[i]
    OBVIOUS
  <2>2. x \in Seq(Visible) /\ ls[i] = StripLine(x)
    BY <1>2, <1>4, <2>1
  <2>3. a = b
    BY <1>7, <1>8
  <2>4. LineReader[<<a, StripLine(x)>>] = LineReader[<<a, x>>]
    BY <2>2, StrippedLine
  <2>5. LineReader[<<a, x>>] \in TokenStates
    BY <1>5, <2>2 DEF Reader
  <2> QED
    BY <1>7, <2>1, <2>2, <2>3, <2>4, <2>5
<1>9. RelatesAt(TokenStates, TokenStates, Seq(Visible), Seq(Visible), LineReader, LineReader, R,
                lines, ls)
  BY <1>4, <1>8 DEF RelatesAt
<1>10. NoToken \in TokenStates /\ <<NoToken, NoToken>> \in R
  BY <1>7, SpacesRead
<1>11. PICK t : t = Reads(LineReader, NoToken, lines)
  OBVIOUS
<1>12. t \in TokenStates
  BY <1>2, <1>5, <1>11, ReadsIs
<1>13. PICK u : u = Reads(LineReader, NoToken, ls)
  OBVIOUS
<1>14. u \in TokenStates
  BY <1>4, <1>5, <1>13, ReadsIs
<1>15. <<t, u>> \in R
  BY <1>2, <1>4, <1>5, <1>9, <1>10, <1>11, <1>13, ReadsRelateAt
<1>16. t = u
  BY <1>7, <1>12, <1>14, <1>15
<1>17. PICK e : e = Normalize(text)
  OBVIOUS
<1>18. e = DropLast(ls, Empty1)
  BY <1>1, <1>3, <1>17, NormalForm
<1>19. e \in Seq(Seq(Visible)) /\ EndsIn(Seq(Visible), Empty1, e, ls)
  BY <1>4, <1>18, LastPutBack
<1>20. PICK rest \in Seq(Seq(Visible)) : rest \in Seq(Empty1) /\ ls = e \o rest
  BY <1>19 DEF EndsIn
<1>21. rest \in Seq(Seq(Blank1))
  <2>1. PICK none : none = <<>>
    OBVIOUS
  <2>2. none \in Seq(Blank1)
    BY <2>1, EmptySeq
  <2>3. Empty1 \subseteq Seq(Blank1)
    BY <2>1, <2>2 DEF Empty1
  <2> QED
    BY <1>20, <2>3
<1>22. PICK v : v = Reads(LineReader, NoToken, e)
  OBVIOUS
<1>23. v \in TokenStates
  BY <1>5, <1>19, <1>22, ReadsIs
<1>24. u = Reads(LineReader, v, rest)
  BY <1>5, <1>13, <1>19, <1>20, <1>22, ReadsOn
<1>25. u \in {v, Sp(v)}
  BY <1>20, <1>21, <1>23, <1>24, BlankLinesRead
<1>26. DropLast(u, Empty1) = DropLast(v, Empty1)
  BY <1>23, <1>25, SpacesRead DEF Empty1
<1>27. Tokens(text) = DropLast(t, Empty1)
  BY <1>1, <1>11, TokensOfLines DEF Empty1
<1> QED
  BY <1>16, <1>17, <1>22, <1>26, <1>27

-----------------------------------------------------------------------------
(* Blanks and line ends behind an output, and around an answer *)

Norm(lines) == DropLast(StripAll(lines), Empty1)

LEMMA StripAppend ==
    ASSUME NEW pre \in VisibleLines, NEW x \in Seq(Visible)
    PROVE  /\ Append(pre, x) \in VisibleLines /\ StripAll(pre) \in VisibleLines
           /\ StripLine(x) \in Seq(Visible)
           /\ StripAll(Append(pre, x)) = Append(StripAll(pre), StripLine(x))
<1>1. PICK n \in Nat : n = Len(pre)
  BY DEF VisibleLines
<1>2. PICK all : all = Append(pre, x)
  OBVIOUS
<1>12. pre \in Seq(Seq(Visible))
  BY DEF VisibleLines
<1>3. /\ all \in Seq(Seq(Visible)) /\ Len(all) = n + 1
      /\ \A i \in 1..n : all[i] = pre[i]
      /\ all[n + 1] = x
  BY <1>1, <1>2, <1>12, OneMore
<1>4. all \in VisibleLines
  BY <1>3 DEF VisibleLines
<1>5. /\ StripAll(all) \in VisibleLines /\ Len(StripAll(all)) = n + 1
      /\ \A i \in 1..(n + 1) : StripAll(all)[i] = StripLine(all[i])
  BY <1>3, <1>4, StrippedLines
<1>6. /\ StripAll(pre) \in VisibleLines /\ Len(StripAll(pre)) = n
      /\ \A i \in 1..n : StripAll(pre)[i] = StripLine(pre[i])
  BY <1>1, StrippedLines
<1>7. StripLine(x) \in Seq(Visible)
  BY BlankLine
<1>8. PICK two1 : two1 = Append(StripAll(pre), StripLine(x))
  OBVIOUS
<1>13. StripAll(pre) \in Seq(Seq(Visible)) /\ StripAll(all) \in Seq(Seq(Visible))
  BY <1>5, <1>6 DEF VisibleLines
<1>9. /\ two1 \in Seq(Seq(Visible)) /\ Len(two1) = n + 1
      /\ \A i \in 1..n : two1[i] = StripAll(pre)[i]
      /\ two1[n + 1] = StripLine(x)
  BY <1>6, <1>7, <1>8, <1>13, OneMore
<1>10. \A i \in 1..(n + 1) : StripAll(all)[i] = two1[i]
  <2> SUFFICES ASSUME NEW i \in 1..(n + 1) PROVE StripAll(all)[i] = two1[i]
    OBVIOUS
  <2>1. CASE i = n + 1
    BY <1>3, <1>5, <1>9, <2>1
  <2>2. CASE i \in 1..n
    BY <1>3, <1>5, <1>6, <1>9, <2>2
  <2> QED
    BY <2>1, <2>2
<1>11. StripAll(all) = two1
  BY <1>5, <1>9, <1>10, <1>13, SeqEqual
<1> QED
  BY <1>2, <1>4, <1>6, <1>7, <1>8, <1>11

\* Nothing that is read of blanks and line ends changes what is normalized.
LEMMA SpaceChangesNothing ==
    ASSUME NEW s \in LineStates, NEW c \in Spaces
    PROVE  Norm(ReadChar(s, c).lines) = Norm(s.lines)
<1>1. PICK pre \in Seq(Seq(Visible)), x \in Seq(Visible), cr \in BOOLEAN : s = InLine(pre, x, cr)
  BY InLineStates
<1>2. s.lines = Append(pre, x)
  BY <1>1 DEF InLine
<1>3. PICK none : none = <<>>
  OBVIOUS
<1>4. none \in Seq(Visible) /\ none \in Seq(Blank1)
  BY <1>3, EmptySeq
<1>5. PICK all : all = Append(pre, x)
  OBVIOUS
<1>6. pre \in VisibleLines
  BY DEF VisibleLines
<1>7. all \in VisibleLines /\ StripAll(all) \in VisibleLines
  BY <1>5, <1>6, StripAppend
<1>8. CASE c = "LF" /\ cr = TRUE
  <2>1. ReadChar(s, c) = InLine(pre, x, FALSE)
    BY <1>1, <1>8, ReadInLine
  <2>2. ReadChar(s, c).lines = all
    BY <1>5, <2>1 DEF InLine
  <2> QED
    BY <1>2, <1>5, <2>2
<1>9. CASE c = "CR" \/ (c = "LF" /\ cr = FALSE)
  <2>1. ReadChar(s, c).lines = Append(all, none)
    <3>1. CASE c = "CR"
      <4>1. ReadChar(s, c) = InLine(all, none, TRUE)
        BY <1>1, <1>3, <1>5, <3>1, ReadInLine
      <4> QED
        BY <4>1 DEF InLine
    <3>2. CASE c = "LF" /\ cr = FALSE
      <4>1. ReadChar(s, c) = InLine(all, none, FALSE)
        BY <1>1, <1>3, <1>5, <3>2, ReadInLine
      <4> QED
        BY <4>1 DEF InLine
    <3> QED
      BY <1>9, <3>1, <3>2
  <2>2. StripLine(none) = none
    BY <1>3, <1>4, BlankLine
  <2>3. StripAll(Append(all, none)) = Append(StripAll(all), none)
    BY <1>4, <1>7, <2>2, StripAppend
  <2>4. PICK trail : trail = <<none>>
    OBVIOUS
  <2>5. trail \in Seq(Seq(Visible)) /\ trail \in Seq(Empty1)
    <3>1. none \in Empty1
      BY <1>3 DEF Empty1
    <3> QED
      BY <1>4, <2>4, <3>1
  <2>6. PICK ls \in Seq(Seq(Visible)) : ls = StripAll(all)
    BY <1>7 DEF VisibleLines
  <2>7. Append(ls, none) = ls \o trail
    BY <1>4, <2>4, AppendIsConcat
  <2>8. DropLast(ls \o trail, Empty1) = DropLast(ls, Empty1)
    BY <2>5, DropBehind
  <2> QED
    BY <1>2, <1>5, <2>1, <2>3, <2>6, <2>7, <2>8 DEF Norm
<1>10. CASE c \in {"space", "tab"}
  <2>1. PICK y : y = Append(x, c)
    OBVIOUS
  <2>2. c \in Visible /\ c \in Blank1
    BY <1>10 DEF Visible, Chars, Blank1
  <2>3. ReadChar(s, c) = InLine(pre, y, FALSE)
    BY <1>1, <2>1, <2>2, ReadInLine
  <2>4. ReadChar(s, c).lines = Append(pre, y)
    BY <2>3 DEF InLine
  <2>5. PICK trail : trail = <<c>>
    OBVIOUS
  <2>6. trail \in Seq(Visible) /\ trail \in Seq(Blank1)
    BY <2>2, <2>5
  <2>7. y = x \o trail /\ y \in Seq(Visible)
    BY <2>1, <2>2, <2>5
  <2>8. StripLine(y) = StripLine(x)
    <3>1. DropLast(x \o trail, Blank1) = DropLast(x, Blank1)
      BY <2>6, DropBehind
    <3> QED
      BY <2>7, <3>1 DEF StripLine, Blank1
  <2>9. StripAll(Append(pre, y)) = StripAll(Append(pre, x))
    <3>1. StripAll(Append(pre, y)) = Append(StripAll(pre), StripLine(y))
      BY <1>6, <2>7, StripAppend
    <3>2. StripAll(Append(pre, x)) = Append(StripAll(pre), StripLine(x))
      BY <1>6, StripAppend
    <3> QED
      BY <2>8, <3>1, <3>2
  <2> QED
    BY <1>2, <2>4, <2>9 DEF Norm
<1>11. c \in {"space", "tab"} \/ c = "LF" \/ c = "CR"
  BY DEF Spaces
<1> QED
  BY <1>8, <1>9, <1>10, <1>11

LEMMA SpacesBehind ==
    ASSUME NEW text \in Seq(Chars), NEW trail \in Seq(Chars), trail \in Seq(Spaces)
    PROVE  /\ Normalize(text \o trail) = Normalize(text)
           /\ Tokens(text \o trail) = Tokens(text)
<1>1. PICK s : s = Reads(CharReader, NoLine, text)
  OBVIOUS
<1>2. s \in LineStates /\ s.lines = Lines(text)
  BY <1>1, LinesOf
<1>3. PICK good : good = {t \in LineStates : Norm(t.lines) = Norm(s.lines)}
  OBVIOUS
<1>4. Reader(LineStates, Chars, CharReader, s) /\ Reader(LineStates, Chars, CharReader, NoLine)
  BY <1>2, NoLineYet, CharReaderReads
<1>5. ASSUME NEW i \in 1..Len(trail), NEW a \in LineStates, a \in good
      PROVE  CharReader[<<a, trail[i]>>] \in good
  <2>1. PICK c : c = trail[i]
    OBVIOUS
  <2>2. c \in Chars /\ c \in Spaces
    BY <2>1
  <2>3. CharReader[<<a, c>>] = ReadChar(a, c)
    BY <2>2, CharReaderReads
  <2>4. ReadChar(a, c) \in LineStates
    BY <2>2, ReadCharType
  <2>5. Norm(ReadChar(a, c).lines) = Norm(a.lines)
    BY <2>2, SpaceChangesNothing
  <2> QED
    BY <1>3, <1>5, <2>1, <2>3, <2>4, <2>5
<1>6. s \in good
  BY <1>2, <1>3
<1>7. Reads(CharReader, s, trail) \in good
  BY <1>4, <1>5, <1>6, ReadsKeep
<1>8. Reads(CharReader, NoLine, text \o trail) = Reads(CharReader, s, trail)
  BY <1>1, <1>4, ReadsOn
<1>9. PICK all : all = text \o trail
  OBVIOUS
<1>10. all \in Seq(Chars)
  BY <1>9
<1>11. Lines(all) = Reads(CharReader, NoLine, all).lines
  BY <1>10, LinesOf
<1>12. Norm(Lines(all)) = Norm(Lines(text))
  BY <1>2, <1>3, <1>7, <1>8, <1>9, <1>11
<1>13. Normalize(all) = Norm(Lines(all)) /\ Normalize(text) = Norm(Lines(text))
  BY <1>10, NormalForm DEF Norm
<1>14. Normalize(all) = Normalize(text)
  BY <1>12, <1>13
<1>15. Tokens(all) = Tokens(text)
  BY <1>10, <1>14, TokensOfNormal
<1> QED
  BY <1>9, <1>14, <1>15

\* Lines behind other lines, the first of them on the last of those.
Glue(x0, lines) == [i \in DOMAIN lines |-> IF i = 1 THEN x0 \o lines[i] ELSE lines[i]]
Fronted(x0, pre, x) == IF pre = <<>> THEN x0 \o x ELSE x
Moved(pre0, x0, t) == [lines |-> pre0 \o Glue(x0, t.lines), cr |-> t.cr]

LEMMA Glued ==
    ASSUME NEW lines \in VisibleLines, NEW x0 \in Seq(Visible)
    PROVE  /\ Glue(x0, lines) \in VisibleLines /\ Len(Glue(x0, lines)) = Len(lines)
           /\ Len(lines) > 0 => Glue(x0, lines)[1] = x0 \o lines[1]
           /\ \A i \in 2..Len(lines) : Glue(x0, lines)[i] = lines[i]
<1>1. PICK n \in Nat : n = Len(lines) /\ DOMAIN lines = 1..n
  BY DEF VisibleLines
<1>2. \A i \in 1..n : lines[i] \in Seq(Visible)
  BY <1>1 DEF VisibleLines
<1>3. \A i \in 1..n : (IF i = 1 THEN x0 \o lines[i] ELSE lines[i]) \in Seq(Visible)
  <2> SUFFICES ASSUME NEW i \in 1..n
               PROVE  (IF i = 1 THEN x0 \o lines[i] ELSE lines[i]) \in Seq(Visible)
    OBVIOUS
  <2>1. PICK y \in Seq(Visible) : y = lines[i]
    BY <1>2
  <2>2. x0 \o y \in Seq(Visible)
    BY ConcatProperties
  <2> QED
    BY <2>1, <2>2
<1>4. Glue(x0, lines) = [i \in 1..n |-> IF i = 1 THEN x0 \o lines[i] ELSE lines[i]]
  BY <1>1 DEF Glue
<1>5. Glue(x0, lines) \in [1..n -> Seq(Visible)]
  BY <1>3, <1>4
<1>6. Glue(x0, lines) \in Seq(Seq(Visible)) /\ Len(Glue(x0, lines)) = n
  BY <1>5
<1>7. n > 0 => Glue(x0, lines)[1] = x0 \o lines[1]
  <2>1. n > 0 => 1 \in 1..n
    OBVIOUS
  <2> QED
    BY <1>4, <2>1
<1>8. \A i \in 2..n : Glue(x0, lines)[i] = lines[i]
  BY <1>4
<1> QED
  BY <1>1, <1>6, <1>7, <1>8 DEF VisibleLines

LEMMA GlueAppend ==
    ASSUME NEW pre \in VisibleLines, NEW x \in Seq(Visible), NEW x0 \in Seq(Visible)
    PROVE  /\ Fronted(x0, pre, x) \in Seq(Visible) /\ Glue(x0, pre) \in VisibleLines
           /\ Glue(x0, Append(pre, x)) = Append(Glue(x0, pre), Fronted(x0, pre, x))
<1>1. PICK n \in Nat : n = Len(pre) /\ (pre = <<>> <=> n = 0)
  BY DEF VisibleLines
<1>2. PICK all : all = Append(pre, x)
  OBVIOUS
<1>12. pre \in Seq(Seq(Visible))
  BY DEF VisibleLines
<1>3. /\ all \in Seq(Seq(Visible)) /\ Len(all) = n + 1
      /\ \A i \in 1..n : all[i] = pre[i]
      /\ all[n + 1] = x
  BY <1>1, <1>2, <1>12, OneMore
<1>4. all \in VisibleLines
  BY <1>3 DEF VisibleLines
<1>5. PICK g : g = Glue(x0, all)
  OBVIOUS
<1>6. g \in Seq(Seq(Visible)) /\ Len(g) = n + 1
  BY <1>3, <1>4, <1>5, Glued DEF VisibleLines
<1>17. g[1] = x0 \o all[1]
  <2>1. Len(all) > 0
    BY <1>3
  <2> QED
    BY <1>4, <1>5, <2>1, Glued
<1>18. \A i \in 2..(n + 1) : g[i] = all[i]
  <2>1. \A i \in 2..Len(all) : Glue(x0, all)[i] = all[i]
    BY <1>4, Glued
  <2> QED
    BY <1>3, <1>5, <2>1
<1>7. PICK p : p = Glue(x0, pre)
  OBVIOUS
<1>8. p \in Seq(Seq(Visible)) /\ p \in VisibleLines /\ Len(p) = n
  BY <1>1, <1>7, Glued DEF VisibleLines
<1>19. n > 0 => p[1] = x0 \o pre[1]
  BY <1>1, <1>7, Glued
<1>20. \A i \in 2..n : p[i] = pre[i]
  BY <1>1, <1>7, Glued
<1>9. PICK y : y = Fronted(x0, pre, x)
  OBVIOUS
<1>10. y \in Seq(Visible) /\ (n = 0 => y = x0 \o x) /\ (n > 0 => y = x)
  <2>1. PICK z \in Seq(Visible) : z = x0 \o x
    BY ConcatProperties
  <2> QED
    BY <1>1, <1>9, <2>1 DEF Fronted
<1>11. PICK h : h = Append(p, y)
  OBVIOUS
<1>13. /\ h \in Seq(Seq(Visible)) /\ Len(h) = n + 1
       /\ \A i \in 1..n : h[i] = p[i]
       /\ h[n + 1] = y
  BY <1>8, <1>10, <1>11, OneMore
<1>14. \A i \in 1..(n + 1) : g[i] = h[i]
  <2> SUFFICES ASSUME NEW i \in 1..(n + 1) PROVE g[i] = h[i]
    OBVIOUS
  <2>1. CASE i = n + 1
    <3>1. CASE n = 0
      <4>1. all[1] = x /\ h[1] = y /\ i = 1
        BY <1>3, <1>13, <2>1, <3>1
      <4>2. y = x0 \o x
        BY <1>10, <3>1
      <4> QED
        BY <1>17, <4>1, <4>2, Zenon
    <3>2. CASE n > 0
      <4>1. i \in 2..(n + 1)
        BY <2>1, <3>2
      <4>2. g[i] = all[i]
        BY <1>18, <4>1
      <4> QED
        BY <1>3, <1>10, <1>13, <2>1, <3>2, <4>2
    <3> QED
      BY <3>1, <3>2
  <2>2. CASE i \in 1..n
    <3>1. h[i] = p[i] /\ all[i] = pre[i]
      BY <1>3, <1>13, <2>2
    <3>2. CASE i = 1
      <4>1. n > 0
        BY <2>2
      <4>2. p[1] = x0 \o pre[1]
        BY <1>19, <4>1
      <4> QED
        BY <1>17, <3>1, <3>2, <4>2, Zenon
    <3>3. CASE i # 1
      BY <1>18, <1>20, <2>2, <3>1, <3>3
    <3> QED
      BY <3>2, <3>3
  <2> QED
    BY <2>1, <2>2
<1>15. g = h
  BY <1>6, <1>13, <1>14, SeqEqual
<1> QED
  BY <1>2, <1>5, <1>7, <1>8, <1>9, <1>10, <1>11, <1>15

LEMMA MovedIs ==
    ASSUME NEW pre0 \in VisibleLines, NEW x0 \in Seq(Visible),
           NEW pre \in VisibleLines, NEW x \in Seq(Visible), NEW cr \in BOOLEAN
    PROVE  /\ pre0 \o Glue(x0, pre) \in Seq(Seq(Visible))
           /\ Fronted(x0, pre, x) \in Seq(Visible)
           /\ Moved(pre0, x0, InLine(pre, x, cr))
                = InLine(pre0 \o Glue(x0, pre), Fronted(x0, pre, x), cr)
<1>1. PICK y : y = Fronted(x0, pre, x)
  OBVIOUS
<1>2. PICK g : g = Glue(x0, pre)
  OBVIOUS
<1>3. y \in Seq(Visible) /\ g \in VisibleLines /\ Glue(x0, Append(pre, x)) = Append(g, y)
  BY <1>1, <1>2, GlueAppend
<1>4. g \in Seq(Seq(Visible)) /\ pre0 \in Seq(Seq(Visible))
  BY <1>3 DEF VisibleLines
<1>5. pre0 \o g \in Seq(Seq(Visible))
  BY <1>4, ConcatProperties
<1>6. pre0 \o Append(g, y) = Append(pre0 \o g, y)
  BY <1>3, <1>4, SMTT(30)
<1>7. Moved(pre0, x0, InLine(pre, x, cr)) = [lines |-> pre0 \o Append(g, y), cr |-> cr]
  BY <1>3 DEF Moved, InLine
<1>8. Moved(pre0, x0, InLine(pre, x, cr)) = InLine(pre0 \o g, y, cr)
  BY <1>6, <1>7 DEF InLine
<1> QED
  BY <1>1, <1>2, <1>3, <1>5, <1>8

LEMMA MovedStep ==
    ASSUME NEW pre0 \in VisibleLines, NEW x0 \in Seq(Visible), NEW t \in LineStates, NEW c \in Chars
    PROVE  /\ Moved(pre0, x0, t) \in LineStates
           /\ ReadChar(Moved(pre0, x0, t), c) = Moved(pre0, x0, ReadChar(t, c))
<1>1. PICK pre \in Seq(Seq(Visible)), x \in Seq(Visible), cr \in BOOLEAN : t = InLine(pre, x, cr)
  BY InLineStates
<1>2. pre \in VisibleLines
  BY DEF VisibleLines
<1>3. PICK y : y = Fronted(x0, pre, x)
  OBVIOUS
<1>4. PICK p : p = pre0 \o Glue(x0, pre)
  OBVIOUS
<1>5. y \in Seq(Visible) /\ p \in Seq(Seq(Visible))
  BY <1>2, <1>3, <1>4, MovedIs
<1>6. \A q \in BOOLEAN : Moved(pre0, x0, InLine(pre, x, q)) = InLine(p, y, q)
  BY <1>2, <1>3, <1>4, MovedIs
<1>7. Moved(pre0, x0, t) = InLine(p, y, cr)
  BY <1>1, <1>6
<1>8. Moved(pre0, x0, t) \in LineStates
  BY <1>5, <1>7, InLineStates
<1>9. PICK none : none = <<>>
  OBVIOUS
<1>10. none \in Seq(Visible)
  BY <1>9, EmptySeq
<1>11. \A q \in BOOLEAN :
        Moved(pre0, x0, InLine(Append(pre, x), none, q)) = InLine(Append(p, y), none, q)
  <2> SUFFICES ASSUME NEW q \in BOOLEAN
               PROVE  Moved(pre0, x0, InLine(Append(pre, x), none, q))
                        = InLine(Append(p, y), none, q)
    OBVIOUS
  <2>8. Append(pre, x) \in VisibleLines
    BY <1>2, StripAppend
  <2>9. Append(pre, x) # <<>>
    BY AppendProperties
  <2>1. Append(pre, x) \in VisibleLines /\ Append(pre, x) # <<>>
    BY <2>8, <2>9
  <2>2. Fronted(x0, Append(pre, x), none) = none
    BY <2>1 DEF Fronted
  <2>3. PICK g : g = Glue(x0, pre)
    OBVIOUS
  <2>4. Glue(x0, Append(pre, x)) = Append(g, y) /\ g \in VisibleLines
    BY <1>2, <1>3, <2>3, GlueAppend
  <2>5. g \in Seq(Seq(Visible)) /\ pre0 \in Seq(Seq(Visible))
    BY <2>4 DEF VisibleLines
  <2>6. pre0 \o Append(g, y) = Append(pre0 \o g, y)
    BY <2>5, SMTT(30)
  <2>7. Moved(pre0, x0, InLine(Append(pre, x), none, q))
            = InLine(pre0 \o Glue(x0, Append(pre, x)), none, q)
    BY <1>10, <2>1, <2>2, MovedIs
  <2> QED
    BY <1>4, <2>3, <2>4, <2>6, <2>7
<1>12. CASE c = "LF" /\ cr = TRUE
  <2>1. ReadChar(InLine(p, y, TRUE), c) = InLine(p, y, FALSE)
    BY <1>5, <1>12, ReadInLine
  <2>2. ReadChar(t, c) = InLine(pre, x, FALSE)
    BY <1>1, <1>12, ReadInLine
  <2> QED
    BY <1>6, <1>7, <1>8, <1>12, <2>1, <2>2
<1>13. CASE c = "LF" /\ cr = FALSE
  <2>1. ReadChar(InLine(p, y, FALSE), c) = InLine(Append(p, y), none, FALSE)
    BY <1>5, <1>9, <1>13, ReadInLine
  <2>2. ReadChar(t, c) = InLine(Append(pre, x), none, FALSE)
    BY <1>1, <1>9, <1>13, ReadInLine
  <2> QED
    BY <1>7, <1>8, <1>11, <1>13, <2>1, <2>2
<1>14. CASE c = "CR"
  <2>1. ReadChar(InLine(p, y, cr), c) = InLine(Append(p, y), none, TRUE)
    BY <1>5, <1>9, <1>14, ReadInLine
  <2>2. ReadChar(t, c) = InLine(Append(pre, x), none, TRUE)
    BY <1>1, <1>9, <1>14, ReadInLine
  <2> QED
    BY <1>7, <1>8, <1>11, <2>1, <2>2
<1>15. CASE c \in Visible
  <2>1. ReadChar(InLine(p, y, cr), c) = InLine(p, Append(y, c), FALSE)
    BY <1>5, <1>15, ReadInLine
  <2>2. ReadChar(t, c) = InLine(pre, Append(x, c), FALSE)
    BY <1>1, <1>15, ReadInLine
  <2>3. Append(x, c) \in Seq(Visible)
    BY <1>15, AppendProperties
  <2>4. Fronted(x0, pre, Append(x, c)) = Append(y, c)
    <3>1. x0 \o Append(x, c) = Append(x0 \o x, c)
      BY <1>15
    <3> QED
      BY <1>3, <3>1 DEF Fronted
  <2>5. Moved(pre0, x0, InLine(pre, Append(x, c), FALSE)) = InLine(p, Append(y, c), FALSE)
    <3>1. PICK z \in Seq(Visible) : z = Append(x, c)
      BY <2>3
    <3>2. \A q \in BOOLEAN : Moved(pre0, x0, InLine(pre, z, q)) = InLine(p, Fronted(x0, pre, z), q)
      BY <1>2, <1>4, MovedIs
    <3> QED
      BY <2>4, <3>1, <3>2
  <2> QED
    BY <1>7, <1>8, <2>1, <2>2, <2>5
<1>16. c = "LF" \/ c = "CR" \/ c \in Visible
  BY DEF Visible
<1> QED
  BY <1>12, <1>13, <1>14, <1>15, <1>16

LEMMA ReadsMoved ==
    ASSUME NEW pre0 \in VisibleLines, NEW x0 \in Seq(Visible), NEW rest \in Seq(Chars)
    PROVE  Reads(CharReader, InLine(pre0, x0, FALSE), rest)
                = Moved(pre0, x0, Reads(CharReader, NoLine, rest))
<1>1. PICK R : R = {p \in LineStates \X LineStates : p[1] = Moved(pre0, x0, p[2])}
  OBVIOUS
<1>2. \A s \in LineStates, t \in LineStates : <<s, t>> \in R <=> s = Moved(pre0, x0, t)
  BY <1>1
<1>3. PICK s0 : s0 = InLine(pre0, x0, FALSE)
  OBVIOUS
<1>4. pre0 \in Seq(Seq(Visible))
  BY DEF VisibleLines
<1>5. s0 \in LineStates /\ NoLine \in LineStates
  BY <1>3, <1>4, InLineStates, NoLineYet
<1>6. Reader(LineStates, Chars, CharReader, s0) /\ Reader(LineStates, Chars, CharReader, NoLine)
  BY <1>5, CharReaderReads
<1>7. s0 = Moved(pre0, x0, NoLine)
  <2>1. PICK none : none = <<>>
    OBVIOUS
  <2>2. none \in VisibleLines /\ none \in Seq(Visible) /\ none \in Seq(Seq(Visible))
    BY <2>1, EmptySeq DEF VisibleLines
  <2>3. PICK g : g = Glue(x0, none)
    OBVIOUS
  <2>4. g \in Seq(Seq(Visible)) /\ Len(g) = 0
    BY <2>1, <2>2, <2>3, Glued DEF VisibleLines
  <2>5. g = none
    BY <2>1, <2>4
  <2>6. pre0 \o none = pre0
    BY <1>4, <2>1, ConcatEmptySeq
  <2>7. Fronted(x0, none, none) = x0
    <3>1. x0 \o none = x0
      BY <2>1, ConcatEmptySeq
    <3> QED
      BY <2>1, <3>1 DEF Fronted
  <2>8. \A q \in BOOLEAN : Moved(pre0, x0, InLine(none, none, q))
                            = InLine(pre0 \o Glue(x0, none), Fronted(x0, none, none), q)
    BY <2>2, MovedIs
  <2>9. NoLine = InLine(none, none, FALSE)
    BY <2>1, NoLineYet
  <2> QED
    BY <1>3, <2>3, <2>5, <2>6, <2>7, <2>8, <2>9
<1>8. <<s0, NoLine>> \in R
  BY <1>2, <1>5, <1>7
<1>9. ASSUME NEW s \in LineStates, NEW t \in LineStates, NEW c \in Chars, <<s, t>> \in R
      PROVE  <<CharReader[<<s, c>>], CharReader[<<t, c>>]>> \in R
  <2>1. s = Moved(pre0, x0, t)
    BY <1>2, <1>9
  <2>2. ReadChar(s, c) = Moved(pre0, x0, ReadChar(t, c))
    BY <2>1, MovedStep
  <2>3. CharReader[<<s, c>>] = ReadChar(s, c) /\ CharReader[<<t, c>>] = ReadChar(t, c)
    BY CharReaderReads
  <2>4. ReadChar(s, c) \in LineStates /\ ReadChar(t, c) \in LineStates
    BY ReadCharType
  <2> QED
    BY <1>2, <2>2, <2>3, <2>4
<1>10. Relates(LineStates, LineStates, Chars, CharReader, CharReader, R)
  BY <1>9 DEF Relates
<1>11. PICK s : s = Reads(CharReader, s0, rest)
  OBVIOUS
<1>12. PICK t : t = Reads(CharReader, NoLine, rest)
  OBVIOUS
<1>13. s \in LineStates /\ t \in LineStates
  BY <1>6, <1>11, <1>12, ReadsIs
<1>14. <<s, t>> \in R
  BY <1>6, <1>8, <1>10, <1>11, <1>12, ReadsRelate
<1> QED
  BY <1>2, <1>3, <1>11, <1>12, <1>13, <1>14

\* Before anything but blanks and line ends has been read, all lines are blank.
BlankState(s) ==
    \E pre \in Seq(Seq(Blank1)), x \in Seq(Blank1), cr \in BOOLEAN : s = InLine(pre, x, cr)

LEMMA BlankSeqs ==
    /\ \A x \in Seq(Blank1) : x \in Seq(Visible)
    /\ \A pre \in Seq(Seq(Blank1)) : pre \in VisibleLines
<1>1. Blank1 \subseteq Visible
  BY DEF Blank1, Visible, Chars
<1>2. \A x \in Seq(Blank1) : x \in Seq(Visible)
  <2> SUFFICES ASSUME NEW x \in Seq(Blank1) PROVE x \in Seq(Visible)
    OBVIOUS
  <2> QED
    BY <1>1
<1>3. \A pre \in Seq(Seq(Blank1)) : pre \in Seq(Seq(Visible))
  <2> SUFFICES ASSUME NEW pre \in Seq(Seq(Blank1)) PROVE pre \in Seq(Seq(Visible))
    OBVIOUS
  <2>1. Seq(Blank1) \subseteq Seq(Visible)
    BY <1>2
  <2> QED
    BY <2>1
<1> QED
  BY <1>2, <1>3 DEF VisibleLines

LEMMA BlankLead ==
    ASSUME NEW lead \in Seq(Chars), lead \in Seq(Spaces)
    PROVE  BlankState(Reads(CharReader, NoLine, lead))
<1>1. PICK good : good = {s \in LineStates : BlankState(s)}
  OBVIOUS
<1>2. NoLine \in LineStates /\ Reader(LineStates, Chars, CharReader, NoLine)
  BY NoLineYet, CharReaderReads
<1>3. PICK none : none = <<>>
  OBVIOUS
<1>4. none \in Seq(Blank1) /\ none \in Seq(Seq(Blank1))
  BY <1>3, EmptySeq
<1>5. NoLine \in good
  <2>1. NoLine = InLine(none, none, FALSE)
    BY <1>3, NoLineYet
  <2> QED
    BY <1>1, <1>2, <1>4, <2>1 DEF BlankState
<1>6. ASSUME NEW i \in 1..Len(lead), NEW a \in LineStates, a \in good
      PROVE  CharReader[<<a, lead[i]>>] \in good
  <2>1. PICK c : c = lead[i]
    OBVIOUS
  <2>2. c \in Chars /\ c \in Spaces
    BY <2>1
  <2>3. CharReader[<<a, c>>] = ReadChar(a, c) /\ ReadChar(a, c) \in LineStates
    BY <2>2, CharReaderReads, ReadCharType
  <2>4. PICK pre \in Seq(Seq(Blank1)), x \in Seq(Blank1), cr \in BOOLEAN : a = InLine(pre, x, cr)
    BY <1>1, <1>6 DEF BlankState
  <2>5. x \in Seq(Visible) /\ pre \in Seq(Seq(Visible))
    BY BlankSeqs DEF VisibleLines
  <2>6. Append(pre, x) \in Seq(Seq(Blank1))
    BY AppendProperties
  <2>7. CASE c = "LF" /\ cr = TRUE
    <3>1. ReadChar(a, c) = InLine(pre, x, FALSE)
      BY <2>4, <2>5, <2>7, ReadInLine
    <3> QED
      BY <1>1, <2>1, <2>3, <3>1 DEF BlankState
  <2>8. CASE c = "LF" /\ cr = FALSE
    <3>1. ReadChar(a, c) = InLine(Append(pre, x), none, FALSE)
      BY <1>3, <2>4, <2>5, <2>8, ReadInLine
    <3> QED
      BY <1>1, <1>4, <2>1, <2>3, <2>6, <3>1 DEF BlankState
  <2>9. CASE c = "CR"
    <3>1. ReadChar(a, c) = InLine(Append(pre, x), none, TRUE)
      BY <1>3, <2>4, <2>5, <2>9, ReadInLine
    <3> QED
      BY <1>1, <1>4, <2>1, <2>3, <2>6, <3>1 DEF BlankState
  <2>10. CASE c \in {"space", "tab"}
    <3>1. c \in Visible /\ c \in Blank1
      BY <2>10 DEF Visible, Chars, Blank1
    <3>2. ReadChar(a, c) = InLine(pre, Append(x, c), FALSE)
      BY <2>4, <2>5, <3>1, ReadInLine
    <3>3. Append(x, c) \in Seq(Blank1)
      BY <3>1, AppendProperties
    <3> QED
      BY <1>1, <2>1, <2>3, <3>2, <3>3 DEF BlankState
  <2> QED
    BY <2>2, <2>7, <2>8, <2>9, <2>10 DEF Spaces
<1>7. Reads(CharReader, NoLine, lead) \in good
  BY <1>2, <1>5, <1>6, ReadsKeep
<1> QED
  BY <1>1, <1>7

LEMMA StripConcat ==
    ASSUME NEW a \in VisibleLines, NEW b \in VisibleLines
    PROVE  /\ a \o b \in VisibleLines
           /\ StripAll(a \o b) = StripAll(a) \o StripAll(b)
<1>1. a \in Seq(Seq(Visible)) /\ b \in Seq(Seq(Visible))
  BY DEF VisibleLines
<1>2. PICK all : all = a \o b
  OBVIOUS
<1>3. PICK n \in Nat, m \in Nat : n = Len(a) /\ m = Len(b)
  BY <1>1
<1>4. /\ all \in Seq(Seq(Visible)) /\ Len(all) = n + m
      /\ \A i \in 1..(n + m) : all[i] = IF i <= n THEN a[i] ELSE b[i - n]
  BY <1>1, <1>2, <1>3, ConcatProperties
<1>5. all \in VisibleLines
  BY <1>4 DEF VisibleLines
<1>6. PICK sa : sa = StripAll(a)
  OBVIOUS
<1>7. PICK sb : sb = StripAll(b)
  OBVIOUS
<1>8. PICK sall : sall = StripAll(all)
  OBVIOUS
<1>9. /\ sa \in Seq(Seq(Visible)) /\ Len(sa) = n /\ \A i \in 1..n : sa[i] = StripLine(a[i])
  BY <1>3, <1>6, StrippedLines DEF VisibleLines
<1>10. /\ sb \in Seq(Seq(Visible)) /\ Len(sb) = m /\ \A i \in 1..m : sb[i] = StripLine(b[i])
  BY <1>3, <1>7, StrippedLines DEF VisibleLines
<1>11. /\ sall \in Seq(Seq(Visible)) /\ Len(sall) = n + m
       /\ \A i \in 1..(n + m) : sall[i] = StripLine(all[i])
  BY <1>4, <1>5, <1>8, StrippedLines DEF VisibleLines
<1>12. PICK both : both = sa \o sb
  OBVIOUS
<1>13. /\ both \in Seq(Seq(Visible)) /\ Len(both) = n + m
       /\ \A i \in 1..(n + m) : both[i] = IF i <= n THEN sa[i] ELSE sb[i - n]
  BY <1>9, <1>10, <1>12, ConcatProperties, ZenonT(40)
<1>14. \A i \in 1..(n + m) : sall[i] = both[i]
  <2> SUFFICES ASSUME NEW i \in 1..(n + m) PROVE sall[i] = both[i]
    OBVIOUS
  <2>1. CASE i <= n
    <3>1. i \in 1..n
      BY <2>1
    <3>2. all[i] = a[i] /\ both[i] = sa[i] /\ sall[i] = StripLine(all[i])
      BY <1>4, <1>11, <1>13, <2>1
    <3> QED
      BY <1>9, <3>1, <3>2
  <2>2. CASE i > n
    <3>1. PICK j : j = i - n
      OBVIOUS
    <3>2. j \in 1..m /\ ~(i <= n)
      BY <2>2, <3>1
    <3>3. all[i] = b[j] /\ both[i] = sb[j] /\ sall[i] = StripLine(all[i])
      BY <1>4, <1>11, <1>13, <3>1, <3>2
    <3> QED
      BY <1>10, <3>2, <3>3
  <2> QED
    BY <2>1, <2>2
<1>15. sall = both
  BY <1>11, <1>13, <1>14, SeqEqual
<1> QED
  BY <1>2, <1>5, <1>6, <1>7, <1>8, <1>12, <1>15

AllLines(p, f, e, t) == {p, f, e, t} \subseteq VisibleLines
Regroups(p, f, e, t) == p \o (f \o (e \o t)) = (p \o (f \o e)) \o t

LEMMA RegroupedLines ==
    ASSUME NEW p, NEW f, NEW e, NEW t, AllLines(p, f, e, t)
    PROVE  Regroups(p, f, e, t)
<1>1. PICK S : VisibleLines = Seq(S)
  BY DEF VisibleLines
<1>8. {p, f, e, t} \subseteq VisibleLines
  BY DEF AllLines
<1>2. f \in Seq(S) /\ e \in Seq(S) /\ t \in Seq(S)
  BY <1>1, <1>8
<1>3. (f \o e) \o t = f \o (e \o t)
  BY <1>2, ConcatAssociative
<1>4. PICK fe : fe = f \o e
  OBVIOUS
<1>5. p \in Seq(S) /\ fe \in Seq(S)
  BY <1>1, <1>2, <1>4, <1>8
<1>7. t \in Seq(S)
  BY <1>2
<1>6. (p \o fe) \o t = p \o (fe \o t)
  BY <1>5, <1>7, ConcatAssociative
<1> QED
  BY <1>3, <1>4, <1>6 DEF Regroups

\* One line before others.
LEMMA LineBefore ==
    ASSUME NEW z \in Seq(Visible), NEW q \in VisibleLines
    PROVE  /\ <<z>> \in VisibleLines /\ <<z>> \o q \in VisibleLines
           /\ <<z>> \o q # <<>> /\ (<<z>> \o q)[1] = z
           /\ StripAll(<<z>> \o q) = <<StripLine(z)>> \o StripAll(q)
<1>1. PICK t : t = <<z>>
  OBVIOUS
<1>2. t \in Seq(Seq(Visible)) /\ Len(t) = 1 /\ t[1] = z
  BY <1>1
<1>3. t \in VisibleLines /\ q \in Seq(Seq(Visible))
  BY <1>2 DEF VisibleLines
<1>4. t \o q \in VisibleLines /\ StripAll(t \o q) = StripAll(t) \o StripAll(q)
  BY <1>3, StripConcat
<1>5. t \o q # <<>> /\ (t \o q)[1] = z
  BY <1>2, <1>3
<1>6. PICK st : st = StripAll(t)
  OBVIOUS
<1>7. st \in Seq(Seq(Visible)) /\ Len(st) = 1 /\ st[1] = StripLine(z)
  BY <1>2, <1>3, <1>6, StrippedLines DEF VisibleLines
<1>8. st = <<StripLine(z)>>
  BY <1>7
<1> QED
  BY <1>1, <1>3, <1>4, <1>5, <1>6, <1>8

LEMMA GluedFirst ==
    ASSUME NEW k \in VisibleLines, k # <<>>
    PROVE  \E k1 \in Seq(Visible), q \in VisibleLines :
                \A y \in Seq(Visible) : Glue(y, k) = <<y \o k1>> \o q
<1>1. PICK n \in Nat : n = Len(k) /\ n > 0
  BY DEF VisibleLines
<1>2. k \in Seq(Seq(Visible))
  BY DEF VisibleLines
<1>3. PICK k1 \in Seq(Visible) : k1 = k[1]
  BY <1>1, <1>2
<1>4. PICK q : q = SubSeq(k, 2, n)
  OBVIOUS
<1>5. q \in Seq(Seq(Visible)) /\ Len(q) = n - 1 /\ \A i \in 1..(n - 1) : q[i] = k[i + 1]
  BY <1>1, <1>2, <1>4
<1>6. q \in VisibleLines
  BY <1>5 DEF VisibleLines
<1>7. ASSUME NEW y \in Seq(Visible) PROVE Glue(y, k) = <<y \o k1>> \o q
  <2>1. PICK z \in Seq(Visible) : z = y \o k1
    BY ConcatProperties
  <2>2. PICK t : t = <<z>>
    OBVIOUS
  <2>3. t \in Seq(Seq(Visible)) /\ Len(t) = 1 /\ t[1] = z
    BY <2>2
  <2>4. PICK g : g = Glue(y, k)
    OBVIOUS
  <2>5. g \in Seq(Seq(Visible)) /\ Len(g) = n
    BY <1>1, <2>4, Glued DEF VisibleLines
  <2>6. g[1] = z
    <3>1. Glue(y, k)[1] = y \o k[1]
      BY <1>1, Glued
    <3> QED
      BY <1>3, <2>1, <2>4, <3>1
  <2>7. \A i \in 2..n : g[i] = k[i]
    BY <1>1, <2>4, Glued
  <2>8. PICK h : h = t \o q
    OBVIOUS
  <2>9. /\ h \in Seq(Seq(Visible)) /\ Len(h) = n
        /\ \A i \in 1..n : h[i] = IF i <= 1 THEN t[i] ELSE q[i - 1]
    <3>0. t \in Seq(Seq(Visible)) /\ q \in Seq(Seq(Visible))
      BY <1>5, <2>3
    <3>1. h \in Seq(Seq(Visible))
      BY <2>8, <3>0
    <3>2. Len(h) = Len(t) + Len(q)
      BY <2>8, <3>0
    <3>3. \A i \in 1..(Len(t) + Len(q)) : h[i] = IF i <= Len(t) THEN t[i] ELSE q[i - Len(t)]
      BY <2>8, <3>0
    <3>4. Len(t) + Len(q) = n /\ Len(t) = 1
      BY <1>1, <1>5, <2>3
    <3> QED
      BY <3>1, <3>2, <3>3, <3>4
  <2>10. \A i \in 1..n : g[i] = h[i]
    <3> SUFFICES ASSUME NEW i \in 1..n PROVE g[i] = h[i]
      OBVIOUS
    <3>1. CASE i = 1
      BY <2>3, <2>6, <2>9, <3>1
    <3>2. CASE i > 1
      <4>1. PICK j : j = i - 1
        OBVIOUS
      <4>2. j \in 1..(n - 1) /\ j + 1 = i /\ i \in 2..n /\ ~(i <= 1)
        BY <3>2, <4>1
      <4>3. h[i] = q[j] /\ q[j] = k[j + 1] /\ g[i] = k[i]
        BY <1>5, <2>7, <2>9, <4>1, <4>2
      <4> QED
        BY <4>2, <4>3
    <3> QED
      BY <3>1, <3>2
  <2>11. g = h
    BY <2>5, <2>9, <2>10, SeqEqual
  <2> QED
    BY <2>1, <2>2, <2>4, <2>8, <2>11
<1> QED
  BY <1>3, <1>6, <1>7

\* How an output is normalized whose first line begins with z and whose blank lead is pre
\* and x.
FirstLine(N, pre, x, z, q) ==
    N = StripAll(pre) \o (<<x \o StripLine(z)>> \o DropLast(StripAll(q), Empty1))

LEMMA StripBehind ==
    ASSUME NEW x \in Seq(Visible), NEW z \in Seq(Visible), StripLine(z) # <<>>
    PROVE  StripLine(x \o z) = x \o StripLine(z)
<1>1. PICK w : w = StripLine(z)
  OBVIOUS
<1>2. w = DropLast(z, Blank1)
  BY <1>1 DEF StripLine, Blank1
<1>3. w \in Seq(Visible) /\ Ends(w, Blank1) /\ EndsIn(Visible, Blank1, w, z)
  BY <1>2, LastPutBack
<1>4. PICK t \in Seq(Visible) : t \in Seq(Blank1) /\ z = w \o t
  BY <1>3 DEF EndsIn
<1>5. PICK y : y = x \o w
  OBVIOUS
<1>6. w # <<>>
  BY <1>1
<1>7. y \in Seq(Visible) /\ y[Len(y)] = w[Len(w)]
  BY <1>3, <1>5, <1>6
<1>8. Ends(y, Blank1)
  BY <1>3, <1>6, <1>7 DEF Ends
<1>9. DropLast(y \o t, Blank1) = y
  BY <1>4, <1>7, <1>8, LastDropped
<1>10. x \o z = y \o t
  BY <1>3, <1>4, <1>5, SMTT(30)
<1> QED
  BY <1>1, <1>5, <1>9, <1>10 DEF StripLine, Blank1

LEMMA NormBehind ==
    ASSUME NEW pre \in VisibleLines, NEW x \in Seq(Visible), NEW z \in Seq(Visible),
           NEW q \in VisibleLines, StripLine(z) # <<>>
    PROVE  FirstLine(Norm(pre \o (<<x \o z>> \o q)), pre, x, z, q)
<1>1. PICK xz \in Seq(Visible) : xz = x \o z
  BY ConcatProperties
<1>2. PICK w \in Seq(Visible) : w = StripLine(z)
  BY BlankLine
<1>3. PICK xw \in Seq(Visible) : xw = x \o w
  BY ConcatProperties
<1>4. StripLine(xz) = xw
  BY <1>1, <1>2, <1>3, StripBehind
<1>5. w # <<>> /\ xw # <<>>
  BY <1>2, <1>3
<1>6. PICK p \in Seq(Seq(Visible)) : p = StripAll(pre)
  BY StrippedLines DEF VisibleLines
<1>7. PICK s \in Seq(Seq(Visible)) : s = StripAll(q)
  BY StrippedLines DEF VisibleLines
<1>8. <<xz>> \o q \in VisibleLines /\ StripAll(<<xz>> \o q) = <<xw>> \o s
  BY <1>4, <1>7, LineBefore
<1>9. StripAll(pre \o (<<xz>> \o q)) = p \o (<<xw>> \o s)
  <2>1. PICK m \in VisibleLines : m = <<xz>> \o q
    BY <1>8
  <2>2. StripAll(pre \o m) = StripAll(pre) \o StripAll(m)
    BY StripConcat
  <2> QED
    BY <1>6, <1>8, <2>1, <2>2
<1>10. PICK e : e = DropLast(s, Empty1)
  OBVIOUS
<1>11. e \in Seq(Seq(Visible)) /\ Ends(e, Empty1) /\ EndsIn(Seq(Visible), Empty1, e, s)
  BY <1>10, LastPutBack
<1>12. PICK t \in Seq(Seq(Visible)) : t \in Seq(Empty1) /\ s = e \o t
  BY <1>11 DEF EndsIn
<1>13. PICK f : f = <<xw>>
  OBVIOUS
<1>14. f \in Seq(Seq(Visible)) /\ Len(f) = 1 /\ f[1] = xw
  BY <1>13
<1>15. PICK fe : fe = f \o e
  OBVIOUS
<1>16. fe \in Seq(Seq(Visible)) /\ fe # <<>> /\ Ends(fe, Empty1)
  <2>5. e \in Seq(Seq(Visible)) /\ f \in Seq(Seq(Visible))
    BY <1>11, <1>14
  <2>6. fe \in Seq(Seq(Visible))
    BY <1>15, <2>5
  <2>7. Len(fe) = Len(f) + Len(e)
    BY <1>15, <2>5
  <2>4. fe \in Seq(Seq(Visible)) /\ Len(fe) = 1 + Len(e)
    BY <1>14, <2>6, <2>7
  <2>1. fe \in Seq(Seq(Visible)) /\ fe # <<>>
    <3>1. Len(e) \in Nat
      BY <1>11
    <3>2. Len(fe) # 0
      BY <2>4, <3>1
    <3> QED
      BY <2>4, <3>2, EmptySeq
  <2>2. CASE e = <<>>
    <3>1. fe = f
      BY <1>14, <1>15, <2>2, ConcatEmptySeq
    <3>2. fe[Len(fe)] = xw
      BY <1>14, <3>1
    <3> QED
      BY <1>5, <2>1, <3>2 DEF Ends, Empty1
  <2>3. CASE e # <<>>
    <3>1. fe[Len(fe)] = e[Len(e)]
      BY <1>11, <1>14, <1>15, <2>3
    <3> QED
      BY <1>11, <2>1, <2>3, <3>1 DEF Ends
  <2> QED
    BY <2>2, <2>3
<1>17. PICK pfe : pfe = p \o fe
  OBVIOUS
<1>18. pfe \in Seq(Seq(Visible)) /\ pfe[Len(pfe)] = fe[Len(fe)]
  BY <1>16, <1>17
<1>19. Ends(pfe, Empty1)
  BY <1>16, <1>18 DEF Ends
<1>20. DropLast(pfe \o t, Empty1) = pfe
  BY <1>12, <1>18, <1>19, LastDropped
<1>21. p \o (f \o s) = pfe \o t
  <2>1. AllLines(p, f, e, t)
    BY <1>6, <1>11, <1>12, <1>14 DEF VisibleLines, AllLines
  <2>3. Regroups(p, f, e, t)
    BY <2>1, RegroupedLines
  <2>2. p \o (f \o (e \o t)) = (p \o (f \o e)) \o t
    BY <2>3 DEF Regroups
  <2> QED
    <3>1. s = e \o t
      BY <1>12
    <3>2. pfe = p \o (f \o e)
      BY <1>15, <1>17
    <3>3. p \o (f \o s) = (p \o (f \o e)) \o t
      BY <2>2, <3>1
    <3> QED
      BY <3>2, <3>3
<1>22. Norm(pre \o (<<xz>> \o q)) = pfe
  BY <1>9, <1>13, <1>20, <1>21 DEF Norm
<1> QED
  BY <1>1, <1>2, <1>3, <1>6, <1>7, <1>10, <1>13, <1>15, <1>17, <1>22 DEF FirstLine

\* A normalized output without the blanks and blank lines before it.
Fix(N) ==
    LET K == DropFirst(N, Empty1)
    IN  [i \in DOMAIN K |-> IF i = 1 THEN DropFirst(K[1], Blank1) ELSE K[i]]

Opens(w) == w # <<>> /\ w[1] \notin Blank1

LEMMA OneBefore ==
    ASSUME NEW S, NEW y \in S, NEW e \in Seq(S), NEW n \in Nat, n = Len(e)
    PROVE  /\ <<y>> \o e \in Seq(S) /\ Len(<<y>> \o e) = n + 1
           /\ (<<y>> \o e)[1] = y
           /\ \A i \in 2..(n + 1) : (<<y>> \o e)[i] = e[i - 1]
<1>1. PICK f : f = <<y>>
  OBVIOUS
<1>2. f \in Seq(S) /\ Len(f) = 1 /\ f[1] = y
  BY <1>1
<1>3. PICK k : k = f \o e
  OBVIOUS
<1>4. k \in Seq(S) /\ Len(k) = 1 + n
  BY <1>2, <1>3, ConcatProperties, ZenonT(40)
<1>5. \A i \in 1..(1 + n) : k[i] = IF i <= 1 THEN f[i] ELSE e[i - 1]
  <2>1. \A i \in 1..(Len(f) + Len(e)) : (f \o e)[i] = IF i <= Len(f) THEN f[i] ELSE e[i - Len(f)]
    BY <1>2, ConcatProperties
  <2> QED
    BY <1>2, <1>3, <2>1
<1>6. k[1] = y
  <2>1. 1 \in 1..(1 + n)
    OBVIOUS
  <2>2. k[1] = f[1]
    BY <1>5, <2>1
  <2> QED
    BY <1>2, <2>2
<1>7. \A i \in 2..(n + 1) : k[i] = e[i - 1]
  BY <1>5
<1> QED
  BY <1>1, <1>3, <1>4, <1>6, <1>7

Fixable(p, x, w, e) ==
    /\ p \in VisibleLines /\ p \in Seq(Empty1) /\ x \in Seq(Visible) /\ x \in Seq(Blank1)
    /\ w \in Seq(Visible) /\ Opens(w) /\ e \in VisibleLines
Fixed(p, x, w, e) == Fix(p \o (<<x \o w>> \o e)) = <<w>> \o e

LEMMA FixIs ==
    ASSUME NEW p, NEW x, NEW w, NEW e, Fixable(p, x, w, e)
    PROVE  Fixed(p, x, w, e)
<1> /\ p \in VisibleLines /\ p \in Seq(Empty1) /\ x \in Seq(Visible) /\ x \in Seq(Blank1)
    /\ w \in Seq(Visible) /\ Opens(w) /\ e \in VisibleLines
  BY DEF Fixable
<1>1. PICK y \in Seq(Visible) : y = x \o w
  BY ConcatProperties
<1>2. PICK n \in Nat : n = Len(e)
  BY DEF VisibleLines
<1>3. e \in Seq(Seq(Visible)) /\ p \in Seq(Seq(Visible))
  BY DEF VisibleLines
<1>6. PICK k : k = <<y>> \o e
  OBVIOUS
<1>7. k \in Seq(Seq(Visible)) /\ Len(k) = n + 1
  BY <1>2, <1>3, <1>6, OneBefore
<1>10. Len(k) = n + 1 /\ k[1] = y
  BY <1>2, <1>3, <1>6, <1>7, OneBefore
<1>11. \A i \in 2..(n + 1) : k[i] = e[i - 1]
  BY <1>2, <1>3, <1>6, OneBefore
<1>12. y # <<>>
  BY <1>1 DEF Opens
<1>13. Begins(k, Empty1)
  BY <1>10, <1>12 DEF Begins, Empty1
<1>14. DropFirst(p \o k, Empty1) = k
  BY <1>3, <1>7, <1>13, FirstDropped
<1>15. DropFirst(y, Blank1) = w
  <2>1. Begins(w, Blank1)
    BY DEF Begins, Opens
  <2>2. DropFirst(x \o w, Blank1) = w
    BY <2>1, FirstDropped
  <2> QED
    BY <1>1, <2>2
<1>16. PICK new : new = Fix(p \o k)
  OBVIOUS
<1>17. DOMAIN k = 1..(n + 1)
  BY <1>7, <1>10
<1>18. new = [i \in 1..(n + 1) |-> IF i = 1 THEN DropFirst(k[1], Blank1) ELSE k[i]]
  BY <1>14, <1>16, <1>17 DEF Fix
<1>19. new[1] = w
  BY <1>10, <1>15, <1>18
<1>20. \A i \in 2..(n + 1) : new[i] = k[i]
  BY <1>18
<1>23. PICK h : h = <<w>> \o e
  OBVIOUS
<1>24. h \in Seq(Seq(Visible)) /\ Len(h) = n + 1
  BY <1>2, <1>3, <1>23, OneBefore
<1>27. Len(h) = n + 1 /\ h[1] = w
  BY <1>2, <1>3, <1>23, <1>24, OneBefore
<1>28. \A i \in 2..(n + 1) : h[i] = e[i - 1]
  BY <1>2, <1>3, <1>23, OneBefore
<1>29. \A i \in 1..(n + 1) : new[i] = h[i]
  <2> SUFFICES ASSUME NEW i \in 1..(n + 1) PROVE new[i] = h[i]
    OBVIOUS
  <2>1. CASE i = 1
    BY <1>19, <1>27, <2>1
  <2>2. CASE i # 1
    <3>1. i \in 2..(n + 1)
      BY <2>2
    <3> QED
      BY <1>11, <1>20, <1>28, <3>1
  <2> QED
    BY <2>1, <2>2
<1>30. new \in Seq(Seq(Visible)) /\ Len(new) = n + 1
  <2>1. \A i \in 1..(n + 1) : h[i] \in Seq(Visible)
    BY <1>24, <1>27
  <2>2. \A i \in 1..(n + 1) : new[i] \in Seq(Visible)
    BY <1>29, <2>1
  <2>3. new \in [1..(n + 1) -> Seq(Visible)]
    BY <1>18, <2>2
  <2> QED
    BY <2>3
<1>31. new = h
  BY <1>24, <1>27, <1>29, <1>30, SeqEqual
<1> QED
  BY <1>1, <1>6, <1>16, <1>23, <1>31 DEF Fixed

Follows(pre, x, cr, c, rest) ==
    Reads(CharReader, InLine(pre, x, cr), <<c>> \o rest).lines
      = pre \o Glue(Append(x, c), Lines(rest))

LEMMA LinesFrom ==
    ASSUME NEW pre \in VisibleLines, NEW x \in Seq(Visible), NEW c \in Visible,
           NEW rest \in Seq(Chars)
    PROVE  \A cr \in BOOLEAN : Follows(pre, x, cr, c, rest)
<1> SUFFICES ASSUME NEW cr \in BOOLEAN PROVE Follows(pre, x, cr, c, rest)
  OBVIOUS
<1>1. PICK s : s = InLine(pre, x, cr)
  OBVIOUS
<1>2. pre \in Seq(Seq(Visible))
  BY DEF VisibleLines
<1>3. s \in LineStates
  BY <1>1, <1>2, InLineStates
<1>4. Reader(LineStates, Chars, CharReader, s)
  BY <1>3, CharReaderReads
<1>5. PICK f : f = <<c>>
  OBVIOUS
<1>6. c \in Chars
  BY DEF Visible
<1>7. f \in Seq(Chars)
  BY <1>5, <1>6
<1>8. Reads(CharReader, s, f \o rest) = Reads(CharReader, Reads(CharReader, s, f), rest)
  BY <1>4, <1>7, ReadsOn
<1>9. Reads(CharReader, s, <<c>>) = CharReader[<<s, c>>]
  BY <1>4, <1>6, ReadsFew
<1>10. CharReader[<<s, c>>] = ReadChar(s, c)
  BY <1>3, <1>6, CharReaderReads
<1>11. ReadChar(s, c) = InLine(pre, Append(x, c), FALSE)
  BY <1>1, <1>2, ReadInLine
<1>12. PICK y \in Seq(Visible) : y = Append(x, c)
  BY AppendProperties
<1>13. Reads(CharReader, InLine(pre, y, FALSE), rest)
         = Moved(pre, y, Reads(CharReader, NoLine, rest))
  BY ReadsMoved
<1>14. Moved(pre, y, Reads(CharReader, NoLine, rest)).lines = pre \o Glue(y, Lines(rest))
  BY LinesOf DEF Moved
<1>15. Reads(CharReader, s, f \o rest) = Moved(pre, y, Reads(CharReader, NoLine, rest))
  BY <1>5, <1>8, <1>9, <1>10, <1>11, <1>12, <1>13
<1> QED
  BY <1>1, <1>5, <1>12, <1>14, <1>15 DEF Follows

\* What begins a line begins it still when its end is stripped.
LEMMA OpensStripped ==
    ASSUME NEW z \in Seq(Visible), Opens(z)
    PROVE  StripLine(z) # <<>> /\ Opens(StripLine(z))
<1>1. PICK w : w = StripLine(z)
  OBVIOUS
<1>2. PICK n \in Nat : n = Len(z) /\ n > 0
  BY DEF Opens
<1>3. w # <<>>
  <2>1. z \notin Seq(Blank1)
    <3>1. ASSUME z \in Seq(Blank1) PROVE z[1] \in Blank1
      BY <1>2, <3>1
    <3> QED
      BY <3>1 DEF Opens
  <2> QED
    BY <1>1, <2>1, BlankLine
<1>4. w = DropLast(z, Blank1)
  BY <1>1 DEF StripLine, Blank1
<1>5. w \in Seq(Visible) /\ EndsIn(Visible, Blank1, w, z)
  BY <1>4, LastPutBack
<1>6. PICK t \in Seq(Visible) : t \in Seq(Blank1) /\ z = w \o t
  BY <1>5 DEF EndsIn
<1>7. w[1] = z[1]
  BY <1>3, <1>5, <1>6
<1> QED
  BY <1>1, <1>3, <1>7 DEF Opens

LEMMA BlanksStripped ==
    ASSUME NEW pre \in Seq(Seq(Blank1))
    PROVE  pre \in VisibleLines /\ StripAll(pre) \in VisibleLines /\ StripAll(pre) \in Seq(Empty1)
<1>1. pre \in VisibleLines
  BY BlankSeqs
<1>2. PICK n \in Nat : n = Len(pre)
  OBVIOUS
<1>3. PICK ls : ls = StripAll(pre)
  OBVIOUS
<1>4. ls \in VisibleLines /\ Len(ls) = n /\ \A i \in 1..n : ls[i] = StripLine(pre[i])
  BY <1>1, <1>2, <1>3, StrippedLines
<1>5. \A i \in 1..n : ls[i] \in Empty1
  <2> SUFFICES ASSUME NEW i \in 1..n PROVE ls[i] \in Empty1
    OBVIOUS
  <2>1. PICK x \in Seq(Blank1) : x = pre[i]
    BY <1>2
  <2>2. x \in Seq(Visible)
    BY BlankSeqs
  <2>3. StripLine(x) = <<>>
    BY <2>2, BlankLine
  <2> QED
    BY <1>4, <2>1, <2>3 DEF Empty1
<1>6. ls \in Seq(Empty1)
  BY <1>4, <1>5 DEF VisibleLines
<1> QED
  BY <1>1, <1>3, <1>4, <1>6

LEMMA LedLines ==
    ASSUME NEW lead \in Seq(Chars), NEW mid \in Seq(Chars)
    PROVE  Lines(lead \o mid) = Reads(CharReader, Reads(CharReader, NoLine, lead), mid).lines
<1>1. Reader(LineStates, Chars, CharReader, NoLine)
  BY NoLineYet, CharReaderReads
<1>2. Reads(CharReader, NoLine, lead \o mid)
        = Reads(CharReader, Reads(CharReader, NoLine, lead), mid)
  BY <1>1, ReadsOn
<1>3. lead \o mid \in Seq(Chars)
  OBVIOUS
<1>4. Lines(lead \o mid) = Reads(CharReader, NoLine, lead \o mid).lines
  BY <1>3, LinesOf
<1> QED
  BY <1>2, <1>4

LEMMA LeadDropped ==
    ASSUME NEW lead \in Seq(Chars), lead \in Seq(Spaces), NEW c \in Chars \ Spaces,
           NEW rest \in Seq(Chars)
    PROVE  Fix(Normalize(lead \o (<<c>> \o rest))) = Normalize(<<c>> \o rest)
<1>1. c \in Visible /\ c \notin Blank1 /\ c \in Chars
  BY DEF Visible, Spaces, Blank1
<1>2. PICK mid : mid = <<c>> \o rest
  OBVIOUS
<1>3. mid \in Seq(Chars)
  BY <1>1, <1>2
<1>4. PICK s : s = Reads(CharReader, NoLine, lead)
  OBVIOUS
<1>5. BlankState(s)
  BY <1>4, BlankLead
<1>6. PICK pre \in Seq(Seq(Blank1)), x \in Seq(Blank1), cr \in BOOLEAN : s = InLine(pre, x, cr)
  BY <1>5 DEF BlankState
<1>7. pre \in VisibleLines /\ StripAll(pre) \in VisibleLines /\ StripAll(pre) \in Seq(Empty1)
  BY <1>6, BlanksStripped
<1>8. x \in Seq(Visible) /\ x \in Seq(Blank1)
  BY <1>6, BlankSeqs
<1>9. PICK k : k = Lines(rest)
  OBVIOUS
<1>10. k \in VisibleLines /\ k # <<>>
  BY <1>9, LinesOf DEF LineStates, VisibleLines
<1>11. PICK k1 \in Seq(Visible), q \in VisibleLines :
        \A y \in Seq(Visible) : Glue(y, k) = <<y \o k1>> \o q
  BY <1>10, GluedFirst
<1>12. PICK z : z = <<c>> \o k1
  OBVIOUS
<1>13. z \in Seq(Visible) /\ z # <<>> /\ z[1] = c
  BY <1>1, <1>11, <1>12
<1>14. PICK all : all = lead \o mid
  OBVIOUS
<1>15. all \in Seq(Chars)
  BY <1>3, <1>14
<1>16. PICK none : none = <<>>
  OBVIOUS
<1>17. none \in VisibleLines /\ none \in Seq(Visible) /\ none \in Seq(Blank1)
  BY <1>16, EmptySeq DEF VisibleLines
<1>18. Lines(all) = pre \o (<<x \o z>> \o q)
  <2>1. Lines(lead \o mid) = Reads(CharReader, Reads(CharReader, NoLine, lead), mid).lines
    BY <1>3, LedLines
  <2>2. Lines(all) = Reads(CharReader, s, mid).lines
    BY <1>4, <1>14, <2>1
  <2>7. Follows(pre, x, cr, c, rest)
    BY <1>1, <1>7, <1>8, LinesFrom
  <2>3. Reads(CharReader, InLine(pre, x, cr), <<c>> \o rest).lines = pre \o Glue(Append(x, c), k)
    BY <1>9, <2>7 DEF Follows
  <2>4. PICK y \in Seq(Visible) : y = Append(x, c)
    BY <1>1, <1>8, AppendProperties
  <2>5. Glue(y, k) = <<y \o k1>> \o q
    BY <1>11
  <2>6. y \o k1 = x \o z
    BY <1>1, <1>8, <1>11, <1>12, <2>4
  <2>8. Lines(all) = Reads(CharReader, InLine(pre, x, cr), <<c>> \o rest).lines
    BY <1>2, <1>6, <2>2
  <2>10. Lines(all) = pre \o Glue(y, k)
    BY <2>3, <2>4, <2>8
  <2> QED
    BY <2>5, <2>6, <2>10
<1>19. Lines(mid) = none \o (<<none \o z>> \o q)
  <2>7. Follows(none, none, FALSE, c, rest)
    BY <1>1, <1>17, LinesFrom
  <2>1. Reads(CharReader, InLine(none, none, FALSE), <<c>> \o rest).lines
            = none \o Glue(Append(none, c), k)
    BY <1>9, <2>7 DEF Follows
  <2>2. PICK y \in Seq(Visible) : y = Append(none, c)
    BY <1>1, <1>17, AppendProperties
  <2>3. Glue(y, k) = <<y \o k1>> \o q
    BY <1>11
  <2>4. y \o k1 = none \o z
    BY <1>1, <1>11, <1>12, <1>16, <1>17, <2>2
  <2>5. Lines(mid) = Reads(CharReader, NoLine, mid).lines
    BY <1>3, LinesOf
  <2>6. NoLine = InLine(none, none, FALSE)
    BY <1>16, NoLineYet
  <2> QED
    BY <1>2, <2>1, <2>2, <2>3, <2>4, <2>5, <2>6
<1>20. Opens(z)
  BY <1>1, <1>13 DEF Opens
<1>21. PICK w : w = StripLine(z)
  OBVIOUS
<1>22. w \in Seq(Visible) /\ w # <<>> /\ Opens(w)
  BY <1>13, <1>20, <1>21, OpensStripped, BlankLine
<1>23. PICK e : e = DropLast(StripAll(q), Empty1)
  OBVIOUS
<1>24. e \in VisibleLines
  <2>1. StripAll(q) \in Seq(Seq(Visible))
    BY <1>11, StrippedLines DEF VisibleLines
  <2>2. e \in Seq(Seq(Visible))
    BY <1>23, <2>1, LastPutBack
  <2> QED
    BY <2>2 DEF VisibleLines
<1>25. Normalize(all) = StripAll(pre) \o (<<x \o w>> \o e)
  <2>1. FirstLine(Norm(pre \o (<<x \o z>> \o q)), pre, x, z, q)
    BY <1>7, <1>8, <1>11, <1>13, <1>21, <1>22, NormBehind
  <2>2. Normalize(all) = Norm(Lines(all))
    BY <1>15, NormalForm DEF Norm
  <2> QED
    BY <1>18, <1>21, <1>23, <2>1, <2>2 DEF FirstLine
<1>26. Normalize(mid) = StripAll(none) \o (<<none \o w>> \o e)
  <2>1. FirstLine(Norm(none \o (<<none \o z>> \o q)), none, none, z, q)
    BY <1>11, <1>13, <1>17, <1>21, <1>22, NormBehind
  <2>2. Normalize(mid) = Norm(Lines(mid))
    BY <1>3, NormalForm DEF Norm
  <2> QED
    BY <1>19, <1>21, <1>23, <2>1, <2>2 DEF FirstLine
<1>27. Normalize(mid) = <<w>> \o e
  <2>1. StripAll(none) \in Seq(Seq(Visible)) /\ Len(StripAll(none)) = 0
    BY <1>16, <1>17, StrippedLines DEF VisibleLines
  <2>2. StripAll(none) = none
    BY <1>16, <2>1
  <2>3. none \o w = w
    BY <1>16, <1>22, ConcatEmptySeq
  <2>4. PICK m \in VisibleLines : m = <<w>> \o e
    BY <1>22, <1>24, LineBefore
  <2>5. none \o m = m
    <3>1. m \in Seq(Seq(Visible))
      BY <2>4 DEF VisibleLines
    <3> QED
      BY <1>16, <3>1, ConcatEmptySeq
  <2> QED
    BY <1>26, <2>2, <2>3, <2>4, <2>5
<1>28. Fix(StripAll(pre) \o (<<x \o w>> \o e)) = <<w>> \o e
  <2>1. PICK p : p = StripAll(pre)
    OBVIOUS
  <2>2. p \in VisibleLines /\ p \in Seq(Empty1)
    BY <1>7, <2>1
  <2>3. Fix(p \o (<<x \o w>> \o e)) = <<w>> \o e
    <3>1. Fixable(p, x, w, e)
      BY <1>8, <1>22, <1>24, <2>2 DEF Fixable
    <3>2. Fixed(p, x, w, e)
      BY <3>1, FixIs
    <3> QED
      BY <3>2 DEF Fixed
  <2> QED
    BY <2>1, <2>3
<1> QED
  BY <1>2, <1>14, <1>25, <1>27, <1>28

LEMMA NothingNormal ==
    /\ Normalize(<<>>) = <<>>
    /\ Fix(<<>>) = <<>>
<1>1. PICK none : none = <<>>
  OBVIOUS
<1>2. none \in Seq(Chars) /\ none \in Seq(Seq(Visible)) /\ none \in Seq(Empty1)
  BY <1>1, EmptySeq
<1>3. none \in VisibleLines /\ none \in Seq(Visible) /\ none \in Seq(Blank1)
  BY <1>1, EmptySeq DEF VisibleLines
<1>4. Lines(none) = Append(none, none)
  <2>1. Reader(LineStates, Chars, CharReader, NoLine)
    BY NoLineYet, CharReaderReads
  <2>2. Reads(CharReader, NoLine, none) = NoLine
    BY <1>1, <2>1, ReadsNone
  <2>3. Lines(none) = Reads(CharReader, NoLine, none).lines
    BY <1>2, LinesOf
  <2>4. NoLine.lines = Append(none, none)
    BY <1>1 DEF NoLine
  <2> QED
    BY <2>2, <2>3, <2>4
<1>5. StripLine(none) = none
  BY <1>1, <1>3, BlankLine
<1>6. PICK ls : ls = StripAll(none)
  OBVIOUS
<1>7. ls \in Seq(Seq(Visible)) /\ Len(ls) = 0
  BY <1>1, <1>3, <1>6, StrippedLines DEF VisibleLines
<1>8. ls = none
  BY <1>1, <1>7
<1>9. StripAll(Append(none, none)) = Append(none, none)
  <2>1. StripAll(Append(none, none)) = Append(StripAll(none), StripLine(none))
    BY <1>3, StripAppend
  <2> QED
    BY <1>5, <1>6, <1>8, <2>1
<1>10. PICK t : t = Append(none, none)
  OBVIOUS
<1>11. t \in Seq(Seq(Visible)) /\ t \in Seq(Empty1)
  <2>1. none \in Empty1
    BY <1>1 DEF Empty1
  <2>2. t \in Seq(Seq(Visible))
    BY <1>2, <1>3, <1>10, AppendProperties
  <2>3. t \in Seq(Empty1)
    BY <1>2, <1>10, <2>1, AppendProperties
  <2> QED
    BY <2>2, <2>3
<1>12. Ends(none, Empty1) /\ Begins(none, Empty1) /\ none \o t = t /\ none \o none = none
  <2>1. none \o t = t
    BY <1>1, <1>11, ConcatEmptySeq
  <2>2. none \o none = none
    BY <1>1, <1>2, ConcatEmptySeq
  <2> QED
    BY <1>1, <2>1, <2>2 DEF Ends, Begins
<1>13. DropLast(none \o t, Empty1) = none
  BY <1>2, <1>11, <1>12, LastDropped
<1>14. Normalize(none) = DropLast(StripAll(Lines(none)), Empty1)
  BY <1>2, NormalForm
<1>15. Normalize(none) = none
  BY <1>4, <1>9, <1>10, <1>12, <1>13, <1>14
<1>16. DropFirst(none \o none, Empty1) = none
  BY <1>2, <1>12, FirstDropped
<1>17. Fix(none) = [i \in DOMAIN none |-> IF i = 1 THEN DropFirst(none[1], Blank1) ELSE none[i]]
  BY <1>12, <1>16 DEF Fix
<1>18. Fix(none) = none
  <2>1. PICK f : f = Fix(none)
    OBVIOUS
  <2>2. DOMAIN none = 1..0
    BY <1>1
  <2>3. f \in [1..0 -> Seq(Visible)]
    BY <1>17, <2>1, <2>2
  <2>4. f \in Seq(Seq(Visible)) /\ Len(f) = 0
    BY <2>3
  <2> QED
    BY <1>1, <2>1, <2>4
<1> QED
  BY <1>1, <1>15, <1>18

\* An answer is normalized as the output with the same text, but for the blanks before it,
\* and has the same tokens.
LEMMA AnswerTrimmed ==
    ASSUME NEW text \in Seq(Chars)
    PROVE  /\ JsTrim(text) \in Seq(Chars)
           /\ Normalize(JsTrim(text)) = Fix(Normalize(text))
           /\ Tokens(JsTrim(text)) = Tokens(text)
<1>1. JsTrim(text) = Trim(text, Spaces)
  BY DEF JsTrim, Trim
<1>2. PICK mid : mid = JsTrim(text)
  OBVIOUS
<1>3. mid \in Seq(Chars) /\ Tight(mid, Spaces) /\ Wrapped(Chars, Spaces, mid, text)
  BY <1>1, <1>2, TrimParts
<1>4. PICK lead, trail : Around(Chars, Spaces, lead, mid, trail) /\ text = (lead \o mid) \o trail
  BY <1>3 DEF Wrapped
<1>5. lead \in Seq(Chars) /\ lead \in Seq(Spaces) /\ trail \in Seq(Chars) /\ trail \in Seq(Spaces)
  BY <1>4 DEF Around
<1>6. PICK front \in Seq(Chars) : front = lead \o mid
  BY <1>3, <1>5, ConcatProperties
<1>7. Normalize(text) = Normalize(front) /\ Tokens(text) = Tokens(front)
  <2>1. Normalize(front \o trail) = Normalize(front) /\ Tokens(front \o trail) = Tokens(front)
    BY <1>5, SpacesBehind
  <2> QED
    BY <1>4, <1>6, <2>1
<1>8. Fix(Normalize(front)) = Normalize(mid)
  <2>1. CASE mid = <<>>
    <3>1. front = mid \o lead
      BY <1>5, <1>6, <2>1
    <3>2. Normalize(mid \o lead) = Normalize(mid)
      BY <1>3, <1>5, SpacesBehind
    <3> QED
      BY <2>1, <3>1, <3>2, NothingNormal
  <2>2. CASE mid # <<>>
    <3>1. PICK n \in Nat : n = Len(mid) /\ n > 0
      BY <1>3, <2>2
    <3>2. PICK c \in Chars : c = mid[1]
      BY <1>3, <3>1
    <3>3. c \in Chars \ Spaces
      BY <1>3, <2>2, <3>2 DEF Tight, Begins
    <3>4. PICK rest : rest = SubSeq(mid, 2, n)
      OBVIOUS
    <3>5. rest \in Seq(Chars) /\ Len(rest) = n - 1 /\ \A i \in 1..(n - 1) : rest[i] = mid[i + 1]
      BY <1>3, <3>1, <3>4
    <3>6. mid = <<c>> \o rest
      <4>1. PICK m \in Nat : m = n - 1
        BY <3>1
      <4>2. PICK h : h = <<c>> \o rest
        OBVIOUS
      <4>3. h \in Seq(Chars) /\ Len(h) = m + 1
        BY <3>5, <4>1, <4>2, OneBefore
      <4>4. h[1] = c
        BY <3>5, <4>1, <4>2, OneBefore
      <4>5. \A i \in 2..(m + 1) : h[i] = rest[i - 1]
        BY <3>5, <4>1, <4>2, OneBefore
      <4>6. \A i \in 1..n : h[i] = mid[i]
        <5> SUFFICES ASSUME NEW i \in 1..n PROVE h[i] = mid[i]
          OBVIOUS
        <5>1. CASE i = 1
          BY <3>2, <4>4, <5>1
        <5>2. CASE i # 1
          <6>1. PICK j : j = i - 1
            OBVIOUS
          <6>2. i \in 2..(m + 1) /\ j \in 1..(n - 1) /\ j + 1 = i
            BY <4>1, <5>2, <6>1
          <6> QED
            BY <3>5, <4>5, <6>1, <6>2
        <5> QED
          BY <5>1, <5>2
      <4>7. h = mid
        BY <1>3, <3>1, <4>1, <4>3, <4>6, SeqEqual
      <4> QED
        BY <4>2, <4>7
    <3>7. Fix(Normalize(lead \o (<<c>> \o rest))) = Normalize(<<c>> \o rest)
      BY <1>5, <3>3, <3>5, LeadDropped
    <3> QED
      BY <1>6, <3>6, <3>7
  <2> QED
    BY <2>1, <2>2
<1>9. Tokens(front) = Tokens(mid)
  <2>1. Reader(TokenStates, Chars, TokenReader, NoToken) /\ NoToken \in TokenStates
    BY SpacesRead, TokenReaderReads
  <2>2. Reads(TokenReader, NoToken, lead) = NoToken
    <3>1. Reads(TokenReader, NoToken, lead) \in {NoToken, Sp(NoToken)}
      BY <1>5, <2>1, BlanksRead
    <3> QED
      BY <3>1, SpacesRead
  <2>3. Reads(TokenReader, NoToken, lead \o mid)
            = Reads(TokenReader, Reads(TokenReader, NoToken, lead), mid)
    BY <1>3, <1>5, <2>1, ReadsOn
  <2>4. Tokens(front) = DropLast(Reads(TokenReader, NoToken, front), {<<>>})
    BY TokensOf
  <2>5. Tokens(mid) = DropLast(Reads(TokenReader, NoToken, mid), {<<>>})
    BY <1>3, TokensOf
  <2> QED
    BY <1>6, <2>2, <2>3, <2>4, <2>5
<1> QED
  BY <1>2, <1>3, <1>7, <1>8, <1>9

LEMMA CheckersAreNested ==
    ASSUME about = "output" => one \in Seq(Chars) /\ two \in Seq(Chars)
    PROVE  CheckersNest
<1> SUFFICES ASSUME about = "output"
             PROVE  /\ Check("exact", one, two) => Check("trim", one, two)
                    /\ Check("trim", one, two) => Check("float", one, two)
                    /\ \A type \in {"exact", "trim", "float"} :
                        Check(type, one, two) => GradeAnswer(type, one, two)
                    /\ ToSet(two) \subseteq Spaces => Check("trim", one \o two, one)
  BY DEF CheckersNest
<1>1. one \in Seq(Chars) /\ two \in Seq(Chars)
  OBVIOUS
<1>2. /\ JsTrim(one) \in Seq(Chars) /\ Normalize(JsTrim(one)) = Fix(Normalize(one))
      /\ Tokens(JsTrim(one)) = Tokens(one)
  BY <1>1, AnswerTrimmed
<1>3. /\ JsTrim(two) \in Seq(Chars) /\ Normalize(JsTrim(two)) = Fix(Normalize(two))
      /\ Tokens(JsTrim(two)) = Tokens(two)
  BY <1>1, AnswerTrimmed
<1>4. Check("exact", one, two) => Check("trim", one, two)
  BY DEF Check
<1>5. ASSUME Check("trim", one, two) PROVE Check("float", one, two)
  <2>1. Normalize(one) = Normalize(two)
    BY <1>5 DEF Check
  <2>2. Tokens(one) = Tokens(two)
    BY <1>1, <2>1, TokensOfNormal
  <2> QED
    BY <2>2 DEF Check, Near
<1>6. ASSUME NEW type \in {"exact", "trim", "float"}, Check(type, one, two)
      PROVE  GradeAnswer(type, one, two)
  <2>1. CASE type = "exact"
    BY <1>6, <2>1 DEF Check, GradeAnswer
  <2>2. CASE type = "trim"
    <3>1. Normalize(one) = Normalize(two)
      BY <1>6, <2>2 DEF Check
    <3>2. Normalize(JsTrim(one)) = Normalize(JsTrim(two))
      BY <1>2, <1>3, <3>1
    <3> QED
      BY <2>2, <3>2 DEF Check, GradeAnswer
  <2>3. CASE type = "float"
    <3>1. /\ Len(Tokens(one)) = Len(Tokens(two))
          /\ \A i \in DOMAIN Tokens(two) : Near(Tokens(one)[i], Tokens(two)[i])
      BY <1>6, <2>3 DEF Check
    <3>2. /\ Len(Tokens(JsTrim(one))) = Len(Tokens(JsTrim(two)))
          /\ \A i \in DOMAIN Tokens(JsTrim(two)) :
                Near(Tokens(JsTrim(one))[i], Tokens(JsTrim(two))[i])
      BY <1>2, <1>3, <3>1
    <3> QED
      BY <2>3, <3>2 DEF Check, GradeAnswer
  <2> QED
    BY <2>1, <2>2, <2>3
<1>7. ASSUME ToSet(two) \subseteq Spaces PROVE Check("trim", one \o two, one)
  <2>1. two \in Seq(Spaces)
    <3>1. PICK n \in Nat : n = Len(two) /\ DOMAIN two = 1..n
      BY <1>1
    <3>2. \A i \in 1..n : two[i] \in Spaces
      BY <1>7, <3>1, Zenon DEF ToSet
    <3> QED
      BY <1>1, <3>1, <3>2
  <2>2. Normalize(one \o two) = Normalize(one)
    BY <1>1, <2>1, SpacesBehind
  <2> QED
    BY <2>2 DEF Check
<1> QED
  BY <1>4, <1>5, <1>6, <1>7

-----------------------------------------------------------------------------
(* Courses *)

BlankLines1 == {"blank"}
BodyLines == {"text", "blank", "inner"}
Written == {"text", "blank", "inner", "head"}
Headings == {Absent, "", "h"}

\* The text of an item: what is left when the blank lines around it are dropped.
IsBody(b) ==
    /\ b \in Seq(Written) /\ Tight(b, BlankLines1)
    /\ b # <<>> => b[1] # "inner"
    /\ \A i \in 2..Len(b) : b[i] # "head"

IsItem(it) ==
    /\ it.kind = "problem" => it = ProblemItem
    /\ it.kind = "text" => IsBody(it.body) /\ (it.heading # "h" => it.body # <<>>)
Blocks ==
    {it \in [kind : {"text", "problem"}, heading : Headings, body : Seq(Written)] : IsItem(it)}

CourseStates == [items : Seq(Blocks), heading : Headings, buf : Seq(BodyLines)]
Course(items, heading, buf) == [items |-> items, heading |-> heading, buf |-> buf]

\* The items when a text has been put away.
Flushed(items, heading, text) ==
    IF text # <<>> \/ heading \notin {Absent, ""} THEN Append(items, TextItem(heading, text))
    ELSE items

LEMMA TrimmedBody ==
    ASSUME NEW buf \in Seq(BodyLines)
    PROVE  IsBody(TrimBody(buf))
<1>1. PICK m : m = Trim(buf, BlankLines1)
  OBVIOUS
<1>2. m \in Seq(BodyLines) /\ Tight(m, BlankLines1)
  BY <1>1, TrimParts
<1>3. PICK n \in Nat : n = Len(m) /\ (m = <<>> <=> n = 0)
  BY <1>2
<1>4. PICK b : b = TrimBody(buf)
  OBVIOUS
<1>5. b = IF m = <<>> THEN m ELSE [m EXCEPT ![1] = IF @ = "inner" THEN "head" ELSE @]
  BY <1>1, <1>4 DEF TrimBody, Trim, BlankLines1
<1>6. CASE m = <<>>
  <2>1. b = m /\ b = <<>>
    BY <1>5, <1>6
  <2>2. b \in Seq(Written) /\ Len(b) = 0
    BY <2>1
  <2>3. Tight(b, BlankLines1)
    BY <1>2, <2>1
  <2> QED
    BY <1>4, <2>1, <2>2, <2>3 DEF IsBody
<1>7. CASE m # <<>>
  <2>1. n > 0 /\ m \in [1..n -> BodyLines]
    BY <1>2, <1>3, <1>7
  <2>2. PICK first : first = IF m[1] = "inner" THEN "head" ELSE m[1]
    OBVIOUS
  <2>3. b = [m EXCEPT ![1] = first]
    BY <1>5, <1>7, <2>2
  <2>4. m[1] \in BodyLines /\ m[1] # "blank"
    BY <1>2, <1>7, <2>1 DEF Tight, Begins, BlankLines1
  <2>5. first \in {"text", "head"} /\ first \in Written
    BY <2>2, <2>4 DEF BodyLines, Written
  <2>6. \A i \in 1..n : m[i] \in Written
    BY <2>1 DEF BodyLines, Written
  <2>7. b = [i \in 1..n |-> IF i = 1 THEN first ELSE m[i]]
    BY <2>1, <2>3
  <2>8. b \in [1..n -> Written]
    BY <2>5, <2>6, <2>7
  <2>9. b \in Seq(Written) /\ Len(b) = n
    BY <2>8
  <2>10. b[1] = first /\ \A i \in 2..n : b[i] = m[i]
    BY <2>1, <2>7
  <2>11. \A i \in 2..n : b[i] # "head"
    BY <2>1, <2>10 DEF BodyLines
  <2>12. b # <<>>
    BY <2>1, <2>9
  <2>13. Begins(b, BlankLines1)
    BY <2>5, <2>10 DEF Begins, BlankLines1
  <2>14. Ends(b, BlankLines1)
    <3>1. m[n] # "blank"
      BY <1>2, <1>3, <1>7 DEF Tight, Ends, BlankLines1
    <3>2. b[n] # "blank"
      <4>1. CASE n = 1
        BY <2>5, <2>10, <4>1
      <4>2. CASE n # 1
        BY <2>1, <2>10, <3>1, <4>2
      <4> QED
        BY <4>1, <4>2
    <3> QED
      BY <2>9, <3>2 DEF Ends, BlankLines1
  <2>15. b[1] # "inner"
    BY <2>5, <2>10
  <2> QED
    BY <1>4, <2>9, <2>11, <2>13, <2>14, <2>15 DEF IsBody, Tight
<1> QED
  BY <1>6, <1>7

\* Blank lines behind a text make no difference to it.
LEMMA BlanksBehindBody ==
    ASSUME NEW buf \in Seq(BodyLines), NEW trail \in Seq(BodyLines), trail \in Seq(BlankLines1)
    PROVE  TrimBody(buf \o trail) = TrimBody(buf)
<1>1. DropLast(buf \o trail, BlankLines1) = DropLast(buf, BlankLines1)
  BY DropBehind
<1> QED
  BY <1>1 DEF TrimBody, BlankLines1

\* A text that does not begin with a heading is read back between blank lines.
PlainBody(b) == IsBody(b) /\ (b # <<>> => b[1] # "head")

LEMMA PlainBodyLines ==
    ASSUME NEW b, PlainBody(b)
    PROVE  b \in Seq(BodyLines)
<1>1. b \in Seq(Written) /\ \A i \in 2..Len(b) : b[i] # "head"
  BY DEF PlainBody, IsBody
<1>2. PICK n \in Nat : n = Len(b) /\ DOMAIN b = 1..n
  BY <1>1
<1>3. \A i \in 1..n : b[i] \in Written
  BY <1>1, <1>2
<1>4. n > 0 => b[1] # "head"
  BY <1>1, <1>2 DEF PlainBody
<1>5. \A i \in 1..n : b[i] \in BodyLines
  <2> SUFFICES ASSUME NEW i \in 1..n PROVE b[i] \in BodyLines
    OBVIOUS
  <2>1. b[i] # "head"
    BY <1>1, <1>2, <1>4
  <2> QED
    BY <1>3, <2>1 DEF Written, BodyLines
<1> QED
  BY <1>1, <1>2, <1>5

LEMMA BodyReadBack ==
    ASSUME NEW b, PlainBody(b), NEW lead \in Seq(BodyLines), lead \in Seq(BlankLines1),
           NEW trail \in Seq(BodyLines), trail \in Seq(BlankLines1)
    PROVE  TrimBody((lead \o b) \o trail) = b
<1>1. b \in Seq(BodyLines)
  BY PlainBodyLines
<1>2. Tight(b, BlankLines1)
  BY DEF PlainBody, IsBody
<1>3. Around(BodyLines, BlankLines1, lead, b, trail)
  BY <1>1, <1>2 DEF Around
<1>4. Trim((lead \o b) \o trail, BlankLines1) = b
  BY <1>3, TrimIs
<1>5. PICK all : all = (lead \o b) \o trail
  OBVIOUS
<1>6. TrimBody(all) = IF b = <<>> THEN b ELSE [b EXCEPT ![1] = IF @ = "inner" THEN "head" ELSE @]
  BY <1>4, <1>5 DEF TrimBody, Trim, BlankLines1
<1>7. CASE b = <<>>
  BY <1>5, <1>6, <1>7
<1>8. CASE b # <<>>
  <2>1. b[1] # "inner"
    BY <1>8 DEF PlainBody, IsBody
  <2>2. [b EXCEPT ![1] = IF @ = "inner" THEN "head" ELSE @] = [b EXCEPT ![1] = b[1]]
    BY <2>1
  <2>3. [b EXCEPT ![1] = b[1]] = b
    BY <1>1
  <2> QED
    BY <1>5, <1>6, <1>8, <2>2, <2>3
<1> QED
  BY <1>7, <1>8

LEMMA Headed ==
    /\ Absent \in Headings /\ "" \in Headings /\ "h" \in Headings
    /\ Absent # "" /\ Absent # "h"
    /\ \A h \in Headings : h \notin {Absent, ""} <=> h = "h"
<1>1. Absent # "" /\ Absent # "h"
  BY FormatsAssumption
<1> QED
  BY <1>1 DEF Headings

LEMMA ItemFields ==
    /\ ProblemItem.kind = "problem" /\ ProblemItem.heading = Absent
    /\ \A h, b : /\ TextItem(h, b).kind = "text" /\ TextItem(h, b).heading = h
                 /\ TextItem(h, b).body = b
BY DEF ProblemItem, TextItem

LEMMA ItemTypes ==
    /\ ProblemItem \in Blocks
    /\ \A b : \A h \in Headings : IsBody(b) /\ (h # "h" => b # <<>>) => TextItem(h, b) \in Blocks
<1>1. ProblemItem \in Blocks
  <2>1. PICK none : none = <<>>
    OBVIOUS
  <2>2. none \in Seq(Written)
    BY <2>1, EmptySeq
  <2>3. ProblemItem \in [kind : {"text", "problem"}, heading : Headings, body : Seq(Written)]
    BY <2>1, <2>2, Headed DEF ProblemItem
  <2>4. IsItem(ProblemItem)
    BY ItemFields DEF IsItem
  <2> QED
    BY <2>3, <2>4 DEF Blocks
<1>2. ASSUME NEW h \in Headings, NEW b, IsBody(b), h # "h" => b # <<>>
      PROVE  TextItem(h, b) \in Blocks
  <2>1. b \in Seq(Written)
    BY <1>2 DEF IsBody
  <2>2. TextItem(h, b) \in [kind : {"text", "problem"}, heading : Headings, body : Seq(Written)]
    BY <2>1 DEF TextItem
  <2>3. IsItem(TextItem(h, b))
    BY <1>2, ItemFields DEF IsItem
  <2> QED
    BY <2>2, <2>3 DEF Blocks
<1> QED
  BY <1>1, <1>2

LEMMA FlushedType ==
    ASSUME NEW items \in Seq(Blocks), NEW h \in Headings, NEW buf \in Seq(BodyLines)
    PROVE  /\ Flushed(items, h, TrimBody(buf)) \in Seq(Blocks)
           /\ Flush(Course(items, h, buf)) = Course(Flushed(items, h, TrimBody(buf)), Absent, <<>>)
<1>1. PICK b : b = TrimBody(buf)
  OBVIOUS
<1>2. IsBody(b)
  BY <1>1, TrimmedBody
<1>3. CASE b # <<>> \/ h \notin {Absent, ""}
  <2>1. h # "h" => b # <<>>
    BY <1>3, Headed
  <2>2. PICK it \in Blocks : it = TextItem(h, b)
    BY <1>2, <2>1, ItemTypes
  <2>3. Append(items, it) \in Seq(Blocks)
    BY AppendProperties
  <2>4. Flushed(items, h, b) = Append(items, it)
    BY <1>3, <2>2 DEF Flushed
  <2> QED
    BY <1>1, <1>3, <2>2, <2>3, <2>4 DEF Flush, Course
<1>4. CASE ~(b # <<>> \/ h \notin {Absent, ""})
  <2>1. Flushed(items, h, b) = items
    BY <1>4 DEF Flushed
  <2> QED
    BY <1>1, <1>4, <2>1 DEF Flush, Course
<1> QED
  BY <1>3, <1>4

LEMMA LinesOfCourses ==
    /\ BodyLines \subseteq CourseLines
    /\ \A line \in CourseLines :
        line \in {"problem", "misspelt", "head", "untitled"} \/ line \in BodyLines
    /\ \A line \in BodyLines : line \notin {"problem", "misspelt", "head", "untitled"}
BY DEF CourseLines, BodyLines

LEMMA CourseParts ==
    /\ \A items \in Seq(Blocks), h \in Headings, buf \in Seq(BodyLines) :
        Course(items, h, buf) \in CourseStates
    /\ \A s \in CourseStates : \E items \in Seq(Blocks), h \in Headings, buf \in Seq(BodyLines) :
        s = Course(items, h, buf)
BY DEF CourseStates, Course

LEMMA CourseChanges ==
    ASSUME NEW items, NEW h, NEW buf, NEW x
    PROVE  /\ [Course(items, h, buf) EXCEPT !.items = x] = Course(x, h, buf)
           /\ [Course(items, h, buf) EXCEPT !.heading = x] = Course(items, x, buf)
           /\ [Course(items, h, buf) EXCEPT !.buf = x] = Course(items, h, x)
           /\ Course(items, h, buf).items = items /\ Course(items, h, buf).heading = h
           /\ Course(items, h, buf).buf = buf
BY DEF Course

\* What a line is read as that puts away the items so far, all.
BeginsItem(s, all) ==
    /\ ReadLine(s, "problem") = Course(Append(all, ProblemItem), Absent, <<>>)
    /\ ReadLine(s, "misspelt") = Course(all, Absent, <<>>)
    /\ ReadLine(s, "head") = Course(all, "h", <<>>)
    /\ ReadLine(s, "untitled") = Course(all, "", <<>>)

LEMMA ReadInCourse ==
    ASSUME NEW items \in Seq(Blocks), NEW h \in Headings, NEW buf \in Seq(BodyLines),
           NEW all, all = Flushed(items, h, TrimBody(buf))
    PROVE  /\ BeginsItem(Course(items, h, buf), all)
           /\ \A line \in BodyLines : ReadLine(Course(items, h, buf), line)
                                        = Course(items, h, Append(buf, line))
<1>1. PICK s : s = Course(items, h, buf)
  OBVIOUS
<1>2. Flush(s) = Course(all, Absent, <<>>)
  BY <1>1, FlushedType
<1>9. PICK flushed : flushed = Course(all, Absent, <<>>)
  OBVIOUS
<1>8. flushed.items = all /\ \A x : [flushed EXCEPT !.items = x] = Course(x, Absent, <<>>)
  BY <1>9, CourseChanges
<1>10. \A x : [flushed EXCEPT !.heading = x] = Course(all, x, <<>>)
  BY <1>9, CourseChanges
<1>3. ReadLine(s, "problem") = Course(Append(all, ProblemItem), Absent, <<>>)
  <2>1. ReadLine(s, "problem") = [Flush(s) EXCEPT !.items = Append(@, ProblemItem)]
    BY DEF ReadLine
  <2>2. ReadLine(s, "problem") = [flushed EXCEPT !.items = Append(all, ProblemItem)]
    BY <1>2, <1>8, <1>9, <2>1
  <2> QED
    BY <1>8, <2>2
<1>4. ReadLine(s, "misspelt") = Course(all, Absent, <<>>)
  BY <1>2 DEF ReadLine
<1>5. ReadLine(s, "head") = Course(all, "h", <<>>)
  <2>1. ReadLine(s, "head") = [Flush(s) EXCEPT !.heading = "h"]
    BY DEF ReadLine
  <2> QED
    BY <1>2, <1>9, <1>10, <2>1
<1>6. ReadLine(s, "untitled") = Course(all, "", <<>>)
  <2>1. ReadLine(s, "untitled") = [Flush(s) EXCEPT !.heading = ""]
    BY DEF ReadLine
  <2> QED
    BY <1>2, <1>9, <1>10, <2>1
<1>7. ASSUME NEW line \in BodyLines PROVE ReadLine(s, line) = Course(items, h, Append(buf, line))
  <2>1. ReadLine(s, line) = [s EXCEPT !.buf = Append(@, line)]
    BY LinesOfCourses DEF ReadLine
  <2> QED
    BY <1>1, <2>1 DEF Course
<1> QED
  BY <1>1, <1>3, <1>4, <1>5, <1>6, <1>7 DEF BeginsItem

LEMMA ReadLineType ==
    ASSUME NEW s \in CourseStates, NEW line \in CourseLines
    PROVE  ReadLine(s, line) \in CourseStates
<1>1. PICK items \in Seq(Blocks), h \in Headings, buf \in Seq(BodyLines) : s = Course(items, h, buf)
  BY CourseParts
<1>2. PICK all : all = Flushed(items, h, TrimBody(buf))
  OBVIOUS
<1>3. all \in Seq(Blocks)
  BY <1>2, FlushedType
<1>4. PICK none : none = <<>>
  OBVIOUS
<1>5. none \in Seq(BodyLines)
  BY <1>4, EmptySeq
<1>11. \A i \in Seq(Blocks), head \in Headings, lines \in Seq(BodyLines) :
        Course(i, head, lines) \in CourseStates
  BY CourseParts
<1>12. Absent \in Headings /\ "" \in Headings /\ "h" \in Headings
  BY Headed
<1>13. BeginsItem(s, all)
  BY <1>1, <1>2, ReadInCourse
<1>6. CASE line = "problem"
  <2>1. ReadLine(s, line) = Course(Append(all, ProblemItem), Absent, none)
    BY <1>4, <1>6, <1>13 DEF BeginsItem
  <2>2. Append(all, ProblemItem) \in Seq(Blocks)
    BY <1>3, ItemTypes, AppendProperties
  <2> QED
    BY <1>5, <2>1, <2>2, <1>11, <1>12
<1>7. CASE line = "misspelt"
  <2>1. ReadLine(s, line) = Course(all, Absent, none)
    BY <1>4, <1>7, <1>13 DEF BeginsItem
  <2> QED
    BY <1>3, <1>5, <2>1, <1>11, <1>12
<1>8. CASE line = "head"
  <2>1. ReadLine(s, line) = Course(all, "h", none)
    BY <1>4, <1>8, <1>13 DEF BeginsItem
  <2> QED
    BY <1>3, <1>5, <2>1, <1>11, <1>12
<1>9. CASE line = "untitled"
  <2>1. ReadLine(s, line) = Course(all, "", none)
    BY <1>4, <1>9, <1>13 DEF BeginsItem
  <2> QED
    BY <1>3, <1>5, <2>1, <1>11, <1>12
<1>10. CASE line \in BodyLines
  <2>1. ReadLine(s, line) = Course(items, h, Append(buf, line))
    BY <1>1, <1>2, <1>10, ReadInCourse
  <2>2. Append(buf, line) \in Seq(BodyLines)
    BY <1>10, AppendProperties
  <2> QED
    BY <1>11, <2>1, <2>2
<1> QED
  BY <1>6, <1>7, <1>8, <1>9, <1>10, LinesOfCourses

CourseReader == [p \in CourseStates \X CourseLines |-> ReadLine(p[1], p[2])]

LEMMA CourseReaderReads ==
    ASSUME NEW base \in CourseStates
    PROVE  /\ Reader(CourseStates, CourseLines, CourseReader, base)
           /\ \A s \in CourseStates, line \in CourseLines :
                CourseReader[<<s, line>>] = ReadLine(s, line)
BY ReadLineType DEF Reader, CourseReader

LEMMA AppendBehind ==
    ASSUME NEW S, NEW a \in Seq(S), NEW b \in Seq(S), NEW c \in S
    PROVE  a \o Append(b, c) = Append(a \o b, c)
<1>1. PICK single : single = <<c>>
  OBVIOUS
<1>2. single \in Seq(S)
  BY <1>1
<1>3. Append(b, c) = b \o single
  BY <1>1, AppendIsConcat
<1>4. PICK ab : ab = a \o b
  OBVIOUS
<1>5. ab \in Seq(S)
  BY <1>4, ConcatProperties
<1>6. Append(ab, c) = ab \o single
  BY <1>1, <1>5, AppendIsConcat
<1>7. (a \o b) \o single = a \o (b \o single)
  BY <1>2, ConcatAssociative
<1> QED
  BY <1>3, <1>4, <1>6, <1>7

Start == Course(<<>>, Absent, <<>>)

LEMMA StartState == Start \in CourseStates
<1>1. PICK none : none = <<>>
  OBVIOUS
<1>2. none \in Seq(Blocks)
  BY <1>1, EmptySeq
<1>3. none \in Seq(BodyLines)
  BY <1>1, EmptySeq
<1>4. Course(none, Absent, none) \in CourseStates
  BY <1>2, <1>3, Headed, CourseParts
<1> QED
  BY <1>1, <1>4 DEF Start

LEMMA CourseRead ==
    ASSUME NEW base \in CourseStates, NEW seq \in Seq(CourseLines)
    PROVE  FoldLeft(ReadLine, base, seq) = Reads(CourseReader, base, seq)
<1>1. Reader(CourseStates, CourseLines, CourseReader, base)
  BY CourseReaderReads
<1> DEFINE Step(it, s) ==
        IF s = {} THEN base ELSE ReadLine(it[s \ {Max(s)}], seq[Max(s)])
<1>2. PICK jt : Recurses(CourseStates, CourseLines, CourseReader, base, seq, jt)
  BY <1>1, Recursion
<1>3. \A s \in SUBSET DOMAIN seq : jt[s] = Step(jt, s)
  BY <1>2, CourseReaderReads DEF Recurses
<1>4. jt = [s \in SUBSET DOMAIN seq |-> Step(jt, s)]
  <2> HIDE DEF Step
  <2> QED
    BY <1>2, <1>3 DEF Recurses
<1>5. PICK it : /\ it = [s \in SUBSET DOMAIN seq |-> Step(it, s)]
                /\ FoldLeft(ReadLine, base, seq) = it[DOMAIN seq]
  BY <1>4 DEF FoldLeft, MapThenFoldSet
<1>6. FoldsOn(CourseStates, CourseLines, CourseReader, base, seq, it)
  BY <1>5, CourseReaderReads DEF FoldsOn
<1>7. it[DOMAIN seq] = Reads(CourseReader, base, seq)
  BY <1>1, <1>6, RecursionReads
<1> QED
  BY <1>5, <1>7

\* The items of a state when what is open in it is put away.
Put1(s) == Flushed(s.items, s.heading, TrimBody(s.buf))

LEMMA PutAway ==
    ASSUME NEW s \in CourseStates
    PROVE  Put1(s) \in Seq(Blocks) /\ Flush(s).items = Put1(s)
<1>1. PICK items \in Seq(Blocks), h \in Headings, buf \in Seq(BodyLines) : s = Course(items, h, buf)
  BY CourseParts
<1>2. s.items = items /\ s.heading = h /\ s.buf = buf
  BY <1>1, CourseChanges
<1>3. PICK all : all = Put1(s)
  OBVIOUS
<1>4. all = Flushed(items, h, TrimBody(buf))
  BY <1>2, <1>3 DEF Put1
<1>5. all \in Seq(Blocks) /\ Flush(s) = Course(all, Absent, <<>>)
  BY <1>1, <1>4, FlushedType
<1>6. Flush(s).items = all
  BY <1>5, CourseChanges
<1> QED
  BY <1>3, <1>5, <1>6

LEMMA ParseIs ==
    ASSUME NEW lines \in Seq(CourseLines)
    PROVE  /\ Reads(CourseReader, Start, lines) \in CourseStates
           /\ ParseCourseMarkdown(lines) = Put1(Reads(CourseReader, Start, lines))
           /\ ParseCourseMarkdown(lines) \in Seq(Blocks)
<1>1. PICK start : start = Start
  OBVIOUS
<1>2. start \in CourseStates
  BY <1>1, StartState
<1>3. Reader(CourseStates, CourseLines, CourseReader, start)
  BY <1>2, CourseReaderReads
<1>4. PICK s : s = Reads(CourseReader, start, lines)
  OBVIOUS
<1>5. s \in CourseStates
  BY <1>3, <1>4, ReadsIs
<1>6. FoldLeft(ReadLine, start, lines) = s
  BY <1>2, <1>4, CourseRead
<1>7. ParseCourseMarkdown(lines) = Flush(s).items
  BY <1>1, <1>6 DEF ParseCourseMarkdown, Start, Course
<1>8. Put1(s) \in Seq(Blocks) /\ Flush(s).items = Put1(s)
  BY <1>5, PutAway
<1> QED
  BY <1>1, <1>4, <1>5, <1>7, <1>8

\* Lines that are neither headings nor problems are kept until one comes.
LEMMA ReadsBody ==
    ASSUME NEW items \in Seq(Blocks), NEW h \in Headings, NEW buf \in Seq(BodyLines),
           NEW seq \in Seq(BodyLines)
    PROVE  Reads(CourseReader, Course(items, h, buf), seq) = Course(items, h, buf \o seq)
<1>1. PICK none : none = <<>>
  OBVIOUS
<1>2. none \in Seq(BodyLines)
  BY <1>1, EmptySeq
<1>3. PICK a0 : a0 = Course(items, h, buf)
  OBVIOUS
<1>4. a0 \in CourseStates
  BY <1>3, CourseParts
<1>5. Reader(CourseStates, CourseLines, CourseReader, a0)
  BY <1>4, CourseReaderReads
<1>6. Reader(Seq(BodyLines), BodyLines, Copier(BodyLines), none)
  BY <1>2, CopierReads
<1>7. PICK R : R = {p \in CourseStates \X Seq(BodyLines) : p[1] = Course(items, h, buf \o p[2])}
  OBVIOUS
<1>8. \A a \in CourseStates, b \in Seq(BodyLines) : <<a, b>> \in R
        <=> a = Course(items, h, buf \o b)
  BY <1>7
<1>9. <<a0, none>> \in R
  <2>1. buf \o none = buf
    BY <1>1, ConcatEmptySeq
  <2> QED
    BY <1>2, <1>3, <1>4, <1>8, <2>1
<1>10. ASSUME NEW a \in CourseStates, NEW b \in Seq(BodyLines), NEW c \in BodyLines, <<a, b>> \in R
       PROVE  <<CourseReader[<<a, c>>], Copier(BodyLines)[<<b, c>>]>> \in R
  <2>1. PICK before : before = buf \o b
    OBVIOUS
  <2>2. before \in Seq(BodyLines)
    BY <2>1, ConcatProperties
  <2>3. a = Course(items, h, before)
    BY <1>8, <1>10, <2>1
  <2>4. c \in CourseLines
    BY LinesOfCourses
  <2>5. CourseReader[<<a, c>>] = ReadLine(a, c)
    BY <1>4, <2>4, CourseReaderReads
  <2>6. ReadLine(a, c) = Course(items, h, Append(before, c))
    BY <2>2, <2>3, ReadInCourse
  <2>7. ReadLine(a, c) \in CourseStates
    BY <2>4, ReadLineType
  <2>8. Copier(BodyLines)[<<b, c>>] = Append(b, c)
    BY CopierReads
  <2>9. Append(b, c) \in Seq(BodyLines)
    BY AppendProperties
  <2>10. buf \o Append(b, c) = Append(before, c)
    BY <2>1, AppendBehind
  <2> QED
    BY <1>8, <2>5, <2>6, <2>7, <2>8, <2>9, <2>10
<1>11. PICK n \in Nat : n = Len(seq) /\ \A i \in 1..n : seq[i] \in BodyLines
  OBVIOUS
<1>12. seq \in Seq(CourseLines)
  BY <1>11, LinesOfCourses
<1>13. RelatesAt(CourseStates, Seq(BodyLines), CourseLines, BodyLines, CourseReader,
                 Copier(BodyLines), R, seq, seq)
  BY <1>10, <1>11 DEF RelatesAt
<1>14. <<Reads(CourseReader, a0, seq), Reads(Copier(BodyLines), none, seq)>> \in R
  BY <1>5, <1>6, <1>9, <1>12, <1>13, ReadsRelateAt
<1>15. Reads(Copier(BodyLines), none, seq) = seq
  BY <1>1, Copied
<1>16. Reads(CourseReader, a0, seq) \in CourseStates
  BY <1>5, <1>12, ReadsIs
<1> QED
  BY <1>3, <1>8, <1>14, <1>15, <1>16

\* Blank lines behind a course make no difference to it.
LEMMA BlanksBehindCourse ==
    ASSUME NEW lines \in Seq(CourseLines), NEW trail \in Seq(CourseLines),
           trail \in Seq(BlankLines1)
    PROVE  ParseCourseMarkdown(lines \o trail) = ParseCourseMarkdown(lines)
<1>1. PICK start : start = Start
  OBVIOUS
<1>2. Reader(CourseStates, CourseLines, CourseReader, start)
  BY <1>1, StartState, CourseReaderReads
<1>3. PICK s : s = Reads(CourseReader, start, lines)
  OBVIOUS
<1>4. s \in CourseStates /\ ParseCourseMarkdown(lines) = Put1(s)
  BY <1>1, <1>3, ParseIs
<1>5. PICK items \in Seq(Blocks), h \in Headings, buf \in Seq(BodyLines) : s = Course(items, h, buf)
  BY <1>4, CourseParts
<1>6. trail \in Seq(BodyLines)
  <2>1. \A i \in 1..Len(trail) : trail[i] \in BodyLines
    BY DEF BlankLines1, BodyLines
  <2> QED
    BY <2>1
<1>7. PICK more : more = buf \o trail
  OBVIOUS
<1>8. more \in Seq(BodyLines)
  BY <1>6, <1>7, ConcatProperties
<1>9. Reads(CourseReader, s, trail) = Course(items, h, more)
  BY <1>5, <1>6, <1>7, ReadsBody
<1>10. PICK all : all = lines \o trail
  OBVIOUS
<1>11. all \in Seq(CourseLines)
  BY <1>10, ConcatProperties
<1>12. Reads(CourseReader, start, all) = Course(items, h, more)
  BY <1>2, <1>3, <1>9, <1>10, ReadsOn
<1>13. ParseCourseMarkdown(all) = Put1(Course(items, h, more))
  BY <1>1, <1>11, <1>12, ParseIs
<1>14. TrimBody(more) = TrimBody(buf)
  BY <1>6, <1>7, BlanksBehindBody
<1>15. Put1(Course(items, h, more)) = Flushed(items, h, TrimBody(more))
  BY CourseChanges DEF Put1
<1>16. Put1(s) = Flushed(items, h, TrimBody(buf))
  BY <1>5, CourseChanges DEF Put1
<1> QED
  BY <1>4, <1>10, <1>13, <1>14, <1>15, <1>16

\* What an item is written as: a heading, and a text with a blank line behind it.
HeadingLines(h) == IF h \in {Absent, ""} THEN <<>> ELSE <<"head", "blank">>
TextLines(text) == IF text = <<>> THEN <<>> ELSE Append(text, "blank")

LEMMA ItemLines ==
    ASSUME NEW it \in Blocks
    PROVE  /\ it.kind = "problem" => WriteItem(it) = <<"problem">>
           /\ it.kind = "text" =>
                /\ HeadingLines(it.heading) \in Seq(Written) /\ TextLines(it.body) \in Seq(Written)
                /\ WriteItem(it) = HeadingLines(it.heading) \o TextLines(it.body)
                /\ WriteItem(it) \in Seq(Written)
<1>1. it.kind = "problem" => WriteItem(it) = <<"problem">>
  BY DEF WriteItem
<1>2. SUFFICES ASSUME it.kind = "text"
               PROVE  /\ HeadingLines(it.heading) \in Seq(Written)
                      /\ TextLines(it.body) \in Seq(Written)
                      /\ WriteItem(it) = HeadingLines(it.heading) \o TextLines(it.body)
                      /\ WriteItem(it) \in Seq(Written)
  BY <1>1
<1>3. PICK b : b = it.body
  OBVIOUS
<1>4. b \in Seq(Written)
  BY <1>3 DEF Blocks
<1>5. PICK y : y = TextLines(b)
  OBVIOUS
<1>6. "blank" \in Written /\ "head" \in Written
  BY DEF Written
<1>7. y \in Seq(Written)
  <2>1. CASE b = <<>>
    BY <1>4, <1>5, <2>1 DEF TextLines
  <2>2. CASE b # <<>>
    <3>1. Append(b, "blank") \in Seq(Written)
      BY <1>4, <1>6, AppendProperties
    <3> QED
      BY <1>5, <2>2, <3>1 DEF TextLines
  <2> QED
    BY <2>1, <2>2
<1>8. PICK x : x = HeadingLines(it.heading)
  OBVIOUS
<1>9. x \in Seq(Written)
  <2>1. PICK none : none = <<>>
    OBVIOUS
  <2>2. none \in Seq(Written)
    BY <2>1, EmptySeq
  <2>3. PICK both : both = <<"head", "blank">>
    OBVIOUS
  <2>4. both \in Seq(Written)
    BY <1>6, <2>3
  <2>5. x = none \/ x = both
    BY <1>8, <2>1, <2>3 DEF HeadingLines
  <2> QED
    BY <2>2, <2>4, <2>5
<1>10. WriteItem(it) = x \o y
  <2>1. it.kind # "problem"
    BY <1>2
  <2> QED
    BY <1>3, <1>5, <1>8, <2>1 DEF WriteItem, HeadingLines, TextLines
<1>11. x \o y \in Seq(Written)
  BY <1>7, <1>9, ConcatProperties
<1> QED
  BY <1>3, <1>5, <1>7, <1>8, <1>9, <1>10, <1>11

LEMMA ItemLinesTyped ==
    ASSUME NEW it \in Blocks
    PROVE  WriteItem(it) \in Seq(CourseLines)
<1>1. it.kind \in {"text", "problem"}
  BY DEF Blocks
<1>2. CASE it.kind = "text"
  <2>1. WriteItem(it) \in Seq(Written)
    BY <1>2, ItemLines
  <2>2. \A i \in 1..Len(WriteItem(it)) : WriteItem(it)[i] \in CourseLines
    BY <2>1 DEF Written, CourseLines
  <2> QED
    BY <2>1, <2>2
<1>3. CASE it.kind = "problem"
  <2>1. PICK w : w = WriteItem(it)
    OBVIOUS
  <2>2. w = <<"problem">>
    BY <1>3, <2>1, ItemLines
  <2>3. "problem" \in CourseLines
    BY DEF CourseLines
  <2> QED
    BY <2>1, <2>2, <2>3
<1> QED
  BY <1>1, <1>2, <1>3

Pieces(items) == [i \in DOMAIN items |-> WriteItem(items[i])]

LEMMA PiecesTyped ==
    ASSUME NEW items \in Seq(Blocks)
    PROVE  /\ Pieces(items) \in Seq(Seq(CourseLines)) /\ Len(Pieces(items)) = Len(items)
           /\ \A i \in 1..Len(items) : Pieces(items)[i] = WriteItem(items[i])
<1>1. PICK n \in Nat : n = Len(items) /\ DOMAIN items = 1..n /\ \A i \in 1..n : items[i] \in Blocks
  OBVIOUS
<1>2. \A i \in 1..n : WriteItem(items[i]) \in Seq(CourseLines)
  BY <1>1, ItemLinesTyped
<1>3. Pieces(items) = [i \in 1..n |-> WriteItem(items[i])]
  BY <1>1 DEF Pieces
<1>4. Pieces(items) \in [1..n -> Seq(CourseLines)]
  BY <1>2, <1>3
<1> QED
  BY <1>1, <1>3, <1>4

CoursePart == PartReader(CourseStates, CourseLines, CourseReader)

LEMMA CoursePartReads ==
    /\ Reader(CourseStates, Seq(CourseLines), CoursePart, Start)
    /\ \A s \in CourseStates, part \in Seq(CourseLines) :
        CoursePart[<<s, part>>] = Reads(CourseReader, s, part)
<1>1. PICK start : start = Start
  OBVIOUS
<1>2. Reader(CourseStates, CourseLines, CourseReader, start)
  BY <1>1, StartState, CourseReaderReads
<1>3. Reader(CourseStates, Seq(CourseLines), CoursePart, start)
  BY <1>2, PartReaderReads DEF CoursePart
<1>4. \A s \in CourseStates, part \in Seq(CourseLines) :
        CoursePart[<<s, part>>] = Reads(CourseReader, s, part)
  BY DEF CoursePart, PartReader
<1> QED
  BY <1>1, <1>3, <1>4

\* A course is read back item by item, as its items are written.
LEMMA ParseWritten ==
    ASSUME NEW items \in Seq(Blocks)
    PROVE  LET lines == FlattenSeq(Pieces(items))
           IN  /\ lines \in Seq(CourseLines)
               /\ ParseCourseMarkdown(SerializeCourseMarkdown(items)) = ParseCourseMarkdown(lines)
               /\ Reads(CourseReader, Start, lines) = Reads(CoursePart, Start, Pieces(items))
<1>1. PICK pieces : pieces = Pieces(items)
  OBVIOUS
<1>2. pieces \in Seq(Seq(CourseLines))
  BY <1>1, PiecesTyped
<1>3. PICK lines : lines = FlattenSeq(pieces)
  OBVIOUS
<1>4. lines \in Seq(CourseLines)
  <2>1. PICK none : none = <<>>
    OBVIOUS
  <2>2. none \in Seq(CourseLines)
    BY <2>1, EmptySeq
  <2>3. Reader(Seq(CourseLines), Seq(CourseLines), Joiner(CourseLines), none)
    BY <2>2, JoinerReads
  <2>4. Reads(Joiner(CourseLines), none, pieces) \in Seq(CourseLines)
    BY <1>2, <2>3, ReadsIs
  <2> QED
    BY <1>2, <1>3, <2>1, <2>4, Flattened
<1>5. PICK front : front = DropLast(lines, BlankLines1)
  OBVIOUS
<1>6. front \in Seq(CourseLines) /\ EndsIn(CourseLines, BlankLines1, front, lines)
  BY <1>4, <1>5, LastPutBack
<1>7. PICK trail \in Seq(CourseLines) : trail \in Seq(BlankLines1) /\ lines = front \o trail
  BY <1>6 DEF EndsIn
<1>8. ParseCourseMarkdown(lines) = ParseCourseMarkdown(front)
  BY <1>6, <1>7, BlanksBehindCourse
<1>9. PICK last : last = <<"blank">>
  OBVIOUS
<1>10. last \in Seq(CourseLines)
  BY <1>9 DEF CourseLines
<1>11. last \in Seq(BlankLines1)
  BY <1>9 DEF BlankLines1
<1>12. ParseCourseMarkdown(front \o last) = ParseCourseMarkdown(front)
  BY <1>6, <1>10, <1>11, BlanksBehindCourse
<1>13. SerializeCourseMarkdown(items) = Append(front, "blank")
  BY <1>1, <1>3, <1>5 DEF SerializeCourseMarkdown, Pieces, BlankLines1
<1>14. Append(front, "blank") = front \o last
  <2>1. "blank" \in CourseLines
    BY DEF CourseLines
  <2> QED
    BY <1>6, <1>9, <2>1, AppendIsConcat
<1>15. Reads(CourseReader, Start, lines) = Reads(CoursePart, Start, pieces)
  <2>1. PICK start : start = Start
    OBVIOUS
  <2>2. Reader(CourseStates, CourseLines, CourseReader, start)
    BY <2>1, StartState, CourseReaderReads
  <2>3. Reads(CourseReader, start, lines)
          = Reads(PartReader(CourseStates, CourseLines, CourseReader), start, pieces)
    BY <1>2, <1>3, <2>2, ReadsParts
  <2> QED
    BY <2>1, <2>3 DEF CoursePart
<1> QED
  BY <1>1, <1>3, <1>4, <1>8, <1>12, <1>13, <1>14, <1>15

-----------------------------------------------------------------------------
(* The problems of a course *)

ProblemList == Seq({ProblemItem})
Count(list, line) == IF line = "problem" THEN Append(list, ProblemItem) ELSE list
CountReader == [p \in ProblemList \X CourseLines |-> Count(p[1], p[2])]
AddReader == [p \in ProblemList \X Blocks |-> AddProblem(p[1], p[2])]

LEMMA AddedProblem ==
    ASSUME NEW list \in ProblemList, NEW it \in Blocks
    PROVE  /\ AddProblem(list, it) \in ProblemList
           /\ it.kind = "problem" => AddProblem(list, it) = Append(list, ProblemItem)
           /\ it.kind = "text" => AddProblem(list, it) = list
<1>1. PICK pr : pr = ProblemItem
  OBVIOUS
<1>2. list \in Seq({pr})
  BY <1>1 DEF ProblemList
<1>3. Append(list, pr) \in Seq({pr})
  BY <1>2, AppendProperties
<1>4. it.kind \in {"text", "problem"} /\ (it.kind = "problem" => it = pr)
  BY <1>1 DEF Blocks, IsItem
<1>5. it.kind = "problem" => AddProblem(list, it) = Append(list, pr)
  BY <1>4 DEF AddProblem
<1>6. it.kind = "text" => AddProblem(list, it) = list
  BY DEF AddProblem
<1> QED
  BY <1>1, <1>2, <1>3, <1>4, <1>5, <1>6 DEF ProblemList

LEMMA AddReaderReads ==
    ASSUME NEW base \in ProblemList
    PROVE  /\ Reader(ProblemList, Blocks, AddReader, base)
           /\ \A list \in ProblemList, it \in Blocks :
                AddReader[<<list, it>>] = AddProblem(list, it)
BY AddedProblem DEF Reader, AddReader

LEMMA CountReaderReads ==
    ASSUME NEW base \in ProblemList
    PROVE  /\ Reader(ProblemList, CourseLines, CountReader, base)
           /\ \A list \in ProblemList, line \in CourseLines :
                /\ CountReader[<<list, line>>] = Count(list, line)
                /\ Count(list, line) \in ProblemList
<1>1. ASSUME NEW list \in ProblemList, NEW line \in CourseLines
      PROVE  Count(list, line) \in ProblemList
  <2>1. PICK pr : pr = ProblemItem
    OBVIOUS
  <2>2. list \in Seq({pr})
    BY <2>1 DEF ProblemList
  <2>3. Append(list, pr) \in Seq({pr})
    BY <2>2, AppendProperties
  <2> QED
    BY <2>1, <2>2, <2>3 DEF Count, ProblemList
<1> QED
  BY <1>1 DEF Reader, CountReader

LEMMA AddingReads ==
    ASSUME NEW base \in ProblemList, NEW seq \in Seq(Blocks)
    PROVE  FoldLeft(AddProblem, base, seq) = Reads(AddReader, base, seq)
<1>1. Reader(ProblemList, Blocks, AddReader, base)
  BY AddReaderReads
<1> DEFINE Step(it, s) ==
        IF s = {} THEN base ELSE AddProblem(it[s \ {Max(s)}], seq[Max(s)])
<1>2. PICK jt : Recurses(ProblemList, Blocks, AddReader, base, seq, jt)
  BY <1>1, Recursion
<1>3. \A s \in SUBSET DOMAIN seq : jt[s] = Step(jt, s)
  BY <1>2, AddReaderReads DEF Recurses
<1>4. jt = [s \in SUBSET DOMAIN seq |-> Step(jt, s)]
  <2> HIDE DEF Step
  <2> QED
    BY <1>2, <1>3 DEF Recurses
<1>5. PICK it : /\ it = [s \in SUBSET DOMAIN seq |-> Step(it, s)]
                /\ FoldLeft(AddProblem, base, seq) = it[DOMAIN seq]
  BY <1>4 DEF FoldLeft, MapThenFoldSet
<1>6. FoldsOn(ProblemList, Blocks, AddReader, base, seq, it)
  BY <1>5, AddReaderReads DEF FoldsOn
<1>7. it[DOMAIN seq] = Reads(AddReader, base, seq)
  BY <1>1, <1>6, RecursionReads
<1> QED
  BY <1>5, <1>7

\* The problems that are in the items of a state.
LEMMA FlushedProblems ==
    ASSUME NEW s \in CourseStates
    PROVE  /\ Problems(s.items) \in ProblemList
           /\ Problems(Put1(s)) = Problems(s.items)
           /\ \A items \in Seq(Blocks) :
                Problems(Append(items, ProblemItem)) = Append(Problems(items), ProblemItem)
<1>1. PICK none : none = <<>>
  OBVIOUS
<1>2. none \in ProblemList
  BY <1>1, EmptySeq DEF ProblemList
<1>3. Reader(ProblemList, Blocks, AddReader, none)
  BY <1>2, AddReaderReads
<1>4. ASSUME NEW items \in Seq(Blocks)
      PROVE  /\ Problems(items) = Reads(AddReader, none, items)
             /\ Problems(items) \in ProblemList
  <2>1. FoldLeft(AddProblem, none, items) = Reads(AddReader, none, items)
    BY <1>2, AddingReads
  <2>2. Problems(items) = Reads(AddReader, none, items)
    BY <1>1, <2>1 DEF Problems
  <2>3. Reads(AddReader, none, items) \in ProblemList
    BY <1>3, ReadsIs
  <2> QED
    BY <2>2, <2>3
<1>5. ASSUME NEW items \in Seq(Blocks), NEW it \in Blocks
      PROVE  Problems(Append(items, it)) = AddProblem(Problems(items), it)
  <2>1. Reads(AddReader, none, Append(items, it)) = AddReader[<<Reads(AddReader, none, items), it>>]
    BY <1>3, ReadsOne
  <2>2. Append(items, it) \in Seq(Blocks)
    BY AppendProperties
  <2>3. PICK list \in ProblemList : list = Problems(items) /\ list = Reads(AddReader, none, items)
    BY <1>4
  <2>4. AddReader[<<list, it>>] = AddProblem(list, it)
    BY <1>2, AddReaderReads
  <2> QED
    BY <1>4, <2>1, <2>2, <2>3, <2>4
<1>6. ASSUME NEW items \in Seq(Blocks)
      PROVE  Problems(Append(items, ProblemItem)) = Append(Problems(items), ProblemItem)
  <2>1. PICK pr \in Blocks : pr = ProblemItem /\ pr.kind = "problem"
    BY ItemTypes, ItemFields
  <2>2. Problems(Append(items, pr)) = AddProblem(Problems(items), pr)
    BY <1>5
  <2>3. AddProblem(Problems(items), pr) = Append(Problems(items), ProblemItem)
    BY <1>4, <2>1, AddedProblem
  <2> QED
    BY <2>1, <2>2, <2>3
<1>7. PICK items \in Seq(Blocks), h \in Headings, buf \in Seq(BodyLines) : s = Course(items, h, buf)
  BY CourseParts
<1>8. s.items = items /\ s.heading = h /\ s.buf = buf
  BY <1>7, CourseChanges
<1>9. PICK b : b = TrimBody(buf)
  OBVIOUS
<1>10. Put1(s) = Flushed(items, h, b)
  BY <1>8, <1>9 DEF Put1
<1>11. IsBody(b)
  BY <1>9, TrimmedBody
<1>12. Problems(Put1(s)) = Problems(items)
  <2>1. CASE b # <<>> \/ h \notin {Absent, ""}
    <3>1. h # "h" => b # <<>>
      BY <2>1, Headed
    <3>2. PICK it \in Blocks : it = TextItem(h, b) /\ it.kind = "text"
      BY <1>11, <3>1, ItemTypes, ItemFields
    <3>3. Flushed(items, h, b) = Append(items, it)
      BY <2>1, <3>2 DEF Flushed
    <3>4. Problems(Append(items, it)) = AddProblem(Problems(items), it)
      BY <1>5
    <3>5. AddProblem(Problems(items), it) = Problems(items)
      BY <1>4, <3>2, AddedProblem
    <3> QED
      BY <1>10, <3>3, <3>4, <3>5
  <2>2. CASE ~(b # <<>> \/ h \notin {Absent, ""})
    <3>1. Flushed(items, h, b) = items
      BY <2>2 DEF Flushed
    <3> QED
      BY <1>10, <3>1
  <2> QED
    BY <2>1, <2>2
<1> QED
  BY <1>4, <1>6, <1>8, <1>12

\* A line that is read adds a problem when it is one.
LEMMA LineCounted ==
    ASSUME NEW s \in CourseStates, NEW line \in CourseLines
    PROVE  /\ CourseReader[<<s, line>>] = ReadLine(s, line) /\ ReadLine(s, line) \in CourseStates
           /\ Problems(ReadLine(s, line).items) = Count(Problems(s.items), line)
<1>1. CourseReader[<<s, line>>] = ReadLine(s, line) /\ ReadLine(s, line) \in CourseStates
  BY ReadLineType, CourseReaderReads
<1>2. PICK items \in Seq(Blocks), h \in Headings, buf \in Seq(BodyLines) : s = Course(items, h, buf)
  BY CourseParts
<1>3. s.items = items /\ s.heading = h /\ s.buf = buf
  BY <1>2, CourseChanges
<1>4. PICK all : all = Flushed(items, h, TrimBody(buf))
  OBVIOUS
<1>5. all = Put1(s)
  BY <1>3, <1>4 DEF Put1
<1>6. all \in Seq(Blocks)
  BY <1>5, PutAway
<1>7. Problems(all) = Problems(items)
  BY <1>3, <1>5, FlushedProblems
<1>11. \A i, head, lines : Course(i, head, lines).items = i
  BY CourseChanges
<1>12. \A i \in Seq(Blocks) :
        Problems(Append(i, ProblemItem)) = Append(Problems(i), ProblemItem)
  BY FlushedProblems
<1>13. BeginsItem(s, all)
  BY <1>2, <1>4, ReadInCourse
<1>8. CASE line = "problem"
  <2>1. ReadLine(s, line) = Course(Append(all, ProblemItem), Absent, <<>>)
    BY <1>8, <1>13 DEF BeginsItem
  <2>2. ReadLine(s, line).items = Append(all, ProblemItem)
    BY <1>11, <2>1
  <2>3. Problems(Append(all, ProblemItem)) = Append(Problems(all), ProblemItem)
    BY <1>6, <1>12
  <2>4. Count(Problems(items), line) = Append(Problems(items), ProblemItem)
    BY <1>8 DEF Count
  <2> QED
    BY <1>1, <1>3, <1>7, <2>2, <2>3, <2>4
<1>9. CASE line \in {"misspelt", "head", "untitled"}
  <2>1. \E head : ReadLine(s, line) = Course(all, head, <<>>)
    BY <1>9, <1>13 DEF BeginsItem
  <2>2. ReadLine(s, line).items = all
    BY <1>11, <2>1
  <2>3. Count(Problems(items), line) = Problems(items)
    BY <1>9 DEF Count
  <2> QED
    BY <1>1, <1>3, <1>7, <2>2, <2>3
<1>10. CASE line \in BodyLines
  <2>1. ReadLine(s, line) = Course(items, h, Append(buf, line))
    BY <1>2, <1>10, ReadInCourse
  <2>2. ReadLine(s, line).items = items
    BY <2>1, CourseChanges
  <2>3. line # "problem"
    BY <1>10, LinesOfCourses
  <2>4. Count(Problems(items), line) = Problems(items)
    BY <2>3 DEF Count
  <2> QED
    BY <1>1, <1>3, <2>2, <2>4
<1> QED
  BY <1>8, <1>9, <1>10, LinesOfCourses

LEMMA ProblemsCounted ==
    ASSUME NEW lines \in Seq(CourseLines)
    PROVE  Problems(ParseCourseMarkdown(lines)) = Reads(CountReader, <<>>, lines)
<1>1. PICK none : none = <<>>
  OBVIOUS
<1>2. none \in ProblemList /\ none \in Seq(Blocks)
  BY <1>1, EmptySeq DEF ProblemList
<1>3. Reader(ProblemList, CourseLines, CountReader, none)
  BY <1>2, CountReaderReads
<1>4. PICK start : start = Start
  OBVIOUS
<1>5. start \in CourseStates /\ Reader(CourseStates, CourseLines, CourseReader, start)
  BY <1>4, StartState, CourseReaderReads
<1>6. PICK R : R = {p \in CourseStates \X ProblemList : Problems(p[1].items) = p[2]}
  OBVIOUS
<1>7. \A s \in CourseStates, list \in ProblemList :
        <<s, list>> \in R <=> Problems(s.items) = list
  BY <1>6
<1>8. <<start, none>> \in R
  <2>1. start.items = none
    BY <1>1, <1>4, CourseChanges DEF Start
  <2>2. FoldLeft(AddProblem, none, none) = Reads(AddReader, none, none)
    BY <1>2, AddingReads
  <2>3. Reader(ProblemList, Blocks, AddReader, none)
    BY <1>2, AddReaderReads
  <2>4. Reads(AddReader, none, none) = none
    BY <1>1, <2>3, ReadsNone
  <2>5. Problems(none) = none
    BY <1>1, <2>2, <2>4 DEF Problems
  <2> QED
    BY <1>2, <1>5, <1>7, <2>1, <2>5
<1>9. ASSUME NEW s \in CourseStates, NEW list \in ProblemList, NEW line \in CourseLines,
             <<s, list>> \in R
      PROVE  <<CourseReader[<<s, line>>], CountReader[<<list, line>>]>> \in R
  <2>1. CourseReader[<<s, line>>] = ReadLine(s, line) /\ ReadLine(s, line) \in CourseStates
    BY LineCounted
  <2>2. Problems(ReadLine(s, line).items) = Count(Problems(s.items), line)
    BY LineCounted
  <2>3. CountReader[<<list, line>>] = Count(list, line) /\ Count(list, line) \in ProblemList
    BY <1>2, CountReaderReads
  <2>4. Problems(s.items) = list
    BY <1>7, <1>9
  <2> QED
    BY <1>7, <2>1, <2>2, <2>3, <2>4
<1>10. Relates(CourseStates, ProblemList, CourseLines, CourseReader, CountReader, R)
  BY <1>9 DEF Relates
<1>11. <<Reads(CourseReader, start, lines), Reads(CountReader, none, lines)>> \in R
  BY <1>3, <1>5, <1>8, <1>10, ReadsRelate
<1>12. Reads(CountReader, none, lines) \in ProblemList
  BY <1>3, ReadsIs
<1>13. PICK s \in CourseStates : s = Reads(CourseReader, start, lines)
  BY <1>4, ParseIs
<1>14. ParseCourseMarkdown(lines) = Put1(s)
  BY <1>4, <1>13, ParseIs
<1>15. Problems(Put1(s)) = Problems(s.items)
  BY FlushedProblems
<1>16. Problems(s.items) = Reads(CountReader, none, lines)
  BY <1>7, <1>11, <1>12, <1>13
<1> QED
  BY <1>1, <1>14, <1>15, <1>16

\* A course does not lose a problem when it is written and read again.
LEMMA ProblemsSurvive ==
    ASSUME NEW items \in Seq(Blocks)
    PROVE  Problems(ParseCourseMarkdown(SerializeCourseMarkdown(items))) = Problems(items)
<1>1. PICK none : none = <<>>
  OBVIOUS
<1>2. none \in ProblemList
  BY <1>1, EmptySeq DEF ProblemList
<1>3. Reader(ProblemList, CourseLines, CountReader, none)
  BY <1>2, CountReaderReads
<1>4. Reader(ProblemList, Blocks, AddReader, none)
  BY <1>2, AddReaderReads
<1>5. PICK pieces : pieces = Pieces(items)
  OBVIOUS
<1>6. pieces \in Seq(Seq(CourseLines)) /\ Len(pieces) = Len(items)
  BY <1>5, PiecesTyped
<1>7. PICK lines : lines = FlattenSeq(pieces)
  OBVIOUS
<1>8. /\ lines \in Seq(CourseLines)
      /\ ParseCourseMarkdown(SerializeCourseMarkdown(items)) = ParseCourseMarkdown(lines)
  BY <1>5, <1>7, ParseWritten
<1>9. PICK parts : parts = PartReader(ProblemList, CourseLines, CountReader)
  OBVIOUS
<1>10. Reads(CountReader, none, lines) = Reads(parts, none, pieces)
  BY <1>3, <1>6, <1>7, <1>9, ReadsParts
<1>11. Reader(ProblemList, Seq(CourseLines), parts, none)
  BY <1>3, <1>9, PartReaderReads
<1>12. PICK R : R = Same(ProblemList)
  OBVIOUS
<1>13. \A a \in ProblemList, b \in ProblemList : <<a, b>> \in R <=> a = b
  BY <1>12 DEF Same
<1>14. ASSUME NEW i \in 1..Len(pieces), NEW a \in ProblemList
       PROVE  parts[<<a, pieces[i]>>] = AddReader[<<a, items[i]>>]
  <2>1. PICK it \in Blocks : it = items[i]
    BY <1>6
  <2>2. PICK w : w = WriteItem(it)
    OBVIOUS
  <2>3. w \in Seq(CourseLines) /\ pieces[i] = w
    BY <1>5, <1>6, <2>1, <2>2, PiecesTyped, ItemLinesTyped
  <2>4. parts[<<a, w>>] = Reads(CountReader, a, w)
    BY <1>9, <2>3 DEF PartReader
  <2>5. Reader(ProblemList, CourseLines, CountReader, a)
    BY CountReaderReads
  <2>6. AddReader[<<a, it>>] = AddProblem(a, it)
    BY AddReaderReads
  <2>7. CASE it.kind = "problem"
    <3>1. PICK line \in CourseLines : line = "problem"
      BY DEF CourseLines
    <3>2. w = <<line>>
      BY <2>2, <2>7, <3>1, ItemLines
    <3>3. Reads(CountReader, a, <<line>>) = CountReader[<<a, line>>]
      BY <2>5, ReadsFew
    <3>4. CountReader[<<a, line>>] = Append(a, ProblemItem)
      BY <3>1, CountReaderReads DEF Count
    <3>5. AddProblem(a, it) = Append(a, ProblemItem)
      BY <2>7, AddedProblem
    <3> QED
      BY <2>1, <2>3, <2>4, <2>6, <3>2, <3>3, <3>4, <3>5
  <2>8. CASE it.kind = "text"
    <3>1. w \in Seq(Written)
      BY <2>2, <2>8, ItemLines
    <3>2. \A j \in 1..Len(w) : w[j] # "problem"
      BY <3>1 DEF Written
    <3>3. PICK good : good = {a}
      OBVIOUS
    <3>4. \A j \in 1..Len(w), b \in ProblemList : b \in good => CountReader[<<b, w[j]>>] \in good
      <4> SUFFICES ASSUME NEW j \in 1..Len(w) PROVE CountReader[<<a, w[j]>>] = a
        BY <3>3
      <4>1. PICK line \in CourseLines : line = w[j] /\ line # "problem"
        BY <2>3, <3>2
      <4> QED
        BY <4>1, CountReaderReads DEF Count
    <3>5. Reads(CountReader, a, w) \in good
      BY <2>3, <2>5, <3>3, <3>4, ReadsKeep
    <3>6. AddProblem(a, it) = a
      BY <2>8, AddedProblem
    <3> QED
      BY <2>1, <2>3, <2>4, <2>6, <3>3, <3>5, <3>6
  <2>9. it.kind \in {"text", "problem"}
    BY DEF Blocks
  <2> QED
    BY <2>7, <2>8, <2>9
<1>15. ASSUME NEW i \in 1..Len(pieces), NEW a \in ProblemList, NEW b \in ProblemList, <<a, b>> \in R
       PROVE  <<parts[<<a, pieces[i]>>], AddReader[<<b, items[i]>>]>> \in R
  <2>1. a = b
    BY <1>13, <1>15
  <2>2. parts[<<a, pieces[i]>>] = AddReader[<<a, items[i]>>]
    BY <1>14
  <2>3. PICK it \in Blocks : it = items[i]
    BY <1>6
  <2>4. AddReader[<<a, it>>] \in ProblemList
    BY AddReaderReads, AddedProblem
  <2> QED
    BY <1>13, <2>1, <2>2, <2>3, <2>4
<1>16. RelatesAt(ProblemList, ProblemList, Seq(CourseLines), Blocks, parts, AddReader, R,
                 pieces, items)
  BY <1>6, <1>15 DEF RelatesAt
<1>17. <<none, none>> \in R
  BY <1>2, <1>13
<1>18. <<Reads(parts, none, pieces), Reads(AddReader, none, items)>> \in R
  BY <1>4, <1>6, <1>11, <1>16, <1>17, ReadsRelateAt
<1>19. Reads(parts, none, pieces) \in ProblemList /\ Reads(AddReader, none, items) \in ProblemList
  BY <1>4, <1>6, <1>11, ReadsIs
<1>20. Reads(parts, none, pieces) = Reads(AddReader, none, items)
  BY <1>13, <1>18, <1>19
<1>21. Problems(items) = Reads(AddReader, none, items)
  <2>1. FoldLeft(AddProblem, none, items) = Reads(AddReader, none, items)
    BY <1>2, AddingReads
  <2> QED
    BY <1>1, <2>1 DEF Problems
<1>22. Problems(ParseCourseMarkdown(lines)) = Reads(CountReader, none, lines)
  BY <1>1, <1>8, ProblemsCounted
<1> QED
  BY <1>8, <1>10, <1>20, <1>21, <1>22

LEMMA NoBody ==
    /\ TrimBody(<<>>) = <<>>
    /\ \A items : Put1(Course(items, Absent, <<>>)) = items
<1>1. PICK none : none = <<>>
  OBVIOUS
<1>2. DOMAIN none = {}
  BY <1>1
<1>3. Kept(none, BlankLines1) = {}
  BY <1>2 DEF Kept
<1>4. DropLast(none, BlankLines1) = none
  BY <1>1, <1>3 DEF DropLast
<1>5. DropFirst(none, BlankLines1) = none
  BY <1>1, <1>3 DEF DropFirst
<1>6. TrimBody(none) = none
  BY <1>1, <1>4, <1>5 DEF TrimBody, BlankLines1
<1>7. ASSUME NEW items PROVE Put1(Course(items, Absent, none)) = items
  <2>1. Put1(Course(items, Absent, none)) = Flushed(items, Absent, none)
    BY <1>6, CourseChanges DEF Put1
  <2> QED
    BY <1>1, <2>1 DEF Flushed
<1> QED
  BY <1>1, <1>6, <1>7

\* A text is read back from the lines it is written as.
TextOpen(items, h, lead, b, s) ==
    /\ items \in Seq(Blocks) /\ h \in Headings
    /\ lead \in Seq(BodyLines) /\ lead \in Seq(BlankLines1)
    /\ PlainBody(b) /\ s = Course(items, h, lead)

LEMMA TextReadBack ==
    ASSUME NEW items, NEW h, NEW lead, NEW b, NEW s, TextOpen(items, h, lead, b, s),
           NEW t, t = Reads(CourseReader, s, TextLines(b))
    PROVE  Put1(t) = Flushed(items, h, b)
<1>0. /\ items \in Seq(Blocks) /\ h \in Headings
      /\ lead \in Seq(BodyLines) /\ lead \in Seq(BlankLines1)
      /\ PlainBody(b) /\ s = Course(items, h, lead)
  BY DEF TextOpen
<1>1. b \in Seq(BodyLines)
  BY <1>0, PlainBodyLines
<1>2. PICK trail : trail = IF b = <<>> THEN <<>> ELSE <<"blank">>
  OBVIOUS
<1>3. trail \in Seq(BodyLines) /\ trail \in Seq(BlankLines1)
  <2>1. PICK none : none = <<>>
    OBVIOUS
  <2>2. none \in Seq(BodyLines) /\ none \in Seq(BlankLines1)
    BY <2>1, EmptySeq
  <2>3. PICK single : single = <<"blank">>
    OBVIOUS
  <2>4. single \in Seq(BodyLines) /\ single \in Seq(BlankLines1)
    BY <2>3 DEF BodyLines, BlankLines1
  <2> QED
    BY <1>2, <2>1, <2>2, <2>3, <2>4
<1>4. TextLines(b) = b \o trail
  <2>1. CASE b = <<>>
    <3>1. b \o <<>> = b
      BY <1>1, ConcatEmptySeq
    <3> QED
      BY <1>2, <2>1, <3>1 DEF TextLines
  <2>2. CASE b # <<>>
    <3>1. "blank" \in BodyLines
      BY DEF BodyLines
    <3>2. Append(b, "blank") = b \o <<"blank">>
      BY <1>1, <3>1, AppendIsConcat
    <3> QED
      BY <1>2, <2>2, <3>2 DEF TextLines
  <2> QED
    BY <2>1, <2>2
<1>5. PICK y : y = b \o trail
  OBVIOUS
<1>6. y \in Seq(BodyLines)
  BY <1>1, <1>3, <1>5, ConcatProperties
<1>7. PICK buf : buf = lead \o y
  OBVIOUS
<1>9. t = Course(items, h, buf)
  <2>1. Reads(CourseReader, Course(items, h, lead), y) = Course(items, h, lead \o y)
    BY <1>0, <1>6, ReadsBody
  <2> QED
    BY <1>0, <1>4, <1>5, <1>7, <2>1
<1>10. buf = (lead \o b) \o trail
  <2>1. (lead \o b) \o trail = lead \o (b \o trail)
    BY <1>0, <1>1, <1>3, ConcatAssociative
  <2> QED
    BY <1>5, <1>7, <2>1
<1>11. TrimBody(buf) = b
  BY <1>0, <1>3, <1>10, BodyReadBack
<1> QED
  BY <1>9, <1>11, CourseChanges DEF Put1

LEMMA WrittenLines ==
    ASSUME NEW w \in Seq(Written)
    PROVE  w \in Seq(CourseLines)
<1>1. \A i \in 1..Len(w) : w[i] \in CourseLines
  BY DEF Written, CourseLines
<1> QED
  BY <1>1

\* Whether an item that is written behind s is read as an item of its own.
StandsAlone(s, it) ==
    it.kind = "text" =>
        /\ it.heading # "" /\ PlainBody(it.body)
        /\ it.heading = Absent => s = Course(s.items, Absent, <<>>)

LEMMA ItemReadBack ==
    ASSUME NEW s \in CourseStates, NEW it \in Blocks, StandsAlone(s, it),
           NEW t, t = Reads(CourseReader, s, WriteItem(it))
    PROVE  /\ t \in CourseStates /\ Put1(t) = Append(Put1(s), it)
           /\ it.kind = "problem" => t = Course(Append(Put1(s), it), Absent, <<>>)
<1>1. PICK items \in Seq(Blocks), h \in Headings, buf \in Seq(BodyLines) : s = Course(items, h, buf)
  BY CourseParts
<1>2. s.items = items /\ s.heading = h /\ s.buf = buf
  BY <1>1, CourseChanges
<1>3. PICK all : all = Put1(s)
  OBVIOUS
<1>4. all = Flushed(items, h, TrimBody(buf))
  BY <1>2, <1>3 DEF Put1
<1>5. all \in Seq(Blocks)
  BY <1>3, PutAway
<1>6. BeginsItem(s, all)
  BY <1>1, <1>4, ReadInCourse
<1>7. Reader(CourseStates, CourseLines, CourseReader, s)
  BY CourseReaderReads
<1>8. PICK w : w = WriteItem(it)
  OBVIOUS
<1>9. w \in Seq(CourseLines)
  BY <1>8, ItemLinesTyped
<1>10. t \in CourseStates
  BY <1>7, <1>8, <1>9, ReadsIs
<1>11. PICK none : none = <<>>
  OBVIOUS
<1>12. none \in Seq(BodyLines) /\ none \in Seq(BlankLines1)
  BY <1>11, EmptySeq
<1>13. CASE it.kind = "problem"
  <2>1. PICK line \in CourseLines : line = "problem"
    BY DEF CourseLines
  <2>2. w = <<line>>
    BY <1>8, <1>13, <2>1, ItemLines
  <2>3. Reads(CourseReader, s, <<line>>) = CourseReader[<<s, line>>]
    BY <1>7, ReadsFew
  <2>4. CourseReader[<<s, line>>] = ReadLine(s, line)
    BY CourseReaderReads
  <2>5. it = ProblemItem
    BY <1>13 DEF Blocks, IsItem
  <2>6. ReadLine(s, line) = Course(Append(all, it), Absent, <<>>)
    BY <1>6, <2>1, <2>5 DEF BeginsItem
  <2>7. t = Course(Append(all, it), Absent, <<>>)
    BY <1>8, <2>2, <2>3, <2>4, <2>6
  <2>8. Put1(t) = Append(all, it)
    BY <2>7, NoBody
  <2> QED
    BY <1>3, <1>10, <2>7, <2>8
<1>14. CASE it.kind = "text"
  <2>1. PICK b : b = it.body
    OBVIOUS
  <2>2. PICK head \in Headings : head = it.heading
    BY DEF Blocks
  <2>3. it = TextItem(head, b)
    BY <1>14, <2>1, <2>2 DEF Blocks, TextItem
  <2>4. head # "" /\ PlainBody(b) /\ (head = Absent => s = Course(items, Absent, <<>>))
    BY <1>2, <1>14, <2>1, <2>2 DEF StandsAlone
  <2>5. PICK y : y = TextLines(b)
    OBVIOUS
  <2>6. PICK x : x = HeadingLines(head)
    OBVIOUS
  <2>7. w = x \o y /\ x \in Seq(Written) /\ y \in Seq(Written)
    BY <1>8, <1>14, <2>1, <2>2, <2>5, <2>6, ItemLines
  <2>8. CASE head = Absent
    <3>1. x = none
      BY <1>11, <2>6, <2>8 DEF HeadingLines
    <3>2. w = y
      BY <1>11, <2>7, <3>1, ConcatEmptySeq
    <3>3. s = Course(items, Absent, none)
      BY <1>11, <2>4, <2>8
    <3>4. t = Reads(CourseReader, s, TextLines(b))
      BY <1>8, <2>5, <3>2
    <3>9. TextOpen(items, head, none, b, s)
      BY <1>12, <2>4, <2>8, <3>3 DEF TextOpen
    <3>5. Put1(t) = Flushed(items, head, b)
      BY <3>4, <3>9, TextReadBack
    <3>6. b # <<>>
      BY <1>14, <2>1, <2>2, <2>8, Headed DEF Blocks, IsItem
    <3>7. Put1(t) = Append(items, it)
      BY <2>3, <3>5, <3>6 DEF Flushed
    <3>8. all = items
      BY <1>3, <1>11, <3>3, NoBody
    <3> QED
      BY <1>3, <1>10, <1>14, <3>7, <3>8
  <2>9. CASE head # Absent
    <3>1. head = "h" /\ head \notin {Absent, ""}
      BY <2>4, <2>9, Headed
    <3>2. PICK c, d : c = "head" /\ d = "blank"
      OBVIOUS
    <3>3. c \in CourseLines /\ d \in CourseLines /\ d \in BodyLines /\ d \in BlankLines1
      BY <3>2 DEF CourseLines, BodyLines, BlankLines1
    <3>4. x = <<c, d>>
      BY <2>6, <3>1, <3>2 DEF HeadingLines
    <3>5. Reads(CourseReader, s, x) = CourseReader[<<CourseReader[<<s, c>>], d>>]
      BY <1>7, <3>3, <3>4, ReadsFew
    <3>6. CourseReader[<<s, c>>] = Course(all, head, none)
      <4>1. CourseReader[<<s, c>>] = ReadLine(s, c)
        BY <3>3, CourseReaderReads
      <4>2. ReadLine(s, c) = Course(all, head, none)
        BY <1>6, <1>11, <3>1, <3>2 DEF BeginsItem
      <4> QED
        BY <4>1, <4>2
    <3>7. PICK u : u = Course(all, head, none)
      OBVIOUS
    <3>8. u \in CourseStates
      BY <1>5, <1>12, <3>7, CourseParts
    <3>9. PICK lead : lead = Append(none, d)
      OBVIOUS
    <3>10. lead \in Seq(BodyLines) /\ lead \in Seq(BlankLines1)
      BY <1>12, <3>3, <3>9, AppendProperties
    <3>11. CourseReader[<<u, d>>] = Course(all, head, lead)
      <4>1. CourseReader[<<u, d>>] = ReadLine(u, d)
        BY <3>3, <3>8, CourseReaderReads
      <4>2. ReadLine(u, d) = Course(all, head, lead)
        BY <1>5, <1>12, <3>3, <3>7, <3>9, ReadInCourse
      <4> QED
        BY <4>1, <4>2
    <3>12. PICK v : v = Course(all, head, lead)
      OBVIOUS
    <3>13. Reads(CourseReader, s, x) = v
      BY <3>5, <3>6, <3>7, <3>11, <3>12
    <3>14. x \in Seq(CourseLines) /\ y \in Seq(CourseLines)
      BY <2>7, WrittenLines
    <3>15. Reads(CourseReader, s, x \o y) = Reads(CourseReader, v, y)
      BY <1>7, <3>13, <3>14, ReadsOn
    <3>16. t = Reads(CourseReader, v, TextLines(b))
      BY <1>8, <2>5, <2>7, <3>15
    <3>19. TextOpen(all, head, lead, b, v)
      BY <1>5, <2>4, <3>10, <3>12 DEF TextOpen
    <3>17. Put1(t) = Flushed(all, head, b)
      BY <3>16, <3>19, TextReadBack
    <3>18. Put1(t) = Append(all, it)
      BY <2>3, <3>1, <3>17 DEF Flushed
    <3> QED
      BY <1>3, <1>10, <1>14, <3>18
  <2> QED
    BY <2>8, <2>9
<1>15. it.kind \in {"text", "problem"}
  BY DEF Blocks
<1> QED
  BY <1>13, <1>14, <1>15

\* The items that were told apart are read back one by one.
ItemsSoFar(items, i, s) ==
    /\ Put1(s) = SubSeq(items, 1, i)
    /\ i = 0 \/ items[i].kind = "problem" => s = Course(s.items, Absent, <<>>)

LEMMA ItemsReadBack ==
    ASSUME NEW items \in Seq(Blocks), ToldApart(items)
    PROVE  ParseCourseMarkdown(SerializeCourseMarkdown(items)) = items
<1>1. PICK n \in Nat : n = Len(items) /\ DOMAIN items = 1..n /\ \A i \in 1..n : items[i] \in Blocks
  OBVIOUS
<1>2. PICK pieces : pieces = Pieces(items)
  OBVIOUS
<1>3. pieces \in Seq(Seq(CourseLines)) /\ Len(pieces) = n
  BY <1>1, <1>2, PiecesTyped
<1>4. \A i \in 1..n : pieces[i] = WriteItem(items[i])
  BY <1>1, <1>2, PiecesTyped
<1>5. PICK start : start = Start
  OBVIOUS
<1>6. Reader(CourseStates, Seq(CourseLines), CoursePart, start)
  BY <1>5, CoursePartReads
<1>7. PICK g : Reading(CoursePart, start, pieces, g)
               /\ g[Len(pieces)] = Reads(CoursePart, start, pieces)
  BY <1>3, <1>6, ReadsIs
<1>8. \A i \in 0..n : g[i] \in CourseStates
  BY <1>3, <1>6, <1>7, ReadingTyped
<1>9. PICK N : N = {i \in Nat : i <= n => ItemsSoFar(items, i, g[i])}
  OBVIOUS
<1>10. ItemsSoFar(items, 0, start)
  <2>1. start = Course(<<>>, Absent, <<>>)
    BY <1>5 DEF Start
  <2>2. Put1(start) = <<>> /\ start.items = <<>>
    BY <2>1, NoBody, CourseChanges
  <2>3. SubSeq(items, 1, 0) = <<>>
    BY SubSeqEmpty
  <2> QED
    BY <2>1, <2>2, <2>3 DEF ItemsSoFar
<1>11. 0 \in N
  BY <1>7, <1>9, <1>10 DEF Reading
<1>12. ASSUME NEW i \in Nat, i \in N PROVE i + 1 \in N
  <2>1. SUFFICES ASSUME i + 1 <= n PROVE ItemsSoFar(items, i + 1, g[i + 1])
    BY <1>9
  <2>2. PICK j : j = i + 1
    OBVIOUS
  <2>3. j \in 1..n /\ j - 1 = i /\ i <= n /\ i \in 0..n
    BY <2>1, <2>2
  <2>4. PICK s \in CourseStates : s = g[i]
    BY <1>8, <2>3
  <2>5. ItemsSoFar(items, i, s)
    BY <1>9, <1>12, <2>3, <2>4
  <2>6. PICK it \in Blocks : it = items[j]
    BY <1>1, <2>3
  <2>7. PICK t : t = Reads(CourseReader, s, WriteItem(it))
    OBVIOUS
  <2>8. g[j] = t
    <3>1. g[j] = CoursePart[<<s, pieces[j]>>]
      BY <1>3, <1>7, <2>3, <2>4 DEF Reading
    <3>2. PICK w \in Seq(CourseLines) : w = pieces[j] /\ w = WriteItem(it)
      BY <1>3, <1>4, <2>3, <2>6
    <3>3. CoursePart[<<s, w>>] = Reads(CourseReader, s, w)
      BY CoursePartReads
    <3> QED
      BY <2>7, <3>1, <3>2, <3>3
  <2>9. StandsAlone(s, it)
    <3> SUFFICES ASSUME it.kind = "text"
                 PROVE  /\ it.heading # "" /\ PlainBody(it.body)
                        /\ it.heading = Absent => s = Course(s.items, Absent, <<>>)
      BY DEF StandsAlone
    <3>1. it.heading # "" /\ (it.body # <<>> => it.body[1] # "head")
      BY <1>1, <2>3, <2>6 DEF ToldApart
    <3>2. IsBody(it.body)
      BY DEF Blocks, IsItem
    <3>3. PlainBody(it.body)
      BY <3>1, <3>2 DEF PlainBody
    <3>4. ASSUME it.heading = Absent PROVE i = 0 \/ items[i].kind = "problem"
      <4>1. SUFFICES ASSUME i # 0 PROVE items[i].kind = "problem"
        OBVIOUS
      <4>2. j > 1
        BY <2>2, <4>1
      <4>3. items[j - 1].kind = "problem"
        BY <1>1, <2>3, <2>6, <3>4, <4>2 DEF ToldApart
      <4> QED
        BY <2>3, <4>3
    <3> QED
      BY <2>5, <3>1, <3>3, <3>4 DEF ItemsSoFar
  <2>10. /\ Put1(t) = Append(Put1(s), it)
         /\ it.kind = "problem" => t = Course(Append(Put1(s), it), Absent, <<>>)
    BY <2>7, <2>9, ItemReadBack
  <2>11. Append(SubSeq(items, 1, i), it) = SubSeq(items, 1, j)
    BY <1>1, <2>3, <2>6, OneLonger
  <2>12. Put1(t) = SubSeq(items, 1, j)
    BY <2>5, <2>10, <2>11 DEF ItemsSoFar
  <2>13. it.kind = "problem" => t = Course(t.items, Absent, <<>>)
    BY <2>10, CourseChanges
  <2>14. ItemsSoFar(items, j, t)
    BY <2>3, <2>6, <2>12, <2>13 DEF ItemsSoFar
  <2> QED
    BY <2>2, <2>8, <2>14
<1>13. n \in N
  BY <1>11, <1>12, Induction
<1>14. ItemsSoFar(items, n, g[n])
  BY <1>9, <1>13
<1>15. Put1(g[n]) = items
  BY <1>1, <1>14, SubSeqFull DEF ItemsSoFar
<1>16. PICK lines : lines = FlattenSeq(pieces)
  OBVIOUS
<1>17. /\ lines \in Seq(CourseLines)
       /\ ParseCourseMarkdown(SerializeCourseMarkdown(items)) = ParseCourseMarkdown(lines)
       /\ Reads(CourseReader, start, lines) = Reads(CoursePart, start, pieces)
  BY <1>2, <1>5, <1>16, ParseWritten
<1>18. ParseCourseMarkdown(lines) = Put1(g[n])
  BY <1>3, <1>5, <1>7, <1>17, ParseIs
<1> QED
  BY <1>15, <1>17, <1>18

LEMMA CourseComesBack ==
    ASSUME about = "course" => one \in Seq(CourseLines)
    PROVE  CourseSurvives
<1>1. SUFFICES ASSUME about = "course"
               PROVE  LET items == ParseCourseMarkdown(one)
                          again == ParseCourseMarkdown(SerializeCourseMarkdown(items))
                      IN  /\ ToldApart(items) => again = items
                          /\ Problems(again) = Problems(items)
  BY DEF CourseSurvives
<1>2. PICK items : items = ParseCourseMarkdown(one)
  OBVIOUS
<1>3. items \in Seq(Blocks)
  BY <1>1, <1>2, ParseIs
<1>4. ToldApart(items) => ParseCourseMarkdown(SerializeCourseMarkdown(items)) = items
  BY <1>3, ItemsReadBack
<1>5. Problems(ParseCourseMarkdown(SerializeCourseMarkdown(items))) = Problems(items)
  BY <1>3, ProblemsSurvive
<1> QED
  BY <1>2, <1>4, <1>5

\* Whatever is written, in any length: what is right to the letter is right when it is
\* trimmed, and then token by token, and an answer is graded no harder than an output
\* (CheckersNest: checker.ts, problemkind.ts); filled blanks, class lists, problems and
\* drawings come back as they were written, and so do the courses whose items can be told
\* apart in a file, while none loses a problem (FormatsSound: problemkind.ts, roster.ts,
\* bulk.ts, svgshapes.ts).
THEOREM FormatsIsSound == FormatsSpec => []FormatsSound
<1>1. InitFormats => FormatsInv
  BY FormatsStarts
<1>2. FormatsInv /\ [NextFormats]_formatsVars => FormatsInv'
  BY FormatsGoesOn
<1>3. FormatsInv => FormatsSound
  <2> SUFFICES ASSUME FormatsInv PROVE FormatsSound
    OBVIOUS
  <2>1. CheckersNest
    BY CheckersAreNested DEF FormatsInv
  <2>2. BlanksFit
    BY BlanksAreFilled
  <2>3. RosterKept
    BY RosterIsKept DEF FormatsInv
  <2>4. CourseSurvives
    BY CourseComesBack DEF FormatsInv
  <2>5. ProblemKept
    BY ProblemsKept DEF FormatsInv
  <2>6. DrawingKept
    BY DrawingsKept DEF FormatsInv
  <2> QED
    BY <2>1, <2>2, <2>3, <2>4, <2>5, <2>6 DEF FormatsSound
<1> QED
  BY <1>1, <1>2, <1>3, PTL DEF FormatsSpec
=============================================================================
