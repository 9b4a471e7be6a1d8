--------------------------- MODULE GradingProofs ---------------------------
(***************************************************************************)
(* Proofs about Grading and the test case store below it: rows and files   *)
(* agree where no edit went wrong, a verdict of the present version is one *)
(* of the present bodies, and the counters are what counting gives.        *)
(***************************************************************************)
EXTENDS Grading, FiniteSetTheorems, TLAPS

-----------------------------------------------------------------------------
(* The store. What an edit has to keep concerns one problem at a time: an  *)
(* edit that is alone has the whole directory in its hands, and a problem  *)
(* that nobody edits and that is not torn is in order.                     *)

EditRequest ==
    [id : Nat, kind : {"put", "import", "delete"}, problem : Problem,
     list : Lists \cup {<<>>}, step : {"clear", "write", "remove"},
     hashes : Seq(Body), alone : BOOLEAN]

\* Files that hold these bodies and nothing else.
Holding(bodies) == [i \in Idx |-> IF i \in DOMAIN bodies THEN bodies[i] ELSE None]

StoreTyped ==
    /\ life \in [Problem -> {"new", "here", "gone"}]
    /\ rows \in [Problem -> Seq(Body)] /\ files \in [Problem -> [Idx -> Body \cup {None}]]
    /\ version \in [Problem -> Nat] /\ edition \in [Problem -> Nat]
    /\ edits \subseteq EditRequest /\ edited \in Nat

EditShaped(e) ==
    /\ Len(e.hashes) <= Len(e.list) /\ Len(e.list) <= MaxLen
    /\ e.kind = "put" => e.step \in {"clear", "write"}
    /\ e.kind = "import" => e.step = "write"
    /\ e.kind = "delete" => e.step = "remove" /\ life[e.problem] = "gone"
    /\ e.step = "clear" => e.hashes = <<>>

AloneInOrder(e) ==
    /\ EditsOf(e.problem) = {e}
    /\ e.step = "write" => files[e.problem] = Holding(e.hashes)
    /\ e.kind = "import" => rows[e.problem] = <<>> /\ e.problem \notin torn

ProblemInOrder(p) ==
    /\ Len(rows[p]) <= MaxLen
    /\ 1 <= version[p] /\ version[p] <= edition[p]
    /\ life[p] = "new" => ~Meets(p) /\ p \notin torn
    /\ life[p] # "here" => rows[p] = <<>>
    /\ ~Meets(p) /\ p \notin torn => files[p] = Holding(rows[p])

Orderly(p) ==
    /\ \A e \in EditsOf(p) : EditShaped(e) /\ (e.alone => AloneInOrder(e))
    /\ ProblemInOrder(p)

StoreInv == StoreTyped /\ \A p \in Problem : Orderly(p)

\* A problem is dirty when its files need not be those of its rows and may be read. An
\* import that is alone writes the files of a problem that has no rows yet.
Dirty(p) == p \in torn \/ \E e \in EditsOf(p) : e.kind # "import" \/ ~e.alone

\* What any step does to a problem, as far as those who grade can tell.
Effect(p) ==
    /\ \/ life'[p] = life[p]
       \/ life[p] = "new" /\ life'[p] = "here"
       \/ life[p] = "here" /\ life'[p] = "gone"
    /\ version[p] <= version'[p] /\ edition[p] <= edition'[p]
    /\ edition'[p] = edition[p] =>
         version'[p] = version[p] /\ (rows'[p] = rows[p] \/ life'[p] = "gone")
    /\ edition'[p] # edition[p] => rows[p] = <<>> \/ version'[p] # version[p]
    /\ Dirty(p) /\ ~Dirty(p)' /\ life'[p] = "here" =>
         version'[p] # version[p] /\ edition'[p] # edition[p]

Untouched(p) ==
    /\ life'[p] = life[p] /\ rows'[p] = rows[p] /\ files'[p] = files[p]
    /\ version'[p] = version[p] /\ edition'[p] = edition[p]
    /\ p \in torn' <=> p \in torn
    /\ EditsOf(p)' = EditsOf(p)

LEMMA MaxLenFacts ==
    /\ MaxLen \in Nat \ {0}
    /\ \A list \in Lists : Len(list) \in 1..MaxLen
<1> DEFINE S == {Len(list) : list \in Lists}
<1>1. PICK longest \in Lists : \A list \in Lists : Len(list) <= Len(longest)
  BY ListsAssumption
<1>2. \A list \in Lists : Len(list) \in Nat \ {0}
  BY ListsAssumption
<1>3. Len(longest) \in S /\ \A n \in S : Len(longest) >= n
  BY <1>1, <1>2
<1>4. \E x \in S : \A y \in S : x >= y
  BY <1>3
<1>5. Max(S) \in S /\ \A y \in S : Max(S) >= y
  BY <1>4, Zenon DEF Max
<1>6. MaxLen = Max(S)
  BY DEF MaxLen
<1> HIDE DEF S
<1>7. MaxLen \in S /\ \A y \in S : MaxLen >= y
  BY <1>5, <1>6
<1> QED
  BY <1>2, <1>7 DEF S

LEMMA HoldingType ==
    ASSUME NEW bodies \in Seq(Body)
    PROVE  Holding(bodies) \in [Idx -> Body \cup {None}]
BY DEF Holding

LEMMA HoldingNothing == Holding(<<>>) = NoFiles
BY DEF Holding, NoFiles

\* A file more.
LEMMA HoldingMore ==
    ASSUME NEW bodies \in Seq(Body), NEW body \in Body, Len(bodies) < MaxLen
    PROVE  Holding(Append(bodies, body)) = [Holding(bodies) EXCEPT ![Len(bodies) + 1] = body]
<1> DEFINE longer == Append(bodies, body)
<1>1. /\ longer \in Seq(Body) /\ Len(longer) = Len(bodies) + 1
      /\ DOMAIN longer = 1..(Len(bodies) + 1) /\ DOMAIN bodies = 1..Len(bodies)
      /\ longer[Len(bodies) + 1] = body
      /\ \A i \in 1..Len(bodies) : longer[i] = bodies[i]
  OBVIOUS
<1> HIDE DEF longer
<1>2. Len(bodies) + 1 \in Idx /\ Idx \subseteq Nat /\ Len(bodies) \in Nat
  BY MaxLenFacts DEF Idx
<1>3. ASSUME NEW i \in Idx
      PROVE  Holding(longer)[i] = [Holding(bodies) EXCEPT ![Len(bodies) + 1] = body][i]
  <2>1. CASE i = Len(bodies) + 1
    BY <1>1, <1>2, <2>1 DEF Holding
  <2>2. CASE i # Len(bodies) + 1
    <3>1. i \in DOMAIN longer <=> i \in DOMAIN bodies
      BY <1>1, <1>2, <2>2
    <3> QED
      BY <1>1, <1>2, <2>2, <3>1 DEF Holding
  <2> QED
    BY <2>1, <2>2
<1> QED
  BY <1>3 DEF Holding, longer

LEMMA StoreSafe ==
    ASSUME StoreInv
    PROVE  StoreMatches
<1> SUFFICES ASSUME NEW p \in Problem, ~Meets(p), p \notin torn
             PROVE  files[p] = Listed(p) /\ ~CheckDataFinds(p) /\ Exported(p) = rows[p]
  BY DEF StoreMatches
<1>1. files[p] = Holding(rows[p]) /\ Len(rows[p]) <= MaxLen /\ rows[p] \in Seq(Body)
  BY DEF StoreInv, StoreTyped, Orderly, ProblemInOrder
<1>2. DOMAIN rows[p] \subseteq Idx /\ DOMAIN rows[p] = 1..Len(rows[p]) /\ Len(rows[p]) \in Nat
  BY <1>1, MaxLenFacts DEF Idx
<1>3. \A i \in DOMAIN rows[p] : files[p][i] = rows[p][i] /\ rows[p][i] # None
  BY <1>1, <1>2, ListsAssumption DEF Holding
<1>4. files[p] = Listed(p)
  BY <1>1 DEF Listed, Holding
<1>5. life[p] # "here" => files[p] = NoFiles
  BY <1>1, HoldingNothing DEF StoreInv, Orderly, ProblemInOrder
<1>6. Exported(p) = rows[p]
  <2>1. Exported(p) = [i \in DOMAIN rows[p] |-> rows[p][i]]
    BY <1>3 DEF Exported
  <2> QED
    BY <1>1, <2>1
<1> QED
  BY <1>3, <1>4, <1>5, <1>6 DEF CheckDataFinds

LEMMA UntouchedStays ==
    ASSUME StoreInv, NEW p \in Problem, Untouched(p)
    PROVE  Orderly(p)' /\ Effect(p)
<1>1. \A e \in EditsOf(p) : e.problem = p
  BY DEF EditsOf
<1>2. Meets(p)' <=> Meets(p)
  BY DEF Meets, Untouched
<1>3. ASSUME NEW e \in EditsOf(p) PROVE (EditShaped(e) <=> EditShaped(e)') /\ (AloneInOrder(e) <=> AloneInOrder(e)')
  BY <1>1 DEF EditShaped, AloneInOrder, Untouched
<1>4. ProblemInOrder(p)'
  BY <1>2 DEF ProblemInOrder, Untouched, StoreInv, Orderly
<1>5. Effect(p)
  BY DEF Effect, Untouched, StoreInv, StoreTyped, Dirty
<1> QED
  BY <1>3, <1>4, <1>5 DEF Untouched, StoreInv, Orderly

\* A step that touches no problem but one has to keep only that one in order.
LEMMA StoreKept ==
    ASSUME StoreInv, StoreTyped', NEW o \in Problem,
           \A p \in Problem \ {o} : Untouched(p),
           Orderly(o)', Effect(o)
    PROVE  StoreInv' /\ \A p \in Problem : Effect(p)
BY UntouchedStays DEF StoreInv

\* An edit goes on, and remains an edit of its problem.
LEMMA EditMoves ==
    ASSUME NEW e \in edits, NEW f, f.problem = e.problem,
           edits' = (edits \ {e}) \cup {f}
    PROVE  /\ EditsOf(e.problem)' = (EditsOf(e.problem) \ {e}) \cup {f}
           /\ \A p : p # e.problem => EditsOf(p)' = EditsOf(p)
           /\ e \in EditsOf(e.problem)
BY DEF EditsOf

LEMMA EditLeaves ==
    ASSUME NEW e \in edits, edits' = edits \ {e}
    PROVE  /\ EditsOf(e.problem)' = EditsOf(e.problem) \ {e}
           /\ \A p : p # e.problem => EditsOf(p)' = EditsOf(p)
           /\ e \in EditsOf(e.problem)
BY DEF EditsOf

LEMMA EditComes ==
    ASSUME StoreTyped, NEW e \in EditRequest, edits' = Joined(e)
    PROVE  /\ edits' \subseteq EditRequest
           /\ \A q : q # e.problem => EditsOf(q)' = EditsOf(q)
           /\ \A f \in EditsOf(e.problem)' :
                \/ f = [e EXCEPT !.alone = ~Meets(e.problem)]
                \/ \E d \in EditsOf(e.problem) : f = [d EXCEPT !.alone = FALSE]
           /\ [e EXCEPT !.alone = ~Meets(e.problem)] \in EditsOf(e.problem)'
           /\ \A d \in EditsOf(e.problem) : [d EXCEPT !.alone = FALSE] \in EditsOf(e.problem)'
<1> DEFINE f == [e EXCEPT !.alone = ~Meets(e.problem)]
           k(d) == IF d.problem = e.problem THEN [d EXCEPT !.alone = FALSE] ELSE d
<1>1. edits' = {k(d) : d \in edits} \cup {f}
  BY DEF Joined
<1>2. f \in EditRequest /\ f.problem = e.problem
  BY DEF EditRequest, Meets
<1>3. \A d \in edits : k(d) \in EditRequest /\ k(d).problem = d.problem
  BY DEF EditRequest, StoreTyped
<1>4. \A d \in edits : d.problem = e.problem => k(d) = [d EXCEPT !.alone = FALSE]
  OBVIOUS
<1>5. \A d \in edits : d.problem # e.problem => k(d) = d
  OBVIOUS
<1> HIDE DEF f, k
<1>6. edits' \subseteq EditRequest
  BY <1>1, <1>2, <1>3
<1>7. f \in EditsOf(e.problem)'
  BY <1>1, <1>2 DEF EditsOf
<1>8. ASSUME NEW d \in EditsOf(e.problem)
      PROVE  [d EXCEPT !.alone = FALSE] \in EditsOf(e.problem)'
  <2>1. d \in edits /\ d.problem = e.problem
    BY DEF EditsOf
  <2>2. k(d) \in edits' /\ k(d).problem = e.problem /\ k(d) = [d EXCEPT !.alone = FALSE]
    BY <1>1, <1>3, <1>4, <2>1
  <2> QED
    BY <2>2 DEF EditsOf
<1>9. ASSUME NEW q, q # e.problem PROVE EditsOf(q)' = EditsOf(q)
  BY <1>1, <1>2, <1>3, <1>5, <1>9 DEF EditsOf
<1>10. ASSUME NEW c \in EditsOf(e.problem)', c # f
       PROVE  \E d \in EditsOf(e.problem) : c = [d EXCEPT !.alone = FALSE]
  <2>1. c \in edits' /\ c.problem = e.problem
    BY DEF EditsOf
  <2>2. PICK d \in edits : c = k(d)
    BY <1>1, <1>10, <2>1
  <2>3. d.problem = e.problem
    BY <1>3, <2>1, <2>2
  <2> QED
    BY <1>4, <2>2, <2>3 DEF EditsOf
<1> QED
  BY <1>6, <1>7, <1>8, <1>9, <1>10 DEF f

\* An edit that comes is alone when there is no other, and takes that away from others.
LEMMA EditJoins ==
    ASSUME StoreInv, NEW e \in EditRequest, edits' = Joined(e), edited' = edited + 1,
           EditShaped(e)', files' = files, torn' = torn,
           life[e.problem] = "gone" => life'[e.problem] = "gone",
           e.step = "write" /\ ~Meets(e.problem) => files[e.problem] = Holding(e.hashes),
           e.kind = "import" /\ ~Meets(e.problem) =>
               rows'[e.problem] = <<>> /\ e.problem \notin torn
    PROVE  /\ edits' \subseteq EditRequest /\ edited' \in Nat
           /\ \A q : q # e.problem => EditsOf(q)' = EditsOf(q)
           /\ \A f \in EditsOf(e.problem)' : EditShaped(f)' /\ (f.alone => AloneInOrder(f)')
           /\ Meets(e.problem)'
           /\ Dirty(e.problem) => Dirty(e.problem)'
<1> DEFINE p == e.problem
           new == [e EXCEPT !.alone = ~Meets(p)]
<1>1. /\ edits' \subseteq EditRequest
      /\ \A q : q # p => EditsOf(q)' = EditsOf(q)
      /\ \A f \in EditsOf(p)' :
            f = new \/ \E d \in EditsOf(p) : f = [d EXCEPT !.alone = FALSE]
      /\ new \in EditsOf(p)'
      /\ \A d \in EditsOf(p) : [d EXCEPT !.alone = FALSE] \in EditsOf(p)'
  BY EditComes DEF StoreInv
<1>2. /\ new \in EditRequest /\ new.problem = p /\ new.kind = e.kind /\ new.step = e.step
      /\ new.list = e.list /\ new.hashes = e.hashes /\ new.alone = ~Meets(p)
  BY DEF EditRequest, Meets
<1>3. ASSUME NEW d \in EditsOf(p), NEW f, f = [d EXCEPT !.alone = FALSE]
      PROVE  /\ f.problem = p /\ f.kind = d.kind /\ f.step = d.step
             /\ f.list = d.list /\ f.hashes = d.hashes /\ f.alone = FALSE
  BY <1>3 DEF EditRequest, EditsOf, StoreInv, StoreTyped
<1> HIDE DEF new
<1>4. p \in Problem
  BY DEF EditRequest
<1>5. ASSUME NEW f \in EditsOf(p)' PROVE EditShaped(f)' /\ (f.alone => AloneInOrder(f)')
  <2>1. CASE f = new
    <3>1. EditShaped(f)'
      BY <1>2, <2>1 DEF EditShaped
    <3>2. ASSUME f.alone PROVE AloneInOrder(f)'
      <4>1. EditsOf(p) = {} /\ ~Meets(p)
        BY <1>2, <2>1, <3>2 DEF Meets
      <4>2. EditsOf(p)' = {f}
        BY <1>1, <2>1, <4>1
      <4> QED
        BY <1>2, <2>1, <4>1, <4>2 DEF AloneInOrder
    <3> QED
      BY <3>1, <3>2
  <2>2. ASSUME NEW d \in EditsOf(p), f = [d EXCEPT !.alone = FALSE] PROVE EditShaped(f)' /\ ~f.alone
    <3>1. EditShaped(d) /\ d.problem = p
      BY <1>4 DEF StoreInv, Orderly, EditsOf
    <3> QED
      BY <1>3, <2>2, <3>1 DEF EditShaped
  <2> QED
    BY <1>1, <2>1, <2>2
<1>6. Meets(p)'
  BY <1>1 DEF Meets
<1>7. ASSUME Dirty(p) PROVE Dirty(p)'
  <2>1. CASE p \in torn
    BY <2>1 DEF Dirty
  <2>2. ASSUME NEW d \in EditsOf(p) PROVE Dirty(p)'
    <3>1. PICK f \in EditsOf(p)' : f = [d EXCEPT !.alone = FALSE]
      BY <1>1
    <3> QED
      BY <1>3, <3>1 DEF Dirty
  <2> QED
    BY <1>7, <2>1, <2>2 DEF Dirty
<1>8. edited' \in Nat
  BY DEF StoreInv, StoreTyped
<1> QED
  BY <1>1, <1>5, <1>6, <1>7, <1>8

LEMMA PutBegins ==
    ASSUME StoreInv, NEW p \in Problem, NEW list \in Lists, BeginPut(p, list)
    PROVE  StoreInv' /\ \A q \in Problem : Effect(q)
<1>0. PICK e : e = [id |-> edited, kind |-> "put", problem |-> p, list |-> list,
                 step |-> "clear", hashes |-> <<>>, alone |-> TRUE]
  OBVIOUS
<1>1. e \in EditRequest /\ e.problem = p /\ e.kind = "put" /\ e.step = "clear"
  BY <1>0 DEF EditRequest, StoreInv, StoreTyped
<1>2. /\ edits' = Joined(e) /\ edited' = edited + 1 /\ life[p] = "here"
      /\ UNCHANGED <<life, rows, version, edition, files, torn>>
  BY <1>0 DEF BeginPut, BeginEdit
<1>3. EditShaped(e)'
  BY <1>0, MaxLenFacts DEF EditShaped
<1>4. /\ edits' \subseteq EditRequest /\ edited' \in Nat
      /\ \A q : q # p => EditsOf(q)' = EditsOf(q)
      /\ \A f \in EditsOf(p)' : EditShaped(f)' /\ (f.alone => AloneInOrder(f)')
      /\ Meets(p)' /\ (Dirty(p) => Dirty(p)')
  BY <1>1, <1>2, <1>3, EditJoins
<1>5. Orderly(p)'
  BY <1>2, <1>4 DEF Orderly, ProblemInOrder, StoreInv
<1>6. Effect(p)
  BY <1>2, <1>4 DEF Effect, StoreInv, StoreTyped
<1>7. StoreTyped' /\ \A q \in Problem \ {p} : Untouched(q)
  BY <1>2, <1>4 DEF Untouched, StoreTyped, StoreInv
<1> QED
  BY <1>5, <1>6, <1>7, StoreKept

LEMMA ImportBegins ==
    ASSUME StoreInv, NEW p \in Problem, NEW list \in Lists, BeginImport(p, list)
    PROVE  StoreInv' /\ \A q \in Problem : Effect(q)
<1>0. PICK e : e = [id |-> edited, kind |-> "import", problem |-> p, list |-> list,
                 step |-> "write", hashes |-> <<>>, alone |-> TRUE]
  OBVIOUS
<1>1. /\ e \in EditRequest /\ e.problem = p /\ e.kind = "import" /\ e.step = "write"
      /\ e.hashes = <<>>
  BY <1>0 DEF EditRequest, StoreInv, StoreTyped
<1>2. /\ edits' = Joined(e) /\ edited' = edited + 1 /\ life[p] = "new"
      /\ life' = [life EXCEPT ![p] = "here"]
      /\ UNCHANGED <<rows, version, edition, files, torn>>
  BY <1>0 DEF BeginImport, BeginEdit
<1>3. EditShaped(e)'
  BY <1>0, MaxLenFacts DEF EditShaped
<1>4. ~Meets(p) /\ p \notin torn /\ rows[p] = <<>> /\ files[p] = Holding(<<>>)
  BY <1>2 DEF StoreInv, Orderly, ProblemInOrder
<1>5. life'[p] = "here" /\ \A q \in Problem \ {p} : life'[q] = life[q]
  BY <1>2 DEF StoreInv, StoreTyped
<1>6. /\ edits' \subseteq EditRequest /\ edited' \in Nat
      /\ \A q : q # p => EditsOf(q)' = EditsOf(q)
      /\ \A f \in EditsOf(p)' : EditShaped(f)' /\ (f.alone => AloneInOrder(f)')
      /\ Meets(p)' /\ (Dirty(p) => Dirty(p)')
  BY <1>1, <1>2, <1>3, <1>4, EditJoins
<1>7. Orderly(p)'
  BY <1>2, <1>5, <1>6 DEF Orderly, ProblemInOrder, StoreInv
<1>8. Effect(p)
  BY <1>2, <1>5, <1>6 DEF Effect, StoreInv, StoreTyped
<1>9. StoreTyped' /\ \A q \in Problem \ {p} : Untouched(q)
  BY <1>2, <1>5, <1>6 DEF Untouched, StoreTyped, StoreInv
<1> QED
  BY <1>7, <1>8, <1>9, StoreKept

LEMMA DeleteBegins ==
    ASSUME StoreInv, NEW p \in Problem, DeleteRow(p)
    PROVE  StoreInv' /\ \A q \in Problem : Effect(q)
<1>0. PICK e : e = [id |-> edited, kind |-> "delete", problem |-> p, list |-> <<>>,
                 step |-> "remove", hashes |-> <<>>, alone |-> TRUE]
  OBVIOUS
<1>1. e \in EditRequest /\ e.problem = p /\ e.kind = "delete" /\ e.step = "remove"
  BY <1>0 DEF EditRequest, StoreInv, StoreTyped
<1>2. /\ edits' = Joined(e) /\ edited' = edited + 1 /\ life[p] = "here"
      /\ life' = [life EXCEPT ![p] = "gone"] /\ rows' = [rows EXCEPT ![p] = <<>>]
      /\ UNCHANGED <<version, edition, files, torn>>
  BY <1>0 DEF DeleteRow, BeginEdit
<1>3. /\ life'[p] = "gone" /\ rows'[p] = <<>> /\ rows' \in [Problem -> Seq(Body)]
      /\ \A q \in Problem \ {p} : life'[q] = life[q] /\ rows'[q] = rows[q]
  BY <1>2 DEF StoreInv, StoreTyped
<1>4. EditShaped(e)'
  BY <1>0, <1>3, MaxLenFacts DEF EditShaped
<1>5. /\ edits' \subseteq EditRequest /\ edited' \in Nat
      /\ \A q : q # p => EditsOf(q)' = EditsOf(q)
      /\ \A f \in EditsOf(p)' : EditShaped(f)' /\ (f.alone => AloneInOrder(f)')
      /\ Meets(p)' /\ (Dirty(p) => Dirty(p)')
  BY <1>1, <1>2, <1>3, <1>4, EditJoins
<1>6. Orderly(p)'
  BY <1>2, <1>3, <1>5, MaxLenFacts DEF Orderly, ProblemInOrder, StoreInv
<1>7. Effect(p)
  BY <1>2, <1>3, <1>5 DEF Effect, StoreInv, StoreTyped
<1>8. StoreTyped' /\ \A q \in Problem \ {p} : Untouched(q)
  BY <1>2, <1>3, <1>5 DEF Untouched, StoreTyped, StoreInv
<1> QED
  BY <1>6, <1>7, <1>8, StoreKept

\* An edit goes on; nothing but the files of its problem changes.
LEMMA EditGoesOn ==
    ASSUME StoreInv, NEW e \in edits, NEW f \in EditRequest,
           f.problem = e.problem, f.kind = e.kind, f.alone = e.alone,
           edits' = (edits \ {e}) \cup {f},
           UNCHANGED <<life, rows, version, edition, edited, torn>>,
           NEW d \in [Idx -> Body \cup {None}], files' = [files EXCEPT ![e.problem] = d],
           EditShaped(f), f.alone /\ f.step = "write" => d = Holding(f.hashes)
    PROVE  StoreInv' /\ \A p \in Problem : Effect(p)
<1> DEFINE p == e.problem
<1>1. e \in EditRequest /\ p \in Problem
  BY DEF StoreInv, StoreTyped, EditRequest
<1>2. /\ EditsOf(p)' = (EditsOf(p) \ {e}) \cup {f}
      /\ \A q : q # p => EditsOf(q)' = EditsOf(q)
      /\ e \in EditsOf(p)
  BY EditMoves
<1>3. files'[p] = d /\ \A q \in Problem \ {p} : files'[q] = files[q]
  BY <1>1 DEF StoreInv, StoreTyped
<1>4. StoreTyped'
  BY <1>1 DEF StoreInv, StoreTyped
<1>5. \A q \in Problem \ {p} : Untouched(q)
  BY <1>2, <1>3 DEF Untouched
<1>6. \A c \in EditsOf(p) : /\ EditShaped(c) /\ c.problem = p
                            /\ c.alone => AloneInOrder(c)
  BY <1>1 DEF StoreInv, Orderly, EditsOf
<1>7. ASSUME NEW c \in EditsOf(p)' PROVE EditShaped(c)' /\ (c.alone => AloneInOrder(c)')
  <2>1. CASE c = f
    <3>1. EditShaped(c)'
      BY <2>1 DEF EditShaped
    <3>2. ASSUME c.alone PROVE AloneInOrder(c)'
      <4>1. EditsOf(p) = {e} /\ (e.kind = "import" => rows[p] = <<>> /\ p \notin torn)
        BY <1>2, <1>6, <2>1, <3>2 DEF AloneInOrder
      <4> QED
        BY <1>2, <1>3, <2>1, <3>2, <4>1 DEF AloneInOrder
    <3> QED
      BY <3>1, <3>2
  <2>2. CASE c # f
    <3>1. c \in EditsOf(p) /\ c # e
      BY <1>2, <2>2
    <3>2. ~c.alone
      BY <1>2, <1>6, <3>1 DEF AloneInOrder
    <3> QED
      BY <1>6, <3>1, <3>2 DEF EditShaped
  <2> QED
    BY <2>1, <2>2
<1>8. Meets(p) /\ Meets(p)'
  BY <1>2 DEF Meets
<1>9. Orderly(p)'
  BY <1>1, <1>7, <1>8 DEF Orderly, ProblemInOrder, StoreInv
<1>10. Dirty(p) => Dirty(p)'
  BY <1>2 DEF Dirty
<1>11. Effect(p)
  BY <1>1, <1>10 DEF Effect, StoreInv, StoreTyped
<1> QED
  BY <1>1, <1>4, <1>5, <1>9, <1>11, StoreKept

\* An edit ends. Those that remain had met it.
LEMMA EditEnds ==
    ASSUME StoreInv, NEW e \in edits, edits' = edits \ {e}, life' = life
    PROVE  /\ edits' \subseteq EditRequest
           /\ \A q : q # e.problem => EditsOf(q)' = EditsOf(q)
           /\ \A c \in EditsOf(e.problem)' : EditShaped(c)' /\ ~c.alone
           /\ e.alone => ~Meets(e.problem)'
<1> DEFINE p == e.problem
<1>1. e \in EditRequest /\ p \in Problem /\ edits \subseteq EditRequest
  BY DEF StoreInv, StoreTyped, EditRequest
<1>2. /\ EditsOf(p)' = EditsOf(p) \ {e} /\ e \in EditsOf(p)
      /\ \A q : q # p => EditsOf(q)' = EditsOf(q)
  BY EditLeaves
<1>3. \A c \in EditsOf(p) : /\ EditShaped(c) /\ c.problem = p
                            /\ c.alone => EditsOf(p) = {c}
  BY <1>1 DEF StoreInv, Orderly, EditsOf, AloneInOrder
<1>4. ASSUME NEW c \in EditsOf(p)' PROVE EditShaped(c)' /\ ~c.alone
  <2>1. c \in EditsOf(p) /\ c # e
    BY <1>2
  <2> QED
    BY <1>2, <1>3, <2>1 DEF EditShaped
<1>5. e.alone => ~Meets(p)'
  BY <1>2, <1>3 DEF Meets
<1> QED
  BY <1>1, <1>2, <1>4, <1>5

\* An edit fails, or completes after it met another, and leaves its problem torn.
LEMMA EndsTorn ==
    ASSUME StoreInv, NEW e \in edits, edits' = edits \ {e}, torn' = torn \cup {e.problem},
           UNCHANGED <<life, rows, version, edition, files, edited>>
    PROVE  StoreInv' /\ \A p \in Problem : Effect(p)
<1> DEFINE p == e.problem
<1>1. p \in Problem
  BY DEF StoreInv, StoreTyped, EditRequest
<1>2. /\ edits' \subseteq EditRequest
      /\ \A q : q # p => EditsOf(q)' = EditsOf(q)
      /\ \A c \in EditsOf(p)' : EditShaped(c)' /\ ~c.alone
  BY EditEnds
<1>3. life[p] # "new"
  <2>1. Meets(p)
    BY EditLeaves DEF Meets
  <2> QED
    BY <1>1, <2>1 DEF StoreInv, Orderly, ProblemInOrder
<1>4. Orderly(p)'
  BY <1>1, <1>2, <1>3 DEF Orderly, ProblemInOrder, StoreInv
<1>5. Effect(p)
  BY <1>1 DEF Effect, StoreInv, StoreTyped, Dirty
<1>6. StoreTyped' /\ \A q \in Problem \ {p} : Untouched(q)
  BY <1>1, <1>2 DEF Untouched, StoreTyped, StoreInv
<1> QED
  BY <1>1, <1>4, <1>5, <1>6, StoreKept

LEMMA FilesCleared ==
    ASSUME StoreInv, NEW e \in edits, ClearFiles(e)
    PROVE  StoreInv' /\ \A p \in Problem : Effect(p)
<1>1. e \in EditRequest /\ EditShaped(e) /\ e.problem \in Problem
  BY DEF StoreInv, StoreTyped, Orderly, EditsOf, EditRequest
<1>2. PICK f \in EditRequest : f = [e EXCEPT !.step = "write"]
  BY <1>1 DEF EditRequest
<1>3. /\ f.problem = e.problem /\ f.kind = e.kind /\ f.alone = e.alone /\ f.step = "write"
      /\ f.list = e.list /\ f.hashes = e.hashes
  BY <1>1, <1>2 DEF EditRequest
<1>4. /\ e.kind = "put" /\ e.step = "clear" /\ edits' = (edits \ {e}) \cup {f}
      /\ files' = [files EXCEPT ![e.problem] = NoFiles]
      /\ UNCHANGED <<life, rows, version, edition, edited, torn>>
  BY <1>2 DEF ClearFiles, GoesTo
<1>5. EditShaped(f) /\ f.hashes = <<>>
  BY <1>1, <1>3, <1>4 DEF EditShaped
<1>6. NoFiles \in [Idx -> Body \cup {None}] /\ Holding(f.hashes) = NoFiles
  BY <1>5, HoldingNothing DEF NoFiles
<1> QED
  BY <1>3, <1>4, <1>5, <1>6, EditGoesOn

LEMMA FileWritten ==
    ASSUME StoreInv, NEW e \in edits, WriteFile(e)
    PROVE  StoreInv' /\ \A p \in Problem : Effect(p)
<1> DEFINE p == e.problem
           i == Len(e.hashes) + 1
<1>1. e \in EditRequest /\ EditShaped(e) /\ p \in Problem /\ files[p] \in [Idx -> Body \cup {None}]
  BY DEF StoreInv, StoreTyped, Orderly, EditsOf, EditRequest
<1>2. e.step = "write" /\ Len(e.hashes) < Len(e.list) /\ Len(e.list) <= MaxLen
  BY <1>1 DEF WriteFile, EditShaped
<1>3. PICK body : body = Stored(e.list[i])
  OBVIOUS
<1>4. e.list \in Seq(Body) /\ e.hashes \in Seq(Body) /\ i \in 1..Len(e.list) /\ i \in Idx
  BY <1>1, <1>2, ListsAssumption, MaxLenFacts DEF EditRequest, Idx
<1>5. body \in Body
  BY <1>3, <1>4, StoredAssumption
<1>6. PICK f : f = [e EXCEPT !.hashes = Append(e.hashes, body)]
  OBVIOUS
<1>7. f \in EditRequest
  <2>1. Append(e.hashes, body) \in Seq(Body)
    BY <1>4, <1>5
  <2> QED
    BY <1>1, <1>6, <2>1 DEF EditRequest
<1>8. /\ f.problem = e.problem /\ f.kind = e.kind /\ f.alone = e.alone /\ f.step = e.step
      /\ f.list = e.list /\ f.hashes = Append(e.hashes, body)
  BY <1>1, <1>6 DEF EditRequest
<1>9. PICK d : d = [files[p] EXCEPT ![i] = body]
  OBVIOUS
<1>10. /\ files' = [files EXCEPT ![p] = d] /\ edits' = (edits \ {e}) \cup {f}
       /\ UNCHANGED <<life, rows, version, edition, edited, torn>>
  BY <1>3, <1>6, <1>9 DEF WriteFile
<1>11. d \in [Idx -> Body \cup {None}]
  BY <1>1, <1>4, <1>5, <1>9
<1>12. EditShaped(f)
  <2>1. Len(f.hashes) = Len(e.hashes) + 1
    BY <1>4, <1>5, <1>8
  <2> QED
    BY <1>1, <1>2, <1>4, <1>8, <2>1 DEF EditShaped
<1>13. ASSUME f.alone PROVE d = Holding(f.hashes)
  <2>1. files[p] = Holding(e.hashes)
    BY <1>1, <1>2, <1>8, <1>13 DEF StoreInv, Orderly, EditsOf, AloneInOrder
  <2>2. Len(e.hashes) < MaxLen
    BY <1>2, <1>4, MaxLenFacts
  <2> QED
    BY <1>4, <1>5, <1>8, <1>9, <2>1, <2>2, HoldingMore
<1> QED
  BY <1>7, <1>8, <1>10, <1>11, <1>12, <1>13, EditGoesOn

LEMMA RowsReplaced ==
    ASSUME StoreInv, NEW e \in edits, ReplaceRows(e) \/ InsertRows(e)
    PROVE  StoreInv' /\ \A p \in Problem : Effect(p)
<1> DEFINE p == e.problem
<1>1. e \in EditRequest /\ EditShaped(e) /\ p \in Problem /\ e.hashes \in Seq(Body)
  BY DEF StoreInv, StoreTyped, Orderly, EditsOf, EditRequest
<1>2. /\ rows' = [rows EXCEPT ![p] = e.hashes]
      /\ edition' = [edition EXCEPT ![p] = edition[p] + 1]
      /\ edits' = edits \ {e} /\ UNCHANGED <<life, files, edited>>
      /\ torn' = IF e.alone THEN torn \ {p} ELSE torn \cup {p}
      /\ e.step = "write" /\ life[p] = "here"
  BY DEF ReplaceRows, InsertRows, NewRows, Completes, Written
<1>3. \/ version' = [version EXCEPT ![p] = version[p] + 1]
      \/ version' = version /\ rows[p] = <<>> /\ e.kind = "import"
  BY DEF ReplaceRows, InsertRows
<1>4. /\ edits' \subseteq EditRequest
      /\ \A q : q # p => EditsOf(q)' = EditsOf(q)
      /\ \A c \in EditsOf(p)' : EditShaped(c)' /\ ~c.alone
      /\ e.alone => ~Meets(p)'
  BY <1>2, EditEnds
<1>5. /\ rows' \in [Problem -> Seq(Body)] /\ rows'[p] = e.hashes
      /\ edition' \in [Problem -> Nat] /\ edition'[p] = edition[p] + 1
      /\ \A q \in Problem \ {p} : rows'[q] = rows[q] /\ edition'[q] = edition[q]
  BY <1>1, <1>2 DEF StoreInv, StoreTyped
<1>6. /\ version' \in [Problem -> Nat]
      /\ \/ version'[p] = version[p] + 1
         \/ version'[p] = version[p] /\ rows[p] = <<>> /\ e.kind = "import"
      /\ \A q \in Problem \ {p} : version'[q] = version[q]
  <2>1. version \in [Problem -> Nat] /\ version[p] \in Nat /\ version[p] + 1 \in Nat
    BY <1>1 DEF StoreInv, StoreTyped
  <2>2. CASE version' = [version EXCEPT ![p] = version[p] + 1]
    BY <1>1, <2>1, <2>2
  <2>3. CASE version' = version /\ rows[p] = <<>> /\ e.kind = "import"
    BY <2>1, <2>3
  <2> QED
    BY <1>3, <2>2, <2>3
<1>7. StoreTyped' /\ \A q \in Problem \ {p} : Untouched(q)
  BY <1>2, <1>4, <1>5, <1>6 DEF Untouched, StoreTyped, StoreInv
<1>8. e.alone => files[p] = Holding(e.hashes) /\ p \notin torn'
  BY <1>1, <1>2 DEF StoreInv, Orderly, EditsOf, AloneInOrder
<1>9. ~e.alone => p \in torn'
  BY <1>2
<1>10. Len(e.hashes) <= MaxLen
  BY <1>1, MaxLenFacts, ListsAssumption DEF EditShaped, EditRequest
<1>11. version[p] \in Nat /\ edition[p] \in Nat /\ 1 <= version[p] /\ version[p] <= edition[p]
  BY <1>1 DEF StoreInv, StoreTyped, Orderly, ProblemInOrder
<1>12. Orderly(p)'
  BY <1>1, <1>2, <1>4, <1>5, <1>6, <1>8, <1>9, <1>10, <1>11 DEF Orderly, ProblemInOrder
<1>13. Dirty(p) /\ ~Dirty(p)' => version'[p] # version[p]
  <2> SUFFICES ASSUME version'[p] = version[p], e.alone PROVE ~Dirty(p)
    BY <1>9 DEF Dirty
  <2>1. e.kind = "import"
    BY <1>6, <1>11
  <2>2. EditsOf(p) = {e} /\ p \notin torn
    BY <1>1, <2>1 DEF StoreInv, Orderly, EditsOf, AloneInOrder
  <2> QED
    BY <2>1, <2>2 DEF Dirty
<1>14. Effect(p)
  BY <1>2, <1>5, <1>6, <1>11, <1>13 DEF Effect
<1> QED
  BY <1>1, <1>7, <1>12, <1>14, StoreKept

LEMMA FilesRemoved ==
    ASSUME StoreInv, NEW e \in edits, RemoveFiles(e)
    PROVE  StoreInv' /\ \A p \in Problem : Effect(p)
<1> DEFINE p == e.problem
<1>1. e \in EditRequest /\ EditShaped(e) /\ p \in Problem
  BY DEF StoreInv, StoreTyped, Orderly, EditsOf, EditRequest
<1>2. /\ files' = [files EXCEPT ![p] = NoFiles]
      /\ edits' = edits \ {e} /\ UNCHANGED <<life, rows, version, edition, edited>>
      /\ torn' = IF e.alone THEN torn \ {p} ELSE torn \cup {p}
      /\ life[p] = "gone"
  BY <1>1 DEF RemoveFiles, Completes, EditShaped
<1>3. /\ edits' \subseteq EditRequest
      /\ \A q : q # p => EditsOf(q)' = EditsOf(q)
      /\ \A c \in EditsOf(p)' : EditShaped(c)' /\ ~c.alone
      /\ e.alone => ~Meets(p)'
  BY <1>2, EditEnds
<1>4. /\ files' \in [Problem -> [Idx -> Body \cup {None}]] /\ files'[p] = NoFiles
      /\ \A q \in Problem \ {p} : files'[q] = files[q]
  <2>1. NoFiles \in [Idx -> Body \cup {None}]
    BY DEF NoFiles
  <2> QED
    BY <1>1, <1>2, <2>1 DEF StoreInv, StoreTyped
<1>5. StoreTyped' /\ \A q \in Problem \ {p} : Untouched(q)
  BY <1>2, <1>3, <1>4 DEF Untouched, StoreTyped, StoreInv
<1>6. Orderly(p)'
  <2>1. rows[p] = <<>> /\ ProblemInOrder(p)
    BY <1>1, <1>2 DEF StoreInv, Orderly, ProblemInOrder
  <2> QED
    BY <1>2, <1>3, <1>4, <2>1, HoldingNothing DEF Orderly, ProblemInOrder
<1>7. Effect(p)
  BY <1>1, <1>2 DEF Effect, StoreInv, StoreTyped
<1> QED
  BY <1>1, <1>5, <1>6, <1>7, StoreKept

LEMMA EditStep ==
    ASSUME StoreInv, Edit
    PROVE  StoreInv' /\ \A p \in Problem : Effect(p)
<1>1. ASSUME NEW p \in Problem, NEW list \in Lists, BeginPut(p, list) \/ BeginImport(p, list)
      PROVE  StoreInv' /\ \A q \in Problem : Effect(q)
  BY <1>1, PutBegins, ImportBegins
<1>2. ASSUME NEW e \in edits, EditFails(e) \/ RemoveFails(e)
      PROVE  StoreInv' /\ \A q \in Problem : Effect(q)
  BY <1>2, EndsTorn DEF EditFails, RemoveFails
<1> QED
  BY <1>1, <1>2, FilesCleared, FileWritten, RowsReplaced, FilesRemoved DEF Edit

LEMMA InitStore == StoreInit => StoreInv
<1> SUFFICES ASSUME StoreInit PROVE StoreInv
  OBVIOUS
<1> DEFINE first == Stored(CHOOSE b \in Body : TRUE)
<1>1. first \in Body
  <2>1. \E b \in Body : TRUE
    BY ListsAssumption
  <2> QED
    BY <2>1, StoredAssumption
<1>2. /\ life \in [Problem -> {"new", "here", "gone"}]
      /\ rows = [p \in Problem |-> IF life[p] = "here" THEN <<first>> ELSE <<>>]
      /\ version = [p \in Problem |-> 1] /\ edition = version
      /\ files = [p \in Problem |-> Listed(p)]
      /\ edits = {} /\ edited = 0 /\ torn = {}
  BY DEF StoreInit
<1>3. \A p \in Problem : life[p] # "gone"
  BY DEF StoreInit
<1> HIDE DEF first
<1>4. \A p \in Problem : /\ rows[p] \in Seq(Body) /\ Len(rows[p]) <= MaxLen
                         /\ life[p] # "here" => rows[p] = <<>>
  BY <1>1, <1>2, MaxLenFacts
<1>5. \A p \in Problem : Listed(p) = Holding(rows[p])
  BY DEF Listed, Holding
<1>6. \A p \in Problem : files[p] = Holding(rows[p]) /\ ~Meets(p)
  BY <1>2, <1>5 DEF Meets, EditsOf
<1>7. StoreTyped
  <2>1. \A p \in Problem : files[p] \in [Idx -> Body \cup {None}]
    BY <1>4, <1>6, HoldingType
  <2>2. rows \in [Problem -> Seq(Body)] /\ files \in [Problem -> [Idx -> Body \cup {None}]]
    BY <1>2, <1>4, <2>1
  <2> QED
    BY <1>2, <2>2 DEF StoreTyped
<1>8. \A p \in Problem : ProblemInOrder(p)
  BY <1>2, <1>4, <1>6 DEF ProblemInOrder
<1>9. \A p \in Problem : EditsOf(p) = {}
  BY <1>2 DEF EditsOf
<1> QED
  BY <1>7, <1>8, <1>9 DEF StoreInv, Orderly

LEMMA StoreUnchanged ==
    ASSUME StoreInv, UNCHANGED storeVars
    PROVE  StoreInv' /\ \A p \in Problem : Effect(p) /\ Untouched(p)
<1>1. \A p \in Problem : Untouched(p)
  BY DEF Untouched, storeVars, EditsOf
<1>2. StoreTyped'
  BY DEF StoreInv, StoreTyped, storeVars
<1> QED
  BY <1>1, <1>2, UntouchedStays DEF StoreInv

\* What every step of Next does to the store.
LEMMA StoreNext ==
    ASSUME StoreInv, [Next]_vars
    PROVE  StoreInv' /\ \A p \in Problem : Effect(p)
<1>1. ASSUME EditWithSubmissions PROVE StoreInv' /\ \A p \in Problem : Effect(p)
  BY <1>1, EditStep DEF EditWithSubmissions
<1>2. ASSUME NEW p \in Problem, DeleteProblem(p)
      PROVE  StoreInv' /\ \A q \in Problem : Effect(q)
  BY <1>2, DeleteBegins DEF DeleteProblem
<1>3. ASSUME UNCHANGED storeVars PROVE StoreInv' /\ \A p \in Problem : Effect(p)
  BY <1>3, StoreUnchanged
<1>4. ASSUME Recount \/ (\E S \in SUBSET Id : Rejudge(S))
             \/ \E u \in User, p \in Problem, sheet \in Sheet, s \in Id : Submit(u, p, sheet, s)
      PROVE  UNCHANGED storeVars
  BY <1>4 DEF Recount, Rejudge, Submit
<1>5. ASSUME NEW s \in Id, Claim(s) PROVE UNCHANGED storeVars
  BY <1>5 DEF Claim
<1>6. ASSUME NEW g \in gradings,
             \/ ReadProblem(g)     \/ ReadRows(g) \/ ReadFile(g)
             \/ OpenTransaction(g) \/ Commit(g)
             \/ JudgeFailure(g)    \/ GradeFails(g)
      PROVE  UNCHANGED storeVars
  BY <1>6 DEF ReadProblem, ReadRows, ReadFile, OpenTransaction, Commit, JudgeFailure,
     GradeFails, Reads
<1>7. \A p : OfProblem(p) \in SUBSET Id
  BY DEF OfProblem
<1>8. CASE UNCHANGED vars
  BY <1>3, <1>8 DEF vars
<1>9. CASE Requests
  BY <1>1, <1>2, <1>3, <1>4, <1>7, <1>9 DEF Requests
<1> QED
  BY <1>3, <1>5, <1>6, <1>8, <1>9 DEF Next

LEMMA StoreAlways == Spec => []StoreInv
<1>1. Init => StoreInv
  BY InitStore DEF Init
<1>2. StoreInv /\ [Next]_vars => StoreInv'
  BY StoreNext
<1> QED
  BY <1>1, <1>2, PTL DEF Spec

\* StoreMatches, of every behaviour: where no edit is under way, failed or met another, the
\* files are those that the rows name.
THEOREM FilesMatchRows == Spec => []StoreMatches
<1>1. StoreInv => StoreMatches
  BY StoreSafe
<1> QED
  BY <1>1, StoreAlways, PTL

-----------------------------------------------------------------------------
(* Those who grade. The rows that a grading has read are those of the      *)
(* problem as long as their edition is the present one, and what it has    *)
(* read of the files is then what the rows say, unless the problem is      *)
(* dirty. A problem becomes clean only by an edit that makes a new edition *)
(* and a new version, or by its deletion.                                  *)

Handler ==
    [sub : Id, problem : Problem, by : {"worker", "api"},
     step : {"problem", "rows", "files", "commit"}, version : Nat \cup {None}, tries : Nat,
     edition : Nat \cup {None}, cases : Seq(Body), seen : Seq(Body \cup {None}),
     verdict : Verdict \cup {None}, first : BOOLEAN]

GradingTyped ==
    /\ kind \in [Problem -> Kinds] /\ subs \in [Id -> Submission \cup {None}]
    /\ gradings \subseteq Handler /\ rejudged \in Nat /\ recounted \in Nat

GradingShaped(g) ==
    /\ Known(g.sub) /\ subs[g.sub].problem = g.problem /\ subs[g.sub].status # "deleted"
    /\ Len(g.seen) <= Len(g.cases) /\ Len(g.cases) <= MaxLen
    /\ g.step \in {"problem", "rows"} => g.cases = <<>>
    /\ g.step \in {"files", "commit"} => g.edition \in Nat /\ g.edition <= edition[g.problem]
    /\ g.by = "worker" /\ g.step # "problem" =>
         g.version \in Nat /\ g.version <= version[g.problem]
    /\ g.step = "commit" => /\ g.verdict \in Verdict /\ Len(g.seen) = Len(g.cases)
                            /\ g.cases # <<>> => g.edition = edition[g.problem]
    /\ g.first => g.verdict = "accepted"

SubShaped(s) ==
    LET row == subs[s]
        p == row.problem
    IN  /\ life[p] # "new" /\ (row.status = "deleted" <=> life[p] = "gone")
        /\ row.status = "deleted" => row.verdict = None
        /\ row.status = "done" => row.verdict # None
        /\ row.version \in Nat => row.version <= version[p]

SawRows(g) ==
    g.step \in {"files", "commit"} /\ g.edition = edition[g.problem] =>
        /\ g.cases = rows[g.problem]
        /\ Dirty(g.problem) \/ \A i \in DOMAIN g.seen : g.seen[i] = g.cases[i]

Judged(s) ==
    LET p == subs[s].problem
    IN  subs[s].status = "done" /\ subs[s].version = version[p] /\ life[p] = "here" =>
        Dirty(p) \/ subs[s].seen = rows[p] \/ subs[s].seen = <<>>

GradingInv ==
    /\ GradingTyped
    /\ \A g \in gradings : GradingShaped(g) /\ SawRows(g)
    /\ \A s \in Id : Known(s) => SubShaped(s) /\ Judged(s)

LEMMA VersionSafe ==
    ASSUME StoreInv, GradingInv
    PROVE  VersionTells
<1> SUFFICES ASSUME NEW s \in Id, Known(s), subs[s].status = "done",
                    subs[s].version = version[subs[s].problem],
                    ~Meets(subs[s].problem), subs[s].problem \notin torn,
                    life[subs[s].problem] = "here"
             PROVE  subs[s].seen = rows[subs[s].problem] \/ subs[s].seen = <<>>
  BY DEF VersionTells
<1>1. ~Dirty(subs[s].problem)
  BY DEF Dirty, Meets
<1> QED
  BY <1>1 DEF GradingInv, Judged

\* The problem of a grading is there.
LEMMA GradedHere ==
    ASSUME GradingInv, StoreInv, NEW g \in gradings
    PROVE  /\ g \in Handler /\ g.sub \in Id /\ g.problem \in Problem
           /\ subs[g.sub] \in Submission /\ life[g.problem] = "here"
<1>1. g \in Handler /\ GradingShaped(g)
  BY DEF GradingInv, GradingTyped
<1>2. g.sub \in Id /\ g.problem \in Problem
  BY <1>1 DEF Handler
<1>3. subs[g.sub] \in Submission /\ SubShaped(g.sub)
  BY <1>1, <1>2 DEF GradingInv, GradingTyped, GradingShaped, Known
<1> QED
  BY <1>1, <1>2, <1>3 DEF SubShaped, GradingShaped, StoreInv, StoreTyped

\* A grading is not disturbed by a step of the store.
LEMMA GradingKept ==
    ASSUME GradingInv, StoreInv, NEW g \in gradings, StoreTyped',
           Effect(g.problem), life'[g.problem] = "here",
           g.step = "commit" /\ g.cases # <<>> => edition'[g.problem] = edition[g.problem],
           Known(g.sub)', subs'[g.sub].problem = g.problem, subs'[g.sub].status # "deleted"
    PROVE  GradingShaped(g)' /\ SawRows(g)'
<1> DEFINE p == g.problem
<1>1. /\ GradingShaped(g) /\ SawRows(g) /\ p \in Problem /\ g \in Handler /\ life[p] = "here"
  BY GradedHere DEF GradingInv
<1>2. /\ edition[p] \in Nat /\ edition'[p] \in Nat /\ edition[p] <= edition'[p]
      /\ version[p] \in Nat /\ version'[p] \in Nat /\ version[p] <= version'[p]
  BY <1>1 DEF StoreInv, StoreTyped, Effect
<1>3. GradingShaped(g)'
  BY <1>1, <1>2 DEF GradingShaped
<1>4. ASSUME g.step \in {"files", "commit"}, g.edition = edition'[p]
      PROVE  g.cases = rows'[p] /\ (Dirty(p)' \/ \A i \in DOMAIN g.seen : g.seen[i] = g.cases[i])
  <2>1. edition'[p] = edition[p]
    BY <1>1, <1>2, <1>4 DEF GradingShaped
  <2>2. rows'[p] = rows[p] /\ (Dirty(p) => Dirty(p)')
    BY <2>1 DEF Effect
  <2> QED
    BY <1>1, <1>4, <2>1, <2>2 DEF SawRows
<1> QED
  BY <1>3, <1>4 DEF SawRows

\* Nor is a row.
LEMMA RowKept ==
    ASSUME GradingInv, StoreInv, NEW s \in Id, Known(s), StoreTyped',
           Effect(subs[s].problem), life'[subs[s].problem] = life[subs[s].problem],
           subs'[s] = subs[s]
    PROVE  SubShaped(s)' /\ Judged(s)'
<1> DEFINE p == subs[s].problem
<1>1. /\ SubShaped(s) /\ Judged(s) /\ subs[s] \in Submission /\ p \in Problem
  BY DEF GradingInv, GradingTyped, Known, Submission
<1>2. /\ edition[p] \in Nat /\ edition'[p] \in Nat /\ edition[p] <= edition'[p]
      /\ version[p] \in Nat /\ version'[p] \in Nat /\ version[p] <= version'[p]
  BY <1>1 DEF StoreInv, StoreTyped, Effect
<1>3. SubShaped(s)'
  BY <1>1, <1>2 DEF SubShaped
<1>4. ASSUME subs[s].status = "done", subs[s].version = version'[p], life'[p] = "here"
      PROVE  Dirty(p)' \/ subs[s].seen = rows'[p] \/ subs[s].seen = <<>>
  <2>1. version'[p] = version[p]
    BY <1>1, <1>2, <1>4 DEF SubShaped
  <2>2. Dirty(p) => Dirty(p)'
    BY <1>4, <2>1 DEF Effect
  <2>3. rows'[p] = rows[p] \/ rows[p] = <<>>
    BY <1>4, <2>1 DEF Effect
  <2> QED
    BY <1>1, <1>4, <2>1, <2>2, <2>3 DEF Judged
<1> QED
  BY <1>4, <1>3 DEF Judged

\* No edit takes a problem away.
LEMMA EditDeletesNothing ==
    ASSUME StoreInv, Edit, NEW p \in Problem
    PROVE  life'[p] = life[p] \/ (life[p] = "new" /\ life'[p] = "here")
<1>1. ASSUME NEW q \in Problem, NEW list \in Lists, BeginImport(q, list)
      PROVE  life'[p] = life[p] \/ (life[p] = "new" /\ life'[p] = "here")
  BY <1>1 DEF BeginImport, StoreInv, StoreTyped
<1>2. ASSUME life' = life PROVE life'[p] = life[p]
  BY <1>2
<1> QED
  BY <1>1, <1>2 DEF Edit, BeginPut, ClearFiles, WriteFile, ReplaceRows, InsertRows, EditFails,
     RemoveFiles, RemoveFails

LEMMA EditKeepsGradings ==
    ASSUME StoreInv, GradingInv, EditWithSubmissions
    PROVE  GradingInv'
<1>1. StoreInv' /\ \A p \in Problem : Effect(p)
  BY EditStep DEF EditWithSubmissions
<1>2. UNCHANGED subVars /\ \A p \in Problem : HoldsRows(p) => edition'[p] = edition[p]
  BY DEF EditWithSubmissions
<1>3. \A s : (Known(s)' <=> Known(s)) /\ subs'[s] = subs[s]
  BY <1>2 DEF subVars, Known
<1>4. ASSUME NEW g \in gradings PROVE GradingShaped(g)' /\ SawRows(g)'
  <2>1. g.problem \in Problem /\ life[g.problem] = "here" /\ GradingShaped(g)
    BY GradedHere DEF GradingInv
  <2>2. life'[g.problem] = "here"
    BY <2>1, EditDeletesNothing DEF EditWithSubmissions
  <2>3. g.step = "commit" /\ g.cases # <<>> => edition'[g.problem] = edition[g.problem]
    BY <1>2, <2>1 DEF HoldsRows
  <2>4. Known(g.sub)' /\ subs'[g.sub].problem = g.problem /\ subs'[g.sub].status # "deleted"
    BY <1>3, <2>1 DEF GradingShaped
  <2> QED
    BY <1>1, <2>1, <2>2, <2>3, <2>4, GradingKept DEF StoreInv
<1>5. ASSUME NEW s \in Id, Known(s) PROVE SubShaped(s)' /\ Judged(s)'
  <2>1. subs[s].problem \in Problem /\ SubShaped(s)
    BY <1>5 DEF GradingInv, GradingTyped, Known, Submission
  <2>2. life'[subs[s].problem] = life[subs[s].problem]
    BY <2>1, EditDeletesNothing DEF EditWithSubmissions, SubShaped
  <2> QED
    BY <1>1, <1>3, <1>5, <2>1, <2>2, RowKept DEF StoreInv
<1>6. GradingTyped'
  BY <1>2 DEF GradingInv, GradingTyped, subVars
<1> QED
  BY <1>2, <1>3, <1>4, <1>5, <1>6 DEF GradingInv, subVars

LEMMA DeleteKeepsGradings ==
    ASSUME StoreInv, GradingInv, NEW p \in Problem, DeleteProblem(p)
    PROVE  GradingInv'
<1>1. StoreInv' /\ \A q \in Problem : Effect(q)
  BY DeleteBegins DEF DeleteProblem
<1>2. life'[p] = "gone" /\ edition' = edition /\ \A q \in Problem \ {p} : life'[q] = life[q]
  BY DEF DeleteProblem, DeleteRow, StoreInv, StoreTyped
<1>3. /\ gradings' = {g \in gradings : g.problem # p} /\ kind' = kind
      /\ subs' = [s \in Id |-> IF s \in OfProblem(p)
                               THEN [subs[s] EXCEPT !.status = "deleted", !.verdict = None]
                               ELSE subs[s]]
      /\ rejudged' = rejudged /\ recounted' = recounted
  BY DEF DeleteProblem
<1>4. ASSUME NEW s \in Id, s \in OfProblem(p)
      PROVE  /\ subs'[s] \in Submission /\ subs'[s].problem = p
             /\ subs'[s].status = "deleted" /\ subs'[s].verdict = None
             /\ subs'[s].version = subs[s].version /\ Known(s) /\ subs[s].problem = p
  <2>1. subs[s] \in Submission /\ Known(s) /\ subs[s].problem = p
    BY <1>4 DEF GradingInv, GradingTyped, OfProblem, Known
  <2>2. subs'[s] = [subs[s] EXCEPT !.status = "deleted", !.verdict = None]
    BY <1>3, <1>4
  <2> QED
    BY <2>1, <2>2 DEF Submission
<1>5. \A s \in Id : s \notin OfProblem(p) => subs'[s] = subs[s]
  BY <1>3
<1>6. \A s \in Id : Known(s)' <=> Known(s)
  BY <1>4, <1>5, NoneAssumption DEF Known
<1>7. ASSUME NEW g \in gradings' PROVE GradingShaped(g)' /\ SawRows(g)'
  <2>1. g \in gradings /\ g.problem # p
    BY <1>3
  <2>2. /\ g.problem \in Problem /\ life[g.problem] = "here" /\ GradingShaped(g)
        /\ g.sub \in Id /\ g \in Handler
    BY <2>1, GradedHere DEF GradingInv
  <2>3. g.sub \notin OfProblem(p)
    BY <2>1, <2>2 DEF GradingShaped, OfProblem
  <2>4. Known(g.sub)' /\ subs'[g.sub].problem = g.problem /\ subs'[g.sub].status # "deleted"
    BY <1>5, <1>6, <2>2, <2>3 DEF GradingShaped
  <2> QED
    BY <1>1, <1>2, <2>1, <2>2, <2>4, GradingKept DEF StoreInv
<1>8. ASSUME NEW s \in Id, Known(s) PROVE SubShaped(s)' /\ Judged(s)'
  <2>1. CASE s \in OfProblem(p)
    <3>1. /\ subs[s].version \in Nat => subs[s].version <= version[p]
          /\ version[p] \in Nat /\ version'[p] \in Nat /\ version[p] <= version'[p]
          /\ subs[s].version \in Nat \cup {None}
      BY <1>1, <1>4, <1>8, <2>1 DEF GradingInv, SubShaped, StoreInv, StoreTyped, Effect,
         GradingTyped, Known, Submission
    <3> QED
      BY <1>2, <1>4, <2>1, <3>1 DEF SubShaped, Judged
  <2>2. CASE s \notin OfProblem(p)
    <3>1. subs[s].problem \in Problem \ {p}
      BY <1>8, <2>2 DEF GradingInv, GradingTyped, Known, Submission, OfProblem
    <3> QED
      BY <1>1, <1>2, <1>5, <1>8, <2>2, <3>1, RowKept DEF StoreInv
  <2> QED
    BY <2>1, <2>2
<1>9. GradingTyped'
  BY <1>3, <1>4, <1>5 DEF GradingInv, GradingTyped
<1> QED
  BY <1>6, <1>7, <1>8, <1>9 DEF GradingInv

\* One row changes, of a submission to the same problem.
LEMMA RowWritten ==
    ASSUME StoreInv, GradingInv, UNCHANGED storeVars, NEW s \in Id, NEW r \in Submission,
           subs' = [subs EXCEPT ![s] = r],
           r.status # "deleted", Known(s) => r.problem = subs[s].problem,
           SubShaped(s)' /\ Judged(s)'
    PROVE  /\ subs' \in [Id -> Submission \cup {None}]
           /\ subs'[s] = r /\ \A t \in Id \ {s} : subs'[t] = subs[t]
           /\ \A t \in Id : Known(t)' => SubShaped(t)' /\ Judged(t)'
           /\ \A g \in gradings : GradingShaped(g)' /\ SawRows(g)'
<1>1. StoreInv' /\ \A p \in Problem : Effect(p)
  BY StoreUnchanged
<1>2. life' = life /\ edition' = edition
  BY DEF storeVars
<1>3. /\ subs' \in [Id -> Submission \cup {None}]
      /\ subs'[s] = r /\ \A t \in Id \ {s} : subs'[t] = subs[t]
  BY DEF GradingInv, GradingTyped
<1>4. Known(s)' /\ \A t \in Id \ {s} : Known(t)' <=> Known(t)
  BY <1>3, NoneAssumption DEF Known
<1>5. ASSUME NEW t \in Id, Known(t)' PROVE SubShaped(t)' /\ Judged(t)'
  <2>1. CASE t = s
    BY <2>1
  <2>2. CASE t # s
    <3>1. Known(t) /\ subs'[t] = subs[t] /\ subs[t].problem \in Problem
      BY <1>3, <1>4, <1>5, <2>2 DEF GradingInv, GradingTyped, Known, Submission
    <3> QED
      BY <1>1, <1>2, <3>1, RowKept DEF StoreInv
  <2> QED
    BY <2>1, <2>2
<1>6. ASSUME NEW g \in gradings PROVE GradingShaped(g)' /\ SawRows(g)'
  <2>1. g.problem \in Problem /\ life[g.problem] = "here" /\ GradingShaped(g) /\ g.sub \in Id
    BY GradedHere DEF GradingInv
  <2>2. Known(g.sub)' /\ subs'[g.sub].problem = g.problem /\ subs'[g.sub].status # "deleted"
    BY <1>3, <1>4, <2>1 DEF GradingShaped
  <2> QED
    BY <1>1, <1>2, <2>1, <2>2, GradingKept DEF StoreInv
<1> QED
  BY <1>3, <1>5, <1>6

\* No row changes.
LEMMA RowsStay ==
    ASSUME StoreInv, GradingInv, UNCHANGED storeVars, subs' = subs
    PROVE  /\ \A t \in Id : Known(t)' => SubShaped(t)' /\ Judged(t)'
           /\ \A g \in gradings : GradingShaped(g)' /\ SawRows(g)'
<1>1. StoreInv' /\ \A p \in Problem : Effect(p)
  BY StoreUnchanged
<1>2. life' = life /\ edition' = edition
  BY DEF storeVars
<1>3. ASSUME NEW t \in Id, Known(t)' PROVE SubShaped(t)' /\ Judged(t)'
  <2>1. Known(t) /\ subs[t].problem \in Problem
    BY <1>3 DEF GradingInv, GradingTyped, Known, Submission
  <2> QED
    BY <1>1, <1>2, <2>1, RowKept DEF StoreInv
<1>4. ASSUME NEW g \in gradings PROVE GradingShaped(g)' /\ SawRows(g)'
  <2>1. g.problem \in Problem /\ life[g.problem] = "here" /\ GradingShaped(g)
    BY GradedHere DEF GradingInv
  <2>2. Known(g.sub)' /\ subs'[g.sub].problem = g.problem /\ subs'[g.sub].status # "deleted"
    BY <2>1 DEF GradingShaped, Known
  <2> QED
    BY <1>1, <1>2, <2>1, <2>2, GradingKept DEF StoreInv
<1> QED
  BY <1>3, <1>4

\* A grading that has just begun.
LEMMA GradingBegins ==
    ASSUME NEW s \in Id, NEW by \in {"worker", "api"}, NEW h, h = NewGrading(s, by)',
           subs'[s] \in Submission, subs'[s].status # "deleted"
    PROVE  /\ h \in Handler /\ GradingShaped(h)' /\ SawRows(h)'
           /\ h.sub = s /\ h.by = by /\ h.tries = subs'[s].attempts /\ h.step = "problem"
<1>1. subs'[s].problem \in Problem /\ subs'[s].attempts \in Nat /\ Known(s)'
  BY NoneAssumption DEF Submission, Known
<1>2. h = [sub |-> s, problem |-> subs'[s].problem, by |-> by, step |-> "problem",
           version |-> None, tries |-> subs'[s].attempts, edition |-> None, cases |-> <<>>,
           seen |-> <<>>, verdict |-> None, first |-> FALSE]
  BY DEF NewGrading
<1> QED
  BY <1>1, <1>2, NoneAssumption, MaxLenFacts DEF Handler, GradingShaped, SawRows

LEMMA SubmitKeepsGradings ==
    ASSUME StoreInv, GradingInv, NEW u \in User, NEW p \in Problem, NEW sheet \in Sheet,
           NEW s \in Id, Submit(u, p, sheet, s)
    PROVE  GradingInv'
<1>1. PICK r : r = [user |-> u, problem |-> p, sheet |-> sheet, status |-> "queued",
                    verdict |-> None, version |-> None, attempts |-> 0, seen |-> None]
  OBVIOUS
<1>2. r \in Submission
  BY <1>1 DEF Submission
<1>3. /\ subs' = [subs EXCEPT ![s] = r] /\ life[p] = "here" /\ ~Known(s)
      /\ UNCHANGED storeVars /\ kind' = kind /\ rejudged' = rejudged /\ recounted' = recounted
      /\ gradings' = gradings \/ gradings' = gradings \cup {NewGrading(s, "api")'}
  BY <1>1 DEF Submit
<1>4. subs'[s] = r /\ life' = life /\ StoreInv'
  BY <1>3, StoreUnchanged DEF GradingInv, GradingTyped, storeVars
<1>5. SubShaped(s)' /\ Judged(s)' /\ r.status # "deleted"
  BY <1>1, <1>3, <1>4, NoneAssumption DEF SubShaped, Judged
<1>6. /\ subs' \in [Id -> Submission \cup {None}]
      /\ \A t \in Id : Known(t)' => SubShaped(t)' /\ Judged(t)'
      /\ \A g \in gradings : GradingShaped(g)' /\ SawRows(g)'
  BY <1>2, <1>3, <1>5, RowWritten
<1>7. PICK h : h = NewGrading(s, "api")'
  OBVIOUS
<1>8. h \in Handler /\ GradingShaped(h)' /\ SawRows(h)'
  BY <1>1, <1>2, <1>4, <1>7, GradingBegins
<1>9. GradingTyped'
  BY <1>3, <1>6, <1>7, <1>8 DEF GradingInv, GradingTyped
<1> QED
  BY <1>3, <1>6, <1>7, <1>8, <1>9 DEF GradingInv

LEMMA ClaimKeepsGradings ==
    ASSUME StoreInv, GradingInv, NEW s \in Id, Claim(s)
    PROVE  GradingInv'
<1>1. PICK r : r = [subs[s] EXCEPT !.status = "judging", !.attempts = subs[s].attempts + 1]
  OBVIOUS
<1>2. subs[s] \in Submission /\ subs[s].attempts + 1 \in Nat /\ SubShaped(s)
      /\ subs[s].status = "queued" /\ Known(s)
  BY DEF Claim, Known, Submission, GradingInv, GradingTyped
<1>3. /\ r \in Submission /\ r.status = "judging" /\ r.problem = subs[s].problem
      /\ r.version = subs[s].version
  BY <1>1, <1>2 DEF Submission
<1>4. /\ subs' = [subs EXCEPT ![s] = r]
      /\ UNCHANGED storeVars /\ kind' = kind /\ rejudged' = rejudged /\ recounted' = recounted
      /\ gradings' = gradings \cup {NewGrading(s, "worker")'}
  BY <1>1 DEF Claim
<1>5. subs'[s] = r /\ life' = life /\ version' = version
  BY <1>4 DEF GradingInv, GradingTyped, storeVars
<1>6. SubShaped(s)' /\ Judged(s)'
  BY <1>2, <1>3, <1>5 DEF SubShaped, Judged
<1>7. /\ subs' \in [Id -> Submission \cup {None}]
      /\ \A t \in Id : Known(t)' => SubShaped(t)' /\ Judged(t)'
      /\ \A g \in gradings : GradingShaped(g)' /\ SawRows(g)'
  BY <1>3, <1>4, <1>6, RowWritten
<1>8. PICK h : h = NewGrading(s, "worker")'
  OBVIOUS
<1>9. h \in Handler /\ GradingShaped(h)' /\ SawRows(h)'
  BY <1>3, <1>5, <1>8, GradingBegins
<1>10. GradingTyped'
  BY <1>4, <1>7, <1>8, <1>9 DEF GradingInv, GradingTyped
<1> QED
  BY <1>4, <1>7, <1>8, <1>9, <1>10 DEF GradingInv

\* A grading goes on and writes nothing.
LEMMA GradingGoesOn ==
    ASSUME StoreInv, GradingInv, NEW g \in gradings, NEW h \in Handler,
           Moves(g, h), UNCHANGED <<storeVars, kind, subs, rejudged, recounted>>,
           GradingShaped(h), SawRows(h)
    PROVE  GradingInv'
<1>1. /\ \A t \in Id : Known(t)' => SubShaped(t)' /\ Judged(t)'
      /\ \A c \in gradings : GradingShaped(c)' /\ SawRows(c)'
  BY RowsStay
<1>2. GradingShaped(h)' /\ SawRows(h)'
  <2>1. (Dirty(h.problem)' <=> Dirty(h.problem)) /\ (Known(h.sub)' <=> Known(h.sub))
    BY DEF Dirty, EditsOf, storeVars, Known
  <2> QED
    BY <2>1 DEF GradingShaped, SawRows, storeVars
<1>3. GradingTyped'
  BY DEF GradingInv, GradingTyped, Moves
<1> QED
  BY <1>1, <1>2, <1>3 DEF GradingInv, Moves

\* What all the steps of a grading before its end have in common.
LEMMA ReadMoves ==
    ASSUME NEW g \in Handler,
           ReadProblem(g) \/ ReadRows(g) \/ ReadFile(g) \/ OpenTransaction(g)
    PROVE  \E h : /\ gradings' = (gradings \ {g}) \cup {h}
                  /\ h.sub = g.sub /\ h.by = g.by /\ h.tries = g.tries
                  /\ h.problem = g.problem
                  /\ ~OpenTransaction(g) => h.step # "commit" /\ h.verdict = g.verdict
<1>1. CASE ReadProblem(g)
  <2>1. PICK h : h = [g EXCEPT !.step = "rows",
                         !.version = IF g.by = "worker" THEN version[g.problem] ELSE None]
    OBVIOUS
  <2>2. gradings' = (gradings \ {g}) \cup {h}
    BY <1>1, <2>1 DEF ReadProblem, Reads, Moves
  <2>3. /\ h.sub = g.sub /\ h.by = g.by /\ h.tries = g.tries /\ h.problem = g.problem
        /\ h.step # "commit" /\ h.verdict = g.verdict
    BY <2>1 DEF Handler
  <2> QED
    BY <2>2, <2>3, Zenon
<1>2. CASE ReadRows(g)
  <2>1. PICK h : h = [g EXCEPT !.step = "files", !.cases = rows[g.problem],
                               !.edition = edition[g.problem]]
    OBVIOUS
  <2>2. gradings' = (gradings \ {g}) \cup {h}
    BY <1>2, <2>1 DEF ReadRows, Reads, Moves
  <2>3. /\ h.sub = g.sub /\ h.by = g.by /\ h.tries = g.tries /\ h.problem = g.problem
        /\ h.step # "commit" /\ h.verdict = g.verdict
    BY <2>1 DEF Handler
  <2> QED
    BY <2>2, <2>3, Zenon
<1>3. CASE ReadFile(g)
  <2>1. PICK h : h = [g EXCEPT !.seen = Append(g.seen, files[g.problem][Len(g.seen) + 1])]
    OBVIOUS
  <2>2. gradings' = (gradings \ {g}) \cup {h} /\ g.step = "files"
    BY <1>3, <2>1 DEF ReadFile, Reads, Moves
  <2>3. /\ h.sub = g.sub /\ h.by = g.by /\ h.tries = g.tries /\ h.problem = g.problem
        /\ h.step # "commit" /\ h.verdict = g.verdict
    BY <2>1, <2>2 DEF Handler
  <2> QED
    BY <2>2, <2>3, Zenon
<1>4. CASE OpenTransaction(g)
  <2>1. PICK h : h = [g EXCEPT !.step = "commit", !.verdict = VerdictOf(g),
                          !.first = VerdictOf(g) = "accepted" /\ FirstAccepted(g)]
    OBVIOUS
  <2>2. gradings' = (gradings \ {g}) \cup {h}
    BY <1>4, <2>1 DEF OpenTransaction, Moves
  <2>3. h.sub = g.sub /\ h.by = g.by /\ h.tries = g.tries /\ h.problem = g.problem
    BY <2>1 DEF Handler
  <2> QED
    BY <1>4, <2>2, <2>3, Zenon
<1> QED
  BY <1>1, <1>2, <1>3, <1>4

LEMMA ReadKeepsGradings ==
    ASSUME StoreInv, GradingInv, NEW g \in gradings,
           ReadProblem(g) \/ ReadRows(g) \/ ReadFile(g) \/ OpenTransaction(g)
    PROVE  GradingInv'
<1> DEFINE p == g.problem
<1>1. /\ g \in Handler /\ GradingShaped(g) /\ SawRows(g) /\ p \in Problem
      /\ life[p] = "here"
  BY GradedHere DEF GradingInv
<1>2. /\ version[p] \in Nat /\ edition[p] \in Nat /\ rows[p] \in Seq(Body)
      /\ files[p] \in [Idx -> Body \cup {None}] /\ Orderly(p)
  BY <1>1 DEF StoreInv, StoreTyped
<1>3. CASE ReadProblem(g)
  <2>1. PICK h : h = [g EXCEPT !.step = "rows",
                         !.version = IF g.by = "worker" THEN version[g.problem] ELSE None]
    OBVIOUS
  <2>2. /\ h \in Handler /\ h.sub = g.sub /\ h.problem = g.problem /\ h.by = g.by
        /\ h.step = "rows" /\ h.cases = g.cases /\ h.seen = g.seen /\ h.first = g.first
        /\ h.verdict = g.verdict
        /\ h.by = "worker" => h.version = version[p]
    BY <1>1, <1>2, <2>1 DEF Handler
  <2>3. g.step = "problem" /\ Reads(g, h)
    BY <1>3, <2>1 DEF ReadProblem
  <2>4. GradingShaped(h) /\ SawRows(h)
    BY <1>1, <1>2, <2>2, <2>3 DEF GradingShaped, SawRows
  <2> QED
    BY <2>2, <2>3, <2>4, GradingGoesOn DEF Reads
<1>4. CASE ReadRows(g)
  <2>1. PICK h : h = [g EXCEPT !.step = "files", !.cases = rows[g.problem],
                               !.edition = edition[g.problem]]
    OBVIOUS
  <2>2. /\ h \in Handler /\ h.sub = g.sub /\ h.problem = g.problem /\ h.by = g.by
        /\ h.step = "files" /\ h.cases = rows[p] /\ h.seen = g.seen /\ h.first = g.first
        /\ h.verdict = g.verdict /\ h.version = g.version /\ h.edition = edition[p]
    BY <1>1, <1>2, <2>1 DEF Handler
  <2>3. g.step = "rows" /\ Reads(g, h)
    BY <1>4, <2>1 DEF ReadRows
  <2>4. g.seen = <<>>
    <3>1. g.seen \in Seq(Body \cup {None}) /\ Len(g.seen) <= 0
      BY <1>1, <2>3 DEF GradingShaped, Handler
    <3> QED
      BY <3>1
  <2>5. GradingShaped(h) /\ SawRows(h)
    BY <1>1, <1>2, <2>2, <2>3, <2>4 DEF GradingShaped, SawRows, Orderly, ProblemInOrder
  <2> QED
    BY <2>2, <2>3, <2>5, GradingGoesOn DEF Reads
<1>5. CASE ReadFile(g)
  <2> DEFINE i == Len(g.seen) + 1
  <2>1. PICK found : found = files[p][i]
    OBVIOUS
  <2>2. PICK h : h = [g EXCEPT !.seen = Append(g.seen, found)]
    OBVIOUS
  <2>3. /\ g.step = "files" /\ Len(g.seen) < Len(g.cases) /\ Reads(g, h)
        /\ g.seen \in Seq(Body \cup {None}) /\ g.cases \in Seq(Body)
    BY <1>1, <1>5, <2>1, <2>2 DEF ReadFile, Handler
  <2>4. g.edition = edition[p] => g.cases = rows[p]
    BY <1>1, <2>3 DEF SawRows
  <2>5. found \in Body \cup {None} /\ i \in 1..Len(g.cases)
    <3>1. i \in 1..Len(g.cases) /\ i \in Idx
      BY <1>1, <2>3, MaxLenFacts DEF GradingShaped, Idx
    <3> QED
      BY <1>2, <2>1, <3>1
  <2>6. /\ Append(g.seen, found) \in Seq(Body \cup {None})
        /\ Len(Append(g.seen, found)) = i /\ Append(g.seen, found)[i] = found
        /\ DOMAIN Append(g.seen, found) = 1..i
        /\ \A k \in 1..i : k # i => k \in DOMAIN g.seen /\ Append(g.seen, found)[k] = g.seen[k]
    BY <2>3, <2>5
  <2>7. /\ h \in Handler /\ h.sub = g.sub /\ h.problem = g.problem /\ h.by = g.by
        /\ h.step = "files" /\ h.cases = g.cases /\ h.seen = Append(g.seen, found)
        /\ h.first = g.first /\ h.verdict = g.verdict /\ h.version = g.version
        /\ h.edition = g.edition
    BY <1>1, <2>2, <2>3, <2>6 DEF Handler
  <2>8. GradingShaped(h)
    BY <1>1, <2>3, <2>5, <2>6, <2>7 DEF GradingShaped
  <2>9. ASSUME g.edition = edition[p], ~Dirty(p) PROVE found = g.cases[i]
    <3>1. g.cases = rows[p] /\ rows[p] # <<>> /\ i \in DOMAIN rows[p]
      BY <2>3, <2>4, <2>5, <2>9
    <3>2. ~Meets(p) /\ p \notin torn
      <4>1. ASSUME NEW e \in EditsOf(p) PROVE FALSE
        <5>1. e.kind = "import" /\ e.alone /\ e.problem = p
          BY <2>9 DEF Dirty, EditsOf
        <5> QED
          BY <1>2, <3>1, <5>1 DEF Orderly, AloneInOrder
      <4> QED
        BY <2>9, <4>1 DEF Dirty, Meets
    <3>3. files[p] = Holding(rows[p]) /\ Len(rows[p]) <= MaxLen
      BY <1>2, <3>2 DEF Orderly, ProblemInOrder
    <3>4. i \in Idx
      BY <1>2, <3>1, <3>3, MaxLenFacts DEF Idx
    <3> QED
      BY <2>1, <3>1, <3>3, <3>4 DEF Holding
  <2>10. SawRows(h)
    <3> SUFFICES ASSUME g.edition = edition[p], ~Dirty(p), NEW k \in DOMAIN h.seen
                 PROVE  h.seen[k] = g.cases[k]
      BY <2>4, <2>7 DEF SawRows
    <3>1. CASE k = i
      BY <2>6, <2>7, <2>9, <3>1
    <3>2. CASE k # i
      <4>1. k \in DOMAIN g.seen /\ h.seen[k] = g.seen[k]
        BY <2>6, <2>7, <3>2
      <4> QED
        BY <1>1, <2>3, <4>1 DEF SawRows
    <3> QED
      BY <3>1, <3>2
  <2> QED
    BY <2>3, <2>7, <2>8, <2>10, GradingGoesOn DEF Reads
<1>6. CASE OpenTransaction(g)
  <2>1. PICK v \in Verdict : v = VerdictOf(g)
    BY DEF VerdictOf, Verdict
  <2>2. PICK first \in BOOLEAN : first = (v = "accepted" /\ FirstAccepted(g))
    BY Zenon
  <2>3. PICK h : h = [g EXCEPT !.step = "commit", !.verdict = v, !.first = first]
    OBVIOUS
  <2>4. /\ h \in Handler /\ h.sub = g.sub /\ h.problem = g.problem /\ h.by = g.by
        /\ h.step = "commit" /\ h.cases = g.cases /\ h.seen = g.seen
        /\ h.first = first /\ h.verdict = v /\ h.version = g.version
        /\ h.edition = g.edition
    BY <1>1, <2>3 DEF Handler
  <2>5. /\ g.step = "files" /\ Len(g.seen) = Len(g.cases)
        /\ g.cases = <<>> \/ g.edition = edition[p]
        /\ Moves(g, h) /\ UNCHANGED <<storeVars, kind, subs, rejudged, recounted>>
    BY <1>6, <2>1, <2>2, <2>3 DEF OpenTransaction, RowsStillThere
  <2>6. first => v = "accepted"
    BY <2>2
  <2>7. GradingShaped(h) /\ SawRows(h)
    BY <1>1, <2>4, <2>5, <2>6 DEF GradingShaped, SawRows
  <2> QED
    BY <2>4, <2>5, <2>7, GradingGoesOn
<1> QED
  BY <1>3, <1>4, <1>5, <1>6

\* The row that a grading writes at its end.
LEMMA RowAtEnd ==
    ASSUME StoreInv, GradingInv, NEW g \in gradings, Commit(g) \/ JudgeFailure(g)
    PROVE  \E r \in Submission :
             /\ subs' = [subs EXCEPT ![g.sub] = r] /\ subs'[g.sub] = r
             /\ r.user = subs[g.sub].user /\ r.problem = subs[g.sub].problem
             /\ r.attempts = subs[g.sub].attempts
             /\ \/ /\ Commit(g) /\ r.status = "done" /\ r.verdict = g.verdict
                   /\ r.seen = g.seen
                   /\ r.version = IF g.by = "worker" THEN g.version ELSE subs[g.sub].version
                \/ /\ JudgeFailure(g) /\ r.version = subs[g.sub].version
                   /\ \/ GivesUp(g) /\ r.status = "done" /\ r.seen = <<>>
                         /\ r.verdict = "internal_error"
                      \/ ~GivesUp(g) /\ r.status = "queued" /\ r.verdict = subs[g.sub].verdict
<1> DEFINE s == g.sub
<1>1. s \in Id /\ subs[s] \in Submission /\ g \in Handler /\ subs \in [Id -> Submission \cup {None}]
  BY GradedHere DEF GradingInv, GradingTyped
<1>2. CASE Commit(g)
  <2>1. PICK r : r = [subs[s] EXCEPT !.status = "done", !.verdict = g.verdict, !.seen = g.seen,
                      !.version = IF g.by = "worker" THEN g.version ELSE subs[s].version]
    OBVIOUS
  <2>2. /\ r \in Submission /\ r.status = "done" /\ r.problem = subs[s].problem
        /\ r.version = IF g.by = "worker" THEN g.version ELSE subs[s].version
        /\ r.seen = g.seen /\ r.verdict = g.verdict
    BY <1>1, <2>1 DEF Submission, Handler
  <2>3. r.user = subs[s].user /\ r.attempts = subs[s].attempts
    BY <1>1, <2>1 DEF Submission
  <2>4. subs' = [subs EXCEPT ![s] = r]
    BY <1>2, <2>1 DEF Commit
  <2> QED
    BY <1>1, <1>2, <2>2, <2>3, <2>4
<1>3. CASE JudgeFailure(g)
  <2>1. PICK r : r = IF GivesUp(g)
                     THEN [subs[s] EXCEPT !.status = "done", !.verdict = "internal_error",
                                          !.seen = <<>>]
                     ELSE [subs[s] EXCEPT !.status = "queued"]
    OBVIOUS
  <2>2. /\ r \in Submission /\ r.problem = subs[s].problem /\ r.version = subs[s].version
        /\ r.user = subs[s].user /\ r.attempts = subs[s].attempts
        /\ \/ GivesUp(g) /\ r.status = "done" /\ r.seen = <<>> /\ r.verdict = "internal_error"
           \/ ~GivesUp(g) /\ r.status = "queued" /\ r.verdict = subs[s].verdict
    <3>1. CASE GivesUp(g)
      <4>1. r = [subs[s] EXCEPT !.status = "done", !.verdict = "internal_error", !.seen = <<>>]
        BY <2>1, <3>1
      <4>2. <<>> \in Seq(Body \cup {None}) /\ "internal_error" \in Verdict
        BY DEF Verdict
      <4> QED
        BY <1>1, <3>1, <4>1, <4>2 DEF Submission
    <3>2. CASE ~GivesUp(g)
      <4>1. r = [subs[s] EXCEPT !.status = "queued"]
        BY <2>1, <3>2
      <4> QED
        BY <1>1, <3>2, <4>1 DEF Submission
    <3> QED
      BY <3>1, <3>2
  <2>3. subs' = [subs EXCEPT ![s] = r]
    BY <1>3, <2>1 DEF JudgeFailure
  <2> QED
    BY <1>1, <1>3, <2>2, <2>3
<1> QED
  BY <1>2, <1>3

LEMMA CommitKeepsGradings ==
    ASSUME StoreInv, GradingInv, NEW g \in gradings, Commit(g)
    PROVE  GradingInv'
<1> DEFINE s == g.sub
           p == g.problem
<1>1. /\ g \in Handler /\ GradingShaped(g) /\ SawRows(g) /\ p \in Problem /\ s \in Id
      /\ life[p] = "here" /\ subs[s] \in Submission /\ SubShaped(s)
  BY GradedHere DEF GradingInv, GradingShaped
<1>2. /\ version[p] \in Nat /\ edition[p] \in Nat /\ rows[p] \in Seq(Body)
  BY <1>1 DEF StoreInv, StoreTyped
<1>3. ~JudgeFailure(g)
  BY DEF Commit, JudgeFailure
<1>4. /\ g.step = "commit" /\ UNCHANGED storeVars /\ kind' = kind
      /\ rejudged' = rejudged /\ recounted' = recounted /\ gradings' = gradings \ {g}
  BY DEF Commit
<1>5. PICK r \in Submission :
         /\ subs' = [subs EXCEPT ![s] = r] /\ r.status = "done" /\ r.problem = subs[s].problem
         /\ r.version = IF g.by = "worker" THEN g.version ELSE subs[s].version
         /\ r.seen = g.seen /\ r.verdict = g.verdict
  BY <1>3, RowAtEnd
<1>6. subs'[s] = r /\ life' = life /\ version' = version /\ rows' = rows
      /\ (Dirty(p)' <=> Dirty(p))
  BY <1>1, <1>4, <1>5 DEF GradingInv, GradingTyped, storeVars, Dirty, EditsOf
<1>7. g.verdict # None /\ (r.version \in Nat => r.version <= version[p])
  BY <1>1, <1>4, <1>5, NoneAssumption DEF GradingShaped, SubShaped
<1>8. subs[s].problem = p /\ life[p] # "new" /\ life[p] # "gone"
  BY <1>1 DEF GradingShaped
<1>9. SubShaped(s)'
  BY <1>5, <1>6, <1>7, <1>8 DEF SubShaped
<1>10. Dirty(p) \/ g.seen = rows[p] \/ g.seen = <<>>
  <2>1. /\ g.seen \in Seq(Body \cup {None}) /\ g.cases \in Seq(Body)
        /\ Len(g.seen) = Len(g.cases)
    BY <1>1, <1>4 DEF Handler, GradingShaped
  <2>2. CASE g.cases = <<>>
    BY <2>1, <2>2
  <2>3. CASE g.cases # <<>>
    <3>1. g.cases = rows[p] /\ (Dirty(p) \/ \A i \in DOMAIN g.seen : g.seen[i] = g.cases[i])
      BY <1>1, <1>4, <2>3 DEF GradingShaped, SawRows
    <3>2. ASSUME \A i \in DOMAIN g.seen : g.seen[i] = g.cases[i] PROVE g.seen = g.cases
      BY <2>1, <3>2
    <3> QED
      BY <3>1, <3>2
  <2> QED
    BY <2>2, <2>3
<1>11. Judged(s)'
  BY <1>5, <1>6, <1>8, <1>10 DEF Judged
<1>12. /\ subs' \in [Id -> Submission \cup {None}]
       /\ \A t \in Id : Known(t)' => SubShaped(t)' /\ Judged(t)'
       /\ \A c \in gradings : GradingShaped(c)' /\ SawRows(c)'
  BY <1>1, <1>4, <1>5, <1>9, <1>11, RowWritten
<1>13. GradingTyped'
  BY <1>4, <1>12 DEF GradingInv, GradingTyped
<1> QED
  BY <1>4, <1>12, <1>13 DEF GradingInv

LEMMA FailureKeepsGradings ==
    ASSUME StoreInv, GradingInv, NEW g \in gradings, JudgeFailure(g)
    PROVE  GradingInv'
<1> DEFINE s == g.sub
           p == g.problem
<1>1. /\ g \in Handler /\ GradingShaped(g) /\ p \in Problem /\ s \in Id
      /\ life[p] = "here" /\ subs[s] \in Submission /\ SubShaped(s)
  BY GradedHere DEF GradingInv, GradingShaped
<1>2. ~Commit(g)
  BY DEF Commit, JudgeFailure
<1>3. /\ UNCHANGED storeVars /\ kind' = kind /\ rejudged' = rejudged /\ recounted' = recounted
      /\ gradings' = gradings \ {g}
  BY DEF JudgeFailure
<1>4. PICK r \in Submission :
         /\ subs' = [subs EXCEPT ![s] = r] /\ r.problem = subs[s].problem
         /\ r.version = subs[s].version
         /\ \/ r.status = "queued"
            \/ r.status = "done" /\ r.verdict = "internal_error" /\ r.seen = <<>>
  BY <1>2, RowAtEnd
<1>5. subs'[s] = r /\ life' = life /\ version' = version /\ rows' = rows
  BY <1>1, <1>3, <1>4 DEF GradingInv, GradingTyped, storeVars
<1>6. SubShaped(s)' /\ Judged(s)' /\ r.status # "deleted"
  BY <1>1, <1>4, <1>5, NoneAssumption DEF SubShaped, Judged, GradingShaped, Verdict
<1>7. /\ subs' \in [Id -> Submission \cup {None}]
      /\ \A t \in Id : Known(t)' => SubShaped(t)' /\ Judged(t)'
      /\ \A c \in gradings : GradingShaped(c)' /\ SawRows(c)'
  BY <1>1, <1>3, <1>4, <1>6, RowWritten
<1>8. GradingTyped'
  BY <1>3, <1>7 DEF GradingInv, GradingTyped
<1> QED
  BY <1>3, <1>7, <1>8 DEF GradingInv

LEMMA QuietKeepsGradings ==
    ASSUME StoreInv, GradingInv,
           Recount \/ UNCHANGED vars \/ \E g \in gradings : GradeFails(g)
    PROVE  GradingInv'
<1>1. /\ UNCHANGED <<storeVars, kind, subs, rejudged>> /\ gradings' \subseteq gradings
      /\ recounted' \in {recounted, recounted + 1}
  BY DEF Recount, GradeFails, vars, subVars
<1>2. /\ \A t \in Id : Known(t)' => SubShaped(t)' /\ Judged(t)'
      /\ \A c \in gradings : GradingShaped(c)' /\ SawRows(c)'
  BY <1>1, RowsStay
<1>3. GradingTyped'
  BY <1>1 DEF GradingInv, GradingTyped
<1> QED
  BY <1>1, <1>2, <1>3 DEF GradingInv

LEMMA Requeued ==
    ASSUME NEW row \in Submission, NEW r,
           r = [row EXCEPT !.status = "queued", !.verdict = None, !.attempts = 0, !.seen = None]
    PROVE  /\ r \in Submission /\ r.status = "queued" /\ r.verdict = None /\ r.attempts = 0
           /\ r.problem = row.problem /\ r.version = row.version /\ r.user = row.user
BY DEF Submission

LEMMA RejudgeKeepsGradings ==
    ASSUME StoreInv, GradingInv, NEW S \in SUBSET Id, Rejudge(S)
    PROVE  GradingInv'
<1>1. /\ UNCHANGED <<storeVars, kind, gradings, recounted>> /\ rejudged' = rejudged + 1
      /\ \A s \in S : Known(s) /\ subs[s].status # "deleted"
      /\ subs' = [s \in Id |-> IF s \in S THEN [subs[s] EXCEPT !.status = "queued",
                                                 !.verdict = None, !.attempts = 0,
                                                 !.seen = None]
                               ELSE subs[s]]
  BY DEF Rejudge
<1>2. ASSUME NEW s \in S
      PROVE  /\ subs'[s] \in Submission /\ subs'[s].problem = subs[s].problem
             /\ subs'[s].version = subs[s].version /\ subs'[s].status = "queued"
             /\ SubShaped(s)
  <2>1. subs[s] \in Submission /\ SubShaped(s)
    BY <1>1 DEF GradingInv, GradingTyped, Known
  <2>2. subs'[s] = [subs[s] EXCEPT !.status = "queued", !.verdict = None, !.attempts = 0,
                                   !.seen = None]
    <3>1. s \in Id
      OBVIOUS
    <3> QED
      BY <1>1, <3>1, Zenon
  <2>3. PICK row \in Submission : row = subs[s]
    BY <2>1
  <2>4. PICK r : r = subs'[s]
    OBVIOUS
  <2>5. r = [row EXCEPT !.status = "queued", !.verdict = None, !.attempts = 0, !.seen = None]
    BY <2>2, <2>3, <2>4
  <2>6. /\ r \in Submission /\ r.problem = row.problem /\ r.version = row.version
        /\ r.status = "queued"
    BY <2>5, Requeued
  <2> QED
    BY <2>1, <2>3, <2>4, <2>6
<1>3. \A s \in Id \ S : subs'[s] = subs[s]
  BY <1>1
<1>4. \A s \in Id : Known(s)' <=> Known(s)
  BY <1>1, <1>2, <1>3, NoneAssumption DEF Known
<1>5. StoreInv' /\ (\A p \in Problem : Effect(p)) /\ life' = life /\ edition' = edition
      /\ version' = version
  BY <1>1, StoreUnchanged DEF storeVars
<1>6. ASSUME NEW g \in gradings PROVE GradingShaped(g)' /\ SawRows(g)'
  <2>1. g.problem \in Problem /\ life[g.problem] = "here" /\ GradingShaped(g) /\ g.sub \in Id
    BY GradedHere DEF GradingInv
  <2>2. Known(g.sub)' /\ subs'[g.sub].problem = g.problem /\ subs'[g.sub].status # "deleted"
    BY <1>2, <1>3, <1>4, <2>1 DEF GradingShaped
  <2> QED
    BY <1>5, <2>1, <2>2, GradingKept DEF StoreInv
<1>7. ASSUME NEW s \in Id, Known(s)' PROVE SubShaped(s)' /\ Judged(s)'
  <2>1. CASE s \in S
    <3>1. SubShaped(s) /\ subs[s].status # "deleted"
      BY <1>1, <1>2, <2>1
    <3>2. Judged(s)'
      BY <1>2, <2>1 DEF Judged
    <3>3. SubShaped(s)'
      BY <1>2, <1>5, <2>1, <3>1 DEF SubShaped
    <3> QED
      BY <3>2, <3>3
  <2>2. CASE s \notin S
    <3>1. Known(s) /\ subs'[s] = subs[s] /\ subs[s].problem \in Problem
      BY <1>3, <1>4, <1>7, <2>2 DEF GradingInv, GradingTyped, Known, Submission
    <3> QED
      BY <1>5, <3>1, RowKept DEF StoreInv
  <2> QED
    BY <2>1, <2>2
<1>8. GradingTyped'
  <2>1. \A s \in Id : subs'[s] \in Submission \cup {None}
    BY <1>2, <1>3 DEF GradingInv, GradingTyped
  <2>2. subs' = [s \in Id |-> subs'[s]]
    BY <1>1
  <2>3. subs' \in [Id -> Submission \cup {None}]
    BY <2>1, <2>2
  <2>4. rejudged + 1 \in Nat
    BY DEF GradingInv, GradingTyped
  <2> QED
    BY <1>1, <2>3, <2>4 DEF GradingInv, GradingTyped
<1> QED
  BY <1>1, <1>6, <1>7, <1>8 DEF GradingInv

LEMMA GradingNext ==
    ASSUME StoreInv, GradingInv, [Next]_vars
    PROVE  GradingInv'
<1>1. \A p : OfProblem(p) \in SUBSET Id
  BY DEF OfProblem
<1>2. CASE Requests
  BY <1>1, <1>2, EditKeepsGradings, DeleteKeepsGradings, SubmitKeepsGradings,
     RejudgeKeepsGradings, QuietKeepsGradings DEF Requests
<1> QED
  BY <1>2, ClaimKeepsGradings, ReadKeepsGradings, CommitKeepsGradings, FailureKeepsGradings,
     QuietKeepsGradings DEF Next

LEMMA GradingAlways == Spec => [](StoreInv /\ GradingInv)
<1>1. Init => StoreInv /\ GradingInv
  <2> SUFFICES ASSUME Init PROVE StoreInv /\ GradingInv
    OBVIOUS
  <2>1. StoreInv
    BY InitStore DEF Init
  <2>2. GradingTyped /\ gradings = {} /\ \A s \in Id : ~Known(s)
    BY DEF Init, GradingTyped, Known
  <2> QED
    BY <2>1, <2>2 DEF GradingInv
<1>2. StoreInv /\ GradingInv /\ [Next]_vars => StoreInv' /\ GradingInv'
  BY StoreNext, GradingNext
<1> QED
  BY <1>1, <1>2, PTL DEF Spec

\* VersionTells, of every behaviour: a verdict that bears the present version of the test
\* cases was reached by comparing with the present bodies, or found no case at all.
THEOREM VersionsTell == Spec => []VersionTells
<1>1. StoreInv /\ GradingInv => VersionTells
  BY VersionSafe
<1> QED
  BY <1>1, GradingAlways, PTL

-----------------------------------------------------------------------------
(* Tries. Until the first rejudge a submission has one worker at most, and *)
(* none while it is queued.                                                *)

WorkersOf(s) == {g \in gradings : g.sub = s /\ g.by = "worker"}

TriesShaped(s) ==
    /\ subs[s].attempts <= MaxAttempts
    /\ subs[s].status = "queued" => WorkersOf(s) = {} /\ subs[s].attempts < MaxAttempts
    /\ \A g, h \in WorkersOf(s) : g = h
    /\ \A g \in WorkersOf(s) : g.tries = subs[s].attempts

Tried(s) ==
    /\ subs[s].status = "judging" => WorkersOf(s) # {}
    /\ rejudged = 0 => TriesShaped(s)

TriesInv == \A s \in Id : Known(s) => Tried(s)

LEMMA GradingTypeSafe ==
    ASSUME StoreInv, GradingInv, TriesInv
    PROVE  GradingTypeOK
<1>1. kind \in [Problem -> Kinds] /\ life \in [Problem -> {"new", "here", "gone"}]
  BY DEF GradingInv, GradingTyped, StoreInv, StoreTyped
<1>2. \A p \in Problem : /\ rows[p] \in Seq(Body) /\ files[p] \in [Idx -> Body \cup {None}]
                         /\ 1 <= version[p] /\ version[p] <= edition[p]
  BY DEF StoreInv, StoreTyped, Orderly, ProblemInOrder
<1>3. ASSUME NEW s \in Id, Known(s)
      PROVE  /\ subs[s] \in Submission
             /\ subs[s].status = "done" => subs[s].verdict # None
             /\ subs[s].status = "judging" => \E g \in GradingsOf(s) : g.by = "worker"
             /\ rejudged = 0 => subs[s].attempts <= MaxAttempts
  <2>1. subs[s] \in Submission /\ SubShaped(s) /\ Tried(s)
    BY <1>3 DEF GradingInv, GradingTyped, TriesInv, Known
  <2> QED
    BY <2>1 DEF SubShaped, Tried, TriesShaped, WorkersOf, GradingsOf
<1>4. \A g \in gradings : Known(g.sub) /\ Pair(g.sub)[2] = g.problem
  BY DEF GradingInv, GradingShaped, Pair
<1> QED
  BY <1>1, <1>2, <1>3, <1>4 DEF GradingTypeOK

\* A submission is not disturbed by what happens to others.
LEMMA TriedKept ==
    ASSUME NEW s \in Id, Tried(s), rejudged' = 0 => rejudged = 0,
           subs'[s].status = subs[s].status, subs'[s].attempts = subs[s].attempts,
           WorkersOf(s)' = WorkersOf(s)
    PROVE  Tried(s)'
BY DEF Tried, TriesShaped

LEMMA TriesNext ==
    ASSUME StoreInv, GradingInv, TriesInv, [Next]_vars
    PROVE  TriesInv'
<1>1. GradingInv' /\ StoreInv'
  BY GradingNext, StoreNext
<1>2. ASSUME subs' = subs, rejudged' = rejudged, \A s \in Id : WorkersOf(s)' = WorkersOf(s)
      PROVE  TriesInv'
  BY <1>2, TriedKept DEF TriesInv, Known
<1>3. CASE EditWithSubmissions \/ Recount \/ UNCHANGED vars
  BY <1>2, <1>3 DEF EditWithSubmissions, Recount, vars, subVars, WorkersOf
<1>4. ASSUME NEW g \in gradings, GradeFails(g) PROVE TriesInv'
  BY <1>2, <1>4 DEF GradeFails, WorkersOf
<1>5. ASSUME NEW p \in Problem, DeleteProblem(p) PROVE TriesInv'
  <2>1. /\ gradings' = {g \in gradings : g.problem # p} /\ rejudged' = rejudged
        /\ subs' = [s \in Id |-> IF s \in OfProblem(p)
                                 THEN [subs[s] EXCEPT !.status = "deleted", !.verdict = None]
                                 ELSE subs[s]]
    BY <1>5 DEF DeleteProblem
  <2>2. ASSUME NEW s \in Id, Known(s)' PROVE Tried(s)'
    <3>1. CASE s \in OfProblem(p)
      <4>1. subs[s] \in Submission /\ Tried(s) /\ subs[s].problem = p
        BY <3>1 DEF OfProblem, GradingInv, GradingTyped, TriesInv, Known
      <4>2. subs'[s] = [subs[s] EXCEPT !.status = "deleted", !.verdict = None]
        BY <2>1, <3>1
      <4>3. subs'[s].status = "deleted" /\ subs'[s].attempts = subs[s].attempts
        BY <4>1, <4>2 DEF Submission
      <4>4. WorkersOf(s)' = {}
        BY <2>1, <4>1 DEF WorkersOf, GradingInv, GradingShaped
      <4> QED
        BY <2>1, <4>1, <4>3, <4>4 DEF Tried, TriesShaped
    <3>2. CASE s \notin OfProblem(p)
      <4>1. subs'[s] = subs[s]
        BY <2>1, <3>2
      <4>2. Known(s) /\ subs[s].problem # p
        BY <2>2, <3>2, <4>1 DEF OfProblem, Known
      <4>3. WorkersOf(s)' = WorkersOf(s)
        <5>1. gradings' = {g \in gradings : g.problem # p}
          BY <2>1
        <5>2. \A g \in gradings : subs[g.sub].problem = g.problem
          BY DEF GradingInv, GradingShaped
        <5> QED
          BY <4>2, <5>1, <5>2 DEF WorkersOf
      <4> QED
        BY <2>1, <4>1, <4>2, <4>3, TriedKept DEF TriesInv
    <3> QED
      BY <3>1, <3>2
  <2> QED
    BY <2>2 DEF TriesInv
\* One row written, and the gradings of others left alone.
<1>6. ASSUME NEW s \in Id, NEW r \in Submission, subs' = [subs EXCEPT ![s] = r],
             rejudged' = rejudged, \A t \in Id \ {s} : WorkersOf(t)' = WorkersOf(t),
             Tried(s)'
      PROVE  TriesInv'
  <2>1. subs'[s] = r /\ \A t \in Id \ {s} : subs'[t] = subs[t]
    BY <1>6 DEF GradingInv, GradingTyped
  <2> QED
    BY <1>6, <2>1, TriedKept DEF TriesInv, Known
<1>7. ASSUME NEW u \in User, NEW p \in Problem, NEW sheet \in Sheet, NEW s \in Id,
             Submit(u, p, sheet, s)
      PROVE  TriesInv'
  <2>1. PICK r : r = [user |-> u, problem |-> p, sheet |-> sheet, status |-> "queued",
                      verdict |-> None, version |-> None, attempts |-> 0, seen |-> None]
    OBVIOUS
  <2>2. /\ subs' = [subs EXCEPT ![s] = r] /\ ~Known(s) /\ rejudged' = rejudged
        /\ gradings' = gradings \/ gradings' = gradings \cup {NewGrading(s, "api")'}
    BY <1>7, <2>1 DEF Submit
  <2>3. r \in Submission /\ subs'[s] = r
    BY <2>1, <2>2 DEF Submission, GradingInv, GradingTyped
  <2>4. PICK h : h = NewGrading(s, "api")'
    OBVIOUS
  <2>5. h.by = "api"
    BY <2>4 DEF NewGrading
  <2>6. \A t \in Id : WorkersOf(t)' = WorkersOf(t)
    BY <2>2, <2>4, <2>5 DEF WorkersOf
  <2>7. WorkersOf(s) = {}
    BY <2>2 DEF WorkersOf, GradingInv, GradingShaped
  <2>8. Tried(s)'
    BY <2>1, <2>3, <2>6, <2>7, GradingAssumption DEF Tried, TriesShaped
  <2> QED
    BY <1>6, <2>2, <2>3, <2>6, <2>8
<1>8. ASSUME NEW s \in Id, Claim(s) PROVE TriesInv'
  <2>1. PICK r : r = [subs[s] EXCEPT !.status = "judging", !.attempts = subs[s].attempts + 1]
    OBVIOUS
  <2>2. subs[s] \in Submission /\ subs[s].attempts \in Nat /\ subs[s].attempts + 1 \in Nat
        /\ subs[s].status = "queued" /\ Known(s) /\ Tried(s)
    BY <1>8 DEF Claim, Known, Submission, GradingInv, GradingTyped, TriesInv
  <2>3. r \in Submission /\ r.status = "judging" /\ r.attempts = subs[s].attempts + 1
    BY <2>1, <2>2 DEF Submission
  <2>4. /\ subs' = [subs EXCEPT ![s] = r] /\ rejudged' = rejudged
        /\ gradings' = gradings \cup {NewGrading(s, "worker")'}
    BY <1>8, <2>1 DEF Claim
  <2>5. subs'[s] = r
    BY <2>4 DEF GradingInv, GradingTyped
  <2>6. PICK h : h = NewGrading(s, "worker")'
    OBVIOUS
  <2>7. h.sub = s /\ h.by = "worker" /\ h.tries = r.attempts
    BY <2>5, <2>6 DEF NewGrading
  <2>8. WorkersOf(s)' = WorkersOf(s) \cup {h} /\ \A t \in Id \ {s} : WorkersOf(t)' = WorkersOf(t)
    BY <2>4, <2>6, <2>7 DEF WorkersOf
  <2>9. Tried(s)'
    BY <2>2, <2>3, <2>4, <2>5, <2>7, <2>8, GradingAssumption DEF Tried, TriesShaped
  <2> QED
    BY <1>6, <2>3, <2>4, <2>8, <2>9
<1>9. ASSUME NEW g \in gradings,
             ReadProblem(g) \/ ReadRows(g) \/ ReadFile(g) \/ OpenTransaction(g)
      PROVE  TriesInv'
  <2>1. g \in Handler
    BY DEF GradingInv, GradingTyped
  <2>2. PICK h : /\ gradings' = (gradings \ {g}) \cup {h} /\ h.sub = g.sub
                 /\ h.by = g.by /\ h.tries = g.tries
    BY <1>9, <2>1, ReadMoves
  <2>3. subs' = subs /\ rejudged' = rejudged
    BY <1>9 DEF ReadProblem, ReadRows, ReadFile, OpenTransaction, Reads
  <2>4. ASSUME NEW s \in Id, Tried(s) PROVE Tried(s)'
    <3>1. CASE s = g.sub /\ g.by = "worker"
      <4>1. WorkersOf(s)' = (WorkersOf(s) \ {g}) \cup {h} /\ g \in WorkersOf(s)
        BY <2>2, <3>1 DEF WorkersOf
      <4> QED
        BY <2>2, <2>3, <2>4, <4>1 DEF Tried, TriesShaped
    <3>2. CASE ~(s = g.sub /\ g.by = "worker")
      <4>1. WorkersOf(s)' = WorkersOf(s)
        BY <2>2, <3>2 DEF WorkersOf
      <4> QED
        BY <2>3, <2>4, <4>1, TriedKept
    <3> QED
      BY <3>1, <3>2
  <2> QED
    BY <2>3, <2>4 DEF TriesInv, Known
<1>10. ASSUME NEW g \in gradings, Commit(g) \/ JudgeFailure(g) PROVE TriesInv'
  <2> DEFINE s == g.sub
  <2>1. s \in Id /\ subs[s] \in Submission /\ Tried(s) /\ g \in Handler
    BY GradedHere DEF TriesInv, GradingInv, GradingShaped
  <2>2. subs[s].attempts \in Nat /\ g.tries \in Nat
    BY <2>1 DEF Submission, Handler
  <2>3. PICK r \in Submission :
           /\ subs' = [subs EXCEPT ![s] = r] /\ subs'[s] = r /\ r.attempts = subs[s].attempts
           /\ \/ r.status = "done"
              \/ r.status = "queued" /\ JudgeFailure(g) /\ ~GivesUp(g)
    BY <1>10, RowAtEnd
  <2>4. gradings' = gradings \ {g} /\ rejudged' = rejudged
    BY <1>10 DEF Commit, JudgeFailure
  <2>6. /\ WorkersOf(s)' = WorkersOf(s) \ {g}
        /\ \A t \in Id \ {s} : WorkersOf(t)' = WorkersOf(t)
    BY <2>4 DEF WorkersOf
  <2>7. ASSUME r.status = "queued", rejudged = 0
        PROVE  WorkersOf(s)' = {} /\ r.attempts < MaxAttempts
    <3>1. g \in WorkersOf(s) /\ ~(g.tries >= MaxAttempts)
      BY <2>3, <2>7 DEF WorkersOf, JudgeFailure, GivesUp
    <3>2. TriesShaped(s)
      BY <2>1, <2>7 DEF Tried
    <3> QED
      BY <2>2, <2>3, <2>6, <3>1, <3>2, GradingAssumption DEF TriesShaped
  <2>8. Tried(s)'
    BY <2>1, <2>3, <2>4, <2>6, <2>7 DEF Tried, TriesShaped
  <2> QED
    BY <1>6, <2>1, <2>3, <2>4, <2>6, <2>8
<1>11. ASSUME NEW S \in SUBSET Id, Rejudge(S) PROVE TriesInv'
  <2>1. /\ gradings' = gradings /\ rejudged' = rejudged + 1
        /\ \A s \in S : Known(s)
        /\ subs' = [s \in Id |-> IF s \in S THEN [subs[s] EXCEPT !.status = "queued",
                                                 !.verdict = None, !.attempts = 0,
                                                 !.seen = None]
                               ELSE subs[s]]
    BY <1>11 DEF Rejudge
  <2>2. ASSUME NEW s \in Id, Known(s)' PROVE Tried(s)'
    <3>1. rejudged' # 0 /\ WorkersOf(s)' = WorkersOf(s)
      <4>1. rejudged \in Nat
        BY DEF GradingInv, GradingTyped
      <4>2. rejudged' # 0
        <5>1. rejudged' = rejudged + 1
          BY <2>1
        <5>2. \A n \in Nat : n + 1 # 0
          OBVIOUS
        <5> QED
          BY <4>1, <5>1, <5>2
      <4>3. WorkersOf(s)' = WorkersOf(s)
        BY <2>1 DEF WorkersOf
      <4> QED
        BY <4>2, <4>3
    <3>2. CASE s \in S
      <4>1. subs[s] \in Submission
        BY <2>1, <3>2 DEF GradingInv, GradingTyped, Known
      <4>2. subs'[s] = [subs[s] EXCEPT !.status = "queued", !.verdict = None, !.attempts = 0,
                                       !.seen = None]
        BY <2>1, <3>2, Zenon
      <4> QED
        BY <3>1, <4>1, <4>2, Requeued DEF Tried
    <3>3. CASE s \notin S
      <4>1. subs'[s] = subs[s] /\ Known(s)
        BY <2>1, <2>2, <3>3 DEF Known
      <4> QED
        BY <3>1, <4>1 DEF Tried, TriesInv
    <3> QED
      BY <3>2, <3>3
  <2> QED
    BY <2>2 DEF TriesInv
<1>12. \A p : OfProblem(p) \in SUBSET Id
  BY DEF OfProblem
<1>13. CASE Requests
  BY <1>3, <1>5, <1>7, <1>11, <1>12, <1>13 DEF Requests
<1> QED
  BY <1>3, <1>4, <1>8, <1>9, <1>10, <1>13 DEF Next

\* Types; a row that a worker judges has a worker; and until somebody rejudges, no row is
\* tried more often than MAX_JUDGE_ATTEMPTS.
THEOREM GradingTypes == Spec => []GradingTypeOK
<1>1. Init => TriesInv
  BY DEF Init, TriesInv, Known
<1>2. StoreInv /\ GradingInv /\ TriesInv /\ [Next]_vars => TriesInv'
  BY TriesNext
<1>3. Spec => [](StoreInv /\ GradingInv /\ TriesInv)
  BY <1>1, <1>2, GradingAlways, PTL DEF Spec
<1>4. StoreInv /\ GradingInv /\ TriesInv => GradingTypeOK
  BY GradingTypeSafe
<1> QED
  BY <1>3, <1>4, PTL

-----------------------------------------------------------------------------
(* The counters. solved and accepted count the pairs of user and problem   *)
(* with an accepted submission. A pair that is not unsure has one open     *)
(* transaction at most that will accept it, and that one knows whether it  *)
(* is the first; one that is not the first finds a pair that was counted.  *)

Commits == {g \in gradings : g.step = "commit"}
OpenFor(pair) == {g \in Commits : g.verdict = "accepted" /\ Pair(g.sub) = pair}

FirstRight(g) ==
    g.verdict = "accepted" /\ Pair(g.sub) \notin unsure =>
        OpenFor(Pair(g.sub)) = {g} /\ (g.first <=> FirstAccepted(g))

\* Pairs that were counted, though the submission may meanwhile have lost its verdict.
Later == {g \in Commits : g.verdict = "accepted" /\ ~g.first}
Earned == AcceptedPairs \cup {Pair(g.sub) : g \in Later}

OfUser(u) == {u} \X Problem
OfAll(p) == User \X {p}
KnownOnes == {s \in Id : Known(s)}
KnownPairs == {Pair(s) : s \in KnownOnes}

CommitsInOrder ==
    /\ \A g \in Commits : FirstRight(g)
    /\ \A g, h \in Commits : g.sub = h.sub => g = h

Tallied(count, pairs) == pairs \cap unsure = {} => count = Cardinality(AcceptedPairs \cap pairs)

CounterInv ==
    /\ solved \in [User -> Nat] /\ accepted \in [Problem -> Nat]
    /\ IsFiniteSet(KnownOnes)
    /\ CommitsInOrder
    /\ \A u \in User : Tallied(solved[u], OfUser(u))
    /\ \A p \in Problem : Tallied(accepted[p], OfAll(p))
    /\ recounted = 0 => \A u \in User : solved[u] >= Cardinality(Earned \cap OfUser(u))

SentInv ==
    /\ sentTo \in [Problem -> Nat]
    /\ \A p \in Problem : life[p] # "gone" => sentTo[p] = Cardinality(OfProblem(p))

LEMMA KnownRow ==
    ASSUME GradingInv, NEW s \in Id, Known(s)
    PROVE  subs[s] \in Submission /\ Pair(s) \in User \X Problem /\ Pair(s) \in KnownPairs
BY DEF GradingInv, GradingTyped, Known, Pair, Submission, KnownPairs, KnownOnes

LEMMA PairsFinite ==
    ASSUME GradingInv, IsFiniteSet(KnownOnes)
    PROVE  /\ IsFiniteSet(KnownPairs) /\ KnownPairs \subseteq User \X Problem
           /\ AcceptedPairs \subseteq KnownPairs /\ Earned \subseteq KnownPairs
<1>1. PICK f : f = [s \in KnownOnes |-> Pair(s)]
  OBVIOUS
<1>2. f \in Surjection(KnownOnes, KnownPairs)
  BY <1>1 DEF Surjection, KnownPairs
<1>3. IsFiniteSet(KnownPairs)
  BY <1>2, FS_Surjection
<1>4. KnownPairs \subseteq User \X Problem
  BY KnownRow DEF KnownPairs, KnownOnes
<1>5. AcceptedPairs \subseteq KnownPairs
  BY DEF AcceptedPairs, Accepted, KnownPairs, KnownOnes
<1>6. \A g \in Later : Pair(g.sub) \in KnownPairs
  BY GradedHere DEF Later, Commits, GradingInv, GradingShaped, KnownPairs, KnownOnes, GradingTyped, Handler
<1> QED
  BY <1>3, <1>4, <1>5, <1>6 DEF Earned

LEMMA InAcceptedPairs ==
    ASSUME NEW pair
    PROVE  pair \in AcceptedPairs <=> \E s \in Id : Accepted(s) /\ Pair(s) = pair
BY DEF AcceptedPairs

LEMMA ActualCounts ==
    ASSUME GradingInv, IsFiniteSet(KnownOnes)
    PROVE  /\ \A u \in User : /\ ActualSolved(u) = Cardinality(AcceptedPairs \cap OfUser(u))
                             /\ ActualSolved(u) \in Nat
           /\ \A p \in Problem : /\ ActualAccepted(p) = Cardinality(AcceptedPairs \cap OfAll(p))
                                /\ ActualAccepted(p) \in Nat
<1>1. AcceptedPairs \subseteq User \X Problem /\ AcceptedPairs \subseteq KnownPairs
  BY PairsFinite
<1>2. ASSUME NEW M PROVE Cardinality(AcceptedPairs \cap M) \in Nat
  <2>1. IsFiniteSet(KnownPairs) /\ AcceptedPairs \cap M \in SUBSET KnownPairs
    BY <1>1, PairsFinite
  <2>2. IsFiniteSet(AcceptedPairs \cap M)
    BY <2>1, FS_Subset
  <2> QED
    BY <2>2, FS_CardinalityType
<1>3. ASSUME NEW u \in User
      PROVE  ActualSolved(u) = Cardinality(AcceptedPairs \cap OfUser(u))
  <2>1. {pair \in AcceptedPairs : pair[1] = u} = AcceptedPairs \cap OfUser(u)
    BY <1>1 DEF OfUser
  <2> QED
    BY <2>1 DEF ActualSolved
<1>4. ASSUME NEW p \in Problem
      PROVE  ActualAccepted(p) = Cardinality(AcceptedPairs \cap OfAll(p))
  <2>1. {pair \in AcceptedPairs : pair[2] = p} = AcceptedPairs \cap OfAll(p)
    BY <1>1 DEF OfAll
  <2> QED
    BY <2>1 DEF ActualAccepted
<1> QED
  BY <1>2, <1>3, <1>4

LEMMA CountersSafe ==
    ASSUME StoreInv, GradingInv, CounterInv, SentInv
    PROVE  CountersSound
<1>1. /\ IsFiniteSet(KnownPairs) /\ AcceptedPairs \subseteq User \X Problem
      /\ AcceptedPairs \subseteq KnownPairs /\ Earned \subseteq KnownPairs
  BY PairsFinite DEF CounterInv
<1>2. ASSUME NEW u \in User
      PROVE  ActualSolved(u) = Cardinality(AcceptedPairs \cap OfUser(u))
  BY ActualCounts DEF CounterInv
<1>3. ASSUME NEW p \in Problem
      PROVE  ActualAccepted(p) = Cardinality(AcceptedPairs \cap OfAll(p))
  BY ActualCounts DEF CounterInv
<1>4. ASSUME NEW u \in User, \A p \in Problem : <<u, p>> \notin unsure
      PROVE  solved[u] = ActualSolved(u)
  <2>1. OfUser(u) \cap unsure = {}
    BY <1>4 DEF OfUser
  <2> QED
    BY <1>2, <2>1 DEF CounterInv, Tallied
<1>5. ASSUME NEW p \in Problem, \A u \in User : <<u, p>> \notin unsure
      PROVE  accepted[p] = ActualAccepted(p)
  <2>1. OfAll(p) \cap unsure = {}
    BY <1>5 DEF OfAll
  <2> QED
    BY <1>3, <2>1 DEF CounterInv, Tallied
<1>6. ASSUME recounted = 0, NEW u \in User PROVE solved[u] >= ActualSolved(u)
  <2> DEFINE E == Earned \cap OfUser(u)
             A == AcceptedPairs \cap OfUser(u)
  <2>1. IsFiniteSet(E) /\ A \in SUBSET E
    <3>1. E \in SUBSET KnownPairs /\ A \subseteq E
      BY <1>1 DEF Earned
    <3> QED
      BY <1>1, <3>1, FS_Subset
  <2>2. Cardinality(A) <= Cardinality(E) /\ IsFiniteSet(A)
    BY <2>1, FS_Subset
  <2>3. Cardinality(A) \in Nat /\ Cardinality(E) \in Nat
    BY <2>1, <2>2, FS_CardinalityType
  <2>4. solved[u] \in Nat /\ solved[u] >= Cardinality(E) /\ ActualSolved(u) = Cardinality(A)
    BY <1>2, <1>6 DEF CounterInv
  <2> HIDE DEF E, A
  <2> QED
    BY <2>2, <2>3, <2>4
<1> QED
  BY <1>4, <1>5, <1>6 DEF CountersSound, SentInv

\* A step that opens and commits no transaction and does not recount: verdicts are only
\* lost, and a pair that loses one is unsure.
CalmStep ==
    /\ Commits' \subseteq Commits
    /\ \A pair : pair \notin unsure' => OpenFor(pair)' = OpenFor(pair)
    /\ \A s \in Id : Known(s) => Known(s)' /\ Pair(s)' = Pair(s)
    /\ \A s \in Id : Accepted(s)' => Accepted(s)
    /\ \A s \in Id : Accepted(s) /\ ~Accepted(s)' => Pair(s) \in unsure'
    /\ unsure \subseteq unsure' /\ solved' = solved /\ accepted' = accepted
    /\ recounted' = recounted

LEMMA CalmPairs ==
    ASSUME CalmStep
    PROVE  /\ AcceptedPairs' \subseteq AcceptedPairs
           /\ \A pair \in AcceptedPairs : pair \notin unsure' => pair \in AcceptedPairs'
<1>1. ASSUME NEW pair, pair \in AcceptedPairs' PROVE pair \in AcceptedPairs
  <2>1. PICK s \in Id : Accepted(s)' /\ Pair(s)' = pair
    BY <1>1 DEF AcceptedPairs
  <2>2. Accepted(s) /\ Pair(s) = pair
    BY <2>1 DEF CalmStep, Accepted
  <2> QED
    BY <2>2, InAcceptedPairs
<1>2. ASSUME NEW pair \in AcceptedPairs, pair \notin unsure' PROVE pair \in AcceptedPairs'
  <2>1. PICK s \in Id : Accepted(s) /\ Pair(s) = pair
    BY InAcceptedPairs
  <2>2. Accepted(s)' /\ Pair(s)' = pair
    BY <1>2, <2>1 DEF CalmStep, Accepted
  <2> QED
    BY <2>2 DEF AcceptedPairs
<1> QED
  BY <1>1, <1>2

LEMMA CalmKeepsCounters ==
    ASSUME StoreInv, GradingInv, CounterInv, CalmStep, GradingInv', IsFiniteSet(KnownOnes')
    PROVE  CounterInv'
<1>1. \A g \in Commits : g.sub \in Id /\ Known(g.sub)
  BY DEF Commits, GradingInv, GradingTyped, GradingShaped, Handler
<1>2. ASSUME NEW g \in Commits' PROVE FirstRight(g)'
  <2> SUFFICES ASSUME g.verdict = "accepted", Pair(g.sub)' \notin unsure'
               PROVE  OpenFor(Pair(g.sub))' = {g} /\ (g.first <=> FirstAccepted(g)')
    BY DEF FirstRight
  <2>1. g \in Commits /\ Pair(g.sub)' = Pair(g.sub) /\ Pair(g.sub) \notin unsure
    BY <1>1 DEF CalmStep
  <2>2. OpenFor(Pair(g.sub)) = {g} /\ (g.first <=> FirstAccepted(g))
    BY <2>1 DEF CounterInv, CommitsInOrder, FirstRight
  <2>3. PICK pair : pair = Pair(g.sub)
    OBVIOUS
  <2>4. OpenFor(pair)' = OpenFor(pair)
    BY <2>1, <2>3 DEF CalmStep
  <2>5. OpenFor(Pair(g.sub))' = OpenFor(pair)'
    BY <2>1, <2>3 DEF OpenFor
  <2>6. FirstAccepted(g)' <=> FirstAccepted(g)
    <3>1. ASSUME NEW s \in Id
          PROVE  (Accepted(s)' /\ Pair(s)' = pair) <=> (Accepted(s) /\ Pair(s) = pair)
      BY <2>1, <2>3 DEF CalmStep, Accepted
    <3> QED
      BY <2>1, <2>3, <3>1 DEF FirstAccepted
  <2> QED
    BY <2>2, <2>3, <2>4, <2>5, <2>6
<1>3. \A g, h \in Commits' : g.sub = h.sub => g = h
  BY DEF CounterInv, CommitsInOrder, CalmStep
<1>4. ASSUME NEW n, NEW M, Tallied(n, M) PROVE Tallied(n, M)'
  <2> SUFFICES ASSUME M \cap unsure' = {} PROVE n = Cardinality(AcceptedPairs' \cap M)
    BY DEF Tallied
  <2>1. AcceptedPairs' \cap M = AcceptedPairs \cap M
    BY CalmPairs
  <2>2. M \cap unsure = {}
    BY DEF CalmStep
  <2> QED
    BY <1>4, <2>1, <2>2 DEF Tallied
<1>5. ASSUME NEW u \in User PROVE Tallied(solved[u], OfUser(u))'
  <2>1. PICK n : n = solved[u]
    OBVIOUS
  <2>2. PICK M : M = OfUser(u)
    OBVIOUS
  <2>3. Tallied(n, M)'
    BY <1>4, <2>1, <2>2 DEF CounterInv
  <2> QED
    BY <2>1, <2>2, <2>3 DEF CalmStep, Tallied, OfUser
<1>6. ASSUME NEW p \in Problem PROVE Tallied(accepted[p], OfAll(p))'
  <2>1. PICK n : n = accepted[p]
    OBVIOUS
  <2>2. PICK M : M = OfAll(p)
    OBVIOUS
  <2>3. Tallied(n, M)'
    BY <1>4, <2>1, <2>2 DEF CounterInv
  <2> QED
    BY <2>1, <2>2, <2>3 DEF CalmStep, Tallied, OfAll
<1>7. Earned' \subseteq Earned
  <2>1. ASSUME NEW g \in Later' PROVE Pair(g.sub)' \in Earned
    <3>1. g \in Later /\ Pair(g.sub)' = Pair(g.sub)
      BY <1>1, <2>1 DEF Later, CalmStep
    <3> QED
      BY <3>1 DEF Earned
  <2> QED
    BY <2>1, CalmPairs DEF Earned
<1>8. ASSUME recounted' = 0, NEW u \in User
      PROVE  solved'[u] >= Cardinality(Earned' \cap OfUser(u))
  <2>1. PICK E : E = Earned \cap OfUser(u)
    OBVIOUS
  <2>2. PICK F : F = Earned' \cap OfUser(u)
    OBVIOUS
  <2>3. IsFiniteSet(E) /\ F \in SUBSET E
    <3>1. IsFiniteSet(KnownPairs) /\ E \in SUBSET KnownPairs
      BY <2>1, PairsFinite DEF CounterInv
    <3> QED
      BY <1>7, <2>1, <2>2, <3>1, FS_Subset
  <2>4. IsFiniteSet(F) /\ Cardinality(F) <= Cardinality(E) /\ Cardinality(E) \in Nat
    BY <2>3, FS_Subset, FS_CardinalityType
  <2>5. Cardinality(F) \in Nat
    BY <2>4, FS_CardinalityType
  <2>6. solved'[u] \in Nat /\ solved'[u] >= Cardinality(E)
    BY <1>8, <2>1 DEF CalmStep, CounterInv
  <2> QED
    BY <2>2, <2>4, <2>5, <2>6
<1>9. solved' \in [User -> Nat] /\ accepted' \in [Problem -> Nat]
  BY DEF CalmStep, CounterInv
<1> QED
  BY <1>2, <1>3, <1>5, <1>6, <1>8, <1>9 DEF CounterInv, CommitsInOrder

\* No row changes.
LEMMA RowsCalm ==
    ASSUME subs' = subs, Commits' = Commits, UNCHANGED <<solved, accepted, recounted, unsure>>
    PROVE  CalmStep /\ KnownOnes' = KnownOnes
BY DEF CalmStep, KnownOnes, Known, Accepted, Pair, OpenFor

\* One row changes, and loses its verdict at most.
LEMMA RowCalm ==
    ASSUME GradingInv, NEW s \in Id, NEW r \in Submission, subs' = [subs EXCEPT ![s] = r],
           Known(s) => r.user = subs[s].user /\ r.problem = subs[s].problem,
           r.verdict = "accepted" => Accepted(s), Accepted(s) => r.verdict = "accepted" \/ Pair(s) \in unsure',
           Commits' = Commits, unsure \subseteq unsure', UNCHANGED <<solved, accepted, recounted>>
    PROVE  CalmStep /\ KnownOnes' = KnownOnes \cup {s}
<1>1. subs'[s] = r /\ \A t \in Id \ {s} : subs'[t] = subs[t]
  BY DEF GradingInv, GradingTyped
<1>2. Known(s)' /\ \A t \in Id \ {s} : Known(t)' <=> Known(t)
  BY <1>1, NoneAssumption DEF Known
<1>3. \A t \in Id : Known(t) => Known(t)' /\ Pair(t)' = Pair(t)
  BY <1>1, <1>2 DEF Pair
<1>4. \A t \in Id : /\ Accepted(t)' => Accepted(t)
                    /\ Accepted(t) /\ ~Accepted(t)' => Pair(t) \in unsure'
  BY <1>1, <1>2 DEF Accepted
<1>5. \A pair : OpenFor(pair)' = OpenFor(pair)
  <2>1. \A g \in Commits : Pair(g.sub)' = Pair(g.sub)
    BY <1>3 DEF Commits, GradingInv, GradingTyped, GradingShaped, Handler
  <2> QED
    BY <2>1 DEF OpenFor
<1>6. KnownOnes' = KnownOnes \cup {s}
  BY <1>2 DEF KnownOnes
<1> QED
  BY <1>3, <1>4, <1>5, <1>6 DEF CalmStep

LEMMA SubmitCalm ==
    ASSUME StoreInv, GradingInv, NEW u \in User, NEW p \in Problem, NEW sheet \in Sheet, NEW s \in Id,
           Submit(u, p, sheet, s)
    PROVE  CalmStep /\ KnownOnes' = KnownOnes \cup {s}
<1>1. PICK r : r = [user |-> u, problem |-> p, sheet |-> sheet, status |-> "queued",
                    verdict |-> None, version |-> None, attempts |-> 0, seen |-> None]
  OBVIOUS
<1>2. r \in Submission /\ r.verdict # "accepted"
  BY <1>1, NoneAssumption DEF Submission, Verdict
<1>3. /\ subs' = [subs EXCEPT ![s] = r] /\ ~Known(s)
      /\ gradings' = gradings \/ gradings' = gradings \cup {NewGrading(s, "api")'}
      /\ UNCHANGED <<solved, accepted, recounted, unsure>>
  BY <1>1 DEF Submit
<1>4. PICK h : h = NewGrading(s, "api")'
  OBVIOUS
<1>5. h.step = "problem"
  BY <1>4 DEF NewGrading
<1>6. Commits' = Commits
  BY <1>3, <1>4, <1>5 DEF Commits
<1>7. ~Accepted(s)
  BY <1>3 DEF Accepted
<1> QED
  BY <1>2, <1>3, <1>6, <1>7, RowCalm

LEMMA ClaimCalm ==
    ASSUME StoreInv, GradingInv, NEW s \in Id, Claim(s)
    PROVE  CalmStep /\ KnownOnes' = KnownOnes
<1>1. PICK r : r = [subs[s] EXCEPT !.status = "judging", !.attempts = subs[s].attempts + 1]
  OBVIOUS
<1>2. subs[s] \in Submission /\ subs[s].attempts + 1 \in Nat /\ Known(s)
  BY DEF Claim, Known, Submission, GradingInv, GradingTyped
<1>3. /\ r \in Submission /\ r.user = subs[s].user /\ r.problem = subs[s].problem
      /\ r.verdict = subs[s].verdict
  BY <1>1, <1>2 DEF Submission
<1>4. /\ subs' = [subs EXCEPT ![s] = r]
      /\ gradings' = gradings \cup {NewGrading(s, "worker")'}
      /\ UNCHANGED <<solved, accepted, recounted, unsure>>
  BY <1>1 DEF Claim
<1>5. PICK h : h = NewGrading(s, "worker")'
  OBVIOUS
<1>6. h.step = "problem"
  BY <1>5 DEF NewGrading
<1>7. Commits' = Commits
  BY <1>4, <1>5, <1>6 DEF Commits
<1>8. r.verdict = "accepted" <=> Accepted(s)
  BY <1>2, <1>3 DEF Accepted
<1>9. CalmStep /\ KnownOnes' = KnownOnes \cup {s}
  BY <1>2, <1>3, <1>4, <1>7, <1>8, RowCalm
<1> QED
  BY <1>2, <1>9 DEF KnownOnes

LEMMA FailureCalm ==
    ASSUME StoreInv, GradingInv, NEW g \in gradings, JudgeFailure(g)
    PROVE  CalmStep /\ KnownOnes' = KnownOnes
<1> DEFINE s == g.sub
<1>1. s \in Id /\ Known(s) /\ ~Commit(g) /\ g.step # "commit"
  BY GradedHere DEF GradingInv, GradingShaped, Commit, JudgeFailure
<1>2. PICK r \in Submission :
         /\ subs' = [subs EXCEPT ![s] = r]
         /\ r.user = subs[s].user /\ r.problem = subs[s].problem
         /\ r.verdict \in {"internal_error", subs[s].verdict}
  BY <1>1, RowAtEnd
<1>3. /\ gradings' = gradings \ {g} /\ UNCHANGED <<solved, accepted, recounted>>
      /\ unsure' = IF Accepted(s) THEN unsure \cup {Pair(s)} ELSE unsure
  BY DEF JudgeFailure
<1>4. Commits' = Commits
  BY <1>1, <1>3 DEF Commits
<1>5. r.verdict = "accepted" => Accepted(s)
  BY <1>1, <1>2 DEF Accepted
<1>6. CalmStep /\ KnownOnes' = KnownOnes \cup {s}
  BY <1>1, <1>2, <1>3, <1>4, <1>5, RowCalm
<1> QED
  BY <1>1, <1>6 DEF KnownOnes

LEMMA RejudgeCalm ==
    ASSUME StoreInv, GradingInv, NEW S \in SUBSET Id, Rejudge(S)
    PROVE  CalmStep /\ KnownOnes' = KnownOnes
<1>1. /\ UNCHANGED <<gradings, solved, accepted, recounted>>
      /\ unsure' = unsure \cup {Pair(s) : s \in {t \in S : Accepted(t) \/ GradingsOf(t) # {}}}
      /\ \A s \in S : Known(s)
      /\ subs' = [s \in Id |-> IF s \in S THEN [subs[s] EXCEPT !.status = "queued",
                                                 !.verdict = None, !.attempts = 0,
                                                 !.seen = None]
                               ELSE subs[s]]
  BY DEF Rejudge
<1>2. ASSUME NEW s \in S
      PROVE  /\ subs'[s] \in Submission /\ subs'[s].problem = subs[s].problem
             /\ subs'[s].user = subs[s].user /\ subs'[s].verdict = None
  <2>1. subs[s] \in Submission
    BY <1>1 DEF GradingInv, GradingTyped, Known
  <2>2. subs'[s] = [subs[s] EXCEPT !.status = "queued", !.verdict = None, !.attempts = 0,
                                   !.seen = None]
    <3>1. s \in Id
      OBVIOUS
    <3> QED
      BY <1>1, <3>1, Zenon
  <2> QED
    BY <2>1, <2>2, Requeued
<1>3. \A s \in Id \ S : subs'[s] = subs[s]
  BY <1>1
<1>4. \A s \in Id : Known(s)' <=> Known(s)
  BY <1>1, <1>2, <1>3, NoneAssumption DEF Known
<1>5. \A s \in Id : Pair(s)' = Pair(s)
  BY <1>2, <1>3 DEF Pair
<1>6. \A s \in S : ~Accepted(s)'
  BY <1>2, NoneAssumption DEF Accepted, Verdict
<1>7. \A s \in Id \ S : Accepted(s)' <=> Accepted(s)
  BY <1>3, <1>4 DEF Accepted
<1>8. \A s \in S : Accepted(s) => Pair(s) \in unsure'
  BY <1>1
<1>9. Commits' = Commits /\ \A pair : OpenFor(pair)' = OpenFor(pair)
  <2>1. \A g \in Commits : Pair(g.sub)' = Pair(g.sub)
    BY <1>5 DEF Commits, GradingInv, GradingTyped, Handler
  <2> QED
    BY <1>1, <2>1 DEF Commits, OpenFor
<1>10. KnownOnes' = KnownOnes
  BY <1>4 DEF KnownOnes
<1> QED
  BY <1>1, <1>4, <1>5, <1>6, <1>7, <1>8, <1>9, <1>10 DEF CalmStep

LEMMA DeleteCalm ==
    ASSUME StoreInv, GradingInv, NEW p \in Problem, DeleteProblem(p)
    PROVE  CalmStep /\ KnownOnes' = KnownOnes
<1>1. /\ gradings' = {g \in gradings : g.problem # p}
      /\ UNCHANGED <<solved, accepted, recounted>>
      /\ unsure' = unsure \cup {<<u, p>> : u \in User}
      /\ subs' = [s \in Id |-> IF s \in OfProblem(p)
                               THEN [subs[s] EXCEPT !.status = "deleted", !.verdict = None]
                               ELSE subs[s]]
  BY DEF DeleteProblem
<1>2. ASSUME NEW s \in OfProblem(p)
      PROVE  /\ subs'[s] \in Submission /\ subs'[s].problem = p /\ subs[s].problem = p
             /\ subs'[s].user = subs[s].user /\ subs'[s].verdict = None
             /\ Known(s) /\ s \in Id /\ subs[s].user \in User
  <2>1. subs[s] \in Submission /\ s \in Id /\ subs[s].problem = p /\ Known(s)
    BY DEF GradingInv, GradingTyped, Known, OfProblem
  <2>2. subs'[s] = [subs[s] EXCEPT !.status = "deleted", !.verdict = None]
    BY <1>1, <2>1
  <2> QED
    BY <2>1, <2>2 DEF Submission
<1>3. \A s \in Id \ OfProblem(p) : subs'[s] = subs[s]
  BY <1>1
<1>4. \A s \in Id : Known(s)' <=> Known(s)
  BY <1>2, <1>3, NoneAssumption DEF Known
<1>5. \A s \in Id : Pair(s)' = Pair(s)
  BY <1>2, <1>3 DEF Pair
<1>6. \A s \in OfProblem(p) : ~Accepted(s)' /\ Pair(s) \in unsure'
  BY <1>1, <1>2, NoneAssumption DEF Accepted, Verdict, Pair
<1>7. \A s \in Id \ OfProblem(p) : Accepted(s)' <=> Accepted(s)
  BY <1>3, <1>4 DEF Accepted
<1>8. ASSUME NEW pair, pair \notin unsure' PROVE OpenFor(pair)' = OpenFor(pair)
  <2>1. \A g \in Commits : g.sub \in Id /\ Known(g.sub) /\ subs[g.sub].problem = g.problem
    BY DEF Commits, GradingInv, GradingTyped, Handler, GradingShaped
  <2>2. \A g \in Commits : g.problem = p => Pair(g.sub) \in unsure'
    BY <1>6, <2>1 DEF OfProblem
  <2>3. Commits' = {g \in Commits : g.problem # p}
    BY <1>1 DEF Commits
  <2> QED
    BY <1>5, <1>8, <2>1, <2>2, <2>3 DEF OpenFor
<1>9. Commits' \subseteq Commits
  BY <1>1 DEF Commits
<1>10. KnownOnes' = KnownOnes
  BY <1>4 DEF KnownOnes
<1> QED
  BY <1>1, <1>4, <1>5, <1>6, <1>7, <1>8, <1>9, <1>10 DEF CalmStep

LEMMA ReadCalm ==
    ASSUME StoreInv, GradingInv, NEW g \in gradings, ReadProblem(g) \/ ReadRows(g) \/ ReadFile(g)
    PROVE  CalmStep /\ KnownOnes' = KnownOnes
<1>1. g \in Handler /\ g.step # "commit" /\ ~OpenTransaction(g)
      /\ UNCHANGED <<subs, solved, accepted, recounted, unsure>>
  BY DEF GradingInv, GradingTyped, ReadProblem, ReadRows, ReadFile, Reads, OpenTransaction
<1>2. PICK h : gradings' = (gradings \ {g}) \cup {h} /\ h.step # "commit"
  BY <1>1, ReadMoves
<1>3. Commits' = Commits
  BY <1>1, <1>2 DEF Commits
<1> QED
  BY <1>1, <1>3, RowsCalm

LEMMA StillAtLeast ==
    ASSUME NEW E, NEW F \in SUBSET E, NEW n \in Nat, IsFiniteSet(E), n >= Cardinality(E)
    PROVE  n >= Cardinality(F)
<1>1. IsFiniteSet(F) /\ Cardinality(F) <= Cardinality(E)
  BY FS_Subset
<1>2. Cardinality(F) \in Nat /\ Cardinality(E) \in Nat
  BY <1>1, FS_CardinalityType
<1> QED
  BY <1>1, <1>2

\* A transaction opens. It is the only one for its pair, or the pair is unsure; and when it
\* is not the first to accept, the pair is earned already.
LEMMA OpenKeepsCounters ==
    ASSUME StoreInv, GradingInv, CounterInv, NEW g \in gradings, OpenTransaction(g)
    PROVE  CounterInv'
<1>1. PICK pair : pair = Pair(g.sub)
  OBVIOUS
<1>2. PICK h : h = [g EXCEPT !.step = "commit", !.verdict = VerdictOf(g),
                            !.first = VerdictOf(g) = "accepted" /\ FirstAccepted(g)]
  OBVIOUS
<1>3. /\ h.sub = g.sub /\ h.step = "commit" /\ h.verdict = VerdictOf(g)
      /\ h.first <=> VerdictOf(g) = "accepted" /\ FirstAccepted(g)
  BY <1>2, GradedHere DEF Handler
<1>4. /\ gradings' = (gradings \ {g}) \cup {h} /\ g.step = "files" /\ ~Locked(g.sub)
      /\ UNCHANGED <<subs, solved, accepted, recounted>>
      /\ unsure' = IF h.verdict = "accepted" /\ InTransaction(pair)
                   THEN unsure \cup {pair} ELSE unsure
  BY <1>1, <1>2, <1>3 DEF OpenTransaction, Moves
<1>5. Commits' = Commits \cup {h}
  BY <1>3, <1>4 DEF Commits
<1>6. \A s : (Accepted(s)' <=> Accepted(s)) /\ Pair(s)' = Pair(s) /\ (Known(s)' <=> Known(s))
  BY <1>4 DEF Accepted, Pair, Known
<1>7. AcceptedPairs' = AcceptedPairs /\ KnownOnes' = KnownOnes
  BY <1>6 DEF AcceptedPairs, KnownOnes
<1>8. \A k \in Commits : k.sub # h.sub
  BY <1>3, <1>4 DEF Locked, GradingsOf, Commits
<1>9. InTransaction(pair) <=> OpenFor(pair) # {}
  BY DEF InTransaction, OpenFor, Commits
<1>10. \A k : FirstAccepted(k)' <=> FirstAccepted(k)
  BY <1>6 DEF FirstAccepted
<1>11. FirstAccepted(h) <=> FirstAccepted(g)
  BY <1>3 DEF FirstAccepted
<1>12. ASSUME NEW k \in Commits' PROVE FirstRight(k)'
  <2> SUFFICES ASSUME k.verdict = "accepted", Pair(k.sub) \notin unsure'
               PROVE  OpenFor(Pair(k.sub))' = {k} /\ (k.first <=> FirstAccepted(k))
    BY <1>6, <1>10 DEF FirstRight
  <2>1. CASE k = h
    <3>1. OpenFor(pair) = {} /\ Pair(k.sub) = pair
      BY <1>1, <1>3, <1>4, <1>9, <2>1
    <3>2. OpenFor(Pair(k.sub))' = {k}
      BY <1>5, <1>6, <2>1, <3>1 DEF OpenFor
    <3> QED
      BY <1>3, <1>11, <2>1, <3>2
  <2>2. CASE k \in Commits
    <3>1. OpenFor(Pair(k.sub)) = {k} /\ (k.first <=> FirstAccepted(k))
      BY <1>4, <2>2 DEF CounterInv, CommitsInOrder, FirstRight
    <3>2. ~(Pair(k.sub) = pair /\ h.verdict = "accepted")
      BY <1>4, <1>9, <3>1
    <3>3. OpenFor(Pair(k.sub))' = OpenFor(Pair(k.sub))
      BY <1>1, <1>3, <1>5, <1>6, <3>2 DEF OpenFor
    <3> QED
      BY <3>1, <3>3
  <2> QED
    BY <1>5, <2>1, <2>2
<1>13. \A k, l \in Commits' : k.sub = l.sub => k = l
  BY <1>5, <1>8 DEF CounterInv, CommitsInOrder
<1>14. /\ \A u \in User : Tallied(solved[u], OfUser(u))'
       /\ \A p \in Problem : Tallied(accepted[p], OfAll(p))'
  <2>1. unsure \subseteq unsure'
    BY <1>4
  <2> QED
    BY <1>4, <1>7, <2>1 DEF CounterInv, Tallied, OfUser, OfAll
<1>15. Earned' \subseteq Earned
  <2>1. ASSUME NEW k \in Later' PROVE Pair(k.sub)' \in Earned
    <3>1. CASE k = h
      <4>1. ~FirstAccepted(g)
        BY <1>3, <2>1, <3>1 DEF Later
      <4>2. PICK s \in Id : Accepted(s) /\ Pair(s) = Pair(g.sub)
        BY <4>1 DEF FirstAccepted
      <4> QED
        BY <1>3, <1>6, <3>1, <4>2, InAcceptedPairs DEF Earned
    <3>2. CASE k \in Commits
      <4>1. k \in Later
        BY <2>1, <3>2 DEF Later
      <4> QED
        BY <1>6, <4>1 DEF Earned
    <3> QED
      BY <1>5, <2>1, <3>1, <3>2 DEF Later
  <2> QED
    BY <1>7, <2>1 DEF Earned
<1>16. ASSUME recounted' = 0, NEW u \in User
       PROVE  solved'[u] >= Cardinality(Earned' \cap OfUser(u))
  <2>1. IsFiniteSet(KnownPairs) /\ Earned \cap OfUser(u) \in SUBSET KnownPairs
    BY PairsFinite DEF CounterInv
  <2>2. IsFiniteSet(Earned \cap OfUser(u))
    BY <2>1, FS_Subset
  <2>3. solved[u] \in Nat /\ solved[u] >= Cardinality(Earned \cap OfUser(u))
    BY <1>4, <1>16 DEF CounterInv
  <2>4. Earned' \cap OfUser(u) \in SUBSET (Earned \cap OfUser(u))
    BY <1>15
  <2>5. solved[u] >= Cardinality(Earned' \cap OfUser(u))
    BY <2>2, <2>3, <2>4, StillAtLeast
  <2> QED
    BY <1>4, <2>5
<1>17. /\ solved' \in [User -> Nat] /\ accepted' \in [Problem -> Nat]
       /\ IsFiniteSet(KnownOnes')
  BY <1>4, <1>7 DEF CounterInv
<1> QED
  BY <1>12, <1>13, <1>14, <1>16, <1>17 DEF CounterInv, CommitsInOrder, OfUser

\* A transaction commits: what becomes of the pairs, of which only its own can change.
LEMMA CommitPairs ==
    ASSUME StoreInv, GradingInv, CounterInv, NEW g \in gradings, Commit(g)
    PROVE  /\ Commits' = Commits \ {g} /\ g \in Commits /\ KnownOnes' = KnownOnes
           /\ g.sub \in Id /\ Known(g.sub) /\ Pair(g.sub) = <<subs[g.sub].user, g.problem>>
           /\ \A s \in Id : Pair(s)' = Pair(s)
           /\ \A s \in Id \ {g.sub} : Accepted(s)' <=> Accepted(s)
           /\ Accepted(g.sub)' <=> g.verdict = "accepted"
<1>1. g \in gradings /\ g.step = "commit" /\ gradings' = gradings \ {g} /\ GradingShaped(g)
  BY DEF Commit, GradingInv
<1>2. /\ g.sub \in Id /\ Known(g.sub) /\ subs[g.sub].problem = g.problem
      /\ subs \in [Id -> Submission \cup {None}] /\ ~JudgeFailure(g)
  BY <1>1, GradedHere DEF GradingShaped, GradingInv, GradingTyped, JudgeFailure
<1>3. PICK r \in Submission :
         /\ subs' = [subs EXCEPT ![g.sub] = r] /\ r.user = subs[g.sub].user
         /\ r.problem = subs[g.sub].problem /\ r.verdict = g.verdict
  BY <1>2, RowAtEnd
<1>4. subs'[g.sub] = r /\ \A s \in Id \ {g.sub} : subs'[s] = subs[s]
  BY <1>2, <1>3
<1>5. \A s \in Id : Pair(s)' = Pair(s)
  BY <1>3, <1>4 DEF Pair
<1>6. r # None
  BY NoneAssumption
<1>7. \A s \in Id : Known(s)' <=> Known(s)
  BY <1>2, <1>4, <1>6 DEF Known
<1>8. Accepted(g.sub)' <=> g.verdict = "accepted"
  BY <1>2, <1>3, <1>4, <1>7 DEF Accepted
<1>9. \A s \in Id \ {g.sub} : Accepted(s)' <=> Accepted(s)
  BY <1>4, <1>7 DEF Accepted
<1>10. Commits' = Commits \ {g} /\ g \in Commits
  BY <1>1 DEF Commits
<1>11. KnownOnes' = KnownOnes
  BY <1>7 DEF KnownOnes
<1>12. Pair(g.sub) = <<subs[g.sub].user, g.problem>>
  BY <1>2 DEF Pair
<1> QED
  BY <1>2, <1>5, <1>8, <1>9, <1>10, <1>11, <1>12

\* Who may commit without making the pair unsure knows whether it is the first.
LEMMA CommitCounts ==
    ASSUME StoreInv, GradingInv, CounterInv, NEW g \in gradings, Commit(g)
    PROVE  /\ AcceptedPairs' \subseteq AcceptedPairs \cup {Pair(g.sub)}
           /\ AcceptedPairs \subseteq AcceptedPairs' \cup {Pair(g.sub)}
           /\ g.verdict # "accepted" => AcceptedPairs' \subseteq AcceptedPairs
           /\ Pair(g.sub) \notin unsure' =>
                \/ g.first /\ Pair(g.sub) \in AcceptedPairs' \ AcceptedPairs
                \/ ~g.first /\ AcceptedPairs' = AcceptedPairs
<1>1. PICK P : P = Pair(g.sub)
  OBVIOUS
<1>2. /\ g \in Commits /\ g.sub \in Id /\ Known(g.sub)
      /\ \A s \in Id : Pair(s)' = Pair(s)
      /\ \A s \in Id \ {g.sub} : Accepted(s)' <=> Accepted(s)
      /\ Accepted(g.sub)' <=> g.verdict = "accepted"
  BY CommitPairs
<1>3. ASSUME NEW Q PROVE Q \in AcceptedPairs' <=> \E s \in Id : Accepted(s)' /\ Pair(s) = Q
  BY <1>2 DEF AcceptedPairs
<1>4. \A Q : Q # P => (Q \in AcceptedPairs' <=> Q \in AcceptedPairs)
  BY <1>1, <1>2, <1>3, InAcceptedPairs
<1>5. ASSUME g.verdict # "accepted", P \in AcceptedPairs' PROVE P \in AcceptedPairs
  BY <1>2, <1>3, <1>5, InAcceptedPairs
<1>6. ASSUME P \notin unsure'
      PROVE  \/ g.first /\ P \in AcceptedPairs' \ AcceptedPairs
             \/ ~g.first /\ AcceptedPairs' = AcceptedPairs
  <2>1. ~Accepted(g.sub) /\ P \notin unsure
    BY <1>1, <1>6 DEF Commit
  <2>2. P \in AcceptedPairs <=> ~FirstAccepted(g)
    BY <1>1, <1>2, <2>1, InAcceptedPairs DEF FirstAccepted
  <2>3. CASE g.verdict = "accepted"
    <3>1. g.first <=> FirstAccepted(g)
      BY <1>1, <1>2, <2>1, <2>3 DEF CounterInv, CommitsInOrder, FirstRight
    <3>2. P \in AcceptedPairs'
      BY <1>1, <1>2, <1>3, <2>3
    <3> QED
      BY <1>4, <2>2, <3>1, <3>2
  <2>4. CASE g.verdict # "accepted"
    <3>1. ~g.first
      BY <2>4 DEF GradingInv, GradingShaped
    <3>2. P \in AcceptedPairs' <=> P \in AcceptedPairs
      BY <1>1, <1>2, <1>3, <2>1, <2>4, InAcceptedPairs
    <3> QED
      BY <1>4, <3>1, <3>2
  <2> QED
    BY <2>3, <2>4
<1> QED
  BY <1>1, <1>4, <1>5, <1>6

LEMMA CommitTallies ==
    ASSUME StoreInv, GradingInv, CounterInv, NEW g \in gradings, Commit(g),
           NEW n \in Nat, NEW m, NEW M, Tallied(n, M),
           m = IF g.first /\ Pair(g.sub) \in M THEN n + 1 ELSE n
    PROVE  Tallied(m, M)'
<1> SUFFICES ASSUME M \cap unsure' = {} PROVE m = Cardinality(AcceptedPairs' \cap M)
  BY DEF Tallied
<1>1. PICK P : P = Pair(g.sub)
  OBVIOUS
<1>2. PICK A : A = AcceptedPairs
  OBVIOUS
<1>3. PICK B : B = AcceptedPairs'
  OBVIOUS
<1>4. /\ B \subseteq A \cup {P} /\ A \subseteq B \cup {P}
      /\ P \notin unsure' => \/ g.first /\ P \in B \ A
                             \/ ~g.first /\ B = A
  BY <1>1, <1>2, <1>3, CommitCounts
<1>5. n = Cardinality(A \cap M)
  <2>1. unsure \subseteq unsure'
    BY DEF Commit
  <2> QED
    BY <1>2, <2>1 DEF Tallied
<1>6. CASE g.first /\ P \in M
  <2>1. B \cap M = (A \cap M) \cup {P} /\ P \notin A \cap M
    BY <1>4, <1>6
  <2>2. IsFiniteSet(A \cap M)
    <3>1. IsFiniteSet(KnownPairs) /\ A \cap M \in SUBSET KnownPairs
      BY <1>2, PairsFinite DEF CounterInv
    <3> QED
      BY <3>1, FS_Subset
  <2>3. Cardinality(B \cap M) = Cardinality(A \cap M) + 1
    BY <2>1, <2>2, FS_AddElement
  <2> QED
    BY <1>1, <1>3, <1>5, <1>6, <2>3
<1>7. CASE ~(g.first /\ P \in M)
  <2>1. B \cap M = A \cap M
    BY <1>4, <1>7
  <2> QED
    BY <1>1, <1>3, <1>5, <1>7, <2>1
<1> QED
  BY <1>6, <1>7

LEMMA CommitEarns ==
    ASSUME StoreInv, GradingInv, CounterInv, NEW g \in gradings, Commit(g)
    PROVE  /\ Earned' \subseteq Earned \cup {Pair(g.sub)}
           /\ ~g.first => Earned' \subseteq Earned
<1>1. PICK P : P = Pair(g.sub)
  OBVIOUS
<1>2. ASSUME NEW k \in Later' PROVE Pair(k.sub)' \in Earned
  <2>1. k \in Later /\ k \in Commits
    BY <1>2, CommitPairs DEF Later
  <2>2. k.sub \in Id
    BY <2>1 DEF Commits, GradingInv, GradingTyped, Handler
  <2> QED
    BY <2>1, <2>2, CommitPairs DEF Earned
<1>3. AcceptedPairs' \subseteq Earned \cup {P}
  BY <1>1, CommitCounts DEF Earned
<1>4. ASSUME ~g.first PROVE AcceptedPairs' \subseteq Earned
  <2>1. CASE g.verdict = "accepted"
    <3>1. g \in Later
      BY <1>4, <2>1, CommitPairs DEF Later
    <3>2. P \in Earned
      BY <1>1, <3>1 DEF Earned
    <3> QED
      BY <1>3, <3>2
  <2>2. CASE g.verdict # "accepted"
    BY <2>2, CommitCounts DEF Earned
  <2> QED
    BY <2>1, <2>2
<1> QED
  BY <1>1, <1>2, <1>3, <1>4 DEF Earned

LEMMA CommitKeepsCounters ==
    ASSUME StoreInv, GradingInv, CounterInv, NEW g \in gradings, Commit(g)
    PROVE  CounterInv'
<1>1. PICK P : P = Pair(g.sub)
  OBVIOUS
<1>2. /\ Commits' = Commits \ {g} /\ g \in Commits /\ KnownOnes' = KnownOnes
      /\ g.sub \in Id /\ Known(g.sub) /\ P = <<subs[g.sub].user, g.problem>>
      /\ \A s \in Id : Pair(s)' = Pair(s)
      /\ \A s \in Id \ {g.sub} : Accepted(s)' <=> Accepted(s)
      /\ Accepted(g.sub)' <=> g.verdict = "accepted"
  BY <1>1, CommitPairs
<1>3. /\ solved' = IF g.first THEN [solved EXCEPT ![subs[g.sub].user] = @ + 1] ELSE solved
      /\ accepted' = IF g.first THEN [accepted EXCEPT ![g.problem] = @ + 1] ELSE accepted
      /\ unsure' = IF Accepted(g.sub) THEN unsure \cup {P} ELSE unsure
      /\ recounted' = recounted
  BY <1>1 DEF Commit
<1>4. subs[g.sub].user \in User /\ g.problem \in Problem
  BY <1>2, GradedHere DEF Submission
<1>5. solved \in [User -> Nat] /\ accepted \in [Problem -> Nat] /\ IsFiniteSet(KnownOnes)
  BY DEF CounterInv
<1>6. ASSUME NEW k \in Commits' PROVE FirstRight(k)'
  <2>1. k \in Commits /\ k # g /\ k.sub \in Id /\ k.sub # g.sub
    BY <1>2, <1>6 DEF CounterInv, CommitsInOrder, Commits, GradingInv, GradingTyped, Handler
  <2>2. PICK Q : Q = Pair(k.sub)
    OBVIOUS
  <2> SUFFICES ASSUME k.verdict = "accepted", Q \notin unsure'
               PROVE  OpenFor(Pair(k.sub))' = {k} /\ (k.first <=> FirstAccepted(k)')
    BY <1>2, <2>1, <2>2 DEF FirstRight
  <2>3. OpenFor(Q) = {k} /\ (k.first <=> FirstAccepted(k))
    <3>1. Q \notin unsure
      BY <1>3
    <3> QED
      BY <2>1, <2>2, <3>1 DEF CounterInv, CommitsInOrder, FirstRight
  <2>4. Q # P \/ g.verdict # "accepted"
    BY <1>1, <1>2, <2>1, <2>3 DEF OpenFor
  <2>5. OpenFor(Pair(k.sub))' = {k}
    <3>1. \A l \in Commits : l.sub \in Id
      BY DEF Commits, GradingInv, GradingTyped, Handler
    <3>2. \A l \in Commits : l.verdict = "accepted" /\ Pair(l.sub) = Q <=> l = k
      BY <2>3 DEF OpenFor
    <3>3. OpenFor(Pair(k.sub))' = {l \in Commits' : l.verdict = "accepted" /\ Pair(l.sub)' = Q}
      BY <1>2, <2>1, <2>2 DEF OpenFor
    <3> QED
      BY <1>2, <1>6, <3>1, <3>2, <3>3
  <2>6. \A s \in Id : Accepted(s)' /\ Pair(s)' = Q <=> Accepted(s) /\ Pair(s) = Q
    BY <1>1, <1>2, <1>3, <2>4
  <2>7. FirstAccepted(k)' <=> FirstAccepted(k)
    BY <1>2, <2>1, <2>2, <2>6 DEF FirstAccepted
  <2> QED
    BY <2>3, <2>5, <2>7
<1>7. \A k, l \in Commits' : k.sub = l.sub => k = l
  BY <1>2 DEF CounterInv, CommitsInOrder
<1>8. ASSUME NEW u \in User
      PROVE  /\ solved'[u] \in Nat
             /\ solved'[u] = IF g.first /\ P \in OfUser(u) THEN solved[u] + 1 ELSE solved[u]
  <2>1. P \in OfUser(u) <=> u = subs[g.sub].user
    BY <1>2, <1>4 DEF OfUser
  <2> QED
    BY <1>3, <1>4, <1>5, <2>1
<1>9. ASSUME NEW p \in Problem
      PROVE  /\ accepted'[p] \in Nat
             /\ accepted'[p] = IF g.first /\ P \in OfAll(p) THEN accepted[p] + 1 ELSE accepted[p]
  <2>1. P \in OfAll(p) <=> p = g.problem
    BY <1>2, <1>4 DEF OfAll
  <2> QED
    BY <1>3, <1>4, <1>5, <2>1
<1>10. solved' \in [User -> Nat] /\ accepted' \in [Problem -> Nat]
  BY <1>3, <1>4, <1>5
<1>11. ASSUME NEW u \in User PROVE Tallied(solved[u], OfUser(u))'
  <2>1. PICK n \in Nat : n = solved[u]
    BY <1>5
  <2>2. PICK m : m = solved'[u]
    OBVIOUS
  <2>3. PICK M : M = OfUser(u)
    OBVIOUS
  <2>4. Tallied(n, M) /\ m = IF g.first /\ Pair(g.sub) \in M THEN n + 1 ELSE n
    BY <1>1, <1>8, <2>1, <2>2, <2>3 DEF CounterInv
  <2>5. Tallied(m, M)'
    BY <2>4, CommitTallies
  <2> QED
    BY <2>2, <2>3, <2>5 DEF Tallied, OfUser
<1>12. ASSUME NEW p \in Problem PROVE Tallied(accepted[p], OfAll(p))'
  <2>1. PICK n \in Nat : n = accepted[p]
    BY <1>5
  <2>2. PICK m : m = accepted'[p]
    OBVIOUS
  <2>3. PICK M : M = OfAll(p)
    OBVIOUS
  <2>4. Tallied(n, M) /\ m = IF g.first /\ Pair(g.sub) \in M THEN n + 1 ELSE n
    BY <1>1, <1>9, <2>1, <2>2, <2>3 DEF CounterInv
  <2>5. Tallied(m, M)'
    BY <2>4, CommitTallies
  <2> QED
    BY <2>2, <2>3, <2>5 DEF Tallied, OfAll
<1>13. ASSUME recounted' = 0, NEW u \in User
       PROVE  solved'[u] >= Cardinality(Earned' \cap OfUser(u))
  <2>1. PICK E : E = Earned \cap OfUser(u)
    OBVIOUS
  <2>2. PICK F : F = Earned' \cap OfUser(u)
    OBVIOUS
  <2>3. IsFiniteSet(E)
    <3>1. IsFiniteSet(KnownPairs) /\ E \in SUBSET KnownPairs
      BY <2>1, PairsFinite DEF CounterInv
    <3> QED
      BY <3>1, FS_Subset
  <2>4. solved[u] \in Nat /\ solved[u] >= Cardinality(E) /\ Cardinality(E) \in Nat
    BY <1>3, <1>13, <2>1, <2>3, FS_CardinalityType DEF CounterInv
  <2>5. CASE g.first /\ P \in OfUser(u)
    <3>1. F \in SUBSET (E \cup {P})
      BY <1>1, <2>1, <2>2, CommitEarns
    <3>2. IsFiniteSet(E \cup {P}) /\ Cardinality(E \cup {P}) <= Cardinality(E) + 1
      <4>1. /\ IsFiniteSet(E \cup {P})
            /\ Cardinality(E \cup {P}) = IF P \in E THEN Cardinality(E) ELSE Cardinality(E) + 1
        BY <2>3, FS_AddElement
      <4> QED
        BY <2>4, <4>1
    <3>3. Cardinality(E \cup {P}) \in Nat /\ solved'[u] \in Nat
      BY <1>8, <3>2, FS_CardinalityType
    <3>4. solved'[u] >= Cardinality(E \cup {P})
      BY <1>8, <2>4, <2>5, <3>2, <3>3
    <3>5. solved'[u] >= Cardinality(F)
      BY <3>1, <3>2, <3>3, <3>4, StillAtLeast
    <3> QED
      BY <2>2, <3>5
  <2>6. CASE ~(g.first /\ P \in OfUser(u))
    <3>1. F \in SUBSET E
      BY <1>1, <2>1, <2>2, <2>6, CommitEarns
    <3>2. solved'[u] = solved[u]
      BY <1>8, <2>6
    <3>3. solved[u] >= Cardinality(F)
      BY <2>3, <2>4, <3>1, StillAtLeast
    <3> QED
      BY <2>2, <3>2, <3>3
  <2> QED
    BY <2>5, <2>6
<1> QED
  BY <1>2, <1>5, <1>6, <1>7, <1>10, <1>11, <1>12, <1>13 DEF CounterInv, CommitsInOrder, OfUser

\* A recount finds what counting gives. Whoever is still grading keeps the pair unsure.
LEMMA RecountKeepsCounters ==
    ASSUME StoreInv, GradingInv, CounterInv, Recount
    PROVE  CounterInv'
<1>1. /\ UNCHANGED <<subs, gradings>> /\ recounted' = recounted + 1
      /\ solved' = [u \in User |-> ActualSolved(u)]
      /\ accepted' = [p \in Problem |-> ActualAccepted(p)]
      /\ unsure' = {pair \in unsure : \E g \in gradings : Known(g.sub) /\ Pair(g.sub) = pair}
  BY DEF Recount
<1>2. \A s : (Accepted(s)' <=> Accepted(s)) /\ Pair(s)' = Pair(s) /\ (Known(s)' <=> Known(s))
  BY <1>1 DEF Accepted, Pair, Known
<1>3. /\ AcceptedPairs' = AcceptedPairs /\ KnownOnes' = KnownOnes /\ Commits' = Commits
      /\ IsFiniteSet(KnownOnes)
  BY <1>1, <1>2 DEF AcceptedPairs, KnownOnes, Commits, CounterInv
<1>4. ASSUME NEW k \in Commits PROVE FirstRight(k)'
  <2>1. Pair(k.sub)' \notin unsure' => Pair(k.sub) \notin unsure
    BY <1>1, <1>2 DEF Commits, GradingInv, GradingShaped
  <2>2. OpenFor(Pair(k.sub))' = OpenFor(Pair(k.sub))
    BY <1>2, <1>3 DEF OpenFor
  <2>3. FirstAccepted(k)' <=> FirstAccepted(k)
    BY <1>2 DEF FirstAccepted
  <2> QED
    BY <2>1, <2>2, <2>3 DEF FirstRight, CounterInv, CommitsInOrder
<1>5. solved' \in [User -> Nat] /\ accepted' \in [Problem -> Nat]
  BY <1>1, <1>3, ActualCounts
<1>6. ASSUME NEW u \in User PROVE Tallied(solved[u], OfUser(u))'
  <2>1. solved'[u] = Cardinality(AcceptedPairs \cap OfUser(u))
    BY <1>1, <1>3, ActualCounts
  <2> QED
    BY <1>3, <2>1 DEF Tallied, OfUser
<1>7. ASSUME NEW p \in Problem PROVE Tallied(accepted[p], OfAll(p))'
  <2>1. accepted'[p] = Cardinality(AcceptedPairs \cap OfAll(p))
    BY <1>1, <1>3, ActualCounts
  <2> QED
    BY <1>3, <2>1 DEF Tallied, OfAll
<1>8. recounted' # 0
  BY <1>1 DEF GradingInv, GradingTyped
<1> QED
  BY <1>3, <1>4, <1>5, <1>6, <1>7, <1>8 DEF CounterInv, CommitsInOrder

LEMMA CountersNext ==
    ASSUME StoreInv, GradingInv, CounterInv, [Next]_vars
    PROVE  CounterInv'
<1>1. StoreInv' /\ GradingInv'
  BY StoreNext, GradingNext
<1>2. ASSUME CalmStep, KnownOnes' = KnownOnes PROVE CounterInv'
  BY <1>1, <1>2, CalmKeepsCounters DEF CounterInv
<1>3. ASSUME NEW s \in Id, CalmStep, KnownOnes' = KnownOnes \cup {s} PROVE CounterInv'
  <2>1. IsFiniteSet(KnownOnes')
    BY <1>3, FS_AddElement DEF CounterInv
  <2> QED
    BY <1>1, <1>3, <2>1, CalmKeepsCounters
<1>4. CASE EditWithSubmissions \/ UNCHANGED vars
  <2>1. UNCHANGED subVars
    BY <1>4 DEF EditWithSubmissions, vars
  <2>2. subs' = subs /\ Commits' = Commits /\ UNCHANGED <<solved, accepted, recounted, unsure>>
    BY <2>1 DEF subVars, Commits
  <2> QED
    BY <1>2, <2>2, RowsCalm
<1>5. ASSUME NEW p \in Problem, DeleteProblem(p) PROVE CounterInv'
  BY <1>2, <1>5, DeleteCalm
<1>6. ASSUME NEW u \in User, NEW p \in Problem, NEW sheet \in Sheet, NEW s \in Id,
             Submit(u, p, sheet, s)
      PROVE  CounterInv'
  BY <1>3, <1>6, SubmitCalm
<1>7. ASSUME NEW S \in SUBSET Id, Rejudge(S) PROVE CounterInv'
  BY <1>2, <1>7, RejudgeCalm
<1>8. CASE Requests
  <2>1. \A p : OfProblem(p) \in SUBSET Id
    BY DEF OfProblem
  <2> QED
    BY <1>4, <1>5, <1>6, <1>7, <1>8, <2>1, RecountKeepsCounters DEF Requests
<1>9. ASSUME NEW s \in Id, Claim(s) PROVE CounterInv'
  BY <1>2, <1>9, ClaimCalm
<1>10. ASSUME NEW g \in gradings, GradeFails(g) PROVE CounterInv'
  <2>1. subs' = subs /\ Commits' = Commits /\ UNCHANGED <<solved, accepted, recounted, unsure>>
    BY <1>10 DEF GradeFails, Commits
  <2> QED
    BY <1>2, <2>1, RowsCalm
<1>11. ASSUME NEW g \in gradings, ReadProblem(g) \/ ReadRows(g) \/ ReadFile(g) PROVE CounterInv'
  BY <1>2, <1>11, ReadCalm
<1>12. ASSUME NEW g \in gradings, JudgeFailure(g) PROVE CounterInv'
  BY <1>2, <1>12, FailureCalm
<1> QED
  BY <1>4, <1>8, <1>9, <1>10, <1>11, <1>12, OpenKeepsCounters, CommitKeepsCounters DEF Next

\* Submissions to a problem are counted as they are inserted, and none leaves a problem
\* that is there.
LEMMA SentKept ==
    ASSUME StoreInv, GradingInv, CounterInv, SentInv, sentTo' = sentTo, KnownOnes' = KnownOnes,
           \A s \in Id : Known(s) => Pair(s)' = Pair(s),
           \A p \in Problem : Effect(p)
    PROVE  SentInv'
<1>1. ASSUME NEW p \in Problem PROVE OfProblem(p)' = OfProblem(p)
  <2>1. \A s \in Id : Known(s)' <=> Known(s)
    BY DEF KnownOnes
  <2>2. \A s \in Id : Known(s) => subs'[s].problem = subs[s].problem
    BY DEF Pair
  <2> QED
    BY <2>1, <2>2 DEF OfProblem
<1>2. \A p \in Problem : life'[p] # "gone" => life[p] # "gone"
  BY DEF Effect
<1> QED
  BY <1>1, <1>2 DEF SentInv

LEMMA SubmitCounts ==
    ASSUME StoreInv, GradingInv, CounterInv, SentInv, \A p \in Problem : Effect(p),
           NEW u \in User, NEW o \in Problem, NEW sheet \in Sheet, NEW s \in Id,
           Submit(u, o, sheet, s)
    PROVE  SentInv'
<1>1. PICK r : r = [user |-> u, problem |-> o, sheet |-> sheet, status |-> "queued",
                    verdict |-> None, version |-> None, attempts |-> 0, seen |-> None]
  OBVIOUS
<1>2. r.problem = o /\ r # None
  <2>1. r \in Submission
    BY <1>1 DEF Submission
  <2> QED
    BY <1>1, <2>1, NoneAssumption
<1>3. /\ subs' = [subs EXCEPT ![s] = r] /\ ~Known(s)
      /\ sentTo' = [sentTo EXCEPT ![o] = @ + 1] /\ UNCHANGED life
  BY <1>1 DEF Submit, storeVars
<1>4. subs'[s] = r /\ \A t \in Id \ {s} : subs'[t] = subs[t]
  BY <1>3 DEF GradingInv, GradingTyped
<1>5. OfProblem(o)' = OfProblem(o) \cup {s} /\ s \notin OfProblem(o)
  BY <1>2, <1>3, <1>4 DEF OfProblem, Known
<1>6. \A p \in Problem \ {o} : OfProblem(p)' = OfProblem(p)
  BY <1>2, <1>3, <1>4 DEF OfProblem, Known
<1>7. IsFiniteSet(OfProblem(o))
  <2>1. OfProblem(o) \in SUBSET KnownOnes /\ IsFiniteSet(KnownOnes)
    BY DEF OfProblem, KnownOnes, CounterInv
  <2> QED
    BY <2>1, FS_Subset
<1>8. Cardinality(OfProblem(o)') = Cardinality(OfProblem(o)) + 1
  BY <1>5, <1>7, FS_AddElement
<1>9. sentTo' \in [Problem -> Nat]
  BY <1>3 DEF SentInv
<1>10. sentTo'[o] = sentTo[o] + 1 /\ \A p \in Problem \ {o} : sentTo'[p] = sentTo[p]
  BY <1>3 DEF SentInv
<1> QED
  BY <1>3, <1>6, <1>8, <1>9, <1>10 DEF SentInv

LEMMA RecountSends ==
    ASSUME StoreInv, GradingInv, CounterInv, SentInv, Recount
    PROVE  SentInv'
<1>1. /\ UNCHANGED <<subs, life>>
      /\ sentTo' = [p \in Problem |-> ActuallySent(OfProblem(p))]
  BY DEF Recount, storeVars
<1>2. \A p : OfProblem(p)' = OfProblem(p)
  BY <1>1 DEF OfProblem, Known
<1>3. ASSUME NEW p \in Problem PROVE ActuallySent(OfProblem(p)) \in Nat
  <2>1. PICK T : T = {s \in OfProblem(p) : Known(s) /\ subs[s].status # "deleted"}
    OBVIOUS
  <2>2. T \in SUBSET KnownOnes /\ IsFiniteSet(KnownOnes)
    BY <2>1 DEF OfProblem, KnownOnes, CounterInv
  <2>3. IsFiniteSet(T)
    BY <2>2, FS_Subset
  <2> QED
    BY <2>1, <2>3, FS_CardinalityType DEF ActuallySent
<1>4. ASSUME NEW p \in Problem, life[p] # "gone"
      PROVE  ActuallySent(OfProblem(p)) = Cardinality(OfProblem(p))
  <2>1. {s \in OfProblem(p) : Known(s) /\ subs[s].status # "deleted"} = OfProblem(p)
    BY <1>4 DEF OfProblem, GradingInv, SubShaped
  <2> QED
    BY <2>1 DEF ActuallySent
<1> QED
  BY <1>1, <1>2, <1>3, <1>4 DEF SentInv

LEMMA SentNext ==
    ASSUME StoreInv, GradingInv, CounterInv, SentInv, [Next]_vars
    PROVE  SentInv'
<1>1. \A p \in Problem : Effect(p)
  BY StoreNext
<1>2. ASSUME CalmStep, KnownOnes' = KnownOnes, sentTo' = sentTo PROVE SentInv'
  BY <1>1, <1>2, SentKept DEF CalmStep
<1>3. ASSUME UNCHANGED <<subs, sentTo>> PROVE SentInv'
  <2>1. KnownOnes' = KnownOnes /\ \A s : Pair(s)' = Pair(s)
    BY <1>3 DEF KnownOnes, Known, Pair
  <2> QED
    BY <1>1, <1>3, <2>1, SentKept
<1>4. CASE EditWithSubmissions \/ UNCHANGED vars
  <2>1. UNCHANGED subVars
    BY <1>4 DEF EditWithSubmissions, vars
  <2> QED
    BY <1>3, <2>1 DEF subVars
<1>5. ASSUME NEW p \in Problem, DeleteProblem(p) PROVE SentInv'
  BY <1>2, <1>5, DeleteCalm DEF DeleteProblem
<1>6. ASSUME NEW S \in SUBSET Id, Rejudge(S) PROVE SentInv'
  BY <1>2, <1>6, RejudgeCalm DEF Rejudge
<1>7. CASE Requests
  <2>1. \A p : OfProblem(p) \in SUBSET Id
    BY DEF OfProblem
  <2> QED
    BY <1>1, <1>4, <1>5, <1>6, <1>7, <2>1, SubmitCounts, RecountSends DEF Requests
<1>8. ASSUME NEW s \in Id, Claim(s) PROVE SentInv'
  BY <1>2, <1>8, ClaimCalm DEF Claim
<1>9. ASSUME NEW g \in gradings, JudgeFailure(g) PROVE SentInv'
  BY <1>2, <1>9, FailureCalm DEF JudgeFailure
<1>10. ASSUME NEW g \in gradings, Commit(g) PROVE SentInv'
  BY <1>1, <1>10, CommitPairs, SentKept DEF Commit
<1>11. ASSUME NEW g \in gradings,
              ReadProblem(g) \/ ReadRows(g) \/ ReadFile(g) \/ OpenTransaction(g) \/ GradeFails(g)
       PROVE  SentInv'
  BY <1>3, <1>11 DEF ReadProblem, ReadRows, ReadFile, Reads, OpenTransaction, GradeFails
<1> QED
  BY <1>4, <1>7, <1>8, <1>9, <1>10, <1>11 DEF Next

LEMMA InitCounters == Init => CounterInv /\ SentInv
<1> SUFFICES ASSUME Init PROVE CounterInv /\ SentInv
  OBVIOUS
<1>1. /\ solved = [u \in User |-> 0] /\ accepted = [p \in Problem |-> 0] /\ sentTo = accepted
      /\ \A s \in Id : ~Known(s)
      /\ gradings = {}
  BY DEF Init, Known
<1>2. KnownOnes = {} /\ AcceptedPairs = {} /\ Commits = {} /\ Later = {} /\ Earned = {}
  <2>1. KnownOnes = {} /\ Commits = {} /\ \A s \in Id : ~Accepted(s)
    BY <1>1 DEF KnownOnes, Accepted, Commits
  <2>2. AcceptedPairs = {} /\ Later = {}
    BY <2>1 DEF AcceptedPairs, Later
  <2> QED
    BY <2>1, <2>2 DEF Earned
<1>3. \A p : OfProblem(p) = {}
  BY <1>1 DEF OfProblem
<1>4. IsFiniteSet({}) /\ Cardinality({}) = 0
  BY FS_EmptySet
<1>5. \A M : {} \cap M = {}
  OBVIOUS
<1>6. solved \in [User -> Nat] /\ accepted \in [Problem -> Nat]
  BY <1>1
<1>7. /\ \A u \in User : solved[u] = 0 /\ solved[u] >= 0
      /\ \A p \in Problem : accepted[p] = 0 /\ sentTo[p] = 0
  BY <1>1
<1>8. CounterInv
  BY <1>2, <1>4, <1>5, <1>6, <1>7 DEF CounterInv, CommitsInOrder, Tallied
<1> QED
  BY <1>1, <1>3, <1>4, <1>6, <1>7, <1>8 DEF SentInv

\* CountersSound, of every behaviour: the counters of users and problems are what counting
\* the submissions gives wherever the code promises it, however requests and graders
\* interleave.
THEOREM CountersCount == Spec => []CountersSound
<1>1. Init => CounterInv /\ SentInv
  BY InitCounters
<1>2. StoreInv /\ GradingInv /\ CounterInv /\ SentInv /\ [Next]_vars => (CounterInv /\ SentInv)'
  BY CountersNext, SentNext
<1>3. Spec => [](StoreInv /\ GradingInv /\ CounterInv /\ SentInv)
  BY <1>1, <1>2, GradingAlways, PTL DEF Spec
<1>4. StoreInv /\ GradingInv /\ CounterInv /\ SentInv => CountersSound
  BY CountersSafe
<1> QED
  BY <1>3, <1>4, PTL
=============================================================================
