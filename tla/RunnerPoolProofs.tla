-------------------------- MODULE RunnerPoolProofs --------------------------
(***************************************************************************)
(* Theorems about RunnerPool, for any runners, judge calls, boxes and      *)
(* parallelism, and whatever fails; and about WorkerRegistry, which says   *)
(* what process may use the runners, for any number of processes and       *)
(* hosts, equal pids among them, and whatever is adverse.                  *)
(***************************************************************************)
EXTENDS RunnerPool, WorkerRegistry, FiniteSetTheorems, TLAPS

-----------------------------------------------------------------------------
(* Sequences and boxes *)

LEMMA Appended ==
    ASSUME NEW S, NEW s \in Seq(S), NEW x \in S
    PROVE  /\ Append(s, x) \in Seq(S)
           /\ DOMAIN s = 1..Len(s) /\ Len(s) \in Nat
           /\ Len(Append(s, x)) = Len(s) + 1
           /\ DOMAIN Append(s, x) = 1..(Len(s) + 1)
           /\ \A i \in 1..Len(s) : Append(s, x)[i] = s[i]
           /\ Append(s, x)[Len(s) + 1] = x
OBVIOUS

LEMMA Shortened ==
    ASSUME NEW S, NEW s \in Seq(S), s # <<>>
    PROVE  /\ Tail(s) \in Seq(S)
           /\ DOMAIN s = 1..Len(s) /\ Len(s) \in Nat /\ Len(s) >= 1
           /\ Len(Tail(s)) = Len(s) - 1
           /\ DOMAIN Tail(s) = 1..(Len(s) - 1)
           /\ \A i \in 1..(Len(s) - 1) : Tail(s)[i] = s[i + 1]
           /\ Head(s) = s[1] /\ Head(s) \in S
OBVIOUS

\* A box is of one runner, and that is where it is given back.
LEMMA BoxRunner ==
    /\ \A r \in Runner : \A b \in BoxesOf(r) : b \in Box /\ RunnerOf(b) = r
    /\ \A b \in Box : RunnerOf(b) \in Runner /\ b \in BoxesOf(RunnerOf(b)) /\ b # None
BY NoneAssumption DEF Box, BoxesOf, RunnerOf

-----------------------------------------------------------------------------
(* Every box in one place *)

InFree(b) == \E r \in Runner : b \in free[r]
InHand(b) == \E c \in Slot : hand[c] = b
IsHeld(b) == \E c \in Slot : \E i \in DOMAIN held[c] : held[c][i] = b

\* BoxesConserved place by place, and where a box is free.
OnePlace ==
    /\ \A b \in Box : InFree(b) \/ InHand(b) \/ IsHeld(b)
    /\ \A r \in Runner : \A b \in free[r] : b \in BoxesOf(r)
    /\ \A b \in Box : ~(InFree(b) /\ InHand(b)) /\ ~(InFree(b) /\ IsHeld(b))
                      /\ ~(InHand(b) /\ IsHeld(b))
    /\ \A c, d \in Slot : hand[c] # None /\ hand[c] = hand[d] => c = d
    /\ \A c, d \in Slot : \A i \in DOMAIN held[c], j \in DOMAIN held[d] :
         held[c][i] = held[d][j] => c = d /\ i = j

Typed ==
    /\ free \in [Runner -> SUBSET Box]
    /\ held \in [Slot -> Seq(Box)]
    /\ hand \in [Slot -> Box \cup {None}]

LEMMA Conserved == Typed /\ OnePlace => BoxesConserved
<1> SUFFICES ASSUME Typed, OnePlace, NEW b \in Box
             PROVE  \E p \in Places(b) : Places(b) = {p}
  BY DEF BoxesConserved
<1>1. CASE InFree(b)
  <2>1. PICK r \in Runner : b \in free[r]
    BY <1>1 DEF InFree
  <2>2. \A q \in Runner : b \in free[q] => q = r
    BY <2>1, BoxRunner DEF OnePlace
  <2>3. ~InHand(b) /\ ~IsHeld(b)
    BY <1>1 DEF OnePlace
  <2>4. Places(b) = {<<"free", r>>}
    BY <2>1, <2>2, <2>3 DEF Places, InHand, IsHeld
  <2> QED
    BY <2>4
<1>2. CASE InHand(b)
  <2>1. PICK c \in Slot : hand[c] = b
    BY <1>2 DEF InHand
  <2>2. \A d \in Slot : hand[d] = b => d = c
    BY <2>1, BoxRunner DEF OnePlace
  <2>3. ~InFree(b) /\ ~IsHeld(b)
    BY <1>2 DEF OnePlace
  <2>4. Places(b) = {<<"hand", c>>}
    BY <2>1, <2>2, <2>3 DEF Places, InFree, IsHeld
  <2> QED
    BY <2>4
<1>3. CASE IsHeld(b)
  <2>0. PICK c \in Slot : \E i \in DOMAIN held[c] : held[c][i] = b
    BY <1>3 DEF IsHeld
  <2>1. PICK i \in DOMAIN held[c] : held[c][i] = b
    BY <2>0
  <2>2. \A d \in Slot : \A j \in DOMAIN held[d] : held[d][j] = b => d = c /\ j = i
    BY <2>1 DEF OnePlace
  <2>3. ~InFree(b) /\ ~InHand(b)
    BY <1>3 DEF OnePlace
  <2>4. Places(b) = {<<"held", c, i>>}
    BY <2>1, <2>2, <2>3 DEF Places, InFree, InHand
  <2> QED
    BY <2>4
<1> QED
  BY <1>1, <1>2, <1>3 DEF OnePlace

\* acquire takes a box from the list.
LEMMA FreeToHand ==
    ASSUME Typed, OnePlace, NEW c \in Slot, NEW r \in Runner, NEW b \in free[r],
           hand[c] = None, free' = [free EXCEPT ![r] = @ \ {b}],
           hand' = [hand EXCEPT ![c] = b], held' = held
    PROVE  Typed' /\ OnePlace'
<1> USE DEF Typed, InFree, InHand, IsHeld
<1>0. b \in Box /\ b # None /\ RunnerOf(b) = r
  BY BoxRunner DEF OnePlace
<1>1. Typed'
  BY <1>0
<1>2. \A q \in Runner : free'[q] = free[q] \ {b}
  BY <1>0, BoxRunner DEF OnePlace
<1>3. \A d \in Slot : hand'[d] = IF d = c THEN b ELSE hand[d]
  OBVIOUS
<1>4. ~InHand(b) /\ ~IsHeld(b)
  BY <1>0 DEF OnePlace
<1>5. \A x \in Box : InFree(x)' <=> InFree(x) /\ x # b
  BY <1>2
<1>6. \A x \in Box : InHand(x)' <=> InHand(x) \/ x = b
  BY <1>0, <1>3, BoxRunner
<1>7. \A x \in Box : IsHeld(x)' <=> IsHeld(x)
  OBVIOUS
<1>8. \A d, e \in Slot : hand'[d] # None /\ hand'[d] = hand'[e] => d = e
  BY <1>3, <1>4 DEF OnePlace
<1>9. \A q \in Runner : \A x \in free'[q] : x \in BoxesOf(q)
  BY <1>2 DEF OnePlace
<1> HIDE DEF InFree, InHand, IsHeld, Typed
<1> QED
  BY <1>1, <1>4, <1>5, <1>6, <1>7, <1>8, <1>9 DEF OnePlace

\* A box that cannot be initialised goes back to the list.
LEMMA HandToFree ==
    ASSUME Typed, OnePlace, NEW c \in Slot, hand[c] # None,
           free' = [free EXCEPT ![RunnerOf(hand[c])] = @ \cup {hand[c]}],
           hand' = [hand EXCEPT ![c] = None], held' = held
    PROVE  Typed' /\ OnePlace'
<1> USE DEF Typed, InFree, InHand, IsHeld
<1> DEFINE b == hand[c]
<1>0. b \in Box /\ RunnerOf(b) \in Runner /\ b \in BoxesOf(RunnerOf(b))
  BY BoxRunner
<1>1. Typed'
  BY <1>0
<1>2. \A q \in Runner : free'[q] = IF q = RunnerOf(b) THEN free[q] \cup {b} ELSE free[q]
  BY <1>0
<1>3. \A d \in Slot : hand'[d] = IF d = c THEN None ELSE hand[d]
  OBVIOUS
<1>4. ~InFree(b) /\ ~IsHeld(b)
  BY <1>0 DEF OnePlace
<1>5. \A x \in Box : InFree(x)' <=> InFree(x) \/ x = b
  BY <1>0, <1>2
<1>6. \A x \in Box : InHand(x)' <=> InHand(x) /\ x # b
  BY <1>0, <1>3, BoxRunner DEF OnePlace
<1>7. \A x \in Box : IsHeld(x)' <=> IsHeld(x)
  OBVIOUS
<1>8. \A d, e \in Slot : hand'[d] # None /\ hand'[d] = hand'[e] => d = e
  BY <1>3 DEF OnePlace
<1>9. \A q \in Runner : \A x \in free'[q] : x \in BoxesOf(q)
  BY <1>0, <1>2 DEF OnePlace
<1> HIDE DEF InFree, InHand, IsHeld, Typed, b
<1> QED
  BY <1>1, <1>4, <1>5, <1>6, <1>7, <1>8, <1>9 DEF OnePlace

\* A box that is ready joins those of a call.
LEMMA HandToHeld ==
    ASSUME Typed, OnePlace, NEW c \in Slot, NEW d \in Slot, hand[c] # None,
           held' = [held EXCEPT ![d] = Append(@, hand[c])],
           hand' = [hand EXCEPT ![c] = None], free' = free
    PROVE  Typed' /\ OnePlace'
<1> USE DEF Typed, InFree, InHand, IsHeld
<1> DEFINE b == hand[c]
           n == Len(held[d]) + 1
<1>0. b \in Box
  OBVIOUS
<1>a. /\ Append(held[d], b) \in Seq(Box)
      /\ DOMAIN held[d] = 1..Len(held[d]) /\ n \in Nat /\ n \notin DOMAIN held[d]
      /\ DOMAIN Append(held[d], b) = DOMAIN held[d] \cup {n}
      /\ \A i \in DOMAIN held[d] : Append(held[d], b)[i] = held[d][i]
      /\ Append(held[d], b)[n] = b
  BY <1>0, Appended
<1>1. Typed'
  BY <1>a
<1>2. \A e \in Slot \ {d} : held'[e] = held[e]
  OBVIOUS
<1>3. /\ DOMAIN held'[d] = DOMAIN held[d] \cup {n}
      /\ \A i \in DOMAIN held[d] : held'[d][i] = held[d][i]
      /\ held'[d][n] = b
  BY <1>a
<1> HIDE DEF n
<1>4. ~InFree(b) /\ ~IsHeld(b)
  BY <1>0 DEF OnePlace
<1>5. \A x \in Box : InFree(x)' <=> InFree(x)
  OBVIOUS
<1>6. \A x \in Box : InHand(x)' <=> InHand(x) /\ x # b
  BY <1>0, BoxRunner DEF OnePlace
<1>7. \A x \in Box : IsHeld(x)' <=> IsHeld(x) \/ x = b
  BY <1>2, <1>3
<1>8. \A e, f \in Slot : hand'[e] # None /\ hand'[e] = hand'[f] => e = f
  BY DEF OnePlace
<1>9. \A e, f \in Slot : \A i \in DOMAIN held'[e], j \in DOMAIN held'[f] :
        held'[e][i] = held'[f][j] => e = f /\ i = j
  <2>1. \A e \in Slot : \A i \in DOMAIN held'[e] :
          \/ e = d /\ i = n /\ held'[e][i] = b
          \/ i \in DOMAIN held[e] /\ held'[e][i] = held[e][i] /\ held[e][i] # b
    BY <1>2, <1>3, <1>4
  <2> HIDE DEF b, Typed
  <2> QED
    BY <2>1 DEF OnePlace
<1> HIDE DEF InFree, InHand, IsHeld, Typed, b
<1> QED
  BY <1>1, <1>4, <1>5, <1>6, <1>7, <1>8, <1>9 DEF OnePlace

\* What release takes from a call.
LEMMA HeldShorter ==
    ASSUME Typed, OnePlace, NEW c \in Slot, held[c] # <<>>,
           held' = [held EXCEPT ![c] = Tail(@)]
    PROVE  /\ Head(held[c]) \in Box /\ IsHeld(Head(held[c]))
           /\ held' \in [Slot -> Seq(Box)]
           /\ \A x \in Box : IsHeld(x)' <=> IsHeld(x) /\ x # Head(held[c])
           /\ \A e, f \in Slot : \A i \in DOMAIN held'[e], j \in DOMAIN held'[f] :
                held'[e][i] = held'[f][j] => e = f /\ i = j
<1> DEFINE b == Head(held[c])
           n == Len(held[c])
<1>1. /\ Tail(held[c]) \in Seq(Box) /\ b \in Box /\ b = held[c][1]
      /\ n \in Nat /\ n >= 1 /\ DOMAIN held[c] = 1..n
      /\ DOMAIN Tail(held[c]) = 1..(n - 1)
      /\ \A i \in 1..(n - 1) : Tail(held[c])[i] = held[c][i + 1]
  BY Shortened DEF Typed
<1>2. /\ held' \in [Slot -> Seq(Box)]
      /\ held'[c] = Tail(held[c]) /\ \A e \in Slot \ {c} : held'[e] = held[e]
  BY <1>1 DEF Typed
<1> HIDE DEF n, b
<1>3. IsHeld(b)
  BY <1>1 DEF IsHeld
<1>4. \A i \in DOMAIN held'[c] : i + 1 \in DOMAIN held[c] /\ i + 1 # 1
                                   /\ held'[c][i] = held[c][i + 1]
  BY <1>1, <1>2
<1>5. \A i \in DOMAIN held[c] : held[c][i] # b
        => i - 1 \in DOMAIN held'[c] /\ held'[c][i - 1] = held[c][i]
  BY <1>1, <1>2
<1>6. \A e \in Slot : \A i \in DOMAIN held[e] : held[e][i] = b => e = c /\ i = 1
  BY <1>1 DEF OnePlace
<1>7. ASSUME NEW x \in Box PROVE IsHeld(x)' <=> IsHeld(x) /\ x # b
  <2>1. ASSUME IsHeld(x)' PROVE IsHeld(x) /\ x # b
    BY <1>2, <1>4, <1>6, <2>1 DEF IsHeld
  <2>2. ASSUME IsHeld(x), x # b PROVE IsHeld(x)'
    <3>1. PICK e \in Slot : \E i \in DOMAIN held[e] : held[e][i] = x
      BY <2>2 DEF IsHeld
    <3>2. \E i \in DOMAIN held'[e] : held'[e][i] = x
      <4>1. CASE e = c
        BY <1>5, <2>2, <3>1, <4>1
      <4>2. CASE e # c
        BY <1>2, <3>1, <4>2
      <4> QED
        BY <4>1, <4>2
    <3> QED
      BY <3>2 DEF IsHeld
  <2> QED
    BY <2>1, <2>2
<1>8. ASSUME NEW e \in Slot, NEW f \in Slot, NEW i \in DOMAIN held'[e],
             NEW j \in DOMAIN held'[f], held'[e][i] = held'[f][j]
      PROVE  e = f /\ i = j
  <2>1. i \in Nat /\ j \in Nat
    BY <1>2, Appended
  <2>2. CASE e = c /\ f = c
    <3>1. i + 1 = j + 1
      BY <1>4, <1>8, <2>2 DEF OnePlace
    <3> QED
      BY <2>1, <2>2, <3>1
  <2>3. CASE e = c /\ f # c
    BY <1>2, <1>4, <1>8, <2>3 DEF OnePlace
  <2>4. CASE e # c /\ f = c
    BY <1>2, <1>4, <1>8, <2>4 DEF OnePlace
  <2>5. CASE e # c /\ f # c
    BY <1>2, <1>8, <2>5 DEF OnePlace
  <2> QED
    BY <2>2, <2>3, <2>4, <2>5
<1> QED
  BY <1>1, <1>2, <1>3, <1>7, <1>8 DEF b

\* release without anybody waiting.
LEMMA HeldToFree ==
    ASSUME Typed, OnePlace, NEW c \in Slot, held[c] # <<>>, NEW b, b = Head(held[c]),
           held' = [held EXCEPT ![c] = Tail(@)], hand' = hand,
           free' = [free EXCEPT ![RunnerOf(b)] = @ \cup {b}]
    PROVE  Typed' /\ OnePlace'
<1>1. /\ b \in Box /\ IsHeld(b) /\ held' \in [Slot -> Seq(Box)]
      /\ \A x \in Box : IsHeld(x)' <=> IsHeld(x) /\ x # b
      /\ \A e, f \in Slot : \A i \in DOMAIN held'[e], j \in DOMAIN held'[f] :
           held'[e][i] = held'[f][j] => e = f /\ i = j
  BY HeldShorter
<1>2. PICK r \in Runner : r = RunnerOf(b) /\ b \in BoxesOf(r)
  BY <1>1, BoxRunner
<1>3. free'[r] = free[r] \cup {b} /\ \A q \in Runner \ {r} : free'[q] = free[q]
  BY <1>2 DEF Typed
<1>5. Typed'
  BY <1>1, <1>2 DEF Typed
<1>6. \A x \in Box : InFree(x)' <=> InFree(x) \/ x = b
  BY <1>3 DEF InFree
<1>7. \A x \in Box : InHand(x)' <=> InHand(x)
  BY DEF InHand
<1>8. \A q \in Runner : \A x \in free'[q] : x \in BoxesOf(q)
  BY <1>2, <1>3 DEF OnePlace
<1>9. \A e, f \in Slot : hand'[e] # None /\ hand'[e] = hand'[f] => e = f
  BY DEF OnePlace
<1> QED
  BY <1>1, <1>5, <1>6, <1>7, <1>8, <1>9 DEF OnePlace

\* release with somebody waiting.
LEMMA HeldToHand ==
    ASSUME Typed, OnePlace, NEW c \in Slot, held[c] # <<>>, hand[c] = None,
           held' = [held EXCEPT ![c] = Tail(@)], free' = free,
           hand' = [hand EXCEPT ![c] = Head(held[c])]
    PROVE  Typed' /\ OnePlace'
<1> DEFINE b == Head(held[c])
<1>1. /\ b \in Box /\ IsHeld(b) /\ held' \in [Slot -> Seq(Box)]
      /\ \A x \in Box : IsHeld(x)' <=> IsHeld(x) /\ x # b
      /\ \A e, f \in Slot : \A i \in DOMAIN held'[e], j \in DOMAIN held'[f] :
           held'[e][i] = held'[f][j] => e = f /\ i = j
  BY HeldShorter
<1>2. hand' = [hand EXCEPT ![c] = b]
  OBVIOUS
<1> HIDE DEF b
<1>3. \A d \in Slot : hand'[d] = IF d = c THEN b ELSE hand[d]
  BY <1>2 DEF Typed
<1>4. Typed'
  BY <1>1, <1>2 DEF Typed
<1>5. \A x \in Box : InFree(x)' <=> InFree(x)
  BY DEF InFree
<1>6. \A x \in Box : InHand(x)' <=> InHand(x) \/ x = b
  BY <1>3, BoxRunner DEF InHand
<1>7. ~InHand(b)
  BY <1>1 DEF OnePlace
<1>8. \A e, f \in Slot : hand'[e] # None /\ hand'[e] = hand'[f] => e = f
  BY <1>3, <1>7 DEF OnePlace, InHand
<1>9. \A q \in Runner : \A x \in free'[q] : x \in BoxesOf(q)
  BY DEF OnePlace
<1> QED
  BY <1>1, <1>4, <1>5, <1>6, <1>7, <1>8, <1>9 DEF OnePlace

-----------------------------------------------------------------------------
(* What the calls are waiting for *)

Needed(c) == job[c].boxes + (IF job[c].checker = None THEN 0 ELSE 1)

\* A call that asks for a box lacks one, so that it knows the runner it wants.
Room ==
    \A c \in Slot :
        /\ pc[c] = "idle" => held[c] = <<>>
        /\ pc[c] = "judging" => job[c] \in Job /\ Len(held[c]) <= Needed(c)
        /\ pc[c] \in {"ensuring", "initing", "waiting"}
             => job[c] \in Job /\ Len(held[c]) < Needed(c)

\* A call that waits is in one queue, or about to be given one box.
OneTurn ==
    /\ \A r \in Runner : \A i \in DOMAIN waiters[r] : pc[waiters[r][i]] = "waiting"
    /\ \A r, q \in Runner : \A i \in DOMAIN waiters[r], j \in DOMAIN waiters[q] :
         waiters[r][i] = waiters[q][j] => r = q /\ i = j
    /\ \A c \in Slot : heir[c] # None =>
         /\ pc[heir[c]] = "waiting"
         /\ \A r \in Runner : \A i \in DOMAIN waiters[r] : waiters[r][i] # heir[c]
    /\ \A c, d \in Slot : heir[c] # None /\ heir[c] = heir[d] => c = d

PoolInv == TypeOK /\ Room /\ OneTurn /\ OnePlace

LEMMA SlotNotNone == None \notin Slot /\ None \notin Box /\ None \notin Job
BY NoneAssumption

LEMMA WantedIsRunner ==
    ASSUME TypeOK, Room, NEW c \in Slot, pc[c] = "ensuring"
    PROVE  Wanted(c) \in Runner
<1>1. job[c] \in Job /\ Len(held[c]) < Needed(c)
  BY DEF Room
<1>2. job[c].lang \in Runner /\ job[c].checker \in Runner \cup {None} /\ job[c].boxes \in Nat
  BY <1>1, SizeAssumption DEF Job
<1>3. Len(held[c]) \in Nat
  BY DEF TypeOK
<1> QED
  BY <1>1, <1>2, <1>3 DEF Needed, Wanted

\* As long as nobody who waits is disturbed, the turns stay as they are.
LEMMA TurnsKept ==
    ASSUME OneTurn, waiters' = waiters, heir' = heir,
           \A d \in Slot : pc[d] = "waiting" => pc'[d] = "waiting",
           TypeOK
    PROVE  OneTurn'
<1>1. \A r \in Runner : \A i \in DOMAIN waiters[r] : waiters[r][i] \in Slot
  BY DEF TypeOK
<1>2. \A c \in Slot : heir[c] # None => heir[c] \in Slot
  BY DEF TypeOK
<1> QED
  BY <1>1, <1>2 DEF OneTurn

LEMMA RoomKept ==
    ASSUME Room, NEW c \in Slot, 
           \A d \in Slot \ {c} : pc'[d] = pc[d] /\ job'[d] = job[d] /\ held'[d] = held[d],
           /\ pc'[c] = "idle" => held'[c] = <<>>
           /\ pc'[c] = "judging" => job'[c] \in Job /\ Len(held'[c]) <= Needed(c)'
           /\ pc'[c] \in {"ensuring", "initing", "waiting"}
                => job'[c] \in Job /\ Len(held'[c]) < Needed(c)'
    PROVE  Room'
BY DEF Room, Needed

LEMMA TypedOfTypeOK == TypeOK => Typed
BY DEF TypeOK, Typed

-----------------------------------------------------------------------------
(* The steps *)

LEMMA InitPool == Init => PoolInv
<1> SUFFICES ASSUME Init PROVE PoolInv
  OBVIOUS
<1>1. TypeOK
  <2>1. \A r \in Runner : BoxesOf(r) \subseteq Box
    BY BoxRunner
  <2> QED
    BY <2>1 DEF Init, TypeOK, Phase
<1>2. Room
  BY DEF Init, Room
<1>3. OneTurn
  BY DEF Init, OneTurn
<1>4. OnePlace
  <2>1. \A b \in Box : ~InHand(b) /\ ~IsHeld(b)
    BY SlotNotNone DEF Init, InHand, IsHeld
  <2>2. \A b \in Box : InFree(b)
    BY BoxRunner DEF Init, InFree
  <2> QED
    BY <2>1, <2>2 DEF Init, OnePlace
<1> QED
  BY <1>1, <1>2, <1>3, <1>4 DEF PoolInv

\* A step that moves no box.
LEMMA BoxesStay ==
    ASSUME OnePlace, UNCHANGED <<free, held, hand>>
    PROVE  OnePlace'
BY DEF OnePlace, InFree, InHand, IsHeld

LEMMA BeginKeeps ==
    ASSUME PoolInv, NEW c \in Slot, Begin(c)
    PROVE  PoolInv'
<1> USE DEF PoolInv, Begin
<1>1. PICK j \in Job : job' = [job EXCEPT ![c] = j]
  OBVIOUS
<1>2. TypeOK'
  BY <1>1 DEF TypeOK, Phase
<1>3. pc'[c] = "judging" /\ job'[c] = j /\ held'[c] = <<>>
  BY <1>1 DEF TypeOK, Room
<1>4. Needed(c)' \in Nat
  BY <1>3, SizeAssumption DEF Needed, Job
<1>5. \A d \in Slot \ {c} : pc'[d] = pc[d] /\ job'[d] = job[d] /\ held'[d] = held[d]
  BY <1>1 DEF TypeOK
<1>6. Room'
  BY <1>3, <1>4, <1>5, RoomKept
<1>7. OneTurn'
  BY TurnsKept DEF TypeOK
<1> QED
  BY <1>2, <1>6, <1>7, BoxesStay

LEMMA AcquireKeeps ==
    ASSUME PoolInv, NEW c \in Slot, Acquire(c)
    PROVE  PoolInv'
<1> USE DEF PoolInv, Acquire
<1>1. job[c] \in Job /\ Len(held[c]) <= Needed(c) /\ Len(held[c]) # Needed(c)
  BY DEF Room, AllHeld, Needed
<1>2. TypeOK'
  BY DEF TypeOK, Phase
<1>3. Len(held[c]) \in Nat /\ Needed(c) \in Nat
  BY <1>1, SizeAssumption DEF TypeOK, Needed, Job
<1>4. Room'
  <2>1. pc'[c] = "ensuring" /\ Len(held'[c]) < Needed(c)'
    BY <1>1, <1>3 DEF TypeOK, Needed
  <2>2. \A d \in Slot \ {c} : pc'[d] = pc[d] /\ job'[d] = job[d] /\ held'[d] = held[d]
    BY DEF TypeOK
  <2> QED
    BY <1>1, <2>1, <2>2, RoomKept
<1>5. OneTurn'
  BY TurnsKept DEF TypeOK
<1> QED
  BY <1>2, <1>4, <1>5, BoxesStay

LEMMA FinishKeeps ==
    ASSUME PoolInv, NEW c \in Slot, Finish(c)
    PROVE  PoolInv'
<1> USE DEF PoolInv, Finish
<1>1. TypeOK'
  BY DEF TypeOK, Phase
<1>2. pc' = [pc EXCEPT ![c] = "releasing"] /\ pc \in [Slot -> Phase]
  BY DEF TypeOK
<1>3. Room'
  BY <1>2, RoomKept
<1>4. OneTurn'
  BY TurnsKept DEF TypeOK
<1> QED
  BY <1>1, <1>3, <1>4, BoxesStay

LEMMA LeaveKeeps ==
    ASSUME PoolInv, NEW c \in Slot, Leave(c)
    PROVE  PoolInv'
<1> USE DEF PoolInv, Leave
<1>1. TypeOK'
  BY DEF TypeOK, Phase
<1>2. Room'
  BY RoomKept DEF TypeOK
<1>3. OneTurn'
  BY TurnsKept DEF TypeOK
<1> QED
  BY <1>1, <1>2, <1>3, BoxesStay

LEMMA RunnerStartsKeeps ==
    ASSUME PoolInv, NEW r \in Runner, RunnerStarts(r)
    PROVE  PoolInv'
<1> USE DEF PoolInv, RunnerStarts
<1>1. TypeOK'
  BY DEF TypeOK
<1>2. Room'
  BY DEF Room, Needed
<1>3. OneTurn'
  BY TurnsKept
<1> QED
  BY <1>1, <1>2, <1>3, BoxesStay

LEMMA RunnerFailsKeeps ==
    ASSUME PoolInv, NEW r \in Runner, RunnerFails(r)
    PROVE  PoolInv'
<1> USE DEF PoolInv, RunnerFails
<1>1. \A d \in Slot : pc'[d] = pc[d] \/ (pc[d] = "ensuring" /\ pc'[d] = "releasing")
  BY DEF Ensuring
<1>2. TypeOK'
  <2>1. pc' \in [Slot -> Phase]
    BY DEF TypeOK, Phase
  <2>2. \A d \in Slot : /\ hand'[d] # None <=> pc'[d] \in {"initing", "handing"}
                        /\ heir'[d] # None <=> pc'[d] = "handing"
    BY <1>1 DEF TypeOK
  <2> QED
    BY <2>1, <2>2 DEF TypeOK
<1>3. Room'
  BY <1>1 DEF Room, Needed
<1>4. OneTurn'
  BY <1>1, TurnsKept
<1> QED
  BY <1>2, <1>3, <1>4, BoxesStay

LEMMA TakeFreeKeeps ==
    ASSUME PoolInv, NEW c \in Slot, TakeFree(c)
    PROVE  PoolInv'
<1> USE DEF PoolInv, TakeFree
<1>1. Wanted(c) \in Runner
  BY WantedIsRunner
<1>2. PICK b \in free[Wanted(c)] : /\ free' = [free EXCEPT ![Wanted(c)] = @ \ {b}]
                                   /\ hand' = [hand EXCEPT ![c] = b]
  OBVIOUS
<1>3. b \in Box /\ b # None
  BY <1>1, BoxRunner DEF OnePlace
<1>4. hand[c] = None
  BY DEF TypeOK
<1>5. OnePlace' /\ Typed'
  BY <1>1, <1>2, <1>4, FreeToHand, TypedOfTypeOK
<1>6. TypeOK'
  <2>1. pc' = [pc EXCEPT ![c] = "initing"] /\ pc \in [Slot -> Phase] /\ pc' \in [Slot -> Phase]
    BY DEF TypeOK, Phase
  <2>2. \A d \in Slot : /\ hand'[d] # None <=> pc'[d] \in {"initing", "handing"}
                        /\ heir'[d] # None <=> pc'[d] = "handing"
    BY <1>2, <1>3, <2>1 DEF TypeOK
  <2> QED
    BY <1>5, <2>1, <2>2 DEF TypeOK, Typed
<1>7. Room'
  <2>1. pc' = [pc EXCEPT ![c] = "initing"] /\ pc \in [Slot -> Phase]
    BY DEF TypeOK
  <2>2. job[c] \in Job /\ Len(held[c]) < Needed(c)
    BY DEF Room
  <2> QED
    BY <2>1, <2>2, RoomKept DEF Needed
<1>8. OneTurn'
  BY TurnsKept DEF TypeOK
<1> QED
  BY <1>5, <1>6, <1>7, <1>8

LEMMA QueueKeeps ==
    ASSUME PoolInv, NEW c \in Slot, Queue(c)
    PROVE  PoolInv'
<1> USE DEF PoolInv, Queue
<1> DEFINE r == Wanted(c)
<1>1. r \in Runner
  BY WantedIsRunner
<1>2. /\ waiters[r] \in Seq(Slot) /\ Append(waiters[r], c) \in Seq(Slot)
      /\ Len(waiters[r]) + 1 \notin DOMAIN waiters[r]
      /\ DOMAIN Append(waiters[r], c) = DOMAIN waiters[r] \cup {Len(waiters[r]) + 1}
      /\ \A i \in DOMAIN waiters[r] : Append(waiters[r], c)[i] = waiters[r][i]
      /\ Append(waiters[r], c)[Len(waiters[r]) + 1] = c
  <2>1. waiters[r] \in Seq(Slot)
    BY <1>1 DEF TypeOK
  <2> QED
    BY <2>1, Appended
<1>3. waiters' = [waiters EXCEPT ![r] = Append(@, c)] /\ waiters \in [Runner -> Seq(Slot)]
  BY DEF TypeOK
<1>4. pc' = [pc EXCEPT ![c] = "waiting"] /\ pc \in [Slot -> Phase]
  BY DEF TypeOK
<1> HIDE DEF r
<1>5. TypeOK'
  <2>1. waiters' \in [Runner -> Seq(Slot)]
    BY <1>1, <1>2, <1>3
  <2>2. pc' \in [Slot -> Phase]
    BY <1>4 DEF Phase
  <2> QED
    BY <2>1, <2>2 DEF TypeOK
<1>6. Room'
  BY <1>4, RoomKept DEF Room, Needed
<1>7. /\ \A q \in Runner \ {r} : waiters'[q] = waiters[q]
      /\ DOMAIN waiters'[r] = DOMAIN waiters[r] \cup {Len(waiters[r]) + 1}
      /\ \A i \in DOMAIN waiters[r] : waiters'[r][i] = waiters[r][i]
      /\ waiters'[r][Len(waiters[r]) + 1] = c
  BY <1>1, <1>2, <1>3
\* A call that is about to queue is not in any queue, and nobody's heir.
<1>8. /\ \A q \in Runner : \A i \in DOMAIN waiters[q] : waiters[q][i] \in Slot \ {c}
      /\ \A d \in Slot : heir[d] # None => heir[d] \in Slot \ {c}
  <2>1. pc[c] # "waiting"
    OBVIOUS
  <2>2. \A q \in Runner : \A i \in DOMAIN waiters[q] : waiters[q][i] \in Slot
    BY DEF TypeOK
  <2>3. \A d \in Slot : heir[d] # None => heir[d] \in Slot
    BY DEF TypeOK
  <2> QED
    BY <2>1, <2>2, <2>3 DEF OneTurn
<1>9. OneTurn'
  <2>1. \A q \in Runner : \A i \in DOMAIN waiters'[q] :
          \/ q = r /\ i = Len(waiters[r]) + 1 /\ waiters'[q][i] = c
          \/ i \in DOMAIN waiters[q] /\ waiters'[q][i] = waiters[q][i] /\ waiters[q][i] # c
    <3>1. \A i \in DOMAIN waiters'[r] :
            \/ i = Len(waiters[r]) + 1 /\ waiters'[r][i] = c
            \/ i \in DOMAIN waiters[r] /\ waiters'[r][i] = waiters[r][i]
      BY <1>7, Zenon
    <3>2. \A q \in Runner \ {r} : \A i \in DOMAIN waiters'[q] :
            i \in DOMAIN waiters[q] /\ waiters'[q][i] = waiters[q][i]
      BY <1>7, Zenon
    <3>3. \A q \in Runner : \A i \in DOMAIN waiters[q] : waiters[q][i] # c
      BY <1>8, Zenon
    <3> QED
      BY <3>1, <3>2, <3>3
  <2>2. \A d \in Slot \ {c} : pc'[d] = pc[d]
    BY <1>4
  <2>3. pc'[c] = "waiting"
    BY <1>4
  <2>4. \A q \in Runner : \A i \in DOMAIN waiters'[q] : pc'[waiters'[q][i]] = "waiting"
    BY <1>8, <2>1, <2>2, <2>3 DEF OneTurn
  <2>5. \A p, q \in Runner : \A i \in DOMAIN waiters'[p], j \in DOMAIN waiters'[q] :
          waiters'[p][i] = waiters'[q][j] => p = q /\ i = j
    BY <2>1 DEF OneTurn
  <2>6. \A d \in Slot : heir'[d] # None =>
          /\ pc'[heir'[d]] = "waiting"
          /\ \A q \in Runner : \A i \in DOMAIN waiters'[q] : waiters'[q][i] # heir'[d]
    BY <1>8, <2>1, <2>2 DEF OneTurn
  <2>7. \A d, e \in Slot : heir'[d] # None /\ heir'[d] = heir'[e] => d = e
    BY DEF OneTurn
  <2> QED
    BY <2>4, <2>5, <2>6, <2>7 DEF OneTurn
<1> QED
  BY <1>5, <1>6, <1>9, BoxesStay

LEMMA InitOkKeeps ==
    ASSUME PoolInv, NEW c \in Slot, InitOk(c)
    PROVE  PoolInv'
<1> USE DEF PoolInv, InitOk
<1>1. hand[c] \in Box /\ hand[c] # None
  BY DEF TypeOK
<1>2. OnePlace' /\ Typed'
  BY <1>1, HandToHeld, TypedOfTypeOK
<1>3. pc' = [pc EXCEPT ![c] = "judging"] /\ pc \in [Slot -> Phase] /\ pc' \in [Slot -> Phase]
  BY DEF TypeOK, Phase
<1>4. TypeOK'
  <2>1. \A d \in Slot : /\ hand'[d] # None <=> pc'[d] \in {"initing", "handing"}
                        /\ heir'[d] # None <=> pc'[d] = "handing"
    BY <1>3 DEF TypeOK
  <2> QED
    BY <1>2, <1>3, <2>1 DEF TypeOK, Typed
<1>5. Room'
  <2>1. job[c] \in Job /\ Len(held[c]) < Needed(c)
    BY DEF Room
  <2>2. Needed(c) \in Nat /\ Len(held[c]) \in Nat
    BY <2>1, SizeAssumption DEF TypeOK, Needed, Job
  <2>3. Len(held'[c]) = Len(held[c]) + 1
    BY <1>1, Appended DEF TypeOK
  <2>4. Needed(c)' = Needed(c)
    BY DEF Needed
  <2>5. \A d \in Slot \ {c} : held'[d] = held[d]
    BY DEF TypeOK
  <2> QED
    BY <1>3, <2>1, <2>2, <2>3, <2>4, <2>5, RoomKept
<1>6. OneTurn'
  BY <1>3, TurnsKept
<1> QED
  BY <1>2, <1>4, <1>5, <1>6

LEMMA InitFailsKeeps ==
    ASSUME PoolInv, NEW c \in Slot, InitFails(c)
    PROVE  PoolInv'
<1> USE DEF PoolInv, InitFails
<1>1. hand[c] \in Box /\ hand[c] # None
  BY DEF TypeOK
<1>2. OnePlace' /\ Typed'
  BY <1>1, HandToFree, TypedOfTypeOK
<1>3. pc' = [pc EXCEPT ![c] = "releasing"] /\ pc \in [Slot -> Phase] /\ pc' \in [Slot -> Phase]
  BY DEF TypeOK, Phase
<1>4. TypeOK'
  <2>1. \A d \in Slot : /\ hand'[d] # None <=> pc'[d] \in {"initing", "handing"}
                        /\ heir'[d] # None <=> pc'[d] = "handing"
    BY <1>3 DEF TypeOK
  <2> QED
    BY <1>2, <1>3, <2>1 DEF TypeOK, Typed
<1>5. Room'
  BY <1>3, RoomKept
<1>6. OneTurn'
  BY <1>3, TurnsKept
<1> QED
  BY <1>2, <1>4, <1>5, <1>6

LEMMA ReleaseToFreeKeeps ==
    ASSUME PoolInv, NEW c \in Slot, ReleaseToFree(c)
    PROVE  PoolInv'
<1> USE DEF PoolInv, ReleaseToFree
<1>1. OnePlace' /\ Typed'
  BY HeldToFree, TypedOfTypeOK
<1>2. TypeOK'
  BY <1>1 DEF TypeOK, Typed
<1>3. \A d \in Slot \ {c} : held'[d] = held[d]
  BY DEF TypeOK
<1>4. Room'
  BY <1>3, RoomKept
<1>5. OneTurn'
  BY TurnsKept
<1> QED
  BY <1>1, <1>2, <1>4, <1>5

LEMMA ReleaseToWaiterKeeps ==
    ASSUME PoolInv, NEW c \in Slot, ReleaseToWaiter(c)
    PROVE  PoolInv'
<1> USE DEF PoolInv, ReleaseToWaiter
<1> DEFINE b == Head(held[c])
           r == RunnerOf(b)
           h == Head(waiters[r])
<1>1. hand[c] = None
  BY DEF TypeOK
<1>2. OnePlace' /\ Typed'
  BY <1>1, HeldToHand, TypedOfTypeOK
<1>3. b \in Box /\ b # None /\ r \in Runner
  <2>1. b \in Box
    BY Shortened DEF TypeOK
  <2> QED
    BY <2>1, BoxRunner
<1>4. /\ hand' = [hand EXCEPT ![c] = b]
      /\ heir' = [heir EXCEPT ![c] = h]
      /\ waiters' = [waiters EXCEPT ![r] = Tail(@)]
      /\ waiters[r] # <<>>
  OBVIOUS
<1>5. waiters[r] \in Seq(Slot)
  BY <1>3 DEF TypeOK
<1> HIDE DEF b, r
<1>6. /\ Tail(waiters[r]) \in Seq(Slot) /\ h \in Slot /\ h = waiters[r][1]
      /\ 1 \in DOMAIN waiters[r]
      /\ \A i \in DOMAIN Tail(waiters[r]) : /\ i \in Nat /\ i + 1 \in DOMAIN waiters[r]
                                            /\ i + 1 # 1
                                            /\ Tail(waiters[r])[i] = waiters[r][i + 1]
  BY <1>4, <1>5, Shortened
<1> HIDE DEF h
<1>7. /\ waiters' \in [Runner -> Seq(Slot)]
      /\ waiters'[r] = Tail(waiters[r])
      /\ \A q \in Runner \ {r} : waiters'[q] = waiters[q]
  BY <1>3, <1>4, <1>6 DEF TypeOK
<1>8. pc' = [pc EXCEPT ![c] = "handing"] /\ pc \in [Slot -> Phase] /\ pc' \in [Slot -> Phase]
  BY DEF TypeOK, Phase
<1>9. heir' \in [Slot -> Slot \cup {None}] /\ h # None
  BY <1>4, <1>6, SlotNotNone DEF TypeOK
<1>10. TypeOK'
  <2>1. \A d \in Slot : /\ hand'[d] # None <=> pc'[d] \in {"initing", "handing"}
                        /\ heir'[d] # None <=> pc'[d] = "handing"
    BY <1>3, <1>4, <1>8, <1>9 DEF TypeOK
  <2> QED
    BY <1>2, <1>7, <1>8, <1>9, <2>1 DEF TypeOK, Typed
<1>11. Room'
  <2>1. \A d \in Slot \ {c} : held'[d] = held[d]
    BY DEF TypeOK
  <2> QED
    BY <1>8, <2>1, RoomKept
<1>12. OneTurn'
  <2>1. \A d \in Slot \ {c} : pc'[d] = pc[d]
    BY <1>8
  <2>2. pc[c] # "waiting" /\ heir[c] = None
    BY DEF TypeOK
  <2>3. /\ \A q \in Runner : \A i \in DOMAIN waiters[q] : waiters[q][i] \in Slot \ {c}
        /\ \A d \in Slot : heir[d] # None => heir[d] \in Slot \ {c}
    <3>1. \A q \in Runner : \A i \in DOMAIN waiters[q] : waiters[q][i] \in Slot
      BY DEF TypeOK
    <3>2. \A d \in Slot : heir[d] # None => heir[d] \in Slot
      BY DEF TypeOK
    <3> QED
      BY <2>2, <3>1, <3>2 DEF OneTurn
  \* What is left of the queue stood behind the heir.
  <2>4. \A q \in Runner : \A i \in DOMAIN waiters'[q] :
          /\ q = r => /\ i \in Nat /\ i + 1 \in DOMAIN waiters[q] /\ i + 1 # 1
                      /\ waiters'[q][i] = waiters[q][i + 1]
          /\ q # r => i \in DOMAIN waiters[q] /\ waiters'[q][i] = waiters[q][i]
    BY <1>6, <1>7
  <2>5. ASSUME NEW q \in Runner, NEW i \in DOMAIN waiters'[q]
        PROVE  /\ waiters'[q][i] # h
               /\ \E j \in DOMAIN waiters[q] : waiters'[q][i] = waiters[q][j]
    <3>1. PICK j \in DOMAIN waiters[q] : waiters'[q][i] = waiters[q][j] /\ (q = r => j # 1)
      BY <2>4
    <3>2. waiters[q][j] # waiters[r][1]
      BY <1>3, <1>6, <3>1 DEF OneTurn
    <3> QED
      BY <1>6, <3>1, <3>2
  <2>6. \A q \in Runner : \A i \in DOMAIN waiters'[q] : pc'[waiters'[q][i]] = "waiting"
    BY <2>1, <2>3, <2>5 DEF OneTurn
  <2>7. ASSUME NEW p \in Runner, NEW q \in Runner, NEW i \in DOMAIN waiters'[p],
               NEW j \in DOMAIN waiters'[q], waiters'[p][i] = waiters'[q][j]
        PROVE  p = q /\ i = j
    <3>1. p = q
      BY <2>5, <2>7 DEF OneTurn
    <3>2. CASE p = r
      <4>1. i + 1 = j + 1 /\ i \in Nat /\ j \in Nat
        BY <2>4, <2>7, <3>1, <3>2 DEF OneTurn
      <4> QED
        BY <3>1, <4>1
    <3>3. CASE p # r
      BY <2>4, <2>7, <3>1, <3>3 DEF OneTurn
    <3> QED
      BY <3>2, <3>3
  <2>8. \A d \in Slot : heir[d] # None => heir[d] # h
    BY <1>3, <1>6 DEF OneTurn
  <2>9. heir'[c] = h /\ \A d \in Slot \ {c} : heir'[d] = heir[d]
    BY <1>4 DEF TypeOK
  <2>10. pc[h] = "waiting" /\ pc'[h] = "waiting"
    BY <1>3, <1>6, <2>1, <2>2 DEF OneTurn
  <2>11. \A d \in Slot : heir'[d] # None =>
           /\ pc'[heir'[d]] = "waiting"
           /\ \A q \in Runner : \A i \in DOMAIN waiters'[q] : waiters'[q][i] # heir'[d]
    BY <2>1, <2>3, <2>5, <2>9, <2>10 DEF OneTurn
  <2>12. \A d, e \in Slot : heir'[d] # None /\ heir'[d] = heir'[e] => d = e
    BY <2>8, <2>9 DEF OneTurn
  <2> QED
    BY <2>6, <2>7, <2>11, <2>12 DEF OneTurn
<1> QED
  BY <1>2, <1>10, <1>11, <1>12

\* The heir of a box, and what becomes of the turns when it gets it or an error.
LEMMA HeirLeaves ==
    ASSUME TypeOK, OneTurn, NEW c \in Slot, pc[c] = "handing", NEW p,
           p \in {"judging", "releasing"},
           pc' = [pc EXCEPT ![c] = "releasing", ![heir[c]] = p],
           heir' = [heir EXCEPT ![c] = None], hand' = [hand EXCEPT ![c] = None],
           waiters' = waiters
    PROVE  /\ heir[c] \in Slot /\ heir[c] # c /\ pc[heir[c]] = "waiting"
           /\ pc' \in [Slot -> Phase]
           /\ pc'[c] = "releasing" /\ pc'[heir[c]] = p
           /\ \A d \in Slot \ {c, heir[c]} : pc'[d] = pc[d]
           /\ \A d \in Slot : /\ hand'[d] # None <=> pc'[d] \in {"initing", "handing"}
                              /\ heir'[d] # None <=> pc'[d] = "handing"
           /\ OneTurn'
<1>1. heir[c] \in Slot /\ heir[c] # None
  BY DEF TypeOK
<1>2. pc[heir[c]] = "waiting" /\ heir[c] # c
  BY <1>1 DEF OneTurn
<1>3. pc \in [Slot -> Phase]
  BY DEF TypeOK
<1>4. /\ pc' \in [Slot -> Phase]
      /\ pc'[c] = "releasing" /\ pc'[heir[c]] = p
      /\ \A d \in Slot \ {c, heir[c]} : pc'[d] = pc[d]
  BY <1>1, <1>2, <1>3 DEF Phase
<1>5. /\ heir'[c] = None /\ hand'[c] = None
      /\ \A d \in Slot \ {c} : heir'[d] = heir[d] /\ hand'[d] = hand[d]
  BY DEF TypeOK
<1>6. \A d \in Slot : /\ hand'[d] # None <=> pc'[d] \in {"initing", "handing"}
                      /\ heir'[d] # None <=> pc'[d] = "handing"
  BY <1>1, <1>2, <1>4, <1>5 DEF TypeOK
<1>7. OneTurn'
  <2>1. \A q \in Runner : \A i \in DOMAIN waiters[q] :
          waiters[q][i] \in Slot \ {c, heir[c]}
    BY <1>1 DEF OneTurn, TypeOK
  <2>2. \A d \in Slot \ {c} : heir[d] # None => heir[d] \in Slot \ {c, heir[c]}
    BY <1>1 DEF OneTurn, TypeOK
  <2> QED
    BY <1>4, <1>5, <2>1, <2>2 DEF OneTurn
<1> QED
  BY <1>1, <1>2, <1>4, <1>6, <1>7

LEMMA HandOverKeepsBoxes ==
    ASSUME PoolInv, NEW c \in Slot, HandOver(c)
    PROVE  PoolInv'
<1> USE DEF PoolInv, HandOver
<1> DEFINE h == heir[c]
<1>1. /\ h \in Slot /\ h # c /\ pc[h] = "waiting"
      /\ pc' \in [Slot -> Phase]
      /\ pc'[c] = "releasing" /\ pc'[h] = "judging"
      /\ \A d \in Slot \ {c, h} : pc'[d] = pc[d]
      /\ \A d \in Slot : /\ hand'[d] # None <=> pc'[d] \in {"initing", "handing"}
                         /\ heir'[d] # None <=> pc'[d] = "handing"
      /\ OneTurn'
  BY HeirLeaves
<1>2. hand[c] \in Box /\ hand[c] # None
  BY DEF TypeOK
<1>3. OnePlace' /\ Typed'
  BY <1>1, <1>2, HandToHeld, TypedOfTypeOK
<1>4. heir' \in [Slot -> Slot \cup {None}]
  BY DEF TypeOK
<1>5. TypeOK'
  BY <1>1, <1>3, <1>4 DEF TypeOK, Typed
<1>6. Room'
  <2>1. job[h] \in Job /\ Len(held[h]) < Needed(h)
    BY <1>1 DEF Room
  <2>2. Needed(h) \in Nat /\ Len(held[h]) \in Nat
    BY <1>1, <2>1, SizeAssumption DEF TypeOK, Needed, Job
  <2>3. Len(held'[h]) = Len(held[h]) + 1
    BY <1>1, <1>2, Appended DEF TypeOK
  <2>4. \A d \in Slot : Needed(d)' = Needed(d) /\ job'[d] = job[d]
    BY DEF Needed
  <2>5. \A d \in Slot \ {h} : held'[d] = held[d]
    BY <1>1 DEF TypeOK
  <2> QED
    BY <1>1, <2>1, <2>2, <2>3, <2>4, <2>5 DEF Room
<1> QED
  BY <1>1, <1>3, <1>5, <1>6

LEMMA HandFailsKeeps ==
    ASSUME PoolInv, NEW c \in Slot, HandFails(c)
    PROVE  PoolInv'
<1> USE DEF PoolInv, HandFails
<1> DEFINE h == heir[c]
<1>1. /\ h \in Slot /\ h # c /\ pc[h] = "waiting"
      /\ pc' \in [Slot -> Phase]
      /\ pc'[c] = "releasing" /\ pc'[h] = "releasing"
      /\ \A d \in Slot \ {c, h} : pc'[d] = pc[d]
      /\ \A d \in Slot : /\ hand'[d] # None <=> pc'[d] \in {"initing", "handing"}
                         /\ heir'[d] # None <=> pc'[d] = "handing"
      /\ OneTurn'
  BY HeirLeaves
<1>2. hand[c] \in Box /\ hand[c] # None
  BY DEF TypeOK
<1>3. OnePlace' /\ Typed'
  BY <1>2, HandToFree, TypedOfTypeOK
<1>4. heir' \in [Slot -> Slot \cup {None}]
  BY DEF TypeOK
<1>5. TypeOK'
  BY <1>1, <1>3, <1>4 DEF TypeOK, Typed
<1>6. Room'
  BY <1>1 DEF Room, Needed
<1> QED
  BY <1>1, <1>3, <1>5, <1>6

LEMMA NextPool == PoolInv /\ [Next]_vars => PoolInv'
<1> SUFFICES ASSUME PoolInv, [Next]_vars PROVE PoolInv'
  OBVIOUS
<1>1. ASSUME NEW c \in Slot,
             \/ Begin(c) \/ Acquire(c) \/ Finish(c) \/ Leave(c)
             \/ TakeFree(c) \/ Queue(c) \/ InitOk(c) \/ InitFails(c)
             \/ ReleaseToFree(c) \/ ReleaseToWaiter(c) \/ HandOver(c) \/ HandFails(c)
      PROVE  PoolInv'
  BY <1>1, BeginKeeps, AcquireKeeps, FinishKeeps, LeaveKeeps, TakeFreeKeeps, QueueKeeps,
     InitOkKeeps, InitFailsKeeps, ReleaseToFreeKeeps, ReleaseToWaiterKeeps,
     HandOverKeepsBoxes, HandFailsKeeps
<1>2. ASSUME NEW r \in Runner, RunnerStarts(r) \/ RunnerFails(r)
      PROVE  PoolInv'
  BY <1>2, RunnerStartsKeeps, RunnerFailsKeeps
<1>3. CASE UNCHANGED vars
  BY <1>3 DEF vars, PoolInv, TypeOK, Room, Needed, OneTurn, OnePlace, InFree, InHand, IsHeld
<1> QED
  BY <1>1, <1>2, <1>3 DEF Next

\* Whatever fails and however the calls interleave, a box is in the free list, with one
\* call, or on its way: pool.ts 313-350 neither loses a box nor lends it twice.
THEOREM NoBoxLost == Spec => []PoolSound
<1>1. Init => PoolInv
  BY InitPool
<1>2. PoolInv /\ [Next]_vars => PoolInv'
  BY NextPool
<1>3. PoolInv => PoolSound
  BY Conserved, TypedOfTypeOK DEF PoolInv, PoolSound
<1> QED
  BY <1>1, <1>2, <1>3, PTL DEF Spec

-----------------------------------------------------------------------------
(* Starting a runner *)

\* No box of a runner is lent before its containers are up, and up they stay.
DownMeansFull == \A r \in Runner : state[r] # "up" => free[r] = BoxesOf(r)

LEMMA BoxBack ==
    ASSUME PoolInv, DownMeansFull, state' = state, NEW b \in Box,
           free' = [free EXCEPT ![RunnerOf(b)] = @ \cup {b}]
    PROVE  DownMeansFull'
<1>1. PICK r \in Runner : r = RunnerOf(b) /\ b \in BoxesOf(r)
  BY BoxRunner
<1>2. free'[r] = free[r] \cup {b} /\ \A q \in Runner \ {r} : free'[q] = free[q]
  BY <1>1 DEF PoolInv, TypeOK
<1> QED
  BY <1>1, <1>2 DEF DownMeansFull

LEMMA StartStep ==
    ASSUME PoolInv, DownMeansFull, [Next]_vars
    PROVE  DownMeansFull'
<1>1. ASSUME NEW c \in Slot, Begin(c) \/ Finish(c) \/ Leave(c) \/ Queue(c) \/ InitOk(c)
                             \/ ReleaseToWaiter(c) \/ HandOver(c)
      PROVE  DownMeansFull'
  BY <1>1 DEF DownMeansFull, Begin, Finish, Leave, Queue, InitOk, ReleaseToWaiter, HandOver
<1>2. ASSUME NEW c \in Slot, Acquire(c) PROVE DownMeansFull'
  <2>1. state \in [Runner -> {"down", "starting", "up"}]
    BY DEF PoolInv, TypeOK
  <2>2. \A r \in Runner : state'[r] = state[r] \/ (state[r] = "down" /\ state'[r] = "starting")
    BY <1>2, <2>1 DEF Acquire, NeedsStart
  <2> QED
    BY <1>2, <2>2 DEF Acquire, DownMeansFull
<1>3. ASSUME NEW c \in Slot, TakeFree(c) PROVE DownMeansFull'
  <2>1. \A r \in Runner \ {Wanted(c)} : free'[r] = free[r]
    BY <1>3 DEF TakeFree, PoolInv, TypeOK
  <2> QED
    BY <1>3, <2>1 DEF TakeFree, DownMeansFull
<1>4. ASSUME NEW c \in Slot, InitFails(c) \/ HandFails(c) PROVE DownMeansFull'
  <2>1. hand[c] \in Box
    BY <1>4 DEF PoolInv, TypeOK, InitFails, HandFails
  <2> QED
    BY <1>4, <2>1, BoxBack DEF InitFails, HandFails
<1>5. ASSUME NEW c \in Slot, ReleaseToFree(c) PROVE DownMeansFull'
  <2>1. Head(held[c]) \in Box
    BY <1>5, Shortened DEF PoolInv, TypeOK, ReleaseToFree
  <2> QED
    BY <1>5, <2>1, BoxBack DEF ReleaseToFree
<1>6. ASSUME NEW r \in Runner, RunnerStarts(r) \/ RunnerFails(r) PROVE DownMeansFull'
  BY <1>6 DEF DownMeansFull, RunnerStarts, RunnerFails, PoolInv, TypeOK
<1>7. CASE UNCHANGED vars
  BY <1>7 DEF vars, DownMeansFull
<1> QED
  BY <1>1, <1>2, <1>3, <1>4, <1>5, <1>6, <1>7 DEF Next

\* ensureContainer (pool.ts 240-244) removes the containers of a runner by force only when
\* all its boxes are in the free list: a submission never loses its sandbox to another.
THEOREM StartsAlone == Spec => StartDisturbsNobody
<1>1. Init => PoolInv /\ DownMeansFull
  BY InitPool DEF Init, DownMeansFull
<1>2. PoolInv /\ DownMeansFull /\ [Next]_vars => (PoolInv /\ DownMeansFull)'
  BY NextPool, StartStep
<1>3. PoolInv /\ DownMeansFull /\ [Next]_vars =>
        [\A r \in Runner : state[r] # "starting" /\ state'[r] = "starting"
                             => free[r] = BoxesOf(r)]_vars
  <2> SUFFICES ASSUME PoolInv, DownMeansFull, [Next]_vars, NEW r \in Runner,
                      state[r] # "starting", state'[r] = "starting"
               PROVE  free[r] = BoxesOf(r)
    OBVIOUS
  <2>1. ASSUME NEW c \in Slot, state' = state PROVE FALSE
    BY <2>1
  <2>2. ASSUME NEW c \in Slot, Acquire(c) PROVE free[r] = BoxesOf(r)
    <3>1. state \in [Runner -> {"down", "starting", "up"}]
      BY DEF PoolInv, TypeOK
    <3>2. state[r] = "down"
      BY <2>2, <3>1 DEF Acquire, NeedsStart
    <3> QED
      BY <3>2 DEF DownMeansFull
  <2>3. ASSUME NEW q \in Runner, RunnerStarts(q) \/ RunnerFails(q) PROVE FALSE
    BY <2>3 DEF RunnerStarts, RunnerFails, PoolInv, TypeOK
  <2>4. ASSUME NEW c \in Slot, ~Acquire(c),
               \/ Begin(c) \/ Acquire(c) \/ Finish(c) \/ Leave(c)
               \/ TakeFree(c) \/ Queue(c) \/ InitOk(c) \/ InitFails(c)
               \/ ReleaseToFree(c) \/ ReleaseToWaiter(c) \/ HandOver(c) \/ HandFails(c)
        PROVE  state' = state
    BY <2>4 DEF Begin, Finish, Leave, TakeFree, Queue, InitOk, InitFails, ReleaseToFree,
                ReleaseToWaiter, HandOver, HandFails
  <2>5. ~UNCHANGED vars
    BY DEF vars
  <2> QED
    BY <2>1, <2>2, <2>3, <2>4, <2>5 DEF Next
<1> QED
  BY <1>1, <1>2, <1>3, PTL DEF Spec, StartDisturbsNobody

-----------------------------------------------------------------------------
(* Nobody is stranded. A call is tied to a runner while it stands in its   *)
(* queue, has one of its boxes in hand, or goes on with a box of it. As    *)
(* long as somebody waits there are no more free boxes of the runner than  *)
(* calls that are not tied to it: a box becomes free without waking        *)
(* anybody only when its call fails, and lets go of the runner.            *)

Queues(c, r) == \E i \in DOMAIN waiters[r] : waiters[r][i] = c
Handles(c, r) == hand[c] # None /\ RunnerOf(hand[c]) = r
Holds(c, r) == \E i \in DOMAIN held[c] : RunnerOf(held[c][i]) = r
Inherits(c, r) == \E d \in Slot : heir[d] = c /\ RunnerOf(hand[d]) = r

Untied(c, r) ==
    /\ ~Queues(c, r) /\ ~Handles(c, r)
    /\ pc[c] \in {"idle", "releasing", "handing"} \/ ~Holds(c, r) \/ Inherits(c, r)

Loose(r) == {c \in Slot : Untied(c, r)}
FreeInv == \A r \in Runner : waiters[r] # <<>> => Cardinality(free[r]) <= Cardinality(Loose(r))

LEMMA BoxesNumber ==
    ASSUME NEW r \in Runner
    PROVE  /\ IsFiniteSet(BoxesOf(r)) /\ Cardinality(Slot) \in Nat
           /\ Cardinality(BoxesOf(r)) \in Nat
           /\ Cardinality(BoxesOf(r)) >= Cardinality(Slot) * TcParallel + 1
<1>1. PICK s : s = Cardinality(Slot) * TcParallel
  OBVIOUS
<1>2. Cardinality(Slot) \in Nat /\ TcParallel \in Nat /\ Replicas \in Nat /\ Replicas >= 1
  BY SlotAssumption, SizeAssumption, FS_CardinalityType
<1>3. s \in Nat
  BY <1>1, <1>2
<1>4. PICK d : d = (s + Replicas - 1) \div Replicas
  OBVIOUS
<1>5. d \in Nat /\ Replicas * d >= s
  BY <1>2, <1>3, <1>4
<1>6. PICK n : n = Replicas * BoxesPerContainer
  OBVIOUS
<1>7. n = Replicas * (d + 1)
  BY <1>1, <1>4, <1>6 DEF BoxesPerContainer, CeilDiv
<1>8. Replicas * (d + 1) = Replicas * d + Replicas
  BY <1>2, <1>5
<1>9. n \in Nat /\ n >= s + 1
  BY <1>2, <1>3, <1>5, <1>7, <1>8
<1>10. IsFiniteSet(1..n) /\ Cardinality(1..n) = n
  BY <1>9, FS_Interval
<1>11. IsFiniteSet({r}) /\ Cardinality({r}) = 1
  BY FS_Singleton
<1>12. IsFiniteSet({r} \X (1..n)) /\ Cardinality({r} \X (1..n)) = 1 * n
  <2>1. PICK s1, s2 : s1 = {r} /\ s2 = 1..n
    OBVIOUS
  <2>2. IsFiniteSet(s1 \X s2) /\ Cardinality(s1 \X s2) = Cardinality(s1) * Cardinality(s2)
    BY <1>10, <1>11, <2>1, FS_Product, Zenon
  <2> QED
    BY <1>10, <1>11, <2>1, <2>2, Zenon
<1> QED
  BY <1>1, <1>2, <1>6, <1>9, <1>12 DEF BoxesOf

-----------------------------------------------------------------------------
(* Counting *)

\* No more boxes, and no fewer calls.
LEMMA StillFewer ==
    ASSUME NEW F, NEW G, NEW L, NEW M, IsFiniteSet(F), IsFiniteSet(M),
           G \subseteq F, L \subseteq M, Cardinality(F) <= Cardinality(L)
    PROVE  Cardinality(G) <= Cardinality(M)
<1>1. IsFiniteSet(G) /\ Cardinality(G) <= Cardinality(F)
  BY FS_Subset
<1>2. IsFiniteSet(L) /\ Cardinality(L) <= Cardinality(M)
  BY FS_Subset
<1> QED
  BY <1>1, <1>2, FS_CardinalityType

\* One box more, and one call.
LEMMA OneMore ==
    ASSUME NEW F, NEW L, NEW M, NEW b, NEW c, IsFiniteSet(F), IsFiniteSet(M),
           L \cup {c} \subseteq M, c \notin L, Cardinality(F) <= Cardinality(L)
    PROVE  Cardinality(F \cup {b}) <= Cardinality(M)
<1>1. IsFiniteSet(L) /\ IsFiniteSet(L \cup {c}) /\ Cardinality(L \cup {c}) <= Cardinality(M)
  BY FS_Subset
<1>2. Cardinality(L \cup {c}) = Cardinality(L) + 1
  BY <1>1, FS_AddElement
<1>3. IsFiniteSet(F \cup {b}) /\ Cardinality(F \cup {b}) <= Cardinality(F) + 1
  <2>1. Cardinality(F \cup {b}) = IF b \in F THEN Cardinality(F) ELSE Cardinality(F) + 1
    BY FS_AddElement
  <2> QED
    BY <2>1, FS_AddElement, FS_CardinalityType
<1> QED
  BY <1>1, <1>2, <1>3, FS_CardinalityType

\* One box less, and one call.
LEMMA OneLess ==
    ASSUME NEW F, NEW L, NEW M, NEW b \in F, NEW c, IsFiniteSet(F), IsFiniteSet(L), IsFiniteSet(M),
           L \ {c} \subseteq M, Cardinality(F) <= Cardinality(L)
    PROVE  Cardinality(F \ {b}) <= Cardinality(M)
<1>1. IsFiniteSet(L \ {c}) /\ Cardinality(L \ {c}) <= Cardinality(M)
  BY FS_Subset
<1>2. Cardinality(L \ {c}) = IF c \in L THEN Cardinality(L) - 1 ELSE Cardinality(L)
  BY FS_RemoveElement
<1>3. Cardinality(F \ {b}) = Cardinality(F) - 1
  BY FS_RemoveElement
<1>4. Cardinality(F) \in Nat /\ Cardinality(L) \in Nat /\ Cardinality(M) \in Nat
  BY FS_CardinalityType
<1> QED
  BY <1>1, <1>2, <1>3, <1>4

\* One call takes the place of another.
LEMMA Replaced ==
    ASSUME NEW F, NEW L, NEW M, NEW c, NEW d, IsFiniteSet(L), IsFiniteSet(M),
           (L \ {c}) \cup {d} \subseteq M, d \notin L, IsFiniteSet(F), Cardinality(F) <= Cardinality(L)
    PROVE  Cardinality(F) <= Cardinality(M)
<1>1. IsFiniteSet(L \ {c}) /\ d \notin L \ {c}
  BY FS_RemoveElement
<1>2. Cardinality((L \ {c}) \cup {d}) = Cardinality(L \ {c}) + 1
  BY <1>1, FS_AddElement
<1>3. Cardinality(L \ {c}) = IF c \in L THEN Cardinality(L) - 1 ELSE Cardinality(L)
  BY FS_RemoveElement
<1>4. Cardinality((L \ {c}) \cup {d}) <= Cardinality(M)
  BY FS_Subset
<1>5. Cardinality(F) \in Nat /\ Cardinality(L) \in Nat /\ Cardinality(M) \in Nat
  BY FS_CardinalityType
<1> QED
  BY <1>2, <1>3, <1>4, <1>5

LEMMA Finite ==
    ASSUME PoolInv, NEW r \in Runner
    PROVE  IsFiniteSet(free[r]) /\ IsFiniteSet(Loose(r))
<1>1. free[r] \subseteq BoxesOf(r)
  BY DEF PoolInv, OnePlace
<1>2. Loose(r) \subseteq Slot
  BY DEF Loose
<1> QED
  BY <1>1, <1>2, BoxesNumber, SlotAssumption, FS_Subset

LEMMA FiniteNext ==
    ASSUME PoolInv', NEW r \in Runner
    PROVE  IsFiniteSet(free'[r]) /\ IsFiniteSet(Loose(r)')
<1>1. free'[r] \subseteq BoxesOf(r)
  BY DEF PoolInv, OnePlace
<1>2. Loose(r)' \subseteq Slot
  BY DEF Loose
<1> QED
  BY <1>1, <1>2, BoxesNumber, SlotAssumption, FS_Subset

-----------------------------------------------------------------------------
(* The steps, for the boxes of one runner *)

Free(r) == Cardinality(free[r]) <= Cardinality(Loose(r))

\* A call that does nothing with the runner.
LEMMA StaysUntied ==
    ASSUME NEW d \in Slot, NEW r \in Runner, Untied(d, r),
           Queues(d, r)' => Queues(d, r), Handles(d, r)' => Handles(d, r),
           Holds(d, r)' => Holds(d, r), Inherits(d, r) => Inherits(d, r)',
           \/ pc'[d] = pc[d]
           \/ pc'[d] \in {"idle", "releasing", "handing"}
           \/ ~Holds(d, r)
    PROVE  Untied(d, r)'
BY DEF Untied

LEMMA Quiet ==
    ASSUME PoolInv, PoolInv', FreeInv, NEW r \in Runner, waiters[r] # <<>>,
           free'[r] \subseteq free[r], \A d \in Slot : Untied(d, r) => Untied(d, r)'
    PROVE  Free(r)'
<1>1. Loose(r) \subseteq Loose(r)'
  BY DEF Loose
<1> QED
  BY <1>1, Finite, FiniteNext, StillFewer DEF FreeInv, Free

\* A call that is somewhere else than in acquire or release has no box in hand, nobody
\* to give it to, and no place in a queue.
LEMMA AtRest ==
    ASSUME PoolInv, NEW c \in Slot, NEW r \in Runner
    PROVE  /\ pc[c] \notin {"initing", "handing"} => ~Handles(c, r)
           /\ pc[c] # "waiting" => ~Queues(c, r) /\ ~Inherits(c, r)
           /\ Queues(c, r) => ~Inherits(c, r)
<1>1. pc[c] \notin {"initing", "handing"} => ~Handles(c, r)
  BY DEF PoolInv, TypeOK, Handles
<1>2. pc[c] # "waiting" => ~Queues(c, r)
  BY DEF PoolInv, OneTurn, Queues
<1>3. pc[c] # "waiting" => ~Inherits(c, r)
  BY SlotNotNone DEF PoolInv, OneTurn, Inherits
<1>4. Queues(c, r) => ~Inherits(c, r)
  BY SlotNotNone DEF PoolInv, OneTurn, Inherits, Queues
<1> QED
  BY <1>1, <1>2, <1>3, <1>4

\* The steps that move no box and no turn.
LEMMA StillSteps ==
    ASSUME PoolInv, PoolInv', FreeInv, UNCHANGED <<free, waiters, held, hand, heir>>,
           \A d \in Slot : \/ pc'[d] = pc[d]
                           \/ pc'[d] \in {"idle", "releasing", "handing"}
                           \/ held[d] = <<>>
    PROVE  FreeInv'
<1> SUFFICES ASSUME NEW r \in Runner, waiters'[r] # <<>> PROVE Free(r)'
  BY DEF FreeInv, Free
<1>1. \A d \in Slot : /\ Queues(d, r)' = Queues(d, r) /\ Handles(d, r)' = Handles(d, r)
                      /\ Holds(d, r)' = Holds(d, r) /\ Inherits(d, r)' = Inherits(d, r)
  BY DEF Queues, Handles, Holds, Inherits
<1>2. \A d \in Slot : held[d] = <<>> => ~Holds(d, r)
  BY DEF Holds
<1>3. \A d \in Slot : Untied(d, r) => Untied(d, r)'
  BY <1>1, <1>2, StaysUntied
<1> QED
  BY <1>3, Quiet

LEMMA StillActions ==
    ASSUME PoolInv, PoolInv', FreeInv, NEW c \in Slot,
           Begin(c) \/ Acquire(c) \/ Finish(c) \/ Leave(c)
    PROVE  FreeInv'
<1>1. CASE Begin(c) \/ Finish(c) \/ Leave(c)
  <2>1. pc \in [Slot -> Phase] /\ (pc[c] = "idle" => held[c] = <<>>)
    BY DEF PoolInv, TypeOK, Room
  <2>2. \A d \in Slot : \/ pc'[d] = pc[d]
                        \/ pc'[d] \in {"idle", "releasing", "handing"}
                        \/ held[d] = <<>>
    BY <1>1, <2>1 DEF Begin, Finish, Leave
  <2>3. UNCHANGED <<free, waiters, held, hand, heir>>
    BY <1>1 DEF Begin, Finish, Leave
  <2> QED
    BY <2>2, <2>3, StillSteps
<1>2. CASE Acquire(c)
  <2> SUFFICES ASSUME NEW r \in Runner, waiters'[r] # <<>> PROVE Free(r)'
    BY DEF FreeInv, Free
  <2>1. \A d \in Slot : /\ Queues(d, r)' = Queues(d, r) /\ Handles(d, r)' = Handles(d, r)
                        /\ Holds(d, r)' = Holds(d, r) /\ Inherits(d, r)' = Inherits(d, r)
    BY <1>2 DEF Acquire, Queues, Handles, Holds, Inherits
  <2>2. \A d \in Slot : Untied(d, r) => Untied(d, r)'
    <3>1. pc \in [Slot -> Phase]
      BY DEF PoolInv, TypeOK
    <3>2. \A d \in Slot \ {c} : pc'[d] = pc[d]
      BY <1>2, <3>1 DEF Acquire
    <3>3. Untied(c, r) => ~Holds(c, r)
      BY <1>2, AtRest DEF Acquire, Untied
    <3> QED
      BY <2>1, <3>2, <3>3, StaysUntied
  <2>3. waiters[r] # <<>> /\ free'[r] \subseteq free[r]
    BY <1>2 DEF Acquire
  <2> QED
    BY <2>2, <2>3, Quiet
<1> QED
  BY <1>1, <1>2

LEMMA RunnerActions ==
    ASSUME PoolInv, PoolInv', FreeInv, NEW q \in Runner, RunnerStarts(q) \/ RunnerFails(q)
    PROVE  FreeInv'
<1>1. \A d \in Slot : pc'[d] = pc[d] \/ pc'[d] = "releasing"
  BY DEF RunnerStarts, RunnerFails
<1>2. UNCHANGED <<free, waiters, held, hand, heir>>
  BY DEF RunnerStarts, RunnerFails
<1> QED
  BY <1>1, <1>2, StillSteps

\* acquire takes a box and is tied to the runner, with or without others waiting.
LEMMA TakeFreeSpares ==
    ASSUME PoolInv, PoolInv', FreeInv, NEW c \in Slot, TakeFree(c)
    PROVE  FreeInv'
<1> SUFFICES ASSUME NEW r \in Runner, waiters'[r] # <<>> PROVE Free(r)'
  BY DEF FreeInv, Free
<1>1. PICK q \in Runner : q = Wanted(c)
  BY WantedIsRunner DEF PoolInv, TakeFree
<1>2. PICK b \in free[q] : /\ free' = [free EXCEPT ![q] = @ \ {b}]
                           /\ hand' = [hand EXCEPT ![c] = b]
  BY <1>1 DEF TakeFree
<1>3. RunnerOf(b) = q
  BY BoxRunner DEF PoolInv, OnePlace
<1>4. /\ \A d \in Slot \ {c} : hand'[d] = hand[d] /\ pc'[d] = pc[d]
      /\ hand'[c] = b /\ free'[q] = free[q] \ {b}
      /\ \A p \in Runner \ {q} : free'[p] = free[p]
  BY <1>2 DEF TakeFree, PoolInv, TypeOK
<1>5. waiters' = waiters /\ held' = held /\ heir' = heir /\ heir[c] = None /\ pc[c] = "ensuring"
  BY DEF TakeFree, PoolInv, TypeOK
<1>6. \A d \in Slot : /\ Queues(d, r)' = Queues(d, r) /\ Holds(d, r)' = Holds(d, r)
  BY <1>5 DEF Queues, Holds
<1>7. \A d \in Slot : Inherits(d, r) => Inherits(d, r)'
  <2> SUFFICES ASSUME NEW d \in Slot, NEW e \in Slot, heir[e] = d, RunnerOf(hand[e]) = r
               PROVE  Inherits(d, r)'
    BY DEF Inherits
  <2>1. e # c
    BY <1>5, SlotNotNone
  <2> QED
    BY <1>4, <1>5, <2>1 DEF Inherits
<1>8. \A d \in Slot \ {c} : Untied(d, r) => Untied(d, r)'
  <2>1. \A d \in Slot \ {c} : Handles(d, r)' = Handles(d, r)
    BY <1>4 DEF Handles
  <2> QED
    BY <1>4, <1>6, <1>7, <2>1, StaysUntied
<1>9. CASE r = q
  <2>1. Loose(r) \ {c} \subseteq Loose(r)'
    BY <1>8 DEF Loose
  <2>2. Cardinality(free[r] \ {b}) <= Cardinality(Loose(r)')
    <3>1. Cardinality(free[r]) <= Cardinality(Loose(r))
      BY <1>5 DEF FreeInv
    <3> QED
      BY <1>9, <2>1, <3>1, Finite, FiniteNext, OneLess
  <2> QED
    BY <1>4, <1>9, <2>2 DEF Free
<1>10. CASE r # q
  <2>1. Untied(c, r) => Untied(c, r)'
    <3>1. ~Handles(c, r)'
      BY <1>3, <1>4, <1>10 DEF Handles
    <3>2. Untied(c, r) => ~Holds(c, r)
      BY <1>5, AtRest DEF Untied
    <3> QED
      BY <1>6, <1>7, <3>1, <3>2, StaysUntied
  <2> QED
    BY <1>4, <1>5, <1>8, <1>10, <2>1, Quiet
<1> QED
  BY <1>9, <1>10

\* A call that goes to wait found no box; the others are tied as before.
LEMMA QueueSpares ==
    ASSUME PoolInv, PoolInv', FreeInv, NEW c \in Slot, Queue(c)
    PROVE  FreeInv'
<1> SUFFICES ASSUME NEW r \in Runner, waiters'[r] # <<>> PROVE Free(r)'
  BY DEF FreeInv, Free
<1>1. PICK q \in Runner : q = Wanted(c)
  BY WantedIsRunner DEF PoolInv, Queue
<1>2. /\ waiters' = [waiters EXCEPT ![q] = Append(@, c)] /\ free[q] = {}
      /\ UNCHANGED <<free, held, hand, heir>> /\ pc[c] = "ensuring"
  BY <1>1 DEF Queue
<1>3. CASE r = q
  <2>1. free'[r] = {} /\ Cardinality({}) = 0
    BY <1>2, <1>3, FS_EmptySet
  <2>2. Cardinality(Loose(r)') \in Nat
    BY FiniteNext, FS_CardinalityType
  <2> QED
    BY <2>1, <2>2 DEF Free
<1>4. CASE r # q
  <2>1. waiters'[r] = waiters[r]
    BY <1>2, <1>4 DEF PoolInv, TypeOK
  <2>2. \A d \in Slot : /\ Queues(d, r)' = Queues(d, r) /\ Handles(d, r)' = Handles(d, r)
                        /\ Holds(d, r)' = Holds(d, r) /\ Inherits(d, r)' = Inherits(d, r)
    BY <1>2, <2>1 DEF Queues, Handles, Holds, Inherits
  <2>3. \A d \in Slot \ {c} : pc'[d] = pc[d]
    BY DEF Queue, PoolInv, TypeOK
  <2>4. Untied(c, r) => ~Holds(c, r)
    BY <1>2, AtRest DEF Untied
  <2>5. \A d \in Slot : Untied(d, r) => Untied(d, r)'
    BY <2>2, <2>3, <2>4, StaysUntied
  <2> QED
    BY <1>2, <2>1, <2>5, Quiet
<1> QED
  BY <1>3, <1>4

\* What a call holds after one more box, and after one less.
LEMMA HoldsMore ==
    ASSUME TypeOK, NEW c \in Slot, NEW b \in Box, NEW r,
           held' = [held EXCEPT ![c] = Append(@, b)]
    PROVE  /\ Holds(c, r)' => Holds(c, r) \/ RunnerOf(b) = r
           /\ \A d \in Slot \ {c} : Holds(d, r)' = Holds(d, r)
<1>1. held \in [Slot -> Seq(Box)]
  BY DEF TypeOK
<1>2. held'[c] = Append(held[c], b) /\ \A d \in Slot \ {c} : held'[d] = held[d]
  BY <1>1
<1>3. \A i \in DOMAIN Append(held[c], b) :
        \/ Append(held[c], b)[i] = b
        \/ i \in DOMAIN held[c] /\ Append(held[c], b)[i] = held[c][i]
  BY <1>1, Appended
<1> QED
  BY <1>2, <1>3 DEF Holds

LEMMA HoldsLess ==
    ASSUME TypeOK, NEW c \in Slot, NEW r, held[c] # <<>>,
           held' = [held EXCEPT ![c] = Tail(@)]
    PROVE  \A d \in Slot : Holds(d, r)' => Holds(d, r)
<1>1. held \in [Slot -> Seq(Box)]
  BY DEF TypeOK
<1>2. held'[c] = Tail(held[c]) /\ \A d \in Slot \ {c} : held'[d] = held[d]
  BY <1>1
<1>3. \A i \in DOMAIN Tail(held[c]) :
        i + 1 \in DOMAIN held[c] /\ Tail(held[c])[i] = held[c][i + 1]
  BY <1>1, Shortened
<1> QED
  BY <1>2, <1>3 DEF Holds

\* Letting go of the box in hand: nobody but the call and its heir sees it.
LEMMA HandEmptied ==
    ASSUME PoolInv, NEW c \in Slot, NEW r \in Runner, pc[c] \in {"initing", "handing"},
           hand' = [hand EXCEPT ![c] = None]
    PROVE  /\ ~Handles(c, r)'
           /\ \A d \in Slot \ {c} : Handles(d, r)' = Handles(d, r)
           /\ hand[c] \in Box /\ hand[c] # None /\ RunnerOf(hand[c]) \in Runner
<1>1. hand'[c] = None /\ \A d \in Slot \ {c} : hand'[d] = hand[d]
  BY DEF PoolInv, TypeOK
<1>2. hand[c] \in Box /\ hand[c] # None
  BY DEF PoolInv, TypeOK
<1> QED
  BY <1>1, <1>2, BoxRunner DEF Handles

LEMMA InitOkSpares ==
    ASSUME PoolInv, PoolInv', FreeInv, NEW c \in Slot, InitOk(c)
    PROVE  FreeInv'
<1> SUFFICES ASSUME NEW r \in Runner, waiters'[r] # <<>> PROVE Free(r)'
  BY DEF FreeInv, Free
<1>1. /\ pc[c] = "initing" /\ hand' = [hand EXCEPT ![c] = None]
      /\ held' = [held EXCEPT ![c] = Append(@, hand[c])]
      /\ UNCHANGED <<free, waiters, heir>> /\ heir[c] = None
  BY DEF InitOk, PoolInv, TypeOK
<1>2. /\ ~Handles(c, r)'
      /\ \A d \in Slot \ {c} : Handles(d, r)' = Handles(d, r)
      /\ hand[c] \in Box /\ hand[c] # None
  BY <1>1, HandEmptied
<1>3. /\ Holds(c, r)' => Holds(c, r) \/ RunnerOf(hand[c]) = r
      /\ \A d \in Slot \ {c} : Holds(d, r)' = Holds(d, r)
  BY <1>1, <1>2, HoldsMore DEF PoolInv
<1>4. \A d \in Slot : Queues(d, r)' = Queues(d, r)
  BY <1>1 DEF Queues
<1>5. \A d \in Slot : Inherits(d, r) => Inherits(d, r)'
  <2>1. \A d \in Slot \ {c} : hand'[d] = hand[d]
    BY <1>1 DEF PoolInv, TypeOK
  <2> QED
    BY <1>1, <2>1, SlotNotNone DEF Inherits
<1>6. \A d \in Slot \ {c} : pc'[d] = pc[d]
  BY DEF InitOk, PoolInv, TypeOK
<1>7. Untied(c, r) => RunnerOf(hand[c]) # r /\ ~Holds(c, r)
  BY <1>1, <1>2, AtRest DEF Untied, Handles
<1>8. \A d \in Slot : Untied(d, r) => Untied(d, r)'
  BY <1>2, <1>3, <1>4, <1>5, <1>6, <1>7, StaysUntied
<1> QED
  BY <1>1, <1>8, Quiet

\* A box that comes back without waking anybody, and the call that let go of it.
LEMMA BoxReturns ==
    ASSUME PoolInv, PoolInv', FreeInv, NEW c \in Slot, NEW r \in Runner, waiters[r] # <<>>,
           pc[c] \in {"initing", "handing"},
           free' = [free EXCEPT ![RunnerOf(hand[c])] = @ \cup {hand[c]}],
           hand' = [hand EXCEPT ![c] = None], pc'[c] = "releasing",
           \A d \in Slot \ {c} : Untied(d, r) => Untied(d, r)',
           ~Queues(c, r)', Untied(c, r) => Untied(c, r)'
    PROVE  Free(r)'
<1>1. /\ ~Handles(c, r)' /\ hand[c] \in Box /\ hand[c] # None
      /\ RunnerOf(hand[c]) \in Runner
  BY HandEmptied
<1>2. CASE RunnerOf(hand[c]) = r
  <2>1. free'[r] = free[r] \cup {hand[c]}
    BY <1>2 DEF PoolInv, TypeOK
  <2>2. c \notin Loose(r)
    BY <1>1, <1>2 DEF Loose, Untied, Handles
  <2>3. Loose(r) \cup {c} \subseteq Loose(r)'
    BY <1>1, <2>2 DEF Loose, Untied
  <2>4. Cardinality(free[r]) <= Cardinality(Loose(r))
    BY DEF FreeInv
  <2>5. Cardinality(free[r] \cup {hand[c]}) <= Cardinality(Loose(r)')
    BY <2>2, <2>3, <2>4, Finite, FiniteNext, OneMore
  <2> QED
    BY <2>1, <2>5 DEF Free
<1>3. CASE RunnerOf(hand[c]) # r
  <2>1. free'[r] = free[r]
    BY <1>1, <1>3 DEF PoolInv, TypeOK
  <2> QED
    BY <2>1, Quiet
<1> QED
  BY <1>2, <1>3

LEMMA InitFailsSpares ==
    ASSUME PoolInv, PoolInv', FreeInv, NEW c \in Slot, InitFails(c)
    PROVE  FreeInv'
<1> SUFFICES ASSUME NEW r \in Runner, waiters'[r] # <<>> PROVE Free(r)'
  BY DEF FreeInv, Free
<1>1. /\ pc[c] = "initing" /\ hand' = [hand EXCEPT ![c] = None] /\ pc'[c] = "releasing"
      /\ free' = [free EXCEPT ![RunnerOf(hand[c])] = @ \cup {hand[c]}]
      /\ UNCHANGED <<held, waiters, heir>> /\ heir[c] = None
  BY DEF InitFails, PoolInv, TypeOK
<1>2. ~Handles(c, r)' /\ \A d \in Slot \ {c} : Handles(d, r)' = Handles(d, r)
  BY <1>1, HandEmptied
<1>3. \A d \in Slot : Queues(d, r)' = Queues(d, r) /\ Holds(d, r)' = Holds(d, r)
  BY <1>1 DEF Queues, Holds
<1>4. \A d \in Slot : Inherits(d, r) => Inherits(d, r)'
  <2>1. \A d \in Slot \ {c} : hand'[d] = hand[d]
    BY <1>1 DEF PoolInv, TypeOK
  <2> QED
    BY <1>1, <2>1, SlotNotNone DEF Inherits
<1>5. \A d \in Slot \ {c} : pc'[d] = pc[d]
  BY DEF InitFails, PoolInv, TypeOK
<1>6. \A d \in Slot : Untied(d, r) => Untied(d, r)'
  BY <1>1, <1>2, <1>3, <1>4, <1>5, StaysUntied
<1>7. ~Queues(c, r)'
  BY <1>1, <1>3, AtRest
<1> QED
  BY <1>1, <1>6, <1>7, BoxReturns

\* A box goes to the free list only if nobody waits for it.
LEMMA ReleaseToFreeSpares ==
    ASSUME PoolInv, PoolInv', FreeInv, NEW c \in Slot, ReleaseToFree(c)
    PROVE  FreeInv'
<1> SUFFICES ASSUME NEW r \in Runner, waiters'[r] # <<>> PROVE Free(r)'
  BY DEF FreeInv, Free
<1>1. PICK b : b = Head(held[c])
  OBVIOUS
<1>2. /\ held[c] # <<>> /\ waiters[RunnerOf(b)] = <<>>
      /\ free' = [free EXCEPT ![RunnerOf(b)] = @ \cup {b}]
      /\ held' = [held EXCEPT ![c] = Tail(@)]
      /\ UNCHANGED <<waiters, pc, hand, heir>>
  BY <1>1 DEF ReleaseToFree
<1>3. r # RunnerOf(b) /\ free'[r] = free[r]
  BY <1>2 DEF PoolInv, TypeOK
<1>4. \A d \in Slot : /\ Queues(d, r)' = Queues(d, r) /\ Handles(d, r)' = Handles(d, r)
                      /\ Inherits(d, r)' = Inherits(d, r)
  BY <1>2 DEF Queues, Handles, Inherits
<1>5. \A d \in Slot : Holds(d, r)' => Holds(d, r)
  BY <1>2, HoldsLess DEF PoolInv
<1>6. \A d \in Slot : Untied(d, r) => Untied(d, r)'
  BY <1>2, <1>4, <1>5, StaysUntied
<1> QED
  BY <1>2, <1>3, <1>6, Quiet

\* The giver has the box in hand, and the first waiter is about to go on with it.
LEMMA ReleaseToWaiterSpares ==
    ASSUME PoolInv, PoolInv', FreeInv, NEW c \in Slot, ReleaseToWaiter(c)
    PROVE  FreeInv'
<1> SUFFICES ASSUME NEW r \in Runner, waiters'[r] # <<>> PROVE Free(r)'
  BY DEF FreeInv, Free
<1>1. PICK b : b = Head(held[c])
  OBVIOUS
<1>2. b \in Box /\ RunnerOf(b) \in Runner /\ b # None
  <2>1. b \in Box
    BY <1>1, Shortened DEF ReleaseToWaiter, PoolInv, TypeOK
  <2> QED
    BY <2>1, BoxRunner
<1>3. PICK q \in Runner : q = RunnerOf(b)
  BY <1>2
<1>4. PICK h : h = Head(waiters[q])
  OBVIOUS
<1>5. /\ pc[c] = "releasing" /\ held[c] # <<>> /\ waiters[q] # <<>>
      /\ heir' = [heir EXCEPT ![c] = h]
      /\ waiters' = [waiters EXCEPT ![q] = Tail(@)]
      /\ held' = [held EXCEPT ![c] = Tail(@)]
      /\ hand' = [hand EXCEPT ![c] = b]
      /\ pc' = [pc EXCEPT ![c] = "handing"] /\ UNCHANGED free
  BY <1>1, <1>3, <1>4 DEF ReleaseToWaiter
<1>6. /\ h \in Slot /\ h = waiters[q][1] /\ 1 \in DOMAIN waiters[q]
      /\ \A i \in DOMAIN Tail(waiters[q]) : /\ i + 1 \in DOMAIN waiters[q] /\ i + 1 # 1
                                            /\ Tail(waiters[q])[i] = waiters[q][i + 1]
  <2>1. waiters[q] \in Seq(Slot)
    BY DEF PoolInv, TypeOK
  <2> QED
    BY <1>4, <1>5, <2>1, Shortened
<1>7. /\ hand'[c] = b /\ heir'[c] = h /\ pc'[c] = "handing" /\ waiters'[q] = Tail(waiters[q])
      /\ \A d \in Slot \ {c} : hand'[d] = hand[d] /\ heir'[d] = heir[d] /\ pc'[d] = pc[d]
      /\ \A p \in Runner \ {q} : waiters'[p] = waiters[p]
  BY <1>5 DEF PoolInv, TypeOK
<1>8. \A d \in Slot : (Queues(d, r)' => Queues(d, r)) /\ (Holds(d, r)' => Holds(d, r))
  <2>1. \A i \in DOMAIN waiters'[r] : \E j \in DOMAIN waiters[r] : waiters'[r][i] = waiters[r][j]
    <3>1. CASE r = q
      <4>1. waiters'[r] = Tail(waiters[r])
        BY <1>7, <3>1
      <4> QED
        BY <1>6, <3>1, <4>1
    <3>2. CASE r # q
      BY <1>7, <3>2
    <3> QED
      BY <3>1, <3>2
  <2>3. \A d \in Slot : Queues(d, r)' => Queues(d, r)
    BY <2>1 DEF Queues
  <2>2. \A d \in Slot : Holds(d, r)' => Holds(d, r)
    BY <1>5, HoldsLess DEF PoolInv
  <2> QED
    BY <2>2, <2>3
<1>9. \A d \in Slot : Inherits(d, r) => Inherits(d, r)'
  <2>1. heir[c] = None
    BY <1>5 DEF PoolInv, TypeOK
  <2> QED
    BY <1>7, <2>1, SlotNotNone DEF Inherits
<1>10. \A d \in Slot \ {c} : Untied(d, r) => Untied(d, r)'
  <2>1. \A d \in Slot \ {c} : Handles(d, r)' = Handles(d, r)
    BY <1>7 DEF Handles
  <2> QED
    BY <1>7, <1>8, <1>9, <2>1, StaysUntied
<1>11. CASE r = q
  <2>1. Queues(h, r) /\ h \notin Loose(r)
    BY <1>6, <1>11 DEF Queues, Loose, Untied
  <2>2. h # c
    BY <1>5, <2>1, AtRest
  <2>3. ~Queues(h, r)'
    <3>1. \A i \in DOMAIN waiters[q] : waiters[q][i] = waiters[q][1] => i = 1
      BY <1>6 DEF PoolInv, OneTurn
    <3>2. \A i \in DOMAIN waiters'[q] : waiters'[q][i] # h
      BY <1>6, <1>7, <3>1
    <3> QED
      BY <1>11, <3>2 DEF Queues
  <2>4. ~Handles(h, r)'
    <3>1. pc[h] = "waiting"
      BY <1>6, <2>1, AtRest
    <3>2. hand'[h] = None
      BY <1>6, <1>7, <2>2, <3>1 DEF PoolInv, TypeOK
    <3> QED
      BY <3>2 DEF Handles
  <2>5. Inherits(h, r)'
    BY <1>3, <1>7, <1>11 DEF Inherits
  <2>6. Untied(h, r)'
    BY <2>3, <2>4, <2>5 DEF Untied
  <2>7. (Loose(r) \ {c}) \cup {h} \subseteq Loose(r)'
    BY <1>6, <1>10, <2>6 DEF Loose
  <2>8. waiters[r] # <<>> /\ Cardinality(free[r]) <= Cardinality(Loose(r))
    BY <1>5, <1>11 DEF FreeInv
  <2>9. Cardinality(free[r]) <= Cardinality(Loose(r)')
    BY <2>1, <2>7, <2>8, Finite, FiniteNext, Replaced
  <2> QED
    BY <1>5, <2>9 DEF Free
<1>12. CASE r # q
  <2>1. ~Handles(c, r)'
    BY <1>3, <1>7, <1>12 DEF Handles
  <2>2. Untied(c, r) => Untied(c, r)'
    BY <1>7, <1>8, <1>9, <2>1, StaysUntied
  <2> QED
    BY <1>5, <1>7, <1>10, <1>12, <2>2, Quiet
<1> QED
  BY <1>11, <1>12

\* The heir goes on with the box, and the giver has let go of it.
LEMMA HandOverSpares ==
    ASSUME PoolInv, PoolInv', FreeInv, NEW c \in Slot, HandOver(c)
    PROVE  FreeInv'
<1> SUFFICES ASSUME NEW r \in Runner, waiters'[r] # <<>> PROVE Free(r)'
  BY DEF FreeInv, Free
<1>1. PICK h : h = heir[c]
  OBVIOUS
<1>2. /\ pc[c] = "handing" /\ hand' = [hand EXCEPT ![c] = None]
      /\ held' = [held EXCEPT ![h] = Append(@, hand[c])]
      /\ heir' = [heir EXCEPT ![c] = None]
      /\ pc' = [pc EXCEPT ![c] = "releasing", ![h] = "judging"]
      /\ UNCHANGED <<free, waiters>>
  BY <1>1 DEF HandOver
<1>3. /\ h \in Slot /\ h # c /\ pc[h] = "waiting"
      /\ pc'[c] = "releasing" /\ pc'[h] = "judging"
      /\ \A d \in Slot \ {c, h} : pc'[d] = pc[d]
  BY <1>1, <1>2, HeirLeaves DEF PoolInv
<1>4. /\ ~Handles(c, r)'
      /\ \A d \in Slot \ {c} : Handles(d, r)' = Handles(d, r)
      /\ hand[c] \in Box /\ hand[c] # None
  BY <1>2, HandEmptied
<1>5. /\ Holds(h, r)' => Holds(h, r) \/ RunnerOf(hand[c]) = r
      /\ \A d \in Slot \ {h} : Holds(d, r)' = Holds(d, r)
  BY <1>2, <1>3, <1>4, HoldsMore DEF PoolInv
<1>6. \A d \in Slot : Queues(d, r)' = Queues(d, r)
  BY <1>2 DEF Queues
<1>7. \A d \in Slot \ {h} : Inherits(d, r) => Inherits(d, r)'
  <2>1. \A d \in Slot \ {c} : hand'[d] = hand[d] /\ heir'[d] = heir[d]
    BY <1>2 DEF PoolInv, TypeOK
  <2> QED
    BY <1>1, <2>1 DEF Inherits
<1>8. \A d \in Slot \ {h} : Untied(d, r) => Untied(d, r)'
  BY <1>2, <1>3, <1>4, <1>5, <1>6, <1>7, StaysUntied
<1>9. CASE RunnerOf(hand[c]) = r
  <2>1. c \notin Loose(r)
    BY <1>4, <1>9 DEF Loose, Untied, Handles
  <2>2. Untied(c, r)'
    BY <1>2, <1>3, <1>4, <1>6, AtRest DEF Untied
  <2>3. (Loose(r) \ {h}) \cup {c} \subseteq Loose(r)'
    BY <1>8, <2>2 DEF Loose
  <2>4. Cardinality(free[r]) <= Cardinality(Loose(r))
    BY <1>2 DEF FreeInv
  <2>5. Cardinality(free[r]) <= Cardinality(Loose(r)')
    BY <2>1, <2>3, <2>4, Finite, FiniteNext, Replaced
  <2> QED
    BY <1>2, <2>5 DEF Free
\* The heir of another runner's box waits for no box of this one.
<1>10. CASE RunnerOf(hand[c]) # r
  <2>1. ~Inherits(h, r)
    <3>1. \A e \in Slot : heir[e] = h => e = c
      BY <1>1, <1>3, SlotNotNone DEF PoolInv, OneTurn
    <3> QED
      BY <1>10, <3>1 DEF Inherits
  <2>2. Untied(h, r) => ~Holds(h, r)
    BY <1>3, <2>1 DEF Untied
  <2>3. Untied(h, r) => Untied(h, r)'
    BY <1>3, <1>4, <1>5, <1>6, <1>10, <2>1, <2>2, StaysUntied
  <2> QED
    BY <1>2, <1>8, <2>3, Quiet
<1> QED
  BY <1>9, <1>10

LEMMA HandFailsSpares ==
    ASSUME PoolInv, PoolInv', FreeInv, NEW c \in Slot, HandFails(c)
    PROVE  FreeInv'
<1> SUFFICES ASSUME NEW r \in Runner, waiters'[r] # <<>> PROVE Free(r)'
  BY DEF FreeInv, Free
<1>1. PICK h : h = heir[c]
  OBVIOUS
<1>2. /\ pc[c] = "handing" /\ hand' = [hand EXCEPT ![c] = None]
      /\ free' = [free EXCEPT ![RunnerOf(hand[c])] = @ \cup {hand[c]}]
      /\ heir' = [heir EXCEPT ![c] = None]
      /\ pc' = [pc EXCEPT ![c] = "releasing", ![h] = "releasing"]
      /\ UNCHANGED <<held, waiters>>
  BY <1>1 DEF HandFails
<1>3. /\ h \in Slot /\ h # c /\ pc[h] = "waiting"
      /\ pc'[c] = "releasing" /\ pc'[h] = "releasing"
      /\ \A d \in Slot \ {c, h} : pc'[d] = pc[d]
  BY <1>1, <1>2, HeirLeaves DEF PoolInv
<1>4. ~Handles(c, r)' /\ \A d \in Slot \ {c} : Handles(d, r)' = Handles(d, r)
  BY <1>2, HandEmptied
<1>5. \A d \in Slot : Queues(d, r)' = Queues(d, r) /\ Holds(d, r)' = Holds(d, r)
  BY <1>2 DEF Queues, Holds
<1>6. \A d \in Slot \ {h} : Inherits(d, r) => Inherits(d, r)'
  <2>1. \A d \in Slot \ {c} : hand'[d] = hand[d] /\ heir'[d] = heir[d]
    BY <1>2 DEF PoolInv, TypeOK
  <2> QED
    BY <1>1, <2>1 DEF Inherits
<1>7. \A d \in Slot \ {h} : Untied(d, r) => Untied(d, r)'
  BY <1>2, <1>3, <1>4, <1>5, <1>6, StaysUntied
<1>8. Untied(h, r) => Untied(h, r)'
  BY <1>3, <1>4, <1>5 DEF Untied
<1>9. ~Queues(c, r)'
  BY <1>2, <1>5, AtRest
<1> QED
  BY <1>2, <1>3, <1>7, <1>8, <1>9, BoxReturns

LEMMA NextSpares ==
    ASSUME PoolInv, PoolInv', FreeInv, [Next]_vars
    PROVE  FreeInv'
<1>1. ASSUME NEW c \in Slot,
             \/ Begin(c) \/ Acquire(c) \/ Finish(c) \/ Leave(c)
             \/ TakeFree(c) \/ Queue(c) \/ InitOk(c) \/ InitFails(c)
             \/ ReleaseToFree(c) \/ ReleaseToWaiter(c) \/ HandOver(c) \/ HandFails(c)
      PROVE  FreeInv'
  BY <1>1, StillActions, TakeFreeSpares, QueueSpares, InitOkSpares, InitFailsSpares,
     ReleaseToFreeSpares, ReleaseToWaiterSpares, HandOverSpares, HandFailsSpares
<1>2. ASSUME NEW r \in Runner, RunnerStarts(r) \/ RunnerFails(r)
      PROVE  FreeInv'
  BY <1>2, RunnerActions
<1>3. CASE UNCHANGED vars
  BY <1>3, StillSteps DEF vars
<1> QED
  BY <1>1, <1>2, <1>3 DEF Next

-----------------------------------------------------------------------------
(* Somebody holds a box and will release it *)

\* As many things as a set has pairs, if each is told by its pair.
LEMMA AtMostPairs ==
    ASSUME NEW S, NEW D, NEW n \in Nat, IsFiniteSet(D), NEW f \in [S -> D \X (1..n)],
           \A x, y \in S : f[x] = f[y] => x = y
    PROVE  IsFiniteSet(S) /\ Cardinality(S) <= Cardinality(D) * n
<1>1. IsFiniteSet(1..n) /\ Cardinality(1..n) = n
  BY FS_Interval
<1>2. IsFiniteSet(D \X (1..n)) /\ Cardinality(D \X (1..n)) = Cardinality(D) * n
  <2>1. PICK u : u = 1..n
    OBVIOUS
  <2>2. IsFiniteSet(D \X u) /\ Cardinality(D \X u) = Cardinality(D) * Cardinality(u)
    BY <1>1, <2>1, FS_Product, Zenon
  <2> QED
    BY <1>1, <2>1, <2>2, Zenon
<1>3. f \in Injection(S, D \X (1..n))
  BY DEF Injection, IsInjective
<1> QED
  BY <1>2, <1>3, FS_Injection

LEMMA BothCount ==
    ASSUME NEW S, NEW T, IsFiniteSet(S), IsFiniteSet(T)
    PROVE  /\ IsFiniteSet(S \cup T)
           /\ Cardinality(S \cup T) <= Cardinality(S) + Cardinality(T)
           /\ S \cap T = {} => Cardinality(S \cup T) = Cardinality(S) + Cardinality(T)
<1>1. IsFiniteSet(S \cap T)
  BY FS_Intersection
<1>2. /\ IsFiniteSet(S \cup T)
      /\ Cardinality(S \cup T) = Cardinality(S) + Cardinality(T) - Cardinality(S \cap T)
  BY FS_Union
<1>3. S \cap T = {} => Cardinality(S \cap T) = 0
  BY FS_EmptySet
<1>4. Cardinality(S) \in Nat /\ Cardinality(T) \in Nat /\ Cardinality(S \cap T) \in Nat
  BY <1>1, FS_CardinalityType
<1> QED
  BY <1>2, <1>3, <1>4

LEMMA AtMostAll ==
    ASSUME NEW S, NEW D, IsFiniteSet(D), NEW f \in [S -> D], \A x, y \in S : f[x] = f[y] => x = y
    PROVE  IsFiniteSet(S) /\ Cardinality(S) <= Cardinality(D)
<1>1. f \in Injection(S, D)
  BY DEF Injection, IsInjective
<1> QED
  BY <1>1, FS_Injection

\* In numbers: N boxes, of which l at most are free, d in hand and h * t held, cannot
\* all be accounted for by s calls.
LEMMA TooMany ==
    ASSUME NEW s \in Nat, NEW t \in Nat \ {0}, NEW l \in Nat, NEW d \in Nat, NEW h \in Nat,
           NEW n \in Nat, n >= s * t + 1, n <= l + d + h * t, l + d + h <= s
    PROVE  FALSE
<1>1. PICK k \in Nat : t = k + 1
  BY SMT
<1>2. s * t = s * k + s /\ h * t = h * k + h
  BY <1>1
<1>3. h * k <= s * k
  <2>1. PICK e \in Nat : s = h + e
    BY SMT
  <2>2. s * k = h * k + e * k /\ e * k \in Nat /\ h * k \in Nat
    BY <1>1, <2>1
  <2> QED
    BY <2>2
<1>4. s * k \in Nat /\ h * k \in Nat
  BY <1>1
<1> QED
  BY <1>2, <1>3, <1>4

LEMMA Somebody ==
    ASSUME PoolInv, FreeInv
    PROVE  NobodyStranded
<1> SUFFICES ASSUME NEW r \in Runner, waiters[r] # <<>>,
                    \A c \in Slot : Holds(c, r) => InQueue(c)
             PROVE  FALSE
  BY DEF NobodyStranded, Holds
<1> DEFINE H == {c \in Slot : Holds(c, r)}
           D == {c \in Slot : Handles(c, r)}
           L == Loose(r)
           Handed == {b \in BoxesOf(r) : InHand(b)}
           Given == {b \in BoxesOf(r) : IsHeld(b)}
<1>1. \A c \in H : pc[c] = "waiting" /\ ~Handles(c, r) /\ ~Inherits(c, r)
  <2> SUFFICES ASSUME NEW c \in Slot, Holds(c, r)
               PROVE  pc[c] = "waiting" /\ ~Handles(c, r) /\ ~Inherits(c, r)
    OBVIOUS
  <2>1. PICK q \in Runner : Queues(c, q)
    BY DEF InQueue, Queues
  <2>2. pc[c] = "waiting"
    BY <2>1, AtRest
  <2>3. ~Handles(c, r)
    BY <2>2, AtRest
  <2>4. ~Inherits(c, r)
    BY <2>1, SlotNotNone DEF Inherits, Queues, PoolInv, OneTurn
  <2> QED
    BY <2>2, <2>3, <2>4
<1>2. \A c \in H : c \notin L /\ c \notin D
  BY <1>1 DEF Loose, Untied
<1>3. \A c \in D : c \notin L
  BY DEF Loose, Untied
<1>4. L \subseteq Slot /\ D \subseteq Slot /\ H \subseteq Slot
  BY DEF Loose
<1>5. /\ IsFiniteSet(L) /\ IsFiniteSet(D) /\ IsFiniteSet(H)
      /\ Cardinality(L) \in Nat /\ Cardinality(D) \in Nat /\ Cardinality(H) \in Nat
  BY <1>4, SlotAssumption, FS_Subset, FS_CardinalityType
<1> HIDE DEF H, D, L
<1>6. Cardinality(L) + Cardinality(D) + Cardinality(H) <= Cardinality(Slot)
  <2>1. IsFiniteSet(L \cup D) /\ Cardinality(L \cup D) = Cardinality(L) + Cardinality(D)
    <3>1. L \cap D = {}
      BY <1>3
    <3> QED
      BY <1>5, <3>1, BothCount
  <2>2. Cardinality((L \cup D) \cup H) = Cardinality(L \cup D) + Cardinality(H)
    <3>1. (L \cup D) \cap H = {}
      BY <1>2
    <3> QED
      BY <1>5, <2>1, <3>1, BothCount
  <2>3. (L \cup D) \cup H \subseteq Slot
    BY <1>4
  <2>4. Cardinality((L \cup D) \cup H) <= Cardinality(Slot)
    BY <2>3, SlotAssumption, FS_Subset
  <2> QED
    BY <2>1, <2>2, <2>4
\* A box in hand is told by who handles it.
<1>7. IsFiniteSet(Handed) /\ Cardinality(Handed) <= Cardinality(D)
  <2> DEFINE f == [b \in Handed |-> CHOOSE c \in Slot : hand[c] = b]
  <2>1. \A b \in Handed : f[b] \in Slot /\ hand[f[b]] = b
    BY DEF InHand
  <2>2. f \in [Handed -> D]
    <3>1. \A b \in Handed : RunnerOf(b) = r /\ b # None
      BY BoxRunner
    <3>2. \A b \in Handed : f[b] \in D
      BY <2>1, <3>1 DEF D, Handles
    <3> QED
      BY <3>2
  <2>3. \A x, y \in Handed : f[x] = f[y] => x = y
    BY <2>1
  <2> HIDE DEF f, Handed
  <2> QED
    BY <1>5, <2>2, <2>3, AtMostAll
\* A held box is told by its holder and its place among the boxes of the holder, of which
\* there are at most TcParallel: who waits for more does not have them all.
<1>8. IsFiniteSet(Given) /\ Cardinality(Given) <= Cardinality(H) * TcParallel
  <2>1. \A c \in H : \A i \in DOMAIN held[c] : i \in 1..TcParallel
    <3> SUFFICES ASSUME NEW c \in H, NEW i \in DOMAIN held[c] PROVE i \in 1..TcParallel
      OBVIOUS
    <3>1. c \in Slot /\ pc[c] = "waiting"
      BY <1>1, <1>4
    <3>2. job[c] \in Job /\ Len(held[c]) < Needed(c) /\ held[c] \in Seq(Box)
      BY <3>1 DEF PoolInv, Room, TypeOK
    <3>3. job[c].boxes \in 1..TcParallel
      BY <3>2 DEF Job
    <3>4. Needed(c) \in Nat /\ Needed(c) <= TcParallel + 1
      BY <3>3, SizeAssumption DEF Needed
    <3>5. Len(held[c]) \in Nat /\ i \in 1..Len(held[c])
      BY <3>2
    <3> QED
      BY <3>2, <3>4, <3>5, SizeAssumption
  <2> DEFINE At(b) == CHOOSE p \in Slot \X Nat : p[2] \in DOMAIN held[p[1]] /\ held[p[1]][p[2]] = b
             f == [b \in Given |-> At(b)]
  <2>2. ASSUME NEW b \in Given
        PROVE  f[b] \in H \X (1..TcParallel) /\ held[f[b][1]][f[b][2]] = b
    <3>1. PICK c \in Slot : \E i \in DOMAIN held[c] : held[c][i] = b
      BY <2>2 DEF IsHeld
    <3>2. PICK i \in DOMAIN held[c] : held[c][i] = b
      BY <3>1
    <3>3. i \in Nat
      BY DEF PoolInv, TypeOK
    <3>4. /\ <<c, i>> \in Slot \X Nat
          /\ <<c, i>>[2] \in DOMAIN held[<<c, i>>[1]] /\ held[<<c, i>>[1]][<<c, i>>[2]] = b
      BY <3>2, <3>3
    <3>5. PICK p : p = At(b)
      OBVIOUS
    <3>6. p \in Slot \X Nat /\ p[2] \in DOMAIN held[p[1]] /\ held[p[1]][p[2]] = b
      BY <3>4, <3>5
    <3>7. RunnerOf(b) = r
      BY BoxRunner
    <3>8. p[1] \in H
      BY <3>6, <3>7 DEF H, Holds
    <3>9. p[2] \in 1..TcParallel
      BY <2>1, <3>6, <3>8
    <3>10. p = <<p[1], p[2]>>
      BY <3>6
    <3>11. p \in H \X (1..TcParallel)
      BY <3>8, <3>9, <3>10
    <3> QED
      BY <3>5, <3>6, <3>11
  <2> HIDE DEF At
  <2>3. f \in [Given -> H \X (1..TcParallel)]
    BY <2>2
  <2>4. \A x, y \in Given : f[x] = f[y] => x = y
    BY <2>2
  <2> HIDE DEF f, Given
  <2>5. TcParallel \in Nat
    BY SizeAssumption
  <2> QED
    BY <1>5, <2>3, <2>4, <2>5, AtMostPairs
\* Every box of the runner is free, in hand or held.
<1>9. BoxesOf(r) \subseteq (free[r] \cup Handed) \cup Given
  <2> SUFFICES ASSUME NEW b \in BoxesOf(r), ~InHand(b), ~IsHeld(b) PROVE b \in free[r]
    OBVIOUS
  <2>1. b \in Box /\ RunnerOf(b) = r
    BY BoxRunner
  <2>2. PICK q \in Runner : b \in free[q]
    BY <2>1 DEF PoolInv, OnePlace, InFree
  <2>3. q = r
    BY <2>1, <2>2, BoxRunner DEF PoolInv, OnePlace
  <2> QED
    BY <2>2, <2>3
<1> HIDE DEF Handed, Given
<1>10. IsFiniteSet(free[r]) /\ Cardinality(free[r]) <= Cardinality(L)
  BY Finite DEF FreeInv, L
<1>11. Cardinality(BoxesOf(r)) <= Cardinality(free[r]) + Cardinality(Handed) + Cardinality(Given)
  <2>1. IsFiniteSet(free[r] \cup Handed)
        /\ Cardinality(free[r] \cup Handed) <= Cardinality(free[r]) + Cardinality(Handed)
    BY <1>7, <1>10, BothCount
  <2>2. /\ IsFiniteSet((free[r] \cup Handed) \cup Given)
        /\ Cardinality((free[r] \cup Handed) \cup Given)
             <= Cardinality(free[r] \cup Handed) + Cardinality(Given)
    BY <1>8, <2>1, BothCount
  <2>3. Cardinality(BoxesOf(r)) <= Cardinality((free[r] \cup Handed) \cup Given)
    BY <1>9, <2>2, FS_Subset
  <2>4. /\ Cardinality(free[r]) \in Nat /\ Cardinality(Handed) \in Nat /\ Cardinality(Given) \in Nat
        /\ Cardinality(free[r] \cup Handed) \in Nat /\ Cardinality(BoxesOf(r)) \in Nat
        /\ Cardinality((free[r] \cup Handed) \cup Given) \in Nat
    BY <1>7, <1>8, <1>10, <2>1, <2>2, BoxesNumber, FS_CardinalityType
  <2> QED
    BY <2>1, <2>2, <2>3, <2>4
<1>12. PICK m \in Nat : m = Cardinality(H) * TcParallel
  BY <1>5, SizeAssumption
<1>13. Cardinality(BoxesOf(r)) <= Cardinality(L) + Cardinality(D) + m
  <2>1. Cardinality(free[r]) \in Nat /\ Cardinality(Handed) \in Nat /\ Cardinality(Given) \in Nat
    BY <1>7, <1>8, <1>10, FS_CardinalityType
  <2> QED
    BY <1>5, <1>7, <1>8, <1>10, <1>11, <1>12, <2>1, BoxesNumber
<1> QED
  BY <1>5, <1>6, <1>12, <1>13, BoxesNumber, TooMany, SizeAssumption

\* InitFails and HandFails put a box back without waking anybody (pool.ts 320 and 347);
\* for any number of containers, calls and boxes per call, the number of boxes that the
\* constructor works out makes that harmless: while somebody waits, somebody who waits
\* for nothing holds a box of the runner.
THEOREM NoWaiterStranded == Spec => []NobodyStranded
<1>1. Init => PoolInv /\ FreeInv
  BY InitPool DEF Init, FreeInv
<1>2. PoolInv /\ FreeInv /\ [Next]_vars => (PoolInv /\ FreeInv)'
  BY NextPool, NextSpares
<1>3. PoolInv /\ FreeInv => NobodyStranded
  BY Somebody
<1> QED
  BY <1>1, <1>2, <1>3, PTL DEF Spec

-----------------------------------------------------------------------------
(* The registration of the processes *)

\* A process that works has written the row: without this the invariant would not tell
\* whose containers a step may make.
WorkersRegistered == \A p \in Proc : Works(p) => p \in registered

RegistryInv == RegistryTypeOK /\ RefusedTouchesNothing /\ WorkersRegistered

Filled(p, s) == [hostname |-> HostOf[p], pid |-> PidOf[p], silent |-> s]

\* The rows that RegistryTypeOK allows, written without EXCEPT.
LEMMA RowForms ==
    ASSUME NEW p, NEW s
    PROVE  [RowOf(p) EXCEPT !.silent = s] = Filled(p, s)
  BY DEF RowOf, Filled

LEMMA Refilled ==
    ASSUME NEW p, NEW s, NEW t
    PROVE  [Filled(p, s) EXCEPT !.silent = t] = Filled(p, t)
  BY DEF Filled

LEMMA TypeForm ==
    RegistryTypeOK <=> /\ row = Nobody \/ \E p \in Proc, s \in BOOLEAN : row = Filled(p, s)
               /\ stage \in [Proc -> Place]
               /\ registered \subseteq Proc
               /\ container \in [Host -> Proc \cup {Nobody}]
  BY RowForms DEF RegistryTypeOK

LEMMA RegistryInit == InitRegistry => RegistryInv
<1> SUFFICES ASSUME InitRegistry PROVE RegistryInv
  OBVIOUS
<1>1. RegistryTypeOK
  BY TypeForm DEF InitRegistry, Place
<1>2. RefusedTouchesNothing
  BY DEF InitRegistry, RefusedTouchesNothing
<1>3. WorkersRegistered
  BY DEF InitRegistry, WorkersRegistered, Works
<1> QED BY <1>1, <1>2, <1>3 DEF RegistryInv

\* A step that moves one process to a place where it does not work, and leaves the
\* containers, disturbs nothing.
LEMMA PlainMove ==
    ASSUME RegistryInv, NEW p \in Proc, NEW place \in Place \ {"starting", "working"},
           GoTo(p, place), UNCHANGED <<row, registered, container>>
    PROVE  RegistryInv'
<1>1. RegistryTypeOK'
  BY DEF RegistryInv, GoTo, RegistryTypeOK
<1>2. RefusedTouchesNothing'
  BY DEF RegistryInv, RefusedTouchesNothing
<1>3. WorkersRegistered'
  BY DEF RegistryInv, RegistryTypeOK, WorkersRegistered, Works, GoTo
<1> QED BY <1>1, <1>2, <1>3 DEF RegistryInv

LEMMA RowStep ==
    ASSUME RegistryInv, UNCHANGED <<stage, registered, container>>,
           row' = Nobody \/ \E p \in Proc, s \in BOOLEAN : row' = [RowOf(p) EXCEPT !.silent = s]
    PROVE  RegistryInv'
  BY DEF RegistryInv, RegistryTypeOK, RefusedTouchesNothing, WorkersRegistered, Works

\* One step per action of a process.
LEMMA RegistryStep ==
    ASSUME RegistryInv, NEW p \in Proc, Step(p)
    PROVE  RegistryInv'
<1> USE ProcAssumption, NobodyAssumption
<1>1. CASE Start(p) \/ Check(p) \/ Fatal(p) \/ BeatLost(p) \/ Drain(p) \/ Crash(p)
  BY <1>1, PlainMove DEF Start, Check, Fatal, BeatLost, Drain, Crash, Place
<1>2. CASE Upsert(p)
  <2>1. row' = Filled(p, FALSE)
    BY <1>2 DEF Upsert, RowOf, Filled
  <2>2. row' = [RowOf(p) EXCEPT !.silent = FALSE]
    BY <2>1, RowForms
  <2>3. RegistryTypeOK'
    <3>1. row' \in {[RowOf(q) EXCEPT !.silent = s] : q \in Proc, s \in BOOLEAN}
      <4>1. \E q \in Proc, s \in BOOLEAN : row' = [RowOf(q) EXCEPT !.silent = s]
        BY <2>2, Zenon
      <4> QED BY <4>1
    <3>2. stage' \in [Proc -> Place] /\ registered' \subseteq Proc
      BY <1>2 DEF Upsert, RegistryInv, GoTo, RegistryTypeOK, Place
    <3> QED BY <1>2, <3>1, <3>2 DEF Upsert, RegistryInv, RegistryTypeOK
  <2>4. RefusedTouchesNothing'
    BY <1>2 DEF Upsert, RegistryInv, RefusedTouchesNothing
  <2>5. WorkersRegistered'
    BY <1>2 DEF Upsert, RegistryInv, RegistryTypeOK, WorkersRegistered, Works, GoTo
  <2> QED BY <2>3, <2>4, <2>5 DEF RegistryInv
<1>3. CASE BeginLoops(p)
  BY <1>3 DEF BeginLoops, RegistryInv, RegistryTypeOK, RefusedTouchesNothing, WorkersRegistered,
              Works, GoTo, Place
<1>4. CASE MakeContainers(p)
  <2>1. container' = [container EXCEPT ![HostOf[p]] = p] /\ p \in registered
    BY <1>4 DEF MakeContainers, UsesPool, RegistryInv, WorkersRegistered
  <2>2. RegistryTypeOK'
    BY <1>4, <2>1 DEF MakeContainers, RegistryInv, RegistryTypeOK
  <2>3. RefusedTouchesNothing'
    BY <1>4, <2>1 DEF MakeContainers, RegistryInv, RegistryTypeOK, RefusedTouchesNothing
  <2>4. WorkersRegistered'
    BY <1>4 DEF MakeContainers, RegistryInv, WorkersRegistered, Works
  <2> QED BY <2>2, <2>3, <2>4 DEF RegistryInv
<1>5. CASE Beat(p)
  <2>1. PICK q \in Proc, s \in BOOLEAN : row = Filled(q, s)
    BY <1>5, TypeForm DEF Beat, Mine, RegistryInv
  <2>2. row' = [RowOf(q) EXCEPT !.silent = FALSE]
    BY <1>5, <2>1, Refilled, RowForms DEF Beat
  <2> QED BY <1>5, <2>2, RowStep DEF Beat
<1>6. CASE DeleteRow(p)
  BY <1>6 DEF DeleteRow, RegistryInv, RegistryTypeOK, RefusedTouchesNothing, WorkersRegistered,
              Works, GoTo, Place
<1>7. CASE StopPool(p)
  BY <1>7 DEF StopPool, RegistryInv, RegistryTypeOK, RefusedTouchesNothing, WorkersRegistered,
              Works, GoTo, Place
<1> QED BY <1>1, <1>2, <1>3, <1>4, <1>5, <1>6, <1>7 DEF Step

LEMMA RegistryNext == RegistryInv /\ [NextRegistry]_registryVars => RegistryInv'
<1> SUFFICES ASSUME RegistryInv, [NextRegistry]_registryVars PROVE RegistryInv'
  OBVIOUS
<1>1. CASE FallSilent
  <2>1. PICK q \in Proc, s \in BOOLEAN : row = Filled(q, s)
    BY <1>1, TypeForm DEF FallSilent, RegistryInv
  <2>2. row' = [RowOf(q) EXCEPT !.silent = TRUE]
    BY <1>1, <2>1, Refilled, RowForms DEF FallSilent
  <2> QED BY <1>1, <2>2, RowStep DEF FallSilent
<1>2. CASE \E p \in Proc : Step(p)
  BY <1>2, RegistryStep
<1>3. CASE UNCHANGED registryVars
  BY <1>3 DEF registryVars, RegistryInv, RegistryTypeOK, RefusedTouchesNothing, WorkersRegistered, Works
<1> QED BY <1>1, <1>2, <1>3 DEF NextRegistry

\* A process that ensureNotDuplicate refuses has removed and made no container, on
\* whatever hosts and with whatever pids the processes run, and however they overlap.
THEOREM RefusedIsHarmless == RegistrySpec => []RegistrySound
<1>1. RegistryInv => RegistrySound
  BY DEF RegistryInv, RegistrySound
<1> QED BY <1>1, RegistryInit, RegistryNext, PTL DEF RegistrySpec
=============================================================================
