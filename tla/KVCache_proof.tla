--------------------------- MODULE KVCache_proof ---------------------------
(***************************************************************************)
(* Proofs about the self-attention cache for every size of the text        *)
(* context, every number of decoders and every set of prompts: the search  *)
(* for a slot is exact, every token attends to its own decoder's history   *)
(* and to nothing else, and the next tokens always find a slot.            *)
(***************************************************************************)
EXTENDS KVCache, FiniteSetTheorems, WellFoundedInduction, TLAPS

-----------------------------------------------------------------------------
(* Induction over a set: the induction theorems of the library take an      *)
(* operator.                                                                *)
NatOrder == {p \in Nat \X Nat : p[1] < p[2]}

(* Every set of naturals has a least element. *)
LEMMA Smallest ==
  ASSUME NEW S, S \subseteq Nat, S # {}
  PROVE  \E x \in S : \A y \in S : x <= y
<1>1. IsWellFoundedOn(NatOrder, Nat)
  BY NatLessThanWellFounded DEF OpToRel, NatOrder
<1>2. \E x \in S : \A y \in S : ~(<<y, x>> \in NatOrder)
  BY <1>1, WFMin
<1>3. PICK x \in S : \A y \in S : ~(<<y, x>> \in NatOrder)
  BY <1>2
<1>4. ASSUME NEW y \in S PROVE x <= y
  <2>1. x \in Nat /\ y \in Nat /\ <<y, x>> \in Nat \X Nat /\ <<y, x>> \notin NatOrder
    BY <1>3
  <2>2. ~(y < x)
    BY <2>1 DEF NatOrder
  <2> QED
    BY <2>1, <2>2
<1> QED
  BY <1>4

(* Induction up to N. *)
LEMMA UpTo ==
  ASSUME NEW N \in Nat, NEW S, 0 \in S, \A m \in 0 .. N - 1 : m \in S => m + 1 \in S
  PROVE  \A m \in 0 .. N : m \in S
<1> DEFINE out == {m \in 0 .. N : m \notin S}
<1> SUFFICES ASSUME out # {} PROVE FALSE
  OBVIOUS
<1>1. PICK x \in out : \A y \in out : x <= y
  <2>1. out \subseteq Nat
    OBVIOUS
  <2> HIDE DEF out
  <2> QED
    BY <2>1, Smallest
<1>2. x \in Nat /\ x # 0 /\ x - 1 \in 0 .. N - 1 /\ x \notin S
  BY <1>1
<1>3. x - 1 \in S
  <2> SUFFICES ASSUME x - 1 \notin S PROVE FALSE
    OBVIOUS
  <2>1. x - 1 \in out /\ ~(x <= x - 1)
    BY <1>2
  <2> QED
    BY <1>1, <2>1
<1>4. (x - 1) + 1 \in S /\ (x - 1) + 1 = x
  BY <1>2, <1>3
<1> QED
  BY <1>2, <1>4

(* A step is repeated until it stops; the rank falls with every step. *)
IsIteration(D, R, stop, res, next, B, rank) ==
  /\ res \in [D -> R] /\ next \in [D -> D] /\ B \in Nat /\ rank \in [D -> 0 .. B]
  /\ \A x \in D : x \in stop \/ rank[next[x]] < rank[x]

Iterates(f, D, R, stop, res, next) ==
  /\ f \in [D -> R]
  /\ \A x \in D : f[x] = IF x \in stop THEN res[x] ELSE f[next[x]]

LEMMA IterationExists ==
  ASSUME NEW D, NEW R, NEW stop, NEW res, NEW next, NEW B, NEW rank,
         IsIteration(D, R, stop, res, next, B, rank)
  PROVE  \E f : Iterates(f, D, R, stop, res, next)
<1> USE DEF IsIteration
<1> DEFINE Eq(f, x) == f[x] = IF x \in stop THEN res[x] ELSE f[next[x]]
           Good == {m \in 0 .. B + 1 : \E f \in [D -> R] : \A x \in D : rank[x] < m => Eq(f, x)}
<1>1. 0 \in Good
  <2>0. 0 \in 0 .. B + 1
    OBVIOUS
  <2>1. \A x \in D : ~(rank[x] < 0)
    OBVIOUS
  <2>2. \E f \in [D -> R] : \A x \in D : rank[x] < 0 => Eq(f, x)
    BY <2>1
  <2> HIDE DEF Eq
  <2> QED
    BY <2>0, <2>2
<1>2. ASSUME NEW m \in 0 .. (B + 1) - 1, m \in Good PROVE m + 1 \in Good
  <2>1. PICK f \in [D -> R] : \A x \in D : rank[x] < m => Eq(f, x)
    BY <1>2
  <2> DEFINE g == [x \in D |-> IF x \in stop THEN res[x] ELSE f[next[x]]]
  <2>2. g \in [D -> R]
    OBVIOUS
  <2>3. ASSUME NEW x \in D, rank[x] < m + 1 PROVE Eq(g, x)
    <3>1. CASE x \in stop
      BY <3>1
    <3>2. CASE x \notin stop
      <4>1. next[x] \in D /\ rank[next[x]] < rank[x]
        BY <3>2
      <4>2. rank[next[x]] < m
        BY <2>3, <4>1
      <4>3. Eq(f, next[x])
        BY <2>1, <4>1, <4>2
      <4>4. g[next[x]] = f[next[x]]
        BY <4>1, <4>3
      <4> QED
        BY <3>2, <4>4
    <3> QED
      BY <3>1, <3>2
  <2>4. m + 1 \in 0 .. B + 1
    OBVIOUS
  <2>5. \E h \in [D -> R] : \A x \in D : rank[x] < m + 1 => Eq(h, x)
    <3> HIDE DEF g, Eq
    <3> QED
      BY <2>2, <2>3
  <2> QED
    BY <2>4, <2>5
<1>3. B + 1 \in Good
  <2>1. B + 1 \in Nat /\ B + 1 \in 0 .. B + 1
    OBVIOUS
  <2> HIDE DEF Good
  <2> QED
    BY <1>1, <1>2, <2>1, UpTo
<1>4. PICK f \in [D -> R] : \A x \in D : rank[x] < B + 1 => Eq(f, x)
  BY <1>3
<1>5. \A x \in D : rank[x] < B + 1
  OBVIOUS
<1> QED
  BY <1>4, <1>5 DEF Iterates

(* A finite sequence of steps can be taken. *)
AreSteps(A, N, start, step) == N \in Nat /\ start \in A /\ step \in [1 .. N -> [A -> A]]

StepsFrom(f, A, N, start, step) ==
  /\ f \in [0 .. N -> A] /\ f[0] = start
  /\ \A k \in 1 .. N : f[k] = step[k][f[k - 1]]

LEMMA StepsExist ==
  ASSUME NEW A, NEW N, NEW start, NEW step, AreSteps(A, N, start, step)
  PROVE  \E f : StepsFrom(f, A, N, start, step)
<1> USE DEF AreSteps
<1> DEFINE Run(f, m) == f[0] = start /\ \A k \in 1 .. m : f[k] = step[k][f[k - 1]]
           Good == {m \in 0 .. N : \E f \in [0 .. m -> A] : Run(f, m)}
<1>1. 0 \in Good
  <2> DEFINE f == [k \in 0 .. 0 |-> start]
  <2>1. f \in [0 .. 0 -> A] /\ Run(f, 0)
    OBVIOUS
  <2>2. 0 \in 0 .. N
    OBVIOUS
  <2> HIDE DEF f, Run
  <2> QED
    BY <2>1, <2>2
<1>2. ASSUME NEW m \in 0 .. N - 1, m \in Good PROVE m + 1 \in Good
  <2>1. PICK f \in [0 .. m -> A] : Run(f, m)
    BY <1>2
  <2> DEFINE g == [k \in 0 .. m + 1 |-> IF k = m + 1 THEN step[m + 1][f[m]] ELSE f[k]]
  <2>2. m + 1 \in 1 .. N /\ m \in 0 .. m /\ step[m + 1][f[m]] \in A
    OBVIOUS
  <2>3. g \in [0 .. m + 1 -> A]
    BY <2>2
  <2>4. g[0] = start /\ g[m + 1] = step[m + 1][f[m]]
    BY <2>1
  <2>5. ASSUME NEW k \in 1 .. m + 1 PROVE g[k] = step[k][g[k - 1]]
    <3>1. k - 1 \in 0 .. m /\ g[k - 1] = f[k - 1]
      OBVIOUS
    <3>2. CASE k = m + 1
      BY <2>4, <3>1, <3>2
    <3>3. CASE k # m + 1
      <4>1. k \in 1 .. m /\ g[k] = f[k]
        BY <3>3
      <4>2. f[k] = step[k][f[k - 1]]
        BY <2>1, <4>1
      <4> QED
        BY <3>1, <4>1, <4>2
    <3> QED
      BY <3>2, <3>3
  <2>6. Run(g, m + 1)
    <3> HIDE DEF g
    <3> QED
      BY <2>4, <2>5
  <2>7. m + 1 \in 0 .. N
    OBVIOUS
  <2> HIDE DEF g, Run
  <2> QED
    BY <2>3, <2>6, <2>7
<1>3. N \in Good
  <2>1. N \in 0 .. N
    OBVIOUS
  <2> HIDE DEF Good
  <2> QED
    BY <1>1, <1>2, <2>1, UpTo
<1> QED
  BY <1>3 DEF StepsFrom

-----------------------------------------------------------------------------
(* The search for a slot. *)

(* Behind the first cell in use among those tested from h on. *)
StepFrom(used, h, k) == Min(Slot(h, k) \cap used) - h + 1

LEMMA StepBounds ==
  ASSUME NEW S \in Nat, NEW used, NEW h \in 0 .. S, NEW k \in Nat,
         h + k <= S, ~IsSlot(S, used, h, k)
  PROVE  /\ StepFrom(used, h, k) \in 1 .. k
         /\ h + StepFrom(used, h, k) - 1 \in Slot(h, k) \cap used
<1> DEFINE hit == Slot(h, k) \cap used
<1>1. hit # {} /\ hit \subseteq Nat /\ hit \subseteq h .. h + k - 1
  BY DEF IsSlot, Slot
<1>2. PICK x \in hit : \A y \in hit : x <= y
  <2> HIDE DEF hit
  <2> QED
    BY <1>1, Smallest
<1>3. Min(hit) \in hit
  BY <1>2 DEF Min
<1>4. Min(hit) \in h .. h + k - 1
  <2> HIDE DEF hit
  <2> QED
    BY <1>1, <1>3
<1>5. StepFrom(used, h, k) = Min(hit) - h + 1
  BY DEF StepFrom
<1> HIDE DEF hit
<1>6. StepFrom(used, h, k) \in 1 .. k
  BY <1>4, <1>5
<1>7. h + StepFrom(used, h, k) - 1 = Min(hit)
  BY <1>4, <1>5
<1> QED
  BY <1>3, <1>6, <1>7 DEF hit

(* A slot does not begin in front of a cell in use that lies in it. *)
LEMMA NoSlotBefore ==
  ASSUME NEW S \in Nat, NEW used, NEW h \in 0 .. S, NEW k \in Nat,
         h + k <= S, ~IsSlot(S, used, h, k),
         NEW y \in h .. h + StepFrom(used, h, k) - 1
  PROVE  ~IsSlot(S, used, y, k)
<1> DEFINE c == h + StepFrom(used, h, k) - 1
<1>1. StepFrom(used, h, k) \in 1 .. k /\ c \in used
  BY StepBounds
<1>2. c \in y .. y + k - 1
  BY <1>1
<1> QED
  BY <1>1, <1>2 DEF IsSlot, Slot

(* What remains to be tested. *)
Remaining(S, h, k, t) ==
  2 * (IF t < S THEN S - t ELSE 0) + (IF h + k > S THEN 1 ELSE 0)

SearchFrom(f, S, used, k) ==
  [at \in (0 .. S) \X Nat |->
     LET h == at[1]  n_tested == at[2] IN
     IF h + k > S THEN f[<<0, n_tested + S - h>>]
     ELSE IF IsSlot(S, used, h, k) THEN h
     ELSE LET step == Min(Slot(h, k) \cap used) - h + 1
          IN  IF n_tested + step >= S THEN NoSlot
              ELSE f[<<h + step, n_tested + step>>]]

(* The search goes on with less to test, or stops. *)
LEMMA RemainingFalls ==
  ASSUME NEW S \in Nat, NEW used, NEW k \in 0 .. S, NEW h \in 0 .. S, NEW t \in Nat
  PROVE  /\ Remaining(S, h, k, t) \in 0 .. 2 * S + 1
         /\ h + k > S =>
              /\ t + S - h \in Nat /\ 0 \in 0 .. S
              /\ Remaining(S, 0, k, t + S - h) < Remaining(S, h, k, t)
         /\ h + k <= S /\ ~IsSlot(S, used, h, k) =>
              LET step == StepFrom(used, h, k)
              IN  /\ h + step \in 0 .. S /\ t + step \in Nat
                  /\ t + step < S =>
                       Remaining(S, h + step, k, t + step) < Remaining(S, h, k, t)
<1>1. Remaining(S, h, k, t) \in 0 .. 2 * S + 1
  BY DEF Remaining
<1>2. ASSUME h + k > S
      PROVE  /\ t + S - h \in Nat /\ 0 \in 0 .. S
             /\ Remaining(S, 0, k, t + S - h) < Remaining(S, h, k, t)
  BY <1>2 DEF Remaining
<1>3. ASSUME h + k <= S, ~IsSlot(S, used, h, k)
      PROVE  LET step == StepFrom(used, h, k)
             IN  /\ h + step \in 0 .. S /\ t + step \in Nat
                 /\ t + step < S =>
                      Remaining(S, h + step, k, t + step) < Remaining(S, h, k, t)
  <2> DEFINE step == StepFrom(used, h, k)
  <2>1. step \in 1 .. k
    BY <1>3, StepBounds
  <2> HIDE DEF step
  <2>2. h + step \in 0 .. S /\ t + step \in Nat
    BY <1>3, <2>1
  <2>3. ASSUME t + step < S
        PROVE  Remaining(S, h + step, k, t + step) < Remaining(S, h, k, t)
    BY <1>3, <2>1, <2>3 DEF Remaining
  <2> QED
    BY <2>2, <2>3 DEF step
<1> QED
  BY <1>1, <1>2, <1>3

(* The search is well defined. *)
LEMMA SearchExists ==
  ASSUME NEW S \in Nat, NEW used, NEW k \in 0 .. S
  PROVE  \E f : f = SearchFrom(f, S, used, k)
<1> DEFINE D == (0 .. S) \X Nat
           Ends(h, t) == h + k <= S /\ (IsSlot(S, used, h, k) \/ t + StepFrom(used, h, k) >= S)
           stop == {x \in D : Ends(x[1], x[2])}
           res == [x \in D |-> IF IsSlot(S, used, x[1], k) THEN x[1] ELSE NoSlot]
           After(h, t) == IF h + k > S THEN <<0, t + S - h>>
                          ELSE <<h + StepFrom(used, h, k), t + StepFrom(used, h, k)>>
           next == [x \in D |-> IF x \in stop THEN x ELSE After(x[1], x[2])]
           rank == [x \in D |-> Remaining(S, x[1], k, x[2])]
<1>1. res \in [D -> Int]
  BY DEF NoSlot
<1>2. ASSUME NEW x \in D \ stop
      PROVE  /\ After(x[1], x[2]) \in D
             /\ Remaining(S, After(x[1], x[2])[1], k, After(x[1], x[2])[2]) < Remaining(S, x[1], k, x[2])
  <2>1. x[1] \in 0 .. S /\ x[2] \in Nat /\ ~Ends(x[1], x[2])
    OBVIOUS
  <2>2. CASE x[1] + k > S
    BY <2>1, <2>2, RemainingFalls
  <2>3. CASE ~(x[1] + k > S)
    <3>1. x[1] + k <= S
      BY <2>1, <2>3
    <3>2. ~IsSlot(S, used, x[1], k) /\ ~(x[2] + StepFrom(used, x[1], k) >= S)
      BY <2>1, <3>1
    <3>3. /\ x[1] + StepFrom(used, x[1], k) \in 0 .. S
          /\ x[2] + StepFrom(used, x[1], k) \in Nat
          /\ x[2] + StepFrom(used, x[1], k) < S =>
               Remaining(S, x[1] + StepFrom(used, x[1], k), k, x[2] + StepFrom(used, x[1], k))
                 < Remaining(S, x[1], k, x[2])
      BY <2>1, <3>1, <3>2, RemainingFalls
    <3> QED
      BY <2>3, <3>2, <3>3
  <2> QED
    BY <2>2, <2>3
<1>3. next \in [D -> D]
  <2> HIDE DEF D, stop, After
  <2> QED
    BY <1>2
<1>4. rank \in [D -> 0 .. 2 * S + 1]
  <2>1. ASSUME NEW x \in D PROVE Remaining(S, x[1], k, x[2]) \in 0 .. 2 * S + 1
    <3>1. x[1] \in 0 .. S /\ x[2] \in Nat
      OBVIOUS
    <3> QED
      BY <3>1, RemainingFalls
  <2> HIDE DEF D
  <2> QED
    BY <2>1
<1>5. \A x \in D : x \in stop \/ rank[next[x]] < rank[x]
  <2> SUFFICES ASSUME NEW x \in D, x \notin stop PROVE rank[next[x]] < rank[x]
    OBVIOUS
  <2>1. next[x] = After(x[1], x[2])
    OBVIOUS
  <2> HIDE DEF D, stop, After, next
  <2>2. rank[next[x]] = Remaining(S, next[x][1], k, next[x][2]) /\ rank[x] = Remaining(S, x[1], k, x[2])
    BY <1>3
  <2> QED
    BY <1>2, <2>1, <2>2
<1>6. PICK f : Iterates(f, D, Int, stop, res, next)
  <2> HIDE DEF D, stop, res, next, rank
  <2>1. 2 * S + 1 \in Nat
    OBVIOUS
  <2>2. IsIteration(D, Int, stop, res, next, 2 * S + 1, rank)
    BY <1>1, <1>3, <1>4, <1>5, <2>1 DEF IsIteration
  <2> QED
    BY <2>2, IterationExists
<1>7. ASSUME NEW at \in D
      PROVE  f[at] = IF at[1] + k > S THEN f[<<0, at[2] + S - at[1]>>]
                     ELSE IF IsSlot(S, used, at[1], k) THEN at[1]
                     ELSE IF at[2] + StepFrom(used, at[1], k) >= S THEN NoSlot
                     ELSE f[<<at[1] + StepFrom(used, at[1], k), at[2] + StepFrom(used, at[1], k)>>]
  <2> DEFINE h == at[1]
             t == at[2]
  <2>1. h \in 0 .. S /\ t \in Nat
    OBVIOUS
  <2>2. at \in stop <=> Ends(h, t)
    OBVIOUS
  <2>3. res[at] = IF IsSlot(S, used, h, k) THEN h ELSE NoSlot
    OBVIOUS
  <2>4. at \notin stop => next[at] = After(h, t)
    OBVIOUS
  <2>5. f[at] = IF at \in stop THEN res[at] ELSE f[next[at]]
    BY <1>6 DEF Iterates
  <2> HIDE DEF D, stop, res, next, h, t
  <2>6. f[at] = IF Ends(h, t) THEN IF IsSlot(S, used, h, k) THEN h ELSE NoSlot
                ELSE f[After(h, t)]
    BY <2>2, <2>3, <2>4, <2>5
  <2>7. h + k \in Nat /\ (h + k > S <=> ~(h + k <= S))
    BY <2>1
  <2>8. f[at] = IF h + k > S THEN f[<<0, t + S - h>>]
                ELSE IF IsSlot(S, used, h, k) THEN h
                ELSE IF t + StepFrom(used, h, k) >= S THEN NoSlot
                ELSE f[<<h + StepFrom(used, h, k), t + StepFrom(used, h, k)>>]
    BY <2>6, <2>7
  <2> QED
    BY <2>8 DEF h, t
<1>8. f = SearchFrom(f, S, used, k)
  <2>1. f = [at \in D |-> f[at]]
    BY <1>6 DEF Iterates
  <2> HIDE DEF Ends, stop, res, After, next, rank
  <2> QED
    BY <1>7, <2>1 DEF SearchFrom, StepFrom
<1> QED
  BY <1>8

(* The search from head has either not gone round yet, or gone round once,  *)
(* or found out that there is no slot.                                      *)
Covered(S, used, k, head0, h, t) ==
  \/ /\ h >= head0 /\ t = h - head0
     /\ \A y \in head0 .. h - 1 : ~IsSlot(S, used, y, k)
  \/ /\ t = S - head0 + h
     /\ \A y \in (0 .. h - 1) \cup (head0 .. S) : ~IsSlot(S, used, y, k)
  \/ \A y \in 0 .. S : ~IsSlot(S, used, y, k)

Right(S, used, k, found) ==
  IF found = NoSlot THEN \A y \in 0 .. S : ~IsSlot(S, used, y, k)
  ELSE found \in 0 .. S /\ IsSlot(S, used, found, k)

LEMMA CoveredRound ==
  ASSUME NEW S \in Nat, NEW used, NEW k \in 0 .. S, NEW head0 \in 0 .. S,
         NEW h \in 0 .. S, NEW t \in Nat, Covered(S, used, k, head0, h, t), h + k > S
  PROVE  Covered(S, used, k, head0, 0, t + S - h)
<1>1. \A y \in h .. S : ~IsSlot(S, used, y, k)
  BY DEF IsSlot
<1>2. CASE h >= head0 /\ t = h - head0 /\ \A y \in head0 .. h - 1 : ~IsSlot(S, used, y, k)
  <2>1. t + S - h = S - head0 + 0
    BY <1>2
  <2>2. ASSUME NEW y \in (0 .. 0 - 1) \cup (head0 .. S) PROVE ~IsSlot(S, used, y, k)
    <3>1. y \in head0 .. h - 1 \/ y \in h .. S
      BY <1>2
    <3> QED
      BY <1>1, <1>2, <3>1
  <2> QED
    BY <2>1, <2>2 DEF Covered
<1>3. CASE /\ t = S - head0 + h
           /\ \A y \in (0 .. h - 1) \cup (head0 .. S) : ~IsSlot(S, used, y, k)
  <2>1. ASSUME NEW y \in 0 .. S PROVE ~IsSlot(S, used, y, k)
    <3>1. y \in 0 .. h - 1 \/ y \in h .. S
      OBVIOUS
    <3> QED
      BY <1>1, <1>3, <3>1
  <2> QED
    BY <2>1 DEF Covered
<1>4. CASE \A y \in 0 .. S : ~IsSlot(S, used, y, k)
  BY <1>4 DEF Covered
<1> QED
  BY <1>2, <1>3, <1>4 DEF Covered

LEMMA CoveredOn ==
  ASSUME NEW S \in Nat, NEW used, NEW k \in 0 .. S, NEW head0 \in 0 .. S,
         NEW h \in 0 .. S, NEW t \in Nat, Covered(S, used, k, head0, h, t),
         h + k <= S, ~IsSlot(S, used, h, k)
  PROVE  LET step == StepFrom(used, h, k)
         IN  /\ Covered(S, used, k, head0, h + step, t + step)
             /\ t + step >= S => \A y \in 0 .. S : ~IsSlot(S, used, y, k)
<1> DEFINE step == StepFrom(used, h, k)
<1>1. step \in 1 .. k
  BY StepBounds
<1>2. \A y \in h .. h + step - 1 : ~IsSlot(S, used, y, k)
  BY NoSlotBefore
<1>3. h + step <= S /\ ~IsSlot(S, used, S, k)
  BY <1>1 DEF IsSlot
<1> HIDE DEF step
<1>4. CASE h >= head0 /\ t = h - head0 /\ \A y \in head0 .. h - 1 : ~IsSlot(S, used, y, k)
  <2>1. h + step >= head0 /\ t + step = (h + step) - head0
    BY <1>1, <1>4
  <2>2. ASSUME NEW y \in head0 .. (h + step) - 1 PROVE ~IsSlot(S, used, y, k)
    <3>1. y \in head0 .. h - 1 \/ y \in h .. h + step - 1
      BY <1>1, <1>4
    <3> QED
      BY <1>2, <1>4, <3>1
  <2>3. ASSUME t + step >= S, NEW y \in 0 .. S PROVE ~IsSlot(S, used, y, k)
    <3>1. y = S \/ y \in head0 .. (h + step) - 1
      BY <1>1, <1>3, <1>4, <2>3
    <3> QED
      BY <1>3, <2>2, <3>1
  <2> QED
    BY <2>1, <2>2, <2>3 DEF Covered, step
<1>5. CASE /\ t = S - head0 + h
           /\ \A y \in (0 .. h - 1) \cup (head0 .. S) : ~IsSlot(S, used, y, k)
  <2>1. t + step = S - head0 + (h + step)
    BY <1>1, <1>5
  <2>2. ASSUME NEW y \in (0 .. (h + step) - 1) \cup (head0 .. S) PROVE ~IsSlot(S, used, y, k)
    <3>1. y \in (0 .. h - 1) \cup (head0 .. S) \/ y \in h .. h + step - 1
      BY <1>1
    <3> QED
      BY <1>2, <1>5, <3>1
  <2>3. ASSUME t + step >= S, NEW y \in 0 .. S PROVE ~IsSlot(S, used, y, k)
    <3>1. y \in (0 .. (h + step) - 1) \cup (head0 .. S)
      BY <1>1, <1>5, <2>3
    <3> QED
      BY <2>2, <3>1
  <2> QED
    BY <2>1, <2>2, <2>3 DEF Covered, step
<1>6. CASE \A y \in 0 .. S : ~IsSlot(S, used, y, k)
  BY <1>6 DEF Covered
<1> QED
  BY <1>4, <1>5, <1>6 DEF Covered

(* The search from any head finds a slot exactly when there is one. *)
LEMMA SearchRight ==
  ASSUME NEW S \in Nat, NEW used, NEW k \in Nat, NEW head0 \in 0 .. S
  PROVE  Right(S, used, k, FindSlot(S, used, head0, k))
<1>1. CASE k > S
  <2>1. FindSlot(S, used, head0, k) = NoSlot
    BY <1>1 DEF FindSlot
  <2>2. \A y \in 0 .. S : ~IsSlot(S, used, y, k)
    BY <1>1 DEF IsSlot
  <2> QED
    BY <2>1, <2>2 DEF Right
<1>2. CASE k <= S
  <2>0. k \in 0 .. S
    BY <1>2
  <2>1. PICK f : f = SearchFrom(f, S, used, k) /\ FindSlot(S, used, head0, k) = f[<<head0, 0>>]
    <3> DEFINE g == CHOOSE g : g = SearchFrom(g, S, used, k)
    <3>1. g = SearchFrom(g, S, used, k)
      BY <2>0, SearchExists
    <3>2. FindSlot(S, used, head0, k) = g[<<head0, 0>>]
      BY <1>2 DEF FindSlot, SearchFrom
    <3> HIDE DEF g
    <3> QED
      BY <3>1, <3>2
  <2>2. ASSUME NEW h \in 0 .. S, NEW t \in Nat
        PROVE  f[<<h, t>>] = IF h + k > S THEN f[<<0, t + S - h>>]
                             ELSE IF IsSlot(S, used, h, k) THEN h
                             ELSE IF t + StepFrom(used, h, k) >= S THEN NoSlot
                             ELSE f[<<h + StepFrom(used, h, k), t + StepFrom(used, h, k)>>]
    <3>1. <<h, t>> \in (0 .. S) \X Nat
      OBVIOUS
    <3> QED
      BY <2>1, <3>1 DEF SearchFrom, StepFrom
  <2> DEFINE Good == {m \in 0 .. 2 * S + 2 : \A h \in 0 .. S, t \in Nat :
                        Remaining(S, h, k, t) < m /\ Covered(S, used, k, head0, h, t) =>
                          Right(S, used, k, f[<<h, t>>])}
  <2>3. 0 \in Good
    <3>1. ASSUME NEW h \in 0 .. S, NEW t \in Nat PROVE ~(Remaining(S, h, k, t) < 0)
      <4>1. Remaining(S, h, k, t) \in 0 .. 2 * S + 1
        BY <2>0, RemainingFalls
      <4> QED
        BY <4>1
    <3>2. 0 \in 0 .. 2 * S + 2
      OBVIOUS
    <3> QED
      BY <3>1, <3>2
  <2>4. ASSUME NEW m \in 0 .. (2 * S + 2) - 1, m \in Good PROVE m + 1 \in Good
    <3>1. ASSUME NEW h \in 0 .. S, NEW t \in Nat,
                 Remaining(S, h, k, t) < m + 1, Covered(S, used, k, head0, h, t)
          PROVE  Right(S, used, k, f[<<h, t>>])
      <4>0. Remaining(S, h, k, t) \in 0 .. 2 * S + 1
        BY <2>0, RemainingFalls
      <4>1. CASE h + k > S
        <5>1. /\ t + S - h \in Nat /\ 0 \in 0 .. S
              /\ Remaining(S, 0, k, t + S - h) < Remaining(S, h, k, t)
          BY <2>0, <4>1, RemainingFalls
        <5>2. Covered(S, used, k, head0, 0, t + S - h)
          BY <2>0, <3>1, <4>1, CoveredRound
        <5>3. Remaining(S, 0, k, t + S - h) \in 0 .. 2 * S + 1
          BY <2>0, <5>1, RemainingFalls
        <5>4. Remaining(S, 0, k, t + S - h) < m
          BY <3>1, <4>0, <5>1, <5>3
        <5>5. Right(S, used, k, f[<<0, t + S - h>>])
          BY <2>4, <5>1, <5>2, <5>4
        <5> QED
          BY <2>2, <4>1, <5>5
      <4>2. CASE ~(h + k > S) /\ IsSlot(S, used, h, k)
        <5>1. f[<<h, t>>] = h
          BY <2>2, <4>2
        <5> QED
          BY <4>2, <5>1 DEF Right, NoSlot
      <4>3. CASE ~(h + k > S) /\ ~IsSlot(S, used, h, k)
        <5> DEFINE step == StepFrom(used, h, k)
        <5>0. h + k <= S
          BY <4>3
        <5>1. /\ h + step \in 0 .. S /\ t + step \in Nat
              /\ t + step < S => Remaining(S, h + step, k, t + step) < Remaining(S, h, k, t)
          BY <2>0, <4>3, <5>0, RemainingFalls
        <5>2. /\ Covered(S, used, k, head0, h + step, t + step)
              /\ t + step >= S => \A y \in 0 .. S : ~IsSlot(S, used, y, k)
          BY <2>0, <3>1, <4>3, <5>0, CoveredOn
        <5>3. f[<<h, t>>] = IF t + step >= S THEN NoSlot ELSE f[<<h + step, t + step>>]
          BY <2>2, <4>3
        <5> HIDE DEF step
        <5>4. CASE t + step >= S
          BY <5>2, <5>3, <5>4 DEF Right
        <5>5. CASE ~(t + step >= S)
          <6>1. Remaining(S, h + step, k, t + step) \in 0 .. 2 * S + 1
            BY <2>0, <5>1, RemainingFalls
          <6>2. Remaining(S, h + step, k, t + step) < m
            BY <3>1, <4>0, <5>1, <5>5, <6>1
          <6>3. Right(S, used, k, f[<<h + step, t + step>>])
            BY <2>4, <5>1, <5>2, <6>2
          <6> QED
            BY <5>3, <5>5, <6>3
        <5> QED
          BY <5>4, <5>5
      <4> QED
        BY <4>1, <4>2, <4>3
    <3>2. m + 1 \in 0 .. 2 * S + 2
      OBVIOUS
    <3> QED
      BY <3>1, <3>2
  <2>5. 2 * S + 2 \in Good
    <3>1. 2 * S + 2 \in Nat /\ 2 * S + 2 \in 0 .. 2 * S + 2
      OBVIOUS
    <3> HIDE DEF Good
    <3> QED
      BY <2>3, <2>4, <3>1, UpTo
  <2>6. Covered(S, used, k, head0, head0, 0)
    <3>1. \A y \in head0 .. head0 - 1 : FALSE
      OBVIOUS
    <3>2. 0 = head0 - head0 /\ head0 >= head0
      OBVIOUS
    <3> QED
      BY <3>1, <3>2 DEF Covered
  <2>7. Remaining(S, head0, k, 0) < 2 * S + 2
    <3>1. Remaining(S, head0, k, 0) \in 0 .. 2 * S + 1
      BY <2>0, RemainingFalls
    <3> QED
      BY <3>1
  <2>8. Right(S, used, k, f[<<head0, 0>>])
    BY <2>5, <2>6, <2>7
  <2> QED
    BY <2>1, <2>8
<1> QED
  BY <1>1, <1>2

LEMMA SearchIsExact ==
  ASSUME NEW S \in Nat, NEW used, NEW k \in Nat, NEW head0 \in 0 .. S
  PROVE  SearchExact(S, used, head0, k)
<1>1. Right(S, used, k, FindSlot(S, used, head0, k))
  BY SearchRight
<1> QED
  BY <1>1 DEF Right, SearchExact

-----------------------------------------------------------------------------
(* The invariant. *)

Tokens == Int \X Int
Cell(ids) == [pos : Nat \cup {-1}, seq_id : SUBSET ids, tok : Tokens \cup {<<>>}]
CellsOf(d, ids) == [0 .. SizeFor(d) - 1 -> Cell(ids)]

Types ==
  /\ n_dec \in 1 .. NDec
  /\ cells \in CellsOf(n_dec, Decs)
  /\ head \in 0 .. SizeFor(n_dec)
  /\ phase \in {"idle", "sample", "decode"}
  /\ live \in SUBSET Decs
  /\ i \in Nat
  /\ sequence \in [Decs -> Seq(Tokens)]

(* A cell without a sequence is free, and only such a cell is.              *)
Tidy(cs) ==
  \A c \in DOMAIN cs : IF cs[c].seq_id = {} THEN cs[c] = FreeCell ELSE cs[c].pos \in Nat

(* The cells of sequence j are the first m tokens of history h, each once.  *)
Holds(cs, j, h, m) ==
  /\ \A c \in DOMAIN cs : j \in cs[c].seq_id =>
       cs[c].pos \in 0 .. m - 1 /\ cs[c].tok = h[cs[c].pos + 1]
  /\ \A q \in 0 .. m - 1 : \E c \in DOMAIN cs : j \in cs[c].seq_id /\ cs[c].pos = q
  /\ \A c, e \in DOMAIN cs :
       j \in cs[c].seq_id /\ j \in cs[e].seq_id /\ cs[c].pos = cs[e].pos => c = e

(* Every live decoder has its own history in the cache, but for the token   *)
(* it has just sampled.                                                     *)
HistoryInv ==
  /\ phase = "decode" => live # {}
  /\ \A j \in live :
       /\ phase = "sample" => Holds(cells, j, sequence[j], Len(sequence[j]))
       /\ phase = "decode" =>
            sequence[j] # <<>> /\ Holds(cells, j, sequence[j], Len(sequence[j]) - 1)

KVInv == Types /\ Tidy(cells) /\ HistoryInv /\ AttendsOwnHistory

-----------------------------------------------------------------------------
(* The operations on the cells. *)

LEMMA SizeFacts ==
  ASSUME NEW d \in 1 .. NDec
  PROVE  SizeFor(d) \in Nat
BY KVAssumption DEF SizeFor, Factor

LEMMA FreeCellType == \A ids : FreeCell \in Cell(ids)
BY DEF FreeCell, Cell

LEMMA ClearFacts ==
  ASSUME NEW d \in 1 .. NDec
  PROVE  Clear(d) \in CellsOf(d, Decs) /\ Tidy(Clear(d))
<1>1. Clear(d) \in CellsOf(d, Decs)
  BY FreeCellType DEF Clear, CellsOf
<1>2. \A c \in DOMAIN Clear(d) : Clear(d)[c] = FreeCell
  BY DEF Clear
<1>3. FreeCell.seq_id = {}
  BY DEF FreeCell
<1> QED
  BY <1>1, <1>2, <1>3 DEF Tidy

LEMMA SeqCpFacts ==
  ASSUME NEW d, NEW ids, NEW cs \in CellsOf(d, ids), Tidy(cs),
         NEW src, NEW dsts \in SUBSET ids
  PROVE  /\ SeqCp(cs, src, dsts) \in CellsOf(d, ids) /\ Tidy(SeqCp(cs, src, dsts))
         /\ \A c \in DOMAIN cs :
              /\ SeqCp(cs, src, dsts)[c].seq_id =
                   IF src \in cs[c].seq_id THEN cs[c].seq_id \cup dsts ELSE cs[c].seq_id
              /\ SeqCp(cs, src, dsts)[c].pos = cs[c].pos
              /\ SeqCp(cs, src, dsts)[c].tok = cs[c].tok
<1> DEFINE r == SeqCp(cs, src, dsts)
<1>0. DOMAIN cs = 0 .. SizeFor(d) - 1 /\ DOMAIN r = 0 .. SizeFor(d) - 1
  BY DEF CellsOf, SeqCp
<1>1. ASSUME NEW c \in DOMAIN cs
      PROVE  /\ r[c] \in Cell(ids)
             /\ r[c].seq_id = IF src \in cs[c].seq_id THEN cs[c].seq_id \cup dsts ELSE cs[c].seq_id
             /\ r[c].pos = cs[c].pos /\ r[c].tok = cs[c].tok
             /\ IF r[c].seq_id = {} THEN r[c] = FreeCell ELSE r[c].pos \in Nat
  <2>1. cs[c] \in Cell(ids)
    BY DEF CellsOf
  <2>2. r[c] = IF src \in cs[c].seq_id
               THEN [cs[c] EXCEPT !.seq_id = cs[c].seq_id \cup dsts] ELSE cs[c]
    BY DEF SeqCp
  <2>3. IF cs[c].seq_id = {} THEN cs[c] = FreeCell ELSE cs[c].pos \in Nat
    BY DEF Tidy
  <2> HIDE DEF r
  <2>4. CASE src \in cs[c].seq_id
    BY <2>1, <2>2, <2>3, <2>4 DEF Cell
  <2>5. CASE src \notin cs[c].seq_id
    BY <2>1, <2>2, <2>3, <2>5
  <2> QED
    BY <2>4, <2>5
<1>2. r = [c \in 0 .. SizeFor(d) - 1 |-> r[c]]
  BY <1>0 DEF SeqCp
<1> HIDE DEF r
<1>3. r \in CellsOf(d, ids)
  BY <1>0, <1>1, <1>2 DEF CellsOf
<1>4. Tidy(r)
  BY <1>0, <1>1 DEF Tidy
<1> QED
  BY <1>1, <1>3, <1>4 DEF r

LEMMA SeqRmFacts ==
  ASSUME NEW d, NEW ids, NEW cs \in CellsOf(d, ids), Tidy(cs), NEW s
  PROVE  /\ SeqRm(cs, s) \in CellsOf(d, ids) /\ Tidy(SeqRm(cs, s))
         /\ \A c \in DOMAIN cs :
              /\ SeqRm(cs, s)[c].seq_id = cs[c].seq_id \ {s}
              /\ SeqRm(cs, s)[c].seq_id # {} =>
                   SeqRm(cs, s)[c].pos = cs[c].pos /\ SeqRm(cs, s)[c].tok = cs[c].tok
<1> DEFINE r == SeqRm(cs, s)
<1>0. DOMAIN cs = 0 .. SizeFor(d) - 1 /\ DOMAIN r = 0 .. SizeFor(d) - 1
  BY DEF CellsOf, SeqRm
<1>1. ASSUME NEW c \in DOMAIN cs
      PROVE  /\ r[c] \in Cell(ids)
             /\ r[c].seq_id = cs[c].seq_id \ {s}
             /\ r[c].seq_id # {} => r[c].pos = cs[c].pos /\ r[c].tok = cs[c].tok
             /\ IF r[c].seq_id = {} THEN r[c] = FreeCell ELSE r[c].pos \in Nat
  <2>1. cs[c] \in Cell(ids)
    BY DEF CellsOf
  <2>2. r[c] = IF cs[c].seq_id = {s} THEN FreeCell
               ELSE [cs[c] EXCEPT !.seq_id = cs[c].seq_id \ {s}]
    BY DEF SeqRm
  <2>3. IF cs[c].seq_id = {} THEN cs[c] = FreeCell ELSE cs[c].pos \in Nat
    BY DEF Tidy
  <2>4. FreeCell.seq_id = {} /\ FreeCell \in Cell(ids)
    BY FreeCellType DEF FreeCell
  <2> HIDE DEF r
  <2>5. CASE cs[c].seq_id = {s}
    BY <2>2, <2>4, <2>5
  <2>6. CASE cs[c].seq_id = {}
    <3>1. r[c] = [FreeCell EXCEPT !.seq_id = {}]
      BY <2>2, <2>3, <2>6
    <3>2. r[c] = FreeCell
      BY <3>1 DEF FreeCell
    <3> QED
      BY <2>3, <2>4, <2>6, <3>2
  <2>7. CASE cs[c].seq_id # {s} /\ cs[c].seq_id # {}
    <3>1. r[c] = [cs[c] EXCEPT !.seq_id = cs[c].seq_id \ {s}]
      BY <2>2, <2>7
    <3>2. /\ r[c] \in Cell(ids) /\ r[c].seq_id = cs[c].seq_id \ {s}
          /\ r[c].pos = cs[c].pos /\ r[c].tok = cs[c].tok
      BY <2>1, <3>1 DEF Cell
    <3>3. cs[c].seq_id \ {s} # {}
      BY <2>7
    <3> QED
      BY <2>3, <2>7, <3>2, <3>3
  <2> QED
    BY <2>5, <2>6, <2>7
<1>2. r = [c \in 0 .. SizeFor(d) - 1 |-> r[c]]
  BY <1>0 DEF SeqRm
<1> HIDE DEF r
<1>3. r \in CellsOf(d, ids)
  BY <1>0, <1>1, <1>2 DEF CellsOf
<1>4. Tidy(r)
  BY <1>0, <1>1 DEF Tidy
<1> QED
  BY <1>1, <1>3, <1>4 DEF r

(* A history moves with the label of its sequence. *)
LEMMA HoldsMoves ==
  ASSUME NEW cs, NEW new, DOMAIN new = DOMAIN cs, NEW j, NEW src,
         \A c \in DOMAIN cs :
           /\ j \in new[c].seq_id <=> src \in cs[c].seq_id
           /\ j \in new[c].seq_id => new[c].pos = cs[c].pos /\ new[c].tok = cs[c].tok,
         NEW h, NEW g, NEW m \in Int, \A q \in 1 .. m : g[q] = h[q], Holds(cs, src, h, m)
  PROVE  Holds(new, j, g, m)
<1>1. ASSUME NEW c \in DOMAIN new, j \in new[c].seq_id
      PROVE  new[c].pos \in 0 .. m - 1 /\ new[c].tok = g[new[c].pos + 1]
  <2>1. cs[c].pos \in 0 .. m - 1 /\ cs[c].tok = h[cs[c].pos + 1]
    BY <1>1 DEF Holds
  <2>2. cs[c].pos + 1 \in 1 .. m
    BY <2>1
  <2> QED
    BY <1>1, <2>1, <2>2
<1>2. ASSUME NEW q \in 0 .. m - 1 PROVE \E c \in DOMAIN new : j \in new[c].seq_id /\ new[c].pos = q
  BY DEF Holds
<1>3. ASSUME NEW c \in DOMAIN new, NEW e \in DOMAIN new,
             j \in new[c].seq_id, j \in new[e].seq_id, new[c].pos = new[e].pos
      PROVE  c = e
  BY <1>3 DEF Holds
<1> QED
  BY <1>1, <1>2, <1>3 DEF Holds

-----------------------------------------------------------------------------
(* The loops over the decoders. *)

(* What a loop has made after each decoder. *)
Loops(f, Body(_, _), start) ==
  f = [k \in 0 .. NDec |->
         IF k = 0 THEN start
         ELSE IF k - 1 \in live THEN Body(f[k - 1], k - 1) ELSE f[k - 1]]

AllSeqs == 0 .. 2 * NDec - 1

LEMMA DecsFacts ==
  /\ NDec \in Nat /\ 0 \in 0 .. NDec /\ NDec \in 0 .. NDec /\ Decs \subseteq AllSeqs
  /\ \A j \in Decs : j \in Nat /\ NDec + j \in AllSeqs /\ NDec + j \notin Decs
BY KVAssumption DEF Decs, AllSeqs

CopyOf(parent, cs, j) == SeqCp(cs, parent[j], {NDec + j})

TakeOver(cs, j) == SeqRm(SeqCp(SeqRm(cs, j), NDec + j, {j}), NDec + j)

Widened == CellsOf(n_dec, AllSeqs)

LEMMA WidenedFacts ==
  ASSUME Types
  PROVE  cells \in Widened
<1>1. Cell(Decs) \subseteq Cell(AllSeqs)
  BY DecsFacts DEF Cell
<1>2. cells \in [0 .. SizeFor(n_dec) - 1 -> Cell(Decs)]
  BY DEF Types, CellsOf
<1> QED
  BY <1>1, <1>2 DEF Widened, CellsOf

(* The first loop of the move. *)
LEMMA MarkedSteps ==
  ASSUME Types, Tidy(cells), NEW parent \in [live -> live]
  PROVE  \E f :
           /\ f[0] = cells /\ Marked(parent) = f[NDec]
           /\ \A k \in 1 .. NDec :
                f[k] = IF k - 1 \in live THEN CopyOf(parent, f[k - 1], k - 1) ELSE f[k - 1]
<1> DEFINE A == {cs \in Widened : Tidy(cs)}
           step == [k \in 1 .. NDec |-> [cs \in A |->
                      IF k - 1 \in live THEN CopyOf(parent, cs, k - 1) ELSE cs]]
<1>1. cells \in A
  BY WidenedFacts
<1>2. ASSUME NEW k \in 1 .. NDec, NEW cs \in A, k - 1 \in live
      PROVE  CopyOf(parent, cs, k - 1) \in A
  <2>1. k - 1 \in Decs
    BY <1>2 DEF Types
  <2>2. {NDec + (k - 1)} \in SUBSET AllSeqs
    BY <2>1, DecsFacts
  <2> QED
    BY <2>2, SeqCpFacts DEF CopyOf, Widened
<1>3. step \in [1 .. NDec -> [A -> A]]
  <2> HIDE DEF A
  <2> QED
    BY <1>2
<1>4. PICK f : StepsFrom(f, A, NDec, cells, step)
  <2> HIDE DEF A, step
  <2>1. AreSteps(A, NDec, cells, step)
    BY <1>1, <1>3, DecsFacts DEF AreSteps
  <2> QED
    BY <2>1, StepsExist
<1>5. ASSUME NEW k \in 1 .. NDec
      PROVE  f[k] = IF k - 1 \in live THEN CopyOf(parent, f[k - 1], k - 1) ELSE f[k - 1]
  <2>1. f[k - 1] \in A
    <3>1. k - 1 \in 0 .. NDec
      BY DecsFacts
    <3> HIDE DEF A, step
    <3> QED
      BY <1>4, <3>1 DEF StepsFrom
  <2> HIDE DEF A
  <2> QED
    BY <1>4, <2>1 DEF StepsFrom
<1>6. Loops(f, LAMBDA cs, j : SeqCp(cs, parent[j], {NDec + j}), cells)
  <2>1. f = [k \in 0 .. NDec |-> f[k]]
    <3> HIDE DEF A, step
    <3> QED
      BY <1>4 DEF StepsFrom
  <2>2. ASSUME NEW k \in 0 .. NDec
        PROVE  f[k] = IF k = 0 THEN cells
                      ELSE IF k - 1 \in live THEN SeqCp(f[k - 1], parent[k - 1], {NDec + (k - 1)})
                      ELSE f[k - 1]
    <3>1. CASE k = 0
      BY <1>4, <3>1 DEF StepsFrom
    <3>2. CASE k # 0
      <4>1. k \in 1 .. NDec
        BY <3>2, DecsFacts
      <4> QED
        BY <1>5, <3>2, <4>1 DEF CopyOf
    <3> QED
      BY <3>1, <3>2
  <2> HIDE DEF A, step
  <2> QED
    BY <2>1, <2>2 DEF Loops
<1> HIDE DEF A, step
<1>7. PICK g : Loops(g, LAMBDA cs, j : SeqCp(cs, parent[j], {NDec + j}), cells)
               /\ Marked(parent) = g[NDec]
  <2> DEFINE g == CHOOSE g : Loops(g, LAMBDA cs, j : SeqCp(cs, parent[j], {NDec + j}), cells)
  <2>1. Loops(g, LAMBDA cs, j : SeqCp(cs, parent[j], {NDec + j}), cells)
    BY <1>6
  <2>2. Marked(parent) = g[NDec]
    BY DEF Marked, ForEachLive, Loops
  <2> HIDE DEF g
  <2> QED
    BY <2>1, <2>2
<1>8. \A k \in 0 .. NDec :
        g[k] = IF k = 0 THEN cells
               ELSE IF k - 1 \in live THEN CopyOf(parent, g[k - 1], k - 1) ELSE g[k - 1]
  BY <1>7 DEF Loops, CopyOf
<1>9. g[0] = cells /\ 1 .. NDec \subseteq 0 .. NDec /\ \A k \in 1 .. NDec : k # 0
  BY <1>8, DecsFacts
<1> QED
  BY <1>7, <1>8, <1>9

(* The second loop of the move. *)
LEMMA MovedSteps ==
  ASSUME Types, NEW parent, Marked(parent) \in Widened, Tidy(Marked(parent))
  PROVE  \E f :
           /\ f[0] = Marked(parent) /\ Moved(parent) = f[NDec]
           /\ \A k \in 1 .. NDec :
                f[k] = IF k - 1 \in live THEN TakeOver(f[k - 1], k - 1) ELSE f[k - 1]
<1> DEFINE A == {cs \in Widened : Tidy(cs)}
           step == [k \in 1 .. NDec |-> [cs \in A |->
                      IF k - 1 \in live THEN TakeOver(cs, k - 1) ELSE cs]]
<1>1. Marked(parent) \in A
  OBVIOUS
<1>2. ASSUME NEW k \in 1 .. NDec, NEW cs \in A, k - 1 \in live
      PROVE  TakeOver(cs, k - 1) \in A
  <2>1. k - 1 \in Decs
    BY <1>2 DEF Types
  <2>2. {k - 1} \in SUBSET AllSeqs
    BY <2>1, DecsFacts
  <2>3. SeqRm(cs, k - 1) \in CellsOf(n_dec, AllSeqs) /\ Tidy(SeqRm(cs, k - 1))
    BY SeqRmFacts DEF Widened
  <2> DEFINE copied == SeqCp(SeqRm(cs, k - 1), NDec + (k - 1), {k - 1})
  <2>4. copied \in CellsOf(n_dec, AllSeqs) /\ Tidy(copied)
    BY <2>2, <2>3, SeqCpFacts
  <2>5. TakeOver(cs, k - 1) = SeqRm(copied, NDec + (k - 1))
    BY DEF TakeOver
  <2> HIDE DEF copied
  <2> QED
    BY <2>4, <2>5, SeqRmFacts DEF Widened
<1>3. step \in [1 .. NDec -> [A -> A]]
  <2> HIDE DEF A
  <2> QED
    BY <1>2
<1>4. PICK f : StepsFrom(f, A, NDec, Marked(parent), step)
  <2> HIDE DEF A, step
  <2>1. AreSteps(A, NDec, Marked(parent), step)
    BY <1>1, <1>3, DecsFacts DEF AreSteps
  <2> QED
    BY <2>1, StepsExist
<1>5. ASSUME NEW k \in 1 .. NDec
      PROVE  f[k] = IF k - 1 \in live THEN TakeOver(f[k - 1], k - 1) ELSE f[k - 1]
  <2>1. f[k - 1] \in A
    <3>1. k - 1 \in 0 .. NDec
      BY DecsFacts
    <3> HIDE DEF A, step
    <3> QED
      BY <1>4, <3>1 DEF StepsFrom
  <2> HIDE DEF A
  <2> QED
    BY <1>4, <2>1 DEF StepsFrom
<1>6. Loops(f, TakeOver, Marked(parent))
  <2>1. f = [k \in 0 .. NDec |-> f[k]]
    <3> HIDE DEF A, step
    <3> QED
      BY <1>4 DEF StepsFrom
  <2>2. ASSUME NEW k \in 0 .. NDec
        PROVE  f[k] = IF k = 0 THEN Marked(parent)
                      ELSE IF k - 1 \in live THEN TakeOver(f[k - 1], k - 1)
                      ELSE f[k - 1]
    <3>1. CASE k = 0
      BY <1>4, <3>1 DEF StepsFrom
    <3>2. CASE k # 0
      <4>1. k \in 1 .. NDec
        BY <3>2, DecsFacts
      <4> QED
        BY <1>5, <3>2, <4>1
    <3> QED
      BY <3>1, <3>2
  <2> HIDE DEF A, step
  <2> QED
    BY <2>1, <2>2 DEF Loops
<1> HIDE DEF A, step
<1>7. PICK g : Loops(g, TakeOver, Marked(parent))
               /\ Moved(parent) = g[NDec]
  <2> DEFINE g == CHOOSE g : Loops(g, TakeOver, Marked(parent))
  <2>1. Loops(g, TakeOver, Marked(parent))
    BY <1>6
  <2>2. Moved(parent) = g[NDec]
    BY DEF Moved, ForEachLive, Loops, TakeOver
  <2> HIDE DEF g
  <2> QED
    BY <2>1, <2>2
<1>8. \A k \in 0 .. NDec :
        g[k] = IF k = 0 THEN Marked(parent)
               ELSE IF k - 1 \in live THEN TakeOver(g[k - 1], k - 1) ELSE g[k - 1]
  BY <1>7 DEF Loops
<1>9. g[0] = Marked(parent) /\ 1 .. NDec \subseteq 0 .. NDec /\ \A k \in 1 .. NDec : k # 0
  BY <1>8, DecsFacts
<1> QED
  BY <1>7, <1>8, <1>9

-----------------------------------------------------------------------------
(* What a loop has done to the cells when it comes to decoder k. *)

MarkedTo(parent, cs, k) ==
  /\ cs \in Widened /\ Tidy(cs)
  /\ \A c \in DOMAIN cells :
       /\ cs[c].pos = cells[c].pos /\ cs[c].tok = cells[c].tok
       /\ \A s \in AllSeqs : s \in cs[c].seq_id <=>
            \/ s \in cells[c].seq_id
            \/ \E j \in live : j < k /\ s = NDec + j /\ parent[j] \in cells[c].seq_id

LEMMA MarkedOne ==
  ASSUME Types, NEW parent \in [live -> live], NEW k \in live, NEW cs, MarkedTo(parent, cs, k)
  PROVE  MarkedTo(parent, CopyOf(parent, cs, k), k + 1)
<1> DEFINE r == CopyOf(parent, cs, k)
<1>1. /\ k \in Decs /\ parent[k] \in Decs /\ live \subseteq Decs
      /\ DOMAIN cells = 0 .. SizeFor(n_dec) - 1 /\ DOMAIN cs = DOMAIN cells
  BY DEF Types, CellsOf, MarkedTo, Widened
<1>2. {NDec + k} \in SUBSET AllSeqs
  BY <1>1, DecsFacts
<1>3. /\ r \in CellsOf(n_dec, AllSeqs) /\ Tidy(r)
      /\ \A c \in DOMAIN cs :
           /\ r[c].seq_id =
                IF parent[k] \in cs[c].seq_id THEN cs[c].seq_id \cup {NDec + k} ELSE cs[c].seq_id
           /\ r[c].pos = cs[c].pos /\ r[c].tok = cs[c].tok
  <2>1. cs \in CellsOf(n_dec, AllSeqs) /\ Tidy(cs)
    BY DEF MarkedTo, Widened
  <2> QED
    BY <1>2, <2>1, SeqCpFacts, SMTT(30) DEF CopyOf
<1> HIDE DEF r
<1>4. ASSUME NEW c \in DOMAIN cells
      PROVE  /\ r[c].pos = cells[c].pos /\ r[c].tok = cells[c].tok
             /\ \A s \in AllSeqs : s \in r[c].seq_id <=>
                  \/ s \in cells[c].seq_id
                  \/ \E j \in live : j < k + 1 /\ s = NDec + j /\ parent[j] \in cells[c].seq_id
  <2>1. r[c].pos = cells[c].pos /\ r[c].tok = cells[c].tok
    BY <1>1, <1>3 DEF MarkedTo
  <2>2. parent[k] \in cs[c].seq_id <=> parent[k] \in cells[c].seq_id
    <3>1. parent[k] \in AllSeqs /\ \A j \in live : parent[k] # NDec + j
      BY <1>1, DecsFacts
    <3> QED
      BY <3>1 DEF MarkedTo
  <2>3. ASSUME NEW s \in AllSeqs
        PROVE  s \in r[c].seq_id <=>
                 \/ s \in cells[c].seq_id
                 \/ \E j \in live : j < k + 1 /\ s = NDec + j /\ parent[j] \in cells[c].seq_id
    <3>1. s \in r[c].seq_id <=>
            s \in cs[c].seq_id \/ (s = NDec + k /\ parent[k] \in cells[c].seq_id)
      BY <1>1, <1>3, <2>2
    <3>2. s \in cs[c].seq_id <=>
            \/ s \in cells[c].seq_id
            \/ \E j \in live : j < k /\ s = NDec + j /\ parent[j] \in cells[c].seq_id
      BY DEF MarkedTo
    <3>3. ASSUME NEW j \in live PROVE j < k + 1 <=> j < k \/ j = k
      <4>1. j \in Nat /\ k \in Nat
        BY <1>1, DecsFacts
      <4> QED
        BY <4>1
    <3> QED
      BY <3>1, <3>2, <3>3
  <2> QED
    BY <2>1, <2>3
<1> QED
  BY <1>3, <1>4 DEF MarkedTo, Widened, r

LEMMA MarkedFacts ==
  ASSUME Types, Tidy(cells), NEW parent \in [live -> live]
  PROVE  MarkedTo(parent, Marked(parent), NDec)
<1>1. PICK f : /\ f[0] = cells /\ Marked(parent) = f[NDec]
               /\ \A k \in 1 .. NDec :
                    f[k] = IF k - 1 \in live THEN CopyOf(parent, f[k - 1], k - 1) ELSE f[k - 1]
  BY MarkedSteps
<1>0. live \subseteq Decs /\ \A j \in live : j \in Nat
  BY DecsFacts DEF Types
<1> DEFINE Good == {k \in 0 .. NDec : MarkedTo(parent, f[k], k)}
<1>2. 0 \in Good
  <2>1. MarkedTo(parent, cells, 0)
    <3>1. \A j \in live : ~(j < 0)
      BY <1>0
    <3> QED
      BY <3>1, WidenedFacts DEF MarkedTo
  <2> QED
    BY <1>1, <2>1, DecsFacts
<1>3. ASSUME NEW k \in 0 .. NDec - 1, k \in Good PROVE k + 1 \in Good
  <2>1. k + 1 \in 1 .. NDec /\ k + 1 \in 0 .. NDec /\ (k + 1) - 1 = k /\ k \in Nat
    BY DecsFacts
  <2>2. f[k + 1] = IF k \in live THEN CopyOf(parent, f[k], k) ELSE f[k]
    BY <1>1, <2>1
  <2>3. CASE k \in live
    <3>1. MarkedTo(parent, CopyOf(parent, f[k], k), k + 1)
      BY <1>3, <2>3, MarkedOne
    <3> QED
      BY <2>1, <2>2, <2>3, <3>1
  <2>4. CASE k \notin live
    <3>1. \A j \in live : j < k + 1 <=> j < k
      BY <1>0, <2>1, <2>4
    <3>2. MarkedTo(parent, f[k], k + 1)
      BY <1>3, <3>1 DEF MarkedTo
    <3> QED
      BY <2>1, <2>2, <2>4, <3>2
  <2> QED
    BY <2>3, <2>4
<1>4. NDec \in Good
  <2> HIDE DEF Good
  <2> QED
    BY <1>2, <1>3, UpTo, DecsFacts
<1> QED
  BY <1>1, <1>4

(* The decoders before k have been given what was marked for them. *)
TakenTo(parent, cs, k) ==
  /\ cs \in Widened /\ Tidy(cs)
  /\ \A c \in DOMAIN cells :
       /\ cs[c].seq_id # {} => cs[c].pos = cells[c].pos /\ cs[c].tok = cells[c].tok
       /\ \A j \in Decs :
            j \in cs[c].seq_id <=>
              IF j \in live /\ j < k THEN parent[j] \in cells[c].seq_id ELSE j \in cells[c].seq_id
       /\ \A j \in Decs :
            NDec + j \in cs[c].seq_id <=> j \in live /\ j >= k /\ parent[j] \in cells[c].seq_id

LEMMA TakenOne ==
  ASSUME Types, NEW parent \in [live -> live], NEW k \in live, NEW cs, TakenTo(parent, cs, k)
  PROVE  TakenTo(parent, TakeOver(cs, k), k + 1)
<1> DEFINE removed == SeqRm(cs, k)
           copied == SeqCp(removed, NDec + k, {k})
           r == SeqRm(copied, NDec + k)
<1>0. TakeOver(cs, k) = r
  BY DEF TakeOver
<1>1. /\ k \in Decs /\ k \in Nat /\ NDec + k \in AllSeqs /\ NDec + k \notin Decs /\ k \in AllSeqs
      /\ live \subseteq Decs /\ DOMAIN cells = 0 .. SizeFor(n_dec) - 1
      /\ \A j \in Decs : j \in Nat /\ j # NDec + k /\ NDec + j # k /\ (NDec + j = NDec + k <=> j = k)
  BY DecsFacts DEF Types, CellsOf
<1>2. /\ removed \in CellsOf(n_dec, AllSeqs) /\ Tidy(removed)
      /\ \A c \in DOMAIN cells :
           /\ removed[c].seq_id = cs[c].seq_id \ {k}
           /\ removed[c].seq_id # {} => removed[c].pos = cs[c].pos /\ removed[c].tok = cs[c].tok
  <2>1. cs \in CellsOf(n_dec, AllSeqs) /\ Tidy(cs) /\ DOMAIN cs = DOMAIN cells
    BY <1>1 DEF TakenTo, Widened, CellsOf
  <2> QED
    BY <2>1, SeqRmFacts
<1> HIDE DEF removed
<1>3. /\ copied \in CellsOf(n_dec, AllSeqs) /\ Tidy(copied)
      /\ \A c \in DOMAIN cells :
           /\ copied[c].seq_id = IF NDec + k \in removed[c].seq_id
                                 THEN removed[c].seq_id \cup {k} ELSE removed[c].seq_id
           /\ copied[c].pos = removed[c].pos /\ copied[c].tok = removed[c].tok
  <2>1. {k} \in SUBSET AllSeqs /\ DOMAIN removed = DOMAIN cells
    BY <1>1, <1>2 DEF CellsOf
  <2> QED
    BY <1>2, <2>1, SeqCpFacts, SMTT(30)
<1> HIDE DEF copied
<1>4. /\ r \in CellsOf(n_dec, AllSeqs) /\ Tidy(r)
      /\ \A c \in DOMAIN cells :
           /\ r[c].seq_id = copied[c].seq_id \ {NDec + k}
           /\ r[c].seq_id # {} => r[c].pos = copied[c].pos /\ r[c].tok = copied[c].tok
  <2>1. DOMAIN copied = DOMAIN cells
    BY <1>1, <1>3 DEF CellsOf
  <2> QED
    BY <1>3, <2>1, SeqRmFacts
<1> HIDE DEF r
<1>5. ASSUME NEW c \in DOMAIN cells
      PROVE  /\ r[c].seq_id # {} => r[c].pos = cells[c].pos /\ r[c].tok = cells[c].tok
             /\ \A j \in Decs : j \in r[c].seq_id <=>
                  IF j \in live /\ j < k + 1 THEN parent[j] \in cells[c].seq_id
                  ELSE j \in cells[c].seq_id
             /\ \A j \in Decs : NDec + j \in r[c].seq_id <=>
                  j \in live /\ j >= k + 1 /\ parent[j] \in cells[c].seq_id
  <2>1. ASSUME r[c].seq_id # {}
        PROVE  r[c].pos = cells[c].pos /\ r[c].tok = cells[c].tok
    <3>1. removed[c].seq_id # {}
      BY <1>3, <1>4, <2>1
    <3>2. cs[c].seq_id # {}
      BY <1>2, <3>1
    <3>3. r[c].pos = copied[c].pos /\ r[c].tok = copied[c].tok
      BY <1>4, <2>1
    <3>4. copied[c].pos = removed[c].pos /\ copied[c].tok = removed[c].tok
      BY <1>3
    <3>5. removed[c].pos = cs[c].pos /\ removed[c].tok = cs[c].tok
      BY <1>2, <3>1
    <3>6. cs[c].pos = cells[c].pos /\ cs[c].tok = cells[c].tok
      BY <3>2 DEF TakenTo
    <3> QED
      BY <3>3, <3>4, <3>5, <3>6
  <2>2. ASSUME NEW s
        PROVE  s \in r[c].seq_id <=>
                 /\ s # NDec + k
                 /\ \/ s \in cs[c].seq_id /\ s # k
                    \/ s = k /\ NDec + k \in cs[c].seq_id
    <3>1. NDec + k # k
      BY <1>1
    <3>2. s \in r[c].seq_id <=> s \in copied[c].seq_id /\ s # NDec + k
      BY <1>4
    <3>3. s \in copied[c].seq_id <=>
            s \in removed[c].seq_id \/ (s = k /\ NDec + k \in removed[c].seq_id)
      BY <1>3
    <3>4. /\ s \in removed[c].seq_id <=> s \in cs[c].seq_id /\ s # k
          /\ NDec + k \in removed[c].seq_id <=> NDec + k \in cs[c].seq_id /\ NDec + k # k
      BY <1>2
    <3> QED
      BY <3>1, <3>2, <3>3, <3>4
  <2>3. NDec + k \in cs[c].seq_id <=> parent[k] \in cells[c].seq_id
    <3>1. k >= k
      BY <1>1
    <3> QED
      BY <1>1, <3>1 DEF TakenTo
  <2>4. ASSUME NEW j \in Decs
        PROVE  j \in r[c].seq_id <=>
                 IF j \in live /\ j < k + 1 THEN parent[j] \in cells[c].seq_id
                 ELSE j \in cells[c].seq_id
    <3>1. j < k + 1 <=> j < k \/ j = k
      BY <1>1
    <3>2. j \in cs[c].seq_id <=>
            IF j \in live /\ j < k THEN parent[j] \in cells[c].seq_id ELSE j \in cells[c].seq_id
      BY DEF TakenTo
    <3>3. j # NDec + k
      BY <1>1
    <3> QED
      BY <2>2, <2>3, <3>1, <3>2, <3>3
  <2>5. ASSUME NEW j \in Decs
        PROVE  NDec + j \in r[c].seq_id <=> j \in live /\ j >= k + 1 /\ parent[j] \in cells[c].seq_id
    <3>1. j >= k + 1 <=> j >= k /\ j # k
      BY <1>1
    <3>2. NDec + j \in cs[c].seq_id <=> j \in live /\ j >= k /\ parent[j] \in cells[c].seq_id
      BY DEF TakenTo
    <3>3. NDec + j # k /\ (NDec + j = NDec + k <=> j = k)
      BY <1>1
    <3> QED
      BY <2>2, <3>1, <3>2, <3>3
  <2> QED
    BY <2>1, <2>4, <2>5
<1> QED
  BY <1>0, <1>4, <1>5 DEF TakenTo, Widened

LEMMA MovedFacts ==
  ASSUME Types, Tidy(cells), NEW parent \in [live -> live]
  PROVE  /\ Moved(parent) \in CellsOf(n_dec, Decs) /\ Tidy(Moved(parent))
         /\ \A c \in DOMAIN cells :
              /\ Moved(parent)[c].seq_id # {} =>
                   /\ Moved(parent)[c].pos = cells[c].pos
                   /\ Moved(parent)[c].tok = cells[c].tok
              /\ \A j \in live :
                   j \in Moved(parent)[c].seq_id <=> parent[j] \in cells[c].seq_id
<1>0. /\ live \subseteq Decs /\ DOMAIN cells = 0 .. SizeFor(n_dec) - 1
      /\ \A c \in DOMAIN cells : cells[c].seq_id \subseteq Decs
      /\ \A j \in Decs : j \in Nat /\ j < NDec
  <2>1. live \subseteq Decs /\ cells \in [0 .. SizeFor(n_dec) - 1 -> Cell(Decs)]
    BY DEF Types, CellsOf
  <2>2. \A c \in DOMAIN cells : cells[c].seq_id \subseteq Decs
    BY <2>1 DEF Cell
  <2>3. \A j \in Decs : j \in Nat /\ j < NDec
    BY KVAssumption DEF Decs
  <2> QED
    BY <2>1, <2>2, <2>3
<1>1. MarkedTo(parent, Marked(parent), NDec)
  BY MarkedFacts
<1>2. TakenTo(parent, Marked(parent), 0)
  <2> DEFINE r == Marked(parent)
  <2>1. r \in Widened /\ Tidy(r)
    BY <1>1 DEF MarkedTo
  <2>2. ASSUME NEW c \in DOMAIN cells
        PROVE  /\ r[c].pos = cells[c].pos /\ r[c].tok = cells[c].tok
               /\ \A j \in Decs :
                    j \in r[c].seq_id <=>
                      IF j \in live /\ j < 0 THEN parent[j] \in cells[c].seq_id
                      ELSE j \in cells[c].seq_id
               /\ \A j \in Decs :
                    NDec + j \in r[c].seq_id <=>
                      j \in live /\ j >= 0 /\ parent[j] \in cells[c].seq_id
    <3>1. /\ r[c].pos = cells[c].pos /\ r[c].tok = cells[c].tok
          /\ \A s \in AllSeqs : s \in r[c].seq_id <=>
               \/ s \in cells[c].seq_id
               \/ \E j \in live : j < NDec /\ s = NDec + j /\ parent[j] \in cells[c].seq_id
      BY <1>1 DEF MarkedTo
    <3>2. ASSUME NEW j \in Decs
          PROVE  j \in r[c].seq_id <=> j \in cells[c].seq_id
      <4>1. j \in AllSeqs /\ \A l \in live : j # NDec + l
        BY <1>0, DecsFacts
      <4> HIDE DEF r
      <4> QED
        BY <3>1, <4>1
    <3>3. ASSUME NEW j \in Decs
          PROVE  NDec + j \in r[c].seq_id <=> j \in live /\ parent[j] \in cells[c].seq_id
      <4>1. NDec + j \in AllSeqs /\ NDec + j \notin cells[c].seq_id
        BY <1>0, DecsFacts
      <4>2. \A l \in live : l < NDec /\ (NDec + j = NDec + l <=> l = j)
        BY <1>0, DecsFacts
      <4> HIDE DEF r
      <4> QED
        BY <3>1, <4>1, <4>2
    <3>4. \A j \in Decs : j >= 0 /\ ~(j < 0)
      BY <1>0
    <3> HIDE DEF r
    <3> QED
      BY <3>1, <3>2, <3>3, <3>4
  <2> HIDE DEF r
  <2> QED
    BY <2>1, <2>2 DEF TakenTo, r
<1>3. PICK f : /\ f[0] = Marked(parent) /\ Moved(parent) = f[NDec]
               /\ \A k \in 1 .. NDec :
                    f[k] = IF k - 1 \in live THEN TakeOver(f[k - 1], k - 1) ELSE f[k - 1]
  BY <1>1, MovedSteps DEF MarkedTo
<1> DEFINE Good == {k \in 0 .. NDec : TakenTo(parent, f[k], k)}
<1>4. 0 \in Good
  BY <1>2, <1>3, DecsFacts
<1>5. ASSUME NEW k \in 0 .. NDec - 1, k \in Good PROVE k + 1 \in Good
  <2>1. k + 1 \in 1 .. NDec /\ k + 1 \in 0 .. NDec /\ (k + 1) - 1 = k /\ k \in Nat
    BY DecsFacts
  <2>2. f[k + 1] = IF k \in live THEN TakeOver(f[k], k) ELSE f[k]
    BY <1>3, <2>1
  <2>3. CASE k \in live
    <3>1. TakenTo(parent, TakeOver(f[k], k), k + 1)
      BY <1>5, <2>3, TakenOne
    <3> QED
      BY <2>1, <2>2, <2>3, <3>1
  <2>4. CASE k \notin live
    <3>1. \A j \in live : (j < k + 1 <=> j < k) /\ (j >= k + 1 <=> j >= k)
      BY <1>0, <2>1, <2>4
    <3>2. TakenTo(parent, f[k], k + 1)
      BY <1>5, <3>1 DEF TakenTo
    <3> QED
      BY <2>1, <2>2, <2>4, <3>2
  <2> QED
    BY <2>3, <2>4
<1>6. TakenTo(parent, Moved(parent), NDec)
  <2>1. NDec \in Good
    <3> HIDE DEF Good
    <3> QED
      BY <1>4, <1>5, UpTo, DecsFacts
  <2> QED
    BY <1>3, <2>1
<1> DEFINE r == Moved(parent)
<1> HIDE DEF r
<1>7. r \in Widened /\ Tidy(r)
  BY <1>6 DEF TakenTo, r
<1>8. ASSUME NEW c \in DOMAIN cells
      PROVE  /\ r[c] \in Cell(Decs)
             /\ r[c].seq_id # {} => r[c].pos = cells[c].pos /\ r[c].tok = cells[c].tok
             /\ \A j \in live : j \in r[c].seq_id <=> parent[j] \in cells[c].seq_id
  <2>1. /\ r[c].seq_id # {} => r[c].pos = cells[c].pos /\ r[c].tok = cells[c].tok
        /\ \A j \in Decs :
             j \in r[c].seq_id <=>
               IF j \in live /\ j < NDec THEN parent[j] \in cells[c].seq_id
               ELSE j \in cells[c].seq_id
        /\ \A j \in Decs :
             NDec + j \in r[c].seq_id <=> j \in live /\ j >= NDec /\ parent[j] \in cells[c].seq_id
    BY <1>6 DEF TakenTo, r
  <2>2. \A j \in Decs : j < NDec /\ ~(j >= NDec)
    BY <1>0, DecsFacts
  <2>3. r[c] \in Cell(AllSeqs)
    BY <1>0, <1>7 DEF Widened, CellsOf
  <2>4. ASSUME NEW s \in r[c].seq_id PROVE s \in Decs
    <3>1. s \in AllSeqs
      BY <2>3 DEF Cell
    <3>2. s \in Decs \/ \E j \in Decs : s = NDec + j
      <4>1. s \in Int /\ 0 <= s /\ s <= 2 * NDec - 1 /\ NDec \in Nat
        BY <3>1, DecsFacts DEF AllSeqs
      <4>2. CASE s < NDec
        BY <4>1, <4>2 DEF Decs
      <4>3. CASE ~(s < NDec)
        <5>1. s - NDec \in Decs /\ s = NDec + (s - NDec)
          BY <4>1, <4>3 DEF Decs
        <5> QED
          BY <5>1
      <4> QED
        BY <4>2, <4>3
    <3> QED
      BY <2>1, <2>2, <3>2
  <2>5. r[c] \in Cell(Decs)
    BY <2>3, <2>4 DEF Cell
  <2> QED
    BY <1>0, <2>1, <2>2, <2>5
<1>9. r \in CellsOf(n_dec, Decs)
  <2>1. r = [c \in 0 .. SizeFor(n_dec) - 1 |-> r[c]]
    BY <1>7 DEF Widened, CellsOf
  <2> QED
    BY <1>0, <1>8, <2>1 DEF CellsOf
<1> QED
  BY <1>7, <1>8, <1>9 DEF r

-----------------------------------------------------------------------------
(* The batch of the live decoders. *)

BatchToken == [hist : Seq(Tokens), seq : Decs]

AddToken(b, j) == Append(b, [hist |-> sequence[j], seq |-> j])

(* The loop that fills the batch. *)
LEMMA BatchSteps ==
  ASSUME Types
  PROVE  \E f :
           /\ f[0] = <<>> /\ LiveBatch = f[NDec]
           /\ \A k \in 1 .. NDec :
                f[k] = IF k - 1 \in live THEN AddToken(f[k - 1], k - 1) ELSE f[k - 1]
<1> DEFINE A == Seq(BatchToken)
           step == [k \in 1 .. NDec |-> [b \in A |->
                      IF k - 1 \in live THEN AddToken(b, k - 1) ELSE b]]
<1>1. <<>> \in A
  OBVIOUS
<1>2. ASSUME NEW k \in 1 .. NDec, NEW b \in A, k - 1 \in live
      PROVE  AddToken(b, k - 1) \in A
  <2>1. k - 1 \in Decs
    BY <1>2 DEF Types
  <2>2. [hist |-> sequence[k - 1], seq |-> k - 1] \in BatchToken
    BY <2>1 DEF BatchToken, Types
  <2> QED
    BY <2>2 DEF AddToken
<1>3. step \in [1 .. NDec -> [A -> A]]
  <2> HIDE DEF A
  <2> QED
    BY <1>2
<1>4. PICK f : StepsFrom(f, A, NDec, <<>>, step)
  <2> HIDE DEF A, step
  <2>1. AreSteps(A, NDec, <<>>, step)
    BY <1>1, <1>3, DecsFacts DEF AreSteps
  <2> QED
    BY <2>1, StepsExist
<1>5. ASSUME NEW k \in 1 .. NDec
      PROVE  f[k] = IF k - 1 \in live THEN AddToken(f[k - 1], k - 1) ELSE f[k - 1]
  <2>1. f[k - 1] \in A
    <3>1. k - 1 \in 0 .. NDec
      BY DecsFacts
    <3> HIDE DEF A, step
    <3> QED
      BY <1>4, <3>1 DEF StepsFrom
  <2> HIDE DEF A
  <2> QED
    BY <1>4, <2>1 DEF StepsFrom
<1>6. Loops(f, AddToken, <<>>)
  <2>1. f = [k \in 0 .. NDec |-> f[k]]
    <3> HIDE DEF A, step
    <3> QED
      BY <1>4 DEF StepsFrom
  <2>2. ASSUME NEW k \in 0 .. NDec
        PROVE  f[k] = IF k = 0 THEN <<>>
                      ELSE IF k - 1 \in live THEN AddToken(f[k - 1], k - 1)
                      ELSE f[k - 1]
    <3>1. CASE k = 0
      BY <1>4, <3>1 DEF StepsFrom
    <3>2. CASE k # 0
      <4>1. k \in 1 .. NDec
        BY <3>2, DecsFacts
      <4> QED
        BY <1>5, <3>2, <4>1
    <3> QED
      BY <3>1, <3>2
  <2> HIDE DEF A, step
  <2> QED
    BY <2>1, <2>2 DEF Loops
<1> HIDE DEF A, step
<1>7. PICK g : Loops(g, AddToken, <<>>)
               /\ LiveBatch = g[NDec]
  <2> DEFINE g == CHOOSE g : Loops(g, AddToken, <<>>)
  <2>1. Loops(g, AddToken, <<>>)
    BY <1>6
  <2>2. LiveBatch = g[NDec]
    BY DEF LiveBatch, ForEachLive, Loops, AddToken
  <2> HIDE DEF g
  <2> QED
    BY <2>1, <2>2
<1>8. \A k \in 0 .. NDec :
        g[k] = IF k = 0 THEN <<>>
               ELSE IF k - 1 \in live THEN AddToken(g[k - 1], k - 1) ELSE g[k - 1]
  BY <1>7 DEF Loops
<1>9. g[0] = <<>> /\ 1 .. NDec \subseteq 0 .. NDec /\ \A k \in 1 .. NDec : k # 0
  BY <1>8, DecsFacts
<1> QED
  BY <1>7, <1>8, <1>9

BatchTo(b, k) ==
  /\ b \in Seq(BatchToken)
  /\ \A a \in 1 .. Len(b) : b[a].seq \in live /\ b[a].seq < k /\ b[a].hist = sequence[b[a].seq]
  /\ \A j \in live : j < k => \E a \in 1 .. Len(b) : b[a].seq = j
  /\ \A a, e \in 1 .. Len(b) : b[a].seq = b[e].seq => a = e

LEMMA BatchOne ==
  ASSUME Types, NEW k \in live, NEW b, BatchTo(b, k)
  PROVE  BatchTo(AddToken(b, k), k + 1)
<1> DEFINE t == [hist |-> sequence[k], seq |-> k]
           r == Append(b, t)
<1>1. k \in Decs /\ k \in Nat /\ \A j \in live : j \in Decs /\ j \in Nat
  BY DecsFacts DEF Types
<1>2. t \in BatchToken /\ t.seq = k /\ t.hist = sequence[k]
  BY <1>1 DEF Types, BatchToken
<1> HIDE DEF t
<1>3. /\ r \in Seq(BatchToken) /\ Len(b) \in Nat /\ Len(r) = Len(b) + 1 /\ r[Len(b) + 1] = t
      /\ \A a \in 1 .. Len(b) : r[a] = b[a]
  BY <1>2 DEF BatchTo
<1> HIDE DEF r
<1>4. \A a \in 1 .. Len(r) : a \in 1 .. Len(b) \/ a = Len(b) + 1
  BY <1>3
<1>5. ASSUME NEW a \in 1 .. Len(r)
      PROVE  r[a].seq \in live /\ r[a].seq < k + 1 /\ r[a].hist = sequence[r[a].seq]
  <2>1. CASE a \in 1 .. Len(b)
    <3>1. b[a].seq \in live /\ b[a].seq < k /\ b[a].hist = sequence[b[a].seq]
      BY <2>1 DEF BatchTo
    <3>2. b[a].seq < k + 1
      <4>1. b[a].seq \in Nat
        BY <1>1, <3>1
      <4> QED
        BY <1>1, <3>1, <4>1
    <3> QED
      BY <1>3, <2>1, <3>1, <3>2
  <2>2. CASE a = Len(b) + 1
    BY <1>1, <1>2, <1>3, <2>2
  <2> QED
    BY <1>4, <2>1, <2>2
<1>6. ASSUME NEW j \in live, j < k + 1 PROVE \E a \in 1 .. Len(r) : r[a].seq = j
  <2>1. CASE j < k
    <3>1. PICK a \in 1 .. Len(b) : b[a].seq = j
      BY <2>1 DEF BatchTo
    <3>2. a \in 1 .. Len(r) /\ r[a].seq = j
      BY <1>3, <3>1
    <3> QED
      BY <3>2
  <2>2. CASE j = k
    <3>1. Len(b) + 1 \in 1 .. Len(r)
      BY <1>3
    <3> QED
      BY <1>2, <1>3, <2>2, <3>1
  <2>3. j < k \/ j = k
    BY <1>1, <1>6
  <2> QED
    BY <2>1, <2>2, <2>3
<1>7. ASSUME NEW a \in 1 .. Len(r), NEW e \in 1 .. Len(r), r[a].seq = r[e].seq PROVE a = e
  <2>1. ASSUME NEW x \in 1 .. Len(b) PROVE r[x].seq = b[x].seq /\ b[x].seq # k
    <3>1. b[x].seq \in live /\ b[x].seq < k
      BY DEF BatchTo
    <3> QED
      BY <1>1, <1>3, <3>1
  <2>2. r[Len(b) + 1].seq = k
    BY <1>2, <1>3
  <2>3. CASE a \in 1 .. Len(b) /\ e \in 1 .. Len(b)
    BY <1>7, <2>1, <2>3 DEF BatchTo
  <2> QED
    BY <1>4, <1>7, <2>1, <2>2, <2>3
<1>8. AddToken(b, k) = r
  BY DEF AddToken, r, t
<1> QED
  BY <1>3, <1>5, <1>6, <1>7, <1>8 DEF BatchTo

LEMMA BatchFacts ==
  ASSUME Types
  PROVE  BatchTo(LiveBatch, NDec)
<1>1. PICK f : /\ f[0] = <<>> /\ LiveBatch = f[NDec]
               /\ \A k \in 1 .. NDec :
                    f[k] = IF k - 1 \in live THEN AddToken(f[k - 1], k - 1) ELSE f[k - 1]
  BY BatchSteps
<1>0. live \subseteq Decs /\ \A j \in live : j \in Nat
  BY DecsFacts DEF Types
<1> DEFINE Good == {k \in 0 .. NDec : BatchTo(f[k], k)}
<1>2. 0 \in Good
  <2>1. BatchTo(<<>>, 0)
    <3>1. \A j \in live : ~(j < 0)
      BY <1>0
    <3>2. <<>> \in Seq(BatchToken) /\ \A a \in 1 .. Len(<<>>) : FALSE
      OBVIOUS
    <3> QED
      BY <3>1, <3>2 DEF BatchTo
  <2> QED
    BY <1>1, <2>1, DecsFacts
<1>3. ASSUME NEW k \in 0 .. NDec - 1, k \in Good PROVE k + 1 \in Good
  <2>1. k + 1 \in 1 .. NDec /\ k + 1 \in 0 .. NDec /\ (k + 1) - 1 = k /\ k \in Nat
    BY DecsFacts
  <2>2. f[k + 1] = IF k \in live THEN AddToken(f[k], k) ELSE f[k]
    BY <1>1, <2>1
  <2>3. CASE k \in live
    <3>1. BatchTo(AddToken(f[k], k), k + 1)
      BY <1>3, <2>3, BatchOne
    <3> QED
      BY <2>1, <2>2, <2>3, <3>1
  <2>4. CASE k \notin live
    <3>1. \A j \in live : j < k + 1 <=> j < k
      BY <1>0, <2>1, <2>4
    <3>2. \A j \in live : j < k => j < k + 1
      BY <1>0, <2>1
    <3>3. BatchTo(f[k], k + 1)
      BY <1>3, <3>1, <3>2 DEF BatchTo
    <3> QED
      BY <2>1, <2>2, <2>4, <3>3
  <2> QED
    BY <2>3, <2>4
<1>4. NDec \in Good
  <2> HIDE DEF Good
  <2> QED
    BY <1>2, <1>3, UpTo, DecsFacts
<1> QED
  BY <1>1, <1>4

-----------------------------------------------------------------------------
(* A batch is put into a slot. *)

IsBatch(b) == b \in Seq(BatchToken) /\ \A a \in 1 .. Len(b) : b[a].hist # <<>>

(* There is room for the batch b at slot. *)
Fits(d, cs, b, slot) ==
  /\ slot \in Nat /\ slot + Len(b) <= SizeFor(d)
  /\ \A c \in slot .. slot + Len(b) - 1 : ~(cs[c].pos >= 0)

(* The cells new have the batch there. *)
InSlot(cs, b, slot, new) ==
  /\ \A c \in DOMAIN cs : c \notin slot .. slot + Len(b) - 1 => new[c] = cs[c]
  /\ \A a \in 1 .. Len(b) :
       /\ slot + a - 1 \in DOMAIN cs /\ cs[slot + a - 1].seq_id = {}
       /\ new[slot + a - 1].pos = Len(b[a].hist) - 1
       /\ new[slot + a - 1].seq_id = {b[a].seq}
       /\ new[slot + a - 1].tok = b[a].hist[Len(b[a].hist)]

LEMMA FilledFacts ==
  ASSUME NEW d \in 1 .. NDec, NEW cs \in CellsOf(d, Decs), Tidy(cs), NEW b, IsBatch(b),
         NEW slot, Fits(d, cs, b, slot)
  PROVE  /\ Filled(cs, slot, b) \in CellsOf(d, Decs) /\ Tidy(Filled(cs, slot, b))
         /\ InSlot(cs, b, slot, Filled(cs, slot, b))
<1> USE DEF Fits
<1> DEFINE r == Filled(cs, slot, b)
<1>0. /\ Len(b) \in Nat /\ SizeFor(d) \in Nat
      /\ DOMAIN cs = 0 .. SizeFor(d) - 1 /\ DOMAIN r = 0 .. SizeFor(d) - 1
  BY SizeFacts DEF CellsOf, Filled, IsBatch
<1>1. ASSUME NEW a \in 1 .. Len(b)
      PROVE  /\ slot + a - 1 \in DOMAIN cs /\ cs[slot + a - 1].seq_id = {}
             /\ r[slot + a - 1] \in Cell(Decs)
             /\ r[slot + a - 1].pos = Len(b[a].hist) - 1 /\ r[slot + a - 1].pos \in Nat
             /\ r[slot + a - 1].seq_id = {b[a].seq}
             /\ r[slot + a - 1].tok = b[a].hist[Len(b[a].hist)]
  <2> DEFINE c == slot + a - 1
  <2>1. c \in DOMAIN cs /\ c \in slot .. slot + Len(b) - 1 /\ c - slot + 1 = a
    BY <1>0
  <2>2. cs[c].seq_id = {}
    BY <2>1 DEF Tidy
  <2>3. b[a].hist \in Seq(Tokens) /\ b[a].hist # <<>> /\ b[a].seq \in Decs
    <3>1. b[a] \in BatchToken /\ b[a].hist # <<>>
      BY DEF IsBatch
    <3> QED
      BY <3>1 DEF BatchToken
  <2>4. Len(b[a].hist) \in Nat \ {0} /\ b[a].hist[Len(b[a].hist)] \in Tokens
    BY <2>3
  <2>5. r[c] = [pos |-> Len(b[a].hist) - 1, seq_id |-> {b[a].seq}, tok |-> b[a].hist[Len(b[a].hist)]]
    BY <2>1 DEF Filled, Last
  <2> HIDE DEF c, r
  <2>6. r[c] \in Cell(Decs) /\ Len(b[a].hist) - 1 \in Nat
    BY <2>3, <2>4, <2>5 DEF Cell
  <2>7. /\ r[c].pos = Len(b[a].hist) - 1 /\ r[c].seq_id = {b[a].seq}
        /\ r[c].tok = b[a].hist[Len(b[a].hist)]
    BY <2>5
  <2> QED
    BY <2>1, <2>2, <2>6, <2>7 DEF c
<1>2. \A c \in DOMAIN cs : c \notin slot .. slot + Len(b) - 1 => r[c] = cs[c]
  BY DEF Filled
<1>3. r = [c \in 0 .. SizeFor(d) - 1 |-> r[c]]
  BY <1>0 DEF Filled
<1> HIDE DEF r
<1>4. ASSUME NEW c \in DOMAIN cs
      PROVE  r[c] \in Cell(Decs) /\ IF r[c].seq_id = {} THEN r[c] = FreeCell ELSE r[c].pos \in Nat
  <2>1. CASE c \in slot .. slot + Len(b) - 1
    <3>1. c - slot + 1 \in 1 .. Len(b) /\ slot + (c - slot + 1) - 1 = c
      BY <1>0, <2>1
    <3>2. /\ r[c] \in Cell(Decs) /\ r[c].pos \in Nat
          /\ r[c].seq_id = {b[c - slot + 1].seq}
      BY <1>1, <3>1
    <3> QED
      BY <3>2
  <2>2. CASE c \notin slot .. slot + Len(b) - 1
    <3>1. cs[c] \in Cell(Decs)
      BY DEF CellsOf
    <3> QED
      BY <1>2, <2>2, <3>1 DEF Tidy
  <2> QED
    BY <2>1, <2>2
<1>5. r \in CellsOf(d, Decs)
  BY <1>0, <1>3, <1>4 DEF CellsOf
<1>6. Tidy(r)
  BY <1>0, <1>4 DEF Tidy
<1> QED
  BY <1>1, <1>2, <1>5, <1>6 DEF r, InSlot

(* A set of numbers up to N has a greatest one. *)
LEMMA GreatestIs ==
  ASSUME NEW N \in Nat, NEW S, S \subseteq 1 .. N, S # {}
  PROVE  Max(S) \in S /\ \A y \in S : y <= Max(S)
<1> DEFINE below == {N - y : y \in S}
<1>1. below \subseteq Nat /\ below # {}
  <2>1. ASSUME NEW y \in S PROVE N - y \in Nat
    OBVIOUS
  <2>2. PICK y \in S : TRUE
    OBVIOUS
  <2>3. N - y \in below
    OBVIOUS
  <2> QED
    BY <2>1, <2>3
<1>2. PICK x \in below : \A y \in below : x <= y
  <2> HIDE DEF below
  <2> QED
    BY <1>1, Smallest
<1>3. PICK z \in S : x = N - z
  BY <1>2
<1>4. ASSUME NEW y \in S PROVE z >= y
  <2>1. N - y \in below
    OBVIOUS
  <2>2. N - z <= N - y
    BY <1>2, <1>3, <2>1
  <2>3. z \in 1 .. N /\ y \in 1 .. N
    OBVIOUS
  <2> HIDE DEF below
  <2> QED
    BY <2>2, <2>3
<1>5. Max(S) \in S /\ \A y \in S : Max(S) >= y
  BY <1>4 DEF Max
<1>6. ASSUME NEW y \in S PROVE y <= Max(S)
  <2>1. y \in 1 .. N /\ Max(S) \in 1 .. N /\ Max(S) >= y
    BY <1>5
  <2> HIDE DEF below
  <2> QED
    BY <2>1
<1> QED
  BY <1>5, <1>6

LEMMA CellMaxFacts ==
  ASSUME NEW d \in 1 .. NDec, NEW cs \in CellsOf(d, Decs), Tidy(cs), SizeFor(d) >= 1
  PROVE  /\ CellMax(cs) \in 1 .. SizeFor(d)
         /\ \A c \in DOMAIN cs : cs[c].seq_id # {} => c < CellMax(cs)
<1> DEFINE S == {1} \cup {c + 1 : c \in InUse(cs)}
<1>0. SizeFor(d) \in Nat /\ DOMAIN cs = 0 .. SizeFor(d) - 1
  BY SizeFacts DEF CellsOf
<1>1. S \subseteq 1 .. SizeFor(d) /\ S # {}
  <2>1. ASSUME NEW c \in InUse(cs) PROVE c + 1 \in 1 .. SizeFor(d)
    BY <1>0 DEF InUse
  <2> QED
    BY <1>0, <2>1
<1>2. Max(S) \in S /\ \A y \in S : y <= Max(S)
  <2> HIDE DEF S
  <2> QED
    BY <1>0, <1>1, GreatestIs
<1>3. ASSUME NEW c \in DOMAIN cs, cs[c].seq_id # {} PROVE c < Max(S)
  <2>1. c \in InUse(cs)
    BY <1>3 DEF Tidy, InUse
  <2>2. c + 1 \in S
    BY <2>1
  <2>3. c \in Int /\ Max(S) \in Int
    BY <1>0, <1>1, <1>2
  <2> HIDE DEF S
  <2> QED
    BY <1>2, <2>2, <2>3
<1>4. CellMax(cs) = Max(S)
  BY DEF CellMax
<1> HIDE DEF S
<1> QED
  BY <1>1, <1>2, <1>3, <1>4

(* The cells A of sequence j up to position k - 1, where g is as much of the *)
(* history h that the sequence holds.                                       *)
UpToToken(cs, width, j, h, m, g, k, A) ==
  /\ width \in Nat /\ 0 .. width - 1 \subseteq DOMAIN cs
  /\ \A c \in DOMAIN cs : cs[c].seq_id # {} => c \in 0 .. width - 1
  /\ m \in Nat /\ Holds(cs, j, h, m)
  /\ k \in 0 .. m /\ \A q \in 1 .. k : g[q] = h[q]
  /\ A = {c \in 0 .. width - 1 : j \in cs[c].seq_id /\ cs[c].pos <= k - 1}

LEMMA AttendsPrefix ==
  ASSUME NEW cs, NEW width, NEW j, NEW h, NEW m, NEW g, NEW k, NEW A,
         UpToToken(cs, width, j, h, m, g, k, A)
  PROVE  Cardinality(A) = k /\ \A c \in A : g[cs[c].pos + 1] = cs[c].tok
<1> USE DEF UpToToken
<1>1. ASSUME NEW c \in A
      PROVE  /\ c \in DOMAIN cs /\ cs[c].pos \in 0 .. k - 1
             /\ j \in cs[c].seq_id /\ cs[c].tok = h[cs[c].pos + 1]
  <2>1. c \in DOMAIN cs /\ j \in cs[c].seq_id /\ cs[c].pos <= k - 1
    OBVIOUS
  <2>2. cs[c].pos \in 0 .. m - 1 /\ cs[c].tok = h[cs[c].pos + 1]
    BY <2>1 DEF Holds
  <2> QED
    BY <2>1, <2>2
<1>2. ASSUME NEW q \in 0 .. k - 1 PROVE \E c \in A : cs[c].pos = q
  <2>1. q \in 0 .. m - 1 /\ q <= k - 1
    OBVIOUS
  <2>2. PICK c \in DOMAIN cs : j \in cs[c].seq_id /\ cs[c].pos = q
    BY <2>1 DEF Holds
  <2>3. c \in 0 .. width - 1
    BY <2>2
  <2> QED
    BY <2>1, <2>2, <2>3
<1>3. ASSUME NEW c \in A, NEW e \in A, cs[c].pos = cs[e].pos PROVE c = e
  BY <1>1, <1>3 DEF Holds
<1> DEFINE F == [q \in 0 .. k - 1 |-> CHOOSE c \in A : cs[c].pos = q]
<1>4. F \in [0 .. k - 1 -> A] /\ \A q \in 0 .. k - 1 : cs[F[q]].pos = q
  BY <1>2
<1>5. ASSUME NEW c \in A PROVE \E q \in 0 .. k - 1 : F[q] = c
  <2>1. cs[c].pos \in 0 .. k - 1
    BY <1>1
  <2>2. F[cs[c].pos] \in A /\ cs[F[cs[c].pos]].pos = cs[c].pos
    BY <1>4, <2>1
  <2> HIDE DEF F
  <2>3. F[cs[c].pos] = c
    BY <1>3, <2>2
  <2> QED
    BY <2>1, <2>3
<1>6. ExistsBijection(0 .. k - 1, A)
  <2> HIDE DEF F
  <2>1. F \in Injection(0 .. k - 1, A)
    BY <1>4 DEF Injection, IsInjective
  <2>2. F \in Surjection(0 .. k - 1, A)
    BY <1>4, <1>5 DEF Surjection
  <2> QED
    BY <2>1, <2>2 DEF ExistsBijection, Bijection
<1>7. IsFiniteSet(0 .. k - 1) /\ Cardinality(0 .. k - 1) = k
  <2>1. 0 \in Int /\ k - 1 \in Int
    OBVIOUS
  <2>2. IsFiniteSet(0 .. k - 1) /\ Cardinality(0 .. k - 1) = IF 0 > k - 1 THEN 0 ELSE (k - 1) - 0 + 1
    BY <2>1, FS_Interval
  <2> QED
    BY <2>2
<1>8. Cardinality(A) = k
  BY <1>6, <1>7, FS_Bijection
<1>9. ASSUME NEW c \in A PROVE g[cs[c].pos + 1] = cs[c].tok
  <2>1. cs[c].pos + 1 \in 1 .. k
    BY <1>1
  <2> QED
    BY <1>1, <2>1
<1> QED
  BY <1>8, <1>9

(* What whisper_decode_internal has done when it found a slot. *)
Placed(cs, b, heirs, slot) ==
  /\ Fits(n_dec', cs, b, slot)
  /\ cells' = SeqCp(Filled(cs, slot, b), 0, heirs)
  /\ n' = CellMax(Filled(cs, slot, b)) /\ batch' = b

LEMMA DecodeFacts ==
  ASSUME n_dec' \in 1 .. NDec, NEW cs \in CellsOf(n_dec', Decs), Tidy(cs),
         NEW h \in 0 .. SizeFor(n_dec'), NEW b, IsBatch(b), NEW heirs \in SUBSET Decs,
         NEW success \in BOOLEAN, Decode(cs, h, b, heirs, success)
  PROVE  /\ cells' \in CellsOf(n_dec', Decs) /\ Tidy(cells')
         /\ head' \in 0 .. SizeFor(n_dec')
         /\ \/ ~success /\ batch' = <<>>
            \/ \E slot : Placed(cs, b, heirs, slot)
<1> DEFINE slot == SlotFor(cs, h, Len(b), n_dec')
           new == Filled(cs, slot, b)
<1>0. Len(b) \in Nat /\ SizeFor(n_dec') \in Nat /\ DOMAIN cs = 0 .. SizeFor(n_dec') - 1
  BY SizeFacts DEF IsBatch, CellsOf
<1>1. SearchExact(SizeFor(n_dec'), InUse(cs), h, Len(b))
  BY <1>0, SearchIsExact
<1>2. CASE slot # NoSlot
  <2>1. slot \in 0 .. SizeFor(n_dec') /\ IsSlot(SizeFor(n_dec'), InUse(cs), slot, Len(b))
    BY <1>1, <1>2 DEF SearchExact, SlotFor
  <2>2. /\ cells' = SeqCp(new, 0, heirs) /\ head' = (IF heirs = {} THEN slot ELSE 0)
        /\ n' = CellMax(new) /\ batch' = b
    BY <1>2 DEF Decode
  <2> HIDE DEF slot
  <2>3. slot \in Nat /\ slot + Len(b) <= SizeFor(n_dec')
    BY <1>0, <2>1 DEF IsSlot
  <2>4. ASSUME NEW c \in slot .. slot + Len(b) - 1 PROVE ~(cs[c].pos >= 0)
    <3>1. c \in DOMAIN cs
      BY <1>0, <2>3
    <3>2. c \notin InUse(cs)
      BY <2>1 DEF IsSlot, Slot
    <3> QED
      BY <3>1, <3>2 DEF InUse
  <2>5. Placed(cs, b, heirs, slot)
    BY <2>2, <2>3, <2>4 DEF Placed, Fits
  <2>6. new \in CellsOf(n_dec', Decs) /\ Tidy(new)
    BY <2>5, FilledFacts DEF Placed
  <2>7. cells' \in CellsOf(n_dec', Decs) /\ Tidy(cells')
    <3> HIDE DEF new
    <3> QED
      BY <2>2, <2>6, SeqCpFacts
  <2>8. head' \in 0 .. SizeFor(n_dec')
    BY <1>0, <2>1, <2>2
  <2> QED
    BY <2>5, <2>7, <2>8
<1>3. CASE slot = NoSlot
  <2>1. /\ ~success /\ cells' = cs /\ head' \in 0 .. SizeFor(n_dec') /\ batch' = <<>>
    BY <1>3 DEF Decode
  <2> QED
    BY <2>1
<1> QED
  BY <1>2, <1>3

(* The cells of new, those of sequence 0 shared with the heirs. *)
SharedWith(new, heirs, r) ==
  \A c \in DOMAIN new :
    /\ r[c].seq_id = IF 0 \in new[c].seq_id THEN new[c].seq_id \cup heirs ELSE new[c].seq_id
    /\ r[c].pos = new[c].pos /\ r[c].tok = new[c].tok

LEMMA PlacedFacts ==
  ASSUME n_dec' \in 1 .. NDec, NEW cs \in CellsOf(n_dec', Decs), Tidy(cs),
         NEW b, IsBatch(b), NEW heirs \in SUBSET Decs, NEW slot, Placed(cs, b, heirs, slot)
  PROVE  /\ Filled(cs, slot, b) \in CellsOf(n_dec', Decs) /\ Tidy(Filled(cs, slot, b))
         /\ cells' \in CellsOf(n_dec', Decs)
         /\ SharedWith(Filled(cs, slot, b), heirs, cells')
<1>1. PICK d, new, r : d = n_dec' /\ new = Filled(cs, slot, b) /\ r = cells'
  OBVIOUS
<1>2. new \in CellsOf(d, Decs) /\ Tidy(new)
  BY <1>1, FilledFacts DEF Placed
<1>3. r = SeqCp(new, 0, heirs)
  BY <1>1 DEF Placed
<1>4. /\ r \in CellsOf(d, Decs)
      /\ SharedWith(new, heirs, r)
  BY <1>2, <1>3, SeqCpFacts DEF SharedWith
<1> QED
  BY <1>1, <1>2, <1>4

(* Every token of the batch b is the last of what its sequence holds up to   *)
(* there.                                                                    *)
Continues(cs, b) ==
  \A a \in 1 .. Len(b) : \E h, m :
    /\ m \in Nat /\ Holds(cs, b[a].seq, h, m) /\ Len(b[a].hist) <= m
    /\ \A q \in 1 .. Len(b[a].hist) : b[a].hist[q] = h[q]

(* No sequence has a cell behind the last one in use. *)
LEMMA WidthFacts ==
  ASSUME n_dec' \in 1 .. NDec, NEW cs \in CellsOf(n_dec', Decs), Tidy(cs),
         NEW b, IsBatch(b), Len(b) >= 1, NEW heirs \in SUBSET Decs,
         NEW slot, Placed(cs, b, heirs, slot)
  PROVE  /\ n' \in Nat /\ 0 .. n' - 1 \subseteq DOMAIN cells'
         /\ \A c \in DOMAIN cells' : cells'[c].seq_id # {} => c \in 0 .. n' - 1
<1>1. PICK d, new, r, w : /\ d = n_dec' /\ new = Filled(cs, slot, b)
                          /\ r = cells' /\ w = n'
  OBVIOUS
<1>2. /\ new \in CellsOf(d, Decs) /\ Tidy(new) /\ r \in CellsOf(d, Decs)
      /\ SharedWith(new, heirs, r)
  BY <1>1, PlacedFacts
<1>3. d \in 1 .. NDec /\ SizeFor(d) \in Nat /\ SizeFor(d) >= 1
  BY <1>1, SizeFacts DEF Placed, IsBatch, Fits
<1>4. w = CellMax(new)
  BY <1>1 DEF Placed
<1>5. w \in 1 .. SizeFor(d) /\ \A c \in DOMAIN new : new[c].seq_id # {} => c < w
  BY <1>2, <1>3, <1>4, CellMaxFacts
<1>6. DOMAIN new = 0 .. SizeFor(d) - 1 /\ DOMAIN r = 0 .. SizeFor(d) - 1
  BY <1>2 DEF CellsOf
<1>7. w \in Nat /\ 0 .. w - 1 \subseteq DOMAIN r
  BY <1>3, <1>5, <1>6
<1>8. ASSUME NEW c \in DOMAIN r, r[c].seq_id # {} PROVE c \in 0 .. w - 1
  <2>1. c \in 0 .. SizeFor(d) - 1 /\ new[c].seq_id # {}
    BY <1>2, <1>6, <1>8 DEF SharedWith
  <2>2. c < w
    BY <1>5, <1>6, <2>1
  <2> QED
    BY <1>3, <1>7, <2>1, <2>2
<1> QED
  BY <1>1, <1>7, <1>8

(* Then every token of the batch attends to its own history. *)
LEMMA AttendsAll ==
  ASSUME n_dec' \in 1 .. NDec, NEW cs \in CellsOf(n_dec', Decs), Tidy(cs),
         NEW b, IsBatch(b), Len(b) >= 1, NEW heirs \in SUBSET Decs,
         NEW slot, Placed(cs, b, heirs, slot), Continues(cells', b)
  PROVE  AttendsOwnHistory'
<1>1. /\ n' \in Nat /\ 0 .. n' - 1 \subseteq DOMAIN cells'
      /\ \A c \in DOMAIN cells' : cells'[c].seq_id # {} => c \in 0 .. n' - 1
  BY WidthFacts
<1>2. batch' = b
  BY DEF Placed
<1>3. ASSUME NEW t \in Range(batch')
      PROVE  /\ Cardinality(Attended(t)') = Len(t.hist)
             /\ \A c \in Attended(t)' : t.hist[cells'[c].pos + 1] = cells'[c].tok
  <2>1. PICK a \in 1 .. Len(b) : t = b[a]
    BY <1>2 DEF Range, IsBatch
  <2>2. t.hist \in Seq(Tokens) /\ Len(t.hist) \in Nat
    <3>1. b[a] \in BatchToken
      BY DEF IsBatch
    <3> QED
      BY <2>1, <3>1 DEF BatchToken
  <2>3. PICK h, m : /\ m \in Nat /\ Holds(cells', t.seq, h, m) /\ Len(t.hist) <= m
                    /\ \A q \in 1 .. Len(t.hist) : t.hist[q] = h[q]
    BY <2>1 DEF Continues
  <2>4. Len(t.hist) \in 0 .. m
    BY <2>2, <2>3
  <2>5. Attended(t)' = {c \in 0 .. n' - 1 : t.seq \in cells'[c].seq_id /\ cells'[c].pos <= Len(t.hist) - 1}
    BY DEF Attended
  <2>6. PICK w, cs1, A, j, g, k :
          w = n' /\ cs1 = cells' /\ A = Attended(t)' /\ j = t.seq /\ g = t.hist /\ k = Len(t.hist)
    OBVIOUS
  <2>7. UpToToken(cs1, w, j, h, m, g, k, A)
    BY <1>1, <2>3, <2>4, <2>5, <2>6 DEF UpToToken
  <2>8. Cardinality(A) = k /\ \A c \in A : g[cs1[c].pos + 1] = cs1[c].tok
    BY <2>7, AttendsPrefix
  <2> QED
    BY <2>6, <2>8
<1> QED
  BY <1>3 DEF AttendsOwnHistory

-----------------------------------------------------------------------------
(* The prompt. *)

LEMMA PromptFacts ==
  ASSUME NEW p \in Nat \ {0}
  PROVE  /\ IsBatch(PromptBatch(p)) /\ Len(PromptBatch(p)) = p
         /\ Prompt(p) \in Seq(Tokens) /\ Len(Prompt(p)) = p
         /\ \A a \in 1 .. p :
              /\ PromptBatch(p)[a].seq = 0 /\ Len(PromptBatch(p)[a].hist) = a
              /\ \A q \in 1 .. a : PromptBatch(p)[a].hist[q] = Prompt(p)[q]
<1>1. Prompt(p) \in Seq(Tokens) /\ Len(Prompt(p)) = p
  <2>1. Prompt(p) \in [1 .. p -> Tokens]
    BY DEF Prompt, Tokens
  <2> QED
    BY <2>1
<1>2. ASSUME NEW a \in 1 .. p
      PROVE  /\ SubSeq(Prompt(p), 1, a) \in Seq(Tokens) /\ Len(SubSeq(Prompt(p), 1, a)) = a
             /\ \A q \in 1 .. a : SubSeq(Prompt(p), 1, a)[q] = Prompt(p)[q]
  <2> DEFINE s == Prompt(p)
  <2>1. s \in Seq(Tokens) /\ 1 \in 1 .. Len(s) + 1 /\ a \in 0 .. Len(s)
    BY <1>1
  <2> HIDE DEF s
  <2>2. /\ SubSeq(s, 1, a) \in Seq(Tokens) /\ Len(SubSeq(s, 1, a)) = a
        /\ \A q \in 1 .. a : SubSeq(s, 1, a)[q] = s[q]
    BY <2>1
  <2> QED
    BY <2>2 DEF s
<1>3. DOMAIN PromptBatch(p) = 1 .. p
      /\ \A a \in 1 .. p : PromptBatch(p)[a] = [hist |-> SubSeq(Prompt(p), 1, a), seq |-> 0]
  BY DEF PromptBatch
<1>4. 0 \in Decs
  BY KVAssumption DEF Decs
<1>5. ASSUME NEW a \in 1 .. p
      PROVE  /\ PromptBatch(p)[a] \in BatchToken /\ PromptBatch(p)[a].hist # <<>>
             /\ PromptBatch(p)[a].seq = 0 /\ Len(PromptBatch(p)[a].hist) = a
             /\ \A q \in 1 .. a : PromptBatch(p)[a].hist[q] = Prompt(p)[q]
  <2>1. PromptBatch(p)[a].hist = SubSeq(Prompt(p), 1, a) /\ PromptBatch(p)[a].seq = 0
    BY <1>3
  <2>2. PromptBatch(p)[a] \in BatchToken
    <3>1. PromptBatch(p)[a] = [hist |-> SubSeq(Prompt(p), 1, a), seq |-> 0]
      BY <1>3
    <3>2. SubSeq(Prompt(p), 1, a) \in Seq(Tokens)
      BY <1>2
    <3> QED
      BY <1>4, <3>1, <3>2 DEF BatchToken
  <2>3. PromptBatch(p)[a].hist # <<>>
    <3>1. Len(PromptBatch(p)[a].hist) # 0
      BY <1>2, <2>1
    <3> QED
      BY <3>1
  <2> QED
    BY <1>2, <2>1, <2>2, <2>3
<1>6. PromptBatch(p) \in Seq(BatchToken) /\ Len(PromptBatch(p)) = p
  <2>1. PromptBatch(p) = [a \in 1 .. p |-> PromptBatch(p)[a]]
    BY DEF PromptBatch
  <2>2. PromptBatch(p) \in [1 .. p -> BatchToken]
    BY <1>5, <2>1
  <2> QED
    BY <2>2
<1> QED
  BY <1>1, <1>5, <1>6 DEF IsBatch

-----------------------------------------------------------------------------
(* The cells after a batch. *)
GrownTo(d, cs, b, heirs, slot, r) ==
  /\ DOMAIN cs = 0 .. SizeFor(d) - 1 /\ DOMAIN r = DOMAIN cs
  /\ \A c \in DOMAIN cs : c \notin slot .. slot + Len(b) - 1 =>
       /\ r[c].seq_id = IF 0 \in cs[c].seq_id THEN cs[c].seq_id \cup heirs ELSE cs[c].seq_id
       /\ r[c].pos = cs[c].pos /\ r[c].tok = cs[c].tok
  /\ \A a \in 1 .. Len(b) :
       /\ slot + a - 1 \in DOMAIN cs /\ cs[slot + a - 1].seq_id = {}
       /\ r[slot + a - 1].seq_id = IF b[a].seq = 0 THEN {0} \cup heirs ELSE {b[a].seq}
       /\ r[slot + a - 1].pos = Len(b[a].hist) - 1
       /\ r[slot + a - 1].tok = b[a].hist[Len(b[a].hist)]

LEMMA GrownFacts ==
  ASSUME n_dec' \in 1 .. NDec, NEW cs \in CellsOf(n_dec', Decs), Tidy(cs),
         NEW b, IsBatch(b), NEW heirs \in SUBSET Decs,
         NEW slot, Placed(cs, b, heirs, slot)
  PROVE  GrownTo(n_dec', cs, b, heirs, slot, cells')
<1>1. PICK d, new, r : d = n_dec' /\ new = Filled(cs, slot, b) /\ r = cells'
  OBVIOUS
<1>2. /\ new \in CellsOf(d, Decs) /\ r \in CellsOf(d, Decs) /\ SharedWith(new, heirs, r)
  BY <1>1, PlacedFacts
<1>3. InSlot(cs, b, slot, new)
  <2>1. d \in 1 .. NDec /\ cs \in CellsOf(d, Decs) /\ Fits(d, cs, b, slot)
    BY <1>1 DEF Placed
  <2> QED
    BY <1>1, <2>1, FilledFacts
<1>4. /\ DOMAIN cs = 0 .. SizeFor(d) - 1 /\ DOMAIN new = DOMAIN cs /\ DOMAIN r = DOMAIN cs
  BY <1>1, <1>2 DEF CellsOf
<1>5. ASSUME NEW c \in DOMAIN cs, c \notin slot .. slot + Len(b) - 1
      PROVE  /\ r[c].seq_id = IF 0 \in cs[c].seq_id THEN cs[c].seq_id \cup heirs ELSE cs[c].seq_id
             /\ r[c].pos = cs[c].pos /\ r[c].tok = cs[c].tok
  <2>1. new[c] = cs[c]
    BY <1>3, <1>5 DEF InSlot
  <2> QED
    BY <1>2, <1>4, <2>1 DEF SharedWith
<1>6. ASSUME NEW a \in 1 .. Len(b)
      PROVE  /\ slot + a - 1 \in DOMAIN cs /\ cs[slot + a - 1].seq_id = {}
             /\ r[slot + a - 1].seq_id = IF b[a].seq = 0 THEN {0} \cup heirs ELSE {b[a].seq}
             /\ r[slot + a - 1].pos = Len(b[a].hist) - 1
             /\ r[slot + a - 1].tok = b[a].hist[Len(b[a].hist)]
  <2>1. PICK c : c = slot + a - 1
    OBVIOUS
  <2>2. /\ c \in DOMAIN cs /\ cs[c].seq_id = {} /\ new[c].pos = Len(b[a].hist) - 1
        /\ new[c].seq_id = {b[a].seq} /\ new[c].tok = b[a].hist[Len(b[a].hist)]
    BY <1>3, <2>1 DEF InSlot
  <2>3. 0 \in new[c].seq_id <=> b[a].seq = 0
    BY <2>2
  <2>4. r[c].seq_id = IF b[a].seq = 0 THEN {0} \cup heirs ELSE {b[a].seq}
    <3>1. r[c].seq_id = IF 0 \in new[c].seq_id THEN new[c].seq_id \cup heirs ELSE new[c].seq_id
      BY <1>2, <1>4, <2>2 DEF SharedWith
    <3> QED
      BY <2>2, <2>3, <3>1
  <2>5. r[c].pos = new[c].pos /\ r[c].tok = new[c].tok
    BY <1>2, <1>4, <2>2 DEF SharedWith
  <2> QED
    BY <2>1, <2>2, <2>4, <2>5
<1>7. GrownTo(d, cs, b, heirs, slot, r)
  BY <1>4, <1>5, <1>6 DEF GrownTo
<1> QED
  BY <1>1, <1>7

(* The prompt is the history of sequence 0 and of every heir. *)
LEMMA PromptHeld ==
  ASSUME NEW d \in 1 .. NDec, NEW cs, NEW p \in Nat \ {0}, NEW heirs, NEW slot \in Nat, NEW r,
         GrownTo(d, cs, PromptBatch(p), heirs, slot, r), NEW j \in {0} \cup heirs,
         \A c \in DOMAIN cs : 0 \notin cs[c].seq_id /\ j \notin cs[c].seq_id
  PROVE  Holds(r, j, Prompt(p), p)
<1> DEFINE b == PromptBatch(p)
<1>1. /\ Len(b) = p
      /\ \A a \in 1 .. p : /\ b[a].seq = 0 /\ Len(b[a].hist) = a
                           /\ b[a].hist[a] = Prompt(p)[a]
  BY PromptFacts
<1>2. ASSUME NEW a \in 1 .. p
      PROVE  /\ slot + a - 1 \in DOMAIN r /\ j \in r[slot + a - 1].seq_id
             /\ r[slot + a - 1].pos = a - 1 /\ r[slot + a - 1].tok = Prompt(p)[a]
  <2>1. /\ slot + a - 1 \in DOMAIN cs /\ DOMAIN r = DOMAIN cs
        /\ r[slot + a - 1].seq_id = IF b[a].seq = 0 THEN {0} \cup heirs ELSE {b[a].seq}
        /\ r[slot + a - 1].pos = Len(b[a].hist) - 1
        /\ r[slot + a - 1].tok = b[a].hist[Len(b[a].hist)]
    BY <1>1 DEF GrownTo
  <2> HIDE DEF b
  <2> QED
    BY <1>1, <2>1
<1>3. ASSUME NEW c \in DOMAIN r, j \in r[c].seq_id
      PROVE  \E a \in 1 .. p : c = slot + a - 1
  <2>1. c \in DOMAIN cs /\ c \in Int
    BY DEF GrownTo
  <2>2. ~(c \notin slot .. slot + Len(b) - 1)
    <3>1. SUFFICES ASSUME c \notin slot .. slot + Len(b) - 1 PROVE FALSE
      OBVIOUS
    <3>2. r[c].seq_id = IF 0 \in cs[c].seq_id THEN cs[c].seq_id \cup heirs ELSE cs[c].seq_id
      BY <2>1, <3>1 DEF GrownTo
    <3> QED
      BY <1>3, <2>1, <3>2
  <2>3. c \in slot .. slot + p - 1
    BY <1>1, <2>2
  <2>4. c - slot + 1 \in 1 .. p /\ c = slot + (c - slot + 1) - 1
    BY <2>1, <2>3
  <2> QED
    BY <2>4
<1> HIDE DEF b
<1>4. ASSUME NEW c \in DOMAIN r, j \in r[c].seq_id
      PROVE  r[c].pos \in 0 .. p - 1 /\ r[c].tok = Prompt(p)[r[c].pos + 1]
  <2>1. PICK a \in 1 .. p : c = slot + a - 1
    BY <1>3, <1>4
  <2>2. r[c].pos = a - 1 /\ r[c].tok = Prompt(p)[a] /\ a - 1 \in 0 .. p - 1 /\ a = (a - 1) + 1
    BY <1>2, <2>1
  <2> QED
    BY <2>2
<1>5. ASSUME NEW q \in 0 .. p - 1 PROVE \E c \in DOMAIN r : j \in r[c].seq_id /\ r[c].pos = q
  <2>1. PICK a \in 1 .. p : a = q + 1
    OBVIOUS
  <2>2. a - 1 = q
    BY <2>1
  <2> QED
    BY <1>2, <2>2
<1>6. ASSUME NEW c \in DOMAIN r, NEW e \in DOMAIN r, j \in r[c].seq_id, j \in r[e].seq_id,
             r[c].pos = r[e].pos
      PROVE  c = e
  <2>1. PICK a \in 1 .. p : c = slot + a - 1
    BY <1>3, <1>6
  <2>2. PICK x \in 1 .. p : e = slot + x - 1
    BY <1>3, <1>6
  <2>3. a - 1 = x - 1
    BY <1>2, <1>6, <2>1, <2>2
  <2> QED
    BY <2>1, <2>2, <2>3
<1> QED
  BY <1>4, <1>5, <1>6 DEF Holds

(* A token of a live decoder becomes the last of its history. *)
LEMMA TokenAdded ==
  ASSUME Types, NEW d \in 1 .. NDec, NEW b, BatchTo(b, NDec), NEW slot \in Nat, NEW r,
         GrownTo(d, cells, b, {}, slot, r), NEW j \in live, sequence[j] # <<>>,
         Holds(cells, j, sequence[j], Len(sequence[j]) - 1)
  PROVE  Holds(r, j, sequence[j], Len(sequence[j]))
<1> DEFINE L == Len(sequence[j])
           s == sequence[j]
<1>0. s \in Seq(Tokens) /\ L \in Nat \ {0} /\ j < NDec
  <2>1. j \in Decs
    BY DEF Types
  <2>2. j < NDec
    BY <2>1, DecsFacts DEF Decs
  <2>3. s \in Seq(Tokens) /\ s # <<>>
    BY <2>1 DEF Types
  <2> HIDE DEF s
  <2>4. Len(s) \in Nat \ {0}
    BY <2>3
  <2> QED
    BY <2>2, <2>3, <2>4 DEF s
<1>1. PICK at \in 1 .. Len(b) : b[at].seq = j
  BY <1>0 DEF BatchTo
<1>2. /\ b[at].hist = s /\ Len(b) \in Nat
      /\ \A a \in 1 .. Len(b) : b[a].seq = j => a = at
  BY <1>1 DEF BatchTo
<1>3. PICK new : new = slot + at - 1
  OBVIOUS
<1>4. /\ DOMAIN r = DOMAIN cells /\ new \in DOMAIN cells /\ cells[new].seq_id = {}
      /\ r[new].seq_id = {j} /\ r[new].pos = L - 1 /\ r[new].tok = s[L]
  <2>1. /\ DOMAIN r = DOMAIN cells /\ new \in DOMAIN cells /\ cells[new].seq_id = {}
        /\ r[new].seq_id = IF b[at].seq = 0 THEN {0} \cup {} ELSE {b[at].seq}
        /\ r[new].pos = Len(b[at].hist) - 1 /\ r[new].tok = b[at].hist[Len(b[at].hist)]
    BY <1>1, <1>3 DEF GrownTo
  <2> QED
    BY <1>1, <1>2, <2>1
<1>5. ASSUME NEW c \in DOMAIN r, c # new
      PROVE  /\ j \in r[c].seq_id <=> j \in cells[c].seq_id
             /\ j \in r[c].seq_id => r[c].pos = cells[c].pos /\ r[c].tok = cells[c].tok
  <2>1. CASE c \notin slot .. slot + Len(b) - 1
    BY <1>4, <2>1 DEF GrownTo
  <2>2. CASE c \in slot .. slot + Len(b) - 1
    <3>1. PICK a \in 1 .. Len(b) : c = slot + a - 1
      <4>1. c - slot + 1 \in 1 .. Len(b) /\ c = slot + (c - slot + 1) - 1
        BY <1>2, <2>2
      <4> QED
        BY <4>1
    <3>2. b[a].seq # j
      BY <1>2, <1>3, <1>5, <3>1
    <3>3. /\ cells[c].seq_id = {}
          /\ r[c].seq_id = IF b[a].seq = 0 THEN {0} \cup {} ELSE {b[a].seq}
      BY <3>1 DEF GrownTo
    <3>4. j \notin r[c].seq_id /\ j \notin cells[c].seq_id
      BY <3>2, <3>3
    <3> QED
      BY <3>4
  <2> QED
    BY <2>1, <2>2
<1> HIDE DEF L, s
<1>6. Holds(cells, j, s, L - 1)
  BY DEF L, s
<1>7. ASSUME NEW c \in DOMAIN r, j \in r[c].seq_id
      PROVE  r[c].pos \in 0 .. L - 1 /\ r[c].tok = s[r[c].pos + 1]
  <2>1. CASE c = new
    BY <1>0, <1>4, <2>1
  <2>2. CASE c # new
    <3>1. j \in cells[c].seq_id /\ r[c].pos = cells[c].pos /\ r[c].tok = cells[c].tok
      BY <1>5, <1>7, <2>2
    <3>2. cells[c].pos \in 0 .. (L - 1) - 1 /\ cells[c].tok = s[cells[c].pos + 1]
      BY <1>4, <1>6, <3>1 DEF Holds
    <3>3. cells[c].pos \in 0 .. L - 1
      BY <1>0, <3>2
    <3> QED
      BY <3>1, <3>2, <3>3
  <2> QED
    BY <2>1, <2>2
<1>8. ASSUME NEW q \in 0 .. L - 1 PROVE \E c \in DOMAIN r : j \in r[c].seq_id /\ r[c].pos = q
  <2>1. CASE q = L - 1
    BY <1>4, <2>1
  <2>2. CASE q # L - 1
    <3>1. q \in 0 .. (L - 1) - 1
      BY <1>0, <2>2
    <3>2. PICK c \in DOMAIN cells : j \in cells[c].seq_id /\ cells[c].pos = q
      BY <1>6, <3>1 DEF Holds
    <3>3. c # new
      BY <1>4, <3>2
    <3> QED
      BY <1>4, <1>5, <3>2, <3>3
  <2> QED
    BY <2>1, <2>2
<1>9. ASSUME NEW c \in DOMAIN r, NEW e \in DOMAIN r, j \in r[c].seq_id, j \in r[e].seq_id,
             r[c].pos = r[e].pos
      PROVE  c = e
  <2>1. ASSUME NEW x \in DOMAIN r, j \in r[x].seq_id, x # new
        PROVE  j \in cells[x].seq_id /\ cells[x].pos = r[x].pos /\ r[x].pos # L - 1
    <3>1. j \in cells[x].seq_id /\ r[x].pos = cells[x].pos
      BY <1>5, <2>1
    <3>2. cells[x].pos \in 0 .. (L - 1) - 1
      BY <1>4, <1>6, <3>1 DEF Holds
    <3>3. cells[x].pos # L - 1
      BY <1>0, <3>2
    <3> QED
      BY <3>1, <3>3
  <2>2. CASE c = new \/ e = new
    BY <1>4, <1>9, <2>1, <2>2
  <2>3. CASE c # new /\ e # new
    BY <1>4, <1>6, <1>9, <2>1, <2>3 DEF Holds
  <2> QED
    BY <2>2, <2>3
<1> QED
  BY <1>7, <1>8, <1>9 DEF Holds, L, s

-----------------------------------------------------------------------------
(* Wherever the batch is put, its tokens continue their sequences. *)
Continuing(d, cs, b, heirs) ==
  \A slot \in Nat : \A r : GrownTo(d, cs, b, heirs, slot, r) => Continues(r, b)

(* A decoded batch keeps the cells in order and attends as it should, found *)
(* a slot or not.                                                           *)
LEMMA DecodeKeeps ==
  ASSUME n_dec' \in 1 .. NDec, NEW cs \in CellsOf(n_dec', Decs), Tidy(cs),
         NEW h \in 0 .. SizeFor(n_dec'), NEW b, IsBatch(b), Len(b) >= 1,
         NEW heirs \in SUBSET Decs, NEW success \in BOOLEAN,
         Decode(cs, h, b, heirs, success), Continuing(n_dec', cs, b, heirs)
  PROVE  /\ cells' \in CellsOf(n_dec', Decs) /\ Tidy(cells')
         /\ head' \in 0 .. SizeFor(n_dec') /\ AttendsOwnHistory'
         /\ success => \E slot \in Nat : GrownTo(n_dec', cs, b, heirs, slot, cells')
<1>1. /\ cells' \in CellsOf(n_dec', Decs) /\ Tidy(cells')
      /\ head' \in 0 .. SizeFor(n_dec')
      /\ \/ ~success /\ batch' = <<>>
         \/ \E slot : Placed(cs, b, heirs, slot)
  BY DecodeFacts
<1>2. CASE ~success /\ batch' = <<>>
  <2>1. Range(batch') = {}
    BY <1>2 DEF Range
  <2> QED
    BY <1>1, <1>2, <2>1 DEF AttendsOwnHistory
<1>3. CASE \E slot : Placed(cs, b, heirs, slot)
  <2>1. PICK slot : Placed(cs, b, heirs, slot)
    BY <1>3
  <2>2. slot \in Nat /\ GrownTo(n_dec', cs, b, heirs, slot, cells')
    BY <2>1, GrownFacts DEF Placed, Fits
  <2>3. Continues(cells', b)
    BY <2>2 DEF Continuing
  <2>4. AttendsOwnHistory'
    BY <2>1, <2>3, AttendsAll
  <2> QED
    BY <1>1, <2>2, <2>4
<1> QED
  BY <1>1, <1>2, <1>3

LEMMA PromptContinues ==
  ASSUME NEW d \in 1 .. NDec, NEW cs, \A c \in DOMAIN cs : 0 \notin cs[c].seq_id,
         NEW p \in Nat \ {0}, NEW heirs
  PROVE  Continuing(d, cs, PromptBatch(p), heirs)
<1> SUFFICES ASSUME NEW slot \in Nat, NEW r, GrownTo(d, cs, PromptBatch(p), heirs, slot, r)
             PROVE  Continues(r, PromptBatch(p))
  BY DEF Continuing
<1>1. Holds(r, 0, Prompt(p), p)
  BY PromptHeld
<1>2. /\ Len(PromptBatch(p)) = p
      /\ \A a \in 1 .. p :
           /\ PromptBatch(p)[a].seq = 0 /\ Len(PromptBatch(p)[a].hist) = a
           /\ \A q \in 1 .. a : PromptBatch(p)[a].hist[q] = Prompt(p)[q]
  BY PromptFacts
<1>3. ASSUME NEW a \in 1 .. Len(PromptBatch(p))
      PROVE  /\ p \in Nat /\ Holds(r, PromptBatch(p)[a].seq, Prompt(p), p)
             /\ Len(PromptBatch(p)[a].hist) <= p
             /\ \A q \in 1 .. Len(PromptBatch(p)[a].hist) :
                  PromptBatch(p)[a].hist[q] = Prompt(p)[q]
  BY <1>1, <1>2
<1> QED
  BY <1>3 DEF Continues

(* The next tokens of the live decoders are a batch. *)
LEMMA LiveBatchFacts ==
  ASSUME Types, HistoryInv, phase = "decode"
  PROVE  IsBatch(LiveBatch) /\ Len(LiveBatch) >= 1
<1>1. PICK b : b = LiveBatch
  OBVIOUS
<1>2. BatchTo(b, NDec)
  BY <1>1, BatchFacts
<1>3. \A j \in live : sequence[j] # <<>> /\ j < NDec
  BY DecsFacts DEF Types, HistoryInv, Decs
<1>4. ASSUME NEW a \in 1 .. Len(b) PROVE b[a].hist # <<>>
  BY <1>2, <1>3 DEF BatchTo
<1>5. PICK j \in live : TRUE
  BY DEF HistoryInv
<1>6. PICK a \in 1 .. Len(b) : b[a].seq = j
  BY <1>2, <1>3, <1>5 DEF BatchTo
<1>7. Len(b) \in Nat
  BY <1>2 DEF BatchTo
<1>8. Len(b) >= 1
  BY <1>6, <1>7
<1> QED
  BY <1>1, <1>2, <1>4, <1>8 DEF IsBatch, BatchTo

LEMMA LiveContinues ==
  ASSUME Types, HistoryInv, phase = "decode", NEW d \in 1 .. NDec
  PROVE  Continuing(d, cells, LiveBatch, {})
<1>1. PICK b : b = LiveBatch
  OBVIOUS
<1>2. BatchTo(b, NDec)
  BY <1>1, BatchFacts
<1> SUFFICES ASSUME NEW slot \in Nat, NEW r, GrownTo(d, cells, b, {}, slot, r)
             PROVE  Continues(r, b)
  BY <1>1 DEF Continuing
<1>3. ASSUME NEW a \in 1 .. Len(b)
      PROVE  \E h, m : /\ m \in Nat /\ Holds(r, b[a].seq, h, m) /\ Len(b[a].hist) <= m
                       /\ \A q \in 1 .. Len(b[a].hist) : b[a].hist[q] = h[q]
  <2>1. PICK j \in live : j = b[a].seq /\ b[a].hist = sequence[j]
    BY <1>2 DEF BatchTo
  <2>2. sequence[j] # <<>> /\ Holds(cells, j, sequence[j], Len(sequence[j]) - 1)
    BY DEF HistoryInv
  <2>3. Holds(r, j, sequence[j], Len(sequence[j]))
    BY <1>2, <2>2, TokenAdded
  <2>4. Len(sequence[j]) \in Nat /\ Len(sequence[j]) <= Len(sequence[j])
    <3>1. sequence[j] \in Seq(Tokens)
      BY DEF Types
    <3>2. Len(sequence[j]) \in Nat
      BY <3>1
    <3> QED
      BY <3>2
  <2> QED
    BY <2>1, <2>3, <2>4
<1> QED
  BY <1>3 DEF Continues

(* Removing a sequence leaves head where a cell can be. *)
LEMMA HeadAfterRmFacts ==
  ASSUME Types, NEW s
  PROVE  HeadAfterRm(cells, s) \in 0 .. SizeFor(n_dec)
<1> DEFINE freed == {c \in DOMAIN cells : cells[c].seq_id = {s}}
<1>0. /\ DOMAIN cells = 0 .. SizeFor(n_dec) - 1 /\ SizeFor(n_dec) \in Nat
      /\ head \in 0 .. SizeFor(n_dec)
  BY SizeFacts DEF Types, CellsOf
<1>1. HeadAfterRm(cells, s) = IF freed = {} THEN head ELSE Min(freed)
  BY DEF HeadAfterRm
<1>2. freed \subseteq 0 .. SizeFor(n_dec) - 1
  BY <1>0
<1> HIDE DEF freed
<1>3. CASE freed # {}
  <2>1. freed \subseteq Nat
    BY <1>0, <1>2
  <2>2. \E x \in freed : \A y \in freed : x <= y
    BY <1>3, <2>1, Smallest
  <2>3. Min(freed) \in freed
    BY <2>2 DEF Min
  <2>4. PICK S, m : S = SizeFor(n_dec) /\ m = Min(freed)
    OBVIOUS
  <2>5. S \in Nat /\ m \in 0 .. S - 1
    BY <1>0, <1>2, <2>3, <2>4
  <2>6. m \in 0 .. S
    BY <2>5
  <2> QED
    BY <1>1, <1>3, <2>4, <2>6
<1> QED
  BY <1>0, <1>1, <1>3

-----------------------------------------------------------------------------
(* The initial states and the steps. *)

LEMMA InitKV == Init => KVInv
<1> SUFFICES ASSUME Init PROVE KVInv
  OBVIOUS
<1>1. 1 \in 1 .. NDec /\ SizeFor(1) \in Nat
  BY KVAssumption, SizeFacts
<1>2. cells \in CellsOf(n_dec, Decs) /\ Tidy(cells)
  BY <1>1, ClearFacts DEF Init
<1>3. Types
  BY <1>1, <1>2 DEF Init, Types
<1>4. HistoryInv /\ AttendsOwnHistory
  <2>1. Range(batch) = {} /\ live = {} /\ phase = "idle"
    BY DEF Init, Range
  <2> QED
    BY <2>1 DEF HistoryInv, AttendsOwnHistory
<1> QED
  BY <1>2, <1>3, <1>4 DEF KVInv

LEMMA KVOfDetectLanguage ==
  ASSUME KVInv, DetectLanguage
  PROVE  KVInv'
<1> USE DEF KVInv
<1>1. PICK cs, h, b : cs = SeqRm(cells, 0) /\ h = HeadAfterRm(cells, 0) /\ b = PromptBatch(1)
  OBVIOUS
<1>2. /\ n_dec' = n_dec /\ phase = "idle" /\ UNCHANGED <<phase, live, i, beam, sequence>>
      /\ Decode(cs, h, b, {}, FALSE)
  BY <1>1 DEF DetectLanguage
<1>3. /\ n_dec' \in 1 .. NDec /\ n_dec \in 1 .. NDec /\ cells \in CellsOf(n_dec, Decs) /\ Tidy(cells)
  BY <1>2 DEF Types
<1>4. /\ cs \in CellsOf(n_dec, Decs) /\ Tidy(cs)
      /\ \A c \in DOMAIN cells : cs[c].seq_id = cells[c].seq_id \ {0}
  BY <1>1, <1>3, SeqRmFacts
<1>5. \A c \in DOMAIN cs : 0 \notin cs[c].seq_id
  <2>1. DOMAIN cs = DOMAIN cells
    BY <1>3, <1>4 DEF CellsOf
  <2> QED
    BY <1>4, <2>1
<1>6. IsBatch(b) /\ Len(b) >= 1
  BY <1>1, PromptFacts
<1>7. Continuing(n_dec', cs, b, {})
  BY <1>1, <1>3, <1>5, PromptContinues
<1>8. h \in 0 .. SizeFor(n_dec') /\ cs \in CellsOf(n_dec', Decs)
  BY <1>1, <1>2, <1>4, HeadAfterRmFacts
<1>9. /\ cells' \in CellsOf(n_dec', Decs) /\ Tidy(cells')
      /\ head' \in 0 .. SizeFor(n_dec') /\ AttendsOwnHistory'
  BY <1>2, <1>3, <1>4, <1>6, <1>7, <1>8, DecodeKeeps
<1>10. Types'
  BY <1>2, <1>3, <1>9 DEF Types
<1>11. HistoryInv'
  BY <1>2 DEF HistoryInv
<1> QED
  BY <1>9, <1>10, <1>11

LEMMA KVOfDecodePrompt ==
  ASSUME KVInv, NEW success \in BOOLEAN, DecodePrompt(success)
  PROVE  KVInv'
<1> USE DEF KVInv
<1>1. PICK d \in 1 .. NDec, p \in PromptSizes :
        /\ phase = "idle"
        /\ n_dec' = (IF n_dec < d THEN d ELSE n_dec)
        /\ Decode(Clear(n_dec'), 0, PromptBatch(p), IF success THEN 1 .. d - 1 ELSE {}, success)
        /\ sequence' = [j \in Decs |-> IF j < d THEN Prompt(p) ELSE <<>>]
        /\ live' = (IF success THEN 0 .. d - 1 ELSE {})
        /\ phase' = (IF success THEN "sample" ELSE "idle")
        /\ i' = 0
  BY DEF DecodePrompt
<1>2. PICK cs, heirs, b : /\ cs = Clear(n_dec') /\ heirs = (IF success THEN 1 .. d - 1 ELSE {})
                          /\ b = PromptBatch(p)
  OBVIOUS
<1>3. n_dec' \in 1 .. NDec /\ p \in Nat \ {0} /\ NDec \in Nat \ {0}
  <2>1. n_dec \in 1 .. NDec
    BY DEF Types
  <2> QED
    BY <1>1, <2>1, KVAssumption
<1>4. /\ cs \in CellsOf(n_dec', Decs) /\ Tidy(cs)
      /\ \A c \in DOMAIN cs : cs[c].seq_id = {}
  <2>1. \A c \in DOMAIN cs : cs[c].seq_id = {}
    BY <1>2 DEF Clear, FreeCell
  <2> QED
    BY <1>2, <1>3, <2>1, ClearFacts
<1>5. IsBatch(b) /\ Len(b) >= 1 /\ Prompt(p) \in Seq(Tokens) /\ Len(Prompt(p)) = p
  BY <1>2, <1>3, PromptFacts
<1>6. heirs \in SUBSET Decs /\ 0 .. d - 1 \subseteq Decs
  BY <1>2, <1>3 DEF Decs
<1>7. Continuing(n_dec', cs, b, heirs)
  BY <1>2, <1>3, <1>4, PromptContinues
<1>8. 0 \in 0 .. SizeFor(n_dec')
  BY <1>3, SizeFacts
<1>9. Decode(cs, 0, b, heirs, success)
  BY <1>1, <1>2
<1>10. /\ cells' \in CellsOf(n_dec', Decs) /\ Tidy(cells')
       /\ head' \in 0 .. SizeFor(n_dec') /\ AttendsOwnHistory'
       /\ success => \E slot \in Nat : GrownTo(n_dec', cs, b, heirs, slot, cells')
  BY <1>3, <1>4, <1>5, <1>6, <1>7, <1>8, <1>9, DecodeKeeps
<1>11. Types'
  <2>1. sequence' \in [Decs -> Seq(Tokens)]
    BY <1>1, <1>5
  <2>2. live' \in SUBSET Decs /\ phase' \in {"idle", "sample", "decode"} /\ i' \in Nat
    BY <1>1, <1>6
  <2> QED
    BY <1>3, <1>10, <2>1, <2>2 DEF Types
<1>12. HistoryInv'
  <2>1. CASE ~success
    BY <1>1, <2>1 DEF HistoryInv
  <2>2. CASE success
    <3>1. PICK slot \in Nat : GrownTo(n_dec', cs, b, heirs, slot, cells')
      BY <1>10, <2>2
    <3>2. phase' = "sample" /\ live' = 0 .. d - 1 /\ heirs = 1 .. d - 1
      BY <1>1, <1>2, <2>2
    <3>3. ASSUME NEW j \in live' PROVE Holds(cells', j, sequence'[j], Len(sequence'[j]))
      <4>1. j \in {0} \cup heirs /\ j \in Decs /\ j < d
        BY <1>3, <1>6, <3>2
      <4>2. sequence'[j] = Prompt(p)
        BY <1>1, <4>1
      <4>3. Holds(cells', j, Prompt(p), p)
        BY <1>2, <1>3, <1>4, <3>1, <4>1, PromptHeld
      <4> QED
        BY <1>5, <4>2, <4>3
    <3> QED
      BY <3>2, <3>3 DEF HistoryInv
  <2> QED
    BY <2>1, <2>2
<1> QED
  BY <1>10, <1>11, <1>12

LEMMA KVOfDecodeTokens ==
  ASSUME KVInv, NEW success \in BOOLEAN, DecodeTokens(success)
  PROVE  KVInv'
<1> USE DEF KVInv
<1>1. PICK b : b = LiveBatch
  OBVIOUS
<1>2. /\ phase = "decode" /\ n_dec' = n_dec /\ Decode(cells, head, b, {}, success)
      /\ phase' = (IF success THEN "sample" ELSE "idle") /\ i' = i + 1
      /\ live' = (IF success THEN live ELSE {}) /\ UNCHANGED <<beam, sequence>>
  BY <1>1 DEF DecodeTokens
<1>3. /\ n_dec' \in 1 .. NDec /\ cells \in CellsOf(n_dec', Decs) /\ Tidy(cells)
      /\ head \in 0 .. SizeFor(n_dec') /\ Types /\ HistoryInv
  BY <1>2 DEF Types
<1>4. IsBatch(b) /\ Len(b) >= 1 /\ BatchTo(b, NDec)
  BY <1>1, <1>2, <1>3, LiveBatchFacts, BatchFacts
<1>5. Continuing(n_dec', cells, b, {})
  BY <1>1, <1>2, <1>3, LiveContinues
<1>6. /\ cells' \in CellsOf(n_dec', Decs) /\ Tidy(cells')
      /\ head' \in 0 .. SizeFor(n_dec') /\ AttendsOwnHistory'
      /\ success => \E slot \in Nat : GrownTo(n_dec', cells, b, {}, slot, cells')
  BY <1>2, <1>3, <1>4, <1>5, DecodeKeeps
<1>7. Types'
  <2>1. live \in SUBSET Decs /\ i \in Nat /\ sequence \in [Decs -> Seq(Tokens)]
    BY DEF Types
  <2>2. live' \in SUBSET Decs /\ i' \in Nat /\ phase' \in {"idle", "sample", "decode"}
    BY <1>2, <2>1
  <2> QED
    BY <1>2, <1>3, <1>6, <2>1, <2>2 DEF Types
<1>8. HistoryInv'
  <2>1. CASE ~success
    BY <1>2, <2>1 DEF HistoryInv
  <2>2. CASE success
    <3>1. PICK slot \in Nat : GrownTo(n_dec', cells, b, {}, slot, cells')
      BY <1>6, <2>2
    <3>2. phase' = "sample" /\ live' = live /\ sequence' = sequence
      BY <1>2, <2>2
    <3>3. ASSUME NEW j \in live PROVE Holds(cells', j, sequence[j], Len(sequence[j]))
      <4>1. sequence[j] # <<>> /\ Holds(cells, j, sequence[j], Len(sequence[j]) - 1)
        BY <1>2, <1>3 DEF HistoryInv
      <4> QED
        BY <1>3, <1>4, <3>1, <4>1, TokenAdded
    <3> QED
      BY <3>2, <3>3 DEF HistoryInv
  <2> QED
    BY <2>1, <2>2
<1> QED
  BY <1>6, <1>7, <1>8

(* Every decoder that goes on takes over the history of its parent. *)
LEMMA KVOfSample ==
  ASSUME KVInv, Sample
  PROVE  KVInv'
<1> USE DEF KVInv
<1>1. PICK parent \in [live -> live], on \in SUBSET live :
        /\ beam \/ \A j \in live : parent[j] = j
        /\ cells' = (IF beam THEN Moved(parent) ELSE cells)
        /\ head' = (IF beam THEN 0 ELSE head)
        /\ sequence' = [j \in Decs |->
             IF j \in live THEN Append(sequence[parent[j]], <<i, j>>) ELSE sequence[j]]
        /\ live' = on
        /\ phase' = (IF on = {} THEN "idle" ELSE "decode")
  BY DEF Sample
<1>2. phase = "sample" /\ batch' = <<>> /\ n_dec' = n_dec /\ i' = i
  BY DEF Sample
<1>3. PICK new : new = cells'
  OBVIOUS
<1>4. /\ new \in CellsOf(n_dec, Decs) /\ Tidy(new) /\ DOMAIN new = DOMAIN cells
      /\ \A c \in DOMAIN cells : \A j \in live :
           /\ j \in new[c].seq_id <=> parent[j] \in cells[c].seq_id
           /\ j \in new[c].seq_id => new[c].pos = cells[c].pos /\ new[c].tok = cells[c].tok
  <2>1. CASE beam
    <3>1. new = Moved(parent)
      BY <1>1, <1>3, <2>1
    <3>2. /\ new \in CellsOf(n_dec, Decs) /\ Tidy(new)
          /\ \A c \in DOMAIN cells :
               /\ new[c].seq_id # {} => new[c].pos = cells[c].pos /\ new[c].tok = cells[c].tok
               /\ \A j \in live : j \in new[c].seq_id <=> parent[j] \in cells[c].seq_id
      BY <3>1, MovedFacts
    <3>3. DOMAIN new = DOMAIN cells
      BY <3>2 DEF CellsOf, Types
    <3> QED
      BY <3>2, <3>3
  <2>2. CASE ~beam
    <3>1. new = cells /\ \A j \in live : parent[j] = j
      BY <1>1, <1>3, <2>2
    <3> QED
      BY <3>1 DEF Types
  <2> QED
    BY <2>1, <2>2
<1>5. ASSUME NEW j \in live
      PROVE  /\ sequence'[j] \in Seq(Tokens) /\ sequence'[j] # <<>>
             /\ Holds(new, j, sequence'[j], Len(sequence'[j]) - 1)
  <2>1. PICK s, g, x : s = sequence[parent[j]] /\ g = sequence'[j] /\ x = <<i, j>>
    OBVIOUS
  <2>2. j \in Decs /\ parent[j] \in live /\ j \in Int /\ i \in Int /\ s \in Seq(Tokens)
    BY <2>1, DecsFacts DEF Types
  <2>3. g = Append(s, x) /\ x \in Tokens
    BY <1>1, <2>1, <2>2 DEF Tokens
  <2>4. /\ g \in Seq(Tokens) /\ g # <<>> /\ Len(g) - 1 = Len(s) /\ Len(s) \in Nat
        /\ \A q \in 1 .. Len(s) : g[q] = s[q]
    BY <2>2, <2>3
  <2>5. Holds(cells, parent[j], s, Len(s))
    BY <1>2, <2>1, <2>2 DEF HistoryInv
  <2>6. Holds(new, j, g, Len(s))
    <3>1. \A c \in DOMAIN cells :
            /\ j \in new[c].seq_id <=> parent[j] \in cells[c].seq_id
            /\ j \in new[c].seq_id => new[c].pos = cells[c].pos /\ new[c].tok = cells[c].tok
      BY <1>4
    <3>2. DOMAIN new = DOMAIN cells /\ Len(s) \in Int
      BY <1>4, <2>4
    <3> QED
      BY <2>4, <2>5, <3>1, <3>2, HoldsMoves
  <2> QED
    BY <2>1, <2>4, <2>6
<1>6. Types'
  <2>1. sequence' \in [Decs -> Seq(Tokens)]
    <3>1. ASSUME NEW j \in Decs PROVE sequence'[j] \in Seq(Tokens)
      BY <1>1, <1>5 DEF Types
    <3> QED
      BY <1>1, <3>1
  <2>2. head' \in 0 .. SizeFor(n_dec')
    BY <1>1, <1>2, SizeFacts DEF Types
  <2>3. live' \in SUBSET Decs /\ phase' \in {"idle", "sample", "decode"}
    BY <1>1 DEF Types
  <2> QED
    BY <1>2, <1>3, <1>4, <2>1, <2>2, <2>3 DEF Types
<1>7. HistoryInv'
  <2>1. \A j \in live' : sequence'[j] # <<>> /\ Holds(cells', j, sequence'[j], Len(sequence'[j]) - 1)
    BY <1>1, <1>3, <1>5
  <2>2. phase' # "sample" /\ (phase' = "decode" => live' # {})
    BY <1>1
  <2> QED
    BY <2>1, <2>2 DEF HistoryInv
<1>8. AttendsOwnHistory'
  <2>1. Range(batch') = {}
    BY <1>2 DEF Range
  <2> QED
    BY <2>1 DEF AttendsOwnHistory
<1> QED
  BY <1>3, <1>2, <1>4, <1>6, <1>7, <1>8

LEMMA KVOfEndWindow ==
  ASSUME KVInv, EndWindow
  PROVE  KVInv'
<1> USE DEF KVInv
<1>1. /\ phase' = "idle" /\ live' = {} /\ batch' = <<>>
      /\ UNCHANGED <<n_dec, cells, head, n, i, beam, sequence>>
  BY DEF EndWindow
<1>2. Types'
  BY <1>1 DEF Types
<1>3. HistoryInv' /\ Tidy(cells')
  BY <1>1 DEF HistoryInv
<1>4. AttendsOwnHistory'
  <2>1. Range(batch') = {}
    BY <1>1 DEF Range
  <2> QED
    BY <2>1 DEF AttendsOwnHistory
<1> QED
  BY <1>2, <1>3, <1>4

LEMMA NextKV == KVInv /\ [Next]_vars => KVInv'
<1> SUFFICES ASSUME KVInv, [Next]_vars PROVE KVInv'
  OBVIOUS
<1>1. CASE DetectLanguage
  BY <1>1, KVOfDetectLanguage
<1>2. CASE DecodePrompt(TRUE)
  BY <1>2, KVOfDecodePrompt
<1>3. CASE DecodePrompt(FALSE)
  BY <1>3, KVOfDecodePrompt
<1>4. CASE Sample
  BY <1>4, KVOfSample
<1>5. CASE DecodeTokens(TRUE)
  BY <1>5, KVOfDecodeTokens
<1>6. CASE DecodeTokens(FALSE)
  BY <1>6, KVOfDecodeTokens
<1>7. CASE EndWindow
  BY <1>7, KVOfEndWindow
<1>8. CASE UNCHANGED vars
  <2>1. UNCHANGED <<n_dec, cells, head, n, phase, live, i, beam, sequence, batch>>
    BY <1>8 DEF vars
  <2>2. Types' /\ HistoryInv' /\ Tidy(cells')
    BY <2>1 DEF KVInv, Types, HistoryInv
  <2>3. AttendsOwnHistory'
    BY <2>1 DEF KVInv, AttendsOwnHistory, Attended
  <2> QED
    BY <2>2, <2>3 DEF KVInv
<1> QED
  BY <1>1, <1>2, <1>3, <1>4, <1>5, <1>6, <1>7, <1>8 DEF Next

-----------------------------------------------------------------------------
(* The cells labelled with a live decoder are its history, each token once, *)
(* and a cell without a label is free, after any calls of                   *)
(* whisper_decode_internal and any moves of beam search.                    *)
THEOREM CacheInvariant == Spec => []KVInv
BY InitKV, NextKV, PTL DEF Spec

(* Every token that whisper_decode_internal evaluates attends to the tokens *)
(* of its own decoder's history, each once, and to nothing else.            *)
THEOREM OwnHistory == Spec => []AttendsOwnHistory
<1>1. KVInv => AttendsOwnHistory
  BY DEF KVInv
<1> QED
  BY <1>1, CacheInvariant, PTL

(* Wherever head lies, whisper_kv_cache_find_slot finds room for the next   *)
(* tokens of the live decoders exactly when there is some.                  *)
THEOREM SlotSearch == Spec => []SlotFoundIffFree
<1>1. KVInv => SlotFoundIffFree
  <2> SUFFICES ASSUME KVInv, NEW h \in DOMAIN cells
               PROVE  SearchExact(SizeFor(n_dec), InUse(cells), h, Cardinality(live))
    BY DEF SlotFoundIffFree
  <2>1. Types
    BY DEF KVInv
  <2>2. SizeFor(n_dec) \in Nat /\ h \in 0 .. SizeFor(n_dec)
    <3>1. SizeFor(n_dec) \in Nat /\ DOMAIN cells = 0 .. SizeFor(n_dec) - 1
      BY <2>1, SizeFacts DEF Types, CellsOf
    <3> QED
      BY <3>1
  <2>3. Cardinality(live) \in Nat
    <3>1. live \subseteq 0 .. NDec - 1 /\ NDec - 1 \in Int
      BY <2>1, KVAssumption DEF Types, Decs
    <3>2. IsFiniteSet(0 .. NDec - 1)
      BY <3>1, FS_Interval
    <3>3. IsFiniteSet(live)
      BY <3>1, <3>2, FS_Subset
    <3> QED
      BY <3>3, FS_CardinalityType
  <2> QED
    BY <2>2, <2>3, SearchIsExact
<1> QED
  BY <1>1, CacheInvariant, PTL

-----------------------------------------------------------------------------
(* The next tokens always find room: the cells in use behind the prompt lie *)
(* in a block for every step, each block spoils at most two of the windows  *)
(* a batch fits in, and the cache has more windows than that.               *)

LEMMA Multiples ==
  ASSUME NEW d \in Nat, NEW x \in Nat, NEW y \in Nat, x < y
  PROVE  x * d \in Nat /\ y * d \in Nat /\ x * d + d <= y * d
<1>1. PICK e \in Nat : y = x + 1 + e
  <2>1. y - x - 1 \in Nat /\ y = x + 1 + (y - x - 1)
    OBVIOUS
  <2> QED
    BY <2>1
<1>2. e * d \in Nat /\ x * d \in Nat
  OBVIOUS
<1>3. y * d = x * d + d + e * d
  BY <1>1
<1> QED
  BY <1>2, <1>3

(* The windows of d cells behind the first p. *)
Window(p, d, j) == Slot(p + j * d, d)

(* The cells behind the first p lie in blocks of d cells that begin at       *)
(* starts, of which there are at most k.                                     *)
SpreadOver(starts, used, p, d, k) ==
  /\ starts \in SUBSET Nat /\ IsFiniteSet(starts) /\ Cardinality(starts) <= k
  /\ \A c \in used : c \in Nat /\ (c < p \/ \E b \in starts : c \in Slot(b, d))

(* A block meets one window from within and at most one from before. *)
LEMMA OneWindow ==
  ASSUME NEW p \in Nat, NEW d \in Nat \ {0}, NEW x \in Nat, NEW y \in Nat, NEW b \in Nat,
         Slot(b, d) \cap Window(p, d, x) # {}, Slot(b, d) \cap Window(p, d, y) # {},
         b >= p + x * d <=> b >= p + y * d
  PROVE  x = y
<1> DEFINE X == x * d
           Y == y * d
<1>1. X \in Nat /\ Y \in Nat
  OBVIOUS
<1>2. /\ x < y => X + d <= Y
      /\ y < x => Y + d <= X
  BY Multiples
<1>3. \A z \in Nat : Slot(b, d) \cap Slot(p + z, d) # {} => b < p + z + d /\ p + z < b + d
  BY DEF Slot
<1>4. b < p + X + d /\ p + X < b + d /\ b < p + Y + d /\ p + Y < b + d
  BY <1>1, <1>3 DEF Window
<1> HIDE DEF X, Y
<1>5. b >= p + X <=> b >= p + Y
  BY DEF X, Y
<1>6. ~(x < y) /\ ~(y < x)
  BY <1>1, <1>2, <1>4, <1>5
<1> QED
  BY <1>6

Sides(d) == IF d = 1 THEN {0} ELSE {0, 1}

LEMMA FreeWindow ==
  ASSUME NEW p \in Nat, NEW d \in Nat \ {0}, NEW k \in Nat, NEW starts, NEW used,
         SpreadOver(starts, used, p, d, k)
  PROVE  \E j \in 0 .. Cardinality(Sides(d)) * k : Window(p, d, j) \cap used = {}
<1> DEFINE s == Cardinality(Sides(d))
           M == 0 .. s * k
           T == starts \X Sides(d)
<1> SUFFICES ASSUME \A j \in M : Window(p, d, j) \cap used # {}
             PROVE  FALSE
  OBVIOUS
<1>1. IsFiniteSet(Sides(d)) /\ s \in Nat
  <2>1. IsFiniteSet(Sides(d))
    <3>1. IsFiniteSet({0}) /\ IsFiniteSet({0} \cup {1})
      BY FS_Singleton, FS_AddElement
    <3>2. {0} \cup {1} = {0, 1}
      OBVIOUS
    <3> QED
      BY <3>1, <3>2 DEF Sides
  <2> QED
    BY <2>1, FS_CardinalityType
<1>2. IsFiniteSet(T) /\ Cardinality(T) <= s * k
  <2>1. IsFiniteSet(T) /\ Cardinality(T) = Cardinality(starts) * s
    BY <1>1, FS_Product DEF SpreadOver
  <2>2. PICK a : a = Cardinality(starts)
    OBVIOUS
  <2>3. a \in Nat /\ a <= k
    BY <2>2, FS_CardinalityType DEF SpreadOver
  <2> HIDE DEF s
  <2>4. a * s <= k * s
    <3>1. a < k => a * s + s <= k * s
      BY <1>1, <2>3, Multiples
    <3>2. a * s \in Nat /\ k * s \in Nat
      BY <1>1, <2>3
    <3> QED
      BY <1>1, <2>3, <3>1, <3>2
  <2>5. k * s = s * k
    BY <1>1
  <2> QED
    BY <2>1, <2>2, <2>4, <2>5
<1>3. IsFiniteSet(M) /\ Cardinality(T) < Cardinality(M)
  <2>0. s * k \in Nat /\ Cardinality(T) \in Nat
    BY <1>1, <1>2, FS_CardinalityType
  <2>1. IsFiniteSet(M) /\ Cardinality(M) = s * k + 1
    <3>1. PICK z : z = s * k
      OBVIOUS
    <3>2. z \in Nat /\ 0 \in Int /\ z \in Int /\ ~(0 > z) /\ z - 0 + 1 = z + 1
      BY <2>0, <3>1
    <3>3. IsFiniteSet(0 .. z) /\ Cardinality(0 .. z) = z + 1
      <4>1. /\ IsFiniteSet(0 .. z)
            /\ Cardinality(0 .. z) = IF 0 > z THEN 0 ELSE z - 0 + 1
        BY <3>2, FS_Interval
      <4> QED
        BY <3>2, <4>1
    <3> QED
      BY <3>1, <3>3
  <2> HIDE DEF s, T, M
  <2> QED
    BY <1>2, <2>0, <2>1
<1> DEFINE Meets(j, b) == Slot(b, d) \cap Window(p, d, j) # {}
<1>4. ASSUME NEW j \in M
      PROVE  \E b \in starts : Meets(j, b)
  <2>1. j \in Nat /\ j * d \in Nat
    BY <1>1
  <2>2. PICK c \in used : c \in Window(p, d, j)
    OBVIOUS
  <2>3. ~(c < p)
    BY <2>1, <2>2 DEF Window, Slot
  <2>4. PICK b \in starts : c \in Slot(b, d)
    BY <2>2, <2>3 DEF SpreadOver
  <2> QED
    BY <2>2, <2>4
<1> DEFINE start == [j \in M |-> CHOOSE b \in starts : Meets(j, b)]
           side == [j \in M |-> IF start[j] >= p + j * d THEN 0 ELSE 1]
           f == [j \in M |-> <<start[j], side[j]>>]
<1>5. ASSUME NEW j \in M
      PROVE  start[j] \in starts /\ Meets(j, start[j]) /\ start[j] \in Nat
  <2>1. start[j] \in starts /\ Meets(j, start[j])
    <3> HIDE DEF Meets, M
    <3> QED
      BY <1>4
  <2> QED
    BY <2>1 DEF SpreadOver
<1>6. ASSUME NEW j \in M PROVE side[j] \in Sides(d)
  <2>1. CASE d = 1
    <3>1. j \in Nat
      BY <1>1
    <3> HIDE DEF M, start
    <3>3. start[j] \in Nat /\ Meets(j, start[j])
      BY <1>5
    <3>2. start[j] >= p + j * d
      BY <2>1, <3>1, <3>3 DEF Window, Slot
    <3> QED
      BY <2>1, <3>2 DEF Sides
  <2>2. CASE d # 1
    BY <2>2 DEF Sides
  <2> QED
    BY <2>1, <2>2
<1>7. f \in [M -> T]
  <2> HIDE DEF M, start, side
  <2> QED
    BY <1>5, <1>6
<1>8. PICK x, y \in M : x # y /\ f[x] = f[y]
  <2> HIDE DEF M, T, f
  <2> QED
    BY <1>2, <1>3, <1>7, FS_PigeonHole
<1>9. start[x] = start[y] /\ side[x] = side[y]
  <2> HIDE DEF M, start, side
  <2>1. f[x] = <<start[x], side[x]>> /\ f[y] = <<start[y], side[y]>>
    OBVIOUS
  <2> HIDE DEF f
  <2>2. <<start[x], side[x]>> = <<start[y], side[y]>>
    BY <1>8, <2>1
  <2>3. \A u, v, w, z : <<u, v>> = <<w, z>> => u = w /\ v = z
    OBVIOUS
  <2> QED
    BY <2>2, <2>3, Zenon
<1>10. PICK b : b = start[x]
  OBVIOUS
<1>11. b \in Nat /\ Meets(x, b) /\ Meets(y, b) /\ x \in Nat /\ y \in Nat
  <2>1. x \in Nat /\ y \in Nat
    BY <1>1
  <2> HIDE DEF M, Meets, start
  <2> QED
    BY <1>5, <1>9, <1>10, <2>1
<1>12. b >= p + x * d <=> b >= p + y * d
  <2>1. side[x] = (IF b >= p + x * d THEN 0 ELSE 1) /\ side[y] = (IF b >= p + y * d THEN 0 ELSE 1)
    BY <1>9, <1>10
  <2>2. PICK u, w, X, Y : u = side[x] /\ w = side[y] /\ X = p + x * d /\ Y = p + y * d
    OBVIOUS
  <2>3. u = w
    BY <1>9, <2>2
  <2>4. u = (IF b >= X THEN 0 ELSE 1) /\ w = (IF b >= Y THEN 0 ELSE 1)
    BY <2>1, <2>2
  <2>5. b \in Int /\ X \in Int /\ Y \in Int
    BY <1>11, <2>2
  <2>6. b >= X <=> b >= Y
    <3>1. u \in {0, 1} /\ (u = 0 <=> b >= X) /\ (w = 0 <=> b >= Y)
      <4>1. 0 # 1
        OBVIOUS
      <4>2. b >= X => u = 0
        BY <2>4
      <4>3. ~(b >= X) => u = 1
        BY <2>4
      <4>4. b >= Y => w = 0
        BY <2>4
      <4>5. ~(b >= Y) => w = 1
        BY <2>4
      <4> QED
        BY <4>1, <4>2, <4>3, <4>4, <4>5, Zenon
    <3> QED
      BY <2>3, <3>1, Zenon
  <2> QED
    BY <2>2, <2>6
<1>13. x = y
  <2> HIDE DEF M, start
  <2> QED
    BY <1>11, <1>12, OneWindow
<1> QED
  BY <1>8, <1>13

-----------------------------------------------------------------------------
(* Cells of the prompt, at most. *)
PromptRoom == NTextCtx \div 2 + 4

(* The sequences in use are those the cache was sized for, and behind the   *)
(* prompt the cells in use lie in a block of n_dec cells for every step.    *)
SpreadInv ==
  /\ phase = "decode" => i < NMax
  /\ phase # "idle" =>
       /\ live \subseteq 0 .. n_dec - 1
       /\ \E starts : SpreadOver(starts, InUse(cells), PromptRoom, n_dec, i)

LEMMA ContextFacts ==
  \E k \in Nat : /\ 2 * k <= NTextCtx /\ NTextCtx \in Nat
                 /\ PromptRoom = k + 4 /\ NMax = k - 4 /\ PromptSizes \subseteq 1 .. k + 4
<1>1. NTextCtx \div 2 \in Nat /\ 2 * (NTextCtx \div 2) <= NTextCtx
  BY KVAssumption
<1> QED
  BY <1>1, KVAssumption DEF PromptRoom, NMax

LEMMA SidesFacts ==
  ASSUME NEW d
  PROVE  Cardinality(Sides(d)) = IF d = 1 THEN 1 ELSE 2
<1>1. Cardinality({0}) = 1 /\ IsFiniteSet({0})
  BY FS_Singleton
<1>2. Cardinality({0} \cup {1}) = 2
  BY <1>1, FS_AddElement
<1>3. {0} \cup {1} = {0, 1}
  OBVIOUS
<1> QED
  BY <1>1, <1>2, <1>3 DEF Sides

LEMMA LiveSize ==
  ASSUME NEW d \in Nat \ {0}, NEW S, S \subseteq 0 .. d - 1
  PROVE  IsFiniteSet(S) /\ Cardinality(S) \in 0 .. d
<1>1. 0 \in Int /\ d - 1 \in Int /\ ~(0 > d - 1) /\ (d - 1) - 0 + 1 = d
  OBVIOUS
<1>2. IsFiniteSet(0 .. d - 1) /\ Cardinality(0 .. d - 1) = d
  <2>1. /\ IsFiniteSet(0 .. d - 1)
        /\ Cardinality(0 .. d - 1) = IF 0 > d - 1 THEN 0 ELSE (d - 1) - 0 + 1
    BY <1>1, FS_Interval
  <2> QED
    BY <1>1, <2>1
<1>3. IsFiniteSet(S) /\ Cardinality(S) <= d
  BY <1>2, FS_Subset
<1>4. Cardinality(S) \in Nat
  BY <1>3, FS_CardinalityType
<1> QED
  BY <1>3, <1>4

(* The windows lie in the cache, for every step that decodes. *)
LEMMA WindowsLieIn ==
  ASSUME NEW d \in 1 .. NDec, NEW k \in Nat, k < NMax,
         NEW j \in 0 .. Cardinality(Sides(d)) * k
  PROVE  PromptRoom + j * d \in Nat /\ PromptRoom + j * d + d <= SizeFor(d)
<1>1. PICK c \in Nat : 2 * c <= NTextCtx /\ NTextCtx \in Nat /\ PromptRoom = c + 4 /\ NMax = c - 4
  BY ContextFacts
<1>2. d \in Nat \ {0}
  BY KVAssumption
<1>3. CASE d = 1
  <2>1. j \in 0 .. k /\ j * d = j
    BY <1>3, SidesFacts
  <2>2. SizeFor(d) = NTextCtx
    BY <1>1, <1>3 DEF SizeFor, Factor
  <2> QED
    BY <1>1, <1>3, <2>1, <2>2
<1>4. CASE d # 1
  <2>1. j \in 0 .. 2 * k /\ j \in Nat /\ j < NTextCtx
    BY <1>1, <1>4, SidesFacts
  <2>2. PICK x, y : x = j * d /\ y = NTextCtx * d
    OBVIOUS
  <2>3. x \in Nat /\ y \in Nat /\ x + d <= y
    BY <1>1, <1>2, <2>1, <2>2, Multiples
  <2>4. SizeFor(d) = y + 2 * NTextCtx
    <3>1. d > 1
      BY <1>2, <1>4
    <3>2. SizeFor(d) = NTextCtx * (d + 2)
      BY <3>1 DEF SizeFor, Factor
    <3> QED
      BY <1>1, <1>2, <2>2, <3>2
  <2>5. PromptRoom + x \in Nat /\ PromptRoom + x + d <= y + 2 * NTextCtx
    BY <1>1, <1>2, <2>3
  <2> QED
    BY <2>2, <2>4, <2>5
<1> QED
  BY <1>3, <1>4

LEMMA RoomForLive ==
  ASSUME KVInv, SpreadInv
  PROVE  SlotAlwaysFound
<1> SUFFICES ASSUME phase = "decode"
             PROVE  SlotFor(cells, head, Cardinality(live), n_dec) # NoSlot
  BY DEF SlotAlwaysFound
<1>1. PICK d, S, used, l : /\ d = n_dec /\ S = SizeFor(n_dec) /\ used = InUse(cells)
                           /\ l = Cardinality(live)
  OBVIOUS
<1>2. /\ d \in 1 .. NDec /\ d \in Nat \ {0} /\ S \in Nat /\ head \in 0 .. S /\ i \in Nat
      /\ PromptRoom \in Nat
  <2>1. Types
    BY DEF KVInv
  <2>2. S \in Nat
    BY <1>1, <2>1, SizeFacts DEF Types
  <2> QED
    BY <1>1, <2>1, <2>2, ContextFacts, KVAssumption DEF Types
<1>3. i < NMax /\ live \subseteq 0 .. d - 1
  BY <1>1 DEF SpreadInv
<1>4. PICK starts : SpreadOver(starts, used, PromptRoom, d, i)
  BY <1>1 DEF SpreadInv
<1>5. PICK j \in 0 .. Cardinality(Sides(d)) * i : Window(PromptRoom, d, j) \cap used = {}
  BY <1>2, <1>4, FreeWindow
<1>6. PICK x : x = PromptRoom + j * d
  OBVIOUS
<1>7. x \in Nat /\ x + d <= S
  BY <1>1, <1>2, <1>3, <1>6, WindowsLieIn
<1>8. l \in 0 .. d
  BY <1>1, <1>2, <1>3, LiveSize
<1>9. x \in 0 .. S - 1 /\ IsSlot(S, used, x, l)
  <2>1. x \in 0 .. S - 1 /\ x + l <= S
    BY <1>2, <1>7, <1>8
  <2>2. Slot(x, l) \subseteq Slot(x, d)
    BY <1>2, <1>7, <1>8 DEF Slot
  <2>3. Slot(x, d) \cap used = {}
    BY <1>5, <1>6 DEF Window
  <2> QED
    BY <2>1, <2>2, <2>3 DEF IsSlot
<1>10. SearchExact(S, used, head, l)
  <2>1. l \in Nat
    BY <1>2, <1>8
  <2> QED
    BY <1>2, <2>1, SearchIsExact
<1>11. FindSlot(S, used, head, l) # NoSlot
  BY <1>9, <1>10 DEF SearchExact
<1> QED
  BY <1>1, <1>11 DEF SlotFor

(* An empty cache is filled from its first cell on. *)
LEMMA SlotInEmpty ==
  ASSUME NEW S \in Nat, NEW k \in Nat, FindSlot(S, {}, 0, k) # NoSlot
  PROVE  FindSlot(S, {}, 0, k) = 0 /\ k <= S
<1>1. ~(k > S)
  BY DEF FindSlot
<1>2. k \in 0 .. S /\ 0 + k <= S /\ ~(0 + k > S)
  BY <1>1
<1>3. PICK f : f = SearchFrom(f, S, {}, k) /\ FindSlot(S, {}, 0, k) = f[<<0, 0>>]
  <2> DEFINE g == CHOOSE g : g = SearchFrom(g, S, {}, k)
  <2>1. g = SearchFrom(g, S, {}, k)
    BY <1>2, SearchExists
  <2>2. FindSlot(S, {}, 0, k) = g[<<0, 0>>]
    BY <1>1 DEF FindSlot, SearchFrom
  <2> HIDE DEF g
  <2> QED
    BY <2>1, <2>2
<1>4. IsSlot(S, {}, 0, k)
  BY <1>2 DEF IsSlot
<1>5. <<0, 0>> \in (0 .. S) \X Nat
  OBVIOUS
<1>6. f[<<0, 0>>] = 0
  BY <1>2, <1>3, <1>4, <1>5 DEF SearchFrom
<1> QED
  BY <1>1, <1>3, <1>6

(* A batch takes up the cells of its slot. *)
LEMMA GrownInUse ==
  ASSUME NEW d, NEW cs, NEW b, NEW heirs, NEW slot, NEW r, GrownTo(d, cs, b, heirs, slot, r),
         NEW c \in InUse(r)
  PROVE  c \in InUse(cs) \/ c \in Slot(slot, Len(b))
BY DEF GrownTo, InUse, Slot

(* The next tokens are no more than the decoders. *)
LEMMA BatchFits ==
  ASSUME NEW d \in Nat \ {0}, live \subseteq 0 .. d - 1, NEW b, NEW k, BatchTo(b, k)
  PROVE  Len(b) \in 0 .. d
<1>1. b \in Seq(BatchToken) /\ Len(b) \in Nat
  BY DEF BatchTo
<1> DEFINE f == [a \in 1 .. Len(b) |-> b[a].seq]
<1>2. f \in Injection(1 .. Len(b), live)
  <2>1. \A a \in 1 .. Len(b) : f[a] \in live
    BY DEF BatchTo
  <2>2. \A a, e \in 1 .. Len(b) : f[a] = f[e] => a = e
    BY DEF BatchTo
  <2> QED
    BY <2>1, <2>2 DEF Injection, IsInjective
<1>3. IsFiniteSet(live) /\ Cardinality(live) \in 0 .. d
  BY LiveSize
<1>4. Cardinality(1 .. Len(b)) <= Cardinality(live)
  <2> HIDE DEF f
  <2> QED
    BY <1>2, <1>3, FS_Injection
<1>5. Cardinality(1 .. Len(b)) = Len(b)
  <2>1. PICK m \in Nat : m = Len(b)
    BY <1>1
  <2>0. 1 \in Int /\ m \in Int
    OBVIOUS
  <2>2. Cardinality(1 .. m) = IF 1 > m THEN 0 ELSE m - 1 + 1
    BY <2>0, FS_Interval
  <2>3. (IF 1 > m THEN 0 ELSE m - 1 + 1) = m
    BY <2>1
  <2> QED
    BY <2>1, <2>2, <2>3
<1> QED
  BY <1>1, <1>3, <1>4, <1>5

-----------------------------------------------------------------------------
(* The steps keep the cells in their blocks. *)

LEMMA InitSpread == Init => SpreadInv
BY DEF Init, SpreadInv

(* The prompt takes up the first cells of the cleared cache. *)
LEMMA SpreadOfDecodePrompt ==
  ASSUME KVInv, NEW success \in BOOLEAN, DecodePrompt(success)
  PROVE  SpreadInv'
<1>1. PICK d \in 1 .. NDec, p \in PromptSizes :
        /\ n_dec' = (IF n_dec < d THEN d ELSE n_dec)
        /\ Decode(Clear(n_dec'), 0, PromptBatch(p), IF success THEN 1 .. d - 1 ELSE {}, success)
        /\ live' = (IF success THEN 0 .. d - 1 ELSE {})
        /\ phase' = (IF success THEN "sample" ELSE "idle")
        /\ i' = 0
  BY DEF DecodePrompt
<1>2. CASE ~success
  BY <1>1, <1>2 DEF SpreadInv
<1>3. CASE success
  <2>1. PICK cs, heirs, b, S : /\ cs = Clear(n_dec') /\ heirs = 1 .. d - 1
                               /\ b = PromptBatch(p) /\ S = SizeFor(n_dec')
    OBVIOUS
  <2>2. n_dec' \in 1 .. NDec /\ p \in Nat \ {0} /\ d <= n_dec' /\ S \in Nat /\ p <= PromptRoom
    <3>1. n_dec \in 1 .. NDec /\ NDec \in Nat
      BY KVAssumption DEF KVInv, Types
    <3>2. n_dec' \in 1 .. NDec /\ d <= n_dec'
      BY <1>1, <3>1
    <3>3. p \in Nat \ {0} /\ p <= PromptRoom
      BY ContextFacts
    <3> QED
      BY <2>1, <3>2, <3>3, SizeFacts
  <2>3. cs \in CellsOf(n_dec', Decs) /\ Tidy(cs) /\ InUse(cs) = {} /\ heirs \in SUBSET Decs
    <3>1. InUse(cs) = {}
      BY <2>1 DEF Clear, FreeCell, InUse
    <3>2. heirs \in SUBSET Decs
      BY <2>1, KVAssumption DEF Decs
    <3> QED
      BY <2>1, <2>2, <3>1, <3>2, ClearFacts
  <2>4. IsBatch(b) /\ Len(b) = p
    BY <2>1, <2>2, PromptFacts
  <2>5. Decode(cs, 0, b, heirs, TRUE)
    BY <1>1, <1>3, <2>1
  <2>6. FindSlot(S, {}, 0, p) # NoSlot
    BY <2>1, <2>3, <2>4, <2>5 DEF Decode, SlotFor
  <2>7. FindSlot(S, {}, 0, p) = 0 /\ p <= S
    BY <2>2, <2>6, SlotInEmpty
  <2>8. Placed(cs, b, heirs, 0)
    <3>1. SlotFor(cs, 0, Len(b), n_dec') = 0
      BY <2>1, <2>3, <2>4, <2>7 DEF SlotFor
    <3>2. /\ cells' = SeqCp(Filled(cs, 0, b), 0, heirs)
          /\ n' = CellMax(Filled(cs, 0, b)) /\ batch' = b
      BY <2>5, <2>6, <2>7, <3>1 DEF Decode, NoSlot
    <3>3. Fits(n_dec', cs, b, 0)
      <4>1. ASSUME NEW c \in 0 .. 0 + Len(b) - 1 PROVE ~(cs[c].pos >= 0)
        <5>1. DOMAIN cs = 0 .. S - 1
          BY <2>1 DEF Clear
        <5>2. c \in DOMAIN cs
          BY <2>2, <2>4, <2>7, <5>1
        <5> QED
          BY <2>3, <5>2 DEF InUse
      <4> QED
        BY <2>1, <2>2, <2>4, <2>7, <4>1 DEF Fits
    <3> QED
      BY <3>2, <3>3 DEF Placed
  <2>9. GrownTo(n_dec', cs, b, heirs, 0, cells')
    BY <2>2, <2>3, <2>4, <2>8, GrownFacts
  <2>10. \A c \in InUse(cells') : c \in Nat /\ c < PromptRoom
    <3>1. \A c \in InUse(cells') : c \in Slot(0, Len(b))
      BY <2>3, <2>9, GrownInUse
    <3>2. Slot(0, Len(b)) = 0 .. p - 1 /\ PromptRoom \in Nat
      BY <2>2, <2>4, ContextFacts DEF Slot
    <3> QED
      BY <2>2, <3>1, <3>2
  <2>11. SpreadOver({}, InUse(cells'), PromptRoom, n_dec', i')
    BY <1>1, <2>10, FS_EmptySet DEF SpreadOver
  <2>12. live' \subseteq 0 .. n_dec' - 1
    BY <1>1, <1>3, <2>2, KVAssumption
  <2>13. (\E starts : SpreadOver(starts, InUse(cells), PromptRoom, n_dec, i))'
    BY <2>11
  <2> QED
    BY <1>1, <1>3, <2>12, <2>13 DEF SpreadInv
<1> QED
  BY <1>2, <1>3

(* Moved histories take up no cell that was free. *)
LEMMA SpreadOfSample ==
  ASSUME KVInv, SpreadInv, Sample
  PROVE  SpreadInv'
<1>1. PICK parent \in [live -> live], on \in SUBSET live :
        /\ cells' = (IF beam THEN Moved(parent) ELSE cells)
        /\ live' = on
        /\ phase' = (IF on = {} THEN "idle" ELSE "decode")
  BY DEF Sample
<1>2. phase = "sample" /\ i < NMax /\ n_dec' = n_dec /\ i' = i
  BY DEF Sample
<1>3. InUse(cells') \subseteq InUse(cells)
  <2>1. CASE ~beam
    BY <1>1, <2>1
  <2>2. CASE beam
    <3>1. PICK new : new = Moved(parent)
      OBVIOUS
    <3>2. /\ new \in CellsOf(n_dec, Decs) /\ Tidy(new) /\ cells \in CellsOf(n_dec, Decs)
          /\ \A c \in DOMAIN cells : new[c].seq_id # {} => new[c].pos = cells[c].pos
      BY <3>1, MovedFacts DEF KVInv, Types
    <3>3. DOMAIN new = DOMAIN cells
      BY <3>2 DEF CellsOf
    <3>4. ASSUME NEW c \in InUse(new) PROVE c \in InUse(cells)
      <4>1. c \in DOMAIN new /\ new[c].pos >= 0
        BY DEF InUse
      <4>2. new[c].seq_id # {}
        <5> SUFFICES ASSUME new[c].seq_id = {} PROVE FALSE
          OBVIOUS
        <5>1. new[c].pos = -1
          BY <3>2, <4>1 DEF Tidy, FreeCell
        <5> QED
          BY <4>1, <5>1
      <4> QED
        BY <3>2, <3>3, <4>1, <4>2 DEF InUse
    <3> QED
      BY <1>1, <2>2, <3>1, <3>4
  <2> QED
    BY <2>1, <2>2
<1>4. live \subseteq 0 .. n_dec - 1 /\ \E starts : SpreadOver(starts, InUse(cells), PromptRoom, n_dec, i)
  BY <1>2 DEF SpreadInv
<1>5. PICK starts : SpreadOver(starts, InUse(cells), PromptRoom, n_dec, i)
  BY <1>4
<1>6. SpreadOver(starts, InUse(cells'), PromptRoom, n_dec', i')
  BY <1>2, <1>3, <1>5 DEF SpreadOver
<1>7. (\E s : SpreadOver(s, InUse(cells), PromptRoom, n_dec, i))'
  BY <1>6
<1>8. live' \subseteq 0 .. n_dec' - 1 /\ i' < NMax
  BY <1>1, <1>2, <1>4
<1> QED
  BY <1>7, <1>8 DEF SpreadInv

(* The tokens of a step take up a block of their own. *)
LEMMA SpreadOfDecodeTokens ==
  ASSUME KVInv, SpreadInv, NEW success \in BOOLEAN, DecodeTokens(success)
  PROVE  SpreadInv'
<1> USE DEF KVInv
<1>1. PICK b : b = LiveBatch
  OBVIOUS
<1>2. /\ phase = "decode" /\ n_dec' = n_dec /\ Decode(cells, head, b, {}, success)
      /\ phase' = (IF success THEN "sample" ELSE "idle") /\ i' = i + 1
      /\ live' = (IF success THEN live ELSE {})
  BY <1>1 DEF DecodeTokens
<1>3. CASE ~success
  BY <1>2, <1>3 DEF SpreadInv
<1>4. CASE success
  <2>1. /\ n_dec' \in 1 .. NDec /\ cells \in CellsOf(n_dec', Decs) /\ Tidy(cells)
        /\ head \in 0 .. SizeFor(n_dec') /\ Types /\ HistoryInv
        /\ n_dec \in Nat \ {0} /\ i \in Nat
    BY <1>2, KVAssumption DEF Types
  <2>2. IsBatch(b) /\ Len(b) >= 1 /\ BatchTo(b, NDec)
    BY <1>1, <1>2, <2>1, LiveBatchFacts, BatchFacts
  <2>3. Continuing(n_dec', cells, b, {})
    BY <1>1, <1>2, <2>1, LiveContinues
  <2>4. PICK slot \in Nat : GrownTo(n_dec', cells, b, {}, slot, cells')
    BY <1>2, <1>4, <2>1, <2>2, <2>3, DecodeKeeps
  <2>5. live \subseteq 0 .. n_dec - 1
    BY <1>2 DEF SpreadInv
  <2>6. PICK starts : SpreadOver(starts, InUse(cells), PromptRoom, n_dec, i)
    BY <1>2 DEF SpreadInv
  <2>7. PICK d, new, used, m : d = n_dec /\ new = InUse(cells') /\ used = InUse(cells) /\ m = Len(b)
    OBVIOUS
  <2>8. m \in 0 .. d /\ d \in Nat \ {0}
    BY <2>1, <2>2, <2>5, <2>7, BatchFits
  <2>9. \A c \in new : c \in used \/ c \in Slot(slot, m)
    BY <2>4, <2>7, GrownInUse
  <2>10. \A c \in Slot(slot, m) : c \in Slot(slot, d) /\ c \in Nat
    BY <2>8 DEF Slot
  <2>11. SpreadOver(starts, used, PromptRoom, d, i)
    BY <2>6, <2>7
  <2>12. SpreadOver(starts \cup {slot}, new, PromptRoom, d, i + 1)
    <3>1. Cardinality(starts) \in Nat /\ Cardinality(starts) <= i
      BY <2>11, FS_CardinalityType DEF SpreadOver
    <3>2. /\ IsFiniteSet(starts \cup {slot})
          /\ Cardinality(starts \cup {slot}) =
               IF slot \in starts THEN Cardinality(starts) ELSE Cardinality(starts) + 1
      BY <2>11, FS_AddElement DEF SpreadOver
    <3>3. Cardinality(starts \cup {slot}) <= i + 1
      BY <2>1, <3>1, <3>2
    <3>4. starts \cup {slot} \in SUBSET Nat
      BY <2>11 DEF SpreadOver
    <3>5. ASSUME NEW c \in new
          PROVE  c \in Nat /\ (c < PromptRoom \/ \E e \in starts \cup {slot} : c \in Slot(e, d))
      BY <2>9, <2>10, <2>11 DEF SpreadOver
    <3> QED
      BY <3>2, <3>3, <3>4, <3>5 DEF SpreadOver
  <2>13. (\E s : SpreadOver(s, InUse(cells), PromptRoom, n_dec, i))'
    BY <1>2, <2>7, <2>12
  <2> QED
    BY <1>2, <1>4, <2>5, <2>13 DEF SpreadInv
<1> QED
  BY <1>3, <1>4

LEMMA NextSpread == KVInv /\ SpreadInv /\ [Next]_vars => SpreadInv'
<1> SUFFICES ASSUME KVInv, SpreadInv, [Next]_vars PROVE SpreadInv'
  OBVIOUS
<1>1. CASE DetectLanguage
  BY <1>1 DEF DetectLanguage, SpreadInv
<1>2. CASE DecodePrompt(TRUE)
  BY <1>2, SpreadOfDecodePrompt
<1>3. CASE DecodePrompt(FALSE)
  BY <1>3, SpreadOfDecodePrompt
<1>4. CASE Sample
  BY <1>4, SpreadOfSample
<1>5. CASE DecodeTokens(TRUE)
  BY <1>5, SpreadOfDecodeTokens
<1>6. CASE DecodeTokens(FALSE)
  BY <1>6, SpreadOfDecodeTokens
<1>7. CASE EndWindow
  BY <1>7 DEF EndWindow, SpreadInv
<1>8. CASE UNCHANGED vars
  BY <1>8 DEF vars, SpreadInv
<1> QED
  BY <1>1, <1>2, <1>3, <1>4, <1>5, <1>6, <1>7, <1>8 DEF Next

(* whisper_decode_internal finds a slot for the next token of every live    *)
(* decoder, for every size of the text context, every number of decoders    *)
(* and every prompt: "overallocate to workaround KV cache fragmentation     *)
(* issues" gives a window of n_dec cells for every two blocks a step could  *)
(* have spoilt.                                                             *)
THEOREM AlwaysFound == Spec => []SlotAlwaysFound
<1>1. Spec => []SpreadInv
  BY InitSpread, NextSpread, CacheInvariant, PTL DEF Spec
<1> QED
  BY <1>1, RoomForLive, CacheInvariant, PTL
=============================================================================
