------------------------- MODULE ParallelFull_proof -------------------------
(***************************************************************************)
(* The segments of speech that whisper_vad_segments_from_probs finds       *)
(* follow one another and are not empty, no speech that lasts is lost,     *)
(* times of the speech are mapped back to those of the audio, and what the *)
(* threads find is reported in order, for every sequence of probabilities, *)
(* every length of the audio and all durations of vad_params.              *)
(***************************************************************************)
EXTENDS ParallelFull, WellFoundedInduction, TLAPS

-----------------------------------------------------------------------------
(* Induction over data: the induction theorems of the library take an       *)
(* operator, these take a set.                                              *)
NatOrder == {p \in Nat \X Nat : p[1] < p[2]}

(* Every set of naturals has a least element. *)
LEMMA Smallest ==
  ASSUME NEW S, S \subseteq Nat, S # {}
  PROVE  \E x \in S : \A y \in S : x <= y
<1>1. IsWellFoundedOn(NatOrder, Nat)
  BY NatLessThanWellFounded DEF OpToRel, NatOrder
<1>2. \E x \in S : \A y \in S : ~(<<y, x>> \in NatOrder)
  BY <1>1, WFMin
<1>3. PICK x \in S : \A y \in S : ~(<<y, x>> \in NatOrder)
  BY <1>2
<1>4. ASSUME NEW y \in S PROVE x <= y
  <2>1. x \in Nat /\ y \in Nat /\ <<y, x>> \in Nat \X Nat /\ <<y, x>> \notin NatOrder
    BY <1>3
  <2>2. ~(y < x)
    BY <2>1 DEF NatOrder
  <2> QED
    BY <2>1, <2>2
<1> QED
  BY <1>4

(* Induction up to n, over a set. *)
LEMMA UpTo ==
  ASSUME NEW n \in Nat, NEW S, 0 \in S, \A m \in 0 .. n - 1 : m \in S => m + 1 \in S
  PROVE  \A m \in 0 .. n : m \in S
<1> DEFINE out == {m \in 0 .. n : m \notin S}
<1> SUFFICES ASSUME out # {} PROVE FALSE
  OBVIOUS
<1>1. PICK x \in out : \A y \in out : x <= y
  <2>1. out \subseteq Nat
    OBVIOUS
  <2> HIDE DEF out
  <2> QED
    BY <2>1, Smallest
<1>2. x \in Nat /\ x # 0 /\ x - 1 \in 0 .. n - 1 /\ x \notin S
  BY <1>1
<1>3. x - 1 \in S
  <2> SUFFICES ASSUME x - 1 \notin S PROVE FALSE
    OBVIOUS
  <2>1. x - 1 \in out /\ ~(x <= x - 1)
    BY <1>2
  <2> QED
    BY <1>1, <2>1
<1>4. (x - 1) + 1 \in S /\ (x - 1) + 1 = x
  BY <1>2, <1>3
<1> QED
  BY <1>2, <1>4

(* The last index is the greatest. *)
LEMMA MaxIs ==
  ASSUME NEW m \in Nat, NEW S \in SUBSET (1 .. m + 1), m + 1 \in S
  PROVE  Max(S) = m + 1
<1>1. \A y \in S : m + 1 >= y
  OBVIOUS
<1>2. PICK x \in S : x = Max(S) /\ \A y \in S : x >= y
  BY <1>1 DEF Max
<1> QED
  BY <1>2

(* Every set of indexes has a greatest one. *)
LEMMA MaxExists ==
  ASSUME NEW n \in Nat, NEW S \in SUBSET (1 .. n), S # {}
  PROVE  Max(S) \in S
<1> DEFINE below == {n - y : y \in S}
<1>1. below \subseteq Nat /\ below # {}
  <2>1. ASSUME NEW y \in S PROVE n - y \in Nat
    OBVIOUS
  <2>2. PICK y \in S : TRUE
    OBVIOUS
  <2>3. n - y \in below
    OBVIOUS
  <2> QED
    BY <2>1, <2>3
<1>2. PICK x \in below : \A y \in below : x <= y
  <2> HIDE DEF below
  <2> QED
    BY <1>1, Smallest
<1>3. PICK z \in S : x = n - z
  BY <1>2
<1>4. ASSUME NEW y \in S PROVE z >= y
  <2>1. n - y \in below
    OBVIOUS
  <2>2. n - z <= n - y
    BY <1>2, <1>3, <2>1
  <2>3. z \in 1 .. n /\ y \in 1 .. n
    OBVIOUS
  <2> HIDE DEF below
  <2> QED
    BY <2>2, <2>3
<1> QED
  BY <1>4 DEF Max

(* The equation of a fold over the first m elements of s. *)
FoldEq(g, F, b, s, m) ==
  g = [S \in SUBSET (1 .. m) |->
         IF S = {} THEN b ELSE F[<<g[S \ {Max(S)}], s[Max(S)]>>]]

(* A fold over a sequence is well defined. *)
LEMMA FoldExists ==
  ASSUME NEW A, NEW T, NEW F \in [A \X T -> A], NEW b \in A, NEW s \in Seq(T)
  PROVE  \E g \in [SUBSET (1 .. Len(s)) -> A] : FoldEq(g, F, b, s, Len(s))
<1> DEFINE Good == {m \in 0 .. Len(s) : \E g \in [SUBSET (1 .. m) -> A] : FoldEq(g, F, b, s, m)}
<1>0. Len(s) \in Nat
  OBVIOUS
<1>1. 0 \in Good
  <2> DEFINE g == [S \in SUBSET (1 .. 0) |-> b]
  <2>1. SUBSET (1 .. 0) = {{}}
    OBVIOUS
  <2>2. g \in [SUBSET (1 .. 0) -> A] /\ \A S \in SUBSET (1 .. 0) : S = {}
    BY <2>1
  <2>3. FoldEq(g, F, b, s, 0)
    <3>1. \A S \in SUBSET (1 .. 0) :
            b = IF S = {} THEN b ELSE F[<<g[S \ {Max(S)}], s[Max(S)]>>]
      BY <2>2
    <3>2. g = [S \in SUBSET (1 .. 0) |-> b]
      OBVIOUS
    <3> HIDE DEF g
    <3> QED
      BY <3>1, <3>2 DEF FoldEq
  <2> HIDE DEF g
  <2> QED
    <3>1. 0 \in 0 .. Len(s)
      BY <1>0
    <3>2. \E f \in [SUBSET (1 .. 0) -> A] : FoldEq(f, F, b, s, 0)
      BY <2>2, <2>3
    <3> QED
      BY <3>1, <3>2
<1>2. ASSUME NEW m \in 0 .. Len(s) - 1, m \in Good PROVE m + 1 \in Good
  <2>1. m \in Nat /\ m + 1 \in 0 .. Len(s) /\ s[m + 1] \in T
    BY <1>0
  <2>2. PICK g \in [SUBSET (1 .. m) -> A] : FoldEq(g, F, b, s, m)
    BY <1>2
  <2> DEFINE h == [S \in SUBSET (1 .. m + 1) |->
                     IF m + 1 \in S THEN F[<<g[S \ {m + 1}], s[m + 1]>>] ELSE g[S]]
  <2>3. ASSUME NEW S \in SUBSET (1 .. m + 1)
        PROVE  /\ m + 1 \in S => S \ {m + 1} \in SUBSET (1 .. m)
               /\ m + 1 \notin S => S \in SUBSET (1 .. m)
    BY <2>1
  <2>4. h \in [SUBSET (1 .. m + 1) -> A]
    <3>1. ASSUME NEW S \in SUBSET (1 .. m + 1) PROVE h[S] \in A
      <4>1. CASE m + 1 \in S
        <5>1. g[S \ {m + 1}] \in A
          BY <2>3, <4>1
        <5>2. <<g[S \ {m + 1}], s[m + 1]>> \in A \X T
          BY <2>1, <5>1
        <5> QED
          BY <4>1, <5>2
      <4>2. CASE m + 1 \notin S
        BY <2>3, <4>2
      <4> QED
        BY <4>1, <4>2
    <3> QED
      BY <3>1
  <2>5. ASSUME NEW S \in SUBSET (1 .. m + 1)
        PROVE  h[S] = IF S = {} THEN b ELSE F[<<h[S \ {Max(S)}], s[Max(S)]>>]
    <3>1. CASE m + 1 \in S
      <4>1. Max(S) = m + 1
        BY <2>1, <3>1, MaxIs
      <4>2. S \ {m + 1} \in SUBSET (1 .. m + 1) /\ m + 1 \notin S \ {m + 1} /\ S # {}
        BY <3>1
      <4>3. h[S \ {m + 1}] = g[S \ {m + 1}]
        BY <4>2
      <4>4. h[S] = F[<<g[S \ {m + 1}], s[m + 1]>>]
        BY <3>1
      <4> QED
        BY <4>1, <4>2, <4>3, <4>4
    <3>2. CASE m + 1 \notin S
      <4>1. S \in SUBSET (1 .. m) /\ h[S] = g[S]
        BY <2>3, <3>2
      <4>2. g[S] = IF S = {} THEN b ELSE F[<<g[S \ {Max(S)}], s[Max(S)]>>]
        BY <2>2, <4>1 DEF FoldEq
      <4>3. S \ {Max(S)} \in SUBSET (1 .. m + 1) /\ m + 1 \notin S \ {Max(S)}
        BY <3>2
      <4>4. h[S \ {Max(S)}] = g[S \ {Max(S)}]
        BY <4>3
      <4> QED
        BY <4>1, <4>2, <4>4
    <3> QED
      BY <3>1, <3>2
  <2>6. FoldEq(h, F, b, s, m + 1)
    <3>1. h = [S \in SUBSET (1 .. m + 1) |-> h[S]]
      OBVIOUS
    <3> HIDE DEF h
    <3> QED
      BY <2>5, <3>1 DEF FoldEq
  <2> HIDE DEF h
  <2> QED
    BY <2>1, <2>4, <2>6
<1>3. Len(s) \in Good
  <2> HIDE DEF Good
  <2>1. \A m \in 0 .. Len(s) : m \in Good
    BY <1>0, <1>1, <1>2, UpTo
  <2> QED
    BY <1>0, <2>1
<1> QED
  BY <1>3

(* What the equation of a fold says of the first m + 1 elements. *)
LEMMA Prefix ==
  ASSUME NEW n \in Nat, NEW m \in 0 .. n - 1
  PROVE  /\ 1 .. m + 1 \in SUBSET (1 .. n) /\ 1 .. m + 1 # {}
         /\ Max(1 .. m + 1) = m + 1 /\ (1 .. m + 1) \ {m + 1} = 1 .. m
<1>1. PICK S : S = 1 .. m + 1
  OBVIOUS
<1>2. m \in Nat /\ m + 1 \in S /\ S \in SUBSET (1 .. m + 1) /\ S \in SUBSET (1 .. n)
  BY <1>1
<1>3. Max(S) = m + 1
  BY <1>2, MaxIs
<1>4. S # {} /\ S \ {m + 1} = 1 .. m
  <2>1. ASSUME NEW x PROVE x \in S \ {m + 1} <=> x \in 1 .. m
    BY <1>1, <1>2
  <2>2. S \ {m + 1} = 1 .. m
    BY <2>1, Zenon
  <2> QED
    BY <1>2, <2>2
<1> QED
  BY <1>1, <1>2, <1>3, <1>4, Zenon

-----------------------------------------------------------------------------
(* Segments in samples. *)
Speech == [start : Nat, end : Nat]

(* One after the other, and each at least a window long.                    *)
Apart(sp) ==
  /\ sp \in Seq(Speech)
  /\ \A k \in 1 .. Len(sp) : sp[k].start + n_window <= sp[k].end
  /\ \A k \in 1 .. Len(sp) - 1 : sp[k].end <= sp[k + 1].start

EndsBy(sp, t) == sp # <<>> => sp[Len(sp)].end <= t

LEMMA ApartEmpty == Apart(<<>>) /\ \A t : EndsBy(<<>>, t)
BY DEF Apart, EndsBy

LEMMA ApartAppend ==
  ASSUME NEW sp, Apart(sp), NEW x \in Speech, EndsBy(sp, x.start), x.start + n_window <= x.end
  PROVE  /\ Apart(Append(sp, x)) /\ Append(sp, x) # <<>>
         /\ Append(sp, x)[Len(Append(sp, x))] = x
<1> DEFINE r == Append(sp, x)
<1>1. sp \in Seq(Speech) /\ Len(sp) \in Nat
  BY DEF Apart
<1>2. /\ r \in Seq(Speech) /\ Len(r) = Len(sp) + 1 /\ r[Len(sp) + 1] = x
      /\ \A k \in 1 .. Len(sp) : r[k] = sp[k]
  BY <1>1
<1> HIDE DEF r
<1>3. ASSUME NEW k \in 1 .. Len(r) PROVE r[k].start + n_window <= r[k].end
  <2>1. CASE k = Len(sp) + 1
    BY <1>2, <2>1
  <2>2. CASE k # Len(sp) + 1
    <3>1. k \in 1 .. Len(sp)
      BY <1>1, <1>2, <2>2
    <3> QED
      BY <1>2, <3>1 DEF Apart
  <2> QED
    BY <2>1, <2>2
<1>4. ASSUME NEW k \in 1 .. Len(r) - 1 PROVE r[k].end <= r[k + 1].start
  <2>1. k \in 1 .. Len(sp) /\ r[k] = sp[k]
    BY <1>1, <1>2
  <2>2. CASE k = Len(sp)
    <3>1. sp # <<>>
      BY <1>1, <2>1
    <3>2. sp[k].end <= x.start /\ r[k + 1] = x
      BY <1>2, <2>2, <3>1 DEF EndsBy
    <3> QED
      BY <2>1, <3>2
  <2>3. CASE k # Len(sp)
    <3>1. k \in 1 .. Len(sp) - 1 /\ k + 1 \in 1 .. Len(sp)
      BY <1>1, <2>1, <2>3
    <3>2. sp[k].end <= sp[k + 1].start
      BY <3>1 DEF Apart
    <3> QED
      BY <1>2, <2>1, <3>1, <3>2
  <2> QED
    BY <2>2, <2>3
<1>5. r # <<>> /\ r[Len(r)] = x
  <2>1. Len(r) # 0
    BY <1>1, <1>2
  <2> QED
    BY <1>2, <2>1
<1> QED
  BY <1>2, <1>3, <1>4, <1>5 DEF Apart, r

-----------------------------------------------------------------------------
(* The scan. *)
ScanType ==
  [speeches : Seq(Speech), in_speech : BOOLEAN, start : Nat,
   temp_end : Nat, prev_end : Nat, next_start : Nat]

(* When the scan comes to the window at the sample at, what it has found    *)
(* ends by then; speech began a window before, the silences it remembers    *)
(* began a window after it, and speech has gone on before this window.      *)
ScanOK(s, at) ==
  /\ s \in ScanType /\ Apart(s.speeches) /\ EndsBy(s.speeches, at)
  /\ ~s.in_speech => s.temp_end = 0 /\ s.prev_end = 0 /\ s.next_start = 0
  /\ s.in_speech =>
       /\ EndsBy(s.speeches, s.start) /\ s.start + n_window <= at
       /\ s.temp_end # 0 => s.start + n_window <= s.temp_end /\ s.temp_end <= at
       /\ s.prev_end # 0 => s.start + n_window <= s.prev_end /\ s.prev_end <= at
       /\ s.next_start # 0 => s.next_start + n_window <= at

(* In the middle of that window, speech may just have begun or gone on.     *)
MidOK(s, at) ==
  /\ s \in ScanType /\ Apart(s.speeches) /\ EndsBy(s.speeches, at)
  /\ ~s.in_speech => s.temp_end = 0 /\ s.prev_end = 0 /\ s.next_start = 0
  /\ s.in_speech =>
       /\ EndsBy(s.speeches, s.start) /\ s.start <= at
       /\ s.temp_end # 0 => s.start + n_window <= s.temp_end /\ s.temp_end <= at
       /\ s.prev_end # 0 => s.start + n_window <= s.prev_end /\ s.prev_end <= at
       /\ s.next_start <= at

LEMMA EndsLater ==
  ASSUME NEW sp, Apart(sp), NEW t \in Nat, NEW u \in Nat, EndsBy(sp, t), t <= u
  PROVE  EndsBy(sp, u)
<1> SUFFICES ASSUME sp # <<>> PROVE sp[Len(sp)].end <= u
  BY DEF EndsBy
<1>1. sp \in Seq(Speech) /\ Len(sp) \in 1 .. Len(sp)
  BY DEF Apart
<1>2. sp[Len(sp)] \in Speech
  BY <1>1
<1>3. sp[Len(sp)].end \in Nat /\ sp[Len(sp)].end <= t
  BY <1>2 DEF Speech, EndsBy
<1> QED
  BY <1>3

LEMMA MidIsScan ==
  ASSUME NEW s, NEW at \in Nat, MidOK(s, at)
  PROVE  ScanOK(s, at + n_window)
<1>1. s \in ScanType /\ n_window \in Nat /\ at + n_window \in Nat /\ at <= at + n_window
  BY WindowAssumption DEF MidOK
<1>2. /\ s.start \in Nat /\ s.temp_end \in Nat /\ s.prev_end \in Nat /\ s.next_start \in Nat
  BY <1>1 DEF ScanType
<1>3. EndsBy(s.speeches, at + n_window)
  BY <1>1, EndsLater DEF MidOK
<1>4. ASSUME s.in_speech
      PROVE  /\ s.start + n_window <= at + n_window
             /\ s.temp_end # 0 => s.temp_end <= at + n_window
             /\ s.prev_end # 0 => s.prev_end <= at + n_window
             /\ s.next_start # 0 => s.next_start + n_window <= at + n_window
  BY <1>1, <1>2, <1>4 DEF MidOK
<1> QED
  BY <1>1, <1>3, <1>4 DEF MidOK, ScanOK

(* A segment that ends at e has been found, and no speech goes on.          *)
LEMMA EndedOK ==
  ASSUME NEW s \in ScanType, Apart(s.speeches), NEW at \in Nat,
         EndsBy(s.speeches, at)
  PROVE  MidOK(Ended(s), at) /\ ~Ended(s).in_speech /\ Ended(s).speeches = s.speeches
<1>1. PICK q : q = Ended(s)
  OBVIOUS
<1>2. q = [speeches |-> s.speeches, in_speech |-> FALSE, start |-> 0,
           temp_end |-> 0, prev_end |-> 0, next_start |-> 0]
  BY <1>1 DEF Ended, NoScan
<1>3. s.speeches \in Seq(Speech)
  BY DEF ScanType
<1>4. q \in ScanType /\ q.speeches = s.speeches /\ ~q.in_speech
      /\ q.temp_end = 0 /\ q.prev_end = 0 /\ q.next_start = 0
  BY <1>2, <1>3 DEF ScanType
<1> QED
  BY <1>1, <1>4 DEF MidOK

LEMMA PushOK ==
  ASSUME NEW s \in ScanType, Apart(s.speeches), EndsBy(s.speeches, s.start),
         NEW e \in Nat, s.start + n_window <= e
  PROVE  /\ Push(s, e) \in ScanType /\ Apart(Push(s, e).speeches)
         /\ EndsBy(Push(s, e).speeches, e) /\ Push(s, e).start = s.start
<1>1. PICK q, x, sp : /\ q = Push(s, e) /\ x = [start |-> s.start, end |-> e]
                      /\ sp = Append(s.speeches, x)
  OBVIOUS
<1>2. x \in Speech /\ x.start = s.start /\ x.end = e
  BY <1>1 DEF ScanType, Speech
<1>3. Apart(sp) /\ sp # <<>> /\ sp[Len(sp)] = x
  BY <1>1, <1>2, ApartAppend
<1>4. q = [s EXCEPT !.speeches = sp]
  BY <1>1 DEF Push
<1>5. sp \in Seq(Speech)
  BY <1>3 DEF Apart
<1>6. q \in ScanType /\ q.speeches = sp /\ q.start = s.start
  BY <1>4, <1>5 DEF ScanType
<1>7. EndsBy(sp, e)
  BY <1>2, <1>3 DEF EndsBy
<1> QED
  BY <1>1, <1>3, <1>6, <1>7

LEMMA ScanIsMid ==
  ASSUME NEW s, NEW at \in Nat, ScanOK(s, at)
  PROVE  MidOK(s, at) /\ (s.in_speech => s.start + n_window <= at)
<1>1. s \in ScanType /\ n_window \in Nat
  BY WindowAssumption DEF ScanOK
<1>2. s.start \in Nat /\ s.next_start \in Nat
  BY <1>1 DEF ScanType
<1>3. s.in_speech => s.start <= at /\ s.next_start <= at
  BY <1>1, <1>2 DEF ScanOK
<1> QED
  BY <1>1, <1>3 DEF ScanOK, MidOK

LEMMA ReturnedOK ==
  ASSUME NEW s, NEW at \in Nat, ScanOK(s, at)
  PROVE  /\ MidOK(Returned(s, at), at)
         /\ Returned(s, at).in_speech => Returned(s, at).start + n_window <= at
<1>1. PICK q : q = Returned(s, at)
  OBVIOUS
<1>0. MidOK(s, at) /\ (s.in_speech => s.start + n_window <= at)
  BY ScanIsMid
<1>2. CASE s.temp_end = 0
  BY <1>0, <1>2 DEF Returned
<1>3. CASE s.temp_end # 0
  <2>1. q = [s EXCEPT !.temp_end = 0,
                      !.next_start = IF s.next_start < s.prev_end THEN at ELSE s.next_start]
    BY <1>1, <1>3 DEF Returned
  <2>2. s \in ScanType /\ s.in_speech
    BY <1>3 DEF ScanOK
  <2>3. /\ q \in ScanType /\ q.speeches = s.speeches /\ q.start = s.start
        /\ q.in_speech = s.in_speech /\ q.temp_end = 0 /\ q.prev_end = s.prev_end
        /\ q.next_start \in {at, s.next_start}
    BY <2>1, <2>2 DEF ScanType
  <2> QED
    <3>1. s.next_start \in Nat /\ q.next_start <= at
      BY <1>0, <2>2, <2>3 DEF MidOK, ScanType
    <3>2. MidOK(q, at)
      BY <1>0, <2>2, <2>3, <3>1 DEF MidOK
    <3> QED
      BY <1>0, <1>1, <2>2, <2>3, <3>2
<1> QED
  BY <1>2, <1>3

LEMMA SplitOK ==
  ASSUME NEW s, NEW at \in Nat, MidOK(s, at), s.in_speech, s.prev_end # 0
  PROVE  /\ MidOK(Split(s), at)
         /\ Split(s).in_speech => Split(s).start = s.next_start /\ s.next_start # 0
<1>1. PICK p, q, r : p = Push(s, s.prev_end) /\ q = Ended(p) /\ r = Split(s)
  OBVIOUS
<1>2. /\ s \in ScanType /\ s.prev_end \in Nat /\ s.start + n_window <= s.prev_end /\ s.prev_end <= at
      /\ s.next_start \in Nat /\ s.next_start <= at
  BY DEF MidOK, ScanType
<1>3. /\ p \in ScanType /\ Apart(p.speeches) /\ EndsBy(p.speeches, s.prev_end)
  BY <1>1, <1>2, PushOK DEF MidOK
<1>4. EndsBy(p.speeches, at)
  BY <1>2, <1>3, EndsLater
<1>5. MidOK(q, at) /\ ~q.in_speech /\ q.speeches = p.speeches
  BY <1>1, <1>3, <1>4, EndedOK
<1>6. q \in ScanType /\ q.temp_end = 0 /\ q.prev_end = 0 /\ q.next_start = 0
  BY <1>5 DEF MidOK
<1>7. CASE s.next_start < s.prev_end
  <2>1. r = q
    BY <1>1, <1>7 DEF Split
  <2> QED
    BY <1>1, <1>5, <2>1
<1>8. CASE ~(s.next_start < s.prev_end)
  <2>1. r = [q EXCEPT !.in_speech = TRUE, !.start = s.next_start]
    BY <1>1, <1>8 DEF Split
  <2>2. /\ r \in ScanType /\ r.speeches = p.speeches /\ r.in_speech /\ r.start = s.next_start
        /\ r.temp_end = 0 /\ r.prev_end = 0 /\ r.next_start = 0
    BY <1>2, <1>5, <1>6, <2>1 DEF ScanType
  <2>3. EndsBy(p.speeches, s.next_start)
    BY <1>2, <1>3, <1>8, EndsLater
  <2>4. MidOK(r, at)
    BY <1>2, <1>3, <1>4, <2>2, <2>3 DEF MidOK
  <2>5. s.next_start # 0
    BY <1>2, <1>8
  <2> QED
    BY <1>1, <2>2, <2>4, <2>5
<1> QED
  BY <1>7, <1>8

LEMMA StartedOK ==
  ASSUME NEW s, NEW at \in Nat, MidOK(s, at), ~s.in_speech
  PROVE  MidOK(Started(s, at), at)
<1>1. PICK q : q = [s EXCEPT !.in_speech = TRUE, !.start = at]
  OBVIOUS
<1>2. s \in ScanType
  BY DEF MidOK
<1>3. /\ q \in ScanType /\ q.speeches = s.speeches /\ q.start = at /\ q.in_speech
      /\ q.temp_end = s.temp_end /\ q.prev_end = s.prev_end /\ q.next_start = s.next_start
  BY <1>1, <1>2 DEF ScanType
<1>4. MidOK(q, at)
  BY <1>3 DEF MidOK
<1> QED
  BY <1>1, <1>4 DEF Started

(* A window of silence, a window after the speech began or later.           *)
LEMMA SilentOK ==
  ASSUME NEW s, NEW at \in Nat, MidOK(s, at), s.in_speech, s.start + n_window <= at, NEW p
  PROVE  MidOK(Silent(s, at, p), at)
<1>1. PICK te : te = IF s.temp_end = 0 THEN at ELSE s.temp_end
  OBVIOUS
<1>2. PICK q : q = [s EXCEPT !.temp_end = te,
                             !.prev_end = IF at - te > SplitSilence THEN te ELSE s.prev_end]
  OBVIOUS
<1>3. PICK r : r = Ended(IF te - s.start > Ms(p.min_speech) THEN Push(s, te) ELSE s)
  OBVIOUS
<1>4. Silent(s, at, p) = IF at - te < Ms(p.min_silence) THEN q ELSE r
  BY <1>1, <1>2, <1>3 DEF Silent
<1>5. /\ s \in ScanType /\ s.start \in Nat /\ s.temp_end \in Nat /\ Apart(s.speeches)
      /\ EndsBy(s.speeches, s.start) /\ EndsBy(s.speeches, at)
  BY DEF MidOK, ScanType
<1>6. te \in Nat /\ s.start + n_window <= te /\ te <= at
  BY <1>1, <1>5 DEF MidOK
<1>7. MidOK(q, at)
  <2>1. /\ q \in ScanType /\ q.speeches = s.speeches /\ q.start = s.start
        /\ q.in_speech = s.in_speech /\ q.temp_end = te /\ q.prev_end \in {te, s.prev_end}
        /\ q.next_start = s.next_start
    BY <1>2, <1>5, <1>6 DEF ScanType
  <2> QED
    BY <1>6, <2>1 DEF MidOK
<1>8. MidOK(r, at)
  <2>1. CASE te - s.start > Ms(p.min_speech)
    <3>1. PICK u : u = Push(s, te)
      OBVIOUS
    <3>2. u \in ScanType /\ Apart(u.speeches) /\ EndsBy(u.speeches, te)
      BY <1>5, <1>6, <3>1, PushOK
    <3>3. EndsBy(u.speeches, at)
      BY <1>6, <3>2, EndsLater
    <3>4. r = Ended(u)
      BY <1>3, <2>1, <3>1
    <3> QED
      BY <3>2, <3>3, <3>4, EndedOK
  <2>2. CASE ~(te - s.start > Ms(p.min_speech))
    <3>1. r = Ended(s)
      BY <1>3, <2>2
    <3> QED
      BY <1>5, <3>1, EndedOK
  <2> QED
    BY <2>1, <2>2
<1> QED
  BY <1>4, <1>7, <1>8

(* One window of the loop, whatever its probability.                        *)
LEMMA WindowOK ==
  ASSUME NEW s, NEW at \in Nat, ScanOK(s, at), NEW level \in Levels, NEW p
  PROVE  ScanOK(Window(s, level, at, p), at + n_window)
<1>1. PICK b, c, r : /\ b = (IF level = "speech" THEN Returned(s, at) ELSE s)
                     /\ c = (IF TooLong(b, at, p) THEN Split(b) ELSE b)
                     /\ r = Window(s, level, at, p)
  OBVIOUS
<1>2. r = IF level = "speech" /\ ~b.in_speech THEN Started(b, at)
          ELSE IF TooLong(b, at, p) /\ b.prev_end = 0 THEN Ended(Push(b, at))
          ELSE IF level = "silence" /\ c.in_speech THEN Silent(c, at, p)
          ELSE c
  BY <1>1 DEF Window
<1>4. MidOK(b, at) /\ (b.in_speech => b.start + n_window <= at)
  BY <1>1, ReturnedOK, ScanIsMid
<1>5. CASE level = "speech" /\ ~b.in_speech
  BY <1>1, <1>2, <1>4, <1>5, StartedOK, MidIsScan
<1>6. CASE ~(level = "speech" /\ ~b.in_speech) /\ TooLong(b, at, p) /\ b.prev_end = 0
  <2>1. b.in_speech
    BY <1>6 DEF TooLong
  <2>2. PICK u : u = Push(b, at)
    OBVIOUS
  <2>3. u \in ScanType /\ Apart(u.speeches) /\ EndsBy(u.speeches, at)
    BY <1>4, <2>1, <2>2, PushOK DEF MidOK
  <2>4. MidOK(Ended(u), at)
    BY <2>3, EndedOK
  <2>5. r = Ended(u)
    BY <1>2, <1>6, <2>2
  <2> QED
    BY <1>1, <2>4, <2>5, MidIsScan
<1>7. CASE ~(level = "speech" /\ ~b.in_speech) /\ ~(TooLong(b, at, p) /\ b.prev_end = 0)
  <2>1. MidOK(c, at) /\ (level = "silence" /\ c.in_speech => c.start + n_window <= at)
    <3>1. CASE TooLong(b, at, p)
      <4>1. b.in_speech /\ b.prev_end # 0 /\ c = Split(b)
        BY <1>1, <1>7, <3>1 DEF TooLong
      <4>2. MidOK(c, at) /\ (c.in_speech => c.start = b.next_start /\ b.next_start # 0)
        BY <1>4, <4>1, SplitOK
      <4>3. level = "silence" => b = s
        BY <1>1
      <4>4. level = "silence" /\ c.in_speech => c.start + n_window <= at
        BY <4>1, <4>2, <4>3 DEF ScanOK
      <4> QED
        BY <4>2, <4>4
    <3>2. CASE ~TooLong(b, at, p)
      BY <1>1, <1>4, <3>2
    <3> QED
      BY <3>1, <3>2
  <2>2. CASE level = "silence" /\ c.in_speech
    BY <1>1, <1>2, <1>7, <2>1, <2>2, SilentOK, MidIsScan
  <2>3. CASE ~(level = "silence" /\ c.in_speech)
    BY <1>1, <1>2, <1>7, <2>1, <2>3, MidIsScan
  <2> QED
    BY <2>2, <2>3
<1> QED
  BY <1>5, <1>6, <1>7

-----------------------------------------------------------------------------
(* After the scan. *)
LEMMA TailOK ==
  ASSUME NEW s, NEW length \in Nat, ScanOK(s, length), NEW p
  PROVE  Apart(WithTail(s, length, p)) /\ EndsBy(WithTail(s, length, p), length)
<1>1. s \in ScanType /\ Apart(s.speeches) /\ EndsBy(s.speeches, length)
  BY DEF ScanOK
<1>2. CASE s.in_speech /\ length - s.start > Ms(p.min_speech)
  <2>1. Apart(Push(s, length).speeches) /\ EndsBy(Push(s, length).speeches, length)
    BY <1>1, <1>2, PushOK DEF ScanOK
  <2> QED
    BY <1>2, <2>1 DEF WithTail
<1>3. CASE ~(s.in_speech /\ length - s.start > Ms(p.min_speech))
  BY <1>1, <1>3 DEF WithTail
<1> QED
  BY <1>2, <1>3

LEMMA MergeTyped ==
  ASSUME NEW merged \in Seq(Speech), NEW x \in Speech
  PROVE  Merge(merged, x) \in Seq(Speech)
<1>1. CASE merged # <<>> /\ x.start - Last(merged).end < MaxMergeGap
  <2>1. PICK k : k = Len(merged)
    OBVIOUS
  <2>2. Merge(merged, x) = [merged EXCEPT ![k] = [merged[k] EXCEPT !.end = x.end]]
    BY <1>1, <2>1 DEF Merge
  <2>3. k \in 1 .. Len(merged)
    BY <1>1, <2>1
  <2>4. merged[k] \in Speech
    BY <2>3
  <2>5. PICK y : y = [merged[k] EXCEPT !.end = x.end]
    OBVIOUS
  <2>6. y \in Speech
    BY <2>4, <2>5 DEF Speech
  <2>7. PICK r : r = [merged EXCEPT ![k] = y]
    OBVIOUS
  <2>8. r \in Seq(Speech)
    BY <2>3, <2>6, <2>7
  <2> QED
    BY <2>2, <2>5, <2>7, <2>8
<1>2. CASE ~(merged # <<>> /\ x.start - Last(merged).end < MaxMergeGap)
  BY <1>2 DEF Merge
<1> QED
  BY <1>1, <1>2

(* The merged segments end with the last one merged. *)
MergedTo(sp, m, a) ==
  /\ Apart(a)
  /\ m = 0 => a = <<>>
  /\ m > 0 => a # <<>> /\ a[Len(a)].end = sp[m].end

LEMMA MergeOne ==
  ASSUME NEW sp, Apart(sp), NEW m \in 0 .. Len(sp) - 1, NEW a, MergedTo(sp, m, a)
  PROVE  MergedTo(sp, m + 1, Merge(a, sp[m + 1]))
<1>0. PICK x, r : x = sp[m + 1] /\ r = Merge(a, sp[m + 1])
  OBVIOUS
<1>1. /\ sp \in Seq(Speech) /\ Len(sp) \in Nat /\ m \in Nat /\ m + 1 \in 1 .. Len(sp)
      /\ a \in Seq(Speech) /\ Apart(a) /\ n_window \in Nat
  BY WindowAssumption DEF Apart, MergedTo
<1>2. x \in Speech /\ x.start \in Nat /\ x.end \in Nat /\ x.start + n_window <= x.end
  <2>1. x \in Speech
    BY <1>0, <1>1
  <2> QED
    BY <1>0, <1>1, <2>1 DEF Apart, Speech
<1>3. EndsBy(a, x.start)
  <2> SUFFICES ASSUME a # <<>> PROVE a[Len(a)].end <= x.start
    BY DEF EndsBy
  <2>1. m > 0 /\ a[Len(a)].end = sp[m].end
    BY <1>1 DEF MergedTo
  <2>2. m \in 1 .. Len(sp) - 1
    BY <1>1, <2>1
  <2> QED
    BY <1>0, <2>1, <2>2 DEF Apart
<1>4. CASE a # <<>> /\ x.start - Last(a).end < MaxMergeGap
  <2>1. PICK k, y : k = Len(a) /\ y = [a[k] EXCEPT !.end = x.end]
    OBVIOUS
  <2>2. k \in Nat /\ k \in 1 .. Len(a) /\ a[k] \in Speech
    <3>1. k \in 1 .. Len(a)
      BY <1>1, <1>4, <2>1
    <3> QED
      BY <1>1, <3>1
  <2>3. r = [a EXCEPT ![k] = y]
    BY <1>0, <1>4, <2>1 DEF Merge
  <2>4. y \in Speech /\ y.start = a[k].start /\ y.end = x.end
    BY <1>2, <2>1, <2>2 DEF Speech
  <2>5. r \in Seq(Speech) /\ Len(r) = k /\ r[k] = y /\ \A z \in 1 .. k : z # k => r[z] = a[z]
    BY <1>1, <2>1, <2>2, <2>3, <2>4
  <2>6. y.start + n_window <= y.end
    <3>1. a[k].start + n_window <= a[k].end /\ a[k].end <= x.start
      BY <1>1, <1>3, <1>4, <2>1, <2>2 DEF Apart, EndsBy
    <3>2. a[k].start \in Nat /\ a[k].end \in Nat
      BY <2>2 DEF Speech
    <3>3. PICK b, c : b = a[k].start /\ c = a[k].end
      OBVIOUS
    <3>4. b \in Nat /\ c \in Nat /\ b + n_window <= c /\ c <= x.start /\ n_window \in Nat
      BY <1>1, <3>1, <3>2, <3>3
    <3>5. b + n_window <= x.end
      BY ONLY <1>2, <3>4
    <3> QED
      BY <2>4, <3>3, <3>5
  <2>7. ASSUME NEW z \in 1 .. Len(r) PROVE r[z].start + n_window <= r[z].end
    <3>1. z \in 1 .. Len(a) /\ z \in 1 .. k
      BY <2>1, <2>5
    <3>2. CASE z = k
      BY <2>5, <2>6, <3>2
    <3>3. CASE z # k
      BY <1>1, <2>5, <3>1, <3>3 DEF Apart
    <3> QED
      BY <3>2, <3>3
  <2>8. ASSUME NEW z \in 1 .. Len(r) - 1 PROVE r[z].end <= r[z + 1].start
    <3>1. z \in 1 .. Len(a) - 1 /\ z \in 1 .. k /\ z # k /\ z + 1 \in 1 .. k
      BY <2>1, <2>2, <2>5
    <3>2. r[z] = a[z] /\ a[z].end <= a[z + 1].start
      BY <1>1, <2>5, <3>1 DEF Apart
    <3>3. r[z + 1].start = a[z + 1].start
      <4>1. CASE z + 1 = k
        BY <2>4, <2>5, <4>1
      <4>2. CASE z + 1 # k
        BY <2>5, <3>1, <4>2
      <4> QED
        BY <4>1, <4>2
    <3> QED
      BY <3>2, <3>3
  <2>9. Apart(r) /\ r # <<>> /\ r[Len(r)].end = x.end
    <3>1. r # <<>>
      BY <2>2, <2>5
    <3> QED
      BY <2>4, <2>5, <2>7, <2>8, <3>1 DEF Apart
  <2> QED
    BY <1>0, <1>1, <2>9 DEF MergedTo
<1>5. CASE ~(a # <<>> /\ x.start - Last(a).end < MaxMergeGap)
  <2>1. r = Append(a, x)
    BY <1>0, <1>5 DEF Merge
  <2>2. Apart(r) /\ r # <<>> /\ r[Len(r)] = x
    BY <1>1, <1>2, <1>3, <2>1, ApartAppend
  <2> QED
    BY <1>0, <1>1, <2>2 DEF MergedTo
<1> QED
  BY <1>4, <1>5

(* The loop that merges, one segment after the other. *)
LEMMA MergedSteps ==
  ASSUME NEW sp \in Seq(Speech)
  PROVE  \E f : /\ f[0] = <<>> /\ Merged(sp) = f[Len(sp)]
                /\ \A m \in 0 .. Len(sp) - 1 : f[m + 1] = Merge(f[m], sp[m + 1])
<1> DEFINE A == Seq(Speech)
           F == [x \in A \X Speech |-> Merge(x[1], x[2])]
           Eq(g) == g = [S \in SUBSET DOMAIN sp |->
                          IF S = {} THEN <<>> ELSE Merge(g[S \ {Max(S)}], sp[Max(S)])]
<1>0. DOMAIN sp = 1 .. Len(sp) /\ Len(sp) \in Nat /\ <<>> \in A
  OBVIOUS
<1>1. F \in [A \X Speech -> A]
  <2>1. ASSUME NEW a \in A, NEW x \in Speech PROVE Merge(a, x) \in A
    BY MergeTyped
  <2> QED
    BY <2>1
<1>2. PICK h \in [SUBSET (1 .. Len(sp)) -> A] : FoldEq(h, F, <<>>, sp, Len(sp))
  <2> HIDE DEF F, A
  <2> QED
    BY <1>0, <1>1, FoldExists
<1>3. ASSUME NEW S \in SUBSET (1 .. Len(sp)), S # {}
      PROVE  /\ S \ {Max(S)} \in SUBSET (1 .. Len(sp)) /\ sp[Max(S)] \in Speech
  <2>1. Max(S) \in S
    BY <1>0, <1>3, MaxExists
  <2>2. PICK k : k = Max(S) /\ k \in 1 .. Len(sp)
    BY <2>1
  <2>3. sp[k] \in Speech
    BY <2>2
  <2> HIDE DEF A, F, Eq
  <2> QED
    BY <2>2, <2>3
<1>4. Eq(h)
  <2>1. ASSUME NEW S \in SUBSET (1 .. Len(sp))
        PROVE  h[S] = IF S = {} THEN <<>> ELSE Merge(h[S \ {Max(S)}], sp[Max(S)])
    <3>1. h[S] = IF S = {} THEN <<>> ELSE F[<<h[S \ {Max(S)}], sp[Max(S)]>>]
      BY <1>2 DEF FoldEq
    <3>2. S # {} => <<h[S \ {Max(S)}], sp[Max(S)]>> \in A \X Speech
      BY <1>3
    <3>3. S # {} => F[<<h[S \ {Max(S)}], sp[Max(S)]>>] = Merge(h[S \ {Max(S)}], sp[Max(S)])
      BY <3>2
    <3> HIDE DEF F
    <3> QED
      BY <3>1, <3>3
  <2>2. h = [S \in SUBSET (1 .. Len(sp)) |-> h[S]]
    OBVIOUS
  <2> QED
    BY <1>0, <2>1, <2>2
<1>5. Merged(sp) = (CHOOSE g : Eq(g))[DOMAIN sp]
  BY Zenon DEF Merged, FoldLeft, MapThenFoldSet
<1>6. PICK g : g = (CHOOSE f : Eq(f)) /\ Eq(g)
  <2> HIDE DEF Eq
  <2> QED
    BY <1>4
<1>7. PICK D : D = SUBSET (1 .. Len(sp))
  OBVIOUS
<1>8. \A S \in D : g[S] = IF S = {} THEN <<>> ELSE Merge(g[S \ {Max(S)}], sp[Max(S)])
  <2>1. g = [S \in D |-> IF S = {} THEN <<>> ELSE Merge(g[S \ {Max(S)}], sp[Max(S)])]
    BY <1>0, <1>6, <1>7
  <2> QED
    BY <2>1, Zenon
<1>9. PICK f : f = [m \in 0 .. Len(sp) |-> g[1 .. m]]
  OBVIOUS
<1>10. f[0] = <<>>
  <2>1. 1 .. 0 = {} /\ {} \in D
    BY <1>7
  <2>2. g[{}] = <<>>
    BY <1>8, <2>1
  <2> QED
    BY <1>0, <1>9, <2>1, <2>2
<1>11. f[Len(sp)] = Merged(sp)
  <2>1. f[Len(sp)] = g[1 .. Len(sp)]
    BY <1>0, <1>9
  <2> QED
    BY <1>0, <1>5, <1>6, <2>1
<1>12. ASSUME NEW m \in 0 .. Len(sp) - 1 PROVE f[m + 1] = Merge(f[m], sp[m + 1])
  <2>1. PICK S : S = 1 .. m + 1
    OBVIOUS
  <2>2. S \in D /\ S # {} /\ Max(S) = m + 1 /\ S \ {m + 1} = 1 .. m
    BY <1>0, <1>7, <2>1, Prefix
  <2>3. g[S] = Merge(g[1 .. m], sp[m + 1])
    BY <1>8, <2>2
  <2>4. f[m] = g[1 .. m] /\ f[m + 1] = g[S]
    BY <1>0, <1>9, <2>1
  <2> QED
    BY <2>3, <2>4
<1> QED
  BY <1>10, <1>11, <1>12

LEMMA MergedOK ==
  ASSUME NEW sp, Apart(sp), NEW length \in Nat, EndsBy(sp, length)
  PROVE  Apart(Merged(sp)) /\ EndsBy(Merged(sp), length)
<1>1. sp \in Seq(Speech) /\ Len(sp) \in Nat
  BY DEF Apart
<1>2. PICK f : /\ f[0] = <<>> /\ Merged(sp) = f[Len(sp)]
               /\ \A m \in 0 .. Len(sp) - 1 : f[m + 1] = Merge(f[m], sp[m + 1])
  BY <1>1, MergedSteps
<1> DEFINE Good == {m \in 0 .. Len(sp) : MergedTo(sp, m, f[m])}
<1>3. 0 \in Good
  <2>1. MergedTo(sp, 0, <<>>)
    BY ApartEmpty DEF MergedTo
  <2> QED
    BY <1>1, <1>2, <2>1
<1>4. ASSUME NEW m \in 0 .. Len(sp) - 1, m \in Good PROVE m + 1 \in Good
  <2>1. MergedTo(sp, m, f[m])
    BY <1>4
  <2>2. MergedTo(sp, m + 1, f[m + 1])
    BY <1>2, <2>1, MergeOne
  <2> QED
    BY <1>1, <2>2
<1>5. Len(sp) \in Good
  <2> HIDE DEF Good
  <2>1. \A m \in 0 .. Len(sp) : m \in Good
    BY <1>1, <1>3, <1>4, UpTo
  <2> QED
    BY <1>1, <2>1
<1>6. MergedTo(sp, Len(sp), Merged(sp))
  BY <1>2, <1>5
<1>7. EndsBy(Merged(sp), length)
  <2>1. CASE Len(sp) = 0
    BY <1>6, <2>1 DEF MergedTo, EndsBy
  <2>2. CASE Len(sp) # 0
    <3>1. sp # <<>> /\ Len(sp) > 0
      BY <1>1, <2>2
    <3> QED
      BY <1>6, <3>1 DEF MergedTo, EndsBy
  <2> QED
    BY <2>1, <2>2
<1> QED
  BY <1>6, <1>7 DEF MergedTo

(* The loop that drops what is too short, likewise. *)
LEMMA KeptSteps ==
  ASSUME NEW sp \in Seq(Speech), NEW p
  PROVE  \E f : /\ f[0] = <<>> /\ LongEnough(sp, p) = f[Len(sp)]
                /\ \A m \in 0 .. Len(sp) - 1 : f[m + 1] = KeepLong(f[m], sp[m + 1], p)
<1> DEFINE A == Seq(Speech)
           F == [x \in A \X Speech |-> KeepLong(x[1], x[2], p)]
           Eq(g) == g = [S \in SUBSET DOMAIN sp |->
                          IF S = {} THEN <<>> ELSE KeepLong(g[S \ {Max(S)}], sp[Max(S)], p)]
<1>0. DOMAIN sp = 1 .. Len(sp) /\ Len(sp) \in Nat /\ <<>> \in A
  OBVIOUS
<1>1. F \in [A \X Speech -> A]
  <2>1. ASSUME NEW a \in A, NEW x \in Speech PROVE KeepLong(a, x, p) \in A
    BY DEF KeepLong
  <2> QED
    BY <2>1
<1>2. PICK h \in [SUBSET (1 .. Len(sp)) -> A] : FoldEq(h, F, <<>>, sp, Len(sp))
  <2> HIDE DEF F, A
  <2> QED
    BY <1>0, <1>1, FoldExists
<1>3. ASSUME NEW S \in SUBSET (1 .. Len(sp)), S # {}
      PROVE  /\ S \ {Max(S)} \in SUBSET (1 .. Len(sp)) /\ sp[Max(S)] \in Speech
  <2>1. Max(S) \in S
    BY <1>0, <1>3, MaxExists
  <2>2. PICK k : k = Max(S) /\ k \in 1 .. Len(sp)
    BY <2>1
  <2>3. sp[k] \in Speech
    BY <2>2
  <2> HIDE DEF A, F, Eq
  <2> QED
    BY <2>2, <2>3
<1>4. Eq(h)
  <2>1. ASSUME NEW S \in SUBSET (1 .. Len(sp))
        PROVE  h[S] = IF S = {} THEN <<>> ELSE KeepLong(h[S \ {Max(S)}], sp[Max(S)], p)
    <3>1. h[S] = IF S = {} THEN <<>> ELSE F[<<h[S \ {Max(S)}], sp[Max(S)]>>]
      BY <1>2 DEF FoldEq
    <3>2. S # {} => <<h[S \ {Max(S)}], sp[Max(S)]>> \in A \X Speech
      BY <1>3
    <3>3. S # {} => F[<<h[S \ {Max(S)}], sp[Max(S)]>>] = KeepLong(h[S \ {Max(S)}], sp[Max(S)], p)
      BY <3>2
    <3> HIDE DEF F
    <3> QED
      BY <3>1, <3>3
  <2>2. h = [S \in SUBSET (1 .. Len(sp)) |-> h[S]]
    OBVIOUS
  <2> QED
    BY <1>0, <2>1, <2>2
<1>5. LongEnough(sp, p) = (CHOOSE g : Eq(g))[DOMAIN sp]
  BY Zenon DEF LongEnough, FoldLeft, MapThenFoldSet
<1>6. PICK g : g = (CHOOSE f : Eq(f)) /\ Eq(g)
  <2> HIDE DEF Eq
  <2> QED
    BY <1>4
<1>7. PICK D : D = SUBSET (1 .. Len(sp))
  OBVIOUS
<1>8. \A S \in D : g[S] = IF S = {} THEN <<>> ELSE KeepLong(g[S \ {Max(S)}], sp[Max(S)], p)
  <2>1. g = [S \in D |-> IF S = {} THEN <<>> ELSE KeepLong(g[S \ {Max(S)}], sp[Max(S)], p)]
    BY <1>0, <1>6, <1>7
  <2> QED
    BY <2>1, Zenon
<1>9. PICK f : f = [m \in 0 .. Len(sp) |-> g[1 .. m]]
  OBVIOUS
<1>10. f[0] = <<>>
  <2>1. 1 .. 0 = {} /\ {} \in D
    BY <1>7
  <2>2. g[{}] = <<>>
    BY <1>8, <2>1
  <2> QED
    BY <1>0, <1>9, <2>1, <2>2
<1>11. f[Len(sp)] = LongEnough(sp, p)
  <2>1. f[Len(sp)] = g[1 .. Len(sp)]
    BY <1>0, <1>9
  <2> QED
    BY <1>0, <1>5, <1>6, <2>1
<1>12. ASSUME NEW m \in 0 .. Len(sp) - 1 PROVE f[m + 1] = KeepLong(f[m], sp[m + 1], p)
  <2>1. PICK S : S = 1 .. m + 1
    OBVIOUS
  <2>2. S \in D /\ S # {} /\ Max(S) = m + 1 /\ S \ {m + 1} = 1 .. m
    BY <1>0, <1>7, <2>1, Prefix
  <2>3. g[S] = KeepLong(g[1 .. m], sp[m + 1], p)
    BY <1>8, <2>2
  <2>4. f[m] = g[1 .. m] /\ f[m + 1] = g[S]
    BY <1>0, <1>9, <2>1
  <2> QED
    BY <2>3, <2>4
<1> QED
  BY <1>10, <1>11, <1>12

(* What is kept ends when the last segment looked at ends, or before. *)
KeptTo(sp, m, a) ==
  /\ Apart(a)
  /\ a # <<>> => m > 0 /\ a[Len(a)].end <= sp[m].end

LEMMA KeepOne ==
  ASSUME NEW sp, Apart(sp), NEW m \in 0 .. Len(sp) - 1, NEW a, KeptTo(sp, m, a), NEW p
  PROVE  KeptTo(sp, m + 1, KeepLong(a, sp[m + 1], p))
<1>0. PICK x : x = sp[m + 1]
  OBVIOUS
<1>1. /\ sp \in Seq(Speech) /\ Len(sp) \in Nat /\ m \in Nat /\ m + 1 \in 1 .. Len(sp)
      /\ a \in Seq(Speech) /\ Apart(a) /\ n_window \in Nat
  BY WindowAssumption DEF Apart, KeptTo
<1>2. x \in Speech /\ x.start \in Nat /\ x.end \in Nat /\ x.start + n_window <= x.end
  <2>1. x \in Speech
    BY <1>0, <1>1
  <2> QED
    BY <1>0, <1>1, <2>1 DEF Apart, Speech
<1>3. a # <<>> => a[Len(a)].end <= x.start
  <2> SUFFICES ASSUME a # <<>> PROVE a[Len(a)].end <= x.start
    OBVIOUS
  <2>1. m > 0 /\ a[Len(a)].end <= sp[m].end
    BY <1>1 DEF KeptTo
  <2>2. m \in 1 .. Len(sp) - 1 /\ m \in 1 .. Len(sp) /\ Len(a) \in 1 .. Len(a)
    BY <1>1, <2>1
  <2>3. sp[m].end <= x.start
    BY <1>0, <2>2 DEF Apart
  <2>4. sp[m] \in Speech /\ a[Len(a)] \in Speech
    BY <1>1, <2>2
  <2>5. sp[m].end \in Nat /\ a[Len(a)].end \in Nat
    BY <2>4 DEF Speech
  <2> QED
    BY <1>2, <2>1, <2>3, <2>5
<1>4. CASE x.end - x.start < Ms(p.min_speech)
  <2>1. KeepLong(a, x, p) = a
    BY <1>4 DEF KeepLong
  <2>2. a # <<>> => a[Len(a)].end <= x.end
    <3> SUFFICES ASSUME a # <<>> PROVE a[Len(a)].end <= x.end
      OBVIOUS
    <3>1. Len(a) \in 1 .. Len(a)
      BY <1>1
    <3>2. a[Len(a)] \in Speech
      BY <1>1, <3>1
    <3>3. a[Len(a)].end \in Nat
      BY <3>2 DEF Speech
    <3> QED
      BY <1>1, <1>2, <1>3, <3>3
  <2> QED
    BY <1>0, <1>1, <2>1, <2>2 DEF KeptTo
<1>5. CASE ~(x.end - x.start < Ms(p.min_speech))
  <2>1. KeepLong(a, x, p) = Append(a, x)
    BY <1>5 DEF KeepLong
  <2>2. EndsBy(a, x.start)
    BY <1>3 DEF EndsBy
  <2>3. PICK r : r = Append(a, x)
    OBVIOUS
  <2>4. Apart(r) /\ r # <<>> /\ r[Len(r)] = x
    BY <1>1, <1>2, <2>2, <2>3, ApartAppend
  <2> QED
    BY <1>0, <1>1, <1>2, <2>1, <2>3, <2>4 DEF KeptTo
<1> QED
  BY <1>4, <1>5

LEMMA LongEnoughOK ==
  ASSUME NEW sp, Apart(sp), NEW length \in Nat, EndsBy(sp, length), NEW p
  PROVE  Apart(LongEnough(sp, p)) /\ EndsBy(LongEnough(sp, p), length)
<1>1. sp \in Seq(Speech) /\ Len(sp) \in Nat
  BY DEF Apart
<1>2. PICK f : /\ f[0] = <<>> /\ LongEnough(sp, p) = f[Len(sp)]
               /\ \A m \in 0 .. Len(sp) - 1 : f[m + 1] = KeepLong(f[m], sp[m + 1], p)
  BY <1>1, KeptSteps
<1> DEFINE Good == {m \in 0 .. Len(sp) : KeptTo(sp, m, f[m])}
<1>3. 0 \in Good
  <2>1. KeptTo(sp, 0, <<>>)
    BY ApartEmpty DEF KeptTo
  <2> QED
    BY <1>1, <1>2, <2>1
<1>4. ASSUME NEW m \in 0 .. Len(sp) - 1, m \in Good PROVE m + 1 \in Good
  <2>1. KeptTo(sp, m, f[m])
    BY <1>4
  <2>2. KeptTo(sp, m + 1, f[m + 1])
    BY <1>2, <2>1, KeepOne
  <2> QED
    BY <1>1, <2>2
<1>5. Len(sp) \in Good
  <2> HIDE DEF Good
  <2>1. \A m \in 0 .. Len(sp) : m \in Good
    BY <1>1, <1>3, <1>4, UpTo
  <2> QED
    BY <1>1, <2>1
<1>6. KeptTo(sp, Len(sp), LongEnough(sp, p))
  BY <1>2, <1>5
<1>7. EndsBy(LongEnough(sp, p), length)
  <2>1. PICK r : r = LongEnough(sp, p)
    OBVIOUS
  <2> SUFFICES ASSUME r # <<>> PROVE r[Len(r)].end <= length
    BY <2>1 DEF EndsBy
  <2>2. Len(sp) > 0 /\ r[Len(r)].end <= sp[Len(sp)].end /\ r \in Seq(Speech)
    BY <1>6, <2>1 DEF KeptTo, Apart
  <2>3. sp[Len(sp)].end <= length
    BY <2>2 DEF EndsBy
  <2>4. Len(sp) \in 1 .. Len(sp) /\ Len(r) \in 1 .. Len(r)
    BY <1>1, <2>2
  <2>5. sp[Len(sp)] \in Speech /\ r[Len(r)] \in Speech
    BY <1>1, <2>2, <2>4
  <2>6. sp[Len(sp)].end \in Nat /\ r[Len(r)].end \in Nat
    BY <2>5 DEF Speech
  <2> QED
    BY <2>2, <2>3, <2>6
<1> QED
  BY <1>6, <1>7 DEF KeptTo

-----------------------------------------------------------------------------
(* The padding. *)
LEMMA TwoOf ==
  ASSUME NEW a \in Int, NEW b \in Int
  PROVE  /\ Max({a, b}) = IF a >= b THEN a ELSE b
         /\ Min({a, b}) = IF a <= b THEN a ELSE b
<1>1. PICK S : S = {a, b}
  OBVIOUS
<1>2. (\E x \in S : \A y \in S : x >= y) /\ (\E x \in S : \A y \in S : x <= y)
  <2>1. CASE a <= b
    BY <1>1, <2>1
  <2>2. CASE b <= a
    BY <1>1, <2>2
  <2> QED
    BY <2>1, <2>2
<1>3. PICK m, n : m = Max(S) /\ n = Min(S)
  OBVIOUS
<1>4. m \in S /\ \A y \in S : m >= y
  BY <1>2, <1>3 DEF Max
<1>5. n \in S /\ \A y \in S : n <= y
  BY <1>2, <1>3 DEF Min
<1>6. m = IF a >= b THEN a ELSE b
  BY <1>1, <1>4
<1>7. n = IF a <= b THEN a ELSE b
  BY <1>1, <1>5
<1> QED
  BY <1>1, <1>3, <1>6, <1>7, Zenon

LEMMA Samples == \A d \in Nat : Ms(d) \in Nat
BY DEF Ms

LEMMA Rounded ==
  ASSUME NEW x \in Nat, NEW y \in Nat
  PROVE  /\ SamplesToCs(x) \in Nat
         /\ x <= y => SamplesToCs(x) <= SamplesToCs(y)
         /\ x + Cs <= y => SamplesToCs(x) < SamplesToCs(y)
BY DEF SamplesToCs, Cs

(* Half of a gap, twice, is not more than the gap. *)
LEMMA Halves ==
  ASSUME NEW gap \in Nat
  PROVE  gap \div 2 \in Nat /\ gap \div 2 + gap \div 2 <= gap
OBVIOUS

(* All segments end by the end of the last. *)
LEMMA AllEnd ==
  ASSUME NEW sp, Apart(sp), NEW length \in Nat, EndsBy(sp, length), NEW k \in 1 .. Len(sp)
  PROVE  sp[k].end <= length
<1> DEFINE Good == {m \in 0 .. Len(sp) - k : sp[Len(sp) - m].end <= length}
<1>1. sp \in Seq(Speech) /\ Len(sp) \in Nat /\ n_window \in Nat
  BY WindowAssumption DEF Apart
<1>2. ASSUME NEW z \in 1 .. Len(sp) PROVE sp[z].start \in Nat /\ sp[z].end \in Nat
  <2>1. sp[z] \in Speech
    BY <1>1
  <2> QED
    BY <2>1 DEF Speech
<1>3. 0 \in Good
  <2>1. sp # <<>> /\ 0 \in 0 .. Len(sp) - k /\ Len(sp) - 0 = Len(sp)
    BY <1>1
  <2>2. sp[Len(sp)].end <= length
    BY <2>1 DEF EndsBy
  <2> QED
    BY <2>1, <2>2
<1>4. ASSUME NEW m \in 0 .. (Len(sp) - k) - 1, m \in Good PROVE m + 1 \in Good
  <2>1. PICK z : z = Len(sp) - (m + 1)
    OBVIOUS
  <2>2. /\ z \in 1 .. Len(sp) - 1 /\ z \in 1 .. Len(sp) /\ z + 1 \in 1 .. Len(sp)
        /\ z + 1 = Len(sp) - m /\ m + 1 \in 0 .. Len(sp) - k
    BY <1>1, <2>1
  <2>3. sp[z + 1].end <= length
    BY <1>4, <2>2
  <2>4. sp[z].end <= sp[z + 1].start /\ sp[z + 1].start + n_window <= sp[z + 1].end
    BY <2>2 DEF Apart
  <2>5. sp[z].end <= length
    BY <1>1, <1>2, <2>2, <2>3, <2>4
  <2> QED
    BY <2>1, <2>2, <2>5
<1>5. Len(sp) - k \in Nat /\ Len(sp) - (Len(sp) - k) = k
  BY <1>1
<1>6. \A m \in 0 .. Len(sp) - k : m \in Good
  <2> HIDE DEF Good
  <2>1. PICK n : n = Len(sp) - k
    OBVIOUS
  <2> QED
    BY <1>3, <1>4, <1>5, <2>1, UpTo
<1>7. Len(sp) - k \in Good
  <2> HIDE DEF Good
  <2> QED
    BY <1>5, <1>6
<1> QED
  BY <1>5, <1>7

(* Where the padding of a segment begins and ends. *)
LEMMA PadStartOK ==
  ASSUME NEW sp, Apart(sp), NEW k \in 1 .. Len(sp), NEW p, p.speech_pad \in Nat
  PROVE  PadStart(sp, k, p) \in Nat /\ PadStart(sp, k, p) <= sp[k].start
<1>1. sp \in Seq(Speech) /\ Len(sp) \in Nat
  BY DEF Apart
<1>2. sp[k] \in Speech
  BY <1>1
<1>3. PICK x : x = sp[k].start
  OBVIOUS
<1>4. x \in Nat
  BY <1>2, <1>3 DEF Speech
<1>5. CASE k > 1 /\ Gap(sp, k - 1) < 2 * Ms(p.speech_pad)
  <2>1. k - 1 \in 1 .. Len(sp) - 1 /\ k - 1 \in 1 .. Len(sp) /\ (k - 1) + 1 = k
    BY <1>1, <1>5
  <2>2. sp[k - 1].end <= sp[k].start /\ sp[k - 1] \in Speech
    BY <1>1, <2>1 DEF Apart
  <2>3. PICK gap : gap = Gap(sp, k - 1)
    OBVIOUS
  <2>4. gap \in Nat
    BY <1>3, <1>4, <2>1, <2>2, <2>3 DEF Gap, Speech
  <2>5. gap \div 2 \in Nat
    BY <2>4, Halves
  <2>6. PICK h : h = x - gap \div 2
    OBVIOUS
  <2>7. h \in Int /\ h <= x
    BY <1>4, <2>5, <2>6
  <2>8. PICK m : m = PadStart(sp, k, p) /\ m = Max({h, 0})
    BY <1>3, <1>5, <2>3, <2>6 DEF PadStart
  <2>9. m = IF h >= 0 THEN h ELSE 0
    BY <2>7, <2>8, TwoOf
  <2>10. m \in Nat /\ m <= x
    BY <1>4, <2>7, <2>9
  <2> QED
    BY <1>3, <2>8, <2>10
<1>6. CASE ~(k > 1 /\ Gap(sp, k - 1) < 2 * Ms(p.speech_pad))
  <2>0. PICK pad : pad = Ms(p.speech_pad) /\ pad \in Nat
    BY Samples
  <2>1. PICK h : h = x - pad
    OBVIOUS
  <2>2. PICK m : m = PadStart(sp, k, p) /\ m = Max({h, 0})
    BY <1>3, <1>6, <2>0, <2>1 DEF PadStart
  <2>3. h \in Int /\ h <= x
    BY <1>4, <2>0, <2>1
  <2>4. m = IF h >= 0 THEN h ELSE 0
    BY <2>2, <2>3, TwoOf
  <2>5. m \in Nat /\ m <= x
    BY <1>4, <2>3, <2>4
  <2> QED
    BY <1>3, <2>2, <2>5
<1> QED
  BY <1>5, <1>6

LEMMA PadEndOK ==
  ASSUME NEW sp, Apart(sp), NEW length \in Nat, EndsBy(sp, length),
         NEW k \in 1 .. Len(sp), NEW p, p.speech_pad \in Nat
  PROVE  /\ PadEnd(sp, k, length, p) \in Nat
         /\ sp[k].end <= PadEnd(sp, k, length, p) /\ PadEnd(sp, k, length, p) <= length
<1>1. sp \in Seq(Speech) /\ Len(sp) \in Nat /\ n_window \in Nat
  BY WindowAssumption DEF Apart
<1>2. sp[k] \in Speech
  BY <1>1
<1>3. PICK x, r : x = sp[k].end /\ r = PadEnd(sp, k, length, p)
  OBVIOUS
<1>4. x \in Nat /\ x <= length
  BY <1>2, <1>3, AllEnd DEF Speech
<1>5. CASE k < Len(sp) /\ Gap(sp, k) < 2 * Ms(p.speech_pad)
  <2>1. k \in 1 .. Len(sp) - 1 /\ k + 1 \in 1 .. Len(sp)
    BY <1>1, <1>5
  <2>2. PICK s, e : s = sp[k + 1].start /\ e = sp[k + 1].end
    OBVIOUS
  <2>3. sp[k + 1] \in Speech
    BY <1>1, <2>1
  <2>4. /\ s \in Nat /\ e \in Nat /\ x <= s /\ s + n_window <= e /\ e <= length
    BY <1>3, <2>1, <2>2, <2>3, AllEnd DEF Apart, Speech
  <2>5. PICK gap : gap = s - x
    OBVIOUS
  <2>6. gap \in Nat
    BY <1>4, <2>4, <2>5
  <2>7. gap \div 2 \in Nat /\ gap \div 2 + gap \div 2 <= gap
    BY <2>6, Halves
  <2>8. PICK half : half = gap \div 2
    OBVIOUS
  <2>9. r = x + half
    BY <1>3, <1>5, <2>2, <2>5, <2>8 DEF PadEnd, Gap
  <2>10. half \in Nat /\ half + half <= gap
    BY <2>7, <2>8
  <2>11. r \in Nat /\ x <= r /\ r <= length
    BY <1>1, <1>4, <2>4, <2>5, <2>9, <2>10
  <2> QED
    BY <1>3, <2>11
<1>6. CASE ~(k < Len(sp) /\ Gap(sp, k) < 2 * Ms(p.speech_pad))
  <2>0. PICK pad : pad = Ms(p.speech_pad) /\ pad \in Nat
    BY Samples
  <2>1. PICK h : h = x + pad
    OBVIOUS
  <2>2. r = Min({h, length})
    BY <1>3, <1>6, <2>0, <2>1 DEF PadEnd
  <2>3. h \in Nat /\ x <= h
    BY <1>4, <2>0, <2>1
  <2>4. r = IF h <= length THEN h ELSE length
    <3>1. h \in Int /\ length \in Int
      BY <2>3
    <3> QED
      BY <2>2, <3>1, TwoOf
  <2>5. r \in Nat /\ x <= r /\ r <= length
    BY <1>4, <2>3, <2>4
  <2> QED
    BY <1>3, <2>5
<1> QED
  BY <1>5, <1>6

(* The padding of two segments does not overlap. *)
LEMMA PadApart ==
  ASSUME NEW sp, Apart(sp), NEW length \in Nat, NEW k \in 1 .. Len(sp) - 1,
         NEW p, p.speech_pad \in Nat
  PROVE  PadEnd(sp, k, length, p) <= PadStart(sp, k + 1, p)
<1>1. sp \in Seq(Speech) /\ Len(sp) \in Nat
  BY DEF Apart
<1>2. /\ k \in 1 .. Len(sp) /\ k + 1 \in 1 .. Len(sp) /\ k < Len(sp)
      /\ k + 1 > 1 /\ (k + 1) - 1 = k
  BY <1>1
<1>3. PICK x, s, a, b, gap, pad :
        /\ x = sp[k].end /\ s = sp[k + 1].start
        /\ a = PadEnd(sp, k, length, p) /\ b = PadStart(sp, k + 1, p)
        /\ gap = s - x /\ pad = Ms(p.speech_pad)
  OBVIOUS
<1>4. x \in Nat /\ s \in Nat /\ x <= s
  <2>1. sp[k] \in Speech /\ sp[k + 1] \in Speech
    BY <1>1, <1>2
  <2> QED
    BY <1>3, <2>1 DEF Apart, Speech
<1>5. gap \in Nat /\ gap = s - x /\ pad \in Nat
  <2>1. pad \in Nat
    BY <1>3, Samples
  <2>2. gap = s - x
    BY <1>3
  <2> QED
    BY <1>4, <2>1, <2>2
<1>6. a <= b
  <2>1. CASE gap < 2 * pad
    <3>1. PICK half : half = gap \div 2
      OBVIOUS
    <3>2. half \in Nat /\ half + half <= gap
      BY <1>5, <3>1, Halves
    <3>3. a = x + half
      BY <1>2, <1>3, <2>1, <3>1 DEF PadEnd, Gap
    <3>4. PICK h : h = s - half
      OBVIOUS
    <3>5. b = Max({h, 0})
      BY <1>2, <1>3, <2>1, <3>1, <3>4 DEF PadStart, Gap
    <3>6. h \in Int
      BY <1>4, <3>2, <3>4
    <3>7. b = IF h >= 0 THEN h ELSE 0
      BY <3>5, <3>6, TwoOf
    <3> QED
      BY <1>4, <1>5, <3>2, <3>3, <3>4, <3>7
  <2>2. CASE ~(gap < 2 * pad)
    <3>1. PICK g, h : g = x + pad /\ h = s - pad
      OBVIOUS
    <3>2. a = Min({g, length})
      BY <1>2, <1>3, <2>2, <3>1 DEF PadEnd, Gap
    <3>3. b = Max({h, 0})
      BY <1>2, <1>3, <2>2, <3>1 DEF PadStart, Gap
    <3>4. g \in Int /\ h \in Int /\ length \in Int
      BY <1>4, <1>5, <3>1
    <3>5. a = IF g <= length THEN g ELSE length
      BY <3>2, <3>4, TwoOf
    <3>6. b = IF h >= 0 THEN h ELSE 0
      BY <3>3, <3>4, TwoOf
    <3> QED
      BY <1>4, <1>5, <2>2, <3>1, <3>4, <3>5, <3>6
  <2> QED
    BY <2>1, <2>2
<1> QED
  BY <1>3, <1>6

(* The segments as they are handed over. *)
HandedOver(segs, length) ==
  \A k \in DOMAIN segs :
    /\ 0 <= segs[k].start /\ segs[k].start < segs[k].end
    /\ segs[k].end <= SamplesToCs(length)
    /\ k < Len(segs) => segs[k].end <= segs[k + 1].start

LEMMA PaddedOK ==
  ASSUME n_window >= Cs, NEW sp, Apart(sp), NEW length \in Nat, EndsBy(sp, length),
         NEW p, p.speech_pad \in Nat
  PROVE  HandedOver(Padded(sp, length, p), length)
<1>1. sp \in Seq(Speech) /\ Len(sp) \in Nat /\ DOMAIN sp = 1 .. Len(sp) /\ n_window \in Nat
  BY WindowAssumption DEF Apart
<1>2. PICK r : r = Padded(sp, length, p)
  OBVIOUS
<1>3. /\ DOMAIN r = 1 .. Len(sp)
      /\ \A k \in 1 .. Len(sp) : /\ r[k].start = SamplesToCs(PadStart(sp, k, p))
                                 /\ r[k].end = SamplesToCs(PadEnd(sp, k, length, p))
  BY <1>1, <1>2 DEF Padded
<1>4. Len(r) = Len(sp)
  <2>1. r = [k \in 1 .. Len(sp) |-> r[k]]
    BY <1>1, <1>2 DEF Padded
  <2> QED
    BY <1>1, <2>1
<1>5. ASSUME NEW k \in 1 .. Len(sp)
      PROVE  /\ 0 <= r[k].start /\ r[k].start < r[k].end /\ r[k].end <= SamplesToCs(length)
  <2>1. PICK a, b : a = PadStart(sp, k, p) /\ b = PadEnd(sp, k, length, p)
    OBVIOUS
  <2>2. a \in Nat /\ b \in Nat /\ a <= sp[k].start /\ sp[k].end <= b /\ b <= length
    BY <2>1, PadStartOK, PadEndOK
  <2>3. sp[k] \in Speech /\ sp[k].start + n_window <= sp[k].end
    BY <1>1 DEF Apart
  <2>4. a + Cs <= b
    BY <1>1, <2>2, <2>3 DEF Speech, Cs
  <2>5. SamplesToCs(a) \in Nat /\ SamplesToCs(a) < SamplesToCs(b) /\ SamplesToCs(b) <= SamplesToCs(length)
    BY <2>2, <2>4, Rounded
  <2> QED
    BY <1>3, <2>1, <2>5
<1>6. ASSUME NEW k \in 1 .. Len(sp), k < Len(sp) PROVE r[k].end <= r[k + 1].start
  <2>1. k \in 1 .. Len(sp) - 1 /\ k + 1 \in 1 .. Len(sp)
    BY <1>1, <1>6
  <2>2. PICK a, b : a = PadEnd(sp, k, length, p) /\ b = PadStart(sp, k + 1, p)
    OBVIOUS
  <2>3. a \in Nat /\ b \in Nat /\ a <= b
    BY <2>1, <2>2, PadStartOK, PadEndOK, PadApart
  <2>4. SamplesToCs(a) <= SamplesToCs(b)
    BY <2>3, Rounded
  <2> QED
    BY <1>3, <2>1, <2>2, <2>4
<1> QED
  BY <1>2, <1>3, <1>4, <1>5, <1>6 DEF HandedOver

LEMMA SegmentsOK ==
  ASSUME n_window >= Cs, NEW s, NEW length \in Nat, ScanOK(s, length),
         NEW p, p.speech_pad \in Nat
  PROVE  HandedOver(Segments(s, length, p), length)
<1>1. PICK t, m, l : /\ t = WithTail(s, length, p) /\ m = Merged(t) /\ l = LongEnough(m, p)
  OBVIOUS
<1>2. Apart(t) /\ EndsBy(t, length)
  BY <1>1, TailOK
<1>3. Apart(m) /\ EndsBy(m, length)
  BY <1>1, <1>2, MergedOK
<1>4. Apart(l) /\ EndsBy(l, length)
  BY <1>1, <1>3, LongEnoughOK
<1>5. Segments(s, length, p) = Padded(l, length, p)
  BY <1>1 DEF Segments
<1> QED
  BY <1>4, <1>5, PaddedOK

-----------------------------------------------------------------------------
(* What holds between the steps: the scan is as it is before the window at  *)
(* i, and the segments, once handed over, are apart.                        *)
SpeechApart ==
  /\ params \in CallParams /\ i \in Nat
  /\ stage = "scan" => params.vad /\ segments = <<>> /\ ScanOK(scan, i * n_window)
  /\ SegmentsApart

LEMMA Apartness == SegmentsApart <=> HandedOver(segments, i * n_window)
BY DEF SegmentsApart, HandedOver, Starts, Ends

LEMMA NoSegments == \A length : HandedOver(<<>>, length)
BY DEF HandedOver

LEMMA PadsAreNat == \A p \in CallParams : p.vad => p.speech_pad \in Nat
BY CallAssumption, Zenon

LEMMA InitApart == Init => SpeechApart
<1> SUFFICES ASSUME Init PROVE SpeechApart
  OBVIOUS
<1>1. params \in CallParams /\ i = 0 /\ scan = NoScan /\ segments = <<>>
  BY DEF Init
<1>2. SegmentsApart
  BY <1>1, Apartness, NoSegments
<1>3. ScanOK(scan, i * n_window)
  <2>1. n_window \in Nat /\ i * n_window = 0
    BY <1>1, WindowAssumption
  <2>2. /\ scan.speeches = <<>> /\ scan.in_speech = FALSE
        /\ scan.temp_end = 0 /\ scan.prev_end = 0 /\ scan.next_start = 0 /\ scan \in ScanType
    <3>1. <<>> \in Seq(Speech)
      OBVIOUS
    <3> QED
      BY <1>1, <3>1 DEF NoScan, ScanType
  <2> QED
    BY <2>1, <2>2, ApartEmpty DEF ScanOK
<1>4. stage = "scan" => params.vad
  <2>1. stage = IF params.vad THEN "scan" ELSE "work"
    BY DEF Init
  <2> QED
    BY <2>1, Zenon
<1> QED
  BY <1>1, <1>2, <1>3, <1>4 DEF SpeechApart

LEMMA NextApart ==
  ASSUME n_window >= Cs
  PROVE  SpeechApart /\ [Next]_vars => SpeechApart'
<1> SUFFICES ASSUME SpeechApart, [Next]_vars PROVE SpeechApart'
  OBVIOUS
<1>0. params \in CallParams /\ i \in Nat /\ n_window \in Nat
  BY WindowAssumption DEF SpeechApart
<1>1. ASSUME UNCHANGED <<params, i, segments>>, stage' # "scan" PROVE SpeechApart'
  BY <1>1 DEF SpeechApart, SegmentsApart, Starts, Ends
<1>2. CASE ScanWindow
  <2>1. PICK level \in Levels : scan' = Window(scan, level, i * n_window, params)
    BY <1>2 DEF ScanWindow
  <2>2. /\ stage = "scan" /\ stage' = stage /\ i' = i + 1
        /\ params' = params /\ segments' = segments
    BY <1>2 DEF ScanWindow
  <2>3. PICK at : at = i * n_window
    OBVIOUS
  <2>4. at \in Nat /\ ScanOK(scan, at) /\ params.vad /\ segments = <<>>
    BY <1>0, <2>2, <2>3 DEF SpeechApart
  <2>5. ScanOK(scan', at + n_window)
    BY <2>1, <2>3, <2>4, WindowOK
  <2>6. at + n_window = (i + 1) * n_window
    BY <1>0, <2>3
  <2>7. ScanOK(scan', i' * n_window)
    BY <2>2, <2>5, <2>6
  <2>8. SegmentsApart'
    <3>1. segments' = <<>>
      BY <2>2, <2>4
    <3> QED
      BY <3>1 DEF SegmentsApart, Starts, Ends
  <2>9. i' \in Nat /\ params' \in CallParams /\ params'.vad /\ segments' = <<>>
    BY <1>0, <2>2, <2>4
  <2> QED
    BY <2>7, <2>8, <2>9 DEF SpeechApart
<1>3. CASE EndOfScan
  <2>1. /\ stage = "scan" /\ segments' = Segments(scan, i * n_window, params)
        /\ stage' # "scan" /\ params' = params /\ i' = i
    BY <1>3 DEF EndOfScan
  <2>2. PICK at : at = i * n_window
    OBVIOUS
  <2>3. at \in Nat /\ ScanOK(scan, at) /\ params.vad
    BY <1>0, <2>1, <2>2 DEF SpeechApart
  <2>6. params.speech_pad \in Nat
    BY <1>0, <2>3, PadsAreNat
  <2>4. HandedOver(segments', i' * n_window)
    BY <2>1, <2>2, <2>3, <2>6, SegmentsOK
  <2>5. SegmentsApart'
    BY <2>4 DEF SegmentsApart, HandedOver, Starts, Ends
  <2> QED
    BY <1>0, <2>1, <2>5 DEF SpeechApart
<1>4. CASE VadFails
  BY <1>1, <1>4 DEF VadFails, scanVars
<1>5. ASSUME NEW c \in Chunks, ChunkEnds(c) PROVE SpeechApart'
  BY <1>1, <1>5 DEF ChunkEnds, scanVars
<1>6. CASE Combine
  BY <1>1, <1>6 DEF Combine, scanVars
<1>7. CASE UNCHANGED vars
  <2>1. UNCHANGED <<params, stage, i, scan, segments>>
    BY <1>7 DEF vars, scanVars
  <2> QED
    BY <2>1 DEF SpeechApart, SegmentsApart, Starts, Ends
<1> QED
  BY <1>2, <1>3, <1>4, <1>5, <1>6, <1>7 DEF Next, Done

(* The segments of speech follow one another, none is empty and all lie     *)
(* within the windows of the audio (whisper_vad_segments_from_probs), for   *)
(* every sequence of probabilities and every vad_params.  A window is not   *)
(* shorter than a centisecond: a shorter one could round to an empty        *)
(* segment.                                                                 *)
THEOREM SpeechSegments == n_window >= Cs => (Spec => []SegmentsApart)
<1> SUFFICES ASSUME n_window >= Cs PROVE Spec => []SegmentsApart
  OBVIOUS
<1>1. Init => SpeechApart
  BY InitApart
<1>2. SpeechApart /\ [Next]_vars => SpeechApart'
  BY NextApart
<1>3. SpeechApart => SegmentsApart
  BY DEF SpeechApart
<1> QED
  BY <1>1, <1>2, <1>3, PTL DEF Spec

-----------------------------------------------------------------------------
(* What becomes of a window with speech, when t windows have been heard,    *)
(* those in H with speech, and too long speech has been cut at those in C:  *)
(* a segment of at least M samples has it, or a cut comes shortly before    *)
(* it, or it belongs to speech of at most M samples.                        *)
Within(x, w) == x.start <= w * n_window /\ (w + 1) * n_window <= x.end

Covered(sp, w, M) ==
  \E k \in 1 .. Len(sp) : Within(sp[k], w) /\ sp[k].end - sp[k].start >= M

AfterCut(w, C, M) == \E c \in C : c <= w /\ (w - c) * n_window <= M

Short(w, t, H, M) ==
  \E x \in 0 .. w : \E y \in w + 1 .. t - 1 :
    x - 1 \notin H /\ y \notin H /\ (y - x) * n_window <= M

Fate(sp, w, t, H, C, M) ==
  Covered(sp, w, M) \/ AfterCut(w, C, M) \/ Short(w, t, H, M)

Quiet(y, t, H) == \A w \in y .. t - 1 : w \notin H

(* Speech that goes on has begun at the window x, after silence or a cut;   *)
(* what came before it is told.                                             *)
Begins(s, x, t, H, C, M) ==
  /\ s.start = x * n_window /\ (x - 1 \notin H \/ x - 1 \in C)
  /\ \A w \in H : w < x => Fate(s.speeches, w, t, H, C, M)

(* The silence of temp_end lasts; speech has gone on at next_start; that of *)
(* prev_end has lasted until next_start, or lasts.                          *)
Told(s, t, H, C, M) ==
  /\ H \subseteq 0 .. t - 1
  /\ ~s.in_speech => /\ \A w \in H : Fate(s.speeches, w, t, H, C, M)
                     /\ t - 1 \in H => t - 1 \in C
  /\ s.in_speech => \E x \in 0 .. t - 1 : Begins(s, x, t, H, C, M)
  /\ s.temp_end # 0 => \E y \in 0 .. t - 1 : s.temp_end = y * n_window /\ Quiet(y, t, H)
  /\ s.next_start # 0 => \E u \in H : s.next_start = u * n_window
  /\ s.prev_end # 0 =>
       \E z \in 0 .. t - 1 :
         /\ s.prev_end = z * n_window /\ z \notin H
         /\ s.next_start < s.prev_end => s.temp_end # 0 /\ Quiet(z, t, H)
         /\ \A u \in H : s.next_start = u * n_window /\ z <= u => Quiet(z, u, H)

(* Windows in samples. *)
LEMMA Windows ==
  ASSUME NEW a \in Int, NEW b \in Int
  PROVE  /\ a * n_window \in Int /\ b * n_window \in Int
         /\ (b - a) * n_window = b * n_window - a * n_window
         /\ (b + 1) * n_window = b * n_window + n_window
         /\ a <= b => a * n_window <= b * n_window
         /\ a < b => a * n_window + n_window <= b * n_window
         /\ a * n_window < b * n_window => a < b
<1> PICK n : n = n_window
  OBVIOUS
<1>1. n \in Nat /\ n > 0
  BY WindowAssumption
<1>2. /\ a * n \in Int /\ b * n \in Int /\ (b - a) * n = b * n - a * n
      /\ (b + 1) * n = b * n + n
  BY <1>1
<1>3. ASSUME NEW d \in Int, d >= 0 PROVE d * n >= 0
  BY <1>1, <1>3
<1>4. ASSUME a <= b PROVE a * n <= b * n
  <2>1. (b - a) * n >= 0
    BY <1>3, <1>4
  <2> QED
    BY <1>1, <1>2, <2>1
<1>5. ASSUME a < b PROVE a * n + n <= b * n
  <2>1. (b - a - 1) * n >= 0
    BY <1>3, <1>5
  <2>2. (b - a - 1) * n = b * n - a * n - n
    BY <1>1
  <2> QED
    BY <1>1, <1>2, <2>1, <2>2
<1>6. ASSUME a * n < b * n, ~(a < b) PROVE FALSE
  <2>1. (a - b) * n >= 0
    BY <1>3, <1>6
  <2>2. (a - b) * n = a * n - b * n
    BY <1>1
  <2> QED
    BY <1>1, <1>2, <1>6, <2>1, <2>2
<1> QED
  BY <1>2, <1>4, <1>5, <1>6

LEMMA Bounded ==
  ASSUME NEW H, NEW t \in Nat, H \subseteq 0 .. t - 1
  PROVE  H \subseteq Nat /\ t \notin H /\ \A w \in H : w < t
OBVIOUS

(* A fate stays one when more is known. *)
LEMMA FateKept ==
  ASSUME NEW sp, NEW sq, NEW t \in Nat, NEW u \in Nat, t <= u, NEW H, NEW G, NEW C, NEW D,
         NEW M, NEW w \in 0 .. t - 1, Fate(sp, w, t, H, C, M), C \subseteq D,
         \A v \in Int : v < t => (v \in G <=> v \in H),
         \A x : Covered(sp, x, M) => Covered(sq, x, M)
  PROVE  Fate(sq, w, u, G, D, M)
<1>1. CASE Covered(sp, w, M)
  BY <1>1 DEF Fate
<1>2. CASE AfterCut(w, C, M)
  <2>1. AfterCut(w, D, M)
    BY <1>2 DEF AfterCut
  <2> QED
    BY <2>1 DEF Fate
<1>3. CASE Short(w, t, H, M)
  <2>1. PICK x \in 0 .. w, y \in w + 1 .. t - 1 :
          x - 1 \notin H /\ y \notin H /\ (y - x) * n_window <= M
    BY <1>3 DEF Short
  <2>2. x - 1 \in Int /\ x - 1 < t /\ y \in Int /\ y < t /\ y \in w + 1 .. u - 1
    BY <2>1
  <2>3. x - 1 \notin G /\ y \notin G
    BY <2>1, <2>2
  <2>4. Short(w, u, G, M)
    BY <2>1, <2>2, <2>3 DEF Short
  <2> QED
    BY <2>4 DEF Fate
<1> QED
  BY <1>1, <1>2, <1>3 DEF Fate

LEMMA CoveredAppend ==
  ASSUME NEW sp \in Seq(Speech), NEW x \in Speech, NEW M
  PROVE  /\ \A w : Covered(sp, w, M) => Covered(Append(sp, x), w, M)
         /\ \A w : Within(x, w) /\ x.end - x.start >= M => Covered(Append(sp, x), w, M)
<1>1. PICK r : r = Append(sp, x)
  OBVIOUS
<1>2. /\ Len(r) = Len(sp) + 1 /\ r[Len(sp) + 1] = x /\ Len(sp) \in Nat
      /\ \A k \in 1 .. Len(sp) : r[k] = sp[k]
  BY <1>1
<1>3. ASSUME NEW w, Covered(sp, w, M) PROVE Covered(r, w, M)
  <2>1. PICK k \in 1 .. Len(sp) : Within(sp[k], w) /\ sp[k].end - sp[k].start >= M
    BY <1>3 DEF Covered
  <2>2. k \in 1 .. Len(r) /\ r[k] = sp[k]
    BY <1>2
  <2> QED
    BY <2>1, <2>2 DEF Covered
<1>4. ASSUME NEW w, Within(x, w) /\ x.end - x.start >= M PROVE Covered(r, w, M)
  <2>1. Len(sp) + 1 \in 1 .. Len(r)
    BY <1>2
  <2> QED
    BY <1>2, <1>4, <2>1 DEF Covered
<1> QED
  BY <1>1, <1>3, <1>4

(* A window without speech changes nothing of what is told. *)
LEMMA ToldQuiet ==
  ASSUME NEW s, NEW t \in Nat, NEW H, NEW C, NEW M, Told(s, t, H, C, M)
  PROVE  Told(s, t + 1, H, C, M)
<1>1. H \subseteq 0 .. t - 1 /\ t \notin H /\ H \subseteq 0 .. (t + 1) - 1 /\ (t + 1) - 1 = t
  <2>1. H \subseteq 0 .. t - 1
    BY DEF Told
  <2>2. t \notin H /\ (t + 1) - 1 = t
    BY <2>1, Bounded
  <2>3. ASSUME NEW w \in H PROVE w \in 0 .. (t + 1) - 1
    <3>1. w \in 0 .. t - 1
      BY <2>1
    <3> QED
      BY <3>1
  <2> QED
    BY <2>1, <2>2, <2>3
<1>2. ASSUME NEW w \in H, Fate(s.speeches, w, t, H, C, M)
      PROVE  Fate(s.speeches, w, t + 1, H, C, M)
  <2>1. w \in 0 .. t - 1 /\ t + 1 \in Nat /\ t <= t + 1
    BY <1>1
  <2> QED
    BY <1>2, <2>1, FateKept
<1>3. ASSUME NEW y, Quiet(y, t, H) PROVE Quiet(y, t + 1, H)
  <2>1. ASSUME NEW w \in y .. t, w \in H PROVE FALSE
    <3>1. w \in 0 .. t - 1 /\ w \in y .. t - 1
      BY <1>1, <2>1
    <3> QED
      BY <1>3, <2>1, <3>1 DEF Quiet
  <2> QED
    BY <1>1, <2>1 DEF Quiet
<1>4. \A x \in 0 .. t - 1 : x \in 0 .. (t + 1) - 1
  OBVIOUS
<1>5. s.in_speech => \E x \in 0 .. (t + 1) - 1 : Begins(s, x, t + 1, H, C, M)
  <2> SUFFICES ASSUME s.in_speech PROVE \E x \in 0 .. (t + 1) - 1 : Begins(s, x, t + 1, H, C, M)
    OBVIOUS
  <2>1. PICK x \in 0 .. t - 1 : Begins(s, x, t, H, C, M)
    BY DEF Told
  <2>2. Begins(s, x, t + 1, H, C, M)
    BY <1>2, <2>1 DEF Begins
  <2> QED
    BY <1>4, <2>2
<1>6. s.temp_end # 0 =>
        \E y \in 0 .. (t + 1) - 1 : s.temp_end = y * n_window /\ Quiet(y, t + 1, H)
  <2> SUFFICES ASSUME s.temp_end # 0
      PROVE  \E y \in 0 .. (t + 1) - 1 : s.temp_end = y * n_window /\ Quiet(y, t + 1, H)
    OBVIOUS
  <2>1. PICK y \in 0 .. t - 1 : s.temp_end = y * n_window /\ Quiet(y, t, H)
    BY DEF Told
  <2> QED
    BY <1>3, <1>4, <2>1
<1>7. s.prev_end # 0 =>
        \E z \in 0 .. (t + 1) - 1 :
          /\ s.prev_end = z * n_window /\ z \notin H
          /\ s.next_start < s.prev_end => s.temp_end # 0 /\ Quiet(z, t + 1, H)
          /\ \A u \in H : s.next_start = u * n_window /\ z <= u => Quiet(z, u, H)
  <2>1. ASSUME s.prev_end # 0
        PROVE  \E z \in 0 .. t - 1 :
                 /\ s.prev_end = z * n_window /\ z \notin H
                 /\ s.next_start < s.prev_end => s.temp_end # 0 /\ Quiet(z, t, H)
                 /\ \A u \in H : s.next_start = u * n_window /\ z <= u => Quiet(z, u, H)
    BY <2>1 DEF Told
  <2> QED
    BY <1>3, <1>4, <2>1
<1>8. ~s.in_speech => /\ \A w \in H : Fate(s.speeches, w, t + 1, H, C, M)
                      /\ (t + 1) - 1 \in H => (t + 1) - 1 \in C
  BY <1>1, <1>2 DEF Told
<1>9. s.next_start # 0 => \E u \in H : s.next_start = u * n_window
  BY DEF Told
<1> QED
  BY <1>1, <1>5, <1>6, <1>7, <1>8, <1>9 DEF Told

(* A window with speech, heard too. *)
LEMMA Louder ==
  ASSUME NEW sp, NEW t \in Nat, NEW H, NEW C, NEW M, H \subseteq 0 .. t - 1
  PROVE  /\ H \cup {t} \subseteq 0 .. (t + 1) - 1
         /\ \A w \in H : Fate(sp, w, t, H, C, M) => Fate(sp, w, t + 1, H \cup {t}, C, M)
         /\ \A x \in 0 .. t : x - 1 \notin H => x - 1 \notin H \cup {t}
<1>1. ASSUME NEW w \in H \cup {t} PROVE w \in 0 .. (t + 1) - 1
  <2>1. w = t \/ w \in 0 .. t - 1
    BY <1>1
  <2> QED
    BY <2>1
<1>2. ASSUME NEW w \in H, Fate(sp, w, t, H, C, M) PROVE Fate(sp, w, t + 1, H \cup {t}, C, M)
  <2>1. w \in 0 .. t - 1 /\ t + 1 \in Nat /\ t <= t + 1
    BY <1>2
  <2>2. \A v \in Int : v < t => (v \in H \cup {t} <=> v \in H)
    OBVIOUS
  <2> QED
    BY <1>2, <2>1, <2>2, FateKept
<1>3. \A x \in 0 .. t : x - 1 # t
  OBVIOUS
<1> QED
  BY <1>1, <1>2, <1>3

LEMMA ToldReturned ==
  ASSUME NEW s, NEW t \in Nat, NEW H, NEW C, NEW M, Told(s, t, H, C, M),
         s \in ScanType, s.in_speech
  PROVE  Told(Returned(s, t * n_window), t + 1, H \cup {t}, C, M)
<1>1. PICK q, at, G, v : q = Returned(s, t * n_window) /\ at = t * n_window /\ G = H \cup {t}
                         /\ v = t + 1
  OBVIOUS
<1>2. /\ H \subseteq 0 .. t - 1 /\ G \subseteq 0 .. v - 1 /\ at \in Nat /\ H \subseteq G
      /\ t \in G /\ \A x \in 0 .. t - 1 : x \in 0 .. v - 1
      /\ \A x \in 0 .. t - 1 : x - 1 \notin H => x - 1 \notin G
  <2>1. H \subseteq 0 .. t - 1
    BY DEF Told
  <2>2. at \in Nat
    BY <1>1, WindowAssumption
  <2>3. \A x \in 0 .. t - 1 : x \in 0 .. t
    OBVIOUS
  <2> QED
    BY <1>1, <2>1, <2>2, <2>3, Louder
<1>0. \A w \in H : Fate(s.speeches, w, t, H, C, M) => Fate(s.speeches, w, v, G, C, M)
  BY <1>1, <1>2, Louder
<1>3. /\ q \in ScanType /\ q.speeches = s.speeches /\ q.start = s.start /\ q.in_speech
      /\ q.temp_end = 0 /\ q.prev_end = s.prev_end
      /\ q.next_start = IF s.temp_end # 0 /\ s.next_start < s.prev_end THEN at ELSE s.next_start
  <2>1. CASE s.temp_end = 0
    BY <1>1, <2>1 DEF Returned
  <2>2. CASE s.temp_end # 0
    <3>1. q = [s EXCEPT !.temp_end = 0,
                        !.next_start = IF s.next_start < s.prev_end THEN at ELSE s.next_start]
      BY <1>1, <2>2 DEF Returned
    <3> QED
      BY <1>2, <2>2, <3>1 DEF ScanType
  <2> QED
    BY <2>1, <2>2
<1>4. \E x \in 0 .. v - 1 : Begins(q, x, v, G, C, M)
  <2>1. PICK x \in 0 .. t - 1 : Begins(s, x, t, H, C, M)
    BY DEF Told
  <2>2. ASSUME NEW w \in G, w < x PROVE Fate(q.speeches, w, v, G, C, M)
    <3>1. w \in H
      BY <1>1, <2>1, <2>2
    <3>2. Fate(s.speeches, w, t, H, C, M)
      BY <2>1, <2>2, <3>1 DEF Begins
    <3> QED
      BY <1>0, <1>3, <3>1, <3>2
  <2>3. Begins(q, x, v, G, C, M)
    BY <1>2, <1>3, <2>1, <2>2 DEF Begins
  <2> QED
    BY <1>2, <2>3
<1>5. q.next_start # 0 => \E u \in G : q.next_start = u * n_window
  <2>1. CASE q.next_start = at
    BY <1>1, <1>2, <2>1
  <2>2. CASE q.next_start = s.next_start
    BY <1>2, <2>2 DEF Told
  <2> QED
    BY <1>3, <2>1, <2>2
<1>6. q.prev_end # 0 =>
        \E z \in 0 .. v - 1 :
          /\ q.prev_end = z * n_window /\ z \notin G
          /\ q.next_start < q.prev_end => q.temp_end # 0 /\ Quiet(z, v, G)
          /\ \A u \in G : q.next_start = u * n_window /\ z <= u => Quiet(z, u, G)
  <2> SUFFICES ASSUME s.prev_end # 0
      PROVE  \E z \in 0 .. v - 1 :
               /\ q.prev_end = z * n_window /\ z \notin G
               /\ q.next_start < q.prev_end => q.temp_end # 0 /\ Quiet(z, v, G)
               /\ \A u \in G : q.next_start = u * n_window /\ z <= u => Quiet(z, u, G)
    BY <1>3
  <2>1. PICK z \in 0 .. t - 1 :
          /\ s.prev_end = z * n_window /\ z \notin H
          /\ s.next_start < s.prev_end => s.temp_end # 0 /\ Quiet(z, t, H)
          /\ \A u \in H : s.next_start = u * n_window /\ z <= u => Quiet(z, u, H)
    BY DEF Told
  <2>2. z \in 0 .. v - 1 /\ z \notin G /\ z \in Int /\ z < t
    BY <1>1, <1>2, <2>1
  <2>3. s.prev_end \in Nat /\ s.next_start \in Nat /\ s.prev_end < at
    <3>1. z * n_window + n_window <= at
      BY <1>1, <2>2, Windows
    <3> QED
      BY <1>2, <2>1, <3>1, WindowAssumption DEF ScanType
  <2>4. ~(q.next_start < q.prev_end)
    BY <1>2, <1>3, <2>1, <2>3
  <2>5. ASSUME NEW u \in G, q.next_start = u * n_window, z <= u PROVE Quiet(z, u, G)
    <3>0. u \in Int /\ u <= t
      BY <1>1, <1>2
    <3>1. ASSUME NEW w \in z .. u - 1, w \in G PROVE FALSE
      <4>1. w \in H /\ w < u /\ w \in Int
        BY <1>1, <2>2, <3>0, <3>1
      <4>2. CASE s.next_start < s.prev_end
        <5>1. w \in z .. t - 1
          BY <2>2, <3>0, <3>1
        <5> QED
          BY <2>1, <4>1, <4>2, <5>1 DEF Quiet
      <4>3. CASE ~(s.next_start < s.prev_end)
        <5>1. q.next_start = s.next_start
          BY <1>3, <4>3
        <5>2. u # t
          <6> SUFFICES ASSUME u = t PROVE FALSE
            OBVIOUS
          <6>1. s.next_start # 0
            BY <2>3, <4>3
          <6>2. PICK u1 \in H : s.next_start = u1 * n_window
            BY <6>1 DEF Told
          <6>3. u1 \in Int /\ u1 < t
            BY <1>2, <6>2
          <6>4. u1 * n_window + n_window <= t * n_window
            BY <6>3, Windows
          <6>5. u1 * n_window \in Int /\ u1 * n_window = t * n_window
            BY <2>5, <5>1, <6>2, <6>3, Windows
          <6> QED
            BY <6>4, <6>5, WindowAssumption
        <5>3. u \in H
          BY <1>1, <5>2
        <5>4. Quiet(z, u, H)
          BY <2>1, <2>5, <5>1, <5>3
        <5> QED
          BY <3>1, <4>1, <5>4 DEF Quiet
      <4> QED
        BY <4>2, <4>3
    <3> QED
      BY <3>1 DEF Quiet
  <2> QED
    BY <1>3, <2>1, <2>2, <2>4, <2>5
<1>7. Told(q, v, G, C, M)
  BY <1>2, <1>3, <1>4, <1>5, <1>6 DEF Told
<1> QED
  BY <1>1, <1>7

(* When speech from the window x to the window e is handed over, or dropped *)
(* for being too short, the fate of its windows is sealed.                  *)
LEMMA Closed ==
  ASSUME NEW sp \in Seq(Speech), NEW sq, NEW x \in Nat, NEW e \in Nat, NEW t \in Nat,
         NEW H, NEW C, NEW M \in Int, H \subseteq 0 .. t - 1,
         x - 1 \notin H \/ x - 1 \in C,
         \A w \in H : w < x => Fate(sp, w, t, H, C, M),
         NEW r \in Speech, r.start = x * n_window, r.end = e * n_window,
         \/ sq = sp /\ (e - x) * n_window <= M /\ e \notin H /\ e < t
         \/ sq = Append(sp, r) /\ ((e \notin H /\ e < t) \/ (e - x) * n_window >= M)
  PROVE  \A w \in H : w < e => Fate(sq, w, t, H, C, M)
<1> SUFFICES ASSUME NEW w \in H, w < e PROVE Fate(sq, w, t, H, C, M)
  OBVIOUS
<1>0. w \in 0 .. t - 1 /\ w \in Int /\ (e - x) * n_window \in Int
  <2>1. w \in 0 .. t - 1 /\ e - x \in Int
    OBVIOUS
  <2> QED
    BY <2>1, Windows
<1>1. CASE w < x
  <2>1. Fate(sp, w, t, H, C, M)
    BY <1>1
  <2>2. \A z : Covered(sp, z, M) => Covered(sq, z, M)
    BY CoveredAppend
  <2> QED
    BY <1>0, <2>1, <2>2, FateKept
<1>2. CASE x <= w /\ (e - x) * n_window <= M /\ e \notin H /\ e < t
  <2>1. CASE x - 1 \notin H
    <3>1. x \in 0 .. w /\ e \in w + 1 .. t - 1
      BY <1>0, <1>2
    <3> QED
      BY <1>2, <2>1, <3>1 DEF Fate, Short
  <2>2. CASE x - 1 \in C
    <3>1. x - 1 <= w /\ w - (x - 1) \in Int /\ e - x \in Int /\ w - (x - 1) <= e - x
      BY <1>0, <1>2
    <3>2. (w - (x - 1)) * n_window <= (e - x) * n_window /\ (w - (x - 1)) * n_window \in Int
      BY <3>1, Windows
    <3>3. (w - (x - 1)) * n_window <= M
      BY <1>0, <1>2, <3>2
    <3>4. AfterCut(w, C, M)
      BY <2>2, <3>1, <3>3 DEF AfterCut
    <3> QED
      BY <3>4 DEF Fate
  <2> QED
    BY <2>1, <2>2
<1>3. CASE x <= w /\ (e - x) * n_window >= M /\ sq = Append(sp, r)
  <2>1. x * n_window <= w * n_window /\ w * n_window + n_window <= e * n_window
        /\ (w + 1) * n_window = w * n_window + n_window
        /\ (e - x) * n_window = e * n_window - x * n_window
    BY <1>0, <1>3, Windows
  <2>2. Within(r, w) /\ r.end - r.start >= M
    BY <1>3, <2>1 DEF Within
  <2>3. Covered(sq, w, M)
    BY <1>3, <2>2, CoveredAppend
  <2> QED
    BY <2>3 DEF Fate
<1> QED
  BY <1>0, <1>1, <1>2, <1>3

(* When speech has been handed over, no speech goes on. *)
LEMMA ToldEnded ==
  ASSUME NEW s \in ScanType, NEW t \in Nat, NEW H, NEW C, NEW M, H \subseteq 0 .. t - 1,
         \A w \in H : Fate(s.speeches, w, t, H, C, M), t - 1 \in H => t - 1 \in C
  PROVE  Told(Ended(s), t, H, C, M)
<1>1. PICK q : q = Ended(s)
  OBVIOUS
<1>2. q = [speeches |-> s.speeches, in_speech |-> FALSE, start |-> 0,
           temp_end |-> 0, prev_end |-> 0, next_start |-> 0]
  BY <1>1 DEF Ended, NoScan
<1>3. q.speeches = s.speeches /\ ~q.in_speech
      /\ q.temp_end = 0 /\ q.prev_end = 0 /\ q.next_start = 0
  BY <1>2
<1>4. Told(q, t, H, C, M)
  BY <1>3 DEF Told
<1> QED
  BY <1>1, <1>4

LEMMA Pushed ==
  ASSUME NEW s \in ScanType, NEW e \in Nat
  PROVE  \E r \in Speech : /\ r.start = s.start /\ r.end = e
                           /\ Push(s, e).speeches = Append(s.speeches, r)
                           /\ Push(s, e) \in ScanType
<1>1. PICK q, r, sp : /\ q = Push(s, e) /\ r = [start |-> s.start, end |-> e]
                      /\ sp = Append(s.speeches, r)
  OBVIOUS
<1>2. r \in Speech /\ r.start = s.start /\ r.end = e
  BY <1>1 DEF ScanType, Speech
<1>3. q = [s EXCEPT !.speeches = sp] /\ sp \in Seq(Speech)
  BY <1>1, <1>2 DEF Push, ScanType
<1>4. q \in ScanType /\ q.speeches = sp
  BY <1>3 DEF ScanType
<1> QED
  BY <1>1, <1>2, <1>4

(* Speech begins with the window at t. *)
LEMMA ToldStarted ==
  ASSUME NEW s \in ScanType, NEW t \in Nat, NEW H, NEW C, NEW M, Told(s, t, H, C, M),
         ~s.in_speech, s.temp_end = 0, s.prev_end = 0, s.next_start = 0
  PROVE  Told(Started(s, t * n_window), t + 1, H \cup {t}, C, M)
<1>1. PICK q, at, G, v : /\ q = Started(s, t * n_window) /\ at = t * n_window
                         /\ G = H \cup {t} /\ v = t + 1
  OBVIOUS
<1>2. at \in Nat /\ v - 1 = t /\ t \in 0 .. t
  BY <1>1, WindowAssumption
<1>3. q = [s EXCEPT !.in_speech = TRUE, !.start = at]
  BY <1>1 DEF Started
<1>4. /\ q.speeches = s.speeches /\ q.start = at /\ q.in_speech
      /\ q.temp_end = 0 /\ q.prev_end = 0 /\ q.next_start = 0
  BY <1>2, <1>3 DEF ScanType
<1>5. H \subseteq 0 .. t - 1 /\ G \subseteq 0 .. v - 1
  <2>1. H \subseteq 0 .. t - 1
    BY DEF Told
  <2> QED
    BY <1>1, <2>1, Louder
<1>6. \A w \in H : Fate(s.speeches, w, t, H, C, M) => Fate(s.speeches, w, v, G, C, M)
  BY <1>1, <1>5, Louder
<1>7. ASSUME NEW w \in G, w < t PROVE Fate(q.speeches, w, v, G, C, M)
  <2>1. w \in H
    BY <1>1, <1>7
  <2>2. Fate(s.speeches, w, t, H, C, M)
    BY <2>1 DEF Told
  <2> QED
    BY <1>4, <1>6, <2>1, <2>2
<1>8. t - 1 \notin G \/ t - 1 \in C
  <2>1. t - 1 \in H => t - 1 \in C
    BY DEF Told
  <2>2. t - 1 # t
    OBVIOUS
  <2> QED
    BY <1>1, <2>1, <2>2
<1>9. Begins(q, t, v, G, C, M)
  BY <1>1, <1>4, <1>7, <1>8 DEF Begins
<1>10. Told(q, v, G, C, M)
  <2>1. t \in 0 .. v - 1
    BY <1>2
  <2> QED
    BY <1>4, <1>5, <1>9, <2>1 DEF Told
<1> QED
  BY <1>1, <1>10

(* More cuts tell no less. *)
LEMMA ToldMoreCuts ==
  ASSUME NEW s, NEW t \in Nat, NEW H, NEW C, NEW D, NEW M, Told(s, t, H, C, M), C \subseteq D
  PROVE  Told(s, t, H, D, M)
<1>1. H \subseteq 0 .. t - 1 /\ t <= t
  BY DEF Told
<1>2. \A w \in H : Fate(s.speeches, w, t, H, C, M) => Fate(s.speeches, w, t, H, D, M)
  BY <1>1, FateKept
<1>3. \A x : Begins(s, x, t, H, C, M) => Begins(s, x, t, H, D, M)
  BY <1>2 DEF Begins
<1>4. /\ s.in_speech => \E x \in 0 .. t - 1 : Begins(s, x, t, H, D, M)
      /\ ~s.in_speech => /\ \A w \in H : Fate(s.speeches, w, t, H, D, M)
                         /\ t - 1 \in H => t - 1 \in D
  BY <1>2, <1>3 DEF Told
<1> QED
  BY <1>4 DEF Told

(* Speech that is too long, cut at the window t. *)
LEMMA ToldCut ==
  ASSUME NEW s \in ScanType, NEW t \in Nat, NEW H, NEW C, NEW M \in Nat,
         Told(s, t + 1, H, C, M), s.in_speech, t * n_window - s.start >= M
  PROVE  Told(Ended(Push(s, t * n_window)), t + 1, H, C \cup {t}, M)
<1>1. PICK v, D, at : v = t + 1 /\ D = C \cup {t} /\ at = t * n_window
  OBVIOUS
<1>2. v \in Nat /\ v - 1 = t /\ at \in Nat /\ t \in D /\ H \subseteq 0 .. v - 1
  BY <1>1, WindowAssumption DEF Told
<1>3. PICK p, r : /\ p = Push(s, at) /\ r \in Speech /\ r.start = s.start /\ r.end = at
                  /\ p.speeches = Append(s.speeches, r) /\ p \in ScanType
  BY <1>2, Pushed
<1>4. PICK x \in 0 .. v - 1 : Begins(s, x, v, H, C, M)
  BY <1>1 DEF Told
<1>5. x \in Nat /\ s.start = x * n_window /\ s.speeches \in Seq(Speech)
  BY <1>4 DEF Begins, ScanType
<1>6. (t - x) * n_window >= M
  <2>1. (t - x) * n_window = t * n_window - x * n_window
    BY <1>5, Windows
  <2> QED
    BY <1>5, <2>1
<1>7. \A w \in H : w < t => Fate(p.speeches, w, v, H, C, M)
  <2>1. /\ x - 1 \notin H \/ x - 1 \in C
        /\ \A w \in H : w < x => Fate(s.speeches, w, v, H, C, M)
    BY <1>4 DEF Begins
  <2>2. r.start = x * n_window /\ r.end = t * n_window
    BY <1>1, <1>3, <1>5
  <2>3. M \in Int /\ p.speeches = Append(s.speeches, r) /\ r \in Speech
    BY <1>3
  <2> QED
    BY ONLY <1>2, <1>5, <1>6, <2>1, <2>2, <2>3, t \in Nat, Closed
<1>8. ASSUME NEW w \in H PROVE Fate(p.speeches, w, v, H, D, M)
  <2>1. w \in 0 .. v - 1 /\ v <= v /\ C \subseteq D
    BY <1>1, <1>2
  <2>2. CASE w < t
    <3>1. Fate(p.speeches, w, v, H, C, M)
      BY <1>7, <2>2
    <3> QED
      BY <1>2, <2>1, <3>1, FateKept
  <2>3. CASE ~(w < t)
    <3>1. w = t /\ w \in Int /\ w - w = 0 /\ 0 * n_window = 0
      BY <1>2, <2>1, <2>3, WindowAssumption
    <3>2. (w - w) * n_window <= M /\ w \in D /\ w <= w
      BY <1>2, <3>1
    <3>4. AfterCut(w, D, M)
      BY <3>2, Zenon DEF AfterCut
    <3> QED
      BY <3>4 DEF Fate
  <2> QED
    BY <2>2, <2>3
<1>9. Told(Ended(p), v, H, D, M)
  BY <1>2, <1>3, <1>8, ToldEnded
<1> QED
  BY <1>1, <1>3, <1>9

(* Speech that is too long, split at the last silence. *)
LEMMA ToldSplit ==
  ASSUME NEW s \in ScanType, NEW t \in Nat, NEW H, NEW C, NEW M \in Nat,
         Told(s, t, H, C, M), s.in_speech, s.prev_end # 0
  PROVE  Told(Split(s), t, H, C, M)
<1>1. H \subseteq 0 .. t - 1 /\ s.prev_end \in Nat /\ s.next_start \in Nat
  BY DEF Told, ScanType
<1>2. PICK z \in 0 .. t - 1 :
        /\ s.prev_end = z * n_window /\ z \notin H
        /\ s.next_start < s.prev_end => s.temp_end # 0 /\ Quiet(z, t, H)
        /\ \A u \in H : s.next_start = u * n_window /\ z <= u => Quiet(z, u, H)
  BY DEF Told
<1>3. PICK x \in 0 .. t - 1 : Begins(s, x, t, H, C, M)
  BY DEF Told
<1>4. PICK p, r : /\ p = Push(s, s.prev_end) /\ r \in Speech
                  /\ r.start = s.start /\ r.end = s.prev_end
                  /\ p.speeches = Append(s.speeches, r) /\ p \in ScanType
  BY <1>1, Pushed
<1>5. \A w \in H : w < z => Fate(p.speeches, w, t, H, C, M)
  <2>1. /\ x - 1 \notin H \/ x - 1 \in C
        /\ \A w \in H : w < x => Fate(s.speeches, w, t, H, C, M)
    BY <1>3 DEF Begins
  <2>2. r.start = x * n_window /\ r.end = z * n_window /\ s.speeches \in Seq(Speech)
        /\ x \in Nat /\ z \in Nat /\ z < t /\ z \notin H
    BY <1>2, <1>3, <1>4 DEF Begins, ScanType
  <2>3. M \in Int /\ p.speeches = Append(s.speeches, r) /\ r \in Speech
    BY <1>4
  <2> QED
    BY ONLY <1>1, <2>1, <2>2, <2>3, t \in Nat, Closed
<1>6. PICK q : q = Ended(p)
  OBVIOUS
<1>7. CASE s.next_start < s.prev_end
  <2>1. Split(s) = q
    BY <1>4, <1>6, <1>7 DEF Split
  <2>2. ASSUME NEW w \in H PROVE w < z
    <3>1. w \in 0 .. t - 1 /\ w \notin z .. t - 1
      BY <1>1, <1>2, <1>7, <2>2 DEF Quiet
    <3> QED
      BY <1>2, <3>1
  <2>3. t - 1 \notin H
    <3>1. t - 1 \in z .. t - 1
      BY <1>2
    <3> QED
      BY <1>2, <1>7, <3>1 DEF Quiet
  <2> QED
    BY <1>1, <1>4, <1>5, <1>6, <2>1, <2>2, <2>3, ToldEnded
<1>8. CASE ~(s.next_start < s.prev_end)
  <2>1. s.next_start # 0
    BY <1>1, <1>8
  <2>2. PICK u \in H : s.next_start = u * n_window
    BY <2>1 DEF Told
  <2>3. u \in 0 .. t - 1 /\ u \in Int /\ z \in Int
    BY <1>1, <1>2
  <2>4. z <= u
    <3>1. u < z => u * n_window + n_window <= z * n_window
      BY <2>3, Windows
    <3> QED
      BY <1>1, <1>2, <1>8, <2>2, <2>3, <3>1, WindowAssumption
  <2>5. Quiet(z, u, H)
    BY <1>2, <2>2, <2>4
  <2>6. u - 1 \notin H
    <3>1. u # z
      BY <1>2, <2>2
    <3>2. u - 1 \in z .. u - 1
      BY <2>3, <2>4, <3>1
    <3> QED
      BY <2>5, <3>2 DEF Quiet
  <2>7. PICK a : a = Split(s)
    OBVIOUS
  <2>8. a = [q EXCEPT !.in_speech = TRUE, !.start = s.next_start]
    BY <1>4, <1>6, <1>8, <2>7 DEF Split
  <2>9. q = [speeches |-> p.speeches, in_speech |-> FALSE, start |-> 0,
             temp_end |-> 0, prev_end |-> 0, next_start |-> 0]
    BY <1>6 DEF Ended, NoScan
  <2>10. /\ a.speeches = p.speeches /\ a.in_speech /\ a.start = s.next_start
         /\ a.temp_end = 0 /\ a.prev_end = 0 /\ a.next_start = 0
    BY <2>8, <2>9
  <2>11. ASSUME NEW w \in H, w < u PROVE Fate(a.speeches, w, t, H, C, M)
    <3>1. w \in 0 .. t - 1
      BY <1>1
    <3>2. w < z
      <4>1. w \notin z .. u - 1
        BY <2>5, <2>11 DEF Quiet
      <4> QED
        BY <2>3, <2>11, <3>1, <4>1
    <3> QED
      BY <1>5, <2>10, <3>2
  <2>12. Begins(a, u, t, H, C, M)
    BY <2>2, <2>6, <2>10, <2>11 DEF Begins
  <2>13. Told(a, t, H, C, M)
    BY <1>1, <2>3, <2>10, <2>12 DEF Told
  <2> QED
    BY <2>7, <2>13
<1> QED
  BY <1>7, <1>8

(* Silence in speech, in the window t. *)
LEMMA ToldSilent ==
  ASSUME NEW s \in ScanType, NEW t \in Nat, NEW H, NEW C, NEW M \in Nat, NEW p,
         M = Ms(p.min_speech), Told(s, t + 1, H, C, M), s.in_speech, t \notin H
  PROVE  Told(Silent(s, t * n_window, p), t + 1, H, C, M)
<1>1. PICK v, at : v = t + 1 /\ at = t * n_window
  OBVIOUS
<1>2. /\ v \in Nat /\ v - 1 = t /\ at \in Nat /\ H \subseteq 0 .. v - 1 /\ t \in 0 .. v - 1
      /\ Told(s, v, H, C, M)
  BY <1>1, WindowAssumption DEF Told
<1>3. PICK te : te = IF s.temp_end = 0 THEN at ELSE s.temp_end
  OBVIOUS
<1>4. PICK q : q = [s EXCEPT !.temp_end = te,
                             !.prev_end = IF at - te > SplitSilence THEN te ELSE s.prev_end]
  OBVIOUS
<1>5. PICK r : r = Ended(IF te - s.start > Ms(p.min_speech) THEN Push(s, te) ELSE s)
  OBVIOUS
<1>6. Silent(s, at, p) = IF at - te < Ms(p.min_silence) THEN q ELSE r
  BY <1>3, <1>4, <1>5 DEF Silent
<1>7. PICK y \in 0 .. v - 1 : te = y * n_window /\ Quiet(y, v, H)
  <2>1. CASE s.temp_end = 0
    <3>1. \A w \in t .. v - 1 : w = t
      BY <1>1, <1>2
    <3>2. Quiet(t, v, H)
      BY <3>1 DEF Quiet
    <3> QED
      BY <1>1, <1>2, <1>3, <2>1, <3>2
  <2>2. CASE s.temp_end # 0
    BY <1>2, <1>3, <2>2 DEF Told
  <2> QED
    BY <2>1, <2>2
<1>8. y \in Nat /\ y < v /\ y \notin H /\ te \in Nat /\ \A w \in H : w < y
  <2>1. y \in Nat /\ y < v /\ y \in y .. v - 1
    BY <1>2, <1>7
  <2>2. y \notin H
    BY <1>7, <2>1 DEF Quiet
  <2>3. te \in Nat
    BY <1>2, <1>3 DEF ScanType
  <2>4. ASSUME NEW w \in H PROVE w < y
    <3>1. w \in 0 .. v - 1 /\ w \notin y .. v - 1
      BY <1>2, <1>7 DEF Quiet
    <3> QED
      BY <2>1, <3>1
  <2> QED
    BY <2>1, <2>2, <2>3, <2>4
<1>9. Told(q, v, H, C, M)
  <2>1. /\ q.speeches = s.speeches /\ q.start = s.start /\ q.in_speech
        /\ q.temp_end = te /\ q.prev_end \in {te, s.prev_end} /\ q.next_start = s.next_start
    BY <1>4, <1>8 DEF ScanType
  <2>2. \E x \in 0 .. v - 1 : Begins(q, x, v, H, C, M)
    <3>1. PICK x \in 0 .. v - 1 : Begins(s, x, v, H, C, M)
      BY <1>2 DEF Told
    <3>2. Begins(q, x, v, H, C, M)
      BY <2>1, <3>1 DEF Begins
    <3> QED
      BY <3>2
  <2>3. q.next_start # 0 => \E u \in H : q.next_start = u * n_window
    BY <1>2, <2>1 DEF Told
  <2>4. q.prev_end # 0 =>
          \E z \in 0 .. v - 1 :
            /\ q.prev_end = z * n_window /\ z \notin H
            /\ q.next_start < q.prev_end => q.temp_end # 0 /\ Quiet(z, v, H)
            /\ \A u \in H : q.next_start = u * n_window /\ z <= u => Quiet(z, u, H)
    <3>1. CASE q.prev_end = te /\ te # 0
      <4>1. \A u \in H : ~(y <= u)
        <5>1. \A u \in H : u \in Int /\ u < y
          BY <1>2, <1>8
        <5> QED
          BY <1>8, <5>1
      <4> QED
        BY <1>7, <1>8, <2>1, <3>1, <4>1
    <3>2. CASE q.prev_end = s.prev_end /\ s.prev_end # 0
      <4>1. PICK z \in 0 .. v - 1 :
              /\ s.prev_end = z * n_window /\ z \notin H
              /\ s.next_start < s.prev_end => s.temp_end # 0 /\ Quiet(z, v, H)
              /\ \A u \in H : s.next_start = u * n_window /\ z <= u => Quiet(z, u, H)
        BY <1>2, <3>2 DEF Told
      <4>2. s.temp_end # 0 => te # 0
        BY <1>3
      <4> QED
        BY <2>1, <3>2, <4>1, <4>2
    <3> QED
      BY <2>1, <3>1, <3>2
  <2>5. q.temp_end # 0 => \E z \in 0 .. v - 1 : q.temp_end = z * n_window /\ Quiet(z, v, H)
    BY <1>7, <2>1
  <2> QED
    BY <1>2, <2>1, <2>2, <2>3, <2>4, <2>5 DEF Told
<1>10. Told(r, v, H, C, M)
  <2>1. PICK x \in 0 .. v - 1 : Begins(s, x, v, H, C, M)
    BY <1>2 DEF Told
  <2>2. /\ x - 1 \notin H \/ x - 1 \in C
        /\ \A w \in H : w < x => Fate(s.speeches, w, v, H, C, M)
        /\ x \in Nat /\ s.start = x * n_window /\ s.speeches \in Seq(Speech)
    BY <2>1 DEF Begins, ScanType
  <2>3. PICK u, e : /\ u = Push(s, te) /\ e \in Speech /\ e.start = s.start /\ e.end = te
                    /\ u.speeches = Append(s.speeches, e) /\ u \in ScanType
    BY <1>8, Pushed
  <2>4. v - 1 \in H => v - 1 \in C
    BY <1>2
  <2>5. e.start = x * n_window /\ e.end = y * n_window /\ e \in Speech /\ M \in Int
    BY <1>7, <2>2, <2>3
  <2>6. CASE te - s.start > Ms(p.min_speech)
    <3>1. r = Ended(u)
      BY <1>5, <2>3, <2>6
    <3>2. PICK sq : sq = u.speeches
      OBVIOUS
    <3>3. sq = Append(s.speeches, e)
      BY <2>3, <3>2
    <3>4. \A w \in H : w < y => Fate(sq, w, v, H, C, M)
      BY ONLY <1>2, <1>8, <2>2, <2>5, <3>3, Closed
    <3>5. \A w \in H : Fate(u.speeches, w, v, H, C, M)
      BY <1>8, <3>2, <3>4
    <3> QED
      BY <1>2, <2>3, <2>4, <3>1, <3>5, ToldEnded
  <2>7. CASE ~(te - s.start > Ms(p.min_speech))
    <3>1. r = Ended(s)
      BY <1>5, <2>7
    <3>2. (y - x) * n_window <= M
      <4>1. (y - x) * n_window = te - s.start
        BY <1>7, <1>8, <2>2, Windows
      <4>2. te - s.start \in Int
        BY <1>8 DEF ScanType
      <4> QED
        BY <2>7, <4>1, <4>2
    <3>3. PICK sq : sq = s.speeches
      OBVIOUS
    <3>4. \A w \in H : w < y => Fate(sq, w, v, H, C, M)
      BY ONLY <1>2, <1>8, <2>2, <2>5, <3>2, <3>3, Closed
    <3>5. \A w \in H : Fate(s.speeches, w, v, H, C, M)
      BY <1>8, <3>3, <3>4
    <3> QED
      BY <1>2, <2>4, <3>1, <3>5, ToldEnded
  <2> QED
    BY <2>6, <2>7
<1> QED
  BY <1>1, <1>6, <1>9, <1>10

LEMMA ReturnedSame ==
  ASSUME NEW s \in ScanType, NEW at \in Nat
  PROVE  /\ Returned(s, at) \in ScanType /\ Returned(s, at).speeches = s.speeches
         /\ Returned(s, at).start = s.start /\ Returned(s, at).in_speech = s.in_speech
         /\ Returned(s, at).prev_end = s.prev_end
<1>1. CASE s.temp_end = 0
  BY <1>1 DEF Returned
<1>2. CASE s.temp_end # 0
  <2>1. PICK q : q = [s EXCEPT !.temp_end = 0,
                               !.next_start = IF s.next_start < s.prev_end THEN at ELSE s.next_start]
    OBVIOUS
  <2>2. Returned(s, at) = q
    BY <1>2, <2>1 DEF Returned
  <2>3. /\ q \in ScanType /\ q.speeches = s.speeches /\ q.start = s.start
        /\ q.in_speech = s.in_speech /\ q.prev_end = s.prev_end
    BY <2>1 DEF ScanType
  <2> QED
    BY <2>2, <2>3
<1> QED
  BY <1>1, <1>2

(* What a window tells, whatever its probability, when the least duration   *)
(* of speech is not more than the longest.                                  *)
LEMMA ToldWindow ==
  ASSUME NEW s, NEW t \in Nat, NEW H, NEW C, NEW D, NEW M \in Nat, NEW p,
         M = Ms(p.min_speech), MaxSpeech(p) \in Int, M <= MaxSpeech(p),
         ScanOK(s, t * n_window), Told(s, t, H, C, M), NEW level \in Levels,
         C \subseteq D,
         s.in_speech /\ TooLong(s, t * n_window, p)
           /\ Len(Window(s, level, t * n_window, p).speeches) > Len(s.speeches) => t \in D
  PROVE  Told(Window(s, level, t * n_window, p), t + 1,
              IF level = "speech" THEN H \cup {t} ELSE H, D, M)
<1>1. PICK at, v, G, b, c, r :
        /\ at = t * n_window /\ v = t + 1
        /\ G = (IF level = "speech" THEN H \cup {t} ELSE H)
        /\ b = (IF level = "speech" THEN Returned(s, at) ELSE s)
        /\ c = (IF TooLong(b, at, p) THEN Split(b) ELSE b)
        /\ r = Window(s, level, at, p)
  OBVIOUS
<1>2. r = IF level = "speech" /\ ~b.in_speech THEN Started(b, at)
          ELSE IF TooLong(b, at, p) /\ b.prev_end = 0 THEN Ended(Push(b, at))
          ELSE IF level = "silence" /\ c.in_speech THEN Silent(c, at, p)
          ELSE c
  BY <1>1 DEF Window
<1>3. at \in Nat /\ v \in Nat /\ s \in ScanType /\ H \subseteq 0 .. t - 1 /\ t \notin H
  <2>1. H \subseteq 0 .. t - 1
    BY DEF Told
  <2> QED
    BY <1>1, <2>1, Bounded, WindowAssumption DEF ScanOK
<1>4. /\ b \in ScanType /\ b.speeches = s.speeches /\ b.start = s.start
      /\ b.in_speech = s.in_speech /\ b.prev_end = s.prev_end
  BY <1>1, <1>3, ReturnedSame
<1>5. CASE level = "speech" /\ ~b.in_speech
  <2>1. s.temp_end = 0 /\ s.prev_end = 0 /\ s.next_start = 0 /\ ~s.in_speech
    BY <1>4, <1>5 DEF ScanOK
  <2>2. b = s
    BY <1>1, <2>1 DEF Returned
  <2>3. r = Started(s, at)
    BY <1>2, <1>5, <2>2
  <2>4. Told(r, v, G, C, M)
    BY <1>1, <1>3, <1>5, <2>1, <2>3, ToldStarted
  <2> QED
    BY <1>1, <1>3, <2>4, ToldMoreCuts
<1>6. CASE ~(level = "speech" /\ ~b.in_speech)
  <2>1. Told(b, v, G, C, M)
    <3>1. CASE level = "speech"
      BY <1>1, <1>3, <1>4, <1>6, <3>1, ToldReturned
    <3>2. CASE level # "speech"
      BY <1>1, <3>2, ToldQuiet
    <3> QED
      BY <3>1, <3>2
  <2>2. CASE TooLong(b, at, p) /\ b.prev_end = 0
    <3>1. r = Ended(Push(b, at)) /\ b.in_speech
      BY <1>2, <1>6, <2>2 DEF TooLong
    <3>2. at - b.start >= M
      <4>1. at - b.start > MaxSpeech(p) /\ b.start \in Nat
        BY <1>4, <2>2 DEF TooLong, ScanType
      <4> QED
        BY <1>3, <4>1
    <3>3. Told(r, v, G, C \cup {t}, M)
      BY <1>1, <1>4, <2>1, <3>1, <3>2, ToldCut
    <3>4. t \in D
      <4>1. PICK e \in Speech : Push(b, at).speeches = Append(b.speeches, e)
        BY <1>3, <1>4, Pushed
      <4>2. r.speeches = Push(b, at).speeches
        BY <3>1 DEF Ended, NoScan
      <4>3. s.speeches \in Seq(Speech) /\ r.speeches = Append(s.speeches, e)
        BY <1>3, <1>4, <4>1, <4>2 DEF ScanType
      <4>4. Len(r.speeches) > Len(s.speeches)
        BY <4>3
      <4>5. TooLong(s, at, p) /\ s.in_speech
        BY <1>4, <2>2 DEF TooLong
      <4> QED
        BY <1>1, <4>4, <4>5
    <3>5. C \cup {t} \subseteq D
      BY <3>4
    <3> QED
      BY <1>1, <1>3, <3>3, <3>5, ToldMoreCuts
  <2>3. CASE ~(TooLong(b, at, p) /\ b.prev_end = 0)
    <3>1. Told(c, v, G, C, M) /\ c \in ScanType
      <4>1. CASE TooLong(b, at, p)
        <5>1. b.in_speech /\ b.prev_end # 0 /\ c = Split(b)
          BY <1>1, <2>3, <4>1 DEF TooLong
        <5>2. Told(Split(b), v, G, C, M)
          BY <1>3, <1>4, <2>1, <5>1, ToldSplit
        <5>3. Split(b) \in ScanType
          <6>1. MidOK(b, at)
            BY <1>1, <1>3, ReturnedOK, ScanIsMid
          <6> QED
            BY <1>3, <5>1, <6>1, SplitOK DEF MidOK
        <5> QED
          BY <5>1, <5>2, <5>3
      <4>2. CASE ~TooLong(b, at, p)
        BY <1>1, <1>4, <2>1, <4>2
      <4> QED
        BY <4>1, <4>2
    <3>2. Told(r, v, G, C, M)
      <4>1. CASE level = "silence" /\ c.in_speech
        <5>1. r = Silent(c, at, p) /\ G = H
          BY <1>1, <1>2, <1>6, <2>3, <4>1
        <5> QED
          BY <1>1, <1>3, <3>1, <4>1, <5>1, ToldSilent
      <4>2. CASE ~(level = "silence" /\ c.in_speech)
        BY <1>2, <1>6, <2>3, <3>1, <4>2
      <4> QED
        BY <4>1, <4>2
    <3> QED
      BY <1>1, <1>3, <3>2, ToldMoreCuts
  <2> QED
    BY <2>2, <2>3
<1> QED
  BY <1>5, <1>6

-----------------------------------------------------------------------------
(* After the scan: the audio ends. *)
LEMMA ToldTail ==
  ASSUME NEW s \in ScanType, NEW t \in Nat, NEW H, NEW C, NEW M \in Nat, NEW p,
         M = Ms(p.min_speech), Told(s, t, H, C, M)
  PROVE  \A w \in H : Fate(WithTail(s, t * n_window, p), w, t + 1, H, C, M)
<1>1. PICK v, length : v = t + 1 /\ length = t * n_window
  OBVIOUS
<1>2. Told(s, v, H, C, M) /\ v \in Nat /\ t \in Nat /\ t < v
  BY <1>1, ToldQuiet
<1>3. /\ H \subseteq 0 .. t - 1 /\ H \subseteq 0 .. v - 1 /\ t \notin H /\ length \in Nat
      /\ \A w \in H : w < t
  <2>1. H \subseteq 0 .. t - 1 /\ H \subseteq 0 .. v - 1
    BY <1>2 DEF Told
  <2> QED
    BY <1>1, <2>1, Bounded, WindowAssumption
<1>4. CASE ~s.in_speech
  <2>1. WithTail(s, length, p) = s.speeches
    BY <1>4 DEF WithTail
  <2> QED
    BY <1>1, <1>2, <1>4, <2>1 DEF Told
<1>5. CASE s.in_speech
  <2>1. PICK x \in 0 .. v - 1 : Begins(s, x, v, H, C, M)
    BY <1>2, <1>5 DEF Told
  <2>2. /\ x - 1 \notin H \/ x - 1 \in C
        /\ \A w \in H : w < x => Fate(s.speeches, w, v, H, C, M)
        /\ x \in Nat /\ s.start = x * n_window /\ s.speeches \in Seq(Speech)
    BY <2>1 DEF Begins, ScanType
  <2>3. PICK u, e : /\ u = Push(s, length) /\ e \in Speech
                    /\ e.start = s.start /\ e.end = length
                    /\ u.speeches = Append(s.speeches, e) /\ u \in ScanType
    BY <1>3, Pushed
  <2>4. e.start = x * n_window /\ e.end = t * n_window /\ e \in Speech /\ M \in Int
    BY <1>1, <2>2, <2>3
  <2>5. PICK sq : sq = WithTail(s, length, p)
    OBVIOUS
  <2>6. CASE length - s.start > Ms(p.min_speech)
    <3>1. sq = Append(s.speeches, e)
      BY <1>5, <2>3, <2>5, <2>6 DEF WithTail
    <3>2. \A w \in H : w < t => Fate(sq, w, v, H, C, M)
      BY ONLY <1>2, <1>3, <2>2, <2>4, <3>1, Closed
    <3> QED
      BY <1>1, <1>3, <2>5, <3>2
  <2>7. CASE ~(length - s.start > Ms(p.min_speech))
    <3>1. sq = s.speeches
      BY <2>5, <2>7 DEF WithTail
    <3>2. (t - x) * n_window <= M
      <4>1. (t - x) * n_window = length - s.start
        BY <1>1, <2>2, Windows
      <4>2. length - s.start \in Int
        BY <1>3 DEF ScanType
      <4> QED
        BY <2>7, <4>1, <4>2
    <3>3. \A w \in H : w < t => Fate(sq, w, v, H, C, M)
      BY ONLY <1>2, <1>3, <2>2, <2>4, <3>1, <3>2, Closed
    <3> QED
      BY <1>1, <1>3, <2>5, <3>3
  <2> QED
    BY <2>6, <2>7
<1> QED
  BY <1>4, <1>5

(* The first m of the segments are each within a merged one. *)
Enclosed(sp, m, a) ==
  \A k \in 1 .. m : \E j \in 1 .. Len(a) : a[j].start <= sp[k].start /\ sp[k].end <= a[j].end

LEMMA MergeEncloses ==
  ASSUME NEW sp, Apart(sp), NEW m \in 0 .. Len(sp) - 1, NEW a, MergedTo(sp, m, a),
         Enclosed(sp, m, a)
  PROVE  Enclosed(sp, m + 1, Merge(a, sp[m + 1]))
<1>0. PICK x, r : x = sp[m + 1] /\ r = Merge(a, sp[m + 1])
  OBVIOUS
<1>1. /\ sp \in Seq(Speech) /\ Len(sp) \in Nat /\ m \in Nat /\ m + 1 \in 1 .. Len(sp)
      /\ a \in Seq(Speech) /\ Len(a) \in Nat /\ n_window \in Nat
  BY WindowAssumption DEF Apart, MergedTo
<1>2. x \in Speech /\ x.start \in Nat /\ x.end \in Nat /\ x.start + n_window <= x.end
  <2>1. x \in Speech
    BY <1>0, <1>1
  <2> QED
    BY <1>0, <1>1, <2>1 DEF Apart, Speech
<1>3. CASE a # <<>> /\ x.start - Last(a).end < MaxMergeGap
  <2>1. PICK k, y : k = Len(a) /\ y = [a[k] EXCEPT !.end = x.end]
    OBVIOUS
  <2>2. k \in 1 .. Len(a) /\ a[k] \in Speech /\ a[k].start \in Nat /\ a[k].end \in Nat
    <3>1. k \in 1 .. Len(a)
      BY <1>1, <1>3, <2>1
    <3>2. a[k] \in Speech
      BY <1>1, <3>1
    <3> QED
      BY <3>1, <3>2 DEF Speech
  <2>3. r = [a EXCEPT ![k] = y]
    BY <1>0, <1>3, <2>1 DEF Merge
  <2>4. y \in Speech /\ y.start = a[k].start /\ y.end = x.end
    BY <1>2, <2>1, <2>2 DEF Speech
  <2>5. Len(r) = Len(a) /\ r[k] = y /\ \A z \in 1 .. Len(a) : z # k => r[z] = a[z]
    BY <1>1, <2>2, <2>3, <2>4
  <2>6. a[k].start <= x.start /\ a[k].end <= x.end
    <3>1. m > 0 /\ a[k].end = sp[m].end
      BY <1>1, <1>3, <2>1 DEF MergedTo
    <3>2. m \in 1 .. Len(sp) - 1
      BY <1>1, <3>1
    <3>3. sp[m].end <= x.start
      BY <1>0, <3>2 DEF Apart
    <3>4. a[k].start + n_window <= a[k].end
      BY <2>2 DEF MergedTo, Apart
    <3>5. PICK g, h : g = a[k].start /\ h = a[k].end
      OBVIOUS
    <3>6. g \in Nat /\ h \in Nat /\ g + n_window <= h /\ h <= x.start /\ n_window \in Nat
      BY <1>1, <2>2, <3>1, <3>3, <3>4, <3>5
    <3>7. g <= x.start /\ h <= x.end
      BY ONLY <1>2, <3>6
    <3> QED
      BY <3>5, <3>7
  <2>7. ASSUME NEW z \in 1 .. m + 1
        PROVE  \E j \in 1 .. Len(r) : r[j].start <= sp[z].start /\ sp[z].end <= r[j].end
    <3>1. CASE z = m + 1
      <4>1. r[k].start <= sp[z].start /\ sp[z].end <= r[k].end
        BY <1>0, <1>2, <2>4, <2>5, <2>6, <3>1
      <4> QED
        BY <2>2, <2>5, <4>1
    <3>2. CASE z # m + 1
      <4>1. z \in 1 .. m /\ z \in 1 .. Len(sp)
        BY <1>1, <3>2
      <4>2. PICK j \in 1 .. Len(a) : a[j].start <= sp[z].start /\ sp[z].end <= a[j].end
        BY <4>1 DEF Enclosed
      <4>3. CASE j = k
        <5>1. sp[z].end \in Nat
          <6>1. sp[z] \in Speech
            BY <1>1, <4>1
          <6> QED
            BY <6>1 DEF Speech
        <5>2. r[k].start = a[k].start /\ r[k].end = x.end
          BY <2>4, <2>5
        <5>3. sp[z].end <= x.end
          BY <1>2, <2>2, <2>6, <4>2, <4>3, <5>1
        <5>4. r[k].start <= sp[z].start /\ sp[z].end <= r[k].end
          BY <4>2, <4>3, <5>2, <5>3
        <5> QED
          BY <2>2, <2>5, <5>4
      <4>4. CASE j # k
        BY <2>5, <4>2, <4>4
      <4> QED
        BY <4>3, <4>4
    <3> QED
      BY <3>1, <3>2
  <2> QED
    BY <1>0, <2>7 DEF Enclosed
<1>4. CASE ~(a # <<>> /\ x.start - Last(a).end < MaxMergeGap)
  <2>1. r = Append(a, x)
    BY <1>0, <1>4 DEF Merge
  <2>2. Len(r) = Len(a) + 1 /\ r[Len(a) + 1] = x /\ \A z \in 1 .. Len(a) : r[z] = a[z]
    BY <1>1, <1>2, <2>1
  <2>3. ASSUME NEW z \in 1 .. m + 1
        PROVE  \E j \in 1 .. Len(r) : r[j].start <= sp[z].start /\ sp[z].end <= r[j].end
    <3>1. CASE z = m + 1
      <4>1. Len(a) + 1 \in 1 .. Len(r) /\ x.start <= x.start /\ x.end <= x.end
        BY <1>1, <1>2, <2>2
      <4> QED
        BY <1>0, <2>2, <3>1, <4>1
    <3>2. CASE z # m + 1
      <4>1. z \in 1 .. m
        BY <1>1, <3>2
      <4>2. PICK j \in 1 .. Len(a) : a[j].start <= sp[z].start /\ sp[z].end <= a[j].end
        BY <4>1 DEF Enclosed
      <4>3. j \in 1 .. Len(r) /\ r[j] = a[j]
        BY <1>1, <2>2
      <4> QED
        BY <4>2, <4>3
    <3> QED
      BY <3>1, <3>2
  <2> QED
    BY <1>0, <2>3 DEF Enclosed
<1> QED
  BY <1>3, <1>4

(* Merging covers no less. *)
LEMMA MergedCovers ==
  ASSUME NEW sp, Apart(sp), NEW M \in Int, NEW w \in Nat, Covered(sp, w, M)
  PROVE  Covered(Merged(sp), w, M)
<1>1. sp \in Seq(Speech) /\ Len(sp) \in Nat
  BY DEF Apart
<1>2. PICK f : /\ f[0] = <<>> /\ Merged(sp) = f[Len(sp)]
               /\ \A m \in 0 .. Len(sp) - 1 : f[m + 1] = Merge(f[m], sp[m + 1])
  BY <1>1, MergedSteps
<1> DEFINE Good == {m \in 0 .. Len(sp) : MergedTo(sp, m, f[m]) /\ Enclosed(sp, m, f[m])}
<1>3. 0 \in Good
  <2>1. MergedTo(sp, 0, <<>>) /\ Enclosed(sp, 0, <<>>)
    BY ApartEmpty DEF MergedTo, Enclosed
  <2> QED
    BY <1>1, <1>2, <2>1
<1>4. ASSUME NEW m \in 0 .. Len(sp) - 1, m \in Good PROVE m + 1 \in Good
  <2>1. MergedTo(sp, m, f[m]) /\ Enclosed(sp, m, f[m])
    BY <1>4
  <2>2. MergedTo(sp, m + 1, f[m + 1]) /\ Enclosed(sp, m + 1, f[m + 1])
    BY <1>2, <2>1, MergeOne, MergeEncloses
  <2> QED
    BY <1>1, <2>2
<1>5. Len(sp) \in Good
  <2> HIDE DEF Good
  <2>1. \A m \in 0 .. Len(sp) : m \in Good
    BY <1>1, <1>3, <1>4, UpTo
  <2> QED
    BY <1>1, <2>1
<1>6. PICK a : a = Merged(sp)
  OBVIOUS
<1>7. Enclosed(sp, Len(sp), a) /\ a \in Seq(Speech)
  BY <1>2, <1>5, <1>6 DEF MergedTo, Apart
<1>8. PICK k \in 1 .. Len(sp) : Within(sp[k], w) /\ sp[k].end - sp[k].start >= M
  BY DEF Covered
<1>9. PICK j \in 1 .. Len(a) : a[j].start <= sp[k].start /\ sp[k].end <= a[j].end
  BY <1>7 DEF Enclosed
<1>10. sp[k] \in Speech /\ a[j] \in Speech
  BY <1>1, <1>7
<1>11. PICK b, c, d, e : b = sp[k].start /\ c = sp[k].end /\ d = a[j].start /\ e = a[j].end
  OBVIOUS
<1>12. b \in Nat /\ c \in Nat /\ d \in Nat /\ e \in Nat /\ d <= b /\ c <= e
  BY <1>9, <1>10, <1>11 DEF Speech
<1>13. PICK g, h : g = w * n_window /\ h = (w + 1) * n_window
  OBVIOUS
<1>14. g \in Int /\ h \in Int
  BY <1>13, WindowAssumption
<1>15. b <= g /\ h <= c /\ c - b >= M
  BY <1>8, <1>11, <1>13 DEF Within
<1>16. d <= g /\ h <= e /\ e - d >= M
  BY ONLY <1>12, <1>14, <1>15, M \in Int
<1>17. Within(a[j], w) /\ a[j].end - a[j].start >= M
  BY <1>11, <1>13, <1>16 DEF Within
<1> QED
  BY <1>6, <1>17 DEF Covered

(* The segments that last, of the first m, are kept. *)
Lasting(sp, m, a, M) ==
  \A k \in 1 .. m : sp[k].end - sp[k].start >= M => \E j \in 1 .. Len(a) : a[j] = sp[k]

LEMMA KeepsLasting ==
  ASSUME NEW sp, Apart(sp), NEW m \in 0 .. Len(sp) - 1, NEW a, KeptTo(sp, m, a),
         NEW p, NEW M \in Int, M = Ms(p.min_speech), Lasting(sp, m, a, M)
  PROVE  Lasting(sp, m + 1, KeepLong(a, sp[m + 1], p), M)
<1>0. PICK x, r : x = sp[m + 1] /\ r = KeepLong(a, sp[m + 1], p)
  OBVIOUS
<1>1. /\ sp \in Seq(Speech) /\ m \in Nat /\ m + 1 \in 1 .. Len(sp)
      /\ a \in Seq(Speech) /\ Len(a) \in Nat
  BY DEF Apart, KeptTo
<1>2. x \in Speech /\ x.end - x.start \in Int
  <2>1. x \in Speech
    BY <1>0, <1>1
  <2> QED
    BY <2>1 DEF Speech
<1>3. \A j \in 1 .. Len(a) : j \in 1 .. Len(r) /\ r[j] = a[j]
  <2>1. r = a \/ r = Append(a, x)
    BY <1>0 DEF KeepLong
  <2> QED
    BY <1>1, <1>2, <2>1
<1>4. x.end - x.start >= M => \E j \in 1 .. Len(r) : r[j] = x
  <2> SUFFICES ASSUME x.end - x.start >= M PROVE \E j \in 1 .. Len(r) : r[j] = x
    OBVIOUS
  <2>1. r = Append(a, x)
    BY <1>0, <1>2 DEF KeepLong
  <2>2. Len(a) + 1 \in 1 .. Len(r) /\ r[Len(a) + 1] = x
    BY <1>1, <1>2, <2>1
  <2> QED
    BY <2>2
<1>5. ASSUME NEW k \in 1 .. m + 1, sp[k].end - sp[k].start >= M
      PROVE  \E j \in 1 .. Len(r) : r[j] = sp[k]
  <2>1. CASE k = m + 1
    BY <1>0, <1>4, <1>5, <2>1
  <2>2. CASE k # m + 1
    <3>1. k \in 1 .. m
      BY <1>1, <2>2
    <3>2. PICK j \in 1 .. Len(a) : a[j] = sp[k]
      BY <1>5, <3>1 DEF Lasting
    <3> QED
      BY <1>3, <3>2
  <2> QED
    BY <2>1, <2>2
<1> QED
  BY <1>0, <1>5 DEF Lasting

(* So that what is covered stays so. *)
LEMMA LongEnoughCovers ==
  ASSUME NEW sp, Apart(sp), NEW p, NEW M \in Int, M = Ms(p.min_speech), NEW w, Covered(sp, w, M)
  PROVE  Covered(LongEnough(sp, p), w, M)
<1>1. sp \in Seq(Speech) /\ Len(sp) \in Nat
  BY DEF Apart
<1>2. PICK f : /\ f[0] = <<>> /\ LongEnough(sp, p) = f[Len(sp)]
               /\ \A m \in 0 .. Len(sp) - 1 : f[m + 1] = KeepLong(f[m], sp[m + 1], p)
  BY <1>1, KeptSteps
<1> DEFINE Good == {m \in 0 .. Len(sp) : KeptTo(sp, m, f[m]) /\ Lasting(sp, m, f[m], M)}
<1>3. 0 \in Good
  <2>1. KeptTo(sp, 0, <<>>) /\ Lasting(sp, 0, <<>>, M)
    BY ApartEmpty DEF KeptTo, Lasting
  <2> QED
    BY <1>1, <1>2, <2>1
<1>4. ASSUME NEW m \in 0 .. Len(sp) - 1, m \in Good PROVE m + 1 \in Good
  <2>1. KeptTo(sp, m, f[m]) /\ Lasting(sp, m, f[m], M)
    BY <1>4
  <2>2. f[m + 1] = KeepLong(f[m], sp[m + 1], p)
    BY <1>2
  <2>3. KeptTo(sp, m + 1, f[m + 1])
    BY <2>1, <2>2, KeepOne
  <2>4. Lasting(sp, m + 1, f[m + 1], M)
    BY <2>1, <2>2, KeepsLasting
  <2> QED
    BY <1>1, <2>3, <2>4
<1>5. Len(sp) \in Good
  <2> HIDE DEF Good
  <2>1. \A m \in 0 .. Len(sp) : m \in Good
    BY <1>1, <1>3, <1>4, UpTo
  <2> QED
    BY <1>1, <2>1
<1>6. PICK a : a = LongEnough(sp, p)
  OBVIOUS
<1>7. Lasting(sp, Len(sp), a, M)
  BY <1>2, <1>5, <1>6
<1>8. PICK k \in 1 .. Len(sp) : Within(sp[k], w) /\ sp[k].end - sp[k].start >= M
  BY DEF Covered
<1>9. PICK j \in 1 .. Len(a) : a[j] = sp[k]
  BY <1>7, <1>8 DEF Lasting
<1> QED
  BY <1>6, <1>8, <1>9 DEF Covered

(* A time in centiseconds is that in samples, but for less than one. *)
LEMMA RoundTrip ==
  ASSUME NEW x \in Nat
  PROVE  /\ CsToSamples(SamplesToCs(x)) \in Int
         /\ CsToSamples(SamplesToCs(x)) <= x + Cs /\ x <= CsToSamples(SamplesToCs(x)) + Cs
BY DEF SamplesToCs, CsToSamples, Cs

(* The padding takes nothing away. *)
KeptIn(segs, w) ==
  \E k \in DOMAIN segs : /\ CsToSamples(segs[k].start) <= w * n_window + Cs
                         /\ (w + 1) * n_window <= CsToSamples(segs[k].end) + Cs

LEMMA PaddedKeeps ==
  ASSUME NEW sp, Apart(sp), NEW length \in Nat, EndsBy(sp, length),
         NEW p, p.speech_pad \in Nat, NEW M, NEW w \in Nat, Covered(sp, w, M)
  PROVE  KeptIn(Padded(sp, length, p), w)
<1>1. sp \in Seq(Speech) /\ DOMAIN sp = 1 .. Len(sp)
  BY DEF Apart
<1>2. PICK k \in 1 .. Len(sp) : Within(sp[k], w)
  BY DEF Covered
<1>3. PICK r, a, b, c, e, g, h :
        /\ r = Padded(sp, length, p) /\ a = PadStart(sp, k, p) /\ b = PadEnd(sp, k, length, p)
        /\ c = sp[k].start /\ e = sp[k].end /\ g = w * n_window /\ h = (w + 1) * n_window
  OBVIOUS
<1>4. sp[k] \in Speech
  BY <1>1
<1>5. /\ a \in Nat /\ a <= c /\ b \in Nat /\ e <= b /\ c \in Nat /\ e \in Nat
      /\ g \in Int /\ h \in Int /\ c <= g /\ h <= e
  <2>1. a \in Nat /\ a <= c
    BY <1>3, PadStartOK
  <2>2. b \in Nat /\ e <= b
    BY <1>3, PadEndOK
  <2>3. c \in Nat /\ e \in Nat
    BY <1>3, <1>4 DEF Speech
  <2>4. g \in Int /\ h \in Int
    BY <1>3, WindowAssumption
  <2>5. c <= g /\ h <= e
    BY <1>2, <1>3 DEF Within
  <2> QED
    BY <2>1, <2>2, <2>3, <2>4, <2>5
<1>6. PICK y, z : y = CsToSamples(SamplesToCs(a)) /\ z = CsToSamples(SamplesToCs(b))
  OBVIOUS
<1>7. y \in Int /\ z \in Int /\ y <= a + Cs /\ b <= z + Cs /\ Cs \in Nat
  BY <1>5, <1>6, RoundTrip DEF Cs
<1>8. y <= g + Cs /\ h <= z + Cs
  BY ONLY <1>5, <1>7
<1>9. /\ k \in DOMAIN r /\ r[k].start = SamplesToCs(a) /\ r[k].end = SamplesToCs(b)
  BY <1>1, <1>3 DEF Padded
<1> QED
  BY <1>3, <1>6, <1>8, <1>9 DEF KeptIn

(* What the segments keep. *)
LEMMA SegmentsKeep ==
  ASSUME NEW s, NEW t \in Nat, NEW H, NEW C, NEW M \in Nat, NEW p,
         M = Ms(p.min_speech), p.speech_pad \in Nat,
         ScanOK(s, t * n_window), Told(s, t, H, C, M)
  PROVE  \A w \in H : \/ KeptIn(Segments(s, t * n_window, p), w)
                      \/ AfterCut(w, C, M) \/ Short(w, t + 1, H, M)
<1> SUFFICES ASSUME NEW w \in H
    PROVE  \/ KeptIn(Segments(s, t * n_window, p), w)
           \/ AfterCut(w, C, M) \/ Short(w, t + 1, H, M)
  OBVIOUS
<1>1. PICK length, a, m, l : /\ length = t * n_window /\ a = WithTail(s, length, p)
                             /\ m = Merged(a) /\ l = LongEnough(m, p)
  OBVIOUS
<1>2. length \in Nat /\ s \in ScanType /\ w \in Nat /\ M \in Int
  <2>1. H \subseteq 0 .. t - 1
    BY DEF Told
  <2> QED
    BY <1>1, <2>1, WindowAssumption DEF ScanOK
<1>3. Fate(a, w, t + 1, H, C, M)
  BY <1>1, <1>2, ToldTail
<1>4. CASE Covered(a, w, M)
  <2>1. Apart(a) /\ EndsBy(a, length)
    BY <1>1, <1>2, TailOK
  <2>2. Apart(m) /\ EndsBy(m, length)
    BY <1>1, <1>2, <2>1, MergedOK
  <2>3. Apart(l) /\ EndsBy(l, length)
    BY <1>1, <1>2, <2>2, LongEnoughOK
  <2>4. Covered(m, w, M)
    BY <1>1, <1>2, <1>4, <2>1, MergedCovers
  <2>5. Covered(l, w, M)
    BY <1>1, <1>2, <2>2, <2>4, LongEnoughCovers
  <2>6. KeptIn(Padded(l, length, p), w)
    BY <1>2, <2>3, <2>5, PaddedKeeps
  <2>7. Segments(s, length, p) = Padded(l, length, p)
    BY <1>1 DEF Segments
  <2> QED
    BY <1>1, <2>6, <2>7
<1> QED
  BY <1>3, <1>4 DEF Fate

-----------------------------------------------------------------------------
(* Speech that lasts longer than M is not short. *)
LEMMA LongIsNotShort ==
  ASSUME NEW H, NEW t \in Nat, NEW M \in Int, NEW a \in Nat, NEW b \in Nat, a .. b \subseteq H,
         (b - a + 1) * n_window > M, NEW w \in a .. b
  PROVE  ~Short(w, t, H, M)
<1> SUFFICES ASSUME Short(w, t, H, M) PROVE FALSE
  OBVIOUS
<1>1. PICK x \in 0 .. w, y \in w + 1 .. t - 1 :
        x - 1 \notin H /\ y \notin H /\ (y - x) * n_window <= M
  BY DEF Short
<1>2. x \in Int /\ y \in Int /\ w \in Int /\ x <= w /\ w < y /\ a <= w /\ w <= b
  BY <1>1
<1>3. x <= a
  <2> SUFFICES ASSUME a < x PROVE FALSE
    BY <1>2
  <2>1. x - 1 \in a .. b
    BY <1>2
  <2> QED
    BY <1>1, <2>1
<1>4. b < y
  <2> SUFFICES ASSUME y <= b PROVE FALSE
    BY <1>2
  <2>1. y \in a .. b
    BY <1>2
  <2> QED
    BY <1>1, <2>1
<1>5. b - a + 1 \in Int /\ y - x \in Int /\ b - a + 1 <= y - x
  BY <1>2, <1>3, <1>4
<1>6. /\ (b - a + 1) * n_window <= (y - x) * n_window
      /\ (b - a + 1) * n_window \in Int /\ (y - x) * n_window \in Int
  BY <1>5, Windows
<1> QED
  BY <1>1, <1>6

(* The least duration of speech is not more than the longest. *)
LimitsAgree == \A p \in CallParams : p.vad => Ms(p.min_speech) <= MaxSpeech(p)

Limits(p) == /\ p.speech_pad \in Nat /\ Ms(p.min_speech) \in Nat
             /\ MaxSpeech(p) \in Int /\ Ms(p.min_speech) <= MaxSpeech(p)

LEMMA LimitsOf ==
  ASSUME LimitsAgree, NEW p \in CallParams, p.vad
  PROVE  Limits(p)
<1>1. p.speech_pad \in Nat /\ p.min_speech \in Nat /\ p.max_speech_s \in Int
  BY CallAssumption, Zenon
<1>2. Ms(p.min_speech) <= MaxSpeech(p)
  BY Zenon DEF LimitsAgree
<1>3. PICK pad, min, max : pad = p.speech_pad /\ min = p.min_speech /\ max = p.max_speech_s
  OBVIOUS
<1>4. pad \in Nat /\ min \in Nat /\ max \in Int
  BY <1>1, <1>3
<1>5. Ms(p.min_speech) \in Nat
  BY <1>3, <1>4 DEF Ms
<1>6. PICK limit : limit = Ms(1000 * max) - n_window - 2 * Ms(pad)
  OBVIOUS
<1>7. limit \in Int /\ NoLimit \in Int
  BY <1>4, <1>6, WindowAssumption DEF Ms, NoLimit
<1>8. MaxSpeech(p) = IF limit < 0 THEN NoLimit ELSE limit
  BY <1>3, <1>6 DEF MaxSpeech
<1>9. MaxSpeech(p) \in Int
  BY <1>7, <1>8
<1> QED
  BY <1>1, <1>2, <1>5, <1>9 DEF Limits

(* What holds between the steps: the scan has told of every window with     *)
(* speech, and once it has ended no speech is lost.                         *)
SpeechTold ==
  /\ params \in CallParams /\ i \in Nat
  /\ stage = "scan" =>
       /\ params.vad /\ ScanOK(scan, i * n_window)
       /\ Told(scan, i, heard, cuts, Ms(params.min_speech))
  /\ SpeechKept

LEMMA InitTold == Init => SpeechTold
<1> SUFFICES ASSUME Init PROVE SpeechTold
  OBVIOUS
<1>1. params \in CallParams /\ i \in Nat /\ (stage = "scan" => params.vad)
      /\ ScanOK(scan, i * n_window)
  <2>1. SpeechApart /\ (stage = "scan" \/ stage # "scan")
    BY InitApart
  <2>2. scan = NoScan /\ i = 0 /\ params \in CallParams
    BY DEF Init
  <2>3. ScanOK(NoScan, 0)
    <3>1. <<>> \in Seq(Speech)
      OBVIOUS
    <3>2. PICK s : s = NoScan
      OBVIOUS
    <3>3. /\ s \in ScanType /\ s.speeches = <<>> /\ s.in_speech = FALSE
          /\ s.temp_end = 0 /\ s.prev_end = 0 /\ s.next_start = 0
      BY <3>1, <3>2 DEF NoScan, ScanType
    <3>4. ScanOK(s, 0)
      BY <3>3, ApartEmpty DEF ScanOK
    <3> QED
      BY <3>2, <3>4
  <2>4. 0 * n_window = 0
    BY WindowAssumption
  <2> QED
    BY <2>1, <2>2, <2>3, <2>4 DEF SpeechApart
<1>2. \A M : Told(scan, i, heard, cuts, M)
  <2>1. scan = NoScan /\ i = 0 /\ heard = {} /\ cuts = {}
    BY DEF Init
  <2>2. ~scan.in_speech /\ scan.temp_end = 0 /\ scan.prev_end = 0 /\ scan.next_start = 0
    BY <2>1 DEF NoScan
  <2> QED
    BY <2>1, <2>2 DEF Told
<1>3. SpeechKept
  BY DEF Init, SpeechKept
<1> QED
  BY <1>1, <1>2, <1>3 DEF SpeechTold

LEMMA NextTold ==
  ASSUME LimitsAgree
  PROVE  SpeechTold /\ [Next]_vars => SpeechTold'
<1> SUFFICES ASSUME SpeechTold, [Next]_vars PROVE SpeechTold'
  OBVIOUS
<1>0. params \in CallParams /\ i \in Nat /\ n_window \in Nat /\ i * n_window \in Nat
  BY WindowAssumption DEF SpeechTold
<1>1. ASSUME UNCHANGED <<params, i, heard, cuts, segments>>, stage' # "scan",
             stage # "scan"
      PROVE  SpeechTold'
  <2>1. SpeechKept
    BY DEF SpeechTold
  <2>2. SpeechKept'
    BY <1>1, <2>1 DEF SpeechKept, Kept, Starts, Ends
  <2> QED
    BY <1>0, <1>1, <2>2 DEF SpeechTold
<1>2. CASE ScanWindow
  <2>1. PICK level \in Levels :
          /\ scan' = Window(scan, level, i * n_window, params)
          /\ heard' = IF level = "speech" THEN heard \cup {i} ELSE heard
          /\ cuts' = IF scan.in_speech /\ Len(scan'.speeches) > Len(scan.speeches)
                        /\ TooLong(scan, i * n_window, params)
                     THEN cuts \cup {i} ELSE cuts
    BY <1>2 DEF ScanWindow
  <2>2. stage = "scan" /\ stage' = stage /\ i' = i + 1 /\ params' = params
    BY <1>2 DEF ScanWindow
  <2>3. /\ params.vad /\ ScanOK(scan, i * n_window)
        /\ Told(scan, i, heard, cuts, Ms(params.min_speech))
    BY <2>2 DEF SpeechTold
  <2>4. Limits(params)
    BY <1>0, <2>3, LimitsOf
  <2>5. ScanOK(scan', i' * n_window)
    <3>1. ScanOK(scan', i * n_window + n_window)
      BY <1>0, <2>1, <2>3, WindowOK
    <3>2. i * n_window + n_window = (i + 1) * n_window
      BY <1>0
    <3> QED
      BY <2>2, <3>1, <3>2
  <2>6. Told(scan', i', heard', cuts', Ms(params'.min_speech))
    <3>0. level \in Levels
      OBVIOUS
    <3>1. PICK p, s, C, D, M : /\ p = params /\ s = scan /\ C = cuts /\ D = cuts'
                               /\ M = Ms(params.min_speech)
      OBVIOUS
    <3>2. /\ M \in Nat /\ M = Ms(p.min_speech) /\ MaxSpeech(p) \in Int /\ M <= MaxSpeech(p)
          /\ ScanOK(s, i * n_window) /\ Told(s, i, heard, C, M)
      BY <2>3, <2>4, <3>1 DEF Limits
    <3>3. /\ C \subseteq D
          /\ (s.in_speech /\ TooLong(s, i * n_window, p)
               /\ Len(Window(s, level, i * n_window, p).speeches) > Len(s.speeches)) => i \in D
      BY <2>1, <3>1
    <3>4. Told(Window(s, level, i * n_window, p), i + 1,
               IF level = "speech" THEN heard \cup {i} ELSE heard, D, M)
      BY ONLY <1>0, <3>0, <3>2, <3>3, ToldWindow
    <3> QED
      BY <2>1, <2>2, <3>1, <3>4
  <2>7. i' \in Nat /\ params' \in CallParams /\ params'.vad
    BY <1>0, <2>2, <2>3
  <2>8. SpeechKept'
    BY <2>2 DEF SpeechKept
  <2> QED
    BY <2>5, <2>6, <2>7, <2>8 DEF SpeechTold
<1>3. CASE EndOfScan
  <2>1. /\ stage = "scan" /\ segments' = Segments(scan, i * n_window, params)
        /\ stage' # "scan" /\ params' = params /\ i' = i /\ heard' = heard /\ cuts' = cuts
    BY <1>3 DEF EndOfScan
  <2>2. PICK M : M = Ms(params.min_speech)
    OBVIOUS
  <2>3. params.vad /\ ScanOK(scan, i * n_window) /\ Told(scan, i, heard, cuts, M)
    BY <2>1, <2>2 DEF SpeechTold
  <2>4. Limits(params)
    BY <1>0, <2>3, LimitsOf
  <2>5. M \in Nat /\ params.speech_pad \in Nat /\ heard \subseteq 0 .. i - 1
    BY <2>2, <2>3, <2>4 DEF Limits, Told
  <2>6. \A w \in heard : \/ KeptIn(segments', w) \/ AfterCut(w, cuts, M)
                         \/ Short(w, i + 1, heard, M)
    BY <1>0, <2>1, <2>2, <2>3, <2>5, SegmentsKeep
  <2>7. ASSUME NEW a \in heard, NEW b \in heard, a .. b \subseteq heard,
               (b - a + 1) * n_window > M, NEW w \in a .. b
        PROVE  KeptIn(segments', w) \/ AfterCut(w, cuts, M)
    <3>1. a \in Nat /\ b \in Nat /\ i + 1 \in Nat /\ M \in Int /\ w \in heard
      BY <1>0, <2>5, <2>7
    <3>2. ~Short(w, i + 1, heard, M)
      BY <2>7, <3>1, LongIsNotShort
    <3> QED
      BY <2>6, <3>1, <3>2
  <2>8. SpeechKept'
    <3>1. ASSUME NEW w, KeptIn(segments', w) PROVE Kept(w)'
      BY <3>1 DEF KeptIn, Kept, Starts, Ends
    <3>2. ASSUME NEW w, AfterCut(w, cuts, M)
          PROVE  \E c \in cuts' : c <= w /\ (w - c) * n_window <= Ms(params'.min_speech)
      BY <2>1, <2>2, <3>2 DEF AfterCut
    <3>3. heard' = heard /\ M = Ms(params'.min_speech)
      BY <2>1, <2>2
    <3> QED
      BY <2>7, <3>1, <3>2, <3>3 DEF SpeechKept
  <2> QED
    BY <1>0, <2>1, <2>8 DEF SpeechTold
<1>4. CASE VadFails
  <2>1. /\ stage = "scan" /\ i = 0 /\ stage' = "done" /\ params' = params /\ i' = i
        /\ heard' = heard
    BY <1>4 DEF VadFails, scanVars
  <2>2. heard \subseteq 0 .. i - 1
    BY <2>1 DEF SpeechTold, Told
  <2>3. heard' = {}
    BY <2>1, <2>2
  <2> QED
    BY <1>0, <2>1, <2>3 DEF SpeechTold, SpeechKept
<1>5. ASSUME NEW c \in Chunks, ChunkEnds(c) PROVE SpeechTold'
  BY <1>1, <1>5 DEF ChunkEnds, scanVars
<1>6. CASE Combine
  BY <1>1, <1>6 DEF Combine, scanVars
<1>7. CASE UNCHANGED vars
  <2>1. UNCHANGED <<params, stage, i, scan, heard, cuts, segments>>
    BY <1>7 DEF vars, scanVars
  <2> QED
    BY <2>1 DEF SpeechTold, SpeechKept, Kept, Starts, Ends
<1> QED
  BY <1>2, <1>3, <1>4, <1>5, <1>6, <1>7 DEF Next, Done

(* Speech that lasts longer than min_speech_duration_ms is kept, all of it  *)
(* but what follows a split of too long speech and is itself too short      *)
(* (whisper_vad_segments_from_probs), for every sequence of probabilities   *)
(* and every vad_params whose least duration of speech is not more than the *)
(* longest: otherwise a piece cut at the longest duration is dropped for    *)
(* being too short.                                                         *)
THEOREM NoSpeechLost == LimitsAgree => (Spec => []SpeechKept)
<1> SUFFICES ASSUME LimitsAgree PROVE Spec => []SpeechKept
  OBVIOUS
<1>1. Init => SpeechTold
  BY InitTold
<1>2. SpeechTold /\ [Next]_vars => SpeechTold'
  BY NextTold
<1>3. SpeechTold => SpeechKept
  BY DEF SpeechTold
<1> QED
  BY <1>1, <1>2, <1>3, PTL DEF Spec

-----------------------------------------------------------------------------
(* Division, and products. *)
LEMMA Division ==
  ASSUME NEW z \in Int, NEW b \in Nat \ {0}, NEW q, q = z \div b
  PROVE  q \in Int /\ b * q <= z /\ z < b * q + b
OBVIOUS

LEMMA Products ==
  ASSUME NEW a \in Int, NEW b \in Int, NEW c \in Int, a <= b, c >= 0
  PROVE  /\ a * c \in Int /\ b * c \in Int /\ a * c <= b * c
         /\ c * a \in Int /\ c * b \in Int /\ c * a <= c * b
<1>1. (b - a) * c >= 0
  OBVIOUS
<1>2. (b - a) * c = b * c - a * c /\ c * a = a * c /\ c * b = b * c
  OBVIOUS
<1>3. a * c \in Int /\ b * c \in Int
  OBVIOUS
<1> QED
  BY <1>1, <1>2, <1>3

(* What is at most a quotient, and at least. *)
LEMMA Quotient ==
  ASSUME NEW z \in Int, NEW b \in Nat \ {0}, NEW m \in Int
  PROVE  /\ b * m <= z => m <= z \div b
         /\ z <= b * m => z \div b <= m
         /\ z \div b \in Int
<1>1. PICK q : q = z \div b
  OBVIOUS
<1>2. q \in Int /\ b * q <= z /\ z < b * q + b
  BY <1>1, Division
<1>3. ASSUME b * m <= z, q < m PROVE FALSE
  <2>1. q + 1 \in Int /\ q + 1 <= m /\ b \in Int /\ b >= 0
    BY <1>2, <1>3
  <2>2. b * (q + 1) <= b * m /\ b * m \in Int
    BY <2>1, Products
  <2>3. b * (q + 1) = b * q + b /\ b * q \in Int
    BY <1>2
  <2> QED
    BY <1>2, <1>3, <2>2, <2>3
<1>4. ASSUME z <= b * m, m < q PROVE FALSE
  <2>1. m + 1 \in Int /\ m + 1 <= q /\ b \in Int /\ b >= 0
    BY <1>2, <1>4
  <2>2. b * (m + 1) <= b * q /\ b * q \in Int
    BY <1>2, <2>1, Products
  <2>3. b * (m + 1) = b * m + b /\ b * m \in Int
    OBVIOUS
  <2> QED
    BY <1>2, <1>4, <2>2, <2>3
<1> QED
  BY <1>1, <1>2, <1>3, <1>4

(* The line of a segment: from the b centiseconds it takes in the audio     *)
(* that is transcribed to the a it takes in the original.                   *)
Line(x, a, b) == (x * a) \div b

LEMMA LineIs ==
  ASSUME NEW a \in Nat, NEW b \in Nat \ {0}
  PROVE  /\ Line(0, a, b) = 0 /\ Line(b, a, b) = a
         /\ \A x \in 0 .. b : Line(x, a, b) \in 0 .. a
         /\ \A x \in 0 .. b : \A y \in 0 .. b : x <= y => Line(x, a, b) <= Line(y, a, b)
<1>1. ASSUME NEW x \in 0 .. b, NEW y \in 0 .. b, x <= y PROVE Line(x, a, b) <= Line(y, a, b)
  <2>1. PICK u, v, q : u = x * a /\ v = y * a /\ q = u \div b
    OBVIOUS
  <2>2. u \in Int /\ v \in Int /\ u <= v
    <3>1. x \in Int /\ y \in Int /\ a \in Int /\ a >= 0
      OBVIOUS
    <3> QED
      BY <1>1, <2>1, <3>1, Products
  <2>3. q \in Int /\ b * q <= u
    BY <2>1, <2>2, Division
  <2>4. b * q <= v
    <3>1. b * q \in Int
      BY <2>3
    <3> QED
      BY <2>2, <2>3, <3>1
  <2>5. q <= v \div b
    BY <2>2, <2>3, <2>4, Quotient
  <2> QED
    BY <2>1, <2>5 DEF Line
<1>2. Line(0, a, b) = 0
  <2>1. 0 * a = 0 /\ b * 0 = 0
    OBVIOUS
  <2>2. 0 <= 0 \div b /\ 0 \div b <= 0 /\ 0 \div b \in Int
    BY <2>1, Quotient
  <2> QED
    BY <2>1, <2>2 DEF Line
<1>3. Line(b, a, b) = a
  <2>1. b * a \in Int /\ a \in Int
    OBVIOUS
  <2>2. a <= (b * a) \div b /\ (b * a) \div b <= a /\ (b * a) \div b \in Int
    BY <2>1, Quotient
  <2> QED
    BY <2>1, <2>2 DEF Line
<1>4. ASSUME NEW x \in 0 .. b PROVE Line(x, a, b) \in 0 .. a
  <2>1. 0 \in 0 .. b /\ b \in 0 .. b /\ 0 <= x /\ x <= b
    OBVIOUS
  <2>2. Line(0, a, b) <= Line(x, a, b) /\ Line(x, a, b) <= Line(b, a, b)
    BY <1>1, <2>1
  <2>3. x * a \in Int
    OBVIOUS
  <2>4. Line(x, a, b) \in Int
    BY <2>3, Quotient DEF Line
  <2> QED
    BY <1>2, <1>3, <2>2, <2>4
<1> QED
  BY <1>1, <1>2, <1>3, <1>4

(* It strays from the diagonal by no more than the difference of the two.   *)
LEMMA LineNear ==
  ASSUME NEW a \in Nat, NEW b \in Nat \ {0}, NEW g \in Nat, NEW d \in Nat,
         b - a <= g, a - b <= d, NEW x \in 0 .. b
  PROVE  x - g <= Line(x, a, b) /\ Line(x, a, b) <= x + d
<1>1. /\ x \in Int /\ x >= 0 /\ b - x \in Int /\ b - x >= 0 /\ x * a \in Int
      /\ x - g \in Int /\ x + d \in Int
  OBVIOUS
<1>2. b * (x - g) <= x * a
  <2>1. b * (x - g) = x * b - b * g /\ x * (b - g) = x * b - x * g
    BY <1>1
  <2>2. x * (b - g) <= x * a
    <3>1. b - g \in Int /\ b - g <= a
      OBVIOUS
    <3> QED
      BY <1>1, <3>1, Products
  <2>3. x * g <= b * g
    <3>1. x <= b /\ g \in Int /\ g >= 0 /\ b \in Int
      OBVIOUS
    <3> QED
      BY <1>1, <3>1, Products
  <2>4. x * b \in Int /\ b * g \in Int /\ x * g \in Int
    BY <1>1
  <2> QED
    BY <1>1, <2>1, <2>2, <2>3, <2>4
<1>3. x * a <= b * (x + d)
  <2>1. b * (x + d) = x * b + b * d /\ x * (b + d) = x * b + x * d
    BY <1>1
  <2>2. x * a <= x * (b + d)
    <3>1. b + d \in Int /\ a <= b + d /\ a \in Int
      OBVIOUS
    <3> QED
      BY <1>1, <3>1, Products
  <2>3. x * d <= b * d
    <3>1. x <= b /\ d \in Int /\ d >= 0 /\ b \in Int
      OBVIOUS
    <3> QED
      BY <1>1, <3>1, Products
  <2>4. x * b \in Int /\ b * d \in Int /\ x * d \in Int
    BY <1>1
  <2> QED
    BY <1>1, <2>1, <2>2, <2>3, <2>4
<1> QED
  BY <1>1, <1>2, <1>3, Quotient DEF Line

(* So does a point between two that do not stray further. *)
LEMMA BetweenNear ==
  ASSUME NEW x \in Int, NEW z \in Int, NEW w \in Int, x < w, w <= z,
         NEW y \in Int, NEW u \in Int, NEW g \in Nat, NEW d \in Nat,
         x - g <= y, y <= x + d, z - g <= u, u <= z + d
  PROVE  /\ w - g <= y + ((w - x) * (u - y)) \div (z - x)
         /\ y + ((w - x) * (u - y)) \div (z - x) <= w + d
<1>1. PICK p, r, h : p = w - x /\ r = z - x /\ h = u - y
  OBVIOUS
<1>2. p \in Int /\ r \in Nat \ {0} /\ h \in Int /\ p > 0 /\ p <= r
  BY <1>1
<1>3. p * h \in Int /\ p * r \in Int /\ r * p = p * r
  BY <1>2
<1>4. r * (w - g - y) <= p * h
  <2>1. PICK e : e = y - (x - g)
    OBVIOUS
  <2>2. e \in Int /\ e >= 0 /\ w - g - y = p - e /\ r - e <= h /\ r - e \in Int
    BY <1>1, <2>1
  <2>3. p * (r - e) <= p * h
    BY <1>2, <2>2, Products
  <2>4. p * e <= r * e /\ p * e \in Int /\ r * e \in Int
    BY <1>2, <2>2, Products
  <2>5. p * (r - e) = p * r - p * e /\ r * (p - e) = p * r - r * e
    BY <1>2, <2>2
  <2>6. r * (p - e) <= p * h
    BY <1>3, <2>3, <2>4, <2>5
  <2> QED
    BY <2>2, <2>6
<1>5. p * h <= r * (w + d - y)
  <2>1. PICK e : e = x + d - y
    OBVIOUS
  <2>2. e \in Int /\ e >= 0 /\ w + d - y = p + e /\ h <= r + e /\ r + e \in Int
    BY <1>1, <2>1
  <2>3. p * h <= p * (r + e)
    BY <1>2, <2>2, Products
  <2>4. p * e <= r * e /\ p * e \in Int /\ r * e \in Int
    BY <1>2, <2>2, Products
  <2>5. p * (r + e) = p * r + p * e /\ r * (p + e) = p * r + r * e
    BY <1>2, <2>2
  <2>6. p * h <= r * (p + e)
    BY <1>3, <2>3, <2>4, <2>5
  <2> QED
    BY <2>2, <2>6
<1>6. PICK q : q = (p * h) \div r
  OBVIOUS
<1>7. w - g - y <= q /\ q <= w + d - y /\ q \in Int
  <2>1. w - g - y \in Int /\ w + d - y \in Int
    OBVIOUS
  <2> QED
    BY <1>2, <1>3, <1>4, <1>5, <1>6, <2>1, Quotient
<1> QED
  BY <1>1, <1>6, <1>7

-----------------------------------------------------------------------------
(* The lines of the segments, one after the other in both times. *)
Lines == [v0 : Int, v1 : Int, s : Int, e : Int]

Laid(r, g, d) ==
  /\ r.v0 < r.v1 /\ r.s <= r.e
  /\ (r.v1 - r.v0) - (r.e - r.s) <= g /\ (r.e - r.s) - (r.v1 - r.v0) <= d

LaidOut(L, n, g, d) ==
  /\ L \in [1 .. n -> Lines]
  /\ \A k \in 1 .. n : Laid(L[k], g, d)
  /\ \A k \in 1 .. n : \A l \in 1 .. n : k < l => L[k].v1 < L[l].v0 /\ L[k].e <= L[l].s

OnLine(a, r) ==
  a[1] \in r.v0 .. r.v1 /\ a[2] = r.s + Line(a[1] - r.v0, r.e - r.s, r.v1 - r.v0)

(* Every point lies on a line, and every line has its ends.                 *)
Drawn(T, L, n) ==
  /\ \A a \in T : a = <<a[1], a[2]>> /\ \E k \in 1 .. n : OnLine(a, L[k])
  /\ \A k \in 1 .. n : <<L[k].v0, L[k].s>> \in T /\ <<L[k].v1, L[k].e>> \in T

LEMMA OnLineIs ==
  ASSUME NEW r \in Lines, NEW g \in Nat, NEW d \in Nat, Laid(r, g, d), NEW a, OnLine(a, r)
  PROVE  /\ a[1] \in Int /\ a[2] \in Int /\ r.v0 <= a[1] /\ a[1] <= r.v1
         /\ r.s <= a[2] /\ a[2] <= r.e
         /\ (a[1] - r.v0) - g <= a[2] - r.s /\ a[2] - r.s <= (a[1] - r.v0) + d
         /\ a[1] = r.v0 => a[2] = r.s
         /\ a[1] = r.v1 => a[2] = r.e
<1>1. PICK x, u, b : x = a[1] - r.v0 /\ u = r.e - r.s /\ b = r.v1 - r.v0
  OBVIOUS
<1>2. /\ a[1] \in Int /\ r.v0 <= a[1] /\ a[1] <= r.v1 /\ r.v0 \in Int /\ r.v1 \in Int
      /\ r.s \in Int /\ r.e \in Int /\ r.s <= r.e /\ r.v0 < r.v1
      /\ a[2] = r.s + Line(x, u, b) /\ b - u <= g /\ u - b <= d
  BY <1>1 DEF OnLine, Lines, Laid
<1>3. x \in 0 .. b /\ u \in Nat /\ b \in Nat \ {0}
  BY <1>1, <1>2
<1>4. /\ Line(x, u, b) \in 0 .. u /\ Line(0, u, b) = 0 /\ Line(b, u, b) = u
  BY <1>3, LineIs
<1>5. x - g <= Line(x, u, b) /\ Line(x, u, b) <= x + d
  BY <1>2, <1>3, LineNear
<1>6. PICK y : y = Line(x, u, b)
  OBVIOUS
<1>7. /\ y \in Int /\ 0 <= y /\ y <= u /\ x - g <= y /\ y <= x + d
      /\ x = 0 => y = 0
      /\ x = b => y = u
  BY <1>3, <1>4, <1>5, <1>6
<1>8. a[2] = r.s + y
  BY <1>2, <1>6
<1> QED
  BY <1>1, <1>2, <1>3, <1>7, <1>8

LEMMA OnLineOrder ==
  ASSUME NEW r \in Lines, NEW g \in Nat, NEW d \in Nat, Laid(r, g, d),
         NEW a, OnLine(a, r), NEW b, OnLine(b, r)
  PROVE  /\ a[1] <= b[1] => a[2] <= b[2]
         /\ a[1] = b[1] => a[2] = b[2]
<1>1. PICK x, y, u, h : x = a[1] - r.v0 /\ y = b[1] - r.v0 /\ u = r.e - r.s /\ h = r.v1 - r.v0
  OBVIOUS
<1>2. /\ a[1] \in Int /\ r.v0 <= a[1] /\ a[1] <= r.v1 /\ r.v0 \in Int /\ r.v1 \in Int
      /\ b[1] \in Int /\ r.v0 <= b[1] /\ b[1] <= r.v1
      /\ r.s \in Int /\ r.e \in Int /\ r.s <= r.e /\ r.v0 < r.v1
      /\ a[2] = r.s + Line(x, u, h) /\ b[2] = r.s + Line(y, u, h)
  BY <1>1 DEF OnLine, Lines, Laid
<1>3. x \in 0 .. h /\ y \in 0 .. h /\ u \in Nat /\ h \in Nat \ {0}
  BY <1>1, <1>2
<1>4. /\ Line(x, u, h) \in 0 .. u /\ Line(y, u, h) \in 0 .. u
      /\ x <= y => Line(x, u, h) <= Line(y, u, h)
  BY <1>3, LineIs
<1>5. ASSUME a[1] <= b[1] PROVE a[2] <= b[2]
  BY <1>1, <1>2, <1>4, <1>5
<1>6. ASSUME a[1] = b[1] PROVE a[2] = b[2]
  BY <1>1, <1>2, <1>6
<1> QED
  BY <1>5, <1>6

LEMMA DrawnOrder ==
  ASSUME NEW n \in Nat, NEW g \in Nat, NEW d \in Nat, NEW L, LaidOut(L, n, g, d),
         NEW T, Drawn(T, L, n), NEW a \in T, NEW b \in T
  PROVE  /\ a[1] <= b[1] => a[2] <= b[2]
         /\ a[1] = b[1] => a = b
<1>1. PICK k \in 1 .. n, l \in 1 .. n : OnLine(a, L[k]) /\ OnLine(b, L[l])
  BY DEF Drawn
<1>2. L[k] \in Lines /\ L[l] \in Lines /\ Laid(L[k], g, d) /\ Laid(L[l], g, d)
  BY DEF LaidOut
<1>3. /\ a[1] \in Int /\ a[2] \in Int /\ b[1] \in Int /\ b[2] \in Int
      /\ L[k].v0 <= a[1] /\ a[1] <= L[k].v1 /\ L[k].s <= a[2] /\ a[2] <= L[k].e
      /\ L[l].v0 <= b[1] /\ b[1] <= L[l].v1 /\ L[l].s <= b[2] /\ b[2] <= L[l].e
  BY <1>1, <1>2, OnLineIs
<1>4. /\ L[k].v0 \in Int /\ L[k].v1 \in Int /\ L[k].s \in Int /\ L[k].e \in Int
      /\ L[l].v0 \in Int /\ L[l].v1 \in Int /\ L[l].s \in Int /\ L[l].e \in Int
  BY <1>2 DEF Lines
<1>5. a = <<a[1], a[2]>> /\ b = <<b[1], b[2]>>
  BY DEF Drawn
<1>6. CASE k = l
  <2>1. /\ a[1] <= b[1] => a[2] <= b[2]
        /\ a[1] = b[1] => a[2] = b[2]
    BY <1>1, <1>2, <1>6, OnLineOrder
  <2> QED
    BY <1>5, <2>1
<1>7. CASE k < l
  <2>1. L[k].v1 < L[l].v0 /\ L[k].e <= L[l].s
    BY <1>7 DEF LaidOut
  <2> QED
    BY <1>3, <1>4, <2>1
<1>8. CASE l < k
  <2>1. L[l].v1 < L[k].v0
    BY <1>8 DEF LaidOut
  <2> QED
    BY <1>3, <1>4, <2>1
<1> QED
  BY <1>6, <1>7, <1>8

(* A point between the ends of a line is on it. *)
LEMMA OnThisLine ==
  ASSUME NEW n \in Nat, NEW g \in Nat, NEW d \in Nat, NEW L, LaidOut(L, n, g, d),
         NEW T, Drawn(T, L, n), NEW a \in T, NEW k \in 1 .. n,
         L[k].v0 <= a[1], a[1] <= L[k].v1
  PROVE  OnLine(a, L[k])
<1>1. PICK l \in 1 .. n : OnLine(a, L[l])
  BY DEF Drawn
<1>2. L[k] \in Lines /\ L[l] \in Lines /\ Laid(L[l], g, d)
  BY DEF LaidOut
<1>3. a[1] \in Int /\ L[l].v0 <= a[1] /\ a[1] <= L[l].v1
  BY <1>1, <1>2, OnLineIs
<1>4. L[k].v0 \in Int /\ L[k].v1 \in Int /\ L[l].v0 \in Int /\ L[l].v1 \in Int
  BY <1>2 DEF Lines
<1>5. CASE k < l
  <2>1. L[k].v1 < L[l].v0
    BY <1>5 DEF LaidOut
  <2> QED
    BY <1>3, <1>4, <2>1
<1>6. CASE l < k
  <2>1. L[l].v1 < L[k].v0
    BY <1>6 DEF LaidOut
  <2> QED
    BY <1>3, <1>4, <2>1
<1>7. CASE k = l
  BY <1>1, <1>7
<1> QED
  BY <1>5, <1>6, <1>7

(* The first and the latest point of a set. *)
LEMMA Extremes ==
  ASSUME NEW P, P # {}, NEW lo \in Int, NEW hi \in Int,
         \A a \in P : a[1] \in Int /\ lo <= a[1] /\ a[1] <= hi
  PROVE  /\ First(P) \in P /\ \A b \in P : First(P)[1] <= b[1]
         /\ Latest(P) \in P /\ \A b \in P : b[1] <= Latest(P)[1]
<1>1. \E a \in P : \A b \in P : a[1] <= b[1]
  <2> DEFINE S == {a[1] - lo : a \in P}
  <2>1. S \subseteq Nat /\ S # {}
    OBVIOUS
  <2>2. PICK x \in S : \A y \in S : x <= y
    BY <2>1, Smallest
  <2>3. PICK a \in P : x = a[1] - lo
    OBVIOUS
  <2>4. ASSUME NEW b \in P PROVE a[1] <= b[1]
    <3>1. b[1] - lo \in S
      OBVIOUS
    <3>2. x <= b[1] - lo
      BY <2>2, <3>1
    <3>3. a[1] \in Int /\ b[1] \in Int
      OBVIOUS
    <3> QED
      BY <2>3, <3>2, <3>3
  <2> QED
    BY <2>4
<1>2. \E a \in P : \A b \in P : b[1] <= a[1]
  <2> DEFINE S == {hi - a[1] : a \in P}
  <2>1. S \subseteq Nat /\ S # {}
    OBVIOUS
  <2>2. PICK x \in S : \A y \in S : x <= y
    BY <2>1, Smallest
  <2>3. PICK a \in P : x = hi - a[1]
    OBVIOUS
  <2>4. ASSUME NEW b \in P PROVE b[1] <= a[1]
    <3>1. hi - b[1] \in S
      OBVIOUS
    <3>2. x <= hi - b[1]
      BY <2>2, <3>1
    <3>3. a[1] \in Int /\ b[1] \in Int
      OBVIOUS
    <3> QED
      BY <2>3, <3>2, <3>3
  <2> QED
    BY <2>4
<1>3. First(P) \in P /\ \A b \in P : First(P)[1] <= b[1]
  BY <1>1 DEF First
<1>4. Latest(P) \in P /\ \A b \in P : b[1] <= Latest(P)[1]
  BY <1>2 DEF Latest
<1> QED
  BY <1>3, <1>4

-----------------------------------------------------------------------------
(* All points lie between the ends of the first and of the last line.       *)
LEMMA DrawnBounds ==
  ASSUME NEW n \in Nat, n > 0, NEW g \in Nat, NEW d \in Nat, NEW L, LaidOut(L, n, g, d),
         NEW T, Drawn(T, L, n)
  PROVE  /\ L[1].v0 \in Int /\ L[n].v1 \in Int
         /\ \A a \in T : a[1] \in Int /\ L[1].v0 <= a[1] /\ a[1] <= L[n].v1
<1>1. 1 \in 1 .. n /\ n \in 1 .. n
  OBVIOUS
<1>2. L[1] \in Lines /\ L[n] \in Lines /\ Laid(L[1], g, d) /\ Laid(L[n], g, d)
  BY <1>1 DEF LaidOut
<1>3. L[1].v0 \in Int /\ L[n].v1 \in Int /\ L[1].v1 \in Int /\ L[n].v0 \in Int
  BY <1>2 DEF Lines
<1>4. L[1].v0 < L[1].v1 /\ L[n].v0 < L[n].v1
  BY <1>2 DEF Laid
<1>5. ASSUME NEW a \in T PROVE a[1] \in Int /\ L[1].v0 <= a[1] /\ a[1] <= L[n].v1
  <2>1. PICK k \in 1 .. n : OnLine(a, L[k])
    BY DEF Drawn
  <2>2. L[k] \in Lines /\ Laid(L[k], g, d)
    BY DEF LaidOut
  <2>3. a[1] \in Int /\ L[k].v0 <= a[1] /\ a[1] <= L[k].v1
    BY <2>1, <2>2, OnLineIs
  <2>4. L[k].v0 \in Int /\ L[k].v1 \in Int
    BY <2>2 DEF Lines
  <2>5. L[1].v0 <= L[k].v0
    <3>1. CASE k = 1
      BY <2>4, <3>1
    <3>2. CASE 1 < k
      <4>1. L[1].v1 < L[k].v0
        BY <1>1, <3>2 DEF LaidOut
      <4> QED
        BY <1>3, <1>4, <2>4, <4>1
    <3> QED
      BY <3>1, <3>2
  <2>6. L[k].v1 <= L[n].v1
    <3>1. CASE k = n
      BY <2>4, <3>1
    <3>2. CASE k < n
      <4>1. L[k].v1 < L[n].v0
        BY <1>1, <3>2 DEF LaidOut
      <4> QED
        BY <1>3, <1>4, <2>4, <4>1
    <3> QED
      BY <3>1, <3>2
  <2> QED
    BY <1>3, <2>3, <2>4, <2>5, <2>6
<1> QED
  BY <1>3, <1>5

(* A moment of the audio that is transcribed is mapped close to its line.   *)
LEMMA MappedNear ==
  ASSUME NEW n \in Nat, n > 0, NEW g \in Nat, NEW d \in Nat, NEW L, LaidOut(L, n, g, d),
         NEW T, Drawn(T, L, n), NEW k \in 1 .. n, NEW x \in Nat, x <= L[k].v1 - L[k].v0
  PROVE  /\ OriginalTime(T, L[k].v0 + x) \in Int
         /\ L[k].s + x - g <= OriginalTime(T, L[k].v0 + x)
         /\ OriginalTime(T, L[k].v0 + x) <= L[k].s + x + d
<1> DEFINE r == L[k]
<1>1. r \in Lines /\ Laid(r, g, d)
  BY DEF LaidOut
<1>2. PICK v, p, q, s, e : v = r.v0 + x /\ p = r.v0 /\ q = r.v1 /\ s = r.s /\ e = r.e
  OBVIOUS
<1>3. /\ p \in Int /\ q \in Int /\ s \in Int /\ e \in Int /\ p < q /\ s <= e
      /\ (q - p) - (e - s) <= g /\ (e - s) - (q - p) <= d
      /\ v = p + x /\ v \in Int /\ p <= v /\ v <= q
  <2>1. /\ p \in Int /\ q \in Int /\ s \in Int /\ e \in Int
    BY <1>1, <1>2 DEF Lines
  <2>2. p < q /\ s <= e /\ (q - p) - (e - s) <= g /\ (e - s) - (q - p) <= d
    BY <1>1, <1>2 DEF Laid
  <2>3. v = p + x /\ x <= q - p
    BY <1>2
  <2> QED
    BY <2>1, <2>2, <2>3
<1>4. <<p, s>> \in T /\ <<q, e>> \in T
  <2>1. <<r.v0, r.s>> \in T /\ <<r.v1, r.e>> \in T
    BY DEF Drawn
  <2> QED
    BY <1>2, <2>1
<1>5. PICK lo \in Int, hi \in Int : \A a \in T : a[1] \in Int /\ lo <= a[1] /\ a[1] <= hi
  <2>1. /\ L[1].v0 \in Int /\ L[n].v1 \in Int
        /\ \A a \in T : a[1] \in Int /\ L[1].v0 <= a[1] /\ a[1] <= L[n].v1
    BY DrawnBounds
  <2> QED
    BY ONLY <2>1
<1>6. \A a \in T : \A b \in T : a[1] = b[1] => a = b
  BY DrawnOrder
<1>7. \A a \in T : p <= a[1] /\ a[1] <= q => OnLine(a, r)
  BY <1>2, OnThisLine
<1> DEFINE Near(o) == o \in Int /\ s + x - g <= o /\ o <= s + x + d
<1>8. Near(OriginalTime(T, v))
  <2>1. CASE \A a \in T : v <= a[1]
    <3>1. OriginalTime(T, v) = First(T)[2]
      BY <2>1 DEF OriginalTime
    <3>2. First(T) \in T /\ \A b \in T : First(T)[1] <= b[1]
      BY <1>4, <1>5, Extremes
    <3>3. v <= p /\ First(T)[1] <= p /\ v <= First(T)[1]
      <4>1. <<p, s>>[1] = p
        OBVIOUS
      <4> QED
        BY <1>4, <2>1, <3>2, <4>1
    <3>4. First(T)[1] \in Int
      BY <1>5, <3>2
    <3>5. x = 0 /\ First(T)[1] = p
      BY <1>3, <3>3, <3>4
    <3>6. First(T) = <<p, s>>
      BY <1>4, <1>6, <3>2, <3>5
    <3> QED
      BY <1>3, <3>1, <3>5, <3>6
  <2>2. CASE (\E a \in T : ~(v <= a[1])) /\ \A a \in T : a[1] <= v
    <3>1. OriginalTime(T, v) = Latest(T)[2]
      BY <2>2 DEF OriginalTime
    <3>2. Latest(T) \in T /\ \A b \in T : b[1] <= Latest(T)[1]
      BY <1>4, <1>5, Extremes
    <3>3. q <= v /\ q <= Latest(T)[1] /\ Latest(T)[1] <= v
      <4>1. <<q, e>>[1] = q
        OBVIOUS
      <4> QED
        BY <1>4, <2>2, <3>2, <4>1
    <3>4. Latest(T)[1] \in Int
      BY <1>5, <3>2
    <3>5. x = q - p /\ Latest(T)[1] = q
      BY <1>3, <3>3, <3>4
    <3>6. Latest(T) = <<q, e>>
      BY <1>4, <1>6, <3>2, <3>5
    <3>7. OriginalTime(T, v) = e
      BY <3>1, <3>6
    <3> QED
      BY <1>3, <3>5, <3>7
  <2>3. CASE (\E a \in T : ~(v <= a[1])) /\ \E a \in T : ~(a[1] <= v)
    <3> DEFINE below == {a \in T : a[1] < v}
               above == {a \in T : a[1] >= v}
    <3>1. PICK lower, upper : lower = Latest(below) /\ upper = First(above)
      OBVIOUS
    <3>2. OriginalTime(T, v) =
            IF upper[1] = v THEN upper[2]
            ELSE lower[2] + ((v - lower[1]) * (upper[2] - lower[2])) \div (upper[1] - lower[1])
      BY <2>3, <3>1 DEF OriginalTime
    <3>3. below # {}
      <4>1. PICK a \in T : ~(v <= a[1])
        BY <2>3
      <4>2. a[1] < v
        BY <1>3, <1>5, <4>1
      <4> QED
        BY <4>2
    <3>4. lower \in T /\ lower[1] < v /\ \A b \in T : b[1] < v => b[1] <= lower[1]
      <4>1. \A a \in below : a[1] \in Int /\ lo <= a[1] /\ a[1] <= hi
        BY <1>5
      <4>2. lower \in below /\ \A b \in below : b[1] <= lower[1]
        BY <3>1, <3>3, <4>1, Extremes
      <4> QED
        BY <4>2
    <3>5. <<q, e>> \in above /\ <<q, e>>[1] = q
      BY <1>3, <1>4
    <3>6. upper \in T /\ upper[1] >= v /\ \A b \in T : b[1] >= v => upper[1] <= b[1]
      <4>1. \A a \in above : a[1] \in Int /\ lo <= a[1] /\ a[1] <= hi
        BY <1>5
      <4>2. upper \in above /\ \A b \in above : upper[1] <= b[1]
        BY <3>1, <3>5, <4>1, Extremes
      <4> QED
        BY <4>2
    <3>7. lower[1] \in Int /\ upper[1] \in Int /\ upper[1] <= q
      BY <1>5, <3>4, <3>5, <3>6
    <3> HIDE DEF below, above
    <3>8. p <= upper[1]
      BY <1>3, <3>6, <3>7
    <3>9. OnLine(upper, r)
      BY <1>7, <3>6, <3>7, <3>8
    <3>10. PICK z, u : z = upper[1] - p /\ u = upper[2] - s
      OBVIOUS
    <3>11. /\ upper[2] \in Int /\ z - g <= u /\ u <= z + d
           /\ upper[1] = p => upper[2] = s
      BY <1>1, <1>2, <3>9, <3>10, OnLineIs
    <3>12. CASE upper[1] = v
      <4>1. z = x /\ upper[2] = s + u
        BY <1>3, <3>10, <3>11, <3>12
      <4>2. OriginalTime(T, v) = upper[2]
        BY <3>2, <3>12
      <4> QED
        BY <1>3, <3>10, <3>11, <4>1, <4>2
    <3>13. CASE upper[1] # v
      <4>1. p # v
        <5> SUFFICES ASSUME p = v PROVE FALSE
          OBVIOUS
        <5>1. <<p, s>>[1] = p
          OBVIOUS
        <5>2. upper[1] <= p
          BY <1>3, <1>4, <3>6, <5>1
        <5> QED
          BY <1>3, <3>6, <3>7, <3>13, <5>2
      <4>2. p <= lower[1] /\ lower[1] <= q
        <5>1. <<p, s>>[1] = p /\ p < v
          BY <1>3, <4>1
        <5>2. p <= lower[1]
          BY <1>4, <3>4, <5>1
        <5> QED
          BY <1>3, <3>4, <3>7, <5>2
      <4>3. OnLine(lower, r)
        BY <1>7, <3>4, <4>2
      <4>4. PICK w, y : w = lower[1] - p /\ y = lower[2] - s
        OBVIOUS
      <4>5. lower[2] \in Int /\ w - g <= y /\ y <= w + d
        BY <1>1, <1>2, <4>3, <4>4, OnLineIs
      <4>6. /\ w \in Int /\ z \in Int /\ y \in Int /\ u \in Int /\ w < x /\ x <= z
            /\ v - lower[1] = x - w /\ upper[2] - lower[2] = u - y
            /\ upper[1] - lower[1] = z - w /\ lower[2] = s + y
        <5>1. lower[1] < v /\ upper[1] >= v
          BY <3>4, <3>6
        <5>2. lower[1] = p + w /\ upper[1] = p + z /\ w \in Int /\ z \in Int
          BY <1>3, <3>7, <3>10, <4>4
        <5>3. lower[2] = s + y /\ upper[2] = s + u /\ y \in Int /\ u \in Int
          BY <1>3, <3>10, <3>11, <4>4, <4>5
        <5> QED
          BY <1>3, <5>1, <5>2, <5>3
      <4>7. OriginalTime(T, v) = s + y + ((x - w) * (u - y)) \div (z - w)
        BY <3>2, <3>13, <4>6
      <4>8. /\ x - g <= y + ((x - w) * (u - y)) \div (z - w)
            /\ y + ((x - w) * (u - y)) \div (z - w) <= x + d
        <5>1. w \in Int /\ z \in Int /\ x \in Int /\ w < x /\ x <= z /\ y \in Int /\ u \in Int
          BY <4>6
        <5>2. w - g <= y /\ y <= w + d /\ z - g <= u /\ u <= z + d
          BY <3>11, <4>5
        <5>3. g \in Nat /\ d \in Nat
          OBVIOUS
        <5> QED
          BY ONLY <5>1, <5>2, <5>3, BetweenNear
      <4>9. PICK m : m = ((x - w) * (u - y)) \div (z - w)
        OBVIOUS
      <4>10. m \in Int
        <5>1. (x - w) * (u - y) \in Int /\ z - w \in Nat \ {0}
          BY <4>6
        <5> QED
          BY <4>9, <5>1, Division
      <4>11. x - g <= y + m /\ y + m <= x + d /\ OriginalTime(T, v) = s + y + m
        BY <4>7, <4>8, <4>9
      <4>12. s + y + m \in Int /\ s + x - g <= s + y + m /\ s + y + m <= s + x + d
        BY <1>3, <4>6, <4>10, <4>11
      <4> QED
        BY <4>11, <4>12
    <3> QED
      BY <3>12, <3>13
  <2> QED
    BY <2>1, <2>2, <2>3
<1> QED
  BY <1>2, <1>8

-----------------------------------------------------------------------------
(* Where a segment begins in the audio that is transcribed is a fold; its   *)
(* steps.                                                                   *)
Advances(segs, n, N) == n \in Nat /\ \A j \in 1 .. n : Advance(segs, j, N) \in Nat

LEMMA OffsetSteps ==
  ASSUME NEW segs, NEW N, NEW n, Advances(segs, n, N), NEW k \in 1 .. n
  PROVE  \E f : /\ f[0] = 0 /\ Offset(segs, k, N) = f[k - 1]
                /\ \A m \in 0 .. k - 2 : f[m + 1] = f[m] + Advance(segs, m + 1, N)
<1> DEFINE T == 1 .. n
           F == [x \in Nat \X T |-> x[1] + Advance(segs, x[2], N)]
           For(g, q) == g = [S \in SUBSET DOMAIN q |->
                              IF S = {} THEN 0
                              ELSE g[S \ {Max(S)}] + Advance(segs, q[Max(S)], N)]
           Eq(g) == For(g, [j \in 1 .. k - 1 |-> j])
<1>0. n \in Nat /\ k - 1 \in Nat
  BY DEF Advances
<1>1. PICK sp : sp = [j \in 1 .. k - 1 |-> j]
  OBVIOUS
<1>2. /\ sp \in Seq(T) /\ DOMAIN sp = 1 .. k - 1 /\ Len(sp) = k - 1
      /\ \A j \in 1 .. k - 1 : sp[j] = j /\ j \in T
  BY <1>0, <1>1
<1>3. F \in [Nat \X T -> Nat]
  BY DEF Advances
<1>4. PICK h \in [SUBSET (1 .. Len(sp)) -> Nat] : FoldEq(h, F, 0, sp, Len(sp))
  <2> HIDE DEF F, T
  <2> QED
    BY <1>2, <1>3, FoldExists
<1>5. ASSUME NEW S \in SUBSET (1 .. k - 1), S # {}
      PROVE  /\ S \ {Max(S)} \in SUBSET (1 .. k - 1) /\ sp[Max(S)] \in T
             /\ sp[Max(S)] = Max(S)
  <2>1. Max(S) \in S
    BY <1>0, <1>5, MaxExists
  <2>2. PICK j : j = Max(S) /\ j \in 1 .. k - 1
    BY <2>1
  <2>3. sp[j] = j /\ j \in T
    BY <1>2, <2>2
  <2> HIDE DEF T, F, Eq
  <2> QED
    BY <2>2, <2>3
<1>6. Eq(h)
  <2>1. ASSUME NEW S \in SUBSET (1 .. k - 1)
        PROVE  h[S] = IF S = {} THEN 0 ELSE h[S \ {Max(S)}] + Advance(segs, sp[Max(S)], N)
    <3>1. h[S] = IF S = {} THEN 0 ELSE F[<<h[S \ {Max(S)}], sp[Max(S)]>>]
      BY <1>2, <1>4 DEF FoldEq
    <3>2. S # {} => h[S \ {Max(S)}] \in Nat /\ sp[Max(S)] \in T
      BY <1>2, <1>4, <1>5
    <3>3. S # {} => F[<<h[S \ {Max(S)}], sp[Max(S)]>>]
                      = h[S \ {Max(S)}] + Advance(segs, sp[Max(S)], N)
      BY <3>2
    <3> HIDE DEF F, T
    <3> QED
      BY <3>1, <3>3
  <2>2. h = [S \in SUBSET (1 .. k - 1) |-> h[S]]
    BY <1>2, <1>4
  <2>3. h = [S \in SUBSET DOMAIN sp |->
              IF S = {} THEN 0 ELSE h[S \ {Max(S)}] + Advance(segs, sp[Max(S)], N)]
    BY <1>2, <2>1, <2>2
  <2>4. For(h, sp)
    BY <2>3
  <2> HIDE DEF For
  <2> QED
    BY <1>1, <2>4
<1>7. Offset(segs, k, N) = (CHOOSE g : Eq(g))[DOMAIN [j \in 1 .. k - 1 |-> j]]
  BY Zenon DEF Offset, FoldLeft, MapThenFoldSet
<1>8. PICK g : g = (CHOOSE f : Eq(f)) /\ Eq(g)
  <2> HIDE DEF Eq
  <2> QED
    BY <1>6
<1>9. PICK D : D = SUBSET (1 .. k - 1)
  OBVIOUS
<1>10. \A S \in D : g[S] = IF S = {} THEN 0
                           ELSE g[S \ {Max(S)}] + Advance(segs, sp[Max(S)], N)
  <2>1. g = [S \in D |-> IF S = {} THEN 0
                         ELSE g[S \ {Max(S)}] + Advance(segs, sp[Max(S)], N)]
    <3>1. g = [S \in SUBSET DOMAIN sp |->
                IF S = {} THEN 0 ELSE g[S \ {Max(S)}] + Advance(segs, sp[Max(S)], N)]
      <4>1. For(g, sp)
        <5> HIDE DEF For
        <5> QED
          BY <1>1, <1>8
      <4> QED
        BY <4>1
    <3>2. SUBSET DOMAIN sp = D
      BY <1>2, <1>9
    <3> HIDE DEF Eq
    <3> QED
      BY <3>1, <3>2
  <2> QED
    BY <2>1, Zenon
<1>11. PICK f : f = [m \in 0 .. k - 1 |-> g[1 .. m]]
  OBVIOUS
<1>12. f[0] = 0
  <2>1. 1 .. 0 = {} /\ {} \in D
    BY <1>9
  <2>2. g[{}] = 0
    BY <1>10, <2>1
  <2> QED
    BY <1>0, <1>11, <2>1, <2>2
<1>13. f[k - 1] = Offset(segs, k, N)
  <2>1. f[k - 1] = g[1 .. k - 1]
    BY <1>0, <1>11
  <2> HIDE DEF Eq
  <2> QED
    BY <1>1, <1>2, <1>7, <1>8, <2>1
<1>14. ASSUME NEW m \in 0 .. k - 2 PROVE f[m + 1] = f[m] + Advance(segs, m + 1, N)
  <2>1. PICK S : S = 1 .. m + 1
    OBVIOUS
  <2>2. S \in D /\ S # {} /\ Max(S) = m + 1 /\ S \ {m + 1} = 1 .. m
    <3>1. m \in 0 .. (k - 1) - 1 /\ k - 1 \in Nat
      BY <1>0
    <3> QED
      BY <1>9, <2>1, <3>1, Prefix
  <2>3. sp[m + 1] = m + 1
    <3>1. m + 1 \in 1 .. k - 1
      BY <1>0
    <3> QED
      BY <1>2, <3>1
  <2>4. g[S] = g[1 .. m] + Advance(segs, m + 1, N)
    BY <1>10, <2>2, <2>3
  <2>5. f[m] = g[1 .. m] /\ f[m + 1] = g[S]
    BY <1>0, <1>11, <2>1
  <2> QED
    BY <2>4, <2>5
<1> QED
  BY <1>12, <1>13, <1>14

LEMMA OffsetIs ==
  ASSUME NEW segs, NEW N, NEW n, Advances(segs, n, N), NEW k \in 1 .. n
  PROVE  /\ Offset(segs, k, N) \in Nat
         /\ k = 1 => Offset(segs, k, N) = 0
         /\ k < n => Offset(segs, k + 1, N) = Offset(segs, k, N) + Advance(segs, k, N)
<1>0. n \in Nat /\ k - 1 \in Nat /\ k \in Nat
  BY DEF Advances
<1>1. PICK f : /\ f[0] = 0 /\ Offset(segs, k, N) = f[k - 1]
               /\ \A m \in 0 .. k - 2 : f[m + 1] = f[m] + Advance(segs, m + 1, N)
  BY OffsetSteps
<1>2. Offset(segs, k, N) \in Nat
  <2> DEFINE Good == {m \in 0 .. k - 1 : f[m] \in Nat}
  <2>1. 0 \in Good
    BY <1>0, <1>1
  <2>2. ASSUME NEW m \in 0 .. (k - 1) - 1, m \in Good PROVE m + 1 \in Good
    <3>1. m \in 0 .. k - 2 /\ m + 1 \in 1 .. n /\ m + 1 \in 0 .. k - 1
      BY <1>0
    <3>2. Advance(segs, m + 1, N) \in Nat
      BY <3>1 DEF Advances
    <3>3. f[m] \in Nat /\ f[m + 1] = f[m] + Advance(segs, m + 1, N)
      BY <1>1, <2>2, <3>1
    <3> QED
      BY <3>1, <3>2, <3>3
  <2>3. k - 1 \in Good
    <3> HIDE DEF Good
    <3>1. \A m \in 0 .. k - 1 : m \in Good
      BY <1>0, <2>1, <2>2, UpTo
    <3>2. k - 1 \in 0 .. k - 1
      BY <1>0
    <3> QED
      BY <3>1, <3>2
  <2> QED
    BY <1>1, <2>3
<1>3. ASSUME k < n PROVE Offset(segs, k + 1, N) = Offset(segs, k, N) + Advance(segs, k, N)
  <2>0. k + 1 \in 1 .. n
    BY <1>0, <1>3
  <2>1. PICK g : /\ g[0] = 0 /\ Offset(segs, k + 1, N) = g[(k + 1) - 1]
                 /\ \A m \in 0 .. (k + 1) - 2 : g[m + 1] = g[m] + Advance(segs, m + 1, N)
    BY <2>0, OffsetSteps
  <2> DEFINE Good == {m \in 0 .. k - 1 : f[m] = g[m]}
  <2>2. 0 \in Good
    BY <1>0, <1>1, <2>1
  <2>3. ASSUME NEW m \in 0 .. (k - 1) - 1, m \in Good PROVE m + 1 \in Good
    <3>1. m \in 0 .. k - 2 /\ m \in 0 .. (k + 1) - 2 /\ m + 1 \in 0 .. k - 1
      BY <1>0
    <3>2. f[m] = g[m] /\ f[m + 1] = f[m] + Advance(segs, m + 1, N)
      BY <1>1, <2>3, <3>1
    <3>3. g[m + 1] = g[m] + Advance(segs, m + 1, N)
      BY <2>1, <3>1
    <3> QED
      BY <3>1, <3>2, <3>3
  <2>4. k - 1 \in Good
    <3> HIDE DEF Good
    <3>1. \A m \in 0 .. k - 1 : m \in Good
      BY <1>0, <2>2, <2>3, UpTo
    <3>2. k - 1 \in 0 .. k - 1
      BY <1>0
    <3> QED
      BY <3>1, <3>2
  <2>5. k - 1 \in 0 .. (k + 1) - 2 /\ (k - 1) + 1 = k /\ (k + 1) - 1 = k
    BY <1>0
  <2>6. g[k] = g[k - 1] + Advance(segs, k, N)
    BY <2>1, <2>5
  <2> QED
    BY <1>1, <2>1, <2>4, <2>5, <2>6
<1> QED
  BY <1>0, <1>1, <1>2, <1>3

-----------------------------------------------------------------------------
(* Segments that begin a centisecond before the end of the audio or more,   *)
(* and end at most a window and half a centisecond behind it.               *)
Fits(segs, N) ==
  /\ segs \in Seq(Speech) /\ N \in Nat
  /\ \A k \in 1 .. Len(segs) :
       /\ segs[k].start < segs[k].end
       /\ CsToSamples(segs[k].start) + Cs + 1 <= N
       /\ CsToSamples(segs[k].end) <= N + n_window + 79
  /\ \A k \in 1 .. Len(segs) - 1 : segs[k].end <= segs[k + 1].start

LEMMA LengthIs ==
  ASSUME NEW segs, NEW N, Fits(segs, N), NEW k \in 1 .. Len(segs),
         NEW s, s = segs[k].start, NEW e, e = segs[k].end,
         NEW m, m = Length(segs, k, N)
  PROVE  /\ s \in Nat /\ e \in Nat /\ s < e /\ m \in Nat /\ Cs <= m
         /\ m <= Cs * (e - s) + samples_overlap
         /\ Cs * (e - s) - n_window - 80 <= m
         /\ \A t \in s .. e - 1 : CsToSamples(t) < N => Cs * (t - s) <= m
<1>1. /\ s \in Nat /\ e \in Nat /\ s < e /\ N \in Nat
      /\ 160 * s + 161 <= N /\ 160 * e <= N + n_window + 79
  <2>1. segs[k] \in Speech
    BY DEF Fits
  <2>2. s \in Nat /\ e \in Nat
    BY <2>1 DEF Speech
  <2>3. s < e /\ N \in Nat /\ CsToSamples(s) + Cs + 1 <= N /\ CsToSamples(e) <= N + n_window + 79
    BY DEF Fits
  <2> QED
    BY <2>2, <2>3 DEF CsToSamples, Cs
<1>2. PICK o : o = IF k < Len(segs) THEN samples_overlap ELSE 0
  OBVIOUS
<1>3. o \in Nat /\ o <= samples_overlap /\ n_window \in Nat /\ samples_overlap \in Nat
  BY <1>2, OverlapAssumption, WindowAssumption
<1>4. CopyStart(segs, k, N) = 160 * s
  <2>1. CopyStart(segs, k, N) = Min({160 * s, N - 1})
    BY DEF CopyStart, CsToSamples, Cs
  <2>2. Min({160 * s, N - 1}) = IF 160 * s <= N - 1 THEN 160 * s ELSE N - 1
    <3>1. 160 * s \in Int /\ N - 1 \in Int
      BY <1>1
    <3> QED
      BY <3>1, TwoOf
  <2> QED
    BY <1>1, <2>1, <2>2
<1>5. PICK c : c = CopyEnd(segs, k, N)
  OBVIOUS
<1>6. c = IF 160 * e + o <= N - 1 THEN 160 * e + o ELSE N - 1
  <2>1. c = Min({160 * e + o, N - 1})
    BY <1>2, <1>5 DEF CopyEnd, CsToSamples, Cs
  <2>2. PICK x, y : x = 160 * e + o /\ y = N - 1
    OBVIOUS
  <2>3. x \in Int /\ y \in Int
    BY <1>1, <1>3, <2>2
  <2>4. Min({x, y}) = IF x <= y THEN x ELSE y
    BY <2>3, TwoOf
  <2> QED
    BY ONLY <2>1, <2>2, <2>4
<1>7. m = IF c - 160 * s >= 0 THEN c - 160 * s ELSE 0
  <2>1. m = Max({c - 160 * s, 0})
    BY <1>4, <1>5 DEF Length
  <2>2. PICK x : x = c - 160 * s
    OBVIOUS
  <2>3. x \in Int /\ 0 \in Int
    BY <1>1, <1>3, <1>6, <2>2
  <2>4. Max({x, 0}) = IF x >= 0 THEN x ELSE 0
    BY <2>3, TwoOf
  <2> QED
    BY ONLY <2>1, <2>2, <2>4
<1>8. PICK x, y, z : x = 160 * s /\ y = 160 * e /\ z = 160 * (e - s)
  OBVIOUS
<1>9. x \in Nat /\ y \in Nat /\ z \in Nat /\ z = y - x /\ 160 <= z
  BY ONLY <1>1, <1>8
<1>10. /\ N \in Nat /\ x + 161 <= N /\ y <= N + n_window + 79
       /\ c = IF y + o <= N - 1 THEN y + o ELSE N - 1
       /\ m = IF c - x >= 0 THEN c - x ELSE 0
  BY ONLY <1>1, <1>6, <1>7, <1>8
<1>11. m \in Nat /\ 160 <= m /\ m <= z + samples_overlap /\ z - n_window - 80 <= m
  BY ONLY <1>3, <1>9, <1>10
<1>12. ASSUME NEW t \in s .. e - 1, CsToSamples(t) < N PROVE Cs * (t - s) <= m
  <2>1. t \in Int /\ t <= e - 1 /\ 160 * t < N /\ s <= t
    BY <1>1, <1>12 DEF CsToSamples, Cs
  <2>2. PICK u, w : u = 160 * t /\ w = 160 * (t - s)
    OBVIOUS
  <2>3. u \in Int /\ u < N /\ u <= y - 160 /\ w = u - x
    BY ONLY <1>1, <1>8, <2>1, <2>2
  <2>4. w <= m
    BY ONLY <1>3, <1>9, <1>10, <2>3
  <2> QED
    BY <2>2, <2>4 DEF Cs
<1> QED
  BY <1>1, <1>8, <1>11, <1>12 DEF Cs

(* How far the map may be off, in centiseconds: back by the overlap, and    *)
(* forward by a window that the audio does not fill. *)
Back == samples_overlap \div Cs + 1
Forth == (n_window + 3 * (Cs \div 2)) \div Cs

LineOf(segs, k, N) ==
  [v0 |-> SamplesToCs(Offset(segs, k, N)),
   v1 |-> SamplesToCs(Offset(segs, k, N) + Length(segs, k, N)),
   s |-> segs[k].start, e |-> segs[k].end]

LEMMA BoundsAre == Back \in Nat /\ Forth \in Nat
<1>1. samples_overlap \in Nat /\ n_window \in Nat
  BY OverlapAssumption, WindowAssumption
<1>2. samples_overlap \div 160 \in Nat
  BY <1>1
<1>3. (n_window + 240) \div 160 \in Nat
  BY <1>1
<1>4. 3 * (Cs \div 2) = 240 /\ Cs = 160
  BY DEF Cs
<1> QED
  BY <1>2, <1>3, <1>4 DEF Back, Forth

LEMMA LineLaid ==
  ASSUME NEW segs, NEW N, Fits(segs, N), NEW k \in 1 .. Len(segs),
         NEW o \in Nat, o = Offset(segs, k, N), NEW m, m = Length(segs, k, N)
  PROVE  /\ LineOf(segs, k, N) \in Lines /\ Laid(LineOf(segs, k, N), Back, Forth)
         /\ LineOf(segs, k, N).v0 \in Nat
         /\ \A t \in segs[k].start .. segs[k].end - 1 :
              CsToSamples(t) < N =>
                t - segs[k].start <= LineOf(segs, k, N).v1 - LineOf(segs, k, N).v0
<1>1. PICK s, e : s = segs[k].start /\ e = segs[k].end
  OBVIOUS
<1>2. /\ s \in Nat /\ e \in Nat /\ s < e /\ m \in Nat /\ 160 <= m
      /\ m <= 160 * (e - s) + samples_overlap
      /\ 160 * (e - s) - n_window - 80 <= m
      /\ \A t \in s .. e - 1 : CsToSamples(t) < N => 160 * (t - s) <= m
  BY <1>1, LengthIs DEF Cs
<1>3. PICK p, q : p = (o + 80) \div 160 /\ q = (o + m + 80) \div 160
  OBVIOUS
<1>4. /\ p \in Nat /\ 160 * p <= o + 80 /\ o + 80 < 160 * p + 160
      /\ q \in Nat /\ 160 * q <= o + m + 80 /\ o + m + 80 < 160 * q + 160
  <2>1. PICK x, y : x = o + 80 /\ y = o + m + 80
    OBVIOUS
  <2>2. x \in Nat /\ y \in Nat
    <3>1. m \in Nat /\ o \in Nat
      BY <1>2
    <3> QED
      BY ONLY <2>1, <3>1
  <2>3. 160 \in Nat \ {0}
    OBVIOUS
  <2>4. p \in Int /\ 160 * p <= x /\ x < 160 * p + 160
    BY <1>3, <2>1, <2>2, <2>3, Division
  <2>5. q \in Int /\ 160 * q <= y /\ y < 160 * q + 160
    BY <1>3, <2>1, <2>2, <2>3, Division
  <2>6. p \in Nat /\ q \in Nat
    BY <2>2, <2>4, <2>5
  <2> QED
    BY ONLY <2>1, <2>4, <2>5, <2>6
<1>5. 160 * (q - p) < m + 160 /\ m < 160 * (q - p) + 160
  <2>1. 160 * (q - p) = 160 * q - 160 * p
    BY <1>4
  <2>2. m \in Int /\ p \in Int /\ q \in Int
    BY <1>2, <1>4
  <2> QED
    BY ONLY <1>4, <2>1, <2>2, o \in Nat
<1>6. LineOf(segs, k, N) = [v0 |-> p, v1 |-> q, s |-> s, e |-> e]
  BY <1>1, <1>3 DEF LineOf, SamplesToCs, Cs
<1>7. p < q
  BY <1>2, <1>4, <1>5
<1>8. (q - p) - (e - s) <= Back
  <2>1. PICK b : b = samples_overlap \div 160
    OBVIOUS
  <2>2. b \in Int /\ samples_overlap < 160 * b + 160 /\ samples_overlap \in Nat
    BY <2>1, OverlapAssumption
  <2>3. 160 * ((q - p) - (e - s)) < samples_overlap + 160
    <3>1. PICK c, h : c = 160 * (e - s) /\ h = 160 * (q - p)
      OBVIOUS
    <3>2. c \in Int /\ h \in Int /\ 160 * ((q - p) - (e - s)) = h - c
      BY <1>2, <1>4, <3>1
    <3>3. m \in Int /\ m <= c + samples_overlap /\ h < m + 160
      BY <1>2, <1>5, <3>1
    <3> QED
      BY ONLY <2>2, <3>2, <3>3
  <2>4. (q - p) - (e - s) <= b + 1
    BY <1>2, <1>4, <2>2, <2>3
  <2> QED
    BY <2>1, <2>4 DEF Back, Cs
<1>9. (e - s) - (q - p) <= Forth
  <2>1. PICK b : b = (n_window + 240) \div 160
    OBVIOUS
  <2>2. b \in Int /\ n_window + 240 < 160 * b + 160 /\ n_window \in Nat
    BY <2>1, WindowAssumption
  <2>3. 160 * ((e - s) - (q - p)) < n_window + 240
    <3>1. PICK c, h : c = 160 * (e - s) /\ h = 160 * (q - p)
      OBVIOUS
    <3>2. c \in Int /\ h \in Int /\ 160 * ((e - s) - (q - p)) = c - h
      BY <1>2, <1>4, <3>1
    <3>3. m \in Int /\ c - n_window - 80 <= m /\ m < h + 160
      BY <1>2, <1>5, <3>1
    <3> QED
      BY ONLY <2>2, <3>2, <3>3
  <2>4. (e - s) - (q - p) <= b
    BY <1>2, <1>4, <2>2, <2>3
  <2>5. 3 * (Cs \div 2) = 240 /\ Cs = 160
    BY DEF Cs
  <2> QED
    BY <2>1, <2>4, <2>5 DEF Forth
<1>10. PICK r : r = LineOf(segs, k, N) /\ r.v0 = p /\ r.v1 = q /\ r.s = s /\ r.e = e
  BY <1>6
<1>11. r \in Lines
  BY <1>2, <1>4, <1>6, <1>10 DEF Lines
<1>12. Laid(r, Back, Forth)
  BY <1>2, <1>4, <1>7, <1>8, <1>9, <1>10 DEF Laid
<1>13. ASSUME NEW t \in s .. e - 1, CsToSamples(t) < N PROVE t - s <= q - p
  <2>1. 160 * (t - s) <= m /\ t \in Int
    BY <1>2, <1>13
  <2> QED
    BY <1>2, <1>4, <1>5, <2>1
<1> QED
  BY <1>1, <1>4, <1>10, <1>11, <1>12, <1>13

-----------------------------------------------------------------------------
LEMMA AdvanceIs ==
  ASSUME NEW segs, NEW N, Fits(segs, N)
  PROVE  /\ Advances(segs, Len(segs), N)
         /\ \A k \in 1 .. Len(segs) - 1 :
              Advance(segs, k, N) = Length(segs, k, N) + silence_samples
<1>1. Len(segs) \in Nat
  BY DEF Fits
<1>2. silence_samples = 1600
  BY DEF silence_samples, Ms
<1>3. ASSUME NEW k \in 1 .. Len(segs)
      PROVE  /\ Length(segs, k, N) \in Nat /\ Length(segs, k, N) # 0
             /\ Advance(segs, k, N) = Length(segs, k, N) + IF k < Len(segs) THEN 1600 ELSE 0
  <2>1. PICK m : m = Length(segs, k, N)
    OBVIOUS
  <2>2. m \in Nat /\ m >= Cs
    BY <2>1, LengthIs
  <2>3. m # 0
    BY <2>2 DEF Cs
  <2>4. Advance(segs, k, N) = m + IF k < Len(segs) THEN 1600 ELSE 0
    BY <1>2, <2>1, <2>3 DEF Advance
  <2> QED
    BY <2>1, <2>2, <2>3, <2>4
<1>4. ASSUME NEW k \in 1 .. Len(segs) PROVE Advance(segs, k, N) \in Nat
  BY <1>3
<1>5. ASSUME NEW k \in 1 .. Len(segs) - 1
      PROVE  Advance(segs, k, N) = Length(segs, k, N) + silence_samples
  <2>1. k \in 1 .. Len(segs) /\ k < Len(segs)
    BY <1>1
  <2> QED
    BY <1>2, <1>3, <2>1
<1> QED
  BY <1>1, <1>4, <1>5 DEF Advances

(* Every line begins ten centiseconds after the last one ends, and the      *)
(* point that is added for the silence is where it begins.                  *)
LEMMA NextLine ==
  ASSUME NEW segs, NEW N, Fits(segs, N), NEW k \in 1 .. Len(segs) - 1
  PROVE  /\ LineOf(segs, k + 1, N).v0 = LineOf(segs, k, N).v1 + 10
         /\ LineOf(segs, k + 1, N).v0
              = SamplesToCs(Offset(segs, k, N) + Length(segs, k, N) + silence_samples)
<1>1. k \in 1 .. Len(segs) /\ k < Len(segs) /\ Len(segs) \in Nat
  BY DEF Fits
<1>2. PICK o, m, q : /\ o = Offset(segs, k, N) /\ m = Length(segs, k, N)
                     /\ q = Offset(segs, k + 1, N)
  OBVIOUS
<1>3. m \in Nat
  BY <1>1, <1>2, LengthIs
<1>4. Advances(segs, Len(segs), N) /\ Advance(segs, k, N) = m + silence_samples
  BY <1>2, AdvanceIs
<1>5. o \in Nat /\ q = o + (m + silence_samples)
  BY <1>1, <1>2, <1>4, OffsetIs
<1>6. silence_samples = 1600
  BY DEF silence_samples, Ms
<1>7. q = o + m + 1600
  BY <1>3, <1>5, <1>6
<1>8. SamplesToCs(o + m + 1600) = SamplesToCs(o + m) + 10
  <2>1. PICK z : z = o + m
    OBVIOUS
  <2>2. z \in Nat
    BY <1>3, <1>5, <2>1
  <2>3. (z + 1600 + 80) \div 160 = (z + 80) \div 160 + 10
    BY ONLY <2>2
  <2> QED
    BY <2>1, <2>3 DEF SamplesToCs, Cs
<1> QED
  BY <1>2, <1>6, <1>7, <1>8 DEF LineOf

LayOut(segs, N) == [k \in 1 .. Len(segs) |-> LineOf(segs, k, N)]

LEMMA LinesLaidOut ==
  ASSUME NEW segs, NEW N, Fits(segs, N)
  PROVE  LaidOut(LayOut(segs, N), Len(segs), Back, Forth)
<1>1. PICK L, n : L = LayOut(segs, N) /\ n = Len(segs)
  OBVIOUS
<1>2. n \in Nat /\ \A k \in 1 .. n : L[k] = LineOf(segs, k, N)
  BY <1>1 DEF Fits, LayOut
<1>3. ASSUME NEW k \in 1 .. n PROVE L[k] \in Lines /\ Laid(L[k], Back, Forth)
  <2>1. Offset(segs, k, N) \in Nat
    BY <1>1, AdvanceIs, OffsetIs
  <2>2. LineOf(segs, k, N) \in Lines /\ Laid(LineOf(segs, k, N), Back, Forth)
    BY <1>1, <2>1, LineLaid
  <2> QED
    BY <1>2, <2>2
<1>4. L \in [1 .. n -> Lines]
  BY <1>1, <1>3 DEF LayOut
<1>5. ASSUME NEW k \in 1 .. n
      PROVE  /\ L[k].v0 \in Int /\ L[k].v1 \in Int /\ L[k].s \in Int /\ L[k].e \in Int
             /\ L[k].v0 < L[k].v1 /\ L[k].s <= L[k].e
  BY <1>3 DEF Lines, Laid
<1>6. ASSUME NEW k \in 1 .. n - 1 PROVE L[k].v1 < L[k + 1].v0 /\ L[k].e <= L[k + 1].s
  <2>1. k \in 1 .. n /\ k + 1 \in 1 .. n /\ k \in 1 .. Len(segs) - 1
    BY <1>1, <1>2
  <2>2. LineOf(segs, k + 1, N).v0 = LineOf(segs, k, N).v1 + 10
    BY <2>1, NextLine
  <2>3. L[k + 1].v0 = L[k].v1 + 10
    BY <1>2, <2>1, <2>2
  <2>4. L[k].v1 < L[k + 1].v0
    BY <1>5, <2>1, <2>3
  <2>5. segs[k].end <= segs[k + 1].start
    BY <2>1 DEF Fits
  <2>6. L[k].e = segs[k].end /\ L[k + 1].s = segs[k + 1].start
    <3>1. \A j : LineOf(segs, j, N).e = segs[j].end /\ LineOf(segs, j, N).s = segs[j].start
      BY Zenon DEF LineOf
    <3> QED
      BY <1>2, <2>1, <3>1
  <2> QED
    BY <2>4, <2>5, <2>6
<1>7. ASSUME NEW k \in 1 .. n, NEW l \in 1 .. n, k < l
      PROVE  L[k].v1 < L[l].v0 /\ L[k].e <= L[l].s
  <2> DEFINE Good == {m \in 0 .. l - k - 1 :
                        L[k].v1 < L[k + 1 + m].v0 /\ L[k].e <= L[k + 1 + m].s}
  <2>1. l - k - 1 \in Nat /\ k \in Nat /\ l \in Nat
    BY <1>2, <1>7
  <2>2. 0 \in Good
    <3>1. k \in 1 .. n - 1 /\ k + 1 + 0 = k + 1
      BY <1>2, <1>7
    <3>2. L[k].v1 < L[k + 1 + 0].v0 /\ L[k].e <= L[k + 1 + 0].s
      BY <1>6, <3>1
    <3> QED
      BY <2>1, <3>2
  <2>3. ASSUME NEW m \in 0 .. (l - k - 1) - 1, m \in Good PROVE m + 1 \in Good
    <3>1. PICK j : j = k + 1 + m
      OBVIOUS
    <3>2. /\ j \in 1 .. n /\ j + 1 \in 1 .. n /\ j \in 1 .. n - 1 /\ k + 1 + (m + 1) = j + 1
          /\ m + 1 \in 0 .. l - k - 1
      BY <1>2, <1>7, <3>1
    <3>3. L[k].v1 < L[j].v0 /\ L[k].e <= L[j].s
      BY <2>3, <3>1
    <3>4. L[j].v1 < L[j + 1].v0 /\ L[j].e <= L[j + 1].s
      BY <1>6, <3>2
    <3>5. L[k].v1 < L[j + 1].v0 /\ L[k].e <= L[j + 1].s
      BY <1>5, <3>2, <3>3, <3>4
    <3> QED
      BY <3>2, <3>5
  <2>4. l - k - 1 \in Good
    <3> HIDE DEF Good
    <3>1. \A m \in 0 .. l - k - 1 : m \in Good
      BY <2>1, <2>2, <2>3, UpTo
    <3>2. l - k - 1 \in 0 .. l - k - 1
      BY <2>1
    <3> QED
      BY <3>1, <3>2
  <2>5. k + 1 + (l - k - 1) = l
    BY <2>1
  <2> QED
    BY <2>4, <2>5
<1> QED
  BY <1>1, <1>3, <1>4, <1>7 DEF LaidOut

-----------------------------------------------------------------------------
LEMMA TableDrawn ==
  ASSUME NEW segs, NEW N, Fits(segs, N)
  PROVE  Drawn(MappingTable(segs, N), LayOut(segs, N), Len(segs))
<1>1. PICK T, L, n : T = MappingTable(segs, N) /\ L = LayOut(segs, N) /\ n = Len(segs)
  OBVIOUS
<1>2. /\ n \in Nat /\ segs \in Seq(Speech) /\ DOMAIN segs = 1 .. n
      /\ \A k \in 1 .. n : L[k] = LineOf(segs, k, N)
  BY <1>1 DEF Fits, LayOut
<1>3. T = UNION {PointsOf(segs, k, N) : k \in 1 .. n}
  BY <1>1, <1>2 DEF MappingTable
<1>4. \A k \in 1 .. n : L[k] \in Lines /\ Laid(L[k], Back, Forth)
  BY <1>1, LinesLaidOut DEF LaidOut
<1>5. ASSUME NEW k \in 1 .. n
      PROVE  PointsOf(segs, k, N)
               = {<<L[k].v0, L[k].s>>, <<L[k].v1, L[k].e>>}
                 \cup Inner(L[k].v0, L[k].v1, L[k].s, L[k].e)
                 \cup IF k < n THEN {<<L[k + 1].v0, L[k + 1].s>>} ELSE {}
  <2>1. PICK o, m : o = Offset(segs, k, N) /\ m = Length(segs, k, N)
    OBVIOUS
  <2>2. m # 0
    <3>1. m \in Nat /\ Cs <= m
      BY <1>1, <2>1, LengthIs
    <3> QED
      BY <3>1 DEF Cs
  <2>3. /\ L[k].v0 = SamplesToCs(o) /\ L[k].v1 = SamplesToCs(o + m)
        /\ L[k].s = segs[k].start /\ L[k].e = segs[k].end
    <3>1. L[k] = LineOf(segs, k, N)
      BY <1>2
    <3>2. /\ LineOf(segs, k, N).v0 = SamplesToCs(Offset(segs, k, N))
          /\ LineOf(segs, k, N).v1 = SamplesToCs(Offset(segs, k, N) + Length(segs, k, N))
          /\ LineOf(segs, k, N).s = segs[k].start /\ LineOf(segs, k, N).e = segs[k].end
      BY Zenon DEF LineOf
    <3> QED
      BY <2>1, <3>1, <3>2, Zenon
  <2>4. PointsOf(segs, k, N)
          = {<<SamplesToCs(o), segs[k].start>>, <<SamplesToCs(o + m), segs[k].end>>}
            \cup Inner(SamplesToCs(o), SamplesToCs(o + m), segs[k].start, segs[k].end)
            \cup IF k < n
                 THEN {<<SamplesToCs(o + m + silence_samples), segs[k + 1].start>>}
                 ELSE {}
    <3>1. PointsOf(segs, k, N)
            = IF Length(segs, k, N) = 0 THEN {}
              ELSE {<<SamplesToCs(Offset(segs, k, N)), segs[k].start>>,
                    <<SamplesToCs(Offset(segs, k, N) + Length(segs, k, N)), segs[k].end>>}
                   \cup Inner(SamplesToCs(Offset(segs, k, N)),
                              SamplesToCs(Offset(segs, k, N) + Length(segs, k, N)),
                              segs[k].start, segs[k].end)
                   \cup IF k < Len(segs)
                        THEN {<<SamplesToCs(Offset(segs, k, N) + Length(segs, k, N)
                                              + silence_samples), segs[k + 1].start>>}
                        ELSE {}
      BY Zenon DEF PointsOf
    <3> QED
      BY <1>1, <2>1, <2>2, <3>1
  <2>5. k < n => /\ L[k + 1].v0 = SamplesToCs(o + m + silence_samples)
                 /\ L[k + 1].s = segs[k + 1].start
    <3> SUFFICES ASSUME k < n
        PROVE  /\ L[k + 1].v0 = SamplesToCs(o + m + silence_samples)
               /\ L[k + 1].s = segs[k + 1].start
      OBVIOUS
    <3>1. k \in 1 .. Len(segs) - 1 /\ k + 1 \in 1 .. n
      BY <1>1, <1>2
    <3>2. LineOf(segs, k + 1, N).v0 = SamplesToCs(o + m + silence_samples)
      BY <2>1, <3>1, NextLine
    <3>3. LineOf(segs, k + 1, N).s = segs[k + 1].start
      BY Zenon DEF LineOf
    <3> QED
      BY <1>2, <3>1, <3>2, <3>3
  <2> QED
    BY <2>3, <2>4, <2>5
<1>6. ASSUME NEW k \in 1 .. n
      PROVE  /\ OnLine(<<L[k].v0, L[k].s>>, L[k]) /\ OnLine(<<L[k].v1, L[k].e>>, L[k])
             /\ \A a \in Inner(L[k].v0, L[k].v1, L[k].s, L[k].e) :
                  a = <<a[1], a[2]>> /\ OnLine(a, L[k])
  <2>1. PICK r, p, q, s, e : r = L[k] /\ p = r.v0 /\ q = r.v1 /\ s = r.s /\ e = r.e
    OBVIOUS
  <2>2. p \in Int /\ q \in Int /\ s \in Int /\ e \in Int /\ p < q /\ s <= e
    BY <1>4, <2>1 DEF Lines, Laid
  <2>3. PICK u, b : u = e - s /\ b = q - p
    OBVIOUS
  <2>4. u \in Nat /\ b \in Nat \ {0} /\ p - p = 0 /\ p \in p .. q /\ q \in p .. q
        /\ s = s + 0 /\ s + u = e
    BY <2>2, <2>3
  <2>5. Line(0, u, b) = 0 /\ Line(b, u, b) = u
    BY <2>4, LineIs
  <2>6. OnLine(<<p, s>>, r)
    <3>1. s = s + Line(p - p, u, b)
      BY <2>4, <2>5
    <3> QED
      BY <2>1, <2>3, <2>4, <3>1 DEF OnLine
  <2>7. OnLine(<<q, e>>, r)
    <3>1. e = s + Line(q - p, u, b)
      BY <2>3, <2>4, <2>5
    <3> QED
      BY <2>1, <2>3, <2>4, <3>1 DEF OnLine
  <2>8. ASSUME NEW a \in Inner(p, q, s, e) PROVE a = <<a[1], a[2]>> /\ OnLine(a, r)
    <3>1. PICK j \in 1 .. b \div 20 - 1 : a = <<p + j * 20, s + (j * 20 * u) \div b>>
      BY <2>3, <2>8 DEF Inner, PointInterval, MinSegmentLength
    <3>2. b \div 20 \in Int /\ 20 * (b \div 20) <= b
      BY <2>4
    <3>3. j \in Int /\ 1 <= j /\ j <= b \div 20 - 1
      BY <3>1, <3>2
    <3>4. PICK x : x = j * 20
      OBVIOUS
    <3>5. x \in Int /\ 0 <= x /\ x <= b
      BY ONLY <2>4, <3>2, <3>3, <3>4
    <3>6. a = <<p + x, s + Line(x, u, b)>>
      <4>1. (j * 20 * u) \div b = Line(x, u, b)
        BY <3>4, Zenon DEF Line
      <4> QED
        BY <3>1, <3>4, <4>1, Zenon
    <3>7. p + x \in p .. q /\ (p + x) - p = x
      BY <2>2, <2>3, <3>5
    <3> QED
      BY <2>1, <2>3, <3>6, <3>7 DEF OnLine
  <2> QED
    BY <2>1, <2>6, <2>7, <2>8
<1>7. ASSUME NEW a \in T PROVE a = <<a[1], a[2]>> /\ \E k \in 1 .. n : OnLine(a, L[k])
  <2>1. PICK k \in 1 .. n : a \in PointsOf(segs, k, N)
    BY <1>3
  <2>2. CASE a = <<L[k].v0, L[k].s>>
    BY <1>6, <2>2
  <2>3. CASE a = <<L[k].v1, L[k].e>>
    BY <1>6, <2>3
  <2>4. CASE a \in Inner(L[k].v0, L[k].v1, L[k].s, L[k].e)
    BY <1>6, <2>4
  <2>5. CASE k < n /\ a = <<L[k + 1].v0, L[k + 1].s>>
    <3>1. k + 1 \in 1 .. n
      BY <1>2, <2>5
    <3> QED
      BY <1>6, <2>5, <3>1
  <2> QED
    BY <1>5, <2>1, <2>2, <2>3, <2>4, <2>5
<1>8. ASSUME NEW k \in 1 .. n PROVE <<L[k].v0, L[k].s>> \in T /\ <<L[k].v1, L[k].e>> \in T
  <2>1. <<L[k].v0, L[k].s>> \in PointsOf(segs, k, N) /\ <<L[k].v1, L[k].e>> \in PointsOf(segs, k, N)
    BY <1>5
  <2> QED
    BY <1>3, <2>1
<1> QED
  BY <1>1, <1>7, <1>8 DEF Drawn

-----------------------------------------------------------------------------
(* What MapFaithful says, of a table.                                       *)
Faithful(T, segs, N) ==
  /\ \A a \in T, b \in T : a[1] <= b[1] => a[2] <= b[2] \/ a[1] = b[1]
  /\ \A a \in T, b \in T : a[1] = b[1] => a = b
  /\ \A k \in DOMAIN segs : \A t \in segs[k].start .. segs[k].end - 1 :
       LET v == SamplesToCs(Offset(segs, k, N)) + t - segs[k].start
       IN  CsToSamples(t) < N => OriginalTime(T, v) \in t - Back .. t + Forth

LEMMA TableFaithful ==
  ASSUME NEW segs, NEW N, Fits(segs, N)
  PROVE  Faithful(MappingTable(segs, N), segs, N)
<1>1. PICK T, L, n : T = MappingTable(segs, N) /\ L = LayOut(segs, N) /\ n = Len(segs)
  OBVIOUS
<1>2. /\ n \in Nat /\ segs \in Seq(Speech) /\ DOMAIN segs = 1 .. n
      /\ \A k \in 1 .. n : L[k] = LineOf(segs, k, N)
  BY <1>1 DEF Fits, LayOut
<1>3. Back \in Nat /\ Forth \in Nat /\ LaidOut(L, n, Back, Forth) /\ Drawn(T, L, n)
  BY <1>1, BoundsAre, LinesLaidOut, TableDrawn
<1>4. \A a \in T, b \in T : /\ a[1] <= b[1] => a[2] <= b[2]
                            /\ a[1] = b[1] => a = b
  BY <1>2, <1>3, DrawnOrder
<1>5. ASSUME NEW k \in 1 .. n, NEW t \in segs[k].start .. segs[k].end - 1, CsToSamples(t) < N
      PROVE  OriginalTime(T, SamplesToCs(Offset(segs, k, N)) + t - segs[k].start)
               \in t - Back .. t + Forth
  <2>1. PICK o, s, p, q : /\ o = Offset(segs, k, N) /\ s = segs[k].start
                          /\ p = L[k].v0 /\ q = L[k].v1
    OBVIOUS
  <2>2. o \in Nat
    BY <1>1, <2>1, AdvanceIs, OffsetIs
  <2>3. /\ LineOf(segs, k, N).v0 = SamplesToCs(Offset(segs, k, N))
        /\ LineOf(segs, k, N).s = segs[k].start
    BY Zenon DEF LineOf
  <2>4. p = SamplesToCs(o) /\ L[k].s = s
    BY <1>2, <2>1, <2>3
  <2>5. p \in Nat /\ t - s <= q - p
    <3>1. /\ LineOf(segs, k, N).v0 \in Nat
          /\ t - segs[k].start <= LineOf(segs, k, N).v1 - LineOf(segs, k, N).v0
      BY <1>1, <1>5, <2>1, <2>2, LineLaid
    <3> QED
      BY <1>2, <2>1, <3>1
  <2>6. s \in Nat /\ t \in Nat /\ s <= t
    <3>1. segs[k] \in Speech
      BY <1>2
    <3>2. segs[k].start \in Nat /\ segs[k].end \in Nat
      BY <3>1 DEF Speech
    <3> QED
      BY <2>1, <3>2
  <2>7. PICK x : x = t - s
    OBVIOUS
  <2>8. x \in Nat /\ x <= q - p /\ s + x = t /\ p + t - s = p + x
    BY <2>5, <2>6, <2>7
  <2>9. PICK m : m = OriginalTime(T, p + x)
    OBVIOUS
  <2>10. m \in Int /\ s + x - Back <= m /\ m <= s + x + Forth
    <3>1. n > 0 /\ x <= L[k].v1 - L[k].v0
      BY <1>2, <2>1, <2>8
    <3>2. /\ OriginalTime(T, L[k].v0 + x) \in Int
          /\ L[k].s + x - Back <= OriginalTime(T, L[k].v0 + x)
          /\ OriginalTime(T, L[k].v0 + x) <= L[k].s + x + Forth
      BY <1>2, <1>3, <2>8, <3>1, MappedNear
    <3> QED
      BY <2>1, <2>4, <2>9, <3>2
  <2>11. m \in t - Back .. t + Forth
    <3>1. PICK g, d : g = Back /\ d = Forth
      OBVIOUS
    <3>2. g \in Nat /\ d \in Nat
      BY <1>3, <3>1
    <3>3. t - g <= m /\ m <= t + d
      BY <2>6, <2>8, <2>10, <3>1, <3>2
    <3>4. m \in t - g .. t + d
      BY ONLY <2>6, <2>10, <3>2, <3>3
    <3> QED
      BY <3>1, <3>4
  <2>12. SamplesToCs(Offset(segs, k, N)) + t - segs[k].start = p + x
    BY <2>1, <2>4, <2>8
  <2> QED
    BY <2>9, <2>11, <2>12
<1> QED
  BY <1>1, <1>2, <1>4, <1>5 DEF Faithful

-----------------------------------------------------------------------------
(* What is kept for lasting long enough lasts as long. *)
AllLast(a, M) == \A k \in 1 .. Len(a) : a[k].end - a[k].start >= M

LEMMA KeptLast ==
  ASSUME NEW sp, Apart(sp), NEW p, NEW M \in Int, M = Ms(p.min_speech)
  PROVE  AllLast(LongEnough(sp, p), M)
<1>1. sp \in Seq(Speech) /\ Len(sp) \in Nat
  BY DEF Apart
<1>2. PICK f : /\ f[0] = <<>> /\ LongEnough(sp, p) = f[Len(sp)]
               /\ \A m \in 0 .. Len(sp) - 1 : f[m + 1] = KeepLong(f[m], sp[m + 1], p)
  BY <1>1, KeptSteps
<1> DEFINE Good == {m \in 0 .. Len(sp) : f[m] \in Seq(Speech) /\ AllLast(f[m], M)}
<1>3. 0 \in Good
  <2>1. <<>> \in Seq(Speech) /\ AllLast(<<>>, M)
    <3>1. <<>> \in Seq(Speech) /\ Len(<<>>) = 0
      OBVIOUS
    <3>2. 1 .. 0 = {}
      OBVIOUS
    <3>3. AllLast(<<>>, M)
      BY ONLY <3>1, <3>2, Zenon DEF AllLast
    <3> QED
      BY <3>1, <3>3
  <2>2. f[0] \in Seq(Speech) /\ AllLast(f[0], M)
    BY <1>2, <2>1, Zenon
  <2>3. 0 \in 0 .. Len(sp)
    BY <1>1
  <2> QED
    BY <2>2, <2>3
<1>4. ASSUME NEW m \in 0 .. Len(sp) - 1, m \in Good PROVE m + 1 \in Good
  <2>1. PICK a, x, c : a = f[m] /\ x = sp[m + 1] /\ c = f[m + 1]
    OBVIOUS
  <2>2. a \in Seq(Speech) /\ AllLast(a, M) /\ Len(a) \in Nat
    BY <1>4, <2>1
  <2>3. x \in Speech
    <3>1. m + 1 \in 1 .. Len(sp)
      BY <1>1
    <3> QED
      BY <1>1, <2>1, <3>1
  <2>4. c = IF x.end - x.start < M THEN a ELSE Append(a, x)
    BY <1>2, <2>1 DEF KeepLong
  <2>5. x.end \in Nat /\ x.start \in Nat
    BY <2>3 DEF Speech
  <2>6. c \in Seq(Speech) /\ AllLast(c, M)
    <3>1. CASE x.end - x.start < M
      BY <2>2, <2>4, <3>1
    <3>2. CASE ~(x.end - x.start < M)
      <4>1. c = Append(a, x) /\ x.end - x.start >= M
        BY <2>4, <2>5, <3>2
      <4>2. /\ c \in Seq(Speech) /\ Len(c) = Len(a) + 1 /\ c[Len(a) + 1] = x
            /\ \A k \in 1 .. Len(a) : c[k] = a[k]
        BY <2>2, <2>3, <4>1
      <4>3. ASSUME NEW k \in 1 .. Len(c) PROVE c[k].end - c[k].start >= M
        <5>1. k \in 1 .. Len(a) \/ k = Len(a) + 1
          BY <2>2, <4>2
        <5>2. CASE k \in 1 .. Len(a)
          BY <2>2, <4>2, <5>2 DEF AllLast
        <5>3. CASE k = Len(a) + 1
          BY <4>1, <4>2, <5>3
        <5> QED
          BY <5>1, <5>2, <5>3
      <4> QED
        BY <4>2, <4>3 DEF AllLast
    <3> QED
      BY <3>1, <3>2
  <2>7. m + 1 \in 0 .. Len(sp)
    BY <1>1
  <2> QED
    BY <2>1, <2>6, <2>7
<1>5. Len(sp) \in Good
  <2> HIDE DEF Good
  <2>1. \A m \in 0 .. Len(sp) : m \in Good
    BY <1>1, <1>3, <1>4, UpTo
  <2> QED
    BY <1>1, <2>1
<1> QED
  BY <1>2, <1>5

LEMMA WindowsCover ==
  ASSUME NEW N \in Nat
  PROVE  NProbs(N) * n_window <= N + n_window - 1
<1>1. n_window \in Nat \ {0}
  BY WindowAssumption
<1>2. PICK z, q : z = N + n_window - 1 /\ q = z \div n_window
  OBVIOUS
<1>3. z \in Int /\ q \in Int /\ n_window * q <= z
  <2>1. z \in Int
    BY <1>1, <1>2
  <2> QED
    BY <1>1, <1>2, <2>1, Division
<1>4. NProbs(N) = q
  BY <1>2 DEF NProbs
<1>5. q * n_window = n_window * q
  BY <1>1, <1>3
<1> QED
  BY <1>2, <1>3, <1>4, <1>5

LEMMA SegmentsFit ==
  ASSUME NEW s, NEW length \in Nat, ScanOK(s, length), NEW N \in Nat,
         length <= N + n_window - 1,
         NEW p, p.speech_pad \in Nat, NEW M \in Nat, M = Ms(p.min_speech),
         n_window + 3 * (Cs \div 2) <= M
  PROVE  Fits(Segments(s, length, p), N)
<1>1. PICK t, m, l, r : /\ t = WithTail(s, length, p) /\ m = Merged(t)
                        /\ l = LongEnough(m, p) /\ r = Padded(l, length, p)
  OBVIOUS
<1>2. Apart(t) /\ EndsBy(t, length)
  BY <1>1, TailOK
<1>3. Apart(m) /\ EndsBy(m, length)
  BY <1>1, <1>2, MergedOK
<1>4. Apart(l) /\ EndsBy(l, length)
  BY <1>1, <1>3, LongEnoughOK
<1>5. AllLast(l, M)
  BY <1>1, <1>3, KeptLast
<1>6. Segments(s, length, p) = r
  BY <1>1 DEF Segments
<1>7. l \in Seq(Speech) /\ Len(l) \in Nat /\ DOMAIN l = 1 .. Len(l)
  BY <1>4 DEF Apart
<1>8. n_window \in Nat /\ n_window + 240 <= M
  BY WindowAssumption DEF Cs
<1>9. /\ DOMAIN r = 1 .. Len(l)
      /\ \A k \in 1 .. Len(l) : r[k] = [start |-> SamplesToCs(PadStart(l, k, p)),
                                        end |-> SamplesToCs(PadEnd(l, k, length, p))]
  BY <1>1, <1>7 DEF Padded
<1>10. ASSUME NEW k \in 1 .. Len(l)
       PROVE  /\ r[k] \in Speech /\ r[k].start < r[k].end
              /\ CsToSamples(r[k].start) + Cs + 1 <= N
              /\ CsToSamples(r[k].end) <= N + n_window + 79
  <2>1. PICK a, b, x, y : /\ a = PadStart(l, k, p) /\ b = PadEnd(l, k, length, p)
                          /\ x = SamplesToCs(a) /\ y = SamplesToCs(b)
    OBVIOUS
  <2>2. a \in Nat /\ b \in Nat /\ a <= l[k].start /\ l[k].end <= b /\ b <= length
    BY <1>4, <2>1, PadStartOK, PadEndOK
  <2>3. l[k].start \in Nat /\ l[k].end \in Nat /\ l[k].end - l[k].start >= M
    <3>1. l[k] \in Speech
      BY <1>7
    <3> QED
      BY <1>5, <3>1 DEF Speech, AllLast
  <2>4. a + M <= b
    <3>1. PICK x0, y0 : x0 = l[k].start /\ y0 = l[k].end
      OBVIOUS
    <3>2. /\ a \in Nat /\ b \in Nat /\ x0 \in Nat /\ y0 \in Nat /\ M \in Nat
          /\ a <= x0 /\ y0 <= b /\ y0 - x0 >= M
      BY <2>2, <2>3, <3>1
    <3> QED
      BY ONLY <3>2
  <2>5. a + Cs <= b
    BY <1>8, <2>2, <2>4 DEF Cs
  <2>6. x \in Nat /\ y \in Nat /\ x < y
    BY <2>1, <2>2, <2>5, Rounded
  <2>7. 160 * x <= a + 80 /\ 160 * y <= b + 80
    <3>1. x = (a + 80) \div 160 /\ y = (b + 80) \div 160
      BY <2>1 DEF SamplesToCs, Cs
    <3> QED
      BY ONLY <2>2, <3>1
  <2>8. 160 * x + 161 <= N /\ 160 * y <= N + n_window + 79
    BY <1>8, <2>2, <2>4, <2>6, <2>7
  <2>9. r[k] = [start |-> x, end |-> y]
    BY <1>9, <2>1
  <2>10. r[k] \in Speech /\ r[k].start = x /\ r[k].end = y
    BY <2>6, <2>9 DEF Speech
  <2> QED
    BY <2>6, <2>8, <2>10 DEF CsToSamples, Cs
<1>11. r \in Seq(Speech) /\ Len(r) = Len(l)
  <2>1. r = [k \in 1 .. Len(l) |-> r[k]]
    BY <1>1, <1>7 DEF Padded
  <2> QED
    BY <1>7, <1>10, <2>1
<1>12. ASSUME NEW k \in 1 .. Len(l) - 1 PROVE r[k].end <= r[k + 1].start
  <2>1. k \in 1 .. Len(l) /\ k + 1 \in 1 .. Len(l)
    BY <1>7
  <2>2. PICK a, b : a = PadEnd(l, k, length, p) /\ b = PadStart(l, k + 1, p)
    OBVIOUS
  <2>3. a \in Nat /\ b \in Nat /\ a <= b
    BY <1>4, <2>1, <2>2, PadStartOK, PadEndOK, PadApart
  <2>4. SamplesToCs(a) <= SamplesToCs(b)
    BY <2>3, Rounded
  <2>5. r[k].end = SamplesToCs(a) /\ r[k + 1].start = SamplesToCs(b)
    BY <1>9, <2>1, <2>2
  <2> QED
    BY <2>4, <2>5
<1> QED
  BY <1>6, <1>10, <1>11, <1>12 DEF Fits

-----------------------------------------------------------------------------
(* The least duration of speech is a window and one and a half centiseconds *)
(* or more.  Every segment then has a centisecond of audio, even the last,  *)
(* whose last window the audio may not fill; a shorter one could begin and  *)
(* end at the same centisecond of the audio that is transcribed.            *)
SpeechOutlastsWindow ==
  \A p \in CallParams : p.vad => n_window + 3 * (Cs \div 2) <= Ms(p.min_speech)

(* What holds between the steps.  A call without VAD has no table.          *)
MapKnown ==
  /\ params \in CallParams /\ i \in Nat
  /\ stage = "scan" => params.vad /\ ScanOK(scan, i * n_window)
  /\ MapFaithful

LEMMA InitMap == Init => MapKnown
<1> SUFFICES ASSUME Init PROVE MapKnown
  OBVIOUS
<1>1. SpeechTold
  BY InitTold
<1>2. table = {}
  BY DEF Init
<1>3. MapFaithful
  BY <1>2 DEF MapFaithful
<1> QED
  BY <1>1, <1>3 DEF SpeechTold, MapKnown

LEMMA NextMap ==
  ASSUME SpeechOutlastsWindow
  PROVE  MapKnown /\ [Next]_vars => MapKnown'
<1> SUFFICES ASSUME MapKnown, [Next]_vars PROVE MapKnown'
  OBVIOUS
<1>0. params \in CallParams /\ i \in Nat /\ n_window \in Nat /\ i * n_window \in Nat
  BY WindowAssumption DEF MapKnown
<1>1. ASSUME UNCHANGED <<params, i>>, stage' = "done" PROVE MapKnown'
  BY <1>0, <1>1 DEF MapKnown, MapFaithful
<1>2. ASSUME UNCHANGED <<params, stage, i, scan, segments, table>> PROVE MapKnown'
  BY <1>2 DEF MapKnown, MapFaithful, Starts, Ends
<1>3. CASE ScanWindow
  <2>1. PICK level \in Levels : scan' = Window(scan, level, i * n_window, params)
    BY <1>3 DEF ScanWindow
  <2>2. stage = "scan" /\ stage' = stage /\ i' = i + 1 /\ params' = params
    BY <1>3 DEF ScanWindow
  <2>3. params.vad /\ ScanOK(scan, i * n_window)
    BY <2>2 DEF MapKnown
  <2>4. ScanOK(scan', i * n_window + n_window)
    BY <1>0, <2>1, <2>3, WindowOK
  <2>5. i * n_window + n_window = (i + 1) * n_window
    BY <1>0
  <2>6. ScanOK(scan', i' * n_window)
    BY <2>2, <2>4, <2>5
  <2>7. MapFaithful'
    BY <2>2 DEF MapFaithful
  <2> QED
    BY <1>0, <2>2, <2>3, <2>6, <2>7 DEF MapKnown
<1>4. CASE EndOfScan
  <2>1. /\ stage = "scan" /\ i = NProbs(params.n_samples) /\ params' = params /\ i' = i
        /\ segments' = Segments(scan, i * n_window, params)
        /\ \/ stage' = "done"
           \/ stage' = "work" /\ table' = MappingTable(segments', params.n_samples)
    BY <1>4 DEF EndOfScan
  <2>2. CASE stage' = "done"
    BY <1>1, <2>1, <2>2
  <2>3. CASE stage' = "work" /\ table' = MappingTable(segments', params.n_samples)
    <3>1. params.vad /\ ScanOK(scan, i * n_window)
      BY <2>1 DEF MapKnown
    <3>2. PICK N, M : N = params.n_samples /\ M = Ms(params.min_speech)
      OBVIOUS
    <3>3. params.speech_pad \in Nat /\ params.min_speech \in Nat /\ N \in Nat
      BY <1>0, <3>1, <3>2, CallAssumption
    <3>4. M \in Nat /\ n_window + 3 * (Cs \div 2) <= M
      BY <1>0, <3>1, <3>2, <3>3 DEF SpeechOutlastsWindow, Ms
    <3>5. i * n_window <= N + n_window - 1
      BY <2>1, <3>2, <3>3, WindowsCover
    <3>6. Fits(Segments(scan, i * n_window, params), N)
      BY <1>0, <3>1, <3>2, <3>3, <3>4, <3>5, SegmentsFit
    <3>7. Faithful(table', segments', params'.n_samples)
      BY <2>1, <2>3, <3>2, <3>6, TableFaithful
    <3>8. MapFaithful'
      BY <3>7 DEF Faithful, MapFaithful, Back, Forth, Starts, Ends
    <3> QED
      BY <1>0, <2>1, <2>3, <3>8 DEF MapKnown
  <2> QED
    BY <2>1, <2>2, <2>3
<1>5. CASE VadFails
  BY <1>1, <1>5 DEF VadFails, scanVars
<1>6. ASSUME NEW c \in Chunks, ChunkEnds(c) PROVE MapKnown'
  <2>1. /\ stage = "work" /\ UNCHANGED <<params, i, scan, segments, table>>
        /\ stage' = stage \/ stage' = "combine"
    BY <1>6 DEF ChunkEnds, scanVars
  <2>2. CASE stage' = "combine"
    BY <1>0, <2>1, <2>2 DEF MapKnown, MapFaithful
  <2> QED
    BY <1>2, <2>1, <2>2
<1>7. CASE Combine
  BY <1>1, <1>7 DEF Combine, scanVars
<1>8. CASE UNCHANGED vars
  BY <1>2, <1>8 DEF vars, scanVars
<1> QED
  BY <1>3, <1>4, <1>5, <1>6, <1>7, <1>8 DEF Next, Done

(* The points of the mapping table never go back in either time, no two     *)
(* share the processed time, and a moment of speech is mapped back to       *)
(* itself (whisper_vad, map_processed_to_original_time) but for the overlap *)
(* on one side and, on the other, what is missing of the last window.  It   *)
(* holds for every sequence of probabilities, every length of the audio and *)
(* every vad_params whose least duration is longer than a window.           *)
THEOREM TimesMapBack == SpeechOutlastsWindow => (Spec => []MapFaithful)
<1> SUFFICES ASSUME SpeechOutlastsWindow PROVE Spec => []MapFaithful
  OBVIOUS
<1>1. Init => MapKnown
  BY InitMap
<1>2. MapKnown /\ [Next]_vars => MapKnown'
  BY NextMap
<1>3. MapKnown => MapFaithful
  BY DEF MapKnown
<1> QED
  BY <1>1, <1>2, <1>3, PTL DEF Spec

-----------------------------------------------------------------------------
(* The points of a table in order: none goes back, none shares the first    *)
(* time with another.                                                       *)
Ordered(T) ==
  /\ T # {} /\ \A a \in T : a[1] \in Int /\ a[2] \in Int
  /\ \E lo \in Int, hi \in Int : \A a \in T : lo <= a[1] /\ a[1] <= hi
  /\ \A a \in T : \A b \in T : (a[1] <= b[1] => a[2] <= b[2]) /\ (a[1] = b[1] => a = b)

(* The points next to a time.                                               *)
Between(T, v, l, u) ==
  /\ l \in T /\ u \in T /\ l[1] < v /\ v <= u[1]
  /\ \A b \in T : b[1] <= l[1] \/ u[1] <= b[1]

(* The three ways map_processed_to_original_time takes.                     *)
LEMMA OriginalIs ==
  ASSUME NEW T, Ordered(T), NEW v \in Int
  PROVE  \/ (\A a \in T : v <= a[1]) /\ OriginalTime(T, v) = First(T)[2]
         \/ /\ \E a \in T : a[1] < v
            /\ \A a \in T : a[1] <= v
            /\ OriginalTime(T, v) = Latest(T)[2]
         \/ \E l \in T, u \in T :
              /\ Between(T, v, l, u)
              /\ OriginalTime(T, v) = l[2] + Line(v - l[1], u[2] - l[2], u[1] - l[1])
<1>1. \A a \in T : a[1] \in Int /\ a[2] \in Int
  BY DEF Ordered
<1>2. CASE \A a \in T : v <= a[1]
  BY <1>2 DEF OriginalTime
<1>3. CASE (\E a \in T : ~(v <= a[1])) /\ \A a \in T : a[1] <= v
  <2>1. OriginalTime(T, v) = Latest(T)[2]
    BY <1>3 DEF OriginalTime
  <2>2. \E a \in T : a[1] < v
    BY <1>1, <1>3
  <2> QED
    BY <1>3, <2>1, <2>2
<1>4. CASE (\E a \in T : ~(v <= a[1])) /\ \E a \in T : ~(a[1] <= v)
  <2> DEFINE below == {a \in T : a[1] < v}
             above == {a \in T : a[1] >= v}
  <2>1. PICK lo \in Int, hi \in Int : \A a \in T : lo <= a[1] /\ a[1] <= hi
    BY DEF Ordered
  <2>2. PICK l, u : l = Latest(below) /\ u = First(above)
    OBVIOUS
  <2>3. OriginalTime(T, v) =
          IF u[1] = v THEN u[2]
          ELSE l[2] + ((v - l[1]) * (u[2] - l[2])) \div (u[1] - l[1])
    BY <1>4, <2>2 DEF OriginalTime
  <2>4. l \in T /\ l[1] < v /\ \A b \in T : b[1] < v => b[1] <= l[1]
    <3>1. below # {}
      BY <1>1, <1>4
    <3>2. \A a \in below : a[1] \in Int /\ lo <= a[1] /\ a[1] <= hi
      BY <1>1, <2>1
    <3>3. l \in below /\ \A b \in below : b[1] <= l[1]
      BY <2>2, <3>1, <3>2, Extremes
    <3> QED
      BY <3>3
  <2>5. u \in T /\ u[1] >= v /\ \A b \in T : b[1] >= v => u[1] <= b[1]
    <3>1. above # {}
      BY <1>1, <1>4
    <3>2. \A a \in above : a[1] \in Int /\ lo <= a[1] /\ a[1] <= hi
      BY <1>1, <2>1
    <3>3. u \in above /\ \A b \in above : u[1] <= b[1]
      BY <2>2, <3>1, <3>2, Extremes
    <3> QED
      BY <3>3
  <2> HIDE DEF below, above
  <2>6. Between(T, v, l, u)
    <3>1. \A b \in T : b[1] < v \/ b[1] >= v
      BY <1>1
    <3>2. v <= u[1]
      BY <1>1, <2>5
    <3> QED
      BY <2>4, <2>5, <3>1, <3>2 DEF Between
  <2>7. OriginalTime(T, v) = l[2] + Line(v - l[1], u[2] - l[2], u[1] - l[1])
    <3>1. CASE u[1] # v
      BY <2>3, <3>1 DEF Line
    <3>2. CASE u[1] = v
      <4>1. PICK x, h : x = u[1] - l[1] /\ h = u[2] - l[2]
        OBVIOUS
      <4>2. /\ l[1] \in Int /\ l[2] \in Int /\ u[1] \in Int /\ u[2] \in Int /\ l[1] < u[1]
            /\ l[2] <= u[2]
        <5>1. /\ l[1] \in Int /\ l[2] \in Int /\ u[1] \in Int /\ u[2] \in Int /\ l[1] < u[1]
          BY <1>1, <2>4, <2>5, <3>2
        <5>2. l[1] <= u[1] => l[2] <= u[2]
          BY <2>4, <2>5 DEF Ordered
        <5> QED
          BY <5>1, <5>2
      <4>3. x \in Nat \ {0} /\ h \in Nat /\ l[2] + h = u[2] /\ v - l[1] = x
        BY <3>2, <4>1, <4>2
      <4>4. Line(x, h, x) = h
        BY <4>3, LineIs
      <4> QED
        BY <2>3, <3>2, <4>1, <4>3, <4>4
    <3> QED
      BY <3>1, <3>2
  <2> QED
    BY <2>4, <2>5, <2>6, <2>7
<1> QED
  BY <1>2, <1>3, <1>4

(* Between two points the times stay between theirs, and in order.          *)
LEMMA BetweenOrder ==
  ASSUME NEW T, Ordered(T), NEW l, NEW u, NEW v \in Int, Between(T, v, l, u)
  PROVE  /\ l[2] + Line(v - l[1], u[2] - l[2], u[1] - l[1]) \in Int
         /\ l[2] <= l[2] + Line(v - l[1], u[2] - l[2], u[1] - l[1])
         /\ l[2] + Line(v - l[1], u[2] - l[2], u[1] - l[1]) <= u[2]
         /\ \A w \in Int : v <= w /\ w <= u[1] =>
              l[2] + Line(v - l[1], u[2] - l[2], u[1] - l[1])
                <= l[2] + Line(w - l[1], u[2] - l[2], u[1] - l[1])
<1>1. PICK a, b, x : a = u[2] - l[2] /\ b = u[1] - l[1] /\ x = v - l[1]
  OBVIOUS
<1>2. /\ l[1] \in Int /\ l[2] \in Int /\ u[1] \in Int /\ u[2] \in Int
      /\ l[1] < v /\ v <= u[1]
  BY DEF Between, Ordered
<1>3. l[2] <= u[2]
  <2>1. l[1] <= u[1]
    BY <1>2
  <2> QED
    BY <2>1 DEF Between, Ordered
<1>4. a \in Nat /\ b \in Nat \ {0} /\ x \in 0 .. b /\ l[2] + a = u[2]
  BY <1>1, <1>2, <1>3
<1>5. Line(x, a, b) \in 0 .. a
  BY <1>4, LineIs
<1>6. ASSUME NEW w \in Int, v <= w, w <= u[1] PROVE Line(x, a, b) <= Line(w - l[1], a, b)
                                                  /\ Line(w - l[1], a, b) \in Int
  <2>1. PICK y : y = w - l[1]
    OBVIOUS
  <2>2. y \in 0 .. b /\ x <= y
    BY <1>1, <1>2, <1>6, <2>1
  <2>3. Line(x, a, b) <= Line(y, a, b) /\ Line(y, a, b) \in 0 .. a
    BY <1>4, <2>2, LineIs
  <2>4. Line(y, a, b) \in Int
    BY <1>4, <2>3
  <2> QED
    BY <2>1, <2>3, <2>4
<1>7. PICK p, z : p = l[2] /\ z = Line(x, a, b)
  OBVIOUS
<1>8. p \in Int /\ z \in Int /\ 0 <= z /\ z <= a /\ p + a = u[2] /\ a \in Nat
  BY <1>2, <1>4, <1>5, <1>7
<1>9. ASSUME NEW w \in Int, v <= w, w <= u[1] PROVE p + z <= p + Line(w - l[1], a, b)
  <2>1. PICK q : q = Line(w - l[1], a, b)
    OBVIOUS
  <2>2. q \in Int /\ z <= q
    BY <1>6, <1>7, <1>9, <2>1
  <2> QED
    BY <1>8, <2>1, <2>2
<1> QED
  BY <1>1, <1>7, <1>8, <1>9

(* The first and the last point of a table in order.                        *)
LEMMA OrderedEnds ==
  ASSUME NEW T, Ordered(T)
  PROVE  /\ First(T) \in T /\ \A b \in T : First(T)[1] <= b[1]
         /\ Latest(T) \in T /\ \A b \in T : b[1] <= Latest(T)[1]
<1>1. PICK lo \in Int, hi \in Int : \A a \in T : lo <= a[1] /\ a[1] <= hi
  BY DEF Ordered
<1>2. T # {} /\ \A a \in T : a[1] \in Int
  BY DEF Ordered
<1> QED
  BY ONLY <1>1, <1>2, Extremes

(* A time is mapped to one between those of the first and the last point.   *)
LEMMA OriginalRange ==
  ASSUME NEW T, Ordered(T), NEW v \in Int
  PROVE  /\ First(T)[2] \in Int /\ Latest(T)[2] \in Int /\ OriginalTime(T, v) \in Int
         /\ First(T)[2] <= OriginalTime(T, v) /\ OriginalTime(T, v) <= Latest(T)[2]
<1>1. /\ \A a \in T : a[1] \in Int /\ a[2] \in Int
      /\ \A a \in T : \A b \in T : a[1] <= b[1] => a[2] <= b[2]
  BY DEF Ordered
<1>2. /\ First(T) \in T /\ \A b \in T : First(T)[1] <= b[1]
      /\ Latest(T) \in T /\ \A b \in T : b[1] <= Latest(T)[1]
  BY OrderedEnds
<1>3. PICK x, f, h : x = OriginalTime(T, v) /\ f = First(T)[2] /\ h = Latest(T)[2]
  OBVIOUS
<1>4. f \in Int /\ h \in Int
  BY <1>1, <1>2, <1>3
<1>5. ASSUME NEW b \in T PROVE f <= b[2] /\ b[2] <= h
  BY <1>1, <1>2, <1>3
<1>6. f <= h
  BY <1>2, <1>3, <1>5
<1>7. CASE x = f \/ x = h
  BY <1>3, <1>4, <1>6, <1>7
<1>8. CASE \E l \in T, u \in T :
             /\ Between(T, v, l, u)
             /\ x = l[2] + Line(v - l[1], u[2] - l[2], u[1] - l[1])
  <2>1. PICK l \in T, u \in T :
          /\ Between(T, v, l, u)
          /\ x = l[2] + Line(v - l[1], u[2] - l[2], u[1] - l[1])
    BY <1>8
  <2>2. x \in Int /\ l[2] <= x /\ x <= u[2]
    BY <2>1, BetweenOrder
  <2>3. l[2] \in Int /\ u[2] \in Int /\ f <= l[2] /\ u[2] <= h
    BY <1>1, <1>5
  <2> QED
    BY <1>3, <1>4, <2>2, <2>3
<1> QED
  BY <1>3, <1>7, <1>8, OriginalIs

(* The map never goes back.                                                 *)
LEMMA OriginalOrder ==
  ASSUME NEW T, Ordered(T), NEW v \in Int, NEW w \in Int, v <= w
  PROVE  /\ OriginalTime(T, v) \in Int /\ OriginalTime(T, w) \in Int
         /\ OriginalTime(T, v) <= OriginalTime(T, w)
<1>1. /\ \A a \in T : a[1] \in Int /\ a[2] \in Int
      /\ \A a \in T : \A b \in T : (a[1] <= b[1] => a[2] <= b[2]) /\ (a[1] = b[1] => a = b)
  BY DEF Ordered
<1>2. /\ First(T) \in T /\ \A b \in T : First(T)[1] <= b[1]
      /\ Latest(T) \in T /\ \A b \in T : b[1] <= Latest(T)[1]
  BY OrderedEnds
<1>3. PICK x, y, f, h : /\ x = OriginalTime(T, v) /\ y = OriginalTime(T, w)
                        /\ f = First(T)[2] /\ h = Latest(T)[2]
  OBVIOUS
<1>4. f \in Int /\ h \in Int /\ \A b \in T : f <= b[2] /\ b[2] <= h
  BY <1>1, <1>2, <1>3
<1>5. \/ (\A a \in T : v <= a[1]) /\ x = f
      \/ (\E a \in T : a[1] < v) /\ (\A a \in T : a[1] <= v) /\ x = h
      \/ \E l \in T, u \in T : /\ Between(T, v, l, u)
                               /\ x = l[2] + Line(v - l[1], u[2] - l[2], u[1] - l[1])
  BY <1>3, OriginalIs
<1>6. \/ (\A a \in T : w <= a[1]) /\ y = f
      \/ (\E a \in T : a[1] < w) /\ (\A a \in T : a[1] <= w) /\ y = h
      \/ \E l \in T, u \in T : /\ Between(T, w, l, u)
                               /\ y = l[2] + Line(w - l[1], u[2] - l[2], u[1] - l[1])
  BY <1>3, OriginalIs
<1>7. x \in Int /\ f <= x /\ x <= h
  BY <1>3, OriginalRange
<1>8. y \in Int /\ f <= y /\ y <= h
  BY <1>3, OriginalRange
<1>9. CASE x = f \/ y = h
  BY <1>3, <1>7, <1>8, <1>9
<1>10. CASE (\E a \in T : a[1] < v) /\ (\A a \in T : a[1] <= v) /\ x = h
  <2>1. \A a \in T : a[1] <= w
    BY <1>1, <1>10
  <2>2. \E a \in T : a[1] < w
    BY <1>1, <1>10
  <2>3. y = h
    <3>1. ~(\A a \in T : w <= a[1])
      BY <1>1, <2>2
    <3>2. ~(\E l \in T, u \in T : Between(T, w, l, u)
                                   /\ y = l[2] + Line(w - l[1], u[2] - l[2], u[1] - l[1]))
          \/ y = h
      <4> SUFFICES ASSUME NEW l \in T, NEW u \in T, Between(T, w, l, u),
                          y = l[2] + Line(w - l[1], u[2] - l[2], u[1] - l[1])
          PROVE  y = h
        OBVIOUS
      <4>1. u[1] <= w /\ w <= u[1] /\ u[1] \in Int
        BY <1>1, <2>1 DEF Between
      <4>2. Latest(T)[1] <= w /\ u[1] <= Latest(T)[1] /\ Latest(T)[1] \in Int
        BY <1>1, <1>2, <2>1
      <4>3. u = Latest(T)
        BY <1>1, <1>2, <4>1, <4>2
      <4>4. l[2] <= u[2] /\ l[1] < w /\ l[1] \in Int /\ l[2] \in Int /\ u[2] \in Int
        <5>1. l[1] < w /\ l[1] \in Int /\ l[2] \in Int /\ u[2] \in Int
          BY <1>1 DEF Between
        <5>2. l[1] <= u[1]
          BY <4>1, <5>1
        <5> QED
          BY <1>1, <5>1, <5>2
      <4>5. PICK a, b : a = u[2] - l[2] /\ b = u[1] - l[1]
        OBVIOUS
      <4>6. a \in Nat /\ b \in Nat \ {0} /\ w - l[1] = b /\ l[2] + a = u[2]
        BY <4>1, <4>4, <4>5
      <4>7. Line(b, a, b) = a
        BY <4>6, LineIs
      <4> QED
        BY <1>3, <4>3, <4>5, <4>6, <4>7
    <3> QED
      BY <1>6, <3>1, <3>2
  <2> QED
    BY <1>9, <2>3
<1>11. ASSUME NEW l \in T, NEW u \in T, Between(T, v, l, u),
              x = l[2] + Line(v - l[1], u[2] - l[2], u[1] - l[1]),
              NEW k \in T, NEW r \in T, Between(T, w, k, r),
              y = k[2] + Line(w - k[1], r[2] - k[2], r[1] - k[1])
       PROVE  x <= y
  <2>1. /\ l[1] \in Int /\ u[1] \in Int /\ k[1] \in Int /\ r[1] \in Int
        /\ l[2] \in Int /\ u[2] \in Int /\ k[2] \in Int /\ r[2] \in Int
    BY <1>1
  <2>2. /\ l[1] < v /\ v <= u[1] /\ k[1] < w /\ w <= r[1]
        /\ \A b \in T : b[1] <= l[1] \/ u[1] <= b[1]
        /\ \A b \in T : b[1] <= k[1] \/ r[1] <= b[1]
    BY <1>11 DEF Between
  <2>3. l[1] <= k[1]
    <3>1. l[1] <= k[1] \/ r[1] <= l[1]
      BY <2>2
    <3> QED
      BY <2>1, <2>2, <3>1
  <2>4. CASE u[1] <= k[1]
    <3>1. x <= u[2] /\ k[2] <= y
      BY <1>11, BetweenOrder
    <3>2. u[2] <= k[2]
      BY <1>1, <2>4
    <3> QED
      BY <1>7, <1>8, <2>1, <3>1, <3>2
  <2>5. CASE k[1] <= l[1]
    <3>1. k = l
      BY <1>1, <2>1, <2>3, <2>5
    <3>2. u[1] <= r[1]
      <4>1. r[1] <= l[1] \/ u[1] <= r[1]
        BY <2>2
      <4> QED
        BY <2>1, <2>2, <4>1
    <3>3. r[1] <= u[1]
      <4>1. u[1] <= k[1] \/ r[1] <= u[1]
        BY <2>2
      <4> QED
        BY <2>1, <2>2, <3>1, <4>1
    <3>4. r = u
      BY <1>1, <2>1, <3>2, <3>3
    <3>5. y = l[2] + Line(w - l[1], u[2] - l[2], u[1] - l[1]) /\ w <= u[1]
      BY <1>11, <2>2, <3>1, <3>4
    <3> QED
      BY <1>11, <3>5, BetweenOrder
  <2> QED
    BY <2>2, <2>4, <2>5
<1>12. x <= y
  <2>1. CASE \A a \in T : w <= a[1]
    <3>1. \A a \in T : v <= a[1]
      BY <1>1, <2>1
    <3>2. x = f
      <4>1. ~(\E a \in T : a[1] < v)
        BY <1>1, <3>1
      <4>2. ~(\E l \in T, u \in T : Between(T, v, l, u))
        BY <1>1, <4>1 DEF Between
      <4> QED
        BY <1>5, <4>1, <4>2
    <3> QED
      BY <1>9, <3>2, <1>8
  <2>2. CASE x = f \/ y = h
    BY <1>7, <1>8, <2>2
  <2>3. CASE (\E a \in T : a[1] < v) /\ (\A a \in T : a[1] <= v) /\ x = h
    BY <1>3, <1>10, <2>3
  <2> QED
    BY <1>5, <1>6, <1>11, <2>1, <2>2, <2>3
<1> QED
  BY <1>3, <1>7, <1>8, <1>12

-----------------------------------------------------------------------------
(* The mapping table of segments that fit is in order.                      *)
LEMMA TableOrdered ==
  ASSUME NEW segs, NEW N, Fits(segs, N), MappingTable(segs, N) # {}
  PROVE  Ordered(MappingTable(segs, N))
<1>1. PICK T, L, n : T = MappingTable(segs, N) /\ L = LayOut(segs, N) /\ n = Len(segs)
  OBVIOUS
<1>2. /\ Back \in Nat /\ Forth \in Nat /\ LaidOut(L, n, Back, Forth) /\ Drawn(T, L, n)
      /\ n \in Nat
  BY <1>1, BoundsAre, LinesLaidOut, TableDrawn DEF Fits
<1>3. \A a \in T : \A b \in T : (a[1] <= b[1] => a[2] <= b[2]) /\ (a[1] = b[1] => a = b)
  BY <1>2, DrawnOrder
<1>4. \A a \in T : a[1] \in Int /\ a[2] \in Int
  <2> SUFFICES ASSUME NEW a \in T PROVE a[1] \in Int /\ a[2] \in Int
    OBVIOUS
  <2>1. PICK k \in 1 .. n : OnLine(a, L[k])
    BY <1>2 DEF Drawn
  <2>2. L[k] \in Lines /\ Laid(L[k], Back, Forth)
    BY <1>2 DEF LaidOut
  <2> QED
    BY <1>2, <2>1, <2>2, OnLineIs
<1>5. n > 0
  <2>1. PICK a \in T : TRUE
    BY <1>1
  <2>2. \E k \in 1 .. n : OnLine(a, L[k])
    BY <1>2 DEF Drawn
  <2> QED
    BY <1>2, <2>2
<1>6. \E lo \in Int, hi \in Int : \A a \in T : lo <= a[1] /\ a[1] <= hi
  <2>1. /\ L[1].v0 \in Int /\ L[n].v1 \in Int
        /\ \A a \in T : a[1] \in Int /\ L[1].v0 <= a[1] /\ a[1] <= L[n].v1
    BY <1>2, <1>5, DrawnBounds
  <2> QED
    BY ONLY <2>1
<1> QED
  BY <1>1, <1>3, <1>4, <1>6 DEF Ordered

(* What is copied of a segment that fits is its length, and there is some.  *)
LEMMA CopiedIs ==
  ASSUME NEW segs, NEW N, Fits(segs, N), NEW k \in 1 .. Len(segs)
  PROVE  /\ CopyEnd(segs, k, N) \in Int /\ CsToSamples(segs[k].start) \in Int
         /\ CopyEnd(segs, k, N) - CsToSamples(segs[k].start) \in Nat
<1>1. PICK s, e, m, c : /\ s = segs[k].start /\ e = segs[k].end
                        /\ m = Length(segs, k, N) /\ c = CopyEnd(segs, k, N)
  OBVIOUS
<1>2. s \in Nat /\ e \in Nat /\ m \in Nat /\ Cs <= m
  BY <1>1, LengthIs
<1>3. N \in Nat /\ CsToSamples(s) + Cs + 1 <= N
  BY <1>1 DEF Fits
<1>4. PICK x, y, z : /\ x = CsToSamples(s) /\ y = N - 1
                     /\ z = CsToSamples(e) + IF k < Len(segs) THEN samples_overlap ELSE 0
  OBVIOUS
<1>5. x \in Int /\ y \in Int /\ z \in Int /\ x <= y
  BY <1>2, <1>3, <1>4, OverlapAssumption DEF CsToSamples, Cs
<1>6. CopyStart(segs, k, N) = x
  <2>1. CopyStart(segs, k, N) = Min({x, y})
    BY <1>1, <1>4 DEF CopyStart
  <2>2. Min({x, y}) = x
    BY <1>5, TwoOf
  <2> QED
    BY <2>1, <2>2
<1>7. c \in Int
  <2>1. c = Min({z, y})
    BY <1>1, <1>4 DEF CopyEnd
  <2>2. Min({z, y}) = IF z <= y THEN z ELSE y
    BY <1>5, TwoOf
  <2> QED
    BY <1>5, <2>1, <2>2
<1>8. m = IF c - x >= 0 THEN c - x ELSE 0
  <2>1. m = Max({c - x, 0})
    BY <1>1, <1>6 DEF Length
  <2>2. PICK d : d = c - x
    OBVIOUS
  <2>3. d \in Int /\ 0 \in Int
    BY <1>5, <1>7, <2>2
  <2>4. Max({d, 0}) = IF d >= 0 THEN d ELSE 0
    BY <2>3, TwoOf
  <2> QED
    BY ONLY <2>1, <2>2, <2>4
<1>9. c - x \in Nat
  BY <1>2, <1>5, <1>7, <1>8 DEF Cs
<1> QED
  BY <1>1, <1>4, <1>5, <1>7, <1>9

(* The audio that is transcribed has a length.                              *)
LEMMA FilteredIs ==
  ASSUME NEW segs, NEW N, Fits(segs, N)
  PROVE  FilteredSamples(segs, N) \in Nat
<1> DEFINE n == Len(segs)
           w == [j \in 1 .. n |-> CopyEnd(segs, j, N) - CsToSamples(segs[j].start)]
           b == Max({Len(segs) - 1, 0}) * silence_samples
           F == [x \in Nat \X (1 .. n) |-> x[1] + w[x[2]]]
           For(g, q) == g = [S \in SUBSET DOMAIN q |->
                              IF S = {} THEN b
                              ELSE g[S \ {Max(S)}] + CopyEnd(segs, q[Max(S)], N)
                                     - CsToSamples(segs[q[Max(S)]].start)]
           Eq(g) == For(g, [j \in DOMAIN segs |-> j])
<1>0. n \in Nat /\ DOMAIN segs = 1 .. n
  BY DEF Fits
<1>1. w \in [1 .. n -> Nat]
  BY CopiedIs
<1>2. b \in Nat
  <2>1. PICK d : d = n - 1
    OBVIOUS
  <2>2. d \in Int /\ 0 \in Int
    BY <1>0, <2>1
  <2>3. Max({d, 0}) = IF d >= 0 THEN d ELSE 0
    BY <2>2, TwoOf
  <2>4. Max({d, 0}) \in Nat /\ silence_samples \in Nat
    BY <2>2, <2>3 DEF silence_samples, Ms
  <2> QED
    BY <2>1, <2>4
<1>3. PICK sp : sp = [j \in DOMAIN segs |-> j]
  OBVIOUS
<1>4. /\ sp \in Seq(1 .. n) /\ DOMAIN sp = 1 .. n /\ Len(sp) = n
      /\ \A j \in 1 .. n : sp[j] = j
  BY <1>0, <1>3
<1>5. F \in [Nat \X (1 .. n) -> Nat]
  <2> HIDE DEF w
  <2> QED
    BY <1>1
<1>6. PICK h \in [SUBSET (1 .. Len(sp)) -> Nat] : FoldEq(h, F, b, sp, Len(sp))
  <2> HIDE DEF F, n, b
  <2> QED
    BY <1>2, <1>4, <1>5, FoldExists
<1>7. ASSUME NEW S \in SUBSET (1 .. n)
      PROVE  h[S] = IF S = {} THEN b
                    ELSE h[S \ {Max(S)}] + CopyEnd(segs, sp[Max(S)], N)
                           - CsToSamples(segs[sp[Max(S)]].start)
  <2>1. h[S] = IF S = {} THEN b ELSE F[<<h[S \ {Max(S)}], sp[Max(S)]>>]
    BY <1>4, <1>6 DEF FoldEq
  <2>2. CASE S = {}
    BY <2>1, <2>2
  <2>3. CASE S # {}
    <3>1. Max(S) \in S
      BY <1>0, <2>3, MaxExists
    <3>2. PICK j, x : j = Max(S) /\ j \in 1 .. n /\ x = h[S \ {Max(S)}]
      BY <3>1
    <3>3. x \in Nat /\ sp[j] = j
      BY <1>4, <1>6, <3>2
    <3>4. F[<<x, j>>] = x + (CopyEnd(segs, j, N) - CsToSamples(segs[j].start))
      BY <3>2, <3>3
    <3>5. PICK c, d : c = CopyEnd(segs, j, N) /\ d = CsToSamples(segs[j].start)
      OBVIOUS
    <3>6. c \in Int /\ d \in Int
      BY <3>2, <3>5, CopiedIs
    <3>7. x + (c - d) = x + c - d
      BY <3>3, <3>6
    <3> HIDE DEF F
    <3> QED
      BY <2>1, <2>3, <3>2, <3>3, <3>4, <3>5, <3>7
  <2> QED
    BY <2>2, <2>3
<1>8. Eq(h)
  <2>1. h = [S \in SUBSET (1 .. n) |-> h[S]]
    BY <1>4, <1>6
  <2> HIDE DEF n, b
  <2>2. h = [S \in SUBSET DOMAIN sp |->
              IF S = {} THEN b
              ELSE h[S \ {Max(S)}] + CopyEnd(segs, sp[Max(S)], N)
                     - CsToSamples(segs[sp[Max(S)]].start)]
    BY <1>4, <1>7, <2>1
  <2>3. For(h, sp)
    BY <2>2
  <2> HIDE DEF For
  <2> QED
    BY <1>3, <2>3
<1>9. FilteredSamples(segs, N) = (CHOOSE g : Eq(g))[DOMAIN [j \in DOMAIN segs |-> j]]
  BY Zenon DEF FilteredSamples, FoldLeft, MapThenFoldSet
<1>10. PICK g : g = (CHOOSE f : Eq(f)) /\ Eq(g)
  <2> HIDE DEF Eq
  <2> QED
    BY <1>8
<1>11. \A S \in SUBSET (1 .. n) :
         g[S] = IF S = {} THEN b
                ELSE g[S \ {Max(S)}] + CopyEnd(segs, sp[Max(S)], N)
                       - CsToSamples(segs[sp[Max(S)]].start)
  <2>1. For(g, sp)
    <3> HIDE DEF For
    <3> QED
      BY <1>3, <1>10
  <2>2. g = [S \in SUBSET DOMAIN sp |->
              IF S = {} THEN b
              ELSE g[S \ {Max(S)}] + CopyEnd(segs, sp[Max(S)], N)
                     - CsToSamples(segs[sp[Max(S)]].start)]
    BY <2>1
  <2>3. SUBSET DOMAIN sp = SUBSET (1 .. n)
    BY <1>4
  <2> HIDE DEF n, b
  <2> QED
    BY <2>2, <2>3, Zenon
<1> DEFINE Good == {m \in 0 .. n : g[1 .. m] \in Nat}
<1>12. 0 \in Good
  <2>1. 1 .. 0 = {} /\ {} \in SUBSET (1 .. n) /\ 0 \in 0 .. n
    BY <1>0
  <2> HIDE DEF b, n
  <2>2. g[{}] = b
    BY <1>11, <2>1
  <2> QED
    BY <1>2, <2>1, <2>2
<1>13. ASSUME NEW m \in 0 .. n - 1, m \in Good PROVE m + 1 \in Good
  <2>1. PICK S : S = 1 .. m + 1
    OBVIOUS
  <2>2. S \in SUBSET (1 .. n) /\ S # {} /\ Max(S) = m + 1 /\ S \ {m + 1} = 1 .. m
    BY <1>0, <2>1, Prefix
  <2>3. m + 1 \in 1 .. n /\ m + 1 \in 0 .. n /\ sp[m + 1] = m + 1
    BY <1>0, <1>4
  <2>4. PICK c, d, x : /\ c = CopyEnd(segs, m + 1, N) /\ d = CsToSamples(segs[m + 1].start)
                       /\ x = g[1 .. m]
    OBVIOUS
  <2>5. c \in Int /\ d \in Int /\ c - d \in Nat /\ x \in Nat
    BY <1>13, <2>3, <2>4, CopiedIs
  <2>6. g[S] = x + c - d
    <3> HIDE DEF n, b
    <3> QED
      BY <1>11, <2>2, <2>3, <2>4
  <2>7. g[S] \in Nat
    BY <2>5, <2>6
  <2> QED
    BY <2>1, <2>3, <2>7
<1>14. g[1 .. n] \in Nat
  <2> HIDE DEF Good
  <2>1. \A m \in 0 .. n : m \in Good
    <3> HIDE DEF n
    <3> QED
      BY <1>0, <1>12, <1>13, UpTo
  <2>2. n \in 0 .. n
    BY <1>0
  <2> QED
    BY <2>1, <2>2 DEF Good
<1> HIDE DEF Eq
<1> QED
  BY <1>3, <1>4, <1>9, <1>10, <1>14

-----------------------------------------------------------------------------
(* The segments of the chunks, and of the whole.                            *)
Segment == [t0 : Int, t1 : Int]

(* A moved segment is one, and does not begin before the last one ends.     *)
LEMMA MovedIs ==
  ASSUME NEW c, ChunkStart(c) \in Int, NEW all \in Seq(Segment), NEW s \in Segment
  PROVE  /\ Moved(all, s, c) \in Segment
         /\ Moved(all, s, c).t1 = s.t1 + ChunkStart(c)
         /\ all = <<>> => Moved(all, s, c).t0 = s.t0 + ChunkStart(c)
         /\ all # <<>> => /\ Moved(all, s, c).t0 >= s.t0 + ChunkStart(c)
                          /\ Moved(all, s, c).t0 >= Last(all).t1
                          /\ \/ Moved(all, s, c).t0 = s.t0 + ChunkStart(c)
                             \/ Moved(all, s, c).t0 = Last(all).t1
<1>1. PICK t, u, l : t = s.t0 + ChunkStart(c) /\ u = s.t1 + ChunkStart(c) /\ l = Last(all).t1
  OBVIOUS
<1>2. t \in Int /\ u \in Int
  <2>1. s.t0 \in Int /\ s.t1 \in Int
    BY DEF Segment
  <2>2. PICK d : d = ChunkStart(c) /\ d \in Int
    OBVIOUS
  <2> QED
    BY <1>1, <2>1, <2>2
<1>3. Moved(all, s, c) = [t0 |-> IF all = <<>> THEN t ELSE Max({t, l}), t1 |-> u]
  BY <1>1, Zenon DEF Moved
<1>4. CASE all = <<>>
  BY <1>1, <1>2, <1>3, <1>4 DEF Segment
<1>5. CASE all # <<>>
  <2>1. l \in Int
    <3>1. Len(all) \in 1 .. Len(all) /\ Last(all) = all[Len(all)]
      BY <1>5 DEF Last
    <3>2. Last(all) \in Segment
      BY <3>1
    <3> QED
      BY <1>1, <3>2 DEF Segment
  <2>2. PICK m : m = Max({t, l}) /\ m = IF t >= l THEN t ELSE l
    BY <1>2, <2>1, TwoOf
  <2>3. m \in Int /\ m >= t /\ m >= l /\ (m = t \/ m = l)
    BY <1>2, <2>1, <2>2
  <2>4. Moved(all, s, c) = [t0 |-> m, t1 |-> u]
    BY <1>3, <1>5, <2>2
  <2> QED
    BY <1>1, <1>2, <1>5, <2>3, <2>4 DEF Segment
<1> QED
  BY <1>4, <1>5

(* The segments of a chunk are added one by one.                            *)
Adds(f, all, c, r) ==
  /\ f[0] = all /\ Appended(all, c) = f[Len(r)]
  /\ \A m \in 0 .. Len(r) - 1 : f[m + 1] = Append(f[m], Moved(f[m], r[m + 1], c))

LEMMA AppendedSteps ==
  ASSUME NEW c, NEW r, r = chunk[c].result_all, r \in Seq(Segment), ChunkStart(c) \in Int,
         NEW all \in Seq(Segment)
  PROVE  \E f : Adds(f, all, c, r)
<1> DEFINE n == Len(r)
           A == Seq(Segment)
           F == [x \in A \X Segment |-> Append(x[1], Moved(x[1], x[2], c))]
           For(g, q) == g = [S \in SUBSET DOMAIN q |->
                              IF S = {} THEN all
                              ELSE Append(g[S \ {Max(S)}], Moved(g[S \ {Max(S)}], q[Max(S)], c))]
           Eq(g) == For(g, chunk[c].result_all)
<1>0. n \in Nat /\ DOMAIN r = 1 .. n
  OBVIOUS
<1>1. F \in [A \X Segment -> A]
  <2>1. ASSUME NEW a \in A, NEW s \in Segment PROVE Append(a, Moved(a, s, c)) \in A
    <3>1. Moved(a, s, c) \in Segment
      BY MovedIs
    <3>2. PICK u : u = Moved(a, s, c)
      OBVIOUS
    <3> QED
      BY <3>1, <3>2
  <2> HIDE DEF A
  <2> QED
    BY <2>1
<1>2. PICK h \in [SUBSET (1 .. Len(r)) -> A] : FoldEq(h, F, all, r, Len(r))
  <2> HIDE DEF F
  <2> QED
    BY <1>1, FoldExists
<1>3. ASSUME NEW S \in SUBSET (1 .. n)
      PROVE  h[S] = IF S = {} THEN all
                    ELSE Append(h[S \ {Max(S)}], Moved(h[S \ {Max(S)}], r[Max(S)], c))
  <2>1. h[S] = IF S = {} THEN all ELSE F[<<h[S \ {Max(S)}], r[Max(S)]>>]
    BY <1>2 DEF FoldEq
  <2>2. CASE S = {}
    BY <2>1, <2>2
  <2>3. CASE S # {}
    <3>1. Max(S) \in S
      BY <1>0, <2>3, MaxExists
    <3>2. PICK j, x : j = Max(S) /\ j \in 1 .. n /\ x = h[S \ {Max(S)}]
      BY <3>1
    <3>3. r[j] \in Segment
      BY <3>2
    <3>4. x \in A
      <4>1. S \ {Max(S)} \in SUBSET (1 .. Len(r))
        OBVIOUS
      <4> HIDE DEF A
      <4> QED
        BY <1>2, <3>2, <4>1
    <3> HIDE DEF A
    <3>5. F[<<x, r[j]>>] = Append(x, Moved(x, r[j], c))
      BY <3>3, <3>4
    <3>6. h[S] = F[<<h[S \ {Max(S)}], r[Max(S)]>>]
      BY <2>1, <2>3
    <3> HIDE DEF F
    <3>7. h[S] = Append(x, Moved(x, r[j], c))
      BY <3>2, <3>5, <3>6
    <3> QED
      BY <2>3, <3>2, <3>7, Zenon
  <2> QED
    BY <2>2, <2>3, Zenon
<1>4. Eq(h)
  <2>1. h = [S \in SUBSET (1 .. n) |-> h[S]]
    BY <1>2
  <2> HIDE DEF n
  <2>2. h = [S \in SUBSET DOMAIN r |->
              IF S = {} THEN all
              ELSE Append(h[S \ {Max(S)}], Moved(h[S \ {Max(S)}], r[Max(S)], c))]
    BY <1>0, <1>3, <2>1
  <2>3. For(h, r)
    BY <2>2
  <2> HIDE DEF For
  <2> QED
    BY <2>3
<1>5. Appended(all, c) = (CHOOSE g : Eq(g))[DOMAIN chunk[c].result_all]
  BY Zenon DEF Appended, FoldLeft, MapThenFoldSet
<1>6. PICK g : g = (CHOOSE e : Eq(e)) /\ Eq(g)
  <2> HIDE DEF Eq
  <2> QED
    BY <1>4
<1>7. PICK D : D = SUBSET (1 .. n)
  OBVIOUS
<1>8. \A S \in D : g[S] = IF S = {} THEN all
                          ELSE Append(g[S \ {Max(S)}], Moved(g[S \ {Max(S)}], r[Max(S)], c))
  <2>1. For(g, r)
    <3> HIDE DEF For
    <3> QED
      BY <1>6
  <2>2. g = [S \in SUBSET DOMAIN r |->
              IF S = {} THEN all
              ELSE Append(g[S \ {Max(S)}], Moved(g[S \ {Max(S)}], r[Max(S)], c))]
    BY <2>1
  <2>3. SUBSET DOMAIN r = D
    BY <1>0, <1>7
  <2> HIDE DEF n
  <2> QED
    BY <2>2, <2>3, Zenon
<1>9. PICK f : f = [m \in 0 .. n |-> g[1 .. m]]
  OBVIOUS
<1>10. f[0] = all
  <2>1. 1 .. 0 = {} /\ {} \in D
    BY <1>7
  <2>2. g[{}] = all
    BY <1>8, <2>1
  <2> QED
    BY <1>0, <1>9, <2>1, <2>2
<1>11. f[n] = Appended(all, c)
  <2>1. f[n] = g[1 .. n]
    BY <1>0, <1>9
  <2> HIDE DEF Eq, n
  <2> QED
    BY <1>0, <1>5, <1>6, <2>1
<1>12. ASSUME NEW m \in 0 .. n - 1 PROVE f[m + 1] = Append(f[m], Moved(f[m], r[m + 1], c))
  <2>1. PICK S : S = 1 .. m + 1
    OBVIOUS
  <2>2. S \in D /\ S # {} /\ Max(S) = m + 1 /\ S \ {m + 1} = 1 .. m
    BY <1>0, <1>7, <2>1, Prefix
  <2>3. g[S] = Append(g[1 .. m], Moved(g[1 .. m], r[m + 1], c))
    BY <1>8, <2>2
  <2>4. f[m] = g[1 .. m] /\ f[m + 1] = g[S]
    BY <1>0, <1>9, <2>1
  <2> QED
    BY <2>3, <2>4
<1> QED
  BY <1>10, <1>11, <1>12 DEF Adds

(* The result is a sequence of segments.                                    *)
LEMMA AppendedIs ==
  ASSUME NEW c, chunk[c].result_all \in Seq(Segment), ChunkStart(c) \in Int,
         NEW all \in Seq(Segment)
  PROVE  Appended(all, c) \in Seq(Segment)
<1>1. PICK r : r = chunk[c].result_all /\ r \in Seq(Segment)
  OBVIOUS
<1>2. PICK f : Adds(f, all, c, r)
  BY <1>1, AppendedSteps
<1>3. /\ f[0] = all /\ Appended(all, c) = f[Len(r)]
      /\ \A m \in 0 .. Len(r) - 1 : f[m + 1] = Append(f[m], Moved(f[m], r[m + 1], c))
  BY <1>2 DEF Adds
<1> DEFINE Good == {m \in 0 .. Len(r) : f[m] \in Seq(Segment)}
<1>4. 0 \in Good
  <2>1. Len(r) \in Nat
    BY <1>1
  <2>2. 0 \in 0 .. Len(r)
    BY <2>1
  <2>3. f[0] \in Seq(Segment)
    BY <1>3
  <2> QED
    BY <2>2, <2>3
<1>5. ASSUME NEW m \in 0 .. Len(r) - 1, m \in Good PROVE m + 1 \in Good
  <2>1. m + 1 \in 0 .. Len(r) /\ r[m + 1] \in Segment /\ f[m] \in Seq(Segment)
    BY <1>1, <1>5
  <2>2. PICK u : u = Moved(f[m], r[m + 1], c) /\ u \in Segment
    BY <2>1, MovedIs
  <2>3. f[m + 1] = Append(f[m], u)
    BY <1>3, <2>2
  <2>4. f[m + 1] \in Seq(Segment)
    BY <2>1, <2>2, <2>3
  <2> QED
    BY <2>1, <2>4
<1>6. Len(r) \in Good
  <2> HIDE DEF Good
  <2>1. Len(r) \in Nat
    BY <1>1
  <2>2. \A m \in 0 .. Len(r) : m \in Good
    BY <1>4, <1>5, <2>1, UpTo
  <2>3. Len(r) \in 0 .. Len(r)
    BY <2>1
  <2> QED
    BY <2>2, <2>3
<1> QED
  BY <1>3, <1>6

(* Segments in a row: none ends after the next starts.                      *)
InARow(r) ==
  /\ r \in Seq(Segment)
  /\ \A k \in 1 .. Len(r) - 1 : r[k].t1 <= r[k + 1].t0

(* One more segment that does not begin before the last one ends.           *)
LEMMA AppendInARow ==
  ASSUME NEW all, InARow(all), NEW u \in Segment, all # <<>> => Last(all).t1 <= u.t0
  PROVE  InARow(Append(all, u))
<1>1. PICK q, n : q = Append(all, u) /\ n = Len(all)
  OBVIOUS
<1>2. all \in Seq(Segment) /\ n \in Nat
  BY <1>1 DEF InARow
<1>3. /\ q \in Seq(Segment) /\ Len(q) = n + 1 /\ q[n + 1] = u
      /\ \A k \in 1 .. n : q[k] = all[k]
  BY <1>1, <1>2
<1>4. ASSUME NEW k \in 1 .. Len(q) - 1 PROVE q[k].t1 <= q[k + 1].t0
  <2>1. k \in 1 .. n
    BY <1>2, <1>3
  <2>2. CASE k = n
    <3>1. all # <<>>
      BY <1>1, <1>2, <2>1, <2>2
    <3>2. Last(all) = all[n]
      BY <1>1, <3>1 DEF Last
    <3> QED
      BY <1>3, <2>1, <2>2, <3>1, <3>2
  <2>3. CASE k # n
    <3>1. k \in 1 .. n - 1 /\ k + 1 \in 1 .. n
      BY <1>2, <2>1, <2>3
    <3>2. all[k].t1 <= all[k + 1].t0
      BY <1>1, <3>1 DEF InARow
    <3> QED
      BY <1>3, <2>1, <3>1, <3>2
  <2> QED
    BY <2>2, <2>3
<1> QED
  BY <1>1, <1>3, <1>4 DEF InARow

(* The result is in a row whatever is added.                                *)
LEMMA AppendedInARow ==
  ASSUME NEW c, chunk[c].result_all \in Seq(Segment), ChunkStart(c) \in Int,
         NEW all, InARow(all)
  PROVE  InARow(Appended(all, c))
<1>1. PICK r : r = chunk[c].result_all /\ r \in Seq(Segment)
  OBVIOUS
<1>2. PICK f : Adds(f, all, c, r)
  BY <1>1, AppendedSteps DEF InARow
<1>3. /\ f[0] = all /\ Appended(all, c) = f[Len(r)]
      /\ \A m \in 0 .. Len(r) - 1 : f[m + 1] = Append(f[m], Moved(f[m], r[m + 1], c))
  BY <1>2 DEF Adds
<1> DEFINE Good == {m \in 0 .. Len(r) : InARow(f[m])}
<1>4. 0 \in Good
  <2>1. Len(r) \in Nat
    BY <1>1
  <2>2. 0 \in 0 .. Len(r)
    BY <2>1
  <2> QED
    BY <1>3, <2>2
<1>5. ASSUME NEW m \in 0 .. Len(r) - 1, m \in Good PROVE m + 1 \in Good
  <2>1. PICK a : a = f[m]
    OBVIOUS
  <2>2. m + 1 \in 0 .. Len(r) /\ r[m + 1] \in Segment /\ InARow(a) /\ a \in Seq(Segment)
    BY <1>1, <1>5, <2>1 DEF InARow
  <2>3. PICK u : u = Moved(a, r[m + 1], c)
    OBVIOUS
  <2>4. u \in Segment /\ (a # <<>> => u.t0 >= Last(a).t1)
    BY <2>2, <2>3, MovedIs
  <2>5. a # <<>> => Last(a).t1 <= u.t0
    <3>1. ASSUME a # <<>> PROVE Last(a).t1 \in Int /\ u.t0 \in Int
      <4>1. Len(a) \in 1 .. Len(a) /\ Last(a) = a[Len(a)]
        BY <2>2, <3>1 DEF Last
      <4>2. Last(a) \in Segment
        BY <2>2, <4>1
      <4> QED
        BY <2>4, <4>2 DEF Segment
    <3> QED
      BY <2>4, <3>1
  <2>6. f[m + 1] = Append(a, u)
    BY <1>3, <2>1, <2>3
  <2>7. InARow(f[m + 1])
    BY <2>2, <2>4, <2>5, <2>6, AppendInARow
  <2> QED
    BY <2>2, <2>7
<1>6. Len(r) \in Good
  <2> HIDE DEF Good
  <2>1. Len(r) \in Nat
    BY <1>1
  <2>2. \A m \in 0 .. Len(r) : m \in Good
    BY <1>4, <1>5, <2>1, UpTo
  <2>3. Len(r) \in 0 .. Len(r)
    BY <2>1
  <2> QED
    BY <2>2, <2>3
<1> QED
  BY <1>3, <1>6

-----------------------------------------------------------------------------
(* The chunks are added one by one to the first.                            *)
Brought(p) == FoldLeft(Appended, chunk[0].result_all, [c \in 1 .. p - 1 |-> c])

Brings(f, p) ==
  /\ f[0] = chunk[0].result_all /\ Brought(p) = f[p - 1]
  /\ \A m \in 0 .. p - 2 : f[m + 1] = Appended(f[m], m + 1)

(* The fold of Combine, step by step.                                       *)
LEMMA BroughtSteps ==
  ASSUME NEW p \in Nat \ {0},
         \A c \in 0 .. p - 1 : chunk[c].result_all \in Seq(Segment) /\ ChunkStart(c) \in Int
  PROVE  \E f : Brings(f, p)
<1> DEFINE A == Seq(Segment)
           n == p - 1
           T == 1 .. n
           F == [x \in A \X T |-> Appended(x[1], x[2])]
           b == chunk[0].result_all
           For(g, q) == g = [S \in SUBSET DOMAIN q |->
                              IF S = {} THEN chunk[0].result_all
                              ELSE Appended(g[S \ {Max(S)}], q[Max(S)])]
           Eq(g) == For(g, [c \in 1 .. p - 1 |-> c])
<1>0. n \in Nat /\ 0 \in 0 .. p - 1
  OBVIOUS
<1>1. PICK s : s = [c \in 1 .. p - 1 |-> c]
  OBVIOUS
<1>2. s \in Seq(T) /\ DOMAIN s = T /\ Len(s) = n /\ \A j \in T : s[j] = j
  BY <1>0, <1>1
<1>3. F \in [A \X T -> A]
  <2>1. ASSUME NEW a \in Seq(Segment), NEW j \in T PROVE Appended(a, j) \in Seq(Segment)
    <3>1. j \in 0 .. p - 1
      OBVIOUS
    <3>2. chunk[j].result_all \in Seq(Segment) /\ ChunkStart(j) \in Int
      BY <3>1
    <3> HIDE DEF T
    <3> QED
      BY <3>2, AppendedIs
  <2> HIDE DEF T
  <2>2. \A a \in A, j \in T : Appended(a, j) \in A
    BY <2>1
  <2> HIDE DEF A
  <2> QED
    BY <2>2
<1>4. b \in A
  BY <1>0
<1>5. PICK h \in [SUBSET (1 .. Len(s)) -> A] : FoldEq(h, F, b, s, Len(s))
  <2> HIDE DEF F, A, T, b
  <2> QED
    BY <1>2, <1>3, <1>4, FoldExists
<1>6. ASSUME NEW S \in SUBSET T
      PROVE  h[S] = IF S = {} THEN b ELSE Appended(h[S \ {Max(S)}], s[Max(S)])
  <2>1. h[S] = IF S = {} THEN b ELSE F[<<h[S \ {Max(S)}], s[Max(S)]>>]
    <3> HIDE DEF F, A, b
    <3> QED
      BY <1>2, <1>5 DEF FoldEq
  <2>2. CASE S = {}
    BY <2>1, <2>2
  <2>3. CASE S # {}
    <3>1. Max(S) \in S
      BY <1>0, <2>3, MaxExists
    <3>2. PICK j, x : j = Max(S) /\ j \in T /\ x = h[S \ {Max(S)}]
      BY <3>1
    <3>3. x \in A
      <4>1. S \ {Max(S)} \in SUBSET (1 .. Len(s))
        BY <1>2
      <4> HIDE DEF A
      <4> QED
        BY <1>5, <3>2, <4>1
    <3>4. s[j] = j
      BY <1>2, <3>2
    <3>5. F[<<x, j>>] = Appended(x, j)
      <4> HIDE DEF A, T
      <4> QED
        BY <3>2, <3>3
    <3>6. h[S] = F[<<x, j>>]
      <4> HIDE DEF F
      <4> QED
        BY <2>1, <2>3, <3>2, <3>4
    <3> HIDE DEF F, T
    <3>7. h[S] = Appended(x, j)
      BY <3>5, <3>6
    <3> QED
      BY <2>3, <3>2, <3>4, <3>7, Zenon
  <2> QED
    BY <2>2, <2>3
<1>7. Eq(h)
  <2>1. h = [S \in SUBSET T |-> h[S]]
    <3> HIDE DEF A
    <3> QED
      BY <1>2, <1>5
  <2>2. h = [S \in SUBSET DOMAIN s |->
              IF S = {} THEN b ELSE Appended(h[S \ {Max(S)}], s[Max(S)])]
    <3> HIDE DEF T, b
    <3> QED
      BY <1>2, <1>6, <2>1
  <2>3. For(h, s)
    BY <2>2
  <2> HIDE DEF For
  <2> QED
    BY <1>1, <2>3
<1>8. Brought(p) = (CHOOSE g : Eq(g))[DOMAIN [c \in 1 .. p - 1 |-> c]]
  BY Zenon DEF Brought, FoldLeft, MapThenFoldSet
<1>9. PICK g : g = (CHOOSE e : Eq(e)) /\ Eq(g)
  <2> HIDE DEF Eq
  <2> QED
    BY <1>7
<1>10. PICK D : D = SUBSET T
  OBVIOUS
<1>11. \A S \in D : g[S] = IF S = {} THEN b ELSE Appended(g[S \ {Max(S)}], s[Max(S)])
  <2>1. For(g, s)
    <3> HIDE DEF For
    <3> QED
      BY <1>1, <1>9
  <2>2. g = [S \in SUBSET DOMAIN s |->
              IF S = {} THEN b ELSE Appended(g[S \ {Max(S)}], s[Max(S)])]
    BY <2>1
  <2>3. SUBSET DOMAIN s = D
    BY <1>2, <1>10
  <2> HIDE DEF b
  <2> QED
    BY <2>2, <2>3, Zenon
<1>12. PICK f : f = [m \in 0 .. n |-> g[1 .. m]]
  OBVIOUS
<1>13. f[0] = chunk[0].result_all
  <2>1. 1 .. 0 = {} /\ {} \in D
    BY <1>10
  <2>2. g[{}] = b
    BY <1>11, <2>1
  <2> QED
    BY <1>0, <1>12, <2>1, <2>2
<1>14. f[n] = Brought(p)
  <2>1. f[n] = g[1 .. n]
    BY <1>0, <1>12
  <2>2. 1 .. n = DOMAIN s
    BY <1>2
  <2> HIDE DEF Eq, n
  <2> QED
    BY <1>1, <1>8, <1>9, <2>1, <2>2
<1>15. ASSUME NEW m \in 0 .. p - 2 PROVE f[m + 1] = Appended(f[m], m + 1)
  <2>1. PICK S : S = 1 .. m + 1
    OBVIOUS
  <2>2. S \in D /\ S # {} /\ Max(S) = m + 1 /\ S \ {m + 1} = 1 .. m
    <3>1. m \in 0 .. n - 1
      BY <1>0
    <3> QED
      BY <1>0, <1>10, <2>1, <3>1, Prefix
  <2>3. s[m + 1] = m + 1
    <3>1. m + 1 \in T
      BY <1>0
    <3> QED
      BY <1>2, <3>1
  <2>4. g[S] = Appended(g[1 .. m], m + 1)
    <3> HIDE DEF b
    <3> QED
      BY <1>11, <2>2, <2>3
  <2>5. f[m] = g[1 .. m] /\ f[m + 1] = g[S]
    BY <1>0, <1>12, <2>1
  <2> QED
    BY <2>4, <2>5
<1> QED
  BY <1>13, <1>14, <1>15 DEF Brings

(* The chunks are in a row once they have been brought together, wherever   *)
(* each begins.                                                             *)
LEMMA BroughtInARow ==
  ASSUME NEW p \in Nat \ {0}, InARow(chunk[0].result_all),
         \A c \in 0 .. p - 1 : chunk[c].result_all \in Seq(Segment) /\ ChunkStart(c) \in Int
  PROVE  InARow(Brought(p))
<1>1. PICK f : Brings(f, p)
  BY BroughtSteps
<1>2. /\ f[0] = chunk[0].result_all /\ Brought(p) = f[p - 1]
      /\ \A m \in 0 .. p - 2 : f[m + 1] = Appended(f[m], m + 1)
  BY <1>1 DEF Brings
<1> DEFINE Good == {m \in 0 .. p - 1 : InARow(f[m])}
<1>3. 0 \in Good
  BY <1>2
<1>4. ASSUME NEW m \in 0 .. (p - 1) - 1, m \in Good PROVE m + 1 \in Good
  <2>1. m \in 0 .. p - 2 /\ m + 1 \in 0 .. p - 1 /\ InARow(f[m])
    BY <1>4
  <2>2. chunk[m + 1].result_all \in Seq(Segment) /\ ChunkStart(m + 1) \in Int
    BY <2>1
  <2>3. InARow(Appended(f[m], m + 1))
    BY <2>1, <2>2, AppendedInARow
  <2> QED
    BY <1>2, <2>1, <2>3
<1>5. p - 1 \in Good
  <2> HIDE DEF Good
  <2>1. p - 1 \in Nat
    OBVIOUS
  <2>2. \A m \in 0 .. p - 1 : m \in Good
    BY <1>3, <1>4, <2>1, UpTo
  <2>3. p - 1 \in 0 .. p - 1
    BY <2>1
  <2> QED
    BY <2>2, <2>3
<1> QED
  BY <1>2, <1>5

-----------------------------------------------------------------------------
(* What a thread finds when its segments are also in order.                 *)
InTime(r) ==
  /\ r \in Seq(Segment)
  /\ \A k \in 1 .. Len(r) : 0 <= r[k].t0 /\ r[k].t0 <= r[k].t1
  /\ \A k \in 1 .. Len(r) - 1 : r[k].t1 <= r[k + 1].t0

(* What the call reports: its segments start in order, and none ends after  *)
(* the next starts; the last may be continued.                              *)
InOrder(all) ==
  /\ all \in Seq(Segment)
  /\ \A k \in 1 .. Len(all) - 1 : all[k].t0 <= all[k + 1].t0 /\ all[k].t1 <= all[k + 1].t0

Tidy(all) == InOrder(all) /\ (all # <<>> => Last(all).t0 <= Last(all).t1)

(* The last segment is one of the sequence.                                 *)
LEMMA LastIs ==
  ASSUME NEW all \in Seq(Segment), all # <<>>
  PROVE  /\ Len(all) \in Nat \ {0} /\ Last(all) = all[Len(all)]
         /\ Last(all) \in Segment /\ Last(all).t0 \in Int /\ Last(all).t1 \in Int
<1>1. Len(all) \in Nat \ {0}
  OBVIOUS
<1>2. Last(all) = all[Len(all)]
  BY DEF Last
<1>3. all[Len(all)] \in Segment
  BY <1>1
<1> QED
  BY <1>1, <1>2, <1>3 DEF Segment

(* One more segment that does not begin before the last one ends.           *)
LEMMA AppendTidy ==
  ASSUME NEW all, Tidy(all), NEW u \in Segment, u.t0 <= u.t1,
         all # <<>> => Last(all).t1 <= u.t0
  PROVE  /\ Tidy(Append(all, u)) /\ Append(all, u) # <<>> /\ Last(Append(all, u)) = u
<1>1. PICK q, n : q = Append(all, u) /\ n = Len(all)
  OBVIOUS
<1>2. all \in Seq(Segment) /\ n \in Nat
  BY <1>1 DEF Tidy, InOrder
<1>3. /\ q \in Seq(Segment) /\ Len(q) = n + 1 /\ q[n + 1] = u
      /\ \A k \in 1 .. n : q[k] = all[k]
  BY <1>1, <1>2
<1>4. q # <<>> /\ Last(q) = u
  <2>1. q # <<>>
    BY <1>2, <1>3
  <2>2. Last(q) = q[Len(q)]
    BY <1>3, <2>1, LastIs
  <2> QED
    BY <1>3, <2>1, <2>2
<1>5. ASSUME NEW k \in 1 .. Len(q) - 1
      PROVE  q[k].t0 <= q[k + 1].t0 /\ q[k].t1 <= q[k + 1].t0
  <2>1. k \in 1 .. n
    BY <1>2, <1>3
  <2>2. CASE k = n
    <3>1. all # <<>>
      BY <1>1, <1>2, <2>1, <2>2
    <3>2. /\ all[n] = Last(all) /\ Last(all).t0 \in Int /\ Last(all).t1 \in Int
      BY <1>1, <1>2, <3>1, LastIs
    <3>3. Last(all).t0 <= Last(all).t1 /\ Last(all).t1 <= u.t0 /\ u.t0 \in Int
      BY <3>1 DEF Tidy, Segment
    <3>4. q[k] = Last(all) /\ q[k + 1] = u
      BY <1>3, <2>1, <2>2, <3>2
    <3> QED
      BY <3>2, <3>3, <3>4
  <2>3. CASE k # n
    <3>1. k \in 1 .. n - 1 /\ k + 1 \in 1 .. n
      BY <1>2, <2>1, <2>3
    <3>2. all[k].t0 <= all[k + 1].t0 /\ all[k].t1 <= all[k + 1].t0
      BY <1>1, <3>1 DEF Tidy, InOrder
    <3> QED
      BY <1>3, <2>1, <3>1, <3>2
  <2> QED
    BY <2>2, <2>3
<1>6. Tidy(q)
  BY <1>3, <1>4, <1>5 DEF Tidy, InOrder
<1> QED
  BY <1>1, <1>4, <1>6

(* A chunk is added to segments that end before its own do.                 *)
LEMMA AppendedTidy ==
  ASSUME NEW c, NEW r, r = chunk[c].result_all, InTime(r), ChunkStart(c) \in Int,
         NEW all, Tidy(all),
         all # <<>> => \A k \in 1 .. Len(r) : Last(all).t1 <= r[k].t1 + ChunkStart(c)
  PROVE  /\ Tidy(Appended(all, c))
         /\ r = <<>> => Appended(all, c) = all
         /\ r # <<>> => /\ Appended(all, c) # <<>>
                        /\ Last(Appended(all, c)).t1 = Last(r).t1 + ChunkStart(c)
<1>0. r \in Seq(Segment) /\ all \in Seq(Segment) /\ Len(r) \in Nat
  BY DEF InTime, Tidy, InOrder
<1>1. PICK f : Adds(f, all, c, r)
  BY <1>0, AppendedSteps
<1>2. /\ f[0] = all /\ Appended(all, c) = f[Len(r)]
      /\ \A m \in 0 .. Len(r) - 1 : f[m + 1] = Append(f[m], Moved(f[m], r[m + 1], c))
  BY <1>1 DEF Adds
<1>3. PICK x, n : x = ChunkStart(c) /\ x \in Int /\ n = Len(r) /\ n \in Nat
  BY <1>0
<1> DEFINE Good == {m \in 0 .. n :
                      /\ Tidy(f[m])
                      /\ m > 0 => f[m] # <<>> /\ Last(f[m]).t1 = r[m].t1 + x}
<1>4. 0 \in Good
  BY <1>2, <1>3
<1>5. ASSUME NEW m \in 0 .. n - 1, m \in Good PROVE m + 1 \in Good
  <2>1. PICK a, s, u : a = f[m] /\ s = r[m + 1] /\ u = Moved(a, s, c)
    OBVIOUS
  <2>2. /\ m + 1 \in 1 .. n /\ m + 1 \in 0 .. n /\ m + 1 > 0
        /\ Tidy(a) /\ (m > 0 => a # <<>> /\ Last(a).t1 = r[m].t1 + x)
    BY <1>3, <1>5, <2>1
  <2>3. f[m + 1] = Append(a, u)
    BY <1>2, <1>3, <2>1
  <2>4. s \in Segment /\ s.t0 \in Int /\ s.t1 \in Int /\ s.t0 <= s.t1
    <3>1. s \in Segment
      BY <1>0, <1>3, <2>1, <2>2
    <3>2. s.t0 <= s.t1
      BY <1>3, <2>1, <2>2 DEF InTime
    <3> QED
      BY <3>1, <3>2 DEF Segment
  <2>5. a \in Seq(Segment)
    BY <2>2 DEF Tidy, InOrder
  <2>6. /\ u \in Segment /\ u.t1 = s.t1 + x
        /\ a = <<>> => u.t0 = s.t0 + x
        /\ a # <<>> => u.t0 >= Last(a).t1 /\ (u.t0 = s.t0 + x \/ u.t0 = Last(a).t1)
    BY <1>3, <2>1, <2>4, <2>5, MovedIs
  <2>7. a # <<>> => Last(a).t1 \in Int /\ Last(a).t1 <= s.t1 + x
    <3> SUFFICES ASSUME a # <<>> PROVE Last(a).t1 \in Int /\ Last(a).t1 <= s.t1 + x
      OBVIOUS
    <3>1. Last(a).t1 \in Int
      BY <2>5, LastIs
    <3>2. CASE m = 0
      <4>1. a = all
        BY <1>2, <2>1, <3>2
      <4> QED
        BY <1>3, <2>1, <2>2, <3>1, <4>1
    <3>3. CASE m # 0
      <4>1. m \in 1 .. n - 1 /\ m > 0 /\ m \in 1 .. n
        BY <1>3, <3>3
      <4>2. r[m].t1 <= s.t0 /\ r[m].t1 \in Int
        <5>1. r[m] \in Segment
          BY <1>0, <1>3, <4>1
        <5>2. r[m].t1 <= r[m + 1].t0
          <6>1. \A k \in 1 .. Len(r) - 1 : r[k].t1 <= r[k + 1].t0
            BY DEF InTime
          <6> QED
            BY ONLY <1>3, <4>1, <6>1
        <5>3. r[m].t1 \in Int
          BY <5>1 DEF Segment
        <5> QED
          BY ONLY <2>1, <5>2, <5>3
      <4>3. Last(a).t1 = r[m].t1 + x
        BY <2>2, <4>1
      <4>4. PICK t, y, z, w : t = r[m].t1 /\ y = Last(a).t1 /\ z = s.t0 /\ w = s.t1
        OBVIOUS
      <4>5. t \in Int /\ z \in Int /\ w \in Int /\ t <= z /\ z <= w /\ y = t + x
        BY ONLY <2>4, <4>2, <4>3, <4>4
      <4>6. y \in Int /\ y <= w + x
        BY ONLY <1>3, <4>5
      <4> QED
        BY ONLY <4>4, <4>6
    <3> QED
      BY <3>2, <3>3
  <2>8. u.t0 <= u.t1
    <3>1. CASE a = <<>>
      BY <1>3, <2>4, <2>6, <3>1
    <3>2. CASE a # <<>>
      BY <1>3, <2>4, <2>6, <2>7, <3>2
    <3> QED
      BY <3>1, <3>2
  <2>9. a # <<>> => Last(a).t1 <= u.t0
    <3>1. u.t0 \in Int
      BY <2>6 DEF Segment
    <3> QED
      BY <2>6, <2>7, <3>1
  <2>10. Tidy(f[m + 1]) /\ f[m + 1] # <<>> /\ Last(f[m + 1]) = u
    BY <2>2, <2>3, <2>6, <2>8, <2>9, AppendTidy
  <2>11. Last(f[m + 1]).t1 = r[m + 1].t1 + x
    BY <2>1, <2>6, <2>10
  <2> QED
    BY <2>2, <2>10, <2>11
<1>6. n \in Good
  <2> HIDE DEF Good
  <2>1. \A m \in 0 .. n : m \in Good
    BY <1>3, <1>4, <1>5, UpTo
  <2>2. n \in 0 .. n
    BY <1>3
  <2> QED
    BY <2>1, <2>2
<1>7. CASE r = <<>>
  <2>1. n = 0
    BY <1>3, <1>7
  <2> QED
    BY <1>2, <1>3, <1>6, <1>7, <2>1
<1>8. CASE r # <<>>
  <2>1. n > 0 /\ Last(r) = r[n]
    BY <1>0, <1>3, <1>8, LastIs
  <2> QED
    BY <1>2, <1>3, <1>6, <1>8, <2>1
<1> QED
  BY <1>7, <1>8

-----------------------------------------------------------------------------
(* An int that wraps around is one, and itself when it fits; a quotient is  *)
(* one, too, rounded down when nothing is negative.                         *)
LEMMA WrappedIs ==
  ASSUME NEW x \in Int
  PROVE  Wrapped(x) \in Int /\ (0 <= x /\ x <= IntMax => Wrapped(x) = x)
<1>1. PICK h, b, y, z : /\ h = IntMax + 1 /\ b = 2 * (IntMax + 1) /\ y = x + IntMax + 1
                        /\ z = (x + IntMax + 1) % (2 * (IntMax + 1))
  OBVIOUS
<1>2. h \in Nat \ {0} /\ b \in Nat \ {0} /\ y \in Int /\ b = 2 * h /\ y = x + h
  BY <1>1, IntAssumption
<1>3. z = y % b /\ Wrapped(x) = z - h
  BY <1>1, <1>2 DEF Wrapped
<1>4. z \in Int /\ (0 <= y /\ y < b => z = y)
  BY <1>2, <1>3
<1>5. 0 <= x /\ x <= IntMax => 0 <= y /\ y < b
  BY <1>1, <1>2, IntAssumption
<1> QED
  BY <1>2, <1>3, <1>4, <1>5

LEMMA QuotIs ==
  ASSUME NEW a \in Int, NEW b \in Nat \ {0}
  PROVE  Quot(a, b) \in Int /\ (a >= 0 => Quot(a, b) = a \div b)
<1>1. a \div b \in Int /\ (-a) \div b \in Int
  BY Quotient
<1> QED
  BY <1>1 DEF Quot

(* Whatever overflows, the times of a chunk begin somewhere.                *)
LEMMA StartKnown ==
  ASSUME NEW c \in Int, n_samples_per_processor \in Int, params.offset_ms \in Nat
  PROVE  ChunkStart(c) \in Int
<1>1. PICK x : x = 100 * (c * n_samples_per_processor) /\ x \in Int
  OBVIOUS
<1>2. PICK y : y = Wrapped(x) /\ y \in Int
  BY <1>1, WrappedIs
<1>3. Quot(y, 16000) \in Int
  BY <1>2, QuotIs
<1>4. ChunkStart(c) = Quot(y, 16000) + params.offset_ms \div 10
  BY <1>1, <1>2 DEF ChunkStart
<1> QED
  BY <1>3, <1>4

(* Where they begin when nothing overflows.                                 *)
TrueStart(c) == (c * n_samples_per_processor) \div Cs + params.offset_ms \div 10

LEMMA StartIsTrue ==
  ASSUME NEW c \in Nat, n_samples_per_processor \in Nat, params.offset_ms \in Nat,
         100 * (c * n_samples_per_processor) <= IntMax
  PROVE  ChunkStart(c) = TrueStart(c)
<1>1. PICK y : y = c * n_samples_per_processor /\ y \in Nat
  OBVIOUS
<1>2. PICK x : x = 100 * y /\ x \in Nat /\ x <= IntMax
  BY <1>1
<1>3. Wrapped(x) = x
  BY <1>2, WrappedIs
<1>4. Quot(x, 16000) = x \div 16000
  BY <1>2, QuotIs
<1>5. x \div 16000 = y \div 160
  BY <1>1, <1>2
<1> QED
  BY <1>1, <1>2, <1>3, <1>4, <1>5 DEF ChunkStart, TrueStart, Cs

(* Where the chunks begin: each where the one before it ends, or a          *)
(* centisecond earlier when the offset is no whole number of them.          *)
LEMMA StartsFollow ==
  ASSUME NEW c \in Nat, n_samples_per_processor \in Nat, params.offset_ms \in Nat
  PROVE  /\ TrueStart(c) \in Nat /\ TrueStart(c + 1) \in Nat
         /\ TrueStart(c) <= TrueStart(c + 1)
         /\ \A t \in Int : CsToSamples(t) <= n_samples_per_processor =>
              t + TrueStart(c) <= TrueStart(c + 1)
<1>1. PICK w, o, y, z : /\ w = n_samples_per_processor /\ o = params.offset_ms \div 10
                        /\ y = c * w /\ z = (c + 1) * w
  OBVIOUS
<1>2. w \in Nat /\ o \in Nat /\ y \in Nat /\ z \in Nat /\ z = y + w
  <2>1. w \in Nat /\ o \in Nat
    BY <1>1
  <2>2. (c + 1) * w = c * w + w /\ c * w \in Nat
    BY <2>1
  <2> QED
    BY <1>1, <2>1, <2>2
<1>3. PICK a, b : a = y \div 160 /\ b = z \div 160
  OBVIOUS
<1>4. /\ a \in Int /\ 160 * a <= y /\ y < 160 * a + 160
      /\ b \in Int /\ 160 * b <= z /\ z < 160 * b + 160
  BY <1>2, <1>3
<1>5. TrueStart(c) = a + o /\ TrueStart(c + 1) = b + o
  BY <1>1, <1>3 DEF TrueStart, Cs
<1>6. a \in Nat /\ b \in Nat /\ a <= b
  BY <1>2, <1>4
<1>7. ASSUME NEW t \in Int, CsToSamples(t) <= n_samples_per_processor
      PROVE  t + (a + o) <= b + o
  <2>1. 160 * t <= w
    BY <1>1, <1>7 DEF CsToSamples, Cs
  <2> QED
    BY <1>2, <1>4, <2>1
<1> QED
  BY <1>2, <1>5, <1>6, <1>7

(* Where the first chunk ends, the offset included.                         *)
LEMMA FirstEnds ==
  ASSUME n_samples_per_processor \in Nat, params.offset_ms \in Nat, NEW t \in Int,
         offset_samples = Ms(params.offset_ms),
         CsToSamples(t) <= offset_samples + n_samples_per_processor
  PROVE  /\ t <= TrueStart(1) + 1
         /\ params.offset_ms % 10 = 0 => t <= TrueStart(1)
<1>1. PICK w, m, o : /\ w = n_samples_per_processor /\ m = params.offset_ms
                     /\ o = params.offset_ms \div 10
  OBVIOUS
<1>2. PICK a : a = w \div 160
  OBVIOUS
<1>3. /\ w \in Nat /\ m \in Nat /\ o \in Nat /\ 10 * o <= m /\ m <= 10 * o + 9
      /\ m % 10 = 0 => m = 10 * o
  BY <1>1
<1>4. a \in Int /\ 160 * a <= w /\ w <= 160 * a + 159
  BY <1>2, <1>3
<1>5. TrueStart(1) = a + o
  <2>1. 1 * w = w
    BY <1>3
  <2> QED
    BY <1>1, <1>2, <2>1 DEF TrueStart, Cs
<1>6. 160 * t <= 16 * m + w
  BY <1>1 DEF Ms, CsToSamples, Cs
<1>7. t <= a + o + 1
  BY <1>3, <1>4, <1>6
<1>8. m = 10 * o => t <= a + o
  BY <1>3, <1>4, <1>6
<1> QED
  BY <1>1, <1>3, <1>5, <1>7, <1>8

-----------------------------------------------------------------------------
(* A call whose times fit: the chunks divide the audio behind the offset.   *)
LEMMA Divided ==
  ASSUME params.n_processors \in Nat \ {0}, params.offset_ms \in Nat, n_samples \in Nat,
         TimesFit
  PROVE  /\ offset_samples = Ms(params.offset_ms) /\ n_samples_per_processor \in Nat
         /\ \A c \in Chunks : ChunkStart(c) = TrueStart(c)
<1>1. PICK m, x, p, n : /\ m = params.offset_ms /\ x = 16000 * params.offset_ms
                        /\ p = params.n_processors /\ n = n_samples
  OBVIOUS
<1>2. m \in Nat /\ x \in Nat /\ x = 16000 * m /\ p \in Nat \ {0} /\ n \in Nat /\ x <= IntMax
  BY <1>1 DEF TimesFit
<1>3. Wrapped(x) = x /\ Quot(x, 1000) = x \div 1000
  BY <1>2, WrappedIs, QuotIs
<1>4. offset_samples = 16 * m
  <2>1. x \div 1000 = 16 * m
    BY <1>2
  <2> QED
    BY <1>1, <1>3, <2>1 DEF offset_samples
<1>5. PICK z : z = n - offset_samples /\ z \in Nat /\ z <= n
  BY <1>1, <1>2, <1>4 DEF TimesFit
<1>6. PICK w : w = n_samples_per_processor /\ w = z \div p
  <2>1. n_samples_per_processor = Quot(z, p)
    BY <1>1, <1>5 DEF n_samples_per_processor
  <2>2. Quot(z, p) = z \div p
    BY <1>2, <1>5, QuotIs
  <2> QED
    BY <2>1, <2>2
<1>7. w \in Nat /\ p * w <= z
  <2>1. w \in Int /\ p * w <= z
    BY <1>2, <1>5, <1>6, Division
  <2>2. p * 0 = 0
    BY <1>2
  <2>3. 0 <= w
    BY <1>2, <1>5, <1>6, <2>2, Quotient
  <2> QED
    BY <2>1, <2>3
<1>8. ASSUME NEW c \in Chunks PROVE ChunkStart(c) = TrueStart(c)
  <2>1. c \in Nat /\ c <= p
    BY <1>1, <1>2 DEF Chunks
  <2>2. PICK y, q : y = c * w /\ q = p * w
    OBVIOUS
  <2>3. y \in Int /\ q \in Int /\ y <= q
    BY <1>2, <1>7, <2>1, <2>2, Products
  <2>4. 100 * n <= IntMax
    BY <1>1 DEF TimesFit
  <2>5. 100 * y <= IntMax
    BY <1>2, <1>5, <1>7, <2>2, <2>3, <2>4, IntAssumption
  <2>6. /\ n_samples_per_processor \in Nat /\ params.offset_ms \in Nat
        /\ 100 * (c * n_samples_per_processor) <= IntMax
    BY <1>1, <1>6, <1>7, <2>2, <2>5
  <2> QED
    BY <2>1, <2>6, StartIsTrue
<1> QED
  BY <1>1, <1>4, <1>6, <1>7, <1>8 DEF Ms

(* What the threads have found is in order once it has been joined.         *)
LEMMA BroughtTidy ==
  ASSUME NEW p \in Nat \ {0}, p = params.n_processors, n_samples_per_processor \in Nat,
         params.offset_ms \in Nat, offset_samples = Ms(params.offset_ms), WithinChunks,
         \A c \in Chunks : ChunkStart(c) = TrueStart(c) /\ InTime(chunk[c].result_all)
  PROVE  InOrder(Brought(p))
<1>1. Chunks = 0 .. p - 1 /\ p - 1 \in Nat /\ 0 \in Chunks
  BY DEF Chunks
<1>2. \A c \in 0 .. p - 1 : chunk[c].result_all \in Seq(Segment) /\ ChunkStart(c) \in Int
  <2> SUFFICES ASSUME NEW c \in 0 .. p - 1
               PROVE  chunk[c].result_all \in Seq(Segment) /\ ChunkStart(c) \in Int
    OBVIOUS
  <2>1. InTime(chunk[c].result_all)
    BY <1>1
  <2>2. TrueStart(c) \in Nat
    <3>1. c \in Nat
      OBVIOUS
    <3> QED
      BY <3>1, StartsFollow
  <2> QED
    BY <1>1, <2>1, <2>2 DEF InTime
<1>3. PICK f : Brings(f, p)
  BY <1>2, BroughtSteps
<1>4. /\ f[0] = chunk[0].result_all /\ Brought(p) = f[p - 1]
      /\ \A m \in 0 .. p - 2 : f[m + 1] = Appended(f[m], m + 1)
  BY <1>3 DEF Brings
<1>5. PICK e : /\ e \in {0, 1} /\ (params.offset_ms % 10 = 0 => e = 0)
               /\ params.offset_ms % 10 # 0 => e = 1
  OBVIOUS
<1> DEFINE Late(all, m) == all # <<>> => Last(all).t1 <= TrueStart(m + 1) + e
           Good == {m \in 0 .. p - 1 : Tidy(f[m]) /\ (m < p - 1 => Late(f[m], m))}
<1>6. 0 \in Good
  <2>1. PICK r : r = chunk[0].result_all /\ InTime(r)
    BY <1>1
  <2>2. r \in Seq(Segment) /\ Len(r) \in Nat
    BY <2>1 DEF InTime
  <2>3. r # <<>> => /\ Last(r).t0 <= Last(r).t1 /\ Last(r).t1 \in Int
                    /\ CsToSamples(Last(r).t1) <= offset_samples + n_samples_per_processor
    <3> SUFFICES ASSUME r # <<>>
                 PROVE  /\ Last(r).t0 <= Last(r).t1 /\ Last(r).t1 \in Int
                        /\ CsToSamples(Last(r).t1) <= offset_samples + n_samples_per_processor
      OBVIOUS
    <3>1. Len(r) \in 1 .. Len(r) /\ Last(r) = r[Len(r)] /\ Last(r).t1 \in Int
      BY <2>2, LastIs
    <3>2. Last(r).t0 <= Last(r).t1
      BY <2>1, <3>1 DEF InTime
    <3>3. DOMAIN r = 1 .. Len(r)
      BY <2>2
    <3>4. CsToSamples(Last(r).t1) <= ChunkSamples(0)
      BY <1>1, <2>1, <3>1, <3>3 DEF WithinChunks
    <3>5. ChunkSamples(0) = offset_samples + n_samples_per_processor
      BY DEF ChunkSamples
    <3> QED
      BY <3>1, <3>2, <3>4, <3>5
  <2>4. Tidy(r)
    <3>1. ASSUME NEW k \in 1 .. Len(r) - 1
          PROVE  r[k].t0 <= r[k + 1].t0 /\ r[k].t1 <= r[k + 1].t0
      <4>1. k \in 1 .. Len(r) /\ k + 1 \in 1 .. Len(r)
        BY <2>2
      <4>2. r[k].t0 <= r[k].t1 /\ r[k].t1 <= r[k + 1].t0
        BY <2>1, <4>1 DEF InTime
      <4>3. r[k] \in Segment /\ r[k + 1] \in Segment
        BY <2>2, <4>1
      <4>4. r[k].t0 \in Int /\ r[k].t1 \in Int /\ r[k + 1].t0 \in Int
        BY <4>3 DEF Segment
      <4> QED
        BY <4>2, <4>4
    <3> QED
      BY <2>2, <2>3, <3>1 DEF Tidy, InOrder
  <2>5. Late(r, 0)
    <3> SUFFICES ASSUME r # <<>> PROVE Last(r).t1 <= TrueStart(0 + 1) + e
      OBVIOUS
    <3>1. PICK t : t = Last(r).t1 /\ t \in Int
      BY <2>3
    <3>2. t <= TrueStart(1) + 1 /\ (params.offset_ms % 10 = 0 => t <= TrueStart(1))
      BY <2>3, <3>1, FirstEnds
    <3>3. TrueStart(1) \in Nat
      <4>1. 0 \in Nat /\ 0 + 1 = 1
        OBVIOUS
      <4> QED
        BY <4>1, StartsFollow
    <3> QED
      BY <1>5, <3>1, <3>2, <3>3
  <2> QED
    BY <1>1, <1>4, <2>1, <2>4, <2>5
<1>7. ASSUME NEW m \in 0 .. (p - 1) - 1, m \in Good PROVE m + 1 \in Good
  <2>1. PICK r, c, a : r = chunk[m + 1].result_all /\ c = m + 1 /\ a = f[m]
    OBVIOUS
  <2>2. /\ c \in Chunks /\ c \in Nat /\ c # 0 /\ c \in 0 .. p - 1 /\ m \in 0 .. p - 2
        /\ InTime(r) /\ Tidy(a) /\ Late(a, m)
    BY <1>1, <1>7, <2>1
  <2>3. r \in Seq(Segment) /\ Len(r) \in Nat /\ DOMAIN r = 1 .. Len(r) /\ a \in Seq(Segment)
    BY <2>2 DEF InTime, Tidy, InOrder
  <2>4. PICK x, y : /\ x = TrueStart(c) /\ y = TrueStart(c + 1) /\ x \in Nat /\ y \in Nat
                    /\ x <= y /\ ChunkStart(c) = x
                    /\ \A t \in Int : CsToSamples(t) <= n_samples_per_processor => t + x <= y
    BY <2>2, StartsFollow
  <2>5. ASSUME a # <<>> PROVE Last(a).t1 \in Int /\ Last(a).t1 <= x + e
    BY <2>1, <2>2, <2>3, <2>4, <2>5, LastIs
  <2>6. ASSUME NEW k \in 1 .. Len(r) PROVE r[k].t1 \in Int /\ e <= r[k].t1
    <3>1. r[k] \in Segment /\ 0 <= r[k].t0 /\ r[k].t0 <= r[k].t1
      BY <2>2, <2>3 DEF InTime
    <3>2. r[k].t0 \in Int /\ r[k].t1 \in Int
      BY <3>1 DEF Segment
    <3>3. CASE params.offset_ms % 10 = 0
      BY <1>5, <3>1, <3>2, <3>3
    <3>4. CASE params.offset_ms % 10 # 0
      <4>1. r[k].t0 < r[k].t1
        BY <2>1, <2>2, <2>3, <3>4 DEF WithinChunks
      <4> QED
        BY <1>5, <3>1, <3>2, <4>1
    <3> QED
      BY <3>3, <3>4
  <2>7. a # <<>> => \A k \in 1 .. Len(r) : Last(a).t1 <= r[k].t1 + ChunkStart(c)
    <3> SUFFICES ASSUME a # <<>>, NEW k \in 1 .. Len(r)
                 PROVE  Last(a).t1 <= r[k].t1 + ChunkStart(c)
      OBVIOUS
    <3>1. PICK l, t : l = Last(a).t1 /\ t = r[k].t1
      OBVIOUS
    <3>2. l \in Int /\ t \in Int /\ l <= x + e /\ e <= t /\ e \in Int
      BY <1>5, <2>5, <2>6, <3>1
    <3> QED
      BY <2>4, <3>1, <3>2
  <2>8. PICK q : q = Appended(a, c)
    OBVIOUS
  <2>9. /\ Tidy(q) /\ (r = <<>> => q = a)
        /\ r # <<>> => q # <<>> /\ Last(q).t1 = Last(r).t1 + ChunkStart(c)
    <3>1. ChunkStart(c) \in Int
      BY <2>4
    <3>2. r = chunk[c].result_all /\ InTime(r) /\ Tidy(a)
      BY <2>1, <2>2
    <3> QED
      BY ONLY <2>7, <2>8, <3>1, <3>2, AppendedTidy
  <2>10. ASSUME c < p - 1, q # <<>> PROVE Last(q).t1 <= y + e
    <3>1. CASE r = <<>>
      <4>1. a # <<>> /\ q = a
        BY <2>9, <2>10, <3>1
      <4>2. Last(a).t1 \in Int /\ Last(a).t1 <= x + e
        BY <2>5, <4>1
      <4> QED
        BY <1>5, <2>4, <4>1, <4>2
    <3>2. CASE r # <<>>
      <4>1. Len(r) \in 1 .. Len(r) /\ Last(r) = r[Len(r)] /\ Last(r).t1 \in Int
        BY <2>3, <3>2, LastIs
      <4>2. CsToSamples(Last(r).t1) <= ChunkSamples(c)
        BY <2>1, <2>2, <2>3, <4>1 DEF WithinChunks
      <4>3. ChunkSamples(c) = n_samples_per_processor
        <5>1. c # params.n_processors - 1
          BY <1>1, <2>2, <2>10
        <5> QED
          BY <2>2, <5>1 DEF ChunkSamples
      <4>4. PICK t : t = Last(r).t1 /\ t \in Int /\ t + x <= y
        BY <2>4, <4>1, <4>2, <4>3
      <4>5. Last(q).t1 = t + x
        BY <2>4, <2>9, <3>2, <4>4
      <4> QED
        BY <1>5, <2>4, <4>4, <4>5
    <3> QED
      BY <3>1, <3>2
  <2>11. f[m + 1] = q
    BY <1>4, <2>1, <2>2, <2>8
  <2> QED
    BY <2>1, <2>2, <2>4, <2>9, <2>10, <2>11
<1>8. p - 1 \in Good
  <2> HIDE DEF Good
  <2>1. \A m \in 0 .. p - 1 : m \in Good
    BY <1>1, <1>6, <1>7, UpTo
  <2>2. p - 1 \in 0 .. p - 1
    BY <1>1
  <2> QED
    BY <2>1, <2>2
<1> QED
  BY <1>4, <1>8 DEF Tidy

-----------------------------------------------------------------------------
(* What whisper_full_with_state promises of every chunk: no segment begins  *)
(* before the one before it ends (SegmentsOrdered of WhisperFull).          *)
OutcomesInARow == \A n \in Int : \A segs \in Outcomes(n) : InARow(segs)

(* Segments in a row are reported in one, and in order when they are, as    *)
(* the map never goes back.                                                 *)
LEMMA RowReported ==
  ASSUME NEW all, InARow(all), table = {} \/ Ordered(table), NEW k \in 1 .. Len(all) - 1
  PROVE  /\ Reported(all[k]).t1 <= Max({Reported(all[k + 1]).t0, Reported(all[k]).t0 + 10})
         /\ InOrder(all) => Reported(all[k]).t0 <= Reported(all[k + 1]).t0
<1>1. PICK a, b : a = all[k] /\ b = all[k + 1]
  OBVIOUS
<1>2. all \in Seq(Segment) /\ a.t1 <= b.t0 /\ (InOrder(all) => a.t0 <= b.t0)
  BY <1>1 DEF InARow, InOrder
<1>3. a \in Segment /\ b \in Segment
  <2>1. Len(all) \in Nat
    BY <1>2
  <2>2. k \in 1 .. Len(all) /\ k + 1 \in 1 .. Len(all)
    BY <2>1
  <2> QED
    BY <1>1, <1>2, <2>2
<1>4. a.t0 \in Int /\ a.t1 \in Int /\ b.t0 \in Int /\ b.t1 \in Int
  BY <1>3 DEF Segment
<1>5. CASE table = {}
  <2>1. Reported(a) = a /\ Reported(b) = b
    BY <1>5 DEF Reported
  <2>2. PICK x, y : x = b.t0 /\ y = a.t0 + 10
    OBVIOUS
  <2>3. x \in Int /\ y \in Int
    BY <1>4, <2>2
  <2>4. Max({x, y}) = IF x >= y THEN x ELSE y
    BY <2>3, TwoOf
  <2>5. a.t1 <= Max({x, y})
    BY <1>2, <1>4, <2>2, <2>3, <2>4
  <2> QED
    BY <1>1, <1>2, <2>1, <2>2, <2>5
<1>6. CASE Ordered(table) /\ table # {}
  <2>1. PICK u, v, w, z : /\ u = OriginalTime(table, a.t0) /\ v = OriginalTime(table, a.t1)
                          /\ w = OriginalTime(table, b.t0) /\ z = OriginalTime(table, b.t1)
    OBVIOUS
  <2>2. /\ u \in Int /\ v \in Int /\ w \in Int /\ z \in Int /\ v <= w
        /\ InOrder(all) => u <= w
    <3>1. u \in Int /\ (InOrder(all) => u <= w)
      BY <1>2, <1>4, <1>6, <2>1, OriginalOrder, OriginalRange
    <3>2. v \in Int /\ w \in Int /\ v <= w
      BY <1>2, <1>4, <1>6, <2>1, OriginalOrder
    <3>3. z \in Int
      BY <1>4, <1>6, <2>1, OriginalRange
    <3> QED
      BY <3>1, <3>2, <3>3
  <2>3. /\ Reported(a) = [t0 |-> u, t1 |-> Max({v, u + 10})]
        /\ Reported(b) = [t0 |-> w, t1 |-> Max({z, w + 10})]
    BY <1>6, <2>1, Zenon DEF Reported
  <2>4. PICK x : x = u + 10 /\ x \in Int
    BY <2>2
  <2>5. /\ Max({v, x}) = IF v >= x THEN v ELSE x
        /\ Max({w, x}) = IF w >= x THEN w ELSE x
    BY <2>2, <2>4, TwoOf
  <2>6. Max({v, x}) <= Max({w, x})
    BY <2>2, <2>4, <2>5
  <2>7. Reported(a).t0 = u /\ Reported(a).t1 = Max({v, x}) /\ Reported(b).t0 = w
    BY <2>3, <2>4
  <2> QED
    BY <1>1, <2>2, <2>4, <2>6, <2>7
<1> QED
  BY <1>5, <1>6

-----------------------------------------------------------------------------
(* What holds between the steps; results of an earlier call are not split.  *)
ReportKnown ==
  /\ params \in CallParams /\ i \in Nat
  /\ stage = "scan" => params.vad /\ ScanOK(scan, i * n_window) /\ table = {}
  /\ table = {} \/ Ordered(table)
  /\ n_samples \in Nat
  /\ DOMAIN chunk = Chunks /\ \A c \in Chunks : InARow(chunk[c].result_all)
  /\ IF stage = "done"
     THEN InARow(result_all) /\ (TimesFit /\ WithinChunks => InOrder(result_all))
     ELSE result_all = Old

(* The results before the call.                                             *)
LEMMA OldInOrder ==
  /\ InOrder(Old) /\ InARow(Old)
  /\ InOrder(<<>>) /\ InARow(<<>>)
<1>1. Old \in Seq(Segment) /\ Len(Old) = 1
  <2>1. [t0 |-> 0, t1 |-> 1] \in Segment
    BY DEF Segment
  <2> QED
    BY <2>1 DEF Old
<1>2. <<>> \in Seq(Segment) /\ Len(<<>>) = 0
  OBVIOUS
<1> QED
  BY <1>1, <1>2 DEF InOrder, InARow

LEMMA InitReport == Init => ReportKnown
<1> SUFFICES ASSUME Init PROVE ReportKnown
  OBVIOUS
<1>1. SpeechTold
  BY InitTold
<1>2. params \in CallParams /\ i \in Nat /\ (stage = "scan" => params.vad /\ ScanOK(scan, i * n_window))
  BY <1>1 DEF SpeechTold
<1>3. table = {} /\ stage # "done" /\ result_all = Old /\ n_samples = params.n_samples
  BY DEF Init
<1>4. n_samples \in Nat
  BY <1>2, <1>3, CallAssumption
<1>5. \A c \in Chunks : InARow(chunk[c].result_all)
  BY OldInOrder DEF Init, Running
<1>6. DOMAIN chunk = Chunks
  BY DEF Init
<1> QED
  BY <1>2, <1>3, <1>4, <1>5, <1>6 DEF ReportKnown

(* As long as the call, its chunks and the audio stay, only the stage and   *)
(* the results matter.                                                      *)
LEMMA ResultsKnown ==
  ASSUME ReportKnown, UNCHANGED <<params, table, n_samples, chunk>>, i' \in Nat,
         stage' = "scan" => stage = "scan" /\ ScanOK(scan', i' * n_window),
         IF stage' = "done"
         THEN InARow(result_all') /\ (TimesFit /\ WithinChunks => InOrder(result_all'))
         ELSE result_all' = Old
  PROVE  ReportKnown'
<1>1. /\ params \in CallParams /\ (table = {} \/ Ordered(table)) /\ n_samples \in Nat
      /\ (\A c \in Chunks : InARow(chunk[c].result_all)) /\ DOMAIN chunk = Chunks
      /\ stage = "scan" => params.vad /\ table = {}
  BY DEF ReportKnown
<1>2. /\ offset_samples' = offset_samples /\ Chunks' = Chunks
      /\ n_samples_per_processor' = n_samples_per_processor
  BY DEF offset_samples, Chunks, n_samples_per_processor
<1>3. \A c : ChunkSamples(c)' = ChunkSamples(c)
  BY <1>2 DEF ChunkSamples
<1>4. (WithinChunks' => WithinChunks) /\ (TimesFit' => TimesFit)
  BY <1>2, <1>3 DEF WithinChunks, TimesFit
<1>5. stage' = "scan" => params'.vad /\ ScanOK(scan', i' * n_window) /\ table' = {}
  BY <1>1
<1>6. IF stage' = "done"
      THEN InARow(result_all') /\ (TimesFit' /\ WithinChunks' => InOrder(result_all'))
      ELSE result_all' = Old
  BY <1>4
<1>7. DOMAIN chunk' = Chunks' /\ \A c \in Chunks' : InARow(chunk'[c].result_all)
  BY <1>1, <1>2
<1>8. n_samples' \in Nat /\ params' \in CallParams /\ (table' = {} \/ Ordered(table'))
  BY <1>1
<1> QED
  BY <1>5, <1>6, <1>7, <1>8 DEF ReportKnown

(* How the audio is divided, whatever overflows.                            *)
LEMMA ShareKnown ==
  ASSUME ReportKnown
  PROVE  /\ params.n_processors \in Nat \ {0} /\ params.offset_ms \in Nat
         /\ offset_samples \in Int /\ n_samples_per_processor \in Int
<1>1. params \in CallParams /\ n_samples \in Nat
  BY DEF ReportKnown
<1>2. params.n_processors \in Nat \ {0} /\ params.offset_ms \in Nat
  BY <1>1, CallAssumption
<1>3. offset_samples \in Int
  <2>1. PICK x : x = 16000 * params.offset_ms /\ x \in Int
    BY <1>2
  <2>2. Wrapped(x) \in Int
    BY <2>1, WrappedIs
  <2>3. Quot(Wrapped(x), 1000) \in Int
    BY <2>2, QuotIs
  <2> QED
    BY <2>1, <2>3 DEF offset_samples
<1>4. n_samples_per_processor \in Int
  <2>1. PICK z : z = n_samples - offset_samples /\ z \in Int
    BY <1>1, <1>3
  <2>2. Quot(z, params.n_processors) \in Int
    BY <1>2, <2>1, QuotIs
  <2> QED
    BY <2>1, <2>2 DEF n_samples_per_processor
<1> QED
  BY <1>2, <1>3, <1>4

(* A thread hands over segments in a row.                                   *)
LEMMA ChunkReports ==
  ASSUME ReportKnown, OutcomesInARow, NEW c \in Chunks, ChunkEnds(c)
  PROVE  ReportKnown'
<1>1. /\ params \in CallParams /\ i \in Nat /\ (table = {} \/ Ordered(table))
      /\ n_samples \in Nat
      /\ DOMAIN chunk = Chunks /\ (\A d \in Chunks : InARow(chunk[d].result_all))
      /\ stage # "done" => result_all = Old
  BY DEF ReportKnown
<1>2. PICK segs \in Outcomes(ChunkSamples(c)), rc \in {0, -6} :
        chunk' = [chunk EXCEPT ![c] = [ended |-> TRUE, ret |-> rc, result_all |-> segs]]
  BY DEF ChunkEnds
<1>3. /\ stage = "work" /\ (stage' = "combine" \/ stage' = stage)
      /\ UNCHANGED <<params, i, table, n_samples, result_all>>
  BY DEF ChunkEnds, scanVars
<1>4. /\ DOMAIN chunk' = Chunks /\ chunk'[c].result_all = segs
      /\ \A d \in Chunks \ {c} : chunk'[d] = chunk[d]
  BY <1>1, <1>2
<1>5. /\ params.n_processors \in Nat \ {0} /\ offset_samples \in Int
      /\ n_samples_per_processor \in Int
  BY ShareKnown
<1>6. ChunkSamples(c) \in Int
  <2>1. c \in Nat
    BY <1>5 DEF Chunks
  <2>2. PICK x : x = c * n_samples_per_processor /\ x \in Int
    BY <1>5, <2>1
  <2>3. ChunkSamples(c) \in
          {offset_samples + n_samples_per_processor, n_samples - offset_samples - x,
           n_samples_per_processor}
    BY <2>2, Zenon DEF ChunkSamples
  <2> QED
    BY <1>1, <1>5, <2>2, <2>3
<1>7. InARow(segs)
  BY <1>2, <1>6 DEF OutcomesInARow
<1>8. Chunks' = Chunks
  BY <1>3 DEF Chunks
<1>9. \A d \in Chunks' : InARow(chunk'[d].result_all)
  BY <1>1, <1>4, <1>7, <1>8
<1> QED
  BY <1>1, <1>3, <1>4, <1>8, <1>9 DEF ReportKnown

(* The threads have been joined.                                            *)
LEMMA CombineReports ==
  ASSUME ReportKnown, Combine
  PROVE  ReportKnown'
<1>1. PICK p : p = params.n_processors
  OBVIOUS
<1>2. /\ stage' = "done" /\ UNCHANGED <<params, i, table, n_samples, chunk>>
      /\ result_all' = Brought(p)
  BY <1>1 DEF Combine, scanVars, Brought
<1>3. i \in Nat /\ n_samples \in Nat /\ \A c \in Chunks : InARow(chunk[c].result_all)
  BY DEF ReportKnown
<1>4. /\ p \in Nat \ {0} /\ params.n_processors \in Nat \ {0} /\ params.offset_ms \in Nat
      /\ n_samples_per_processor \in Int
  BY <1>1, ShareKnown
<1>5. Chunks = 0 .. p - 1 /\ 0 \in Chunks
  BY <1>1, <1>4 DEF Chunks
<1>6. InARow(result_all')
  <2>1. ASSUME NEW c \in 0 .. p - 1
        PROVE  chunk[c].result_all \in Seq(Segment) /\ ChunkStart(c) \in Int
    <3>1. InARow(chunk[c].result_all) /\ c \in Int
      BY <1>3, <1>5
    <3> QED
      BY <1>4, <3>1, StartKnown DEF InARow
  <2>2. InARow(chunk[0].result_all)
    BY <1>3, <1>5
  <2> QED
    BY <1>2, <1>4, <2>1, <2>2, BroughtInARow
<1>7. ASSUME TimesFit, WithinChunks PROVE InOrder(result_all')
  <2>1. /\ offset_samples = Ms(params.offset_ms) /\ n_samples_per_processor \in Nat
        /\ \A c \in Chunks : ChunkStart(c) = TrueStart(c)
    BY <1>3, <1>4, <1>7, Divided
  <2>2. ASSUME NEW c \in Chunks PROVE InTime(chunk[c].result_all)
    <3>1. PICK r : r = chunk[c].result_all /\ InARow(r)
      BY <1>3
    <3>2. r \in Seq(Segment) /\ DOMAIN r = 1 .. Len(r)
      BY <3>1 DEF InARow
    <3>3. \A k \in 1 .. Len(r) : 0 <= r[k].t0 /\ r[k].t0 <= r[k].t1
      BY <1>7, <3>1, <3>2 DEF WithinChunks
    <3> QED
      BY <3>1, <3>2, <3>3 DEF InTime, InARow
  <2> QED
    BY <1>1, <1>2, <1>4, <1>7, <2>1, <2>2, BroughtTidy
<1> QED
  BY <1>2, <1>3, <1>6, <1>7, ResultsKnown

LEMMA NextReport ==
  ASSUME SpeechOutlastsWindow, OutcomesInARow
  PROVE  ReportKnown /\ [Next]_vars => ReportKnown'
<1> SUFFICES ASSUME ReportKnown, [Next]_vars PROVE ReportKnown'
  OBVIOUS
<1>0. params \in CallParams /\ i \in Nat /\ n_window \in Nat /\ i * n_window \in Nat
  BY WindowAssumption DEF ReportKnown
<1>1. CASE ScanWindow
  <2>1. /\ stage = "scan" /\ i' = i + 1 /\ stage' = stage
        /\ UNCHANGED <<params, table, n_samples, chunk, result_all>>
        /\ \E level \in Levels : scan' = Window(scan, level, i * n_window, params)
    BY <1>1 DEF ScanWindow
  <2>2. params.vad /\ ScanOK(scan, i * n_window) /\ result_all = Old
    BY <2>1 DEF ReportKnown
  <2>3. PICK level \in Levels : scan' = Window(scan, level, i * n_window, params)
    BY <2>1
  <2>4. ScanOK(scan', i * n_window + n_window)
    BY <1>0, <2>2, <2>3, WindowOK
  <2>5. i * n_window + n_window = (i + 1) * n_window
    BY <1>0
  <2>6. ScanOK(scan', i' * n_window)
    BY <2>1, <2>4, <2>5
  <2> QED
    BY <1>0, <2>1, <2>2, <2>6, ResultsKnown
<1>2. CASE EndOfScan
  <2>1. /\ stage = "scan" /\ i = NProbs(params.n_samples) /\ i' = i
        /\ UNCHANGED <<params, chunk>>
        /\ segments' = Segments(scan, i * n_window, params)
        /\ \/ /\ stage' = "done" /\ UNCHANGED <<table, n_samples>>
              /\ result_all' = <<>> \/ result_all' = result_all
           \/ /\ stage' = "work" /\ result_all' = result_all
              /\ table' = MappingTable(segments', params.n_samples)
              /\ n_samples' = FilteredSamples(segments', params.n_samples)
    BY <1>2 DEF EndOfScan
  <2>2. /\ params.vad /\ ScanOK(scan, i * n_window) /\ result_all = Old
        /\ DOMAIN chunk = Chunks /\ \A c \in Chunks : InARow(chunk[c].result_all)
    BY <2>1 DEF ReportKnown
  <2>3. CASE /\ stage' = "done" /\ UNCHANGED <<table, n_samples>>
             /\ result_all' = <<>> \/ result_all' = result_all
    <3>1. InARow(result_all') /\ InOrder(result_all')
      BY <2>2, <2>3, OldInOrder
    <3> QED
      BY <1>0, <2>1, <2>3, <3>1, ResultsKnown
  <2>4. CASE /\ stage' = "work" /\ result_all' = result_all
             /\ table' = MappingTable(segments', params.n_samples)
             /\ n_samples' = FilteredSamples(segments', params.n_samples)
    <3>1. PICK N, M : N = params.n_samples /\ M = Ms(params.min_speech)
      OBVIOUS
    <3>2. params.speech_pad \in Nat /\ params.min_speech \in Nat /\ N \in Nat
      BY <1>0, <2>2, <3>1, CallAssumption
    <3>3. M \in Nat /\ n_window + 3 * (Cs \div 2) <= M
      BY <1>0, <2>2, <3>1, <3>2 DEF SpeechOutlastsWindow, Ms
    <3>4. i * n_window <= N + n_window - 1
      BY <2>1, <3>1, <3>2, WindowsCover
    <3>5. Fits(segments', N)
      BY <1>0, <2>1, <2>2, <3>1, <3>2, <3>3, <3>4, SegmentsFit
    <3>6. table' = {} \/ Ordered(table')
      BY <2>4, <3>1, <3>5, TableOrdered
    <3>7. n_samples' \in Nat
      BY <2>4, <3>1, <3>5, FilteredIs
    <3>8. Chunks' = Chunks
      BY <2>1 DEF Chunks
    <3> QED
      BY <1>0, <2>1, <2>2, <2>4, <3>6, <3>7, <3>8 DEF ReportKnown
  <2> QED
    BY <2>1, <2>3, <2>4
<1>3. CASE VadFails
  <2>1. /\ stage = "scan" /\ stage' = "done" /\ UNCHANGED <<params, i, table, n_samples, chunk>>
        /\ result_all' = result_all
    BY <1>3 DEF VadFails, scanVars
  <2>2. InARow(result_all') /\ InOrder(result_all')
    BY <2>1, OldInOrder DEF ReportKnown
  <2> QED
    BY <1>0, <2>1, <2>2, ResultsKnown
<1>4. ASSUME NEW c \in Chunks, ChunkEnds(c) PROVE ReportKnown'
  BY <1>4, ChunkReports
<1>5. CASE Combine
  BY <1>5, CombineReports
<1>6. CASE UNCHANGED vars
  <2>1. UNCHANGED <<params, stage, i, scan, table, n_samples, chunk, result_all>>
    BY <1>6 DEF vars, scanVars
  <2>2. /\ IF stage = "done"
           THEN InARow(result_all) /\ (TimesFit /\ WithinChunks => InOrder(result_all))
           ELSE result_all = Old
        /\ stage = "scan" => ScanOK(scan, i * n_window)
    BY DEF ReportKnown
  <2> QED
    BY <1>0, <2>1, <2>2, ResultsKnown
<1> QED
  BY <1>1, <1>2, <1>3, <1>4, <1>5, <1>6 DEF Next, Done

(* No segment of a call is reported to end after the next starts but for    *)
(* its least duration (whisper_full_parallel, and                           *)
(* whisper_full_get_segment_t0 and _t1 with the map of whisper_vad), for    *)
(* every number of processors, every way the audio is divided, every offset *)
(* and length, overflowing or not, whichever thread fails and all results   *)
(* of the threads of which none begins before the one before it ends.  They *)
(* start in order, too, when the times fit into an int, the offset lies     *)
(* within the audio, and the segments of each chunk lie within it and end   *)
(* no earlier than they begin.                                              *)
THEOREM ReportsInOrder ==
  SpeechOutlastsWindow /\ OutcomesInARow => (Spec => []ReportedInOrder)
<1> SUFFICES ASSUME SpeechOutlastsWindow, OutcomesInARow
             PROVE  Spec => []ReportedInOrder
  OBVIOUS
<1>1. Init => ReportKnown
  BY InitReport
<1>2. ReportKnown /\ [Next]_vars => ReportKnown'
  BY NextReport
<1>3. ReportKnown => ReportedInOrder
  <2> SUFFICES ASSUME ReportKnown, stage = "done", NEW k \in 1 .. Len(result_all) - 1
               PROVE  LET a == Reported(result_all[k])
                          b == Reported(result_all[k + 1])
                      IN  /\ a.t1 <= Max({b.t0, a.t0 + 10})
                          /\ TimesFit /\ WithinChunks => a.t0 <= b.t0
    BY DEF ReportedInOrder
  <2>1. /\ InARow(result_all) /\ (table = {} \/ Ordered(table))
        /\ TimesFit /\ WithinChunks => InOrder(result_all)
    BY DEF ReportKnown
  <2> QED
    BY <2>1, RowReported
<1> QED
  BY <1>1, <1>2, <1>3, PTL DEF Spec
=============================================================================
