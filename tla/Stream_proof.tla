----------------------------- MODULE Stream_proof -----------------------------
(***************************************************************************)
(* Proofs about audio_async for every size of the ring and of the          *)
(* callbacks: the ring stays well formed, and with the wrap hidden it is   *)
(* the memory of the most recent samples that RecentAudio describes.       *)
(*                                                                         *)
(* The application uses the ring as any user of it may, so that what it    *)
(* takes out of it is always the most recent audio.  The samples then stay *)
(* in order on their way from the microphone to the window: every window   *)
(* is increasing and of the length main expects, and the lines share no    *)
(* more than keep_ms of it.                                                *)
(***************************************************************************)
EXTENDS Stream, SequenceTheorems, FiniteSetTheorems, TLAPS

(* A cell that get reads is a cell. *)
LEMMA CellInRing ==
  ASSUME m_audio_pos \in Cells, NEW m \in 0 .. Size, NEW k \in 1 .. m
  PROVE  Cell(m, k) \in Cells
BY AudioAssumption DEF Cell, Wrapped, Cells

-----------------------------------------------------------------------------
(* What a callback delivers fits into the ring. *)
LEMMA DeliveredFits ==
  ASSUME produced \in Nat, NEW n \in ChunkSizes
  PROVE  /\ Delivered(n) \in Seq(Nat)
         /\ Len(Delivered(n)) <= Size /\ Len(Delivered(n)) > 0
<1> DEFINE m == Least(n, Size)
<1>1. n \in Nat \ {0} /\ Size \in Nat \ {0}
  BY AudioAssumption
<1>2. m \in Nat /\ m <= Size /\ m <= n /\ m > 0
  BY <1>1 DEF Least
<1>3. \A k \in 1 .. m : produced + n - m + k \in Nat
  BY <1>1, <1>2
<1> HIDE DEF m
<1>4. Delivered(n) = [k \in 1 .. m |-> produced + n - m + k]
  BY DEF Delivered, m
<1>5. Delivered(n) \in [1 .. m -> Nat]
  BY <1>3, <1>4
<1> QED
  BY <1>2, <1>5

(* The ring stays well formed. *)
LEMMA RingStep ==
  ASSUME RingOK, [AudioNext]_audioVars
  PROVE  RingOK'
<1> USE AudioAssumption DEF RingOK
<1>1. ASSUME NEW n \in ChunkSizes, CallbackBegin(n) PROVE RingOK'
  <2>1. produced' \in Nat
    BY <1>1 DEF CallbackBegin
  <2>2. arriving' \in Seq(Nat) /\ Len(arriving') <= Size
    BY <1>1, DeliveredFits DEF CallbackBegin
  <2> QED
    BY <1>1, <2>1, <2>2 DEF CallbackBegin, ring
<1>2. CASE CallbackWrite
  <2>1. m_audio' \in [Cells -> Nat]
    <3>1. \A c \in Cells : Behind(c) < Len(arriving) => arriving[Behind(c) + 1] \in Nat
      BY SMTT(30) DEF Behind, Cells
    <3> QED
      BY <1>2, <3>1 DEF CallbackWrite, Written
  <2>2. Len(arriving) \in Nat
    OBVIOUS
  <2>3. m_audio_pos' \in Cells
    BY <1>2, <2>2 DEF CallbackWrite, Wrapped, Cells
  <2>4. m_audio_len' \in 0 .. Size
    BY <1>2, <2>2 DEF CallbackWrite, Least
  <2>5. arriving' \in Seq(Nat) /\ Len(arriving') <= Size
    BY <1>2 DEF CallbackWrite
  <2> QED
    BY <1>2, <2>1, <2>3, <2>4, <2>5 DEF CallbackWrite
<1>3. CASE Clear
  BY <1>3 DEF Clear, Cells
<1>4. ASSUME NEW n \in Nat, Get(n) PROVE RingOK'
  BY <1>4 DEF Get, ring
<1>5. ASSUME NEW on \in BOOLEAN, TurnDevice(on) PROVE RingOK'
  BY <1>5 DEF TurnDevice, ring
<1>6. ASSUME NEW on \in BOOLEAN, SetRunning(on) PROVE RingOK'
  BY <1>6 DEF SetRunning, ring
<1>7. CASE UNCHANGED audioVars
  BY <1>7 DEF audioVars, ring
<1> QED
  BY <1>1, <1>2, <1>3, <1>4, <1>5, <1>6, <1>7 DEF AudioNext, Callback

(* The ring is well formed at first. *)
LEMMA RingInit == AudioInit => RingOK
<1> SUFFICES ASSUME AudioInit PROVE RingOK
  OBVIOUS
<1>1. Size \in Nat \ {0} /\ <<>> \in Seq(Nat) /\ Len(<<>>) = 0
  BY AudioAssumption
<1>2. m_audio \in [Cells -> Nat]
  BY DEF AudioInit
<1>3. m_audio_pos \in Cells /\ m_audio_len \in 0 .. Size
  BY <1>1 DEF AudioInit, Cells
<1>4. arriving \in Seq(Nat) /\ Len(arriving) <= Size
  BY <1>1 DEF AudioInit
<1> QED
  BY <1>2, <1>3, <1>4 DEF AudioInit, RingOK

(* The position is a cell and the length at most the size, so that no       *)
(* access of callback or get lies outside m_audio, for every size of the    *)
(* ring and of the callbacks.                                               *)
THEOREM RingWellFormed == AudioSpec => []RingOK
BY RingInit, RingStep, PTL DEF AudioSpec

-----------------------------------------------------------------------------
(* What the ring remembers, as a sequence. *)
LEMMA RecentIsSeq ==
  ASSUME RingOK
  PROVE  /\ Recent \in Seq(Nat) /\ Len(Recent) = m_audio_len
         /\ \A k \in 1 .. m_audio_len : Recent[k] = m_audio[Cell(m_audio_len, k)]
<1>1. \A k \in 1 .. m_audio_len : Cell(m_audio_len, k) \in Cells
  BY CellInRing DEF RingOK
<1>2. Recent \in [1 .. m_audio_len -> Nat]
  BY <1>1 DEF Recent, RingOK
<1> QED
  BY <1>2 DEF Recent, RingOK

(* The last n of a sequence. *)
LEMMA LastOfSeq ==
  ASSUME NEW s \in Seq(Nat), NEW n \in Nat
  PROVE  LET m == Least(n, Len(s))
         IN  /\ Memory!LastOf(s, n) \in Seq(Nat)
             /\ Len(Memory!LastOf(s, n)) = m
             /\ \A k \in 1 .. m : Memory!LastOf(s, n)[k] = s[Len(s) - m + k]
<1> DEFINE m == Least(n, Len(s))
<1>1. m \in Nat /\ m <= Len(s)
  BY DEF Least
<1>2. Memory!LastOf(s, n) = SubSeq(s, Len(s) - m + 1, Len(s))
  BY DEF Memory!LastOf, Memory!Least, Least
<1> HIDE DEF m
<1>3. /\ SubSeq(s, Len(s) - m + 1, Len(s)) \in Seq(Nat)
      /\ Len(SubSeq(s, Len(s) - m + 1, Len(s))) = m
      /\ \A k \in 1 .. m : SubSeq(s, Len(s) - m + 1, Len(s))[k] = s[Len(s) - m + k]
  <2>1. Len(s) \in Nat /\ \A j \in (Len(s) - m + 1) .. Len(s) : s[j] \in Nat
    BY <1>1
  <2>2. /\ SubSeq(s, Len(s) - m + 1, Len(s)) \in Seq(Nat)
        /\ Len(SubSeq(s, Len(s) - m + 1, Len(s)))
             = IF Len(s) - m + 1 <= Len(s) THEN Len(s) - (Len(s) - m + 1) + 1 ELSE 0
        /\ \A j \in 1 .. Len(s) - (Len(s) - m + 1) + 1 :
             SubSeq(s, Len(s) - m + 1, Len(s))[j] = s[Len(s) - m + 1 + j - 1]
    BY <1>1, <2>1, SubSeqProperties
  <2> QED
    BY <1>1, <2>1, <2>2
<1> QED
  BY <1>2, <1>3 DEF m

-----------------------------------------------------------------------------
(* Cell and Behind for a ring whose position is p. *)
CellAt(p, m, k) ==
  LET s0 == IF p - m < 0 THEN p - m + Size ELSE p - m
  IN  Wrapped(s0 + k - 1)
BehindAt(p, c) == IF c >= p THEN c - p ELSE c - p + Size

(* After n samples have been written at p, the k-th of the L2 that are      *)
(* remembered lies in one of the cells just written, or where it lay among  *)
(* the L remembered before, and has not been written over.                  *)
LEMMA RingIndex ==
  ASSUME NEW p \in Cells, NEW L \in 0 .. Size, NEW n \in 1 .. Size,
         NEW k \in 1 .. Least(L + n, Size)
  PROVE  LET L2 == Least(L + n, Size)
             c  == CellAt(Wrapped(p + n), L2, k)
         IN  /\ c \in Cells
             /\ k > L2 - n => BehindAt(p, c) = n - L2 + k - 1
             /\ k <= L2 - n => /\ BehindAt(p, c) >= n
                               /\ c = CellAt(p, L, L + n - L2 + k)
<1>1. /\ Size \in Nat \ {0} /\ p \in 0 .. Size - 1 /\ L \in Nat /\ L <= Size
      /\ n \in Nat /\ 0 < n /\ n <= Size
  BY AudioAssumption DEF Cells
<1>2. PICK L2 \in 1 .. Size : /\ L2 = Least(L + n, Size)
                              /\ L2 = L + n \/ (L2 = Size /\ Size <= L + n)
                              /\ L2 <= L + n
  BY <1>1 DEF Least
<1>3. k \in 1 .. L2
  BY <1>2
<1>4. PICK q \in 0 .. Size - 1 : /\ q = Wrapped(p + n)
                                 /\ q = p + n \/ q = p + n - Size
  <2>1. /\ Wrapped(p + n) \in 0 .. Size - 1
        /\ Wrapped(p + n) = p + n \/ Wrapped(p + n) = p + n - Size
    BY <1>1 DEF Wrapped
  <2> QED
    BY <2>1
<1>5. PICK c \in 0 .. Size - 1 : /\ c = CellAt(q, L2, k)
                                 /\ \/ c = q - L2 + k - 1
                                    \/ c = q - L2 + k - 1 + Size
  BY <1>1, <1>2, <1>3, <1>4 DEF CellAt, Wrapped
<1>6. ASSUME k > L2 - n PROVE BehindAt(p, c) = n - L2 + k - 1
  BY <1>1, <1>2, <1>3, <1>4, <1>5, <1>6 DEF BehindAt
<1>7. ASSUME k <= L2 - n
      PROVE  BehindAt(p, c) >= n /\ c = CellAt(p, L, L + n - L2 + k)
  <2>1. BehindAt(p, c) >= n
    BY <1>1, <1>2, <1>3, <1>4, <1>5, <1>7 DEF BehindAt
  <2>2. c = CellAt(p, L, L + n - L2 + k)
    BY <1>1, <1>2, <1>3, <1>4, <1>5, <1>7 DEF CellAt, Wrapped
  <2> QED
    BY <2>1, <2>2
<1> QED
  BY <1>2, <1>4, <1>5, <1>6, <1>7 DEF Cells

(* A callback's write is remembered after what there was. *)
LEMMA WriteRemembers ==
  ASSUME RingOK, CallbackWrite
  PROVE  Recent' = Memory!LastOf(Recent \o arriving, Size)
<1> DEFINE L == m_audio_len
           n == Len(arriving)
           L2 == Least(L + n, Size)
           both == Recent \o arriving
<1>1. /\ n \in 1 .. Size /\ L \in 0 .. Size /\ m_audio_pos \in Cells
      /\ Size \in Nat \ {0} /\ m_audio \in [Cells -> Nat]
  BY AudioAssumption DEF CallbackWrite, RingOK
<1>2. /\ m_audio' = Written
      /\ m_audio_len' = L2 /\ m_audio_pos' = Wrapped(m_audio_pos + n)
  <2>1. m_audio' = Written
    BY DEF CallbackWrite
  <2>2. m_audio_len' = Least(m_audio_len + Len(arriving), Size)
    BY DEF CallbackWrite
  <2>3. m_audio_pos' = Wrapped(m_audio_pos + Len(arriving))
    BY DEF CallbackWrite
  <2> QED
    BY <2>1, <2>2, <2>3
<1>3. /\ Recent \in Seq(Nat) /\ Len(Recent) = L
      /\ \A k \in 1 .. L : Recent[k] = m_audio[Cell(L, k)]
  BY RecentIsSeq
<1>4. Recent' = [k \in 1 .. L2 |-> m_audio'[CellAt(Wrapped(m_audio_pos + n), L2, k)]]
  BY <1>2 DEF Recent, Cell, CellAt
<1>5. arriving \in Seq(Nat) /\ Len(arriving) = n /\ n \in Nat
  BY DEF RingOK
<1> HIDE DEF L, n
<1>6. L2 \in 1 .. Size /\ L2 <= L + n /\ Least(Size, L + n) = L2
  BY <1>1 DEF Least
<1> HIDE DEF L2
<1>7. /\ both \in Seq(Nat) /\ Len(both) = L + n
      /\ \A j \in 1 .. L + n : both[j] = IF j <= L THEN Recent[j] ELSE arriving[j - L]
  BY <1>3, <1>5, ConcatProperties
<1> HIDE DEF both
<1>8. /\ Memory!LastOf(both, Size) \in Seq(Nat)
      /\ Len(Memory!LastOf(both, Size)) = L2
      /\ \A k \in 1 .. L2 : Memory!LastOf(both, Size)[k] = both[L + n - L2 + k]
  <2>1. both \in Seq(Nat) /\ Size \in Nat /\ Least(Size, Len(both)) = L2
    BY <1>1, <1>6, <1>7
  <2> QED
    <3> DEFINE m == Least(Size, Len(both))
    <3>1. /\ Memory!LastOf(both, Size) \in Seq(Nat)
          /\ Len(Memory!LastOf(both, Size)) = m
          /\ \A k \in 1 .. m : Memory!LastOf(both, Size)[k] = both[Len(both) - m + k]
      BY <2>1, LastOfSeq
    <3>2. m = L2 /\ Len(both) = L + n
      BY <1>7, <2>1
    <3> HIDE DEF m
    <3> QED
      <4>1. \A k \in 1 .. L2 : Len(both) - m + k = L + n - L2 + k
        BY <1>1, <1>6, <3>2
      <4> QED
        BY <3>1, <3>2, <4>1, Zenon
<1>9. ASSUME NEW k \in 1 .. L2
      PROVE  m_audio'[CellAt(Wrapped(m_audio_pos + n), L2, k)] = both[L + n - L2 + k]
  <2> DEFINE c == CellAt(Wrapped(m_audio_pos + n), L2, k)
  <2>1. /\ c \in Cells
        /\ k > L2 - n => BehindAt(m_audio_pos, c) = n - L2 + k - 1
        /\ k <= L2 - n => /\ BehindAt(m_audio_pos, c) >= n
                          /\ c = CellAt(m_audio_pos, L, L + n - L2 + k)
    BY <1>1, RingIndex DEF L2
  <2> HIDE DEF c
  <2>2. m_audio'[c] = IF BehindAt(m_audio_pos, c) < n
                      THEN arriving[BehindAt(m_audio_pos, c) + 1] ELSE m_audio[c]
    BY <1>2, <2>1 DEF Written, Behind, BehindAt, n
  <2>3. CASE k > L2 - n
    <3>1. BehindAt(m_audio_pos, c) < n /\ BehindAt(m_audio_pos, c) + 1 = n - L2 + k
      BY <1>1, <1>6, <2>1, <2>3
    <3>2. both[L + n - L2 + k] = arriving[n - L2 + k]
      BY <1>1, <1>6, <1>7, <2>3
    <3> QED
      BY <2>2, <3>1, <3>2 DEF c
  <2>4. CASE k <= L2 - n
    <3>1. ~(BehindAt(m_audio_pos, c) < n)
      <4>1. BehindAt(m_audio_pos, c) \in Int
        BY <1>1, <2>1 DEF BehindAt, Cells
      <4> QED
        BY <1>1, <2>1, <2>4, <4>1
    <3>2. both[L + n - L2 + k] = m_audio[Cell(L, L + n - L2 + k)]
      BY <1>1, <1>3, <1>6, <1>7, <2>4, SMTT(30)
    <3>3. Cell(L, L + n - L2 + k) = c
      BY <2>1, <2>4 DEF Cell, CellAt
    <3> QED
      BY <2>2, <3>1, <3>2, <3>3 DEF c
  <2> QED
    BY <1>1, <1>6, <2>3, <2>4
<1>10. Recent' = [k \in 1 .. L2 |-> both[L + n - L2 + k]]
  BY <1>4, <1>9
<1>11. Memory!LastOf(both, Size) = [k \in 1 .. L2 |-> both[L + n - L2 + k]]
  BY <1>1, <1>8
<1> QED
  BY <1>10, <1>11 DEF both

(* What get returns is the last of what is remembered. *)
LEMMA GetReturnsLast ==
  ASSUME RingOK, NEW n \in Nat
  PROVE  Result(n) = Memory!LastOf(Recent, IF n \in 1 .. Size THEN n ELSE Size)
<1> DEFINE q == IF n \in 1 .. Size THEN n ELSE Size
           L == m_audio_len
           m == Least(q, L)
<1>1. /\ q \in 1 .. Size /\ L \in 0 .. Size /\ m_audio_pos \in Cells
      /\ Size \in Nat \ {0}
  BY AudioAssumption DEF RingOK
<1>2. m \in 0 .. L
  BY <1>1 DEF Least
<1>3. Result(n) = [k \in 1 .. m |-> m_audio[Cell(m, k)]]
  <2>1. Least(IF n <= 0 THEN Size ELSE n, L) = m
    BY <1>1 DEF Least
  <2> QED
    BY <2>1 DEF Result
<1>4. /\ Recent \in Seq(Nat) /\ Len(Recent) = L
      /\ \A k \in 1 .. L : Recent[k] = m_audio[Cell(L, k)]
  BY RecentIsSeq
<1> HIDE DEF q, L
<1>5. /\ Memory!LastOf(Recent, q) \in Seq(Nat)
      /\ Len(Memory!LastOf(Recent, q)) = m
      /\ \A k \in 1 .. m : Memory!LastOf(Recent, q)[k] = Recent[L - m + k]
  <2>1. q \in Nat
    BY <1>1
  <2> QED
    BY <2>1, <1>4, LastOfSeq
<1> HIDE DEF m
<1>6. ASSUME NEW k \in 1 .. m PROVE m_audio[Cell(m, k)] = Recent[L - m + k]
  <2>1. L - m + k \in 1 .. L
    BY <1>1, <1>2
  <2>2. Cell(m, k) = Cell(L, L - m + k)
    BY <1>1, <1>2 DEF Cell, Wrapped, Cells
  <2> QED
    BY <1>4, <2>1, <2>2
<1>7. Memory!LastOf(Recent, q) = [k \in 1 .. m |-> Recent[L - m + k]]
  BY <1>2, <1>5
<1>8. Result(n) = [k \in 1 .. m |-> Recent[L - m + k]]
  BY <1>3, <1>6
<1> QED
  BY <1>7, <1>8 DEF q

-----------------------------------------------------------------------------
(* Every step of the ring is a step of the memory, or none that its users  *)
(* can see.                                                                *)
LEMMA RingStepRefines ==
  ASSUME RingOK, RingOK', [AudioNext]_audioVars
  PROVE  [Memory!Next]_(Memory!recentVars)
<1> USE DEF Memory!recentVars
<1>1. ASSUME UNCHANGED <<ring, arriving, got>>
      PROVE  UNCHANGED Memory!recentVars
  BY <1>1 DEF ring, Recent, Cell, Wrapped
<1>2. ASSUME UNCHANGED ring PROVE Recent' = Recent
  BY <1>2 DEF ring, Recent, Cell, Wrapped
<1>3. ASSUME NEW n \in ChunkSizes, CallbackBegin(n)
      PROVE  [Memory!Next]_(Memory!recentVars)
  <2>1. Recent' = Recent
    BY <1>2, <1>3 DEF CallbackBegin
  <2>2. CASE arriving' = <<>>
    BY <1>3, <2>1, <2>2 DEF CallbackBegin
  <2>3. CASE arriving' # <<>>
    BY <1>3, <2>1, <2>3 DEF CallbackBegin, Memory!Arrive, Memory!Next
  <2> QED
    BY <2>2, <2>3
<1>4. CASE CallbackWrite
  <2>1. Recent' = Memory!LastOf(Recent \o arriving, Size)
    BY <1>4, WriteRemembers
  <2>2. arriving' = <<>> /\ got' = got
    BY <1>4 DEF CallbackWrite
  <2> QED
    BY <2>1, <2>2 DEF Memory!Remember, Memory!Next
<1>5. CASE Clear
  <2>1. Recent' = <<>>
    BY <1>5, RecentIsSeq DEF Clear, RingOK, Recent
  <2>2. arriving' = arriving /\ got' = got
    BY <1>5 DEF Clear
  <2> QED
    BY <2>1, <2>2 DEF Memory!Forget, Memory!Next
<1>6. ASSUME NEW n \in Nat, Get(n)
      PROVE  [Memory!Next]_(Memory!recentVars)
  <2> DEFINE q == IF n \in 1 .. Size THEN n ELSE Size
  <2>1. q \in 0 .. Size
    BY AudioAssumption
  <2>2. got' = Memory!LastOf(Recent, q)
    BY <1>6, GetReturnsLast DEF Get
  <2>3. Recent' = Recent /\ arriving' = arriving
    BY <1>2, <1>6 DEF Get
  <2> HIDE DEF q
  <2> QED
    BY <2>1, <2>2, <2>3 DEF Memory!Answer, Memory!Next
<1>7. ASSUME NEW on \in BOOLEAN, TurnDevice(on) \/ SetRunning(on)
      PROVE  UNCHANGED Memory!recentVars
  BY <1>1, <1>7 DEF TurnDevice, SetRunning
<1>8. CASE UNCHANGED audioVars
  BY <1>1, <1>8 DEF audioVars
<1> QED
  BY <1>3, <1>4, <1>5, <1>6, <1>7, <1>8 DEF AudioNext, Callback

(* At first neither remembers anything. *)
LEMMA RingInitRefines == AudioInit => Memory!Init
<1> SUFFICES ASSUME AudioInit PROVE Memory!Init
  OBVIOUS
<1>1. Recent \in Seq(Nat) /\ Len(Recent) = 0
  BY RingInit, RecentIsSeq DEF AudioInit
<1>2. Recent = <<>>
  BY <1>1
<1> QED
  BY <1>2 DEF AudioInit, Memory!Init

(* audio_async implements the memory of the most recent samples, for every  *)
(* size of the ring, of the callbacks, and of what is asked of it.          *)
THEOREM RingRefines == AudioSpec => RecentSpec
<1>1. AudioInit => Memory!Init
  BY RingInitRefines
<1>2. RingOK /\ RingOK' /\ [AudioNext]_audioVars => [Memory!Next]_(Memory!recentVars)
  BY RingStepRefines
<1> QED
  BY <1>1, <1>2, RingWellFormed, PTL DEF AudioSpec, RecentSpec, Memory!Spec

-----------------------------------------------------------------------------
(* The application. *)
ParamsOK == params \in Params

(* What main and Ctrl-C do to the ring. *)
LEMMA StreamUsesRing ==
  ASSUME ParamsOK, [Next]_vars
  PROVE  ParamsOK' /\ [AudioNext]_audioVars
<1> USE StreamAssumption, AudioAssumption DEF ParamsOK
<1>1. ASSUME NEW n \in Nat, Get(n) PROVE AudioNext
  BY <1>1 DEF AudioNext
<1>2. ASSUME NEW on \in BOOLEAN, TurnDevice(on) \/ SetRunning(on) PROVE AudioNext
  BY <1>2 DEF AudioNext
<1>3. CASE Resume
  BY <1>2, <1>3 DEF Resume
<1>4. CASE LoopBegin \/ Poll
  BY <1>4 DEF LoopBegin, Poll, Polled
<1>5. CASE GetStep
  BY <1>1, <1>5 DEF GetStep
<1>6. CASE ClearStep
  BY <1>6 DEF ClearStep, AudioNext
<1>7. CASE MakeWindow
  BY <1>7 DEF MakeWindow
<1>8. CASE Listen
  BY <1>1, <1>8 DEF Listen
<1>9. CASE GetLength
  BY <1>1, <1>9 DEF GetLength
<1>10. CASE Infer \/ InferFails
  BY <1>10 DEF Infer, InferFails
<1>11. CASE Pause
  BY <1>2, <1>11 DEF Pause
<1>12. CASE CtrlC
  BY <1>12 DEF CtrlC
<1>13. CASE Callback /\ UNCHANGED mainVars
  BY <1>13 DEF AudioNext, mainVars
<1>14. CASE UNCHANGED vars
  BY <1>14 DEF vars, mainVars
<1> QED
  BY <1>3, <1>4, <1>5, <1>6, <1>7, <1>8, <1>9, <1>10, <1>11, <1>12, <1>13, <1>14
     DEF Next, Main

(* The ring of the streaming client implements the memory of the most       *)
(* recent samples, whatever its parameters are.                             *)
THEOREM StreamRemembers == Spec => RecentSpec
<1>1. Init => AudioInit /\ ParamsOK
  BY DEF Init, ParamsOK
<1>2. ParamsOK /\ [Next]_vars => ParamsOK' /\ [AudioNext]_audioVars
  BY StreamUsesRing
<1>3. Spec => AudioSpec
  BY <1>1, <1>2, PTL DEF Spec, AudioSpec
<1> QED
  BY <1>3, RingRefines
-----------------------------------------------------------------------------
(* The order of the samples, from the microphone to the window. *)

AtWork == {"loop", "poll", "get", "clear", "listen", "get length"}
Places == AtWork \cup {"resume", "window", "infer", "pause", "ended"}

(* Types, and the part of main's loops each value of params leads through.  *)
(* Whoever has taken a quit event leaves the loops.                         *)
MainOK ==
  /\ pc \in Places /\ is_running \in BOOLEAN /\ line_end \in Nat
  /\ pcmf32_new \in Seq(Nat) /\ pcmf32 \in Seq(Nat) /\ pcmf32_old \in Seq(Nat)
  /\ pc \in AtWork \cup {"resume"} => is_running
  /\ pc \in {"poll", "get", "clear", "window"} => ~use_vad
  /\ pc \in {"listen", "get length"} => use_vad

(* While the application takes audio, the callback drops nothing: what the  *)
(* ring remembers ends with the sample before those that are arriving, which *)
(* end with the last one produced.  Only a callback that fills the whole    *)
(* ring may come after a gap.                                               *)
EndsAt(b) ==
  /\ b <= produced - Len(arriving)
  /\ Len(arriving) < Size => b = produced - Len(arriving)
  /\ \A k \in 1 .. m_audio_len : Recent[k] = b - m_audio_len + k

HearInv ==
  /\ pc = "resume" => ~m_running /\ m_audio_len = 0 /\ arriving = <<>>
  /\ pc \notin {"resume", "ended"} => m_running
  /\ pc # "ended" =>
       /\ \A k \in 1 .. Len(arriving) : arriving[k] = produced - Len(arriving) + k
       /\ \E b \in Nat : EndsAt(b)

(* A sample that has been taken is older than those arriving, and when it   *)
(* has been cleared as well, older than those in the ring.                  *)
Taken(x) == x <= produced /\ \A k \in 1 .. Len(arriving) : x < arriving[k]
Past(x) == Taken(x) /\ \A k \in 1 .. m_audio_len : x < Recent[k]

(* What a window may take of the last line: all but keep of it is newer.    *)
OldOK ==
  /\ Increasing(pcmf32_old) /\ Past(line_end)
  /\ \A k \in 1 .. Len(pcmf32_old) :
       Past(pcmf32_old[k]) /\ (k > params.keep => pcmf32_old[k] > line_end)

NewOK ==
  /\ Increasing(pcmf32_new) /\ Len(pcmf32_new) = params.step
  /\ \A k \in 1 .. Len(pcmf32_new) :
       /\ Taken(pcmf32_new[k]) /\ pcmf32_new[k] > line_end
       /\ \A j \in 1 .. Len(pcmf32_old) : pcmf32_old[j] < pcmf32_new[k]

OrderInv ==
  pc # "ended" /\ is_running =>
    /\ OldOK
    /\ pc \in {"clear", "window"} => NewOK
    /\ pc = "window" => \A k \in 1 .. Len(pcmf32_new) : Past(pcmf32_new[k])
    /\ pc = "infer" => WindowInOrder /\ (~use_vad => pcmf32_old = pcmf32)

StreamInv == RingOK /\ ParamsOK /\ MainOK /\ HearInv /\ OrderInv

-----------------------------------------------------------------------------
(* The end of a sequence. *)
LEMMA LastNIs ==
  ASSUME NEW s \in Seq(Nat), NEW n \in 0 .. Len(s)
  PROVE  /\ LastN(s, n) \in Seq(Nat) /\ Len(LastN(s, n)) = n
         /\ \A k \in 1 .. n : LastN(s, n)[k] = s[Len(s) - n + k]
<1> DEFINE a == Len(s) - n + 1
<1>1. Len(s) \in Nat /\ n \in Nat /\ a \in Int /\ a >= 1
      /\ \A j \in a .. Len(s) : s[j] \in Nat
  OBVIOUS
<1>2. /\ SubSeq(s, a, Len(s)) \in Seq(Nat)
      /\ Len(SubSeq(s, a, Len(s))) = IF a <= Len(s) THEN Len(s) - a + 1 ELSE 0
      /\ \A j \in 1 .. Len(s) - a + 1 : SubSeq(s, a, Len(s))[j] = s[a + j - 1]
  BY <1>1, SubSeqProperties
<1> QED
  BY <1>1, <1>2 DEF LastN

(* How much of the window before is taken. *)
LEMMA TakeIs ==
  ASSUME NEW a \in Nat, NEW b \in Int
  PROVE  /\ Min({a, Max({0, b})}) \in 0 .. a
         /\ Min({a, Max({0, b})}) = 0 \/ Min({a, Max({0, b})}) <= b
<1>1. Max({0, b}) = IF b > 0 THEN b ELSE 0
  BY DEF Max
<1>2. ASSUME NEW c \in Nat PROVE Min({a, c}) = IF a <= c THEN a ELSE c
  BY DEF Min
<1> QED
  BY <1>1, <1>2

-----------------------------------------------------------------------------
(* What get returns, by the numbers of the samples. *)
LEMMA ResultIs ==
  ASSUME RingOK, NEW n \in Nat
  PROVE  \E m \in 0 .. m_audio_len :
           /\ m = Least(IF n \in 1 .. Size THEN n ELSE Size, m_audio_len)
           /\ Result(n) \in Seq(Nat) /\ Len(Result(n)) = m
           /\ \A k \in 1 .. m : Result(n)[k] = Recent[m_audio_len - m + k]
<1> DEFINE q == IF n \in 1 .. Size THEN n ELSE Size
           m == Least(q, m_audio_len)
<1>1. q \in Nat /\ m_audio_len \in Nat
  BY AudioAssumption DEF RingOK
<1>2. Result(n) = Memory!LastOf(Recent, q)
  BY GetReturnsLast
<1>3. Recent \in Seq(Nat) /\ Len(Recent) = m_audio_len
  BY RecentIsSeq
<1> HIDE DEF q
<1>4. /\ Memory!LastOf(Recent, q) \in Seq(Nat)
      /\ Len(Memory!LastOf(Recent, q)) = m
      /\ \A k \in 1 .. m : Memory!LastOf(Recent, q)[k] = Recent[m_audio_len - m + k]
  BY <1>1, <1>3, LastOfSeq
<1>5. m \in 0 .. m_audio_len
  BY <1>1 DEF Least
<1> HIDE DEF m
<1> QED
  BY <1>2, <1>4, <1>5 DEF q, m

(* What is remembered after a callback's write. *)
LEMMA WriteIs ==
  ASSUME RingOK, CallbackWrite
  PROVE  \E n, l \in 1 .. Size :
           /\ n = Len(arriving) /\ l = m_audio_len'
           /\ l = Least(m_audio_len + n, Size) /\ l <= m_audio_len + n
           /\ \A k \in 1 .. l : Recent'[k] =
                IF k <= l - n THEN Recent[m_audio_len + n - l + k]
                ELSE arriving[n - l + k]
<1> DEFINE both == Recent \o arriving
<1>0. PICK old \in 0 .. Size : old = m_audio_len
  BY DEF RingOK
<1>1. /\ old \in Nat /\ Size \in Nat \ {0} /\ old <= Size /\ arriving \in Seq(Nat)
      /\ Len(arriving) \in 1 .. Size
  BY AudioAssumption DEF CallbackWrite, RingOK
<1>2. PICK n \in 1 .. Size : n = Len(arriving)
  BY <1>1
<1>3. PICK l \in 1 .. Size : /\ l = m_audio_len' /\ l = Least(old + n, Size)
                             /\ l <= old + n /\ l = Least(Size, old + n)
  <2>1. m_audio_len' = Least(old + n, Size)
    BY <1>0, <1>2 DEF CallbackWrite
  <2> QED
    BY <1>1, <1>2, <2>1 DEF Least
<1>4. Recent \in Seq(Nat) /\ Len(Recent) = old
  BY <1>0, RecentIsSeq
<1>5. /\ both \in Seq(Nat) /\ Len(both) = old + n
      /\ \A j \in 1 .. old + n : both[j] = IF j <= old THEN Recent[j] ELSE arriving[j - old]
  BY <1>1, <1>2, <1>4, ConcatProperties
<1>6. Recent' = Memory!LastOf(both, Size)
  BY WriteRemembers
<1> HIDE DEF both
<1>9. old \in Nat /\ n \in Nat /\ l \in Nat /\ l <= old + n
  BY <1>1, <1>2, <1>3
<1>7. \A k \in 1 .. l : Memory!LastOf(both, Size)[k] = both[old + n - l + k]
  <2> DEFINE m == Least(Size, Len(both))
  <2>1. \A k \in 1 .. m : Memory!LastOf(both, Size)[k] = both[Len(both) - m + k]
    BY <1>1, <1>5, LastOfSeq
  <2>2. m = l /\ Len(both) = old + n
    BY <1>3, <1>5
  <2> HIDE DEF m
  <2>3. \A k \in 1 .. l : Memory!LastOf(both, Size)[k] = both[Len(both) - l + k]
    BY <2>1, <2>2
  <2> QED
    BY <1>9, <2>2, <2>3
<1>8. ASSUME NEW k \in 1 .. l
      PROVE  Recent'[k] = IF k <= l - n THEN Recent[old + n - l + k] ELSE arriving[n - l + k]
  <2> DEFINE j == old + n - l + k
  <2>1. j \in 1 .. old + n
    BY <1>9
  <2>2. Recent'[k] = both[j]
    BY <1>6, <1>7
  <2>3. both[j] = IF j <= old THEN Recent[j] ELSE arriving[j - old]
    BY <1>5, <2>1
  <2>4. j - old = n - l + k /\ ((j <= old) <=> (k <= l - n))
    BY <1>9
  <2> HIDE DEF j
  <2>5. Recent'[k] = IF k <= l - n THEN Recent[j] ELSE arriving[n - l + k]
    BY <2>2, <2>3, <2>4
  <2> QED
    BY <2>5 DEF j
<1> QED
  BY <1>0, <1>2, <1>3, <1>8

(* What a callback brings is newer than all before. *)
LEMMA BeginIs ==
  ASSUME RingOK, NEW n \in ChunkSizes, CallbackBegin(n)
  PROVE  /\ produced' = produced + n /\ n \in Nat \ {0} /\ arriving = <<>>
         /\ Recent' = Recent /\ m_audio_len' = m_audio_len
         /\ ~m_running => arriving' = <<>>
         /\ m_running => Len(arriving') = Least(n, Size)
         /\ \A k \in 1 .. Len(arriving') :
              arriving'[k] = produced' - Len(arriving') + k /\ arriving'[k] > produced
<1>1. /\ produced' = produced + n /\ n \in Nat \ {0} /\ arriving = <<>>
      /\ UNCHANGED ring /\ produced \in Nat /\ Size \in Nat \ {0}
      /\ arriving' = IF m_running THEN Delivered(n) ELSE <<>>
  BY AudioAssumption DEF CallbackBegin, RingOK
<1>2. Recent' = Recent /\ m_audio_len' = m_audio_len
  BY <1>1 DEF ring, Recent, Cell, Wrapped
<1> DEFINE m == Least(n, Size)
<1>3. m \in Nat /\ m <= n
  BY <1>1 DEF Least
<1>4. Delivered(n) = [k \in 1 .. m |-> produced + n - m + k]
  BY DEF Delivered
<1> HIDE DEF m
<1>5. Len(Delivered(n)) = m
  BY <1>1, <1>3, <1>4, DeliveredFits
<1>6. CASE m_running
  BY <1>1, <1>2, <1>3, <1>4, <1>5, <1>6 DEF m
<1>7. CASE ~m_running
  BY <1>1, <1>2, <1>7
<1> QED
  BY <1>6, <1>7

(* Taken samples stay older than those to come. *)
LEMMA PastStep ==
  ASSUME RingOK, [AudioNext]_audioVars, NEW x \in Nat
  PROVE  (Taken(x) => Taken(x)') /\ (Past(x) => Past(x)')
<1>1. ASSUME UNCHANGED <<produced, arriving, ring>>
      PROVE  (Taken(x) => Taken(x)') /\ (Past(x) => Past(x)')
  <2>1. Recent' = Recent /\ m_audio_len' = m_audio_len
    BY <1>1 DEF ring, Recent, Cell, Wrapped
  <2> QED
    BY <1>1, <2>1 DEF Past, Taken
<1>2. ASSUME NEW n \in ChunkSizes, CallbackBegin(n)
      PROVE  (Taken(x) => Taken(x)') /\ (Past(x) => Past(x)')
  <2>1. /\ produced' = produced + n /\ n \in Nat \ {0}
        /\ Recent' = Recent /\ m_audio_len' = m_audio_len
        /\ \A k \in 1 .. Len(arriving') :
             arriving'[k] = produced' - Len(arriving') + k /\ arriving'[k] > produced
    BY <1>2, BeginIs
  <2>2. produced \in Nat /\ Len(arriving') \in Nat
    <3>1. arriving' \in Seq(Nat)
      BY <1>2, RingStep DEF AudioNext, Callback, RingOK
    <3> QED
      BY <3>1 DEF RingOK
  <2>3. \A k \in 1 .. Len(arriving') : arriving'[k] \in Int
    BY <2>1, <2>2
  <2> QED
    BY <2>1, <2>2, <2>3 DEF Past, Taken
<1>3. CASE CallbackWrite
  <2>1. arriving' = <<>> /\ produced' = produced
    BY <1>3 DEF CallbackWrite
  <2>2. Taken(x) => Taken(x)'
    BY <2>1 DEF Taken
  <2>3. ASSUME Past(x), NEW k \in 1 .. m_audio_len' PROVE x < Recent'[k]
    <3>1. PICK n, l \in 1 .. Size :
            /\ n = Len(arriving) /\ l = m_audio_len' /\ l <= m_audio_len + n
            /\ \A i \in 1 .. l : Recent'[i] =
                 IF i <= l - n THEN Recent[m_audio_len + n - l + i]
                 ELSE arriving[n - l + i]
      BY <1>3, WriteIs
    <3>2. m_audio_len \in Nat
      BY DEF RingOK
    <3>3. /\ k <= l - n => m_audio_len + n - l + k \in 1 .. m_audio_len
          /\ ~(k <= l - n) => n - l + k \in 1 .. n
      BY <2>3, <3>1, <3>2
    <3> QED
      BY <2>3, <3>1, <3>3 DEF Past, Taken
  <2> QED
    BY <2>2, <2>3 DEF Past
<1>4. CASE Clear
  <2>1. m_audio_len' = 0 /\ UNCHANGED <<produced, arriving>>
    BY <1>4 DEF Clear
  <2> QED
    BY <2>1 DEF Past, Taken
<1>5. ASSUME \/ \E n \in Nat : Get(n)
             \/ \E on \in BOOLEAN : TurnDevice(on) \/ SetRunning(on)
             \/ UNCHANGED audioVars
      PROVE  UNCHANGED <<produced, arriving, ring>>
  BY <1>5 DEF Get, TurnDevice, SetRunning, audioVars
<1> QED
  BY <1>1, <1>2, <1>3, <1>4, <1>5 DEF AudioNext, Callback

-----------------------------------------------------------------------------
(* The ring hears everything. *)

(* Steps that leave the ring alone. *)
LEMMA HearQuiet ==
  ASSUME HearInv, UNCHANGED <<produced, arriving, ring>>,
         pc' # "ended" => pc # "ended",
         pc' = "resume" => pc = "resume" /\ m_running' = m_running,
         pc' \notin {"resume", "ended"} => m_running'
  PROVE  HearInv'
<1>1. Recent' = Recent /\ m_audio_len' = m_audio_len
  BY DEF ring, Recent, Cell, Wrapped
<1>2. \A b : EndsAt(b)' <=> EndsAt(b)
  BY <1>1 DEF EndsAt
<1> QED
  BY <1>1, <1>2 DEF HearInv

(* A callback begins. *)
LEMMA HearBegin ==
  ASSUME RingOK, HearInv, NEW n \in ChunkSizes, CallbackBegin(n), pc' = pc, pc # "ended"
  PROVE  HearInv'
<1>1. /\ produced' = produced + n /\ n \in Nat \ {0} /\ arriving = <<>>
      /\ Recent' = Recent /\ m_audio_len' = m_audio_len
      /\ ~m_running => arriving' = <<>>
      /\ m_running => Len(arriving') = Least(n, Size)
      /\ \A k \in 1 .. Len(arriving') :
           arriving'[k] = produced' - Len(arriving') + k
  BY BeginIs
<1>2. m_running' = m_running /\ produced \in Nat /\ Size \in Nat \ {0} /\ Len(arriving) = 0
      /\ m_audio_len \in Nat
  BY <1>1, AudioAssumption DEF CallbackBegin, RingOK
<1>3. PICK b \in Nat : EndsAt(b)
  BY DEF HearInv
<1>4. b = produced
  BY <1>2, <1>3 DEF EndsAt
<1>5. CASE m_running
  <2>1. /\ Len(arriving') \in Nat /\ Len(arriving') <= n
        /\ Len(arriving') < Size => Len(arriving') = n
    BY <1>1, <1>2, <1>5 DEF Least
  <2>2. /\ b <= produced' - Len(arriving')
        /\ Len(arriving') < Size => b = produced' - Len(arriving')
    BY <1>1, <1>2, <1>4, <2>1
  <2>3. EndsAt(b)'
    BY <1>1, <1>3, <2>2 DEF EndsAt
  <2> QED
    BY <1>1, <1>2, <1>5, <2>3 DEF HearInv
<1>6. CASE ~m_running
  <2>1. pc = "resume" /\ m_audio_len = 0
    BY <1>6 DEF HearInv
  <2>2. Len(arriving') = 0 /\ arriving' = <<>>
    BY <1>1, <1>6
  <2>3. PICK c \in Nat : c = produced'
    BY <1>1, <1>2
  <2>4. EndsAt(c)'
    BY <1>1, <1>2, <2>1, <2>2, <2>3 DEF EndsAt
  <2> QED
    BY <1>1, <1>2, <1>6, <2>1, <2>2, <2>4 DEF HearInv
<1> QED
  BY <1>5, <1>6

(* A callback writes. *)
LEMMA HearWrite ==
  ASSUME RingOK, HearInv, CallbackWrite, pc' = pc, pc # "ended"
  PROVE  HearInv'
<1>1. arriving # <<>> /\ arriving' = <<>> /\ produced' = produced /\ m_running' = m_running
  BY DEF CallbackWrite
<1>2. PICK b \in Nat : EndsAt(b)
  BY DEF HearInv
<1>3. PICK n, l \in 1 .. Size :
        /\ n = Len(arriving) /\ l = m_audio_len'
        /\ l = Least(m_audio_len + n, Size) /\ l <= m_audio_len + n
        /\ \A k \in 1 .. l : Recent'[k] =
             IF k <= l - n THEN Recent[m_audio_len + n - l + k]
             ELSE arriving[n - l + k]
  BY WriteIs
<1>4. /\ produced \in Nat /\ m_audio_len \in Nat /\ Size \in Nat \ {0}
      /\ n \in Nat /\ n <= Size /\ l \in Nat /\ l <= Size
  BY <1>3, AudioAssumption DEF RingOK
<1>5. \A k \in 1 .. n : arriving[k] = produced - n + k
  BY <1>3 DEF HearInv
<1>6. ASSUME NEW k \in 1 .. l PROVE Recent'[k] = produced - l + k
  <2>1. CASE k <= l - n
    <3> DEFINE j == m_audio_len + n - l + k
    <3>1. j \in 1 .. m_audio_len /\ n < Size
      BY <1>3, <1>4, <2>1
    <3>2. Recent'[k] = Recent[j]
      BY <1>3, <2>1
    <3>3. Recent[j] = b - m_audio_len + j /\ b = produced - n
      BY <1>2, <1>3, <3>1 DEF EndsAt
    <3>4. b - m_audio_len + j = produced - l + k
      BY <1>4, <3>3
    <3> QED
      BY <3>2, <3>3, <3>4
  <2>2. CASE ~(k <= l - n)
    <3>1. Recent'[k] = arriving[n - l + k]
      BY <1>3, <2>2
    <3>2. n - l + k \in 1 .. n
      BY <1>4, <2>2
    <3>3. arriving[n - l + k] = produced - n + (n - l + k)
      BY <1>5, <3>2
    <3> QED
      BY <1>4, <3>1, <3>3
  <2> QED
    BY <2>1, <2>2
<1>7. PICK c \in Nat : c = produced
  BY <1>4
<1>8. EndsAt(c)'
  <2>1. Len(arriving') = 0
    BY <1>1
  <2>2. \A k \in 1 .. m_audio_len' : Recent'[k] = c - m_audio_len' + k
    BY <1>3, <1>6, <1>7
  <2>3. c <= produced' - Len(arriving') /\ c = produced' - Len(arriving')
    BY <1>1, <1>4, <1>7, <2>1
  <2> QED
    BY <2>2, <2>3 DEF EndsAt
<1>9. pc # "resume"
  BY <1>1 DEF HearInv
<1> QED
  BY <1>1, <1>8, <1>9 DEF HearInv

(* The ring is cleared. *)
LEMMA HearClear ==
  ASSUME HearInv, Clear, pc # "ended", pc' \notin {"resume", "ended"}
  PROVE  HearInv'
<1>1. m_running /\ m_running' = m_running /\ m_audio_len' = 0
      /\ arriving' = arriving /\ produced' = produced
  BY DEF Clear
<1>2. PICK b \in Nat : EndsAt(b)
  BY DEF HearInv
<1>3. EndsAt(b)'
  BY <1>1, <1>2 DEF EndsAt
<1> QED
  BY <1>1, <1>3 DEF HearInv

(* Main only clears the ring, pauses it or leaves it as it is.              *)
LEMMA HearStep ==
  ASSUME RingOK, HearInv, [Next]_vars
  PROVE  HearInv'
<1>1. CASE pc = "ended"
  <2>1. pc' = "ended"
    BY <1>1 DEF Next, Main, Resume, LoopBegin, Poll, GetStep, ClearStep, MakeWindow, Listen,
       GetLength, Infer, InferFails, Pause, CtrlC, vars, mainVars, AtWork
  <2> QED
    BY <2>1 DEF HearInv
<1>2. CASE pc # "ended" /\ Resume
  <2>1. pc = "resume" /\ UNCHANGED <<produced, arriving, ring>>
    BY <1>2 DEF Resume, TurnDevice, SetRunning
  <2>2. \/ pc' = "loop" /\ m_running' = TRUE
        \/ pc' = "resume" /\ m_running' = m_running
    BY <1>2 DEF Resume, TurnDevice, SetRunning, Goes
  <2> QED
    BY <2>1, <2>2, HearQuiet
<1>3. CASE pc # "ended" /\ Pause
  <2>1. pc = "pause" /\ UNCHANGED <<produced, arriving, ring>>
    BY <1>3 DEF Pause, TurnDevice, SetRunning
  <2>2. pc' = "ended" \/ (pc' = "pause" /\ m_running' = m_running)
    BY <1>3 DEF Pause, TurnDevice, SetRunning, Goes
  <2>3. m_running
    BY <2>1 DEF HearInv
  <2> QED
    BY <2>1, <2>2, <2>3, HearQuiet
<1>4. CASE pc # "ended" /\ ClearStep
  BY <1>4, HearClear DEF ClearStep, Goes
<1>5. CASE pc # "ended" /\ Callback /\ UNCHANGED mainVars
  BY <1>5, HearBegin, HearWrite DEF Callback, mainVars
<1>6. CASE /\ pc # "ended"
           /\ \/ LoopBegin \/ Poll \/ GetStep \/ MakeWindow \/ Listen \/ GetLength
              \/ Infer \/ InferFails
  <2>1. UNCHANGED <<produced, arriving, ring, m_running>>
    BY <1>6 DEF LoopBegin, Poll, Polled, GetStep, MakeWindow, Listen, GetLength, Infer,
       InferFails, Get, audioVars
  <2>2. pc # "resume" /\ pc' # "resume"
    BY <1>6 DEF LoopBegin, Poll, Polled, GetStep, MakeWindow, Listen, GetLength, Infer,
       InferFails, Goes
  <2>3. m_running
    BY <1>6, <2>2 DEF HearInv
  <2> QED
    BY <1>6, <2>1, <2>2, <2>3, HearQuiet
<1>7. CASE pc # "ended" /\ (CtrlC \/ UNCHANGED vars)
  <2>1. UNCHANGED <<produced, arriving, ring, m_running, pc>>
    BY <1>7 DEF CtrlC, vars, audioVars, mainVars
  <2>2. pc # "resume" => m_running
    BY <1>7 DEF HearInv
  <2> QED
    BY <1>7, <2>1, <2>2, HearQuiet
<1> QED
  BY <1>1, <1>2, <1>3, <1>4, <1>5, <1>6, <1>7 DEF Next, Main

-----------------------------------------------------------------------------
(* Main goes where its parameters lead it. *)

(* The items of a sequence of samples. *)
LEMMA SamplesOf ==
  ASSUME NEW s \in Seq(Nat)
  PROVE  /\ Len(s) \in Nat /\ \A k \in 1 .. Len(s) : s[k] \in Nat
         /\ s # <<>> => Len(s) > 0
         /\ Len(s) > 0 => s[Len(s)] \in Nat
OBVIOUS

(* A step's parameters. *)
LEMMA ParamsIs ==
  ASSUME ParamsOK
  PROVE  /\ params.step \in Nat /\ params.step <= Size
         /\ params.keep \in Nat /\ params.keep <= params.step
         /\ Size \in Nat \ {0} /\ Speech \in Nat \ {0}
         /\ use_vad => params.step = 0
BY StreamAssumption, AudioAssumption DEF ParamsOK, use_vad

(* The samples of a new window. *)
LEMMA WindowIs ==
  ASSUME ParamsOK, MainOK, MakeWindow
  PROVE  \E t \in 0 .. Len(pcmf32_old) :
           /\ t = 0 \/ t <= params.keep + Size - Len(pcmf32_new)
           /\ pcmf32' \in Seq(Nat) /\ pcmf32_old' = pcmf32'
           /\ Len(pcmf32') = t + Len(pcmf32_new)
           /\ \A k \in 1 .. t : pcmf32'[k] = pcmf32_old[Len(pcmf32_old) - t + k]
           /\ \A k \in t + 1 .. t + Len(pcmf32_new) : pcmf32'[k] = pcmf32_new[k - t]
<1>1. /\ Len(pcmf32_old) \in Nat /\ Len(pcmf32_new) \in Nat
      /\ pcmf32_old \in Seq(Nat) /\ pcmf32_new \in Seq(Nat)
      /\ params.keep + Size - Len(pcmf32_new) \in Int
  <2>1. pcmf32_old \in Seq(Nat) /\ pcmf32_new \in Seq(Nat)
    BY DEF MainOK
  <2>2. Len(pcmf32_old) \in Nat /\ Len(pcmf32_new) \in Nat
    BY <2>1
  <2>3. params.keep \in Nat /\ Size \in Nat
    BY ParamsIs
  <2> QED
    BY <2>1, <2>2, <2>3
<1> DEFINE take == Min({Len(pcmf32_old), Max({0, params.keep + Size - Len(pcmf32_new)})})
<1>2. /\ pcmf32' = LastN(pcmf32_old, take) \o pcmf32_new /\ pcmf32_old' = pcmf32'
  BY DEF MakeWindow
<1>3. /\ take \in 0 .. Len(pcmf32_old)
      /\ take = 0 \/ take <= params.keep + Size - Len(pcmf32_new)
  BY <1>1, TakeIs
<1> HIDE DEF take
<1>4. PICK t \in 0 .. Len(pcmf32_old) : t = take
  BY <1>3
<1> DEFINE end == LastN(pcmf32_old, t)
<1>5. /\ end \in Seq(Nat) /\ Len(end) = t
      /\ \A k \in 1 .. t : end[k] = pcmf32_old[Len(pcmf32_old) - t + k]
  BY <1>1, LastNIs
<1> HIDE DEF end
<1>6. /\ end \o pcmf32_new \in Seq(Nat)
      /\ Len(end \o pcmf32_new) = Len(end) + Len(pcmf32_new)
      /\ \A k \in 1 .. Len(end) + Len(pcmf32_new) : (end \o pcmf32_new)[k] =
           IF k <= Len(end) THEN end[k] ELSE pcmf32_new[k - Len(end)]
  BY <1>1, <1>5, ConcatProperties
<1>7. pcmf32' = end \o pcmf32_new
  BY <1>2, <1>4 DEF end
<1>8. t \in Nat
  BY <1>1
<1>9. \A k \in 1 .. t : pcmf32'[k] = pcmf32_old[Len(pcmf32_old) - t + k]
  <2> SUFFICES ASSUME NEW k \in 1 .. t
               PROVE  pcmf32'[k] = pcmf32_old[Len(pcmf32_old) - t + k]
    OBVIOUS
  <2>1. k \in 1 .. Len(end) + Len(pcmf32_new) /\ k <= Len(end)
    BY <1>1, <1>5, <1>8
  <2>2. pcmf32'[k] = end[k]
    BY <1>6, <1>7, <2>1
  <2> QED
    BY <1>5, <2>2
<1>10. \A k \in t + 1 .. t + Len(pcmf32_new) : pcmf32'[k] = pcmf32_new[k - t]
  BY <1>1, <1>5, <1>6, <1>7, <1>8
<1>11. pcmf32' \in Seq(Nat) /\ Len(pcmf32') = t + Len(pcmf32_new)
  BY <1>5, <1>6, <1>7
<1> QED
  BY <1>2, <1>3, <1>4, <1>9, <1>10, <1>11

(* What a new line leaves. *)
LEMMA KeptIs ==
  ASSUME ParamsOK, MainOK
  PROVE  \E t \in 0 .. Len(pcmf32) :
           /\ t <= params.keep
           /\ Kept \in Seq(Nat) /\ Len(Kept) = t
           /\ \A k \in 1 .. t : Kept[k] = pcmf32[Len(pcmf32) - t + k]
<1>1. pcmf32 \in Seq(Nat) /\ Len(pcmf32) \in Nat /\ params.keep \in Nat
  <2>1. pcmf32 \in Seq(Nat)
    BY DEF MainOK
  <2>2. params.keep \in Nat
    BY ParamsIs
  <2> QED
    BY <2>1, <2>2
<1>2. CASE params.keep > Len(pcmf32)
  <2>1. Kept \in Seq(Nat) /\ Len(Kept) = 0
    BY <1>2 DEF Kept
  <2> QED
    BY <1>1, <2>1
<1>3. CASE ~(params.keep > Len(pcmf32))
  <2>1. PICK t \in 0 .. Len(pcmf32) : t = params.keep
    BY <1>1, <1>3
  <2>2. /\ LastN(pcmf32, t) \in Seq(Nat) /\ Len(LastN(pcmf32, t)) = t
        /\ \A k \in 1 .. t : LastN(pcmf32, t)[k] = pcmf32[Len(pcmf32) - t + k]
    BY <1>1, LastNIs
  <2>3. Kept = LastN(pcmf32, t)
    BY <1>3, <2>1 DEF Kept
  <2> WITNESS t \in 0 .. Len(pcmf32)
  <2>4. t <= params.keep
    BY <1>1, <2>1
  <2> QED
    BY <2>2, <2>3, <2>4
<1> QED
  BY <1>2, <1>3

(* What whisper_full leaves for the next window. *)
LEMMA InferIs ==
  ASSUME ParamsOK, MainOK, Infer
  PROVE  \/ pcmf32_old' = pcmf32_old /\ line_end' = line_end
         \/ /\ ~use_vad /\ pcmf32_old' = Kept
            /\ \/ line_end' = line_end
               \/ Len(pcmf32) > 0 /\ line_end' = pcmf32[Len(pcmf32)]
<1> DEFINE new_line == ~use_vad /\ (n_iter + 1) % n_new_line = 0
<1>1. pcmf32_old' = IF new_line THEN Kept ELSE pcmf32_old
  BY DEF Infer
<1>5. line_end' = IF new_line /\ pcmf32 # <<>> THEN Last(pcmf32) ELSE line_end
  BY DEF Infer
<1>2. pcmf32 # <<>> => Len(pcmf32) > 0
  <2>1. pcmf32 \in Seq(Nat)
    BY DEF MainOK
  <2> QED
    BY <2>1, SamplesOf
<1>3. CASE new_line
  BY <1>1, <1>2, <1>3, <1>5 DEF Last
<1>4. CASE ~new_line
  BY <1>1, <1>4, <1>5
<1> QED
  BY <1>3, <1>4

(* Every step of main leaves it in the loop that belongs to its params.     *)
LEMMA MainStep ==
  ASSUME RingOK, ParamsOK, MainOK, [Next]_vars
  PROVE  MainOK'
<1>1. params' = params
  BY DEF Next, Main, Resume, LoopBegin, Poll, Polled, GetStep, ClearStep, MakeWindow, Listen,
     GetLength, Infer, InferFails, Pause, CtrlC, vars, mainVars
<1>2. use_vad' = use_vad
  BY <1>1 DEF use_vad
<1>3. ASSUME NEW n \in Nat, Get(n) PROVE got' \in Seq(Nat)
  BY <1>3, ResultIs DEF Get
<1> USE <1>2 DEF MainOK, AtWork, Places, Goes
<1>4. CASE Resume \/ ClearStep \/ InferFails \/ Pause
  BY <1>4 DEF Resume, ClearStep, InferFails, Pause, windowVars
<1>5. CASE LoopBegin \/ Poll
  BY <1>5 DEF LoopBegin, Poll, Polled, windowVars
<1>6. CASE GetStep
  <2>1. got' \in Seq(Nat)
    BY <1>3, <1>6, ParamsIs DEF GetStep
  <2> QED
    BY <1>6, <2>1 DEF GetStep
<1>7. CASE MakeWindow
  <2>1. pcmf32' \in Seq(Nat) /\ pcmf32_old' = pcmf32'
    BY <1>7, WindowIs
  <2> QED
    BY <1>7, <2>1 DEF MakeWindow
<1>8. CASE Listen
  <2>1. Get(Speech) => got' \in Seq(Nat)
    BY <1>3, ParamsIs
  <2> QED
    BY <1>8, <2>1 DEF Listen
<1>9. CASE GetLength
  <2>1. got' \in Seq(Nat)
    BY <1>3, <1>9, ParamsIs DEF GetLength
  <2> QED
    BY <1>9, <2>1 DEF GetLength
<1>10. CASE Infer
  <2>1. pcmf32_old' \in Seq(Nat)
    <3>1. Kept \in Seq(Nat)
      BY KeptIs
    <3>2. pcmf32_old' = pcmf32_old \/ pcmf32_old' = Kept
      BY <1>10, InferIs
    <3> QED
      BY <3>1, <3>2
  <2>2. line_end' \in Nat
    <3>1. Len(pcmf32) > 0 => pcmf32[Len(pcmf32)] \in Nat
      <4>1. pcmf32 \in Seq(Nat)
        OBVIOUS
      <4> QED
        BY <4>1, SamplesOf
    <3> QED
      BY <1>10, <3>1, InferIs
  <2>3. pc' \in {"loop", "pause", "ended"} /\ (pc' = "loop" => is_running)
        /\ UNCHANGED <<is_running, pcmf32_new, pcmf32>>
    BY <1>10 DEF Infer
  <2> QED
    BY <2>1, <2>2, <2>3
<1>11. CASE CtrlC \/ UNCHANGED vars \/ (Callback /\ UNCHANGED mainVars)
  BY <1>11 DEF CtrlC, vars, mainVars, windowVars
<1> QED
  BY <1>4, <1>5, <1>6, <1>7, <1>8, <1>9, <1>10, <1>11 DEF Next, Main

-----------------------------------------------------------------------------
(* The order of the samples is kept. *)

(* What the last line left, while nobody touches it. *)
LEMMA OldStep ==
  ASSUME RingOK, MainOK, [AudioNext]_audioVars, OldOK,
         UNCHANGED <<params, pcmf32_old, line_end>>
  PROVE  OldOK'
<1>1. Past(line_end)'
  BY PastStep DEF OldOK, MainOK
<1>2. Past(line_end') <=> Past(line_end)
  OBVIOUS
<1>3. ASSUME NEW k \in 1 .. Len(pcmf32_old) PROVE Past(pcmf32_old[k])'
  <2>1. pcmf32_old[k] \in Nat
    BY SamplesOf DEF MainOK
  <2>2. PICK x \in Nat : x = pcmf32_old[k]
    BY <2>1
  <2>3. Past(x)'
    BY <2>2, PastStep DEF OldOK
  <2> QED
    BY <2>2, <2>3 DEF Past, Taken
<1> QED
  BY <1>1, <1>3 DEF OldOK, Increasing

(* The samples taken, while nobody touches them. *)
LEMMA NewStep ==
  ASSUME RingOK, MainOK, [AudioNext]_audioVars, NewOK,
         UNCHANGED <<params, pcmf32_new, pcmf32_old, line_end>>
  PROVE  /\ NewOK'
         /\ (\A k \in 1 .. Len(pcmf32_new) : Past(pcmf32_new[k])) =>
              (\A k \in 1 .. Len(pcmf32_new) : Past(pcmf32_new[k]))'
<1>1. ASSUME NEW k \in 1 .. Len(pcmf32_new)
      PROVE  /\ Taken(pcmf32_new[k])'
             /\ Past(pcmf32_new[k]) => Past(pcmf32_new[k])'
  <2>1. pcmf32_new[k] \in Nat
    BY SamplesOf DEF MainOK
  <2>2. PICK x \in Nat : x = pcmf32_new[k]
    BY <2>1
  <2>3. Taken(x)' /\ (Past(x) => Past(x)')
    BY <2>2, PastStep DEF NewOK
  <2> QED
    BY <2>2, <2>3 DEF Past, Taken
<1> QED
  BY <1>1 DEF NewOK, Increasing

(* Steps that neither take audio nor make a window. *)
LEMMA OrderQuiet ==
  ASSUME RingOK, MainOK, OrderInv, [AudioNext]_audioVars,
         UNCHANGED <<params, pcmf32_new, pcmf32, pcmf32_old, line_end>>,
         is_running' => is_running, pc' # "ended" => pc # "ended",
         pc' \in {"clear", "window", "infer"} /\ is_running' => pc' = pc
  PROVE  OrderInv'
<1> SUFFICES ASSUME pc' # "ended", is_running'
             PROVE  OrderInv'
  BY DEF OrderInv
<1>1. pc # "ended" /\ is_running /\ OldOK
  BY DEF OrderInv
<1>2. OldOK'
  BY <1>1, OldStep
<1>3. pc' \in {"clear", "window"} => NewOK'
  BY <1>1, NewStep DEF OrderInv
<1>4. pc' = "window" => (\A k \in 1 .. Len(pcmf32_new) : Past(pcmf32_new[k]))'
  <2> SUFFICES ASSUME pc' = "window"
               PROVE  (\A k \in 1 .. Len(pcmf32_new) : Past(pcmf32_new[k]))'
    OBVIOUS
  <2>1. NewOK /\ \A k \in 1 .. Len(pcmf32_new) : Past(pcmf32_new[k])
    BY <1>1 DEF OrderInv
  <2> QED
    BY <2>1, NewStep
<1>5. pc' = "infer" => WindowInOrder' /\ (~use_vad' => pcmf32_old' = pcmf32')
  BY <1>1 DEF OrderInv, WindowInOrder, Increasing, Consecutive, use_vad
<1> QED
  BY <1>2, <1>3, <1>4, <1>5 DEF OrderInv

(* The samples of a step: they follow one another, and all before them. *)
LEMMA GetOrder ==
  ASSUME RingOK, ParamsOK, MainOK, HearInv, OrderInv, GetStep
  PROVE  OrderInv'
<1>1. /\ pc = "get" /\ is_running /\ ~use_vad /\ OldOK /\ Get(params.step)
      /\ pcmf32_new' = got' /\ got' = Result(params.step)
      /\ pc' = IF Len(got') >= params.step THEN "clear" ELSE "poll"
      /\ UNCHANGED <<params, is_running, pcmf32, pcmf32_old, line_end>>
      /\ UNCHANGED <<produced, arriving, ring>>
  BY DEF GetStep, Get, Goes, OrderInv, MainOK, AtWork
<1>2. params.step \in Nat /\ params.step <= Size /\ params.step # 0 /\ Size \in Nat
  BY <1>1, ParamsIs DEF use_vad
<1>3. [AudioNext]_audioVars
  BY <1>1, <1>2 DEF AudioNext
<1>4. OldOK'
  BY <1>1, <1>3, OldStep
<1>5. CASE ~(Len(got') >= params.step)
  BY <1>1, <1>4, <1>5 DEF OrderInv
<1>6. CASE Len(got') >= params.step
  <2>1. PICK m \in 0 .. m_audio_len :
          /\ m = Least(params.step, m_audio_len)
          /\ got' \in Seq(Nat) /\ Len(got') = m
          /\ \A k \in 1 .. m : got'[k] = Recent[m_audio_len - m + k]
    <3>1. PICK m \in 0 .. m_audio_len :
            /\ m = Least(IF params.step \in 1 .. Size THEN params.step ELSE Size, m_audio_len)
            /\ Result(params.step) \in Seq(Nat) /\ Len(Result(params.step)) = m
            /\ \A k \in 1 .. m : Result(params.step)[k] = Recent[m_audio_len - m + k]
      BY <1>2, ResultIs
    <3>2. params.step \in 1 .. Size
      BY <1>2
    <3> QED
      BY <1>1, <3>1, <3>2
  <2>2. m_audio_len \in Nat /\ m \in Nat /\ m <= m_audio_len /\ m = params.step
        /\ produced \in Nat /\ Len(arriving) \in Nat
    BY <1>2, <1>6, <2>1 DEF Least, RingOK
  <2>3. PICK b \in Nat : EndsAt(b)
    BY <1>1 DEF HearInv
  <2>4. ASSUME NEW k \in 1 .. m
        PROVE  /\ got'[k] = b - m + k
               /\ m_audio_len - m + k \in 1 .. m_audio_len
               /\ got'[k] = Recent[m_audio_len - m + k]
    <3>1. m_audio_len - m + k \in 1 .. m_audio_len
      BY <2>2
    <3>2. Recent[m_audio_len - m + k] = b - m_audio_len + (m_audio_len - m + k)
      BY <2>3, <3>1 DEF EndsAt
    <3>3. b - m_audio_len + (m_audio_len - m + k) = b - m + k
      BY <2>2
    <3> QED
      BY <2>1, <3>1, <3>2, <3>3
  <2>5. \A k \in 1 .. m - 1 : got'[k] < got'[k + 1]
    <3> SUFFICES ASSUME NEW k \in 1 .. m - 1 PROVE got'[k] < got'[k + 1]
      OBVIOUS
    <3>1. k \in 1 .. m /\ k + 1 \in 1 .. m
      BY <2>2
    <3>2. got'[k] = b - m + k /\ got'[k + 1] = b - m + (k + 1)
      BY <2>4, <3>1
    <3> QED
      BY <2>2, <3>2
  <2>6. ASSUME NEW k \in 1 .. m PROVE Taken(got'[k])
    <3>1. \A j \in 1 .. Len(arriving) : arriving[j] = produced - Len(arriving) + j
      BY <1>1 DEF HearInv
    <3>2. b <= produced - Len(arriving)
      BY <2>3 DEF EndsAt
    <3>3. got'[k] = b - m + k
      BY <2>4
    <3>4. got'[k] <= b /\ got'[k] \in Int
      BY <2>2, <3>3
    <3>5. got'[k] <= produced
      BY <2>2, <3>2, <3>4
    <3>6. ASSUME NEW j \in 1 .. Len(arriving) PROVE got'[k] < arriving[j]
      <4>1. arriving[j] = produced - Len(arriving) + j
        BY <3>1
      <4> QED
        BY <2>2, <3>2, <3>4, <4>1
    <3> QED
      BY <3>5, <3>6 DEF Taken
  <2>7. ASSUME NEW k \in 1 .. m
        PROVE  /\ got'[k] > line_end
               /\ \A j \in 1 .. Len(pcmf32_old) : pcmf32_old[j] < got'[k]
    <3>1. \A x : Past(x) => x < got'[k]
      BY <2>4 DEF Past
    <3>2. line_end < got'[k] /\ line_end \in Nat /\ got'[k] \in Nat
      BY <1>1, <2>1, <3>1 DEF OldOK, MainOK
    <3> QED
      BY <1>1, <3>1, <3>2 DEF OldOK
  <2>8. \A x : Taken(x) => Taken(x)'
    BY <1>1 DEF Taken
  <2>9. NewOK'
    <3>1. Len(pcmf32_new') = m /\ params'.step = m
      BY <1>1, <2>1, <2>2
    <3>2. \A k \in 1 .. m : Taken(pcmf32_new[k])'
      BY <1>1, <2>6 DEF Taken
    <3> QED
      BY <1>1, <2>5, <2>7, <3>1, <3>2 DEF NewOK, Increasing
  <2> QED
    BY <1>1, <1>4, <1>6, <2>9 DEF OrderInv
<1> QED
  BY <1>5, <1>6

(* What is still in the ring when it is cleared is never seen. *)
LEMMA ClearOrder ==
  ASSUME RingOK, MainOK, OrderInv, ClearStep
  PROVE  OrderInv'
<1>1. /\ pc = "clear" /\ is_running /\ OldOK /\ NewOK /\ Clear /\ pc' = "window"
      /\ UNCHANGED <<params, is_running, pcmf32_new, pcmf32, pcmf32_old, line_end>>
  BY DEF ClearStep, Goes, OrderInv, MainOK, AtWork, windowVars
<1>2. [AudioNext]_audioVars
  BY <1>1 DEF AudioNext
<1>3. OldOK' /\ NewOK'
  BY <1>1, <1>2, OldStep, NewStep
<1>4. m_audio_len' = 0
  BY <1>1 DEF Clear
<1>5. (\A k \in 1 .. Len(pcmf32_new) : Past(pcmf32_new[k]))'
  BY <1>3, <1>4 DEF NewOK, Past
<1> QED
  BY <1>1, <1>3, <1>5 DEF OrderInv

(* The new window: the end of the old one, and what has been taken. *)
LEMMA WindowOrder ==
  ASSUME RingOK, ParamsOK, MainOK, OrderInv, MakeWindow
  PROVE  OrderInv'
<1> SUFFICES ASSUME is_running PROVE OrderInv'
  BY DEF MakeWindow, OrderInv
<1>1. /\ pc = "window" /\ ~use_vad /\ OldOK /\ NewOK /\ pc' = "infer"
      /\ \A k \in 1 .. Len(pcmf32_new) : Past(pcmf32_new[k])
      /\ UNCHANGED <<params, is_running, pcmf32_new, line_end>>
      /\ UNCHANGED audioVars
  BY DEF MakeWindow, Goes, OrderInv, MainOK
<1>2. PICK t \in 0 .. Len(pcmf32_old) :
        /\ t = 0 \/ t <= params.keep + Size - Len(pcmf32_new)
        /\ pcmf32' \in Seq(Nat) /\ pcmf32_old' = pcmf32'
        /\ Len(pcmf32') = t + Len(pcmf32_new)
        /\ \A k \in 1 .. t : pcmf32'[k] = pcmf32_old[Len(pcmf32_old) - t + k]
        /\ \A k \in t + 1 .. t + Len(pcmf32_new) : pcmf32'[k] = pcmf32_new[k - t]
  BY WindowIs
<1>3. PICK o \in Nat : o = Len(pcmf32_old)
  <2>1. pcmf32_old \in Seq(Nat)
    BY DEF MainOK
  <2> QED
    BY <2>1
<1>4. PICK n \in Nat : n = Len(pcmf32_new) /\ n = params.step
  BY <1>1, ParamsIs DEF NewOK
<1>5. t \in Nat /\ t <= o
  BY <1>3
<1>6. ASSUME NEW k \in 1 .. t
      PROVE  /\ o - t + k \in 1 .. o /\ pcmf32'[k] = pcmf32_old[o - t + k]
  BY <1>2, <1>3, <1>5, SMTT(30)
<1>7. ASSUME NEW k \in t + 1 .. t + n
      PROVE  /\ k - t \in 1 .. n /\ pcmf32'[k] = pcmf32_new[k - t]
  BY <1>2, <1>4, <1>5
<1>8. ASSUME NEW k \in 1 .. t + n - 1 PROVE pcmf32'[k] < pcmf32'[k + 1]
  <2>1. CASE k + 1 <= t
    <3>1. k \in 1 .. t /\ k + 1 \in 1 .. t /\ o - t + k \in 1 .. o - 1
          /\ o - t + (k + 1) = (o - t + k) + 1
      BY <1>5, <2>1
    <3>2. pcmf32'[k] = pcmf32_old[o - t + k] /\ pcmf32'[k + 1] = pcmf32_old[(o - t + k) + 1]
      BY <1>6, <3>1
    <3> QED
      BY <1>1, <1>3, <3>1, <3>2 DEF OldOK, Increasing
  <2>2. CASE k = t
    <3>1. k \in 1 .. t /\ k + 1 \in t + 1 .. t + n
      BY <1>5, <2>2
    <3>2. /\ o - t + k \in 1 .. o /\ pcmf32'[k] = pcmf32_old[o - t + k]
          /\ (k + 1) - t \in 1 .. n /\ pcmf32'[k + 1] = pcmf32_new[(k + 1) - t]
      BY <1>6, <1>7, <3>1
    <3> QED
      BY <1>1, <1>3, <1>4, <3>2 DEF NewOK
  <2>3. CASE k > t
    <3>1. /\ k \in t + 1 .. t + n /\ k + 1 \in t + 1 .. t + n /\ k - t \in 1 .. n - 1
          /\ (k + 1) - t = (k - t) + 1
      BY <1>5, <2>3
    <3>2. pcmf32'[k] = pcmf32_new[k - t] /\ pcmf32'[k + 1] = pcmf32_new[(k - t) + 1]
      BY <1>7, <3>1, SMTT(30)
    <3> QED
      BY <1>1, <1>4, <3>1, <3>2 DEF NewOK, Increasing
  <2> QED
    BY <1>5, <2>1, <2>2, <2>3
<1>9. ASSUME NEW k \in 1 .. t + n
      PROVE  Past(pcmf32'[k]) /\ (k > params.keep => pcmf32'[k] > line_end)
  <2>1. CASE k <= t
    <3>1. o - t + k \in 1 .. o /\ pcmf32'[k] = pcmf32_old[o - t + k]
      BY <1>6, <2>1
    <3>2. k > params.keep => o - t + k > params.keep
      BY <1>5, ParamsIs
    <3> QED
      BY <1>1, <1>3, <3>1, <3>2 DEF OldOK
  <2>2. CASE k > t
    <3>1. k \in t + 1 .. t + n
      BY <1>5, <2>2
    <3>2. k - t \in 1 .. n /\ pcmf32'[k] = pcmf32_new[k - t]
      BY <1>7, <3>1
    <3> QED
      BY <1>1, <1>4, <3>2 DEF NewOK
  <2> QED
    BY <1>5, <2>1, <2>2
<1>10. Len(pcmf32') = t + n
  BY <1>2, <1>4
<1>11. UNCHANGED <<produced, arriving, m_audio_len>> /\ Recent' = Recent
  BY <1>1 DEF audioVars, ring, Recent, Cell, Wrapped
<1>12. \A x : Past(x) => Past(x)'
  BY <1>11 DEF Past, Taken
<1>13. OldOK'
  <2>1. Increasing(pcmf32_old')
    BY <1>2, <1>8, <1>10 DEF Increasing
  <2>2. Past(line_end)'
    BY <1>1, <1>12 DEF OldOK
  <2>3. \A k \in 1 .. Len(pcmf32_old') :
          Past(pcmf32_old[k])' /\ (k > params'.keep => pcmf32_old'[k] > line_end')
    BY <1>1, <1>2, <1>9, <1>10, <1>11 DEF Past, Taken
  <2> QED
    BY <1>1, <2>1, <2>2, <2>3 DEF OldOK, Past, Taken, Increasing
<1>14. WindowInOrder'
  <2>1. Len(pcmf32') \in params.keep .. Size + params.keep
    <3>1. /\ params.keep \in Nat /\ params.keep <= n /\ n <= Size /\ Size \in Nat
          /\ t = 0 \/ t <= params.keep + Size - n
      BY <1>2, <1>4, ParamsIs
    <3>2. t + n \in params.keep .. Size + params.keep
      BY <1>5, <3>1
    <3> QED
      BY <1>10, <3>2
  <2>2. Increasing(pcmf32')
    BY <1>8, <1>10 DEF Increasing
  <2>3. ~use_vad'
    BY <1>1 DEF use_vad
  <2> QED
    BY <1>1, <2>1, <2>2, <2>3 DEF WindowInOrder, Increasing
<1> QED
  BY <1>1, <1>2, <1>13, <1>14 DEF OrderInv

(* Without steps the window is what the ring remembers. *)
LEMMA LengthOrder ==
  ASSUME RingOK, ParamsOK, MainOK, HearInv, OrderInv, GetLength
  PROVE  OrderInv'
<1>1. /\ pc = "get length" /\ use_vad /\ is_running /\ OldOK /\ pc' = "infer"
      /\ pcmf32' = Result(Size)
      /\ UNCHANGED <<params, is_running, pcmf32_new, pcmf32_old, line_end>>
      /\ UNCHANGED <<produced, arriving, ring>>
  BY DEF GetLength, Get, Goes, OrderInv, MainOK, AtWork
<1>2. Size \in Nat \ {0} /\ params.step = 0 /\ params.keep = 0
  <2>1. /\ Size \in Nat \ {0} /\ params.step \in Nat /\ params.keep \in Nat
        /\ params.keep <= params.step
    BY ParamsIs
  <2>2. use_vad
    BY <1>1
  <2>3. params.step = 0
    BY <2>2 DEF use_vad
  <2> QED
    BY <2>1, <2>3
<1>3. [AudioNext]_audioVars
  BY <1>2 DEF GetLength, AudioNext
<1>4. OldOK'
  BY <1>1, <1>3, OldStep
<1>5. PICK m \in 0 .. m_audio_len :
        /\ Result(Size) \in Seq(Nat) /\ Len(Result(Size)) = m
        /\ \A k \in 1 .. m : Result(Size)[k] = Recent[m_audio_len - m + k]
  BY <1>2, ResultIs
<1>6. m_audio_len \in Nat /\ m_audio_len <= Size /\ m \in Nat /\ m <= m_audio_len
  BY <1>2, <1>5 DEF RingOK
<1>7. PICK b \in Nat : EndsAt(b)
  BY <1>1 DEF HearInv
<1>8. ASSUME NEW k \in 1 .. m PROVE pcmf32'[k] = b - m + k
  <2>1. m_audio_len - m + k \in 1 .. m_audio_len
    BY <1>6
  <2>2. Recent[m_audio_len - m + k] = b - m_audio_len + (m_audio_len - m + k)
    BY <1>7, <2>1 DEF EndsAt
  <2>3. b - m_audio_len + (m_audio_len - m + k) = b - m + k
    BY <1>6
  <2> QED
    BY <1>1, <1>5, <2>2, <2>3
<1>9. ASSUME NEW k \in 1 .. m - 1
      PROVE  pcmf32'[k + 1] = pcmf32'[k] + 1 /\ pcmf32'[k] < pcmf32'[k + 1]
  <2>1. k \in 1 .. m /\ k + 1 \in 1 .. m
    BY <1>6
  <2>2. pcmf32'[k] = b - m + k /\ pcmf32'[k + 1] = b - m + (k + 1)
    BY <1>8, <2>1
  <2> QED
    BY <1>6, <2>2
<1>10. Len(pcmf32') = m /\ m \in 0 .. Size + 0
  <2>1. Len(pcmf32') = m
    BY <1>1, <1>5
  <2>2. m \in 0 .. Size + 0
    <3>1. Size \in Nat
      BY <1>2
    <3> QED
      BY <1>6, <3>1
  <2> QED
    BY <2>1, <2>2
<1>11. WindowInOrder'
  <2>1. Increasing(pcmf32') /\ Consecutive(pcmf32')
    BY <1>9, <1>10 DEF Increasing, Consecutive
  <2>2. Len(pcmf32') \in params'.keep .. Size + params'.keep
    BY <1>1, <1>2, <1>10
  <2> QED
    BY <2>1, <2>2 DEF WindowInOrder, Increasing, Consecutive
<1>12. use_vad'
  BY <1>1 DEF use_vad
<1> QED
  BY <1>1, <1>4, <1>11, <1>12 DEF OrderInv

(* A new line leaves the end of the window, all of it older than what comes. *)
LEMMA InferOrder ==
  ASSUME RingOK, ParamsOK, MainOK, OrderInv, Infer
  PROVE  OrderInv'
<1> SUFFICES ASSUME is_running, pc' # "ended" PROVE OrderInv'
  BY DEF Infer, OrderInv
<1>1. /\ pc = "infer" /\ OldOK /\ pc' = "loop" /\ (~use_vad => pcmf32_old = pcmf32)
      /\ UNCHANGED <<params, audioVars>>
  BY DEF Infer, Goes, OrderInv
<1>2. UNCHANGED <<produced, arriving, m_audio_len>> /\ Recent' = Recent
  BY <1>1 DEF audioVars, ring, Recent, Cell, Wrapped
<1>3. CASE pcmf32_old' = pcmf32_old /\ line_end' = line_end
  <2>1. OldOK'
    BY <1>1, <1>2, <1>3 DEF OldOK, Past, Taken, Increasing
  <2> QED
    BY <1>1, <2>1 DEF OrderInv
<1>4. CASE /\ ~use_vad /\ pcmf32_old' = Kept
           /\ \/ line_end' = line_end
              \/ Len(pcmf32) > 0 /\ line_end' = pcmf32[Len(pcmf32)]
  <2>1. PICK t \in 0 .. Len(pcmf32) :
          /\ t <= params.keep /\ Kept \in Seq(Nat) /\ Len(Kept) = t
          /\ \A k \in 1 .. t : Kept[k] = pcmf32[Len(pcmf32) - t + k]
    BY KeptIs
  <2>2. PICK n \in Nat : n = Len(pcmf32)
    <3>1. pcmf32 \in Seq(Nat)
      BY DEF MainOK
    <3> QED
      BY <3>1
  <2>3. t \in Nat /\ t <= n /\ params.keep \in Nat
    BY <2>2, ParamsIs
  <2>4. /\ \A k \in 1 .. n - 1 : pcmf32[k] < pcmf32[k + 1]
        /\ \A k \in 1 .. n : Past(pcmf32[k])
    BY <1>1, <1>4, <2>2 DEF OldOK, Increasing
  <2>5. ASSUME NEW k \in 1 .. t
        PROVE  Past(Kept[k]) /\ ~(k > params.keep)
    <3>1. n - t + k \in 1 .. n
      BY <2>3
    <3>2. Kept[k] = pcmf32[n - t + k]
      BY <2>1, <2>2
    <3>3. ~(k > params.keep)
      BY <2>1, <2>3
    <3> QED
      BY <2>4, <3>1, <3>2, <3>3
  <2>6. ASSUME NEW k \in 1 .. t - 1 PROVE Kept[k] < Kept[k + 1]
    <3>1. /\ n - t + k \in 1 .. n - 1 /\ n - t + (k + 1) = (n - t + k) + 1
          /\ k \in 1 .. t /\ k + 1 \in 1 .. t
      BY <2>3
    <3>2. Kept[k] = pcmf32[n - t + k] /\ Kept[k + 1] = pcmf32[(n - t + k) + 1]
      BY <2>1, <2>2, <3>1
    <3> QED
      BY <2>4, <3>1, <3>2
  <2>7. Past(line_end')
    <3>1. Past(line_end)
      BY <1>1 DEF OldOK
    <3>2. Len(pcmf32) > 0 => Past(pcmf32[Len(pcmf32)])
      BY <2>2, <2>4
    <3> QED
      BY <1>4, <3>1, <3>2
  <2>8. OldOK'
    <3>1. Increasing(pcmf32_old')
      BY <1>4, <2>1, <2>6 DEF Increasing
    <3>2. \A k \in 1 .. Len(pcmf32_old') : Past(pcmf32_old'[k]) /\ ~(k > params.keep)
      BY <1>4, <2>1, <2>5
    <3>3. /\ \A k \in 1 .. Len(pcmf32_old') :
               Past(pcmf32_old[k])' /\ ~(k > params'.keep)
          /\ Past(line_end)'
      BY <1>1, <1>2, <2>7, <3>2 DEF Past, Taken
    <3> QED
      BY <3>1, <3>3 DEF OldOK, Increasing
  <2> QED
    BY <1>1, <2>8 DEF OrderInv
<1> QED
  BY <1>3, <1>4, InferIs

(* Get, clear, window and infer are the steps that move samples.            *)
LEMMA OrderStep ==
  ASSUME StreamInv, [Next]_vars
  PROVE  OrderInv'
<1>1. RingOK /\ ParamsOK /\ MainOK /\ HearInv /\ OrderInv /\ [AudioNext]_audioVars
  BY StreamUsesRing DEF StreamInv
<1>2. CASE GetStep \/ ClearStep \/ MakeWindow \/ GetLength \/ Infer
  BY <1>1, <1>2, GetOrder, ClearOrder, WindowOrder, LengthOrder, InferOrder
<1>3. CASE Resume \/ Pause
  <2>1. UNCHANGED <<params, pcmf32_new, pcmf32, pcmf32_old, line_end, is_running>>
        /\ pc # "ended" /\ pc' \notin {"clear", "window", "infer"}
    BY <1>3 DEF Resume, Pause, Goes, windowVars
  <2> QED
    BY <1>1, <2>1, OrderQuiet
<1>4. CASE LoopBegin \/ Poll
  <2>1. /\ UNCHANGED <<params, pcmf32_new, pcmf32, pcmf32_old, line_end>>
        /\ pc \in {"loop", "poll"} /\ is_running
        /\ is_running' => pc' \in {"listen", "poll", "get"}
    BY <1>1, <1>4 DEF LoopBegin, Poll, Polled, Goes, windowVars, MainOK, AtWork
  <2> QED
    BY <1>1, <2>1, OrderQuiet
<1>5. CASE InferFails
  BY <1>5 DEF InferFails, Goes, OrderInv
<1>6. CASE CtrlC \/ UNCHANGED vars \/ (Callback /\ UNCHANGED mainVars)
  <2>1. UNCHANGED <<params, pc, is_running, pcmf32_new, pcmf32, pcmf32_old, line_end>>
    BY <1>6 DEF CtrlC, vars, mainVars, windowVars
  <2> QED
    BY <1>1, <2>1, OrderQuiet
<1>7. CASE Listen
  <2>1. /\ UNCHANGED <<params, is_running, pcmf32, pcmf32_old, line_end>>
        /\ pc # "ended" /\ pc' \in {"loop", "get length"}
    BY <1>7 DEF Listen, Goes
  <2>2. OrderInv => OldOK \/ ~is_running
    BY <2>1 DEF OrderInv
  <2>3. is_running => OldOK'
    BY <1>1, <2>1, <2>2, OldStep
  <2> QED
    BY <2>1, <2>3 DEF OrderInv
<1> QED
  BY <1>2, <1>3, <1>4, <1>5, <1>6, <1>7 DEF Next, Main

(* Nothing has been heard or taken yet. *)
LEMMA StreamInit == Init => StreamInv
<1> SUFFICES ASSUME Init PROVE StreamInv
  OBVIOUS
<1>1. /\ AudioInit /\ params \in Params /\ pc = "resume" /\ is_running = TRUE
      /\ pcmf32_new = Zeros /\ pcmf32 = Zeros /\ pcmf32_old = <<>> /\ line_end = 0
  BY DEF Init
<1>2. RingOK /\ ParamsOK
  BY <1>1, RingInit DEF ParamsOK
<1>3. MainOK
  <2>1. Zeros \in Seq(Nat)
    <3>1. 2 * Size \in Nat
      BY AudioAssumption
    <3>2. Zeros \in [1 .. 2 * Size -> Nat]
      BY DEF Zeros
    <3> QED
      BY <3>1, <3>2
  <2> QED
    BY <1>1, <2>1 DEF MainOK, Places, AtWork
<1>4. /\ produced = 0 /\ m_running = FALSE /\ m_audio_len = 0 /\ arriving = <<>>
      /\ Len(arriving) = 0 /\ Size \in Nat \ {0}
  BY <1>1, AudioAssumption DEF AudioInit
<1>5. HearInv
  <2>1. produced - Len(arriving) = 0 /\ 1 .. m_audio_len = {}
    <3>1. produced = 0 /\ Len(arriving) = 0 /\ m_audio_len = 0
      BY <1>4
    <3> QED
      BY <3>1
  <2>2. EndsAt(0)
    BY <2>1 DEF EndsAt
  <2>3. \A k \in 1 .. Len(arriving) : arriving[k] = produced - Len(arriving) + k
    BY <1>4
  <2> QED
    BY <1>1, <1>4, <2>2, <2>3 DEF HearInv
<1>6. OrderInv
  <2>1. Past(0)
    BY <1>4 DEF Past, Taken
  <2>2. OldOK
    BY <1>1, <2>1 DEF OldOK, Increasing
  <2> QED
    BY <1>1, <2>2 DEF OrderInv
<1> QED
  BY <1>2, <1>3, <1>5, <1>6 DEF StreamInv

(* No step leaves the invariant.                                            *)
LEMMA StreamStep == StreamInv /\ [Next]_vars => StreamInv'
<1> SUFFICES ASSUME StreamInv, [Next]_vars PROVE StreamInv'
  OBVIOUS
<1>1. RingOK' /\ ParamsOK'
  BY StreamUsesRing, RingStep DEF StreamInv
<1>2. MainOK' /\ HearInv' /\ OrderInv'
  BY MainStep, HearStep, OrderStep DEF StreamInv
<1> QED
  BY <1>1, <1>2 DEF StreamInv

(* The ring hears everything while main is at work, and what main keeps is  *)
(* in order and older than what is to come.                                 *)
THEOREM StreamInvariant == Spec => []StreamInv
BY StreamInit, StreamStep, PTL DEF Spec

(* Every window holds its samples once and in order and has the length main *)
(* expects, for every size of the ring, step and keep, and whatever arrives *)
(* between get and clear.                                                   *)
THEOREM WindowsInOrder == Spec => []WindowInOrder
<1>1. StreamInv => WindowInOrder
  BY DEF StreamInv, OrderInv, WindowInOrder
<1> QED
  BY <1>1, StreamInvariant, PTL

(* A line takes no more of the line before than keep_ms, wherever the lines *)
(* are cut and whatever Ctrl-C interrupts.                                  *)
THEOREM LinesKeep == Spec => []LinesShareKeep
<1>1. ASSUME StreamInv PROVE LinesShareKeep
  <2> SUFFICES ASSUME pc = "infer", is_running, ~use_vad
               PROVE  Cardinality({k \in DOMAIN pcmf32 : pcmf32[k] <= line_end})
                        <= params.keep
    BY DEF LinesShareKeep
  <2> DEFINE shared == {k \in DOMAIN pcmf32 : pcmf32[k] <= line_end}
  <2>1. /\ pcmf32 \in Seq(Nat) /\ line_end \in Nat /\ params.keep \in Nat
        /\ \A k \in 1 .. Len(pcmf32) : k > params.keep => pcmf32[k] > line_end
    BY <1>1, ParamsIs DEF StreamInv, MainOK, OrderInv, OldOK
  <2>2. shared \subseteq 1 .. params.keep
    <3> SUFFICES ASSUME NEW k \in shared PROVE k \in 1 .. params.keep
      OBVIOUS
    <3>1. k \in 1 .. Len(pcmf32) /\ pcmf32[k] <= line_end /\ pcmf32[k] \in Nat
      BY <2>1
    <3>2. ~(k > params.keep)
      BY <2>1, <3>1
    <3> QED
      BY <2>1, <3>1, <3>2
  <2>3. IsFiniteSet(1 .. params.keep) /\ Cardinality(1 .. params.keep) <= params.keep
    <3>1. PICK n \in Nat : n = params.keep
      BY <2>1
    <3>2. 1 \in Int /\ n \in Int
      OBVIOUS
    <3>3. /\ IsFiniteSet(1 .. n)
          /\ Cardinality(1 .. n) = IF 1 > n THEN 0 ELSE n - 1 + 1
      BY <3>2, FS_Interval, Zenon
    <3>4. (IF 1 > n THEN 0 ELSE n - 1 + 1) <= n
      OBVIOUS
    <3> QED
      BY <3>1, <3>3, <3>4
  <2>4. Cardinality(shared) \in Nat /\ Cardinality(shared) <= Cardinality(1 .. params.keep)
        /\ Cardinality(1 .. params.keep) \in Nat
    BY <2>2, <2>3, FS_Subset, FS_CardinalityType
  <2> QED
    BY <2>1, <2>3, <2>4
<1> QED
  BY <1>1, StreamInvariant, PTL
=============================================================================
