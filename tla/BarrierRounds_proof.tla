------------------------ MODULE BarrierRounds_proof ------------------------
(***************************************************************************)
(* Proofs about ggml_barrier for every number of threads N >= 2 and every  *)
(* bound MaxRounds: the inductive invariant IInv, the safety of the        *)
(* barrier, and the refinement of AbstractBarrier.                         *)
(***************************************************************************)
EXTENDS BarrierRounds, FiniteSetTheorems, TLAPS

(* The set of threads is finite and has N members. *)
LEMMA ThreadsFinite ==
  /\ IsFiniteSet(Threads)
  /\ Cardinality(Threads) = N
<1>1. 0 \in Int /\ N - 1 \in Int /\ ~(0 > N - 1)
  BY NAssumption
<1>2. /\ IsFiniteSet(0 .. N - 1)
      /\ Cardinality(0 .. N - 1) = (N - 1) - 0 + 1
  BY <1>1, FS_Interval
<1> QED
  BY <1>2, NAssumption DEF Threads

(* A set of threads is finite, has at most N members, and is the set of    *)
(* all threads when it has N.                                              *)
LEMMA ThreadSubsets ==
  ASSUME NEW S \in SUBSET Threads
  PROVE  /\ IsFiniteSet(S)
         /\ Cardinality(S) \in Nat
         /\ Cardinality(S) <= N
         /\ Cardinality(S) = N => S = Threads
<1>1. IsFiniteSet(S) /\ Cardinality(S) <= Cardinality(Threads)
      /\ (Cardinality(Threads) = Cardinality(S) => Threads = S)
  BY ThreadsFinite, FS_Subset
<1> QED
  BY <1>1, ThreadsFinite, FS_CardinalityType

-----------------------------------------------------------------------------
(* The initial states satisfy the inductive invariant. *)
LEMMA InitIInv == Init => IInv
<1> SUFFICES ASSUME Init PROVE IInv
  OBVIOUS
<1> USE DEF Init, BarrierInit
<1>1. TypeOK
  BY NAssumption DEF TypeOK, BarrierTypeOK, BarrierPC
<1>2. ASSUME NEW t \in Threads PROVE ThreadInv(t)
  BY DEF ThreadInv
<1>3. InRound = {} /\ Releasing = {}
  BY DEF InRound, Releasing
<1>4. CountInv
  BY <1>3, FS_EmptySet DEF CountInv
<1> QED
  BY <1>1, <1>2, <1>4 DEF IInv

(* The load of n_barrier_passed preserves the invariant. *)
LEMMA CallIInv ==
  ASSUME IInv, NEW t \in Threads, Call(t)
  PROVE  IInv'
<1> USE DEF Call, BarrierCall, IInv
<1>1. TypeOK'
  BY DEF TypeOK, BarrierTypeOK, BarrierPC
<1>2. ASSUME NEW u \in Threads PROVE ThreadInv(u)'
  <2>1. CASE u = t
    BY <2>1 DEF TypeOK, BarrierTypeOK, ThreadInv
  <2>2. CASE u # t
    BY <2>2 DEF TypeOK, BarrierTypeOK, ThreadInv
  <2> QED
    BY <2>1, <2>2
<1>3. InRound' = InRound /\ Releasing' = Releasing
  BY DEF InRound, Releasing, TypeOK, BarrierTypeOK
<1>4. CountInv'
  BY <1>3 DEF CountInv
<1> QED
  BY <1>1, <1>2, <1>4

(* The increment of n_barrier preserves the invariant: the thread that     *)
(* finds N - 1 completes the round, so every thread has entered it.        *)
LEMMA EnterIInv ==
  ASSUME IInv, NEW t \in Threads, Enter(t)
  PROVE  IInv'
<1> USE DEF Enter, BarrierEnter, IInv
<1>1. bpc[t] = "enter" /\ entered[t] = n_barrier_passed
      /\ left[t] = n_barrier_passed /\ n_passed[t] = n_barrier_passed
  BY DEF ThreadInv
<1>2. ASSUME NEW u \in Threads
      PROVE  bpc[u] \notin {"last", "release"}
  BY <1>1 DEF ThreadInv, TypeOK, BarrierTypeOK
<1>3. Releasing = {} /\ Releasing' = {}
  BY <1>2 DEF Releasing, TypeOK, BarrierTypeOK
<1>4. t \notin InRound /\ InRound' = InRound \cup {t}
  BY <1>1 DEF InRound, TypeOK, BarrierTypeOK
<1>5. n_barrier = Cardinality(InRound)
  BY <1>3 DEF CountInv
<1>6. InRound \in SUBSET Threads /\ InRound' \in SUBSET Threads
  BY DEF InRound
<1>7. Cardinality(InRound') = n_barrier + 1
  BY <1>4, <1>5, <1>6, ThreadSubsets, FS_AddElement
<1>8. TypeOK'
  BY <1>6, <1>7, ThreadSubsets DEF TypeOK, BarrierTypeOK, BarrierPC
<1>9. CountInv'
  BY <1>3, <1>7 DEF CountInv
<1>10. ASSUME n_barrier = N - 1
       PROVE  \A u \in Threads : entered'[u] = n_barrier_passed + 1
  <2>1. InRound' = Threads
    BY <1>6, <1>7, <1>10, ThreadSubsets, NAssumption
  <2> QED
    BY <2>1 DEF InRound
<1>11. ASSUME n_barrier = N - 1
       PROVE  \A u \in Threads \ {t} : bpc'[u] = "wait"
  <2> SUFFICES ASSUME NEW u \in Threads \ {t} PROVE bpc[u] = "wait"
    BY DEF TypeOK, BarrierTypeOK
  <2>1. entered[u] = n_barrier_passed + 1
    BY <1>10, <1>11 DEF TypeOK, BarrierTypeOK
  <2> QED
    BY <2>1, <1>2 DEF ThreadInv, TypeOK, BarrierTypeOK, BarrierPC
<1>12. ASSUME NEW u \in Threads PROVE ThreadInv(u)'
  <2>1. CASE u = t /\ n_barrier = N - 1
    BY <1>1, <1>10, <1>11, <2>1 DEF ThreadInv, TypeOK, BarrierTypeOK
  <2>2. CASE u = t /\ n_barrier # N - 1
    BY <1>1, <2>2 DEF ThreadInv, TypeOK, BarrierTypeOK
  <2>3. CASE u # t
    BY <1>2, <2>3 DEF ThreadInv, TypeOK, BarrierTypeOK
  <2> QED
    BY <2>1, <2>2, <2>3
<1> QED
  BY <1>8, <1>9, <1>12

(* Zeroing n_barrier while the others spin preserves the invariant. *)
LEMMA ResetIInv ==
  ASSUME IInv, NEW t \in Threads, Reset(t)
  PROVE  IInv'
<1> USE DEF Reset, BarrierReset, IInv
<1>1. TypeOK'
  BY NAssumption DEF TypeOK, BarrierTypeOK, BarrierPC
<1>2. ASSUME NEW u \in Threads PROVE ThreadInv(u)'
  <2>1. CASE u = t
    BY <2>1 DEF TypeOK, BarrierTypeOK, ThreadInv
  <2>2. CASE u # t
    BY <2>2 DEF TypeOK, BarrierTypeOK, ThreadInv
  <2> QED
    BY <2>1, <2>2
<1>3. t \in Releasing'
  BY DEF Releasing, TypeOK, BarrierTypeOK
<1>4. CountInv'
  BY <1>3 DEF CountInv
<1> QED
  BY <1>1, <1>2, <1>4

(* Incrementing n_barrier_passed opens the next round with no thread in it. *)
LEMMA ReleaseIInv ==
  ASSUME IInv, NEW t \in Threads, Release(t)
  PROVE  IInv'
<1> USE DEF Release, BarrierRelease, IInv
<1>1. /\ left[t] = n_barrier_passed
      /\ \A u \in Threads : entered[u] = n_barrier_passed + 1
      /\ \A u \in Threads \ {t} : bpc[u] = "wait"
  BY DEF ThreadInv
<1>2. n_barrier = 0
  <2>1. t \in Releasing
    BY DEF Releasing
  <2> QED
    BY <2>1 DEF CountInv
<1>3. TypeOK'
  BY DEF TypeOK, BarrierTypeOK, BarrierPC
<1>4. ASSUME NEW u \in Threads PROVE ThreadInv(u)'
  <2>1. CASE u = t
    BY <1>1, <2>1 DEF TypeOK, BarrierTypeOK, ThreadInv
  <2>2. CASE u # t
    <3>1. bpc[u] = "wait" /\ bpc'[u] = "wait"
      BY <1>1, <2>2 DEF TypeOK, BarrierTypeOK
    <3>2. entered[u] = n_barrier_passed + 1 /\ n_passed[u] = n_barrier_passed
      BY <1>1, <3>1 DEF TypeOK, BarrierTypeOK, ThreadInv
    <3> QED
      BY <3>1, <3>2, <2>2 DEF TypeOK, BarrierTypeOK, ThreadInv
  <2> QED
    BY <2>1, <2>2
<1>5. Releasing' = {}
  BY <1>1 DEF Releasing, TypeOK, BarrierTypeOK
<1>6. InRound' = {}
  BY <1>1 DEF InRound, TypeOK, BarrierTypeOK
<1>7. CountInv'
  BY <1>2, <1>5, <1>6, FS_EmptySet DEF CountInv
<1> QED
  BY <1>3, <1>4, <1>7

(* The end of the spin loop preserves the invariant. *)
LEMMA LeaveIInv ==
  ASSUME IInv, NEW t \in Threads, Leave(t)
  PROVE  IInv'
<1> USE DEF Leave, BarrierLeave, IInv
<1>1. /\ bpc[t] = "wait" /\ left[t] = n_passed[t]
      /\ entered[t] = n_barrier_passed /\ n_passed[t] + 1 = n_barrier_passed
  BY DEF ThreadInv
<1>2. ASSUME NEW u \in Threads
      PROVE  bpc[u] \notin {"last", "release"}
  BY <1>1 DEF ThreadInv, TypeOK, BarrierTypeOK
<1>3. TypeOK'
  BY DEF TypeOK, BarrierTypeOK, BarrierPC
<1>4. ASSUME NEW u \in Threads PROVE ThreadInv(u)'
  <2>1. CASE u = t
    BY <1>1, <2>1 DEF TypeOK, BarrierTypeOK, ThreadInv
  <2>2. CASE u # t
    BY <1>2, <2>2 DEF TypeOK, BarrierTypeOK, ThreadInv
  <2> QED
    BY <2>1, <2>2
<1>5. Releasing' = Releasing /\ InRound' = InRound
  BY <1>1 DEF Releasing, InRound, TypeOK, BarrierTypeOK
<1>6. CountInv'
  BY <1>5 DEF CountInv
<1> QED
  BY <1>3, <1>4, <1>6

(* Every step of the system preserves the inductive invariant. *)
LEMMA NextIInv == IInv /\ [Next]_vars => IInv'
<1> SUFFICES ASSUME IInv, [Next]_vars PROVE IInv'
  OBVIOUS
<1>1. ASSUME NEW t \in Threads, ThreadStep(t) PROVE IInv'
  BY <1>1, CallIInv, EnterIInv, ResetIInv, ReleaseIInv, LeaveIInv
     DEF ThreadStep
<1>2. CASE UNCHANGED vars
  BY <1>2 DEF vars, IInv, TypeOK, BarrierTypeOK, ThreadInv, CountInv,
     InRound, Releasing
<1> QED
  BY <1>1, <1>2 DEF Next

-----------------------------------------------------------------------------
(* ggml_barrier keeps the inductive invariant for every N and MaxRounds. *)
THEOREM BarrierInvariant == Spec => []IInv
<1> QED
  BY InitIInv, NextIInv, PTL DEF Spec

(* Type correctness, and that n_barrier never exceeds the thread count. *)
THEOREM BarrierTypeCorrect == Spec => []TypeOK
<1>1. IInv => TypeOK
  BY DEF IInv
<1> QED
  BY <1>1, BarrierInvariant, PTL

(* In every state, a thread has left no more calls of ggml_barrier than    *)
(* any other thread has entered.                                           *)
LEMMA IInvSafe == IInv => BarrierSafe
<1> SUFFICES ASSUME IInv, NEW t \in Threads, NEW u \in Threads
             PROVE  left[t] <= entered[u]
  BY DEF BarrierSafe
<1> USE DEF IInv, TypeOK, BarrierTypeOK, BarrierPC, ThreadInv
<1>1. left[t] <= n_barrier_passed
  OBVIOUS
<1>2. n_barrier_passed <= entered[u]
  OBVIOUS
<1> QED
  BY <1>1, <1>2

(* No thread returns from its k-th ggml_barrier before every thread has    *)
(* entered its k-th, whatever the number of threads.                       *)
THEOREM BarrierSafety == Spec => []BarrierSafe
<1> QED
  BY BarrierInvariant, IInvSafe, PTL

(* A step of the code's barrier is a step of the abstract barrier, or      *)
(* leaves its variables alone.                                             *)
LEMMA StepRefines ==
  ASSUME IInv, [Next]_vars
  PROVE  [Abstract!Next]_<<entered, left>>
<1> USE DEF IInv, TypeOK, BarrierTypeOK
<1>1. ASSUME NEW t \in Threads, Call(t) \/ Reset(t)
      PROVE  UNCHANGED <<entered, left>>
  BY <1>1 DEF Call, Reset
<1>2. ASSUME NEW t \in Threads, Enter(t)
      PROVE  Abstract!Enter(t)
  BY <1>2 DEF Enter, BarrierEnter, Abstract!Enter, ThreadInv
<1>3. ASSUME NEW t \in Threads, Release(t)
      PROVE  Abstract!Leave(t)
  BY <1>3 DEF Release, BarrierRelease, Abstract!Leave, ThreadInv
<1>4. ASSUME NEW t \in Threads, Leave(t)
      PROVE  Abstract!Leave(t)
  <2>1. left[t] + 1 = n_barrier_passed
    BY <1>4 DEF Leave, BarrierLeave, ThreadInv
  <2>2. \A u \in Threads : n_barrier_passed <= entered[u]
    BY DEF ThreadInv, BarrierPC
  <2>3. \A u \in Threads : entered[u] > left[t]
    BY <2>1, <2>2
  <2> QED
    BY <1>4, <2>3 DEF Leave, Abstract!Leave
<1>5. CASE UNCHANGED vars
  BY <1>5 DEF vars
<1> QED
  BY <1>1, <1>2, <1>3, <1>4, <1>5 DEF Next, ThreadStep, Abstract!Next

(* ggml_barrier implements the abstract barrier. *)
THEOREM BarrierRefines == Spec => AbstractSpec
<1>1. Init => Abstract!Init
  BY DEF Init, Abstract!Init
<1>2. IInv /\ [Next]_vars => [Abstract!Next]_<<entered, left>>
  BY StepRefines
<1> QED
  BY <1>1, <1>2, BarrierInvariant, PTL DEF Spec, AbstractSpec, Abstract!Spec
=============================================================================
