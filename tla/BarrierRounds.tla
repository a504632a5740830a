--------------------------- MODULE BarrierRounds ---------------------------
(***************************************************************************)
(* The closed system of N threads that call ggml_barrier again and again,  *)
(* which is what ggml_graph_compute_thread does between the nodes of a     *)
(* graph.  Every thread calls it at most MaxRounds times, as a graph has a *)
(* fixed number of nodes; entered and left are history variables that      *)
(* count the calls.                                                        *)
(***************************************************************************)
EXTENDS GgmlBarrier, FiniteSets

CONSTANTS
  N,          \* number of threads of the graph (n_graph & N_THREADS_MASK)
  MaxRounds   \* bound: calls of the barrier per thread

ASSUME NAssumption == N \in Nat /\ N >= 2
ASSUME MaxRoundsAssumption == MaxRounds \in Nat

VARIABLES entered, left

vars == <<n_barrier, n_barrier_passed, n_passed, bpc, entered, left>>

Threads == 0 .. N - 1

(* Every variable keeps its type; n_barrier never exceeds the number of    *)
(* threads (a missing reset would let it grow for ever).                   *)
TypeOK ==
  /\ BarrierTypeOK(Threads)
  /\ n_barrier <= N
  /\ entered \in [Threads -> Nat]
  /\ left \in [Threads -> Nat]

Init ==
  /\ BarrierInit(Threads)
  /\ entered = [t \in Threads |-> 0]
  /\ left = [t \in Threads |-> 0]

Call(t) ==
  /\ entered[t] < MaxRounds
  /\ BarrierCall(t, N)
  /\ UNCHANGED <<entered, left>>

Enter(t) ==
  /\ BarrierEnter(t, N)
  /\ entered' = [entered EXCEPT ![t] = @ + 1]
  /\ UNCHANGED left

Reset(t) ==
  /\ BarrierReset(t)
  /\ UNCHANGED <<entered, left>>

Release(t) ==
  /\ BarrierRelease(t)
  /\ left' = [left EXCEPT ![t] = @ + 1]
  /\ UNCHANGED entered

Leave(t) ==
  /\ BarrierLeave(t)
  /\ left' = [left EXCEPT ![t] = @ + 1]
  /\ UNCHANGED entered

ThreadStep(t) == Call(t) \/ Enter(t) \/ Reset(t) \/ Release(t) \/ Leave(t)

Next == \E t \in Threads : ThreadStep(t)

Spec == Init /\ [][Next]_vars

(* The operating system runs every thread: a thread that can take a step  *)
(* of the barrier eventually takes it (the spin loop re-reads the atomic). *)
Fairness == \A t \in Threads : WF_vars(ThreadStep(t))

FairSpec == Spec /\ Fairness
-----------------------------------------------------------------------------
(* No thread returns from its k-th call of ggml_barrier before every       *)
(* thread has entered its k-th call: the nodes of a graph do not overlap.  *)
BarrierSafe == \A t, u \in Threads : left[t] <= entered[u]

(* The strengthening that makes BarrierSafe inductive.  P stands for       *)
(* n_barrier_passed: every thread has entered P or P + 1 calls, and        *)
(* n_barrier counts the threads of round P + 1 until the last one zeroes   *)
(* it.                                                                     *)
InRound == {t \in Threads : entered[t] = n_barrier_passed + 1}

Releasing == {t \in Threads : bpc[t] = "release"}

ThreadInv(t) ==
  /\ bpc[t] \in {"out", "enter"} =>
       entered[t] = n_barrier_passed /\ left[t] = n_barrier_passed
  /\ bpc[t] = "enter" => n_passed[t] = n_barrier_passed
  /\ bpc[t] = "wait" =>
       /\ left[t] = n_passed[t]
       /\ entered[t] = n_passed[t] + 1
       /\ \/ n_passed[t] = n_barrier_passed
          \/ n_passed[t] + 1 = n_barrier_passed
  /\ bpc[t] \in {"last", "release"} =>
       /\ left[t] = n_barrier_passed
       /\ \A u \in Threads : entered[u] = n_barrier_passed + 1
       /\ \A u \in Threads \ {t} : bpc[u] = "wait"

CountInv ==
  n_barrier = IF Releasing = {} THEN Cardinality(InRound) ELSE 0

IInv ==
  /\ TypeOK
  /\ \A t \in Threads : ThreadInv(t)
  /\ CountInv

(* BarrierRounds implements the abstract barrier: the counters of the code *)
(* give every thread the promise of AbstractBarrier.                       *)
Abstract == INSTANCE AbstractBarrier

AbstractSpec == Abstract!Spec

(* Nobody spins for ever: every thread returns from each of its calls, so  *)
(* when all threads make the same number of calls all of them finish.      *)
AllRoundsDone == <>(\A t \in Threads : left[t] = MaxRounds)
=============================================================================
