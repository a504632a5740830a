---------------------------- MODULE GgmlBarrier ----------------------------
(***************************************************************************)
(* ggml_barrier (ggml/src/ggml-cpu/ggml-cpu.c): the counting barrier that  *)
(* the threads of a pool pass between the nodes of a graph.                *)
(*                                                                         *)
(* Every operation on an atomic of the pool is an action of its own, so    *)
(* every interleaving of them is a behaviour.  The atomics are taken to be *)
(* sequentially consistent; n_barrier_passed is an unbounded natural where *)
(* the code has an int, which a pool would need 2^32 barriers to wrap.     *)
(*                                                                         *)
(* The module has no specification of its own: BarrierRounds closes it     *)
(* with threads that only call the barrier, ThreadPool calls it from       *)
(* ggml_graph_compute_thread.                                              *)
(***************************************************************************)
EXTENDS Naturals

VARIABLES
  n_barrier,         \* threads that have entered the barrier
  n_barrier_passed,  \* barriers passed so far
  n_passed,          \* n_passed[t]: the local variable n_passed of thread t
  bpc                \* bpc[t]: where thread t is inside ggml_barrier

barrierVars == <<n_barrier, n_barrier_passed, n_passed, bpc>>

BarrierPC == {"out", "enter", "wait", "last", "release"}

BarrierTypeOK(Threads) ==
  /\ n_barrier \in Nat
  /\ n_barrier_passed \in Nat
  /\ n_passed \in [Threads -> Nat]
  /\ bpc \in [Threads -> BarrierPC]

BarrierInit(Threads) ==
  /\ n_barrier = 0
  /\ n_barrier_passed = 0
  /\ n_passed = [t \in Threads |-> 0]
  /\ bpc = [t \in Threads |-> "out"]

-----------------------------------------------------------------------------
(* n_threads == 1: the call returns at once. *)
BarrierSkip(t, n) ==
  /\ bpc[t] = "out"
  /\ n = 1
  /\ UNCHANGED barrierVars

(* The call with n > 1 threads, up to the load of n_barrier_passed. *)
BarrierCall(t, n) ==
  /\ bpc[t] = "out"
  /\ n # 1
  /\ n_passed' = [n_passed EXCEPT ![t] = n_barrier_passed]
  /\ bpc' = [bpc EXCEPT ![t] = "enter"]
  /\ UNCHANGED <<n_barrier, n_barrier_passed>>

(* A plausible slip: 'n_threads - 1' becomes 'n_threads'. *)
BarrierEnterOffByOne(t, n) ==
  /\ bpc[t] = "enter"
  /\ n_barrier' = n_barrier + 1
  /\ bpc' = [bpc EXCEPT ![t] = IF n_barrier = n THEN "last" ELSE "wait"]
  /\ UNCHANGED <<n_barrier_passed, n_passed>>

(* A plausible slip: the last thread is recognised one arrival early. *)
BarrierEnterEarly(t, n) ==
  /\ bpc[t] = "enter"
  /\ n_barrier' = n_barrier + 1
  /\ bpc' = [bpc EXCEPT ![t] = IF n_barrier = n - 2 THEN "last" ELSE "wait"]
  /\ UNCHANGED <<n_barrier_passed, n_passed>>

(* fetch_add on n_barrier: the thread that finds n - 1 there is the last.   *)
BarrierEnter(t, n) ==
  /\ bpc[t] = "enter"
  /\ n_barrier' = n_barrier + 1
  /\ bpc' = [bpc EXCEPT ![t] = IF n_barrier = n - 1 THEN "last" ELSE "wait"]
  /\ UNCHANGED <<n_barrier_passed, n_passed>>

(* The last thread zeroes n_barrier while the others still spin. *)
BarrierReset(t) ==
  /\ bpc[t] = "last"
  /\ n_barrier' = 0
  /\ bpc' = [bpc EXCEPT ![t] = "release"]
  /\ UNCHANGED <<n_barrier_passed, n_passed>>

(* The last thread increments n_barrier_passed and returns. *)
BarrierRelease(t) ==
  /\ bpc[t] = "release"
  /\ n_barrier_passed' = n_barrier_passed + 1
  /\ bpc' = [bpc EXCEPT ![t] = "out"]
  /\ UNCHANGED <<n_barrier, n_passed>>

(* The spin loop ends: n_barrier_passed differs from the value loaded. *)
BarrierLeave(t) ==
  /\ bpc[t] = "wait"
  /\ n_barrier_passed # n_passed[t]
  /\ bpc' = [bpc EXCEPT ![t] = "out"]
  /\ UNCHANGED <<n_barrier, n_barrier_passed, n_passed>>
=============================================================================
