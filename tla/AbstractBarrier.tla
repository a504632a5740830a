-------------------------- MODULE AbstractBarrier --------------------------
(***************************************************************************)
(* What a barrier promises, with no counter in sight: a thread may leave   *)
(* its k-th call only after every thread has entered its k-th call.        *)
(***************************************************************************)
EXTENDS Naturals

CONSTANT Threads

VARIABLES
  entered,  \* entered[t]: calls of the barrier that t has entered
  left      \* left[t]: calls of the barrier that t has returned from

Init ==
  /\ entered = [t \in Threads |-> 0]
  /\ left = [t \in Threads |-> 0]

Enter(t) ==
  /\ entered[t] = left[t]
  /\ entered' = [entered EXCEPT ![t] = @ + 1]
  /\ UNCHANGED left

Leave(t) ==
  /\ \A u \in Threads : entered[u] > left[t]
  /\ left' = [left EXCEPT ![t] = @ + 1]
  /\ UNCHANGED entered

Next == \E t \in Threads : Enter(t) \/ Leave(t)

Spec == Init /\ [][Next]_<<entered, left>>
=============================================================================
