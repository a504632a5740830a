----------------------------- MODULE GraphExec -----------------------------
(***************************************************************************)
(* What the thread pool promises to the caller of ggml_graph_compute: the  *)
(* nodes of a graph are computed by all its threads in the order of the    *)
(* graph, no thread starts a node before every thread has finished the     *)
(* ones before it, and the call returns when all threads have computed the *)
(* same nodes: all of them, or a prefix when the caller aborted.  Workers, *)
(* sleeping, pausing and barriers are not to be seen.                      *)
(***************************************************************************)
EXTENDS Naturals

CONSTANT Threads

VARIABLES
  active,  \* the threads of the running graph; {} when none is running
  nodes,   \* the nodes it has to compute
  ran,     \* ran[t]: the nodes thread t has computed
  status   \* of the running graph; "NONE" when none is running

vars == <<active, nodes, ran, status>>

Init ==
  /\ active = {}
  /\ nodes = {}
  /\ ran = [t \in Threads |-> {}]
  /\ status = "NONE"

Begin ==
  /\ active = {}
  /\ active' \in (SUBSET Threads) \ {{}}
  /\ 0 \in active'             \* the caller computes too
  /\ nodes' \subseteq Nat
  /\ ran' = [t \in Threads |-> {}]
  /\ status' = "SUCCESS"

Run(t, i) ==
  /\ t \in active
  /\ i \in nodes \ ran[t]
  /\ \A u \in active : {j \in nodes : j < i} \subseteq ran[u]
  /\ ran' = [ran EXCEPT ![t] = @ \cup {i}]
  /\ UNCHANGED <<active, nodes, status>>

AbortGraph ==
  /\ active # {}
  /\ status' = "ABORTED"
  /\ UNCHANGED <<active, nodes, ran>>

End ==
  /\ active # {}
  /\ \A t \in active : ran[t] = ran[0]
  /\ status = "SUCCESS" => ran[0] = nodes
  /\ \A i \in ran[0], j \in nodes : j < i => j \in ran[0]
  /\ active' = {}
  /\ nodes' = {}
  /\ status' = "NONE"
  /\ UNCHANGED ran

Next ==
  \/ Begin
  \/ \E t \in active, i \in nodes : Run(t, i)
  \/ AbortGraph
  \/ End

Spec == Init /\ [][Next]_vars
=============================================================================
