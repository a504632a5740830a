----------------------------- MODULE ThreadPool -----------------------------
(***************************************************************************)
(* The CPU thread pool of ggml (ggml/src/ggml-cpu/ggml-cpu.c, the build    *)
(* without OpenMP): thread 0 is the caller of ggml_graph_compute, threads  *)
(* 1 .. NThreads - 1 run ggml_graph_compute_secondary_thread.  Workers     *)
(* poll for a new graph for a while and then sleep on a condition          *)
(* variable; a graph may use fewer threads than the pool has; the caller   *)
(* may abort a graph between two nodes; another thread may pause and       *)
(* resume the pool at any moment.                                          *)
(*                                                                         *)
(* A critical section of the mutex is one action, except the one of        *)
(* ggml_graph_compute_kickoff, whose store of n_graph is seen by polling   *)
(* threads before the mutex is released.  Atomics are sequentially         *)
(* consistent; the graph count of n_graph does not wrap (MaxGraphs is far  *)
(* below its 2^16 values).                                                 *)
(***************************************************************************)
EXTENDS GgmlBarrier, Integers, Sequences, FiniteSets

CONSTANTS
  NThreads,   \* ggml_threadpool.n_threads
  Graphs,     \* the graphs computed: sequences over NodeKinds
  NChunks,    \* chunks of a MUL_MAT before it is re-chunked by thread
  MaxGraphs,  \* bound: calls of ggml_graph_compute
  MaxPauses   \* bound: calls of ggml_threadpool_pause

(* Operations that need no code, ordinary ones, and GGML_OP_MUL_MAT, whose *)
(* threads claim chunks of the result.                                     *)
NodeKinds == {"nop", "op", "mul_mat"}

ASSUME NThreadsAssumption == NThreads \in Nat \ {0}
ASSUME GraphsAssumption == Graphs \subseteq Seq(NodeKinds)
ASSUME NChunksAssumption == NChunks \in Nat \ {0}
ASSUME BoundsAssumption == MaxGraphs \in Nat /\ MaxPauses \in Nat

Threads == 0 .. NThreads - 1
Workers == Threads \ {0}
NoOwner == NThreads    \* the mutex is free

VARIABLES
  n_graph,        \* [count, nth]: graphs kicked off and threads of the last
  current_chunk,  \* next chunk of the current MUL_MAT
  stop, pause, abort, ec, cgraph,
  mutex,          \* its owner between two actions, or NoOwner
  sleeping,       \* threads in ggml_cond_wait not yet signalled
  pc,             \* where each thread is
  last_graph, pending,   \* per worker
  nth, node_n, chunk,    \* locals of ggml_graph_compute_thread, mul_mat
  held,           \* the pausing thread still has to resume the pool
  pauses,         \* calls of ggml_threadpool_pause so far
  ran,            \* history: nodes each thread has computed in this graph
  hits            \* history: times each <<node, chunk>> has been computed

poolVars == <<n_graph, current_chunk, stop, pause, abort, ec, cgraph>>
syncVars == <<mutex, sleeping>>
workerVars == <<last_graph, pending>>
localVars == <<nth, node_n, chunk>>
controlVars == <<held, pauses>>
historyVars == <<ran, hits>>

vars == <<poolVars, syncVars, pc, workerVars, localVars, controlVars,
          historyVars, barrierVars>>

-----------------------------------------------------------------------------
(* Nodes are numbered from 0, as in cgraph->nodes. *)
Kind(i) == cgraph[i + 1]
NNodes == Len(cgraph)
OpNodes == {i \in 0 .. NNodes - 1 : Kind(i) # "nop"}

(* ggml_compute_forward_mul_mat: with fewer than 4 chunks per thread the    *)
(* result is re-chunked by thread.                                         *)
ChunkCount(n) == IF NChunks < n * 4 THEN n ELSE NChunks

Chunks == 0 .. NThreads + NChunks - 1
NoHits == [x \in (0 .. NNodes - 1) \X Chunks |-> 0]

ComputePC == {"node", "forward", "mul_mat", "check",
              "mm_barrier", "node_barrier", "final_barrier"}
AtBarrier == {"mm_barrier", "node_barrier", "final_barrier"}

(* The states in which a worker reads cgraph, cplan, abort or               *)
(* current_chunk of the pool.                                              *)
Accessing == {"start", "node", "forward", "mul_mat", "check",
              "mm_barrier", "node_barrier"}

Goto(t, l) == pc' = [pc EXCEPT ![t] = l]

Init ==
  /\ BarrierInit(Threads)
  /\ n_graph = [count |-> 0, nth |-> 0]
  /\ current_chunk = 0
  /\ stop = FALSE
  /\ pause \in BOOLEAN                      \* tpp->paused
  /\ abort = -1
  /\ ec = "SUCCESS"
  /\ cgraph = <<>>
  /\ mutex = NoOwner
  /\ sleeping = {}
  /\ pc = [t \in Threads |-> IF t = 0 THEN "idle" ELSE "top"]
  /\ last_graph = [w \in Workers |-> [count |-> 0, nth |-> 0]]
  /\ pending = [w \in Workers |-> FALSE]
  /\ nth = [t \in Threads |-> 0]
  /\ node_n = [t \in Threads |-> 0]
  /\ chunk = [t \in Threads |-> 0]
  /\ held = FALSE
  /\ pauses = 0
  /\ ran = [t \in Threads |-> {}]
  /\ hits = NoHits

-----------------------------------------------------------------------------
(* ggml_graph_compute and ggml_threadpool_free, called by thread 0. *)

(* No more threads than the pool has.                                       *)
Clamp(n) == IF n > NThreads THEN NThreads ELSE n

(* The parameters are reset before the workers are told of the graph. *)
GraphCompute(g, n) ==
  /\ pc[0] = "idle"
  /\ n_graph.count < MaxGraphs
  /\ cgraph' = g
  /\ current_chunk' = 0
  /\ abort' = -1
  /\ ec' = "SUCCESS"
  /\ nth' = [nth EXCEPT ![0] = Clamp(n)]
  /\ Goto(0, "kickoff")
  /\ UNCHANGED <<n_graph, stop, pause, syncVars, workerVars, node_n, chunk,
                 controlVars, historyVars, barrierVars>>

(* The mutex is taken and n_graph stored. *)
KickoffStore ==
  /\ pc[0] = "kickoff"
  /\ mutex = NoOwner
  /\ mutex' = 0
  /\ n_graph' = [count |-> n_graph.count + 1, nth |-> nth[0]]
  /\ Goto(0, "wake")
  /\ ran' = [t \in Threads |-> {}]
  /\ hits' = NoHits
  /\ UNCHANGED <<current_chunk, stop, pause, abort, ec, cgraph, sleeping,
                 workerVars, localVars, controlVars, barrierVars>>

(* The pool is resumed if it was paused; either way everybody is woken.    *)
(* The caller then computes the graph too.                                 *)
KickoffWake ==
  /\ pc[0] = "wake"
  /\ pause' = FALSE
  /\ sleeping' = {}
  /\ mutex' = NoOwner
  /\ node_n' = [node_n EXCEPT ![0] = 0]
  /\ nth' = [nth EXCEPT ![0] = n_graph.nth]
  /\ Goto(0, "node")
  /\ UNCHANGED <<n_graph, current_chunk, stop, abort, ec, cgraph,
                 workerVars, chunk, controlVars, historyVars, barrierVars>>

(* ggml_graph_compute returns threadpool->ec. *)
Finish ==
  /\ pc[0] = "finish"
  /\ Goto(0, "idle")
  /\ UNCHANGED <<poolVars, syncVars, workerVars, localVars, controlVars,
                 historyVars, barrierVars>>

(* ggml_threadpool_free up to the joins. *)
Free ==
  /\ pc[0] = "idle"
  /\ ~held           \* nobody else still uses the pool
  /\ mutex = NoOwner
  /\ stop' = TRUE
  /\ pause' = FALSE
  /\ sleeping' = {}
  /\ Goto(0, "join")
  /\ UNCHANGED <<n_graph, current_chunk, abort, ec, cgraph, mutex, workerVars,
                 localVars, controlVars, historyVars, barrierVars>>

Join ==
  /\ pc[0] = "join"
  /\ \A w \in Workers : pc[w] = "exit"
  /\ Goto(0, "freed")
  /\ UNCHANGED <<poolVars, syncVars, workerVars, localVars, controlVars,
                 historyVars, barrierVars>>

-----------------------------------------------------------------------------
(* ggml_threadpool_pause and _resume, called by a thread that does not     *)
(* compute and resumes what it paused.                                     *)
InUse == pc[0] \notin {"join", "freed"}

Pause ==
  /\ InUse
  /\ ~held
  /\ pauses < MaxPauses
  /\ mutex = NoOwner
  /\ pause' = TRUE
  /\ sleeping' = IF pause THEN sleeping ELSE {}
  /\ held' = TRUE
  /\ pauses' = pauses + 1
  /\ UNCHANGED <<n_graph, current_chunk, stop, abort, ec, cgraph, mutex, pc,
                 workerVars, localVars, historyVars, barrierVars>>

Resume ==
  /\ held
  /\ mutex = NoOwner
  /\ pause' = FALSE
  /\ sleeping' = IF pause THEN {} ELSE sleeping
  /\ held' = FALSE
  /\ UNCHANGED <<n_graph, current_chunk, stop, abort, ec, cgraph, mutex, pc,
                 workerVars, localVars, pauses, historyVars, barrierVars>>

(* ggml_cond_wait may return without a signal. *)
SpuriousWakeup(w) ==
  /\ w \in sleeping
  /\ sleeping' = sleeping \ {w}
  /\ UNCHANGED <<poolVars, mutex, pc, workerVars, localVars, controlVars,
                 historyVars, barrierVars>>

-----------------------------------------------------------------------------
(* ggml_graph_compute_secondary_thread. *)

(* while (threadpool->pause), then if (threadpool->stop). *)
PauseCheck(w) ==
  /\ pc[w] = "top"
  /\ Goto(w, IF pause THEN "pause_lock" ELSE "stop_check")
  /\ UNCHANGED <<poolVars, syncVars, workerVars, localVars, controlVars,
                 historyVars, barrierVars>>

(* A plausible slip: the second read of pause is dropped. *)
PauseLockUnchecked(w) ==
  /\ pc[w] = "pause_lock"
  /\ mutex = NoOwner
  /\ Goto(w, "pause_sleep")
  /\ sleeping' = sleeping \cup {w}
  /\ UNCHANGED <<poolVars, mutex, workerVars, localVars, controlVars,
                 historyVars, barrierVars>>

(* The pool may have been resumed since: pause is read again with the mutex. *)
PauseLock(w) ==
  /\ pc[w] = "pause_lock"
  /\ mutex = NoOwner
  /\ IF pause
     THEN Goto(w, "pause_sleep") /\ sleeping' = sleeping \cup {w}
     ELSE Goto(w, "top") /\ UNCHANGED sleeping
  /\ UNCHANGED <<poolVars, mutex, workerVars, localVars, controlVars,
                 historyVars, barrierVars>>

PauseWake(w) ==
  /\ pc[w] = "pause_sleep"
  /\ w \notin sleeping
  /\ mutex = NoOwner
  /\ Goto(w, "top")
  /\ UNCHANGED <<poolVars, syncVars, workerVars, localVars, controlVars,
                 historyVars, barrierVars>>

StopCheck(w) ==
  /\ pc[w] = "stop_check"
  /\ Goto(w, IF stop THEN "exit" ELSE "poll")
  /\ UNCHANGED <<poolVars, syncVars, workerVars, localVars, controlVars,
                 historyVars, barrierVars>>

(* ggml_graph_compute_thread_ready: Observe sets pending when the new graph *)
(* uses this worker, and remembers the graph whether it does or not.        *)
Flagged(w) == pending[w] \/ stop \/ pause

NewGraph(w) == n_graph # last_graph[w]

Ready(w) == Flagged(w) \/ NewGraph(w)

Take(w) ==
  /\ pending' = [pending EXCEPT ![w] = w < n_graph.nth]
  /\ last_graph' = [last_graph EXCEPT ![w] = n_graph]

Observe(w) ==
  IF ~Flagged(w) /\ NewGraph(w) THEN Take(w) ELSE UNCHANGED workerVars

(* ggml_graph_compute_poll_for_work holds no mutex: stop and pause are read *)
(* first, n_graph after them, and either may be stored in between.  A round *)
(* that finds nothing changes nothing, so the round shown is the last one   *)
(* (n_rounds is finite).                                                    *)
PollFlags(w) ==
  /\ pc[w] = "poll"
  /\ Goto(w, IF pending[w] THEN "start"
             ELSE IF Flagged(w) THEN "wait_lock" ELSE "poll_graph")
  /\ UNCHANGED <<poolVars, syncVars, workerVars, localVars, controlVars,
                 historyVars, barrierVars>>

PollGraph(w) ==
  /\ pc[w] = "poll_graph"
  /\ IF NewGraph(w) THEN Take(w) ELSE UNCHANGED workerVars
  /\ Goto(w, IF pending'[w] THEN "start" ELSE "wait_lock")
  /\ UNCHANGED <<poolVars, syncVars, localVars, controlVars, historyVars,
                 barrierVars>>

(* A plausible slip: the worker sleeps without testing again for work. *)
WaitForWorkUntested(w) ==
  /\ \/ pc[w] = "wait_lock"
     \/ pc[w] = "wait_sleep" /\ w \notin sleeping
  /\ mutex = NoOwner
  /\ IF pc[w] = "wait_sleep"
     THEN /\ Observe(w)
          /\ Goto(w, IF pending'[w] THEN "start" ELSE "top")
          /\ UNCHANGED sleeping
     ELSE /\ Goto(w, "wait_sleep")
          /\ sleeping' = sleeping \cup {w}
          /\ UNCHANGED workerVars
  /\ UNCHANGED <<poolVars, mutex, localVars, controlVars, historyVars,
                 barrierVars>>

(* The rest of ggml_graph_compute_check_for_work, with the mutex: sleep     *)
(* unless there is something to do; the test is repeated after each wakeup. *)
WaitForWork(w) ==
  /\ \/ pc[w] = "wait_lock"
     \/ pc[w] = "wait_sleep" /\ w \notin sleeping
  /\ mutex = NoOwner
  /\ Observe(w)
  /\ IF Ready(w)
     THEN /\ Goto(w, IF pending'[w] THEN "start" ELSE "top")
          /\ UNCHANGED sleeping
     ELSE /\ Goto(w, "wait_sleep")
          /\ sleeping' = sleeping \cup {w}
  /\ UNCHANGED <<poolVars, mutex, localVars, controlVars, historyVars,
                 barrierVars>>

-----------------------------------------------------------------------------
(* ggml_graph_compute_thread: the nodes of the graph, one barrier between   *)
(* two of them and one at the end.                                          *)

Start(w) ==
  /\ pc[w] = "start"
  /\ pending' = [pending EXCEPT ![w] = FALSE]
  /\ nth' = [nth EXCEPT ![w] = n_graph.nth]
  /\ node_n' = [node_n EXCEPT ![w] = 0]
  /\ Goto(w, "node")
  /\ UNCHANGED <<poolVars, syncVars, last_graph, chunk, controlVars,
                 historyVars, barrierVars>>

(* The loop condition reads abort; a node with nothing to do is skipped     *)
(* without a barrier.                                                       *)
NextNode(t) ==
  /\ pc[t] = "node"
  /\ IF node_n[t] >= NNodes \/ abort = node_n[t]
     THEN Goto(t, "final_barrier") /\ UNCHANGED node_n
     ELSE IF Kind(node_n[t]) = "nop"
     THEN node_n' = [node_n EXCEPT ![t] = @ + 1] /\ UNCHANGED pc
     ELSE Goto(t, "forward") /\ UNCHANGED node_n
  /\ UNCHANGED <<poolVars, syncVars, workerVars, nth, chunk, controlVars,
                 historyVars, barrierVars>>

(* The chunks below it belong to the threads; a plausible slip first. *)
ChunkZero(t) == 0

FirstFreeChunk(t) == nth[t]

(* ggml_compute_forward.  A MUL_MAT first sets current_chunk (thread 0) and *)
(* waits for the other threads.                                             *)
Forward(t) ==
  /\ pc[t] = "forward"
  /\ IF Kind(node_n[t]) = "mul_mat"
     THEN /\ current_chunk' = IF t = 0 THEN FirstFreeChunk(t) ELSE current_chunk
          /\ Goto(t, "mm_barrier")
          /\ UNCHANGED ran
     ELSE /\ ran' = [ran EXCEPT ![t] = @ \cup {node_n[t]}]
          /\ Goto(t, "check")
          /\ UNCHANGED current_chunk
  /\ UNCHANGED <<n_graph, stop, pause, abort, ec, cgraph, syncVars,
                 workerVars, localVars, controlVars, hits, barrierVars>>

(* One iteration of the chunk loop of ggml_compute_forward_mul_mat. *)
MulMatChunk(t) ==
  /\ pc[t] = "mul_mat"
  /\ chunk[t] < ChunkCount(nth[t])
  /\ hits' = [hits EXCEPT ![<<node_n[t], chunk[t]>>] = @ + 1]
  /\ IF nth[t] >= ChunkCount(nth[t])
     THEN /\ ran' = [ran EXCEPT ![t] = @ \cup {node_n[t]}]
          /\ Goto(t, "check")
          /\ UNCHANGED <<chunk, current_chunk>>
     ELSE /\ chunk' = [chunk EXCEPT ![t] = current_chunk]
          /\ current_chunk' = current_chunk + 1
          /\ UNCHANGED <<ran, pc>>
  /\ UNCHANGED <<n_graph, stop, pause, abort, ec, cgraph, syncVars,
                 workerVars, nth, node_n, controlVars, barrierVars>>

MulMatDone(t) ==
  /\ pc[t] = "mul_mat"
  /\ chunk[t] >= ChunkCount(nth[t])
  /\ ran' = [ran EXCEPT ![t] = @ \cup {node_n[t]}]
  /\ Goto(t, "check")
  /\ UNCHANGED <<poolVars, syncVars, workerVars, localVars, controlVars,
                 hits, barrierVars>>

(* After a node: thread 0 asks abort_callback; there is no barrier after    *)
(* the last node of the graph.                                              *)
AfterNode(t) ==
  IF node_n[t] + 1 < NNodes
  THEN Goto(t, "node_barrier") /\ UNCHANGED node_n
  ELSE Goto(t, "node") /\ node_n' = [node_n EXCEPT ![t] = @ + 1]

NodeDone(t) ==
  /\ pc[t] = "check"
  /\ AfterNode(t)
  /\ UNCHANGED <<poolVars, syncVars, workerVars, nth, chunk, controlVars,
                 historyVars, barrierVars>>

(* The node at which the graph stops; a plausible slip first. *)
AbortAtThis == node_n[0]

AbortAtNext == node_n[0] + 1

Abort ==
  /\ pc[0] = "check"
  /\ abort' = AbortAtNext
  /\ ec' = "ABORTED"
  /\ AfterNode(0)
  /\ UNCHANGED <<n_graph, current_chunk, stop, pause, cgraph, syncVars,
                 workerVars, nth, chunk, controlVars, historyVars,
                 barrierVars>>

-----------------------------------------------------------------------------
(* The call of ggml_barrier: what the thread does when it returns. *)
Return(t) ==
  CASE pc[t] = "mm_barrier" ->
         /\ chunk' = [chunk EXCEPT ![t] = t]
         /\ Goto(t, "mul_mat")
         /\ UNCHANGED node_n
    [] pc[t] = "node_barrier" ->
         /\ node_n' = [node_n EXCEPT ![t] = @ + 1]
         /\ Goto(t, "node")
         /\ UNCHANGED chunk
    [] pc[t] = "final_barrier" ->
         /\ Goto(t, IF t = 0 THEN "finish" ELSE "top")
         /\ UNCHANGED <<node_n, chunk>>

BarrierReturn(t) ==
  /\ BarrierSkip(t, n_graph.nth) \/ BarrierRelease(t) \/ BarrierLeave(t)
  /\ Return(t)

BarrierInside(t) ==
  /\ \/ BarrierCall(t, n_graph.nth)
     \/ BarrierEnter(t, nth[t])
     \/ BarrierReset(t)
  /\ UNCHANGED <<pc, node_n, chunk>>

Barrier(t) ==
  /\ pc[t] \in AtBarrier
  /\ BarrierReturn(t) \/ BarrierInside(t)
  /\ UNCHANGED <<poolVars, syncVars, workerVars, nth, controlVars,
                 historyVars>>

-----------------------------------------------------------------------------
ComputeStep(t) ==
  \/ NextNode(t) \/ Forward(t) \/ MulMatChunk(t) \/ MulMatDone(t)
  \/ NodeDone(t) \/ Barrier(t)

CallerStep == KickoffStore \/ KickoffWake \/ Finish \/ Join \/ Abort

WorkerStep(w) ==
  \/ PauseCheck(w) \/ PauseLock(w) \/ PauseWake(w) \/ StopCheck(w)
  \/ PollFlags(w) \/ PollGraph(w) \/ WaitForWork(w) \/ Start(w)

(* The program is over: every other state must have a step (no deadlock). *)
Done ==
  /\ pc[0] = "freed"
  /\ UNCHANGED vars

Next ==
  \/ \E g \in Graphs, n \in 1 .. NThreads + 1 : GraphCompute(g, n)
  \/ CallerStep
  \/ Free
  \/ \E t \in Threads : ComputeStep(t)
  \/ \E w \in Workers : WorkerStep(w) \/ SpuriousWakeup(w)
  \/ Pause \/ Resume
  \/ Done

Spec == Init /\ [][Next]_vars

(* Every thread that can run runs, the pausing thread resumes the pool; the *)
(* caller is free to start another graph, to free the pool, or neither.     *)
Fairness ==
  /\ WF_vars(CallerStep \/ ComputeStep(0))
  /\ \A w \in Workers : WF_vars(WorkerStep(w) \/ ComputeStep(w))
  /\ WF_vars(Resume)

FairSpec == Spec /\ Fairness

-----------------------------------------------------------------------------
Active == {t \in Threads : t < n_graph.nth}

(* A node is computed only when every thread of the graph has computed all  *)
(* the nodes before it: a node may read what any thread wrote.              *)
NodeOrder ==
  \A t \in Threads :
    pc[t] \in {"forward", "mm_barrier", "mul_mat"} =>
      \A u \in Active : {i \in OpNodes : i < node_n[t]} \subseteq ran[u]

(* When ggml_graph_compute returns, all its threads have computed the same  *)
(* nodes, the workers the graph does not use none, and the status says      *)
(* which: all the nodes, or those up to the abort.                          *)
AbortAgreement ==
  pc[0] = "finish" =>
    /\ \A t \in Active : ran[t] = ran[0]
    /\ \A t \in Threads \ Active : ran[t] = {}
    /\ ran[0] = IF ec = "SUCCESS" THEN OpNodes
                ELSE {i \in OpNodes : i < abort}

(* ggml_graph_compute, on a pool it reuses: "No worker threads should be    *)
(* accessing the parameters below at this stage" (ggml-cpu.c:3201).         *)
Quiescent ==
  pc[0] \in {"idle", "kickoff"} =>
    \A w \in Workers : pc[w] \notin Accessing

(* No chunk of a MUL_MAT is computed twice, and none is left out when the   *)
(* node is done.                                                            *)
ChunksOnce ==
  /\ \A x \in DOMAIN hits : hits[x] <= 1
  /\ pc[0] = "finish" =>
       \A i \in ran[0] : Kind(i) = "mul_mat" =>
         \A c \in 0 .. ChunkCount(n_graph.nth) - 1 : hits[<<i, c>>] = 1

(* The pool implements GraphExec: a graph begins when n_graph is stored and *)
(* ends when ggml_graph_compute reads ec.                                   *)
Running == pc[0] \in ComputePC \cup {"wake", "finish"}

Exec == INSTANCE GraphExec WITH
          active <- IF Running THEN Active ELSE {},
          nodes <- IF Running THEN OpNodes ELSE {},
          status <- IF Running THEN ec ELSE "NONE"

ExecSpec == Exec!Spec

(* A call of ggml_graph_compute returns, whatever the workers were doing    *)
(* when it began, and whenever the pool is paused and resumed.              *)
ComputeReturns == pc[0] = "kickoff" ~> pc[0] = "idle"

(* ggml_threadpool_free returns: every worker sees stop and exits. *)
FreeReturns == pc[0] = "join" ~> pc[0] = "freed"
=============================================================================
