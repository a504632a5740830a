-------------------------- MODULE ThreadPool_proof --------------------------
(***************************************************************************)
(* Proofs about the thread pool for every number of threads, set of        *)
(* graphs, number of chunks and bound: no node is computed before all      *)
(* threads have computed those before it, an abort stops every thread at   *)
(* the same node, no worker looks at the pool between two graphs, every    *)
(* chunk of a MUL_MAT is computed once, and the pool implements GraphExec. *)
(*                                                                         *)
(* A thread that still spins in a barrier that has been passed behaves as  *)
(* if it had returned: At, Node and Chunk are where such a thread is, and  *)
(* all other threads with it.  With them the barrier has one step, the one *)
(* of the last thread, at which all threads of the graph go on together.   *)
(* Between two such steps they are in one segment of the graph, which      *)
(* begins at node k, or inside MUL_MAT k when inside is TRUE.              *)
(***************************************************************************)
EXTENDS ThreadPool, FiniteSetTheorems, TLAPS

(* The places between two graphs, of a worker and of the caller. *)
IdlePC == {"top", "pause_lock", "pause_sleep", "stop_check", "poll",
           "poll_graph", "wait_lock", "wait_sleep", "exit"}
OverPC == {"idle", "kickoff", "finish", "join", "freed"}

(* The spin loop of t has been released. *)
Released(t) == bpc[t] = "wait" /\ n_passed[t] # n_barrier_passed

At(t) ==
  IF ~Released(t) THEN pc[t]
  ELSE IF pc[t] = "mm_barrier" THEN "mul_mat"
  ELSE IF pc[t] = "node_barrier" THEN "node"
  ELSE IF t = 0 THEN "finish" ELSE "top"

Node(t) ==
  IF Released(t) /\ pc[t] = "node_barrier" THEN node_n[t] + 1 ELSE node_n[t]

Chunk(t) == IF Released(t) /\ pc[t] = "mm_barrier" THEN t ELSE chunk[t]

(* No graph is being computed. *)
Over == At(0) \in OverPC

-----------------------------------------------------------------------------
(* The inductive invariant. *)
TypeInv ==
  /\ BarrierTypeOK(Threads)
  /\ n_graph \in [count : Nat, nth : 0 .. NThreads]
  /\ current_chunk \in Nat
  /\ abort \in Int /\ ec \in {"SUCCESS", "ABORTED"}
  /\ cgraph \in Seq(NodeKinds)
  /\ pc \in [Threads -> IdlePC \cup OverPC \cup ComputePC \cup {"wake", "start"}]
  /\ pc[0] \in OverPC \cup ComputePC \cup {"wake"}
  /\ \A w \in Workers : pc[w] \in IdlePC \cup ComputePC \cup {"start"}
  /\ last_graph \in [Workers -> [count : Nat, nth : 0 .. NThreads]]
  /\ pending \in [Workers -> BOOLEAN]
  /\ nth \in [Threads -> 0 .. NThreads]
  /\ node_n \in [Threads -> Nat]
  /\ chunk \in [Threads -> Nat]
  /\ ran \in [Threads -> SUBSET Nat]
  /\ \A x \in DOMAIN hits : hits[x] \in {0, 1}

(* The counters of the barrier (compare BarrierRounds). *)
Inside ==
  {t \in Threads : bpc[t] \in {"wait", "last"} /\ n_passed[t] = n_barrier_passed}

BarrierPlace(t) ==
  /\ bpc[t] # "out" => pc[t] \in AtBarrier
  /\ n_passed[t] <= n_barrier_passed
  /\ bpc[t] \in {"enter", "last", "release"} => n_passed[t] = n_barrier_passed
  /\ bpc[t] # "out" /\ ~Released(t) => n_graph.nth # 1
  /\ bpc[t] \in {"last", "release"} =>
       \A u \in Active \ {t} : bpc[u] = "wait" /\ ~Released(u)

BarrierCount ==
  n_barrier = IF \E t \in Threads : bpc[t] = "release" THEN 0
              ELSE Cardinality(Inside)

BarrierInv == BarrierCount /\ \A t \in Threads : BarrierPlace(t)

(* Which threads compute the graph, and that they do so once. *)
WorkerPlace(w) ==
  /\ Over \/ w \notin Active => At(w) \in IdlePC
  /\ At(w) \notin IdlePC \/ (Over /\ w \in Active) => last_graph[w] = n_graph
  /\ pending[w] => pc[w] = "start"

ThreadCount(t) == At(t) \in ComputePC => nth[t] = n_graph.nth

WorkerInv ==
  /\ ~Over => n_graph.nth > 0
  /\ pc[0] \in {"kickoff", "wake"} => nth[0] > 0
  /\ \A w \in Workers : WorkerPlace(w)
  /\ \A t \in Threads : ThreadCount(t)

(* No node of k .. m - 1 needs code. *)
NoOps(k, m) == \A i \in OpNodes : ~(k <= i /\ i < m)

(* The nodes that t has computed are those before the one it is at. *)
Computed(t) ==
  {i \in OpNodes : i < Node(t) \/ (i = Node(t) /\ At(t) \in {"check", "node_barrier"})}

(* t has not begun the graph. *)
NotBegun(t) == At(t) \in IdlePC \cup {"start", "wake"}

(* Where t may be in a segment that begins with node k. *)
BeforeBarrier(t, k) ==
  LET m == Node(t)
  IN  \/ At(t) = "node" /\ NoOps(k, m) /\ (abort = k => m = k)
      \/ /\ At(t) \in {"forward", "mm_barrier", "check", "node_barrier"}
         /\ m \in OpNodes /\ NoOps(k, m) /\ abort # k
         /\ At(t) = "mm_barrier" => Kind(m) = "mul_mat"
         /\ At(t) \in {"check", "node_barrier"} => Kind(m) # "mul_mat"
         /\ At(t) = "node_barrier" => m + 1 < NNodes
      \/ /\ At(t) \in {"node", "final_barrier"} /\ abort # k
         /\ m = NNodes /\ k < m /\ NoOps(k, m - 1)
         /\ m - 1 \in OpNodes /\ Kind(m - 1) # "mul_mat"
      \/ At(t) = "final_barrier" /\ NoOps(k, m) /\ m = (IF abort = k THEN k ELSE NNodes)

(* Where t may be in a segment that begins inside MUL_MAT k. *)
InsideMulMat(t, k) ==
  \/ At(t) \in {"mul_mat", "check"} /\ Node(t) = k
  \/ At(t) = "node_barrier" /\ Node(t) = k /\ k + 1 < NNodes
  \/ At(t) \in {"node", "final_barrier"} /\ Node(t) = k + 1 /\ k + 1 = NNodes

Place(t, k, inside) ==
  \/ NotBegun(t) /\ ran[t] = {} /\ k = 0 /\ ~inside
  \/ /\ At(t) \in ComputePC /\ ran[t] = Computed(t)
     /\ k <= Node(t) /\ Node(t) <= NNodes
     /\ IF inside THEN InsideMulMat(t, k) ELSE BeforeBarrier(t, k)

(* An abort is set at the end of the segment, where thread 0 is. *)
AbortInv(k, inside) ==
  /\ ec = IF abort = -1 THEN "SUCCESS" ELSE "ABORTED"
  /\ \/ abort = -1
     \/ abort = k /\ ~inside
     \/ abort = Node(0) + 1 /\ At(0) = "node_barrier"
     \/ abort = NNodes /\ Node(0) = NNodes /\ At(0) \in {"node", "final_barrier"}

-----------------------------------------------------------------------------
(* The chunks of the MUL_MAT of a segment: those claimed have been computed *)
(* but for the ones that a thread is about to compute.                      *)
Count == ChunkCount(n_graph.nth)

Claimed(c) == c < n_graph.nth \/ c < current_chunk

Pending(c) == \E u \in Active : At(u) = "mul_mat" /\ Chunk(u) = c

ChunkInv(inside) ==
  IF ~inside
  THEN At(0) = "mm_barrier" => current_chunk = n_graph.nth
  ELSE /\ Count > n_graph.nth => current_chunk >= n_graph.nth
       /\ \A t \in Active :
            IF At(t) = "mul_mat"
            THEN /\ Chunk(t) < n_graph.nth
                      \/ (Count > n_graph.nth /\ Chunk(t) < current_chunk)
                 /\ \A u \in Active \ {t} : At(u) = "mul_mat" => Chunk(u) # Chunk(t)
            ELSE Count > n_graph.nth => current_chunk >= Count

(* The MUL_MATs before k are done, the one of the segment is under way. *)
HitsInv(k, inside) ==
  hits = [x \in (0 .. NNodes - 1) \X Chunks |->
            IF /\ Kind(x[1]) = "mul_mat" /\ x[2] < Count
               /\ \/ x[1] < k
                  \/ inside /\ x[1] = k /\ Claimed(x[2]) /\ ~Pending(x[2])
            THEN 1 ELSE 0]

Segment(k, inside) ==
  /\ inside => k \in OpNodes /\ Kind(k) = "mul_mat"
  /\ AbortInv(k, inside)
  /\ \A t \in Active : Place(t, k, inside)
  /\ \A t \in Threads \ Active : ran[t] = {}
  /\ ChunkInv(inside)
  /\ HitsInv(k, inside)

SegmentInv == ~Over => \E k \in 0 .. NNodes, inside \in BOOLEAN : Segment(k, inside)

(* The graph has been computed; the parameters of the next one are reset   *)
(* before anybody is told of it.                                           *)
FinishInv ==
  /\ At(0) = "finish" =>
       /\ 0 \in Active
       /\ \A t \in Active : ran[t] = ran[0]
       /\ \A t \in Threads \ Active : ran[t] = {}
       /\ ran[0] = IF ec = "SUCCESS" THEN OpNodes ELSE {i \in OpNodes : i < abort}
       /\ \A i \in ran[0] : Kind(i) = "mul_mat" =>
            \A c \in 0 .. Count - 1 : hits[<<i, c>>] = 1
  /\ At(0) = "kickoff" => abort = -1 /\ ec = "SUCCESS"

IInv == TypeInv /\ BarrierInv /\ WorkerInv /\ SegmentInv /\ FinishInv

-----------------------------------------------------------------------------
(* Threads and the threads of a graph. *)
LEMMA ThreadSets ==
  ASSUME TypeInv
  PROVE  /\ 0 \in Threads /\ Workers \subseteq Threads
         /\ Active \subseteq Threads
         /\ n_graph.nth \in Nat
         /\ n_graph.nth > 0 => 0 \in Active
         /\ IsFiniteSet(Active) /\ Cardinality(Active) = n_graph.nth
<1>1. 0 \in Threads /\ Workers \subseteq Threads
  BY NThreadsAssumption DEF Threads, Workers
<1>2. n_graph.nth \in 0 .. NThreads
  BY DEF TypeInv
<1>3. Active = 0 .. n_graph.nth - 1
  BY <1>2, NThreadsAssumption DEF Active, Threads
<1>4. 0 \in Int /\ n_graph.nth - 1 \in Int
  BY <1>2
<1>5. /\ IsFiniteSet(0 .. n_graph.nth - 1)
      /\ Cardinality(0 .. n_graph.nth - 1)
           = IF 0 > n_graph.nth - 1 THEN 0 ELSE (n_graph.nth - 1) - 0 + 1
  BY <1>4, FS_Interval
<1>6. Active \subseteq Threads /\ (n_graph.nth > 0 => 0 \in Active)
  BY <1>1 DEF Active
<1>7. n_graph.nth \in Nat /\ IsFiniteSet(Active) /\ Cardinality(Active) = n_graph.nth
  BY <1>2, <1>3, <1>5
<1> QED
  BY <1>1, <1>6, <1>7

(* A thread that does not call the barrier is where its variables say. *)
LEMMA OutsideBarrier ==
  ASSUME BarrierInv, NEW t \in Threads, pc[t] \notin AtBarrier
  PROVE  /\ bpc[t] = "out" /\ ~Released(t)
         /\ At(t) = pc[t] /\ Node(t) = node_n[t] /\ Chunk(t) = chunk[t]
<1>1. bpc[t] = "out"
  BY DEF BarrierInv, BarrierPlace
<1> QED
  BY <1>1 DEF Released, At, Node, Chunk

(* A step of thread t alone that does not call the barrier. *)
Alone(t) ==
  /\ pc[t] \notin AtBarrier
  /\ UNCHANGED <<n_graph, barrierVars>>
  /\ \A u \in Threads \ {t} :
       /\ pc'[u] = pc[u] /\ nth'[u] = nth[u] /\ node_n'[u] = node_n[u]
       /\ chunk'[u] = chunk[u] /\ ran'[u] = ran[u]

(* It moves no other thread. *)
LEMMA AloneMoves ==
  ASSUME BarrierInv, NEW t \in Threads, Alone(t)
  PROVE  /\ \A u \in Threads \ {t} :
              At(u)' = At(u) /\ Node(u)' = Node(u) /\ Chunk(u)' = Chunk(u)
         /\ At(t)' = pc'[t] /\ Node(t)' = node_n'[t] /\ Chunk(t)' = chunk'[t]
         /\ \A u \in Threads : Released(u)' <=> Released(u)
<1>1. bpc[t] = "out"
  BY OutsideBarrier DEF Alone
<1>2. ASSUME NEW u \in Threads PROVE Released(u)' <=> Released(u)
  BY DEF Alone, barrierVars, Released
<1>3. ~Released(t)
  BY <1>1 DEF Released
<1>4. At(t)' = pc'[t] /\ Node(t)' = node_n'[t] /\ Chunk(t)' = chunk'[t]
  BY <1>2, <1>3 DEF At, Node, Chunk
<1>5. ASSUME NEW u \in Threads \ {t}
      PROVE  At(u)' = At(u) /\ Node(u)' = Node(u) /\ Chunk(u)' = Chunk(u)
  <2>1. pc'[u] = pc[u] /\ node_n'[u] = node_n[u] /\ chunk'[u] = chunk[u]
    BY DEF Alone
  <2> QED
    BY <1>2, <2>1 DEF At, Node, Chunk
<1> QED
  BY <1>2, <1>4, <1>5

(* The counters of the barrier know nothing of it. *)
LEMMA AloneBarrier ==
  ASSUME BarrierInv, NEW t \in Threads, Alone(t)
  PROVE  BarrierInv'
<1>1. bpc[t] = "out"
  BY OutsideBarrier DEF Alone
<1>2. bpc' = bpc /\ n_passed' = n_passed /\ n_barrier_passed' = n_barrier_passed
      /\ n_barrier' = n_barrier /\ n_graph' = n_graph
  BY DEF Alone, barrierVars
<1>3. \A u \in Threads : Released(u)' <=> Released(u)
  BY AloneMoves
<1>4. Inside' = Inside /\ Active' = Active
  BY <1>2 DEF Inside, Active
<1>5. \A u \in Threads : bpc[u] # "out" => pc'[u] = pc[u]
  BY <1>1 DEF Alone
<1>6. BarrierCount'
  BY <1>2, <1>4 DEF BarrierInv, BarrierCount
<1>7. ASSUME NEW u \in Threads PROVE BarrierPlace(u)'
  <2>1. BarrierPlace(u)
    BY DEF BarrierInv
  <2>2. Active' \subseteq Threads
    BY <1>4 DEF Active
  <2> QED
    BY <1>2, <1>3, <1>4, <1>5, <2>1, <2>2 DEF BarrierPlace
<1> QED
  BY <1>6, <1>7 DEF BarrierInv

-----------------------------------------------------------------------------
(* What the parts of the invariant depend on. *)
LEMMA PlaceSame ==
  ASSUME NEW u \in Threads, NEW k, NEW inside,
         At(u)' = At(u), Node(u)' = Node(u), ran'[u] = ran[u],
         cgraph' = cgraph, abort' = abort
  PROVE  Place(u, k, inside)' <=> Place(u, k, inside)
<1>1. OpNodes' = OpNodes /\ NNodes' = NNodes /\ \A i : Kind(i)' = Kind(i)
  BY DEF OpNodes, NNodes, Kind
<1>2. Computed(u)' = Computed(u) /\ (NotBegun(u)' <=> NotBegun(u))
  BY <1>1 DEF Computed, NotBegun
<1>3. \A m : NoOps(k, m)' <=> NoOps(k, m)
  BY <1>1 DEF NoOps
<1>4. BeforeBarrier(u, k)' <=> BeforeBarrier(u, k)
  BY <1>1, <1>3 DEF BeforeBarrier
<1>5. InsideMulMat(u, k)' <=> InsideMulMat(u, k)
  BY <1>1 DEF InsideMulMat
<1> QED
  BY <1>1, <1>2, <1>4, <1>5 DEF Place

(* An abort does not move while thread 0 stays where it is. *)
LEMMA AbortSame ==
  ASSUME NEW k, NEW inside, At(0)' = At(0), Node(0)' = Node(0),
         cgraph' = cgraph, abort' = abort, ec' = ec
  PROVE  AbortInv(k, inside)' <=> AbortInv(k, inside)
BY DEF AbortInv, NNodes

(* The threads that compute a chunk, and the chunks they compute. *)
ChunksAt == [t \in {u \in Active : At(u) = "mul_mat"} |-> Chunk(t)]

(* The chunks computed are the same while nobody claims one. *)
LEMMA HitsSame ==
  ASSUME NEW k, NEW inside, ChunksAt' = ChunksAt, n_graph' = n_graph,
         current_chunk' = current_chunk, cgraph' = cgraph, hits' = hits
  PROVE  HitsInv(k, inside)' <=> HitsInv(k, inside)
<1>1. ASSUME NEW c PROVE Pending(c)' <=> Pending(c)
  <2>1. Pending(c) <=> \E u \in DOMAIN ChunksAt : ChunksAt[u] = c
    BY DEF Pending, ChunksAt
  <2>2. Pending(c)' <=> \E u \in DOMAIN ChunksAt' : ChunksAt'[u] = c
    BY DEF Pending, ChunksAt
  <2> QED
    BY <2>1, <2>2
<1>2. ASSUME NEW c PROVE Claimed(c)' <=> Claimed(c)
  BY DEF Claimed
<1>3. Count' = Count /\ NNodes' = NNodes /\ \A i : Kind(i)' = Kind(i)
  BY DEF Count, ChunkCount, NNodes, Kind
<1> QED
  BY <1>1, <1>2, <1>3 DEF HitsInv

(* So are those that are claimed. *)
LEMMA ChunkSame ==
  ASSUME NEW inside, ChunksAt' = ChunksAt, n_graph' = n_graph,
         current_chunk' = current_chunk,
         At(0)' = "mm_barrier" => At(0) = "mm_barrier" \/ inside,
         ChunkInv(inside)
  PROVE  ChunkInv(inside)'
<1>1. /\ \A t \in Active : At(t) = "mul_mat" <=> t \in DOMAIN ChunksAt
      /\ \A t \in DOMAIN ChunksAt : ChunksAt[t] = Chunk(t)
  BY DEF ChunksAt
<1>2. /\ \A t \in Active : At(t)' = "mul_mat" <=> t \in DOMAIN ChunksAt
      /\ \A t \in DOMAIN ChunksAt : ChunksAt[t] = Chunk(t)'
  <2>1. Active' = Active
    BY DEF Active
  <2>2. /\ \A t \in Active' : At(t)' = "mul_mat" <=> t \in DOMAIN ChunksAt'
        /\ \A t \in DOMAIN ChunksAt' : ChunksAt'[t] = Chunk(t)'
    BY DEF ChunksAt
  <2> QED
    BY <2>1, <2>2
<1>3. \A t \in Active :
        (At(t)' = "mul_mat" <=> At(t) = "mul_mat")
        /\ (At(t) = "mul_mat" => Chunk(t)' = Chunk(t))
  BY <1>1, <1>2
<1>4. Active' = Active /\ Count' = Count
  BY DEF Active, Count, ChunkCount
<1>5. CASE inside
  <2>1. Count > n_graph.nth => current_chunk >= n_graph.nth
    BY <1>5 DEF ChunkInv
  <2>2. \A t \in Active :
          IF At(t) = "mul_mat"
          THEN /\ Chunk(t) < n_graph.nth
                    \/ (Count > n_graph.nth /\ Chunk(t) < current_chunk)
               /\ \A u \in Active \ {t} : At(u) = "mul_mat" => Chunk(u) # Chunk(t)
          ELSE Count > n_graph.nth => current_chunk >= Count
    BY <1>5 DEF ChunkInv
  <2>3. \A t \in Active :
          IF At(t)' = "mul_mat"
          THEN /\ Chunk(t)' < n_graph.nth
                    \/ (Count > n_graph.nth /\ Chunk(t)' < current_chunk)
               /\ \A u \in Active \ {t} : At(u)' = "mul_mat" => Chunk(u)' # Chunk(t)'
          ELSE Count > n_graph.nth => current_chunk >= Count
    BY <1>3, <2>2
  <2> QED
    BY <1>4, <1>5, <2>1, <2>3 DEF ChunkInv
<1>6. CASE ~inside
  BY <1>6 DEF ChunkInv
<1> QED
  BY <1>5, <1>6

(* A step after which all threads are where they were keeps a segment. *)
LEMMA SegmentSame ==
  ASSUME TypeInv, SegmentInv, FinishInv,
         \A t \in Threads :
           At(t)' = At(t) /\ Node(t)' = Node(t) /\ Chunk(t)' = Chunk(t),
         UNCHANGED <<n_graph, current_chunk, abort, ec, cgraph, ran, hits>>
  PROVE  SegmentInv' /\ FinishInv'
<1>1. Active' = Active /\ Active \subseteq Threads /\ 0 \in Threads
  BY ThreadSets DEF Active
<1>2. At(0)' = At(0) /\ Node(0)' = Node(0) /\ (Over' <=> Over)
  BY <1>1 DEF Over
<1>3. ChunksAt' = ChunksAt
  BY <1>1 DEF ChunksAt
<1>4. ASSUME NEW k, NEW inside, Segment(k, inside)
      PROVE  Segment(k, inside)'
  <2>1. AbortInv(k, inside)'
    BY <1>2, <1>4, AbortSame DEF Segment
  <2>2. \A t \in Active : Place(t, k, inside)'
    BY <1>1, <1>4, PlaceSame DEF Segment
  <2>3. ChunkInv(inside)'
    BY <1>2, <1>3, <1>4, ChunkSame DEF Segment
  <2>4. HitsInv(k, inside)'
    BY <1>3, <1>4, HitsSame DEF Segment
  <2>5. inside => k \in OpNodes' /\ Kind(k)' = "mul_mat"
    BY <1>4 DEF Segment, OpNodes, Kind, NNodes
  <2> QED
    BY <1>1, <1>4, <2>1, <2>2, <2>3, <2>4, <2>5 DEF Segment
<1>5. NNodes' = NNodes
  BY DEF NNodes
<1>6. SegmentInv'
  BY <1>2, <1>4, <1>5 DEF SegmentInv
<1>7. FinishInv'
  <2>1. OpNodes' = OpNodes /\ Count' = Count /\ \A i : Kind(i)' = Kind(i)
    BY DEF OpNodes, Kind, NNodes, Count, ChunkCount
  <2> QED
    BY <1>1, <1>2, <2>1 DEF FinishInv
<1> QED
  BY <1>6, <1>7

(* So do the workers. *)
LEMMA WorkersSame ==
  ASSUME TypeInv, WorkerInv,
         \A t \in Threads : At(t)' = At(t) /\ (pc'[t] \notin AtBarrier => pc'[t] = pc[t] \/ pc[t] \in AtBarrier),
         pc[0] \in AtBarrier => pc'[0] \notin {"kickoff", "wake"},
         UNCHANGED <<n_graph, last_graph, pending, nth>>,
         \A w \in Workers : pc[w] = "start" => pc'[w] = "start"
  PROVE  WorkerInv'
<1>1. Active' = Active /\ 0 \in Threads /\ Workers \subseteq Threads
  BY ThreadSets DEF Active
<1>2. At(0)' = At(0) /\ (Over' <=> Over)
  BY <1>1 DEF Over
<1>3. ASSUME NEW w \in Workers PROVE WorkerPlace(w)'
  <2>1. WorkerPlace(w)
    BY DEF WorkerInv
  <2> QED
    BY <1>1, <1>2, <2>1 DEF WorkerPlace
<1>4. ASSUME NEW t \in Threads PROVE ThreadCount(t)'
  BY <1>1 DEF WorkerInv, ThreadCount
<1>5. pc'[0] \in {"kickoff", "wake"} => nth'[0] > 0
  BY <1>1 DEF WorkerInv, AtBarrier
<1> QED
  BY <1>2, <1>3, <1>4, <1>5 DEF WorkerInv

-----------------------------------------------------------------------------
(* A step of t alone keeps what does not speak of t. *)
LEMMA AloneWorkers ==
  ASSUME TypeInv, BarrierInv, WorkerInv, NEW t \in Threads, Alone(t), Over' <=> Over,
         \A w \in Workers \ {t} :
           last_graph'[w] = last_graph[w] /\ pending'[w] = pending[w],
         t \in Workers => WorkerPlace(t)',
         ThreadCount(t)',
         t = 0 => (pc'[0] \in {"kickoff", "wake"} => nth'[0] > 0)
  PROVE  WorkerInv'
<1>1. /\ Active' = Active /\ n_graph' = n_graph /\ 0 \in Threads
      /\ Workers \subseteq Threads
  BY ThreadSets DEF Active, Alone
<1>2. ASSUME NEW w \in Workers, w # t PROVE WorkerPlace(w)'
  <2>1. WorkerPlace(w) /\ At(w)' = At(w) /\ pc'[w] = pc[w]
    BY <1>1, <1>2, AloneMoves DEF WorkerInv, Alone
  <2> QED
    BY <1>1, <1>2, <2>1 DEF WorkerPlace
<1>3. ASSUME NEW u \in Threads, u # t PROVE ThreadCount(u)'
  <2>1. At(u)' = At(u) /\ nth'[u] = nth[u]
    BY <1>3, AloneMoves DEF Alone
  <2> QED
    BY <1>1, <2>1 DEF WorkerInv, ThreadCount
<1>4. pc'[0] \in {"kickoff", "wake"} => nth'[0] > 0
  <2>1. CASE t # 0
    BY <1>1, <2>1 DEF Alone, WorkerInv
  <2> QED
    BY <2>1
<1> QED
  BY <1>1, <1>2, <1>3, <1>4 DEF WorkerInv

(* A step of one thread that neither claims nor computes a chunk keeps the  *)
(* segment when its new place is in the same segment.                      *)
LEMMA AloneSegment ==
  ASSUME TypeInv, BarrierInv, WorkerInv, SegmentInv, NEW t \in Threads, Alone(t), ~Over,
         UNCHANGED <<cgraph, current_chunk, hits, abort, ec>>,
         At(t) # "mul_mat", At(t)' # "mul_mat", t = 0 => At(t)' # "mm_barrier",
         t \notin Active => ran'[t] = ran[t],
         \A k \in 0 .. NNodes, inside \in BOOLEAN :
           Segment(k, inside) /\ t \in Active =>
             Place(t, k, inside)' /\ (t = 0 => AbortInv(k, inside)')
  PROVE  SegmentInv'
<1>1. PICK k \in 0 .. NNodes, inside \in BOOLEAN : Segment(k, inside)
  BY DEF SegmentInv
<1>2. /\ Active' = Active /\ n_graph' = n_graph /\ 0 \in Threads
      /\ Active \subseteq Threads /\ (n_graph.nth > 0 => 0 \in Active)
  BY ThreadSets DEF Active, Alone
<1>3. ASSUME NEW u \in Active PROVE Place(u, k, inside)'
  <2>1. CASE u = t
    BY <1>1, <1>3, <2>1
  <2>2. CASE u # t
    <3>1. /\ At(u)' = At(u) /\ Node(u)' = Node(u) /\ ran'[u] = ran[u]
      BY <1>2, <2>2, AloneMoves DEF Alone
    <3>2. Place(u, k, inside)
      BY <1>1 DEF Segment
    <3> QED
      BY <1>2, <3>1, <3>2, PlaceSame
  <2> QED
    BY <2>1, <2>2
<1>4. ChunksAt' = ChunksAt
  <2>1. \A u \in Active : /\ At(u)' = "mul_mat" <=> At(u) = "mul_mat"
                          /\ At(u) = "mul_mat" => Chunk(u)' = Chunk(u)
    BY <1>2, AloneMoves
  <2> QED
    BY <1>2, <2>1 DEF ChunksAt
<1>5. HitsInv(k, inside)'
  BY <1>1, <1>2, <1>4, HitsSame DEF Segment
<1>6. ChunkInv(inside)'
  <2>1. At(0)' = "mm_barrier" => At(0) = "mm_barrier"
    BY <1>2, AloneMoves
  <2> QED
    BY <1>1, <1>2, <1>4, <2>1, ChunkSame DEF Segment
<1>7. \A u \in Threads \ Active' : ran'[u] = {}
  BY <1>1, <1>2 DEF Segment, Alone
<1>8. (inside => k \in OpNodes' /\ Kind(k)' = "mul_mat") /\ NNodes' = NNodes
  BY <1>1 DEF Segment, OpNodes, Kind, NNodes
<1>9. AbortInv(k, inside)'
  <2>1. CASE t # 0
    <3>1. At(0)' = At(0) /\ Node(0)' = Node(0)
      BY <1>2, <2>1, AloneMoves
    <3> QED
      BY <1>1, <3>1, AbortSame DEF Segment
  <2>2. CASE t = 0
    BY <1>1, <1>2, <2>2 DEF WorkerInv
  <2> QED
    BY <2>1, <2>2
<1> QED
  BY <1>1, <1>2, <1>3, <1>5, <1>6, <1>7, <1>8, <1>9 DEF SegmentInv, Segment

(* A step of one thread that does not end the graph. *)
LEMMA AloneFinish ==
  ASSUME TypeInv, BarrierInv, FinishInv, NEW t \in Threads, Alone(t),
         t # 0 \/ At(0)' \notin {"finish", "kickoff"},
         UNCHANGED <<cgraph, ec, abort, ran, hits>>
  PROVE  FinishInv'
<1>1. /\ Active' = Active /\ n_graph' = n_graph /\ 0 \in Threads
  BY ThreadSets DEF Active, Alone
<1>2. At(0)' \in {"finish", "kickoff"} => At(0)' = At(0)
  BY <1>1, AloneMoves
<1>3. OpNodes' = OpNodes /\ Count' = Count /\ \A i : Kind(i)' = Kind(i)
  BY <1>1 DEF OpNodes, Kind, NNodes, Count, ChunkCount
<1> QED
  BY <1>1, <1>2, <1>3 DEF FinishInv

-----------------------------------------------------------------------------
(* Workers between two graphs: polling, sleeping, pausing, exiting. *)
LEMMA WaitingStep ==
  ASSUME IInv, NEW w \in Workers, Alone(w), TypeInv',
         pc[w] \in IdlePC, pc'[w] \in IdlePC \cup {"start"},
         UNCHANGED <<current_chunk, abort, ec, cgraph, localVars, historyVars>>,
         \A v \in Workers \ {w} :
           last_graph'[v] = last_graph[v] /\ pending'[v] = pending[v],
         WorkerPlace(w)'
  PROVE  IInv'
<1>1. /\ w \in Threads /\ w # 0 /\ 0 \in Threads
      /\ TypeInv /\ BarrierInv /\ WorkerInv /\ SegmentInv /\ FinishInv
  BY ThreadSets DEF Workers, IInv
<1>2. At(w) = pc[w] /\ At(w)' = pc'[w] /\ At(0)' = At(0) /\ (Over' <=> Over)
  BY <1>1, AloneMoves, OutsideBarrier DEF Alone, Over
<1>3. BarrierInv'
  BY <1>1, AloneBarrier
<1>4. WorkerInv'
  <2>1. ThreadCount(w)'
    BY <1>2 DEF ThreadCount, IdlePC, ComputePC
  <2> QED
    BY <1>1, <1>2, <2>1, AloneWorkers
<1>5. SegmentInv'
  <2>1. CASE Over
    BY <1>2, <2>1 DEF SegmentInv
  <2>2. CASE ~Over
    <3>1. ASSUME NEW k \in 0 .. NNodes, NEW inside \in BOOLEAN,
                 Segment(k, inside), w \in Active
          PROVE  Place(w, k, inside)'
      <4>1. ran[w] = {} /\ k = 0 /\ ~inside
        BY <1>2, <3>1 DEF Segment, Place, IdlePC, ComputePC
      <4>2. ran'[w] = {} /\ NotBegun(w)'
        BY <1>2, <4>1 DEF historyVars, NotBegun
      <4> QED
        BY <4>1, <4>2 DEF Place
    <3>2. At(w) # "mul_mat" /\ At(w)' # "mul_mat"
      BY <1>2 DEF IdlePC
    <3> QED
      BY <1>1, <2>2, <3>1, <3>2, AloneSegment DEF historyVars
  <2> QED
    BY <2>1, <2>2
<1>6. FinishInv'
  BY <1>1, AloneFinish DEF historyVars
<1> QED
  BY <1>1, <1>3, <1>4, <1>5, <1>6 DEF IInv

(* The steps that change nothing of the worker but its place. *)
LEMMA PlainWaiting ==
  ASSUME IInv, NEW w \in Workers,
         PauseCheck(w) \/ PauseLock(w) \/ PauseWake(w) \/ StopCheck(w)
  PROVE  IInv'
<1>1. /\ w \in Threads /\ w # 0 /\ TypeInv /\ BarrierInv /\ WorkerInv
  BY ThreadSets DEF Workers, IInv
<1>2. /\ pc[w] \in IdlePC
      /\ \E l \in IdlePC : pc' = [pc EXCEPT ![w] = l]
      /\ UNCHANGED <<n_graph, current_chunk, abort, ec, cgraph, workerVars,
                     localVars, historyVars, barrierVars>>
  BY DEF PauseCheck, PauseLock, PauseWake, StopCheck, Goto, IdlePC, poolVars
<1>3. /\ pc'[w] \in IdlePC
      /\ \A u \in Threads \ {w} : pc'[u] = pc[u]
  BY <1>1, <1>2 DEF TypeInv
<1>4. TypeInv'
  BY <1>1, <1>2, SMTT(30) DEF TypeInv, BarrierTypeOK, workerVars, localVars, historyVars,
                    barrierVars, Workers
<1>5. Alone(w)
  BY <1>2, <1>3 DEF Alone, IdlePC, AtBarrier, localVars, historyVars
<1>6. WorkerPlace(w)'
  <2>1. At(w) = pc[w] /\ At(w)' = pc'[w] /\ At(0)' = At(0)
    BY <1>1, <1>5, ThreadSets, AloneMoves, OutsideBarrier DEF Alone
  <2>2. (Over' <=> Over) /\ Active' = Active
    BY <1>2, <2>1 DEF Over, Active
  <2>3. ~pending[w]
    BY <1>1, <1>2 DEF WorkerInv, WorkerPlace, IdlePC
  <2> QED
    BY <1>1, <1>2, <1>3, <2>1, <2>2, <2>3 DEF WorkerInv, WorkerPlace, workerVars
<1> QED
  BY <1>2, <1>3, <1>4, <1>5, <1>6, WaitingStep DEF workerVars

(* A worker that looks for work starts exactly the graph that uses it. *)
LEMMA Looking ==
  ASSUME IInv, NEW w \in Workers, PollFlags(w) \/ PollGraph(w) \/ WaitForWork(w)
  PROVE  IInv'
<1>1. /\ w \in Threads /\ w # 0 /\ TypeInv /\ BarrierInv /\ WorkerInv
  BY ThreadSets DEF Workers, IInv
<1>2. /\ pc[w] \in IdlePC
      /\ (NewGraph(w) /\ Take(w)) \/ UNCHANGED workerVars
      /\ \E l \in IdlePC \cup {"start"} :
           /\ pc' = [pc EXCEPT ![w] = l]
           /\ l = "start" => pending'[w]
           /\ pending'[w] => l = "start"
      /\ UNCHANGED <<n_graph, current_chunk, abort, ec, cgraph,
                     localVars, historyVars, barrierVars>>
  <2>1. CASE PollFlags(w)
    <3>1. pending' = pending
      BY <2>1 DEF PollFlags, workerVars
    <3> QED
      BY <2>1, <3>1 DEF PollFlags, Goto, IdlePC, poolVars, Flagged
  <2>2. CASE PollGraph(w)
    BY <2>2 DEF PollGraph, Goto, IdlePC, poolVars
  <2>3. CASE WaitForWork(w)
    <3>1. (NewGraph(w) /\ Take(w)) \/ UNCHANGED workerVars
      BY <2>3 DEF WaitForWork, Observe
    <3>2. ~Ready(w) => ~pending'[w]
      BY <2>3 DEF WaitForWork, Observe, Ready, Flagged, workerVars
    <3> QED
      BY <2>3, <3>1, <3>2 DEF WaitForWork, Goto, IdlePC, poolVars
  <2> QED
    BY <2>1, <2>2, <2>3
<1>3. /\ pc'[w] \in IdlePC \cup {"start"}
      /\ pc'[w] = "start" <=> pending'[w]
      /\ \A u \in Threads \ {w} : pc'[u] = pc[u]
  BY <1>1, <1>2 DEF TypeInv, IdlePC
<1>4. ~pending[w]
  BY <1>1, <1>2 DEF WorkerInv, WorkerPlace, IdlePC
<1>5. /\ last_graph' \in [Workers -> [count : Nat, nth : 0 .. NThreads]]
      /\ pending' \in [Workers -> BOOLEAN]
      /\ \A v \in Workers \ {w} :
           last_graph'[v] = last_graph[v] /\ pending'[v] = pending[v]
      /\ pending'[w] => w \in Active /\ last_graph[w] # n_graph
      /\ last_graph'[w] = last_graph[w] \/ last_graph'[w] = n_graph
      /\ pending'[w] => last_graph'[w] = n_graph
  <2>1. CASE NewGraph(w) /\ Take(w)
    <3>1. /\ n_graph \in [count : Nat, nth : 0 .. NThreads]
          /\ last_graph \in [Workers -> [count : Nat, nth : 0 .. NThreads]]
          /\ pending \in [Workers -> BOOLEAN]
      BY <1>1 DEF TypeInv
    <3>2. /\ pending' = [pending EXCEPT ![w] = w < n_graph.nth]
          /\ last_graph' = [last_graph EXCEPT ![w] = n_graph]
      BY <2>1 DEF Take
    <3>3. (w < n_graph.nth) \in BOOLEAN
      OBVIOUS
    <3>4. pending' \in [Workers -> BOOLEAN]
      BY <3>1, <3>2, <3>3, Zenon
    <3>5. pending'[w] <=> w < n_graph.nth
      BY <3>1, <3>2, Zenon
    <3>6. /\ last_graph' \in [Workers -> [count : Nat, nth : 0 .. NThreads]]
          /\ last_graph'[w] = n_graph
      BY <3>1, <3>2
    <3>7. \A v \in Workers \ {w} :
            last_graph'[v] = last_graph[v] /\ pending'[v] = pending[v]
      BY <3>1, <3>2
    <3> QED
      BY <1>1, <2>1, <3>4, <3>5, <3>6, <3>7 DEF Active, NewGraph
  <2>2. CASE UNCHANGED workerVars
    BY <1>1, <1>4, <2>2 DEF TypeInv, workerVars
  <2> QED
    BY <1>2, <2>1, <2>2
<1>6. TypeInv'
  <2>1. /\ pc' \in [Threads -> IdlePC \cup OverPC \cup ComputePC \cup {"wake", "start"}]
        /\ pc'[0] = pc[0]
        /\ \A v \in Workers : pc'[v] \in IdlePC \cup ComputePC \cup {"start"}
    BY <1>1, <1>2, <1>3 DEF TypeInv, Workers
  <2>2. UNCHANGED <<n_graph, current_chunk, abort, ec, cgraph, nth, node_n, chunk,
                    ran, hits, n_barrier, n_barrier_passed, n_passed, bpc>>
    BY <1>2 DEF localVars, historyVars, barrierVars
  <2> QED
    BY <1>1, <1>5, <2>1, <2>2 DEF TypeInv, BarrierTypeOK
<1>7. Alone(w)
  BY <1>2, <1>3 DEF Alone, IdlePC, AtBarrier, localVars, historyVars
<1>8. WorkerPlace(w)'
  <2>1. At(w) = pc[w] /\ At(w)' = pc'[w] /\ At(0)' = At(0)
    BY <1>1, <1>7, ThreadSets, AloneMoves, OutsideBarrier DEF Alone
  <2>2. (Over' <=> Over) /\ Active' = Active
    BY <1>2, <2>1 DEF Over, Active
  <2>3. pending'[w] => ~Over
    BY <1>1, <1>5 DEF WorkerInv, WorkerPlace
  <2> QED
    BY <1>1, <1>2, <1>3, <1>5, <2>1, <2>2, <2>3 DEF WorkerInv, WorkerPlace
<1> QED
  BY <1>2, <1>3, <1>5, <1>6, <1>7, <1>8, WaitingStep

-----------------------------------------------------------------------------
(* A step of one thread leaves the places of the others typed. *)
LEMMA Moves ==
  ASSUME TypeInv, NEW t \in Threads, NEW l, pc' = [pc EXCEPT ![t] = l],
         IF t = 0 THEN l \in OverPC \cup ComputePC \cup {"wake"}
                  ELSE l \in IdlePC \cup ComputePC \cup {"start"}
  PROVE  /\ pc' \in [Threads -> IdlePC \cup OverPC \cup ComputePC \cup {"wake", "start"}]
         /\ pc'[0] \in OverPC \cup ComputePC \cup {"wake"}
         /\ \A w \in Workers : pc'[w] \in IdlePC \cup ComputePC \cup {"start"}
         /\ pc'[t] = l /\ \A u \in Threads \ {t} : pc'[u] = pc[u]
<1>1. /\ pc \in [Threads -> IdlePC \cup OverPC \cup ComputePC \cup {"wake", "start"}]
      /\ pc[0] \in OverPC \cup ComputePC \cup {"wake"}
      /\ \A w \in Workers : pc[w] \in IdlePC \cup ComputePC \cup {"start"}
      /\ 0 \in Threads
  BY ThreadSets DEF TypeInv
<1>2. pc'[t] = l /\ \A u \in Threads \ {t} : pc'[u] = pc[u]
  BY <1>1
<1> QED
  BY <1>1, <1>2 DEF Workers

(* A thread that computes is one of the graph's, which is not over. *)
LEMMA Computing ==
  ASSUME TypeInv, WorkerInv, NEW t \in Threads,
         At(t) \in ComputePC \cup {"start", "wake"}
  PROVE  /\ ~Over /\ t \in Active /\ n_graph.nth > 0
         /\ t \in Workers => last_graph[t] = n_graph
         /\ At(t) \in ComputePC => nth[t] = n_graph.nth
<1>1. CASE t = 0
  <2>1. ~Over
    BY <1>1 DEF Over, OverPC, ComputePC
  <2> QED
    BY <1>1, <2>1, ThreadSets DEF WorkerInv, ThreadCount, Workers
<1>2. CASE t # 0
  <2>1. t \in Workers /\ At(t) \notin IdlePC
    BY <1>2 DEF Workers, IdlePC, ComputePC
  <2> QED
    BY <2>1 DEF WorkerInv, WorkerPlace, ThreadCount
<1> QED
  BY <1>1, <1>2

(* A step of a thread that computes before and after it. *)
LEMMA ComputeRest ==
  ASSUME IInv, NEW t \in Threads, Alone(t),
         pc[t] \in ComputePC \cup {"start", "wake"}, pc'[t] \in ComputePC,
         nth'[t] = n_graph.nth, UNCHANGED last_graph,
         \A w \in Workers \ {t} : pending'[w] = pending[w],
         t \in Workers => pending'[t] = FALSE
  PROVE  ~Over /\ ~Over' /\ t \in Active /\ BarrierInv' /\ WorkerInv' /\ FinishInv'
<1>1. TypeInv /\ BarrierInv /\ WorkerInv /\ 0 \in Threads
  BY ThreadSets DEF IInv
<1>2. At(t) = pc[t] /\ At(t)' = pc'[t] /\ \A u \in Threads \ {t} : At(u)' = At(u)
  BY <1>1, AloneMoves, OutsideBarrier DEF Alone
<1>3. /\ ~Over /\ t \in Active /\ n_graph.nth > 0
      /\ t \in Workers => last_graph[t] = n_graph
  BY <1>1, <1>2, Computing
<1>4. ~Over'
  <2>1. CASE t = 0
    BY <1>2, <2>1 DEF Over, OverPC, ComputePC
  <2>2. CASE t # 0
    BY <1>1, <1>2, <1>3, <2>2 DEF Over
  <2> QED
    BY <2>1, <2>2
<1>5. BarrierInv'
  BY <1>1, AloneBarrier
<1>6. n_graph' = n_graph /\ Active' = Active
  BY DEF Alone, Active
<1>7. t \in Workers => WorkerPlace(t)'
  BY <1>3, <1>4, <1>6 DEF WorkerPlace
<1>8. ThreadCount(t)'
  BY <1>6 DEF ThreadCount
<1>9. pc'[t] \notin {"kickoff", "wake"}
  BY DEF ComputePC
<1>10. WorkerInv'
  BY <1>1, <1>3, <1>4, <1>7, <1>8, <1>9, AloneWorkers
<1>11. FinishInv'
  BY <1>4 DEF FinishInv, Over, OverPC
<1> QED
  BY <1>3, <1>4, <1>5, <1>10, <1>11

(* A worker begins the graph. *)
LEMMA StartStep ==
  ASSUME IInv, NEW w \in Workers, Start(w)
  PROVE  IInv'
<1>1. /\ w \in Threads /\ w # 0 /\ TypeInv /\ BarrierInv /\ WorkerInv /\ SegmentInv
  BY ThreadSets DEF Workers, IInv
<1>2. /\ pc[w] = "start" /\ pc' = [pc EXCEPT ![w] = "node"]
      /\ pending' = [pending EXCEPT ![w] = FALSE]
      /\ nth' = [nth EXCEPT ![w] = n_graph.nth]
      /\ node_n' = [node_n EXCEPT ![w] = 0]
      /\ UNCHANGED <<n_graph, current_chunk, abort, ec, cgraph, last_graph, chunk,
                     ran, hits, n_barrier, n_barrier_passed, n_passed, bpc>>
  BY DEF Start, Goto, poolVars, historyVars, barrierVars
<1>3. /\ pc'[w] = "node" /\ nth'[w] = n_graph.nth /\ node_n'[w] = 0
      /\ \A u \in Threads \ {w} :
           pc'[u] = pc[u] /\ nth'[u] = nth[u] /\ node_n'[u] = node_n[u]
      /\ pending'[w] = FALSE /\ \A v \in Workers \ {w} : pending'[v] = pending[v]
  BY <1>1, <1>2 DEF TypeInv
<1>4. TypeInv'
  <2>1. "node" \in ComputePC
    BY DEF ComputePC
  <2>2. /\ nth' \in [Threads -> 0 .. NThreads] /\ node_n' \in [Threads -> Nat]
        /\ pending' \in [Workers -> BOOLEAN]
    BY <1>1, <1>2 DEF TypeInv
  <2> QED
    BY <1>1, <1>2, <2>1, <2>2, Moves DEF TypeInv, BarrierTypeOK
<1>5. Alone(w)
  BY <1>2, <1>3 DEF Alone, AtBarrier, barrierVars
<1>6. ~Over /\ ~Over' /\ w \in Active /\ BarrierInv' /\ WorkerInv' /\ FinishInv'
  BY <1>1, <1>2, <1>3, <1>5, ComputeRest DEF ComputePC
<1>7. /\ At(w) = "start" /\ At(w)' = "node" /\ Node(w)' = 0
  BY <1>1, <1>2, <1>3, <1>5, AloneMoves, OutsideBarrier DEF AtBarrier
<1>8. ASSUME NEW k \in 0 .. NNodes, NEW inside \in BOOLEAN, Segment(k, inside)
      PROVE  Place(w, k, inside)'
  <2>1. ran[w] = {} /\ k = 0 /\ ~inside
    BY <1>6, <1>7, <1>8 DEF Segment, Place, ComputePC
  <2>2. /\ NNodes' = NNodes /\ OpNodes' = OpNodes /\ NNodes \in Nat /\ ran'[w] = {}
    BY <1>1, <1>2, <2>1 DEF TypeInv, NNodes, OpNodes, Kind
  <2>3. Computed(w)' = {}
    BY <1>7, <2>2 DEF Computed, OpNodes
  <2>4. BeforeBarrier(w, 0)'
    BY <1>7, <2>2 DEF BeforeBarrier, NoOps, OpNodes
  <2> QED
    BY <1>7, <2>1, <2>2, <2>3, <2>4 DEF Place, ComputePC
<1>9. SegmentInv'
  BY <1>1, <1>2, <1>5, <1>6, <1>7, <1>8, AloneSegment
<1> QED
  BY <1>4, <1>6, <1>9 DEF IInv

-----------------------------------------------------------------------------
(* A step of a thread that computes, away from the barrier and the chunks. *)
LEMMA PlainCompute ==
  ASSUME IInv, NEW t \in Threads, Alone(t), TypeInv',
         pc[t] \in {"node", "forward", "check"},
         pc'[t] \in ComputePC, pc'[t] # "mul_mat", t = 0 => pc'[t] # "mm_barrier",
         UNCHANGED <<current_chunk, abort, ec, cgraph, workerVars, nth, hits>>,
         \A k \in 0 .. NNodes, inside \in BOOLEAN :
           Segment(k, inside) /\ t \in Active =>
             Place(t, k, inside)' /\ (t = 0 => AbortInv(k, inside)')
  PROVE  IInv'
<1>1. TypeInv /\ BarrierInv /\ WorkerInv /\ SegmentInv
  BY DEF IInv
<1>2. At(t) = pc[t] /\ At(t)' = pc'[t]
  BY <1>1, AloneMoves, OutsideBarrier DEF Alone
<1>3. nth'[t] = n_graph.nth /\ (t \in Workers => pending'[t] = FALSE)
  <2>1. nth[t] = n_graph.nth
    BY <1>1, <1>2, Computing DEF ComputePC
  <2>2. t \in Workers => ~pending[t]
    BY <1>1 DEF WorkerInv, WorkerPlace
  <2>3. t \in Workers => pending[t] \in BOOLEAN
    BY <1>1 DEF TypeInv
  <2> QED
    BY <2>1, <2>2, <2>3 DEF workerVars
<1>4. ~Over /\ ~Over' /\ t \in Active /\ BarrierInv' /\ WorkerInv' /\ FinishInv'
  BY <1>3, ComputeRest DEF ComputePC, workerVars
<1>5. SegmentInv'
  BY <1>1, <1>2, <1>4, AloneSegment
<1> QED
  BY <1>4, <1>5 DEF IInv

(* The numbers of the nodes. *)
LEMMA NodeNumbers ==
  ASSUME TypeInv
  PROVE  /\ NNodes \in Nat /\ \A i \in OpNodes : i \in Nat /\ i < NNodes
         /\ \A i \in 0 .. NNodes - 1 : Kind(i) \in NodeKinds
                                      /\ (i \in OpNodes <=> Kind(i) # "nop")
         /\ node_n \in [Threads -> Nat] /\ abort \in Int
<1>1. cgraph \in Seq(NodeKinds)
  BY DEF TypeInv
<1> QED
  BY <1>1 DEF TypeInv, NNodes, OpNodes, Kind

(* While t has only passed nodes without code, no thread has aborted at the *)
(* node it reads but at the one the segment begins with.                   *)
LEMMA AbortSeen ==
  ASSUME TypeInv, NEW k \in 0 .. NNodes, AbortInv(k, FALSE),
         Place(0, k, FALSE), NEW m \in Nat, NoOps(k, m), m < NNodes, abort = m
  PROVE  abort = k
<1>1. \A i \in OpNodes : i \in Nat
  BY NodeNumbers
<1>2. CASE abort = Node(0) + 1 /\ At(0) = "node_barrier"
  <2>1. BeforeBarrier(0, k) /\ k <= Node(0) /\ Node(0) <= NNodes
    BY <1>2 DEF Place, NotBegun, IdlePC
  <2>2. Node(0) \in OpNodes
    BY <1>2, <2>1 DEF BeforeBarrier
  <2>3. Node(0) \in Nat
    BY <1>1, <2>2
  <2>4. Node(0) < m
    BY <1>2, <2>3
  <2> QED
    BY <2>1, <2>2, <2>4 DEF NoOps
<1> QED
  BY <1>1, <1>2 DEF AbortInv

(* The loop over the nodes. *)
LEMMA NextNodeStep ==
  ASSUME IInv, NEW t \in Threads, NextNode(t)
  PROVE  IInv'
<1>1. TypeInv /\ BarrierInv /\ WorkerInv /\ SegmentInv
  BY DEF IInv
<1>2. /\ NNodes \in Nat /\ \A i \in OpNodes : i \in Nat /\ i < NNodes
      /\ \A i \in 0 .. NNodes - 1 : Kind(i) \in NodeKinds
                                   /\ (i \in OpNodes <=> Kind(i) # "nop")
      /\ node_n \in [Threads -> Nat] /\ abort \in Int
  BY <1>1, NodeNumbers
<1>3. /\ pc[t] = "node"
      /\ UNCHANGED <<n_graph, current_chunk, abort, ec, cgraph, workerVars, nth, chunk,
                     ran, hits, n_barrier, n_barrier_passed, n_passed, bpc>>
  BY DEF NextNode, poolVars, historyVars, barrierVars
<1>4. \E l \in {"node", "final_barrier", "forward"}, m \in Nat :
        /\ pc' = [pc EXCEPT ![t] = l] /\ node_n' = [node_n EXCEPT ![t] = m]
        /\ \/ /\ node_n[t] >= NNodes \/ abort = node_n[t]
              /\ l = "final_barrier" /\ m = node_n[t]
           \/ /\ node_n[t] < NNodes /\ abort # node_n[t] /\ node_n[t] \notin OpNodes
              /\ l = "node" /\ m = node_n[t] + 1
           \/ /\ node_n[t] < NNodes /\ abort # node_n[t] /\ node_n[t] \in OpNodes
              /\ l = "forward" /\ m = node_n[t]
  <2>1. node_n[t] \in Nat /\ node_n = [node_n EXCEPT ![t] = node_n[t]]
        /\ pc = [pc EXCEPT ![t] = "node"]
    BY <1>1, <1>2, <1>3 DEF TypeInv
  <2>2. CASE node_n[t] >= NNodes \/ abort = node_n[t]
    BY <2>1, <2>2 DEF NextNode, Goto
  <2>3. CASE ~(node_n[t] >= NNodes \/ abort = node_n[t])
    <3>1. node_n[t] < NNodes /\ node_n[t] \in 0 .. NNodes - 1
      BY <1>2, <2>1, <2>3
    <3>2. CASE Kind(node_n[t]) = "nop"
      BY <1>2, <2>1, <2>3, <3>1, <3>2 DEF NextNode
    <3>3. CASE Kind(node_n[t]) # "nop"
      BY <1>2, <2>1, <2>3, <3>1, <3>3 DEF NextNode, Goto
    <3> QED
      BY <3>2, <3>3
  <2> QED
    BY <2>2, <2>3
<1>5. PICK l \in {"node", "final_barrier", "forward"}, m \in Nat :
        /\ pc' = [pc EXCEPT ![t] = l] /\ node_n' = [node_n EXCEPT ![t] = m]
        /\ \/ /\ node_n[t] >= NNodes \/ abort = node_n[t]
              /\ l = "final_barrier" /\ m = node_n[t]
           \/ /\ node_n[t] < NNodes /\ abort # node_n[t] /\ node_n[t] \notin OpNodes
              /\ l = "node" /\ m = node_n[t] + 1
           \/ /\ node_n[t] < NNodes /\ abort # node_n[t] /\ node_n[t] \in OpNodes
              /\ l = "forward" /\ m = node_n[t]
  BY <1>4
<1>6. /\ pc'[t] = l /\ node_n'[t] = m
      /\ \A u \in Threads \ {t} : pc'[u] = pc[u] /\ node_n'[u] = node_n[u]
  BY <1>1, <1>5 DEF TypeInv
<1>7. TypeInv'
  <2>1. l \in ComputePC
    BY DEF ComputePC
  <2>2. node_n' \in [Threads -> Nat]
    BY <1>2, <1>5
  <2> QED
    BY <1>1, <1>3, <1>5, <2>1, <2>2, Moves DEF TypeInv, BarrierTypeOK, workerVars
<1>8. Alone(t)
  BY <1>3, <1>6 DEF Alone, AtBarrier, barrierVars
<1>9. /\ At(t) = "node" /\ At(t)' = l /\ Node(t) = node_n[t] /\ Node(t)' = m
  BY <1>1, <1>3, <1>6, <1>8, AloneMoves, OutsideBarrier DEF Alone
<1>10. /\ NNodes' = NNodes /\ OpNodes' = OpNodes /\ abort' = abort
       /\ ran'[t] = ran[t]
  BY <1>3 DEF NNodes, OpNodes, Kind
<1>11. ASSUME NEW k \in 0 .. NNodes, NEW inside \in BOOLEAN, Segment(k, inside),
              t \in Active
       PROVE  Place(t, k, inside)' /\ (t = 0 => AbortInv(k, inside)')
  <2>1. /\ ran[t] = Computed(t) /\ k <= Node(t) /\ Node(t) <= NNodes
        /\ IF inside THEN InsideMulMat(t, k) ELSE BeforeBarrier(t, k)
    BY <1>9, <1>11 DEF Segment, Place, NotBegun, IdlePC
  <2>2. AbortInv(k, inside) /\ Place(0, k, inside)
    BY <1>1, <1>9, <1>11, Computing, ThreadSets DEF Segment, ComputePC
  <2> DEFINE Before(j) == {i \in OpNodes : i < j}
  <2>3. Computed(t) = Before(node_n[t])
    BY <1>9 DEF Computed
  <2>4. Computed(t)' = Before(m)
    BY <1>9, <1>10 DEF Computed
  <2>5. Computed(t)' = Computed(t)
    <3>1. node_n[t] \notin OpNodes => Before(node_n[t] + 1) = Before(node_n[t])
      BY <1>2
    <3> HIDE DEF Before
    <3> QED
      BY <1>5, <2>3, <2>4, <3>1
  <2> HIDE DEF Before
  <2>6. k \in Nat /\ node_n[t] \in Nat /\ node_n[t] <= NNodes /\ k <= node_n[t]
    BY <1>2, <1>9, <2>1
  <2>7. m <= NNodes /\ k <= m
    BY <1>2, <1>5, <2>6
  <2>11. /\ At(t)' \in ComputePC /\ ran'[t] = Computed(t)'
         /\ k <= Node(t)' /\ Node(t)' <= NNodes'
    BY <1>9, <1>10, <2>1, <2>5, <2>7 DEF ComputePC
  <2>8. ASSUME inside PROVE Place(t, k, inside)'
    <3>1. node_n[t] = k + 1 /\ k + 1 = NNodes
      BY <1>9, <2>1, <2>8 DEF InsideMulMat
    <3>2. m = k + 1 /\ l = "final_barrier"
      BY <1>2, <1>5, <3>1
    <3>3. InsideMulMat(t, k)'
      BY <1>9, <1>10, <3>1, <3>2 DEF InsideMulMat
    <3> QED
      BY <2>8, <2>11, <3>3 DEF Place
  <2>9. ASSUME ~inside PROVE Place(t, k, inside)'
    <3>1. \/ NoOps(k, node_n[t]) /\ (abort = k => node_n[t] = k)
          \/ /\ abort # k /\ node_n[t] = NNodes /\ k < node_n[t]
             /\ NoOps(k, node_n[t] - 1)
             /\ node_n[t] - 1 \in OpNodes /\ Kind(node_n[t] - 1) # "mul_mat"
      BY <1>9, <2>1, <2>9 DEF BeforeBarrier
    <3>2. \A j : NoOps(k, j)' <=> NoOps(k, j)
      BY <1>10 DEF NoOps
    <3>3. \A j : Kind(j)' = Kind(j)
      BY <1>3 DEF Kind
    <3>4. BeforeBarrier(t, k)'
      <4>1. CASE l = "final_barrier" /\ NoOps(k, node_n[t]) /\ (abort = k => node_n[t] = k)
        <5>1. m = node_n[t] /\ (m >= NNodes \/ abort = m)
          BY <1>5, <4>1
        <5>2. abort # k => m = NNodes
          <6>1. CASE m < NNodes
            <7>1. abort = m /\ NoOps(k, m) /\ AbortInv(k, FALSE) /\ Place(0, k, FALSE)
              <8>1. inside = FALSE /\ abort = m
                BY <1>2, <2>7, <2>9, <5>1, <6>1
              <8> QED
                BY <2>2, <4>1, <5>1, <8>1
            <7> QED
              BY <1>1, <6>1, <7>1, AbortSeen
          <6> QED
            BY <1>2, <2>7, <6>1
        <5> QED
          BY <1>9, <1>10, <3>2, <4>1, <5>1, <5>2 DEF BeforeBarrier
      <4>2. CASE l = "final_barrier" /\ abort # k /\ node_n[t] = NNodes
                 /\ k < node_n[t] /\ NoOps(k, node_n[t] - 1)
                 /\ node_n[t] - 1 \in OpNodes /\ Kind(node_n[t] - 1) # "mul_mat"
        BY <1>5, <1>9, <1>10, <3>2, <3>3, <4>2 DEF BeforeBarrier
      <4>3. CASE l # "final_barrier"
        <5>1. node_n[t] < NNodes /\ abort # node_n[t]
          BY <1>5, <4>3
        <5>2. NoOps(k, node_n[t]) /\ abort # k
          BY <1>2, <2>6, <3>1, <5>1
        <5>3. CASE l = "node"
          <6>1. m = node_n[t] + 1 /\ node_n[t] \notin OpNodes
            BY <1>5, <5>3
          <6>2. NoOps(k, m)
            BY <1>2, <2>6, <5>2, <6>1 DEF NoOps
          <6> QED
            BY <1>9, <1>10, <3>2, <5>2, <5>3, <6>2 DEF BeforeBarrier
        <5>4. CASE l = "forward"
          BY <1>5, <1>9, <1>10, <3>2, <5>2, <5>4 DEF BeforeBarrier
        <5> QED
          BY <4>3, <5>3, <5>4
      <4> QED
        BY <3>1, <4>1, <4>2, <4>3
    <3> QED
      BY <2>9, <2>11, <3>4 DEF Place
  <2>10. ASSUME t = 0 PROVE AbortInv(k, inside)'
    <3>1. abort = NNodes /\ node_n[t] = NNodes => l = "final_barrier" /\ m = NNodes
      BY <1>2, <1>5, <2>6
    <3> QED
      BY <1>3, <1>9, <1>10, <2>2, <2>10, <3>1 DEF AbortInv
  <2> QED
    BY <2>8, <2>9, <2>10
<1> QED
  BY <1>3, <1>6, <1>7, <1>8, <1>11, PlainCompute DEF ComputePC

(* A node that is not a MUL_MAT is computed; a MUL_MAT begins, and thread 0 *)
(* sets the first chunk that belongs to nobody.                            *)
LEMMA ForwardStep ==
  ASSUME IInv, NEW t \in Threads, Forward(t)
  PROVE  IInv'
<1>1. TypeInv /\ BarrierInv /\ WorkerInv /\ SegmentInv
  BY DEF IInv
<1>2. /\ NNodes \in Nat /\ \A i \in OpNodes : i \in Nat /\ i < NNodes
      /\ node_n \in [Threads -> Nat]
  BY <1>1, NodeNumbers
<1>3. /\ pc[t] = "forward"
      /\ UNCHANGED <<n_graph, abort, ec, cgraph, workerVars, localVars,
                     hits, n_barrier, n_barrier_passed, n_passed, bpc>>
  BY DEF Forward, barrierVars
<1>4. /\ At(t) = "forward" /\ Node(t) = node_n[t]
      /\ t \in Active /\ nth[t] = n_graph.nth /\ nth[t] \in Nat /\ ~Over
      /\ Active \subseteq Threads /\ 0 \in Active /\ 0 \in Threads
  BY <1>1, <1>3, OutsideBarrier, Computing, ThreadSets DEF AtBarrier, ComputePC
<1>5. /\ NNodes' = NNodes /\ OpNodes' = OpNodes /\ \A j : Kind(j)' = Kind(j)
      /\ \A k, j : NoOps(k, j)' <=> NoOps(k, j)
  BY <1>3 DEF NNodes, OpNodes, Kind, NoOps
<1>6. ASSUME NEW k \in 0 .. NNodes, NEW inside \in BOOLEAN, Segment(k, inside)
      PROVE  /\ inside = FALSE /\ ran[t] = Computed(t) /\ k <= node_n[t]
             /\ node_n[t] < NNodes /\ node_n[t] \in OpNodes
             /\ NoOps(k, node_n[t]) /\ abort # k
  <2>1. Place(t, k, inside)
    BY <1>4, <1>6 DEF Segment
  <2>2. ~inside
    BY <1>4, <2>1 DEF Place, InsideMulMat, NotBegun, IdlePC
  <2>3. ran[t] = Computed(t) /\ k <= Node(t) /\ BeforeBarrier(t, k)
    BY <1>4, <2>1, <2>2 DEF Place, NotBegun, IdlePC
  <2> QED
    BY <1>2, <1>4, <2>2, <2>3 DEF BeforeBarrier
<1>7. CASE Kind(node_n[t]) = "mul_mat"
  <2>1. /\ pc' = [pc EXCEPT ![t] = "mm_barrier"] /\ ran' = ran
        /\ current_chunk' = IF t = 0 THEN nth[t] ELSE current_chunk
    BY <1>7 DEF Forward, Goto, FirstFreeChunk
  <2>2. pc'[t] = "mm_barrier" /\ \A u \in Threads \ {t} : pc'[u] = pc[u]
    BY <1>1, <2>1 DEF TypeInv
  <2>3. TypeInv'
    <3>1. current_chunk' \in Nat
      BY <1>1, <1>4, <2>1 DEF TypeInv
    <3>2. "mm_barrier" \in ComputePC
      BY DEF ComputePC
    <3> QED
      BY <1>1, <1>3, <2>1, <3>1, <3>2, Moves
         DEF TypeInv, BarrierTypeOK, workerVars, localVars
  <2>4. Alone(t)
    BY <1>3, <2>1, <2>2 DEF Alone, AtBarrier, barrierVars, localVars
  <2>5. /\ At(t)' = "mm_barrier" /\ Node(t)' = node_n[t]
        /\ \A u \in Threads \ {t} :
             At(u)' = At(u) /\ Node(u)' = Node(u) /\ Chunk(u)' = Chunk(u)
    BY <1>1, <1>3, <2>2, <2>4, AloneMoves DEF localVars
  <2>6. ASSUME NEW k \in 0 .. NNodes, NEW inside \in BOOLEAN, Segment(k, inside)
        PROVE  Place(t, k, inside)'
    <3>1. Computed(t)' = Computed(t)
      BY <1>4, <1>5, <2>5 DEF Computed
    <3>2. BeforeBarrier(t, k)'
      BY <1>3, <1>5, <1>6, <1>7, <2>5, <2>6 DEF BeforeBarrier
    <3>3. At(t)' \in ComputePC /\ ran'[t] = Computed(t)'
      BY <1>6, <2>1, <2>5, <2>6, <3>1 DEF ComputePC
    <3>6. k <= Node(t)' /\ Node(t)' <= NNodes'
      <4>1. k <= node_n[t] /\ node_n[t] < NNodes /\ node_n[t] \in Nat /\ NNodes \in Nat
        BY <1>2, <1>6, <2>6
      <4> QED
        BY <1>5, <2>5, <4>1
    <3> QED
      BY <1>6, <2>6, <3>2, <3>3, <3>6 DEF Place
  <2>7. CASE t # 0
    BY <1>3, <2>1, <2>2, <2>3, <2>4, <2>6, <2>7, PlainCompute DEF ComputePC, localVars
  <2>8. CASE t = 0
    <3>1. nth'[t] = n_graph.nth /\ t \notin Workers
      BY <1>3, <1>4, <2>8 DEF localVars, Workers
    <3>2. ~Over' /\ BarrierInv' /\ WorkerInv' /\ FinishInv'
      BY <1>3, <2>2, <2>4, <3>1, ComputeRest DEF ComputePC, workerVars
    <3>3. PICK k \in 0 .. NNodes, inside \in BOOLEAN : Segment(k, inside)
      BY <1>1, <1>4 DEF SegmentInv
    <3>4. inside = FALSE /\ abort # k /\ Active' = Active
      BY <1>3, <1>6, <3>3 DEF Active
    <3>5. \A u \in Active : Place(u, k, inside)'
      <4>1. ASSUME NEW u \in Active, u # t PROVE Place(u, k, inside)'
        <5>1. At(u)' = At(u) /\ Node(u)' = Node(u) /\ ran'[u] = ran[u] /\ u \in Threads
          BY <1>4, <2>1, <2>5, <4>1
        <5>2. Place(u, k, inside)
          BY <3>3 DEF Segment
        <5> QED
          BY <1>3, <5>1, <5>2, PlaceSame
      <4> QED
        BY <2>6, <3>3, <4>1
    <3>6. AbortInv(k, inside)'
      <4>1. AbortInv(k, inside)
        BY <3>3 DEF Segment
      <4> QED
        BY <1>3, <1>4, <1>5, <2>5, <2>8, <3>4, <4>1 DEF AbortInv
    <3>7. ChunkInv(inside)'
      BY <1>3, <1>4, <2>1, <2>8, <3>4 DEF ChunkInv
    <3>8. HitsInv(k, inside)'
      <4>1. HitsInv(k, FALSE)
        BY <3>3, <3>4 DEF Segment
      <4>2. Count' = Count
        BY <1>3 DEF Count, ChunkCount
      <4> QED
        BY <1>3, <1>5, <3>4, <4>1, <4>2 DEF HitsInv
    <3>9. \A u \in Threads \ Active' : ran'[u] = {}
      BY <2>1, <3>3, <3>4 DEF Segment
    <3>10. SegmentInv'
      BY <1>5, <3>3, <3>4, <3>5, <3>6, <3>7, <3>8, <3>9 DEF SegmentInv, Segment
    <3> QED
      BY <2>3, <3>2, <3>10 DEF IInv
  <2> QED
    BY <2>7, <2>8
<1>8. CASE Kind(node_n[t]) # "mul_mat"
  <2>1. /\ pc' = [pc EXCEPT ![t] = "check"] /\ current_chunk' = current_chunk
        /\ ran' = [ran EXCEPT ![t] = @ \cup {node_n[t]}]
    BY <1>8 DEF Forward, Goto
  <2>2. /\ pc'[t] = "check" /\ ran'[t] = ran[t] \cup {node_n[t]}
        /\ \A u \in Threads \ {t} : pc'[u] = pc[u] /\ ran'[u] = ran[u]
    BY <1>1, <2>1 DEF TypeInv
  <2>3. TypeInv'
    <3>1. ran' \in [Threads -> SUBSET Nat]
      <4>1. ran \in [Threads -> SUBSET Nat] /\ node_n[t] \in Nat
        BY <1>1, <1>2 DEF TypeInv
      <4>2. ran[t] \cup {node_n[t]} \in SUBSET Nat
        BY <4>1
      <4> QED
        BY <2>1, <4>1, <4>2
    <3>2. "check" \in ComputePC
      BY DEF ComputePC
    <3> QED
      BY <1>1, <1>3, <2>1, <3>1, <3>2, Moves
         DEF TypeInv, BarrierTypeOK, workerVars, localVars
  <2>4. Alone(t)
    BY <1>3, <2>1, <2>2 DEF Alone, AtBarrier, barrierVars, localVars
  <2>5. At(t)' = "check" /\ Node(t)' = node_n[t]
    BY <1>1, <1>3, <2>2, <2>4, AloneMoves DEF localVars
  <2>6. ASSUME NEW k \in 0 .. NNodes, NEW inside \in BOOLEAN, Segment(k, inside)
        PROVE  Place(t, k, inside)' /\ (t = 0 => AbortInv(k, inside)')
    <3>1. Computed(t)' = Computed(t) \cup {node_n[t]}
      <4>1. node_n[t] \in OpNodes
        BY <1>6, <2>6
      <4> QED
        BY <1>2, <1>4, <1>5, <2>5, <4>1 DEF Computed
    <3>2. BeforeBarrier(t, k)'
      BY <1>3, <1>5, <1>6, <1>8, <2>5, <2>6 DEF BeforeBarrier
    <3>3. At(t)' \in ComputePC /\ ran'[t] = Computed(t)'
      BY <1>6, <2>2, <2>5, <2>6, <3>1 DEF ComputePC
    <3>6. k <= Node(t)' /\ Node(t)' <= NNodes'
      <4>1. k <= node_n[t] /\ node_n[t] < NNodes /\ node_n[t] \in Nat /\ NNodes \in Nat
        BY <1>2, <1>6, <2>6
      <4> QED
        BY <1>5, <2>5, <4>1
    <3>4. Place(t, k, inside)'
      BY <1>6, <2>6, <3>2, <3>3, <3>6 DEF Place
    <3>5. t = 0 => AbortInv(k, inside)'
      BY <1>3, <1>4, <1>5, <2>5, <2>6 DEF AbortInv, Segment
    <3> QED
      BY <3>4, <3>5
  <2> QED
    BY <1>3, <2>1, <2>2, <2>3, <2>4, <2>6, PlainCompute DEF ComputePC, localVars
<1> QED
  BY <1>7, <1>8

(* What a thread does after a node, the poll of abort_callback apart. *)
AfterNodeStep(t) ==
  /\ pc[t] = "check"
  /\ AfterNode(t)
  /\ UNCHANGED <<n_graph, current_chunk, cgraph, workerVars, nth, chunk, ran, hits,
                 barrierVars>>
  /\ abort' \in Int /\ ec' \in {"SUCCESS", "ABORTED"}

(* Where a thread is after a node. *)
LEMMA AfterNodeMoves ==
  ASSUME TypeInv, BarrierInv, WorkerInv, NEW t \in Threads, AfterNodeStep(t)
  PROVE  /\ TypeInv' /\ Alone(t) /\ t \in Active /\ ~Over
         /\ At(t) = "check" /\ Node(t) = node_n[t]
         /\ pc'[t] = At(t)' /\ At(t)' \in {"node", "node_barrier"}
         /\ IF node_n[t] + 1 < NNodes
            THEN At(t)' = "node_barrier" /\ Node(t)' = node_n[t]
            ELSE At(t)' = "node" /\ Node(t)' = node_n[t] + 1
<1>1. UNCHANGED <<n_graph, current_chunk, cgraph, last_graph, pending, nth, chunk, ran,
                  hits, n_barrier, n_barrier_passed, n_passed, bpc>>
      /\ pc[t] = "check"
  BY DEF AfterNodeStep, workerVars, barrierVars
<1>2. node_n \in [Threads -> Nat]
  BY DEF TypeInv
<1>3. PICK l \in {"node", "node_barrier"}, m \in Nat :
        /\ pc' = [pc EXCEPT ![t] = l] /\ node_n' = [node_n EXCEPT ![t] = m]
        /\ IF node_n[t] + 1 < NNodes THEN l = "node_barrier" /\ m = node_n[t]
                                     ELSE l = "node" /\ m = node_n[t] + 1
  <2>1. node_n[t] \in Nat /\ node_n[t] + 1 \in Nat
        /\ node_n = [node_n EXCEPT ![t] = node_n[t]]
    BY <1>2
  <2>2. CASE node_n[t] + 1 < NNodes
    BY <2>1, <2>2 DEF AfterNodeStep, AfterNode, Goto
  <2>3. CASE ~(node_n[t] + 1 < NNodes)
    BY <2>1, <2>3 DEF AfterNodeStep, AfterNode, Goto
  <2> QED
    BY <2>2, <2>3
<1>4. /\ pc'[t] = l /\ node_n'[t] = m
      /\ \A u \in Threads \ {t} : pc'[u] = pc[u] /\ node_n'[u] = node_n[u]
  BY <1>2, <1>3 DEF TypeInv
<1>5. TypeInv'
  <2>1. l \in ComputePC
    BY DEF ComputePC
  <2>2. node_n' \in [Threads -> Nat]
    BY <1>2, <1>3
  <2>3. abort' \in Int /\ ec' \in {"SUCCESS", "ABORTED"}
    BY DEF AfterNodeStep
  <2> QED
    BY <1>1, <1>3, <2>1, <2>2, <2>3, Moves DEF TypeInv, BarrierTypeOK
<1>6. Alone(t)
  BY <1>1, <1>4 DEF Alone, AtBarrier, barrierVars
<1>7. At(t) = "check" /\ Node(t) = node_n[t] /\ At(t)' = l /\ Node(t)' = m
  BY <1>1, <1>4, <1>6, AloneMoves, OutsideBarrier DEF Alone
<1>8. t \in Active /\ ~Over
  BY <1>7, Computing DEF ComputePC
<1> QED
  BY <1>3, <1>4, <1>5, <1>6, <1>7, <1>8

(* That is a place of the same segment, unless the segment starts with the  *)
(* node at which the graph stops.                                          *)
LEMMA AfterNodePlace ==
  ASSUME TypeInv, BarrierInv, WorkerInv, NEW t \in Threads, AfterNodeStep(t),
         NEW k \in 0 .. NNodes, NEW inside \in BOOLEAN, Segment(k, inside),
         abort # k => abort' # k
  PROVE  /\ Place(t, k, inside)' /\ Node(t)' \in Nat /\ k < Node(t)' + 1
         /\ ~inside => abort # k
<1>1. /\ NNodes \in Nat /\ \A i \in OpNodes : i \in Nat /\ i < NNodes
      /\ node_n[t] \in Nat
  BY NodeNumbers
<1>2. /\ At(t) = "check" /\ Node(t) = node_n[t] /\ t \in Active
      /\ IF node_n[t] + 1 < NNodes
         THEN At(t)' = "node_barrier" /\ Node(t)' = node_n[t]
         ELSE At(t)' = "node" /\ Node(t)' = node_n[t] + 1
  BY AfterNodeMoves
<1>3. /\ NNodes' = NNodes /\ OpNodes' = OpNodes /\ \A j : Kind(j)' = Kind(j)
      /\ \A j : NoOps(k, j)' <=> NoOps(k, j)
  BY DEF NNodes, OpNodes, Kind, NoOps, AfterNodeStep
<1>4. /\ ran[t] = Computed(t) /\ k <= node_n[t]
      /\ inside => InsideMulMat(t, k)
      /\ ~inside => BeforeBarrier(t, k)
  <2>1. Place(t, k, inside)
    BY <1>2 DEF Segment
  <2> QED
    BY <1>2, <2>1 DEF Place, NotBegun, IdlePC
<1>5. node_n[t] \in OpNodes
  <2>1. CASE inside
    <3>1. node_n[t] = k
      BY <1>2, <1>4, <2>1 DEF InsideMulMat
    <3> QED
      BY <2>1, <3>1 DEF Segment
  <2>2. CASE ~inside
    BY <1>2, <1>4, <2>2 DEF BeforeBarrier
  <2> QED
    BY <2>1, <2>2
<1>6. node_n[t] < NNodes
  BY <1>1, <1>5
<1>7. Computed(t)' = Computed(t)
  BY <1>1, <1>2, <1>3, <1>5, <1>6 DEF Computed
<1>8. inside => InsideMulMat(t, k)'
  <2> SUFFICES ASSUME inside PROVE InsideMulMat(t, k)'
    OBVIOUS
  <2>1. node_n[t] = k
    BY <1>2, <1>4 DEF InsideMulMat
  <2> QED
    BY <1>1, <1>2, <1>3, <1>6, <2>1 DEF InsideMulMat
<1>9. ~inside => BeforeBarrier(t, k)' /\ abort # k
  <2> SUFFICES ASSUME ~inside PROVE BeforeBarrier(t, k)' /\ abort # k
    OBVIOUS
  <2>1. NoOps(k, node_n[t]) /\ abort # k /\ Kind(node_n[t]) # "mul_mat"
    BY <1>2, <1>4 DEF BeforeBarrier
  <2>2. CASE node_n[t] + 1 < NNodes
    BY <1>2, <1>3, <1>5, <2>1, <2>2 DEF BeforeBarrier
  <2>3. CASE ~(node_n[t] + 1 < NNodes)
    <3>1. node_n[t] + 1 = NNodes /\ (node_n[t] + 1) - 1 = node_n[t] /\ k < node_n[t] + 1
          /\ k \in Nat
      BY <1>1, <1>4, <1>6, <2>3
    <3>4. Node(t)' = node_n[t] + 1 /\ At(t)' = "node"
      BY <1>2, <2>3
    <3>2. /\ At(t)' = "node" /\ Node(t)' = NNodes' /\ Node(t)' - 1 = node_n[t]
          /\ k < Node(t)' /\ abort' # k
      <4>1. abort' # k
        BY <2>1
      <4> QED
        BY <1>3, <3>1, <3>4, <4>1
    <3> QED
      BY <1>3, <1>5, <2>1, <3>2 DEF BeforeBarrier
  <2> QED
    BY <2>2, <2>3
<1>10. /\ At(t)' \in ComputePC /\ ran'[t] = Computed(t)'
  BY <1>2, <1>4, <1>7 DEF ComputePC, AfterNodeStep
<1>11. k \in Nat /\ k <= Node(t)' /\ Node(t)' <= NNodes' /\ Node(t)' \in Nat
  BY <1>1, <1>2, <1>3, <1>4, <1>6
<1> QED
  BY <1>8, <1>9, <1>10, <1>11 DEF Place

(* The end of a node without an abort. *)
LEMMA NodeDoneStep ==
  ASSUME IInv, NEW t \in Threads, NodeDone(t)
  PROVE  IInv'
<1>1. TypeInv /\ BarrierInv /\ WorkerInv
  BY DEF IInv
<1>2. /\ UNCHANGED <<n_graph, current_chunk, abort, ec, cgraph, workerVars, nth, ran, hits>>
      /\ pc[t] = "check" /\ AfterNodeStep(t)
  BY <1>1 DEF NodeDone, AfterNodeStep, poolVars, historyVars, TypeInv
<1>3. /\ TypeInv' /\ Alone(t) /\ At(t) = "check" /\ t \in Active
      /\ pc'[t] = At(t)' /\ At(t)' \in {"node", "node_barrier"}
  BY <1>1, <1>2, AfterNodeMoves
<1>4. ASSUME NEW k \in 0 .. NNodes, NEW inside \in BOOLEAN, Segment(k, inside)
      PROVE  Place(t, k, inside)' /\ (t = 0 => AbortInv(k, inside)')
  <2>1. Place(t, k, inside)'
    BY <1>1, <1>2, <1>4, AfterNodePlace
  <2>2. t = 0 => AbortInv(k, inside)'
    BY <1>2, <1>3, <1>4 DEF AbortInv, Segment
  <2> QED
    BY <2>1, <2>2
<1> QED
  BY <1>2, <1>3, <1>4, PlainCompute DEF ComputePC

(* Thread 0 aborts the graph after a node.  No thread has seen an earlier   *)
(* abort, and all of them will read this one at the same node.             *)
LEMMA AbortStep ==
  ASSUME IInv, Abort
  PROVE  IInv'
<1>1. /\ TypeInv /\ BarrierInv /\ WorkerInv /\ SegmentInv
      /\ 0 \in Threads /\ Active \subseteq Threads
  BY ThreadSets DEF IInv
<1>2. node_n[0] \in Nat /\ NNodes \in Nat
  BY <1>1, NodeNumbers
<1>3. /\ UNCHANGED <<n_graph, current_chunk, cgraph, last_graph, pending, nth, ran, hits>>
      /\ abort' = node_n[0] + 1 /\ ec' = "ABORTED"
      /\ pc[0] = "check" /\ AfterNodeStep(0)
  BY <1>2 DEF Abort, AbortAtNext, AfterNodeStep, workerVars, historyVars
<1>4. /\ TypeInv' /\ Alone(0) /\ 0 \in Active /\ ~Over
      /\ At(0) = "check" /\ Node(0) = node_n[0]
      /\ pc'[0] = At(0)' /\ At(0)' \in {"node", "node_barrier"}
      /\ IF node_n[0] + 1 < NNodes
            THEN At(0)' = "node_barrier" /\ Node(0)' = node_n[0]
            ELSE At(0)' = "node" /\ Node(0)' = node_n[0] + 1
  BY <1>1, <1>3, AfterNodeMoves
<1>5. ~Over' /\ BarrierInv' /\ WorkerInv' /\ FinishInv'
  <2>1. nth'[0] = n_graph.nth /\ 0 \notin Workers
    BY <1>1, <1>3, <1>4, Computing DEF ComputePC, Workers
  <2> QED
    BY <1>1, <1>3, <1>4, <2>1, ComputeRest DEF ComputePC
<1>6. PICK k \in 0 .. NNodes, inside \in BOOLEAN : Segment(k, inside)
  BY <1>1, <1>4 DEF SegmentInv
<1>7. Active' = Active /\ NNodes' = NNodes /\ Count' = Count /\ OpNodes' = OpNodes
      /\ \A j : Kind(j)' = Kind(j)
  BY <1>3 DEF Active, NNodes, Count, ChunkCount, OpNodes, Kind
<1>8. k <= node_n[0] /\ k \in Nat
  <2>1. Place(0, k, inside)
    BY <1>4, <1>6 DEF Segment
  <2> QED
    BY <1>2, <1>4, <2>1 DEF Place, NotBegun, IdlePC
<1>9. abort' # k
  BY <1>2, <1>3, <1>8
<1>10. Place(0, k, inside)' /\ (~inside => abort # k)
  BY <1>1, <1>3, <1>6, <1>9, AfterNodePlace
<1>11. ASSUME NEW u \in Active PROVE Place(u, k, inside)'
  <2>1. CASE u = 0
    BY <1>10, <2>1
  <2>2. CASE u # 0
    <3>1. /\ At(u)' = At(u) /\ Node(u)' = Node(u) /\ ran'[u] = ran[u]
      BY <1>1, <1>3, <1>4, <2>2, AloneMoves
    <3>2. Place(u, k, inside)
      BY <1>6 DEF Segment
    <3>3. /\ Computed(u)' = Computed(u) /\ (NotBegun(u)' <=> NotBegun(u))
          /\ \A m : NoOps(k, m)' <=> NoOps(k, m)
      BY <1>7, <3>1 DEF Computed, NotBegun, NoOps
    <3>4. InsideMulMat(u, k)' <=> InsideMulMat(u, k)
      BY <1>7, <3>1 DEF InsideMulMat
    <3>5. ~inside => (BeforeBarrier(u, k)' <=> BeforeBarrier(u, k))
      BY <1>7, <1>9, <1>10, <3>1, <3>3 DEF BeforeBarrier
    <3> QED
      BY <1>7, <3>1, <3>2, <3>3, <3>4, <3>5 DEF Place
  <2> QED
    BY <2>1, <2>2
<1>12. AbortInv(k, inside)'
  <2>1. node_n[0] < NNodes
    <3>1. Node(0)' <= NNodes'
      BY <1>4, <1>10 DEF Place, NotBegun, IdlePC
    <3> QED
      BY <1>2, <1>4, <1>7, <3>1
  <2>2. node_n[0] + 1 # -1
    BY <1>2
  <2>3. CASE node_n[0] + 1 < NNodes
    BY <1>3, <1>4, <2>2, <2>3 DEF AbortInv
  <2>4. CASE ~(node_n[0] + 1 < NNodes)
    <3>1. node_n[0] + 1 = NNodes
      BY <1>2, <2>1, <2>4
    <3> QED
      BY <1>3, <1>4, <1>7, <2>2, <2>4, <3>1 DEF AbortInv
  <2> QED
    BY <2>3, <2>4
<1>13. ChunksAt' = ChunksAt
  <2>1. \A u \in Active : /\ At(u)' = "mul_mat" <=> At(u) = "mul_mat"
                          /\ At(u) = "mul_mat" => Chunk(u)' = Chunk(u)
    BY <1>1, <1>4, AloneMoves
  <2> QED
    BY <1>7, <2>1 DEF ChunksAt
<1>14. HitsInv(k, inside)' /\ ChunkInv(inside)'
  BY <1>3, <1>4, <1>6, <1>13, HitsSame, ChunkSame DEF Segment
<1>15. \A u \in Threads \ Active' : ran'[u] = {}
  BY <1>3, <1>6, <1>7 DEF Segment
<1>16. SegmentInv'
  BY <1>6, <1>7, <1>11, <1>12, <1>14, <1>15 DEF SegmentInv, Segment
<1> QED
  BY <1>4, <1>5, <1>16 DEF IInv

(* The caller has told everybody of the graph and computes it too. *)
LEMMA KickoffWakeStep ==
  ASSUME IInv, KickoffWake
  PROVE  IInv'
<1>1. /\ TypeInv /\ BarrierInv /\ WorkerInv /\ SegmentInv /\ 0 \in Threads
  BY ThreadSets DEF IInv
<1>2. /\ pc[0] = "wake" /\ pc' = [pc EXCEPT ![0] = "node"]
      /\ nth' = [nth EXCEPT ![0] = n_graph.nth]
      /\ node_n' = [node_n EXCEPT ![0] = 0]
      /\ UNCHANGED <<n_graph, current_chunk, abort, ec, cgraph, last_graph, pending, chunk,
                     ran, hits, n_barrier, n_barrier_passed, n_passed, bpc>>
  BY DEF KickoffWake, Goto, workerVars, historyVars, barrierVars
<1>3. /\ pc'[0] = "node" /\ nth'[0] = n_graph.nth /\ node_n'[0] = 0
      /\ \A u \in Threads \ {0} :
           pc'[u] = pc[u] /\ nth'[u] = nth[u] /\ node_n'[u] = node_n[u]
  BY <1>1, <1>2 DEF TypeInv
<1>4. TypeInv'
  <2>1. "node" \in ComputePC
    BY DEF ComputePC
  <2>2. nth' \in [Threads -> 0 .. NThreads] /\ node_n' \in [Threads -> Nat]
    BY <1>1, <1>2 DEF TypeInv
  <2> QED
    BY <1>1, <1>2, <2>1, <2>2, Moves DEF TypeInv, BarrierTypeOK
<1>5. Alone(0)
  BY <1>2, <1>3 DEF Alone, AtBarrier, barrierVars
<1>6. ~Over /\ ~Over' /\ 0 \in Active /\ BarrierInv' /\ WorkerInv' /\ FinishInv'
  <2>1. 0 \notin Workers
    BY DEF Workers
  <2> QED
    BY <1>1, <1>2, <1>3, <1>5, <2>1, ComputeRest DEF ComputePC
<1>7. /\ At(0) = "wake" /\ At(0)' = "node" /\ Node(0)' = 0
  BY <1>1, <1>2, <1>3, <1>5, AloneMoves, OutsideBarrier DEF AtBarrier
<1>8. ASSUME NEW k \in 0 .. NNodes, NEW inside \in BOOLEAN, Segment(k, inside)
      PROVE  Place(0, k, inside)' /\ AbortInv(k, inside)'
  <2>1. ran[0] = {} /\ k = 0 /\ ~inside
    BY <1>6, <1>7, <1>8 DEF Segment, Place, ComputePC
  <2>2. /\ NNodes' = NNodes /\ OpNodes' = OpNodes /\ NNodes \in Nat /\ ran'[0] = {}
        /\ \A i \in OpNodes : i \in Nat
    BY <1>1, <1>2, <2>1, NodeNumbers DEF NNodes, OpNodes, Kind
  <2>3. Computed(0)' = {}
    BY <1>7, <2>2 DEF Computed
  <2>4. BeforeBarrier(0, 0)'
    BY <1>7, <2>2 DEF BeforeBarrier, NoOps
  <2>5. AbortInv(k, inside)'
    BY <1>2, <1>7, <1>8 DEF AbortInv, Segment
  <2> QED
    BY <1>7, <2>1, <2>2, <2>3, <2>4, <2>5 DEF Place, ComputePC
<1>9. SegmentInv'
  BY <1>1, <1>2, <1>5, <1>6, <1>7, <1>8, AloneSegment
<1> QED
  BY <1>4, <1>6, <1>9 DEF IInv

-----------------------------------------------------------------------------
(* A thread in the chunk loop of a MUL_MAT. *)
LEMMA InChunkLoop ==
  ASSUME IInv, NEW t \in Threads, pc[t] = "mul_mat"
  PROVE  /\ At(t) = "mul_mat" /\ Node(t) = node_n[t] /\ Chunk(t) = chunk[t]
         /\ t \in Active /\ ~Over /\ nth[t] = n_graph.nth /\ n_graph.nth > 0
         /\ \E k \in 0 .. NNodes : Segment(k, TRUE)
         /\ \A k \in 0 .. NNodes, inside \in BOOLEAN : Segment(k, inside) =>
              inside = TRUE /\ k = node_n[t] /\ k \in OpNodes /\ Kind(k) = "mul_mat"
              /\ ran[t] = {i \in OpNodes : i < k}
<1>1. TypeInv /\ BarrierInv /\ WorkerInv /\ SegmentInv
  BY DEF IInv
<1>2. At(t) = "mul_mat" /\ Node(t) = node_n[t] /\ Chunk(t) = chunk[t]
  BY <1>1, OutsideBarrier DEF AtBarrier
<1>3. t \in Active /\ ~Over /\ nth[t] = n_graph.nth /\ n_graph.nth > 0
  BY <1>1, <1>2, Computing DEF ComputePC
<1>4. ASSUME NEW k \in 0 .. NNodes, NEW inside \in BOOLEAN, Segment(k, inside)
      PROVE  inside = TRUE /\ k = node_n[t] /\ k \in OpNodes /\ Kind(k) = "mul_mat"
             /\ ran[t] = {i \in OpNodes : i < k}
  <2>1. Place(t, k, inside)
    BY <1>3, <1>4 DEF Segment
  <2>2. /\ ran[t] = Computed(t)
        /\ IF inside THEN InsideMulMat(t, k) ELSE BeforeBarrier(t, k)
    BY <1>2, <2>1 DEF Place, NotBegun, IdlePC
  <2>3. inside
    BY <1>2, <2>2 DEF BeforeBarrier
  <2>4. k = node_n[t]
    BY <1>2, <2>2, <2>3 DEF InsideMulMat
  <2>5. ran[t] = {i \in OpNodes : i < k}
    BY <1>2, <2>2, <2>4 DEF Computed
  <2>6. k \in OpNodes /\ Kind(k) = "mul_mat"
    BY <1>4, <2>3 DEF Segment
  <2> QED
    BY <2>3, <2>4, <2>5, <2>6
<1>5. \E k \in 0 .. NNodes : Segment(k, TRUE)
  <2>1. PICK k \in 0 .. NNodes, inside \in BOOLEAN : Segment(k, inside)
    BY <1>1, <1>3 DEF SegmentInv
  <2>2. inside = TRUE
    BY <1>4, <2>1
  <2> QED
    BY <2>1, <2>2
<1> QED
  BY <1>2, <1>3, <1>4, <1>5

(* What a step of that loop needs to show of the chunks. *)
LEMMA ChunkLoopStep ==
  ASSUME IInv, NEW t \in Threads, pc[t] = "mul_mat", Alone(t), TypeInv',
         UNCHANGED <<cgraph, abort, ec, nth, node_n, workerVars>>,
         \/ pc'[t] = "mul_mat" /\ ran'[t] = ran[t]
         \/ pc'[t] = "check" /\ ran'[t] = ran[t] \cup {node_n[t]},
         \A k \in 0 .. NNodes :
           Segment(k, TRUE) => ChunkInv(TRUE)' /\ HitsInv(k, TRUE)'
  PROVE  IInv'
<1>1. /\ TypeInv /\ BarrierInv /\ WorkerInv /\ 0 \in Threads
      /\ Active \subseteq Threads /\ n_graph' = n_graph
  BY ThreadSets DEF IInv, Alone
<1>2. At(t) = "mul_mat" /\ t \in Active /\ nth[t] = n_graph.nth /\ n_graph.nth > 0
      /\ 0 \in Active
  BY <1>1, InChunkLoop, ThreadSets
<1>3. PICK k \in 0 .. NNodes : Segment(k, TRUE)
  BY InChunkLoop
<1>4. k = node_n[t] /\ k \in OpNodes /\ Kind(k) = "mul_mat"
      /\ ran[t] = {i \in OpNodes : i < k}
  BY <1>3, InChunkLoop
<1>5. /\ At(t)' = pc'[t] /\ Node(t)' = k
      /\ \A u \in Threads \ {t} : At(u)' = At(u) /\ Node(u)' = Node(u)
  BY <1>1, <1>4, AloneMoves
<1>6. ~Over' /\ BarrierInv' /\ WorkerInv' /\ FinishInv'
  <2>1. t \in Workers => pending'[t] = FALSE
    BY <1>1 DEF WorkerInv, WorkerPlace, TypeInv, workerVars
  <2> QED
    BY <1>1, <1>2, <2>1, ComputeRest DEF ComputePC, workerVars
<1>7. /\ Active' = Active /\ NNodes' = NNodes /\ OpNodes' = OpNodes
      /\ \A j : Kind(j)' = Kind(j)
  BY <1>1 DEF Active, NNodes, OpNodes, Kind
<1>8. /\ NNodes \in Nat /\ \A i \in OpNodes : i \in Nat /\ i < NNodes
  BY <1>1, NodeNumbers
<1>9. ASSUME NEW u \in Active PROVE Place(u, k, TRUE)'
  <2>1. CASE u = t
    <3>1. ran'[t] = Computed(t)'
      <4>1. CASE pc'[t] = "mul_mat" /\ ran'[t] = ran[t]
        BY <1>4, <1>5, <1>7, <4>1 DEF Computed
      <4>2. CASE pc'[t] = "check" /\ ran'[t] = ran[t] \cup {node_n[t]}
        BY <1>4, <1>5, <1>7, <1>8, <4>2 DEF Computed
      <4> QED
        BY <4>1, <4>2
    <3>2. InsideMulMat(t, k)' /\ At(t)' \in ComputePC
      BY <1>5 DEF InsideMulMat, ComputePC
    <3>3. k <= Node(t)' /\ Node(t)' <= NNodes'
      BY <1>4, <1>5, <1>7, <1>8
    <3> QED
      BY <2>1, <3>1, <3>2, <3>3 DEF Place
  <2>2. CASE u # t
    <3>1. /\ At(u)' = At(u) /\ Node(u)' = Node(u) /\ ran'[u] = ran[u]
      BY <1>1, <1>5, <2>2 DEF Alone
    <3>2. Place(u, k, TRUE)
      BY <1>3 DEF Segment
    <3> QED
      BY <1>1, <3>1, <3>2, PlaceSame
  <2> QED
    BY <2>1, <2>2
<1>10. AbortInv(k, TRUE)'
  <2>1. AbortInv(k, TRUE)
    BY <1>3 DEF Segment
  <2>2. CASE t = 0
    BY <1>2, <2>1, <2>2 DEF AbortInv
  <2>3. CASE t # 0
    <3>1. At(0)' = At(0) /\ Node(0)' = Node(0)
      BY <1>1, <1>5, <2>3
    <3> QED
      BY <1>1, <2>1, <3>1, AbortSame
  <2> QED
    BY <2>2, <2>3
<1>11. \A u \in Threads \ Active' : ran'[u] = {}
  BY <1>2, <1>3, <1>7 DEF Segment, Alone
<1>12. ChunkInv(TRUE)' /\ HitsInv(k, TRUE)'
  BY <1>3
<1>13. SegmentInv'
  BY <1>4, <1>7, <1>9, <1>10, <1>11, <1>12 DEF SegmentInv, Segment
<1> QED
  BY <1>6, <1>13 DEF IInv

(* How many chunks there are. *)
LEMMA CountType ==
  ASSUME TypeInv
  PROVE  /\ Count \in Nat /\ n_graph.nth \in Nat /\ current_chunk \in Nat
         /\ Count >= n_graph.nth /\ Count - 1 < NThreads + NChunks
         /\ Count <= NThreads + NChunks
         /\ \A c \in Nat : c < Count => c \in Chunks
<1>1. n_graph.nth \in Nat /\ n_graph.nth <= NThreads /\ current_chunk \in Nat
  BY NThreadsAssumption DEF TypeInv
<1>2. Count = IF NChunks < n_graph.nth * 4 THEN n_graph.nth ELSE NChunks
  BY DEF Count, ChunkCount
<1>3. Count \in Nat /\ Count >= n_graph.nth /\ Count <= NThreads + NChunks
      /\ Count - 1 < NThreads + NChunks
  BY <1>1, <1>2, NThreadsAssumption, NChunksAssumption
<1> QED
  BY <1>1, <1>3, NThreadsAssumption, NChunksAssumption DEF Chunks

(* The chunk c of the MUL_MAT k is computed and no other becomes computed. *)
LEMMA HitsStep ==
  ASSUME TypeInv, NEW k \in OpNodes, Kind(k) = "mul_mat", HitsInv(k, TRUE),
         NEW c0 \in Nat, c0 < Count, Pending(c0),
         hits' = [hits EXCEPT ![<<k, c0>>] = @ + 1],
         n_graph' = n_graph, cgraph' = cgraph,
         \A c \in Chunks : c # c0 =>
           (Claimed(c)' /\ ~Pending(c)' <=> Claimed(c) /\ ~Pending(c)),
         Claimed(c0)' /\ ~Pending(c0)'
  PROVE  HitsInv(k, TRUE)' /\ \A x \in DOMAIN hits' : hits'[x] \in {0, 1}
<1> DEFINE D == (0 .. NNodes - 1) \X Chunks
           Q(c) == Claimed(c) /\ ~Pending(c)
           P(x) == /\ Kind(x[1]) = "mul_mat" /\ x[2] < Count
                   /\ x[1] < k \/ (x[1] = k /\ Q(x[2]))
<1>1. hits = [x \in D |-> IF P(x) THEN 1 ELSE 0]
  BY DEF HitsInv
<1>2. /\ NNodes' = NNodes /\ Count' = Count /\ \A j : Kind(j)' = Kind(j)
  BY DEF NNodes, Count, ChunkCount, Kind
<1>3. <<k, c0>> \in D
  <2>1. c0 \in Chunks
    BY CountType
  <2>2. k \in 0 .. NNodes - 1
    BY DEF OpNodes
  <2> QED
    BY <2>1, <2>2
<1>4. ~P(<<k, c0>>)
  <2>1. ~(k < k)
    BY NodeNumbers
  <2> QED
    BY <2>1
<1>5. P(<<k, c0>>)'
  BY <1>2
<1>6. ASSUME NEW x \in D, x # <<k, c0>>
      PROVE  P(x)' <=> P(x)
  <2>1. x = <<x[1], x[2]>> /\ x[2] \in Chunks
    BY <1>6
  <2>2. x[1] = k => x[2] # c0
    BY <1>6, <2>1
  <2>3. x[1] = k => (Q(x[2])' <=> Q(x[2]))
    BY <2>1, <2>2
  <2> QED
    BY <1>2, <2>3
<1>7. ASSUME NEW x \in D PROVE hits'[x] = IF P(x)' THEN 1 ELSE 0
  <2>1. CASE x = <<k, c0>>
    <3>1. hits'[x] = hits[x] + 1 /\ hits[x] = 0
      <4> HIDE DEF D, P
      <4> QED
        BY <1>1, <1>3, <1>4, <2>1
    <3> HIDE DEF D, P
    <3> QED
      BY <1>5, <2>1, <3>1
  <2>2. CASE x # <<k, c0>>
    <3> HIDE DEF D, P
    <3>1. hits'[x] = hits[x]
      BY <1>1, <1>3, <2>2
    <3> QED
      BY <1>1, <1>6, <2>2, <3>1
  <2> QED
    BY <2>1, <2>2
<1>8. hits' = [x \in D |-> IF P(x)' THEN 1 ELSE 0]
  <2>1. hits' = [x \in D |-> hits'[x]]
    <3> HIDE DEF D, P
    <3> QED
      BY <1>1
  <2> HIDE DEF D, P
  <2> QED
    BY <1>7, <2>1
<1>9. HitsInv(k, TRUE)'
  BY <1>2, <1>8 DEF HitsInv
<1>10. \A x \in DOMAIN hits' : hits'[x] \in {0, 1}
  <2> HIDE DEF D, P
  <2> QED
    BY <1>8
<1> QED
  BY <1>9, <1>10

(* A chunk is computed by the only thread that has claimed it; unless the   *)
(* chunks were divided between the threads, the thread claims the next.    *)
LEMMA MulMatChunkStep ==
  ASSUME IInv, NEW t \in Threads, MulMatChunk(t)
  PROVE  IInv'
<1>1. /\ TypeInv /\ BarrierInv /\ Active \subseteq Threads
  BY ThreadSets DEF IInv
<1>2. /\ pc[t] = "mul_mat" /\ chunk[t] < ChunkCount(nth[t])
      /\ hits' = [hits EXCEPT ![<<node_n[t], chunk[t]>>] = @ + 1]
      /\ UNCHANGED <<n_graph, abort, ec, cgraph, last_graph, pending, nth, node_n,
                     n_barrier, n_barrier_passed, n_passed, bpc>>
  BY DEF MulMatChunk, workerVars, barrierVars
<1>3. /\ At(t) = "mul_mat" /\ Chunk(t) = chunk[t] /\ t \in Active
      /\ nth[t] = n_graph.nth /\ n_graph.nth > 0
      /\ \E k \in 0 .. NNodes : Segment(k, TRUE)
  BY <1>2, InChunkLoop
<1>4. /\ Count \in Nat /\ n_graph.nth \in Nat /\ current_chunk \in Nat
      /\ Count >= n_graph.nth /\ chunk[t] < Count
      /\ ChunkCount(nth[t]) = Count
      /\ chunk \in [Threads -> Nat] /\ chunk[t] \in Nat
      /\ \A c \in Nat : c < Count => c \in Chunks
      /\ Chunks \subseteq Nat
  <2>1. ChunkCount(nth[t]) = Count
    BY <1>3 DEF Count
  <2>2. chunk \in [Threads -> Nat] /\ chunk[t] \in Nat
    BY <1>1 DEF TypeInv
  <2>3. Chunks \subseteq Nat
    BY DEF Chunks
  <2> QED
    BY <1>1, <1>2, <2>1, <2>2, <2>3, CountType
<1> DEFINE static == n_graph.nth >= Count
<1>5. IF static
      THEN /\ ran' = [ran EXCEPT ![t] = @ \cup {node_n[t]}]
           /\ pc' = [pc EXCEPT ![t] = "check"]
           /\ chunk' = chunk /\ current_chunk' = current_chunk
      ELSE /\ chunk' = [chunk EXCEPT ![t] = current_chunk]
           /\ current_chunk' = current_chunk + 1
           /\ ran' = ran /\ pc' = pc
  BY <1>3, <1>4 DEF MulMatChunk, Goto
<1>6. /\ \/ pc'[t] = "mul_mat" /\ ran'[t] = ran[t]
         \/ pc'[t] = "check" /\ ran'[t] = ran[t] \cup {node_n[t]}
      /\ chunk'[t] = IF static THEN chunk[t] ELSE current_chunk
      /\ pc'[t] = IF static THEN "check" ELSE "mul_mat"
      /\ \A u \in Threads \ {t} :
           pc'[u] = pc[u] /\ ran'[u] = ran[u] /\ chunk'[u] = chunk[u]
  <2>1. pc \in [Threads -> IdlePC \cup OverPC \cup ComputePC \cup {"wake", "start"}]
        /\ ran \in [Threads -> SUBSET Nat]
    BY <1>1 DEF TypeInv
  <2>2. CASE static
    BY <1>5, <2>1, <2>2
  <2>3. CASE ~static
    BY <1>2, <1>4, <1>5, <2>1, <2>3
  <2> QED
    BY <2>2, <2>3
<1> HIDE DEF static
<1>7. Alone(t)
  BY <1>2, <1>6 DEF Alone, AtBarrier, barrierVars
<1>8. /\ \A u \in Threads \ {t} : At(u)' = At(u) /\ Chunk(u)' = Chunk(u)
      /\ At(t)' = (IF static THEN "check" ELSE "mul_mat")
      /\ Chunk(t)' = (IF static THEN chunk[t] ELSE current_chunk)
  BY <1>1, <1>6, <1>7, AloneMoves
<1>9. Active' = Active /\ Count' = Count /\ n_graph' = n_graph
  BY <1>2 DEF Active, Count, ChunkCount
<1>10. ASSUME NEW k \in 0 .. NNodes, Segment(k, TRUE)
       PROVE  /\ ChunkInv(TRUE)' /\ HitsInv(k, TRUE)'
              /\ \A x \in DOMAIN hits' : hits'[x] \in {0, 1}
  <2>1. k = node_n[t] /\ k \in OpNodes /\ Kind(k) = "mul_mat"
    BY <1>2, <1>10, InChunkLoop
  <2>2. /\ Count > n_graph.nth => current_chunk >= n_graph.nth
        /\ Chunk(t) < n_graph.nth \/ (Count > n_graph.nth /\ Chunk(t) < current_chunk)
        /\ \A u \in Active \ {t} : At(u) = "mul_mat" => Chunk(u) # Chunk(t)
        /\ \A v \in Active :
             IF At(v) = "mul_mat"
             THEN /\ Chunk(v) < n_graph.nth
                       \/ (Count > n_graph.nth /\ Chunk(v) < current_chunk)
                  /\ \A u \in Active \ {v} : At(u) = "mul_mat" => Chunk(u) # Chunk(v)
             ELSE Count > n_graph.nth => current_chunk >= Count
    BY <1>3, <1>10 DEF Segment, ChunkInv
  <2>3. HitsInv(k, TRUE) /\ Pending(chunk[t])
    BY <1>3, <1>10 DEF Segment, Pending
  <2>4. PICK c0 \in Nat : c0 = chunk[t]
    BY <1>4
  <2>5. c0 < n_graph.nth \/ (Count > n_graph.nth /\ c0 < current_chunk)
    BY <1>3, <2>2, <2>4
  <2>6. \A c : Pending(c) <=> (c = c0 \/ \E u \in Active \ {t} : At(u) = "mul_mat" /\ Chunk(u) = c)
    BY <1>3, <2>4 DEF Pending
  <2>7. ~\E u \in Active \ {t} : At(u) = "mul_mat" /\ Chunk(u) = c0
    BY <1>3, <2>2, <2>4
  <2>8. CASE static
    <3>1. /\ \A u \in Active \ {t} : At(u)' = At(u) /\ Chunk(u)' = Chunk(u)
          /\ At(t)' = "check" /\ current_chunk' = current_chunk
          /\ ~(Count > n_graph.nth)
      BY <1>1, <1>4, <1>5, <1>8, <2>8 DEF static
    <3>2. ChunkInv(TRUE)'
      <4>1. \A v \in Active :
              IF At(v)' = "mul_mat"
              THEN /\ Chunk(v)' < n_graph.nth
                   /\ \A u \in Active \ {v} : At(u)' = "mul_mat" => Chunk(u)' # Chunk(v)'
              ELSE TRUE
        <5> SUFFICES ASSUME NEW v \in Active, At(v)' = "mul_mat"
                     PROVE  /\ Chunk(v)' < n_graph.nth
                            /\ \A u \in Active \ {v} :
                                 At(u)' = "mul_mat" => Chunk(u)' # Chunk(v)'
          OBVIOUS
        <5>1. v # t
          BY <3>1
        <5> QED
          BY <2>2, <3>1, <5>1
      <4> QED
        BY <1>9, <3>1, <4>1 DEF ChunkInv
    <3>3. \A c : Pending(c)' <=> \E u \in Active \ {t} : At(u) = "mul_mat" /\ Chunk(u) = c
      BY <1>9, <3>1 DEF Pending
    <3>4. \A c : Claimed(c)' <=> Claimed(c)
      BY <1>9, <3>1 DEF Claimed
    <3>5. Claimed(c0)
      BY <2>5 DEF Claimed
    <3>6. /\ \A c \in Chunks : c # c0 =>
               (Claimed(c)' /\ ~Pending(c)' <=> Claimed(c) /\ ~Pending(c))
          /\ Claimed(c0)' /\ ~Pending(c0)'
      BY <2>6, <2>7, <3>3, <3>4, <3>5
    <3> QED
      BY <1>1, <1>2, <1>4, <2>1, <2>3, <2>4, <3>2, <3>6, HitsStep
  <2>9. CASE ~static
    <3>1. /\ \A u \in Active \ {t} : At(u)' = At(u) /\ Chunk(u)' = Chunk(u)
          /\ At(t)' = "mul_mat" /\ Chunk(t)' = current_chunk
          /\ current_chunk' = current_chunk + 1
          /\ Count > n_graph.nth /\ current_chunk >= n_graph.nth
      BY <1>1, <1>4, <1>5, <1>8, <2>2, <2>9 DEF static
    <3>2. \A u \in Active : At(u) = "mul_mat" => Chunk(u) \in Nat /\ Chunk(u) < current_chunk
      <4> SUFFICES ASSUME NEW u \in Active, At(u) = "mul_mat"
                   PROVE  Chunk(u) \in Nat /\ Chunk(u) < current_chunk
        OBVIOUS
      <4>1. Chunk(u) \in Nat
        BY <1>1, <1>4 DEF Chunk, Threads
      <4>2. Chunk(u) < n_graph.nth \/ Chunk(u) < current_chunk
        BY <2>2
      <4> QED
        BY <1>4, <3>1, <4>1, <4>2
    <3>3. ChunkInv(TRUE)'
      <4>1. \A v \in Active :
              IF At(v)' = "mul_mat"
              THEN /\ Chunk(v)' < current_chunk + 1
                   /\ \A u \in Active \ {v} : At(u)' = "mul_mat" => Chunk(u)' # Chunk(v)'
              ELSE current_chunk + 1 >= Count
        <5> SUFFICES ASSUME NEW v \in Active
                     PROVE  IF At(v)' = "mul_mat"
                            THEN /\ Chunk(v)' < current_chunk + 1
                                 /\ \A u \in Active \ {v} :
                                      At(u)' = "mul_mat" => Chunk(u)' # Chunk(v)'
                            ELSE current_chunk + 1 >= Count
          OBVIOUS
        <5>1. CASE v = t
          <6>1. \A u \in Active \ {t} : At(u)' = "mul_mat" => Chunk(u)' # Chunk(t)'
            <7> SUFFICES ASSUME NEW u \in Active \ {t}, At(u)' = "mul_mat"
                         PROVE  Chunk(u)' # Chunk(t)'
              OBVIOUS
            <7>1. Chunk(u)' = Chunk(u) /\ Chunk(u) \in Nat /\ Chunk(u) < current_chunk
              BY <3>1, <3>2
            <7> QED
              BY <1>4, <3>1, <7>1
          <6>2. Chunk(t)' < current_chunk + 1
            BY <1>4, <3>1
          <6> QED
            BY <3>1, <5>1, <6>1, <6>2
        <5>2. CASE v # t /\ At(v) = "mul_mat"
          <6>1. At(v)' = "mul_mat" /\ Chunk(v)' = Chunk(v)
                /\ Chunk(v) \in Nat /\ Chunk(v) < current_chunk
            BY <3>1, <3>2, <5>2
          <6>2. Chunk(v)' < current_chunk + 1
            BY <1>4, <6>1
          <6>3. ASSUME NEW u \in Active \ {v}, At(u)' = "mul_mat"
                PROVE  Chunk(u)' # Chunk(v)'
            <7>1. CASE u = t
              BY <1>4, <3>1, <6>1, <7>1
            <7>2. CASE u # t
              <8>1. At(u) = "mul_mat" /\ Chunk(u)' = Chunk(u)
                BY <3>1, <6>3, <7>2
              <8> QED
                BY <2>2, <5>2, <6>1, <6>3, <8>1
            <7> QED
              BY <7>1, <7>2
          <6> QED
            BY <6>1, <6>2, <6>3
        <5>3. CASE v # t /\ At(v) # "mul_mat"
          <6>1. At(v)' # "mul_mat" /\ current_chunk >= Count
            BY <2>2, <3>1, <5>3
          <6>2. current_chunk + 1 >= Count
            BY <1>4, <6>1
          <6> QED
            BY <6>1, <6>2
        <5> QED
          BY <5>1, <5>2, <5>3
      <4>2. current_chunk + 1 >= n_graph.nth
        BY <1>4, <3>1
      <4> QED
        BY <1>9, <3>1, <4>1, <4>2 DEF ChunkInv
    <3>4. \A c : Pending(c)' <=> \/ c = current_chunk
                                 \/ \E u \in Active \ {t} : At(u) = "mul_mat" /\ Chunk(u) = c
      BY <1>3, <1>9, <3>1 DEF Pending
    <3>5. \A c \in Nat : Claimed(c)' <=> (Claimed(c) \/ c = current_chunk)
      BY <1>4, <1>9, <3>1 DEF Claimed
    <3>6. ~Claimed(current_chunk)
      BY <1>4, <3>1 DEF Claimed
    <3>7. Claimed(c0) /\ c0 # current_chunk
      BY <1>4, <2>4, <2>5, <3>1 DEF Claimed
    <3>8. /\ \A c \in Chunks : c # c0 =>
               (Claimed(c)' /\ ~Pending(c)' <=> Claimed(c) /\ ~Pending(c))
      <4> SUFFICES ASSUME NEW c \in Chunks, c # c0
                   PROVE  Claimed(c)' /\ ~Pending(c)' <=> Claimed(c) /\ ~Pending(c)
        OBVIOUS
      <4>1. CASE c = current_chunk
        BY <3>4, <3>6, <4>1
      <4>2. CASE c # current_chunk
        BY <1>4, <2>6, <3>4, <3>5, <4>2
      <4> QED
        BY <4>1, <4>2
    <3>9. Claimed(c0)' /\ ~Pending(c0)'
      BY <2>7, <3>4, <3>5, <3>7
    <3> QED
      BY <1>1, <1>2, <1>4, <2>1, <2>3, <2>4, <3>3, <3>8, <3>9, HitsStep
  <2> QED
    BY <2>8, <2>9
<1>11. TypeInv'
  <2>1. \A x \in DOMAIN hits' : hits'[x] \in {0, 1}
    BY <1>3, <1>10
  <2>2. chunk' \in [Threads -> Nat] /\ current_chunk' \in Nat
    BY <1>4, <1>5
  <2>3. ran' \in [Threads -> SUBSET Nat]
    <3>1. ran \in [Threads -> SUBSET Nat] /\ node_n[t] \in Nat
      BY <1>1 DEF TypeInv
    <3>2. ran[t] \cup {node_n[t]} \in SUBSET Nat
      BY <3>1
    <3> QED
      BY <1>5, <3>1, <3>2
  <2>4. /\ pc' \in [Threads -> IdlePC \cup OverPC \cup ComputePC \cup {"wake", "start"}]
        /\ pc'[0] \in OverPC \cup ComputePC \cup {"wake"}
        /\ \A w \in Workers : pc'[w] \in IdlePC \cup ComputePC \cup {"start"}
    <3>1. CASE pc' = pc
      BY <1>1, <3>1 DEF TypeInv
    <3>2. CASE pc' = [pc EXCEPT ![t] = "check"]
      <4>1. "check" \in ComputePC
        BY DEF ComputePC
      <4> QED
        BY <1>1, <3>2, <4>1, Moves
    <3> QED
      BY <1>5, <3>1, <3>2
  <2> QED
    BY <1>1, <1>2, <2>1, <2>2, <2>3, <2>4 DEF TypeInv, BarrierTypeOK
<1> QED
  BY <1>2, <1>6, <1>7, <1>10, <1>11, ChunkLoopStep DEF workerVars

(* A thread finds no chunk left. *)
LEMMA MulMatDoneStep ==
  ASSUME IInv, NEW t \in Threads, MulMatDone(t)
  PROVE  IInv'
<1>1. /\ TypeInv /\ BarrierInv /\ Active \subseteq Threads
  BY ThreadSets DEF IInv
<1>2. /\ pc[t] = "mul_mat" /\ chunk[t] >= ChunkCount(nth[t])
      /\ ran' = [ran EXCEPT ![t] = @ \cup {node_n[t]}]
      /\ pc' = [pc EXCEPT ![t] = "check"]
      /\ UNCHANGED <<n_graph, current_chunk, abort, ec, cgraph, last_graph, pending, nth,
                     node_n, chunk, hits, n_barrier, n_barrier_passed, n_passed, bpc>>
  BY DEF MulMatDone, Goto, poolVars, workerVars, localVars, barrierVars
<1>3. /\ At(t) = "mul_mat" /\ Chunk(t) = chunk[t] /\ t \in Active
      /\ nth[t] = n_graph.nth
  BY <1>2, InChunkLoop
<1>4. /\ Count \in Nat /\ n_graph.nth \in Nat /\ current_chunk \in Nat
      /\ chunk[t] >= Count /\ chunk[t] \in Nat
  <2>1. ChunkCount(nth[t]) = Count
    BY <1>3 DEF Count
  <2>2. chunk[t] \in Nat
    BY <1>1 DEF TypeInv
  <2> QED
    BY <1>1, <1>2, <2>1, <2>2, CountType
<1>5. /\ pc'[t] = "check" /\ ran'[t] = ran[t] \cup {node_n[t]}
      /\ \A u \in Threads \ {t} : pc'[u] = pc[u] /\ ran'[u] = ran[u]
  BY <1>1, <1>2 DEF TypeInv
<1>6. TypeInv'
  <2>1. ran' \in [Threads -> SUBSET Nat]
    <3>1. ran \in [Threads -> SUBSET Nat] /\ node_n[t] \in Nat
      BY <1>1 DEF TypeInv
    <3>2. ran[t] \cup {node_n[t]} \in SUBSET Nat
      BY <3>1
    <3> QED
      BY <1>2, <3>1, <3>2
  <2>2. "check" \in ComputePC
    BY DEF ComputePC
  <2> QED
    BY <1>1, <1>2, <2>1, <2>2, Moves DEF TypeInv, BarrierTypeOK
<1>7. Alone(t)
  BY <1>2, <1>5 DEF Alone, AtBarrier, barrierVars
<1>8. /\ \A u \in Threads \ {t} : At(u)' = At(u) /\ Chunk(u)' = Chunk(u)
      /\ At(t)' = "check"
  BY <1>1, <1>5, <1>7, AloneMoves
<1>9. Active' = Active /\ Count' = Count /\ NNodes' = NNodes /\ \A j : Kind(j)' = Kind(j)
  BY <1>2 DEF Active, Count, ChunkCount, NNodes, Kind
<1>10. ASSUME NEW k \in 0 .. NNodes, Segment(k, TRUE)
       PROVE  ChunkInv(TRUE)' /\ HitsInv(k, TRUE)'
  <2>1. /\ Count > n_graph.nth => current_chunk >= n_graph.nth
        /\ Chunk(t) < n_graph.nth \/ (Count > n_graph.nth /\ Chunk(t) < current_chunk)
        /\ \A v \in Active :
             IF At(v) = "mul_mat"
             THEN /\ Chunk(v) < n_graph.nth
                       \/ (Count > n_graph.nth /\ Chunk(v) < current_chunk)
                  /\ \A u \in Active \ {v} : At(u) = "mul_mat" => Chunk(u) # Chunk(v)
             ELSE Count > n_graph.nth => current_chunk >= Count
    BY <1>3, <1>10 DEF Segment, ChunkInv
  <2>2. Count > n_graph.nth => current_chunk >= Count
    BY <1>3, <1>4, <2>1
  <2>3. \A v \in Active :
          IF At(v)' = "mul_mat"
          THEN /\ Chunk(v)' < n_graph.nth
                    \/ (Count > n_graph.nth /\ Chunk(v)' < current_chunk)
               /\ \A u \in Active \ {v} : At(u)' = "mul_mat" => Chunk(u)' # Chunk(v)'
          ELSE Count > n_graph.nth => current_chunk >= Count
    <3> SUFFICES ASSUME NEW v \in Active, At(v)' = "mul_mat"
                 PROVE  /\ Chunk(v)' < n_graph.nth
                             \/ (Count > n_graph.nth /\ Chunk(v)' < current_chunk)
                        /\ \A u \in Active \ {v} :
                             At(u)' = "mul_mat" => Chunk(u)' # Chunk(v)'
      BY <2>2
    <3>1. v # t /\ At(v) = "mul_mat" /\ Chunk(v)' = Chunk(v)
      BY <1>1, <1>8
    <3>2. \A u \in Active \ {v} : At(u)' = "mul_mat" =>
            At(u) = "mul_mat" /\ Chunk(u)' = Chunk(u)
      BY <1>1, <1>8
    <3> QED
      BY <2>1, <3>1, <3>2
  <2>4. ChunkInv(TRUE)'
    BY <1>2, <1>9, <2>1, <2>3 DEF ChunkInv
  <2>5. HitsInv(k, TRUE)'
    <3>1. \A c \in Chunks : Claimed(c)' <=> Claimed(c)
      BY <1>2 DEF Claimed
    <3>2. \A c \in Chunks : c < Count => (Pending(c)' <=> Pending(c))
      <4> SUFFICES ASSUME NEW c \in Chunks, c < Count
                   PROVE  Pending(c)' <=> Pending(c)
        OBVIOUS
      <4>1. c # Chunk(t)
        BY <1>3, <1>4 DEF Chunks
      <4> QED
        BY <1>1, <1>8, <1>9, <4>1 DEF Pending
    <3>3. HitsInv(k, TRUE)
      BY <1>10 DEF Segment
    <3> QED
      BY <1>2, <1>9, <3>1, <3>2, <3>3 DEF HitsInv
  <2> QED
    BY <2>4, <2>5
<1> QED
  BY <1>2, <1>5, <1>6, <1>7, <1>10, ChunkLoopStep DEF workerVars

-----------------------------------------------------------------------------
(* A step that changes nothing the invariant speaks of. *)
LEMMA Unseen ==
  ASSUME IInv,
         UNCHANGED <<n_graph, current_chunk, abort, ec, cgraph, pc, workerVars,
                     localVars, historyVars, barrierVars>>
  PROVE  IInv'
<1>1. /\ TypeInv /\ BarrierInv /\ WorkerInv /\ SegmentInv /\ FinishInv
      /\ Workers \subseteq Threads /\ 0 \in Threads
  BY ThreadSets DEF IInv
<1>2. UNCHANGED <<n_graph, current_chunk, abort, ec, cgraph, pc, last_graph, pending,
                  nth, node_n, chunk, ran, hits, n_barrier, n_barrier_passed, n_passed, bpc>>
  BY DEF workerVars, localVars, historyVars, barrierVars
<1>3. ASSUME NEW t \in Threads
      PROVE  /\ At(t)' = At(t) /\ Node(t)' = Node(t) /\ Chunk(t)' = Chunk(t)
             /\ Released(t)' <=> Released(t)
  BY <1>2 DEF At, Node, Chunk, Released
<1>4. TypeInv'
  BY <1>1, <1>2 DEF TypeInv, BarrierTypeOK
<1>5. Active' = Active /\ Inside' = Inside /\ (Over' <=> Over)
  BY <1>1, <1>2, <1>3 DEF Active, Inside, Over
<1>6. BarrierInv'
  <2>1. BarrierCount'
    BY <1>1, <1>2, <1>5 DEF BarrierInv, BarrierCount
  <2>2. ASSUME NEW t \in Threads PROVE BarrierPlace(t)'
    <3>1. BarrierPlace(t) /\ Active \subseteq Threads
      BY <1>1, ThreadSets DEF BarrierInv
    <3> QED
      BY <1>2, <1>3, <1>5, <3>1 DEF BarrierPlace
  <2> QED
    BY <2>1, <2>2 DEF BarrierInv
<1>7. WorkerInv'
  <2>1. ASSUME NEW w \in Workers PROVE WorkerPlace(w)'
    BY <1>1, <1>2, <1>3, <1>5 DEF WorkerInv, WorkerPlace
  <2>2. ASSUME NEW t \in Threads PROVE ThreadCount(t)'
    BY <1>1, <1>2, <1>3 DEF WorkerInv, ThreadCount
  <2> QED
    BY <1>1, <1>2, <1>5, <2>1, <2>2 DEF WorkerInv
<1>8. SegmentInv' /\ FinishInv'
  BY <1>1, <1>2, <1>3, SegmentSame
<1> QED
  BY <1>4, <1>6, <1>7, <1>8 DEF IInv

(* The caller moves while no graph is being computed. *)
LEMMA OverStep ==
  ASSUME IInv, Alone(0), TypeInv', Over, Over',
         UNCHANGED <<last_graph, pending>>,
         pc'[0] \in {"kickoff", "wake"} => nth'[0] > 0,
         FinishInv'
  PROVE  IInv'
<1>1. TypeInv /\ BarrierInv /\ WorkerInv /\ 0 \in Threads /\ 0 \notin Workers
  BY ThreadSets DEF IInv, Workers
<1>2. BarrierInv'
  BY <1>1, AloneBarrier
<1>3. ThreadCount(0)'
  BY DEF ThreadCount, Over, OverPC, ComputePC
<1>4. WorkerInv'
  BY <1>1, <1>3, AloneWorkers
<1>5. SegmentInv'
  BY DEF SegmentInv
<1> QED
  BY <1>2, <1>4, <1>5 DEF IInv

(* The caller returns from ggml_graph_compute, or frees the pool. *)
LEMMA CallerStays ==
  ASSUME IInv, Finish \/ Free \/ Join
  PROVE  IInv'
<1>1. TypeInv /\ BarrierInv /\ 0 \in Threads
  BY ThreadSets DEF IInv
<1>2. /\ pc[0] \in {"finish", "idle", "join"}
      /\ \E l \in {"idle", "join", "freed"} : pc' = [pc EXCEPT ![0] = l]
      /\ UNCHANGED <<n_graph, current_chunk, abort, ec, cgraph, last_graph, pending, nth,
                     node_n, chunk, ran, hits, n_barrier, n_barrier_passed, n_passed, bpc>>
  BY DEF Finish, Free, Join, Goto, poolVars, workerVars, localVars, historyVars, barrierVars
<1>3. pc'[0] \in {"idle", "join", "freed"} /\ \A u \in Threads \ {0} : pc'[u] = pc[u]
  BY <1>1, <1>2 DEF TypeInv
<1>4. TypeInv'
  <2>1. PICK l \in {"idle", "join", "freed"} : pc' = [pc EXCEPT ![0] = l]
    BY <1>2
  <2>2. l \in OverPC
    BY DEF OverPC
  <2> QED
    BY <1>1, <1>2, <2>1, <2>2, Moves DEF TypeInv, BarrierTypeOK
<1>5. Alone(0)
  BY <1>2, <1>3 DEF Alone, AtBarrier, barrierVars
<1>6. At(0) = pc[0] /\ At(0)' = pc'[0]
  BY <1>1, <1>5, AloneMoves, OutsideBarrier DEF Alone
<1>7. FinishInv'
  BY <1>3, <1>6 DEF FinishInv
<1> QED
  BY <1>2, <1>3, <1>4, <1>5, <1>6, <1>7, OverStep DEF Over, OverPC

(* A call of ggml_graph_compute resets the parameters of the pool. *)
LEMMA GraphComputeStep ==
  ASSUME IInv, NEW g \in Graphs, NEW n \in 1 .. NThreads + 1, GraphCompute(g, n)
  PROVE  IInv'
<1>1. TypeInv /\ BarrierInv /\ 0 \in Threads
  BY ThreadSets DEF IInv
<1>2. /\ pc[0] = "idle" /\ pc' = [pc EXCEPT ![0] = "kickoff"]
      /\ cgraph' = g /\ current_chunk' = 0 /\ abort' = -1 /\ ec' = "SUCCESS"
      /\ nth' = [nth EXCEPT ![0] = Clamp(n)]
      /\ UNCHANGED <<n_graph, last_graph, pending, node_n, chunk, ran, hits,
                     n_barrier, n_barrier_passed, n_passed, bpc>>
  BY DEF GraphCompute, Goto, workerVars, historyVars, barrierVars
<1>3. Clamp(n) \in 0 .. NThreads /\ Clamp(n) > 0
  BY NThreadsAssumption DEF Clamp
<1>4. /\ pc'[0] = "kickoff" /\ nth'[0] = Clamp(n)
      /\ nth' \in [Threads -> 0 .. NThreads]
      /\ \A u \in Threads \ {0} : pc'[u] = pc[u] /\ nth'[u] = nth[u]
  BY <1>1, <1>2, <1>3 DEF TypeInv
<1>5. TypeInv'
  <2>1. cgraph' \in Seq(NodeKinds)
    BY <1>2, GraphsAssumption
  <2>2. "kickoff" \in OverPC
    BY DEF OverPC
  <2>3. /\ pc' \in [Threads -> IdlePC \cup OverPC \cup ComputePC \cup {"wake", "start"}]
        /\ pc'[0] \in OverPC \cup ComputePC \cup {"wake"}
        /\ \A w \in Workers : pc'[w] \in IdlePC \cup ComputePC \cup {"start"}
    BY <1>1, <1>2, <2>2, Moves
  <2>4. /\ current_chunk' \in Nat /\ abort' \in Int
        /\ ec' \in {"SUCCESS", "ABORTED"}
    BY <1>2
  <2> QED
    BY <1>1, <1>2, <1>4, <2>1, <2>3, <2>4 DEF TypeInv, BarrierTypeOK
<1>6. Alone(0)
  BY <1>2, <1>4 DEF Alone, AtBarrier, barrierVars
<1>7. At(0) = pc[0] /\ At(0)' = pc'[0]
  BY <1>1, <1>6, AloneMoves, OutsideBarrier DEF Alone
<1>8. FinishInv'
  BY <1>2, <1>4, <1>7 DEF FinishInv
<1> QED
  BY <1>2, <1>3, <1>4, <1>5, <1>6, <1>7, <1>8, OverStep DEF Over, OverPC

(* Between two graphs every thread is outside the barrier, or is to leave it. *)
LEMMA OverBarrier ==
  ASSUME TypeInv, WorkerInv, BarrierInv, Over, NEW t \in Threads
  PROVE  Released(t) \/ bpc[t] = "out"
<1>1. At(t) \in IdlePC \cup OverPC
  BY DEF Over, WorkerInv, WorkerPlace, Workers
<1>2. CASE bpc[t] # "out" /\ ~Released(t)
  <2>1. At(t) \in AtBarrier
    BY <1>2 DEF BarrierInv, BarrierPlace, At
  <2> QED
    BY <1>1, <2>1 DEF IdlePC, OverPC, AtBarrier
<1> QED
  BY <1>2

(* n_graph is stored: from here on the workers may begin the graph. *)
LEMMA KickoffStoreStep ==
  ASSUME IInv, KickoffStore
  PROVE  IInv'
<1>1. /\ TypeInv /\ BarrierInv /\ WorkerInv /\ FinishInv
      /\ 0 \in Threads /\ Workers \subseteq Threads
  BY ThreadSets DEF IInv
<1>2. /\ pc[0] = "kickoff" /\ pc' = [pc EXCEPT ![0] = "wake"]
      /\ n_graph' = [count |-> n_graph.count + 1, nth |-> nth[0]]
      /\ ran' = [t \in Threads |-> {}] /\ hits' = NoHits
      /\ UNCHANGED <<current_chunk, abort, ec, cgraph, last_graph, pending, nth, node_n,
                     chunk, n_barrier, n_barrier_passed, n_passed, bpc>>
  BY DEF KickoffStore, Goto, workerVars, localVars, barrierVars
<1>3. pc'[0] = "wake" /\ \A u \in Threads \ {0} : pc'[u] = pc[u]
  BY <1>1, <1>2 DEF TypeInv
<1>4. nth[0] \in 0 .. NThreads /\ nth[0] > 0 /\ n_graph'.nth = nth[0]
      /\ n_graph' \in [count : Nat, nth : 0 .. NThreads]
  <2>1. nth[0] \in 0 .. NThreads /\ n_graph.count \in Nat
    BY <1>1 DEF TypeInv
  <2>2. nth[0] > 0
    BY <1>1, <1>2 DEF WorkerInv
  <2> QED
    BY <1>2, <2>1, <2>2
<1>5. TypeInv'
  <2>1. /\ pc' \in [Threads -> IdlePC \cup OverPC \cup ComputePC \cup {"wake", "start"}]
        /\ pc'[0] \in OverPC \cup ComputePC \cup {"wake"}
        /\ \A w \in Workers : pc'[w] \in IdlePC \cup ComputePC \cup {"start"}
    BY <1>1, <1>2, Moves
  <2>2. ran' \in [Threads -> SUBSET Nat]
    BY <1>2
  <2>3. \A x \in DOMAIN hits' : hits'[x] \in {0, 1}
    BY <1>2 DEF NoHits
  <2> QED
    BY <1>1, <1>2, <1>4, <2>1, <2>2, <2>3 DEF TypeInv, BarrierTypeOK
<1>6. bpc[0] = "out" /\ At(0) = "kickoff" /\ At(0)' = "wake"
  <2>1. bpc[0] = "out" /\ At(0) = "kickoff"
    BY <1>1, <1>2, OutsideBarrier DEF AtBarrier
  <2>2. ~Released(0)'
    BY <1>2, <2>1 DEF Released
  <2> QED
    BY <1>3, <2>1, <2>2 DEF At
<1>7. Over /\ ~Over'
  BY <1>6 DEF Over, OverPC
<1>8. ASSUME NEW u \in Threads, u # 0
      PROVE  At(u)' = At(u) /\ pc'[u] = pc[u] /\ At(u) \in IdlePC
             /\ (Released(u)' <=> Released(u))
  <2>1. pc'[u] = pc[u] /\ (Released(u)' <=> Released(u))
    BY <1>2, <1>3, <1>8 DEF Released
  <2>2. At(u) \in IdlePC
    BY <1>1, <1>7, <1>8 DEF WorkerInv, WorkerPlace, Workers
  <2> QED
    BY <2>1, <2>2 DEF At
<1>9. BarrierInv'
  <2>1. Inside' = Inside /\ n_barrier' = n_barrier /\ bpc' = bpc
    BY <1>2 DEF Inside
  <2>2. BarrierCount'
    BY <1>1, <2>1 DEF BarrierInv, BarrierCount
  <2>3. ASSUME NEW u \in Threads PROVE BarrierPlace(u)'
    <3>1. BarrierPlace(u) /\ (Released(u) \/ bpc[u] = "out")
      BY <1>1, <1>7, OverBarrier DEF BarrierInv
    <3>2. CASE u = 0
      BY <1>2, <1>6, <3>1, <3>2 DEF BarrierPlace
    <3>3. CASE u # 0
      <4>1. pc'[u] = pc[u] /\ (Released(u)' <=> Released(u))
        BY <1>8, <3>3
      <4>2. bpc[u] \notin {"last", "release", "enter"}
        BY <3>1 DEF Released
      <4> QED
        BY <1>2, <3>1, <4>1, <4>2 DEF BarrierPlace
    <3> QED
      BY <3>2, <3>3
  <2> QED
    BY <2>2, <2>3 DEF BarrierInv
<1>10. WorkerInv'
  <2>1. ASSUME NEW w \in Workers PROVE WorkerPlace(w)'
    <3>1. At(w)' \in IdlePC /\ pc'[w] = pc[w]
      BY <1>1, <1>8 DEF Workers
    <3> QED
      BY <1>1, <1>2, <1>7, <3>1 DEF WorkerInv, WorkerPlace
  <2>2. ASSUME NEW u \in Threads PROVE ThreadCount(u)'
    BY <1>6, <1>8 DEF ThreadCount, IdlePC, ComputePC
  <2> QED
    BY <1>2, <1>4, <2>1, <2>2 DEF WorkerInv
<1>11. Segment(0, FALSE)'
  <2>1. AbortInv(0, FALSE)'
    BY <1>1, <1>2, <1>6 DEF FinishInv, AbortInv
  <2>2. ASSUME NEW u \in Threads PROVE ran'[u] = {} /\ NotBegun(u)'
    BY <1>2, <1>6, <1>8 DEF NotBegun
  <2>3. \A u \in Threads : Place(u, 0, FALSE)'
    BY <2>2 DEF Place
  <2>4. ChunkInv(FALSE)'
    BY <1>6 DEF ChunkInv
  <2>5. HitsInv(0, FALSE)'
    BY <1>2 DEF HitsInv, NoHits, NNodes, Kind
  <2>6. Active' \subseteq Threads
    BY DEF Active
  <2> QED
    BY <2>1, <2>2, <2>3, <2>4, <2>5, <2>6 DEF Segment
<1>12. SegmentInv'
  <2>1. 0 \in 0 .. NNodes'
    BY <1>5, NodeNumbers DEF NNodes, TypeInv
  <2> QED
    BY <1>11, <2>1 DEF SegmentInv
<1>13. FinishInv'
  BY <1>6 DEF FinishInv
<1> QED
  BY <1>5, <1>9, <1>10, <1>12, <1>13 DEF IInv

-----------------------------------------------------------------------------
(* The threads of a graph leave a barrier together. *)

(* The first node from k on that needs code. *)
First(k, m) == m \in OpNodes /\ k <= m /\ NoOps(k, m)

(* There is one such node. *)
LEMMA FirstUnique ==
  ASSUME TypeInv, NEW k \in Nat, NEW m, NEW j, First(k, m), First(k, j)
  PROVE  m = j
<1>1. m \in Nat /\ j \in Nat
  BY NodeNumbers DEF First
<1>2. ~(m < j) /\ ~(j < m)
  BY DEF First, NoOps
<1> QED
  BY <1>1, <1>2

(* Where a thread waits in a segment that begins with node k. *)
BarrierSite(t, k) ==
  \/ At(t) = "mm_barrier" /\ First(k, Node(t)) /\ Kind(Node(t)) = "mul_mat" /\ abort # k
  \/ At(t) = "node_barrier" /\ First(k, Node(t)) /\ Kind(Node(t)) # "mul_mat"
     /\ Node(t) + 1 < NNodes /\ abort # k
  \/ At(t) = "final_barrier" /\ Node(t) = NNodes /\ First(k, NNodes - 1)
     /\ Kind(NNodes - 1) # "mul_mat" /\ abort # k
  \/ At(t) = "final_barrier" /\ Node(t) = k /\ abort = k
  \/ At(t) = "final_barrier" /\ Node(t) = NNodes /\ NoOps(k, NNodes) /\ abort # k

(* The barriers that a segment can end with. *)
LEMMA SitesOf ==
  ASSUME TypeInv, NEW k \in 0 .. NNodes, NEW inside \in BOOLEAN, NEW t \in Threads,
         Place(t, k, inside), At(t) \in AtBarrier
  PROVE  /\ ran[t] = Computed(t) /\ k <= Node(t) /\ Node(t) <= NNodes
         /\ k \in Nat /\ NNodes \in Nat /\ Node(t) \in Nat
         /\ ~inside => BarrierSite(t, k)
         /\ inside => \/ At(t) = "node_barrier" /\ Node(t) = k /\ k + 1 < NNodes
                      \/ At(t) = "final_barrier" /\ Node(t) = k + 1 /\ k + 1 = NNodes
<1>1. /\ ran[t] = Computed(t) /\ k <= Node(t) /\ Node(t) <= NNodes
      /\ IF inside THEN InsideMulMat(t, k) ELSE BeforeBarrier(t, k)
  BY DEF Place, NotBegun, IdlePC, AtBarrier
<1>2. k \in Nat /\ NNodes \in Nat /\ Node(t) \in Nat
  BY NodeNumbers DEF Node
<1>3. inside => \/ At(t) = "node_barrier" /\ Node(t) = k /\ k + 1 < NNodes
                \/ At(t) = "final_barrier" /\ Node(t) = k + 1 /\ k + 1 = NNodes
  BY <1>1 DEF InsideMulMat, AtBarrier
<1>4. ~inside => BarrierSite(t, k)
  <2> SUFFICES ASSUME ~inside PROVE BarrierSite(t, k)
    OBVIOUS
  <2>1. BeforeBarrier(t, k)
    BY <1>1
  <2>2. CASE At(t) = "final_barrier" /\ Node(t) = NNodes /\ abort # k
             /\ k < Node(t) /\ NoOps(k, NNodes - 1)
             /\ NNodes - 1 \in OpNodes /\ Kind(NNodes - 1) # "mul_mat"
    <3>1. k <= NNodes - 1
      BY <1>2, <2>2
    <3> QED
      BY <2>2, <3>1 DEF BarrierSite, First
  <2>3. CASE At(t) # "final_barrier"
    BY <1>1, <2>1, <2>3 DEF BeforeBarrier, BarrierSite, First, AtBarrier
  <2>4. CASE At(t) = "final_barrier" /\ NoOps(k, Node(t))
             /\ Node(t) = (IF abort = k THEN k ELSE NNodes)
    BY <2>4 DEF BarrierSite
  <2> QED
    BY <2>1, <2>2, <2>3, <2>4 DEF BeforeBarrier
<1> QED
  BY <1>1, <1>2, <1>3, <1>4

(* All wait at the same barrier of the same node, and have computed the same. *)
LEMMA Together ==
  ASSUME TypeInv, NEW k \in 0 .. NNodes, NEW inside \in BOOLEAN, NEW t \in Threads,
         0 \in Threads, Place(t, k, inside), Place(0, k, inside),
         At(t) \in AtBarrier, At(0) \in AtBarrier
  PROVE  At(t) = At(0) /\ Node(t) = Node(0) /\ ran[t] = ran[0]
<1>1. At(t) = At(0) /\ Node(t) = Node(0)
  <2>1. CASE inside
    <3>1. k \in Nat /\ NNodes \in Nat
      BY SitesOf
    <3>2. \/ At(t) = "node_barrier" /\ Node(t) = k /\ k + 1 < NNodes
          \/ At(t) = "final_barrier" /\ Node(t) = k + 1 /\ k + 1 = NNodes
      BY <2>1, SitesOf
    <3>3. \/ At(0) = "node_barrier" /\ Node(0) = k /\ k + 1 < NNodes
          \/ At(0) = "final_barrier" /\ Node(0) = k + 1 /\ k + 1 = NNodes
      BY <2>1, SitesOf
    <3> QED
      BY <3>1, <3>2, <3>3
  <2>2. CASE ~inside
    <3>1. BarrierSite(t, k) /\ BarrierSite(0, k) /\ k \in Nat /\ NNodes \in Nat
      BY <2>2, SitesOf
    <3>2. \A m, j : First(k, m) /\ First(k, j) => m = j
      BY <3>1, FirstUnique
    <3>3. \A m : First(k, m) => ~NoOps(k, NNodes)
      BY NodeNumbers DEF First, NoOps
    <3>4. \A m \in Nat : m + 1 < NNodes => m # NNodes - 1
      BY <3>1
    <3>5. \A m : First(k, m) => m \in Nat
      BY NodeNumbers DEF First
    <3> QED
      BY <3>1, <3>2, <3>3, <3>4, <3>5 DEF BarrierSite
  <2> QED
    BY <2>1, <2>2
<1>2. Computed(t) = Computed(0)
  BY <1>1 DEF Computed
<1> QED
  BY <1>1, <1>2, SitesOf

(* The step in which they go on. *)
Advance ==
  /\ UNCHANGED <<n_graph, current_chunk, abort, ec, cgraph, ran, hits>>
  /\ \A t \in Active :
       /\ At(t) \in AtBarrier
       /\ At(t)' = IF At(t) = "mm_barrier" THEN "mul_mat"
                   ELSE IF At(t) = "node_barrier" THEN "node"
                   ELSE IF t = 0 THEN "finish" ELSE "top"
       /\ Node(t)' = IF At(t) = "node_barrier" THEN Node(t) + 1 ELSE Node(t)
       /\ At(t) = "mm_barrier" => Chunk(t)' = t

(* What they have in common. *)
LEMMA AdvanceView ==
  ASSUME TypeInv, WorkerInv, ~Over, Advance,
         NEW k \in 0 .. NNodes, NEW inside \in BOOLEAN, Segment(k, inside)
  PROVE  /\ 0 \in Active /\ 0 \in Threads /\ Active \subseteq Threads
         /\ Place(0, k, inside) /\ At(0) \in AtBarrier
         /\ \A t \in Active : At(t) = At(0) /\ Node(t) = Node(0) /\ ran[t] = ran[0]
         /\ ran[0] = Computed(0) /\ k <= Node(0) /\ Node(0) <= NNodes
         /\ k \in Nat /\ NNodes \in Nat /\ Node(0) \in Nat
         /\ Active' = Active /\ NNodes' = NNodes /\ OpNodes' = OpNodes
         /\ Count' = Count /\ \A j : Kind(j)' = Kind(j)
<1>1. /\ 0 \in Active /\ 0 \in Threads /\ Active \subseteq Threads
  BY ThreadSets DEF WorkerInv
<1>2. \A t \in Active : Place(t, k, inside) /\ At(t) \in AtBarrier
  BY DEF Segment, Advance
<1>3. \A t \in Active : At(t) = At(0) /\ Node(t) = Node(0) /\ ran[t] = ran[0]
  BY <1>1, <1>2, Together
<1>4. ran[0] = Computed(0) /\ k <= Node(0) /\ Node(0) <= NNodes
      /\ k \in Nat /\ NNodes \in Nat /\ Node(0) \in Nat
  BY <1>1, <1>2, SitesOf
<1>5. Active' = Active /\ NNodes' = NNodes /\ OpNodes' = OpNodes
      /\ Count' = Count /\ \A j : Kind(j)' = Kind(j)
  BY DEF Advance, Active, NNodes, OpNodes, Count, ChunkCount, Kind
<1> QED
  BY <1>1, <1>2, <1>3, <1>4, <1>5

(* A MUL_MAT begins: every thread has the chunk of its number. *)
LEMMA AdvanceMulMat ==
  ASSUME TypeInv, WorkerInv, ~Over, Advance, At(0) = "mm_barrier",
         NEW k \in 0 .. NNodes, NEW inside \in BOOLEAN, Segment(k, inside)
  PROVE  SegmentInv'
<1>1. /\ 0 \in Active /\ 0 \in Threads /\ Active \subseteq Threads
      /\ \A t \in Active : At(t) = At(0) /\ Node(t) = Node(0) /\ ran[t] = ran[0]
      /\ ran[0] = Computed(0) /\ k <= Node(0) /\ Node(0) <= NNodes
      /\ k \in Nat /\ NNodes \in Nat /\ Node(0) \in Nat
      /\ Active' = Active /\ NNodes' = NNodes /\ OpNodes' = OpNodes
      /\ Count' = Count /\ \A j : Kind(j)' = Kind(j)
  BY AdvanceView
<1>2. UNCHANGED <<n_graph, current_chunk, abort, ec, cgraph, ran, hits>>
  BY DEF Advance
<1>3. /\ inside = FALSE /\ First(k, Node(0)) /\ Kind(Node(0)) = "mul_mat" /\ abort # k
  <2>1. Place(0, k, inside)
    BY AdvanceView
  <2> QED
    BY <1>1, <2>1, SitesOf DEF BarrierSite, AtBarrier
<1>4. PICK m \in Nat : m = Node(0)
  BY <1>1
<1>5. m \in OpNodes /\ m < NNodes /\ NoOps(k, m) /\ k <= m /\ m \in 0 .. NNodes'
  BY <1>1, <1>3, <1>4, NodeNumbers DEF First
<1>6. \A t \in Active : At(t)' = "mul_mat" /\ Node(t)' = m /\ Chunk(t)' = t
  BY <1>1, <1>4 DEF Advance
<1>7. abort = -1 /\ ec = "SUCCESS"
  BY <1>3 DEF Segment, AbortInv
<1>8. AbortInv(m, TRUE)'
  BY <1>2, <1>7 DEF AbortInv
<1>9. ASSUME NEW t \in Active PROVE Place(t, m, TRUE)'
  <2>1. ran[t] = {i \in OpNodes : i < m}
    BY <1>1, <1>4 DEF Computed
  <2>2. Computed(t)' = {i \in OpNodes : i < m}
    BY <1>1, <1>6 DEF Computed
  <2>3. InsideMulMat(t, m)' /\ At(t)' \in ComputePC
    BY <1>6 DEF InsideMulMat, ComputePC
  <2>4. m <= Node(t)' /\ Node(t)' <= NNodes'
    BY <1>1, <1>5, <1>6
  <2> QED
    BY <1>2, <2>1, <2>2, <2>3, <2>4 DEF Place
<1>10. \A t \in Threads \ Active' : ran'[t] = {}
  BY <1>1, <1>2 DEF Segment
<1>11. n_graph.nth \in Nat /\ current_chunk = n_graph.nth /\ Count \in Nat
       /\ \A t \in Active : t < n_graph.nth
  <2>1. current_chunk = n_graph.nth
    BY <1>3 DEF Segment, ChunkInv
  <2> QED
    BY <2>1, CountType DEF Active
<1>12. ChunkInv(TRUE)'
  <2>1. \A t \in Active : /\ Chunk(t)' < n_graph'.nth
                          /\ \A u \in Active \ {t} : Chunk(u)' # Chunk(t)'
    BY <1>2, <1>6, <1>11
  <2>2. current_chunk' >= n_graph'.nth
    BY <1>2, <1>11
  <2> QED
    BY <1>1, <1>6, <2>1, <2>2 DEF ChunkInv
<1>13. HitsInv(m, TRUE)'
  <2>1. \A c \in Chunks : Claimed(c)' <=> c < n_graph.nth
    BY <1>2, <1>11 DEF Claimed
  <2>2. \A c \in Chunks : Pending(c)' <=> c < n_graph.nth
    <3> SUFFICES ASSUME NEW c \in Chunks PROVE Pending(c)' <=> c < n_graph.nth
      OBVIOUS
    <3>1. Pending(c)' <=> c \in Active
      BY <1>1, <1>6 DEF Pending
    <3>2. c \in Active <=> c < n_graph.nth
      <4>1. n_graph.nth <= NThreads
        BY <1>11, NThreadsAssumption DEF TypeInv
      <4> QED
        BY <1>11, <4>1, NThreadsAssumption DEF Active, Threads, Chunks
    <3> QED
      BY <3>1, <3>2
  <2>3. \A i \in 0 .. NNodes - 1 : Kind(i) = "mul_mat" => (i < m <=> i < k)
    <3> SUFFICES ASSUME NEW i \in 0 .. NNodes - 1, Kind(i) = "mul_mat"
                 PROVE  i < m <=> i < k
      OBVIOUS
    <3>1. i \in OpNodes
      BY DEF OpNodes
    <3>2. ~(k <= i /\ i < m)
      BY <1>5, <3>1 DEF NoOps
    <3> QED
      BY <1>1, <1>5, <3>2
  <2>4. HitsInv(k, FALSE)
    BY <1>3 DEF Segment
  <2> DEFINE D == (0 .. NNodes - 1) \X Chunks
             F(x) == IF Kind(x[1]) = "mul_mat" /\ x[2] < Count /\ x[1] < k THEN 1 ELSE 0
             G(x) == IF /\ Kind(x[1])' = "mul_mat" /\ x[2] < Count'
                        /\ x[1] < m \/ (TRUE /\ x[1] = m /\ Claimed(x[2])' /\ ~Pending(x[2])')
                     THEN 1 ELSE 0
  <2>5. hits = [x \in D |-> F(x)]
    BY <2>4 DEF HitsInv
  <2>6. ASSUME NEW x \in D PROVE F(x) = G(x)
    <3>1. x[1] \in 0 .. NNodes - 1 /\ x[2] \in Chunks
      OBVIOUS
    <3>2. ~(Claimed(x[2])' /\ ~Pending(x[2])')
      BY <2>1, <2>2, <3>1
    <3> QED
      BY <1>1, <2>3, <3>1, <3>2
  <2>7. hits = [x \in D |-> G(x)]
    <3> HIDE DEF D, F, G
    <3> QED
      BY <2>5, <2>6
  <2> QED
    BY <1>1, <1>2, <2>7 DEF HitsInv
<1>14. Segment(m, TRUE)'
  BY <1>1, <1>3, <1>4, <1>5, <1>8, <1>9, <1>10, <1>12, <1>13 DEF Segment
<1> QED
  BY <1>5, <1>14 DEF SegmentInv

(* At the end of a segment every chunk of the MUL_MATs before node m, to    *)
(* which all threads have come, has been computed.                         *)
LEMMA HitsBefore ==
  ASSUME TypeInv, WorkerInv, ~Over, Advance, At(0) # "mm_barrier",
         NEW k \in 0 .. NNodes, NEW inside \in BOOLEAN, Segment(k, inside),
         NEW m \in Nat, m <= NNodes,
         IF inside THEN m = k + 1
         ELSE k <= m /\ \A i \in OpNodes : k <= i /\ i < m => Kind(i) # "mul_mat"
  PROVE  hits = [x \in (0 .. NNodes - 1) \X Chunks |->
                   IF Kind(x[1]) = "mul_mat" /\ x[2] < Count /\ x[1] < m THEN 1 ELSE 0]
<1>1. /\ 0 \in Active /\ Active \subseteq Threads /\ At(0) \in AtBarrier
      /\ \A t \in Active : At(t) = At(0)
      /\ k \in Nat /\ NNodes \in Nat
  BY AdvanceView
<1> DEFINE D == (0 .. NNodes - 1) \X Chunks
           F(x) == IF /\ Kind(x[1]) = "mul_mat" /\ x[2] < Count
                      /\ \/ x[1] < k
                         \/ inside /\ x[1] = k /\ Claimed(x[2]) /\ ~Pending(x[2])
                   THEN 1 ELSE 0
           G(x) == IF Kind(x[1]) = "mul_mat" /\ x[2] < Count /\ x[1] < m THEN 1 ELSE 0
<1>2. hits = [x \in D |-> F(x)]
  BY DEF Segment, HitsInv
<1>3. ASSUME NEW x \in D PROVE F(x) = G(x)
  <2>1. x[1] \in 0 .. NNodes - 1 /\ x[2] \in Chunks /\ x[2] \in Nat
    BY DEF Chunks
  <2>2. CASE inside
    <3>1. ~Pending(x[2])
      BY <1>1 DEF Pending, AtBarrier
    <3>2. x[2] < Count => Claimed(x[2])
      <4>1. Count > n_graph.nth => current_chunk >= Count
        BY <1>1, <2>2 DEF Segment, ChunkInv, AtBarrier
      <4>2. Count \in Nat /\ n_graph.nth \in Nat /\ current_chunk \in Nat
        BY CountType
      <4> QED
        BY <2>1, <4>1, <4>2 DEF Claimed
    <3>3. x[1] < m <=> (x[1] < k \/ x[1] = k)
      BY <1>1, <2>1, <2>2
    <3> QED
      BY <2>2, <3>1, <3>2, <3>3
  <2>3. CASE ~inside
    <3>1. Kind(x[1]) = "mul_mat" => x[1] \in OpNodes
      BY <2>1 DEF OpNodes
    <3>2. Kind(x[1]) = "mul_mat" => (x[1] < m <=> x[1] < k)
      BY <1>1, <2>1, <2>3, <3>1
    <3> QED
      BY <2>3, <3>2
  <2> QED
    BY <2>2, <2>3
<1> QED
  <2> HIDE DEF D, F, G
  <2>1. hits = [x \in D |-> G(x)]
    BY <1>2, <1>3
  <2> QED
    BY <2>1 DEF D, G

(* The next node begins, at which all threads stop if one has aborted. *)
LEMMA AdvanceNode ==
  ASSUME TypeInv, WorkerInv, ~Over, Advance, At(0) = "node_barrier",
         NEW k \in 0 .. NNodes, NEW inside \in BOOLEAN, Segment(k, inside)
  PROVE  SegmentInv'
<1>1. /\ 0 \in Active /\ 0 \in Threads /\ Active \subseteq Threads
      /\ \A t \in Active : At(t) = At(0) /\ Node(t) = Node(0) /\ ran[t] = ran[0]
      /\ ran[0] = Computed(0) /\ k <= Node(0) /\ Node(0) <= NNodes
      /\ k \in Nat /\ NNodes \in Nat /\ Node(0) \in Nat
      /\ Active' = Active /\ NNodes' = NNodes /\ OpNodes' = OpNodes
      /\ Count' = Count /\ \A j : Kind(j)' = Kind(j)
      /\ Place(0, k, inside) /\ At(0) \in AtBarrier
  BY AdvanceView
<1>2. UNCHANGED <<n_graph, current_chunk, abort, ec, cgraph, ran, hits>>
  BY DEF Advance
<1>3. PICK j \in Nat : j = Node(0)
  BY <1>1
<1>4. /\ j \in OpNodes /\ k <= j /\ j + 1 < NNodes
      /\ inside => k = j
      /\ ~inside => NoOps(k, j) /\ Kind(j) # "mul_mat" /\ abort # k
  <2>1. CASE inside
    <3>1. Node(0) = k /\ k + 1 < NNodes
      BY <1>1, <2>1, SitesOf
    <3>2. k \in OpNodes
      BY <2>1 DEF Segment
    <3> QED
      BY <1>1, <1>3, <2>1, <3>1, <3>2
  <2>2. CASE ~inside
    <3>1. BarrierSite(0, k)
      BY <1>1, <2>2, SitesOf
    <3> QED
      BY <1>1, <1>3, <2>2, <3>1 DEF BarrierSite, First
  <2> QED
    BY <2>1, <2>2
<1>5. PICK m \in Nat : m = j + 1
  OBVIOUS
<1>6. m \in 0 .. NNodes /\ m < NNodes /\ m <= NNodes /\ j < m /\ k <= m
  BY <1>1, <1>4, <1>5
<1>7. \A t \in Active : At(t)' = "node" /\ Node(t)' = m
  BY <1>1, <1>3, <1>5 DEF Advance
<1>8. AbortInv(m, FALSE)'
  <2>1. AbortInv(k, inside)
    BY DEF Segment
  <2>2. abort = -1 \/ abort = m
    BY <1>3, <1>4, <1>5, <2>1 DEF AbortInv
  <2> QED
    BY <1>2, <2>1, <2>2 DEF AbortInv
<1>9. ASSUME NEW t \in Active PROVE Place(t, m, FALSE)'
  <2>1. ran[t] = {i \in OpNodes : i < m}
    <3>1. ran[t] = {i \in OpNodes : i < j \/ i = j}
      BY <1>1, <1>3 DEF Computed
    <3>2. \A i \in OpNodes : i < m <=> (i < j \/ i = j)
      BY <1>5, NodeNumbers
    <3> QED
      BY <3>1, <3>2
  <2>2. Computed(t)' = {i \in OpNodes : i < m}
    BY <1>1, <1>7 DEF Computed
  <2>3. BeforeBarrier(t, m)'
    <3>1. \A i \in OpNodes : ~(m <= i /\ i < m)
      BY NodeNumbers
    <3>2. NoOps(m, m)'
      BY <1>1, <3>1 DEF NoOps
    <3> QED
      BY <1>7, <3>2 DEF BeforeBarrier
  <2>4. m <= Node(t)' /\ Node(t)' <= NNodes' /\ At(t)' \in ComputePC
    BY <1>1, <1>6, <1>7 DEF ComputePC
  <2> QED
    BY <1>2, <2>1, <2>2, <2>3, <2>4 DEF Place
<1>10. \A t \in Threads \ Active' : ran'[t] = {}
  BY <1>1, <1>2 DEF Segment
<1>11. ChunkInv(FALSE)'
  BY <1>1, <1>7 DEF ChunkInv
<1>12. HitsInv(m, FALSE)'
  <2>1. IF inside THEN m = k + 1
        ELSE k <= m /\ \A i \in OpNodes : k <= i /\ i < m => Kind(i) # "mul_mat"
    <3>1. CASE inside
      BY <1>4, <1>5, <3>1
    <3>2. CASE ~inside
      <4>1. ASSUME NEW i \in OpNodes, k <= i, i < m
            PROVE  Kind(i) # "mul_mat"
        <5>1. i \in Nat
          BY NodeNumbers
        <5>2. i < j \/ i = j
          BY <1>5, <4>1, <5>1
        <5> QED
          BY <1>4, <3>2, <4>1, <5>2 DEF NoOps
      <4> QED
        BY <1>6, <3>2, <4>1
    <3> QED
      BY <3>1, <3>2
  <2>2. hits = [x \in (0 .. NNodes - 1) \X Chunks |->
                  IF Kind(x[1]) = "mul_mat" /\ x[2] < Count /\ x[1] < m THEN 1 ELSE 0]
    BY <1>1, <1>6, <2>1, HitsBefore
  <2> QED
    BY <1>1, <1>2, <2>2 DEF HitsInv
<1>13. Segment(m, FALSE)'
  BY <1>8, <1>9, <1>1, <1>10, <1>11, <1>12 DEF Segment
<1> QED
  BY <1>1, <1>6, <1>13 DEF SegmentInv

(* The graph is done: ggml_graph_compute has what it reports. *)
LEMMA AdvanceFinal ==
  ASSUME TypeInv, WorkerInv, ~Over, Advance, At(0) = "final_barrier",
         NEW k \in 0 .. NNodes, NEW inside \in BOOLEAN, Segment(k, inside)
  PROVE  SegmentInv' /\ FinishInv'
<1>1. /\ 0 \in Active /\ 0 \in Threads /\ Active \subseteq Threads
      /\ \A t \in Active : At(t) = At(0) /\ Node(t) = Node(0) /\ ran[t] = ran[0]
      /\ ran[0] = Computed(0) /\ k <= Node(0) /\ Node(0) <= NNodes
      /\ k \in Nat /\ NNodes \in Nat /\ Node(0) \in Nat
      /\ Active' = Active /\ NNodes' = NNodes /\ OpNodes' = OpNodes
      /\ Count' = Count /\ \A j : Kind(j)' = Kind(j)
      /\ Place(0, k, inside) /\ At(0) \in AtBarrier
  BY AdvanceView
<1>2. UNCHANGED <<n_graph, current_chunk, abort, ec, cgraph, ran, hits>>
  BY DEF Advance
<1>3. At(0)' = "finish" /\ Over'
  BY <1>1 DEF Advance, Over, OverPC
<1>4. PICK m \in Nat : m = Node(0)
  BY <1>1
<1>5. ran[0] = {i \in OpNodes : i < m} /\ m <= NNodes /\ k <= m
  BY <1>1, <1>4 DEF Computed
<1>6. /\ inside => m = k + 1 /\ m = NNodes
      /\ ~inside => /\ m = IF abort = k THEN k ELSE NNodes
                    /\ \A i \in OpNodes : k <= i /\ i < m => Kind(i) # "mul_mat"
  <2>1. CASE inside
    BY <1>1, <1>4, <2>1, SitesOf
  <2>2. CASE ~inside
    <3>1. BarrierSite(0, k)
      BY <1>1, <2>2, SitesOf
    <3>2. m = IF abort = k THEN k ELSE NNodes
      BY <1>1, <1>4, <3>1 DEF BarrierSite
    <3>3. ASSUME NEW i \in OpNodes, k <= i, i < m PROVE Kind(i) # "mul_mat"
      <4>1. i \in Nat /\ abort # k /\ m = NNodes
        BY <1>1, <3>2, <3>3, NodeNumbers
      <4>2. CASE NoOps(k, NNodes)
        BY <3>3, <4>1, <4>2 DEF NoOps
      <4>3. CASE First(k, NNodes - 1) /\ Kind(NNodes - 1) # "mul_mat"
        <5>1. i < NNodes - 1 \/ i = NNodes - 1
          BY <1>1, <3>3, <4>1
        <5> QED
          BY <3>3, <4>3, <5>1 DEF First, NoOps
      <4> QED
        BY <1>1, <3>1, <4>1, <4>2, <4>3 DEF BarrierSite
    <3> QED
      BY <2>2, <3>2, <3>3
  <2> QED
    BY <2>1, <2>2
<1>7. AbortInv(k, inside)
  BY DEF Segment
<1>8. ran[0] = IF ec = "SUCCESS" THEN OpNodes ELSE {i \in OpNodes : i < abort}
  <2>1. m = NNodes => ran[0] = OpNodes /\ OpNodes = {i \in OpNodes : i < NNodes}
    BY <1>5, NodeNumbers
  <2>2. (abort = -1 /\ m = NNodes) \/ abort = m
    <3>1. CASE abort = k
      <4>1. ~inside
        <5> SUFFICES ASSUME inside PROVE FALSE
          OBVIOUS
        <5>1. abort # k \/ abort = -1
          BY <1>1, <1>4, <1>6, <1>7, <3>1 DEF AbortInv
        <5> QED
          BY <1>1, <3>1, <5>1
      <4> QED
        BY <1>6, <3>1, <4>1
    <3>2. CASE abort # k
      BY <1>1, <1>4, <1>6, <1>7, <3>2 DEF AbortInv
    <3> QED
      BY <3>1, <3>2
  <2>3. abort = -1 <=> ec = "SUCCESS"
    BY <1>7 DEF AbortInv
  <2>4. CASE abort = -1
    BY <1>4, <2>1, <2>2, <2>3, <2>4
  <2>5. CASE abort = m /\ abort # -1
    BY <1>5, <2>3, <2>5
  <2> QED
    BY <2>2, <2>4, <2>5
<1>9. \A i \in ran[0] : Kind(i) = "mul_mat" =>
        \A c \in 0 .. Count - 1 : hits[<<i, c>>] = 1
  <2>1. IF inside THEN m = k + 1
        ELSE k <= m /\ \A i \in OpNodes : k <= i /\ i < m => Kind(i) # "mul_mat"
    BY <1>5, <1>6
  <2>2. hits = [x \in (0 .. NNodes - 1) \X Chunks |->
                  IF Kind(x[1]) = "mul_mat" /\ x[2] < Count /\ x[1] < m THEN 1 ELSE 0]
    BY <1>5, <2>1, HitsBefore
  <2> SUFFICES ASSUME NEW i \in ran[0], Kind(i) = "mul_mat", NEW c \in 0 .. Count - 1
               PROVE  hits[<<i, c>>] = 1
    OBVIOUS
  <2>3. i \in 0 .. NNodes - 1 /\ i < m
    BY <1>5, NodeNumbers
  <2>4. c \in Chunks /\ c < Count
    BY CountType
  <2> QED
    BY <2>2, <2>3, <2>4
<1>10. SegmentInv'
  BY <1>3 DEF SegmentInv
<1>11. FinishInv'
  <2>1. \A t \in Threads \ Active : ran[t] = {}
    BY DEF Segment
  <2> QED
    BY <1>1, <1>2, <1>3, <1>8, <1>9, <2>1 DEF FinishInv
<1> QED
  BY <1>10, <1>11

(* All threads go on from a barrier. *)
LEMMA AdvanceSegment ==
  ASSUME IInv, ~Over, Advance
  PROVE  SegmentInv' /\ FinishInv'
<1>1. TypeInv /\ WorkerInv /\ SegmentInv
  BY DEF IInv
<1>2. PICK k \in 0 .. NNodes, inside \in BOOLEAN : Segment(k, inside)
  BY <1>1 DEF SegmentInv
<1>3. At(0) \in AtBarrier /\ 0 \in Active
  BY <1>1, <1>2, AdvanceView
<1>4. At(0) # "final_barrier" => FinishInv'
  BY <1>3 DEF Advance, FinishInv, AtBarrier
<1> QED
  BY <1>1, <1>2, <1>3, <1>4, AdvanceMulMat, AdvanceNode, AdvanceFinal DEF AtBarrier

-----------------------------------------------------------------------------
(* A thread that waits in the barrier computes a graph. *)
LEMMA Waiting ==
  ASSUME IInv, NEW t \in Threads, pc[t] \in AtBarrier, ~Released(t)
  PROVE  /\ At(t) = pc[t] /\ t \in Active /\ ~Over
         /\ nth[t] = n_graph.nth /\ n_graph.nth > 0
<1>1. At(t) = pc[t]
  BY DEF At
<1> QED
  BY <1>1, Computing DEF IInv, AtBarrier, ComputePC

(* Unless it spins, no other thread is the last one. *)
LEMMA NobodyLast ==
  ASSUME BarrierInv, NEW t \in Active, bpc[t] # "wait" \/ Released(t)
  PROVE  \A u \in Threads \ {t} : bpc[u] \notin {"last", "release"}
BY DEF BarrierInv, BarrierPlace

(* The threads that n_barrier counts are threads of the graph. *)
LEMMA InsideActive ==
  ASSUME IInv
  PROVE  Inside \subseteq Active
<1> SUFFICES ASSUME NEW t \in Inside PROVE t \in Active
  OBVIOUS
<1>1. t \in Threads /\ bpc[t] \in {"wait", "last"} /\ n_passed[t] = n_barrier_passed
  BY DEF Inside
<1>2. pc[t] \in AtBarrier
  BY <1>1 DEF IInv, BarrierInv, BarrierPlace
<1> QED
  BY <1>1, <1>2, Waiting DEF Released

(* A step inside the barrier, seen by nobody else. *)
LEMMA InsideStep ==
  ASSUME IInv, NEW t \in Threads, pc[t] \in AtBarrier, ~Released(t), ~Released(t)',
         UNCHANGED <<n_graph, current_chunk, abort, ec, cgraph, pc, workerVars,
                     localVars, historyVars, n_barrier_passed>>,
         \A u \in Threads \ {t} : n_passed'[u] = n_passed[u] /\ bpc'[u] = bpc[u],
         BarrierTypeOK(Threads)', BarrierInv'
  PROVE  IInv'
<1>1. /\ TypeInv /\ WorkerInv /\ SegmentInv /\ FinishInv /\ 0 \in Threads
  BY ThreadSets DEF IInv
<1>2. UNCHANGED <<n_graph, current_chunk, abort, ec, cgraph, pc, last_graph, pending,
                  nth, node_n, chunk, ran, hits>>
  BY DEF workerVars, localVars, historyVars
<1>3. TypeInv'
  BY <1>1, <1>2 DEF TypeInv
<1>4. ASSUME NEW u \in Threads
      PROVE  At(u)' = At(u) /\ Node(u)' = Node(u) /\ Chunk(u)' = Chunk(u)
  <2>1. Released(u)' <=> Released(u)
    BY <1>2 DEF Released
  <2> QED
    BY <1>2, <2>1 DEF At, Node, Chunk
<1>5. WorkerInv'
  BY <1>1, <1>2, <1>4, WorkersSame DEF AtBarrier
<1>6. SegmentInv' /\ FinishInv'
  BY <1>1, <1>2, <1>4, SegmentSame
<1> QED
  BY <1>3, <1>5, <1>6 DEF IInv

(* n_barrier_passed is loaded. *)
LEMMA BarrierCallStep ==
  ASSUME IInv, NEW t \in Threads, pc[t] \in AtBarrier, BarrierCall(t, n_graph.nth),
         UNCHANGED <<n_graph, current_chunk, abort, ec, cgraph, pc, workerVars,
                     localVars, historyVars>>
  PROVE  IInv'
<1>1. TypeInv /\ BarrierInv /\ BarrierTypeOK(Threads) /\ Active \subseteq Threads
  BY ThreadSets DEF IInv, TypeInv
<1>2. /\ bpc[t] = "out" /\ n_graph.nth # 1
      /\ n_passed' = [n_passed EXCEPT ![t] = n_barrier_passed]
      /\ bpc' = [bpc EXCEPT ![t] = "enter"]
      /\ n_barrier' = n_barrier /\ n_barrier_passed' = n_barrier_passed
  BY DEF BarrierCall
<1>3. /\ n_passed'[t] = n_barrier_passed /\ bpc'[t] = "enter"
      /\ \A u \in Threads \ {t} : n_passed'[u] = n_passed[u] /\ bpc'[u] = bpc[u]
      /\ n_barrier_passed \in Nat
  BY <1>1, <1>2 DEF BarrierTypeOK
<1>4. ~Released(t) /\ ~Released(t)'
      /\ \A u \in Threads \ {t} : Released(u)' <=> Released(u)
  BY <1>2, <1>3 DEF Released
<1>5. BarrierTypeOK(Threads)'
  BY <1>1, <1>2 DEF BarrierTypeOK, BarrierPC
<1>6. t \in Active
  BY <1>4, Waiting
<1>7. \A u \in Threads \ {t} : bpc[u] \notin {"last", "release"}
  BY <1>1, <1>2, <1>6, NobodyLast
<1>8. Inside' = Inside /\ (\E u \in Threads : bpc'[u] = "release")
                            = (\E u \in Threads : bpc[u] = "release")
  <2>1. ASSUME NEW u \in Threads
        PROVE  (bpc'[u] \in {"wait", "last"} /\ n_passed'[u] = n_barrier_passed')
                 <=> (bpc[u] \in {"wait", "last"} /\ n_passed[u] = n_barrier_passed)
    BY <1>2, <1>3
  <2>2. ~\E u \in Threads : bpc'[u] = "release"
    BY <1>3, <1>7
  <2>3. ~\E u \in Threads : bpc[u] = "release"
    BY <1>2, <1>7
  <2> QED
    BY <2>1, <2>2, <2>3 DEF Inside
<1>9. BarrierInv'
  <2>1. BarrierCount'
    BY <1>1, <1>2, <1>8 DEF BarrierInv, BarrierCount
  <2>2. ASSUME NEW u \in Threads PROVE BarrierPlace(u)'
    <3>1. BarrierPlace(u)
      BY <1>1 DEF BarrierInv
    <3>2. CASE u = t
      BY <1>2, <1>3, <3>1, <3>2 DEF BarrierPlace
    <3>3. CASE u # t
      <4>1. /\ n_passed'[u] = n_passed[u] /\ bpc'[u] = bpc[u]
            /\ (Released(u)' <=> Released(u)) /\ bpc[u] \notin {"last", "release"}
        BY <1>3, <1>4, <1>7, <3>3
      <4> QED
        BY <1>2, <3>1, <4>1 DEF BarrierPlace
    <3> QED
      BY <3>2, <3>3
  <2> QED
    BY <2>1, <2>2 DEF BarrierInv
<1> QED
  BY <1>2, <1>3, <1>4, <1>5, <1>9, InsideStep

(* n_barrier is incremented: the thread that finds n - 1 there is the last. *)
LEMMA BarrierEnterStep ==
  ASSUME IInv, NEW t \in Threads, pc[t] \in AtBarrier, BarrierEnter(t, nth[t]),
         UNCHANGED <<n_graph, current_chunk, abort, ec, cgraph, pc, workerVars,
                     localVars, historyVars>>
  PROVE  IInv'
<1>1. /\ TypeInv /\ BarrierInv /\ BarrierTypeOK(Threads) /\ Active \subseteq Threads
      /\ IsFiniteSet(Active) /\ Cardinality(Active) = n_graph.nth /\ n_graph.nth \in Nat
  BY ThreadSets DEF IInv, TypeInv
<1> DEFINE l == IF n_barrier = nth[t] - 1 THEN "last" ELSE "wait"
<1>2. /\ bpc[t] = "enter" /\ n_barrier' = n_barrier + 1
      /\ bpc' = [bpc EXCEPT ![t] = l]
      /\ n_passed' = n_passed /\ n_barrier_passed' = n_barrier_passed
  BY DEF BarrierEnter
<1>3. /\ n_passed[t] = n_barrier_passed
  BY <1>1, <1>2 DEF BarrierInv, BarrierPlace
<1>4. /\ bpc'[t] = l /\ l \in {"last", "wait"}
      /\ \A u \in Threads \ {t} : bpc'[u] = bpc[u]
  BY <1>1, <1>2 DEF BarrierTypeOK
<1>5. ~Released(t) /\ ~Released(t)'
      /\ \A u \in Threads \ {t} : Released(u)' <=> Released(u)
  BY <1>2, <1>3, <1>4 DEF Released
<1>6. t \in Active /\ nth[t] = n_graph.nth
  BY <1>5, Waiting
<1>7. \A u \in Threads \ {t} : bpc[u] \notin {"last", "release"}
  BY <1>1, <1>2, <1>6, NobodyLast
<1>8. /\ Inside' = Inside \cup {t} /\ t \notin Inside
      /\ Inside \subseteq Active /\ Inside' \subseteq Active
  <2>1. Inside' = Inside \cup {t}
    BY <1>2, <1>3, <1>4 DEF Inside
  <2>2. t \notin Inside
    BY <1>2 DEF Inside
  <2> QED
    BY <1>6, <2>1, <2>2, InsideActive
<1>9. n_barrier = Cardinality(Inside)
  <2>1. ~\E u \in Threads : bpc[u] = "release"
    BY <1>2, <1>7
  <2> QED
    BY <1>1, <2>1 DEF BarrierInv, BarrierCount
<1>10. /\ Cardinality(Inside') = n_barrier + 1
       /\ Cardinality(Inside') = n_graph.nth => Inside' = Active
  <2>1. IsFiniteSet(Inside)
    BY <1>1, <1>8, FS_Subset
  <2>2. Cardinality(Inside') = Cardinality(Inside) + 1
    BY <1>8, <2>1, FS_AddElement
  <2>3. Cardinality(Active) = Cardinality(Inside') => Active = Inside'
    BY <1>1, <1>8, FS_Subset
  <2> QED
    BY <1>1, <1>9, <2>2, <2>3
<1>11. BarrierTypeOK(Threads)'
  <2>1. bpc' \in [Threads -> BarrierPC]
    BY <1>1, <1>2, <1>4 DEF BarrierTypeOK, BarrierPC
  <2> QED
    BY <1>1, <1>2, <2>1 DEF BarrierTypeOK
<1>12. l = "last" => \A u \in Active \ {t} : bpc'[u] = "wait" /\ ~Released(u)'
  <2> SUFFICES ASSUME l = "last", NEW u \in Active \ {t}
               PROVE  bpc'[u] = "wait" /\ ~Released(u)'
    OBVIOUS
  <2>1. n_barrier + 1 = n_graph.nth
    BY <1>1, <1>6, <1>9, <1>10
  <2>2. u \in Inside
    BY <1>8, <1>10, <2>1
  <2> QED
    BY <1>1, <1>4, <1>5, <1>7, <2>2 DEF Inside, Released
<1> HIDE DEF l
<1>13. BarrierInv'
  <2>1. BarrierCount'
    <3>1. ~\E u \in Threads : bpc'[u] = "release"
      BY <1>4, <1>7
    <3> QED
      BY <1>2, <1>10, <3>1 DEF BarrierCount
  <2>2. ASSUME NEW u \in Threads PROVE BarrierPlace(u)'
    <3>1. BarrierPlace(u)
      BY <1>1 DEF BarrierInv
    <3>2. Active' = Active /\ n_graph' = n_graph
      BY DEF Active
    <3>3. CASE u = t
      <4>1. pc'[t] \in AtBarrier /\ n_passed'[t] = n_barrier_passed' /\ n_passed'[t] <= n_barrier_passed'
            /\ n_graph'.nth # 1
        BY <1>1, <1>2, <1>3, <1>5, <3>1, <3>3 DEF BarrierPlace
      <4> QED
        BY <1>4, <1>12, <3>2, <3>3, <4>1 DEF BarrierPlace
    <3>4. CASE u # t
      <4>1. /\ bpc'[u] = bpc[u] /\ n_passed'[u] = n_passed[u]
            /\ (Released(u)' <=> Released(u)) /\ bpc[u] \notin {"last", "release"}
        BY <1>2, <1>4, <1>5, <1>7, <3>4
      <4> QED
        BY <1>2, <3>1, <4>1 DEF BarrierPlace
    <3> QED
      BY <3>3, <3>4
  <2> QED
    BY <2>1, <2>2 DEF BarrierInv
<1> QED
  BY <1>2, <1>4, <1>5, <1>11, <1>13, InsideStep

(* The last thread zeroes n_barrier. *)
LEMMA BarrierResetStep ==
  ASSUME IInv, NEW t \in Threads, pc[t] \in AtBarrier, BarrierReset(t),
         UNCHANGED <<n_graph, current_chunk, abort, ec, cgraph, pc, workerVars,
                     localVars, historyVars>>
  PROVE  IInv'
<1>1. TypeInv /\ BarrierInv /\ BarrierTypeOK(Threads) /\ Active \subseteq Threads
  BY ThreadSets DEF IInv, TypeInv
<1>2. /\ bpc[t] = "last" /\ n_barrier' = 0
      /\ bpc' = [bpc EXCEPT ![t] = "release"]
      /\ n_passed' = n_passed /\ n_barrier_passed' = n_barrier_passed
  BY DEF BarrierReset
<1>3. /\ bpc'[t] = "release" /\ \A u \in Threads \ {t} : bpc'[u] = bpc[u]
  BY <1>1, <1>2 DEF BarrierTypeOK
<1>4. ~Released(t) /\ ~Released(t)'
      /\ \A u \in Threads \ {t} : Released(u)' <=> Released(u)
  BY <1>2, <1>3 DEF Released
<1>5. BarrierTypeOK(Threads)'
  BY <1>1, <1>2 DEF BarrierTypeOK, BarrierPC
<1>6. t \in Active
  BY <1>4, Waiting
<1>7. \A u \in Threads \ {t} : bpc[u] \notin {"last", "release"}
  BY <1>1, <1>2, <1>6, NobodyLast
<1>8. BarrierInv'
  <2>1. BarrierCount'
    BY <1>2, <1>3 DEF BarrierCount
  <2>2. ASSUME NEW u \in Threads PROVE BarrierPlace(u)'
    <3>1. BarrierPlace(u) /\ BarrierPlace(t) /\ Active' = Active /\ n_graph' = n_graph
      BY <1>1 DEF BarrierInv, Active
    <3>2. CASE u = t
      <4>1. \A v \in Active \ {t} : bpc'[v] = "wait" /\ ~Released(v)'
        BY <1>1, <1>2, <1>3, <1>4, <3>1 DEF BarrierPlace
      <4> QED
        BY <1>2, <1>3, <1>4, <3>1, <3>2, <4>1 DEF BarrierPlace
    <3>3. CASE u # t
      <4>1. /\ bpc'[u] = bpc[u] /\ n_passed'[u] = n_passed[u]
            /\ (Released(u)' <=> Released(u)) /\ bpc[u] \notin {"last", "release"}
        BY <1>2, <1>3, <1>4, <1>7, <3>3
      <4> QED
        BY <1>2, <3>1, <4>1 DEF BarrierPlace
    <3> QED
      BY <3>2, <3>3
  <2> QED
    BY <2>1, <2>2 DEF BarrierInv
<1> QED
  BY <1>2, <1>3, <1>4, <1>5, <1>8, InsideStep

(* Where a thread is when ggml_barrier returns. *)
After(t) == IF pc[t] = "mm_barrier" THEN "mul_mat"
            ELSE IF pc[t] = "node_barrier" THEN "node"
            ELSE IF t = 0 THEN "finish" ELSE "top"

(* What a thread does when ggml_barrier returns. *)
LEMMA ReturnMoves ==
  ASSUME TypeInv, NEW t \in Threads, pc[t] \in AtBarrier, Return(t)
  PROVE  /\ pc' \in [Threads -> IdlePC \cup OverPC \cup ComputePC \cup {"wake", "start"}]
         /\ pc'[0] \in OverPC \cup ComputePC \cup {"wake"}
         /\ \A w \in Workers : pc'[w] \in IdlePC \cup ComputePC \cup {"start"}
         /\ node_n' \in [Threads -> Nat] /\ chunk' \in [Threads -> Nat]
         /\ pc'[t] = After(t) /\ pc'[t] \notin AtBarrier
         /\ node_n'[t] = IF pc[t] = "node_barrier" THEN node_n[t] + 1 ELSE node_n[t]
         /\ chunk'[t] = IF pc[t] = "mm_barrier" THEN t ELSE chunk[t]
         /\ \A u \in Threads \ {t} :
              pc'[u] = pc[u] /\ node_n'[u] = node_n[u] /\ chunk'[u] = chunk[u]
<1>1. node_n \in [Threads -> Nat] /\ chunk \in [Threads -> Nat] /\ t \in Nat
  BY DEF TypeInv, Threads
<1>2. pc' = [pc EXCEPT ![t] = After(t)]
  BY DEF Return, Goto, After, AtBarrier
<1>3. After(t) \notin AtBarrier
      /\ IF t = 0 THEN After(t) \in OverPC \cup ComputePC \cup {"wake"}
                  ELSE After(t) \in IdlePC \cup ComputePC \cup {"start"}
  BY DEF After, AtBarrier, OverPC, IdlePC, ComputePC
<1>4. node_n' = [node_n EXCEPT ![t] = IF pc[t] = "node_barrier" THEN node_n[t] + 1
                                      ELSE node_n[t]]
  BY <1>1 DEF Return, AtBarrier
<1>5. chunk' = [chunk EXCEPT ![t] = IF pc[t] = "mm_barrier" THEN t ELSE chunk[t]]
  BY <1>1 DEF Return, AtBarrier
<1>6. /\ pc' \in [Threads -> IdlePC \cup OverPC \cup ComputePC \cup {"wake", "start"}]
      /\ pc'[0] \in OverPC \cup ComputePC \cup {"wake"}
      /\ \A w \in Workers : pc'[w] \in IdlePC \cup ComputePC \cup {"start"}
      /\ pc'[t] = After(t) /\ \A u \in Threads \ {t} : pc'[u] = pc[u]
  BY <1>2, <1>3, Moves
<1>7. node_n' \in [Threads -> Nat] /\ chunk' \in [Threads -> Nat]
  BY <1>1, <1>4, <1>5
<1> QED
  BY <1>1, <1>3, <1>4, <1>5, <1>6, <1>7

(* A thread that leaves the spin loop goes where it was taken to be. *)
LEMMA BarrierLeaveStep ==
  ASSUME IInv, NEW t \in Threads, pc[t] \in AtBarrier, BarrierLeave(t), Return(t),
         UNCHANGED <<n_graph, current_chunk, abort, ec, cgraph, workerVars, nth,
                     historyVars>>
  PROVE  IInv'
<1>1. /\ TypeInv /\ BarrierInv /\ BarrierTypeOK(Threads) /\ WorkerInv
      /\ SegmentInv /\ FinishInv /\ Active \subseteq Threads
      /\ 0 \in Threads /\ Workers \subseteq Threads
  BY ThreadSets DEF IInv, TypeInv
<1>2. /\ bpc[t] = "wait" /\ n_barrier_passed # n_passed[t]
      /\ bpc' = [bpc EXCEPT ![t] = "out"]
      /\ n_barrier' = n_barrier
      /\ n_passed' = n_passed /\ n_barrier_passed' = n_barrier_passed
  BY DEF BarrierLeave
<1>3. /\ bpc'[t] = "out" /\ \A u \in Threads \ {t} : bpc'[u] = bpc[u]
      /\ bpc' \in [Threads -> BarrierPC]
  BY <1>1, <1>2 DEF BarrierTypeOK, BarrierPC
<1>4. UNCHANGED <<n_graph, current_chunk, abort, ec, cgraph, last_graph, pending, nth,
                  ran, hits>>
  BY DEF workerVars, historyVars
<1>5. TypeInv'
  BY <1>1, <1>2, <1>3, <1>4, ReturnMoves DEF TypeInv, BarrierTypeOK
<1>6. Released(t) /\ ~Released(t)'
      /\ \A u \in Threads \ {t} : Released(u)' <=> Released(u)
  BY <1>2, <1>3 DEF Released
<1>7. /\ pc'[t] = After(t) /\ pc'[t] \notin AtBarrier
      /\ node_n'[t] = IF pc[t] = "node_barrier" THEN node_n[t] + 1 ELSE node_n[t]
      /\ chunk'[t] = IF pc[t] = "mm_barrier" THEN t ELSE chunk[t]
      /\ \A u \in Threads \ {t} :
           pc'[u] = pc[u] /\ node_n'[u] = node_n[u] /\ chunk'[u] = chunk[u]
  BY <1>1, ReturnMoves
<1>8. ASSUME NEW u \in Threads
      PROVE  At(u)' = At(u) /\ Node(u)' = Node(u) /\ Chunk(u)' = Chunk(u)
  <2>1. CASE u = t
    BY <1>6, <1>7, <2>1 DEF At, Node, Chunk, After
  <2>2. CASE u # t
    <3>1. /\ pc'[u] = pc[u] /\ node_n'[u] = node_n[u] /\ chunk'[u] = chunk[u]
          /\ Released(u)' <=> Released(u)
      BY <1>6, <1>7, <2>2
    <3> QED
      BY <3>1 DEF At, Node, Chunk
  <2> QED
    BY <2>1, <2>2
<1>9. BarrierInv'
  <2>1. Inside' = Inside
    BY <1>2, <1>3 DEF Inside
  <2>2. (\E u \in Threads : bpc'[u] = "release") <=> (\E u \in Threads : bpc[u] = "release")
    BY <1>2, <1>3
  <2>3. BarrierCount'
    BY <1>1, <1>2, <2>1, <2>2 DEF BarrierInv, BarrierCount
  <2>4. ASSUME NEW u \in Threads PROVE BarrierPlace(u)'
    <3>1. BarrierPlace(u) /\ Active' = Active /\ n_graph' = n_graph
      BY <1>1, <1>4 DEF BarrierInv, Active
    <3>2. CASE u = t
      BY <1>2, <1>3, <3>1, <3>2 DEF BarrierPlace
    <3>3. CASE u # t
      <4>1. /\ bpc'[u] = bpc[u] /\ n_passed'[u] = n_passed[u] /\ pc'[u] = pc[u]
            /\ (Released(u)' <=> Released(u))
        BY <1>2, <1>3, <1>6, <1>7, <3>3
      <4>2. bpc[u] \in {"last", "release"} =>
              \A v \in Active \ {u} : bpc'[v] = "wait" /\ ~Released(v)'
        <5> SUFFICES ASSUME bpc[u] \in {"last", "release"}, NEW v \in Active \ {u}
                     PROVE  bpc'[v] = "wait" /\ ~Released(v)'
          OBVIOUS
        <5>1. bpc[v] = "wait" /\ ~Released(v)
          BY <3>1 DEF BarrierPlace
        <5> QED
          BY <1>1, <1>3, <1>6, <5>1
      <4> QED
        BY <1>2, <3>1, <4>1, <4>2 DEF BarrierPlace
    <3> QED
      BY <3>2, <3>3
  <2> QED
    BY <2>3, <2>4 DEF BarrierInv
<1>10. WorkerInv'
  <2>1. \A u \in Threads : /\ At(u)' = At(u)
                           /\ pc'[u] \notin AtBarrier => pc'[u] = pc[u] \/ pc[u] \in AtBarrier
    BY <1>7, <1>8
  <2>2. pc[0] \in AtBarrier => pc'[0] \notin {"kickoff", "wake"}
    BY <1>1, <1>7 DEF AtBarrier, After
  <2>3. \A w \in Workers : pc[w] = "start" => pc'[w] = "start"
    BY <1>1, <1>7 DEF AtBarrier
  <2> QED
    BY <1>1, <1>4, <2>1, <2>2, <2>3, WorkersSame
<1>11. SegmentInv' /\ FinishInv'
  BY <1>1, <1>4, <1>8, SegmentSame
<1> QED
  BY <1>5, <1>9, <1>10, <1>11 DEF IInv

(* The step that lets all the threads of the graph go on. *)
LEMMA AdvanceStep ==
  ASSUME IInv, ~Over, Advance, TypeInv', BarrierInv',
         UNCHANGED <<last_graph, pending, nth>>,
         \A u \in Threads \ Active : At(u)' = At(u) /\ pc'[u] = pc[u],
         \A u \in Threads : pc'[u] = pc[u] \/ pc[u] \in AtBarrier,
         pc'[0] \notin {"kickoff", "wake"}
  PROVE  IInv'
<1>1. TypeInv /\ WorkerInv /\ 0 \in Threads /\ Workers \subseteq Threads
  BY ThreadSets DEF IInv
<1>2. SegmentInv' /\ FinishInv'
  BY AdvanceSegment
<1>3. n_graph' = n_graph /\ Active' = Active /\ 0 \in Active /\ n_graph.nth > 0
  BY <1>1, ThreadSets DEF Advance, Active, WorkerInv
<1>4. \A t \in Active :
        /\ At(t) \in AtBarrier
        /\ At(t)' = IF At(t) = "mm_barrier" THEN "mul_mat"
                    ELSE IF At(t) = "node_barrier" THEN "node"
                    ELSE IF t = 0 THEN "finish" ELSE "top"
  BY DEF Advance
<1>5. \A t \in Active : At(t) = At(0)
  <2>1. PICK k \in 0 .. NNodes, inside \in BOOLEAN : Segment(k, inside)
    BY DEF IInv, SegmentInv
  <2> QED
    BY <1>1, <2>1, AdvanceView
<1>6. Over' <=> At(0) = "final_barrier"
  BY <1>3, <1>4 DEF Over, OverPC, AtBarrier
<1>7. ASSUME NEW w \in Workers PROVE WorkerPlace(w)'
  <2>1. WorkerPlace(w) /\ pending'[w] = pending[w] /\ last_graph'[w] = last_graph[w]
        /\ (pc[w] = "start" => pc'[w] = "start")
    BY <1>1 DEF WorkerInv, AtBarrier
  <2>2. CASE w \in Active
    <3>1. last_graph[w] = n_graph
      BY <1>4, <2>1, <2>2 DEF WorkerPlace, AtBarrier, IdlePC
    <3>2. Over' => At(w)' \in IdlePC
      BY <1>4, <1>5, <1>6, <2>2 DEF Workers, IdlePC
    <3> QED
      BY <1>3, <2>1, <2>2, <3>1, <3>2 DEF WorkerPlace
  <2>3. CASE w \notin Active
    <3>1. At(w)' = At(w) /\ At(w) \in IdlePC
      BY <1>1, <2>1, <2>3 DEF WorkerPlace
    <3> QED
      BY <1>3, <2>1, <2>3, <3>1 DEF WorkerPlace
  <2> QED
    BY <2>2, <2>3
<1>8. ASSUME NEW t \in Threads PROVE ThreadCount(t)'
  <2>1. CASE t \in Active
    <3>1. nth[t] = n_graph.nth
      BY <1>1, <1>4, <2>1 DEF WorkerInv, ThreadCount, AtBarrier, ComputePC
    <3> QED
      BY <1>3, <3>1 DEF ThreadCount
  <2>2. CASE t \notin Active
    BY <1>1, <1>3, <2>2 DEF WorkerInv, ThreadCount
  <2> QED
    BY <2>1, <2>2
<1>9. WorkerInv'
  BY <1>3, <1>7, <1>8 DEF WorkerInv
<1> QED
  BY <1>2, <1>9 DEF IInv

(* The last thread increments n_barrier_passed. *)
LEMMA BarrierReleaseStep ==
  ASSUME IInv, NEW t \in Threads, pc[t] \in AtBarrier, BarrierRelease(t), Return(t),
         UNCHANGED <<n_graph, current_chunk, abort, ec, cgraph, workerVars, nth,
                     historyVars>>
  PROVE  IInv'
<1>1. /\ TypeInv /\ BarrierInv /\ BarrierTypeOK(Threads) /\ WorkerInv
      /\ Active \subseteq Threads /\ 0 \in Threads
  BY ThreadSets DEF IInv, TypeInv
<1>2. /\ bpc[t] = "release"
      /\ n_barrier_passed' = n_barrier_passed + 1
      /\ bpc' = [bpc EXCEPT ![t] = "out"]
      /\ n_barrier' = n_barrier /\ n_passed' = n_passed
  BY DEF BarrierRelease
<1>3. /\ bpc'[t] = "out" /\ \A u \in Threads \ {t} : bpc'[u] = bpc[u]
      /\ bpc' \in [Threads -> BarrierPC]
      /\ n_barrier_passed \in Nat /\ n_passed \in [Threads -> Nat]
  BY <1>1, <1>2 DEF BarrierTypeOK, BarrierPC
<1>4. UNCHANGED <<n_graph, current_chunk, abort, ec, cgraph, last_graph, pending, nth,
                  ran, hits>>
  BY DEF workerVars, historyVars
<1>5. TypeInv'
  <2>1. BarrierTypeOK(Threads)'
    BY <1>1, <1>2, <1>3 DEF BarrierTypeOK
  <2> QED
    BY <1>1, <1>4, <2>1, ReturnMoves DEF TypeInv
<1>6. /\ pc'[t] = After(t) /\ pc'[t] \notin AtBarrier
      /\ node_n'[t] = IF pc[t] = "node_barrier" THEN node_n[t] + 1 ELSE node_n[t]
      /\ chunk'[t] = IF pc[t] = "mm_barrier" THEN t ELSE chunk[t]
      /\ \A u \in Threads \ {t} :
           pc'[u] = pc[u] /\ node_n'[u] = node_n[u] /\ chunk'[u] = chunk[u]
  BY <1>1, ReturnMoves
<1>7. ~Released(t) /\ ~Released(t)'
  BY <1>2, <1>3 DEF Released
<1>8. At(t) = pc[t] /\ t \in Active /\ ~Over
  BY <1>7, Waiting
<1>9. \A u \in Active \ {t} : bpc[u] = "wait" /\ ~Released(u) /\ Released(u)'
  <2> SUFFICES ASSUME NEW u \in Active \ {t}
               PROVE  bpc[u] = "wait" /\ ~Released(u) /\ Released(u)'
    OBVIOUS
  <2>1. bpc[u] = "wait" /\ ~Released(u)
    BY <1>1, <1>2 DEF BarrierInv, BarrierPlace
  <2>2. n_passed[u] = n_barrier_passed /\ bpc'[u] = "wait"
    BY <1>1, <1>3, <2>1 DEF Released
  <2> QED
    BY <1>2, <1>3, <2>1, <2>2 DEF Released
<1>10. \A u \in Threads \ Active : (bpc[u] = "out" \/ Released(u)) /\ (Released(u)' <=> Released(u))
  <2> SUFFICES ASSUME NEW u \in Threads \ Active
               PROVE  (bpc[u] = "out" \/ Released(u)) /\ (Released(u)' <=> Released(u))
    OBVIOUS
  <2>1. BarrierPlace(u)
    BY <1>1 DEF BarrierInv
  <2>2. bpc[u] = "out" \/ Released(u)
    BY <2>1, Waiting DEF BarrierPlace
  <2>3. n_passed[u] \in Nat /\ n_passed[u] <= n_barrier_passed /\ bpc'[u] = bpc[u]
    BY <1>3, <1>8, <2>1 DEF BarrierPlace
  <2> QED
    BY <1>2, <1>3, <2>2, <2>3 DEF Released
<1>11. BarrierInv'
  <2>1. ASSUME NEW u \in Threads PROVE bpc'[u] = "out" \/ Released(u)'
    BY <1>3, <1>9, <1>10
  <2>2. \A u \in Threads : bpc'[u] \notin {"enter", "last", "release"}
    BY <2>1 DEF Released
  <2>3. ASSUME NEW u \in Threads PROVE BarrierPlace(u)'
    <3>1. BarrierPlace(u)
      BY <1>1 DEF BarrierInv
    <3>2. n_passed'[u] <= n_barrier_passed'
      BY <1>2, <1>3, <3>1 DEF BarrierPlace
    <3>3. bpc'[u] # "out" => pc'[u] \in AtBarrier
      BY <1>3, <1>6, <3>1 DEF BarrierPlace
    <3> QED
      BY <2>1, <2>2, <3>2, <3>3 DEF BarrierPlace
  <2>4. n_barrier = 0
    BY <1>1, <1>2 DEF BarrierInv, BarrierCount
  <2>5. Inside' = {}
    BY <2>1, <2>2 DEF Inside, Released
  <2>6. BarrierCount'
    BY <1>2, <2>2, <2>4, <2>5, FS_EmptySet DEF BarrierCount
  <2> QED
    BY <2>3, <2>6 DEF BarrierInv
<1>12. Advance
  <2>1. ASSUME NEW u \in Active
        PROVE  /\ At(u) \in AtBarrier
               /\ At(u)' = IF At(u) = "mm_barrier" THEN "mul_mat"
                           ELSE IF At(u) = "node_barrier" THEN "node"
                           ELSE IF u = 0 THEN "finish" ELSE "top"
               /\ Node(u)' = IF At(u) = "node_barrier" THEN Node(u) + 1 ELSE Node(u)
               /\ At(u) = "mm_barrier" => Chunk(u)' = u
    <3>1. CASE u = t
      BY <1>6, <1>7, <1>8, <3>1 DEF At, Node, Chunk, After
    <3>2. CASE u # t
      <4>1. pc'[u] = pc[u] /\ node_n'[u] = node_n[u] /\ chunk'[u] = chunk[u]
            /\ ~Released(u) /\ Released(u)' /\ bpc[u] = "wait"
        BY <1>1, <1>6, <1>9, <3>2
      <4>2. pc[u] \in AtBarrier
        BY <1>1, <4>1 DEF BarrierInv, BarrierPlace
      <4> QED
        BY <4>1, <4>2 DEF At, Node, Chunk, AtBarrier
    <3> QED
      BY <3>1, <3>2
  <2> QED
    BY <1>4, <2>1 DEF Advance
<1>13. \A u \in Threads \ Active : At(u)' = At(u) /\ pc'[u] = pc[u]
  BY <1>6, <1>8, <1>10 DEF At
<1>14. pc'[0] \notin {"kickoff", "wake"}
  <2>1. CASE t = 0
    BY <1>6, <2>1 DEF After
  <2>2. CASE t # 0
    <3>1. 0 \in Active
      BY <1>1, <1>8, ThreadSets DEF WorkerInv
    <3>2. pc[0] \in AtBarrier
      BY <1>1, <1>9, <2>2, <3>1 DEF BarrierInv, BarrierPlace
    <3> QED
      BY <1>1, <1>6, <2>2, <3>2 DEF AtBarrier
  <2> QED
    BY <2>1, <2>2
<1> QED
  BY <1>4, <1>5, <1>6, <1>8, <1>11, <1>12, <1>13, <1>14, AdvanceStep

(* A graph of one thread passes its barriers at once. *)
LEMMA BarrierSkipStep ==
  ASSUME IInv, NEW t \in Threads, pc[t] \in AtBarrier, BarrierSkip(t, n_graph.nth), Return(t),
         UNCHANGED <<n_graph, current_chunk, abort, ec, cgraph, workerVars, nth,
                     historyVars>>
  PROVE  IInv'
<1>1. /\ TypeInv /\ BarrierInv /\ BarrierTypeOK(Threads) /\ WorkerInv
      /\ Active \subseteq Threads /\ 0 \in Threads
  BY ThreadSets DEF IInv, TypeInv
<1>2. /\ bpc[t] = "out" /\ n_graph.nth = 1
      /\ UNCHANGED <<n_barrier, n_barrier_passed, n_passed, bpc>>
  BY DEF BarrierSkip, barrierVars
<1>3. UNCHANGED <<n_graph, current_chunk, abort, ec, cgraph, last_graph, pending, nth,
                  ran, hits>>
  BY DEF workerVars, historyVars
<1>4. TypeInv'
  BY <1>1, <1>2, <1>3, ReturnMoves DEF TypeInv, BarrierTypeOK
<1>5. /\ pc'[t] = After(t) /\ pc'[t] \notin AtBarrier
      /\ node_n'[t] = IF pc[t] = "node_barrier" THEN node_n[t] + 1 ELSE node_n[t]
      /\ chunk'[t] = IF pc[t] = "mm_barrier" THEN t ELSE chunk[t]
      /\ \A u \in Threads \ {t} :
           pc'[u] = pc[u] /\ node_n'[u] = node_n[u] /\ chunk'[u] = chunk[u]
  BY <1>1, ReturnMoves
<1>6. \A u \in Threads : Released(u)' <=> Released(u)
  BY <1>2 DEF Released
<1>7. ~Released(t) /\ ~Released(t)'
  BY <1>2, <1>6 DEF Released
<1>8. At(t) = pc[t] /\ t \in Active /\ ~Over
  BY <1>7, Waiting
<1>9. t = 0 /\ Active = {0}
  <2>1. Active = {0}
    BY <1>1, <1>2 DEF Active, Threads
  <2> QED
    BY <1>8, <2>1
<1>10. BarrierInv'
  <2>1. Inside' = Inside
    BY <1>2 DEF Inside
  <2>2. BarrierCount'
    BY <1>1, <1>2, <2>1 DEF BarrierInv, BarrierCount
  <2>3. ASSUME NEW u \in Threads PROVE BarrierPlace(u)'
    <3>1. BarrierPlace(u) /\ Active' = Active /\ n_graph' = n_graph
      BY <1>1, <1>3 DEF BarrierInv, Active
    <3>2. bpc[u] # "out" => pc'[u] \in AtBarrier
      BY <1>2, <1>5, <3>1 DEF BarrierPlace
    <3> QED
      BY <1>1, <1>2, <1>6, <3>1, <3>2 DEF BarrierPlace
  <2> QED
    BY <2>2, <2>3 DEF BarrierInv
<1>11. Advance
  <2>1. /\ At(t) \in AtBarrier
        /\ At(t)' = IF At(t) = "mm_barrier" THEN "mul_mat"
                    ELSE IF At(t) = "node_barrier" THEN "node"
                    ELSE IF t = 0 THEN "finish" ELSE "top"
        /\ Node(t)' = IF At(t) = "node_barrier" THEN Node(t) + 1 ELSE Node(t)
        /\ At(t) = "mm_barrier" => Chunk(t)' = t
    BY <1>5, <1>7, <1>8 DEF At, Node, Chunk, After
  <2> QED
    BY <1>3, <1>9, <2>1 DEF Advance
<1>12. \A u \in Threads \ Active : At(u)' = At(u) /\ pc'[u] = pc[u]
  BY <1>5, <1>6, <1>9 DEF At
<1>13. pc'[0] \notin {"kickoff", "wake"}
  BY <1>5, <1>9 DEF After
<1> QED
  BY <1>3, <1>4, <1>5, <1>8, <1>10, <1>11, <1>12, <1>13, AdvanceStep

-----------------------------------------------------------------------------
(* The initial states. *)
LEMMA InitIInv == Init => IInv
<1> SUFFICES ASSUME Init PROVE IInv
  OBVIOUS
<1>1. /\ bpc = [t \in Threads |-> "out"] /\ n_passed = [t \in Threads |-> 0]
      /\ n_barrier = 0 /\ n_barrier_passed = 0
      /\ n_graph = [count |-> 0, nth |-> 0] /\ current_chunk = 0
      /\ abort = -1 /\ ec = "SUCCESS" /\ cgraph = <<>>
      /\ pc = [t \in Threads |-> IF t = 0 THEN "idle" ELSE "top"]
      /\ last_graph = [w \in Workers |-> [count |-> 0, nth |-> 0]]
      /\ pending = [w \in Workers |-> FALSE]
      /\ nth = [t \in Threads |-> 0] /\ node_n = [t \in Threads |-> 0]
      /\ chunk = [t \in Threads |-> 0] /\ ran = [t \in Threads |-> {}] /\ hits = NoHits
  BY DEF Init, BarrierInit
<1>2. 0 \in Threads /\ Workers \subseteq Threads /\ 0 \notin Workers
  BY NThreadsAssumption DEF Threads, Workers
<1>3. TypeInv
  <2>1. BarrierTypeOK(Threads)
    BY <1>1 DEF BarrierTypeOK, BarrierPC
  <2>2. n_graph \in [count : Nat, nth : 0 .. NThreads]
        /\ last_graph \in [Workers -> [count : Nat, nth : 0 .. NThreads]]
        /\ nth \in [Threads -> 0 .. NThreads]
    BY <1>1, NThreadsAssumption
  <2>3. cgraph \in Seq(NodeKinds) /\ abort \in Int
    BY <1>1
  <2>4. /\ pc \in [Threads -> IdlePC \cup OverPC \cup ComputePC \cup {"wake", "start"}]
        /\ pc[0] \in OverPC \cup ComputePC \cup {"wake"}
        /\ \A w \in Workers : pc[w] \in IdlePC \cup ComputePC \cup {"start"}
    BY <1>1, <1>2 DEF IdlePC, OverPC
  <2>5. \A x \in DOMAIN hits : hits[x] \in {0, 1}
    BY <1>1 DEF NoHits
  <2>6. pending \in [Workers -> BOOLEAN] /\ ran \in [Threads -> SUBSET Nat]
        /\ node_n \in [Threads -> Nat] /\ chunk \in [Threads -> Nat]
    BY <1>1
  <2> QED
    BY <1>1, <2>1, <2>2, <2>3, <2>4, <2>5, <2>6 DEF TypeInv
<1>4. \A t \in Threads : ~Released(t) /\ At(t) = (IF t = 0 THEN "idle" ELSE "top")
  BY <1>1 DEF Released, At
<1>5. BarrierInv
  <2>1. Inside = {}
    BY <1>1 DEF Inside
  <2>2. BarrierCount
    BY <1>1, <2>1, FS_EmptySet DEF BarrierCount
  <2>3. \A t \in Threads : BarrierPlace(t)
    BY <1>1 DEF BarrierPlace
  <2> QED
    BY <2>2, <2>3 DEF BarrierInv
<1>6. Over /\ Active = {}
  BY <1>1, <1>2, <1>4 DEF Over, OverPC, Active, Threads
<1>7. WorkerInv
  <2>1. ASSUME NEW w \in Workers PROVE WorkerPlace(w)
    BY <1>1, <1>2, <1>4, <1>6 DEF WorkerPlace, IdlePC
  <2>2. ASSUME NEW t \in Threads PROVE ThreadCount(t)
    BY <1>4 DEF ThreadCount, ComputePC
  <2>3. pc[0] = "idle"
    BY <1>1, <1>2
  <2> QED
    BY <1>6, <2>1, <2>2, <2>3 DEF WorkerInv
<1>8. SegmentInv /\ FinishInv
  BY <1>2, <1>4, <1>6 DEF SegmentInv, FinishInv
<1> QED
  BY <1>3, <1>5, <1>7, <1>8 DEF IInv

(* A thread that is in ggml_barrier. *)
LEMMA BarrierStep ==
  ASSUME IInv, NEW t \in Threads, Barrier(t)
  PROVE  IInv'
<1>1. /\ pc[t] \in AtBarrier
      /\ BarrierReturn(t) \/ BarrierInside(t)
      /\ UNCHANGED <<n_graph, current_chunk, abort, ec, cgraph, workerVars, nth,
                     historyVars>>
  BY DEF Barrier, poolVars
<1>2. CASE BarrierReturn(t)
  BY <1>1, <1>2, BarrierSkipStep, BarrierReleaseStep, BarrierLeaveStep DEF BarrierReturn
<1>3. CASE BarrierInside(t)
  <2>1. UNCHANGED <<pc, localVars>>
    BY <1>1, <1>3 DEF BarrierInside, localVars
  <2> QED
    BY <1>1, <1>3, <2>1, BarrierCallStep, BarrierEnterStep, BarrierResetStep
       DEF BarrierInside
<1> QED
  BY <1>1, <1>2, <1>3 DEF Barrier

(* Every step keeps the invariant. *)
LEMMA NextIInv == IInv /\ [Next]_vars => IInv'
<1> SUFFICES ASSUME IInv, [Next]_vars PROVE IInv'
  OBVIOUS
<1>1. ASSUME NEW g \in Graphs, NEW n \in 1 .. NThreads + 1, GraphCompute(g, n) PROVE IInv'
  BY <1>1, GraphComputeStep
<1>2. CASE CallerStep \/ Free
  BY <1>2, KickoffStoreStep, KickoffWakeStep, AbortStep, CallerStays DEF CallerStep
<1>3. ASSUME NEW t \in Threads, ComputeStep(t) PROVE IInv'
  BY <1>3, NextNodeStep, ForwardStep, MulMatChunkStep, MulMatDoneStep, NodeDoneStep,
     BarrierStep DEF ComputeStep
<1>4. ASSUME NEW w \in Workers, WorkerStep(w) PROVE IInv'
  BY <1>4, PlainWaiting, Looking, StartStep DEF WorkerStep
<1>5. ASSUME \/ \E w \in Workers : SpuriousWakeup(w)
             \/ Pause \/ Resume \/ Done \/ UNCHANGED vars
      PROVE  IInv'
  <2>1. UNCHANGED <<n_graph, current_chunk, abort, ec, cgraph, pc, workerVars,
                    localVars, historyVars, barrierVars>>
    BY <1>5 DEF SpuriousWakeup, Pause, Resume, Done, vars, poolVars
  <2> QED
    BY <2>1, Unseen
<1> QED
  BY <1>1, <1>2, <1>3, <1>4, <1>5 DEF Next

-----------------------------------------------------------------------------
(* The pool keeps the inductive invariant for every number of threads, set  *)
(* of graphs, number of chunks and bound.                                   *)
THEOREM PoolInvariant == Spec => []IInv
<1> QED
  BY InitIInv, NextIInv, PTL DEF Spec

-----------------------------------------------------------------------------
(* What the invariant says of a thread that is at a node: it has yet to     *)
(* compute that node, and all threads have computed those before it.        *)
LEMMA AtNode ==
  ASSUME IInv, NEW t \in Threads, At(t) \in {"forward", "mm_barrier", "mul_mat"}
  PROVE  /\ ~Over /\ t \in Active
         /\ Node(t) \in OpNodes /\ Node(t) \notin ran[t]
         /\ \A u \in Active : {i \in OpNodes : i < Node(t)} \subseteq ran[u]
<1>1. TypeInv /\ WorkerInv /\ SegmentInv
  BY DEF IInv
<1>2. ~Over /\ t \in Active
  BY <1>1, Computing DEF ComputePC
<1>3. PICK k \in 0 .. NNodes, inside \in BOOLEAN : Segment(k, inside)
  BY <1>1, <1>2 DEF SegmentInv
<1>4. /\ NNodes \in Nat /\ \A i \in OpNodes : i \in Nat /\ i < NNodes
      /\ k \in Nat
  BY <1>1, NodeNumbers
<1>5. /\ ran[t] = Computed(t)
      /\ IF inside THEN InsideMulMat(t, k) ELSE BeforeBarrier(t, k)
      /\ inside => k \in OpNodes
  BY <1>2, <1>3 DEF Segment, Place, NotBegun, IdlePC
<1>6. ASSUME NEW u \in Active
      PROVE  \/ k = 0 /\ ~inside
             \/ ran[u] = Computed(u) /\ k <= Node(u) /\ Node(u) <= NNodes
  BY <1>3, <1>6 DEF Segment, Place
<1>7. ASSUME NEW u \in Active PROVE Node(u) \in Nat
  BY <1>1, <1>7, ThreadSets, NodeNumbers DEF Node
<1>8. Node(t) \in OpNodes /\ (IF inside THEN Node(t) = k ELSE NoOps(k, Node(t)))
  <2>1. CASE inside
    BY <1>5, <2>1 DEF InsideMulMat
  <2>2. CASE ~inside
    BY <1>5, <2>2 DEF BeforeBarrier
  <2> QED
    BY <2>1, <2>2
<1>9. Node(t) \notin ran[t]
  BY <1>4, <1>5, <1>8 DEF Computed
<1>10. ASSUME NEW u \in Active, NEW i \in OpNodes, i < Node(t) PROVE i \in ran[u]
  <2>1. i < k
    BY <1>4, <1>8, <1>10 DEF NoOps
  <2>2. ran[u] = Computed(u) /\ k <= Node(u)
    BY <1>4, <1>6, <2>1
  <2> QED
    BY <1>4, <1>7, <2>1, <2>2 DEF Computed
<1> QED
  BY <1>2, <1>8, <1>9, <1>10

(* A thread that waits in a MUL_MAT is at the node its loop counter tells.  *)
LEMMA NodeOfCounter ==
  ASSUME IInv, NEW t \in Threads, pc[t] \in {"forward", "mm_barrier", "mul_mat"}
  PROVE  At(t) \in {"forward", "mm_barrier", "mul_mat"} /\ Node(t) = node_n[t]
BY DEF At, Node, IInv, BarrierInv, BarrierPlace, AtBarrier, Released

(* A node is computed only when every thread of the graph has computed all  *)
(* the nodes before it, for every graph and number of threads.              *)
THEOREM ComputesInOrder == Spec => []NodeOrder
<1>1. ASSUME IInv PROVE NodeOrder
  <2> SUFFICES ASSUME NEW t \in Threads, pc[t] \in {"forward", "mm_barrier", "mul_mat"}
               PROVE  \A u \in Active : {i \in OpNodes : i < node_n[t]} \subseteq ran[u]
    BY DEF NodeOrder
  <2>1. At(t) \in {"forward", "mm_barrier", "mul_mat"} /\ Node(t) = node_n[t]
    BY <1>1, NodeOfCounter
  <2> QED
    BY <1>1, <2>1, AtNode
<1> QED
  BY <1>1, PoolInvariant, PTL

(* When ggml_graph_compute returns all its threads have computed the same   *)
(* nodes, and the status says which.                                        *)
THEOREM AbortsTogether == Spec => []AbortAgreement
<1>1. ASSUME IInv PROVE AbortAgreement
  <2> SUFFICES ASSUME pc[0] = "finish"
               PROVE  /\ \A t \in Active : ran[t] = ran[0]
                      /\ \A t \in Threads \ Active : ran[t] = {}
                      /\ ran[0] = IF ec = "SUCCESS" THEN OpNodes
                                  ELSE {i \in OpNodes : i < abort}
    BY DEF AbortAgreement
  <2>1. 0 \in Threads /\ BarrierInv /\ FinishInv
    BY <1>1, ThreadSets DEF IInv
  <2>2. At(0) = "finish"
    BY <2>1, OutsideBarrier DEF AtBarrier
  <2> QED
    BY <2>1, <2>2 DEF FinishInv
<1> QED
  BY <1>1, PoolInvariant, PTL

(* Between two graphs no worker reads what ggml_graph_compute then writes.  *)
THEOREM NobodyReads == Spec => []Quiescent
<1>1. ASSUME IInv PROVE Quiescent
  <2> SUFFICES ASSUME pc[0] \in {"idle", "kickoff"}, NEW w \in Workers
               PROVE  pc[w] \notin Accessing
    BY DEF Quiescent
  <2>1. 0 \in Threads /\ w \in Threads /\ w # 0 /\ BarrierInv /\ WorkerInv
    BY <1>1, ThreadSets DEF IInv, Workers
  <2>2. Over
    BY <2>1, OutsideBarrier DEF Over, OverPC, AtBarrier
  <2>3. At(w) \in IdlePC
    BY <2>1, <2>2 DEF WorkerInv, WorkerPlace
  <2>4. CASE Released(w)
    <3>1. pc[w] \in AtBarrier
      BY <2>1, <2>4 DEF BarrierInv, BarrierPlace, Released
    <3> QED
      BY <2>1, <2>3, <2>4, <3>1 DEF At, AtBarrier, IdlePC, Accessing
  <2>5. CASE ~Released(w)
    BY <2>3, <2>5 DEF At, IdlePC, Accessing
  <2> QED
    BY <2>4, <2>5
<1> QED
  BY <1>1, PoolInvariant, PTL

(* Every chunk of a MUL_MAT is computed at most once, and all of them have  *)
(* been when the graph is done, whichever thread claims which.              *)
THEOREM EachChunkOnce == Spec => []ChunksOnce
<1>1. ASSUME IInv PROVE ChunksOnce
  <2>1. 0 \in Threads /\ TypeInv /\ BarrierInv /\ FinishInv
    BY <1>1, ThreadSets DEF IInv
  <2>2. \A x \in DOMAIN hits : hits[x] <= 1
    <3>1. ASSUME NEW x \in DOMAIN hits PROVE hits[x] <= 1
      <4>1. hits[x] \in {0, 1}
        BY <2>1, <3>1 DEF TypeInv
      <4> QED
        BY <4>1
    <3> QED
      BY <3>1
  <2>3. ASSUME pc[0] = "finish"
        PROVE  \A i \in ran[0] : Kind(i) = "mul_mat" =>
                 \A c \in 0 .. ChunkCount(n_graph.nth) - 1 : hits[<<i, c>>] = 1
    <3>1. At(0) = "finish"
      BY <2>1, <2>3, OutsideBarrier DEF AtBarrier
    <3> QED
      BY <2>1, <3>1 DEF FinishInv, Count
  <2> QED
    BY <2>2, <2>3 DEF ChunksOnce
<1> QED
  BY <1>1, PoolInvariant, PTL

-----------------------------------------------------------------------------
(* The pool implements GraphExec.  Most steps are not to be seen there.     *)
LEMMA ExecStutter ==
  ASSUME Running' <=> Running, Running => UNCHANGED <<n_graph, cgraph, ec>>, ran' = ran
  PROVE  UNCHANGED Exec!vars
<1>1. Running => Active' = Active /\ OpNodes' = OpNodes
  BY DEF Active, OpNodes, NNodes, Kind
<1> HIDE DEF Running
<1> QED
  BY <1>1 DEF Exec!vars

(* The graph that has not been computed is the one GraphExec runs. *)
LEMMA OverOrRunning ==
  ASSUME TypeInv, BarrierInv, ~Over
  PROVE  Running
<1>1. 0 \in Threads /\ pc[0] \in OverPC \cup ComputePC \cup {"wake"}
  BY ThreadSets DEF TypeInv
<1>2. pc[0] \notin AtBarrier => pc[0] \notin OverPC
  BY <1>1, OutsideBarrier DEF Over
<1> QED
  BY <1>1, <1>2 DEF Running, AtBarrier, ComputePC

(* The graph begins when n_graph is stored. *)
LEMMA BeginRefines ==
  ASSUME IInv, KickoffStore
  PROVE  Exec!Begin
<1>1. TypeInv /\ BarrierInv /\ WorkerInv /\ FinishInv /\ 0 \in Threads
  BY ThreadSets DEF IInv
<1>2. /\ pc[0] = "kickoff" /\ pc' = [pc EXCEPT ![0] = "wake"]
      /\ n_graph'.nth = nth[0] /\ cgraph' = cgraph /\ ec' = ec
      /\ ran' = [t \in Threads |-> {}]
  BY DEF KickoffStore, Goto
<1>3. pc'[0] = "wake"
  BY <1>1, <1>2 DEF TypeInv
<1>4. ~Running /\ Running'
  BY <1>2, <1>3 DEF Running, ComputePC
<1>5. ec = "SUCCESS"
  BY <1>1, <1>2, OutsideBarrier DEF FinishInv, AtBarrier
<1>6. Active' \in (SUBSET Threads) \ {{}} /\ 0 \in Active'
  <2>1. nth[0] \in Nat /\ nth[0] > 0
    BY <1>1, <1>2, NThreadsAssumption DEF TypeInv, WorkerInv
  <2>2. Active' = {t \in Threads : t < nth[0]}
    BY <1>2 DEF Active
  <2> QED
    BY <1>1, <2>1, <2>2
<1>7. OpNodes' \subseteq Nat
  <2>1. OpNodes' = OpNodes
    BY <1>2 DEF OpNodes, NNodes, Kind
  <2>2. \A i \in OpNodes : i \in Nat
    BY <1>1, NodeNumbers
  <2> QED
    BY <2>1, <2>2
<1> HIDE DEF Running
<1> QED
  BY <1>2, <1>4, <1>5, <1>6, <1>7 DEF Exec!Begin

(* A thread computes the node it is at. *)
LEMMA RunRefines ==
  ASSUME IInv, NEW t \in Threads, pc[t] \in {"forward", "mul_mat"},
         pc' = [pc EXCEPT ![t] = "check"], UNCHANGED <<n_graph, cgraph, ec>>,
         ran' = [ran EXCEPT ![t] = @ \cup {node_n[t]}]
  PROVE  Exec!Next
<1>1. TypeInv /\ BarrierInv /\ 0 \in Threads
  BY ThreadSets DEF IInv
<1>2. At(t) \in {"forward", "mm_barrier", "mul_mat"} /\ Node(t) = node_n[t]
  BY NodeOfCounter
<1>3. /\ ~Over /\ t \in Active
      /\ node_n[t] \in OpNodes /\ node_n[t] \notin ran[t]
      /\ \A u \in Active : {i \in OpNodes : i < node_n[t]} \subseteq ran[u]
  BY <1>2, AtNode
<1>4. Running
  BY <1>1, <1>3, OverOrRunning
<1>5. Running'
  <2>1. pc'[0] = pc[0] \/ pc'[0] = "check"
    BY <1>1 DEF TypeInv
  <2> QED
    BY <1>4, <2>1 DEF Running, ComputePC
<1>6. Active' = Active /\ OpNodes' = OpNodes
  BY DEF Active, OpNodes, NNodes, Kind
<1> HIDE DEF Running
<1>7. Exec!Run(t, node_n[t])
  BY <1>3, <1>4, <1>5, <1>6 DEF Exec!Run
<1> QED
  BY <1>3, <1>4, <1>7 DEF Exec!Next

(* The caller aborts a graph that is being computed. *)
LEMMA AbortRefines ==
  ASSUME IInv, Abort
  PROVE  Exec!AbortGraph
<1>1. TypeInv /\ BarrierInv /\ WorkerInv /\ 0 \in Threads
  BY ThreadSets DEF IInv
<1>2. /\ pc[0] = "check" /\ ec' = "ABORTED"
      /\ pc' = [pc EXCEPT ![0] = "node_barrier"] \/ pc' = [pc EXCEPT ![0] = "node"]
      /\ UNCHANGED <<n_graph, cgraph, ran>>
  BY DEF Abort, AfterNode, Goto, historyVars
<1>3. 0 \in Active
  BY <1>1, <1>2, OutsideBarrier, Computing DEF AtBarrier, ComputePC
<1>4. pc'[0] \in {"node_barrier", "node"}
  BY <1>1, <1>2 DEF TypeInv
<1>5. Running /\ Running'
  BY <1>2, <1>4 DEF Running, ComputePC
<1>6. Active' = Active /\ OpNodes' = OpNodes
  BY <1>2 DEF Active, OpNodes, NNodes, Kind
<1> HIDE DEF Running
<1> QED
  BY <1>2, <1>3, <1>5, <1>6 DEF Exec!AbortGraph

(* It ends when ggml_graph_compute returns. *)
LEMMA EndRefines ==
  ASSUME IInv, Finish
  PROVE  Exec!End
<1>1. TypeInv /\ BarrierInv /\ FinishInv /\ 0 \in Threads
  BY ThreadSets DEF IInv
<1>2. pc[0] = "finish" /\ pc' = [pc EXCEPT ![0] = "idle"] /\ UNCHANGED ran
  BY DEF Finish, Goto, historyVars
<1>3. Running /\ ~Running'
  <2>1. pc'[0] = "idle"
    BY <1>1, <1>2 DEF TypeInv
  <2> QED
    BY <1>2, <2>1 DEF Running, ComputePC
<1>4. At(0) = "finish"
  BY <1>1, <1>2, OutsideBarrier DEF AtBarrier
<1>5. /\ 0 \in Active
      /\ \A t \in Active : ran[t] = ran[0]
      /\ ran[0] = IF ec = "SUCCESS" THEN OpNodes ELSE {i \in OpNodes : i < abort}
  BY <1>1, <1>4 DEF FinishInv
<1>6. \A i \in ran[0], j \in OpNodes : j < i => j \in ran[0]
  <2>1. \A i \in OpNodes : i \in Nat
    BY <1>1, NodeNumbers
  <2>2. abort \in Int
    BY <1>1 DEF TypeInv
  <2> QED
    BY <1>5, <2>1, <2>2
<1> HIDE DEF Running
<1> QED
  BY <1>2, <1>3, <1>5, <1>6 DEF Exec!End

(* The steps of a thread that computes. *)
LEMMA ComputeRefines ==
  ASSUME IInv, NEW t \in Threads, ComputeStep(t)
  PROVE  [Exec!Next]_(Exec!vars)
<1>1. TypeInv /\ BarrierInv /\ WorkerInv /\ 0 \in Threads
  BY ThreadSets DEF IInv
<1>2. pc[t] \in ComputePC /\ UNCHANGED <<n_graph, cgraph, ec>>
  BY DEF ComputeStep, NextNode, Forward, MulMatChunk, MulMatDone, NodeDone, Barrier,
         poolVars, ComputePC, AtBarrier
<1>3. \A l : pc' = [pc EXCEPT ![t] = l] =>
               pc'[t] = l /\ \A u \in Threads \ {t} : pc'[u] = pc[u]
  BY <1>1 DEF TypeInv
<1>4. ASSUME NEW l \in ComputePC \cup {"finish", "top"}, l = "finish" => t = 0,
             l = "top" => t # 0, pc' = [pc EXCEPT ![t] = l], ran' = ran
      PROVE  UNCHANGED Exec!vars
  <2>1. t = 0 => Running /\ Running'
    BY <1>2, <1>3, <1>4 DEF Running
  <2>2. t # 0 => (Running' <=> Running)
    BY <1>1, <1>3, <1>4 DEF Running
  <2> QED
    BY <1>2, <1>4, <2>1, <2>2, ExecStutter
<1>5. ASSUME pc' = pc, ran' = ran PROVE UNCHANGED Exec!vars
  BY <1>2, <1>5, ExecStutter DEF Running
<1>6. CASE NextNode(t)
  BY <1>4, <1>5, <1>6 DEF NextNode, Goto, historyVars, ComputePC
<1>7. CASE Forward(t)
  <2>1. CASE Kind(node_n[t]) = "mul_mat"
    BY <1>4, <1>7, <2>1 DEF Forward, Goto, ComputePC
  <2>2. CASE Kind(node_n[t]) # "mul_mat"
    BY <1>2, <1>7, <2>2, RunRefines DEF Forward, Goto
  <2> QED
    BY <2>1, <2>2
<1>8. CASE MulMatChunk(t)
  <2>1. CASE nth[t] >= ChunkCount(nth[t])
    BY <1>2, <1>8, <2>1, RunRefines DEF MulMatChunk, Goto
  <2>2. CASE ~(nth[t] >= ChunkCount(nth[t]))
    BY <1>5, <1>8, <2>2 DEF MulMatChunk
  <2> QED
    BY <2>1, <2>2
<1>9. CASE MulMatDone(t)
  BY <1>2, <1>9, RunRefines DEF MulMatDone, Goto
<1>10. CASE NodeDone(t)
  BY <1>4, <1>10 DEF NodeDone, AfterNode, Goto, historyVars, ComputePC
<1>11. CASE Barrier(t)
  <2>1. pc[t] \in AtBarrier /\ ran' = ran /\ (BarrierReturn(t) \/ BarrierInside(t))
    BY <1>11 DEF Barrier, historyVars
  <2>2. CASE BarrierReturn(t)
    BY <1>4, <2>1, <2>2 DEF BarrierReturn, Return, Goto, AtBarrier, ComputePC
  <2>3. CASE BarrierInside(t)
    BY <1>5, <2>1, <2>3 DEF BarrierInside
  <2> QED
    BY <2>1, <2>2, <2>3
<1> QED
  BY <1>6, <1>7, <1>8, <1>9, <1>10, <1>11 DEF ComputeStep

(* The steps that only move a worker between two graphs, or nobody. *)
LEMMA OthersRefine ==
  ASSUME IInv, pc'[0] = pc[0], UNCHANGED <<n_graph, cgraph, ec, ran>>
  PROVE  UNCHANGED Exec!vars
BY ExecStutter DEF Running

(* Every step of the pool is one of GraphExec, or is not to be seen there. *)
LEMMA NextRefines == IInv /\ [Next]_vars => [Exec!Next]_(Exec!vars)
<1> SUFFICES ASSUME IInv, [Next]_vars PROVE [Exec!Next]_(Exec!vars)
  OBVIOUS
<1>1. TypeInv /\ 0 \in Threads /\ 0 \notin Workers /\ Workers \subseteq Threads
  BY ThreadSets DEF IInv, Workers
<1>2. \A l : pc' = [pc EXCEPT ![0] = l] => pc'[0] = l
  BY <1>1 DEF TypeInv
<1>3. ASSUME NEW g \in Graphs, NEW n \in 1 .. NThreads + 1, GraphCompute(g, n)
      PROVE  UNCHANGED Exec!vars
  <2>1. pc[0] = "idle" /\ pc'[0] = "kickoff" /\ ran' = ran
    BY <1>2, <1>3 DEF GraphCompute, Goto, historyVars
  <2>2. ~Running /\ ~Running'
    BY <2>1 DEF Running, ComputePC
  <2> QED
    BY <2>1, <2>2, ExecStutter
<1>4. CASE KickoffStore
  BY <1>4, BeginRefines DEF Exec!Next
<1>5. CASE KickoffWake
  <2>1. pc[0] = "wake" /\ pc'[0] = "node" /\ UNCHANGED <<n_graph, cgraph, ec, ran>>
    BY <1>2, <1>5 DEF KickoffWake, Goto, historyVars
  <2>2. Running /\ Running'
    BY <2>1 DEF Running, ComputePC
  <2> QED
    BY <2>1, <2>2, ExecStutter
<1>6. CASE Finish
  BY <1>6, EndRefines DEF Exec!Next
<1>7. CASE Join \/ Free
  <2>1. pc[0] \in {"idle", "join"} /\ pc'[0] \in {"join", "freed"} /\ ran' = ran
    BY <1>2, <1>7 DEF Join, Free, Goto, historyVars
  <2>2. ~Running /\ ~Running'
    BY <2>1 DEF Running, ComputePC
  <2> QED
    BY <2>1, <2>2, ExecStutter
<1>8. CASE Abort
  BY <1>8, AbortRefines DEF Exec!Next
<1>9. ASSUME NEW t \in Threads, ComputeStep(t) PROVE [Exec!Next]_(Exec!vars)
  BY <1>9, ComputeRefines
<1>10. ASSUME NEW w \in Workers, WorkerStep(w) \/ SpuriousWakeup(w)
       PROVE  UNCHANGED Exec!vars
  <2>1. UNCHANGED <<n_graph, cgraph, ec, ran>>
    BY <1>10 DEF WorkerStep, SpuriousWakeup, PauseCheck, PauseLock, PauseWake, StopCheck,
                 PollFlags, PollGraph, Take, WaitForWork, Observe, Start, poolVars, historyVars
  <2>2. \/ pc' = pc \/ \E l : pc' = [pc EXCEPT ![w] = l]
    BY <1>10 DEF WorkerStep, SpuriousWakeup, PauseCheck, PauseLock, PauseWake, StopCheck,
                 PollFlags, PollGraph, Take, WaitForWork, Observe, Start, Goto
  <2>3. pc'[0] = pc[0]
    BY <1>1, <2>2 DEF TypeInv
  <2> QED
    BY <2>1, <2>3, OthersRefine
<1>11. CASE Pause \/ Resume \/ Done \/ UNCHANGED vars
  BY <1>11, OthersRefine DEF Pause, Resume, Done, vars, poolVars, historyVars
<1> QED
  BY <1>3, <1>4, <1>5, <1>6, <1>7, <1>8, <1>9, <1>10, <1>11 DEF Next, CallerStep

(* The pool implements what GraphExec promises to ggml_graph_compute.       *)
THEOREM PoolRefinesExec == Spec => ExecSpec
<1>1. Init => Exec!Init
  BY NThreadsAssumption DEF Init, Exec!Init, Running, ComputePC, Threads
<1>2. IInv /\ [Next]_vars => [Exec!Next]_(Exec!vars)
  BY NextRefines
<1> QED
  BY <1>1, <1>2, PoolInvariant, PTL DEF Spec, ExecSpec, Exec!Spec
=============================================================================
