# podcast-transcriber: a TLA+ model of the transcription stack

This directory holds a TLA+ model of the program in this repository: a command
line workflow that downloads a podcast episode and transcribes it
(`scripts/podcast_workflow.py`), and the whisper.cpp engine, server, streaming
front end and CPU compute back end it is built on. The modules are
model-checked with TLC on small instances; the theorems in the `*_proof`
modules are checked by TLAPS for every value of the constants.

## 1. The system and its parts

| Part | Source | State | Operations |
|---|---|---|---|
| CPU thread pool | `ggml/src/ggml-cpu/ggml-cpu.c` | `n_graph`, `n_barrier`, `n_barrier_passed`, `current_chunk`, `stop`, `pause`, `abort`, `ec`; per worker `last_graph`, `pending` | new, free, pause, resume, kickoff, compute thread, barrier, chunk claiming |
| Decoding loop | `src/whisper.cpp` `whisper_full_with_state` | `seek`, `prompt_past0/1`, decoders (sequence, `failed`, `completed`, `has_ts`, `seek_delta`), `result_all` | one window: prompt, encode, decode, sample, rank, fallback, emit segments |
| Self-attention KV cache | `src/whisper.cpp` `whisper_kv_cache_*` | cells (`pos`, `seq_id`), `head`, `n` | find_slot, cell_max, clear, seq_rm, seq_cp |
| VAD | `src/whisper.cpp` `whisper_vad*` | `segments`, `has_vad_segments`, `vad_mapping_table` | segments from probabilities, sample filtering, time mapping |
| Parallel transcription | `src/whisper.cpp` `whisper_full_parallel` | one state per processor, the merged `result_all` | split, run, merge, clamp |
| HTTP server | `examples/server/server.cpp` | `params`, `default_params`, `whisper_mutex`, `state`, `ctx` | /inference, /load, /health, error and exception handlers |
| Microphone buffer | `examples/common-sdl.cpp` | ring buffer (`m_audio`, `m_audio_pos`, `m_audio_len`), `m_running` | callback, get, clear, pause, resume |
| Streaming client | `examples/stream/stream.cpp` | `pcmf32_new`, `pcmf32`, `pcmf32_old`, `n_iter`, `is_running` | step loop, VAD loop, new line, Ctrl-C |
| Command line transcriber | `examples/cli/cli.cpp` | one output file per format | read audio, transcribe, write JSON, exit codes |
| Podcast workflow | `scripts/podcast_workflow.py` | the files of the run directory, the temporary download, the page as inspected | inspect, choose episode, make directory, download, transcode, transcribe, diarize, format, write transcript and manifest |

How they interact. The workflow runs `yt-dlp`, `ffmpeg` and `whisper-cli` as
child processes and reads the JSON file whisper-cli leaves behind.
whisper-cli, the server and the streaming client call `whisper_full`, which
runs the decoding loop on a `whisper_state`; the loop uses the KV cache, the
VAD time map and, for every encode and decode, a ggml graph, which the thread
pool computes with one barrier between nodes. The server shares one context
between HTTP threads under a mutex; the microphone buffer is shared between
the SDL audio thread and the main loop under a mutex.

### What is hard in it

- **Interleaving.** The threads of a graph share a handful of atomics and spin
  on them; a fast thread is one barrier ahead of a slow one, a worker may be
  asleep, polling, or stopped half-way when the next graph, a pause or the end
  of the pool arrives. The server's handlers share one context, one
  `whisper_params` and one state, and `/health` reads without the lock.
- **Stale state.** A `whisper_state` outlives a call: the static prompt, the
  size of the KV cache, the VAD time map and `best_decoder_id` (from one
  temperature to the next) come from earlier. The server's `params` outlive a
  request.
- **Partial failure.** Every window has nine return codes between its
  assignments; a decoder can fail alone; a handler can return early or throw
  at any field; `/load` can end the process.
- **Retries and stops.** Every command of the workflow may fail half-way and is
  tried again on what it left; the run may be interrupted or killed between any
  two writes; the page it reads may change; whisper-cli exits with 0 without
  output in four places.
- **Order.** Parallel chunks end in any order and their times are moved,
  clamped and then mapped through the VAD table; SDL's thread delivers samples
  between the `get` and the `clear` of the main loop.
- **Limits.** The text context bounds prompt and token loop together; the KV
  cache is sized once and fragmented by beam search; the thread pool of the
  server is finite.
- **Progress.** The main loop moves `seek` by what it decoded, so it must
  decode something; condition variables must not lose a wakeup; a lock must
  not survive an exception.

### What makes each part correct

| Part | Correct when |
|---|---|
| Barrier | nobody leaves a round before all have entered it; everybody leaves it |
| Thread pool | nodes are computed in order by all threads of the graph; an abort stops them at the same node; each MUL_MAT chunk is computed once; parameters are rewritten only when no worker reads them; compute and free return |
| Decoding loop | positions fit the context; the prompt keeps its budget; segments are in order; `seek` advances; the call returns |
| KV cache | a token attends to its own decoder's history and nothing else; a slot is found when there is one, and for the decoders in use there always is |
| Server | an answer holds the request's own results and parameters; nobody uses a freed context; every request a thread takes is answered; a signal stops the server |
| VAD and time map | segments of speech lie apart and inside the audio; speech that is long enough is kept; the map never decreases and takes a moment of speech back to itself |
| Parallel transcription | no segment of any chunk is reported to end after the next starts; they start in order |
| Microphone buffer | it remembers the most recent samples in order, whatever the callback does meanwhile |
| Streaming client | a window holds samples once and in order; a line takes no more than `keep_ms` of the line before; Ctrl-C ends the program |
| Podcast workflow | success means complete artifacts of the chosen episode; a manifest means that what it names is whole and made from one audio; a finished run is left alone; turns say what was said under the right speaker; every run ends |

The hazards, each at its line, are listed in `PROJECT.json` with the
properties that cover them, or the reason why none does yet.

## 2. Plan

Done, in this order:

1. `GgmlBarrier`, closed by `BarrierRounds`, with the promise `AbstractBarrier`
   and the proofs `BarrierRounds_proof`.
2. `ThreadPool` (composes `GgmlBarrier`) with the promise `GraphExec` and the
   proofs `ThreadPool_proof`.
3. `WhisperFull`, the main loop, with the proofs `WhisperFull_proof`.
4. `KVSlots` and `KVCache` (uses `KVSlots`): the cache that loop relies on, with
   the proofs `KVCache_proof`.
5. `Server`, with the proofs `Server_proof`.
6. `VadSegments`, `VadMap` and, composing them, `ParallelFull`; the proofs
   `ParallelFull_proof`.
7. `AudioAsync` with the promise `RecentAudio`, and `Stream`, which composes
   `AudioAsync` with the main loop; the proofs of both in `Stream_proof`.
8. `WhisperCli` and `SpeakerTurns`, and `PodcastWorkflow`, which uses both; the
   proofs `PodcastWorkflow_proof`.

Next:

9. `GraphAlloc`: reuse of tensor memory inside a graph; no live tensor is
    overwritten.

## 3. Modules and code

`GgmlBarrier` — `ggml_barrier`. One action per atomic operation: `BarrierCall`
(load of `n_barrier_passed`), `BarrierEnter` (fetch-add), `BarrierReset` and
`BarrierRelease` (the last thread), `BarrierLeave` (the spin loop reads a new
value), `BarrierSkip` (one thread). `bpc` is the place inside the function. It
has no specification of its own; `BarrierRounds` closes it with threads that
call it repeatedly, `ThreadPool` calls it between nodes. `AbstractBarrier` says
what is promised with no counter: leave your k-th call when all have entered
theirs.

`ThreadPool` — `ggml_graph_compute`, the kick-off, the workers' loop, the
compute loop, pause, resume, free. Variables carry the names of the fields of
`ggml_threadpool` and `ggml_compute_state`; `n_graph` is the pair the code packs
into one int. A critical section of the mutex is one action except the
kick-off, whose store of `n_graph` polling workers see before the mutex is
released (`KickoffStore`, `KickoffWake`). Outside the mutex a polling worker
reads `stop` and `pause` in one step (`PollFlags`) and `n_graph` in a later one
(`PollGraph`), so it may start a graph while `pause` is still, or again, set.
These, `WaitForWork`, `PauseCheck`, `PauseLock`, `PauseWake`, `StopCheck` and
`Start` are the steps of `ggml_graph_compute_secondary_thread`; `NextNode`, `Forward`, `MulMatChunk`,
`MulMatDone`, `NodeDone`, `Barrier` those of `ggml_graph_compute_thread` and of
the MUL_MAT it calls. `SpuriousWakeup` is what condition variables may do.
`Pause`/`Resume` belong to another thread, which resumes what it paused. `ran`
and `hits` are history. `GraphExec` is the promise to the caller.

`WhisperFull` — `whisper_full_with_state`. One action per stage of a window:
`Encode`, `DecodePrompt`, `Sample`, `DecodeTokens`, `Rank`, `Fallback`,
`Output`, and one per return code (`CallFails`, `EncodeFails`, `CacheFails`, the
failing disjuncts of `DecodePrompt` and `DecodeTokens`). `Sample` is a whole
sampling round including `Update`, the code's update of a decoder after its new
token. Numbers of the model are choices: which allowed token, which candidate a
beam takes, which ranking, whether a log-probability is low. The filters of
`whisper_process_logits` are kept (`Allowed`), as ordering depends on them. A
prompt is its length, split as the code splits it. Sizes are constants in the
code's proportions.

`KVSlots` — `whisper_kv_cache_find_slot` as a recursive function of the place
reached and the number of cells tested, and what it should compute
(`SearchExact`).
`KVCache` — the cache as `whisper_full_with_state` uses it: `DecodePrompt`
(resize, clear, decode, share), `Sample` (beam relabelling through the second
set of sequence ids), `DecodeTokens`, `DetectLanguage`, `EndWindow`. The loops
over the decoders that pass by those completed or failed are `ForEachLive`:
`Marked` and `Moved` are the two loops of the relabelling, `LiveBatch` the one
that fills the batch. A cell remembers which token was decoded into it, so that "attends to its own history"
can be stated; `n` is the range the graph reads.

`Server` — a request goes through the program counter `pc[r]`; handlers of
`/inference` and `/load` hold `whisper_mutex` from their first action
(`InferenceBegin`, `LoadBegin`) to `Finish`. `GetReqParameters` assigns the
fields in the code's order and may throw between them. What a model that is not
multilingual overrides is `ForModel`, what `detect_language` does after it to
the language, whoever has set it, `Override`. `/load` is four steps, the state
set to loading (`LoadBegin`), the context freed (`LoadFree`), initialized
(`LoadInit`), and the state set to ready (`LoadReady`), so that `/health` may
read the state between any two. `Reply` is httplib's error handler after the
lock is gone. `params[f]` records who set the field, `results` whose segments
the context holds. `AfterSuccess` says whose they are after
`whisper_full_parallel`: with several processors, and with VAD on audio without
speech, still those of the call before. httplib itself (`Arrive`, `Accept`,
`Disconnect`) is modelled from how the server uses it.

`VadSegments` — `whisper_vad_segments_from_probs` as functions: `Window` is one
turn of the loop over the probabilities on a record of its variables, with
`Returned`, `Started`, `Split` and `Silent` for the branches; `WithTail`,
`Merged`, `LongEnough` and `Padded` follow it in the code's order. All is in
samples until `SamplesToCs`, as in the code. A probability is one of three
levels, which is all the code tells apart. `VadMap` — `whisper_vad`: which
samples are copied (`CopyStart`, `CopyEnd`), where they land (`Offset`), the
points of the table (`PointsOf`), and `map_processed_to_original_time`
(`OriginalTime`). `ParallelFull` — one call of `whisper_full_parallel`:
`ScanWindow` for every window, `EndOfScan`, `VadFails`, `ChunkEnds` for a
worker, `Combine` after the join, and what a caller reads (`Reported`). The
arithmetic is that of ints: a product that overflows wraps around (`Wrapped`),
a quotient is rounded to zero (`Quot`). `offset_ms` may be anything, with and
without VAD, also more than the audio lasts. What a chunk is transcribed to is
one of a few lists in which no segment begins before the end of the one before;
one ends behind its chunk, one has a segment that ends before it begins.

`AudioAsync` — `audio_async`: the callback reads `m_running` before it takes
the mutex (`CallbackBegin`, `CallbackWrite`), `Get` and `Clear` are one step
each, `resume` and `pause` two (`TurnDevice`, `SetRunning`). Samples are
numbers in the order of the microphone. `RecentAudio` is its promise, with no
ring. `Stream` — `main` of `stream.cpp` on `AudioAsync`: `pc` is the place in
the loop, lengths are samples, `line_end` is history. Ctrl-C sets `ctrl_c`,
which `sdl_poll_events` takes at `LoopBegin` and `Poll`.

`PodcastWorkflow` — `execute_workflow`: `pc[r]` is the stage of a run, `Retry`
is `run_cmd` after a failure, `Ends` its ways to end. A file holds the number
of the episode it was made from, or that it is cut or partly written. `Publish`
and `Withdraw` change the page, `Kill` and `Interrupt` stop a run anywhere,
`Tick` moves the clock the directory names come from. `WhisperCli` is the child
process the two whisper stages wait for, with every exit it has. `SpeakerTurns`
holds the functions from two transcripts to the turns of the Markdown file;
`Format` applies them. Once they have no further use, `info`, `temp`, `source`
and `made` are emptied, which keeps states that differ in them alone from being
counted twice.

Definitions whose comment begins with "A plausible slip" are the mutated forms
used to see that each property can fail; no specification uses them.

## 4. Runs

| Run | Instance | Shows |
|---|---|---|
| `barrier` | 3 threads, 3 rounds | barrier safety, the refinement, every round ends |
| `pool` | 2 threads, 2 graphs of up to 3 nodes, some of them MUL_MATs of 8 chunks, 1 pause | node order, agreement on abort, quiescence when parameters are rewritten, chunks computed once, refinement of `GraphExec`, compute and free return |
| `full_decoders` | 2 decoders, greedy with fallback and beam search, 2 windows of 4 frames | segments in order, no going back in time |
| `full_calls` | 1 decoder, 2 calls, all option sets, windows of 6 frames | positions, prompt budget, progress, termination |
| `full_dtw` | DTW timestamps | violated: see section 7 |
| `kv_cache` | 3 decoders, context of 14, prompts of 1 and 11 tokens | own history, slot always found, search finds a slot exactly when there is one |
| `server` | 2 requests, 2 pool threads, 2 processors, audio with and without speech, all failures, fairness | own results unless there is no speech, own parameters unless a request failed, context in use, ready means loaded, every request answered, a signal stops the server |
| `server_stored` | as `server` | violated: see section 7 |
| `vad` | 10 windows of any level, with and without a limit on speech; 1 to 3 chunks, offsets of 0, 105, 305 and 400 ms, 12 s that overflow an int of 24 bits | segments apart, speech kept, faithful map, reported in order |
| `stream` | ring of 5 samples, 9 samples, callbacks of 1, 2 and 6, steps of 2 and 1 and none | windows in order, lines share `keep_ms`, refinement of `RecentAudio`, Ctrl-C ends |
| `workflow` | 1 run, 2 attempts, pages of 1 to 3 episodes with and without dates, 30 triples of two transcripts and a profile | success is complete, chosen episode, manifest means complete, faithful turns, the run ends |
| `workflow_pair` | 2 runs, 2 seconds | finished runs are kept |

**Bounds and why they are enough.** Three threads are the least with two
waiters, which the reuse of a barrier needs; three rounds
let a thread be a round ahead twice. In `pool` a second thread is enough for one
to be a barrier ahead, asleep or still polling while the other goes on; more
threads with all graphs and liveness are beyond what TLC finishes in minutes, and
the theorems of section 6 have the safety properties for any number. Two graphs
in a row are what a stale
worker needs, one pause what every pause/resume/stop race needs; a graph may ask
for more threads than there are. Eight chunks for two threads are the code's
threshold (four per thread) at which chunks are claimed dynamically. `NTextCtx` 12 and 14 leave two and
three rounds of the token loop; a window of 6 frames has timestamps 0 to 3, so
that decreasing, equal, paired and single endings occur, and audio of 8 frames
makes a second, short window. `EntropyLen = 1` lets the repetition failure
happen on two tokens. `TokenBeg = 1000` only has to be far above every
timestamp. Prompts of 1 and 9 lie below and above the budget of 6. The KV
instance has three decoders because two histories must be able to swap while a
third ends; prompts of 1 and 11 tokens are the shortest and the longest
(`NTextCtx/2 + 4`). Two requests on a pool of two meet in every pair of places;
the proofs of section 6 cover any number, and three are beyond what TLC
finishes in minutes. In `vad` a window is 2592 samples instead of 512, so that
ten of them hold more than a second: enough for a silence that ends a segment,
one that only marks a place to split, a merge, a drop and a padding that is
halved; 5 windows with two chunks compose the map with the offsets of chunks.
An offset of 105 ms is no whole centisecond, one of 305 ms may lie behind the
speech that VAD has left, one of 400 ms lies behind the audio of 200 ms. TLC's
own ints have 32 bits, so those of the model have 24 (`IntMax`), which 12 s
overflow as 22 minutes do in the program; `MaxSamples`, half of `IntMax`, keeps
sums of samples inside. The ring of 5 samples wraps
after two callbacks and a callback of 6 is larger than it; 9 samples fill it
and wrap it again after a clear; steps of 2 give one window per line and steps
of 1 four, so that the old window is cut as well as kept. Two attempts are one
retry, a page grows and shrinks by an episode, and two runs in two seconds are
what a shared directory needs. `MaxRounds`, `MaxGraphs`, `MaxPauses`,
`MaxCalls`, `MaxSamples`, `MaxEpisodes` and `MaxTime` are the only bounds on
counters.

Deadlock is checked everywhere except in `barrier`, where the threads really
stop after `MaxRounds`. Where a program ends (`freed`, `exited`, no more calls)
a `Done` step marks it, so any other stop would be reported.

## 5. Fairness

- Barrier and pool: each thread that can take a step eventually takes one. The
  operating system runs the threads; a spinning thread re-reads its atomic.
  `Resume` is weakly fair: the interface expects a caller that pauses to
  resume. Starting graphs, pausing, aborting and freeing are not fair.
- `WhisperFull`: `WF_vars(Step)`; one thread runs the loop and does not stop
  between statements. New calls are not fair.
- Stream: the main thread runs and `whisper_full` ends (`WF_vars(Main)`). SDL
  owes nothing, so that Ctrl-C must end a program that hears nothing.
- Workflow: the commands and the user's choice take time but end
  (`WF_vars(Step(r))`). The page, the clock, interruption and kill are not
  fair.
- Server: the handler of each request runs and the pool takes what is queued;
  nobody has to send a request or a signal. Waiting for the mutex is a disabled
  action, and as finitely many requests are made, weak fairness is enough.

## 6. Proofs

### The barrier

`BarrierRounds_proof` assumes `N` at least 2 (with one thread the code returns
at once) and `MaxRounds` a natural number, nothing else. It proves:

- `BarrierInvariant`: `Spec => []IInv`
- `BarrierTypeCorrect`: `Spec => []TypeOK`, with `n_barrier <= N`
- `BarrierSafety`: `Spec => []BarrierSafe`
- `BarrierRefines`: `Spec => AbstractSpec`

`BarrierSafe` (`left[t] <= entered[u]`) is not inductive: it does not say why a
thread that reads `n_barrier_passed` may go. `IInv` adds for each thread where
its counts stand relative to `n_barrier_passed` = P: outside it has entered and
left P calls; a waiting thread waits for P or has already been released from
P - 1; when the last thread has arrived, all have entered P + 1 and everybody
else waits. `CountInv` says `n_barrier` is the number of threads that have
entered round P + 1, until the last one zeroes it. The step that matters is
`BarrierEnter`: finding N - 1 means that N - 1 threads are in the round, so with
this one all of them are (`ThreadSubsets`: a set of threads with N members is
all of them). `Release` then moves P, and what was "waiting for P" becomes
"released". There is one lemma per action, `NextIInv` combines them,
`IInvSafe` gives the safety property, and `StepRefines` maps `Enter` to the
abstract `Enter`, `Release` and `Leave` to the abstract `Leave`, and the other
steps to stuttering.

### The thread pool

`ThreadPool_proof` assumes what `ThreadPool` does: a pool has a thread, graphs are
sequences of nodes, a MUL_MAT has a chunk. The number of threads, the graphs,
chunks and bounds are arbitrary. It proves:

- `PoolInvariant`: `Spec => []IInv`
- `ComputesInOrder`: `Spec => []NodeOrder`
- `AbortsTogether`: `Spec => []AbortAgreement`
- `NobodyReads`: `Spec => []Quiescent`
- `EachChunkOnce`: `Spec => []ChunksOnce`
- `PoolRefinesExec`: `Spec => ExecSpec`

None of the properties says where the other threads are, so none is inductive.
The difficulty is that a thread which has been released from a barrier but
still spins lags behind the others by any number of steps, so that "all threads
are near the same node" is false of `pc` and `node_n`. `At`, `Node` and `Chunk`
are where such a thread would be had it already returned; with them the spin
loop's end (`BarrierLeave`) changes nothing, and the step of the last thread
(`BarrierRelease`, or `BarrierSkip` with one thread) moves all threads at once.
`IInv` has five parts:

- `TypeInv`, types, and that no chunk has been computed twice.
- `BarrierInv`, the counters: `n_barrier` is the number of threads that have
  entered the present round, the last one finds all others waiting, and nobody
  is behind by more than the round it still spins in.
- `WorkerInv`, who takes part: between graphs every worker is idle and has seen
  the last graph if it was used in it, a worker beyond `n_graph.nth` stays idle,
  and whoever computes agrees on the number of threads.
- `SegmentInv`, the heart: while a graph is computed, all threads are in one
  segment, the code between two barriers. It begins at a node `k`, or inside
  MUL_MAT `k` after its own barrier. `Place` lists where a thread may be in it
  and says that it has computed exactly the nodes before that place; `AbortInv`
  that an abort is set at the end of the segment, so that nobody can see it in
  this one; `ChunkInv` and `HitsInv` say which chunks have been claimed, by whom,
  and that `hits` is 1 on those claimed and finished and 0 elsewhere.
- `FinishInv`, what holds when all threads have passed the final barrier.

One lemma per action keeps `IInv` (`NextNodeStep`, `ForwardStep`, ...); the last
thread of a barrier is `AdvanceMulMat`, `AdvanceNode` or `AdvanceFinal`, which
use `Together`: threads that all wait in one segment wait at the same barrier of
the same node, as a segment has only one. `KickoffStoreStep` is where the
invariant shows that a worker still released from the last barrier of the graph
before, or asleep, or polling, cannot be mistaken for one that has begun the new
one. In the refinement `KickoffStore` is `Begin`, a thread that finishes a node
is `Run`, `Abort` is `AbortGraph`, `Finish` is `End`, and everything else, every
step of the barrier among them, stutters. TLC finds no violation of `IInv` on
instances with two and three threads.

### The decoding loop

`WhisperFull_proof` assumes what `WhisperFull` does. `SizesAssumption`: the text
context holds at least 10 tokens, a window at least two frames (one timestamp),
there is a decoder. `ParamsAssumption`: the parameters of a call have the shape
of `IsParams`. The model's sizes, the sets of parameters and the number of calls
on one state are arbitrary. It proves:

- `LoopInvariant`: `Spec => []IInv`
- `PositionsSafety`: `Spec => []PositionsFit`
- `NoWayBackInTime`: `Spec => []NeverBackInTime`
- `SeekProgress`: `Spec => SeekAdvances`
- `BudgetSafety`: `SameBudget => (Spec => []PromptBudget)`
- `SegmentOrder`: `Spec => []SegmentsOrdered`

What has to be added to types is a short list, each item the reason for one of
the properties. A decoder's `seek_delta` is at least 2 (`DecoderOK`), since every
place that sets it has seen a positive timestamp or takes the whole window: this
is why `seek` moves. While a decoder goes on, its `seek_delta` is the last
timestamp it has accepted, an even number; `Allowed` permits no timestamp
before it, and this survives beam search, where a decoder takes over the tokens
and the `seek_delta` of another one in the same step. A window is begun only
when more than `DeltaMin` frames are left (`WindowInv`). The prompt takes at most
half of the context and the four tokens of `prompt_init` (`PromptInv`), and fewer
rounds than `NMax` have been made (`RoundInv`): together they bound every
position, whichever of the two prompts of the past has been taken.

`BudgetSafety` has a hypothesis. `SameBudget` says that all calls on the state
have one `n_max_text_ctx`, which is not 1 where the initial prompt is carried.
Without it the property is false of the code, not only of the proof: see
section 7. Under it `BudgetInv` adds that what `prompt_past0` holds leaves room
for one token in the budget of any call (`StaticInv`), and that the prompt of
the present window was cut by this budget (`KeptBudget`).

`SegmentOrder` says that no segment begins before the end of the one before. It
does not say that a segment ends after it begins: the first of a window begins
at `seek + 2*tid` of its first token, a guess when that token is text
(`whisper.cpp:7618`), and may be closed by a smaller timestamp. It needs three
more facts about times (`OrderInv`). `TimesInv`: the
timestamps of a decoder never go back and none is later than its `seek_delta`;
one without `has_ts` has none above 0. `TidInv`: the tokens of this window,
those of the winner of an earlier temperature included, have no `tid` before the
first timestamp. `EndInv`: what has been put out ends before `seek`, unless the
window was the last one (a single-timestamp ending takes all the audio that is
left). The rest is about the fold that cuts the tokens of a window into segments:
`SegmentsOfOK` shows by induction on the tokens that each segment ends where
the next may begin. The library's induction theorems take an operator; the
induction here is over a set of numbers, of which the least counterexample is
taken (`Smallest`, from `WFMin`), and `FoldExists` shows first that the fold's
recursive function exists at all.

### The KV cache

`KVCache_proof` assumes what `KVCache` does: there is a decoder, and a prompt
has a token and at most half of the context and four. The size of the context,
the number of decoders and the lengths of prompts are arbitrary. It proves:

- `CacheInvariant`: `Spec => []KVInv`
- `OwnHistory`: `Spec => []AttendsOwnHistory`
- `SlotSearch`: `Spec => []SlotFoundIffFree`
- `AlwaysFound`: `Spec => []SlotAlwaysFound`

`AttendsOwnHistory` speaks of the batch just decoded. `KVInv` says what the
cells hold in between: `Holds(cells, j, h, m)` says that the cells labelled
`j` are the first `m` tokens of the history `h`, each at its position and in one
cell only. Every live decoder's cells hold its sequence, without the last
token from `Sample` until that token is decoded (`HistoryInv`), and a cell is
free exactly when it has no label (`Tidy`). What is put into a slot therefore
overwrites no history (`FilledFacts`, `GrownFacts`). A batch adds to each
sequence its own token (`TokenAdded`), or the prompt to sequence 0 and its
heirs (`PromptHeld`), and what the mask of the graph lets a token see is the
beginning of the history its sequence holds (`AttendsPrefix`), no cell of which
lies behind the `n` cells the graph reads (`CellMaxFacts`, `WidthFacts`).

Beam search is `MovedFacts`: after both loops decoder `j` labels exactly the cells
its parent labelled before them. `MarkedTo` says what the first loop has done
when it comes to a decoder: it has only added labels beyond
`WHISPER_MAX_DECODERS`, which nobody reads. `TakenTo` says it of the second: the
decoders before `k` have their parents' cells, those from `k` on still have
their own and the mark. That is why the code marks everything first:
`MovedInPlace`, which does not, breaks the property in TLC. Each loop is a
recursive function, and `IterationExists` and `StepsExist` show that it exists.

`SearchIsExact` is about `whisper_kv_cache_find_slot` for any cache, head and number of
tokens. That the recursion is well founded is `RemainingFalls`: a jump to the
start of the cache is followed by a test, and every other step raises
`n_tested`. `Covered` is the loop invariant: the starts between `head` and the
present place have been excluded, `n_tested` being their number, or those from
`head` to the end and from 0 on; a step behind an occupied cell excludes all the
starts it passes by (`NoSlotBefore`), so nothing is left once `n_tested` has
reached the size.

`AlwaysFound` is why "overallocate to workaround KV cache fragmentation issues"
(`whisper.cpp:7140`) is enough. The number of cells in use does not bound how they
are spread, so `SpreadInv` says that: the prompt lies in the first cells of the
cache, since the cache is cleared before it (`SlotInEmpty`), and behind it all
cells in use lie in blocks of `n_dec` cells, at most one for each step of the window
(`SpreadOver`). Beam search and ended decoders only free cells. Cut behind the
prompt into windows of `n_dec` cells, the cache is hit by a block in at most two
windows, in one if there is one decoder (`OneWindow`), so by the pigeonhole principle
one window of `2 * i + 1` is free at step `i` (`FreeWindow`); and that many lie in a cache
of `n_text_ctx * (n_dec + 2)` cells (`WindowsLieIn`), because a window has fewer than
half of the context as steps.

### The server

`Server_proof` assumes what `Server` does: that inputs
have the shape of `IsInput`, that there is a model, and that `None`, requests,
models, statuses and the two names `"default"` and `"model"` are told apart. The
sets of requests, inputs and models, the failures, the size of the pool,
`n_processors` and `ffmpeg_converter` are arbitrary. It proves:

- `ServerTypeCorrect`: `Spec => []TypeOK`
- `MutualExclusion`: two handlers are never both between taking and releasing
  `whisper_mutex`
- `ResultsSafety`: `Spec => []ResultsAreOwn`
- `ContextSafety`: `Spec => []ContextInUse`
- `ReadySafety`: `Spec => []ReadyMeansLoaded`
- `ParamsSafety`: `Spec => []OnlyFailuresLeak`

The inductive invariant `IInv` of `Server_proof` is made of types and four parts.
`MutexInv`: a handler is at one of `Holding` exactly when it owns the mutex, so
that every step of a handler leaves the conjuncts about other handlers alone.
`ContextInv`: without a context some `/load` is between its free and its
initialization, or the server has stopped and no handler is left; and from its
check to the last store a `/load` has the state say that it is loading.
`PendingInv`: a handler that has not returned has nothing in its response.
`ResultsInv`: the segments the context holds are of a handler that is about to
answer or of one that has returned; what a handler finds there when it answers
is its own, or it is `Stale`: there are several processors, the request's audio
has no speech, and the other request has ended.

`OnlyFailuresLeak` adds `LeakInv`: whoever has set a parameter owns the mutex
now or has ended without a transcription (`SetterInv`), and the handler's own
fields stay its own until it answers, but for what the model and
`detect_language` replace (`OwnFieldsInv`). A language that `detect_language`
replaces has the same setter as `detect_language`, and this setter is the
handler or has failed. When a handler answers, every setter other than itself is
therefore one that failed, and the reset leaves no setter at all.

### The segments of speech

`ParallelFull_proof` assumes of a call what `CallAssumption` says: there is a
processor, neither the offset, the padding nor the least duration is negative,
and the audio has a sample and no more than `MaxSamples` (in the program, 18
hours). It proves every invariant of `ParallelFull`. The first is
`SpeechSegments`: `n_window >= Cs => (Spec => []SegmentsApart)`, for every
sequence of probabilities, every length of the audio and all thresholds and
durations of `vad_params`, the limit on the length of speech included. The
hypothesis says that a window is not shorter than a centisecond (the model's
window has 512 samples, a centisecond 160): a shorter segment could be rounded
to an empty one.

`SegmentsApart` speaks of the result; the invariant `SpeechApart` of the scan that
leads to it. `ScanOK` says that when the scan comes to a window, the segments
found so far are `Apart`, at least a window long and end before the speech it is
in, which began a window ago or more, and that each silence it remembers
(`temp_end`, `prev_end`) began a window after that speech or later. `WindowOK`
is the step; a branch of the loop may act on speech that went on at this very
window (`next_start` is then the present sample), so that within a step only
the weaker `MidOK` holds. It is enough because a window on which speech goes on
ends none. Merging and the removal of short segments are folds, and what they
keep (`MergedTo`, `KeptTo`) is shown along the steps of the loop. For the padding,
`PadApart`: two segments whose gap is less than both paddings get half of it
each, rounded down, and others keep their distance; `Rounded` carries this
over to centiseconds.

`NoSpeechLost`: `LimitsAgree => (Spec => []SpeechKept)`. `LimitsAgree` says that
the least duration of speech is not more than the longest. It is needed: with a
least duration of 500 ms, padding of 200 ms and a limit of a second, TLC finds
pieces cut at the limit that are dropped for being too short
(`whisper.cpp:5348`). The invariant `SpeechTold` follows each window with speech
to its fate: it lies in a segment that is kept (`Covered`), in the speech that
still goes on, or behind a split by less than the least duration (`AfterCut`), or
all the speech around it is too short (`Short`). Merging and dropping keep what is
`Covered`, and padding only adds to it.

`TimesMapBack`: `SpeechOutlastsWindow => (Spec => []MapFaithful)`. The least
duration has to be a window and one and a half centiseconds or more: 752 samples
in the program, where 250 ms are 4000. With less the property fails, as TLC shows
for 100 ms and a window of 2592 samples: the last window may lie mostly behind
the end of the audio, and what is left of a segment begins and ends at one
processed time, with two points for it. The proof draws the table: the
segments become lines that lie one behind the other (`LaidOut`), every point of the
table is on one of them, and each line has its ends (`Drawn`); a time between
two neighbouring points is then as near to its line as they are
(`BetweenNear`, `MappedNear`). The scan gives what this needs (`Fits`), by
`SpeechApart` and the least duration.

`ReportsInOrder`: `SpeechOutlastsWindow /\ OutcomesInARow => (Spec =>
[]ReportedInOrder)`, with VAD and without, for any number of processors, any
offset, and whichever thread fails. `OutcomesInARow` is what a thread promises of
its chunk: no segment begins before the one before it ends (`SegmentsOrdered`
of `WhisperFull`, which `SegmentOrder` proves). It allows a segment that ends
before it begins. The first half of `ReportedInOrder` then holds whatever else
happens: no segment as reported ends after the next starts, but for its least
duration. The clamp of `t0` gives it, in the audio that was transcribed, even
where the times of a chunk have overflowed (`AppendedInARow` and
`BroughtInARow` follow the two folds of `Combine`), and that the map never goes
back takes it to the caller's audio (`RowReported`). The second half, that the
segments start in order, needs more: the times fit into an int and the offset
lies in the audio (`TimesFit`), and no segment of a chunk ends before it begins
or behind the chunk (`WithinChunks`). These are conditions on a state, stated in
the property, so that TLC and the theorem say what holds in every call. Under
them the computed times are the true ones (`StartIsTrue`, `Divided`), and what
has been brought together ends before any segment of the next chunk does
(`AppendedTidy`, `BroughtTidy`). `WithinChunks` excludes empty segments where
`offset_ms` is no whole number of centiseconds: the times are moved by
`offset_ms` in whole centiseconds and the chunks are cut in samples, so that with
105 ms the first chunk of a second of audio may end at 55 and the second begin
at 54, and an empty segment there makes the next one start before it (TLC shows
it for two processors).

### The ring and the streaming client

The first part of `Stream_proof` assumes only that the ring has a cell and that
callbacks deliver something. It proves `RingWellFormed`: `AudioSpec => []RingOK`,
and `RingRefines`: `AudioSpec => RecentSpec`. The refinement mapping `Recent` reads
`m_audio_len` cells round the ring from `m_audio_len` behind the position. The
work is in `CallbackWrite`: a cell of the new memory lies either among the
samples just written (`Behind(c) < Len(arriving)`) or in the old memory at an
index moved by as many; the lemmas on `Wrapped` and `Behind` say that going
round the ring once in either direction comes back to the same cell.
The second part shows that every step of `Stream` is one of `AudioNext` or leaves
the ring alone, and concludes `StreamRemembers`: `Spec => RecentSpec` for every
length, step and keep. It has `m_running` and the other fields from `RingOK`.

It then follows the samples to the window, for every ring, every step and keep
with `keep <= step <= Size` (what `main` makes of the options) and any sequence
of callbacks, however large:

- `StreamInvariant`: `Spec => []StreamInv`
- `WindowsInOrder`: `Spec => []WindowInOrder`
- `LinesKeep`: `Spec => []LinesShareKeep`

`WindowInOrder` speaks of one place in the loop; the invariant follows the
samples there. `HearInv`: the callback runs from `resume` to the end, so that the
ring holds consecutive samples which end just before those arriving (`EndsAt`);
only a callback that fills the whole ring may come after a gap. `Taken` is what
is older than every sample arriving, `Past` what is older than the ring as well.
`get` gives samples that are `Taken` but still in the ring; `clear` makes them
`Past` (`ClearOrder`), and whatever arrives between the two is newer than both
(`PastStep`). Hence the samples of the next `get` are newer than all of the old
window (`NewOK`), so that a new window, which is the end of the old one before
the new samples, is increasing (`WindowOrder`). `OldOK` says for the lines that
all of `pcmf32_old` but its first `keep` samples is newer than the end of the
last line, which `InferOrder` sets up where a line ends and `WindowOrder` keeps,
since a window takes from the end of the old one. Without steps, `LengthOrder`
has the window from `EndsAt` alone.

### The podcast workflow

`PodcastWorkflow_proof` proves, for any sets of runs, command lines,
transcripts, any number of attempts, episodes and seconds:

- `SuccessComplete`: `Spec => []SuccessIsComplete`
- `ManifestComplete`: `Spec => []ManifestMeansComplete`
- `FinishedKept`: `Spec => FinishedRunsKept`
- `EpisodeChosen`: `Spec => []ChosenEpisode`
- `TurnsAreFaithful`: `Spec => []TurnsFaithful`

`FlowInv` has four parts. `PageOK`: episodes are positive numbers, so that no
content is taken for a file that is missing or partly written. `Domains`: the
functions of the runs have the runs as their domain, and directories the
artifacts. `OwnDirs`: a run past `make directory` has a directory, and no two
runs have the same, which is what `mkdir(exist_ok=False)` gives; so a step of
one run leaves the files of all others alone. `StagesOK` says for every stage
what is in the directory then: for instance that from `format` on
`audio.mp3` is whole and both JSON files are made from it, and that nothing
later exists. Success follows from the last stage. For the manifest the invariant
holds the property itself, as it speaks also of runs that were stopped: a step
that writes it finds everything it names in the directory, and no step of the
run writes anything after it. The kept directory follows from `OwnDirs` and from
there being no step of a run that has ended.

For `EpisodeChosen`, `EpisodeInv` follows the chosen episode through the run: up
to the download the index is that of the episode in the page as inspected; at
the transcoding the download is that episode, and from then on `audio.mp3` is,
if the page at the download was the one inspected (`steady`). The step that
matters is `DownloadEpisode`: a truncated file of an earlier attempt is taken only
when the index is no longer listed, and then the page has changed. That the
transcript is made from `audio.mp3` is `StagesOK`.

`TurnsAreFaithful` is about the functions of `SpeakerTurns`, for transcripts of
any length and any profile. `TranscriptAssumption` says one thing of them: the
main one names no speakers, for `build_whisper_cmd` does not pass `-di`. Nothing
is assumed of the times, as `whisper_full` gives segments none of which begins
before the end of the one before but some of which may end before they begin.
That the texts are said once and in order, each under the right speaker, needs
no more. That the times of a turn enclose its texts does: `TurnsFaithful` says it of
main transcripts in order of time (`InOrder`). `Aligned(turns, cut,
said, W)` says that the turns say the first `W` of the segments `said`, `cut[j]`
of them in the first `j` turns. `TurnStep` keeps it for one round of the loop of
`merge_segments_into_turns`, in its three cases (an empty segment before the
first turn, one more for the current speaker, another speaker). For the times it
carries along that the last turn ends no later than the next segment (`Late`),
which is where the order of the segments comes in. `SpokenAligned` drops the
turns without a text, and `CutsOnly` shows that the number of parts before a
turn, which the property counts, is its cut. `LabelBest` says that a label belongs to a diarized segment
with the greatest overlap, also where `min` by distance chooses it, since all
overlaps are 0 then; profiles change neither times nor speakers (`Profiled`).

### Only model-checked

All liveness (it needs ENABLED). Every other property of a run is also stated by a
theorem, for all values of the constants that its hypotheses admit. Where they
leave some out, the text above says which and why.

## 7. Where the code and its text disagree

Two disagreements have a run whose counterexample shows them:

- **`full_dtw`.** With DTW timestamps, `new_segment_callback` runs in a loop
  whose bounds compare an index into all segments with the number of new ones
  (`whisper.cpp:7730`), so segments are not announced, although the header says
  that it is called on every new segment.
- **`server_stored`.** With `n_processors > 1` and VAD, `whisper_full_parallel`
  returns 0 when there is no speech without clearing the segments of the call
  before (`whisper.cpp:7797`), and the server answers the request with them,
  although the header says that the result is stored in the context's state.
  `ResultsAreOwn` says what is left: that segments answered are the request's own
  unless this happened.

In three more the model does what the code does, and a property says what is
left:

- `prompt_past0` is cut to the budget of the call that stored
  it and kept on the state. If a later call carries the prompt with a smaller
  `n_max_text_ctx`, `n_take1` (`whisper.cpp:7119`), which is to "Fill remaining
  budget with dynamic tokens", is negative, and `prompt_past1.end() - n_take1`
  lies behind the end. What the insertion then does is undefined; the model
  keeps the negative number, and what other properties say of the steps after it
  is no claim about the program. The proof of `PromptBudget` found a second way,
  in one call: with `n_max_text_ctx` of 1 and a carried prompt, `max_tokens` is
  not 0 but 1 (`whisper.cpp:6940`), so one token is stored, and as one is added
  for `token_prev`, `n_take1` is -1. `PromptBudget` holds for calls with one
  `n_max_text_ctx` (`SameBudget`), which is what the run has.
- `params` of the server is reset only at the end of a successful inference
  (`server.cpp:1121`; line 793 says "after each inference request"); an early
  return or an exception leaves its parameters to the next request, and a
  `detect_language` left behind replaces the language the next request gives
  (`server.cpp:884`). `OnlyFailuresLeak` says that nothing else leaks, and
  nothing from a request that was answered with its transcript.
- `100 * ((i + 1) * n_samples_per_processor)` (`whisper.cpp:7859`), which is to
  "correct the segment timestamp taking into account the offset", is an int, and
  overflows for a chunk that begins some 22 minutes into the audio or later: the
  times of its segments are wrong. The model wraps it around, as common builds do;
  the language leaves it undefined. `ReportedInOrder` says that segments still do
  not overlap, and that they start in order where the times fit.

The following behaviours are in the model or were met while writing it and are
worth knowing. No run states a property about them, since what the code should do
instead is not written down precisely enough:

- `best_decoder_id` is not reset between temperatures: when every decoder of a
  fallback has failed, the test for success and the output read the decoder
  that won at an earlier temperature.
- With `no_timestamps` and greedy sampling `tid` stays 0, and the start of a
  window's segment lies about `2 * token_beg` frames before the audio.
- A refused `/load` (no model field, missing file) has already stored
  `SERVER_STATE_LOADING_MODEL` and does not restore it: `/health` reports
  loading although the old model is there.
- The error handler replaces every status of 400 or more but 400 and 500 by
  404, so the 499 of an aborted inference and the 503 of `/health` never reach
  a client. Waiting inferences hold threads of httplib's pool, and `/health`
  waits for a free one. `/load` keeps the DTW heads preset of the first model.
- The VAD map of a call stays on the state: a later call without VAD has its
  times mapped through it (`whisper.cpp:6633`, `7969`). The model has one call.
- `whisper_full_parallel` loses the return codes of its workers. A chunk whose
  last segment ends behind it gives segments that end before they begin and
  start out of order once `t0` is clamped (`whisper.cpp:7864`);
  `ReportedInOrder` says that they are in order for chunks that do not. With
  several processors and an `offset_ms` behind the end of the audio, or of the
  speech that VAD has left of it, `n_samples_per_processor` is negative and the first
  chunk is read beyond the end of the samples; the model lets it be transcribed
  to anything.
- The first segment of a window begins at the guess of its first token
  (`whisper.cpp:7618`), and may end before it begins. The workflow's turns then
  still say every text once and under its speaker, but their times may not
  enclose those of their texts.
- A segment of speech that is split for being too long is joined again when the
  silence at the split is under 200 ms, and the rest after a split is dropped
  when it is short. The least duration of a mapped segment is 10 centiseconds,
  though its comment says 10 ms.
- In `stream.cpp` the test for more than two steps of audio never holds, as
  `get(step_ms)` gives one step at most: audio that is lost while a window is
  transcribed is not reported. Samples that arrive between `get` and `clear`
  are lost as well. After Ctrl-C one more window is made from the samples taken
  last, or from 30 seconds of zeros; when it is shorter than `keep_ms` the
  iterator of line 412 lies before its begin (`Infer` may end the program
  there).
- The playlist index found at inspection is used again at the download
  (`podcast_workflow.py:727`): if the page has changed in between, another
  episode is transcribed under the chosen title. A download whose attempt
  failed may leave a truncated file, which is taken when the index no longer
  exists. A JSON file that is cut ends the run with a traceback instead of an
  error message, as does a directory that exists.

## 8. Not modelled

- Weak memory ordering: atomics are sequentially consistent here. The barrier's
  two read-modify-writes are `seq_cst` in the code and its relaxed accesses lie
  between them; the claim that this suffices is not checked.
- The OpenMP build, whose barrier is the compiler's; the wrap of the graph
  count after 2^16 graphs; MUL_MAT_ID and FLASH_ATTN_EXT, which claim chunks
  the way MUL_MAT does.
- In the decoding loop: token-level timestamps and the wrapping by `max_len`,
  `print_special`, grammars, the test mode for models without tensors, the DTW
  pass's own use of the cache, the public `whisper_decode` with `n_past > 0`.
- In `whisper_full_parallel`: the timings, and a state that cannot be created.
  In `stream.cpp`: `--save-audio`, the prompt carried to the next line, the
  text printed. In `audio_async`: `init`. In the workflow: the checks of
  `preflight` one by one, which profile matches, wrapping and cleaning inside a
  text, the assessment of the diarization. In `cli.cpp`: options, formats other
  than JSON, several files.
- In the workflow, some outcomes that change no property: `mkdir` fails only
  because the directory exists; a child process ends with the run that is killed
  (one that survives a SIGKILL would go on writing into the directory of a run
  that has ended without success, where no manifest is written any more); a JSON
  file that is completely written parses.
- `ChosenEpisode` says nothing of runs in which the page changed between
  inspection and download (`steady`); there another episode may be transcribed
  under the chosen title (section 7), and it is that, not this property, which a
  user should know of.
- The parts listed as not modelled in `PROJECT.json`: the backend scheduler and
  graph allocator (planned), and grammars, numeric kernels, model files, GPU back ends, vendored libraries,
  bindings and off-line scripts, which have no protocol of their own.
