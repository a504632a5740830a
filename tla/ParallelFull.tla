---------------------------- MODULE ParallelFull ----------------------------
(***************************************************************************)
(* A call of whisper_full_parallel (or of whisper_full, which it calls for *)
(* one processor) on a context: the audio is reduced to its speech, split  *)
(* into chunks, each chunk is transcribed by a thread on a state of its    *)
(* own, the first by the caller on the context's state, and the segments   *)
(* are brought together.  The times a caller reads are then mapped back to *)
(* the audio it gave.                                                      *)
(*                                                                         *)
(* The probabilities come from a network and may be anything; so may the   *)
(* segments of a chunk.  An int that overflows wraps around, as the build  *)
(* has it, and audio that is read beyond its end is transcribed to         *)
(* anything, too.                                                          *)
(***************************************************************************)
EXTENDS VadMap

CONSTANTS
  CallParams,    \* vad, n_processors, n_samples, offset_ms and the vad_params
  Outcomes(_),   \* the segments that n samples may be transcribed to
  IntMax         \* of an int: 2^31 - 1 in the build

ASSUME IntAssumption == IntMax \in Nat

MaxSamples == IntMax \div 2   \* bound: sums of samples fit into an int

ASSUME CallAssumption ==
  \A p \in CallParams :
    /\ p.vad \in BOOLEAN /\ p.n_processors \in Nat \ {0} /\ p.offset_ms \in Nat
    /\ p.vad => /\ p.speech_pad \in Nat
                /\ p.min_speech \in Nat /\ p.max_speech_s \in Int
    /\ p.n_samples \in 1 .. MaxSamples

VARIABLES
  params,     \* the call
  stage,      \* scan, work, combine or done
  i,          \* the window the scan is at
  scan,       \* the scan
  heard,      \* history: the windows with speech
  cuts,       \* history: the windows at which too long speech was ended
  segments,   \* what the scan found, in centiseconds
  table,      \* vad_mapping_table of the context's state, if has_vad_segments
  n_samples,  \* of the audio that is transcribed
  chunk,      \* the results of every chunk, once its thread has ended
  result_all, \* of the context's state
  ret         \* the return code

scanVars == <<i, scan, heard, cuts, segments, table, n_samples>>
vars == <<params, stage, scanVars, chunk, result_all, ret>>

Running == [ended |-> FALSE, ret |-> 0, result_all |-> <<>>]
Old == <<[t0 |-> 0, t1 |-> 1]>>   \* what an earlier call has left

Chunks == 0 .. params.n_processors - 1

Init ==
  /\ params \in CallParams
  /\ stage = IF params.vad THEN "scan" ELSE "work"
  /\ i = 0 /\ scan = NoScan /\ heard = {} /\ cuts = {} /\ segments = <<>>
  /\ table = {} /\ n_samples = params.n_samples
  /\ chunk = [c \in Chunks |-> Running]
  /\ result_all = Old /\ ret = 0

-----------------------------------------------------------------------------
(* whisper_vad.                                                             *)
ScanWindow ==
  /\ stage = "scan" /\ i < NProbs(params.n_samples)
  /\ \E level \in Levels :
       /\ scan' = Window(scan, level, i * n_window, params)
       /\ heard' = IF level = "speech" THEN heard \cup {i} ELSE heard
       /\ cuts' = IF scan.in_speech /\ Len(scan'.speeches) > Len(scan.speeches)
                     /\ TooLong(scan, i * n_window, params)
                  THEN cuts \cup {i} ELSE cuts
  /\ i' = i + 1
  /\ UNCHANGED <<params, stage, segments, table, n_samples, chunk, result_all, ret>>

(* Without speech the call succeeds: whisper_full clears the results, and   *)
(* whisper_full_parallel leaves those of the last call.                     *)
EndOfScan ==
  /\ stage = "scan" /\ i = NProbs(params.n_samples)
  /\ segments' = Segments(scan, i * n_window, params)
  /\ IF segments' = <<>>
     THEN /\ stage' = "done"
          /\ result_all' = IF params.n_processors = 1 THEN <<>> ELSE result_all
          /\ UNCHANGED <<table, n_samples>>
     ELSE /\ stage' = "work"
          /\ table' = MappingTable(segments', params.n_samples)
          /\ n_samples' = FilteredSamples(segments', params.n_samples)
          /\ UNCHANGED result_all
  /\ UNCHANGED <<params, i, scan, heard, cuts, chunk, ret>>

(* The model of the detector cannot be loaded, or its graph cannot be       *)
(* allocated; the table is gone.                                            *)
VadFails ==
  /\ stage = "scan" /\ i = 0
  /\ stage' = "done" /\ ret' = -1
  /\ UNCHANGED <<params, scanVars, chunk, result_all>>

-----------------------------------------------------------------------------
(* The product of two ints, and their quotient, which C rounds to zero.     *)
Wrapped(x) == ((x + IntMax + 1) % (2 * (IntMax + 1))) - (IntMax + 1)
Quot(a, b) == IF a >= 0 THEN a \div b ELSE -((-a) \div b)

offset_samples == Quot(Wrapped(16000 * params.offset_ms), 1000)
n_samples_per_processor == Quot(n_samples - offset_samples, params.n_processors)

(* The last chunk has what the division leaves.                             *)
ChunkSamples(c) ==
  IF c = 0 THEN offset_samples + n_samples_per_processor
  ELSE IF c = params.n_processors - 1
       THEN n_samples - offset_samples - c * n_samples_per_processor
       ELSE n_samples_per_processor

(* whisper_full_with_state on a chunk: what it has found before an error    *)
(* stays in its results.                                                    *)
ChunkEnds(c) ==
  /\ stage = "work" /\ ~chunk[c].ended
  /\ \E segs \in Outcomes(ChunkSamples(c)), rc \in {0, -6} :
       chunk' = [chunk EXCEPT ![c] = [ended |-> TRUE, ret |-> rc, result_all |-> segs]]
  /\ stage' = IF \A d \in Chunks \ {c} : chunk[d].ended THEN "combine" ELSE stage
  /\ UNCHANGED <<params, scanVars, result_all, ret>>

(* A plausible slip: a chunk's times are not moved by offset_ms.            *)
ChunkStartNoOffset(c) == Quot(Wrapped(100 * (c * n_samples_per_processor)), 16000)

(* Where the times of a chunk begin, for all but the first.                 *)
ChunkStart(c) ==
  Quot(Wrapped(100 * (c * n_samples_per_processor)), 16000) + params.offset_ms \div 10

(* A segment of another state: moved to where its chunk begins, and not to  *)
(* begin before the last one ends.                                          *)
Moved(all, s, c) ==
  LET t0 == s.t0 + ChunkStart(c)
  IN  [t0 |-> IF all = <<>> THEN t0 ELSE Max({t0, Last(all).t1}),
       t1 |-> s.t1 + ChunkStart(c)]

Appended(all, c) ==
  FoldLeft(LAMBDA acc, s : Append(acc, Moved(acc, s, c)), all, chunk[c].result_all)

(* All threads have been joined; only the first return code counts.         *)
Combine ==
  /\ stage = "combine"
  /\ result_all' = FoldLeft(Appended, chunk[0].result_all,
                            [c \in 1 .. params.n_processors - 1 |-> c])
  /\ ret' = chunk[0].ret
  /\ stage' = "done"
  /\ UNCHANGED <<params, scanVars, chunk>>

Done == stage = "done" /\ UNCHANGED vars

Next ==
  \/ ScanWindow \/ EndOfScan \/ VadFails
  \/ \E c \in Chunks : ChunkEnds(c)
  \/ Combine \/ Done

Spec == Init /\ [][Next]_vars

-----------------------------------------------------------------------------
(* What a caller reads: whisper_full_get_segment_t0 and _t1.  The least     *)
(* duration is 10 centiseconds.                                             *)
Reported(s) ==
  IF table = {} THEN s
  ELSE LET t0 == OriginalTime(table, s.t0)
       IN  [t0 |-> t0, t1 |-> Max({OriginalTime(table, s.t1), t0 + 10})]

Starts(k) == segments[k].start
Ends(k) == segments[k].end

(* The segments of speech follow one another, none is empty and all lie     *)
(* within the windows of the audio, however speech, silence, splits, merges *)
(* and padding fall (whisper_vad_segments_from_probs).                      *)
SegmentsApart ==
  \A k \in DOMAIN segments :
    /\ 0 <= Starts(k) /\ Starts(k) < Ends(k)
    /\ Ends(k) <= SamplesToCs(i * n_window)
    /\ k < Len(segments) => Ends(k) <= Starts(k + 1)

(* Speech that lasts longer than min_speech_duration_ms is kept, all of it; *)
(* when it has been split for being too long, all but what is left of it    *)
(* when that is too short, and the window of the split (min_speech_samples  *)
(* in whisper_vad_segments_from_probs).                                     *)
Kept(w) ==
  \E k \in DOMAIN segments : /\ CsToSamples(Starts(k)) <= w * n_window + Cs
                             /\ (w + 1) * n_window <= CsToSamples(Ends(k)) + Cs

SpeechKept ==
  stage # "scan" =>
    \A a \in heard, b \in heard :
      /\ a .. b \subseteq heard
      /\ (b - a + 1) * n_window > Ms(params.min_speech)
      => \A w \in a .. b :
           \/ Kept(w)
           \/ \E c \in cuts : c <= w /\ (w - c) * n_window <= Ms(params.min_speech)

(* The mapping table is a function of the processed time that never         *)
(* decreases, whatever order std::sort gives to equal times, and a moment   *)
(* of speech is mapped back to itself, but for the overlap on one side and, *)
(* on the other, the part of the last window that the audio may not fill    *)
(* ("needed for binary search and interpolation later", whisper_vad).       *)
MapFaithful ==
  stage = "work" /\ table # {} =>
    /\ \A a \in table, b \in table : a[1] <= b[1] => a[2] <= b[2] \/ a[1] = b[1]
    /\ \A a \in table, b \in table : a[1] = b[1] => a = b
    /\ \A k \in DOMAIN segments : \A t \in Starts(k) .. Ends(k) - 1 :
         LET v == SamplesToCs(Offset(segments, k, params.n_samples)) + t - Starts(k)
             o == OriginalTime(table, v)
         IN  CsToSamples(t) < params.n_samples =>
               o \in t - (samples_overlap \div Cs + 1) ..
                      t + (n_window + 3 * (Cs \div 2)) \div Cs

(* No segment as reported ends after the next starts, but for its least     *)
(* duration, whatever the threads have found, however long the audio and    *)
(* wherever its offset ("make sure that segments are not overlapping",      *)
(* whisper_full_parallel; "to ensure monotonicity", whisper_vad).  They     *)
(* start in order when the segments of every chunk lie within it, none ends *)
(* before it begins, and the times fit into an int.  With an offset that is *)
(* no whole number of centiseconds none may be empty, as the first chunk    *)
(* may end one after the second begins.                                     *)
TimesFit ==
  /\ 16000 * params.offset_ms <= IntMax /\ 100 * n_samples <= IntMax
  /\ offset_samples <= n_samples

WithinChunks ==
  \A c \in Chunks : \A k \in DOMAIN chunk[c].result_all :
    LET s == chunk[c].result_all[k]
    IN  /\ 0 <= s.t0 /\ s.t0 <= s.t1 /\ CsToSamples(s.t1) <= ChunkSamples(c)
        /\ params.offset_ms % 10 # 0 => s.t0 < s.t1

ReportedInOrder ==
  stage = "done" =>
    \A k \in 1 .. Len(result_all) - 1 :
      LET a == Reported(result_all[k])
          b == Reported(result_all[k + 1])
      IN  /\ a.t1 <= Max({b.t0, a.t0 + 10})
          /\ TimesFit /\ WithinChunks => a.t0 <= b.t0
=============================================================================
