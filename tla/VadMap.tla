------------------------------- MODULE VadMap -------------------------------
(***************************************************************************)
(* whisper_vad of src/whisper.cpp: the speech segments are copied one      *)
(* after the other, with silence between, into the audio that is           *)
(* transcribed, and a table of points relates the times of that audio to   *)
(* times of the original one.                                              *)
(*                                                                         *)
(* The table is a set of points <<processed_time, original_time>>; sorting *)
(* and removing duplicates make no difference as long as no two points     *)
(* share their first time alone.                                           *)
(***************************************************************************)
EXTENDS VadSegments

CONSTANT samples_overlap   \* of vad_params, in samples

ASSUME OverlapAssumption == samples_overlap \in Nat

silence_samples == Ms(100)

(* The samples copied of the k-th segment: with an overlap, but for the     *)
(* last.                                                                    *)
CopyStart(segs, k, n_samples) == Min({CsToSamples(segs[k].start), n_samples - 1})
CopyEnd(segs, k, n_samples) ==
  Min({CsToSamples(segs[k].end) + (IF k < Len(segs) THEN samples_overlap ELSE 0),
       n_samples - 1})
Length(segs, k, n_samples) ==
  Max({CopyEnd(segs, k, n_samples) - CopyStart(segs, k, n_samples), 0})

(* A plausible slip: the silence between two segments is not counted.       *)
AdvanceNoSilence(segs, k, n_samples) == Length(segs, k, n_samples)

(* What the k-th segment adds to the audio: nothing when it is empty.       *)
Advance(segs, k, n_samples) ==
  LET length == Length(segs, k, n_samples)
  IN  IF length = 0 THEN 0
      ELSE length + IF k < Len(segs) THEN silence_samples ELSE 0

(* Where the k-th segment begins in the audio that is transcribed.          *)
Offset(segs, k, n_samples) ==
  FoldLeft(LAMBDA sum, j : sum + Advance(segs, j, n_samples), 0,
           [j \in 1 .. k - 1 |-> j])

(* The size of filtered_samples: all the segments, and a silence between    *)
(* any two, empty or not.                                                   *)
FilteredSamples(segs, n_samples) ==
  FoldLeft(LAMBDA sum, j : sum + CopyEnd(segs, j, n_samples) - CsToSamples(segs[j].start),
           Max({Len(segs) - 1, 0}) * silence_samples, [j \in DOMAIN segs |-> j])

PointInterval == 20
MinSegmentLength == 100

(* Points inside a segment of more than a second.                           *)
Inner(v0, v1, o0, o1) ==
  IF v1 - v0 <= MinSegmentLength THEN {}
  ELSE {<<v0 + j * PointInterval, o0 + (j * PointInterval * (o1 - o0)) \div (v1 - v0)>> :
          j \in 1 .. (v1 - v0) \div PointInterval - 1}

PointsOf(segs, k, n_samples) ==
  LET off == Offset(segs, k, n_samples)
      len == Length(segs, k, n_samples)
      v0  == SamplesToCs(off)
      v1  == SamplesToCs(off + len)
  IN  IF len = 0 THEN {}
      ELSE {<<v0, segs[k].start>>, <<v1, segs[k].end>>}
           \cup Inner(v0, v1, segs[k].start, segs[k].end)
           \cup IF k < Len(segs)
                THEN {<<SamplesToCs(off + len + silence_samples), segs[k + 1].start>>}
                ELSE {}

MappingTable(segs, n_samples) ==
  UNION {PointsOf(segs, k, n_samples) : k \in DOMAIN segs}

-----------------------------------------------------------------------------
(* map_processed_to_original_time: the ends beyond the ends of the table,   *)
(* a point where there is one, and the line between two points elsewhere.   *)
First(points) == CHOOSE a \in points : \A b \in points : a[1] <= b[1]
Latest(points) == CHOOSE a \in points : \A b \in points : b[1] <= a[1]

OriginalTime(points, t) ==
  IF \A a \in points : t <= a[1] THEN First(points)[2]
  ELSE IF \A a \in points : a[1] <= t THEN Latest(points)[2]
  ELSE LET lower == Latest({a \in points : a[1] < t})
           upper == First({a \in points : a[1] >= t})
       IN  IF upper[1] = t THEN upper[2]
           ELSE lower[2] + ((t - lower[1]) * (upper[2] - lower[2]))
                           \div (upper[1] - lower[1])
=============================================================================
