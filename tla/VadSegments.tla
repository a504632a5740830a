---------------------------- MODULE VadSegments ----------------------------
(***************************************************************************)
(* whisper_vad_segments_from_probs (src/whisper.cpp): from the speech      *)
(* probability of every window of the audio to the segments that hold      *)
(* speech.  A probability matters only as speech (at the threshold or      *)
(* above), silence (below the lower threshold) or neither.                 *)
(*                                                                         *)
(* Everything is counted in samples, as in the code, until the segments    *)
(* are handed over in centiseconds.                                        *)
(***************************************************************************)
EXTENDS Integers, SequencesExt

CONSTANT n_window   \* samples of a window, given by the model

ASSUME WindowAssumption == n_window \in Nat \ {0}

Levels == {"speech", "between", "silence"}

Ms(d) == 16 * d          \* samples of d milliseconds, at WHISPER_SAMPLE_RATE
Cs == 160                \* samples of a centisecond
SamplesToCs(x) == (x + Cs \div 2) \div Cs
CsToSamples(c) == Cs * c

NProbs(n_samples) == (n_samples + n_window - 1) \div n_window

(* max_speech_duration_s: whole seconds count, less a window and the        *)
(* padding.  No seconds are no limit, like FLT_MAX.  NoLimit is INT_MAX / 2. *)
NoLimit == 2^30 - 1
MaxSpeech(p) ==
  LET limit == Ms(1000 * p.max_speech_s) - n_window - 2 * Ms(p.speech_pad)
  IN  IF limit < 0 THEN NoLimit ELSE limit

-----------------------------------------------------------------------------
(* The scan: what has been found, whether the window is in speech that      *)
(* began at start (is_speech_segment and has_curr_speech agree), where the  *)
(* silence within it began (temp_end), the last silence that it may be      *)
(* split at (prev_end) and where speech went on after it (next_start); 0    *)
(* stands for none.                                                         *)
NoScan == [speeches |-> <<>>, in_speech |-> FALSE, start |-> 0,
           temp_end |-> 0, prev_end |-> 0, next_start |-> 0]

Ended(s) == [NoScan EXCEPT !.speeches = s.speeches]

Push(s, end) ==
  [s EXCEPT !.speeches = Append(@, [start |-> s.start, end |-> end])]

(* Back to speech after some silence.                                       *)
Returned(s, at) ==
  IF s.temp_end = 0 THEN s
  ELSE [s EXCEPT !.temp_end = 0,
                 !.next_start = IF @ < s.prev_end THEN at ELSE @]

Started(s, at) == [s EXCEPT !.in_speech = TRUE, !.start = at]

(* Speech that is too long, and has been silent for a while at prev_end.    *)
Split(s) ==
  LET pushed == Push(s, s.prev_end)
  IN  IF s.next_start < s.prev_end THEN Ended(pushed)
      ELSE [Ended(pushed) EXCEPT !.in_speech = TRUE, !.start = s.next_start]

(* min_silence_samples_at_max_speech *)
SplitSilence == Ms(98)

(* Silence in speech: it ends the segment when it has lasted long enough,   *)
(* and the segment counts when it has.                                      *)
Silent(s, at, p) ==
  LET te == IF s.temp_end = 0 THEN at ELSE s.temp_end
      q  == [s EXCEPT !.temp_end = te,
                      !.prev_end = IF at - te > SplitSilence THEN te ELSE @]
  IN  IF at - te < Ms(p.min_silence) THEN q
      ELSE Ended(IF te - s.start > Ms(p.min_speech) THEN Push(s, te) ELSE s)

TooLong(s, at, p) == s.in_speech /\ at - s.start > MaxSpeech(p)

(* One window of the loop.                                                  *)
Window(s, level, at, p) ==
  LET b == IF level = "speech" THEN Returned(s, at) ELSE s
      c == IF TooLong(b, at, p) THEN Split(b) ELSE b
  IN  IF level = "speech" /\ ~b.in_speech THEN Started(b, at)
      ELSE IF TooLong(b, at, p) /\ b.prev_end = 0 THEN Ended(Push(b, at))
      ELSE IF level = "silence" /\ c.in_speech THEN Silent(c, at, p)
      ELSE c

-----------------------------------------------------------------------------
(* Speech that the audio ends in.                                           *)
WithTail(s, length, p) ==
  IF s.in_speech /\ length - s.start > Ms(p.min_speech)
  THEN Push(s, length).speeches ELSE s.speeches

MaxMergeGap == Ms(200)

(* A plausible slip: a merge keeps the end of the first.                    *)
MergeShort(merged, s) ==
  IF merged # <<>> /\ s.start - Last(merged).end < MaxMergeGap
  THEN merged ELSE Append(merged, s)

Merge(merged, s) ==
  IF merged # <<>> /\ s.start - Last(merged).end < MaxMergeGap
  THEN [merged EXCEPT ![Len(merged)].end = s.end]
  ELSE Append(merged, s)

Merged(speeches) == FoldLeft(Merge, <<>>, speeches)

KeepLong(kept, s, p) ==
  IF s.end - s.start < Ms(p.min_speech) THEN kept ELSE Append(kept, s)

LongEnough(speeches, p) ==
  FoldLeft(LAMBDA kept, s : KeepLong(kept, s, p), <<>>, speeches)

(* A plausible slip: the padding takes no notice of what comes next.        *)
PadEndBlind(sp, k, length, p) == Min({sp[k].end + Ms(p.speech_pad), length})

(* Padding: between two segments each gets its padding, or half of the gap  *)
(* when that is too small.                                                  *)
Gap(sp, k) == sp[k + 1].start - sp[k].end

PadStart(sp, k, p) ==
  IF k > 1 /\ Gap(sp, k - 1) < 2 * Ms(p.speech_pad)
  THEN Max({sp[k].start - Gap(sp, k - 1) \div 2, 0})
  ELSE Max({sp[k].start - Ms(p.speech_pad), 0})

PadEnd(sp, k, length, p) ==
  IF k < Len(sp) /\ Gap(sp, k) < 2 * Ms(p.speech_pad)
  THEN sp[k].end + Gap(sp, k) \div 2
  ELSE Min({sp[k].end + Ms(p.speech_pad), length})

Padded(sp, length, p) ==
  [k \in DOMAIN sp |-> [start |-> SamplesToCs(PadStart(sp, k, p)),
                        end   |-> SamplesToCs(PadEnd(sp, k, length, p))]]

(* From the end of the scan to the segments, in centiseconds.               *)
Segments(s, length, p) ==
  Padded(LongEnough(Merged(WithTail(s, length, p)), p), length, p)
=============================================================================
