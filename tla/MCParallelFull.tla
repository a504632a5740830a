--------------------------- MODULE MCParallelFull ---------------------------
(* TLC instance of ParallelFull.  A window has 2592 samples instead of 512, *)
(* so that a second of audio is a few windows, and an int has 24 bits, as   *)
(* TLC's own have 32.                                                       *)
EXTENDS ParallelFull

Call(vad, p, n, off, speech, pad, limit) ==
  [vad |-> vad, n_processors |-> p, n_samples |-> n, offset_ms |-> off,
   min_speech |-> speech, min_silence |-> 300, speech_pad |-> pad, max_speech_s |-> limit]

(* Long audio for the scan and the map; short audio, of which the last      *)
(* window is not full, with several chunks, also with an offset that some   *)
(* of its speech does not reach; chunks without VAD, with an offset that is *)
(* no whole number of centiseconds and one behind the end of the audio; 12 s *)
Calls ==
  {Call(TRUE, 1, 10 * 2592, 0, 250, 30, 0), Call(TRUE, 1, 10 * 2592 - 999, 0, 250, 200, 1)}
  \cup {Call(TRUE, 2, 5 * 2592 - 999, off, 100, 30, 0) : off \in {0, 305}}
  \cup {Call(FALSE, p, 16000, off, 250, 30, 0) : p \in 1 .. 3, off \in {0, 105}}
  \cup {Call(FALSE, 2, 3200, 400, 250, 30, 0), Call(FALSE, 3, 12 * 16000, 0, 250, 30, 0)}

(* Nothing, which is all that less than 100 ms gives                        *)
(* (whisper_full_with_state), segments that end with the audio, a segment   *)
(* that goes on after it, and one that ends before it begins: the time a    *)
(* window starts at is the guess of its first token.                        *)
Transcriptions(n) ==
  LET e == n \div 160
  IN  IF n < 1600 THEN {<<>>} ELSE
      {<<>>, <<[t0 |-> 0, t1 |-> e]>>,
       <<[t0 |-> 0, t1 |-> 2], [t0 |-> 2, t1 |-> e \div 2], [t0 |-> e \div 2, t1 |-> e]>>,
       <<[t0 |-> e \div 2, t1 |-> e + 40]>>,
       <<[t0 |-> 8, t1 |-> 2], [t0 |-> 4, t1 |-> e]>>}

=============================================================================
