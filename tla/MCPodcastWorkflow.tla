------------------------- MODULE MCPodcastWorkflow -------------------------
(* TLC instances of PodcastWorkflow.                                        *)
EXTENDS PodcastWorkflow

Seg(a, b, words, change) ==
  [t0 |-> a, t1 |-> b, text |-> words, speaker |-> Nobody, turn_next |-> change]

(* Three texts that follow one another, one of them after a pause.          *)
Main == <<Seg(0, 3, "one", FALSE), Seg(3, 5, "two", FALSE), Seg(7, 9, "three", FALSE)>>

(* A segment that ends before it begins, and the next begins there.         *)
Backwards == <<Seg(4, 2, "one", FALSE), Seg(2, 5, "two", FALSE), Seg(7, 9, "three", FALSE)>>

(* What tinydiarize may hear: nothing, or changes of speaker inside,        *)
(* between and after the texts, with or without words, and a tie.           *)
Heard(a, b, words) ==
  <<Seg(0, a, "x", TRUE), Seg(a, b, words, a = 1), Seg(b, 6, "y", FALSE)>>

Dropped(noise, removed) == [noise |-> noise, removed |-> removed]

ManyTranscripts ==
  {[main |-> m, dia |-> d, profile |-> p] :
     m \in {Main, Backwards},
     d \in {<<>>, Heard(1, 4, "z"), Heard(2, 3, NoText), Heard(1, 3, NoText), Heard(2, 4, "z")},
     p \in {Dropped({}, {}), Dropped({"one"}, {"two"}), Dropped({}, {"one", "three"})}}
OneTranscript == {[main |-> Main, dia |-> <<>>, profile |-> Dropped({}, {})]}

Arg(s, d, k) == [show |-> s, diarization |-> d, keep |-> k]
AllArgs == {Arg(TRUE, TRUE, TRUE), Arg(TRUE, FALSE, FALSE), Arg(FALSE, TRUE, FALSE),
            Arg(FALSE, FALSE, TRUE)}
OneArg == {Arg(TRUE, FALSE, FALSE)}
=============================================================================
