---------------------------- MODULE SpeakerTurns ----------------------------
(***************************************************************************)
(* How scripts/podcast_workflow.py turns two transcripts of one audio, the *)
(* main one and the one of the tinydiarize model, into speaker turns: the  *)
(* second says only after which segments the speaker changes; every main   *)
(* segment takes the speaker of the diarized segment it shares most time   *)
(* with.                                                                   *)
(*                                                                         *)
(* A segment is [t0, t1, text, speaker, turn_next]; a text is a value,     *)
(* NoText the empty one, and what cleaning does inside a text is left out. *)
(***************************************************************************)
EXTENDS Integers, SequencesExt

NoText == "no text"
Nobody == "nobody"

Segment == [t0 : Int, t1 : Int, text : STRING, speaker : STRING, turn_next : BOOLEAN]

(* Segments in order of time.  whisper_full promises less: none begins      *)
(* before the end of the one before, but one may end before it begins, and  *)
(* the next begin there (whisper.cpp:7618, 7638).                           *)
InOrder(segs) ==
  \A j \in DOMAIN segs, k \in DOMAIN segs :
    j <= k => segs[j].t0 <= segs[k].t0 /\ segs[j].t1 <= segs[k].t1

(* A loop over s that passes by what is not in S.                           *)
KeepIf(kept, x, S) == IF x \in S THEN Append(kept, x) ELSE kept
Among(s, S) == FoldLeft(LAMBDA kept, x : KeepIf(kept, x, S), <<>>, s)

(* The items of a whisper JSON file that say something.                     *)
ParseSegments(items) ==
  Among(items, {s \in Range(items) : s.text # NoText \/ s.turn_next})

(* The k-th segment follows as many changes as earlier segments announce.   *)
SpeakerAt(segs, k) ==
  LET changes == {j \in 1 .. k - 1 : segs[j].turn_next}
  IN  IF Cardinality(changes) % 2 = 0 THEN "Speaker A" ELSE "Speaker B"

AssignTurnSpeakers(segs) ==
  [k \in DOMAIN segs |->
     [segs[k] EXCEPT !.speaker = IF @ = Nobody THEN SpeakerAt(segs, k) ELSE @]]

OverlapMs(a, b) ==
  Max({0, Min({a.t1, b.t1}) - Max({a.t0, b.t0})})

(* Twice the distance of the centers.                                       *)
CenterDistance(a, b) ==
  LET d == (a.t0 + a.t1) - (b.t0 + b.t1)
  IN  Max({d, -d})

(* The first segment of dia that shares most time with main.                *)
BestOverlap(main, dia) ==
  Min({k \in DOMAIN dia : \A j \in DOMAIN dia :
         OverlapMs(main, dia[j]) <= OverlapMs(main, dia[k])})

Nearest(main, dia) ==
  Min({k \in DOMAIN dia : \A j \in DOMAIN dia :
         CenterDistance(main, dia[k]) <= CenterDistance(main, dia[j])})

LabelOf(main, dia) ==
  LET best == BestOverlap(main, dia)
  IN  IF OverlapMs(main, dia[best]) > 0 THEN dia[best].speaker
      ELSE dia[Nearest(main, dia)].speaker

MergeSpeakerLabels(segs, dia) ==
  IF segs = <<>> \/ dia = <<>> THEN segs
  ELSE [k \in DOMAIN segs |->
          [segs[k] EXCEPT !.speaker = LabelOf(segs[k], dia)]]

(* A profile drops the segments with a noise phrase and replaces terms; a   *)
(* term may be replaced by nothing.                                         *)
ApplyProfile(segs, profile) ==
  LET heard == Among(segs, {s \in Range(segs) : s.text \notin profile.noise})
  IN  [k \in DOMAIN heard |->
         [heard[k] EXCEPT !.text = IF @ \in profile.removed THEN NoText ELSE @]]

-----------------------------------------------------------------------------
NewTurn(s) ==
  [t0 |-> s.t0, t1 |-> s.t1, speaker |-> s.speaker,
   parts |-> IF s.text = NoText THEN <<>> ELSE <<s.text>>]

(* A plausible slip: the turn keeps the end of its first segment.           *)
ExtendedKeepsEnd(turn, s) ==
  [turn EXCEPT !.parts = IF s.text = NoText THEN @ ELSE Append(@, s.text)]

Extended(turn, s) ==
  [turn EXCEPT !.t1 = s.t1,
               !.parts = IF s.text = NoText THEN @ ELSE Append(@, s.text)]

(* The last of the turns is the code's current one.                         *)
AddToTurns(turns, s) ==
  IF turns = <<>> /\ s.text = NoText THEN turns
  ELSE IF turns # <<>> /\ Last(turns).speaker = s.speaker
       THEN [turns EXCEPT ![Len(turns)] = Extended(@, s)]
       ELSE Append(turns, NewTurn(s))

TurnsOf(segs) == FoldLeft(AddToTurns, <<>>, segs)

MergeSegmentsIntoTurns(segs) ==
  Among(TurnsOf(segs), {t \in Range(TurnsOf(segs)) : t.parts # <<>>})
=============================================================================
