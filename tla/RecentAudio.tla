---------------------------- MODULE RecentAudio ----------------------------
(***************************************************************************)
(* What audio_async promises its users: it remembers the most recent       *)
(* samples, Size of them at most, in the order in which they arrived, and  *)
(* gives the last of them to whoever asks.                                 *)
(***************************************************************************)
EXTENDS Integers, Sequences

CONSTANT Size

VARIABLES
  recent,     \* what it remembers
  arriving,   \* the samples of a callback that are not in it yet
  got         \* the last answer

recentVars == <<recent, arriving, got>>

Least(a, b) == IF a < b THEN a ELSE b
LastOf(s, n) == SubSeq(s, Len(s) - Least(n, Len(s)) + 1, Len(s))

Init == recent = <<>> /\ arriving = <<>> /\ got = <<>>

Arrive == arriving = <<>> /\ arriving' # <<>> /\ UNCHANGED <<recent, got>>

Remember ==
  /\ recent' = LastOf(recent \o arriving, Size)
  /\ arriving' = <<>> /\ UNCHANGED got

Forget == recent' = <<>> /\ UNCHANGED <<arriving, got>>

Answer ==
  /\ \E n \in 0 .. Size : got' = LastOf(recent, n)
  /\ UNCHANGED <<recent, arriving>>

Next == Arrive \/ Remember \/ Forget \/ Answer

Spec == Init /\ [][Next]_recentVars
=============================================================================
