----------------------------- MODULE AudioAsync -----------------------------
(***************************************************************************)
(* audio_async of examples/common-sdl.cpp: SDL's thread delivers samples   *)
(* into a ring, and the main loop of an application takes the last ones    *)
(* out of it or clears it.  The parts under the mutex are one step each;   *)
(* the callback looks at m_running before it has the mutex.                *)
(*                                                                         *)
(* Samples are numbered as the microphone produces them.                   *)
(***************************************************************************)
EXTENDS Integers, Sequences

CONSTANTS
  Size,        \* m_audio.size()
  MaxSamples,  \* bound: the samples the microphone produces
  ChunkSizes   \* the samples of one callback

ASSUME AudioAssumption ==
  /\ Size \in Nat \ {0} /\ MaxSamples \in Nat /\ ChunkSizes \subseteq Nat \ {0}

VARIABLES
  produced,      \* the last sample of the microphone
  device,        \* whether SDL_PauseAudioDevice has let the device run
  m_running,
  m_audio,
  m_audio_pos,
  m_audio_len,
  arriving,      \* the samples of the callback in progress
  got            \* the result of the last get

ring == <<m_audio, m_audio_pos, m_audio_len>>
audioVars == <<produced, device, m_running, ring, arriving, got>>

Least(a, b) == IF a < b THEN a ELSE b
Cells == 0 .. Size - 1

AudioInit ==
  /\ produced = 0 /\ device = FALSE /\ m_running = FALSE
  /\ m_audio = [c \in Cells |-> 0] /\ m_audio_pos = 0 /\ m_audio_len = 0
  /\ arriving = <<>> /\ got = <<>>

-----------------------------------------------------------------------------
(* SDL calls back: samples that come before m_running is set are dropped,   *)
(* and of more than the ring holds all but the last.                        *)
Delivered(n) ==
  LET m == Least(n, Size) IN [k \in 1 .. m |-> produced + n - m + k]

CallbackBegin(n) ==
  /\ device /\ arriving = <<>>
  /\ produced + n <= MaxSamples /\ produced' = produced + n
  /\ arriving' = IF m_running THEN Delivered(n) ELSE <<>>
  /\ UNCHANGED <<device, m_running, ring, got>>

Wrapped(p) == IF p >= Size THEN p - Size ELSE p

(* How far behind the position a cell lies, round the ring.                 *)
Behind(c) == IF c >= m_audio_pos THEN c - m_audio_pos ELSE c - m_audio_pos + Size

(* A plausible slip: the samples behind the end of the ring are lost.       *)
WrittenNoWrap ==
  [c \in Cells |-> IF c >= m_audio_pos /\ Behind(c) < Len(arriving)
                   THEN arriving[Behind(c) + 1] ELSE m_audio[c]]

(* One or two memcpy's.                                                     *)
Written ==
  [c \in Cells |-> IF Behind(c) < Len(arriving)
                   THEN arriving[Behind(c) + 1] ELSE m_audio[c]]

(* The position is less than 2 * Size, and is taken modulo Size.            *)
CallbackWrite ==
  /\ arriving # <<>>
  /\ m_audio' = Written
  /\ m_audio_pos' = Wrapped(m_audio_pos + Len(arriving))
  /\ m_audio_len' = Least(m_audio_len + Len(arriving), Size)
  /\ arriving' = <<>>
  /\ UNCHANGED <<produced, device, m_running, got>>

-----------------------------------------------------------------------------
(* The last n samples, or as many as there are; no n stands for all.        *)
Cell(n, k) ==
  LET s0 == IF m_audio_pos - n < 0 THEN m_audio_pos - n + Size ELSE m_audio_pos - n
  IN  Wrapped(s0 + k - 1)

Result(n) ==
  LET m == Least(IF n <= 0 THEN Size ELSE n, m_audio_len)
  IN  [k \in 1 .. m |-> m_audio[Cell(m, k)]]

Get(n) ==
  /\ m_running /\ got' = Result(n)
  /\ UNCHANGED <<produced, device, m_running, ring, arriving>>

Clear ==
  /\ m_running /\ m_audio_pos' = 0 /\ m_audio_len' = 0
  /\ UNCHANGED <<produced, device, m_running, m_audio, arriving, got>>

(* resume and pause are two steps each: the device, and then m_running.     *)
TurnDevice(on) ==
  /\ device # on /\ device' = on
  /\ UNCHANGED <<produced, m_running, ring, arriving, got>>

SetRunning(on) ==
  /\ device = on /\ m_running # on /\ m_running' = on
  /\ UNCHANGED <<produced, device, ring, arriving, got>>

Callback == CallbackWrite \/ \E n \in ChunkSizes : CallbackBegin(n)

(* With any user.                                                           *)
AudioNext ==
  \/ Callback \/ Clear
  \/ \E n \in Nat : Get(n)
  \/ \E on \in BOOLEAN : TurnDevice(on) \/ SetRunning(on)

AudioSpec == AudioInit /\ [][AudioNext]_audioVars

-----------------------------------------------------------------------------
(* The ring implements RecentAudio: wherever it wraps, whatever is written  *)
(* between a get and a clear, and however large a callback is, get returns  *)
(* the most recent samples and no older ones among them.                    *)
Recent == [k \in 1 .. m_audio_len |-> m_audio[Cell(m_audio_len, k)]]
Memory == INSTANCE RecentAudio WITH recent <- Recent
RecentSpec == Memory!Spec

RingOK ==
  /\ produced \in Nat /\ device \in BOOLEAN /\ m_running \in BOOLEAN
  /\ m_audio \in [Cells -> Nat]
  /\ m_audio_pos \in Cells /\ m_audio_len \in 0 .. Size
  /\ arriving \in Seq(Nat) /\ Len(arriving) <= Size
=============================================================================
