------------------------------- MODULE Stream -------------------------------
(***************************************************************************)
(* examples/stream/stream.cpp: the main loop takes audio from audio_async, *)
(* transcribes windows of it and starts a new line every few windows.      *)
(* With a step it takes the audio of every step and puts some of the       *)
(* window before in front of it; without one (use_vad) it takes the last   *)
(* length_ms whenever there has been speech.  Ctrl-C may come at any time. *)
(*                                                                         *)
(* length_ms, step_ms and keep_ms are counted in samples here.             *)
(***************************************************************************)
EXTENDS AudioAsync, SequencesExt

CONSTANTS
  Params,   \* step and keep (what is left of it: at most a step)
  Speech    \* the samples that vad_simple looks at: 2000 ms

ASSUME StreamAssumption ==
  /\ Speech \in Nat \ {0}
  /\ \A p \in Params : p.step \in 0 .. Size /\ p.keep \in 0 .. p.step

VARIABLES
  params,
  pc,            \* where main is
  ctrl_c,        \* a quit event is waiting
  is_running,
  pcmf32_new,    \* the samples taken last
  pcmf32,        \* the window
  pcmf32_old,    \* what the next window may take of it
  n_iter,        \* modulo n_new_line
  line_end       \* history: the last sample of the last line

mainVars == <<params, pc, ctrl_c, is_running, pcmf32_new, pcmf32, pcmf32_old,
              n_iter, line_end>>
vars == <<audioVars, mainVars>>
windowVars == <<pcmf32_new, pcmf32, pcmf32_old, n_iter, line_end>>

use_vad == params.step = 0
n_new_line == IF use_vad THEN 1 ELSE Max({1, Size \div params.step - 1})

(* pcmf32 and pcmf32_new hold 30 seconds of zeros at first, which an early  *)
(* Ctrl-C has transcribed.                                                  *)
Zeros == [k \in 1 .. 2 * Size |-> 0]

Init ==
  /\ AudioInit /\ params \in Params
  /\ pc = "resume" /\ ctrl_c = FALSE /\ is_running = TRUE
  /\ pcmf32_new = Zeros /\ pcmf32 = Zeros /\ pcmf32_old = <<>> /\ n_iter = 0 /\ line_end = 0

CtrlC ==
  /\ ~ctrl_c /\ is_running /\ pc # "ended" /\ ctrl_c' = TRUE
  /\ UNCHANGED <<audioVars, params, pc, is_running, windowVars>>

Goes(to) == pc' = to

Resume ==
  /\ pc = "resume"
  /\ IF device THEN SetRunning(TRUE) /\ Goes("loop") ELSE TurnDevice(TRUE) /\ Goes("resume")
  /\ UNCHANGED <<params, ctrl_c, is_running, windowVars>>

(* sdl_poll_events takes the event.                                         *)
Polled(quit, otherwise) ==
  /\ Goes(IF ctrl_c THEN quit ELSE otherwise)
  /\ is_running' = ~ctrl_c /\ ctrl_c' = FALSE
  /\ UNCHANGED <<audioVars, params, windowVars>>

LoopBegin == pc = "loop" /\ Polled("pause", IF use_vad THEN "listen" ELSE "poll")

(* A plausible slip: the loop that waits for audio looks for no events.     *)
PollNothing ==
  /\ pc = "poll" /\ Goes("get")
  /\ UNCHANGED <<audioVars, params, ctrl_c, is_running, windowVars>>

(* Ctrl-C ends the wait for audio, but what there is is transcribed.        *)
Poll == pc = "poll" /\ Polled("window", "get")

(* get(step_ms) never returns more than a step, so that the test for more   *)
(* than two of them never holds.                                            *)
GetStep ==
  /\ pc = "get" /\ Get(params.step)
  /\ Goes(IF Len(got') >= params.step THEN "clear" ELSE "poll")
  /\ pcmf32_new' = got'
  /\ UNCHANGED <<params, ctrl_c, is_running, pcmf32, pcmf32_old, n_iter, line_end>>

ClearStep ==
  /\ pc = "clear" /\ Clear /\ Goes("window")
  /\ UNCHANGED <<params, ctrl_c, is_running, windowVars>>

LastN(s, n) == SubSeq(s, Len(s) - n + 1, Len(s))

(* Up to length_ms, and keep_ms more, with what there is of the last.       *)
MakeWindow ==
  /\ pc = "window"
  /\ LET take == Min({Len(pcmf32_old), Max({0, params.keep + Size - Len(pcmf32_new)})})
     IN  pcmf32' = LastN(pcmf32_old, take) \o pcmf32_new
  /\ pcmf32_old' = pcmf32'
  /\ Goes("infer")
  /\ UNCHANGED <<audioVars, params, ctrl_c, is_running, pcmf32_new, n_iter, line_end>>

(* Too early after the last time; no speech; speech.                        *)
Listen ==
  /\ pc = "listen"
  /\ \/ Goes("loop") /\ UNCHANGED <<audioVars, pcmf32_new>>
     \/ Get(Speech) /\ pcmf32_new' = got' /\ pc' \in {"loop", "get length"}
  /\ UNCHANGED <<params, ctrl_c, is_running, pcmf32, pcmf32_old, n_iter, line_end>>

GetLength ==
  /\ pc = "get length" /\ Get(Size)
  /\ pcmf32' = got' /\ Goes("infer")
  /\ UNCHANGED <<params, ctrl_c, is_running, pcmf32_new, pcmf32_old, n_iter, line_end>>

-----------------------------------------------------------------------------
(* A plausible slip: a new line keeps what it should leave behind.          *)
KeptAll == pcmf32

(* The last keep_ms of the window.  After an early Ctrl-C it may be shorter *)
(* than that: the iterator lies before its begin then.                      *)
Kept == IF params.keep > Len(pcmf32) THEN <<>> ELSE LastN(pcmf32, params.keep)

(* whisper_full and what follows; the reading before the begin of the       *)
(* window may crash.                                                        *)
Infer ==
  /\ pc = "infer"
  /\ LET new_line == ~use_vad /\ (n_iter + 1) % n_new_line = 0
     IN  /\ n_iter' = (n_iter + 1) % n_new_line
         /\ pcmf32_old' = IF new_line THEN Kept ELSE pcmf32_old
         /\ line_end' = IF new_line /\ pcmf32 # <<>> THEN Last(pcmf32) ELSE line_end
         /\ \/ Goes(IF is_running THEN "loop" ELSE "pause")
            \/ new_line /\ params.keep > Len(pcmf32) /\ Goes("ended")
  /\ UNCHANGED <<audioVars, params, ctrl_c, is_running, pcmf32_new, pcmf32>>

(* "failed to process audio"                                                *)
InferFails ==
  /\ pc = "infer" /\ Goes("ended")
  /\ UNCHANGED <<audioVars, params, ctrl_c, is_running, windowVars>>

Pause ==
  /\ pc = "pause"
  /\ IF device THEN TurnDevice(FALSE) /\ Goes("pause") ELSE SetRunning(FALSE) /\ Goes("ended")
  /\ UNCHANGED <<params, ctrl_c, is_running, windowVars>>

Main ==
  \/ Resume \/ LoopBegin \/ Poll \/ GetStep \/ ClearStep \/ MakeWindow
  \/ Listen \/ GetLength \/ Infer \/ InferFails \/ Pause

Next ==
  \/ Main \/ CtrlC
  \/ Callback /\ UNCHANGED mainVars
  \/ pc = "ended" /\ UNCHANGED vars

Spec == Init /\ [][Next]_vars

(* The main thread runs, and whisper_full ends.  SDL owes nothing: the      *)
(* microphone may fall silent.                                              *)
FairSpec == Spec /\ WF_vars(Main)

-----------------------------------------------------------------------------
Increasing(s) == \A k \in 1 .. Len(s) - 1 : s[k] < s[k + 1]
Consecutive(s) == \A k \in 1 .. Len(s) - 1 : s[k + 1] = s[k] + 1

(* A window holds every sample once and in the order of its arrival,        *)
(* whatever arrives between get and clear and while the last one was        *)
(* transcribed; it is no longer than length_ms and keep_ms, and no shorter  *)
(* than the keep_ms that will be taken of it (the loops of main; Ctrl-C     *)
(* makes one more window, of which none of this is true).                   *)
WindowInOrder ==
  pc = "infer" /\ is_running =>
    /\ Increasing(pcmf32) /\ Len(pcmf32) \in params.keep .. Size + params.keep
    /\ use_vad => Consecutive(pcmf32)

(* A line takes no more of the line before than keep_ms ("keep part of the  *)
(* audio for next iteration", stream.cpp:411).                              *)
LinesShareKeep ==
  pc = "infer" /\ is_running /\ ~use_vad =>
    Cardinality({k \in DOMAIN pcmf32 : pcmf32[k] <= line_end})
      <= params.keep

(* Ctrl-C ends the program, whether audio comes or not.                     *)
CtrlCEnds == ctrl_c ~> pc = "ended"
=============================================================================
