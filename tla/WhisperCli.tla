----------------------------- MODULE WhisperCli -----------------------------
(***************************************************************************)
(* whisper-cli (examples/cli/cli.cpp) as the workflow sees it: a process   *)
(* of a run that transcribes one audio file, leaves a JSON file behind and *)
(* exits.  It exits with 0 in more cases than success: when it refuses the *)
(* language, cannot read the audio, cannot open the output or cannot write *)
(* all of it.                                                              *)
(***************************************************************************)
EXTENDS Integers

CONSTANT Runs

VARIABLES
  cli,    \* where the whisper-cli process of a run is
  disk    \* the run directories: what each of their files holds

cliVars == <<cli, disk>>

Artifacts == {"audio.mp3", "01_transcript.json", "01_diarization_tdrz.json",
              "01_transcript.md", "run_manifest.json"}

(* A file holds what has been made of an episode (its number), what has     *)
(* been made of a truncated download, or a part of what should be written.  *)
NoFile == 0
Partial == -1
Cut == -2

CliStates == {"none", "running", "writing", "closing", "exit 0", "exit error"}

Goes(r, s) == cli' = [cli EXCEPT ![r] = s]

Start(r) == cli[r] = "none" /\ Goes(r, "running") /\ UNCHANGED disk

(* An unknown language (exit(0)) and an unreadable audio file (continue)    *)
(* leave no output, nor does an output that cannot be opened.               *)
Refuse(r) == cli[r] = "running" /\ Goes(r, "closing") /\ UNCHANGED disk

(* std::ofstream truncates the file.                                        *)
OpenOutput(r, d, f) ==
  /\ cli[r] = "running"
  /\ Goes(r, "writing")
  /\ disk' = [disk EXCEPT ![d][f] = Partial]

(* Nothing asks fout whether all could be written.                          *)
OutputJson(r, d, f) ==
  /\ cli[r] = "writing"
  /\ Goes(r, "closing")
  /\ disk' \in {disk, [disk EXCEPT ![d][f] = disk[d]["audio.mp3"]]}

Exit(r) == cli[r] = "closing" /\ Goes(r, "exit 0") /\ UNCHANGED disk

(* A bad option, a model that cannot be loaded, a failed inference, or a    *)
(* crash anywhere.                                                          *)
Fail(r) ==
  /\ cli[r] \in {"running", "writing", "closing"}
  /\ Goes(r, "exit error")
  /\ UNCHANGED disk

Cli(r, d, f) ==
  \/ Refuse(r) \/ OpenOutput(r, d, f) \/ OutputJson(r, d, f)
  \/ Exit(r) \/ Fail(r)

Exited(r) == cli[r] \in {"exit 0", "exit error"}
=============================================================================
