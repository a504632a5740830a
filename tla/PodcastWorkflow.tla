-------------------------- MODULE PodcastWorkflow --------------------------
(***************************************************************************)
(* execute_workflow of scripts/podcast_workflow.py: a run inspects the     *)
(* page, lets an episode be chosen, makes its directory, downloads,        *)
(* transcodes, transcribes, diarizes and writes the transcript, and leaves *)
(* each artifact in the directory as soon as it has it.  Every command may *)
(* fail and be tried again; a run may be interrupted (Ctrl-C, which its    *)
(* children get as well) or killed anywhere.  Several runs share the clock *)
(* that names their directories and the page, which may change.            *)
(***************************************************************************)
EXTENDS WhisperCli, SpeakerTurns

CONSTANTS
  MaxAttempts,   \* --retries + 1
  Shown,         \* the episodes offered for choice: 10
  MaxEpisodes,   \* bound: the episodes the page ever lists
  MaxTime,       \* bound: the seconds that pass
  Args,          \* the command lines: page, diarization, keep_json_artifacts
  Transcripts,   \* what the two models may hear, and a profile
  Mistimed       \* whether a page without dates is among those inspected

ASSUME WorkflowAssumption ==
  /\ MaxAttempts \in Nat \ {0} /\ Shown \in Nat \ {0}
  /\ MaxEpisodes \in Nat /\ MaxTime \in Nat /\ Mistimed \in BOOLEAN

(* whisper-cli names no speaker unless it is asked to (-di), which          *)
(* build_whisper_cmd does not.  Nothing is said of the times.               *)
ASSUME TranscriptAssumption ==
  \A t \in Transcripts :
    /\ t.main \in Seq(Segment) /\ t.dia \in Seq(Segment)
    /\ \A k \in DOMAIN t.main : t.main[k].speaker = Nobody

VARIABLES
  feed,      \* the episodes of the page, in its order; numbered by age
  dated,     \* whether the page tells release dates
  clock,     \* seconds
  args,      \* a run's command line
  pc,        \* the stage of a run
  attempt,   \* run_cmd's attempt
  info,      \* what the run knows of the page
  selected,  \* the chosen episode, and its playlist_index then
  out_dir,   \* the run directory: <<second, title>>
  temp,      \* what find_downloaded_file may find, oldest first
  source,    \* the downloaded file
  steady,    \* history: the page was the inspected one when source came
  asr,       \* the parsed 01_transcript.json
  made,      \* until it is written: the transcripts and their turns
  outcome    \* how the run ended

page == <<feed, dated, clock>>
runVars == <<args, pc, attempt, info, selected, out_dir, temp, source, steady,
             asr, made, outcome>>
vars == <<cli, disk, page, runVars>>

None == <<>>

Whisper == {"transcription", "tinydiarize"}
JsonOf(stage) == IF stage = "tinydiarize" THEN "01_diarization_tdrz.json"
                 ELSE "01_transcript.json"

Init ==
  /\ \E order \in {<<2, 1>>, <<1, 2>>} : feed = order
  /\ dated \in IF Mistimed THEN BOOLEAN ELSE {TRUE}
  /\ clock = 0
  /\ args \in [Runs -> Args]
  /\ pc = [r \in Runs |-> "inspect"] /\ attempt = [r \in Runs |-> 1]
  /\ info = [r \in Runs |-> None] /\ selected = [r \in Runs |-> None]
  /\ out_dir = [r \in Runs |-> None]
  /\ temp = [r \in Runs |-> <<>>] /\ source = [r \in Runs |-> NoFile]
  /\ steady = [r \in Runs |-> TRUE] /\ asr = [r \in Runs |-> NoFile]
  /\ made = [r \in Runs |-> None] /\ outcome = [r \in Runs |-> "none"]
  /\ cli = [r \in Runs |-> "none"] /\ disk = None

-----------------------------------------------------------------------------
(* The world: time passes, and the page gains an episode at the end where   *)
(* it keeps its latest, or loses its oldest one.                            *)
Tick ==
  /\ clock < MaxTime /\ clock' = clock + 1
  /\ UNCHANGED <<cli, disk, feed, dated, runVars>>

Publish ==
  /\ Len(feed) > 1
  /\ \/ /\ feed[1] > feed[2] /\ feed[1] < MaxEpisodes
        /\ feed' = <<feed[1] + 1>> \o feed
     \/ /\ feed[1] < feed[2] /\ Last(feed) < MaxEpisodes
        /\ feed' = Append(feed, Last(feed) + 1)
  /\ UNCHANGED <<cli, disk, dated, clock, runVars>>

Withdraw ==
  /\ Len(feed) > 1
  /\ feed' = IF feed[1] > feed[2] THEN Front(feed) ELSE Tail(feed)
  /\ UNCHANGED <<cli, disk, dated, clock, runVars>>

-----------------------------------------------------------------------------
(* The end of a run: leaving the with statement removes the temporary       *)
(* directory, whatever the reason.                                          *)
Ends(r, how) ==
  /\ pc' = [pc EXCEPT ![r] = "ended"]
  /\ outcome' = [outcome EXCEPT ![r] = how]
  /\ temp' = [temp EXCEPT ![r] = <<>>]

Becomes(r, stage) ==
  /\ pc' = [pc EXCEPT ![r] = stage]
  /\ attempt' = [attempt EXCEPT ![r] = 1]
  /\ UNCHANGED outcome

(* A plausible slip: the attempts are not counted.                          *)
RetryForEver(r) == UNCHANGED <<pc, attempt, outcome, temp>>

(* run_cmd after a command that failed: once more, or WorkflowError.        *)
Retry(r) ==
  IF attempt[r] < MaxAttempts
  THEN /\ attempt' = [attempt EXCEPT ![r] = @ + 1]
       /\ UNCHANGED <<pc, outcome, temp>>
  ELSE Ends(r, "error") /\ UNCHANGED attempt

(* preflight, and yt-dlp --dump-single-json.                                *)
Inspect(r) ==
  /\ pc[r] = "inspect"
  /\ \/ /\ info' = [info EXCEPT ![r] = feed]
        /\ Becomes(r, "choose") /\ UNCHANGED temp
     \/ Retry(r) /\ UNCHANGED info
     \/ Ends(r, "error") /\ UNCHANGED <<info, attempt>>
  /\ UNCHANGED <<cli, disk, page, args, selected, out_dir, source, steady, asr, made>>

(* extract_candidates_from_show sorts by date and playlist_index, latest    *)
(* first; without dates all release_ts are 0.                               *)
Before(episodes, i) ==
  LET key(j) == IF dated THEN episodes[j] ELSE j
  IN  {j \in DOMAIN episodes : key(j) > key(i)}

(* choose_episode on a show, of the candidates shown; the page itself       *)
(* otherwise.  Then the profile.                                            *)
Choose(r) ==
  /\ pc[r] = "choose"
  /\ \/ \E i \in DOMAIN info[r] :
          /\ Cardinality(Before(info[r], i)) < (IF args[r].show THEN Shown ELSE 1)
          /\ selected' = [selected EXCEPT ![r] =
               [episode |-> info[r][i], index |-> i]]
          /\ Becomes(r, "make directory") /\ UNCHANGED temp
     \/ Ends(r, "error") /\ UNCHANGED <<selected, attempt>>
  /\ UNCHANGED <<cli, disk, page, args, info, out_dir, source, steady, asr, made>>

EmptyDir == [f \in Artifacts |-> NoFile]
WithDir(d) == [e \in DOMAIN disk \cup {d} |-> IF e \in DOMAIN disk THEN disk[e] ELSE EmptyDir]

DirName(r) == <<clock, selected[r].episode>>

DirectoryMade(r) ==
  /\ disk' = WithDir(DirName(r))
  /\ out_dir' = [out_dir EXCEPT ![r] = DirName(r)]
  /\ Becomes(r, "download") /\ UNCHANGED temp

(* A plausible slip: mkdir(exist_ok=True).                                  *)
MakeDirectoryShared(r) ==
  /\ pc[r] = "make directory" /\ DirectoryMade(r)
  /\ UNCHANGED <<cli, page, args, info, selected, source, steady, asr, made>>

(* mkdir(exist_ok=False): FileExistsError is not a WorkflowError.           *)
MakeDirectory(r) ==
  /\ pc[r] = "make directory"
  /\ IF DirName(r) \in DOMAIN disk
     THEN Ends(r, "traceback") /\ UNCHANGED <<attempt, disk, out_dir>>
     ELSE DirectoryMade(r)
  /\ UNCHANGED <<cli, page, args, info, selected, source, steady, asr, made>>

-----------------------------------------------------------------------------
(* yt-dlp: the item the page lists at the index now, when the page is a     *)
(* show; with no such item it succeeds without a word.                      *)
Listed(r) ==
  IF args[r].show THEN selected[r].index <= Len(feed)
  ELSE selected[r].episode \in Range(feed)
(* A plausible slip: playlist_index counts from 0, --playlist-items from 1. *)
FetchedNext(r) ==
  IF args[r].show THEN feed[IF selected[r].index > 1 THEN selected[r].index - 1 ELSE 1]
  ELSE selected[r].episode

Fetched(r) ==
  IF args[r].show THEN feed[selected[r].index] ELSE selected[r].episode

(* From here on nobody looks for a download.                                *)
Obtained(r, file) ==
  /\ source' = [source EXCEPT ![r] = file]
  /\ steady' = [steady EXCEPT ![r] = args[r].show => feed = info[r]]
  /\ info' = [info EXCEPT ![r] = None]
  /\ temp' = [temp EXCEPT ![r] = <<>>]
  /\ Becomes(r, "transcode")

(* download_audio and find_downloaded_file: the printed path, or else the   *)
(* newest file in the temporary directory, or else an error.                *)
Download(r) ==
  /\ pc[r] = "download"
  /\ \/ Listed(r) /\ Obtained(r, Fetched(r))
     \/ /\ args[r].show /\ ~Listed(r)
        /\ IF temp[r] # <<>> THEN Obtained(r, Last(temp[r]))
           ELSE Ends(r, "error") /\ UNCHANGED <<attempt, info, source, steady>>
     \/ Retry(r) /\ UNCHANGED <<info, source, steady>>
     \/ /\ attempt[r] < MaxAttempts
        /\ attempt' = [attempt EXCEPT ![r] = @ + 1]
        /\ temp' = [temp EXCEPT ![r] = Append(@, Cut)]
        /\ UNCHANGED <<pc, outcome, info, source, steady>>
  /\ UNCHANGED <<cli, disk, page, args, selected, out_dir, asr, made>>

File(r, f) == disk[out_dir[r]][f]
Put(r, f, content) == [disk EXCEPT ![out_dir[r]][f] = content]

(* ffmpeg -y; what a failed attempt has written stays.  The download has no *)
(* further use.                                                             *)
Transcode(r) ==
  /\ pc[r] = "transcode"
  /\ \/ /\ disk' = Put(r, "audio.mp3", source[r])
        /\ source' = [source EXCEPT ![r] = NoFile]
        /\ Becomes(r, "transcription") /\ UNCHANGED temp
     \/ /\ disk' \in {disk, Put(r, "audio.mp3", Partial)}
        /\ Retry(r) /\ UNCHANGED source
  /\ UNCHANGED <<cli, page, args, info, selected, out_dir, steady, asr, made>>

StartCli(r) ==
  /\ pc[r] \in Whisper /\ Start(r)
  /\ UNCHANGED <<page, runVars>>

CliRuns(r) ==
  /\ pc[r] \in Whisper /\ Cli(r, out_dir[r], JsonOf(pc[r]))
  /\ UNCHANGED <<page, runVars>>

NextStage(r) == IF pc[r] = "transcription" /\ args[r].diarization
                THEN "tinydiarize" ELSE "format"

(* A plausible slip: what cannot be parsed counts as an empty transcript.   *)
ParsedLenient(json) == IF json = NoFile THEN "error" ELSE "parsed"

(* The JSON file must exist and parse; JSONDecodeError is not a             *)
(* WorkflowError.                                                           *)
Parsed(json) ==
  CASE json = NoFile -> "error" [] json = Partial -> "traceback" [] OTHER -> "parsed"

(* run_cmd_live has seen whisper-cli exit.                                  *)
CliEnded(r) ==
  /\ pc[r] \in Whisper /\ Exited(r)
  /\ Goes(r, "none") /\ UNCHANGED disk
  /\ LET json == File(r, JsonOf(pc[r]))
     IN  \/ cli[r] = "exit error" /\ Retry(r) /\ UNCHANGED asr
        \/ /\ cli[r] = "exit 0" /\ Parsed(json) # "parsed"
           /\ Ends(r, Parsed(json)) /\ UNCHANGED <<attempt, asr>>
        \/ /\ cli[r] = "exit 0" /\ Parsed(json) = "parsed"
           /\ Becomes(r, NextStage(r)) /\ UNCHANGED temp
           /\ asr' = IF pc[r] = "transcription" THEN [asr EXCEPT ![r] = json]
                     ELSE asr
  /\ UNCHANGED <<page, args, info, selected, out_dir, source, steady, made>>

(* Segments, speakers, profile and turns; without speakers the segments are *)
(* listed one by one.                                                       *)
Format(r) ==
  /\ pc[r] = "format"
  /\ \E t \in Transcripts :
       LET main == ParseSegments(t.main)
           dia  == IF args[r].diarization
                   THEN AssignTurnSpeakers(ParseSegments(t.dia)) ELSE <<>>
           said == ApplyProfile(MergeSpeakerLabels(main, dia), t.profile)
       IN  made' = [made EXCEPT ![r] =
             [main |-> main, dia |-> dia, said |-> said,
              turns |-> IF \E k \in DOMAIN said : said[k].speaker # Nobody
                        THEN MergeSegmentsIntoTurns(said) ELSE <<>>]]
  /\ Becomes(r, "write")
  /\ UNCHANGED <<cli, disk, page, args, info, selected, out_dir, temp, source, steady, asr>>

(* write_text truncates the file and then writes it; either may fail.       *)
WriteFile(r, stage, writing, f, next) ==
  \/ /\ pc[r] = stage
     /\ disk' = Put(r, f, Partial)
     /\ made' = [made EXCEPT ![r] = None]
     /\ Becomes(r, writing) /\ UNCHANGED temp
  \/ /\ pc[r] = writing
     /\ disk' = Put(r, f, asr[r])
     /\ UNCHANGED made
     /\ IF next = "ended" THEN Ends(r, "ok") /\ UNCHANGED attempt
        ELSE Becomes(r, next) /\ UNCHANGED temp
  \/ /\ pc[r] \in {stage, writing}
     /\ made' = [made EXCEPT ![r] = None]
     /\ Ends(r, "traceback") /\ UNCHANGED <<disk, attempt>>

(* Without --keep-json-artifacts a manifest would be removed; the directory *)
(* is new, and there is none.                                               *)
WriteTranscript(r) ==
  /\ WriteFile(r, "write", "writing", "01_transcript.md",
               IF args[r].keep THEN "manifest" ELSE "ended")
  /\ UNCHANGED <<cli, page, args, info, selected, out_dir, source, steady, asr>>

WriteManifest(r) ==
  /\ WriteFile(r, "manifest", "writing manifest", "run_manifest.json", "ended")
  /\ UNCHANGED <<cli, page, args, info, selected, out_dir, source, steady, asr>>

-----------------------------------------------------------------------------
(* A stop in the middle of a stage may leave its file half written.         *)
Stopped(r) ==
  /\ pc[r] # "ended"
  /\ disk' \in {disk} \cup
       (IF pc[r] = "transcode" THEN {Put(r, "audio.mp3", Partial)} ELSE {})
  /\ Goes(r, "none")

Interrupt(r) ==
  /\ Stopped(r)
  /\ Ends(r, "interrupted")
  /\ made' = [made EXCEPT ![r] = None]
  /\ UNCHANGED <<page, args, attempt, info, selected, out_dir, source, steady, asr>>

Kill(r) ==
  /\ Stopped(r)
  /\ pc' = [pc EXCEPT ![r] = "ended"]
  /\ outcome' = [outcome EXCEPT ![r] = "killed"]
  /\ made' = [made EXCEPT ![r] = None]
  /\ UNCHANGED <<page, args, attempt, info, selected, out_dir, temp, source, steady, asr>>

Step(r) ==
  \/ Inspect(r) \/ Choose(r) \/ MakeDirectory(r) \/ Download(r) \/ Transcode(r)
  \/ StartCli(r) \/ CliRuns(r) \/ CliEnded(r)
  \/ Format(r) \/ WriteTranscript(r) \/ WriteManifest(r)

AllEnded == \A r \in Runs : pc[r] = "ended"

Next ==
  \/ Tick \/ Publish \/ Withdraw
  \/ \E r \in Runs : Step(r) \/ Interrupt(r) \/ Kill(r)
  \/ AllEnded /\ UNCHANGED vars

Spec == Init /\ [][Next]_vars

(* Commands and the user's choice take time but end.                        *)
FairSpec == Spec /\ \A r \in Runs : WF_vars(Step(r))

-----------------------------------------------------------------------------
Whole(content) == content \notin {NoFile, Partial}

(* The artifacts a manifest may name.                                       *)
Named(r) ==
  {"audio.mp3", "01_transcript.json", "01_transcript.md"} \cup
  (IF args[r].diarization THEN {"01_diarization_tdrz.json"} ELSE {})

(* A run that reports success has left all it promises, made from the audio *)
(* it has kept, and nothing else: whatever failed on the way, was tried     *)
(* again or exited with 0 and no output (README.podcast_workflow.zh.md).    *)
SuccessIsComplete ==
  \A r \in Runs : outcome[r] = "ok" =>
    LET dir == disk[out_dir[r]]
        due == Named(r) \cup (IF args[r].keep THEN {"run_manifest.json"} ELSE {})
    IN  /\ Whole(dir["audio.mp3"])
        /\ \A f \in Artifacts :
             dir[f] = IF f \in due THEN dir["audio.mp3"] ELSE NoFile

(* While the page does not change between inspection and download, what is  *)
(* transcribed is the whole of the episode that was chosen.                 *)
ChosenEpisode ==
  \A r \in Runs : outcome[r] = "ok" /\ steady[r] =>
    File(r, "01_transcript.md") = selected[r].episode

(* A manifest, whole or not, names only artifacts that are there, whole and *)
(* made from the audio beside them, wherever the run was stopped.           *)
ManifestMeansComplete ==
  \A r \in Runs : out_dir[r] # None /\ File(r, "run_manifest.json") # NoFile =>
    /\ Whole(File(r, "audio.mp3"))
    /\ \A f \in Named(r) : File(r, f) = File(r, "audio.mp3")

(* Nothing touches the directory of a run that has succeeded.               *)
FinishedRunsKept ==
  [][\A r \in Runs : outcome[r] = "ok" =>
       disk'[out_dir[r]] = disk[out_dir[r]]]_vars

(* Every run ends, whatever fails (run_cmd and run_cmd_live).               *)
RunsEnd == \A r \in Runs : <>(pc[r] = "ended")

(* A diarized segment that s shares most time with has its speaker.         *)
SpokenBy(m, s) ==
  \E k \in DOMAIN m.dia :
    /\ m.dia[k].speaker = s.speaker
    /\ \A j \in DOMAIN m.dia : OverlapMs(s, m.dia[j]) <= OverlapMs(s, m.dia[k])

(* The turns of a transcript say every text once and in order, under the    *)
(* speaker of the diarized segment it shares most time with; and the times  *)
(* of a turn enclose its texts when the main transcript is in order of time *)
(* (merge_speaker_labels, merge_segments_into_turns).                       *)
TurnsFaithful ==
  \A r \in Runs : made[r] # None =>
    LET m    == made[r]
        said == Among(m.said, {s \in Range(m.said) : s.text # NoText})
        before[j \in 0 .. Len(m.turns)] ==
          IF j = 0 THEN 0 ELSE before[j - 1] + Len(m.turns[j].parts)
    IN  /\ m.dia # <<>> => before[Len(m.turns)] = Len(said)
        /\ \A j \in DOMAIN m.turns : \A q \in DOMAIN m.turns[j].parts :
             LET t == m.turns[j]
                 s == said[before[j - 1] + q]
             IN  /\ t.parts[q] = s.text /\ t.speaker = s.speaker
                 /\ InOrder(m.main) => t.t0 <= s.t0 /\ s.t1 <= t.t1
                 /\ SpokenBy(m, s)
=============================================================================
