------------------------- MODULE PodcastWorkflow_proof -------------------------
(***************************************************************************)
(* Proofs about execute_workflow for any number of runs, attempts and      *)
(* episodes and any command lines: no run touches the directory of         *)
(* another, a run that reports success has left all it promises, made of   *)
(* the episode that was chosen, and a manifest means that its artifacts    *)
(* are whole.  In the second half: the speaker turns of any two            *)
(* transcripts say every text once and in order, under the right speaker.  *)
(***************************************************************************)
EXTENDS PodcastWorkflow, WellFoundedInduction, TLAPS

Number == Nat \ {0}
AudioFile == "audio.mp3"
Working == {"download", "transcode", "transcription", "tinydiarize", "format",
            "write", "writing", "manifest", "writing manifest"}

(* What the page and the choice made from it are. *)
Chosen(r) == selected[r].episode \in Number /\ selected[r].index \in Number

PageOK ==
  /\ feed \in Seq(Number)
  /\ \A r \in Runs :
       /\ info[r] \in Seq(Number)
       /\ pc[r] \in {"make directory", "download"} => Chosen(r)
       /\ temp[r] \in Seq({Cut})
       /\ pc[r] = "transcode" => Whole(source[r])

Domains ==
  /\ DOMAIN pc = Runs /\ DOMAIN outcome = Runs /\ DOMAIN attempt = Runs
  /\ DOMAIN info = Runs /\ DOMAIN selected = Runs /\ DOMAIN out_dir = Runs
  /\ DOMAIN temp = Runs /\ DOMAIN source = Runs /\ DOMAIN asr = Runs
  /\ \A d \in DOMAIN disk : DOMAIN disk[d] = Artifacts

(* Every run has a directory of its own. *)
OwnDirs ==
  \A r \in Runs :
    /\ pc[r] \in Working \/ outcome[r] = "ok" => out_dir[r] # None
    /\ out_dir[r] # None => out_dir[r] \in DOMAIN disk
    /\ outcome[r] = "ok" => pc[r] = "ended"
    /\ \A q \in Runs : q # r /\ out_dir[r] # None => out_dir[q] # out_dir[r]

(* What a directory holds: the files of have are made from its audio, and   *)
(* one more may be on its way.                                              *)
Holds(dir, have, open) ==
  /\ Whole(dir[AudioFile])
  /\ \A f \in Artifacts \ {open} :
       dir[f] = IF f \in have THEN dir[AudioFile] ELSE NoFile
  /\ dir[open] \in {NoFile, Partial, dir[AudioFile]}

Texts(r) == {AudioFile, "01_transcript.json"} \cup
            (IF args[r].diarization THEN {"01_diarization_tdrz.json"} ELSE {})

(* What the directory of a run holds at every stage. *)
StageOK(r, dir) ==
  /\ pc[r] \in {"download", "transcode"} =>
       \A f \in Artifacts \ {AudioFile} : dir[f] = NoFile
  /\ pc[r] = "transcription" => Holds(dir, {AudioFile}, "01_transcript.json")
  /\ pc[r] = "tinydiarize" =>
       /\ args[r].diarization /\ asr[r] = dir[AudioFile]
       /\ Holds(dir, {AudioFile, "01_transcript.json"}, "01_diarization_tdrz.json")
  /\ pc[r] \in {"format", "write", "writing"} =>
       asr[r] = dir[AudioFile] /\ Holds(dir, Texts(r), "01_transcript.md")
  /\ pc[r] \in {"manifest", "writing manifest"} =>
       /\ args[r].keep /\ asr[r] = dir[AudioFile]
       /\ Holds(dir, Texts(r) \cup {"01_transcript.md"}, "run_manifest.json")
  /\ outcome[r] = "ok" =>
       /\ Whole(dir[AudioFile])
       /\ \A f \in Artifacts : dir[f] =
            IF f \in Texts(r) \cup {"01_transcript.md"} \cup
                     (IF args[r].keep THEN {"run_manifest.json"} ELSE {})
            THEN dir[AudioFile] ELSE NoFile

StagesOK == \A r \in Runs : out_dir[r] # None => StageOK(r, disk[out_dir[r]])

(* A directory with a manifest has what it names.                           *)
ManifestOK(r) ==
  /\ Whole(File(r, "audio.mp3"))
  /\ \A f \in Named(r) : File(r, f) = File(r, "audio.mp3")

FlowInv == PageOK /\ Domains /\ OwnDirs /\ StagesOK /\ ManifestMeansComplete

-----------------------------------------------------------------------------
(* The runs have not begun. *)
LEMMA FlowInit == Init => FlowInv
<1> SUFFICES ASSUME Init PROVE FlowInv
  OBVIOUS
<1>1. PageOK
  <2>1. <<2, 1>> \in Seq(Number) /\ <<1, 2>> \in Seq(Number) /\ <<>> \in Seq(Number)
        /\ <<>> \in Seq({Cut})
    BY DEF Number
  <2> QED
    BY <2>1 DEF Init, PageOK, None
<1>2. disk = <<>> /\ DOMAIN disk = {}
  BY DEF Init, None
<1>3. Domains
  BY <1>2 DEF Init, Domains
<1>4. OwnDirs /\ StagesOK
  BY DEF Init, OwnDirs, StagesOK, Working
<1>5. ManifestMeansComplete
  BY DEF Init, ManifestMeansComplete
<1> QED
  BY <1>1, <1>3, <1>4, <1>5 DEF FlowInv

-----------------------------------------------------------------------------
(* What a step does outside of the run that takes it. *)
Same(r) ==
  /\ pc'[r] = pc[r] /\ outcome'[r] = outcome[r] /\ info'[r] = info[r]
  /\ selected'[r] = selected[r] /\ out_dir'[r] = out_dir[r]
  /\ temp'[r] = temp[r] /\ source'[r] = source[r] /\ asr'[r] = asr[r]

RunStep(r) == Step(r) \/ Interrupt(r) \/ Kill(r)

(* A step of a run leaves the others and the page alone. *)
LEMMA OthersSame ==
  ASSUME Domains, NEW r \in Runs, RunStep(r)
  PROVE  /\ feed' = feed /\ args' = args
         /\ \A q \in Runs \ {r} : Same(q)
<1> USE DEF Domains, Same, page, Becomes, Ends, Retry, Obtained
<1>1. CASE Inspect(r)
  BY <1>1 DEF Inspect
<1>2. CASE Choose(r)
  BY <1>2 DEF Choose
<1>3. CASE MakeDirectory(r)
  BY <1>3 DEF MakeDirectory, DirectoryMade
<1>4. CASE Download(r)
  BY <1>4 DEF Download
<1>5. CASE Transcode(r)
  BY <1>5 DEF Transcode
<1>6. CASE StartCli(r) \/ CliRuns(r)
  BY <1>6 DEF StartCli, CliRuns, runVars
<1>7. CASE CliEnded(r)
  BY <1>7 DEF CliEnded
<1>8. CASE Format(r)
  BY <1>8 DEF Format
<1>9. CASE WriteTranscript(r) \/ WriteManifest(r)
  BY <1>9 DEF WriteTranscript, WriteManifest, WriteFile
<1>10. CASE Interrupt(r)
  BY <1>10 DEF Interrupt
<1>11. CASE Kill(r)
  BY <1>11 DEF Kill
<1> QED
  BY <1>1, <1>2, <1>3, <1>4, <1>5, <1>6, <1>7, <1>8, <1>9, <1>10, <1>11
     DEF RunStep, Step

(* How a step of r changes the disk: not at all, by one file in the         *)
(* directory of r, or by making this directory.                             *)
Keeps(r) == disk' = disk /\ out_dir' = out_dir

Writes(r) ==
  /\ pc[r] \in Working /\ out_dir' = out_dir
  /\ \E f \in Artifacts : \E content :
       /\ disk' = Put(r, f, content)
       /\ f = "run_manifest.json" <=> pc[r] \in {"manifest", "writing manifest"}

Makes(r) ==
  /\ pc[r] = "make directory" /\ pc'[r] = "download" /\ outcome' = outcome
  /\ out_dir'[r] # None /\ out_dir'[r] \notin DOMAIN disk
  /\ disk' = WithDir(out_dir'[r]) /\ DOMAIN out_dir' = Runs

(* The name of a directory is not the lack of one. *)
LEMMA NameIsOne == \A r : DirName(r) # None
<1> SUFFICES ASSUME NEW r PROVE DirName(r) # None
  OBVIOUS
<1>1. Len(DirName(r)) = 2 /\ Len(None) = 0
  BY DEF DirName, None
<1> QED
  BY <1>1

(* A step of a run changes the disk in one of these ways. *)
LEMMA DiskEffect ==
  ASSUME Domains, NEW r \in Runs, RunStep(r)
  PROVE  Keeps(r) \/ Writes(r) \/ Makes(r)
<1> USE DEF Domains, page, Keeps, Writes, Working, Artifacts
<1>1. CASE Inspect(r) \/ Choose(r)
  BY <1>1 DEF Inspect, Choose
<1>2. CASE MakeDirectory(r)
  <2>1. CASE DirName(r) \in DOMAIN disk
    BY <1>2, <2>1 DEF MakeDirectory
  <2>2. CASE DirName(r) \notin DOMAIN disk
    <3>1. out_dir' = [out_dir EXCEPT ![r] = DirName(r)] /\ disk' = WithDir(DirName(r))
      BY <1>2, <2>2 DEF MakeDirectory, DirectoryMade
    <3>2. pc[r] = "make directory" /\ pc'[r] = "download" /\ outcome' = outcome
      BY <1>2, <2>2 DEF MakeDirectory, DirectoryMade, Becomes
    <3>3. out_dir'[r] = DirName(r) /\ DOMAIN out_dir' = Runs
      BY <3>1
    <3> QED
      BY <2>2, <3>1, <3>2, <3>3, NameIsOne DEF Makes
  <2> QED
    BY <2>1, <2>2
<1>3. CASE Download(r) \/ Format(r)
  BY <1>3 DEF Download, Format
<1>4. CASE Transcode(r)
  <2>1. out_dir' = out_dir
        /\ (disk' = disk \/ \E c : disk' = Put(r, "audio.mp3", c))
    BY <1>4 DEF Transcode
  <2> QED
    BY <1>4, <2>1 DEF Transcode
<1>5. CASE StartCli(r)
  BY <1>5 DEF StartCli, Start, runVars
<1>6. CASE CliRuns(r)
  <2>1. JsonOf(pc[r]) \in Artifacts \ {"run_manifest.json"}
    BY DEF JsonOf
  <2>2. disk' = disk \/ \E c : disk' = Put(r, JsonOf(pc[r]), c)
    BY <1>6 DEF CliRuns, Cli, Refuse, OpenOutput, OutputJson, Exit, Fail, Put
  <2>3. pc[r] \in Working \ {"manifest", "writing manifest"} /\ out_dir' = out_dir
    BY <1>6 DEF CliRuns, runVars, Whisper
  <2> QED
    BY <2>1, <2>2, <2>3
<1>7. CASE CliEnded(r)
  BY <1>7 DEF CliEnded
<1>8. CASE WriteTranscript(r) \/ WriteManifest(r)
  BY <1>8 DEF WriteTranscript, WriteManifest, WriteFile
<1>9. CASE Interrupt(r) \/ Kill(r)
  BY <1>9 DEF Interrupt, Kill, Stopped
<1> QED
  BY <1>1, <1>2, <1>3, <1>4, <1>5, <1>6, <1>7, <1>8, <1>9 DEF RunStep, Step

(* So that it touches no directory but its own, and none of a finished run. *)
LEMMA OthersKept ==
  ASSUME Domains, OwnDirs, NEW r \in Runs, RunStep(r)
  PROVE  /\ DOMAIN disk \subseteq DOMAIN disk'
         /\ \A d \in DOMAIN disk :
              disk'[d] = disk[d] \/ (pc[r] \in Working /\ d = out_dir[r])
         /\ \A d \in DOMAIN disk' \ DOMAIN disk : disk'[d] = EmptyDir
<1>1. CASE Keeps(r)
  BY <1>1 DEF Keeps
<1>2. CASE Writes(r)
  BY <1>2 DEF Writes, Put
<1>3. CASE Makes(r)
  BY <1>3 DEF Makes, WithDir
<1> QED
  BY <1>1, <1>2, <1>3, DiskEffect

(* The directories stay apart. *)
LEMMA OwnDirsStep ==
  ASSUME Domains, OwnDirs, NEW r \in Runs, RunStep(r)
  PROVE  OwnDirs'
<1>1. \A q \in Runs \ {r} : Same(q)
  BY OthersSame
<1>2. \A d \in DOMAIN disk : d \in DOMAIN disk'
  BY OthersKept
<1>3. /\ pc'[r] \in Working \/ outcome'[r] = "ok" => out_dir'[r] # None
      /\ outcome'[r] = "ok" => pc'[r] = "ended"
  <2>a. /\ pc[r] \in Working \/ outcome[r] = "ok" => out_dir[r] # None
        /\ outcome[r] = "ok" => pc[r] = "ended"
    BY DEF OwnDirs
  <2>b. /\ DOMAIN pc = Runs /\ DOMAIN outcome = Runs /\ DOMAIN out_dir = Runs
    BY DEF Domains
  <2>1. CASE Inspect(r)
    <3>1. outcome[r] # "ok" /\ out_dir' = out_dir
      BY <2>1, <2>a DEF Inspect
    <3>2. \/ pc'[r] = "ended" /\ outcome'[r] = "error"
          \/ pc'[r] \in {"inspect", "choose"} /\ outcome' = outcome
      BY <2>1, <2>b DEF Inspect, Becomes, Ends, Retry
    <3> QED
      BY <3>1, <3>2 DEF Working
  <2>2. CASE Choose(r)
    <3>1. outcome[r] # "ok" /\ outcome'[r] # "ok"
      BY <2>2, <2>a, <2>b DEF Choose, Becomes, Ends
    <3>2. pc'[r] \in {"ended", "make directory"}
      BY <2>2, <2>b DEF Choose, Becomes, Ends
    <3> QED
      BY <3>1, <3>2 DEF Working
  <2> USE <2>a, <2>b DEF Working, Becomes, Ends, Retry, Obtained
  <2>3. CASE MakeDirectory(r)
    <3>1. CASE DirName(r) \in DOMAIN disk
      BY <2>3, <3>1 DEF MakeDirectory
    <3>2. CASE DirName(r) \notin DOMAIN disk
      <4>1. out_dir'[r] = DirName(r) /\ pc'[r] = "download" /\ outcome'[r] = outcome[r]
        BY <2>3, <3>2 DEF MakeDirectory, DirectoryMade
      <4>2. outcome[r] # "ok"
        BY <2>3 DEF MakeDirectory
      <4> QED
        BY <4>1, <4>2, NameIsOne
    <3> QED
      BY <3>1, <3>2
  <2>4. CASE Download(r)
    BY <2>4 DEF Download
  <2>5. CASE Transcode(r)
    BY <2>5 DEF Transcode
  <2>6. CASE StartCli(r) \/ CliRuns(r)
    BY <2>6 DEF StartCli, CliRuns, runVars
  <2>7. CASE CliEnded(r)
    BY <2>7 DEF CliEnded, Whisper, Parsed
  <2>8. CASE Format(r)
    BY <2>8 DEF Format
  <2>9. CASE WriteTranscript(r) \/ WriteManifest(r)
    BY <2>9 DEF WriteTranscript, WriteManifest, WriteFile
  <2>10. CASE Interrupt(r)
    BY <2>10 DEF Interrupt
  <2>11. CASE Kill(r)
    BY <2>11 DEF Kill
  <2> QED
    BY <2>1, <2>2, <2>3, <2>4, <2>5, <2>6, <2>7, <2>8, <2>9, <2>10, <2>11
       DEF RunStep, Step
<1>4. CASE Keeps(r) \/ Writes(r)
  <2>1. out_dir' = out_dir
    BY <1>4 DEF Keeps, Writes
  <2> QED
    BY <1>1, <1>2, <1>3, <2>1 DEF OwnDirs, Same
<1>5. CASE Makes(r)
  <2>1. out_dir'[r] \in DOMAIN disk' /\ out_dir'[r] \notin DOMAIN disk
    BY <1>5 DEF Makes, WithDir
  <2>2. \A q \in Runs \ {r} : out_dir'[q] = out_dir[q] /\ out_dir'[q] # out_dir'[r]
    <3>1. \A q \in Runs : out_dir[q] = None \/ out_dir[q] \in DOMAIN disk
      BY DEF OwnDirs
    <3>2. out_dir'[r] # None
      BY <1>5 DEF Makes
    <3> QED
      BY <1>1, <2>1, <3>1, <3>2 DEF Same
  <2> QED
    BY <1>1, <1>2, <1>3, <2>1, <2>2 DEF OwnDirs, Same
<1> QED
  BY <1>4, <1>5, DiskEffect

-----------------------------------------------------------------------------
(* What each step does to the state of the run that takes it. *)
LEMMA DomainsStep ==
  ASSUME Domains, NEW r \in Runs, RunStep(r)
  PROVE  Domains'
<1>1. \A d \in DOMAIN disk' : DOMAIN disk'[d] = Artifacts
  <2>1. CASE Keeps(r)
    BY <2>1 DEF Keeps, Domains
  <2>2. CASE Writes(r)
    BY <2>2 DEF Writes, Put, Domains
  <2>3. CASE Makes(r)
    BY <2>3 DEF Makes, WithDir, EmptyDir, Domains
  <2> QED
    BY <2>1, <2>2, <2>3, DiskEffect
<1>2. DOMAIN out_dir' = Runs
  BY DiskEffect DEF Keeps, Writes, Makes, Domains
<1>3. /\ DOMAIN pc' = Runs /\ DOMAIN outcome' = Runs /\ DOMAIN attempt' = Runs
      /\ DOMAIN info' = Runs /\ DOMAIN selected' = Runs
      /\ DOMAIN temp' = Runs /\ DOMAIN source' = Runs /\ DOMAIN asr' = Runs
  <2> USE DEF Domains, Becomes, Ends, Retry, page, Obtained
  <2>1. CASE Inspect(r)
    BY <2>1 DEF Inspect
  <2>2. CASE Choose(r)
    BY <2>2 DEF Choose
  <2>3. CASE MakeDirectory(r)
    BY <2>3 DEF MakeDirectory, DirectoryMade
  <2>4. CASE Download(r)
    BY <2>4 DEF Download
  <2>5. CASE Transcode(r)
    BY <2>5 DEF Transcode
  <2>6. CASE StartCli(r) \/ CliRuns(r)
    BY <2>6 DEF StartCli, CliRuns, runVars
  <2>7. CASE CliEnded(r)
    BY <2>7 DEF CliEnded
  <2>8. CASE Format(r)
    BY <2>8 DEF Format
  <2>9. CASE WriteTranscript(r) \/ WriteManifest(r)
    BY <2>9 DEF WriteTranscript, WriteManifest, WriteFile
  <2>10. CASE Interrupt(r) \/ Kill(r)
    BY <2>10 DEF Interrupt, Kill
  <2> QED
    BY <2>1, <2>2, <2>3, <2>4, <2>5, <2>6, <2>7, <2>8, <2>9, <2>10 DEF RunStep, Step
<1> QED
  BY <1>1, <1>2, <1>3 DEF Domains

(* The items of a sequence, and one more of them. *)
LEMMA SeqItems ==
  ASSUME NEW S, NEW s \in Seq(S)
  PROVE  /\ Len(s) \in Nat /\ DOMAIN s = 1 .. Len(s) /\ \A i \in 1 .. Len(s) : s[i] \in S
         /\ s # <<>> => Len(s) > 0
         /\ \A e \in S : Append(s, e) \in Seq(S)
OBVIOUS

(* An episode of a page, and its index. *)
LEMMA EpisodeOfPage ==
  ASSUME NEW s \in Seq(Number), NEW i \in DOMAIN s
  PROVE  s[i] \in Number /\ i \in Number
BY DEF Number

(* What a download finds is not a part of something. *)
LEMMA FoundIsWhole ==
  ASSUME PageOK, NEW r \in Runs, pc[r] = "download"
  PROVE  /\ Listed(r) => Whole(Fetched(r))
         /\ temp[r] # <<>> => Whole(Last(temp[r]))
         /\ Append(temp[r], Cut) \in Seq({Cut})
<1>1. Chosen(r) /\ feed \in Seq(Number) /\ temp[r] \in Seq({Cut})
  BY DEF PageOK
<1>2. Listed(r) => Fetched(r) \in Number
  <2>1. CASE args[r].show
    <3>1. selected[r].index \in Nat \ {0}
      BY <1>1 DEF Chosen, Number
    <3>2. Listed(r) => selected[r].index \in 1 .. Len(feed)
      BY <2>1, <3>1, <1>1 DEF Listed
    <3> QED
      BY <1>1, <2>1, <3>2 DEF Fetched
  <2>2. CASE ~args[r].show
    BY <1>1, <2>2 DEF Fetched, Chosen
  <2> QED
    BY <2>1, <2>2
<1>3. temp[r] # <<>> => Last(temp[r]) = Cut
  BY <1>1, SeqItems DEF Last
<1>4. \A n \in Number : Whole(n)
  BY DEF Number, Whole, NoFile, Partial
<1>5. Whole(Cut)
  BY DEF Cut, Whole, NoFile, Partial
<1> QED
  BY <1>1, <1>2, <1>3, <1>4, <1>5, SeqItems

(* What is known of the page and of the downloads stays so. *)
LEMMA PageStep ==
  ASSUME Domains, PageOK, NEW r \in Runs, RunStep(r)
  PROVE  PageOK'
<1>1. feed' = feed /\ \A q \in Runs \ {r} : Same(q)
  BY OthersSame
<1> DEFINE Mine ==
      /\ info[r] \in Seq(Number)
      /\ pc[r] \in {"make directory", "download"} => Chosen(r)
      /\ temp[r] \in Seq({Cut})
      /\ pc[r] = "transcode" => Whole(source[r])
<1>2. Mine'
  <2>0. <<>> \in Seq({Cut}) /\ <<>> \in Seq(Number)
    OBVIOUS
  <2>11. info[r] \in Seq(Number)
    BY DEF PageOK
  <2> USE DEF Domains, PageOK, Becomes, Ends, Retry, page, Chosen
  <2>1. CASE Inspect(r)
    BY <2>0, <2>1, ZenonT(60) DEF Inspect
  <2>2. CASE Choose(r)
    <3>2. CASE Ends(r, "error") /\ UNCHANGED selected
      BY <2>0, <2>2, <3>2 DEF Choose
    <3>3. ASSUME NEW i \in DOMAIN info[r], Becomes(r, "make directory"), UNCHANGED temp,
                 selected' = [selected EXCEPT ![r] = [episode |-> info[r][i], index |-> i]]
          PROVE  Mine'
      <4>1. info[r][i] \in Number /\ i \in Number
        BY <2>11, <3>3, EpisodeOfPage
      <4>2. selected'[r].episode = info[r][i] /\ selected'[r].index = i
        BY <3>3
      <4> QED
        BY <2>2, <3>3, <4>1, <4>2 DEF Choose
    <3> QED
      BY <2>0, <2>2, <3>2, <3>3 DEF Choose
  <2>3. CASE MakeDirectory(r)
    BY <2>0, <2>3 DEF MakeDirectory, DirectoryMade
  <2>4. CASE Download(r)
    <3>1. ASSUME NEW file, Obtained(r, file), Whole(file) PROVE Mine'
      BY <2>0, <2>4, <3>1 DEF Download, Obtained, Whole, None
    <3>2. pc[r] = "download"
      BY <2>4 DEF Download
    <3>4. CASE Ends(r, "error") /\ UNCHANGED <<info, source>>
      BY <2>0, <2>4, <3>4 DEF Download
    <3>5. CASE Retry(r) /\ UNCHANGED <<info, source>>
      BY <2>0, <2>4, <3>5 DEF Download
    <3>6. CASE temp' = [temp EXCEPT ![r] = Append(@, Cut)] /\ UNCHANGED <<pc, info, source>>
      <4>1. Append(temp[r], Cut) \in Seq({Cut})
        BY <3>2, FoundIsWhole
      <4> QED
        BY <2>4, <3>6, <4>1 DEF Download
    <3>7. /\ Listed(r) => Whole(Fetched(r))
          /\ temp[r] # <<>> => Whole(Last(temp[r]))
      BY <3>2, FoundIsWhole
    <3> QED
      BY <2>4, <3>1, <3>7, <3>4, <3>5, <3>6 DEF Download
  <2>5. CASE Transcode(r)
    BY <2>0, <2>5 DEF Transcode
  <2>6. CASE StartCli(r) \/ CliRuns(r)
    BY <2>6 DEF StartCli, CliRuns, runVars
  <2>7. CASE CliEnded(r)
    BY <2>0, <2>7, ZenonT(60) DEF CliEnded, NextStage
  <2>8. CASE Format(r)
    BY <2>8 DEF Format
  <2>9. CASE WriteTranscript(r) \/ WriteManifest(r)
    BY <2>0, <2>9, ZenonT(60) DEF WriteTranscript, WriteManifest, WriteFile
  <2>10. CASE Interrupt(r) \/ Kill(r)
    BY <2>0, <2>10, ZenonT(60) DEF Interrupt, Kill
  <2> QED
    BY <2>1, <2>2, <2>3, <2>4, <2>5, <2>6, <2>7, <2>8, <2>9, <2>10 DEF RunStep, Step
<1> QED
  BY <1>1, <1>2 DEF PageOK, Same, Chosen

-----------------------------------------------------------------------------
(* What a write leaves in a directory. *)
LEMMA WriteInto ==
  ASSUME Domains, OwnDirs, NEW r \in Runs, pc[r] \in Working,
         NEW f \in Artifacts, NEW c, disk' = Put(r, f, c), out_dir' = out_dir
  PROVE  /\ out_dir[r] # None /\ out_dir[r] \in DOMAIN disk
         /\ \A g \in Artifacts :
              disk'[out_dir'[r]][g] = IF g = f THEN c ELSE disk[out_dir[r]][g]
BY DEF Domains, OwnDirs, Put

(* A step of a run leaves its own directory as the stage it comes to wants  *)
(* it.                                                                      *)
LEMMA StageStep ==
  ASSUME PageOK, Domains, OwnDirs, NEW r \in Runs, RunStep(r), out_dir'[r] # None,
         out_dir[r] # None => StageOK(r, disk[out_dir[r]])
  PROVE  StageOK(r, disk[out_dir[r]])'
<1> DEFINE dir == disk[out_dir[r]]
           tr == "01_transcript.json"
           td == "01_diarization_tdrz.json"
           md == "01_transcript.md"
           mf == "run_manifest.json"
<1>0. args' = args
  BY OthersSame
<1>1. CASE Inspect(r) \/ Choose(r)
  <2>1. out_dir'[r] = out_dir[r] /\ disk' = disk
    BY <1>1 DEF Inspect, Choose
  <2>2. pc'[r] \notin Working /\ outcome'[r] # "ok"
    BY <1>1, ZenonT(60) DEF Inspect, Choose, Domains, OwnDirs, Becomes, Ends, Retry, Working
  <2> QED
    BY <2>2 DEF StageOK, Working
<1>2. CASE MakeDirectory(r)
  <2>1. CASE DirName(r) \in DOMAIN disk
    <3>1. pc'[r] = "ended" /\ outcome'[r] = "traceback"
      BY <1>2, <2>1 DEF MakeDirectory, Ends, Domains
    <3> QED
      BY <3>1 DEF StageOK
  <2>2. CASE DirName(r) \notin DOMAIN disk
    <3>1. pc'[r] = "download" /\ outcome'[r] # "ok"
      BY <1>2, <2>2 DEF MakeDirectory, DirectoryMade, Becomes, Domains, OwnDirs
    <3>2. disk'[out_dir'[r]] = EmptyDir
      <4>1. disk' = WithDir(DirName(r)) /\ out_dir'[r] = DirName(r)
        BY <1>2, <2>2 DEF MakeDirectory, DirectoryMade, Domains
      <4>2. WithDir(DirName(r))[DirName(r)] = EmptyDir
        BY <2>2 DEF WithDir
      <4> QED
        BY <4>1, <4>2
    <3> QED
      BY <3>1, <3>2 DEF StageOK, EmptyDir
  <2> QED
    BY <2>1, <2>2
<1>3. CASE Download(r)
  <2>1. disk' = disk /\ out_dir' = out_dir /\ pc[r] = "download" /\ outcome[r] # "ok"
    BY <1>3 DEF Download, OwnDirs
  <2>2. pc'[r] \in {"download", "transcode", "ended"} /\ outcome'[r] # "ok"
    BY <1>3, <2>1 DEF Download, Domains, Becomes, Ends, Retry, Obtained
  <2> QED
    BY <2>1, <2>2 DEF StageOK
<1>4. CASE Transcode(r)
  <2>1. pc[r] = "transcode" /\ outcome[r] # "ok" /\ out_dir' = out_dir
    BY <1>4 DEF Transcode, OwnDirs
  <2>2. out_dir[r] # None /\ \A f \in Artifacts \ {AudioFile} : dir[f] = NoFile
    <3>1. out_dir[r] # None
      BY <2>1
    <3> QED
      BY <2>1, <3>1 DEF StageOK
  <2>3. CASE /\ disk' = Put(r, AudioFile, source[r]) /\ pc'[r] = "transcription"
             /\ outcome' = outcome
    <3>1. \A g \in Artifacts :
            disk'[out_dir'[r]][g] = IF g = AudioFile THEN source[r] ELSE NoFile
      <4>1. AudioFile \in Artifacts /\ pc[r] \in Working
        BY <2>1 DEF AudioFile, Artifacts, Working
      <4> QED
        BY <2>1, <2>2, <2>3, <4>1, WriteInto
    <3>2. Whole(source[r])
      BY <2>1 DEF PageOK
    <3>3. Holds(disk'[out_dir'[r]], {AudioFile}, tr)
      BY <3>1, <3>2 DEF Holds, AudioFile, Artifacts
    <3> QED
      BY <2>1, <2>3, <3>3 DEF StageOK
  <2>4. CASE disk' = disk /\ pc'[r] \in {"transcode", "ended"} /\ outcome'[r] # "ok"
    BY <2>1, <2>2, <2>4 DEF StageOK, AudioFile
  <2>5. CASE /\ disk' = Put(r, AudioFile, Partial) /\ pc'[r] \in {"transcode", "ended"}
             /\ outcome'[r] # "ok"
    <3>1. \A g \in Artifacts :
            disk'[out_dir'[r]][g] = IF g = AudioFile THEN Partial ELSE NoFile
      <4>1. AudioFile \in Artifacts /\ pc[r] \in Working
        BY <2>1 DEF AudioFile, Artifacts, Working
      <4> QED
        BY <2>1, <2>2, <2>5, <4>1, WriteInto
    <3> QED
      BY <2>1, <2>5, <3>1 DEF StageOK, AudioFile
  <2> QED
    BY <1>4, <2>1, <2>3, <2>4, <2>5
       DEF Transcode, Domains, Becomes, Ends, Retry, AudioFile
<1>5. CASE StartCli(r)
  BY <1>0, <1>5, ZenonT(60) DEF StartCli, Start, runVars, StageOK, Texts, Holds
<1>6. CASE Format(r)
  <2>1. pc[r] = "format" /\ pc'[r] = "write" /\ outcome' = outcome
        /\ disk' = disk /\ out_dir' = out_dir /\ asr' = asr
    BY <1>6 DEF Format, Becomes, Domains
  <2> QED
    BY <1>0, <2>1 DEF StageOK, Texts, OwnDirs
<1>7. CASE Interrupt(r) \/ Kill(r)
  <2>1. pc'[r] = "ended" /\ outcome'[r] # "ok"
    BY <1>7 DEF Interrupt, Kill, Ends, Domains
  <2> QED
    BY <2>1 DEF StageOK
<1>8. CASE CliRuns(r)
  <2>1. /\ out_dir' = out_dir /\ pc' = pc /\ outcome' = outcome /\ asr' = asr
        /\ pc[r] \in Whisper /\ out_dir[r] # None /\ outcome[r] # "ok"
        /\ pc[r] \in Working
    BY <1>8 DEF CliRuns, runVars, OwnDirs, Whisper, Working
  <2>2. \/ disk' = disk
        \/ disk' = Put(r, JsonOf(pc[r]), Partial)
        \/ disk' = Put(r, JsonOf(pc[r]), dir[AudioFile])
    BY <1>8 DEF CliRuns, Cli, Refuse, OpenOutput, OutputJson, Exit, Fail, Put, AudioFile
  <2>3. CASE disk' = disk
    BY <1>0, <2>1, <2>3 DEF StageOK, Texts
  <2>4. ASSUME NEW c \in {Partial, dir[AudioFile]}, disk' = Put(r, JsonOf(pc[r]), c)
        PROVE  StageOK(r, disk[out_dir[r]])'
    <3>1. JsonOf(pc[r]) \in Artifacts
      BY DEF JsonOf, Artifacts
    <3>2. \A g \in Artifacts :
            disk'[out_dir'[r]][g] = IF g = JsonOf(pc[r]) THEN c ELSE dir[g]
      BY <2>1, <2>4, <3>1, WriteInto
    <3>3. CASE pc[r] = "transcription"
      <4>1. Holds(dir, {AudioFile}, tr)
        BY <2>1, <3>3 DEF StageOK
      <4>2. Holds(disk'[out_dir'[r]], {AudioFile}, tr)
        BY <2>4, <3>2, <3>3, <4>1 DEF Holds, JsonOf, AudioFile, Artifacts
      <4> QED
        BY <2>1, <3>3, <4>2 DEF StageOK
    <3>4. CASE pc[r] = "tinydiarize"
      <4>1. Holds(dir, {AudioFile, tr}, td) /\ asr[r] = dir[AudioFile] /\ args[r].diarization
        BY <2>1, <3>4 DEF StageOK
      <4>2. Holds(disk'[out_dir'[r]], {AudioFile, tr}, td)
        BY <2>4, <3>2, <3>4, <4>1 DEF Holds, JsonOf, AudioFile, Artifacts
      <4>3. disk'[out_dir'[r]][AudioFile] = dir[AudioFile]
        BY <3>2, <3>4 DEF JsonOf, AudioFile, Artifacts
      <4> QED
        BY <1>0, <2>1, <3>4, <4>1, <4>2, <4>3 DEF StageOK
    <3> QED
      BY <2>1, <3>3, <3>4 DEF Whisper
  <2> QED
    BY <2>2, <2>3, <2>4
<1>9. CASE CliEnded(r)
  <2>1. /\ disk' = disk /\ out_dir' = out_dir /\ pc[r] \in Whisper
        /\ out_dir[r] # None /\ outcome[r] # "ok"
    BY <1>9 DEF CliEnded, OwnDirs, Whisper, Working
  <2> DEFINE json == File(r, JsonOf(pc[r]))
  <2>2. CASE Retry(r) /\ UNCHANGED asr
    BY <1>0, <2>1, <2>2, ZenonT(60) DEF StageOK, Retry, Ends, Domains, Whisper
  <2>3. CASE Ends(r, Parsed(json)) /\ Parsed(json) # "parsed"
    <3>1. pc'[r] = "ended" /\ outcome'[r] # "ok"
      BY <2>3 DEF Ends, Domains, Parsed
    <3> QED
      BY <3>1 DEF StageOK
  <2>4. CASE /\ Parsed(json) = "parsed" /\ Becomes(r, NextStage(r))
             /\ asr' = IF pc[r] = "transcription" THEN [asr EXCEPT ![r] = json] ELSE asr
    <3>1. json \notin {NoFile, Partial} /\ outcome' = outcome /\ pc'[r] = NextStage(r)
      BY <2>4 DEF Parsed, Becomes, Domains
    <3>2. CASE pc[r] = "transcription"
      <4>1. Holds(dir, {AudioFile}, tr) /\ json = dir[tr]
        BY <2>1, <3>2 DEF StageOK, File, JsonOf
      <4>2. json = dir[AudioFile] /\ asr'[r] = json
        BY <2>4, <3>1, <3>2, <4>1 DEF Holds, Domains
      <4>3. CASE args[r].diarization
        <5>1. Holds(dir, {AudioFile, tr}, td)
          BY <4>1, <4>2 DEF Holds, AudioFile, Artifacts
        <5> QED
          BY <1>0, <2>1, <3>1, <3>2, <4>2, <4>3, <5>1 DEF StageOK, NextStage
      <4>4. CASE ~args[r].diarization
        <5>1. Holds(dir, Texts(r), md)
          BY <4>1, <4>2, <4>4 DEF Holds, Texts, AudioFile, Artifacts
        <5> QED
          BY <1>0, <2>1, <3>1, <3>2, <4>2, <4>4, <5>1 DEF StageOK, NextStage, Texts
      <4> QED
        BY <4>3, <4>4
    <3>3. CASE pc[r] = "tinydiarize"
      <4>1. /\ Holds(dir, {AudioFile, tr}, td) /\ asr[r] = dir[AudioFile]
            /\ args[r].diarization /\ json = dir[td]
        BY <2>1, <3>3 DEF StageOK, File, JsonOf
      <4>2. json = dir[AudioFile] /\ asr' = asr /\ pc'[r] = "format"
        BY <2>4, <3>1, <3>3, <4>1 DEF Holds, NextStage
      <4>3. Holds(dir, Texts(r), md)
        BY <4>1, <4>2 DEF Holds, Texts, AudioFile, Artifacts
      <4> QED
        BY <1>0, <2>1, <3>1, <4>1, <4>2, <4>3 DEF StageOK, Texts
    <3> QED
      BY <2>1, <3>2, <3>3 DEF Whisper
  <2> QED
    BY <1>9, <2>2, <2>3, <2>4 DEF CliEnded
<1>10. CASE WriteTranscript(r)
  <2> DEFINE next == IF args[r].keep THEN "manifest" ELSE "ended"
  <2>1. /\ out_dir' = out_dir /\ asr' = asr /\ pc[r] \in {"write", "writing"}
        /\ out_dir[r] # None /\ outcome[r] # "ok" /\ pc[r] \in Working
    BY <1>10 DEF WriteTranscript, WriteFile, OwnDirs, Working
  <2>2. asr[r] = dir[AudioFile] /\ Holds(dir, Texts(r), md)
    BY <2>1 DEF StageOK
  <2>3. md \in Artifacts /\ md \notin Texts(r) /\ mf \notin Texts(r)
    BY DEF Artifacts, Texts, AudioFile
  <2>4. CASE disk' = Put(r, md, Partial) /\ Becomes(r, "writing")
    <3>1. \A g \in Artifacts : disk'[out_dir'[r]][g] = IF g = md THEN Partial ELSE dir[g]
      BY <2>1, <2>3, <2>4, WriteInto
    <3>2. disk'[out_dir'[r]][AudioFile] = dir[AudioFile]
      BY <3>1 DEF AudioFile, Artifacts
    <3>3. Holds(disk'[out_dir'[r]], Texts(r), md)
      BY <2>2, <2>3, <3>1, <3>2 DEF Holds
    <3> QED
      BY <1>0, <2>1, <2>2, <2>4, <3>2, <3>3 DEF StageOK, Texts, Becomes, Domains
  <2>5. CASE /\ disk' = Put(r, md, asr[r])
             /\ IF next = "ended" THEN Ends(r, "ok") ELSE Becomes(r, next)
    <3>1. \A g \in Artifacts : disk'[out_dir'[r]][g] = IF g = md THEN asr[r] ELSE dir[g]
      BY <2>1, <2>3, <2>5, WriteInto
    <3>2. disk'[out_dir'[r]][AudioFile] = dir[AudioFile]
      BY <3>1 DEF AudioFile, Artifacts
    <3>3. \A g \in Artifacts : disk'[out_dir'[r]][g] =
            IF g \in Texts(r) \cup {md} THEN dir[AudioFile] ELSE NoFile
      BY <2>2, <2>3, <3>1 DEF Holds
    <3>4. CASE args[r].keep
      <4>1. pc'[r] = "manifest" /\ outcome'[r] # "ok"
        BY <2>1, <2>5, <3>4 DEF Becomes, Domains
      <4>2. Holds(disk'[out_dir'[r]], Texts(r) \cup {md}, mf)
        BY <2>2, <2>3, <3>2, <3>3 DEF Holds, Artifacts
      <4> QED
        BY <1>0, <2>1, <2>2, <3>2, <3>4, <4>1, <4>2 DEF StageOK, Texts
    <3>5. CASE ~args[r].keep
      <4>1. pc'[r] = "ended"
        BY <2>5, <3>5 DEF Ends, Domains
      <4>2. Whole(disk'[out_dir'[r]][AudioFile])
        BY <2>2, <3>2 DEF Holds
      <4> QED
        BY <1>0, <3>2, <3>3, <3>5, <4>1, <4>2 DEF StageOK, Texts
    <3> QED
      BY <3>4, <3>5
  <2>6. CASE Ends(r, "traceback")
    BY <2>6 DEF Ends, Domains, StageOK
  <2> QED
    BY <1>10, <2>4, <2>5, <2>6 DEF WriteTranscript, WriteFile
<1>11. CASE WriteManifest(r)
  <2>1. /\ out_dir' = out_dir /\ asr' = asr
        /\ pc[r] \in {"manifest", "writing manifest"}
        /\ out_dir[r] # None /\ outcome[r] # "ok" /\ pc[r] \in Working
    BY <1>11 DEF WriteManifest, WriteFile, OwnDirs, Working
  <2>2. /\ asr[r] = dir[AudioFile] /\ args[r].keep
        /\ Holds(dir, Texts(r) \cup {md}, mf)
    BY <2>1 DEF StageOK
  <2>0. mf \in Artifacts
    BY DEF Artifacts
  <2>3. mf \notin Texts(r) \cup {md}
    BY DEF Texts, AudioFile
  <2>4. CASE disk' = Put(r, mf, Partial) /\ Becomes(r, "writing manifest")
    <3>1. \A g \in Artifacts : disk'[out_dir'[r]][g] = IF g = mf THEN Partial ELSE dir[g]
      BY <2>0, <2>1, <2>4 DEF Put, Domains, OwnDirs
    <3>2. disk'[out_dir'[r]][AudioFile] = dir[AudioFile]
      BY <3>1 DEF AudioFile, Artifacts
    <3>3. Holds(disk'[out_dir'[r]], Texts(r) \cup {md}, mf)
      BY <2>0, <2>2, <2>3, <3>1, <3>2 DEF Holds
    <3> QED
      BY <1>0, <2>1, <2>2, <2>4, <3>2, <3>3 DEF StageOK, Texts, Becomes, Domains
  <2>5. CASE disk' = Put(r, mf, asr[r]) /\ Ends(r, "ok")
    <3>1. \A g \in Artifacts : disk'[out_dir'[r]][g] = IF g = mf THEN asr[r] ELSE dir[g]
      BY <2>0, <2>1, <2>5 DEF Put, Domains, OwnDirs
    <3>2. disk'[out_dir'[r]][AudioFile] = dir[AudioFile]
      BY <3>1 DEF AudioFile, Artifacts
    <3>3. \A g \in Artifacts : disk'[out_dir'[r]][g] =
            IF g \in Texts(r) \cup {md} \cup {mf} THEN dir[AudioFile] ELSE NoFile
      BY <2>2, <2>3, <3>1 DEF Holds
    <3>4. pc'[r] = "ended"
      BY <2>5 DEF Ends, Domains
    <3>5. Whole(disk'[out_dir'[r]][AudioFile])
      BY <2>2, <3>2 DEF Holds
    <3> QED
      BY <1>0, <2>2, <3>2, <3>3, <3>4, <3>5 DEF StageOK, Texts
  <2>6. CASE Ends(r, "traceback")
    BY <2>6 DEF Ends, Domains, StageOK
  <2> QED
    BY <1>11, <2>4, <2>5, <2>6 DEF WriteManifest, WriteFile
<1> QED
  BY <1>1, <1>2, <1>3, <1>4, <1>5, <1>6, <1>7, <1>8, <1>9, <1>10, <1>11
     DEF RunStep, Step

-----------------------------------------------------------------------------
(* A step of a run keeps the whole invariant. *)
LEMMA RunStepInv ==
  ASSUME FlowInv, NEW r \in Runs, RunStep(r)
  PROVE  FlowInv'
<1>1. PageOK /\ Domains /\ OwnDirs /\ StagesOK /\ ManifestMeansComplete
  BY DEF FlowInv
<1>2. PageOK' /\ Domains' /\ OwnDirs'
  BY <1>1, PageStep, DomainsStep, OwnDirsStep
<1>3. StagesOK'
  <2>1. out_dir'[r] # None => StageOK(r, disk[out_dir[r]])'
    BY <1>1, StageStep DEF StagesOK
  <2>2. ASSUME NEW q \in Runs \ {r}, out_dir'[q] # None
        PROVE  StageOK(q, disk[out_dir[q]])'
    <3>1. Same(q) /\ args' = args
      BY OthersSame, <1>1
    <3>2. out_dir[q] # None /\ out_dir[q] \in DOMAIN disk
      BY <1>1, <2>2, <3>1 DEF Same, OwnDirs
    <3>3. ~(pc[r] \in Working /\ out_dir[q] = out_dir[r])
      BY <1>1, <3>2 DEF OwnDirs
    <3>4. disk'[out_dir[q]] = disk[out_dir[q]]
      BY <1>1, <3>2, <3>3, OthersKept
    <3>5. StageOK(q, disk[out_dir[q]])
      BY <1>1, <3>2 DEF StagesOK
    <3>6. /\ pc'[q] = pc[q] /\ outcome'[q] = outcome[q] /\ asr'[q] = asr[q]
          /\ disk'[out_dir'[q]] = disk[out_dir[q]] /\ Texts(q)' = Texts(q)
      BY <3>1, <3>4 DEF Same, Texts
    <3> HIDE DEF Texts, Holds
    <3> QED
      BY <3>1, <3>5, <3>6 DEF StageOK
  <2> QED
    BY <2>1, <2>2 DEF StagesOK
<1>4. ASSUME NEW q \in Runs, out_dir'[q] # None, File(q, "run_manifest.json")' # NoFile
      PROVE  ManifestOK(q)'
  <2>1. CASE q # r
    <3>1. Same(q) /\ args' = args
      BY <1>1, <2>1, OthersSame
    <3>2. out_dir[q] # None /\ out_dir[q] \in DOMAIN disk
      BY <1>1, <1>4, <3>1 DEF Same, OwnDirs
    <3>3. ~(pc[r] \in Working /\ out_dir[q] = out_dir[r])
      BY <1>1, <2>1, <3>2 DEF OwnDirs
    <3>4. disk'[out_dir'[q]] = disk[out_dir[q]]
      BY <1>1, <3>1, <3>2, <3>3, OthersKept DEF Same
    <3>5. ManifestOK(q)
      BY <1>1, <1>4, <3>2, <3>4 DEF ManifestMeansComplete, ManifestOK, File
    <3> QED
      BY <3>1, <3>4, <3>5 DEF ManifestOK, File, Named
  <2>2. CASE q = r /\ Keeps(r)
    <3>1. args' = args
      BY <1>1, OthersSame
    <3>2. ManifestOK(r)
      BY <1>1, <1>4, <2>2 DEF Keeps, ManifestMeansComplete, ManifestOK, File
    <3> QED
      BY <2>2, <3>1, <3>2 DEF Keeps, ManifestOK, File, Named
  <2>3. CASE q = r /\ Writes(r)
    <3>1. /\ args' = args /\ out_dir' = out_dir /\ out_dir[r] # None
          /\ out_dir[r] \in DOMAIN disk /\ StageOK(r, disk[out_dir[r]])
      BY <1>1, <2>3, OthersSame DEF Writes, OwnDirs, StagesOK
    <3>2. PICK g, c :
            /\ g \in Artifacts /\ disk' = Put(r, g, c)
            /\ g = "run_manifest.json" <=> pc[r] \in {"manifest", "writing manifest"}
      BY <2>3 DEF Writes
    <3>3. \A h \in Artifacts : h # g => File(r, h)' = File(r, h)
      BY <1>1, <3>1, <3>2 DEF Put, Domains, File
    <3>4. CASE g = "run_manifest.json"
      <4>1. Holds(disk[out_dir[r]], Texts(r) \cup {"01_transcript.md"}, "run_manifest.json")
        BY <3>1, <3>2, <3>4 DEF StageOK
      <4>2. Named(r) = Texts(r) \cup {"01_transcript.md"} /\ AudioFile = "audio.mp3"
        BY DEF Named, Texts, AudioFile
      <4>3. Named(r) \subseteq Artifacts \ {"run_manifest.json"} /\ AudioFile \in Named(r)
        BY <4>2 DEF Named, Artifacts
      <4>4. Whole(File(r, AudioFile)) /\ \A f \in Named(r) : File(r, f) = File(r, AudioFile)
        BY <4>1, <4>2, <4>3 DEF Holds, File
      <4>5. \A f \in Named(r) : File(r, f)' = File(r, f)
        BY <3>3, <3>4, <4>3
      <4>6. Named(r)' = Named(r)
        BY <3>1 DEF Named
      <4>7. Whole(File(r, AudioFile))' /\ \A f \in Named(r) : File(r, f)' = File(r, AudioFile)'
        BY <4>3, <4>4, <4>5 DEF Whole
      <4> QED
        BY <2>3, <4>2, <4>6, <4>7 DEF ManifestOK, AudioFile
    <3>5. CASE g # "run_manifest.json"
      <4>1. disk[out_dir[r]]["run_manifest.json"] # NoFile
        BY <1>4, <2>3, <3>3, <3>5 DEF File, Artifacts
      <4>2. disk[out_dir[r]]["run_manifest.json"] = NoFile
        BY <2>3, <3>1, <3>2, <3>5 DEF StageOK, Holds, Texts, AudioFile, Artifacts, Working,
           Writes
      <4> QED
        BY <4>1, <4>2
    <3> QED
      BY <3>4, <3>5
  <2>4. CASE q = r /\ Makes(r)
    <3>1. disk'[out_dir'[r]] = EmptyDir
      BY <2>4 DEF Makes, WithDir
    <3>2. EmptyDir["run_manifest.json"] = NoFile
      BY DEF EmptyDir, Artifacts
    <3> QED
      BY <1>4, <2>4, <3>1, <3>2 DEF File
  <2> QED
    BY <1>1, <2>1, <2>2, <2>3, <2>4, DiskEffect
<1>5. ManifestMeansComplete'
  BY <1>4 DEF ManifestMeansComplete, ManifestOK
<1> QED
  BY <1>2, <1>3, <1>5 DEF FlowInv

(* Time and the page know nothing of the runs. *)
World == Tick \/ Publish \/ Withdraw

LEMMA WorldInv ==
  ASSUME FlowInv, World \/ UNCHANGED vars
  PROVE  FlowInv'
<1>1. UNCHANGED <<cli, disk, runVars>>
  BY DEF World, Tick, Publish, Withdraw, vars
<1>2. /\ disk' = disk /\ args' = args /\ pc' = pc /\ attempt' = attempt /\ info' = info
      /\ selected' = selected /\ out_dir' = out_dir /\ temp' = temp
      /\ source' = source /\ asr' = asr /\ outcome' = outcome
  BY <1>1 DEF runVars
<1>3. feed' \in Seq(Number)
  <2>1. feed \in Seq(Number)
    BY DEF FlowInv, PageOK
  <2>2. CASE UNCHANGED feed
    BY <2>1, <2>2
  <2>3. CASE Publish
    <3>1. feed[1] \in Number /\ Last(feed) \in Number
      BY <2>1, <2>3, SeqItems DEF Publish, Last
    <3>2. feed[1] + 1 \in Number /\ Last(feed) + 1 \in Number
      BY <3>1 DEF Number
    <3>3. <<feed[1] + 1>> \o feed \in Seq(Number) /\ Append(feed, Last(feed) + 1) \in Seq(Number)
      BY <2>1, <3>2
    <3> QED
      BY <2>3, <3>3 DEF Publish
  <2>4. CASE Withdraw
    BY <2>1, <2>4 DEF Withdraw, Front
  <2> QED
    BY <2>2, <2>3, <2>4 DEF World, Tick, vars, page
<1>4. PageOK'
  BY <1>2, <1>3 DEF FlowInv, PageOK, Chosen
<1>5. Domains' /\ OwnDirs'
  BY <1>2 DEF FlowInv, Domains, OwnDirs
<1>6. StagesOK'
  <2>1. ASSUME NEW r \in Runs, out_dir'[r] # None
        PROVE  StageOK(r, disk[out_dir[r]])'
    <3>1. StageOK(r, disk[out_dir[r]])
      BY <1>2, <2>1 DEF FlowInv, StagesOK
    <3>2. StageOK(r, disk[out_dir[r]])' <=> StageOK(r, disk[out_dir[r]])
      BY <1>2 DEF StageOK, Texts
    <3> QED
      BY <3>1, <3>2
  <2> QED
    BY <2>1 DEF StagesOK
<1>7. ManifestMeansComplete'
  BY <1>2 DEF FlowInv, ManifestMeansComplete, File, Named
<1> QED
  BY <1>4, <1>5, <1>6, <1>7 DEF FlowInv

(* The invariant is kept by every step. *)
LEMMA FlowStep == FlowInv /\ [Next]_vars => FlowInv'
BY RunStepInv, WorldInv DEF Next, World, RunStep

(* It holds in every run of the workflow, whatever fails or is stopped.     *)
LEMMA FlowAlways == Spec => []FlowInv
BY FlowInit, FlowStep, PTL DEF Spec

(* A run that reports success has left all it promises, each artifact made  *)
(* from the audio it kept, for every number of runs, attempts and episodes. *)
THEOREM SuccessComplete == Spec => []SuccessIsComplete
<1>1. FlowInv => SuccessIsComplete
  <2> SUFFICES ASSUME FlowInv, NEW r \in Runs, outcome[r] = "ok"
               PROVE  LET dir == disk[out_dir[r]]
                          due == Named(r) \cup
                                 (IF args[r].keep THEN {"run_manifest.json"} ELSE {})
                      IN  /\ Whole(dir["audio.mp3"])
                          /\ \A f \in Artifacts :
                               dir[f] = IF f \in due THEN dir["audio.mp3"] ELSE NoFile
    BY DEF SuccessIsComplete
  <2>1. StageOK(r, disk[out_dir[r]])
    BY DEF FlowInv, OwnDirs, StagesOK
  <2> QED
    BY <2>1 DEF StageOK, Texts, Named, AudioFile
<1> QED
  BY <1>1, FlowAlways, PTL

(* A manifest names only whole artifacts, made from one audio, wherever a   *)
(* run was stopped.                                                         *)
THEOREM ManifestComplete == Spec => []ManifestMeansComplete
<1>1. FlowInv => ManifestMeansComplete
  BY DEF FlowInv
<1> QED
  BY <1>1, FlowAlways, PTL

(* No step of any run touches the directory of a run that has succeeded.    *)
THEOREM FinishedKept == Spec => FinishedRunsKept
<1> DEFINE Kept == \A r \in Runs : outcome[r] = "ok" => disk'[out_dir[r]] = disk[out_dir[r]]
<1>1. FlowInv /\ [Next]_vars => [Kept]_vars
  <2> SUFFICES ASSUME FlowInv, Next, NEW r \in Runs, outcome[r] = "ok"
               PROVE  disk'[out_dir[r]] = disk[out_dir[r]]
    OBVIOUS
  <2>1. out_dir[r] # None /\ out_dir[r] \in DOMAIN disk /\ pc[r] = "ended"
    BY DEF FlowInv, OwnDirs
  <2>2. ASSUME NEW q \in Runs, RunStep(q) PROVE disk'[out_dir[r]] = disk[out_dir[r]]
    <3>1. ~(pc[q] \in Working /\ out_dir[r] = out_dir[q])
      BY <2>1 DEF FlowInv, OwnDirs, Working
    <3> QED
      BY <2>1, <2>2, <3>1, OthersKept DEF FlowInv
  <2>3. CASE World \/ UNCHANGED vars
    BY <2>3 DEF World, Tick, Publish, Withdraw, vars
  <2> QED
    BY <2>2, <2>3 DEF Next, RunStep, World
<1> QED
  BY <1>1, FlowAlways, PTL DEF Spec, FinishedRunsKept

-----------------------------------------------------------------------------
(* The chosen episode on its way into the audio file: the page the run      *)
(* inspected lists it at the index, the download is it, the audio is made   *)
(* of it, as long as the page was the inspected one at the download.        *)
HasAudio == Working \ {"download", "transcode"}

SelectedAt(r) ==
  /\ selected[r].index \in DOMAIN info[r]
  /\ selected[r].episode = info[r][selected[r].index]

EpisodeOK(r) ==
  /\ pc[r] \in {"make directory", "download"} => SelectedAt(r)
  /\ pc[r] = "transcode" /\ steady[r] => source[r] = selected[r].episode
  /\ (pc[r] \in HasAudio \/ outcome[r] = "ok") /\ steady[r] =>
       File(r, AudioFile) = selected[r].episode

EpisodeInv == DOMAIN steady = Runs /\ \A r \in Runs : EpisodeOK(r)

(* No other step changes whether the page was the inspected one. *)
LEMMA SteadyStep ==
  ASSUME Domains, DOMAIN steady = Runs, NEW r \in Runs, RunStep(r)
  PROVE  /\ DOMAIN steady' = Runs
         /\ \A q \in Runs \ {r} : steady'[q] = steady[q]
         /\ pc[r] # "download" => steady' = steady
<1>1. CASE Download(r)
  BY <1>1 DEF Download, Obtained
<1>2. CASE ~Download(r)
  <2>1. steady' = steady
    BY <1>2 DEF RunStep, Step, Inspect, Choose, MakeDirectory, DirectoryMade, Transcode,
       StartCli, CliRuns, CliEnded, Format, WriteTranscript, WriteManifest, Interrupt,
       Kill, runVars
  <2> QED
    BY <2>1
<1> QED
  BY <1>1, <1>2

(* From the transcription on, the audio file stays what it is. *)
LEMMA AudioKept ==
  ASSUME Domains, OwnDirs, NEW r \in Runs, RunStep(r), pc[r] \in HasAudio
  PROVE  File(r, AudioFile)' = File(r, AudioFile) /\ selected'[r] = selected[r]
         /\ (pc'[r] \in HasAudio \cup {"ended"})
<1>1. pc[r] \in Working /\ out_dir[r] \in DOMAIN disk
      /\ pc[r] \notin {"inspect", "choose", "make directory", "download", "transcode"}
  BY DEF HasAudio, Working, OwnDirs
<1>2. ASSUME NEW f \in Artifacts, NEW c, disk' = Put(r, f, c), out_dir' = out_dir,
             f # AudioFile
      PROVE  File(r, AudioFile)' = File(r, AudioFile)
  BY <1>1, <1>2, WriteInto DEF File, AudioFile, Artifacts
<1>3. ASSUME disk' = disk, out_dir' = out_dir
      PROVE  File(r, AudioFile)' = File(r, AudioFile)
  BY <1>3 DEF File
<1>4. CASE StartCli(r) \/ CliRuns(r)
  <2>1. JsonOf(pc[r]) \in Artifacts \ {AudioFile}
    BY DEF JsonOf, Artifacts, AudioFile
  <2>2. /\ disk' = disk \/ \E c : disk' = Put(r, JsonOf(pc[r]), c)
        /\ out_dir' = out_dir /\ selected' = selected /\ pc' = pc
    BY <1>4 DEF StartCli, Start, CliRuns, Cli, Refuse, OpenOutput, OutputJson, Exit, Fail,
                Put, runVars
  <2> QED
    BY <1>2, <1>3, <2>1, <2>2
<1>5. CASE CliEnded(r)
  <2>1. disk' = disk /\ out_dir' = out_dir /\ selected' = selected
    BY <1>5 DEF CliEnded
  <2>2. pc'[r] \in HasAudio \cup {"ended"}
    BY <1>5, ZenonT(60)
       DEF CliEnded, Retry, Becomes, Ends, NextStage, HasAudio, Working, Domains
  <2> QED
    BY <1>3, <2>1, <2>2
<1>6. CASE Format(r)
  <2>1. disk' = disk /\ out_dir' = out_dir /\ selected' = selected /\ pc'[r] = "write"
    BY <1>6 DEF Format, Becomes, Domains
  <2> QED
    BY <1>3, <2>1 DEF HasAudio, Working
<1>7. CASE WriteTranscript(r) \/ WriteManifest(r)
  <2>1. "01_transcript.md" \in Artifacts \ {AudioFile}
        /\ "run_manifest.json" \in Artifacts \ {AudioFile}
    BY DEF Artifacts, AudioFile
  <2>2. /\ \/ disk' = disk
           \/ \E c : disk' = Put(r, "01_transcript.md", c)
           \/ \E c : disk' = Put(r, "run_manifest.json", c)
        /\ out_dir' = out_dir /\ selected' = selected
    BY <1>7 DEF WriteTranscript, WriteManifest, WriteFile
  <2>3. pc'[r] \in HasAudio \cup {"ended"}
    BY <1>7, ZenonT(60) DEF WriteTranscript, WriteManifest, WriteFile, Becomes, Ends, HasAudio,
                Working, Domains
  <2> QED
    BY <1>2, <1>3, <2>1, <2>2, <2>3
<1>8. CASE Interrupt(r) \/ Kill(r)
  <2>1. disk' = disk /\ out_dir' = out_dir /\ selected' = selected /\ pc'[r] = "ended"
    BY <1>1, <1>8 DEF Interrupt, Kill, Stopped, Ends, Domains
  <2> QED
    BY <1>3, <2>1
<1> QED
  BY <1>1, <1>4, <1>5, <1>6, <1>7, <1>8
     DEF RunStep, Step, Inspect, Choose, MakeDirectory, Download, Transcode

(* The download: an index that is in the page as inspected is listed.       *)
LEMMA DownloadEpisode ==
  ASSUME FlowInv, EpisodeInv, NEW r \in Runs, Download(r)
  PROVE  EpisodeOK(r)'
<1>1. /\ pc[r] = "download" /\ SelectedAt(r) /\ outcome[r] # "ok"
      /\ UNCHANGED <<disk, selected, out_dir, args>>
  BY DEF Download, EpisodeInv, EpisodeOK, FlowInv, OwnDirs
<1>2. /\ DOMAIN pc = Runs /\ DOMAIN source = Runs /\ DOMAIN steady = Runs
      /\ DOMAIN outcome = Runs /\ info[r] \in Seq(Number)
  BY DEF FlowInv, Domains, PageOK, EpisodeInv
<1>3. ASSUME NEW file, Obtained(r, file),
             (args[r].show => feed = info[r]) => file = selected[r].episode
      PROVE  EpisodeOK(r)'
  <2>1. /\ pc'[r] = "transcode" /\ source'[r] = file
        /\ steady'[r] = (args[r].show => feed = info[r]) /\ outcome' = outcome
    BY <1>2, <1>3 DEF Obtained, Becomes
  <2> QED
    BY <1>1, <1>3, <2>1 DEF EpisodeOK, HasAudio, Working
<1>4. CASE Listed(r) /\ Obtained(r, Fetched(r))
  BY <1>1, <1>3, <1>4 DEF Fetched, SelectedAt
<1>5. CASE args[r].show /\ ~Listed(r) /\ Obtained(r, Last(temp[r]))
  <2>1. selected[r].index <= Len(info[r])
    BY <1>1, <1>2 DEF SelectedAt
  <2>2. feed # info[r]
    BY <1>5, <2>1 DEF Listed
  <2> QED
    BY <1>3, <1>5, <2>2
<1>6. CASE Ends(r, "error") \/ (Retry(r) /\ UNCHANGED <<info, source, steady>>)
           \/ UNCHANGED <<pc, outcome, info, source, steady>>
  <2>1. /\ pc'[r] \in {"download", "ended"} /\ outcome'[r] # "ok"
        /\ pc'[r] = "download" => info' = info
    BY <1>1, <1>2, <1>6 DEF Ends, Retry
  <2>2. pc'[r] = "download" => SelectedAt(r)'
    BY <1>1, <2>1 DEF SelectedAt
  <2> QED
    BY <2>1, <2>2 DEF EpisodeOK, HasAudio, Working
<1> QED
  BY <1>4, <1>5, <1>6 DEF Download

(* Every step of a run keeps to its episode. *)
LEMMA OwnEpisode ==
  ASSUME FlowInv, EpisodeInv, NEW r \in Runs, RunStep(r)
  PROVE  EpisodeOK(r)'
<1>1. Domains /\ OwnDirs /\ PageOK /\ EpisodeOK(r) /\ DOMAIN steady = Runs
  BY DEF FlowInv, EpisodeInv
<1>2. CASE Inspect(r)
  <2>1. pc'[r] \in {"inspect", "choose", "ended"} /\ outcome'[r] # "ok"
    BY <1>1, <1>2 DEF Inspect, Becomes, Ends, Retry, Domains, OwnDirs
  <2> QED
    BY <2>1 DEF EpisodeOK, HasAudio, Working
<1>3. CASE Choose(r)
  <2>1. outcome[r] # "ok" /\ info' = info
    BY <1>1, <1>3 DEF Choose, OwnDirs
  <2>2. CASE Ends(r, "error")
    BY <1>1, <2>2 DEF Ends, Domains, EpisodeOK, HasAudio, Working
  <2>3. ASSUME NEW i \in DOMAIN info[r], Becomes(r, "make directory"),
               selected' = [selected EXCEPT ![r] = [episode |-> info[r][i], index |-> i]]
        PROVE  EpisodeOK(r)'
    <3>1. /\ selected'[r].episode = info[r][i] /\ selected'[r].index = i
          /\ pc'[r] = "make directory" /\ outcome' = outcome
      BY <1>1, <2>3 DEF Becomes, Domains
    <3> QED
      BY <2>1, <2>3, <3>1 DEF EpisodeOK, SelectedAt, HasAudio, Working
  <2> QED
    BY <1>3, <2>2, <2>3 DEF Choose
<1>4. CASE MakeDirectory(r)
  <2>1. /\ pc[r] = "make directory" /\ outcome[r] # "ok"
        /\ UNCHANGED <<info, selected>>
    BY <1>1, <1>4 DEF MakeDirectory, OwnDirs
  <2>2. pc'[r] \in {"download", "ended"} /\ outcome'[r] # "ok"
    BY <1>1, <1>4, <2>1 DEF MakeDirectory, DirectoryMade, Becomes, Ends, Domains
  <2>3. SelectedAt(r)'
    BY <1>1, <2>1 DEF EpisodeOK, SelectedAt
  <2> QED
    BY <2>2, <2>3 DEF EpisodeOK, HasAudio, Working
<1>5. CASE Download(r)
  BY <1>5, DownloadEpisode
<1>6. CASE Transcode(r)
  <2>1. /\ pc[r] = "transcode" /\ outcome[r] # "ok"
        /\ UNCHANGED <<selected, out_dir, steady>>
    BY <1>1, <1>6 DEF Transcode, OwnDirs
  <2>2. CASE disk' = Put(r, AudioFile, source[r]) /\ pc'[r] = "transcription"
    <3>1. AudioFile \in Artifacts /\ pc[r] \in Working
      BY <2>1 DEF AudioFile, Artifacts, Working
    <3>2. File(r, AudioFile)' = source[r]
      BY <1>1, <2>1, <2>2, <3>1, WriteInto DEF File
    <3> QED
      BY <1>1, <2>1, <2>2, <3>2 DEF EpisodeOK
  <2>3. CASE Retry(r) /\ UNCHANGED source
    <3>1. pc'[r] \in {"transcode", "ended"} /\ outcome'[r] # "ok"
      BY <1>1, <2>1, <2>3 DEF Retry, Ends, Domains
    <3> QED
      BY <1>1, <2>1, <2>3, <3>1 DEF EpisodeOK, HasAudio, Working
  <2> QED
    BY <1>1, <1>6, <2>2, <2>3 DEF Transcode, Becomes, Domains, AudioFile
<1>7. CASE pc[r] \in HasAudio
  <2>1. steady' = steady
    BY <1>1, <1>7, SteadyStep DEF HasAudio, Working
  <2>2. File(r, AudioFile)' = File(r, AudioFile) /\ selected'[r] = selected[r]
        /\ (pc'[r] \in HasAudio \cup {"ended"})
    BY <1>1, <1>7, AudioKept
  <2> QED
    BY <1>1, <1>7, <2>1, <2>2 DEF EpisodeOK, HasAudio, Working
<1>8. CASE (Interrupt(r) \/ Kill(r)) /\ pc[r] \notin HasAudio
  <2>1. pc'[r] = "ended" /\ outcome'[r] # "ok"
    BY <1>1, <1>8 DEF Interrupt, Kill, Ends, Domains
  <2> QED
    BY <2>1 DEF EpisodeOK, HasAudio, Working
<1> QED
  BY <1>2, <1>3, <1>4, <1>5, <1>6, <1>7, <1>8
     DEF RunStep, Step, StartCli, CliRuns, CliEnded, Format, WriteTranscript,
         WriteManifest, WriteFile, HasAudio, Working, Whisper

(* And no step touches what the others have chosen and made. *)
LEMMA EpisodeStep ==
  ASSUME FlowInv, EpisodeInv, [Next]_vars
  PROVE  EpisodeInv'
<1>1. Domains /\ OwnDirs /\ DOMAIN steady = Runs /\ \A q \in Runs : EpisodeOK(q)
  BY DEF FlowInv, EpisodeInv
<1>2. ASSUME NEW r \in Runs, RunStep(r) PROVE EpisodeInv'
  <2>1. ASSUME NEW q \in Runs \ {r} PROVE EpisodeOK(q)'
    <3>1. Same(q) /\ steady'[q] = steady[q]
      BY <1>1, <1>2, OthersSame, SteadyStep
    <3>2. (pc[q] \in HasAudio \/ outcome[q] = "ok") => File(q, AudioFile)' = File(q, AudioFile)
      <4> SUFFICES ASSUME pc[q] \in HasAudio \/ outcome[q] = "ok"
                   PROVE  File(q, AudioFile)' = File(q, AudioFile)
        OBVIOUS
      <4>1. out_dir[q] # None /\ out_dir[q] \in DOMAIN disk
        BY <1>1 DEF OwnDirs, HasAudio
      <4>2. ~(pc[r] \in Working /\ out_dir[q] = out_dir[r])
        BY <1>1, <4>1 DEF OwnDirs
      <4>3. disk'[out_dir[q]] = disk[out_dir[q]]
        BY <1>1, <1>2, <4>1, <4>2, OthersKept
      <4> QED
        BY <3>1, <4>3 DEF File, Same
    <3>3. EpisodeOK(q)
      BY <1>1
    <3> QED
      BY <3>1, <3>2, <3>3 DEF EpisodeOK, SelectedAt, Same
  <2>2. EpisodeOK(r)' /\ DOMAIN steady' = Runs
    BY <1>1, <1>2, OwnEpisode, SteadyStep
  <2> QED
    BY <2>1, <2>2 DEF EpisodeInv
<1>3. ASSUME World \/ UNCHANGED vars PROVE EpisodeInv'
  <2>1. UNCHANGED <<pc, info, selected, out_dir, source, steady, outcome, disk>>
    BY <1>3 DEF World, Tick, Publish, Withdraw, vars, runVars
  <2>2. \A q \in Runs : EpisodeOK(q)'
    BY <1>1, <2>1 DEF EpisodeOK, SelectedAt, File
  <2> QED
    BY <1>1, <2>1, <2>2 DEF EpisodeInv
<1> QED
  BY <1>2, <1>3 DEF Next, World, RunStep

(* A run that reports success has transcribed the whole of the episode that *)
(* was chosen, provided the page at the download is the page it inspected,  *)
(* whatever failed, was tried again, or was done by other runs meanwhile.   *)
THEOREM EpisodeChosen == Spec => []ChosenEpisode
<1>1. Init => EpisodeInv
  BY DEF Init, EpisodeInv, EpisodeOK, HasAudio, Working
<1>2. FlowInv /\ EpisodeInv /\ [Next]_vars => EpisodeInv'
  BY EpisodeStep
<1>3. FlowInv /\ EpisodeInv => ChosenEpisode
  <2> SUFFICES ASSUME FlowInv, EpisodeInv, NEW r \in Runs, outcome[r] = "ok", steady[r]
               PROVE  File(r, "01_transcript.md") = selected[r].episode
    BY DEF ChosenEpisode
  <2>1. StageOK(r, disk[out_dir[r]])
    BY DEF FlowInv, OwnDirs, StagesOK
  <2>2. File(r, "01_transcript.md") = File(r, AudioFile)
    BY <2>1 DEF StageOK, File, Artifacts
  <2> QED
    BY <2>2 DEF EpisodeInv, EpisodeOK
<1> QED
  BY <1>1, <1>2, <1>3, FlowAlways, PTL DEF Spec

-----------------------------------------------------------------------------
(* Induction over data: the induction theorems of the library take an       *)
(* operator, these take a set.                                              *)
NatOrder == {p \in Nat \X Nat : p[1] < p[2]}

(* Every set of naturals has a least element. *)
LEMMA Smallest ==
  ASSUME NEW S, S \subseteq Nat, S # {}
  PROVE  \E x \in S : \A y \in S : x <= y
<1>1. IsWellFoundedOn(NatOrder, Nat)
  BY NatLessThanWellFounded DEF OpToRel, NatOrder
<1>2. \E x \in S : \A y \in S : ~(<<y, x>> \in NatOrder)
  BY <1>1, WFMin
<1>3. PICK x \in S : \A y \in S : ~(<<y, x>> \in NatOrder)
  BY <1>2
<1>4. ASSUME NEW y \in S PROVE x <= y
  <2>1. x \in Nat /\ y \in Nat /\ <<y, x>> \in Nat \X Nat /\ <<y, x>> \notin NatOrder
    BY <1>3
  <2>2. ~(y < x)
    BY <2>1 DEF NatOrder
  <2> QED
    BY <2>1, <2>2
<1> QED
  BY <1>4

(* Induction up to n, over a set. *)
LEMMA UpTo ==
  ASSUME NEW n \in Nat, NEW S, 0 \in S, \A m \in 0 .. n - 1 : m \in S => m + 1 \in S
  PROVE  \A m \in 0 .. n : m \in S
<1> DEFINE out == {m \in 0 .. n : m \notin S}
<1> SUFFICES ASSUME out # {} PROVE FALSE
  OBVIOUS
<1>1. PICK x \in out : \A y \in out : x <= y
  <2>1. out \subseteq Nat
    OBVIOUS
  <2> HIDE DEF out
  <2> QED
    BY <2>1, Smallest
<1>2. x \in Nat /\ x # 0 /\ x - 1 \in 0 .. n - 1 /\ x \notin S
  BY <1>1
<1>3. x - 1 \in S
  <2> SUFFICES ASSUME x - 1 \notin S PROVE FALSE
    OBVIOUS
  <2>1. x - 1 \in out /\ ~(x <= x - 1)
    BY <1>2
  <2> QED
    BY <1>1, <2>1
<1>4. (x - 1) + 1 \in S /\ (x - 1) + 1 = x
  BY <1>2, <1>3
<1> QED
  BY <1>2, <1>4

(* The last index is the greatest. *)
LEMMA MaxIs ==
  ASSUME NEW m \in Nat, NEW S \in SUBSET (1 .. m + 1), m + 1 \in S
  PROVE  Max(S) = m + 1
<1>1. \A y \in S : m + 1 >= y
  OBVIOUS
<1>2. PICK x \in S : x = Max(S) /\ \A y \in S : x >= y
  BY <1>1 DEF Max
<1> QED
  BY <1>2

(* Every set of indexes has a greatest one. *)
LEMMA MaxExists ==
  ASSUME NEW n \in Nat, NEW S \in SUBSET (1 .. n), S # {}
  PROVE  Max(S) \in S
<1> DEFINE below == {n - y : y \in S}
<1>1. below \subseteq Nat /\ below # {}
  <2>1. ASSUME NEW y \in S PROVE n - y \in Nat
    OBVIOUS
  <2>2. PICK y \in S : TRUE
    OBVIOUS
  <2>3. n - y \in below
    OBVIOUS
  <2> QED
    BY <2>1, <2>3
<1>2. PICK x \in below : \A y \in below : x <= y
  <2> HIDE DEF below
  <2> QED
    BY <1>1, Smallest
<1>3. PICK z \in S : x = n - z
  BY <1>2
<1>4. ASSUME NEW y \in S PROVE z >= y
  <2>1. n - y \in below
    OBVIOUS
  <2>2. n - z <= n - y
    BY <1>2, <1>3, <2>1
  <2>3. z \in 1 .. n /\ y \in 1 .. n
    OBVIOUS
  <2> HIDE DEF below
  <2> QED
    BY <2>2, <2>3
<1> QED
  BY <1>4 DEF Max

(* The equation of a fold over the first m elements of s. *)
FoldEq(g, F, b, s, m) ==
  g = [S \in SUBSET (1 .. m) |->
         IF S = {} THEN b ELSE F[<<g[S \ {Max(S)}], s[Max(S)]>>]]

(* A fold over a sequence is well defined. *)
LEMMA FoldExists ==
  ASSUME NEW A, NEW T, NEW F \in [A \X T -> A], NEW b \in A, NEW s \in Seq(T)
  PROVE  \E g \in [SUBSET (1 .. Len(s)) -> A] : FoldEq(g, F, b, s, Len(s))
<1> DEFINE Good == {m \in 0 .. Len(s) : \E g \in [SUBSET (1 .. m) -> A] : FoldEq(g, F, b, s, m)}
<1>0. Len(s) \in Nat
  OBVIOUS
<1>1. 0 \in Good
  <2> DEFINE g == [S \in SUBSET (1 .. 0) |-> b]
  <2>1. SUBSET (1 .. 0) = {{}}
    OBVIOUS
  <2>2. g \in [SUBSET (1 .. 0) -> A] /\ \A S \in SUBSET (1 .. 0) : S = {}
    BY <2>1
  <2>3. FoldEq(g, F, b, s, 0)
    <3>1. \A S \in SUBSET (1 .. 0) :
            b = IF S = {} THEN b ELSE F[<<g[S \ {Max(S)}], s[Max(S)]>>]
      BY <2>2
    <3>2. g = [S \in SUBSET (1 .. 0) |-> b]
      OBVIOUS
    <3> HIDE DEF g
    <3> QED
      BY <3>1, <3>2 DEF FoldEq
  <2> HIDE DEF g
  <2> QED
    <3>1. 0 \in 0 .. Len(s)
      BY <1>0
    <3>2. \E f \in [SUBSET (1 .. 0) -> A] : FoldEq(f, F, b, s, 0)
      BY <2>2, <2>3
    <3> QED
      BY <3>1, <3>2
<1>2. ASSUME NEW m \in 0 .. Len(s) - 1, m \in Good PROVE m + 1 \in Good
  <2>1. m \in Nat /\ m + 1 \in 0 .. Len(s) /\ s[m + 1] \in T
    BY <1>0
  <2>2. PICK g \in [SUBSET (1 .. m) -> A] : FoldEq(g, F, b, s, m)
    BY <1>2
  <2> DEFINE h == [S \in SUBSET (1 .. m + 1) |->
                     IF m + 1 \in S THEN F[<<g[S \ {m + 1}], s[m + 1]>>] ELSE g[S]]
  <2>3. ASSUME NEW S \in SUBSET (1 .. m + 1)
        PROVE  /\ m + 1 \in S => S \ {m + 1} \in SUBSET (1 .. m)
               /\ m + 1 \notin S => S \in SUBSET (1 .. m)
    BY <2>1
  <2>4. h \in [SUBSET (1 .. m + 1) -> A]
    <3>1. ASSUME NEW S \in SUBSET (1 .. m + 1) PROVE h[S] \in A
      <4>1. CASE m + 1 \in S
        <5>1. g[S \ {m + 1}] \in A
          BY <2>3, <4>1
        <5>2. <<g[S \ {m + 1}], s[m + 1]>> \in A \X T
          BY <2>1, <5>1
        <5> QED
          BY <4>1, <5>2
      <4>2. CASE m + 1 \notin S
        BY <2>3, <4>2
      <4> QED
        BY <4>1, <4>2
    <3> QED
      BY <3>1
  <2>5. ASSUME NEW S \in SUBSET (1 .. m + 1)
        PROVE  h[S] = IF S = {} THEN b ELSE F[<<h[S \ {Max(S)}], s[Max(S)]>>]
    <3>1. CASE m + 1 \in S
      <4>1. Max(S) = m + 1
        BY <2>1, <3>1, MaxIs
      <4>2. S \ {m + 1} \in SUBSET (1 .. m + 1) /\ m + 1 \notin S \ {m + 1} /\ S # {}
        BY <3>1
      <4>3. h[S \ {m + 1}] = g[S \ {m + 1}]
        BY <4>2
      <4>4. h[S] = F[<<g[S \ {m + 1}], s[m + 1]>>]
        BY <3>1
      <4> QED
        BY <4>1, <4>2, <4>3, <4>4
    <3>2. CASE m + 1 \notin S
      <4>1. S \in SUBSET (1 .. m) /\ h[S] = g[S]
        BY <2>3, <3>2
      <4>2. g[S] = IF S = {} THEN b ELSE F[<<g[S \ {Max(S)}], s[Max(S)]>>]
        BY <2>2, <4>1 DEF FoldEq
      <4>3. S \ {Max(S)} \in SUBSET (1 .. m + 1) /\ m + 1 \notin S \ {Max(S)}
        BY <3>2
      <4>4. h[S \ {Max(S)}] = g[S \ {Max(S)}]
        BY <4>3
      <4> QED
        BY <4>1, <4>2, <4>4
    <3> QED
      BY <3>1, <3>2
  <2>6. FoldEq(h, F, b, s, m + 1)
    <3>1. h = [S \in SUBSET (1 .. m + 1) |-> h[S]]
      OBVIOUS
    <3> HIDE DEF h
    <3> QED
      BY <2>5, <3>1 DEF FoldEq
  <2> HIDE DEF h
  <2> QED
    BY <2>1, <2>4, <2>6
<1>3. Len(s) \in Good
  <2> HIDE DEF Good
  <2>1. \A m \in 0 .. Len(s) : m \in Good
    BY <1>0, <1>1, <1>2, UpTo
  <2> QED
    BY <1>0, <2>1
<1> QED
  BY <1>3

(* What the equation of a fold says of the first m + 1 elements. *)
LEMMA Prefix ==
  ASSUME NEW n \in Nat, NEW m \in 0 .. n - 1
  PROVE  /\ 1 .. m + 1 \in SUBSET (1 .. n) /\ 1 .. m + 1 # {}
         /\ Max(1 .. m + 1) = m + 1 /\ (1 .. m + 1) \ {m + 1} = 1 .. m
<1>1. PICK S : S = 1 .. m + 1
  OBVIOUS
<1>2. m \in Nat /\ m + 1 \in S /\ S \in SUBSET (1 .. m + 1) /\ S \in SUBSET (1 .. n)
  BY <1>1
<1>3. Max(S) = m + 1
  BY <1>2, MaxIs
<1>4. S # {} /\ S \ {m + 1} = 1 .. m
  <2>1. ASSUME NEW x PROVE x \in S \ {m + 1} <=> x \in 1 .. m
    BY <1>1, <1>2
  <2>2. S \ {m + 1} = 1 .. m
    BY <2>1, Zenon
  <2> QED
    BY <1>2, <2>2
<1> QED
  BY <1>1, <1>2, <1>3, <1>4, Zenon

-----------------------------------------------------------------------------
(* The loop that keeps what is in S. *)
LEMMA AmongSteps ==
  ASSUME NEW T, NEW s \in Seq(T), NEW S
  PROVE  \E f : /\ f[0] = <<>> /\ Among(s, S) = f[Len(s)]
                /\ \A m \in 0 .. Len(s) - 1 : f[m + 1] = KeepIf(f[m], s[m + 1], S)
<1> DEFINE A == Seq(T)
           F == [x \in A \X T |-> KeepIf(x[1], x[2], S)]
           Eq(g) == g = [I \in SUBSET DOMAIN s |->
                          IF I = {} THEN <<>> ELSE KeepIf(g[I \ {Max(I)}], s[Max(I)], S)]
<1>0. DOMAIN s = 1 .. Len(s) /\ Len(s) \in Nat /\ <<>> \in A
  OBVIOUS
<1>1. F \in [A \X T -> A]
  <2>1. ASSUME NEW a \in A, NEW x \in T PROVE KeepIf(a, x, S) \in A
    BY DEF KeepIf
  <2> QED
    BY <2>1
<1>2. PICK h \in [SUBSET (1 .. Len(s)) -> A] : FoldEq(h, F, <<>>, s, Len(s))
  <2> HIDE DEF F, A
  <2> QED
    BY <1>0, <1>1, FoldExists
<1>3. ASSUME NEW I \in SUBSET (1 .. Len(s)), I # {}
      PROVE  /\ I \ {Max(I)} \in SUBSET (1 .. Len(s)) /\ s[Max(I)] \in T
  <2>1. Max(I) \in I
    BY <1>0, <1>3, MaxExists
  <2>2. PICK k : k = Max(I) /\ k \in 1 .. Len(s)
    BY <2>1
  <2>3. s[k] \in T
    BY <2>2
  <2> HIDE DEF A, F, Eq
  <2> QED
    BY <2>2, <2>3
<1>4. Eq(h)
  <2>1. ASSUME NEW I \in SUBSET (1 .. Len(s))
        PROVE  h[I] = IF I = {} THEN <<>> ELSE KeepIf(h[I \ {Max(I)}], s[Max(I)], S)
    <3>1. h[I] = IF I = {} THEN <<>> ELSE F[<<h[I \ {Max(I)}], s[Max(I)]>>]
      BY <1>2 DEF FoldEq
    <3>2. I # {} => <<h[I \ {Max(I)}], s[Max(I)]>> \in A \X T
      BY <1>3
    <3>3. I # {} => F[<<h[I \ {Max(I)}], s[Max(I)]>>] = KeepIf(h[I \ {Max(I)}], s[Max(I)], S)
      BY <3>2
    <3> HIDE DEF F
    <3> QED
      BY <3>1, <3>3
  <2>2. h = [I \in SUBSET (1 .. Len(s)) |-> h[I]]
    OBVIOUS
  <2> QED
    BY <1>0, <2>1, <2>2
<1>5. Among(s, S) = (CHOOSE g : Eq(g))[DOMAIN s]
  BY Zenon DEF Among, FoldLeft, MapThenFoldSet
<1>6. PICK g : g = (CHOOSE f : Eq(f)) /\ Eq(g)
  <2> HIDE DEF Eq
  <2> QED
    BY <1>4
<1>7. PICK D : D = SUBSET (1 .. Len(s))
  OBVIOUS
<1>8. \A I \in D : g[I] = IF I = {} THEN <<>> ELSE KeepIf(g[I \ {Max(I)}], s[Max(I)], S)
  <2>1. g = [I \in D |-> IF I = {} THEN <<>> ELSE KeepIf(g[I \ {Max(I)}], s[Max(I)], S)]
    BY <1>0, <1>6, <1>7
  <2> QED
    BY <2>1, Zenon
<1>9. PICK f : f = [m \in 0 .. Len(s) |-> g[1 .. m]]
  OBVIOUS
<1>10. f[0] = <<>>
  <2>1. 1 .. 0 = {} /\ {} \in D
    BY <1>7
  <2>2. g[{}] = <<>>
    BY <1>8, <2>1
  <2> QED
    BY <1>0, <1>9, <2>1, <2>2
<1>11. f[Len(s)] = Among(s, S)
  <2>1. f[Len(s)] = g[1 .. Len(s)]
    BY <1>0, <1>9
  <2> QED
    BY <1>0, <1>5, <1>6, <2>1
<1>12. ASSUME NEW m \in 0 .. Len(s) - 1 PROVE f[m + 1] = KeepIf(f[m], s[m + 1], S)
  <2>1. PICK I : I = 1 .. m + 1
    OBVIOUS
  <2>2. I \in D /\ I # {} /\ Max(I) = m + 1 /\ I \ {m + 1} = 1 .. m
    BY <1>0, <1>7, <2>1, Prefix
  <2>3. g[I] = KeepIf(g[1 .. m], s[m + 1], S)
    BY <1>8, <2>2
  <2>4. f[m] = g[1 .. m] /\ f[m + 1] = g[I]
    BY <1>0, <1>9, <2>1
  <2> QED
    BY <2>3, <2>4
<1> QED
  BY <1>10, <1>11, <1>12

(* What has been kept of the first m. *)
KeptOf(kept, s, S, T, m) ==
  /\ kept \in Seq(T)
  /\ \A k \in 1 .. Len(kept) : kept[k] \in S /\ \E j \in 1 .. m : kept[k] = s[j]

-----------------------------------------------------------------------------
(* Segments; the names and the empty text that the script itself writes are *)
(* listed, for the provers do not know that they are strings.               *)
Word == STRING \cup {NoText}
Name == STRING \cup {"Speaker A", "Speaker B"}
Item == [t0 : Int, t1 : Int, text : Word, speaker : Name, turn_next : BOOLEAN]

LEMMA SegmentIsItem == \A s : s \in Segment => s \in Item
BY DEF Segment, Item, Word, Name

LEMMA KeptStep ==
  ASSUME NEW T, NEW s \in Seq(T), NEW S, NEW m \in 0 .. Len(s) - 1, NEW a,
         KeptOf(a, s, S, T, m)
  PROVE  KeptOf(KeepIf(a, s[m + 1], S), s, S, T, m + 1)
<1>1. PICK x : x = s[m + 1]
  OBVIOUS
<1>2. x \in T /\ m \in Nat /\ m + 1 \in 1 .. m + 1
  BY <1>1
<1>3. CASE x \in S
  <2>1. KeepIf(a, x, S) = Append(a, x)
    BY <1>3 DEF KeepIf
  <2>2. /\ Append(a, x) \in Seq(T) /\ Len(Append(a, x)) = Len(a) + 1 /\ Len(a) \in Nat
        /\ Append(a, x)[Len(a) + 1] = x /\ \A k \in 1 .. Len(a) : Append(a, x)[k] = a[k]
    BY <1>2 DEF KeptOf
  <2>3. ASSUME NEW k \in 1 .. Len(a) + 1
        PROVE  Append(a, x)[k] \in S /\ \E j \in 1 .. m + 1 : Append(a, x)[k] = s[j]
    <3>1. CASE k = Len(a) + 1
      BY <1>1, <1>2, <1>3, <2>2, <3>1
    <3>2. CASE k # Len(a) + 1
      <4>1. k \in 1 .. Len(a)
        BY <2>2, <3>2
      <4>2. PICK j \in 1 .. m : a[k] = s[j]
        BY <4>1 DEF KeptOf
      <4>3. j \in 1 .. m + 1 /\ a[k] \in S
        BY <1>2, <4>1 DEF KeptOf
      <4> QED
        BY <2>2, <4>1, <4>2, <4>3
    <3> QED
      BY <3>1, <3>2
  <2> QED
    BY <1>1, <2>1, <2>2, <2>3 DEF KeptOf
<1>4. CASE x \notin S
  <2>1. KeepIf(a, x, S) = a
    BY <1>4 DEF KeepIf
  <2>2. \A j \in 1 .. m : j \in 1 .. m + 1
    BY <1>2
  <2> QED
    BY <1>1, <2>1, <2>2 DEF KeptOf
<1> QED
  BY <1>3, <1>4

(* What is kept is of s and in S. *)
LEMMA AmongOf ==
  ASSUME NEW T, NEW s \in Seq(T), NEW S
  PROVE  KeptOf(Among(s, S), s, S, T, Len(s))
<1>1. PICK f : /\ f[0] = <<>> /\ Among(s, S) = f[Len(s)]
               /\ \A m \in 0 .. Len(s) - 1 : f[m + 1] = KeepIf(f[m], s[m + 1], S)
  BY AmongSteps
<1>0. Len(s) \in Nat
  OBVIOUS
<1> DEFINE Good == {m \in 0 .. Len(s) : KeptOf(f[m], s, S, T, m)}
<1>2. 0 \in Good
  <2>1. KeptOf(<<>>, s, S, T, 0)
    BY DEF KeptOf
  <2> QED
    BY <1>0, <1>1, <2>1
<1>3. ASSUME NEW m \in 0 .. Len(s) - 1, m \in Good PROVE m + 1 \in Good
  <2>1. KeptOf(f[m], s, S, T, m) /\ m + 1 \in 0 .. Len(s)
    BY <1>0, <1>3
  <2>2. KeptOf(KeepIf(f[m], s[m + 1], S), s, S, T, m + 1)
    BY <2>1, KeptStep
  <2> QED
    BY <1>1, <2>1, <2>2
<1>4. Len(s) \in Good
  <2>1. Len(s) \in 0 .. Len(s)
    BY <1>0
  <2> HIDE DEF Good
  <2> QED
    BY <1>0, <1>2, <1>3, <2>1, UpTo
<1> QED
  BY <1>1, <1>4

(* A loop that passes by some segments keeps the others in order. *)
LEMMA AmongOrder ==
  ASSUME NEW s \in Seq(Item), InOrder(s), NEW S
  PROVE  Among(s, S) \in Seq(Item) /\ InOrder(Among(s, S))
<1>1. PICK f : /\ f[0] = <<>> /\ Among(s, S) = f[Len(s)]
               /\ \A m \in 0 .. Len(s) - 1 : f[m + 1] = KeepIf(f[m], s[m + 1], S)
  BY AmongSteps
<1>0. Len(s) \in Nat
  OBVIOUS
<1> DEFINE Good == {m \in 0 .. Len(s) : KeptOf(f[m], s, S, Item, m) /\ InOrder(f[m])}
<1>2. 0 \in Good
  <2>1. KeptOf(<<>>, s, S, Item, 0) /\ InOrder(<<>>)
    BY DEF KeptOf, InOrder
  <2> QED
    BY <1>0, <1>1, <2>1
<1>3. ASSUME NEW m \in 0 .. Len(s) - 1, m \in Good PROVE m + 1 \in Good
  <2>1. PICK a, x, b : a = f[m] /\ x = s[m + 1] /\ b = KeepIf(a, x, S)
    OBVIOUS
  <2>2. KeptOf(a, s, S, Item, m) /\ InOrder(a) /\ m + 1 \in 0 .. Len(s)
    BY <1>0, <1>3, <2>1
  <2>3. KeptOf(b, s, S, Item, m + 1)
    BY <2>1, <2>2, KeptStep
  <2>4. InOrder(b)
    <3>1. CASE x \notin S
      BY <2>1, <2>2, <3>1 DEF KeepIf
    <3>2. CASE x \in S
      <4>1. b = Append(a, x) /\ x \in Item /\ a \in Seq(Item)
        BY <2>1, <2>2, <3>2 DEF KeepIf, KeptOf
      <4>2. /\ DOMAIN b = 1 .. Len(a) + 1 /\ Len(a) \in Nat /\ DOMAIN a = 1 .. Len(a)
            /\ b[Len(a) + 1] = x /\ \A k \in 1 .. Len(a) : b[k] = a[k]
        BY <4>1
      <4>3. x.t0 \in Int /\ x.t1 \in Int
        BY <4>1 DEF Item
      <4>4. ASSUME NEW j \in DOMAIN b, NEW k \in DOMAIN b, j <= k
            PROVE  b[j].t0 <= b[k].t0 /\ b[j].t1 <= b[k].t1
        <5>1. CASE k # Len(a) + 1
          <6>1. j \in DOMAIN a /\ k \in DOMAIN a /\ b[j] = a[j] /\ b[k] = a[k]
            BY <4>2, <4>4, <5>1
          <6> QED
            BY <2>2, <4>4, <6>1 DEF InOrder
        <5>2. CASE k = Len(a) + 1 /\ j = Len(a) + 1
          BY <4>2, <4>3, <5>2
        <5>3. CASE k = Len(a) + 1 /\ j # Len(a) + 1
          <6>1. j \in 1 .. Len(a) /\ b[j] = a[j] /\ b[k] = x
            BY <4>2, <5>3
          <6>2. PICK i \in 1 .. m : a[j] = s[i]
            BY <2>2, <6>1 DEF KeptOf
          <6>3. i \in DOMAIN s /\ m + 1 \in DOMAIN s /\ i <= m + 1
            BY <1>0
          <6> QED
            BY <2>1, <6>1, <6>2, <6>3 DEF InOrder
        <5> QED
          BY <5>1, <5>2, <5>3
      <4> QED
        BY <4>4 DEF InOrder
    <3> QED
      BY <3>1, <3>2
  <2>5. f[m + 1] = b
    BY <1>1, <2>1
  <2> QED
    BY <2>2, <2>3, <2>4, <2>5
<1>4. Len(s) \in Good
  <2>1. Len(s) \in 0 .. Len(s)
    BY <1>0
  <2> HIDE DEF Good
  <2> QED
    BY <1>0, <1>2, <1>3, <2>1, UpTo
<1>5. KeptOf(Among(s, S), s, S, Item, Len(s)) /\ InOrder(Among(s, S))
  BY <1>1, <1>4
<1> QED
  BY <1>5 DEF KeptOf

-----------------------------------------------------------------------------
Turn == [t0 : Int, t1 : Int, speaker : Name, parts : Seq(Word)]

LEMMA LastOf ==
  ASSUME NEW T, NEW a \in Seq(T), a # <<>>
  PROVE  /\ Len(a) \in Nat /\ Len(a) >= 1 /\ Len(a) \in DOMAIN a
         /\ Last(a) = a[Len(a)] /\ a[Len(a)] \in T
BY DEF Last

LEMMA Appended ==
  ASSUME NEW T, NEW a \in Seq(T), NEW x \in T
  PROVE  /\ Append(a, x) \in Seq(T) /\ Len(a) \in Nat /\ Len(Append(a, x)) = Len(a) + 1
         /\ Append(a, x)[Len(a) + 1] = x /\ \A k \in 1 .. Len(a) : Append(a, x)[k] = a[k]
OBVIOUS

LEMMA Replaced ==
  ASSUME NEW T, NEW a \in Seq(T), NEW k \in 1 .. Len(a), NEW x \in T
  PROVE  /\ [a EXCEPT ![k] = x] \in Seq(T) /\ Len([a EXCEPT ![k] = x]) = Len(a)
         /\ [a EXCEPT ![k] = x][k] = x
         /\ \A j \in 1 .. Len(a) : j # k => [a EXCEPT ![k] = x][j] = a[j]
OBVIOUS

LEMMA NewTurnTyped ==
  ASSUME NEW s \in Item
  PROVE  NewTurn(s) \in Turn
<1>1. s.t0 \in Int /\ s.t1 \in Int /\ s.speaker \in Name /\ s.text \in Word
  BY DEF Item
<1>2. (IF s.text = NoText THEN <<>> ELSE <<s.text>>) \in Seq(Word)
  <2>1. PICK x : x = s.text
    OBVIOUS
  <2>2. <<x>> \in Seq(Word) /\ <<>> \in Seq(Word)
    BY <1>1, <2>1
  <2> QED
    BY <2>1, <2>2, Zenon
<1> QED
  BY <1>1, <1>2 DEF NewTurn, Turn

LEMMA ExtendedTyped ==
  ASSUME NEW t \in Turn, NEW s \in Item
  PROVE  /\ Extended(t, s) \in Turn
         /\ Extended(t, s).t0 = t.t0 /\ Extended(t, s).t1 = s.t1
         /\ Extended(t, s).speaker = t.speaker
         /\ s.text = NoText => Extended(t, s).parts = t.parts
         /\ s.text # NoText => Extended(t, s).parts = Append(t.parts, s.text)
<1>1. s.t1 \in Int /\ s.text \in Word
  BY DEF Item
<1>2. PICK p : p = IF s.text = NoText THEN t.parts ELSE Append(t.parts, s.text)
  OBVIOUS
<1>3. p \in Seq(Word)
  <2>1. PICK x, b : x = s.text /\ b = t.parts
    OBVIOUS
  <2>2. b \in Seq(Word) /\ x \in Word
    BY <1>1, <2>1 DEF Turn
  <2>3. Append(b, x) \in Seq(Word)
    BY <2>2, Appended, Zenon
  <2> QED
    BY <1>2, <2>1, <2>2, <2>3, Zenon
<1>4. Extended(t, s) = [t EXCEPT !.t1 = s.t1, !.parts = p]
  BY <1>2 DEF Extended
<1>5. /\ Extended(t, s) \in Turn
      /\ Extended(t, s).t0 = t.t0 /\ Extended(t, s).t1 = s.t1
      /\ Extended(t, s).speaker = t.speaker /\ Extended(t, s).parts = p
  BY <1>1, <1>3, <1>4 DEF Turn
<1> QED
  BY <1>2, <1>5

(* What the loop does with the next segment: it passes by an empty one      *)
(* before the first turn, extends the last turn or begins another.          *)
LEMMA AddCases ==
  ASSUME NEW a \in Seq(Turn), NEW s \in Item
  PROVE  \/ a = <<>> /\ s.text = NoText /\ AddToTurns(a, s) = a
         \/ /\ a # <<>> /\ a[Len(a)].speaker = s.speaker
            /\ Extended(a[Len(a)], s) \in Turn /\ Len(a) \in 1 .. Len(a)
            /\ AddToTurns(a, s) = [a EXCEPT ![Len(a)] = Extended(a[Len(a)], s)]
         \/ AddToTurns(a, s) = Append(a, NewTurn(s)) /\ NewTurn(s) \in Turn
<1>1. CASE a = <<>> /\ s.text = NoText
  BY <1>1, Zenon DEF AddToTurns
<1>2. CASE a # <<>> /\ Last(a).speaker = s.speaker
  <2>1. Last(a) = a[Len(a)] /\ Len(a) \in 1 .. Len(a) /\ a[Len(a)] \in Turn
    BY <1>2, LastOf
  <2>2. AddToTurns(a, s) = [a EXCEPT ![Len(a)] = Extended(a[Len(a)], s)]
    BY <1>2 DEF AddToTurns
  <2>3. Extended(a[Len(a)], s) \in Turn
    BY <2>1, ExtendedTyped, Zenon
  <2> QED
    BY <1>2, <2>1, <2>2, <2>3, Zenon
<1>3. CASE ~(a = <<>> /\ s.text = NoText) /\ ~(a # <<>> /\ Last(a).speaker = s.speaker)
  BY <1>3, NewTurnTyped, Zenon DEF AddToTurns
<1> QED
  BY <1>1, <1>2, <1>3

LEMMA AddTyped ==
  ASSUME NEW a \in Seq(Turn), NEW s \in Item
  PROVE  AddToTurns(a, s) \in Seq(Turn)
<1>1. ASSUME NEW t \in Turn, Len(a) \in 1 .. Len(a)
      PROVE  [a EXCEPT ![Len(a)] = t] \in Seq(Turn)
  BY <1>1, Replaced, Zenon
<1>2. ASSUME NEW t \in Turn PROVE Append(a, t) \in Seq(Turn)
  BY Appended, Zenon
<1> QED
  BY <1>1, <1>2, AddCases, Zenon

(* The loop of merge_segments_into_turns. *)
LEMMA TurnsSteps ==
  ASSUME NEW s \in Seq(Item)
  PROVE  \E f : /\ f[0] = <<>> /\ TurnsOf(s) = f[Len(s)]
                /\ \A m \in 0 .. Len(s) - 1 : f[m + 1] = AddToTurns(f[m], s[m + 1])
<1> DEFINE A == Seq(Turn)
           F == [x \in A \X Item |-> AddToTurns(x[1], x[2])]
           Eq(g) == g = [I \in SUBSET DOMAIN s |->
                          IF I = {} THEN <<>> ELSE AddToTurns(g[I \ {Max(I)}], s[Max(I)])]
<1>0. DOMAIN s = 1 .. Len(s) /\ Len(s) \in Nat /\ <<>> \in A
  OBVIOUS
<1>1. F \in [A \X Item -> A]
  <2>1. ASSUME NEW a \in A, NEW x \in Item PROVE AddToTurns(a, x) \in A
    BY AddTyped
  <2> HIDE DEF A
  <2> QED
    BY <2>1
<1>2. PICK h \in [SUBSET (1 .. Len(s)) -> A] : FoldEq(h, F, <<>>, s, Len(s))
  <2> HIDE DEF F, A
  <2> QED
    BY <1>0, <1>1, FoldExists
<1>3. ASSUME NEW I \in SUBSET (1 .. Len(s)), I # {}
      PROVE  /\ I \ {Max(I)} \in SUBSET (1 .. Len(s)) /\ s[Max(I)] \in Item
  <2>1. Max(I) \in I
    BY <1>0, <1>3, MaxExists
  <2>2. PICK k : k = Max(I) /\ k \in 1 .. Len(s)
    BY <2>1
  <2>3. s[k] \in Item
    BY <2>2
  <2> HIDE DEF A, F, Eq
  <2> QED
    BY <2>2, <2>3
<1>4. Eq(h)
  <2>1. ASSUME NEW I \in SUBSET (1 .. Len(s))
        PROVE  h[I] = IF I = {} THEN <<>> ELSE AddToTurns(h[I \ {Max(I)}], s[Max(I)])
    <3>1. h[I] = IF I = {} THEN <<>> ELSE F[<<h[I \ {Max(I)}], s[Max(I)]>>]
      BY <1>2 DEF FoldEq
    <3>2. I # {} => <<h[I \ {Max(I)}], s[Max(I)]>> \in A \X Item
      BY <1>3
    <3>3. I # {} => F[<<h[I \ {Max(I)}], s[Max(I)]>>] = AddToTurns(h[I \ {Max(I)}], s[Max(I)])
      BY <3>2
    <3> HIDE DEF F
    <3> QED
      BY <3>1, <3>3
  <2>2. h = [I \in SUBSET (1 .. Len(s)) |-> h[I]]
    OBVIOUS
  <2> QED
    BY <1>0, <2>1, <2>2
<1>5. TurnsOf(s) = (CHOOSE g : Eq(g))[DOMAIN s]
  BY Zenon DEF TurnsOf, FoldLeft, MapThenFoldSet
<1>6. PICK g : g = (CHOOSE f : Eq(f)) /\ Eq(g)
  <2> HIDE DEF Eq
  <2> QED
    BY <1>4
<1>7. PICK D : D = SUBSET (1 .. Len(s))
  OBVIOUS
<1>8. \A I \in D : g[I] = IF I = {} THEN <<>> ELSE AddToTurns(g[I \ {Max(I)}], s[Max(I)])
  <2>1. g = [I \in D |-> IF I = {} THEN <<>> ELSE AddToTurns(g[I \ {Max(I)}], s[Max(I)])]
    BY <1>0, <1>6, <1>7
  <2> QED
    BY <2>1, Zenon
<1>9. PICK f : f = [m \in 0 .. Len(s) |-> g[1 .. m]]
  OBVIOUS
<1>10. f[0] = <<>>
  <2>1. 1 .. 0 = {} /\ {} \in D
    BY <1>7
  <2>2. g[{}] = <<>>
    BY <1>8, <2>1
  <2> QED
    BY <1>0, <1>9, <2>1, <2>2
<1>11. f[Len(s)] = TurnsOf(s)
  <2>1. f[Len(s)] = g[1 .. Len(s)]
    BY <1>0, <1>9
  <2> QED
    BY <1>0, <1>5, <1>6, <2>1
<1>12. ASSUME NEW m \in 0 .. Len(s) - 1 PROVE f[m + 1] = AddToTurns(f[m], s[m + 1])
  <2>1. PICK I : I = 1 .. m + 1
    OBVIOUS
  <2>2. I \in D /\ I # {} /\ Max(I) = m + 1 /\ I \ {m + 1} = 1 .. m
    BY <1>0, <1>7, <2>1, Prefix
  <2>3. g[I] = AddToTurns(g[1 .. m], s[m + 1])
    BY <1>8, <2>2
  <2>4. f[m] = g[1 .. m] /\ f[m + 1] = g[I]
    BY <1>0, <1>9, <2>1
  <2> QED
    BY <2>3, <2>4
<1> QED
  BY <1>10, <1>11, <1>12

-----------------------------------------------------------------------------
LEMMA SegmentTimes ==
  \A s \in Item : /\ s.t0 \in Int /\ s.t1 \in Int
                     /\ s.text \in Word /\ s.speaker \in Name
BY DEF Item

LEMMA TurnTimes == \A t \in Turn : t.t0 \in Int /\ t.t1 \in Int
BY DEF Turn

(* Part q of a turn is the text of s, said in the turn, which encloses it   *)
(* when the segments the turns are made of are in order.                   *)
Says(segs, t, q, s) ==
  /\ t.parts[q] = s.text /\ t.speaker = s.speaker
  /\ InOrder(segs) => t.t0 <= s.t0 /\ s.t1 <= t.t1

(* cut[j] parts are in the first j turns. *)
Cuts(turns, cut) ==
  /\ cut \in [0 .. Len(turns) -> Nat] /\ cut[0] = 0
  /\ \A j \in 1 .. Len(turns) : cut[j] = cut[j - 1] + Len(turns[j].parts)

(* The turns say the first W of the segments said. *)
Aligned(segs, turns, cut, said, W) ==
  /\ turns \in Seq(Turn) /\ said \in Seq(Item) /\ Cuts(turns, cut)
  /\ cut[Len(turns)] = W /\ W <= Len(said)
  /\ \A j \in 1 .. Len(turns) :
       /\ cut[j] <= W
       /\ \A q \in 1 .. Len(turns[j].parts) : Says(segs, turns[j], q, said[cut[j - 1] + q])

LEMMA AlignedIndex ==
  ASSUME NEW segs, NEW a, NEW cut, NEW said, NEW W, Aligned(segs, a, cut, said, W)
  PROVE  /\ Len(a) \in Nat /\ W \in 0 .. Len(said) /\ Len(said) \in Nat
         /\ \A j \in 1 .. Len(a) :
              /\ j - 1 \in 0 .. Len(a) /\ cut[j - 1] \in Nat /\ cut[j] \in Nat
              /\ a[j] \in Turn /\ a[j].parts \in Seq(Word) /\ Len(a[j].parts) \in Nat
              /\ cut[j] = cut[j - 1] + Len(a[j].parts) /\ cut[j] <= W
              /\ \A q \in 1 .. Len(a[j].parts) :
                   /\ cut[j - 1] + q \in 1 .. W
                   /\ Says(segs, a[j], q, said[cut[j - 1] + q])
<1>1. Len(a) \in Nat /\ Len(said) \in Nat
  BY DEF Aligned
<1>2. W \in 0 .. Len(said)
  <2>1. Len(a) \in 0 .. Len(a)
    BY <1>1
  <2>2. W \in Nat /\ W <= Len(said)
    BY <2>1 DEF Aligned, Cuts
  <2> QED
    BY <1>1, <2>2
<1>3. ASSUME NEW j \in 1 .. Len(a)
      PROVE  /\ j - 1 \in 0 .. Len(a) /\ cut[j - 1] \in Nat /\ cut[j] \in Nat
             /\ a[j] \in Turn /\ a[j].parts \in Seq(Word) /\ Len(a[j].parts) \in Nat
             /\ cut[j] = cut[j - 1] + Len(a[j].parts) /\ cut[j] <= W
  <2>1. j - 1 \in 0 .. Len(a) /\ j \in 0 .. Len(a)
    BY <1>1
  <2>2. cut[j - 1] \in Nat /\ cut[j] \in Nat
    BY <2>1 DEF Aligned, Cuts
  <2>3. cut[j] = cut[j - 1] + Len(a[j].parts) /\ cut[j] <= W
    BY DEF Aligned, Cuts
  <2>4. a[j] \in Turn
    BY DEF Aligned
  <2>5. PICK p : p = a[j].parts
    OBVIOUS
  <2>6. p \in Seq(Word)
    BY <2>4, <2>5 DEF Turn
  <2>7. Len(p) \in Nat
    BY <2>6
  <2> QED
    BY <2>1, <2>2, <2>3, <2>4, <2>5, <2>6, <2>7, Zenon
<1>4. ASSUME NEW j \in 1 .. Len(a), NEW q \in 1 .. Len(a[j].parts)
      PROVE  cut[j - 1] + q \in 1 .. W /\ Says(segs, a[j], q, said[cut[j - 1] + q])
  <2>1. PICK u, v, n : u = cut[j - 1] /\ v = cut[j] /\ n = Len(a[j].parts)
    OBVIOUS
  <2>2. u \in Nat /\ v \in Nat /\ n \in Nat /\ v = u + n /\ v <= W /\ q \in 1 .. n
    BY <1>3, <2>1
  <2>3. u + q \in 1 .. W
    BY <1>2, <2>2
  <2>4. Says(segs, a[j], q, said[cut[j - 1] + q])
    BY Zenon DEF Aligned
  <2> QED
    BY <2>1, <2>3, <2>4
<1> QED
  BY <1>1, <1>2, <1>3, <1>4, Zenon

(* One more turn says the next segments. *)
LEMMA AnotherTurn ==
  ASSUME NEW segs, NEW a, NEW cut, NEW said, NEW W, Aligned(segs, a, cut, said, W),
         NEW t \in Turn, W + Len(t.parts) <= Len(said),
         \A q \in 1 .. Len(t.parts) : Says(segs, t, q, said[W + q])
  PROVE  \E c : Aligned(segs, Append(a, t), c, said, W + Len(t.parts))
<1>1. PICK n, b, N : n = Len(a) /\ b = Append(a, t) /\ N = Len(t.parts)
  OBVIOUS
<1>2. a \in Seq(Turn) /\ said \in Seq(Item) /\ n \in Nat /\ W \in Nat /\ Len(said) \in Nat
  <2>1. a \in Seq(Turn) /\ said \in Seq(Item)
    BY DEF Aligned
  <2>2. Len(a) \in Nat /\ W \in 0 .. Len(said) /\ Len(said) \in Nat
    BY AlignedIndex
  <2> QED
    BY <1>1, <2>1, <2>2
<1>3. N \in Nat
  <2>1. PICK p : p = t.parts
    OBVIOUS
  <2>2. p \in Seq(Word)
    BY <2>1 DEF Turn
  <2>3. Len(p) \in Nat
    BY <2>2
  <2> QED
    BY <1>1, <2>1, <2>3
<1>4. /\ b \in Seq(Turn) /\ Len(b) = n + 1 /\ b[n + 1] = t
      /\ \A k \in 1 .. n : b[k] = a[k]
  <2>1. /\ Append(a, t) \in Seq(Turn) /\ Len(Append(a, t)) = Len(a) + 1
        /\ Append(a, t)[Len(a) + 1] = t /\ \A k \in 1 .. Len(a) : Append(a, t)[k] = a[k]
    BY <1>2, Appended
  <2> QED
    BY <1>1, <2>1, Zenon
<1>5. PICK c : c = [j \in 0 .. n + 1 |-> IF j <= n THEN cut[j] ELSE W + N]
  OBVIOUS
<1>6. /\ \A j \in 0 .. n : c[j] = cut[j] /\ c[j] \in Nat
      /\ c[n + 1] = W + N /\ c[n] = W
  <2>1. ASSUME NEW j \in 0 .. n PROVE c[j] = cut[j] /\ cut[j] \in Nat
    <3>1. j \in 0 .. n + 1 /\ j <= n
      BY <1>2
    <3>2. cut[j] \in Nat
      BY <1>1 DEF Aligned, Cuts
    <3> QED
      BY <1>5, <3>1, <3>2
  <2>2. n + 1 \in 0 .. n + 1 /\ ~(n + 1 <= n) /\ n \in 0 .. n
    BY <1>2
  <2>3. c[n + 1] = W + N
    BY <1>5, <2>2
  <2>4. cut[n] = W
    BY <1>1 DEF Aligned
  <2> QED
    BY <2>1, <2>2, <2>3, <2>4
<1>7. Cuts(b, c)
  <2>1. c \in [0 .. n + 1 -> Nat]
    <3>1. ASSUME NEW j \in 0 .. n + 1
          PROVE  (IF j <= n THEN cut[j] ELSE W + N) \in Nat
      <4>1. CASE j <= n
        <5>1. j \in 0 .. n
          BY <1>2, <4>1
        <5> QED
          BY <1>6, <4>1, <5>1
      <4>2. CASE ~(j <= n)
        BY <1>2, <1>3, <4>2
      <4> QED
        BY <4>1, <4>2
    <3> QED
      BY <1>5, <3>1
  <2>2. c[0] = 0
    <3>1. 0 \in 0 .. n
      BY <1>2
    <3>2. cut[0] = 0
      BY DEF Aligned, Cuts
    <3> QED
      BY <1>6, <3>1, <3>2
  <2>3. ASSUME NEW j \in 1 .. n + 1
        PROVE  c[j] = c[j - 1] + Len(b[j].parts)
    <3>1. CASE j \in 1 .. n
      <4>1. j \in 0 .. n /\ j - 1 \in 0 .. n
        BY <1>2, <3>1
      <4>2. cut[j] = cut[j - 1] + Len(a[j].parts)
        BY <1>1, <3>1, AlignedIndex
      <4> QED
        BY <1>4, <1>6, <3>1, <4>1, <4>2
    <3>2. CASE j = n + 1
      <4>1. j - 1 = n
        BY <1>2, <3>2
      <4> QED
        BY <1>1, <1>4, <1>6, <3>2, <4>1
    <3> QED
      BY <1>2, <3>1, <3>2
  <2> QED
    BY <1>4, <2>1, <2>2, <2>3 DEF Cuts
<1>8. ASSUME NEW j \in 1 .. n + 1
      PROVE  /\ c[j] <= W + N
             /\ \A q \in 1 .. Len(b[j].parts) : Says(segs, b[j], q, said[c[j - 1] + q])
  <2>1. CASE j \in 1 .. n
    <3>1. j \in 0 .. n /\ j - 1 \in 0 .. n
      BY <1>2, <2>1
    <3>2. /\ cut[j] <= W
          /\ \A q \in 1 .. Len(a[j].parts) : Says(segs, a[j], q, said[cut[j - 1] + q])
      BY <1>1, <2>1 DEF Aligned
    <3>3. c[j] <= W + N
      <4>1. PICK x : x = cut[j] /\ x \in Nat
        BY <1>6, <3>1
      <4> QED
        BY <1>2, <1>3, <1>6, <3>1, <3>2, <4>1
    <3>4. b[j] = a[j] /\ c[j - 1] = cut[j - 1]
      BY <1>4, <1>6, <2>1, <3>1
    <3> QED
      BY <3>2, <3>3, <3>4, Zenon
  <2>2. CASE j = n + 1
    <3>1. j - 1 = n /\ W + N <= W + N
      BY <1>2, <1>3, <2>2
    <3>2. b[j] = t /\ c[j] = W + N /\ c[j - 1] = W
      BY <1>4, <1>6, <2>2, <3>1
    <3> QED
      BY <3>1, <3>2, Zenon
  <2> QED
    BY <1>2, <2>1, <2>2
<1>9. Aligned(segs, b, c, said, W + N)
  BY <1>1, <1>2, <1>4, <1>6, <1>7, <1>8, Zenon DEF Aligned
<1> QED
  BY <1>1, <1>9

(* What is said later changes nothing. *)
LEMMA MoreSaid ==
  ASSUME NEW segs, NEW a, NEW cut, NEW said, NEW W, Aligned(segs, a, cut, said, W), NEW s \in Item
  PROVE  Aligned(segs, a, cut, Append(said, s), W)
<1>1. PICK later : later = Append(said, s)
  OBVIOUS
<1>2. /\ later \in Seq(Item) /\ Len(later) = Len(said) + 1 /\ Len(said) \in Nat
      /\ \A k \in 1 .. Len(said) : later[k] = said[k]
  BY <1>1, Appended DEF Aligned
<1>3. W \in 0 .. Len(said)
  BY AlignedIndex
<1>4. ASSUME NEW j \in 1 .. Len(a), NEW q \in 1 .. Len(a[j].parts)
      PROVE  Says(segs, a[j], q, later[cut[j - 1] + q])
  <2>1. PICK i : i = cut[j - 1] + q
    OBVIOUS
  <2>2. i \in 1 .. W /\ Says(segs, a[j], q, said[i])
    BY <2>1, AlignedIndex
  <2>3. i \in 1 .. Len(said)
    BY <1>2, <1>3, <2>2
  <2>4. later[i] = said[i]
    BY <1>2, <2>3
  <2> QED
    BY <2>1, <2>2, <2>4, Zenon
<1>5. W <= Len(later)
  BY <1>2, <1>3
<1>6. Aligned(segs, a, cut, later, W)
  BY <1>2, <1>4, <1>5, Zenon DEF Aligned
<1> QED
  BY <1>1, <1>6

(* The last turn grows by an empty segment. *)
LEMMA LaterEnd ==
  ASSUME NEW segs, NEW a, NEW cut, NEW said, NEW W, Aligned(segs, a, cut, said, W),
         NEW t \in Turn, Len(a) \in 1 .. Len(a),
         t.t0 = a[Len(a)].t0, t.speaker = a[Len(a)].speaker,
         t.parts = a[Len(a)].parts, InOrder(segs) => a[Len(a)].t1 <= t.t1
  PROVE  Aligned(segs, [a EXCEPT ![Len(a)] = t], cut, said, W)
<1>1. PICK n, b : n = Len(a) /\ b = [a EXCEPT ![Len(a)] = t]
  OBVIOUS
<1>2. a \in Seq(Turn) /\ said \in Seq(Item) /\ n \in 1 .. n /\ n \in Nat
  BY <1>1, AlignedIndex DEF Aligned
<1>3. /\ b \in Seq(Turn) /\ Len(b) = n /\ b[n] = t
      /\ \A j \in 1 .. n : j # n => b[j] = a[j]
  <2>1. /\ [a EXCEPT ![n] = t] \in Seq(Turn) /\ Len([a EXCEPT ![n] = t]) = Len(a)
        /\ [a EXCEPT ![n] = t][n] = t
        /\ \A j \in 1 .. Len(a) : j # n => [a EXCEPT ![n] = t][j] = a[j]
    BY <1>1, <1>2, Replaced
  <2> QED
    BY <1>1, <2>1
<1>4. \A j \in 1 .. n : b[j].parts = a[j].parts
  BY <1>1, <1>3, Zenon
<1>5. ASSUME NEW j \in 1 .. n, NEW q \in 1 .. Len(a[j].parts)
      PROVE  Says(segs, b[j], q, said[cut[j - 1] + q])
  <2>1. PICK x, s : x = a[j] /\ s = said[cut[j - 1] + q]
    OBVIOUS
  <2>2. Says(segs, x, q, s)
    BY <1>1, <2>1, AlignedIndex, Zenon
  <2>3. CASE j # n
    BY <1>3, <2>1, <2>2, <2>3, Zenon
  <2>4. CASE j = n
    <3>1. cut[j - 1] + q \in 1 .. W /\ W \in 0 .. Len(said) /\ Len(said) \in Nat
      BY <1>1, AlignedIndex
    <3>2. cut[j - 1] + q \in 1 .. Len(said)
      BY <3>1
    <3>3. s \in Item
      BY <1>2, <2>1, <3>2
    <3>4. s.t1 \in Int /\ x.t1 \in Int /\ t.t1 \in Int
      <4>1. x \in Turn
        BY <1>1, <2>1, AlignedIndex
      <4> QED
        BY <3>3, <4>1, SegmentTimes, TurnTimes
    <3>5. InOrder(segs) => s.t1 <= x.t1 /\ x.t1 <= t.t1
      BY <1>1, <2>1, <2>2, <2>4, Zenon DEF Says
    <3>6. InOrder(segs) => s.t1 <= t.t1
      BY <3>4, <3>5
    <3>7. /\ t.parts[q] = s.text /\ t.speaker = s.speaker
          /\ InOrder(segs) => t.t0 <= s.t0
      BY <1>1, <2>1, <2>2, <2>4, Zenon DEF Says
    <3>8. Says(segs, t, q, s)
      BY <3>6, <3>7, Zenon DEF Says
    <3> QED
      BY <1>3, <2>1, <2>4, <3>8, Zenon
  <2> QED
    BY <2>3, <2>4
<1>6. Cuts(b, cut)
  BY <1>1, <1>3, <1>4 DEF Aligned, Cuts
<1>7. \A j \in 1 .. n : cut[j] <= W
  BY <1>1 DEF Aligned
<1>8. cut[n] = W /\ W <= Len(said)
  BY <1>1 DEF Aligned
<1>9. Aligned(segs, b, cut, said, W)
  BY <1>2, <1>3, <1>4, <1>5, <1>6, <1>7, <1>8, Zenon DEF Aligned
<1> QED
  BY <1>1, <1>9, Zenon

LEMMA OneMore == \A u, n, w \in Nat : w = u + n => w + 1 = u + (n + 1)
OBVIOUS

(* The last turn grows by a segment with a text. *)
LEMMA MorePart ==
  ASSUME NEW segs, NEW a, NEW cut, NEW said, NEW W, Aligned(segs, a, cut, said, W), W = Len(said),
         NEW s \in Item, NEW t \in Turn, Len(a) \in 1 .. Len(a),
         t.t0 = a[Len(a)].t0, t.speaker = a[Len(a)].speaker,
         t.parts = Append(a[Len(a)].parts, s.text), t.speaker = s.speaker,
         InOrder(segs) => /\ a[Len(a)].t1 <= t.t1
                          /\ t.t0 <= s.t0 /\ s.t1 <= t.t1
  PROVE  \E c : Aligned(segs, [a EXCEPT ![Len(a)] = t], c, Append(said, s), W + 1)
<1>1. PICK n, b, later, N, p :
        /\ n = Len(a) /\ b = [a EXCEPT ![Len(a)] = t] /\ later = Append(said, s)
        /\ p = a[n].parts /\ N = Len(p)
  OBVIOUS
<1>2. /\ a \in Seq(Turn) /\ said \in Seq(Item) /\ n \in 1 .. n /\ n \in Nat
      /\ W \in Nat
  BY <1>1, AlignedIndex DEF Aligned
<1>3. /\ b \in Seq(Turn) /\ Len(b) = n /\ b[n] = t
      /\ \A j \in 1 .. n : j # n => b[j] = a[j]
  <2>1. /\ [a EXCEPT ![n] = t] \in Seq(Turn) /\ Len([a EXCEPT ![n] = t]) = Len(a)
        /\ [a EXCEPT ![n] = t][n] = t
        /\ \A j \in 1 .. Len(a) : j # n => [a EXCEPT ![n] = t][j] = a[j]
    BY <1>1, <1>2, Replaced
  <2> QED
    BY <1>1, <2>1
<1>4. /\ later \in Seq(Item) /\ Len(later) = W + 1 /\ later[W + 1] = s
      /\ \A k \in 1 .. W : later[k] = said[k]
  <2>1. /\ Append(said, s) \in Seq(Item) /\ Len(Append(said, s)) = Len(said) + 1
        /\ Append(said, s)[Len(said) + 1] = s
        /\ \A k \in 1 .. Len(said) : Append(said, s)[k] = said[k]
    BY <1>2, Appended
  <2> QED
    BY <1>1, <2>1, Zenon
<1>5. p \in Seq(Word) /\ N \in Nat /\ s.text \in Word
  <2>1. p \in Seq(Word) /\ Len(p) \in Nat
    BY <1>1, <1>2, AlignedIndex
  <2> QED
    BY <1>1, <2>1 DEF Item
<1>6. /\ Len(t.parts) = N + 1 /\ t.parts[N + 1] = s.text
      /\ \A q \in 1 .. N : t.parts[q] = p[q]
  <2>1. PICK x : x = s.text /\ x \in Word
    BY <1>5
  <2>2. /\ Len(Append(p, x)) = Len(p) + 1 /\ Append(p, x)[Len(p) + 1] = x
        /\ \A k \in 1 .. Len(p) : Append(p, x)[k] = p[k]
    BY <1>5, <2>1, Appended
  <2>3. t.parts = Append(p, x)
    BY <1>1, <2>1
  <2> QED
    BY <1>1, <2>1, <2>2, <2>3, Zenon
<1>7. /\ n - 1 \in 0 .. n /\ cut[n - 1] \in Nat /\ cut[n] = W /\ W = cut[n - 1] + N
      /\ cut \in [0 .. n -> Nat] /\ cut[0] = 0
  <2>1. /\ n - 1 \in 0 .. n /\ cut[n - 1] \in Nat /\ cut[n] = cut[n - 1] + N
    BY <1>1, <1>2, AlignedIndex
  <2> QED
    BY <1>1, <2>1 DEF Aligned, Cuts
<1>8. PICK c : c = [cut EXCEPT ![n] = W + 1]
  OBVIOUS
<1>9. /\ c \in [0 .. n -> Nat] /\ c[n] = W + 1 /\ c[0] = 0
      /\ \A j \in 1 .. n : c[j - 1] = cut[j - 1]
      /\ \A j \in 1 .. n : j # n => c[j] = cut[j]
  BY <1>2, <1>7, <1>8
<1>10. Cuts(b, c)
  <2>0. \A j \in 1 .. Len(a) : cut[j] = cut[j - 1] + Len(a[j].parts)
    BY ONLY Aligned(segs, a, cut, said, W), AlignedIndex
  <2>1. ASSUME NEW j \in 1 .. n PROVE c[j] = c[j - 1] + Len(b[j].parts)
    <3>1. CASE j # n
      <4>1. cut[j] = cut[j - 1] + Len(a[j].parts)
        BY <1>1, <2>0, Zenon
      <4>2. b[j] = a[j] /\ c[j] = cut[j] /\ c[j - 1] = cut[j - 1]
        BY <1>3, <1>9, <3>1, Zenon
      <4> QED
        BY <4>1, <4>2, Zenon
    <3>2. CASE j = n
      <4>1. c[n - 1] = cut[n - 1]
        BY <1>2, <1>9
      <4>2. PICK u : u = cut[n - 1] /\ u \in Nat /\ W = u + N
        BY <1>7
      <4>3. W + 1 = u + (N + 1)
        BY <1>2, <1>5, <4>2, OneMore, Zenon
      <4>4. c[n] = c[n - 1] + Len(b[n].parts)
        BY <1>3, <1>6, <1>9, <4>1, <4>2, <4>3, Zenon
      <4> QED
        BY <3>2, <4>4
    <3> QED
      BY <3>1, <3>2
  <2> QED
    BY <1>3, <1>9, <2>1, Zenon DEF Cuts
<1>11. ASSUME NEW j \in 1 .. n PROVE c[j] <= W + 1
  <2>1. CASE j # n
    <3>1. cut[j] <= W /\ cut[j] \in Nat
      BY <1>1, AlignedIndex
    <3> QED
      BY <1>2, <1>9, <2>1, <3>1
  <2>2. CASE j = n
    BY <1>2, <1>9, <2>2
  <2> QED
    BY <2>1, <2>2
<1>12. ASSUME NEW j \in 1 .. n, NEW q \in 1 .. Len(b[j].parts)
       PROVE  Says(segs, b[j], q, later[c[j - 1] + q])
  <2>1. PICK i : i = cut[j - 1] + q /\ i = c[j - 1] + q
    BY <1>9
  <2>2. CASE q \in 1 .. Len(a[j].parts)
    <3>1. PICK x, y : x = a[j] /\ y = said[i]
      OBVIOUS
    <3>2. i \in 1 .. W /\ Says(segs, x, q, y)
      <4>1. cut[j - 1] + q \in 1 .. W /\ Says(segs, a[j], q, said[cut[j - 1] + q])
        BY <1>1, <2>2, AlignedIndex
      <4> QED
        BY <2>1, <3>1, <4>1, Zenon
    <3>3. later[i] = y
      BY <1>4, <3>1, <3>2
    <3>4. CASE j # n
      BY <1>3, <2>1, <3>1, <3>2, <3>3, <3>4, Zenon
    <3>5. CASE j = n
      <4>1. y \in Item
        <5>1. i \in 1 .. Len(said)
          BY <3>2
        <5> QED
          BY <1>2, <3>1, <5>1
      <4>2. y.t1 \in Int /\ x.t1 \in Int /\ t.t1 \in Int
        <5>1. x \in Turn
          BY <1>1, <3>1, AlignedIndex
        <5> QED
          BY <4>1, <5>1, SegmentTimes, TurnTimes
      <4>3. InOrder(segs) => y.t1 <= x.t1 /\ x.t1 <= t.t1
        BY <1>1, <3>1, <3>2, <3>5, Zenon DEF Says
      <4>4. InOrder(segs) => y.t1 <= t.t1
        BY <4>2, <4>3
      <4>5. t.parts[q] = x.parts[q]
        BY <1>1, <1>6, <2>2, <3>1, <3>5, Zenon
      <4>6. /\ t.parts[q] = y.text /\ t.speaker = y.speaker
            /\ InOrder(segs) => t.t0 <= y.t0
        BY <1>1, <3>1, <3>2, <3>5, <4>5, Zenon DEF Says
      <4>7. Says(segs, t, q, y)
        BY <4>4, <4>6, Zenon DEF Says
      <4> QED
        BY <1>3, <2>1, <3>3, <3>5, <4>7, Zenon
    <3> QED
      BY <3>4, <3>5
  <2>3. CASE q \notin 1 .. Len(a[j].parts)
    <3>1. j = n
      BY <1>3, <2>3, Zenon
    <3>2. Len(a[j].parts) = N /\ Len(b[j].parts) = N + 1
      BY <1>1, <1>3, <1>6, <3>1, Zenon
    <3>3. q \in 1 .. N + 1 /\ q \notin 1 .. N
      BY <2>3, <3>2
    <3>4. q = N + 1
      BY <1>5, <3>3
    <3>5. PICK u : u = cut[n - 1] /\ u \in Nat /\ W = u + N
      BY <1>7
    <3>6. u + (N + 1) = W + 1
      BY <1>2, <1>5, <3>5, OneMore, Zenon
    <3>7. later[c[j - 1] + q] = s
      BY <1>4, <1>9, <3>1, <3>4, <3>5, <3>6, Zenon
    <3>8. Says(segs, t, q, s)
      BY <1>6, <3>4, Zenon DEF Says
    <3> QED
      BY <1>3, <3>1, <3>7, <3>8, Zenon
  <2> QED
    BY <2>2, <2>3
<1>13. Aligned(segs, b, c, later, W + 1)
  <2>1. W + 1 <= Len(later)
    BY <1>2, <1>4
  <2> QED
    BY <1>3, <1>4, <1>9, <1>10, <1>11, <1>12, <2>1, Zenon DEF Aligned
<1> QED
  BY <1>1, <1>13, Zenon

(* The last turn ends no later than s, when the segments are in order. *)
Late(segs, turns, s) ==
  InOrder(segs) /\ turns # <<>> =>
    turns[Len(turns)].t0 <= s.t0 /\ turns[Len(turns)].t1 <= s.t1

LEMMA NewTurnSays ==
  ASSUME NEW s \in Item
  PROVE  /\ NewTurn(s).t0 = s.t0 /\ NewTurn(s).t1 = s.t1 /\ NewTurn(s).speaker = s.speaker
         /\ s.text = NoText => Len(NewTurn(s).parts) = 0
         /\ s.text # NoText => Len(NewTurn(s).parts) = 1 /\ NewTurn(s).parts[1] = s.text
<1>1. PICK x : x = s.text
  OBVIOUS
<1>2. Len(<<x>>) = 1 /\ <<x>>[1] = x /\ Len(<<>>) = 0
  OBVIOUS
<1>3. s.text = NoText => NewTurn(s).parts = <<>>
  BY DEF NewTurn
<1>4. s.text # NoText => NewTurn(s).parts = <<x>>
  BY <1>1 DEF NewTurn
<1>5. NewTurn(s).t0 = s.t0 /\ NewTurn(s).t1 = s.t1 /\ NewTurn(s).speaker = s.speaker
  BY DEF NewTurn
<1> QED
  BY <1>1, <1>2, <1>3, <1>4, <1>5, Zenon

(* One segment into the turns. *)
LEMMA TurnStep ==
  ASSUME NEW segs, NEW a, NEW cut, NEW said, Aligned(segs, a, cut, said, Len(said)),
         NEW s \in Item, NEW S, s \in S <=> s.text # NoText, Late(segs, a, s),
         NEW b, b = AddToTurns(a, s), NEW later, later = KeepIf(said, s, S)
  PROVE  (\E c : Aligned(segs, b, c, later, Len(later))) /\ Late(segs, b, s)
<1>1. a \in Seq(Turn) /\ said \in Seq(Item) /\ Len(said) \in Nat /\ Len(a) \in Nat
  BY AlignedIndex DEF Aligned
<1>2. s.text = NoText => later = said
  BY Zenon DEF KeepIf
<1>3. s.text # NoText => later = Append(said, s)
  BY Zenon DEF KeepIf
<1>4. /\ Append(said, s) \in Seq(Item) /\ Len(Append(said, s)) = Len(said) + 1
      /\ Append(said, s)[Len(said) + 1] = s
  BY <1>1, Appended
<1>5. s.t0 <= s.t0 /\ s.t1 <= s.t1
  <2>1. PICK x, y : x = s.t0 /\ y = s.t1 /\ x \in Int /\ y \in Int
    BY SegmentTimes
  <2> QED
    BY <2>1
<1>6. CASE a = <<>> /\ s.text = NoText /\ b = a
  BY <1>2, <1>6, Zenon
<1>7. CASE /\ a # <<>> /\ a[Len(a)].speaker = s.speaker
           /\ Extended(a[Len(a)], s) \in Turn /\ Len(a) \in 1 .. Len(a)
           /\ b = [a EXCEPT ![Len(a)] = Extended(a[Len(a)], s)]
  <2>1. PICK x, t, n : x = a[Len(a)] /\ t = Extended(a[Len(a)], s) /\ n = Len(a)
    OBVIOUS
  <2>2. x \in Turn /\ t \in Turn /\ b = [a EXCEPT ![n] = t]
    BY <1>1, <1>7, <2>1
  <2>3. /\ t.t0 = x.t0 /\ t.t1 = s.t1 /\ t.speaker = x.speaker
        /\ s.text = NoText => t.parts = x.parts
        /\ s.text # NoText => t.parts = Append(x.parts, s.text)
    BY <2>1, <2>2, ExtendedTyped, Zenon
  <2>4. InOrder(segs) => x.t0 <= s.t0 /\ x.t1 <= s.t1
    BY <1>7, <2>1, Zenon DEF Late
  <2>5. /\ t.speaker = s.speaker
        /\ InOrder(segs) => /\ t.t0 <= s.t0 /\ s.t1 <= t.t1
                            /\ x.t1 <= t.t1 /\ t.t1 <= s.t1
    BY <1>5, <1>7, <2>1, <2>3, <2>4, Zenon
  <2>6. b \in Seq(Turn) /\ Len(b) = n /\ b[n] = t
    <3>1. /\ [a EXCEPT ![n] = t] \in Seq(Turn) /\ Len([a EXCEPT ![n] = t]) = Len(a)
          /\ [a EXCEPT ![n] = t][n] = t
      BY <1>1, <1>7, <2>1, <2>2, Replaced
    <3> QED
      BY <2>1, <2>2, <3>1, Zenon
  <2>7. Late(segs, b, s)
    BY <2>5, <2>6, Zenon DEF Late
  <2>8. CASE s.text = NoText
    <3>1. Aligned(segs, [a EXCEPT ![Len(a)] = t], cut, said, Len(said))
      BY <1>7, <2>1, <2>2, <2>3, <2>5, <2>8, LaterEnd, Zenon
    <3>2. Aligned(segs, b, cut, later, Len(later))
      BY <1>2, <2>1, <2>2, <2>8, <3>1, Zenon
    <3> QED
      BY <2>7, <3>2
  <2>9. CASE s.text # NoText
    <3>1. \E c : Aligned(segs, [a EXCEPT ![Len(a)] = t], c, Append(said, s), Len(said) + 1)
      BY <1>7, <2>1, <2>2, <2>3, <2>5, <2>9, MorePart, Zenon
    <3>2. \E c : Aligned(segs, b, c, later, Len(later))
      BY <1>3, <1>4, <2>1, <2>2, <2>9, <3>1, Zenon
    <3> QED
      BY <2>7, <3>2
  <2> QED
    BY <2>8, <2>9
<1>8. CASE b = Append(a, NewTurn(s)) /\ NewTurn(s) \in Turn
  <2>1. PICK t, w : t = NewTurn(s) /\ w = Len(said)
    OBVIOUS
  <2>2. t \in Turn /\ b = Append(a, t) /\ w \in Nat
    BY <1>1, <1>8, <2>1
  <2>3. /\ t.t0 = s.t0 /\ t.t1 = s.t1 /\ t.speaker = s.speaker
        /\ s.text = NoText => Len(t.parts) = 0
        /\ s.text # NoText => Len(t.parts) = 1 /\ t.parts[1] = s.text
    BY <2>1, NewTurnSays
  <2>4. b[Len(b)] = t
    BY <1>1, <2>2, Appended
  <2>5. Late(segs, b, s)
    BY <1>5, <2>3, <2>4, Zenon DEF Late
  <2>6. CASE s.text = NoText
    <3>1. PICK N : N = Len(t.parts) /\ N = 0
      BY <2>3, <2>6
    <3>2. w + N <= Len(said) /\ w + N = w
      BY <2>1, <2>2, <3>1
    <3>3. \A q \in 1 .. N : Says(segs, t, q, said[w + q])
      BY <3>1
    <3>4. \E c : Aligned(segs, Append(a, t), c, said, w + N)
      BY <2>1, <2>2, <3>1, <3>2, <3>3, AnotherTurn, Zenon
    <3>5. \E c : Aligned(segs, b, c, later, Len(later))
      BY <1>2, <2>1, <2>2, <2>6, <3>2, <3>4, Zenon
    <3> QED
      BY <2>5, <3>5
  <2>7. CASE s.text # NoText
    <3>1. PICK N, more : N = Len(t.parts) /\ N = 1 /\ more = Append(said, s)
      BY <2>3, <2>7
    <3>2. Aligned(segs, a, cut, more, w)
      BY <2>1, <3>1, MoreSaid, Zenon
    <3>3. Len(more) = w + N /\ w + N <= Len(more) /\ more[w + 1] = s
      BY <1>4, <2>1, <2>2, <3>1
    <3>4. ASSUME NEW q \in 1 .. N PROVE Says(segs, t, q, more[w + q])
      <4>1. q = 1
        BY <3>1
      <4>2. Says(segs, t, 1, s)
        BY <1>5, <2>3, <2>7, Zenon DEF Says
      <4> QED
        BY <3>3, <4>1, <4>2, Zenon
    <3>5. \E c : Aligned(segs, Append(a, t), c, more, w + N)
      BY <2>2, <3>1, <3>2, <3>3, <3>4, AnotherTurn, Zenon
    <3>6. \E c : Aligned(segs, b, c, later, Len(later))
      BY <1>3, <2>2, <2>7, <3>1, <3>3, <3>5, Zenon
    <3> QED
      BY <2>5, <3>6
  <2> QED
    BY <2>6, <2>7
<1> QED
  BY <1>1, <1>6, <1>7, <1>8, AddCases, Zenon

(* The turns of segments say every text once and in order. *)
LEMMA TurnsAligned ==
  ASSUME NEW segs \in Seq(Item), NEW S,
         \A k \in 1 .. Len(segs) : segs[k] \in S <=> segs[k].text # NoText
  PROVE  \E c : Aligned(segs, TurnsOf(segs), c, Among(segs, S), Len(Among(segs, S)))
<1>1. PICK f : /\ f[0] = <<>> /\ TurnsOf(segs) = f[Len(segs)]
               /\ \A m \in 0 .. Len(segs) - 1 : f[m + 1] = AddToTurns(f[m], segs[m + 1])
  BY TurnsSteps
<1>2. PICK g : /\ g[0] = <<>> /\ Among(segs, S) = g[Len(segs)]
               /\ \A m \in 0 .. Len(segs) - 1 : g[m + 1] = KeepIf(g[m], segs[m + 1], S)
  BY AmongSteps
<1>0. Len(segs) \in Nat
  OBVIOUS
<1> DEFINE Good == {m \in 0 .. Len(segs) :
                      /\ \E c : Aligned(segs, f[m], c, g[m], Len(g[m]))
                      /\ \A k \in 1 .. Len(segs) : m <= k => Late(segs, f[m], segs[k])}
<1>3. 0 \in Good
  <2>1. \A k \in 1 .. Len(segs) : Late(segs, <<>>, segs[k])
    BY DEF Late
  <2>2. PICK c : c = [j \in 0 .. 0 |-> 0]
    OBVIOUS
  <2>3. /\ <<>> \in Seq(Turn) /\ <<>> \in Seq(Item) /\ Len(<<>>) = 0
        /\ \A j : j \notin 1 .. 0
    OBVIOUS
  <2>4. c \in [0 .. 0 -> Nat] /\ c[0] = 0 /\ 0 <= 0
    BY <2>2
  <2>5. Aligned(segs, <<>>, c, <<>>, 0)
    BY <2>3, <2>4, Zenon DEF Aligned, Cuts
  <2> QED
    BY <1>0, <1>1, <1>2, <2>1, <2>3, <2>5
<1>4. ASSUME NEW m \in 0 .. Len(segs) - 1, m \in Good PROVE m + 1 \in Good
  <2>1. PICK x, a, said, b, later :
          /\ x = segs[m + 1] /\ a = f[m] /\ said = g[m]
          /\ b = AddToTurns(a, x) /\ later = KeepIf(said, x, S)
    OBVIOUS
  <2>2. b = f[m + 1] /\ later = g[m + 1]
    BY <1>1, <1>2, <2>1
  <2>3. m + 1 \in 1 .. Len(segs) /\ m <= m + 1 /\ m + 1 \in 0 .. Len(segs)
    BY <1>0
  <2>4. x \in Item /\ (x \in S <=> x.text # NoText)
    BY <2>1, <2>3
  <2>5. PICK c : Aligned(segs, a, c, said, Len(said))
    BY <1>4, <2>1
  <2>6. Late(segs, a, x)
    BY <1>4, <2>1, <2>3
  <2>7. (\E d : Aligned(segs, b, d, later, Len(later))) /\ Late(segs, b, x)
    BY <2>1, <2>4, <2>5, <2>6, TurnStep
  <2>8. b \in Seq(Turn)
    BY <2>7 DEF Aligned
  <2>9. ASSUME NEW k \in 1 .. Len(segs), m + 1 <= k PROVE Late(segs, b, segs[k])
    <3>1. CASE b = <<>>
      BY <3>1 DEF Late
    <3>2. CASE b # <<>>
      <4>1. PICK t, y : t = b[Len(b)] /\ y = segs[k]
        OBVIOUS
      <4>2. t \in Turn
        BY <2>8, <3>2, <4>1, LastOf
      <4>3. y \in Item
        BY <4>1
      <4>4. InOrder(segs) => x.t0 <= y.t0 /\ x.t1 <= y.t1
        <5>1. DOMAIN segs = 1 .. Len(segs)
          OBVIOUS
        <5> QED
          BY <2>1, <2>3, <2>9, <4>1, <5>1, Zenon DEF InOrder
      <4>5. InOrder(segs) => t.t0 <= x.t0 /\ t.t1 <= x.t1
        BY <2>7, <3>2, <4>1, Zenon DEF Late
      <4>6. PICK t0, t1, x0, x1, y0, y1 :
              /\ t0 = t.t0 /\ t1 = t.t1 /\ x0 = x.t0 /\ x1 = x.t1 /\ y0 = y.t0 /\ y1 = y.t1
              /\ t0 \in Int /\ t1 \in Int /\ x0 \in Int /\ x1 \in Int
              /\ y0 \in Int /\ y1 \in Int
        BY <2>4, <4>2, <4>3, SegmentTimes, TurnTimes
      <4>7. InOrder(segs) => t0 <= y0 /\ t1 <= y1
        BY <4>4, <4>5, <4>6, SMTT(30)
      <4> QED
        BY <4>1, <4>6, <4>7, Zenon DEF Late
    <3> QED
      BY <3>1, <3>2
  <2> QED
    BY <2>2, <2>3, <2>7, <2>9
<1>5. Len(segs) \in Good
  <2>1. Len(segs) \in 0 .. Len(segs)
    BY <1>0
  <2> HIDE DEF Good
  <2> QED
    BY <1>0, <1>3, <1>4, <2>1, UpTo
<1> QED
  BY <1>1, <1>2, <1>5

(* Without its silent turns, a sequence of turns still says the same. *)
LEMMA SpokenAligned ==
  ASSUME NEW segs, NEW a, NEW cut, NEW said, NEW W, Aligned(segs, a, cut, said, W), NEW S,
         \A k \in 1 .. Len(a) : a[k] \in S <=> a[k].parts # <<>>
  PROVE  \E c : Aligned(segs, Among(a, S), c, said, W)
<1>0. /\ a \in Seq(Turn) /\ said \in Seq(Item) /\ Len(a) \in Nat
      /\ W \in 0 .. Len(said) /\ Len(said) \in Nat /\ cut[0] = 0 /\ cut[Len(a)] = W
  BY AlignedIndex DEF Aligned, Cuts
<1>1. PICK f : /\ f[0] = <<>> /\ Among(a, S) = f[Len(a)]
               /\ \A m \in 0 .. Len(a) - 1 : f[m + 1] = KeepIf(f[m], a[m + 1], S)
  BY <1>0, AmongSteps, SMTT(30)
<1> DEFINE Good == {m \in 0 .. Len(a) : \E c : Aligned(segs, f[m], c, said, cut[m])}
<1>2. 0 \in Good
  <2>1. PICK c : c = [j \in 0 .. 0 |-> 0]
    OBVIOUS
  <2>2. /\ <<>> \in Seq(Turn) /\ Len(<<>>) = 0 /\ \A j : j \notin 1 .. 0
    OBVIOUS
  <2>3. c \in [0 .. 0 -> Nat] /\ c[0] = 0 /\ 0 <= Len(said)
    BY <1>0, <2>1
  <2>4. Aligned(segs, <<>>, c, said, 0)
    BY <1>0, <2>2, <2>3, Zenon DEF Aligned, Cuts
  <2> QED
    BY <1>0, <1>1, <2>4
<1>3. ASSUME NEW m \in 0 .. Len(a) - 1, m \in Good PROVE m + 1 \in Good
  <2>1. PICK t, b, u, v, N : /\ t = a[m + 1] /\ b = f[m] /\ u = cut[m] /\ v = cut[m + 1]
                             /\ N = Len(t.parts)
    OBVIOUS
  <2>2. m + 1 \in 1 .. Len(a) /\ m + 1 \in 0 .. Len(a) /\ (m + 1) - 1 = m
    BY <1>0
  <2>3. PICK c : Aligned(segs, b, c, said, u)
    BY <1>3, <2>1
  <2>4. /\ t \in Turn /\ t.parts \in Seq(Word) /\ N \in Nat /\ u \in Nat /\ v \in Nat
        /\ v = u + N /\ v <= W
        /\ \A q \in 1 .. N : Says(segs, t, q, said[u + q])
    <3>1. /\ cut[(m + 1) - 1] \in Nat /\ cut[m + 1] \in Nat
          /\ a[m + 1] \in Turn /\ a[m + 1].parts \in Seq(Word) /\ Len(a[m + 1].parts) \in Nat
          /\ cut[m + 1] = cut[(m + 1) - 1] + Len(a[m + 1].parts) /\ cut[m + 1] <= W
          /\ \A q \in 1 .. Len(a[m + 1].parts) :
               Says(segs, a[m + 1], q, said[cut[(m + 1) - 1] + q])
      <4>1. PICK k : k = m + 1 /\ k \in 1 .. Len(a)
        BY <2>2
      <4>2. /\ cut[k - 1] \in Nat /\ cut[k] \in Nat
            /\ a[k] \in Turn /\ a[k].parts \in Seq(Word) /\ Len(a[k].parts) \in Nat
            /\ cut[k] = cut[k - 1] + Len(a[k].parts) /\ cut[k] <= W
            /\ \A q \in 1 .. Len(a[k].parts) : Says(segs, a[k], q, said[cut[k - 1] + q])
        BY ONLY <4>1, Aligned(segs, a, cut, said, W), AlignedIndex
      <4> QED
        BY <4>1, <4>2, Zenon
    <3> QED
      BY <2>1, <2>2, <3>1, Zenon
  <2>5. f[m + 1] = KeepIf(b, t, S)
    BY <1>1, <2>1
  <2>6. t \in S <=> t.parts # <<>>
    BY <2>1, <2>2
  <2>7. \E d : Aligned(segs, f[m + 1], d, said, v)
    <3>1. CASE t \in S
      <4>1. u + N <= Len(said)
        BY <1>0, <2>4
      <4>2. \E d : Aligned(segs, Append(b, t), d, said, u + N)
        BY <2>1, <2>3, <2>4, <4>1, AnotherTurn, Zenon
      <4>3. f[m + 1] = Append(b, t)
        BY <2>5, <3>1 DEF KeepIf
      <4> QED
        BY <2>4, <4>2, <4>3, Zenon
    <3>2. CASE t \notin S
      <4>1. N = 0
        <5>1. t.parts = <<>> /\ Len(<<>>) = 0
          BY <2>6, <3>2
        <5> QED
          BY <2>1, <5>1, Zenon
      <4>2. v = u
        BY <2>4, <4>1
      <4>3. f[m + 1] = b
        BY <2>5, <3>2 DEF KeepIf
      <4> QED
        BY <2>3, <4>2, <4>3, Zenon
    <3> QED
      BY <3>1, <3>2
  <2> QED
    BY <2>1, <2>2, <2>7
<1>4. Len(a) \in Good
  <2>1. Len(a) \in 0 .. Len(a)
    BY <1>0
  <2> HIDE DEF Good
  <2> QED
    BY <1>0, <1>2, <1>3, <2>1, UpTo
<1> QED
  BY <1>0, <1>1, <1>4

(* What merge_segments_into_turns returns says every text once and in      *)
(* order.                                                                   *)
LEMMA MergedAligned ==
  ASSUME NEW segs \in Seq(Item), NEW S,
         \A k \in 1 .. Len(segs) : segs[k] \in S <=> segs[k].text # NoText
  PROVE  \E c : Aligned(segs, MergeSegmentsIntoTurns(segs), c, Among(segs, S), Len(Among(segs, S)))
<1>1. PICK c : Aligned(segs, TurnsOf(segs), c, Among(segs, S), Len(Among(segs, S)))
  BY TurnsAligned
<1>2. PICK a, K : a = TurnsOf(segs) /\ K = {t \in Range(a) : t.parts # <<>>}
  OBVIOUS
<1>3. \A k \in 1 .. Len(a) : a[k] \in K <=> a[k].parts # <<>>
  <2>1. DOMAIN a = 1 .. Len(a)
    BY <1>1, <1>2 DEF Aligned
  <2> QED
    BY <1>2, <2>1, Zenon DEF Range
<1>4. \E d : Aligned(segs, Among(a, K), d, Among(segs, S), Len(Among(segs, S)))
  BY <1>1, <1>2, <1>3, SpokenAligned, Zenon
<1> QED
  BY <1>2, <1>4, Zenon DEF MergeSegmentsIntoTurns

(* The numbers of parts before each turn are the cuts. *)
Counted(turns, g) ==
  g = [j \in 0 .. Len(turns) |-> IF j = 0 THEN 0 ELSE g[j - 1] + Len(turns[j].parts)]

LEMMA CutsCounted ==
  ASSUME NEW turns, Len(turns) \in Nat, NEW cut, Cuts(turns, cut)
  PROVE  Counted(turns, cut)
<1>1. ASSUME NEW j \in 0 .. Len(turns)
      PROVE  cut[j] = IF j = 0 THEN 0 ELSE cut[j - 1] + Len(turns[j].parts)
  <2>1. CASE j = 0
    BY <2>1 DEF Cuts
  <2>2. CASE j # 0
    <3>1. j \in 1 .. Len(turns)
      BY <2>2
    <3> QED
      BY <2>2, <3>1, Zenon DEF Cuts
  <2> QED
    BY <2>1, <2>2
<1>2. cut = [j \in 0 .. Len(turns) |-> cut[j]]
  BY DEF Cuts
<1> QED
  BY <1>1, <1>2 DEF Counted

LEMMA CutsOnly ==
  ASSUME NEW turns, Len(turns) \in Nat, NEW cut, Cuts(turns, cut), NEW g, Counted(turns, g)
  PROVE  \A j \in 0 .. Len(turns) : g[j] = cut[j]
<1>1. \A j \in 0 .. Len(turns) : g[j] = IF j = 0 THEN 0 ELSE g[j - 1] + Len(turns[j].parts)
  BY Zenon DEF Counted
<1> DEFINE Good == {m \in 0 .. Len(turns) : g[m] = cut[m]}
<1>2. 0 \in Good
  <2>1. 0 \in 0 .. Len(turns)
    OBVIOUS
  <2>2. g[0] = 0 /\ cut[0] = 0
    BY <1>1, <2>1, Zenon DEF Cuts
  <2> QED
    BY <2>1, <2>2
<1>3. ASSUME NEW m \in 0 .. Len(turns) - 1, m \in Good PROVE m + 1 \in Good
  <2>1. PICK k : k = m + 1
    OBVIOUS
  <2>2. k \in 1 .. Len(turns) /\ k \in 0 .. Len(turns) /\ k # 0 /\ k - 1 = m
    BY <2>1
  <2>3. g[k] = g[k - 1] + Len(turns[k].parts)
    BY <1>1, <2>2, Zenon
  <2>4. cut[k] = cut[k - 1] + Len(turns[k].parts)
    BY <2>2, Zenon DEF Cuts
  <2>5. g[m] = cut[m]
    BY <1>3
  <2> QED
    BY <2>1, <2>2, <2>3, <2>4, <2>5
<1>4. \A j \in 0 .. Len(turns) : j \in Good
  <2> HIDE DEF Good
  <2> QED
    BY <1>2, <1>3, UpTo
<1> QED
  BY <1>4

-----------------------------------------------------------------------------
LEMMA MaxOfTwo ==
  ASSUME NEW x \in Int, NEW y \in Int
  PROVE  Max({x, y}) \in {x, y} /\ Max({x, y}) >= x /\ Max({x, y}) >= y
<1>1. \E z \in {x, y} : \A w \in {x, y} : z >= w
  <2>1. x >= y \/ y >= x
    OBVIOUS
  <2>2. x >= x /\ y >= y
    OBVIOUS
  <2> QED
    BY <2>1, <2>2
<1>2. PICK z \in {x, y} : z = Max({x, y}) /\ \A w \in {x, y} : z >= w
  BY <1>1 DEF Max
<1> QED
  BY <1>2

LEMMA MinOfTwo ==
  ASSUME NEW x \in Int, NEW y \in Int
  PROVE  Min({x, y}) \in {x, y}
<1>1. \E z \in {x, y} : \A w \in {x, y} : z <= w
  <2>1. x <= y \/ y <= x
    OBVIOUS
  <2>2. x <= x /\ y <= y
    OBVIOUS
  <2> QED
    BY <2>1, <2>2
<1>2. PICK z \in {x, y} : z = Min({x, y}) /\ \A w \in {x, y} : z <= w
  BY <1>1 DEF Min
<1> QED
  BY <1>2

LEMMA MinIn ==
  ASSUME NEW S \in SUBSET Nat, S # {}
  PROVE  Min(S) \in S
<1>1. \E x \in S : \A y \in S : x <= y
  BY Smallest
<1> QED
  BY <1>1 DEF Min

(* One of finitely many numbers is the greatest. *)
LEMMA Greatest ==
  ASSUME NEW n \in Nat, n # 0, NEW f, \A j \in 1 .. n : f[j] \in Int
  PROVE  \E k \in 1 .. n : \A j \in 1 .. n : f[j] <= f[k]
<1> DEFINE Good == {m \in 0 .. n : m = 0 \/ \E k \in 1 .. m : \A j \in 1 .. m : f[j] <= f[k]}
<1>1. 0 \in Good
  OBVIOUS
<1>2. ASSUME NEW m \in 0 .. n - 1, m \in Good PROVE m + 1 \in Good
  <2>1. PICK z : z = f[m + 1] /\ z \in Int
    OBVIOUS
  <2>2. m + 1 \in 0 .. n /\ m + 1 \in 1 .. m + 1
    OBVIOUS
  <2>3. \E k \in 1 .. m + 1 : \A j \in 1 .. m + 1 : f[j] <= f[k]
    <3>1. CASE m = 0
      <4>1. \A j \in 1 .. m + 1 : j = m + 1
        BY <3>1
      <4>2. z <= z
        BY <2>1
      <4> QED
        BY <2>1, <2>2, <4>1, <4>2, Zenon
    <3>2. CASE m # 0
      <4>1. PICK k \in 1 .. m : \A j \in 1 .. m : f[j] <= f[k]
        BY <1>2, <3>2
      <4>2. PICK y : y = f[k] /\ y \in Int /\ k \in 1 .. m + 1
        OBVIOUS
      <4>3. CASE z <= y
        <5>1. ASSUME NEW j \in 1 .. m + 1 PROVE f[j] <= y
          <6>1. j \in 1 .. m \/ j = m + 1
            OBVIOUS
          <6> QED
            BY <2>1, <4>1, <4>2, <4>3, <6>1, Zenon
        <5> QED
          BY <4>2, <5>1, Zenon
      <4>4. CASE ~(z <= y)
        <5>1. ASSUME NEW j \in 1 .. m + 1 PROVE f[j] <= z
          <6>1. CASE j \in 1 .. m
            <7>1. PICK x : x = f[j] /\ x \in Int
              BY <6>1
            <7>2. x <= y
              BY <4>1, <4>2, <6>1, <7>1
            <7>3. x <= z
              BY <2>1, <4>2, <4>4, <7>1, <7>2
            <7> QED
              BY <7>1, <7>3
          <6>2. CASE j = m + 1
            BY <2>1, <6>2
          <6> QED
            BY <6>1, <6>2
        <5> QED
          BY <2>1, <2>2, <5>1, Zenon
      <4> QED
        BY <4>3, <4>4
    <3> QED
      BY <3>1, <3>2
  <2> QED
    BY <2>2, <2>3
<1>3. n \in Good
  <2>1. n \in 0 .. n
    OBVIOUS
  <2> HIDE DEF Good
  <2> QED
    BY <1>1, <1>2, <2>1, UpTo
<1> QED
  BY <1>3

LEMMA OverlapNat ==
  ASSUME NEW a \in Item, NEW b \in Item
  PROVE  OverlapMs(a, b) \in Nat
<1>1. PICK p, q, x, y : p = a.t0 /\ q = a.t1 /\ x = b.t0 /\ y = b.t1
  OBVIOUS
<1>2. p \in Int /\ q \in Int /\ x \in Int /\ y \in Int
  BY <1>1, SegmentTimes
<1>3. PICK u, v : u = Min({q, y}) /\ v = Max({p, x})
  OBVIOUS
<1>4. u \in Int /\ v \in Int
  BY <1>2, <1>3, MinOfTwo, MaxOfTwo
<1>5. PICK d : d = u - v /\ d \in Int
  BY <1>4
<1>6. Max({0, d}) \in {0, d} /\ Max({0, d}) >= 0
  <2>1. PICK o : o = 0 /\ o \in Int
    OBVIOUS
  <2>2. Max({o, d}) \in {o, d} /\ Max({o, d}) >= o
    BY <1>5, <2>1, MaxOfTwo
  <2> QED
    BY <2>1, <2>2
<1>7. Max({0, d}) \in Nat
  BY <1>5, <1>6
<1>8. OverlapMs(a, b) = Max({0, d})
  BY <1>1, <1>3, <1>5, Zenon DEF OverlapMs
<1> QED
  BY <1>7, <1>8

LEMMA DistanceInt ==
  ASSUME NEW a \in Item, NEW b \in Item
  PROVE  CenterDistance(a, b) \in Int
<1>1. PICK p, q, x, y : p = a.t0 /\ q = a.t1 /\ x = b.t0 /\ y = b.t1
  OBVIOUS
<1>2. p \in Int /\ q \in Int /\ x \in Int /\ y \in Int
  BY <1>1, SegmentTimes
<1>3. PICK d, e : d = (p + q) - (x + y) /\ e = -d
  OBVIOUS
<1>4. d \in Int /\ e \in Int
  BY <1>2, <1>3
<1>5. Max({d, e}) \in Int
  BY <1>4, MaxOfTwo
<1>6. CenterDistance(a, b) = Max({d, e})
  BY <1>1, <1>3, Zenon DEF CenterDistance
<1> QED
  BY <1>5, <1>6

(* Somebody in dia who speaks as s and of whom no other says more in the    *)
(* time of s.                                                               *)
SpokenIn(dia, s) ==
  \E k \in DOMAIN dia :
    /\ dia[k].speaker = s.speaker
    /\ \A j \in DOMAIN dia : OverlapMs(s, dia[j]) <= OverlapMs(s, dia[k])

(* The label of a segment is that of a diarized segment it shares most time *)
(* with.                                                                    *)
LEMMA LabelBest ==
  ASSUME NEW s \in Item, NEW dia \in Seq(Item), dia # <<>>
  PROVE  \E k \in DOMAIN dia :
           /\ dia[k].speaker = LabelOf(s, dia)
           /\ \A j \in DOMAIN dia : OverlapMs(s, dia[j]) <= OverlapMs(s, dia[k])
<1>0. PICK n : n = Len(dia) /\ n \in Nat /\ n # 0 /\ DOMAIN dia = 1 .. n
  OBVIOUS
<1>1. PICK f : f = [k \in 1 .. n |-> OverlapMs(s, dia[k])]
  OBVIOUS
<1>2. \A k \in 1 .. n : f[k] = OverlapMs(s, dia[k]) /\ f[k] \in Nat /\ f[k] \in Int
  <2>1. ASSUME NEW k \in 1 .. n PROVE f[k] = OverlapMs(s, dia[k]) /\ f[k] \in Nat
    <3>1. dia[k] \in Item
      BY <1>0
    <3>2. OverlapMs(s, dia[k]) \in Nat
      BY <3>1, OverlapNat
    <3>3. f[k] = OverlapMs(s, dia[k])
      BY <1>1
    <3> QED
      BY <3>2, <3>3
  <2> QED
    BY <2>1
<1>3. PICK most : most = {k \in 1 .. n : \A j \in 1 .. n :
                           OverlapMs(s, dia[j]) <= OverlapMs(s, dia[k])}
  OBVIOUS
<1>4. most # {}
  <2>1. PICK k \in 1 .. n : \A j \in 1 .. n : f[j] <= f[k]
    BY <1>0, <1>2, Greatest
  <2>2. k \in most
    BY <1>2, <1>3, <2>1, Zenon
  <2> QED
    BY <2>2
<1>5. PICK best : best = BestOverlap(s, dia)
  OBVIOUS
<1>6. best \in most
  <2>1. best = Min(most)
    BY <1>0, <1>3, <1>5, Zenon DEF BestOverlap
  <2>2. most \in SUBSET Nat
    BY <1>0, <1>3
  <2> QED
    BY <1>4, <2>1, <2>2, MinIn
<1>7. CASE OverlapMs(s, dia[best]) > 0
  <2>1. LabelOf(s, dia) = dia[best].speaker
    BY <1>5, <1>7, Zenon DEF LabelOf
  <2> QED
    BY <1>0, <1>3, <1>6, <2>1, Zenon
<1>8. CASE ~(OverlapMs(s, dia[best]) > 0)
  <2>1. PICK g : g = [k \in 1 .. n |-> -CenterDistance(s, dia[k])]
    OBVIOUS
  <2>2. \A k \in 1 .. n : CenterDistance(s, dia[k]) \in Int /\ g[k] \in Int
    <3>1. ASSUME NEW k \in 1 .. n PROVE CenterDistance(s, dia[k]) \in Int /\ g[k] \in Int
      <4>1. dia[k] \in Item
        BY <1>0
      <4>2. PICK x : x = CenterDistance(s, dia[k]) /\ x \in Int
        BY <4>1, DistanceInt
      <4>3. g[k] = -x
        BY <2>1, <4>2
      <4> QED
        BY <4>2, <4>3
    <3> QED
      BY <3>1
  <2>3. PICK near : near = {k \in 1 .. n : \A j \in 1 .. n :
                             CenterDistance(s, dia[k]) <= CenterDistance(s, dia[j])}
    OBVIOUS
  <2>4. near # {}
    <3>1. PICK k \in 1 .. n : \A j \in 1 .. n : g[j] <= g[k]
      BY <1>0, <2>2, Greatest
    <3>2. ASSUME NEW j \in 1 .. n
          PROVE  CenterDistance(s, dia[k]) <= CenterDistance(s, dia[j])
      <4>1. PICK x, y : /\ x = CenterDistance(s, dia[k]) /\ y = CenterDistance(s, dia[j])
                        /\ x \in Int /\ y \in Int
        BY <2>2
      <4>2. g[k] = -x /\ g[j] = -y
        BY <2>1, <4>1
      <4>3. -y <= -x
        BY <3>1, <4>2
      <4> QED
        BY <4>1, <4>3
    <3>3. k \in near
      BY <2>3, <3>2, Zenon
    <3> QED
      BY <3>3
  <2>5. PICK k : k = Nearest(s, dia)
    OBVIOUS
  <2>6. k \in 1 .. n
    <3>1. k = Min(near)
      BY <1>0, <2>3, <2>5, Zenon DEF Nearest
    <3>2. near \in SUBSET Nat
      BY <1>0, <2>3
    <3>3. k \in near
      BY <2>4, <3>1, <3>2, MinIn
    <3> QED
      BY <2>3, <3>3, Zenon
  <2>7. LabelOf(s, dia) = dia[k].speaker
    BY <1>5, <1>8, <2>5, Zenon DEF LabelOf
  <2>8. ASSUME NEW j \in 1 .. n PROVE OverlapMs(s, dia[j]) <= OverlapMs(s, dia[k])
    <3>1. best \in 1 .. n
      BY <1>3, <1>6, Zenon
    <3>2. OverlapMs(s, dia[j]) <= OverlapMs(s, dia[best])
      BY <1>3, <1>6, Zenon
    <3>3. PICK x, y, z : /\ x = OverlapMs(s, dia[j]) /\ y = OverlapMs(s, dia[k])
                         /\ z = OverlapMs(s, dia[best])
                         /\ x \in Nat /\ y \in Nat /\ z \in Nat
      BY <1>2, <2>6, <3>1
    <3>4. ~(z > 0) /\ x <= z
      BY <1>8, <3>2, <3>3
    <3>5. x <= y
      BY <3>3, <3>4
    <3> QED
      BY <3>3, <3>5
  <2> QED
    BY <1>0, <2>6, <2>7, <2>8, Zenon
<1> QED
  BY <1>7, <1>8

(* The same segment under another speaker or with another text. *)
LEMMA SameOverlap ==
  ASSUME NEW a, NEW b, NEW c, a.t0 = b.t0, a.t1 = b.t1
  PROVE  OverlapMs(a, c) = OverlapMs(b, c)
BY Zenon DEF OverlapMs

LEMMA SpokenSame ==
  ASSUME NEW dia, NEW a, NEW b, a.t0 = b.t0, a.t1 = b.t1, a.speaker = b.speaker,
         SpokenIn(dia, a)
  PROVE  SpokenIn(dia, b)
<1>1. PICK k \in DOMAIN dia : /\ dia[k].speaker = a.speaker
                             /\ \A j \in DOMAIN dia :
                                  OverlapMs(a, dia[j]) <= OverlapMs(a, dia[k])
  BY DEF SpokenIn
<1>2. \A j \in DOMAIN dia : OverlapMs(a, dia[j]) = OverlapMs(b, dia[j])
  BY SameOverlap
<1>3. \A j \in DOMAIN dia : OverlapMs(b, dia[j]) <= OverlapMs(b, dia[k])
  BY <1>1, <1>2, Zenon
<1>4. dia[k].speaker = b.speaker
  BY <1>1
<1> QED
  BY <1>3, <1>4, Zenon DEF SpokenIn

(* A sequence of segments with the times of another. *)
LEMMA SameTimes ==
  ASSUME NEW a \in Seq(Item), InOrder(a), NEW b, DOMAIN b = DOMAIN a,
         \A k \in DOMAIN a : b[k].t0 = a[k].t0 /\ b[k].t1 = a[k].t1
  PROVE  InOrder(b)
BY Zenon DEF InOrder

LEMMA Renamed ==
  ASSUME NEW s \in Item, NEW x \in Name
  PROVE  /\ [s EXCEPT !.speaker = x] \in Item
         /\ [s EXCEPT !.speaker = x].t0 = s.t0 /\ [s EXCEPT !.speaker = x].t1 = s.t1
         /\ [s EXCEPT !.speaker = x].speaker = x
BY DEF Item

LEMMA Reworded ==
  ASSUME NEW s \in Item, NEW x \in Word
  PROVE  /\ [s EXCEPT !.text = x] \in Item
         /\ [s EXCEPT !.text = x].t0 = s.t0 /\ [s EXCEPT !.text = x].t1 = s.t1
         /\ [s EXCEPT !.text = x].speaker = s.speaker
BY DEF Item

-----------------------------------------------------------------------------
LEMMA ParsedSegments ==
  ASSUME NEW items \in Seq(Item)
  PROVE  /\ ParseSegments(items) \in Seq(Item)
         /\ \A k \in DOMAIN ParseSegments(items) :
              \E j \in DOMAIN items : ParseSegments(items)[k] = items[j]
<1>1. PICK S, p : /\ S = {s \in Range(items) : s.text # NoText \/ s.turn_next}
                  /\ p = Among(items, S)
  OBVIOUS
<1>2. KeptOf(p, items, S, Item, Len(items))
  BY <1>1, AmongOf
<1>4. p \in Seq(Item)
  BY <1>2 DEF KeptOf
<1>5. DOMAIN p = 1 .. Len(p) /\ DOMAIN items = 1 .. Len(items)
  BY <1>4
<1>6. \A k \in DOMAIN p : \E j \in DOMAIN items : p[k] = items[j]
  BY <1>2, <1>5, Zenon DEF KeptOf
<1>7. ParseSegments(items) = p
  BY <1>1, Zenon DEF ParseSegments
<1> QED
  BY <1>4, <1>6, <1>7, Zenon

LEMMA Rebuilt ==
  ASSUME NEW T, NEW U, NEW s \in Seq(T), NEW b, b = [k \in DOMAIN s |-> b[k]],
         \A k \in DOMAIN s : b[k] \in U
  PROVE  b \in Seq(U) /\ DOMAIN b = DOMAIN s /\ Len(b) = Len(s)
<1>1. PICK n : n = Len(s) /\ n \in Nat /\ DOMAIN s = 1 .. n
  OBVIOUS
<1>2. b \in [1 .. n -> U]
  BY <1>1
<1> QED
  BY <1>1, <1>2

(* Everybody in the diarized segments has a name. *)
LEMMA Assigned ==
  ASSUME NEW segs \in Seq(Item)
  PROVE  /\ AssignTurnSpeakers(segs) \in Seq(Item)
         /\ \A k \in DOMAIN AssignTurnSpeakers(segs) :
              AssignTurnSpeakers(segs)[k].speaker # Nobody
<1> DEFINE who(k) == IF segs[k].speaker = Nobody THEN SpeakerAt(segs, k)
                     ELSE segs[k].speaker
<1>1. PICK b : b = AssignTurnSpeakers(segs)
  OBVIOUS
<1>2. b = [k \in DOMAIN segs |-> [segs[k] EXCEPT !.speaker = who(k)]]
  BY <1>1 DEF AssignTurnSpeakers
<1>3. ASSUME NEW k \in DOMAIN segs PROVE b[k] \in Item /\ b[k].speaker # Nobody
  <2>1. SpeakerAt(segs, k) \in Name /\ SpeakerAt(segs, k) # Nobody
    <3>1. SpeakerAt(segs, k) = "Speaker A" \/ SpeakerAt(segs, k) = "Speaker B"
      BY Zenon DEF SpeakerAt
    <3>2. /\ "Speaker A" \in Name /\ "Speaker A" # Nobody
          /\ "Speaker B" \in Name /\ "Speaker B" # Nobody
      BY DEF Nobody, Name
    <3> QED
      BY <3>1, <3>2, Zenon
  <2>2. PICK s, w : s = segs[k] /\ w = who(k)
    OBVIOUS
  <2>3. s \in Item /\ s.speaker \in Name
    BY <2>2, SegmentTimes
  <2>4. w \in Name /\ w # Nobody
    BY <2>1, <2>2, <2>3
  <2>5. b[k] = [s EXCEPT !.speaker = w]
    <3> HIDE DEF who
    <3> QED
      BY <1>2, <2>2
  <2>6. [s EXCEPT !.speaker = w] \in Item /\ [s EXCEPT !.speaker = w].speaker = w
    BY <2>3, <2>4, Renamed
  <2> QED
    BY <2>4, <2>5, <2>6, Zenon
<1>4. b = [k \in DOMAIN segs |-> b[k]]
  <2> HIDE DEF who
  <2> QED
    BY <1>2
<1>5. b \in Seq(Item) /\ DOMAIN b = DOMAIN segs
  BY <1>3, <1>4, Rebuilt
<1> QED
  BY <1>1, <1>3, <1>5, Zenon

(* Every main segment gets the speaker it shares most time with. *)
LEMMA Labelled ==
  ASSUME NEW segs \in Seq(Item), NEW dia \in Seq(Item),
         NEW b, b = MergeSpeakerLabels(segs, dia)
  PROVE  /\ b \in Seq(Item)
         /\ InOrder(segs) => InOrder(b)
         /\ dia = <<>> => b = segs
         /\ dia # <<>> => \A k \in DOMAIN b : SpokenIn(dia, b[k])
<1>1. CASE segs = <<>> \/ dia = <<>>
  <2>1. b = segs
    BY <1>1, Zenon DEF MergeSpeakerLabels
  <2>2. segs = <<>> => \A k \in DOMAIN segs : FALSE
    OBVIOUS
  <2> QED
    BY <1>1, <2>1, <2>2, Zenon
<1>2. CASE ~(segs = <<>> \/ dia = <<>>)
  <2>1. b = [k \in DOMAIN segs |-> [segs[k] EXCEPT !.speaker = LabelOf(segs[k], dia)]]
    BY <1>2, Zenon DEF MergeSpeakerLabels
  <2>2. ASSUME NEW k \in DOMAIN segs
        PROVE  /\ b[k] \in Item /\ b[k].t0 = segs[k].t0 /\ b[k].t1 = segs[k].t1
               /\ SpokenIn(dia, b[k])
    <3>1. PICK s, w : s = segs[k] /\ w = LabelOf(s, dia)
      OBVIOUS
    <3>2. s \in Item
      BY <3>1
    <3>3. PICK i \in DOMAIN dia :
            /\ dia[i].speaker = w
            /\ \A j \in DOMAIN dia : OverlapMs(s, dia[j]) <= OverlapMs(s, dia[i])
      BY <1>2, <3>1, <3>2, LabelBest, Zenon
    <3>4. dia[i] \in Item
      OBVIOUS
    <3>5. w \in Name
      BY <3>3, <3>4, SegmentTimes
    <3>6. PICK x : x = [s EXCEPT !.speaker = w]
      OBVIOUS
    <3>7. x \in Item /\ x.t0 = s.t0 /\ x.t1 = s.t1 /\ x.speaker = w
      BY <3>2, <3>5, <3>6, Renamed
    <3>8. \A j \in DOMAIN dia : OverlapMs(x, dia[j]) = OverlapMs(s, dia[j])
      BY <3>7, SameOverlap
    <3>9. SpokenIn(dia, x)
      BY <3>3, <3>7, <3>8, Zenon DEF SpokenIn
    <3>10. b[k] = x
      BY <2>1, <3>1, <3>6
    <3> QED
      BY <3>1, <3>7, <3>9, <3>10, Zenon
  <2>3. b = [k \in DOMAIN segs |-> b[k]]
    BY <2>1
  <2>4. b \in Seq(Item) /\ DOMAIN b = DOMAIN segs
    BY <2>2, <2>3, Rebuilt
  <2>5. InOrder(segs) => InOrder(b)
    BY <2>2, <2>4, SameTimes
  <2> QED
    BY <1>2, <2>2, <2>4, <2>5, Zenon
<1> QED
  BY <1>1, <1>2

(* A profile leaves times and speakers alone. *)
LEMMA Profiled ==
  ASSUME NEW segs \in Seq(Item), NEW profile,
         NEW b, b = ApplyProfile(segs, profile)
  PROVE  /\ b \in Seq(Item)
         /\ InOrder(segs) => InOrder(b)
         /\ \A k \in DOMAIN b : \E j \in DOMAIN segs :
              /\ segs[j].t0 = b[k].t0 /\ segs[j].t1 = b[k].t1
              /\ segs[j].speaker = b[k].speaker
<1> DEFINE word(x) == IF x.text \in profile.removed THEN NoText ELSE x.text
<1>1. PICK S, h : /\ S = {s \in Range(segs) : s.text \notin profile.noise}
                  /\ h = Among(segs, S)
  OBVIOUS
<1>2. KeptOf(h, segs, S, Item, Len(segs))
  BY <1>1, AmongOf
<1>3. /\ h \in Seq(Item)
      /\ InOrder(segs) => InOrder(h)
  BY <1>1, <1>2, AmongOrder DEF KeptOf
<1>4. DOMAIN h = 1 .. Len(h) /\ DOMAIN segs = 1 .. Len(segs)
  BY <1>3
<1>5. b = [k \in DOMAIN h |-> [h[k] EXCEPT !.text = word(h[k])]]
  BY <1>1 DEF ApplyProfile
<1>6. ASSUME NEW k \in DOMAIN h
      PROVE  /\ b[k] \in Item /\ b[k].t0 = h[k].t0 /\ b[k].t1 = h[k].t1
             /\ b[k].speaker = h[k].speaker
  <2>1. PICK s, w : s = h[k] /\ w = word(h[k])
    OBVIOUS
  <2>2. s \in Item /\ s.text \in Word
    BY <1>3, <2>1, SegmentTimes
  <2>3. w \in Word
    <3>1. NoText \in Word
      BY DEF Word
    <3>2. w = NoText \/ w = s.text
      BY <2>1, Zenon
    <3> QED
      BY <2>2, <3>1, <3>2, Zenon
  <2>4. b[k] = [s EXCEPT !.text = w]
    <3> HIDE DEF word
    <3> QED
      BY <1>5, <2>1
  <2>5. /\ [s EXCEPT !.text = w] \in Item
        /\ [s EXCEPT !.text = w].t0 = s.t0 /\ [s EXCEPT !.text = w].t1 = s.t1
        /\ [s EXCEPT !.text = w].speaker = s.speaker
    BY <2>2, <2>3, Reworded
  <2> QED
    BY <2>1, <2>4, <2>5, Zenon
<1>7. b = [k \in DOMAIN h |-> b[k]]
  <2> HIDE DEF word
  <2> QED
    BY <1>5
<1>8. b \in Seq(Item) /\ DOMAIN b = DOMAIN h
  BY <1>3, <1>6, <1>7, Rebuilt
<1>9. InOrder(segs) => InOrder(b)
  BY <1>3, <1>6, <1>8, SameTimes
<1>10. ASSUME NEW k \in DOMAIN b
       PROVE  \E j \in DOMAIN segs : /\ segs[j].t0 = b[k].t0 /\ segs[j].t1 = b[k].t1
                                     /\ segs[j].speaker = b[k].speaker
  <2>1. PICK j \in DOMAIN segs : h[k] = segs[j]
    BY <1>2, <1>4, <1>8, Zenon DEF KeptOf
  <2> QED
    BY <1>6, <1>8, <2>1, Zenon
<1> QED
  BY <1>8, <1>9, <1>10, Zenon

(* TurnsFaithful for one transcript. *)
Faithful(m) ==
  LET said == Among(m.said, {s \in Range(m.said) : s.text # NoText})
      before[j \in 0 .. Len(m.turns)] ==
        IF j = 0 THEN 0 ELSE before[j - 1] + Len(m.turns[j].parts)
  IN  /\ m.dia # <<>> => before[Len(m.turns)] = Len(said)
      /\ \A j \in DOMAIN m.turns : \A q \in DOMAIN m.turns[j].parts :
           LET t == m.turns[j]
               s == said[before[j - 1] + q]
           IN  /\ t.parts[q] = s.text /\ t.speaker = s.speaker
               /\ InOrder(m.main) => t.t0 <= s.t0 /\ s.t1 <= t.t1
               /\ SpokenBy(m, s)

LEMMA FaithfulCuts ==
  ASSUME NEW m, NEW cut, NEW said, NEW turns, turns = m.turns,
         NEW segs, InOrder(m.main) => InOrder(segs),
         said = Among(m.said, {s \in Range(m.said) : s.text # NoText}),
         m.dia # <<>> => Aligned(segs, turns, cut, said, Len(said)),
         m.dia = <<>> => turns = <<>>,
         \A k \in 1 .. Len(said) : m.dia # <<>> => SpokenIn(m.dia, said[k])
  PROVE  Faithful(m)
<1> DEFINE before[j \in 0 .. Len(m.turns)] ==
             IF j = 0 THEN 0 ELSE before[j - 1] + Len(m.turns[j].parts)
<1>1. CASE m.dia # <<>>
  <2>1. Aligned(segs, turns, cut, said, Len(said))
    BY <1>1
  <2>2. turns \in Seq(Turn) /\ Len(turns) \in Nat /\ Cuts(turns, cut) /\ cut[Len(turns)] = Len(said)
    BY <2>1 DEF Aligned
  <2>3. \A j \in 0 .. Len(turns) : before[j] = cut[j]
    <3>1. Len(m.turns) \in Nat /\ Cuts(m.turns, cut)
      BY <2>2
    <3>2. Counted(m.turns, before)
      <4> DEFINE Eq(g) == Counted(m.turns, g)
      <4>1. Eq(cut)
        BY <3>1, CutsCounted
      <4>2. before = CHOOSE g : Eq(g)
        BY Zenon DEF Counted
      <4> HIDE DEF Eq, before
      <4>3. Eq(before)
        BY <4>1, <4>2
      <4> QED
        BY <4>3 DEF Eq
    <3> HIDE DEF before
    <3>3. PICK g, l : g = before /\ l = m.turns
      OBVIOUS
    <3>4. \A j \in 0 .. Len(l) : g[j] = cut[j]
      BY <3>1, <3>2, <3>3, CutsOnly
    <3> QED
      BY <3>3, <3>4, Zenon
  <2> HIDE DEF before
  <2>4. before[Len(turns)] = Len(said)
    <3>1. Len(turns) \in 0 .. Len(turns)
      BY <2>2
    <3> QED
      BY <2>2, <2>3, <3>1, Zenon
  <2>5. ASSUME NEW j \in DOMAIN turns, NEW q \in DOMAIN turns[j].parts
        PROVE  /\ turns[j].parts[q] = said[before[j - 1] + q].text
               /\ turns[j].speaker = said[before[j - 1] + q].speaker
               /\ InOrder(m.main) => /\ turns[j].t0 <= said[before[j - 1] + q].t0
                                     /\ said[before[j - 1] + q].t1 <= turns[j].t1
               /\ SpokenBy(m, said[before[j - 1] + q])
    <3>1. j \in 1 .. Len(turns)
      BY <2>2
    <3>2. j - 1 \in 0 .. Len(turns) /\ turns[j].parts \in Seq(Word)
      BY <2>1, <3>1, AlignedIndex
    <3>3. DOMAIN turns[j].parts = 1 .. Len(turns[j].parts)
      <4>1. PICK p : p = turns[j].parts
        OBVIOUS
      <4>2. DOMAIN p = 1 .. Len(p)
        BY <3>2, <4>1
      <4> QED
        BY <4>1, <4>2
    <3>4. q \in 1 .. Len(turns[j].parts)
      BY <3>3
    <3>5. /\ cut[j - 1] + q \in 1 .. Len(said)
          /\ Says(segs, turns[j], q, said[cut[j - 1] + q])
      BY <2>1, <3>1, <3>4, AlignedIndex
    <3>6. before[j - 1] = cut[j - 1]
      BY <2>3, <3>2
    <3>7. PICK i : i = before[j - 1] + q
      OBVIOUS
    <3>8. i \in 1 .. Len(said) /\ Says(segs, turns[j], q, said[i])
      BY <3>5, <3>6, <3>7, Zenon
    <3>9. SpokenIn(m.dia, said[i])
      BY <1>1, <3>8
    <3>10. SpokenBy(m, said[i])
      BY <3>9, Zenon DEF SpokenIn, SpokenBy
    <3> QED
      BY <3>7, <3>8, <3>10, Zenon DEF Says
  <2>6. /\ m.dia # <<>> => before[Len(m.turns)] = Len(said)
        /\ \A j \in DOMAIN m.turns : \A q \in DOMAIN m.turns[j].parts :
             LET t == m.turns[j]
                 s == said[before[j - 1] + q]
             IN  /\ t.parts[q] = s.text /\ t.speaker = s.speaker
                 /\ InOrder(m.main) => t.t0 <= s.t0 /\ s.t1 <= t.t1
                 /\ SpokenBy(m, s)
    BY <2>4, <2>5, Zenon
  <2> QED
    BY <2>6, Zenon DEF Faithful, before
<1>2. CASE m.dia = <<>>
  <2>1. m.turns = <<>>
    BY <1>2
  <2>2. \A j \in DOMAIN m.turns : FALSE
    BY <2>1
  <2> QED
    BY <1>2, <2>2, Zenon DEF Faithful
<1> QED
  BY <1>1, <1>2

(* What Format makes of a transcript. *)
LEMMA FormatFaithful ==
  ASSUME NEW t \in Transcripts, NEW diarize, NEW main, NEW dia, NEW said, NEW turns,
         main = ParseSegments(t.main),
         dia = IF diarize THEN AssignTurnSpeakers(ParseSegments(t.dia)) ELSE <<>>,
         said = ApplyProfile(MergeSpeakerLabels(main, dia), t.profile),
         turns = IF \E k \in DOMAIN said : said[k].speaker # Nobody
                 THEN MergeSegmentsIntoTurns(said) ELSE <<>>
  PROVE  Faithful([main |-> main, dia |-> dia, said |-> said, turns |-> turns])
<1>1. /\ t.main \in Seq(Item) /\ t.dia \in Seq(Item)
      /\ \A k \in DOMAIN t.main : t.main[k].speaker = Nobody
  <2>1. PICK a, b : a = t.main /\ b = t.dia /\ a \in Seq(Segment) /\ b \in Seq(Segment)
    BY TranscriptAssumption
  <2>2. a \in Seq(Item) /\ b \in Seq(Item)
    BY <2>1, SegmentIsItem
  <2>3. \A k \in DOMAIN t.main : t.main[k].speaker = Nobody
    BY TranscriptAssumption
  <2> QED
    BY <2>1, <2>2, <2>3, Zenon
<1>2. /\ main \in Seq(Item)
      /\ \A k \in DOMAIN main : main[k].speaker = Nobody
  <2>1. /\ main \in Seq(Item)
        /\ \A k \in DOMAIN main : \E j \in DOMAIN t.main : main[k] = t.main[j]
    BY <1>1, ParsedSegments, Zenon
  <2> QED
    BY <1>1, <2>1, Zenon
<1>3. dia \in Seq(Item) /\ \A k \in DOMAIN dia : dia[k].speaker # Nobody
  <2>1. CASE diarize
    <3>1. PICK d : d = ParseSegments(t.dia) /\ d \in Seq(Item)
      BY <1>1, ParsedSegments
    <3>2. dia = AssignTurnSpeakers(d)
      BY <2>1, <3>1
    <3>3. /\ AssignTurnSpeakers(d) \in Seq(Item)
          /\ \A k \in DOMAIN AssignTurnSpeakers(d) :
               AssignTurnSpeakers(d)[k].speaker # Nobody
      BY <3>1, Assigned
    <3> QED
      BY <3>2, <3>3
  <2>2. CASE ~diarize
    <3>1. PICK e : e = dia /\ e = <<>>
      BY <2>2
    <3>2. <<>> \in Seq(Item) /\ \A k : k \notin DOMAIN <<>>
      OBVIOUS
    <3> QED
      BY ONLY <3>1, <3>2, Zenon
  <2> QED
    BY <2>1, <2>2
<1>4. PICK x : x = MergeSpeakerLabels(main, dia)
  OBVIOUS
<1>5. /\ x \in Seq(Item)
      /\ InOrder(main) => InOrder(x)
      /\ dia = <<>> => x = main
      /\ dia # <<>> => \A k \in DOMAIN x : SpokenIn(dia, x[k])
  BY <1>2, <1>3, <1>4, Labelled
<1>6. /\ said \in Seq(Item)
      /\ InOrder(x) => InOrder(said)
      /\ \A k \in DOMAIN said : \E j \in DOMAIN x :
           /\ x[j].t0 = said[k].t0 /\ x[j].t1 = said[k].t1
           /\ x[j].speaker = said[k].speaker
  BY <1>4, <1>5, Profiled
<1>7. dia # <<>> => \A k \in DOMAIN said : SpokenIn(dia, said[k])
  <2>1. ASSUME dia # <<>>, NEW k \in DOMAIN said PROVE SpokenIn(dia, said[k])
    <3>1. PICK j \in DOMAIN x : /\ x[j].t0 = said[k].t0 /\ x[j].t1 = said[k].t1
                               /\ x[j].speaker = said[k].speaker
      BY <1>6
    <3>2. SpokenIn(dia, x[j])
      BY <1>5, <2>1
    <3> QED
      BY <3>1, <3>2, SpokenSame, Zenon
  <2> QED
    BY <2>1
<1>8. PICK S, spoken : /\ S = {s \in Range(said) : s.text # NoText}
                       /\ spoken = Among(said, S)
  OBVIOUS
<1>9. DOMAIN said = 1 .. Len(said)
  BY <1>6
<1>10. \A k \in 1 .. Len(said) : said[k] \in S <=> said[k].text # NoText
  BY <1>8, <1>9, Zenon DEF Range
<1>11. KeptOf(spoken, said, S, Item, Len(said))
  BY <1>6, <1>8, AmongOf
<1>12. dia # <<>> => \A k \in 1 .. Len(spoken) : SpokenIn(dia, spoken[k])
  BY <1>7, <1>9, <1>11, Zenon DEF KeptOf
<1>13. PICK c : Aligned(said, MergeSegmentsIntoTurns(said), c, spoken, Len(spoken))
  BY <1>6, <1>8, <1>10, MergedAligned, Zenon
<1>14. dia = <<>> => turns = <<>>
  <2>1. ASSUME dia = <<>>, NEW k \in DOMAIN said PROVE said[k].speaker = Nobody
    <3>1. x = main
      BY <1>5, <2>1
    <3>2. PICK j \in DOMAIN x : x[j].speaker = said[k].speaker
      BY <1>6
    <3>3. main[j].speaker = Nobody
      BY <1>2, <3>1, <3>2
    <3> QED
      BY <3>1, <3>2, <3>3, Zenon
  <2> QED
    BY <2>1, Zenon
<1>15. \E d : dia # <<>> => Aligned(said, turns, d, spoken, Len(spoken))
  <2>1. CASE \E k \in DOMAIN said : said[k].speaker # Nobody
    BY <1>13, <2>1, Zenon
  <2>2. CASE dia # <<>> /\ \A k \in DOMAIN said : said[k].speaker = Nobody
    <3>1. ASSUME NEW k \in DOMAIN said PROVE FALSE
      <4>1. SpokenIn(dia, said[k]) /\ said[k].speaker = Nobody
        BY <1>7, <2>2
      <4>2. PICK i \in DOMAIN dia : dia[i].speaker = said[k].speaker
        BY <4>1 DEF SpokenIn
      <4> QED
        BY <1>3, <4>1, <4>2, Zenon
    <3>2. said = <<>>
      BY <1>6, <3>1
    <3>3. TurnsOf(said) = <<>>
      <4>1. Len(said) = 0
        BY <3>2
      <4>2. PICK f : f[0] = <<>> /\ TurnsOf(said) = f[Len(said)]
        BY <1>6, TurnsSteps
      <4> QED
        BY <4>1, <4>2, Zenon
    <3>4. MergeSegmentsIntoTurns(said) = <<>>
      <4>1. PICK K : K = {y \in Range(TurnsOf(said)) : y.parts # <<>>}
        OBVIOUS
      <4>2. <<>> \in Seq(Turn) /\ Len(<<>>) = 0
        OBVIOUS
      <4>3. Among(<<>>, K) = <<>>
        BY <4>2, AmongSteps, Zenon
      <4> QED
        BY <3>3, <4>1, <4>3, Zenon DEF MergeSegmentsIntoTurns
    <3>5. turns = <<>>
      BY <2>2, Zenon
    <3> QED
      BY <1>13, <3>4, <3>5, Zenon
  <2> QED
    BY <2>1, <2>2, Zenon
<1>16. PICK m : m = [main |-> main, dia |-> dia, said |-> said, turns |-> turns]
  OBVIOUS
<1>17. m.main = main /\ m.dia = dia /\ m.said = said /\ m.turns = turns
  BY <1>16
<1>18. PICK d : dia # <<>> => Aligned(said, turns, d, spoken, Len(spoken))
  BY <1>15
<1>19. InOrder(m.main) => InOrder(said)
  BY <1>5, <1>6, <1>17, Zenon
<1>20. Faithful(m)
  BY <1>8, <1>12, <1>14, <1>17, <1>18, <1>19, FaithfulCuts, Zenon
<1> QED
  BY <1>16, <1>20

(* A step leaves the transcripts alone, forgets one, or is Format. *)
LEMMA MadeStep ==
  ASSUME [Next]_vars
  PROVE  \/ made' = made
         \/ \E r \in Runs : made' = [made EXCEPT ![r] = None]
         \/ \E r \in Runs : Format(r)
<1>1. CASE UNCHANGED vars
  BY <1>1 DEF vars, runVars
<1>2. CASE Tick
  BY <1>2 DEF Tick, runVars
<1>3. CASE Publish
  BY <1>3 DEF Publish, runVars
<1>4. CASE Withdraw
  BY <1>4 DEF Withdraw, runVars
<1>5. ASSUME NEW r \in Runs, Step(r)
      PROVE  \/ made' = made \/ made' = [made EXCEPT ![r] = None] \/ Format(r)
  <2>1. CASE Inspect(r)
    BY <2>1, Zenon DEF Inspect
  <2>2. CASE Choose(r)
    BY <2>2, Zenon DEF Choose
  <2>3. CASE MakeDirectory(r)
    BY <2>3, Zenon DEF MakeDirectory
  <2>4. CASE Download(r)
    BY <2>4, Zenon DEF Download
  <2>5. CASE Transcode(r)
    BY <2>5, Zenon DEF Transcode
  <2>6. CASE StartCli(r)
    BY <2>6 DEF StartCli, runVars
  <2>7. CASE CliRuns(r)
    BY <2>7 DEF CliRuns, runVars
  <2>8. CASE CliEnded(r)
    BY <2>8, Zenon DEF CliEnded
  <2>9. CASE Format(r)
    BY <2>9
  <2>10. CASE WriteTranscript(r)
    BY <2>10, Zenon DEF WriteTranscript, WriteFile
  <2>11. CASE WriteManifest(r)
    BY <2>11, Zenon DEF WriteManifest, WriteFile
  <2> QED
    BY <1>5, <2>1, <2>2, <2>3, <2>4, <2>5, <2>6, <2>7, <2>8, <2>9, <2>10, <2>11, Zenon DEF Step
<1>6. ASSUME NEW r \in Runs, Interrupt(r) \/ Kill(r)
      PROVE  made' = [made EXCEPT ![r] = None]
  BY <1>6, Zenon DEF Interrupt, Kill
<1> QED
  BY <1>1, <1>2, <1>3, <1>4, <1>5, <1>6, Zenon DEF Next

TurnsInv == DOMAIN made = Runs /\ \A r \in Runs : made[r] # None => Faithful(made[r])

LEMMA TurnsInit == Init => TurnsInv
<1> SUFFICES ASSUME Init PROVE TurnsInv
  OBVIOUS
<1>1. made = [r \in Runs |-> None]
  BY DEF Init
<1> QED
  BY <1>1 DEF TurnsInv

LEMMA TurnsNext == TurnsInv /\ [Next]_vars => TurnsInv'
<1> SUFFICES ASSUME TurnsInv, [Next]_vars PROVE TurnsInv'
  OBVIOUS
<1>1. CASE made' = made
  BY <1>1, Zenon DEF TurnsInv
<1>2. ASSUME NEW r \in Runs, NEW m, made' = [made EXCEPT ![r] = m], m # None => Faithful(m)
      PROVE  TurnsInv'
  <2>1. DOMAIN made = Runs
    BY DEF TurnsInv
  <2>2. DOMAIN made' = Runs
    BY <1>2, <2>1
  <2>3. made'[r] = m
    BY <1>2, <2>1
  <2>4. ASSUME NEW q \in Runs, made'[q] # None PROVE Faithful(made'[q])
    <3>1. CASE q = r
      BY <1>2, <2>3, <2>4, <3>1, Zenon
    <3>2. CASE q # r
      <4>1. made'[q] = made[q]
        BY <1>2, <2>1, <3>2
      <4> QED
        BY <2>4, <4>1, Zenon DEF TurnsInv
    <3> QED
      BY <3>1, <3>2
  <2> QED
    BY <2>2, <2>4, Zenon DEF TurnsInv
<1>3. CASE \E r \in Runs : made' = [made EXCEPT ![r] = None]
  BY <1>2, <1>3, Zenon
<1>4. ASSUME NEW r \in Runs, Format(r)
      PROVE  \E m : made' = [made EXCEPT ![r] = m] /\ Faithful(m)
  <2> DEFINE main(t) == ParseSegments(t.main)
             dia(t)  == IF args[r].diarization
                        THEN AssignTurnSpeakers(ParseSegments(t.dia)) ELSE <<>>
             said(t) == ApplyProfile(MergeSpeakerLabels(main(t), dia(t)), t.profile)
             turns(t) == IF \E k \in DOMAIN said(t) : said(t)[k].speaker # Nobody
                         THEN MergeSegmentsIntoTurns(said(t)) ELSE <<>>
             all(t)  == [main |-> main(t), dia |-> dia(t), said |-> said(t), turns |-> turns(t)]
  <2>1. PICK t \in Transcripts : made' = [made EXCEPT ![r] = all(t)]
    BY <1>4, Zenon DEF Format
  <2>2. Faithful(all(t))
    BY FormatFaithful, Zenon
  <2> QED
    BY <2>1, <2>2, Zenon
<1> QED
  BY <1>1, <1>2, <1>3, <1>4, MadeStep, Zenon

(* The turns of a transcript say every text once and in order, under the    *)
(* speaker it shares most time with and within the times of the turn, for   *)
(* any two transcripts and any profile (merge_speaker_labels,               *)
(* merge_segments_into_turns).                                              *)
THEOREM TurnsAreFaithful == Spec => []TurnsFaithful
<1>1. TurnsInv => TurnsFaithful
  BY Zenon DEF TurnsInv, TurnsFaithful, Faithful
<1> QED
  BY <1>1, TurnsInit, TurnsNext, PTL DEF Spec
=============================================================================
