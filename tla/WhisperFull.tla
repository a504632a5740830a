---------------------------- MODULE WhisperFull ----------------------------
(***************************************************************************)
(* whisper_full_with_state (src/whisper.cpp): the loop that transcribes    *)
(* the audio window by window.  A window is encoded at seek, decoded by    *)
(* several decoders at rising temperatures until one result is good        *)
(* enough, emitted as segments, and seek moves on by what was transcribed. *)
(*                                                                         *)
(* Kept: every branch, return code and assignment of the loop.             *)
(* Abstracted: the model's numbers.  Logits, log-probabilities, entropy    *)
(* and scores are nondeterministic choices among the outcomes the code     *)
(* compares them for; a prompt is its length; a token is TEXT, EOT, or a   *)
(* timestamp k >= 0 standing for token_beg + k, that is 2*k frames after   *)
(* seek.  The filters of whisper_process_logits decide which tokens can    *)
(* come next.  Sizes (frames per window, context length) are constants, so *)
(* that a small instance keeps the proportions of the real ones.           *)
(***************************************************************************)
EXTENDS Integers, Sequences, SequencesExt

CONSTANTS
  NTextCtx,     \* whisper_n_text_ctx: 448
  MaxDecoders,  \* WHISPER_MAX_DECODERS: 8
  ChunkFrames,  \* 100*WHISPER_CHUNK_SIZE: 3000 frames of 10 ms
  DeltaMin,     \* delta_min: 10 frames
  ShortTail,    \* 500 frames
  EntropyLen,   \* 32 tokens
  TokenBeg,     \* whisper_token_beg: 50364, far above every timestamp
  Guesses,      \* timestamps that may look likeliest at a text token
  Params,       \* the whisper_full_params a caller may pass
  MaxCalls      \* bound: calls on one state

ASSUME SizesAssumption ==
  /\ NTextCtx \in Nat /\ NTextCtx >= 10
  /\ MaxDecoders \in Nat \ {0}
  /\ ChunkFrames \in Nat /\ ChunkFrames >= 2
  /\ DeltaMin \in Nat \ {0}
  /\ ShortTail \in Nat
  /\ EntropyLen \in Nat
  /\ TokenBeg \in Nat /\ TokenBeg > ChunkFrames
  /\ Guesses \subseteq 0 .. ChunkFrames \div 2
  /\ MaxCalls \in Nat

TEXT == -2
EOT == -1
Timestamps == 0 .. ChunkFrames \div 2

(* A call's parameters.  cutoff counts the temperatures below               *)
(* WHISPER_HISTORY_CONDITIONING_TEMP_CUTOFF; temp0 says that the first is   *)
(* 0; max_initial_ts is a timestamp.  duration is the length of the audio   *)
(* behind offset when duration_ms is 0.                                     *)
IsParams(p) ==
  /\ p.strategy \in {"greedy", "beam_search"}
  /\ {p.best_of, p.beam_size, p.n_temps} \subseteq Nat \ {0}
  /\ {p.cutoff, p.offset, p.duration, p.n_max_text_ctx, p.max_tokens,
      p.prompt_n_tokens, p.max_initial_ts} \subseteq Nat
  /\ {p.temp0, p.suppress_blank, p.no_timestamps, p.single_segment, p.no_context,
      p.carry_initial_prompt, p.dtw} \subseteq BOOLEAN
  /\ p.n_init \in 1 .. 4

ASSUME ParamsAssumption == \A p \in Params : IsParams(p)

VARIABLES
  pc, params, ret, calls,
  seek, it, i,
  n_decoders_cur, kv_self_n_dec,
  dec,               \* the decoders
  low, no_speech,    \* avg_logprobs < logprob_thold; no_speech_prob > thold
  past0, past1,      \* lengths of prompt_past0 and prompt_past1
  prompt,            \* [prev, take0, take1]: what the prompt is made of
  n_past,            \* last position given to whisper_decode_internal
  best_decoder_id,
  segments,          \* segments of the last window
  announced,         \* those new_segment_callback was told of
  n_results,         \* size of result_all
  last_end           \* history: t1 of the last segment of earlier windows

loopVars == <<params, ret, calls, seek>>
decodeVars == <<it, i, n_decoders_cur, kv_self_n_dec, dec, low, no_speech,
                n_past, best_decoder_id>>
promptVars == <<past0, past1, prompt>>
resultVars == <<segments, announced, n_results, last_end>>

vars == <<pc, loopVars, decodeVars, promptVars, resultVars>>

Min2(a, b) == IF a < b THEN a ELSE b
Max2(a, b) == IF a > b THEN a ELSE b

NMax == NTextCtx \div 2 - 4          \* n_max of the token loop
SeekStart == params.offset
SeekEnd == params.offset + params.duration
MaxPromptCtx(p) == Min2(p.n_max_text_ctx, NTextCtx \div 2)
PromptSize(pr, p) ==
  (IF pr.prev THEN 1 ELSE 0) + pr.take0 + pr.take1 + p.n_init

Decoders == 0 .. MaxDecoders - 1
Current == {j \in Decoders : j < n_decoders_cur}

NewDecoder ==
  [tokens |-> <<>>, tid |-> 0, seek_delta |-> ChunkFrames, result_len |-> 0,
   failed |-> FALSE, completed |-> FALSE, has_ts |-> FALSE]

Live(j) == j \in Current /\ ~dec[j].failed /\ ~dec[j].completed

NoPrompt == [prev |-> FALSE, take0 |-> 0, take1 |-> 0]

Init ==
  /\ pc = "idle"
  /\ params \in Params
  /\ ret = 0 /\ calls = 0 /\ seek = 0 /\ it = 0 /\ i = 0
  /\ n_decoders_cur = 1 /\ kv_self_n_dec = 1
  /\ dec = [j \in Decoders |-> NewDecoder]
  /\ low = [j \in Decoders |-> TRUE]
  /\ no_speech = FALSE
  /\ past0 = 0 /\ past1 = 0
  /\ prompt = NoPrompt
  /\ n_past = 0
  /\ best_decoder_id = 0
  /\ segments = <<>> /\ announced = {} /\ n_results = 0 /\ last_end = 0

-----------------------------------------------------------------------------
(* Setup: everything before the main loop. *)

NDecoders(p) ==
  IF p.strategy = "greedy" THEN p.best_of ELSE Max2(p.best_of, p.beam_size)

Return(code) == pc' = "idle" /\ ret' = code

(* Returns before the state's prompt is touched: -2 spectrogram, -3         *)
(* language, 0 only detecting the language or too short, -4 too many        *)
(* decoders.                                                                *)
CallFails(p, code) ==
  /\ pc = "idle" /\ calls < MaxCalls
  /\ \/ code \in {-2, -3, 0}
     \/ code = -4 /\ p.duration >= DeltaMin /\ NDecoders(p) > MaxDecoders
  /\ params' = p
  /\ calls' = calls + 1
  /\ n_results' = 0 /\ segments' = <<>> /\ announced' = {} /\ last_end' = 0
  /\ Return(code)
  /\ UNCHANGED <<seek, decodeVars, promptVars>>

(* The initial prompt goes to prompt_past0 (static) when it is carried to   *)
(* every window, else to the front of prompt_past1.                         *)
Past0(p) ==
  LET old == IF p.no_context THEN 0 ELSE past0
  IN  IF p.carry_initial_prompt /\ p.prompt_n_tokens > 0 /\ old = 0
      THEN Min2(p.prompt_n_tokens, Max2(1, MaxPromptCtx(p) - 1))
      ELSE old

Past1(p) ==
  LET old == IF p.no_context THEN 0 ELSE past1
  IN  IF p.carry_initial_prompt THEN old ELSE old + p.prompt_n_tokens

(* The call starts, or returns -5 (audio_ctx too large) when the prompt has *)
(* already been stored.                                                     *)
Call(p) ==
  /\ pc = "idle" /\ calls < MaxCalls
  /\ p.duration >= DeltaMin
  /\ NDecoders(p) <= MaxDecoders
  /\ params' = p
  /\ calls' = calls + 1
  /\ past0' = Past0(p)
  /\ past1' = Past1(p)
  /\ seek' = p.offset
  /\ n_results' = 0 /\ segments' = <<>> /\ announced' = {} /\ last_end' = 0
  /\ \/ pc' = "window" /\ UNCHANGED ret
     \/ Return(-5)
  /\ UNCHANGED <<prompt, decodeVars>>

-----------------------------------------------------------------------------
(* The top of the main loop. *)

(* Less than 100 ms left, or encoder_begin_callback said no. *)
Stop ==
  /\ pc = "window"
  /\ Return(0)
  /\ UNCHANGED <<params, calls, seek, decodeVars, promptVars, resultVars>>

EncodeFails ==
  /\ pc = "window" /\ seek + DeltaMin < SeekEnd
  /\ Return(-6)
  /\ UNCHANGED <<params, calls, seek, decodeVars, promptVars, resultVars>>

(* The window is encoded; a short tail forgets the past. *)
Encode ==
  /\ pc = "window" /\ seek + DeltaMin < SeekEnd
  /\ IF seek > SeekStart /\ seek + ShortTail >= SeekEnd
     THEN past0' = 0 /\ past1' = 0
     ELSE UNCHANGED <<past0, past1>>
  /\ best_decoder_id' = 0
  /\ it' = 0
  /\ pc' = "temperature"
  /\ UNCHANGED <<loopVars, i, n_decoders_cur, kv_self_n_dec, dec, low,
                 no_speech, n_past, prompt, resultVars>>

-----------------------------------------------------------------------------
(* One temperature: decoders and prompt are set up, the prompt is decoded.  *)

CurrentDecoders ==
  LET hot == it > 0 \/ ~params.temp0
  IN  IF params.strategy = "greedy"
      THEN IF hot THEN params.best_of ELSE 1
      ELSE IF hot THEN params.best_of ELSE params.beam_size

(* What max_prompt_ctx leaves to the dynamic tokens; a plausible slip first. *)
RoomIgnoresStatic(t0) == MaxPromptCtx(params)

Room(t0) == MaxPromptCtx(params) - t0 - 1

(* Static tokens first, then as many dynamic ones as the budget leaves;     *)
(* take1 is negative when the static tokens exceed it.                      *)
BuildPrompt ==
  LET t0 == IF params.carry_initial_prompt THEN past0 ELSE 0
  IN  IF MaxPromptCtx(params) > 0 /\ it < params.cutoff /\ (t0 > 0 \/ past1 > 0)
      THEN [prev |-> TRUE, take0 |-> t0, take1 |-> Min2(Room(t0), past1)]
      ELSE NoPrompt

BeginTemperature ==
  /\ pc = "temperature"
  /\ n_decoders_cur' = CurrentDecoders
  /\ dec' = [j \in Decoders |->
               IF j < CurrentDecoders THEN NewDecoder ELSE dec[j]]
  /\ low' = [j \in Decoders |-> j < CurrentDecoders \/ low[j]]
  /\ prompt' = BuildPrompt

(* -7: the cache cannot grow and the state is freed.  -8: decode fails.     *)
CacheFails ==
  /\ BeginTemperature
  /\ kv_self_n_dec < CurrentDecoders
  /\ pc' = "freed" /\ ret' = -7
  /\ UNCHANGED <<params, calls, seek, it, i, kv_self_n_dec, no_speech, n_past,
                 best_decoder_id, past0, past1, resultVars>>

(* The cache grows with the decoders, and never shrinks. *)
CacheFor == Max2(kv_self_n_dec, CurrentDecoders)

DecodePrompt ==
  /\ BeginTemperature
  /\ kv_self_n_dec' = CacheFor
  /\ n_past' = PromptSize(prompt', params) - 1
  /\ i' = 0
  /\ \/ pc' = "sample" /\ no_speech' \in BOOLEAN /\ UNCHANGED ret
     \/ Return(-8) /\ UNCHANGED no_speech
  /\ UNCHANGED <<params, calls, seek, it, best_decoder_id, past0, past1,
                 resultVars>>

-----------------------------------------------------------------------------
(* whisper_process_logits: the tokens that keep a probability.  Timestamps  *)
(* come in pairs except before EOT, start early and never decrease.         *)
IsTimestamp(tok) == tok >= 0

(* Timestamps do not decrease; a plausible slip first. *)
AnyTime(d, tok) == TRUE

NotBefore(d, tok) == d.has_ts => tok >= d.seek_delta \div 2

Allowed(d) ==
  LET n == Len(d.tokens)
      last == n > 0 /\ IsTimestamp(d.tokens[n])
      penultimate == n < 2 \/ IsTimestamp(d.tokens[n - 1])
  IN  {tok \in {TEXT, EOT} \cup Timestamps :
         IF IsTimestamp(tok)
         THEN /\ ~params.no_timestamps
              /\ ~(last /\ penultimate)
              /\ n = 0 /\ params.max_initial_ts > 0 => tok <= params.max_initial_ts
              /\ NotBefore(d, tok)
         ELSE /\ n = 0 /\ params.suppress_blank => tok # EOT
              /\ last /\ ~penultimate => tok # TEXT}

(* tid - token_beg of a token: a timestamp's own; of another token, the     *)
(* likeliest timestamp.  When no timestamp has a probability the greedy     *)
(* sampler leaves tid at 0 and the top-k sampler at token_beg.              *)
Tids(tok) ==
  IF IsTimestamp(tok) THEN {tok}
  ELSE IF ~params.no_timestamps THEN Guesses
  ELSE IF params.strategy = "greedy" THEN {-TokenBeg}
  ELSE {0}

(* Decoder d after sampling tok: only the tid of the first token is used.   *)
Extend(d, tok, tid) ==
  [d EXCEPT !.tokens = Append(@, tok),
            !.tid = IF d.tokens = <<>> THEN tid ELSE @]

Extensions(d) ==
  UNION {{Extend(d, tok, tid) :
            tid \in IF d.tokens = <<>> THEN Tids(tok) ELSE {0}} :
         tok \in Allowed(d)}

(* One sampling round: a greedy decoder extends its own sequence; with beam *)
(* search each live decoder takes over one of the candidates that the live  *)
(* decoders propose.                                                        *)
Parents(j) ==
  IF params.strategy = "greedy" THEN {j} ELSE {k \in Current : Live(k)}

SampleRounds ==
  LET live == {j \in Current : Live(j)}
      all == UNION {Extensions(dec[k]) : k \in live}
  IN  {f \in [live -> all] :
         \A j \in live : \E k \in Parents(j) : f[j] \in Extensions(dec[k])}

-----------------------------------------------------------------------------
(* The decoder state after its new token, in the order of the code: a later *)
(* timestamp moves seek_delta; the segment may end; the last round fails a  *)
(* decoder that found nothing or less than half a window.                   *)

(* id > token_beg; a plausible slip first: <|0.00|> counts as well.         *)
AtLeastBeg(tok) == tok >= 0

PastBeg(tok) == tok > 0

ToSeekDelta(d) ==
  LET tok == d.tokens[Len(d.tokens)]
  IN  IF PastBeg(tok)
      THEN [d EXCEPT !.seek_delta = 2 * tok, !.result_len = i + 1,
                     !.has_ts = TRUE]
      ELSE d

BackInTime(d) ==
  LET tok == d.tokens[Len(d.tokens)]
  IN  PastBeg(tok) /\ d.has_ts /\ d.seek_delta > 2 * tok /\ d.result_len < i

NearEnd(d) == seek + d.seek_delta + DeltaMin >= SeekEnd

Ended(d) ==
  \/ d.tokens[Len(d.tokens)] = EOT
  \/ params.max_tokens > 0 /\ i >= params.max_tokens
  \/ d.has_ts /\ NearEnd(d)

Complete(d) ==
  LET whole == params.single_segment \/ params.no_timestamps
      nothing == d.result_len = 0 /\ ~params.no_timestamps
  IN  IF nothing /\ ~NearEnd(d) THEN [d EXCEPT !.failed = TRUE]
      ELSE [d EXCEPT !.completed = TRUE,
                     !.result_len = IF nothing \/ whole THEN i + 1 ELSE @,
                     !.seek_delta = IF whole THEN ChunkFrames ELSE @]

Stuck(d) ==
  i = NMax - 1 /\ (d.result_len = 0 \/ d.seek_delta < ChunkFrames \div 2)

Update(d) ==
  IF BackInTime(d) THEN [d EXCEPT !.failed = TRUE]
  ELSE LET e == ToSeekDelta(d)
       IN  IF Ended(e) THEN Complete(e)
           ELSE IF Stuck(e) THEN [e EXCEPT !.failed = TRUE]
           ELSE e

(* One round of the token loop up to the test whether every decoder is      *)
(* done.                                                                    *)
Sample ==
  /\ pc = "sample"
  /\ \E f \in SampleRounds :
       dec' = [j \in Decoders |->
                IF j \in DOMAIN f THEN Update(f[j]) ELSE dec[j]]
  /\ pc' = IF \E j \in Current : ~dec'[j].failed /\ ~dec'[j].completed
           THEN "logits" ELSE "rank"
  /\ UNCHANGED <<loopVars, it, i, n_decoders_cur, kv_self_n_dec, low,
                 no_speech, n_past, best_decoder_id, promptVars,
                 resultVars>>

(* The rounds of the token loop: i < n_max; a plausible slip first. *)
AnotherRoundOfMore(k) == k <= NMax

AnotherRound(k) == k < NMax

(* The new tokens are decoded at position prompt.size() + i. *)
DecodeTokens ==
  /\ pc = "logits"
  /\ n_past' = PromptSize(prompt, params) + i
  /\ i' = i + 1
  /\ \/ Return(-9)
     \/ pc' = (IF AnotherRound(i + 1) THEN "sample" ELSE "rank") /\ UNCHANGED ret
  /\ UNCHANGED <<params, calls, seek, it, n_decoders_cur, kv_self_n_dec, dec,
                 low, no_speech, best_decoder_id, promptVars,
                 resultVars>>

-----------------------------------------------------------------------------
(* Ranking: every decoder that has not failed is cut to result_len and      *)
(* scored; a long repetitive one fails now; any of the others may score     *)
(* best.  If there is none, best_decoder_id keeps its value.                *)
Cut(d) == [d EXCEPT !.tokens = SubSeq(@, 1, Min2(Len(@), d.result_len))]

Ranked == {j \in Current : ~dec[j].failed}

Repetitive == {j \in Ranked : dec[j].result_len > EntropyLen}

Rank ==
  /\ pc = "rank"
  /\ \E bad \in SUBSET Repetitive :
       /\ dec' = [j \in Decoders |->
                   IF j \notin Ranked THEN dec[j]
                   ELSE [Cut(dec[j]) EXCEPT !.failed = j \in bad]]
       /\ best_decoder_id' \in
            IF Ranked \ bad = {} THEN {best_decoder_id} ELSE Ranked \ bad
  /\ \E l \in SUBSET Ranked :
       low' = [j \in Decoders |-> IF j \in Ranked THEN j \in l ELSE low[j]]
  /\ pc' = "fallback"
  /\ UNCHANGED <<loopVars, it, i, n_decoders_cur, kv_self_n_dec, no_speech,
                 n_past, promptVars, resultVars>>

(* The next temperature, unless this one succeeded or was the last. *)
Rejected ==
  \/ dec[best_decoder_id].failed
  \/ low[best_decoder_id] /\ ~no_speech

Fallback ==
  /\ pc = "fallback"
  /\ IF it # params.n_temps - 1 /\ Rejected
     THEN it' = it + 1 /\ pc' = "temperature"
     ELSE pc' = "output" /\ UNCHANGED it
  /\ UNCHANGED <<loopVars, i, n_decoders_cur, kv_self_n_dec, dec, low,
                 no_speech, n_past, best_decoder_id, promptVars,
                 resultVars>>

-----------------------------------------------------------------------------
(* The result of the window: segments, callbacks, rolling context, seek.    *)

(* The segments of a token sequence.  The first timestamp of a run of       *)
(* timestamps closes the segment and opens the next one at its own time;    *)
(* text left at the end closes at seek + seek_delta (first a plausible slip: *)
(* at the end of the window).                                               *)
Segment(acc, tok) ==
  IF tok = TEXT THEN [acc EXCEPT !.text = TRUE, !.run = FALSE]
  ELSE IF tok > 0 /\ ~params.single_segment
  THEN IF acc.run THEN acc
       ELSE [segs |-> IF acc.text
                      THEN Append(acc.segs, [t0 |-> acc.t0, t1 |-> seek + 2 * tok])
                      ELSE acc.segs,
             t0 |-> seek + 2 * tok, text |-> FALSE, run |-> TRUE]
  ELSE [acc EXCEPT !.run = FALSE]

(* The last text of a window ends where the next window starts.             *)
LastEnd(d) == seek + d.seek_delta

SegmentsOf(d) ==
  LET acc == FoldLeft(Segment,
                      [segs |-> <<>>, t0 |-> seek + 2 * d.tid,
                       text |-> FALSE, run |-> FALSE],
                      d.tokens)
  IN  IF acc.text
      THEN Append(acc.segs, [t0 |-> acc.t0, t1 |-> LastEnd(d)])
      ELSE acc.segs

(* new_segment_callback is called after each segment with n_new = 1; with   *)
(* DTW, once the window's timestamps are known, for each seg of the loop    *)
(* 'seg = size - n; seg < n' with n_new = seg, meaning the last seg ones.   *)
Announced(n) ==
  IF ~params.dtw THEN 1 .. n
  ELSE {k \in 1 .. n : \E seg \in n_results .. n - 1 : k > n - seg}

(* A window that ends in text and one timestamp is skipped whole.           *)
SingleTimestampEnding(toks) ==
  /\ Len(toks) > 1
  /\ toks[Len(toks) - 1] < 0
  /\ toks[Len(toks)] > 0

SeekDelta(d) ==
  IF SingleTimestampEnding(d.tokens)
  THEN Min2(SeekEnd - seek, ChunkFrames)
  ELSE d.seek_delta

Output ==
  LET d == dec[best_decoder_id]
      is_no_speech == no_speech /\ low[best_decoder_id]
      segs == IF d.tokens = <<>> \/ is_no_speech THEN <<>> ELSE SegmentsOf(d)
  IN  /\ pc = "output"
      /\ past1' = (IF ~params.carry_initial_prompt /\ prompt.prev
                   THEN prompt.take0 + prompt.take1 ELSE 0)
                  + (IF is_no_speech THEN 0 ELSE d.result_len)
      /\ segments' = segs
      /\ announced' = Announced(Len(segs))
      /\ n_results' = n_results + Len(segs)
      /\ last_end' = IF segments = <<>> THEN last_end
                     ELSE segments[Len(segments)].t1
      /\ seek' = seek + SeekDelta(d)
      /\ pc' = "window"
      /\ UNCHANGED <<params, ret, calls, decodeVars, past0, prompt>>

(* No more calls, or the state is gone. *)
Done ==
  /\ \/ pc = "freed"
     \/ pc = "idle" /\ calls = MaxCalls
  /\ UNCHANGED vars

Step ==
  \/ Stop \/ EncodeFails \/ Encode
  \/ CacheFails \/ DecodePrompt \/ Sample \/ DecodeTokens
  \/ Rank \/ Fallback \/ Output

Next ==
  \/ \E p \in Params : Call(p) \/ \E code \in {-2, -3, 0, -4} : CallFails(p, code)
  \/ Step
  \/ Done

Spec == Init /\ [][Next]_vars

(* One thread runs the loop: it does not stop between two statements.       *)
FairSpec == Spec /\ WF_vars(Step)

-----------------------------------------------------------------------------
(* Every token is decoded at a position of the text context: the prompt and *)
(* all the rounds of the token loop just fit.                               *)
PositionsFit == n_past < NTextCtx

(* "do not allow to go back in time" (whisper.cpp:7357) never triggers:     *)
(* the filter of decreasing timestamps already excludes it, in beam search  *)
(* too, where a decoder takes over another one's seek_delta and has_ts.     *)
NeverBackInTime ==
  pc = "sample" =>
    \A j \in Current : Live(j) =>
      \A e \in Extensions(dec[j]) : ~BackInTime(e)

(* No segment begins before the end of the one before it, within a window   *)
(* and from a window to the next, fallbacks and failed decoders included,   *)
(* unless the caller has asked for no timestamps.  A segment may end before *)
(* it begins: the first of a window begins where its first token's tid      *)
(* guesses, and a timestamp may be smaller (whisper.cpp:7618, 7638).        *)
SegmentsOrdered ==
  pc = "window" /\ ~params.no_timestamps =>
    /\ \A k \in 1 .. Len(segments) - 1 : segments[k].t1 <= segments[k + 1].t0
    /\ segments # <<>> => last_end <= segments[1].t0

(* Every window moves seek forward, by at least one timestamp (20 ms).      *)
SeekAdvances == [][pc = "output" => seek' >= seek + 2]_vars

(* Every call returns, or frees the state.                                  *)
CallReturns == pc = "window" ~> pc \in {"idle", "freed"}

(* "Called on every newly generated text segment" (whisper.h:461).          *)
EverySegmentAnnounced ==
  pc = "window" => announced = 1 .. Len(segments)

(* The prompt keeps to its budget, and never takes a negative number of     *)
(* tokens ("Fill remaining budget with dynamic tokens", whisper.cpp:7118),  *)
(* on a state whose calls all have the same n_max_text_ctx.                 *)
PromptBudget ==
  pc = "sample" /\ prompt.prev =>
    /\ prompt.take1 >= 0
    /\ 1 + prompt.take0 + prompt.take1 <= MaxPromptCtx(params)
=============================================================================
