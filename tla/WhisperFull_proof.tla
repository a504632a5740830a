------------------------- MODULE WhisperFull_proof -------------------------
(***************************************************************************)
(* Proofs about the decoding loop for every size of the context and of the *)
(* window, every set of parameters a caller may pass and any number of     *)
(* calls on one state: every token is decoded inside the text context, the *)
(* cache is wide enough, no decoder goes back in time, every window moves  *)
(* seek forward, the prompt keeps its budget when all calls have the same  *)
(* one, and the segments are in order.                                     *)
(***************************************************************************)
EXTENDS WhisperFull, WellFoundedInduction, TLAPS

(* The places in which the decoders and the prompt of a temperature are set *)
(* up, and in which a window is being transcribed.                          *)
Decoding == {"sample", "logits", "rank", "fallback", "output"}
InWindow == Decoding \cup {"temperature"}

Tokens == {TEXT, EOT} \cup Timestamps

DecoderType ==
  [tokens : Seq(Tokens), tid : Int, seek_delta : Nat, result_len : Nat,
   failed : BOOLEAN, completed : BOOLEAN, has_ts : BOOLEAN]

PromptType == [prev : BOOLEAN, take0 : Nat, take1 : Int]

(* A decoder stands for at least one timestamp of audio; while it goes on,  *)
(* seek_delta is the last timestamp it has accepted.                        *)
DecoderOK(d) ==
  /\ d \in DecoderType
  /\ d.seek_delta >= 2
  /\ d.has_ts /\ ~d.completed => \E k \in Nat : d.seek_delta = 2 * k

DecodersInv == DOMAIN dec = Decoders /\ \A j \in Decoders : DecoderOK(dec[j])

TypeInv ==
  /\ pc \in {"idle", "window", "freed"} \cup InWindow
  /\ params \in Params
  /\ seek \in Nat /\ it \in Nat /\ i \in Nat
  /\ past0 \in Nat /\ past1 \in Nat
  /\ prompt \in PromptType
  /\ n_past \in Int
  /\ best_decoder_id \in Decoders
  /\ n_decoders_cur \in Nat /\ kv_self_n_dec \in Nat

(* A window is only begun when more than DeltaMin frames are left. *)
WindowInv == pc \in InWindow => seek + DeltaMin < SeekEnd

(* The prompt takes half of the context and the tokens of prompt_init; the  *)
(* tokens it took from the past are never fewer than none.                  *)
PromptInv ==
  /\ prompt.prev => prompt.take0 + prompt.take1 >= 0
  /\ pc \in Decoding => PromptSize(prompt, params) <= NTextCtx \div 2 + 4

RoundInv == pc \in {"sample", "logits"} => i < NMax

IInv ==
  /\ TypeInv /\ DecodersInv /\ WindowInv /\ PromptInv /\ RoundInv
  /\ PositionsFit

-----------------------------------------------------------------------------
(* Half the context holds the rounds of the token loop and the prompt. *)
LEMMA Half ==
  /\ NTextCtx \div 2 \in Nat /\ 2 * (NTextCtx \div 2) <= NTextCtx
  /\ NTextCtx \div 2 >= 5 /\ NMax = NTextCtx \div 2 - 4 /\ NTextCtx \in Nat
BY SizesAssumption DEF NMax

(* What the assumptions say about the sizes and the tokens. *)
LEMMA Sizes ==
  /\ ChunkFrames \in Nat /\ ChunkFrames >= 2 /\ DeltaMin \in Nat /\ DeltaMin >= 1
  /\ TokenBeg \in Nat /\ ShortTail \in Nat
  /\ Guesses \subseteq Nat
  /\ MaxDecoders \in Nat /\ 0 \in Decoders
  /\ \A k \in Timestamps : k \in Nat
  /\ TEXT \in Int /\ EOT \in Int /\ TEXT \notin Timestamps /\ EOT \notin Timestamps
BY SizesAssumption DEF Decoders, Timestamps, TEXT, EOT

(* The parameters a caller passes; whatever they are, at most half of the  *)
(* context is prompt.                                                      *)
LEMMA ParamsType ==
  ASSUME NEW p \in Params
  PROVE  /\ p.offset \in Nat /\ p.duration \in Nat /\ p.n_max_text_ctx \in Nat
         /\ p.prompt_n_tokens \in Nat /\ p.best_of \in Nat /\ p.beam_size \in Nat
         /\ p.best_of > 0 /\ p.beam_size > 0
         /\ p.n_init \in Nat /\ p.n_init >= 1 /\ p.n_init <= 4
         /\ MaxPromptCtx(p) \in Nat /\ MaxPromptCtx(p) <= NTextCtx \div 2
<1>1. IsParams(p)
  BY ParamsAssumption
<1>2. /\ p.offset \in Nat /\ p.duration \in Nat /\ p.n_max_text_ctx \in Nat
      /\ p.prompt_n_tokens \in Nat /\ p.best_of \in Nat \ {0} /\ p.beam_size \in Nat \ {0}
      /\ p.n_init \in 1 .. 4
  BY <1>1 DEF IsParams
<1> QED
  BY <1>2, Half DEF MaxPromptCtx, Min2

-----------------------------------------------------------------------------
(* One round of the token loop. *)

(* The decoder with its next token: a later timestamp than all before. *)
LEMMA ExtendOK ==
  ASSUME NEW d, DecoderOK(d), NEW e \in Extensions(d)
  PROVE  /\ DecoderOK(e) /\ Len(e.tokens) > 0
         /\ e.has_ts = d.has_ts /\ e.seek_delta = d.seek_delta
         /\ e.failed = d.failed /\ e.completed = d.completed
         /\ e.tokens[Len(e.tokens)] \in Allowed(d)
<1>0. PICK tok \in Allowed(d) :
        \E tid \in IF d.tokens = <<>> THEN Tids(tok) ELSE {0} : e = Extend(d, tok, tid)
  BY DEF Extensions
<1>1. PICK tid \in (IF d.tokens = <<>> THEN Tids(tok) ELSE {0}) : e = Extend(d, tok, tid)
  BY <1>0
<1>2. tok \in Tokens
  BY DEF Allowed, Tokens
<1>3. d.tokens = <<>> => tid \in Int
  BY <1>2, Sizes DEF Tids, Tokens, IsTimestamp
<1>4. d \in DecoderType /\ d.tokens \in Seq(Tokens)
  BY DEF DecoderOK, DecoderType
<1>5. /\ e.tokens = Append(d.tokens, tok) /\ e.seek_delta = d.seek_delta
      /\ e.has_ts = d.has_ts /\ e.completed = d.completed /\ e.failed = d.failed
      /\ e \in DecoderType
  <2> DEFINE longer == Append(d.tokens, tok)
             first == IF d.tokens = <<>> THEN tid ELSE d.tid
  <2>1. longer \in Seq(Tokens) /\ first \in Int
    BY <1>2, <1>3, <1>4 DEF DecoderType
  <2>2. e = [d EXCEPT !.tokens = longer, !.tid = first]
    BY <1>1 DEF Extend
  <2> HIDE DEF longer, first
  <2>3. e \in DecoderType /\ e.tokens = longer /\ e.seek_delta = d.seek_delta
        /\ e.has_ts = d.has_ts /\ e.completed = d.completed /\ e.failed = d.failed
    BY <1>4, <2>1, <2>2 DEF DecoderType
  <2> QED
    BY <2>3 DEF longer
<1>6. Len(e.tokens) = Len(d.tokens) + 1 /\ e.tokens[Len(e.tokens)] = tok
      /\ Len(d.tokens) \in Nat
  BY <1>2, <1>4, <1>5
<1> QED
  BY <1>5, <1>6 DEF DecoderOK

(* A timestamp the filters allow is no earlier than the last accepted one.  *)
LEMMA NotEarlier ==
  ASSUME NEW d, DecoderOK(d), ~d.completed, d.has_ts, NEW tok \in Allowed(d), tok >= 0
  PROVE  d.seek_delta <= 2 * tok
<1>1. tok \in Int /\ tok >= d.seek_delta \div 2
  BY Sizes DEF Allowed, NotBefore, IsTimestamp
<1>2. PICK k \in Nat : d.seek_delta = 2 * k
  BY DEF DecoderOK
<1>3. d.seek_delta \div 2 = k
  BY <1>2
<1> QED
  BY <1>1, <1>2, <1>3

(* So no decoder goes back in time. *)
LEMMA NoWayBack ==
  ASSUME NEW d, DecoderOK(d), ~d.completed, NEW e \in Extensions(d)
  PROVE  ~BackInTime(e)
<1> DEFINE tok == e.tokens[Len(e.tokens)]
<1>1. /\ e.has_ts = d.has_ts /\ e.seek_delta = d.seek_delta /\ tok \in Allowed(d)
  BY ExtendOK
<1>2. tok \in Int
  BY <1>1, Sizes DEF Allowed
<1>3. tok > 0 /\ d.has_ts => d.seek_delta <= 2 * tok
  BY <1>1, <1>2, NotEarlier
<1>4. d.seek_delta \in Nat
  BY DEF DecoderOK, DecoderType
<1> QED
  BY <1>1, <1>2, <1>3, <1>4 DEF BackInTime, PastBeg

(* What the code makes of it. *)
LEMMA UpdateOK ==
  ASSUME TypeInv, NEW e, DecoderOK(e), ~e.completed, Len(e.tokens) > 0
  PROVE  DecoderOK(Update(e))
<1> DEFINE tok == e.tokens[Len(e.tokens)]
           g == ToSeekDelta(e)
<1>1. e \in DecoderType /\ i \in Nat /\ ChunkFrames \in Nat /\ ChunkFrames >= 2
  BY Sizes DEF DecoderOK, TypeInv
<1>2. tok \in Int
  <2>1. e.tokens \in Seq(Tokens)
    BY <1>1 DEF DecoderType
  <2>2. tok \in Tokens
    BY <2>1
  <2> QED
    BY <2>2, Sizes DEF Tokens
<1>3. ASSUME NEW b \in BOOLEAN PROVE DecoderOK([e EXCEPT !.failed = b])
  BY <1>1 DEF DecoderOK, DecoderType
<1>4. DecoderOK(g) /\ ~g.completed
  <2>1. CASE PastBeg(tok)
    <3>1. tok > 0 /\ tok \in Nat
      BY <1>2, <2>1 DEF PastBeg
    <3>2. g = [e EXCEPT !.seek_delta = 2 * tok, !.result_len = i + 1, !.has_ts = TRUE]
      BY <2>1 DEF ToSeekDelta
    <3> HIDE DEF tok, g
    <3>3. 2 * tok \in Nat /\ 2 * tok >= 2 /\ i + 1 \in Nat
      BY <1>1, <3>1
    <3>4. g \in DecoderType /\ g.seek_delta = 2 * tok /\ ~g.completed
      BY <1>1, <3>2, <3>3 DEF DecoderType
    <3> QED
      BY <3>1, <3>3, <3>4 DEF DecoderOK
  <2>2. CASE ~PastBeg(tok)
    <3>1. g = e
      BY <2>2 DEF ToSeekDelta
    <3> QED
      BY <3>1
  <2> QED
    BY <2>1, <2>2
<1> HIDE DEF tok, g
<1>5. DecoderOK([g EXCEPT !.failed = TRUE])
  BY <1>4 DEF DecoderOK, DecoderType
<1>6. DecoderOK(Complete(g))
  <2> DEFINE whole == params.single_segment \/ params.no_timestamps
             nothing == g.result_len = 0 /\ ~params.no_timestamps
             n == IF nothing \/ whole THEN i + 1 ELSE g.result_len
             s == IF whole THEN ChunkFrames ELSE g.seek_delta
             h == [g EXCEPT !.completed = TRUE, !.result_len = n, !.seek_delta = s]
  <2>1. Complete(g) = IF nothing /\ ~NearEnd(g) THEN [g EXCEPT !.failed = TRUE] ELSE h
    BY DEF Complete
  <2>2. DecoderOK(h)
    <3>1. g \in DecoderType /\ g.seek_delta >= 2
      BY <1>4 DEF DecoderOK
    <3>2. n \in Nat /\ s \in Nat /\ s >= 2
      BY <1>1, <3>1 DEF DecoderType
    <3> HIDE DEF n, s
    <3>3. h \in DecoderType /\ h.completed /\ h.seek_delta = s
      BY <3>1, <3>2 DEF DecoderType
    <3> QED
      BY <3>2, <3>3 DEF DecoderOK
  <2> HIDE DEF h
  <2> QED
    BY <1>5, <2>1, <2>2
<1> QED
  BY <1>3, <1>4, <1>5, <1>6 DEF Update, g

-----------------------------------------------------------------------------
(* Every action keeps the invariant.  A step that leaves the window, or does *)
(* not enter it, has little to keep.                                        *)
LEMMA OutsideWindow ==
  ASSUME IInv, pc' \in {"idle", "window", "freed"}, params' \in Params,
         seek' \in Nat, past0' \in Nat, past1' \in Nat, i' \in Nat,
         best_decoder_id' \in Decoders, n_past' \in Int, n_past' < NTextCtx,
         UNCHANGED <<it, n_decoders_cur, kv_self_n_dec, dec, prompt>>
  PROVE  IInv'
<1>1. TypeInv'
  BY DEF IInv, TypeInv
<1>2. DecodersInv'
  BY DEF IInv, DecodersInv
<1>3. PromptInv'
  BY DEF IInv, PromptInv, Decoding
<1>4. WindowInv' /\ RoundInv' /\ PositionsFit'
  BY DEF WindowInv, RoundInv, PositionsFit, InWindow, Decoding
<1> QED
  BY <1>1, <1>2, <1>3, <1>4 DEF IInv

(* The calls. *)
LEMMA CallStep ==
  ASSUME IInv, NEW p \in Params, Call(p) \/ \E code \in {-2, -3, 0, -4} : CallFails(p, code)
  PROVE  IInv'
<1>1. /\ seek \in Nat /\ past0 \in Nat /\ past1 \in Nat /\ i \in Nat
      /\ best_decoder_id \in Decoders /\ n_past \in Int /\ n_past < NTextCtx
  BY DEF IInv, TypeInv, PositionsFit
<1>2. p.offset \in Nat /\ p.prompt_n_tokens \in Nat /\ MaxPromptCtx(p) \in Nat
  BY ParamsType
<1>3. CASE Call(p)
  <2>1. Past0(p) \in Nat
    BY <1>1, <1>2 DEF Past0, Min2, Max2
  <2>2. Past1(p) \in Nat
    BY <1>1, <1>2 DEF Past1
  <2>3. pc' \in {"idle", "window", "freed"}
    BY <1>3 DEF Call, Return
  <2> QED
    BY <1>1, <1>2, <1>3, <2>1, <2>2, <2>3, OutsideWindow DEF Call, decodeVars
<1>4. CASE \E code \in {-2, -3, 0, -4} : CallFails(p, code)
  BY <1>1, <1>4, OutsideWindow DEF CallFails, Return, decodeVars, promptVars
<1> QED
  BY <1>3, <1>4

(* The top of the main loop. *)
LEMMA TopStep ==
  ASSUME IInv, Stop \/ EncodeFails \/ Encode
  PROVE  IInv'
<1>1. /\ seek \in Nat /\ past0 \in Nat /\ past1 \in Nat /\ i \in Nat
      /\ best_decoder_id \in Decoders /\ n_past \in Int /\ n_past < NTextCtx
      /\ params \in Params
  BY DEF IInv, TypeInv, PositionsFit
<1>2. CASE Stop \/ EncodeFails
  BY <1>1, <1>2, OutsideWindow DEF Stop, EncodeFails, Return, decodeVars, promptVars
<1>3. CASE Encode
  <2>1. /\ pc' = "temperature" /\ best_decoder_id' = 0 /\ it' = 0
        /\ past0' \in {past0, 0} /\ past1' \in {past1, 0}
        /\ seek + DeltaMin < SeekEnd
        /\ UNCHANGED <<params, seek, i, n_decoders_cur, kv_self_n_dec, dec, n_past, prompt>>
    BY <1>3 DEF Encode, loopVars
  <2>2. TypeInv'
    BY <2>1, Sizes DEF IInv, TypeInv, InWindow
  <2>3. DecodersInv'
    BY <2>1 DEF IInv, DecodersInv
  <2>4. PromptInv' /\ WindowInv'
    BY <2>1 DEF IInv, PromptInv, WindowInv, Decoding, SeekEnd
  <2>5. RoundInv' /\ PositionsFit'
    BY <2>1, <1>1 DEF RoundInv, PositionsFit
  <2> QED
    BY <2>2, <2>3, <2>4, <2>5 DEF IInv
<1> QED
  BY <1>2, <1>3

(* The prompt keeps to half of the context, whatever is left of the past. *)
LEMMA PromptFits ==
  ASSUME TypeInv
  PROVE  /\ BuildPrompt \in PromptType
         /\ BuildPrompt.prev => BuildPrompt.take0 + BuildPrompt.take1 >= 0
         /\ PromptSize(BuildPrompt, params) <= NTextCtx \div 2 + 4
<1> DEFINE t0 == IF params.carry_initial_prompt THEN past0 ELSE 0
           t1 == Min2(Room(t0), past1)
           max == MaxPromptCtx(params)
<1>1. /\ max \in Nat /\ max <= NTextCtx \div 2 /\ NTextCtx \div 2 \in Nat
      /\ params.n_init \in Nat /\ params.n_init <= 4 /\ past0 \in Nat /\ past1 \in Nat
  BY ParamsType, Half DEF TypeInv
<1>2. t0 \in Nat
  BY <1>1
<1> HIDE DEF t0
<1>3. t1 \in Int /\ (max > 0 => t0 + t1 >= 0) /\ 1 + t0 + t1 <= max
  BY <1>1, <1>2 DEF Min2, Room
<1>4. \/ BuildPrompt = NoPrompt
      \/ max > 0 /\ BuildPrompt = [prev |-> TRUE, take0 |-> t0, take1 |-> t1]
  BY DEF BuildPrompt, t0
<1> HIDE DEF t1, max
<1>5. CASE BuildPrompt = NoPrompt
  BY <1>1, <1>5 DEF NoPrompt, PromptType, PromptSize
<1>6. CASE max > 0 /\ BuildPrompt = [prev |-> TRUE, take0 |-> t0, take1 |-> t1]
  <2>1. BuildPrompt \in PromptType
    BY <1>2, <1>3, <1>6 DEF PromptType
  <2>2. BuildPrompt.prev /\ BuildPrompt.take0 = t0 /\ BuildPrompt.take1 = t1
    BY <1>6
  <2> QED
    BY <1>1, <1>2, <1>3, <1>6, <2>1, <2>2 DEF PromptSize
<1> QED
  BY <1>4, <1>5, <1>6

(* The decoders and the prompt a temperature begins with. *)
LEMMA BeginOK ==
  ASSUME IInv, BeginTemperature
  PROVE  /\ DecodersInv' /\ n_decoders_cur' \in Nat
         /\ n_decoders_cur' = CurrentDecoders
<1>1. CurrentDecoders \in Nat
  BY ParamsType DEF IInv, TypeInv, CurrentDecoders
<1>2. DecoderOK(NewDecoder)
  BY Sizes DEF DecoderOK, DecoderType, NewDecoder
<1>3. ASSUME NEW j \in Decoders PROVE DecoderOK(dec'[j])
  <2>1. dec'[j] = IF j < CurrentDecoders THEN NewDecoder ELSE dec[j]
    BY DEF BeginTemperature
  <2> QED
    BY <1>2, <2>1 DEF IInv, DecodersInv
<1>4. DecodersInv'
  <2>1. DOMAIN dec' = Decoders
    BY DEF BeginTemperature
  <2> QED
    BY <1>3, <2>1 DEF DecodersInv
<1> QED
  BY <1>1, <1>4 DEF BeginTemperature

(* One temperature begins. *)
LEMMA PromptStep ==
  ASSUME IInv, CacheFails \/ DecodePrompt
  PROVE  IInv'
<1>1. BeginTemperature /\ pc = "temperature" /\ TypeInv
  BY DEF CacheFails, DecodePrompt, BeginTemperature, IInv
<1>2. /\ DecodersInv' /\ n_decoders_cur' \in Nat /\ n_decoders_cur' = CurrentDecoders
      /\ prompt' = BuildPrompt
  BY <1>1, BeginOK DEF BeginTemperature
<1>3. /\ prompt' \in PromptType
      /\ prompt'.prev => prompt'.take0 + prompt'.take1 >= 0
      /\ PromptSize(prompt', params) <= NTextCtx \div 2 + 4
      /\ PromptSize(prompt', params) \in Int
  <2>1. BuildPrompt \in PromptType
    BY <1>1, PromptFits
  <2>2. PromptSize(BuildPrompt, params) \in Int
    BY <1>1, <2>1, ParamsType DEF TypeInv, PromptType, PromptSize
  <2> QED
    BY <1>1, <1>2, <2>1, <2>2, PromptFits
<1>4. CASE CacheFails
  <2>1. /\ pc' = "freed"
        /\ UNCHANGED <<params, seek, it, i, kv_self_n_dec, n_past, best_decoder_id,
                       past0, past1>>
    BY <1>4 DEF CacheFails
  <2>2. TypeInv'
    BY <1>1, <1>2, <1>3, <2>1 DEF TypeInv
  <2>3. PositionsFit'
    BY <2>1 DEF IInv, PositionsFit
  <2>4. PromptInv'
    BY <1>3, <2>1 DEF PromptInv, Decoding
  <2>5. WindowInv' /\ RoundInv'
    BY <2>1 DEF WindowInv, RoundInv, InWindow, Decoding
  <2> QED
    BY <1>2, <2>2, <2>3, <2>4, <2>5 DEF IInv
<1>5. CASE DecodePrompt
  <2>1. /\ pc' \in {"sample", "idle"} /\ i' = 0 /\ kv_self_n_dec' = CacheFor
        /\ n_past' = PromptSize(prompt', params) - 1
        /\ UNCHANGED <<params, seek, it, best_decoder_id, past0, past1>>
    BY <1>5 DEF DecodePrompt, Return
  <2>2. CacheFor \in Nat
    <3>1. kv_self_n_dec \in Nat /\ CurrentDecoders \in Nat
      BY <1>1, <1>2 DEF TypeInv
    <3> QED
      BY <3>1 DEF CacheFor, Max2
  <2>3. n_past' \in Int /\ n_past' < NTextCtx
    BY <1>3, <2>1, Half
  <2>4. TypeInv'
    BY <1>1, <1>2, <1>3, <2>1, <2>2, <2>3 DEF TypeInv, InWindow, Decoding
  <2>5. PromptInv'
    <3>1. PromptSize(prompt, params)' = PromptSize(prompt', params)
      BY <2>1 DEF PromptSize
    <3> QED
      BY <1>3, <3>1 DEF PromptInv
  <2>6. WindowInv'
    BY <1>1, <2>1 DEF IInv, WindowInv, InWindow, SeekEnd
  <2>7. RoundInv'
    BY <2>1, Half DEF RoundInv, NMax
  <2>8. PositionsFit'
    BY <2>1, <2>3 DEF PositionsFit
  <2> QED
    BY <1>2, <2>4, <2>5, <2>6, <2>7, <2>8 DEF IInv
<1> QED
  BY <1>4, <1>5

(* A step inside a temperature that neither decodes nor moves seek. *)
LEMMA InsideTemperature ==
  ASSUME IInv, pc \in Decoding, pc' \in InWindow, DecodersInv',
         it' \in Nat, best_decoder_id' \in Decoders,
         pc' = "logits" => pc = "sample",
         pc' # "sample",
         UNCHANGED <<params, seek, i, n_decoders_cur, kv_self_n_dec, n_past,
                     past0, past1, prompt>>
  PROVE  IInv'
<1>1. TypeInv'
  BY DEF IInv, TypeInv
<1>2. PromptInv' /\ WindowInv'
  BY DEF IInv, PromptInv, WindowInv, PromptSize, SeekEnd, InWindow
<1>3. RoundInv' /\ PositionsFit'
  BY DEF IInv, RoundInv, PositionsFit, Decoding
<1> QED
  BY <1>1, <1>2, <1>3 DEF IInv

(* A round of the token loop: a decoder may continue the tokens of another. *)
LEMMA SampleStep ==
  ASSUME IInv, Sample
  PROVE  IInv'
<1>1. TypeInv /\ DecodersInv
  BY DEF IInv
<1>2. PICK f \in SampleRounds :
        dec' = [j \in Decoders |-> IF j \in DOMAIN f THEN Update(f[j]) ELSE dec[j]]
  BY DEF Sample
<1>3. ASSUME NEW j \in DOMAIN f PROVE DecoderOK(Update(f[j]))
  <2>1. DOMAIN f = {k \in Current : Live(k)}
    BY <1>2 DEF SampleRounds
  <2>2. PICK k \in Parents(j) : f[j] \in Extensions(dec[k])
    BY <1>2, <1>3, <2>1 DEF SampleRounds
  <2>3. k \in Decoders /\ ~dec[k].completed
    BY <1>3, <2>1, <2>2 DEF Parents, Live, Current
  <2>4. DecoderOK(f[j]) /\ ~f[j].completed /\ Len(f[j].tokens) > 0
    BY <1>1, <2>2, <2>3, ExtendOK DEF DecodersInv
  <2> QED
    BY <1>1, <2>4, UpdateOK
<1>4. DecodersInv'
  BY <1>1, <1>2, <1>3 DEF DecodersInv
<1>5. it \in Nat /\ best_decoder_id \in Decoders
  BY <1>1 DEF TypeInv
<1> QED
  BY <1>4, <1>5, InsideTemperature DEF Sample, loopVars, promptVars, Decoding, InWindow

(* The new tokens are decoded behind the prompt and the rounds before.      *)
LEMMA DecodeTokensStep ==
  ASSUME IInv, DecodeTokens
  PROVE  IInv'
<1>1. /\ pc = "logits" /\ n_past' = PromptSize(prompt, params) + i /\ i' = i + 1
      /\ \/ pc' = "idle"
         \/ i + 1 < NMax /\ pc' = "sample"
         \/ pc' = "rank"
      /\ UNCHANGED <<params, seek, it, n_decoders_cur, kv_self_n_dec, dec,
                     best_decoder_id, past0, past1, prompt>>
  BY DEF DecodeTokens, Return, AnotherRound, promptVars
<1>2. /\ i \in Nat /\ i < NMax /\ params \in Params /\ prompt \in PromptType
      /\ PromptSize(prompt, params) <= NTextCtx \div 2 + 4
  BY <1>1 DEF IInv, TypeInv, RoundInv, PromptInv, Decoding
<1>3. PromptSize(prompt, params) \in Int
  BY <1>2, ParamsType DEF PromptSize, PromptType
<1>4. n_past' \in Int /\ n_past' < NTextCtx
  BY <1>1, <1>2, <1>3, Half
<1>5. TypeInv'
  BY <1>1, <1>2, <1>4 DEF IInv, TypeInv, InWindow, Decoding
<1>6. DecodersInv'
  BY <1>1 DEF IInv, DecodersInv
<1>7. PromptInv' /\ WindowInv'
  BY <1>1 DEF IInv, PromptInv, WindowInv, PromptSize, SeekEnd, InWindow, Decoding
<1>8. RoundInv'
  <2>1. NMax' = NMax
    BY DEF NMax
  <2> QED
    BY <1>1, <2>1 DEF RoundInv
<1>9. PositionsFit'
  BY <1>1, <1>4 DEF IInv, PositionsFit
<1> QED
  BY <1>5, <1>6, <1>7, <1>8, <1>9 DEF IInv

(* A decoder is cut to its result, or fails as repetitive. *)
LEMMA RankStep ==
  ASSUME IInv, Rank
  PROVE  IInv'
<1>1. TypeInv /\ DecodersInv
  BY DEF IInv
<1>2. PICK bad \in SUBSET Repetitive :
        /\ dec' = [j \in Decoders |->
                    IF j \notin Ranked THEN dec[j]
                    ELSE [Cut(dec[j]) EXCEPT !.failed = j \in bad]]
        /\ best_decoder_id' \in
             IF Ranked \ bad = {} THEN {best_decoder_id} ELSE Ranked \ bad
  BY DEF Rank
<1>3. best_decoder_id' \in Decoders /\ it \in Nat
  BY <1>1, <1>2 DEF TypeInv, Ranked, Current
<1>4. ASSUME NEW j \in Decoders PROVE DecoderOK([Cut(dec[j]) EXCEPT !.failed = j \in bad])
  <2> DEFINE d == dec[j]
             short == SubSeq(d.tokens, 1, Min2(Len(d.tokens), d.result_len))
             b == j \in bad
  <2>1. DecoderOK(d)
    BY <1>1 DEF DecodersInv
  <2> HIDE DEF d
  <2>2. d \in DecoderType /\ d.tokens \in Seq(Tokens) /\ d.result_len \in Nat
    BY <2>1 DEF DecoderOK, DecoderType
  <2>3. short \in Seq(Tokens)
    BY <2>2 DEF Min2
  <2>4. b \in BOOLEAN
    OBVIOUS
  <2>5. Cut(d) = [d EXCEPT !.tokens = short]
    BY DEF Cut
  <2> HIDE DEF short, b
  <2>6. DecoderOK([[d EXCEPT !.tokens = short] EXCEPT !.failed = b])
    BY <2>1, <2>2, <2>3, <2>4 DEF DecoderOK, DecoderType
  <2> QED
    BY <2>5, <2>6 DEF b, d
<1>5. DecodersInv'
  BY <1>1, <1>2, <1>4 DEF DecodersInv
<1> QED
  BY <1>3, <1>5, InsideTemperature DEF Rank, loopVars, promptVars, Decoding, InWindow

(* A temperature ends: the next one begins, or the window is put out. *)
LEMMA FallbackStep ==
  ASSUME IInv, Fallback
  PROVE  IInv'
<1>1. /\ pc = "fallback" /\ pc' \in {"temperature", "output"} /\ it' \in {it, it + 1}
      /\ UNCHANGED <<params, seek, i, n_decoders_cur, kv_self_n_dec, dec, n_past,
                     best_decoder_id, past0, past1, prompt>>
  BY DEF Fallback, loopVars, promptVars
<1>2. it' \in Nat /\ best_decoder_id \in Decoders
  BY <1>1 DEF IInv, TypeInv
<1>3. DecodersInv'
  BY <1>1 DEF IInv, DecodersInv
<1> QED
  BY <1>1, <1>2, <1>3, InsideTemperature DEF Decoding, InWindow

(* A window moves seek by at least one timestamp. *)
LEMMA SeekStep ==
  ASSUME IInv, pc = "output"
  PROVE  /\ dec[best_decoder_id].result_len \in Nat
         /\ SeekDelta(dec[best_decoder_id]) \in Nat
         /\ SeekDelta(dec[best_decoder_id]) >= 2
<1> DEFINE d == dec[best_decoder_id]
<1>1. /\ DecoderOK(d) /\ params \in Params /\ seek \in Nat
      /\ seek + DeltaMin < SeekEnd
  BY DEF IInv, TypeInv, DecodersInv, WindowInv, InWindow, Decoding
<1> HIDE DEF d
<1>2. d.seek_delta \in Nat /\ d.seek_delta >= 2 /\ d.result_len \in Nat
  BY <1>1 DEF DecoderOK, DecoderType
<1>3. SeekEnd \in Nat
  BY <1>1, ParamsType DEF SeekEnd
<1>4. Min2(SeekEnd - seek, ChunkFrames) \in Nat /\ Min2(SeekEnd - seek, ChunkFrames) >= 2
  BY <1>1, <1>3, Sizes DEF Min2
<1> QED
  BY <1>2, <1>4 DEF SeekDelta, d

(* The window's result. *)
LEMMA OutputStep ==
  ASSUME IInv, Output
  PROVE  IInv' /\ seek' >= seek + 2
<1> DEFINE d == dec[best_decoder_id]
           none == no_speech /\ low[best_decoder_id]
<1>1. /\ pc = "output" /\ pc' = "window" /\ seek' = seek + SeekDelta(d)
      /\ past1' = (IF ~params.carry_initial_prompt /\ prompt.prev
                   THEN prompt.take0 + prompt.take1 ELSE 0)
                  + (IF none THEN 0 ELSE d.result_len)
      /\ UNCHANGED <<params, it, i, n_decoders_cur, kv_self_n_dec, dec, n_past,
                     best_decoder_id, past0, prompt>>
  BY DEF Output, decodeVars
<1>2. d.result_len \in Nat /\ SeekDelta(d) \in Nat /\ SeekDelta(d) >= 2
  BY <1>1, SeekStep
<1>3. /\ seek \in Nat /\ past0 \in Nat /\ i \in Nat /\ params \in Params
      /\ best_decoder_id \in Decoders /\ n_past \in Int /\ n_past < NTextCtx
      /\ prompt \in PromptType /\ (prompt.prev => prompt.take0 + prompt.take1 >= 0)
  BY DEF IInv, TypeInv, PositionsFit, PromptInv
<1> HIDE DEF d, none
<1>4. past1' \in Nat
  BY <1>1, <1>2, <1>3 DEF PromptType
<1>5. seek' \in Nat /\ seek' >= seek + 2
  BY <1>1, <1>2, <1>3
<1> QED
  BY <1>1, <1>3, <1>4, <1>5, OutsideWindow

-----------------------------------------------------------------------------
(* A state that has not been used. *)
LEMMA InitIInv == Init => IInv
<1> SUFFICES ASSUME Init PROVE IInv
  OBVIOUS
<1>1. /\ pc = "idle" /\ params \in Params /\ seek = 0 /\ it = 0 /\ i = 0
      /\ n_decoders_cur = 1 /\ kv_self_n_dec = 1
      /\ dec = [j \in Decoders |-> NewDecoder]
      /\ past0 = 0 /\ past1 = 0 /\ prompt = NoPrompt /\ n_past = 0
      /\ best_decoder_id = 0
  BY DEF Init
<1>2. TypeInv
  BY <1>1, Sizes DEF TypeInv, PromptType, NoPrompt
<1>3. DecodersInv
  <2>1. DecoderOK(NewDecoder)
    BY Sizes DEF DecoderOK, DecoderType, NewDecoder
  <2> QED
    BY <1>1, <2>1 DEF DecodersInv
<1>4. WindowInv /\ RoundInv /\ PositionsFit
  BY <1>1, Half DEF WindowInv, RoundInv, PositionsFit, InWindow, Decoding
<1>5. PromptInv
  BY <1>1 DEF PromptInv, Decoding, NoPrompt
<1> QED
  BY <1>2, <1>3, <1>4, <1>5 DEF IInv

(* Every step keeps the invariant. *)
LEMMA NextIInv == IInv /\ [Next]_vars => IInv'
<1> SUFFICES ASSUME IInv, [Next]_vars PROVE IInv'
  OBVIOUS
<1>1. ASSUME NEW p \in Params,
             Call(p) \/ \E code \in {-2, -3, 0, -4} : CallFails(p, code)
      PROVE  IInv'
  BY <1>1, CallStep
<1>2. CASE Step
  BY <1>2, TopStep, PromptStep, SampleStep, DecodeTokensStep, RankStep, FallbackStep,
     OutputStep DEF Step
<1>3. CASE UNCHANGED vars
  <2>1. UNCHANGED <<pc, params, seek, it, i, n_decoders_cur, kv_self_n_dec, dec,
                    n_past, best_decoder_id, past0, past1, prompt>>
    BY <1>3 DEF vars, loopVars, decodeVars, promptVars
  <2>2. TypeInv' /\ DecodersInv'
    BY <2>1 DEF IInv, TypeInv, DecodersInv
  <2>3. WindowInv' /\ PromptInv' /\ RoundInv'
    BY <2>1 DEF IInv, WindowInv, PromptInv, RoundInv, SeekEnd, PromptSize, NMax
  <2>4. PositionsFit'
    BY <2>1 DEF IInv, PositionsFit
  <2> QED
    BY <2>2, <2>3, <2>4 DEF IInv
<1> QED
  BY <1>1, <1>2, <1>3 DEF Next, Done

(* The loop keeps the inductive invariant, for every size and every set of  *)
(* parameters.                                                              *)
THEOREM LoopInvariant == Spec => []IInv
<1> QED
  BY InitIInv, NextIInv, PTL DEF Spec

(* Every token is decoded at a position of the text context. *)
THEOREM PositionsSafety == Spec => []PositionsFit
<1>1. IInv => PositionsFit
  BY DEF IInv
<1> QED
  BY <1>1, LoopInvariant, PTL

(* "do not allow to go back in time" never triggers, in beam search either. *)
THEOREM NoWayBackInTime == Spec => []NeverBackInTime
<1>1. ASSUME IInv PROVE NeverBackInTime
  BY <1>1, NoWayBack DEF IInv, DecodersInv, NeverBackInTime, Live, Current
<1> QED
  BY <1>1, LoopInvariant, PTL

(* Every window moves seek forward. *)
THEOREM SeekProgress == Spec => SeekAdvances
<1>1. IInv /\ [Next]_vars => [pc = "output" => seek' >= seek + 2]_vars
  <2> SUFFICES ASSUME IInv, Next, pc = "output"
               PROVE  seek' >= seek + 2 \/ UNCHANGED vars
    OBVIOUS
  <2>1. Output \/ UNCHANGED vars
    BY DEF Next, Call, CallFails, Step, Stop, EncodeFails, Encode, CacheFails, DecodePrompt,
           BeginTemperature, Sample, DecodeTokens, Rank, Fallback, Done
  <2> QED
    BY <2>1, OutputStep
<1> QED
  BY <1>1, LoopInvariant, PTL DEF Spec, SeekAdvances

-----------------------------------------------------------------------------
(* The budget of the prompt.  prompt_past0 is cut to the budget of the call *)
(* that stores it and kept for later ones, so all calls on the state need   *)
(* the same; and a budget of one token has no room for a static one besides *)
(* the marker in front.                                                     *)
SameBudget ==
  \E n \in Nat : \A p \in Params :
    p.n_max_text_ctx = n /\ (p.carry_initial_prompt => n # 1)

StaticInv ==
  past0 = 0 \/ MaxPromptCtx(params) = 0 \/ past0 + 1 <= MaxPromptCtx(params)

KeptBudget ==
  pc \in {"sample", "logits"} /\ prompt.prev =>
    /\ prompt.take1 >= 0
    /\ 1 + prompt.take0 + prompt.take1 <= MaxPromptCtx(params)

BudgetInv == IInv /\ StaticInv /\ KeptBudget

(* All calls have one budget, and it has room for a static token. *)
LEMMA OneBudget ==
  ASSUME SameBudget, NEW p \in Params, NEW q \in Params
  PROVE  /\ MaxPromptCtx(p) = MaxPromptCtx(q)
         /\ p.carry_initial_prompt => MaxPromptCtx(p) # 1
<1>1. PICK n \in Nat : \A r \in Params :
        r.n_max_text_ctx = n /\ (r.carry_initial_prompt => n # 1)
  BY DEF SameBudget
<1> QED
  BY <1>1, Half DEF MaxPromptCtx, Min2

(* What a call leaves in prompt_past0. *)
LEMMA StaticStored ==
  ASSUME SameBudget, IInv, StaticInv, NEW p \in Params
  PROVE  Past0(p) = 0 \/ MaxPromptCtx(p) = 0 \/ Past0(p) + 1 <= MaxPromptCtx(p)
<1>1. /\ params \in Params /\ past0 \in Nat
      /\ MaxPromptCtx(p) \in Nat /\ p.prompt_n_tokens \in Nat
  BY ParamsType DEF IInv, TypeInv
<1>2. MaxPromptCtx(p) = MaxPromptCtx(params)
      /\ (p.carry_initial_prompt => MaxPromptCtx(p) # 1)
  BY <1>1, OneBudget
<1> QED
  BY <1>1, <1>2 DEF StaticInv, Past0, Min2, Max2

(* The prompt of a temperature. *)
LEMMA BudgetKept ==
  ASSUME IInv, StaticInv, BuildPrompt.prev
  PROVE  /\ BuildPrompt.take1 >= 0
         /\ 1 + BuildPrompt.take0 + BuildPrompt.take1 <= MaxPromptCtx(params)
<1> DEFINE t0 == IF params.carry_initial_prompt THEN past0 ELSE 0
           t1 == Min2(Room(t0), past1)
           max == MaxPromptCtx(params)
<1>1. max \in Nat /\ past0 \in Nat /\ past1 \in Nat
  BY ParamsType DEF IInv, TypeInv
<1>2. max > 0 /\ BuildPrompt = [prev |-> TRUE, take0 |-> t0, take1 |-> t1]
  BY DEF BuildPrompt, NoPrompt
<1>3. t0 \in Nat /\ t0 + 1 <= max
  BY <1>1, <1>2 DEF StaticInv
<1> HIDE DEF t0
<1>4. t1 >= 0 /\ 1 + t0 + t1 <= max
  BY <1>1, <1>3 DEF Min2, Room
<1> HIDE DEF t1, max
<1>5. BuildPrompt.take0 = t0 /\ BuildPrompt.take1 = t1
  BY <1>2
<1> QED
  BY <1>4, <1>5 DEF max

(* Only a call and a new prompt change what the budget is about. *)
LEMMA NextBudget ==
  ASSUME SameBudget, BudgetInv, [Next]_vars
  PROVE  BudgetInv'
<1>1. IInv /\ StaticInv /\ KeptBudget /\ IInv'
  BY NextIInv DEF BudgetInv
<1>2. ASSUME UNCHANGED <<params, prompt>>, past0' \in {past0, 0},
             pc' \in {"sample", "logits"} => pc \in {"sample", "logits"}
      PROVE  StaticInv' /\ KeptBudget'
  <2>1. MaxPromptCtx(params)' = MaxPromptCtx(params)
    BY <1>2 DEF MaxPromptCtx
  <2> QED
    BY <1>1, <1>2, <2>1 DEF StaticInv, KeptBudget
<1>3. ASSUME NEW p \in Params, Call(p) PROVE StaticInv' /\ KeptBudget'
  <2>1. params' = p /\ past0' = Past0(p) /\ pc' \in {"window", "idle"}
    BY <1>3 DEF Call, Return
  <2>2. MaxPromptCtx(params)' = MaxPromptCtx(p)
    BY <2>1 DEF MaxPromptCtx
  <2> QED
    BY <1>1, <2>1, <2>2, StaticStored DEF StaticInv, KeptBudget
<1>4. ASSUME NEW p \in Params, NEW code \in {-2, -3, 0, -4}, CallFails(p, code)
      PROVE  StaticInv' /\ KeptBudget'
  <2>1. params' = p /\ past0' = past0 /\ pc' = "idle"
    BY <1>4 DEF CallFails, Return, promptVars
  <2>2. MaxPromptCtx(params)' = MaxPromptCtx(p)
    BY <2>1 DEF MaxPromptCtx
  <2>3. MaxPromptCtx(p) = MaxPromptCtx(params)
    BY <1>1, OneBudget DEF IInv, TypeInv
  <2> QED
    BY <1>1, <2>1, <2>2, <2>3 DEF StaticInv, KeptBudget
<1>5. ASSUME CacheFails \/ DecodePrompt PROVE StaticInv' /\ KeptBudget'
  <2>1. prompt' = BuildPrompt /\ UNCHANGED <<params, past0>>
        /\ pc' \in {"sample", "idle", "freed"}
    BY <1>5 DEF CacheFails, DecodePrompt, BeginTemperature, Return
  <2>2. MaxPromptCtx(params)' = MaxPromptCtx(params)
    BY <2>1 DEF MaxPromptCtx
  <2>3. StaticInv'
    BY <1>1, <2>1, <2>2 DEF StaticInv
  <2>4. KeptBudget'
    <3>1. BuildPrompt.prev =>
            /\ BuildPrompt.take1 >= 0
            /\ 1 + BuildPrompt.take0 + BuildPrompt.take1 <= MaxPromptCtx(params)
      BY <1>1, BudgetKept
    <3>2. prompt'.prev =>
            /\ prompt'.take1 >= 0
            /\ 1 + prompt'.take0 + prompt'.take1 <= MaxPromptCtx(params)'
      BY <2>1, <2>2, <3>1
    <3> QED
      BY <3>2 DEF KeptBudget
  <2> QED
    BY <2>3, <2>4
<1>6. ASSUME \/ Stop \/ EncodeFails \/ Encode \/ Sample \/ DecodeTokens \/ Rank
             \/ Fallback \/ Output \/ UNCHANGED vars
      PROVE  StaticInv' /\ KeptBudget'
  <2>1. /\ UNCHANGED <<params, prompt>> /\ past0' \in {past0, 0}
        /\ pc' \in {"sample", "logits"} => pc \in {"sample", "logits"}
    BY <1>6 DEF Stop, EncodeFails, Encode, Sample, DecodeTokens, Rank, Fallback, Output,
                Return, vars, loopVars, promptVars
  <2> QED
    BY <1>2, <2>1
<1> QED
  BY <1>1, <1>3, <1>4, <1>5, <1>6 DEF Next, Step, Done, BudgetInv

(* The prompt keeps to its budget and never takes a negative number of      *)
(* tokens, provided that all calls on the state have the same budget and    *)
(* that it is not a single token when the initial prompt is carried.        *)
THEOREM BudgetSafety == SameBudget => (Spec => []PromptBudget)
<1> SUFFICES ASSUME SameBudget PROVE Spec => []PromptBudget
  OBVIOUS
<1>1. Init => BudgetInv
  BY InitIInv DEF Init, BudgetInv, StaticInv, KeptBudget
<1>2. BudgetInv /\ [Next]_vars => BudgetInv'
  BY NextBudget
<1>3. BudgetInv => PromptBudget
  BY DEF BudgetInv, KeptBudget, PromptBudget
<1> QED
  BY <1>1, <1>2, <1>3, PTL DEF Spec

-----------------------------------------------------------------------------
(* Induction over data: the induction theorems of the library take an       *)
(* operator, these take a set.                                              *)
NatOrder == {p \in Nat \X Nat : p[1] < p[2]}

(* Every set of naturals has a least element. *)
LEMMA Smallest ==
  ASSUME NEW S, S \subseteq Nat, S # {}
  PROVE  \E x \in S : \A y \in S : x <= y
<1>1. IsWellFoundedOn(NatOrder, Nat)
  BY NatLessThanWellFounded DEF OpToRel, NatOrder
<1>2. \E x \in S : \A y \in S : ~(<<y, x>> \in NatOrder)
  BY <1>1, WFMin
<1>3. PICK x \in S : \A y \in S : ~(<<y, x>> \in NatOrder)
  BY <1>2
<1>4. ASSUME NEW y \in S PROVE x <= y
  <2>1. x \in Nat /\ y \in Nat /\ <<y, x>> \in Nat \X Nat /\ <<y, x>> \notin NatOrder
    BY <1>3
  <2>2. ~(y < x)
    BY <2>1 DEF NatOrder
  <2> QED
    BY <2>1, <2>2
<1> QED
  BY <1>4

(* Induction up to n, over a set. *)
LEMMA UpTo ==
  ASSUME NEW n \in Nat, NEW S, 0 \in S, \A m \in 0 .. n - 1 : m \in S => m + 1 \in S
  PROVE  \A m \in 0 .. n : m \in S
<1> DEFINE out == {m \in 0 .. n : m \notin S}
<1> SUFFICES ASSUME out # {} PROVE FALSE
  OBVIOUS
<1>1. PICK x \in out : \A y \in out : x <= y
  <2>1. out \subseteq Nat
    OBVIOUS
  <2> HIDE DEF out
  <2> QED
    BY <2>1, Smallest
<1>2. x \in Nat /\ x # 0 /\ x - 1 \in 0 .. n - 1 /\ x \notin S
  BY <1>1
<1>3. x - 1 \in S
  <2> SUFFICES ASSUME x - 1 \notin S PROVE FALSE
    OBVIOUS
  <2>1. x - 1 \in out /\ ~(x <= x - 1)
    BY <1>2
  <2> QED
    BY <1>1, <2>1
<1>4. (x - 1) + 1 \in S /\ (x - 1) + 1 = x
  BY <1>2, <1>3
<1> QED
  BY <1>2, <1>4

(* The last index is the greatest. *)
LEMMA MaxIs ==
  ASSUME NEW m \in Nat, NEW S \in SUBSET (1 .. m + 1), m + 1 \in S
  PROVE  Max(S) = m + 1
<1>1. \A y \in S : m + 1 >= y
  OBVIOUS
<1>2. PICK x \in S : x = Max(S) /\ \A y \in S : x >= y
  BY <1>1 DEF Max
<1> QED
  BY <1>2

(* Every set of indexes has a greatest one. *)
LEMMA MaxExists ==
  ASSUME NEW n \in Nat, NEW S \in SUBSET (1 .. n), S # {}
  PROVE  Max(S) \in S
<1> DEFINE below == {n - y : y \in S}
<1>1. below \subseteq Nat /\ below # {}
  <2>1. ASSUME NEW y \in S PROVE n - y \in Nat
    OBVIOUS
  <2>2. PICK y \in S : TRUE
    OBVIOUS
  <2>3. n - y \in below
    OBVIOUS
  <2> QED
    BY <2>1, <2>3
<1>2. PICK x \in below : \A y \in below : x <= y
  <2> HIDE DEF below
  <2> QED
    BY <1>1, Smallest
<1>3. PICK z \in S : x = n - z
  BY <1>2
<1>4. ASSUME NEW y \in S PROVE z >= y
  <2>1. n - y \in below
    OBVIOUS
  <2>2. n - z <= n - y
    BY <1>2, <1>3, <2>1
  <2>3. z \in 1 .. n /\ y \in 1 .. n
    OBVIOUS
  <2> HIDE DEF below
  <2> QED
    BY <2>2, <2>3
<1> QED
  BY <1>4 DEF Max

(* The equation of a fold over the first m elements of s. *)
FoldEq(g, F, b, s, m) ==
  g = [S \in SUBSET (1 .. m) |->
         IF S = {} THEN b ELSE F[<<g[S \ {Max(S)}], s[Max(S)]>>]]

(* A fold over a sequence is well defined. *)
LEMMA FoldExists ==
  ASSUME NEW A, NEW T, NEW F \in [A \X T -> A], NEW b \in A, NEW s \in Seq(T)
  PROVE  \E g \in [SUBSET (1 .. Len(s)) -> A] : FoldEq(g, F, b, s, Len(s))
<1> DEFINE Good == {m \in 0 .. Len(s) : \E g \in [SUBSET (1 .. m) -> A] : FoldEq(g, F, b, s, m)}
<1>0. Len(s) \in Nat
  OBVIOUS
<1>1. 0 \in Good
  <2> DEFINE g == [S \in SUBSET (1 .. 0) |-> b]
  <2>1. SUBSET (1 .. 0) = {{}}
    OBVIOUS
  <2>2. g \in [SUBSET (1 .. 0) -> A] /\ \A S \in SUBSET (1 .. 0) : S = {}
    BY <2>1
  <2>3. FoldEq(g, F, b, s, 0)
    <3>1. \A S \in SUBSET (1 .. 0) :
            b = IF S = {} THEN b ELSE F[<<g[S \ {Max(S)}], s[Max(S)]>>]
      BY <2>2
    <3>2. g = [S \in SUBSET (1 .. 0) |-> b]
      OBVIOUS
    <3> HIDE DEF g
    <3> QED
      BY <3>1, <3>2 DEF FoldEq
  <2> HIDE DEF g
  <2> QED
    <3>1. 0 \in 0 .. Len(s)
      BY <1>0
    <3>2. \E f \in [SUBSET (1 .. 0) -> A] : FoldEq(f, F, b, s, 0)
      BY <2>2, <2>3
    <3> QED
      BY <3>1, <3>2
<1>2. ASSUME NEW m \in 0 .. Len(s) - 1, m \in Good PROVE m + 1 \in Good
  <2>1. m \in Nat /\ m + 1 \in 0 .. Len(s) /\ s[m + 1] \in T
    BY <1>0
  <2>2. PICK g \in [SUBSET (1 .. m) -> A] : FoldEq(g, F, b, s, m)
    BY <1>2
  <2> DEFINE h == [S \in SUBSET (1 .. m + 1) |->
                     IF m + 1 \in S THEN F[<<g[S \ {m + 1}], s[m + 1]>>] ELSE g[S]]
  <2>3. ASSUME NEW S \in SUBSET (1 .. m + 1)
        PROVE  /\ m + 1 \in S => S \ {m + 1} \in SUBSET (1 .. m)
               /\ m + 1 \notin S => S \in SUBSET (1 .. m)
    BY <2>1
  <2>4. h \in [SUBSET (1 .. m + 1) -> A]
    <3>1. ASSUME NEW S \in SUBSET (1 .. m + 1) PROVE h[S] \in A
      <4>1. CASE m + 1 \in S
        <5>1. g[S \ {m + 1}] \in A
          BY <2>3, <4>1
        <5>2. <<g[S \ {m + 1}], s[m + 1]>> \in A \X T
          BY <2>1, <5>1
        <5> QED
          BY <4>1, <5>2
      <4>2. CASE m + 1 \notin S
        BY <2>3, <4>2
      <4> QED
        BY <4>1, <4>2
    <3> QED
      BY <3>1
  <2>5. ASSUME NEW S \in SUBSET (1 .. m + 1)
        PROVE  h[S] = IF S = {} THEN b ELSE F[<<h[S \ {Max(S)}], s[Max(S)]>>]
    <3>1. CASE m + 1 \in S
      <4>1. Max(S) = m + 1
        BY <2>1, <3>1, MaxIs
      <4>2. S \ {m + 1} \in SUBSET (1 .. m + 1) /\ m + 1 \notin S \ {m + 1} /\ S # {}
        BY <3>1
      <4>3. h[S \ {m + 1}] = g[S \ {m + 1}]
        BY <4>2
      <4>4. h[S] = F[<<g[S \ {m + 1}], s[m + 1]>>]
        BY <3>1
      <4> QED
        BY <4>1, <4>2, <4>3, <4>4
    <3>2. CASE m + 1 \notin S
      <4>1. S \in SUBSET (1 .. m) /\ h[S] = g[S]
        BY <2>3, <3>2
      <4>2. g[S] = IF S = {} THEN b ELSE F[<<g[S \ {Max(S)}], s[Max(S)]>>]
        BY <2>2, <4>1 DEF FoldEq
      <4>3. S \ {Max(S)} \in SUBSET (1 .. m + 1) /\ m + 1 \notin S \ {Max(S)}
        BY <3>2
      <4>4. h[S \ {Max(S)}] = g[S \ {Max(S)}]
        BY <4>3
      <4> QED
        BY <4>1, <4>2, <4>4
    <3> QED
      BY <3>1, <3>2
  <2>6. FoldEq(h, F, b, s, m + 1)
    <3>1. h = [S \in SUBSET (1 .. m + 1) |-> h[S]]
      OBVIOUS
    <3> HIDE DEF h
    <3> QED
      BY <2>5, <3>1 DEF FoldEq
  <2> HIDE DEF h
  <2> QED
    BY <2>1, <2>4, <2>6
<1>3. Len(s) \in Good
  <2> HIDE DEF Good
  <2>1. \A m \in 0 .. Len(s) : m \in Good
    BY <1>0, <1>1, <1>2, UpTo
  <2> QED
    BY <1>0, <2>1
<1> QED
  BY <1>3

-----------------------------------------------------------------------------
(* The order of the segments. *)

(* Timestamps do not decrease, and seek_delta is no less than any of them.  *)
TimesOK(d) ==
  /\ \A a, b \in 1 .. Len(d.tokens) :
       a < b /\ d.tokens[a] >= 0 /\ d.tokens[b] >= 0 => d.tokens[a] <= d.tokens[b]
  /\ \A a \in 1 .. Len(d.tokens) :
       2 * d.tokens[a] <= d.seek_delta /\ (~d.has_ts => d.tokens[a] <= 0)
  /\ d.seek_delta <= ChunkFrames

TimesInv == \A j \in Decoders : TimesOK(dec[j])

(* The decoders of this window, the one that won at an earlier temperature  *)
(* included, begin at a timestamp.                                          *)
TidInv ==
  ~params.no_timestamps =>
    /\ pc \in Decoding =>
         \A j \in Current \cup {best_decoder_id} : dec[j].tid >= 0
    /\ pc = "temperature" => best_decoder_id = 0 \/ dec[best_decoder_id].tid >= 0

SegmentType == [t0 : Int, t1 : Int]

(* What has been put out ends before seek, unless it was the last window.   *)
EndInv ==
  pc \in InWindow \cup {"window"} /\ ~params.no_timestamps /\ seek + DeltaMin < SeekEnd =>
    /\ segments \in Seq(SegmentType) /\ last_end \in Int /\ last_end <= seek
    /\ segments # <<>> => segments[Len(segments)].t1 <= seek

(* The inductive invariant of the order. *)
OrderInv == IInv /\ TimesInv /\ TidInv /\ EndInv /\ SegmentsOrdered

-----------------------------------------------------------------------------
(* The segments of a token sequence. *)
AccType == [segs : Seq(SegmentType), t0 : Int, text : BOOLEAN, run : BOOLEAN]

InOrder(segs) == \A k \in 1 .. Len(segs) - 1 : segs[k].t1 <= segs[k + 1].t0

(* The segments of the first k tokens, and where the next one begins.       *)
SegmentsInv(acc, k, s) ==
  /\ acc \in AccType /\ acc.t0 >= seek /\ InOrder(acc.segs)
  /\ acc.segs # <<>> =>
       /\ acc.segs[1].t0 >= seek /\ acc.segs[Len(acc.segs)].t1 <= acc.t0
       /\ \E a \in 1 .. k : s[a] >= 0 /\ acc.t0 = seek + 2 * s[a]

NotDecreasing(s) ==
  \A a, b \in 1 .. Len(s) : a < b /\ s[a] >= 0 /\ s[b] >= 0 => s[a] <= s[b]

(* One more segment, which begins no earlier than the last one ends.        *)
LEMMA AppendSegment ==
  ASSUME NEW segs \in Seq(SegmentType), NEW x \in SegmentType, InOrder(segs),
         segs # <<>> => segs[Len(segs)].t1 <= x.t0
  PROVE  /\ Append(segs, x) \in Seq(SegmentType) /\ InOrder(Append(segs, x))
         /\ Append(segs, x) # <<>>
         /\ Append(segs, x)[Len(Append(segs, x))] = x
         /\ Append(segs, x)[1] = IF segs = <<>> THEN x ELSE segs[1]
<1>1. PICK n \in Nat : n = Len(segs)
  OBVIOUS
<1> DEFINE longer == Append(segs, x)
<1>2. /\ longer \in Seq(SegmentType) /\ Len(longer) = n + 1 /\ longer[n + 1] = x
      /\ \A k \in 1 .. n : longer[k] = segs[k]
      /\ segs = <<>> <=> n = 0
  BY <1>1
<1> HIDE DEF longer
<1>3. ASSUME NEW k \in 1 .. n PROVE longer[k].t1 <= longer[k + 1].t0
  <2>1. CASE k = n
    <3>1. segs # <<>> /\ longer[k] = segs[n] /\ longer[k + 1] = x
      BY <1>1, <1>2, <2>1
    <3> QED
      BY <1>1, <3>1
  <2>2. CASE k # n
    <3>1. k \in 1 .. n - 1 /\ k + 1 \in 1 .. n
      BY <1>1, <2>2
    <3>2. longer[k] = segs[k] /\ longer[k + 1] = segs[k + 1]
      BY <1>2, <3>1
    <3> QED
      BY <1>1, <3>1, <3>2 DEF InOrder
  <2> QED
    BY <2>1, <2>2
<1>4. InOrder(longer)
  <2>1. Len(longer) - 1 = n
    BY <1>1, <1>2
  <2> QED
    BY <1>3, <2>1 DEF InOrder
<1>5. longer # <<>> /\ longer[Len(longer)] = x
  BY <1>2
<1>6. longer[1] = IF segs = <<>> THEN x ELSE segs[1]
  <2>1. CASE n = 0
    BY <1>2, <2>1
  <2>2. CASE n # 0
    <3>1. 1 \in 1 .. n
      BY <1>1, <2>2
    <3> QED
      BY <1>2, <2>2, <3>1
  <2> QED
    BY <2>1, <2>2
<1> QED
  BY <1>2, <1>4, <1>5, <1>6 DEF longer

(* The next token. *)
LEMMA SegmentStep ==
  ASSUME seek \in Nat, NEW s \in Seq(Tokens), NotDecreasing(s),
         NEW k \in 0 .. Len(s) - 1, NEW acc, SegmentsInv(acc, k, s)
  PROVE  SegmentsInv(Segment(acc, s[k + 1]), k + 1, s)
<1> DEFINE tok == s[k + 1]
           new == Segment(acc, tok)
<1>1. /\ acc \in AccType /\ acc.t0 >= seek /\ InOrder(acc.segs)
      /\ acc.segs # <<>> =>
           /\ acc.segs[1].t0 >= seek /\ acc.segs[Len(acc.segs)].t1 <= acc.t0
           /\ \E a \in 1 .. k : s[a] >= 0 /\ acc.t0 = seek + 2 * s[a]
  BY DEF SegmentsInv
<1>2. Len(s) \in Nat /\ k \in Nat /\ k + 1 \in 1 .. Len(s)
  OBVIOUS
<1>3. tok \in Tokens /\ tok \in Int /\ \A a \in 1 .. k : s[a] \in Int
  <2>1. \A a \in 1 .. Len(s) : s[a] \in Tokens
    OBVIOUS
  <2>2. \A x \in Tokens : x \in Int
    BY Sizes DEF Tokens
  <2>3. \A a \in 1 .. k : a \in 1 .. Len(s)
    BY <1>2
  <2> QED
    BY <1>2, <2>1, <2>2, <2>3
<1> HIDE DEF tok
<1>4. CASE /\ new \in AccType
           /\ new.segs = acc.segs /\ new.t0 = acc.t0
  <2>1. acc.segs # <<>> => \E a \in 1 .. k + 1 : s[a] >= 0 /\ acc.t0 = seek + 2 * s[a]
    <3> SUFFICES ASSUME acc.segs # <<>>
                 PROVE  \E a \in 1 .. k + 1 : s[a] >= 0 /\ acc.t0 = seek + 2 * s[a]
      OBVIOUS
    <3>1. PICK a \in 1 .. k : s[a] >= 0 /\ acc.t0 = seek + 2 * s[a]
      BY <1>1
    <3>2. a \in 1 .. k + 1
      BY <1>2
    <3> QED
      BY <3>1, <3>2
  <2> QED
    BY <1>1, <1>4, <2>1 DEF SegmentsInv, tok
<1>5. CASE /\ tok > 0
           /\ new = [segs |-> IF acc.text
                              THEN Append(acc.segs, [t0 |-> acc.t0, t1 |-> seek + 2 * tok])
                              ELSE acc.segs,
                     t0 |-> seek + 2 * tok, text |-> FALSE, run |-> TRUE]
  <2> DEFINE x == [t0 |-> acc.t0, t1 |-> seek + 2 * tok]
  <2>1. seek + 2 * tok \in Int /\ seek + 2 * tok >= seek
    BY <1>3, <1>5
  <2>2. acc.segs \in Seq(SegmentType) /\ acc.t0 \in Int
    BY <1>1 DEF AccType
  <2>3. x \in SegmentType /\ x.t0 = acc.t0 /\ x.t1 = seek + 2 * tok
    BY <2>1, <2>2 DEF SegmentType
  <2>4. acc.segs # <<>> => acc.t0 <= seek + 2 * tok
    <3> SUFFICES ASSUME acc.segs # <<>> PROVE acc.t0 <= seek + 2 * tok
      OBVIOUS
    <3>1. PICK a \in 1 .. k : s[a] >= 0 /\ acc.t0 = seek + 2 * s[a]
      BY <1>1
    <3>2. a \in 1 .. Len(s) /\ a < k + 1
      BY <1>2
    <3>3. s[a] <= tok
      BY <1>2, <1>5, <1>3, <3>1, <3>2 DEF NotDecreasing, tok
    <3>4. s[a] \in Int /\ tok \in Int /\ seek \in Int
      BY <1>3, <3>1
    <3>5. seek + 2 * s[a] <= seek + 2 * tok
      BY ONLY <3>3, <3>4
    <3> QED
      BY ONLY <3>1, <3>5
  <2>5. k + 1 \in 1 .. k + 1 /\ s[k + 1] >= 0 /\ seek + 2 * tok = seek + 2 * s[k + 1]
    BY <1>2, <1>3, <1>5 DEF tok
  <2>6. CASE acc.text
    <3> DEFINE longer == Append(acc.segs, x)
    <3>1. /\ longer \in Seq(SegmentType) /\ InOrder(longer) /\ longer # <<>>
          /\ longer[Len(longer)] = x
          /\ longer[1] = IF acc.segs = <<>> THEN x ELSE acc.segs[1]
      BY <1>1, <2>2, <2>3, AppendSegment
    <3> HIDE DEF longer
    <3>2. new.segs = longer /\ new.t0 = seek + 2 * tok /\ new \in AccType
      <4>1. new = [segs |-> longer, t0 |-> seek + 2 * tok, text |-> FALSE, run |-> TRUE]
        BY <1>5, <2>6 DEF longer
      <4> HIDE DEF new
      <4> QED
        BY <2>1, <3>1, <4>1 DEF AccType
    <3>3. longer[1].t0 >= seek /\ longer[Len(longer)].t1 <= seek + 2 * tok
      BY <1>1, <2>1, <2>3, <3>1
    <3> HIDE DEF new
    <3>4. SegmentsInv(new, k + 1, s)
      BY <2>1, <2>5, <3>1, <3>2, <3>3 DEF SegmentsInv
    <3> QED
      BY <3>4 DEF new, tok
  <2>7. CASE ~acc.text
    <3>1. new.segs = acc.segs /\ new.t0 = seek + 2 * tok /\ new \in AccType
      <4>1. new = [segs |-> acc.segs, t0 |-> seek + 2 * tok, text |-> FALSE, run |-> TRUE]
        BY <1>5, <2>7
      <4> HIDE DEF new
      <4> QED
        BY <2>1, <2>2, <4>1 DEF AccType
    <3>2. acc.segs # <<>> => acc.segs[Len(acc.segs)].t1 <= seek + 2 * tok
      <4> SUFFICES ASSUME acc.segs # <<>>
                   PROVE  acc.segs[Len(acc.segs)].t1 <= seek + 2 * tok
        OBVIOUS
      <4>1. acc.segs[Len(acc.segs)].t1 \in Int
        <5>1. Len(acc.segs) \in 1 .. Len(acc.segs)
          BY <2>2
        <5>2. acc.segs[Len(acc.segs)] \in SegmentType
          BY <2>2, <5>1
        <5> QED
          BY <5>2 DEF SegmentType
      <4> QED
        BY <1>1, <2>1, <2>2, <2>4, <4>1
    <3> HIDE DEF new
    <3>3. SegmentsInv(new, k + 1, s)
      BY <1>1, <2>1, <2>5, <3>1, <3>2 DEF SegmentsInv
    <3> QED
      BY <3>3 DEF new, tok
  <2> QED
    BY <2>6, <2>7
<1>6. \/ /\ new \in AccType /\ new.segs = acc.segs /\ new.t0 = acc.t0
      \/ /\ tok > 0
         /\ new = [segs |-> IF acc.text
                            THEN Append(acc.segs, [t0 |-> acc.t0, t1 |-> seek + 2 * tok])
                            ELSE acc.segs,
                   t0 |-> seek + 2 * tok, text |-> FALSE, run |-> TRUE]
  <2>1. /\ [acc EXCEPT !.text = TRUE, !.run = FALSE] \in AccType
        /\ [acc EXCEPT !.text = TRUE, !.run = FALSE].segs = acc.segs
        /\ [acc EXCEPT !.text = TRUE, !.run = FALSE].t0 = acc.t0
        /\ [acc EXCEPT !.run = FALSE] \in AccType
        /\ [acc EXCEPT !.run = FALSE].segs = acc.segs
        /\ [acc EXCEPT !.run = FALSE].t0 = acc.t0
    BY <1>1 DEF AccType
  <2> QED
    BY <1>1, <2>1 DEF Segment
<1> QED
  BY <1>4, <1>5, <1>6

(* A segment begins at a frame, whatever the token. *)
LEMMA SegmentTyped ==
  ASSUME seek \in Nat, NEW acc \in AccType, NEW tok \in Tokens
  PROVE  Segment(acc, tok) \in AccType
<1>1. /\ acc.segs \in Seq(SegmentType) /\ acc.t0 \in Int /\ acc.text \in BOOLEAN
      /\ tok \in Int
  BY Sizes DEF AccType, Tokens
<1>2. /\ [acc EXCEPT !.text = TRUE, !.run = FALSE] \in AccType
      /\ [acc EXCEPT !.run = FALSE] \in AccType
  BY DEF AccType
<1>3. seek + 2 * tok \in Int
  BY <1>1
<1> DEFINE segs == IF acc.text THEN Append(acc.segs, [t0 |-> acc.t0, t1 |-> seek + 2 * tok])
                   ELSE acc.segs
<1>4. segs \in Seq(SegmentType)
  <2>1. [t0 |-> acc.t0, t1 |-> seek + 2 * tok] \in SegmentType
    BY <1>1, <1>3 DEF SegmentType
  <2> QED
    BY <1>1, <2>1
<1>5. [segs |-> segs, t0 |-> seek + 2 * tok, text |-> FALSE, run |-> TRUE] \in AccType
  <2> HIDE DEF segs
  <2> QED
    BY <1>3, <1>4 DEF AccType
<1> QED
  BY <1>2, <1>5 DEF Segment

(* A fold of the segments has the equation of its steps. *)
LEMMA FoldSegments ==
  ASSUME seek \in Nat, NEW s \in Seq(Tokens), NEW b \in AccType
  PROVE  \E g : /\ \A S \in SUBSET (1 .. Len(s)) :
                     g[S] = IF S = {} THEN b ELSE Segment(g[S \ {Max(S)}], s[Max(S)])
                /\ FoldLeft(Segment, b, s) = g[1 .. Len(s)]
<1> DEFINE Eq(g) == g = [S \in SUBSET DOMAIN s |->
                          IF S = {} THEN b ELSE Segment(g[S \ {Max(S)}], s[Max(S)])]
           F == [p \in AccType \X Tokens |-> Segment(p[1], p[2])]
<1>0. DOMAIN s = 1 .. Len(s) /\ Len(s) \in Nat
  OBVIOUS
<1>1. F \in [AccType \X Tokens -> AccType]
  <2>1. ASSUME NEW acc \in AccType, NEW tok \in Tokens PROVE Segment(acc, tok) \in AccType
    BY <2>1, SegmentTyped
  <2> QED
    BY <2>1
<1>2. PICK h \in [SUBSET (1 .. Len(s)) -> AccType] : FoldEq(h, F, b, s, Len(s))
  <2> HIDE DEF F
  <2> QED
    BY <1>1, FoldExists
<1>3. ASSUME NEW S \in SUBSET (1 .. Len(s)), S # {}
      PROVE  /\ h[S \ {Max(S)}] \in AccType /\ s[Max(S)] \in Tokens
  <2>1. Max(S) \in S
    BY <1>0, <1>3, MaxExists
  <2>2. Max(S) \in 1 .. Len(s)
    BY <2>1
  <2>3. S \ {Max(S)} \in SUBSET (1 .. Len(s))
    OBVIOUS
  <2>4. h[S \ {Max(S)}] \in AccType
    BY <2>3
  <2> QED
    BY <2>2, <2>4
<1>4. ASSUME NEW S \in SUBSET (1 .. Len(s))
      PROVE  h[S] = IF S = {} THEN b ELSE Segment(h[S \ {Max(S)}], s[Max(S)])
  <2>1. h[S] = IF S = {} THEN b ELSE F[<<h[S \ {Max(S)}], s[Max(S)]>>]
    BY <1>2 DEF FoldEq
  <2>2. S # {} => F[<<h[S \ {Max(S)}], s[Max(S)]>>] = Segment(h[S \ {Max(S)}], s[Max(S)])
    <3> SUFFICES ASSUME S # {}
                 PROVE  F[<<h[S \ {Max(S)}], s[Max(S)]>>] = Segment(h[S \ {Max(S)}], s[Max(S)])
      OBVIOUS
    <3>1. <<h[S \ {Max(S)}], s[Max(S)]>> \in AccType \X Tokens
      BY <1>3
    <3> QED
      BY <3>1
  <2> HIDE DEF F
  <2> QED
    BY <2>1, <2>2
<1>5. Eq(h)
  <2>1. h = [S \in SUBSET (1 .. Len(s)) |-> h[S]]
    OBVIOUS
  <2> QED
    BY <1>0, <1>4, <2>1
<1>6. FoldLeft(Segment, b, s) = (CHOOSE g : Eq(g))[DOMAIN s]
  BY Zenon DEF FoldLeft, MapThenFoldSet
<1> HIDE DEF Eq, F
<1>7. PICK g : g = (CHOOSE f : Eq(f)) /\ Eq(g)
  BY <1>5
<1>8. FoldLeft(Segment, b, s) = g[1 .. Len(s)]
  BY <1>0, <1>6, <1>7
<1>9. \A S \in SUBSET (1 .. Len(s)) :
        g[S] = IF S = {} THEN b ELSE Segment(g[S \ {Max(S)}], s[Max(S)])
  <2>1. g = [S \in SUBSET (1 .. Len(s)) |->
               IF S = {} THEN b ELSE Segment(g[S \ {Max(S)}], s[Max(S)])]
    BY <1>0, <1>7 DEF Eq
  <2>2. PICK D : D = SUBSET (1 .. Len(s))
    OBVIOUS
  <2>3. g = [S \in D |-> IF S = {} THEN b ELSE Segment(g[S \ {Max(S)}], s[Max(S)])]
    BY <2>1, <2>2
  <2>4. \A S \in D : g[S] = IF S = {} THEN b ELSE Segment(g[S \ {Max(S)}], s[Max(S)])
    BY <2>3, Zenon
  <2> QED
    BY <2>2, <2>4
<1> QED
  BY <1>8, <1>9

(* All tokens: induction over the number of tokens. *)
LEMMA AllSegments ==
  ASSUME seek \in Nat, NEW s \in Seq(Tokens), NotDecreasing(s), NEW b, SegmentsInv(b, 0, s)
  PROVE  SegmentsInv(FoldLeft(Segment, b, s), Len(s), s)
<1>0. b \in AccType /\ Len(s) \in Nat
  BY DEF SegmentsInv
<1>1. PICK g : /\ \A S \in SUBSET (1 .. Len(s)) :
                    g[S] = IF S = {} THEN b ELSE Segment(g[S \ {Max(S)}], s[Max(S)])
               /\ FoldLeft(Segment, b, s) = g[1 .. Len(s)]
  BY <1>0, FoldSegments
<1> DEFINE Good == {k \in 0 .. Len(s) : SegmentsInv(g[1 .. k], k, s)}
<1>2. 0 \in Good
  <2>1. 1 .. 0 = {} /\ {} \in SUBSET (1 .. Len(s)) /\ 0 \in 0 .. Len(s)
    BY <1>0
  <2>2. g[1 .. 0] = b
    BY <1>1, <2>1
  <2> QED
    BY <2>1, <2>2
<1>3. ASSUME NEW k \in 0 .. Len(s) - 1, k \in Good PROVE k + 1 \in Good
  <2>1. k \in Nat /\ k + 1 \in 0 .. Len(s) /\ 1 .. k + 1 \in SUBSET (1 .. Len(s))
    BY <1>0
  <2>2. Max(1 .. k + 1) = k + 1
    <3>1. 1 .. k + 1 \in SUBSET (1 .. k + 1) /\ k + 1 \in 1 .. k + 1
      BY <2>1
    <3> QED
      BY <2>1, <3>1, MaxIs
  <2>3. (1 .. k + 1) \ {k + 1} = 1 .. k /\ 1 .. k + 1 # {}
    <3>1. ASSUME NEW x PROVE x \in (1 .. k + 1) \ {k + 1} <=> x \in 1 .. k
      BY <2>1
    <3>2. 1 \in 1 .. k + 1
      BY <2>1
    <3> QED
      BY <3>1, <3>2
  <2>4. g[1 .. k + 1] = Segment(g[1 .. k], s[k + 1])
    BY <1>1, <2>1, <2>2, <2>3
  <2>5. SegmentsInv(g[1 .. k], k, s)
    BY <1>3
  <2>6. SegmentsInv(g[1 .. k + 1], k + 1, s)
    <3>1. PICK acc : acc = g[1 .. k]
      OBVIOUS
    <3>2. SegmentsInv(Segment(acc, s[k + 1]), k + 1, s)
      BY <2>5, <3>1, SegmentStep
    <3> QED
      BY <2>4, <3>1, <3>2
  <2> QED
    BY <2>1, <2>6
<1>4. Len(s) \in Good
  <2> HIDE DEF Good
  <2>1. \A k \in 0 .. Len(s) : k \in Good
    BY <1>0, <1>2, <1>3, UpTo
  <2> QED
    BY <1>0, <2>1
<1> QED
  BY <1>1, <1>4

(* The segments of a decoder lie in order between seek and seek_delta.      *)
LEMMA SegmentsOfOK ==
  ASSUME seek \in Nat, NEW d \in DecoderType, TimesOK(d), d.tid >= 0
  PROVE  /\ SegmentsOf(d) \in Seq(SegmentType) /\ InOrder(SegmentsOf(d))
         /\ SegmentsOf(d) # <<>> =>
              /\ SegmentsOf(d)[1].t0 >= seek
              /\ SegmentsOf(d)[Len(SegmentsOf(d))].t1 <= seek + d.seek_delta
<1> DEFINE b == [segs |-> <<>>, t0 |-> seek + 2 * d.tid, text |-> FALSE, run |-> FALSE]
<1>1. d.tokens \in Seq(Tokens) /\ d.tid \in Int /\ d.seek_delta \in Nat
  BY DEF DecoderType
<1>2. SegmentsInv(b, 0, d.tokens)
  <2>1. seek + 2 * d.tid \in Int /\ seek + 2 * d.tid >= seek
    BY <1>1
  <2>2. <<>> \in Seq(SegmentType) /\ InOrder(<<>>)
    BY DEF InOrder
  <2> QED
    BY <2>1, <2>2 DEF SegmentsInv, AccType
<1>3. NotDecreasing(d.tokens)
  BY DEF TimesOK, NotDecreasing
<1> DEFINE acc == FoldLeft(Segment, b, d.tokens)
<1>4. SegmentsInv(acc, Len(d.tokens), d.tokens)
  <2> HIDE DEF b
  <2> QED
    BY <1>1, <1>2, <1>3, AllSegments
<1>5. SegmentsOf(d) = IF acc.text THEN Append(acc.segs, [t0 |-> acc.t0, t1 |-> LastEnd(d)])
                      ELSE acc.segs
  BY DEF SegmentsOf
<1> HIDE DEF acc, b
<1>6. /\ acc \in AccType /\ acc.t0 >= seek /\ InOrder(acc.segs)
      /\ acc.segs # <<>> =>
           /\ acc.segs[1].t0 >= seek /\ acc.segs[Len(acc.segs)].t1 <= acc.t0
           /\ acc.t0 <= seek + d.seek_delta
  <2>1. ASSUME NEW a \in 1 .. Len(d.tokens), d.tokens[a] >= 0,
               acc.t0 = seek + 2 * d.tokens[a]
        PROVE  acc.t0 <= seek + d.seek_delta
    <3>1. d.tokens[a] \in Tokens /\ 2 * d.tokens[a] <= d.seek_delta
      BY <1>1 DEF TimesOK
    <3>2. d.tokens[a] \in Int
      BY <3>1, Sizes DEF Tokens
    <3> QED
      BY <1>1, <2>1, <3>1, <3>2
  <2> QED
    BY <1>4, <2>1 DEF SegmentsInv
<1>7. acc.segs \in Seq(SegmentType) /\ acc.t0 \in Int /\ acc.text \in BOOLEAN
  BY <1>6 DEF AccType
<1>8. CASE acc.text
  <2> DEFINE x == [t0 |-> acc.t0, t1 |-> LastEnd(d)]
             longer == Append(acc.segs, x)
  <2>1. x \in SegmentType /\ x.t0 = acc.t0 /\ x.t1 = seek + d.seek_delta
    BY <1>1, <1>7 DEF LastEnd, SegmentType
  <2>2. /\ longer \in Seq(SegmentType) /\ InOrder(longer) /\ longer # <<>>
        /\ longer[Len(longer)] = x
        /\ longer[1] = IF acc.segs = <<>> THEN x ELSE acc.segs[1]
    <3> HIDE DEF x
    <3> QED
      BY <1>6, <1>7, <2>1, AppendSegment
  <2>3. SegmentsOf(d) = longer
    BY <1>5, <1>8
  <2> HIDE DEF longer, x
  <2>4. longer[1].t0 >= seek
    BY <1>6, <2>1, <2>2
  <2>5. longer[Len(longer)].t1 <= seek + d.seek_delta
    BY <1>1, <2>1, <2>2
  <2> QED
    BY <2>2, <2>3, <2>4, <2>5
<1>9. CASE ~acc.text
  <2>1. SegmentsOf(d) = acc.segs
    BY <1>5, <1>9
  <2>2. acc.segs # <<>> => acc.segs[Len(acc.segs)].t1 <= seek + d.seek_delta
    <3> SUFFICES ASSUME acc.segs # <<>>
                 PROVE  acc.segs[Len(acc.segs)].t1 <= seek + d.seek_delta
      OBVIOUS
    <3>1. Len(acc.segs) \in 1 .. Len(acc.segs)
      BY <1>7
    <3>2. acc.segs[Len(acc.segs)] \in SegmentType
      BY <1>7, <3>1
    <3>3. acc.segs[Len(acc.segs)].t1 \in Int
      BY <3>2 DEF SegmentType
    <3> QED
      BY <1>1, <1>6, <1>7, <3>3
  <2> QED
    BY <1>6, <1>7, <2>1, <2>2
<1> QED
  BY <1>7, <1>8, <1>9

-----------------------------------------------------------------------------
(* The timestamps of a decoder after a round of the token loop. *)
LEMMA SampledTimes ==
  ASSUME TypeInv, NEW d, DecoderOK(d), TimesOK(d), ~d.completed, NEW e \in Extensions(d)
  PROVE  TimesOK(Update(e)) /\ Update(e).tid = e.tid
<1> DEFINE n == Len(d.tokens)
           tok == e.tokens[Len(e.tokens)]
           g == ToSeekDelta(e)
<1>1. /\ DecoderOK(e) /\ e.has_ts = d.has_ts /\ e.seek_delta = d.seek_delta
      /\ tok \in Allowed(d)
  BY ExtendOK
<1>2. /\ d \in DecoderType /\ e \in DecoderType /\ ChunkFrames \in Nat
      /\ d.seek_delta \in Nat /\ d.seek_delta >= 2 /\ i \in Nat
  BY <1>1, Sizes DEF DecoderOK, DecoderType, TypeInv
<1>3. /\ n \in Nat /\ Len(e.tokens) = n + 1 /\ tok = e.tokens[n + 1]
      /\ \A a \in 1 .. n : e.tokens[a] = d.tokens[a] /\ d.tokens[a] \in Int
      /\ tok \in Int /\ 2 * tok <= ChunkFrames
      /\ \A a \in 1 .. n : 2 * d.tokens[a] <= ChunkFrames
  <2>1. PICK new \in Allowed(d) : e.tokens = Append(d.tokens, new)
    <3>1. PICK new \in Allowed(d) :
            \E tid \in IF d.tokens = <<>> THEN Tids(new) ELSE {0} : e = Extend(d, new, tid)
      BY DEF Extensions
    <3> QED
      BY <1>2, <3>1 DEF Extend, DecoderType
  <2>2. ASSUME NEW x \in Tokens PROVE x \in Int /\ 2 * x <= ChunkFrames
    <3>1. CASE x \in Timestamps
      BY <1>2, <3>1 DEF Timestamps
    <3>2. CASE x \notin Timestamps
      BY <1>2, <3>2 DEF Tokens, TEXT, EOT
    <3> QED
      BY <3>1, <3>2
  <2>3. d.tokens \in Seq(Tokens) /\ new \in Tokens
    BY <1>2 DEF DecoderType, Allowed, Tokens
  <2>4. /\ n \in Nat /\ Len(e.tokens) = n + 1 /\ e.tokens[n + 1] = new
        /\ \A a \in 1 .. n : e.tokens[a] = d.tokens[a] /\ d.tokens[a] \in Tokens
    BY <2>1, <2>3
  <2> QED
    BY <2>2, <2>3, <2>4
<1>4. tok >= 0 /\ d.has_ts => d.seek_delta <= 2 * tok
  BY <1>1, NotEarlier
<1>5. ASSUME NEW a \in 1 .. n
      PROVE  /\ 2 * d.tokens[a] <= d.seek_delta /\ (~d.has_ts => d.tokens[a] <= 0)
             /\ tok >= 0 => d.tokens[a] <= tok
  <2>1. 2 * d.tokens[a] <= d.seek_delta /\ (~d.has_ts => d.tokens[a] <= 0)
    BY DEF TimesOK
  <2>2. ASSUME tok >= 0 PROVE d.tokens[a] <= tok
    <3>1. d.tokens[a] \in Int /\ tok \in Int
      BY <1>3
    <3>2. CASE d.has_ts
      BY <1>2, <1>4, <2>1, <2>2, <3>1, <3>2, SMTT(30)
    <3>3. CASE ~d.has_ts
      BY <2>1, <2>2, <3>1, <3>3
    <3> QED
      BY <3>2, <3>3
  <2> QED
    BY <2>1, <2>2
<1> HIDE DEF tok, n
<1>6. g \in DecoderType /\ g.tokens = e.tokens /\ g.tid = e.tid
      /\ (g.completed = e.completed) /\ g.result_len \in Nat
  <2>1. CASE tok > 0
    <3>1. g = [e EXCEPT !.seek_delta = 2 * tok, !.result_len = i + 1, !.has_ts = TRUE]
      BY <2>1 DEF ToSeekDelta, PastBeg, tok
    <3>2. 2 * tok \in Nat /\ i + 1 \in Nat
      BY <1>2, <1>3, <2>1
    <3> HIDE DEF g
    <3> QED
      BY <1>2, <3>1, <3>2 DEF DecoderType
  <2>2. CASE ~(tok > 0)
    <3>1. g = e
      BY <2>2 DEF ToSeekDelta, PastBeg, tok
    <3> HIDE DEF g
    <3> QED
      BY <1>2, <3>1 DEF DecoderType
  <2> QED
    BY <2>1, <2>2
<1>7. TimesOK(g)
  <2>1. ASSUME NEW a \in 1 .. n + 1, NEW b \in 1 .. n + 1, a < b,
               e.tokens[a] >= 0, e.tokens[b] >= 0
        PROVE  e.tokens[a] <= e.tokens[b]
    <3>1. a \in 1 .. n
      BY <1>3, <2>1
    <3>2. CASE b = n + 1
      BY <1>3, <1>5, <2>1, <3>1, <3>2
    <3>3. CASE b # n + 1
      <4>1. b \in 1 .. n
        BY <1>3, <3>3
      <4> QED
        BY <1>3, <2>1, <3>1, <4>1 DEF TimesOK, n
    <3> QED
      BY <3>2, <3>3
  <2>2. /\ g.seek_delta \in Nat /\ g.seek_delta <= ChunkFrames
        /\ 2 * tok <= g.seek_delta /\ (~g.has_ts => tok <= 0)
        /\ \A a \in 1 .. n : 2 * d.tokens[a] <= g.seek_delta /\ (~g.has_ts => d.tokens[a] <= 0)
    <3>1. CASE tok > 0
      <4>1. g = [e EXCEPT !.seek_delta = 2 * tok, !.result_len = i + 1, !.has_ts = TRUE]
        BY <3>1 DEF ToSeekDelta, PastBeg, tok
      <4>2. g.seek_delta = 2 * tok /\ g.has_ts
        BY <1>2, <4>1 DEF DecoderType
      <4>3. \A a \in 1 .. n : 2 * d.tokens[a] <= 2 * tok
        BY <1>3, <1>5, <3>1
      <4> QED
        BY <1>3, <3>1, <4>2, <4>3
    <3>2. CASE ~(tok > 0)
      <4>1. g = e
        BY <3>2 DEF ToSeekDelta, PastBeg, tok
      <4>2. d.seek_delta <= ChunkFrames
        BY DEF TimesOK
      <4>3. 2 * tok <= d.seek_delta /\ tok <= 0
        BY <1>2, <1>3, <3>2
      <4> QED
        BY <1>1, <1>2, <1>5, <4>1, <4>2, <4>3
    <3> QED
      BY <3>1, <3>2
  <2>3. \A a \in 1 .. n + 1 : 2 * e.tokens[a] <= g.seek_delta /\ (~g.has_ts => e.tokens[a] <= 0)
    <3> SUFFICES ASSUME NEW a \in 1 .. n + 1
                 PROVE  2 * e.tokens[a] <= g.seek_delta /\ (~g.has_ts => e.tokens[a] <= 0)
      OBVIOUS
    <3>1. a \in 1 .. n \/ a = n + 1
      BY <1>3
    <3> QED
      BY <1>3, <2>2, <3>1
  <2> QED
    BY <1>3, <1>6, <2>1, <2>2, <2>3 DEF TimesOK
<1>8. ASSUME NEW h, h.tokens = e.tokens, h.seek_delta \in {g.seek_delta, ChunkFrames},
             h.has_ts = g.has_ts
      PROVE  TimesOK(h)
  <2>1. \A a \in 1 .. n + 1 : 2 * e.tokens[a] <= ChunkFrames
    <3> SUFFICES ASSUME NEW a \in 1 .. n + 1 PROVE 2 * e.tokens[a] <= ChunkFrames
      OBVIOUS
    <3>1. a \in 1 .. n \/ a = n + 1
      BY <1>3
    <3> QED
      BY <1>3, <3>1
  <2> HIDE DEF g
  <2> QED
    BY <1>2, <1>3, <1>6, <1>7, <1>8, <2>1 DEF TimesOK
<1>9. ~BackInTime(e)
  BY NoWayBack
<1> HIDE DEF g
<1>10. /\ [g EXCEPT !.failed = TRUE].tokens = e.tokens
       /\ [g EXCEPT !.failed = TRUE].seek_delta = g.seek_delta
       /\ [g EXCEPT !.failed = TRUE].has_ts = g.has_ts
       /\ [g EXCEPT !.failed = TRUE].tid = e.tid
  BY <1>6 DEF DecoderType
<1>11. /\ Complete(g).tokens = e.tokens /\ Complete(g).tid = e.tid
       /\ Complete(g).seek_delta \in {g.seek_delta, ChunkFrames}
       /\ Complete(g).has_ts = g.has_ts
  BY <1>6, <1>10 DEF Complete, DecoderType
<1>12. Update(e) = IF Ended(g) THEN Complete(g)
                   ELSE IF Stuck(g) THEN [g EXCEPT !.failed = TRUE] ELSE g
  BY <1>9 DEF Update, g
<1>13. TimesOK(Complete(g)) /\ TimesOK([g EXCEPT !.failed = TRUE])
  BY <1>8, <1>10, <1>11
<1> QED
  BY <1>6, <1>7, <1>10, <1>11, <1>12, <1>13

(* The first token of a decoder sets where its first segment begins.        *)
LEMMA SampledTid ==
  ASSUME TypeInv, NEW d, d.tid >= 0, ~params.no_timestamps, NEW e \in Extensions(d),
         d \in DecoderType
  PROVE  e.tid >= 0
<1>1. PICK tok \in Allowed(d) :
        \E tid \in IF d.tokens = <<>> THEN Tids(tok) ELSE {0} : e = Extend(d, tok, tid)
  BY DEF Extensions
<1>2. PICK tid \in (IF d.tokens = <<>> THEN Tids(tok) ELSE {0}) : e = Extend(d, tok, tid)
  BY <1>1
<1>3. d.tokens = <<>> => tid >= 0
  <2>1. Tids(tok) = IF tok >= 0 THEN {tok} ELSE Guesses
    BY DEF Tids, IsTimestamp
  <2>2. \A x \in Guesses : x >= 0
    BY Sizes
  <2> QED
    BY <1>2, <2>1, <2>2
<1>4. e.tid = IF d.tokens = <<>> THEN tid ELSE d.tid
  BY <1>2 DEF Extend, DecoderType
<1> QED
  BY <1>3, <1>4

(* A decoder that is cut, or fails, keeps its order. *)
LEMMA CutTimes ==
  ASSUME NEW d \in DecoderType, TimesOK(d), NEW b \in BOOLEAN
  PROVE  LET c == [Cut(d) EXCEPT !.failed = b] IN TimesOK(c) /\ c.tid = d.tid
<1> DEFINE m == Min2(Len(d.tokens), d.result_len)
           c == [Cut(d) EXCEPT !.failed = b]
<1>1. /\ d.tokens \in Seq(Tokens) /\ Len(d.tokens) \in Nat /\ d.result_len \in Nat
  BY DEF DecoderType
<1>2. m \in 0 .. Len(d.tokens)
  BY <1>1 DEF Min2
<1> HIDE DEF m
<1>3. /\ Len(SubSeq(d.tokens, 1, m)) = m
      /\ \A a \in 1 .. m : SubSeq(d.tokens, 1, m)[a] = d.tokens[a] /\ a \in 1 .. Len(d.tokens)
  BY <1>1, <1>2
<1>4. /\ c.tokens = SubSeq(d.tokens, 1, m) /\ c.seek_delta = d.seek_delta
      /\ c.has_ts = d.has_ts /\ c.tid = d.tid
  BY DEF Cut, m, DecoderType
<1> HIDE DEF c
<1>5. TimesOK(c)
  BY <1>3, <1>4 DEF TimesOK
<1> QED
  BY <1>4, <1>5 DEF c

-----------------------------------------------------------------------------
(* Most steps leave what has been put out alone. *)
LEMMA EndQuiet ==
  ASSUME EndInv, UNCHANGED <<params, seek, segments, last_end>>,
         pc' \in InWindow \cup {"window"} => pc \in InWindow \cup {"window"},
         pc' = "window" => pc = "window", SegmentsOrdered
  PROVE  EndInv' /\ SegmentsOrdered'
<1>1. EndInv'
  BY DEF EndInv, SeekEnd
<1>2. SegmentsOrdered'
  BY DEF SegmentsOrdered
<1> QED
  BY <1>1, <1>2

(* Steps of the loop that change no decoder. *)
LEMMA DecodersKept ==
  ASSUME OrderInv, IInv',
         UNCHANGED <<params, seek, dec, segments, last_end, n_decoders_cur>>,
         \/ pc' \in {"idle", "freed"}
         \/ pc' = "temperature" /\ pc \in Decoding \cup {"window"}
            /\ best_decoder_id' \in {0, best_decoder_id}
            /\ (pc = "window" => best_decoder_id' = 0)
         \/ pc' \in Decoding /\ pc \in Decoding /\ best_decoder_id' = best_decoder_id
         \/ UNCHANGED <<pc, best_decoder_id>>
  PROVE  OrderInv'
<1>1. TimesInv'
  BY DEF OrderInv, TimesInv, TimesOK
<1>2. TidInv'
  BY DEF OrderInv, TidInv, Current, Decoding
<1>3. EndInv' /\ SegmentsOrdered'
  BY EndQuiet DEF OrderInv, InWindow, Decoding
<1> QED
  BY <1>1, <1>2, <1>3 DEF OrderInv

(* A call forgets what has been put out. *)
LEMMA OrderOfCall ==
  ASSUME OrderInv, IInv', NEW p \in Params,
         Call(p) \/ \E code \in {-2, -3, 0, -4} : CallFails(p, code)
  PROVE  OrderInv'
<1>1. /\ pc' \in {"idle", "window"} /\ dec' = dec /\ segments' = <<>> /\ last_end' = 0
      /\ pc' = "window" => seek' = params'.offset
  BY DEF Call, CallFails, Return, decodeVars
<1>2. TimesInv' /\ TidInv'
  BY <1>1 DEF OrderInv, TimesInv, TimesOK, TidInv, Decoding
<1>3. EndInv'
  <2>1. pc' = "window" => seek' >= 0
    BY ParamsType DEF IInv, TypeInv
  <2> QED
    BY <1>1, <2>1 DEF EndInv, InWindow, Decoding
<1>4. SegmentsOrdered'
  BY <1>1 DEF SegmentsOrdered
<1> QED
  BY <1>2, <1>3, <1>4 DEF OrderInv

(* A temperature begins with new decoders; that of an earlier temperature   *)
(* may be one of the others.                                                *)
LEMMA OrderOfPrompt ==
  ASSUME OrderInv, IInv', CacheFails \/ DecodePrompt
  PROVE  OrderInv'
<1>1. /\ pc = "temperature" /\ pc' \in {"freed", "sample", "idle"}
      /\ n_decoders_cur' = CurrentDecoders
      /\ dec' = [j \in Decoders |-> IF j < CurrentDecoders THEN NewDecoder ELSE dec[j]]
      /\ UNCHANGED <<params, seek, best_decoder_id, segments, last_end>>
  BY DEF CacheFails, DecodePrompt, BeginTemperature, Return, resultVars
<1>2. CurrentDecoders \in Nat /\ CurrentDecoders > 0 /\ best_decoder_id \in Decoders
  BY ParamsType DEF OrderInv, IInv, TypeInv, CurrentDecoders
<1>3. TimesOK(NewDecoder) /\ NewDecoder.tid = 0
  BY Sizes DEF TimesOK, NewDecoder
<1>4. TimesInv'
  <2>1. ASSUME NEW j \in Decoders PROVE TimesOK(dec'[j])
    BY <1>1, <1>3 DEF OrderInv, TimesInv
  <2> QED
    BY <2>1 DEF TimesInv, TimesOK
<1>5. TidInv'
  <2>1. ASSUME NEW j \in Decoders, j < CurrentDecoders PROVE dec'[j].tid >= 0
    BY <1>1, <1>3, <2>1
  <2>2. ASSUME ~params.no_timestamps PROVE dec'[best_decoder_id].tid >= 0
    <3>1. CASE best_decoder_id < CurrentDecoders
      BY <1>2, <2>1, <3>1
    <3>2. CASE ~(best_decoder_id < CurrentDecoders)
      <4>1. best_decoder_id # 0
        BY <1>2, <3>2
      <4>2. dec'[best_decoder_id] = dec[best_decoder_id]
        BY <1>1, <1>2, <3>2
      <4> QED
        BY <1>1, <2>2, <4>1, <4>2 DEF OrderInv, TidInv
    <3> QED
      BY <3>1, <3>2
  <2>3. Current' = {j \in Decoders : j < CurrentDecoders}
    BY <1>1 DEF Current
  <2> QED
    BY <1>1, <2>1, <2>2, <2>3 DEF TidInv
<1>6. EndInv' /\ SegmentsOrdered'
  BY <1>1, EndQuiet DEF OrderInv, InWindow, Decoding
<1> QED
  BY <1>4, <1>5, <1>6 DEF OrderInv

(* A round of the token loop. *)
LEMMA OrderOfSample ==
  ASSUME OrderInv, IInv', Sample
  PROVE  OrderInv'
<1>1. /\ pc = "sample" /\ pc' \in {"logits", "rank"}
      /\ UNCHANGED <<params, seek, n_decoders_cur, best_decoder_id, segments, last_end>>
  BY DEF Sample, loopVars, resultVars
<1>2. PICK f \in SampleRounds :
        dec' = [j \in Decoders |-> IF j \in DOMAIN f THEN Update(f[j]) ELSE dec[j]]
  BY DEF Sample
<1>3. ASSUME NEW j \in DOMAIN f
      PROVE  /\ TimesOK(Update(f[j])) /\ j \in Current
             /\ ~params.no_timestamps => Update(f[j]).tid >= 0
  <2>1. DOMAIN f = {k \in Current : Live(k)}
    BY <1>2 DEF SampleRounds
  <2>2. PICK k \in Parents(j) : f[j] \in Extensions(dec[k])
    BY <1>2, <1>3, <2>1 DEF SampleRounds
  <2>3. k \in Current /\ k \in Decoders /\ ~dec[k].completed
    BY <1>3, <2>1, <2>2 DEF Parents, Live, Current
  <2>4. /\ DecoderOK(dec[k]) /\ TimesOK(dec[k]) /\ TypeInv /\ dec[k] \in DecoderType
    BY <2>3 DEF OrderInv, IInv, DecodersInv, DecoderOK, TimesInv
  <2>5. TimesOK(Update(f[j])) /\ Update(f[j]).tid = f[j].tid
    BY <2>2, <2>3, <2>4, SampledTimes
  <2>6. ~params.no_timestamps => f[j].tid >= 0
    <3>1. ~params.no_timestamps => dec[k].tid >= 0
      BY <1>1, <2>3 DEF OrderInv, TidInv, Decoding
    <3> QED
      BY <2>2, <2>4, <3>1, SampledTid
  <2> QED
    BY <1>3, <2>1, <2>5, <2>6
<1>4. TimesInv'
  <2>1. ASSUME NEW j \in Decoders PROVE TimesOK(dec'[j])
    BY <1>2, <1>3 DEF OrderInv, TimesInv
  <2> QED
    BY <2>1 DEF TimesInv, TimesOK
<1>5. TidInv'
  <2>1. ASSUME NEW j \in Current \cup {best_decoder_id}, ~params.no_timestamps
        PROVE  dec'[j].tid >= 0
    <3>1. j \in Decoders
      BY DEF Current, OrderInv, IInv, TypeInv
    <3>2. dec[j].tid >= 0
      BY <1>1, <2>1 DEF OrderInv, TidInv, Decoding
    <3> QED
      BY <1>2, <1>3, <2>1, <3>1, <3>2
  <2>2. Current' = Current
    BY <1>1 DEF Current
  <2> QED
    BY <1>1, <2>1, <2>2 DEF TidInv
<1>6. EndInv' /\ SegmentsOrdered'
  BY <1>1, EndQuiet DEF OrderInv, InWindow, Decoding
<1> QED
  BY <1>4, <1>5, <1>6 DEF OrderInv

(* Ranking takes tokens away only at the end. *)
LEMMA OrderOfRank ==
  ASSUME OrderInv, IInv', Rank
  PROVE  OrderInv'
<1>1. /\ pc = "rank" /\ pc' = "fallback"
      /\ UNCHANGED <<params, seek, n_decoders_cur, segments, last_end>>
  BY DEF Rank, loopVars, resultVars
<1>2. PICK bad \in SUBSET Repetitive :
        /\ dec' = [j \in Decoders |->
                    IF j \notin Ranked THEN dec[j]
                    ELSE [Cut(dec[j]) EXCEPT !.failed = j \in bad]]
        /\ best_decoder_id' \in
             IF Ranked \ bad = {} THEN {best_decoder_id} ELSE Ranked \ bad
  BY DEF Rank
<1>3. ASSUME NEW j \in Decoders
      PROVE  TimesOK(dec'[j]) /\ dec'[j].tid = dec[j].tid
  <2>1. dec[j] \in DecoderType /\ TimesOK(dec[j]) /\ (j \in bad) \in BOOLEAN
    BY DEF OrderInv, IInv, DecodersInv, DecoderOK, TimesInv
  <2>2. PICK b \in BOOLEAN : b = (j \in bad)
    BY <2>1
  <2>3. TimesOK([Cut(dec[j]) EXCEPT !.failed = b])
        /\ [Cut(dec[j]) EXCEPT !.failed = b].tid = dec[j].tid
    BY <2>1, CutTimes
  <2>4. dec'[j] = dec[j] \/ dec'[j] = [Cut(dec[j]) EXCEPT !.failed = b]
    BY <1>2, <2>2
  <2> QED
    BY <2>1, <2>3, <2>4
<1>4. TimesInv'
  BY <1>3 DEF TimesInv, TimesOK
<1>5. TidInv'
  <2>1. best_decoder_id' \in Current \cup {best_decoder_id} /\ best_decoder_id \in Decoders
        /\ Current' = Current
    BY <1>1, <1>2 DEF Ranked, Current, OrderInv, IInv, TypeInv
  <2>2. ASSUME NEW j \in Current \cup {best_decoder_id'}, ~params.no_timestamps
        PROVE  dec'[j].tid >= 0
    <3>1. j \in Decoders /\ j \in Current \cup {best_decoder_id}
      BY <2>1 DEF Current
    <3>2. dec[j].tid >= 0
      BY <1>1, <2>2, <3>1 DEF OrderInv, TidInv, Decoding
    <3> QED
      BY <1>3, <3>1, <3>2
  <2> QED
    BY <1>1, <2>1, <2>2 DEF TidInv
<1>6. EndInv' /\ SegmentsOrdered'
  BY <1>1, EndQuiet DEF OrderInv, InWindow, Decoding
<1> QED
  BY <1>4, <1>5, <1>6 DEF OrderInv

(* What is put out begins where the last window ended, and seek moves to    *)
(* its end, or to the end of the audio.                                     *)
LEMMA OrderOfOutput ==
  ASSUME OrderInv, IInv', Output
  PROVE  OrderInv'
<1> DEFINE d == dec[best_decoder_id]
           segs == IF d.tokens = <<>> \/ (no_speech /\ low[best_decoder_id]) THEN <<>>
                   ELSE SegmentsOf(d)
<1>1. /\ pc = "output" /\ pc' = "window" /\ seek' = seek + SeekDelta(d)
      /\ segments' = segs
      /\ last_end' = IF segments = <<>> THEN last_end ELSE segments[Len(segments)].t1
      /\ UNCHANGED <<params, dec, n_decoders_cur, best_decoder_id>>
  BY DEF Output, decodeVars
<1>2. /\ d \in DecoderType /\ TimesOK(d) /\ seek \in Nat
      /\ seek + DeltaMin < SeekEnd /\ SeekEnd \in Nat
      /\ ~params.no_timestamps => d.tid >= 0
      /\ SeekDelta(d) \in Nat
  <2>1. best_decoder_id \in Decoders /\ seek \in Nat /\ params \in Params
    BY DEF OrderInv, IInv, TypeInv
  <2>2. d \in DecoderType /\ TimesOK(d)
    BY <2>1 DEF OrderInv, IInv, DecodersInv, DecoderOK, TimesInv
  <2>3. seek + DeltaMin < SeekEnd
    BY <1>1 DEF OrderInv, IInv, WindowInv, InWindow, Decoding
  <2>4. ~params.no_timestamps => d.tid >= 0
    BY <1>1 DEF OrderInv, TidInv, Decoding
  <2>5. SeekEnd \in Nat
    BY <2>1, ParamsType DEF SeekEnd
  <2>6. SeekDelta(d) \in Nat
    BY <1>1, SeekStep DEF OrderInv
  <2> QED
    BY <2>1, <2>2, <2>3, <2>4, <2>5, <2>6
<1>3. ~params.no_timestamps =>
        /\ segments \in Seq(SegmentType) /\ last_end \in Int /\ last_end <= seek
        /\ segments # <<>> => segments[Len(segments)].t1 <= seek
  BY <1>1, <1>2 DEF OrderInv, EndInv, InWindow, Decoding
<1> HIDE DEF d
<1>4. /\ d.seek_delta \in Nat /\ d.seek_delta <= ChunkFrames /\ ChunkFrames \in Nat
      /\ DeltaMin \in Nat
  BY <1>2, Sizes DEF DecoderType, TimesOK
<1>5. CASE ~params.no_timestamps
  <2>1. /\ segs \in Seq(SegmentType) /\ InOrder(segs)
        /\ segs # <<>> =>
             /\ segs[1].t0 >= seek /\ segs[Len(segs)].t1 <= seek + d.seek_delta
    <3>1. <<>> \in Seq(SegmentType) /\ InOrder(<<>>)
      BY DEF InOrder
    <3> QED
      BY <1>2, <1>5, <3>1, SegmentsOfOK
  <2> HIDE DEF segs
  <2>2. last_end' \in Int /\ last_end' <= seek
    <3>1. CASE segments = <<>>
      BY <1>1, <1>3, <1>5, <3>1
    <3>2. CASE segments # <<>>
      <4>1. Len(segments) \in 1 .. Len(segments)
        BY <1>3, <1>5, <3>2
      <4>2. segments[Len(segments)] \in SegmentType
        BY <1>3, <1>5, <4>1
      <4> QED
        BY <1>1, <1>3, <1>5, <3>2, <4>2 DEF SegmentType
    <3> QED
      BY <3>1, <3>2
  <2>3. seek' \in Nat /\ seek <= seek' /\ SeekEnd' = SeekEnd
    BY <1>1, <1>2 DEF SeekEnd
  <2>4. seek' + DeltaMin < SeekEnd => seek + d.seek_delta <= seek'
    <3>1. CASE SingleTimestampEnding(d.tokens)
      <4>1. seek' = seek + Min2(SeekEnd - seek, ChunkFrames)
        BY <1>1, <3>1 DEF SeekDelta
      <4> QED
        BY <1>2, <1>4, <4>1 DEF Min2
    <3>2. CASE ~SingleTimestampEnding(d.tokens)
      BY <1>1, <1>2, <1>4, <3>2 DEF SeekDelta
    <3> QED
      BY <3>1, <3>2
  <2>5. EndInv'
    <3>1. segs # <<>> => segs[Len(segs)].t1 \in Int
      <4> SUFFICES ASSUME segs # <<>> PROVE segs[Len(segs)].t1 \in Int
        OBVIOUS
      <4>1. Len(segs) \in 1 .. Len(segs)
        BY <2>1
      <4>2. segs[Len(segs)] \in SegmentType
        BY <2>1, <4>1
      <4> QED
        BY <4>2 DEF SegmentType
    <3>2. /\ segs \in Seq(SegmentType) /\ last_end' \in Int
          /\ seek' + DeltaMin < SeekEnd' =>
               last_end' <= seek' /\ (segs # <<>> => segs[Len(segs)].t1 <= seek')
      <4>1. seek \in Int /\ seek' \in Int /\ d.seek_delta \in Int /\ last_end' \in Int
        BY <1>2, <1>4, <2>2, <2>3
      <4>2. last_end' <= seek'
        BY <2>2, <2>3, <4>1
      <4>3. ASSUME seek' + DeltaMin < SeekEnd, segs # <<>>
            PROVE  segs[Len(segs)].t1 <= seek'
        <5>1. PICK t \in Int : t = segs[Len(segs)].t1
          BY <3>1, <4>3
        <5>2. t <= seek + d.seek_delta /\ seek + d.seek_delta <= seek'
          BY <2>1, <2>4, <4>3, <5>1
        <5> QED
          BY <4>1, <5>1, <5>2
      <4> QED
        BY <2>1, <2>2, <2>3, <4>2, <4>3
    <3> QED
      BY <1>1, <3>2 DEF EndInv
  <2>6. SegmentsOrdered'
    <3>1. segs # <<>> => segs[1].t0 \in Int
      <4> SUFFICES ASSUME segs # <<>> PROVE segs[1].t0 \in Int
        OBVIOUS
      <4>1. segs[1] \in SegmentType
        BY <2>1
      <4> QED
        BY <4>1 DEF SegmentType
    <3>2. InOrder(segs) /\ (segs # <<>> => last_end' <= segs[1].t0)
      BY <1>2, <2>1, <2>2, <3>1
    <3> QED
      BY <1>1, <3>2 DEF SegmentsOrdered, InOrder
  <2>7. TimesInv' /\ TidInv'
    BY <1>1 DEF OrderInv, TimesInv, TimesOK, TidInv, Decoding
  <2> QED
    BY <2>5, <2>6, <2>7 DEF OrderInv
<1>6. CASE params.no_timestamps
  <2>1. TimesInv' /\ TidInv'
    BY <1>1 DEF OrderInv, TimesInv, TimesOK, TidInv, Decoding
  <2>2. SegmentsOrdered'
    BY <1>1, <1>6 DEF SegmentsOrdered
  <2>3. EndInv'
    BY <1>1, <1>6 DEF EndInv
  <2> QED
    BY <2>1, <2>2, <2>3 DEF OrderInv
<1> QED
  BY <1>5, <1>6

(* A state that has not been used. *)
LEMMA OrderOfInit == Init => OrderInv
<1> SUFFICES ASSUME Init PROVE OrderInv
  OBVIOUS
<1>1. /\ pc = "idle" /\ dec = [j \in Decoders |-> NewDecoder]
      /\ segments = <<>> /\ last_end = 0
  BY DEF Init
<1>2. TimesInv
  <2>1. TimesOK(NewDecoder)
    BY Sizes DEF TimesOK, NewDecoder
  <2> QED
    BY <1>1, <2>1 DEF TimesInv
<1>3. TidInv /\ EndInv /\ SegmentsOrdered
  BY <1>1 DEF TidInv, EndInv, SegmentsOrdered, InWindow, Decoding
<1> QED
  BY <1>2, <1>3, InitIInv DEF OrderInv

(* Every step keeps the order. *)
LEMMA NextOrder == OrderInv /\ [Next]_vars => OrderInv'
<1> SUFFICES ASSUME OrderInv, [Next]_vars PROVE OrderInv'
  OBVIOUS
<1>0. IInv'
  BY NextIInv DEF OrderInv
<1>1. ASSUME NEW p \in Params,
             Call(p) \/ \E code \in {-2, -3, 0, -4} : CallFails(p, code)
      PROVE  OrderInv'
  BY <1>0, <1>1, OrderOfCall
<1>2. CASE CacheFails \/ DecodePrompt \/ Sample \/ Rank \/ Output
  BY <1>0, <1>2, OrderOfPrompt, OrderOfSample, OrderOfRank, OrderOfOutput
<1>3. CASE Stop \/ EncodeFails \/ Encode
  <2>1. /\ pc = "window" /\ UNCHANGED <<params, seek, dec, segments, last_end, n_decoders_cur>>
        /\ \/ pc' = "idle"
           \/ pc' = "temperature" /\ best_decoder_id' = 0
    BY <1>3 DEF Stop, EncodeFails, Encode, Return, loopVars, decodeVars, resultVars
  <2> QED
    BY <1>0, <2>1, DecodersKept
<1>4. CASE DecodeTokens
  <2>1. /\ pc = "logits" /\ pc' \in {"idle", "sample", "rank"}
        /\ UNCHANGED <<params, seek, dec, segments, last_end, n_decoders_cur, best_decoder_id>>
    BY <1>4 DEF DecodeTokens, Return, resultVars
  <2> QED
    BY <1>0, <2>1, DecodersKept DEF Decoding
<1>5. CASE Fallback
  <2>1. /\ pc = "fallback" /\ pc' \in {"temperature", "output"}
        /\ UNCHANGED <<params, seek, dec, segments, last_end, n_decoders_cur, best_decoder_id>>
    BY <1>5 DEF Fallback, loopVars, resultVars
  <2> QED
    BY <1>0, <2>1, DecodersKept DEF Decoding
<1>6. CASE UNCHANGED vars
  <2>1. UNCHANGED <<pc, params, seek, dec, segments, last_end, n_decoders_cur, best_decoder_id>>
    BY <1>6 DEF vars, loopVars, decodeVars, resultVars
  <2> QED
    BY <1>0, <2>1, DecodersKept
<1> QED
  BY <1>1, <1>2, <1>3, <1>4, <1>5, <1>6 DEF Next, Step, Done

(* No segment begins before the end of the one before it, within a window   *)
(* and from one to the next, for every length of the token sequences and    *)
(* whatever decoders won.                                                   *)
THEOREM SegmentOrder == Spec => []SegmentsOrdered
<1>1. OrderInv => SegmentsOrdered
  BY DEF OrderInv
<1> QED
  BY <1>1, OrderOfInit, NextOrder, PTL DEF Spec
=============================================================================
