------------------------------ MODULE KVCache ------------------------------
(***************************************************************************)
(* The self-attention cache of a whisper_state while whisper_full decodes  *)
(* (src/whisper.cpp): the prompt is decoded once and shared by all         *)
(* decoders, every live decoder adds a token per step, and beam search     *)
(* moves whole histories between decoders by relabelling cells.            *)
(*                                                                         *)
(* A cell records which token was decoded into it, named by the step and   *)
(* the decoder; the program keeps the token's keys and values there.  The  *)
(* scores that choose parents and end sequences are left open.             *)
(***************************************************************************)
EXTENDS KVSlots, SequencesExt

CONSTANTS
  NTextCtx,      \* n_text_ctx
  NDec,          \* WHISPER_MAX_DECODERS
  PromptSizes    \* the lengths a prompt may have

ASSUME KVAssumption ==
  /\ NTextCtx \in Nat /\ NDec \in Nat \ {0}
  /\ PromptSizes \subseteq 1 .. NTextCtx \div 2 + 4

Decs == 0 .. NDec - 1
NMax == NTextCtx \div 2 - 4

VARIABLES
  n_dec,      \* kv_self_n_dec: the decoders the cache has been sized for
  cells,      \* kv_self.cells
  head,       \* kv_self.head
  n,          \* kv_self.n: the cells a graph attends to
  phase,      \* idle, sample or decode
  live,       \* the decoders neither completed nor failed
  i,          \* the sampling step
  beam,       \* whether the strategy is beam search
  sequence,   \* the tokens of every decoder, behind those of the prompt
  batch       \* the batch decoded last, until the cells are relabelled

vars == <<n_dec, cells, head, n, phase, live, i, beam, sequence, batch>>
-----------------------------------------------------------------------------
(* A plausible slip: the cache is never sized for more than one sequence. *)
FactorOne(d) == 1

(* "overallocate to workaround KV cache fragmentation issues" *)
Factor(d) == IF d > 1 THEN d + 2 ELSE 1

SizeFor(d) == NTextCtx * Factor(d)
FreeCell == [pos |-> -1, seq_id |-> {}, tok |-> <<>>]
Clear(d) == [c \in 0 .. SizeFor(d) - 1 |-> FreeCell]
InUse(cs) == {c \in DOMAIN cs : cs[c].pos >= 0}

(* whisper_kv_cache_seq_cp, to every sequence of dsts, and _seq_rm, both    *)
(* over all positions.                                                      *)
SeqCp(cs, src, dsts) ==
  [c \in DOMAIN cs |-> IF src \in cs[c].seq_id
                       THEN [cs[c] EXCEPT !.seq_id = @ \cup dsts] ELSE cs[c]]

SeqRm(cs, s) ==
  [c \in DOMAIN cs |-> IF cs[c].seq_id = {s} THEN FreeCell
                       ELSE [cs[c] EXCEPT !.seq_id = @ \ {s}]]

(* whisper_kv_cache_seq_rm leaves head at the first cell it frees. *)
HeadAfterRm(cs, s) ==
  LET freed == {c \in DOMAIN cs : cs[c].seq_id = {s}}
  IN  IF freed = {} THEN head ELSE Min(freed)

CellMax(cs) == Max({1} \cup {c + 1 : c \in InUse(cs)})

-----------------------------------------------------------------------------
(* whisper_decode_internal puts a batch into a slot and has the graph       *)
(* attend to the first n cells, up to the last one in use.  A token of a    *)
(* batch is the last of its history hist, at position Len(hist) - 1.        *)
SlotFor(cs, h, k, d) == FindSlot(SizeFor(d), InUse(cs), h, k)

Filled(cs, slot, b) ==
  [c \in DOMAIN cs |->
     IF c \in slot .. slot + Len(b) - 1
     THEN LET t == b[c - slot + 1]
          IN  [pos |-> Len(t.hist) - 1, seq_id |-> {t.seq}, tok |-> Last(t.hist)]
     ELSE cs[c]]

(* whisper_decode_internal on the cells cs: it reports success only when it *)
(* found a slot and computed the graph.  The new cells are then shared with *)
(* the sequences in heirs.  A search that finds no slot leaves head         *)
(* somewhere, and no graph is computed.                                     *)
Decode(cs, h, b, heirs, success) ==
  LET slot == SlotFor(cs, h, Len(b), n_dec')
      new  == Filled(cs, slot, b)
  IN  IF slot # NoSlot
      THEN /\ cells' = SeqCp(new, 0, heirs)
           /\ head' = IF heirs = {} THEN slot ELSE 0
           /\ n' = CellMax(new) /\ batch' = b
      ELSE /\ ~success
           /\ cells' = cs /\ head' \in 0 .. SizeFor(n_dec')
           /\ n' = n /\ batch' = <<>>

-----------------------------------------------------------------------------
Init ==
  /\ n_dec = 1 /\ cells = Clear(1) /\ head = 0 /\ n = 0
  /\ phase = "idle" /\ live = {} /\ i = 0 /\ beam \in BOOLEAN
  /\ sequence = [j \in Decs |-> <<>>] /\ batch = <<>>

Prompt(p) == [k \in 1 .. p |-> <<-1, k>>]
PromptBatch(p) == [k \in 1 .. p |-> [hist |-> SubSeq(Prompt(p), 1, k), seq |-> 0]]

(* whisper_lang_auto_detect decodes one token on what the last call left.   *)
DetectLanguage ==
  /\ phase = "idle"
  /\ n_dec' = n_dec
  /\ Decode(SeqRm(cells, 0), HeadAfterRm(cells, 0), PromptBatch(1), {}, FALSE)
  /\ UNCHANGED <<phase, live, i, beam, sequence>>

(* A window with d decoders begins: the cache is recreated if it has been   *)
(* sized for fewer, and cleared; the prompt is decoded as sequence 0 and    *)
(* its cells are shared by the other decoders.                              *)
DecodePrompt(success) ==
  \E d \in 1 .. NDec, p \in PromptSizes :
    /\ phase = "idle"
    /\ n_dec' = IF n_dec < d THEN d ELSE n_dec
    /\ Decode(Clear(n_dec'), 0, PromptBatch(p),
              IF success THEN 1 .. d - 1 ELSE {}, success)
    /\ sequence' = [j \in Decs |-> IF j < d THEN Prompt(p) ELSE <<>>]
    /\ live' = IF success THEN 0 .. d - 1 ELSE {}
    /\ phase' = IF success THEN "sample" ELSE "idle"
    /\ i' = 0
    /\ beam' \in BOOLEAN

-----------------------------------------------------------------------------
(* The loops over the decoders pass by those that have ended. *)
ForEachLive(Body(_, _), start) ==
  LET after[k \in 0 .. NDec] ==
        IF k = 0 THEN start
        ELSE IF k - 1 \in live THEN Body(after[k - 1], k - 1)
        ELSE after[k - 1]
  IN  after[NDec]

(* A plausible slip: histories are moved in place, one decoder at a time. *)
MovedInPlace(parent) ==
  ForEachLive(LAMBDA cs, j : IF parent[j] = j THEN cs
                             ELSE SeqCp(SeqRm(cs, j), parent[j], {j}), cells)

(* Beam search gives the live decoders the histories of their parents: all  *)
(* are first copied to sequences of their own, WHISPER_MAX_DECODERS + j.    *)
Marked(parent) ==
  ForEachLive(LAMBDA cs, j : SeqCp(cs, parent[j], {NDec + j}), cells)

Moved(parent) ==
  ForEachLive(LAMBDA cs, j : SeqRm(SeqCp(SeqRm(cs, j), NDec + j, {j}), NDec + j),
              Marked(parent))

(* Any live decoders go on, with histories of any live parents.             *)
Sample ==
  /\ phase = "sample" /\ i < NMax
  /\ \E parent \in [live -> live], on \in SUBSET live :
       /\ beam \/ \A j \in live : parent[j] = j
       /\ cells' = IF beam THEN Moved(parent) ELSE cells
       /\ head' = IF beam THEN 0 ELSE head
       /\ sequence' = [j \in Decs |->
            IF j \in live THEN Append(sequence[parent[j]], <<i, j>>)
            ELSE sequence[j]]
       /\ live' = on
       /\ phase' = IF on = {} THEN "idle" ELSE "decode"
  /\ batch' = <<>>
  /\ UNCHANGED <<n_dec, n, i, beam>>

LiveBatch ==
  ForEachLive(LAMBDA b, j : Append(b, [hist |-> sequence[j], seq |-> j]), <<>>)

DecodeTokens(success) ==
  /\ phase = "decode"
  /\ n_dec' = n_dec
  /\ Decode(cells, head, LiveBatch, {}, success)
  /\ phase' = IF success THEN "sample" ELSE "idle"
  /\ i' = i + 1
  /\ live' = IF success THEN live ELSE {}
  /\ UNCHANGED <<beam, sequence>>

(* The window has used up its steps. *)
EndWindow ==
  /\ phase = "sample" /\ i = NMax
  /\ phase' = "idle" /\ live' = {} /\ batch' = <<>>
  /\ UNCHANGED <<n_dec, cells, head, n, i, beam, sequence>>

Next ==
  \/ DetectLanguage \/ DecodePrompt(TRUE) \/ DecodePrompt(FALSE)
  \/ Sample \/ DecodeTokens(TRUE) \/ DecodeTokens(FALSE) \/ EndWindow

Spec == Init /\ [][Next]_vars

-----------------------------------------------------------------------------
Attended(t) == {c \in 0 .. n - 1 : t.seq \in cells[c].seq_id
                                  /\ cells[c].pos <= Len(t.hist) - 1}

(* Every token a graph decodes attends to its own decoder's history, each   *)
(* token of it once, and to nothing else: whatever histories beam search    *)
(* has moved, whichever decoders have ended and wherever the slots lie (the *)
(* mask of whisper_decode_internal).                                        *)
AttendsOwnHistory ==
  \A t \in Range(batch) :
    /\ Cardinality(Attended(t)) = Len(t.hist)
    /\ \A c \in Attended(t) : t.hist[cells[c].pos + 1] = cells[c].tok

(* The live decoders' next tokens find a slot, however the cells that beam  *)
(* search and ended decoders left behind are spread (the over-allocated     *)
(* size of the cache).                                                      *)
SlotAlwaysFound ==
  phase = "decode" =>
    SlotFor(cells, head, Cardinality(live), n_dec) # NoSlot

(* The search of whisper_kv_cache_find_slot for the next batch would find a *)
(* slot exactly when there is one wherever head lay, so that where slots    *)
(* and releases have left it does not matter.                               *)
SlotFoundIffFree ==
  phase = "decode" =>
    \A h \in DOMAIN cells :
      SearchExact(SizeFor(n_dec), InUse(cells), h, Cardinality(live))
=============================================================================
