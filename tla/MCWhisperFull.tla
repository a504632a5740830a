--------------------------- MODULE MCWhisperFull ---------------------------
(* TLC instances of WhisperFull. Windows of 6 frames with timestamps 0 .. 3 *)
(* (of 4 with several decoders) and DeltaMin = 1 stand for 3000 frames,     *)
(* timestamps 0 .. 1500 and 10.                                             *)
EXTENDS WhisperFull

Default ==
  [strategy |-> "greedy", best_of |-> 1, beam_size |-> 1, n_temps |-> 1,
   cutoff |-> 2, temp0 |-> TRUE, offset |-> 0, duration |-> 8,
   suppress_blank |-> TRUE, max_initial_ts |-> 1,
   n_max_text_ctx |-> 100, max_tokens |-> 0, prompt_n_tokens |-> 0,
   no_timestamps |-> FALSE, single_segment |-> FALSE, no_context |-> FALSE,
   carry_initial_prompt |-> FALSE, dtw |-> FALSE, n_init |-> 4]

(* Greedy, best of 2 decoders after a fallback. *)
Fallbacks == {[Default EXCEPT !.best_of = 2, !.n_temps = 2]}

(* Beam search with a narrower fallback. *)
Beams == {[Default EXCEPT !.strategy = "beam_search", !.beam_size = 2,
                          !.n_temps = 2, !.max_initial_ts = 0]}

(* One decoder, long token sequences, every option of the call; no audio;   *)
(* more decoders than there are.                                            *)
Singles ==
  {[Default EXCEPT !.max_tokens = m, !.single_segment = s,
                   !.max_initial_ts = 0] : m \in {0, 2}, s \in BOOLEAN}
  \cup {[Default EXCEPT !.offset = 3, !.suppress_blank = FALSE],
        [Default EXCEPT !.no_timestamps = TRUE]}
  \cup {[Default EXCEPT !.duration = 0], [Default EXCEPT !.best_of = 2]}

(* Initial prompts that are longer than the budget or leave room, carried   *)
(* to every window or not; a call that forgets the context.                 *)
Prompts ==
  {[Default EXCEPT !.carry_initial_prompt = TRUE, !.prompt_n_tokens = n] :
     n \in {1, 9}}
  \cup {[Default EXCEPT !.prompt_n_tokens = 9], [Default EXCEPT !.no_context = TRUE]}

Dtw == {[Default EXCEPT !.dtw = TRUE]}

(* What two calls on one state may ask for, and what several decoders may. *)
Calls == Singles \cup Prompts
Searches == Fallbacks \cup Beams
=============================================================================
