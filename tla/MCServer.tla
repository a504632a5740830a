------------------------------ MODULE MCServer ------------------------------
(* TLC instance of Server: one model that is multilingual, one that is not. *)
EXTENDS Server

CONSTANTS r1, r2, base, base_en

TwoRequests == {r1, r2}
BothModels == {base, base_en}

Inference(file, fields) ==
  [kind |-> "inference", file |-> file, speech |-> TRUE, fields |-> fields]
Silence == [Inference(TRUE, {}) EXCEPT !.speech = FALSE]
Load(m) == [kind |-> "load", model |-> m]

(* Fields that may throw, with and without others before and after them; a  *)
(* detected language; audio without speech; no file; loads of a model that  *)
(* replaces the first, is missing, cannot be initialized or is not named.   *)
AllInputs ==
  {Inference(TRUE, {"language", "temperature"}),
   Inference(TRUE, {"translate", "detect_language"}), Silence,
   Inference(FALSE, {"language"}),
   Load(base_en), Load("missing"), Load("broken"), Load("no_field"),
   [kind |-> "health"]}
=============================================================================
