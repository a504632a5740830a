----------------------------- MODULE MCStream -----------------------------
(* TLC instance of Stream: a ring of 5 samples; steps of 2 and 1, the       *)
(* latter with a line of four windows, and no step.                         *)
EXTENDS Stream

StepKeep(s, k) == [step |-> s, keep |-> k]
AllParams == {StepKeep(2, 1), StepKeep(2, 2), StepKeep(1, 1), StepKeep(0, 0)}
=============================================================================
