---------------------------- MODULE MCThreadPool ----------------------------
(* TLC instance of ThreadPool.                                              *)
EXTENDS ThreadPool

(* The last node may or may not need code; two ops in a row; no node at     *)
(* all; the final barrier only.                                             *)
OpGraphs == {<<"op", "nop", "op">>, <<"op", "nop">>, <<>>, <<"op">>}

(* Two MUL_MATs in a row reuse current_chunk; the second one may come after *)
(* a node without a barrier.                                                *)
MulMatGraphs == {<<"mul_mat", "mul_mat">>, <<"op", "nop", "mul_mat">>}

AllGraphs == OpGraphs \cup MulMatGraphs
=============================================================================
