----------------------------- MODULE MCNesTick -----------------------------
(* NesTick on a small frame.  The history counters are bounded by the      *)
(* invariants, so no constraint is needed.                                 *)
EXTENDS NesTick
=============================================================================
