----------------------------- MODULE MCElements -----------------------------
(* A scaled lap.  Two thresholds that are compared with the same distance  *)
(* in the same state keep the order they have in the code; thresholds that *)
(* never compete share a value (LoopGate and ForkGate, which belong to     *)
(* different legs; RampOut and RampBack, which belong to different         *)
(* counts), and "exceeded" thresholds start at zero.                       *)
EXTENDS Elements
=============================================================================
