------------------------------- MODULE MCOtsu -------------------------------
(* Five grey levels, eight pixels and counters that wrap at four, so that  *)
(* a frame of one colour wraps to an empty histogram as 120 * 160 pixels   *)
(* do at 256: one colour, adjacent and distant colours, ties between       *)
(* levels, gaps, and levels lost from the histogram all occur.             *)
EXTENDS Otsu
=============================================================================
