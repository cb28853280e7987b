------------------------------ MODULE MCInputs ------------------------------
(* The parts that work on one input at a time: the threshold of a frame,   *)
(* the string of a line, the verdict on a loop.  They share no state, so   *)
(* a behaviour is one of a single part, while the others rest where they   *)
(* begin.                                                                  *)
(*                                                                         *)
(* Five grey levels, eight pixels and counters that wrap at four, as in    *)
(* MCOtsu.  An array of three places and lines of up to four bytes: empty  *)
(* lines, lines that fit, that fill the array and that are too long, with  *)
(* the newlines between some of them lost.  Eight rows of a loop: enough   *)
(* for an open row, the edge coming back, two rows, the bulge with a row   *)
(* on each side of it, and the jumps of the traced edge.                   *)
EXTENDS Otsu, OpenArtLine, LoopJudge

VARIABLE part    \* whose behaviour this is

linkRests == sender = <<0, 0, 0>>

InputsInit ==
  /\ Init /\ LinkInit /\ JudgeInit
  /\ \/ part = "line"
     \/ part \in {"threshold", "loop"} /\ linkRests

InputsNext ==
  /\ UNCHANGED part
  /\ \/ part = "threshold" /\ Next /\ UNCHANGED <<linkVars, judgeVars>>
     \/ part = "line" /\ LinkNext /\ UNCHANGED <<vars, judgeVars>>
     \/ part = "loop" /\ JudgeNext /\ UNCHANGED <<vars, linkVars>>

InputsSpec == InputsInit /\ [][InputsNext]_<<vars, linkVars, judgeVars, part>>

-----------------------------------------------------------------------------
Kind(inner, outer, tag, traced) ==
  [inner |-> inner, outer |-> outer, tag |-> tag, traced |-> traced]

MCRowKinds ==
  {Kind(0, "seen", 4, TRUE),     \* the mouth of the loop
   Kind(1, "seen", 4, TRUE),     \* beside the bulge
   Kind(3, "seen", 1, TRUE),     \* the bulge
   Kind(1, "lost", 4, TRUE),     \* the outer edge is broken
   Kind(0, "rim", 0, FALSE)}     \* a wide row

MCDownLost == {1}
MCDownSeen == {0}
MCCircleBeside == {-1, 1}
MCCircleMin == [left |-> 2, right |-> 1]
MCUpSeen == {1}
MCToppoints == {1}
MCTagToppoints == {0}
=============================================================================
