------------------------------ MODULE LoopJudge ------------------------------
(***************************************************************************)
(* How a loop is recognised (L_loop_judge and R_loop_judge, f_loop.cpp).   *)
(* From the bottom up the judge looks for the row where the inner edge     *)
(* comes back (down), the row where the circle bulges most (circle), the   *)
(* row where the traced edge jumps back to the circle (up) and the one     *)
(* where it jumps back to the road (top); each search starts where the     *)
(* last one ended.  A row that is not found is 0, and nothing tests for    *)
(* that: the verdict reads the flags of row 0 and, for down, of row -1.    *)
(*                                                                         *)
(* The two judges are mirror images, so columns are counted here from the  *)
(* border on the side of the loop: inner is the edge on that side, outer   *)
(* the other one.  Rows come from the road search (Track), tag from the    *)
(* edge traced for the loop; what find_L_tag_toppoint and is_straight_line *)
(* say of the traced edge is an input.                                     *)
(***************************************************************************)
EXTENDS Integers, FiniteSetsExt

CONSTANTS
  Bottom,        \* the lowest row searched, 118
  DownFirst,     \* the search for down begins here, 100
  DownLost,      \* rows below down without the edge, {2, 4, 10, 15}
  DownSeen,      \* rows from down up with it, {0, 2, 4}
  CircleBeside,  \* rows beside circle with less of it, {-4, 4, 6}
  CircleMin,     \* the least column of circle, 20 on the left, 19 on the right
  UpSeen,        \* rows below up on the circle, {2, 4}
  UpStep,        \* the row below up it jumps from, and beside top, 2
  UpJump,        \* the least jump at up, 10
  TopFlat,       \* the most top differs from the row above it, 4
  TopJump,       \* the least jump at top, 18
  TopMax,        \* top lies above this row, 40
  StartLow,      \* the outer edge starts below this row, 90
  InnerMax,      \* the inner edge starts above this row, 80
  Toppoints,     \* f2.toppoint of a frame, 10 .. 110
  TagToppoints,  \* f1.tag_toppoint, 0 or 6 .. 115
  RowKinds       \* what a row may show

ASSUME RowsAssumption ==
  /\ Bottom \in Nat /\ DownFirst \in 1 .. Bottom
  /\ DownLost \subseteq 1 .. Bottom - DownFirst
  /\ Toppoints \subseteq 1 .. Bottom
  /\ TagToppoints \subseteq 0 .. Bottom
ASSUME KindsAssumption ==
  RowKinds \subseteq [inner : Nat, outer : {"seen", "rim", "lost"}, tag : Int,
                     traced : BOOLEAN]
(* The fourth row below down is tested for down and for circle, and the    *)
(* jumps at up and at top are in opposite directions.                      *)
ASSUME TestsAssumption ==
  /\ DownLost \cap CircleBeside # {}
  /\ UpJump \in Nat /\ TopJump \in Nat

Sides == {"left", "right"}

VARIABLES
  row,        \* the row to be searched next, 0 when the frame is complete
  shown,      \* what the rows searched so far show
  loop_flag,  \* f2.L_loop_flag or f2.R_loop_flag
  down,       \* f2.L_loop_down_row or f2.R_loop_down_row
  circle,     \* f2.L_loop_circle_row or f2.R_loop_circle_row
  up,         \* f2.L_loop_up_row or f2.R_loop_up_row
  top         \* f2.L_loop_top_row or f2.R_loop_top_row

verdict == <<loop_flag, down, circle, up, top>>
judgeVars == <<row, shown, verdict>>

JudgeInit ==
  /\ row = Bottom
  /\ shown = [r \in {} |-> 0]
  /\ loop_flag = 0
  /\ down = 0 /\ circle = 0 /\ up = 0 /\ top = 0

-----------------------------------------------------------------------------
(* A row: the inner edge's column, 0 when it is lost; the outer edge, seen *)
(* in the frame, seen at its rim (columns 156 to 159), or lost; the traced *)
(* edge's column, and whether it is seen.  The flags of the rows -1, 0 and *)
(* 119 are never written and stay 0 (leftlineflag[-1] is rightline[119]).  *)
Row(r) ==
  IF r \in 1 .. Bottom THEN shown[r]
  ELSE [inner |-> 0, outer |-> "lost", tag |-> 0, traced |-> FALSE]

InnerSeen == {r \in -1 .. Bottom : Row(r).inner # 0}
OuterSeen == {r \in -1 .. Bottom : Row(r).outer # "lost"}
Traced == {r \in -1 .. Bottom : Row(r).traced}

(* The first row a search from the bottom up meets, 0 when there is none.  *)
FirstOf(S) == IF S = {} THEN 0 ELSE Max(S)

DownRow(toppoint) ==
  FirstOf({i \in toppoint + 1 .. DownFirst :
             /\ \A d \in DownLost : i + d \notin InnerSeen
             /\ \A d \in DownSeen : i - d \in InnerSeen})

CircleRow(side, toppoint, from) ==
  FirstOf({i \in toppoint + 1 .. from :
             /\ Row(i).inner > CircleMin[side]
             /\ \A d \in CircleBeside :
                  i + d \in InnerSeen /\ Row(i).inner > Row(i + d).inner})

UpRow(tag_toppoint, from) ==
  FirstOf({i \in tag_toppoint + 1 .. from :
             /\ \A d \in UpSeen : i + d \in Traced
             /\ Row(i + UpStep).tag - Row(i).tag > UpJump})

TopRow(tag_toppoint, from) ==
  FirstOf({i \in tag_toppoint + 1 .. from :
             /\ {i, i - UpStep} \subseteq Traced
             /\ Row(i).tag - Row(i - UpStep).tag \in -TopFlat .. TopFlat
             /\ Row(i).tag - Row(i + UpStep).tag > TopJump})

(* Bugs: the threshold is 80; bounds in the wrong order are not swapped.   *)
UnbrokenMostly(seen, a, b) ==
  a # b /\ LET rows == Min({a, b}) .. Max({a, b}) - 1
           IN  100 * Cardinality(rows \cap seen) >= 80 * Cardinality(rows)

UnbrokenUnswapped(seen, a, b) == a # b /\ a .. b - 1 \subseteq seen

(* is_L_R_nonlose with the threshold 100.                                  *)
Unbroken(seen, a, b) ==
  a # b /\ Min({a, b}) .. Max({a, b}) - 1 \subseteq seen

OuterStarts ==
  LET start == FirstOf(OuterSeen)
  IN  start = Bottom \/ (start > StartLow /\ Row(start).outer = "rim")

(* One row of find_track_gray and of the trace.                            *)
ScanRow(kind) ==
  /\ row > 0
  /\ row' = row - 1
  /\ shown' = [r \in row .. Bottom |-> IF r = row THEN kind ELSE shown[r]]
  /\ UNCHANGED verdict

(* L_loop_judge and R_loop_judge; straight is is_straight_line.            *)
Judge(side, toppoint, tag_toppoint) ==
  /\ row = 0
  /\ down' = DownRow(toppoint)
  /\ circle' = CircleRow(side, toppoint, down')
  /\ up' = UpRow(tag_toppoint, circle')
  /\ top' = TopRow(tag_toppoint, up')
  /\ \E straight \in BOOLEAN :
       loop_flag' = IF /\ straight
                       /\ OuterStarts
                       /\ FirstOf(InnerSeen) < InnerMax
                       /\ top' < TopMax
                       /\ Unbroken(InnerSeen, down' - 1, circle')
                       /\ Unbroken(OuterSeen, top', FirstOf(OuterSeen))
                    THEN 1 ELSE 0
  /\ UNCHANGED <<row, shown>>

(* The next frame.  The judge begins by setting the rows to 0, and always  *)
(* sets the flag; both are cleared here already.                           *)
NextImage ==
  /\ row = 0
  /\ row' = Bottom
  /\ shown' = [r \in {} |-> 0]
  /\ loop_flag' = 0
  /\ down' = 0 /\ circle' = 0 /\ up' = 0 /\ top' = 0

JudgeNext ==
  \/ \E kind \in RowKinds : ScanRow(kind)
  \/ \E side \in Sides, t \in Toppoints, tt \in TagToppoints :
       Judge(side, t, tt)
  \/ NextImage

JudgeSpec == JudgeInit /\ [][JudgeNext]_judgeVars

-----------------------------------------------------------------------------
(* Properties.                                                             *)

(* A loop is recognised only when all four of its rows were found, in this *)
(* order: 0 for a row that was not found passes top' < TopMax and begins   *)
(* the next search, so it takes the unwritten flags of the rows 0 and -1,  *)
(* met on the way to the last row found, to refuse the verdict.            *)
RowsWereFound ==
  loop_flag = 1 => 0 < top /\ top < up /\ up <= circle /\ circle < down

(* And the image shows it: below down the inner edge is open, above it the *)
(* edge is closed up to the bulge, and the outer edge is in view without a *)
(* gap from its start to the far end of the circle.                        *)
LoopIsThere ==
  loop_flag = 1 =>
    /\ \E gap \in down + 1 .. Bottom : gap \notin InnerSeen
    /\ circle .. down - 2 \subseteq InnerSeen
    /\ top .. FirstOf(OuterSeen) \subseteq OuterSeen
=============================================================================
