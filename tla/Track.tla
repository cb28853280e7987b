-------------------------------- MODULE Track --------------------------------
(***************************************************************************)
(* The road in a frame (f_elems.cpp): find_track_gray goes through the     *)
(* rows of the black and white image from the bottom up, looks from one    *)
(* column to the left and to the right for the edges of the road, and      *)
(* midline_proc2 derives the centre of the row from them and with it the   *)
(* column the next row is searched from.  find_toppoint then looks for the *)
(* row where the centre line leaves the road.                              *)
(*                                                                         *)
(* A row of the image is the set of its white columns.  The arrays of the  *)
(* code hold the rows of the frame scanned so far: what the last frame     *)
(* left in the others is overwritten before it is read, which TLC and the  *)
(* prover confirm, since the functions below are not defined there.        *)
(***************************************************************************)
EXTENDS Integers, FiniteSetsExt

CONSTANTS
  W,           \* columns of a frame, 160 in the code
  Bottom,      \* the lowest row searched, 118
  CarryRow,    \* below this row the centre is never carried over, 99
  LookBack,    \* the rows below that tell a crossroads, {8, 11, 15}
  TopFirst,    \* find_toppoint begins here, 115
  TopLast,     \* and ends here, 6
  TopMin,      \* the least toppoint, 10
  TopMax,      \* the largest toppoint, 110
  StartMin,    \* the leftmost column a frame is searched from, 10
  StartMax,    \* the rightmost one, 150
  RowImages    \* the rows an image may be made of

ASSUME SizeAssumption ==
  /\ W \in Nat /\ W > 6
  /\ Bottom \in Nat \ {0}
  /\ RowImages \subseteq SUBSET (0 .. W - 1)
ASSUME LookBackAssumption ==
  /\ CarryRow \in Nat
  /\ LookBack \subseteq Nat \ {0}
  /\ \A d \in LookBack : CarryRow - 1 + d <= Bottom
ASSUME TopAssumption ==
  /\ {TopFirst, TopLast, TopMin, TopMax} \subseteq 1 .. Bottom
  /\ TopLast > 2
  /\ TopMin <= TopMax
ASSUME StartAssumption ==
  /\ {StartMin, StartMax} \subseteq 0 .. W - 1
  /\ W \div 2 \in StartMin .. StartMax

VARIABLES
  stage,          \* "scan" while rows are searched, "done" after
  row,            \* the row to be searched next, 0 when none is left
  column_start,   \* f2.column_start
  fork,           \* f2.fork_sm_state # 0
  white,          \* the rows of the image, for those searched
  leftline,       \* f1.leftline
  leftlineflag,   \* f1.leftlineflag: the left edge is in view
  rightline,      \* f1.rightline
  rightlineflag,  \* f1.rightlineflag
  midline,        \* f1.midline
  leftstartrow,   \* f1.leftstartrow: the lowest row with a left edge
  rightstartrow,  \* f1.rightstartrow
  toppoint,       \* f2.toppoint
  from            \* history: the column each row was searched from

edges == <<leftline, leftlineflag, rightline, rightlineflag>>
vars == <<stage, row, column_start, fork, white, edges, midline,
          leftstartrow, rightstartrow, toppoint, from>>

Columns == 0 .. W - 1
Scanned == row + 1 .. Bottom

TypeOK ==
  /\ stage \in {"scan", "done"}
  /\ row \in 0 .. Bottom
  /\ column_start \in Columns
  /\ fork \in BOOLEAN
  /\ white \in [Scanned -> RowImages]
  /\ leftline \in [Scanned -> Columns]
  /\ leftlineflag \in [Scanned -> {0, 1}]
  /\ rightline \in [Scanned -> Columns]
  /\ rightlineflag \in [Scanned -> {0, 1}]
  /\ midline \in [Scanned -> Columns]
  /\ leftstartrow \in {0} \cup Scanned
  /\ rightstartrow \in {0} \cup Scanned
  /\ toppoint \in 0 .. Bottom
  /\ from \in [Scanned -> Columns]

NoRows == [r \in {} |-> 0]

Init ==
  /\ stage = "scan" /\ row = Bottom
  /\ column_start = W \div 2
  /\ fork = FALSE
  /\ white = NoRows /\ midline = NoRows /\ from = NoRows
  /\ leftline = NoRows /\ leftlineflag = NoRows
  /\ rightline = NoRows /\ rightlineflag = NoRows
  /\ leftstartrow = 0 /\ rightstartrow = 0
  /\ toppoint = 0

(* f extended with the row above those it holds.                           *)
With(f, x) == [r \in row .. Bottom |-> IF r = row THEN x ELSE f[r]]

-----------------------------------------------------------------------------
(* The edges find_track_gray sees in a row img from column k: two white    *)
(* columns and a black one, never in the two columns at the frame's border.*)
LeftEdges(img, k) ==
  {j \in 3 .. k : j \in img /\ j - 1 \in img /\ j - 2 \notin img}
RightEdges(img, k) ==
  {j \in k .. W - 4 : j \in img /\ j + 1 \in img /\ j + 2 \notin img}

(* A bug: the farthest edge instead of the nearest one.                    *)
FindLeftFarthest(img, k, line, flag) ==
  \/ LeftEdges(img, k) = {} /\ flag = 0 /\ line = 0
  \/ flag = 1 /\ line + 1 \in LeftEdges(img, k)
     /\ \A j \in LeftEdges(img, k) : j >= line + 1

FindLeft(img, k, line, flag) ==
  \/ LeftEdges(img, k) = {} /\ flag = 0 /\ line = 0
  \/ flag = 1 /\ line + 1 \in LeftEdges(img, k)
     /\ \A j \in LeftEdges(img, k) : j <= line + 1

FindRight(img, k, line, flag) ==
  \/ RightEdges(img, k) = {} /\ flag = 0 /\ line = W - 1
  \/ flag = 1 /\ line - 1 \in RightEdges(img, k)
     /\ \A j \in RightEdges(img, k) : j >= line - 1

(* midline_proc2: a crossroads is below when both edges were lost there.   *)
CrossBelow ==
  \E d \in LookBack : leftlineflag[row + d] = 0 /\ rightlineflag[row + d] = 0

(* The centre of the row below is kept where both edges are lost, and on   *)
(* the way out of a crossroads while the one edge in view does not move    *)
(* away from the road.                                                     *)
Carries(l, lf, r, rf) ==
  \/ lf = 0 /\ rf = 0 /\ row < Bottom
  \/ /\ row < CarryRow
     /\ \/ lf = 0 /\ rf = 1 /\ r <= rightline[row + 1]
        \/ lf = 1 /\ rf = 0 /\ l >= leftline[row + 1]
     /\ CrossBelow

Centre(l, lf, r, rf) ==
  IF lf = 0 /\ rf = 0 /\ row = Bottom THEN W \div 2
  ELSE IF Carries(l, lf, r, rf) THEN midline[row + 1]
  ELSE (l + r) \div 2

Limit(x, lo, hi) == IF x < lo THEN lo ELSE IF x > hi THEN hi ELSE x

(* A bug: every row is searched from where the row below was.              *)
NextStartFixed(mid, width) == column_start

(* In a fork both tests on fork2_dir hold (it is never set), and the       *)
(* second assignment is the one that stays.                                *)
NextStart(mid, width) ==
  IF fork THEN Limit(mid + width \div 3, 0, W - 1) ELSE mid

(* A bug: the start row follows the edge up.                               *)
StartRowLast(start, flag) == IF flag = 1 THEN row ELSE start

StartRow(start, flag) == IF start = 0 /\ flag = 1 THEN row ELSE start

(* One row of find_track_gray, with its call of midline_proc2.             *)
ScanRow(img) ==
  /\ stage = "scan"
  /\ row > 0
  /\ \E l \in Columns, lf \in {0, 1} :
       /\ FindLeft(img, column_start, l, lf)
       /\ leftline' = With(leftline, l)
       /\ leftlineflag' = With(leftlineflag, lf)
       /\ leftstartrow' = StartRow(leftstartrow, lf)
       /\ \E r \in Columns, rf \in {0, 1} :
            LET mid == Centre(l, lf, r, rf)
            IN  /\ FindRight(img, column_start, r, rf)
                /\ rightline' = With(rightline, r)
                /\ rightlineflag' = With(rightlineflag, rf)
                /\ rightstartrow' = StartRow(rightstartrow, rf)
                /\ midline' = With(midline, mid)
                /\ column_start' = NextStart(mid, r - l)
  /\ white' = With(white, img)
  /\ from' = With(from, column_start)
  /\ row' = row - 1
  /\ UNCHANGED <<stage, fork, toppoint>>

-----------------------------------------------------------------------------
(* find_toppoint: the rows where the centre line meets the border of the   *)
(* frame or the end of the white.                                          *)
TopRows ==
  {r \in TopLast .. TopFirst :
     \/ midline[r] \in {0, W - 1}
     \/ /\ midline[r] \in white[r]
        /\ midline[r] \notin white[r - 1] \cap white[r - 2]}

(* A bug: the search goes down instead of up.                              *)
FindToppointDown(t) ==
  \/ TopRows = {} /\ t = toppoint
  \/ t \in TopRows /\ \A r \in TopRows : r >= t

(* When there is none, the row of an earlier frame stays.                  *)
FindToppoint(t) ==
  \/ TopRows = {} /\ t = toppoint
  \/ t \in TopRows /\ \A r \in TopRows : r <= t

(* find_track_gray is through with the rows.                               *)
ScanEnds ==
  /\ stage = "scan"
  /\ row = 0
  /\ stage' = "done"
  /\ column_start' = midline[Bottom]
  /\ \E t \in 0 .. Bottom :
       FindToppoint(t) /\ toppoint' = Limit(t, TopMin, TopMax)
  /\ UNCHANGED <<row, fork, white, edges, midline, leftstartrow,
                 rightstartrow, from>>

(* find_track_gray is called: every row is searched anew.                  *)
SearchAgain ==
  /\ stage = "done"
  /\ stage' = "scan" /\ row' = Bottom
  /\ white' = NoRows /\ midline' = NoRows /\ from' = NoRows
  /\ leftline' = NoRows /\ leftlineflag' = NoRows
  /\ rightline' = NoRows /\ rightlineflag' = NoRows
  /\ leftstartrow' = 0 /\ rightstartrow' = 0
  /\ UNCHANGED toppoint

(* find_elements and find_post_proc, which may move the centre line and    *)
(* begin or end a fork, or RESET; then the next frame comes.               *)
NextFrame ==
  /\ SearchAgain
  /\ column_start' \in StartMin .. StartMax
  /\ fork' \in BOOLEAN

(* task_ctrl in a position loop, for which nothing but the road is looked  *)
(* for, and set_fork_flag, which searches the same frame once more:        *)
(* neither passes find_post_proc, and column_start stays as ScanEnds left  *)
(* it, unless a RESET not yet served puts it in the middle.                *)
ScanAgain ==
  /\ SearchAgain
  /\ column_start' \in {column_start, W \div 2}
  /\ fork' \in {fork, TRUE}

Next ==
  \/ \E img \in RowImages : ScanRow(img)
  \/ ScanEnds
  \/ NextFrame
  \/ ScanAgain

Spec == Init /\ [][Next]_vars

-----------------------------------------------------------------------------
(* Properties.                                                             *)

(* On any image the edges of a row enclose the column it was searched      *)
(* from, and the centre the car is steered by lies between them, carried   *)
(* over or not.  (In a fork the search moves aside from the centre line,   *)
(* so a centre carried over may be left of the left edge.)                 *)
CentreBetween ==
  \A r \in Scanned :
    /\ leftline[r] <= from[r] /\ from[r] <= rightline[r]
    /\ leftline[r] < rightline[r]
    /\ ~fork => leftline[r] <= midline[r] /\ midline[r] <= rightline[r]

(* The step aside in a fork stays between the edges of the row below.      *)
ForkStaysBetween ==
  \A r \in Scanned :
    r < Bottom /\ leftlineflag[r + 1] = 1 /\ rightlineflag[r + 1] = 1 =>
      leftline[r + 1] < from[r] /\ from[r] < rightline[r + 1]

InView == 2 .. W - 3

(* img holds the road a .. b around column k.                              *)
RoadAround(img, k, a, b) ==
  /\ a < k /\ k < b
  /\ a .. b \subseteq img
  /\ a - 1 \notin img /\ b + 1 \notin img

(* Whatever else is white in the row, the road in view around the column   *)
(* it is searched from is found exactly, from edge to edge, and outside a  *)
(* fork the next row is searched from its centre: a road whose centre in   *)
(* each row lies on the road of the next row is followed all the way up.   *)
RoadFollowed ==
  \A r \in Scanned : \A a, b \in InView :
    RoadAround(white[r], from[r], a, b) =>
      /\ leftlineflag[r] = 1 /\ rightlineflag[r] = 1
      /\ leftline[r] = a /\ rightline[r] = b
      /\ midline[r] = (a + b) \div 2
      /\ ~fork /\ r - 1 \in Scanned => from[r - 1] = (a + b) \div 2

(* An edge that is not flagged is nowhere between the search column and    *)
(* the border: the flags, from which loops, forks and crossings are        *)
(* recognised, do not lie.                                                 *)
LostMeansLost ==
  \A r \in Scanned :
    /\ leftlineflag[r] = 0 =>
         \A j \in 1 .. from[r] - 2 :
           ~(j \notin white[r] /\ {j + 1, j + 2} \subseteq white[r])
    /\ rightlineflag[r] = 0 =>
         \A j \in from[r] + 2 .. W - 2 :
           ~(j \notin white[r] /\ {j - 1, j - 2} \subseteq white[r])

(* The start rows are the lowest rows with an edge in view.                *)
StartRowsLowest ==
  /\ \A r \in Scanned : leftlineflag[r] = 1 => r <= leftstartrow
  /\ \A r \in Scanned : rightlineflag[r] = 1 => r <= rightstartrow
  /\ leftstartrow # 0 => leftlineflag[leftstartrow] = 1
  /\ rightstartrow # 0 => rightlineflag[rightstartrow] = 1

(* On a straight road that ends in black, the top point is the row below   *)
(* the last row of the road, whatever an earlier frame left there.         *)
ToppointIsRoadsEnd ==
  stage = "done" /\ ~fork =>
  \A e \in TopLast .. TopFirst - 1 : \A a, b \in InView :
    /\ \A r \in Scanned : IF r < e THEN white[r] = {}
                                   ELSE white[r] = a .. b
    /\ RoadAround(a .. b, from[Bottom], a, b)
    => toppoint = Limit(e + 1, TopMin, TopMax)
=============================================================================
