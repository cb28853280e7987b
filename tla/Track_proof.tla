----------------------------- MODULE Track_proof -----------------------------
(***************************************************************************)
(* Proofs about Track for frames of every size and every image.  The       *)
(* invariant says row by row what the search and midline_proc2 left in the *)
(* arrays and where the search of the next row began; the properties       *)
(* follow from it without looking at the steps again.                      *)
(***************************************************************************)
EXTENDS Track, WellFoundedInduction, TLAPS

FoundOK ==
  \A r \in Scanned :
    /\ FindLeft(white[r], from[r], leftline[r], leftlineflag[r])
    /\ FindRight(white[r], from[r], rightline[r], rightlineflag[r])

(* The centre of a row is half way between its edges, or the centre of the *)
(* row below unless both edges are in view.                                *)
CentreOK ==
  \A r \in Scanned :
    \/ midline[r] = (leftline[r] + rightline[r]) \div 2
    \/ leftlineflag[r] = 0 /\ rightlineflag[r] = 0 /\ r = Bottom
       /\ midline[r] = W \div 2
    \/ r < Bottom /\ midline[r] = midline[r + 1]
       /\ ~(leftlineflag[r] = 1 /\ rightlineflag[r] = 1)

LinkOK ==
  /\ \A r \in Scanned :
       r < Bottom =>
         from[r] = NextStart(midline[r + 1], rightline[r + 1] - leftline[r + 1])
  /\ stage = "scan" /\ row < Bottom =>
       column_start =
         NextStart(midline[row + 1], rightline[row + 1] - leftline[row + 1])

IInv == TypeOK /\ FoundOK /\ CentreOK /\ LinkOK

-----------------------------------------------------------------------------
(* The edges a search finds are in the row's image, on their sides of the  *)
(* column searched from.                                                   *)
LEMMA LeftFound ==
  ASSUME NEW img, NEW k \in Columns, NEW l \in Columns, NEW lf \in {0, 1},
         FindLeft(img, k, l, lf)
  PROVE  /\ l <= k
         /\ lf = 0 => l = 0 /\ LeftEdges(img, k) = {}
         /\ lf = 1 => l < k /\ l + 1 \in LeftEdges(img, k)
                      /\ \A j \in LeftEdges(img, k) : j <= l + 1
BY SizeAssumption DEF FindLeft, LeftEdges, Columns

LEMMA RightFound ==
  ASSUME NEW img, NEW k \in Columns, NEW r \in Columns, NEW rf \in {0, 1},
         FindRight(img, k, r, rf)
  PROVE  /\ k <= r
         /\ rf = 0 => r = W - 1 /\ RightEdges(img, k) = {}
         /\ rf = 1 => k < r /\ r - 1 \in RightEdges(img, k)
                      /\ \A j \in RightEdges(img, k) : j >= r - 1
BY SizeAssumption DEF FindRight, RightEdges, Columns

(* The edges of one row lie apart, whichever of them were found.           *)
LEMMA EdgesApart ==
  ASSUME NEW img, NEW k \in Columns, NEW l \in Columns, NEW r \in Columns,
         NEW lf \in {0, 1}, NEW rf \in {0, 1},
         FindLeft(img, k, l, lf), FindRight(img, k, r, rf)
  PROVE  l < r
<1>1. l <= k /\ (lf = 0 => l = 0) /\ (lf = 1 => l < k)
  BY LeftFound
<1>2. k <= r /\ (rf = 0 => r = W - 1) /\ (rf = 1 => k < r)
  BY RightFound
<1> QED BY <1>1, <1>2, SizeAssumption DEF Columns

LEMMA CentreIsColumn ==
  ASSUME TypeOK, row > 0,
         NEW l \in Columns, NEW r \in Columns,
         NEW lf \in {0, 1}, NEW rf \in {0, 1}
  PROVE  /\ Centre(l, lf, r, rf) \in Columns
         /\ \/ Centre(l, lf, r, rf) = (l + r) \div 2
            \/ lf = 0 /\ rf = 0 /\ row = Bottom
               /\ Centre(l, lf, r, rf) = W \div 2
            \/ row < Bottom /\ Centre(l, lf, r, rf) = midline[row + 1]
               /\ ~(lf = 1 /\ rf = 1)
<1>1. W \div 2 \in Columns /\ (l + r) \div 2 \in Columns
  BY SizeAssumption DEF Columns
<1>2. ASSUME Carries(l, lf, r, rf)
      PROVE  row < Bottom /\ ~(lf = 1 /\ rf = 1)
  <2>1. ~(lf = 1 /\ rf = 1)
    BY <1>2 DEF Carries
  <2>2. CASE lf = 0 /\ rf = 0 /\ row < Bottom
    BY <2>1, <2>2
  <2>3. CASE row < CarryRow /\ CrossBelow
    <3>1. PICK d \in LookBack : TRUE
      BY <2>3 DEF CrossBelow
    <3>2. d \in Nat /\ d # 0 /\ CarryRow - 1 + d <= Bottom /\ CarryRow \in Nat
      BY <3>1, LookBackAssumption
    <3>3. row < Bottom
      BY <2>3, <3>2, SizeAssumption DEF TypeOK
    <3> QED BY <2>1, <3>3
  <2> QED BY <1>2, <2>2, <2>3 DEF Carries
<1>3. ASSUME row < Bottom PROVE midline[row + 1] \in Columns
  BY <1>3, SizeAssumption DEF TypeOK, Scanned
<1> QED BY <1>1, <1>2, <1>3 DEF Centre

LEMMA NextStartIsColumn ==
  ASSUME fork \in BOOLEAN, NEW mid \in Columns, NEW width \in Int
  PROVE  NextStart(mid, width) \in Columns
BY SizeAssumption DEF NextStart, Limit, Columns

-----------------------------------------------------------------------------
LEMMA InitInv == Init => IInv
<1> SUFFICES ASSUME Init PROVE IInv
  OBVIOUS
<1>1. Scanned = {}
  BY SizeAssumption DEF Init, Scanned
<1>2. TypeOK
  <2>1. fork \in BOOLEAN
    BY Zenon DEF Init
  <2> QED BY <1>1, <2>1, SizeAssumption DEF Init, TypeOK, NoRows, Columns
<1>3. FoundOK /\ CentreOK /\ LinkOK
  BY <1>1, SizeAssumption DEF Init, FoundOK, CentreOK, LinkOK
<1> QED BY <1>2, <1>3 DEF IInv

LEMMA ScanRowInv ==
  ASSUME IInv, NEW img \in RowImages, ScanRow(img) PROVE IInv'
<1> USE SizeAssumption
<1>1. /\ row \in 1 .. Bottom /\ Bottom \in Nat /\ stage = "scan"
      /\ row' = row - 1 /\ stage' = stage /\ fork' = fork
      /\ toppoint' = toppoint
      /\ Scanned = row + 1 .. Bottom /\ Scanned' = row .. Bottom
  BY DEF IInv, TypeOK, ScanRow, Scanned
<1>2. PICK l \in Columns, r \in Columns, lf \in {0, 1}, rf \in {0, 1} :
        /\ FindLeft(img, column_start, l, lf)
        /\ FindRight(img, column_start, r, rf)
        /\ leftline' = With(leftline, l)
        /\ leftlineflag' = With(leftlineflag, lf)
        /\ rightline' = With(rightline, r)
        /\ rightlineflag' = With(rightlineflag, rf)
        /\ leftstartrow' = StartRow(leftstartrow, lf)
        /\ rightstartrow' = StartRow(rightstartrow, rf)
        /\ midline' = With(midline, Centre(l, lf, r, rf))
        /\ column_start' = NextStart(Centre(l, lf, r, rf), r - l)
  BY DEF ScanRow
<1> DEFINE mid == Centre(l, lf, r, rf)
<1>3. /\ mid \in Columns
      /\ \/ mid = (l + r) \div 2
         \/ lf = 0 /\ rf = 0 /\ row = Bottom /\ mid = W \div 2
         \/ row < Bottom /\ mid = midline[row + 1] /\ ~(lf = 1 /\ rf = 1)
  BY <1>1, CentreIsColumn DEF IInv
<1> HIDE DEF mid
<1>4. white' = With(white, img) /\ from' = With(from, column_start)
  BY DEF ScanRow
<1>5. /\ white' \in [row .. Bottom -> RowImages] /\ white'[row] = img
      /\ \A q \in row + 1 .. Bottom : white'[q] = white[q]
  BY <1>1, <1>4 DEF With, IInv, TypeOK
<1>6. /\ from' \in [row .. Bottom -> Columns] /\ from'[row] = column_start
      /\ \A q \in row + 1 .. Bottom : from'[q] = from[q]
  BY <1>1, <1>4 DEF With, IInv, TypeOK
<1>7. /\ leftline' \in [row .. Bottom -> Columns] /\ leftline'[row] = l
      /\ \A q \in row + 1 .. Bottom : leftline'[q] = leftline[q]
  BY <1>1, <1>2 DEF With, IInv, TypeOK
<1>8. /\ leftlineflag' \in [row .. Bottom -> {0, 1}] /\ leftlineflag'[row] = lf
      /\ \A q \in row + 1 .. Bottom : leftlineflag'[q] = leftlineflag[q]
  BY <1>1, <1>2 DEF With, IInv, TypeOK
<1>9. /\ rightline' \in [row .. Bottom -> Columns] /\ rightline'[row] = r
      /\ \A q \in row + 1 .. Bottom : rightline'[q] = rightline[q]
  BY <1>1, <1>2 DEF With, IInv, TypeOK
<1>10. /\ rightlineflag' \in [row .. Bottom -> {0, 1}]
       /\ rightlineflag'[row] = rf
       /\ \A q \in row + 1 .. Bottom : rightlineflag'[q] = rightlineflag[q]
  BY <1>1, <1>2 DEF With, IInv, TypeOK
<1>11. /\ midline' \in [row .. Bottom -> Columns] /\ midline'[row] = mid
       /\ \A q \in row + 1 .. Bottom : midline'[q] = midline[q]
  BY <1>1, <1>2, <1>3 DEF With, IInv, TypeOK, mid
<1>12. column_start' = NextStart(mid, r - l) /\ column_start' \in Columns
  BY <1>2, <1>3, NextStartIsColumn DEF IInv, TypeOK, Columns, mid
<1>13. TypeOK'
  <2>1. leftstartrow' \in {0} \cup Scanned' /\ rightstartrow' \in {0} \cup Scanned'
    BY <1>1, <1>2 DEF IInv, TypeOK, StartRow
  <2>2. fork' \in BOOLEAN
    BY <1>1, Zenon DEF IInv, TypeOK
  <2>3. /\ stage' \in {"scan", "done"} /\ row' \in 0 .. Bottom
        /\ toppoint' \in 0 .. Bottom
    BY <1>1 DEF IInv, TypeOK
  <2>4. /\ white' \in [Scanned' -> RowImages] /\ from' \in [Scanned' -> Columns]
        /\ leftline' \in [Scanned' -> Columns]
        /\ leftlineflag' \in [Scanned' -> {0, 1}]
        /\ rightline' \in [Scanned' -> Columns]
        /\ rightlineflag' \in [Scanned' -> {0, 1}]
        /\ midline' \in [Scanned' -> Columns]
    BY <1>1, <1>5, <1>6, <1>7, <1>8, <1>9, <1>10, <1>11
  <2> QED BY <1>12, <2>1, <2>2, <2>3, <2>4, Zenon DEF TypeOK, Columns
<1>14. FoundOK'
  <2> SUFFICES ASSUME NEW q \in row .. Bottom
      PROVE  /\ FindLeft(white'[q], from'[q], leftline'[q], leftlineflag'[q])
             /\ FindRight(white'[q], from'[q], rightline'[q],
                          rightlineflag'[q])
    BY <1>1 DEF FoundOK, FindLeft, FindRight, LeftEdges, RightEdges
  <2>1. CASE q = row
    BY <1>2, <1>5, <1>6, <1>7, <1>8, <1>9, <1>10, <2>1
  <2>2. CASE q \in row + 1 .. Bottom
    BY <1>1, <1>5, <1>6, <1>7, <1>8, <1>9, <1>10, <2>2 DEF IInv, FoundOK
  <2> QED BY <1>1, <2>1, <2>2
<1>15. CentreOK'
  <2> SUFFICES ASSUME NEW q \in row .. Bottom
      PROVE  \/ midline'[q] = (leftline'[q] + rightline'[q]) \div 2
             \/ leftlineflag'[q] = 0 /\ rightlineflag'[q] = 0 /\ q = Bottom
                /\ midline'[q] = W \div 2
             \/ q < Bottom /\ midline'[q] = midline'[q + 1]
                /\ ~(leftlineflag'[q] = 1 /\ rightlineflag'[q] = 1)
    BY <1>1 DEF CentreOK
  <2>1. CASE q = row
    BY <1>1, <1>3, <1>7, <1>8, <1>9, <1>10, <1>11, <2>1
  <2>2. CASE q \in row + 1 .. Bottom
    BY <1>1, <1>7, <1>8, <1>9, <1>10, <1>11, <2>2 DEF IInv, CentreOK
  <2> QED BY <1>1, <2>1, <2>2
<1>16. LinkOK'
  <2>1. ASSUME NEW q \in row .. Bottom, q < Bottom
        PROVE  from'[q] = NextStart(midline'[q + 1],
                                    rightline'[q + 1] - leftline'[q + 1])
    BY <1>1, <1>6, <1>7, <1>9, <1>11, <2>1 DEF IInv, LinkOK
  <2>2. column_start' = NextStart(midline'[row' + 1],
                                  rightline'[row' + 1] - leftline'[row' + 1])
    BY <1>1, <1>7, <1>9, <1>11, <1>12
  <2> QED BY <1>1, <2>1, <2>2 DEF LinkOK, NextStart, Limit
<1> QED BY <1>13, <1>14, <1>15, <1>16 DEF IInv

LEMMA ScanEndsInv == ASSUME IInv, ScanEnds PROVE IInv'
<1> USE SizeAssumption DEF ScanEnds
<1>1. Scanned' = Scanned /\ Bottom \in Scanned
  BY DEF Scanned, IInv, TypeOK
<1>2. column_start' \in Columns
  BY <1>1 DEF IInv, TypeOK
<1>3. toppoint' \in 0 .. Bottom
  <2>1. PICK t \in 0 .. Bottom : toppoint' = Limit(t, TopMin, TopMax)
    OBVIOUS
  <2> QED BY <2>1, TopAssumption DEF Limit
<1>4. TypeOK'
  BY <1>1, <1>2, <1>3 DEF IInv, TypeOK, edges, Columns
<1>5. FoundOK'
  BY <1>1 DEF IInv, FoundOK, edges, FindLeft, FindRight, LeftEdges, RightEdges
<1>6. CentreOK'
  BY <1>1 DEF IInv, CentreOK, edges
<1>7. LinkOK'
  BY <1>1 DEF IInv, LinkOK, edges, NextStart, Limit
<1> QED BY <1>4, <1>5, <1>6, <1>7 DEF IInv

LEMMA SearchAgainInv ==
  ASSUME IInv, SearchAgain, column_start' \in Columns, fork' \in BOOLEAN
  PROVE  IInv'
<1> USE SizeAssumption DEF SearchAgain
<1>1. Scanned' = {}
  BY DEF Scanned
<1>2. TypeOK'
  BY <1>1 DEF IInv, TypeOK, NoRows
<1>3. FoundOK' /\ CentreOK' /\ LinkOK'
  BY <1>1 DEF FoundOK, CentreOK, LinkOK
<1> QED BY <1>2, <1>3 DEF IInv

LEMMA NextFrameInv == ASSUME IInv, NextFrame PROVE IInv'
<1>1. column_start' \in Columns
  BY SizeAssumption, StartAssumption DEF NextFrame, Columns
<1> QED BY <1>1, SearchAgainInv DEF NextFrame

LEMMA ScanAgainInv == ASSUME IInv, ScanAgain PROVE IInv'
<1>1. column_start' \in Columns
  BY SizeAssumption, StartAssumption DEF ScanAgain, IInv, TypeOK, Columns
<1>2. fork' \in BOOLEAN
  BY DEF ScanAgain, IInv, TypeOK
<1> QED BY <1>1, <1>2, SearchAgainInv DEF ScanAgain

LEMMA NextInv == IInv /\ [Next]_vars => IInv'
<1> SUFFICES ASSUME IInv, [Next]_vars PROVE IInv'
  OBVIOUS
<1>1. ASSUME NEW img \in RowImages, ScanRow(img) PROVE IInv'
  BY <1>1, ScanRowInv
<1>2. CASE ScanEnds
  BY <1>2, ScanEndsInv
<1>3. CASE NextFrame
  BY <1>3, NextFrameInv
<1>4. CASE ScanAgain
  BY <1>4, ScanAgainInv
<1>5. CASE UNCHANGED vars
  BY <1>5 DEF vars, edges, IInv, TypeOK, Scanned, FoundOK, CentreOK, LinkOK,
              FindLeft, FindRight, LeftEdges, RightEdges, NextStart, Limit
<1> QED BY <1>1, <1>2, <1>3, <1>4, <1>5 DEF Next

LEMMA Invariant == Spec => []IInv
BY InitInv, NextInv, PTL DEF Spec

(* Every array holds columns of the frame, for every frame size and image: *)
(* no index of the scan, nor of the look back for a crossroads, is out of  *)
(* range.                                                                  *)
THEOREM TrackTypeCorrect == Spec => []TypeOK
<1>1. IInv => TypeOK
  BY DEF IInv
<1> QED BY <1>1, Invariant, PTL

-----------------------------------------------------------------------------
(* What the invariant says of one scanned row.                             *)
LEMMA RowFacts ==
  ASSUME IInv, NEW r \in Scanned
  PROVE  /\ r \in 1 .. Bottom /\ Bottom \in Nat
         /\ from[r] \in Columns /\ midline[r] \in Columns
         /\ leftline[r] \in Columns /\ rightline[r] \in Columns
         /\ leftlineflag[r] \in {0, 1} /\ rightlineflag[r] \in {0, 1}
         /\ FindLeft(white[r], from[r], leftline[r], leftlineflag[r])
         /\ FindRight(white[r], from[r], rightline[r], rightlineflag[r])
         /\ r < Bottom => r + 1 \in Scanned
<1>1. r \in 1 .. Bottom /\ Bottom \in Nat /\ (r < Bottom => r + 1 \in Scanned)
  BY SizeAssumption DEF IInv, TypeOK, Scanned
<1>2. /\ from[r] \in Columns /\ midline[r] \in Columns
      /\ leftline[r] \in Columns /\ rightline[r] \in Columns
      /\ leftlineflag[r] \in {0, 1} /\ rightlineflag[r] \in {0, 1}
  BY DEF IInv, TypeOK
<1>3. /\ FindLeft(white[r], from[r], leftline[r], leftlineflag[r])
      /\ FindRight(white[r], from[r], rightline[r], rightlineflag[r])
  BY DEF IInv, FoundOK
<1> QED BY <1>1, <1>2, <1>3

LEMMA RowEdges ==
  ASSUME IInv, NEW r \in Scanned
  PROVE  /\ leftline[r] <= from[r] /\ from[r] <= rightline[r]
         /\ leftline[r] < rightline[r]
         /\ leftlineflag[r] = 0 =>
              leftline[r] = 0 /\ LeftEdges(white[r], from[r]) = {}
         /\ rightlineflag[r] = 0 =>
              rightline[r] = W - 1 /\ RightEdges(white[r], from[r]) = {}
         /\ leftlineflag[r] = 1 => leftline[r] < from[r]
         /\ rightlineflag[r] = 1 => from[r] < rightline[r]
<1>1. /\ from[r] \in Columns
      /\ leftline[r] \in Columns /\ rightline[r] \in Columns
      /\ leftlineflag[r] \in {0, 1} /\ rightlineflag[r] \in {0, 1}
      /\ FindLeft(white[r], from[r], leftline[r], leftlineflag[r])
      /\ FindRight(white[r], from[r], rightline[r], rightlineflag[r])
  BY RowFacts
<1>2. /\ leftline[r] <= from[r]
      /\ leftlineflag[r] = 0 =>
           leftline[r] = 0 /\ LeftEdges(white[r], from[r]) = {}
      /\ leftlineflag[r] = 1 => leftline[r] < from[r]
  BY <1>1, SizeAssumption DEF FindLeft, LeftEdges, Columns
<1>3. /\ from[r] <= rightline[r]
      /\ rightlineflag[r] = 0 =>
           rightline[r] = W - 1 /\ RightEdges(white[r], from[r]) = {}
      /\ rightlineflag[r] = 1 => from[r] < rightline[r]
  BY <1>1, SizeAssumption DEF FindRight, RightEdges, Columns
<1>4. leftline[r] < rightline[r]
  BY <1>1, EdgesApart
<1> QED BY <1>2, <1>3, <1>4

LEMMA InvCentre == IInv => CentreBetween
<1> SUFFICES ASSUME IInv, NEW r \in Scanned
    PROVE  /\ leftline[r] <= from[r] /\ from[r] <= rightline[r]
           /\ leftline[r] < rightline[r]
           /\ ~fork => leftline[r] <= midline[r] /\ midline[r] <= rightline[r]
  BY DEF CentreBetween
<1> DEFINE l == leftline[r]
           k == from[r]
           e == rightline[r]
           m == midline[r]
<1>1. l \in Columns /\ k \in Columns /\ e \in Columns /\ m \in Columns
  BY RowFacts
<1>2. /\ l <= k
      /\ leftlineflag[r] = 0 => l = 0
  BY RowEdges
<1>3. /\ k <= e
      /\ rightlineflag[r] = 0 => e = W - 1
  BY RowEdges
<1>4. l < e
  BY RowEdges
<1>5. ASSUME ~fork PROVE l <= m /\ m <= e
  <2>1. CASE m = (l + e) \div 2
    BY <1>1, <1>4, <2>1 DEF Columns
  <2>2. CASE leftlineflag[r] = 0 /\ rightlineflag[r] = 0 /\ m = W \div 2
    BY <1>1, <1>2, <1>3, <2>2, SizeAssumption DEF Columns
  <2>3. CASE r < Bottom /\ m = midline[r + 1]
    <3>1. k = midline[r + 1]
      BY <1>5, <2>3 DEF IInv, LinkOK, NextStart
    <3> QED BY <1>2, <1>3, <2>3, <3>1
  <2> QED BY <2>1, <2>2, <2>3 DEF IInv, CentreOK
<1> QED BY <1>2, <1>3, <1>4, <1>5

LEMMA InvFork == IInv => ForkStaysBetween
<1> SUFFICES ASSUME IInv, NEW r \in Scanned, r < Bottom,
                    leftlineflag[r + 1] = 1, rightlineflag[r + 1] = 1
    PROVE  leftline[r + 1] < from[r] /\ from[r] < rightline[r + 1]
  BY DEF ForkStaysBetween
<1> DEFINE l == leftline[r + 1]
           k == from[r + 1]
           e == rightline[r + 1]
           m == midline[r + 1]
<1>1. r + 1 \in Scanned /\ r \in 1 .. Bottom
  BY RowFacts
<1>2. l \in Columns /\ k \in Columns /\ e \in Columns /\ m \in Columns
  BY <1>1, RowFacts
<1>3. l < k
  BY <1>1, RowEdges
<1>4. k < e
  BY <1>1, RowEdges
<1>5. m = (l + e) \div 2
  BY <1>1 DEF IInv, CentreOK
<1>6. from[r] = NextStart(m, e - l)
  BY <1>1 DEF IInv, LinkOK
<1> HIDE DEF l, k, e, m
<1>7. l < m /\ m + (e - l) \div 3 < e /\ (e - l) \div 3 >= 0
  BY <1>2, <1>3, <1>4, <1>5 DEF Columns
<1>8. l < NextStart(m, e - l) /\ NextStart(m, e - l) < e
  <2>1. CASE fork
    BY <1>2, <1>7, <2>1, SizeAssumption DEF NextStart, Limit, Columns
  <2>2. CASE ~fork
    BY <1>2, <1>7, <2>2 DEF NextStart, Columns
  <2> QED BY <2>1, <2>2
<1> QED BY <1>6, <1>8 DEF l, e

LEMMA InvRoad == IInv => RoadFollowed
<1> SUFFICES ASSUME IInv, NEW r \in Scanned,
                    NEW a \in InView, NEW b \in InView,
                    RoadAround(white[r], from[r], a, b)
    PROVE  /\ leftlineflag[r] = 1 /\ rightlineflag[r] = 1
           /\ leftline[r] = a /\ rightline[r] = b
           /\ midline[r] = (a + b) \div 2
           /\ ~fork /\ r - 1 \in Scanned => from[r - 1] = (a + b) \div 2
  BY DEF RoadFollowed
<1> DEFINE img == white[r]
           k == from[r]
<1>1. /\ k \in Columns /\ leftline[r] \in Columns /\ rightline[r] \in Columns
      /\ leftlineflag[r] \in {0, 1} /\ rightlineflag[r] \in {0, 1}
      /\ FindLeft(img, k, leftline[r], leftlineflag[r])
      /\ FindRight(img, k, rightline[r], rightlineflag[r])
      /\ r \in 1 .. Bottom
  BY RowFacts
<1>2. /\ a < k /\ k < b /\ a .. b \subseteq img
      /\ a - 1 \notin img /\ b + 1 \notin img
  BY DEF RoadAround
<1> HIDE DEF img, k
<1>3. leftlineflag[r] = 1 /\ leftline[r] = a
  <2>1. a + 1 \in LeftEdges(img, k)
    BY <1>1, <1>2, SizeAssumption DEF LeftEdges, InView, Columns
  <2>2. \A j \in LeftEdges(img, k) : j <= a + 1
    BY <1>1, <1>2, SizeAssumption DEF LeftEdges, InView, Columns
  <2> QED BY <1>1, <2>1, <2>2 DEF FindLeft, InView, Columns
<1>4. rightlineflag[r] = 1 /\ rightline[r] = b
  <2>1. b - 1 \in RightEdges(img, k)
    BY <1>1, <1>2, SizeAssumption DEF RightEdges, InView, Columns
  <2>2. \A j \in RightEdges(img, k) : j >= b - 1
    BY <1>1, <1>2, SizeAssumption DEF RightEdges, InView, Columns
  <2> QED BY <1>1, <2>1, <2>2 DEF FindRight, InView, Columns
<1>5. midline[r] = (a + b) \div 2
  BY <1>3, <1>4 DEF IInv, CentreOK
<1>6. ASSUME ~fork, r - 1 \in Scanned PROVE from[r - 1] = midline[r]
  <2>1. r - 1 < Bottom /\ (r - 1) + 1 = r
    BY <1>1, SizeAssumption
  <2>2. from[r - 1] = NextStart(midline[r], rightline[r] - leftline[r])
    BY <1>6, <2>1 DEF IInv, LinkOK
  <2> QED BY <1>6, <2>2 DEF NextStart
<1> QED BY <1>3, <1>4, <1>5, <1>6

LEMMA InvLost == IInv => LostMeansLost
<1> SUFFICES ASSUME IInv, NEW r \in Scanned
    PROVE  /\ leftlineflag[r] = 0 =>
                \A j \in 1 .. from[r] - 2 :
                  ~(j \notin white[r] /\ {j + 1, j + 2} \subseteq white[r])
           /\ rightlineflag[r] = 0 =>
                \A j \in from[r] + 2 .. W - 2 :
                  ~(j \notin white[r] /\ {j - 1, j - 2} \subseteq white[r])
  BY DEF LostMeansLost
<1>1. from[r] \in Columns
  BY RowFacts
<1>2. /\ leftlineflag[r] = 0 => LeftEdges(white[r], from[r]) = {}
      /\ rightlineflag[r] = 0 => RightEdges(white[r], from[r]) = {}
  BY RowEdges
<1>3. ASSUME leftlineflag[r] = 0, NEW j \in 1 .. from[r] - 2
      PROVE  ~(j \notin white[r] /\ {j + 1, j + 2} \subseteq white[r])
  <2>1. j + 2 \notin LeftEdges(white[r], from[r])
    BY <1>2, <1>3
  <2> QED BY <1>1, <2>1, SizeAssumption DEF LeftEdges, Columns
<1>4. ASSUME rightlineflag[r] = 0, NEW j \in from[r] + 2 .. W - 2
      PROVE  ~(j \notin white[r] /\ {j - 1, j - 2} \subseteq white[r])
  <2>1. j - 2 \notin RightEdges(white[r], from[r])
    BY <1>2, <1>4
  <2> QED BY <1>1, <2>1, SizeAssumption DEF RightEdges, Columns
<1> QED BY <1>3, <1>4

-----------------------------------------------------------------------------
(* In every row of every image the centre line stays between the edges,    *)
(* and outside a fork so does every centre carried over from the row below.*)
THEOREM CentreKept == Spec => []CentreBetween
BY Invariant, InvCentre, PTL

(* The step aside in a fork stays on the road of the row below.            *)
THEOREM ForkKept == Spec => []ForkStaysBetween
BY Invariant, InvFork, PTL

(* A road in view around the search column is found from edge to edge, at  *)
(* every frame size and whatever else the image shows.                     *)
THEOREM RoadKept == Spec => []RoadFollowed
BY Invariant, InvRoad, PTL

(* An edge not flagged is not there.                                       *)
THEOREM FlagsHonest == Spec => []LostMeansLost
BY Invariant, InvLost, PTL

(* The scan of one row keeps the start rows the lowest ones: the row is    *)
(* taken only when no lower one had an edge.                               *)
LEMMA ScanRowStart ==
  ASSUME IInv, StartRowsLowest, NEW img \in RowImages, ScanRow(img)
  PROVE  StartRowsLowest'
<1> USE SizeAssumption
<1>1. /\ row \in 1 .. Bottom /\ Bottom \in Nat /\ row' = row - 1
      /\ Scanned' = row .. Bottom /\ Scanned = row + 1 .. Bottom
  BY DEF IInv, TypeOK, ScanRow, Scanned
<1>2. PICK lf \in {0, 1}, rf \in {0, 1} :
        /\ leftlineflag' = With(leftlineflag, lf)
        /\ rightlineflag' = With(rightlineflag, rf)
        /\ leftstartrow' = StartRow(leftstartrow, lf)
        /\ rightstartrow' = StartRow(rightstartrow, rf)
  BY DEF ScanRow
<1>3. /\ leftlineflag'[row] = lf /\ rightlineflag'[row] = rf
      /\ \A q \in row + 1 .. Bottom : /\ leftlineflag'[q] = leftlineflag[q]
                                    /\ rightlineflag'[q] = rightlineflag[q]
  BY <1>1, <1>2 DEF With
<1>4. /\ leftstartrow \in {0} \cup (row + 1 .. Bottom)
      /\ rightstartrow \in {0} \cup (row + 1 .. Bottom)
  BY <1>1 DEF IInv, TypeOK
<1>5. /\ \A q \in row + 1 .. Bottom : leftlineflag[q] = 1 => q <= leftstartrow
      /\ \A q \in row + 1 .. Bottom : rightlineflag[q] = 1 => q <= rightstartrow
      /\ leftstartrow # 0 => leftlineflag[leftstartrow] = 1
      /\ rightstartrow # 0 => rightlineflag[rightstartrow] = 1
  BY <1>1 DEF StartRowsLowest
<1>6. /\ \A q \in row .. Bottom : leftlineflag'[q] = 1 => q <= leftstartrow'
      /\ leftstartrow' # 0 => leftlineflag'[leftstartrow'] = 1
  <2>1. CASE leftstartrow = 0 /\ lf = 1
    <3>1. leftstartrow' = row
      BY <1>2, <2>1 DEF StartRow
    <3>2. \A q \in row + 1 .. Bottom : leftlineflag'[q] # 1
      BY <1>1, <1>3, <1>5, <2>1
    <3> QED BY <1>1, <1>3, <2>1, <3>1, <3>2
  <2>2. CASE ~(leftstartrow = 0 /\ lf = 1)
    <3>1. leftstartrow' = leftstartrow
      BY <1>2, <2>2 DEF StartRow
    <3>2. lf = 1 => row <= leftstartrow
      BY <1>1, <1>4, <2>2
    <3>3. leftstartrow # 0 => leftlineflag'[leftstartrow] = 1
      BY <1>3, <1>4, <1>5
    <3> QED BY <1>1, <1>3, <1>5, <3>1, <3>2, <3>3
  <2> QED BY <2>1, <2>2
<1>7. /\ \A q \in row .. Bottom : rightlineflag'[q] = 1 => q <= rightstartrow'
      /\ rightstartrow' # 0 => rightlineflag'[rightstartrow'] = 1
  <2>1. CASE rightstartrow = 0 /\ rf = 1
    <3>1. rightstartrow' = row
      BY <1>2, <2>1 DEF StartRow
    <3>2. \A q \in row + 1 .. Bottom : rightlineflag'[q] # 1
      BY <1>1, <1>3, <1>5, <2>1
    <3> QED BY <1>1, <1>3, <2>1, <3>1, <3>2
  <2>2. CASE ~(rightstartrow = 0 /\ rf = 1)
    <3>1. rightstartrow' = rightstartrow
      BY <1>2, <2>2 DEF StartRow
    <3>2. rf = 1 => row <= rightstartrow
      BY <1>1, <1>4, <2>2
    <3>3. rightstartrow # 0 => rightlineflag'[rightstartrow] = 1
      BY <1>3, <1>4, <1>5
    <3> QED BY <1>1, <1>3, <1>5, <3>1, <3>2, <3>3
  <2> QED BY <2>1, <2>2
<1> QED BY <1>1, <1>6, <1>7 DEF StartRowsLowest

(* For every image the start rows, which decide when a fork begins and     *)
(* ends, are the lowest rows where the edge is in view, and zero only when *)
(* it is in view nowhere.                                                  *)
THEOREM StartRowsKept == Spec => []StartRowsLowest
<1>1. Init => StartRowsLowest
  BY SizeAssumption DEF Init, StartRowsLowest, Scanned
<1>2. IInv /\ StartRowsLowest /\ [Next]_vars => StartRowsLowest'
  <2> SUFFICES ASSUME IInv, StartRowsLowest, [Next]_vars
      PROVE  StartRowsLowest'
    OBVIOUS
  <2>1. ASSUME NEW img \in RowImages, ScanRow(img) PROVE StartRowsLowest'
    BY <2>1, ScanRowStart
  <2>2. CASE ScanEnds
    BY <2>2 DEF ScanEnds, StartRowsLowest, Scanned, edges
  <2>3. CASE SearchAgain
    BY <2>3, SizeAssumption DEF SearchAgain, StartRowsLowest, Scanned
  <2>4. CASE UNCHANGED vars
    BY <2>4 DEF vars, edges, StartRowsLowest, Scanned
  <2> QED BY <2>1, <2>2, <2>3, <2>4 DEF Next, NextFrame, ScanAgain
<1> QED BY <1>1, <1>2, Invariant, PTL DEF Spec
-----------------------------------------------------------------------------
(* find_toppoint: once the rows are searched, the top point is the lowest  *)
(* row of the image where the centre line leaves the road, if there is one.*)
TopFound ==
  stage = "done" =>
    /\ row = 0
    /\ TopRows # {} =>
         \E t \in TopRows :
           (\A r \in TopRows : r <= t) /\ toppoint = Limit(t, TopMin, TopMax)

LEMMA TopFoundInit == Init => TopFound
BY DEF Init, TopFound

LEMMA TopFoundNext == IInv /\ TopFound /\ [Next]_vars => TopFound'
<1> SUFFICES ASSUME IInv, TopFound, [Next]_vars PROVE TopFound'
  OBVIOUS
<1>1. ASSUME NEW img \in RowImages, ScanRow(img) PROVE TopFound'
  BY <1>1 DEF ScanRow, TopFound
<1>2. CASE ScanEnds
  <2>1. row' = 0 /\ TopRows' = TopRows
    BY <1>2 DEF ScanEnds, TopRows
  <2>2. PICK t \in 0 .. Bottom :
          FindToppoint(t) /\ toppoint' = Limit(t, TopMin, TopMax)
    BY <1>2 DEF ScanEnds
  <2>3. ASSUME TopRows # {}
        PROVE  t \in TopRows /\ \A r \in TopRows : r <= t
    BY <2>2, <2>3 DEF FindToppoint
  <2> HIDE DEF TopRows
  <2> QED BY <2>1, <2>2, <2>3 DEF TopFound, Limit
<1>3. CASE SearchAgain
  BY <1>3 DEF SearchAgain, TopFound
<1>4. CASE UNCHANGED vars
  BY <1>4 DEF vars, edges, TopFound, TopRows, Limit
<1> QED BY <1>1, <1>2, <1>3, <1>4 DEF Next, NextFrame, ScanAgain

LEMMA TopInvariant == Spec => []TopFound
BY TopFoundInit, TopFoundNext, Invariant, PTL DEF Spec

(* A set of rows has a largest one.                                        *)
LEMMA Largest ==
  ASSUME NEW m \in Nat, NEW S, S \subseteq 0 .. m, S # {}
  PROVE  \E x \in S : \A y \in S : y <= x
<1> DEFINE T == {n \in Nat : m - n \in S}
<1>1. T # {}
  <2>1. PICK x \in S : TRUE
    OBVIOUS
  <2>2. m - x \in Nat /\ m - (m - x) = x
    BY <2>1
  <2> QED BY <2>2
<1>2. PICK n \in T : \A k \in T : <<k, n>> \notin OpToRel(<, Nat)
  BY <1>1, WFMin, NatLessThanWellFounded, Zenon
<1>3. \A k \in T : ~(k < n)
  BY <1>2, Zenon DEF OpToRel
<1>4. ASSUME NEW y \in S PROVE y <= m - n
  <2>1. m - y \in Nat /\ m - (m - y) = y /\ y \in Int /\ n \in Nat
    BY <1>4
  <2>2. m - y \in T
    BY <2>1
  <2>3. ~(m - y < n)
    BY <1>3, <2>2
  <2> QED BY <2>1, <2>3
<1> QED BY <1>4

(* A road that goes up straight from the bottom row is followed from row   *)
(* to row: the search column never leaves it.                              *)
LEMMA StraightRoad ==
  ASSUME IInv, row = 0, ~fork, NEW e \in Scanned,
         NEW a \in InView, NEW b \in InView,
         \A r \in Scanned : r >= e => white[r] = a .. b,
         RoadAround(a .. b, from[Bottom], a, b)
  PROVE  \A r \in Scanned : r >= e => RoadAround(white[r], from[r], a, b)
<1> DEFINE Lost == {r \in Scanned : r >= e /\ ~RoadAround(white[r], from[r], a, b)}
<1> SUFFICES ASSUME Lost # {} PROVE FALSE
  OBVIOUS
<1>1. Scanned = 1 .. Bottom /\ Bottom \in Nat \ {0} /\ e \in Nat
  BY SizeAssumption DEF Scanned
<1>2. Lost \subseteq 0 .. Bottom
  BY <1>1
<1>3. PICK r \in Lost : \A q \in Lost : q <= r
  BY <1>1, <1>2, Largest
<1>4. r \in Scanned /\ r >= e /\ ~RoadAround(white[r], from[r], a, b)
  OBVIOUS
<1>5. r # Bottom
  BY <1>4
<1>6. r + 1 \in Scanned /\ r + 1 >= e /\ r + 1 \notin Lost
  BY <1>1, <1>3, <1>4, <1>5
<1>7. RoadAround(white[r + 1], from[r + 1], a, b)
  BY <1>6
<1> HIDE DEF Lost
<1>8. from[r] = (a + b) \div 2
  <2>1. r = (r + 1) - 1
    BY <1>1, <1>4
  <2> QED BY <1>4, <1>6, <1>7, <2>1, InvRoad DEF RoadFollowed
<1>9. from[r + 1] \in Columns /\ a \in Int /\ b \in Int
  BY <1>6, RowFacts, SizeAssumption DEF InView
<1>10. a < from[r] /\ from[r] < b
  BY <1>7, <1>8, <1>9 DEF RoadAround, Columns
<1>11. white[r] = a .. b
  BY <1>4
<1> QED BY <1>4, <1>10, <1>11 DEF RoadAround

LEMMA InvTop == IInv /\ TopFound => ToppointIsRoadsEnd
<1> SUFFICES ASSUME IInv, TopFound, stage = "done", ~fork,
                    NEW e \in TopLast .. TopFirst - 1,
                    NEW a \in InView, NEW b \in InView,
                    \A r \in Scanned : IF r < e THEN white[r] = {}
                                                 ELSE white[r] = a .. b,
                    RoadAround(a .. b, from[Bottom], a, b)
             PROVE  toppoint = Limit(e + 1, TopMin, TopMax)
  BY DEF ToppointIsRoadsEnd
<1>1. row = 0 /\ Scanned = 1 .. Bottom
  BY DEF TopFound, Scanned
<1>2. /\ Bottom \in Nat /\ TopLast \in 1 .. Bottom /\ TopFirst \in 1 .. Bottom
      /\ TopLast > 2 /\ e \in 3 .. Bottom - 1 /\ W \in Nat
  BY SizeAssumption, TopAssumption
<1>3. ASSUME NEW r \in e .. Bottom
      PROVE  /\ white[r] = a .. b
             /\ midline[r] \in a .. b /\ midline[r] \notin {0, W - 1}
  <2>1. r \in Scanned /\ e \in Scanned /\ r >= e
    BY <1>1, <1>2
  <2>2. \A q \in Scanned : q >= e => white[q] = a .. b
    BY <1>1, <1>2
  <2>3. RoadAround(white[r], from[r], a, b)
    BY <1>1, <2>1, <2>2, StraightRoad
  <2>4. midline[r] = (a + b) \div 2
    BY <2>1, <2>3, InvRoad DEF RoadFollowed
  <2>5. from[r] \in Columns /\ a \in 2 .. W - 3 /\ b \in 2 .. W - 3
    BY <2>1, RowFacts DEF InView
  <2>6. midline[r] \in a .. b /\ midline[r] \notin {0, W - 1}
    BY <1>2, <2>3, <2>4, <2>5 DEF RoadAround, Columns
  <2> QED BY <2>1, <2>2, <2>6
<1>4. white[e - 1] = {}
  BY <1>1, <1>2
<1>5. e + 1 \in TopRows
  <2>1. e + 1 \in TopLast .. TopFirst /\ e + 1 \in e .. Bottom /\ (e + 1) - 2 = e - 1
    BY <1>2
  <2> QED BY <1>3, <1>4, <2>1 DEF TopRows
<1>6. ASSUME NEW r \in TopRows, r > e + 1 PROVE FALSE
  <2>1. r \in TopLast .. TopFirst
    BY DEF TopRows
  <2>2. r \in e .. Bottom /\ r - 1 \in e .. Bottom /\ r - 2 \in e .. Bottom
    BY <1>2, <1>6, <2>1
  <2> QED BY <1>3, <2>2 DEF TopRows
<1>7. PICK t \in TopRows :
        (\A r \in TopRows : r <= t) /\ toppoint = Limit(t, TopMin, TopMax)
  BY <1>5 DEF TopFound
<1>8. t \in Int /\ e \in Int
  BY <1>2 DEF TopRows
<1>9. t = e + 1
  BY <1>5, <1>6, <1>7, <1>8
<1> QED BY <1>7, <1>9

(* On a straight road of any width that ends in black at any height, the   *)
(* top point is where the road ends, whatever the last frame left there.   *)
THEOREM ToppointKept == Spec => []ToppointIsRoadsEnd
BY Invariant, TopInvariant, InvTop, PTL
=============================================================================
