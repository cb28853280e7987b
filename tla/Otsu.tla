-------------------------------- MODULE Otsu --------------------------------
(***************************************************************************)
(* The threshold that turns a grey frame into the black and white one      *)
(* everything else looks at: imgproc_ctrl::ostu_threshold counts the grey  *)
(* levels of the frame in counters of eight bits, which wrap around,       *)
(* solve_ostu walks over the counters with running sums and                *)
(* keeps the level of the largest between-class variance, gray_to_binary   *)
(* makes the pixels above it white (img_proc.cpp).                         *)
(*                                                                         *)
(* The variance is kept as the exact fraction <<num, den>>, without the    *)
(* common factor Amount^2, where the code rounds it to a float.  With no   *)
(* pixel left above the level the code divides zero by zero, and no        *)
(* comparison with a NaN holds.                                            *)
(***************************************************************************)
EXTENDS Integers, FiniteSetsExt

CONSTANTS
  Top,      \* the lightest grey level, 255 in the code
  Pixels,   \* the pixels of a frame, 120 * 160 in the code
  Wrap      \* a counter of the histogram wraps to 0 here, at 2^8 in the code

ASSUME TopAssumption == Top \in Nat
ASSUME PixelsAssumption == Pixels \in Nat \ {0}
ASSUME WrapAssumption == Wrap \in Nat \ {0, 1}

VARIABLES
  stage,               \* "count", "scan" or "done"
  frame,               \* how many of the pixels counted have each level
  HistoGram,           \* what the counters of the histogram say of that
  j,                   \* the level the scan is at
  PixelBack,           \* the pixels at or below the levels scanned
  PixelIntegralBack,   \* the sum of their levels
  SigmaB,              \* the largest variance so far
  Threshold            \* and the first level it was found at

vars == <<stage, frame, HistoGram, j, PixelBack, PixelIntegralBack, SigmaB,
          Threshold>>
sums == <<PixelBack, PixelIntegralBack>>

Levels == 0 .. Top
Count(hist, levels) == MapThenSumSet(LAMBDA g : hist[g], levels)
Light(hist, levels) == MapThenSumSet(LAMBDA g : hist[g] * g, levels)
Present(hist) == {g \in Levels : hist[g] # 0}

Amount == Count(HistoGram, Levels)
PixelIntegral == Light(HistoGram, Levels)

NoVariance == <<-1, 1>>

Init ==
  /\ stage = "count"
  /\ frame = [g \in Levels |-> 0]
  /\ HistoGram = [g \in Levels |-> 0]
  /\ j = 0
  /\ PixelBack = 0 /\ PixelIntegralBack = 0
  /\ SigmaB = NoVariance /\ Threshold = 0

(* ostu_threshold comes to a pixel of level g.                             *)
CountPixel(g) ==
  /\ stage = "count"
  /\ Count(frame, Levels) < Pixels
  /\ frame' = [frame EXCEPT ![g] = @ + 1]
  /\ HistoGram' = [HistoGram EXCEPT ![g] = (@ + 1) % Wrap]
  /\ UNCHANGED <<stage, j, sums, SigmaB, Threshold>>

-----------------------------------------------------------------------------
(* solve_ostu.                                                             *)

(* The first loop runs off the end of an empty histogram.                  *)
MinValue == Min(Present(HistoGram) \cup {Top + 1})

(* The second loop walks down from Top while HistoGram[MinValue], not      *)
(* HistoGram[MaxValue], is zero.                                           *)
MaxValue ==
  Max({m \in Levels : m <= MinValue \/ MinValue \in Present(HistoGram)})

(* The range is known: one or two adjacent levels need no scan.            *)
FindRange ==
  /\ stage = "count"
  /\ Count(frame, Levels) = Pixels
  /\ IF MaxValue \in {MinValue, MinValue + 1}
     THEN stage' = "done" /\ Threshold' = MinValue /\ UNCHANGED j
     ELSE stage' = "scan" /\ Threshold' = 0 /\ j' = MinValue
  /\ UNCHANGED <<frame, HistoGram, sums, SigmaB>>

(* The variance between the b pixels at or below a level, of integral s,   *)
(* and the others; <<0, 0>> when there are none above.                     *)
Sigma(b, s) ==
  LET fore == Amount - b
      gap  == s * fore - (PixelIntegral - s) * b
  IN  <<gap * gap, b * fore>>

(* Bugs: a tie moves the threshold up; infinity instead of a NaN.          *)
LargerOrEqual(a, b) == a[2] # 0 /\ a[1] * b[2] >= b[1] * a[2]
LargerOrNaN(a, b) == a[2] = 0 \/ a[1] * b[2] > b[1] * a[2]

Larger(a, b) == a[2] # 0 /\ a[1] * b[2] > b[1] * a[2]

Scan ==
  /\ stage = "scan"
  /\ j < MaxValue
  /\ PixelBack' = PixelBack + HistoGram[j]
  /\ PixelIntegralBack' = PixelIntegralBack + HistoGram[j] * j
  /\ LET sigma == Sigma(PixelBack', PixelIntegralBack')
     IN  IF Larger(sigma, SigmaB)
         THEN SigmaB' = sigma /\ Threshold' = j
         ELSE UNCHANGED <<SigmaB, Threshold>>
  /\ j' = j + 1
  /\ UNCHANGED <<stage, frame, HistoGram>>

ScanEnds ==
  /\ stage = "scan"
  /\ j >= MaxValue
  /\ stage' = "done"
  /\ UNCHANGED <<frame, HistoGram, j, sums, SigmaB, Threshold>>

(* gray_to_binary is over; the next frame clears the histogram.            *)
NextFrame ==
  /\ stage = "done"
  /\ stage' = "count"
  /\ frame' = [g \in Levels |-> 0]
  /\ HistoGram' = [g \in Levels |-> 0]
  /\ j' = 0
  /\ PixelBack' = 0 /\ PixelIntegralBack' = 0
  /\ SigmaB' = NoVariance /\ Threshold' = 0

Next ==
  \/ \E g \in Levels : CountPixel(g)
  \/ FindRange
  \/ Scan
  \/ ScanEnds
  \/ NextFrame

Spec == Init /\ [][Next]_vars

White(g) == g > Threshold

-----------------------------------------------------------------------------
(* Properties.                                                             *)

(* The levels that split a histogram into two classes, and the variance    *)
(* between the classes as a textbook defines it: the squared distance of   *)
(* the class means to the mean of all, weighted by the class sizes.        *)
Splits(hist) == {t \in Levels : \E d, l \in Present(hist) : d <= t /\ t < l}

Between(hist, t) ==
  LET dark  == {g \in Levels : g <= t}
      light == Levels \ dark
      gap(class) == Light(hist, class) * Count(hist, Levels)
                      - Light(hist, Levels) * Count(hist, class)
  IN  << Count(hist, light) * gap(dark) * gap(dark)
         + Count(hist, dark) * gap(light) * gap(light),
         Count(hist, dark) * Count(hist, light) >>

AtLeast(a, b) == a[1] * b[2] >= b[1] * a[2]

Best(hist) == {t \in Splits(hist) : \A u \in Splits(hist) :
                 AtLeast(Between(hist, t), Between(hist, u))}

(* The one-pass scan with its running sums finds what the definition asks  *)
(* for in the histogram it is given: the lowest of the levels with the     *)
(* largest between-class variance, also across the gaps of the histogram   *)
(* and with the scan running on through the empty levels up to 255.        *)
ThresholdIsOtsu ==
  stage = "done" /\ Splits(HistoGram) # {} =>
    Threshold = Min(Best(HistoGram))

(* The road cannot vanish in the conversion: as long as two levels are     *)
(* left in the wrapped counters, some of the frame becomes black and some  *)
(* of it white.                                                            *)
BothColours ==
  stage = "done" /\ Splits(HistoGram) # {} =>
    /\ \E g \in Present(frame) : White(g)
    /\ \E g \in Present(frame) : ~White(g)

(* What the comment in the scan says ("find the largest between-class      *)
(* variance and its threshold"), taken of the frame: the counters wrap, so *)
(* the scan may look at another histogram than the frame's.                *)
ThresholdSplitsFrame ==
  stage = "done" /\ Splits(frame) # {} => Threshold \in Best(frame)

(* The wrapping is all that comes between the two: where no level occurs   *)
(* often enough to wrap its counter, the threshold is the frame's own.     *)
ThresholdIsFrames ==
  stage = "done" /\ (\A g \in Levels : frame[g] < Wrap) /\ Splits(frame) # {} =>
    Threshold = Min(Best(frame))

=============================================================================
