SPECIFICATION Spec
CONSTANTS
  Top = 4
  Pixels = 8
  Wrap = 4
INVARIANTS
  ThresholdSplitsFrame
