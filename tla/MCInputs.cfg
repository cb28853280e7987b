SPECIFICATION InputsSpec
CONSTANTS
  Top = 4
  Pixels = 8
  Wrap = 4
  MaxLen = 3
  Lines = 2
  LineLens = {0, 1, 3, 4}
  MaxHeard = 2
  Bottom = 8
  DownFirst = 7
  DownLost <- MCDownLost
  DownSeen <- MCDownSeen
  CircleBeside <- MCCircleBeside
  CircleMin <- MCCircleMin
  UpSeen <- MCUpSeen
  UpStep = 1
  UpJump = 2
  TopFlat = 1
  TopJump = 2
  TopMax = 4
  StartLow = 6
  InnerMax = 8
  Toppoints <- MCToppoints
  TagToppoints <- MCTagToppoints
  RowKinds <- MCRowKinds
INVARIANTS
  ThresholdIsOtsu
  BothColours
  RowsWereFound
  LoopIsThere
PROPERTIES
  WholeLineParsed
  BeginningParsed
