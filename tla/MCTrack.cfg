SPECIFICATION Spec
CONSTANTS
  W = 10
  Bottom = 5
  CarryRow = 4
  LookBack <- MCLookBack
  TopFirst = 4
  TopLast = 3
  TopMin = 3
  TopMax = 4
  StartMin = 3
  StartMax = 6
  RowImages <- MCRowImages
INVARIANTS
  CentreBetween
  RoadFollowed
  StartRowsLowest
  ToppointIsRoadsEnd
