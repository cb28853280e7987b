SPECIFICATION FairSpec
CONSTANTS
  KeyCount = 1
  RT_TICK_MAX = 17
  MsPerTick = 0
  Delay = 1
  Elimination = 3
  TwoInterval = 4
  HoldCycle = 2
  CountRange = 3
  MaxRound = 2
PROPERTIES
  Debounced
  OneClickPerPress
  KeysFollow
