SPECIFICATION FairSpec
CONSTANTS
  Buf1 = Buf1
  Buf2 = Buf2
  NoBuf = NoBuf
  RT_SEM_VALUE_MAX = 3
  FrameEndsInReset = FALSE
INVARIANTS
  ShownIsWhole
  AtMostTwice
  TornIsReplaced
PROPERTIES
  ReportsFilledBuffer
  KeepsPromise
  NewsIsRead
