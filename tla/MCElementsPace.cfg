CONSTANTS
  LoopGate = 1  ForkGate = 1  RampBack = 1  RampOut = 1  RampLength = 1
  ForkNear = 0  ForkAuto = 1  LoopNear = 1  LoopSeen = 0  LoopPassedL = 1
  LoopPassedR = 0  StartOut = 0  StartArc = 0  StartAngle = 0
  TurnedL = 1  TurnedR = 1  TurnedBack = 2  FullTurn = 4
  MaxDistance = 2  MaxCount = 1  MaxPresses = 2  MaxTurns = 2
SPECIFICATION PaceSpec
PROPERTIES
  StartIsLeft
  RoundLoopIsLeft
