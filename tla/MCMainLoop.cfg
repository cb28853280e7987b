SPECIFICATION FairSpec
CONSTANTS
  OpenArtNums <- MCNums
  MaxPresses = 3
INVARIANTS
  LaserOnlyForFruit
  StandsWhilePerforming
  CurrentControlRuns
PROPERTIES
  KeepsPromise
  AcceptedIsPerformed
