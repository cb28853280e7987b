SPECIFICATION FairSpec
CONSTANTS
  OpenArtNums <- MCGestureNums
  MaxPresses = 1
PROPERTIES
  FruitOpensLaser
