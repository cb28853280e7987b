SPECIFICATION LinkSpec
CONSTANTS
  MaxLen = 3
  Lines = 2
  LineLens = {0, 1, 3, 4}
  MaxHeard = 2
PROPERTIES
  WritesInArray
