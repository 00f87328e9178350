CONSTANTS
  BlockNum = 3
  Sizes = {64, 65}
SPECIFICATION RaceSpec
PROPERTIES
  NeverGivenTwice
