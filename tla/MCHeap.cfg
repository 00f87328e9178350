CONSTANTS
  BlockNum = 3
  Sizes = {64, 65, 8192}
SPECIFICATION Spec
INVARIANTS
  TypeOK
  ListIsFreeBlocks
  NearestBlock
PROPERTIES
  ImplementsFreeLists
