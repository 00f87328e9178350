CONSTANTS
  a = a
  b = b
  c = c
  d = d
  e = e
  x = x
  y = y
  Names = {a, b, c, d, e}
  Paths = {a, b}
  ShortFor <- MCShortFor
  EndMark = EndMark
  Deleted = Deleted
  Data = {x, y}
  Junk = Junk
  Input = {y}
  NULL = NULL
  Units = 2
  LastCluster = 16
  RootEntries = 4
  SectorEntries = 2
  Images <- MCImages
  Readings <- MCReadings
  Numbers <- MCNumbers
  MaxOpenedFiles = 2
  MaxSize = 6
  Counts = {3}
  Offsets = {0}
  MaxCuts = 1
  MaxOpenAfterCut = 1
SPECIFICATION Spec
INVARIANTS
  TypeOK
  NoSharedCluster
  SizeIsCovered
  NoStrayWrites
  NamesListedOnce
PROPERTIES
  ImplementsFileStore
