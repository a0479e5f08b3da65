CONSTANTS
  File = {1, 2}
  Source = {here, there}
  GenId = {1, 2, 3, 4, 5, 6, 7, 8}
  MaxVersion = 2
  ValidTrees <- MCValidTrees
  Removable = {1}
  MaxOfAKind = 1
  MaxFaults = 2
  None = None
SPECIFICATION FairSpec
INVARIANTS TypeOK CurrentWhole SkipsOnlyCurrent SnapshotFiles
PROPERTY CatchesUp
