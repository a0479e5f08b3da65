CONSTANTS
  File = {1, 2}
  Source = {here}
  GenId = {1, 2, 3, 4, 5, 6, 7, 8}
  MaxVersion = 4
  ValidTrees <- MCValidTrees
  Removable = {1}
  MaxOfAKind = 1
  MaxFaults = 0
  None = None
SPECIFICATION Spec
INVARIANT SkipsOnlyCurrent
