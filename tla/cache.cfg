CONSTANTS
  Writer = {w1, w2}
  CacheMax = 3
  MaxSeq = 10
  MaxFlush = 1
  None = None
SYMMETRY Symmetry
SPECIFICATION Spec
INVARIANTS TypeOK Bounded
