CONSTANTS
  Request = {r1, r2}
  Endpoint = {tab, scan}
  Scans = {scan}
  Uncached = {}
  Caller = {c1}
  Def = {v1, v2}
  Table = {t1, t2, t3}
  PoolSize = 2
  RemoteCap = 1
  MaxGen = 1
  None = None
SYMMETRY Symmetry
SPECIFICATION Spec
INVARIANTS TypeOK AnswersTrue TablesThere PoolSound
