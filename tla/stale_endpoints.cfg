CONSTANTS
  d1 = d1  e1 = e1  s1 = s1  s2 = s2  s3 = s3
  plain = plain  tenant = tenant  wide = wide  home = home  other = other  None = None
  Dataset = {d1}
  Endpoint = {e1}
  SnapshotId = {s1, s2}
  Contract = {plain, tenant, wide}
  Tenanted = {tenant}
  Path = {home}
  Polled = {home}
  Table = {t1, t2, t3, t4, t5}
  Configs <- EndpointConfigs
  Faults = {}
  Limit <- Limit300
SYMMETRY Symmetry
SPECIFICATION Spec
INVARIANT Converged
