SPECIFICATION Spec
CONSTANTS
  k1 = k1
  t1 = t1
  t2 = t2
  p1 = p1
  p2 = p2
  doc = doc
  None = None
  Keys = {k1}
  Tags = {doc}
  Values <- MCValues
  l1_max_entries = 1
  Procs = {p1, p2}
  Tasks = {t1, t2}
  ProcOf <- MCProcOf
  TagsOf <- MCTagsOf
  MaxVersion = 1
  MaxFaults = 1
INVARIANTS
  TypeOK
  IndexExact
PROPERTIES
  Purges
  StaleDies
CHECK_DEADLOCK FALSE
