SPECIFICATION Spec
CONSTANTS
  k1 = k1
  v2 = v2
  v1 = v1
  Keys = {k1}
  Values = {v1, v2}
  Absent = Absent
  Ttls = {1}
  Policy = "always"
  BufMax = 1
  Big = {v2}
  Faults = {"write", "realloc", "fork", "child", "finalize", "truncate"}
  RenameDurable = TRUE
  FreedKeyLost = TRUE
  MaxClock = 3
  MaxFile = 2
INVARIANTS TypeOK NoOrphanTtl
