SPECIFICATION FairSpec
CONSTANTS
  k1 = k1
  k2 = k2
  v1 = v1
  Keys = {k1, k2}
  Values = {v1}
  Absent = Absent
  Ttls = {1, 2}
  Second = 2
  Hz = 10
  ActiveExpire = TRUE
  FreedKeyLost = FALSE
  OutOfMemory = TRUE
  MaxClock = 5
INVARIANTS TypeOK TablesAgree ReadsRespectDeadline TtlTellsDeadline
PROPERTY LapsedIsRemoved
