SPECIFICATION Spec
CONSTANTS
  k1 = k1
  k2 = k2
  v1 = v1
  Keys = {k1, k2}
  Values = {v1}
  Absent = Absent
  Ttls = {1}
  Second = 2
  Hz = 10
  ActiveExpire = TRUE
  FreedKeyLost = TRUE
  OutOfMemory = FALSE
  MaxClock = 5
INVARIANT ReadsRespectDeadline
