SPECIFICATION HSpec
CONSTANTS
  k1 = k1
  v1 = v1
  Keys = {k1}
  Values = {v1}
  Absent = Absent
  Ttls = {3}
  Policy = "always"
  BufMax = 1
  Big = {v1}
  Faults = {}
  RenameDurable = TRUE
  FreedKeyLost = FALSE
  MaxCrashes = 2
  MaxClock = 1
  MaxFile = 4
INVARIANT RecoveredOwed
