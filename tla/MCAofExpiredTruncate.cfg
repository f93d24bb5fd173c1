SPECIFICATION HSpec
CONSTANTS
  k1 = k1
  v1 = v1
  Keys = {k1}
  Values = {v1}
  Absent = Absent
  Ttls = {1}
  Policy = "always"
  BufMax = 1
  Big = {}
  Faults = {}
  RenameDurable = TRUE
  FreedKeyLost = FALSE
  MaxCrashes = 2
  MaxClock = 3
  MaxFile = 4
INVARIANT TruncatesOnlyCorrupt
