SPECIFICATION HSpec
CONSTANTS
  k1 = k1
  k2 = k2
  v1 = v1
  Keys = {k1, k2}
  Values = {v1}
  Absent = Absent
  Ttls = {3}
  Policy = "always"
  BufMax = 1
  Big = {}
  Faults = {}
  RenameDurable = TRUE
  FreedKeyLost = FALSE
  MaxCrashes = 2
  MaxClock = 1
  MaxFile = 4
SYMMETRY Symmetry
INVARIANTS RecoveredOwed CompactionFaithful RestartsWithData TruncatesOnlyCorrupt
PROPERTY ImplementsPromise
