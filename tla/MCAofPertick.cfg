SPECIFICATION HFairSpec
CONSTANTS
  k1 = k1
  v1 = v1
  Keys = {k1}
  Values = {v1}
  Absent = Absent
  Ttls = {3}
  Policy = "pertick"
  BufMax = 1
  Big = {}
  Faults = {"fsync", "child", "finalize"}
  RenameDurable = TRUE
  FreedKeyLost = FALSE
  MaxCrashes = 2
  MaxClock = 1
  MaxFile = 3
INVARIANTS RecoveredOwed ServingFileSound RewriteStateOK
PROPERTIES ImplementsPromise RewriteEnds AppendedBecomesDurable
