SPECIFICATION FairSpec
CONSTANTS
  ConfigFiles <- MCConfigFiles
  RecordSize = 32
  MaxSize = 96
  MaxStreak = 3
  MaxSignals = 2
  MaxStarts = 2
INVARIANTS TypeOK ConfigAsWritten BackoffAsDocumented
PROPERTIES NoQuietRewrite AutoRewriteHonoursBackoff SignalEndsServer OutgrownIsCompacted RewriteSettles
