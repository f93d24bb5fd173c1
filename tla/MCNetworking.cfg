SPECIFICATION FairSpec
CONSTANTS
  c1 = c1
  c2 = c2
  c3 = c3
  Conns = {c1, c2, c3}
  NoConn = NoConn
  MaxFd = 2
  ReadCap = 2
  WCap = 2
  RecvCap = 1
  MaxEvents = 6
  Timeout = 1
  Workloads <- MCWorkloads
  Greedy = {c1}
INVARIANTS TypeOK BookkeepingAgrees NoLostWakeup AnswersInOrder ExecutedOnce
PROPERTIES WellBehavedKept Answered SilentAreDropped
