SPECIFICATION Spec
CONSTANTS
  N = 2
  Fields = 2
  BaiduFields = {1}
  NoWeight = NoWeight
  NoSnapshot = NoSnapshot
  Snapshots <- SomeDays
  Urls = 2
  Limits = {4, 5, 7}
  Day = 2
  ClockChanges <- SomeChanges
  MaxTime = 3
  MaxSetbacks = 1
  MaxRestarts = 1
INVARIANT EveryChangeIsReported
INVARIANT PagesAreReadable
INVARIANT SuccessMeansDelivered
INVARIANT EveryDayIsAccountedFor
\* The bound on the clock may be reached while the daemon waits.
CHECK_DEADLOCK FALSE
