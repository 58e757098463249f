SPECIFICATION Spec
CONSTANTS
  MaxFetches = 3
  MaxRestarts = 1
INVARIANT PreferredIsShown
INVARIANT WeightsAreAttributed
INVARIANT LatestAttemptDecides
INVARIANT LegacyIsKept
PROPERTY SourcesKeepApart
\* The bound on the fetches may be spent and the migrations done: the system rests.
CHECK_DEADLOCK FALSE
