SPECIFICATION FairSpec
CONSTANTS
  Callers = {c1, c2}
  Workers = {w1, w2}
  Domains = {d1, d2}
  NoDomain = NoDomain
  MaxRuns = 2
  MaxRestarts = 1
  N = 2
  MaxConcurrent = 1
INVARIANT OneRefresh
INVARIANT ProgressAddsUp
INVARIANT FailureIsUnanimous
PROPERTY EveryRefreshEnds
\* The bound on the refreshes may be spent: the service rests.
CHECK_DEADLOCK FALSE
