SPECIFICATION CertSpec
CONSTANTS
  Callers = {c1, c2}
  Workers = {w1}
  Domains = {d1, d2}
  NoDomain = NoDomain
  MaxRuns = 2
  MaxRestarts = 1
  RetentionDays = 1
  MaxDay = 3
SYMMETRY Symmetry
INVARIANT ListIsTheFile
INVARIANT LatestIsCurrent
INVARIANT OldChecksAreGone
PROPERTY RecentChecksAreKept
\* The bounds on the refreshes and on the calendar may be spent: the service rests.
CHECK_DEADLOCK FALSE
