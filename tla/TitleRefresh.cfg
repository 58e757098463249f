SPECIFICATION TitleSpec
CONSTANTS
  Callers = {c1, c2}
  Workers = {w1, w2}
  Domains = {d1, d2}
  Titles = {t1, t2}
  NoTitle = NoTitle
  NoDomain = NoDomain
  MaxRuns = 3
  MaxRestarts = 1
SYMMETRY Symmetry
INVARIANT ReadIsCurrent
INVARIANT HistoryIsTheChange
\* The bound on the refreshes may be spent: the service rests.
CHECK_DEADLOCK FALSE
