SPECIFICATION Spec
CONSTANTS
  Domains = {d1, d2}
  FileDomains = {d1, d2}
  Requests = {r1}
  Main = main
  RetentionDays = 1
  NoItem = NoItem
  Days = {0, 2}
  MaxCalls = 2
  MaxClaims = 1
  MaxErrors = 1
  MaxRestarts = 1
SYMMETRY Symmetry
INVARIANT QueueAllIsComplete
INVARIANT ExpiredIsGone
PROPERTY SplitIsRepaired
\* The bounds may be spent: the system rests.
CHECK_DEADLOCK FALSE
