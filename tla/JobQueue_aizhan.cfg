SPECIFICATION Spec
CONSTANTS
  Source = "aizhan"
  Domains <- OneDomain
  Keys <- OneKey
  DomainOf <- DomainOfOne
  Jobs <- TwoJobs
  KeyOf <- KeyOfOne
  Workers = {w1}
  Callers = {c1}
  NoJob = NoJob
  NoKey = NoKey
  MaxRetries = 2
  MaxRequests = 2
  MaxRestarts = 1
  MaxErrors = 1
  MaxToggles = 1
INVARIANT OneOpenJobPerKey
INVARIANT ExclusiveClaim
INVARIANT AttemptsAreCharged
INVARIANT ExhaustionIsEarned
INVARIANT AutomaticCallGivesUp
PROPERTY SettledStaysSettled
PROPERTY ImplementsLifecycle
PROPERTY ResultBeforeSuccess
\* The queue may be empty and every bound spent: the system then rests.
CHECK_DEADLOCK FALSE
