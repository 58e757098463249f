SPECIFICATION FairSpec
CONSTANTS
  Source = "chinaz"
  Domains <- OneDomain
  Keys <- OneKey
  DomainOf <- DomainOfOne
  Jobs <- TwoJobs
  KeyOf <- KeyOfOne
  Workers = {w1, w2}
  Callers = {c1}
  NoJob = NoJob
  NoKey = NoKey
  MaxRetries = 1
  MaxRequests = 2
  MaxRestarts = 1
  MaxErrors = 1
  MaxToggles = 0
INVARIANT IInv
PROPERTY EveryJobSettles
\* The queue may be empty and every bound spent: the system then rests.
CHECK_DEADLOCK FALSE
