SPECIFICATION Spec
CONSTANTS
  Source = "aizhan"
  Domains <- OneDomain
  Keys <- OneKey
  DomainOf <- DomainOfOne
  Jobs <- TwoJobs
  KeyOf <- KeyOfOne
  Workers = {w1}
  Callers = {c1}
  NoJob = NoJob
  NoKey = NoKey
  MaxRetries = 1
  MaxRequests = 2
  MaxRestarts = 0
  MaxErrors = 0
  MaxToggles = 0
\* The queue may be empty and every bound spent: the system then rests.
CHECK_DEADLOCK FALSE
PROPERTY ExhaustedDayIsNotRebuilt
