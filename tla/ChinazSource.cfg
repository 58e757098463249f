SPECIFICATION ChinazSpec
CONSTANTS
  Queues = {"weights", "supplement"}
  Nobody = Nobody
  Requests <- RequestsOfEach
  Timeout <- TimeoutOfEach
  MinDelay = 1
  MaxDelay = 2
  BaseCooldown = 2
  Hour = 5
  RetryAfters = {0, 3}
  MaxTime = 9
INVARIANT OutageCostsOneAttempt
PROPERTY ChinazBlocksAreObeyed
PROPERTY RequestsArePaced
\* The bound on the clock may be reached while the workers sleep.
CHECK_DEADLOCK FALSE
