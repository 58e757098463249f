SPECIFICATION AizhanSpec
CONSTANTS
  Callers = {c1, c2}
  Nobody = Nobody
  Retries = 2
  Attempts = {1, 2, 4}
  MinDelay = 1
  MaxDelay = 3
  MaxDuration = 10
  BaseCooldown = 3
  Hour = 5
  RetryAfters = {0, 4}
  MaxTime = 14
SYMMETRY Symmetry
PROPERTY SpacingIsKept
PROPERTY AizhanBlocksAreObeyed
\* The bound on the clock may be reached while a caller sleeps.
CHECK_DEADLOCK FALSE
