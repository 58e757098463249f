SPECIFICATION Spec
CONSTANTS
  Requests = {r1, r2}
  IPs = {i1, i2}
  Users = {u1, u2}
  IPMaxFailures = 2
  PairMaxFailures = 1
  FailureWindow = 1
  Lockout = 2
  MaxTrackedIPs = 1
  MaxTrackedPairs = 2
  PruneEvery = 3
  MaxTime = 4
SYMMETRY Symmetry
INVARIANT IInv
INVARIANT TablesAreBounded
PROPERTY LockoutLasts
