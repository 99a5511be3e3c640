\* Two calls that ask together, two subscriptions, a crash or a failed write.
SPECIFICATION Spec
CONSTANTS
  r1 = r1
  r2 = r2
  s1 = s1
  s2 = s2
  Requests = {r1, r2}
  Subscribers = {s1, s2}
  MaxFaults = 1
SYMMETRY Symmetric
CHECK_DEADLOCK FALSE
INVARIANTS OnlyGrantedRuns WaiterIsRegistered
PROPERTIES RestoreCovers
