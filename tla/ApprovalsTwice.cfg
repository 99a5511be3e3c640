\* One call, one subscription and no fault.
SPECIFICATION Spec
CONSTANTS
  r1 = r1
  s1 = s1
  Requests = {r1}
  Subscribers = {s1}
  MaxFaults = 0
CHECK_DEADLOCK FALSE
INVARIANTS RunsOnce
