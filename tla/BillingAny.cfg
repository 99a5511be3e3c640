CONSTANTS
  MaxSubs = 2
  MaxNow = 3
  Month = 1
  Day = 1
  MaxFaults = 1
SPECIFICATION FairSpec
INVARIANTS
  BilledOnce
  HoursKept
  LedgerCovers
PROPERTIES
  PeriodsEnd
CHECK_DEADLOCK FALSE
