\* Two model calls, two cancel requests, writes that roll back or commit late.
SPECIFICATION FairSpec
CONSTANTS
  Nil = Nil
  Cancellers = {c1, c2}
  Tokens = {0, 3}
  MaxCalls = 2
  Faults = {"rollback", "late_commit"}
INVARIANTS
  NoMeteringError
  FrozenUsageIsExact
  CancelKeepsSeenUsage
PROPERTIES
  SettlementEnds
CHECK_DEADLOCK FALSE
