\* Two Runs that share one permit, each with a queue of one place.
SPECIFICATION FairSpec
CONSTANTS
  Runs = {r1, r2}
  Capacity = 1
  Concurrency = 1
  MaxEvents = 1
  Faults = {"hang", "convert", "append", "slow"}
INVARIANTS
  StreamEndHasVerdict
PROPERTIES
  ProducerNotStranded
  CleanupIsBounded
CHECK_DEADLOCK FALSE
