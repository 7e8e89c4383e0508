SPECIFICATION FairSpec
CONSTANTS
  Runs = {r1}
  Threads = {t1}
  RuntimeEventTypes = {"source.added"}
  Nil = Nil
  Cancellers = {c1, c2}
  Strangers = TRUE
  Faults <- AllFaults
  MaxPublished = 1
PROPERTIES
  EveryRunEnds
  RecoveryEndsEveryRun
  EveryCancelAnswered
