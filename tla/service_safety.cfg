CONSTANTS
  Runs = {r1, r2}
  Threads = {t1, t2}
  RuntimeEventTypes = {"source.added"}
  Nil = Nil
  Cancellers = {c1}
  Strangers = FALSE
  Faults <- WorkerFaults
  MaxPublished = 1
SYMMETRY Symmetry
SPECIFICATION Spec
INVARIANTS
  NoStrandedRun
  EvidenceMatchesLog
PROPERTY
  FatalStopsNewCalls
