CONSTANTS
  Runs = {r1}
  Threads = {t1}
  RuntimeEventTypes = {"source.added"}
  Nil = Nil
  Cancellers = {c1}
  Strangers = TRUE
  Faults <- NoFaults
  MaxPublished = 1
SPECIFICATION Spec
INVARIANT
  RefusedCancelHasNoEffect
