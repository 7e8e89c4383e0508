CONSTANTS
  Threads = {t1}
  Runs = {r1, r2}
  Subjects = {alice, bob}
  Keys = {k1, k2}
  Contents = {m1, m2}
  Callers = {c1, c2}
  RuntimeEventTypes = {}
  RowLocks = FALSE
  MaxSeq = 2
  Nil = Nil
SYMMETRY Symmetry
SPECIFICATION Spec
INVARIANTS
  OneActiveRunPerThread
  AdmissionAgreement
  OwnershipHolds
