CONSTANTS
  Threads = {t1, t2}
  Runs = {r1, r2}
  Subjects = {alice}
  Keys = {k1, k2}
  Contents = {m1}
  Callers = {c1, c2}
  RuntimeEventTypes = {"message.delta"}
  RowLocks = TRUE
  MaxSeq = 5
  Nil = Nil
SYMMETRY Symmetry
SPECIFICATION Spec
INVARIANTS
  RowLockPreventsRace
  LogMatchesCursor
  TerminalFactsAgree
  FirstVisibleIsFirstDelta
PROPERTIES
  TerminalImmutable
  ContextStable
  ImplementsRunLifecycle
