\* Two accounts and two Threads, at most two Runs with two attempts each.
SPECIFICATION Spec
CONSTANTS
  Nil = Nil
  Accounts = {a1, a2}
  Threads = {t1, t2}
  Tokens = {0, 2}
  MaxRuns = 2
  MaxAttempts = 2
SYMMETRY Symmetry
INVARIANTS
  TotalsAreExact
  AnswersAddUp
CHECK_DEADLOCK FALSE
