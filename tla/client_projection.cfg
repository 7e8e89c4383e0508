\* Two Runs in two Threads; the second Thread is created by its first message.
SPECIFICATION Spec
CONSTANTS
  t1 = t1
  t2 = t2
  Nil = Nil
  Threads = {t1, t2}
  ThreadOf <- TwoThreads
  Fresh = {t2}
  MaxDeltas = 1
  MaxRequests = 2
  MaxOpens = 2
  MaxFailures = 1
  Reopen = FALSE
INVARIANTS
  ShownIsSelected
  NoTextLost
  NoSilentStall
PROPERTIES
  TerminalEventIsFinal
CHECK_DEADLOCK FALSE
