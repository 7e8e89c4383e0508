\* A page that holds one event; three requests or responses fail.
SPECIFICATION FairSpec
CONSTANTS
  MaxSeq = 5
  MaxBreaks = 3
  Start = 1
INVARIANTS
  ExactlyOnceInOrder
  ResponseCarriesLog
  DoneHasTerminal
PROPERTIES
  EveryEventArrives
