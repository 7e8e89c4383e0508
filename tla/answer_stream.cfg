SPECIFICATION Spec
CONSTANTS
  MinPhrase = 2
  Target = 3
  FrameMax = 5
  MaxAnswer = 6
  MaxChunk = 3
INVARIANTS
  DeltasAreTheAnswer
  HeldTextIsTimed
CHECK_DEADLOCK FALSE
