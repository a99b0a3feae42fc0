CONSTANTS
  None = None
SPECIFICATION UserSpec
INVARIANTS
  SleepsLongEnough
  ForegroundDone
  HeapSound
  KernelCodeCorrect FiltersCorrect ParserCorrect
PROPERTIES
  SleepReturns
  PromptReturns
