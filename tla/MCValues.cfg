SPECIFICATION Spec
CONSTANTS
  Half = 8
  Den = 6
  Size = 3
  Kinds = {"Int", "Real", "IntArray", "FloatArray", "Data", "FFInt", "FFReal", "FFShort"}
  Factors <- SomeFactors
  NotNumber = NotNumber
  Inputs <- SomeInputs
  Simulated <- SomeCells
  None = None
  Stray = 9
  MaxBack = 120
CHECK_DEADLOCK FALSE
INVARIANTS TypeOK ReadsShowWrites
PROPERTIES WriteBackKeepsReading
