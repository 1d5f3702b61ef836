SPECIFICATION Spec
CONSTANTS
  Half = 8
  Den = 6
  Size = 3
  Kinds = {"IntArray", "FloatArray"}
  Factors <- WholeFactors
  NotNumber = NotNumber
  Inputs <- SomeInputs
  Simulated <- SomeCells
  None = None
  Stray = 9
  MaxBack = 120
CHECK_DEADLOCK FALSE
INVARIANTS FactorIsUndone
