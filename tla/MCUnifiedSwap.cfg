SPECIFICATION Spec
CONSTANTS
  Helpers <- HelperTable
  Statics <- MCStatics
  CutBackedges <- NoNames
  Repeats = 2
  Questions <- MCQuestions
  Boundaries <- MCBoundaries
  Foreign <- Outside
  Bodies <- OnlySwap
  Inputs <- AllInputs
  Inspection <- Inspect
  Execution <- Outcome
INVARIANTS
  FixedPointSound
CHECK_DEADLOCK FALSE
