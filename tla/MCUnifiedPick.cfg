SPECIFICATION Spec
CONSTANTS
  Helpers <- HelperTable
  Statics <- MCStatics
  CutBackedges <- NoNames
  Repeats = 2
  Questions <- MCQuestions
  Boundaries <- MCBoundaries
  Foreign <- Outside
  Bodies <- OnlyPick
  Inputs <- AllInputs
  Inspection <- Inspect
  Execution <- Outcome
INVARIANTS
  FailsClosed
CHECK_DEADLOCK FALSE
