SPECIFICATION Spec
CONSTANTS
  Helpers <- HelperTable
  Statics <- MCStatics
  CutBackedges <- NoNames
  Repeats = 2
  Questions <- MCQuestions
  Boundaries <- MCBoundaries
  Foreign <- Outside
  Bodies <- AllBodies
  Inputs <- AllInputs
  Inspection <- Inspect
  Execution <- Outcome
INVARIANTS
  CountSound
  CaptureSound
CHECK_DEADLOCK FALSE
