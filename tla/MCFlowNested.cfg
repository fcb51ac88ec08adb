SPECIFICATION Spec
CONSTANTS
  Helpers <- HelperTable
  Statics <- MCStatics
  Unfold <- NoNames
  Terminals <- Summaries
  CutBackedges <- OnlyEntry
  Repeats = 0
  Ambiguous <- Twice
  Bodies <- NestedBodies
  InputsFor <- MCInputsFor
  Honest <- MCHonest
  Inspection <- Inspect
  Execution <- Outcome
INVARIANTS
  BranchesKept
CHECK_DEADLOCK FALSE
