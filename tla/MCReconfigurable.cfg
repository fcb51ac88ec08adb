CONSTANTS
  Input = 0
  MaxDepth = 4
  Scope <- MCScope
  Inputs <- MCInputs
  Start <- MCStart
SPECIFICATION Spec
INVARIANTS
  Inductive
  AdvanceConverges
  SeedFollowsGeneration
  NextSelectionFresh
  AssignmentAccepted
PROPERTIES
  ReducedSpec
  SourceSpec
