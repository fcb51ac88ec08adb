SPECIFICATION Spec
CONSTANTS
  Helpers <- HelperTable
  Statics <- MCStatics
  Unfold <- NoNames
  Terminals <- Summaries
  CutBackedges <- OnlyEntry
  Repeats = 0
  Ambiguous <- Twice
  Bodies <- MCBodies
  InputsFor <- MCInputsFor
  Honest <- MCHonest
  Inspection <- Inspect
  Execution <- Outcome
INVARIANTS
  RunCovered
  ForeignWritesRefused
  FrameFaithful
  ContractFaithful
  HonestAccepted
CHECK_DEADLOCK FALSE
