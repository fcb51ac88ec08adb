CONSTANTS
  MaxSlot = 2
  Input = 0
  MaxDepth = 3
  Scope <- MCScope
  Inputs <- MCInputs
  Slots <- MCSlots
  Start <- MCStart
  Sources <- MCSources
  Reduction <- MCProduceProblem
  Follow <- MCFireCircuit
  IdentityCircuit <- MCIdentity
SPECIFICATION Spec
INVARIANTS
  RichCoherent
PROPERTIES
  ProjectedSpec
