CONSTANTS
  MaxSlot = 3
  Input = 0
  MaxDepth = 3
  Scope <- MCScope
  Inputs <- MCInputs
  Slots <- MCSlots
  Start <- MCStart
  Sources <- MCSources
  Reduction <- MCProduceProblem
  Follow <- MCFireCircuit
  IdentityCircuit <- MCIdentity
  Discovered <- MCDiscover
  Variables = {1, 2, 12, 14}
SPECIFICATION Spec
INVARIANTS
  CoherentOnceConfigured
  RoutedIsCurrent
  RoutedIsLive
  AdmissionExact
  RetainedIrreducible
  DecisionsFresh
PROPERTIES
  RouteExact
  ViabilityPreserved
