SPECIFICATION CountSpec
CONSTANTS
  Functions <- Names
  Tokens <- AllTokens
  Initializer <- InitializerOf
  Bodies <- AllGraphs
  Start = "start"
  Target = "engine"
  Limits <- MCLimits
  Counts = {1, 2}
INVARIANTS
  AcceptedExactly
  MemoSound
PROPERTY CountEnds
CHECK_DEADLOCK FALSE
