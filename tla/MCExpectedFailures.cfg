CONSTANTS
  Paths = {"A", "B"}
  Categories = {"type", "privacy"}
  Silent = Silent
  Inventories <- MCInventories
  Disks = {{"A"}, {"A", "B"}}
  Answers <- MCAnswers
SPECIFICATION Spec
INVARIANTS
  TypeOK
  VerifiedExactly
  AcceptComplete
PROPERTIES
  Terminates
CHECK_DEADLOCK FALSE
