SPECIFICATION Spec
CONSTANTS
  Contents <- Objects
  LowerWord <- Lowered
  Key <- SpecKey
INVARIANTS
  ParseIsAChoice
CHECK_DEADLOCK FALSE
