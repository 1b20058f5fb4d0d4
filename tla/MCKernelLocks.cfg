SPECIFICATION Spec
CONSTANTS
  LOG_LEVEL = 1
  TARGET = "both"
  Irqs = {"key"}
  RAISE = {"plain"}
INVARIANTS
  NobodySpins
PROPERTIES
  LocksNestInOrder
CHECK_DEADLOCK FALSE
