SPECIFICATION Spec
CONSTANTS
  LOG_LEVEL = 2
  TARGET = "both"
  Irqs = {"timer", "heartbeat"}
  RAISE = {}
INVARIANT TimerHandlerNeverWaits
CHECK_DEADLOCK FALSE
