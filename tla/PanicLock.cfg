SPECIFICATION Spec
CHECK_DEADLOCK FALSE
CONSTANTS
  Exceptions = {"BP", "DB", "DB-debugger", "NMI", "MC", "DF", "PF", "UD", "DE", "unassigned", "irq"}
  MAX_EVENTS = 1
  DEPTH = 8
  MAX_FRAMES = 2
  Actions = {"Halt", "Reboot", "Triple"}
  CORRUPT = TRUE
INVARIANT PanicWaitsForNobody
