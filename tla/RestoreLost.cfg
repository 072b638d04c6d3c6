SPECIFICATION Spec
CONSTANTS
  HaStates = {"started", "stopped", "ignored", "disabled"}
  Lost = {"restore"}
INVARIANTS NeverRunsHalfRestored
CHECK_DEADLOCK FALSE
