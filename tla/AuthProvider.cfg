SPECIFICATION Spec
CONSTANTS
  StartStates = {"not_connected"}
INVARIANT KeepsInTouch
CHECK_DEADLOCK FALSE
