SPECIFICATION Spec
CONSTANTS
  MAX = 2
  Years = {1}
  Amounts = {2}
  MaxInputs = 3
  NULL = NULL
INVARIANT FileBalances
CHECK_DEADLOCK FALSE
