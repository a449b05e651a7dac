SPECIFICATION Spec
CONSTANTS
  Threads = {t1, t2}
  Objects = {o1, o2}
  NULL = NULL
  PoolSize = 6
  MAXIMUM_WAIT_OBJECTS = 3
  SizeModulus = 16
  Inputs = {0, 1, 2, 15}
  Count = 4
  Times = {1, 2}
  MaxPushes = 3
  Rows = 3
  Columns = 2
  Start = 1
  XBound = 1
  MaxRows = 4
  IDs = {0, 1, 3}
  Types = {"Base", "Invite"}
  sizeof <- MCsizeof
  Sizes = {0, 1, 3, 5}
  WordModulus = 4
  eWorks_CNT = 2
  MaxConstructed = 3
  Events = {e1, e2}
  MaxRegistered = 3
  MAX = 2
  Years = {1}
  Amounts = {2}
  MaxInputs = 3
  Versions <- MCVersions
  Values = {0, 1, 2}
  MaxLen = 8
  BITCOUNT = 5
  CHAR_BIT = 2
  Positions <- MCPositions
  MaxLength = 9
  Octets <- MCOctets
  MaxOctets = 4
  Leftovers = {0, 1}
INVARIANTS
  EncodingsAgree QueuesInOrder LedgerBalances
PROPERTIES
  TurnRestoresPool DispatchedAsRegistered LoadedAsSaved
CHECK_DEADLOCK FALSE
