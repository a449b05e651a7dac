SPECIFICATION FairSpec
CONSTANTS
  Threads = {t1, t2, t3}
  Crit = {c1}
  Lite = {l1}
  Fair = {f1}
  NULL = NULL
  Modulus = 4
INVARIANTS LocksKnowTheirHolders
PROPERTIES ImplementsLock AssignmentEnds
