SPECIFICATION FairSpec
CONSTANTS
  Threads = {t1, t2, t3}
  Top = 4
INVARIANTS TurnsComeInOrder
PROPERTIES ImplementsRWLock QueuedThreadEnters
