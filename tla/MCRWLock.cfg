SPECIFICATION SpecBoth
CONSTANTS
  Threads = {t1, t2, t3}
  RPThreads = {r1, r2, r3, r4}
  Modulus = 6
INVARIANTS WordCountsHolders WritersFirst
PROPERTIES
  RPImplementsRWLock AnnouncedReaderEnters
  ImplementsRWLock QueuedWriterEnters
