SPECIFICATION FairSpec
CONSTANTS
  Threads = {p}
  Clients = {c1, c2}
  Hosts = {h1}
  Others = {}
  Stages = {s1, s2}
  None = None
  RepeatCnt = 3
  QueueCap = 2
INVARIANTS ResourceInOnePlace LossIsCleared
PROPERTIES GoneClientReleased
