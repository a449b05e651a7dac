SPECIFICATION Spec
CONSTANTS
  Threads = {p}
  Clients = {c1}
  Hosts = {h1}
  Others = {d1}
  Stages = {s1}
  None = None
  RepeatCnt = 3
  QueueCap = 2
INVARIANTS HostableClientsAreConnected
