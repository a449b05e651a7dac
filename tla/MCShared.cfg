SPECIFICATION Spec
CONSTANTS
  Sessions = {s1, s2}
  Threads = {t1, t2}
  Objects = {o1, o2}
  NULL = NULL
  Users = {u1, u2, u3, u4}
  Creator = u1
  Modulus = 8
  max_recent_msgs = 2
  max_body_length = 2
  SizeModulus = 8
  Headers = {0, 3}
  MaxPosts = 4
  Lengths = {1, 3}
  MaxMsgs = 3
INVARIANTS
  CountIsReferences FreedOnce CountIsUsers OneInstance StreamInOrder
PROPERTIES
  NeverRevived ImplementsRWLock ImplementsBroadcast MemberIsServed QuitEndsUnit
  ProviderEnds ConnectsClosedSockets
CHECK_DEADLOCK FALSE
