SPECIFICATION FairSpec
CONSTANTS
  community = community
  game = game
  Accounts = {a1}
  Lobbies = {lobby}
  Communities = {community}
  Games = {game}
  UidOf <- MCUidOf
  World <- MCWorld
  ChildrenOf <- MCChildrenOf
  KickByDupeLogin = TRUE
  ExpirePeriod = 1
  MaxIds = 1
  MaxServerKeys = 3
  MaxSessions = 3
  MaxPending = 1
  MaxListed = 2
INVARIANTS SessionsAgree SessionsExpireInTurn
PROPERTIES TickExpiresExactlyTheDue SessionsClose
CHECK_DEADLOCK FALSE
