SPECIFICATION Spec
CONSTANTS
  community = community
  game = game
  Accounts = {a1, a2}
  Lobbies = {lobby}
  Communities = {community}
  Games = {}
  UidOf <- MCUidOf
  World <- MCWorld
  ChildrenOf <- MCChildrenOf
  KickByDupeLogin = TRUE
  ExpirePeriod = 1
  MaxIds = 1
  MaxServerKeys = 2
  MaxSessions = 3
  MaxPending = 1
  MaxListed = 2
SYMMETRY Symmetry
INVARIANTS MapsAgree
PROPERTIES AcceptedLoginSucceeds NewPlayersAreOnLiveServers
