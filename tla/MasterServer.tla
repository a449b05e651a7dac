---------------------------- MODULE MasterServer ----------------------------
(***************************************************************************)
(* The master server's message handlers (MsgHandler.cpp), its table of     *)
(* live servers (SvcConfig.cpp) and its player manager.  The master is     *)
(* single threaded: a handler, or a tick of the session validator, runs to *)
(* its end before the next one starts.  What is concurrent is the          *)
(* environment: lobby and community servers that connect, register, report *)
(* and disconnect in any order, logins that wait for the database, and     *)
(* time.                                                                   *)
(***************************************************************************)
EXTENDS PlayerManager

CONSTANTS
  Accounts,         \* account names
  UidOf,            \* the uid the database has for an account
  Lobbies, Communities, Games,     \* the servers of each kind
  World,            \* the world a community server belongs to
  ChildrenOf,       \* m_vecChildren of a community: its game servers
  KickByDupeLogin,  \* the setting m_bKickByDupeLogin
  MaxServerKeys,    \* bound: server registrations
  MaxSessions,      \* bound: session keys given out
  MaxPending,       \* bound: login queries at the database
  MaxListed         \* bound: players in a community server's list

Servers == Lobbies \union Communities \union Games
Uids == {UidOf[a] : a \in Accounts}

(* One uid per account, and kinds of servers that do not overlap. *)
ASSUME UidAssumption == IsInjective(UidOf) /\ DOMAIN UidOf = Accounts
ASSUME ServersAssumption ==
  /\ Lobbies \intersect (Communities \union Games) = {}
  /\ Communities \intersect Games = {}
ASSUME ConfigAssumption ==
  /\ DOMAIN World = Communities
  /\ ChildrenOf \in [Communities -> SUBSET Games]

ASSUME BoundsAssumption ==
  {MaxServerKeys, MaxSessions, MaxPending, MaxListed} \subseteq Nat

VARIABLES
  pm,         \* the player manager and the session validator
  sock,       \* sock[s]: "down", "connected", or "live" once registered
  key,        \* key[s]: the LKEY of a live server, NoKey of any other
  lastKey,    \* the LKEY given out last; the id container never repeats one
  pending     \* login queries the database has not answered

vars == <<pm, sock, key, lastKey, pending>>

NoKey == 0        \* FindServerKey's NULL, which is LKEY_INVALID

(* "ok" stands for a wrong password too: the handler only logs it. *)
Results == {"ok", "fail"}
Queries == [account : Accounts, keySvr : 0 .. MaxServerKeys, result : Results]

Init ==
  /\ pm = NewManager
  /\ sock = [s \in Servers |-> "down"]
  /\ key = [s \in Servers |-> NoKey]
  /\ lastKey = NoKey
  /\ pending = {}

(* Bound: a handler that may need n new session keys. *)
KeysLeft(n) == pm.generator + n <= MaxSessions

IsLiveKey(k) == \E s \in Servers : sock[s] = "live" /\ key[s] = k

(* FindLowUserGameServer finds one: a live community of the world has a    *)
(* live game server.  Which one it prefers does not matter here.           *)
GameServerFound(world) ==
  \E c \in Communities :
    /\ sock[c] = "live" /\ World[c] = world
    /\ \E g \in ChildrenOf[c] : sock[g] = "live"
-----------------------------------------------------------------------------
(* Connections and CSvcConfig *)

Connected(s) ==
  /\ sock[s] = "down"
  /\ sock' = [sock EXCEPT ![s] = "connected"]
  /\ UNCHANGED <<pm, key, lastKey, pending>>

RegisterServer(s) ==
  /\ sock[s] = "connected"
  /\ lastKey < MaxServerKeys
  /\ lastKey' = lastKey + 1
  /\ key' = [key EXCEPT ![s] = lastKey + 1]
  /\ sock' = [sock EXCEPT ![s] = "live"]
  /\ UNCHANGED <<pm, pending>>

(* Release forgets the server; the players that were on it stay. *)
Disconnected(s) ==
  /\ sock[s] # "down"
  /\ sock' = [sock EXCEPT ![s] = "down"]
  /\ key' = [key EXCEPT ![s] = NoKey]
  /\ UNCHANGED <<pm, lastKey, pending>>
-----------------------------------------------------------------------------
(* Logging in: the lobby asks, the database answers later.                 *)

Login_Req(s, account, result) ==
  /\ sock[s] # "down" /\ Cardinality(pending) < MaxPending
  /\ pending' = pending \union {[account |-> account, keySvr |-> key[s], result |-> result]}
  /\ UNCHANGED <<pm, sock, key, lastKey>>

ShutdownUser(m, uid) == LogOutForce(m, uid)

(* The login of a query the database accepted.  With the setting on, a     *)
(* player that is logged in already is shut down and the login tried once  *)
(* more.                                                                   *)
LogInOrKick(m, q) ==
  LET uid == UidOf[q.account]
      clear == IF LoggedIn(m, uid, q.account) /\ KickByDupeLogin
               THEN ShutdownUser(m, uid) ELSE m
      after == LogIn(clear, uid, q.account, q.keySvr)
  IN  IF LoggedIn(clear, uid, q.account) THEN clear
      ELSE [after EXCEPT !.heap[after.generator].authKey = 1]

MutDBQuery_Res(q) ==
  /\ q \in pending /\ KeysLeft(1)
  /\ pending' = pending \ {q}
  /\ pm' = IF q.result = "fail" THEN pm ELSE LogInOrKick(pm, q)
  /\ UNCHANGED <<sock, key, lastKey>>

DBQuery_Res(q) ==
  /\ q \in pending /\ KeysLeft(1)
  /\ pending' = pending \ {q}
  /\ pm' = IF q.result = "fail" \/ ~IsLiveKey(q.keySvr) THEN pm ELSE LogInOrKick(pm, q)
  /\ UNCHANGED <<sock, key, lastKey>>
-----------------------------------------------------------------------------
(* Messages from a community server c.  It may send before it registers:   *)
(* its key is then NoKey.                                                  *)

SetPlayer(m, p, field, value) == [m EXCEPT !.heap[p][field] = value]

(* The authentication key is cleared and the player checked in before the  *)
(* server's key is looked at.                                              *)
Game_Login_Req(c, uid, authKey) ==
  /\ sock[c] # "down"
  /\ uid \in DOMAIN pm.byUid
  /\ LET p == pm.byUid[uid]
         checkedIn == PlayerCheckIn(SetPlayer(pm, p, "authKey", 0), p)
     IN  /\ pm.heap[p].authKey = authKey
         /\ pm' = IF key[c] = NoKey THEN checkedIn
                  ELSE SetPlayer(checkedIn, p, "svrKey", key[c])
  /\ UNCHANGED <<sock, key, lastKey, pending>>

Community_Game_Login(c, uid) ==
  /\ sock[c] # "down" /\ key[c] # NoKey
  /\ uid \in DOMAIN pm.byUid
  /\ pm' = SetPlayer(pm, pm.byUid[uid], "svrKey", key[c])
  /\ UNCHANGED <<sock, key, lastKey, pending>>

Game_LogOut(c, uid) ==
  /\ sock[c] # "down"
  /\ pm' = LogOut(pm, uid, key[c])
  /\ UNCHANGED <<sock, key, lastKey, pending>>

(* The session key is issued to give the player time to connect again,     *)
(* whether or not a session of the player is open.                         *)
Game_Move_Community_Req(c, uid, world) ==
  /\ sock[c] # "down" /\ KeysLeft(1)
  /\ uid \in DOMAIN pm.byUid
  /\ GameServerFound(world)
  /\ LET p == pm.byUid[uid]
     IN  pm' = SetPlayer(ReserveMoveSession(pm, p), p, "authKey", 1)
  /\ UNCHANGED <<sock, key, lastKey, pending>>

(* A community server tells a master that has just started whom it has:    *)
(* each account of the list is logged in unless its uid already is.        *)
LogInAll(m, accounts, keySvr) ==
  LET after[i \in 0 .. Len(accounts)] ==
        IF i = 0 THEN m
        ELSE LogIn(after[i - 1], UidOf[accounts[i]], accounts[i], keySvr)
  IN  after[Len(accounts)]

All_Player_Info(c, accounts) ==
  /\ sock[c] # "down" /\ KeysLeft(Len(accounts))
  /\ pm' = LogInAll(pm, accounts, key[c])
  /\ UNCHANGED <<sock, key, lastKey, pending>>

ShutdownUsr(s, uid) ==
  /\ sock[s] # "down"
  /\ pm' = ShutdownUser(pm, uid)
  /\ UNCHANGED <<sock, key, lastKey, pending>>
-----------------------------------------------------------------------------
Tick ==
  /\ pm.wait # << >>
  /\ pm' = TickProcess(pm)
  /\ UNCHANGED <<sock, key, lastKey, pending>>

TimePasses ==
  /\ pm' = Elapse(pm)
  /\ UNCHANGED <<sock, key, lastKey, pending>>

PlayerLists == UNION {[1 .. n -> Accounts] : n \in 1 .. MaxListed}

(* What the log out of a deleted player does is not defined: a behaviour   *)
(* is followed up to there.                                                *)
Defined == pm.wild = {}

Next ==
  /\ Defined
  /\ \/ \E s \in Servers : Connected(s) \/ RegisterServer(s) \/ Disconnected(s)
     \/ \E s \in Lobbies, a \in Accounts, r \in Results : Login_Req(s, a, r)
     \/ \E q \in pending : DBQuery_Res(q)
     \/ \E c \in Communities, uid \in Uids :
          \/ \E authKey \in 0 .. 1 : Game_Login_Req(c, uid, authKey)
          \/ Community_Game_Login(c, uid)
          \/ Game_LogOut(c, uid)
          \/ \E d \in Communities : Game_Move_Community_Req(c, uid, World[d])
     \/ \E c \in Communities, l \in PlayerLists : All_Player_Info(c, l)
     \/ \E s \in Servers, uid \in Uids : ShutdownUsr(s, uid)
     \/ Tick \/ TimePasses

Spec == Init /\ [][Next]_vars

(* The service frame ticks the validator for ever and time passes. *)
FairSpec == Spec /\ WF_vars(Defined /\ Tick) /\ WF_vars(Defined /\ TimePasses)
-----------------------------------------------------------------------------
WaitKeys(m) == {m.wait[i].key : i \in DOMAIN m.wait}
DueKeys(m) == {m.wait[i].key : i \in {j \in DOMAIN m.wait : m.wait[j].left = 0}}

(* Types and ranges, bounded counters included. *)
TypeOK ==
  /\ DOMAIN pm.heap \subseteq 1 .. MaxSessions
  /\ \A p \in DOMAIN pm.heap :
       pm.heap[p] \in [uid : Uids, account : Accounts, svrKey : 0 .. MaxServerKeys,
                      session : 1 .. MaxSessions, authKey : 0 .. 1]
  /\ pm.generator \in 0 .. MaxSessions
  /\ WaitKeys(pm) \subseteq 1 .. MaxSessions
  /\ sock \in [Servers -> {"down", "connected", "live"}]
  /\ key \in [Servers -> 0 .. MaxServerKeys]
  /\ lastKey \in 0 .. MaxServerKeys
  /\ pending \subseteq Queries

(* The maps by uid and by account hold the same players, exactly those     *)
(* that are allocated, each under its own uid and account; the count is    *)
(* their number, and the id container holds no deleted player.             *)
MapsAgree ==
  /\ TypeOK
  /\ DOMAIN pm.byUid = {pm.heap[p].uid : p \in DOMAIN pm.heap}
  /\ DOMAIN pm.byAccount = {pm.heap[p].account : p \in DOMAIN pm.heap}
  /\ \A p \in DOMAIN pm.heap :
       pm.byUid[pm.heap[p].uid] = p /\ pm.byAccount[pm.heap[p].account] = p
  /\ pm.count = Cardinality(DOMAIN pm.heap)
  /\ pm.ids \subseteq DOMAIN pm.heap

(* An open session of an allocated player is in the wait list, so that it  *)
(* will expire.  It belongs to a player that is allocated and whose        *)
(* current session it is, and no deleted player is logged out, unless the  *)
(* player was given a session while it had an open one.                    *)
SessionsAgree ==
  /\ \A k \in DOMAIN pm.bySession :
       LET p == pm.bySession[k]
       IN  /\ p \in DOMAIN pm.heap => k \in WaitKeys(pm)
           /\ p \notin pm.overlapped => p \in DOMAIN pm.heap /\ pm.heap[p].session = k
  /\ pm.wild \subseteq pm.overlapped

(* A tick stops at the first session that is not due.  That is right only  *)
(* because the wait list is in the order of expiration.                    *)
WaitListInOrder ==
  \A i, j \in DOMAIN pm.wait :
    i < j => pm.wait[i].left <= pm.wait[j].left /\ pm.wait[i].key < pm.wait[j].key

(* A player that is moving, or has not arrived yet, has an open session.   *)
(* Without one it would never be logged out: reports of the servers are    *)
(* ignored until it arrives.                                               *)
MovingPlayerCanExpire ==
  \A p \in DOMAIN pm.heap :
    pm.heap[p].authKey # 0 => pm.heap[p].session \in DOMAIN pm.bySession

(* Every session that has to end by time does, and in its turn: the wait   *)
(* list is in order and no moving player is without one.                   *)
SessionsExpireInTurn == WaitListInOrder /\ MovingPlayerCanExpire

(* A tick logs out exactly the players that have an open session that is   *)
(* due: a player that has checked in stays, and nobody overdue does.  If   *)
(* the sessions of a player never overlapped, that is its current session. *)
DuePlayers(m) == {m.bySession[k] : k \in DueKeys(m) \intersect DOMAIN m.bySession}

TickExpiresExactlyTheDue ==
  [][Tick =>
       /\ DOMAIN pm.heap \ DOMAIN pm'.heap = DOMAIN pm.heap \intersect DuePlayers(pm)
       /\ \A p \in DOMAIN pm.heap \ pm.overlapped :
            p \in DuePlayers(pm) <=>
              pm.heap[p].session \in DueKeys(pm) \intersect DOMAIN pm.bySession
    ]_vars

(* With kicking on, a login the database accepted for a live lobby always  *)
(* ends with the account logged in under a new session: the second try     *)
(* after the kick cannot fail ("System Critical Fail" is never logged).    *)
AcceptedLoginSucceeds ==
  [][KickByDupeLogin =>
       \A q \in pending \ pending' :
         q.result # "fail" /\ IsLiveKey(q.keySvr) =>
           /\ q.account \in DOMAIN pm'.byAccount
           /\ pm'.byAccount[q.account] \notin DOMAIN pm.heap
           /\ pm'.heap[pm'.byAccount[q.account]].authKey = 1
    ]_vars

(* A login outlives the lobby it came from: the lobby may disconnect, or   *)
(* come back under another key, while the database looks.  A player is     *)
(* still only ever added on a server that is live then, or on one that     *)
(* reports its players before it has registered.                           *)
NewPlayersAreOnLiveServers ==
  [][\A p \in DOMAIN pm'.heap \ DOMAIN pm.heap :
       pm'.heap[p].svrKey = NoKey \/ IsLiveKey(pm'.heap[p].svrKey)]_vars

(* Every session that is opened is closed, claimed or expired, or its      *)
(* player is gone.  (A session may outlive its player, if that was given   *)
(* another one beside it, and then log it out once more: SessionsAgree.)   *)
HoldsPlayer(k) == k \in DOMAIN pm.bySession /\ pm.bySession[k] \in DOMAIN pm.heap

SessionsClose == \A k \in 1 .. MaxSessions : HoldsPlayer(k) ~> ~HoldsPlayer(k) \/ ~Defined

(* The comment in LogOut: a player is always allocated on the heap.        *)
LoggedOutPlayerIsAllocated == pm.wild = {}
=============================================================================
