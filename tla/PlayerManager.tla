---------------------------- MODULE PlayerManager ----------------------------
(***************************************************************************)
(* CPlayerManager and CSessionValidator of the master server (20140417     *)
(* Session Validator), as operators on a record m of their members:        *)
(*                                                                         *)
(*   heap       the CPlayer objects that are allocated, by identity        *)
(*   byUid, byAccount, bySession   the three std::maps to CPlayer pointers *)
(*   ids        the objects that hold a slot of the id container           *)
(*   count      m_nPlayerCount                                             *)
(*   wait       listWaitSessions; left is the time until m_timeExpiration  *)
(*   generator  the session key given out last                             *)
(* and two members that only record what happened; no operator reads them: *)
(*                                                                         *)
(*   overlapped the objects given a session while the one they had was     *)
(*              open                                                       *)
(*   wild       the deleted objects that LogOut was given                  *)
(*                                                                         *)
(* A player object is named by the session key of its login, so that an    *)
(* object that was deleted is never confused with a later one.  A map      *)
(* entry is looked up with \in DOMAIN.                                      *)
(***************************************************************************)
EXTENDS Integers, Sequences, FiniteSets, SequencesExt

CONSTANTS
  ExpirePeriod,     \* eDF_AuthKeyExpireTimePeriod
  MaxIds            \* the number of slots of the id container

ASSUME PeriodAssumption == ExpirePeriod \in Nat \ {0}
ASSUME MaxIdsAssumption == MaxIds \in Nat

Empty == [k \in {} |-> 0]

NewManager ==
  [heap |-> Empty, byUid |-> Empty, byAccount |-> Empty, bySession |-> Empty,
   ids |-> {}, count |-> 0, wait |-> << >>, generator |-> 0,
   overlapped |-> {}, wild |-> {}]

(* std::map::insert keeps an entry that is already there. *)
Insert(f, k, v) ==
  [x \in DOMAIN f \union {k} |-> IF x \in DOMAIN f THEN f[x] ELSE v]

EraseKey(f, k) == Restrict(f, DOMAIN f \ {k})
-----------------------------------------------------------------------------
(* CSessionValidator *)

MutPushSessionFront(m) ==
  LET k == m.generator + 1
  IN  [m EXCEPT !.generator = k,
                !.wait = <<[key |-> k, left |-> ExpirePeriod]>> \o @]

PushSession(m) ==
  LET k == m.generator + 1
  IN  [m EXCEPT !.generator = k,
                !.wait = Append(@, [key |-> k, left |-> ExpirePeriod])]

EraseSession(m, k) ==
  [m EXCEPT !.wait = RemoveFirstMatch(@, LAMBDA s : s.key = k)]
-----------------------------------------------------------------------------
(* CPlayerManager *)

(* LogIn returns no player, and changes nothing, when the uid or the       *)
(* account is logged in already.  With the id container full, AddPlayer    *)
(* gives up silently and the player is kept without an id.                 *)
LoggedIn(m, uid, account) ==
  uid \in DOMAIN m.byUid \/ account \in DOMAIN m.byAccount

LogIn(m, uid, account, keySvr) ==
  IF LoggedIn(m, uid, account) THEN m
  ELSE LET s == PushSession(m)
           p == s.generator
       IN  [s EXCEPT
              !.heap = Insert(@, p, [uid |-> uid, account |-> account, svrKey |-> keySvr,
                                     session |-> p, authKey |-> 0]),
              !.ids = IF Cardinality(@) < MaxIds THEN @ \union {p} ELSE @,
              !.count = @ + 1,
              !.byUid = Insert(@, uid, p),
              !.byAccount = Insert(@, account, p),
              !.bySession = Insert(@, p, p)]

(* LogOut(CPlayer&): the entry in the wait list is left to expire. *)
MutLogOutKeepsSession(m, p) ==
  LET player == m.heap[p]
  IN  [m EXCEPT !.byUid = EraseKey(@, player.uid),
                !.byAccount = EraseKey(@, player.account),
                !.ids = @ \ {p},
                !.count = @ - 1,
                !.heap = EraseKey(@, p)]

MutLogOutKeepsAccount(m, p) ==
  LET player == m.heap[p]
  IN  [m EXCEPT !.byUid = EraseKey(@, player.uid),
                !.bySession = EraseKey(@, player.session),
                !.ids = @ \ {p},
                !.count = @ - 1,
                !.heap = EraseKey(@, p)]

LogOutPlayer(m, p) ==
  IF p \notin DOMAIN m.heap THEN [m EXCEPT !.wild = @ \union {p}]
  ELSE LET player == m.heap[p]
       IN  [m EXCEPT !.byUid = EraseKey(@, player.uid),
                     !.byAccount = EraseKey(@, player.account),
                     !.bySession = EraseKey(@, player.session),
                     !.ids = @ \ {p},
                     !.count = @ - 1,
                     !.heap = EraseKey(@, p)]

(* LogOut(UID, ...): a report from a server the player is not on, or about *)
(* a player that is moving, is ignored.                                    *)
LogOut(m, uid, keySvr) ==
  IF \/ uid \notin DOMAIN m.byUid
     \/ m.heap[m.byUid[uid]].svrKey # keySvr
     \/ m.heap[m.byUid[uid]].authKey # 0
  THEN m
  ELSE LogOutPlayer(m, m.byUid[uid])

MutLogOutForce(m, uid) == m

LogOutForce(m, uid) ==
  IF uid \in DOMAIN m.byUid THEN LogOutPlayer(m, m.byUid[uid]) ELSE m

ExpireSession(m, k) ==
  IF k \in DOMAIN m.bySession THEN LogOutPlayer(m, m.bySession[k]) ELSE m

PlayerCheckIn(m, p) ==
  LET k == m.heap[p].session
  IN  [EraseSession(m, k) EXCEPT !.bySession = EraseKey(@, k)]

MutReserveMoveSession(m, p) ==
  LET s == PushSession(m)
  IN  [s EXCEPT !.heap[p].session = s.generator]

(* The player may have an open session already; that one stays as it is.   *)
ReserveMoveSession(m, p) ==
  LET s == PushSession(m)
  IN  [s EXCEPT !.heap[p].session = s.generator,
                !.bySession = Insert(@, s.generator, p),
                !.overlapped = IF m.heap[p].session \in DOMAIN m.bySession
                               THEN @ \union {p} ELSE @]
-----------------------------------------------------------------------------
(* CSessionValidator::TickProcess: expire from the front of the wait list, *)
(* up to the first session whose time has not come.                        *)
Expired(m) ==
  LET alive == SelectInSeq(m.wait, LAMBDA s : s.left > 0)
  IN  IF alive = 0 THEN Len(m.wait) ELSE alive - 1

MutTickOnlyPops(m) == [m EXCEPT !.wait = SubSeq(@, Expired(m) + 1, Len(@))]

ExpireFirst(m, n) ==
  LET after[i \in 0 .. n] ==
        IF i = 0 THEN m ELSE ExpireSession(after[i - 1], m.wait[i].key)
  IN  after[n]

TickProcess(m) ==
  LET n == Expired(m)
  IN  [ExpireFirst(m, n) EXCEPT !.wait = SubSeq(m.wait, n + 1, Len(m.wait))]

(* One unit of ::time passes. *)
Older(s) == [s EXCEPT !.left = IF @ > 0 THEN @ - 1 ELSE 0]

Elapse(m) == [m EXCEPT !.wait = [i \in DOMAIN @ |-> Older(@[i])]]
=============================================================================
