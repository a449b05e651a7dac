-------------------------- MODULE MasterServerProofs --------------------------
(***************************************************************************)
(* Proofs about MasterServer, for any accounts, servers, settings and      *)
(* bounds.                                                                 *)
(*                                                                         *)
(* The handlers are compositions of operators on the player manager, so    *)
(* the invariant is one of managers: each operator keeps it, whichever     *)
(* handler calls it.  Everything about sessions that are open rests on     *)
(* session keys that are never given out twice.  A player may have several *)
(* open sessions, for nothing keeps its moves apart: what holds for a      *)
(* player that was never given a session beside an open one is kept apart  *)
(* from what holds for all.                                                *)
(***************************************************************************)
EXTENDS MasterServer, FiniteSetTheorems, WellFoundedInduction, TLAPS

Player == [uid : Uids, account : Accounts, svrKey : 0 .. MaxServerKeys,
           session : Nat \ {0}, authKey : 0 .. 1]
Session == [key : Nat \ {0}, left : 0 .. ExpirePeriod]

IsManager(m) ==
  DOMAIN m = {"heap", "byUid", "byAccount", "bySession", "ids", "count", "wait",
              "generator", "overlapped", "wild"}

(* Players are named by the session key of their login, and have the uid   *)
(* of their account.                                                       *)
HeapInv(m) ==
  /\ m.generator \in Nat
  /\ m.heap \in [DOMAIN m.heap -> Player]
  /\ \A p \in DOMAIN m.heap : /\ p \in 1 .. m.generator
                              /\ m.heap[p].session \in 1 .. m.generator
                              /\ m.heap[p].uid = UidOf[m.heap[p].account]

(* MapsAgree, of a manager. *)
MapsInv(m) ==
  /\ DOMAIN m.byUid = {m.heap[p].uid : p \in DOMAIN m.heap}
  /\ DOMAIN m.byAccount = {m.heap[p].account : p \in DOMAIN m.heap}
  /\ \A p \in DOMAIN m.heap :
       m.byUid[m.heap[p].uid] = p /\ m.byAccount[m.heap[p].account] = p
  /\ m.count = Cardinality(DOMAIN m.heap)
  /\ m.ids \subseteq DOMAIN m.heap

(* WaitListInOrder, of a manager; the newest key is the last one. *)
WaitInv(m) ==
  /\ m.wait \in Seq(Session)
  /\ \A i \in 1 .. Len(m.wait) : m.wait[i].key <= m.generator
  /\ \A i, j \in 1 .. Len(m.wait) :
       i < j => m.wait[i].left <= m.wait[j].left /\ m.wait[i].key < m.wait[j].key

(* MovingPlayerCanExpire, of a manager: no other player has its session.   *)
MovingInv(m) ==
  /\ \A p, q \in DOMAIN m.heap : m.heap[p].session = m.heap[q].session => p = q
  /\ \A p \in DOMAIN m.heap :
       m.heap[p].authKey # 0 => m.heap[p].session \in DOMAIN m.bySession

ManagerInv(m) == /\ IsManager(m) /\ HeapInv(m) /\ MapsInv(m) /\ WaitInv(m) /\ MovingInv(m)

InWait(w, k) == \E i \in 1 .. Len(w) : w[i].key = k

(* SessionsAgree, of a manager.  Open sessions and their players have been *)
(* given out, also if the player is gone; and the current session of a     *)
(* player, if it is open, is its own.                                      *)
SessionInv(m, k) ==
  /\ k \in 1 .. m.generator /\ m.bySession[k] \in 1 .. m.generator
  /\ m.bySession[k] \in DOMAIN m.heap => InWait(m.wait, k)
  /\ m.bySession[k] \notin m.overlapped =>
       m.bySession[k] \in DOMAIN m.heap /\ m.heap[m.bySession[k]].session = k

OpenInv(m) ==
  /\ \A k \in DOMAIN m.bySession : SessionInv(m, k)
  /\ \A p \in DOMAIN m.heap :
       m.heap[p].session \in DOMAIN m.bySession => m.bySession[m.heap[p].session] = p
  /\ m.wild \subseteq m.overlapped

ServersInv ==
  /\ sock \in [Servers -> {"down", "connected", "live"}]
  /\ key \in [Servers -> 0 .. MaxServerKeys]
  /\ \A s \in Servers : key[s] # NoKey => sock[s] = "live"
  /\ lastKey \in 0 .. MaxServerKeys
  /\ pending \subseteq Queries

IInv == ManagerInv(pm) /\ pm.generator <= MaxSessions /\ ServersInv

IInvOpen == IInv /\ OpenInv(pm)
-----------------------------------------------------------------------------
(* What the operators of the player manager do to each of its members.     *)
Inserted(g, f, k, v) ==
  /\ g = [x \in DOMAIN g |-> g[x]]
  /\ DOMAIN g = DOMAIN f \union {k}
  /\ \A x \in DOMAIN f : g[x] = f[x]
  /\ k \notin DOMAIN f => g[k] = v

LEMMA InsertEffect ==
  ASSUME NEW f, NEW k, NEW v
  PROVE  Inserted(Insert(f, k, v), f, k, v)
BY DEF Insert, Inserted

Erased(g, f, k) ==
  /\ g = [x \in DOMAIN g |-> g[x]]
  /\ DOMAIN g = DOMAIN f \ {k}
  /\ \A x \in DOMAIN g : g[x] = f[x]

LEMMA EraseEffect ==
  ASSUME NEW f, NEW k
  PROVE  Erased(EraseKey(f, k), f, k)
BY DEF EraseKey, Restrict, Erased

NewPlayer(account, keySvr, p) ==
  [uid |-> UidOf[account], account |-> account, svrKey |-> keySvr, session |-> p, authKey |-> 0]

(* A new session at the back of the wait list. *)
Pushed(s, m) ==
  /\ s.generator = m.generator + 1
  /\ s.wait = Append(m.wait, [key |-> m.generator + 1, left |-> ExpirePeriod])

LEMMA PushSessionEffect ==
  ASSUME NEW m, IsManager(m)
  PROVE  LET s == PushSession(m) IN
         /\ IsManager(s) /\ Pushed(s, m)
         /\ s.heap = m.heap /\ s.byUid = m.byUid /\ s.byAccount = m.byAccount
         /\ s.bySession = m.bySession /\ s.ids = m.ids /\ s.count = m.count
         /\ s.overlapped = m.overlapped /\ s.wild = m.wild
BY DEF IsManager, PushSession, Pushed

LoggedInAs(s, m, account, keySvr) ==
  LET p == m.generator + 1 IN
  /\ IsManager(s) /\ Pushed(s, m)
  /\ Inserted(s.heap, m.heap, p, NewPlayer(account, keySvr, p))
  /\ Inserted(s.byUid, m.byUid, UidOf[account], p)
  /\ Inserted(s.byAccount, m.byAccount, account, p)
  /\ Inserted(s.bySession, m.bySession, p, p)
  /\ s.ids \subseteq m.ids \union {p} /\ s.count = m.count + 1
  /\ s.overlapped = m.overlapped /\ s.wild = m.wild

LEMMA LogInEffect ==
  ASSUME NEW m, IsManager(m), NEW account, NEW keySvr, ~LoggedIn(m, UidOf[account], account)
  PROVE  LoggedInAs(LogIn(m, UidOf[account], account, keySvr), m, account, keySvr)
<1> DEFINE s == LogIn(m, UidOf[account], account, keySvr)
           p == m.generator + 1
<1>1. /\ IsManager(s) /\ Pushed(s, m)
      /\ s.heap = Insert(m.heap, p, NewPlayer(account, keySvr, p))
      /\ s.byUid = Insert(m.byUid, UidOf[account], p)
      /\ s.byAccount = Insert(m.byAccount, account, p)
      /\ s.bySession = Insert(m.bySession, p, p)
      /\ s.ids \subseteq m.ids \union {p} /\ s.count = m.count + 1
      /\ s.overlapped = m.overlapped /\ s.wild = m.wild
  BY PushSessionEffect DEF IsManager, LogIn, NewPlayer, Pushed
<1> HIDE DEF s, p
<1>2. /\ Inserted(s.heap, m.heap, p, NewPlayer(account, keySvr, p))
      /\ Inserted(s.byUid, m.byUid, UidOf[account], p)
      /\ Inserted(s.byAccount, m.byAccount, account, p)
      /\ Inserted(s.bySession, m.bySession, p, p)
  BY <1>1, InsertEffect, Zenon
<1>3. LoggedInAs(s, m, account, keySvr)  BY <1>1, <1>2 DEF LoggedInAs, p
<1> QED  BY <1>3 DEF s

(* Everything a player holds goes with it, but its place in the wait list. *)
LoggedOut(s, m, p) ==
  /\ IsManager(s)
  /\ Erased(s.heap, m.heap, p)
  /\ Erased(s.byUid, m.byUid, m.heap[p].uid)
  /\ Erased(s.byAccount, m.byAccount, m.heap[p].account)
  /\ Erased(s.bySession, m.bySession, m.heap[p].session)
  /\ s.ids = m.ids \ {p} /\ s.count = m.count - 1
  /\ s.wait = m.wait /\ s.generator = m.generator
  /\ s.overlapped = m.overlapped /\ s.wild = m.wild

LEMMA LogOutPlayerEffect ==
  ASSUME NEW m, IsManager(m), NEW p \in DOMAIN m.heap
  PROVE  LoggedOut(LogOutPlayer(m, p), m, p)
<1> DEFINE s == LogOutPlayer(m, p)
<1>1. /\ IsManager(s)
      /\ s.heap = EraseKey(m.heap, p)
      /\ s.byUid = EraseKey(m.byUid, m.heap[p].uid)
      /\ s.byAccount = EraseKey(m.byAccount, m.heap[p].account)
      /\ s.bySession = EraseKey(m.bySession, m.heap[p].session)
      /\ s.ids = m.ids \ {p} /\ s.count = m.count - 1
      /\ s.wait = m.wait /\ s.generator = m.generator
      /\ s.overlapped = m.overlapped /\ s.wild = m.wild
  BY DEF IsManager, LogOutPlayer
<1> HIDE DEF s
<1>2. /\ Erased(s.heap, m.heap, p)
      /\ Erased(s.byUid, m.byUid, m.heap[p].uid)
      /\ Erased(s.byAccount, m.byAccount, m.heap[p].account)
      /\ Erased(s.bySession, m.bySession, m.heap[p].session)
  <2>1. Erased(s.heap, m.heap, p)  BY <1>1 DEF EraseKey, Restrict, Erased
  <2>2. Erased(s.byUid, m.byUid, m.heap[p].uid)  BY <1>1, EraseEffect, Zenon
  <2>3. Erased(s.byAccount, m.byAccount, m.heap[p].account)  BY <1>1, EraseEffect, Zenon
  <2>4. Erased(s.bySession, m.bySession, m.heap[p].session)  BY <1>1, EraseEffect, Zenon
  <2> QED  BY <2>1, <2>2, <2>3, <2>4
<1>3. LoggedOut(s, m, p)  BY <1>1, <1>2 DEF LoggedOut
<1> QED  BY <1>3 DEF s

SameMaps(s, m) ==
  /\ s.byUid = m.byUid /\ s.byAccount = m.byAccount
  /\ s.ids = m.ids /\ s.count = m.count

(* An object that was deleted: nothing changes but wild. *)
WildLogOut(s, m, p) ==
  /\ IsManager(s) /\ SameMaps(s, m)
  /\ s.heap = m.heap /\ s.bySession = m.bySession
  /\ s.wait = m.wait /\ s.generator = m.generator
  /\ s.overlapped = m.overlapped /\ s.wild = m.wild \union {p}

LEMMA WildEffect ==
  ASSUME NEW m, IsManager(m), NEW p, p \notin DOMAIN m.heap
  PROVE  WildLogOut(LogOutPlayer(m, p), m, p)
BY DEF IsManager, LogOutPlayer, SameMaps, WildLogOut

FieldSet(s, m, p, field, value) ==
  /\ IsManager(s) /\ SameMaps(s, m)
  /\ s.heap = [m.heap EXCEPT ![p] = [m.heap[p] EXCEPT ![field] = value]]
  /\ s.bySession = m.bySession
  /\ s.wait = m.wait /\ s.generator = m.generator
  /\ s.overlapped = m.overlapped /\ s.wild = m.wild

LEMMA SetPlayerEffect ==
  ASSUME NEW m, IsManager(m), NEW p, NEW field, NEW value
  PROVE  FieldSet(SetPlayer(m, p, field, value), m, p, field, value)
BY DEF IsManager, SetPlayer, SameMaps, FieldSet

Without(w, k) == RemoveFirstMatch(w, LAMBDA e : e.key = k)

CheckedIn(s, m, k) ==
  /\ IsManager(s) /\ SameMaps(s, m)
  /\ Erased(s.bySession, m.bySession, k)
  /\ s.wait = Without(m.wait, k)
  /\ s.heap = m.heap /\ s.generator = m.generator
  /\ s.overlapped = m.overlapped /\ s.wild = m.wild

LEMMA CheckInEffect ==
  ASSUME NEW m, IsManager(m), NEW p
  PROVE  CheckedIn(PlayerCheckIn(m, p), m, m.heap[p].session)
<1> DEFINE s == PlayerCheckIn(m, p)
           k == m.heap[p].session
<1>1. /\ IsManager(s) /\ SameMaps(s, m)
      /\ s.bySession = EraseKey(m.bySession, k)
      /\ s.wait = Without(m.wait, k)
      /\ s.heap = m.heap /\ s.generator = m.generator
      /\ s.overlapped = m.overlapped /\ s.wild = m.wild
  BY DEF IsManager, PlayerCheckIn, EraseSession, SameMaps, Without
<1> HIDE DEF s, k
<1>2. Erased(s.bySession, m.bySession, k)  BY <1>1, EraseEffect, Zenon
<1>3. CheckedIn(s, m, k)  BY <1>1, <1>2 DEF CheckedIn
<1> QED  BY <1>3 DEF s, k

MoveReserved(s, m, p) ==
  LET k == m.generator + 1 IN
  /\ IsManager(s) /\ SameMaps(s, m) /\ Pushed(s, m)
  /\ s.heap = [m.heap EXCEPT ![p] = [m.heap[p] EXCEPT !["session"] = k]]
  /\ Inserted(s.bySession, m.bySession, k, p)
  /\ s.overlapped = IF m.heap[p].session \in DOMAIN m.bySession
                    THEN m.overlapped \union {p} ELSE m.overlapped
  /\ s.wild = m.wild

LEMMA ReserveMoveEffect ==
  ASSUME NEW m, IsManager(m), NEW p
  PROVE  MoveReserved(ReserveMoveSession(m, p), m, p)
<1> DEFINE s == ReserveMoveSession(m, p)
           k == m.generator + 1
<1>1. /\ IsManager(s) /\ SameMaps(s, m) /\ Pushed(s, m)
      /\ s.heap = [m.heap EXCEPT ![p] = [m.heap[p] EXCEPT !["session"] = k]]
      /\ s.bySession = Insert(m.bySession, k, p)
      /\ s.overlapped = IF m.heap[p].session \in DOMAIN m.bySession
                        THEN m.overlapped \union {p} ELSE m.overlapped
      /\ s.wild = m.wild
  BY PushSessionEffect DEF IsManager, ReserveMoveSession, SameMaps, Pushed
<1> HIDE DEF s, k
<1>2. Inserted(s.bySession, m.bySession, k, p)
  <2>1. s.bySession = Insert(m.bySession, k, p)  BY <1>1
  <2> QED  BY <2>1, InsertEffect, Zenon
<1>3. MoveReserved(s, m, p)  BY <1>1, <1>2 DEF MoveReserved, k
<1> QED  BY <1>3 DEF s
-----------------------------------------------------------------------------
(* The wait list. *)
LEMMA SessionType ==
  ASSUME NEW w \in Seq(Session), NEW i \in 1 .. Len(w)
  PROVE  w[i].key \in Nat \ {0} /\ w[i].left \in 0 .. ExpirePeriod
<1>1. w[i] \in Session  OBVIOUS
<1> QED  BY <1>1 DEF Session

LEMMA AppendKeepsWait ==
  ASSUME NEW m, NEW s, m.generator \in Nat, WaitInv(m), Pushed(s, m)
  PROVE  /\ WaitInv(s)
         /\ InWait(s.wait, m.generator + 1)
         /\ \A k : InWait(m.wait, k) => InWait(s.wait, k)
<1> DEFINE e == [key |-> m.generator + 1, left |-> ExpirePeriod]
           n == Len(m.wait)
<1>1. e \in Session /\ e.key = m.generator + 1 /\ e.left = ExpirePeriod
  BY PeriodAssumption DEF Session
<1>2. /\ m.wait \in Seq(Session) /\ n \in Nat
      /\ s.generator = m.generator + 1 /\ s.wait = Append(m.wait, e)
  BY DEF WaitInv, Pushed
<1> HIDE DEF e
<1>3. /\ s.wait \in Seq(Session) /\ Len(s.wait) = n + 1 /\ s.wait[n + 1] = e
      /\ \A i \in 1 .. n : s.wait[i] = m.wait[i]
  BY <1>1, <1>2 DEF e
<1>4. ASSUME NEW i \in 1 .. n PROVE m.wait[i].key \in Nat /\ m.wait[i].left \in 0 .. ExpirePeriod
  BY <1>2, SessionType
<1>5. ASSUME NEW i \in 1 .. n + 1 PROVE s.wait[i].key <= s.generator
  BY <1>1, <1>2, <1>3, <1>4 DEF WaitInv
<1>6. ASSUME NEW i \in 1 .. n + 1, NEW j \in 1 .. n + 1, i < j
      PROVE  s.wait[i].left <= s.wait[j].left /\ s.wait[i].key < s.wait[j].key
  <2>1. CASE j = n + 1
    <3>1. i \in 1 .. n  BY <1>2, <1>6, <2>1
    <3>2. m.wait[i].key <= m.generator  BY <3>1 DEF WaitInv
    <3>3. s.wait[i] = m.wait[i] /\ s.wait[j] = e  BY <1>3, <2>1, <3>1
    <3>4. m.wait[i].key \in Nat /\ m.wait[i].left \in 0 .. ExpirePeriod  BY <1>4, <3>1
    <3> QED  BY <1>1, <3>2, <3>3, <3>4, PeriodAssumption
  <2>2. CASE j # n + 1
    <3>1. i \in 1 .. n /\ j \in 1 .. n  BY <1>2, <1>6, <2>2
    <3> QED  BY <1>3, <1>6, <3>1 DEF WaitInv
  <2> QED  BY <2>1, <2>2
<1>7. WaitInv(s)  BY <1>3, <1>5, <1>6 DEF WaitInv
<1>8. n + 1 \in 1 .. n + 1 /\ \A i \in 1 .. n : i \in 1 .. n + 1  BY <1>2
<1> QED  BY <1>1, <1>3, <1>7, <1>8 DEF InWait

(* A part of a wait list is a wait list. *)
WaitWithout(w, m, k) ==
  /\ w \in Seq(Session)
  /\ \A i \in 1 .. Len(w) : w[i].key <= m.generator
  /\ \A i, j \in 1 .. Len(w) : i < j => w[i].left <= w[j].left /\ w[i].key < w[j].key
  /\ \A l : l # k /\ InWait(m.wait, l) => InWait(w, l)

LEMMA RemovalKeepsWait ==
  ASSUME NEW m, NEW k, WaitInv(m)
  PROVE  WaitWithout(Without(m.wait, k), m, k)
<1> DEFINE w == Without(m.wait, k)
           n == Len(m.wait)
<1>1. m.wait \in Seq(Session) /\ n \in Nat  BY DEF WaitInv
<1>2. CASE ~InWait(m.wait, k)
  <2>1. w = m.wait  BY <1>2 DEF Without, RemoveFirstMatch, InWait
  <2> QED  BY <2>1 DEF WaitInv, WaitWithout
<1>3. CASE InWait(m.wait, k)
  <2> DEFINE I == {i \in 1 .. n : m.wait[i].key = k}
  <2>1. PICK x \in 1 .. n : m.wait[x].key = k  BY <1>3 DEF InWait
  <2>2. \A y \in I : y = x
    <3>1. \A i \in 1 .. n : m.wait[i].key \in Nat  BY <1>1, SessionType
    <3>2. \A i, j \in 1 .. n : i < j => m.wait[i].key # m.wait[j].key
      BY <3>1 DEF WaitInv
    <3> QED  BY <1>1, <2>1, <3>2
  <2>3. I = {x}  BY <2>1, <2>2
  <2>4. Min(I) = x
    <3> HIDE DEF I
    <3> QED  BY <2>3 DEF Min
  <2>5. SelectInSeq(m.wait, LAMBDA e : e.key = k) = x
    BY <2>3, <2>4 DEF SelectInSeq
  <2>6. w = SubSeq(m.wait, 1, x - 1) \o SubSeq(m.wait, x + 1, n)
    BY <1>3, <2>5 DEF Without, RemoveFirstMatch, RemoveAt, InWait
  <2> HIDE DEF w, I
  <2>7. /\ w \in Seq(Session) /\ Len(w) = n - 1
        /\ \A i \in 1 .. n - 1 : w[i] = m.wait[IF i < x THEN i ELSE i + 1]
    <3> DEFINE a == SubSeq(m.wait, 1, x - 1)
               b == SubSeq(m.wait, x + 1, n)
    <3>1. a \in Seq(Session) /\ Len(a) = x - 1 /\ \A i \in 1 .. x - 1 : a[i] = m.wait[i]
      BY <1>1
    <3>2. b \in Seq(Session) /\ Len(b) = n - x /\ \A i \in 1 .. n - x : b[i] = m.wait[i + x]
      BY <1>1
    <3> HIDE DEF a, b
    <3>3. w = a \o b  BY <2>6 DEF a, b
    <3>4. w \in Seq(Session) /\ Len(w) = n - 1  BY <1>1, <3>1, <3>2, <3>3
    <3>5. ASSUME NEW i \in 1 .. n - 1 PROVE w[i] = m.wait[IF i < x THEN i ELSE i + 1]
      <4>1. CASE i < x
        <5>1. i \in 1 .. x - 1  BY <1>1, <4>1
        <5>2. w[i] = a[i]  BY <3>1, <3>2, <3>3, <5>1
        <5> QED  BY <3>1, <4>1, <5>1, <5>2
      <4>2. CASE ~(i < x)
        <5>1. i - (x - 1) \in 1 .. n - x  BY <1>1, <4>2
        <5>2. w[i] = b[i - (x - 1)]  BY <1>1, <3>1, <3>2, <3>3, <3>4, <4>2
        <5>3. (i - (x - 1)) + x = i + 1  BY <1>1
        <5> QED  BY <3>2, <4>2, <5>1, <5>2, <5>3
      <4> QED  BY <4>1, <4>2
    <3> QED  BY <3>4, <3>5
  <2>8. ASSUME NEW l, l # k, InWait(m.wait, l) PROVE InWait(w, l)
    <3>1. PICK i \in 1 .. n : m.wait[i].key = l  BY <2>8 DEF InWait
    <3>2. i # x  BY <2>1, <2>8, <3>1
    <3>3. (IF i < x THEN i ELSE i - 1) \in 1 .. n - 1  BY <1>1, <3>2
    <3>4. w[IF i < x THEN i ELSE i - 1] = m.wait[i]  BY <1>1, <2>7, <3>2, <3>3
    <3> QED  BY <2>7, <3>1, <3>3, <3>4 DEF InWait
  <2>9. ASSUME NEW i \in 1 .. n - 1
        PROVE  (IF i < x THEN i ELSE i + 1) \in 1 .. n
    BY <1>1
  <2>10. \A i \in 1 .. n - 1 : w[i].key <= m.generator
    BY <2>7, <2>9 DEF WaitInv
  <2>11. ASSUME NEW i \in 1 .. n - 1, NEW j \in 1 .. n - 1, i < j
         PROVE  w[i].left <= w[j].left /\ w[i].key < w[j].key
    <3> DEFINE f(a) == IF a < x THEN a ELSE a + 1
    <3>1. f(i) \in 1 .. n /\ f(j) \in 1 .. n /\ f(i) < f(j)  BY <1>1, <2>11
    <3>2. w[i] = m.wait[f(i)] /\ w[j] = m.wait[f(j)]  BY <2>7
    <3> HIDE DEF f
    <3> QED  BY <3>1, <3>2 DEF WaitInv
  <2> QED  BY <2>7, <2>8, <2>10, <2>11 DEF w, WaitWithout
<1> QED  BY <1>2, <1>3
-----------------------------------------------------------------------------
(* Each operator keeps the invariant of managers. *)
LEMMA HeapFinite ==
  ASSUME NEW m, HeapInv(m)
  PROVE  IsFiniteSet(DOMAIN m.heap)
<1>1. IsFiniteSet(1 .. m.generator)  BY FS_Interval DEF HeapInv
<1>2. DOMAIN m.heap \subseteq 1 .. m.generator  BY DEF HeapInv
<1> QED  BY <1>1, <1>2, FS_Subset

(* A uid belongs to one account, so a player is found under both or none. *)
LEMMA OneUidPerAccount ==
  ASSUME NEW a \in Accounts, NEW b \in Accounts, UidOf[a] = UidOf[b]
  PROVE  a = b
BY UidAssumption DEF IsInjective

LEMMA FreshKey ==
  ASSUME NEW m, HeapInv(m)
  PROVE  /\ m.generator + 1 \in Nat \ {0}
         /\ m.generator + 1 \notin DOMAIN m.heap
         /\ \A p \in DOMAIN m.heap : m.heap[p].session # m.generator + 1
BY DEF HeapInv

LEMMA LogInKeeps ==
  ASSUME NEW m, ManagerInv(m), NEW account \in Accounts, NEW keySvr \in 0 .. MaxServerKeys,
         ~LoggedIn(m, UidOf[account], account)
  PROVE  LET s == LogIn(m, UidOf[account], account, keySvr)
             p == m.generator + 1 IN
         /\ ManagerInv(s)
         /\ OpenInv(m) => OpenInv(s)
         /\ s.generator = p /\ p \notin DOMAIN m.heap
         /\ DOMAIN s.heap = DOMAIN m.heap \union {p}
         /\ \A q \in DOMAIN m.heap : s.heap[q] = m.heap[q]
         /\ s.heap[p].svrKey = keySvr /\ s.heap[p].session = p
         /\ account \in DOMAIN s.byAccount /\ s.byAccount[account] = p
         /\ p \in DOMAIN s.bySession
<1> DEFINE uid == UidOf[account]
<1>1. PICK s : s = LogIn(m, uid, account, keySvr)  OBVIOUS
<1>2. PICK p : p = m.generator + 1  OBVIOUS
<1>3. PICK player : player = NewPlayer(account, keySvr, p)  OBVIOUS
<1>4. /\ IsManager(m) /\ HeapInv(m) /\ MapsInv(m) /\ WaitInv(m) /\ MovingInv(m)
  BY DEF ManagerInv
<1>5. /\ IsManager(s) /\ Pushed(s, m) /\ s.generator = p
      /\ s.ids \subseteq m.ids \union {p} /\ s.count = m.count + 1
      /\ s.overlapped = m.overlapped /\ s.wild = m.wild
      /\ Inserted(s.heap, m.heap, p, player)
      /\ Inserted(s.byUid, m.byUid, uid, p)
      /\ Inserted(s.byAccount, m.byAccount, account, p)
      /\ Inserted(s.bySession, m.bySession, p, p)
  <2>1. LoggedInAs(s, m, account, keySvr)  BY <1>1, <1>4, LogInEffect
  <2> QED  BY <1>2, <1>3, <2>1 DEF LoggedInAs, Pushed
<1>6. /\ p \in Nat \ {0} /\ p \notin DOMAIN m.heap /\ m.generator \in Nat
      /\ \A q \in DOMAIN m.heap : m.heap[q].session # p
  BY <1>2, <1>4, FreshKey DEF HeapInv
<1>7. player \in Player /\ uid \in Uids
  BY <1>3, <1>6 DEF Player, Uids, NewPlayer
<1>8. /\ DOMAIN s.heap = DOMAIN m.heap \union {p} /\ s.heap[p] = player
      /\ \A q \in DOMAIN m.heap : s.heap[q] = m.heap[q]
  BY <1>5, <1>6 DEF Inserted
<1>9. uid \notin DOMAIN m.byUid /\ account \notin DOMAIN m.byAccount
  BY DEF LoggedIn
<1>10. /\ player.uid = uid /\ player.account = account /\ player.session = p
       /\ player.authKey = 0 /\ player.svrKey = keySvr
  BY <1>3 DEF NewPlayer
<1>11. /\ DOMAIN s.byUid = DOMAIN m.byUid \union {uid} /\ s.byUid[uid] = p
       /\ \A u \in DOMAIN m.byUid : s.byUid[u] = m.byUid[u]
       /\ DOMAIN s.byAccount = DOMAIN m.byAccount \union {account} /\ s.byAccount[account] = p
       /\ \A a \in DOMAIN m.byAccount : s.byAccount[a] = m.byAccount[a]
       /\ DOMAIN s.bySession = DOMAIN m.bySession \union {p}
       /\ \A k \in DOMAIN m.bySession : s.bySession[k] = m.bySession[k]
       /\ p \notin DOMAIN m.bySession => s.bySession[p] = p
  BY <1>5, <1>9 DEF Inserted
<1> HIDE DEF uid
<1>12. HeapInv(s)
  <2>1. s.generator \in Nat /\ \A i \in 1 .. m.generator : i \in 1 .. s.generator
    BY <1>2, <1>5, <1>6
  <2>2. s.heap \in [DOMAIN s.heap -> Player]
    <3>1. s.heap = [q \in DOMAIN s.heap |-> s.heap[q]]  BY <1>5 DEF Inserted
    <3>2. \A q \in DOMAIN s.heap : s.heap[q] \in Player  BY <1>4, <1>7, <1>8 DEF HeapInv
    <3> QED  BY <3>1, <3>2
  <2>3. p \in 1 .. s.generator  BY <1>5, <1>6
  <2> QED  BY <1>4, <1>8, <1>10, <2>1, <2>2, <2>3 DEF HeapInv, uid
<1>13. MapsInv(s)
  <2>1. DOMAIN s.byUid = {s.heap[q].uid : q \in DOMAIN s.heap}
    BY <1>4, <1>8, <1>10, <1>11 DEF MapsInv
  <2>2. DOMAIN s.byAccount = {s.heap[q].account : q \in DOMAIN s.heap}
    BY <1>4, <1>8, <1>10, <1>11 DEF MapsInv
  <2>3. \A q \in DOMAIN s.heap :
          s.byUid[s.heap[q].uid] = q /\ s.byAccount[s.heap[q].account] = q
    BY <1>4, <1>8, <1>10, <1>11 DEF MapsInv
  <2>4. s.count = Cardinality(DOMAIN s.heap)
    <3>1. Cardinality(DOMAIN m.heap \union {p}) = Cardinality(DOMAIN m.heap) + 1
      BY <1>4, <1>6, HeapFinite, FS_AddElement
    <3> QED  BY <1>4, <1>5, <1>8, <3>1 DEF MapsInv
  <2>5. s.ids \subseteq DOMAIN s.heap  BY <1>4, <1>5, <1>8 DEF MapsInv
  <2> QED  BY <2>1, <2>2, <2>3, <2>4, <2>5 DEF MapsInv
<1>14. /\ WaitInv(s) /\ InWait(s.wait, p)
       /\ \A k : InWait(m.wait, k) => InWait(s.wait, k)
  BY <1>2, <1>4, <1>5, <1>6, AppendKeepsWait
<1>15. MovingInv(s)
  BY <1>4, <1>6, <1>8, <1>10, <1>11 DEF MovingInv
<1>16. ASSUME OpenInv(m) PROVE OpenInv(s)
  <2>1. /\ p \notin 1 .. m.generator /\ p \in 1 .. s.generator
        /\ \A i \in 1 .. m.generator : i \in 1 .. s.generator
    BY <1>2, <1>5, <1>6
  <2>2. p \notin DOMAIN m.bySession
    <3> SUFFICES ASSUME p \in DOMAIN m.bySession PROVE FALSE
      OBVIOUS
    <3> QED  BY <1>16, <2>1 DEF OpenInv, SessionInv
  <2>3. ASSUME NEW k \in DOMAIN m.bySession PROVE SessionInv(s, k)
    <3>1. SessionInv(m, k)  BY <1>16 DEF OpenInv
    <3>2. m.bySession[k] # p /\ s.bySession[k] = m.bySession[k]
      BY <1>11, <2>1, <3>1 DEF SessionInv
    <3> QED  BY <1>5, <1>8, <1>14, <2>1, <3>1, <3>2 DEF SessionInv
  <2>4. SessionInv(s, p)
    <3>1. s.bySession[p] = p  BY <1>11, <2>2
    <3>2. p \in DOMAIN s.heap /\ s.heap[p].session = p  BY <1>8, <1>10
    <3>3. p \in 1 .. s.generator  BY <2>1
    <3>4. InWait(s.wait, p)  BY <1>14
    <3> QED  BY <3>1, <3>2, <3>3, <3>4, Zenon DEF SessionInv
  <2>5. ASSUME NEW q \in DOMAIN s.heap, s.heap[q].session \in DOMAIN s.bySession
        PROVE  s.bySession[s.heap[q].session] = q
    <3>1. CASE q = p  BY <1>8, <1>10, <1>11, <2>2, <3>1
    <3>2. CASE q # p
      <4>1. q \in DOMAIN m.heap /\ s.heap[q] = m.heap[q] /\ m.heap[q].session # p
        BY <1>6, <1>8, <3>2
      <4> QED  BY <1>11, <1>16, <2>5, <4>1 DEF OpenInv
    <3> QED  BY <3>1, <3>2
  <2>6. \A k \in DOMAIN s.bySession : SessionInv(s, k)  BY <1>11, <2>3, <2>4
  <2> QED  BY <1>5, <1>16, <2>5, <2>6 DEF OpenInv
<1>17. ManagerInv(s)  BY <1>5, <1>12, <1>13, <1>14, <1>15 DEF ManagerInv
<1> QED  BY <1>1, <1>2, <1>5, <1>6, <1>8, <1>10, <1>11, <1>16, <1>17 DEF uid

(* Logging out keeps it, and takes away nothing but that player. *)
LEMMA LogOutPlayerKeeps ==
  ASSUME NEW m, ManagerInv(m), NEW p \in DOMAIN m.heap
  PROVE  LET s == LogOutPlayer(m, p) IN
         /\ ManagerInv(s) /\ s.generator = m.generator /\ s.wait = m.wait
         /\ OpenInv(m) => OpenInv(s)
         /\ DOMAIN s.heap = DOMAIN m.heap \ {p}
         /\ \A q \in DOMAIN s.heap : s.heap[q] = m.heap[q]
         /\ DOMAIN s.bySession = DOMAIN m.bySession \ {m.heap[p].session}
         /\ \A k \in DOMAIN s.bySession : s.bySession[k] = m.bySession[k]
         /\ DOMAIN s.byUid = DOMAIN m.byUid \ {m.heap[p].uid}
         /\ DOMAIN s.byAccount = DOMAIN m.byAccount \ {m.heap[p].account}
<1>1. PICK s : s = LogOutPlayer(m, p)  OBVIOUS
<1>2. /\ IsManager(m) /\ HeapInv(m) /\ MapsInv(m) /\ WaitInv(m) /\ MovingInv(m)
  BY DEF ManagerInv
<1>3. LoggedOut(s, m, p)  BY <1>1, <1>2, LogOutPlayerEffect
<1>4. /\ IsManager(s) /\ s.wait = m.wait /\ s.generator = m.generator
      /\ s.overlapped = m.overlapped /\ s.wild = m.wild
      /\ s.ids = m.ids \ {p} /\ s.count = m.count - 1
      /\ Erased(s.heap, m.heap, p)
      /\ Erased(s.byUid, m.byUid, m.heap[p].uid)
      /\ Erased(s.byAccount, m.byAccount, m.heap[p].account)
      /\ Erased(s.bySession, m.bySession, m.heap[p].session)
  BY <1>3 DEF LoggedOut
<1>5. /\ DOMAIN s.heap = DOMAIN m.heap \ {p}
      /\ \A q \in DOMAIN s.heap : s.heap[q] = m.heap[q]
  BY <1>4 DEF Erased
<1>6. /\ DOMAIN s.byUid = DOMAIN m.byUid \ {m.heap[p].uid}
      /\ \A u \in DOMAIN s.byUid : s.byUid[u] = m.byUid[u]
      /\ DOMAIN s.byAccount = DOMAIN m.byAccount \ {m.heap[p].account}
      /\ \A a \in DOMAIN s.byAccount : s.byAccount[a] = m.byAccount[a]
      /\ DOMAIN s.bySession = DOMAIN m.bySession \ {m.heap[p].session}
      /\ \A k \in DOMAIN s.bySession : s.bySession[k] = m.bySession[k]
  BY <1>4 DEF Erased
<1>7. HeapInv(s)
  <2>1. s.heap \in [DOMAIN s.heap -> Player]
    <3>1. s.heap = [q \in DOMAIN s.heap |-> s.heap[q]]  BY <1>4 DEF Erased
    <3>2. \A q \in DOMAIN s.heap : s.heap[q] \in Player  BY <1>2, <1>5 DEF HeapInv
    <3> QED  BY <3>1, <3>2
  <2> QED  BY <1>2, <1>4, <1>5, <2>1 DEF HeapInv
<1>8. MapsInv(s)
  <2>1. \A q \in DOMAIN m.heap :
          q # p => m.heap[q].uid # m.heap[p].uid /\ m.heap[q].account # m.heap[p].account
    BY <1>2 DEF MapsInv
  <2>2. DOMAIN s.byUid = {s.heap[q].uid : q \in DOMAIN s.heap}
    BY <1>2, <1>5, <1>6, <2>1 DEF MapsInv
  <2>3. DOMAIN s.byAccount = {s.heap[q].account : q \in DOMAIN s.heap}
    BY <1>2, <1>5, <1>6, <2>1 DEF MapsInv
  <2>4. \A q \in DOMAIN s.heap :
          s.byUid[s.heap[q].uid] = q /\ s.byAccount[s.heap[q].account] = q
    BY <1>2, <1>5, <1>6, <2>2, <2>3 DEF MapsInv
  <2>5. s.count = Cardinality(DOMAIN s.heap)
    <3>1. Cardinality(DOMAIN m.heap \ {p}) = Cardinality(DOMAIN m.heap) - 1
      BY <1>2, HeapFinite, FS_RemoveElement
    <3> QED  BY <1>2, <1>4, <1>5, <3>1 DEF MapsInv
  <2>6. s.ids \subseteq DOMAIN s.heap  BY <1>2, <1>4, <1>5 DEF MapsInv
  <2> QED  BY <2>2, <2>3, <2>4, <2>5, <2>6 DEF MapsInv
<1>9. WaitInv(s)  BY <1>2, <1>4 DEF WaitInv
<1>10. MovingInv(s)
  <2>1. \A q \in DOMAIN s.heap : m.heap[q].session # m.heap[p].session
    BY <1>2, <1>5 DEF MovingInv
  <2> QED  BY <1>2, <1>5, <1>6, <2>1 DEF MovingInv
<1>11. ASSUME OpenInv(m) PROVE OpenInv(s)
  <2>1. ASSUME NEW k \in DOMAIN s.bySession PROVE SessionInv(s, k)
    <3>1. SessionInv(m, k) /\ s.bySession[k] = m.bySession[k] /\ k # m.heap[p].session
      BY <1>6, <1>11 DEF OpenInv
    <3> QED  BY <1>4, <1>5, <3>1 DEF SessionInv
  <2>2. \A q \in DOMAIN s.heap :
          s.heap[q].session \in DOMAIN s.bySession => s.bySession[s.heap[q].session] = q
    BY <1>5, <1>6, <1>11 DEF OpenInv
  <2> QED  BY <1>4, <1>11, <2>1, <2>2 DEF OpenInv
<1>12. ManagerInv(s)  BY <1>4, <1>7, <1>8, <1>9, <1>10 DEF ManagerInv
<1>13. /\ ManagerInv(s) /\ s.generator = m.generator /\ s.wait = m.wait
       /\ OpenInv(m) => OpenInv(s)
  BY <1>4, <1>11, <1>12
<1> QED  BY <1>1, <1>5, <1>6, <1>13

(* A session whose player was deleted: only wild changes.  The player was  *)
(* given that session, or another one, beside an open one.                 *)
LEMMA WildKeeps ==
  ASSUME NEW m, ManagerInv(m), NEW k \in DOMAIN m.bySession,
         m.bySession[k] \notin DOMAIN m.heap
  PROVE  LET s == LogOutPlayer(m, m.bySession[k]) IN
         /\ ManagerInv(s) /\ s.generator = m.generator /\ s.wait = m.wait
         /\ s.heap = m.heap /\ s.bySession = m.bySession
         /\ OpenInv(m) => OpenInv(s)
<1>1. PICK p : p = m.bySession[k]  OBVIOUS
<1>2. PICK s : s = LogOutPlayer(m, p)  OBVIOUS
<1>3. WildLogOut(s, m, p)  BY <1>1, <1>2, WildEffect DEF ManagerInv
<1>4. ManagerInv(s)
  BY <1>3 DEF ManagerInv, WildLogOut, SameMaps, HeapInv, MapsInv, WaitInv, MovingInv
<1>5. ASSUME OpenInv(m) PROVE OpenInv(s)
  <2>1. p \in m.overlapped  BY <1>1, <1>5 DEF OpenInv, SessionInv
  <2> QED  BY <1>3, <1>5, <2>1 DEF OpenInv, SessionInv, WildLogOut
<1> QED  BY <1>1, <1>2, <1>3, <1>4, <1>5 DEF WildLogOut

(* A field of a player: its authentication key or its server. *)
LEMMA SetPlayerKeeps ==
  ASSUME NEW m, ManagerInv(m), NEW p \in DOMAIN m.heap, NEW field, NEW value,
         \/ field = "svrKey" /\ value \in 0 .. MaxServerKeys
         \/ field = "authKey" /\ value = 0
         \/ field = "authKey" /\ value = 1 /\ m.heap[p].session \in DOMAIN m.bySession
  PROVE  LET s == SetPlayer(m, p, field, value) IN
         /\ ManagerInv(s) /\ s.generator = m.generator /\ s.wait = m.wait
         /\ OpenInv(m) => OpenInv(s)
         /\ DOMAIN s.heap = DOMAIN m.heap /\ s.heap[p][field] = value
         /\ s.byAccount = m.byAccount /\ s.bySession = m.bySession
         /\ s.heap[p].session = m.heap[p].session
         /\ field # "authKey" => s.heap[p].authKey = m.heap[p].authKey
         /\ field # "svrKey" => s.heap[p].svrKey = m.heap[p].svrKey
<1>1. PICK s : s = SetPlayer(m, p, field, value)  OBVIOUS
<1>2. /\ IsManager(m) /\ HeapInv(m) /\ MapsInv(m) /\ WaitInv(m) /\ MovingInv(m)
  BY DEF ManagerInv
<1>3. FieldSet(s, m, p, field, value)  BY <1>1, <1>2, SetPlayerEffect
<1>4. /\ IsManager(s) /\ s.bySession = m.bySession
      /\ s.wait = m.wait /\ s.generator = m.generator
      /\ s.overlapped = m.overlapped /\ s.wild = m.wild
      /\ s.byUid = m.byUid /\ s.byAccount = m.byAccount /\ s.ids = m.ids /\ s.count = m.count
      /\ s.heap = [m.heap EXCEPT ![p] = [m.heap[p] EXCEPT ![field] = value]]
  BY <1>3 DEF FieldSet, SameMaps
<1>5. PICK player : player = [m.heap[p] EXCEPT ![field] = value]  OBVIOUS
<1>6. m.heap[p] \in Player  BY <1>2 DEF HeapInv
<1>7. /\ player \in Player /\ player.uid = m.heap[p].uid /\ player.account = m.heap[p].account
      /\ player.session = m.heap[p].session /\ player[field] = value
      /\ field = "svrKey" => player.authKey = m.heap[p].authKey
      /\ field = "authKey" => player.svrKey = m.heap[p].svrKey
  BY <1>5, <1>6 DEF Player
<1>8. /\ DOMAIN s.heap = DOMAIN m.heap /\ s.heap \in [DOMAIN m.heap -> Player]
      /\ s.heap[p] = player /\ \A q \in DOMAIN m.heap \ {p} : s.heap[q] = m.heap[q]
  <2>1. s.heap = [m.heap EXCEPT ![p] = player]  BY <1>4, <1>5
  <2>2. m.heap \in [DOMAIN m.heap -> Player]  BY <1>2 DEF HeapInv
  <2> QED  BY <1>7, <2>1, <2>2
<1>9. \A q \in DOMAIN m.heap : /\ s.heap[q].uid = m.heap[q].uid
                               /\ s.heap[q].account = m.heap[q].account
                               /\ s.heap[q].session = m.heap[q].session
  BY <1>7, <1>8
<1>10. HeapInv(s)  BY <1>2, <1>4, <1>8, <1>9 DEF HeapInv
<1>11. MapsInv(s)
  <2>1. DOMAIN s.byUid = {s.heap[q].uid : q \in DOMAIN s.heap}
    BY <1>2, <1>4, <1>8, <1>9 DEF MapsInv
  <2>2. DOMAIN s.byAccount = {s.heap[q].account : q \in DOMAIN s.heap}
    BY <1>2, <1>4, <1>8, <1>9 DEF MapsInv
  <2> QED  BY <1>2, <1>4, <1>8, <1>9, <2>1, <2>2 DEF MapsInv
<1>12. WaitInv(s)  BY <1>2, <1>4 DEF WaitInv
<1>13. MovingInv(s)
  <2>1. s.heap[p].authKey # 0 => s.heap[p].session \in DOMAIN s.bySession
    BY <1>2, <1>4, <1>7, <1>8 DEF MovingInv
  <2> QED  BY <1>2, <1>4, <1>8, <1>9, <2>1 DEF MovingInv
<1>14. ASSUME OpenInv(m) PROVE OpenInv(s)
  <2>1. ASSUME NEW k \in DOMAIN s.bySession PROVE SessionInv(s, k)
    <3>1. SessionInv(m, k)  BY <1>4, <1>14 DEF OpenInv
    <3> QED  BY <1>4, <1>8, <1>9, <3>1 DEF SessionInv
  <2> QED  BY <1>4, <1>8, <1>9, <1>14, <2>1 DEF OpenInv
<1>15. ManagerInv(s)  BY <1>4, <1>10, <1>11, <1>12, <1>13 DEF ManagerInv
<1>16. /\ field # "authKey" => s.heap[p].authKey = m.heap[p].authKey
       /\ field # "svrKey" => s.heap[p].svrKey = m.heap[p].svrKey
  BY <1>7, <1>8
<1> QED  BY <1>1, <1>4, <1>7, <1>8, <1>9, <1>14, <1>15, <1>16

(* Checking in closes the player's session: it may not be moving then.     *)
LEMMA CheckInKeeps ==
  ASSUME NEW m, ManagerInv(m), NEW p \in DOMAIN m.heap, m.heap[p].authKey = 0
  PROVE  LET s == PlayerCheckIn(m, p) IN
         /\ ManagerInv(s) /\ s.generator = m.generator /\ s.heap = m.heap
         /\ OpenInv(m) => OpenInv(s)
<1>1. PICK s : s = PlayerCheckIn(m, p)  OBVIOUS
<1>2. PICK k : k = m.heap[p].session  OBVIOUS
<1>3. /\ IsManager(m) /\ HeapInv(m) /\ MapsInv(m) /\ WaitInv(m) /\ MovingInv(m)
  BY DEF ManagerInv
<1>4. CheckedIn(s, m, k)  BY <1>1, <1>2, <1>3, CheckInEffect
<1>5. /\ IsManager(s) /\ s.heap = m.heap /\ s.generator = m.generator
      /\ s.overlapped = m.overlapped /\ s.wild = m.wild
      /\ s.byUid = m.byUid /\ s.byAccount = m.byAccount /\ s.ids = m.ids /\ s.count = m.count
      /\ DOMAIN s.bySession = DOMAIN m.bySession \ {k}
      /\ \A l \in DOMAIN s.bySession : s.bySession[l] = m.bySession[l]
  BY <1>4 DEF CheckedIn, SameMaps, Erased
<1>6. WaitWithout(s.wait, m, k)
  <2>1. s.wait = Without(m.wait, k)  BY <1>4 DEF CheckedIn
  <2> QED  BY <1>3, <2>1, RemovalKeepsWait
<1>7. HeapInv(s) /\ MapsInv(s)  BY <1>3, <1>5 DEF HeapInv, MapsInv
<1>8. WaitInv(s)  BY <1>5, <1>6 DEF WaitInv, WaitWithout
<1>9. MovingInv(s)  BY <1>2, <1>3, <1>5 DEF MovingInv
<1>10. ASSUME OpenInv(m) PROVE OpenInv(s)
  <2>1. ASSUME NEW l \in DOMAIN s.bySession PROVE SessionInv(s, l)
    <3>1. SessionInv(m, l) /\ l # k /\ s.bySession[l] = m.bySession[l]
      BY <1>5, <1>10 DEF OpenInv
    <3> QED  BY <1>5, <1>6, <3>1 DEF SessionInv, WaitWithout
  <2> QED  BY <1>5, <1>10, <2>1 DEF OpenInv
<1>11. ManagerInv(s)  BY <1>5, <1>7, <1>8, <1>9 DEF ManagerInv
<1> QED  BY <1>1, <1>5, <1>10, <1>11

(* A move opens a new session.  If the old one is open then, it is left    *)
(* open, and the player counts as one whose sessions overlapped.           *)
LEMMA ReserveMoveKeeps ==
  ASSUME NEW m, ManagerInv(m), NEW p \in DOMAIN m.heap
  PROVE  LET s == ReserveMoveSession(m, p) IN
         /\ ManagerInv(s) /\ s.generator = m.generator + 1
         /\ DOMAIN s.heap = DOMAIN m.heap /\ s.heap[p].session \in DOMAIN s.bySession
         /\ OpenInv(m) => OpenInv(s)
<1>1. PICK s : s = ReserveMoveSession(m, p)  OBVIOUS
<1>2. PICK k : k = m.generator + 1  OBVIOUS
<1>3. PICK player : player = [m.heap[p] EXCEPT !["session"] = k]  OBVIOUS
<1>4. /\ IsManager(m) /\ HeapInv(m) /\ MapsInv(m) /\ WaitInv(m) /\ MovingInv(m)
  BY DEF ManagerInv
<1>5. MoveReserved(s, m, p)  BY <1>1, <1>4, ReserveMoveEffect
<1>6. /\ IsManager(s) /\ Pushed(s, m) /\ s.generator = k
      /\ s.wild = m.wild /\ m.overlapped \subseteq s.overlapped
      /\ m.heap[p].session \in DOMAIN m.bySession => p \in s.overlapped
      /\ s.byUid = m.byUid /\ s.byAccount = m.byAccount /\ s.ids = m.ids /\ s.count = m.count
      /\ DOMAIN s.bySession = DOMAIN m.bySession \union {k}
      /\ \A l \in DOMAIN m.bySession : s.bySession[l] = m.bySession[l]
      /\ k \notin DOMAIN m.bySession => s.bySession[k] = p
  BY <1>2, <1>5 DEF MoveReserved, SameMaps, Pushed, Inserted
<1>7. /\ k \in Nat \ {0} /\ m.generator \in Nat
      /\ \A q \in DOMAIN m.heap : m.heap[q].session # k
  BY <1>2, <1>4, FreshKey DEF HeapInv
<1>8. m.heap[p] \in Player  BY <1>4 DEF HeapInv
<1>9. /\ player \in Player /\ player.uid = m.heap[p].uid /\ player.account = m.heap[p].account
      /\ player.session = k
  BY <1>3, <1>7, <1>8 DEF Player
<1>10. /\ DOMAIN s.heap = DOMAIN m.heap /\ s.heap \in [DOMAIN m.heap -> Player]
       /\ s.heap[p] = player /\ \A q \in DOMAIN m.heap \ {p} : s.heap[q] = m.heap[q]
  <2>1. s.heap = [m.heap EXCEPT ![p] = player]  BY <1>2, <1>3, <1>5 DEF MoveReserved
  <2>2. m.heap \in [DOMAIN m.heap -> Player]  BY <1>4 DEF HeapInv
  <2> QED  BY <1>9, <2>1, <2>2
<1>11. \A q \in DOMAIN m.heap : /\ s.heap[q].uid = m.heap[q].uid
                                /\ s.heap[q].account = m.heap[q].account
  BY <1>9, <1>10
<1>12. HeapInv(s)
  <2>1. k \in 1 .. s.generator /\ s.generator \in Nat
        /\ \A i \in 1 .. m.generator : i \in 1 .. s.generator
    BY <1>2, <1>6, <1>7
  <2>2. \A q \in DOMAIN s.heap : s.heap[q].session \in 1 .. s.generator
    BY <1>4, <1>9, <1>10, <2>1 DEF HeapInv
  <2> QED  BY <1>4, <1>9, <1>10, <1>11, <2>1, <2>2 DEF HeapInv
<1>13. MapsInv(s)
  <2>1. DOMAIN s.byUid = {s.heap[q].uid : q \in DOMAIN s.heap}
    BY <1>4, <1>6, <1>10, <1>11 DEF MapsInv
  <2>2. DOMAIN s.byAccount = {s.heap[q].account : q \in DOMAIN s.heap}
    BY <1>4, <1>6, <1>10, <1>11 DEF MapsInv
  <2> QED  BY <1>4, <1>6, <1>10, <1>11, <2>1, <2>2 DEF MapsInv
<1>14. /\ WaitInv(s) /\ InWait(s.wait, k)
       /\ \A l : InWait(m.wait, l) => InWait(s.wait, l)
  BY <1>2, <1>4, <1>6, <1>7, AppendKeepsWait
<1>15. MovingInv(s)
  <2>1. \A q \in DOMAIN m.heap \ {p} : s.heap[q].session # s.heap[p].session
    BY <1>7, <1>9, <1>10
  <2>2. \A q, r \in DOMAIN s.heap : s.heap[q].session = s.heap[r].session => q = r
    BY <1>4, <1>10, <2>1 DEF MovingInv
  <2>3. \A q \in DOMAIN s.heap : s.heap[q].authKey # 0 => s.heap[q].session \in DOMAIN s.bySession
    BY <1>4, <1>6, <1>9, <1>10 DEF MovingInv
  <2> QED  BY <2>2, <2>3 DEF MovingInv
<1>16. ASSUME OpenInv(m) PROVE OpenInv(s)
  <2>1. k \notin 1 .. m.generator /\ k \in 1 .. s.generator
        /\ \A i \in 1 .. m.generator : i \in 1 .. s.generator
    BY <1>2, <1>6, <1>7
  <2>2. k \notin DOMAIN m.bySession
    <3> SUFFICES ASSUME k \in DOMAIN m.bySession PROVE FALSE
      OBVIOUS
    <3> QED  BY <1>16, <2>1 DEF OpenInv, SessionInv
  <2>3. ASSUME NEW l \in DOMAIN m.bySession PROVE SessionInv(s, l)
    <3>1. SessionInv(m, l) /\ s.bySession[l] = m.bySession[l]  BY <1>6, <1>16 DEF OpenInv
    <3>2. ASSUME s.bySession[l] \notin s.overlapped
          PROVE  s.bySession[l] \in DOMAIN s.heap /\ s.heap[s.bySession[l]].session = l
      <4>1. /\ m.bySession[l] \in DOMAIN m.heap /\ m.heap[m.bySession[l]].session = l
        BY <1>6, <3>1, <3>2 DEF SessionInv
      <4>2. m.bySession[l] # p  BY <1>6, <3>1, <3>2, <4>1
      <4> QED  BY <1>10, <3>1, <4>1, <4>2
    <3> QED  BY <1>10, <1>14, <2>1, <3>1, <3>2 DEF SessionInv
  <2>4. SessionInv(s, k)
    <3>1. p \in 1 .. s.generator  BY <1>10, <1>12 DEF HeapInv
    <3> QED  BY <1>6, <1>9, <1>10, <1>14, <2>1, <2>2, <3>1 DEF SessionInv
  <2>5. ASSUME NEW q \in DOMAIN s.heap, s.heap[q].session \in DOMAIN s.bySession
        PROVE  s.bySession[s.heap[q].session] = q
    <3>1. CASE q = p  BY <1>6, <1>9, <1>10, <2>2, <3>1
    <3>2. CASE q # p
      <4>1. q \in DOMAIN m.heap /\ s.heap[q] = m.heap[q] /\ m.heap[q].session # k
        BY <1>7, <1>10, <3>2
      <4> QED  BY <1>6, <1>16, <2>5, <4>1 DEF OpenInv
    <3> QED  BY <3>1, <3>2
  <2>6. \A l \in DOMAIN s.bySession : SessionInv(s, l)  BY <1>6, <2>3, <2>4
  <2> QED  BY <1>6, <1>16, <2>5, <2>6 DEF OpenInv
<1>17. ManagerInv(s)  BY <1>6, <1>12, <1>13, <1>14, <1>15 DEF ManagerInv
<1> QED  BY <1>1, <1>2, <1>6, <1>9, <1>10, <1>16, <1>17

(* Time passes for every session alike. *)
LEMMA ElapseKeeps ==
  ASSUME NEW m, ManagerInv(m)
  PROVE  /\ ManagerInv(Elapse(m)) /\ Elapse(m).generator = m.generator
         /\ Elapse(m).heap = m.heap
         /\ OpenInv(m) => OpenInv(Elapse(m))
<1>1. PICK s : s = Elapse(m)  OBVIOUS
<1>2. PICK n : n = Len(m.wait)  OBVIOUS
<1>3. /\ IsManager(m) /\ HeapInv(m) /\ MapsInv(m) /\ WaitInv(m) /\ MovingInv(m)
  BY DEF ManagerInv
<1>4. /\ IsManager(s)
      /\ s.heap = m.heap /\ s.byUid = m.byUid /\ s.byAccount = m.byAccount
      /\ s.bySession = m.bySession /\ s.ids = m.ids /\ s.count = m.count
      /\ s.generator = m.generator
      /\ s.overlapped = m.overlapped /\ s.wild = m.wild
      /\ s.wait = [i \in DOMAIN m.wait |-> Older(m.wait[i])]
  BY <1>1, <1>3 DEF IsManager, Elapse
<1>5. m.wait \in Seq(Session) /\ n \in Nat /\ DOMAIN m.wait = 1 .. n
  BY <1>2, <1>3 DEF WaitInv
<1>6. ASSUME NEW i \in 1 .. n
      PROVE  /\ s.wait[i] \in Session /\ s.wait[i].key = m.wait[i].key
             /\ s.wait[i].left = IF m.wait[i].left > 0 THEN m.wait[i].left - 1 ELSE 0
  <2>1. m.wait[i] \in Session  BY <1>2, <1>5
  <2>2. s.wait[i] = Older(m.wait[i])  BY <1>4, <1>5
  <2> QED  BY <2>1, <2>2, PeriodAssumption DEF Session, Older
<1>7. s.wait \in Seq(Session) /\ Len(s.wait) = n
  <2>1. s.wait = [i \in 1 .. n |-> s.wait[i]]  BY <1>4, <1>5
  <2>2. \A i \in 1 .. n : s.wait[i] \in Session  BY <1>6
  <2> QED  BY <1>5, <2>1, <2>2
<1>8. WaitInv(s)
  <2>1. \A i \in 1 .. n : s.wait[i].key <= s.generator
    BY <1>2, <1>3, <1>4, <1>6 DEF WaitInv
  <2>2. ASSUME NEW i \in 1 .. n, NEW j \in 1 .. n, i < j
        PROVE  s.wait[i].left <= s.wait[j].left /\ s.wait[i].key < s.wait[j].key
    <3>1. m.wait[i].left <= m.wait[j].left /\ m.wait[i].key < m.wait[j].key
      BY <1>2, <1>3, <2>2 DEF WaitInv
    <3>2. m.wait[i].left \in Nat /\ m.wait[j].left \in Nat
      BY <1>2, <1>5, SessionType, PeriodAssumption
    <3> QED  BY <1>6, <3>1, <3>2
  <2> QED  BY <1>7, <2>1, <2>2 DEF WaitInv
<1>9. HeapInv(s) /\ MapsInv(s) /\ MovingInv(s)
  BY <1>3, <1>4 DEF HeapInv, MapsInv, MovingInv
<1>10. \A k : InWait(m.wait, k) => InWait(s.wait, k)
  BY <1>2, <1>6, <1>7 DEF InWait
<1>11. OpenInv(m) => OpenInv(s)  BY <1>4, <1>10 DEF OpenInv, SessionInv
<1> QED  BY <1>1, <1>4, <1>8, <1>9, <1>11 DEF ManagerInv
-----------------------------------------------------------------------------
(* Handlers that repeat an operator: for what holds after each repetition, *)
(* induction.                                                              *)
LEMMA SetInduction ==
  ASSUME NEW S, 0 \in S, \A n \in Nat : n \in S => n + 1 \in S
  PROVE  Nat \subseteq S
<1> SUFFICES ASSUME Nat \ S # {} PROVE FALSE
  OBVIOUS
<1>1. PICK x \in Nat \ S : \A y \in Nat \ S : ~(<<y, x>> \in OpToRel(<, Nat))
  BY NatLessThanWellFounded, WFMin
<1>2. x # 0 /\ x - 1 \in Nat /\ x - 1 + 1 = x
  OBVIOUS
<1>3. <<x - 1, x>> \in OpToRel(<, Nat)
  BY <1>2 DEF OpToRel
<1> QED  BY <1>1, <1>2, <1>3

(* The managers a tick goes through exist: its recursion is well defined.  *)
LEMMA ExpireFirstSteps ==
  ASSUME NEW m, NEW n \in Nat
  PROVE  \E f : /\ DOMAIN f = 0 .. n /\ f[0] = m
                /\ \A i \in 1 .. n : f[i] = ExpireSession(f[i - 1], m.wait[i].key)
                /\ ExpireFirst(m, n) = f[n]
<1> DEFINE Body(f, j) ==
             [i \in 0 .. j |-> IF i = 0 THEN m ELSE ExpireSession(f[i - 1], m.wait[i].key)]
           S == {j \in Nat : \E f : f = Body(f, j)}
<1>1. 0 \in S
  <2> DEFINE f == [i \in 0 .. 0 |-> m]
  <2>1. f = Body(f, 0)  OBVIOUS
  <2> QED  BY <2>1
<1>2. ASSUME NEW j \in Nat, j \in S PROVE j + 1 \in S
  <2>1. PICK f : f = Body(f, j)  BY <1>2
  <2> DEFINE g == [i \in 0 .. j + 1 |->
                     IF i = j + 1 THEN ExpireSession(f[j], m.wait[j + 1].key) ELSE f[i]]
  <2>2. ASSUME NEW i \in 0 .. j + 1
        PROVE  g[i] = IF i = 0 THEN m ELSE ExpireSession(g[i - 1], m.wait[i].key)
    <3>1. CASE i = j + 1  BY <3>1
    <3>2. CASE i = 0  BY <2>1, <3>2
    <3>3. CASE i # 0 /\ i # j + 1
      <4>1. i \in 0 .. j /\ i - 1 \in 0 .. j /\ i - 1 \in 0 .. j + 1 /\ i - 1 # j + 1
        BY <3>3
      <4>2. g[i - 1] = f[i - 1] /\ g[i] = f[i]  BY <3>3, <4>1
      <4> HIDE DEF g
      <4> QED  BY <2>1, <3>3, <4>1, <4>2
    <3> QED  BY <3>1, <3>2, <3>3
  <2>3. g = [i \in 0 .. j + 1 |-> g[i]]  OBVIOUS
  <2> HIDE DEF g
  <2>4. g = Body(g, j + 1)  BY <2>2, <2>3
  <2> QED  BY <2>4
<1>3. n \in S
  <2> HIDE DEF S
  <2> QED  BY <1>1, <1>2, SetInduction
<1>4. PICK f : f = Body(f, n)  BY <1>3
<1> DEFINE after == CHOOSE f0 : f0 = Body(f0, n)
<1>5. after = Body(after, n)  BY <1>4
<1>6. ExpireFirst(m, n) = after[n]  BY DEF ExpireFirst
<1> HIDE DEF after
<1>7. DOMAIN after = 0 .. n /\ after[0] = m  BY <1>5
<1>8. \A i \in 1 .. n : after[i] = ExpireSession(after[i - 1], m.wait[i].key)
  BY <1>5
<1> QED  BY <1>6, <1>7, <1>8

(* An expired session takes its player with it, if both are there.  What   *)
(* else it closes is a session of that player.                             *)
ClosedFor(s, m) ==
  /\ DOMAIN s.bySession \subseteq DOMAIN m.bySession
  /\ \A k \in DOMAIN s.bySession : s.bySession[k] = m.bySession[k]
  /\ \A k \in DOMAIN m.bySession \ DOMAIN s.bySession : m.bySession[k] \notin DOMAIN s.heap

LEMMA ExpireSessionKeeps ==
  ASSUME NEW m, ManagerInv(m), OpenInv(m), NEW k
  PROVE  LET s == ExpireSession(m, k) IN
         /\ ManagerInv(s) /\ s.generator = m.generator /\ s.wait = m.wait
         /\ DOMAIN s.heap \subseteq DOMAIN m.heap
         /\ \A p \in DOMAIN s.heap : s.heap[p] = m.heap[p]
         /\ OpenInv(s) /\ ClosedFor(s, m)
         /\ \A p \in DOMAIN m.heap :
              p \in DOMAIN s.heap <=> ~(k \in DOMAIN m.bySession /\ m.bySession[k] = p)
<1>1. PICK s : s = ExpireSession(m, k)  OBVIOUS
<1>2. CASE k \notin DOMAIN m.bySession
  <2>1. s = m  BY <1>1, <1>2 DEF ExpireSession
  <2>2. ClosedFor(m, m)  BY DEF ClosedFor
  <2> QED  BY <1>1, <1>2, <2>1, <2>2
<1>3. CASE k \in DOMAIN m.bySession /\ m.bySession[k] \notin DOMAIN m.heap
  <2>1. s = LogOutPlayer(m, m.bySession[k])  BY <1>1, <1>3 DEF ExpireSession
  <2>2. /\ ManagerInv(s) /\ s.generator = m.generator /\ s.wait = m.wait
        /\ s.heap = m.heap /\ s.bySession = m.bySession
        /\ OpenInv(s)
    BY <1>3, <2>1, WildKeeps
  <2>3. ClosedFor(s, m)  BY <2>2 DEF ClosedFor
  <2> QED  BY <1>1, <1>3, <2>2, <2>3
<1>4. CASE k \in DOMAIN m.bySession /\ m.bySession[k] \in DOMAIN m.heap
  <2>1. PICK p : p = m.bySession[k]  OBVIOUS
  <2>2. p \in DOMAIN m.heap /\ s = LogOutPlayer(m, p)
    BY <1>1, <1>4, <2>1 DEF ExpireSession
  <2>3. /\ ManagerInv(s) /\ s.generator = m.generator /\ s.wait = m.wait
        /\ OpenInv(s)
        /\ DOMAIN s.heap = DOMAIN m.heap \ {p}
        /\ \A q \in DOMAIN s.heap : s.heap[q] = m.heap[q]
        /\ DOMAIN s.bySession = DOMAIN m.bySession \ {m.heap[p].session}
        /\ \A l \in DOMAIN s.bySession : s.bySession[l] = m.bySession[l]
    BY <2>2, LogOutPlayerKeeps
  <2>4. m.heap[p].session \in DOMAIN m.bySession => m.bySession[m.heap[p].session] = p
    BY <2>2 DEF OpenInv
  <2>5. ClosedFor(s, m)  BY <2>3, <2>4 DEF ClosedFor
  <2>6. \A q \in DOMAIN m.heap :
          q \in DOMAIN s.heap <=> ~(k \in DOMAIN m.bySession /\ m.bySession[k] = q)
    BY <1>4, <2>1, <2>3
  <2> QED  BY <1>1, <2>3, <2>5, <2>6
<1> QED  BY <1>2, <1>3, <1>4

(* The keys of the first sessions in the wait list, and whose they are.    *)
FirstKeys(w, n) == {w[i].key : i \in 1 .. n}

PlayersOf(m, K) == {m.bySession[k] : k \in K \intersect DOMAIN m.bySession}

Expiring(s, m, n) ==
  /\ ManagerInv(s) /\ s.generator = m.generator /\ s.wait = m.wait
  /\ DOMAIN s.heap \subseteq DOMAIN m.heap
  /\ \A p \in DOMAIN s.heap : s.heap[p] = m.heap[p]
  /\ OpenInv(s) /\ ClosedFor(s, m)
  /\ \A p \in DOMAIN m.heap :
       p \in DOMAIN s.heap <=> p \notin PlayersOf(m, FirstKeys(m.wait, n))

(* One more session expires.                                               *)
LEMMA ExpiringStep ==
  ASSUME NEW m, NEW r, NEW i \in Nat, Expiring(r, m, i),
         NEW k, k = m.wait[i + 1].key
  PROVE  Expiring(ExpireSession(r, k), m, i + 1)
<1>1. PICK s : s = ExpireSession(r, k)  OBVIOUS
<1>2. PICK K : K = FirstKeys(m.wait, i)  OBVIOUS
<1>3. FirstKeys(m.wait, i + 1) = K \union {k}
  <2>1. 1 .. i + 1 = (1 .. i) \union {i + 1}  OBVIOUS
  <2> QED  BY <1>2, <2>1 DEF FirstKeys
<1>4. /\ ManagerInv(r) /\ r.generator = m.generator /\ r.wait = m.wait
      /\ DOMAIN r.heap \subseteq DOMAIN m.heap
      /\ \A p \in DOMAIN r.heap : r.heap[p] = m.heap[p]
      /\ OpenInv(r) /\ ClosedFor(r, m)
      /\ \A p \in DOMAIN m.heap : p \in DOMAIN r.heap <=> p \notin PlayersOf(m, K)
  BY <1>2 DEF Expiring
<1>5. /\ ManagerInv(s) /\ s.generator = r.generator /\ s.wait = r.wait
      /\ DOMAIN s.heap \subseteq DOMAIN r.heap
      /\ \A p \in DOMAIN s.heap : s.heap[p] = r.heap[p]
      /\ OpenInv(s) /\ ClosedFor(s, r)
      /\ \A p \in DOMAIN r.heap :
           p \in DOMAIN s.heap <=> ~(k \in DOMAIN r.bySession /\ r.bySession[k] = p)
  BY <1>1, <1>4, ExpireSessionKeeps
<1>6. ClosedFor(s, m)
  <2>1. ASSUME NEW l \in DOMAIN m.bySession \ DOMAIN s.bySession
        PROVE  m.bySession[l] \notin DOMAIN s.heap
    <3>1. CASE l \in DOMAIN r.bySession
      <4>1. r.bySession[l] \notin DOMAIN s.heap  BY <1>5, <2>1, <3>1 DEF ClosedFor
      <4> QED  BY <1>4, <3>1, <4>1 DEF ClosedFor
    <3>2. CASE l \notin DOMAIN r.bySession
      <4>1. m.bySession[l] \notin DOMAIN r.heap  BY <1>4, <2>1, <3>2 DEF ClosedFor
      <4> QED  BY <1>5, <4>1
    <3> QED  BY <3>1, <3>2
  <2> QED  BY <1>4, <1>5, <2>1 DEF ClosedFor
<1>7. ASSUME NEW p \in DOMAIN m.heap
      PROVE  p \in DOMAIN s.heap <=> p \notin PlayersOf(m, K \union {k})
  <2>1. p \in PlayersOf(m, K \union {k}) <=>
          p \in PlayersOf(m, K) \/ (k \in DOMAIN m.bySession /\ m.bySession[k] = p)
    BY DEF PlayersOf
  <2>2. CASE p \notin DOMAIN r.heap
    BY <1>4, <1>5, <2>1, <2>2
  <2>3. CASE p \in DOMAIN r.heap
    <3>1. k \in DOMAIN m.bySession /\ m.bySession[k] = p =>
            k \in DOMAIN r.bySession
      BY <1>4, <2>3 DEF ClosedFor
    <3>2. k \in DOMAIN r.bySession =>
            k \in DOMAIN m.bySession /\ r.bySession[k] = m.bySession[k]
      BY <1>4 DEF ClosedFor
    <3>3. p \notin PlayersOf(m, K)  BY <1>4, <2>3
    <3> QED  BY <1>5, <2>1, <2>3, <3>1, <3>2, <3>3
  <2> QED  BY <2>2, <2>3
<1>8. /\ s.generator = m.generator /\ s.wait = m.wait
      /\ DOMAIN s.heap \subseteq DOMAIN m.heap
      /\ \A p \in DOMAIN s.heap : s.heap[p] = m.heap[p]
  BY <1>4, <1>5
<1> QED  BY <1>1, <1>3, <1>5, <1>6, <1>7, <1>8 DEF Expiring

(* After the first n sessions have expired, their players are gone, and    *)
(* nobody else is.                                                         *)
LEMMA ExpireFirstKeeps ==
  ASSUME NEW m, ManagerInv(m), OpenInv(m), NEW n \in Nat
  PROVE  Expiring(ExpireFirst(m, n), m, n)
<1>1. PICK f : /\ DOMAIN f = 0 .. n /\ f[0] = m
               /\ \A i \in 1 .. n : f[i] = ExpireSession(f[i - 1], m.wait[i].key)
               /\ ExpireFirst(m, n) = f[n]
  BY ExpireFirstSteps
<1> DEFINE S == {i \in Nat : i <= n => Expiring(f[i], m, i)}
<1>2. 0 \in S
  <2>1. PlayersOf(m, FirstKeys(m.wait, 0)) = {}  BY DEF FirstKeys, PlayersOf
  <2>2. ClosedFor(m, m)  BY DEF ClosedFor
  <2>3. Expiring(m, m, 0)  BY <2>1, <2>2 DEF Expiring
  <2> QED  BY <1>1, <2>3
<1>3. ASSUME NEW i \in Nat, i \in S PROVE i + 1 \in S
  <2> SUFFICES ASSUME i + 1 <= n PROVE Expiring(f[i + 1], m, i + 1)
    OBVIOUS
  <2>1. Expiring(f[i], m, i)  BY <1>3
  <2>2. f[i + 1] = ExpireSession(f[i], m.wait[i + 1].key)
    <3>1. i + 1 \in 1 .. n /\ (i + 1) - 1 = i  OBVIOUS
    <3> QED  BY <1>1, <3>1
  <2>3. PICK r : r = f[i]  OBVIOUS
  <2>4. Expiring(ExpireSession(r, m.wait[i + 1].key), m, i + 1)
    BY <2>1, <2>3, ExpiringStep
  <2> QED  BY <2>2, <2>3, <2>4
<1>4. n \in S
  <2> HIDE DEF S
  <2> QED  BY <1>2, <1>3, SetInduction
<1> QED  BY <1>1, <1>4

(* A tick stops right behind the last session that is due: the wait list   *)
(* is in order.                                                            *)
LEMMA ExpiredAreTheDue ==
  ASSUME NEW m, WaitInv(m)
  PROVE  /\ Expired(m) \in 0 .. Len(m.wait)
         /\ \A i \in 1 .. Len(m.wait) : m.wait[i].left = 0 <=> i <= Expired(m)
<1> DEFINE N == Len(m.wait)
           I == {i \in 1 .. N : m.wait[i].left > 0}
<1>1. m.wait \in Seq(Session) /\ N \in Nat  BY DEF WaitInv
<1>2. \A i \in 1 .. N : m.wait[i].left \in Nat
  BY <1>1, SessionType, PeriodAssumption
<1>3. SelectInSeq(m.wait, LAMBDA s : s.left > 0) = IF I = {} THEN 0 ELSE Min(I)
  BY DEF SelectInSeq
<1>4. CASE I = {}
  <2>1. Expired(m) = N  BY <1>3, <1>4 DEF Expired
  <2> QED  BY <1>1, <1>2, <1>4, <2>1
<1>5. CASE I # {}
  <2>1. PICK x \in I : \A y \in I : x <= y
    <3>1. I \subseteq Nat  OBVIOUS
    <3>2. PICK x \in I : \A y \in I : ~(<<y, x>> \in OpToRel(<, Nat))
      BY <1>5, <3>1, NatLessThanWellFounded, WFMin
    <3>3. ASSUME NEW y \in I PROVE x <= y
      <4>1. x \in Nat /\ y \in Nat  BY <3>1
      <4>2. ~(<<y, x>> \in OpToRel(<, Nat))  BY <3>2
      <4>3. ~(y < x)  BY <4>1, <4>2 DEF OpToRel
      <4> HIDE DEF I
      <4> QED  BY <4>1, <4>3
    <3> QED  BY <3>3
  <2>2. Min(I) \in I /\ \A y \in I : Min(I) <= y
    <3> HIDE DEF I
    <3> QED  BY <2>1 DEF Min
  <2>3. PICK a : a = Min(I)  OBVIOUS
  <2>4. a \in 1 .. N /\ m.wait[a].left > 0 /\ \A y \in I : a <= y
    BY <2>2, <2>3
  <2>5. Expired(m) = a - 1
    <3> HIDE DEF I
    <3> QED  BY <1>3, <1>5, <2>3, <2>4 DEF Expired
  <2>6. ASSUME NEW i \in 1 .. N PROVE m.wait[i].left = 0 <=> i <= a - 1
    <3>1. CASE i < a
      <4>1. i \notin I  BY <1>1, <2>4, <3>1
      <4> QED  BY <1>1, <1>2, <2>4, <3>1, <4>1
    <3>2. CASE i = a
      BY <1>1, <1>2, <2>4, <3>2
    <3>3. CASE i > a
      <4>1. m.wait[a].left <= m.wait[i].left  BY <2>4, <3>3 DEF WaitInv
      <4> QED  BY <1>1, <1>2, <2>4, <3>3, <4>1
    <3> QED  BY <1>1, <2>4, <3>1, <3>2, <3>3
  <2> QED  BY <1>1, <2>4, <2>5, <2>6
<1> QED  BY <1>4, <1>5

LEMMA TickKeeps ==
  ASSUME NEW m, ManagerInv(m), OpenInv(m)
  PROVE  LET s == TickProcess(m) IN
         /\ ManagerInv(s) /\ s.generator = m.generator
         /\ DOMAIN s.heap \subseteq DOMAIN m.heap
         /\ OpenInv(s)
         /\ DOMAIN m.heap \ DOMAIN s.heap = DOMAIN m.heap \intersect DuePlayers(m)
<1>1. PICK s : s = TickProcess(m)  OBVIOUS
<1>2. PICK n : n = Expired(m)  OBVIOUS
<1>3. PICK e : e = ExpireFirst(m, n)  OBVIOUS
<1>4. PICK N : N = Len(m.wait)  OBVIOUS
<1>5. WaitInv(m) /\ m.wait \in Seq(Session) /\ N \in Nat
  BY <1>4 DEF ManagerInv, WaitInv
<1>6. /\ n \in 0 .. N /\ n \in Nat
      /\ \A i \in 1 .. N : m.wait[i].left = 0 <=> i <= n
  BY <1>2, <1>4, <1>5, ExpiredAreTheDue
<1>7. Expiring(e, m, n)  BY <1>3, <1>6, ExpireFirstKeeps
<1>8. ManagerInv(e) /\ e.generator = m.generator  BY <1>7 DEF Expiring
<1>9. /\ IsManager(s) /\ s.generator = e.generator
      /\ s.heap = e.heap /\ s.byUid = e.byUid /\ s.byAccount = e.byAccount
      /\ s.bySession = e.bySession /\ s.ids = e.ids /\ s.count = e.count
      /\ s.overlapped = e.overlapped /\ s.wild = e.wild
      /\ s.wait = SubSeq(m.wait, n + 1, N)
  BY <1>1, <1>2, <1>3, <1>4, <1>8 DEF ManagerInv, IsManager, TickProcess
<1>10. /\ s.wait \in Seq(Session) /\ Len(s.wait) = N - n
       /\ \A i \in 1 .. N - n : s.wait[i] = m.wait[n + i]
  BY <1>4, <1>5, <1>6, <1>9
<1>11. \A i \in 1 .. N - n : n + i \in 1 .. N  BY <1>5, <1>6
<1>12. WaitInv(s)
  <2>1. \A i \in 1 .. N - n : s.wait[i].key <= s.generator
    BY <1>4, <1>5, <1>8, <1>9, <1>10, <1>11 DEF WaitInv
  <2>2. ASSUME NEW i \in 1 .. N - n, NEW j \in 1 .. N - n, i < j
        PROVE  s.wait[i].left <= s.wait[j].left /\ s.wait[i].key < s.wait[j].key
    <3>1. n + i < n + j /\ n + i \in 1 .. N /\ n + j \in 1 .. N
      BY <1>5, <1>6, <1>11, <2>2
    <3>2. PICK a, b : a = n + i /\ b = n + j  OBVIOUS
    <3>3. m.wait[a].left <= m.wait[b].left /\ m.wait[a].key < m.wait[b].key
      BY <1>4, <1>5, <3>1, <3>2 DEF WaitInv
    <3> QED  BY <1>10, <3>2, <3>3
  <2> QED  BY <1>10, <2>1, <2>2 DEF WaitInv
<1>13. ManagerInv(s)
  <2>1. HeapInv(s) /\ MapsInv(s) /\ MovingInv(s)
    BY <1>8, <1>9 DEF ManagerInv, HeapInv, MapsInv, MovingInv
  <2> QED  BY <1>9, <1>12, <2>1 DEF ManagerInv
<1>14. FirstKeys(m.wait, n) = DueKeys(m)
  <2>1. DOMAIN m.wait = 1 .. N  BY <1>4, <1>5
  <2>2. {j \in DOMAIN m.wait : m.wait[j].left = 0} = 1 .. n  BY <1>5, <1>6, <2>1
  <2> QED  BY <2>2 DEF FirstKeys, DueKeys
<1>15. /\ OpenInv(e) /\ e.wait = m.wait /\ ClosedFor(e, m)
       /\ DOMAIN e.heap \subseteq DOMAIN m.heap
       /\ \A p \in DOMAIN m.heap :
            p \in DOMAIN e.heap <=> p \notin PlayersOf(m, FirstKeys(m.wait, n))
  BY <1>7 DEF Expiring
<1>16. ASSUME NEW k \in DOMAIN s.bySession PROVE SessionInv(s, k)
  <2>1. SessionInv(e, k)  BY <1>9, <1>15, <1>16 DEF OpenInv
  <2>2. ASSUME s.bySession[k] \in DOMAIN s.heap PROVE InWait(s.wait, k)
    <3>1. InWait(m.wait, k)  BY <1>9, <1>15, <2>1, <2>2 DEF SessionInv
    <3>2. k \notin FirstKeys(m.wait, n)
      <4>1. k \in DOMAIN m.bySession /\ m.bySession[k] = s.bySession[k]
        BY <1>9, <1>15, <1>16 DEF ClosedFor
      <4>2. m.bySession[k] \notin PlayersOf(m, FirstKeys(m.wait, n))
        BY <1>9, <1>15, <2>2, <4>1
      <4> QED  BY <4>1, <4>2 DEF PlayersOf
    <3>3. PICK i \in 1 .. N : m.wait[i].key = k  BY <1>4, <3>1 DEF InWait
    <3>4. i > n  BY <1>5, <1>6, <3>2, <3>3 DEF FirstKeys
    <3>5. PICK j : j = i - n  OBVIOUS
    <3>6. j \in 1 .. N - n /\ n + j = i  BY <1>5, <1>6, <3>4, <3>5
    <3> QED  BY <1>10, <3>3, <3>6 DEF InWait
  <2> QED  BY <1>9, <2>1, <2>2 DEF SessionInv
<1>17. OpenInv(s)  BY <1>9, <1>15, <1>16 DEF OpenInv
<1>18. DOMAIN m.heap \ DOMAIN s.heap = DOMAIN m.heap \intersect DuePlayers(m)
  BY <1>9, <1>14, <1>15 DEF PlayersOf, DuePlayers
<1> QED  BY <1>1, <1>8, <1>9, <1>13, <1>15, <1>17, <1>18

(* The managers the list of a community server goes through exist. *)
LEMMA LogInAllSteps ==
  ASSUME NEW m, NEW accounts, NEW keySvr, Len(accounts) \in Nat
  PROVE  \E f : /\ DOMAIN f = 0 .. Len(accounts) /\ f[0] = m
                /\ \A i \in 1 .. Len(accounts) :
                     f[i] = LogIn(f[i - 1], UidOf[accounts[i]], accounts[i], keySvr)
                /\ LogInAll(m, accounts, keySvr) = f[Len(accounts)]
<1> DEFINE n == Len(accounts)
           Body(f, j) ==
             [i \in 0 .. j |->
                IF i = 0 THEN m
                ELSE LogIn(f[i - 1], UidOf[accounts[i]], accounts[i], keySvr)]
           S == {j \in Nat : \E f : f = Body(f, j)}
<1>1. 0 \in S
  <2> DEFINE f == [i \in 0 .. 0 |-> m]
  <2>1. f = Body(f, 0)  OBVIOUS
  <2> QED  BY <2>1
<1>2. ASSUME NEW j \in Nat, j \in S PROVE j + 1 \in S
  <2>1. PICK f : f = Body(f, j)  BY <1>2
  <2> DEFINE g == [i \in 0 .. j + 1 |->
                     IF i = j + 1
                     THEN LogIn(f[j], UidOf[accounts[j + 1]], accounts[j + 1], keySvr)
                     ELSE f[i]]
  <2>2. ASSUME NEW i \in 0 .. j + 1
        PROVE  g[i] = IF i = 0 THEN m
                      ELSE LogIn(g[i - 1], UidOf[accounts[i]], accounts[i], keySvr)
    <3>1. CASE i = j + 1  BY <3>1
    <3>2. CASE i = 0  BY <2>1, <3>2
    <3>3. CASE i # 0 /\ i # j + 1
      <4>1. i \in 0 .. j /\ i - 1 \in 0 .. j /\ i - 1 \in 0 .. j + 1 /\ i - 1 # j + 1
        BY <3>3
      <4>2. g[i - 1] = f[i - 1] /\ g[i] = f[i]  BY <3>3, <4>1
      <4> HIDE DEF g
      <4> QED  BY <2>1, <3>3, <4>1, <4>2
    <3> QED  BY <3>1, <3>2, <3>3
  <2>3. g = [i \in 0 .. j + 1 |-> g[i]]  OBVIOUS
  <2> HIDE DEF g
  <2>4. g = Body(g, j + 1)  BY <2>2, <2>3
  <2> QED  BY <2>4
<1>3. n \in S
  <2> HIDE DEF S
  <2> QED  BY <1>1, <1>2, SetInduction
<1>4. PICK f : f = Body(f, n)  BY <1>3
<1> DEFINE after == CHOOSE f0 : f0 = Body(f0, n)
<1>5. after = Body(after, n)  BY <1>4
<1>6. LogInAll(m, accounts, keySvr) = after[n]  BY DEF LogInAll
<1> HIDE DEF after
<1>7. DOMAIN after = 0 .. n /\ after[0] = m  BY <1>5
<1>8. \A i \in 1 .. n : after[i] = LogIn(after[i - 1], UidOf[accounts[i]], accounts[i], keySvr)
  BY <1>5
<1> QED  BY <1>6, <1>7, <1>8

Joining(s, m, n, keySvr) ==
  /\ ManagerInv(s) /\ s.generator <= m.generator + n
  /\ OpenInv(m) => OpenInv(s)
  /\ \A p \in DOMAIN s.heap \ DOMAIN m.heap : s.heap[p].svrKey = keySvr

(* Every account of the list is on the server that sent it, or was logged  *)
(* in before.                                                              *)
LEMMA LogInAllKeeps ==
  ASSUME NEW m, ManagerInv(m), NEW keySvr \in 0 .. MaxServerKeys, NEW accounts \in Seq(Accounts)
  PROVE  Joining(LogInAll(m, accounts, keySvr), m, Len(accounts), keySvr)
<1>1. PICK n : n = Len(accounts) /\ n \in Nat  OBVIOUS
<1>2. PICK f : /\ f[0] = m
               /\ \A i \in 1 .. n :
                    f[i] = LogIn(f[i - 1], UidOf[accounts[i]], accounts[i], keySvr)
               /\ LogInAll(m, accounts, keySvr) = f[n]
  BY <1>1, LogInAllSteps
<1> DEFINE S == {i \in Nat : i <= n => Joining(f[i], m, i, keySvr)}
<1>3. 0 \in S
  <2>1. m.generator <= m.generator + 0  BY DEF ManagerInv, HeapInv
  <2>2. Joining(m, m, 0, keySvr)  BY <2>1 DEF Joining
  <2> QED  BY <1>2, <2>2
<1>4. ASSUME NEW i \in Nat, i \in S PROVE i + 1 \in S
  <2> SUFFICES ASSUME i + 1 <= n PROVE Joining(f[i + 1], m, i + 1, keySvr)
    OBVIOUS
  <2>1. PICK r : r = f[i]  OBVIOUS
  <2>2. PICK s : s = f[i + 1]  OBVIOUS
  <2>3. PICK a \in Accounts : a = accounts[i + 1]
    <3>1. i + 1 \in 1 .. n  BY <1>1
    <3> QED  BY <1>1, <3>1
  <2>4. s = LogIn(r, UidOf[a], a, keySvr)
    <3>1. i + 1 \in 1 .. n /\ (i + 1) - 1 = i  BY <1>1
    <3> QED  BY <1>2, <2>1, <2>2, <2>3, <3>1
  <2>5. Joining(r, m, i, keySvr)  BY <1>1, <1>4, <2>1
  <2>6. ManagerInv(r) /\ r.generator \in Nat /\ m.generator \in Nat
    BY <2>5 DEF Joining, ManagerInv, HeapInv
  <2>7. CASE LoggedIn(r, UidOf[a], a)
    <3>1. s = r  BY <2>4, <2>7 DEF LogIn
    <3> QED  BY <2>2, <2>5, <2>6, <3>1 DEF Joining
  <2>8. CASE ~LoggedIn(r, UidOf[a], a)
    <3>1. PICK p : p = r.generator + 1  OBVIOUS
    <3>2. /\ ManagerInv(s) /\ s.generator = p
          /\ OpenInv(r) => OpenInv(s)
          /\ DOMAIN s.heap = DOMAIN r.heap \union {p}
          /\ \A q \in DOMAIN r.heap : s.heap[q] = r.heap[q]
          /\ s.heap[p].svrKey = keySvr
      BY <2>4, <2>6, <2>8, <3>1, LogInKeeps
    <3>3. s.generator <= m.generator + (i + 1)
      BY <2>5, <2>6, <3>1, <3>2 DEF Joining
    <3>4. \A q \in DOMAIN s.heap \ DOMAIN m.heap : s.heap[q].svrKey = keySvr
      BY <2>5, <3>2 DEF Joining
    <3> QED  BY <2>2, <2>5, <3>2, <3>3, <3>4 DEF Joining
  <2> QED  BY <2>7, <2>8
<1>5. n \in S
  <2> HIDE DEF S
  <2> QED  BY <1>1, <1>3, <1>4, SetInduction
<1> QED  BY <1>1, <1>2, <1>5
-----------------------------------------------------------------------------
(* The handlers' own operators. *)
LEMMA UidFound ==
  ASSUME NEW m, ManagerInv(m), NEW account \in Accounts
  PROVE  UidOf[account] \in DOMAIN m.byUid <=> account \in DOMAIN m.byAccount
<1>1. /\ DOMAIN m.byUid = {m.heap[p].uid : p \in DOMAIN m.heap}
      /\ DOMAIN m.byAccount = {m.heap[p].account : p \in DOMAIN m.heap}
  BY DEF ManagerInv, MapsInv
<1>2. \A p \in DOMAIN m.heap :
        m.heap[p].account \in Accounts /\ m.heap[p].uid = UidOf[m.heap[p].account]
  <2>1. \A p \in DOMAIN m.heap : m.heap[p] \in Player  BY DEF ManagerInv, HeapInv
  <2> QED  BY <2>1 DEF ManagerInv, HeapInv, Player
<1> QED  BY <1>1, <1>2, OneUidPerAccount

(* The player of a uid is allocated, and is the uid's. *)
LEMMA PlayerOfUid ==
  ASSUME NEW m, ManagerInv(m), NEW uid \in DOMAIN m.byUid
  PROVE  m.byUid[uid] \in DOMAIN m.heap /\ m.heap[m.byUid[uid]].uid = uid
BY DEF ManagerInv, MapsInv

LEMMA LogOutForceKeeps ==
  ASSUME NEW m, ManagerInv(m), NEW uid
  PROVE  LET s == LogOutForce(m, uid) IN
         /\ ManagerInv(s) /\ s.generator = m.generator
         /\ OpenInv(m) => OpenInv(s)
         /\ DOMAIN s.heap \subseteq DOMAIN m.heap
         /\ uid \notin DOMAIN s.byUid
<1>1. CASE uid \in DOMAIN m.byUid
  <2>1. PICK p : p = m.byUid[uid]  OBVIOUS
  <2>2. p \in DOMAIN m.heap /\ m.heap[p].uid = uid  BY <1>1, <2>1, PlayerOfUid
  <2>3. LogOutForce(m, uid) = LogOutPlayer(m, p)  BY <1>1, <2>1 DEF LogOutForce
  <2> QED  BY <2>2, <2>3, LogOutPlayerKeeps
<1>2. CASE uid \notin DOMAIN m.byUid
  <2>1. LogOutForce(m, uid) = m  BY <1>2 DEF LogOutForce
  <2> QED  BY <1>2, <2>1
<1> QED  BY <1>1, <1>2

LEMMA LogOutKeeps ==
  ASSUME NEW m, ManagerInv(m), NEW uid, NEW keySvr
  PROVE  LET s == LogOut(m, uid, keySvr) IN
         /\ ManagerInv(s) /\ s.generator = m.generator
         /\ OpenInv(m) => OpenInv(s)
         /\ DOMAIN s.heap \subseteq DOMAIN m.heap
<1>1. CASE LogOut(m, uid, keySvr) = m  BY <1>1
<1>2. CASE uid \in DOMAIN m.byUid /\ LogOut(m, uid, keySvr) = LogOutPlayer(m, m.byUid[uid])
  <2>1. PICK p : p = m.byUid[uid]  OBVIOUS
  <2>2. p \in DOMAIN m.heap  BY <1>2, <2>1, PlayerOfUid
  <2> QED  BY <1>2, <2>1, <2>2, LogOutPlayerKeeps
<1> QED  BY <1>1, <1>2 DEF LogOut

(* With kicking on, whoever is logged in as the account is gone before the *)
(* second try, which therefore succeeds.                                   *)
LEMMA LogInOrKickKeeps ==
  ASSUME NEW m, ManagerInv(m), NEW q \in Queries
  PROVE  LET s == LogInOrKick(m, q) IN
         /\ ManagerInv(s) /\ s.generator <= m.generator + 1
         /\ OpenInv(m) => OpenInv(s)
         /\ \A p \in DOMAIN s.heap \ DOMAIN m.heap : s.heap[p].svrKey = q.keySvr
         /\ KickByDupeLogin =>
              /\ q.account \in DOMAIN s.byAccount
              /\ s.byAccount[q.account] \notin DOMAIN m.heap
              /\ s.heap[s.byAccount[q.account]].authKey = 1
<1>1. PICK s : s = LogInOrKick(m, q)  OBVIOUS
<1>2. PICK account, keySvr : account = q.account /\ keySvr = q.keySvr  OBVIOUS
<1>3. PICK uid : uid = UidOf[account]  OBVIOUS
<1>4. PICK clear : clear = IF LoggedIn(m, uid, account) /\ KickByDupeLogin
                           THEN ShutdownUser(m, uid) ELSE m
  OBVIOUS
<1>5. account \in Accounts /\ keySvr \in 0 .. MaxServerKeys
  BY <1>2 DEF Queries
<1>6. m.generator \in Nat  BY DEF ManagerInv, HeapInv
<1>7. /\ ManagerInv(clear) /\ clear.generator = m.generator
      /\ OpenInv(m) => OpenInv(clear)
      /\ DOMAIN clear.heap \subseteq DOMAIN m.heap
      /\ LoggedIn(clear, uid, account) => ~KickByDupeLogin
  <2>1. CASE LoggedIn(m, uid, account) /\ KickByDupeLogin
    <3>1. clear = LogOutForce(m, uid)  BY <1>4, <2>1 DEF ShutdownUser
    <3>2. /\ ManagerInv(clear) /\ clear.generator = m.generator
          /\ OpenInv(m) => OpenInv(clear)
          /\ DOMAIN clear.heap \subseteq DOMAIN m.heap
          /\ uid \notin DOMAIN clear.byUid
      BY <3>1, LogOutForceKeeps
    <3>3. ~LoggedIn(clear, uid, account)
      BY <1>3, <1>5, <3>2, UidFound DEF LoggedIn
    <3> QED  BY <3>2, <3>3
  <2>2. CASE ~(LoggedIn(m, uid, account) /\ KickByDupeLogin)
    <3>1. clear = m  BY <1>4, <2>2
    <3> QED  BY <2>2, <3>1
  <2> QED  BY <2>1, <2>2
<1>8. CASE LoggedIn(clear, uid, account)
  <2>1. s = clear  BY <1>1, <1>2, <1>3, <1>4, <1>8 DEF LogInOrKick
  <2> QED  BY <1>1, <1>6, <1>7, <1>8, <2>1
<1>9. CASE ~LoggedIn(clear, uid, account)
  <2>1. PICK after : after = LogIn(clear, uid, account, keySvr)  OBVIOUS
  <2>2. PICK p : p = m.generator + 1  OBVIOUS
  <2>3. /\ ManagerInv(after) /\ after.generator = p
        /\ OpenInv(clear) => OpenInv(after)
        /\ DOMAIN after.heap = DOMAIN clear.heap \union {p}
        /\ \A r \in DOMAIN clear.heap : after.heap[r] = clear.heap[r]
        /\ after.heap[p].svrKey = keySvr /\ after.heap[p].session = p
        /\ account \in DOMAIN after.byAccount /\ after.byAccount[account] = p
        /\ p \in DOMAIN after.bySession
    BY <1>3, <1>5, <1>7, <1>9, <2>1, <2>2, LogInKeeps
  <2>4. s = SetPlayer(after, p, "authKey", 1)
    <3>1. s = [after EXCEPT !.heap[after.generator].authKey = 1]
      BY <1>1, <1>2, <1>3, <1>4, <1>9, <2>1 DEF LogInOrKick
    <3> QED  BY <2>3, <3>1 DEF SetPlayer
  <2>5. /\ ManagerInv(s) /\ s.generator = p
        /\ OpenInv(after) => OpenInv(s)
        /\ DOMAIN s.heap = DOMAIN after.heap /\ s.heap[p].authKey = 1
        /\ s.byAccount = after.byAccount
        /\ s.heap[p].svrKey = keySvr
    BY <2>3, <2>4, SetPlayerKeeps
  <2>6. p \notin DOMAIN m.heap  BY <2>2, FreshKey DEF ManagerInv
  <2>7. \A r \in DOMAIN s.heap \ DOMAIN m.heap : r = p
    BY <1>7, <2>3, <2>5
  <2> QED  BY <1>1, <1>2, <1>6, <1>7, <2>2, <2>3, <2>5, <2>6, <2>7
<1> QED  BY <1>8, <1>9
-----------------------------------------------------------------------------
(* The manager's part of the invariant, by action. *)
Kept(s, m) ==
  /\ ManagerInv(s) /\ s.generator <= MaxSessions
  /\ OpenInv(m) => OpenInv(s)

LEMMA MoveKeeps ==
  ASSUME NEW m, ManagerInv(m), m.generator + 1 <= MaxSessions, NEW uid \in DOMAIN m.byUid
  PROVE  LET p == m.byUid[uid]
             s == SetPlayer(ReserveMoveSession(m, p), p, "authKey", 1) IN
         Kept(s, m) /\ DOMAIN s.heap = DOMAIN m.heap
<1>1. PICK p : p = m.byUid[uid]  OBVIOUS
<1>2. PICK r : r = ReserveMoveSession(m, p)  OBVIOUS
<1>3. PICK s : s = SetPlayer(r, p, "authKey", 1)  OBVIOUS
<1>4. p \in DOMAIN m.heap  BY <1>1, PlayerOfUid
<1>5. /\ ManagerInv(r) /\ r.generator = m.generator + 1
      /\ DOMAIN r.heap = DOMAIN m.heap /\ r.heap[p].session \in DOMAIN r.bySession
      /\ OpenInv(m) => OpenInv(r)
  BY <1>2, <1>4, ReserveMoveKeeps
<1>6. /\ ManagerInv(s) /\ s.generator = r.generator
      /\ OpenInv(r) => OpenInv(s)
      /\ DOMAIN s.heap = DOMAIN r.heap
  BY <1>3, <1>4, <1>5, SetPlayerKeeps
<1> QED  BY <1>1, <1>2, <1>3, <1>5, <1>6 DEF Kept

LEMMA GameLoginKeeps ==
  ASSUME NEW m, ManagerInv(m), m.generator <= MaxSessions, NEW uid \in DOMAIN m.byUid,
         NEW keySvr \in 0 .. MaxServerKeys
  PROVE  LET p == m.byUid[uid]
             checkedIn == PlayerCheckIn(SetPlayer(m, p, "authKey", 0), p) IN
         /\ Kept(checkedIn, m) /\ DOMAIN checkedIn.heap = DOMAIN m.heap
         /\ Kept(SetPlayer(checkedIn, p, "svrKey", keySvr), m)
         /\ DOMAIN SetPlayer(checkedIn, p, "svrKey", keySvr).heap = DOMAIN m.heap
<1>1. PICK p : p = m.byUid[uid]  OBVIOUS
<1>2. PICK r : r = SetPlayer(m, p, "authKey", 0)  OBVIOUS
<1>3. PICK c : c = PlayerCheckIn(r, p)  OBVIOUS
<1>4. PICK s : s = SetPlayer(c, p, "svrKey", keySvr)  OBVIOUS
<1>5. p \in DOMAIN m.heap  BY <1>1, PlayerOfUid
<1>6. /\ ManagerInv(r) /\ r.generator = m.generator
      /\ OpenInv(m) => OpenInv(r)
      /\ DOMAIN r.heap = DOMAIN m.heap /\ r.heap[p].authKey = 0
  BY <1>2, <1>5, SetPlayerKeeps
<1>7. /\ ManagerInv(c) /\ c.generator = r.generator /\ c.heap = r.heap
      /\ OpenInv(r) => OpenInv(c)
  BY <1>3, <1>5, <1>6, CheckInKeeps
<1>8. /\ ManagerInv(s) /\ s.generator = c.generator
      /\ OpenInv(c) => OpenInv(s)
      /\ DOMAIN s.heap = DOMAIN c.heap
  BY <1>4, <1>5, <1>6, <1>7, SetPlayerKeeps
<1> QED  BY <1>1, <1>2, <1>3, <1>4, <1>6, <1>7, <1>8 DEF Kept
-----------------------------------------------------------------------------
(* What a step may do to the player manager: keep its invariant, and log   *)
(* in players on a server that is live or has not registered.              *)
OnLiveServer(s) ==
  \A p \in DOMAIN s.heap \ DOMAIN pm.heap :
    s.heap[p].svrKey = NoKey \/ IsLiveKey(s.heap[p].svrKey)

LEMMA DBQuery_ResKeeps ==
  ASSUME IInv, NEW q \in pending, DBQuery_Res(q)
  PROVE  Kept(pm', pm) /\ OnLiveServer(pm')
<1>1. q \in Queries /\ ManagerInv(pm) /\ pm.generator <= MaxSessions
  BY DEF IInv, ServersInv
<1>2. pm.generator \in Nat /\ pm.generator + 1 <= MaxSessions
  BY <1>1 DEF DBQuery_Res, KeysLeft, ManagerInv, HeapInv
<1>3. CASE pm' = pm  BY <1>1, <1>3 DEF Kept, OnLiveServer
<1>4. CASE pm' = LogInOrKick(pm, q) /\ IsLiveKey(q.keySvr)
  <2>1. PICK s : s = LogInOrKick(pm, q)  OBVIOUS
  <2>2. /\ ManagerInv(s) /\ s.generator <= pm.generator + 1
        /\ OpenInv(pm) => OpenInv(s)
        /\ \A p \in DOMAIN s.heap \ DOMAIN pm.heap : s.heap[p].svrKey = q.keySvr
    BY <1>1, <2>1, LogInOrKickKeeps
  <2>3. s.generator \in Nat /\ MaxSessions \in Nat
    BY <2>2, BoundsAssumption DEF ManagerInv, HeapInv
  <2>4. Kept(s, pm)  BY <1>2, <2>2, <2>3 DEF Kept
  <2>5. OnLiveServer(s)  BY <1>4, <2>2 DEF OnLiveServer
  <2> QED  BY <1>4, <2>1, <2>4, <2>5
<1> QED  BY <1>3, <1>4 DEF DBQuery_Res

LEMMA All_Player_InfoKeeps ==
  ASSUME IInv, NEW c \in Communities, NEW accounts \in PlayerLists, All_Player_Info(c, accounts)
  PROVE  Kept(pm', pm) /\ OnLiveServer(pm')
<1>1. ManagerInv(pm) /\ pm.generator \in Nat /\ c \in Servers
  BY DEF IInv, ManagerInv, HeapInv, Servers
<1>2. key[c] \in 0 .. MaxServerKeys /\ (key[c] = NoKey \/ IsLiveKey(key[c]))
  BY <1>1 DEF IInv, ServersInv, IsLiveKey
<1>3. PICK n \in 1 .. MaxListed : accounts \in [1 .. n -> Accounts]
  BY DEF PlayerLists
<1>4. accounts \in Seq(Accounts) /\ Len(accounts) \in Nat
  BY <1>3, BoundsAssumption
<1>5. PICK s : s = LogInAll(pm, accounts, key[c])  OBVIOUS
<1>6. pm' = s /\ pm.generator + Len(accounts) <= MaxSessions
  BY <1>5 DEF All_Player_Info, KeysLeft
<1>7. Joining(s, pm, Len(accounts), key[c])  BY <1>1, <1>2, <1>4, <1>5, LogInAllKeeps
<1>8. s.generator \in Nat /\ MaxSessions \in Nat
  BY <1>7, BoundsAssumption DEF Joining, ManagerInv, HeapInv
<1>9. Kept(s, pm)  BY <1>1, <1>4, <1>6, <1>7, <1>8 DEF Joining, Kept
<1>10. OnLiveServer(s)  BY <1>2, <1>7 DEF Joining, OnLiveServer
<1> QED  BY <1>6, <1>9, <1>10

LEMMA CommunityKeeps ==
  ASSUME IInv, NEW c \in Communities, NEW uid,
         \/ \E authKey \in 0 .. 1 : Game_Login_Req(c, uid, authKey)
         \/ Community_Game_Login(c, uid)
         \/ Game_LogOut(c, uid)
         \/ \E d \in Communities : Game_Move_Community_Req(c, uid, World[d])
  PROVE  Kept(pm', pm) /\ DOMAIN pm'.heap \subseteq DOMAIN pm.heap
<1>1. ManagerInv(pm) /\ pm.generator \in Nat /\ pm.generator <= MaxSessions
  BY DEF IInv, ManagerInv, HeapInv
<1>2. key[c] \in 0 .. MaxServerKeys  BY DEF IInv, ServersInv, Servers
<1>3. ASSUME NEW authKey \in 0 .. 1, Game_Login_Req(c, uid, authKey)
      PROVE  Kept(pm', pm) /\ DOMAIN pm'.heap \subseteq DOMAIN pm.heap
  <2>1. PICK p : p = pm.byUid[uid]  OBVIOUS
  <2>2. PICK s : s = PlayerCheckIn(SetPlayer(pm, p, "authKey", 0), p)  OBVIOUS
  <2>3. uid \in DOMAIN pm.byUid
        /\ pm' = IF key[c] = NoKey THEN s ELSE SetPlayer(s, p, "svrKey", key[c])
    BY <1>3, <2>1, <2>2 DEF Game_Login_Req
  <2>4. PICK r : r = SetPlayer(s, p, "svrKey", key[c])  OBVIOUS
  <2>5. /\ Kept(s, pm) /\ DOMAIN s.heap = DOMAIN pm.heap
        /\ Kept(r, pm) /\ DOMAIN r.heap = DOMAIN pm.heap
    BY <1>1, <1>2, <2>1, <2>2, <2>3, <2>4, GameLoginKeeps
  <2>6. pm' = s \/ pm' = r  BY <2>3, <2>4
  <2> QED  BY <2>5, <2>6
<1>4. CASE Community_Game_Login(c, uid)
  <2>1. PICK p : p = pm.byUid[uid]  OBVIOUS
  <2>2. PICK s : s = SetPlayer(pm, p, "svrKey", key[c])  OBVIOUS
  <2>3. uid \in DOMAIN pm.byUid /\ pm' = s
    BY <1>4, <2>1, <2>2 DEF Community_Game_Login
  <2>4. p \in DOMAIN pm.heap  BY <1>1, <2>1, <2>3, PlayerOfUid
  <2>5. /\ ManagerInv(s) /\ s.generator = pm.generator
        /\ OpenInv(pm) => OpenInv(s)
        /\ DOMAIN s.heap = DOMAIN pm.heap
    BY <1>1, <1>2, <2>2, <2>4, SetPlayerKeeps
  <2>6. Kept(s, pm)  BY <1>1, <2>5 DEF Kept
  <2> QED  BY <2>3, <2>5, <2>6
<1>5. CASE Game_LogOut(c, uid)
  <2>1. PICK s : s = LogOut(pm, uid, key[c])  OBVIOUS
  <2>2. /\ ManagerInv(s) /\ s.generator = pm.generator
        /\ OpenInv(pm) => OpenInv(s)
        /\ DOMAIN s.heap \subseteq DOMAIN pm.heap
    BY <1>1, <2>1, LogOutKeeps
  <2>3. Kept(s, pm)  BY <1>1, <2>2 DEF Kept
  <2> QED  BY <1>5, <2>1, <2>2, <2>3 DEF Game_LogOut
<1>6. ASSUME NEW d \in Communities, Game_Move_Community_Req(c, uid, World[d])
      PROVE  Kept(pm', pm) /\ DOMAIN pm'.heap \subseteq DOMAIN pm.heap
  <2>1. PICK p : p = pm.byUid[uid]  OBVIOUS
  <2>2. PICK s : s = SetPlayer(ReserveMoveSession(pm, p), p, "authKey", 1)  OBVIOUS
  <2>3. uid \in DOMAIN pm.byUid /\ pm' = s /\ pm.generator + 1 <= MaxSessions
    BY <1>6, <2>1, <2>2 DEF Game_Move_Community_Req, KeysLeft
  <2>4. Kept(s, pm) /\ DOMAIN s.heap = DOMAIN pm.heap
    BY <1>1, <2>1, <2>2, <2>3, MoveKeeps
  <2> QED  BY <2>3, <2>4
<1> QED  BY <1>3, <1>4, <1>5, <1>6

LEMMA OthersKeep ==
  ASSUME IInvOpen, Tick \/ TimePasses \/ \E s \in Servers, uid \in Uids : ShutdownUsr(s, uid)
  PROVE  Kept(pm', pm) /\ DOMAIN pm'.heap \subseteq DOMAIN pm.heap
<1>1. ManagerInv(pm) /\ OpenInv(pm) /\ pm.generator <= MaxSessions  BY DEF IInv, IInvOpen
<1>2. PICK t : t = TickProcess(pm)  OBVIOUS
<1>3. Kept(t, pm) /\ DOMAIN t.heap \subseteq DOMAIN pm.heap
  BY <1>1, <1>2, TickKeeps DEF Kept
<1>4. PICK e : e = Elapse(pm)  OBVIOUS
<1>5. Kept(e, pm) /\ DOMAIN e.heap \subseteq DOMAIN pm.heap
  BY <1>1, <1>4, ElapseKeeps DEF Kept
<1>6. ASSUME NEW s \in Servers, NEW uid \in Uids, ShutdownUsr(s, uid)
      PROVE  Kept(pm', pm) /\ DOMAIN pm'.heap \subseteq DOMAIN pm.heap
  <2>1. PICK u : u = LogOutForce(pm, uid)  OBVIOUS
  <2>2. Kept(u, pm) /\ DOMAIN u.heap \subseteq DOMAIN pm.heap
    BY <1>1, <2>1, LogOutForceKeeps DEF Kept
  <2> QED  BY <1>6, <2>1, <2>2 DEF ShutdownUsr, ShutdownUser
<1>7. CASE Tick  BY <1>2, <1>3, <1>7 DEF Tick
<1>8. CASE TimePasses  BY <1>4, <1>5, <1>8 DEF TimePasses
<1> QED  BY <1>6, <1>7, <1>8

(* Every step, by action. *)
LEMMA ManagerKept ==
  ASSUME IInvOpen, [Next]_vars
  PROVE  Kept(pm', pm) /\ OnLiveServer(pm')
<1>0. IInv  BY DEF IInvOpen
<1>1. CASE pm' = pm
  BY <1>0, <1>1 DEF IInv, Kept, OnLiveServer
<1>2. CASE DOMAIN pm'.heap \subseteq DOMAIN pm.heap /\ Kept(pm', pm)
  BY <1>2 DEF OnLiveServer
<1>3. ASSUME NEW s \in Servers, Connected(s) \/ RegisterServer(s) \/ Disconnected(s)
      PROVE  pm' = pm
  BY <1>3 DEF Connected, RegisterServer, Disconnected
<1>4. ASSUME NEW s \in Lobbies, NEW a \in Accounts, NEW r \in Results, Login_Req(s, a, r)
      PROVE  pm' = pm
  BY <1>4 DEF Login_Req
<1>5. CASE UNCHANGED vars  BY <1>1, <1>5 DEF vars
<1>6. ASSUME NEW q \in pending, DBQuery_Res(q) PROVE Kept(pm', pm) /\ OnLiveServer(pm')
  BY <1>0, <1>6, DBQuery_ResKeeps
<1>7. ASSUME NEW c \in Communities, NEW l \in PlayerLists, All_Player_Info(c, l)
      PROVE  Kept(pm', pm) /\ OnLiveServer(pm')
  BY <1>0, <1>7, All_Player_InfoKeeps
<1>8. ASSUME NEW c \in Communities, NEW uid \in Uids,
             \/ \E authKey \in 0 .. 1 : Game_Login_Req(c, uid, authKey)
             \/ Community_Game_Login(c, uid)
             \/ Game_LogOut(c, uid)
             \/ \E d \in Communities : Game_Move_Community_Req(c, uid, World[d])
      PROVE  Kept(pm', pm) /\ OnLiveServer(pm')
  BY <1>0, <1>2, <1>8, CommunityKeeps
<1>9. CASE Tick \/ TimePasses \/ \E s \in Servers, uid \in Uids : ShutdownUsr(s, uid)
  BY <1>2, <1>9, OthersKeep
<1> QED  BY <1>1, <1>3, <1>4, <1>5, <1>6, <1>7, <1>8, <1>9 DEF Next

LEMMA ServersKept ==
  ASSUME ServersInv, [Next]_vars
  PROVE  ServersInv'
<1> USE DEF ServersInv
<1>1. MaxServerKeys \in Nat  BY BoundsAssumption
<1>2. CASE UNCHANGED <<sock, key, lastKey, pending>>  BY <1>2
<1>3. ASSUME NEW s \in Servers, Connected(s) PROVE ServersInv'
  BY <1>3 DEF Connected
<1>4. ASSUME NEW s \in Servers, RegisterServer(s) PROVE ServersInv'
  <2>1. lastKey + 1 \in 0 .. MaxServerKeys  BY <1>1, <1>4 DEF RegisterServer
  <2> QED  BY <1>4, <2>1 DEF RegisterServer
<1>5. ASSUME NEW s \in Servers, Disconnected(s) PROVE ServersInv'
  BY <1>1, <1>5 DEF Disconnected, NoKey
<1>6. ASSUME NEW s \in Lobbies, NEW a \in Accounts, NEW r \in Results, Login_Req(s, a, r)
      PROVE  ServersInv'
  <2>1. [account |-> a, keySvr |-> key[s], result |-> r] \in Queries
    BY DEF Servers, Queries
  <2> QED  BY <1>6, <2>1 DEF Login_Req
<1>7. ASSUME NEW q \in pending, DBQuery_Res(q) PROVE ServersInv'
  BY <1>7 DEF DBQuery_Res
<1>8. ASSUME NEW c \in Communities, NEW uid \in Uids,
             \/ \E authKey \in 0 .. 1 : Game_Login_Req(c, uid, authKey)
             \/ Community_Game_Login(c, uid)
             \/ Game_LogOut(c, uid)
             \/ \E d \in Communities : Game_Move_Community_Req(c, uid, World[d])
      PROVE  UNCHANGED <<sock, key, lastKey, pending>>
  BY <1>8 DEF Game_Login_Req, Community_Game_Login, Game_LogOut, Game_Move_Community_Req
<1>9. ASSUME NEW c \in Communities, NEW l \in PlayerLists, All_Player_Info(c, l)
      PROVE  UNCHANGED <<sock, key, lastKey, pending>>
  BY <1>9 DEF All_Player_Info
<1>10. CASE Tick \/ TimePasses \/ \E s \in Servers, uid \in Uids : ShutdownUsr(s, uid)
  BY <1>2, <1>10 DEF Tick, TimePasses, ShutdownUsr
<1>11. CASE UNCHANGED vars  BY <1>2, <1>11 DEF vars
<1> QED  BY <1>2, <1>3, <1>4, <1>5, <1>6, <1>7, <1>8, <1>9, <1>10, <1>11 DEF Next

LEMMA InitInv == Init => IInvOpen
<1> SUFFICES ASSUME Init PROVE IInvOpen
  OBVIOUS
<1>1. PICK m : m = NewManager  OBVIOUS
<1>2. /\ IsManager(m) /\ m.heap = Empty /\ m.byUid = Empty /\ m.byAccount = Empty
      /\ m.bySession = Empty /\ m.ids = {} /\ m.count = 0 /\ m.wait = << >>
      /\ m.generator = 0 /\ m.overlapped = {} /\ m.wild = {}
  BY <1>1 DEF NewManager, IsManager
<1>3. Empty = [k \in {} |-> 0] /\ DOMAIN Empty = {}  BY DEF Empty
<1>4. HeapInv(m) /\ MovingInv(m) /\ OpenInv(m)
  BY <1>2, <1>3 DEF HeapInv, MovingInv, OpenInv
<1>5. MapsInv(m)
  BY <1>2, <1>3, FS_EmptySet DEF MapsInv
<1>6. WaitInv(m)
  BY <1>2 DEF WaitInv
<1>7. ManagerInv(m)  BY <1>2, <1>4, <1>5, <1>6 DEF ManagerInv
<1>8. ServersInv  BY BoundsAssumption DEF Init, ServersInv, NoKey
<1> QED  BY <1>1, <1>2, <1>4, <1>7, <1>8, BoundsAssumption DEF Init, IInv, IInvOpen

LEMMA NextInv == IInvOpen /\ [Next]_vars => IInvOpen'
<1> SUFFICES ASSUME IInvOpen, [Next]_vars PROVE IInvOpen'
  OBVIOUS
<1>1. IInv  BY DEF IInvOpen
<1>2. Kept(pm', pm)  BY ManagerKept
<1>3. ServersInv'  BY <1>1, ServersKept DEF IInv
<1>4. PICK s : s = pm'  OBVIOUS
<1>5. ManagerInv(s) /\ s.generator <= MaxSessions /\ OpenInv(s)
  BY <1>2, <1>4 DEF Kept, IInvOpen
<1> QED  BY <1>3, <1>4, <1>5 DEF IInv, IInvOpen

THEOREM InvariantHolds == Spec => []IInvOpen
BY InitInv, NextInv, PTL DEF Spec
-----------------------------------------------------------------------------
(* What the runs check follows from the invariant. *)
LEMMA WaitDomain ==
  ASSUME ManagerInv(pm)
  PROVE  /\ DOMAIN pm.wait = 1 .. Len(pm.wait)
         /\ \A k : k \in WaitKeys(pm) <=> InWait(pm.wait, k)
<1>1. pm.wait \in Seq(Session)  BY DEF ManagerInv, WaitInv
<1>2. DOMAIN pm.wait = 1 .. Len(pm.wait)  BY <1>1
<1> QED  BY <1>2 DEF WaitKeys, InWait

LEMMA InvTypeOK == IInv => TypeOK
<1> SUFFICES ASSUME IInv PROVE TypeOK
  OBVIOUS
<1>1. /\ ManagerInv(pm) /\ pm.generator \in Nat /\ pm.generator <= MaxSessions
      /\ MaxSessions \in Nat
  BY BoundsAssumption DEF IInv, ManagerInv, HeapInv
<1>2. \A i \in 1 .. pm.generator : i \in 1 .. MaxSessions  BY <1>1
<1>3. DOMAIN pm.heap \subseteq 1 .. MaxSessions
  BY <1>1, <1>2 DEF ManagerInv, HeapInv
<1>4. ASSUME NEW p \in DOMAIN pm.heap
      PROVE  pm.heap[p] \in [uid : Uids, account : Accounts, svrKey : 0 .. MaxServerKeys,
                             session : 1 .. MaxSessions, authKey : 0 .. 1]
  <2>1. pm.heap[p] \in Player /\ pm.heap[p].session \in 1 .. MaxSessions
    BY <1>1, <1>2 DEF ManagerInv, HeapInv
  <2> QED  BY <2>1 DEF Player
<1>5. WaitKeys(pm) \subseteq 1 .. MaxSessions
  <2>1. ASSUME NEW i \in 1 .. Len(pm.wait) PROVE pm.wait[i].key \in 1 .. MaxSessions
    <3>1. pm.wait[i].key \in Nat \ {0}
      BY <1>1, SessionType DEF ManagerInv, WaitInv
    <3>2. pm.wait[i].key <= pm.generator  BY <1>1 DEF ManagerInv, WaitInv
    <3> QED  BY <1>1, <3>1, <3>2
  <2> QED  BY <1>1, <2>1, WaitDomain DEF WaitKeys
<1> QED  BY <1>1, <1>3, <1>4, <1>5 DEF TypeOK, IInv, ServersInv

(* Whatever is reported, in whatever order: the three maps, the count and  *)
(* the id container name the players that are allocated.                   *)
THEOREM MapsAlwaysAgree == Spec => []MapsAgree
<1>1. IInvOpen => MapsAgree
  BY InvTypeOK DEF IInvOpen, IInv, ManagerInv, MapsInv, MapsAgree
<1> QED  BY <1>1, InvariantHolds, PTL

(* The wait list is in the order of expiration and no moving player is     *)
(* without a session, even when a player moves twice.                      *)
THEOREM ExpireInTurn == Spec => []SessionsExpireInTurn
<1>1. IInvOpen => SessionsExpireInTurn
  <2> SUFFICES ASSUME ManagerInv(pm) PROVE SessionsExpireInTurn
    BY DEF IInvOpen, IInv
  <2>1. WaitListInOrder
    BY WaitDomain DEF ManagerInv, WaitInv, WaitListInOrder
  <2>2. MovingPlayerCanExpire
    BY DEF ManagerInv, MovingInv, MovingPlayerCanExpire
  <2> QED  BY <2>1, <2>2 DEF SessionsExpireInTurn
<1> QED  BY <1>1, InvariantHolds, PTL

(* An open session of an allocated player will expire; it is the current   *)
(* one of an allocated player unless that was given another beside it, and *)
(* only such a player may be logged out once more when it is deleted.      *)
THEOREM SessionsAlwaysAgree == Spec => []SessionsAgree
<1>1. IInvOpen => SessionsAgree
  <2> SUFFICES ASSUME ManagerInv(pm), OpenInv(pm) PROVE SessionsAgree
    BY DEF IInvOpen, IInv
  <2>1. ASSUME NEW k \in DOMAIN pm.bySession, NEW p, p = pm.bySession[k]
        PROVE  /\ p \in DOMAIN pm.heap => k \in WaitKeys(pm)
               /\ p \notin pm.overlapped => p \in DOMAIN pm.heap /\ pm.heap[p].session = k
    BY <2>1, WaitDomain DEF OpenInv, SessionInv
  <2> QED  BY <2>1 DEF OpenInv, SessionsAgree
<1> QED  BY <1>1, InvariantHolds, PTL

(* Only the database's answer takes a query off the list. *)
LEMMA AnsweredByDatabase ==
  ASSUME Next, NEW q \in pending \ pending'
  PROVE  DBQuery_Res(q)
<1>1. ASSUME NEW r \in pending, DBQuery_Res(r) PROVE q = r
  BY <1>1 DEF DBQuery_Res
<1> QED
  BY <1>1 DEF Next, Connected, RegisterServer, Disconnected, Login_Req, Game_Login_Req,
              Community_Game_Login, Game_LogOut, Game_Move_Community_Req, All_Player_Info,
              ShutdownUsr, Tick, TimePasses

(* A tick logs out exactly the players with an open session that is due;   *)
(* whose sessions never overlapped, is due by its current one.             *)
THEOREM TickExact == Spec => TickExpiresExactlyTheDue
<1> DEFINE Step ==
             Tick =>
               /\ DOMAIN pm.heap \ DOMAIN pm'.heap = DOMAIN pm.heap \intersect DuePlayers(pm)
               /\ \A p \in DOMAIN pm.heap \ pm.overlapped :
                    p \in DuePlayers(pm) <=>
                      pm.heap[p].session \in DueKeys(pm) \intersect DOMAIN pm.bySession
<1>1. IInvOpen /\ [Next]_vars => [Step]_vars
  <2> SUFFICES ASSUME ManagerInv(pm), OpenInv(pm), Tick
               PROVE  /\ DOMAIN pm.heap \ DOMAIN pm'.heap = DOMAIN pm.heap \intersect DuePlayers(pm)
                      /\ \A p \in DOMAIN pm.heap \ pm.overlapped :
                           p \in DuePlayers(pm) <=>
                             pm.heap[p].session \in DueKeys(pm) \intersect DOMAIN pm.bySession
    BY DEF IInvOpen, IInv
  <2>1. PICK s : s = TickProcess(pm)  OBVIOUS
  <2>2. DOMAIN pm.heap \ DOMAIN s.heap = DOMAIN pm.heap \intersect DuePlayers(pm)
    BY <2>1, TickKeeps
  <2>3. ASSUME NEW p \in DOMAIN pm.heap \ pm.overlapped
        PROVE  p \in DuePlayers(pm) <=>
                 pm.heap[p].session \in DueKeys(pm) \intersect DOMAIN pm.bySession
    <3>1. ASSUME NEW k \in DOMAIN pm.bySession, pm.bySession[k] = p
          PROVE  pm.heap[p].session = k
      BY <2>3, <3>1 DEF OpenInv, SessionInv
    <3>2. pm.heap[p].session \in DOMAIN pm.bySession => pm.bySession[pm.heap[p].session] = p
      BY DEF OpenInv
    <3> QED  BY <3>1, <3>2 DEF DuePlayers
  <2> QED  BY <2>1, <2>2, <2>3 DEF Tick
<1> QED  BY <1>1, InvariantHolds, PTL DEF Spec, TickExpiresExactlyTheDue

(* With kicking on, a login the database accepted for a live lobby ends    *)
(* with the account logged in under a new session.                         *)
THEOREM AcceptedLogin == Spec => AcceptedLoginSucceeds
<1> DEFINE Succeeds(q) ==
             /\ q.account \in DOMAIN pm'.byAccount
             /\ pm'.byAccount[q.account] \notin DOMAIN pm.heap
             /\ pm'.heap[pm'.byAccount[q.account]].authKey = 1
           Step == KickByDupeLogin =>
                     \A q \in pending \ pending' :
                       q.result # "fail" /\ IsLiveKey(q.keySvr) => Succeeds(q)
<1>1. IInvOpen /\ [Next]_vars => [Step]_vars
  <2> SUFFICES ASSUME IInvOpen, Next, KickByDupeLogin, NEW q \in pending \ pending',
                      q.result # "fail", IsLiveKey(q.keySvr)
               PROVE  Succeeds(q)
    BY DEF vars
  <2>1. ManagerInv(pm) /\ q \in Queries  BY DEF IInvOpen, IInv, ServersInv
  <2>2. DBQuery_Res(q)  BY AnsweredByDatabase
  <2>3. PICK s : s = LogInOrKick(pm, q)  OBVIOUS
  <2>4. pm' = s  BY <2>2, <2>3 DEF DBQuery_Res
  <2>5. /\ q.account \in DOMAIN s.byAccount
        /\ s.byAccount[q.account] \notin DOMAIN pm.heap
        /\ s.heap[s.byAccount[q.account]].authKey = 1
    BY <2>1, <2>3, LogInOrKickKeeps
  <2> QED  BY <2>4, <2>5
<1>2. Spec => [][Step]_vars  BY <1>1, InvariantHolds, PTL DEF Spec
<1> QED  BY <1>2 DEF AcceptedLoginSucceeds

(* A player is only ever added on a server that is live, or on one that    *)
(* has not registered.                                                     *)
THEOREM NewPlayersOnLive == Spec => NewPlayersAreOnLiveServers
<1> DEFINE Step == \A p \in DOMAIN pm'.heap \ DOMAIN pm.heap :
                     pm'.heap[p].svrKey = NoKey \/ IsLiveKey(pm'.heap[p].svrKey)
<1>1. IInvOpen /\ [Next]_vars => [Step]_vars
  BY ManagerKept DEF OnLiveServer
<1>2. Spec => [][Step]_vars  BY <1>1, InvariantHolds, PTL DEF Spec
<1> QED  BY <1>2 DEF NewPlayersAreOnLiveServers
=============================================================================
