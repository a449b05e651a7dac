--------------------------- MODULE SharedProofs ----------------------------
(***************************************************************************)
(* Proofs about the programs of MCShared, for any users of the counts,     *)
(* threads, objects, sessions, lengths of messages and sizes of rooms.  Each *)
(* section is about one of them: what it keeps is an invariant of its own  *)
(* variables, which the steps of the others leave alone.                   *)
(*                                                                         *)
(* RefCount: that the object is freed once rests on the count, the exchange *)
(* that stores 0 was made by the only holder; which needs that a user never *)
(* has a copy of 0 at hand when it tries its exchange.                     *)
(* LockingRefCount: an operation writes what it computed from an earlier   *)
(* read; the count stays exact because the inner lock admits one thread and *)
(* what that thread has read is still current, and a closer is alone because *)
(* the count it found to be 0 cannot grow while the lock is its own.       *)
(* Singleton: one thread is in the lock, and only there an object comes.   *)
(* AsioChat: what was written and what waits are consecutive messages.     *)
(* AuthSock: what is on the wire and what is queued are what was accepted, *)
(* by the laws of FlattenSeq, which are proved first.                      *)
(* AuthProvider: a communicator in the not-connected state has no socket.  *)
(***************************************************************************)
EXTENDS MCShared, FiniteSetTheorems, SequenceTheorems, WellFoundedInduction, TLAPS

-----------------------------------------------------------------------------
(* RefCount: its steps, whatever the others do.                            *)
LEMMA RefSteps == [Next]_vars => [Ref!Next]_refVars
<1> SUFFICES ASSUME [Next]_vars PROVE Ref!Next \/ UNCHANGED refVars
  OBVIOUS
<1>1. CASE RefStep
  BY <1>1 DEF RefStep
<1> QED
  BY <1>1 DEF Next, vars, Only, RefStep, LiteStep, SingleStep,
              ChatStep, EchoStep, SockStep, ProviderStep

(* The size of a set is the same notion in RefCount's FiniteSets.           *)
LEMMA RefCardinality == \A S : Ref!Cardinality(S) = Cardinality(S)
BY DEF Ref!Cardinality, Cardinality

(* A copy that is about to be exchanged was found positive.                *)
CopiesArePositive ==
  \A u \in Users : using[u] \in {"addTry", "decTry"} => prevCopy[u] > 0

RefInv == Ref!TypeOK /\ Ref!CountIsReferences /\ CopiesArePositive /\ Ref!FreedOnce
-----------------------------------------------------------------------------
(* The set of the holders is finite, so its size is a number.              *)
LEMMA RefHoldersAreFinite == IsFiniteSet(Ref!Holders) /\ Cardinality(Ref!Holders) \in Nat
<1>1. Ref!Holders \subseteq Users
  BY DEF Ref!Holders
<1> QED
  BY <1>1, UsersAssumption, FS_Subset, FS_CardinalityType

(* A count of 0 means that nobody has a reference.                         *)
LEMMA ZeroMeansUnreferenced ==
  ASSUME RefInv, refcount = 0
  PROVE  Ref!Holders = {}
BY RefHoldersAreFinite, RefCardinality, FS_EmptySet DEF RefInv, Ref!CountIsReferences

(* A count of 1 means that its one holder is alone.                        *)
LEMMA OneMeansAlone ==
  ASSUME RefInv, refcount = 1, NEW u \in Ref!Holders
  PROVE  Ref!Holders = {u}
<1>1. /\ Cardinality(Ref!Holders \ {u}) = Cardinality(Ref!Holders) - 1
      /\ IsFiniteSet(Ref!Holders \ {u})
  BY RefHoldersAreFinite, FS_RemoveElement
<1>2. Cardinality(Ref!Holders) = 1
  BY RefCardinality DEF RefInv, Ref!CountIsReferences
<1> QED
  BY <1>1, <1>2, FS_EmptySet
-----------------------------------------------------------------------------
LEMMA RefInit == Ref!Init => RefInv
<1> SUFFICES ASSUME Ref!Init PROVE RefInv
  OBVIOUS
<1>1. Ref!Holders = {Creator} /\ Ref!Freers = {}
  BY UsersAssumption DEF Ref!Init, Ref!Holders, Ref!Freers
<1>2. Ref!CountIsReferences
  BY <1>1, RefCardinality, FS_Singleton DEF Ref!Init, Ref!CountIsReferences
<1>3. Ref!TypeOK /\ CopiesArePositive /\ Ref!FreedOnce
  BY <1>1 DEF Ref!Init, Ref!TypeOK, Ref!PC, CopiesArePositive, Ref!FreedOnce
<1> QED
  BY <1>2, <1>3 DEF RefInv

(* A step that leaves the count, the holders and the freers alone.         *)
LEMMA RefQuietStep ==
  ASSUME RefInv, UNCHANGED refcount, Ref!TypeOK', CopiesArePositive',
         Ref!Holders' = Ref!Holders, Ref!Freers' = Ref!Freers
  PROVE  RefInv'
BY DEF RefInv, Ref!CountIsReferences, Ref!FreedOnce

LEMMA RefAddExchange ==
  ASSUME RefInv, NEW u \in Users, Ref!AddExchange(u)
  PROVE  RefInv'
<1> USE DEF RefInv, Ref!TypeOK
<1>1. Ref!TypeOK' /\ CopiesArePositive'
  BY DEF Ref!AddExchange, Ref!Goto, Ref!Forget, Ref!PC, CopiesArePositive
<1>2. CASE refcount # prevCopy[u]
  <2>1. Ref!Holders' = Ref!Holders /\ Ref!Freers' = Ref!Freers /\ UNCHANGED refcount
    BY <1>2 DEF Ref!AddExchange, Ref!Goto, Ref!Holders, Ref!Freers
  <2> QED
    BY <1>1, <2>1, RefQuietStep
<1>3. CASE refcount = prevCopy[u]
  <2>1. /\ Ref!Holders' = Ref!Holders \cup {u} /\ u \notin Ref!Holders
        /\ Ref!Freers' = Ref!Freers /\ refcount' = refcount + 1
    BY <1>3 DEF Ref!AddExchange, Ref!Goto, Ref!Holders, Ref!Freers
  <2>2. Ref!CountIsReferences'
    BY <2>1, RefHoldersAreFinite, RefCardinality, FS_AddElement DEF Ref!CountIsReferences
  <2>a. refcount > 0
    BY <1>3 DEF CopiesArePositive, Ref!AddExchange, Ref!Goto
  <2>3. Ref!Holders # {}
    BY <2>a, RefCardinality, FS_EmptySet DEF Ref!CountIsReferences
  <2>4. Ref!FreedOnce'
    BY <2>1, <2>3 DEF Ref!FreedOnce
  <2> QED
    BY <1>1, <2>2, <2>4
<1> QED
  BY <1>2, <1>3

LEMMA RefDecExchange ==
  ASSUME RefInv, NEW u \in Users, Ref!DecExchange(u)
  PROVE  RefInv'
<1> USE DEF RefInv, Ref!TypeOK
<1>1. prevCopy[u] > 0 /\ u \in Ref!Holders
  BY DEF Ref!DecExchange, Ref!Goto, CopiesArePositive, Ref!Holders
<1>2. Ref!TypeOK' /\ CopiesArePositive'
  BY <1>1 DEF Ref!DecExchange, Ref!Goto, Ref!Forget, Ref!PC, CopiesArePositive
<1>3. CASE refcount # prevCopy[u]
  <2>1. Ref!Holders' = Ref!Holders /\ Ref!Freers' = Ref!Freers /\ UNCHANGED refcount
    BY <1>3 DEF Ref!DecExchange, Ref!Goto, Ref!Holders, Ref!Freers
  <2> QED
    BY <1>2, <2>1, RefQuietStep
<1>4. CASE refcount = prevCopy[u]
  <2>1. Ref!Holders' = Ref!Holders \ {u} /\ refcount' = refcount - 1
    BY <1>4 DEF Ref!DecExchange, Ref!Goto, Ref!Holders
  <2>2. /\ Ref!CountIsReferences'
        /\ Cardinality(Ref!Holders') = refcount - 1 /\ IsFiniteSet(Ref!Holders')
    BY <1>1, <2>1, RefHoldersAreFinite, RefCardinality, FS_RemoveElement DEF Ref!CountIsReferences
  <2>3. Ref!Freers = {}
    BY <1>1 DEF Ref!FreedOnce
  <2>4. CASE refcount = 1
    <3>1. Ref!Freers' = {u}
      BY <1>4, <2>3, <2>4 DEF Ref!DecExchange, Ref!Goto, Ref!Freers
    <3>2. Ref!Holders' = {}
      BY <1>1, <2>1, <2>4, OneMeansAlone
    <3> QED
      BY <1>2, <2>2, <3>1, <3>2 DEF Ref!FreedOnce
  <2>5. CASE refcount # 1
    <3>1. Ref!Freers' = {}
      BY <1>4, <2>3, <2>5 DEF Ref!DecExchange, Ref!Goto, Ref!Freers
    <3>2. Ref!Holders' # {}
      BY <1>1, <1>4, <2>2, <2>5, FS_EmptySet
    <3> QED
      BY <1>2, <2>2, <3>1, <3>2 DEF Ref!FreedOnce
  <2> QED
    BY <2>4, <2>5
<1> QED
  BY <1>3, <1>4

LEMMA RefNext == RefInv /\ [Ref!Next]_refVars => RefInv'
<1> SUFFICES ASSUME RefInv, [Ref!Next]_refVars PROVE RefInv'
  OBVIOUS
<1> USE DEF RefInv, Ref!TypeOK
<1>1. ASSUME NEW u \in Users, Ref!RefAdd(u) \/ Ref!AddCopy(u) PROVE RefInv'
  <2>1. Ref!TypeOK' /\ CopiesArePositive' /\ UNCHANGED refcount
    BY <1>1 DEF Ref!RefAdd, Ref!AddCopy, Ref!Copy, Ref!Goto, Ref!PC, CopiesArePositive
  <2>2. Ref!Holders' = Ref!Holders /\ Ref!Freers' = Ref!Freers
    BY <1>1 DEF Ref!RefAdd, Ref!AddCopy, Ref!Goto, Ref!Holders, Ref!Freers
  <2> QED
    BY <2>1, <2>2, RefQuietStep
<1>2. ASSUME NEW u \in Users, Ref!RefDec(u) PROVE RefInv'
  <2>1. Ref!TypeOK' /\ CopiesArePositive' /\ UNCHANGED refcount
    BY <1>2 DEF Ref!RefDec, Ref!Goto, Ref!PC, CopiesArePositive
  <2>2. Ref!Holders' = Ref!Holders /\ Ref!Freers' = Ref!Freers
    BY <1>2 DEF Ref!RefDec, Ref!Goto, Ref!Holders, Ref!Freers
  <2> QED
    BY <2>1, <2>2, RefQuietStep
<1>3. ASSUME NEW u \in Users, Ref!DecCopy(u) PROVE RefInv'
  <2>1. u \in Ref!Holders
    BY <1>3 DEF Ref!DecCopy, Ref!Goto, Ref!Holders
  <2>2. refcount > 0
    BY <2>1, ZeroMeansUnreferenced
  <2>3. Ref!TypeOK' /\ CopiesArePositive' /\ UNCHANGED refcount
    BY <1>3, <2>2 DEF Ref!DecCopy, Ref!Copy, Ref!Goto, Ref!PC, CopiesArePositive
  <2>4. Ref!Holders' = Ref!Holders /\ Ref!Freers' = Ref!Freers
    BY <1>3, <2>2 DEF Ref!DecCopy, Ref!Goto, Ref!Holders, Ref!Freers
  <2> QED
    BY <2>3, <2>4, RefQuietStep
<1>4. CASE UNCHANGED refVars
  BY <1>4 DEF refVars, Ref!CountIsReferences, CopiesArePositive, Ref!FreedOnce, Ref!Holders, Ref!Freers
<1> QED
  BY <1>1, <1>2, <1>3, <1>4, RefAddExchange, RefDecExchange DEF Ref!Next, Ref!Add, Ref!Dec

(* Always: the types, the count of the holders, positive copies, and one   *)
(* freer once nobody has a reference.                                      *)
THEOREM RefInvariantHolds == Spec => []RefInv
<1>1. Init => RefInv
  BY RefInit DEF Init
<1>2. RefInv /\ [Next]_vars => RefInv'
  BY RefNext, RefSteps
<1> QED
  BY <1>1, <1>2, PTL DEF Spec

(* The count is the number of references, although every RefAdd and RefDec *)
(* works on a copy that may be stale.                                      *)
THEOREM CountIsExact == Spec => []CountIsReferences
<1>1. RefInv => CountIsReferences
  BY DEF RefInv, CountIsReferences
<1> QED
  BY <1>1, RefInvariantHolds, PTL

(* RefDec returns 0 to one user, when nobody has a reference any more.     *)
THEOREM FreedOnceHolds == Spec => []FreedOnce
<1>1. RefInv => FreedOnce
  BY DEF RefInv, FreedOnce
<1> QED
  BY <1>1, RefInvariantHolds, PTL

LEMMA RefZeroStaysZero ==
  RefInv /\ [Ref!Next]_refVars => [refcount = 0 => refcount' = 0]_refVars
<1> SUFFICES ASSUME RefInv, [Ref!Next]_refVars, refcount = 0 PROVE refcount' = 0
  OBVIOUS
<1> USE DEF RefInv, Ref!TypeOK, CopiesArePositive
<1>1. ASSUME NEW u \in Users, Ref!Add(u) \/ Ref!Dec(u) PROVE refcount' = 0
  BY <1>1 DEF Ref!Add, Ref!Dec, Ref!AddCopy, Ref!AddExchange, Ref!DecCopy,
              Ref!DecExchange, Ref!Goto
<1> QED
  BY <1>1 DEF Ref!Next, Ref!RefAdd, Ref!RefDec, refVars

(* A released object is not brought back by a RefAdd that comes too late.  *)
THEOREM NeverRevivedHolds == Spec => NeverRevived
<1>1. RefInv /\ [Next]_vars => [refcount = 0 => refcount' = 0]_refVars
  BY RefZeroStaysZero, RefSteps
<1> QED
  BY <1>1, RefInvariantHolds, PTL DEF Spec, NeverRevived, Ref!NeverRevived, Ref!vars, refVars
-----------------------------------------------------------------------------
(* LockingRefCount: its steps, whatever the others do.                     *)
LEMMA LiteSteps == [Next]_vars => [Lite!Next]_liteVars
<1> SUFFICES ASSUME [Next]_vars PROVE Lite!Next \/ UNCHANGED liteVars
  OBVIOUS
<1>1. CASE LiteStep
  BY <1>1 DEF LiteStep
<1> QED
  BY <1>1 DEF Next, vars, Only, RefStep, LiteStep, SingleStep,
              ChatStep, EchoStep, SockStep, ProviderStep

(* The threads inside an operation, from LOCKSYNC to its end.              *)
Inside == {t \in Users : stage[t][2] \in {"in", "read"}}

(* The inner spin lock admits one thread.                                  *)
SyncExcludes ==
  /\ m_syncLock = 0 => Inside = {}
  /\ \A t, u \in Inside : t = u

(* What a thread inside has read is still what the members say.            *)
ReadIsCurrent ==
  \A t \in Users : stage[t][2] = "read" =>
    seen[t] = [locked |-> m_lock, count |-> m_refCount]

(* There is a closer exactly while the count is locked, and only one.      *)
CloserLocks ==
  \/ m_lock = Lite!UNLOCKED /\ Lite!Closers = {}
  \/ m_lock = Lite!LOCKED /\ \E t \in Users : Lite!Closers = {t}

(* A closer whose wait is over has no user beside it.                      *)
AloneMeansDrained ==
  \A t \in Users : stage[t] = Lite!alone \/ stage[t][1] = "Unlock" => Lite!Sharers = {}

UsersAreCounted == m_refCount = Cardinality(Lite!Sharers)

LiteInv ==
  /\ Lite!TypeOK /\ SyncExcludes /\ ReadIsCurrent
  /\ UsersAreCounted /\ CloserLocks /\ AloneMeansDrained
-----------------------------------------------------------------------------
(* The size of a set is the same notion in LockingRefCount's FiniteSets.    *)
LEMMA CardinalityInLite == \A S : Lite!Cardinality(S) = Cardinality(S)
BY DEF Lite!Cardinality, Cardinality

(* The users are some of the threads, so their number is one.              *)
LEMMA UsersFinite ==
  /\ IsFiniteSet(Lite!Sharers) /\ Cardinality(Lite!Sharers) \in Nat
  /\ Cardinality(Lite!Sharers) <= Cardinality(Users)
<1>1. Lite!Sharers \subseteq Users
  BY DEF Lite!Sharers
<1> QED
  BY <1>1, UsersAssumption, FS_Subset, FS_CardinalityType

(* The same of the next state. *)
LEMMA UsersFinitePrime ==
  /\ IsFiniteSet(Lite!Sharers') /\ Cardinality(Lite!Sharers') \in Nat
  /\ Cardinality(Lite!Sharers') <= Cardinality(Users)
<1>1. Lite!Sharers' \subseteq Users
  BY DEF Lite!Sharers
<1> QED
  BY <1>1, UsersAssumption, FS_Subset, FS_CardinalityType

(* A number below the modulus is its own remainder.                        *)
LEMMA NoWrap ==
  ASSUME NEW n \in Nat, n <= Cardinality(Users)
  PROVE  n % Modulus = n /\ n \in Lite!Count
BY ModulusAssumption, UsersAssumption, FS_CardinalityType DEF Lite!Count

(* A thread that goes on inside its operation stays what it is.            *)
LEMMA SameOperation ==
  ASSUME Lite!TypeOK, NEW t \in Users, NEW op \in Lite!Ops,
         NEW a \in {"want", "in", "read"}, NEW b \in {"want", "in", "read"},
         Lite!Goto(t, <<op, a>>, <<op, b>>)
  PROVE  /\ stage' \in [Users -> Lite!Rests \union Lite!Ops \X {"want", "in", "read"}]
         /\ Lite!Sharers' = Lite!Sharers /\ Lite!Closers' = Lite!Closers
         /\ stage[t][2] = a /\ stage'[t][2] = b
         /\ \A u \in Users \ {t} : stage'[u] = stage[u]
         /\ \A u \in Users : stage'[u] = Lite!alone <=> stage[u] = Lite!alone
         /\ \A u \in Users : stage'[u][1] = stage[u][1]
<1> USE DEF Lite!TypeOK, Lite!Goto
<1>1. /\ stage[t] = <<op, a>> /\ stage'[t] = <<op, b>>
      /\ \A u \in Users \ {t} : stage'[u] = stage[u]
  OBVIOUS
<1>2. stage' \in [Users -> Lite!Rests \union Lite!Ops \X {"want", "in", "read"}]
  OBVIOUS
<1>3. stage[t][1] = op /\ stage[t][2] = a /\ stage'[t][1] = op /\ stage'[t][2] = b
  BY <1>1
<1>4. /\ stage[t] # Lite!using
      /\ stage'[t] # Lite!using
      /\ stage[t] # Lite!alone
      /\ stage'[t] # Lite!alone
  BY <1>1, <1>3 DEF Lite!using, Lite!alone
<1>5. Lite!Sharers' = Lite!Sharers
  BY <1>1, <1>3, <1>4 DEF Lite!Sharers
<1>6. Lite!Closers' = Lite!Closers
  BY <1>1, <1>3, <1>4 DEF Lite!Closers
<1> QED
  BY <1>1, <1>2, <1>3, <1>4, <1>5, <1>6

LEMMA LiteInit == Lite!Init => LiteInv
<1> SUFFICES ASSUME Lite!Init PROVE LiteInv
  OBVIOUS
<1> USE DEF Lite!Init, Lite!idle, Lite!using, Lite!alone
<1>1. Lite!Sharers = {} /\ Lite!Closers = {} /\ Inside = {}
  BY DEF Lite!Sharers, Lite!Closers, Inside
<1>2. Lite!TypeOK
  BY ModulusAssumption, UsersAssumption, FS_CardinalityType
  DEF Lite!TypeOK, Lite!Count, Lite!Nothing, Lite!LOCKED, Lite!UNLOCKED,
      Lite!LOCK_FLAG, Lite!Rests
<1>3. UsersAreCounted
  BY <1>1, FS_EmptySet DEF UsersAreCounted
<1>4. SyncExcludes /\ ReadIsCurrent /\ CloserLocks /\ AloneMeansDrained
  BY <1>1 DEF SyncExcludes, ReadIsCurrent, CloserLocks, AloneMeansDrained
<1> QED
  BY <1>2, <1>3, <1>4 DEF LiteInv
-----------------------------------------------------------------------------
LEMMA LiteCall ==
  ASSUME LiteInv, NEW t \in Users, Lite!Call(t)
  PROVE  LiteInv'
<1> USE DEF LiteInv, Lite!TypeOK, Lite!Call, Lite!Goto, Lite!idle, Lite!using, Lite!alone
<1>1. Lite!TypeOK'
  BY DEF Lite!Rests, Lite!Ops
<1>2. Lite!Sharers' = Lite!Sharers /\ Lite!Closers' = Lite!Closers
  BY DEF Lite!Sharers, Lite!Closers
<1>3. Inside' = Inside
  BY DEF Inside
<1>4. SyncExcludes' /\ UsersAreCounted' /\ CloserLocks'
  BY <1>2, <1>3 DEF SyncExcludes, UsersAreCounted, CloserLocks
<1>5. ReadIsCurrent' /\ AloneMeansDrained'
  BY <1>2, SMTT(30) DEF ReadIsCurrent, AloneMeansDrained
<1> QED
  BY <1>1, <1>4, <1>5

LEMMA LiteLOCKSYNC ==
  ASSUME LiteInv, NEW t \in Users, NEW op \in Lite!Ops, Lite!LOCKSYNC(t, op)
  PROVE  LiteInv'
<1> USE DEF LiteInv
<1>1. /\ stage' \in [Users -> Lite!Rests \union Lite!Ops \X {"want", "in", "read"}]
      /\ Lite!Sharers' = Lite!Sharers /\ Lite!Closers' = Lite!Closers
      /\ stage'[t][2] = "in"
      /\ \A u \in Users \ {t} : stage'[u] = stage[u]
      /\ \A u \in Users : stage'[u] = Lite!alone <=> stage[u] = Lite!alone
      /\ \A u \in Users : stage'[u][1] = stage[u][1]
  BY SameOperation DEF Lite!LOCKSYNC
<1>2. Lite!TypeOK'
  BY <1>1 DEF Lite!TypeOK, Lite!LOCKSYNC
<1>3. Inside = {} /\ Inside' = {t}
  BY <1>1 DEF Inside, SyncExcludes, Lite!LOCKSYNC
<1>4. SyncExcludes' /\ UsersAreCounted' /\ CloserLocks'
  BY <1>1, <1>3
  DEF SyncExcludes, UsersAreCounted, CloserLocks, Lite!LOCKSYNC, Lite!LOCK_FLAG
<1>5. ReadIsCurrent' /\ AloneMeansDrained'
  BY <1>1 DEF ReadIsCurrent, AloneMeansDrained, Lite!LOCKSYNC
<1> QED
  BY <1>2, <1>4, <1>5

LEMMA LiteRead ==
  ASSUME LiteInv, NEW t \in Users, NEW op \in Lite!Ops, Lite!Read(t, op)
  PROVE  LiteInv'
<1> USE DEF LiteInv
<1>1. /\ stage' \in [Users -> Lite!Rests \union Lite!Ops \X {"want", "in", "read"}]
      /\ Lite!Sharers' = Lite!Sharers /\ Lite!Closers' = Lite!Closers
      /\ stage[t][2] = "in" /\ stage'[t][2] = "read"
      /\ \A u \in Users \ {t} : stage'[u] = stage[u]
      /\ \A u \in Users : stage'[u] = Lite!alone <=> stage[u] = Lite!alone
      /\ \A u \in Users : stage'[u][1] = stage[u][1]
  BY SameOperation DEF Lite!Read
<1>2. Lite!TypeOK'
  BY <1>1 DEF Lite!TypeOK, Lite!Read
<1>3. Inside' = Inside
  BY <1>1 DEF Inside
<1>4. SyncExcludes' /\ UsersAreCounted' /\ CloserLocks'
  BY <1>1, <1>3 DEF SyncExcludes, UsersAreCounted, CloserLocks, Lite!Read
<1>5. seen'[t] = [locked |-> m_lock, count |-> m_refCount]
  BY DEF Lite!TypeOK, Lite!Read
<1>6. \A u \in Users \ {t} : seen'[u] = seen[u]
  BY DEF Lite!TypeOK, Lite!Read
<1>7. ReadIsCurrent' /\ AloneMeansDrained'
  BY <1>1, <1>5, <1>6 DEF ReadIsCurrent, AloneMeansDrained, Lite!Read
<1> QED
  BY <1>2, <1>4, <1>7
-----------------------------------------------------------------------------
(* The end of an operation: the thread was alone inside, and what it has   *)
(* read is current.                                                        *)
LEMMA FinishIsExact ==
  ASSUME LiteInv, NEW t \in Users, NEW op \in Lite!Ops,
         NEW to \in Lite!Rests \union Lite!Ops \X {"want"}, Lite!Finish(t, op, to)
  PROVE  /\ stage' \in [Users -> Lite!Rests \union Lite!Ops \X {"want", "in", "read"}]
         /\ seen' \in [Users -> [locked : {Lite!LOCKED, Lite!UNLOCKED}, count : Lite!Count]]
         /\ m_syncLock' \in {0, Lite!LOCK_FLAG}
         /\ stage[t] = <<op, "read">> /\ stage[t][1] = op /\ stage'[t] = to
         /\ stage[t] # Lite!using /\ stage[t] # Lite!alone
         /\ \A u \in Users \ {t} : stage'[u] = stage[u]
         /\ seen[t].locked = m_lock /\ seen[t].count = m_refCount
         /\ SyncExcludes' /\ ReadIsCurrent'
<1> USE DEF LiteInv, Lite!TypeOK
<1>1. /\ stage[t] = <<op, "read">> /\ stage'[t] = to
      /\ \A u \in Users \ {t} : stage'[u] = stage[u]
      /\ m_syncLock' = 0
  BY DEF Lite!Finish, Lite!Goto
<1>2. stage' \in [Users -> Lite!Rests \union Lite!Ops \X {"want", "in", "read"}]
  BY DEF Lite!Finish, Lite!Goto
<1>3. Lite!Nothing \in [locked : {Lite!LOCKED, Lite!UNLOCKED}, count : Lite!Count]
  BY ModulusAssumption, UsersAssumption, FS_CardinalityType
  DEF Lite!Nothing, Lite!Count
<1>4. seen' \in [Users -> [locked : {Lite!LOCKED, Lite!UNLOCKED}, count : Lite!Count]]
  BY <1>3 DEF Lite!Finish
<1>5. /\ stage[t][1] = op
      /\ stage[t][2] = "read"
      /\ stage[t] # Lite!using
      /\ stage[t] # Lite!alone
  BY <1>1 DEF Lite!using, Lite!alone
<1>6. to[2] \notin {"in", "read"}
  BY DEF Lite!Rests
<1>7. Inside' = {}
  BY <1>1, <1>5, <1>6 DEF Inside, SyncExcludes
<1>8. SyncExcludes' /\ ReadIsCurrent'
  BY <1>7 DEF SyncExcludes, ReadIsCurrent, Inside
<1>9. seen[t].locked = m_lock /\ seen[t].count = m_refCount
  BY <1>5 DEF ReadIsCurrent
<1> QED
  BY <1>1, <1>2, <1>4, <1>5, <1>8, <1>9

LEMMA CountIsNat == LiteInv => m_refCount \in Nat /\ m_refCount <= Cardinality(Users)
BY UsersFinite DEF LiteInv, UsersAreCounted

LEMMA LiteTryIncrement ==
  ASSUME LiteInv, NEW t \in Users, Lite!TryIncrement(t)
  PROVE  LiteInv'
<1> USE DEF LiteInv
<1> DEFINE op == "TryIncrement"
<1>1. CASE seen[t].locked = Lite!LOCKED
  <2>1. PICK to \in {Lite!idle, <<op, "want">>} : Lite!Finish(t, op, to)
    BY <1>1 DEF Lite!TryIncrement
  <2>2. /\ to \in Lite!Rests \union Lite!Ops \X {"want"}
        /\ to[1] \in {"idle", op}
        /\ to # Lite!using
        /\ to # Lite!alone
    BY DEF Lite!Rests, Lite!Ops, Lite!idle, Lite!using, Lite!alone
  <2>a. /\ stage[t][1] = op
        /\ stage[t] # Lite!using
        /\ stage[t] # Lite!alone
        /\ stage'[t] = to
        /\ \A u \in Users \ {t} : stage'[u] = stage[u]
    BY <2>1, <2>2, FinishIsExact DEF Lite!Ops
  <2>3. Lite!Sharers' = Lite!Sharers /\ Lite!Closers' = Lite!Closers
    BY <2>a, <2>2 DEF Lite!Sharers, Lite!Closers
  <2>4. UNCHANGED <<m_lock, m_refCount>>
    BY <1>1, <2>1, <2>2, FinishIsExact, CountIsNat, NoWrap
    DEF Lite!TryIncrement, Lite!LOCKED, Lite!Ops
  <2>5. Lite!TypeOK' /\ SyncExcludes' /\ ReadIsCurrent'
    BY <2>1, <2>2, <2>4, FinishIsExact DEF Lite!TypeOK, Lite!Ops
  <2>6. UsersAreCounted' /\ CloserLocks' /\ AloneMeansDrained'
    BY <2>1, <2>2, <2>3, <2>4, FinishIsExact
    DEF UsersAreCounted, CloserLocks, AloneMeansDrained, Lite!Ops
  <2> QED
    BY <2>5, <2>6
<1>2. CASE seen[t].locked # Lite!LOCKED
  <2>1. Lite!Finish(t, op, Lite!using)
    BY <1>2 DEF Lite!TryIncrement
  <2>2. /\ Lite!using \in Lite!Rests \union Lite!Ops \X {"want"}
        /\ Lite!using[1] = "using"
        /\ Lite!using # Lite!alone
        /\ op \in Lite!Ops
    BY DEF Lite!Rests, Lite!Ops, Lite!using, Lite!alone
  <2>3. /\ m_lock = Lite!UNLOCKED
        /\ seen[t].locked = Lite!UNLOCKED
        /\ Lite!Closers = {}
    BY <1>2, <2>1, <2>2, FinishIsExact DEF Lite!TypeOK, CloserLocks
  <2>4. /\ Lite!Sharers' = Lite!Sharers \cup {t}
        /\ t \notin Lite!Sharers
        /\ Lite!Closers' = {}
    BY <2>1, <2>2, <2>3, FinishIsExact DEF Lite!Sharers, Lite!Closers
  <2>5. Cardinality(Lite!Sharers') = m_refCount + 1
    BY <2>4, UsersFinite, FS_AddElement DEF UsersAreCounted
  <2>6. m_refCount' = m_refCount + 1 /\ m_refCount' \in Lite!Count
    BY <2>1, <2>2, <2>3, <2>5, FinishIsExact, CountIsNat, UsersFinitePrime,
       NoWrap
    DEF Lite!TryIncrement, Lite!UNLOCKED
  <2>7. Lite!TypeOK' /\ SyncExcludes' /\ ReadIsCurrent'
    BY <2>1, <2>2, <2>6, FinishIsExact DEF Lite!TypeOK, Lite!TryIncrement
  <2>8. UsersAreCounted' /\ CloserLocks' /\ AloneMeansDrained'
    BY <2>3, <2>4, <2>5, <2>6
    DEF UsersAreCounted, CloserLocks, AloneMeansDrained, Lite!TryIncrement,
        Lite!Closers
  <2> QED
    BY <2>7, <2>8
<1> QED
  BY <1>1, <1>2

LEMMA LiteDecrement ==
  ASSUME LiteInv, NEW t \in Users, Lite!Decrement(t)
  PROVE  LiteInv'
<1> USE DEF LiteInv
<1>1. /\ Lite!Finish(t, "Decrement", Lite!idle) /\ "Decrement" \in Lite!Ops
      /\ Lite!idle \in Lite!Rests \union Lite!Ops \X {"want"}
      /\ Lite!idle[1] = "idle"
      /\ Lite!idle # Lite!using /\ Lite!idle # Lite!alone
  BY
  DEF Lite!Decrement, Lite!Rests, Lite!Ops, Lite!idle, Lite!using,
      Lite!alone
<1>2. /\ Lite!Sharers' = Lite!Sharers \ {t}
      /\ t \in Lite!Sharers
      /\ Lite!Closers' = Lite!Closers
  BY <1>1, FinishIsExact DEF Lite!Sharers, Lite!Closers
<1>3. Cardinality(Lite!Sharers') = m_refCount - 1
  BY <1>2, UsersFinite, FS_RemoveElement DEF UsersAreCounted
<1>4. m_refCount' = m_refCount - 1 /\ m_refCount' \in Lite!Count
  BY <1>1, <1>3, FinishIsExact, CountIsNat, UsersFinitePrime, NoWrap
  DEF Lite!Decrement
<1>5. Lite!TypeOK' /\ SyncExcludes' /\ ReadIsCurrent'
  BY <1>1, <1>4, FinishIsExact DEF Lite!TypeOK, Lite!Decrement
<1>6. UsersAreCounted' /\ CloserLocks'
  BY <1>2, <1>3, <1>4 DEF UsersAreCounted, CloserLocks, Lite!Decrement
<1>7. AloneMeansDrained'
  BY <1>1, <1>2, FinishIsExact DEF AloneMeansDrained
<1> QED
  BY <1>5, <1>6, <1>7

(* Lock, told that the count was locked, changes nothing but where the     *)
(* thread is; told that it was not, it makes the thread the closer.        *)
LEMMA LiteLock ==
  ASSUME LiteInv, NEW t \in Users, Lite!Lock(t)
  PROVE  LiteInv'
<1> USE DEF LiteInv
<1> DEFINE to == IF seen[t].locked = Lite!LOCKED THEN Lite!idle ELSE <<"RefCount", "want">>
<1>1. /\ Lite!Finish(t, "Lock", to) /\ "Lock" \in Lite!Ops
      /\ to \in Lite!Rests \union Lite!Ops \X {"want"}
      /\ to # Lite!using
      /\ to # Lite!alone
      /\ to[1] = IF seen[t].locked = Lite!LOCKED THEN "idle" ELSE "RefCount"
  BY
  DEF Lite!Lock, Lite!Rests, Lite!Ops, Lite!idle, Lite!using,
      Lite!alone
<1>2. /\ stage[t][1] = "Lock"
      /\ stage[t] # Lite!using
      /\ stage[t] # Lite!alone
      /\ stage'[t] = to
      /\ \A u \in Users \ {t} : stage'[u] = stage[u]
      /\ seen[t].locked = m_lock
  BY <1>1, FinishIsExact
<1>3. Lite!TypeOK' /\ SyncExcludes' /\ ReadIsCurrent'
  BY <1>1, FinishIsExact DEF Lite!TypeOK, Lite!Lock
<1>4. Lite!Sharers' = Lite!Sharers
  BY <1>1, <1>2 DEF Lite!Sharers
<1>5. CloserLocks'
  <2>1. CASE m_lock = Lite!LOCKED
    <3>1. Lite!Closers' = Lite!Closers
      BY <1>1, <1>2, <2>1 DEF Lite!Closers
    <3> QED
      BY <2>1, <3>1 DEF CloserLocks, Lite!Lock, Lite!LOCKED, Lite!UNLOCKED
  <2>2. CASE m_lock # Lite!LOCKED
    <3>1. Lite!Closers = {}
      BY <2>2 DEF CloserLocks
    <3>2. Lite!Closers' = {t}
      BY <1>1, <1>2, <2>2, <3>1 DEF Lite!Closers
    <3> QED
      BY <3>2 DEF CloserLocks, Lite!Lock
  <2> QED
    BY <2>1, <2>2
<1>6. UsersAreCounted' /\ AloneMeansDrained'
  BY <1>1, <1>2, <1>4 DEF UsersAreCounted, AloneMeansDrained, Lite!Lock
<1> QED
  BY <1>3, <1>5, <1>6

LEMMA LiteWaitZeroRef ==
  ASSUME LiteInv, NEW t \in Users, Lite!WaitZeroRef(t)
  PROVE  LiteInv'
<1> USE DEF LiteInv
<1> DEFINE to == IF seen[t].count # 0 THEN <<"RefCount", "want">> ELSE Lite!alone
<1>1. /\ Lite!Finish(t, "RefCount", to) /\ "RefCount" \in Lite!Ops
      /\ to \in Lite!Rests \union Lite!Ops \X {"want"} /\ to # Lite!using
      /\ to[1] = IF seen[t].count # 0 THEN "RefCount" ELSE "alone"
      /\ to = Lite!alone <=> seen[t].count = 0
  BY
  DEF Lite!WaitZeroRef, Lite!Rests, Lite!Ops, Lite!using, Lite!alone
<1>2. /\ stage[t][1] = "RefCount" /\ stage[t] # Lite!using /\ stage'[t] = to
      /\ \A u \in Users \ {t} : stage'[u] = stage[u]
      /\ seen[t].count = m_refCount
  BY <1>1, FinishIsExact
<1>3. Lite!TypeOK' /\ SyncExcludes' /\ ReadIsCurrent'
  BY <1>1, FinishIsExact DEF Lite!TypeOK, Lite!WaitZeroRef
<1>4. Lite!Sharers' = Lite!Sharers /\ Lite!Closers' = Lite!Closers
  BY <1>1, <1>2 DEF Lite!Sharers, Lite!Closers
<1>5. UsersAreCounted' /\ CloserLocks'
  BY <1>4 DEF UsersAreCounted, CloserLocks, Lite!WaitZeroRef
<1>6. AloneMeansDrained'
  <2>1. m_refCount = 0 => Lite!Sharers = {}
    BY UsersFinite, FS_EmptySet DEF UsersAreCounted
  <2> QED
    BY <1>1, <1>2, <1>4, <2>1 DEF AloneMeansDrained
<1> QED
  BY <1>3, <1>5, <1>6

LEMMA LiteUnlock ==
  ASSUME LiteInv, NEW t \in Users, Lite!Unlock(t)
  PROVE  LiteInv'
<1> USE DEF LiteInv
<1>1. /\ Lite!Finish(t, "Unlock", Lite!idle) /\ "Unlock" \in Lite!Ops
      /\ Lite!idle \in Lite!Rests \union Lite!Ops \X {"want"}
      /\ Lite!idle[1] = "idle"
      /\ Lite!idle # Lite!using /\ Lite!idle # Lite!alone
  BY
  DEF Lite!Unlock, Lite!Rests, Lite!Ops, Lite!idle, Lite!using,
      Lite!alone
<1>2. /\ stage[t][1] = "Unlock" /\ stage[t] # Lite!using /\ stage'[t] = Lite!idle
      /\ \A u \in Users \ {t} : stage'[u] = stage[u]
  BY <1>1, FinishIsExact
<1>3. Lite!TypeOK' /\ SyncExcludes' /\ ReadIsCurrent'
  BY <1>1, FinishIsExact DEF Lite!TypeOK, Lite!Unlock
<1>4. Lite!Sharers' = Lite!Sharers
  BY <1>1, <1>2 DEF Lite!Sharers
<1>5. Lite!Closers' = {}
  <2>1. Lite!Closers = {t}
    BY <1>2 DEF CloserLocks, Lite!Closers
  <2> QED
    BY <1>1, <1>2, <2>1 DEF Lite!Closers
<1>6. UsersAreCounted' /\ CloserLocks' /\ AloneMeansDrained'
  BY <1>4, <1>5
  DEF UsersAreCounted, CloserLocks, AloneMeansDrained, Lite!Unlock, Lite!Closers
<1> QED
  BY <1>3, <1>6

LEMMA LiteNext == LiteInv /\ [Next]_vars => LiteInv'
<1> SUFFICES ASSUME LiteInv, [Lite!Next]_liteVars PROVE LiteInv'
  BY LiteSteps
<1>1. CASE UNCHANGED liteVars
  BY <1>1
  DEF liteVars, LiteInv, Lite!TypeOK, SyncExcludes, ReadIsCurrent,
      UsersAreCounted, CloserLocks, AloneMeansDrained, Inside, Lite!Sharers,
      Lite!Closers
<1> QED
  BY <1>1, LiteCall, LiteLOCKSYNC, LiteRead, LiteTryIncrement, LiteDecrement,
     LiteLock, LiteWaitZeroRef, LiteUnlock
  DEF Lite!Next

(* Always: one thread inside the inner lock, with current values at hand;  *)
(* the count exact, the closer alone in its role, and drained once it      *)
(* works.                                                                  *)
THEOREM LiteInvariantHolds == Spec => []LiteInv
<1>1. Init => LiteInv
  BY LiteInit DEF Init
<1> QED
  BY <1>1, LiteNext, PTL DEF Spec

(* The count is the number of its users, and it is locked exactly while    *)
(* one thread closes it.                                                   *)
THEOREM CountIsUsersHolds == Spec => []CountIsUsers
<1>1. LiteInv => CountIsUsers
  <2> SUFFICES ASSUME LiteInv PROVE CountIsUsers
    OBVIOUS
  <2>1. Cardinality(Lite!Closers) = (IF m_lock = Lite!LOCKED THEN 1 ELSE 0)
    BY FS_EmptySet, FS_Singleton
    DEF LiteInv, CloserLocks, Lite!LOCKED, Lite!UNLOCKED
  <2> QED
    BY <2>1, CardinalityInLite
    DEF LiteInv, UsersAreCounted, CountIsUsers, Lite!CountIsUsers
<1> QED
  BY <1>1, LiteInvariantHolds, PTL
-----------------------------------------------------------------------------
LEMMA LiteInitRefines == Lite!Init => Lite!Abstract!Init
BY
DEF Lite!Init, Lite!Abstract!Init, Lite!Mode, Lite!Sharers,
    Lite!idle, Lite!using, Lite!alone

(* The operations that take, give back or drain the count are the steps of *)
(* the abstract lock; everything else is not seen by its callers.          *)
LEMMA LiteNextRefines ==
  LiteInv /\ [Next]_vars => [Lite!Abstract!Next]_(Lite!Mode)
<1> SUFFICES ASSUME LiteInv, [Lite!Next]_liteVars PROVE [Lite!Abstract!Next]_(Lite!Mode)
  BY LiteSteps
<1> USE DEF LiteInv
<1>1. ASSUME NEW t \in Users, Lite!Call(t) PROVE UNCHANGED Lite!Mode
  BY <1>1
  DEF Lite!Call, Lite!Goto, Lite!TypeOK, Lite!Mode, Lite!Sharers, Lite!idle,
      Lite!using, Lite!alone
<1>2. ASSUME NEW t \in Users, NEW op \in Lite!Ops, Lite!LOCKSYNC(t, op) \/ Lite!Read(t, op)
      PROVE  UNCHANGED Lite!Mode
  BY <1>2, SameOperation DEF Lite!LOCKSYNC, Lite!Read, Lite!Mode
<1>3. ASSUME NEW t \in Users, Lite!TryIncrement(t)
      PROVE  UNCHANGED Lite!Mode \/ Lite!Abstract!AcquireRead(t)
  <2> DEFINE op == "TryIncrement"
  <2>1. PICK to \in {Lite!idle, <<op, "want">>, Lite!using} : Lite!Finish(t, op, to)
                /\ (to = Lite!using => seen[t].locked # Lite!LOCKED)
    BY <1>3 DEF Lite!TryIncrement, Lite!idle, Lite!using
  <2>2. /\ op \in Lite!Ops
        /\ to \in Lite!Rests \union Lite!Ops \X {"want"}
        /\ to # Lite!alone
        /\ to # Lite!using => to[1] \in {"idle", op}
        /\ Lite!using[1] = "using"
    BY DEF Lite!Rests, Lite!Ops, Lite!idle, Lite!using, Lite!alone
  <2>3. /\ stage[t][1] = op
        /\ stage[t] # Lite!using
        /\ stage[t] # Lite!alone
        /\ stage'[t] = to
        /\ \A u \in Users \ {t} : stage'[u] = stage[u]
        /\ seen[t].locked = m_lock
    BY <2>1, <2>2, FinishIsExact
  <2>4. CASE to # Lite!using
    BY <2>2, <2>3, <2>4 DEF Lite!Mode, Lite!Sharers
  <2>5. CASE to = Lite!using
    <3>1. Lite!Closers = {}
      BY <2>1, <2>3, <2>5 DEF CloserLocks
    <3>2. Lite!Mode[t] = "none" /\ \A u \in Users : Lite!Mode[u] # "write"
      BY <2>3, <3>1 DEF Lite!Mode, Lite!Sharers, Lite!Closers
    <3>3. Lite!Mode' = [Lite!Mode EXCEPT ![t] = "read"]
      BY <2>3, <2>5 DEF Lite!Mode, Lite!Sharers
    <3> QED
      BY <3>2, <3>3 DEF Lite!Abstract!AcquireRead
  <2> QED
    BY <2>4, <2>5
<1>4. ASSUME NEW t \in Users, Lite!Decrement(t) PROVE Lite!Abstract!Release(t)
  <2>1. /\ Lite!Finish(t, "Decrement", Lite!idle) /\ "Decrement" \in Lite!Ops
        /\ Lite!idle \in Lite!Rests \union Lite!Ops \X {"want"}
        /\ Lite!idle[1] = "idle"
        /\ Lite!idle # Lite!using /\ Lite!idle # Lite!alone
    BY <1>4
    DEF Lite!Decrement, Lite!Rests, Lite!Ops, Lite!idle, Lite!using, Lite!alone
  <2>2. /\ stage[t][1] = "Decrement" /\ stage'[t] = Lite!idle
        /\ \A u \in Users \ {t} : stage'[u] = stage[u]
    BY <2>1, FinishIsExact
  <2> QED
    BY <2>1, <2>2 DEF Lite!Abstract!Release, Lite!Mode, Lite!Sharers
<1>5. ASSUME NEW t \in Users, Lite!Lock(t) PROVE UNCHANGED Lite!Mode
  <2> DEFINE to == IF seen[t].locked = Lite!LOCKED THEN Lite!idle ELSE <<"RefCount", "want">>
  <2>1. /\ Lite!Finish(t, "Lock", to) /\ "Lock" \in Lite!Ops
        /\ to \in Lite!Rests \union Lite!Ops \X {"want"}
        /\ to # Lite!using
        /\ to # Lite!alone
        /\ to[1] \in {"idle", "RefCount"}
    BY <1>5
    DEF Lite!Lock, Lite!Rests, Lite!Ops, Lite!idle, Lite!using, Lite!alone
  <2>2. /\ stage[t][1] = "Lock"
        /\ stage[t] # Lite!using
        /\ stage[t] # Lite!alone
        /\ stage'[t] = to
        /\ \A u \in Users \ {t} : stage'[u] = stage[u]
    BY <2>1, FinishIsExact
  <2> QED
    BY <2>1, <2>2 DEF Lite!Mode, Lite!Sharers
<1>6. ASSUME NEW t \in Users, Lite!WaitZeroRef(t)
      PROVE  UNCHANGED Lite!Mode \/ Lite!Abstract!AcquireWrite(t)
  <2> DEFINE to == IF seen[t].count # 0 THEN <<"RefCount", "want">> ELSE Lite!alone
  <2>1. /\ Lite!Finish(t, "RefCount", to) /\ "RefCount" \in Lite!Ops
        /\ to \in Lite!Rests \union Lite!Ops \X {"want"} /\ to # Lite!using
        /\ to[1] \in {"RefCount", "alone"}
        /\ to = Lite!alone <=> seen[t].count = 0
    BY <1>6 DEF Lite!WaitZeroRef, Lite!Rests, Lite!Ops, Lite!using, Lite!alone
  <2>2. /\ stage[t][1] = "RefCount"
        /\ stage[t] # Lite!using
        /\ stage[t] # Lite!alone
        /\ stage'[t] = to
        /\ \A u \in Users \ {t} : stage'[u] = stage[u]
        /\ seen[t].count = m_refCount
    BY <2>1, FinishIsExact
  <2>3. CASE to # Lite!alone
    BY <2>1, <2>2, <2>3 DEF Lite!Mode, Lite!Sharers
  <2>4. CASE to = Lite!alone
    <3>1. Lite!Sharers = {}
      BY <2>1, <2>2, <2>4, UsersFinite, FS_EmptySet DEF UsersAreCounted
    <3>2. Lite!Closers = {t}
      BY <2>2 DEF CloserLocks, Lite!Closers
    <3>3. \A u \in Users : Lite!Mode[u] = "none"
      BY <2>2, <3>1, <3>2 DEF Lite!Mode, Lite!Closers
    <3>4. Lite!Mode' = [Lite!Mode EXCEPT ![t] = "write"]
      BY <2>1, <2>2, <2>4 DEF Lite!Mode, Lite!Sharers
    <3> QED
      BY <3>3, <3>4 DEF Lite!Abstract!AcquireWrite
  <2> QED
    BY <2>3, <2>4
<1>7. ASSUME NEW t \in Users, Lite!Unlock(t) PROVE Lite!Abstract!Release(t)
  <2>1. /\ Lite!Finish(t, "Unlock", Lite!idle) /\ "Unlock" \in Lite!Ops
        /\ Lite!idle \in Lite!Rests \union Lite!Ops \X {"want"}
        /\ Lite!idle[1] = "idle"
        /\ Lite!idle # Lite!using /\ Lite!idle # Lite!alone
    BY <1>7
    DEF Lite!Unlock, Lite!Rests, Lite!Ops, Lite!idle, Lite!using, Lite!alone
  <2>2. /\ stage[t][1] = "Unlock" /\ stage[t] # Lite!using /\ stage'[t] = Lite!idle
        /\ \A u \in Users \ {t} : stage'[u] = stage[u]
    BY <2>1, FinishIsExact
  <2> QED
    BY <2>1, <2>2 DEF Lite!Abstract!Release, Lite!Mode, Lite!Sharers
<1>8. CASE UNCHANGED liteVars
  BY <1>8 DEF liteVars, Lite!Mode, Lite!Sharers
<1> QED
  BY <1>1, <1>2, <1>3, <1>4, <1>5, <1>6, <1>7, <1>8
  DEF Lite!Next, Lite!Abstract!Next

(* CLockingRefCountLite, with WaitZeroRef after a Lock that was the first, *)
(* is a reader-writer lock: users share and a drained closer is alone.     *)
THEOREM LiteImplementsRWLock == Spec => ImplementsRWLock
<1>1. Spec => []LiteInv
  BY LiteInvariantHolds
<1>2. Init => Lite!Abstract!Init
  BY LiteInitRefines DEF Init
<1> QED
  BY <1>1, <1>2, LiteNextRefines, PTL
  DEF Spec, ImplementsRWLock, Lite!ImplementsRWLock, Lite!Abstract!Spec
-----------------------------------------------------------------------------
(* Singleton: its steps, whatever the others do.                           *)
LEMMA SingleSteps == [Next]_vars => [Single!Next]_singleVars
<1> SUFFICES ASSUME [Next]_vars PROVE Single!Next \/ UNCHANGED singleVars
  OBVIOUS
<1>1. CASE SingleStep
  BY <1>1 DEF SingleStep
<1> QED
  BY <1>1 DEF Next, vars, Only, RefStep, LiteStep, SingleStep,
              ChatStep, EchoStep, SockStep, ProviderStep

(* Types and ranges of the variables of Singleton.                         *)
SingleType ==
  /\ instance_ \in Objects \union {NULL}
  /\ lock \in {0, 1}
  /\ object \in [Objects -> {"none", "raw", "base", "complete", "deleted"}]
  /\ pc \in [Threads -> {"call", "enter", "look", "construct", "complete", "assign",
                         "leave", "return", "got", "exit", "delete", "free", "clear"}]
  /\ mine \in [Threads -> Objects \union {NULL}]
  /\ locked \subseteq Threads
  /\ scheduled \in Nat
  /\ exiting \in BOOLEAN

(* The threads between Enter and Leave of the critical section.            *)
InLock == {t \in Threads : pc[t] \in {"look", "construct", "complete", "assign", "leave"}}

(* One thread at most has the lock.                                        *)
LockIsExclusive ==
  /\ \A t \in InLock : lock = 1
  /\ \A t, u \in InLock : t = u

(* The object that was made is the published one, or about to be.          *)
MadeOnce ==
  /\ \A o, p \in Objects : object[o] # "none" /\ object[p] # "none" => o = p
  /\ \A o \in Objects : object[o] # "none" /\ instance_ = NULL =>
       \E t \in Threads : pc[t] = "construct"
  /\ instance_ # NULL => object[instance_] # "none"

(* A published object is complete, or its constructor runs in the lock.    *)
CompleteOrConstructed ==
  instance_ # NULL =>
    object[instance_] = "complete" \/ \E t \in Threads : pc[t] = "complete"

(* What a thread knows at each place of GetInstance.                       *)
ThreadKnows(t) ==
  /\ pc[t] \notin {"exit", "delete", "free", "clear"}
  /\ pc[t] \in {"call", "enter"} => t \notin locked
  /\ pc[t] = "construct" => instance_ = NULL /\ mine[t] \in Objects /\ object[mine[t]] # "none"
  /\ pc[t] \in {"complete", "assign", "leave", "return", "got"} => instance_ # NULL
  /\ pc[t] \in {"complete", "assign", "got"} => mine[t] = instance_
  /\ pc[t] \in {"assign", "leave", "return"} => object[instance_] = "complete"
  /\ pc[t] = "got" /\ t \in locked => object[instance_] = "complete"

BeforeExit ==
  /\ LockIsExclusive /\ MadeOnce /\ CompleteOrConstructed
  /\ \A t \in Threads : ThreadKnows(t)

SingleInv == SingleType /\ (~exiting => BeforeExit)
-----------------------------------------------------------------------------
LEMMA SingleInit == Single!Init => SingleInv
<1> SUFFICES ASSUME Single!Init PROVE SingleInv
  OBVIOUS
<1>1. SingleType
  BY DEF Single!Init, SingleType
<1>2. LockIsExclusive /\ MadeOnce /\ CompleteOrConstructed
  BY DEF Single!Init, LockIsExclusive, InLock, MadeOnce, CompleteOrConstructed
<1>3. \A t \in Threads : ThreadKnows(t)
  BY DEF Single!Init, ThreadKnows
<1> QED
  BY <1>1, <1>2, <1>3 DEF SingleInv, BeforeExit

LEMMA SingleTypeNext == SingleType /\ [Single!Next]_singleVars => SingleType'
<1> SUFFICES ASSUME SingleType, [Single!Next]_singleVars PROVE SingleType'
  OBVIOUS
<1> USE DEF SingleType, Single!Go, Single!Take, Single!Becomes
<1>1. ASSUME NEW t \in Threads, Single!FirstLook(t) \/ Single!EnterLock(t) PROVE SingleType'
  BY <1>1 DEF Single!FirstLook, Single!EnterLock, Single!Enter
<1>2. ASSUME NEW t \in Threads, Single!SecondLook(t) PROVE SingleType'
  BY <1>2 DEF Single!SecondLook
<1>3. ASSUME NEW t \in Threads, Single!Publish(t) \/ Single!Complete(t) PROVE SingleType'
  <2>1. CASE Single!Publish(t)
    BY <2>1 DEF Single!Publish
  <2>2. CASE Single!Complete(t)
    BY <2>2 DEF Single!Complete
  <2> QED
    BY <1>3, <2>1, <2>2
<1>4. ASSUME NEW t \in Threads,
             Single!CreateInstance(t) \/ Single!LeaveLock(t) \/ Single!Return(t)
      PROVE  SingleType'
  BY <1>4 DEF Single!CreateInstance, Single!LeaveLock, Single!Leave, Single!Return
<1>5. ASSUME NEW t \in Threads, Single!Exit(t) \/ Single!Destroy(t) PROVE SingleType'
  <2>1. CASE Single!Exit(t)
    BY <2>1 DEF Single!Exit
  <2>2. CASE Single!Destroy(t)
    <3>1. scheduled' \in Nat
      BY <2>2 DEF Single!Destroy
    <3>2. pc' \in [Threads -> {"call", "enter", "look", "construct", "complete", "assign",
                             "leave", "return", "got", "exit", "delete", "free", "clear"}]
      BY <2>2 DEF Single!Destroy
    <3>3. mine' \in [Threads -> Objects \union {NULL}]
      BY <2>2 DEF Single!Destroy
    <3> QED
      BY <2>2, <3>1, <3>2, <3>3 DEF Single!Destroy
  <2> QED
    BY <1>5, <2>1, <2>2
<1>6. ASSUME NEW t \in Threads,
             Single!DestroyInstance(t) \/ Single!FreeLock(t) \/ Single!ClearInstance(t)
      PROVE  SingleType'
  BY <1>6 DEF Single!DestroyInstance, Single!FreeLock, Single!Free, Single!ClearInstance
<1>7. CASE UNCHANGED singleVars
  BY <1>7 DEF singleVars
<1> QED
  BY <1>1, <1>2, <1>3, <1>4, <1>5, <1>6, <1>7 DEF Single!Next

(* Before the exit no thread is in Destroy, so each step is one of         *)
(* GetInstance or the beginning of the exit.                               *)
LEMMA BeforeExitNext ==
  ASSUME SingleType, BeforeExit, ~exiting, ~exiting', [Single!Next]_singleVars
  PROVE  BeforeExit'
<1> USE DEF SingleType, BeforeExit, LockIsExclusive, InLock, MadeOnce,
            CompleteOrConstructed, ThreadKnows, Single!Go, Single!Take, Single!Becomes
<1>1. ASSUME NEW t \in Threads, Single!FirstLook(t) PROVE BeforeExit'
  BY <1>1 DEF Single!FirstLook
<1>2. ASSUME NEW t \in Threads, Single!EnterLock(t) PROVE BeforeExit'
  BY <1>2 DEF Single!EnterLock, Single!Enter
<1>3. ASSUME NEW t \in Threads, Single!SecondLook(t) PROVE BeforeExit'
  BY <1>3 DEF Single!SecondLook
<1>4. ASSUME NEW t \in Threads, Single!Publish(t) PROVE BeforeExit'
  BY <1>4, NullAssumption DEF Single!Publish
<1>5. ASSUME NEW t \in Threads, Single!Complete(t) PROVE BeforeExit'
  BY <1>5 DEF Single!Complete
<1>6. ASSUME NEW t \in Threads, Single!CreateInstance(t) PROVE BeforeExit'
  BY <1>6 DEF Single!CreateInstance
<1>7. ASSUME NEW t \in Threads, Single!LeaveLock(t) PROVE BeforeExit'
  BY <1>7 DEF Single!LeaveLock, Single!Leave
<1>8. ASSUME NEW t \in Threads, Single!Return(t) PROVE BeforeExit'
  BY <1>8 DEF Single!Return
<1>9. CASE UNCHANGED singleVars
  BY <1>9 DEF singleVars
<1>10. ASSUME NEW t \in Threads,
              Single!Exit(t) \/ Single!Destroy(t) \/ Single!DestroyInstance(t)
                \/ Single!FreeLock(t) \/ Single!ClearInstance(t)
       PROVE  FALSE
  BY <1>10 DEF Single!Exit, Single!Destroy, Single!DestroyInstance, Single!FreeLock,
               Single!ClearInstance
<1> QED
  BY <1>1, <1>2, <1>3, <1>4, <1>5, <1>6, <1>7, <1>8, <1>9, <1>10 DEF Single!Next

(* The exit is for good.                                                   *)
LEMMA ExitIsFinal == exiting /\ [Single!Next]_singleVars => exiting'
BY DEF Single!Next, Single!FirstLook, Single!EnterLock, Single!SecondLook, Single!Publish,
       Single!Complete, Single!CreateInstance, Single!LeaveLock, Single!Return, Single!Exit,
       Single!Destroy, Single!DestroyInstance, Single!FreeLock, Single!ClearInstance, singleVars

LEMMA SingleNext == SingleInv /\ [Single!Next]_singleVars => SingleInv'
<1> SUFFICES ASSUME SingleInv, [Single!Next]_singleVars PROVE SingleInv'
  OBVIOUS
<1>1. SingleType'
  BY SingleTypeNext DEF SingleInv
<1>2. CASE exiting'
  BY <1>1, <1>2 DEF SingleInv
<1>3. CASE ~exiting'
  <2>1. ~exiting
    BY <1>3, ExitIsFinal
  <2> QED
    BY <1>1, <1>3, <2>1, BeforeExitNext DEF SingleInv
<1> QED
  BY <1>2, <1>3

LEMMA SingleCardinality == \A S : Single!Cardinality(S) = Cardinality(S)
BY DEF Single!Cardinality, Cardinality

LEMMA BeforeExitOneInstance == SingleInv => OneInstance
<1> SUFFICES ASSUME SingleInv, ~exiting PROVE Single!OneInstance
  BY DEF OneInstance, Single!OneInstance
<1> USE DEF SingleInv, SingleType, BeforeExit, MadeOnce, ThreadKnows
<1>1. Cardinality(Single!Made) <= 1
  <2>1. CASE Single!Made = {}
    <3>1. Cardinality({}) = 0
      BY FS_EmptySet
    <3> QED
      BY <2>1, <3>1
  <2>2. ASSUME NEW o \in Single!Made PROVE Cardinality(Single!Made) <= 1
    <3>1. Single!Made = {o}
      BY <2>2 DEF Single!Made
    <3>2. Cardinality({o}) = 1
      BY FS_Singleton
    <3> QED
      BY <3>1, <3>2
  <2> QED
    BY <2>1, <2>2
<1>2. \A t \in Threads : pc[t] = "construct" => instance_ = NULL
  OBVIOUS
<1>3. ASSUME NEW t \in Threads, pc[t] = "got"
      PROVE  mine[t] \in Single!Made /\ (t \in locked => object[mine[t]] = "complete")
  BY <1>3 DEF Single!Made
<1> QED
  BY <1>1, <1>2, <1>3, SingleCardinality DEF Single!OneInstance

(* Always: the types, and until the exit one thread in the lock, one       *)
(* object, published while its constructor runs.                           *)
THEOREM SingleInvariantHolds == Spec => []SingleInv
<1>1. Init => SingleInv
  BY SingleInit DEF Init
<1>2. SingleInv /\ [Next]_vars => SingleInv'
  BY SingleNext, SingleSteps
<1> QED
  BY <1>1, <1>2, PTL DEF Spec

(* For any set of threads: until the exit they all get one object, and     *)
(* those that came by the lock get it complete.                            *)
THEOREM OneInstanceHolds == Spec => []OneInstance
BY SingleInvariantHolds, BeforeExitOneInstance, PTL
-----------------------------------------------------------------------------
(* AsioChat: its steps, whatever the others do.                            *)
LEMMA ChatSteps == [Next]_vars => [Chat!Next]_chatVars
<1> SUFFICES ASSUME [Next]_vars PROVE Chat!Next \/ UNCHANGED chatVars
  OBVIOUS
<1>1. CASE ChatStep
  BY <1>1 DEF ChatStep
<1> QED
  BY <1>1 DEF Next, vars, Only, RefStep, LiteStep, SingleStep,
              ChatStep, EchoStep, SockStep, ProviderStep

(* The first of the messages that were written or wait, as FirstFor has it.*)
FirstOf(w, m) == IF w \o m = <<>> THEN 1 ELSE Head(w \o m)

(* What comes after the last of them.                                      *)
NextOf(w, m) == FirstOf(w, m) + Len(w) + Len(m)

(* Those written, w, and those that wait, m, are consecutive messages of a *)
(* room that has delivered p.                                              *)
Consecutive(w, m, p) ==
  /\ w \in Seq(Nat) /\ m \in Seq(Nat)
  /\ FirstOf(w, m) \in Nat \ {0}
  /\ \A k \in 1..Len(w) : w[k] = FirstOf(w, m) + k - 1
  /\ \A k \in 1..Len(m) : m[k] = FirstOf(w, m) + Len(w) + k - 1
  /\ NextOf(w, m) <= p + 1

(* r are the last messages of a room that has delivered p.                 *)
LastMessages(r, p) ==
  /\ r \in Seq(Nat)
  /\ Len(r) = IF p <= max_recent_msgs THEN p ELSE max_recent_msgs
  /\ \A k \in 1..Len(r) : r[k] = p - Len(r) + k

(* x, the writes under way for a session, fits its queue m: there is one   *)
(* at most, and it carries the queue's front.                              *)
Fits(x, m) == x = <<>> \/ (m # <<>> /\ x = <<Head(m)>>)

Fitting(x, m) == x = [s \in Sessions |-> x[s]] /\ \A s \in Sessions : Fits(x[s], m[s])

ChatInv ==
  /\ posts \in Nat /\ participants \subseteq Sessions /\ fresh \subseteq Sessions
  /\ write_msgs \in [Sessions -> Seq(Nat)] /\ written \in [Sessions -> Seq(Nat)]
  /\ Fitting(writing, write_msgs)
  /\ LastMessages(recent_msgs, posts)
  /\ \A s \in Sessions : Consecutive(written[s], write_msgs[s], posts)
  /\ \A s \in participants : NextOf(written[s], write_msgs[s]) = posts + 1
  /\ \A s \in fresh : s \notin participants /\ written[s] = <<>> /\ write_msgs[s] = <<>>
-----------------------------------------------------------------------------
(* A delivery and a completed write leave the writes fitting the queue.    *)
LEMMA DeliveryFits ==
  ASSUME NEW m \in Seq(Nat), NEW x, NEW n \in Seq(Nat), Fits(x, m)
  PROVE  Fits(IF m = <<>> /\ n # <<>> THEN Append(x, Head(n)) ELSE x, m \o n)
<1>1. CASE m = <<>>
  <2>1. x = <<>> /\ m \o n = n
    BY <1>1 DEF Fits
  <2>2. CASE n # <<>>
    BY <1>1, <2>1, <2>2 DEF Fits
  <2>3. CASE n = <<>>
    BY <2>1, <2>3 DEF Fits
  <2> QED
    BY <2>2, <2>3
<1>2. CASE m # <<>>
  <2>1. m \o n # <<>> /\ Head(m \o n) = Head(m)
    BY <1>2
  <2> QED
    BY <1>2, <2>1 DEF Fits
<1> QED
  BY <1>1, <1>2

LEMMA CompletionFits ==
  ASSUME NEW m \in Seq(Nat), NEW x, x # <<>>, Fits(x, m)
  PROVE  /\ Fits(Tail(x) \o Chat!NextWrite(Tail(m)), Tail(m))
         /\ Fits(Tail(x), m) /\ m # <<>> /\ Head(x) = Head(m)
<1>1. m # <<>> /\ x = <<Head(m)>>
  BY DEF Fits
<1>2. Tail(x) = <<>> /\ Head(x) = Head(m)
  BY <1>1
<1>3. Tail(m) \in Seq(Nat)
  BY <1>1
<1>4. CASE Tail(m) = <<>>
  BY <1>2, <1>4 DEF Fits, Chat!NextWrite
<1>5. CASE Tail(m) # <<>>
  <2>1. <<>> \o <<Head(Tail(m))>> = <<Head(Tail(m))>>
    OBVIOUS
  <2> QED
    BY <1>2, <1>5, <2>1 DEF Fits, Chat!NextWrite
<1> QED
  BY <1>1, <1>2, <1>4, <1>5 DEF Fits

(* A message is written: the same messages, one of them on the other side. *)
LEMMA MessageWritten ==
  ASSUME NEW w, NEW m, NEW p \in Nat, Consecutive(w, m, p), m # <<>>
  PROVE  /\ Consecutive(Append(w, Head(m)), Tail(m), p)
         /\ FirstOf(Append(w, Head(m)), Tail(m)) = FirstOf(w, m)
         /\ NextOf(Append(w, Head(m)), Tail(m)) = NextOf(w, m)
         /\ Head(m) = FirstOf(w, m) + Len(w)
         /\ FirstOf(w, m) + Len(w) <= p
<1> DEFINE v == Append(w, Head(m))
           n == Tail(m)
           a == FirstOf(w, m)
<1>1. w \in Seq(Nat) /\ m \in Seq(Nat) /\ a \in Nat \ {0} /\ Len(m) > 0
  BY DEF Consecutive
<1>2. v \in Seq(Nat) /\ n \in Seq(Nat) /\ Len(v) = Len(w) + 1 /\ Len(n) = Len(m) - 1
  BY <1>1
<1>3. v \o n = w \o m
  BY <1>1, SMTT(30)
<1>4. FirstOf(v, n) = a
  BY <1>3 DEF FirstOf
<1>5. NextOf(v, n) = NextOf(w, m)
  BY <1>1, <1>2, <1>4 DEF NextOf
<1>6. m[1] = a + Len(w) /\ Head(m) = m[1]
  BY <1>1 DEF Consecutive
<1>7. a + Len(w) <= p
  BY <1>1 DEF Consecutive, NextOf
<1>8. \A k \in 1..Len(v) : v[k] = a + k - 1
  BY <1>1, <1>2, <1>6 DEF Consecutive
<1>9. \A k \in 1..Len(n) : n[k] = a + Len(v) + k - 1
  <2> SUFFICES ASSUME NEW k \in 1..Len(n) PROVE n[k] = a + Len(v) + k - 1
    OBVIOUS
  <2>1. n[k] = m[k + 1] /\ k + 1 \in 1..Len(m)
    BY <1>1, <1>2
  <2>2. m[k + 1] = a + Len(w) + (k + 1) - 1
    BY <2>1 DEF Consecutive
  <2> QED
    BY <1>1, <1>2, <2>1, <2>2
<1>10. Consecutive(v, n, p)
  BY <1>1, <1>2, <1>4, <1>5, <1>8, <1>9 DEF Consecutive
<1> QED
  BY <1>4, <1>5, <1>6, <1>7, <1>10

(* A member that has the messages up to p is delivered the next.           *)
LEMMA MessageDelivered ==
  ASSUME NEW w, NEW m, NEW p \in Nat, Consecutive(w, m, p), NextOf(w, m) = p + 1
  PROVE  /\ Consecutive(w, m \o <<p + 1>>, p + 1)
         /\ FirstOf(w, m \o <<p + 1>>) = FirstOf(w, m)
         /\ NextOf(w, m \o <<p + 1>>) = (p + 1) + 1
<1> DEFINE n == m \o <<p + 1>>
           a == FirstOf(w, m)
<1>1. w \in Seq(Nat) /\ m \in Seq(Nat) /\ a \in Nat \ {0}
  BY DEF Consecutive
<1>2. n \in Seq(Nat) /\ Len(n) = Len(m) + 1 /\ n # <<>>
  BY <1>1
<1>3. a + Len(w) + Len(m) = p + 1
  BY DEF NextOf
<1>4. FirstOf(w, n) = a
  <2>1. CASE w \o m = <<>>
    <3>1. Len(w) = 0 /\ Len(m) = 0
      BY <1>1, <2>1
    <3>2. w \o n = <<p + 1>>
      BY <1>1, <3>1
    <3>3. a = 1
      BY <2>1 DEF FirstOf
    <3> QED
      BY <1>3, <3>1, <3>2, <3>3 DEF FirstOf
  <2>2. CASE w \o m # <<>>
    <3>1. w \o n = (w \o m) \o <<p + 1>>
      BY <1>1
    <3>2. w \o m \in Seq(Nat) /\ Len(w \o m) > 0
      BY <1>1, <2>2
    <3>3. Head((w \o m) \o <<p + 1>>) = Head(w \o m) /\ (w \o m) \o <<p + 1>> # <<>>
      BY <3>2
    <3> QED
      BY <2>2, <3>1, <3>3 DEF FirstOf
  <2> QED
    BY <2>1, <2>2
<1>5. NextOf(w, n) = (p + 1) + 1
  BY <1>1, <1>2, <1>3, <1>4 DEF NextOf
<1>6. \A k \in 1..Len(n) : n[k] = a + Len(w) + k - 1
  BY <1>1, <1>2, <1>3 DEF Consecutive
<1>7. \A k \in 1..Len(w) : w[k] = a + k - 1
  BY DEF Consecutive
<1>8. Consecutive(w, n, p + 1)
  <2>1. FirstOf(w, n) \in Nat \ {0} /\ NextOf(w, n) <= (p + 1) + 1
    BY <1>1, <1>4, <1>5
  <2> HIDE DEF a, n
  <2> QED
    BY <1>1, <1>2, <1>4, <1>6, <1>7, <2>1 DEF Consecutive
<1> QED
  BY <1>4, <1>5, <1>8

(* Who has a part of the first messages of a room has a part of more.      *)
LEMMA ConsecutiveOfMore ==
  ASSUME NEW w, NEW m, NEW p \in Nat, Consecutive(w, m, p)
  PROVE  Consecutive(w, m, p + 1)
<1>1. NextOf(w, m) \in Nat
  BY DEF Consecutive, NextOf
<1> QED
  BY <1>1 DEF Consecutive

(* A newcomer is delivered the last messages.                              *)
LEMMA LastDelivered ==
  ASSUME NEW r, NEW p \in Nat, LastMessages(r, p)
  PROVE  /\ Consecutive(<<>>, <<>> \o r, p)
         /\ FirstOf(<<>>, <<>> \o r) =
              IF p <= max_recent_msgs THEN 1 ELSE p - max_recent_msgs + 1
         /\ NextOf(<<>>, <<>> \o r) = p + 1
<1>1. r \in Seq(Nat) /\ <<>> \o r = r
  BY DEF LastMessages
<1>2. FirstOf(<<>>, r) = IF p <= max_recent_msgs THEN 1 ELSE p - max_recent_msgs + 1
  <2>1. CASE r = <<>>
    <3>1. p = 0
      BY <2>1, RecentAssumption DEF LastMessages
    <3> QED
      BY <1>1, <2>1, <3>1, RecentAssumption DEF FirstOf
  <2>2. CASE r # <<>>
    <3>1. Len(r) > 0 /\ Head(r) = r[1]
      BY <1>1, <2>2
    <3>2. r[1] = p - Len(r) + 1
      BY <3>1, <1>1 DEF LastMessages
    <3> QED
      BY <1>1, <2>2, <3>1, <3>2, RecentAssumption DEF FirstOf, LastMessages
  <2> QED
    BY <2>1, <2>2
<1>3. FirstOf(<<>>, r) \in Nat \ {0} /\ FirstOf(<<>>, r) + Len(r) = p + 1
  BY <1>2, RecentAssumption DEF LastMessages
<1>4. NextOf(<<>>, r) = p + 1
  BY <1>1, <1>3 DEF NextOf
<1>5. \A k \in 1..Len(r) : r[k] = FirstOf(<<>>, r) + 0 + k - 1
  <2>1. \A k \in 1..Len(r) : r[k] = p - Len(r) + k
    BY DEF LastMessages
  <2>2. Len(r) \in Nat
    BY <1>1
  <2> QED
    BY <1>3, <2>1, <2>2
<1>6. Consecutive(<<>>, r, p)
  BY <1>1, <1>3, <1>4, <1>5 DEF Consecutive
<1> QED
  BY <1>1, <1>2, <1>4, <1>6

(* chat_room::deliver keeps the last messages.                             *)
LEMMA RecentKeepsLast ==
  ASSUME NEW r, NEW p \in Nat, LastMessages(r, p)
  PROVE  LastMessages(Chat!Recent(Append(r, p + 1)), p + 1)
<1> DEFINE q == Append(r, p + 1)
<1>1. /\ r \in Seq(Nat) /\ q \in Seq(Nat) /\ Len(q) = Len(r) + 1
      /\ Len(r) = IF p <= max_recent_msgs THEN p ELSE max_recent_msgs
  BY DEF LastMessages
<1>2. \A k \in 1..Len(q) : q[k] = p - Len(r) + k
  BY <1>1, SMTT(30) DEF LastMessages
<1>3. CASE Len(q) > max_recent_msgs
  <2>1. Chat!Recent(q) = Tail(q)
    BY <1>3 DEF Chat!Recent
  <2>2. /\ Tail(q) \in Seq(Nat) /\ Len(Tail(q)) = Len(r)
        /\ \A k \in 1..Len(Tail(q)) : Tail(q)[k] = q[k + 1]
    BY <1>1
  <2>3. \A k \in 1..Len(Tail(q)) : Tail(q)[k] = p - Len(r) + (k + 1)
    <3> SUFFICES ASSUME NEW k \in 1..Len(Tail(q))
                 PROVE  Tail(q)[k] = p - Len(r) + (k + 1)
      OBVIOUS
    <3>1. k + 1 \in 1..Len(q)
      BY <1>1, <2>2
    <3> QED
      BY <1>2, <2>2, <3>1
  <2>4. Len(r) = max_recent_msgs /\ p >= max_recent_msgs
    BY <1>1, <1>3, RecentAssumption
  <2>5. \A k \in 1..Len(Tail(q)) : Tail(q)[k] = (p + 1) - Len(Tail(q)) + k
    <3> SUFFICES ASSUME NEW k \in 1..Len(Tail(q))
                 PROVE  Tail(q)[k] = (p + 1) - Len(Tail(q)) + k
      OBVIOUS
    <3>1. Tail(q)[k] = p - Len(r) + (k + 1) /\ Len(Tail(q)) = Len(r)
      BY <2>2, <2>3
    <3>2. Len(r) \in Nat /\ k \in Int
      BY <1>1
    <3>3. p - Len(r) + (k + 1) = (p + 1) - Len(r) + k
      BY <3>2
    <3> QED
      BY <3>1, <3>3
  <2>6. Len(Tail(q)) = IF p + 1 <= max_recent_msgs THEN p + 1 ELSE max_recent_msgs
    BY <2>2, <2>4, RecentAssumption
  <2> QED
    BY <2>1, <2>2, <2>5, <2>6 DEF LastMessages
<1>4. CASE ~(Len(q) > max_recent_msgs)
  <2>1. Chat!Recent(q) = q
    BY <1>4 DEF Chat!Recent
  <2>2. Len(r) = p /\ p + 1 <= max_recent_msgs
    BY <1>1, <1>4, RecentAssumption
  <2> QED
    BY <1>1, <1>2, <2>1, <2>2 DEF LastMessages
<1> QED
  BY <1>3, <1>4
-----------------------------------------------------------------------------
(* The first message that is meant for each session.                       *)
Firsts == [s \in Sessions |-> FirstOf(written[s], write_msgs[s])]

LEMMA ChatInit == Chat!Init => ChatInv
<1> SUFFICES ASSUME Chat!Init PROVE ChatInv
  OBVIOUS
<1>1. Consecutive(<<>>, <<>>, 0)
  BY DEF Consecutive, FirstOf, NextOf
<1>2. LastMessages(<<>>, 0)
  BY RecentAssumption DEF LastMessages
<1> QED
  BY <1>1, <1>2 DEF Chat!Init, ChatInv, Fitting, Fits

(* A session joins, which it does once.                                    *)
LEMMA JoinEnters ==
  ASSUME ChatInv, NEW s \in fresh, fresh' = fresh \ {s}, Chat!join(s)
  PROVE  /\ ChatInv'
         /\ s \notin participants /\ participants' = participants \union {s}
         /\ Firsts' = [Firsts EXCEPT ![s] =
              IF posts <= max_recent_msgs THEN 1 ELSE posts - max_recent_msgs + 1]
         /\ UNCHANGED <<posts, written>>
<1>1. /\ written[s] = <<>> /\ write_msgs[s] = <<>> /\ s \notin participants
      /\ s \in Sessions /\ posts \in Nat /\ recent_msgs \in Seq(Nat)
      /\ write_msgs \in [Sessions -> Seq(Nat)] /\ written \in [Sessions -> Seq(Nat)]
  BY DEF ChatInv, LastMessages
<1>2. /\ participants' = participants \union {s} /\ UNCHANGED <<posts, written, recent_msgs>>
      /\ write_msgs' = [t \in Sessions |->
           IF t \in {s} THEN write_msgs[t] \o recent_msgs ELSE write_msgs[t]]
      /\ writing' = [t \in Sessions |->
           IF t \in {s} /\ write_msgs[t] = <<>> /\ recent_msgs # <<>>
             THEN Append(writing[t], Head(recent_msgs)) ELSE writing[t]]
  BY DEF Chat!join, Chat!deliver
<1>3. /\ write_msgs'[s] = <<>> \o recent_msgs
      /\ \A t \in Sessions : t # s => write_msgs'[t] = write_msgs[t]
  BY <1>1, <1>2
<1>4. /\ Consecutive(<<>>, <<>> \o recent_msgs, posts)
      /\ FirstOf(<<>>, <<>> \o recent_msgs) =
           IF posts <= max_recent_msgs THEN 1 ELSE posts - max_recent_msgs + 1
      /\ NextOf(<<>>, <<>> \o recent_msgs) = posts + 1
  BY <1>1, LastDelivered DEF ChatInv
<1>5. /\ Consecutive(written'[s], write_msgs'[s], posts')
      /\ NextOf(written'[s], write_msgs'[s]) = posts' + 1
      /\ FirstOf(written'[s], write_msgs'[s]) =
           IF posts <= max_recent_msgs THEN 1 ELSE posts - max_recent_msgs + 1
  BY <1>1, <1>2, <1>3, <1>4
<1>6. ChatInv'
  <2>1. write_msgs' \in [Sessions -> Seq(Nat)]
    BY <1>1, <1>2
  <2>2. Fitting(writing', write_msgs')
    <3>1. ASSUME NEW t \in Sessions PROVE Fits(writing'[t], write_msgs'[t])
      <4>1. Fits(writing[t], write_msgs[t]) /\ write_msgs[t] \in Seq(Nat)
        BY <1>1 DEF ChatInv, Fitting
      <4>2. CASE t = s
        <5>1. Fits(IF write_msgs[t] = <<>> /\ recent_msgs # <<>>
                     THEN Append(writing[t], Head(recent_msgs)) ELSE writing[t],
                   write_msgs[t] \o recent_msgs)
          BY <1>1, <4>1, DeliveryFits
        <5> QED
          BY <1>2, <4>2, <5>1
      <4>3. CASE t # s
        BY <1>2, <4>1, <4>3
      <4> QED
        BY <4>2, <4>3
    <3>2. writing' = [t \in Sessions |-> writing'[t]]
      BY <1>2
    <3> QED
      BY <3>1, <3>2 DEF Fitting
  <2>3. LastMessages(recent_msgs', posts')
    BY <1>2 DEF ChatInv
  <2>4. \A t \in Sessions : Consecutive(written'[t], write_msgs'[t], posts')
    BY <1>2, <1>3, <1>5 DEF ChatInv
  <2>5. \A t \in participants' : NextOf(written'[t], write_msgs'[t]) = posts' + 1
    BY <1>2, <1>3, <1>5 DEF ChatInv
  <2>6. \A t \in fresh' : t \notin participants' /\ written'[t] = <<>> /\ write_msgs'[t] = <<>>
    BY <1>2, <1>3 DEF ChatInv
  <2>7. /\ posts' \in Nat /\ participants' \subseteq Sessions /\ fresh' \subseteq Sessions
        /\ written' \in [Sessions -> Seq(Nat)]
    BY <1>1, <1>2 DEF ChatInv
  <2> QED
    BY <2>1, <2>2, <2>3, <2>4, <2>5, <2>6, <2>7 DEF ChatInv
<1>7. Firsts' = [Firsts EXCEPT ![s] =
         IF posts <= max_recent_msgs THEN 1 ELSE posts - max_recent_msgs + 1]
  BY <1>1, <1>2, <1>3, <1>5 DEF Firsts
<1> QED
  BY <1>1, <1>2, <1>6, <1>7

(* The room delivers a message to its members.                             *)
LEMMA DeliverPosts ==
  ASSUME ChatInv, Chat!RoomDeliver, UNCHANGED fresh
  PROVE  ChatInv' /\ posts' = posts + 1 /\ Firsts' = Firsts /\ UNCHANGED <<participants, written>>
<1>1. /\ posts \in Nat /\ participants \subseteq Sessions /\ recent_msgs \in Seq(Nat)
      /\ write_msgs \in [Sessions -> Seq(Nat)] /\ written \in [Sessions -> Seq(Nat)]
  BY DEF ChatInv, LastMessages
<1>2. /\ posts' = posts + 1 /\ UNCHANGED <<participants, written>>
      /\ recent_msgs' = Chat!Recent(Append(recent_msgs, posts + 1))
      /\ write_msgs' = [t \in Sessions |->
           IF t \in participants THEN write_msgs[t] \o <<posts + 1>> ELSE write_msgs[t]]
      /\ writing' = [t \in Sessions |->
           IF t \in participants /\ write_msgs[t] = <<>> /\ <<posts + 1>> # <<>>
             THEN Append(writing[t], Head(<<posts + 1>>)) ELSE writing[t]]
  BY DEF Chat!RoomDeliver, Chat!deliver
<1>3. ASSUME NEW t \in participants
      PROVE  /\ Consecutive(written'[t], write_msgs'[t], posts')
             /\ FirstOf(written'[t], write_msgs'[t]) = FirstOf(written[t], write_msgs[t])
             /\ NextOf(written'[t], write_msgs'[t]) = posts' + 1
             /\ write_msgs'[t] # <<>>
  <2>1. t \in Sessions /\ write_msgs'[t] = write_msgs[t] \o <<posts + 1>>
    BY <1>1, <1>2
  <2>2. /\ Consecutive(written[t], write_msgs[t], posts)
        /\ NextOf(written[t], write_msgs[t]) = posts + 1
    BY <2>1 DEF ChatInv
  <2>3. /\ Consecutive(written[t], write_msgs[t] \o <<posts + 1>>, posts + 1)
        /\ FirstOf(written[t], write_msgs[t] \o <<posts + 1>>) = FirstOf(written[t], write_msgs[t])
        /\ NextOf(written[t], write_msgs[t] \o <<posts + 1>>) = (posts + 1) + 1
    BY <1>1, <2>2, MessageDelivered
  <2>4. write_msgs[t] \o <<posts + 1>> # <<>>
    <3>1. write_msgs[t] \in Seq(Nat)
      BY <1>1, <2>1
    <3> QED
      BY <1>1, <3>1
  <2> QED
    BY <1>2, <2>1, <2>3, <2>4
<1>4. ASSUME NEW t \in Sessions, t \notin participants
      PROVE  /\ write_msgs'[t] = write_msgs[t] /\ written'[t] = written[t]
             /\ Consecutive(written'[t], write_msgs'[t], posts')
  <2>1. write_msgs'[t] = write_msgs[t] /\ written'[t] = written[t]
    BY <1>2, <1>4
  <2>2. Consecutive(written[t], write_msgs[t], posts + 1)
    BY <1>1, ConsecutiveOfMore DEF ChatInv
  <2> QED
    BY <1>2, <2>1, <2>2
<1>5. LastMessages(recent_msgs', posts')
  BY <1>1, <1>2, RecentKeepsLast DEF ChatInv
<1>6. write_msgs' \in [Sessions -> Seq(Nat)]
  BY <1>1, <1>2
<1>7. Fitting(writing', write_msgs')
  <2>1. ASSUME NEW t \in Sessions PROVE Fits(writing'[t], write_msgs'[t])
    <3>1. /\ Fits(writing[t], write_msgs[t]) /\ write_msgs[t] \in Seq(Nat)
          /\ <<posts + 1>> \in Seq(Nat)
      BY <1>1 DEF ChatInv, Fitting
    <3>2. CASE t \in participants
      <4>1. Fits(IF write_msgs[t] = <<>> /\ <<posts + 1>> # <<>>
                   THEN Append(writing[t], Head(<<posts + 1>>)) ELSE writing[t],
                 write_msgs[t] \o <<posts + 1>>)
        BY <3>1, DeliveryFits
      <4> QED
        BY <1>2, <3>2, <4>1
    <3>3. CASE t \notin participants
      BY <1>2, <3>1, <3>3
    <3> QED
      BY <3>2, <3>3
  <2>2. writing' = [t \in Sessions |-> writing'[t]]
    BY <1>2
  <2> QED
    BY <2>1, <2>2 DEF Fitting
<1>8. \A t \in Sessions : Consecutive(written'[t], write_msgs'[t], posts')
  BY <1>3, <1>4
<1>9. \A t \in fresh' : t \notin participants' /\ written'[t] = <<>> /\ write_msgs'[t] = <<>>
  BY <1>2, <1>4 DEF ChatInv
<1>10. /\ posts' \in Nat /\ participants' \subseteq Sessions /\ fresh' \subseteq Sessions
       /\ written' \in [Sessions -> Seq(Nat)]
       /\ \A t \in participants' : NextOf(written'[t], write_msgs'[t]) = posts' + 1
  <2>1. fresh \subseteq Sessions
    BY DEF ChatInv
  <2>2. \A t \in participants : NextOf(written'[t], write_msgs'[t]) = posts' + 1
    BY <1>3
  <2>3. posts' \in Nat
    BY <1>1, <1>2
  <2>4. UNCHANGED <<fresh, participants, written>>
    BY <1>2
  <2> QED
    BY <1>1, <2>1, <2>2, <2>3, <2>4
<1>11. ChatInv'
  BY <1>5, <1>6, <1>7, <1>8, <1>9, <1>10 DEF ChatInv
<1>12. Firsts' = Firsts
  BY <1>3, <1>4 DEF Firsts
<1> QED
  BY <1>2, <1>11, <1>12

(* A message is written to a session's socket.                             *)
LEMMA WriteSees ==
  ASSUME ChatInv, NEW s \in Sessions, writing[s] # <<>>,
         UNCHANGED <<fresh, recent_msgs, posts, participants>>,
         written' = [written EXCEPT ![s] = Append(@, Head(writing[s]))],
         write_msgs' = [write_msgs EXCEPT ![s] = Tail(@)],
         writing' = [writing EXCEPT ![s] = Tail(@) \o Chat!NextWrite(write_msgs'[s])]
  PROVE  /\ ChatInv' /\ Firsts' = Firsts
         /\ Firsts[s] + Len(written[s]) <= posts
         /\ written' = [written EXCEPT ![s] = Append(@, Firsts[s] + Len(@))]
<1>1. /\ posts \in Nat /\ write_msgs[s] # <<>> /\ s \notin fresh
      /\ write_msgs \in [Sessions -> Seq(Nat)] /\ written \in [Sessions -> Seq(Nat)]
      /\ Head(writing[s]) = Head(write_msgs[s])
      /\ Fits(Tail(writing[s]) \o Chat!NextWrite(Tail(write_msgs[s])), Tail(write_msgs[s]))
  <2>1. /\ posts \in Nat /\ write_msgs[s] \in Seq(Nat) /\ Fits(writing[s], write_msgs[s])
        /\ write_msgs \in [Sessions -> Seq(Nat)] /\ written \in [Sessions -> Seq(Nat)]
    BY DEF ChatInv, Fitting
  <2>2. /\ write_msgs[s] # <<>> /\ Head(writing[s]) = Head(write_msgs[s])
        /\ Fits(Tail(writing[s]) \o Chat!NextWrite(Tail(write_msgs[s])), Tail(write_msgs[s]))
    BY <2>1, CompletionFits
  <2>3. s \notin fresh
    BY <2>2 DEF ChatInv
  <2> QED
    BY <2>1, <2>2, <2>3
<1>2. /\ written'[s] = Append(written[s], Head(write_msgs[s]))
      /\ write_msgs'[s] = Tail(write_msgs[s])
      /\ \A t \in Sessions : t # s => written'[t] = written[t] /\ write_msgs'[t] = write_msgs[t]
  BY <1>1
<1>3. /\ Consecutive(written'[s], write_msgs'[s], posts)
      /\ FirstOf(written'[s], write_msgs'[s]) = FirstOf(written[s], write_msgs[s])
      /\ NextOf(written'[s], write_msgs'[s]) = NextOf(written[s], write_msgs[s])
      /\ Head(write_msgs[s]) = FirstOf(written[s], write_msgs[s]) + Len(written[s])
      /\ FirstOf(written[s], write_msgs[s]) + Len(written[s]) <= posts
  BY <1>1, <1>2, MessageWritten DEF ChatInv
<1>4. /\ write_msgs' \in [Sessions -> Seq(Nat)] /\ written' \in [Sessions -> Seq(Nat)]
  BY <1>1
<1>5. Fitting(writing', write_msgs')
  <2>1. writing = [t \in Sessions |-> writing[t]]
    BY DEF ChatInv, Fitting
  <2>2. /\ writing'[s] = Tail(writing[s]) \o Chat!NextWrite(Tail(write_msgs[s]))
        /\ \A t \in Sessions : t # s => writing'[t] = writing[t]
        /\ writing' = [t \in Sessions |-> writing'[t]]
    <3> DEFINE x == Tail(writing[s]) \o Chat!NextWrite(write_msgs'[s])
    <3>1. writing' = [writing EXCEPT ![s] = x]
      OBVIOUS
    <3>2. x = Tail(writing[s]) \o Chat!NextWrite(Tail(write_msgs[s]))
      BY <1>2, Zenon
    <3> HIDE DEF x
    <3>3. writing' = [t \in Sessions |-> IF t = s THEN x ELSE writing[t]]
      BY <2>1, <3>1
    <3>4. writing'[s] = x /\ \A t \in Sessions : t # s => writing'[t] = writing[t]
      BY <3>3
    <3>5. writing' = [t \in Sessions |-> writing'[t]]
      BY <3>3
    <3> QED
      BY <3>2, <3>4, <3>5
  <2>3. \A t \in Sessions : Fits(writing[t], write_msgs[t])
    BY DEF ChatInv, Fitting
  <2>4. \A t \in Sessions : Fits(writing'[t], write_msgs'[t])
    BY <1>1, <1>2, <2>2, <2>3
  <2> QED
    BY <2>2, <2>4 DEF Fitting
<1>6. \A t \in Sessions : Consecutive(written'[t], write_msgs'[t], posts')
  BY <1>2, <1>3 DEF ChatInv
<1>7. \A t \in participants' : NextOf(written'[t], write_msgs'[t]) = posts' + 1
  BY <1>2, <1>3 DEF ChatInv
<1>8. \A t \in fresh' : t \notin participants' /\ written'[t] = <<>> /\ write_msgs'[t] = <<>>
  BY <1>1, <1>2 DEF ChatInv
<1>9. ChatInv'
  BY <1>4, <1>5, <1>6, <1>7, <1>8 DEF ChatInv
<1>10. Firsts' = Firsts
  BY <1>2, <1>3 DEF Firsts
<1>11. Firsts[s] = FirstOf(written[s], write_msgs[s])
  BY <1>1 DEF Firsts
<1> QED
  BY <1>1, <1>3, <1>9, <1>10, <1>11

(* A session leaves, or nothing happens but that one is dropped.           *)
LEMMA LeaveLeaves ==
  ASSUME ChatInv, fresh' \subseteq fresh, participants' \subseteq participants,
         Fitting(writing', write_msgs), UNCHANGED <<recent_msgs, posts, write_msgs, written>>
  PROVE  ChatInv' /\ Firsts' = Firsts
BY DEF ChatInv, Firsts
-----------------------------------------------------------------------------
(* A step of the room, as the chat server's variables show it.             *)
RoomStep ==
  \/ posts' = posts + 1 /\ UNCHANGED <<participants, Firsts, written>>
  \/ \E s \in Sessions :
       \/ /\ s \notin participants /\ participants' = participants \union {s}
          /\ Firsts' = [Firsts EXCEPT ![s] =
               IF posts <= max_recent_msgs THEN 1 ELSE posts - max_recent_msgs + 1]
          /\ UNCHANGED <<posts, written>>
       \/ /\ Firsts[s] + Len(written[s]) <= posts
          /\ written' = [written EXCEPT ![s] = Append(@, Firsts[s] + Len(@))]
          /\ UNCHANGED <<posts, participants, Firsts>>
       \/ /\ s \in participants /\ participants' = participants \ {s}
          /\ UNCHANGED <<posts, Firsts, written>>
  \/ UNCHANGED <<posts, participants, Firsts, written>>

(* A handler's call of leave, or of nothing.                               *)
LEMMA LeaveStep ==
  ASSUME ChatInv, NEW s \in Sessions, fresh' \subseteq fresh,
         Fitting(writing', write_msgs),
         participants' \in {participants, participants \ {s}},
         UNCHANGED <<recent_msgs, posts, write_msgs, written>>
  PROVE  ChatInv' /\ RoomStep
<1>1. ChatInv' /\ Firsts' = Firsts
  BY LeaveLeaves
<1>2. \/ participants' = participants
      \/ s \in participants /\ participants' = participants \ {s}
  OBVIOUS
<1> QED
  BY <1>1, <1>2 DEF RoomStep

LEMMA ChatStepIsRoomStep ==
  ASSUME ChatInv, [Chat!Next]_chatVars
  PROVE  ChatInv' /\ RoomStep
<1> USE DEF Chat!roomVars, Chat!writeVars, Chat!netVars
<1>0. Fitting(writing, write_msgs)
  BY DEF ChatInv
<1>1. ASSUME NEW s \in Sessions, NEW error \in BOOLEAN, Chat!handle_accept(s, error)
      PROVE  ChatInv' /\ RoomStep
  <2>1. CASE error
    BY <1>0, <1>1, <2>1, LeaveStep DEF Chat!handle_accept
  <2>2. CASE ~error
    <3>1. s \in fresh /\ fresh' = fresh \ {s} /\ Chat!join(s)
      BY <1>1, <2>2 DEF Chat!handle_accept, Chat!start
    <3> QED
      BY <3>1, JoinEnters DEF RoomStep
  <2> QED
    BY <2>1, <2>2
<1>2. ASSUME NEW s \in Sessions, NEW error \in BOOLEAN, NEW header \in Headers,
             Chat!handle_read_header(s, header, error)
      PROVE  ChatInv' /\ RoomStep
  BY <1>0, <1>2, LeaveStep DEF Chat!handle_read_header, Chat!leave
<1>3. ASSUME NEW s \in Sessions, NEW error \in BOOLEAN, Chat!handle_read_body(s, error)
      PROVE  ChatInv' /\ RoomStep
  <2>1. CASE error
    BY <1>0, <1>3, <2>1, LeaveStep DEF Chat!handle_read_body, Chat!leave
  <2>2. CASE ~error
    <3>1. Chat!RoomDeliver /\ UNCHANGED fresh
      BY <1>3, <2>2 DEF Chat!handle_read_body
    <3> QED
      BY <3>1, DeliverPosts DEF RoomStep
  <2> QED
    BY <2>1, <2>2
<1>4. ASSUME NEW s \in Sessions, NEW error \in BOOLEAN, Chat!handle_write(s, error)
      PROVE  ChatInv' /\ RoomStep
  <2>1. CASE error
    <3>1. /\ writing[s] # <<>> /\ writing' = [writing EXCEPT ![s] = Tail(@)]
          /\ participants' = participants \ {s}
          /\ UNCHANGED <<fresh, recent_msgs, posts, write_msgs, written>>
      BY <1>4, <2>1 DEF Chat!handle_write
    <3>2. Fits(Tail(writing[s]), write_msgs[s])
      BY <3>1, CompletionFits DEF ChatInv, Fitting
    <3>3. Fitting(writing', write_msgs)
      BY <1>0, <3>1, <3>2 DEF Fitting
    <3> QED
      BY <3>1, <3>3, LeaveStep
  <2>2. CASE ~error
    <3>1. /\ writing[s] # <<>> /\ UNCHANGED <<fresh, recent_msgs, posts, participants>>
          /\ written' = [written EXCEPT ![s] = Append(@, Head(writing[s]))]
          /\ write_msgs' = [write_msgs EXCEPT ![s] = Tail(@)]
          /\ writing' = [writing EXCEPT ![s] = Tail(@) \o Chat!NextWrite(write_msgs'[s])]
      BY <1>4, <2>2 DEF Chat!handle_write
    <3>2. /\ ChatInv' /\ Firsts' = Firsts /\ Firsts[s] + Len(written[s]) <= posts
          /\ written' = [written EXCEPT ![s] = Append(@, Firsts[s] + Len(@))]
      BY <3>1, WriteSees
    <3> QED
      BY <3>1, <3>2 DEF RoomStep
  <2> QED
    BY <2>1, <2>2
<1>5. CASE Chat!Quit \/ Chat!RunReturns \/ UNCHANGED chatVars
  <2>1. UNCHANGED <<recent_msgs, posts, participants, fresh, write_msgs, writing, written>>
    BY <1>5 DEF Chat!Quit, Chat!RunReturns, chatVars
  <2>2. ChatInv' /\ Firsts' = Firsts
    BY <1>0, <2>1, LeaveLeaves
  <2> QED
    BY <2>1, <2>2 DEF RoomStep
<1> QED
  BY <1>1, <1>2, <1>3, <1>4, <1>5 DEF Chat!Next

LEMMA ChatInvNext == ChatInv /\ [Next]_vars => ChatInv'
BY ChatSteps, ChatStepIsRoomStep

(* Always: the room's recent messages are its last, and what was written   *)
(* and waits for a session are consecutive messages, up to the last if it  *)
(* is a member.                                                            *)
THEOREM ChatInvariantHolds == Spec => []ChatInv
<1>1. Init => ChatInv
  BY ChatInit DEF Init
<1> QED
  BY <1>1, ChatInvNext, PTL DEF Spec

(* RoomStep is the next-state relation of Broadcast, refined.              *)
LEMMA RoomStepIsStep == RoomStep => [Chat!Room!Next]_(Chat!Room!vars)
<1>1. \A s : Chat!FirstFor(s) = FirstOf(written[s], write_msgs[s])
  BY DEF Chat!FirstFor, FirstOf
<1>2. [s \in Sessions |-> Chat!FirstFor(s)] = Firsts
  BY <1>1 DEF Firsts
<1>3. [s \in Sessions |-> Chat!FirstFor(s)]' = Firsts'
  BY DEF Firsts, Chat!FirstFor, FirstOf
<1> SUFFICES ASSUME RoomStep
             PROVE  Chat!Room!Next \/ UNCHANGED Chat!Room!vars
  OBVIOUS
<1>4. CASE posts' = posts + 1 /\ UNCHANGED <<participants, Firsts, written>>
  BY <1>2, <1>3, <1>4 DEF Chat!Room!Next, Chat!Room!Post
<1> QED
  BY <1>2, <1>3, <1>4 DEF RoomStep, Chat!Room!Next, Chat!Room!Enter, Chat!Room!See,
                      Chat!Room!Leave, Chat!Room!vars

(* For any sessions and any number of recent messages but 0, the chat room *)
(* is a broadcast: each session is written the room's messages without a   *)
(* gap, in order and once.                                                 *)
THEOREM ChatImplementsBroadcast == Spec => ImplementsBroadcast
<1>1. Init => Chat!Room!Init
  BY DEF Init, Chat!Init, Chat!Room!Init, Chat!FirstFor
<1>2. ChatInv /\ [Next]_vars => [Chat!Room!Next]_(Chat!Room!vars)
  BY ChatSteps, ChatStepIsRoomStep, RoomStepIsStep
<1> QED
  BY <1>1, <1>2, ChatInvariantHolds, PTL
     DEF Spec, ImplementsBroadcast, Chat!ImplementsBroadcast, Chat!Room!Spec
-----------------------------------------------------------------------------
(* AuthSock: its steps, whatever the others do.                            *)
LEMMA SockSteps == [Next]_vars => [Sock!Next]_sockVars
<1> SUFFICES ASSUME [Next]_vars PROVE Sock!Next \/ UNCHANGED sockVars
  OBVIOUS
<1>1. CASE SockStep
  BY <1>1 DEF SockStep
<1> QED
  BY <1>1 DEF Next, vars, Only, RefStep, LiteStep, SingleStep,
              ChatStep, EchoStep, SockStep, ProviderStep

LEMMA SetInduction ==
  ASSUME NEW S, 0 \in S, \A n \in Nat : n \in S => n + 1 \in S
  PROVE  Nat \subseteq S
<1> SUFFICES ASSUME Nat \ S # {} PROVE FALSE
  OBVIOUS
<1>1. PICK x \in Nat \ S : \A y \in Nat \ S : ~(<<y, x>> \in OpToRel(<, Nat))
  BY NatLessThanWellFounded, WFMin
<1>2. x # 0 /\ x - 1 \in Nat /\ x - 1 + 1 = x
  OBVIOUS
<1>3. <<x - 1, x>> \in OpToRel(<, Nat)
  BY <1>2 DEF OpToRel
<1> QED
  BY <1>1, <1>2, <1>3

(* The recursion of FlattenSeq, up to the n-th sequence; f[i] is the first *)
(* i of them in one.                                                       *)
Flattened(f, q, n) == [i \in 1..n |-> IF i = 1 THEN q[i] ELSE f[i - 1] \o q[i]]

Flattening(f, q, n) ==
  /\ f[1] = q[1]
  /\ \A i \in 2..n : f[i] = f[i - 1] \o q[i]

LEMMA FlattenedStep ==
  ASSUME NEW q, NEW n \in Nat, NEW f, f = Flattened(f, q, n)
  PROVE  \E g : g = Flattened(g, q, n + 1)
<1> DEFINE g == [i \in 1..(n + 1) |->
                   IF i # n + 1 THEN f[i] ELSE IF i = 1 THEN q[i] ELSE f[i - 1] \o q[i]]
<1>1. ASSUME NEW i \in 1..(n + 1)
      PROVE  g[i] = IF i = 1 THEN q[i] ELSE g[i - 1] \o q[i]
  <2>1. CASE i # n + 1
    <3>1. g[i] = f[i] /\ i \in 1..n
      BY <2>1
    <3>2. f[i] = IF i = 1 THEN q[i] ELSE f[i - 1] \o q[i]
      BY <3>1 DEF Flattened
    <3>3. i # 1 => g[i - 1] = f[i - 1]
      BY <2>1
    <3> HIDE DEF g
    <3> QED
      BY <3>1, <3>2, <3>3
  <2>2. CASE i = n + 1
    <3>1. i # 1 => g[i - 1] = f[i - 1]
      BY <2>2
    <3>2. g[i] = IF i = 1 THEN q[i] ELSE f[i - 1] \o q[i]
      BY <2>2
    <3> HIDE DEF g
    <3> QED
      BY <3>1, <3>2
  <2> QED
    BY <2>1, <2>2
<1>2. g = [i \in 1..(n + 1) |-> g[i]]
  OBVIOUS
<1> HIDE DEF g
<1>3. g = Flattened(g, q, n + 1)
  BY <1>1, <1>2 DEF Flattened
<1> QED
  BY <1>3

LEMMA FlattenSteps ==
  ASSUME NEW q, Len(q) \in Nat \ {0}
  PROVE  \E f : Flattening(f, q, Len(q)) /\ Sock!FlattenSeq(q) = f[Len(q)]
<1> DEFINE S == {n \in Nat : \E f : f = Flattened(f, q, n)}
<1>1. 0 \in S
  <2> DEFINE f == [i \in 1..0 |-> 0]
  <2>1. f = Flattened(f, q, 0)
    BY DEF Flattened
  <2> QED
    BY <2>1
<1>2. \A n \in Nat : n \in S => n + 1 \in S
  BY FlattenedStep
<1>3. Len(q) \in S
  <2> HIDE DEF S
  <2> QED
    BY <1>1, <1>2, SetInduction
<1> DEFINE flatten == CHOOSE g : g = Flattened(g, q, Len(q))
<1>4. flatten = Flattened(flatten, q, Len(q))
  BY <1>3
<1>5. Sock!FlattenSeq(q) = flatten[Len(q)]
  BY DEF Sock!FlattenSeq, Flattened
<1> HIDE DEF flatten
<1>6. flatten[1] = q[1]
  BY <1>4 DEF Flattened
<1>7. ASSUME NEW i \in 2..Len(q) PROVE flatten[i] = flatten[i - 1] \o q[i]
  <2>1. i \in 1..Len(q) /\ i # 1
    OBVIOUS
  <2> QED
    BY <1>4, <2>1 DEF Flattened
<1>8. Flattening(flatten, q, Len(q))
  BY <1>6, <1>7 DEF Flattening
<1> QED
  BY <1>5, <1>8

(* The recursion depends on the sequences alone.                           *)
LEMMA FlatteningSame ==
  ASSUME NEW T, NEW n \in Nat \ {0}, NEW q, NEW p, NEW f, NEW g,
         Flattening(f, q, n), Flattening(g, p, n),
         \A i \in 1..n : q[i] \in Seq(T) /\ p[i] = q[i]
  PROVE  f[n] \in Seq(T) /\ g[n] = f[n]
<1> DEFINE S == {m \in Nat : m + 1 <= n => f[m + 1] \in Seq(T) /\ g[m + 1] = f[m + 1]}
<1>1. 0 \in S
  BY DEF Flattening
<1>2. ASSUME NEW m \in Nat, m \in S PROVE m + 1 \in S
  <2> SUFFICES ASSUME NEW i \in 2..n, i = m + 2 PROVE f[i] \in Seq(T) /\ g[i] = f[i]
    OBVIOUS
  <2>1. i - 1 = m + 1 /\ i \in 1..n
    OBVIOUS
  <2>2. f[i - 1] \in Seq(T) /\ g[i - 1] = f[i - 1]
    BY <1>2, <2>1
  <2>3. f[i] = f[i - 1] \o q[i] /\ g[i] = g[i - 1] \o p[i]
    BY DEF Flattening
  <2>4. q[i] \in Seq(T) /\ p[i] = q[i]
    BY <2>1
  <2>5. f[i - 1] \o q[i] \in Seq(T)
    BY <2>2, <2>4, ConcatProperties
  <2> QED
    BY <2>2, <2>3, <2>4, <2>5, Zenon
<1>3. n - 1 \in S
  <2> HIDE DEF S
  <2> QED
    BY <1>1, <1>2, SetInduction
<1> QED
  BY <1>3

LEMMA Associative ==
  \A T : \A a, b, c \in Seq(T) : (a \o b) \o c = a \o (b \o c)
BY ConcatAssociative

(* Without the first sequence, a, it goes through the same, less a.        *)
LessFront(f, g, a, T, i) == g[i] \in Seq(T) /\ f[i + 1] = a \o g[i]

Fronts(f, q, g, p, n, T) ==
  /\ n \in Nat \ {0} /\ q[1] \in Seq(T)
  /\ Flattening(f, q, n + 1) /\ Flattening(g, p, n)
  /\ \A i \in 1..n : p[i] \in Seq(T) /\ q[i + 1] = p[i]

LEMMA FlatteningFront ==
  ASSUME NEW T, NEW n, NEW q, NEW p, NEW f, NEW g, Fronts(f, q, g, p, n, T)
  PROVE  LessFront(f, g, q[1], T, n)
<1> USE DEF Fronts
<1>1. PICK a \in Seq(T) : a = q[1]
  OBVIOUS
<1> DEFINE S == {m \in Nat : m + 1 <= n => LessFront(f, g, a, T, m + 1)}
<1>2. LessFront(f, g, a, T, 1)
  <2>1. g[1] = p[1] /\ q[2] = p[1] /\ p[1] \in Seq(T)
    <3>1. 1 \in 1..n /\ 1 + 1 = 2
      OBVIOUS
    <3> QED
      BY <3>1 DEF Flattening
  <2>2. f[2] = f[1] \o q[2] /\ f[1] = a
    <3>1. 2 \in 2..(n + 1) /\ 2 - 1 = 1
      OBVIOUS
    <3> QED
      BY <1>1, <3>1 DEF Flattening
  <2>3. f[2] = a \o g[1] /\ g[1] \in Seq(T)
    BY <2>1, <2>2, Zenon
  <2>4. 1 + 1 = 2
    OBVIOUS
  <2> QED
    BY <2>3, <2>4, Zenon DEF LessFront
<1>3. ASSUME NEW m \in Nat, m \in S PROVE m + 1 \in S
  <2> SUFFICES ASSUME NEW i \in 2..n, i = m + 2 PROVE LessFront(f, g, a, T, i)
    <3>1. (m + 1) + 1 = m + 2 /\ ((m + 1) + 1 <= n => m + 2 \in 2..n)
      OBVIOUS
    <3> QED
      BY <3>1
  <2>1. i - 1 = m + 1 /\ m + 1 <= n /\ i \in 1..n /\ i + 1 \in 2..(n + 1)
    OBVIOUS
  <2>2. (i - 1) + 1 = i /\ (i + 1) - 1 = i
    OBVIOUS
  <2>3. LessFront(f, g, a, T, i - 1)
    BY <1>3, <2>1
  <2>4. PICK b : b = g[i - 1]
    OBVIOUS
  <2>5. b \in Seq(T) /\ f[i] = a \o b
    BY <2>2, <2>3, <2>4, Zenon DEF LessFront
  <2>6. f[i + 1] = f[i] \o q[i + 1]
    <3>1. f[i + 1] = f[(i + 1) - 1] \o q[i + 1]
      BY <2>1 DEF Flattening
    <3> QED
      BY <2>2, <3>1, Zenon
  <2>7. g[i] = b \o p[i]
    <3>1. g[i] = g[i - 1] \o p[i]
      BY DEF Flattening
    <3> QED
      BY <2>4, <3>1, Zenon
  <2>8. PICK c : c = p[i]
    OBVIOUS
  <2>9. c \in Seq(T) /\ q[i + 1] = c
    BY <2>1, <2>8
  <2>10. b \o c \in Seq(T)
    BY <2>5, <2>9, ConcatProperties
  <2>11. (a \o b) \o c = a \o (b \o c)
    <3>1. a \in Seq(T) /\ b \in Seq(T) /\ c \in Seq(T)
      BY <1>1, <2>5, <2>9
    <3> QED
      BY <3>1, Associative, SMTT(30)
  <2>12. g[i] \in Seq(T) /\ f[i + 1] = a \o g[i]
    BY <2>5, <2>6, <2>7, <2>8, <2>9, <2>10, <2>11, Zenon
  <2> QED
    BY <2>12, Zenon DEF LessFront
<1>4. n - 1 \in S
  <2>1. 0 \in S
    BY <1>2
  <2> HIDE DEF S
  <2> QED
    BY <1>3, <2>1, SetInduction
<1>5. LessFront(f, g, a, T, n)
  <2>1. (n - 1) + 1 = n
    OBVIOUS
  <2> QED
    BY <1>4, <2>1
<1> QED
  BY <1>1, <1>5, Zenon

LEMMA FlattenEmpty == Sock!FlattenSeq(<<>>) = <<>>
BY DEF Sock!FlattenSeq

(* FlattenSeq, from the back and from the front.                           *)
LEMMA FlattenAppend ==
  ASSUME NEW T, NEW q \in Seq(Seq(T)), NEW x \in Seq(T)
  PROVE  /\ Sock!FlattenSeq(q) \in Seq(T)
         /\ Sock!FlattenSeq(Append(q, x)) = Sock!FlattenSeq(q) \o x
<1>1. PICK p : p = Append(q, x)
  OBVIOUS
<1>2. PICK n : n = Len(q)
  OBVIOUS
<1>3. /\ Len(p) = n + 1 /\ n \in Nat /\ p[n + 1] = x
      /\ \A i \in 1..n : p[i] = q[i] /\ q[i] \in Seq(T)
  BY <1>1, <1>2, AppendProperties, LenProperties, ElementOfSeq
<1>4. PICK g : Flattening(g, p, n + 1) /\ Sock!FlattenSeq(p) = g[n + 1]
  BY <1>3, FlattenSteps
<1>5. CASE n = 0
  <2>1. q = <<>>
    BY <1>2, <1>5, EmptySeq
  <2>2. Sock!FlattenSeq(p) = x
    BY <1>3, <1>4, <1>5 DEF Flattening
  <2>3. <<>> \o x = x /\ <<>> \in Seq(T)
    BY ConcatEmptySeq, EmptySeq
  <2> QED
    BY <1>1, <2>1, <2>2, <2>3, FlattenEmpty, Zenon
<1>6. CASE n # 0
  <2>1. PICK f : Flattening(f, q, n) /\ Sock!FlattenSeq(q) = f[n]
    BY <1>2, <1>3, <1>6, FlattenSteps
  <2>2. Flattening(g, p, n) /\ g[n + 1] = g[n] \o p[n + 1]
    <3>1. n + 1 \in 2..(n + 1) /\ (n + 1) - 1 = n /\ 2..n \subseteq 2..(n + 1)
      BY <1>3, <1>6
    <3> QED
      BY <1>4, <3>1 DEF Flattening
  <2>3. f[n] \in Seq(T) /\ g[n] = f[n]
    BY <1>3, <1>6, <2>1, <2>2, FlatteningSame, SMTT(30)
  <2> QED
    BY <1>1, <1>3, <1>4, <2>1, <2>2, <2>3, Zenon
<1> QED
  BY <1>5, <1>6

LEMMA FlattenFront ==
  ASSUME NEW T, NEW q \in Seq(Seq(T)), q # <<>>
  PROVE  Sock!FlattenSeq(q) = Head(q) \o Sock!FlattenSeq(Tail(q))
<1>1. PICK p : p = Tail(q)
  OBVIOUS
<1>2. PICK n : n = Len(p)
  OBVIOUS
<1>3. /\ p \in Seq(Seq(T)) /\ Len(q) = n + 1 /\ n \in Nat
      /\ \A i \in 1..n : p[i] = q[i + 1]
  <2>1. p \in Seq(Seq(T)) /\ n = Len(q) - 1 /\ \A i \in 1..n : p[i] = q[i + 1]
    BY <1>1, <1>2, HeadTailProperties
  <2>2. Len(q) \in Nat /\ n \in Nat
    BY <1>2, <2>1, LenProperties
  <2> QED
    BY <2>1, <2>2
<1>4. Head(q) = q[1] /\ q[1] \in Seq(T) /\ \A i \in 1..n : p[i] \in Seq(T)
  <2>1. 1 \in 1..Len(q)
    BY <1>3
  <2>2. Head(q) = q[1]
    OBVIOUS
  <2>3. q[1] \in Seq(T)
    BY <2>1, ElementOfSeq
  <2>4. \A i \in 1..n : p[i] \in Seq(T)
    BY <1>2, <1>3, ElementOfSeq
  <2> QED
    BY <2>2, <2>3, <2>4
<1>5. PICK f : Flattening(f, q, n + 1) /\ Sock!FlattenSeq(q) = f[n + 1]
  BY <1>3, FlattenSteps
<1>6. CASE n = 0
  <2>1. p = <<>>
    BY <1>2, <1>3, <1>6, EmptySeq
  <2>2. Sock!FlattenSeq(q) = q[1]
    BY <1>5, <1>6 DEF Flattening
  <2>3. q[1] \o <<>> = q[1]
    BY <1>4, ConcatEmptySeq
  <2> QED
    BY <1>1, <1>4, <2>1, <2>2, <2>3, FlattenEmpty, Zenon
<1>7. CASE n # 0
  <2>1. PICK g : Flattening(g, p, n) /\ Sock!FlattenSeq(p) = g[n]
    BY <1>2, <1>3, <1>7, FlattenSteps
  <2>2. f[n + 1] = q[1] \o g[n]
    <3>1. n \in Nat \ {0}
      BY <1>3, <1>7
    <3>2. \A i \in 1..n : p[i] \in Seq(T) /\ q[i + 1] = p[i]
      BY <1>3, <1>4, Zenon
    <3>3. Flattening(f, q, n + 1) /\ Flattening(g, p, n) /\ q[1] \in Seq(T)
      BY <1>4, <1>5, <2>1
    <3>4. Fronts(f, q, g, p, n, T)
      BY <3>1, <3>2, <3>3, Zenon DEF Fronts
    <3>5. LessFront(f, g, q[1], T, n)
      BY <3>4, FlatteningFront, Zenon
    <3> QED
      BY <3>5, Zenon DEF LessFront
  <2> QED
    BY <1>1, <1>4, <1>5, <2>1, <2>2, Zenon
<1> QED
  BY <1>3, <1>6, <1>7

(* What is left of a sequence after its first k elements.                  *)
Rest(s, k) == SubSeq(s, k + 1, Len(s))

LEMMA RestEnds ==
  ASSUME NEW T, NEW a \in Seq(T)
  PROVE  /\ Rest(a, 0) = a /\ Rest(a, Len(a)) = <<>>
         /\ \A k \in Nat : Rest(a, k) \in Seq(T)
BY DEF Rest

LEMMA RestElements ==
  ASSUME NEW T, NEW a \in Seq(T), NEW k \in 0..Len(a)
  PROVE  /\ Rest(a, k) \in Seq(T) /\ Len(Rest(a, k)) = Len(a) - k
         /\ \A i \in 1..(Len(a) - k) : Rest(a, k)[i] = a[k + i]
BY DEF Rest

LEMMA RestConcat ==
  ASSUME NEW T, NEW a \in Seq(T), NEW b \in Seq(T), NEW k \in 0..Len(a)
  PROVE  Rest(a \o b, k) = Rest(a, k) \o b
<1> DEFINE ab == a \o b
           left == Rest(ab, k)
           r == Rest(a, k)
           right == r \o b
<1>1. /\ ab \in Seq(T) /\ Len(ab) = Len(a) + Len(b)
      /\ \A i \in 1..Len(ab) : ab[i] = IF i <= Len(a) THEN a[i] ELSE b[i - Len(a)]
  BY ConcatProperties
<1>2. r \in Seq(T) /\ Len(r) = Len(a) - k /\ \A i \in 1..(Len(a) - k) : r[i] = a[k + i]
  BY RestElements
<1> HIDE DEF ab, r
<1>3. /\ right \in Seq(T) /\ Len(right) = Len(r) + Len(b)
      /\ \A i \in 1..Len(right) : right[i] = IF i <= Len(r) THEN r[i] ELSE b[i - Len(r)]
  <2>1. r \in Seq(T)
    BY <1>2
  <2> QED
    BY <2>1, ConcatProperties
<1>4. k \in 0..Len(ab) /\ Len(a) \in Nat /\ Len(b) \in Nat
  BY <1>1, LenProperties
<1>5. /\ left \in Seq(T) /\ Len(left) = Len(ab) - k
      /\ \A i \in 1..(Len(ab) - k) : left[i] = ab[k + i]
  BY <1>1, <1>4, RestElements
<1> HIDE DEF left, right
<1>6. Len(left) = Len(right)
  BY <1>1, <1>2, <1>3, <1>4, <1>5
<1>7. ASSUME NEW i \in 1..Len(left) PROVE left[i] = right[i]
  <2>1. left[i] = ab[k + i] /\ k + i \in 1..Len(ab) /\ i \in 1..Len(right)
    BY <1>1, <1>4, <1>5, <1>6
  <2>2. right[i] = IF i <= Len(a) - k THEN r[i] ELSE b[i - (Len(a) - k)]
    BY <1>2, <1>3, <2>1
  <2>3. i <= Len(a) - k => r[i] = a[k + i]
    BY <1>2, <1>4
  <2>4. ab[k + i] = IF k + i <= Len(a) THEN a[k + i] ELSE b[k + i - Len(a)]
    BY <1>1, <2>1
  <2>5. k + i - Len(a) = i - (Len(a) - k) /\ (i <= Len(a) - k <=> k + i <= Len(a))
    BY <1>4
  <2> QED
    BY <2>1, <2>2, <2>3, <2>4, <2>5
<1>8. left = right
  BY <1>3, <1>5, <1>6, <1>7, SeqEqual
<1> QED
  BY <1>8 DEF left, right, ab, r

LEMMA RestSent ==
  ASSUME NEW T, NEW a \in Seq(T), NEW k \in Nat, NEW n \in Nat, k + n <= Len(a)
  PROVE  SubSeq(a, k + 1, k + n) \o Rest(a, k + n) = Rest(a, k)
<1> DEFINE m == k + 1
           j == k + n
<1>1. /\ m \in 1..(Len(a) + 1) /\ j \in (m - 1)..Len(a) /\ Len(a) \in j..Len(a)
  BY LenProperties
<1> HIDE DEF m, j
<1>2. SubSeq(a, m, j) \o SubSeq(a, j + 1, Len(a)) = SubSeq(a, m, Len(a))
  BY <1>1, ConcatAdjacentSubSeq
<1> QED
  BY <1>2, Zenon DEF Rest, m, j

(* What is still to be sent of the queue q, k bytes of whose front are.    *)
PendingOf(q, k) == Rest(Sock!FlattenSeq(q), k)

LEMMA FlattenFrontType ==
  ASSUME NEW T, NEW q \in Seq(Seq(T)), q # <<>>
  PROVE  /\ Head(q) \in Seq(T) /\ Tail(q) \in Seq(Seq(T))
         /\ Sock!FlattenSeq(q) \in Seq(T) /\ Sock!FlattenSeq(Tail(q)) \in Seq(T)
<1>1. <<>> \in Seq(T)
  BY EmptySeq
<1>2. Head(q) \in Seq(T) /\ Tail(q) \in Seq(Seq(T))
  BY HeadTailProperties
<1>3. \A p \in Seq(Seq(T)) : Sock!FlattenSeq(p) \in Seq(T)
  BY <1>1, FlattenAppend
<1> QED
  BY <1>2, <1>3

(* After n more bytes.                                                     *)
Splits(q, k, n) ==
  SubSeq(Head(q), k + 1, k + n) \o PendingOf(q, k + n) = PendingOf(q, k)

LEMMA PendingSent ==
  ASSUME NEW T, NEW q \in Seq(Seq(T)), q # <<>>,
         NEW k \in Nat, NEW n \in Nat, k + n <= Len(Head(q))
  PROVE  /\ SubSeq(Head(q), k + 1, k + n) \in Seq(T)
         /\ PendingOf(q, k + n) \in Seq(T)
         /\ Splits(q, k, n)
         /\ k + n = Len(Head(q)) => PendingOf(Tail(q), 0) = PendingOf(q, k + n)
<1>1. PICK h \in Seq(T) : h = Head(q)
  BY FlattenFrontType
<1>2. PICK t \in Seq(T) : t = Sock!FlattenSeq(Tail(q))
  BY FlattenFrontType
<1>3. PICK j \in Nat : j = k + n
  OBVIOUS
<1>4. Sock!FlattenSeq(q) = h \o t
  BY <1>1, <1>2, FlattenFront, Zenon
<1>5. j <= Len(h) /\ k \in 0..Len(h) /\ j \in 0..Len(h)
  BY <1>1, <1>3, LenProperties
<1>6. PICK s : s = SubSeq(h, k + 1, j)
  OBVIOUS
<1>7. s \in Seq(T)
  BY <1>5, <1>6
<1>8. PICK r \in Seq(T) : r = Rest(h, j)
  BY RestEnds
<1>9. s \o r = Rest(h, k)
  BY <1>3, <1>5, <1>6, <1>8, RestSent
<1>10. PendingOf(q, k) = Rest(h, k) \o t
  BY <1>4, <1>5, RestConcat, Zenon DEF PendingOf
<1>11. PendingOf(q, j) = r \o t
  BY <1>4, <1>5, <1>8, RestConcat, Zenon DEF PendingOf
<1>12. (s \o r) \o t = s \o (r \o t) /\ r \o t \in Seq(T)
  <2>1. s \in Seq(T) /\ r \in Seq(T) /\ t \in Seq(T)
    BY <1>2, <1>7, <1>8
  <2>2. (s \o r) \o t = s \o (r \o t)
    BY <2>1, ConcatAssociative, SMTT(30)
  <2>3. r \o t \in Seq(T)
    BY <2>1, ConcatProperties
  <2> QED
    BY <2>2, <2>3, Zenon
<1>13. j = Len(h) => PendingOf(Tail(q), 0) = r \o t
  <2>1. PendingOf(Tail(q), 0) = t
    BY <1>2, RestEnds DEF PendingOf
  <2>2. j = Len(h) => r = <<>>
    BY <1>8, RestEnds
  <2>3. <<>> \o t = t
    BY ConcatEmptySeq
  <2> QED
    BY <2>1, <2>2, <2>3, Zenon
<1> QED
  BY <1>1, <1>3, <1>6, <1>7, <1>9, <1>10, <1>11, <1>12, <1>13, Zenon DEF Splits

LEMMA PendingAppend ==
  ASSUME NEW T, NEW q \in Seq(Seq(T)), q # <<>>, NEW x \in Seq(T),
         NEW k \in Nat, k <= Len(Head(q))
  PROVE  /\ PendingOf(q, k) \in Seq(T)
         /\ PendingOf(Append(q, x), k) = PendingOf(q, k) \o x
         /\ Head(Append(q, x)) = Head(q)
<1>1. PICK h \in Seq(T) : h = Head(q)
  BY FlattenFrontType
<1>2. PICK t \in Seq(T) : t = Sock!FlattenSeq(Tail(q))
  BY FlattenFrontType
<1>3. PICK all \in Seq(T) : all = Sock!FlattenSeq(q)
  BY FlattenFrontType
<1>4. all = h \o t
  BY <1>1, <1>2, <1>3, FlattenFront, Zenon
<1>5. k \in 0..Len(all)
  BY <1>1, <1>4, LenProperties
<1>6. Sock!FlattenSeq(Append(q, x)) = all \o x
  BY <1>3, FlattenAppend, Zenon
<1>7. PendingOf(Append(q, x), k) = Rest(all, k) \o x
  BY <1>5, <1>6, RestConcat, Zenon DEF PendingOf
<1>8. PendingOf(q, k) = Rest(all, k) /\ Rest(all, k) \in Seq(T)
  BY <1>3, RestEnds DEF PendingOf
<1>9. Head(Append(q, x)) = Head(q)
  BY HeadTailAppend
<1> QED
  BY <1>7, <1>8, <1>9, Zenon

LEMMA PendingOne ==
  ASSUME NEW T, NEW x \in Seq(T)
  PROVE  PendingOf(<<x>>, 0) = x /\ PendingOf(<<>>, 0) = <<>>
<1>1. <<>> \in Seq(Seq(T)) /\ <<x>> = Append(<<>>, x) /\ <<>> \in Seq(T)
  BY EmptySeq
<1>2. Sock!FlattenSeq(<<x>>) = <<>> \o x
  BY <1>1, FlattenEmpty, FlattenAppend, Zenon
<1>3. <<>> \o x = x
  BY ConcatEmptySeq
<1>4. Rest(x, 0) = x /\ Rest(<<>>, 0) = <<>>
  BY <1>1, RestEnds
<1> QED
  BY <1>2, <1>3, <1>4, FlattenEmpty, Zenon DEF PendingOf

Bytes == Nat \X Nat

SockTypes ==
  /\ SendBufferQueue \in Seq(Seq(Bytes)) /\ iSendBufferOffset \in Nat
  /\ accepted \in Seq(Bytes) /\ wire \in Seq(Bytes)
  /\ calls \in Nat /\ torn \in BOOLEAN

(* Where the network thread is and what the socket is.  Nothing is queued  *)
(* before there is a connection, and nothing is left once the queue was    *)
(* cleared.                                                                *)
SockFlush ==
  /\ hSocket \in {"invalid", "connecting", "connected"}
  /\ flushing \in {"look", "front"} => hSocket = "connected"
  /\ flushing = "front" => SendBufferQueue # <<>>
  /\ flushing = "disconnect" => hSocket = "connecting"
  /\ flushing = "clear" => hSocket = "invalid"
  /\ hSocket = "connecting" => SendBufferQueue = <<>>
  /\ hSocket = "invalid" /\ flushing # "clear" => SendBufferQueue = <<>>

(* The bytes, until a message is torn.                                     *)
SockStream ==
  ~torn =>
    /\ SendBufferQueue = <<>> => iSendBufferOffset = 0
    /\ SendBufferQueue # <<>> => iSendBufferOffset <= Len(Head(SendBufferQueue))
    /\ hSocket = "connecting" => wire = <<>> /\ accepted = <<>>
    /\ hSocket = "connected" =>
         wire \o PendingOf(SendBufferQueue, iSendBufferOffset) = accepted

SockInvariant == SockTypes /\ SockFlush /\ SockStream

LEMMA SockInit == Init => SockInvariant
<1> SUFFICES ASSUME Sock!Init PROVE SockInvariant
  BY DEF Init
<1>1. SockTypes
  BY EmptySeq DEF Sock!Init, SockTypes
<1>2. SockFlush /\ SockStream
  BY DEF Sock!Init, SockFlush, SockStream
<1> QED
  BY <1>1, <1>2 DEF SockInvariant

LEMMA SockMessage ==
  ASSUME NEW m \in Nat, NEW n \in Lengths
  PROVE  /\ n \in Nat
         /\ Sock!Message(m, n) \in Seq(Bytes) /\ Len(Sock!Message(m, n)) = n
         /\ \A k : Sock!Queued(Sock!Message(m, n), k) \in Seq(Bytes)
         /\ Sock!Queued(Sock!Message(m, n), 0) = Sock!Message(m, n)
<1>1. n \in Nat
  BY LengthsAssumption
<1>2. PICK msg : msg = Sock!Message(m, n)
  OBVIOUS
<1>3. msg \in [1..n -> Bytes] /\ msg = [i \in 1..n |-> msg[i]]
  BY <1>1, <1>2 DEF Sock!Message, Bytes
<1>4. msg \in Seq(Bytes) /\ Len(msg) = n /\ DOMAIN msg = 1..n
  BY <1>1, <1>3
<1>5. ASSUME NEW k PROVE Sock!Queued(msg, k) \in Seq(Bytes)
  <2>1. Sock!Garbage \in Bytes
    BY DEF Sock!Garbage, Bytes
  <2>2. Sock!Queued(msg, k) \in [1..n -> Bytes]
    BY <1>3, <1>4, <2>1 DEF Sock!Queued
  <2> QED
    BY <1>1, <2>2
<1>6. Sock!Queued(msg, 0) = msg
  <2>1. \A i \in 1..n : i <= n - 0
    BY <1>1
  <2>2. Sock!Queued(msg, 0) = [i \in 1..n |-> msg[i]]
    BY <1>4, <2>1 DEF Sock!Queued
  <2> QED
    BY <1>3, <2>2
<1> QED
  BY <1>1, <1>2, <1>4, <1>5, <1>6, Zenon

LEMMA SockQuiet ==
  ASSUME SockInvariant,
         \/ \E works \in BOOLEAN : Sock!ConnectToServer(works)
         \/ Sock!Connected
         \/ Sock!Disconnect \/ Sock!ClearSendBufferQueue
         \/ Sock!SendFromBufferQueue \/ Sock!Look
         \/ UNCHANGED sockVars
  PROVE  SockInvariant'
<1> USE DEF SockInvariant
<1>1. <<>> \in Seq(Bytes) /\ <<>> \in Seq(Seq(Bytes))
  BY EmptySeq
<1>2. PendingOf(<<>>, 0) = <<>> /\ <<>> \o <<>> = <<>>
  BY <1>1, PendingOne, ConcatEmptySeq
<1>3. ASSUME NEW works \in BOOLEAN, Sock!ConnectToServer(works) PROVE SockInvariant'
  <2>1. SockTypes'
    BY <1>1, <1>3 DEF SockTypes, Sock!ConnectToServer
  <2>2. SockFlush'
    BY <1>3 DEF SockFlush, Sock!ConnectToServer
  <2>3. SockStream'
    BY <1>3 DEF SockFlush, SockStream, Sock!ConnectToServer
  <2> QED
    BY <2>1, <2>2, <2>3
<1>4. CASE Sock!Connected
  <2>1. SockTypes'
    BY <1>4 DEF SockTypes, Sock!Connected
  <2>2. SockFlush'
    BY <1>4 DEF SockFlush, Sock!Connected
  <2>3. SockStream'
    BY <1>2, <1>4 DEF SockFlush, SockStream, Sock!Connected
  <2> QED
    BY <2>1, <2>2, <2>3
<1>5. CASE Sock!Disconnect
  <2>1. SockTypes'
    BY <1>5 DEF SockTypes, Sock!Disconnect
  <2>2. SockFlush'
    BY <1>5 DEF SockFlush, Sock!Disconnect
  <2>3. SockStream'
    BY <1>5 DEF SockStream, Sock!Disconnect
  <2> QED
    BY <2>1, <2>2, <2>3
<1>6. CASE Sock!ClearSendBufferQueue
  <2>1. SockTypes'
    BY <1>1, <1>6 DEF SockTypes, Sock!ClearSendBufferQueue
  <2>2. SockFlush'
    BY <1>6 DEF SockFlush, Sock!ClearSendBufferQueue
  <2>3. SockStream'
    BY <1>6 DEF SockFlush, SockStream, Sock!ClearSendBufferQueue
  <2> QED
    BY <2>1, <2>2, <2>3
<1>7. CASE Sock!SendFromBufferQueue \/ Sock!Look \/ UNCHANGED sockVars
  <2>1. UNCHANGED <<hSocket, SendBufferQueue, iSendBufferOffset, calls, accepted, wire, torn>>
    BY <1>7 DEF Sock!SendFromBufferQueue, Sock!Look, sockVars
  <2>2. SockTypes'
    BY <2>1 DEF SockTypes
  <2>3. SockFlush'
    BY <1>7, <2>1 DEF SockFlush, Sock!SendFromBufferQueue, Sock!Look, sockVars
  <2>4. SockStream'
    BY <2>1 DEF SockStream
  <2> QED
    BY <2>2, <2>3, <2>4
<1> QED
  BY <1>3, <1>4, <1>5, <1>6, <1>7

LEMMA SockSendMsg ==
  ASSUME SockInvariant, NEW n \in Lengths, Sock!SendMsg(n)
  PROVE  SockInvariant'
<1> USE DEF SockInvariant
<1>1. PICK msg : msg = Sock!Message(calls + 1, n)
  OBVIOUS
<1>2. /\ n \in Nat /\ msg \in Seq(Bytes) /\ Len(msg) = n
      /\ \A k : Sock!Queued(msg, k) \in Seq(Bytes)
      /\ Sock!Queued(msg, 0) = msg
  <2>1. calls + 1 \in Nat
    BY DEF SockTypes
  <2> QED
    BY <1>1, <2>1, SockMessage, Zenon
<1>3. /\ calls' = calls + 1
      /\ UNCHANGED <<hSocket, iSendBufferOffset, flushing>>
  BY DEF Sock!SendMsg
<1>4. CASE /\ SendBufferQueue = <<>>
           /\ \E sent \in Sock!SendFromBuffer(n) :
                /\ wire' = wire \o SubSeq(msg, 1, sent)
                /\ accepted' = IF sent = -1 THEN accepted ELSE accepted \o msg
                /\ SendBufferQueue' =
                     IF sent \in {-1, n} THEN <<>> ELSE <<Sock!Queued(msg, sent)>>
                /\ torn' = (torn \/ sent \in 1..(n - 1))
  <2>1. PICK sent \in Sock!SendFromBuffer(n) :
          /\ wire' = wire \o SubSeq(msg, 1, sent)
          /\ accepted' = IF sent = -1 THEN accepted ELSE accepted \o msg
          /\ SendBufferQueue' =
               IF sent \in {-1, n} THEN <<>> ELSE <<Sock!Queued(msg, sent)>>
          /\ torn' = (torn \/ sent \in 1..(n - 1))
    BY <1>4
  <2>2. sent \in -1..n /\ (sent # -1 => hSocket = "connected")
    BY <1>2, <2>1 DEF Sock!SendFromBuffer
  <2>3. PICK s \in Seq(Bytes) : s = SubSeq(msg, 1, sent)
    <3>1. sent \in Int /\ \A i \in 1..sent : msg[i] \in Bytes
      <4>1. \A i \in 1..sent : i \in 1..Len(msg)
        BY <1>2, <2>2
      <4> QED
        BY <1>2, <2>2, <4>1, ElementOfSeq
    <3>2. SubSeq(msg, 1, sent) \in Seq(Bytes)
      BY <3>1, SubSeqProperties
    <3> QED
      BY <3>2
  <2>4. PICK x \in Seq(Bytes) : x = Sock!Queued(msg, sent)
    BY <1>2
  <2>5. wire' = wire \o s /\ wire \o s \in Seq(Bytes) /\ accepted \o msg \in Seq(Bytes)
    <3>1. wire' = wire \o s
      BY <2>1, <2>3
    <3>2. wire \in Seq(Bytes) /\ accepted \in Seq(Bytes)
      BY DEF SockTypes
    <3> QED
      BY <1>2, <3>1, <3>2, ConcatProperties
  <2>6. SendBufferQueue' = <<>> \/ SendBufferQueue' = <<x>>
    BY <2>1, <2>4
  <2>7. <<x>> \in Seq(Seq(Bytes)) /\ <<>> \in Seq(Seq(Bytes))
    BY EmptySeq
  <2>8. SockTypes'
    <3>1. SendBufferQueue' \in Seq(Seq(Bytes))
      BY <2>6, <2>7, Zenon
    <3>2. accepted' \in Seq(Bytes) /\ wire' \in Seq(Bytes)
      BY <2>1, <2>5 DEF SockTypes
    <3>3. calls' \in Nat /\ iSendBufferOffset' \in Nat /\ torn' \in BOOLEAN
      BY <1>3, <2>1 DEF SockTypes
    <3> QED
      BY <3>1, <3>2, <3>3 DEF SockTypes
  <2>9. SockFlush'
    <3>1. sent = -1 => SendBufferQueue' = <<>>
      BY <2>1
    <3> QED
      BY <1>3, <1>4, <2>2, <3>1 DEF SockFlush
  <2>10. SockStream'
    <3> SUFFICES ASSUME ~torn' PROVE SockStream'
      BY DEF SockStream
    <3>1. ~torn /\ sent \in {-1, 0, n}
      <4>1. ~torn /\ ~(sent \in 1..(n - 1))
        BY <2>1
      <4> QED
        BY <1>2, <2>2, <4>1
    <3>2. iSendBufferOffset = 0 /\ iSendBufferOffset' = 0
      BY <1>3, <1>4, <3>1 DEF SockStream
    <3>3. wire \in Seq(Bytes) /\ accepted \in Seq(Bytes)
      BY DEF SockTypes
    <3>4. hSocket = "connected" => wire = accepted
      <4>1. PendingOf(<<>>, 0) = <<>>
        BY <1>2, PendingOne
      <4>2. wire \o <<>> = wire
        BY <3>3, ConcatEmptySeq
      <4> QED
        BY <1>4, <3>1, <3>2, <4>1, <4>2 DEF SockStream
    <3>5. CASE sent = -1
      <4>1. s = <<>> /\ wire \o <<>> = wire
        BY <2>3, <3>3, <3>5
      <4>2. UNCHANGED <<wire, accepted, SendBufferQueue>> /\ ~torn
        <5>1. wire' = wire
          BY <2>5, <4>1, Zenon
        <5>2. accepted' = accepted /\ SendBufferQueue' = <<>> /\ ~torn
          BY <2>1, <3>1, <3>5
        <5> QED
          BY <1>4, <5>1, <5>2
      <4> QED
        BY <1>3, <4>2 DEF SockStream
    <3>6. CASE sent # -1 /\ sent = n
      <4>1. s = msg
        BY <1>2, <2>3, <3>6
      <4>2. SendBufferQueue' = <<>> /\ accepted' = accepted \o msg /\ wire' = accepted'
        BY <2>1, <2>2, <2>5, <3>4, <3>6, <4>1
      <4>3. PendingOf(<<>>, 0) = <<>> /\ wire' \o <<>> = wire'
        BY <1>2, <2>5, PendingOne, ConcatEmptySeq
      <4> QED
        BY <1>3, <2>2, <3>2, <3>6, <4>2, <4>3 DEF SockStream
    <3>7. CASE sent = 0 /\ sent # n
      <4>1. s = <<>> /\ wire \o <<>> = wire /\ x = msg
        BY <1>2, <2>3, <2>4, <3>3, <3>7
      <4>2. SendBufferQueue' = <<msg>> /\ accepted' = accepted \o msg /\ wire' = accepted
        BY <2>1, <2>2, <2>4, <2>5, <3>4, <3>7, <4>1
      <4>3. PendingOf(<<msg>>, 0) = msg
        BY <1>2, PendingOne
      <4>4. Head(<<msg>>) = msg /\ <<msg>> # <<>>
        OBVIOUS
      <4>5. hSocket' = "connected"
        BY <1>3, <2>2, <3>7
      <4>6. wire' \o PendingOf(SendBufferQueue', iSendBufferOffset') = accepted'
        <5>1. PendingOf(SendBufferQueue', iSendBufferOffset') = msg
          BY <3>2, <4>2, <4>3, Zenon
        <5> QED
          BY <4>2, <5>1, Zenon
      <4>7. iSendBufferOffset' <= Len(Head(SendBufferQueue')) /\ SendBufferQueue' # <<>>
        <5>1. Head(SendBufferQueue') = msg /\ SendBufferQueue' # <<>>
          BY <4>2, <4>4, Zenon
        <5> QED
          BY <1>2, <3>2, <5>1
      <4> QED
        BY <4>5, <4>6, <4>7 DEF SockStream
    <3> QED
      BY <3>1, <3>5, <3>6, <3>7
  <2> QED
    BY <2>8, <2>9, <2>10
<1>5. CASE /\ SendBufferQueue # <<>>
           /\ SendBufferQueue' = Append(SendBufferQueue, Sock!Queued(msg, 0))
           /\ accepted' = accepted \o msg
           /\ UNCHANGED <<wire, torn>>
  <2>1. SendBufferQueue' = Append(SendBufferQueue, msg)
    BY <1>2, <1>5
  <2>2. SendBufferQueue' \in Seq(Seq(Bytes)) /\ SendBufferQueue' # <<>>
    <3>1. PICK q \in Seq(Seq(Bytes)) : q = SendBufferQueue
      BY DEF SockTypes
    <3>2. Append(q, msg) \in Seq(Seq(Bytes)) /\ Append(q, msg) # <<>>
      BY <1>2, AppendProperties
    <3> QED
      BY <2>1, <3>1, <3>2, Zenon
  <2>3. SockTypes'
    <3>1. accepted' \in Seq(Bytes)
      BY <1>2, <1>5, ConcatProperties DEF SockTypes
    <3> QED
      BY <1>3, <1>5, <2>2, <3>1 DEF SockTypes
  <2>4. SockFlush'
    BY <1>3, <1>5, <2>2 DEF SockFlush
  <2>5. SockStream'
    <3> SUFFICES ASSUME ~torn PROVE SockStream'
      BY <1>5 DEF SockStream
    <3>1. PICK q \in Seq(Seq(Bytes)) : q = SendBufferQueue
      BY DEF SockTypes
    <3>2. PICK k \in Nat : k = iSendBufferOffset
      BY DEF SockTypes
    <3>3. q # <<>> /\ k <= Len(Head(q))
      BY <1>5, <3>1, <3>2 DEF SockStream
    <3>4. PICK pending \in Seq(Bytes) : pending = PendingOf(q, k)
      BY <3>3, <1>2, PendingAppend
    <3>5. PendingOf(Append(q, msg), k) = pending \o msg /\ Head(Append(q, msg)) = Head(q)
      BY <1>2, <3>3, <3>4, PendingAppend
    <3>6. (wire \o pending) \o msg = wire \o (pending \o msg)
      <4>1. wire \in Seq(Bytes)
        BY DEF SockTypes
      <4> QED
        BY <1>2, <4>1
    <3>7. hSocket # "connecting"
      BY <1>5 DEF SockFlush
    <3>8. hSocket = "connected" => wire \o pending = accepted
      BY <1>5, <3>1, <3>2, <3>4 DEF SockStream
    <3>9. hSocket' = "connected" =>
            wire' \o PendingOf(SendBufferQueue', iSendBufferOffset') = accepted'
      BY <1>3, <1>5, <2>1, <3>1, <3>2, <3>5, <3>6, <3>8
    <3>10. iSendBufferOffset' <= Len(Head(SendBufferQueue'))
      BY <1>3, <2>1, <3>1, <3>2, <3>3, <3>5
    <3> QED
      BY <1>3, <2>2, <3>7, <3>9, <3>10 DEF SockStream
  <2> QED
    BY <2>3, <2>4, <2>5
<1> QED
  BY <1>1, <1>4, <1>5 DEF Sock!SendMsg

LEMMA SockSendFront ==
  ASSUME SockInvariant, Sock!SendFront
  PROVE  SockInvariant'
<1> USE DEF SockInvariant
<1>1. PICK q \in Seq(Seq(Bytes)) : q = SendBufferQueue
  BY DEF SockTypes
<1>2. PICK k \in Nat : k = iSendBufferOffset
  BY DEF SockTypes
<1>3. q # <<>> /\ hSocket = "connected"
  BY <1>1 DEF SockFlush, Sock!SendFront
<1>4. PICK h \in Seq(Bytes) : h = Head(q)
  BY <1>3, FlattenFrontType
<1>5. PICK t \in Seq(Seq(Bytes)) : t = Tail(q)
  BY <1>3, FlattenFrontType
<1>6. UNCHANGED <<hSocket, calls, accepted, torn>>
  BY DEF Sock!SendFront
<1>7. PICK sent \in Sock!SendFromBuffer(Len(h) - k) :
        /\ wire' = wire \o SubSeq(h, k + 1, k + sent)
        /\ \/ /\ sent = Len(h) - k /\ sent # -1
              /\ SendBufferQueue' = t /\ iSendBufferOffset' = 0
              /\ flushing' = "look"
           \/ /\ sent \in 0..(Len(h) - k - 1)
              /\ iSendBufferOffset' = k + sent
              /\ flushing' = "idle" /\ SendBufferQueue' = q
           \/ /\ sent = -1
              /\ flushing' = "idle" /\ SendBufferQueue' = q /\ iSendBufferOffset' = k
  BY <1>1, <1>2, <1>4, <1>5 DEF Sock!SendFront
<1>8. Len(h) \in Nat /\ (sent = -1 \/ (sent \in Nat /\ k + sent <= Len(h)))
  <2>1. Len(h) \in Nat
    BY LenProperties
  <2> QED
    BY <1>7, <2>1 DEF Sock!SendFromBuffer
<1>9. PICK s \in Seq(Bytes) : s = SubSeq(h, k + 1, k + sent)
  <2>1. CASE sent = -1
    <3>1. SubSeq(h, k + 1, k + sent) = <<>>
      BY <2>1, SubSeqEmpty
    <3> QED
      BY <3>1, EmptySeq
  <2>2. CASE sent \in Nat /\ k + sent <= Len(h)
    <3>1. SubSeq(h, k + 1, k + sent) \in Seq(Bytes)
      BY <1>3, <1>4, <2>2, PendingSent
    <3> QED
      BY <3>1
  <2> QED
    BY <1>8, <2>1, <2>2
<1>10. wire' = wire \o s /\ wire \in Seq(Bytes) /\ wire' \in Seq(Bytes)
  <2>1. wire' = wire \o s
    BY <1>7, <1>9
  <2>2. wire \in Seq(Bytes)
    BY DEF SockTypes
  <2> QED
    BY <2>1, <2>2, ConcatProperties
<1>11. SockTypes'
  <2>1. SendBufferQueue' \in Seq(Seq(Bytes)) /\ iSendBufferOffset' \in Nat
    BY <1>7, <1>8
  <2> QED
    BY <1>6, <1>10, <2>1 DEF SockTypes
<1>12. SockFlush'
  BY <1>3, <1>6, <1>7 DEF SockFlush
<1>13. SockStream'
  <2> SUFFICES ASSUME ~torn PROVE SockStream'
    BY <1>6 DEF SockStream
  <2>1. k <= Len(h) /\ wire \o PendingOf(q, k) = accepted
    BY <1>1, <1>2, <1>3, <1>4 DEF SockStream
  <2>2. SUFFICES
          /\ wire' \o PendingOf(SendBufferQueue', iSendBufferOffset') = accepted
          /\ SendBufferQueue' = <<>> => iSendBufferOffset' = 0
          /\ SendBufferQueue' # <<>> => iSendBufferOffset' <= Len(Head(SendBufferQueue'))
    BY <1>3, <1>6 DEF SockStream
  <2>3. CASE sent = -1
    <3>1. s = <<>>
      BY <1>9, <2>3, SubSeqEmpty
    <3>2. wire' = wire
      BY <1>10, <3>1, ConcatEmptySeq, Zenon
    <3>3. SendBufferQueue' = q /\ iSendBufferOffset' = k
      BY <1>7, <1>8, <2>3
    <3> QED
      BY <1>3, <1>4, <2>1, <3>2, <3>3
  <2>4. CASE sent \in Nat /\ k + sent <= Len(h)
    <3>1. PICK j \in Nat : j = k + sent
      BY <2>4
    <3>2. PICK rest \in Seq(Bytes) : rest = PendingOf(q, j)
      BY <1>3, <1>4, <2>4, <3>1, PendingSent
    <3>3. s \o rest = PendingOf(q, k)
      <4>1. k + sent <= Len(Head(q))
        BY <1>4, <2>4
      <4>2. Splits(q, k, sent)
        BY <1>3, <2>4, <4>1, PendingSent
      <4> QED
        BY <1>4, <1>9, <3>1, <3>2, <4>2, Zenon DEF Splits
    <3>4. j = Len(h) => PendingOf(t, 0) = rest
      BY <1>3, <1>4, <1>5, <2>4, <3>1, <3>2, PendingSent
    <3>5. wire' \o rest = accepted
      <4>1. (wire \o s) \o rest = wire \o (s \o rest)
        BY <1>10
      <4> QED
        BY <1>10, <2>1, <3>3, <4>1, Zenon
    <3>6. \/ SendBufferQueue' = t /\ iSendBufferOffset' = 0 /\ j = Len(h)
          \/ SendBufferQueue' = q /\ iSendBufferOffset' = j
      BY <1>7, <1>8, <2>4, <3>1
    <3>7. t # <<>> => 0 <= Len(Head(t))
      BY <1>5, FlattenFrontType, LenProperties
    <3> QED
      BY <1>3, <1>4, <2>4, <3>1, <3>2, <3>4, <3>5, <3>6, <3>7
  <2> QED
    BY <1>8, <2>3, <2>4
<1> QED
  BY <1>11, <1>12, <1>13

LEMMA SockNext == SockInvariant /\ [Next]_vars => SockInvariant'
<1> SUFFICES ASSUME SockInvariant, Sock!Next \/ UNCHANGED sockVars
             PROVE  SockInvariant'
  BY SockSteps
<1> QED
  BY SockQuiet, SockSendMsg, SockSendFront DEF Sock!Next

(* The types, the network thread's place and the stream, together          *)
(* inductive (AuthSock).                                                   *)
THEOREM SockInvariantHolds == Spec => []SockInvariant
BY SockInit, SockNext, PTL DEF Spec

(* Whatever the sends accept and however the network thread's flushes,     *)
(* its disconnections and the callers interleave, what is on the wire and  *)
(* what is queued are together, in order, what was accepted, until a       *)
(* message is torn; and the front that the flush uses is there.            *)
THEOREM StreamInOrderHolds == Spec => []StreamInOrder
<1>1. SockInvariant => StreamInOrder
  <2> SUFFICES ASSUME SockInvariant PROVE StreamInOrder
    OBVIOUS
  <2>1. Sock!Pending = PendingOf(SendBufferQueue, iSendBufferOffset)
    BY DEF Sock!Pending, PendingOf, Rest
  <2> QED
    BY <2>1 DEF SockInvariant, SockFlush, SockStream, StreamInOrder, Sock!StreamInOrder
<1> QED
  BY <1>1, SockInvariantHolds, PTL
-----------------------------------------------------------------------------
(* AuthProvider: its steps, whatever the others do.                        *)
LEMMA ProviderSteps == [Next]_vars => [Provider!Next]_providerVars
<1> SUFFICES ASSUME [Next]_vars PROVE Provider!Next \/ UNCHANGED providerVars
  OBVIOUS
<1>1. CASE ProviderStep
  BY <1>1 DEF ProviderStep
<1> QED
  BY <1>1 DEF Next, vars, Only, RefStep, LiteStep, SingleStep,
              ChatStep, EchoStep, SockStep, ProviderStep

(* A communicator that may be tried has no socket.                         *)
ProviderInv ==
  /\ eState \in [Provider!Communicators -> {"terminate", "not_connected", "connecting", "ready"}]
  /\ socket \in [Provider!Communicators -> {"invalid", "open"}]
  /\ connections \in [Provider!Communicators -> Nat]
  /\ \A c \in Provider!Communicators : eState[c] = "not_connected" => socket[c] = "invalid"

LEMMA ProviderInit == Init => ProviderInv
BY DEF Init, Provider!Init, ProviderInv

(* What a step does of what ConnectsClosedSockets says.                    *)
ProviderConnects ==
  \A c \in Provider!Communicators : connections'[c] # connections[c] => socket[c] = "invalid"

LEMMA ProviderStepConnects ==
  ASSUME ProviderInv, Provider!Next
  PROVE  ProviderInv' /\ ProviderConnects
<1> USE DEF ProviderInv, ProviderConnects
<1>1. CASE Provider!doCreateThread \/ Provider!SetWorking \/ Provider!SetTerminate
           \/ Provider!WaitForTerminate \/ Provider!DoWork \/ Provider!Wait
  BY <1>1 DEF Provider!doCreateThread, Provider!SetWorking, Provider!SetTerminate,
              Provider!WaitForTerminate, Provider!DoWork, Provider!Wait, Provider!commVars
<1>2. ASSUME NEW works, Provider!TryConnect(works) PROVE ProviderInv' /\ ProviderConnects
  BY <1>2 DEF Provider!TryConnect, Provider!Unconnected
<1>3. ASSUME NEW enumerated, NEW error, Provider!ProcessSocketEvents(enumerated, error)
      PROVE  ProviderInv' /\ ProviderConnects
  <2>1. UNCHANGED connections
    BY <1>3 DEF Provider!ProcessSocketEvents
  <2>2. /\ eState' = eState \/ eState' = [eState EXCEPT ![evtIdx] = "ready"]
        /\ socket' = socket \/ socket' = [socket EXCEPT ![evtIdx] = "invalid"]
    BY <1>3 DEF Provider!ProcessSocketEvents, Provider!DisconnectFromServer
  <2> QED
    BY <2>1, <2>2
<1>4. ASSUME NEW c, NEW event, Provider!NetworkEvent(c, event)
      PROVE  ProviderInv' /\ ProviderConnects
  BY <1>4 DEF Provider!NetworkEvent
<1> QED
  BY <1>1, <1>2, <1>3, <1>4 DEF Provider!Next

(* The types of the communicators and which of them has no socket.         *)
THEOREM ProviderInvariantHolds == Spec => []ProviderInv
<1>1. ProviderInv /\ [Next]_vars => ProviderInv'
  <2>1. ASSUME ProviderInv, UNCHANGED providerVars PROVE ProviderInv'
    BY <2>1 DEF ProviderInv, providerVars
  <2> QED
    BY <2>1, ProviderSteps, ProviderStepConnects
<1> QED
  BY <1>1, ProviderInit, PTL DEF Spec

(* Whatever the network does, ConnectToServer finds no open socket that it *)
(* would lose, in any order of tries, failures, events and closings.       *)
THEOREM ConnectsClosedSocketsHolds == Spec => ConnectsClosedSockets
<1>1. ProviderInv /\ [Next]_vars =>
        [\A c \in Provider!Communicators :
           connections'[c] # connections[c] => socket[c] = "invalid"]_(Provider!vars)
  <2>1. UNCHANGED Provider!vars <=> UNCHANGED providerVars
    BY DEF Provider!vars, Provider!commVars, providerVars
  <2> QED
    BY <2>1, ProviderSteps, ProviderStepConnects DEF ProviderConnects
<1> QED
  BY <1>1, ProviderInvariantHolds, PTL
     DEF Spec, ConnectsClosedSockets, Provider!ConnectsClosedSockets
=============================================================================
