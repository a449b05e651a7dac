-------------------------- MODULE LockingRefCount --------------------------
(***************************************************************************)
(* CLockingRefCountLite of critsect.h: a count that can be locked against  *)
(* increments.  A user increments, works and decrements; a closer locks    *)
(* the count, waits until it is 0, works alone and unlocks it.  Lock says  *)
(* whether the count was locked already; a closer that is told so goes     *)
(* away.  Every operation takes the inner spin lock m_syncLock, reads and  *)
(* writes the two unsigned shorts m_lock and m_refCount, and releases it.  *)
(***************************************************************************)
EXTENDS Integers, FiniteSets

CONSTANTS
  Threads,
  Modulus       \* unsigned short wraps here (2^16 in the code)

VARIABLES
  m_lock, m_refCount,
  m_syncLock,   \* LOCK_FLAG while a thread is inside an operation
  seen,         \* what the operation of a thread has read of m_lock, m_refCount
  pc            \* <<operation, stage>>, or one of Rests between operations

vars == <<m_lock, m_refCount, m_syncLock, seen, pc>>

LOCK_FLAG == 1
LOCKED == 0
UNLOCKED == 1

Ops == {"TryIncrement", "Decrement", "Lock", "RefCount", "Unlock"}
Rests == {<<"idle", "out">>, <<"using", "out">>, <<"alone", "out">>}
idle == <<"idle", "out">>
using == <<"using", "out">>
alone == <<"alone", "out">>

Count == 0 .. Modulus - 1
Nothing == [locked |-> LOCKED, count |-> 0]

Init ==
  /\ m_lock = UNLOCKED /\ m_refCount = 0 /\ m_syncLock = 0
  /\ seen = [t \in Threads |-> Nothing]
  /\ pc = [t \in Threads |-> idle]

Goto(t, from, to) == pc[t] = from /\ pc' = [pc EXCEPT ![t] = to]
-----------------------------------------------------------------------------
(* A thread between operations calls the next one.                         *)
Call(t) ==
  /\ \/ Goto(t, idle, <<"TryIncrement", "want">>)
     \/ Goto(t, idle, <<"Lock", "want">>)
     \/ Goto(t, using, <<"Decrement", "want">>)
     \/ Goto(t, alone, <<"Unlock", "want">>)
  /\ UNCHANGED <<m_lock, m_refCount, m_syncLock, seen>>

MutLOCKSYNC(t, op) ==
  /\ Goto(t, <<op, "want">>, <<op, "in">>)
  /\ m_syncLock' = LOCK_FLAG
  /\ UNCHANGED <<m_lock, m_refCount, seen>>

LOCKSYNC(t, op) ==
  /\ Goto(t, <<op, "want">>, <<op, "in">>)
  /\ m_syncLock = 0
  /\ m_syncLock' = LOCK_FLAG
  /\ UNCHANGED <<m_lock, m_refCount, seen>>

Read(t, op) ==
  /\ Goto(t, <<op, "in">>, <<op, "read">>)
  /\ seen' = [seen EXCEPT ![t] = [locked |-> m_lock, count |-> m_refCount]]
  /\ UNCHANGED <<m_lock, m_refCount, m_syncLock>>

(* The write and UNLOCKSYNC: nobody looks at the members in between.       *)
Finish(t, op, to) ==
  /\ Goto(t, <<op, "read">>, to)
  /\ m_syncLock' = 0
  /\ seen' = [seen EXCEPT ![t] = Nothing]

(* Increment tries again when the count is locked; a caller of             *)
(* TryIncrement may give up.                                               *)
TryIncrement(t) ==
  /\ m_refCount' = (seen[t].count + seen[t].locked) % Modulus
  /\ IF seen[t].locked = LOCKED
     THEN \E to \in {idle, <<"TryIncrement", "want">>} : Finish(t, "TryIncrement", to)
     ELSE Finish(t, "TryIncrement", using)
  /\ UNCHANGED m_lock

Decrement(t) ==
  /\ m_refCount' = (seen[t].count - 1) % Modulus
  /\ Finish(t, "Decrement", idle)
  /\ UNCHANGED m_lock

MutLock(t) ==
  /\ m_lock' = LOCKED
  /\ Finish(t, "Lock", <<"RefCount", "want">>)
  /\ UNCHANGED m_refCount

(* Lock, and WaitZeroRef if it was this thread that locked the count.      *)
Lock(t) ==
  /\ m_lock' = LOCKED
  /\ Finish(t, "Lock", IF seen[t].locked = LOCKED THEN idle ELSE <<"RefCount", "want">>)
  /\ UNCHANGED m_refCount

WaitZeroRef(t) ==
  /\ Finish(t, "RefCount", IF seen[t].count # 0 THEN <<"RefCount", "want">> ELSE alone)
  /\ UNCHANGED <<m_lock, m_refCount>>

Unlock(t) ==
  /\ m_lock' = UNLOCKED
  /\ Finish(t, "Unlock", idle)
  /\ UNCHANGED m_refCount

Next == \E t \in Threads :
  \/ Call(t)
  \/ \E op \in Ops : LOCKSYNC(t, op) \/ Read(t, op)
  \/ TryIncrement(t) \/ Decrement(t) \/ Lock(t) \/ WaitZeroRef(t) \/ Unlock(t)

Spec == Init /\ [][Next]_vars
-----------------------------------------------------------------------------
(* Types and ranges of the variables. *)
TypeOK ==
  /\ m_lock \in {LOCKED, UNLOCKED} /\ m_refCount \in Count
  /\ m_syncLock \in {0, LOCK_FLAG}
  /\ seen \in [Threads -> [locked : {LOCKED, UNLOCKED}, count : Count]]
  /\ pc \in [Threads -> Rests \union Ops \X {"want", "in", "read"}]

Sharers == {t \in Threads : pc[t] = using \/ pc[t][1] = "Decrement"}
Closers == {t \in Threads : pc[t] = alone \/ pc[t][1] \in {"RefCount", "Unlock"}}

(* The count is the number of users, and it is locked exactly while there  *)
(* is a closer, of which there is one.                                     *)
CountIsUsers ==
  /\ m_refCount = Cardinality(Sharers)
  /\ Cardinality(Closers) = (IF m_lock = LOCKED THEN 1 ELSE 0)

Mode == [t \in Threads |->
           IF t \in Sharers THEN "read"
           ELSE IF pc[t] = alone \/ pc[t][1] = "Unlock" THEN "write" ELSE "none"]

Abstract == INSTANCE RWLockSpec WITH mode <- Mode

(* Users share and a closer whose wait is over is alone: the count is a    *)
(* reader-writer lock.                                                     *)
ImplementsRWLock == Abstract!Spec
=============================================================================
