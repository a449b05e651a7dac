-------------------------- MODULE QueueSpinLocked --------------------------
(***************************************************************************)
(* QueueSpinLocked of workTemplate.cpp, a queue under a spin lock whose    *)
(* pop looks whether it is empty before it takes the lock.  Values are     *)
(* numbered as they are pushed.  A pop of an empty queue is undefined, so  *)
(* nothing is described after it.                                          *)
(***************************************************************************)
EXTENDS Integers, Sequences

CONSTANTS Threads, NULL, MaxPushes

VARIABLES
  spinLock,    \* the thread that holds it, or NULL
  _container,
  pushes,      \* how many values have been pushed
  toPop,       \* the values that have been popped, in order
  raced,       \* two threads were past the test of a pop at the same time
  undefined,   \* the empty queue was popped
  at           \* where each thread is

vars == <<spinLock, _container, pushes, toPop, raced, undefined, at>>

Init ==
  /\ spinLock = NULL /\ _container = <<>>
  /\ pushes = 0 /\ toPop = <<>> /\ raced = FALSE /\ undefined = FALSE
  /\ at = [t \in Threads |-> "outside"]

Move(t, from, to) == ~undefined /\ at[t] = from /\ at' = [at EXCEPT ![t] = to]

(* scoped_lock is constructed. *)
Lock(t) == spinLock = NULL /\ spinLock' = t

LockPush(t) ==
  /\ pushes < MaxPushes
  /\ Move(t, "outside", "push") /\ Lock(t)
  /\ UNCHANGED <<_container, pushes, toPop, raced, undefined>>

Push(t) ==
  /\ Move(t, "push", "outside")
  /\ _container' = Append(_container, pushes + 1)
  /\ pushes' = pushes + 1
  /\ spinLock' = NULL
  /\ UNCHANGED <<toPop, raced, undefined>>

Popping == {t \in Threads : at[t] \in {"pop", "front"}}

MutNotEmpty(t) ==
  /\ Move(t, "outside", "pop")
  /\ raced' = (raced \/ Popping # {})
  /\ UNCHANGED <<spinLock, _container, pushes, toPop, undefined>>

(* pop is called; it returns false if the queue is empty.                  *)
NotEmpty(t) ==
  /\ _container # <<>>
  /\ Move(t, "outside", "pop")
  /\ raced' = (raced \/ Popping # {})
  /\ UNCHANGED <<spinLock, _container, pushes, toPop, undefined>>

LockPop(t) ==
  /\ Move(t, "pop", "front") /\ Lock(t)
  /\ UNCHANGED <<_container, pushes, toPop, raced, undefined>>

Pop(t) ==
  /\ Move(t, "front", "outside")
  /\ spinLock' = NULL
  /\ IF _container = <<>> THEN undefined' = TRUE /\ UNCHANGED <<_container, toPop>>
     ELSE /\ toPop' = Append(toPop, Head(_container))
          /\ _container' = Tail(_container)
          /\ UNCHANGED undefined
  /\ UNCHANGED <<pushes, raced>>

Next == \E t \in Threads :
  LockPush(t) \/ Push(t) \/ NotEmpty(t) \/ LockPop(t) \/ Pop(t)

Spec == Init /\ [][Next]_vars
-----------------------------------------------------------------------------
(* Values leave the queue once and in the order they came.  A thread that  *)
(* has seen the queue not empty still finds it so when it has the lock,    *)
(* unless two threads have been past that test together: one consumer is   *)
(* safe beside any producers, two consumers may pop the empty queue.       *)
PoppedInOrder ==
  /\ toPop \o _container = [i \in 1 .. pushes |-> i]
  /\ undefined => raced
=============================================================================
