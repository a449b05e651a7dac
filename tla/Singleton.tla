----------------------------- MODULE Singleton -----------------------------
(***************************************************************************)
(* CSingleton: threads ask for the instance, which the first one creates   *)
(* under a CCritSectLite after a second look at instance_.  The base       *)
(* class's constructor publishes the object before it is complete.  At     *)
(* exit Destroy deletes it, whatever the other threads do.                 *)
(***************************************************************************)
EXTENDS Integers, FiniteSets

CONSTANTS
  Threads,
  Objects,      \* the objects that new may return (bound of the model)
  NULL

VARIABLES
  instance_,
  lock,         \* cs_.lock
  object,       \* none, raw, base (published), complete or deleted
  pc,           \* where a thread is in GetInstance, or in Destroy
  mine,         \* the object a thread creates, deletes or has got
  locked,       \* history: the threads that came by the lock
  scheduled,    \* calls of Destroy the process will make at exit
  exiting       \* the process has begun its exit

vars == <<instance_, lock, object, pc, mine, locked, scheduled, exiting>>

Init ==
  /\ instance_ = NULL
  /\ lock = 0
  /\ object = [o \in Objects |-> "none"]
  /\ pc = [t \in Threads |-> "call"]
  /\ mine = [t \in Threads |-> NULL]
  /\ locked = {}
  /\ scheduled = 0
  /\ exiting = FALSE

Go(t, from, to) == pc[t] = from /\ pc' = [pc EXCEPT ![t] = to]
Take(t, o) == mine' = [mine EXCEPT ![t] = o]
Becomes(o, state) == object' = [object EXCEPT ![o] = state]
-----------------------------------------------------------------------------
(* CCritSectLite: one compare-and-exchange of 0, tried again until it      *)
(* succeeds; Leave and Free store 0 whoever holds it.                      *)
Enter == lock = 0 /\ lock' = 1
Leave == lock' = 0
Free == lock' = 0

(* GetInstance: the first look, without the lock.                          *)
FirstLook(t) ==
  /\ \/ instance_ = NULL /\ Go(t, "call", "enter") /\ UNCHANGED mine
     \/ instance_ # NULL /\ Go(t, "call", "got") /\ Take(t, instance_)
  /\ UNCHANGED <<instance_, lock, object, locked, scheduled, exiting>>

EnterLock(t) ==
  /\ Go(t, "enter", "look")
  /\ Enter
  /\ locked' = locked \cup {t}
  /\ UNCHANGED <<instance_, object, mine, scheduled, exiting>>

MutNoSecondLook(t) ==
  /\ Go(t, "look", "construct")
  /\ \E o \in Objects : object[o] = "none" /\ Becomes(o, "raw") /\ Take(t, o)
  /\ UNCHANGED <<instance_, lock, locked, scheduled, exiting>>

SecondLook(t) ==
  /\ \/ /\ instance_ = NULL /\ Go(t, "look", "construct")
        /\ \E o \in Objects : object[o] = "none" /\ Becomes(o, "raw") /\ Take(t, o)
     \/ instance_ # NULL /\ Go(t, "look", "leave") /\ UNCHANGED <<object, mine>>
  /\ UNCHANGED <<instance_, lock, locked, scheduled, exiting>>

(* CSingleton(), which publishes the object, then T(), then the assignment *)
(* of what new returned and the call of atexit.                            *)
Publish(t) ==
  /\ Go(t, "construct", "complete")
  /\ instance_' = mine[t]
  /\ Becomes(mine[t], "base")
  /\ UNCHANGED <<lock, mine, locked, scheduled, exiting>>

Complete(t) ==
  /\ Go(t, "complete", "assign")
  /\ Becomes(mine[t], "complete")
  /\ UNCHANGED <<instance_, lock, mine, locked, scheduled, exiting>>

CreateInstance(t) ==
  /\ Go(t, "assign", "leave")
  /\ instance_' = mine[t]
  /\ scheduled' = scheduled + 1
  /\ UNCHANGED <<lock, object, mine, locked, exiting>>

LeaveLock(t) ==
  /\ Go(t, "leave", "return")
  /\ Leave
  /\ UNCHANGED <<instance_, object, mine, locked, scheduled, exiting>>

(* What is returned is read again, after the lock was left.                *)
Return(t) ==
  /\ Go(t, "return", "got")
  /\ Take(t, instance_)
  /\ UNCHANGED <<instance_, lock, object, locked, scheduled, exiting>>
-----------------------------------------------------------------------------
(* A thread that has its instance ends the process; Destroy is called as   *)
(* often as it was scheduled.                                              *)
Exit(t) ==
  /\ ~exiting /\ exiting' = TRUE
  /\ Go(t, "got", "exit")
  /\ UNCHANGED <<instance_, lock, object, mine, locked, scheduled>>

Destroy(t) ==
  /\ scheduled > 0 /\ scheduled' = scheduled - 1
  /\ \/ instance_ = NULL /\ Go(t, "exit", "exit") /\ UNCHANGED mine
     \/ instance_ # NULL /\ Go(t, "exit", "delete") /\ Take(t, instance_)
  /\ UNCHANGED <<instance_, lock, object, locked, exiting>>

(* ~T() and ~CSingleton(): instance_ is cleared, then the lock is freed;   *)
(* Destroy clears instance_ once more.                                     *)
DestroyInstance(t) ==
  /\ Go(t, "delete", "free")
  /\ instance_' = NULL
  /\ Becomes(mine[t], "deleted")
  /\ UNCHANGED <<lock, mine, locked, scheduled, exiting>>

FreeLock(t) ==
  /\ Go(t, "free", "clear")
  /\ Free
  /\ UNCHANGED <<instance_, object, mine, locked, scheduled, exiting>>

ClearInstance(t) ==
  /\ Go(t, "clear", "exit")
  /\ instance_' = NULL
  /\ UNCHANGED <<lock, object, mine, locked, scheduled, exiting>>

Next ==
  \E t \in Threads :
    \/ FirstLook(t) \/ EnterLock(t) \/ SecondLook(t)
    \/ Publish(t) \/ Complete(t) \/ CreateInstance(t) \/ LeaveLock(t) \/ Return(t)
    \/ Exit(t) \/ Destroy(t) \/ DestroyInstance(t) \/ FreeLock(t) \/ ClearInstance(t)

Spec == Init /\ [][Next]_vars
-----------------------------------------------------------------------------
Made == {o \in Objects : object[o] # "none"}

(* Until the process exits, all threads get the same object, however their *)
(* looks at instance_ interleave, and the constructor's assertion that     *)
(* there is none holds; a thread that came by the lock gets it complete,   *)
(* one that only looked may not (CSingleton::GetInstance).                 *)
OneInstance ==
  ~exiting =>
    /\ Cardinality(Made) <= 1
    /\ \A t \in Threads : pc[t] = "construct" => instance_ = NULL
    /\ \A t \in Threads : pc[t] = "got" =>
         /\ mine[t] \in Made
         /\ t \in locked => object[mine[t]] = "complete"
============================================================================
