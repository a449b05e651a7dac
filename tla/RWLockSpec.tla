----------------------------- MODULE RWLockSpec -----------------------------
(***************************************************************************)
(* What every reader-writer lock of critsect.h promises its callers: a     *)
(* thread holds the lock for reading, for writing or not at all, readers   *)
(* share, and a writer is alone.  How a thread waits is not described.     *)
(* A plain mutual exclusion lock is the case in which nobody reads.        *)
(***************************************************************************)
CONSTANT Threads

VARIABLE mode       \* mode[t]: how thread t holds the lock

Init == mode = [t \in Threads |-> "none"]

AcquireRead(t) ==
  /\ mode[t] = "none"
  /\ \A u \in Threads : mode[u] # "write"
  /\ mode' = [mode EXCEPT ![t] = "read"]

AcquireWrite(t) ==
  /\ \A u \in Threads : mode[u] = "none"
  /\ mode' = [mode EXCEPT ![t] = "write"]

Release(t) ==
  /\ mode[t] # "none"
  /\ mode' = [mode EXCEPT ![t] = "none"]

Next == \E t \in Threads : AcquireRead(t) \/ AcquireWrite(t) \/ Release(t)

Spec == Init /\ [][Next]_mode
=============================================================================
