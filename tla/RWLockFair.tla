----------------------------- MODULE RWLockFair -----------------------------
(***************************************************************************)
(* CReaderWriterLock_NS_FAIR of critsect.h, the lock ReadWriteLockTest     *)
(* drives.  Two words, requests and completions, each pack a reader count  *)
(* and a writer count.  A thread adds itself to requests and waits until   *)
(* the completions it saw requested are there: a reader compares the       *)
(* writer counts, a writer the whole word.                                 *)
(*                                                                         *)
(* Both words are written only inside the critical section cs, but         *)
(* completions is read by the waiters outside it, and its update is two    *)
(* writes (clear the top bit, then add), which the waiters see one by one. *)
(* Top is the top bit of a count (0x8000 in the code).                     *)
(***************************************************************************)
EXTENDS Integers, FiniteSets

CONSTANTS Threads, Top

None == "none"

ASSUME ThreadsAssumption == IsFiniteSet(Threads) /\ None \notin Threads
ASSUME TopAssumption == Top \in Nat /\ Cardinality(Threads) <= Top

VARIABLES
  requests, completions,    \* records of the two counts of a word
  cs,       \* the thread inside the critical section, or None
  prev,     \* prev[t]: what thread t fetched from requests
  pc,       \* where each thread is
  ahead     \* history: the threads in the queue when t joined it, not yet done

vars == <<requests, completions, cs, prev, pc, ahead>>

Count == 0 .. Top
Word == [readers : Count, writers : Count]
Zero == [readers |-> 0, writers |-> 0]

PC == {"idle", "rWait", "reading", "endRead", "wWait", "writing", "endWrite"}

(* The count with its top bit cleared.  Each count runs 0, 1, .., Top and  *)
(* then 1 again, so it never carries into the other half of the word.      *)
Clear(n) == IF n >= Top THEN n - Top ELSE n
ClearAdd(n) == Clear(n) + 1

InQueue == {t \in Threads : pc[t] # "idle"}
IsWriter(t) == pc[t] \in {"wWait", "writing", "endWrite"}

Goto(t, from, to) == pc[t] = from /\ pc' = [pc EXCEPT ![t] = to]

Init ==
  /\ requests = Zero /\ completions = Zero
  /\ cs = None
  /\ prev = [t \in Threads |-> Zero]
  /\ pc = [t \in Threads |-> "idle"]
  /\ ahead = [t \in Threads |-> {}]
-----------------------------------------------------------------------------
(* InterlockedFetchClearAdd on requests.  Nobody reads requests outside    *)
(* cs, so the whole function is one step of a thread that finds cs free.   *)
MutFetchClearAdd(t, after) ==
  /\ requests' = after
  /\ prev' = [prev EXCEPT ![t] = after]
  /\ ahead' = [ahead EXCEPT ![t] = InQueue]

FetchClearAdd(t, after) ==
  /\ cs = None
  /\ requests' = after
  /\ prev' = [prev EXCEPT ![t] = requests]
  /\ ahead' = [ahead EXCEPT ![t] = InQueue]

(* InterlockedClearAdd on completions: enter cs and clear, then add and    *)
(* leave cs.                                                               *)
EnterClear(t, cleared) ==
  /\ cs = None
  /\ cs' = t
  /\ completions' = cleared
  /\ UNCHANGED <<requests, prev, ahead>>

AddLeave(t, added) ==
  /\ cs' = None
  /\ completions' = added
  /\ prev' = [prev EXCEPT ![t] = Zero]
  /\ ahead' = [u \in Threads |-> IF u = t THEN {} ELSE ahead[u] \ {t}]
  /\ UNCHANGED requests
-----------------------------------------------------------------------------
ReadRequest(t) ==
  /\ Goto(t, "idle", "rWait")
  /\ FetchClearAdd(t, [requests EXCEPT !.readers = ClearAdd(@)])
  /\ UNCHANGED <<completions, cs>>

MutReadSpinAny(t) ==
  /\ Goto(t, "rWait", "reading")
  /\ \A u \in Threads : pc[u] # "writing"
  /\ UNCHANGED <<requests, completions, cs, prev, ahead>>

ReadSpin(t) ==
  /\ Goto(t, "rWait", "reading")
  /\ completions.writers = prev[t].writers
  /\ UNCHANGED <<requests, completions, cs, prev, ahead>>

WriteRequest(t) ==
  /\ Goto(t, "idle", "wWait")
  /\ FetchClearAdd(t, [requests EXCEPT !.writers = ClearAdd(@)])
  /\ UNCHANGED <<completions, cs>>

WriteSpin(t) ==
  /\ Goto(t, "wWait", "writing")
  /\ completions = prev[t]
  /\ UNCHANGED <<requests, completions, cs, prev, ahead>>

EndReadClear(t) ==
  /\ Goto(t, "reading", "endRead")
  /\ EnterClear(t, [completions EXCEPT !.readers = Clear(@)])

EndReadAdd(t) ==
  /\ Goto(t, "endRead", "idle")
  /\ AddLeave(t, [completions EXCEPT !.readers = @ + 1])

EndWriteClear(t) ==
  /\ Goto(t, "writing", "endWrite")
  /\ EnterClear(t, [completions EXCEPT !.writers = Clear(@)])

MutEndWriteAdd(t) ==
  /\ Goto(t, "endWrite", "idle")
  /\ AddLeave(t, [completions EXCEPT !.readers = @ + 1])

EndWriteAdd(t) ==
  /\ Goto(t, "endWrite", "idle")
  /\ AddLeave(t, [completions EXCEPT !.writers = @ + 1])

Serve(t) ==
  \/ ReadSpin(t) \/ EndReadClear(t) \/ EndReadAdd(t)
  \/ WriteSpin(t) \/ EndWriteClear(t) \/ EndWriteAdd(t)

Next == \E t \in Threads : ReadRequest(t) \/ WriteRequest(t) \/ Serve(t)

(* The scheduler runs every thread and a holder leaves its section.  Weak  *)
(* fairness is enough, although cs is not always free: the threads that    *)
(* could keep it busy queue behind the waiter.  No thread has to call.     *)
Fairness == \A t \in Threads : WF_vars(Serve(t))

Spec == Init /\ [][Next]_vars

FairSpec == Spec /\ Fairness
-----------------------------------------------------------------------------
(* Types and ranges of the variables. *)
TypeOK ==
  /\ requests \in Word /\ completions \in Word
  /\ cs \in Threads \union {None}
  /\ prev \in [Threads -> Word]
  /\ pc \in [Threads -> PC]
  /\ ahead \in [Threads -> SUBSET Threads]

(* First come, first served (the comment at the class): a writer holds the *)
(* lock only when everybody ahead of it is done, a reader only when every  *)
(* writer ahead of it is done; readers do not wait for readers.            *)
ServedInOrder ==
  \A t \in Threads :
    /\ pc[t] \in {"writing", "endWrite"} => ahead[t] = {}
    /\ pc[t] \in {"reading", "endRead"} => \A u \in ahead[t] : ~IsWriter(u)

(* A waiter whose turn it is finds its condition true and keeps finding it *)
(* true until it acts, even while another thread is between the two writes *)
(* of completions: no turn is missed and none comes early.                 *)
TurnIsVisible ==
  \A t \in Threads :
    /\ pc[t] = "rWait" =>
         ((\A u \in ahead[t] : ~IsWriter(u)) <=> completions.writers = prev[t].writers)
    /\ pc[t] = "wWait" => (ahead[t] = {} <=> completions = prev[t])

(* Turns come in the order of the queue, none is missed and none comes     *)
(* early, although the counts share a word and are changed in two writes   *)
(* (CReaderWriterLock_NS_FAIR::InterlockedFetchClearAdd).                  *)
TurnsComeInOrder == TypeOK /\ ServedInOrder /\ TurnIsVisible

(* A thread holds the lock until its release is recorded in completions. *)
Mode == [t \in Threads |->
           CASE pc[t] \in {"reading", "endRead"} -> "read"
             [] pc[t] \in {"writing", "endWrite"} -> "write"
             [] OTHER -> "none"]

Abstract == INSTANCE RWLockSpec WITH mode <- Mode

(* The lock behaves as the abstract reader-writer lock. *)
ImplementsRWLock == Abstract!Spec

(* Nobody starves: every thread in the queue gets the lock. *)
QueuedThreadEnters ==
  \A t \in Threads :
    /\ pc[t] = "rWait" ~> pc[t] = "reading"
    /\ pc[t] = "wWait" ~> pc[t] = "writing"
=============================================================================
