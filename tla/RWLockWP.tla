------------------------------ MODULE RWLockWP ------------------------------
(***************************************************************************)
(* CReaderWriterLock_NS_WP of critsect.h: the spinning reader-writer lock  *)
(* with writer preference.  Writers queue with a ticket (write_requests,   *)
(* write_completions); a reader waits until the two counters agree before  *)
(* it announces itself in the lock word.                                   *)
(***************************************************************************)
EXTENDS RWLockWord, Counters

ASSUME ThreadsFit == 2 * Cardinality(Threads) <= Modulus

VARIABLES
  lock, write_requests, write_completions,
  seen,     \* seen[t]: the counter value thread t waits with (0 when it has none)
  pc,       \* where each thread is
  ahead     \* history: the writers queued when reader t called ReadLock and
            \* not yet done

vars == <<lock, write_requests, write_completions, seen, pc, ahead>>

PC == {"idle", "rCheck", "rThenCompletions", "rThenRequests", "rAdd", "announced",
       "reading", "wTurn", "wCas", "writing", "wDone"}

WriterActive == lock % 2 = WRITER_ACTIVE_FLAG

Queued == {t \in Threads : pc[t] \in {"wTurn", "wCas", "writing", "wDone"}}

Goto(t, from, to) == pc[t] = from /\ pc' = [pc EXCEPT ![t] = to]

Init ==
  /\ lock = 0 /\ write_requests = 0 /\ write_completions = 0
  /\ seen = [t \in Threads |-> 0]
  /\ pc = [t \in Threads |-> "idle"]
  /\ ahead = [t \in Threads |-> {}]
-----------------------------------------------------------------------------
(* ReadLock.  The condition of the first loop reads two volatile counters  *)
(* in an order C++ leaves open; both orders are behaviours.                *)
ReadCall(t) ==
  /\ Goto(t, "idle", "rCheck")
  /\ ahead' = [ahead EXCEPT ![t] = Queued]
  /\ UNCHANGED <<lock, write_requests, write_completions, seen>>

ReadFirstCounter(t) ==
  /\ \/ Goto(t, "rCheck", "rThenCompletions") /\ seen' = [seen EXCEPT ![t] = write_requests]
     \/ Goto(t, "rCheck", "rThenRequests") /\ seen' = [seen EXCEPT ![t] = write_completions]
  /\ UNCHANGED <<lock, write_requests, write_completions, ahead>>

MutReadSecondCounter(t) ==
  /\ Goto(t, "rThenCompletions", "rAdd") \/ Goto(t, "rThenRequests", "rAdd")
  /\ UNCHANGED <<lock, write_requests, write_completions, seen, ahead>>

ReadSecondCounter(t) ==
  LET Next2(equal) == IF equal THEN "rAdd" ELSE "rCheck"
  IN  /\ \/ Goto(t, "rThenCompletions", Next2(seen[t] = write_completions))
         \/ Goto(t, "rThenRequests", Next2(seen[t] = write_requests))
      /\ seen' = [seen EXCEPT ![t] = 0]
      /\ UNCHANGED <<lock, write_requests, write_completions, ahead>>

ReadAnnounce(t) ==
  /\ Goto(t, "rAdd", "announced")
  /\ lock' = lock + READER_COUNT_INC
  /\ UNCHANGED <<write_requests, write_completions, seen, ahead>>

MutReadSpinNoTest(t) ==
  /\ Goto(t, "announced", "reading")
  /\ UNCHANGED <<lock, write_requests, write_completions, seen, ahead>>

ReadSpin(t) ==
  /\ Goto(t, "announced", "reading")
  /\ ~WriterActive
  /\ UNCHANGED <<lock, write_requests, write_completions, seen, ahead>>

EndRead(t) ==
  /\ Goto(t, "reading", "idle")
  /\ lock' = lock - READER_COUNT_INC
  /\ UNCHANGED <<write_requests, write_completions, seen, ahead>>
-----------------------------------------------------------------------------
(* WriteLock: take a ticket, wait for the turn, then take the lock word.   *)
WriteRequest(t) ==
  /\ Goto(t, "idle", "wTurn")
  /\ write_requests' = Inc(write_requests)
  /\ seen' = [seen EXCEPT ![t] = write_requests]
  /\ UNCHANGED <<lock, write_completions, ahead>>

WriteTurn(t) ==
  /\ Goto(t, "wTurn", "wCas")
  /\ write_completions = seen[t]
  /\ seen' = [seen EXCEPT ![t] = 0]
  /\ UNCHANGED <<lock, write_requests, write_completions, ahead>>

WriteCas(t) ==
  /\ Goto(t, "wCas", "writing")
  /\ lock = 0
  /\ lock' = WRITER_ACTIVE_FLAG
  /\ UNCHANGED <<write_requests, write_completions, seen, ahead>>

(* EndWrite is two interlocked operations: the flag goes first, so a       *)
(* reader may enter before the completion is counted.                      *)
EndWriteFlag(t) ==
  /\ Goto(t, "writing", "wDone")
  /\ lock' = lock - WRITER_ACTIVE_FLAG
  /\ UNCHANGED <<write_requests, write_completions, seen, ahead>>

MutEndWriteNoCompletion(t) ==
  /\ Goto(t, "wDone", "idle")
  /\ ahead' = [r \in Threads |-> ahead[r] \ {t}]
  /\ UNCHANGED <<lock, write_requests, write_completions, seen>>

EndWriteCount(t) ==
  /\ Goto(t, "wDone", "idle")
  /\ write_completions' = Inc(write_completions)
  /\ ahead' = [r \in Threads |-> ahead[r] \ {t}]
  /\ UNCHANGED <<lock, write_requests, seen>>

Read(t) ==
  \/ ReadFirstCounter(t) \/ ReadSecondCounter(t)
  \/ ReadAnnounce(t) \/ ReadSpin(t) \/ EndRead(t)

Write(t) ==
  \/ WriteTurn(t) \/ WriteCas(t)
  \/ EndWriteFlag(t) \/ EndWriteCount(t)

Next == \E t \in Threads : ReadCall(t) \/ Read(t) \/ WriteRequest(t) \/ Write(t)

(* The scheduler runs every thread, and a holder leaves its section; no    *)
(* thread has to call ReadLock or WriteLock.                               *)
Fairness == \A t \in Threads : WF_vars(Read(t)) /\ WF_vars(Write(t))

Spec == Init /\ [][Next]_vars

FairSpec == Spec /\ Fairness
-----------------------------------------------------------------------------
(* Types and ranges of the variables. *)
TypeOK ==
  /\ lock \in Nat
  /\ write_requests \in Counter /\ write_completions \in Counter
  /\ seen \in [Threads -> Counter]
  /\ pc \in [Threads -> PC]
  /\ ahead \in [Threads -> SUBSET Threads]

(* Writers are served one at a time in ticket order: only the writer whose *)
(* ticket is up competes with readers for the lock word.                   *)
OneWriterCompetes ==
  \A t, u \in Threads :
    (t # u /\ pc[t] \in {"wCas", "writing", "wDone"})
      => pc[u] \notin {"wCas", "writing", "wDone"}

(* Writer preference: a reader announces itself only after every writer    *)
(* that was queued when it called ReadLock has counted its completion,     *)
(* although the two counters are read one after the other.                 *)
WriterPreference ==
  \A t \in Threads : pc[t] \in {"rAdd", "announced", "reading"} => ahead[t] = {}

(* Writers go first and one by one, in the order of their tickets, which   *)
(* wrap (CReaderWriterLock_NS_WP: ReadLock, WriteLock, EndWrite).          *)
WritersFirst == TypeOK /\ OneWriterCompetes /\ WriterPreference

Mode == [t \in Threads |->
           IF pc[t] = "reading" THEN "read"
           ELSE IF pc[t] = "writing" THEN "write" ELSE "none"]

Abstract == INSTANCE RWLockSpec WITH mode <- Mode

(* The lock behaves as the abstract reader-writer lock. *)
ImplementsRWLock == Abstract!Spec

(* A queued writer gets the lock, however many readers keep calling.       *)
QueuedWriterEnters ==
  \A t \in Threads : pc[t] = "wTurn" ~> pc[t] = "writing"
=============================================================================
