------------------------------ MODULE RWLockRP ------------------------------
(***************************************************************************)
(* CReaderWriterLock_NS_RP of critsect.h: the spinning reader-writer lock  *)
(* with reader preference.  A reader announces itself by adding to the     *)
(* word before it looks at the writer's flag.  Every interlocked operation *)
(* and every test of a spin loop is one action; an iteration of a spin     *)
(* loop that finds its condition false changes nothing.                    *)
(***************************************************************************)
EXTENDS RWLockWord

VARIABLES
  lock,     \* the lock word (a LONG; it never exceeds 2 * number of threads)
  pc        \* where each thread is

vars == <<lock, pc>>

PC == {"idle", "announced", "reading", "casWrite", "writing"}

WriterActive == lock % 2 = WRITER_ACTIVE_FLAG

Readers == {t \in Threads : pc[t] \in {"announced", "reading"}}
Writers == {t \in Threads : pc[t] = "writing"}

Goto(t, from, to) == pc[t] = from /\ pc' = [pc EXCEPT ![t] = to]

Init ==
  /\ lock = 0
  /\ pc = [t \in Threads |-> "idle"]

(* ReadLock: the interlocked add, then the loop on the writer flag. *)
ReadAnnounce(t) ==
  /\ Goto(t, "idle", "announced")
  /\ lock' = lock + READER_COUNT_INC

MutReadSpinNoTest(t) ==
  /\ Goto(t, "announced", "reading")
  /\ UNCHANGED lock

ReadSpin(t) ==
  /\ Goto(t, "announced", "reading")
  /\ ~WriterActive
  /\ UNCHANGED lock

(* WriteLock: called, then the compare-and-exchange of 0 by the flag. *)
WriteCall(t) ==
  /\ Goto(t, "idle", "casWrite")
  /\ UNCHANGED lock

WriteCas(t) ==
  /\ Goto(t, "casWrite", "writing")
  /\ lock = 0
  /\ lock' = WRITER_ACTIVE_FLAG

EndRead(t) ==
  /\ Goto(t, "reading", "idle")
  /\ lock' = lock - READER_COUNT_INC

MutEndWriteClearsWord(t) ==
  /\ Goto(t, "writing", "idle")
  /\ lock' = 0

MutEndWriteKeepsFlag(t) ==
  /\ Goto(t, "writing", "idle")
  /\ UNCHANGED lock

EndWrite(t) ==
  /\ Goto(t, "writing", "idle")
  /\ lock' = lock - WRITER_ACTIVE_FLAG

Next == \E t \in Threads :
  \/ ReadAnnounce(t) \/ ReadSpin(t) \/ EndRead(t)
  \/ WriteCall(t) \/ WriteCas(t) \/ EndWrite(t)

(* The scheduler runs every thread, and a holder leaves its section. *)
Fairness == \A t \in Threads :
  /\ WF_vars(ReadSpin(t)) /\ WF_vars(EndRead(t))
  /\ WF_vars(WriteCas(t)) /\ WF_vars(EndWrite(t))

Spec == Init /\ [][Next]_vars

FairSpec == Spec /\ Fairness
-----------------------------------------------------------------------------
(* Types and ranges of the variables. *)
TypeOK ==
  /\ lock \in Nat
  /\ pc \in [Threads -> PC]

(* A writer that holds the lock is alone: no other writer and no reader    *)
(* that has left the loop of ReadLock.                                     *)
MutualExclusion ==
  \A w \in Threads : pc[w] = "writing" =>
    \A t \in Threads \ {w} : pc[t] \notin {"reading", "writing"}

(* The word counts exactly the readers that announced themselves, waiting  *)
(* or not, and the writer.  EndWrite therefore has to subtract its flag:   *)
(* readers may have announced themselves while it wrote.                   *)
WordCountsHolders ==
  lock = READER_COUNT_INC * Cardinality(Readers) + Cardinality(Writers)

Mode == [t \in Threads |->
           IF pc[t] = "reading" THEN "read"
           ELSE IF pc[t] = "writing" THEN "write" ELSE "none"]

Abstract == INSTANCE RWLockSpec WITH mode <- Mode

(* The lock behaves as the abstract reader-writer lock. *)
ImplementsRWLock == Abstract!Spec

(* Reader preference: a reader that has announced itself gets the lock,    *)
(* however many writers compete for it (writers have no such promise).     *)
AnnouncedReaderEnters ==
  \A t \in Threads : pc[t] = "announced" ~> pc[t] = "reading"
=============================================================================
