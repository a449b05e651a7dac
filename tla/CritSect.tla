------------------------------ MODULE CritSect ------------------------------
(***************************************************************************)
(* The three critical sections of critsect.h: CCriticalSection, the        *)
(* recursive one of the system, CCritSectLite, a flag, and                 *)
(* CCritSectLiteFair, a ticket lock, under the auto locks that use them.   *)
(* Every thread has one CAutoLock, whose assignment leaves the lock it     *)
(* guards and enters the one it is given, and whose destructor assigns     *)
(* NULL; in a scope inside of it a thread may enter one lock by hand and   *)
(* hand it to a CAutoLeave.                                                *)
(***************************************************************************)
EXTENDS Counters, FiniteSets

CONSTANTS Threads, Crit, Lite, Fair, NULL

Locks == Crit \union Lite \union Fair

ASSUME LocksAssumption ==
  /\ NULL \notin Locks \union Threads
  /\ Crit \intersect Lite = {} /\ Crit \intersect Fair = {} /\ Lite \intersect Fair = {}
ASSUME ThreadsAssumption == IsFiniteSet(Threads)
ASSUME ThreadsFit == Cardinality(Threads) < Modulus

VARIABLES
  cs,       \* cs[l]: the CRITICAL_SECTION of a CCriticalSection
  ticket,   \* ticket[l]: the next ticket of a fair lock
  lock,     \* lock[l]: the ticket a fair lock serves, the flag of a lite one
  m_lock,   \* the lock the auto lock of a thread guards, or NULL
  m_leave,  \* the lock the auto leave of a thread will leave, or NULL
  next,     \* the argument of an assignment that has not left the old lock yet
  me,       \* the ticket a thread waits with or holds the lock with (0: none)
  asked,    \* the lock IsOwnedByCurrentThread has entered and not left, or NULL
  pc

locks == <<cs, ticket, lock>>
vars == <<cs, ticket, lock, m_lock, m_leave, next, me, asked, pc>>

LOCK_FLAG == 1

FreeSection == [OwningThread |-> NULL, RecursionCount |-> 0]

Init ==
  /\ cs = [l \in Crit |-> FreeSection]
  /\ ticket = [l \in Fair |-> 0]
  /\ lock = [l \in Lite \union Fair |-> 0]
  /\ m_lock = [t \in Threads |-> NULL]
  /\ m_leave = [t \in Threads |-> NULL]
  /\ next = [t \in Threads |-> NULL]
  /\ me = [t \in Threads |-> 0]
  /\ asked = [t \in Threads |-> NULL]
  /\ pc = [t \in Threads |-> "idle"]
-----------------------------------------------------------------------------
Goto(t, from, to) == pc[t] = from /\ pc' = [pc EXCEPT ![t] = to]

(* What EnterCriticalSection waits for, and TryEnterCriticalSection tests. *)
CanEnter(t, l) == cs[l].OwningThread \in {NULL, t}

EnterSection(t, l) ==
  cs' = [cs EXCEPT ![l] = [OwningThread |-> t, RecursionCount |-> @.RecursionCount + 1]]

LeaveSection(l) ==
  LET left == cs[l].RecursionCount - 1
  IN  cs' = [cs EXCEPT ![l] = IF left = 0 THEN FreeSection
                              ELSE [OwningThread |-> @.OwningThread, RecursionCount |-> left]]

MutLeaveLock(l) ==
  CASE l \in Crit -> cs' = [cs EXCEPT ![l] = FreeSection] /\ UNCHANGED lock
    [] l \in Lite -> lock' = [lock EXCEPT ![l] = 0] /\ UNCHANGED cs
    [] l \in Fair -> lock' = [lock EXCEPT ![l] = Inc(@)] /\ UNCHANGED cs
    [] OTHER -> UNCHANGED <<cs, lock>>

(* Leave of the three classes: the fair lock serves the next ticket by an  *)
(* interlocked increment, the lite one is set to 0 by whoever leaves it.   *)
LeaveLock(l) ==
  CASE l \in Crit -> LeaveSection(l) /\ UNCHANGED lock
    [] l \in Lite -> lock' = [lock EXCEPT ![l] = 0] /\ UNCHANGED cs
    [] l \in Fair -> lock' = [lock EXCEPT ![l] = Inc(@)] /\ UNCHANGED cs
    [] OTHER -> UNCHANGED <<cs, lock>>

(* CAutoLock::operator = is called; the same lock may be assigned again.   *)
Assign(t, l) ==
  /\ m_leave[t] = NULL
  /\ Goto(t, "idle", "leave")
  /\ next' = [next EXCEPT ![t] = l]
  /\ UNCHANGED <<locks, m_lock, m_leave, me, asked>>

MutLeaveForgets(t) ==
  /\ Goto(t, "leave", IF next[t] = NULL THEN "idle" ELSE "enter")
  /\ m_lock' = [m_lock EXCEPT ![t] = next[t]]
  /\ next' = [next EXCEPT ![t] = NULL]
  /\ me' = [me EXCEPT ![t] = 0]
  /\ UNCHANGED <<locks, m_leave, asked>>

Leave(t) ==
  /\ Goto(t, "leave", IF next[t] = NULL THEN "idle" ELSE "enter")
  /\ LeaveLock(m_lock[t])
  /\ m_lock' = [m_lock EXCEPT ![t] = next[t]]
  /\ next' = [next EXCEPT ![t] = NULL]
  /\ me' = [me EXCEPT ![t] = 0]
  /\ UNCHANGED <<ticket, m_leave, asked>>

(* CCriticalSection::Enter. *)
EnterCrit(t) ==
  /\ m_lock[t] \in Crit /\ CanEnter(t, m_lock[t])
  /\ Goto(t, "enter", "idle")
  /\ EnterSection(t, m_lock[t])
  /\ UNCHANGED <<ticket, lock, m_lock, m_leave, next, me, asked>>

(* CCritSectLite::Enter: the compare and exchange that succeeds; one that  *)
(* fails changes nothing.                                                  *)
EnterLite(t) ==
  /\ m_lock[t] \in Lite /\ lock[m_lock[t]] = 0
  /\ Goto(t, "enter", "idle")
  /\ lock' = [lock EXCEPT ![m_lock[t]] = LOCK_FLAG]
  /\ UNCHANGED <<cs, ticket, m_lock, m_leave, next, me, asked>>

(* CCritSectLiteFair::Enter takes a ticket, and spins until it is served.  *)
TakeTicket(t) ==
  /\ m_lock[t] \in Fair
  /\ Goto(t, "enter", "spin")
  /\ ticket' = [ticket EXCEPT ![m_lock[t]] = Inc(@)]
  /\ me' = [me EXCEPT ![t] = ticket[m_lock[t]]]
  /\ UNCHANGED <<cs, lock, m_lock, m_leave, next, asked>>

MutServedEarly(t) ==
  /\ Goto(t, "spin", "idle")
  /\ lock[m_lock[t]] = me[t] \/ Inc(lock[m_lock[t]]) = me[t]
  /\ UNCHANGED <<locks, m_lock, m_leave, next, me, asked>>

Served(t) ==
  /\ Goto(t, "spin", "idle")
  /\ lock[m_lock[t]] = me[t]
  /\ UNCHANGED <<locks, m_lock, m_leave, next, me, asked>>

(* In an inner scope, a thread enters the section it guards once more, or  *)
(* one that guards nothing tries a lite lock, for a CAutoLeave to leave.   *)
EnterAgain(t) ==
  /\ pc[t] = "idle" /\ m_lock[t] \in Crit /\ m_leave[t] = NULL
  /\ EnterSection(t, m_lock[t])
  /\ m_leave' = [m_leave EXCEPT ![t] = m_lock[t]]
  /\ UNCHANGED <<ticket, lock, m_lock, next, me, asked, pc>>

Try(t, l) ==
  /\ pc[t] = "idle" /\ m_lock[t] = NULL /\ m_leave[t] = NULL
  /\ lock[l] = 0
  /\ lock' = [lock EXCEPT ![l] = LOCK_FLAG]
  /\ m_leave' = [m_leave EXCEPT ![t] = l]
  /\ UNCHANGED <<cs, ticket, m_lock, next, me, asked, pc>>

(* CAutoLeave is destroyed: it is assigned NULL.                           *)
AutoLeave(t) ==
  /\ pc[t] = "idle" /\ m_leave[t] # NULL
  /\ LeaveLock(m_leave[t])
  /\ m_leave' = [m_leave EXCEPT ![t] = NULL]
  /\ UNCHANGED <<ticket, m_lock, next, me, asked, pc>>

(* IsOwnedByCurrentThread, by a thread that guards the lock or no lock: it *)
(* tries to enter, looks at RecursionCount, and leaves again.              *)
IsOwnedByCurrentThread(t, l) ==
  /\ m_lock[t] \in {NULL, l} /\ m_leave[t] \in {NULL, l}
  /\ CanEnter(t, l)
  /\ Goto(t, "idle", "asking")
  /\ EnterSection(t, l)
  /\ asked' = [asked EXCEPT ![t] = l]
  /\ UNCHANGED <<ticket, lock, m_lock, m_leave, next, me>>

Answered(t) ==
  /\ Goto(t, "asking", "idle")
  /\ LeaveSection(asked[t])
  /\ asked' = [asked EXCEPT ![t] = NULL]
  /\ UNCHANGED <<ticket, lock, m_lock, m_leave, next, me>>

(* Free, and Init for another use, of a lock nobody guards any more.       *)
Free(l) ==
  /\ \A t \in Threads : l \notin {m_lock[t], m_leave[t], asked[t]}
  /\ cs' = IF l \in Crit THEN [cs EXCEPT ![l] = FreeSection] ELSE cs
  /\ lock' = IF l \in Crit THEN lock ELSE [lock EXCEPT ![l] = 0]
  /\ ticket' = IF l \in Fair THEN [ticket EXCEPT ![l] = 0] ELSE ticket
  /\ UNCHANGED <<m_lock, m_leave, next, me, asked, pc>>

Enter(t) == EnterCrit(t) \/ EnterLite(t) \/ TakeTicket(t) \/ Served(t)

Run(t) == Leave(t) \/ Enter(t) \/ AutoLeave(t) \/ Answered(t)

(* A thread that guards a lock goes on to an assignment in the end, the    *)
(* destructor's if no other; a thread that guards none need never assign.  *)
Release(t) == m_lock[t] # NULL /\ \E l \in Locks \union {NULL} : Assign(t, l)

Next ==
  \/ \E t \in Threads :
       \/ Run(t) \/ EnterAgain(t)
       \/ \E l \in Locks \union {NULL} : Assign(t, l)
       \/ \E l \in Lite : Try(t, l)
       \/ \E l \in Crit : IsOwnedByCurrentThread(t, l)
  \/ \E l \in Locks : Free(l)

Fairness == \A t \in Threads : WF_vars(Run(t)) /\ WF_vars(Release(t))

Spec == Init /\ [][Next]_vars

FairSpec == Spec /\ Fairness
-----------------------------------------------------------------------------
(* Types and ranges of the variables. *)
TypeOK ==
  /\ cs \in [Crit -> [OwningThread : Threads \union {NULL}, RecursionCount : 0..3]]
  /\ ticket \in [Fair -> Counter] /\ lock \in [Lite \union Fair -> Counter]
  /\ m_lock \in [Threads -> Locks \union {NULL}]
  /\ m_leave \in [Threads -> Crit \union Lite \union {NULL}]
  /\ next \in [Threads -> Locks \union {NULL}]
  /\ me \in [Threads -> Counter]
  /\ asked \in [Threads -> Crit \union {NULL}]
  /\ pc \in [Threads -> {"idle", "leave", "enter", "spin", "asking"}]

Guards(t, l) == m_lock[t] = l /\ pc[t] \in {"idle", "leave", "asking"}
Holds(t, l) == Guards(t, l) \/ m_leave[t] = l \/ asked[t] = l
Waits(t, l) == m_lock[t] = l /\ pc[t] = "spin"

(* A critical section knows its owner and how often it has entered, so     *)
(* IsOwnedByCurrentThread, which enters to find out, tells a thread that   *)
(* owns the lock from one that owned it only while it asked.               *)
SectionsCountEntries ==
  \A l \in Crit :
    /\ \A t \in Threads : cs[l].OwningThread = t <=> Holds(t, l)
    /\ \A t \in Threads : asked[t] = l =>
         ((cs[l].RecursionCount > 1) <=> (Guards(t, l) \/ m_leave[t] = l))

(* A flag that anyone may reset is set exactly while one thread holds it.  *)
FlagsHaveOneHolder ==
  \A l \in Lite : Cardinality({t \in Threads : Holds(t, l)}) = lock[l]

(* The tickets that are out, although the counters wrap. *)
Out(l) == Dist(ticket[l], lock[l])

(* Exactly the threads that hold or wait for a lock have its tickets, and  *)
(* the one that holds it has the ticket that is served: nobody else does.  *)
TicketsAreDistinct ==
  \A l \in Fair :
    LET users == {t \in Threads : Holds(t, l) \/ Waits(t, l)}
    IN  /\ Cardinality(users) = Out(l)
        /\ \A t \in users : Dist(me[t], lock[l]) < Out(l)
        /\ \A t, u \in users : me[t] = me[u] => t = u
        /\ \A t \in users : Holds(t, l) => me[t] = lock[l]

(* The state of every lock tells who holds it, whichever way it was taken: *)
(* by an auto lock, by hand, again by its owner, or only to ask.           *)
LocksKnowTheirHolders ==
  TypeOK /\ SectionsCountEntries /\ FlagsHaveOneHolder /\ TicketsAreDistinct

Mode(l) == [t \in Threads |-> IF Holds(t, l) THEN "write" ELSE "none"]

Abstract(l) == INSTANCE RWLockSpec WITH mode <- Mode(l)

(* Each lock, used through auto locks, behaves as the abstract lock that   *)
(* is only ever held for writing.                                          *)
ImplementsLock ==
  /\ \A l \in Locks : Abstract(l)!Init
  /\ [][\A l \in Locks : [Abstract(l)!Next]_(Mode(l))]_vars

(* An assignment leaves the old lock before it waits for the new one, so   *)
(* threads that exchange their locks in opposite orders never wait for     *)
(* each other, whatever the kinds: an assignment of a fair lock ends.  The *)
(* other two kinds do not promise their turn to a thread.                  *)
AssignmentEnds ==
  \A t \in Threads : pc[t] = "leave" /\ next[t] \in Fair ~> pc[t] = "idle"
=============================================================================
