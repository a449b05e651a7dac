--------------------------- MODULE CritSectProofs ---------------------------
(***************************************************************************)
(* Proofs about CritSect, for any finite set of threads, any locks of the  *)
(* three kinds, and any modulus above the number of threads.               *)
(*                                                                         *)
(* A step of a thread changes what that thread has of at most one lock, so *)
(* the proof is in two layers: what a step does to one lock (SectionEnter  *)
(* and the like, one lemma for each way a lock of a kind changes), and     *)
(* which of these every action is.                                         *)
(***************************************************************************)
EXTENDS CritSect, FiniteSetTheorems, TLAPS

(* Counters that wrap, for every modulus. *)

(* A distance is less than the modulus, and 0 from a value to itself only. *)
LEMMA DistType ==
  ASSUME NEW n \in Counter, NEW c \in Counter
  PROVE  /\ Dist(n, c) \in Nat /\ Dist(n, c) < Modulus
         /\ Dist(n, c) = 0 <=> n = c
BY ModulusAssumption DEF Dist, Counter

(* An increment takes a counter one away, unless it wraps round to c. *)
LEMMA DistAhead ==
  ASSUME NEW n \in Counter, NEW c \in Counter
  PROVE  /\ Inc(n) \in Counter
         /\ Dist(n, c) + 1 < Modulus => Dist(Inc(n), c) = Dist(n, c) + 1
BY ModulusAssumption DEF Dist, Counter, Inc

(* An increment takes a counter one nearer to a value ahead of it. *)
LEMMA DistBehind ==
  ASSUME NEW n \in Counter, NEW c \in Counter, n # c
  PROVE  Dist(n, Inc(c)) = Dist(n, c) - 1
BY ModulusAssumption DEF Dist, Counter, Inc
-----------------------------------------------------------------------------
(* Where a thread has what. *)
Shape ==
  \A t \in Threads :
    /\ pc[t] = "asking" <=> asked[t] # NULL
    /\ asked[t] # NULL => m_lock[t] \in {NULL, asked[t]} /\ m_leave[t] \in {NULL, asked[t]}
    /\ m_leave[t] # NULL => pc[t] \in {"idle", "asking"}
    /\ m_leave[t] \in Crit => m_lock[t] = m_leave[t]
    /\ m_leave[t] \in Lite => m_lock[t] = NULL
    /\ pc[t] = "spin" => m_lock[t] \in Fair

One(b) == IF b THEN 1 ELSE 0

(* How often a thread is inside a critical section. *)
Entries(t, l) == One(Guards(t, l)) + One(m_leave[t] = l) + One(asked[t] = l)

SectionInv(l) ==
  /\ cs[l] \in [OwningThread : Threads \union {NULL}, RecursionCount : Nat]
  /\ cs[l].OwningThread = NULL => cs[l].RecursionCount = 0
  /\ \A t \in Threads : IF cs[l].OwningThread = t
                        THEN Entries(t, l) = cs[l].RecursionCount /\ Entries(t, l) > 0
                        ELSE Entries(t, l) = 0

FlagInv(l) ==
  /\ lock[l] \in {0, 1}
  /\ lock[l] = 0 => \A t \in Threads : ~Holds(t, l)
  /\ lock[l] = 1 => \E t \in Threads : Holds(t, l)
  /\ \A t, u \in Threads : Holds(t, l) /\ Holds(u, l) => t = u

Users(l) == {t \in Threads : Holds(t, l) \/ Waits(t, l)}

TicketInv(l) ==
  /\ ticket[l] \in Counter /\ lock[l] \in Counter
  /\ Out(l) = Cardinality(Users(l))
  /\ \A t \in Users(l) : Dist(me[t], lock[l]) < Out(l)
  /\ \A t, u \in Users(l) : me[t] = me[u] => t = u
  /\ \A t \in Users(l) : Holds(t, l) => me[t] = lock[l]

LockInv ==
  /\ \A l \in Crit : SectionInv(l)
  /\ \A l \in Lite : FlagInv(l)
  /\ \A l \in Fair : TicketInv(l)

(* The types, without the bound on the recursion, which follows.           *)
TypeInv ==
  /\ cs \in [Crit -> [OwningThread : Threads \union {NULL}, RecursionCount : Nat]]
  /\ ticket \in [Fair -> Counter] /\ lock \in [Lite \union Fair -> Counter]
  /\ m_lock \in [Threads -> Locks \union {NULL}]
  /\ m_leave \in [Threads -> Crit \union Lite \union {NULL}]
  /\ next \in [Threads -> Locks \union {NULL}]
  /\ me \in [Threads -> Counter]
  /\ asked \in [Threads -> Crit \union {NULL}]
  /\ pc \in [Threads -> {"idle", "leave", "enter", "spin", "asking"}]

IInv == TypeInv /\ Shape /\ LockInv
-----------------------------------------------------------------------------
(* A section that a thread may enter is entered, and left, once more.      *)
LEMMA SectionSame ==
  ASSUME NEW l \in Crit, SectionInv(l), cs'[l] = cs[l],
         \A u \in Threads : Entries(u, l)' = Entries(u, l)
  PROVE  SectionInv(l)'
BY DEF SectionInv

LEMMA SectionEnter ==
  ASSUME NEW l \in Crit, NEW t \in Threads, SectionInv(l), CanEnter(t, l),
         cs'[l] = [OwningThread |-> t, RecursionCount |-> cs[l].RecursionCount + 1],
         Entries(t, l)' = Entries(t, l) + 1,
         \A u \in Threads \ {t} : Entries(u, l)' = Entries(u, l)
  PROVE  SectionInv(l)'
<1>1. t # NULL
  BY LocksAssumption
<1>2. Entries(t, l) = cs[l].RecursionCount
  BY <1>1 DEF SectionInv, CanEnter
<1>3. cs[l].RecursionCount \in Nat
  BY DEF SectionInv
<1>4. \A u \in Threads \ {t} : Entries(u, l) = 0
  BY LocksAssumption DEF SectionInv, CanEnter
<1> QED
  BY <1>1, <1>2, <1>3, <1>4 DEF SectionInv

(* What LeaveSection makes of a section. *)
OneLess(c) == IF c.RecursionCount - 1 = 0 THEN FreeSection
              ELSE [OwningThread |-> c.OwningThread, RecursionCount |-> c.RecursionCount - 1]

LEMMA LeaveSectionEffect ==
  ASSUME TypeInv, NEW k \in Crit, LeaveSection(k)
  PROVE  /\ cs' = [l \in Crit |-> cs'[l]]
         /\ cs'[k] = OneLess(cs[k])
         /\ \A l \in Crit \ {k} : cs'[l] = cs[l]
<1>1. cs' = [cs EXCEPT ![k] = OneLess(cs[k])]
  BY DEF LeaveSection, OneLess
<1>2. cs = [l \in Crit |-> cs[l]]
  BY DEF TypeInv
<1> QED
  BY <1>1, <1>2

LEMMA SectionLeave ==
  ASSUME NEW l \in Crit, NEW t \in Threads, SectionInv(l), Entries(t, l) # 0,
         cs'[l] = OneLess(cs[l]),
         Entries(t, l)' = Entries(t, l) - 1,
         \A u \in Threads \ {t} : Entries(u, l)' = Entries(u, l)
  PROVE  SectionInv(l)'
<1>1. t # NULL /\ NULL \notin Threads
  BY LocksAssumption
<1>2. /\ cs[l].OwningThread = t
      /\ Entries(t, l) = cs[l].RecursionCount
      /\ cs[l].RecursionCount \in Nat \ {0}
  BY DEF SectionInv
<1>3. \A u \in Threads \ {t} : Entries(u, l) = 0
  BY <1>2 DEF SectionInv
<1>4. CASE cs[l].RecursionCount = 1
  BY <1>1, <1>2, <1>3, <1>4 DEF SectionInv, FreeSection, OneLess
<1>5. CASE cs[l].RecursionCount # 1
  <2>1. cs'[l] = [OwningThread |-> t, RecursionCount |-> cs[l].RecursionCount - 1]
    BY <1>2, <1>5 DEF SectionInv, OneLess
  <2> QED
    BY <1>1, <1>2, <1>3, <1>5, <2>1 DEF SectionInv
<1> QED
  BY <1>4, <1>5

LEMMA FlagSame ==
  ASSUME NEW l \in Lite, FlagInv(l), lock'[l] = lock[l],
         \A u \in Threads : Holds(u, l)' <=> Holds(u, l)
  PROVE  FlagInv(l)'
BY DEF FlagInv

LEMMA FlagEnter ==
  ASSUME NEW l \in Lite, NEW t \in Threads, FlagInv(l), lock[l] = 0, lock'[l] = 1,
         Holds(t, l)', \A u \in Threads \ {t} : Holds(u, l)' <=> Holds(u, l)
  PROVE  FlagInv(l)'
BY DEF FlagInv

LEMMA FlagLeave ==
  ASSUME NEW l \in Lite, NEW t \in Threads, FlagInv(l), Holds(t, l), lock'[l] = 0,
         ~Holds(t, l)', \A u \in Threads \ {t} : Holds(u, l)' <=> Holds(u, l)
  PROVE  FlagInv(l)'
BY DEF FlagInv
-----------------------------------------------------------------------------
LEMMA UsersFinite ==
  ASSUME NEW l \in Fair
  PROVE  /\ Users(l) \subseteq Threads /\ IsFiniteSet(Users(l))
         /\ Cardinality(Users(l)) \in Nat
         /\ Cardinality(Users(l)) <= Cardinality(Threads)
         /\ Cardinality(Threads) \in Nat
<1>1. Users(l) \subseteq Threads
  BY DEF Users
<1> QED
  BY <1>1, ThreadsAssumption, FS_Subset, FS_CardinalityType

LEMMA TicketSame ==
  ASSUME NEW l \in Fair, TicketInv(l), ticket'[l] = ticket[l], lock'[l] = lock[l],
         Users(l)' = Users(l),
         \A u \in Users(l) : me'[u] = me[u] /\ (Holds(u, l)' => me[u] = lock[l])
  PROVE  TicketInv(l)'
BY DEF TicketInv, Out

LEMMA TicketTaken ==
  ASSUME NEW l \in Fair, NEW t \in Threads, TicketInv(l), me \in [Threads -> Counter],
         ticket'[l] = Inc(ticket[l]), lock'[l] = lock[l], me'[t] = ticket[l],
         Users(l)' = Users(l) \union {t}, t \notin Users(l), ~Holds(t, l)',
         \A u \in Users(l) : me'[u] = me[u] /\ (Holds(u, l)' => Holds(u, l))
  PROVE  TicketInv(l)'
<1>1. /\ Cardinality(Users(l)') = Cardinality(Users(l)) + 1
      /\ Cardinality(Users(l)') <= Cardinality(Threads)
  <2>1. Users(l)' \subseteq Threads
    BY UsersFinite
  <2> QED
    BY <2>1, UsersFinite, ThreadsAssumption, FS_AddElement, FS_Subset
<1>2. Out(l) = Cardinality(Users(l)) /\ Out(l) \in Nat
  BY UsersFinite DEF TicketInv
<1>3. Dist(ticket[l], lock[l]) + 1 < Modulus
  BY <1>1, <1>2, UsersFinite, ThreadsFit, ModulusAssumption DEF Out
<1>4. Inc(ticket[l]) \in Counter /\ Dist(Inc(ticket[l]), lock[l]) = Out(l) + 1
  BY <1>3, DistAhead DEF TicketInv, Out
<1>5. Out(l)' = Out(l) + 1
  BY <1>4 DEF Out
<1>6. \A u \in Users(l) : me[u] \in Counter /\ Dist(me[u], lock[l]) \in Nat
  BY UsersFinite, DistType DEF TicketInv
<1>7. \A u \in Users(l)' : Dist(me'[u], lock'[l]) < Out(l)'
  BY <1>2, <1>5, <1>6 DEF TicketInv, Out
<1>8. \A u \in Users(l) : me[u] # ticket[l]
  BY <1>6 DEF TicketInv, Out
<1>9. \A u, v \in Users(l)' : me'[u] = me'[v] => u = v
  BY <1>8 DEF TicketInv
<1>10. \A u \in Users(l)' : Holds(u, l)' => me'[u] = lock'[l]
  BY DEF TicketInv
<1> QED
  BY <1>1, <1>2, <1>4, <1>5, <1>7, <1>9, <1>10 DEF TicketInv

LEMMA TicketDone ==
  ASSUME NEW l \in Fair, NEW t \in Threads, TicketInv(l), me \in [Threads -> Counter],
         ticket'[l] = ticket[l], lock'[l] = Inc(lock[l]),
         Users(l)' = Users(l) \ {t}, t \in Users(l), Holds(t, l),
         \A u \in Users(l) \ {t} : me'[u] = me[u] /\ (Holds(u, l)' => Holds(u, l))
  PROVE  TicketInv(l)'
<1>1. Cardinality(Users(l)') = Cardinality(Users(l)) - 1
  BY UsersFinite, FS_RemoveElement
<1>2. Out(l) = Cardinality(Users(l)) /\ Out(l) \in Nat /\ Out(l) # 0
  BY UsersFinite, FS_EmptySet DEF TicketInv
<1>3. me[t] = lock[l] /\ ticket[l] # lock[l]
  BY <1>2, DistType DEF TicketInv, Out
<1>4. Inc(lock[l]) \in Counter /\ Dist(ticket[l], Inc(lock[l])) = Out(l) - 1
  BY <1>3, DistBehind, DistAhead DEF TicketInv, Out
<1>5. Out(l)' = Out(l) - 1
  BY <1>4 DEF Out
<1>6. \A u \in Users(l) \ {t} :
         /\ me[u] \in Counter /\ me[u] # lock[l] /\ ~Holds(u, l)
         /\ Dist(me[u], lock[l]) \in Nat
         /\ Dist(me[u], Inc(lock[l])) = Dist(me[u], lock[l]) - 1
  BY <1>3, UsersFinite, DistType, DistBehind DEF TicketInv
<1>7. \A u \in Users(l)' : Dist(me'[u], lock'[l]) < Out(l)'
  BY <1>2, <1>5, <1>6 DEF TicketInv
<1>8. \A u, v \in Users(l)' : me'[u] = me'[v] => u = v
  BY DEF TicketInv
<1>9. \A u \in Users(l)' : ~Holds(u, l)'
  BY <1>6
<1> QED
  BY <1>1, <1>2, <1>4, <1>5, <1>7, <1>8, <1>9 DEF TicketInv
-----------------------------------------------------------------------------
(* What Leave of a lock does to every lock. *)
LEMMA LeaveLockEffect ==
  ASSUME TypeInv, NEW k \in Locks \union {NULL}, LeaveLock(k)
  PROVE  /\ \A l \in Crit : cs'[l] = IF l = k THEN OneLess(cs[l]) ELSE cs[l]
         /\ \A l \in Lite : lock'[l] = IF l = k THEN 0 ELSE lock[l]
         /\ \A l \in Fair : lock'[l] = IF l = k THEN Inc(lock[l]) ELSE lock[l]
         /\ cs' = [l \in Crit |-> cs'[l]]
         /\ lock' \in [Lite \union Fair -> Counter]
<1>0. cs = [l \in Crit |-> cs[l]] /\ 0 \in Counter
  BY ModulusAssumption DEF TypeInv, Counter
<1>1. CASE k \in Crit
  <2>1. LeaveSection(k) /\ lock' = lock
    BY <1>1, LocksAssumption DEF LeaveLock
  <2> QED
    BY <1>0, <1>1, <2>1, LocksAssumption, LeaveSectionEffect DEF TypeInv
<1>2. CASE k \in Lite
  <2>1. lock' = [lock EXCEPT ![k] = 0] /\ cs' = cs
    BY <1>2, LocksAssumption DEF LeaveLock
  <2> QED
    BY <1>0, <1>2, <2>1, LocksAssumption DEF TypeInv
<1>3. CASE k \in Fair
  <2>1. lock' = [lock EXCEPT ![k] = Inc(@)] /\ cs' = cs
    BY <1>3, LocksAssumption DEF LeaveLock
  <2>2. Inc(lock[k]) \in Counter
    BY <1>3, DistAhead DEF TypeInv
  <2> QED
    BY <1>0, <1>3, <2>1, <2>2, LocksAssumption DEF TypeInv
<1>4. CASE k = NULL
  <2>1. lock' = lock /\ cs' = cs
    BY <1>4, LocksAssumption DEF LeaveLock, Locks
  <2> QED
    BY <1>0, <1>4, <2>1, LocksAssumption DEF TypeInv, Locks
<1> QED
  BY <1>1, <1>2, <1>3, <1>4 DEF Locks

ThreadStep(t) ==
  \/ Run(t) \/ EnterAgain(t)
  \/ \E l \in Locks \union {NULL} : Assign(t, l)
  \/ \E l \in Lite : Try(t, l)
  \/ \E l \in Crit : IsOwnedByCurrentThread(t, l)

(* A step of t leaves alone what the other threads have. *)
LEMMA OthersKeep ==
  ASSUME TypeInv, NEW t \in Threads, ThreadStep(t), NEW u \in Threads \ {t}
  PROVE  /\ pc'[u] = pc[u] /\ m_lock'[u] = m_lock[u] /\ m_leave'[u] = m_leave[u]
         /\ asked'[u] = asked[u] /\ me'[u] = me[u]
         /\ \A l \in Locks : /\ Holds(u, l)' <=> Holds(u, l)
                             /\ Waits(u, l)' <=> Waits(u, l)
                             /\ Entries(u, l)' = Entries(u, l)
<1>1. /\ pc'[u] = pc[u] /\ m_lock'[u] = m_lock[u] /\ m_leave'[u] = m_leave[u]
      /\ asked'[u] = asked[u] /\ me'[u] = me[u]
  <2>1. CASE Leave(t)
    BY <2>1 DEF Leave, Goto, TypeInv
  <2>2. CASE Enter(t)
    BY <2>2 DEF Enter, EnterCrit, EnterLite, TakeTicket, Served, Goto, TypeInv
  <2>3. CASE AutoLeave(t) \/ Answered(t)
    BY <2>3 DEF AutoLeave, Answered, Goto, TypeInv
  <2>4. CASE EnterAgain(t)
    BY <2>4 DEF EnterAgain, TypeInv
  <2>5. ASSUME NEW l \in Locks \union {NULL}, Assign(t, l)
        PROVE  /\ pc'[u] = pc[u] /\ m_lock'[u] = m_lock[u] /\ m_leave'[u] = m_leave[u]
               /\ asked'[u] = asked[u] /\ me'[u] = me[u]
    BY <2>5 DEF Assign, Goto, TypeInv
  <2>6. ASSUME NEW l \in Lite, Try(t, l)
        PROVE  /\ pc'[u] = pc[u] /\ m_lock'[u] = m_lock[u] /\ m_leave'[u] = m_leave[u]
               /\ asked'[u] = asked[u] /\ me'[u] = me[u]
    BY <2>6 DEF Try, TypeInv
  <2>7. ASSUME NEW l \in Crit, IsOwnedByCurrentThread(t, l)
        PROVE  /\ pc'[u] = pc[u] /\ m_lock'[u] = m_lock[u] /\ m_leave'[u] = m_leave[u]
               /\ asked'[u] = asked[u] /\ me'[u] = me[u]
    BY <2>7 DEF IsOwnedByCurrentThread, Goto, TypeInv
  <2> QED
    BY <2>1, <2>2, <2>3, <2>4, <2>5, <2>6, <2>7 DEF ThreadStep, Run
<1> QED
  BY <1>1 DEF Holds, Guards, Waits, Entries, One

(* A thread holds a critical section while it has entered it. *)
LEMMA EntriesMeanHolds ==
  ASSUME NEW t \in Threads, NEW l \in Locks
  PROVE  /\ Entries(t, l) \in 0..3
         /\ Holds(t, l) <=> Entries(t, l) # 0
BY DEF Entries, One, Holds
-----------------------------------------------------------------------------
LEMMA CritStep ==
  ASSUME IInv, NEW t \in Threads, ThreadStep(t), NEW l \in Crit
  PROVE  SectionInv(l)'
<1>1. /\ SectionInv(l) /\ l \in Locks /\ l # NULL /\ l \notin Lite \union Fair
      /\ TypeInv /\ Shape
  BY LocksAssumption DEF IInv, LockInv, Locks
<1>2. \A u \in Threads \ {t} : Entries(u, l)' = Entries(u, l)
  BY <1>1, OthersKeep
<1> DEFINE Same == cs'[l] = cs[l] /\ Entries(t, l)' = Entries(t, l)
<1>3. Same => SectionInv(l)'
  BY <1>1, <1>2, SectionSame
<1>4. ASSUME Leave(t) PROVE SectionInv(l)'
  <2>1. m_lock[t] \in Locks \union {NULL} /\ pc[t] = "leave" /\ asked[t] = NULL
        /\ m_leave[t] = NULL
    BY <1>1, <1>4 DEF TypeInv, Shape, Leave, Goto
  <2>2. pc'[t] \in {"idle", "enter"} /\ (pc'[t] = "idle" => m_lock'[t] = NULL)
        /\ asked' = asked /\ m_leave' = m_leave
    BY <1>1, <1>4 DEF TypeInv, Leave, Goto
  <2>3. Entries(t, l)' = 0
    BY <1>1, <2>1, <2>2 DEF Entries, One, Guards
  <2>4. CASE m_lock[t] = l
    <3>1. Entries(t, l) = 1
      BY <1>1, <2>1, <2>4 DEF Entries, One, Guards
    <3>2. cs'[l] = OneLess(cs[l])
      BY <1>1, <1>4, <2>1, <2>4, LeaveLockEffect DEF Leave
    <3> QED
      BY <1>1, <1>2, <2>3, <3>1, <3>2, SectionLeave
  <2>5. CASE m_lock[t] # l
    <3>1. Entries(t, l) = 0
      BY <1>1, <2>1, <2>5 DEF Entries, One, Guards
    <3>2. cs'[l] = cs[l]
      BY <1>1, <1>4, <2>1, <2>5, LeaveLockEffect DEF Leave
    <3> QED
      BY <1>3, <2>3, <3>1, <3>2
  <2> QED
    BY <2>4, <2>5
<1>5. ASSUME EnterCrit(t) PROVE SectionInv(l)'
  <2>1. pc[t] = "enter" /\ pc'[t] = "idle" /\ m_lock[t] \in Crit /\ CanEnter(t, m_lock[t])
        /\ cs' = [cs EXCEPT ![m_lock[t]] =
                    [OwningThread |-> t, RecursionCount |-> @.RecursionCount + 1]]
        /\ m_lock' = m_lock /\ m_leave' = m_leave /\ asked' = asked
    BY <1>1, <1>5 DEF EnterCrit, Goto, EnterSection, TypeInv
  <2>2. m_leave[t] = NULL /\ asked[t] = NULL
    BY <1>1, <2>1 DEF Shape
  <2>3. CASE m_lock[t] = l
    <3>1. Entries(t, l) = 0 /\ Entries(t, l)' = 1
      BY <1>1, <2>1, <2>2, <2>3 DEF Entries, One, Guards
    <3>2. cs'[l] = [OwningThread |-> t, RecursionCount |-> cs[l].RecursionCount + 1]
      BY <1>1, <2>1, <2>3 DEF TypeInv
    <3> QED
      BY <1>1, <1>2, <2>1, <2>3, <3>1, <3>2, SectionEnter
  <2>4. CASE m_lock[t] # l
    BY <1>1, <1>3, <2>1, <2>4 DEF TypeInv, Entries, One, Guards
  <2> QED
    BY <2>3, <2>4
<1>6. ASSUME EnterLite(t) \/ TakeTicket(t) \/ Served(t) PROVE SectionInv(l)'
  <2>1. m_lock[t] \in Lite \union Fair /\ m_lock' = m_lock
        /\ m_leave' = m_leave /\ asked' = asked /\ cs' = cs
    BY <1>1, <1>6 DEF Shape, EnterLite, TakeTicket, Served, Goto, locks
  <2> QED
    BY <1>1, <1>3, <2>1 DEF Entries, One, Guards
<1>7. ASSUME EnterAgain(t) PROVE SectionInv(l)'
  <2>1. pc[t] = "idle" /\ pc' = pc /\ m_lock[t] \in Crit /\ m_leave[t] = NULL
        /\ m_lock' = m_lock /\ asked' = asked /\ m_leave'[t] = m_lock[t]
        /\ cs' = [cs EXCEPT ![m_lock[t]] =
                    [OwningThread |-> t, RecursionCount |-> @.RecursionCount + 1]]
    BY <1>1, <1>7 DEF EnterAgain, EnterSection, TypeInv
  <2>2. asked[t] = NULL
    BY <1>1, <2>1 DEF Shape
  <2>3. CASE m_lock[t] = l
    <3>1. Entries(t, l) = 1 /\ Entries(t, l)' = 2
      BY <1>1, <2>1, <2>2, <2>3 DEF Entries, One, Guards
    <3>2. cs'[l] = [OwningThread |-> t, RecursionCount |-> cs[l].RecursionCount + 1]
      BY <1>1, <2>1, <2>3 DEF TypeInv
    <3>3. CanEnter(t, l)
      BY <1>1, <3>1 DEF SectionInv, CanEnter
    <3> QED
      BY <1>1, <1>2, <3>1, <3>2, <3>3, SectionEnter
  <2>4. CASE m_lock[t] # l
    BY <1>1, <1>3, <2>1, <2>4 DEF TypeInv, Entries, One, Guards
  <2> QED
    BY <2>3, <2>4
<1>8. ASSUME AutoLeave(t) PROVE SectionInv(l)'
  <2>1. m_leave[t] \in Locks \union {NULL} /\ m_leave[t] # NULL /\ m_leave'[t] = NULL
        /\ pc[t] = "idle" /\ pc' = pc /\ m_lock' = m_lock /\ asked' = asked
        /\ LeaveLock(m_leave[t])
    BY <1>1, <1>8 DEF AutoLeave, TypeInv, Locks
  <2>2. asked[t] = NULL
    BY <1>1, <2>1 DEF Shape
  <2>3. CASE m_leave[t] = l
    <3>1. Entries(t, l) = 2 /\ Entries(t, l)' = 1
      BY <1>1, <2>1, <2>2, <2>3 DEF Entries, One, Guards, Shape
    <3>2. cs'[l] = OneLess(cs[l])
      BY <1>1, <2>1, <2>3, LeaveLockEffect
    <3> QED
      BY <1>1, <1>2, <3>1, <3>2, SectionLeave
  <2>4. CASE m_leave[t] # l
    <3>1. cs'[l] = cs[l]
      BY <1>1, <2>1, <2>4, LeaveLockEffect
    <3> QED
      BY <1>1, <1>3, <2>1, <2>4, <3>1 DEF Entries, One, Guards
  <2> QED
    BY <2>3, <2>4
<1>9. ASSUME Answered(t) PROVE SectionInv(l)'
  <2>1. pc[t] = "asking" /\ pc'[t] = "idle" /\ asked'[t] = NULL /\ m_lock' = m_lock
        /\ m_leave' = m_leave /\ asked[t] \in Crit /\ LeaveSection(asked[t])
    BY <1>1, <1>9 DEF Answered, Goto, TypeInv, Shape
  <2>2. cs'[l] = IF l = asked[t] THEN OneLess(cs[l]) ELSE cs[l]
    BY <1>1, <2>1, LeaveSectionEffect
  <2>3. CASE asked[t] = l
    <3>1. Entries(t, l) # 0 /\ Entries(t, l)' = Entries(t, l) - 1
      BY <1>1, <2>1, <2>3 DEF Entries, One, Guards
    <3> QED
      BY <1>1, <1>2, <2>2, <2>3, <3>1, SectionLeave
  <2>4. CASE asked[t] # l
    BY <1>1, <1>3, <2>1, <2>2, <2>4 DEF Entries, One, Guards
  <2> QED
    BY <2>3, <2>4
<1>10. ASSUME NEW k \in Locks \union {NULL}, Assign(t, k) PROVE SectionInv(l)'
  <2>1. pc[t] = "idle" /\ pc'[t] = "leave" /\ cs' = cs /\ m_lock' = m_lock
        /\ m_leave' = m_leave /\ asked' = asked
    BY <1>1, <1>10 DEF Assign, Goto, TypeInv, locks
  <2> QED
    BY <1>3, <2>1 DEF Entries, One, Guards
<1>11. ASSUME NEW k \in Lite, Try(t, k) PROVE SectionInv(l)'
  <2>1. pc' = pc /\ cs' = cs /\ m_lock' = m_lock /\ m_leave[t] = NULL
        /\ m_leave'[t] = k /\ asked' = asked /\ k # l
    BY <1>1, <1>11 DEF Try, TypeInv
  <2> QED
    BY <1>1, <1>3, <2>1 DEF Entries, One, Guards
<1>12. ASSUME NEW k \in Crit, IsOwnedByCurrentThread(t, k) PROVE SectionInv(l)'
  <2>1. pc[t] = "idle" /\ pc'[t] = "asking" /\ m_lock' = m_lock /\ m_leave' = m_leave
        /\ asked'[t] = k /\ CanEnter(t, k)
        /\ cs' = [cs EXCEPT ![k] =
                    [OwningThread |-> t, RecursionCount |-> @.RecursionCount + 1]]
    BY <1>1, <1>12 DEF IsOwnedByCurrentThread, Goto, EnterSection, TypeInv
  <2>2. asked[t] = NULL
    BY <1>1, <2>1 DEF Shape
  <2>3. CASE k = l
    <3>1. Entries(t, l)' = Entries(t, l) + 1
      BY <1>1, <2>1, <2>2, <2>3 DEF Entries, One, Guards
    <3>2. cs'[l] = [OwningThread |-> t, RecursionCount |-> cs[l].RecursionCount + 1]
      BY <1>1, <2>1, <2>3 DEF TypeInv
    <3> QED
      BY <1>1, <1>2, <2>1, <2>3, <3>1, <3>2, SectionEnter
  <2>4. CASE k # l
    BY <1>1, <1>3, <2>1, <2>2, <2>4 DEF TypeInv, Entries, One, Guards
  <2> QED
    BY <2>3, <2>4
<1> QED
  BY <1>4, <1>5, <1>6, <1>7, <1>8, <1>9, <1>10, <1>11, <1>12 DEF ThreadStep, Run, Enter

LEMMA LiteStep ==
  ASSUME IInv, NEW t \in Threads, ThreadStep(t), NEW l \in Lite
  PROVE  FlagInv(l)'
<1>1. /\ FlagInv(l) /\ l \in Locks /\ l # NULL /\ l \notin Crit \union Fair
      /\ TypeInv /\ Shape
  BY LocksAssumption DEF IInv, LockInv, Locks
<1>2. \A u \in Threads \ {t} : Holds(u, l)' <=> Holds(u, l)
  BY <1>1, OthersKeep
<1> DEFINE Same == lock'[l] = lock[l] /\ (Holds(t, l)' <=> Holds(t, l))
<1>3. Same => FlagInv(l)'
  BY <1>1, <1>2, FlagSame
<1>0. asked[t] # l /\ asked'[t] # l
  <2>1. asked[t] # l
    BY <1>1 DEF TypeInv
  <2>2. asked'[t] \in {asked[t], NULL} \union Crit
    BY <1>1 DEF ThreadStep, Run, Leave, Enter, EnterCrit, EnterLite, TakeTicket, Served,
                EnterAgain, AutoLeave, Answered, Assign, Try, IsOwnedByCurrentThread, TypeInv
  <2> QED
    BY <1>1, <2>1, <2>2
<1>4. ASSUME Leave(t) PROVE FlagInv(l)'
  <2>1. m_lock[t] \in Locks \union {NULL} /\ pc[t] = "leave" /\ m_leave[t] = NULL
        /\ m_leave' = m_leave
        /\ pc'[t] \in {"idle", "enter"} /\ (pc'[t] = "idle" => m_lock'[t] = NULL)
        /\ LeaveLock(m_lock[t])
    BY <1>1, <1>4 DEF TypeInv, Shape, Leave, Goto
  <2>2. ~Holds(t, l)' /\ (Holds(t, l) <=> m_lock[t] = l)
    BY <1>0, <1>1, <2>1 DEF Holds, Guards
  <2>3. lock'[l] = IF l = m_lock[t] THEN 0 ELSE lock[l]
    BY <2>1, LeaveLockEffect, <1>1
  <2> QED
    BY <1>1, <1>2, <1>3, <2>2, <2>3, FlagLeave
<1>5. ASSUME EnterLite(t) PROVE FlagInv(l)'
  <2>1. pc[t] = "enter" /\ pc'[t] = "idle" /\ m_lock[t] \in Lite /\ m_lock' = m_lock
        /\ lock[m_lock[t]] = 0 /\ lock' = [lock EXCEPT ![m_lock[t]] = 1]
        /\ m_leave' = m_leave /\ m_leave[t] = NULL
    BY <1>1, <1>5 DEF EnterLite, Goto, TypeInv, Shape, LOCK_FLAG
  <2>2. CASE m_lock[t] = l
    <3>1. lock[l] = 0 /\ lock'[l] = 1 /\ Holds(t, l)'
      BY <1>1, <2>1, <2>2 DEF TypeInv, Holds, Guards
    <3> QED
      BY <1>1, <1>2, <3>1, FlagEnter
  <2>3. CASE m_lock[t] # l
    BY <1>0, <1>1, <1>3, <2>1, <2>3 DEF TypeInv, Holds, Guards
  <2> QED
    BY <2>2, <2>3
<1>6. ASSUME EnterCrit(t) \/ TakeTicket(t) \/ Served(t) PROVE FlagInv(l)'
  <2>1. m_lock[t] \in Crit \union Fair /\ m_lock' = m_lock /\ m_leave' = m_leave
        /\ lock' = lock
    BY <1>1, <1>6 DEF Shape, EnterCrit, TakeTicket, Served, Goto, locks
  <2> QED
    BY <1>0, <1>1, <1>3, <2>1 DEF Holds, Guards
<1>7. ASSUME EnterAgain(t) PROVE FlagInv(l)'
  <2>1. pc' = pc /\ m_lock' = m_lock /\ m_leave[t] = NULL /\ m_leave'[t] \in Crit
        /\ lock' = lock
    BY <1>1, <1>7 DEF EnterAgain, TypeInv
  <2> QED
    BY <1>0, <1>1, <1>3, <2>1 DEF Holds, Guards
<1>8. ASSUME AutoLeave(t) PROVE FlagInv(l)'
  <2>1. m_leave[t] \in Locks \union {NULL} /\ m_leave'[t] = NULL
        /\ pc' = pc /\ m_lock' = m_lock /\ LeaveLock(m_leave[t])
    BY <1>1, <1>8 DEF AutoLeave, TypeInv, Locks
  <2>2. lock'[l] = IF l = m_leave[t] THEN 0 ELSE lock[l]
    BY <1>1, <2>1, LeaveLockEffect
  <2>3. CASE m_leave[t] = l
    <3>1. m_lock[t] = NULL
      BY <1>1, <2>3 DEF Shape
    <3>2. Holds(t, l) /\ ~Holds(t, l)'
      BY <1>0, <1>1, <2>1, <2>3, <3>1 DEF Holds, Guards
    <3> QED
      BY <1>1, <1>2, <2>2, <2>3, <3>2, FlagLeave
  <2>4. CASE m_leave[t] # l
    BY <1>0, <1>1, <1>3, <2>1, <2>2, <2>4 DEF Holds, Guards
  <2> QED
    BY <2>3, <2>4
<1>9. ASSUME Answered(t) PROVE FlagInv(l)'
  <2>1. pc[t] = "asking" /\ pc'[t] = "idle" /\ m_lock' = m_lock
        /\ m_leave' = m_leave /\ lock' = lock
    BY <1>1, <1>9 DEF Answered, Goto, TypeInv
  <2> QED
    BY <1>0, <1>3, <2>1 DEF Holds, Guards
<1>10. ASSUME NEW k \in Locks \union {NULL}, Assign(t, k) PROVE FlagInv(l)'
  <2>1. pc[t] = "idle" /\ pc'[t] = "leave" /\ lock' = lock /\ m_lock' = m_lock
        /\ m_leave' = m_leave
    BY <1>1, <1>10 DEF Assign, Goto, TypeInv, locks
  <2> QED
    BY <1>0, <1>3, <2>1 DEF Holds, Guards
<1>11. ASSUME NEW k \in Lite, Try(t, k) PROVE FlagInv(l)'
  <2>1. pc' = pc /\ m_lock' = m_lock /\ m_leave[t] = NULL /\ m_leave'[t] = k
        /\ lock[k] = 0 /\ lock' = [lock EXCEPT ![k] = 1] /\ m_lock[t] = NULL
    BY <1>1, <1>11 DEF Try, TypeInv, LOCK_FLAG
  <2>2. CASE k = l
    <3>1. lock[l] = 0 /\ lock'[l] = 1 /\ Holds(t, l)'
      BY <1>1, <2>1, <2>2 DEF TypeInv, Holds
    <3> QED
      BY <1>1, <1>2, <3>1, FlagEnter
  <2>3. CASE k # l
    BY <1>0, <1>1, <1>3, <2>1, <2>3 DEF TypeInv, Holds, Guards
  <2> QED
    BY <2>2, <2>3
<1>12. ASSUME NEW k \in Crit, IsOwnedByCurrentThread(t, k) PROVE FlagInv(l)'
  <2>1. pc[t] = "idle" /\ pc'[t] = "asking" /\ m_lock' = m_lock /\ m_leave' = m_leave
        /\ lock' = lock
    BY <1>1, <1>12 DEF IsOwnedByCurrentThread, Goto, TypeInv
  <2> QED
    BY <1>0, <1>3, <2>1 DEF Holds, Guards
<1> QED
  BY <1>4, <1>5, <1>6, <1>7, <1>8, <1>9, <1>10, <1>11, <1>12 DEF ThreadStep, Run, Enter

LEMMA FairStep ==
  ASSUME IInv, NEW t \in Threads, ThreadStep(t), NEW l \in Fair
  PROVE  TicketInv(l)'
<1>1. /\ TicketInv(l) /\ l \in Locks /\ l # NULL /\ l \notin Crit \union Lite
      /\ TypeInv /\ Shape
  BY LocksAssumption DEF IInv, LockInv, Locks
<1>2. \A u \in Threads \ {t} : /\ Holds(u, l)' <=> Holds(u, l)
                               /\ Waits(u, l)' <=> Waits(u, l)
                               /\ me'[u] = me[u]
  BY <1>1, OthersKeep
<1>3. /\ Holds(t, l) <=> Guards(t, l)
      /\ Holds(t, l)' <=> Guards(t, l)'
  <2>1. asked[t] # l /\ m_leave[t] # l
    BY <1>1 DEF TypeInv
  <2>2. asked'[t] \in {asked[t], NULL} \union Crit /\ m_leave'[t] \in {m_leave[t], NULL} \union Crit \union Lite
    BY <1>1 DEF ThreadStep, Run, Leave, Enter, EnterCrit, EnterLite, TakeTicket, Served,
                EnterAgain, AutoLeave, Answered, Assign, Try, IsOwnedByCurrentThread, TypeInv
  <2> QED
    BY <1>1, <2>1, <2>2 DEF Holds
<1> DEFINE Same == /\ lock'[l] = lock[l] /\ ticket'[l] = ticket[l] /\ me'[t] = me[t]
                   /\ Guards(t, l)' <=> Guards(t, l)
                   /\ Waits(t, l)' <=> Waits(t, l)
<1>4. Same => TicketInv(l)'
  <2> SUFFICES ASSUME Same PROVE TicketInv(l)'
    OBVIOUS
  <2>1. Users(l)' = Users(l)
    BY <1>2, <1>3 DEF Users
  <2>2. \A u \in Users(l) : me'[u] = me[u] /\ (Holds(u, l)' => me[u] = lock[l])
    BY <1>1, <1>2, <1>3 DEF Users, TicketInv
  <2> QED
    BY <1>1, <2>1, <2>2, TicketSame
<1> HIDE DEF Same
<1>5. ASSUME Leave(t) PROVE TicketInv(l)'
  <2>1. /\ m_lock[t] \in Locks \union {NULL} /\ pc[t] = "leave"
        /\ pc'[t] \in {"idle", "enter"} /\ (pc'[t] = "idle" => m_lock'[t] = NULL)
        /\ LeaveLock(m_lock[t]) /\ ticket' = ticket
    BY <1>1, <1>5 DEF TypeInv, Leave, Goto
  <2>2. lock'[l] = IF l = m_lock[t] THEN Inc(lock[l]) ELSE lock[l]
    BY <2>1, LeaveLockEffect, <1>1
  <2>3. ~Guards(t, l)' /\ ~Waits(t, l)' /\ ~Waits(t, l) /\ (Guards(t, l) <=> m_lock[t] = l)
    BY <1>1, <2>1 DEF Guards, Waits
  <2>4. CASE m_lock[t] = l
    <3>1. Users(l)' = Users(l) \ {t} /\ t \in Users(l)
      BY <1>2, <1>3, <2>3, <2>4 DEF Users
    <3>2. \A u \in Users(l) \ {t} : me'[u] = me[u] /\ (Holds(u, l)' => Holds(u, l))
      BY <1>2 DEF Users
    <3>3. lock'[l] = Inc(lock[l]) /\ ticket'[l] = ticket[l] /\ Holds(t, l)
      BY <1>3, <2>1, <2>2, <2>3, <2>4
    <3>4. me \in [Threads -> Counter]
      BY <1>1 DEF TypeInv
    <3> QED
      BY <1>1, <3>1, <3>2, <3>3, <3>4, TicketDone
  <2>5. CASE m_lock[t] # l
    <3>1. Users(l)' = Users(l) /\ t \notin Users(l)
      BY <1>2, <1>3, <2>3, <2>5 DEF Users
    <3>2. \A u \in Users(l) : me'[u] = me[u] /\ (Holds(u, l)' => me[u] = lock[l])
      BY <1>1, <1>2, <3>1 DEF Users, TicketInv
    <3> QED
      BY <1>1, <2>1, <2>2, <2>5, <3>1, <3>2, TicketSame
  <2> QED
    BY <2>4, <2>5
<1>6. ASSUME EnterCrit(t) PROVE TicketInv(l)'
  BY <1>1, <1>4, <1>6 DEF Same, EnterCrit, Goto, TypeInv, Guards, Waits
<1>7. ASSUME EnterLite(t) PROVE TicketInv(l)'
  BY <1>1, <1>4, <1>7 DEF Same, EnterLite, Goto, TypeInv, Guards, Waits
<1>8. ASSUME TakeTicket(t) PROVE TicketInv(l)'
  <2>1. /\ m_lock[t] \in Fair /\ m_lock' = m_lock /\ lock' = lock
        /\ pc[t] = "enter" /\ pc'[t] = "spin" /\ me'[t] = ticket[m_lock[t]]
        /\ ticket' = [ticket EXCEPT ![m_lock[t]] = Inc(@)]
    BY <1>1, <1>8 DEF TakeTicket, Goto, TypeInv
  <2>2. ~Guards(t, l) /\ ~Guards(t, l)' /\ ~Waits(t, l) /\ (Waits(t, l)' <=> m_lock[t] = l)
    BY <2>1 DEF Guards, Waits
  <2>3. CASE m_lock[t] = l
    <3>1. Users(l)' = Users(l) \union {t} /\ t \notin Users(l)
      BY <1>2, <1>3, <2>2, <2>3 DEF Users
    <3>2. \A u \in Users(l) : me'[u] = me[u] /\ (Holds(u, l)' => Holds(u, l))
      BY <1>2, <3>1 DEF Users
    <3>3. /\ lock'[l] = lock[l] /\ ticket'[l] = Inc(ticket[l]) /\ me'[t] = ticket[l]
          /\ ~Holds(t, l)'
      BY <1>1, <1>3, <2>1, <2>2, <2>3 DEF TypeInv
    <3>4. me \in [Threads -> Counter]
      BY <1>1 DEF TypeInv
    <3> QED
      BY <1>1, <3>1, <3>2, <3>3, <3>4, TicketTaken
  <2>4. CASE m_lock[t] # l
    <3>1. Users(l)' = Users(l) /\ t \notin Users(l)
      BY <1>2, <1>3, <2>2, <2>4 DEF Users
    <3>2. \A u \in Users(l) : me'[u] = me[u] /\ (Holds(u, l)' => me[u] = lock[l])
      BY <1>1, <1>2, <3>1 DEF Users, TicketInv
    <3>3. ticket'[l] = ticket[l] /\ lock'[l] = lock[l]
      BY <1>1, <2>1, <2>4 DEF TypeInv
    <3> QED
      BY <1>1, <3>1, <3>2, <3>3, TicketSame
  <2> QED
    BY <2>3, <2>4
<1>9. ASSUME Served(t) PROVE TicketInv(l)'
  <2>1. /\ m_lock' = m_lock /\ lock' = lock /\ ticket' = ticket /\ me' = me
        /\ pc[t] = "spin" /\ pc'[t] = "idle" /\ lock[m_lock[t]] = me[t]
    BY <1>1, <1>9 DEF Served, Goto, TypeInv, locks
  <2>2. Guards(t, l)' <=> Waits(t, l)
    BY <2>1 DEF Guards, Waits
  <2>3. ~Guards(t, l) /\ ~Waits(t, l)'
    BY <2>1 DEF Guards, Waits
  <2>4. Users(l)' = Users(l)
    BY <1>2, <1>3, <2>2, <2>3 DEF Users
  <2>5. \A u \in Users(l) : me'[u] = me[u] /\ (Holds(u, l)' => me[u] = lock[l])
    <3>1. Holds(t, l)' => me[t] = lock[l]
      BY <1>3, <2>1, <2>2 DEF Waits
    <3> QED
      BY <1>1, <1>2, <2>1, <3>1 DEF Users, TicketInv
  <2> QED
    BY <1>1, <2>1, <2>4, <2>5, TicketSame
<1>10. ASSUME EnterAgain(t) PROVE TicketInv(l)'
  BY <1>1, <1>4, <1>10 DEF Same, EnterAgain, TypeInv, Guards, Waits
<1>11. ASSUME AutoLeave(t) PROVE TicketInv(l)'
  <2>1. /\ m_leave[t] \in Locks \union {NULL} /\ m_leave[t] # l /\ LeaveLock(m_leave[t])
        /\ pc' = pc /\ m_lock' = m_lock /\ ticket' = ticket /\ me' = me
    BY <1>1, <1>11 DEF AutoLeave, TypeInv, Locks
  <2>2. lock'[l] = lock[l]
    BY <1>1, <2>1, LeaveLockEffect
  <2> QED
    BY <1>4, <2>1, <2>2 DEF Same, Guards, Waits
<1>12. ASSUME Answered(t) PROVE TicketInv(l)'
  BY <1>1, <1>4, <1>12 DEF Same, Answered, Goto, TypeInv, Guards, Waits
<1>13. ASSUME NEW k \in Locks \union {NULL}, Assign(t, k) PROVE TicketInv(l)'
  BY <1>1, <1>4, <1>13 DEF Same, Assign, Goto, TypeInv, Guards, Waits, locks
<1>14. ASSUME NEW k \in Lite, Try(t, k) PROVE TicketInv(l)'
  BY <1>1, <1>4, <1>14 DEF Same, Try, TypeInv, Guards, Waits
<1>15. ASSUME NEW k \in Crit, IsOwnedByCurrentThread(t, k) PROVE TicketInv(l)'
  BY <1>1, <1>4, <1>15 DEF Same, IsOwnedByCurrentThread, Goto, TypeInv, Guards, Waits
<1> QED
  BY <1>5, <1>6, <1>7, <1>8, <1>9, <1>10, <1>11, <1>12, <1>13, <1>14, <1>15
     DEF ThreadStep, Run, Enter

(* A lock that is freed has no holder, and looks so already but for the    *)
(* tickets, which start again.                                             *)
LEMMA FreeKeeps ==
  ASSUME IInv, NEW k \in Locks, Free(k)
  PROVE  /\ TypeInv' /\ Shape' /\ LockInv'
         /\ \A l \in Locks : Mode(l)' = Mode(l)
<1>1. TypeInv /\ Shape /\ LockInv
  BY DEF IInv
<1>2. /\ m_lock' = m_lock /\ m_leave' = m_leave /\ asked' = asked /\ pc' = pc
      /\ me' = me /\ next' = next
  BY DEF Free
<1>3. \A t \in Threads, l \in Locks :
        /\ Holds(t, l)' <=> Holds(t, l)
        /\ Waits(t, l)' <=> Waits(t, l)
        /\ Entries(t, l)' = Entries(t, l)
  BY <1>2 DEF Holds, Guards, Waits, Entries, One
<1>4. \A t \in Threads : Entries(t, k) = 0 /\ ~Holds(t, k) /\ ~Waits(t, k)
  BY DEF Free, Holds, Guards, Waits, Entries, One
<1>5. ASSUME NEW l \in Crit PROVE SectionInv(l)' /\ cs'[l] = cs[l]
  <2>1. SectionInv(l) /\ l \in Locks
    BY <1>1 DEF LockInv, Locks
  <2>2. CASE l = k
    <3>1. cs[l].OwningThread = NULL /\ cs[l] = FreeSection
      BY <1>4, <2>1, <2>2 DEF SectionInv, FreeSection
    <3>2. cs'[l] = FreeSection
      BY <1>1, <2>2 DEF Free, TypeInv
    <3> QED
      BY <1>3, <2>1, <3>1, <3>2, SectionSame
  <2>3. CASE l # k
    <3>1. cs'[l] = cs[l]
      BY <1>1, <2>3 DEF Free, TypeInv
    <3> QED
      BY <1>3, <2>1, <3>1, SectionSame
  <2> QED
    BY <2>2, <2>3
<1>6. 0 \in Counter /\ Dist(0, 0) = 0
  BY ModulusAssumption, DistType DEF Counter
<1>7. /\ lock' \in [Lite \union Fair -> Counter] /\ ticket' \in [Fair -> Counter]
      /\ \A l \in Lite : lock'[l] = IF l = k THEN 0 ELSE lock[l]
      /\ \A l \in Fair : lock'[l] = IF l = k THEN 0 ELSE lock[l]
      /\ \A l \in Fair : ticket'[l] = IF l = k THEN 0 ELSE ticket[l]
  BY <1>1, <1>6, LocksAssumption DEF Free, TypeInv, Locks
<1>8. ASSUME NEW l \in Lite PROVE FlagInv(l)'
  <2>1. FlagInv(l) /\ l \in Locks
    BY <1>1 DEF LockInv, Locks
  <2>2. l = k => lock[l] = 0
    BY <1>4, <2>1 DEF FlagInv
  <2> QED
    BY <1>3, <1>7, <2>1, <2>2, FlagSame
<1>9. ASSUME NEW l \in Fair PROVE TicketInv(l)'
  <2>1. TicketInv(l) /\ l \in Locks
    BY <1>1 DEF LockInv, Locks
  <2>2. Users(l)' = Users(l)
    BY <1>3, <2>1 DEF Users
  <2>3. CASE l = k
    <3>1. Users(l) = {}
      BY <1>4, <2>3 DEF Users
    <3>2. Out(l)' = 0
      BY <1>6, <1>7, <2>3 DEF Out
    <3> QED
      BY <1>6, <1>7, <2>2, <2>3, <3>1, <3>2, FS_EmptySet DEF TicketInv
  <2>4. CASE l # k
    <3>1. \A u \in Users(l) : me'[u] = me[u] /\ (Holds(u, l)' => me[u] = lock[l])
      BY <1>2, <1>3, <2>1 DEF TicketInv, Users
    <3> QED
      BY <1>7, <2>1, <2>2, <2>4, <3>1, TicketSame
  <2> QED
    BY <2>3, <2>4
<1>10. TypeInv'
  <2>1. cs' = [l \in Crit |-> cs'[l]]
    BY <1>1 DEF Free, TypeInv
  <2>2. cs' \in [Crit -> [OwningThread : Threads \union {NULL}, RecursionCount : Nat]]
    BY <1>1, <1>5, <2>1 DEF TypeInv
  <2> QED
    BY <1>1, <1>2, <1>7, <2>2 DEF TypeInv
<1>11. Shape'
  BY <1>1, <1>2 DEF Shape
<1>12. \A l \in Locks : Mode(l)' = Mode(l)
  BY <1>3 DEF Mode
<1> QED
  BY <1>5, <1>8, <1>9, <1>10, <1>11, <1>12 DEF LockInv
-----------------------------------------------------------------------------
(* The types of what a thread has, and where it has it. *)
LEMMA StepKeepsShape ==
  ASSUME IInv, NEW t \in Threads, ThreadStep(t)
  PROVE  TypeInv' /\ Shape'
<1>1. TypeInv /\ Shape /\ LockInv
  BY DEF IInv
<1> DEFINE TypesOfThreads ==
      /\ m_lock \in [Threads -> Locks \union {NULL}]
      /\ m_leave \in [Threads -> Crit \union Lite \union {NULL}]
      /\ next \in [Threads -> Locks \union {NULL}]
      /\ me \in [Threads -> Counter]
      /\ asked \in [Threads -> Crit \union {NULL}]
      /\ pc \in [Threads -> {"idle", "leave", "enter", "spin", "asking"}]
<1> DEFINE TypesOfLocks ==
      /\ cs = [l \in Crit |-> cs[l]]
      /\ ticket \in [Fair -> Counter] /\ lock \in [Lite \union Fair -> Counter]
<1> DEFINE ShapeOf(u) ==
      /\ pc[u] = "asking" <=> asked[u] # NULL
      /\ asked[u] # NULL => m_lock[u] \in {NULL, asked[u]} /\ m_leave[u] \in {NULL, asked[u]}
      /\ m_leave[u] # NULL => pc[u] \in {"idle", "asking"}
      /\ m_leave[u] \in Crit => m_lock[u] = m_leave[u]
      /\ m_leave[u] \in Lite => m_lock[u] = NULL
      /\ pc[u] = "spin" => m_lock[u] \in Fair
<1>2. 0 \in Counter /\ 1 \in Counter /\ Crit \subseteq Locks /\ Lite \subseteq Locks
      /\ NULL \notin Crit \union Lite \union Fair
      /\ Crit \intersect Lite = {} /\ Crit \intersect Fair = {} /\ Lite \intersect Fair = {}
  <2>1. Cardinality(Threads) \in Nat /\ Cardinality(Threads) # 0
    BY ThreadsAssumption, FS_CardinalityType, FS_EmptySet
  <2> QED
    BY <2>1, ThreadsFit, ModulusAssumption, LocksAssumption DEF Counter, Locks
<1>3. ShapeOf(t) /\ TypesOfThreads /\ TypesOfLocks
  BY <1>1 DEF Shape, TypeInv
<1>4. \A l \in Fair : Inc(ticket[l]) \in Counter
  BY <1>1, DistAhead DEF TypeInv
<1>5. TypesOfThreads' /\ ShapeOf(t)'
  <2>1. CASE Leave(t)
    BY <1>2, <1>3, <2>1 DEF Leave, Goto
  <2>2. CASE EnterCrit(t) \/ EnterLite(t) \/ Served(t)
    BY <1>2, <1>3, <2>2 DEF EnterCrit, EnterLite, Served, Goto
  <2>3. CASE TakeTicket(t)
    BY <1>1, <1>2, <1>3, <2>3 DEF TakeTicket, Goto, TypeInv
  <2>4. CASE AutoLeave(t) \/ Answered(t)
    BY <1>2, <1>3, <2>4 DEF AutoLeave, Answered, Goto
  <2>5. CASE EnterAgain(t)
    BY <1>2, <1>3, <2>5 DEF EnterAgain
  <2>6. ASSUME NEW k \in Locks \union {NULL}, Assign(t, k) PROVE TypesOfThreads' /\ ShapeOf(t)'
    BY <1>2, <1>3, <2>6 DEF Assign, Goto
  <2>7. ASSUME NEW k \in Lite, Try(t, k) PROVE TypesOfThreads' /\ ShapeOf(t)'
    BY <1>2, <1>3, <2>7 DEF Try
  <2>8. ASSUME NEW k \in Crit, IsOwnedByCurrentThread(t, k) PROVE TypesOfThreads' /\ ShapeOf(t)'
    BY <1>2, <1>3, <2>8 DEF IsOwnedByCurrentThread, Goto
  <2> QED
    BY <2>1, <2>2, <2>3, <2>4, <2>5, <2>6, <2>7, <2>8 DEF ThreadStep, Run, Enter
<1>6. TypesOfLocks'
  <2>1. CASE Leave(t)
    <3>1. m_lock[t] \in Locks \union {NULL} /\ LeaveLock(m_lock[t]) /\ ticket' = ticket
      BY <1>3, <2>1 DEF Leave
    <3> QED
      BY <1>1, <1>3, <3>1, LeaveLockEffect
  <2>2. CASE AutoLeave(t)
    <3>1. m_leave[t] \in Locks \union {NULL} /\ LeaveLock(m_leave[t]) /\ ticket' = ticket
      BY <1>3, <2>2 DEF AutoLeave, Locks
    <3> QED
      BY <1>1, <1>3, <3>1, LeaveLockEffect
  <2>3. CASE Answered(t)
    <3>1. asked[t] \in Crit /\ LeaveSection(asked[t]) /\ lock' = lock /\ ticket' = ticket
      BY <1>3, <2>3 DEF Answered, Goto
    <3> QED
      BY <1>1, <1>3, <3>1, LeaveSectionEffect
  <2>4. CASE EnterCrit(t) \/ EnterAgain(t)
    BY <1>3, <2>4 DEF EnterCrit, EnterAgain, EnterSection
  <2>5. CASE EnterLite(t) \/ Served(t)
    BY <1>2, <1>3, <2>5 DEF EnterLite, Served, LOCK_FLAG, locks
  <2>6. CASE TakeTicket(t)
    BY <1>3, <1>4, <2>6 DEF TakeTicket
  <2>7. ASSUME NEW k \in Locks \union {NULL}, Assign(t, k) PROVE TypesOfLocks'
    BY <1>3, <2>7 DEF Assign, locks
  <2>8. ASSUME NEW k \in Lite, Try(t, k) PROVE TypesOfLocks'
    BY <1>2, <1>3, <2>8 DEF Try, LOCK_FLAG
  <2>9. ASSUME NEW k \in Crit, IsOwnedByCurrentThread(t, k) PROVE TypesOfLocks'
    BY <1>3, <2>9 DEF IsOwnedByCurrentThread, EnterSection
  <2> QED
    BY <2>1, <2>2, <2>3, <2>4, <2>5, <2>6, <2>7, <2>8, <2>9 DEF ThreadStep, Run, Enter
<1>7. \A l \in Crit : cs'[l] \in [OwningThread : Threads \union {NULL}, RecursionCount : Nat]
  BY CritStep DEF SectionInv
<1>8. TypeInv'
  BY <1>5, <1>6, <1>7 DEF TypeInv
<1>9. ASSUME NEW u \in Threads \ {t} PROVE ShapeOf(u)'
  <2>1. ShapeOf(u)
    BY <1>1 DEF Shape
  <2> QED
    BY <1>1, <2>1, OthersKeep
<1> QED
  BY <1>5, <1>8, <1>9 DEF Shape

LEMMA InitIInv == Init => IInv
<1> SUFFICES ASSUME Init PROVE IInv
  OBVIOUS
<1>1. 0 \in Counter /\ NULL \notin Locks \union Threads /\ Dist(0, 0) = 0
      /\ Locks = Crit \union Lite \union Fair
  BY ModulusAssumption, LocksAssumption, DistType DEF Counter, Locks
<1>2. TypeInv
  BY <1>1 DEF Init, TypeInv, FreeSection
<1>3. Shape
  BY <1>1 DEF Init, Shape
<1>4. \A t \in Threads, l \in Locks : ~Holds(t, l) /\ ~Waits(t, l) /\ Entries(t, l) = 0
  BY <1>1 DEF Init, Holds, Guards, Waits, Entries, One
<1>5. \A l \in Crit : SectionInv(l)
  BY <1>1, <1>4 DEF Init, SectionInv, FreeSection
<1>6. \A l \in Lite : FlagInv(l)
  BY <1>1, <1>4 DEF Init, FlagInv
<1>7. ASSUME NEW l \in Fair PROVE TicketInv(l)
  <2>1. Users(l) = {}
    BY <1>1, <1>4 DEF Users
  <2>2. ticket[l] = 0 /\ lock[l] = 0
    BY DEF Init
  <2> QED
    BY <1>1, <2>1, <2>2, FS_EmptySet DEF TicketInv, Out
<1> QED
  BY <1>2, <1>3, <1>5, <1>6, <1>7 DEF IInv, LockInv

LEMMA NextIInv == IInv /\ [Next]_vars => IInv'
<1> SUFFICES ASSUME IInv, [Next]_vars PROVE IInv'
  OBVIOUS
<1>1. ASSUME NEW t \in Threads, ThreadStep(t) PROVE IInv'
  <2>1. LockInv'
    BY <1>1, CritStep, LiteStep, FairStep DEF LockInv
  <2> QED
    BY <1>1, <2>1, StepKeepsShape DEF IInv
<1>2. ASSUME NEW k \in Locks, Free(k) PROVE IInv'
  BY <1>2, FreeKeeps DEF IInv
<1>3. CASE UNCHANGED vars
  <2>1. TypeInv' /\ Shape'
    BY <1>3 DEF vars, locks, IInv, TypeInv, Shape
  <2>2. \A t \in Threads, l \in Locks :
          /\ Holds(t, l)' <=> Holds(t, l)
          /\ Waits(t, l)' <=> Waits(t, l)
          /\ Entries(t, l)' = Entries(t, l)
    BY <1>3 DEF vars, Holds, Guards, Waits, Entries, One
  <2>3. \A l \in Crit : SectionInv(l)'
    BY <1>3, <2>2, SectionSame DEF vars, locks, IInv, LockInv, Locks
  <2>4. \A l \in Lite : FlagInv(l)'
    BY <1>3, <2>2, FlagSame DEF vars, locks, IInv, LockInv, Locks
  <2>5. ASSUME NEW l \in Fair PROVE TicketInv(l)'
    <3>1. TicketInv(l) /\ l \in Locks
      BY DEF IInv, LockInv, Locks
    <3>2. Users(l)' = Users(l)
      BY <2>2, <3>1 DEF Users
    <3>3. \A u \in Users(l) : me'[u] = me[u] /\ (Holds(u, l)' => me[u] = lock[l])
      BY <1>3, <2>2, <3>1 DEF vars, TicketInv, Users
    <3> QED
      BY <1>3, <3>1, <3>2, <3>3, TicketSame DEF vars, locks
  <2> QED
    BY <2>1, <2>3, <2>4, <2>5 DEF IInv, LockInv
<1> QED
  BY <1>1, <1>2, <1>3 DEF Next, ThreadStep

(* Always: the types, where a thread has what, and of every lock what its  *)
(* state says of its holders.                                              *)
THEOREM InvariantHolds == Spec => []IInv
BY InitIInv, NextIInv, PTL DEF Spec
-----------------------------------------------------------------------------
LEMMA InvImpliesHolders ==
  ASSUME IInv
  PROVE  LocksKnowTheirHolders
<1>1. TypeInv /\ Shape /\ LockInv /\ NULL \notin Threads
  BY LocksAssumption DEF IInv
<1>2. TypeOK
  <2>1. ASSUME NEW l \in Crit
        PROVE  cs[l] \in [OwningThread : Threads \union {NULL}, RecursionCount : 0..3]
    <3>1. SectionInv(l) /\ l \in Locks
      BY <1>1 DEF LockInv, Locks
    <3>2. cs[l].RecursionCount \in 0..3
      BY <3>1, EntriesMeanHolds DEF SectionInv
    <3> QED
      BY <3>1, <3>2 DEF SectionInv
  <2> QED
    BY <1>1, <2>1 DEF TypeOK, TypeInv
<1>3. SectionsCountEntries
  <2> SUFFICES ASSUME NEW l \in Crit
      PROVE  /\ \A t \in Threads : cs[l].OwningThread = t <=> Holds(t, l)
             /\ \A t \in Threads : asked[t] = l =>
                  ((cs[l].RecursionCount > 1) <=> (Guards(t, l) \/ m_leave[t] = l))
    BY DEF SectionsCountEntries
  <2>1. SectionInv(l) /\ l \in Locks
    BY <1>1 DEF LockInv, Locks
  <2>2. \A t \in Threads : cs[l].OwningThread = t <=> Holds(t, l)
    BY <2>1, EntriesMeanHolds DEF SectionInv
  <2>3. ASSUME NEW t \in Threads, asked[t] = l
        PROVE  (cs[l].RecursionCount > 1) <=> (Guards(t, l) \/ m_leave[t] = l)
    <3>1. cs[l].RecursionCount = Entries(t, l)
      BY <2>1, <2>2, <2>3 DEF SectionInv, Holds
    <3> QED
      BY <2>3, <3>1 DEF Entries, One
  <2> QED
    BY <2>2, <2>3
<1>4. FlagsHaveOneHolder
  <2> SUFFICES ASSUME NEW l \in Lite
      PROVE  Cardinality({t \in Threads : Holds(t, l)}) = lock[l]
    BY DEF FlagsHaveOneHolder
  <2>1. FlagInv(l)
    BY <1>1 DEF LockInv
  <2>2. CASE lock[l] = 0
    <3>1. {t \in Threads : Holds(t, l)} = {}
      BY <2>1, <2>2 DEF FlagInv
    <3> QED
      BY <2>2, <3>1, FS_EmptySet
  <2>3. CASE lock[l] = 1
    <3>1. PICK h \in Threads : Holds(h, l)
      BY <2>1, <2>3 DEF FlagInv
    <3>2. {t \in Threads : Holds(t, l)} = {h}
      BY <2>1, <3>1 DEF FlagInv
    <3> QED
      BY <2>3, <3>2, FS_Singleton
  <2> QED
    BY <2>1, <2>2, <2>3 DEF FlagInv
<1>5. TicketsAreDistinct
  BY <1>1 DEF LockInv, TicketInv, Users, TicketsAreDistinct
<1> QED
  BY <1>2, <1>3, <1>4, <1>5 DEF LocksKnowTheirHolders

(* The state of every lock tells who holds it: the section its owner and   *)
(* how often it has entered, the flag that there is one holder, the        *)
(* tickets who holds and who waits, although they wrap.                    *)
THEOREM HoldersAreKnown == Spec => []LocksKnowTheirHolders
<1>1. IInv => LocksKnowTheirHolders
  BY InvImpliesHolders
<1> QED
  BY <1>1, InvariantHolds, PTL
-----------------------------------------------------------------------------
(* One thread at most holds a lock. *)
Excludes ==
  \A l \in Locks : \A t, u \in Threads : Holds(t, l) /\ Holds(u, l) => t = u

LEMMA InvExcludes ==
  ASSUME IInv
  PROVE  Excludes
<1> SUFFICES ASSUME NEW l \in Locks, NEW t \in Threads, NEW u \in Threads,
                    Holds(t, l), Holds(u, l)
    PROVE  t = u
  BY DEF Excludes
<1>1. CASE l \in Crit
  BY <1>1, EntriesMeanHolds DEF IInv, LockInv, SectionInv
<1>2. CASE l \in Lite
  BY <1>2 DEF IInv, LockInv, FlagInv
<1>3. CASE l \in Fair
  BY <1>3 DEF IInv, LockInv, TicketInv, Users
<1> QED
  BY <1>1, <1>2, <1>3 DEF Locks

LEMMA InitRefines ==
  ASSUME Init, NEW l \in Locks
  PROVE  Abstract(l)!Init
<1>1. \A t \in Threads : ~Holds(t, l)
  BY LocksAssumption DEF Init, Holds, Guards
<1> QED
  BY <1>1 DEF Abstract!Init, Mode

(* To one lock, a step of a thread is that it gets the lock, which nobody  *)
(* has, that it gives it back, or nothing.                                 *)
LEMMA ThreadRefines ==
  ASSUME IInv, Excludes', NEW t \in Threads, ThreadStep(t), NEW l \in Locks
  PROVE  [Abstract(l)!Next]_(Mode(l))
<1>1. \A u \in Threads \ {t} : Holds(u, l)' <=> Holds(u, l)
  BY OthersKeep DEF IInv
<1>2. CASE Holds(t, l)' <=> Holds(t, l)
  <2>1. Mode(l)' = Mode(l)
    BY <1>1, <1>2 DEF Mode
  <2> QED
    BY <2>1
<1>3. CASE Holds(t, l)' /\ ~Holds(t, l)
  <2>1. \A u \in Threads \ {t} : ~Holds(u, l)'
    BY <1>3 DEF Excludes
  <2>2. \A u \in Threads : Mode(l)[u] = "none"
    BY <1>1, <1>3, <2>1 DEF Mode
  <2>3. Mode(l)' = [Mode(l) EXCEPT ![t] = "write"]
    BY <1>1, <1>3 DEF Mode
  <2>4. Abstract(l)!AcquireWrite(t)
    BY <2>2, <2>3 DEF Abstract!AcquireWrite
  <2> QED
    BY <2>4 DEF Abstract!Next
<1>4. CASE Holds(t, l) /\ ~Holds(t, l)'
  <2>1. Mode(l)[t] # "none"
    BY <1>4 DEF Mode
  <2>2. Mode(l)' = [Mode(l) EXCEPT ![t] = "none"]
    BY <1>1, <1>4 DEF Mode
  <2>3. Abstract(l)!Release(t)
    BY <2>1, <2>2 DEF Abstract!Release
  <2> QED
    BY <2>3 DEF Abstract!Next
<1> QED
  BY <1>2, <1>3, <1>4

LEMMA NextRefines ==
  IInv /\ Excludes' /\ [Next]_vars => [\A l \in Locks : [Abstract(l)!Next]_(Mode(l))]_vars
<1> SUFFICES ASSUME IInv, Excludes', Next
    PROVE  \A l \in Locks : [Abstract(l)!Next]_(Mode(l))
  OBVIOUS
<1>1. ASSUME NEW k \in Locks, Free(k)
      PROVE  \A l \in Locks : [Abstract(l)!Next]_(Mode(l))
  BY <1>1, FreeKeeps
<1> QED
  BY <1>1, ThreadRefines DEF Next, ThreadStep

(* Each lock, used through auto locks, behaves as the abstract lock that   *)
(* is only ever held for writing.                                          *)
THEOREM Implementation == Spec => ImplementsLock
<1>1. Spec => []IInv
  BY InvariantHolds
<1>2. IInv => Excludes
  BY InvExcludes
<1>3. Init => \A l \in Locks : Abstract(l)!Init
  BY InitRefines
<1> QED
  BY <1>1, <1>2, <1>3, NextRefines, PTL DEF Spec, ImplementsLock
=============================================================================
