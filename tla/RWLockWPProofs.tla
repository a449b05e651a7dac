--------------------------- MODULE RWLockWPProofs ---------------------------
(***************************************************************************)
(* Proofs about RWLockWP, for any finite set of threads and any modulus    *)
(* that the counters' assumption allows.                                   *)
(*                                                                         *)
(* That one writer competes at a time follows from the tickets: those of   *)
(* the queued writers are distinct, and lie between the two counters,      *)
(* though the counters wrap.  That a reader lets the writers before it     *)
(* pass needs to know what the value it has read first still says about    *)
(* them when it reads the other counter.  Exclusion needs neither; it      *)
(* follows from what the lock word counts.                                 *)
(***************************************************************************)
EXTENDS RWLockWP, FiniteSetTheorems, TLAPS

(* Counters that wrap, for every modulus. *)

(* A distance is less than the modulus, and 0 from a value to itself only. *)
LEMMA DistType ==
  ASSUME NEW n \in Counter, NEW c \in Counter
  PROVE  /\ Dist(n, c) \in Nat /\ Dist(n, c) < Modulus
         /\ Dist(n, c) = 0 <=> n = c
BY ModulusAssumption DEF Dist, Counter

(* An increment takes a counter one away, unless it wraps round to c. *)
LEMMA DistAhead ==
  ASSUME NEW n \in Counter, NEW c \in Counter
  PROVE  /\ Inc(n) \in Counter
         /\ Dist(n, c) + 1 < Modulus => Dist(Inc(n), c) = Dist(n, c) + 1
BY ModulusAssumption DEF Dist, Counter, Inc

(* An increment takes a counter one nearer to a value ahead of it. *)
LEMMA DistBehind ==
  ASSUME NEW n \in Counter, NEW c \in Counter, n # c
  PROVE  Dist(n, Inc(c)) = Dist(n, c) - 1
BY ModulusAssumption DEF Dist, Counter, Inc

(* There and back again is once round. *)
LEMMA DistAround ==
  ASSUME NEW n \in Counter, NEW c \in Counter, n # c
  PROVE  Dist(n, c) + Dist(c, n) = Modulus
BY ModulusAssumption DEF Dist, Counter
-----------------------------------------------------------------------------
(* How far a counter value is ahead of the completions. *)
Off(n) == Dist(n, write_completions)

(* A writer past its turn has the ticket that the completions have reached. *)
TicketOf(t) == IF pc[t] = "wTurn" THEN seen[t] ELSE write_completions

(* There are as many queued writers as requests that are not completed,    *)
(* each with a ticket of its own among those.                              *)
TicketsInLine ==
  /\ Off(write_requests) = Cardinality(Queued)
  /\ \A t \in Queued : Off(TicketOf(t)) < Off(write_requests)
  /\ \A t, u \in Queued : TicketOf(t) = TicketOf(u) => t = u

(* What a reader remembers of the counter it read first, as long as there  *)
(* is a writer it has to wait for: requests that are still ahead of that   *)
(* writer's ticket, or completions it was not far from.                    *)
RemembersRequests(t, w) ==
  Off(TicketOf(w)) < Off(seen[t]) /\ Off(seen[t]) <= Off(write_requests)

RemembersCompletions(t, w) ==
  Dist(write_completions, seen[t]) + Off(TicketOf(w)) < Cardinality(Threads)

ReadersRemember ==
  \A t \in Threads :
    /\ ahead[t] \subseteq Queued
    /\ pc[t] \notin {"rCheck", "rThenCompletions", "rThenRequests"} => ahead[t] = {}
    /\ \A w \in ahead[t] :
         /\ pc[t] = "rThenCompletions" => RemembersRequests(t, w)
         /\ pc[t] = "rThenRequests" => RemembersCompletions(t, w)

Readers == {t \in Threads : pc[t] \in {"announced", "reading"}}
Writers == {t \in Threads : pc[t] = "writing"}

(* The word counts the announced readers and the writer. *)
WordCountsHolders ==
  lock = READER_COUNT_INC * Cardinality(Readers)
           + WRITER_ACTIVE_FLAG * Cardinality(Writers)

(* A writer holds the lock alone. *)
MutualExclusion ==
  \A t, u \in Threads :
    t # u /\ pc[t] = "writing" => pc[u] \notin {"reading", "writing"}

WordInv == WordCountsHolders /\ MutualExclusion
LineInv == TicketsInLine /\ ReadersRemember

(* The inductive invariant: the types, what the word counts, who is in     *)
(* line.                                                                   *)
IInv == TypeOK /\ WordInv /\ LineInv
-----------------------------------------------------------------------------
(* The queued writers are some of the threads, so the counters are less    *)
(* than half around apart.                                                 *)
LEMMA QueuedIsFinite ==
  /\ Queued \subseteq Threads /\ IsFiniteSet(Queued)
  /\ Cardinality(Queued) \in Nat /\ Cardinality(Threads) \in Nat
  /\ Cardinality(Queued) <= Cardinality(Threads)
<1>1. Queued \subseteq Threads
  BY DEF Queued
<1> QED
  BY <1>1, ThreadsAssumption, FS_Subset, FS_CardinalityType
-----------------------------------------------------------------------------
LEMMA InitType == Init => TypeOK
BY ModulusAssumption, ThreadsFit DEF Init, TypeOK, PC, Counter

LEMMA InitLine == Init => LineInv
<1> SUFFICES ASSUME Init PROVE LineInv
  OBVIOUS
<1>1. Queued = {} /\ Off(write_requests) = 0
  BY DEF Init, Queued, Off, Dist
<1>2. TicketsInLine
  BY <1>1, FS_EmptySet DEF TicketsInLine
<1>3. ReadersRemember
  BY DEF Init, ReadersRemember
<1> QED
  BY <1>2, <1>3 DEF LineInv

(* A step that leaves the queued writers, their tickets and the counters.  *)
LEMMA SameLine ==
  ASSUME TicketsInLine, Queued' = Queued,
         write_requests' = write_requests, write_completions' = write_completions,
         \A w \in Queued : TicketOf(w)' = TicketOf(w)
  PROVE  TicketsInLine'
BY DEF TicketsInLine, Off, Dist

(* Tickets are counter values. *)
LEMMA TicketType ==
  ASSUME TypeOK, NEW w \in Threads
  PROVE  TicketOf(w) \in Counter
BY DEF TypeOK, TicketOf

(* The writer whose ticket is up is the only one past its turn.            *)
LEMMA OneInTurn ==
  ASSUME TypeOK, TicketsInLine, NEW t \in Queued, NEW w \in Queued, t # w,
         pc[t] # "wTurn"
  PROVE  /\ TicketOf(t) = write_completions
         /\ TicketOf(w) # write_completions
         /\ pc[w] = "wTurn"
BY DEF TicketsInLine, TicketOf

(* A writer joins the line behind all the others. *)
LEMMA RequestJoins ==
  ASSUME TypeOK, TicketsInLine, NEW t \in Threads, WriteRequest(t)
  PROVE  /\ Queued' = Queued \cup {t} /\ t \notin Queued
         /\ \A w \in Queued : TicketOf(w)' = TicketOf(w)
         /\ TicketOf(t)' = write_requests
         /\ Off(write_requests)' = Off(write_requests) + 1
         /\ TicketsInLine'
<1>1. Queued' = Queued \cup {t} /\ t \notin Queued
  BY DEF WriteRequest, Goto, TypeOK, Queued
<1>2. \A w \in Queued : TicketOf(w)' = TicketOf(w)
  BY <1>1, QueuedIsFinite DEF WriteRequest, Goto, TypeOK, TicketOf
<1>3. TicketOf(t)' = write_requests
  BY DEF WriteRequest, Goto, TypeOK, TicketOf
<1>4. /\ Cardinality(Queued') = Cardinality(Queued) + 1
      /\ Cardinality(Queued') <= Cardinality(Threads)
      /\ Cardinality(Queued') \in Nat
  <2>1. Cardinality(Queued') = Cardinality(Queued) + 1
    BY <1>1, QueuedIsFinite, FS_AddElement
  <2>2. Queued' \subseteq Threads
    BY <1>1, QueuedIsFinite
  <2> QED
    BY <2>1, <2>2, ThreadsAssumption, QueuedIsFinite, FS_Subset
<1>5. Off(write_requests)' = Off(write_requests) + 1
  <2>1. Off(write_requests) = Cardinality(Queued)
    BY DEF TicketsInLine
  <2>2. Dist(write_requests, write_completions) + 1 < Modulus
    BY <2>1, <1>4, QueuedIsFinite, ModulusAssumption, ThreadsFit DEF Off
  <2>3. Dist(Inc(write_requests), write_completions)
          = Dist(write_requests, write_completions) + 1
    BY <2>2, DistAhead DEF TypeOK
  <2> QED
    BY <2>3 DEF Off, Dist, WriteRequest
<1>6. \A w \in Queued : Off(TicketOf(w))' = Off(TicketOf(w))
  BY <1>2 DEF Off, Dist, WriteRequest
<1>7. Off(TicketOf(t))' = Off(write_requests)
  BY <1>3 DEF Off, Dist, WriteRequest
<1>8. Off(write_requests) \in Nat /\ \A w \in Queued : Off(TicketOf(w)) \in Nat
  BY DistType, TicketType, QueuedIsFinite DEF Off, TypeOK
<1>9. Off(write_requests)' = Cardinality(Queued')
  BY <1>4, <1>5 DEF TicketsInLine
<1>10. \A w \in Queued' : Off(TicketOf(w))' < Off(write_requests)'
  BY <1>1, <1>5, <1>6, <1>7, <1>8 DEF TicketsInLine
<1>11. \A w \in Queued : TicketOf(w) # write_requests
  BY <1>8 DEF TicketsInLine
<1>12. \A w, u \in Queued' : TicketOf(w)' = TicketOf(u)' => w = u
  BY <1>1, <1>2, <1>3, <1>11 DEF TicketsInLine
<1> QED
  BY <1>1, <1>2, <1>3, <1>5, <1>9, <1>10, <1>12 DEF TicketsInLine

(* A writer that counts its completion brings every other one nearer.      *)
LEMMA CompletionLeaves ==
  ASSUME TypeOK, TicketsInLine, NEW t \in Threads, EndWriteCount(t)
  PROVE  /\ Queued' = Queued \ {t} /\ t \in Queued
         /\ \A w \in Queued \ {t} :
              /\ TicketOf(w)' = TicketOf(w) /\ TicketOf(w) # write_completions
              /\ Off(TicketOf(w))' = Off(TicketOf(w)) - 1
         /\ Off(write_requests)' = Off(write_requests) - 1
         /\ TicketsInLine'
<1>1. Queued' = Queued \ {t} /\ t \in Queued /\ pc[t] # "wTurn"
  BY DEF EndWriteCount, Goto, TypeOK, Queued
<1>2. write_completions' = Inc(write_completions) /\ write_requests' = write_requests
  BY DEF EndWriteCount
<1>3. ASSUME NEW w \in Queued \ {t}
      PROVE  /\ TicketOf(w)' = TicketOf(w) /\ TicketOf(w) # write_completions
             /\ Off(TicketOf(w))' = Off(TicketOf(w)) - 1
  <2>1. TicketOf(w) # write_completions /\ pc[w] = "wTurn"
    BY <1>1, OneInTurn
  <2>2. TicketOf(w)' = TicketOf(w)
    BY <2>1, QueuedIsFinite DEF EndWriteCount, Goto, TypeOK, TicketOf
  <2>3. Dist(TicketOf(w), Inc(write_completions))
          = Dist(TicketOf(w), write_completions) - 1
    BY <2>1, DistBehind, TicketType, QueuedIsFinite DEF TypeOK
  <2> QED
    BY <1>2, <2>1, <2>2, <2>3 DEF Off, Dist
<1>4. Off(write_requests) \in Nat /\ \A w \in Queued : Off(TicketOf(w)) \in Nat
  BY DistType, TicketType, QueuedIsFinite DEF Off, TypeOK
<1>5. Off(write_requests) # 0
  BY <1>1, <1>4 DEF TicketsInLine
<1>6. Off(write_requests)' = Off(write_requests) - 1
  <2>1. write_requests # write_completions
    BY <1>5, DistType DEF Off, TypeOK
  <2>2. Dist(write_requests, Inc(write_completions))
          = Dist(write_requests, write_completions) - 1
    BY <2>1, DistBehind DEF TypeOK
  <2> QED
    BY <1>2, <2>2 DEF Off, Dist
<1>7. Cardinality(Queued') = Cardinality(Queued) - 1
  BY <1>1, QueuedIsFinite, FS_RemoveElement
<1>8. Off(write_requests)' = Cardinality(Queued')
  BY <1>6, <1>7 DEF TicketsInLine
<1>9. \A w \in Queued' : Off(TicketOf(w))' < Off(write_requests)'
  BY <1>1, <1>3, <1>4, <1>6 DEF TicketsInLine
<1>10. \A w, u \in Queued' : TicketOf(w)' = TicketOf(u)' => w = u
  BY <1>1, <1>3 DEF TicketsInLine
<1> QED
  BY <1>1, <1>3, <1>6, <1>8, <1>9, <1>10 DEF TicketsInLine

(* What no other step disturbs. *)
Others(t) == ReadCall(t) \/ Read(t) \/ WriteTurn(t) \/ WriteCas(t) \/ EndWriteFlag(t)

LEMMA OthersKeepLine ==
  ASSUME TypeOK, NEW t \in Threads, Others(t)
  PROVE  /\ Queued' = Queued
         /\ write_requests' = write_requests /\ write_completions' = write_completions
         /\ \A w \in Queued : TicketOf(w)' = TicketOf(w)
<1>1. CASE ReadCall(t)
  BY <1>1 DEF ReadCall, Goto, TypeOK, Queued, TicketOf
<1>2. CASE Read(t)
  BY <1>2 DEF Read, ReadFirstCounter, ReadSecondCounter, ReadAnnounce, ReadSpin, EndRead,
              Goto, TypeOK, Queued, TicketOf
<1>3. CASE WriteTurn(t)
  BY <1>3 DEF WriteTurn, Goto, TypeOK, Queued, TicketOf
<1>4. CASE WriteCas(t) \/ EndWriteFlag(t)
  BY <1>4 DEF WriteCas, EndWriteFlag, Goto, TypeOK, Queued, TicketOf
<1> QED
  BY <1>1, <1>2, <1>3, <1>4 DEF Others

LEMMA NextCases ==
  ASSUME Next
  PROVE  \E t \in Threads : Others(t) \/ WriteRequest(t) \/ EndWriteCount(t)
BY DEF Next, Others, Write

LEMMA NextTickets ==
  ASSUME TypeOK, TicketsInLine, [Next]_vars
  PROVE  TicketsInLine'
<1>1. ASSUME NEW t \in Threads, Others(t) PROVE TicketsInLine'
  BY <1>1, OthersKeepLine, SameLine
<1>2. CASE UNCHANGED vars
  BY <1>2 DEF vars, TicketsInLine, Queued, TicketOf, Off, Dist
<1> QED
  BY <1>1, <1>2, RequestJoins, CompletionLeaves, NextCases
-----------------------------------------------------------------------------
(* The second counter shows a reader that no writer is left before it.     *)
LEMMA EqualMeansNobodyAhead ==
  ASSUME TypeOK, TicketsInLine, ReadersRemember, NEW t \in Threads,
         \/ pc[t] = "rThenCompletions" /\ seen[t] = write_completions
         \/ pc[t] = "rThenRequests" /\ seen[t] = write_requests
  PROVE  ahead[t] = {}
<1> SUFFICES ASSUME NEW w \in ahead[t] PROVE FALSE
  OBVIOUS
<1>1. w \in Queued /\ w \in Threads
  BY QueuedIsFinite DEF ReadersRemember
<1>2. seen[t] \in Counter /\ TicketOf(w) \in Counter
  BY <1>1, TicketType DEF TypeOK
<1>3. Off(TicketOf(w)) \in Nat
  BY <1>2, DistType DEF Off, TypeOK
<1>4. CASE pc[t] = "rThenCompletions" /\ seen[t] = write_completions
  <2>1. Off(TicketOf(w)) < Off(seen[t])
    BY <1>4 DEF ReadersRemember, RemembersRequests
  <2>2. Off(seen[t]) = 0
    BY <1>2, <1>4, DistType DEF Off, TypeOK
  <2> QED
    BY <1>3, <2>1, <2>2
<1>5. CASE pc[t] = "rThenRequests" /\ seen[t] = write_requests
  <2>1. Dist(write_completions, write_requests) + Off(TicketOf(w)) < Cardinality(Threads)
    BY <1>5 DEF ReadersRemember, RemembersCompletions
  <2>2. Off(TicketOf(w)) < Off(write_requests)
    BY <1>1 DEF TicketsInLine
  <2>3. Off(write_requests) = Cardinality(Queued)
    BY DEF TicketsInLine
  <2>4. write_requests # write_completions
    BY <1>3, <2>2, <2>3, QueuedIsFinite, DistType DEF Off, TypeOK
  <2>5. Dist(write_requests, write_completions)
          + Dist(write_completions, write_requests) = Modulus
    BY <2>4, DistAround DEF TypeOK
  <2>6. Dist(write_completions, write_requests) \in Nat
    BY DistType DEF TypeOK
  <2> QED
    BY <1>3, <2>1, <2>3, <2>5, <2>6, QueuedIsFinite, ModulusAssumption, ThreadsFit DEF Off
<1> QED
  BY <1>4, <1>5

(* What the steps of others leave of what reader t remembers.              *)
LEMMA SameMemory ==
  ASSUME TypeOK, ReadersRemember, NEW t \in Threads, NEW w \in ahead[t],
         pc'[t] = pc[t], seen'[t] = seen[t],
         write_requests' = write_requests, write_completions' = write_completions,
         \A q \in Queued : TicketOf(q)' = TicketOf(q)
  PROVE  /\ pc'[t] = "rThenCompletions" => RemembersRequests(t, w)'
         /\ pc'[t] = "rThenRequests" => RemembersCompletions(t, w)'
<1>1. TicketOf(w)' = TicketOf(w)
  BY DEF ReadersRemember
<1> QED
  BY <1>1 DEF ReadersRemember, RemembersRequests, RemembersCompletions, Off, Dist

LEMMA ReadRemembers ==
  ASSUME TypeOK, TicketsInLine, ReadersRemember, NEW t \in Threads, ReadCall(t) \/ Read(t)
  PROVE  ReadersRemember'
<1>1. /\ Queued' = Queued
      /\ write_requests' = write_requests /\ write_completions' = write_completions
      /\ \A w \in Queued : TicketOf(w)' = TicketOf(w)
  BY OthersKeepLine DEF Others
<1>2. ASSUME NEW u \in Threads, u # t
      PROVE  pc'[u] = pc[u] /\ seen'[u] = seen[u] /\ ahead'[u] = ahead[u]
  BY <1>2 DEF ReadCall, Read, ReadFirstCounter, ReadSecondCounter, ReadAnnounce, ReadSpin,
              EndRead, Goto, TypeOK
<1>3. ASSUME NEW u \in Threads, u # t
      PROVE  /\ ahead'[u] \subseteq Queued'
             /\ pc'[u] \notin {"rCheck", "rThenCompletions", "rThenRequests"} => ahead'[u] = {}
             /\ \A w \in ahead'[u] :
                  /\ pc'[u] = "rThenCompletions" => RemembersRequests(u, w)'
                  /\ pc'[u] = "rThenRequests" => RemembersCompletions(u, w)'
  BY <1>1, <1>2, <1>3, SameMemory DEF ReadersRemember
<1>4. /\ ahead'[t] \subseteq Queued'
      /\ pc'[t] \notin {"rCheck", "rThenCompletions", "rThenRequests"} => ahead'[t] = {}
      /\ \A w \in ahead'[t] :
           /\ pc'[t] = "rThenCompletions" => RemembersRequests(t, w)'
           /\ pc'[t] = "rThenRequests" => RemembersCompletions(t, w)'
  <2>1. CASE ReadCall(t)
    BY <1>1, <2>1 DEF ReadCall, Goto, TypeOK
  <2>2. CASE ReadFirstCounter(t)
    <3>1. ahead'[t] = ahead[t] /\ ahead[t] \subseteq Queued
      BY <2>2 DEF ReadFirstCounter, ReadersRemember
    <3>2. ASSUME NEW w \in ahead[t]
          PROVE  TicketOf(w)' = TicketOf(w) /\ Off(TicketOf(w)) < Off(write_requests)
                 /\ Off(write_requests) \in Nat /\ Off(TicketOf(w)) \in Nat
      BY <1>1, <3>1, TicketType, DistType, QueuedIsFinite DEF TicketsInLine, Off, TypeOK
    <3>3. CASE Goto(t, "rCheck", "rThenCompletions") /\ seen' = [seen EXCEPT ![t] = write_requests]
      <4>1. pc'[t] = "rThenCompletions" /\ seen'[t] = write_requests
        BY <3>3 DEF Goto, TypeOK
      <4>2. \A w \in ahead[t] : RemembersRequests(t, w)'
        BY <1>1, <3>2, <4>1 DEF RemembersRequests, Off, Dist
      <4> QED
        BY <1>1, <3>1, <4>1, <4>2
    <3>4. CASE Goto(t, "rCheck", "rThenRequests") /\ seen' = [seen EXCEPT ![t] = write_completions]
      <4>1. pc'[t] = "rThenRequests" /\ seen'[t] = write_completions
        BY <3>4 DEF Goto, TypeOK
      <4>2. Dist(write_completions, write_completions) = 0
        BY DistType DEF TypeOK
      <4>3. ASSUME NEW w \in ahead[t]
            PROVE  Dist(write_completions, write_completions) + Off(TicketOf(w))
                     < Cardinality(Threads)
        BY <3>2, <4>2, QueuedIsFinite DEF TicketsInLine
      <4>4. \A w \in ahead[t] : RemembersCompletions(t, w)'
        BY <1>1, <3>2, <4>1, <4>3 DEF RemembersCompletions, Off, Dist
      <4> QED
        BY <1>1, <3>1, <4>1, <4>4
    <3> QED
      BY <2>2, <3>3, <3>4 DEF ReadFirstCounter
  <2>3. CASE ReadSecondCounter(t)
    <3>1. ahead'[t] = ahead[t] /\ pc'[t] \in {"rAdd", "rCheck"}
      BY <2>3 DEF ReadSecondCounter, Goto, TypeOK
    <3>2. pc'[t] = "rAdd" => ahead[t] = {}
      BY <2>3, EqualMeansNobodyAhead DEF ReadSecondCounter, Goto, TypeOK
    <3> QED
      BY <1>1, <3>1, <3>2 DEF ReadersRemember
  <2>4. CASE ReadAnnounce(t) \/ ReadSpin(t) \/ EndRead(t)
    <3>1. ahead'[t] = ahead[t] /\ ahead[t] = {}
      BY <2>4 DEF ReadAnnounce, ReadSpin, EndRead, Goto, ReadersRemember
    <3> QED
      BY <3>1
  <2> QED
    BY <2>1, <2>2, <2>3, <2>4 DEF Read
<1> QED
  BY <1>3, <1>4 DEF ReadersRemember

LEMMA WriteRemembers ==
  ASSUME TypeOK, TicketsInLine, ReadersRemember, NEW t \in Threads,
         WriteTurn(t) \/ WriteCas(t) \/ EndWriteFlag(t)
  PROVE  ReadersRemember'
<1>1. /\ Queued' = Queued
      /\ write_requests' = write_requests /\ write_completions' = write_completions
      /\ \A w \in Queued : TicketOf(w)' = TicketOf(w)
  BY OthersKeepLine DEF Others
<1>2. /\ ahead' = ahead /\ ahead[t] = {}
      /\ pc'[t] \notin {"rCheck", "rThenCompletions", "rThenRequests"}
      /\ \A u \in Threads \ {t} : pc'[u] = pc[u] /\ seen'[u] = seen[u]
  BY DEF WriteTurn, WriteCas, EndWriteFlag, Goto, TypeOK, ReadersRemember
<1> SUFFICES ASSUME NEW u \in Threads
    PROVE  /\ ahead'[u] \subseteq Queued'
           /\ pc'[u] \notin {"rCheck", "rThenCompletions", "rThenRequests"} => ahead'[u] = {}
           /\ \A w \in ahead'[u] :
                /\ pc'[u] = "rThenCompletions" => RemembersRequests(u, w)'
                /\ pc'[u] = "rThenRequests" => RemembersCompletions(u, w)'
  BY DEF ReadersRemember
<1>3. CASE u = t
  BY <1>1, <1>2, <1>3
<1>4. CASE u # t
  BY <1>1, <1>2, <1>4, SameMemory DEF ReadersRemember
<1> QED
  BY <1>3, <1>4

LEMMA RequestRemembers ==
  ASSUME TypeOK, TicketsInLine, ReadersRemember, NEW t \in Threads, WriteRequest(t)
  PROVE  ReadersRemember'
<1>1. /\ Queued \subseteq Queued'
      /\ \A w \in Queued : TicketOf(w)' = TicketOf(w)
      /\ Off(write_requests)' = Off(write_requests) + 1
  BY RequestJoins
<1>2. /\ ahead' = ahead /\ ahead[t] = {} /\ write_completions' = write_completions
      /\ pc'[t] = "wTurn"
      /\ \A u \in Threads \ {t} : pc'[u] = pc[u] /\ seen'[u] = seen[u]
  BY DEF WriteRequest, Goto, TypeOK, ReadersRemember
<1> SUFFICES ASSUME NEW u \in Threads
    PROVE  /\ ahead'[u] \subseteq Queued'
           /\ pc'[u] \notin {"rCheck", "rThenCompletions", "rThenRequests"} => ahead'[u] = {}
           /\ \A w \in ahead'[u] :
                /\ pc'[u] = "rThenCompletions" => RemembersRequests(u, w)'
                /\ pc'[u] = "rThenRequests" => RemembersCompletions(u, w)'
  BY DEF ReadersRemember
<1>3. CASE u = t
  BY <1>2, <1>3
<1>4. CASE u # t
  <2>1. pc'[u] = pc[u] /\ seen'[u] = seen[u] /\ ahead'[u] = ahead[u]
    BY <1>2, <1>4
  <2>2. ahead'[u] \subseteq Queued'
    BY <1>1, <2>1 DEF ReadersRemember
  <2>3. pc'[u] \notin {"rCheck", "rThenCompletions", "rThenRequests"} => ahead'[u] = {}
    BY <2>1 DEF ReadersRemember
  <2>4. ASSUME NEW w \in ahead[u]
        PROVE  /\ TicketOf(w)' = TicketOf(w)
               /\ Off(TicketOf(w))' = Off(TicketOf(w)) /\ Off(seen[u])' = Off(seen[u])
               /\ Off(seen[u]) \in Nat /\ Off(write_requests) \in Nat
    <3>1. TicketOf(w)' = TicketOf(w)
      BY <1>1 DEF ReadersRemember
    <3> QED
      BY <1>2, <2>1, <3>1, DistType DEF Off, Dist, TypeOK
  <2>5. ASSUME NEW w \in ahead[u], pc[u] = "rThenCompletions" PROVE RemembersRequests(u, w)'
    <3>1. Off(TicketOf(w)) < Off(seen[u]) /\ Off(seen[u]) <= Off(write_requests)
      BY <2>5 DEF ReadersRemember, RemembersRequests
    <3>2. Off(TicketOf(w))' < Off(seen[u])' /\ Off(seen[u])' <= Off(write_requests)'
      BY <1>1, <2>4, <3>1
    <3> QED
      BY <3>2 DEF RemembersRequests
  <2>6. ASSUME NEW w \in ahead[u], pc[u] = "rThenRequests" PROVE RemembersCompletions(u, w)'
    BY <1>2, <2>1, <2>4, <2>6 DEF ReadersRemember, RemembersCompletions, Dist
  <2> QED
    BY <2>1, <2>2, <2>3, <2>5, <2>6
<1> QED
  BY <1>3, <1>4

(* A writer that a reader waits for keeps the completions from the value   *)
(* the reader has read, and what they come nearer to the one they leave    *)
(* the other.                                                              *)
LEMMA CompletionRemembers ==
  ASSUME TypeOK, TicketsInLine, ReadersRemember, NEW t \in Threads, EndWriteCount(t)
  PROVE  ReadersRemember'
<1>1. /\ Queued' = Queued \ {t} /\ t \in Queued
      /\ \A w \in Queued \ {t} :
           /\ TicketOf(w)' = TicketOf(w) /\ TicketOf(w) # write_completions
           /\ Off(TicketOf(w))' = Off(TicketOf(w)) - 1
      /\ Off(write_requests)' = Off(write_requests) - 1
  BY CompletionLeaves
<1>2. /\ write_completions' = Inc(write_completions) /\ seen' = seen
      /\ pc'[t] = "idle" /\ ahead[t] = {}
      /\ \A u \in Threads : ahead'[u] = ahead[u] \ {t}
      /\ \A u \in Threads \ {t} : pc'[u] = pc[u]
  BY DEF EndWriteCount, Goto, TypeOK, ReadersRemember
<1> SUFFICES ASSUME NEW u \in Threads
    PROVE  /\ ahead'[u] \subseteq Queued'
           /\ pc'[u] \notin {"rCheck", "rThenCompletions", "rThenRequests"} => ahead'[u] = {}
           /\ \A w \in ahead'[u] :
                /\ pc'[u] = "rThenCompletions" => RemembersRequests(u, w)'
                /\ pc'[u] = "rThenRequests" => RemembersCompletions(u, w)'
  BY DEF ReadersRemember
<1>3. CASE u = t
  BY <1>2, <1>3
<1>4. CASE u # t
  <2>1. ahead'[u] \subseteq Queued' /\ pc'[u] = pc[u] /\ ahead'[u] \subseteq ahead[u]
    BY <1>1, <1>2, <1>4 DEF ReadersRemember
  <2>2. pc'[u] \notin {"rCheck", "rThenCompletions", "rThenRequests"} => ahead'[u] = {}
    BY <2>1 DEF ReadersRemember
  <2>3. ASSUME NEW w \in ahead'[u]
        PROVE  /\ w \in ahead[u] /\ w \in Queued \ {t} /\ TicketOf(w) \in Counter
               /\ Off(TicketOf(w)) \in Nat /\ seen[u] \in Counter
               /\ Off(TicketOf(w)) # 0
    BY <1>1, <2>1, TicketType, DistType, QueuedIsFinite DEF Off, TypeOK
  <2>4. ASSUME NEW w \in ahead'[u], pc[u] = "rThenCompletions" PROVE RemembersRequests(u, w)'
    <3>1. Off(TicketOf(w)) < Off(seen[u]) /\ Off(seen[u]) <= Off(write_requests)
      BY <2>3, <2>4 DEF ReadersRemember, RemembersRequests
    <3>2. Off(seen[u]) \in Nat /\ Off(write_requests) \in Nat
      BY <2>3, <2>4, DistType DEF Off, TypeOK
    <3>3. seen[u] # write_completions
      BY <2>3, <2>4, <3>1, <3>2, DistType DEF Off, TypeOK
    <3>4. Dist(seen[u], Inc(write_completions)) = Dist(seen[u], write_completions) - 1
      BY <2>3, <2>4, <3>3, DistBehind DEF TypeOK
    <3>5. Off(seen[u])' = Off(seen[u]) - 1
      BY <1>2, <3>4 DEF Off, Dist
    <3>6. Off(TicketOf(w))' = Off(TicketOf(w)) - 1
      BY <1>1, <2>3, <2>4
    <3>7. Off(TicketOf(w))' < Off(seen[u])' /\ Off(seen[u])' <= Off(write_requests)'
      BY <1>1, <2>3, <2>4, <3>1, <3>2, <3>5, <3>6
    <3> QED
      BY <3>7 DEF RemembersRequests
  <2>5. ASSUME NEW w \in ahead'[u], pc[u] = "rThenRequests" PROVE RemembersCompletions(u, w)'
    <3>1. Dist(write_completions, seen[u]) + Off(TicketOf(w)) < Cardinality(Threads)
      BY <2>3, <2>5 DEF ReadersRemember, RemembersCompletions
    <3>2. Dist(write_completions, seen[u]) \in Nat
      BY <2>3, <2>5, DistType DEF TypeOK
    <3>3. Dist(write_completions, seen[u]) + 1 < Modulus
      BY <2>3, <2>5, <3>1, <3>2, QueuedIsFinite, ModulusAssumption, ThreadsFit
    <3>4. Dist(Inc(write_completions), seen[u]) = Dist(write_completions, seen[u]) + 1
      BY <2>3, <2>5, <3>3, DistAhead DEF TypeOK
    <3>5. Dist(write_completions, seen[u])' = Dist(write_completions, seen[u]) + 1
      BY <1>2, <3>4 DEF Dist
    <3>6. Off(TicketOf(w))' = Off(TicketOf(w)) - 1
      BY <1>1, <2>3, <2>5
    <3>7. Dist(write_completions, seen[u])' + Off(TicketOf(w))' < Cardinality(Threads)
      BY <2>3, <2>5, <3>1, <3>2, <3>5, <3>6, QueuedIsFinite
    <3> QED
      BY <3>7 DEF RemembersCompletions
  <2> QED
    BY <2>1, <2>2, <2>4, <2>5
<1> QED
  BY <1>3, <1>4

LEMMA NextRemembers ==
  ASSUME TypeOK, TicketsInLine, ReadersRemember, [Next]_vars
  PROVE  ReadersRemember'
<1>1. CASE UNCHANGED vars
  BY <1>1 DEF vars, ReadersRemember, RemembersRequests, RemembersCompletions, Queued,
              TicketOf, Off, Dist
<1> QED
  BY <1>1, ReadRemembers, WriteRemembers, RequestRemembers, CompletionRemembers,
     NextCases DEF Others
-----------------------------------------------------------------------------
(* The two sets the word counts are finite, so their sizes are numbers,    *)
(* in this state and in the next.                                          *)
LEMMA CountsAreNat ==
  /\ IsFiniteSet(Readers) /\ IsFiniteSet(Writers)
  /\ Cardinality(Readers) \in Nat /\ Cardinality(Writers) \in Nat
<1>1. Readers \subseteq Threads /\ Writers \subseteq Threads
  BY DEF Readers, Writers
<1> QED
  BY <1>1, ThreadsAssumption, FS_Subset, FS_CardinalityType

LEMMA CountsAreNatPrime ==
  Cardinality(Readers') \in Nat /\ Cardinality(Writers') \in Nat
<1>1. Readers' \subseteq Threads /\ Writers' \subseteq Threads
  BY DEF Readers, Writers
<1> QED
  BY <1>1, ThreadsAssumption, FS_Subset, FS_CardinalityType

(* A word of 0 means that no thread has announced itself or writes. *)
LEMMA ZeroMeansEmpty ==
  ASSUME WordInv, lock = 0
  PROVE  Readers = {} /\ Writers = {}
<1>1. Cardinality(Readers) = 0 /\ Cardinality(Writers) = 0
  BY CountsAreNat DEF WordInv, WordCountsHolders, READER_COUNT_INC, WRITER_ACTIVE_FLAG
<1> QED
  BY <1>1, CountsAreNat, FS_EmptySet

(* A word without the writer flag means that no thread writes. *)
LEMMA EvenMeansNoWriter ==
  ASSUME WordInv, ~WriterActive
  PROVE  Writers = {}
<1> SUFFICES ASSUME NEW w \in Writers PROVE FALSE
  OBVIOUS
<1>1. \A u \in Writers : u = w
  BY DEF WordInv, MutualExclusion, Writers
<1>2. Cardinality(Writers) = 1
  BY <1>1, FS_Singleton
<1>3. lock = 2 * Cardinality(Readers) + 1
  BY <1>2, CountsAreNat DEF WordInv, WordCountsHolders, READER_COUNT_INC, WRITER_ACTIVE_FLAG
<1> QED
  BY <1>3, CountsAreNat DEF WriterActive, WRITER_ACTIVE_FLAG

LEMMA InitWord == Init => WordInv
<1> SUFFICES ASSUME Init PROVE WordInv
  OBVIOUS
<1>1. Readers = {} /\ Writers = {}
  BY DEF Init, Readers, Writers
<1>2. WordCountsHolders
  BY <1>1, FS_EmptySet DEF Init, WordCountsHolders, READER_COUNT_INC, WRITER_ACTIVE_FLAG
<1>3. MutualExclusion
  BY DEF Init, MutualExclusion
<1> QED
  BY <1>2, <1>3 DEF WordInv

(* The steps that leave the word and its holders alone. *)
Aside(t) ==
  \/ ReadCall(t) \/ ReadFirstCounter(t) \/ ReadSecondCounter(t)
  \/ WriteRequest(t) \/ WriteTurn(t) \/ EndWriteCount(t)

LEMMA AsideKeepsWord ==
  ASSUME TypeOK, NEW t \in Threads, Aside(t)
  PROVE  /\ lock' = lock /\ Readers' = Readers /\ Writers' = Writers
         /\ Mode' = Mode /\ (MutualExclusion => MutualExclusion')
<1>1. CASE ReadCall(t)
  BY <1>1 DEF ReadCall, Goto, TypeOK, Readers, Writers, Mode, MutualExclusion
<1>2. CASE ReadFirstCounter(t)
  BY <1>2 DEF ReadFirstCounter, Goto, TypeOK, Readers, Writers, Mode, MutualExclusion
<1>3. CASE ReadSecondCounter(t)
  BY <1>3 DEF ReadSecondCounter, Goto, TypeOK, Readers, Writers, Mode, MutualExclusion
<1>4. CASE WriteRequest(t)
  BY <1>4 DEF WriteRequest, Goto, TypeOK, Readers, Writers, Mode, MutualExclusion
<1>5. CASE WriteTurn(t)
  BY <1>5 DEF WriteTurn, Goto, TypeOK, Readers, Writers, Mode, MutualExclusion
<1>6. CASE EndWriteCount(t)
  BY <1>6 DEF EndWriteCount, Goto, TypeOK, Readers, Writers, Mode, MutualExclusion
<1> QED
  BY <1>1, <1>2, <1>3, <1>4, <1>5, <1>6 DEF Aside

LEMMA WordCases ==
  ASSUME Next
  PROVE  \E t \in Threads :
           \/ Aside(t) \/ ReadAnnounce(t) \/ ReadSpin(t) \/ EndRead(t)
           \/ WriteCas(t) \/ EndWriteFlag(t)
BY DEF Next, Aside, Read, Write

LEMMA NextWord ==
  ASSUME TypeOK, WordInv, [Next]_vars
  PROVE  WordInv'
<1> USE DEF WRITER_ACTIVE_FLAG, READER_COUNT_INC
<1>1. ASSUME NEW t \in Threads, Aside(t) PROVE WordInv'
  BY <1>1, AsideKeepsWord DEF WordInv, WordCountsHolders
<1>2. ASSUME NEW t \in Threads, ReadAnnounce(t) PROVE WordInv'
  <2>1. Readers' = Readers \cup {t} /\ t \notin Readers /\ Writers' = Writers
    BY <1>2 DEF ReadAnnounce, Goto, TypeOK, Readers, Writers
  <2>2. Cardinality(Readers') = Cardinality(Readers) + 1
    BY <2>1, CountsAreNat, FS_AddElement
  <2>3. WordCountsHolders'
    BY <1>2, <2>1, <2>2, CountsAreNat DEF WordInv, WordCountsHolders, ReadAnnounce
  <2>4. MutualExclusion'
    BY <1>2 DEF ReadAnnounce, Goto, TypeOK, WordInv, MutualExclusion
  <2> QED
    BY <2>3, <2>4 DEF WordInv
<1>3. ASSUME NEW t \in Threads, ReadSpin(t) PROVE WordInv'
  <2>1. Readers' = Readers /\ Writers' = Writers
    BY <1>3 DEF ReadSpin, Goto, TypeOK, Readers, Writers
  <2>2. WordCountsHolders'
    BY <1>3, <2>1 DEF WordInv, WordCountsHolders, ReadSpin
  <2>3. Writers = {}
    BY <1>3, EvenMeansNoWriter DEF ReadSpin
  <2>4. MutualExclusion'
    BY <1>3, <2>3 DEF ReadSpin, Goto, TypeOK, MutualExclusion, Writers
  <2> QED
    BY <2>2, <2>4 DEF WordInv
<1>4. ASSUME NEW t \in Threads, EndRead(t) PROVE WordInv'
  <2>1. Readers' = Readers \ {t} /\ t \in Readers /\ Writers' = Writers
    BY <1>4 DEF EndRead, Goto, TypeOK, Readers, Writers
  <2>2. Cardinality(Readers') = Cardinality(Readers) - 1
    BY <2>1, CountsAreNat, FS_RemoveElement
  <2>3. WordCountsHolders'
    BY <1>4, <2>1, <2>2, CountsAreNat DEF WordInv, WordCountsHolders, EndRead
  <2>4. MutualExclusion'
    BY <1>4 DEF EndRead, Goto, TypeOK, WordInv, MutualExclusion
  <2> QED
    BY <2>3, <2>4 DEF WordInv
<1>5. ASSUME NEW t \in Threads, WriteCas(t) PROVE WordInv'
  <2>1. Readers = {} /\ Writers = {}
    BY <1>5, ZeroMeansEmpty DEF WriteCas
  <2>2. Readers' = {} /\ Writers' = {t}
    BY <1>5, <2>1 DEF WriteCas, Goto, TypeOK, Readers, Writers
  <2>3. Cardinality(Readers') = 0 /\ Cardinality(Writers') = 1
    BY <2>2, FS_EmptySet, FS_Singleton
  <2>4. WordCountsHolders'
    BY <1>5, <2>3 DEF WordCountsHolders, WriteCas
  <2>5. MutualExclusion'
    BY <2>2 DEF MutualExclusion, Readers, Writers
  <2> QED
    BY <2>4, <2>5 DEF WordInv
<1>6. ASSUME NEW t \in Threads, EndWriteFlag(t) PROVE WordInv'
  <2>1. Writers' = Writers \ {t} /\ t \in Writers /\ Readers' = Readers
    BY <1>6 DEF EndWriteFlag, Goto, TypeOK, Readers, Writers
  <2>2. Cardinality(Writers') = Cardinality(Writers) - 1
    BY <2>1, CountsAreNat, FS_RemoveElement
  <2>3. WordCountsHolders'
    BY <1>6, <2>1, <2>2, CountsAreNat DEF WordInv, WordCountsHolders, EndWriteFlag
  <2>4. MutualExclusion'
    BY <1>6 DEF EndWriteFlag, Goto, TypeOK, WordInv, MutualExclusion
  <2> QED
    BY <2>3, <2>4 DEF WordInv
<1>7. CASE UNCHANGED vars
  BY <1>7 DEF vars, WordInv, WordCountsHolders, MutualExclusion, Readers, Writers
<1> QED
  BY <1>1, <1>2, <1>3, <1>4, <1>5, <1>6, <1>7, WordCases
-----------------------------------------------------------------------------
(* The releases need the count: the word does not fall below 0.            *)
LEMMA NextType ==
  ASSUME IInv, [Next]_vars
  PROVE  TypeOK'
<1> USE DEF WRITER_ACTIVE_FLAG, READER_COUNT_INC
<1>1. lock' \in Nat
  <2>1. WordCountsHolders'
    BY NextWord DEF IInv, WordInv
  <2> QED
    BY <2>1, CountsAreNatPrime DEF WordCountsHolders
<1>2. TypeOK
  BY DEF IInv
<1>3. ASSUME NEW t \in Threads, ReadCall(t) PROVE TypeOK'
  BY <1>1, <1>2, <1>3, QueuedIsFinite DEF ReadCall, Goto, TypeOK, PC
<1>4. ASSUME NEW t \in Threads, Read(t) PROVE TypeOK'
  BY <1>1, <1>2, <1>4, ModulusAssumption, ThreadsFit
     DEF Read, ReadFirstCounter, ReadSecondCounter, ReadAnnounce, ReadSpin, EndRead,
         Goto, TypeOK, PC, Counter
<1>5. ASSUME NEW t \in Threads, WriteRequest(t) PROVE TypeOK'
  <2>1. Inc(write_requests) \in Counter
    BY <1>2, DistAhead DEF TypeOK
  <2> QED
    BY <1>1, <1>2, <1>5, <2>1 DEF WriteRequest, Goto, TypeOK, PC
<1>6. ASSUME NEW t \in Threads, WriteTurn(t) \/ WriteCas(t) \/ EndWriteFlag(t) PROVE TypeOK'
  BY <1>1, <1>2, <1>6, ModulusAssumption, ThreadsFit
     DEF WriteTurn, WriteCas, EndWriteFlag, Goto, TypeOK, PC, Counter
<1>7. ASSUME NEW t \in Threads, EndWriteCount(t) PROVE TypeOK'
  <2>1. Inc(write_completions) \in Counter
    BY <1>2, DistAhead DEF TypeOK
  <2> QED
    BY <1>1, <1>2, <1>7, <2>1 DEF EndWriteCount, Goto, TypeOK, PC
<1>8. CASE UNCHANGED vars
  BY <1>2, <1>8 DEF vars, TypeOK
<1> QED
  BY <1>3, <1>4, <1>5, <1>6, <1>7, <1>8 DEF Next, Write

LEMMA NextIInv == IInv /\ [Next]_vars => IInv'
<1> SUFFICES ASSUME IInv, [Next]_vars PROVE IInv'
  OBVIOUS
<1>1. TypeOK'
  BY NextType
<1>2. WordInv'
  BY NextWord DEF IInv
<1>3. TicketsInLine'
  BY NextTickets DEF IInv, LineInv
<1>4. ReadersRemember'
  BY NextRemembers DEF IInv, LineInv
<1> QED
  BY <1>1, <1>2, <1>3, <1>4 DEF IInv, LineInv

(* Always: the types hold, the word counts its holders, a writer holds the *)
(* lock alone, and the tickets and what readers remember of them agree.    *)
THEOREM InvariantHolds == Spec => []IInv
<1>1. Init => IInv
  BY InitType, InitWord, InitLine DEF IInv
<1> QED
  BY <1>1, NextIInv, PTL DEF Spec

(* Of two writers in line at most one is past its turn. *)
LEMMA LineMeansOneCompetes ==
  ASSUME TypeOK, TicketsInLine
  PROVE  OneWriterCompetes
BY OneInTurn DEF OneWriterCompetes, Queued

(* Writers go one at a time in the order of their tickets, although the    *)
(* tickets wrap, and a reader that announces itself has let every writer   *)
(* pass that was queued when it called ReadLock, although it reads the two *)
(* counters one after the other, in either order.                          *)
THEOREM WritersFirstHolds == Spec => []WritersFirst
<1>1. IInv => WritersFirst
  <2> SUFFICES ASSUME IInv PROVE WritersFirst
    OBVIOUS
  <2>1. WriterPreference
    BY DEF IInv, LineInv, ReadersRemember, WriterPreference
  <2> QED
    BY <2>1, LineMeansOneCompetes DEF IInv, LineInv, WritersFirst
<1> QED
  BY <1>1, InvariantHolds, PTL

(* ReadLock and WriteLock exclude each other as a reader-writer lock must, *)
(* whatever the two counters let through.                                  *)
THEOREM MutualExclusionHolds == Spec => []MutualExclusion
<1>1. IInv => MutualExclusion
  BY DEF IInv, WordInv
<1> QED
  BY <1>1, InvariantHolds, PTL
-----------------------------------------------------------------------------
LEMMA InitRefines == Init => Abstract!Init
BY DEF Init, Abstract!Init, Mode

(* Every step of the lock is a step of the abstract lock or changes        *)
(* nothing a caller can see.                                               *)
LEMMA NextRefines == IInv /\ [Next]_vars => [Abstract!Next]_Mode
<1> SUFFICES ASSUME TypeOK, WordInv, [Next]_vars PROVE [Abstract!Next]_Mode
  BY DEF IInv
<1>1. ASSUME NEW t \in Threads, ReadSpin(t) PROVE Abstract!AcquireRead(t)
  <2>1. Writers = {}
    BY <1>1, EvenMeansNoWriter DEF ReadSpin
  <2>2. Mode' = [Mode EXCEPT ![t] = "read"]
    BY <1>1 DEF ReadSpin, Goto, Mode, TypeOK
  <2>3. Mode[t] = "none" /\ \A u \in Threads : Mode[u] # "write"
    BY <1>1, <2>1 DEF ReadSpin, Goto, Mode, Writers, TypeOK
  <2> QED
    BY <2>2, <2>3 DEF Abstract!AcquireRead
<1>2. ASSUME NEW t \in Threads, WriteCas(t) PROVE Abstract!AcquireWrite(t)
  <2>1. Readers = {} /\ Writers = {}
    BY <1>2, ZeroMeansEmpty DEF WriteCas
  <2>2. Mode' = [Mode EXCEPT ![t] = "write"]
    BY <1>2 DEF WriteCas, Goto, Mode, TypeOK
  <2>3. \A u \in Threads : Mode[u] = "none"
    BY <2>1 DEF Mode, Readers, Writers
  <2> QED
    BY <2>2, <2>3 DEF Abstract!AcquireWrite
<1>3. ASSUME NEW t \in Threads, EndRead(t) \/ EndWriteFlag(t) PROVE Abstract!Release(t)
  BY <1>3 DEF EndRead, EndWriteFlag, Goto, Mode, TypeOK, Abstract!Release
<1>4. ASSUME NEW t \in Threads, Aside(t) \/ ReadAnnounce(t) PROVE UNCHANGED Mode
  BY <1>4, AsideKeepsWord DEF ReadAnnounce, Goto, Mode, TypeOK
<1>5. CASE UNCHANGED vars
  BY <1>5 DEF vars, Mode
<1> QED
  BY <1>1, <1>2, <1>3, <1>4, <1>5, WordCases DEF Abstract!Next

(* CReaderWriterLock_NS_WP implements the abstract reader-writer lock,     *)
(* whose specification CReaderWriterLock_NS_RP implements too.             *)
THEOREM Implementation == Spec => ImplementsRWLock
<1>1. Spec => []IInv
  BY InvariantHolds
<1> QED
  BY <1>1, InitRefines, NextRefines, PTL DEF Spec, ImplementsRWLock, Abstract!Spec
=============================================================================
