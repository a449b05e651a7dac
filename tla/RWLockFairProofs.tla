-------------------------- MODULE RWLockFairProofs --------------------------
(***************************************************************************)
(* Proofs about RWLockFair, for any finite set of threads and any top bit  *)
(* that can count them.                                                    *)
(*                                                                         *)
(* A count of requests is ahead of its count of completions by the threads *)
(* of that kind in the queue, and what a thread has fetched is ahead by    *)
(* those it waits for; both up to the top bit, which is set in one of two  *)
(* equal counts and clear in the other while it wraps.  So equal values    *)
(* mean that nobody is left to wait for, and nobody left to wait for means *)
(* equal values, if the waiter's count was not 0 when there was one.       *)
(***************************************************************************)
EXTENDS RWLockFair, FiniteSetTheorems, TLAPS

(* How many additions take a count from c to n, up to the top bit. *)
Gap(n, c) == IF Clear(n) >= Clear(c) THEN Clear(n) - Clear(c)
             ELSE Clear(n) - Clear(c) + Top

(* A count n of requests, the completions c, and the threads S of its kind *)
(* that are in the queue.                                                  *)
Line(n, c, S) ==
  /\ Gap(n, c) = Clear(Cardinality(S))
  /\ S = {} => n = c
  /\ S # {} => n # 0

(* A count n that a thread has fetched, the completions c, and the threads *)
(* S of its kind that are ahead.                                           *)
Behind(n, c, S) ==
  /\ Gap(n, c) = Cardinality(S)
  /\ S # {} => n # 0

Readers == {t \in Threads : pc[t] \in {"rWait", "reading", "endRead"}}
Writers == {t \in Threads : IsWriter(t)}

(* The threads in the queue came one after the other. *)
QueueInv ==
  \A t \in Threads :
    /\ ahead[t] \subseteq InQueue \ {t}
    /\ pc[t] = "idle" => ahead[t] = {}
    /\ pc[t] # "idle" => \A u \in InQueue \ {t} : t \in ahead[u] \/ u \in ahead[t]

(* The thread inside the critical section has cleared the top bit. *)
SectionInv ==
  \A t \in Threads :
    /\ cs = t <=> pc[t] \in {"endRead", "endWrite"}
    /\ pc[t] = "endRead" => completions.readers # Top
    /\ pc[t] = "endWrite" => completions.writers # Top

LineInv ==
  /\ Line(requests.readers, completions.readers, Readers)
  /\ Line(requests.writers, completions.writers, Writers)

(* Writers pass nobody, so everybody can tell how many are ahead; readers  *)
(* pass each other, but no writer, so a writer can tell.                   *)
BehindInv ==
  /\ \A t \in InQueue :
       Behind(prev[t].writers, completions.writers, ahead[t] \intersect Writers)
  /\ \A t \in Writers :
       Behind(prev[t].readers, completions.readers, ahead[t] \intersect Readers)

(* Nobody left ahead means that the counts are equal to the last bit. *)
TurnInv ==
  /\ \A t \in Threads :
       pc[t] \in {"rWait", "wWait"} /\ ahead[t] \intersect Writers = {}
         => prev[t].writers = completions.writers
  /\ \A t \in Threads :
       pc[t] = "wWait" /\ ahead[t] \intersect Readers = {}
         => prev[t].readers = completions.readers

IInv == /\ TypeOK /\ QueueInv /\ SectionInv /\ ServedInOrder
        /\ LineInv /\ BehindInv /\ TurnInv
-----------------------------------------------------------------------------
LEMMA GapType ==
  ASSUME Threads # {}
  PROVE  /\ Top \in Nat \ {0}
         /\ \A n, c \in Count :
              /\ Gap(n, c) \in 0 .. Top - 1
              /\ n # 0 /\ c # 0 /\ Gap(n, c) = 0 => n = c
              /\ Clear(n) \in Count /\ Clear(n) # Top /\ ClearAdd(n) \in Count \ {0}
         /\ \A n \in Count : Gap(n, n) = 0
<1>1. Cardinality(Threads) \in Nat /\ Cardinality(Threads) # 0
  BY ThreadsAssumption, FS_CardinalityType, FS_EmptySet
<1>2. Top \in Nat \ {0}
  BY <1>1, TopAssumption
<1> QED
  BY <1>2 DEF Gap, Clear, ClearAdd, Count

LEMMA GapMoves ==
  ASSUME Top \in Nat \ {0}, NEW n \in Count, NEW c \in Count
  PROVE  /\ Gap(ClearAdd(n), c) = Clear(Gap(n, c) + 1)
         /\ Gap(n, Clear(c)) = Gap(n, c)
         /\ Gap(n, ClearAdd(c)) = IF Gap(n, c) = 0 THEN Top - 1 ELSE Gap(n, c) - 1
BY DEF Gap, Clear, ClearAdd, Count

(* The sets of threads that are counted. *)
LEMMA SetsCount ==
  ASSUME NEW S \in SUBSET Threads
  PROVE  /\ IsFiniteSet(S) /\ Cardinality(S) \in Nat /\ Cardinality(S) <= Top
         /\ Cardinality(S) = 0 <=> S = {}
         /\ \A t \in Threads : t \notin S =>
              Cardinality(S) < Top /\ Cardinality(S \union {t}) = Cardinality(S) + 1
         /\ \A t \in S : Cardinality(S \ {t}) = Cardinality(S) - 1
<1>1. /\ IsFiniteSet(S) /\ Cardinality(S) \in Nat
      /\ Cardinality(S) <= Cardinality(Threads) /\ Cardinality(Threads) \in Nat
  BY ThreadsAssumption, FS_Subset, FS_CardinalityType
<1>2. ASSUME NEW t \in Threads, t \notin S
      PROVE  Cardinality(S) < Top /\ Cardinality(S \union {t}) = Cardinality(S) + 1
  <2>1. Cardinality(S \union {t}) = Cardinality(S) + 1
    BY <1>1, <1>2, FS_AddElement
  <2>2. Cardinality(S \union {t}) <= Cardinality(Threads)
    BY ThreadsAssumption, FS_Subset
  <2> QED
    BY <1>1, <2>1, <2>2, TopAssumption
<1>3. \A t \in S : Cardinality(S \ {t}) = Cardinality(S) - 1
  BY <1>1, FS_RemoveElement
<1>4. Cardinality(S) = 0 <=> S = {}
  BY <1>1, FS_EmptySet
<1> QED
  BY <1>1, <1>2, <1>3, <1>4, TopAssumption

(* A thread of the kind joins the queue. *)
LEMMA LineJoins ==
  ASSUME NEW S \in SUBSET Threads, NEW t \in Threads, t \notin S,
         NEW n \in Count, NEW c \in Count, Line(n, c, S)
  PROVE  Line(ClearAdd(n), c, S \union {t})
<1>1. Gap(ClearAdd(n), c) = Clear(Gap(n, c) + 1)
  BY GapType, GapMoves
<1>2. Cardinality(S) < Top /\ Cardinality(S \union {t}) = Cardinality(S) + 1
      /\ Cardinality(S) \in Nat
  BY SetsCount
<1>3. Clear(Gap(n, c) + 1) = Clear(Cardinality(S \union {t}))
  BY <1>2, GapType DEF Line, Clear
<1>4. ClearAdd(n) # 0
  BY GapType
<1> QED
  BY <1>1, <1>3, <1>4 DEF Line

(* What a thread fetches that joins is ahead by those already there. *)
LEMMA LineFetched ==
  ASSUME NEW S \in SUBSET Threads, NEW t \in Threads, t \notin S,
         NEW n \in Count, NEW c \in Count, Line(n, c, S)
  PROVE  Behind(n, c, S) /\ (S = {} => n = c)
<1>1. Cardinality(S) < Top /\ Cardinality(S) \in Nat
  BY SetsCount
<1> QED
  BY <1>1, GapType DEF Line, Behind, Clear

(* Clearing the top bit moves no count, but may make equal ones different. *)
LEMMA ClearKeeps ==
  ASSUME NEW S \in SUBSET Threads, Threads # {}, NEW n \in Count, NEW c \in Count
  PROVE  /\ Line(n, c, S) /\ S # {} => Line(n, Clear(c), S)
         /\ Behind(n, c, S) => Behind(n, Clear(c), S)
BY GapType, GapMoves DEF Line, Behind

(* A thread of the kind leaves. *)
LEMMA LineLeaves ==
  ASSUME NEW S \in SUBSET Threads, NEW t \in S,
         NEW n \in Count, NEW c \in Count, c # Top, Line(n, c, S)
  PROVE  c + 1 \in Count /\ Line(n, c + 1, S \ {t})
<1>1. Top \in Nat \ {0}
  BY GapType
<1>2. c + 1 = ClearAdd(c) /\ c + 1 \in Count /\ c + 1 # 0
  BY <1>1 DEF Clear, ClearAdd, Count
<1>3. Gap(n, c + 1) = IF Gap(n, c) = 0 THEN Top - 1 ELSE Gap(n, c) - 1
  BY <1>1, <1>2, GapMoves
<1>4. Cardinality(S) \in 1 .. Top /\ Cardinality(S \ {t}) = Cardinality(S) - 1
  BY SetsCount
<1>5. Gap(n, c + 1) = Clear(Cardinality(S \ {t}))
  BY <1>1, <1>3, <1>4 DEF Line, Clear
<1>6. S \ {t} = {} => n = c + 1
  <2> SUFFICES ASSUME S \ {t} = {} PROVE n = c + 1
    OBVIOUS
  <2>1. Cardinality(S \ {t}) = 0
    BY SetsCount
  <2>2. Gap(n, c + 1) = 0
    BY <1>1, <1>5, <2>1 DEF Clear
  <2> QED
    BY <1>2, <2>2, GapType DEF Line
<1> QED
  BY <1>2, <1>5, <1>6 DEF Line

LEMMA BehindLeaves ==
  ASSUME NEW S \in SUBSET Threads, NEW t \in S,
         NEW n \in Count, NEW c \in Count, c # Top, Behind(n, c, S)
  PROVE  Behind(n, c + 1, S \ {t}) /\ (S \ {t} = {} => n = c + 1)
<1>1. Top \in Nat \ {0}
  BY GapType
<1>2. c + 1 = ClearAdd(c) /\ c + 1 \in Count /\ c + 1 # 0
  BY <1>1 DEF Clear, ClearAdd, Count
<1>3. Gap(n, c + 1) = IF Gap(n, c) = 0 THEN Top - 1 ELSE Gap(n, c) - 1
  BY <1>1, <1>2, GapMoves
<1>4. Cardinality(S) \in 1 .. Top /\ Cardinality(S \ {t}) = Cardinality(S) - 1
  BY SetsCount
<1>5. Gap(n, c + 1) = Cardinality(S \ {t})
  BY <1>3, <1>4 DEF Behind
<1>6. S \ {t} = {} => n = c + 1
  <2> SUFFICES ASSUME S \ {t} = {} PROVE n = c + 1
    OBVIOUS
  <2>1. Cardinality(S \ {t}) = 0
    BY SetsCount
  <2> QED
    BY <1>2, <1>5, <2>1, GapType DEF Behind
<1> QED
  BY <1>5, <1>6 DEF Behind
-----------------------------------------------------------------------------
(* The counts, apart: none is 0 or Top by surprise. *)
LEMMA Counts ==
  ASSUME TypeOK
  PROVE  /\ requests.readers \in Count /\ requests.writers \in Count
         /\ completions.readers \in Count /\ completions.writers \in Count
         /\ \A t \in Threads : prev[t].readers \in Count /\ prev[t].writers \in Count
         /\ Readers \subseteq Threads /\ Writers \subseteq Threads
         /\ InQueue = Readers \union Writers /\ Readers \intersect Writers = {}
         /\ 0 \in Count
BY TopAssumption, ThreadsAssumption, FS_CardinalityType
   DEF TypeOK, Word, Readers, Writers, InQueue, IsWriter, PC, Count

(* Of a waiter and a thread that has passed it, only a reader has. *)
LEMMA WriterIsLast ==
  ASSUME IInv, NEW t \in Threads, pc[t] \in {"writing", "endWrite"}
  PROVE  ahead[t] = {} /\ \A u \in InQueue \ {t} : t \in ahead[u]
<1>1. ahead[t] = {}
  BY DEF IInv, ServedInOrder
<1> QED
  BY <1>1 DEF IInv, QueueInv

LEMMA ReaderIsLast ==
  ASSUME IInv, NEW t \in Threads, pc[t] \in {"reading", "endRead"}
  PROVE  \A u \in Writers : t \in ahead[u]
<1> SUFFICES ASSUME NEW u \in Writers, t \notin ahead[u] PROVE FALSE
  OBVIOUS
<1>1. u \in Threads /\ IsWriter(u) /\ u # t /\ u \in InQueue
  BY DEF Writers, IsWriter, InQueue
<1>2. u \in ahead[t]
  BY <1>1 DEF IInv, QueueInv
<1> QED
  BY <1>1, <1>2 DEF IInv, ServedInOrder

(* What a request leaves of the others. *)
LEMMA RequestKeeps ==
  ASSUME IInv, NEW t \in Threads, ReadRequest(t) \/ WriteRequest(t)
  PROVE  /\ pc[t] = "idle" /\ cs = None /\ cs' = cs /\ completions' = completions
         /\ t \notin InQueue /\ t \notin Readers /\ t \notin Writers
         /\ pc' = [pc EXCEPT ![t] = pc'[t]] /\ pc'[t] \in {"rWait", "wWait"}
         /\ prev' = [prev EXCEPT ![t] = requests]
         /\ ahead' = [ahead EXCEPT ![t] = InQueue]
         /\ InQueue' = InQueue \union {t}
         /\ QueueInv' /\ SectionInv' /\ ServedInOrder'
<1>1. TypeOK /\ QueueInv /\ SectionInv /\ ServedInOrder
  BY DEF IInv
<1>2. /\ pc[t] = "idle" /\ cs = None /\ cs' = cs /\ completions' = completions
      /\ pc' = [pc EXCEPT ![t] = pc'[t]] /\ pc'[t] \in {"rWait", "wWait"}
      /\ prev' = [prev EXCEPT ![t] = requests]
      /\ ahead' = [ahead EXCEPT ![t] = InQueue]
  BY <1>1 DEF ReadRequest, WriteRequest, FetchClearAdd, Goto, TypeOK
<1>3. t \notin InQueue /\ t \notin Readers /\ t \notin Writers
  BY <1>2 DEF InQueue, Readers, Writers, IsWriter
<1>4. InQueue' = InQueue \union {t}
  BY <1>1, <1>2 DEF InQueue, TypeOK
<1>5. QueueInv'
  BY <1>1, <1>2, <1>3, <1>4 DEF QueueInv, TypeOK, InQueue
<1>6. SectionInv'
  BY <1>1, <1>2 DEF SectionInv, TypeOK
<1>7. ServedInOrder'
  <2> SUFFICES ASSUME NEW u \in Threads
      PROVE  /\ pc'[u] \in {"writing", "endWrite"} => ahead'[u] = {}
             /\ pc'[u] \in {"reading", "endRead"} => \A v \in ahead'[u] : ~IsWriter(v)'
    BY DEF ServedInOrder
  <2>1. CASE u = t
    BY <1>1, <1>2, <2>1 DEF TypeOK
  <2>2. CASE u # t
    <3>1. pc'[u] = pc[u] /\ ahead'[u] = ahead[u]
      BY <1>1, <1>2, <2>2 DEF TypeOK
    <3>2. \A v \in ahead[u] : v \in Threads /\ v # t
      BY <1>1, <1>3 DEF QueueInv, InQueue
    <3>3. \A v \in ahead[u] : IsWriter(v)' <=> IsWriter(v)
      BY <1>1, <1>2, <3>2 DEF IsWriter, TypeOK
    <3> QED
      BY <1>1, <3>1, <3>3 DEF ServedInOrder
  <2> QED
    BY <2>1, <2>2
<1> QED
  BY <1>2, <1>3, <1>4, <1>5, <1>6, <1>7

LEMMA ReadRequestKeeps ==
  ASSUME IInv, NEW t \in Threads, ReadRequest(t)
  PROVE  IInv'
<1>1. TypeOK /\ QueueInv /\ LineInv /\ BehindInv /\ TurnInv
  BY DEF IInv
<1>2. /\ pc'[t] = "rWait"
      /\ requests' = [requests EXCEPT !.readers = ClearAdd(@)]
  BY <1>1 DEF ReadRequest, FetchClearAdd, Goto, TypeOK
<1>3. requests'.readers = ClearAdd(requests.readers) /\ requests'.writers = requests.writers
      /\ requests' \in Word
  BY <1>1, <1>2, GapType DEF TypeOK, Word
<1>4. Readers' = Readers \union {t} /\ Writers' = Writers
  BY <1>1, <1>2, RequestKeeps DEF Readers, Writers, IsWriter, TypeOK
<1>5. TypeOK'
  BY <1>1, <1>2, <1>3, RequestKeeps DEF TypeOK, PC, InQueue
<1>6. LineInv'
  BY <1>1, <1>3, <1>4, RequestKeeps, Counts, LineJoins DEF LineInv
<1>7. \A u \in Threads : u # t =>
        /\ pc'[u] = pc[u] /\ ahead'[u] = ahead[u] /\ prev'[u] = prev[u]
        /\ ahead'[u] \intersect Writers' = ahead[u] \intersect Writers
        /\ ahead'[u] \intersect Readers' = ahead[u] \intersect Readers
  BY <1>1, <1>4, RequestKeeps DEF TypeOK, QueueInv
<1>8. /\ ahead'[t] \intersect Writers' = Writers
      /\ prev'[t].writers = requests.writers
  BY <1>1, <1>4, RequestKeeps, Counts DEF TypeOK
<1>9. /\ Behind(requests.writers, completions.writers, Writers)
      /\ Writers = {} => requests.writers = completions.writers
  BY <1>1, RequestKeeps, Counts, LineFetched DEF LineInv
<1>10. BehindInv'
  <2>1. ASSUME NEW u \in InQueue'
        PROVE  Behind(prev'[u].writers, completions'.writers, ahead'[u] \intersect Writers')
    <3>1. CASE u = t
      BY <1>8, <1>9, <3>1, RequestKeeps
    <3>2. CASE u # t
      BY <1>1, <1>7, <3>2, RequestKeeps DEF BehindInv, InQueue
    <3> QED
      BY <3>1, <3>2
  <2>2. ASSUME NEW u \in Writers'
        PROVE  Behind(prev'[u].readers, completions'.readers, ahead'[u] \intersect Readers')
    BY <1>1, <1>4, <1>7, RequestKeeps, Counts DEF BehindInv
  <2> QED
    BY <2>1, <2>2 DEF BehindInv
<1>11. TurnInv'
  BY <1>1, <1>2, <1>7, <1>8, <1>9, RequestKeeps DEF TurnInv
<1> QED
  BY <1>5, <1>6, <1>10, <1>11, RequestKeeps DEF IInv

LEMMA WriteRequestKeeps ==
  ASSUME IInv, NEW t \in Threads, WriteRequest(t)
  PROVE  IInv'
<1>1. TypeOK /\ QueueInv /\ LineInv /\ BehindInv /\ TurnInv
  BY DEF IInv
<1>2. /\ pc'[t] = "wWait"
      /\ requests' = [requests EXCEPT !.writers = ClearAdd(@)]
  BY <1>1 DEF WriteRequest, FetchClearAdd, Goto, TypeOK
<1>3. requests'.writers = ClearAdd(requests.writers) /\ requests'.readers = requests.readers
      /\ requests' \in Word
  BY <1>1, <1>2, GapType DEF TypeOK, Word
<1>4. Writers' = Writers \union {t} /\ Readers' = Readers
  BY <1>1, <1>2, RequestKeeps DEF Readers, Writers, IsWriter, TypeOK
<1>5. TypeOK'
  BY <1>1, <1>2, <1>3, RequestKeeps DEF TypeOK, PC, InQueue
<1>6. LineInv'
  BY <1>1, <1>3, <1>4, RequestKeeps, Counts, LineJoins DEF LineInv
<1>7. \A u \in Threads : u # t =>
        /\ pc'[u] = pc[u] /\ ahead'[u] = ahead[u] /\ prev'[u] = prev[u]
        /\ ahead'[u] \intersect Writers' = ahead[u] \intersect Writers
        /\ ahead'[u] \intersect Readers' = ahead[u] \intersect Readers
  BY <1>1, <1>4, RequestKeeps DEF TypeOK, QueueInv
<1>8. /\ ahead'[t] \intersect Writers' = Writers /\ ahead'[t] \intersect Readers' = Readers
      /\ prev'[t] = requests
  BY <1>1, <1>4, RequestKeeps, Counts DEF TypeOK
<1>9. /\ Behind(requests.writers, completions.writers, Writers)
      /\ Writers = {} => requests.writers = completions.writers
      /\ Behind(requests.readers, completions.readers, Readers)
      /\ Readers = {} => requests.readers = completions.readers
  BY <1>1, RequestKeeps, Counts, LineFetched DEF LineInv
<1>10. BehindInv'
  <2>1. ASSUME NEW u \in InQueue'
        PROVE  Behind(prev'[u].writers, completions'.writers, ahead'[u] \intersect Writers')
    <3>1. CASE u = t
      BY <1>8, <1>9, <3>1, RequestKeeps
    <3>2. CASE u # t
      BY <1>1, <1>7, <3>2, RequestKeeps DEF BehindInv, InQueue
    <3> QED
      BY <3>1, <3>2
  <2>2. ASSUME NEW u \in Writers'
        PROVE  Behind(prev'[u].readers, completions'.readers, ahead'[u] \intersect Readers')
    <3>1. CASE u = t
      BY <1>8, <1>9, <3>1, RequestKeeps
    <3>2. CASE u # t
      BY <1>1, <1>4, <1>7, <3>2, RequestKeeps, Counts DEF BehindInv
    <3> QED
      BY <3>1, <3>2
  <2> QED
    BY <2>1, <2>2 DEF BehindInv
<1>11. TurnInv'
  BY <1>1, <1>7, <1>8, <1>9, RequestKeeps DEF TurnInv
<1> QED
  BY <1>5, <1>6, <1>10, <1>11, RequestKeeps DEF IInv
-----------------------------------------------------------------------------
(* A waiter that finds its condition true has nobody left to wait for. *)
LEMMA EqualMeansNobodyAhead ==
  ASSUME IInv, NEW t \in Threads
  PROVE  /\ pc[t] \in {"rWait", "wWait"} /\ completions.writers = prev[t].writers
              => ahead[t] \intersect Writers = {}
         /\ pc[t] = "wWait" /\ completions = prev[t] => ahead[t] = {}
<1>1. TypeOK /\ QueueInv /\ BehindInv
  BY DEF IInv
<1>2. ASSUME pc[t] \in {"rWait", "wWait"}, completions.writers = prev[t].writers
      PROVE  ahead[t] \intersect Writers = {}
  <2>1. Gap(prev[t].writers, completions.writers) = 0
    BY <1>1, <1>2, Counts, GapType
  <2>2. Cardinality(ahead[t] \intersect Writers) = 0
    BY <1>1, <1>2, <2>1 DEF BehindInv, Behind, InQueue
  <2> QED
    BY <1>1, <2>2, Counts, SetsCount
<1>3. ASSUME pc[t] = "wWait", completions = prev[t]
      PROVE  ahead[t] = {}
  <2>1. Gap(prev[t].readers, completions.readers) = 0
    BY <1>1, <1>3, Counts, GapType
  <2>2. Cardinality(ahead[t] \intersect Readers) = 0
    BY <1>1, <1>3, <2>1 DEF BehindInv, Behind, Writers, IsWriter
  <2>3. ahead[t] \intersect Readers = {}
    BY <1>1, <2>2, Counts, SetsCount
  <2> QED
    BY <1>1, <1>2, <1>3, <2>3, Counts DEF QueueInv
<1> QED
  BY <1>2, <1>3

LEMMA SpinKeeps ==
  ASSUME IInv, NEW t \in Threads, ReadSpin(t) \/ WriteSpin(t)
  PROVE  IInv'
<1>1. TypeOK /\ QueueInv /\ SectionInv /\ ServedInOrder /\ LineInv /\ BehindInv /\ TurnInv
  BY DEF IInv
<1>2. UNCHANGED <<requests, completions, cs, prev, ahead>>
  BY DEF ReadSpin, WriteSpin
<1>3. /\ pc' = [pc EXCEPT ![t] = pc'[t]]
      /\ \/ pc[t] = "rWait" /\ pc'[t] = "reading"
         \/ pc[t] = "wWait" /\ pc'[t] = "writing"
  BY <1>1 DEF ReadSpin, WriteSpin, Goto, TypeOK
<1>4. \A u \in Threads : IsWriter(u)' <=> IsWriter(u)
  BY <1>1, <1>3 DEF TypeOK, IsWriter
<1>5. Readers' = Readers /\ Writers' = Writers /\ InQueue' = InQueue
  BY <1>1, <1>3, <1>4 DEF TypeOK, Readers, Writers, InQueue
<1>6. TypeOK'
  BY <1>1, <1>2, <1>3 DEF TypeOK, PC
<1>7. QueueInv'
  BY <1>1, <1>2, <1>3, <1>5 DEF QueueInv, TypeOK
<1>8. SectionInv'
  BY <1>1, <1>2, <1>3 DEF SectionInv, TypeOK
<1>9. ServedInOrder'
  <2>1. /\ pc'[t] = "reading" => \A u \in ahead[t] : ~IsWriter(u)
        /\ pc'[t] = "writing" => ahead[t] = {}
    <3>1. ahead[t] \subseteq Threads
      BY <1>1 DEF QueueInv, InQueue
    <3>2. ReadSpin(t) => ahead[t] \intersect Writers = {}
      BY <1>3, EqualMeansNobodyAhead DEF ReadSpin, Goto
    <3>3. WriteSpin(t) => ahead[t] = {}
      BY <1>3, EqualMeansNobodyAhead DEF WriteSpin, Goto
    <3> QED
      BY <1>3, <3>1, <3>2, <3>3 DEF ReadSpin, WriteSpin, Goto, Writers
  <2>2. \A u \in Threads : ahead[u] \subseteq Threads
    BY <1>1 DEF QueueInv, InQueue
  <2> QED
    BY <1>1, <1>2, <1>3, <1>4, <2>1, <2>2 DEF ServedInOrder, TypeOK
<1>10. LineInv' /\ BehindInv'
  BY <1>1, <1>2, <1>5 DEF LineInv, BehindInv
<1>11. TurnInv'
  BY <1>1, <1>2, <1>3, <1>5 DEF TurnInv, TypeOK
<1> QED
  BY <1>6, <1>7, <1>8, <1>9, <1>10, <1>11 DEF IInv
-----------------------------------------------------------------------------
(* What the first write of a release leaves. *)
LEMMA ClearLeaves ==
  ASSUME IInv, NEW t \in Threads, EndReadClear(t) \/ EndWriteClear(t)
  PROVE  /\ UNCHANGED <<requests, prev, ahead>> /\ cs = None /\ cs' = t
         /\ pc' = [pc EXCEPT ![t] = pc'[t]]
         /\ \/ pc[t] = "reading" /\ pc'[t] = "endRead"
            \/ pc[t] = "writing" /\ pc'[t] = "endWrite"
         /\ Readers' = Readers /\ Writers' = Writers /\ InQueue' = InQueue
         /\ QueueInv' /\ ServedInOrder'
<1>1. TypeOK /\ QueueInv /\ ServedInOrder
  BY DEF IInv
<1>2. /\ UNCHANGED <<requests, prev, ahead>> /\ cs = None /\ cs' = t
      /\ pc' = [pc EXCEPT ![t] = pc'[t]]
      /\ \/ pc[t] = "reading" /\ pc'[t] = "endRead"
         \/ pc[t] = "writing" /\ pc'[t] = "endWrite"
  BY <1>1 DEF EndReadClear, EndWriteClear, EnterClear, Goto, TypeOK
<1>3. \A u \in Threads : IsWriter(u)' <=> IsWriter(u)
  BY <1>1, <1>2 DEF TypeOK, IsWriter
<1>4. Readers' = Readers /\ Writers' = Writers /\ InQueue' = InQueue
  BY <1>1, <1>2, <1>3 DEF TypeOK, Readers, Writers, InQueue
<1>5. QueueInv'
  BY <1>1, <1>2, <1>4 DEF QueueInv, TypeOK
<1>6. ServedInOrder'
  <2>1. \A u \in Threads : ahead[u] \subseteq Threads
    BY <1>1 DEF QueueInv, InQueue
  <2> QED
    BY <1>1, <1>2, <1>3, <2>1 DEF ServedInOrder, TypeOK
<1> QED
  BY <1>2, <1>4, <1>5, <1>6

LEMMA EndReadClearKeeps ==
  ASSUME IInv, NEW t \in Threads, EndReadClear(t)
  PROVE  IInv'
<1>1. TypeOK /\ QueueInv /\ SectionInv /\ LineInv /\ BehindInv /\ TurnInv
  BY DEF IInv
<1>2. /\ pc[t] = "reading" /\ pc'[t] = "endRead"
      /\ completions' = [completions EXCEPT !.readers = Clear(@)]
  BY <1>1 DEF EndReadClear, EnterClear, Goto, TypeOK
<1>3. /\ completions'.readers = Clear(completions.readers)
      /\ completions'.writers = completions.writers
      /\ completions' \in Word /\ completions'.readers # Top
  BY <1>1, <1>2, Counts, GapType DEF TypeOK, Word
<1>4. t \in Readers
  BY <1>2 DEF Readers
<1>5. TypeOK'
  BY <1>1, <1>2, <1>3, ClearLeaves DEF TypeOK, PC
<1>6. SectionInv'
  BY <1>1, <1>2, <1>3, ClearLeaves, ThreadsAssumption DEF SectionInv, TypeOK
<1>7. LineInv'
  BY <1>1, <1>3, <1>4, ClearLeaves, Counts, ClearKeeps DEF LineInv
<1>8. BehindInv'
  <2>1. ASSUME NEW u \in Writers
        PROVE  Behind(prev[u].readers, Clear(completions.readers), ahead[u] \intersect Readers)
    BY <1>1, Counts, ClearKeeps DEF BehindInv
  <2> QED
    BY <1>1, <1>3, <2>1, ClearLeaves DEF BehindInv
<1>9. \A u \in Threads : pc'[u] = "wWait" => t \in ahead[u] \intersect Readers
  <2>1. \A u \in Threads : pc'[u] = "wWait" => u \in Writers
    BY ClearLeaves DEF Writers, IsWriter
  <2> QED
    BY <1>2, <1>4, <2>1, ReaderIsLast
<1>10. TurnInv'
  BY <1>1, <1>2, <1>3, <1>9, ClearLeaves DEF TurnInv, TypeOK
<1> QED
  BY <1>5, <1>6, <1>7, <1>8, <1>10, ClearLeaves DEF IInv

LEMMA EndWriteClearKeeps ==
  ASSUME IInv, NEW t \in Threads, EndWriteClear(t)
  PROVE  IInv'
<1>1. TypeOK /\ QueueInv /\ SectionInv /\ LineInv /\ BehindInv /\ TurnInv
  BY DEF IInv
<1>2. /\ pc[t] = "writing" /\ pc'[t] = "endWrite"
      /\ completions' = [completions EXCEPT !.writers = Clear(@)]
  BY <1>1 DEF EndWriteClear, EnterClear, Goto, TypeOK
<1>3. /\ completions'.writers = Clear(completions.writers)
      /\ completions'.readers = completions.readers
      /\ completions' \in Word /\ completions'.writers # Top
  BY <1>1, <1>2, Counts, GapType DEF TypeOK, Word
<1>4. t \in Writers
  BY <1>2 DEF Writers, IsWriter
<1>5. TypeOK'
  BY <1>1, <1>2, <1>3, ClearLeaves DEF TypeOK, PC
<1>6. SectionInv'
  BY <1>1, <1>2, <1>3, ClearLeaves, ThreadsAssumption DEF SectionInv, TypeOK
<1>7. LineInv'
  BY <1>1, <1>3, <1>4, ClearLeaves, Counts, ClearKeeps DEF LineInv
<1>8. BehindInv'
  <2>1. ASSUME NEW u \in InQueue
        PROVE  Behind(prev[u].writers, Clear(completions.writers), ahead[u] \intersect Writers)
    BY <1>1, Counts, ClearKeeps DEF BehindInv, InQueue
  <2> QED
    BY <1>1, <1>3, <2>1, ClearLeaves DEF BehindInv
<1>9. \A u \in Threads : pc'[u] \in {"rWait", "wWait"} => t \in ahead[u] \intersect Writers
  <2>1. \A u \in Threads : pc'[u] \in {"rWait", "wWait"} => u \in InQueue \ {t}
    BY <1>2, ClearLeaves DEF InQueue
  <2> QED
    BY <1>2, <1>4, <2>1, WriterIsLast
<1>10. TurnInv'
  BY <1>1, <1>2, <1>3, <1>9, ClearLeaves DEF TurnInv, TypeOK
<1> QED
  BY <1>5, <1>6, <1>7, <1>8, <1>10, ClearLeaves DEF IInv
-----------------------------------------------------------------------------
(* What the second write of a release leaves. *)
LEMMA AddLeaves ==
  ASSUME IInv, NEW t \in Threads, EndReadAdd(t) \/ EndWriteAdd(t)
  PROVE  /\ requests' = requests /\ cs = t /\ cs' = None
         /\ pc' = [pc EXCEPT ![t] = "idle"] /\ pc[t] \in {"endRead", "endWrite"}
         /\ prev' = [prev EXCEPT ![t] = Zero]
         /\ ahead' = [u \in Threads |-> IF u = t THEN {} ELSE ahead[u] \ {t}]
         /\ Readers' = Readers \ {t} /\ Writers' = Writers \ {t}
         /\ InQueue' = InQueue \ {t}
         /\ QueueInv' /\ ServedInOrder'
         /\ prev' \in [Threads -> Word] /\ ahead' \in [Threads -> SUBSET Threads]
<1>1. TypeOK /\ QueueInv /\ SectionInv /\ ServedInOrder
  BY DEF IInv
<1>2. /\ requests' = requests /\ cs = t /\ cs' = None
      /\ pc' = [pc EXCEPT ![t] = "idle"] /\ pc[t] \in {"endRead", "endWrite"}
      /\ prev' = [prev EXCEPT ![t] = Zero]
      /\ ahead' = [u \in Threads |-> IF u = t THEN {} ELSE ahead[u] \ {t}]
  BY <1>1 DEF EndReadAdd, EndWriteAdd, AddLeave, Goto, SectionInv
<1>3. \A u \in Threads \ {t} : IsWriter(u)' <=> IsWriter(u)
  BY <1>1, <1>2 DEF TypeOK, IsWriter
<1>4. Readers' = Readers \ {t} /\ Writers' = Writers \ {t} /\ InQueue' = InQueue \ {t}
  BY <1>1, <1>2, <1>3 DEF TypeOK, Readers, Writers, InQueue, IsWriter
<1>5. QueueInv'
  <2>1. pc'[t] = "idle" /\ ahead'[t] = {}
    BY <1>1, <1>2 DEF TypeOK
  <2>2. \A u \in Threads : u # t => pc'[u] = pc[u] /\ ahead'[u] = ahead[u] \ {t}
    BY <1>1, <1>2 DEF TypeOK
  <2> SUFFICES ASSUME NEW u \in Threads
      PROVE  /\ ahead'[u] \subseteq InQueue' \ {u}
             /\ pc'[u] = "idle" => ahead'[u] = {}
             /\ pc'[u] # "idle" => \A v \in InQueue' \ {u} : u \in ahead'[v] \/ v \in ahead'[u]
    BY DEF QueueInv
  <2>3. CASE u = t
    BY <2>1, <2>3
  <2>4. CASE u # t
    <3>1. ahead'[u] \subseteq InQueue' \ {u} /\ (pc'[u] = "idle" => ahead'[u] = {})
      BY <1>1, <1>4, <2>2, <2>4 DEF QueueInv
    <3>2. ASSUME pc'[u] # "idle", NEW v \in InQueue' \ {u}
          PROVE  u \in ahead'[v] \/ v \in ahead'[u]
      <4>1. v \in InQueue \ {u} /\ v # t /\ v \in Threads
        BY <1>4, <3>2 DEF InQueue
      <4>2. u \in ahead[v] \/ v \in ahead[u]
        BY <1>1, <2>2, <2>4, <3>2, <4>1 DEF QueueInv
      <4> QED
        BY <2>2, <2>4, <4>1, <4>2
    <3> QED
      BY <3>1, <3>2
  <2> QED
    BY <2>3, <2>4
<1>6. ServedInOrder'
  <2>1. \A u \in Threads : ahead[u] \subseteq Threads
    BY <1>1 DEF QueueInv, InQueue
  <2> QED
    BY <1>1, <1>2, <1>3, <2>1 DEF ServedInOrder, TypeOK
<1>7. prev' \in [Threads -> Word] /\ ahead' \in [Threads -> SUBSET Threads]
  <2>1. Zero \in Word
    BY <1>1, Counts DEF Zero, Word
  <2>2. \A u \in Threads : ahead[u] \subseteq Threads
    BY <1>1 DEF TypeOK
  <2> QED
    BY <1>1, <1>2, <2>1, <2>2 DEF TypeOK
<1> QED
  BY <1>2, <1>4, <1>5, <1>6, <1>7

LEMMA EndReadAddKeeps ==
  ASSUME IInv, NEW t \in Threads, EndReadAdd(t)
  PROVE  IInv'
<1>1. TypeOK /\ QueueInv /\ SectionInv /\ LineInv /\ BehindInv /\ TurnInv
  BY DEF IInv
<1>2. /\ pc[t] = "endRead" /\ completions.readers # Top
      /\ completions' = [completions EXCEPT !.readers = @ + 1]
  BY <1>1 DEF EndReadAdd, AddLeave, Goto, SectionInv
<1>3. t \in Readers /\ t \notin Writers
  BY <1>2 DEF Readers, Writers, IsWriter
<1>4. /\ completions.readers + 1 \in Count
      /\ Line(requests.readers, completions.readers + 1, Readers \ {t})
  BY <1>1, <1>2, <1>3, Counts, LineLeaves DEF LineInv
<1>5. /\ completions'.readers = completions.readers + 1
      /\ completions'.writers = completions.writers
      /\ completions' \in Word
  BY <1>1, <1>2, <1>4 DEF TypeOK, Word
<1>6. TypeOK'
  BY <1>1, <1>5, AddLeaves DEF TypeOK, PC
<1>7. SectionInv'
  BY <1>1, AddLeaves, ThreadsAssumption DEF SectionInv, TypeOK
<1>8. LineInv'
  <2>1. Readers' = Readers \ {t} /\ Writers' = Writers \ {t} /\ requests' = requests
    BY AddLeaves
  <2>2. Writers \ {t} = Writers
    BY <1>3
  <2> QED
    BY <1>1, <1>4, <1>5, <2>1, <2>2 DEF LineInv
<1>9. \A u \in Threads : u # t =>
        /\ pc'[u] = pc[u] /\ prev'[u] = prev[u]
        /\ ahead'[u] \intersect Writers' = ahead[u] \intersect Writers
        /\ ahead'[u] \intersect Readers' = (ahead[u] \intersect Readers) \ {t}
  BY <1>1, <1>3, AddLeaves DEF TypeOK
<1>10. ASSUME NEW u \in Writers
       PROVE  /\ u \in Threads /\ u # t
              /\ Behind(prev[u].readers, completions.readers + 1,
                        (ahead[u] \intersect Readers) \ {t})
              /\ (ahead[u] \intersect Readers) \ {t} = {}
                   => prev[u].readers = completions.readers + 1
  <2>1. u \in Threads /\ u # t /\ t \in ahead[u] \intersect Readers
    BY <1>2, <1>3, ReaderIsLast DEF Writers
  <2>2. Behind(prev[u].readers, completions.readers, ahead[u] \intersect Readers)
    BY <1>1 DEF BehindInv
  <2>3. ahead[u] \intersect Readers \in SUBSET Threads
        /\ prev[u].readers \in Count /\ completions.readers \in Count
    BY <1>1, <2>1, Counts
  <2> QED
    BY <1>2, <2>1, <2>2, <2>3, BehindLeaves
<1>11. BehindInv'
  <2>1. ASSUME NEW u \in InQueue'
        PROVE  Behind(prev'[u].writers, completions'.writers, ahead'[u] \intersect Writers')
    BY <1>1, <1>5, <1>9, AddLeaves DEF BehindInv, InQueue
  <2>2. ASSUME NEW u \in Writers'
        PROVE  Behind(prev'[u].readers, completions'.readers, ahead'[u] \intersect Readers')
    <3>1. u \in Writers
      BY AddLeaves
    <3>2. /\ prev'[u].readers = prev[u].readers
          /\ ahead'[u] \intersect Readers' = (ahead[u] \intersect Readers) \ {t}
      BY <1>9, <1>10, <3>1
    <3> QED
      BY <1>5, <1>10, <3>1, <3>2
  <2> QED
    BY <2>1, <2>2 DEF BehindInv
<1>12. TurnInv'
  <2>1. pc'[t] = "idle"
    BY <1>1, AddLeaves DEF TypeOK
  <2>2. \A u \in Threads : pc[u] = "wWait" => u \in Writers
    BY DEF Writers, IsWriter
  <2> QED
    BY <1>1, <1>5, <1>9, <1>10, <2>1, <2>2 DEF TurnInv
<1> QED
  BY <1>6, <1>7, <1>8, <1>11, <1>12, AddLeaves DEF IInv

LEMMA EndWriteAddKeeps ==
  ASSUME IInv, NEW t \in Threads, EndWriteAdd(t)
  PROVE  IInv'
<1>1. TypeOK /\ QueueInv /\ SectionInv /\ LineInv /\ BehindInv /\ TurnInv
  BY DEF IInv
<1>2. /\ pc[t] = "endWrite" /\ completions.writers # Top
      /\ completions' = [completions EXCEPT !.writers = @ + 1]
  BY <1>1 DEF EndWriteAdd, AddLeave, Goto, SectionInv
<1>3. t \in Writers /\ t \notin Readers
  BY <1>2 DEF Readers, Writers, IsWriter
<1>4. /\ completions.writers + 1 \in Count
      /\ Line(requests.writers, completions.writers + 1, Writers \ {t})
  BY <1>1, <1>2, <1>3, Counts, LineLeaves DEF LineInv
<1>5. /\ completions'.writers = completions.writers + 1
      /\ completions'.readers = completions.readers
      /\ completions' \in Word
  BY <1>1, <1>2, <1>4 DEF TypeOK, Word
<1>6. TypeOK'
  BY <1>1, <1>5, AddLeaves DEF TypeOK, PC
<1>7. SectionInv'
  BY <1>1, AddLeaves, ThreadsAssumption DEF SectionInv, TypeOK
<1>8. LineInv'
  <2>1. Writers' = Writers \ {t} /\ Readers' = Readers \ {t} /\ requests' = requests
    BY AddLeaves
  <2>2. Readers \ {t} = Readers
    BY <1>3
  <2> QED
    BY <1>1, <1>4, <1>5, <2>1, <2>2 DEF LineInv
<1>9. \A u \in Threads : u # t =>
        /\ pc'[u] = pc[u] /\ prev'[u] = prev[u]
        /\ ahead'[u] \intersect Readers' = ahead[u] \intersect Readers
        /\ ahead'[u] \intersect Writers' = (ahead[u] \intersect Writers) \ {t}
  BY <1>1, <1>3, AddLeaves DEF TypeOK
<1>10. ASSUME NEW u \in InQueue, u # t
       PROVE  /\ Behind(prev[u].writers, completions.writers + 1,
                        (ahead[u] \intersect Writers) \ {t})
              /\ (ahead[u] \intersect Writers) \ {t} = {}
                   => prev[u].writers = completions.writers + 1
  <2>1. u \in Threads /\ t \in ahead[u] \intersect Writers
    BY <1>2, <1>3, <1>10, WriterIsLast DEF InQueue
  <2>2. Behind(prev[u].writers, completions.writers, ahead[u] \intersect Writers)
    BY <1>1 DEF BehindInv
  <2>3. ahead[u] \intersect Writers \in SUBSET Threads
        /\ prev[u].writers \in Count /\ completions.writers \in Count
    BY <1>1, <2>1, Counts
  <2> QED
    BY <1>2, <2>1, <2>2, <2>3, BehindLeaves
<1>11. BehindInv'
  <2>1. ASSUME NEW u \in InQueue'
        PROVE  Behind(prev'[u].writers, completions'.writers, ahead'[u] \intersect Writers')
    <3>1. u \in InQueue /\ u # t /\ u \in Threads
      BY AddLeaves DEF InQueue
    <3>2. /\ prev'[u].writers = prev[u].writers
          /\ ahead'[u] \intersect Writers' = (ahead[u] \intersect Writers) \ {t}
      BY <1>9, <3>1
    <3> QED
      BY <1>5, <1>10, <3>1, <3>2
  <2>2. ASSUME NEW u \in Writers'
        PROVE  Behind(prev'[u].readers, completions'.readers, ahead'[u] \intersect Readers')
    BY <1>1, <1>5, <1>9, AddLeaves, Counts DEF BehindInv
  <2> QED
    BY <2>1, <2>2 DEF BehindInv
<1>12. TurnInv'
  <2>1. pc'[t] = "idle"
    BY <1>1, AddLeaves DEF TypeOK
  <2>2. \A u \in Threads : pc[u] \in {"rWait", "wWait"} => u \in InQueue
    BY DEF InQueue
  <2> QED
    BY <1>1, <1>5, <1>9, <1>10, <2>1, <2>2 DEF TurnInv
<1> QED
  BY <1>6, <1>7, <1>8, <1>11, <1>12, AddLeaves DEF IInv
-----------------------------------------------------------------------------
LEMMA InitIInv == Init => IInv
<1> SUFFICES ASSUME Init PROVE IInv
  OBVIOUS
<1>1. 0 \in Count /\ Clear(0) = 0 /\ Gap(0, 0) = 0
  BY TopAssumption, ThreadsAssumption, FS_CardinalityType DEF Count, Clear, Gap
<1>2. TypeOK
  BY <1>1 DEF Init, TypeOK, Word, Zero, PC
<1>3. QueueInv /\ ServedInOrder
  BY DEF Init, QueueInv, ServedInOrder, InQueue
<1>4. SectionInv
  BY ThreadsAssumption DEF Init, SectionInv
<1>5. Readers = {} /\ Writers = {} /\ InQueue = {}
  BY DEF Init, Readers, Writers, InQueue, IsWriter
<1>6. LineInv
  BY <1>1, <1>5, FS_EmptySet DEF Init, LineInv, Line, Zero
<1>7. BehindInv /\ TurnInv
  BY <1>5 DEF Init, BehindInv, TurnInv
<1> QED
  BY <1>2, <1>3, <1>4, <1>6, <1>7 DEF IInv

LEMMA NextIInv == IInv /\ [Next]_vars => IInv'
<1> SUFFICES ASSUME IInv, [Next]_vars PROVE IInv'
  OBVIOUS
<1>1. ASSUME NEW t \in Threads, ReadRequest(t) \/ WriteRequest(t) PROVE IInv'
  BY <1>1, ReadRequestKeeps, WriteRequestKeeps
<1>2. ASSUME NEW t \in Threads, ReadSpin(t) \/ WriteSpin(t) PROVE IInv'
  BY <1>2, SpinKeeps
<1>3. ASSUME NEW t \in Threads, EndReadClear(t) \/ EndWriteClear(t) PROVE IInv'
  BY <1>3, EndReadClearKeeps, EndWriteClearKeeps
<1>4. ASSUME NEW t \in Threads, EndReadAdd(t) \/ EndWriteAdd(t) PROVE IInv'
  BY <1>4, EndReadAddKeeps, EndWriteAddKeeps
<1>5. CASE UNCHANGED vars
  <2>1. InQueue' = InQueue /\ Readers' = Readers /\ Writers' = Writers
        /\ \A u : IsWriter(u)' <=> IsWriter(u)
    BY <1>5 DEF vars, InQueue, Readers, Writers, IsWriter
  <2>2. TypeOK' /\ QueueInv' /\ SectionInv' /\ ServedInOrder'
    BY <1>5, <2>1 DEF vars, IInv, TypeOK, QueueInv, SectionInv, ServedInOrder
  <2>3. LineInv' /\ BehindInv' /\ TurnInv'
    BY <1>5, <2>1 DEF vars, IInv, LineInv, BehindInv, TurnInv
  <2> QED
    BY <2>2, <2>3 DEF IInv
<1> QED
  BY <1>1, <1>2, <1>3, <1>4, <1>5 DEF Next, Serve

(* Always: the threads in the queue came one after the other, and the      *)
(* counts say how many there are and how many are ahead of each.           *)
THEOREM InvariantHolds == Spec => []IInv
BY InitIInv, NextIInv, PTL DEF Spec

LEMMA TurnsAreVisible ==
  ASSUME IInv
  PROVE  TurnIsVisible
<1>1. TypeOK /\ QueueInv /\ TurnInv
  BY DEF IInv
<1> SUFFICES ASSUME NEW t \in Threads
    PROVE  /\ pc[t] = "rWait" =>
                ((\A u \in ahead[t] : ~IsWriter(u)) <=> completions.writers = prev[t].writers)
           /\ pc[t] = "wWait" => (ahead[t] = {} <=> completions = prev[t])
  BY DEF TurnIsVisible
<1>2. (\A u \in ahead[t] : ~IsWriter(u)) <=> ahead[t] \intersect Writers = {}
  BY <1>1 DEF QueueInv, InQueue, Writers
<1>3. pc[t] = "rWait" =>
        (ahead[t] \intersect Writers = {} <=> completions.writers = prev[t].writers)
  BY <1>1, EqualMeansNobodyAhead DEF TurnInv
<1>4. pc[t] = "wWait" => (ahead[t] = {} <=> completions = prev[t])
  <2>1. pc[t] = "wWait" /\ ahead[t] = {} => /\ completions.writers = prev[t].writers
                                            /\ completions.readers = prev[t].readers
    BY <1>1 DEF TurnInv
  <2>2. completions \in Word /\ prev[t] \in Word
    BY <1>1 DEF TypeOK
  <2> QED
    BY <2>1, <2>2, EqualMeansNobodyAhead DEF Word
<1> QED
  BY <1>2, <1>3, <1>4

(* First come, first served: no turn comes early and none is missed, even  *)
(* between the two writes of a release.                                    *)
THEOREM TurnsAreInOrder == Spec => []TurnsComeInOrder
<1>1. IInv => TurnsComeInOrder
  BY TurnsAreVisible DEF IInv, TurnsComeInOrder
<1> QED
  BY <1>1, InvariantHolds, PTL
-----------------------------------------------------------------------------
LEMMA InitRefines == Init => Abstract!Init
BY DEF Init, Abstract!Init, Mode

(* Who gets the lock finds nobody that holds it in the way of it. *)
LEMMA NextRefines == IInv /\ [Next]_vars => [Abstract!Next]_Mode
<1> SUFFICES ASSUME IInv, [Next]_vars PROVE [Abstract!Next]_Mode
  OBVIOUS
<1>0. TypeOK /\ QueueInv
  BY DEF IInv
<1>1. ASSUME NEW t \in Threads, ReadSpin(t) PROVE Abstract!AcquireRead(t)
  <2>1. pc[t] = "rWait" /\ Mode[t] = "none" /\ Mode' = [Mode EXCEPT ![t] = "read"]
    BY <1>0, <1>1 DEF ReadSpin, Goto, Mode, TypeOK
  <2>2. ahead[t] \intersect Writers = {}
    BY <1>1, <2>1, EqualMeansNobodyAhead DEF ReadSpin
  <2>3. ASSUME NEW u \in Threads, pc[u] \in {"writing", "endWrite"} PROVE FALSE
    <3>1. u \in ahead[t] /\ u \in Writers
      BY <2>1, <2>3, WriterIsLast DEF InQueue, Writers, IsWriter
    <3> QED
      BY <2>2, <3>1
  <2>4. \A u \in Threads : Mode[u] # "write"
    BY <2>3 DEF Mode
  <2> QED
    BY <2>1, <2>4 DEF Abstract!AcquireRead
<1>2. ASSUME NEW t \in Threads, WriteSpin(t) PROVE Abstract!AcquireWrite(t)
  <2>1. pc[t] = "wWait" /\ Mode' = [Mode EXCEPT ![t] = "write"]
    BY <1>0, <1>2 DEF WriteSpin, Goto, Mode, TypeOK
  <2>2. ahead[t] = {}
    BY <1>2, <2>1, EqualMeansNobodyAhead DEF WriteSpin
  <2>3. ASSUME NEW u \in Threads, pc[u] \in {"reading", "endRead", "writing", "endWrite"}
        PROVE  FALSE
    <3>1. t \in Writers /\ t \in InQueue /\ t # u
      BY <2>1, <2>3 DEF InQueue, Writers, IsWriter
    <3>2. u \in ahead[t]
      BY <2>3, <3>1, WriterIsLast, ReaderIsLast
    <3> QED
      BY <2>2, <3>2
  <2>4. \A u \in Threads : Mode[u] = "none"
    BY <2>3 DEF Mode
  <2> QED
    BY <2>1, <2>4 DEF Abstract!AcquireWrite
<1>3. ASSUME NEW t \in Threads, EndReadAdd(t) \/ EndWriteAdd(t) PROVE Abstract!Release(t)
  BY <1>0, <1>3 DEF EndReadAdd, EndWriteAdd, AddLeave, Goto, Mode, TypeOK, Abstract!Release
<1>4. ASSUME NEW t \in Threads,
             ReadRequest(t) \/ WriteRequest(t) \/ EndReadClear(t) \/ EndWriteClear(t)
      PROVE  UNCHANGED Mode
  BY <1>0, <1>4 DEF ReadRequest, WriteRequest, EndReadClear, EndWriteClear, Goto, Mode, TypeOK
<1>5. CASE UNCHANGED vars
  BY <1>5 DEF vars, Mode
<1> QED
  BY <1>1, <1>2, <1>3, <1>4, <1>5 DEF Next, Serve, Abstract!Next

(* CReaderWriterLock_NS_FAIR implements the abstract reader-writer lock. *)
THEOREM Implementation == Spec => ImplementsRWLock
<1>1. Spec => []IInv
  BY InvariantHolds
<1> QED
  BY <1>1, InitRefines, NextRefines, PTL DEF Spec, ImplementsRWLock, Abstract!Spec
=============================================================================
