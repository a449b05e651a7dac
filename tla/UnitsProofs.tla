---------------------------- MODULE UnitsProofs ----------------------------
(***************************************************************************)
(* Proofs about the units of MCUnits, for any processes, events, threads,  *)
(* fields, messages, units and observers.  Each section is about one of them: *)
(* what it keeps is an invariant of its own variables, which the steps of the *)
(* others leave alone.                                                     *)
(*                                                                         *)
(* HostProcessPool: the least of the ended processes is run again.         *)
(* EventQueues: an element inserted before the first one it precedes keeps a *)
(* line in order, and two lines of the same elements are the same; the     *)
(* priority queue agrees with them by the pigeonhole principle.            *)
(* QueueSpinLocked: nobody but the one that saw it not empty pops.         *)
(* ScrollGame: a row is the one drawn so many intervals ago.               *)
(* ZoneMsgDispatcher, Menus, Observer: what the tables hold is what was    *)
(* registered, in whatever order.                                          *)
(* Ledger: a sum over a set does not depend on the order it is taken in.   *)
(* BLOBAgent: the reader goes from record to record as the writer did.     *)
(* BitBuff: each position is a bit of its own.                             *)
(* DebugAssignString: the assignments stand one behind the other.          *)
(* Utf8: text is cut into well-formed sequences in one way only, which is  *)
(* why the functions that go through it forwards, backwards and through    *)
(* its code points agree.                                                  *)
(***************************************************************************)
EXTENDS MCUnits, FiniteSetTheorems, SequenceTheorems, WellFoundedInduction, TLAPS

-----------------------------------------------------------------------------
(* HostProcessPool: its steps, whatever the others do.                     *)
LEMMA PoolSteps == [Next]_vars => [Pool!Next]_poolVars
<1> SUFFICES ASSUME [Next]_vars PROVE Pool!Next \/ UNCHANGED poolVars
  OBVIOUS
<1>1. CASE PoolStep
  BY <1>1 DEF PoolStep
<1> QED
  BY <1>1 DEF Next, vars, Only, PoolStep, DispatcherStep, BlobStep,
              FlagStep, TextStep, AssignStep, EventsStep, QueueStep, ScrollStep,
              MenuStep, SubjectStep, LedgerStep

(* A set of natural numbers has a least one.                                *)
LEMMA LeastNatural ==
  ASSUME NEW S, S \subseteq Nat, S # {}
  PROVE  \E x \in S : \A y \in S : x <= y
<1>1. PICK x \in S : \A y \in S : ~(<<y, x>> \in OpToRel(<, Nat))
  BY NatLessThanWellFounded, WFMin, Zenon
<1>2. ASSUME NEW y \in S PROVE x <= y
  <2>1. y \in Nat /\ x \in Nat
    OBVIOUS
  <2>2. ~(y < x)
    BY <1>1, <2>1 DEF OpToRel
  <2> QED
    BY <2>1, <2>2
<1> QED
  BY <1>2

LEMMA SmallerSubset ==
  ASSUME NEW S, IsFiniteSet(S), NEW T, T \subseteq S, T # S
  PROVE  Pool!Cardinality(T) < Pool!Cardinality(S)
<1>1. \A R : Pool!Cardinality(R) = Cardinality(R)
  BY DEF Pool!Cardinality, Cardinality
<1>2. IsFiniteSet(T) /\ Cardinality(T) <= Cardinality(S) /\ Cardinality(T) # Cardinality(S)
  BY FS_Subset
<1>3. Cardinality(T) \in Nat /\ Cardinality(S) \in Nat
  BY <1>2, FS_CardinalityType
<1> QED
  BY <1>1, <1>2, <1>3

(* How large the pool is.                                                  *)
PoolInv == _HostProcessQuantity \in Nat

LEMMA PoolGrowSize ==
  ASSUME PoolInv, NEW n \in Inputs
  PROVE  Pool!GrowSize(n) \in Nat
<1>1. (_HostProcessQuantity + n) \in Int /\ SizeModulus \in Nat \ {0}
  BY PoolAssumption DEF PoolInv
<1>2. ((_HostProcessQuantity + n) % SizeModulus) \in Nat
  BY <1>1
<1> QED
  BY <1>2 DEF Pool!GrowSize, PoolInv

(* What Run does, of what TurnRestoresPool says.                           *)
LEMMA PoolRun ==
  ASSUME NEW quantity \in Nat, NEW cannot, Pool!Run(quantity, cannot)
  PROVE  /\ \A i \in Pool!InPool(quantity) : _HostProcesses'[i] = "invalid" => i \in failed'
         /\ Pool!Watchable(quantity) /\ Pool!In(quantity, "ended") # {} =>
              Pool!Cardinality({i \in Pool!InPool(quantity) : _HostProcesses'[i] = "ended"})
                < Pool!Cardinality(Pool!In(quantity, "ended"))
<1> DEFINE endedNow == Pool!In(quantity, "ended")
           endedNext == {i \in Pool!InPool(quantity) : _HostProcesses'[i] = "ended"}
           toStart == Pool!ToStart(quantity)
<1>1. /\ cannot \subseteq toStart
      /\ _HostProcesses' = [i \in Pool!Slots |->
           IF i \in toStart THEN IF i \in cannot THEN "invalid" ELSE "running"
           ELSE _HostProcesses[i]]
      /\ failed' = IF Pool!CheckAlive(quantity) THEN {} ELSE cannot
  BY DEF Pool!Run, Pool!HostsExecute
<1>2. Pool!InPool(quantity) \subseteq Pool!Slots /\ Pool!Slots \subseteq Nat
  BY PoolAssumption DEF Pool!InPool, Pool!Slots
<1>3. ASSUME NEW i \in Pool!InPool(quantity), _HostProcesses'[i] = "invalid"
      PROVE  i \in failed'
  <2>1. CASE Pool!CheckAlive(quantity)
    <3>1. toStart = {} /\ _HostProcesses[i] # "invalid"
      BY <2>1 DEF Pool!ToStart, Pool!CheckAlive, Pool!WaitFails, Pool!In
    <3> QED
      BY <1>1, <1>2, <1>3, <3>1
  <2>2. CASE ~Pool!CheckAlive(quantity)
    <3>1. _HostProcesses[i] = "invalid" => i \in toStart
      BY <2>2 DEF Pool!ToStart, Pool!In
    <3> HIDE DEF toStart
    <3> QED
      BY <1>1, <1>2, <1>3, <2>2, <3>1
  <2> QED
    BY <2>1, <2>2
<1>4. ASSUME Pool!Watchable(quantity), endedNow # {}
      PROVE  Pool!Cardinality(endedNext) < Pool!Cardinality(endedNow)
  <2>1. ~Pool!WaitFails(quantity)
    <3>1. quantity # 0
      <4>1. PICK i \in Pool!InPool(quantity) : i \in endedNow
        BY <1>4 DEF Pool!In
      <4>2. i \in Nat /\ i < quantity
        BY <1>2, <4>1 DEF Pool!InPool
      <4> QED
        BY <4>2
    <3> QED
      BY <1>4, <3>1, PoolAssumption DEF Pool!Watchable, Pool!WaitFails
  <2>2. PICK least \in endedNow : \A i \in endedNow : least <= i
    <3>1. endedNow \subseteq Nat
      BY <1>2 DEF Pool!In
    <3> HIDE DEF endedNow
    <3> QED
      BY <1>4, <3>1, LeastNatural
  <2>3. least \in Pool!Signaled(quantity)
    BY <2>1, <2>2 DEF Pool!Signaled
  <2>4. least \in toStart /\ least \in Pool!InPool(quantity)
    BY <2>3 DEF Pool!ToStart, Pool!CheckAlive, Pool!In
  <2>5. ASSUME NEW i \in endedNext PROVE i \in endedNow /\ i # least
    <3>1. i \in Pool!InPool(quantity) /\ i \in Pool!Slots /\ _HostProcesses'[i] = "ended"
      BY <1>2
    <3> HIDE DEF toStart
    <3>2. i \notin toStart /\ _HostProcesses[i] = "ended"
      BY <1>1, <3>1
    <3> QED
      BY <2>4, <3>1, <3>2 DEF Pool!In
  <2>6. IsFiniteSet(endedNow)
    <3>1. IsFiniteSet(Pool!Slots)
      BY PoolAssumption, FS_Interval DEF Pool!Slots
    <3>2. endedNow \subseteq Pool!Slots
      BY <1>2 DEF Pool!In
    <3> QED
      BY <3>1, <3>2, FS_Subset
  <2> HIDE DEF endedNow, endedNext
  <2>7. endedNext \subseteq endedNow /\ endedNext # endedNow
    BY <2>2, <2>5
  <2> QED
    BY <2>6, <2>7, SmallerSubset
<1> QED
  BY <1>3, <1>4

LEMMA PoolStepRestores ==
  ASSUME PoolInv, Pool!Next
  PROVE  /\ PoolInv'
         /\ LET quantity == _HostProcessQuantity'
            IN  \/ \E i \in Pool!Slots : Pool!HostEnds(i)
                \/ Pool!Quit
                \/ /\ \A i \in Pool!InPool(quantity) :
                        _HostProcesses'[i] = "invalid" => i \in failed'
                   /\ Pool!Watchable(quantity) /\ Pool!In(quantity, "ended") # {} =>
                        Pool!Cardinality(Pool!Ended') < Pool!Cardinality(Pool!In(quantity, "ended"))
<1>1. CASE Pool!Quit \/ \E i \in Pool!Slots : Pool!HostEnds(i)
  <2>1. UNCHANGED _HostProcessQuantity
    BY <1>1 DEF Pool!Quit, Pool!HostEnds
  <2> QED
    BY <1>1, <2>1 DEF PoolInv
<1>2. ASSUME NEW n \in Inputs, Pool!Turn(n)
      PROVE  /\ PoolInv'
             /\ LET quantity == _HostProcessQuantity'
                IN  /\ \A i \in Pool!InPool(quantity) :
                         _HostProcesses'[i] = "invalid" => i \in failed'
                    /\ Pool!Watchable(quantity) /\ Pool!In(quantity, "ended") # {} =>
                         Pool!Cardinality(Pool!Ended') < Pool!Cardinality(Pool!In(quantity, "ended"))
  <2>1. PICK quantity \in Nat : quantity = Pool!GrowSize(n)
    BY PoolGrowSize
  <2>2. PICK cannot : Pool!Run(quantity, cannot)
    BY <1>2, <2>1 DEF Pool!Turn
  <2>3. _HostProcessQuantity' = quantity
    BY <1>2, <2>1 DEF Pool!Turn
  <2>4. Pool!Ended' = {i \in Pool!InPool(quantity) : _HostProcesses'[i] = "ended"}
    BY <2>3 DEF Pool!Ended, Pool!In, Pool!InPool, Pool!Slots
  <2> QED
    BY <2>2, <2>3, <2>4, PoolRun DEF PoolInv
<1> QED
  BY <1>1, <1>2 DEF Pool!Next

(* For a pool and a wait of any size and any inputs, negative ones too: a  *)
(* turn leaves a slot of the pool empty only where no process could be     *)
(* started, and one ended process fewer in a pool that can be watched.     *)
THEOREM TurnRestoresPoolHolds == Spec => TurnRestoresPool
<1>1. Init => PoolInv
  BY DEF Init, Pool!Init, PoolInv
<1>2. PoolInv /\ [Next]_vars => PoolInv'
  <2>1. PoolInv /\ UNCHANGED poolVars => PoolInv'
    BY DEF PoolInv, poolVars
  <2> QED
    BY <2>1, PoolSteps, PoolStepRestores
<1>3. PoolInv /\ [Next]_vars =>
        [LET quantity == _HostProcessQuantity'
         IN  \/ \E i \in Pool!Slots : Pool!HostEnds(i)
             \/ Pool!Quit
             \/ /\ \A i \in Pool!InPool(quantity) :
                     _HostProcesses'[i] = "invalid" => i \in failed'
                /\ Pool!Watchable(quantity) /\ Pool!In(quantity, "ended") # {} =>
                     Pool!Cardinality(Pool!Ended')
                       < Pool!Cardinality(Pool!In(quantity, "ended"))]_(Pool!vars)
  BY PoolSteps, PoolStepRestores DEF Pool!vars, poolVars
<1> QED
  BY <1>1, <1>2, <1>3, PTL DEF Spec, TurnRestoresPool, Pool!TurnRestoresPool
-----------------------------------------------------------------------------
(* EventQueues: its steps, whatever the others do.                         *)
LEMMA EvtsSteps == [Next]_vars => [Evts!Next]_eventsVars
<1> SUFFICES ASSUME [Next]_vars PROVE Evts!Next \/ UNCHANGED eventsVars
  OBVIOUS
<1>1. CASE EventsStep
  BY <1>1 DEF EventsStep
<1> QED
  BY <1>1 DEF Next, vars, Only, PoolStep, DispatcherStep, BlobStep,
              FlagStep, TextStep, AssignStep, EventsStep, QueueStep, ScrollStep,
              MenuStep, SubjectStep, LedgerStep

(* s holds the members of S, each once, in the order R.                    *)
Lines(s, S, R) ==
  /\ s \in Seq(S)
  /\ \A e \in S : \E i \in 1 .. Len(s) : s[i] = e
  /\ \A i, j \in 1 .. Len(s) : i < j => <<s[i], s[j]>> \in R

(* Before takes the first place at which an element is in stops.           *)
LEMMA PlaceOfBefore ==
  ASSUME NEW S, NEW s \in Seq(S), NEW stops
  PROVE  \E k \in 1 .. Len(s) + 1 :
           /\ \A i \in 1 .. k - 1 : s[i] \notin stops
           /\ k <= Len(s) => s[k] \in stops
           /\ Evts!Before(s, stops) = Evts!InsertAt(s, k, Evts!nCurInput)
<1> DEFINE I == {i \in 1 .. Len(s) : s[i] \in stops}
           p == IF I # {} THEN Evts!Min(I) ELSE 0
<1>1. Evts!Before(s, stops) =
        Evts!InsertAt(s, IF p = 0 THEN Len(s) + 1 ELSE p, Evts!nCurInput)
  BY DEF Evts!Before, Evts!SelectInSeq
<1>2. CASE I = {}
  BY <1>1, <1>2
<1>3. CASE I # {}
  <2>1. PICK k \in I : \A i \in I : k <= i
    <3>1. I \subseteq Nat
      OBVIOUS
    <3> HIDE DEF I
    <3> QED
      BY <1>3, <3>1, LeastNatural
  <2>2. Evts!Min(I) \in I /\ \A i \in I : Evts!Min(I) <= i
    <3> HIDE DEF I
    <3> QED
      BY <2>1, Zenon DEF Evts!Min
  <2>3. p = Evts!Min(I)
    BY <1>3
  <2>4. p \in I /\ \A i \in I : p <= i
    BY <2>2, <2>3
  <2> HIDE DEF p
  <2>5. p \in 1 .. Len(s) /\ s[p] \in stops
    BY <2>4
  <2>6. ASSUME NEW i \in 1 .. p - 1 PROVE s[i] \notin stops
    BY <2>4, <2>5
  <2>7. Evts!Before(s, stops) = Evts!InsertAt(s, p, Evts!nCurInput)
    BY <1>1, <2>5
  <2> QED
    BY <2>5, <2>6, <2>7
<1> QED
  BY <1>2, <1>3

(* What is where after an insertion.                                       *)
IsInserted(r, s, k, x, S) ==
  /\ r \in Seq(S) /\ Len(r) = Len(s) + 1
  /\ \A i \in 1 .. Len(s) + 1 :
       r[i] = IF i < k THEN s[i] ELSE IF i = k THEN x ELSE s[i - 1]

LEMMA InsertedAt ==
  ASSUME NEW S, NEW s \in Seq(S), NEW x \in S, NEW k \in 1 .. Len(s) + 1
  PROVE  IsInserted(Evts!InsertAt(s, k, x), s, k, x, S)
<1> DEFINE a == SubSeq(s, 1, k - 1)
           b == SubSeq(s, k, Len(s))
<1>1. a \in Seq(S) /\ Len(a) = k - 1 /\ \A i \in 1 .. k - 1 : a[i] = s[i]
  OBVIOUS
<1>2. /\ b \in Seq(S) /\ Len(b) = Len(s) + 1 - k
      /\ \A i \in 1 .. Len(s) + 1 - k : b[i] = s[k + i - 1]
  OBVIOUS
<1>3. Evts!InsertAt(s, k, x) = a \o <<x>> \o b
  BY DEF Evts!InsertAt
<1> HIDE DEF a, b
<1>4. /\ a \o <<x>> \in Seq(S) /\ Len(a \o <<x>>) = k
      /\ \A i \in 1 .. k : (a \o <<x>>)[i] = IF i < k THEN s[i] ELSE x
  BY <1>1
<1>5. PICK c \in Seq(S) : c = a \o <<x>>
  BY <1>4
<1>6. Len(c) = k /\ \A i \in 1 .. k : c[i] = IF i < k THEN s[i] ELSE x
  BY <1>4, <1>5
<1>7. Evts!InsertAt(s, k, x) = c \o b
  BY <1>3, <1>5
<1>8. PICK d \in Seq(S) : d = b
  BY <1>2
<1>9. Len(d) = Len(s) + 1 - k /\ \A i \in 1 .. Len(s) + 1 - k : d[i] = s[k + i - 1]
  BY <1>2, <1>8
<1>10. /\ c \o d \in Seq(S) /\ Len(c \o d) = Len(c) + Len(d)
       /\ \A i \in 1 .. Len(c) + Len(d) :
            (c \o d)[i] = IF i <= Len(c) THEN c[i] ELSE d[i - Len(c)]
  BY ConcatProperties
<1>11. Len(c) + Len(d) = Len(s) + 1
  BY <1>6, <1>9
<1>12. ASSUME NEW i \in 1 .. Len(s) + 1
       PROVE  (c \o d)[i] = IF i < k THEN s[i] ELSE IF i = k THEN x ELSE s[i - 1]
  <2>1. CASE i <= k
    <3>1. i \in 1 .. k /\ i \in 1 .. Len(c) + Len(d)
      BY <1>11, <2>1
    <3> QED
      BY <1>6, <1>10, <2>1, <3>1
  <2>2. CASE i > k
    <3>1. i - k \in 1 .. Len(s) + 1 - k /\ k + (i - k) - 1 = i - 1
      BY <2>2
    <3>2. (c \o d)[i] = d[i - k]
      BY <1>6, <1>10, <1>11, <2>2
    <3>3. d[i - k] = s[k + (i - k) - 1]
      BY <1>9, <3>1
    <3>4. ~(i < k) /\ i # k
      BY <2>2
    <3>5. (c \o d)[i] = s[i - 1]
      BY <3>1, <3>2, <3>3
    <3> QED
      BY <3>4, <3>5, Zenon
  <2>3. i <= k \/ i > k
    OBVIOUS
  <2> QED
    BY <2>1, <2>2, <2>3, Zenon
<1>13. IsInserted(c \o d, s, k, x, S)
  BY <1>10, <1>11, <1>12 DEF IsInserted
<1> QED
  BY <1>7, <1>8, <1>13

(* The order by time; of equal events the one that came first is first,    *)
(* which has the higher place.                                             *)
Places == 0 .. Count - 1
ByTime == {p \in Places \X Places :
             values[p[1]] < values[p[2]] \/ (values[p[1]] = values[p[2]] /\ p[1] > p[2])}
Opposite(R) == {<<p[2], p[1]>> : p \in R}

StrictOrder(R, S) ==
  /\ \A d, e \in S : <<d, e>> \in R => <<e, d>> \notin R
  /\ \A d, e \in S : d # e => <<d, e>> \in R \/ <<e, d>> \in R

(* Inserted before the first of the elements it precedes, x finds its      *)
(* place.                                                                  *)
LEMMA InsertedInLine ==
  ASSUME NEW S, NEW R, NEW s, Lines(s, S, R), NEW stops,
         \A d, e \in S : d \in stops /\ <<d, e>> \in R => e \in stops,
         \A e \in S \ stops : <<e, Evts!nCurInput>> \in R,
         \A e \in S \cap stops : <<Evts!nCurInput, e>> \in R
  PROVE  Lines(Evts!Before(s, stops), S \union {Evts!nCurInput}, R)
<1>1. PICK x : x = Evts!nCurInput
  OBVIOUS
<1> DEFINE T == S \union {x}
<1>2. PICK n \in Nat : n = Len(s) /\ s \in Seq(T) /\ \A i \in 1 .. n : s[i] \in S
  BY DEF Lines
<1>3. PICK k \in 1 .. n + 1 :
        /\ \A i \in 1 .. k - 1 : s[i] \notin stops
        /\ k <= n => s[k] \in stops
        /\ Evts!Before(s, stops) = Evts!InsertAt(s, k, x)
  BY <1>1, <1>2, PlaceOfBefore
<1>4. PICK r : r = Evts!InsertAt(s, k, x)
  OBVIOUS
<1>5. /\ r \in Seq(T) /\ Len(r) = n + 1
      /\ \A i \in 1 .. n + 1 : r[i] = IF i < k THEN s[i] ELSE IF i = k THEN x ELSE s[i - 1]
  <2>1. x \in T
    OBVIOUS
  <2> HIDE DEF T
  <2>2. s \in Seq(T) /\ k \in 1 .. Len(s) + 1
    BY <1>2
  <2>3. /\ r \in Seq(T) /\ Len(r) = Len(s) + 1
        /\ \A i \in 1 .. Len(s) + 1 :
             r[i] = IF i < k THEN s[i] ELSE IF i = k THEN x ELSE s[i - 1]
    <3>1. IsInserted(r, s, k, x, T)
      BY <1>4, <2>1, <2>2, InsertedAt
    <3> QED
      BY <3>1, Zenon DEF IsInserted
  <2> QED
    BY <1>2, <2>3, Zenon
<1>6. \A i \in 1 .. n : i >= k => s[i] \in stops
  <2>1. ASSUME NEW i \in 1 .. n, i >= k PROVE s[i] \in stops
    <3>1. CASE i = k
      BY <1>3, <3>1
    <3>2. CASE i > k
      <4>1. k \in 1 .. n /\ <<s[k], s[i]>> \in R
        BY <1>2, <2>1, <3>2 DEF Lines
      <4> QED
        BY <1>2, <1>3, <4>1
    <3> QED
      BY <2>1, <3>1, <3>2
  <2> QED
    BY <2>1
<1>7. ASSUME NEW i \in 1 .. n, NEW j \in 1 .. n, i < j PROVE <<s[i], s[j]>> \in R
  BY <1>2, <1>7 DEF Lines
<1>8. \A i \in 1 .. k - 1 : i \in 1 .. n /\ <<s[i], x>> \in R
  BY <1>1, <1>2, <1>3
<1>9. \A i \in k .. n : i \in 1 .. n /\ <<x, s[i]>> \in R
  BY <1>1, <1>2, <1>6
<1>10. ASSUME NEW i \in 1 .. n + 1, NEW j \in 1 .. n + 1, i < j PROVE <<r[i], r[j]>> \in R
  <2>1. /\ r[i] = IF i < k THEN s[i] ELSE IF i = k THEN x ELSE s[i - 1]
        /\ r[j] = IF j < k THEN s[j] ELSE IF j = k THEN x ELSE s[j - 1]
    BY <1>5, Zenon
  <2>2. CASE j < k
    <3>1. r[i] = s[i] /\ r[j] = s[j] /\ i \in 1 .. n /\ j \in 1 .. n
      BY <1>10, <2>1, <2>2
    <3> QED
      BY <1>7, <1>10, <3>1
  <2>3. CASE j = k
    <3>1. r[i] = s[i] /\ r[j] = x /\ i \in 1 .. k - 1
      BY <1>10, <2>1, <2>3
    <3> QED
      BY <1>8, <3>1
  <2>4. CASE j > k /\ i < k
    <3>1. r[i] = s[i] /\ r[j] = s[j - 1] /\ i \in 1 .. n /\ j - 1 \in 1 .. n /\ i < j - 1
      BY <1>10, <2>1, <2>4
    <3> QED
      BY <1>7, <3>1
  <2>5. CASE j > k /\ i = k
    <3>1. r[i] = x /\ r[j] = s[j - 1] /\ j - 1 \in k .. n
      BY <1>10, <2>1, <2>5
    <3> QED
      BY <1>9, <3>1
  <2>6. CASE i > k
    <3>1. /\ r[i] = s[i - 1] /\ r[j] = s[j - 1]
          /\ i - 1 \in 1 .. n /\ j - 1 \in 1 .. n /\ i - 1 < j - 1
      BY <1>10, <2>1, <2>6
    <3> QED
      BY <1>7, <3>1
  <2> QED
    BY <1>10, <2>2, <2>3, <2>4, <2>5, <2>6
<1>11. ASSUME NEW e \in T PROVE \E i \in 1 .. n + 1 : r[i] = e
  <2>1. CASE e = x
    <3>1. k \in 1 .. n + 1 /\ ~(k < k)
      OBVIOUS
    <3>2. r[k] = x
      BY <1>5, <3>1, Zenon
    <3> QED
      BY <2>1, <3>1, <3>2, Zenon
  <2>2. CASE e \in S
    <3>1. PICK i \in 1 .. n : s[i] = e
      BY <1>2, <2>2 DEF Lines
    <3>2. CASE i < k
      <4>1. i \in 1 .. n + 1
        OBVIOUS
      <4>2. r[i] = s[i]
        BY <1>5, <3>2, <4>1, Zenon
      <4> QED
        BY <3>1, <4>1, <4>2
    <3>3. CASE i >= k
      <4>1. i + 1 \in 1 .. n + 1 /\ ~(i + 1 < k) /\ i + 1 # k /\ (i + 1) - 1 = i
        BY <3>3
      <4>2. r[i + 1] = s[(i + 1) - 1]
        BY <1>5, <4>1, Zenon
      <4> QED
        BY <3>1, <4>1, <4>2
    <3> QED
      BY <3>2, <3>3
  <2> QED
    BY <2>1, <2>2
<1>12. Lines(r, T, R)
  BY <1>5, <1>10, <1>11 DEF Lines
<1> QED
  BY <1>1, <1>3, <1>4, <1>12

(* Two such lines agree: at the first place where they would not, each has *)
(* an element that the other has later.                                    *)
LEMMA LinesBehind ==
  ASSUME NEW S, NEW R, StrictOrder(R, S), NEW s, NEW t, Lines(s, S, R), Lines(t, S, R),
         NEW k \in 1 .. Len(s), \A i \in 1 .. k - 1 : i <= Len(t) /\ s[i] = t[i]
  PROVE  k \in 1 .. Len(t) /\ (s[k] = t[k] \/ <<t[k], s[k]>> \in R)
<1>1. PICK n \in Nat : n = Len(s) /\ \A i \in 1 .. n : s[i] \in S
  BY DEF Lines
<1>2. PICK m \in Nat : m = Len(t) /\ \A i \in 1 .. m : t[i] \in S
  BY DEF Lines
<1>3. PICK j \in 1 .. m : t[j] = s[k]
  BY <1>1, <1>2 DEF Lines
<1>4. j >= k
  <2> SUFFICES ASSUME j < k PROVE FALSE
    BY <1>1
  <2>1. j \in 1 .. n /\ s[j] = s[k]
    BY <1>1, <1>3
  <2>2. <<s[j], s[k]>> \in R
    BY <1>1, <2>1 DEF Lines
  <2> QED
    BY <1>1, <2>1, <2>2 DEF StrictOrder
<1>5. k \in 1 .. m
  BY <1>1, <1>4
<1>6. CASE j = k
  BY <1>2, <1>3, <1>5, <1>6
<1>7. CASE j > k
  BY <1>2, <1>3, <1>5, <1>7 DEF Lines
<1>8. j = k \/ j > k
  BY <1>1, <1>4
<1> QED
  BY <1>6, <1>7, <1>8

LEMMA LinesAgree ==
  ASSUME NEW S, NEW R, StrictOrder(R, S), NEW s, NEW t, Lines(s, S, R), Lines(t, S, R)
  PROVE  s = t
<1>1. PICK n \in Nat : n = Len(s) /\ \A i \in 1 .. n : s[i] \in S
  BY DEF Lines
<1>2. PICK m \in Nat : m = Len(t) /\ \A i \in 1 .. m : t[i] \in S
  BY DEF Lines
<1> DEFINE Differ == {i \in Nat \ {0} : (i <= n \/ i <= m) /\ ~(i <= n /\ i <= m /\ s[i] = t[i])}
<1>3. CASE Differ = {}
  <2>1. n = m
    <3>1. n <= m
      <4> SUFFICES ASSUME n > m PROVE FALSE
        OBVIOUS
      <4>1. n \in Differ
        OBVIOUS
      <4> QED
        BY <1>3, <4>1
    <3>2. m <= n
      <4> SUFFICES ASSUME m > n PROVE FALSE
        OBVIOUS
      <4>1. m \in Differ
        OBVIOUS
      <4> QED
        BY <1>3, <4>1
    <3> QED
      BY <3>1, <3>2
  <2>2. \A i \in 1 .. n : s[i] = t[i]
    BY <1>3, <2>1
  <2> QED
    BY <1>1, <1>2, <2>1, <2>2, SeqEqual DEF Lines
<1>4. CASE Differ # {}
  <2>1. PICK k \in Differ : \A i \in Differ : k <= i
    <3>1. Differ \subseteq Nat
      OBVIOUS
    <3> HIDE DEF Differ
    <3> QED
      BY <1>4, <3>1, LeastNatural
  <2>2. \A i \in 1 .. k - 1 : i <= n /\ i <= m /\ s[i] = t[i]
    BY <2>1
  <2>3. k \in 1 .. n => k \in 1 .. m /\ (s[k] = t[k] \/ <<t[k], s[k]>> \in R)
    BY <1>1, <1>2, <2>2, LinesBehind
  <2>4. k \in 1 .. m => k \in 1 .. n /\ (t[k] = s[k] \/ <<s[k], t[k]>> \in R)
    BY <1>1, <1>2, <2>2, LinesBehind
  <2>5. k \in 1 .. n /\ k \in 1 .. m /\ s[k] # t[k]
    BY <2>1, <2>3, <2>4
  <2> QED
    BY <1>1, <1>2, <2>3, <2>4, <2>5 DEF StrictOrder
<1> QED
  BY <1>3, <1>4

LEMMA LinesReversed ==
  ASSUME NEW S, NEW R, NEW s, Lines(s, S, R)
  PROVE  Lines(Evts!Reverse(s), S, Opposite(R))
<1>1. PICK n \in Nat : n = Len(s) /\ s \in Seq(S) /\ \A i \in 1 .. n : s[i] \in S
  BY DEF Lines
<1>2. PICK r : r = Evts!Reverse(s)
  OBVIOUS
<1>3. r = [i \in 1 .. n |-> s[(n - i) + 1]]
  BY <1>1, <1>2 DEF Evts!Reverse
<1>4. \A i \in 1 .. n : (n - i) + 1 \in 1 .. n
  OBVIOUS
<1>5. r \in Seq(S) /\ Len(r) = n /\ \A i \in 1 .. n : r[i] = s[(n - i) + 1]
  BY <1>1, <1>3, <1>4
<1>6. ASSUME NEW e \in S PROVE \E i \in 1 .. n : r[i] = e
  <2>1. PICK i \in 1 .. n : s[i] = e
    BY <1>1 DEF Lines
  <2>2. (n - i) + 1 \in 1 .. n /\ (n - ((n - i) + 1)) + 1 = i
    OBVIOUS
  <2>3. r[(n - i) + 1] = s[(n - ((n - i) + 1)) + 1]
    BY <1>5, <2>2
  <2> QED
    BY <2>1, <2>2, <2>3
<1>7. ASSUME NEW i \in 1 .. n, NEW j \in 1 .. n, i < j PROVE <<r[i], r[j]>> \in Opposite(R)
  <2>1. /\ (n - i) + 1 \in 1 .. n /\ (n - j) + 1 \in 1 .. n
        /\ (n - j) + 1 < (n - i) + 1
    BY <1>7
  <2>2. <<r[j], r[i]>> \in R
    BY <1>1, <1>5, <2>1 DEF Lines
  <2> QED
    BY <2>2 DEF Opposite
<1> QED
  BY <1>2, <1>5, <1>6, <1>7 DEF Lines

LEMMA LineLength ==
  ASSUME NEW S, NEW R, NEW s, Lines(s, S, R)
  PROVE  \E n \in Nat : n = Len(s) /\ \A i \in 1 .. n : s[i] \in S
BY DEF Lines

(* One position too many.                                                  *)
LEMMA PigeonPositions ==
  ASSUME NEW m \in Nat, NEW f \in [1 .. m + 1 -> 1 .. m]
  PROVE  \E x, y \in 1 .. m + 1 : x # y /\ f[x] = f[y]
<1>1. IsFiniteSet(1 .. m) /\ Cardinality(1 .. m) = m
  BY FS_Interval
<1>2. IsFiniteSet(1 .. m + 1) /\ Cardinality(1 .. m + 1) = m + 1
  BY FS_Interval
<1> QED
  BY <1>1, <1>2, FS_PigeonHole, SMTT(30)

(* What was handed out (q), beside what is left: each once, no later than  *)
(* what is left, and with the times that the line l begins with.           *)
Ahead(q, rest, l) ==
  /\ q \in Seq(Places) /\ rest \subseteq Places
  /\ \A i, j \in 1 .. Len(q) : q[i] = q[j] => i = j
  /\ \A i \in 1 .. Len(q) : q[i] \notin rest
  /\ \A e \in Places \ rest : \E i \in 1 .. Len(q) : q[i] = e
  /\ \A i \in 1 .. Len(q) : \A e \in rest : values[q[i]] <= values[e]
  /\ Len(q) <= Len(l)
  /\ \A i \in 1 .. Len(q) : values[q[i]] = values[l[i]]

(* An event that no other precedes by time has the time of the next one in *)
(* line, if those handed out before it were as early: the ones that are    *)
(* earlier cannot be fewer, nor more, than those handed out.               *)
LEMMA NextTime ==
  ASSUME values \in [Places -> Int], NEW q, NEW rest, NEW l, Ahead(q, rest, l),
         Lines(l, Places, ByTime),
         NEW top \in rest, \A e \in rest : values[top] <= values[e]
  PROVE  Len(q) + 1 <= Len(l) /\ values[l[Len(q) + 1]] = values[top]
<1>1. PICK n \in Nat : n = Len(l) /\ \A i \in 1 .. n : l[i] \in Places
  BY LineLength
<1>2. PICK m \in Nat :
        /\ m = Len(q) /\ \A i \in 1 .. m : q[i] \in Places
        /\ \A i, j \in 1 .. m : q[i] = q[j] => i = j
        /\ \A i \in 1 .. m : q[i] # top /\ values[q[i]] <= values[top]
        /\ \A e \in Places : (\E i \in 1 .. m : q[i] = e) \/ values[top] <= values[e]
  <2>1. Len(q) \in Nat /\ \A i \in 1 .. Len(q) : q[i] \in Places
    BY DEF Ahead
  <2>2. /\ \A i, j \in 1 .. Len(q) : q[i] = q[j] => i = j
        /\ \A i \in 1 .. Len(q) : q[i] # top /\ values[q[i]] <= values[top]
    BY DEF Ahead
  <2>3. \A e \in Places : (\E i \in 1 .. Len(q) : q[i] = e) \/ values[top] <= values[e]
    BY DEF Ahead
  <2> QED
    BY <2>1, <2>2, <2>3, Zenon
<1> top \in Places
  BY DEF Ahead
<1>3. ASSUME NEW i \in 1 .. n, NEW j \in 1 .. n, i < j
      PROVE  values[l[i]] <= values[l[j]] /\ l[i] # l[j]
  <2>1. <<l[i], l[j]>> \in ByTime /\ l[i] \in Places /\ l[j] \in Places
    BY <1>1, <1>3 DEF Lines
  <2> QED
    BY <2>1 DEF ByTime, Places
<1>4. m + 1 <= n /\ values[l[m + 1]] <= values[top]
  <2> SUFFICES ASSUME m + 1 <= n => values[l[m + 1]] > values[top]
               PROVE  FALSE
    BY <1>1
  <2>1. ASSUME NEW e \in Places, values[e] <= values[top]
        PROVE  \E p \in 1 .. m : p <= n /\ l[p] = e
    <3>1. PICK p \in 1 .. n : l[p] = e
      BY <1>1 DEF Lines
    <3>2. CASE p <= m
      BY <3>1, <3>2
    <3>3. CASE p > m
      <4>1. m + 1 \in 1 .. n /\ (m + 1 = p \/ m + 1 < p)
        BY <3>3
      <4>2. values[l[m + 1]] <= values[l[p]] /\ values[l[m + 1]] \in Int
        BY <1>1, <1>3, <4>1
      <4> QED
        BY <2>1, <3>1, <4>1, <4>2
    <3> QED
      BY <3>2, <3>3
  <2> DEFINE g == [i \in 1 .. m + 1 |-> IF i = m + 1 THEN top ELSE q[i]]
  <2>2. ASSUME NEW i \in 1 .. m + 1 PROVE g[i] \in Places /\ values[g[i]] <= values[top]
    <3>1. i = m + 1 \/ i \in 1 .. m
      OBVIOUS
    <3> QED
      BY <1>2, <3>1
  <2>3. ASSUME NEW i \in 1 .. m + 1, NEW j \in 1 .. m + 1, g[i] = g[j] PROVE i = j
    <3>1. (i = m + 1 \/ i \in 1 .. m) /\ (j = m + 1 \/ j \in 1 .. m)
      OBVIOUS
    <3> QED
      BY <1>2, <2>3, <3>1
  <2> HIDE DEF g
  <2> DEFINE f == [i \in 1 .. m + 1 |-> CHOOSE p \in 1 .. m : p <= n /\ l[p] = g[i]]
  <2>4. ASSUME NEW i \in 1 .. m + 1 PROVE f[i] \in 1 .. m /\ l[f[i]] = g[i]
    BY <2>1, <2>2
  <2>5. f \in [1 .. m + 1 -> 1 .. m]
    BY <2>4
  <2> HIDE DEF f
  <2>6. PICK i, j \in 1 .. m + 1 : i # j /\ f[i] = f[j]
    BY <2>5, PigeonPositions
  <2> QED
    BY <2>3, <2>4, <2>6
<1>5. ~(values[l[m + 1]] < values[top])
  <2> SUFFICES ASSUME values[l[m + 1]] < values[top] PROVE FALSE
    OBVIOUS
  <2>1. ASSUME NEW i \in 1 .. m + 1 PROVE \E p \in 1 .. m : q[p] = l[i]
    <3>1. i \in 1 .. n /\ m + 1 \in 1 .. n /\ l[i] \in Places /\ l[m + 1] \in Places
      BY <1>1, <1>4
    <3>2. values[l[i]] <= values[l[m + 1]]
      <4>1. i = m + 1 \/ i < m + 1
        OBVIOUS
      <4> QED
        BY <1>3, <3>1, <4>1
    <3>3. values[l[i]] \in Int /\ values[l[m + 1]] \in Int /\ values[top] \in Int
      BY <3>1
    <3>4. ~(values[top] <= values[l[i]])
      BY <3>2, <3>3
    <3> QED
      BY <1>2, <3>1, <3>4, Zenon
  <2> DEFINE f == [i \in 1 .. m + 1 |-> CHOOSE p \in 1 .. m : q[p] = l[i]]
  <2>2. ASSUME NEW i \in 1 .. m + 1 PROVE f[i] \in 1 .. m /\ q[f[i]] = l[i]
    BY <2>1
  <2>3. f \in [1 .. m + 1 -> 1 .. m]
    BY <2>2
  <2> HIDE DEF f
  <2>4. PICK i, j \in 1 .. m + 1 : i # j /\ f[i] = f[j]
    BY <2>3, PigeonPositions
  <2>5. l[i] = l[j] /\ i \in 1 .. n /\ j \in 1 .. n /\ (i < j \/ j < i)
    BY <1>4, <2>2, <2>4
  <2> QED
    BY <1>3, <2>5
<1>6. l[m + 1] \in Places
  BY <1>1, <1>4
<1> QED
  BY <1>1, <1>2, <1>4, <1>5, <1>6

LEMMA AheadByOne ==
  ASSUME values \in [Places -> Int], NEW q, NEW rest, NEW l, Ahead(q, rest, l),
         Lines(l, Places, ByTime),
         NEW top \in rest, \A e \in rest : values[top] <= values[e]
  PROVE  Ahead(Append(q, top), rest \ {top}, l)
<1>1. /\ q \in Seq(Places) /\ rest \subseteq Places
      /\ Len(q) \in Nat /\ \A i \in 1 .. Len(q) : q[i] \in Places
  BY DEF Ahead
<1>2. Len(q) + 1 <= Len(l) /\ values[l[Len(q) + 1]] = values[top]
  BY NextTime
<1>3. /\ Append(q, top) \in Seq(Places) /\ Len(Append(q, top)) = Len(q) + 1
      /\ \A i \in 1 .. Len(q) : Append(q, top)[i] = q[i]
      /\ Append(q, top)[Len(q) + 1] = top
  BY <1>1, AppendProperties
<1>4. PICK m, r : m = Len(q) /\ r = Append(q, top)
  OBVIOUS
<1>5. /\ m \in Nat /\ r \in Seq(Places) /\ Len(r) = m + 1
      /\ \A i \in 1 .. m : r[i] = q[i]
      /\ r[m + 1] = top
  BY <1>1, <1>3, <1>4, Zenon
<1>6. /\ \A i \in 1 .. m : q[i] \in Places
      /\ \A i, j \in 1 .. m : q[i] = q[j] => i = j
      /\ \A i \in 1 .. m : q[i] \notin rest
      /\ \A e \in Places \ rest : \E i \in 1 .. m : q[i] = e
      /\ \A i \in 1 .. m : \A e \in rest : values[q[i]] <= values[e]
      /\ \A i \in 1 .. m : values[q[i]] = values[l[i]]
  BY <1>1, <1>4, Zenon DEF Ahead
<1>7. m + 1 <= Len(l) /\ values[l[m + 1]] = values[top]
  BY <1>2, <1>4, Zenon
<1>8. \A i \in 1 .. m + 1 : i \in 1 .. m \/ i = m + 1
  BY <1>5
<1>9. m + 1 \in 1 .. m + 1 /\ \A i \in 1 .. m : i \in 1 .. m + 1
  BY <1>5
<1>10. \A i, j \in 1 .. m + 1 : r[i] = r[j] => i = j
  BY <1>5, <1>6, <1>8
<1>11. \A i \in 1 .. m + 1 : r[i] \notin rest \ {top}
  BY <1>5, <1>6, <1>8
<1>12. \A e \in Places \ (rest \ {top}) : \E i \in 1 .. m + 1 : r[i] = e
  BY <1>5, <1>6, <1>9
<1>13. \A i \in 1 .. m + 1 : \A e \in rest \ {top} : values[r[i]] <= values[e]
  BY <1>5, <1>6, <1>8
<1>14. \A i \in 1 .. m + 1 : values[r[i]] = values[l[i]]
  BY <1>5, <1>6, <1>7, <1>8
<1>15. Ahead(r, rest \ {top}, l)
  BY <1>1, <1>5, <1>7, <1>10, <1>11, <1>12, <1>13, <1>14 DEF Ahead
<1> QED
  BY <1>4, <1>15, Zenon

(* The events that a container has in each phase.                          *)
AddedTo(container, after) ==
  IF phase = container THEN nLoopCnt .. Count - 1 ELSE IF phase \in after THEN Places ELSE {}
Pops == {"popVector", "popPQueue"}
InPQueue == AddedTo("pqueue", {"list", "vector", "binary"} \union Pops)
InList == AddedTo("list", {"vector", "binary"} \union Pops)
InVector == AddedTo("vector", {"binary"} \union Pops)
InBinary == AddedTo("binary", Pops)

EvtsType ==
  /\ values \in [Places -> Times]
  /\ phase \in {"pqueue", "list", "vector", "binary"} \union Pops
  /\ nLoopCnt \in 1 .. Count

(* The list, and the vector after what was taken from it, have their       *)
(* events by time, the second vector the other way round.                  *)
InOrder ==
  /\ Lines(listEntities, InList, ByTime)
  /\ popped \in Seq(Places) /\ vector \in Seq(Places)
  /\ phase \notin Pops => popped = <<>>
  /\ phase = "popPQueue" => vector = <<>>
  /\ Lines(popped \o vector, InVector, ByTime)
  /\ Lines(vectorUserBinaryInsert, InBinary, Opposite(ByTime))

(* What the priority queue handed out is as early as what it still has,    *)
(* and has the times that the list begins with.                            *)
HandedOut ==
  /\ poppedPQueue \in Seq(Places)
  /\ phase # "popPQueue" => poppedPQueue = <<>> /\ pQueue = InPQueue
  /\ phase = "popPQueue" => Ahead(poppedPQueue, pQueue, listEntities)

EvtsInv == EvtsType /\ InOrder /\ HandedOut

LEMMA EvtsInit == Init => EvtsInv
<1> SUFFICES ASSUME Evts!Init PROVE EvtsInv
  BY DEF Init
<1>1. Count .. Count - 1 = {}
  BY EventsAssumption
<1>2. EvtsType /\ phase = "pqueue" /\ nLoopCnt = Count
  BY EventsAssumption DEF Evts!Init, EvtsType, Places
<1>3. InPQueue = {} /\ InList = {} /\ InVector = {} /\ InBinary = {}
  BY <1>1, <1>2 DEF InPQueue, InList, InVector, InBinary, AddedTo, Pops
<1>4. \A R : Lines(<<>>, {}, R)
  BY DEF Lines
<1>5. <<>> \in Seq(Places) /\ <<>> \o <<>> = <<>>
  OBVIOUS
<1> QED
  BY <1>2, <1>3, <1>4, <1>5 DEF Evts!Init, EvtsInv, InOrder, HandedOut, Pops

(* A loop adds its event to its container, and to no other.                *)
LEMMA LoopAdds ==
  ASSUME EvtsType, NEW this, NEW then, Evts!Loop(this, then), values' = values,
         <<this, then>> \in {<<"pqueue", "list">>, <<"list", "vector">>,
                            <<"vector", "binary">>, <<"binary", "popVector">>}
  PROVE  /\ EvtsType' /\ phase = this /\ phase' \in {this, then}
         /\ Evts!nCurInput \in Places /\ Evts!nCurInput \notin nLoopCnt .. Count - 1
         /\ InPQueue' = IF this = "pqueue" THEN InPQueue \union {Evts!nCurInput} ELSE InPQueue
         /\ InList' = IF this = "list" THEN InList \union {Evts!nCurInput} ELSE InList
         /\ InVector' = IF this = "vector" THEN InVector \union {Evts!nCurInput} ELSE InVector
         /\ InBinary' = IF this = "binary" THEN InBinary \union {Evts!nCurInput} ELSE InBinary
<1> DEFINE added == nLoopCnt .. Count - 1
           addedNext == nLoopCnt' .. Count - 1
<1>1. Count \in Nat \ {0} /\ nLoopCnt \in 1 .. Count /\ phase = this
  BY EventsAssumption DEF EvtsType, Evts!Loop
<1>2. Evts!nCurInput \in Places /\ Evts!nCurInput \notin added
  BY <1>1 DEF Evts!nCurInput, Places
<1>3. CASE nLoopCnt = 1
  <2>1. phase' = then /\ nLoopCnt' = Count
    BY <1>3 DEF Evts!Loop
  <2>2. addedNext = {}
    BY <1>1, <2>1
  <2>3. Places = added \union {Evts!nCurInput}
    BY <1>1, <1>3 DEF Evts!nCurInput, Places
  <2>4. EvtsType'
    BY <1>1, <2>1 DEF EvtsType, Pops
  <2> HIDE DEF added, addedNext
  <2> QED
    BY <1>1, <1>2, <2>1, <2>2, <2>3, <2>4
    DEF InPQueue, InList, InVector, InBinary, AddedTo, Pops, added, addedNext
<1>4. CASE nLoopCnt # 1
  <2>1. phase' = this /\ nLoopCnt' = nLoopCnt - 1
    BY <1>1, <1>4 DEF Evts!Loop
  <2>2. addedNext = added \union {Evts!nCurInput}
    BY <1>1, <1>4, <2>1 DEF Evts!nCurInput
  <2>3. EvtsType'
    BY <1>1, <1>4, <2>1 DEF EvtsType, Pops
  <2> HIDE DEF added, addedNext
  <2> QED
    BY <1>1, <1>2, <2>1, <2>2, <2>3
    DEF InPQueue, InList, InVector, InBinary, AddedTo, Pops, added, addedNext
<1> QED
  BY <1>3, <1>4

(* Where the new event belongs: behind those that are not later, or, the   *)
(* other way round, behind those that are.                                 *)
LEMMA BelongsBefore ==
  ASSUME EvtsType, Evts!nCurInput \in Places, NEW s
  PROVE  LET S == nLoopCnt .. Count - 1
             T == S \union {Evts!nCurInput}
             notAfter == {e \in DOMAIN values : ~Evts!Comparsion(e, Evts!nCurInput)}
         IN  /\ Lines(s, S, ByTime) => Lines(Evts!Before(s, Evts!Later), T, ByTime)
             /\ Lines(s, S, Opposite(ByTime)) => Lines(Evts!Before(s, notAfter), T, Opposite(ByTime))
<1> DEFINE S == nLoopCnt .. Count - 1
           x == Evts!nCurInput
           notAfter == {e \in DOMAIN values : ~Evts!Comparsion(e, x)}
<1>1. /\ DOMAIN values = Places /\ \A e \in Places : values[e] \in Int
      /\ x \in Places /\ x \in Int /\ \A e \in S : e \in Places /\ e \in Int /\ e > x
      /\ \A e \in Places : e \in Int
  <2>1. DOMAIN values = Places /\ \A e \in Places : values[e] \in Int
    BY EventsAssumption DEF EvtsType
  <2>2. nLoopCnt \in 1 .. Count /\ Count \in Nat
    BY EventsAssumption DEF EvtsType
  <2>3. \A e \in S : e \in Places /\ e \in Int /\ e > nLoopCnt - 1
    BY <2>2 DEF Places
  <2>4. \A e \in Places : e \in Int
    BY DEF Places
  <2> QED
    BY <2>1, <2>3, <2>4 DEF Evts!nCurInput
<1>2. \A d, e : <<d, e>> \in ByTime <=>
        d \in Places /\ e \in Places /\ (values[d] < values[e] \/ (values[d] = values[e] /\ d > e))
  BY DEF ByTime
<1>3. \A d, e : <<d, e>> \in Opposite(ByTime) <=>
        d \in Places /\ e \in Places /\ (values[e] < values[d] \/ (values[d] = values[e] /\ e > d))
  <2>1. \A d, e : <<d, e>> \in Opposite(ByTime) <=> <<e, d>> \in ByTime
    BY DEF Opposite, ByTime
  <2> QED
    BY <1>2, <2>1, Zenon
<1>4. /\ \A e : e \in Evts!Later <=> e \in Places /\ values[e] > values[x]
      /\ \A e : e \in notAfter <=> e \in Places /\ ~(values[e] > values[x])
  BY <1>1 DEF Evts!Later, Evts!Comparsion
<1> HIDE DEF S, x, notAfter
<1>5. ASSUME Lines(s, S, ByTime) PROVE Lines(Evts!Before(s, Evts!Later), S \union {x}, ByTime)
  <2>1. \A d, e \in S : d \in Evts!Later /\ <<d, e>> \in ByTime => e \in Evts!Later
    BY <1>1, <1>2, <1>4
  <2>2. \A e \in S \ Evts!Later : <<e, x>> \in ByTime
    BY <1>1, <1>2, <1>4
  <2>3. \A e \in S \cap Evts!Later : <<x, e>> \in ByTime
    BY <1>1, <1>2, <1>4
  <2> QED
    BY <1>5, <2>1, <2>2, <2>3, InsertedInLine DEF x
<1>6. ASSUME Lines(s, S, Opposite(ByTime))
      PROVE  Lines(Evts!Before(s, notAfter), S \union {x}, Opposite(ByTime))
  <2>1. ASSUME NEW d \in S, NEW e \in S, d \in notAfter, <<d, e>> \in Opposite(ByTime)
        PROVE  e \in notAfter
    <3>1. values[e] <= values[d] /\ values[d] <= values[x] /\ values[e] \in Int /\ values[d] \in Int
      BY <1>1, <1>3, <1>4, <2>1
    <3> QED
      BY <1>1, <1>4, <3>1
  <2>2. \A e \in S \ notAfter : <<e, x>> \in Opposite(ByTime)
    BY <1>1, <1>3, <1>4
  <2>3. ASSUME NEW e \in S, e \in notAfter PROVE <<x, e>> \in Opposite(ByTime)
    <3>1. values[e] <= values[x] /\ values[e] \in Int /\ values[x] \in Int /\ e > x
      BY <1>1, <1>4, <2>3
    <3> QED
      BY <1>1, <1>3, <3>1
  <2> QED
    BY <1>6, <2>1, <2>2, <2>3, InsertedInLine DEF x
<1> QED
  BY <1>5, <1>6 DEF S, x, notAfter

LEMMA EvtsPush == EvtsInv /\ Evts!PushPQueue => EvtsInv'
<1> SUFFICES ASSUME EvtsInv, Evts!PushPQueue PROVE EvtsInv'
  OBVIOUS
<1>1. /\ EvtsType' /\ phase = "pqueue" /\ phase' \in {"pqueue", "list"}
      /\ InPQueue' = InPQueue \union {Evts!nCurInput}
      /\ InList' = InList /\ InVector' = InVector /\ InBinary' = InBinary
  BY LoopAdds DEF EvtsInv, Evts!PushPQueue
<1>2. ByTime' = ByTime
  BY DEF Evts!PushPQueue, ByTime
<1> QED
  BY <1>1, <1>2 DEF EvtsInv, InOrder, HandedOut, Evts!PushPQueue, Pops

LEMMA EvtsList == EvtsInv /\ Evts!InsertList => EvtsInv'
<1> SUFFICES ASSUME EvtsInv, Evts!InsertList PROVE EvtsInv'
  OBVIOUS
<1>1. /\ EvtsType' /\ phase = "list" /\ phase' \in {"list", "vector"}
      /\ Evts!nCurInput \in Places
      /\ InList' = InList \union {Evts!nCurInput}
      /\ InPQueue' = InPQueue /\ InVector' = InVector /\ InBinary' = InBinary
  BY LoopAdds DEF EvtsInv, Evts!InsertList
<1>2. ByTime' = ByTime
  BY DEF Evts!InsertList, ByTime
<1>3. InList = nLoopCnt .. Count - 1
  BY <1>1 DEF InList, AddedTo
<1>4. Lines(listEntities', InList', ByTime')
  <2>1. Lines(listEntities, nLoopCnt .. Count - 1, ByTime)
    BY <1>3 DEF EvtsInv, InOrder
  <2>2. Lines(Evts!Before(listEntities, Evts!Later),
              (nLoopCnt .. Count - 1) \union {Evts!nCurInput}, ByTime)
    BY <1>1, <2>1, BelongsBefore DEF EvtsInv
  <2>3. listEntities' = Evts!Before(listEntities, Evts!Later)
    BY DEF Evts!InsertList
  <2> QED
    BY <1>1, <1>2, <1>3, <2>2, <2>3
<1> QED
  BY <1>1, <1>2, <1>4 DEF EvtsInv, InOrder, HandedOut, Evts!InsertList, Pops

LEMMA EvtsVector == EvtsInv /\ Evts!InsertVector => EvtsInv'
<1> SUFFICES ASSUME EvtsInv, Evts!InsertVector PROVE EvtsInv'
  OBVIOUS
<1>1. /\ EvtsType' /\ phase = "vector" /\ phase' \in {"vector", "binary"}
      /\ Evts!nCurInput \in Places
      /\ InVector' = InVector \union {Evts!nCurInput}
      /\ InPQueue' = InPQueue /\ InList' = InList /\ InBinary' = InBinary
  BY LoopAdds DEF EvtsInv, Evts!InsertVector
<1>2. ByTime' = ByTime
  BY DEF Evts!InsertVector, ByTime
<1>3. InVector = nLoopCnt .. Count - 1 /\ InVector' \subseteq Places
  BY <1>1, EventsAssumption DEF InVector, AddedTo, EvtsInv, EvtsType, Places
<1>4. popped = <<>> /\ popped' = <<>> /\ \A s \in Seq(Places) : <<>> \o s = s
  <2>1. popped = <<>> /\ popped' = popped
    BY <1>1 DEF EvtsInv, InOrder, Evts!InsertVector, Pops
  <2> QED
    BY <2>1, ConcatEmptySeq
<1>5. Lines(vector', InVector', ByTime')
  <2>1. Lines(vector, nLoopCnt .. Count - 1, ByTime)
    BY <1>3, <1>4 DEF EvtsInv, InOrder
  <2>2. Lines(Evts!Before(vector, Evts!Later),
              (nLoopCnt .. Count - 1) \union {Evts!nCurInput}, ByTime)
    BY <1>1, <2>1, BelongsBefore DEF EvtsInv
  <2>3. vector' = Evts!Before(vector, Evts!Later)
    BY DEF Evts!InsertVector
  <2> QED
    BY <1>1, <1>2, <1>3, <2>2, <2>3
<1>6. vector' \in Seq(Places)
  <2>1. vector' \in Seq(InVector')
    BY <1>5 DEF Lines
  <2> QED
    BY <1>3, <2>1, SeqMonotonic
<1>7. Lines(popped' \o vector', InVector', ByTime')
  BY <1>4, <1>5, <1>6
<1> QED
  BY <1>1, <1>2, <1>4, <1>6, <1>7 DEF EvtsInv, InOrder, HandedOut, Evts!InsertVector, Pops

LEMMA EvtsBinary == EvtsInv /\ Evts!InsertBinary => EvtsInv'
<1> SUFFICES ASSUME EvtsInv, Evts!InsertBinary PROVE EvtsInv'
  OBVIOUS
<1>1. /\ EvtsType' /\ phase = "binary" /\ phase' \in {"binary", "popVector"}
      /\ Evts!nCurInput \in Places
      /\ InBinary' = InBinary \union {Evts!nCurInput}
      /\ InPQueue' = InPQueue /\ InList' = InList /\ InVector' = InVector
  BY LoopAdds DEF EvtsInv, Evts!InsertBinary
<1>2. ByTime' = ByTime
  BY DEF Evts!InsertBinary, ByTime
<1>3. InBinary = nLoopCnt .. Count - 1
  BY <1>1 DEF InBinary, AddedTo
<1>4. Lines(vectorUserBinaryInsert', InBinary', Opposite(ByTime)')
  <2> DEFINE notAfter == {e \in DOMAIN values : ~Evts!Comparsion(e, Evts!nCurInput)}
  <2>1. Lines(vectorUserBinaryInsert, nLoopCnt .. Count - 1, Opposite(ByTime))
    BY <1>3 DEF EvtsInv, InOrder
  <2>2. Lines(Evts!Before(vectorUserBinaryInsert, notAfter),
              (nLoopCnt .. Count - 1) \union {Evts!nCurInput}, Opposite(ByTime))
    BY <1>1, <2>1, BelongsBefore DEF EvtsInv
  <2>3. vectorUserBinaryInsert' = Evts!Before(vectorUserBinaryInsert, notAfter)
    BY DEF Evts!InsertBinary
  <2>4. Opposite(ByTime)' = Opposite(ByTime)
    BY <1>2 DEF Opposite
  <2> HIDE DEF notAfter
  <2> QED
    BY <1>1, <1>3, <2>2, <2>3, <2>4
<1> QED
  BY <1>1, <1>2, <1>4 DEF EvtsInv, InOrder, HandedOut, Evts!InsertBinary, Pops

LEMMA TakenFromVector ==
  ASSUME NEW S, NEW p \in Seq(S), NEW v \in Seq(S), v # <<>>
  PROVE  /\ Append(p, Head(v)) \in Seq(S) /\ Tail(v) \in Seq(S)
         /\ Append(p, Head(v)) \o Tail(v) = p \o v
<1>1. Head(v) \in S /\ Tail(v) \in Seq(S) /\ v = <<Head(v)>> \o Tail(v)
  OBVIOUS
<1>2. PICK h \in S, u \in Seq(S) : h = Head(v) /\ u = Tail(v) /\ v = <<h>> \o u
  BY <1>1, Zenon
<1>3. <<h>> \in Seq(S) /\ Append(p, h) = p \o <<h>> /\ Append(p, h) \in Seq(S)
  BY AppendIsConcat, AppendProperties
<1>4. (p \o <<h>>) \o u = p \o (<<h>> \o u)
  BY <1>3, ConcatAssociative
<1> QED
  BY <1>2, <1>3, <1>4

LEMMA EvtsPopVector == EvtsInv /\ Evts!PopVector => EvtsInv'
<1> SUFFICES ASSUME EvtsInv, Evts!PopVector PROVE EvtsInv'
  OBVIOUS
<1>1. ByTime' = ByTime
  BY DEF Evts!PopVector, ByTime
<1>2. phase = "popVector" /\ phase' \in Pops
  BY DEF Evts!PopVector, Pops
<1>3. EvtsType'
  BY <1>2 DEF EvtsInv, EvtsType, Evts!PopVector
<1>4. /\ InPQueue = Places /\ InPQueue' = Places
      /\ InList = Places /\ InList' = Places /\ InVector = Places /\ InVector' = Places
      /\ InBinary = Places /\ InBinary' = Places
  BY <1>2 DEF InPQueue, InList, InVector, InBinary, AddedTo, Pops
<1>5. /\ popped' \in Seq(Places) /\ vector' \in Seq(Places)
      /\ popped' \o vector' = popped \o vector
  <2>1. popped \in Seq(Places) /\ vector \in Seq(Places)
    BY DEF EvtsInv, InOrder
  <2>2. CASE vector = <<>>
    BY <2>1, <2>2 DEF Evts!PopVector
  <2>3. CASE vector # <<>>
    <3>1. popped' = Append(popped, Head(vector)) /\ vector' = Tail(vector)
      BY <2>3 DEF Evts!PopVector
    <3> QED
      <4>1. /\ Append(popped, Head(vector)) \in Seq(Places) /\ Tail(vector) \in Seq(Places)
            /\ Append(popped, Head(vector)) \o Tail(vector) = popped \o vector
        BY <2>1, <2>3, TakenFromVector
      <4> QED
        BY <3>1, <4>1, Zenon
  <2> QED
    BY <2>2, <2>3, Zenon
<1>6. phase' = "popPQueue" => vector' = <<>>
  BY <1>2 DEF Evts!PopVector
<1>7. InOrder'
  BY <1>1, <1>2, <1>4, <1>5, <1>6 DEF EvtsInv, InOrder, Evts!PopVector
<1>8. poppedPQueue = <<>> /\ pQueue = Places /\ UNCHANGED <<poppedPQueue, pQueue, listEntities>>
  BY <1>2, <1>4 DEF EvtsInv, HandedOut, Evts!PopVector
<1>9. Len(listEntities) >= 0
  BY LineLength DEF EvtsInv, InOrder
<1>10. HandedOut'
  BY <1>4, <1>8, <1>9 DEF HandedOut, Ahead
<1> QED
  BY <1>3, <1>7, <1>10 DEF EvtsInv

LEMMA EvtsPopPQueue == EvtsInv /\ Evts!PopPQueue => EvtsInv'
<1> SUFFICES ASSUME EvtsInv, Evts!PopPQueue PROVE EvtsInv'
  OBVIOUS
<1>1. ByTime' = ByTime
  BY DEF Evts!PopPQueue, ByTime
<1>2. /\ phase = "popPQueue" /\ phase' = phase
      /\ UNCHANGED <<values, nLoopCnt, listEntities, vector, vectorUserBinaryInsert, popped>>
  BY DEF Evts!PopPQueue
<1>3. EvtsType'
  BY <1>2 DEF EvtsInv, EvtsType
<1>4. InList = Places /\ InList' = Places /\ InVector' = InVector /\ InBinary' = InBinary
  BY <1>2 DEF InList, InVector, InBinary, AddedTo, Pops
<1>5. InOrder'
  BY <1>1, <1>2, <1>4 DEF EvtsInv, InOrder
<1>6. PICK top \in pQueue :
        /\ \A e \in pQueue : ~Evts!Comparsion(top, e)
        /\ pQueue' = pQueue \ {top}
        /\ poppedPQueue' = Append(poppedPQueue, top)
  BY DEF Evts!PopPQueue
<1>7. values \in [Places -> Int]
  BY EventsAssumption DEF EvtsInv, EvtsType
<1>8. Ahead(poppedPQueue, pQueue, listEntities) /\ Lines(listEntities, Places, ByTime)
  BY <1>2, <1>4 DEF EvtsInv, HandedOut, InOrder
<1>9. \A e \in pQueue : values[top] <= values[e]
  BY <1>6, <1>7, <1>8 DEF Evts!Comparsion, Ahead
<1>10. Ahead(Append(poppedPQueue, top), pQueue \ {top}, listEntities)
  BY <1>7, <1>8, <1>9, AheadByOne
<1>11. Ahead(poppedPQueue, pQueue, listEntities)'
  BY <1>2, <1>6, <1>10 DEF Ahead
<1>12. HandedOut'
  BY <1>2, <1>11 DEF HandedOut, Ahead
<1> QED
  BY <1>3, <1>5, <1>12 DEF EvtsInv

LEMMA EvtsNext == EvtsInv /\ [Next]_vars => EvtsInv'
<1>1. EvtsInv /\ UNCHANGED eventsVars => EvtsInv'
  BY DEF EvtsInv, EvtsType, InOrder, HandedOut, Ahead, InPQueue, InList, InVector, InBinary, AddedTo,
         ByTime, eventsVars
<1> QED
  BY <1>1, EvtsSteps, EvtsPush, EvtsList, EvtsVector, EvtsBinary, EvtsPopVector, EvtsPopPQueue
  DEF Evts!Next

LEMMA EvtsAreInOrder == EvtsInv => Evts!EventsInOrder
<1> SUFFICES ASSUME EvtsInv PROVE Evts!EventsInOrder
  OBVIOUS
<1>1. StrictOrder(ByTime, Places) /\ StrictOrder(Opposite(ByTime), Places)
  <2>1. values \in [Places -> Int] /\ \A e \in Places : e \in Int
    <3>1. values \in [Places -> Int]
      BY EventsAssumption DEF EvtsInv, EvtsType
    <3>2. \A e \in Places : e \in Int
      BY DEF Places
    <3> QED
      BY <3>1, <3>2
  <2>2. \A d, e : <<d, e>> \in ByTime <=>
          d \in Places /\ e \in Places /\ (values[d] < values[e] \/ (values[d] = values[e] /\ d > e))
    BY DEF ByTime
  <2>3. \A d, e : <<d, e>> \in Opposite(ByTime) <=> <<e, d>> \in ByTime
    BY DEF Opposite, ByTime
  <2>4. StrictOrder(ByTime, Places)
    BY <2>1, <2>2 DEF StrictOrder
  <2> QED
    BY <2>3, <2>4 DEF StrictOrder
<1>2. ASSUME NEW i \in DOMAIN listEntities, NEW j \in DOMAIN listEntities, i < j
      PROVE  LET d == listEntities[i]
                 e == listEntities[j]
             IN  values[d] < values[e] \/ (values[d] = values[e] /\ d > e)
  <2>1. DOMAIN listEntities = 1 .. Len(listEntities)
    BY DEF EvtsInv, InOrder, Lines
  <2>2. <<listEntities[i], listEntities[j]>> \in ByTime
    BY <1>2, <2>1 DEF EvtsInv, InOrder, Lines
  <2> QED
    BY <2>2 DEF ByTime
<1>3. ASSUME phase \in {"binary", "popVector", "popPQueue"}
      PROVE  popped \o vector = listEntities
  <2>2. InList = Places /\ InVector = Places
    BY <1>3 DEF InList, InVector, AddedTo, Pops
  <2> QED
    BY <1>1, <2>2, LinesAgree DEF EvtsInv, InOrder
<1>4. ASSUME phase \in Pops PROVE vectorUserBinaryInsert = Evts!Reverse(listEntities)
  <2>1. InList = Places /\ InBinary = Places
    BY <1>4 DEF InList, InBinary, AddedTo, Pops
  <2>2. Lines(Evts!Reverse(listEntities), Places, Opposite(ByTime))
    BY <2>1, LinesReversed DEF EvtsInv, InOrder
  <2> QED
    BY <1>1, <2>1, <2>2, LinesAgree DEF EvtsInv, InOrder
<1>5. Evts!IsPrefix(Evts!TimesOf(poppedPQueue), Evts!TimesOf(popped))
  <2>1. popped \in Seq(Places) /\ poppedPQueue \in Seq(Places) /\ values \in [Places -> Int]
    BY EventsAssumption DEF EvtsInv, EvtsType, InOrder, HandedOut
  <2>2. /\ Len(poppedPQueue) <= Len(popped)
        /\ \A i \in 1 .. Len(poppedPQueue) : values[poppedPQueue[i]] = values[popped[i]]
    <3>1. CASE phase = "popPQueue"
      <4>1. vector = <<>> /\ popped \o vector = listEntities
        BY <1>3, <3>1 DEF EvtsInv, InOrder
      <4>2. popped = listEntities
        BY <2>1, <4>1, ConcatEmptySeq
      <4> QED
        BY <3>1, <4>2 DEF EvtsInv, HandedOut, Ahead
    <3>2. CASE phase # "popPQueue"
      <4>1. poppedPQueue = <<>>
        BY <3>2 DEF EvtsInv, HandedOut
      <4> QED
        BY <2>1, <4>1
    <3> QED
      BY <3>1, <3>2
  <2>3. ASSUME NEW s \in Seq(Places)
        PROVE  /\ Evts!TimesOf(s) \in Seq(Int) /\ Len(Evts!TimesOf(s)) = Len(s)
               /\ \A i \in 1 .. Len(s) : Evts!TimesOf(s)[i] = values[s[i]]
    <3>1. Evts!TimesOf(s) = [i \in 1 .. Len(s) |-> values[s[i]]]
      BY DEF Evts!TimesOf
    <3>2. \A i \in 1 .. Len(s) : values[s[i]] \in Int
      BY <2>1
    <3> QED
      BY <3>1, <3>2
  <2>4. PICK u \in Seq(Int), v \in Seq(Int) :
          u = Evts!TimesOf(poppedPQueue) /\ v = Evts!TimesOf(popped)
    BY <2>1, <2>3
  <2>5. Len(u) <= Len(v) /\ \A i \in 1 .. Len(u) : u[i] = v[i]
    <3>1. /\ Len(u) = Len(poppedPQueue) /\ Len(v) = Len(popped)
          /\ \A i \in 1 .. Len(poppedPQueue) : u[i] = values[poppedPQueue[i]]
          /\ \A i \in 1 .. Len(popped) : v[i] = values[popped[i]]
      BY <2>1, <2>3, <2>4
    <3>2. \A i \in 1 .. Len(poppedPQueue) : i \in 1 .. Len(popped)
      <4>1. Len(poppedPQueue) \in Nat /\ Len(popped) \in Nat
        BY <2>1
      <4> QED
        BY <2>2, <4>1
    <3> QED
      BY <2>2, <3>1, <3>2
  <2>6. SubSeq(u, 1, Len(u)) = SubSeq(v, 1, Len(u))
    BY <2>5
  <2> QED
    BY <2>4, <2>5, <2>6 DEF Evts!IsPrefix
<1> QED
  BY <1>2, <1>3, <1>4, <1>5 DEF Evts!EventsInOrder, Pops
-----------------------------------------------------------------------------
(* QueueSpinLocked: its steps, whatever the others do.                     *)
LEMMA QueueSteps == [Next]_vars => [Queue!Next]_queueVars
<1> SUFFICES ASSUME [Next]_vars PROVE Queue!Next \/ UNCHANGED queueVars
  OBVIOUS
<1>1. CASE QueueStep
  BY <1>1 DEF QueueStep
<1> QED
  BY <1>1 DEF Next, vars, Only, PoolStep, DispatcherStep, BlobStep,
              FlagStep, TextStep, AssignStep, EventsStep, QueueStep, ScrollStep,
              MenuStep, SubjectStep, LedgerStep

(* The values, and that one thread at most is past the test of a pop, with *)
(* something to pop, as long as no two have been.                          *)
QueueInv ==
  /\ pushes \in Nat /\ toPop \in Seq(Nat) /\ _container \in Seq(Nat)
  /\ toPop \o _container = [i \in 1 .. pushes |-> i]
  /\ raced \in BOOLEAN /\ undefined \in BOOLEAN
  /\ at \in [Threads -> {"outside", "push", "pop", "front"}]
  /\ undefined => raced
  /\ ~raced => \A t \in Queue!Popping : _container # <<>> /\ Queue!Popping = {t}

LEMMA QueueInit == Init => QueueInv
<1> SUFFICES ASSUME Queue!Init PROVE QueueInv
  BY DEF Init
<1>1. <<>> \in Seq(Nat) /\ <<>> \o <<>> = [i \in 1 .. 0 |-> i]
  OBVIOUS
<1> QED
  BY <1>1 DEF Queue!Init, QueueInv, Queue!Popping

(* A value is pushed, the oldest one is popped.                            *)
LEMMA ConcatAppend ==
  ASSUME NEW T, NEW s \in Seq(T), NEW c \in Seq(T), NEW x \in T
  PROVE  s \o Append(c, x) = Append(s \o c, x)
<1>1. Append(c, x) = c \o <<x>> /\ <<x>> \in Seq(T)
  BY AppendIsConcat
<1>2. s \o c \in Seq(T)
  BY ConcatProperties
<1>3. Append(s \o c, x) = (s \o c) \o <<x>>
  BY <1>2, AppendIsConcat
<1>4. (s \o c) \o <<x>> = s \o (c \o <<x>>)
  BY <1>1, ConcatAssociative
<1> QED
  BY <1>1, <1>3, <1>4

(* The first n values.                                                     *)
FirstPushes(n) == [i \in 1 .. n |-> i]

LEMMA QueuePushed ==
  ASSUME NEW n \in Nat, NEW s \in Seq(Nat), NEW c \in Seq(Nat), s \o c = FirstPushes(n)
  PROVE  s \o Append(c, n + 1) = FirstPushes(n + 1)
<1>1. /\ FirstPushes(n) \in Seq(Nat) /\ Len(FirstPushes(n)) = n
      /\ \A i \in 1 .. n : FirstPushes(n)[i] = i
  BY DEF FirstPushes
<1>2. Append(FirstPushes(n), n + 1) = FirstPushes(n + 1)
  BY <1>1 DEF FirstPushes
<1>3. n + 1 \in Nat
  OBVIOUS
<1>4. s \o Append(c, n + 1) = Append(s \o c, n + 1)
  BY <1>3, ConcatAppend, SMTT(30)
<1> QED
  BY <1>2, <1>4, Zenon

LEMMA QueuePopped ==
  ASSUME NEW s \in Seq(Nat), NEW c \in Seq(Nat), c # <<>>
  PROVE  /\ Head(c) \in Nat /\ Tail(c) \in Seq(Nat)
         /\ Append(s, Head(c)) \o Tail(c) = s \o c
BY SMTT(30)

LEMMA QueueStepKeeps ==
  ASSUME QueueInv, NEW t \in Threads,
         Queue!LockPush(t) \/ Queue!Push(t) \/ Queue!NotEmpty(t) \/ Queue!LockPop(t) \/ Queue!Pop(t)
  PROVE  QueueInv'
<1> USE DEF Queue!Move
<1>1. CASE Queue!LockPush(t)
  <2>1. Queue!Popping' = Queue!Popping
    BY <1>1 DEF QueueInv, Queue!LockPush, Queue!Popping
  <2> QED
    BY <1>1, <2>1 DEF QueueInv, Queue!LockPush
<1>2. CASE Queue!Push(t)
  <2>1. Queue!Popping' = Queue!Popping
    BY <1>2 DEF QueueInv, Queue!Push, Queue!Popping
  <2>2. toPop \o Append(_container, pushes + 1) = [i \in 1..(pushes + 1) |-> i]
    BY QueuePushed DEF QueueInv, FirstPushes
  <2>3. Append(_container, pushes + 1) \in Seq(Nat) /\ Append(_container, pushes + 1) # <<>>
    BY AppendProperties, SMTT(30) DEF QueueInv
  <2>4. /\ _container' = Append(_container, pushes + 1) /\ pushes' = pushes + 1
        /\ UNCHANGED <<toPop, raced, undefined>>
        /\ at' \in [Threads -> {"outside", "push", "pop", "front"}]
    BY <1>2 DEF QueueInv, Queue!Push
  <2>5. toPop' \o _container' = [i \in 1 .. pushes' |-> i]
    BY <2>2, <2>4
  <2>6. _container' \in Seq(Nat) /\ _container' # <<>> /\ pushes' \in Nat
    BY <2>3, <2>4 DEF QueueInv
  <2>7. ~raced' => \A u \in Queue!Popping' : _container' # <<>> /\ Queue!Popping' = {u}
    BY <2>1, <2>4, <2>6 DEF QueueInv
  <2> QED
    BY <2>4, <2>5, <2>6, <2>7 DEF QueueInv
<1>3. CASE Queue!NotEmpty(t)
  <2>1. Queue!Popping' = Queue!Popping \union {t}
    BY <1>3 DEF QueueInv, Queue!NotEmpty, Queue!Popping
  <2>2. ~raced' => Queue!Popping = {}
    BY <1>3 DEF Queue!NotEmpty
  <2>3. ~raced' => \A u \in Queue!Popping' : _container' # <<>> /\ Queue!Popping' = {u}
    BY <1>3, <2>1, <2>2 DEF Queue!NotEmpty
  <2>4. /\ UNCHANGED <<_container, pushes, toPop, undefined>> /\ raced' \in BOOLEAN
        /\ raced => raced'
        /\ at' \in [Threads -> {"outside", "push", "pop", "front"}]
    BY <1>3 DEF QueueInv, Queue!NotEmpty
  <2> QED
    BY <2>3, <2>4 DEF QueueInv
<1>4. CASE Queue!LockPop(t)
  <2>1. Queue!Popping' = Queue!Popping
    BY <1>4 DEF QueueInv, Queue!LockPop, Queue!Popping
  <2> QED
    BY <1>4, <2>1 DEF QueueInv, Queue!LockPop
<1>5. CASE Queue!Pop(t)
  <2>1. Queue!Popping' = Queue!Popping \ {t} /\ t \in Queue!Popping
    BY <1>5 DEF QueueInv, Queue!Pop, Queue!Popping
  <2>2. /\ UNCHANGED <<pushes, raced>>
        /\ at' \in [Threads -> {"outside", "push", "pop", "front"}]
    BY <1>5 DEF QueueInv, Queue!Pop
  <2>3. CASE _container = <<>>
    <3>1. undefined' = TRUE /\ UNCHANGED <<_container, toPop>>
      BY <1>5, <2>3 DEF Queue!Pop
    <3> QED
      BY <2>1, <2>2, <2>3, <3>1 DEF QueueInv
  <2>4. CASE _container # <<>>
    <3>1. /\ toPop' = Append(toPop, Head(_container)) /\ _container' = Tail(_container)
          /\ UNCHANGED undefined
      BY <1>5, <2>4 DEF Queue!Pop
    <3>2. /\ Head(_container) \in Nat /\ Tail(_container) \in Seq(Nat)
          /\ Append(toPop, Head(_container)) \o Tail(_container) = toPop \o _container
      BY <2>4, QueuePopped DEF QueueInv
    <3>3. toPop' \in Seq(Nat) /\ _container' \in Seq(Nat)
      BY <3>1, <3>2, AppendProperties DEF QueueInv
    <3>4. toPop' \o _container' = [i \in 1 .. pushes' |-> i]
      BY <2>2, <3>1, <3>2 DEF QueueInv
    <3> QED
      BY <2>1, <2>2, <3>1, <3>3, <3>4 DEF QueueInv
  <2> QED
    BY <2>3, <2>4
<1> QED
  BY <1>1, <1>2, <1>3, <1>4, <1>5

LEMMA QueueNext == QueueInv /\ [Next]_vars => QueueInv'
<1>1. QueueInv /\ UNCHANGED queueVars => QueueInv'
  BY DEF QueueInv, Queue!Popping, queueVars
<1> QED
  BY <1>1, QueueSteps, QueueStepKeeps DEF Queue!Next

LEMMA QueuePopsInOrder == QueueInv => Queue!PoppedInOrder
BY DEF QueueInv, Queue!PoppedInOrder
-----------------------------------------------------------------------------
(* ScrollGame: its steps, whatever the others do.                          *)
LEMMA ScrollSteps == [Next]_vars => [Scroll!Next]_scrollVars
<1> SUFFICES ASSUME [Next]_vars PROVE Scroll!Next \/ UNCHANGED scrollVars
  OBVIOUS
<1>1. CASE ScrollStep
  BY <1>1 DEF ScrollStep
<1> QED
  BY <1>1 DEF Next, vars, Only, PoolStep, DispatcherStep, BlobStep,
              FlagStep, TextStep, AssignStep, EventsStep, QueueStep, ScrollStep,
              MenuStep, SubjectStep, LedgerStep

(* Each row of the field is the one that was drawn so many intervals ago.  *)
ScrollInv ==
  /\ drawn \in Seq(0 .. Columns - 1)
  /\ arr = [i \in 0 .. Rows - 1 |->
             IF i < Len(drawn) THEN drawn[Len(drawn) - i] ELSE NULL]

LEMMA ScrollInit == Init => ScrollInv
BY EmptySeq DEF Init, Scroll!Init, ScrollInv

LEMMA ScrollNext == ScrollInv /\ [Next]_vars => ScrollInv'
<1> SUFFICES ASSUME ScrollInv, Scroll!Next \/ UNCHANGED scrollVars PROVE ScrollInv'
  BY ScrollSteps
<1>1. CASE UNCHANGED <<arr, drawn>>
  BY <1>1 DEF ScrollInv
<1>2. CASE Scroll!display_maker
  <2>1. PICK c \in 0 .. Columns - 1 : arr' = Scroll!Scrolled(c) /\ drawn' = Append(drawn, c)
    BY <1>2 DEF Scroll!display_maker
  <2>2. PICK d \in Seq(0 .. Columns - 1) : d = drawn
    BY DEF ScrollInv
  <2>3. PICK n \in Nat : n = Len(d)
    BY LenProperties
  <2>4. /\ drawn' \in Seq(0 .. Columns - 1) /\ Len(drawn') = n + 1 /\ drawn'[n + 1] = c
        /\ \A i \in 1..n : drawn'[i] = d[i]
    BY <2>1, <2>2, <2>3, AppendProperties
  <2>5. ASSUME NEW i \in 0 .. Rows - 1
        PROVE  Scroll!Scrolled(c)[i]
                 = IF i < Len(drawn') THEN drawn'[Len(drawn') - i] ELSE NULL
    <3>1. CASE i = 0
      <4>1. Scroll!Scrolled(c)[i] = c
        BY <3>1, FieldAssumption DEF Scroll!Scrolled
      <4> QED
        BY <2>3, <2>4, <3>1, <4>1
    <3>2. CASE i # 0
      <4>1. PICK j \in 0 .. Rows - 1 : j = i - 1
        BY <3>2, FieldAssumption
      <4>2. Scroll!Scrolled(c)[i] = arr[j]
        BY <3>2, <4>1 DEF Scroll!Scrolled
      <4>3. arr[j] = IF j < n THEN d[n - j] ELSE NULL
        BY <2>2, <2>3, <4>1 DEF ScrollInv
      <4>4. (j < n <=> i < n + 1) /\ n + 1 - i = n - j /\ (j < n => n - j \in 1..n)
        BY <2>3, <4>1, FieldAssumption
      <4> QED
        BY <2>4, <4>2, <4>3, <4>4
    <3> QED
      BY <3>1, <3>2
  <2>6. Scroll!Scrolled(c) = [i \in 0 .. Rows - 1 |-> Scroll!Scrolled(c)[i]]
    BY DEF Scroll!Scrolled
  <2>7. Scroll!Scrolled(c) = [i \in 0 .. Rows - 1 |->
          IF i < Len(drawn') THEN drawn'[Len(drawn') - i] ELSE NULL]
    BY <2>5, <2>6
  <2> QED
    BY <2>1, <2>4, <2>7 DEF ScrollInv
<1>3. Scroll!Tick \/ (\E c \in {"a", "d", "x"} : Scroll!Key(c)) \/ UNCHANGED scrollVars
        => UNCHANGED <<arr, drawn>>
  BY DEF Scroll!Tick, Scroll!Key, scrollVars
<1> QED
  BY <1>1, <1>2, <1>3 DEF Scroll!Next

LEMMA ScrollRows == ScrollInv => Scroll!RowsComeDown
<1> SUFFICES ASSUME ScrollInv, NEW i \in 0 .. Rows - 1
             PROVE  LET row == IF i < Len(drawn) THEN {drawn[Len(drawn) - i]} ELSE {}
                    IN  {j \in 0 .. Columns - 1 : Scroll!Printed(i, j) = "@"}
                          = IF i = Scroll!Y THEN row \ {X} ELSE row
  BY DEF Scroll!RowsComeDown
<1> DEFINE row == IF i < Len(drawn) THEN {drawn[Len(drawn) - i]} ELSE {}
<1>1. row = {j \in 0 .. Columns - 1 : arr[i] = j}
  <2>1. PICK d \in Seq(0 .. Columns - 1) : d = drawn
    BY DEF ScrollInv
  <2>2. arr[i] = IF i < Len(d) THEN d[Len(d) - i] ELSE NULL
    BY <2>1 DEF ScrollInv
  <2>3. CASE i < Len(d)
    <3>1. Len(d) - i \in 1..Len(d)
      BY <2>3, LenProperties, FieldAssumption
    <3>2. d[Len(d) - i] \in 0 .. Columns - 1
      BY <3>1, ElementOfSeq
    <3> QED
      BY <2>1, <2>2, <2>3, <3>2
  <2>4. CASE ~(i < Len(d))
    <3>1. NULL \notin 0 .. Columns - 1
      BY NullAssumption, FieldAssumption
    <3> QED
      BY <2>1, <2>2, <2>4, <3>1
  <2> QED
    BY <2>3, <2>4
<1>2. {j \in 0 .. Columns - 1 : Scroll!Printed(i, j) = "@"}
        = {j \in 0 .. Columns - 1 : arr[i] = j /\ ~(i = Scroll!Y /\ j = X)}
  BY DEF Scroll!Printed
<1> HIDE DEF row
<1>3. {j \in 0 .. Columns - 1 : arr[i] = j /\ ~(i = Scroll!Y /\ j = X)}
        = IF i = Scroll!Y THEN row \ {X} ELSE row
  BY <1>1
<1> QED
  BY <1>2, <1>3, Zenon DEF row

(* What waits in a line leaves it in its order: the events in the four     *)
(* containers, for any events; the values of the queue, for any threads,   *)
(* until two of them pop together; the rows of a field of any size.        *)
THEOREM QueuesInOrderHolds == Spec => []QueuesInOrder
<1>1. Init => EvtsInv /\ QueueInv /\ ScrollInv
  BY EvtsInit, QueueInit, ScrollInit
<1>2. EvtsInv /\ QueueInv /\ ScrollInv /\ [Next]_vars => (EvtsInv /\ QueueInv /\ ScrollInv)'
  BY EvtsNext, QueueNext, ScrollNext
<1>3. EvtsInv /\ QueueInv /\ ScrollInv => QueuesInOrder
  BY EvtsAreInOrder, QueuePopsInOrder, ScrollRows DEF QueuesInOrder
<1> QED
  BY <1>1, <1>2, <1>3, PTL DEF Spec
-----------------------------------------------------------------------------
(* ZoneMsgDispatcher: its steps, whatever the others do.                   *)
LEMMA DispatcherSteps == [Next]_vars => [Dispatcher!Next]_dispatcherVars
<1> SUFFICES ASSUME [Next]_vars PROVE Dispatcher!Next \/ UNCHANGED dispatcherVars
  OBVIOUS
<1>1. CASE DispatcherStep
  BY <1>1 DEF DispatcherStep
<1> QED
  BY <1>1 DEF Next, vars, Only, PoolStep, DispatcherStep, BlobStep,
              FlagStep, TextStep, AssignStep, EventsStep, QueueStep, ScrollStep,
              MenuStep, SubjectStep, LedgerStep

(* The handlers are those registered, wherever the vector ends.            *)
DispatcherInv ==
  /\ m_vecHandlers \in Seq(Types \union {"empty"})
  /\ registered \in [IDs -> Types \union {"empty"}]
  /\ \A wID \in IDs : Dispatcher!Handler(wID) = registered[wID]

LEMMA DispatcherInit == Init => DispatcherInv
<1> SUFFICES ASSUME Dispatcher!Init PROVE DispatcherInv
  BY DEF Init
<1>1. m_vecHandlers = <<>> /\ registered = [wID \in IDs |-> "empty"]
  BY DEF Dispatcher!Init, Dispatcher!empty
<1>2. \A wID \in IDs : wID \in Nat
  BY MessagesAssumption
<1>3. \A wID \in IDs : Dispatcher!Handler(wID) = "empty"
  BY <1>1, <1>2 DEF Dispatcher!Handler, Dispatcher!empty
<1> QED
  BY <1>1, <1>3 DEF DispatcherInv

LEMMA DispatcherRegisters ==
  ASSUME DispatcherInv, NEW wID \in IDs, NEW TMsg \in Types, Dispatcher!Register(wID, TMsg)
  PROVE  DispatcherInv'
<1> DEFINE T == Types \union {"empty"}
<1>1. PICK v \in Seq(T), n \in Nat, h \in Seq(T) :
        /\ v = m_vecHandlers /\ n = Len(v) /\ h = Dispatcher!Resized(wID)
        /\ Len(h) = IF n <= wID THEN wID + 1 ELSE n
        /\ \A i \in 1 .. Len(h) : h[i] = IF i <= n THEN v[i] ELSE "empty"
  <2>1. PICK v \in Seq(T), n \in Nat : v = m_vecHandlers /\ n = Len(v)
    BY DEF DispatcherInv
  <2>2. wID \in Nat
    BY MessagesAssumption
  <2>3. CASE n <= wID
    <3>1. PICK h : h = [i \in 1 .. wID + 1 |-> IF i <= n THEN v[i] ELSE "empty"]
      OBVIOUS
    <3>2. h \in Seq(T) /\ Len(h) = wID + 1
      BY <2>1, <2>2, <3>1
    <3>3. Dispatcher!Resized(wID) = h
      BY <2>1, <2>3, <3>1 DEF Dispatcher!Resized, Dispatcher!empty
    <3> QED
      BY <2>1, <2>2, <2>3, <3>1, <3>2, <3>3
  <2>4. CASE ~(n <= wID)
    <3>1. Dispatcher!Resized(wID) = v
      BY <2>1, <2>4 DEF Dispatcher!Resized
    <3> QED
      BY <2>1, <2>4, <3>1
  <2> QED
    BY <2>3, <2>4
<1>2. wID \in Nat /\ wID + 1 \in 1 .. Len(h)
  BY <1>1, MessagesAssumption
<1>3. PICK w \in Seq(T) :
        /\ w = m_vecHandlers' /\ Len(w) = Len(h)
        /\ \A i \in 1 .. Len(h) : w[i] = IF i = wID + 1 THEN TMsg ELSE h[i]
  <2>1. m_vecHandlers' = [h EXCEPT ![wID + 1] = TMsg]
    BY <1>1 DEF Dispatcher!Register
  <2> QED
    BY <1>2, <2>1
<1>4. registered' = [registered EXCEPT ![wID] = TMsg]
  BY DEF Dispatcher!Register
<1>5. ASSUME NEW id \in IDs PROVE Dispatcher!Handler(id)' = registered'[id]
  <2>1. id \in Nat
    BY MessagesAssumption
  <2>2. registered[id] = IF id >= n THEN "empty" ELSE v[id + 1]
    BY <1>1 DEF DispatcherInv, Dispatcher!Handler, Dispatcher!empty
  <2>3. Dispatcher!Handler(id)' = IF id >= Len(w) THEN "empty" ELSE w[id + 1]
    BY <1>3 DEF Dispatcher!Handler, Dispatcher!empty
  <2>4. registered'[id] = IF id = wID THEN TMsg ELSE registered[id]
    BY <1>4 DEF DispatcherInv
  <2>5. CASE id = wID
    <3>1. ~(id >= Len(w)) /\ w[id + 1] = TMsg
      BY <1>1, <1>2, <1>3, <2>5
    <3> QED
      BY <2>3, <2>4, <2>5, <3>1
  <2>6. CASE id # wID /\ id < n
    <3>1. id + 1 \in 1 .. Len(h) /\ id + 1 # wID + 1 /\ id + 1 <= n
      BY <1>1, <1>2, <2>1, <2>6
    <3>2. ~(id >= Len(w)) /\ ~(id >= n) /\ w[id + 1] = v[id + 1]
      BY <1>1, <1>3, <2>1, <2>6, <3>1
    <3> QED
      BY <2>2, <2>3, <2>4, <2>6, <3>2
  <2>7. CASE id # wID /\ id >= n /\ id < Len(w)
    <3>1. id + 1 \in 1 .. Len(h) /\ id + 1 # wID + 1 /\ ~(id + 1 <= n)
      BY <1>1, <1>2, <1>3, <2>1, <2>7
    <3>2. ~(id >= Len(w)) /\ w[id + 1] = "empty"
      BY <1>1, <1>3, <2>1, <2>7, <3>1
    <3> QED
      BY <2>2, <2>3, <2>4, <2>7, <3>2
  <2>8. CASE id # wID /\ id >= n /\ id >= Len(w)
    BY <2>2, <2>3, <2>4, <2>8
  <2>9. (id < n \/ id >= n) /\ (id < Len(w) \/ id >= Len(w))
    BY <2>1
  <2> QED
    BY <2>5, <2>6, <2>7, <2>8, <2>9
<1>6. registered' \in [IDs -> T]
  BY <1>4 DEF DispatcherInv
<1> QED
  BY <1>3, <1>5, <1>6 DEF DispatcherInv

LEMMA DispatcherNext == DispatcherInv /\ [Next]_vars => DispatcherInv'
<1> SUFFICES ASSUME DispatcherInv, Dispatcher!Next \/ UNCHANGED dispatcherVars
             PROVE  DispatcherInv'
  BY DispatcherSteps
<1>1. CASE UNCHANGED <<m_vecHandlers, registered>>
  BY <1>1 DEF DispatcherInv, Dispatcher!Handler
<1>2. CASE Dispatcher!Next
  <2>1. PICK wID \in IDs : \/ \E TMsg \in Types : Dispatcher!Register(wID, TMsg)
                           \/ Dispatcher!RegisterAborts(wID)
                           \/ \E dwMsgSize \in Sizes : Dispatcher!Dispatch(wID, dwMsgSize)
    BY <1>2 DEF Dispatcher!Next
  <2> QED
    BY <1>1, <2>1, DispatcherRegisters DEF Dispatcher!Dispatch, Dispatcher!RegisterAborts
<1> QED
  BY <1>1, <1>2 DEF dispatcherVars

(* A message is handled as it was registered.                              *)
Handled ==
  message'.size # -1 /\ (message' # message \/ call' # call) =>
    LET TMsg == registered[message'.wID]
        rest == message'.size - sizeof[TMsg]
    IN  IF TMsg = "empty" THEN call' = Dispatcher!NoCall
        ELSE IF rest < 0 THEN call' = Dispatcher!NoCall
        ELSE call'.type = TMsg /\ (rest < WordModulus => call'.wSize = rest)

LEMMA DispatchHandles ==
  ASSUME DispatcherInv, NEW wID \in IDs, NEW dwMsgSize \in Sizes,
         Dispatcher!Dispatch(wID, dwMsgSize)
  PROVE  Handled
<1>1. PICK TMsg \in Types \union {"empty"} :
        TMsg = registered[wID] /\ TMsg = Dispatcher!Handler(wID)
  BY DEF DispatcherInv
<1>2. message' = [wID |-> wID, size |-> dwMsgSize]
  BY DEF Dispatcher!Dispatch
<1>3. call' = IF TMsg = "empty" THEN Dispatcher!NoCall ELSE Dispatcher!Trampoline(TMsg, dwMsgSize)
  BY <1>1 DEF Dispatcher!Dispatch, Dispatcher!empty
<1>4. CASE TMsg = "empty"
  BY <1>1, <1>2, <1>3, <1>4 DEF Handled
<1>5. CASE TMsg # "empty"
  <2>1. PICK n \in Int : n = dwMsgSize - sizeof[TMsg]
    BY <1>5, MessagesAssumption
  <2>2. dwMsgSize < sizeof[TMsg] <=> n < 0
    BY <1>5, <2>1, MessagesAssumption
  <2>3. CASE n < 0
    BY <1>1, <1>2, <1>3, <1>5, <2>1, <2>2, <2>3 DEF Handled, Dispatcher!Trampoline
  <2>4. CASE ~(n < 0)
    <3>1. call' = [type |-> TMsg, wSize |-> n % WordModulus]
      BY <1>3, <1>5, <2>1, <2>2, <2>4 DEF Dispatcher!Trampoline
    <3>2. n < WordModulus => n % WordModulus = n
      BY <2>1, <2>4, MessagesAssumption
    <3> QED
      BY <1>1, <1>2, <1>5, <2>1, <2>4, <3>1, <3>2 DEF Handled
  <2> QED
    BY <2>3, <2>4
<1> QED
  BY <1>4, <1>5

LEMMA DispatcherHandles == DispatcherInv /\ [Next]_vars => [Handled]_(Dispatcher!vars)
<1> SUFFICES ASSUME DispatcherInv, Dispatcher!Next \/ UNCHANGED dispatcherVars
             PROVE  Handled \/ UNCHANGED Dispatcher!vars
  BY DispatcherSteps
<1>1. CASE UNCHANGED dispatcherVars
  BY <1>1 DEF dispatcherVars, Dispatcher!vars
<1>2. CASE Dispatcher!Next
  <2>1. PICK wID \in IDs : \/ \E TMsg \in Types : Dispatcher!Register(wID, TMsg)
                           \/ Dispatcher!RegisterAborts(wID)
                           \/ \E dwMsgSize \in Sizes : Dispatcher!Dispatch(wID, dwMsgSize)
    BY <1>2 DEF Dispatcher!Next
  <2> QED
    BY <2>1, DispatchHandles DEF Dispatcher!Register, Dispatcher!RegisterAborts, Handled
<1> QED
  BY <1>1, <1>2

LEMMA DispatcherDispatches == Spec => Dispatcher!DispatchedAsRegistered
<1>1. Init => DispatcherInv
  BY DispatcherInit
<1>2. DispatcherInv /\ [Next]_vars => DispatcherInv'
  BY DispatcherNext
<1>3. DispatcherInv /\ [Next]_vars => [Handled]_(Dispatcher!vars)
  BY DispatcherHandles
<1>4. Spec => [][Handled]_(Dispatcher!vars)
  BY <1>1, <1>2, <1>3, PTL DEF Spec
<1> QED
  BY <1>4 DEF Handled, Dispatcher!DispatchedAsRegistered, Dispatcher!empty
-----------------------------------------------------------------------------
(* Menus: its steps, whatever the others do.                               *)
LEMMA MenuSteps == [Next]_vars => [Menu!Next]_menusVars
<1> SUFFICES ASSUME [Next]_vars PROVE Menu!Next \/ UNCHANGED menusVars
  OBVIOUS
<1>1. CASE MenuStep
  BY <1>1 DEF MenuStep
<1> QED
  BY <1>1 DEF Next, vars, Only, PoolStep, DispatcherStep, BlobStep,
              FlagStep, TextStep, AssignStep, EventsStep, QueueStep, ScrollStep,
              MenuStep, SubjectStep, LedgerStep

(* The numbers of the menu, each with a unit that is initialised.          *)
MenuNumbers ==
  /\ curMenuIndex \in Nat
  /\ bInitialized \in [Objects -> BOOLEAN]
  /\ DOMAIN menuMap = 1 .. curMenuIndex
  /\ \A i \in DOMAIN menuMap : menuMap[i] \in Objects /\ bInitialized[menuMap[i]]
  /\ \A i, j \in DOMAIN menuMap : menuMap[i] = menuMap[j] => i = j
  /\ \A u \in Objects : bInitialized[u] => \E i \in DOMAIN menuMap : menuMap[i] = u

MenuInv ==
  /\ MenuNumbers
  /\ state = "unit" => typed \in DOMAIN menuMap /\ running = menuMap[typed]
  /\ pWork \in {NULL} \union (0 .. eWorks_CNT - 1)

LEMMA MenuInit == Init => MenuInv
<1> SUFFICES ASSUME Menu!Init PROVE MenuInv
  BY DEF Init
<1>1. DOMAIN <<>> = 1 .. 0 /\ 1 .. 0 = {}
  OBVIOUS
<1> QED
  BY <1>1 DEF Menu!Init, MenuInv, MenuNumbers

LEMMA MenuRegisters ==
  ASSUME MenuInv, NEW u \in Objects, Menu!RegisterUnit(u)
  PROVE  MenuInv'
<1>1. state = "static" /\ state' = "static" /\ pWork' = pWork
  BY DEF Menu!RegisterUnit, Menu!works
<1>2. CASE bInitialized[u]
  BY <1>1, <1>2 DEF MenuInv, MenuNumbers, Menu!RegisterUnit
<1>3. CASE ~bInitialized[u]
  <2>1. PICK n \in Nat : n = curMenuIndex
    BY DEF MenuInv, MenuNumbers
  <2>2. /\ curMenuIndex' = n + 1
        /\ menuMap' = [i \in DOMAIN menuMap \union {n + 1} |->
                        IF i \in DOMAIN menuMap THEN menuMap[i] ELSE u]
        /\ bInitialized' = [bInitialized EXCEPT ![u] = TRUE]
    BY <1>3, <2>1 DEF Menu!RegisterUnit, Menu!DoRegist
  <2>3. DOMAIN menuMap = 1 .. n /\ DOMAIN menuMap' = 1 .. n + 1 /\ n + 1 \notin 1 .. n
    BY <2>1, <2>2 DEF MenuInv, MenuNumbers
  <2>4. /\ \A i \in 1 .. n : i \in 1 .. n + 1 /\ menuMap'[i] = menuMap[i]
        /\ n + 1 \in 1 .. n + 1 /\ menuMap'[n + 1] = u
    BY <2>2, <2>3
  <2>5. \A i \in 1 .. n : menuMap[i] \in Objects /\ bInitialized[menuMap[i]] /\ menuMap[i] # u
    BY <1>3, <2>3 DEF MenuInv, MenuNumbers
  <2>6. bInitialized' \in [Objects -> BOOLEAN] /\ bInitialized'[u]
        /\ \A v \in Objects : v # u => bInitialized'[v] = bInitialized[v]
    BY <2>2 DEF MenuInv, MenuNumbers
  <2>7. \A i \in 1 .. n + 1 : i \in 1 .. n \/ i = n + 1
    OBVIOUS
  <2>8. \A i \in 1 .. n + 1 : menuMap'[i] \in Objects /\ bInitialized'[menuMap'[i]]
    BY <2>4, <2>5, <2>6, <2>7
  <2>9. \A i, j \in 1 .. n + 1 : menuMap'[i] = menuMap'[j] => i = j
    BY <2>3, <2>4, <2>5, <2>7 DEF MenuInv, MenuNumbers
  <2>10. \A v \in Objects : bInitialized'[v] => \E i \in 1 .. n + 1 : menuMap'[i] = v
    BY <2>3, <2>4, <2>6 DEF MenuInv, MenuNumbers
  <2>11. MenuNumbers'
    <3>1. curMenuIndex' \in Nat /\ DOMAIN menuMap' = 1 .. curMenuIndex'
      BY <2>2, <2>3
    <3> QED
      BY <2>3, <2>6, <2>8, <2>9, <2>10, <3>1 DEF MenuNumbers
  <2> QED
    BY <1>1, <2>11 DEF MenuInv
<1> QED
  BY <1>2, <1>3

LEMMA MenuNext == MenuInv /\ [Next]_vars => MenuInv'
<1> SUFFICES ASSUME MenuInv, Menu!Next \/ UNCHANGED menusVars PROVE MenuInv'
  BY MenuSteps
<1> USE DEF MenuInv, MenuNumbers
<1>1. CASE UNCHANGED menusVars
  BY <1>1 DEF menusVars
<1>2. CASE \E u \in Objects : Menu!RegisterUnit(u)
  BY <1>2, MenuRegisters
<1>3. CASE Menu!DoExecute
  BY <1>3 DEF Menu!DoExecute, Menu!works
<1>4. ASSUME NEW key, NEW isNumber, Menu!GetSelection(key, isNumber) PROVE MenuInv'
  BY <1>4 DEF Menu!GetSelection, Menu!works
<1>5. ASSUME NEW key \in Int, NEW isNumber \in BOOLEAN, Menu!MenuSelect(key, isNumber)
      PROVE  MenuInv'
  <2>1. \A n \in Int : Menu!GetWork(n) \in {NULL} \union (0 .. eWorks_CNT - 1)
    BY WorksAssumption DEF Menu!GetWork
  <2>2. Menu!atoi(key, isNumber) \in Int
    BY DEF Menu!atoi
  <2> QED
    BY <1>5, <2>1, <2>2 DEF Menu!MenuSelect, Menu!units
<1>6. ASSUME NEW fails, Menu!UnitReturns(fails) PROVE MenuInv'
  BY <1>6 DEF Menu!UnitReturns, Menu!works
<1>7. CASE Menu!Quit
  BY <1>7 DEF Menu!Quit, Menu!units
<1>8. Menu!Keys \subseteq Int
  BY DEF Menu!Keys
<1> QED
  BY <1>1, <1>2, <1>3, <1>4, <1>5, <1>6, <1>7, <1>8 DEF Menu!Next

LEMMA MenuSelects == MenuInv => Menu!SelectedUnitRuns
BY DEF MenuInv, MenuNumbers, Menu!SelectedUnitRuns, Menu!IsInjective
-----------------------------------------------------------------------------
(* Observer: its steps, whatever the others do.                            *)
LEMMA SubjectSteps == [Next]_vars => [Subject!Next]_subjectVars
<1> SUFFICES ASSUME [Next]_vars PROVE Subject!Next \/ UNCHANGED subjectVars
  OBVIOUS
<1>1. CASE SubjectStep
  BY <1>1 DEF SubjectStep
<1> QED
  BY <1>1 DEF Next, vars, Only, PoolStep, DispatcherStep, BlobStep,
              FlagStep, TextStep, AssignStep, EventsStep, QueueStep, ScrollStep,
              MenuStep, SubjectStep, LedgerStep

(* The observers of an event are its registrations, in their order.        *)
Ranked(s, due, hist) ==
  /\ s \in Seq(Objects) /\ Len(s) = Cardinality(due)
  /\ \A i \in due : s[Cardinality({j \in due : j <= i})] = hist[i][2]

SubjectHas(e) ==
  /\ e \notin DOMAIN observers_ => Subject!RegisteredFor(e) = {}
  /\ e \in DOMAIN observers_ => Ranked(observers_[e], Subject!RegisteredFor(e), history)

SubjectInv ==
  /\ history \in Seq(Events \X Objects)
  /\ \A e \in Events : SubjectHas(e)
  /\ event # NULL =>
       /\ event \in Events /\ event \in DOMAIN observers_
       /\ obs \in 0 .. Len(observers_[event])
       /\ called = SubSeq(observers_[event], 1, obs)

LEMMA SubjectInit == Init => SubjectInv
<1> SUFFICES ASSUME Subject!Init PROVE SubjectInv
  BY DEF Init
<1>1. <<>> \in Seq(Events \X Objects) /\ DOMAIN <<>> = {}
  OBVIOUS
<1> QED
  BY <1>1 DEF Subject!Init, SubjectInv, SubjectHas, Subject!RegisteredFor

LEMMA SubjectRegisters ==
  ASSUME SubjectInv, NEW e \in Events, NEW o \in Objects, Subject!registerObserver(e, o)
  PROVE  SubjectInv'
<1>1. PICK n \in Nat : n = Len(history) /\ DOMAIN history = 1 .. n
  BY DEF SubjectInv
<1>2. /\ history' \in Seq(Events \X Objects) /\ DOMAIN history' = 1 .. n + 1
      /\ \A i \in 1 .. n : history'[i] = history[i]
      /\ history'[n + 1] = <<e, o>>
  <2>1. history' = Append(history, <<e, o>>) /\ <<e, o>> \in Events \X Objects
    BY DEF Subject!registerObserver
  <2> QED
    BY <1>1, <2>1, AppendProperties DEF SubjectInv
<1>3. ASSUME NEW x \in Events PROVE SubjectHas(x)'
  <2> DEFINE due == Subject!RegisteredFor(x)
             dueNext == Subject!RegisteredFor(x)'
  <2>1. due \subseteq 1 .. n /\ dueNext = IF x = e THEN due \union {n + 1} ELSE due
    <3>1. due = {i \in 1 .. n : history[i][1] = x}
      BY <1>1 DEF Subject!RegisteredFor
    <3>2. dueNext = {i \in 1 .. n + 1 : history'[i][1] = x}
      BY <1>2 DEF Subject!RegisteredFor
    <3>3. \A i \in 1 .. n + 1 : i \in 1 .. n \/ i = n + 1
      OBVIOUS
    <3>4. history'[n + 1][1] = e
      BY <1>2
    <3> QED
      BY <1>2, <3>1, <3>2, <3>3, <3>4
  <2>2. DOMAIN observers_' = DOMAIN observers_ \union {e}
    BY DEF Subject!registerObserver, Subject!Register
  <2>3. \A i \in due : history'[i] = history[i]
    BY <1>2, <2>1
  <2> HIDE DEF due, dueNext
  <2>4. IsFiniteSet(due) /\ Cardinality(due) \in Nat
    <3>1. IsFiniteSet(1 .. n)
      BY FS_Interval
    <3>2. IsFiniteSet(due)
      BY <2>1, <3>1, FS_Subset
    <3> QED
      BY <3>2, FS_CardinalityType
  <2>5. CASE x # e
    <3>1. dueNext = due /\ (x \in DOMAIN observers_' <=> x \in DOMAIN observers_)
      BY <2>1, <2>2, <2>5
    <3>2. x \in DOMAIN observers_ => observers_'[x] = observers_[x]
      <4>1. x \in DOMAIN observers_ => observers_[x] \in Seq(Objects)
        BY DEF SubjectInv, SubjectHas, Ranked
      <4>2. x \in DOMAIN observers_ => observers_'[x] = observers_[x] \o <<>>
        BY <2>5 DEF Subject!registerObserver, Subject!Register
      <4> QED
        BY <4>1, <4>2, ConcatEmptySeq
    <3>3. SubjectHas(x)
      BY DEF SubjectInv
    <3>4. \A s : Ranked(s, due, history) => Ranked(s, due, history')
      BY <2>3 DEF Ranked
    <3>5. x \notin DOMAIN observers_' => dueNext = {}
      BY <3>1, <3>3 DEF SubjectHas, due
    <3>6. x \in DOMAIN observers_' => Ranked(observers_'[x], dueNext, history')
      BY <3>1, <3>2, <3>3, <3>4 DEF SubjectHas, due
    <3> QED
      BY <3>5, <3>6 DEF SubjectHas, dueNext
  <2>6. CASE x = e
    <3>1. dueNext = due \union {n + 1} /\ n + 1 \notin due /\ x \in DOMAIN observers_'
      BY <2>1, <2>2, <2>6
    <3>2. PICK before \in Seq(Objects) :
            /\ Len(before) = Cardinality(due)
            /\ \A i \in due : before[Cardinality({j \in due : j <= i})] = history[i][2]
            /\ observers_'[x] = before \o <<o>>
      <4>1. CASE x \in DOMAIN observers_
        <5>1. observers_'[x] = observers_[x] \o <<o>>
          BY <2>6, <4>1 DEF Subject!registerObserver, Subject!Register
        <5> QED
          BY <4>1, <5>1 DEF SubjectInv, SubjectHas, Ranked, due
      <4>2. CASE x \notin DOMAIN observers_
        <5>1. observers_'[x] = <<>> \o <<o>>
          BY <2>6, <4>2 DEF Subject!registerObserver, Subject!Register
        <5>2. due = {} /\ Cardinality(due) = 0
          BY <4>2, FS_EmptySet DEF SubjectInv, SubjectHas, due
        <5>3. <<>> \in Seq(Objects) /\ Len(<<>>) = 0
          OBVIOUS
        <5> QED
          BY <5>1, <5>2, <5>3
      <4> QED
        BY <4>1, <4>2
    <3>3. PICK c \in Nat : c = Cardinality(due)
      BY <2>4
    <3>4. PICK after \in Seq(Objects) :
            /\ after = observers_'[x] /\ Len(after) = c + 1 /\ after[c + 1] = o
            /\ \A i \in 1 .. c : after[i] = before[i]
      <4>1. <<o>> \in Seq(Objects) /\ Len(<<o>>) = 1 /\ <<o>>[1] = o
        OBVIOUS
      <4> QED
        <5>1. PICK single \in Seq(Objects) :
                single = <<o>> /\ Len(single) = 1 /\ single[1] = o
          BY <4>1
        <5>2. /\ before \o single \in Seq(Objects) /\ Len(before \o single) = Len(before) + 1
              /\ \A i \in 1 .. Len(before) + 1 : (before \o single)[i] =
                   IF i <= Len(before) THEN before[i] ELSE single[i - Len(before)]
          BY <5>1, ConcatProperties
        <5>3. PICK after \in Seq(Objects) : after = before \o single
          BY <5>2
        <5>4. after = observers_'[x]
          BY <3>2, <5>1, <5>3
        <5>5. Len(before) = c
          BY <3>2, <3>3
        <5>6. Len(after) = c + 1 /\ after[c + 1] = single[1]
          BY <5>2, <5>3, <5>5
        <5>7. \A i \in 1 .. c : after[i] = before[i]
          BY <5>2, <5>3, <5>5
        <5> QED
          BY <5>1, <5>4, <5>6, <5>7
    <3>5. Cardinality(dueNext) = c + 1
      BY <2>4, <3>1, <3>3, FS_AddElement
    <3>6. ASSUME NEW i \in dueNext
          PROVE  after[Cardinality({j \in dueNext : j <= i})] = history'[i][2]
      <4>1. CASE i = n + 1
        <5>1. {j \in dueNext : j <= i} = dueNext
          <6>1. \A j \in dueNext : j \in 1 .. n \/ j = n + 1
            BY <2>1, <3>1
          <6>2. \A j \in dueNext : j <= n + 1
            BY <6>1
          <6> QED
            BY <4>1, <6>2
        <5>2. history'[i][2] = o
          BY <1>2, <4>1
        <5> QED
          BY <3>4, <3>5, <5>1, <5>2
      <4>2. CASE i \in due
        <5>1. {j \in dueNext : j <= i} = {j \in due : j <= i}
          BY <2>1, <3>1, <4>2
        <5>2. PICK k : k = Cardinality({j \in due : j <= i})
          OBVIOUS
        <5>3. k \in 1 .. c
          <6> DEFINE D == {j \in due : j <= i}
          <6>1. D \subseteq due /\ i \in D
            BY <2>1, <4>2
          <6> HIDE DEF D
          <6>2. IsFiniteSet(D) /\ Cardinality(D) \in Nat /\ Cardinality(D) <= Cardinality(due)
            BY <2>4, <6>1, FS_Subset, FS_CardinalityType
          <6>3. Cardinality(D) # 0
            BY <6>1, <6>2, FS_EmptySet
          <6> QED
            BY <3>3, <5>2, <6>2, <6>3 DEF D
        <5>4. before[k] = history[i][2]
          BY <3>2, <4>2, <5>2
        <5> QED
          BY <2>3, <3>4, <4>2, <5>1, <5>2, <5>3, <5>4
      <4> QED
        BY <3>1, <4>1, <4>2
    <3> QED
      BY <3>1, <3>3, <3>4, <3>5, <3>6 DEF SubjectHas, Ranked, dueNext
  <2> QED
    BY <2>5, <2>6
<1>4. UNCHANGED <<event, obs, called>> /\ (event # NULL => event # e)
  BY DEF Subject!registerObserver
<1>5. event # NULL => event \in DOMAIN observers_' /\ observers_'[event] = observers_[event]
  <2> SUFFICES ASSUME event # NULL
               PROVE  event \in DOMAIN observers_' /\ observers_'[event] = observers_[event]
    OBVIOUS
  <2>1. event \in DOMAIN observers_ /\ observers_[event] \in Seq(Objects)
    BY DEF SubjectInv, SubjectHas, Ranked
  <2>2. event \in DOMAIN observers_' /\ observers_'[event] = observers_[event] \o <<>>
    BY <1>4, <2>1 DEF Subject!registerObserver, Subject!Register
  <2> QED
    BY <2>1, <2>2, ConcatEmptySeq
<1> QED
  BY <1>2, <1>3, <1>4, <1>5 DEF SubjectInv

LEMMA SubjectNext == SubjectInv /\ [Next]_vars => SubjectInv'
<1> SUFFICES ASSUME SubjectInv, Subject!Next \/ UNCHANGED subjectVars PROVE SubjectInv'
  BY SubjectSteps
<1>1. ASSUME UNCHANGED <<observers_, history>> PROVE \A e \in Events : SubjectHas(e)'
  <2>1. \A e : Subject!RegisteredFor(e)' = Subject!RegisteredFor(e)
    BY <1>1 DEF Subject!RegisteredFor
  <2> QED
    BY <1>1, <2>1 DEF SubjectInv, SubjectHas
<1>2. CASE UNCHANGED subjectVars
  BY <1>1, <1>2 DEF SubjectInv, subjectVars
<1>3. CASE \E e \in Events : \E o \in Objects : Subject!registerObserver(e, o)
  BY <1>3, SubjectRegisters
<1>4. ASSUME NEW e \in Events, Subject!notify(e) PROVE SubjectInv'
  <2>1. UNCHANGED <<observers_, history>> /\ obs' = 0 /\ called' = <<>>
    BY <1>4 DEF Subject!notify
  <2>2. event' # NULL => event' = e /\ e \in DOMAIN observers_
    BY <1>4 DEF Subject!notify
  <2>3. e \in DOMAIN observers_ => Len(observers_[e]) \in Nat /\ SubSeq(observers_[e], 1, 0) = <<>>
    BY DEF SubjectInv, SubjectHas, Ranked
  <2> QED
    BY <1>1, <2>1, <2>2, <2>3 DEF SubjectInv
<1>5. CASE Subject!CallObserver
  <2>1. /\ UNCHANGED <<observers_, history, event>> /\ event # NULL
        /\ obs < Len(observers_[event]) /\ obs' = obs + 1
        /\ called' = Append(called, observers_[event][obs + 1])
    BY <1>5 DEF Subject!CallObserver
  <2>2. PICK s \in Seq(Objects), k \in Nat : s = observers_[event] /\ k = obs /\ k < Len(s)
    BY <2>1 DEF SubjectInv, SubjectHas, Ranked
  <2>3. Append(SubSeq(s, 1, k), s[k + 1]) = SubSeq(s, 1, k + 1)
    BY <2>2
  <2>4. called' = SubSeq(observers_'[event'], 1, obs') /\ obs' \in 0 .. Len(observers_'[event'])
    BY <2>1, <2>2, <2>3 DEF SubjectInv
  <2> QED
    BY <1>1, <2>1, <2>4 DEF SubjectInv
<1>6. CASE Subject!Return
  BY <1>1, <1>6 DEF SubjectInv, Subject!Return
<1> QED
  BY <1>2, <1>3, <1>4, <1>5, <1>6 DEF Subject!Next

LEMMA SubjectCalls == SubjectInv => Subject!ObserversAreCalled
<1>1. \A S : Subject!Cardinality(S) = Cardinality(S)
  BY DEF Subject!Cardinality, Cardinality
<1> QED
  BY <1>1 DEF SubjectInv, SubjectHas, Ranked, Subject!ObserversAreCalled

(* What is registered is what comes about, for any identifiers, types and  *)
(* sizes of messages, units and works, events and observers, and in        *)
(* whatever order they are registered.                                     *)
THEOREM DispatchedAsRegisteredHolds == Spec => DispatchedAsRegistered
<1>1. Init => MenuInv /\ SubjectInv
  BY MenuInit, SubjectInit
<1>2. MenuInv /\ SubjectInv /\ [Next]_vars => (MenuInv /\ SubjectInv)'
  BY MenuNext, SubjectNext
<1>3. MenuInv /\ SubjectInv => Menu!SelectedUnitRuns /\ Subject!ObserversAreCalled
  BY MenuSelects, SubjectCalls
<1>4. Spec => [](Menu!SelectedUnitRuns /\ Subject!ObserversAreCalled)
  BY <1>1, <1>2, <1>3, PTL DEF Spec
<1> QED
  BY <1>4, DispatcherDispatches DEF DispatchedAsRegistered
-----------------------------------------------------------------------------
(* Ledger: the sum over a set, which the community modules define by a     *)
(* recursion over its subsets, is that of any of its elements and the rest. *)
LEMMA SetInduction ==
  ASSUME NEW S, 0 \in S, \A n \in Nat : n \in S => n + 1 \in S
  PROVE  Nat \subseteq S
<1> SUFFICES ASSUME Nat \ S # {} PROVE FALSE
  OBVIOUS
<1>1. PICK x \in Nat \ S : \A y \in Nat \ S : ~(<<y, x>> \in OpToRel(<, Nat))
  BY NatLessThanWellFounded, WFMin
<1>2. x # 0 /\ x - 1 \in Nat /\ x - 1 + 1 = x
  OBVIOUS
<1>3. <<x - 1, x>> \in OpToRel(<, Nat)
  BY <1>2 DEF OpToRel
<1> QED
  BY <1>1, <1>2, <1>3

(* The recursion of SumFunctionOnSet over the subsets of S.                *)
Chosen(s) == CHOOSE x \in s : TRUE
SumStep(g, f, s) == IF s = {} THEN 0 ELSE f[Chosen(s)] + g[s \ {Chosen(s)}]
Summed(g, f, S) == [s \in SUBSET S |-> SumStep(g, f, s)]

LEMMA ChosenIsLess ==
  ASSUME NEW S, IsFiniteSet(S), NEW x \in S
  PROVE  /\ IsFiniteSet(S \ {x}) /\ Cardinality(S) \in Nat
         /\ Cardinality(S \ {x}) = Cardinality(S) - 1
         /\ Chosen(S) \in S
<1>1. \E y : y \in S
  OBVIOUS
<1>2. Chosen(S) \in S
  BY <1>1 DEF Chosen
<1> QED
  BY <1>2, FS_RemoveElement, FS_CardinalityType

(* As far as the subsets of n elements.                                    *)
SummedTo(g, f, S, n) ==
  /\ g = [s \in SUBSET S |-> g[s]]
  /\ \A s \in SUBSET S : Cardinality(s) <= n => g[s] = SumStep(g, f, s)

LEMMA SummedExists ==
  ASSUME NEW S, IsFiniteSet(S), NEW f
  PROVE  \E g : g = Summed(g, f, S)
<1> DEFINE N == {n \in Nat : \E g : SummedTo(g, f, S, n)}
<1>0. \A s \in SUBSET S : IsFiniteSet(s) /\ Cardinality(s) \in Nat
  BY FS_Subset, FS_CardinalityType
<1>1. 0 \in N
  <2> DEFINE g == [s \in SUBSET S |-> 0]
  <2>1. \A s \in SUBSET S : Cardinality(s) <= 0 => s = {}
    BY <1>0, FS_EmptySet
  <2>2. \A s \in SUBSET S : Cardinality(s) <= 0 => g[s] = SumStep(g, f, s)
    BY <2>1 DEF SumStep
  <2>3. g = [s \in SUBSET S |-> g[s]]
    OBVIOUS
  <2> HIDE DEF g
  <2> QED
    BY <2>2, <2>3 DEF SummedTo
<1>2. ASSUME NEW n \in Nat, n \in N PROVE n + 1 \in N
  <2>1. PICK g : SummedTo(g, f, S, n)
    BY <1>2
  <2> DEFINE h == [s \in SUBSET S |-> IF Cardinality(s) = n + 1 THEN SumStep(g, f, s) ELSE g[s]]
  <2>2. ASSUME NEW s \in SUBSET S, Cardinality(s) <= n + 1 PROVE h[s] = SumStep(h, f, s)
    <3>1. h[s] = SumStep(g, f, s)
      <4>1. CASE Cardinality(s) = n + 1
        BY <4>1
      <4>2. CASE Cardinality(s) <= n
        <5>1. h[s] = g[s]
          BY <4>2
        <5> HIDE DEF h
        <5> QED
          BY <2>1, <4>2, <5>1 DEF SummedTo
      <4> QED
        BY <1>0, <2>2, <4>1, <4>2
    <3>2. ASSUME s # {} PROVE h[s \ {Chosen(s)}] = g[s \ {Chosen(s)}]
      <4>1. PICK t \in SUBSET S : t = s \ {Chosen(s)}
        OBVIOUS
      <4>2. Cardinality(t) = Cardinality(s) - 1 /\ Cardinality(s) \in Nat
        BY <1>0, <3>2, <4>1, ChosenIsLess
      <4>3. Cardinality(t) # n + 1
        BY <2>2, <4>2
      <4> QED
        BY <4>1, <4>3
    <3> HIDE DEF h
    <3> QED
      BY <3>1, <3>2 DEF SumStep
  <2>3. h = [s \in SUBSET S |-> h[s]]
    OBVIOUS
  <2> HIDE DEF h
  <2>4. SummedTo(h, f, S, n + 1)
    BY <2>2, <2>3, Zenon DEF SummedTo
  <2> QED
    BY <2>4
<1>3. Cardinality(S) \in N
  <2> HIDE DEF N
  <2> QED
    BY <1>1, <1>2, SetInduction, FS_CardinalityType
<1>4. PICK g : SummedTo(g, f, S, Cardinality(S))
  BY <1>3
<1>5. \A s \in SUBSET S : g[s] = SumStep(g, f, s)
  BY <1>4, FS_Subset DEF SummedTo
<1> QED
  BY <1>4, <1>5 DEF Summed, SummedTo

LEMMA SumIsSummed ==
  ASSUME NEW S, IsFiniteSet(S), NEW f
  PROVE  \E g : g = Summed(g, f, S) /\ Household!SumFunctionOnSet(f, S) = g[S]
<1> DEFINE iter == CHOOSE g : g = Summed(g, f, S)
<1>1. iter = Summed(iter, f, S)
  BY SummedExists
<1>2. Household!SumFunctionOnSet(f, S) = iter[S]
  BY DEF Household!SumFunctionOnSet, Household!FoldFunctionOnSet, Household!MapThenFoldSet,
         Summed, SumStep, Chosen
<1> QED
  BY <1>1, <1>2

(* Whatever element of a set is taken first.                               *)
TakesAny(g, f, s) ==
  /\ g[s] \in Int
  /\ \A x \in s : g[s] = f[x] + g[s \ {x}]

LEMMA SummedAny ==
  ASSUME NEW S, IsFiniteSet(S), NEW f, \A x \in S : f[x] \in Int,
         NEW g, g = Summed(g, f, S)
  PROVE  \A s \in SUBSET S : TakesAny(g, f, s)
<1> DEFINE N == {n \in Nat : \A s \in SUBSET S : Cardinality(s) <= n => TakesAny(g, f, s)}
<1>1. \A s \in SUBSET S : IsFiniteSet(s) /\ Cardinality(s) \in Nat
  BY FS_Subset, FS_CardinalityType
<1>2. \A s \in SUBSET S : g[s] = SumStep(g, f, s)
  <2>1. \A s \in SUBSET S : Summed(g, f, S)[s] = SumStep(g, f, s)
    BY DEF Summed
  <2> QED
    BY <2>1
<1>3. 0 \in N
  <2>1. \A s \in SUBSET S : Cardinality(s) <= 0 => s = {}
    BY <1>1, FS_EmptySet
  <2>2. g[{}] = 0
    BY <1>2 DEF SumStep
  <2>3. TakesAny(g, f, {})
    BY <2>2 DEF TakesAny
  <2> QED
    BY <2>1, <2>3
<1>4. ASSUME NEW n \in Nat, n \in N PROVE n + 1 \in N
  <2>1. \A t \in SUBSET S : Cardinality(t) <= n => TakesAny(g, f, t)
    BY <1>4
  <2>2. ASSUME NEW s \in SUBSET S, Cardinality(s) = n + 1 PROVE TakesAny(g, f, s)
    <3>1. ASSUME NEW x \in s
          PROVE  /\ Cardinality(s \ {x}) = n /\ s \ {x} \in SUBSET S
                 /\ TakesAny(g, f, s \ {x}) /\ f[x] \in Int
      <4>1. Cardinality(s \ {x}) = n /\ s \ {x} \in SUBSET S
        BY <1>1, <2>2, ChosenIsLess
      <4> QED
        BY <2>1, <4>1
    <3> DEFINE c == Chosen(s)
    <3>2. s # {}
      BY <2>2, FS_EmptySet
    <3>3. c \in s
      BY <1>1, <3>2, ChosenIsLess
    <3>4. g[s] = f[c] + g[s \ {c}]
      BY <1>2, <3>2 DEF SumStep
    <3> HIDE DEF c
    <3>5. ASSUME NEW x \in s, x # c PROVE g[s] = f[x] + g[s \ {x}]
      <4> DEFINE both == (s \ {c}) \ {x}
      <4>1. g[s \ {c}] = f[x] + g[both]
        BY <3>1, <3>3, <3>5 DEF TakesAny
      <4>2. g[s \ {x}] = f[c] + g[both]
        <5>1. both = (s \ {x}) \ {c}
          OBVIOUS
        <5> HIDE DEF both
        <5> QED
          BY <3>1, <3>3, <3>5, <5>1 DEF TakesAny
      <4>3. g[both] \in Int
        <5>1. PICK t \in SUBSET S : t = s \ {c}
          OBVIOUS
        <5>2. x \in t /\ IsFiniteSet(t) /\ Cardinality(t) = n
          BY <1>1, <3>1, <3>3, <3>5, <5>1
        <5>3. Cardinality(t \ {x}) <= n
          BY <5>2, ChosenIsLess
        <5> QED
          BY <2>1, <5>1, <5>3 DEF TakesAny
      <4> HIDE DEF both
      <4> QED
        BY <3>1, <3>3, <3>4, <4>1, <4>2, <4>3
    <3>6. g[s] \in Int
      <4>1. g[s \ {c}] \in Int /\ f[c] \in Int
        BY <3>1, <3>3, Zenon DEF TakesAny
      <4> QED
        BY <3>4, <4>1
    <3>7. \A x \in s : g[s] = f[x] + g[s \ {x}]
      BY <3>4, <3>5
    <3> QED
      BY <3>6, <3>7 DEF TakesAny
  <2> QED
    BY <1>1, <2>1, <2>2
<1>5. Cardinality(S) \in N
  <2> HIDE DEF N
  <2> QED
    BY <1>3, <1>4, SetInduction, FS_CardinalityType
<1>6. \A s \in SUBSET S : Cardinality(s) <= Cardinality(S)
  BY FS_Subset
<1> QED
  BY <1>5, <1>6

(* The sums of two functions over a set on which they agree are the same.  *)
LEMMA SummedSame ==
  ASSUME NEW S, IsFiniteSet(S), NEW f, \A x \in S : f[x] \in Int,
         NEW g, g = Summed(g, f, S),
         NEW T \in SUBSET S, NEW e, \A x \in T : e[x] = f[x],
         NEW h, h = Summed(h, e, T)
  PROVE  h[T] = g[T]
<1> DEFINE N == {n \in Nat : \A s \in SUBSET T : Cardinality(s) <= n => h[s] = g[s]}
<1>1. IsFiniteSet(T) /\ \A s \in SUBSET T : IsFiniteSet(s) /\ Cardinality(s) \in Nat
  BY FS_Subset, FS_CardinalityType
<1>2. /\ \A s \in SUBSET S : g[s] = SumStep(g, f, s)
      /\ \A s \in SUBSET T : h[s] = SumStep(h, e, s)
  <2>1. /\ \A s \in SUBSET S : Summed(g, f, S)[s] = SumStep(g, f, s)
        /\ \A s \in SUBSET T : Summed(h, e, T)[s] = SumStep(h, e, s)
    BY DEF Summed
  <2> QED
    BY <2>1
<1>3. 0 \in N
  <2>1. \A s \in SUBSET T : Cardinality(s) <= 0 => s = {}
    BY <1>1, FS_EmptySet
  <2>2. g[{}] = 0 /\ h[{}] = 0
    BY <1>2 DEF SumStep
  <2> QED
    BY <2>1, <2>2
<1>4. ASSUME NEW n \in Nat, n \in N PROVE n + 1 \in N
  <2>1. \A t \in SUBSET T : Cardinality(t) <= n => h[t] = g[t]
    BY <1>4
  <2>2. ASSUME NEW s \in SUBSET T, Cardinality(s) = n + 1 PROVE h[s] = g[s]
    <3> DEFINE c == Chosen(s)
    <3>1. s # {}
      BY <2>2, FS_EmptySet
    <3>2. c \in s /\ Cardinality(s \ {c}) = n
      <4>1. c \in s
        BY <1>1, <3>1, ChosenIsLess
      <4> HIDE DEF c
      <4>2. Cardinality(s \ {c}) = Cardinality(s) - 1
        BY <1>1, <4>1, ChosenIsLess
      <4> QED
        BY <2>2, <4>1, <4>2
    <3>3. h[s \ {c}] = g[s \ {c}] /\ e[c] = f[c]
      BY <2>1, <3>2
    <3>4. g[s] = f[c] + g[s \ {c}] /\ h[s] = e[c] + h[s \ {c}]
      BY <1>2, <3>1 DEF SumStep
    <3> QED
      BY <3>3, <3>4
  <2> QED
    BY <1>1, <2>1, <2>2
<1>5. Cardinality(T) \in N
  <2> HIDE DEF N
  <2> QED
    BY <1>1, <1>3, <1>4, SetInduction, FS_CardinalityType
<1> QED
  BY <1>5, <1>1

LEMMA SumEmpty == ASSUME NEW f PROVE Household!SumFunctionOnSet(f, {}) = 0
<1>1. PICK g : g = Summed(g, f, {}) /\ Household!SumFunctionOnSet(f, {}) = g[{}]
  BY SumIsSummed, FS_EmptySet
<1>2. Summed(g, f, {})[{}] = 0
  BY DEF Summed, SumStep
<1> QED
  BY <1>1, <1>2

LEMMA SumWithout ==
  ASSUME NEW S, IsFiniteSet(S), NEW f, \A x \in S : f[x] \in Int,
         NEW x \in S, NEW e, \A y \in S \ {x} : e[y] = f[y]
  PROVE  /\ Household!SumFunctionOnSet(f, S) = f[x] + Household!SumFunctionOnSet(e, S \ {x})
         /\ Household!SumFunctionOnSet(f, S) \in Int
         /\ Household!SumFunctionOnSet(e, S \ {x}) \in Int
<1>1. PICK g : g = Summed(g, f, S) /\ Household!SumFunctionOnSet(f, S) = g[S]
  BY SumIsSummed
<1>2. PICK T \in SUBSET S : T = S \ {x}
  OBVIOUS
<1>3. IsFiniteSet(T)
  BY FS_Subset
<1>4. PICK h : h = Summed(h, e, T) /\ Household!SumFunctionOnSet(e, T) = h[T]
  BY <1>3, SumIsSummed
<1>5. h[T] = g[T]
  BY <1>1, <1>2, <1>4, SummedSame
<1>6. TakesAny(g, f, S) /\ TakesAny(g, f, T)
  BY <1>1, SummedAny
<1> QED
  BY <1>1, <1>2, <1>4, <1>5, <1>6 DEF TakesAny
-----------------------------------------------------------------------------
(* Ledger: its steps, whatever the others do.                              *)
LEMMA HouseholdSteps == [Next]_vars => [Household!Next]_ledgerVars
<1> SUFFICES ASSUME [Next]_vars PROVE Household!Next \/ UNCHANGED ledgerVars
  OBVIOUS
<1>1. CASE LedgerStep
  BY <1>1 DEF LedgerStep
<1> QED
  BY <1>1 DEF Next, vars, Only, PoolStep, DispatcherStep, BlobStep, FlagStep, TextStep,
              AssignStep, EventsStep, QueueStep, ScrollStep, MenuStep, SubjectStep

Entries == [flag : 0 .. 2, year : Years \union {0}, day : {0, 1}, money : Int]

(* A sum of entries is that of any others with the same money.             *)
LEMMA SumOfSame ==
  ASSUME NEW f, NEW g, NEW S, \A i \in S : f[i].money = g[i].money
  PROVE  Household!SumOf(f, S) = Household!SumOf(g, S)
<1>1. [i \in S |-> f[i].money] = [i \in S |-> g[i].money]
  OBVIOUS
<1> QED
  BY <1>1 DEF Household!SumOf

LEMMA SumOfNone == ASSUME NEW f PROVE Household!SumOf(f, {}) = 0
BY SumEmpty DEF Household!SumOf

(* With one entry more.                                                    *)
LEMMA SumOfOneMore ==
  ASSUME NEW f, NEW g, NEW S, IsFiniteSet(S), NEW x, x \notin S,
         \A i \in S : f[i].money \in Int /\ g[i].money = f[i].money, g[x].money \in Int
  PROVE  Household!SumOf(g, S \union {x}) = g[x].money + Household!SumOf(f, S)
<1> DEFINE more == [i \in S \union {x} |-> g[i].money]
           less == [i \in S |-> f[i].money]
<1>1. PICK T : T = S \union {x} /\ IsFiniteSet(T) /\ x \in T /\ T \ {x} = S
  <2>1. IsFiniteSet(S \union {x})
    BY FS_AddElement
  <2>2. (S \union {x}) \ {x} = S
    OBVIOUS
  <2> QED
    BY <2>1, <2>2
<1>2. /\ \A i \in T : more[i] \in Int
      /\ \A i \in T \ {x} : less[i] = more[i]
      /\ more[x] = g[x].money
  BY <1>1
<1>3. Household!SumOf(g, T) = Household!SumFunctionOnSet(more, T)
      /\ Household!SumOf(f, S) = Household!SumFunctionOnSet(less, S)
  BY <1>1 DEF Household!SumOf
<1> HIDE DEF more, less
<1> QED
  BY <1>1, <1>2, <1>3, SumWithout

(* What the lists of entries add up to is an integer.                      *)
LEMMA SumOfInt ==
  ASSUME NEW f, NEW S, IsFiniteSet(S), \A i \in S : f[i].money \in Int
  PROVE  Household!SumOf(f, S) \in Int
<1>1. CASE S = {}
  BY <1>1, SumOfNone
<1>2. CASE S # {}
  <2> DEFINE g == [i \in S |-> f[i].money]
  <2>1. PICK x : x \in S
    BY <1>2
  <2>2. \A i \in S : g[i] \in Int
    OBVIOUS
  <2>3. Household!SumOf(f, S) = Household!SumFunctionOnSet(g, S)
    BY DEF Household!SumOf
  <2> HIDE DEF g
  <2> QED
    BY <2>1, <2>2, <2>3, SumWithout
<1> QED
  BY <1>1, <1>2

(* As long as every entry was given a day and no saved file was read: an   *)
(* entry without a flag has no amount, the slots that are free have no     *)
(* flag, so that no list has them, and the total is the one of the lists.  *)
SlotInv(e) == e \in Entries /\ (e.day = 0 => e.flag = 0) /\ (e.flag = 0 => e.money = 0)

SlotsInv ==
  /\ mo = [i \in Household!Slots |-> mo[i]]
  /\ \A i \in Household!Slots : SlotInv(mo[i])

LedgerInv ==
  ~undated /\ ~reread =>
    /\ SlotsInv
    /\ total = Household!SumOf(mo, Household!fnIncome)
                 - Household!SumOf(mo, Household!fnDisburse)

LEMMA ListsAreFinite ==
  /\ IsFiniteSet(Household!Slots)
  /\ IsFiniteSet(Household!fnIncome) /\ IsFiniteSet(Household!fnDisburse)
<1>1. IsFiniteSet(Household!Slots)
  BY LedgerAssumption, FS_Interval DEF Household!Slots
<1>2. Household!fnIncome \subseteq Household!Slots /\ Household!fnDisburse \subseteq Household!Slots
  BY DEF Household!fnIncome, Household!fnDisburse
<1> QED
  BY <1>1, <1>2, FS_Subset

LEMMA NoEntryFits == SlotInv(Household!NoEntry) /\ Household!NoEntry.flag = 0
BY DEF SlotInv, Household!NoEntry, Entries

LEMMA LedgerInit == Init => LedgerInv
<1> SUFFICES ASSUME Init PROVE LedgerInv
  OBVIOUS
<1>1. /\ mo = [i \in Household!Slots |-> Household!NoEntry] /\ total = 0 /\ file = NULL
  BY DEF Init, Household!Init
<1>2. SlotsInv /\ \A i \in Household!Slots : mo[i].flag = 0
  BY <1>1, NoEntryFits DEF SlotsInv
<1>3. Household!fnIncome = {} /\ Household!fnDisburse = {}
  BY <1>2 DEF Household!fnIncome, Household!fnDisburse, Household!Income, Household!Expense
<1> QED
  BY <1>1, <1>2, <1>3, SumOfNone DEF LedgerInv

LEMMA LedgerShown == ASSUME LedgerInv, NEW year \in Years, Household!fnShow(year) PROVE LedgerInv'
<1> SUFFICES ASSUME ~undated, ~reread PROVE LedgerInv'
  BY DEF LedgerInv, Household!fnShow
<1>1. /\ mo' = [i \in Household!Slots |->
                  IF mo[i].day = 0 THEN mo[i] ELSE [mo[i] EXCEPT !.year = year]]
      /\ UNCHANGED total
  BY DEF Household!fnShow
<1>2. ASSUME NEW i \in Household!Slots
      PROVE  SlotInv(mo'[i]) /\ mo'[i].money = mo[i].money /\ mo'[i].flag = mo[i].flag
  <2>1. SlotInv(mo[i]) /\ mo'[i] = IF mo[i].day = 0 THEN mo[i] ELSE [mo[i] EXCEPT !.year = year]
    BY <1>1 DEF LedgerInv, SlotsInv
  <2> QED
    BY <2>1 DEF SlotInv, Entries
<1>3. SlotsInv'
  BY <1>1, <1>2 DEF SlotsInv
<1>4. Household!fnIncome' = Household!fnIncome /\ Household!fnDisburse' = Household!fnDisburse
  BY <1>2 DEF Household!fnIncome, Household!fnDisburse
<1>5. ASSUME NEW S, S \subseteq Household!Slots
      PROVE  Household!SumOf(mo', S) = Household!SumOf(mo, S)
  BY <1>2, <1>5, SumOfSame
<1>6. /\ Household!SumOf(mo', Household!fnIncome') = Household!SumOf(mo, Household!fnIncome)
      /\ Household!SumOf(mo', Household!fnDisburse') = Household!SumOf(mo, Household!fnDisburse)
  BY <1>4, <1>5 DEF Household!fnIncome, Household!fnDisburse
<1> QED
  BY <1>1, <1>2, <1>3, <1>6 DEF LedgerInv

(* An entry in a slot that was free is one more of the list of its kind.   *)
LEMMA LedgerEntered ==
  ASSUME LedgerInv, NEW year \in Years, NEW day \in {0, 1}, NEW choice \in 1 .. 3,
         NEW money \in Amounts, Household!fnInput(year, day, choice, money)
  PROVE  LedgerInv'
<1> SUFFICES ASSUME ~undated, day # 0, ~reread PROVE LedgerInv'
  BY DEF LedgerInv, Household!fnInput
<1> USE DEF LedgerInv
<1>1. money \in Int
  BY LedgerAssumption
<1>2. CASE \A i \in Household!Slots : mo[i].day # 0
  <2>1. UNCHANGED <<mo, total>>
    BY <1>2 DEF Household!fnInput
  <2> QED
    BY <2>1 DEF SlotsInv, Household!fnIncome, Household!fnDisburse
<1>3. ASSUME NEW x \in Household!Slots, mo[x].day = 0,
             \/ choice \in 1 .. 2 /\ Household!Enter(x, year, day, choice, money)
             \/ Household!BadChoice(x, year, day) /\ choice = 3
      PROVE  LedgerInv'
  <2>1. /\ SlotsInv /\ SlotInv(mo[x]) /\ mo[x].flag = 0 /\ mo[x].money = 0 /\ mo[x] \in Entries
        /\ x \notin Household!fnIncome /\ x \notin Household!fnDisburse
    <3>1. SlotsInv /\ SlotInv(mo[x])
      BY DEF SlotsInv
    <3>2. mo[x].flag = 0 /\ mo[x].money = 0 /\ mo[x] \in Entries
      BY <1>3, <3>1 DEF SlotInv
    <3> QED
      BY <3>1, <3>2 DEF Household!fnIncome, Household!fnDisburse, Household!Income,
                        Household!Expense
  <2>2. /\ SlotInv(mo'[x]) /\ mo' = [mo EXCEPT ![x] = mo'[x]]
        /\ \/ /\ choice = 1 /\ mo'[x].flag = 1 /\ mo'[x].money = money /\ total' = total + money
           \/ /\ choice = 2 /\ mo'[x].flag = 2 /\ mo'[x].money = money /\ total' = total - money
           \/ mo'[x].flag = 0 /\ total' = total
    <3>0. mo = [i \in Household!Slots |-> mo[i]]
      BY <2>1 DEF SlotsInv
    <3>1. CASE choice \in 1 .. 2 /\ Household!Enter(x, year, day, choice, money)
      <4>1. mo'[x] = [flag |-> choice, year |-> year, day |-> day, money |-> money]
        BY <3>0, <3>1 DEF Household!Enter
      <4>2. SlotInv(mo'[x])
        BY <1>1, <3>1, <4>1 DEF SlotInv, Entries
      <4> QED
        BY <3>0, <3>1, <4>1, <4>2 DEF Household!Enter, Household!Income
    <3>2. CASE Household!BadChoice(x, year, day)
      <4>1. mo'[x] = [mo[x] EXCEPT !.year = year, !.day = day]
        BY <3>0, <3>2 DEF Household!BadChoice
      <4>2. SlotInv(mo'[x]) /\ mo'[x].flag = 0
        BY <2>1, <4>1 DEF SlotInv, Entries
      <4>3. mo' = [mo EXCEPT ![x] = mo'[x]]
        BY <3>0, <3>2, <4>1 DEF Household!BadChoice
      <4> QED
        BY <3>2, <4>2, <4>3 DEF Household!BadChoice
    <3> QED
      BY <1>3, <3>1, <3>2
  <2>3. SlotsInv' /\ \A i \in Household!Slots \ {x} : mo'[i] = mo[i]
    <3>1. mo = [i \in Household!Slots |-> mo[i]] /\ \A i \in Household!Slots : SlotInv(mo[i])
      BY <2>1 DEF SlotsInv
    <3>2. mo' = [i \in Household!Slots |-> mo'[i]] /\ \A i \in Household!Slots \ {x} : mo'[i] = mo[i]
      BY <2>2, <3>1
    <3> QED
      BY <2>2, <3>1, <3>2 DEF SlotsInv
  <2>4. /\ \A i \in Household!Slots : mo[i].money \in Int
        /\ mo'[x].money \in Int
    BY <2>1, <2>2 DEF SlotsInv, SlotInv, Entries
  <2>5. /\ Household!fnIncome' = IF mo'[x].flag = 1 THEN Household!fnIncome \union {x}
                                 ELSE Household!fnIncome
        /\ Household!fnDisburse' = IF mo'[x].flag = 2 THEN Household!fnDisburse \union {x}
                                   ELSE Household!fnDisburse
    BY <2>1, <2>3 DEF Household!fnIncome, Household!fnDisburse, Household!Income,
                      Household!Expense
  <2>6. ASSUME NEW S, S \subseteq Household!Slots, x \notin S
        PROVE  /\ Household!SumOf(mo', S) = Household!SumOf(mo, S)
               /\ Household!SumOf(mo, S) \in Int
               /\ Household!SumOf(mo', S \union {x}) = mo'[x].money + Household!SumOf(mo, S)
    <3>1. IsFiniteSet(S)
      BY <2>6, ListsAreFinite, FS_Subset
    <3>2. \A i \in S : mo[i].money \in Int /\ mo'[i].money = mo[i].money
      BY <2>3, <2>4, <2>6
    <3> QED
      BY <2>4, <2>6, <3>1, <3>2, SumOfSame, SumOfInt, SumOfOneMore
  <2>7. Household!fnIncome \subseteq Household!Slots /\ Household!fnDisburse \subseteq Household!Slots
    BY DEF Household!fnIncome, Household!fnDisburse
  <2> DEFINE income == Household!SumOf(mo, Household!fnIncome)
             disburse == Household!SumOf(mo, Household!fnDisburse)
  <2>8. /\ Household!SumOf(mo', Household!fnIncome') =
             IF mo'[x].flag = 1 THEN mo'[x].money + income ELSE income
        /\ Household!SumOf(mo', Household!fnDisburse') =
             IF mo'[x].flag = 2 THEN mo'[x].money + disburse ELSE disburse
        /\ income \in Int /\ disburse \in Int
    BY <2>1, <2>5, <2>6, <2>7
  <2>9. total = income - disburse
    OBVIOUS
  <2> HIDE DEF income, disburse
  <2>10. total' = Household!SumOf(mo', Household!fnIncome')
                    - Household!SumOf(mo', Household!fnDisburse')
    BY <1>1, <2>2, <2>8, <2>9
  <2> QED
    BY <2>3, <2>10
<1> QED
  <2>1. CASE \E i \in Household!Slots : mo[i].day = 0
    <3>1. PICK x \in Household!Slots :
            /\ Household!IsFirstFree(x)
            /\ IF choice \in {Household!Income, Household!Expense}
                 THEN Household!Enter(x, year, day, choice, money)
                 ELSE Household!BadChoice(x, year, day)
      BY <2>1 DEF Household!fnInput
    <3> QED
      BY <1>3, <3>1 DEF Household!IsFirstFree, Household!Income, Household!Expense
  <2> QED
    BY <1>2, <2>1

(* The next run starts with no entries.                                    *)
LEMMA LedgerSaved ==
  ASSUME LedgerInv, NEW fails \in BOOLEAN, Household!fnSave(fails) PROVE LedgerInv'
<1>1. mo' = [i \in Household!Slots |-> Household!NoEntry] /\ total' = 0
  BY DEF Household!fnSave
<1>2. SlotsInv' /\ \A i \in Household!Slots : mo'[i].flag = 0
  BY <1>1, NoEntryFits DEF SlotsInv
<1>3. Household!fnIncome' = {} /\ Household!fnDisburse' = {}
  BY <1>2 DEF Household!fnIncome, Household!fnDisburse, Household!Income, Household!Expense
<1> QED
  BY <1>1, <1>2, <1>3, SumOfNone DEF LedgerInv

LEMMA LedgerNext == LedgerInv /\ [Next]_vars => LedgerInv'
<1> SUFFICES ASSUME LedgerInv, Household!Next \/ UNCHANGED ledgerVars PROVE LedgerInv'
  BY HouseholdSteps
<1>1. CASE UNCHANGED ledgerVars
  BY <1>1 DEF ledgerVars, LedgerInv, SlotsInv, Household!fnIncome, Household!fnDisburse
<1>2. CASE Household!fnOpen
  <2>1. CASE file = NULL
    BY <1>2, <2>1 DEF Household!fnOpen, LedgerInv, SlotsInv, Household!fnIncome, Household!fnDisburse
  <2>2. CASE file # NULL
    BY <1>2, <2>2 DEF Household!fnOpen, LedgerInv
  <2> QED
    BY <2>1, <2>2
<1>3. CASE Household!fnMenu
  BY <1>3 DEF Household!fnMenu, LedgerInv, SlotsInv, Household!fnIncome, Household!fnDisburse
<1> QED
  BY <1>1, <1>2, <1>3, LedgerEntered, LedgerShown, LedgerSaved DEF Household!Next

(* For any number of entries, any years and any amounts: while every entry *)
(* is given a day and no saved file is read, the total is what the lists   *)
(* of income and expenses add up to, and the list of all entries has these *)
(* and no other amounts (fnInput, fnShow, fnPrint).                        *)
THEOREM LedgerBalancesHolds == Spec => []LedgerBalances
<1>1. Init => LedgerInv
  BY LedgerInit
<1>2. LedgerInv /\ [Next]_vars => LedgerInv'
  BY LedgerNext
<1>3. LedgerInv => LedgerBalances
  <2> SUFFICES ASSUME LedgerInv, ~undated, ~reread PROVE LedgerBalances
    BY DEF LedgerBalances, Household!LedgerBalances
  <2>1. PICK lines : lines = Household!fnPrint
    OBVIOUS
  <2>2. /\ DOMAIN lines = {i \in Household!Slots : mo[i].day # 0}
        /\ \A i \in DOMAIN lines : lines[i] = Household!Named(mo[i])
    BY <2>1 DEF Household!fnPrint
  <2>3. ASSUME NEW i \in DOMAIN lines
        PROVE  /\ mo[i].flag # 0 => lines[i].name = "income"
               /\ lines[i].money = mo[i].money
    <3>1. PICK line : line = Household!Named(mo[i])
      OBVIOUS
    <3>2. /\ mo[i].flag # 0 => line.name = "income"
          /\ line.money = mo[i].money
      BY <3>1 DEF Household!Named
    <3> QED
      BY <2>2, <3>1, <3>2
  <2>4. \A i \in Household!Slots : /\ SlotInv(mo[i])
                                   /\ mo[i].flag # 0 => i \in DOMAIN lines
    <3>1. SlotsInv
      BY DEF LedgerInv
    <3> QED
      BY <2>2, <3>1 DEF SlotsInv, SlotInv
  <2>5. /\ Household!fnIncome \union Household!fnDisburse \subseteq DOMAIN lines
        /\ \A i \in Household!fnIncome : lines[i].name = "income"
    BY <2>3, <2>4 DEF Household!fnIncome, Household!fnDisburse, Household!Income,
                      Household!Expense
  <2>6. ASSUME NEW i \in DOMAIN lines, i \notin Household!fnIncome, i \notin Household!fnDisburse
        PROVE  lines[i].money = 0
    <3>1. i \in Household!Slots /\ SlotInv(mo[i])
      BY <2>2, <2>4
    <3>2. mo[i].flag = 0
      BY <2>6, <3>1 DEF SlotInv, Entries, Household!fnIncome, Household!fnDisburse,
                        Household!Income, Household!Expense
    <3> QED
      BY <2>3, <3>1, <3>2 DEF SlotInv
  <2> QED
    BY <2>1, <2>5, <2>6 DEF LedgerInv, LedgerBalances, Household!LedgerBalances
<1> QED
  BY <1>1, <1>2, <1>3, PTL DEF Spec
-----------------------------------------------------------------------------
(* BLOBAgent: its steps, whatever the others do.                           *)
LEMMA BlobSteps == [Next]_vars => [Blob!Next]_blobVars
<1> SUFFICES ASSUME [Next]_vars PROVE Blob!Next \/ UNCHANGED blobVars
  OBVIOUS
<1>1. CASE BlobStep
  BY <1>1 DEF BlobStep
<1> QED
  BY <1>1 DEF Next, vars, Only, PoolStep, DispatcherStep, FlagStep, TextStep,
              AssignStep, EventsStep, QueueStep, ScrollStep, MenuStep, SubjectStep,
              LedgerStep

(* The versions that are assumed, and the empty one, before the first is   *)
(* saved.                                                                  *)
IsVersion(v) ==
  /\ v \in Seq([twoCC : Nat \ {0}, sizeOfData : Nat])
  /\ \A j, k \in DOMAIN v : v[j].twoCC = v[k].twoCC => j = k

LEMMA VersionFields ==
  ASSUME NEW v, IsVersion(v)
  PROVE  /\ Len(v) \in Nat /\ DOMAIN v = 1 .. Len(v)
         /\ \A k \in 1 .. Len(v) : /\ v[k] \in [twoCC : Nat \ {0}, sizeOfData : Nat]
                                   /\ v[k].twoCC \in Nat \ {0} /\ v[k].sizeOfData \in Nat
         /\ Blob!Range(v) = {v[k] : k \in 1 .. Len(v)}
         /\ Blob!TwoCCs(v) = {v[k].twoCC : k \in 1 .. Len(v)}
<1>1. /\ Len(v) \in Nat /\ DOMAIN v = 1 .. Len(v)
      /\ \A k \in 1 .. Len(v) : v[k] \in [twoCC : Nat \ {0}, sizeOfData : Nat]
  <2> DEFINE T == [twoCC : Nat \ {0}, sizeOfData : Nat]
  <2>1. v \in Seq(T)
    BY DEF IsVersion
  <2> HIDE DEF T
  <2>2. \A k \in 1 .. Len(v) : v[k] \in T
    BY <2>1, ElementOfSeq
  <2>3. Len(v) \in Nat /\ DOMAIN v = 1 .. Len(v)
    BY <2>1, LenProperties
  <2> QED
    BY <2>2, <2>3 DEF T
<1>2. Blob!Range(v) = {v[k] : k \in 1 .. Len(v)}
  BY <1>1 DEF Blob!Range
<1>3. Blob!TwoCCs(v) = {v[k].twoCC : k \in 1 .. Len(v)}
  BY <1>2 DEF Blob!TwoCCs
<1> QED
  BY <1>1, <1>2, <1>3

(* Sums and inequalities of positions.                                     *)
LEMMA Regrouped == \A a, b, c \in Nat : a + b + c = a + (b + c)
  OBVIOUS
LEMMA NoneBetween == \A a, b, c \in Nat : ~(a <= b /\ b < c /\ c <= a)
  OBVIOUS
LEMMA NextPositions ==
  \A m, q, n \in Nat : q < n => /\ q + 1 \in 1 .. n /\ m + q + 1 = m + (q + 1)
                               /\ m + q + 2 = m + (q + 2)
  OBVIOUS
LEMMA LaterPositions ==
  \A k, c, n, j \in Nat :
    c + j <= n => /\ k + c + j <= k + n /\ k + c + j = k + (c + j)
                  /\ \A i \in 1 .. j : c + i \in 1 .. n /\ k + c + i = k + (c + i)
  OBVIOUS
LEMMA PlaceInPiece ==
  \A a, n, i \in Nat : a <= i - 1 /\ i - 1 < a + n
                         => i - 1 - a + 1 \in 1 .. n /\ a + (i - 1 - a + 1) = i
  OBVIOUS

(* The recursion of Ends is well defined.                                  *)
Ending(e, v, n) ==
  [k \in 0 .. n |-> IF k = 0 THEN 0 ELSE e[k - 1] + Blob!sizeofHeader + v[k].sizeOfData]

LEMMA EndsStep ==
  ASSUME NEW v, NEW n \in Nat, NEW e, e = Ending(e, v, n)
  PROVE  \E d : d = Ending(d, v, n + 1)
<1> DEFINE d == [k \in 0 .. n + 1 |->
                   IF k # n + 1 THEN e[k] ELSE e[n] + Blob!sizeofHeader + v[k].sizeOfData]
<1>1. ASSUME NEW k \in 0 .. n + 1
      PROVE  d[k] = IF k = 0 THEN 0 ELSE d[k - 1] + Blob!sizeofHeader + v[k].sizeOfData
  <2>1. CASE k # n + 1
    <3>1. d[k] = e[k] /\ k \in 0 .. n /\ (k # 0 => d[k - 1] = e[k - 1])
      BY <2>1
    <3>2. e[k] = IF k = 0 THEN 0 ELSE e[k - 1] + Blob!sizeofHeader + v[k].sizeOfData
      BY <3>1 DEF Ending
    <3> HIDE DEF d
    <3> QED
      BY <3>1, <3>2
  <2>2. CASE k = n + 1
    <3>1. d[k] = e[n] + Blob!sizeofHeader + v[k].sizeOfData /\ k # 0 /\ d[k - 1] = e[n]
      BY <2>2
    <3> HIDE DEF d
    <3> QED
      BY <3>1
  <2> QED
    BY <2>1, <2>2
<1>2. d = [k \in 0 .. n + 1 |-> d[k]]
  OBVIOUS
<1> HIDE DEF d
<1>3. d = Ending(d, v, n + 1)
  BY <1>1, <1>2 DEF Ending
<1> QED
  BY <1>3

(* A record is at least a header long, and they do not overlap.            *)
LEMMA EndsGrow ==
  ASSUME NEW v, IsVersion(v)
  PROVE  /\ Blob!Ends(v)[0] = 0
         /\ \A k \in 0 .. Len(v) : Blob!Ends(v)[k] \in Nat /\ 2 * k <= Blob!Ends(v)[k]
         /\ \A k \in 1 .. Len(v) :
              Blob!Ends(v)[k] = Blob!Ends(v)[k - 1] + 2 + v[k].sizeOfData
         /\ \A j, k \in 0 .. Len(v) : j <= k => Blob!Ends(v)[j] <= Blob!Ends(v)[k]
<1> DEFINE S == {n \in Nat : \E e : e = Ending(e, v, n)}
           End == CHOOSE e : e = Ending(e, v, Len(v))
<1>1. 0 \in S
  <2> DEFINE e == [k \in 0 .. 0 |-> 0]
  <2>1. e = Ending(e, v, 0)
    BY DEF Ending
  <2> QED
    BY <2>1
<1>2. \A n \in Nat : n \in S => n + 1 \in S
  BY EndsStep
<1>3. Len(v) \in S
  <2> HIDE DEF S
  <2> QED
    BY <1>1, <1>2, SetInduction, VersionFields
<1>4. End = Ending(End, v, Len(v))
  BY <1>3
<1>5. Blob!Ends(v) = End
  BY DEF Blob!Ends, Ending
<1> HIDE DEF End, S
<1>6. Len(v) \in Nat /\ \A k \in 1 .. Len(v) : v[k].sizeOfData \in Nat
  BY VersionFields
<1>7. /\ End[0] = 0
      /\ \A k \in 1 .. Len(v) : End[k] = End[k - 1] + 2 + v[k].sizeOfData
  <2>1. \A k \in 0 .. Len(v) : End[k] = Ending(End, v, Len(v))[k]
    BY <1>4
  <2> QED
    BY <1>6, <2>1 DEF Ending, Blob!sizeofHeader
<1> DEFINE N == {n \in Nat : n <= Len(v) =>
                   /\ End[n] \in Nat /\ 2 * n <= End[n]
                   /\ \A j \in 0 .. n : End[j] \in Nat /\ End[j] <= End[n]}
<1>8. 0 \in N
  BY <1>7
<1>9. ASSUME NEW n \in Nat, n \in N PROVE n + 1 \in N
  <2> SUFFICES ASSUME n + 1 <= Len(v)
               PROVE  /\ End[n + 1] \in Nat /\ 2 * (n + 1) <= End[n + 1]
                      /\ \A j \in 0 .. n + 1 : End[j] \in Nat /\ End[j] <= End[n + 1]
    OBVIOUS
  <2>1. /\ End[n] \in Nat /\ 2 * n <= End[n] /\ \A j \in 0 .. n : End[j] <= End[n]
    BY <1>6, <1>9
  <2>2. End[n + 1] = End[n] + 2 + v[n + 1].sizeOfData /\ v[n + 1].sizeOfData \in Nat
    <3>1. n + 1 \in 1 .. Len(v) /\ (n + 1) - 1 = n
      BY <1>6
    <3> QED
      BY <1>6, <1>7, <3>1
  <2>3. \A j \in 0 .. n : End[j] \in Nat
    BY <1>6, <1>9
  <2>4. \A j \in 0 .. n + 1 : j \in 0 .. n \/ j = n + 1
    OBVIOUS
  <2>5. /\ End[n + 1] \in Nat /\ 2 * (n + 1) <= End[n + 1] /\ End[n] <= End[n + 1]
        /\ \A j \in Nat : j <= End[n] => j <= End[n + 1]
    BY <2>1, <2>2
  <2>6. ASSUME NEW j \in 0 .. n + 1 PROVE End[j] \in Nat /\ End[j] <= End[n + 1]
    <3>1. CASE j \in 0 .. n
      BY <2>1, <2>3, <2>5, <3>1, Zenon
    <3>2. CASE j = n + 1
      BY <2>5, <3>2
    <3> QED
      BY <2>4, <3>1, <3>2
  <2> QED
    BY <2>5, <2>6
<1>10. Nat \subseteq N
  <2> HIDE DEF N
  <2> QED
    BY <1>8, <1>9, SetInduction
<1> QED
  BY <1>5, <1>6, <1>7, <1>10

(* The cells of a record are its header and its data, ...                  *)
LEMMA BufferCell ==
  ASSUME NEW v, IsVersion(v), Blob!Compiles(v), NEW f, NEW leftover,
         NEW k \in 1 .. Len(v), NEW i \in 1 .. 2 + v[k].sizeOfData
  PROVE  /\ Blob!Ends(v)[k - 1] + i \in 1 .. MaxLen
         /\ Blob!Buffer(v, f, leftover)[Blob!Ends(v)[k - 1] + i] =
              Blob!Cell(v[k], f[v[k].twoCC], i)
<1> DEFINE End == Blob!Ends(v)
           cell == End[k - 1] + i
           Written == {m \in DOMAIN v : Blob!Holds(v, m, cell)}
<1>1. /\ Len(v) \in Nat /\ MaxLen \in Nat /\ DOMAIN v = 1 .. Len(v)
      /\ v[k].sizeOfData \in Nat
  BY VersionFields, VersionsAssumption
<1>2. /\ \A m \in 0 .. Len(v) : End[m] \in Nat
      /\ End[k] = End[k - 1] + 2 + v[k].sizeOfData
      /\ \A j, m \in 0 .. Len(v) : j <= m => End[j] <= End[m]
  BY EndsGrow
<1>3. End[Len(v)] < MaxLen
  BY DEF Blob!Compiles, Blob!lenOfData
<1> HIDE DEF End
<1>4. k - 1 \in 0 .. Len(v) /\ k \in 0 .. Len(v) /\ Len(v) \in 0 .. Len(v)
  BY <1>1
<1>5. /\ End[k - 1] \in Nat /\ End[k] \in Nat /\ End[k] <= End[Len(v)]
      /\ End[Len(v)] \in Nat
  BY <1>1, <1>2, <1>4
<1>6. /\ End[k - 1] < cell /\ cell <= End[k] /\ End[k] < MaxLen /\ cell \in 1 .. MaxLen
      /\ cell - End[k - 1] = i
  <2>1. \A a, b, c \in Nat : /\ b = a + 2 + v[k].sizeOfData /\ b <= c /\ c < MaxLen
                            => /\ a < a + i /\ a + i <= b /\ b < MaxLen
                               /\ a + i \in 1 .. MaxLen /\ (a + i) - a = i
    BY <1>1
  <2> QED
    BY <1>2, <1>3, <1>5, <2>1
<1> HIDE DEF cell
<1>7. ASSUME NEW m \in Written PROVE m = k
  <2>1. /\ m \in 1 .. Len(v) /\ m - 1 \in 0 .. Len(v) /\ m \in 0 .. Len(v)
        /\ End[m - 1] < cell /\ cell <= End[m]
    BY <1>1 DEF Blob!Holds, End
  <2>2. m <= k - 1 => End[m] <= End[k - 1]
    BY <1>2, <1>4, <2>1
  <2>3. k <= m - 1 => End[k] <= End[m - 1]
    BY <1>2, <1>4, <2>1
  <2>4. End[m] \in Nat /\ End[m - 1] \in Nat
    BY <1>2, <2>1
  <2>5. cell \in Nat
    BY <1>1, <1>6
  <2>6. ~(m <= k - 1) /\ ~(k <= m - 1)
    <3>1. ASSUME m <= k - 1 PROVE FALSE
      BY <1>5, <1>6, <2>1, <2>2, <2>4, <2>5, <3>1, NoneBetween, Zenon
    <3>2. ASSUME k <= m - 1 PROVE FALSE
      BY <1>5, <1>6, <2>1, <2>3, <2>4, <2>5, <3>2, NoneBetween, Zenon
    <3> QED
      BY <3>1, <3>2
  <2> QED
    BY <1>1, <2>1, <2>6
<1>8. k \in Written
  BY <1>1, <1>6 DEF Blob!Holds, End
<1>9. Written = {k}
  BY <1>7, <1>8
<1>10. Blob!Buffer(v, f, leftover)[cell] =
         IF Written = {} THEN leftover
         ELSE LET m == CHOOSE m \in Written : TRUE
              IN  Blob!Cell(v[m], f[v[m].twoCC], cell - End[m - 1])
  BY <1>6 DEF Blob!Buffer, End
<1>11. (CHOOSE m \in Written : TRUE) = k
  BY <1>9
<1> HIDE DEF Written
<1> QED
  BY <1>6, <1>8, <1>10, <1>11 DEF End, cell

(* ... and behind the last one nothing is written.                         *)
LEMMA BufferRest ==
  ASSUME NEW v, IsVersion(v), NEW f, NEW leftover,
         NEW i \in 1 .. MaxLen, Blob!Ends(v)[Len(v)] < i
  PROVE  Blob!Buffer(v, f, leftover)[i] = leftover
<1>1. Len(v) \in Nat /\ DOMAIN v = 1 .. Len(v) /\ MaxLen \in Nat
  BY VersionFields, VersionsAssumption
<1>2. ASSUME NEW m \in 1 .. Len(v) PROVE ~Blob!Holds(v, m, i)
  <2>1. Blob!Ends(v)[m] <= Blob!Ends(v)[Len(v)] /\ Blob!Ends(v)[m] \in Nat
        /\ Blob!Ends(v)[Len(v)] \in Nat
    BY <1>1, EndsGrow
  <2> QED
    BY <1>1, <2>1 DEF Blob!Holds
<1>3. {m \in DOMAIN v : Blob!Holds(v, m, i)} = {}
  BY <1>1, <1>2
<1> QED
  BY <1>3 DEF Blob!Buffer

(* The reader's recursion is well defined.                                 *)
Reading(r, dest, n) ==
  [k \in 0 .. n |-> IF k = 0 THEN [pCurr |-> 1, dest |-> dest] ELSE Blob!Advanced(r[k - 1])]

LEMMA ReadingStep ==
  ASSUME NEW dest, NEW n \in Nat, NEW r, r = Reading(r, dest, n)
  PROVE  \E d : d = Reading(d, dest, n + 1)
<1> DEFINE d == [k \in 0 .. n + 1 |-> IF k # n + 1 THEN r[k] ELSE Blob!Advanced(r[n])]
<1>1. ASSUME NEW k \in 0 .. n + 1
      PROVE  d[k] = IF k = 0 THEN [pCurr |-> 1, dest |-> dest] ELSE Blob!Advanced(d[k - 1])
  <2>1. CASE k # n + 1
    <3>1. d[k] = r[k] /\ k \in 0 .. n /\ (k # 0 => d[k - 1] = r[k - 1])
      BY <2>1
    <3>2. r[k] = IF k = 0 THEN [pCurr |-> 1, dest |-> dest] ELSE Blob!Advanced(r[k - 1])
      BY <3>1 DEF Reading
    <3> HIDE DEF d
    <3> QED
      BY <3>1, <3>2
  <2>2. CASE k = n + 1
    <3>1. d[k] = Blob!Advanced(r[n]) /\ k # 0 /\ d[k - 1] = r[n]
      BY <2>2
    <3> HIDE DEF d
    <3> QED
      BY <3>1
  <2> QED
    BY <2>1, <2>2
<1>2. d = [k \in 0 .. n + 1 |-> d[k]]
  OBVIOUS
<1> HIDE DEF d
<1>3. d = Reading(d, dest, n + 1)
  BY <1>1, <1>2 DEF Reading
<1> QED
  BY <1>3

LEMMA ReaderSteps ==
  ASSUME NEW dest
  PROVE  \E r : /\ r[0] = [pCurr |-> 1, dest |-> dest]
                /\ \A k \in 1 .. MaxLen : r[k] = Blob!Advanced(r[k - 1])
                /\ Blob!FromBLOB(dest) = r[MaxLen].dest
<1> DEFINE S == {n \in Nat : \E r : r = Reading(r, dest, n)}
           Reader == CHOOSE r : r = Reading(r, dest, MaxLen)
<1>1. 0 \in S
  <2> DEFINE r == [k \in 0 .. 0 |-> [pCurr |-> 1, dest |-> dest]]
  <2>1. r = Reading(r, dest, 0)
    BY DEF Reading
  <2> QED
    BY <2>1
<1>2. \A n \in Nat : n \in S => n + 1 \in S
  BY ReadingStep
<1>3. MaxLen \in S /\ MaxLen \in Nat
  <2> HIDE DEF S
  <2> QED
    BY <1>1, <1>2, SetInduction, VersionsAssumption
<1>4. Reader = Reading(Reader, dest, MaxLen)
  BY <1>3
<1>5. Blob!FromBLOB(dest) = Reader[MaxLen].dest
  BY DEF Blob!FromBLOB, Reading
<1> HIDE DEF Reader, S
<1>6. \A k \in 0 .. MaxLen : Reader[k] = Reading(Reader, dest, MaxLen)[k]
  BY <1>4
<1>7. /\ Reader[0] = [pCurr |-> 1, dest |-> dest]
      /\ \A k \in 1 .. MaxLen : Reader[k] = Blob!Advanced(Reader[k - 1])
  BY <1>3, <1>6 DEF Reading
<1> QED
  BY <1>5, <1>7

(* A field of a form has as many units as its version says.                *)
FieldsFit(f, v) ==
  /\ DOMAIN f = Blob!TwoCCs(v)
  /\ \A k \in 1 .. Len(v) : \E g : f[v[k].twoCC] = [i \in 1 .. v[k].sizeOfData |-> g[i]]

LEMMA ZeroFits == ASSUME NEW v, IsVersion(v) PROVE FieldsFit(Blob!Zero(v), v)
<1>1. ASSUME NEW k \in 1 .. Len(v) PROVE Blob!Size(v, v[k].twoCC) = v[k].sizeOfData
  <2>1. v[k] \in Blob!Range(v)
    BY VersionFields
  <2>2. \A info \in Blob!Range(v) : info.twoCC = v[k].twoCC => info = v[k]
    <3>1. ASSUME NEW j \in 1 .. Len(v), v[j].twoCC = v[k].twoCC PROVE v[j] = v[k]
      <4>1. DOMAIN v = 1 .. Len(v)
        BY VersionFields
      <4>2. j = k
        BY <3>1, <4>1 DEF IsVersion
      <4> QED
        BY <4>2
    <3>2. Blob!Range(v) = {v[j] : j \in 1 .. Len(v)}
      BY VersionFields
    <3> QED
      BY <3>1, <3>2
  <2> QED
    BY <2>1, <2>2 DEF Blob!Size
<1>2. DOMAIN Blob!Zero(v) = Blob!TwoCCs(v)
  BY DEF Blob!Zero
<1>3. ASSUME NEW k \in 1 .. Len(v)
      PROVE  \E g : Blob!Zero(v)[v[k].twoCC] = [i \in 1 .. v[k].sizeOfData |-> g[i]]
  <2> DEFINE g == [i \in 1 .. v[k].sizeOfData |-> 0]
  <2>1. v[k].twoCC \in Blob!TwoCCs(v)
    BY VersionFields
  <2>2. Blob!Zero(v)[v[k].twoCC] = g
    BY <1>1, <2>1 DEF Blob!Zero
  <2>3. g = [i \in 1 .. v[k].sizeOfData |-> g[i]]
    OBVIOUS
  <2> HIDE DEF g
  <2> QED
    BY <2>2, <2>3
<1> QED
  BY <1>2, <1>3 DEF FieldsFit

(* The buffer holds the version v with the form f, the rest is leftover.   *)
Encodes(v, f, leftover) ==
  /\ IsVersion(v) /\ Blob!Compiles(v) /\ FieldsFit(f, v)
  /\ blob = Blob!Buffer(v, f, leftover)

LEMMA RecordCells ==
  ASSUME NEW v, NEW f, NEW leftover, Encodes(v, f, leftover), NEW k \in 1 .. Len(v)
  PROVE  /\ blob[Blob!Ends(v)[k - 1] + 1] = v[k].twoCC
         /\ blob[Blob!Ends(v)[k - 1] + 2] = v[k].sizeOfData
         /\ \A i \in 1 .. v[k].sizeOfData :
              blob[Blob!Ends(v)[k - 1] + 2 + i] = f[v[k].twoCC][i]
<1>1. v[k].sizeOfData \in Nat /\ IsVersion(v) /\ Blob!Compiles(v)
  BY VersionFields DEF Encodes
<1>2. Blob!Ends(v)[k - 1] \in Nat
  <2>1. k - 1 \in 0 .. Len(v)
    BY <1>1, VersionFields
  <2> QED
    BY <1>1, <2>1, EndsGrow
<1>3. \A i \in 1 .. 2 + v[k].sizeOfData :
        blob[Blob!Ends(v)[k - 1] + i] = Blob!Cell(v[k], f[v[k].twoCC], i)
  BY <1>1, BufferCell DEF Encodes
<1>4. ASSUME NEW i \in 1 .. v[k].sizeOfData
      PROVE  blob[Blob!Ends(v)[k - 1] + 2 + i] = f[v[k].twoCC][i]
  <2>1. PICK j \in 1 .. 2 + v[k].sizeOfData : j = 2 + i
    BY <1>1
  <2>2. j # 1 /\ j # 2 /\ j - 2 = i
    BY <1>1, <2>1
  <2>3. Blob!Cell(v[k], f[v[k].twoCC], j) = f[v[k].twoCC][j - 2]
    BY <2>2 DEF Blob!Cell, Blob!sizeofHeader
  <2>4. Blob!Ends(v)[k - 1] + 2 + i = Blob!Ends(v)[k - 1] + j
    <3>1. i \in Nat /\ 2 \in Nat
      BY <1>1
    <3> QED
      BY <1>2, <2>1, <3>1, Regrouped, Zenon
  <2> QED
    BY <1>3, <2>2, <2>3, <2>4
<1>5. 1 \in 1 .. 2 + v[k].sizeOfData /\ 2 \in 1 .. 2 + v[k].sizeOfData
  BY <1>1
<1>6. /\ Blob!Cell(v[k], f[v[k].twoCC], 1) = v[k].twoCC
      /\ Blob!Cell(v[k], f[v[k].twoCC], 2) = v[k].sizeOfData
  BY DEF Blob!Cell
<1> QED
  BY <1>3, <1>4, <1>5, <1>6

(* What the form of the version d is when k records of v were read.        *)
LoadedUpto(dest, d, v, f, k) ==
  /\ DOMAIN dest = Blob!TwoCCs(d)
  /\ \A j \in 1 .. Len(d) :
       dest[d[j].twoCC] = IF \E m \in 1 .. k : v[m] = d[j] THEN f[d[j].twoCC]
                          ELSE Blob!Zero(d)[d[j].twoCC]

LEMMA RecordIsRead ==
  ASSUME NEW v, NEW f, NEW leftover, Encodes(v, f, leftover), IsVersion(DataInformations),
         NEW k \in 1 .. Len(v), NEW r, r.pCurr = Blob!Ends(v)[k - 1] + 1,
         LoadedUpto(r.dest, DataInformations, v, f, k - 1)
  PROVE  /\ Blob!Advanced(r).pCurr = Blob!Ends(v)[k] + 1
         /\ LoadedUpto(Blob!Advanced(r).dest, DataInformations, v, f, k)
<1> DEFINE end == Blob!Ends(v)[k - 1]
           cc == v[k].twoCC
           size == v[k].sizeOfData
<1>1. /\ IsVersion(v) /\ Blob!Compiles(v) /\ MaxLen \in Nat /\ Len(v) \in Nat
      /\ cc \in Nat \ {0} /\ size \in Nat
      /\ v[k] \in [twoCC : Nat \ {0}, sizeOfData : Nat]
  BY VersionFields, VersionsAssumption DEF Encodes
<1>2. /\ end \in Nat /\ Blob!Ends(v)[k] = end + 2 + size /\ end + 2 + size < MaxLen
  <2>1. /\ k - 1 \in 0 .. Len(v) /\ k \in 0 .. Len(v) /\ Len(v) \in 0 .. Len(v) /\ k <= Len(v)
    BY <1>1
  <2>2. /\ end \in Nat /\ Blob!Ends(v)[k] = end + 2 + size
        /\ Blob!Ends(v)[k] <= Blob!Ends(v)[Len(v)] /\ Blob!Ends(v)[Len(v)] \in Nat
    BY <1>1, <2>1, EndsGrow
  <2>3. Blob!Ends(v)[Len(v)] < MaxLen
    BY <1>1 DEF Blob!Compiles, Blob!lenOfData
  <2> HIDE DEF end, size
  <2> QED
    BY <1>1, <2>2, <2>3
<1>3. blob[end + 1] = cc /\ blob[end + 2] = size /\ (end + 1) + 1 = end + 2
  BY <1>2, RecordCells
<1>4. ~Blob!AtEnd(r.pCurr)
  <2> HIDE DEF end, cc, size
  <2>1. /\ ~((end + 1) + 2 > MaxLen) /\ cc # 0 /\ ~((end + 1) + 2 + size > MaxLen + 1)
    BY <1>1, <1>2
  <2>2. r.pCurr = end + 1
    BY DEF end
  <2> QED
    BY <1>3, <2>1, <2>2 DEF Blob!AtEnd, Blob!sizeofHeader
<1> DEFINE data == [i \in 1 .. size |-> blob[end + 1 + 1 + i]]
<1>5. data = f[cc]
  <2>1. PICK g : f[cc] = [i \in 1 .. size |-> g[i]]
    BY DEF Encodes, FieldsFit
  <2>2. ASSUME NEW i \in 1 .. size PROVE blob[end + 1 + 1 + i] = f[cc][i]
    <3>1. end + 1 + 1 + i = end + 2 + i
      BY <1>1, <1>2
    <3> QED
      BY <3>1, RecordCells
  <2> QED
    BY <2>1, <2>2
<1>6. /\ Blob!Advanced(r).pCurr = r.pCurr + Blob!sizeofHeader + size
      /\ Blob!Advanced(r).dest = IF Blob!Fits(cc, size) THEN [r.dest EXCEPT ![cc] = data]
                                 ELSE r.dest
  BY <1>3, <1>4 DEF Blob!Advanced
<1>7. Blob!Advanced(r).pCurr = Blob!Ends(v)[k] + 1
  <2>1. \A n \in Nat : (n + 1) + 2 + size = (n + 2 + size) + 1
    <3> HIDE DEF size
    <3> QED
      BY <1>1
  <2> QED
    BY <1>2, <1>6, <2>1 DEF Blob!sizeofHeader
<1> DEFINE d == DataInformations
<1>8. /\ \A j \in 1 .. Len(d) : d[j] \in [twoCC : Nat \ {0}, sizeOfData : Nat]
      /\ Blob!Range(d) = {d[j] : j \in 1 .. Len(d)}
      /\ Blob!TwoCCs(d) = {d[j].twoCC : j \in 1 .. Len(d)}
      /\ \A i, j \in 1 .. Len(d) : d[i].twoCC = d[j].twoCC => i = j
  <2> HIDE DEF d
  <2>1. IsVersion(d)
    BY DEF d
  <2>2. /\ DOMAIN d = 1 .. Len(d)
        /\ \A j \in 1 .. Len(d) : d[j] \in [twoCC : Nat \ {0}, sizeOfData : Nat]
        /\ Blob!Range(d) = {d[j] : j \in 1 .. Len(d)}
        /\ Blob!TwoCCs(d) = {d[j].twoCC : j \in 1 .. Len(d)}
    BY <2>1, VersionFields, Zenon
  <2>3. \A i, j \in DOMAIN d : d[i].twoCC = d[j].twoCC => i = j
    BY <2>1, Zenon DEF IsVersion
  <2> QED
    BY <2>2, <2>3, Zenon
<1>9. Blob!Fits(cc, size) <=> \E j \in 1 .. Len(d) : d[j] = v[k]
  <2>1. ASSUME NEW j \in 1 .. Len(d)
        PROVE  d[j] = v[k] <=> d[j].twoCC = cc /\ d[j].sizeOfData = size
    <3>1. /\ d[j] = [twoCC |-> d[j].twoCC, sizeOfData |-> d[j].sizeOfData]
          /\ v[k] = [twoCC |-> cc, sizeOfData |-> size]
      BY <1>1, <1>8
    <3> QED
      BY <3>1
  <2> QED
    BY <1>8, <2>1 DEF Blob!Fits, Blob!GetDataInfo
<1>10. \A m : m \in 1 .. k <=> m \in 1 .. k - 1 \/ m = k
  BY <1>1
<1> HIDE DEF data, size, cc, end
<1>11. DOMAIN Blob!Advanced(r).dest = Blob!TwoCCs(d)
  BY <1>6 DEF LoadedUpto
<1>12. ASSUME NEW j \in 1 .. Len(d)
       PROVE  Blob!Advanced(r).dest[d[j].twoCC] =
                IF \E m \in 1 .. k : v[m] = d[j] THEN f[d[j].twoCC]
                ELSE Blob!Zero(d)[d[j].twoCC]
  <2>1. r.dest[d[j].twoCC] = IF \E m \in 1 .. k - 1 : v[m] = d[j] THEN f[d[j].twoCC]
                             ELSE Blob!Zero(d)[d[j].twoCC]
    BY DEF LoadedUpto
  <2>2. d[j].twoCC \in Blob!TwoCCs(d) /\ DOMAIN r.dest = Blob!TwoCCs(d)
    BY <1>8 DEF LoadedUpto
  <2>3. CASE v[k] = d[j]
    <3>1. Blob!Fits(cc, size) /\ d[j].twoCC = cc
      BY <1>9, <2>3 DEF cc
    <3>2. Blob!Advanced(r).dest[d[j].twoCC] = data
      BY <1>6, <2>2, <3>1
    <3> QED
      BY <1>5, <1>10, <2>3, <3>1, <3>2
  <2>4. CASE v[k] # d[j]
    <3>1. Blob!Advanced(r).dest[d[j].twoCC] = r.dest[d[j].twoCC]
      <4>1. CASE Blob!Fits(cc, size)
        <5>1. PICK i \in 1 .. Len(d) : d[i] = v[k]
          BY <1>9, <4>1
        <5>2. d[j].twoCC # cc
          BY <1>8, <2>4, <5>1 DEF cc
        <5> QED
          BY <1>6, <2>2, <4>1, <5>2
      <4>2. CASE ~Blob!Fits(cc, size)
        BY <1>6, <4>2
      <4> QED
        BY <4>1, <4>2
    <3>2. (\E m \in 1 .. k : v[m] = d[j]) <=> (\E m \in 1 .. k - 1 : v[m] = d[j])
      BY <1>10, <2>4
    <3> QED
      BY <2>1, <3>1, <3>2
  <2> QED
    BY <2>3, <2>4
<1> QED
  BY <1>7, <1>11, <1>12 DEF LoadedUpto

(* Behind the last record a 0 ends the reading.                            *)
LEMMA ReadingEnds ==
  ASSUME NEW v, NEW f, Encodes(v, f, 0),
         NEW r, r.pCurr = Blob!Ends(v)[Len(v)] + 1
  PROVE  Blob!Advanced(r) = r
<1> DEFINE end == Blob!Ends(v)[Len(v)]
<1>1. end \in Nat /\ MaxLen \in Nat
  <2>1. Len(v) \in 0 .. Len(v) /\ IsVersion(v)
    BY VersionFields DEF Encodes
  <2> QED
    BY <2>1, EndsGrow, VersionsAssumption
<1>2. ASSUME end + 1 <= MaxLen PROVE blob[end + 1] = 0
  <2>1. end + 1 \in 1 .. MaxLen /\ end < end + 1
    BY <1>1, <1>2
  <2> QED
    BY <2>1, BufferRest DEF Encodes
<1> HIDE DEF end
<1>3. end + 1 + 2 > MaxLen \/ blob[end + 1] = 0
  BY <1>1, <1>2
<1> QED
  BY <1>3 DEF Blob!Advanced, Blob!AtEnd, Blob!sizeofHeader, end

LEMMA SavedIsLoaded ==
  ASSUME NEW v, NEW f, Encodes(v, f, 0), IsVersion(DataInformations)
  PROVE  LoadedUpto(Blob!FromBLOB(Blob!Zero(DataInformations)), DataInformations, v, f, Len(v))
<1> DEFINE zero == Blob!Zero(DataInformations)
           D == DataInformations
<1>1. IsVersion(v) /\ Len(v) \in Nat /\ MaxLen \in Nat
  BY VersionFields, VersionsAssumption DEF Encodes
<1>2. Len(v) <= MaxLen
  <2>1. /\ 2 * Len(v) <= Blob!Ends(v)[Len(v)] /\ Blob!Ends(v)[Len(v)] \in Nat
    BY <1>1, EndsGrow
  <2>2. Blob!Ends(v)[Len(v)] < MaxLen
    BY DEF Encodes, Blob!Compiles, Blob!lenOfData
  <2> QED
    BY <1>1, <2>1, <2>2
<1>3. PICK r : /\ r[0] = [pCurr |-> 1, dest |-> zero]
               /\ \A k \in 1 .. MaxLen : r[k] = Blob!Advanced(r[k - 1])
               /\ Blob!FromBLOB(zero) = r[MaxLen].dest
  BY ReaderSteps
<1> DEFINE Loaded(n) == /\ r[n].pCurr = Blob!Ends(v)[n] + 1
                        /\ LoadedUpto(r[n].dest, D, v, f, n)
           N == {n \in Nat : n <= Len(v) => Loaded(n)}
           M == {n \in Nat : Len(v) + n <= MaxLen => r[Len(v) + n] = r[Len(v)]}
<1>4. 0 \in N
  <2>1. LoadedUpto(zero, D, v, f, 0)
    <3>1. DOMAIN zero = Blob!TwoCCs(D)
      BY DEF Blob!Zero
    <3>2. 1 .. 0 = {}
      OBVIOUS
    <3> HIDE DEF zero
    <3> QED
      BY <3>1, <3>2 DEF LoadedUpto, zero
  <2>2. Blob!Ends(v)[0] = 0
    BY <1>1, EndsGrow
  <2> QED
    BY <1>3, <2>1, <2>2
<1>5. ASSUME NEW n \in Nat, n \in N PROVE n + 1 \in N
  <2> SUFFICES ASSUME NEW k \in 1 .. Len(v), k = n + 1 PROVE Loaded(k)
    BY <1>1
  <2>1. k - 1 = n /\ k \in 1 .. MaxLen /\ n <= Len(v)
    BY <1>1, <1>2
  <2>2. /\ r[n].pCurr = Blob!Ends(v)[k - 1] + 1
        /\ LoadedUpto(r[n].dest, D, v, f, k - 1)
    BY <1>5, <2>1
  <2>3. r[k] = Blob!Advanced(r[n])
    BY <1>3, <2>1
  <2> QED
    BY <2>2, <2>3, RecordIsRead
<1>6. Loaded(Len(v))
  <2>1. Nat \subseteq N
    <3> HIDE DEF N
    <3> QED
      BY <1>4, <1>5, SetInduction
  <2> QED
    BY <1>1, <2>1
<1> HIDE DEF Loaded
<1>7. 0 \in M
  BY <1>1
<1>8. ASSUME NEW n \in Nat, n \in M PROVE n + 1 \in M
  <2> SUFFICES ASSUME Len(v) + (n + 1) <= MaxLen PROVE r[Len(v) + (n + 1)] = r[Len(v)]
    OBVIOUS
  <2>1. PICK k \in 1 .. MaxLen : k = Len(v) + (n + 1) /\ k - 1 = Len(v) + n
    BY <1>1
  <2>2. r[k] = Blob!Advanced(r[k - 1]) /\ r[k - 1] = r[Len(v)]
    BY <1>1, <1>3, <1>8, <2>1
  <2>3. Blob!Advanced(r[Len(v)]) = r[Len(v)]
    BY <1>6, ReadingEnds DEF Loaded
  <2> QED
    BY <2>1, <2>2, <2>3
<1>9. r[MaxLen] = r[Len(v)]
  <2>1. Nat \subseteq M
    <3> HIDE DEF M
    <3> QED
      BY <1>7, <1>8, SetInduction
  <2>2. PICK n \in Nat : Len(v) + n = MaxLen
    <3>1. MaxLen - Len(v) \in Nat /\ Len(v) + (MaxLen - Len(v)) = MaxLen
      BY <1>1, <1>2
    <3> QED
      BY <3>1
  <2> QED
    BY <1>1, <2>1, <2>2
<1> QED
  BY <1>3, <1>6, <1>9 DEF Loaded

(* The buffer holds what was saved last, by a version that compiles.       *)
BlobInv ==
  /\ IsVersion(DataInformations) /\ Blob!Compiles(DataInformations)
  /\ FieldsFit(form, DataInformations)
  /\ \E leftover : Encodes(saved.version, saved.form, leftover) /\ (clean => leftover = 0)

LEMMA VersionsAreVersions == \A v \in Versions : IsVersion(v)
BY VersionsAssumption DEF IsVersion

LEMMA BlobInit == Init => BlobInv
<1> SUFFICES ASSUME Init PROVE BlobInv
  OBVIOUS
<1>1. /\ DataInformations \in Versions /\ Blob!Compiles(DataInformations)
      /\ form = Blob!Zero(DataInformations)
      /\ blob = [i \in 1 .. MaxLen |-> 0]
      /\ saved.version = <<>> /\ saved.form = <<>>
  BY DEF Init, Blob!Init
<1>2. IsVersion(DataInformations) /\ FieldsFit(form, DataInformations)
  BY <1>1, VersionsAreVersions, ZeroFits
<1>3. IsVersion(<<>>) /\ Len(<<>>) = 0 /\ DOMAIN <<>> = {}
  <2>1. <<>> \in Seq([twoCC : Nat \ {0}, sizeOfData : Nat])
    BY EmptySeq
  <2> QED
    BY <2>1 DEF IsVersion
<1>4. Blob!Compiles(<<>>)
  <2>1. Blob!Ends(<<>>)[0] = 0
    BY <1>3, EndsGrow
  <2>2. Blob!Ends(DataInformations)[Len(DataInformations)] \in Nat
    <3>1. Len(DataInformations) \in 0 .. Len(DataInformations)
      BY <1>2, VersionFields
    <3> QED
      BY <1>2, <3>1, EndsGrow
  <2>3. Blob!Ends(DataInformations)[Len(DataInformations)] < MaxLen
    BY <1>1 DEF Blob!Compiles, Blob!lenOfData
  <2> QED
    BY <1>3, <2>1, <2>2, <2>3, VersionsAssumption DEF Blob!Compiles, Blob!lenOfData
<1>5. FieldsFit(<<>>, <<>>)
  BY <1>3, VersionFields DEF FieldsFit
<1>6. Blob!Buffer(<<>>, <<>>, 0) = [i \in 1 .. MaxLen |-> 0]
  BY <1>3 DEF Blob!Buffer
<1> QED
  BY <1>1, <1>2, <1>3, <1>4, <1>5, <1>6 DEF BlobInv, Encodes

(* Whatever the buffer holds, what is copied into a field fits it.         *)
LEMMA AdvancedFits ==
  ASSUME IsVersion(DataInformations), NEW r, FieldsFit(r.dest, DataInformations)
  PROVE  FieldsFit(Blob!Advanced(r).dest, DataInformations)
<1> DEFINE d == DataInformations
           cc == blob[r.pCurr]
           size == blob[r.pCurr + 1]
           data == [i \in 1 .. size |-> blob[r.pCurr + 1 + i]]
<1>1. \/ Blob!Advanced(r).dest = r.dest
      \/ Blob!Fits(cc, size) /\ Blob!Advanced(r).dest = [r.dest EXCEPT ![cc] = data]
  BY DEF Blob!Advanced
<1> HIDE DEF data, cc, size
<1>2. CASE Blob!Fits(cc, size) /\ Blob!Advanced(r).dest = [r.dest EXCEPT ![cc] = data]
  <2>1. /\ Blob!Range(d) = {d[j] : j \in 1 .. Len(d)} /\ DOMAIN d = 1 .. Len(d)
        /\ Blob!TwoCCs(d) = {d[j].twoCC : j \in 1 .. Len(d)}
    BY VersionFields
  <2>2. PICK k \in 1 .. Len(d) : d[k].twoCC = cc /\ d[k].sizeOfData = size
    BY <1>2, <2>1 DEF Blob!Fits, Blob!GetDataInfo
  <2>3. DOMAIN Blob!Advanced(r).dest = Blob!TwoCCs(d)
    BY <1>2 DEF FieldsFit
  <2>4. ASSUME NEW j \in 1 .. Len(d)
        PROVE  \E g : Blob!Advanced(r).dest[d[j].twoCC] = [i \in 1 .. d[j].sizeOfData |-> g[i]]
    <3>1. d[j].twoCC \in DOMAIN r.dest
      BY <2>1 DEF FieldsFit
    <3>2. CASE d[j].twoCC = cc
      <4>1. d[j].sizeOfData = size
        BY <2>1, <2>2, <3>2 DEF IsVersion
      <4>2. Blob!Advanced(r).dest[d[j].twoCC] = data
        BY <1>2, <3>1, <3>2
      <4>3. data = [i \in 1 .. size |-> data[i]]
        BY DEF data
      <4> QED
        BY <4>1, <4>2, <4>3
    <3>3. CASE d[j].twoCC # cc
      <4>1. Blob!Advanced(r).dest[d[j].twoCC] = r.dest[d[j].twoCC]
        BY <1>2, <3>1, <3>3
      <4> QED
        BY <4>1 DEF FieldsFit
    <3> QED
      BY <3>2, <3>3
  <2> QED
    BY <2>3, <2>4 DEF FieldsFit
<1> QED
  BY <1>1, <1>2

LEMMA LoadedFits ==
  ASSUME IsVersion(DataInformations)
  PROVE  FieldsFit(Blob!FromBLOB(Blob!Zero(DataInformations)), DataInformations)
<1> DEFINE zero == Blob!Zero(DataInformations)
<1>1. PICK r : /\ r[0] = [pCurr |-> 1, dest |-> zero]
               /\ \A k \in 1 .. MaxLen : r[k] = Blob!Advanced(r[k - 1])
               /\ Blob!FromBLOB(zero) = r[MaxLen].dest
  BY ReaderSteps
<1> DEFINE N == {n \in Nat : n <= MaxLen => FieldsFit(r[n].dest, DataInformations)}
<1>2. 0 \in N
  BY <1>1, ZeroFits
<1>3. ASSUME NEW n \in Nat, n \in N PROVE n + 1 \in N
  <2> SUFFICES ASSUME n + 1 <= MaxLen PROVE FieldsFit(r[n + 1].dest, DataInformations)
    OBVIOUS
  <2>1. n + 1 \in 1 .. MaxLen /\ (n + 1) - 1 = n
    BY VersionsAssumption
  <2>2. r[n + 1] = Blob!Advanced(r[n]) /\ FieldsFit(r[n].dest, DataInformations)
    BY <1>1, <1>3, <2>1, VersionsAssumption
  <2> QED
    BY <2>2, AdvancedFits
<1>4. MaxLen \in N
  <2> HIDE DEF N
  <2> QED
    BY <1>2, <1>3, SetInduction, VersionsAssumption
<1> QED
  BY <1>1, <1>4, VersionsAssumption

LEMMA ChangedFits ==
  ASSUME BlobInv, NEW twoCC, NEW size \in Nat, NEW data, data = [i \in 1 .. size |-> data[i]],
         Blob!Change(twoCC, data)
  PROVE  FieldsFit(form', DataInformations')
<1> DEFINE d == DataInformations
<1>1. /\ twoCC \in Blob!TwoCCs(d) /\ Len(data) = Blob!Size(d, twoCC)
      /\ form' = [form EXCEPT ![twoCC] = data] /\ DataInformations' = d
  BY DEF Blob!Change
<1>2. /\ IsVersion(d) /\ FieldsFit(form, d)
      /\ Blob!Range(d) = {d[j] : j \in 1 .. Len(d)} /\ DOMAIN d = 1 .. Len(d)
      /\ Blob!TwoCCs(d) = {d[j].twoCC : j \in 1 .. Len(d)}
  BY VersionFields DEF BlobInv
<1>3. Len(data) = size
  <2>1. Len([i \in 1 .. size |-> data[i]]) = size
    OBVIOUS
  <2> QED
    BY <2>1
<1>4. DOMAIN form' = Blob!TwoCCs(d)
  BY <1>1, <1>2 DEF FieldsFit
<1>5. ASSUME NEW j \in 1 .. Len(d)
      PROVE  \E g : form'[d[j].twoCC] = [i \in 1 .. d[j].sizeOfData |-> g[i]]
  <2>1. d[j].twoCC \in DOMAIN form
    BY <1>2 DEF FieldsFit
  <2>2. CASE d[j].twoCC = twoCC
    <3>1. \A info \in Blob!Range(d) : info.twoCC = twoCC => info = d[j]
      <4>1. ASSUME NEW k \in 1 .. Len(d), d[k].twoCC = twoCC PROVE d[k] = d[j]
        <5>1. k = j
          BY <1>2, <2>2, <4>1 DEF IsVersion
        <5> QED
          BY <5>1
      <4> QED
        BY <1>2, <4>1
    <3>2. d[j] \in Blob!Range(d)
      BY <1>2
    <3>3. Blob!Size(d, twoCC) = d[j].sizeOfData
      BY <2>2, <3>1, <3>2 DEF Blob!Size
    <3>4. form'[d[j].twoCC] = data
      BY <1>1, <2>1, <2>2
    <3>5. d[j].sizeOfData = size
      BY <1>1, <1>3, <3>3
    <3> QED
      BY <3>4, <3>5
  <2>3. CASE d[j].twoCC # twoCC
    <3>1. form'[d[j].twoCC] = form[d[j].twoCC]
      BY <1>1, <2>1, <2>3
    <3> QED
      BY <1>2, <3>1 DEF FieldsFit
  <2> QED
    BY <2>2, <2>3
<1>6. FieldsFit(form', d)
  BY <1>4, <1>5 DEF FieldsFit
<1> QED
  BY <1>1, <1>6

LEMMA BlobNext == BlobInv /\ [Next]_vars => BlobInv'
<1> SUFFICES ASSUME BlobInv, Blob!Next \/ UNCHANGED blobVars PROVE BlobInv'
  BY BlobSteps
<1>1. PICK leftover : Encodes(saved.version, saved.form, leftover) /\ (clean => leftover = 0)
  BY DEF BlobInv
<1>2. CASE UNCHANGED <<DataInformations, form>> /\ UNCHANGED <<blob, saved, clean>>
  BY <1>1, <1>2 DEF BlobInv, Encodes
<1>3. ASSUME UNCHANGED <<blob, saved, clean>>, IsVersion(DataInformations'),
             Blob!Compiles(DataInformations'), FieldsFit(form', DataInformations')
      PROVE  BlobInv'
  <2>1. Encodes(saved.version, saved.form, leftover)' /\ (clean => leftover = 0)'
    BY <1>1, <1>3 DEF Encodes
  <2> QED
    BY <1>3, <2>1 DEF BlobInv
<1>4. ASSUME NEW old \in Leftovers, Blob!ToBLOB(old) PROVE BlobInv'
  <2>1. /\ blob' = Blob!Buffer(DataInformations, form, old)
        /\ saved'.version = DataInformations /\ saved'.form = form
        /\ clean' = (old = 0) /\ UNCHANGED <<DataInformations, form>>
    BY <1>4 DEF Blob!ToBLOB
  <2>2. Encodes(saved.version, saved.form, old)' /\ (clean => old = 0)'
    BY <2>1 DEF BlobInv, Encodes
  <2> QED
    BY <2>1, <2>2 DEF BlobInv
<1>5. CASE Blob!Load
  BY <1>3, <1>5, LoadedFits DEF Blob!Load, BlobInv
<1>6. ASSUME NEW twoCC \in Blob!AllCCs, NEW size \in Blob!AllSizes, NEW v \in Values,
             Blob!Change(twoCC, [i \in 1 .. size |-> IF i = 1 THEN v ELSE 0])
      PROVE  BlobInv'
  <2> DEFINE data == [i \in 1 .. size |-> IF i = 1 THEN v ELSE 0]
  <2>1. size \in Nat
    <3>1. PICK version \in Versions : size \in {info.sizeOfData : info \in Blob!Range(version)}
      BY DEF Blob!AllSizes
    <3>2. \A k \in 1 .. Len(version) : version[k].sizeOfData \in Nat
      BY VersionsAreVersions, VersionFields
    <3>3. Blob!Range(version) = {version[k] : k \in 1 .. Len(version)}
      BY VersionsAreVersions, VersionFields
    <3> QED
      BY <3>1, <3>2, <3>3
  <2>2. data = [i \in 1 .. size |-> data[i]]
    OBVIOUS
  <2>3. UNCHANGED <<DataInformations, blob, saved, clean>>
    BY <1>6 DEF Blob!Change
  <2>4. Blob!Change(twoCC, data)
    BY <1>6
  <2> HIDE DEF data
  <2>5. FieldsFit(form', DataInformations')
    BY <2>1, <2>2, <2>4, ChangedFits
  <2> QED
    BY <1>3, <2>3, <2>5 DEF BlobInv
<1>7. ASSUME NEW version \in Versions, Blob!Install(version) PROVE BlobInv'
  BY <1>3, <1>7, VersionsAreVersions, ZeroFits DEF Blob!Install
<1> QED
  BY <1>2, <1>4, <1>5, <1>6, <1>7 DEF Blob!Next, blobVars

LEMMA LoadIsSaved ==
  ASSUME BlobInv, Blob!Load, clean
  PROVE  \A info \in Blob!Range(DataInformations) :
           form'[info.twoCC] = IF Blob!Kept(info) THEN saved.form[info.twoCC]
                               ELSE Blob!Zero(DataInformations)[info.twoCC]
<1> DEFINE d == DataInformations
           v == saved.version
<1>1. Encodes(v, saved.form, 0) /\ IsVersion(d) /\ IsVersion(v)
  BY DEF BlobInv, Encodes
<1>2. LoadedUpto(form', d, v, saved.form, Len(v))
  BY <1>1, SavedIsLoaded DEF Blob!Load
<1>3. Blob!Range(d) = {d[j] : j \in 1 .. Len(d)} /\ Blob!Range(v) = {v[k] : k \in 1 .. Len(v)}
  BY <1>1, VersionFields
<1>4. ASSUME NEW j \in 1 .. Len(d)
      PROVE  Blob!Kept(d[j]) <=> \E k \in 1 .. Len(v) : v[k] = d[j]
  <2>1. v = <<>> => 1 .. Len(v) = {}
    OBVIOUS
  <2> QED
    BY <1>3, <2>1 DEF Blob!Kept
<1> QED
  BY <1>2, <1>3, <1>4 DEF LoadedUpto

(* For any versions that compile, whose fields have types of their own:    *)
(* what any of them saved any other loads, up to the fields that both      *)
(* have, with one size, if a 0 follows the last record (ToBLOB, FromBLOB). *)
THEOREM LoadedAsSavedHolds == Spec => LoadedAsSaved
<1>1. Init => BlobInv
  BY BlobInit
<1>2. BlobInv /\ [Next]_vars => BlobInv'
  BY BlobNext
<1>3. BlobInv =>
        [Blob!Load /\ clean =>
           \A info \in Blob!Range(DataInformations) :
             form'[info.twoCC] = IF Blob!Kept(info) THEN saved.form[info.twoCC]
                                 ELSE Blob!Zero(DataInformations)[info.twoCC]]_(Blob!vars)
  BY LoadIsSaved
<1> QED
  BY <1>1, <1>2, <1>3, PTL DEF Spec, LoadedAsSaved, Blob!LoadedAsSaved

-----------------------------------------------------------------------------
(* BitBuff: its steps, whatever the others do.                             *)
LEMMA FlagSteps == [Next]_vars => [Flag!Next]_flagVars
<1> SUFFICES ASSUME [Next]_vars PROVE Flag!Next \/ UNCHANGED flagVars
  OBVIOUS
<1>1. CASE FlagStep
  BY <1>1 DEF FlagStep
<1> QED
  BY <1>1 DEF Next, vars, Only, PoolStep, DispatcherStep, BlobStep, TextStep,
              AssignStep, EventsStep, QueueStep, ScrollStep, MenuStep, SubjectStep,
              LedgerStep

(* Where a position is: its character and its bit there.                   *)
LEMMA Division ==
  ASSUME NEW n \in Int, NEW c \in Nat \ {0}
  PROVE  /\ n \div c \in Int /\ n % c \in 0 .. c - 1
         /\ n = c * (n \div c) + (n % c)
  OBVIOUS

LEMMA ModuloSmall ==
  ASSUME NEW n \in Int, NEW c \in Nat \ {0}
  PROVE  /\ n \in 0 .. c - 1 => n % c = n
         /\ n \in (0 - c) .. -1 => n % c = n + c
  OBVIOUS

LEMMA CharacterOf ==
  ASSUME NEW n \in Int, NEW c \in Nat \ {0}, NEW s \in Int
  PROVE  /\ n >= 0 => n \div c >= 0
         /\ n < s * c => n \div c < s
         /\ n < 0 => n \div c < 0
  OBVIOUS

LEMMA BitsFit ==
  /\ Flag!SIZEBYTES \in Nat /\ Flag!SIZEBYTES * CHAR_BIT \in Nat
  /\ BITCOUNT < Flag!SIZEBYTES * CHAR_BIT
<1> DEFINE q == BITCOUNT \div CHAR_BIT
<1>1. q \in Int /\ BITCOUNT % CHAR_BIT < CHAR_BIT /\ BITCOUNT % CHAR_BIT \in Nat
      /\ BITCOUNT = CHAR_BIT * q + (BITCOUNT % CHAR_BIT) /\ q >= 0
  BY BitsAssumption, Division, CharacterOf
<1> HIDE DEF q
<1>2. Flag!SIZEBYTES = 1 + q
  BY DEF q, Flag!SIZEBYTES
<1>3. (1 + q) * CHAR_BIT = CHAR_BIT * q + CHAR_BIT
  BY <1>1, BitsAssumption
<1>4. (1 + q) * CHAR_BIT \in Nat
  BY <1>1, BitsAssumption
<1> QED
  BY <1>1, <1>2, <1>3, <1>4, BitsAssumption

(* Every position has a character and a bit in it, and each its own.       *)
LEMMA PositionOf ==
  ASSUME NEW where \in 0 .. (Flag!SIZEBYTES * CHAR_BIT - 1)
  PROVE  /\ where \div CHAR_BIT \in 0 .. Flag!SIZEBYTES - 1
         /\ where % CHAR_BIT \in 0 .. CHAR_BIT - 1
         /\ where = CHAR_BIT * (where \div CHAR_BIT) + (where % CHAR_BIT)
<1>1. where \in Int /\ where >= 0 /\ where < Flag!SIZEBYTES * CHAR_BIT
  BY BitsFit
<1> DEFINE size == Flag!SIZEBYTES
<1>2. size \in Int /\ where < size * CHAR_BIT
  BY <1>1, BitsFit
<1>3. CHAR_BIT \in Nat \ {0}
  BY BitsAssumption
<1>4. where \div CHAR_BIT \in Int /\ where \div CHAR_BIT >= 0
  BY <1>1, <1>3, Division, CharacterOf
<1> HIDE DEF size
<1>5. where \div CHAR_BIT < size
  BY <1>1, <1>2, <1>3, CharacterOf
<1>6. where \div CHAR_BIT \in 0 .. size - 1
  BY <1>2, <1>4, <1>5
<1> QED
  BY <1>1, <1>3, <1>6, Division DEF size

LEMMA BitsArePositions ==
  Flag!Bits \subseteq 0 .. (Flag!SIZEBYTES * CHAR_BIT - 1) /\ Flag!Bits \subseteq Nat
BY BitsFit, BitsAssumption DEF Flag!Bits

(* What a test of the position lets through, unsigned as it is.            *)
LEMMA InRangeIsBit ==
  ASSUME NEW where \in Positions
  PROVE  Flag!InRange(where) <=> where \in Flag!Bits
<1>1. /\ where \in Int /\ where >= BITCOUNT - SizeModulus /\ where < SizeModulus
      /\ BITCOUNT \in Nat /\ SizeModulus \in Nat \ {0} /\ CHAR_BIT \in Nat \ {0}
  BY BitsAssumption, PoolAssumption
<1>2. CASE where >= 0
  <2>1. where % SizeModulus = where
    BY <1>1, <1>2, ModuloSmall
  <2>2. where < BITCOUNT => where \div CHAR_BIT < Flag!SIZEBYTES
    <3>1. ASSUME where < BITCOUNT PROVE where < Flag!SIZEBYTES * CHAR_BIT
      BY <1>1, <3>1, BitsFit
    <3> QED
      BY <1>1, <3>1, BitsFit, CharacterOf
  <2> QED
    BY <1>1, <1>2, <2>1, <2>2 DEF Flag!InRange, Flag!Bits
<1>3. CASE where < 0
  <2>1. where % SizeModulus = where + SizeModulus
    BY <1>1, <1>3, ModuloSmall
  <2> QED
    BY <1>1, <1>3, <2>1 DEF Flag!InRange, Flag!Bits
<1> QED
  BY <1>1, <1>2, <1>3

(* A bit is 1 exactly if it is the position of a flag that is set.         *)
Characters == [0 .. Flag!SIZEBYTES - 1 -> SUBSET (0 .. CHAR_BIT - 1)]

BitsAre(b, set) ==
  /\ b \in Characters /\ set \subseteq Flag!Bits
  /\ \A where \in 0 .. (Flag!SIZEBYTES * CHAR_BIT - 1) :
       where % CHAR_BIT \in b[where \div CHAR_BIT] <=> where \in set

FlagInv == BitsAre(buffer, flags)

LEMMA FlagInit == Init => FlagInv
<1>1. ASSUME NEW where \in 0 .. (Flag!SIZEBYTES * CHAR_BIT - 1)
      PROVE  [n \in 0 .. Flag!SIZEBYTES - 1 |-> {}][where \div CHAR_BIT] = {}
  BY PositionOf
<1> QED
  BY <1>1 DEF Init, Flag!Init, FlagInv, BitsAre, Characters

LEMMA BitIsSet ==
  ASSUME NEW b, NEW set, BitsAre(b, set), NEW where \in Flag!Bits, NEW aBit \in {0, 1}
  PROVE  BitsAre(Flag!With(b, where, aBit),
               IF aBit = 1 THEN set \union {where} ELSE set \ {where})
<1> DEFINE c == where \div CHAR_BIT
           r == where % CHAR_BIT
           new == (b[c] \ {r}) \union {bit \in {r} : aBit = 1}
           d == Flag!With(b, where, aBit)
           set2 == IF aBit = 1 THEN set \union {where} ELSE set \ {where}
<1>1. /\ c \in 0 .. Flag!SIZEBYTES - 1 /\ r \in 0 .. CHAR_BIT - 1
      /\ where = CHAR_BIT * c + r
  BY BitsArePositions, PositionOf
<1>2. d = [b EXCEPT ![c] = new]
  BY DEF Flag!With
<1>3. b \in Characters /\ new \subseteq 0 .. CHAR_BIT - 1
  BY <1>1 DEF BitsAre, Characters
<1>4. d \in Characters
  <2> HIDE DEF new, c, d
  <2> QED
    BY <1>1, <1>2, <1>3 DEF Characters
<1>5. ASSUME NEW x \in 0 .. (Flag!SIZEBYTES * CHAR_BIT - 1)
      PROVE  x % CHAR_BIT \in d[x \div CHAR_BIT] <=> x \in set2
  <2>1. /\ x \div CHAR_BIT \in 0 .. Flag!SIZEBYTES - 1
        /\ x = CHAR_BIT * (x \div CHAR_BIT) + (x % CHAR_BIT)
    BY PositionOf
  <2>2. x % CHAR_BIT \in b[x \div CHAR_BIT] <=> x \in set
    BY DEF BitsAre
  <2>3. CASE x \div CHAR_BIT = c
    <3>1. d[x \div CHAR_BIT] = new
      <4> HIDE DEF new, c, d
      <4> QED
        BY <1>1, <1>2, <1>3, <2>3 DEF Characters
    <3>2. x % CHAR_BIT = r <=> x = where
      <4>1. x % CHAR_BIT = r => x = where
        BY <1>1, <2>1, <2>3
      <4>2. x = where => x % CHAR_BIT = r
        OBVIOUS
      <4> QED
        BY <4>1, <4>2
    <3> QED
      BY <2>2, <2>3, <3>1, <3>2
  <2>4. CASE x \div CHAR_BIT # c
    <3>1. d[x \div CHAR_BIT] = b[x \div CHAR_BIT]
      <4> HIDE DEF new, c, d
      <4> QED
        BY <1>1, <1>2, <1>3, <2>1, <2>4 DEF Characters
    <3>2. x # where
      BY <2>4
    <3> QED
      BY <2>2, <3>1, <3>2
  <2> QED
    BY <2>3, <2>4
<1>6. set2 \subseteq Flag!Bits
  BY DEF BitsAre
<1> HIDE DEF d, set2
<1>7. BitsAre(d, set2)
  BY <1>4, <1>5, <1>6 DEF BitsAre
<1> QED
  BY <1>7 DEF d, set2

LEMMA FlagIsSet ==
  ASSUME FlagInv, NEW where \in Positions, NEW aBit \in {0, 1}, Flag!Set(where, aBit)
  PROVE  FlagInv'
<1>1. CASE where \in Flag!Bits
  BY <1>1, BitIsSet, InRangeIsBit DEF FlagInv, Flag!Set
<1>2. CASE where \notin Flag!Bits
  BY <1>2, InRangeIsBit DEF FlagInv, Flag!Set
<1> QED
  BY <1>1, <1>2

(* The recursion of ImportFrom is well defined.                            *)
Importing(g, b, str, n) ==
  [k \in 0 .. n |->
     IF k = 0 THEN b
     ELSE IF str[k - 1] \in {0, 1} THEN Flag!With(g[k - 1], k - 1, str[k - 1])
     ELSE g[k - 1]]

LEMMA ImportingStep ==
  ASSUME NEW b, NEW str, NEW n \in Nat, NEW g, g = Importing(g, b, str, n)
  PROVE  \E h : h = Importing(h, b, str, n + 1)
<1> DEFINE h == [k \in 0 .. n + 1 |->
                   IF k # n + 1 THEN g[k]
                   ELSE IF str[n] \in {0, 1} THEN Flag!With(g[n], n, str[n])
                   ELSE g[n]]
<1>1. ASSUME NEW k \in 0 .. n + 1
      PROVE  h[k] = IF k = 0 THEN b
                    ELSE IF str[k - 1] \in {0, 1} THEN Flag!With(h[k - 1], k - 1, str[k - 1])
                    ELSE h[k - 1]
  <2>1. CASE k # n + 1
    <3>1. h[k] = g[k] /\ k \in 0 .. n /\ (k # 0 => h[k - 1] = g[k - 1])
      BY <2>1
    <3>2. g[k] = IF k = 0 THEN b
                 ELSE IF str[k - 1] \in {0, 1} THEN Flag!With(g[k - 1], k - 1, str[k - 1])
                 ELSE g[k - 1]
      BY <3>1 DEF Importing
    <3> HIDE DEF h
    <3> QED
      BY <3>1, <3>2
  <2>2. CASE k = n + 1
    <3>1. /\ k - 1 = n /\ k # 0 /\ h[n] = g[n]
          /\ h[k] = IF str[n] \in {0, 1} THEN Flag!With(g[n], n, str[n]) ELSE g[n]
      BY <2>2
    <3> HIDE DEF h
    <3> QED
      BY <3>1
  <2> QED
    BY <2>1, <2>2
<1>2. h = [k \in 0 .. n + 1 |-> h[k]]
  OBVIOUS
<1> HIDE DEF h
<1>3. h = Importing(h, b, str, n + 1)
  BY <1>1, <1>2 DEF Importing
<1> QED
  BY <1>3

(* The first k flags after k characters of the string.                     *)
ImportedUpto(set, str, k) ==
  {i \in Flag!Bits : IF i < k THEN str[i] = 1 \/ (str[i] \notin {0, 1} /\ i \in set)
                     ELSE i \in set}

LEMMA FlagsAreImported ==
  ASSUME FlagInv, NEW str \in [Flag!Bits -> 0 .. 2], Flag!ImportFrom(str)
  PROVE  FlagInv'
<1> DEFINE S == {n \in Nat : \E g : g = Importing(g, buffer, str, n)}
           Imported == CHOOSE g : g = Importing(g, buffer, str, BITCOUNT)
<1>1. 0 \in S
  <2> DEFINE g == [k \in 0 .. 0 |-> buffer]
  <2>1. g = Importing(g, buffer, str, 0)
    BY DEF Importing
  <2> QED
    BY <2>1
<1>2. \A n \in Nat : n \in S => n + 1 \in S
  BY ImportingStep
<1>3. BITCOUNT \in S
  <2> HIDE DEF S
  <2> QED
    BY <1>1, <1>2, SetInduction, BitsAssumption
<1>4. Imported = Importing(Imported, buffer, str, BITCOUNT)
  BY <1>3
<1>5. /\ buffer' = Imported[BITCOUNT]
      /\ flags' = {i \in Flag!Bits : str[i] = 1 \/ (str[i] \notin {0, 1} /\ i \in flags)}
  BY DEF Flag!ImportFrom, Importing
<1> HIDE DEF S, Imported
<1>6. \A k \in 0 .. BITCOUNT : Imported[k] = Importing(Imported, buffer, str, BITCOUNT)[k]
  BY <1>4
<1> DEFINE N == {n \in Nat : n <= BITCOUNT =>
                               BitsAre(Imported[n], ImportedUpto(flags, str, n))}
<1>7. 0 \in N
  <2>1. Imported[0] = buffer
    BY <1>6, BitsAssumption DEF Importing
  <2>2. ImportedUpto(flags, str, 0) = flags
    <3>1. \A i \in Flag!Bits : ~(i < 0)
      BY BitsArePositions
    <3>2. flags \subseteq Flag!Bits
      BY DEF FlagInv, BitsAre
    <3> QED
      BY <3>1, <3>2 DEF ImportedUpto
  <2> QED
    BY <2>1, <2>2 DEF FlagInv
<1>8. ASSUME NEW n \in Nat, n \in N PROVE n + 1 \in N
  <2> SUFFICES ASSUME n + 1 <= BITCOUNT
               PROVE  BitsAre(Imported[n + 1], ImportedUpto(flags, str, n + 1))
    OBVIOUS
  <2>1. n \in Flag!Bits /\ n < BITCOUNT /\ n + 1 - 1 = n /\ n + 1 # 0 /\ n + 1 \in 0 .. BITCOUNT
    BY BitsAssumption DEF Flag!Bits
  <2> DEFINE before == ImportedUpto(flags, str, n)
             after == ImportedUpto(flags, str, n + 1)
  <2>2. BitsAre(Imported[n], before)
    BY <1>8, <2>1, BitsAssumption
  <2>3. Imported[n + 1] = IF str[n] \in {0, 1} THEN Flag!With(Imported[n], n, str[n])
                          ELSE Imported[n]
    BY <1>6, <2>1 DEF Importing
  <2>4. \A i \in Flag!Bits : i # n => (i < n <=> i < n + 1)
    BY <2>1, BitsArePositions
  <2>5. after = IF str[n] = 1 THEN before \union {n}
                ELSE IF str[n] = 0 THEN before \ {n} ELSE before
    <3>1. ASSUME NEW i \in Flag!Bits, i # n PROVE i \in after <=> i \in before
      BY <2>4, <3>1 DEF ImportedUpto
    <3>2. /\ n \in after <=> (str[n] = 1 \/ (str[n] \notin {0, 1} /\ n \in flags))
          /\ n \in before <=> n \in flags
      BY <2>1 DEF ImportedUpto
    <3>3. after \subseteq Flag!Bits /\ before \subseteq Flag!Bits
      BY DEF ImportedUpto
    <3> HIDE DEF after, before
    <3>4. CASE str[n] = 1
      BY <2>1, <3>1, <3>2, <3>3, <3>4
    <3>5. CASE str[n] = 0
      BY <2>1, <3>1, <3>2, <3>3, <3>5
    <3>6. CASE str[n] # 1 /\ str[n] # 0
      <4>1. n \in after <=> n \in before
        BY <3>2, <3>6
      <4>2. \A i \in Flag!Bits : i \in after <=> i \in before
        BY <3>1, <4>1
      <4>3. after = before
        BY <3>3, <4>2
      <4> QED
        BY <3>6, <4>3
    <3> QED
      BY <3>4, <3>5, <3>6
  <2> HIDE DEF before, after
  <2>6. CASE str[n] \in {0, 1}
    <3>1. BitsAre(Flag!With(Imported[n], n, str[n]),
                IF str[n] = 1 THEN before \union {n} ELSE before \ {n})
      BY <2>1, <2>2, <2>6, BitIsSet
    <3> QED
      BY <2>3, <2>5, <2>6, <3>1 DEF after
  <2>7. CASE str[n] \notin {0, 1}
    BY <2>2, <2>3, <2>5, <2>7 DEF after
  <2> QED
    BY <2>6, <2>7
<1>9. BitsAre(Imported[BITCOUNT], ImportedUpto(flags, str, BITCOUNT))
  <2> HIDE DEF N
  <2>1. BITCOUNT \in N
    BY <1>7, <1>8, SetInduction, BitsAssumption
  <2> QED
    BY <2>1, BitsAssumption DEF N
<1>10. ImportedUpto(flags, str, BITCOUNT) = flags'
  <2>1. \A i \in Flag!Bits : i < BITCOUNT
    BY BitsAssumption DEF Flag!Bits
  <2> QED
    BY <1>5, <2>1 DEF ImportedUpto
<1> QED
  BY <1>5, <1>9, <1>10 DEF FlagInv

LEMMA FlagNext == FlagInv /\ [Next]_vars => FlagInv'
<1> SUFFICES ASSUME FlagInv, Flag!Next \/ UNCHANGED flagVars PROVE FlagInv'
  BY FlagSteps
<1>1. CASE UNCHANGED flagVars
  BY <1>1 DEF flagVars, FlagInv
<1> QED
  BY <1>1, FlagIsSet, FlagsAreImported DEF Flag!Next

LEMMA FlagsAreFlags == FlagInv => Flag!BufferIsFlags
<1> SUFFICES ASSUME FlagInv PROVE Flag!BufferIsFlags
  OBVIOUS
<1>1. \A where \in 0 .. (Flag!SIZEBYTES * CHAR_BIT - 1) :
        Flag!Bit(buffer, where) = IF where \in flags THEN 1 ELSE 0
  BY DEF FlagInv, BitsAre, Flag!Bit
<1>2. Flag!ExportTo = [i \in Flag!Bits |-> IF i \in flags THEN 1 ELSE 0]
  BY <1>1, BitsArePositions DEF Flag!ExportTo
<1>3. ASSUME NEW where \in BITCOUNT .. (Flag!SIZEBYTES * CHAR_BIT - 1)
      PROVE  Flag!Bit(buffer, where) = 0
  <2>1. where \in 0 .. (Flag!SIZEBYTES * CHAR_BIT - 1) /\ where \notin Flag!Bits
    BY BitsAssumption, BitsFit DEF Flag!Bits
  <2> QED
    BY <1>1, <2>1 DEF FlagInv, BitsAre
<1> QED
  BY <1>2, <1>3 DEF Flag!BufferIsFlags

-----------------------------------------------------------------------------
(* DebugAssignString: its steps, whatever the others do.                   *)
LEMMA AssignSteps == [Next]_vars => [Assigner!Next]_assignVars
<1> SUFFICES ASSUME [Next]_vars PROVE Assigner!Next \/ UNCHANGED assignVars
  OBVIOUS
<1>1. CASE AssignStep
  BY <1>1 DEF AssignStep
<1> QED
  BY <1>1 DEF Next, vars, Only, PoolStep, DispatcherStep, BlobStep, FlagStep, TextStep,
              EventsStep, QueueStep, ScrollStep, MenuStep, SubjectStep, LedgerStep

(* The assignments so far stand one behind the other and write the bytes   *)
(* 0 .. end - 1, of those of the string the right ones.                    *)
Assignments == [at : Nat, bytes : Seq(Int)]

IsRight(w) ==
  \A i \in 1 .. Len(w.bytes) : w.at + i <= toAssign =>
    \/ w.bytes[i] = w.at + i
    \/ w.at + i = bufferSize /\ bufferSize % 4 = 3 /\ w.bytes[i] = Assigner!NUL

Pieces(r, end) ==
  /\ r \in Seq(Assignments) /\ end \in Nat
  /\ \A j \in 1 .. Len(r) : r[j].at + Len(r[j].bytes) <= end /\ IsRight(r[j])
  /\ \A j, k \in 1 .. Len(r) : j < k => r[j].at + Len(r[j].bytes) <= r[k].at
  /\ \A i \in 0 .. end - 1 : \E j \in 1 .. Len(r) : Assigner!Writes(r[j], i)

LEMMA PieceAppended ==
  ASSUME NEW r, NEW end, Pieces(r, end), NEW w \in Assignments,
         w.at = end, IsRight(w)
  PROVE  Pieces(Append(r, w), end + Len(w.bytes))
<1>1. PICK s \in Seq(Assignments) : s = Append(r, w)
  <2>1. Append(r, w) \in Seq(Assignments)
    BY AppendProperties DEF Pieces
  <2> QED
    BY <2>1
<1>2. PICK n \in Nat : n = Len(r)
  BY DEF Pieces
<1>3. Len(s) = n + 1 /\ s[n + 1] = w /\ \A j \in 1 .. n : s[j] = r[j]
  BY <1>1, <1>2 DEF Pieces
<1>4. PICK m \in Nat : m = Len(w.bytes)
  BY DEF Assignments
<1>5. \A j \in 1 .. n : r[j] \in Assignments /\ r[j].at \in Nat /\ Len(r[j].bytes) \in Nat
  <2>1. \A j \in 1 .. n : r[j] \in Assignments
    BY <1>2, ElementOfSeq DEF Pieces
  <2> QED
    BY <2>1 DEF Assignments
<1>6. ASSUME NEW j \in 1 .. n + 1
      PROVE  s[j].at + Len(s[j].bytes) <= end + m /\ IsRight(s[j])
  <2>1. CASE j \in 1 .. n
    BY <1>2, <1>3, <1>4, <1>5, <2>1 DEF Pieces
  <2>2. CASE j = n + 1
    BY <1>3, <1>4, <2>2 DEF Pieces
  <2> QED
    BY <2>1, <2>2
<1>7. ASSUME NEW j \in 1 .. n + 1, NEW k \in 1 .. n + 1, j < k
      PROVE  s[j].at + Len(s[j].bytes) <= s[k].at
  <2>1. j \in 1 .. n /\ s[j] = r[j]
    BY <1>3, <1>7
  <2>2. CASE k \in 1 .. n
    BY <1>2, <1>3, <1>7, <2>1, <2>2 DEF Pieces
  <2>3. CASE k = n + 1
    BY <1>2, <1>3, <2>1, <2>3 DEF Pieces
  <2> QED
    BY <2>2, <2>3
<1>8. ASSUME NEW i \in 0 .. (end + m) - 1
      PROVE  \E j \in 1 .. n + 1 : Assigner!Writes(s[j], i)
  <2>1. CASE i < end
    <3>1. PICK j \in 1 .. n : Assigner!Writes(r[j], i)
      BY <1>2, <2>1 DEF Pieces
    <3> QED
      BY <1>3, <3>1
  <2>2. CASE i >= end
    <3>1. Assigner!Writes(w, i)
      BY <1>4, <2>2 DEF Assigner!Writes, Pieces
    <3> QED
      BY <1>3, <3>1
  <2> QED
    BY <2>1, <2>2 DEF Pieces
<1>9. end + m \in Nat
  BY DEF Pieces
<1> QED
  BY <1>1, <1>3, <1>4, <1>6, <1>7, <1>8, <1>9 DEF Pieces

(* What the assignments leave in a byte is what the one of them writes     *)
(* that writes it.                                                         *)
LEMMA PieceWritten ==
  ASSUME NEW end, Pieces(resultStr, end), NEW i \in 0 .. end - 1
  PROVE  \E j \in 1 .. Len(resultStr) :
           /\ Assigner!Writes(resultStr[j], i)
           /\ Assigner!Written(i) = resultStr[j].bytes[i - resultStr[j].at + 1]
<1>1. PICK n \in Nat : n = Len(resultStr)
  BY DEF Pieces
<1>2. PICK j \in 1 .. n : Assigner!Writes(resultStr[j], i)
  BY <1>1 DEF Pieces
<1>3. \A k \in 1 .. n : resultStr[k].at \in Nat /\ Len(resultStr[k].bytes) \in Nat
  <2>1. \A k \in 1 .. n : resultStr[k] \in Assignments
    BY <1>1, ElementOfSeq DEF Pieces
  <2> QED
    BY <2>1 DEF Assignments
<1>4. ASSUME NEW k \in 1 .. n, Assigner!Writes(resultStr[k], i) PROVE k = j
  <2> DEFINE End(l) == resultStr[l].at + Len(resultStr[l].bytes)
  <2>1. /\ End(j) \in Nat /\ End(k) \in Nat
        /\ resultStr[j].at \in Nat /\ resultStr[k].at \in Nat
    <3>1. \A l \in 1 .. n : resultStr[l].at \in Nat /\ End(l) \in Nat
      BY <1>3
    <3> QED
      BY <3>1
  <2>2. /\ resultStr[j].at <= i /\ i < End(j)
        /\ resultStr[k].at <= i /\ i < End(k)
    BY <1>2, <1>4 DEF Assigner!Writes
  <2>3. (k < j => End(k) <= resultStr[j].at) /\ (j < k => End(j) <= resultStr[k].at)
    BY <1>1 DEF Pieces
  <2>4. i \in Int
    BY DEF Pieces
  <2> HIDE DEF End
  <2>5. ~(k < j) /\ ~(j < k)
    BY <2>1, <2>2, <2>3, <2>4
  <2> QED
    BY <2>5
<1> DEFINE I == {k \in 1 .. n : Assigner!Writes(resultStr[k], i)}
<1>5. I = {j}
  BY <1>2, <1>4
<1>6. Assigner!SelectLastInSeq(resultStr, LAMBDA x : Assigner!Writes(x, i)) = j
  <2>1. Assigner!Max(I) = j
    BY <1>5 DEF Assigner!Max
  <2>2. Assigner!SelectLastInSeq(resultStr, LAMBDA x : Assigner!Writes(x, i))
          = IF I # {} THEN Assigner!Max(I) ELSE 0
    BY <1>1 DEF Assigner!SelectLastInSeq
  <2> QED
    BY <1>5, <2>1, <2>2
<1>7. Assigner!Written(i) = resultStr[j].bytes[i - resultStr[j].at + 1]
  BY <1>6 DEF Assigner!Written
<1> QED
  BY <1>1, <1>2, <1>7
InPlace ==
  /\ idx \in Nat /\ assignIdx \in Nat /\ assignIdx <= bufferSize
  /\ ~ended /\ idx < toAssign =>
       assignIdx = idx /\ idx % 4 = 0 /\ lenOfPtr = bufferSize - idx
  /\ ended \/ idx >= toAssign => assignIdx >= toAssign /\ ~amp

(* While a string that fits is not at its end, the next piece is put       *)
(* where the next characters belong.                                       *)
AssignInv ==
  /\ toAssign \in 0 .. MaxLength /\ bufferSize \in 0 .. MaxLength
  /\ toAssign <= bufferSize => InPlace /\ Pieces(resultStr, assignIdx)

LEMMA AssignInit == Init => AssignInv
<1> SUFFICES ASSUME Init PROVE AssignInv
  OBVIOUS
<1>1. /\ toAssign \in 0 .. MaxLength /\ bufferSize \in 0 .. MaxLength
      /\ idx = 0 /\ assignIdx = 0 /\ lenOfPtr = bufferSize
      /\ resultStr = <<>> /\ amp = FALSE /\ ended = FALSE
  BY DEF Init, Assigner!Init
<1>2. Pieces(<<>>, 0)
  BY EmptySeq DEF Pieces
<1>3. InPlace
  <2>1. bufferSize \in Nat /\ toAssign \in Nat /\ bufferSize - 0 = bufferSize /\ 0 % 4 = 0
    BY <1>1, LengthAssumption
  <2> QED
    BY <1>1, <2>1 DEF InPlace
<1> QED
  BY <1>1, <1>2, <1>3 DEF AssignInv

LEMMA ChunkIsAssigned ==
  ASSUME AssignInv, Assigner!AssignChunk
  PROVE  AssignInv'
<1>1. UNCHANGED <<toAssign, bufferSize>> /\ ~ended /\ idx < toAssign /\ lenOfPtr \notin {0, 3}
      /\ ended' = ended
  BY DEF Assigner!AssignChunk
<1> SUFFICES ASSUME toAssign <= bufferSize PROVE InPlace' /\ Pieces(resultStr, assignIdx)'
  BY <1>1 DEF AssignInv
<1>2. /\ InPlace /\ Pieces(resultStr, assignIdx) /\ toAssign \in Nat /\ bufferSize \in Nat
      /\ bufferSize < SizeModulus
  <2>1. InPlace /\ Pieces(resultStr, assignIdx)
    BY DEF AssignInv
  <2>2. toAssign \in 0 .. MaxLength /\ bufferSize \in 0 .. MaxLength
    BY DEF AssignInv
  <2>3. SizeModulus \in Nat
    BY PoolAssumption
  <2> QED
    BY <2>1, <2>2, <2>3, LengthAssumption
<1>3. /\ idx \in Nat /\ assignIdx = idx /\ idx % 4 = 0 /\ lenOfPtr = bufferSize - idx
  BY <1>1, <1>2 DEF InPlace
<1>4. PICK n \in 1 .. 4 : /\ n = Assigner!SizeToWrite(4)
                          /\ n = (IF toAssign - idx < 4 THEN toAssign - idx ELSE 4)
  BY <1>1, <1>2, <1>3 DEF Assigner!SizeToWrite
<1>5. PICK m \in 1 .. 4 : m = Assigner!Width(n) /\ m = (IF n <= 2 THEN n ELSE 4)
  BY <1>4 DEF Assigner!Width
<1>6. PICK w : w = [at |-> assignIdx, bytes |-> [i \in 1 .. m |-> Assigner!Char(idx + i, 0)]]
  OBVIOUS
<1>7. /\ resultStr' = Append(resultStr, w) /\ idx' = idx + n /\ assignIdx' = assignIdx + m
      /\ amp' = (idx + n < toAssign) /\ lenOfPtr' = (lenOfPtr - n) % SizeModulus
  BY <1>4, <1>5, <1>6 DEF Assigner!AssignChunk, Assigner!NUL
<1>8. w \in Assignments /\ w.at = assignIdx /\ Len(w.bytes) = m /\ IsRight(w)
  <2>1. PICK b : b = [i \in 1 .. m |-> Assigner!Char(idx + i, 0)]
    OBVIOUS
  <2>2. ASSUME NEW i \in 1 .. m
        PROVE  b[i] \in Int /\ (idx + i <= toAssign => b[i] = idx + i)
    BY <1>3, <2>1 DEF Assigner!Char
  <2>3. b \in [1 .. m -> Int]
    BY <2>1, <2>2
  <2>4. b \in Seq(Int) /\ Len(b) = m
    BY <2>3
  <2>5. w = [at |-> assignIdx, bytes |-> b]
    BY <1>6, <2>1
  <2> QED
    BY <1>3, <2>2, <2>4, <2>5 DEF Assignments, IsRight
<1>9. Pieces(resultStr', assignIdx')
  BY <1>2, <1>7, <1>8, PieceAppended
<1>10. Pieces(resultStr, assignIdx)'
  BY <1>1, <1>9 DEF Pieces, IsRight, Assigner!Writes
<1>11. toAssign - idx >= n /\ bufferSize - idx # 3 /\ bufferSize - idx # 0
  BY <1>1, <1>2, <1>3, <1>4
<1>12. assignIdx' <= bufferSize
  BY <1>2, <1>3, <1>4, <1>5, <1>7, <1>11
<1>13. idx' < toAssign => n = 4 /\ m = 4 /\ assignIdx' = idx' /\ idx' % 4 = 0
  BY <1>2, <1>3, <1>4, <1>5, <1>7
<1>14. idx' < toAssign => lenOfPtr' = bufferSize - idx'
  <2>1. lenOfPtr - n \in 0 .. SizeModulus - 1
    BY <1>2, <1>3, <1>11, PoolAssumption
  <2>2. (lenOfPtr - n) % SizeModulus = lenOfPtr - n
    BY <2>1, PoolAssumption
  <2> QED
    BY <1>2, <1>3, <1>7, <2>2
<1>15. idx' >= toAssign => assignIdx' >= toAssign /\ ~amp'
  <2>1. idx + n >= toAssign => idx + m >= toAssign
    BY <1>2, <1>3, <1>4, <1>5
  <2>2. idx + n >= toAssign => ~(idx + n < toAssign)
    BY <1>2, <1>3
  <2> QED
    BY <1>3, <1>7, <2>1, <2>2
<1>16. idx' \in Nat /\ assignIdx' \in Nat
  BY <1>3, <1>7
<1> QED
  BY <1>1, <1>10, <1>12, <1>13, <1>14, <1>15, <1>16 DEF InPlace

LEMMA LastThreeAreAssigned ==
  ASSUME AssignInv, Assigner!Byte3Operation
  PROVE  AssignInv'
<1>1. UNCHANGED <<toAssign, bufferSize>> /\ ~ended /\ idx < toAssign /\ lenOfPtr = 3
      /\ ended' = TRUE /\ amp' = FALSE
  BY DEF Assigner!Byte3Operation
<1> SUFFICES ASSUME toAssign <= bufferSize PROVE InPlace' /\ Pieces(resultStr, assignIdx)'
  BY <1>1 DEF AssignInv
<1>2. /\ InPlace /\ Pieces(resultStr, assignIdx) /\ toAssign \in Nat /\ bufferSize \in Nat
  BY LengthAssumption DEF AssignInv
<1>3. /\ idx \in Nat /\ assignIdx = idx /\ bufferSize = idx + 3 /\ bufferSize % 4 = 3
  <2>1. idx \in Nat /\ assignIdx = idx /\ bufferSize = idx + 3 /\ idx % 4 = 0
    BY <1>1, <1>2 DEF InPlace
  <2> QED
    BY <2>1
<1>4. PICK v : v = [at |-> assignIdx,
                    bytes |-> <<idx + 1, Assigner!Char(idx + 2, Assigner!Garbage)>>]
  OBVIOUS
<1>5. PICK w : w = [at |-> assignIdx + 2, bytes |-> <<Assigner!NUL>>]
  OBVIOUS
<1>6. /\ resultStr' = resultStr \o <<v, w>> /\ assignIdx' = assignIdx + 3
      /\ idx' = idx + Assigner!SizeToWrite(2)
  BY <1>4, <1>5 DEF Assigner!Byte3Operation
<1>7. v \in Assignments /\ v.at = assignIdx /\ Len(v.bytes) = 2 /\ IsRight(v)
  <2>1. PICK c \in Int : /\ c = Assigner!Char(idx + 2, Assigner!Garbage)
                         /\ idx + 2 <= toAssign => c = idx + 2
    BY <1>3 DEF Assigner!Char, Assigner!Garbage
  <2>2. PICK b \in Seq(Int) : b = <<idx + 1, c>>
    <3>1. idx + 1 \in Int
      BY <1>3
    <3>2. <<idx + 1, c>> \in Seq(Int)
      BY <3>1
    <3> QED
      BY <3>2
  <2>3. Len(b) = 2 /\ b[1] = idx + 1 /\ b[2] = c
    BY <2>2
  <2>4. v = [at |-> assignIdx, bytes |-> b]
    BY <1>4, <2>1, <2>2
  <2>5. v \in Assignments /\ v.at = idx /\ v.bytes = b
    BY <1>3, <2>4 DEF Assignments
  <2>6. ASSUME NEW i \in 1 .. 2, idx + i <= toAssign PROVE b[i] = idx + i
    <3>1. CASE i = 1
      BY <2>3, <3>1
    <3>2. CASE i = 2
      BY <2>1, <2>3, <2>6, <3>2
    <3> QED
      BY <3>1, <3>2
  <2> QED
    BY <1>3, <2>3, <2>5, <2>6 DEF IsRight
<1>8. w \in Assignments /\ w.at = assignIdx + 2 /\ Len(w.bytes) = 1 /\ IsRight(w)
  <2>1. PICK b \in Seq(Int) : b = <<Assigner!NUL>> /\ Len(b) = 1 /\ b[1] = Assigner!NUL
    <3>1. <<Assigner!NUL>> \in Seq(Int)
      BY DEF Assigner!NUL
    <3>2. Len(<<Assigner!NUL>>) = 1 /\ <<Assigner!NUL>>[1] = Assigner!NUL
      OBVIOUS
    <3> QED
      BY <3>1, <3>2
  <2>2. w = [at |-> assignIdx + 2, bytes |-> b]
    BY <1>5, <2>1
  <2> QED
    BY <1>3, <2>1, <2>2 DEF Assignments, IsRight
<1>9. PICK r : r = Append(resultStr, v)
  OBVIOUS
<1>10. Pieces(r, assignIdx + 2)
  BY <1>2, <1>7, <1>9, PieceAppended
<1>11. Pieces(Append(r, w), assignIdx + 2 + 1)
  BY <1>8, <1>10, PieceAppended
<1>12. resultStr' = Append(r, w)
  BY <1>2, <1>6, <1>7, <1>8, <1>9 DEF Pieces
<1>13. Pieces(resultStr', assignIdx')
  <2>1. assignIdx' = assignIdx + 2 + 1
    BY <1>3, <1>6
  <2> QED
    BY <1>11, <1>12, <2>1
<1>14. Pieces(resultStr, assignIdx)'
  BY <1>1, <1>13 DEF Pieces, IsRight, Assigner!Writes
<1>15. idx' \in Nat
  BY <1>1, <1>2, <1>3, <1>6 DEF Assigner!SizeToWrite
<1> QED
  BY <1>1, <1>2, <1>3, <1>6, <1>14, <1>15 DEF InPlace

LEMMA AssignNext == AssignInv /\ [Next]_vars => AssignInv'
<1> SUFFICES ASSUME AssignInv, Assigner!Next \/ UNCHANGED assignVars PROVE AssignInv'
  BY AssignSteps
<1>1. CASE UNCHANGED assignVars
  BY <1>1 DEF assignVars, AssignInv, InPlace, Pieces, IsRight, Assigner!Writes
<1>2. CASE Assigner!Break
  <2>1. /\ UNCHANGED <<toAssign, bufferSize, lenOfPtr, idx, assignIdx>>
        /\ UNCHANGED <<resultStr, amp>> /\ ended' = TRUE
    BY <1>2 DEF Assigner!Break
  <2> SUFFICES ASSUME toAssign <= bufferSize PROVE InPlace' /\ Pieces(resultStr, assignIdx)'
    BY <2>1 DEF AssignInv
  <2>2. Pieces(resultStr, assignIdx)'
    BY <2>1 DEF AssignInv, Pieces, IsRight, Assigner!Writes
  <2>3. ~ended /\ (idx >= toAssign \/ lenOfPtr = 0)
    BY <1>2 DEF Assigner!Break
  <2>4. idx >= toAssign
    BY <2>3, LengthAssumption DEF AssignInv, InPlace
  <2>5. InPlace'
    BY <2>1, <2>4 DEF AssignInv, InPlace
  <2> QED
    BY <2>2, <2>5
<1> QED
  BY <1>1, <1>2, ChunkIsAssigned, LastThreeAreAssigned DEF Assigner!Next

LEMMA StringIsAssigned == AssignInv => Assigner!FittingStringIsAssigned
<1> SUFFICES ASSUME AssignInv, ended, toAssign <= bufferSize
             PROVE  /\ ~amp
                    /\ \A w \in Assigner!Range(resultStr) : w.at + Len(w.bytes) <= bufferSize
                    /\ \A i \in 1 .. toAssign :
                         \/ Assigner!Written(i - 1) = i
                         \/ /\ i = bufferSize /\ bufferSize % 4 = 3
                            /\ Assigner!Written(i - 1) = Assigner!NUL
  BY DEF Assigner!FittingStringIsAssigned
<1>1. /\ InPlace /\ Pieces(resultStr, assignIdx) /\ ~amp
      /\ assignIdx \in Nat /\ assignIdx <= bufferSize /\ toAssign <= assignIdx
      /\ toAssign \in Nat /\ bufferSize \in Nat
  BY LengthAssumption DEF AssignInv, InPlace
<1>2. PICK n \in Nat : n = Len(resultStr)
  BY <1>1 DEF Pieces
<1>3. \A k \in 1 .. n : resultStr[k].at \in Nat /\ Len(resultStr[k].bytes) \in Nat
  <2>1. \A k \in 1 .. n : resultStr[k] \in Assignments
    BY <1>1, <1>2, ElementOfSeq DEF Pieces
  <2> QED
    BY <2>1 DEF Assignments
<1>4. ASSUME NEW w \in Assigner!Range(resultStr) PROVE w.at + Len(w.bytes) <= bufferSize
  <2>1. PICK k \in 1 .. n : w = resultStr[k]
    <3>1. DOMAIN resultStr = 1 .. n
      BY <1>1, <1>2, LenProperties DEF Pieces
    <3> QED
      BY <3>1 DEF Assigner!Range
  <2>2. w.at + Len(w.bytes) <= assignIdx /\ w.at + Len(w.bytes) \in Nat
    BY <1>1, <1>2, <1>3, <2>1 DEF Pieces
  <2> QED
    BY <1>1, <2>2
<1>5. ASSUME NEW i \in 1 .. toAssign
      PROVE  \/ Assigner!Written(i - 1) = i
             \/ /\ i = bufferSize /\ bufferSize % 4 = 3
                /\ Assigner!Written(i - 1) = Assigner!NUL
  <2>1. i - 1 \in 0 .. assignIdx - 1
    BY <1>1
  <2>2. PICK j \in 1 .. n :
          /\ Assigner!Writes(resultStr[j], i - 1)
          /\ Assigner!Written(i - 1) = resultStr[j].bytes[i - 1 - resultStr[j].at + 1]
    BY <1>1, <1>2, <2>1, PieceWritten
  <2>3. PICK p : p = i - 1 - resultStr[j].at + 1
    OBVIOUS
  <2>4. /\ p \in 1 .. Len(resultStr[j].bytes) /\ resultStr[j].at + p = i
    <3>1. PICK w : w = resultStr[j]
      OBVIOUS
    <3>2. w.at <= i - 1 /\ i - 1 < w.at + Len(w.bytes) /\ w.at \in Nat /\ Len(w.bytes) \in Nat
      BY <1>3, <2>2, <3>1, Zenon DEF Assigner!Writes
    <3>3. i \in Nat
      BY <1>1
    <3>4. i - 1 - w.at + 1 \in 1 .. Len(w.bytes) /\ w.at + (i - 1 - w.at + 1) = i
      BY <3>2, <3>3, PlaceInPiece, Zenon
    <3> QED
      BY <2>3, <3>1, <3>4, Zenon
  <2>5. IsRight(resultStr[j])
    BY <1>1, <1>2 DEF Pieces
  <2> QED
    BY <2>2, <2>3, <2>4, <2>5 DEF IsRight
<1> QED
  BY <1>1, <1>4, <1>5
-----------------------------------------------------------------------------
(* Utf8: its steps, whatever the others do.                              *)
LEMMA TextSteps == [Next]_vars => [Text!Next]_textVars
<1> SUFFICES ASSUME [Next]_vars PROVE Text!Next \/ UNCHANGED textVars
  OBVIOUS
<1>1. CASE TextStep
  BY <1>1 DEF TextStep
<1> QED
  BY <1>1 DEF Next, vars, Only, PoolStep, DispatcherStep, BlobStep, FlagStep, AssignStep,
              EventsStep, QueueStep, ScrollStep, MenuStep, SubjectStep, LedgerStep

(* What the arithmetic of a sequence of each length comes to.            *)
Octet == 0 .. 255

(* What the tests of a lead octet say of its value.                      *)
LEMMA LeadOctets ==
  ASSUME NEW a \in Octet
  PROVE  /\ Text!is_trail(a) <=> a \in 128 .. 191
         /\ Text!sequence_length(a) = IF a < 128 THEN 1
                                      ELSE IF a \in 192 .. 223 THEN 2
                                      ELSE IF a \in 224 .. 239 THEN 3
                                      ELSE IF a \in 240 .. 247 THEN 4 ELSE 0
  BY SMT DEF Octet, Text!is_trail, Text!sequence_length

Value2(a, b) == ((a * 64) % 2048) + (b % 64)
Value3(a, b, c) == ((a * 4096) % 65536) + ((b * 64) % 4096) + (c % 64)
Value4(a, b, c, d) ==
  ((a * 262144) % 2097152) + ((b * 4096) % 262144) + ((c * 64) % 4096) + (d % 64)

Lead2 == 192 .. 223
Lead3 == 224 .. 239
Lead4 == 240 .. 247

(* What get_sequence computes of the octets of each length.              *)
LEMMA Sequences ==
  ASSUME NEW text, NEW p, NEW a, a = text[p + 1], NEW b, b = text[p + 2],
         NEW c, c = text[p + 3], NEW d, d = text[p + 4]
  PROVE  /\ Text!get_sequence(text, p, 1) = a
         /\ Text!get_sequence(text, p, 2) = Value2(a, b)
         /\ Text!get_sequence(text, p, 3) = Value3(a, b, c)
         /\ Text!get_sequence(text, p, 4) = Value4(a, b, c, d)
  BY SMT DEF Text!get_sequence, Value2, Value3, Value4

(* A sequence of one octet is what append writes of its code point.      *)
LEMMA Decoded1 ==
  ASSUME NEW a \in 0 .. 127
  PROVE  /\ Text!is_code_point_valid(a) /\ ~Text!is_overlong_sequence(a, 1)
         /\ Text!append(a) = <<a>>
  BY SMT DEF Text!is_code_point_valid, Text!is_surrogate, Text!is_overlong_sequence, Text!append

(* A sequence of two octets is what append writes of its code point.     *)
LEMMA Decoded2 ==
  ASSUME NEW a \in Lead2, NEW b \in Text!Trail,
         NEW cp, cp = Value2(a, b)
  PROVE  /\ cp \in Nat /\ Text!is_code_point_valid(cp)
         /\ Text!is_overlong_sequence(cp, 2) <=> a < 194
         /\ a >= 194 => Text!append(cp) = <<a, b>>
<1>0. a \in 192 .. 223 /\ b \in 128 .. 191
  BY SMT DEF Lead2, Text!Trail
<1>1. cp = (a - 192) * 64 + (b - 128) /\ cp \in Nat /\ cp < 2048
  <2>1. (a * 64) % 2048 = (a - 192) * 64
    BY <1>0, SMT
  <2>2. b % 64 = b - 128
    BY <1>0, SMT
  <2> QED
    BY <1>0, <2>1, <2>2, SMT DEF Value2
<1>2. (cp \div 64) + 192 = a /\ (cp % 64) + 128 = b
  BY <1>0, <1>1, SMT
<1>3. cp >= 128 <=> a >= 194
  BY <1>0, <1>1, SMT
<1>4. Text!is_overlong_sequence(cp, 2) <=> a < 194
  BY <1>0, <1>1, <1>3, SMT DEF Text!is_overlong_sequence
<1>5. Text!is_code_point_valid(cp)
  BY <1>0, <1>1, SMT DEF Text!is_code_point_valid, Text!is_surrogate
<1>6. ASSUME a >= 194 PROVE Text!append(cp) = <<a, b>>
  <2>1. ~(cp < 128) /\ cp < 2048 /\ cp \in Int
    BY <1>1, <1>3, <1>6, SMT
  <2>2. Text!append(cp) = <<(cp \div 64) + 192, (cp % 64) + 128>>
    BY <2>1, SMT DEF Text!append
  <2> QED
    BY <1>0, <1>2, <2>2, SMT
<1> QED
  BY <1>0, <1>1, <1>4, <1>5, <1>6, SMT

(* A sequence of three octets is what append writes of its code point.   *)
LEMMA Decoded3 ==
  ASSUME NEW a \in Lead3, NEW b \in Text!Trail, NEW c \in Text!Trail,
         NEW cp, cp = Value3(a, b, c)
  PROVE  /\ cp \in Nat
         /\ Text!is_code_point_valid(cp) <=> ~(a = 237 /\ b >= 160)
         /\ Text!is_overlong_sequence(cp, 3) <=> a = 224 /\ b < 160
         /\ Text!is_code_point_valid(cp) /\ ~Text!is_overlong_sequence(cp, 3) =>
              Text!append(cp) = <<a, b, c>>
<1>0. a \in 224 .. 239 /\ b \in 128 .. 191 /\ c \in 128 .. 191
  BY SMT DEF Lead3, Text!Trail
<1>1. cp = (a - 224) * 4096 + (b - 128) * 64 + (c - 128) /\ cp \in Nat /\ cp < 65536
  <2>1. (a * 4096) % 65536 = (a - 224) * 4096
    BY <1>0, SMT
  <2>2. (b * 64) % 4096 = (b - 128) * 64
    BY <1>0, SMT
  <2>3. c % 64 = c - 128
    BY <1>0, SMT
  <2> QED
    BY <1>0, <2>1, <2>2, <2>3, SMT DEF Value3
<1>2. cp \div 4096 = a - 224 /\ cp \div 64 = (a - 224) * 64 + (b - 128) /\ cp % 64 = c - 128
  BY <1>0, <1>1, SMT
<1>3. ((cp \div 64) % 64) = b - 128
  BY <1>0, <1>2, SMT
<1>4. cp >= 2048 <=> ~(a = 224 /\ b < 160)
  BY <1>0, <1>1, SMT
<1>5. cp >= 55296 /\ cp <= 57343 <=> a = 237 /\ b >= 160
  BY <1>0, <1>1, SMT
<1>6. Text!is_code_point_valid(cp) <=> ~(a = 237 /\ b >= 160)
  BY <1>0, <1>1, <1>5, SMT DEF Text!is_code_point_valid, Text!is_surrogate
<1>7. Text!is_overlong_sequence(cp, 3) <=> a = 224 /\ b < 160
  BY <1>0, <1>1, <1>4, SMT DEF Text!is_overlong_sequence
<1>8. ASSUME cp >= 2048 PROVE Text!append(cp) = <<a, b, c>>
  <2>1. Text!append(cp) = <<(cp \div 4096) + 224, ((cp \div 64) % 64) + 128, (cp % 64) + 128>>
    BY <1>0, <1>1, <1>8, SMT DEF Text!append
  <2>2. (cp \div 4096) + 224 = a /\ ((cp \div 64) % 64) + 128 = b /\ (cp % 64) + 128 = c
    BY <1>0, <1>2, <1>3, SMT
  <2> QED
    BY <1>0, <2>1, <2>2, SMT
<1> QED
  BY <1>0, <1>1, <1>4, <1>6, <1>7, <1>8, SMT

(* A sequence of four octets is what append writes of its code point.    *)
LEMMA Decoded4 ==
  ASSUME NEW a \in Lead4, NEW b \in Text!Trail, NEW c \in Text!Trail, NEW d \in Text!Trail,
         NEW cp, cp = Value4(a, b, c, d)
  PROVE  /\ cp \in Nat
         /\ Text!is_code_point_valid(cp) <=> ~(a > 244 \/ (a = 244 /\ b >= 144))
                                             /\ ~(a = 240 /\ b = 141 /\ c >= 160)
         /\ Text!is_overlong_sequence(cp, 4) <=> a = 240 /\ b < 144
         /\ Text!is_code_point_valid(cp) /\ ~Text!is_overlong_sequence(cp, 4) =>
              Text!append(cp) = <<a, b, c, d>>
<1>0. a \in 240 .. 247 /\ b \in 128 .. 191 /\ c \in 128 .. 191 /\ d \in 128 .. 191
  BY SMT DEF Lead4, Text!Trail
<1>1. cp = (a - 240) * 262144 + (b - 128) * 4096 + (c - 128) * 64 + (d - 128)
      /\ cp \in Nat /\ cp < 2097152
  <2>1. (a * 262144) % 2097152 = (a - 240) * 262144
    BY <1>0, SMT
  <2>2. (b * 4096) % 262144 = (b - 128) * 4096
    BY <1>0, SMT
  <2>3. (c * 64) % 4096 = (c - 128) * 64
    BY <1>0, SMT
  <2>4. d % 64 = d - 128
    BY <1>0, SMT
  <2> QED
    BY <1>0, <2>1, <2>2, <2>3, <2>4, SMT DEF Value4
<1>2. /\ cp \div 262144 = a - 240
      /\ cp \div 4096 = (a - 240) * 64 + (b - 128)
      /\ cp \div 64 = (a - 240) * 4096 + (b - 128) * 64 + (c - 128)
      /\ cp % 64 = d - 128
  BY <1>0, <1>1, SMT
<1>3. (cp \div 4096) % 64 = b - 128 /\ (cp \div 64) % 64 = c - 128
  BY <1>0, <1>2, SMT
<1>4. cp >= 65536 <=> ~(a = 240 /\ b < 144)
  BY <1>0, <1>1, SMT
<1>5. cp >= 55296 /\ cp <= 57343 <=> a = 240 /\ b = 141 /\ c >= 160
  BY <1>0, <1>1, SMT
<1>6. cp <= 1114111 <=> ~(a > 244 \/ (a = 244 /\ b >= 144))
  BY <1>0, <1>1, SMT
<1>7. Text!is_code_point_valid(cp) <=> ~(a > 244 \/ (a = 244 /\ b >= 144))
                                       /\ ~(a = 240 /\ b = 141 /\ c >= 160)
  BY <1>0, <1>1, <1>5, <1>6, SMT DEF Text!is_code_point_valid, Text!is_surrogate
<1>8. Text!is_overlong_sequence(cp, 4) <=> a = 240 /\ b < 144
  BY <1>0, <1>1, <1>4, SMT DEF Text!is_overlong_sequence
<1>9. ASSUME cp >= 65536 PROVE Text!append(cp) = <<a, b, c, d>>
  <2>1. Text!append(cp) = <<(cp \div 262144) + 240, ((cp \div 4096) % 64) + 128,
                            ((cp \div 64) % 64) + 128, (cp % 64) + 128>>
    BY <1>0, <1>1, <1>9, SMT DEF Text!append
  <2>2. /\ (cp \div 262144) + 240 = a /\ ((cp \div 4096) % 64) + 128 = b
        /\ ((cp \div 64) % 64) + 128 = c /\ (cp % 64) + 128 = d
    BY <1>0, <1>2, <1>3, SMT
  <2> QED
    BY <1>0, <2>1, <2>2, SMT
<1> QED
  BY <1>0, <1>1, <1>4, <1>7, <1>8, <1>9, SMT

(* A well-formed sequence of k octets at the position p.                 *)
TrailAt(text, q) == text[q] >= 128 /\ text[q] <= 191

Formed(text, p, k) ==
  LET a == text[p + 1] b == text[p + 2] IN
  \/ k = 1 /\ a < 128
  \/ k = 2 /\ a >= 194 /\ a <= 223 /\ TrailAt(text, p + 2)
  \/ /\ k = 3 /\ a >= 224 /\ a <= 239 /\ TrailAt(text, p + 2) /\ TrailAt(text, p + 3)
     /\ ~(a = 224 /\ b < 160) /\ ~(a = 237 /\ b >= 160)
  \/ /\ k = 4 /\ a >= 240 /\ a <= 244 /\ TrailAt(text, p + 2)
     /\ TrailAt(text, p + 3) /\ TrailAt(text, p + 4)
     /\ ~(a = 240 /\ b < 144) /\ ~(a = 244 /\ b >= 144)

FormedAt(text, p, k) == p + k <= Len(text) /\ Formed(text, p, k)

(* The length and the elements of a sequence of octets.                  *)
LEMMA OctetsOf ==
  ASSUME NEW text \in Seq(Octet)
  PROVE  /\ Len(text) \in Nat /\ DOMAIN text = 1 .. Len(text)
         /\ \A q \in 1 .. Len(text) : text[q] \in Octet /\ text[q] \in Int
                                      /\ text[q] >= 0 /\ text[q] <= 255
<1>1. \A q \in 1 .. Len(text) : text[q] \in Octet
  BY ElementOfSeq
<1>2. Len(text) \in Nat /\ DOMAIN text = 1 .. Len(text)
  BY LenProperties
<1>3. \A o \in Octet : o \in Int /\ o >= 0 /\ o <= 255
  BY SMT DEF Octet
<1> QED
  BY <1>1, <1>2, <1>3

(* A part of a text, position by position.                               *)
LEMMA PartOf ==
  ASSUME NEW T, NEW text \in Seq(T), NEW m \in Nat, NEW n \in Nat, m <= n, n <= Len(text)
  PROVE  /\ SubSeq(text, m + 1, n) \in Seq(T) /\ Len(SubSeq(text, m + 1, n)) = n - m
         /\ \A i \in 1 .. n - m : SubSeq(text, m + 1, n)[i] = text[m + i]
<1>1. /\ SubSeq(text, m + 1, n) \in Seq(T)
      /\ Len(SubSeq(text, m + 1, n)) = IF m + 1 <= n THEN n - (m + 1) + 1 ELSE 0
      /\ \A i \in 1 .. n - (m + 1) + 1 : SubSeq(text, m + 1, n)[i] = text[m + 1 + i - 1]
  BY SubSeqProperties
<1>2. n - (m + 1) + 1 = n - m /\ (~(m + 1 <= n) => n - m = 0)
  OBVIOUS
<1>3. \A i \in 1 .. n - m : m + 1 + i - 1 = m + i
  OBVIOUS
<1> QED
  BY <1>1, <1>2, <1>3

(* is_trail asks whether an octet is in the range of trail octets.       *)
LEMMA TrailsOf ==
  ASSUME NEW text, NEW q, text[q] \in Int
  PROVE  /\ TrailAt(text, q) <=> text[q] \in Text!Trail
         /\ text[q] \in 128 .. 191 <=> text[q] \in Text!Trail
<1>1. \A o \in Int : /\ o \in Text!Trail <=> o >= 128 /\ o <= 191
                     /\ o \in 128 .. 191 <=> o \in Text!Trail
  BY SMT DEF Text!Trail
<1> QED
  BY <1>1 DEF TrailAt

(* Formed, written out for each length.                                  *)
LEMMA FormedOctets ==
  ASSUME NEW text, NEW p, NEW a, a = text[p + 1], NEW b, b = text[p + 2]
  PROVE  /\ Formed(text, p, 1) <=> a < 128
         /\ Formed(text, p, 2) <=> a >= 194 /\ a <= 223 /\ TrailAt(text, p + 2)
         /\ Formed(text, p, 3) <=>
              /\ a >= 224 /\ a <= 239 /\ TrailAt(text, p + 2) /\ TrailAt(text, p + 3)
              /\ ~(a = 224 /\ b < 160) /\ ~(a = 237 /\ b >= 160)
         /\ Formed(text, p, 4) <=>
              /\ a >= 240 /\ a <= 244 /\ TrailAt(text, p + 2) /\ TrailAt(text, p + 3)
              /\ TrailAt(text, p + 4)
              /\ ~(a = 240 /\ b < 144) /\ ~(a = 244 /\ b >= 144)
  BY SMT DEF Formed

(* WellFormedSequence, written out for each length.                      *)
LEMMA SequenceOf ==
  ASSUME NEW s, \A i \in 1 .. Len(s) : s[i] \in Int
  PROVE  /\ Len(s) = 1 => (Text!WellFormedSequence(s) <=> s[1] >= 0 /\ s[1] <= 127)
         /\ Len(s) = 2 => (Text!WellFormedSequence(s) <=>
              s[1] >= 194 /\ s[1] <= 223 /\ TrailAt(s, 2))
         /\ Len(s) = 3 => (Text!WellFormedSequence(s) <=>
              /\ s[1] >= 224 /\ s[1] <= 239 /\ TrailAt(s, 2) /\ TrailAt(s, 3)
              /\ ~(s[1] = 224 /\ s[2] < 160) /\ ~(s[1] = 237 /\ s[2] >= 160))
         /\ Len(s) = 4 => (Text!WellFormedSequence(s) <=>
              /\ s[1] >= 240 /\ s[1] <= 244 /\ TrailAt(s, 2) /\ TrailAt(s, 3) /\ TrailAt(s, 4)
              /\ ~(s[1] = 240 /\ s[2] < 144) /\ ~(s[1] = 244 /\ s[2] >= 144))
<1>1. CASE Len(s) = 1
  <2>1. s[1] \in Int
    BY <1>1
  <2> QED
    BY <1>1, <2>1, SMT DEF Text!WellFormedSequence
<1>2. CASE Len(s) = 2
  <2>1. s[1] \in Int /\ s[2] \in Int
    BY <1>2
  <2> QED
    BY <1>2, <2>1, SMT DEF Text!WellFormedSequence, Text!Trail, TrailAt
<1>3. CASE Len(s) = 3
  <2>1. s[1] \in Int /\ s[2] \in Int /\ s[3] \in Int
    BY <1>3
  <2> QED
    BY <1>3, <2>1, SMT DEF Text!WellFormedSequence, Text!Trail, TrailAt
<1>4. CASE Len(s) = 4
  <2>1. s[1] \in Int /\ s[2] \in Int /\ s[3] \in Int /\ s[4] \in Int
    BY <1>4
  <2> QED
    BY <1>4, <2>1, SMT DEF Text!WellFormedSequence, Text!Trail, TrailAt
<1>5. CASE Len(s) \notin {1, 2, 3, 4}
  BY <1>5
<1> QED
  BY <1>1, <1>2, <1>3, <1>4, <1>5

(* The octets of a sequence cut out are those at its place in the text.  *)
LEMMA SameSequence ==
  ASSUME NEW s, NEW text, NEW p, NEW k \in 1 .. 4, Len(s) = k,
         \A i \in 1 .. k : s[i] = text[p + i] /\ s[i] \in Int, s[1] >= 0
  PROVE  Text!WellFormedSequence(s) <=> Formed(text, p, k)
<1>1. \A i \in 1 .. Len(s) : s[i] \in Int
  OBVIOUS
<1>2. CASE k = 1
  <2>1. s[1] = text[p + 1] /\ s[1] \in Int
    BY <1>2
  <2>2. Text!WellFormedSequence(s) <=> s[1] >= 0 /\ s[1] <= 127
    BY <1>1, <1>2, SequenceOf
  <2> QED
    BY <1>2, <2>1, <2>2, SMT DEF Formed
<1>3. CASE k = 2
  <2>1. s[1] = text[p + 1] /\ s[2] = text[p + 2]
    BY <1>3
  <2>2. Text!WellFormedSequence(s) <=> s[1] >= 194 /\ s[1] <= 223 /\ TrailAt(s, 2)
    BY <1>1, <1>3, SequenceOf
  <2> QED
    BY <1>3, <2>1, <2>2, SMT DEF Formed, TrailAt
<1>4. CASE k = 3
  <2>1. s[1] = text[p + 1] /\ s[2] = text[p + 2] /\ s[3] = text[p + 3]
    BY <1>4
  <2>2. Text!WellFormedSequence(s) <=>
          /\ s[1] >= 224 /\ s[1] <= 239 /\ TrailAt(s, 2) /\ TrailAt(s, 3)
          /\ ~(s[1] = 224 /\ s[2] < 160) /\ ~(s[1] = 237 /\ s[2] >= 160)
    BY <1>1, <1>4, SequenceOf
  <2> QED
    BY <1>4, <2>1, <2>2, SMT DEF Formed, TrailAt
<1>5. CASE k = 4
  <2>1. s[1] = text[p + 1] /\ s[2] = text[p + 2] /\ s[3] = text[p + 3] /\ s[4] = text[p + 4]
    BY <1>5
  <2>2. Text!WellFormedSequence(s) <=>
          /\ s[1] >= 240 /\ s[1] <= 244 /\ TrailAt(s, 2) /\ TrailAt(s, 3) /\ TrailAt(s, 4)
          /\ ~(s[1] = 240 /\ s[2] < 144) /\ ~(s[1] = 244 /\ s[2] >= 144)
    BY <1>1, <1>5, SequenceOf
  <2>3. PICK a, b : a = text[p + 1] /\ b = text[p + 2]
    OBVIOUS
  <2>4. Formed(text, p, 4) <=>
          /\ a >= 240 /\ a <= 244 /\ TrailAt(text, p + 2) /\ TrailAt(text, p + 3)
          /\ TrailAt(text, p + 4)
          /\ ~(a = 240 /\ b < 144) /\ ~(a = 244 /\ b >= 144)
    BY <2>3, FormedOctets
  <2>5. /\ TrailAt(s, 2) <=> TrailAt(text, p + 2)
        /\ TrailAt(s, 3) <=> TrailAt(text, p + 3)
        /\ TrailAt(s, 4) <=> TrailAt(text, p + 4)
    BY <2>1, SMT DEF TrailAt
  <2> QED
    BY <1>5, <2>1, <2>2, <2>3, <2>4, <2>5, SMT
<1> QED
  BY <1>2, <1>3, <1>4, <1>5

(* A part of a text is a well-formed sequence when it is formed in place.*)
LEMMA SequenceIsFormed ==
  ASSUME NEW text \in Seq(Octet), NEW p \in Nat, NEW k \in 1 .. 4, p + k <= Len(text)
  PROVE  Text!WellFormedSequence(SubSeq(text, p + 1, p + k)) <=> Formed(text, p, k)
<1> DEFINE s == SubSeq(text, p + 1, p + k)
<1>1. Len(s) = p + k - p /\ \A i \in 1 .. p + k - p : s[i] = text[p + i]
  <2>1. p + k \in Nat /\ p <= p + k
    OBVIOUS
  <2> QED
    BY <2>1, PartOf
<1>2. Len(s) = k /\ \A i \in 1 .. k : s[i] = text[p + i]
  <2>1. p + k - p = k
    OBVIOUS
  <2> QED
    BY <1>1, <2>1
<1>3. \A i \in 1 .. k : p + i \in 1 .. Len(text)
  BY OctetsOf
<1>4. \A i \in 1 .. k : text[p + i] \in Int /\ text[p + i] >= 0
  BY <1>3, OctetsOf
<1> HIDE DEF s
<1>5. 1 \in 1 .. k
  OBVIOUS
<1>6. \A i \in 1 .. k : s[i] = text[p + i] /\ s[i] \in Int /\ s[i] >= 0
  BY <1>2, <1>4
<1> QED
  BY <1>2, <1>5, <1>6, SameSequence DEF s

(* The trail octets that increase_safely passes.                         *)
LEMMA TrailsAreThere ==
  ASSUME NEW text \in Seq(Octet), NEW p \in 0 .. Len(text) - 1, NEW k \in 1 .. 4
  PROVE  Text!increase_safely(text, p, k) = "UTF8_OK" <=>
           p + k <= Len(text) /\ \A q \in p + 2 .. p + k : TrailAt(text, q)
<1> DEFINE wrong == {q \in p + 2 .. p + k : q > Len(text) \/ ~Text!is_trail(text[q])}
<1>1. Text!increase_safely(text, p, k) = "UTF8_OK" <=> wrong = {}
  BY DEF Text!increase_safely
<1>2. p \in Nat /\ p + 1 <= Len(text) /\ Len(text) \in Nat
  BY OctetsOf
<1>3. \A q \in p + 2 .. p + k : q <= Len(text) => (Text!is_trail(text[q]) <=> TrailAt(text, q))
  <2>1. ASSUME NEW q \in p + 2 .. p + k, q <= Len(text)
        PROVE  Text!is_trail(text[q]) <=> TrailAt(text, q)
    <3>1. q \in 1 .. Len(text)
      BY <1>2, <2>1
    <3>2. text[q] \in Octet /\ text[q] \in Int
      BY <3>1, OctetsOf
    <3>3. Text!is_trail(text[q]) <=> text[q] \in 128 .. 191
      BY <3>2, LeadOctets
    <3> QED
      BY <3>2, <3>3, TrailsOf
  <2> QED
    BY <2>1
<1>4. ASSUME wrong = {} PROVE p + k <= Len(text) /\ \A q \in p + 2 .. p + k : TrailAt(text, q)
  <2>1. ASSUME k > 1 PROVE p + k <= Len(text)
    <3>1. p + k \in p + 2 .. p + k
      BY <1>2, <2>1
    <3>2. ~(p + k > Len(text))
      BY <1>4, <3>1
    <3> QED
      BY <1>2, <3>2
  <2>2. p + k <= Len(text)
    BY <1>2, <2>1
  <2> QED
    BY <1>2, <1>3, <1>4, <2>2
<1>5. ASSUME p + k <= Len(text), \A q \in p + 2 .. p + k : TrailAt(text, q) PROVE wrong = {}
  BY <1>2, <1>3, <1>5
<1> QED
  BY <1>1, <1>4, <1>5

OctetsFrom(text, p, k) ==
  IF k = 1 THEN <<text[p + 1]>>
  ELSE IF k = 2 THEN <<text[p + 1], text[p + 2]>>
  ELSE IF k = 3 THEN <<text[p + 1], text[p + 2], text[p + 3]>>
  ELSE <<text[p + 1], text[p + 2], text[p + 3], text[p + 4]>>

(* append writes the octets of a sequence, length by length.             *)
LEMMA DecodedOctets ==
  ASSUME NEW text, NEW p, text[p + 1] \in Octet,
         NEW k \in 1 .. 4, k = Text!sequence_length(text[p + 1]),
         k >= 2 => text[p + 2] \in Text!Trail /\ TrailAt(text, p + 2),
         k >= 3 => text[p + 3] \in Text!Trail /\ TrailAt(text, p + 3),
         k >= 4 => text[p + 4] \in Text!Trail /\ TrailAt(text, p + 4),
         NEW cp, cp = Text!get_sequence(text, p, k)
  PROVE  /\ cp \in Nat
         /\ Text!is_code_point_valid(cp) /\ ~Text!is_overlong_sequence(cp, k) <=>
              Formed(text, p, k)
         /\ Formed(text, p, k) => Text!append(cp) = OctetsFrom(text, p, k)
<1>0. PICK a \in Octet : a = text[p + 1]
  OBVIOUS
<1>01. PICK b : b = text[p + 2]
  OBVIOUS
<1>02. PICK c : c = text[p + 3]
  OBVIOUS
<1>03. PICK d : d = text[p + 4]
  OBVIOUS
<1>1. a \in Int /\ a >= 0 /\ a <= 255
  BY SMT DEF Octet
<1>2. k = IF a < 128 THEN 1 ELSE IF a \in 192 .. 223 THEN 2
          ELSE IF a \in 224 .. 239 THEN 3 ELSE IF a \in 240 .. 247 THEN 4 ELSE 0
  BY <1>0, <1>01, <1>02, <1>03, LeadOctets
<1>3. CASE k = 1
  <2>1. a \in 0 .. 127
    BY <1>1, <1>2, <1>3, SMT
  <2>2. cp = a
    BY <1>0, <1>01, <1>02, <1>03, <1>3, Sequences, SMT
  <2>3. a < 128
    BY <2>1, SMT
  <2>4. Formed(text, p, 1)
    BY <1>0, <1>01, <1>02, <1>03, <2>3, FormedOctets
  <2>5. a \in Nat
    BY <2>1
  <2> QED
    BY <1>0, <1>01, <1>02, <1>03, <1>3, <2>1, <2>2, <2>4, <2>5, Decoded1 DEF OctetsFrom
<1>4. CASE k = 2
  <2>1. a \in Lead2 /\ b \in Text!Trail /\ TrailAt(text, p + 2)
    BY <1>0, <1>01, <1>02, <1>03, <1>1, <1>2, <1>4, SMT DEF Lead2
  <2>3. cp = Value2(a, b)
    BY <1>0, <1>01, <1>02, <1>03, <1>4, Sequences
  <2>4. /\ cp \in Nat /\ Text!is_code_point_valid(cp)
        /\ Text!is_overlong_sequence(cp, 2) <=> a < 194
        /\ a >= 194 => Text!append(cp) = <<a, b>>
    BY <2>1, <2>3, Decoded2
  <2>2. a <= 223
    BY <2>1, SMT DEF Lead2
  <2>5. Formed(text, p, 2) <=> a >= 194
    BY <1>0, <1>01, <2>1, <2>2, FormedOctets
  <2>6. a >= 194 <=> ~(a < 194)
    BY <1>1
  <2> QED
    BY <1>0, <1>01, <1>02, <1>03, <1>4, <2>4, <2>5, <2>6 DEF OctetsFrom
<1>5. CASE k = 3
  <2>1. /\ a \in Lead3 /\ b \in Text!Trail /\ c \in Text!Trail
        /\ TrailAt(text, p + 2) /\ TrailAt(text, p + 3)
    BY <1>0, <1>01, <1>02, <1>03, <1>1, <1>2, <1>5, SMT DEF Lead3
  <2>3. cp = Value3(a, b, c)
    BY <1>0, <1>01, <1>02, <1>03, <1>5, Sequences
  <2>4. /\ cp \in Nat
        /\ Text!is_code_point_valid(cp) <=> ~(a = 237 /\ b >= 160)
        /\ Text!is_overlong_sequence(cp, 3) <=> a = 224 /\ b < 160
        /\ Text!is_code_point_valid(cp) /\ ~Text!is_overlong_sequence(cp, 3) =>
             Text!append(cp) = <<a, b, c>>
    BY <2>1, <2>3, Decoded3
  <2>2. a >= 224 /\ a <= 239
    BY <2>1, SMT DEF Lead3
  <2>5. Formed(text, p, 3) <=> ~(a = 224 /\ b < 160) /\ ~(a = 237 /\ b >= 160)
    BY <1>0, <1>01, <2>1, <2>2, FormedOctets
  <2> QED
    BY <1>0, <1>01, <1>02, <1>03, <1>5, <2>4, <2>5 DEF OctetsFrom
<1>6. CASE k = 4
  <2>1. /\ a \in Lead4 /\ b \in Text!Trail /\ c \in Text!Trail /\ d \in Text!Trail
        /\ TrailAt(text, p + 2) /\ TrailAt(text, p + 3) /\ TrailAt(text, p + 4)
    BY <1>0, <1>01, <1>02, <1>03, <1>1, <1>2, <1>6, SMT DEF Lead4
  <2>3. cp = Value4(a, b, c, d)
    BY <1>0, <1>01, <1>02, <1>03, <1>6, Sequences
  <2>4. /\ cp \in Nat
        /\ Text!is_code_point_valid(cp) <=> ~(a > 244 \/ (a = 244 /\ b >= 144))
                                            /\ ~(a = 240 /\ b = 141 /\ c >= 160)
        /\ Text!is_overlong_sequence(cp, 4) <=> a = 240 /\ b < 144
        /\ Text!is_code_point_valid(cp) /\ ~Text!is_overlong_sequence(cp, 4) =>
             Text!append(cp) = <<a, b, c, d>>
    BY <2>1, <2>3, Decoded4
  <2>2. a >= 240 /\ (a <= 244 <=> ~(a > 244))
    BY <2>1, SMT DEF Lead4
  <2>5. Formed(text, p, 4) <=> ~(a > 244 \/ (a = 244 /\ b >= 144)) /\ ~(a = 240 /\ b < 144)
    BY <1>0, <1>01, <2>1, <2>2, FormedOctets
  <2>6. ~(a = 240 /\ b < 144) => ~(a = 240 /\ b = 141 /\ c >= 160)
    OBVIOUS
  <2> QED
    BY <1>0, <1>01, <1>02, <1>03, <1>6, <2>4, <2>5, <2>6 DEF OctetsFrom
<1>7. k = 1 \/ k = 2 \/ k = 3 \/ k = 4
  OBVIOUS
<1> QED
  BY <1>3, <1>4, <1>5, <1>6, <1>7

(* append writes the octets that get_sequence has read.                  *)
LEMMA Decoded ==
  ASSUME NEW text \in Seq(Octet), NEW p \in Nat, NEW k \in 1 .. 4, p + k <= Len(text),
         \A q \in p + 2 .. p + k : TrailAt(text, q),
         k = Text!sequence_length(text[p + 1]),
         NEW cp, cp = Text!get_sequence(text, p, k)
  PROVE  /\ cp \in Nat
         /\ Text!is_code_point_valid(cp) /\ ~Text!is_overlong_sequence(cp, k) <=>
              Formed(text, p, k)
         /\ Formed(text, p, k) => Text!append(cp) = SubSeq(text, p + 1, p + k)
<1> DEFINE s == SubSeq(text, p + 1, p + k)
<1>1. \A i \in 1 .. k : p + i \in 1 .. Len(text)
  BY OctetsOf
<1>2. \A i \in 1 .. k : text[p + i] \in Octet /\ text[p + i] \in Int
  BY <1>1, OctetsOf
<1>3. ASSUME NEW i \in 2 .. k PROVE TrailAt(text, p + i) /\ text[p + i] \in Text!Trail
  <2>1. p + i \in p + 2 .. p + k /\ i \in 1 .. k
    OBVIOUS
  <2>2. TrailAt(text, p + i) /\ text[p + i] \in Int
    BY <1>2, <2>1
  <2> QED
    BY <2>2, TrailsOf
<1>4. /\ k >= 2 => text[p + 2] \in Text!Trail /\ TrailAt(text, p + 2)
      /\ k >= 3 => text[p + 3] \in Text!Trail /\ TrailAt(text, p + 3)
      /\ k >= 4 => text[p + 4] \in Text!Trail /\ TrailAt(text, p + 4)
  <2>1. k >= 2 => 2 \in 2 .. k
    OBVIOUS
  <2>2. k >= 3 => 3 \in 2 .. k
    OBVIOUS
  <2>3. k >= 4 => 4 \in 2 .. k
    OBVIOUS
  <2> QED
    BY <1>3, <2>1, <2>2, <2>3
<1>5. text[p + 1] \in Octet
  BY <1>2
<1>6. /\ cp \in Nat
      /\ Text!is_code_point_valid(cp) /\ ~Text!is_overlong_sequence(cp, k) <=>
           Formed(text, p, k)
      /\ Formed(text, p, k) => Text!append(cp) = OctetsFrom(text, p, k)
  BY <1>4, <1>5, DecodedOctets
<1>7. s \in Seq(Octet) /\ Len(s) = k /\ \A i \in 1 .. k : s[i] = text[p + i]
  <2>1. p + k \in Nat /\ p <= p + k /\ p + k - p = k
    OBVIOUS
  <2>2. Len(s) = p + k - p /\ \A i \in 1 .. p + k - p : s[i] = text[p + i]
    BY <2>1, PartOf
  <2>3. s \in Seq(Octet)
    BY <2>1, PartOf
  <2> QED
    BY <2>1, <2>2, <2>3
<1> HIDE DEF s
<1>8. CASE k = 1
  <2>1. s = <<text[p + 1]>>
    BY <1>7, <1>8
  <2> QED
    BY <1>6, <1>8, <2>1 DEF s, OctetsFrom
<1>9. CASE k = 2
  <2>1. s = <<text[p + 1], text[p + 2]>>
    BY <1>7, <1>9
  <2> QED
    BY <1>6, <1>9, <2>1 DEF s, OctetsFrom
<1>10. CASE k = 3
  <2>1. s = <<text[p + 1], text[p + 2], text[p + 3]>>
    BY <1>7, <1>10
  <2> QED
    BY <1>6, <1>10, <2>1 DEF s, OctetsFrom
<1>11. CASE k = 4
  <2>1. s = <<text[p + 1], text[p + 2], text[p + 3], text[p + 4]>>
    BY <1>7, <1>11
  <2> QED
    BY <1>6, <1>11, <2>1 DEF s, OctetsFrom
<1>12. k = 1 \/ k = 2 \/ k = 3 \/ k = 4
  OBVIOUS
<1> QED
  BY <1>8, <1>9, <1>10, <1>11, <1>12

(* sequence_length of an octet, by its range.                            *)
LEMMA LeadRanges ==
  ASSUME NEW a \in Octet
  PROVE  /\ a < 128 => Text!sequence_length(a) = 1 /\ ~Text!is_trail(a)
         /\ a >= 194 /\ a <= 223 => Text!sequence_length(a) = 2 /\ ~Text!is_trail(a)
         /\ a >= 224 /\ a <= 239 => Text!sequence_length(a) = 3 /\ ~Text!is_trail(a)
         /\ a >= 240 /\ a <= 244 => Text!sequence_length(a) = 4 /\ ~Text!is_trail(a)
  BY SMT DEF Octet, Text!is_trail, Text!sequence_length

(* What validate_next accepts is a well-formed sequence; the iterator    *)
(* passes it, and append makes the same octets of its code point.        *)
CodePoint(cp) == cp \in Nat /\ Text!is_code_point_valid(cp)

SequenceAt(text, p, k, next) ==
  /\ FormedAt(text, p, k) /\ next.it = p + k
  /\ k = Text!sequence_length(text[p + 1]) /\ next.cp = Text!get_sequence(text, p, k)
  /\ CodePoint(next.cp) /\ Text!append(next.cp) = SubSeq(text, p + 1, p + k)

(* A well-formed sequence has a lead octet and then trails only.         *)
LEMMA LeadOfSequence ==
  ASSUME NEW text \in Seq(Octet), NEW p \in 0 .. Len(text) - 1, NEW k \in 1 .. 4,
         FormedAt(text, p, k)
  PROVE  /\ k = Text!sequence_length(text[p + 1]) /\ ~Text!is_trail(text[p + 1])
         /\ \A q \in p + 2 .. p + k : TrailAt(text, q) /\ Text!is_trail(text[q])
<1>1. p + 1 \in 1 .. Len(text) /\ p + k <= Len(text) /\ p \in Nat
  BY OctetsOf DEF FormedAt
<1>2. text[p + 1] \in Octet /\ text[p + 1] \in Int /\ text[p + 1] >= 0
  BY <1>1, OctetsOf
<1>3. PICK a \in Octet : a = text[p + 1] /\ a \in Int /\ a >= 0
  BY <1>2
<1>4. PICK b : b = text[p + 2]
  OBVIOUS
<1>5. Formed(text, p, k)
  BY DEF FormedAt
<1>7. CASE k = 1
  <2>1. a < 128
    BY <1>3, <1>4, <1>5, <1>7, FormedOctets
  <2>2. k = Text!sequence_length(a) /\ ~Text!is_trail(a)
    BY <1>7, <2>1, LeadRanges
  <2>3. p + 2 .. p + k = {}
    BY <1>1, <1>7
  <2> QED
    BY <1>3, <2>2, <2>3
<1>8. ASSUME NEW q \in p + 2 .. p + k, TrailAt(text, q) PROVE Text!is_trail(text[q])
  <2>1. q \in 1 .. Len(text)
    BY <1>1
  <2>2. text[q] \in Octet /\ text[q] \in Int
    BY <2>1, OctetsOf
  <2> QED
    BY <1>8, <2>2, LeadOctets, TrailsOf
<1>9. CASE k = 2
  <2>1. a >= 194 /\ a <= 223 /\ TrailAt(text, p + 2)
    BY <1>3, <1>4, <1>5, <1>9, FormedOctets
  <2>2. k = Text!sequence_length(a) /\ ~Text!is_trail(a)
    BY <1>9, <2>1, LeadRanges
  <2>3. p + 2 .. p + k = {p + 2}
    BY <1>1, <1>9
  <2> QED
    BY <1>3, <1>8, <2>1, <2>2, <2>3
<1>10. CASE k = 3
  <2>1. a >= 224 /\ a <= 239 /\ TrailAt(text, p + 2) /\ TrailAt(text, p + 3)
    BY <1>3, <1>4, <1>5, <1>10, FormedOctets
  <2>2. k = Text!sequence_length(a) /\ ~Text!is_trail(a)
    BY <1>10, <2>1, LeadRanges
  <2>3. p + 2 .. p + k = {p + 2, p + 3}
    BY <1>1, <1>10
  <2> QED
    BY <1>3, <1>8, <2>1, <2>2, <2>3
<1>11. CASE k = 4
  <2>1. /\ a >= 240 /\ a <= 244
        /\ TrailAt(text, p + 2) /\ TrailAt(text, p + 3) /\ TrailAt(text, p + 4)
    BY <1>3, <1>4, <1>5, <1>11, FormedOctets
  <2>2. k = Text!sequence_length(a) /\ ~Text!is_trail(a)
    BY <1>11, <2>1, LeadRanges
  <2>3. p + 2 .. p + k = {p + 2, p + 3, p + 4}
    BY <1>1, <1>11
  <2> QED
    BY <1>3, <1>8, <2>1, <2>2, <2>3
<1>12. k = 1 \/ k = 2 \/ k = 3 \/ k = 4
  OBVIOUS
<1> QED
  BY <1>7, <1>9, <1>10, <1>11, <1>12

(* validate_next accepts a well-formed sequence and nothing else.        *)
LEMMA NextIsSequence ==
  ASSUME NEW text \in Seq(Octet), NEW p \in 0 .. Len(text) - 1,
         NEW next, next = Text!validate_next(text, p)
  PROVE  /\ Text!Valid(next) => \E k \in 1 .. 4 : SequenceAt(text, p, k, next)
         /\ ~Text!Valid(next) => next.it = p
         /\ \A k \in 1 .. 4 : FormedAt(text, p, k) => Text!Valid(next) /\ next.it = p + k
<1>1. PICK length : length = Text!sequence_length(text[p + 1])
  OBVIOUS
<1>2. PICK cp : cp = Text!get_sequence(text, p, length)
  OBVIOUS
<1>3. PICK err : err = IF length = 0 THEN "INVALID_LEAD"
                       ELSE Text!increase_safely(text, p, length)
  OBVIOUS
<1>4. next = IF err # "UTF8_OK" THEN [err |-> err, cp |-> 0, it |-> p]
             ELSE IF ~Text!is_code_point_valid(cp)
               THEN [err |-> "INVALID_CODE_POINT", cp |-> 0, it |-> p]
             ELSE IF Text!is_overlong_sequence(cp, length)
               THEN [err |-> "OVERLONG_SEQUENCE", cp |-> 0, it |-> p]
             ELSE [err |-> "UTF8_OK", cp |-> cp, it |-> p + length]
  BY <1>1, <1>2, <1>3 DEF Text!validate_next
<1>5. p + 1 \in 1 .. Len(text) /\ p \in Nat
  BY OctetsOf
<1>6. length \in 0 .. 4
  <2>1. text[p + 1] \in Octet
    BY <1>5, OctetsOf
  <2> QED
    BY <1>1, <2>1, LeadOctets
<1>7. /\ Text!Valid(next) <=> /\ err = "UTF8_OK" /\ Text!is_code_point_valid(cp)
                              /\ ~Text!is_overlong_sequence(cp, length)
      /\ Text!Valid(next) => next.cp = cp /\ next.it = p + length
      /\ ~Text!Valid(next) => next.it = p
  BY <1>4 DEF Text!Valid
<1>8. ASSUME Text!Valid(next) PROVE length \in 1 .. 4 /\ SequenceAt(text, p, length, next)
  <2>1. length # 0 /\ Text!increase_safely(text, p, length) = "UTF8_OK"
    BY <1>3, <1>7, <1>8
  <2>2. length \in 1 .. 4
    BY <1>6, <2>1
  <2>3. p + length <= Len(text) /\ \A q \in p + 2 .. p + length : TrailAt(text, q)
    BY <2>1, <2>2, TrailsAreThere
  <2>4. /\ cp \in Nat /\ Formed(text, p, length)
        /\ Text!append(cp) = SubSeq(text, p + 1, p + length)
    BY <1>1, <1>2, <1>5, <1>7, <1>8, <2>2, <2>3, Decoded
  <2> QED
    BY <1>1, <1>2, <1>7, <1>8, <2>2, <2>3, <2>4 DEF SequenceAt, FormedAt, CodePoint
<1>9. ASSUME NEW k \in 1 .. 4, FormedAt(text, p, k) PROVE Text!Valid(next) /\ next.it = p + k
  <2>1. k = length /\ \A q \in p + 2 .. p + k : TrailAt(text, q)
    BY <1>1, <1>9, LeadOfSequence
  <2>2. p + k <= Len(text) /\ Formed(text, p, k)
    BY <1>9 DEF FormedAt
  <2>3. Text!is_code_point_valid(cp) /\ ~Text!is_overlong_sequence(cp, length)
    BY <1>1, <1>2, <1>5, <2>1, <2>2, Decoded
  <2>4. Text!increase_safely(text, p, k) = "UTF8_OK"
    BY <2>1, <2>2, TrailsAreThere
  <2>5. k # 0
    OBVIOUS
  <2> QED
    BY <1>3, <1>7, <2>1, <2>3, <2>4, <2>5
<1> QED
  BY <1>7, <1>8, <1>9

(* What holds at a position of a text if it holds at all later ones holds*)
(* at all.                                                               *)
LEMMA Backwards ==
  ASSUME NEW N \in Nat, NEW S,
         \A p \in 0 .. N : (\A q \in p + 1 .. N : q \in S) => p \in S
  PROVE  0 .. N \subseteq S
<1> DEFINE T == {n \in 0 .. N : N - n \notin S}
<1> SUFFICES ASSUME NEW r \in 0 .. N, r \notin S PROVE FALSE
  OBVIOUS
<1>1. T \subseteq Nat /\ N - r \in T
  <2>1. N - r \in 0 .. N /\ N - (N - r) = r
    OBVIOUS
  <2> QED
    BY <2>1
<1>2. PICK n \in T : \A m \in T : n <= m
  <2> HIDE DEF T
  <2> QED
    BY <1>1, LeastNatural
<1>3. N - n \in 0 .. N /\ N - n \notin S
  BY <1>2
<1>4. ASSUME NEW q \in N - n + 1 .. N PROVE q \in S
  <2>1. N - q \in 0 .. N /\ N - (N - q) = q /\ ~(n <= N - q)
    BY <1>3
  <2>2. N - q \notin T
    BY <1>2, <2>1
  <2> QED
    BY <2>1, <2>2
<1> QED
  BY <1>3, <1>4

(* A walk over a text goes from position to position until it stops; a   *)
(* walk like that there is.                                              *)
Walking(f, from, N, stop, base, joins, piece, next) ==
  [p \in from .. N |-> IF p \in stop THEN base[p]
                       ELSE IF joins THEN piece[p] \o f[next[p]] ELSE f[next[p]]]

HasWalk(N, stop, base, joins, piece, next) ==
  \E f : f = Walking(f, 0, N, stop, base, joins, piece, next)

LEMMA WalkExists ==
  ASSUME NEW N \in Nat, NEW stop, NEW base, NEW joins, NEW piece, NEW next,
         \A p \in 0 .. N : p \notin stop => next[p] \in p + 1 .. N
  PROVE  HasWalk(N, stop, base, joins, piece, next)
<1> DEFINE W(f, from) == Walking(f, from, N, stop, base, joins, piece, next)
           S == {p \in 0 .. N : \E f : f = W(f, p)}
<1>1. ASSUME NEW p \in 0 .. N, \A q \in p + 1 .. N : q \in S PROVE p \in S
  <2>1. PICK g : p < N => g = W(g, p + 1)
    <3>1. CASE p < N
      <4>1. p + 1 \in p + 1 .. N
        BY <3>1
      <4> QED
        BY <1>1, <4>1
    <3> QED
      BY <3>1
  <2> DEFINE f == [q \in p .. N |-> IF q \in stop THEN base[q]
                                    ELSE IF joins THEN piece[q] \o g[next[q]] ELSE g[next[q]]]
  <2>2. ASSUME NEW q \in p .. N, q \notin stop PROVE f[next[q]] = g[next[q]]
    <3>1. next[q] \in q + 1 .. N
      BY <2>2
    <3>2. p < N /\ next[q] \in p + 1 .. N /\ next[q] \in p .. N
      BY <3>1
    <3>3. g[next[q]] = W(g, p + 1)[next[q]]
      BY <2>1, <3>2
    <3>4. W(g, p + 1)[next[q]] = f[next[q]]
      BY <3>2 DEF Walking
    <3> QED
      BY <3>3, <3>4
  <2>3. W(f, p) = f
    <3>1. W(f, p) = [q \in p .. N |-> IF q \in stop THEN base[q]
                                      ELSE IF joins THEN piece[q] \o f[next[q]] ELSE f[next[q]]]
      BY DEF Walking
    <3> HIDE DEF f
    <3>2. \A q \in p .. N :
            (IF q \in stop THEN base[q]
             ELSE IF joins THEN piece[q] \o f[next[q]] ELSE f[next[q]])
            = (IF q \in stop THEN base[q]
               ELSE IF joins THEN piece[q] \o g[next[q]] ELSE g[next[q]])
      BY <2>2
    <3>3. W(f, p) = [q \in p .. N |-> IF q \in stop THEN base[q]
                                      ELSE IF joins THEN piece[q] \o g[next[q]] ELSE g[next[q]]]
      BY <3>1, <3>2, Zenon
    <3> QED
      BY <3>3, Zenon DEF f
  <2> QED
    BY <2>3
<1>2. 0 \in S
  <2> HIDE DEF S
  <2>1. 0 .. N \subseteq S
    BY <1>1, Backwards
  <2> QED
    BY <2>1
<1> QED
  BY <1>2 DEF HasWalk

(* The positions where the walk over a text stops, and the next ones.    *)
Ends(text) == {p \in 0 .. Len(text) : p = Len(text) \/ ~Text!Valid(Text!validate_next(text, p))}
NextAt(text) == [p \in 0 .. Len(text) |-> Text!validate_next(text, p).it]

(* A walk goes on from a position it does not stop at.                   *)
LEMMA Onwards ==
  ASSUME NEW text \in Seq(Octet), NEW p \in 0 .. Len(text), p \notin Ends(text)
  PROVE  /\ NextAt(text)[p] \in p + 1 .. Len(text) /\ p \in 0 .. Len(text) - 1
         /\ \E k \in 1 .. 4 : SequenceAt(text, p, k, Text!validate_next(text, p))
<1>1. p # Len(text) /\ Text!Valid(Text!validate_next(text, p))
  BY DEF Ends
<1>2. p \in 0 .. Len(text) - 1 /\ p \in Nat /\ Len(text) \in Nat
  BY <1>1, OctetsOf
<1>3. PICK k \in 1 .. 4 : SequenceAt(text, p, k, Text!validate_next(text, p))
  BY <1>1, <1>2, NextIsSequence
<1>4. NextAt(text)[p] = p + k /\ p + k <= Len(text)
  BY <1>3 DEF NextAt, SequenceAt, FormedAt
<1>5. p + k \in p + 1 .. Len(text)
  BY <1>2, <1>4
<1> QED
  BY <1>2, <1>3, <1>4, <1>5

(* A position is one where the walk stops, or has a sequence.            *)
LEMMA EndOrNot ==
  ASSUME NEW text, NEW p \in 0 .. Len(text)
  PROVE  /\ p \in Ends(text) <=> p = Len(text) \/ ~Text!Valid(Text!validate_next(text, p))
         /\ NextAt(text)[p] = Text!validate_next(text, p).it
  BY DEF Ends, NextAt

(* find_invalid.                                                         *)
Finding(f, text) ==
  [p \in 0 .. Len(text) |->
     IF p = Len(text) \/ ~Text!Valid(Text!validate_next(text, p)) THEN p
     ELSE f[Text!validate_next(text, p).it]]

Find(text) == CHOOSE f : f = Finding(f, text)

(* find_invalid is the walk that stops at the first position without one.*)
LEMMA Finds ==
  ASSUME NEW text \in Seq(Octet)
  PROVE  /\ Text!find_invalid(text) = Find(text)[0]
         /\ \A p \in 0 .. Len(text) :
              Find(text)[p] = IF p \in Ends(text) THEN p ELSE Find(text)[NextAt(text)[p]]
<1> DEFINE N == Len(text)
           b == [p \in 0 .. N |-> p]
<1>1. N \in Nat
  BY OctetsOf
<1>2. PICK f : f = Walking(f, 0, N, Ends(text), b, FALSE, <<>>, NextAt(text))
  <2>1. HasWalk(N, Ends(text), b, FALSE, <<>>, NextAt(text))
    BY <1>1, Onwards, WalkExists
  <2> QED
    BY <2>1 DEF HasWalk
<1>3. \A p \in 0 .. N :
        (IF p \in Ends(text) THEN b[p]
         ELSE IF FALSE THEN <<>>[p] \o f[NextAt(text)[p]] ELSE f[NextAt(text)[p]])
        = IF p = Len(text) \/ ~Text!Valid(Text!validate_next(text, p)) THEN p
          ELSE f[Text!validate_next(text, p).it]
  BY EndOrNot
<1>4. f = Finding(f, text)
  BY <1>2, <1>3 DEF Walking, Finding
<1>5. Find(text) = Finding(Find(text), text)
  BY <1>4 DEF Find
<1>6. Text!find_invalid(text) = Find(text)[0]
  BY DEF Text!find_invalid, Find, Finding
<1>7. ASSUME NEW p \in 0 .. N
      PROVE  Find(text)[p] = IF p \in Ends(text) THEN p ELSE Find(text)[NextAt(text)[p]]
  <2>1. Find(text)[p] = Finding(Find(text), text)[p]
    BY <1>5
  <2>2. Finding(Find(text), text)[p]
        = IF p = Len(text) \/ ~Text!Valid(Text!validate_next(text, p)) THEN p
          ELSE Find(text)[Text!validate_next(text, p).it]
    BY DEF Finding
  <2> QED
    BY <2>1, <2>2, EndOrNot
<1> QED
  BY <1>6, <1>7

(* How the first n octets of a text can be cut into sequences.           *)
Cut(text, n, cuts) ==
  /\ cuts \subseteq 0 .. n /\ 0 \in cuts
  /\ \A c \in cuts \ {n} : \E k \in 1 .. 4 : c + k \in cuts /\ FormedAt(text, c, k)

(* A text is well formed exactly when it can be cut into sequences.      *)
LEMMA WellFormedIsCut ==
  ASSUME NEW text \in Seq(Octet)
  PROVE  Text!WellFormed(text) <=> \E cuts : Cut(text, Len(text), cuts)
<1>1. Len(text) \in Nat
  BY OctetsOf
<1>2. ASSUME NEW c \in 0 .. Len(text), NEW k \in 1 .. 4, c + k \in 0 .. Len(text)
      PROVE  Text!WellFormedSequence(SubSeq(text, c + 1, c + k)) <=> FormedAt(text, c, k)
  <2>1. c \in Nat /\ c + k <= Len(text)
    BY <1>1, <1>2
  <2> QED
    BY <2>1, SequenceIsFormed DEF FormedAt
<1>3. ASSUME NEW cuts \in SUBSET (0 .. Len(text)), 0 \in cuts,
             \A c \in cuts \ {Len(text)} : \E k \in 1 .. 4 :
               c + k \in cuts /\ Text!WellFormedSequence(SubSeq(text, c + 1, c + k))
      PROVE  Cut(text, Len(text), cuts)
  <2>1. ASSUME NEW c \in cuts \ {Len(text)}
        PROVE  \E k \in 1 .. 4 : c + k \in cuts /\ FormedAt(text, c, k)
    BY <1>2, <1>3
  <2> QED
    BY <1>3, <2>1 DEF Cut
<1>4. ASSUME NEW cuts, Cut(text, Len(text), cuts)
      PROVE  \A c \in cuts \ {Len(text)} : \E k \in 1 .. 4 :
               c + k \in cuts /\ Text!WellFormedSequence(SubSeq(text, c + 1, c + k))
  BY <1>2, <1>4 DEF Cut
<1> QED
  BY <1>3, <1>4 DEF Text!WellFormed, Cut

(* A walk of find_invalid from a cut gets to the last cut.               *)
LEMMA CutsAreFound ==
  ASSUME NEW text \in Seq(Octet), NEW n \in 0 .. Len(text), NEW cuts, Cut(text, n, cuts),
         n \in cuts \/ n = Len(text)
  PROVE  Find(text)[0] = Find(text)[n]
<1> DEFINE S == {c \in 0 .. n : c \in cuts => Find(text)[c] = Find(text)[n]}
<1>1. Len(text) \in Nat /\ n \in Nat /\ n <= Len(text)
  BY OctetsOf
<1>2. ASSUME NEW c \in 0 .. n, \A d \in c + 1 .. n : d \in S PROVE c \in S
  <2> SUFFICES ASSUME c \in cuts, c # n PROVE Find(text)[c] = Find(text)[n]
    OBVIOUS
  <2>1. PICK k \in 1 .. 4 : c + k \in cuts /\ FormedAt(text, c, k)
    BY DEF Cut
  <2>2. c \in 0 .. Len(text) - 1 /\ c \in 0 .. Len(text) /\ c # Len(text)
    BY <1>1
  <2>3. Text!Valid(Text!validate_next(text, c)) /\ Text!validate_next(text, c).it = c + k
    BY <2>1, <2>2, NextIsSequence
  <2>4. c + k \in 0 .. n
    BY <2>1 DEF Cut
  <2>5. c + k \in S
    <3>1. c + k \in c + 1 .. n
      BY <2>4
    <3> QED
      BY <1>2, <3>1
  <2>6. Find(text)[c + k] = Find(text)[n]
    BY <2>1, <2>5
  <2>7. c \notin Ends(text) /\ NextAt(text)[c] = c + k
    BY <2>2, <2>3, EndOrNot
  <2>8. Find(text)[c] = Find(text)[c + k]
    BY <2>2, <2>7, Finds
  <2> QED
    BY <2>6, <2>8
<1>3. 0 .. n \subseteq S
  <2> HIDE DEF S
  <2> QED
    BY <1>1, <1>2, Backwards
<1>4. 0 \in cuts /\ 0 \in 0 .. n
  BY <1>1 DEF Cut
<1> QED
  BY <1>3, <1>4

(* The positions from which the walk gets to the end of the text.        *)
Good(text) == {p \in 0 .. Len(text) : Find(text)[p] = Len(text)}

(* From such a position, not the end, there is a sequence to the next one.*)
LEMMA GoodGoesOn ==
  ASSUME NEW text \in Seq(Octet), NEW p \in Good(text), p # Len(text)
  PROVE  /\ p \in 0 .. Len(text) - 1 /\ p \notin Ends(text)
         /\ \E k \in 1 .. 4 : /\ SequenceAt(text, p, k, Text!validate_next(text, p))
                              /\ p + k \in Good(text)
<1>1. p \in 0 .. Len(text) /\ Find(text)[p] = Len(text)
  BY DEF Good
<1>2. p \notin Ends(text) /\ Find(text)[NextAt(text)[p]] = Len(text)
  BY <1>1, Finds
<1>3. PICK k \in 1 .. 4 : SequenceAt(text, p, k, Text!validate_next(text, p))
  BY <1>1, <1>2, Onwards
<1>4. NextAt(text)[p] = p + k /\ NextAt(text)[p] \in p + 1 .. Len(text)
      /\ p \in 0 .. Len(text) - 1
  BY <1>1, <1>2, <1>3, Onwards, EndOrNot DEF SequenceAt
<1>5. p + k \in 0 .. Len(text)
  BY <1>1, <1>4
<1> QED
  BY <1>2, <1>3, <1>4, <1>5 DEF Good

(* is_valid is true of exactly the well-formed texts.                    *)
LEMMA ValidIsWellFormed ==
  ASSUME NEW text \in Seq(Octet)
  PROVE  /\ Text!is_valid(text) <=> Text!WellFormed(text)
         /\ Text!is_valid(text) <=> 0 \in Good(text)
<1>1. Len(text) \in Nat /\ 0 \in 0 .. Len(text) /\ Len(text) \in 0 .. Len(text)
  BY OctetsOf
<1>2. Text!is_valid(text) <=> 0 \in Good(text)
  BY <1>1, Finds DEF Text!is_valid, Good
<1>3. Find(text)[Len(text)] = Len(text)
  BY <1>1, Finds, EndOrNot
<1>4. ASSUME 0 \in Good(text) PROVE Cut(text, Len(text), Good(text))
  <2>1. ASSUME NEW p \in Good(text) \ {Len(text)}
        PROVE  \E k \in 1 .. 4 : p + k \in Good(text) /\ FormedAt(text, p, k)
    BY <2>1, GoodGoesOn DEF SequenceAt
  <2>2. Good(text) \subseteq 0 .. Len(text)
    BY DEF Good
  <2> QED
    BY <1>4, <2>1, <2>2 DEF Cut
<1>5. ASSUME NEW cuts, Cut(text, Len(text), cuts) PROVE 0 \in Good(text)
  <2>1. Find(text)[0] = Find(text)[Len(text)]
    BY <1>1, <1>5, CutsAreFound
  <2> QED
    BY <1>1, <1>3, <2>1 DEF Good
<1> QED
  BY <1>2, <1>4, <1>5, WellFormedIsCut

(* One sequence behind another, element by element.                      *)
LEMMA Behind ==
  ASSUME NEW T, NEW s \in Seq(T), NEW t \in Seq(T)
  PROVE  /\ s \o t \in Seq(T) /\ Len(s \o t) = Len(s) + Len(t)
         /\ Len(s) \in Nat /\ Len(t) \in Nat
         /\ \A i \in 1 .. Len(s) : (s \o t)[i] = s[i]
         /\ \A i \in 1 .. Len(t) : (s \o t)[Len(s) + i] = t[i]
<1>1. Len(s) \in Nat /\ Len(t) \in Nat
  BY LenProperties
<1>2. /\ s \o t \in Seq(T) /\ Len(s \o t) = Len(s) + Len(t)
      /\ \A i \in 1 .. Len(s) + Len(t) :
           (s \o t)[i] = IF i <= Len(s) THEN s[i] ELSE t[i - Len(s)]
  BY ConcatProperties
<1>3. ASSUME NEW i \in 1 .. Len(s) PROVE (s \o t)[i] = s[i]
  <2>1. i \in 1 .. Len(s) + Len(t) /\ i <= Len(s)
    BY <1>1
  <2> QED
    BY <1>2, <2>1
<1>4. ASSUME NEW i \in 1 .. Len(t) PROVE (s \o t)[Len(s) + i] = t[i]
  <2>1. /\ Len(s) + i \in 1 .. Len(s) + Len(t) /\ ~(Len(s) + i <= Len(s))
        /\ Len(s) + i - Len(s) = i
    BY <1>1
  <2> QED
    BY <1>2, <2>1
<1> QED
  BY <1>1, <1>2, <1>3, <1>4

(* Two neighbouring parts of a text make one part.                       *)
LEMMA Adjacent ==
  ASSUME NEW T, NEW text \in Seq(T), NEW p \in Nat, NEW m \in Nat, p <= m, m <= Len(text)
  PROVE  SubSeq(text, p + 1, m) \o SubSeq(text, m + 1, Len(text))
           = SubSeq(text, p + 1, Len(text))
<1>1. Len(text) \in Nat
  BY LenProperties
<1>2. PICK first : first = p + 1
  OBVIOUS
<1>3. /\ first \in 1 .. Len(text) + 1 /\ m \in (first - 1) .. Len(text)
      /\ Len(text) \in m .. Len(text)
  BY <1>1, <1>2
<1>4. SubSeq(text, first, m) \o SubSeq(text, m + 1, Len(text)) = SubSeq(text, first, Len(text))
  BY <1>3, ConcatAdjacentSubSeq
<1> QED
  BY <1>2, <1>4

(* utf8to32 and utf8to16: what is written from a position on.            *)
Slices(f, text, piece) ==
  [p \in 0 .. Len(text) |->
     IF p = Len(text) \/ ~Text!Valid(Text!validate_next(text, p)) THEN <<>>
     ELSE piece[p] \o f[Text!validate_next(text, p).it]]

Points(text) ==
  CHOOSE f : f = [p \in 0 .. Len(text) |->
     IF p = Len(text) \/ ~Text!Valid(Text!validate_next(text, p)) THEN <<>>
     ELSE <<Text!validate_next(text, p).cp>> \o f[Text!validate_next(text, p).it]]

WordsOf(text) ==
  CHOOSE f : f = [p \in 0 .. Len(text) |->
     IF p = Len(text) \/ ~Text!Valid(Text!validate_next(text, p)) THEN <<>>
     ELSE Text!Words(Text!validate_next(text, p).cp) \o f[Text!validate_next(text, p).it]]

(* There is such a function for whatever is written at each position.    *)
LEMMA PiecesExist ==
  ASSUME NEW text \in Seq(Octet), NEW piece
  PROVE  \E f : f = Slices(f, text, piece)
<1> DEFINE N == Len(text)
           b == [p \in 0 .. N |-> <<>>]
<1>1. N \in Nat
  BY OctetsOf
<1>2. PICK f : f = Walking(f, 0, N, Ends(text), b, TRUE, piece, NextAt(text))
  <2>1. HasWalk(N, Ends(text), b, TRUE, piece, NextAt(text))
    BY <1>1, Onwards, WalkExists
  <2> QED
    BY <2>1 DEF HasWalk
<1>3. \A p \in 0 .. N :
        (IF p \in Ends(text) THEN b[p]
         ELSE IF TRUE THEN piece[p] \o f[NextAt(text)[p]] ELSE f[NextAt(text)[p]])
        = IF p = Len(text) \/ ~Text!Valid(Text!validate_next(text, p)) THEN <<>>
          ELSE piece[p] \o f[Text!validate_next(text, p).it]
  BY EndOrNot
<1>4. f = Slices(f, text, piece)
  BY <1>2, <1>3 DEF Walking, Slices
<1> QED
  BY <1>4

(* utf8to32 writes one code point for each sequence it passes.           *)
LEMMA PointsAre ==
  ASSUME NEW text \in Seq(Octet)
  PROVE  /\ Text!utf8to32(text) = Points(text)[0]
         /\ \A p \in 0 .. Len(text) :
              Points(text)[p] = IF p \in Ends(text) THEN <<>>
                                ELSE <<Text!validate_next(text, p).cp>>
                                       \o Points(text)[NextAt(text)[p]]
<1> DEFINE piece == [p \in 0 .. Len(text) |-> <<Text!validate_next(text, p).cp>>]
           Body(f) == [p \in 0 .. Len(text) |->
             IF p = Len(text) \/ ~Text!Valid(Text!validate_next(text, p)) THEN <<>>
             ELSE <<Text!validate_next(text, p).cp>> \o f[Text!validate_next(text, p).it]]
<1>1. PICK f : f = Slices(f, text, piece)
  BY PiecesExist
<1>2. f = Body(f)
  <2>1. Slices(f, text, piece) = Body(f)
    BY DEF Slices
  <2> QED
    BY <1>1, <2>1
<1>3. Points(text) = Body(Points(text))
  BY <1>2 DEF Points
<1>4. Text!utf8to32(text) = Points(text)[0]
  BY DEF Text!utf8to32, Points
<1>5. ASSUME NEW p \in 0 .. Len(text)
      PROVE  Points(text)[p] = IF p \in Ends(text) THEN <<>>
                               ELSE <<Text!validate_next(text, p).cp>>
                                      \o Points(text)[NextAt(text)[p]]
  <2>1. Points(text)[p] = Body(Points(text))[p]
    BY <1>3
  <2> QED
    BY <2>1, EndOrNot
<1> QED
  BY <1>4, <1>5

(* utf8to16 writes the words of each code point it passes.               *)
LEMMA WordsAre ==
  ASSUME NEW text \in Seq(Octet)
  PROVE  /\ Text!utf8to16(text) = WordsOf(text)[0]
         /\ \A p \in 0 .. Len(text) :
              WordsOf(text)[p] = IF p \in Ends(text) THEN <<>>
                                 ELSE Text!Words(Text!validate_next(text, p).cp)
                                        \o WordsOf(text)[NextAt(text)[p]]
<1> DEFINE piece == [p \in 0 .. Len(text) |-> Text!Words(Text!validate_next(text, p).cp)]
           Body(f) == [p \in 0 .. Len(text) |->
             IF p = Len(text) \/ ~Text!Valid(Text!validate_next(text, p)) THEN <<>>
             ELSE Text!Words(Text!validate_next(text, p).cp)
                    \o f[Text!validate_next(text, p).it]]
<1>1. PICK f : f = Slices(f, text, piece)
  BY PiecesExist
<1>2. f = Body(f)
  <2>1. Slices(f, text, piece) = Body(f)
    BY DEF Slices
  <2> QED
    BY <1>1, <2>1
<1>3. WordsOf(text) = Body(WordsOf(text))
  BY <1>2 DEF WordsOf
<1>4. Text!utf8to16(text) = WordsOf(text)[0]
  BY DEF Text!utf8to16, WordsOf
<1>5. ASSUME NEW p \in 0 .. Len(text)
      PROVE  WordsOf(text)[p] = IF p \in Ends(text) THEN <<>>
                                ELSE Text!Words(Text!validate_next(text, p).cp)
                                       \o WordsOf(text)[NextAt(text)[p]]
  <2>1. WordsOf(text)[p] = Body(WordsOf(text))[p]
    BY <1>3
  <2> QED
    BY <2>1, EndOrNot
<1> QED
  BY <1>4, <1>5

(* utf32to8.                                                             *)
Encoding(f, cps) ==
  [p \in 0 .. Len(cps) |->
     IF p = Len(cps) \/ ~Text!is_code_point_valid(cps[p + 1]) THEN <<>>
     ELSE Text!append(cps[p + 1]) \o f[p + 1]]

Encoded(cps) == CHOOSE f : f = Encoding(f, cps)

(* utf32to8 appends the octets of one code point after the other.        *)
LEMMA EncodesPoint ==
  ASSUME NEW cps \in Seq(Nat)
  PROVE  /\ Text!utf32to8(cps) = Encoded(cps)[0]
         /\ \A p \in 0 .. Len(cps) :
              Encoded(cps)[p] = IF p = Len(cps) \/ ~Text!is_code_point_valid(cps[p + 1]) THEN <<>>
                                ELSE Text!append(cps[p + 1]) \o Encoded(cps)[p + 1]
<1> DEFINE N == Len(cps)
           b == [p \in 0 .. N |-> <<>>]
           stop == {p \in 0 .. N : p = N \/ ~Text!is_code_point_valid(cps[p + 1])}
           piece == [p \in 0 .. N |-> Text!append(cps[p + 1])]
           next == [p \in 0 .. N |-> p + 1]
<1>1. N \in Nat
  BY LenProperties
<1>2. \A p \in 0 .. N : p \notin stop => next[p] \in p + 1 .. N
  <2>1. ASSUME NEW p \in 0 .. N, p # N PROVE p + 1 \in p + 1 .. N
    BY <1>1, <2>1
  <2> QED
    BY <2>1
<1>3. PICK f : f = Walking(f, 0, N, stop, b, TRUE, piece, next)
  <2> HIDE DEF N, b, stop, piece, next
  <2>1. HasWalk(N, stop, b, TRUE, piece, next)
    BY <1>1, <1>2, WalkExists
  <2> QED
    BY <2>1 DEF HasWalk
<1>4. f = Encoding(f, cps)
  BY <1>3 DEF Walking, Encoding
<1>5. Encoded(cps) = Encoding(Encoded(cps), cps)
  BY <1>4 DEF Encoded
<1>6. Text!utf32to8(cps) = Encoded(cps)[0]
  BY DEF Text!utf32to8, Encoded, Encoding
<1>7. \A p \in 0 .. N : Encoded(cps)[p] = Encoding(Encoded(cps), cps)[p]
  BY <1>5
<1> QED
  BY <1>6, <1>7 DEF Encoding

(* utf32to8 of a first code point and the rest.                          *)
LEMMA FirstEncoded ==
  ASSUME NEW cp, CodePoint(cp), NEW r \in Seq(Nat)
  PROVE  Text!utf32to8(<<cp>> \o r) = Text!append(cp) \o Text!utf32to8(r)
<1> DEFINE s == <<cp>> \o r
           S == {q \in 0 .. Len(r) : Encoded(s)[q + 1] = Encoded(r)[q]}
<1>1. <<cp>> \in Seq(Nat) /\ Len(<<cp>>) = 1 /\ <<cp>>[1] = cp
  BY DEF CodePoint
<1>2. /\ s \in Seq(Nat) /\ Len(s) = 1 + Len(r) /\ Len(r) \in Nat
      /\ s[1] = cp /\ \A i \in 1 .. Len(r) : s[1 + i] = r[i]
  <2>1. 1 \in 1 .. 1
    OBVIOUS
  <2> QED
    BY <1>1, <2>1, Behind
<1> HIDE DEF s
<1>3. ASSUME NEW q \in 0 .. Len(r), \A m \in q + 1 .. Len(r) : m \in S PROVE q \in S
  <2>1. q + 1 \in 0 .. Len(s) /\ (q + 1 = Len(s) <=> q = Len(r)) /\ q + 1 + 1 = 1 + (q + 1)
    BY <1>2
  <2>2. CASE q = Len(r)
    <3>1. Encoded(s)[q + 1] = <<>> /\ Encoded(r)[q] = <<>>
      BY <1>2, <2>1, <2>2, EncodesPoint
    <3> QED
      BY <3>1
  <2>3. CASE q # Len(r)
    <3>1. q + 1 \in 1 .. Len(r) /\ q + 1 \in q + 1 .. Len(r)
      BY <1>2, <2>3
    <3>2. s[q + 1 + 1] = r[q + 1] /\ Encoded(s)[q + 1 + 1] = Encoded(r)[q + 1]
      BY <1>2, <1>3, <2>1, <3>1
    <3>3. Encoded(s)[q + 1] = IF ~Text!is_code_point_valid(s[q + 1 + 1]) THEN <<>>
                              ELSE Text!append(s[q + 1 + 1]) \o Encoded(s)[q + 1 + 1]
      BY <1>2, <2>1, <2>3, EncodesPoint
    <3>4. Encoded(r)[q] = IF ~Text!is_code_point_valid(r[q + 1]) THEN <<>>
                          ELSE Text!append(r[q + 1]) \o Encoded(r)[q + 1]
      BY <2>3, EncodesPoint
    <3> QED
      BY <3>2, <3>3, <3>4
  <2> QED
    BY <2>2, <2>3
<1>4. 0 \in S
  <2> HIDE DEF S
  <2>1. 0 .. Len(r) \subseteq S
    BY <1>2, <1>3, Backwards
  <2>2. 0 \in 0 .. Len(r)
    BY <1>2
  <2> QED
    BY <2>1, <2>2
<1>5. Encoded(s)[1] = Encoded(r)[0]
  BY <1>4
<1>6. 0 \in 0 .. Len(s) /\ 0 # Len(s) /\ 0 + 1 = 1
  BY <1>2
<1>7. Encoded(s)[0] = Text!append(cp) \o Encoded(s)[1]
  <2>1. Text!is_code_point_valid(s[0 + 1])
    BY <1>2, <1>6 DEF CodePoint
  <2>2. Encoded(s)[0] = IF 0 = Len(s) \/ ~Text!is_code_point_valid(s[0 + 1]) THEN <<>>
                        ELSE Text!append(s[0 + 1]) \o Encoded(s)[0 + 1]
    BY <1>2, <1>6, EncodesPoint
  <2>3. s[0 + 1] = cp /\ Encoded(s)[0 + 1] = Encoded(s)[1]
    BY <1>2, <1>6
  <2>4. 0 # Len(s)
    BY <1>6
  <2>5. Encoded(s)[0] = Text!append(s[0 + 1]) \o Encoded(s)[0 + 1]
    BY <2>1, <2>2, <2>4, Zenon
  <2> QED
    BY <2>3, <2>5
<1> QED
  BY <1>2, <1>5, <1>7, EncodesPoint DEF s

(* utf8to32 and back gives the same octets.                              *)
LEMMA BackFromPoints ==
  ASSUME NEW text \in Seq(Octet), Text!is_valid(text)
  PROVE  Text!utf32to8(Text!utf8to32(text)) = text
<1> DEFINE N == Len(text)
           S == {p \in 0 .. N : p \in Good(text) =>
                   /\ Points(text)[p] \in Seq(Nat)
                   /\ Text!utf32to8(Points(text)[p]) = SubSeq(text, p + 1, N)}
<1>1. N \in Nat
  BY OctetsOf
<1>2. ASSUME NEW p \in 0 .. N, \A q \in p + 1 .. N : q \in S PROVE p \in S
  <2>1. CASE p = N
    <3>1. Points(text)[p] = <<>>
      BY <2>1, PointsAre, EndOrNot
    <3>2. <<>> \in Seq(Nat) /\ Len(<<>>) = 0 /\ 0 \in 0 .. Len(<<>>)
      OBVIOUS
    <3>3. Text!utf32to8(<<>>) = <<>>
      BY <3>2, EncodesPoint
    <3>4. p + 1 \in Int /\ N \in Int /\ N < p + 1
      BY <1>1, <2>1
    <3>5. SubSeq(text, p + 1, N) = <<>>
      BY <3>4, SubSeqEmpty
    <3> QED
      BY <3>1, <3>2, <3>3, <3>5
  <2>2. CASE p # N /\ p \in Good(text)
    <3>1. PICK k \in 1 .. 4 : /\ SequenceAt(text, p, k, Text!validate_next(text, p))
                              /\ p + k \in Good(text)
      BY <2>2, GoodGoesOn
    <3>2. p \notin Ends(text) /\ NextAt(text)[p] = p + k
      BY <2>2, <3>1, GoodGoesOn, EndOrNot DEF SequenceAt
    <3>3. PICK cp : cp = Text!validate_next(text, p).cp
      OBVIOUS
    <3>4. CodePoint(cp) /\ Text!append(cp) = SubSeq(text, p + 1, p + k)
      BY <3>1, <3>3 DEF SequenceAt
    <3>5. p + k \in 0 .. N /\ p + k \in p + 1 .. N
      <4>1. p + k \in 0 .. N
        BY <3>1 DEF Good
      <4> QED
        BY <1>1, <4>1
    <3>6. PICK r : r = Points(text)[p + k]
      OBVIOUS
    <3>7. r \in Seq(Nat) /\ Text!utf32to8(r) = SubSeq(text, p + k + 1, N)
      <4>1. p + k \in S
        BY <1>2, <3>5
      <4> QED
        BY <3>1, <3>6, <4>1
    <3>8. Points(text)[p] = <<cp>> \o r
      BY <3>2, <3>3, <3>6, PointsAre
    <3>9. Text!utf32to8(<<cp>> \o r) = SubSeq(text, p + 1, p + k) \o SubSeq(text, p + k + 1, N)
      BY <3>4, <3>7, FirstEncoded
    <3>10. SubSeq(text, p + 1, p + k) \o SubSeq(text, p + k + 1, N) = SubSeq(text, p + 1, N)
      <4>1. p \in Nat /\ p + k \in Nat /\ p <= p + k /\ p + k <= N
        BY <1>1, <3>5
      <4> QED
        BY <4>1, Adjacent
    <3>11. <<cp>> \o r \in Seq(Nat)
      <4>1. <<cp>> \in Seq(Nat)
        BY <3>4 DEF CodePoint
      <4> QED
        BY <3>7, <4>1, Behind
    <3> QED
      BY <3>8, <3>9, <3>10, <3>11
  <2> QED
    BY <2>1, <2>2
<1>3. 0 \in S
  <2> HIDE DEF S
  <2>1. 0 .. N \subseteq S
    BY <1>1, <1>2, Backwards
  <2>2. 0 \in 0 .. N
    BY <1>1
  <2> QED
    BY <2>1, <2>2
<1>4. Text!utf32to8(Points(text)[0]) = SubSeq(text, 0 + 1, N)
  BY <1>3, ValidIsWellFormed
<1>5. SubSeq(text, 0 + 1, N) = text
  <2>1. 0 + 1 = 1
    OBVIOUS
  <2> QED
    BY <2>1, SubSeqFull
<1> QED
  BY <1>4, <1>5, PointsAre

(* utf16to8: where it stops, what it writes, where it goes on.           *)
PairValue(lead, trail) == lead * 1024 + trail + Text!SURROGATE_OFFSET

Paired(words, p) == p + 2 <= Len(words) /\ Text!is_trail_surrogate(words[p + 2])

Halts(words, p) ==
  \/ p = Len(words)
  \/ Text!is_lead_surrogate(words[p + 1]) /\ ~Paired(words, p)
  \/ ~Text!is_lead_surrogate(words[p + 1]) /\ Text!is_trail_surrogate(words[p + 1])

Piece(words, p) ==
  Text!append(IF Text!is_lead_surrogate(words[p + 1])
                THEN PairValue(words[p + 1], words[p + 2]) ELSE words[p + 1])

Beyond(words, p) == IF Text!is_lead_surrogate(words[p + 1]) THEN p + 2 ELSE p + 1

Joining(f, words) ==
  [p \in 0 .. Len(words) |->
     IF p = Len(words) THEN <<>>
     ELSE IF Text!is_lead_surrogate(words[p + 1])
       THEN IF ~(p + 2 <= Len(words) /\ Text!is_trail_surrogate(words[p + 2])) THEN <<>>
            ELSE Text!append(words[p + 1] * 1024 + words[p + 2] + Text!SURROGATE_OFFSET)
                   \o f[p + 2]
       ELSE IF Text!is_trail_surrogate(words[p + 1]) THEN <<>>
            ELSE Text!append(words[p + 1]) \o f[p + 1]]

Joined(words) == CHOOSE f : f = Joining(f, words)

(* One step of utf16to8: a word, or a pair of surrogates.                *)
LEMMA JoiningStep ==
  ASSUME NEW f, NEW words, NEW p \in 0 .. Len(words)
  PROVE  Joining(f, words)[p] = IF Halts(words, p) THEN <<>>
                                ELSE Piece(words, p) \o f[Beyond(words, p)]
<1>1. CASE p = Len(words)
  BY <1>1 DEF Joining, Halts
<1>2. CASE p # Len(words) /\ Text!is_lead_surrogate(words[p + 1]) /\ Paired(words, p)
  BY <1>2 DEF Joining, Halts, Piece, Beyond, Paired, PairValue
<1>3. CASE p # Len(words) /\ Text!is_lead_surrogate(words[p + 1]) /\ ~Paired(words, p)
  BY <1>3 DEF Joining, Halts, Paired
<1>4. CASE p # Len(words) /\ ~Text!is_lead_surrogate(words[p + 1])
  BY <1>4 DEF Joining, Halts, Piece, Beyond
<1> QED
  BY <1>1, <1>2, <1>3, <1>4

(* There is such a function, and utf16to8 is it.                         *)
LEMMA Joins ==
  ASSUME NEW words \in Seq(Nat)
  PROVE  /\ Text!utf16to8(words) = Joined(words)[0]
         /\ \A p \in 0 .. Len(words) :
              Joined(words)[p] = IF Halts(words, p) THEN <<>>
                                 ELSE Piece(words, p) \o Joined(words)[Beyond(words, p)]
<1> DEFINE N == Len(words)
           b == [p \in 0 .. N |-> <<>>]
           stop == {p \in 0 .. N : Halts(words, p)}
           piece == [p \in 0 .. N |-> Piece(words, p)]
           next == [p \in 0 .. N |-> Beyond(words, p)]
<1>1. N \in Nat
  BY LenProperties
<1>2. ASSUME NEW p \in 0 .. N, ~Halts(words, p) PROVE Beyond(words, p) \in p + 1 .. N
  <2>1. p # N /\ p + 1 \in p + 1 .. N
    BY <1>1, <1>2 DEF Halts
  <2>2. CASE Text!is_lead_surrogate(words[p + 1])
    <3>1. p + 2 <= N
      BY <1>2, <2>2 DEF Halts, Paired
    <3>2. p + 2 \in p + 1 .. N
      BY <1>1, <3>1
    <3> QED
      BY <2>2, <3>2 DEF Beyond
  <2> QED
    BY <2>1, <2>2 DEF Beyond
<1>3. \A p \in 0 .. N : p \notin stop => next[p] \in p + 1 .. N
  BY <1>2
<1>4. PICK f : f = Walking(f, 0, N, stop, b, TRUE, piece, next)
  <2> HIDE DEF N, b, stop, piece, next
  <2>1. HasWalk(N, stop, b, TRUE, piece, next)
    BY <1>1, <1>3, WalkExists
  <2> QED
    BY <2>1 DEF HasWalk
<1>5. f = Joining(f, words)
  <2>1. ASSUME NEW p \in 0 .. N PROVE f[p] = Joining(f, words)[p]
    <3>1. f[p] = Walking(f, 0, N, stop, b, TRUE, piece, next)[p]
      BY <1>4
    <3>2. Walking(f, 0, N, stop, b, TRUE, piece, next)[p]
            = IF Halts(words, p) THEN <<>> ELSE Piece(words, p) \o f[Beyond(words, p)]
      BY DEF Walking
    <3> QED
      BY <3>1, <3>2, JoiningStep
  <2>2. f = [p \in 0 .. N |-> f[p]]
    <3>1. Walking(f, 0, N, stop, b, TRUE, piece, next)
            = [p \in 0 .. N |-> Walking(f, 0, N, stop, b, TRUE, piece, next)[p]]
      BY DEF Walking
    <3> QED
      BY <1>4, <3>1
  <2>3. Joining(f, words) = [p \in 0 .. N |-> Joining(f, words)[p]]
    BY DEF Joining
  <2> QED
    BY <2>1, <2>2, <2>3
<1>6. Joined(words) = Joining(Joined(words), words)
  BY <1>5 DEF Joined
<1>7. Text!utf16to8(words) = Joined(words)[0]
  BY DEF Text!utf16to8, Joined, Joining
<1>8. \A p \in 0 .. N : Joined(words)[p] = Joining(Joined(words), words)[p]
  BY <1>6
<1> QED
  BY <1>7, <1>8, JoiningStep

(* What utf8to16 writes for a code point is what utf16to8 takes for it.  *)
LEMMA WordsOfPoint ==
  ASSUME NEW cp, CodePoint(cp)
  PROVE  \/ /\ Text!Words(cp) = <<cp>>
            /\ ~Text!is_lead_surrogate(cp) /\ ~Text!is_trail_surrogate(cp)
         \/ \E w1 \in Nat, w2 \in Nat :
              /\ Text!Words(cp) = <<w1, w2>> /\ PairValue(w1, w2) = cp
              /\ Text!is_lead_surrogate(w1) /\ Text!is_trail_surrogate(w2)
<1>1. /\ cp \in Nat /\ cp <= 1114111 /\ ~(cp >= 55296 /\ cp <= 57343)
  BY SMT DEF CodePoint, Text!is_code_point_valid, Text!is_surrogate
<1>2. CASE cp <= 65535
  <2>1. Text!Words(cp) = <<cp>>
    BY <1>1, <1>2, SMT DEF Text!Words
  <2>2. ~Text!is_lead_surrogate(cp) /\ ~Text!is_trail_surrogate(cp)
    BY <1>1, SMT DEF Text!is_lead_surrogate, Text!is_trail_surrogate
  <2> QED
    BY <2>1, <2>2, SMT
<1>3. CASE cp > 65535
  <2>1. PICK h \in Nat : h = cp \div 1024 /\ h >= 64 /\ h <= 1087
    BY <1>1, <1>3, SMT
  <2>2. PICK l \in Nat : l = cp % 1024 /\ l <= 1023
    BY <1>1, SMT
  <2>3. cp = h * 1024 + l
    BY <1>1, <2>1, <2>2, SMT
  <2>4. (h + (55296 - 64)) % 65536 = h + 55232
    BY <2>1, SMT
  <2>5. PICK w1 \in Nat : w1 = h + 55232
    BY <2>1, SMT
  <2>6. PICK w2 \in Nat : w2 = l + 56320
    BY <2>2, SMT
  <2>7. Text!Words(cp) = <<w1, w2>>
    BY <1>1, <1>3, <2>1, <2>2, <2>4, <2>5, <2>6, SMT DEF Text!Words
  <2>8. PairValue(w1, w2) = cp
    BY <1>1, <2>1, <2>2, <2>3, <2>5, <2>6, SMT DEF PairValue, Text!SURROGATE_OFFSET
  <2>9. Text!is_lead_surrogate(w1) /\ Text!is_trail_surrogate(w2)
    BY <2>1, <2>2, <2>5, <2>6, SMT DEF Text!is_lead_surrogate, Text!is_trail_surrogate
  <2> QED
    BY <2>7, <2>8, <2>9, SMT
<1> QED
  BY <1>1, <1>2, <1>3, SMT

(* Behind the words w, utf16to8 goes on as from the start of the rest.   *)
LEMMA RestJoined ==
  ASSUME NEW w \in Seq(Nat), NEW r \in Seq(Nat)
  PROVE  Joined(w \o r)[Len(w)] = Joined(r)[0]
<1> DEFINE s == w \o r
           m == Len(w)
           S == {q \in 0 .. Len(r) : Joined(s)[m + q] = Joined(r)[q]}
<1>1. /\ s \in Seq(Nat) /\ Len(s) = m + Len(r) /\ Len(r) \in Nat /\ m \in Nat
      /\ \A i \in 1 .. Len(r) : s[m + i] = r[i]
  BY Behind
<1> HIDE DEF s, m
<1>2. ASSUME NEW q \in 0 .. Len(r), \A n \in q + 1 .. Len(r) : n \in S PROVE q \in S
  <2>1. m + q \in 0 .. Len(s) /\ (m + q = Len(s) <=> q = Len(r))
    BY <1>1
  <2>2. CASE q = Len(r)
    <3>1. Halts(s, m + q) /\ Halts(r, q)
      BY <2>1, <2>2 DEF Halts
    <3>2. Joined(s)[m + q] = <<>>
      BY <1>1, <2>1, <3>1, Joins
    <3>3. Joined(r)[q] = <<>>
      BY <3>1, Joins
    <3> QED
      BY <3>2, <3>3
  <2>3. CASE q # Len(r)
    <3>0. q \in Nat /\ q < Len(r)
      BY <1>1, <2>3
    <3>1. q + 1 \in 1 .. Len(r) /\ m + q + 1 = m + (q + 1) /\ m + q + 2 = m + (q + 2)
      BY <1>1, <3>0, NextPositions, Zenon
    <3>2. s[m + q + 1] = r[q + 1]
      <4>1. q + 1 \in 1 .. Len(r) /\ m + q + 1 = m + (q + 1)
        BY <3>1
      <4>2. s[m + (q + 1)] = r[q + 1]
        BY <1>1, <4>1, Zenon
      <4> QED
        BY <4>1, <4>2, Zenon
    <3>3. q + 2 <= Len(r) => s[m + q + 2] = r[q + 2]
      <4>1. q + 2 <= Len(r) => q + 2 \in 1 .. Len(r)
        BY <1>1
      <4> QED
        BY <1>1, <3>1, <4>1
    <3>4. m + q + 2 <= Len(s) <=> q + 2 <= Len(r)
      BY <1>1
    <3>5. Paired(s, m + q) <=> Paired(r, q)
      BY <3>3, <3>4 DEF Paired
    <3>6. Halts(s, m + q) <=> Halts(r, q)
      BY <2>1, <3>2, <3>5 DEF Halts
    <3>7. CASE Halts(r, q)
      <4>1. Joined(s)[m + q] = <<>>
        BY <1>1, <2>1, <3>6, <3>7, Joins
      <4>2. Joined(r)[q] = <<>>
        BY <3>7, Joins
      <4> QED
        BY <4>1, <4>2
    <3>8. CASE ~Halts(r, q)
      <4>1. Piece(s, m + q) = Piece(r, q)
        <5>1. CASE Text!is_lead_surrogate(r[q + 1])
          <6>1. q + 2 <= Len(r)
            BY <2>3, <3>8, <5>1 DEF Halts, Paired
          <6> QED
            BY <3>2, <3>3, <5>1, <6>1 DEF Piece
        <5>2. CASE ~Text!is_lead_surrogate(r[q + 1])
          BY <3>2, <5>2 DEF Piece
        <5> QED
          BY <5>1, <5>2
      <4>2. Beyond(s, m + q) = m + Beyond(r, q)
        BY <3>1, <3>2 DEF Beyond
      <4>3. Beyond(r, q) \in q + 1 .. Len(r)
        <5>1. CASE Text!is_lead_surrogate(r[q + 1])
          <6>1. q + 2 <= Len(r)
            BY <2>3, <3>8, <5>1 DEF Halts, Paired
          <6>2. q + 2 \in q + 1 .. Len(r)
            BY <1>1, <6>1
          <6> QED
            BY <5>1, <6>2 DEF Beyond
        <5>2. CASE ~Text!is_lead_surrogate(r[q + 1])
          <6>1. q + 1 \in q + 1 .. Len(r)
            BY <3>1
          <6> QED
            BY <5>2, <6>1 DEF Beyond
        <5> QED
          BY <5>1, <5>2
      <4>4. Joined(s)[m + Beyond(r, q)] = Joined(r)[Beyond(r, q)]
        BY <1>2, <4>3
      <4>5. Joined(s)[m + q] = Piece(s, m + q) \o Joined(s)[Beyond(s, m + q)]
        BY <1>1, <2>1, <3>6, <3>8, Joins
      <4>6. Joined(r)[q] = Piece(r, q) \o Joined(r)[Beyond(r, q)]
        BY <3>8, Joins
      <4> QED
        BY <4>1, <4>2, <4>4, <4>5, <4>6
    <3> QED
      BY <3>7, <3>8
  <2> QED
    BY <2>2, <2>3
<1>3. 0 \in S
  <2> HIDE DEF S
  <2>1. 0 .. Len(r) \subseteq S
    BY <1>1, <1>2, Backwards
  <2>2. 0 \in 0 .. Len(r)
    BY <1>1
  <2> QED
    BY <2>1, <2>2
<1>4. Joined(s)[m + 0] = Joined(r)[0] /\ m + 0 = m
  BY <1>1, <1>3
<1> QED
  BY <1>4 DEF s, m

(* utf16to8 of the words of a first code point and the rest.             *)
LEMMA FirstJoined ==
  ASSUME NEW cp, CodePoint(cp), NEW r \in Seq(Nat)
  PROVE  /\ Text!Words(cp) \in Seq(Nat)
         /\ Text!utf16to8(Text!Words(cp) \o r) = Text!append(cp) \o Text!utf16to8(r)
<1> DEFINE w == Text!Words(cp)
           s == w \o r
<1>1. cp \in Nat
  BY DEF CodePoint
<1>2. CASE w = <<cp>> /\ ~Text!is_lead_surrogate(cp) /\ ~Text!is_trail_surrogate(cp)
  <2>1. w \in Seq(Nat) /\ Len(w) = 1 /\ w[1] = cp
    BY <1>1, <1>2
  <2> HIDE DEF w
  <2>2. s \in Seq(Nat) /\ Len(s) = 1 + Len(r) /\ Len(r) \in Nat /\ s[1] = cp
    <3>1. /\ s \in Seq(Nat) /\ Len(s) = Len(w) + Len(r) /\ Len(r) \in Nat
          /\ \A i \in 1 .. Len(w) : s[i] = w[i]
      BY <2>1, Behind
    <3>2. 1 \in 1 .. Len(w)
      BY <2>1
    <3> QED
      BY <2>1, <3>1, <3>2
  <2>3. Joined(s)[1] = Joined(r)[0]
    BY <2>1, RestJoined
  <2> HIDE DEF s
  <2>4. 0 \in 0 .. Len(s) /\ 0 # Len(s)
    BY <2>2
  <2>5. s[0 + 1] = cp /\ 0 + 1 = 1
    BY <2>2
  <2>6. ~Halts(s, 0) /\ Piece(s, 0) = Text!append(cp) /\ Beyond(s, 0) = 0 + 1
    BY <1>2, <2>4, <2>5 DEF Halts, Piece, Beyond
  <2>7. Joined(s)[0] = Piece(s, 0) \o Joined(s)[Beyond(s, 0)]
    BY <2>2, <2>4, <2>6, Joins
  <2>8. Joined(s)[0] = Text!append(cp) \o Joined(r)[0]
    BY <2>3, <2>5, <2>6, <2>7
  <2>9. Text!utf16to8(s) = Joined(s)[0] /\ Text!utf16to8(r) = Joined(r)[0]
    BY <2>2, Joins
  <2> QED
    BY <2>1, <2>8, <2>9 DEF s, w
<1>3. ASSUME NEW w1 \in Nat, NEW w2 \in Nat, w = <<w1, w2>>, PairValue(w1, w2) = cp,
             Text!is_lead_surrogate(w1), Text!is_trail_surrogate(w2)
      PROVE  /\ Text!Words(cp) \in Seq(Nat)
             /\ Text!utf16to8(Text!Words(cp) \o r) = Text!append(cp) \o Text!utf16to8(r)
  <2>1. w \in Seq(Nat) /\ Len(w) = 2 /\ w[1] = w1 /\ w[2] = w2
    BY <1>3
  <2> HIDE DEF w
  <2>2. s \in Seq(Nat) /\ Len(s) = 2 + Len(r) /\ Len(r) \in Nat /\ s[1] = w1 /\ s[2] = w2
    <3>1. /\ s \in Seq(Nat) /\ Len(s) = Len(w) + Len(r) /\ Len(r) \in Nat
          /\ \A i \in 1 .. Len(w) : s[i] = w[i]
      <4>1. w \in Seq(Nat) /\ r \in Seq(Nat)
        BY <2>1
      <4> QED
        BY <4>1, Behind
    <3>2. 1 \in 1 .. Len(w) /\ 2 \in 1 .. Len(w)
      BY <2>1
    <3> QED
      BY <2>1, <3>1, <3>2
  <2>3. Joined(s)[2] = Joined(r)[0]
    BY <2>1, RestJoined
  <2> HIDE DEF s
  <2>4. 0 \in 0 .. Len(s) /\ 0 # Len(s) /\ 0 + 2 <= Len(s)
    BY <2>2
  <2>5. s[0 + 1] = w1 /\ s[0 + 2] = w2 /\ 0 + 2 = 2
    BY <2>2
  <2>6. Paired(s, 0)
    BY <1>3, <2>4, <2>5 DEF Paired
  <2>7. ~Halts(s, 0) /\ Piece(s, 0) = Text!append(cp) /\ Beyond(s, 0) = 0 + 2
    BY <1>3, <2>4, <2>5, <2>6 DEF Halts, Piece, Beyond
  <2>8. Joined(s)[0] = Piece(s, 0) \o Joined(s)[Beyond(s, 0)]
    BY <2>2, <2>4, <2>7, Joins
  <2>9. Joined(s)[0] = Text!append(cp) \o Joined(r)[0]
    BY <2>3, <2>5, <2>7, <2>8
  <2>10. Text!utf16to8(s) = Joined(s)[0] /\ Text!utf16to8(r) = Joined(r)[0]
    BY <2>2, Joins
  <2> QED
    BY <2>1, <2>9, <2>10 DEF s, w
<1> QED
  BY <1>2, <1>3, WordsOfPoint

(* utf8to16 and back gives the same octets.                              *)
LEMMA BackFromWords ==
  ASSUME NEW text \in Seq(Octet), Text!is_valid(text)
  PROVE  Text!utf16to8(Text!utf8to16(text)) = text
<1> DEFINE N == Len(text)
           S == {p \in 0 .. N : p \in Good(text) =>
                   /\ WordsOf(text)[p] \in Seq(Nat)
                   /\ Text!utf16to8(WordsOf(text)[p]) = SubSeq(text, p + 1, N)}
<1>1. N \in Nat
  BY OctetsOf
<1>2. ASSUME NEW p \in 0 .. N, \A q \in p + 1 .. N : q \in S PROVE p \in S
  <2>1. CASE p = N
    <3>1. WordsOf(text)[p] = <<>>
      BY <2>1, WordsAre, EndOrNot
    <3>2. <<>> \in Seq(Nat) /\ Len(<<>>) = 0 /\ 0 \in 0 .. Len(<<>>)
      OBVIOUS
    <3>3. Text!utf16to8(<<>>) = <<>>
      <4>1. Halts(<<>>, 0)
        BY <3>2 DEF Halts
      <4> QED
        BY <3>2, <4>1, Joins
    <3>4. p + 1 \in Int /\ N \in Int /\ N < p + 1
      BY <1>1, <2>1
    <3>5. SubSeq(text, p + 1, N) = <<>>
      BY <3>4, SubSeqEmpty
    <3> QED
      BY <3>1, <3>2, <3>3, <3>5
  <2>2. CASE p # N /\ p \in Good(text)
    <3>1. PICK k \in 1 .. 4 : /\ SequenceAt(text, p, k, Text!validate_next(text, p))
                              /\ p + k \in Good(text)
      BY <2>2, GoodGoesOn
    <3>2. p \notin Ends(text) /\ NextAt(text)[p] = p + k
      BY <2>2, <3>1, GoodGoesOn, EndOrNot DEF SequenceAt
    <3>3. PICK cp : cp = Text!validate_next(text, p).cp
      OBVIOUS
    <3>4. CodePoint(cp) /\ Text!append(cp) = SubSeq(text, p + 1, p + k)
      BY <3>1, <3>3 DEF SequenceAt
    <3>5. p + k \in 0 .. N /\ p + k \in p + 1 .. N
      <4>1. p + k \in 0 .. N
        BY <3>1 DEF Good
      <4> QED
        BY <1>1, <4>1
    <3>6. PICK r : r = WordsOf(text)[p + k]
      OBVIOUS
    <3>7. r \in Seq(Nat) /\ Text!utf16to8(r) = SubSeq(text, p + k + 1, N)
      <4>1. p + k \in S
        BY <1>2, <3>5
      <4> QED
        BY <3>1, <3>6, <4>1
    <3>8. WordsOf(text)[p] = Text!Words(cp) \o r
      BY <3>2, <3>3, <3>6, WordsAre
    <3>9. /\ Text!Words(cp) \in Seq(Nat)
          /\ Text!utf16to8(Text!Words(cp) \o r)
               = SubSeq(text, p + 1, p + k) \o SubSeq(text, p + k + 1, N)
      BY <3>4, <3>7, FirstJoined
    <3>10. SubSeq(text, p + 1, p + k) \o SubSeq(text, p + k + 1, N) = SubSeq(text, p + 1, N)
      <4>1. p \in Nat /\ p + k \in Nat /\ p <= p + k /\ p + k <= N
        BY <1>1, <3>5
      <4> QED
        BY <4>1, Adjacent
    <3>11. Text!Words(cp) \o r \in Seq(Nat)
      BY <3>7, <3>9, Behind
    <3> QED
      BY <3>8, <3>9, <3>10, <3>11
  <2> QED
    BY <2>1, <2>2
<1>3. 0 \in S
  <2> HIDE DEF S
  <2>1. 0 .. N \subseteq S
    BY <1>1, <1>2, Backwards
  <2>2. 0 \in 0 .. N
    BY <1>1
  <2> QED
    BY <2>1, <2>2
<1>4. Text!utf16to8(WordsOf(text)[0]) = SubSeq(text, 0 + 1, N)
  BY <1>3, ValidIsWellFormed
<1>5. SubSeq(text, 0 + 1, N) = text
  <2>1. 0 + 1 = 1
    OBVIOUS
  <2> QED
    BY <2>1, SubSeqFull
<1> QED
  BY <1>4, <1>5, WordsAre

(* The unchecked functions take the step that the checked ones find good.*)
LEMMA UncheckedAt ==
  ASSUME NEW text \in Seq(Octet), NEW p \in Good(text), p # Len(text)
  PROVE  Text!unchecked_next(text, p) = [cp |-> Text!validate_next(text, p).cp,
                                         it |-> Text!validate_next(text, p).it]
<1>1. PICK next : next = Text!validate_next(text, p)
  OBVIOUS
<1>2. PICK k \in 1 .. 4 : SequenceAt(text, p, k, next)
  BY <1>1, GoodGoesOn
<1>3. /\ k # 0 /\ k = Text!sequence_length(text[p + 1])
      /\ next.it = p + k /\ next.cp = Text!get_sequence(text, p, k)
  BY <1>2 DEF SequenceAt
<1> QED
  BY <1>1, <1>3 DEF Text!unchecked_next

(* An unchecked step goes on by one octet to four, valid or not.         *)
LEMMA UncheckedGoesOn ==
  ASSUME NEW text \in Seq(Octet), NEW p \in 0 .. Len(text) - 1
  PROVE  Text!unchecked_next(text, p).it \in p + 1 .. Len(text) + 3
<1>1. Len(text) \in Nat /\ p \in Nat /\ p + 1 \in 1 .. Len(text)
  BY OctetsOf
<1>2. PICK k : k = Text!sequence_length(text[p + 1])
  OBVIOUS
<1>3. k \in 0 .. 4
  BY <1>2, SMT DEF Text!sequence_length
<1>4. Text!unchecked_next(text, p).it = IF k = 0 THEN p + 1 ELSE p + k
  BY <1>2 DEF Text!unchecked_next
<1> QED
  BY <1>1, <1>3, <1>4

(* What the unchecked conversions write from a position on.              *)
UncheckedSlices(f, text, piece) ==
  [p \in 0 .. Len(text) + 3 |->
     IF p >= Len(text) THEN <<>>
     ELSE piece[p] \o f[Text!unchecked_next(text, p).it]]

UncheckedPoints(text) ==
  CHOOSE f : f = [p \in 0 .. Len(text) + 3 |->
     IF p >= Len(text) THEN <<>>
     ELSE <<Text!unchecked_next(text, p).cp>> \o f[Text!unchecked_next(text, p).it]]

UncheckedWordsOf(text) ==
  CHOOSE f : f = [p \in 0 .. Len(text) + 3 |->
     IF p >= Len(text) THEN <<>>
     ELSE Text!Words(Text!unchecked_next(text, p).cp)
            \o f[Text!unchecked_next(text, p).it]]

(* There is such a function for whatever is written at each position.    *)
LEMMA UncheckedPiecesExist ==
  ASSUME NEW text \in Seq(Octet), NEW piece
  PROVE  \E f : f = UncheckedSlices(f, text, piece)
<1> DEFINE N == Len(text) + 3
           b == [p \in 0 .. N |-> <<>>]
           stop == {p \in 0 .. N : p >= Len(text)}
           next == [p \in 0 .. N |-> Text!unchecked_next(text, p).it]
<1>1. N \in Nat /\ Len(text) \in Nat
  BY OctetsOf
<1>2. ASSUME NEW p \in 0 .. N, p \notin stop PROVE next[p] \in p + 1 .. N
  <2>1. p \in 0 .. Len(text) - 1
    BY <1>1, <1>2
  <2> QED
    BY <2>1, UncheckedGoesOn
<1>3. PICK f : f = Walking(f, 0, N, stop, b, TRUE, piece, next)
  <2> HIDE DEF N, b, stop, next
  <2>1. HasWalk(N, stop, b, TRUE, piece, next)
    BY <1>1, <1>2, WalkExists
  <2> QED
    BY <2>1 DEF HasWalk
<1>4. \A p \in 0 .. N :
        (IF p \in stop THEN b[p] ELSE IF TRUE THEN piece[p] \o f[next[p]] ELSE f[next[p]])
        = IF p >= Len(text) THEN <<>> ELSE piece[p] \o f[Text!unchecked_next(text, p).it]
  OBVIOUS
<1>5. f = UncheckedSlices(f, text, piece)
  BY <1>3, <1>4 DEF Walking, UncheckedSlices
<1> QED
  BY <1>5

(* On valid text, unchecked::utf8to32 writes what utf8to32 writes.       *)
LEMMA SamePoints ==
  ASSUME NEW text \in Seq(Octet), Text!is_valid(text)
  PROVE  Text!unchecked_utf8to32(text) = Text!utf8to32(text)
<1> DEFINE N == Len(text)
           piece == [p \in 0 .. Len(text) + 3 |-> <<Text!unchecked_next(text, p).cp>>]
           Body(f) == [p \in 0 .. Len(text) + 3 |->
             IF p >= Len(text) THEN <<>>
             ELSE <<Text!unchecked_next(text, p).cp>> \o f[Text!unchecked_next(text, p).it]]
           S == {p \in 0 .. N : p \in Good(text) =>
                   UncheckedPoints(text)[p] = Points(text)[p]}
<1>1. N \in Nat
  BY OctetsOf
<1>2. PICK f : f = UncheckedSlices(f, text, piece)
  BY UncheckedPiecesExist
<1>3. f = Body(f)
  <2>1. UncheckedSlices(f, text, piece) = Body(f)
    BY DEF UncheckedSlices
  <2> QED
    BY <1>2, <2>1
<1>4. UncheckedPoints(text) = Body(UncheckedPoints(text))
  BY <1>3 DEF UncheckedPoints
<1>5. Text!unchecked_utf8to32(text) = UncheckedPoints(text)[0]
  BY DEF Text!unchecked_utf8to32, UncheckedPoints
<1>6. \A p \in 0 .. N :
        UncheckedPoints(text)[p] =
          IF p >= N THEN <<>>
          ELSE <<Text!unchecked_next(text, p).cp>>
                 \o UncheckedPoints(text)[Text!unchecked_next(text, p).it]
  <2> SUFFICES ASSUME NEW p \in 0 .. N
               PROVE  /\ UncheckedPoints(text)[p] = Body(UncheckedPoints(text))[p]
                      /\ p \in 0 .. Len(text) + 3
    OBVIOUS
  <2>1. UncheckedPoints(text)[p] = Body(UncheckedPoints(text))[p]
    BY <1>4
  <2>2. p \in 0 .. Len(text) + 3
    BY <1>1
  <2> QED
    BY <2>1, <2>2
<1>7. ASSUME NEW p \in 0 .. N, \A q \in p + 1 .. N : q \in S PROVE p \in S
  <2>1. CASE p = N
    <3>1. Points(text)[p] = <<>>
      BY <2>1, PointsAre, EndOrNot
    <3>2. p >= N
      BY <1>1, <2>1
    <3>3. UncheckedPoints(text)[p] = <<>>
      BY <1>6, <3>2
    <3> QED
      BY <3>1, <3>3
  <2>2. CASE p # N /\ p \in Good(text)
    <3>1. p \notin Ends(text)
      BY <2>2, GoodGoesOn
    <3>2. NextAt(text)[p] \in p + 1 .. N /\ NextAt(text)[p] = Text!validate_next(text, p).it
      BY <3>1, Onwards, EndOrNot
    <3>3. NextAt(text)[p] \in Good(text)
      <4>1. PICK k \in 1 .. 4 : /\ SequenceAt(text, p, k, Text!validate_next(text, p))
                                /\ p + k \in Good(text)
        BY <2>2, GoodGoesOn
      <4> QED
        BY <3>2, <4>1 DEF SequenceAt
    <3>4. UncheckedPoints(text)[NextAt(text)[p]] = Points(text)[NextAt(text)[p]]
      BY <1>7, <3>2, <3>3
    <3>5. /\ Text!unchecked_next(text, p).cp = Text!validate_next(text, p).cp
          /\ Text!unchecked_next(text, p).it = NextAt(text)[p]
      BY <2>2, <3>2, UncheckedAt
    <3>6. UncheckedPoints(text)[p] =
            <<Text!unchecked_next(text, p).cp>>
              \o UncheckedPoints(text)[Text!unchecked_next(text, p).it]
      <4>1. ~(p >= N)
        BY <1>1, <2>2
      <4> QED
        BY <1>6, <4>1
    <3>7. Points(text)[p] = <<Text!validate_next(text, p).cp>> \o Points(text)[NextAt(text)[p]]
      BY <3>1, PointsAre
    <3> QED
      BY <3>4, <3>5, <3>6, <3>7
  <2> QED
    BY <2>1, <2>2
<1>8. 0 \in S
  <2> HIDE DEF S
  <2>1. 0 .. N \subseteq S
    BY <1>1, <1>7, Backwards
  <2>2. 0 \in 0 .. N
    BY <1>1
  <2> QED
    BY <2>1, <2>2
<1>9. UncheckedPoints(text)[0] = Points(text)[0]
  BY <1>8, ValidIsWellFormed
<1> QED
  BY <1>5, <1>9, PointsAre

(* On valid text, unchecked::utf8to16 writes what utf8to16 writes.       *)
LEMMA SameWords ==
  ASSUME NEW text \in Seq(Octet), Text!is_valid(text)
  PROVE  Text!unchecked_utf8to16(text) = Text!utf8to16(text)
<1> DEFINE N == Len(text)
           piece == [p \in 0 .. Len(text) + 3 |-> Text!Words(Text!unchecked_next(text, p).cp)]
           Body(f) == [p \in 0 .. Len(text) + 3 |->
             IF p >= Len(text) THEN <<>>
             ELSE Text!Words(Text!unchecked_next(text, p).cp)
                    \o f[Text!unchecked_next(text, p).it]]
           S == {p \in 0 .. N : p \in Good(text) =>
                   UncheckedWordsOf(text)[p] = WordsOf(text)[p]}
<1>1. N \in Nat
  BY OctetsOf
<1>2. PICK f : f = UncheckedSlices(f, text, piece)
  BY UncheckedPiecesExist
<1>3. f = Body(f)
  <2>1. UncheckedSlices(f, text, piece) = Body(f)
    BY DEF UncheckedSlices
  <2> QED
    BY <1>2, <2>1
<1>4. UncheckedWordsOf(text) = Body(UncheckedWordsOf(text))
  BY <1>3 DEF UncheckedWordsOf
<1>5. Text!unchecked_utf8to16(text) = UncheckedWordsOf(text)[0]
  BY DEF Text!unchecked_utf8to16, UncheckedWordsOf
<1>6. \A p \in 0 .. N :
        UncheckedWordsOf(text)[p] =
          IF p >= N THEN <<>>
          ELSE Text!Words(Text!unchecked_next(text, p).cp)
                 \o UncheckedWordsOf(text)[Text!unchecked_next(text, p).it]
  <2> SUFFICES ASSUME NEW p \in 0 .. N
               PROVE  /\ UncheckedWordsOf(text)[p] = Body(UncheckedWordsOf(text))[p]
                      /\ p \in 0 .. Len(text) + 3
    OBVIOUS
  <2>1. UncheckedWordsOf(text)[p] = Body(UncheckedWordsOf(text))[p]
    BY <1>4
  <2>2. p \in 0 .. Len(text) + 3
    BY <1>1
  <2> QED
    BY <2>1, <2>2
<1>7. ASSUME NEW p \in 0 .. N, \A q \in p + 1 .. N : q \in S PROVE p \in S
  <2>1. CASE p = N
    <3>1. WordsOf(text)[p] = <<>>
      BY <2>1, WordsAre, EndOrNot
    <3>2. p >= N
      BY <1>1, <2>1
    <3>3. UncheckedWordsOf(text)[p] = <<>>
      BY <1>6, <3>2
    <3> QED
      BY <3>1, <3>3
  <2>2. CASE p # N /\ p \in Good(text)
    <3>1. p \notin Ends(text)
      BY <2>2, GoodGoesOn
    <3>2. NextAt(text)[p] \in p + 1 .. N /\ NextAt(text)[p] = Text!validate_next(text, p).it
      BY <3>1, Onwards, EndOrNot
    <3>3. NextAt(text)[p] \in Good(text)
      <4>1. PICK k \in 1 .. 4 : /\ SequenceAt(text, p, k, Text!validate_next(text, p))
                                /\ p + k \in Good(text)
        BY <2>2, GoodGoesOn
      <4> QED
        BY <3>2, <4>1 DEF SequenceAt
    <3>4. UncheckedWordsOf(text)[NextAt(text)[p]] = WordsOf(text)[NextAt(text)[p]]
      BY <1>7, <3>2, <3>3
    <3>5. /\ Text!unchecked_next(text, p).cp = Text!validate_next(text, p).cp
          /\ Text!unchecked_next(text, p).it = NextAt(text)[p]
      BY <2>2, <3>2, UncheckedAt
    <3>6. UncheckedWordsOf(text)[p] =
            Text!Words(Text!unchecked_next(text, p).cp)
              \o UncheckedWordsOf(text)[Text!unchecked_next(text, p).it]
      <4>1. ~(p >= N)
        BY <1>1, <2>2
      <4> QED
        BY <1>6, <4>1
    <3>7. WordsOf(text)[p] = Text!Words(Text!validate_next(text, p).cp)
                              \o WordsOf(text)[NextAt(text)[p]]
      BY <3>1, WordsAre
    <3> QED
      BY <3>4, <3>5, <3>6, <3>7
  <2> QED
    BY <2>1, <2>2
<1>8. 0 \in S
  <2> HIDE DEF S
  <2>1. 0 .. N \subseteq S
    BY <1>1, <1>7, Backwards
  <2>2. 0 \in 0 .. N
    BY <1>1
  <2> QED
    BY <2>1, <2>2
<1>9. UncheckedWordsOf(text)[0] = WordsOf(text)[0]
  BY <1>8, ValidIsWellFormed
<1> QED
  BY <1>5, <1>9, WordsAre

(* unchecked::utf32to8.                                                  *)
UncheckedEncoding(f, cps) ==
  [p \in 0 .. Len(cps) |->
     IF p = Len(cps) THEN <<>> ELSE Text!unchecked_append(cps[p + 1]) \o f[p + 1]]

UncheckedEncoded(cps) == CHOOSE f : f = UncheckedEncoding(f, cps)

(* It appends the octets of one number after the other.                  *)
LEMMA UncheckedEncodesPoint ==
  ASSUME NEW cps \in Seq(Nat)
  PROVE  /\ Text!unchecked_utf32to8(cps) = UncheckedEncoded(cps)[0]
         /\ \A p \in 0 .. Len(cps) :
              UncheckedEncoded(cps)[p] =
                IF p = Len(cps) THEN <<>>
                ELSE Text!unchecked_append(cps[p + 1]) \o UncheckedEncoded(cps)[p + 1]
<1> DEFINE N == Len(cps)
           b == [p \in 0 .. N |-> <<>>]
           piece == [p \in 0 .. N |-> Text!unchecked_append(cps[p + 1])]
           next == [p \in 0 .. N |-> p + 1]
<1>1. N \in Nat
  BY LenProperties
<1>2. \A p \in 0 .. N : p \notin {N} => next[p] \in p + 1 .. N
  <2>1. ASSUME NEW p \in 0 .. N, p # N PROVE p + 1 \in p + 1 .. N
    BY <1>1, <2>1
  <2> QED
    BY <2>1
<1>3. PICK f : f = Walking(f, 0, N, {N}, b, TRUE, piece, next)
  <2> HIDE DEF N, b, piece, next
  <2>1. HasWalk(N, {N}, b, TRUE, piece, next)
    BY <1>1, <1>2, WalkExists
  <2> QED
    BY <2>1 DEF HasWalk
<1>4. f = UncheckedEncoding(f, cps)
  BY <1>3 DEF Walking, UncheckedEncoding
<1>5. UncheckedEncoded(cps) = UncheckedEncoding(UncheckedEncoded(cps), cps)
  BY <1>4 DEF UncheckedEncoded
<1>6. Text!unchecked_utf32to8(cps) = UncheckedEncoded(cps)[0]
  BY DEF Text!unchecked_utf32to8, UncheckedEncoded, UncheckedEncoding
<1>7. \A p \in 0 .. N :
        UncheckedEncoded(cps)[p] = UncheckedEncoding(UncheckedEncoded(cps), cps)[p]
  BY <1>5
<1> QED
  BY <1>6, <1>7 DEF UncheckedEncoding

(* Of code points, it makes what utf32to8 makes.                         *)
LEMMA SameEncoded ==
  ASSUME NEW cps \in Seq(Nat), \A i \in 1 .. Len(cps) : Text!is_code_point_valid(cps[i])
  PROVE  Text!unchecked_utf32to8(cps) = Text!utf32to8(cps)
<1> DEFINE N == Len(cps)
           S == {p \in 0 .. N : UncheckedEncoded(cps)[p] = Encoded(cps)[p]}
<1>1. N \in Nat
  BY LenProperties
<1>2. ASSUME NEW p \in 0 .. N, \A q \in p + 1 .. N : q \in S PROVE p \in S
  <2>1. CASE p = N
    BY <2>1, EncodesPoint, UncheckedEncodesPoint
  <2>2. CASE p # N
    <3>1. p + 1 \in 1 .. N /\ p + 1 \in p + 1 .. N
      BY <1>1, <2>2
    <3>2. Text!is_code_point_valid(cps[p + 1])
      BY <3>1
    <3>3. UncheckedEncoded(cps)[p + 1] = Encoded(cps)[p + 1]
      BY <1>2, <3>1
    <3>4. Encoded(cps)[p] = Text!append(cps[p + 1]) \o Encoded(cps)[p + 1]
      BY <2>2, <3>2, EncodesPoint
    <3>5. UncheckedEncoded(cps)[p]
            = Text!unchecked_append(cps[p + 1]) \o UncheckedEncoded(cps)[p + 1]
      BY <2>2, UncheckedEncodesPoint
    <3> QED
      BY <3>3, <3>4, <3>5 DEF Text!unchecked_append
  <2> QED
    BY <2>1, <2>2
<1>3. 0 \in S
  <2> HIDE DEF S
  <2>1. 0 .. N \subseteq S
    BY <1>1, <1>2, Backwards
  <2>2. 0 \in 0 .. N
    BY <1>1
  <2> QED
    BY <2>1, <2>2
<1> QED
  BY <1>3, EncodesPoint, UncheckedEncodesPoint

(* What utf8to32 makes of valid text are code points.                    *)
LEMMA PointsAreCodePoints ==
  ASSUME NEW text \in Seq(Octet), Text!is_valid(text)
  PROVE  /\ Text!utf8to32(text) \in Seq(Nat)
         /\ \A i \in 1 .. Len(Text!utf8to32(text)) :
              Text!is_code_point_valid(Text!utf8to32(text)[i])
<1> DEFINE N == Len(text)
           C == {cp \in Nat : Text!is_code_point_valid(cp)}
           S == {p \in 0 .. N : p \in Good(text) => Points(text)[p] \in Seq(C)}
<1>1. N \in Nat
  BY OctetsOf
<1>2. ASSUME NEW p \in 0 .. N, \A q \in p + 1 .. N : q \in S PROVE p \in S
  <2>1. CASE p = N
    <3>1. Points(text)[p] = <<>>
      BY <2>1, PointsAre, EndOrNot
    <3>2. <<>> \in Seq(C)
      <4> HIDE DEF C
      <4> QED
        OBVIOUS
    <3> QED
      BY <3>1, <3>2
  <2>2. CASE p # N /\ p \in Good(text)
    <3>1. PICK k \in 1 .. 4 : /\ SequenceAt(text, p, k, Text!validate_next(text, p))
                              /\ p + k \in Good(text)
      BY <2>2, GoodGoesOn
    <3>2. p \notin Ends(text) /\ NextAt(text)[p] = p + k /\ NextAt(text)[p] \in p + 1 .. N
      BY <2>2, <3>1, GoodGoesOn, Onwards, EndOrNot DEF SequenceAt
    <3>3. PICK cp : cp = Text!validate_next(text, p).cp
      OBVIOUS
    <3>4. cp \in C
      BY <3>1, <3>3 DEF SequenceAt, CodePoint
    <3>5. PICK r : r = Points(text)[p + k]
      OBVIOUS
    <3>6. r \in Seq(C)
      BY <1>2, <3>1, <3>2, <3>5
    <3>7. Points(text)[p] = <<cp>> \o r
      BY <3>2, <3>3, <3>5, PointsAre
    <3>8. <<cp>> \o r \in Seq(C)
      <4> HIDE DEF C
      <4>1. <<cp>> \in Seq(C)
        BY <3>4
      <4> QED
        BY <3>6, <4>1, ConcatProperties
    <3> QED
      BY <3>7, <3>8
  <2> QED
    BY <2>1, <2>2
<1>3. 0 \in S
  <2> HIDE DEF S
  <2>1. 0 .. N \subseteq S
    BY <1>1, <1>2, Backwards
  <2>2. 0 \in 0 .. N
    BY <1>1
  <2> QED
    BY <2>1, <2>2
<1>4. PICK cps : cps = Text!utf8to32(text)
  OBVIOUS
<1>5. cps \in Seq(C)
  BY <1>3, <1>4, ValidIsWellFormed, PointsAre
<1>6. \A i \in 1 .. Len(cps) : cps[i] \in C
  <2> HIDE DEF C
  <2> QED
    BY <1>5, ElementOfSeq
<1>7. C \subseteq Nat
  OBVIOUS
<1>8. cps \in Seq(Nat)
  <2> HIDE DEF C
  <2> QED
    BY <1>5, <1>7, SeqMonotonic
<1> QED
  BY <1>4, <1>6, <1>8

(* The same octets at another place are the same sequence.               *)
LEMMA FormedElsewhere ==
  ASSUME NEW s, NEW t, NEW c \in Nat, NEW d \in Nat, NEW k \in 1 .. 4,
         \A i \in 1 .. k : s[c + i] = t[d + i]
  PROVE  Formed(s, c, k) <=> Formed(t, d, k)
<1>1. k = 1 \/ k = 2 \/ k = 3 \/ k = 4
  OBVIOUS
<1>2. ASSUME NEW i \in 1 .. k PROVE TrailAt(s, c + i) <=> TrailAt(t, d + i)
  BY DEF TrailAt
<1>3. s[c + 1] = t[d + 1] /\ (k >= 2 => s[c + 2] = t[d + 2])
  OBVIOUS
<1>4. CASE k = 1
  BY <1>3, <1>4, FormedOctets
<1>5. CASE k = 2
  <2>1. TrailAt(s, c + 2) <=> TrailAt(t, d + 2)
    BY <1>2, <1>5
  <2> QED
    BY <1>3, <1>5, <2>1, FormedOctets
<1>6. CASE k = 3
  <2>1. /\ TrailAt(s, c + 2) <=> TrailAt(t, d + 2)
        /\ TrailAt(s, c + 3) <=> TrailAt(t, d + 3)
    BY <1>2, <1>6
  <2>2. s[c + 2] = t[d + 2]
    BY <1>3, <1>6
  <2> QED
    BY <1>3, <1>6, <2>1, <2>2, FormedOctets
<1>7. CASE k = 4
  <2>1. /\ TrailAt(s, c + 2) <=> TrailAt(t, d + 2)
        /\ TrailAt(s, c + 3) <=> TrailAt(t, d + 3)
        /\ TrailAt(s, c + 4) <=> TrailAt(t, d + 4)
    BY <1>2, <1>7
  <2>2. s[c + 2] = t[d + 2]
    BY <1>3, <1>7
  <2> QED
    BY <1>3, <1>7, <2>1, <2>2, FormedOctets
<1> QED
  BY <1>1, <1>4, <1>5, <1>6, <1>7

(* The same octets in another text can be cut in the same way.           *)
LEMMA CutElsewhere ==
  ASSUME NEW text \in Seq(Octet), NEW other \in Seq(Octet), NEW n \in Nat,
         n <= Len(text), n <= Len(other), \A i \in 1 .. n : other[i] = text[i],
         NEW cuts, Cut(text, n, cuts)
  PROVE  Cut(other, n, cuts)
<1>1. ASSUME NEW c \in cuts \ {n}
      PROVE  \E k \in 1 .. 4 : c + k \in cuts /\ FormedAt(other, c, k)
  <2>1. PICK k \in 1 .. 4 : c + k \in cuts /\ FormedAt(text, c, k)
    BY DEF Cut
  <2>2. c \in Nat /\ c + k <= n
    BY <2>1 DEF Cut
  <2>3. \A i \in 1 .. k : c + i \in 1 .. n
    BY <2>2
  <2>4. \A i \in 1 .. k : other[c + i] = text[c + i]
    BY <2>3
  <2>5. Formed(other, c, k) <=> Formed(text, c, k)
    BY <2>2, <2>4, FormedElsewhere
  <2>6. c + k <= Len(other)
    <3>1. Len(other) \in Nat
      BY OctetsOf
    <3> QED
      BY <2>2, <3>1
  <2> QED
    BY <2>1, <2>5, <2>6 DEF FormedAt
<1> QED
  BY <1>1 DEF Cut

(* A sequence before a well-formed text makes a well-formed text.        *)
LEMMA Prepended ==
  ASSUME NEW s \in Seq(Octet), Len(s) \in 1 .. 4, Text!WellFormedSequence(s),
         NEW t \in Seq(Octet), Text!WellFormed(t)
  PROVE  s \o t \in Seq(Octet) /\ Text!WellFormed(s \o t)
<1> DEFINE x == s \o t
           k == Len(s)
<1>1. /\ x \in Seq(Octet) /\ Len(x) = k + Len(t) /\ Len(t) \in Nat
      /\ \A i \in 1 .. k : x[i] = s[i]
      /\ \A i \in 1 .. Len(t) : x[k + i] = t[i]
  BY Behind
<1>2. PICK cuts : Cut(t, Len(t), cuts)
  BY WellFormedIsCut
<1> DEFINE D == {0} \union {k + c : c \in cuts}
<1>3. k \in 1 .. 4 /\ k \in Nat /\ k >= 1
  OBVIOUS
<1>4. Formed(x, 0, k)
  <2>1. \A i \in 1 .. k : s[i] \in Int /\ s[i] >= 0
    BY OctetsOf
  <2>2. 1 \in 1 .. k
    BY <1>3
  <2>3. \A i \in 1 .. k : 0 + i = i
    OBVIOUS
  <2>4. Formed(s, 0, k)
    BY <1>3, <2>1, <2>2, <2>3, SameSequence
  <2>5. \A i \in 1 .. k : x[0 + i] = s[0 + i]
    BY <1>1, <2>3
  <2>6. 0 \in Nat
    OBVIOUS
  <2> QED
    BY <1>3, <2>4, <2>5, <2>6, FormedElsewhere
<1> HIDE DEF x, k
<1>5. \A c \in cuts : c \in Nat /\ c <= Len(t)
  BY <1>1, <1>2 DEF Cut
<1>6. D \subseteq 0 .. Len(x) /\ 0 \in D
  BY <1>1, <1>3, <1>5
<1>7. ASSUME NEW c \in cuts, k + c # Len(x)
      PROVE  \E j \in 1 .. 4 : k + c + j \in D /\ FormedAt(x, k + c, j)
  <2>1. c # Len(t)
    BY <1>1, <1>7
  <2>2. PICK j \in 1 .. 4 : c + j \in cuts /\ FormedAt(t, c, j)
    BY <1>2, <2>1 DEF Cut
  <2>3. c \in Nat /\ k + c \in Nat /\ c + j <= Len(t)
    BY <1>3, <1>5, <2>2
  <2>4. /\ k + c + j <= k + Len(t) /\ k + c + j = k + (c + j)
        /\ \A i \in 1 .. j : c + i \in 1 .. Len(t) /\ k + c + i = k + (c + i)
    <3>1. PICK n : n = Len(t)
      OBVIOUS
    <3>2. k \in Nat /\ c \in Nat /\ n \in Nat /\ j \in Nat /\ c + j <= n
      BY <1>1, <1>3, <2>3, <3>1
    <3>3. /\ k + c + j <= k + n /\ k + c + j = k + (c + j)
          /\ \A i \in 1 .. j : c + i \in 1 .. n /\ k + c + i = k + (c + i)
      <4>1. c + j <= n => /\ k + c + j <= k + n /\ k + c + j = k + (c + j)
                          /\ \A i \in 1 .. j : c + i \in 1 .. n /\ k + c + i = k + (c + i)
        BY <3>2, LaterPositions
      <4> QED
        BY <3>2, <4>1
    <3> QED
      BY <3>1, <3>3, Zenon
  <2>5. \A i \in 1 .. j : c + i \in 1 .. Len(t) /\ k + c + i = k + (c + i)
    BY <2>4
  <2>6. \A i \in 1 .. j : x[k + c + i] = t[c + i]
    BY <1>1, <2>5
  <2>7. Formed(x, k + c, j)
    BY <2>2, <2>3, <2>6, FormedElsewhere DEF FormedAt
  <2>8. k + c + j <= Len(x) /\ k + c + j = k + (c + j)
    BY <1>1, <2>4
  <2>9. k + c + j \in D
    BY <2>2, <2>8
  <2> QED
    BY <2>7, <2>8, <2>9 DEF FormedAt
<1>8. \E j \in 1 .. 4 : 0 + j \in D /\ FormedAt(x, 0, j)
  <2>1. 0 \in cuts /\ k + 0 = k /\ 0 + k = k
    BY <1>2, <1>3 DEF Cut
  <2>2. 0 + k \in D
    BY <2>1
  <2>3. 0 + k <= Len(x)
    BY <1>1, <1>3
  <2> QED
    BY <1>3, <1>4, <2>2, <2>3 DEF FormedAt
<1>9. ASSUME NEW d \in D \ {Len(x)}
      PROVE  \E j \in 1 .. 4 : d + j \in D /\ FormedAt(x, d, j)
  <2>1. CASE d = 0
    BY <1>8, <2>1
  <2>2. CASE d # 0
    <3>1. PICK c \in cuts : d = k + c
      BY <2>2
    <3> HIDE DEF D
    <3> QED
      BY <1>7, <3>1
  <2> QED
    BY <2>1, <2>2
<1>10. Cut(x, Len(x), D)
  <2> HIDE DEF D
  <2> QED
    BY <1>6, <1>9 DEF Cut
<1>11. Text!WellFormed(x)
  BY <1>1, <1>10, WellFormedIsCut
<1> QED
  BY <1>1, <1>11 DEF x

(* The marker that replace_invalid puts is a sequence.                   *)
LEMMA MarkerIsSequence ==
  /\ Text!append(Text!replacement_marker) \in Seq(Octet)
  /\ Len(Text!append(Text!replacement_marker)) \in 1 .. 4
  /\ Text!WellFormedSequence(Text!append(Text!replacement_marker))
<1>1. Text!append(Text!replacement_marker) = <<239, 191, 189>>
  <2>1. (65533 \div 4096) + 224 = 239 /\ ((65533 \div 64) % 64) + 128 = 191
        /\ (65533 % 64) + 128 = 189
    BY SMT
  <2> QED
    BY <2>1, SMT DEF Text!append, Text!replacement_marker
<1> DEFINE s == <<239, 191, 189>>
<1>2. s \in Seq(Octet) /\ Len(s) = 3 /\ s[1] = 239 /\ s[2] = 191 /\ s[3] = 189
  BY SMT DEF Octet
<1> HIDE DEF s
<1>3. \A i \in 1 .. Len(s) : s[i] \in Int
  BY <1>2, OctetsOf
<1>4. TrailAt(s, 2) /\ TrailAt(s, 3) /\ s[1] >= 224 /\ s[1] <= 239 /\ s[1] # 224 /\ s[1] # 237
  BY <1>2, SMT DEF TrailAt
<1>5. Text!WellFormedSequence(s)
  BY <1>2, <1>3, <1>4, SequenceOf
<1>6. Len(s) \in 1 .. 4
  BY <1>2
<1> QED
  BY <1>1, <1>2, <1>5, <1>6 DEF s

(* replace_invalid.                                                      *)
AfterTrails(text, p) ==
  CHOOSE q \in p .. Len(text) :
    /\ \A r \in (p + 1) .. q : Text!is_trail(text[r])
    /\ q = Len(text) \/ ~Text!is_trail(text[q + 1])

Replacing(f, text) ==
  [p \in 0 .. Len(text) |->
     IF p = Len(text) \/ Text!validate_next(text, p).err = "NOT_ENOUGH_ROOM" THEN <<>>
     ELSE IF Text!Valid(Text!validate_next(text, p))
       THEN SubSeq(text, p + 1, Text!validate_next(text, p).it) \o f[Text!validate_next(text, p).it]
     ELSE Text!append(Text!replacement_marker) \o
            f[IF Text!validate_next(text, p).err = "INVALID_LEAD" THEN p + 1
              ELSE AfterTrails(text, p + 1)]]

Replaced(text) == CHOOSE f : f = Replacing(f, text)

(* The trails that replace_invalid passes end in the text.               *)
LEMMA TrailsEnd ==
  ASSUME NEW text \in Seq(Octet), NEW p \in 0 .. Len(text)
  PROVE  AfterTrails(text, p) \in p .. Len(text)
<1> DEFINE N == Len(text)
           T == {q \in p .. N : q = N \/ ~Text!is_trail(text[q + 1])}
<1>1. N \in Nat
  BY OctetsOf
<1>2. T \subseteq Nat /\ N \in T
  BY <1>1
<1>3. PICK q \in T : \A r \in T : q <= r
  <2> HIDE DEF T
  <2> QED
    BY <1>2, LeastNatural
<1>4. ASSUME NEW r \in p + 1 .. q PROVE Text!is_trail(text[r])
  <2>1. r - 1 \in p .. N /\ r - 1 # N /\ r - 1 + 1 = r /\ ~(q <= r - 1)
    BY <1>1, <1>3
  <2>2. r - 1 \notin T
    BY <1>3, <2>1
  <2> QED
    BY <2>1, <2>2
<1>5. \E n \in p .. N : /\ \A r \in (p + 1) .. n : Text!is_trail(text[r])
                        /\ n = N \/ ~Text!is_trail(text[n + 1])
  BY <1>3, <1>4
<1> QED
  BY <1>5 DEF AfterTrails

(* Where replace_invalid stops, what it writes, and where it goes on.    *)
Cuts(text, p) == p = Len(text) \/ Text!validate_next(text, p).err = "NOT_ENOUGH_ROOM"

Written(text, p) ==
  IF Text!Valid(Text!validate_next(text, p))
    THEN SubSeq(text, p + 1, Text!validate_next(text, p).it)
    ELSE Text!append(Text!replacement_marker)

Further(text, p) ==
  IF Text!Valid(Text!validate_next(text, p)) THEN Text!validate_next(text, p).it
  ELSE IF Text!validate_next(text, p).err = "INVALID_LEAD" THEN p + 1
  ELSE AfterTrails(text, p + 1)

(* One step of replace_invalid: a sequence, or the marker for none.      *)
LEMMA ReplacingStep ==
  ASSUME NEW f, NEW text, NEW p \in 0 .. Len(text)
  PROVE  Replacing(f, text)[p] = IF Cuts(text, p) THEN <<>>
                                 ELSE Written(text, p) \o f[Further(text, p)]
<1>1. CASE Cuts(text, p)
  BY <1>1 DEF Replacing, Cuts
<1>2. CASE ~Cuts(text, p) /\ Text!Valid(Text!validate_next(text, p))
  BY <1>2 DEF Replacing, Cuts, Written, Further
<1>3. CASE ~Cuts(text, p) /\ ~Text!Valid(Text!validate_next(text, p))
  BY <1>3 DEF Replacing, Cuts, Written, Further
<1> QED
  BY <1>1, <1>2, <1>3

(* What replace_invalid writes in a step is a well-formed sequence.      *)
LEMMA WrittenIsSequence ==
  ASSUME NEW text \in Seq(Octet), NEW p \in 0 .. Len(text), ~Cuts(text, p)
  PROVE  /\ Written(text, p) \in Seq(Octet) /\ Len(Written(text, p)) \in 1 .. 4
         /\ Text!WellFormedSequence(Written(text, p))
         /\ Further(text, p) \in p + 1 .. Len(text)
<1>1. PICK next : next = Text!validate_next(text, p)
  OBVIOUS
<1>2. p \in 0 .. Len(text) - 1 /\ p \in Nat /\ Len(text) \in Nat
  <2>1. p # Len(text) /\ Len(text) \in Nat
    BY OctetsOf DEF Cuts
  <2> QED
    BY <2>1
<1>3. CASE Text!Valid(next)
  <2>1. PICK k \in 1 .. 4 : SequenceAt(text, p, k, next)
    BY <1>1, <1>2, <1>3, NextIsSequence
  <2>2. next.it = p + k /\ p + k <= Len(text) /\ Formed(text, p, k)
    BY <2>1 DEF SequenceAt, FormedAt
  <2>3. Written(text, p) = SubSeq(text, p + 1, p + k) /\ Further(text, p) = p + k
    BY <1>1, <1>3, <2>2 DEF Written, Further
  <2>4. p + k \in Nat /\ p <= p + k /\ p + k - p = k /\ p + k \in p + 1 .. Len(text)
    BY <1>2, <2>2
  <2>5. SubSeq(text, p + 1, p + k) \in Seq(Octet) /\ Len(SubSeq(text, p + 1, p + k)) = p + k - p
    BY <1>2, <2>2, <2>4, PartOf
  <2>6. Text!WellFormedSequence(SubSeq(text, p + 1, p + k))
    BY <1>2, <2>2, SequenceIsFormed
  <2> QED
    BY <2>3, <2>4, <2>5, <2>6
<1>4. CASE ~Text!Valid(next)
  <2>1. Written(text, p) = Text!append(Text!replacement_marker)
    BY <1>1, <1>4 DEF Written
  <2>2. p + 1 \in 0 .. Len(text) /\ p + 1 \in p + 1 .. Len(text)
    BY <1>2
  <2>3. AfterTrails(text, p + 1) \in p + 1 .. Len(text)
    BY <2>2, TrailsEnd
  <2>4. Further(text, p) \in p + 1 .. Len(text)
    BY <1>1, <1>4, <2>2, <2>3 DEF Further
  <2> QED
    BY <2>1, <2>4, MarkerIsSequence
<1> QED
  BY <1>3, <1>4

(* There is such a function, and replace_invalid is it.                  *)
LEMMA Replaces ==
  ASSUME NEW text \in Seq(Octet)
  PROVE  /\ Text!replace_invalid(text) = Replaced(text)[0]
         /\ \A p \in 0 .. Len(text) :
              Replaced(text)[p] = IF Cuts(text, p) THEN <<>>
                                  ELSE Written(text, p) \o Replaced(text)[Further(text, p)]
<1> DEFINE N == Len(text)
           b == [p \in 0 .. N |-> <<>>]
           stop == {p \in 0 .. N : Cuts(text, p)}
           piece == [p \in 0 .. N |-> Written(text, p)]
           next == [p \in 0 .. N |-> Further(text, p)]
<1>1. N \in Nat
  BY OctetsOf
<1>2. \A p \in 0 .. N : p \notin stop => next[p] \in p + 1 .. N
  BY WrittenIsSequence
<1>3. PICK f : f = Walking(f, 0, N, stop, b, TRUE, piece, next)
  <2> HIDE DEF N, b, stop, piece, next
  <2>1. HasWalk(N, stop, b, TRUE, piece, next)
    BY <1>1, <1>2, WalkExists
  <2> QED
    BY <2>1 DEF HasWalk
<1>4. f = Replacing(f, text)
  <2>1. ASSUME NEW p \in 0 .. N PROVE f[p] = Replacing(f, text)[p]
    <3>1. f[p] = Walking(f, 0, N, stop, b, TRUE, piece, next)[p]
      BY <1>3
    <3>2. Walking(f, 0, N, stop, b, TRUE, piece, next)[p]
            = IF Cuts(text, p) THEN <<>> ELSE Written(text, p) \o f[Further(text, p)]
      BY DEF Walking
    <3> QED
      BY <3>1, <3>2, ReplacingStep
  <2>2. f = [p \in 0 .. N |-> f[p]]
    <3>1. Walking(f, 0, N, stop, b, TRUE, piece, next)
            = [p \in 0 .. N |-> Walking(f, 0, N, stop, b, TRUE, piece, next)[p]]
      BY DEF Walking
    <3> QED
      BY <1>3, <3>1
  <2>3. Replacing(f, text) = [p \in 0 .. N |-> Replacing(f, text)[p]]
    BY DEF Replacing
  <2> QED
    BY <2>1, <2>2, <2>3
<1>5. Replaced(text) = Replacing(Replaced(text), text)
  BY <1>4 DEF Replaced
<1>6. Text!replace_invalid(text) = Replaced(text)[0]
  BY DEF Text!replace_invalid, Replaced, Replacing, AfterTrails
<1>7. \A p \in 0 .. N : Replaced(text)[p] = Replacing(Replaced(text), text)[p]
  BY <1>5
<1> QED
  BY <1>6, <1>7, ReplacingStep

(* What replace_invalid returns is well formed, whatever it is given.    *)
LEMMA ReplacedIsWellFormed ==
  ASSUME NEW text \in Seq(Octet)
  PROVE  Text!WellFormed(Text!replace_invalid(text))
<1> DEFINE N == Len(text)
           S == {p \in 0 .. N : /\ Replaced(text)[p] \in Seq(Octet)
                                /\ Text!WellFormed(Replaced(text)[p])}
<1>1. N \in Nat
  BY OctetsOf
<1>2. ASSUME NEW p \in 0 .. N, \A q \in p + 1 .. N : q \in S PROVE p \in S
  <2>1. CASE Cuts(text, p)
    <3>1. Replaced(text)[p] = <<>>
      BY <2>1, Replaces
    <3>2. <<>> \in Seq(Octet) /\ Len(<<>>) = 0
      OBVIOUS
    <3>3. Cut(<<>>, 0, {0})
      BY DEF Cut
    <3>4. Text!WellFormed(<<>>)
      BY <3>2, <3>3, WellFormedIsCut
    <3> QED
      BY <3>1, <3>2, <3>4
  <2>2. CASE ~Cuts(text, p)
    <3>1. PICK r : r = Replaced(text)[Further(text, p)]
      OBVIOUS
    <3>2. r \in Seq(Octet) /\ Text!WellFormed(r)
      <4>1. Further(text, p) \in p + 1 .. N
        BY <2>2, WrittenIsSequence
      <4> QED
        BY <1>2, <3>1, <4>1
    <3>3. Replaced(text)[p] = Written(text, p) \o r
      BY <2>2, <3>1, Replaces
    <3>4. Written(text, p) \o r \in Seq(Octet) /\ Text!WellFormed(Written(text, p) \o r)
      BY <2>2, <3>2, WrittenIsSequence, Prepended
    <3> QED
      BY <3>3, <3>4
  <2> QED
    BY <2>1, <2>2
<1>3. 0 \in S
  <2> HIDE DEF S
  <2>1. 0 .. N \subseteq S
    BY <1>1, <1>2, Backwards
  <2>2. 0 \in 0 .. N
    BY <1>1
  <2> QED
    BY <2>1, <2>2
<1> QED
  BY <1>3, Replaces

(* The iterator stands between two sequences of what it has passed.      *)
TextInv ==
  /\ octets \in Seq(Octet) /\ it \in 0 .. Len(octets)
  /\ \E cuts : Cut(octets, it, cuts) /\ it \in cuts

(* At first the iterator stands at the start of an empty text.           *)
LEMMA TextInit == Init => TextInv
<1> SUFFICES ASSUME octets = <<>>, it = 0 PROVE TextInv
  BY DEF Init, Text!Init
<1>1. octets \in Seq(Octet) /\ Len(octets) = 0
  OBVIOUS
<1>2. Cut(octets, it, {0}) /\ it \in {0}
  BY DEF Cut
<1> QED
  BY <1>1, <1>2 DEF TextInv

(* operator ++ passes one sequence more.                                 *)
LEMMA Passed ==
  ASSUME NEW text \in Seq(Octet), NEW p \in 0 .. Len(text) - 1, NEW k \in 1 .. 4,
         FormedAt(text, p, k), NEW cuts, Cut(text, p, cuts), p \in cuts
  PROVE  \E after : Cut(text, p + k, after) /\ p + k \in after
<1> DEFINE after == cuts \union {p + k}
<1>1. p \in Nat /\ p + k \in Nat /\ Len(text) \in Nat
  BY OctetsOf
<1>2. cuts \subseteq 0 .. p /\ 0 \in cuts
  BY DEF Cut
<1>3. after \subseteq 0 .. p + k /\ 0 \in after
  BY <1>1, <1>2
<1>4. ASSUME NEW c \in after \ {p + k}
      PROVE  \E j \in 1 .. 4 : c + j \in after /\ FormedAt(text, c, j)
  <2>1. c \in cuts
    OBVIOUS
  <2>2. CASE c = p
    BY <2>2
  <2>3. CASE c # p
    BY <2>1, <2>3 DEF Cut
  <2> QED
    BY <2>2, <2>3
<1>5. Cut(text, p + k, after)
  <2> HIDE DEF after
  <2> QED
    BY <1>3, <1>4 DEF Cut
<1> QED
  BY <1>5

(* The octets before p that are no trail, and the one prior goes back to.*)
LeadsBefore(text, p) == {q \in 0 .. p - 1 : ~Text!is_trail(text[q + 1])}
BackFrom(text, p) ==
  IF LeadsBefore(text, p) = {} THEN 0
  ELSE CHOOSE q \in LeadsBefore(text, p) : \A r \in LeadsBefore(text, p) : r <= q

(* prior goes back to that octet.                                        *)
LEMMA PriorGoesBack == Text!prior(it) = BackFrom(octets, it)
  BY DEF Text!prior, BackFrom, LeadsBefore

(* The octet that prior goes back to begins the sequence before p.       *)
LEMMA PriorIsCut ==
  ASSUME NEW text \in Seq(Octet), NEW p \in 1 .. Len(text),
         NEW cuts, Cut(text, p, cuts), p \in cuts, NEW back, back = BackFrom(text, p)
  PROVE  back \in 0 .. p - 1 /\ Cut(text, back, cuts \cap 0 .. back) /\ back \in cuts
<1> DEFINE leads == {q \in 0 .. p - 1 : ~Text!is_trail(text[q + 1])}
<1>0. back = IF leads = {} THEN 0 ELSE CHOOSE q \in leads : \A r \in leads : r <= q
  BY DEF BackFrom, LeadsBefore
<1>1. p \in Nat /\ p >= 1 /\ Len(text) \in Nat /\ p <= Len(text)
  BY OctetsOf
<1>2. cuts \subseteq 0 .. p /\ 0 \in cuts
  BY DEF Cut
<1> DEFINE D == {d \in 1 .. p : p - d \in cuts}
<1>3. D \subseteq Nat /\ p \in D
  <2>1. p \in 1 .. p /\ p - p = 0
    BY <1>1
  <2> QED
    BY <1>2, <2>1
<1>4. PICK d \in D : \A e \in D : d <= e
  <2> HIDE DEF D
  <2> QED
    BY <1>3, LeastNatural
<1>5. PICK c \in Nat : c = p - d /\ c \in cuts /\ c < p
  <2>1. d \in 1 .. p /\ p - d \in cuts /\ p - d \in Nat /\ p - d < p
    BY <1>1, <1>4
  <2> QED
    BY <2>1
<1>6. ASSUME NEW q \in cuts, q < p PROVE q <= c
  <2>1. q \in Nat /\ p - q \in 1 .. p /\ p - (p - q) = q
    BY <1>1, <1>2, <1>6
  <2>2. p - q \in D
    BY <2>1
  <2>3. d <= p - q /\ d \in D
    BY <1>4, <2>2
  <2>4. d \in Nat
    BY <1>3, <2>3
  <2> QED
    BY <1>1, <1>5, <2>1, <2>3, <2>4
<1> HIDE DEF D
<1>7. PICK k \in 1 .. 4 : c + k \in cuts /\ FormedAt(text, c, k)
  BY <1>5 DEF Cut
<1>8. c + k = p
  <2>1. c + k <= p
    BY <1>2, <1>7
  <2>2. c + k < p => c + k <= c
    BY <1>6, <1>7
  <2>3. ~(c + k <= c) /\ c + k \in Nat
    BY <1>5
  <2> QED
    BY <1>1, <2>1, <2>2, <2>3
<1>9. c \in 0 .. Len(text) - 1
  BY <1>1, <1>5
<1>10. /\ ~Text!is_trail(text[c + 1])
       /\ \A q \in c + 2 .. c + k : Text!is_trail(text[q])
  BY <1>7, <1>9, LeadOfSequence
<1>11. c \in leads
  BY <1>1, <1>5, <1>10
<1>12. ASSUME NEW q \in leads PROVE q <= c
  <2> SUFFICES ASSUME q > c PROVE FALSE
    BY <1>5
  <2>1. q + 1 \in c + 2 .. c + k
    BY <1>1, <1>5, <1>8
  <2> QED
    BY <1>10, <2>1
<1>13. back = c
  <2>1. back \in leads /\ \A r \in leads : r <= back
    <3> HIDE DEF leads
    <3> QED
      BY <1>0, <1>11, <1>12
  <2>2. back \in Nat
    BY <1>1, <2>1
  <2>3. back <= c
    BY <1>12, <2>1
  <2>4. c <= back
    BY <1>11, <2>1
  <2>5. c \in Nat
    OBVIOUS
  <2> QED
    BY <2>2, <2>3, <2>4, <2>5
<1>14. ASSUME NEW e \in (cuts \cap 0 .. c) \ {c}
       PROVE  \E j \in 1 .. 4 : e + j \in cuts \cap 0 .. c /\ FormedAt(text, e, j)
  <2>1. e \in Nat /\ e < c /\ e # p /\ e \in cuts
    BY <1>5
  <2>2. PICK j \in 1 .. 4 : e + j \in cuts /\ FormedAt(text, e, j)
    BY <2>1 DEF Cut
  <2>3. ~(e + j > c)
    <3> SUFFICES ASSUME e + j > c PROVE FALSE
      OBVIOUS
    <3>1. c + 1 \in e + 2 .. e + j
      BY <1>5, <2>1
    <3>2. e \in 0 .. Len(text) - 1
      BY <1>9, <2>1
    <3>3. Text!is_trail(text[c + 1])
      BY <2>2, <3>1, <3>2, LeadOfSequence
    <3> QED
      BY <1>10, <3>3
  <2>4. e + j \in 0 .. c
    BY <1>5, <2>1, <2>3
  <2> QED
    BY <2>2, <2>4
<1>15. Cut(text, c, cuts \cap 0 .. c)
  <2>1. 0 \in 0 .. c
    BY <1>5
  <2> QED
    BY <1>2, <1>14, <2>1 DEF Cut
<1>16. c \in 0 .. p - 1
  BY <1>1, <1>5
<1> QED
  BY <1>5, <1>13, <1>15, <1>16

(* Receiving, ++ and -- keep the iterator between two sequences.         *)
LEMMA TextNext == TextInv /\ [Next]_vars => TextInv'
<1> SUFFICES ASSUME TextInv, [Text!Next]_textVars PROVE TextInv'
  BY TextSteps
<1>1. octets \in Seq(Octet) /\ it \in 0 .. Len(octets) /\ Len(octets) \in Nat
  BY OctetsOf DEF TextInv
<1>2. PICK cuts : Cut(octets, it, cuts) /\ it \in cuts
  BY DEF TextInv
<1>3. ASSUME NEW oc \in Octets, Text!Receive(oc) PROVE TextInv'
  <2>1. octets' = Append(octets, oc) /\ it' = it
    BY <1>3 DEF Text!Receive
  <2>2. oc \in Octet
    BY OctetsAssumption DEF Octet
  <2>3. /\ octets' \in Seq(Octet) /\ Len(octets') = Len(octets) + 1
        /\ \A i \in 1 .. Len(octets) : octets'[i] = octets[i]
    BY <1>1, <2>1, <2>2, AppendProperties
  <2>4. it \in Nat /\ it <= Len(octets) /\ it <= Len(octets') /\ it \in 0 .. Len(octets')
    BY <1>1, <2>3
  <2>5. \A i \in 1 .. it : octets'[i] = octets[i]
    BY <1>1, <2>3
  <2>6. Cut(octets', it, cuts)
    BY <1>1, <1>2, <2>3, <2>4, <2>5, CutElsewhere
  <2> QED
    BY <1>2, <2>1, <2>3, <2>4, <2>6 DEF TextInv
<1>4. ASSUME Text!Increment PROVE TextInv'
  <2>1. /\ it < Len(octets) /\ octets' = octets
        /\ it' = Text!validate_next(octets, it).it
    BY <1>4 DEF Text!Increment
  <2>2. it \in 0 .. Len(octets) - 1
    BY <1>1, <2>1
  <2>3. CASE Text!Valid(Text!validate_next(octets, it))
    <3>1. PICK k \in 1 .. 4 : SequenceAt(octets, it, k, Text!validate_next(octets, it))
      BY <1>1, <2>2, <2>3, NextIsSequence
    <3>2. it' = it + k /\ FormedAt(octets, it, k) /\ it + k <= Len(octets)
      BY <2>1, <3>1 DEF SequenceAt, FormedAt
    <3>3. \E after : Cut(octets, it + k, after) /\ it + k \in after
      BY <1>1, <1>2, <2>2, <3>2, Passed
    <3>4. it + k \in 0 .. Len(octets)
      BY <1>1, <3>2
    <3> QED
      BY <1>1, <2>1, <3>2, <3>3, <3>4 DEF TextInv
  <2>4. CASE ~Text!Valid(Text!validate_next(octets, it))
    <3>1. it' = it
      BY <1>1, <2>1, <2>2, <2>4, NextIsSequence
    <3> QED
      BY <2>1, <3>1 DEF TextInv
  <2> QED
    BY <2>3, <2>4
<1>5. ASSUME Text!Decrement PROVE TextInv'
  <2>1. it > 0 /\ octets' = octets /\ it' = Text!prior(it)
    BY <1>5 DEF Text!Decrement
  <2>2. it \in 1 .. Len(octets)
    BY <1>1, <2>1
  <2>3. PICK back : back = it'
    OBVIOUS
  <2>4. back = BackFrom(octets, it)
    BY <2>1, <2>3, PriorGoesBack
  <2>5. it' \in 0 .. it - 1 /\ Cut(octets, it', cuts \cap 0 .. it') /\ it' \in cuts
    <3>1. octets \in Seq(Octet) /\ Cut(octets, it, cuts) /\ it \in cuts
      BY <1>1, <1>2
    <3>2. back \in 0 .. it - 1 /\ Cut(octets, back, cuts \cap 0 .. back) /\ back \in cuts
      BY <2>2, <2>4, <3>1, PriorIsCut, ZenonT(60)
    <3> QED
      BY <2>3, <3>2, Zenon
  <2>6. it' \in cuts \cap 0 .. it' /\ it' \in 0 .. Len(octets)
    <3>1. it \in Nat /\ Len(octets) \in Nat /\ it <= Len(octets)
      BY <1>1, <2>2
    <3>2. \A b, p, n \in Int : b \in 0 .. p - 1 /\ p <= n => b \in 0 .. b /\ b \in 0 .. n
      OBVIOUS
    <3>3. back \in 0 .. it - 1
      BY <2>3, <2>5, Zenon
    <3>4. back \in Int
      BY <3>1, <3>3, SMT
    <3>5. back \in 0 .. back /\ back \in 0 .. Len(octets)
      BY <3>1, <3>2, <3>3, <3>4, SMT
    <3> QED
      BY <2>3, <2>5, <3>5, Zenon
  <2> QED
    BY <1>1, <2>1, <2>5, <2>6 DEF TextInv
<1>6. ASSUME UNCHANGED textVars PROVE TextInv'
  BY <1>6 DEF TextInv, textVars
<1> QED
  BY <1>3, <1>4, <1>5, <1>6 DEF Text!Next

(* What can be cut into sequences is well formed, taken out.             *)
LEMMA PrefixIsWellFormed ==
  ASSUME NEW text \in Seq(Octet), NEW n \in 0 .. Len(text), NEW cuts, Cut(text, n, cuts)
  PROVE  Text!WellFormed(SubSeq(text, 1, n))
<1> DEFINE s == SubSeq(text, 1, n)
<1>1. n \in Nat /\ n <= Len(text) /\ 0 + 1 = 1 /\ 0 <= n /\ 0 \in Nat /\ n - 0 = n
  BY OctetsOf
<1>2. /\ SubSeq(text, 0 + 1, n) \in Seq(Octet) /\ Len(SubSeq(text, 0 + 1, n)) = n - 0
      /\ \A i \in 1 .. n - 0 : SubSeq(text, 0 + 1, n)[i] = text[0 + i]
  BY <1>1, PartOf
<1>3. s \in Seq(Octet) /\ Len(s) = n /\ \A i \in 1 .. n : s[i] = text[i]
  BY <1>1, <1>2
<1> HIDE DEF s
<1>4. n <= Len(s)
  BY <1>1, <1>3
<1>5. Cut(s, n, cuts)
  BY <1>1, <1>3, <1>4, CutElsewhere
<1>6. Text!WellFormed(s)
  BY <1>3, <1>5, WellFormedIsCut
<1> QED
  BY <1>6 DEF s

(* Between two sequences, unchecked::prior goes back as far as prior.    *)
LEMMA SamePrior ==
  ASSUME TextInv, it > 0
  PROVE  Text!unchecked_prior(octets, it) = Text!prior(it)
<1>1. octets \in Seq(Octet) /\ it \in 0 .. Len(octets) /\ Len(octets) \in Nat
  BY OctetsOf DEF TextInv
<1>2. PICK cuts : Cut(octets, it, cuts) /\ it \in cuts
  BY DEF TextInv
<1>3. PICK back : back = BackFrom(octets, it)
  OBVIOUS
<1>4. it \in 1 .. Len(octets)
  BY <1>1
<1>5. back \in 0 .. it - 1 /\ back \in cuts
  BY <1>1, <1>2, <1>3, <1>4, PriorIsCut
<1>6. back # it /\ back \in 0 .. Len(octets) - 1
  BY <1>1, <1>5
<1>7. PICK k \in 1 .. 4 : FormedAt(octets, back, k)
  BY <1>2, <1>5, <1>6 DEF Cut
<1>8. ~Text!is_trail(octets[back + 1])
  BY <1>1, <1>6, <1>7, LeadOfSequence
<1>9. back \in LeadsBefore(octets, it)
  BY <1>5, <1>8 DEF LeadsBefore
<1> QED
  BY <1>9, PriorGoesBack DEF BackFrom, LeadsBefore, Text!unchecked_prior

(* With the iterator between sequences, the codec keeps its promises.    *)
LEMMA CodecHolds == TextInv => Text!CodecIsUtf8
<1> SUFFICES ASSUME TextInv PROVE Text!CodecIsUtf8
  OBVIOUS
<1>1. octets \in Seq(Octet) /\ it \in 0 .. Len(octets) /\ Len(octets) \in Nat
  BY OctetsOf DEF TextInv
<1>2. PICK cuts : Cut(octets, it, cuts) /\ it \in cuts
  BY DEF TextInv
<1>3. Text!is_valid(octets) <=> Text!WellFormed(octets)
  BY <1>1, ValidIsWellFormed
<1>4. ASSUME Text!is_valid(octets)
      PROVE  /\ Text!utf32to8(Text!utf8to32(octets)) = octets
             /\ Text!utf16to8(Text!utf8to16(octets)) = octets
  BY <1>1, <1>4, BackFromPoints, BackFromWords
<1>5. Text!WellFormed(Text!replace_invalid(octets))
  BY <1>1, ReplacedIsWellFormed
<1>6. Text!WellFormed(SubSeq(octets, 1, it))
  BY <1>1, <1>2, PrefixIsWellFormed
<1>7. ASSUME Text!is_valid(octets), it < Len(octets)
      PROVE  Text!unchecked_next(octets, it)
               = [cp |-> Text!validate_next(octets, it).cp,
                  it |-> Text!validate_next(octets, it).it]
  <2>1. 0 \in Good(octets)
    BY <1>1, <1>7, ValidIsWellFormed
  <2>2. Find(octets)[0] = Find(octets)[it]
    BY <1>1, <1>2, CutsAreFound
  <2>3. it \in Good(octets) /\ it # Len(octets)
    BY <1>1, <1>7, <2>1, <2>2 DEF Good
  <2> QED
    BY <1>1, <2>3, UncheckedAt
<1>8. ASSUME Text!is_valid(octets)
      PROVE  /\ Text!unchecked_utf8to32(octets) = Text!utf8to32(octets)
             /\ Text!unchecked_utf8to16(octets) = Text!utf8to16(octets)
             /\ Text!unchecked_utf32to8(Text!utf8to32(octets)) = octets
  <2>1. Text!unchecked_utf32to8(Text!utf8to32(octets)) = Text!utf32to8(Text!utf8to32(octets))
    BY <1>1, <1>8, PointsAreCodePoints, SameEncoded
  <2> QED
    BY <1>1, <1>4, <1>8, <2>1, SamePoints, SameWords
<1>9. it > 0 => Text!unchecked_prior(octets, it) = Text!prior(it)
  BY SamePrior
<1> QED
  BY <1>3, <1>4, <1>5, <1>6, <1>7, <1>8, <1>9 DEF Text!CodecIsUtf8

(* For any octets: text is valid exactly when it is well formed, converted*)
(* to words or code points and back it is the same, and what iterators   *)
(* pass is whole sequences; flags and strings come out as put in.        *)
THEOREM EncodingsAgreeHolds == Spec => []EncodingsAgree
<1>1. Init => FlagInv /\ TextInv /\ AssignInv
  BY FlagInit, TextInit, AssignInit
<1>2. FlagInv /\ TextInv /\ AssignInv /\ [Next]_vars
        => (FlagInv /\ TextInv /\ AssignInv)'
  BY FlagNext, TextNext, AssignNext
<1>3. FlagInv /\ TextInv /\ AssignInv => EncodingsAgree
  BY FlagsAreFlags, CodecHolds, StringIsAssigned DEF EncodingsAgree
<1> QED
  BY <1>1, <1>2, <1>3, PTL DEF Spec
=============================================================================
