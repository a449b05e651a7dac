---------------------------- MODULE EventQueues ----------------------------
(***************************************************************************)
(* vectorPqueuePerformance.cpp: the same events are put into a priority    *)
(* queue, an ordered list, an ordered vector and, by binary search, into a *)
(* second vector, whose comparison is the priority queue's; the vector and *)
(* the priority queue are then emptied.  An event is its place in values.  *)
(***************************************************************************)
EXTENDS Integers, Sequences, FiniteSets, SequencesExt

CONSTANTS Count, Times

VARIABLES
  values,                  \* m_dwNextEventTime of the events
  phase,                   \* the loop that runs
  nLoopCnt,
  pQueue,                  \* its elements; which of equal ones is on top is open
  listEntities, vector, vectorUserBinaryInsert,
  popped, poppedPQueue     \* the values nCurrent had in the two last loops

vars == <<values, phase, nLoopCnt, pQueue, listEntities, vector,
          vectorUserBinaryInsert, popped, poppedPQueue>>

Init ==
  /\ values \in [0 .. Count - 1 -> Times]
  /\ phase = "pqueue" /\ nLoopCnt = Count
  /\ pQueue = {} /\ listEntities = <<>> /\ vector = <<>>
  /\ vectorUserBinaryInsert = <<>>
  /\ popped = <<>> /\ poppedPQueue = <<>>

(* myEvtComparsion, constructed by default: DESCENDING. *)
Comparsion(lhs, rhs) == values[lhs] > values[rhs]

(* while(nLoopCnt--) of one of the loops, and nLoopCnt set for the next.   *)
Loop(this, then) ==
  /\ phase = this
  /\ IF nLoopCnt = 1 THEN phase' = then /\ nLoopCnt' = Count
     ELSE nLoopCnt' = nLoopCnt - 1 /\ UNCHANGED phase

nCurInput == nLoopCnt - 1

(* nCurInput put into s before the first of its elements that is in stops. *)
Before(s, stops) ==
  LET i == SelectInSeq(s, LAMBDA e : e \in stops)
  IN  InsertAt(s, IF i = 0 THEN Len(s) + 1 ELSE i, nCurInput)

Later == {e \in DOMAIN values : values[e] > values[nCurInput]}

PushPQueue ==
  /\ Loop("pqueue", "list")
  /\ pQueue' = pQueue \union {nCurInput}
  /\ UNCHANGED <<values, listEntities, vector, vectorUserBinaryInsert, popped, poppedPQueue>>

(* Before the first that is later. *)
InsertList ==
  /\ Loop("list", "vector")
  /\ listEntities' = Before(listEntities, Later)
  /\ UNCHANGED <<values, pQueue, vector, vectorUserBinaryInsert, popped, poppedPQueue>>

MutInsertVector ==
  /\ Loop("vector", "binary")
  /\ vector' = Before(vector, {e \in DOMAIN values : values[e] >= values[nCurInput]})
  /\ UNCHANGED <<values, pQueue, listEntities, vectorUserBinaryInsert, popped, poppedPQueue>>

InsertVector ==
  /\ Loop("vector", "binary")
  /\ vector' = Before(vector, Later)
  /\ UNCHANGED <<values, pQueue, listEntities, vectorUserBinaryInsert, popped, poppedPQueue>>

(* std::lower_bound: the first that is not compared before the new one.    *)
InsertBinary ==
  /\ Loop("binary", "popVector")
  /\ vectorUserBinaryInsert' =
       Before(vectorUserBinaryInsert, {e \in DOMAIN values : ~Comparsion(e, nCurInput)})
  /\ UNCHANGED <<values, pQueue, listEntities, vector, popped, poppedPQueue>>

PopVector ==
  /\ phase = "popVector"
  /\ IF vector = <<>> THEN phase' = "popPQueue" /\ UNCHANGED <<vector, popped>>
     ELSE /\ popped' = Append(popped, Head(vector))
          /\ vector' = Tail(vector)
          /\ UNCHANGED phase
  /\ UNCHANGED <<values, nLoopCnt, pQueue, listEntities, vectorUserBinaryInsert, poppedPQueue>>

(* top() is an element that is compared before no other.                   *)
PopPQueue ==
  /\ phase = "popPQueue"
  /\ \E top \in pQueue :
       /\ \A e \in pQueue : ~Comparsion(top, e)
       /\ pQueue' = pQueue \ {top}
       /\ poppedPQueue' = Append(poppedPQueue, top)
  /\ UNCHANGED <<values, phase, nLoopCnt, listEntities, vector, vectorUserBinaryInsert, popped>>

Next ==
  \/ PushPQueue \/ InsertList \/ InsertVector \/ InsertBinary
  \/ PopVector \/ PopPQueue

Spec == Init /\ [][Next]_vars
-----------------------------------------------------------------------------
TimesOf(s) == [i \in DOMAIN s |-> values[s[i]]]

(* The four containers agree on the order of the same events: the list and *)
(* the vector hold them by time, equal ones as they came, the vector with  *)
(* the binary search exactly the other way round, and the priority queue   *)
(* hands out the same times as the vector.                                 *)
EventsInOrder ==
  /\ \A i, j \in DOMAIN listEntities : i < j =>
       LET d == listEntities[i]
           e == listEntities[j]
       IN  values[d] < values[e] \/ (values[d] = values[e] /\ d > e)
  /\ phase \in {"binary", "popVector", "popPQueue"} => popped \o vector = listEntities
  /\ phase \in {"popVector", "popPQueue"} =>
       vectorUserBinaryInsert = Reverse(listEntities)
  /\ IsPrefix(TimesOf(poppedPQueue), TimesOf(popped))
=============================================================================
