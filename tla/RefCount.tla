------------------------------ MODULE RefCount ------------------------------
(***************************************************************************)
(* CRefCount of critsect.h, in the build without CRITSECT_DEBUG_REFCOUNT:  *)
(* RefAdd and RefDec copy the count and try to exchange it for its         *)
(* successor or predecessor, again and again until nobody came between; at *)
(* 0 they give up and return 0.  Init gives the creator a reference.       *)
(*                                                                         *)
(* A user is a part of the program that has one reference at most, calls   *)
(* RefDec for that one only, and takes a 0 from it as the sign to free the *)
(* object.  Users without a reference know the address and may try RefAdd. *)
(***************************************************************************)
EXTENDS Integers, FiniteSets

CONSTANTS Users, Creator

VARIABLES
  refcount,     \* a LONG; it never exceeds the number of users
  prevCopy,     \* the copy of refcount in a user's RefAdd or RefDec (0: none)
  pc

vars == <<refcount, prevCopy, pc>>

PC == {"none", "add", "addTry", "has", "dec", "decTry", "free"}

Holders == {u \in Users : pc[u] \in {"has", "dec", "decTry"}}
Freers == {u \in Users : pc[u] = "free"}

Goto(u, from, to) == pc[u] = from /\ pc' = [pc EXCEPT ![u] = to]
Copy(u) == prevCopy' = [prevCopy EXCEPT ![u] = refcount]
Forget(u) == prevCopy' = [prevCopy EXCEPT ![u] = 0]

Init ==
  /\ refcount = 1
  /\ prevCopy = [u \in Users |-> 0]
  /\ pc = [u \in Users |-> IF u = Creator THEN "has" ELSE "none"]
-----------------------------------------------------------------------------
RefAdd(u) == Goto(u, "none", "add") /\ UNCHANGED <<refcount, prevCopy>>

MutAddCopy(u) == Goto(u, "add", "addTry") /\ Copy(u) /\ UNCHANGED refcount

AddCopy(u) ==
  /\ Goto(u, "add", IF refcount <= 0 THEN "none" ELSE "addTry")
  /\ IF refcount <= 0 THEN UNCHANGED prevCopy ELSE Copy(u)
  /\ UNCHANGED refcount

MutAddStore(u) ==
  /\ Goto(u, "addTry", "has")
  /\ refcount' = prevCopy[u] + 1
  /\ Forget(u)

AddExchange(u) ==
  /\ \/ /\ refcount = prevCopy[u]
        /\ Goto(u, "addTry", "has")
        /\ refcount' = prevCopy[u] + 1
     \/ /\ refcount # prevCopy[u]
        /\ Goto(u, "addTry", "add")
        /\ UNCHANGED refcount
  /\ Forget(u)
-----------------------------------------------------------------------------
RefDec(u) == Goto(u, "has", "dec") /\ UNCHANGED <<refcount, prevCopy>>

DecCopy(u) ==
  /\ Goto(u, "dec", IF refcount <= 0 THEN "free" ELSE "decTry")
  /\ IF refcount <= 0 THEN UNCHANGED prevCopy ELSE Copy(u)
  /\ UNCHANGED refcount

(* RefDec returns what its own exchange stored. *)
MutDecStore(u) ==
  /\ Goto(u, "decTry", IF prevCopy[u] = 1 THEN "free" ELSE "none")
  /\ refcount' = prevCopy[u] - 1
  /\ Forget(u)

DecExchange(u) ==
  /\ \/ /\ refcount = prevCopy[u]
        /\ Goto(u, "decTry", IF prevCopy[u] = 1 THEN "free" ELSE "none")
        /\ refcount' = prevCopy[u] - 1
     \/ /\ refcount # prevCopy[u]
        /\ Goto(u, "decTry", "dec")
        /\ UNCHANGED refcount
  /\ Forget(u)

Add(u) == AddCopy(u) \/ AddExchange(u)
Dec(u) == DecCopy(u) \/ DecExchange(u)

Next == \E u \in Users : RefAdd(u) \/ Add(u) \/ RefDec(u) \/ Dec(u)

Spec == Init /\ [][Next]_vars
-----------------------------------------------------------------------------
(* Types and ranges of the variables. *)
TypeOK ==
  /\ refcount \in Nat
  /\ prevCopy \in [Users -> Nat]
  /\ pc \in [Users -> PC]

(* No reference is lost or counted twice, although every call works on a   *)
(* copy of the count that may be stale.                                    *)
CountIsReferences == refcount = Cardinality(Holders)

(* The object is freed exactly when nobody has a reference to it, and by   *)
(* one user.                                                               *)
FreedOnce ==
  /\ Holders = {} => Freers # {}
  /\ \A u \in Freers : Holders = {} /\ Freers = {u}

(* RefAdd cannot bring back an object that was released for good.          *)
NeverRevived == [][refcount = 0 => refcount' = 0]_vars
=============================================================================
