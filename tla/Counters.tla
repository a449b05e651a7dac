------------------------------ MODULE Counters ------------------------------
(***************************************************************************)
(* The LONG counters of critsect.h that InterlockedIncrement moves on: the *)
(* tickets of CCritSectLiteFair, and the requests and completions of       *)
(* CReaderWriterLock_NS_WP.  They wrap at Modulus (2^32 in the code).      *)
(***************************************************************************)
EXTENDS Integers

CONSTANT Modulus

ASSUME ModulusAssumption == Modulus \in Nat \ {0}

Counter == 0 .. Modulus - 1
Inc(n) == IF n = Modulus - 1 THEN 0 ELSE n + 1

(* How many increments take a counter from c to n. *)
Dist(n, c) == IF n >= c THEN n - c ELSE n - c + Modulus
=============================================================================
