------------------------------ MODULE MCRWLock ------------------------------
(***************************************************************************)
(* The two spinning reader-writer locks of critsect.h, side by side: the   *)
(* variables of RWLockWP are the lock with writer preference, word and     *)
(* place the one with reader preference, which four threads use, the other *)
(* three.  They share nothing: a behaviour is one of them, the selected    *)
(* one; the other stays as it was initialised.                             *)
(***************************************************************************)
EXTENDS RWLockWP

CONSTANT RPThreads

ASSUME RPThreadsAssumption == IsFiniteSet(RPThreads)

VARIABLES selected, word, place

RP == INSTANCE RWLockRP WITH Threads <- RPThreads, lock <- word, pc <- place

rpVars == <<word, place>>
bothVars == <<selected, vars, rpVars>>
-----------------------------------------------------------------------------
InitBoth == selected \in {"RP", "WP"} /\ Init /\ RP!Init

RPStep == selected = "RP" /\ RP!Next /\ UNCHANGED <<selected, vars>>
WPStep == selected = "WP" /\ Next /\ UNCHANGED <<selected, rpVars>>

(* The threads of both are scheduled; no action that has to happen is      *)
(* enabled while a lock is as it was initialised.                          *)
SpecBoth ==
  /\ InitBoth /\ [][RPStep \/ WPStep]_bothVars
  /\ Fairness /\ RP!Fairness
-----------------------------------------------------------------------------
(* The word counts announced readers and the writer (RWLockRP).            *)
WordCountsHolders == RP!WordCountsHolders

(* The lock with reader preference is a reader-writer lock (RWLockRP).     *)
RPImplementsRWLock == RP!ImplementsRWLock

(* An announced reader gets the lock (RWLockRP).                           *)
AnnouncedReaderEnters == RP!AnnouncedReaderEnters
=============================================================================
