--------------------------- MODULE RWLockRPProofs ---------------------------
(***************************************************************************)
(* Proofs about RWLockRP as MCRWLock has it, for any finite set of threads *)
(*                                                                         *)
(* MutualExclusion is not inductive: that a compare-and-exchange of 0      *)
(* finds nobody inside, and that an even word means no writer, both rest   *)
(* on what the word counts.  The inductive invariant is therefore the      *)
(* conjunction of the type, the count and mutual exclusion.                *)
(***************************************************************************)
EXTENDS MCRWLock, FiniteSetTheorems, TLAPS

(* What WordCountsHolders says, in terms of this module.                   *)
Counts == word = 2 * Cardinality(RP!Readers) + Cardinality(RP!Writers)

IInv == RP!TypeOK /\ Counts /\ RP!MutualExclusion

LEMMA CountsIsWordCounts == RP!WordCountsHolders <=> Counts
<1>1. \A R : RP!Cardinality(R) = Cardinality(R)
  BY DEF RP!Cardinality, Cardinality
<1>2. RP!READER_COUNT_INC = 2
  BY DEF RP!READER_COUNT_INC
<1> QED
  BY <1>1, <1>2 DEF RP!WordCountsHolders, Counts

(* The steps of the other lock leave this one alone.                       *)
LEMMA RPSteps == [RPStep \/ WPStep]_bothVars => [RP!Next]_rpVars
BY DEF RPStep, WPStep, bothVars, rpVars

-----------------------------------------------------------------------------
(* The two sets the word counts are finite, so their sizes are numbers. *)
LEMMA CountsAreNat ==
  /\ IsFiniteSet(RP!Readers) /\ IsFiniteSet(RP!Writers)
  /\ Cardinality(RP!Readers) \in Nat /\ Cardinality(RP!Writers) \in Nat
<1>1. RP!Readers \subseteq RPThreads /\ RP!Writers \subseteq RPThreads
  BY DEF RP!Readers, RP!Writers
<1>2. IsFiniteSet(RP!Readers) /\ IsFiniteSet(RP!Writers)
  BY <1>1, RPThreadsAssumption, FS_Subset
<1> QED
  BY <1>2, FS_CardinalityType

(* The same of the next state. *)
LEMMA CountsAreNatPrime ==
  /\ IsFiniteSet(RP!Readers') /\ IsFiniteSet(RP!Writers')
  /\ Cardinality(RP!Readers') \in Nat /\ Cardinality(RP!Writers') \in Nat
<1>1. RP!Readers' \subseteq RPThreads /\ RP!Writers' \subseteq RPThreads
  BY DEF RP!Readers, RP!Writers
<1>2. IsFiniteSet(RP!Readers') /\ IsFiniteSet(RP!Writers')
  BY <1>1, RPThreadsAssumption, FS_Subset
<1> QED
  BY <1>2, FS_CardinalityType

(* A word of 0 means that no thread reads, waits to read, or writes. *)
LEMMA ZeroMeansEmpty ==
  ASSUME IInv, word = 0
  PROVE  RP!Readers = {} /\ RP!Writers = {}
<1>1. Cardinality(RP!Readers) = 0 /\ Cardinality(RP!Writers) = 0
  BY CountsAreNat DEF IInv, Counts, RP!READER_COUNT_INC
<1> QED
  BY <1>1, CountsAreNat, FS_EmptySet

(* A word without the writer flag means that no thread writes. *)
LEMMA EvenMeansNoWriter ==
  ASSUME IInv, ~RP!WriterActive
  PROVE  RP!Writers = {}
<1> SUFFICES ASSUME NEW w \in RP!Writers PROVE FALSE
  OBVIOUS
<1>1. RP!Writers = {w}
  BY DEF IInv, RP!MutualExclusion, RP!Writers
<1>2. Cardinality(RP!Writers) = 1
  BY <1>1, FS_Singleton
<1>3. word = 2 * Cardinality(RP!Readers) + 1
  BY <1>2, CountsAreNat DEF IInv, Counts, RP!READER_COUNT_INC
<1> QED
  BY <1>3, CountsAreNat DEF RP!WriterActive, RP!WRITER_ACTIVE_FLAG

-----------------------------------------------------------------------------
LEMMA InitIInv == RP!Init => IInv
<1> SUFFICES ASSUME RP!Init PROVE IInv
  OBVIOUS
<1>1. RP!Readers = {} /\ RP!Writers = {}
  BY DEF RP!Init, RP!Readers, RP!Writers
<1>2. Counts
  BY <1>1, FS_EmptySet DEF RP!Init, Counts, RP!READER_COUNT_INC
<1>3. RP!TypeOK /\ RP!MutualExclusion
  BY DEF RP!Init, RP!TypeOK, RP!PC, RP!MutualExclusion
<1> QED
  BY <1>2, <1>3 DEF IInv

LEMMA NextIInv == IInv /\ [RP!Next]_rpVars => IInv'
<1> SUFFICES ASSUME IInv, [RP!Next]_rpVars PROVE IInv'
  OBVIOUS
<1> USE DEF RP!WRITER_ACTIVE_FLAG, RP!READER_COUNT_INC
<1>1. ASSUME NEW t \in RPThreads, RP!ReadAnnounce(t) PROVE IInv'
  <2>1. RP!Readers' = RP!Readers \cup {t} /\ t \notin RP!Readers /\ RP!Writers' = RP!Writers
    BY <1>1 DEF RP!ReadAnnounce, RP!Goto, IInv, RP!TypeOK, RP!Readers, RP!Writers
  <2>a. Cardinality(RP!Readers') = Cardinality(RP!Readers) + 1
    BY <2>1, CountsAreNat, FS_AddElement
  <2>2. Counts'
    BY <1>1, <2>1, <2>a, CountsAreNat DEF IInv, Counts, RP!ReadAnnounce
  <2>3. RP!TypeOK' /\ RP!MutualExclusion'
    BY <1>1 DEF RP!ReadAnnounce, RP!Goto, IInv, RP!TypeOK, RP!PC, RP!MutualExclusion
  <2> QED
    BY <2>2, <2>3 DEF IInv
<1>2. ASSUME NEW t \in RPThreads, RP!ReadSpin(t) PROVE IInv'
  <2>1. RP!Readers' = RP!Readers /\ RP!Writers' = RP!Writers
    BY <1>2 DEF RP!ReadSpin, RP!Goto, IInv, RP!TypeOK, RP!Readers, RP!Writers
  <2>2. Counts'
    BY <1>2, <2>1 DEF IInv, Counts, RP!ReadSpin
  <2>3. RP!Writers = {}
    BY <1>2, EvenMeansNoWriter DEF RP!ReadSpin
  <2>4. RP!TypeOK' /\ RP!MutualExclusion'
    BY <1>2, <2>1, <2>3 DEF RP!ReadSpin, RP!Goto, IInv, RP!TypeOK, RP!PC, RP!MutualExclusion, RP!Writers
  <2> QED
    BY <2>2, <2>4 DEF IInv
<1>3. ASSUME NEW t \in RPThreads, RP!EndRead(t) PROVE IInv'
  <2>1. RP!Readers' = RP!Readers \ {t} /\ t \in RP!Readers /\ RP!Writers' = RP!Writers
    BY <1>3 DEF RP!EndRead, RP!Goto, IInv, RP!TypeOK, RP!Readers, RP!Writers
  <2>a. Cardinality(RP!Readers') = Cardinality(RP!Readers) - 1
    BY <2>1, CountsAreNat, FS_RemoveElement
  <2>2. Counts'
    BY <1>3, <2>1, <2>a, CountsAreNat DEF IInv, Counts, RP!EndRead
  <2>3. word' \in Nat
    BY <2>2, CountsAreNatPrime DEF Counts
  <2>4. RP!TypeOK' /\ RP!MutualExclusion'
    BY <1>3, <2>3 DEF RP!EndRead, RP!Goto, IInv, RP!TypeOK, RP!PC, RP!MutualExclusion
  <2> QED
    BY <2>2, <2>4 DEF IInv
<1>4. ASSUME NEW t \in RPThreads, RP!WriteCall(t) PROVE IInv'
  <2>1. RP!Readers' = RP!Readers /\ RP!Writers' = RP!Writers
    BY <1>4 DEF RP!WriteCall, RP!Goto, IInv, RP!TypeOK, RP!Readers, RP!Writers
  <2>2. Counts'
    BY <1>4, <2>1 DEF IInv, Counts, RP!WriteCall
  <2>3. RP!TypeOK' /\ RP!MutualExclusion'
    BY <1>4 DEF RP!WriteCall, RP!Goto, IInv, RP!TypeOK, RP!PC, RP!MutualExclusion
  <2> QED
    BY <2>2, <2>3 DEF IInv
<1>5. ASSUME NEW t \in RPThreads, RP!WriteCas(t) PROVE IInv'
  <2>1. RP!Readers = {} /\ RP!Writers = {}
    BY <1>5, ZeroMeansEmpty DEF RP!WriteCas
  <2>2. RP!Readers' = {} /\ RP!Writers' = {t}
    BY <1>5, <2>1 DEF RP!WriteCas, RP!Goto, IInv, RP!TypeOK, RP!Readers, RP!Writers
  <2>a. Cardinality(RP!Readers') = 0 /\ Cardinality(RP!Writers') = 1
    BY <2>2, FS_EmptySet, FS_Singleton
  <2>3. Counts'
    BY <1>5, <2>a DEF Counts, RP!WriteCas
  <2>4. RP!TypeOK' /\ RP!MutualExclusion'
    BY <1>5, <2>1 DEF RP!WriteCas, RP!Goto, IInv, RP!TypeOK, RP!PC, RP!MutualExclusion, RP!Readers, RP!Writers
  <2> QED
    BY <2>3, <2>4 DEF IInv
<1>6. ASSUME NEW t \in RPThreads, RP!EndWrite(t) PROVE IInv'
  <2>1. RP!Writers' = RP!Writers \ {t} /\ t \in RP!Writers /\ RP!Readers' = RP!Readers
    BY <1>6 DEF RP!EndWrite, RP!Goto, IInv, RP!TypeOK, RP!Readers, RP!Writers
  <2>a. Cardinality(RP!Writers') = Cardinality(RP!Writers) - 1
    BY <2>1, CountsAreNat, FS_RemoveElement
  <2>2. Counts'
    BY <1>6, <2>1, <2>a, CountsAreNat DEF IInv, Counts, RP!EndWrite
  <2>3. word' \in Nat
    BY <2>2, CountsAreNatPrime DEF Counts
  <2>4. RP!TypeOK' /\ RP!MutualExclusion'
    BY <1>6, <2>3 DEF RP!EndWrite, RP!Goto, IInv, RP!TypeOK, RP!PC, RP!MutualExclusion
  <2> QED
    BY <2>2, <2>4 DEF IInv
<1>7. CASE UNCHANGED rpVars
  BY <1>7 DEF rpVars, IInv, RP!TypeOK, Counts, RP!MutualExclusion, RP!Readers, RP!Writers
<1> QED
  BY <1>1, <1>2, <1>3, <1>4, <1>5, <1>6, <1>7 DEF RP!Next

(* Always: the word is a number, it counts the announced readers and the   *)
(* writer, and a writer that holds the lock is alone.                      *)
THEOREM InvariantHolds == SpecBoth => []IInv
<1>1. InitBoth => IInv
  BY InitIInv DEF InitBoth
<1>2. IInv /\ [RPStep \/ WPStep]_bothVars => IInv'
  BY RPSteps, NextIInv
<1> QED
  BY <1>1, <1>2, PTL DEF SpecBoth

(* The type invariant of the lock word and the program counters. *)
THEOREM TypeCorrect == SpecBoth => []RP!TypeOK
<1>1. IInv => RP!TypeOK
  BY DEF IInv
<1> QED
  BY <1>1, InvariantHolds, PTL

(* No release and no spurious writer disturbs the count of the readers.    *)
THEOREM WordCounts == SpecBoth => []WordCountsHolders
<1>1. IInv => WordCountsHolders
  BY CountsIsWordCounts DEF IInv, WordCountsHolders
<1> QED
  BY <1>1, InvariantHolds, PTL

(* ReadLock and WriteLock exclude each other as a reader-writer lock must. *)
THEOREM MutualExclusionHolds == SpecBoth => []RP!MutualExclusion
<1>1. IInv => RP!MutualExclusion
  BY DEF IInv
<1> QED
  BY <1>1, InvariantHolds, PTL
-----------------------------------------------------------------------------
LEMMA InitRefines == RP!Init => RP!Abstract!Init
BY DEF RP!Init, RP!Abstract!Init, RP!Mode

(* Every step of the lock is a step of the abstract lock or changes        *)
(* nothing a caller can see.                                               *)
LEMMA NextRefines == IInv /\ [RP!Next]_rpVars => [RP!Abstract!Next]_(RP!Mode)
<1> SUFFICES ASSUME IInv, [RP!Next]_rpVars PROVE [RP!Abstract!Next]_(RP!Mode)
  OBVIOUS
<1> USE DEF IInv, RP!TypeOK
<1>1. ASSUME NEW t \in RPThreads, RP!ReadSpin(t) PROVE RP!Abstract!AcquireRead(t)
  <2>1. RP!Writers = {}
    BY <1>1, EvenMeansNoWriter DEF RP!ReadSpin
  <2>2. RP!Mode' = [RP!Mode EXCEPT ![t] = "read"]
    BY <1>1 DEF RP!ReadSpin, RP!Goto, RP!Mode
  <2>3. RP!Mode[t] = "none" /\ \A u \in RPThreads : RP!Mode[u] # "write"
    BY <1>1, <2>1 DEF RP!ReadSpin, RP!Goto, RP!Mode, RP!Writers
  <2> QED
    BY <2>2, <2>3 DEF RP!Abstract!AcquireRead
<1>2. ASSUME NEW t \in RPThreads, RP!WriteCas(t) PROVE RP!Abstract!AcquireWrite(t)
  <2>1. RP!Readers = {} /\ RP!Writers = {}
    BY <1>2, ZeroMeansEmpty DEF RP!WriteCas
  <2>2. RP!Mode' = [RP!Mode EXCEPT ![t] = "write"]
    BY <1>2 DEF RP!WriteCas, RP!Goto, RP!Mode
  <2>3. \A u \in RPThreads : RP!Mode[u] = "none"
    BY <2>1 DEF RP!Mode, RP!Readers, RP!Writers
  <2> QED
    BY <2>2, <2>3 DEF RP!Abstract!AcquireWrite
<1>3. ASSUME NEW t \in RPThreads, RP!EndRead(t) \/ RP!EndWrite(t) PROVE RP!Abstract!Release(t)
  BY <1>3 DEF RP!EndRead, RP!EndWrite, RP!Goto, RP!Mode, RP!Abstract!Release
<1>4. ASSUME NEW t \in RPThreads, RP!ReadAnnounce(t) \/ RP!WriteCall(t) PROVE UNCHANGED RP!Mode
  BY <1>4 DEF RP!ReadAnnounce, RP!WriteCall, RP!Goto, RP!Mode
<1>5. CASE UNCHANGED rpVars
  BY <1>5 DEF rpVars, RP!Mode
<1> QED
  BY <1>1, <1>2, <1>3, <1>4, <1>5 DEF RP!Next, RP!Abstract!Next

(* CReaderWriterLock_NS_RP implements the abstract reader-writer lock. *)
THEOREM Implementation == SpecBoth => RPImplementsRWLock
<1>1. SpecBoth => []IInv
  BY InvariantHolds
<1>2. InitBoth => RP!Abstract!Init
  BY InitRefines DEF InitBoth
<1>3. IInv /\ [RPStep \/ WPStep]_bothVars => [RP!Abstract!Next]_(RP!Mode)
  BY RPSteps, NextRefines
<1> QED
  BY <1>1, <1>2, <1>3, PTL
     DEF SpecBoth, RPImplementsRWLock, RP!ImplementsRWLock, RP!Abstract!Spec
=============================================================================
