----------------------------- MODULE RWLockWord -----------------------------
(***************************************************************************)
(* The lock word of the two spinning reader-writer locks of critsect.h,    *)
(* CReaderWriterLock_NS_RP and CReaderWriterLock_NS_WP: the number of      *)
(* announced readers in its upper bits, the writer's flag in its lowest.   *)
(***************************************************************************)
EXTENDS Integers, FiniteSets

CONSTANT Threads

ASSUME ThreadsAssumption == IsFiniteSet(Threads)

WRITER_ACTIVE_FLAG == 1
READER_COUNT_INC == 2
=============================================================================
