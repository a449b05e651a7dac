------------------------- MODULE DebugAssignString -------------------------
(***************************************************************************)
(* DebugAssignString of workTemplate.cpp: it turns "put this string into   *)
(* that buffer" into an expression for the debugger, assignments of one,   *)
(* two or four bytes joined by &.  The characters are never looked at, so  *)
(* the string is its positions, 1 .. length.  What counts of an            *)
(* assignment is where it writes and which bytes (the NULs that its        *)
(* literal holds as raw characters too are lost with the printed text).    *)
(***************************************************************************)
EXTENDS Integers, Sequences, SequencesExt

CONSTANTS MaxLength, SizeModulus

NUL == 0
Garbage == -1

VARIABLES
  toAssign,   \* the length of the string
  bufferSize,       \* the length of the buffer, the argument of operator()
  lenOfPtr,   \* what is left of it, a size_t
  idx, assignIdx,
  resultStr,  \* the assignments so far: where each writes, and what
  amp,        \* the expression so far ends with &
  ended

vars == <<toAssign, bufferSize, lenOfPtr, idx, assignIdx, resultStr, amp, ended>>

Init ==
  /\ toAssign \in 0 .. MaxLength
  /\ bufferSize \in 0 .. MaxLength
  /\ lenOfPtr = bufferSize
  /\ idx = 0 /\ assignIdx = 0
  /\ resultStr = <<>> /\ amp = FALSE /\ ended = FALSE

(* sizeToWrite: the buffer of n characters is filled, or the string ends.  *)
SizeToWrite(n) == IF toAssign - idx < n THEN toAssign - idx ELSE n

(* The next character of the string, or what a buffer holds in its place.  *)
Char(i, empty) == IF i <= toAssign THEN i ELSE empty

(* Two characters and a NUL for the last three bytes of the buffer; the    *)
(* second character of an exhausted string is read uninitialised.          *)
Byte3Operation ==
  /\ ~ended /\ idx < toAssign /\ lenOfPtr = 3
  /\ resultStr' = resultStr \o
       << [at |-> assignIdx, bytes |-> <<idx + 1, Char(idx + 2, Garbage)>>],
          [at |-> assignIdx + 2, bytes |-> <<NUL>>] >>
  /\ idx' = idx + SizeToWrite(2)
  /\ assignIdx' = assignIdx + 3
  /\ amp' = FALSE /\ ended' = TRUE
  /\ UNCHANGED <<toAssign, bufferSize, lenOfPtr>>

MutWidth(n) == 4

(* The type that holds n characters: char, short or int.                   *)
Width(n) == IF n <= 2 THEN n ELSE 4

AssignChunk ==
  /\ ~ended /\ idx < toAssign /\ lenOfPtr \notin {0, 3}
  /\ LET n == SizeToWrite(4)
         bytes == [i \in 1 .. Width(n) |-> Char(idx + i, NUL)]
     IN  /\ resultStr' = Append(resultStr, [at |-> assignIdx, bytes |-> bytes])
         /\ idx' = idx + n
         /\ assignIdx' = assignIdx + Width(n)
         /\ amp' = (idx + n < toAssign)
         /\ lenOfPtr' = (lenOfPtr - n) % SizeModulus
  /\ UNCHANGED <<toAssign, bufferSize, ended>>

(* The string or the buffer is at its end. *)
Break ==
  /\ ~ended /\ (idx >= toAssign \/ lenOfPtr = 0)
  /\ ended' = TRUE
  /\ UNCHANGED <<toAssign, bufferSize, lenOfPtr, idx, assignIdx, resultStr, amp>>

Next == Byte3Operation \/ AssignChunk \/ Break

Spec == Init /\ [][Next]_vars
-----------------------------------------------------------------------------
Writes(w, i) == w.at <= i /\ i < w.at + Len(w.bytes)

(* What the debugger leaves in the byte i of the buffer.                   *)
Written(i) ==
  LET w == SelectLastInSeq(resultStr, LAMBDA x : Writes(x, i))
  IN  IF w = 0 THEN Garbage ELSE resultStr[w].bytes[i - resultStr[w].at + 1]

(* A string that fits is assigned: the expression is complete, it writes   *)
(* the string's bytes each in its place, and nothing behind the buffer.    *)
(* Only a buffer whose last three bytes the string needs gets a NUL for    *)
(* its last character.  (For a longer string the code promises nothing:    *)
(* the expression ends in & or writes behind the buffer.)                  *)
FittingStringIsAssigned ==
  ended /\ toAssign <= bufferSize =>
    /\ ~amp
    /\ \A w \in Range(resultStr) : w.at + Len(w.bytes) <= bufferSize
    /\ \A i \in 1 .. toAssign :
         \/ Written(i - 1) = i
         \/ (i = bufferSize /\ bufferSize % 4 = 3 /\ Written(i - 1) = NUL)
=============================================================================
