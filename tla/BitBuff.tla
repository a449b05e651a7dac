------------------------------ MODULE BitBuff ------------------------------
(***************************************************************************)
(* BitBuff: BITCOUNT flags kept in the bits of SIZEBYTES characters, set   *)
(* and read one by one or imported from and exported to a string.          *)
(***************************************************************************)
EXTENDS Integers

CONSTANTS
  BITCOUNT,
  CHAR_BIT,     \* 8 in the code
  SizeModulus,  \* size_t is the integers modulo SizeModulus
  Positions     \* the values of TySet in use, negative ones too

SIZEBYTES == 1 + BITCOUNT \div CHAR_BIT

VARIABLES
  buffer,       \* the characters, each the set of its bits that are 1
  flags         \* history: the positions of the flags that were set last to 1

vars == <<buffer, flags>>

Bits == 0..(BITCOUNT - 1)

Init ==
  /\ buffer = [idx \in 0..(SIZEBYTES - 1) |-> {}]
  /\ flags = {}

(* get: the position is unsigned when it is compared.                      *)
InRange(where) ==
  /\ where % SizeModulus < BITCOUNT
  /\ where \div CHAR_BIT < SIZEBYTES

Bit(b, where) == IF where % CHAR_BIT \in b[where \div CHAR_BIT] THEN 1 ELSE 0

(* set: the bit is masked out, then the new one is put in.                 *)
With(b, where, aBit) ==
  [b EXCEPT ![where \div CHAR_BIT] =
     (@ \ {where % CHAR_BIT}) \union {bit \in {where % CHAR_BIT} : aBit = 1}]

Set(where, aBit) ==
  /\ buffer' = IF InRange(where) THEN With(buffer, where, aBit) ELSE buffer
  /\ flags' = IF where \notin Bits THEN flags
              ELSE IF aBit = 1 THEN flags \cup {where} ELSE flags \ {where}

(* ExportTo, and ImportFrom, which skips what is neither 0 nor 1.          *)
ExportTo == [i \in Bits |-> Bit(buffer, i)]

ImportFrom(str) ==
  LET Imported[n \in 0..BITCOUNT] ==
        IF n = 0 THEN buffer
        ELSE IF str[n - 1] \in {0, 1} THEN With(Imported[n - 1], n - 1, str[n - 1])
        ELSE Imported[n - 1]
  IN /\ buffer' = Imported[BITCOUNT]
     /\ flags' = {i \in Bits : str[i] = 1 \/ (str[i] \notin {0, 1} /\ i \in flags)}

Next ==
  \/ \E where \in Positions, aBit \in {0, 1} : Set(where, aBit)
  \/ \E str \in [Bits -> 0..2] : ImportFrom(str)

Spec == Init /\ [][Next]_vars
-----------------------------------------------------------------------------
(* The buffer is an array of independent flags: whatever was set, refused  *)
(* or imported, what is exported are the flags as they were set last, and  *)
(* the bits behind them stay 0 (BitBuff::set, get, ImportFrom).            *)
BufferIsFlags ==
  /\ ExportTo = [i \in Bits |-> IF i \in flags THEN 1 ELSE 0]
  /\ \A where \in BITCOUNT..(SIZEBYTES * CHAR_BIT - 1) : Bit(buffer, where) = 0
============================================================================
