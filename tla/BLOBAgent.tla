----------------------------- MODULE BLOBAgent -----------------------------
(***************************************************************************)
(* CharDBExtraBLOBAgent: a character's extra data is saved as a buffer of  *)
(* records [type][size][data] and loaded from it, perhaps by a later       *)
(* version of the program in which fields were added, removed or resized.  *)
(* A cell stands for a WORD of a header or for a unit of data.             *)
(***************************************************************************)
EXTENDS Integers, Sequences, Functions

CONSTANTS
  Versions,     \* versions of REG_DATA: sequences of [twoCC, sizeOfData]
  Values,       \* what a unit of data may be, 0 among them
  MaxLen,       \* MaxLen_CharExtraDataBinSize, in cells
  Leftovers     \* what a cell of the buffer may be before ToBLOB

VARIABLES
  DataInformations,     \* the version that runs
  form,                 \* STVtCharData_DBForm: the data of each field
  blob,                 \* the buffer in the data base
  saved,                \* history: the version and form that were saved last
  clean                 \* history: 0 follows the last record saved

vars == <<DataInformations, form, blob, saved, clean>>

sizeofHeader == 2     \* sizeof(DATA_HEADER) in cells

TwoCCs(version) == {info.twoCC : info \in Range(version)}
GetDataInfo(twoCC) == {info \in Range(DataInformations) : info.twoCC = twoCC}
Size(version, twoCC) == (CHOOSE info \in Range(version) : info.twoCC = twoCC).sizeOfData
Zero(version) == [cc \in TwoCCs(version) |-> [i \in 1..Size(version, cc) |-> 0]]

(* The cells of the first k records, and of all, lenOfData, which a        *)
(* static_assert holds below the size of the buffer.                       *)
Ends(version) ==
  LET End[k \in 0 .. Len(version)] ==
        IF k = 0 THEN 0 ELSE End[k - 1] + sizeofHeader + version[k].sizeOfData
  IN  End
lenOfData(version) == Ends(version)[Len(version)]

Compiles(version) == lenOfData(version) < MaxLen

Init ==
  /\ DataInformations \in {version \in Versions : Compiles(version)}
  /\ form = Zero(DataInformations)
  /\ blob = [i \in 1..MaxLen |-> 0]
  /\ saved = [version |-> <<>>, form |-> <<>>]
  /\ clean = TRUE
-----------------------------------------------------------------------------
(* ToBLOB writes the records one after the other as long as they end       *)
(* before the buffer does, and leaves the rest of the buffer as it was.    *)
(* The record k of a version that holds the cell i:                        *)
Holds(version, k, i) ==
  LET End == Ends(version) IN End[k] < MaxLen /\ End[k - 1] < i /\ i <= End[k]

Cell(info, data, i) ==
  CASE i = 1 -> info.twoCC [] i = 2 -> info.sizeOfData [] OTHER -> data[i - sizeofHeader]

Buffer(version, f, leftover) ==
  LET Written(i) == {k \in DOMAIN version : Holds(version, k, i)}
  IN  [i \in 1 .. MaxLen |->
        IF Written(i) = {} THEN leftover
        ELSE LET k == CHOOSE k \in Written(i) : TRUE
             IN  Cell(version[k], f[version[k].twoCC], i - Ends(version)[k - 1])]

ToBLOB(leftover) ==
  /\ blob' = Buffer(DataInformations, form, leftover)
  /\ saved' = [version |-> DataInformations, form |-> form]
  /\ clean' = (leftover = 0)
  /\ UNCHANGED <<DataInformations, form>>

(* FromBLOB goes from record to record, up to the first that has type 0 or *)
(* does not end within the buffer; one of an unknown type or of another    *)
(* size is skipped, the others are copied.                                 *)
AtEnd(pCurr) ==
  LET data == pCurr + sizeofHeader
  IN  data > MaxLen \/ blob[pCurr] = 0 \/ data + blob[pCurr + 1] > MaxLen + 1

MutFits(twoCC, dataSize) == GetDataInfo(twoCC) # {}

Fits(twoCC, dataSize) == \E info \in GetDataInfo(twoCC) : info.sizeOfData = dataSize

Advanced(r) ==
  LET twoCC == blob[r.pCurr]
      dataSize == blob[r.pCurr + 1]
      data == [i \in 1 .. dataSize |-> blob[r.pCurr + 1 + i]]
  IN  IF AtEnd(r.pCurr) THEN r
      ELSE [pCurr |-> r.pCurr + sizeofHeader + dataSize,
            dest |-> IF Fits(twoCC, dataSize) THEN [r.dest EXCEPT ![twoCC] = data] ELSE r.dest]

(* There are fewer records than cells.                                     *)
FromBLOB(dest) ==
  LET Reader[n \in 0 .. MaxLen] ==
        IF n = 0 THEN [pCurr |-> 1, dest |-> dest] ELSE Advanced(Reader[n - 1])
  IN  Reader[MaxLen].dest

(* DoWork, 'r': the form is zeroed before it is read.                      *)
Load ==
  /\ form' = FromBLOB(Zero(DataInformations))
  /\ UNCHANGED <<DataInformations, blob, saved, clean>>

(* The character plays on: a field has other data.                         *)
Change(twoCC, data) ==
  /\ twoCC \in TwoCCs(DataInformations)
  /\ Len(data) = Size(DataInformations, twoCC)
  /\ form' = [form EXCEPT ![twoCC] = data]
  /\ UNCHANGED <<DataInformations, blob, saved, clean>>

(* Another version of the program is installed and started.                *)
Install(version) ==
  /\ Compiles(version)
  /\ DataInformations' = version
  /\ form' = Zero(version)
  /\ UNCHANGED <<blob, saved, clean>>

AllCCs == UNION {TwoCCs(version) : version \in Versions}
AllSizes == UNION {{info.sizeOfData : info \in Range(version)} : version \in Versions}

Next ==
  \/ \E leftover \in Leftovers : ToBLOB(leftover)
  \/ Load
  \/ \E twoCC \in AllCCs, size \in AllSizes, v \in Values :
       Change(twoCC, [i \in 1..size |-> IF i = 1 THEN v ELSE 0])
  \/ \E version \in Versions : Install(version)

Spec == Init /\ [][Next]_vars
-----------------------------------------------------------------------------
Kept(info) == saved.version # <<>> /\ info \in Range(saved.version)

(* What was saved by any version is loaded by any other: a field that both *)
(* have, with one size, gets what it was, the others stay zero, whatever   *)
(* records of removed or resized fields lie between.  That needs a 0 after *)
(* the last record, which ToBLOB does not write (ToBLOB, FromBLOB).        *)
LoadedAsSaved ==
  [][Load /\ clean =>
       \A info \in Range(DataInformations) :
         form'[info.twoCC] =
           IF Kept(info) THEN saved.form[info.twoCC] ELSE Zero(DataInformations)[info.twoCC]]_vars
============================================================================
