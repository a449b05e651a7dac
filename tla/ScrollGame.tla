----------------------------- MODULE ScrollGame -----------------------------
(***************************************************************************)
(* 121207_SideScrollShootingGame/main.cpp: rows with one enemy each scroll *)
(* down the field, one row per interval, and the player moves to the sides *)
(* on the row Y.  A row is the column of its enemy, or NULL.  The player   *)
(* is not kept on the field; the model stops XBound columns beside it.     *)
(***************************************************************************)
EXTENDS Integers, Sequences, SequencesExt

CONSTANTS Rows, Columns, Start, XBound, MaxRows, NULL

VARIABLES
  arr,      \* the field, row by row
  X,        \* the column of the player
  waited,   \* UPDATE_INTERVAL has passed since lastUpdateTime
  drawn     \* the columns rand() has chosen, in order

vars == <<arr, X, waited, drawn>>

Y == Rows - 1

Init ==
  /\ arr = [i \in 0 .. Rows - 1 |-> NULL]
  /\ X = Start
  /\ waited = FALSE
  /\ drawn = <<>>

Tick ==
  /\ ~waited /\ Len(drawn) < MaxRows
  /\ waited' = TRUE
  /\ UNCHANGED <<arr, X, drawn>>

MutScrolled(curPoint) == [i \in 0 .. Rows - 1 |-> IF i = 0 THEN curPoint ELSE arr[0]]

(* The rows are copied from the bottom up, each from the one above it, and *)
(* the new one is copied to the top.                                       *)
Scrolled(curPoint) == [i \in 0 .. Rows - 1 |-> IF i = 0 THEN curPoint ELSE arr[i - 1]]

(* display_maker draws the field, scrolled if it is time. *)
display_maker ==
  /\ waited /\ waited' = FALSE
  /\ \E curPoint \in 0 .. Columns - 1 :
       arr' = Scrolled(curPoint) /\ drawn' = Append(drawn, curPoint)
  /\ UNCHANGED X

(* A key of the main loop. *)
Key(c) ==
  /\ X' = CASE c = "a" -> X - 1 [] c = "d" -> X + 1 [] OTHER -> X
  /\ X' \in -XBound .. Columns - 1 + XBound
  /\ UNCHANGED <<arr, waited, drawn>>

Next == Tick \/ display_maker \/ \E c \in {"a", "d", "x"} : Key(c)

Spec == Init /\ [][Next]_vars

(* What is printed at a place of the screen: the player hides an enemy.    *)
Printed(i, j) == IF i = Y /\ j = X THEN "$" ELSE IF arr[i] = j THEN "@" ELSE "."
-----------------------------------------------------------------------------
(* Every row comes down in the order it was drawn, one row per interval,   *)
(* and is shown with one enemy, which only the player hides; so enemies    *)
(* leave the field as they came.                                           *)
RowsComeDown ==
  LET shown(i) == {j \in 0 .. Columns - 1 : Printed(i, j) = "@"}
  IN  \A i \in 0 .. Rows - 1 :
        LET row == IF i < Len(drawn) THEN {drawn[Len(drawn) - i]} ELSE {}
        IN  shown(i) = IF i = Y THEN row \ {X} ELSE row
=============================================================================
