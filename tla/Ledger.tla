------------------------------- MODULE Ledger -------------------------------
(***************************************************************************)
(* The household ledger of 20121129_gagebu/main.cpp: MAX entries and a     *)
(* total, kept from menu to menu, saved as text when the program ends and  *)
(* read as binary data when it starts again.  Years and months are left    *)
(* out but for the year, which the statistics overwrite; a slot is free    *)
(* while its day is 0.  Entries are capped at MaxInputs.                   *)
(***************************************************************************)
EXTENDS Integers, FiniteSetsExt, Functions

CONSTANTS MAX, Years, Amounts, MaxInputs, NULL

Income == 1
Expense == 2

VARIABLES
  mo,        \* the entries
  total,
  file,      \* file.txt: what fnSave wrote, or NULL
  screen,    \* where main is: opening the file, at the menu, saving
  inputs,    \* how many entries were typed in
  undated,   \* an entry was given the day 0
  reread     \* the program has read a file it saved

vars == <<mo, total, file, screen, inputs, undated, reread>>

Slots == 0 .. MAX - 1
NoEntry == [flag |-> 0, year |-> 0, day |-> 0, money |-> 0]

Init ==
  /\ mo = [i \in Slots |-> NoEntry] /\ total = 0
  /\ file = NULL
  /\ screen = "open" /\ inputs = 0 /\ undated = FALSE /\ reread = FALSE

(* Text read as numbers: none of its bytes is 0, any bits may be a flag.   *)
GarbageAmount == 1000
GarbageEntry(flag) ==
  [flag |-> flag, year |-> GarbageAmount, day |-> GarbageAmount, money |-> GarbageAmount]

(* fnOpen: without a file the globals are zero.  From a file n records are *)
(* read, up to its end, which may cut the last one short (the last of a    *)
(* long file is behind the array).                                         *)
fnOpen ==
  /\ screen = "open" /\ screen' = "menu"
  /\ IF file = NULL THEN UNCHANGED <<mo, total, reread>>
     ELSE /\ total' = GarbageAmount
          /\ \E n \in 0 .. MAX, flag \in {Income, 3}, cut \in BOOLEAN :
               mo' = [i \in Slots |->
                       IF i >= n THEN NoEntry
                       ELSE IF cut /\ i = n - 1 THEN [GarbageEntry(flag) EXCEPT !.day = 0]
                       ELSE GarbageEntry(flag)]
          /\ reread' = TRUE
  /\ UNCHANGED <<file, inputs, undated>>

IsFirstFree(i) == mo[i].day = 0 /\ \A j \in Slots : j < i => mo[j].day # 0

(* fnInput with a choice that is none leaves the slot with its date, and   *)
(* with what flag and money it had.                                        *)
BadChoice(i, year, day) ==
  /\ mo' = [mo EXCEPT ![i].year = year, ![i].day = day]
  /\ UNCHANGED total

MutEnter(i, year, day, choice, money) ==
  /\ mo' = [mo EXCEPT ![i] = [flag |-> choice, year |-> year, day |-> day, money |-> money]]
  /\ total' = total + money

Enter(i, year, day, choice, money) ==
  /\ mo' = [mo EXCEPT ![i] = [flag |-> choice, year |-> year, day |-> day, money |-> money]]
  /\ total' = IF choice = Income THEN total + money ELSE total - money

(* fnInput takes the first free slot; if there is none it says that the    *)
(* entry was made, and changes nothing.                                    *)
fnInput(year, day, choice, money) ==
  /\ screen = "menu" /\ inputs < MaxInputs
  /\ inputs' = inputs + 1
  /\ undated' = (undated \/ day = 0)
  /\ IF \A i \in Slots : mo[i].day # 0 THEN UNCHANGED <<mo, total>>
     ELSE \E i \in Slots :
            /\ IsFirstFree(i)
            /\ IF choice \in {Income, Expense} THEN Enter(i, year, day, choice, money)
               ELSE BadChoice(i, year, day)
  /\ UNCHANGED <<file, screen, reread>>

(* fnShow asks for the year of every entry, and keeps the answer in it.    *)
fnShow(year) ==
  /\ screen = "menu"
  /\ mo' = [i \in Slots |-> IF mo[i].day = 0 THEN mo[i] ELSE [mo[i] EXCEPT !.year = year]]
  /\ UNCHANGED <<total, file, screen, inputs, undated, reread>>

(* The entries that the menu lists as expenses and as income.              *)
fnDisburse == {i \in Slots : mo[i].flag = Expense}
fnIncome == {i \in Slots : mo[i].flag = Income}

(* The entries that the menu lists altogether: the dated ones, an expense  *)
(* if the flag is 0, which no expense that was entered has.                *)
Named(e) == [name |-> IF e.flag = 0 THEN "expense" ELSE "income", money |-> e.money]
fnPrint == [i \in {i \in Slots : mo[i].day # 0} |-> Named(mo[i])]

(* Choice 5, and fnExit. *)
fnMenu ==
  /\ screen = "menu" /\ screen' = "save"
  /\ UNCHANGED <<mo, total, file, inputs, undated, reread>>

(* An entry as text: the amount, which has no sign, after a name from a    *)
(* table in the order of the comment on the struct, expenses first, which  *)
(* is not the order of fnInput.                                            *)
flagName == <<"NULL", "expense", "income">>
MoneyToString(e) == [name |-> flagName[e.flag + 1], money |-> e.money]

(* fnSave writes a line for each entry that has a day and a flag the table *)
(* names, or fails and exits.  Then the program may be started again.      *)
Written == {i \in Slots : mo[i].day # 0 /\ mo[i].flag \in 0 .. 2}

fnSave(fails) ==
  /\ screen = "save" /\ screen' = "open"
  /\ file' = IF fails THEN file
             ELSE [total |-> total, text |-> [i \in Written |-> MoneyToString(mo[i])]]
  /\ mo' = [i \in Slots |-> NoEntry] /\ total' = 0
  /\ UNCHANGED <<inputs, undated, reread>>

Next ==
  \/ fnOpen \/ fnMenu
  \/ \E year \in Years, day \in {0, 1}, choice \in 1 .. 3, money \in Amounts :
       fnInput(year, day, choice, money)
  \/ \E year \in Years : fnShow(year)
  \/ \E fails \in BOOLEAN : fnSave(fails)

Spec == Init /\ [][Next]_vars
-----------------------------------------------------------------------------
SumOf(entries, S) == SumFunctionOnSet([i \in S |-> entries[i].money], S)

(* The total is what the lists of income and of expenses add up to; both   *)
(* are in the list of all entries, which calls income so and has no other  *)
(* amounts, also after a choice that is none and after restarts (fnInput,  *)
(* fnShow, fnOpen without a file).  As long as every entry was given a day *)
(* (one of day 0 is counted, and overwritten by the next) and no saved     *)
(* file was read (fnOpen reads another format than fnSave writes).         *)
LedgerBalances ==
  ~undated /\ ~reread =>
    /\ total = SumOf(mo, fnIncome) - SumOf(mo, fnDisburse)
    /\ fnIncome \union fnDisburse \subseteq DOMAIN fnPrint
    /\ \A i \in fnIncome : fnPrint[i].name = "income"
    /\ \A i \in DOMAIN fnPrint \ (fnIncome \union fnDisburse) : fnPrint[i].money = 0

(* The comment on the flag, main.cpp:12, by which MoneyToString names the  *)
(* lines of a saved file: 1 is an expense, 2 is income.  Then the total of *)
(* a file is what its lines add up to.  It is violated: fnInput stores 1   *)
(* for income.                                                             *)
FileBalances ==
  LET Lines(name) == {i \in DOMAIN file.text : file.text[i].name = name} IN
  ~undated /\ ~reread /\ file # NULL =>
    file.total = SumOf(file.text, Lines("income")) - SumOf(file.text, Lines("expense"))
=============================================================================
