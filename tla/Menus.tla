------------------------------- MODULE Menus -------------------------------
(***************************************************************************)
(* The menus of the two test programs.  TestUnitRepository: before main,   *)
(* every inclusion of a unit's header constructs a RegisterUnit, the first *)
(* of which registers the unit; then the menu runs units until a number    *)
(* is no unit's.  WorkRepository: works have the numbers of their          *)
(* enumerators, and the menu runs them until a q.  What is typed is a      *)
(* number or not; a stream that has failed reads nothing more.             *)
(***************************************************************************)
EXTENDS Integers, FiniteSets, Functions

CONSTANTS Units, eWorks_CNT, MaxConstructed, NULL

VARIABLES
  state,            \* "static", "menu", "unit" or "end" of the units' program
  constructed,      \* how many RegisterUnit there have been
  bInitialized,
  curMenuIndex, menuMap,
  typed,            \* the last nSelectedValue
  running,          \* the unit that runs, or NULL
  cinFailed,        \* std::cin has failed
  bReturnRepeat,    \* of the works' program
  pWork             \* the work the last selection ran, or NULL

vars == <<state, constructed, bInitialized, curMenuIndex, menuMap, typed, running,
          cinFailed, bReturnRepeat, pWork>>

Init ==
  /\ state = "static" /\ constructed = 0
  /\ bInitialized = [u \in Units |-> FALSE]
  /\ curMenuIndex = 0 /\ menuMap = <<>>
  /\ typed = 0 /\ running = NULL /\ cinFailed = FALSE
  /\ bReturnRepeat = TRUE /\ pWork = NULL

units == <<state, constructed, bInitialized, curMenuIndex, menuMap, typed, running, cinFailed>>
works == <<bReturnRepeat, pWork>>
-----------------------------------------------------------------------------
(* The index is counted first, and inserted if the map has it not.         *)
DoRegist(u) ==
  /\ curMenuIndex' = curMenuIndex + 1
  /\ menuMap' = [i \in DOMAIN menuMap \union {curMenuIndex + 1} |->
                  IF i \in DOMAIN menuMap THEN menuMap[i] ELSE u]

MutRegisterUnit(u) ==
  /\ state = "static" /\ constructed < MaxConstructed
  /\ constructed' = constructed + 1
  /\ DoRegist(u) /\ bInitialized' = [bInitialized EXCEPT ![u] = TRUE]
  /\ UNCHANGED <<state, typed, running, cinFailed, works>>

RegisterUnit(u) ==
  /\ state = "static" /\ constructed < MaxConstructed
  /\ constructed' = constructed + 1
  /\ IF bInitialized[u] THEN UNCHANGED <<curMenuIndex, menuMap, bInitialized>>
     ELSE DoRegist(u) /\ bInitialized' = [bInitialized EXCEPT ![u] = TRUE]
  /\ UNCHANGED <<state, typed, running, cinFailed, works>>

(* DoExecute is called: an empty menu ends at once. *)
DoExecute ==
  /\ state = "static"
  /\ state' = IF menuMap = <<>> THEN "end" ELSE "menu"
  /\ UNCHANGED <<constructed, bInitialized, curMenuIndex, menuMap, typed, running, cinFailed, works>>

(* GetSelection: what is no number, and a failed stream, leave the 0 that  *)
(* the value was initialised with.                                         *)
GetSelection(key, isNumber) ==
  /\ state = "menu"
  /\ cinFailed' = (cinFailed \/ ~isNumber)
  /\ typed' = IF cinFailed' THEN 0 ELSE key
  /\ IF typed' \in DOMAIN menuMap
     THEN state' = "unit" /\ running' = menuMap[typed']
     ELSE state' = "end" /\ UNCHANGED running
  /\ UNCHANGED <<constructed, bInitialized, curMenuIndex, menuMap, works>>

(* The unit's DoExecute returns; it may have read from std::cin as well,   *)
(* and fflush(stdin) does not repair the stream.                           *)
UnitReturns(fails) ==
  /\ state = "unit" /\ state' = "menu"
  /\ running' = NULL
  /\ cinFailed' = (cinFailed \/ fails)
  /\ UNCHANGED <<constructed, bInitialized, curMenuIndex, menuMap, typed, works>>
-----------------------------------------------------------------------------
atoi(key, isNumber) == IF isNumber THEN key ELSE 0

(* The works are in the array under their enumerators.                     *)
GetWork(idx) == IF 0 <= idx /\ idx < eWorks_CNT THEN idx ELSE NULL

(* MenuSelect of WorkRepository, in the loop of DoLoop: a number or text   *)
(* that is none, which counts as 0 as does a stream that has failed, or    *)
(* (Quit) a q.                                                             *)
MenuSelect(key, isNumber) ==
  /\ bReturnRepeat
  /\ pWork' = GetWork(atoi(key, isNumber))
  /\ UNCHANGED <<units, bReturnRepeat>>

Quit ==
  /\ bReturnRepeat /\ bReturnRepeat' = FALSE
  /\ pWork' = NULL
  /\ UNCHANGED units

Keys == -1 .. (Cardinality(Units) + 1)

Next ==
  \/ \E u \in Units : RegisterUnit(u)
  \/ DoExecute
  \/ \E key \in Keys, isNumber \in BOOLEAN :
       GetSelection(key, isNumber) \/ MenuSelect(key, isNumber)
  \/ \E fails \in BOOLEAN : UnitReturns(fails)
  \/ Quit

Spec == Init /\ [][Next]_vars
-----------------------------------------------------------------------------
(* However often a unit's header is included and in whatever order, the    *)
(* menu has the numbers from 1 on, each unit has one of them, and the unit *)
(* that runs is the one whose number was typed, by a stream that is good.  *)
SelectedUnitRuns ==
  /\ DOMAIN menuMap = 1 .. curMenuIndex /\ IsInjective(menuMap)
  /\ \A u \in Units : bInitialized[u] <=> \E i \in DOMAIN menuMap : menuMap[i] = u
  /\ state = "unit" => typed \in DOMAIN menuMap /\ running = menuMap[typed]
  /\ pWork \in {NULL} \union (0 .. eWorks_CNT - 1)
=============================================================================
