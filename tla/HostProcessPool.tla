-------------------------- MODULE HostProcessPool --------------------------
(***************************************************************************)
(* HOSTEXECUTER and its HostProcessPool: at each input of the operator the *)
(* pool may change its size and starts processes for the slots that have   *)
(* none.  The processes end whenever they like; the pool hears of that     *)
(* only from WaitForMultipleObjects, which fails on a slot without a       *)
(* process and on too many handles, and names one ended process at a time. *)
(***************************************************************************)
EXTENDS Integers, FiniteSets

CONSTANTS
  PoolSize,             \* _countof(_HostProcesses), 256 in the code
  MAXIMUM_WAIT_OBJECTS, \* 64 in Windows
  SizeModulus,          \* size_t is the integers modulo SizeModulus
  Inputs                \* what atoi may return for an input

Slots == 0..(PoolSize - 1)

VARIABLES
  _HostProcessQuantity,
  _HostProcesses,       \* for each slot: invalid, or a process that runs or has ended
  failed,               \* history: the slots for which the last Run could not start one
  atPrompt              \* FALSE when the operator has entered q

vars == <<_HostProcessQuantity, _HostProcesses, failed, atPrompt>>

Init ==
  /\ _HostProcessQuantity = 0
  /\ _HostProcesses = [i \in Slots |-> "invalid"]
  /\ failed = {}
  /\ atPrompt = TRUE

InPool(quantity) == {i \in Slots : i < quantity}
In(quantity, state) == {i \in InPool(quantity) : _HostProcesses[i] = state}
-----------------------------------------------------------------------------
(* GrowSize: the sum is unsigned, so a negative input may shrink the pool. *)
GrowSize(n) ==
  LET sizeResult == (_HostProcessQuantity + n) % SizeModulus IN
  IF sizeResult < PoolSize THEN sizeResult ELSE _HostProcessQuantity

(* CheckAlive: what WaitForMultipleObjects answers.                        *)
WaitFails(quantity) ==
  \/ quantity = 0
  \/ quantity > MAXIMUM_WAIT_OBJECTS
  \/ In(quantity, "invalid") # {}

Signaled(quantity) ==
  IF WaitFails(quantity) THEN {}
  ELSE {i \in In(quantity, "ended") : \A j \in In(quantity, "ended") : i <= j}

CheckAlive(quantity) == ~WaitFails(quantity) /\ Signaled(quantity) = {}

MutToStart(quantity) ==
  IF CheckAlive(quantity) THEN {} ELSE In(quantity, "invalid")

(* Run: unless all are alive, the slot that was signaled is forgotten and  *)
(* every slot of the pool without a process gets one, where that works.    *)
ToStart(quantity) ==
  IF CheckAlive(quantity) THEN {}
  ELSE In(quantity, "invalid") \cup Signaled(quantity)

(* HostsExecute: the handle is invalid when no process can be created.     *)
HostsExecute(i, cannot) == IF i \in cannot THEN "invalid" ELSE "running"

Run(quantity, cannot) ==
  /\ cannot \subseteq ToStart(quantity)
  /\ _HostProcesses' = [i \in Slots |->
       IF i \in ToStart(quantity) THEN HostsExecute(i, cannot) ELSE _HostProcesses[i]]
  /\ failed' = IF CheckAlive(quantity) THEN {} ELSE cannot

(* HOSTEXECUTER::Run, one turn of the loop: GrowSize is called for every   *)
(* input, since each character is above '0' or not above '9'.              *)
Turn(n) ==
  /\ atPrompt
  /\ _HostProcessQuantity' = GrowSize(n)
  /\ \E cannot \in SUBSET Slots : Run(GrowSize(n), cannot)
  /\ UNCHANGED atPrompt

Quit ==
  /\ atPrompt
  /\ atPrompt' = FALSE
  /\ UNCHANGED <<_HostProcessQuantity, _HostProcesses, failed>>

(* A host process ends (its own doing).                                    *)
HostEnds(i) ==
  /\ _HostProcesses[i] = "running"
  /\ _HostProcesses' = [_HostProcesses EXCEPT ![i] = "ended"]
  /\ UNCHANGED <<_HostProcessQuantity, failed, atPrompt>>

Next ==
  \/ \E n \in Inputs : Turn(n)
  \/ Quit
  \/ \E i \in Slots : HostEnds(i)

Spec == Init /\ [][Next]_vars
-----------------------------------------------------------------------------
Ended == In(_HostProcessQuantity, "ended")

(* The pool as the operator sized it can be watched by one wait.           *)
Watchable(quantity) ==
  quantity <= MAXIMUM_WAIT_OBJECTS /\ In(quantity, "invalid") = {}

(* What a turn achieves although one wait names one process and fails on a *)
(* gap: afterwards a slot of the pool is empty only if its process could   *)
(* not be started, and of the ended processes of a pool without gaps that  *)
(* one wait can watch, one fewer is left (CheckAlive, EventSignaled, Run). *)
TurnRestoresPool ==
  [][LET quantity == _HostProcessQuantity' IN
     \/ \E i \in Slots : HostEnds(i)
     \/ Quit
     \/ /\ \A i \in InPool(quantity) : _HostProcesses'[i] = "invalid" => i \in failed'
        /\ Watchable(quantity) /\ In(quantity, "ended") # {} =>
             Cardinality(Ended') < Cardinality(In(quantity, "ended"))]_vars
============================================================================
