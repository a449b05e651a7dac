------------------------------ MODULE MCUnits ------------------------------
(***************************************************************************)
(* The small programs of the repository that share nothing with each       *)
(* other: the units and works of the two test programs, the side scroller, *)
(* the ledger and the utf8 library.  A behaviour is one of them, the       *)
(* selected one; the others stay in an initial state.                      *)
(***************************************************************************)
EXTENDS Integers, Sequences, FiniteSets

CONSTANTS
  Threads, Objects, NULL,
  PoolSize, MAXIMUM_WAIT_OBJECTS, SizeModulus, Inputs,          \* HostProcessPool
  Count, Times,                                                 \* EventQueues
  MaxPushes,                                                    \* QueueSpinLocked
  Rows, Columns, Start, XBound, MaxRows,                        \* ScrollGame
  IDs, Types, sizeof, Sizes, WordModulus,                       \* ZoneMsgDispatcher
  eWorks_CNT, MaxConstructed,                                   \* Menus
  Events, MaxRegistered,                                        \* Observer
  MAX, Years, Amounts, MaxInputs,                               \* Ledger
  Versions, Values, MaxLen, Leftovers,                          \* BLOBAgent
  BITCOUNT, CHAR_BIT, Positions,                                \* BitBuff
  MaxLength,                                                    \* DebugAssignString
  Octets, MaxOctets                                             \* Utf8

(* The values of sizeof, Positions, Versions and Octets that the           *)
(* configuration takes: of the fields of the versions one stays, one goes, *)
(* one comes and one grows; the octets are the first and last of each      *)
(* class that the coding tells apart.                                      *)
MCsizeof == [TMsg \in Types |-> IF TMsg = "Base" THEN 1 ELSE 3]
MCPositions == -2 .. 6
MCVersions ==
  LET Field(twoCC, size) == [twoCC |-> twoCC, sizeOfData |-> size]
  IN  {<<Field(1, 1), Field(2, 2)>>, <<Field(2, 2), Field(3, 1)>>,
       <<Field(3, 1), Field(1, 2)>>}

MCOctets == {\h41, \h80, \h8F, \h90, \h9F, \hA0, \hBF, \hC1, \hC2, \hDF,
             \hE0, \hED, \hEF, \hF0, \hF4, \hF5}

ASSUME NullAssumption == NULL \notin Objects \union Int
ASSUME PoolAssumption ==
  /\ PoolSize \in Nat /\ MAXIMUM_WAIT_OBJECTS \in Nat
  /\ SizeModulus \in Nat \ {0} /\ Inputs \subseteq Int
ASSUME EventsAssumption == Count \in Nat \ {0} /\ Times \subseteq Int
ASSUME FieldAssumption == Rows \in Nat /\ Columns \in Nat
ASSUME WorksAssumption == eWorks_CNT \in Nat
ASSUME LedgerAssumption == MAX \in Nat /\ Amounts \subseteq Int
ASSUME MessagesAssumption ==
  /\ IDs \subseteq Nat /\ "empty" \notin Types /\ sizeof \in [Types -> Nat]
  /\ Sizes \subseteq Nat /\ WordModulus \in Nat \ {0}

(* The fields of a version have types of their own, none of which is 0.    *)
ASSUME VersionsAssumption ==
  /\ MaxLen \in Nat
  /\ \A version \in Versions :
       /\ version \in Seq([twoCC : Nat \ {0}, sizeOfData : Nat])
       /\ \A j, k \in DOMAIN version : version[j].twoCC = version[k].twoCC => j = k

(* Positions are signed, sizes are not, of one width.                      *)
ASSUME BitsAssumption ==
  /\ BITCOUNT \in Nat /\ CHAR_BIT \in Nat \ {0}
  /\ Positions \subseteq (BITCOUNT - SizeModulus) .. (SizeModulus - 1)
ASSUME OctetsAssumption == Octets \subseteq 0 .. 255
ASSUME LengthAssumption == MaxLength \in Nat /\ MaxLength < SizeModulus

VARIABLES
  selected,
  _HostProcessQuantity, _HostProcesses, failed, atPrompt,
  m_vecHandlers, registered, message, call, assertion,
  DataInformations, form, blob, saved, clean,
  buffer, flags,
  octets, it,
  toAssign, bufferSize, lenOfPtr, idx, assignIdx, resultStr, amp, ended,
  values, phase, nLoopCnt, pQueue, listEntities, vector, vectorUserBinaryInsert,
  popped, poppedPQueue,
  spinLock, _container, pushes, toPop, raced, undefined, at,
  arr, X, waited, drawn,
  state, constructed, bInitialized, curMenuIndex, menuMap, typed, running,
  cinFailed, bReturnRepeat, pWork,
  observers_, event, obs, thrown, history, called,
  mo, total, file, screen, inputs, undated, reread

poolVars == <<_HostProcessQuantity, _HostProcesses, failed, atPrompt>>
dispatcherVars == <<m_vecHandlers, registered, message, call, assertion>>
blobVars == <<DataInformations, form, blob, saved, clean>>
flagVars == <<buffer, flags>>
textVars == <<octets, it>>
assignVars == <<toAssign, bufferSize, lenOfPtr, idx, assignIdx, resultStr, amp, ended>>
eventsVars == <<values, phase, nLoopCnt, pQueue, listEntities, vector,
                vectorUserBinaryInsert, popped, poppedPQueue>>
queueVars == <<spinLock, _container, pushes, toPop, raced, undefined, at>>
scrollVars == <<arr, X, waited, drawn>>
menusVars == <<state, constructed, bInitialized, curMenuIndex, menuMap, typed, running,
               cinFailed, bReturnRepeat, pWork>>
subjectVars == <<observers_, event, obs, thrown, history, called>>
ledgerVars == <<mo, total, file, screen, inputs, undated, reread>>
vars == <<selected,
         poolVars, dispatcherVars, blobVars, flagVars, textVars, assignVars,
         eventsVars, queueVars, scrollVars, menusVars, subjectVars, ledgerVars>>

Pool == INSTANCE HostProcessPool

Dispatcher == INSTANCE ZoneMsgDispatcher

Blob == INSTANCE BLOBAgent

Flag == INSTANCE BitBuff

Text == INSTANCE Utf8

Assigner == INSTANCE DebugAssignString

Evts == INSTANCE EventQueues

Queue == INSTANCE QueueSpinLocked

Scroll == INSTANCE ScrollGame

Menu == INSTANCE Menus WITH Units <- Objects

Subject == INSTANCE Observer WITH Observers <- Objects

Household == INSTANCE Ledger
-----------------------------------------------------------------------------
Units == {"pool", "dispatcher", "blob", "flag", "text", "assign", "events",
          "queue", "scroll", "menus", "subject", "ledger"}

(* A component with several initial states waits in one of them.           *)
Init ==
  /\ selected \in Units
  /\ Pool!Init /\ Dispatcher!Init /\ Blob!Init /\ Flag!Init /\ Text!Init
  /\ Assigner!Init /\ Evts!Init /\ Queue!Init /\ Scroll!Init /\ Menu!Init
  /\ Subject!Init /\ Household!Init
  /\ selected # "assign" => toAssign = 0 /\ bufferSize = 0
  /\ selected # "events" => \A e \in DOMAIN values : values[e] = 1
  /\ selected # "dispatcher" => assertion = "off"
  /\ selected # "blob" =>
       DataInformations = CHOOSE version \in Versions : Blob!Compiles(version)

(* Nothing but the component u may change.                                 *)
Only(u) ==
  /\ selected = u /\ UNCHANGED selected
  /\ u # "pool" => UNCHANGED poolVars
  /\ u # "dispatcher" => UNCHANGED dispatcherVars
  /\ u # "blob" => UNCHANGED blobVars
  /\ u # "flag" => UNCHANGED flagVars
  /\ u # "text" => UNCHANGED textVars
  /\ u # "assign" => UNCHANGED assignVars
  /\ u # "events" => UNCHANGED eventsVars
  /\ u # "queue" => UNCHANGED queueVars
  /\ u # "scroll" => UNCHANGED scrollVars
  /\ u # "menus" => UNCHANGED menusVars
  /\ u # "subject" => UNCHANGED subjectVars
  /\ u # "ledger" => UNCHANGED ledgerVars

PoolStep == Only("pool") /\ Pool!Next
DispatcherStep == Only("dispatcher") /\ Dispatcher!Next
BlobStep == Only("blob") /\ Blob!Next
FlagStep == Only("flag") /\ Flag!Next
TextStep == Only("text") /\ Text!Next
AssignStep == Only("assign") /\ Assigner!Next
EventsStep == Only("events") /\ Evts!Next
QueueStep == Only("queue") /\ Queue!Next
ScrollStep == Only("scroll") /\ Scroll!Next
MenuStep == Only("menus") /\ Menu!Next
SubjectStep == Only("subject") /\ Subject!Next
LedgerStep == Only("ledger") /\ Household!Next

Next ==
  \/ PoolStep \/ DispatcherStep \/ BlobStep \/ FlagStep \/ TextStep
  \/ AssignStep \/ EventsStep \/ QueueStep \/ ScrollStep \/ MenuStep
  \/ SubjectStep \/ LedgerStep

Spec == Init /\ [][Next]_vars
-----------------------------------------------------------------------------
(* A turn restores the pool of host processes (HostProcessPool).           *)
TurnRestoresPool == Pool!TurnRestoresPool

(* What is registered under a number or an event is what it brings about:  *)
(* a message's handler (ZoneMsgDispatcher), a unit of the menu (Menus), the *)
(* observers of an event (Observer).                                       *)
DispatchedAsRegistered ==
  /\ Dispatcher!DispatchedAsRegistered
  /\ [](Menu!SelectedUnitRuns /\ Subject!ObserversAreCalled)

(* What one version saved another version loads (BLOBAgent).               *)
LoadedAsSaved == Blob!LoadedAsSaved

(* What is encoded, as bits, as octets or as assignments, is what is       *)
(* decoded, whatever is refused on the way (BitBuff, Utf8,                 *)
(* DebugAssignString).                                                     *)
EncodingsAgree ==
  Flag!BufferIsFlags /\ Text!CodecIsUtf8 /\ Assigner!FittingStringIsAssigned

(* What waits in a line leaves it in its order: the events of four         *)
(* containers (EventQueues), the values of a queue that several threads    *)
(* use (QueueSpinLocked), the rows of the game (ScrollGame).               *)
QueuesInOrder ==
  Evts!EventsInOrder /\ Queue!PoppedInOrder /\ Scroll!RowsComeDown

(* The ledger's total is its entries' (Ledger).                            *)
LedgerBalances == Household!LedgerBalances
=============================================================================
