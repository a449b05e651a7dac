------------------------- MODULE ZoneMsgDispatcher -------------------------
(***************************************************************************)
(* CZoneMsgDispatcher: a vector of handlers indexed by message id, which   *)
(* grows with the registrations, and trampolines that check a message's    *)
(* size before they call the member function of its type with what is      *)
(* behind it.                                                              *)
(***************************************************************************)
EXTENDS Integers, Sequences

CONSTANTS
  IDs,          \* the message ids in use, WORDs
  Types,        \* the message types
  sizeof,       \* the size of each type
  Sizes,        \* the sizes of the messages received (bound of the model)
  WordModulus   \* a WORD is an integer modulo WordModulus

empty == "empty"

VARIABLES
  m_vecHandlers,    \* the vector; index wID is element wID + 1
  registered,       \* history: the type last registered for each id
  message,          \* the last message: its id, and its size or -1 for none
  call,             \* the call it led to: the type, and the size of the rest
  assertion         \* off in a release build; in a debug build on, or failed

vars == <<m_vecHandlers, registered, message, call, assertion>>

NoCall == [type |-> empty, wSize |-> 0]

Init ==
  /\ m_vecHandlers = <<>>
  /\ registered = [wID \in IDs |-> empty]
  /\ message = [wID |-> 0, size |-> -1]
  /\ call = NoCall
  /\ assertion \in {"off", "on"}

Handler(wID) ==
  IF wID >= Len(m_vecHandlers) THEN empty ELSE m_vecHandlers[wID + 1]

(* Register, of either signature: the vector is resized when it is too     *)
(* short.  A second handler for an id aborts the program, in a debug       *)
(* build.                                                                  *)
Resized(wID) ==
  IF Len(m_vecHandlers) <= wID
    THEN [i \in 1..(wID + 1) |->
            IF i <= Len(m_vecHandlers) THEN m_vecHandlers[i] ELSE empty]
    ELSE m_vecHandlers

Register(wID, TMsg) ==
  /\ assertion = "off" \/ (assertion = "on" /\ Handler(wID) = empty)
  /\ m_vecHandlers' = [Resized(wID) EXCEPT ![wID + 1] = TMsg]
  /\ registered' = [registered EXCEPT ![wID] = TMsg]
  /\ UNCHANGED <<message, call, assertion>>

RegisterAborts(wID) ==
  /\ assertion = "on" /\ Handler(wID) # empty
  /\ assertion' = "failed"
  /\ UNCHANGED <<m_vecHandlers, registered, message, call>>

MutTrampoline(TMsg, dwMsgSize) ==
  [type |-> TMsg, wSize |-> (dwMsgSize - sizeof[TMsg]) % WordModulus]

(* Trampoline: the rest's size is passed as a WORD.                        *)
Trampoline(TMsg, dwMsgSize) ==
  IF dwMsgSize < sizeof[TMsg] THEN NoCall
  ELSE [type |-> TMsg, wSize |-> (dwMsgSize - sizeof[TMsg]) % WordModulus]

Dispatch(wID, dwMsgSize) ==
  /\ assertion # "failed"
  /\ message' = [wID |-> wID, size |-> dwMsgSize]
  /\ call' = IF Handler(wID) = empty THEN NoCall ELSE Trampoline(Handler(wID), dwMsgSize)
  /\ UNCHANGED <<m_vecHandlers, registered, assertion>>

Next ==
  \E wID \in IDs :
    \/ \E TMsg \in Types : Register(wID, TMsg)
    \/ RegisterAborts(wID)
    \/ \E dwMsgSize \in Sizes : Dispatch(wID, dwMsgSize)

Spec == Init /\ [][Next]_vars
-----------------------------------------------------------------------------
(* Whatever the order of the registrations, a message reaches the handler  *)
(* registered last for its id (the first, in a debug build, which aborts   *)
(* at a second) and no other, never with less than its type;               *)
(* the size of the rest is right unless it is beyond a WORD (Register,     *)
(* Dispatch, Trampoline).                                                  *)
DispatchedAsRegistered ==
  [][message'.size # -1 /\ (message' # message \/ call' # call) =>
       LET TMsg == registered[message'.wID]
           rest == message'.size - sizeof[TMsg] IN
       IF TMsg = empty THEN call' = NoCall
       ELSE IF rest < 0 THEN call' = NoCall
       ELSE call'.type = TMsg /\ (rest < WordModulus => call'.wSize = rest)]_vars
============================================================================
