----------------------------- MODULE MCShared ------------------------------
(***************************************************************************)
(* The programs whose parts share something between threads, callbacks or  *)
(* asynchronous completions: the two reference counts, the singletons, the *)
(* asio chat and echo servers, and the authentication provider's threads   *)
(* and send queue.  They share nothing with each other: a behaviour is one *)
(* of them, the selected one; the others stay in an initial state.         *)
(***************************************************************************)
EXTENDS Integers, Sequences, FiniteSets

CONSTANTS
  Sessions, Threads, Objects, NULL,
  Users, Creator, Modulus,                      \* RefCount, LockingRefCount
  max_recent_msgs, max_body_length, SizeModulus, Headers, MaxPosts,  \* AsioChat
  Lengths, MaxMsgs                              \* AuthSock

ASSUME UsersAssumption == IsFiniteSet(Users) /\ Creator \in Users
ASSUME ModulusAssumption == Modulus \in Nat /\ Cardinality(Users) < Modulus
ASSUME NullAssumption == NULL \notin Objects
ASSUME RecentAssumption == max_recent_msgs \in Nat \ {0}
ASSUME LengthsAssumption == Lengths \subseteq Nat

VARIABLES
  selected,
  refcount, prevCopy, using,
  m_lock, m_refCount, m_syncLock, seen, stage,
  instance_, lock, object, pc, mine, locked, scheduled, exiting,
  recent_msgs, posts, participants, fresh, reading, write_msgs, writing,
  written, status,
  unit, plss, worker, ptrIOServeice, stopped, session,
  hSocket, SendBufferQueue, iSendBufferOffset, flushing, calls, accepted, wire,
  torn,
  main, myState, net, evtIdx, eState, socket, events, signaled, connections

refVars == <<refcount, prevCopy, using>>
liteVars == <<m_lock, m_refCount, m_syncLock, seen, stage>>
singleVars == <<instance_, lock, object, pc, mine, locked, scheduled, exiting>>
chatVars == <<recent_msgs, posts, participants, fresh, reading, write_msgs, writing, written, status>>
echoVars == <<unit, plss, worker, ptrIOServeice, stopped, session>>
sockVars == <<hSocket, SendBufferQueue, iSendBufferOffset, flushing, calls, accepted, wire, torn>>
providerVars == <<main, myState, net, evtIdx, eState, socket, events, signaled, connections>>
vars == <<selected,
         refVars, liteVars, singleVars, chatVars, echoVars, sockVars,
         providerVars>>

Ref == INSTANCE RefCount WITH pc <- using

Lite == INSTANCE LockingRefCount WITH Threads <- Users, pc <- stage

Single == INSTANCE Singleton

Chat == INSTANCE AsioChat

Echo == INSTANCE AsioEcho

Sock == INSTANCE AuthSock

Provider == INSTANCE AuthProvider WITH StartStates <- {"terminate", "not_connected"}
-----------------------------------------------------------------------------
Units == {"ref", "lite", "single", "chat", "echo", "sock", "provider"}

(* A component with several initial states waits in one of them.           *)
Init ==
  /\ selected \in Units
  /\ Ref!Init /\ Lite!Init /\ Single!Init /\ Chat!Init /\ Echo!Init
  /\ Sock!Init /\ Provider!Init
  /\ selected # "provider" =>
       myState = "idle" /\ eState = [c \in Provider!Communicators |-> "terminate"]

(* Nothing but the component u may change.                                 *)
Only(u) ==
  /\ selected = u /\ UNCHANGED selected
  /\ u # "ref" => UNCHANGED refVars
  /\ u # "lite" => UNCHANGED liteVars
  /\ u # "single" => UNCHANGED singleVars
  /\ u # "chat" => UNCHANGED chatVars
  /\ u # "echo" => UNCHANGED echoVars
  /\ u # "sock" => UNCHANGED sockVars
  /\ u # "provider" => UNCHANGED providerVars

RefStep == Only("ref") /\ Ref!Next
LiteStep == Only("lite") /\ Lite!Next
SingleStep == Only("single") /\ Single!Next
ChatStep == Only("chat") /\ Chat!Next
EchoStep == Only("echo") /\ Echo!Next
SockStep == Only("sock") /\ Sock!Next
ProviderStep == Only("provider") /\ Provider!Next

Next ==
  \/ RefStep \/ LiteStep \/ SingleStep \/ ChatStep \/ EchoStep \/ SockStep
  \/ ProviderStep

(* The selected component is scheduled as its own module says; no action   *)
(* that has to happen is enabled in an initial state of the others.        *)
Fairness == Chat!Fairness /\ Echo!Fairness /\ Provider!Fairness

Spec == Init /\ [][Next]_vars /\ Fairness
-----------------------------------------------------------------------------
(* The count is exact, and the object is freed once and for good           *)
(* (RefCount).                                                             *)
CountIsReferences == Ref!CountIsReferences
FreedOnce == Ref!FreedOnce
NeverRevived == Ref!NeverRevived

(* The lockable count is the number of its users, and it is locked exactly *)
(* while there is a closer (LockingRefCount).                              *)
CountIsUsers == Lite!CountIsUsers

(* Its users share and a drained closer is alone (LockingRefCount).        *)
ImplementsRWLock == Lite!ImplementsRWLock

(* All threads get one complete instance (Singleton).                      *)
OneInstance == Single!OneInstance

(* The chat room broadcasts (AsioChat, ImplementsBroadcast).               *)
ImplementsBroadcast == Chat!ImplementsBroadcast

(* A member of the chat room is served (AsioChat, MemberIsServed).         *)
MemberIsServed == Chat!MemberIsServed

(* A q ends the echo servers (AsioEcho, QuitEndsUnit).                     *)
QuitEndsUnit == Echo!QuitEndsUnit

(* The bytes of messages are sent once and in order (AuthSock).            *)
StreamInOrder == Sock!StreamInOrder

(* The destructor of the provider returns (AuthProvider, ProviderEnds).    *)
ProviderEnds == Provider!ProviderEnds

(* No connection of the provider is begun over an open one (AuthProvider). *)
ConnectsClosedSockets == Provider!ConnectsClosedSockets
=============================================================================
