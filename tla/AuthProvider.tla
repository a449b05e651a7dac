---------------------------- MODULE AuthProvider ----------------------------
(***************************************************************************)
(* AuthProviderGF: its constructor starts the network thread, which keeps  *)
(* two communicators connected and serves their socket events until the    *)
(* destructor tells it to stop.  The events of one socket are collected    *)
(* until they are enumerated; the event object of each stays signaled      *)
(* until then, and the wait names the lowest one that is.                  *)
(***************************************************************************)
EXTENDS Integers, FiniteSets, FiniteSetsExt

CONSTANTS
  StartStates   \* what eState may be at first: state_terminate (0, the
                \* communicators are static), or what a caller of SetState,
                \* which is public and has none yet, would set

MIDDLEWARE == 0
PLSS == 1
Communicators == {MIDDLEWARE, PLSS}
WSA_WAIT_TIMEOUT == 258     \* no event within a second

VARIABLES
  main,         \* the owner: constructing, created, working, joining, joined
  myState,      \* idle, working or terminate; not initialised at first
  net,          \* the network thread: none, test, connect, wait, process, ended
  evtIdx,       \* what its last wait answered
  eState,       \* the state of each communicator
  socket,       \* invalid, or open
  events,       \* the network events of each socket since the last enumeration
  signaled,     \* the communicators whose event object is signaled
  connections   \* history: the connections each communicator has begun

commVars == <<eState, socket, events, signaled, connections>>
vars == <<main, myState, net, evtIdx, commVars>>

Init ==
  /\ main = "constructing" /\ net = "none" /\ evtIdx = 0
  /\ myState \in {"idle", "working", "terminate"}
  /\ eState \in [Communicators -> StartStates]
  /\ socket = [c \in Communicators |-> "invalid"]
  /\ events = [c \in Communicators |-> {}]
  /\ signaled = {}
  /\ connections = [c \in Communicators |-> 0]
-----------------------------------------------------------------------------
(* AuthProviderGF and its destructor: the thread is created before myState *)
(* is set; the destructor sets it and waits for the thread.                *)
doCreateThread ==
  /\ main = "constructing" /\ main' = "created"
  /\ net' = "test"
  /\ UNCHANGED <<myState, evtIdx, commVars>>

SetWorking ==
  /\ main = "created" /\ main' = "working"
  /\ myState' = "working"
  /\ UNCHANGED <<net, evtIdx, commVars>>

MutSetTerminate ==
  /\ main = "working" /\ main' = "joining"
  /\ myState' = "idle"
  /\ UNCHANGED <<net, evtIdx, commVars>>

SetTerminate ==
  /\ main = "working" /\ main' = "joining"
  /\ myState' = "terminate"
  /\ UNCHANGED <<net, evtIdx, commVars>>

WaitForTerminate ==
  /\ main = "joining" /\ net = "ended"
  /\ main' = "joined"
  /\ UNCHANGED <<myState, net, evtIdx, commVars>>
-----------------------------------------------------------------------------
(* DoWork: the condition of its loop.                                      *)
DoWork ==
  /\ net = "test"
  /\ net' = IF myState = "terminate" THEN "ended" ELSE "connect"
  /\ UNCHANGED <<main, myState, evtIdx, commVars>>

(* TryConnect for each communicator, of which works are those where        *)
(* ConnectToServer does, which stores a new socket without a look at the   *)
(* old one.  Where it fails DisconnectFromServer closes what there is, and *)
(* leaves the state alone.                                                 *)
Unconnected == {c \in Communicators : eState[c] = "not_connected"}

MutTryConnect(works) ==
  /\ net = "connect" /\ net' = "wait"
  /\ works \subseteq Unconnected
  /\ socket' = [c \in Communicators |->
       IF c \in works THEN "open" ELSE IF c \in Unconnected THEN "invalid" ELSE socket[c]]
  /\ connections' = [c \in Communicators |->
       IF c \in works THEN connections[c] + 1 ELSE connections[c]]
  /\ UNCHANGED <<main, myState, evtIdx, eState, events, signaled>>

TryConnect(works) ==
  /\ net = "connect" /\ net' = "wait"
  /\ works \subseteq Unconnected
  /\ eState' = [c \in Communicators |-> IF c \in works THEN "connecting" ELSE eState[c]]
  /\ socket' = [c \in Communicators |->
       IF c \in works THEN "open" ELSE IF c \in Unconnected THEN "invalid" ELSE socket[c]]
  /\ connections' = [c \in Communicators |->
       IF c \in works THEN connections[c] + 1 ELSE connections[c]]
  /\ UNCHANGED <<main, myState, evtIdx, events, signaled>>

(* What WSAWaitForMultipleEvents answers; only an index above 0 is served, *)
(* after any other answer the thread sleeps for a second.                  *)
Answer == IF signaled = {} THEN WSA_WAIT_TIMEOUT ELSE Min(signaled)

Wait ==
  /\ net = "wait"
  /\ evtIdx' = Answer
  /\ net' = IF evtIdx' > 0 /\ evtIdx' < Cardinality(Communicators) THEN "process" ELSE "test"
  /\ UNCHANGED <<main, myState, commVars>>

(* DisconnectFromServer closes the socket; the state stays.                *)
DisconnectFromServer(c) ==
  /\ socket' = [socket EXCEPT ![c] = "invalid"]
  /\ UNCHANGED eState

(* ProcessSocketEvents of one communicator: enumerating the events resets  *)
(* them and the event object, or fails, as it does on a closed socket.     *)
(* FD_CONNECT comes once for a connection, hence in state_connecting.      *)
(* What is read and written is the matter of AuthSock.                     *)
ProcessSocketEvents(enumerated, error) ==
  LET c == evtIdx
      got == IF enumerated THEN events[c] ELSE {}
      fails == ~enumerated \/ "close" \in got \/ got \cap error # {} IN
  /\ net = "process"
  /\ enumerated => socket[c] = "open"
  /\ events' = [events EXCEPT ![c] = @ \ got]
  /\ signaled' = IF enumerated THEN signaled \ {c} ELSE signaled
  /\ \/ /\ fails /\ "connect" \notin got \ error
        /\ DisconnectFromServer(c)
     \/ /\ fails /\ "connect" \in got \ error
        /\ socket' = [socket EXCEPT ![c] = "invalid"]
        /\ eState' = [eState EXCEPT ![c] = "ready"]
     \/ /\ ~fails
        /\ eState' = IF "connect" \in got THEN [eState EXCEPT ![c] = "ready"] ELSE eState
        /\ UNCHANGED socket
  /\ net' = "test"
  /\ UNCHANGED <<main, myState, evtIdx, connections>>

(* The network: an event of an open socket is recorded and signaled, the   *)
(* first one is FD_CONNECT.                                                *)
NetworkEvent(c, event) ==
  /\ socket[c] = "open"
  /\ event \notin events[c]
  /\ \/ event = "connect" /\ eState[c] = "connecting"
     \/ event # "connect" /\ (eState[c] = "ready" \/ "connect" \in events[c])
  /\ events' = [events EXCEPT ![c] = @ \cup {event}]
  /\ signaled' = signaled \cup {c}
  /\ UNCHANGED <<main, myState, net, evtIdx, eState, socket, connections>>

NetworkEvents == {"connect", "close", "read", "write"}

Next ==
  \/ doCreateThread \/ SetWorking \/ SetTerminate \/ WaitForTerminate
  \/ DoWork \/ Wait
  \/ \E works \in SUBSET Communicators : TryConnect(works)
  \/ \E enumerated \in BOOLEAN, error \in SUBSET {"connect", "read", "write"} :
       ProcessSocketEvents(enumerated, error)
  \/ \E c \in Communicators, event \in NetworkEvents : NetworkEvent(c, event)

(* Both threads run; each wait ends within a second.  The owner need not   *)
(* make or destroy the provider, and the network need not do anything.     *)
Fairness ==
  /\ WF_vars(SetWorking) /\ WF_vars(WaitForTerminate)
  /\ WF_vars(DoWork) /\ WF_vars(Wait)
  /\ WF_vars(\E works \in SUBSET Communicators : TryConnect(works))
  /\ WF_vars(\E enumerated \in BOOLEAN, error \in SUBSET {"connect", "read", "write"} :
               ProcessSocketEvents(enumerated, error))

Spec == Init /\ [][Next]_vars /\ Fairness
-----------------------------------------------------------------------------
(* The destructor returns: whatever the network does, the thread sees      *)
(* state_terminate, which the constructor, that set state_working after it *)
(* created the thread, does not overwrite                                  *)
(* (~AuthProviderGF, ThreadManager::WaitForTerminate).                     *)
ProviderEnds == main = "joining" ~> main = "joined"

(* No connection is begun over one that is open, although ConnectToServer  *)
(* does not look (its assertion is commented out) and every turn of the    *)
(* loop tries again: only a communicator that is not connected is tried,   *)
(* and it has no socket (NetCommunicator::TryConnect, AuthSock::           *)
(* ConnectToServer).                                                       *)
ConnectsClosedSockets ==
  [][\A c \in Communicators : connections'[c] # connections[c] => socket[c] = "invalid"]_vars

(* The communicators are kept in touch (AuthProviderGameFlier.cpp:574):    *)
(* sockets that were disconnected are connected again, by the TryConnect   *)
(* of the next turn (:600).  It is violated: DisconnectFromServer leaves   *)
(* the state, and TryConnect connects in state_not_connected only.         *)
KeepsInTouch ==
  net = "connect" =>
    \A c \in Communicators : connections[c] > 0 /\ socket[c] = "invalid" => c \in Unconnected
============================================================================
