-------------------------- MODULE HostResourceMgr --------------------------
(***************************************************************************)
(* CHostResourceMgr of the game server: the resources of the described     *)
(* connections, the pool of clients that may host, and the hosting info    *)
(* of the stages.  Any thread posts a message about a stage; the main      *)
(* thread handles them from Update, which also runs the connection         *)
(* callbacks.  push_msg builds the message first and takes the spinlock    *)
(* for the push only, so a posting thread may be held up between the two.  *)
(***************************************************************************)
EXTENDS Integers, Sequences, FiniteSets, SequencesExt

CONSTANTS
  Threads,      \* the posting threads other than the main thread
  Clients,      \* keys of connections of type User
  Hosts,        \* keys of connections of type Host
  Others,       \* keys of connections of a type that is no resource
  Stages,       \* GIDs of the stages
  None,         \* LKEY_INVALID, GID_INVALID, or no message at hand
  RepeatCnt,    \* repeatCnt of Update (100 in the code)
  QueueCap      \* bound of the model on the length of m_MsgQueue

Keys == Clients \cup Hosts \cup Others

ASSUME KeysAssumption ==
  Clients \cap Hosts = {} /\ Clients \cap Others = {} /\ Hosts \cap Others = {}
ASSUME RepeatAssumption == RepeatCnt \in Nat /\ RepeatCnt > 1
ASSUME QueueAssumption == QueueCap \in Nat \ {0}

ResourceTypes == {"User", "Host"}
TypeOf(k) == IF k \in Clients THEN "User" ELSE IF k \in Hosts THEN "Host" ELSE "other"

VARIABLES
  conns,        \* connections that exist in the ConnectionManager
  gone,         \* connections that were disconnected (keys are not reused)
  resources,    \* keys of m_ResourceContainer
  m_Index,      \* the HRIndex of each type of resources
  hostable,     \* clients whose CltCon is in m_HostableClt
  stageOf,      \* the stage each host connection hosts (CConnection::m_HostStage)
  hand,         \* the message a posting thread built and has not pushed yet
  queue,        \* m_MsgQueue
  info,         \* the hosting info of each stage in HostingInfoSet
  repeat        \* iterations Update has left; 0 when it does not run

connVars == <<conns, gone, resources, m_Index>>
vars == <<connVars, hostable, stageOf, hand, queue, info, repeat>>

Msg == [kind : {"ASSIGN_CLT_HOST", "JOIN_HOST", "LEAVE_HOST", "LEAVE_CLIENT",
                "CREATE_INSTANCE_ZONE", "DESTROY_INSTANCE_ZONE"},
        stage : Stages \cup {None}, key : Keys \cup {None}]

ASSUME NoneAssumption == None \notin Keys \cup Stages /\ None \notin Msg

Message(kind, s, k) == [kind |-> kind, stage |-> s, key |-> k]

HostingInfo(c, h) == [clt |-> c, host |-> h]
NewHostingInfo == HostingInfo(None, None)

Pending(m) == m \in Range(queue) \/ \E t \in Threads : hand[t] = m

Init ==
  /\ conns = {} /\ gone = {} /\ resources = {} /\ hostable = {}
  /\ m_Index = [type \in ResourceTypes |-> {}]
  /\ stageOf = [h \in Hosts |-> None]
  /\ hand = [t \in Threads |-> None]
  /\ queue = <<>>
  /\ info = [s \in {} |-> NewHostingInfo]
  /\ repeat = 0
-----------------------------------------------------------------------------
(* push_msg: the message is built, then pushed under the lock.             *)
push_msg(m) ==
  /\ Len(queue) < QueueCap
  /\ queue' = Append(queue, m)

Build(t, m) ==
  /\ hand[t] = None
  /\ hand' = [hand EXCEPT ![t] = m]
  /\ UNCHANGED <<connVars, hostable, queue, info, repeat>>

Push(t) ==
  /\ hand[t] # None
  /\ push_msg(hand[t])
  /\ hand' = [hand EXCEPT ![t] = None]
  /\ UNCHANGED <<connVars, hostable, stageOf, info, repeat>>

PostZone(t, s) ==
  /\ \E kind \in {"CREATE_INSTANCE_ZONE", "DESTROY_INSTANCE_ZONE"} :
       Build(t, Message(kind, s, None))
  /\ UNCHANGED stageOf

(* A host connection's requests are dispatched one after the other, and    *)
(* m_HostStage lets it host one stage at a time.                           *)
HandsOff(h) == \A t \in Threads : hand[t] # None => hand[t].key # h

PostJoin(t, s, h) ==
  /\ h \in conns /\ stageOf[h] = None /\ HandsOff(h)
  /\ stageOf' = [stageOf EXCEPT ![h] = s]
  /\ Build(t, Message("JOIN_HOST", s, h))

PostLeave(t, h) ==
  /\ stageOf[h] # None /\ HandsOff(h)
  /\ stageOf' = [stageOf EXCEPT ![h] = None]
  /\ Build(t, Message("LEAVE_HOST", stageOf[h], h))
-----------------------------------------------------------------------------
(* The main thread outside Update: the connection callbacks, and the       *)
(* allocation of a client for a stage (_AllocFromUser).                    *)
AddToIndex(k) == m_Index' = [m_Index EXCEPT ![TypeOf(k)] = @ \cup {k}]
RemoveFromIndex(k) == m_Index' = [m_Index EXCEPT ![TypeOf(k)] = @ \ {k}]
PushHostableClt(c) == hostable' = hostable \cup {c}

EnterAction(k) ==
  /\ AddToIndex(k)
  /\ IF k \in Clients THEN PushHostableClt(k) ELSE UNCHANGED hostable

(* HostResourceFactory::Create knows two types.                            *)
Create(k) == TypeOf(k) \in ResourceTypes

CreateResource(k) ==
  IF k \in resources \/ ~Create(k) THEN UNCHANGED <<resources, m_Index, hostable>>
  ELSE resources' = resources \cup {k} /\ EnterAction(k)

ConnectionDescribed(k) ==
  /\ repeat = 0 /\ k \notin gone
  /\ conns' = conns \cup {k}
  /\ CreateResource(k)
  /\ UNCHANGED <<gone, stageOf, hand, queue, info, repeat>>

LeaveAction(k) ==
  /\ RemoveFromIndex(k)
  /\ IF k \in Clients THEN push_msg(Message("LEAVE_CLIENT", None, k))
     ELSE UNCHANGED queue

(* RemoveResource deletes the resource; m_HostableClt is not looked at.    *)
RemoveResource(k) ==
  IF k \notin resources THEN UNCHANGED <<resources, m_Index, queue>>
  ELSE resources' = resources \ {k} /\ LeaveAction(k)

ConnectionDisconnected(k) ==
  /\ repeat = 0 /\ k \in conns
  /\ conns' = conns \ {k}
  /\ gone' = gone \cup {k}
  /\ RemoveResource(k)
  /\ UNCHANGED <<hostable, stageOf, hand, info, repeat>>

AllocFromUser(s, c) ==
  /\ repeat = 0 /\ c \in hostable \cap conns
  /\ hostable' = hostable \ {c}
  /\ push_msg(Message("ASSIGN_CLT_HOST", s, c))
  /\ UNCHANGED <<connVars, stageOf, hand, info, repeat>>
-----------------------------------------------------------------------------
(* The handlers.  find on a non-unique index gives any info with the key.  *)
ASSIGN_CLT_HOST(m) ==
  /\ info' = IF m.stage \in DOMAIN info
             THEN [info EXCEPT ![m.stage].clt = m.key] ELSE info
  /\ UNCHANGED hostable

CREATE_INSTANCE_ZONE(m) ==
  /\ info' = [s \in DOMAIN info \cup {m.stage} |->
                IF s \in DOMAIN info THEN info[s] ELSE NewHostingInfo]
  /\ UNCHANGED hostable

DESTROY_INSTANCE_ZONE(m) ==
  /\ info' = [s \in DOMAIN info \ {m.stage} |-> info[s]]
  /\ UNCHANGED hostable

JOIN_HOST(m) ==
  /\ info' = IF m.stage \in DOMAIN info
             THEN [info EXCEPT ![m.stage].host = m.key] ELSE info
  /\ UNCHANGED hostable

HasHost(h) == {s \in DOMAIN info : info[s].host = h}
HasClt(c) == {s \in DOMAIN info : info[s].clt = c}

GetResource(k) == {k} \cap resources

ReturnedBy(s) == GetResource(info[s].clt) \cap conns \cap Clients

MutLEAVE_HOSTKeepsClient(m) ==
  \/ /\ HasHost(m.key) = {}
     /\ UNCHANGED <<info, hostable>>
  \/ \E s \in HasHost(m.key) :
       IF s # m.stage THEN UNCHANGED <<info, hostable>>
       ELSE /\ hostable' = hostable \cup ReturnedBy(s)
            /\ info' = [info EXCEPT ![s].host = None]

MutLEAVE_HOSTOnlyWithClient(m) ==
  \/ /\ HasHost(m.key) = {}
     /\ UNCHANGED <<info, hostable>>
  \/ \E s \in HasHost(m.key) :
       IF s # m.stage \/ ReturnedBy(s) = {} THEN UNCHANGED <<info, hostable>>
       ELSE /\ hostable' = hostable \cup ReturnedBy(s)
            /\ info' = [info EXCEPT ![s] = NewHostingInfo]

LEAVE_HOST(m) ==
  \/ /\ HasHost(m.key) = {}
     /\ UNCHANGED <<info, hostable>>
  \/ \E s \in HasHost(m.key) :
       IF s # m.stage THEN UNCHANGED <<info, hostable>>
       ELSE /\ hostable' = hostable \cup ReturnedBy(s)
            /\ info' = [info EXCEPT ![s] = NewHostingInfo]

MutLEAVE_CLIENT(m) ==
  /\ UNCHANGED <<info, hostable>>

LEAVE_CLIENT(m) ==
  /\ \/ HasClt(m.key) = {} /\ UNCHANGED info
     \/ \E s \in HasClt(m.key) : info' = [info EXCEPT ![s].clt = None]
  /\ UNCHANGED hostable

Handle(m) ==
  \/ m.kind = "ASSIGN_CLT_HOST" /\ ASSIGN_CLT_HOST(m)
  \/ m.kind = "CREATE_INSTANCE_ZONE" /\ CREATE_INSTANCE_ZONE(m)
  \/ m.kind = "DESTROY_INSTANCE_ZONE" /\ DESTROY_INSTANCE_ZONE(m)
  \/ m.kind = "JOIN_HOST" /\ JOIN_HOST(m)
  \/ m.kind = "LEAVE_HOST" /\ LEAVE_HOST(m)
  \/ m.kind = "LEAVE_CLIENT" /\ LEAVE_CLIENT(m)

(* Update: an unlocked look at the queue, then at most RepeatCnt - 1       *)
(* messages, each popped under the lock and handled outside it.            *)
UpdateBegin ==
  /\ repeat = 0 /\ queue # <<>>
  /\ repeat' = RepeatCnt - 1
  /\ UNCHANGED <<connVars, hostable, stageOf, hand, queue, info>>

MutUpdateStepPopsLast ==
  /\ repeat > 0 /\ queue # <<>>
  /\ Handle(Last(queue))
  /\ queue' = Front(queue)
  /\ repeat' = repeat - 1
  /\ UNCHANGED <<connVars, stageOf, hand>>

UpdateStep ==
  /\ repeat > 0 /\ queue # <<>>
  /\ Handle(Head(queue))
  /\ queue' = Tail(queue)
  /\ repeat' = repeat - 1
  /\ UNCHANGED <<connVars, stageOf, hand>>

UpdateBreak ==
  /\ repeat > 0 /\ queue = <<>>
  /\ repeat' = 0
  /\ UNCHANGED <<connVars, hostable, stageOf, hand, queue, info>>

Update == UpdateBegin \/ UpdateStep \/ UpdateBreak

Post == \E t \in Threads :
  \/ \E s \in Stages : PostZone(t, s)
  \/ \E s \in Stages, h \in Hosts : PostJoin(t, s, h)
  \/ \E h \in Hosts : PostLeave(t, h)
  \/ Push(t)

Callback ==
  \/ \E k \in Keys : ConnectionDescribed(k) \/ ConnectionDisconnected(k)
  \/ \E s \in Stages, c \in Clients : AllocFromUser(s, c)

Next == Post \/ Callback \/ Update

Spec == Init /\ [][Next]_vars

(* The main loop calls Update in every turn. *)
FairSpec == Spec /\ WF_vars(Update)
-----------------------------------------------------------------------------
GetHostCount == Cardinality(m_Index["Host"])

(* The index of a type lists the connected connections of the type, so     *)
(* that the number of hosts it gives is right, whatever order connections  *)
(* are described and lost in (EnterAction, LeaveAction, GetHostCount).     *)
IndexListsConnected ==
  /\ \A type \in ResourceTypes : m_Index[type] = {k \in conns : TypeOf(k) = type}
  /\ GetHostCount = Cardinality(conns \cap Hosts)

Assigns(c) == {i \in DOMAIN queue : queue[i].kind = "ASSIGN_CLT_HOST"
                                    /\ queue[i].key = c}
Leaves(c) == {i \in DOMAIN queue : queue[i].kind = "LEAVE_CLIENT"
                                   /\ queue[i].key = c}

(* A client is in one place at most: offered in the pool, on its way to a  *)
(* stage in one queued ASSIGN_CLT_HOST, or the client of one stage.  So it *)
(* is never allocated twice, and the single info LEAVE_CLIENT clears is    *)
(* the only one that names it.                                             *)
ClientInOnePlace ==
  \A c \in Clients :
    Cardinality(HasClt(c)) + Cardinality(Assigns(c))
      + Cardinality({c} \cap hostable) <= 1

(* A client that left is still to be cleared wherever it is or will be     *)
(* named: its LEAVE_CLIENT is queued behind its ASSIGN_CLT_HOST.           *)
GoneClientWillBeCleared ==
  \A c \in Clients \cap gone :
    /\ HasClt(c) # {} => Leaves(c) # {}
    /\ \A i \in Assigns(c) : \E j \in Leaves(c) : i < j

(* What the loss of a connection leaves behind, at once in the indices and *)
(* later in the hosting info, agrees with the connections (RemoveResource, *)
(* LeaveAction).                                                           *)
LossIsCleared == IndexListsConnected /\ GoneClientWillBeCleared

(* A host is the host of one stage at most, so LEAVE_HOST's search by host *)
(* key finds the stage it is about; and if the host has left that stage,   *)
(* the message that says so is still to be handled.                        *)
HostOfOneStage ==
  \A h \in Hosts, s \in DOMAIN info : info[s].host = h =>
    /\ HasHost(h) = {s}
    /\ stageOf[h] = s \/ Pending(Message("LEAVE_HOST", s, h))

(* A client and a host are in one place at most, so that a search which    *)
(* stops at the first info it finds stops at the right one.                *)
ResourceInOnePlace == ClientInOnePlace /\ HostOfOneStage

(* Whatever the threads keep posting, and although one Update handles a    *)
(* limited number of messages, no stage names a disconnected client for    *)
(* ever.                                                                   *)
GoneClientReleased ==
  \A c \in Clients : c \in gone ~> [](HasClt(c) = {})

(* "m_HostableClt: the clients that can host" (HostResourceMgr.h:135).     *)
HostableClientsAreConnected == hostable \subseteq resources
=============================================================================
