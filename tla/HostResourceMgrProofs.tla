------------------------ MODULE HostResourceMgrProofs ------------------------
(***************************************************************************)
(* Proofs about HostResourceMgr, for any connections, stages and threads,  *)
(* and any bound on the queue.                                             *)
(*                                                                         *)
(* What the messages in the queue will do matters as much as what has been *)
(* done.  Of a client: it is in one place, and if it is gone, the message  *)
(* that says so comes last.  Of a host: its messages, read in the order of *)
(* the queue, take it from the stage that names it to the one it hosts.    *)
(***************************************************************************)
EXTENDS HostResourceMgr, FiniteSetTheorems, TLAPS

HostMsg == {Message("JOIN_HOST", s, h) : s \in Stages, h \in Hosts}
             \cup {Message("LEAVE_HOST", s, h) : s \in Stages, h \in Hosts}
ZoneMsg == {Message("CREATE_INSTANCE_ZONE", s, None) : s \in Stages}
             \cup {Message("DESTROY_INSTANCE_ZONE", s, None) : s \in Stages}
ClientMsg == {Message("ASSIGN_CLT_HOST", s, c) : s \in Stages, c \in Clients}
               \cup {Message("LEAVE_CLIENT", None, c) : c \in Clients}

TypeInv ==
  /\ conns \subseteq Keys /\ gone \subseteq Keys /\ hostable \subseteq Clients
  /\ m_Index \in [ResourceTypes -> SUBSET Keys]
  /\ stageOf \in [Hosts -> Stages \cup {None}]
  /\ hand \in [Threads -> HostMsg \cup ZoneMsg \cup {None}]
  /\ queue \in Seq(HostMsg \cup ZoneMsg \cup ClientMsg)
  /\ DOMAIN info \subseteq Stages
  /\ info \in [DOMAIN info -> [clt : Clients \cup {None}, host : Hosts \cup {None}]]
  /\ repeat \in Nat

(* The resources are the connections of the types that are resources. *)
ConnInv ==
  /\ conns \cap gone = {}
  /\ resources = conns \cap (Clients \cup Hosts)
  /\ m_Index["User"] = conns \cap Clients
  /\ m_Index["Host"] = conns \cap Hosts

(* A client is in one place, and was connected before it was in any. *)
PlaceInv ==
  \A c \in Clients :
    /\ c \in hostable => c \in conns \cup gone /\ HasClt(c) = {} /\ Assigns(c) = {}
    /\ \A s \in HasClt(c) : /\ c \in conns \cup gone /\ Assigns(c) = {}
                            /\ \A r \in HasClt(c) : r = s
    /\ \A i \in Assigns(c) : /\ c \in conns \cup gone
                             /\ \A j \in Assigns(c) : i = j

HandOf(t, h) == hand[t] # None /\ hand[t].key = h

(* at is a path of host h along the queue: where it is before the first    *)
(* message, and after each.                                                *)
Path(h, at) ==
  /\ at \in [0 .. Len(queue) -> Stages \cup {None}]
  /\ HasHost(h) \subseteq {at[0]}
  /\ \A i \in 1 .. Len(queue) :
       IF queue[i].key # h THEN at[i] = at[i - 1]
       ELSE IF queue[i].kind = "JOIN_HOST"
       THEN at[i - 1] = None /\ at[i] = queue[i].stage
       ELSE at[i - 1] = queue[i].stage /\ at[i] = None
  /\ (\A t \in Threads : ~HandOf(t, h)) => at[Len(queue)] = stageOf[h]
  /\ \A t \in Threads : HandOf(t, h) =>
       IF hand[t].kind = "JOIN_HOST"
       THEN at[Len(queue)] = None /\ stageOf[h] = hand[t].stage
       ELSE at[Len(queue)] = hand[t].stage /\ stageOf[h] = None

(* A host that is at a stage on its path leaves it later or stays there. *)
WillLeave(h, at) ==
  \A i \in 0 .. Len(queue) : at[i] # None =>
    \/ stageOf[h] = at[i]
    \/ \E j \in 1 .. Len(queue) : i < j /\ queue[j] = Message("LEAVE_HOST", at[i], h)
    \/ \E t \in Threads : hand[t] = Message("LEAVE_HOST", at[i], h)

HostPath(h) ==
  \E at \in [0 .. Len(queue) -> Stages \cup {None}] : Path(h, at) /\ WillLeave(h, at)

(* A host has one message at hand at most. *)
OneHand(h) == \A t, u \in Threads : HandOf(t, h) /\ HandOf(u, h) => t = u

ClientInv == PlaceInv /\ GoneClientWillBeCleared
HostInv == \A h \in Hosts : OneHand(h) /\ HostPath(h)

IInv == TypeInv /\ ConnInv /\ ClientInv /\ HostInv
-----------------------------------------------------------------------------
(* What a push and a pop do to the positions of the queue. *)
Pushes(m) == queue' = Append(queue, m)
Pops == queue # <<>> /\ queue' = Tail(queue)

AnyMsg == HostMsg \cup ZoneMsg \cup ClientMsg

LEMMA KindsDiffer ==
  /\ \A m \in HostMsg : m.kind \in {"JOIN_HOST", "LEAVE_HOST"} /\ m.key \in Hosts /\ m.stage \in Stages
  /\ \A m \in ZoneMsg : m.kind \in {"CREATE_INSTANCE_ZONE", "DESTROY_INSTANCE_ZONE"}
                        /\ m.key = None /\ m.stage \in Stages
  /\ \A m \in ClientMsg : m.kind \in {"ASSIGN_CLT_HOST", "LEAVE_CLIENT"} /\ m.key \in Clients
                          /\ (m.kind = "ASSIGN_CLT_HOST" => m.stage \in Stages)
  /\ None \notin AnyMsg /\ None \notin Stages /\ None \notin Clients /\ None \notin Hosts
  /\ Clients \cap Hosts = {}
<1>1. AnyMsg \subseteq Msg
  BY DEF AnyMsg, HostMsg, ZoneMsg, ClientMsg, Msg, Message, Keys
<1> QED  BY <1>1, NoneAssumption, KeysAssumption
         DEF HostMsg, ZoneMsg, ClientMsg, Message, Keys

LEMMA PushMoves ==
  ASSUME TypeInv, NEW m \in AnyMsg, Pushes(m)
  PROVE  /\ Len(queue) \in Nat /\ Len(queue') = Len(queue) + 1
         /\ queue' \in Seq(AnyMsg)
         /\ \A i \in 1 .. Len(queue) : queue'[i] = queue[i]
         /\ queue'[Len(queue) + 1] = m
<1>1. queue \in Seq(AnyMsg)  BY DEF TypeInv, AnyMsg
<1> QED  BY <1>1 DEF Pushes

LEMMA PopMoves ==
  ASSUME TypeInv, Pops
  PROVE  /\ Len(queue) \in Nat \ {0} /\ Len(queue') = Len(queue) - 1
         /\ queue' \in Seq(AnyMsg)
         /\ Head(queue) = queue[1] /\ queue[1] \in AnyMsg
         /\ \A i \in 1 .. Len(queue) - 1 : queue'[i] = queue[i + 1]
<1>1. queue \in Seq(AnyMsg)  BY DEF TypeInv, AnyMsg
<1> QED  BY <1>1 DEF Pops

(* What is left of a client's messages after a pop, and what a push adds. *)
LEMMA PopClientMessages ==
  ASSUME TypeInv, Pops, NEW c
  PROVE  /\ Assigns(c) \subseteq 1 .. Len(queue) /\ Leaves(c) \subseteq 1 .. Len(queue)
         /\ \A i \in Assigns(c)' : i \in Nat \ {0} /\ i + 1 \in Assigns(c)
         /\ \A j \in Leaves(c) : j # 1 => j - 1 \in Leaves(c)'
<1>1. queue \in Seq(AnyMsg)  BY DEF TypeInv, AnyMsg
<1>2. DOMAIN queue = 1 .. Len(queue) /\ DOMAIN queue' = 1 .. Len(queue')  BY <1>1, PopMoves
<1> QED  BY <1>2, PopMoves DEF Assigns, Leaves

LEMMA PushClientMessages ==
  ASSUME TypeInv, NEW m \in AnyMsg, Pushes(m), NEW c
  PROVE  /\ Assigns(c)' = IF m.kind = "ASSIGN_CLT_HOST" /\ m.key = c
                          THEN Assigns(c) \cup {Len(queue) + 1} ELSE Assigns(c)
         /\ Leaves(c)' = IF m.kind = "LEAVE_CLIENT" /\ m.key = c
                         THEN Leaves(c) \cup {Len(queue) + 1} ELSE Leaves(c)
         /\ Assigns(c) \subseteq 1 .. Len(queue)
<1>1. queue \in Seq(AnyMsg)  BY DEF TypeInv, AnyMsg
<1>2. DOMAIN queue = 1 .. Len(queue) /\ DOMAIN queue' = 1 .. Len(queue) + 1  BY <1>1, PushMoves
<1> QED  BY <1>2, PushMoves DEF Assigns, Leaves
-----------------------------------------------------------------------------
(* What handling a message does to the infos that name a client or a host. *)
InfoType == /\ DOMAIN info \subseteq Stages
            /\ info \in [DOMAIN info -> [clt : Clients \cup {None}, host : Hosts \cup {None}]]

ClientEffect(m, c) ==
  /\ \/ HasClt(c)' \subseteq HasClt(c)
     \/ m.kind = "ASSIGN_CLT_HOST" /\ m.key = c /\ HasClt(c)' \subseteq HasClt(c) \cup {m.stage}
  /\ m.kind = "LEAVE_CLIENT" /\ m.key = c => HasClt(c)' = {}
  /\ c \in hostable' => c \in hostable \/ (HasClt(c) # {} /\ HasClt(c)' = {})

HostEffect(m, h) ==
  /\ \/ HasHost(h)' \subseteq HasHost(h)
     \/ m.kind = "JOIN_HOST" /\ m.key = h /\ HasHost(h)' \subseteq HasHost(h) \cup {m.stage}
  /\ m.kind = "LEAVE_HOST" /\ m.key = h /\ HasHost(h) \subseteq {m.stage} => HasHost(h)' = {}

HandleEffect(m) ==
  /\ InfoType' /\ hostable' \subseteq Clients
  /\ \A c \in Clients : ClientEffect(m, c)
  /\ \A h \in Hosts : HostEffect(m, h)

LEMMA AssignEffect ==
  ASSUME TypeInv, NEW m \in AnyMsg, m.kind = "ASSIGN_CLT_HOST", ASSIGN_CLT_HOST(m)
  PROVE  HandleEffect(m)
<1>1. InfoType' /\ hostable' \subseteq Clients
  BY KindsDiffer DEF TypeInv, InfoType, ASSIGN_CLT_HOST, AnyMsg
<1>2. ASSUME NEW c \in Clients PROVE ClientEffect(m, c)
  <2>1. DOMAIN info' = DOMAIN info /\ hostable' = hostable
    BY DEF TypeInv, ASSIGN_CLT_HOST
  <2>2. \A s \in DOMAIN info : info'[s].clt = IF s = m.stage THEN m.key ELSE info[s].clt
    BY DEF TypeInv, ASSIGN_CLT_HOST
  <2>3. CASE m.key = c
    BY <2>1, <2>2, <2>3 DEF HasClt, ClientEffect
  <2>4. CASE m.key # c
    BY <2>1, <2>2, <2>4 DEF HasClt, ClientEffect
  <2> QED  BY <2>3, <2>4
<1>3. ASSUME NEW h \in Hosts PROVE HostEffect(m, h)
  BY KindsDiffer DEF TypeInv, HostEffect, HasHost, ASSIGN_CLT_HOST, AnyMsg
<1> QED  BY <1>1, <1>2, <1>3 DEF HandleEffect

LEMMA CreateEffect ==
  ASSUME TypeInv, NEW m \in AnyMsg, m.kind = "CREATE_INSTANCE_ZONE", CREATE_INSTANCE_ZONE(m)
  PROVE  HandleEffect(m)
<1>1. InfoType' /\ hostable' \subseteq Clients
  BY KindsDiffer
  DEF TypeInv, InfoType, CREATE_INSTANCE_ZONE, AnyMsg, NewHostingInfo, HostingInfo
<1>2. ASSUME NEW c \in Clients PROVE ClientEffect(m, c)
  BY KindsDiffer
  DEF TypeInv, ClientEffect, HasClt, CREATE_INSTANCE_ZONE, AnyMsg, NewHostingInfo, HostingInfo
<1>3. ASSUME NEW h \in Hosts PROVE HostEffect(m, h)
  BY KindsDiffer
  DEF TypeInv, HostEffect, HasHost, CREATE_INSTANCE_ZONE, AnyMsg, NewHostingInfo, HostingInfo
<1> QED  BY <1>1, <1>2, <1>3 DEF HandleEffect

LEMMA DestroyEffect ==
  ASSUME TypeInv, NEW m \in AnyMsg, m.kind = "DESTROY_INSTANCE_ZONE", DESTROY_INSTANCE_ZONE(m)
  PROVE  HandleEffect(m)
<1>1. InfoType' /\ hostable' \subseteq Clients
  BY DEF TypeInv, InfoType, DESTROY_INSTANCE_ZONE
<1>2. ASSUME NEW c \in Clients PROVE ClientEffect(m, c)
  BY DEF TypeInv, ClientEffect, HasClt, DESTROY_INSTANCE_ZONE
<1>3. ASSUME NEW h \in Hosts PROVE HostEffect(m, h)
  BY DEF TypeInv, HostEffect, HasHost, DESTROY_INSTANCE_ZONE
<1> QED  BY <1>1, <1>2, <1>3 DEF HandleEffect

LEMMA JoinEffect ==
  ASSUME TypeInv, NEW m \in AnyMsg, m.kind = "JOIN_HOST", JOIN_HOST(m)
  PROVE  HandleEffect(m)
<1>1. InfoType' /\ hostable' \subseteq Clients
  BY KindsDiffer DEF TypeInv, InfoType, JOIN_HOST, AnyMsg
<1>2. ASSUME NEW c \in Clients PROVE ClientEffect(m, c)
  BY KindsDiffer DEF TypeInv, ClientEffect, HasClt, JOIN_HOST, AnyMsg
<1>3. ASSUME NEW h \in Hosts PROVE HostEffect(m, h)
  <2>1. DOMAIN info' = DOMAIN info
    BY DEF TypeInv, JOIN_HOST
  <2>2. \A s \in DOMAIN info : info'[s].host = IF s = m.stage THEN m.key ELSE info[s].host
    BY DEF TypeInv, JOIN_HOST
  <2>3. CASE m.key = h
    BY <2>1, <2>2, <2>3 DEF HasHost, HostEffect
  <2>4. CASE m.key # h
    BY <2>1, <2>2, <2>4 DEF HasHost, HostEffect
  <2> QED  BY <2>3, <2>4
<1> QED  BY <1>1, <1>2, <1>3 DEF HandleEffect

(* The info that is reset is the only one that names its client. *)
LEMMA LeaveHostEffect ==
  ASSUME TypeInv, PlaceInv, NEW m \in AnyMsg, m.kind = "LEAVE_HOST", LEAVE_HOST(m)
  PROVE  HandleEffect(m)
<1>1. CASE UNCHANGED <<info, hostable>> /\ (HasHost(m.key) = {} \/ ~(HasHost(m.key) \subseteq {m.stage}))
  <2>1. ASSUME NEW c \in Clients PROVE ClientEffect(m, c)
    BY <1>1, KindsDiffer DEF ClientEffect, HasClt
  <2>2. ASSUME NEW h \in Hosts PROVE HostEffect(m, h)
    BY <1>1, KindsDiffer DEF HostEffect, HasHost
  <2> QED  BY <1>1, <2>1, <2>2 DEF HandleEffect, InfoType, TypeInv
<1>2. ASSUME NEW s \in HasHost(m.key), s = m.stage,
             hostable' = hostable \cup ReturnedBy(s),
             info' = [info EXCEPT ![s] = NewHostingInfo]
      PROVE  HandleEffect(m)
  <2>1. s \in DOMAIN info /\ info[s].host = m.key  BY DEF HasHost
  <2>2. NewHostingInfo.clt = None /\ NewHostingInfo.host = None
    BY DEF NewHostingInfo, HostingInfo
  <2>3. ReturnedBy(s) \subseteq {info[s].clt} \cap Clients  BY DEF ReturnedBy, GetResource
  <2>4. InfoType' /\ hostable' \subseteq Clients
    BY <1>2, <2>1, <2>3 DEF TypeInv, InfoType, NewHostingInfo, HostingInfo
  <2>5. ASSUME NEW c \in Clients PROVE ClientEffect(m, c)
    <3>1. HasClt(c)' = HasClt(c) \ {s}
      BY <1>2, <2>1, <2>2, KindsDiffer DEF HasClt, TypeInv
    <3>2. c \in hostable' => c \in hostable \/ s \in HasClt(c)
      BY <1>2, <2>1, <2>3 DEF HasClt
    <3>3. s \in HasClt(c) => HasClt(c) \subseteq {s}  BY DEF PlaceInv
    <3> QED  BY <3>1, <3>2, <3>3 DEF ClientEffect
  <2>6. ASSUME NEW h \in Hosts PROVE HostEffect(m, h)
    <3>1. HasHost(h)' = HasHost(h) \ {s}
      BY <1>2, <2>1, <2>2, KindsDiffer DEF HasHost, TypeInv
    <3> QED  BY <3>1, <1>2 DEF HostEffect
  <2> QED  BY <2>4, <2>5, <2>6 DEF HandleEffect
<1> QED  BY <1>1, <1>2 DEF LEAVE_HOST

LEMMA LeaveClientEffect ==
  ASSUME TypeInv, PlaceInv, NEW m \in AnyMsg, m.kind = "LEAVE_CLIENT", LEAVE_CLIENT(m)
  PROVE  HandleEffect(m)
<1>1. CASE HasClt(m.key) = {} /\ UNCHANGED info
  <2>1. ASSUME NEW c \in Clients PROVE ClientEffect(m, c)
    BY <1>1 DEF ClientEffect, HasClt, LEAVE_CLIENT
  <2>2. ASSUME NEW h \in Hosts PROVE HostEffect(m, h)
    BY <1>1 DEF HostEffect, HasHost
  <2> QED  BY <1>1, <2>1, <2>2 DEF HandleEffect, InfoType, TypeInv, LEAVE_CLIENT
<1>2. ASSUME NEW s \in HasClt(m.key), info' = [info EXCEPT ![s].clt = None]
      PROVE  HandleEffect(m)
  <2>1. s \in DOMAIN info /\ info[s].clt = m.key /\ hostable' = hostable
    BY DEF HasClt, LEAVE_CLIENT
  <2>2. InfoType' /\ hostable' \subseteq Clients
    BY <1>2, <2>1 DEF TypeInv, InfoType
  <2>3. ASSUME NEW c \in Clients PROVE ClientEffect(m, c)
    <3>1. HasClt(c)' = HasClt(c) \ {s}
      BY <1>2, <2>1, KindsDiffer DEF HasClt, TypeInv
    <3>2. m.key = c => HasClt(c) \subseteq {s}  BY <1>2 DEF PlaceInv
    <3> QED  BY <2>1, <3>1, <3>2 DEF ClientEffect
  <2>4. ASSUME NEW h \in Hosts PROVE HostEffect(m, h)
    BY <1>2, <2>1 DEF HasHost, HostEffect, TypeInv
  <2> QED  BY <2>2, <2>3, <2>4 DEF HandleEffect
<1> QED  BY <1>1, <1>2 DEF LEAVE_CLIENT

LEMMA HandlingHasEffect ==
  ASSUME TypeInv, PlaceInv, NEW m \in AnyMsg, Handle(m)
  PROVE  HandleEffect(m)
BY AssignEffect, CreateEffect, DestroyEffect, JoinEffect, LeaveHostEffect, LeaveClientEffect
DEF Handle
-----------------------------------------------------------------------------
(* Where a client is, through every change of the queue, the infos and the *)
(* pool.                                                                   *)
Known == conns \cup gone

LEMMA NothingMoves ==
  ASSUME TypeInv, ClientInv, UNCHANGED <<queue, info>>,
         Known \subseteq Known', (gone \cap Clients)' = gone \cap Clients,
         \A c \in hostable' : c \in hostable \/ (c \notin Known /\ c \in Known')
  PROVE  ClientInv'
<1>1. ASSUME NEW c \in Clients PROVE HasClt(c)' = HasClt(c) /\ Assigns(c)' = Assigns(c)
                                     /\ Leaves(c)' = Leaves(c)
  BY DEF HasClt, Assigns, Leaves
<1>2. ASSUME NEW c \in Clients, c \notin Known PROVE HasClt(c) = {} /\ Assigns(c) = {}
  BY <1>2 DEF ClientInv, PlaceInv, Known
<1>3. PlaceInv'
  BY <1>1, <1>2 DEF ClientInv, PlaceInv, Known
<1>4. GoneClientWillBeCleared'
  BY <1>1 DEF ClientInv, GoneClientWillBeCleared
<1> QED  BY <1>3, <1>4 DEF ClientInv

LEMMA HostMessagePushed ==
  ASSUME TypeInv, ClientInv, NEW m \in HostMsg \cup ZoneMsg, Pushes(m),
         UNCHANGED <<conns, gone, hostable, info>>
  PROVE  ClientInv'
<1>1. m \in AnyMsg  BY DEF AnyMsg
<1>2. ASSUME NEW c \in Clients PROVE HasClt(c)' = HasClt(c) /\ Assigns(c)' = Assigns(c)
                                     /\ Leaves(c)' = Leaves(c)
  BY <1>1, PushClientMessages, KindsDiffer DEF HasClt
<1>3. PlaceInv'
  BY <1>2 DEF ClientInv, PlaceInv
<1>4. GoneClientWillBeCleared'
  BY <1>2 DEF ClientInv, GoneClientWillBeCleared
<1> QED  BY <1>3, <1>4 DEF ClientInv

(* The message that a client is gone is the last about it. *)
LEMMA ClientGoes ==
  ASSUME TypeInv, ClientInv, NEW k \in Clients \cap conns,
         Pushes(Message("LEAVE_CLIENT", None, k)),
         conns' = conns \ {k}, gone' = gone \cup {k}, UNCHANGED <<hostable, info>>
  PROVE  ClientInv'
<1> DEFINE m == Message("LEAVE_CLIENT", None, k)
<1>1. m \in AnyMsg /\ m.kind = "LEAVE_CLIENT" /\ m.key = k
  BY DEF AnyMsg, ClientMsg, Message
<1>2. Len(queue) \in Nat  BY <1>1, PushMoves
<1> HIDE DEF m
<1>3. ASSUME NEW c \in Clients
      PROVE  /\ HasClt(c)' = HasClt(c) /\ Assigns(c)' = Assigns(c)
             /\ Assigns(c) \subseteq 1 .. Len(queue)
             /\ Leaves(c) \subseteq Leaves(c)'
             /\ c = k => Len(queue) + 1 \in Leaves(c)'
  BY <1>1, PushClientMessages DEF HasClt, m
<1>4. PlaceInv'
  BY <1>3 DEF ClientInv, PlaceInv
<1>5. GoneClientWillBeCleared'
  <2> SUFFICES ASSUME NEW c \in Clients, c \in gone'
               PROVE  /\ HasClt(c)' # {} => Leaves(c)' # {}
                      /\ \A i \in Assigns(c)' : \E j \in Leaves(c)' : i < j
    BY DEF GoneClientWillBeCleared
  <2>1. CASE c = k
    BY <1>2, <1>3, <2>1
  <2>2. CASE c # k
    BY <1>3, <2>2 DEF ClientInv, GoneClientWillBeCleared
  <2> QED  BY <2>1, <2>2
<1> QED  BY <1>4, <1>5 DEF ClientInv

LEMMA ClientAllocated ==
  ASSUME TypeInv, ConnInv, ClientInv, NEW s \in Stages, NEW k \in hostable \cap conns,
         Pushes(Message("ASSIGN_CLT_HOST", s, k)),
         hostable' = hostable \ {k}, UNCHANGED <<conns, gone, info>>
  PROVE  ClientInv'
<1> DEFINE m == Message("ASSIGN_CLT_HOST", s, k)
<1>1. m \in AnyMsg /\ m.kind = "ASSIGN_CLT_HOST" /\ m.key = k /\ k \in Clients
  BY DEF AnyMsg, ClientMsg, Message, TypeInv
<1> HIDE DEF m
<1>2. ASSUME NEW c \in Clients
      PROVE  /\ HasClt(c)' = HasClt(c) /\ Leaves(c)' = Leaves(c)
             /\ c # k => Assigns(c)' = Assigns(c)
             /\ c = k => Assigns(c)' = Assigns(c) \cup {Len(queue) + 1}
  BY <1>1, PushClientMessages DEF HasClt, m
<1>3. HasClt(k) = {} /\ Assigns(k) = {} /\ k \notin gone
  BY <1>1 DEF ClientInv, PlaceInv, ConnInv
<1>4. PlaceInv'
  <2> SUFFICES ASSUME NEW c \in Clients
               PROVE  /\ c \in hostable' => c \in conns' \cup gone' /\ HasClt(c)' = {} /\ Assigns(c)' = {}
                      /\ \A r \in HasClt(c)' : /\ c \in conns' \cup gone' /\ Assigns(c)' = {}
                                               /\ \A q \in HasClt(c)' : q = r
                      /\ \A i \in Assigns(c)' : /\ c \in conns' \cup gone'
                                                /\ \A j \in Assigns(c)' : i = j
    BY DEF PlaceInv
  <2>1. CASE c = k
    BY <1>2, <1>3, <2>1
  <2>2. CASE c # k
    BY <1>2, <2>2 DEF ClientInv, PlaceInv
  <2> QED  BY <2>1, <2>2
<1>5. GoneClientWillBeCleared'
  BY <1>1, <1>2, <1>3 DEF ClientInv, GoneClientWillBeCleared
<1> QED  BY <1>4, <1>5 DEF ClientInv

LEMMA MessageHandled ==
  ASSUME TypeInv, ClientInv, Pops, HandleEffect(queue[1]), UNCHANGED <<conns, gone>>
  PROVE  ClientInv'
<1> DEFINE m == queue[1]
<1>1. m \in AnyMsg  BY PopMoves
<1>2. ASSUME NEW c \in Clients
      PROVE  /\ Assigns(c) \subseteq 1 .. Len(queue) /\ Leaves(c) \subseteq 1 .. Len(queue)
             /\ \A i \in Assigns(c)' : i \in Nat \ {0} /\ i + 1 \in Assigns(c)
             /\ \A j \in Leaves(c) : j # 1 => j - 1 \in Leaves(c)'
             /\ ClientEffect(m, c)
  BY PopClientMessages DEF HandleEffect
<1>3. 1 \in 1 .. Len(queue) /\ DOMAIN queue = 1 .. Len(queue)
  <2>1. queue \in Seq(AnyMsg)  BY DEF TypeInv, AnyMsg
  <2> QED  BY <2>1, PopMoves
<1>4. ASSUME NEW c \in Clients
      PROVE  /\ 1 \in Leaves(c) <=> m.kind = "LEAVE_CLIENT" /\ m.key = c
             /\ 1 \in Assigns(c) <=> m.kind = "ASSIGN_CLT_HOST" /\ m.key = c
  BY <1>3 DEF Leaves, Assigns
<1> HIDE DEF m
<1>5. PlaceInv'
  <2> SUFFICES ASSUME NEW c \in Clients
               PROVE  /\ c \in hostable' => c \in conns' \cup gone' /\ HasClt(c)' = {} /\ Assigns(c)' = {}
                      /\ \A r \in HasClt(c)' : /\ c \in conns' \cup gone' /\ Assigns(c)' = {}
                                               /\ \A q \in HasClt(c)' : q = r
                      /\ \A i \in Assigns(c)' : /\ c \in conns' \cup gone'
                                                /\ \A j \in Assigns(c)' : i = j
    BY DEF PlaceInv
  <2>1. CASE 1 \in Assigns(c)
    <3>1. Assigns(c)' = {}
      <4>1. \A i \in Assigns(c) : i = 1  BY <2>1 DEF ClientInv, PlaceInv
      <4> QED  BY <4>1, <1>2
    <3>2. c \notin hostable /\ HasClt(c) = {} /\ c \in conns \cup gone
      BY <2>1 DEF ClientInv, PlaceInv
    <3>3. c \notin hostable' /\ HasClt(c)' \subseteq {m.stage}
      BY <1>2, <3>2 DEF ClientEffect
    <3> QED  BY <3>1, <3>2, <3>3
  <2>2. CASE 1 \notin Assigns(c)
    <3>1. HasClt(c)' \subseteq HasClt(c)
      BY <1>2, <1>4, <2>2 DEF ClientEffect
    <3>2. Assigns(c) = {} => Assigns(c)' = {}
      BY <1>2
    <3>3. c \in hostable' => c \in hostable \/ (HasClt(c) # {} /\ HasClt(c)' = {})
      BY <1>2 DEF ClientEffect
    <3>4. \A i, j \in Assigns(c)' : c \in conns \cup gone /\ i = j
      <4> SUFFICES ASSUME NEW i \in Assigns(c)', NEW j \in Assigns(c)'
                   PROVE  c \in conns \cup gone /\ i = j
        OBVIOUS
      <4>1. i + 1 \in Assigns(c) /\ j + 1 \in Assigns(c) /\ i \in Nat /\ j \in Nat  BY <1>2
      <4>2. i + 1 = j + 1 /\ c \in conns \cup gone  BY <4>1 DEF ClientInv, PlaceInv
      <4> QED  BY <4>1, <4>2
    <3>5. c \in hostable => c \in conns \cup gone /\ HasClt(c) = {} /\ Assigns(c) = {}
      BY DEF ClientInv, PlaceInv
    <3>6. \A r \in HasClt(c) : /\ c \in conns \cup gone /\ Assigns(c) = {}
                               /\ \A q \in HasClt(c) : q = r
      BY DEF ClientInv, PlaceInv
    <3> QED  BY <3>1, <3>2, <3>3, <3>4, <3>5, <3>6
  <2> QED  BY <2>1, <2>2
<1>6. GoneClientWillBeCleared'
  <2> SUFFICES ASSUME NEW c \in Clients, c \in gone
               PROVE  /\ HasClt(c)' # {} => Leaves(c)' # {}
                      /\ \A i \in Assigns(c)' : \E j \in Leaves(c)' : i < j
    BY DEF GoneClientWillBeCleared
  <2>1. \A i \in Assigns(c) : \E j \in Leaves(c) : i < j
    BY DEF ClientInv, GoneClientWillBeCleared
  <2>2. \A i \in Assigns(c)' : \E j \in Leaves(c)' : i < j
    <3> SUFFICES ASSUME NEW i \in Assigns(c)' PROVE \E j \in Leaves(c)' : i < j
      OBVIOUS
    <3>1. PICK j \in Leaves(c) : i + 1 < j  BY <1>2, <2>1
    <3>2. j - 1 \in Leaves(c)' /\ i < j - 1  BY <1>2, <3>1
    <3> QED  BY <3>2
  <2>3. ASSUME HasClt(c)' # {} PROVE Leaves(c)' # {}
    <3>1. 1 \notin Leaves(c)
      BY <1>2, <1>4, <2>3 DEF ClientEffect
    <3>2. CASE 1 \in Assigns(c)
      BY <1>2, <2>1, <3>1, <3>2
    <3>3. CASE 1 \notin Assigns(c)
      <4>1. HasClt(c) # {}  BY <1>2, <1>4, <2>3, <3>3 DEF ClientEffect
      <4>2. Leaves(c) # {}  BY <4>1 DEF ClientInv, GoneClientWillBeCleared
      <4> QED  BY <1>2, <3>1, <4>2
    <3> QED  BY <3>2, <3>3
  <2> QED  BY <2>2, <2>3
<1> QED  BY <1>5, <1>6 DEF ClientInv
-----------------------------------------------------------------------------
(* The path of a host through every change of the queue, of the messages   *)
(* at hand and of the infos.                                               *)
(* The messages of h that are at hand are not touched. *)
HandsKeep(h) ==
  \A t \in Threads : /\ HandOf(t, h)' <=> HandOf(t, h)
                     /\ HandOf(t, h) => hand'[t] = hand[t]

LEMMA SamePath ==
  ASSUME TypeInv, NEW h \in Hosts, HostPath(h), HandsKeep(h),
         queue' = queue, stageOf'[h] = stageOf[h], info' = info
  PROVE  HostPath(h)'
<1>1. PICK at \in [0 .. Len(queue) -> Stages \cup {None}] : Path(h, at) /\ WillLeave(h, at)
  BY DEF HostPath
<1>2. ASSUME NEW s \in Stages, NEW t \in Threads, hand[t] = Message("LEAVE_HOST", s, h)
      PROVE  hand'[t] = hand[t]
  <2>1. HandOf(t, h)  BY <1>2, KindsDiffer DEF HandOf, Message, AnyMsg, TypeInv, HostMsg, ZoneMsg
  <2> QED  BY <2>1 DEF HandsKeep
<1>3. Path(h, at)'
  BY <1>1 DEF Path, HandsKeep, HasHost
<1>4. WillLeave(h, at)'
  BY <1>1, <1>2 DEF WillLeave
<1> QED  BY <1>1, <1>3, <1>4 DEF HostPath

(* A message about somebody else makes the path longer. *)
LEMMA PathGrows ==
  ASSUME TypeInv, NEW h \in Hosts, HostPath(h), HandsKeep(h), NEW m \in AnyMsg,
         m.key # h, Pushes(m), UNCHANGED <<stageOf, info>>
  PROVE  HostPath(h)'
<1>1. PICK at \in [0 .. Len(queue) -> Stages \cup {None}] : Path(h, at) /\ WillLeave(h, at)
  BY DEF HostPath
<1>2. PICK n \in Nat : /\ n = Len(queue) /\ Len(queue') = n + 1 /\ queue'[n + 1] = m
                       /\ \A i \in 1 .. n : queue'[i] = queue[i]
  BY PushMoves
<1>3. PICK to \in [0 .. n + 1 -> Stages \cup {None}] :
        to[n + 1] = at[n] /\ \A i \in 0 .. n : to[i] = at[i]
  <2> DEFINE to == [i \in 0 .. n + 1 |-> IF i = n + 1 THEN at[n] ELSE at[i]]
  <2>1. to \in [0 .. n + 1 -> Stages \cup {None}] /\ to[n + 1] = at[n]
        /\ \A i \in 0 .. n : to[i] = at[i]
    BY <1>1, <1>2
  <2> HIDE DEF to
  <2> QED  BY <2>1
<1>4. ASSUME NEW s \in Stages, NEW t \in Threads, hand[t] = Message("LEAVE_HOST", s, h)
      PROVE  hand'[t] = hand[t]
  <2>1. HandOf(t, h)  BY <1>4, KindsDiffer DEF HandOf, Message, AnyMsg, TypeInv, HostMsg, ZoneMsg
  <2> QED  BY <2>1 DEF HandsKeep
<1>5. Path(h, to)'
  <2>1. (HasHost(h) \subseteq {to[0]})'
    BY <1>1, <1>2, <1>3 DEF Path, HasHost
  <2>2. (\A i \in 1 .. Len(queue) :
           IF queue[i].key # h THEN to[i] = to[i - 1]
           ELSE IF queue[i].kind = "JOIN_HOST"
           THEN to[i - 1] = None /\ to[i] = queue[i].stage
           ELSE to[i - 1] = queue[i].stage /\ to[i] = None)'
    <3>1. ASSUME NEW i \in 1 .. n
          PROVE  i \in 0 .. n /\ i - 1 \in 0 .. n /\ queue'[i] = queue[i]
      BY <1>2
    <3>2. ASSUME NEW i \in 1 .. n
          PROVE IF queue'[i].key # h THEN to[i] = to[i - 1]
                ELSE IF queue'[i].kind = "JOIN_HOST"
                THEN to[i - 1] = None /\ to[i] = queue'[i].stage
                ELSE to[i - 1] = queue'[i].stage /\ to[i] = None
      BY <1>1, <1>2, <1>3, <3>1 DEF Path
    <3>3. to[n + 1] = to[n + 1 - 1]
      BY <1>2, <1>3
    <3> QED  BY <1>2, <3>2, <3>3
  <2>3. (to \in [0 .. Len(queue) -> Stages \cup {None}])'
    BY <1>2, <1>3
  <2>4. to[n + 1] = at[Len(queue)]
    BY <1>2, <1>3
  <2> QED  BY <1>1, <1>2, <2>1, <2>2, <2>3, <2>4 DEF Path, HandsKeep
<1>6. WillLeave(h, to)'
  <2> SUFFICES ASSUME NEW i \in 0 .. n + 1, to[i] # None
               PROVE  \/ stageOf[h] = to[i]
                      \/ \E j \in 1 .. n + 1 : i < j /\ queue'[j] = Message("LEAVE_HOST", to[i], h)
                      \/ \E t \in Threads : hand'[t] = Message("LEAVE_HOST", to[i], h)
    BY <1>2 DEF WillLeave
  <2> DEFINE k == IF i = n + 1 THEN n ELSE i
  <2>1. k \in 0 .. n /\ to[i] = at[k] /\ at[k] # None /\ at[k] \in Stages
    BY <1>1, <1>2, <1>3
  <2>2. CASE \E j \in 1 .. n : k < j /\ queue[j] = Message("LEAVE_HOST", at[k], h)
    BY <1>2, <2>1, <2>2
  <2>3. CASE \E t \in Threads : hand[t] = Message("LEAVE_HOST", at[k], h)
    BY <1>4, <2>1, <2>3
  <2> HIDE DEF k
  <2> QED  BY <1>1, <1>2, <2>1, <2>2, <2>3 DEF WillLeave
<1> QED  BY <1>2, <1>3, <1>5, <1>6 DEF HostPath

(* A host that has nothing at hand asks to join a stage or to leave its.   *)
LEMMA RequestPosted ==
  ASSUME TypeInv, NEW h \in Hosts, HostPath(h), NEW t \in Threads, NEW s \in Stages,
         \A u \in Threads : ~HandOf(u, h), hand[t] = None,
         \/ /\ stageOf[h] = None /\ stageOf'[h] = s
            /\ hand' = [hand EXCEPT ![t] = Message("JOIN_HOST", s, h)]
         \/ /\ stageOf[h] = s /\ stageOf'[h] = None
            /\ hand' = [hand EXCEPT ![t] = Message("LEAVE_HOST", s, h)],
         UNCHANGED <<queue, info>>
  PROVE  HostPath(h)' /\ \A u \in Threads : HandOf(u, h)' <=> u = t
<1>1. PICK at \in [0 .. Len(queue) -> Stages \cup {None}] : Path(h, at) /\ WillLeave(h, at)
  BY DEF HostPath
<1>2. \A u \in Threads \ {t} : hand'[u] = hand[u]
  BY DEF TypeInv
<1>3. hand'[t] \in {Message("JOIN_HOST", s, h), Message("LEAVE_HOST", s, h)}
  BY DEF TypeInv
<1>4. hand'[t] # None /\ hand'[t].key = h /\ hand'[t].stage = s
  BY <1>3, KindsDiffer DEF Message, AnyMsg, HostMsg
<1>5. \A u \in Threads : HandOf(u, h)' <=> u = t
  BY <1>2, <1>4 DEF HandOf
<1>6. at[Len(queue)] = stageOf[h]
  BY <1>1 DEF Path
<1>7. \A r \in Stages, u \in Threads : hand[u] # Message("LEAVE_HOST", r, h)
  <2> SUFFICES ASSUME NEW r \in Stages, NEW u \in Threads, hand[u] = Message("LEAVE_HOST", r, h)
               PROVE  FALSE
    OBVIOUS
  <2>1. HandOf(u, h)  BY KindsDiffer DEF HandOf, Message, AnyMsg, TypeInv, HostMsg, ZoneMsg
  <2> QED  BY <2>1
<1>8. UNCHANGED HasHost(h)
  BY DEF HasHost
<1>9. CASE /\ stageOf[h] = None /\ stageOf'[h] = s
           /\ hand' = [hand EXCEPT ![t] = Message("JOIN_HOST", s, h)]
  <2>1. hand'[t].kind = "JOIN_HOST"
    BY <1>9 DEF TypeInv, Message
  <2>2. Path(h, at)'
    BY <1>1, <1>4, <1>5, <1>6, <1>8, <1>9, <2>1 DEF Path
  <2>3. WillLeave(h, at)'
    BY <1>1, <1>7, <1>9 DEF WillLeave
  <2> QED  BY <1>1, <1>5, <2>2, <2>3 DEF HostPath
<1>10. CASE /\ stageOf[h] = s /\ stageOf'[h] = None
            /\ hand' = [hand EXCEPT ![t] = Message("LEAVE_HOST", s, h)]
  <2>1. hand'[t].kind = "LEAVE_HOST" /\ hand'[t] = Message("LEAVE_HOST", s, h)
    BY <1>10 DEF TypeInv, Message
  <2>2. Path(h, at)'
    BY <1>1, <1>4, <1>5, <1>6, <1>8, <1>10, <2>1 DEF Path
  <2>3. WillLeave(h, at)'
    BY <1>1, <1>7, <1>10, <2>1 DEF WillLeave
  <2> QED  BY <1>1, <1>5, <2>2, <2>3 DEF HostPath
<1> QED  BY <1>9, <1>10

(* The message at hand is the last step of the path. *)
LEMMA RequestPushed ==
  ASSUME TypeInv, NEW h \in Hosts, HostPath(h), NEW t \in Threads,
         HandOf(t, h), \A u \in Threads : HandOf(u, h) => u = t,
         Pushes(hand[t]), hand' = [hand EXCEPT ![t] = None], UNCHANGED <<stageOf, info>>
  PROVE  HostPath(h)' /\ \A u \in Threads : ~HandOf(u, h)'
<1>1. PICK at \in [0 .. Len(queue) -> Stages \cup {None}] : Path(h, at) /\ WillLeave(h, at)
  BY DEF HostPath
<1>2. PICK m \in AnyMsg : m = hand[t] /\ m \in HostMsg /\ m.key = h /\ m.stage \in Stages
                          /\ (m.kind = "JOIN_HOST" \/ m = Message("LEAVE_HOST", m.stage, h))
  <2>1. hand[t] \in HostMsg  BY KindsDiffer DEF HandOf, TypeInv
  <2>2. hand[t].kind = "JOIN_HOST" \/ hand[t] = Message("LEAVE_HOST", hand[t].stage, h)
    BY <2>1 DEF HostMsg, Message, HandOf
  <2> QED  BY <2>1, <2>2, KindsDiffer DEF HandOf, AnyMsg
<1>3. PICK n \in Nat : /\ n = Len(queue) /\ Len(queue') = n + 1 /\ queue'[n + 1] = m
                       /\ \A i \in 1 .. n : queue'[i] = queue[i]
  BY <1>2, PushMoves
<1>4. PICK to \in [0 .. n + 1 -> Stages \cup {None}] :
        to[n + 1] = stageOf[h] /\ \A i \in 0 .. n : to[i] = at[i]
  <2> DEFINE to == [i \in 0 .. n + 1 |-> IF i = n + 1 THEN stageOf[h] ELSE at[i]]
  <2>1. to \in [0 .. n + 1 -> Stages \cup {None}] /\ to[n + 1] = stageOf[h]
        /\ \A i \in 0 .. n : to[i] = at[i]
    BY <1>1, <1>3 DEF TypeInv
  <2> HIDE DEF to
  <2> QED  BY <2>1
<1>5. IF m.kind = "JOIN_HOST" THEN at[n] = None /\ stageOf[h] = m.stage
      ELSE at[n] = m.stage /\ stageOf[h] = None
  BY <1>1, <1>2, <1>3 DEF Path
<1>6. hand'[t] = None /\ \A u \in Threads \ {t} : hand'[u] = hand[u]
  BY DEF TypeInv
<1>7. \A u \in Threads : ~HandOf(u, h)'
  BY <1>6 DEF HandOf
<1>8. Path(h, to)'
  <2>1. (HasHost(h) \subseteq {to[0]})'
    BY <1>1, <1>3, <1>4 DEF Path, HasHost
  <2>2. (\A i \in 1 .. Len(queue) :
           IF queue[i].key # h THEN to[i] = to[i - 1]
           ELSE IF queue[i].kind = "JOIN_HOST"
           THEN to[i - 1] = None /\ to[i] = queue[i].stage
           ELSE to[i - 1] = queue[i].stage /\ to[i] = None)'
    <3>1. ASSUME NEW i \in 1 .. n
          PROVE  i \in 0 .. n /\ i - 1 \in 0 .. n /\ queue'[i] = queue[i]
      BY <1>3
    <3>2. ASSUME NEW i \in 1 .. n
          PROVE IF queue'[i].key # h THEN to[i] = to[i - 1]
                ELSE IF queue'[i].kind = "JOIN_HOST"
                THEN to[i - 1] = None /\ to[i] = queue'[i].stage
                ELSE to[i - 1] = queue'[i].stage /\ to[i] = None
      BY <1>1, <1>3, <1>4, <3>1 DEF Path
    <3>3. to[n + 1 - 1] = at[n]
      BY <1>3, <1>4
    <3> QED  BY <1>2, <1>3, <1>4, <1>5, <3>2, <3>3
  <2>3. (to \in [0 .. Len(queue) -> Stages \cup {None}])'
    BY <1>3, <1>4
  <2> QED  BY <1>3, <1>4, <1>7, <2>1, <2>2, <2>3 DEF Path
<1>9. WillLeave(h, to)'
  <2> SUFFICES ASSUME NEW i \in 0 .. n + 1, to[i] # None
               PROVE  \/ stageOf[h] = to[i]
                      \/ \E j \in 1 .. n + 1 : i < j /\ queue'[j] = Message("LEAVE_HOST", to[i], h)
    BY <1>3 DEF WillLeave
  <2>1. CASE i = n + 1
    BY <1>4, <2>1
  <2>2. CASE i \in 0 .. n
    <3>1. to[i] = at[i] /\ at[i] \in Stages
      BY <1>1, <1>3, <1>4, <2>2
    <3>2. CASE \E j \in 1 .. n : i < j /\ queue[j] = Message("LEAVE_HOST", at[i], h)
      BY <1>3, <3>1, <3>2
    <3>3. CASE \E u \in Threads : hand[u] = Message("LEAVE_HOST", at[i], h)
      <4>1. PICK u \in Threads : hand[u] = Message("LEAVE_HOST", at[i], h)  BY <3>3
      <4>2. HandOf(u, h)
        BY <3>1, <4>1, KindsDiffer DEF HandOf, Message, AnyMsg, TypeInv, HostMsg, ZoneMsg
      <4>3. queue'[n + 1] = Message("LEAVE_HOST", to[i], h)
        BY <1>2, <1>3, <3>1, <4>1, <4>2
      <4> QED  BY <1>3, <2>2, <4>3
    <3> QED  BY <1>1, <1>3, <2>2, <3>1, <3>2, <3>3 DEF WillLeave
  <2> QED  BY <1>3, <2>1, <2>2
<1> QED  BY <1>3, <1>4, <1>7, <1>8, <1>9 DEF HostPath

(* The first message is the first step of the path. *)
LEMMA PathShrinks ==
  ASSUME TypeInv, NEW h \in Hosts, HostPath(h), HandsKeep(h), Pops,
         HostEffect(queue[1], h), UNCHANGED <<stageOf, hand>>
  PROVE  HostPath(h)'
<1>1. PICK at \in [0 .. Len(queue) -> Stages \cup {None}] : Path(h, at) /\ WillLeave(h, at)
  BY DEF HostPath
<1>2. PICK n \in Nat : /\ Len(queue) = n + 1 /\ Len(queue') = n
                       /\ \A i \in 1 .. n : queue'[i] = queue[i + 1]
  <2>1. Len(queue) - 1 \in Nat /\ Len(queue) = (Len(queue) - 1) + 1  BY PopMoves
  <2> QED  BY <2>1, PopMoves
<1>3. PICK to \in [0 .. n -> Stages \cup {None}] : \A i \in 0 .. n : to[i] = at[i + 1]
  <2> DEFINE to == [i \in 0 .. n |-> at[i + 1]]
  <2>1. to \in [0 .. n -> Stages \cup {None}] /\ \A i \in 0 .. n : to[i] = at[i + 1]
    BY <1>1, <1>2
  <2> HIDE DEF to
  <2> QED  BY <2>1
<1>4. (HasHost(h) \subseteq {to[0]})'
  <2> DEFINE m == queue[1]
  <2>1. m \in AnyMsg  BY PopMoves
  <2>2. 1 \in 1 .. n + 1 /\ 0 \in 0 .. n /\ to[0] = at[1] /\ 1 - 1 = 0
    BY <1>2, <1>3
  <2>3. IF m.key # h THEN at[1] = at[0]
        ELSE IF m.kind = "JOIN_HOST" THEN at[0] = None /\ at[1] = m.stage
        ELSE at[0] = m.stage /\ at[1] = None
    BY <1>1, <1>2, <2>2 DEF Path
  <2>4. HasHost(h) \subseteq {at[0]} /\ None \notin HasHost(h)
    BY <1>1, KindsDiffer DEF Path, HasHost, TypeInv
  <2>5. m.key = h => m.kind \in {"JOIN_HOST", "LEAVE_HOST"}
    BY <2>1, KindsDiffer DEF AnyMsg
  <2> HIDE DEF m
  <2>6. HasHost(h)' \subseteq {at[1]}
    <3>1. CASE m.key # h
      BY <2>3, <2>4, <3>1 DEF HostEffect, m
    <3>2. CASE m.key = h /\ m.kind = "JOIN_HOST"
      BY <2>3, <2>4, <3>2 DEF HostEffect, m
    <3>3. CASE m.key = h /\ m.kind = "LEAVE_HOST"
      BY <2>3, <2>4, <3>3 DEF HostEffect, m
    <3> QED  BY <2>5, <3>1, <3>2, <3>3
  <2> QED  BY <2>2, <2>6
<1>5. Path(h, to)'
  <2>1. ASSUME NEW i \in 1 .. n
        PROVE  /\ queue'[i] = queue[i + 1] /\ to[i] = at[i + 1] /\ to[i - 1] = at[i]
               /\ i + 1 \in 1 .. n + 1 /\ i + 1 - 1 = i
    BY <1>2, <1>3
  <2>2. (\A i \in 1 .. Len(queue) :
           IF queue[i].key # h THEN to[i] = to[i - 1]
           ELSE IF queue[i].kind = "JOIN_HOST"
           THEN to[i - 1] = None /\ to[i] = queue[i].stage
           ELSE to[i - 1] = queue[i].stage /\ to[i] = None)'
    <3>1. ASSUME NEW i \in 1 .. n
          PROVE IF queue'[i].key # h THEN to[i] = to[i - 1]
                ELSE IF queue'[i].kind = "JOIN_HOST"
                THEN to[i - 1] = None /\ to[i] = queue'[i].stage
                ELSE to[i - 1] = queue'[i].stage /\ to[i] = None
      BY <1>1, <1>2, <2>1 DEF Path
    <3> QED  BY <1>2, <3>1
  <2>3. to[n] = at[Len(queue)] /\ (to \in [0 .. Len(queue) -> Stages \cup {None}])'
    BY <1>2, <1>3
  <2> QED  BY <1>1, <1>2, <1>4, <2>2, <2>3 DEF Path, HandOf
<1>6. WillLeave(h, to)'
  <2> SUFFICES ASSUME NEW i \in 0 .. n, to[i] # None
               PROVE  \/ stageOf[h] = to[i]
                      \/ \E j \in 1 .. n : i < j /\ queue'[j] = Message("LEAVE_HOST", to[i], h)
                      \/ \E t \in Threads : hand[t] = Message("LEAVE_HOST", to[i], h)
    BY <1>2 DEF WillLeave
  <2>1. i + 1 \in 0 .. n + 1 /\ to[i] = at[i + 1]
    BY <1>2, <1>3
  <2>2. ASSUME NEW j \in 1 .. n + 1, i + 1 < j, queue[j] = Message("LEAVE_HOST", at[i + 1], h)
        PROVE  \E k \in 1 .. n : i < k /\ queue'[k] = Message("LEAVE_HOST", to[i], h)
    <3>1. j - 1 \in 1 .. n /\ i < j - 1 /\ j - 1 + 1 = j  BY <1>2, <2>2
    <3> QED  BY <1>2, <2>1, <2>2, <3>1
  <2> QED  BY <1>1, <1>2, <2>1, <2>2 DEF WillLeave
<1> QED  BY <1>2, <1>3, <1>5, <1>6 DEF HostPath
-----------------------------------------------------------------------------
(* Steps that touch no host, and steps that touch one. *)
LEMMA NoHostMoves ==
  ASSUME TypeInv, HostInv, UNCHANGED <<queue, stageOf, hand, info>>
  PROVE  HostInv'
<1> SUFFICES ASSUME NEW h \in Hosts PROVE OneHand(h)' /\ HostPath(h)'
  BY DEF HostInv
<1>1. OneHand(h) /\ HostPath(h)  BY DEF HostInv
<1>2. HandsKeep(h)  BY DEF HandsKeep, HandOf
<1>3. OneHand(h)'  BY <1>1 DEF OneHand, HandOf
<1> QED  BY <1>1, <1>2, <1>3, SamePath

LEMMA ClientMessagePushed ==
  ASSUME TypeInv, HostInv, NEW m \in ClientMsg, Pushes(m), UNCHANGED <<stageOf, hand, info>>
  PROVE  HostInv' /\ queue' \in Seq(HostMsg \cup ZoneMsg \cup ClientMsg)
<1>1. m \in AnyMsg  BY DEF AnyMsg
<1>2. queue' \in Seq(HostMsg \cup ZoneMsg \cup ClientMsg)  BY <1>1, PushMoves DEF AnyMsg
<1> SUFFICES ASSUME NEW h \in Hosts PROVE OneHand(h)' /\ HostPath(h)'
  BY <1>2 DEF HostInv
<1>3. OneHand(h) /\ HostPath(h)  BY DEF HostInv
<1>4. HandsKeep(h)  BY DEF HandsKeep, HandOf
<1>5. OneHand(h)'  BY <1>3 DEF OneHand, HandOf
<1>6. m.key # h  BY KindsDiffer
<1> QED  BY <1>1, <1>3, <1>4, <1>5, <1>6, PathGrows

LEMMA InitIInv == Init => IInv
<1> SUFFICES ASSUME Init PROVE IInv
  OBVIOUS
<1>1. TypeInv
  BY DEF Init, TypeInv
<1>2. ConnInv
  BY DEF Init, ConnInv, ResourceTypes
<1>3. ClientInv
  BY DEF Init, ClientInv, PlaceInv, GoneClientWillBeCleared, HasClt, Assigns, Leaves
<1>4. ASSUME NEW h \in Hosts PROVE OneHand(h) /\ HostPath(h)
  <2>1. \A t \in Threads : ~HandOf(t, h)  BY DEF Init, HandOf
  <2>2. Len(queue) = 0 /\ stageOf[h] = None /\ HasHost(h) = {}
    BY DEF Init, HasHost
  <2> DEFINE at == [i \in 0 .. 0 |-> None]
  <2>3. at \in [0 .. Len(queue) -> Stages \cup {None}] /\ at[0] = None
    BY <2>2
  <2> HIDE DEF at
  <2>4. 1 .. 0 = {} /\ 0 .. 0 = {0}  OBVIOUS
  <2>5. Path(h, at)  BY <2>1, <2>2, <2>3, <2>4 DEF Path
  <2>6. WillLeave(h, at)  BY <2>2, <2>3, <2>4 DEF WillLeave
  <2> QED  BY <2>1, <2>3, <2>5, <2>6 DEF OneHand, HostPath
<1> QED  BY <1>1, <1>2, <1>3, <1>4 DEF IInv, HostInv

LEMMA PostZoneKeeps ==
  ASSUME IInv, NEW t \in Threads, NEW s \in Stages, PostZone(t, s)
  PROVE  IInv'
<1>1. PICK m \in ZoneMsg : Build(t, m) /\ UNCHANGED stageOf
  BY DEF PostZone, ZoneMsg
<1>2. /\ hand[t] = None /\ hand' = [hand EXCEPT ![t] = m]
      /\ UNCHANGED <<conns, gone, resources, m_Index, hostable, stageOf, queue, info, repeat>>
  BY <1>1 DEF Build, connVars
<1>3. TypeInv'  BY <1>2 DEF IInv, TypeInv
<1>4. ConnInv'  BY <1>2 DEF IInv, ConnInv
<1>5. ClientInv'  BY <1>2, NothingMoves DEF IInv, Known
<1>6. ASSUME NEW h \in Hosts PROVE OneHand(h)' /\ HostPath(h)'
  <2>1. m.key # h  BY KindsDiffer
  <2>2. HandsKeep(h)  BY <1>2, <2>1 DEF HandsKeep, HandOf, IInv, TypeInv
  <2>3. OneHand(h) /\ HostPath(h)  BY DEF IInv, HostInv
  <2>4. OneHand(h)'  BY <2>2, <2>3 DEF OneHand, HandsKeep
  <2> QED  BY <1>2, <2>2, <2>3, <2>4, SamePath DEF IInv
<1> QED  BY <1>3, <1>4, <1>5, <1>6 DEF IInv, HostInv

(* PostJoin and PostLeave. *)
LEMMA PostHostKeeps ==
  ASSUME IInv, NEW t \in Threads, NEW s \in Stages, NEW h \in Hosts,
         NEW m \in HostMsg, m.key = h, Build(t, m), HandsOff(h),
         \/ /\ stageOf[h] = None /\ stageOf' = [stageOf EXCEPT ![h] = s]
            /\ m = Message("JOIN_HOST", s, h)
         \/ /\ stageOf[h] = s /\ stageOf' = [stageOf EXCEPT ![h] = None]
            /\ m = Message("LEAVE_HOST", s, h)
  PROVE  IInv'
<1>1. /\ hand[t] = None /\ hand' = [hand EXCEPT ![t] = m]
      /\ UNCHANGED <<conns, gone, resources, m_Index, hostable, queue, info, repeat>>
  BY DEF Build, connVars
<1>2. stageOf' \in [Hosts -> Stages \cup {None}] /\ \A g \in Hosts \ {h} : stageOf'[g] = stageOf[g]
  BY DEF IInv, TypeInv
<1>3. TypeInv'  BY <1>1, <1>2 DEF IInv, TypeInv
<1>4. ConnInv'  BY <1>1 DEF IInv, ConnInv
<1>5. ClientInv'  BY <1>1, NothingMoves DEF IInv, Known
<1>6. \A u \in Threads : ~HandOf(u, h)  BY DEF HandsOff, HandOf
<1>7. OneHand(h)' /\ HostPath(h)'
  <2>1. HostPath(h)  BY DEF IInv, HostInv
  <2>2. \/ /\ stageOf[h] = None /\ stageOf'[h] = s
           /\ hand' = [hand EXCEPT ![t] = Message("JOIN_HOST", s, h)]
        \/ /\ stageOf[h] = s /\ stageOf'[h] = None
           /\ hand' = [hand EXCEPT ![t] = Message("LEAVE_HOST", s, h)]
    BY <1>1 DEF IInv, TypeInv
  <2>3. HostPath(h)' /\ \A u \in Threads : HandOf(u, h)' <=> u = t
    BY <1>1, <1>6, <2>1, <2>2, RequestPosted DEF IInv
  <2> QED  BY <2>3 DEF OneHand
<1>8. ASSUME NEW g \in Hosts, g # h PROVE OneHand(g)' /\ HostPath(g)'
  <2>1. HandsKeep(g)  BY <1>1, <1>8 DEF HandsKeep, HandOf, IInv, TypeInv
  <2>2. OneHand(g) /\ HostPath(g)  BY DEF IInv, HostInv
  <2>3. OneHand(g)'  BY <2>1, <2>2 DEF OneHand, HandsKeep
  <2> QED  BY <1>1, <1>2, <1>8, <2>1, <2>2, <2>3, SamePath DEF IInv
<1> QED  BY <1>3, <1>4, <1>5, <1>7, <1>8 DEF IInv, HostInv

LEMMA PushKeeps ==
  ASSUME IInv, NEW t \in Threads, Push(t)
  PROVE  IInv'
<1>1. PICK m \in HostMsg \cup ZoneMsg : m = hand[t]
  BY DEF Push, IInv, TypeInv
<1>2. /\ Pushes(m) /\ hand' = [hand EXCEPT ![t] = None]
      /\ UNCHANGED <<conns, gone, resources, m_Index, hostable, stageOf, info, repeat>>
  BY <1>1 DEF Push, push_msg, Pushes, connVars
<1>3. m \in AnyMsg  BY DEF AnyMsg
<1>4. TypeInv'
  <2>1. queue' \in Seq(HostMsg \cup ZoneMsg \cup ClientMsg)
    BY <1>2, <1>3, PushMoves DEF IInv, AnyMsg
  <2> QED  BY <1>2, <2>1 DEF IInv, TypeInv
<1>5. ConnInv'  BY <1>2 DEF IInv, ConnInv
<1>6. ClientInv'  BY <1>2, HostMessagePushed DEF IInv
<1>7. ASSUME NEW h \in Hosts PROVE OneHand(h)' /\ HostPath(h)'
  <2>1. OneHand(h) /\ HostPath(h)  BY DEF IInv, HostInv
  <2>2. CASE m.key = h
    <3>1. HandOf(t, h)  BY <1>1, <1>3, <2>2, KindsDiffer DEF HandOf
    <3>2. \A u \in Threads : HandOf(u, h) => u = t  BY <2>1, <3>1 DEF OneHand
    <3>3. HostPath(h)' /\ \A u \in Threads : ~HandOf(u, h)'
      BY <1>1, <1>2, <2>1, <3>1, <3>2, RequestPushed DEF IInv
    <3> QED  BY <3>3 DEF OneHand
  <2>3. CASE m.key # h
    <3>1. HandsKeep(h)  BY <1>1, <1>2, <2>3 DEF HandsKeep, HandOf, IInv, TypeInv
    <3>2. OneHand(h)'  BY <2>1, <3>1 DEF OneHand, HandsKeep
    <3> QED  BY <1>2, <1>3, <2>1, <2>3, <3>1, <3>2, PathGrows DEF IInv
  <2> QED  BY <2>2, <2>3
<1> QED  BY <1>4, <1>5, <1>6, <1>7 DEF IInv, HostInv

LEMMA ConnectionDescribedKeeps ==
  ASSUME IInv, NEW k \in Keys, ConnectionDescribed(k)
  PROVE  IInv'
<1>1. /\ k \notin gone /\ conns' = conns \cup {k}
      /\ UNCHANGED <<gone, stageOf, hand, queue, info, repeat>>
  BY DEF ConnectionDescribed
<1>2. /\ m_Index["User"]' = conns' \cap Clients /\ m_Index["Host"]' = conns' \cap Hosts
      /\ m_Index' \in [ResourceTypes -> SUBSET Keys]
      /\ resources' = conns' \cap (Clients \cup Hosts)
      /\ hostable' = hostable \/ (k \in Clients /\ k \notin conns /\ hostable' = hostable \cup {k})
  <2>1. CASE k \in resources
    BY <1>1, <2>1, KeysAssumption
    DEF ConnectionDescribed, CreateResource, IInv, ConnInv, TypeInv
  <2>2. CASE k \notin resources /\ k \in Clients
    <3>1. TypeOf(k) = "User" /\ k \notin conns /\ k \notin Hosts
      BY <2>2, KeysAssumption DEF TypeOf, IInv, ConnInv
    <3>2. /\ resources' = resources \cup {k} /\ hostable' = hostable \cup {k}
          /\ m_Index' = [m_Index EXCEPT !["User"] = @ \cup {k}]
      BY <2>2, <3>1 DEF ConnectionDescribed, CreateResource, Create, EnterAction, AddToIndex,
                         PushHostableClt, ResourceTypes
    <3> QED  BY <1>1, <2>2, <3>1, <3>2 DEF IInv, ConnInv, TypeInv, ResourceTypes
  <2>3. CASE k \notin resources /\ k \in Hosts
    <3>1. TypeOf(k) = "Host" /\ k \notin Clients
      BY <2>3, KeysAssumption DEF TypeOf
    <3>2. /\ resources' = resources \cup {k} /\ hostable' = hostable
          /\ m_Index' = [m_Index EXCEPT !["Host"] = @ \cup {k}]
      BY <2>3, <3>1 DEF ConnectionDescribed, CreateResource, Create, EnterAction, AddToIndex,
                         ResourceTypes
    <3> QED  BY <1>1, <2>3, <3>1, <3>2 DEF IInv, ConnInv, TypeInv, ResourceTypes
  <2>4. CASE k \notin resources /\ k \notin Clients \cup Hosts
    <3>1. UNCHANGED <<resources, m_Index, hostable>>
      BY <2>4 DEF ConnectionDescribed, CreateResource, Create, TypeOf, ResourceTypes
    <3> QED  BY <1>1, <2>4, <3>1 DEF IInv, ConnInv, TypeInv
  <2> QED  BY <2>1, <2>2, <2>3, <2>4
<1>3. TypeInv'  BY <1>1, <1>2 DEF IInv, TypeInv
<1>4. ConnInv'  BY <1>1, <1>2 DEF IInv, ConnInv
<1>5. ClientInv'
  <2>1. \A c \in hostable' : c \in hostable \/ (c \notin Known /\ c \in Known')
    BY <1>1, <1>2 DEF Known
  <2> QED  BY <1>1, <2>1, NothingMoves DEF IInv, Known
<1>6. HostInv'  BY <1>1, NoHostMoves DEF IInv
<1> QED  BY <1>3, <1>4, <1>5, <1>6 DEF IInv

LEMMA ConnectionDisconnectedKeeps ==
  ASSUME IInv, NEW k \in Keys, ConnectionDisconnected(k)
  PROVE  IInv'
<1>1. /\ k \in conns /\ conns' = conns \ {k} /\ gone' = gone \cup {k}
      /\ UNCHANGED <<hostable, stageOf, hand, info, repeat>>
  BY DEF ConnectionDisconnected
<1>2. /\ m_Index["User"]' = conns' \cap Clients /\ m_Index["Host"]' = conns' \cap Hosts
      /\ m_Index' \in [ResourceTypes -> SUBSET Keys]
      /\ resources' = conns' \cap (Clients \cup Hosts)
      /\ k \in Clients => Pushes(Message("LEAVE_CLIENT", None, k))
      /\ k \notin Clients => queue' = queue
  <2>1. CASE k \in Clients
    <3>1. TypeOf(k) = "User" /\ k \in resources /\ k \notin Hosts
      BY <1>1, <2>1, KeysAssumption DEF TypeOf, IInv, ConnInv
    <3>2. /\ resources' = resources \ {k} /\ Pushes(Message("LEAVE_CLIENT", None, k))
          /\ m_Index' = [m_Index EXCEPT !["User"] = @ \ {k}]
      BY <2>1, <3>1 DEF ConnectionDisconnected, RemoveResource, LeaveAction, RemoveFromIndex,
                         push_msg, Pushes
    <3> QED  BY <1>1, <2>1, <3>1, <3>2 DEF IInv, ConnInv, TypeInv, ResourceTypes
  <2>2. CASE k \in Hosts
    <3>1. TypeOf(k) = "Host" /\ k \in resources /\ k \notin Clients
      BY <1>1, <2>2, KeysAssumption DEF TypeOf, IInv, ConnInv
    <3>2. /\ resources' = resources \ {k} /\ queue' = queue
          /\ m_Index' = [m_Index EXCEPT !["Host"] = @ \ {k}]
      BY <2>2, <3>1 DEF ConnectionDisconnected, RemoveResource, LeaveAction, RemoveFromIndex
    <3> QED  BY <1>1, <2>2, <3>1, <3>2 DEF IInv, ConnInv, TypeInv, ResourceTypes
  <2>3. CASE k \notin Clients \cup Hosts
    <3>1. k \notin resources  BY <2>3 DEF IInv, ConnInv
    <3>2. UNCHANGED <<resources, m_Index, queue>>
      BY <3>1 DEF ConnectionDisconnected, RemoveResource
    <3> QED  BY <1>1, <2>3, <3>2 DEF IInv, ConnInv, TypeInv
  <2> QED  BY <2>1, <2>2, <2>3
<1>3. ConnInv'  BY <1>1, <1>2 DEF IInv, ConnInv
<1>4. CASE k \in Clients
  <2>1. Message("LEAVE_CLIENT", None, k) \in ClientMsg  BY <1>4 DEF ClientMsg
  <2>2. HostInv' /\ queue' \in Seq(HostMsg \cup ZoneMsg \cup ClientMsg)
    BY <1>1, <1>2, <1>4, <2>1, ClientMessagePushed DEF IInv
  <2>3. ClientInv'  BY <1>1, <1>2, <1>4, ClientGoes DEF IInv
  <2>4. TypeInv'  BY <1>1, <1>2, <2>2 DEF IInv, TypeInv
  <2> QED  BY <1>3, <2>2, <2>3, <2>4 DEF IInv
<1>5. CASE k \notin Clients
  <2>1. HostInv'  BY <1>1, <1>2, <1>5, NoHostMoves DEF IInv
  <2>2. (gone \cap Clients)' = gone \cap Clients  BY <1>1, <1>5
  <2>3. ClientInv'  BY <1>1, <1>2, <1>5, <2>2, NothingMoves DEF IInv, Known
  <2>4. TypeInv'  BY <1>1, <1>2, <1>5 DEF IInv, TypeInv
  <2> QED  BY <1>3, <2>1, <2>3, <2>4 DEF IInv
<1> QED  BY <1>4, <1>5

LEMMA AllocFromUserKeeps ==
  ASSUME IInv, NEW s \in Stages, NEW c \in Clients, AllocFromUser(s, c)
  PROVE  IInv'
<1>1. /\ c \in hostable \cap conns /\ hostable' = hostable \ {c}
      /\ Pushes(Message("ASSIGN_CLT_HOST", s, c))
      /\ UNCHANGED <<conns, gone, resources, m_Index, stageOf, hand, info, repeat>>
  BY DEF AllocFromUser, push_msg, Pushes, connVars
<1>2. Message("ASSIGN_CLT_HOST", s, c) \in ClientMsg  BY DEF ClientMsg
<1>3. HostInv' /\ queue' \in Seq(HostMsg \cup ZoneMsg \cup ClientMsg)
  BY <1>1, <1>2, ClientMessagePushed DEF IInv
<1>4. ClientInv'  BY <1>1, ClientAllocated DEF IInv
<1>5. TypeInv'  BY <1>1, <1>3 DEF IInv, TypeInv
<1>6. ConnInv'  BY <1>1 DEF IInv, ConnInv
<1> QED  BY <1>3, <1>4, <1>5, <1>6 DEF IInv

LEMMA UpdateKeeps ==
  ASSUME IInv, Update
  PROVE  IInv'
<1>1. CASE UpdateBegin \/ UpdateBreak
  <2>1. UNCHANGED <<conns, gone, resources, m_Index, hostable, stageOf, hand, queue, info>>
    BY <1>1 DEF UpdateBegin, UpdateBreak, connVars
  <2>2. repeat' \in Nat  BY <1>1, RepeatAssumption DEF UpdateBegin, UpdateBreak
  <2>3. TypeInv'  BY <2>1, <2>2 DEF IInv, TypeInv
  <2>4. ConnInv'  BY <2>1 DEF IInv, ConnInv
  <2>5. ClientInv'  BY <2>1, NothingMoves DEF IInv, Known
  <2>6. HostInv'  BY <2>1, NoHostMoves DEF IInv
  <2> QED  BY <2>3, <2>4, <2>5, <2>6 DEF IInv
<1>2. CASE UpdateStep
  <2>1. /\ Pops /\ Handle(Head(queue)) /\ repeat > 0 /\ repeat' = repeat - 1
        /\ UNCHANGED <<conns, gone, resources, m_Index, stageOf, hand>>
    BY <1>2 DEF UpdateStep, Pops, connVars
  <2>2. Head(queue) = queue[1] /\ queue[1] \in AnyMsg /\ queue' \in Seq(AnyMsg)
    BY <2>1, PopMoves DEF IInv
  <2>3. HandleEffect(queue[1])
    BY <2>1, <2>2, HandlingHasEffect DEF IInv, ClientInv
  <2>4. TypeInv'
    BY <2>1, <2>2, <2>3 DEF IInv, TypeInv, HandleEffect, InfoType, AnyMsg
  <2>5. ConnInv'  BY <2>1 DEF IInv, ConnInv
  <2>6. ClientInv'  BY <2>1, <2>3, MessageHandled DEF IInv
  <2>7. ASSUME NEW h \in Hosts PROVE OneHand(h)' /\ HostPath(h)'
    <3>1. OneHand(h) /\ HostPath(h)  BY DEF IInv, HostInv
    <3>2. HandsKeep(h) /\ OneHand(h)'  BY <2>1, <3>1 DEF HandsKeep, HandOf, OneHand
    <3>3. HostEffect(queue[1], h)  BY <2>3 DEF HandleEffect
    <3> QED  BY <2>1, <3>1, <3>2, <3>3, PathShrinks DEF IInv
  <2> QED  BY <2>4, <2>5, <2>6, <2>7 DEF IInv, HostInv
<1> QED  BY <1>1, <1>2 DEF Update

LEMMA NextIInv == IInv /\ [Next]_vars => IInv'
<1> SUFFICES ASSUME IInv, [Next]_vars PROVE IInv'
  OBVIOUS
<1>1. ASSUME NEW t \in Threads, NEW s \in Stages, PostZone(t, s) PROVE IInv'
  BY <1>1, PostZoneKeeps
<1>2. ASSUME NEW t \in Threads, NEW s \in Stages, NEW h \in Hosts, PostJoin(t, s, h) PROVE IInv'
  <2>1. Message("JOIN_HOST", s, h) \in HostMsg /\ Message("JOIN_HOST", s, h).key = h
    BY DEF HostMsg, Message
  <2> QED  BY <1>2, <2>1, PostHostKeeps DEF PostJoin
<1>3. ASSUME NEW t \in Threads, NEW h \in Hosts, PostLeave(t, h) PROVE IInv'
  <2>1. stageOf[h] \in Stages  BY <1>3 DEF PostLeave, IInv, TypeInv
  <2>2. Message("LEAVE_HOST", stageOf[h], h) \in HostMsg
        /\ Message("LEAVE_HOST", stageOf[h], h).key = h
    BY <2>1 DEF HostMsg, Message
  <2> QED  BY <1>3, <2>1, <2>2, PostHostKeeps DEF PostLeave
<1>4. ASSUME NEW t \in Threads, Push(t) PROVE IInv'
  BY <1>4, PushKeeps
<1>5. CASE Callback
  BY <1>5, ConnectionDescribedKeeps, ConnectionDisconnectedKeeps, AllocFromUserKeeps DEF Callback
<1>6. CASE Update
  BY <1>6, UpdateKeeps
<1>7. CASE UNCHANGED vars
  <2>1. UNCHANGED <<conns, gone, resources, m_Index, hostable, stageOf, hand, queue, info, repeat>>
    BY <1>7 DEF vars, connVars
  <2>2. TypeInv' /\ ConnInv'  BY <2>1 DEF IInv, TypeInv, ConnInv
  <2>3. ClientInv'  BY <2>1, NothingMoves DEF IInv, Known
  <2>4. HostInv'  BY <2>1, NoHostMoves DEF IInv
  <2> QED  BY <2>2, <2>3, <2>4 DEF IInv
<1> QED  BY <1>1, <1>2, <1>3, <1>4, <1>5, <1>6, <1>7 DEF Next, Post

(* The invariant holds whatever is posted, lost and handled when. *)
THEOREM InvariantHolds == Spec => []IInv
BY InitIInv, NextIInv, PTL DEF Spec
-----------------------------------------------------------------------------
LEMMA OneOrNone ==
  ASSUME NEW S, \A x, y \in S : x = y
  PROVE  IsFiniteSet(S) /\ Cardinality(S) = IF S = {} THEN 0 ELSE 1
<1>1. CASE S = {}
  BY <1>1, FS_EmptySet
<1>2. CASE S # {}
  <2>1. PICK x \in S : TRUE  BY <1>2
  <2>2. S = {x}  BY <2>1
  <2> QED  BY <1>2, <2>2, FS_Singleton
<1> QED  BY <1>1, <1>2

LEMMA PlacesMeanOne == IInv => ClientInOnePlace
<1> SUFFICES ASSUME IInv, NEW c \in Clients
             PROVE  Cardinality(HasClt(c)) + Cardinality(Assigns(c))
                      + Cardinality({c} \cap hostable) <= 1
  BY DEF ClientInOnePlace
<1>1. \A r, s \in HasClt(c) : r = s  BY DEF IInv, ClientInv, PlaceInv
<1>2. \A i, j \in Assigns(c) : i = j  BY DEF IInv, ClientInv, PlaceInv
<1>3. Cardinality(HasClt(c)) = IF HasClt(c) = {} THEN 0 ELSE 1  BY <1>1, OneOrNone
<1>4. Cardinality(Assigns(c)) = IF Assigns(c) = {} THEN 0 ELSE 1  BY <1>2, OneOrNone
<1>5. Cardinality({c} \cap hostable) = IF c \in hostable THEN 1 ELSE 0
  <2>1. \A x, y \in {c} \cap hostable : x = y  OBVIOUS
  <2> QED  BY <2>1, OneOrNone
<1>6. /\ HasClt(c) # {} => c \notin hostable /\ Assigns(c) = {}
      /\ Assigns(c) # {} => c \notin hostable
  BY DEF IInv, ClientInv, PlaceInv
<1> QED  BY <1>3, <1>4, <1>5, <1>6

LEMMA PathsMeanOne == IInv => HostOfOneStage
<1> SUFFICES ASSUME IInv, NEW h \in Hosts, NEW s \in DOMAIN info, info[s].host = h
             PROVE  /\ HasHost(h) = {s}
                    /\ stageOf[h] = s \/ Pending(Message("LEAVE_HOST", s, h))
  BY DEF HostOfOneStage
<1>1. PICK at \in [0 .. Len(queue) -> Stages \cup {None}] : Path(h, at) /\ WillLeave(h, at)
  BY DEF IInv, HostInv, HostPath
<1>2. s \in HasHost(h) /\ HasHost(h) \subseteq {at[0]}
  BY <1>1 DEF HasHost, Path
<1>3. at[0] = s /\ HasHost(h) = {s}
  BY <1>2
<1>4. queue \in Seq(AnyMsg) /\ s # None
  BY KindsDiffer DEF IInv, TypeInv, AnyMsg
<1>5. Len(queue) \in Nat /\ 0 \in 0 .. Len(queue)  BY <1>4
<1>6. \/ stageOf[h] = s
      \/ \E j \in 1 .. Len(queue) : queue[j] = Message("LEAVE_HOST", s, h)
      \/ \E t \in Threads : hand[t] = Message("LEAVE_HOST", s, h)
  BY <1>1, <1>3, <1>4, <1>5 DEF WillLeave
<1>7. \A j \in 1 .. Len(queue) : queue[j] \in Range(queue)
  BY <1>4 DEF Range
<1> QED  BY <1>3, <1>6, <1>7 DEF Pending

(* A client is never allocated twice and a host hosts one stage, for any   *)
(* connections, stages, posting threads and queue (ASSIGN_CLT_HOST,        *)
(* LEAVE_HOST, push_msg).                                                  *)
THEOREM ResourcesAreInOnePlace == Spec => []ResourceInOnePlace
<1>1. IInv => ResourceInOnePlace
  BY PlacesMeanOne, PathsMeanOne DEF ResourceInOnePlace
<1> QED  BY <1>1, InvariantHolds, PTL

LEMMA IndexIsConnected == IInv => IndexListsConnected
<1> SUFFICES ASSUME IInv PROVE IndexListsConnected
  OBVIOUS
<1>1. {k \in conns : TypeOf(k) = "User"} = conns \cap Clients
  BY DEF TypeOf
<1>2. {k \in conns : TypeOf(k) = "Host"} = conns \cap Hosts
  BY KeysAssumption DEF TypeOf
<1> QED  BY <1>1, <1>2 DEF IInv, ConnInv, IndexListsConnected, ResourceTypes, GetHostCount

(* The loss of a connection is seen at once in the indices, and a message  *)
(* that clears the hosting info is behind every one that names the client  *)
(* (RemoveResource, LeaveAction).                                          *)
THEOREM LossesAreCleared == Spec => []LossIsCleared
<1>1. IInv => LossIsCleared
  BY IndexIsConnected DEF LossIsCleared, IInv, ClientInv
<1> QED  BY <1>1, InvariantHolds, PTL
=============================================================================
