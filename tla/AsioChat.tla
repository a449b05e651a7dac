------------------------------ MODULE AsioChat ------------------------------
(***************************************************************************)
(* The chat server: one io_service, run by one thread, calls the handlers  *)
(* of the operations that have completed, one at a time.  A session has at *)
(* most one read and one write under way; what is delivered to it in the   *)
(* meantime waits in write_msgs_.  A second thread stops the io_service.   *)
(***************************************************************************)
EXTENDS Integers, Sequences, FiniteSets, SequencesExt

CONSTANTS
  Sessions,         \* the chat_session objects
  max_recent_msgs,  \* 100 in the code
  max_body_length,  \* 512 in the code
  SizeModulus,      \* size_t is the integers modulo SizeModulus
  Headers,          \* what atoi may return for a header (bound of the model)
  MaxPosts          \* bound of the model on the messages of the room

VARIABLES
  recent_msgs,      \* recent_msgs_; message k is the k-th the room delivered
  posts,            \* the number of messages delivered by the room
  participants,     \* participants_
  fresh,            \* the sessions no connection was accepted for
  reading,          \* the read a session has under way: none, header or body
  write_msgs,       \* write_msgs_ of each session
  writing,          \* the messages a session's async_writes under way carry
  written,          \* history: the messages each session has written
  status            \* the io_service: running, stopped, or returned from run

netVars == <<fresh, status>>
roomVars == <<recent_msgs, posts, participants>>
writeVars == <<write_msgs, writing, written>>
vars == <<netVars, roomVars, reading, writeVars>>

Init ==
  /\ recent_msgs = <<>> /\ posts = 0 /\ participants = {}
  /\ fresh = Sessions
  /\ reading = [s \in Sessions |-> "none"]
  /\ write_msgs = [s \in Sessions |-> <<>>]
  /\ writing = [s \in Sessions |-> <<>>]
  /\ written = [s \in Sessions |-> <<>>]
  /\ status = "running"

Running == status = "running"
-----------------------------------------------------------------------------
(* chat_session::deliver of msgs, one after the other, to each session of  *)
(* some: the queue takes them, and a write begins unless one is under way, *)
(* which the code concludes from the queue; it carries the queue's front.  *)
MutDeliver(some, msgs) ==
  /\ write_msgs' = [s \in Sessions |->
       IF s \in some THEN write_msgs[s] \o msgs ELSE write_msgs[s]]
  /\ writing' = [s \in Sessions |->
       IF s \in some /\ msgs # <<>>
         THEN Append(writing[s], Head(write_msgs[s] \o msgs)) ELSE writing[s]]
  /\ UNCHANGED written

deliver(some, msgs) ==
  /\ write_msgs' = [s \in Sessions |->
       IF s \in some THEN write_msgs[s] \o msgs ELSE write_msgs[s]]
  /\ writing' = [s \in Sessions |->
       IF s \in some /\ write_msgs[s] = <<>> /\ msgs # <<>>
         THEN Append(writing[s], Head(msgs)) ELSE writing[s]]
  /\ UNCHANGED written

MutRecent(msgs) == IF Len(msgs) >= max_recent_msgs THEN Tail(msgs) ELSE msgs

(* chat_room::deliver: keep the message among the recent ones, pass it on. *)
Recent(msgs) == IF Len(msgs) > max_recent_msgs THEN Tail(msgs) ELSE msgs

RoomDeliver ==
  /\ posts' = posts + 1
  /\ recent_msgs' = Recent(Append(recent_msgs, posts'))
  /\ deliver(participants, <<posts'>>)
  /\ UNCHANGED participants

(* chat_room::join and leave.                                              *)
join(s) ==
  /\ participants' = participants \cup {s}
  /\ deliver({s}, recent_msgs)
  /\ UNCHANGED <<recent_msgs, posts>>

leave(s) ==
  /\ participants' = participants \ {s}
  /\ UNCHANGED <<recent_msgs, posts, writeVars>>

(* chat_message::decode_header: the length is unsigned when it is compared.*)
decode_header(header) == header % SizeModulus <= max_body_length

start(s) ==
  /\ join(s)
  /\ reading' = [reading EXCEPT ![s] = "header"]
-----------------------------------------------------------------------------
(* handle_accept: the session is started, or dropped after an error; then  *)
(* start_accept makes another one wait, of which the model has finitely    *)
(* many.                                                                   *)
handle_accept(s, error) ==
  /\ Running
  /\ s \in fresh
  /\ fresh' = fresh \ {s}
  /\ IF error THEN UNCHANGED <<roomVars, reading, writeVars>> ELSE start(s)
  /\ UNCHANGED status

handle_read_header(s, header, error) ==
  /\ Running
  /\ reading[s] = "header"
  /\ IF ~error /\ decode_header(header)
       THEN /\ reading' = [reading EXCEPT ![s] = "body"]
            /\ UNCHANGED <<roomVars, writeVars>>
       ELSE /\ reading' = [reading EXCEPT ![s] = "none"]
            /\ leave(s)
  /\ UNCHANGED netVars

handle_read_body(s, error) ==
  /\ Running
  /\ reading[s] = "body"
  /\ IF ~error
       THEN /\ posts < MaxPosts
            /\ reading' = [reading EXCEPT ![s] = "header"]
            /\ RoomDeliver
       ELSE /\ reading' = [reading EXCEPT ![s] = "none"]
            /\ leave(s)
  /\ UNCHANGED netVars

MutHandleWriteStops(s, error) ==
  /\ Running
  /\ writing[s] # <<>>
  /\ writing' = [writing EXCEPT ![s] = Tail(@)]
  /\ IF ~error
       THEN /\ written' = [written EXCEPT ![s] = Append(@, Head(writing[s]))]
            /\ write_msgs' = [write_msgs EXCEPT ![s] = Tail(@)]
            /\ UNCHANGED roomVars
       ELSE /\ participants' = participants \ {s}
            /\ UNCHANGED <<recent_msgs, posts, write_msgs, written>>
  /\ UNCHANGED <<netVars, reading>>

(* The oldest write is done: its message has left the queue's front, and   *)
(* the next goes out.  A failed write ends the membership, not the reads.  *)
NextWrite(msgs) == IF msgs = <<>> THEN <<>> ELSE <<Head(msgs)>>

handle_write(s, error) ==
  /\ Running
  /\ writing[s] # <<>>
  /\ IF ~error
       THEN /\ written' = [written EXCEPT ![s] = Append(@, Head(writing[s]))]
            /\ write_msgs' = [write_msgs EXCEPT ![s] = Tail(@)]
            /\ writing' = [writing EXCEPT ![s] = Tail(@) \o NextWrite(write_msgs'[s])]
            /\ UNCHANGED roomVars
       ELSE /\ writing' = [writing EXCEPT ![s] = Tail(@)]
            /\ participants' = participants \ {s}
            /\ UNCHANGED <<recent_msgs, posts, write_msgs, written>>
  /\ UNCHANGED <<netVars, reading>>
-----------------------------------------------------------------------------
(* WorkerThread: q stops the io_service; run returns when the handler at   *)
(* hand has.                                                               *)
Quit ==
  /\ status = "running"
  /\ status' = "stopped"
  /\ UNCHANGED <<fresh, roomVars, reading, writeVars>>

RunReturns ==
  /\ status = "stopped"
  /\ status' = "returned"
  /\ UNCHANGED <<fresh, roomVars, reading, writeVars>>

Next ==
  \/ \E s \in Sessions, error \in BOOLEAN :
       \/ handle_accept(s, error)
       \/ \E header \in Headers : handle_read_header(s, header, error)
       \/ handle_read_body(s, error)
       \/ handle_write(s, error)
  \/ Quit
  \/ RunReturns

(* An operation completes in the end, well or with an error, only when the *)
(* peer lets it: writes do, reads need not.                                *)
Fairness ==
  /\ \A s \in Sessions : WF_vars(\E error \in BOOLEAN : handle_write(s, error))
  /\ WF_vars(RunReturns)

Spec == Init /\ [][Next]_vars /\ Fairness
-----------------------------------------------------------------------------
(* The first message that was meant for a session; each session that ever  *)
(* joined got the recent messages, so none means that there were none.     *)
FirstFor(s) ==
  LET all == written[s] \o write_msgs[s] IN IF all = <<>> THEN 1 ELSE Head(all)

Room == INSTANCE Broadcast WITH
  Members <- Sessions, History <- max_recent_msgs, posted <- posts,
  inside <- participants, first <- [s \in Sessions |-> FirstFor(s)],
  seen <- written

(* The room is a broadcast: whatever the order in which reads, writes and  *)
(* errors of the sessions complete, each session writes the room's         *)
(* messages without a gap, in their order and once, from the first recent  *)
(* one when it joined (chat_room::deliver, handle_write).                  *)
ImplementsBroadcast == Room!Spec

(* A member that stays gets every message the room delivers, though the    *)
(* queue is the only record of a write under way (chat_session::deliver).  *)
MemberIsServed ==
  \A s \in Sessions, k \in 1..MaxPosts :
    (s \in participants /\ FirstFor(s) <= k /\ k <= posts)
      ~> (k \in Range(written[s]) \/ s \notin participants \/ ~Running)
============================================================================
