------------------------------ MODULE AuthSock ------------------------------
(***************************************************************************)
(* AuthSock: any thread sends messages, at once when nothing is queued,    *)
(* else through SendBufferQueue, which the network thread flushes whenever *)
(* the socket can be written and clears when it disconnects.               *)
(* A message is the sequence of its bytes <<m, 1>> .. <<m, n>>.            *)
(***************************************************************************)
EXTENDS Integers, Sequences, SequencesExt

CONSTANTS
  Lengths,      \* the lengths of the messages (bound of the model)
  MaxMsgs       \* bound of the model on the calls of SendMsg

VARIABLES
  hSocket,          \* invalid, connecting or connected
  SendBufferQueue,  \* what was allocated for each entry, padded to its length
  iSendBufferOffset,
  flushing,         \* the network thread: idle, about to look at the queue,
                    \* about to use its front, or about to clear it
  calls,            \* the number of calls of SendMsg
  accepted,         \* history: the bytes of the messages that were accepted
  wire,             \* history: the bytes this connection was given
  torn              \* history: the part of a message was sent directly, or
                    \* the queue was cleared with an entry sent in part

vars == <<hSocket, SendBufferQueue, iSendBufferOffset, flushing, calls, accepted, wire, torn>>

Init ==
  /\ hSocket = "invalid"
  /\ SendBufferQueue = <<>> /\ iSendBufferOffset = 0
  /\ flushing = "idle" /\ calls = 0
  /\ accepted = <<>> /\ wire = <<>> /\ torn = FALSE

Message(m, n) == [i \in 1..n |-> <<m, i>>]
Garbage == <<0, 0>>     \* a byte behind the end of an allocation

(* SendFromBuffer: what send makes of n bytes, -1 for SOCKET_ERROR and 0   *)
(* also for WSAEWOULDBLOCK; a stale offset can make n negative.            *)
SendFromBuffer(n) == IF hSocket = "connected" /\ n >= 0 THEN -1..n ELSE {-1}
-----------------------------------------------------------------------------
(* ConnectToServer succeeds, or the caller disconnects.                    *)
ConnectToServer(works) ==
  /\ flushing = "idle" /\ hSocket = "invalid"
  /\ hSocket' = "connecting"
  /\ flushing' = IF works THEN "idle" ELSE "disconnect"
  /\ accepted' = <<>> /\ wire' = <<>>
  /\ UNCHANGED <<SendBufferQueue, iSendBufferOffset, calls, torn>>

(* The connection is made (FD_CONNECT).                                    *)
Connected ==
  /\ flushing = "idle" /\ hSocket = "connecting"
  /\ hSocket' = "connected"
  /\ UNCHANGED <<SendBufferQueue, iSendBufferOffset, flushing, calls, accepted, wire, torn>>

(* Disconnect closes the socket without the lock, then clears the queue    *)
(* under it; the offset into its front stays.                              *)
Disconnect ==
  /\ flushing \in {"idle", "disconnect"} /\ hSocket # "invalid"
  /\ hSocket' = "invalid"
  /\ flushing' = "clear"
  /\ UNCHANGED <<SendBufferQueue, iSendBufferOffset, calls, accepted, wire, torn>>

ClearSendBufferQueue ==
  /\ flushing = "clear"
  /\ SendBufferQueue' = <<>>
  /\ flushing' = "idle"
  /\ torn' = (torn \/ iSendBufferOffset # 0)
  /\ UNCHANGED <<hSocket, iSendBufferOffset, calls, accepted, wire>>
-----------------------------------------------------------------------------
(* SendMsg, under the lock.  After a direct send of k bytes the entry      *)
(* holds the first n - k bytes, and its length is n.                       *)
Queued(msg, k) == [i \in DOMAIN msg |-> IF i <= Len(msg) - k THEN msg[i] ELSE Garbage]

SendMsg(n) ==
  LET msg == Message(calls + 1, n) IN
  /\ calls < MaxMsgs /\ calls' = calls + 1
  /\ \/ /\ SendBufferQueue = <<>>
        /\ \E sent \in SendFromBuffer(n) :
             /\ wire' = wire \o SubSeq(msg, 1, sent)
             /\ accepted' = IF sent = -1 THEN accepted ELSE accepted \o msg
             /\ SendBufferQueue' = IF sent \in {-1, n} THEN <<>> ELSE <<Queued(msg, sent)>>
             /\ torn' = (torn \/ sent \in 1..(n - 1))
     \/ /\ SendBufferQueue # <<>>
        /\ SendBufferQueue' = Append(SendBufferQueue, Queued(msg, 0))
        /\ accepted' = accepted \o msg
        /\ UNCHANGED <<wire, torn>>
  /\ UNCHANGED <<hSocket, iSendBufferOffset, flushing>>

(* SendFromBufferQueue: called at FD_WRITE; the loop looks at the queue    *)
(* before it takes the lock.                                               *)
SendFromBufferQueue ==
  /\ flushing = "idle" /\ hSocket = "connected"
  /\ flushing' = "look"
  /\ UNCHANGED <<hSocket, SendBufferQueue, iSendBufferOffset, calls, accepted, wire, torn>>

Look ==
  /\ flushing = "look"
  /\ flushing' = IF SendBufferQueue = <<>> THEN "idle" ELSE "front"
  /\ UNCHANGED <<hSocket, SendBufferQueue, iSendBufferOffset, calls, accepted, wire, torn>>

MutSendFrontKeepsOffset ==
  LET pSendBuffer == Head(SendBufferQueue)
      iSendSize == Len(pSendBuffer) - iSendBufferOffset IN
  /\ flushing = "front"
  /\ \E sent \in SendFromBuffer(iSendSize) :
       /\ wire' = wire \o SubSeq(pSendBuffer, iSendBufferOffset + 1, iSendBufferOffset + sent)
       /\ \/ /\ sent = iSendSize /\ sent # -1
             /\ SendBufferQueue' = Tail(SendBufferQueue)
             /\ flushing' = "look" /\ UNCHANGED iSendBufferOffset
          \/ /\ sent \in 0..(iSendSize - 1)
             /\ iSendBufferOffset' = iSendBufferOffset + sent
             /\ flushing' = "idle" /\ UNCHANGED SendBufferQueue
          \/ /\ sent = -1
             /\ flushing' = "idle" /\ UNCHANGED <<SendBufferQueue, iSendBufferOffset>>
  /\ UNCHANGED <<hSocket, calls, accepted, torn>>

SendFront ==
  LET pSendBuffer == Head(SendBufferQueue)
      iSendSize == Len(pSendBuffer) - iSendBufferOffset IN
  /\ flushing = "front"
  /\ \E sent \in SendFromBuffer(iSendSize) :
       /\ wire' = wire \o SubSeq(pSendBuffer, iSendBufferOffset + 1, iSendBufferOffset + sent)
       /\ \/ /\ sent = iSendSize /\ sent # -1
             /\ SendBufferQueue' = Tail(SendBufferQueue) /\ iSendBufferOffset' = 0
             /\ flushing' = "look"
          \/ /\ sent \in 0..(iSendSize - 1)
             /\ iSendBufferOffset' = iSendBufferOffset + sent
             /\ flushing' = "idle" /\ UNCHANGED SendBufferQueue
          \/ /\ sent = -1
             /\ flushing' = "idle" /\ UNCHANGED <<SendBufferQueue, iSendBufferOffset>>
  /\ UNCHANGED <<hSocket, calls, accepted, torn>>

Next ==
  \/ \E works \in BOOLEAN : ConnectToServer(works)
  \/ Connected
  \/ Disconnect \/ ClearSendBufferQueue
  \/ \E n \in Lengths : SendMsg(n)
  \/ SendFromBufferQueue \/ Look \/ SendFront

Spec == Init /\ [][Next]_vars
-----------------------------------------------------------------------------
Pending ==
  LET all == FlattenSeq(SendBufferQueue) IN SubSeq(all, iSendBufferOffset + 1, Len(all))

(* The peer is given the bytes of the accepted messages in order, each     *)
(* once, however sends, flushes and failures interleave: what is on the    *)
(* wire and what is queued are together what was accepted.  Two things     *)
(* break that, which the code does not repair: a direct send of a part of  *)
(* a message, and a queue cleared when its front was sent in part          *)
(* (SendMsg, SendFromBufferQueue, ClearSendBufferQueue).                   *)
StreamInOrder ==
  /\ flushing = "front" => SendBufferQueue # <<>>
  /\ ~torn /\ hSocket = "connected" => wire \o Pending = accepted
============================================================================
