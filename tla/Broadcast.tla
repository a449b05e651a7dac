----------------------------- MODULE Broadcast -----------------------------
(***************************************************************************)
(* What the chat room promises: the messages of the room form one log, and *)
(* a member sees, from some message on, every message of the log in order. *)
(* Message k is the k-th that was posted.                                  *)
(***************************************************************************)
EXTENDS Naturals, Sequences

CONSTANTS
  Members,
  History       \* the number of past messages a member may be given on entry

VARIABLES
  posted,       \* the length of the log
  inside,       \* the members of the room
  first,        \* the first message that is meant for a member
  seen          \* the messages each member has seen

vars == <<posted, inside, first, seen>>

Init ==
  /\ posted = 0
  /\ inside = {}
  /\ first = [m \in Members |-> 1]
  /\ seen = [m \in Members |-> <<>>]

(* A message becomes the next of the log.                                  *)
Post ==
  /\ posted' = posted + 1
  /\ UNCHANGED <<inside, first, seen>>

(* A newcomer begins with at most History past messages.                   *)
Enter(m) ==
  /\ m \notin inside
  /\ inside' = inside \cup {m}
  /\ first' = [first EXCEPT ![m] = IF posted <= History THEN 1 ELSE posted - History + 1]
  /\ UNCHANGED <<posted, seen>>

(* Messages are seen one after the other, also those that were on their    *)
(* way to a member that has left.                                          *)
See(m) ==
  /\ first[m] + Len(seen[m]) <= posted
  /\ seen' = [seen EXCEPT ![m] = Append(@, first[m] + Len(@))]
  /\ UNCHANGED <<posted, inside, first>>

Leave(m) ==
  /\ m \in inside
  /\ inside' = inside \ {m}
  /\ UNCHANGED <<posted, first, seen>>

Next == Post \/ \E m \in Members : Enter(m) \/ See(m) \/ Leave(m)

Spec == Init /\ [][Next]_vars
============================================================================
