------------------------------ MODULE Observer ------------------------------
(***************************************************************************)
(* Subject of ObserverGeneric.cpp: observers are registered for an event   *)
(* and called, one after the other, when it is notified.  An observer may  *)
(* register others while it is called, but for another event: the loop of  *)
(* notify holds iterators into the observers of its own.  One that         *)
(* notifies in its turn is left out.                                       *)
(***************************************************************************)
EXTENDS Integers, Sequences, FiniteSets

CONSTANTS Events, Observers, NULL, MaxRegistered

VARIABLES
  observers_,   \* the observers of the events of the map
  event,        \* the event that is being notified, or NULL
  obs,          \* how many of its observers have been called
  thrown,       \* notify has thrown std::out_of_range
  history,      \* the registrations, in order
  called        \* the observers this notify has called

vars == <<observers_, event, obs, thrown, history, called>>

Init ==
  /\ observers_ = [x \in {} |-> <<>>]
  /\ event = NULL /\ obs = 0 /\ thrown = FALSE
  /\ history = <<>> /\ called = <<>>

MutRegister(e, o) ==
  observers_' = [x \in DOMAIN observers_ \union {e} |-> IF x = e THEN <<o>> ELSE observers_[x]]

(* observers_[event].push_back: the map gets the event if it has it not.   *)
Register(e, o) ==
  observers_' = [x \in DOMAIN observers_ \union {e} |->
                  (IF x \in DOMAIN observers_ THEN observers_[x] ELSE <<>>)
                    \o (IF x = e THEN <<o>> ELSE <<>>)]

registerObserver(e, o) ==
  /\ event # NULL => event # e /\ obs > 0
  /\ Len(history) < MaxRegistered
  /\ Register(e, o)
  /\ history' = Append(history, <<e, o>>)
  /\ UNCHANGED <<event, obs, thrown, called>>

(* at() throws for an event that nobody has registered for.                *)
notify(e) ==
  /\ event = NULL
  /\ IF e \in DOMAIN observers_ THEN event' = e /\ thrown' = FALSE
     ELSE thrown' = TRUE /\ UNCHANGED event
  /\ obs' = 0 /\ called' = <<>>
  /\ UNCHANGED <<observers_, history>>

CallObserver ==
  /\ event # NULL /\ obs < Len(observers_[event])
  /\ obs' = obs + 1
  /\ called' = Append(called, observers_[event][obs + 1])
  /\ UNCHANGED <<observers_, event, thrown, history>>

Return ==
  /\ event # NULL /\ obs = Len(observers_[event])
  /\ event' = NULL
  /\ UNCHANGED <<observers_, obs, thrown, history, called>>

Next ==
  \/ \E e \in Events : notify(e) \/ \E o \in Observers : registerObserver(e, o)
  \/ CallObserver \/ Return

Spec == Init /\ [][Next]_vars
-----------------------------------------------------------------------------
(* The places in history of the registrations for an event.                *)
RegisteredFor(e) == {i \in DOMAIN history : history[i][1] = e}

(* A notify calls the observers registered for its event, each as often    *)
(* and in the order they were, and nobody else.                            *)
ObserversAreCalled ==
  event # NULL =>
    LET due == RegisteredFor(event)
        Turn(i) == Cardinality({j \in due : j <= i})
    IN  /\ Len(observers_[event]) = Cardinality(due)
        /\ \A i \in due : observers_[event][Turn(i)] = history[i][2]
        /\ called = SubSeq(observers_[event], 1, obs)
=============================================================================
