-------------------------------- MODULE Inbox --------------------------------
(***************************************************************************)
(* What webhook_events promises those who process them: an event is stored *)
(* once, by its requestId, and stays where it was put in the order of      *)
(* arrival.                                                                *)
(***************************************************************************)
EXTENDS Naturals, FiniteSets

CONSTANT Events \* events of Nomba, by their requestId

ASSUME InboxAssumption == IsFiniteSet(Events) /\ Events # {}

VARIABLE arrived \* order in which an event was stored, 0 without a committed row

Stored == {e \in Events : arrived[e] > 0}

InboxInit == arrived = [e \in Events |-> 0]

Arrive(e) ==
  /\ e \notin Stored
  /\ arrived' = [arrived EXCEPT ![e] = Cardinality(Stored) + 1]

InboxSpec == InboxInit /\ [][\E e \in Events : Arrive(e)]_arrived
==============================================================================
