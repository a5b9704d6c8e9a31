---------------------------- MODULE EventDelivery ----------------------------
(* What the transactional outbox promises (docs/adr/0003): an event exists   *)
(* exactly when the transaction that recorded it committed, and every event  *)
(* that exists is handed to the queue, sooner or later.  Outbox implements   *)
(* this specification (Outbox!Promise).                                      *)

CONSTANT Event

VARIABLES
    recorded,   \* events whose transaction committed
    delivered   \* events for which the queue was given a job

vars == <<recorded, delivered>>

Init == recorded = {} /\ delivered = {}

Record(e) ==
    /\ e \notin recorded
    /\ recorded' = recorded \cup {e}
    /\ UNCHANGED delivered

\* A batch at a time; an event may be handed over again.
Deliver(S) ==
    /\ S \subseteq recorded
    /\ delivered' = delivered \cup S
    /\ UNCHANGED recorded

Next == (\E e \in Event : Record(e)) \/ (\E S \in SUBSET Event : Deliver(S))

DeliverNew(e) == e \notin delivered /\ \E S \in SUBSET Event : e \in S /\ Deliver(S)

Spec == Init /\ [][Next]_vars /\ \A e \in Event : WF_vars(DeliverNew(e))
=============================================================================
