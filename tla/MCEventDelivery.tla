--------------------------- MODULE MCEventDelivery ---------------------------
(***************************************************************************)
(* An instance of EventDelivery for TLC: e1 is verified, e2 is not.        *)
(***************************************************************************)
EXTENDS EventDelivery, TLC

CONSTANTS e1, e2   \* the members of Events

\* Both events from the start with one disturbance left, or the verified one alone with
\* every disturbance, the other having been dropped before a queue was bound.
Start ==
    /\ \/ /\ outbox = [e \in Events |-> "none"]
          /\ dropped = {}
          /\ disturbed = MaxDisturbances - 1
       \/ /\ outbox = (e1 :> "none" @@ e2 :> "published")
          /\ dropped = {e2}
          /\ disturbed = 0
    /\ relay = [r \in Relays |-> NoTransaction]
    /\ bound = FALSE
    /\ work = [m \in Message |-> 0]
    /\ retry = [m \in Message |-> 0]
    /\ dead = [d \in DeadLetter |-> 0]
    /\ worker = [w \in Workers |-> Idle]
    /\ provenance = {}
    /\ effect = [e \in Events |-> 0]

DeliverySpec == Start /\ [][Next]_vars /\ Fairness
=============================================================================
