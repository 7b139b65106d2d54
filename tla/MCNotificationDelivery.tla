----------------------- MODULE MCNotificationDelivery -----------------------
(* Instances of NotificationDelivery for TLC. *)
EXTENDS NotificationDelivery, TLC

\* channels and instances are told apart only by their rows (no liveness run uses this)
Symmetry == Permutations(Deliveries) \cup Permutations(Workers)
=============================================================================
