--------------------------- MODULE PaymentOutcome ---------------------------
(***************************************************************************)
(* What payment-service promises the producer of a payment, without        *)
(* attempts, workers or crashes: a payment is open, perhaps on its way to  *)
(* being closed, and ends once, with one announcement.  Captured money is  *)
(* either what a payment was settled on or a late success that can only be *)
(* returned, never both and never twice; it becomes a late success only    *)
(* once its payment has ended otherwise.                                   *)
(***************************************************************************)
EXTENDS Integers

CONSTANTS Payments, Txns, None

VARIABLES
    outcome,    \* of each payment
    announced,  \* the outcomes the outbox holds for it, with their number
    booked      \* what each capture was used for: NotBooked, or its payment and use

Outcomes    == {"succeeded", "failed", "cancelled", "expired"}
Unfinished  == {"open", "cancelling", "expiring"}
NotBooked   == [use |-> "none", payment |-> None]

vars == <<outcome, announced, booked>>

TypeOK ==
    /\ outcome \in [Payments -> Outcomes \cup Unfinished]
    /\ announced \in [Payments -> [Outcomes -> Nat]]
    /\ booked \in [Txns -> {NotBooked} \cup [use : {"settled", "late"}, payment : Payments]]

Init ==
    /\ outcome = [p \in Payments |-> "open"]
    /\ announced = [p \in Payments |-> [k \in Outcomes |-> 0]]
    /\ booked = [t \in Txns |-> NotBooked]

Book(T, use, p) ==
    /\ \A t \in T : booked[t] = NotBooked
    /\ booked' = [t \in Txns |-> IF t \in T THEN [use |-> use, payment |-> p] ELSE booked[t]]

Announce(p, k) ==
    /\ outcome' = [outcome EXCEPT ![p] = k]
    /\ announced' = [announced EXCEPT ![p][k] = @ + 1]

\* the producer cancels, or the payment expires, while money may still arrive
BeginClosing(p) ==
    /\ outcome[p] = "open"
    /\ \E k \in {"cancelling", "expiring"} : outcome' = [outcome EXCEPT ![p] = k]
    /\ UNCHANGED <<announced, booked>>

Settle(p) ==
    /\ outcome[p] \in Unfinished
    /\ Announce(p, "succeeded")
    /\ \E t \in Txns : Book({t}, "settled", p)

\* the captures that came too early to settle are booked with the ending
EndWithoutMoney(p) ==
    /\ \E k \in Outcomes \ {"succeeded"} :
          /\ \/ outcome[p] = "open"
             \/ outcome[p] = "cancelling" /\ k = "cancelled"
             \/ outcome[p] = "expiring" /\ k = "expired"
          /\ Announce(p, k)
    /\ \E T \in SUBSET Txns : Book(T, "late", p)

BookLate(p) ==
    /\ outcome[p] \in Outcomes
    /\ \E t \in Txns : Book({t}, "late", p)
    /\ UNCHANGED <<outcome, announced>>

Next == \E p \in Payments : BeginClosing(p) \/ Settle(p) \/ EndWithoutMoney(p) \/ BookLate(p)

Spec == Init /\ [][Next]_vars
=============================================================================
