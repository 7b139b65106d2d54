------------------------ MODULE MCPaymentSettlement ------------------------
(* Finite instances of PaymentSettlement.  Payments, attempts, captures and *)
(* observers are interchangeable: every definition treats each set alike.  *)
EXTENDS PaymentSettlement, TLC

Symmetry == Permutations(Payments) \cup Permutations(Attempts)
            \cup Permutations(Txns) \cup Permutations(Observers)

\* Two observers tell of two captures of the right figure, or of one capture of any figure by
\* notifications: either way one may overtake what the other decided on.
Successes == {o \in Observers : obs[o] # Idle /\ obs[o].answer.kind = "succeeded"}
Facts     == {t \in Txns : fact[t] # None}
Told      == (Facts \cup {obs[o].answer.txn : o \in Successes}
                    \cup {attempt[a].txn : a \in Attempts}) \ {None}
Exact     == /\ \A o \in Successes : obs[o].answer.figure = "equal"
             /\ \A t \in Facts : fact[t].figure = "equal"
Notified  == /\ \A o \in Successes : obs[o].source = "webhook"
             /\ \A t \in Facts : fact[t].source = "webhook"
InScope   == Exact \/ (Cardinality(Told) = 1 /\ Notified)

TwoObservers == Init /\ [][Next /\ InScope']_vars
=============================================================================
