------------------------ MODULE MCInvoiceSettlement ------------------------
(***************************************************************************)
(* Small instances of InvoiceSettlement for TLC, and a plausible bug for   *)
(* each of its properties (the operators ending in an underscore are in    *)
(* InvoiceSettlement, where the definition they mutate is).                *)
(***************************************************************************)
EXTENDS InvoiceSettlement, TLC

\* Invoices, requests and instances are told apart only by their rows.
Symmetry == Permutations(Invoices) \cup Permutations(Requests)
            \cup Permutations(Dispatchers) \cup Permutations(Reconcilers)

\* One invoice is collected from its draft on; the others were discarded.
CollectInit ==
    /\ NothingCollected
    /\ LET i == CHOOSE i \in Invoices : TRUE
       IN  /\ invoice = [j \in Invoices |-> IF j = i THEN "draft" ELSE "void"]
           /\ refused \subseteq {i}

\* Every invoice has a request, created in some order and acknowledged by
\* Payment: the pages of the reconciler follow that order.
PagesInit ==
    /\ invoice = [i \in Invoices |-> "open"]
    /\ linked = [i \in Invoices |-> 0]
    /\ \E of \in [Requests -> Invoices], at \in [Requests -> 1..Cardinality(Requests)] :
          /\ \A r, s \in Requests : of[r] = of[s] \/ at[r] = at[s] => r = s
          /\ request = [r \in Requests |->
                          [status |-> "requested", invoice |-> of[r], bound |-> TRUE,
                           stale |-> FALSE, cancel |-> FALSE, born |-> at[r],
                           updated |-> Cardinality(Requests) + at[r]]]
    /\ receipt = {}
    /\ payment = [r \in Requests |-> "open"]
    /\ refused = {}
    /\ wire = {}
    /\ claims = [d \in Dispatchers |-> <<>>]
    /\ answer = [d \in Dispatchers |-> "none"]
    /\ page = [c \in Reconcilers |-> <<>>]
    /\ snapshot = [c \in Reconcilers |-> None]
    /\ cursor = [c \in Reconcilers |-> 0]
    /\ clock = 2 * Cardinality(Requests)
    /\ aged = 0
    /\ faults = 0
    /\ redeploys = MaxRedeploys

\* Both, under the fairness of the poll loops.
EndsSpec == (CollectInit \/ PagesInit) /\ [][Next]_vars /\ Fairness
=============================================================================
