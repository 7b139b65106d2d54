------------------------- MODULE InvoiceSettlement -------------------------
(***************************************************************************)
(* billing-service: an issued invoice is collected through payment         *)
(* requests sent to payment-service.  The dispatcher sends them, the event *)
(* consumer and the reconciler apply what Payment says became of them.     *)
(* Every action is one database transaction of one service, or one step    *)
(* between two of them.                                                    *)
(*                                                                         *)
(* Abstractions.  Time is a count of the commits whose order the code      *)
(* looks at; `sendingSince' older than the stale window is the flag        *)
(* `stale', `updatedAt' older than the reconciler's window is a stamp not  *)
(* above `aged'.  A payment has the natural key of its request, so its id  *)
(* is the request's and a request only tells whether it has stored it.     *)
(* What Payment does to a payment is what PaymentOutcome promises.  A      *)
(* terminal event may be delivered at any time after the fact, any number  *)
(* of times, or never: EventDelivery says which of them really happen.     *)
(* Snapshot comparisons always agree: only Payment's own events and        *)
(* answers are modelled.  MaxFaults bounds lost answers, crashes and       *)
(* failed calls; MaxRedeploys bounds the times Payment restarts with       *)
(* another list of currencies.                                             *)
(***************************************************************************)
EXTENDS Naturals, Sequences, FiniteSets

CONSTANTS
    Invoices,        \* invoice rows
    Requests,        \* payment_request rows that may come to exist
    Dispatchers,     \* service instances, each with one dispatcher
    Reconcilers,     \* service instances, each with one reconciler
    DispatchBatch,   \* rows one dispatcher pass claims
    ReconcileBatch,  \* rows one reconciler pass examines
    MaxFaults,
    MaxRedeploys,
    None

ASSUME ConstantsAssumption ==
    /\ IsFiniteSet(Requests)
    /\ DispatchBatch \in Nat \ {0}
    /\ ReconcileBatch \in Nat \ {0}
    /\ MaxFaults \in Nat
    /\ MaxRedeploys \in Nat
    /\ None \notin Invoices \cup Requests

VARIABLES
    invoice,    \* the status of each invoice
    linked,     \* the settlements recorded for its subscription or purchase
    request,    \* payment_request rows
    receipt,    \* the applied event ids: a request and how its end was learnt
    payment,    \* the payment of each request, at Payment
    refused,    \* the invoices in a currency Payment does not collect
    wire,       \* requests whose call timed out and may still reach Payment
    claims,     \* what each dispatcher pass still has to send
    answer,     \* Payment's answer to the first of them, not yet recorded
    page,       \* what each reconciler pass still has to examine
    snapshot,   \* the payment status it has read for the first of them
    cursor,     \* the updatedAt its scan resumes after; 0 to start over
    clock, aged, faults, redeploys

billing    == <<invoice, linked, request, receipt>>
dispatcher == <<claims, answer>>
reconciler == <<page, snapshot, cursor>>
vars == <<billing, payment, refused, wire, dispatcher, reconciler,
          clock, aged, faults, redeploys>>

-----------------------------------------------------------------------------
(* Rows *)

Ended         == {"paid", "failed", "expired", "cancelled"}
Active        == {"created", "sending", "requested"}
RequestStatus == Active \cup Ended \cup {"none", "rejected"}
Final         == {"succeeded", "failed", "expired", "cancelled"}
PaymentStatus == Final \cup {"none", "open", "cancelling", "expiring"}
Routes        == {"event", "reconciliation"}

RequestRow == [status : RequestStatus, invoice : Invoices \cup {None},
               bound : BOOLEAN, stale : BOOLEAN, cancel : BOOLEAN,
               born : Nat, updated : Nat]

TypeOK ==
    /\ invoice \in [Invoices -> {"draft", "open", "paid", "void"}]
    /\ linked \in [Invoices -> Nat]
    /\ request \in [Requests -> RequestRow]
    /\ \A r \in Requests : request[r].invoice = None => request[r].status = "none"
    /\ receipt \subseteq Requests \X Routes
    /\ payment \in [Requests -> PaymentStatus]
    /\ refused \subseteq Invoices
    /\ wire \subseteq Requests
    /\ claims \in [Dispatchers -> Seq(Requests)]
    /\ answer \in [Dispatchers -> {"none", "accepted", "rejected"}]
    /\ \A d \in Dispatchers : claims[d] = <<>> => answer[d] = "none"
    /\ page \in [Reconcilers -> Seq(Requests)]
    /\ snapshot \in [Reconcilers -> Final \cup {None}]
    /\ \A c \in Reconcilers : page[c] = <<>> => snapshot[c] = None
    /\ cursor \in [Reconcilers -> Nat]
    /\ clock \in Nat
    /\ aged \in Nat
    /\ faults \in 0..MaxFaults
    /\ redeploys \in 0..MaxRedeploys

NothingCollected ==
    /\ linked = [i \in Invoices |-> 0]
    /\ request = [r \in Requests |->
                    [status |-> "none", invoice |-> None, bound |-> FALSE, stale |-> FALSE,
                     cancel |-> FALSE, born |-> 0, updated |-> 0]]
    /\ receipt = {}
    /\ payment = [r \in Requests |-> "none"]
    /\ refused \in SUBSET Invoices
    /\ wire = {}
    /\ claims = [d \in Dispatchers |-> <<>>]
    /\ answer = [d \in Dispatchers |-> "none"]
    /\ page = [c \in Reconcilers |-> <<>>]
    /\ snapshot = [c \in Reconcilers |-> None]
    /\ cursor = [c \in Reconcilers |-> 0]
    /\ clock = 0
    /\ aged = 0
    /\ faults = 0
    /\ redeploys = 0

Init ==
    /\ invoice = [i \in Invoices |-> "draft"]
    /\ NothingCollected

Move(r, status)  == request' = [request EXCEPT ![r].status = status]
RequestsOf(i)    == {r \in Requests : request[r].invoice = i}
Fault            == faults < MaxFaults /\ faults' = faults + 1

\* the first n of the rows S by their stamp: ORDER BY ... LIMIT n
First(n, S, stamp) ==
    LET size == IF Cardinality(S) < n THEN Cardinality(S) ELSE n
    IN  {q \in [1..size -> S] :
            /\ \A j, k \in 1..size : j < k => stamp[q[j]] < stamp[q[k]]
            /\ \A r \in S : (\A k \in 1..size : q[k] # r) =>
                               \A k \in 1..size : stamp[q[k]] < stamp[r]}

-----------------------------------------------------------------------------
(* Invoices and requests: the API *)

Issue(i) ==
    /\ invoice[i] = "draft"
    /\ invoice' = [invoice EXCEPT ![i] = "open"]
    /\ UNCHANGED <<linked, request, receipt, payment, refused, wire, dispatcher,
                   reconciler, clock, aged, faults, redeploys>>

Discard(i) ==
    /\ invoice[i] = "draft"
    /\ invoice' = [invoice EXCEPT ![i] = "void"]
    /\ UNCHANGED <<linked, request, receipt, payment, refused, wire, dispatcher,
                   reconciler, clock, aged, faults, redeploys>>

HasActive(i) == \E r \in RequestsOf(i) : request[r].status \in Active

CreateForInvoice(i, r) ==
    /\ invoice[i] = "open"
    /\ ~ HasActive(i)
    /\ request[r].status = "none"
    /\ request' = [request EXCEPT ![r].status = "created", ![r].invoice = i,
                                  ![r].born = clock + 1]
    /\ clock' = clock + 1
    /\ UNCHANGED <<invoice, linked, receipt, payment, refused, wire, dispatcher,
                   reconciler, aged, faults, redeploys>>

CancelUnsent_(r) ==
    /\ request[r].status \in {"created", "sending"}
    /\ Move(r, "cancelled")
    /\ UNCHANGED <<invoice, linked, receipt, payment, refused, wire, dispatcher,
                   reconciler, clock, aged, faults, redeploys>>

\* a request never sent is cancelled without Payment
CancelUnsent(r) ==
    /\ request[r].status = "created"
    /\ Move(r, "cancelled")
    /\ UNCHANGED <<invoice, linked, receipt, payment, refused, wire, dispatcher,
                   reconciler, clock, aged, faults, redeploys>>

MarkCancelRequested(r) ==
    /\ request[r].status = "requested"
    /\ request[r].bound
    /\ ~ request[r].cancel
    /\ request' = [request EXCEPT ![r].cancel = TRUE, ![r].updated = clock + 1]
    /\ clock' = clock + 1
    /\ UNCHANGED <<invoice, linked, receipt, payment, refused, wire, dispatcher,
                   reconciler, aged, faults, redeploys>>

-----------------------------------------------------------------------------
(* The dispatcher *)

Dispatchable_ == {r \in Requests : request[r].status = "created"}
Dispatchable ==
    {r \in Requests : \/ request[r].status = "created"
                      \/ request[r].status = "sending" /\ request[r].stale}

\* claims stale and new requests, oldest first, and marks them in one transaction
ClaimForDispatch(d) ==
    /\ claims[d] = <<>>
    /\ Dispatchable # {}
    /\ \E q \in First(DispatchBatch, Dispatchable, [r \in Requests |-> request[r].born]) :
          /\ claims' = [claims EXCEPT ![d] = q]
          /\ request' = [r \in Requests |->
                           IF \E k \in DOMAIN q : q[k] = r
                           THEN [request[r] EXCEPT !.status = "sending", !.stale = FALSE]
                           ELSE request[r]]
    /\ UNCHANGED <<invoice, linked, receipt, payment, refused, wire, answer,
                   reconciler, clock, aged, faults, redeploys>>

\* the claims not sent yet are kept fresh, unless the renewal fails or comes late
RenewSending(d) ==
    /\ claims[d] # <<>> /\ answer[d] = "none"
    /\ \E k \in DOMAIN claims[d] :
          request[claims[d][k]].status = "sending" /\ request[claims[d][k]].stale
    /\ request' = [r \in Requests |->
                     IF request[r].status = "sending" /\ \E k \in DOMAIN claims[d] : claims[d][k] = r
                     THEN [request[r] EXCEPT !.stale = FALSE]
                     ELSE request[r]]
    /\ UNCHANGED <<invoice, linked, receipt, payment, refused, wire, dispatcher,
                   reconciler, clock, aged, faults, redeploys>>

BecomeStale(r) ==
    /\ request[r].status = "sending" /\ ~ request[r].stale
    /\ request' = [request EXCEPT ![r].stale = TRUE]
    /\ UNCHANGED <<invoice, linked, receipt, payment, refused, wire, dispatcher,
                   reconciler, clock, aged, faults, redeploys>>

\* Payment's create checks the currency first, and answers a known natural key with its payment
Refuses(r) == request[r].invoice \in refused
PaymentCreate(r) ==
    payment' = IF Refuses(r) \/ payment[r] # "none" THEN payment
               ELSE [payment EXCEPT ![r] = "open"]

Send(d) ==
    /\ claims[d] # <<>> /\ answer[d] = "none"
    /\ PaymentCreate(Head(claims[d]))
    /\ answer' = [answer EXCEPT ![d] = IF Refuses(Head(claims[d])) THEN "rejected" ELSE "accepted"]
    /\ UNCHANGED <<billing, refused, wire, claims, reconciler, clock, aged, faults, redeploys>>

\* the call ends without an answer (a timeout, 5xx, 429, 401): the request stays
\* sending, and what was sent may still arrive
LoseAnswer(d) ==
    /\ claims[d] # <<>> /\ answer[d] = "none"
    /\ Fault
    /\ wire' = wire \cup {Head(claims[d])}
    /\ claims' = [claims EXCEPT ![d] = Tail(@)]
    /\ UNCHANGED <<billing, payment, refused, answer, reconciler, clock, aged, redeploys>>

Arrive(r) ==
    /\ r \in wire
    /\ wire' = wire \ {r}
    /\ PaymentCreate(r)
    /\ UNCHANGED <<billing, refused, dispatcher, reconciler, clock, aged, faults, redeploys>>

MarkRequested_(r) ==
    /\ request' = [request EXCEPT ![r].status = "requested", ![r].bound = TRUE,
                                  ![r].updated = clock + 1]
    /\ clock' = clock + 1

\* markRequested, or markRejected: nothing when the request is no longer sending
MarkRequested(r) ==
    IF request[r].status = "sending"
    THEN /\ request' = [request EXCEPT ![r].status = "requested", ![r].bound = TRUE,
                                       ![r].updated = clock + 1]
         /\ clock' = clock + 1
    ELSE UNCHANGED <<request, clock>>

MarkRejected(r) ==
    /\ IF request[r].status = "sending" THEN Move(r, "rejected") ELSE UNCHANGED request
    /\ UNCHANGED clock

Record(d) ==
    /\ answer[d] # "none"
    /\ \/ answer[d] = "accepted" /\ MarkRequested(Head(claims[d]))
       \/ answer[d] = "rejected" /\ MarkRejected(Head(claims[d]))
    /\ claims' = [claims EXCEPT ![d] = Tail(@)]
    /\ answer' = [answer EXCEPT ![d] = "none"]
    /\ UNCHANGED <<invoice, linked, receipt, payment, refused, wire, reconciler,
                   aged, faults, redeploys>>

FailToRecord_(d) ==
    /\ answer[d] # "none"
    /\ Fault
    /\ claims' = [claims EXCEPT ![d] = Tail(@)]
    /\ UNCHANGED <<billing, payment, refused, wire, answer, reconciler, clock, aged, redeploys>>

\* the answer came but its transaction failed: the pass goes on with the next claim
FailToRecord(d) ==
    /\ answer[d] # "none"
    /\ Fault
    /\ claims' = [claims EXCEPT ![d] = Tail(@)]
    /\ answer' = [answer EXCEPT ![d] = "none"]
    /\ UNCHANGED <<billing, payment, refused, wire, reconciler, clock, aged, redeploys>>

StopDispatcher(d) ==
    /\ claims[d] # <<>>
    /\ Fault
    /\ claims' = [claims EXCEPT ![d] = <<>>]
    /\ answer' = [answer EXCEPT ![d] = "none"]
    /\ UNCHANGED <<billing, payment, refused, wire, reconciler, clock, aged, redeploys>>

-----------------------------------------------------------------------------
(* Payment: it promises PaymentOutcome *)

PaymentCancel(r) ==
    /\ request[r].cancel
    /\ payment[r] = "open"
    /\ \E k \in {"cancelled", "cancelling"} : payment' = [payment EXCEPT ![r] = k]
    /\ UNCHANGED <<billing, refused, wire, dispatcher, reconciler, clock, aged, faults, redeploys>>

PaymentEnds(r) ==
    /\ \E k \in {"succeeded", "failed", "expired", "expiring", "cancelled"} :
          /\ \/ payment[r] = "open" /\ k # "cancelled"
             \/ payment[r] = "cancelling" /\ k \in {"succeeded", "cancelled"}
             \/ payment[r] = "expiring" /\ k \in {"succeeded", "expired"}
          /\ payment' = [payment EXCEPT ![r] = k]
    /\ UNCHANGED <<billing, refused, wire, dispatcher, reconciler, clock, aged, faults, redeploys>>

Redeploy ==
    /\ redeploys < MaxRedeploys
    /\ redeploys' = redeploys + 1
    /\ refused' \in (SUBSET Invoices) \ {refused}
    /\ UNCHANGED <<billing, payment, wire, dispatcher, reconciler, clock, aged, faults>>

-----------------------------------------------------------------------------
(* The end of a payment: consumer and reconciler *)

Target(outcome) == IF outcome = "succeeded" THEN "paid" ELSE outcome

\* decidePaymentEvent, for a request that exists: the other outcomes, deferred,
\* ignored and conflict, change nothing
Applies(r, outcome) ==
    /\ request[r].bound
    /\ request[r].status = "requested"
    /\ outcome = "succeeded" => invoice[request[r].invoice] = "open"

Conflicts(r, outcome) ==
    /\ request[r].bound
    /\ request[r].status # Target(outcome)
    /\ ~ Applies(r, outcome)

ApplyPaymentEvent_(r, route, outcome) ==
    IF <<r, route>> \in receipt \/ ~ request[r].bound
    THEN UNCHANGED billing
    ELSE /\ receipt' = receipt \cup {<<r, route>>}
         /\ Move(r, Target(outcome))
         /\ IF outcome = "succeeded"
            THEN /\ invoice' = [invoice EXCEPT ![request[r].invoice] = "paid"]
                 /\ linked' = [linked EXCEPT ![request[r].invoice] = @ + 1]
            ELSE UNCHANGED <<invoice, linked>>

\* one transaction under the invoice's lock; only an applied event claims its id
ApplyPaymentEvent(r, route, outcome) ==
    IF <<r, route>> \in receipt \/ ~ Applies(r, outcome)
    THEN UNCHANGED billing
    ELSE /\ receipt' = receipt \cup {<<r, route>>}
         /\ Move(r, Target(outcome))
         /\ IF outcome = "succeeded"
            THEN /\ invoice' = [invoice EXCEPT ![request[r].invoice] = "paid"]
                 /\ linked' = [linked EXCEPT ![request[r].invoice] = @ + 1]
            ELSE UNCHANGED <<invoice, linked>>

DeliverEvent(r) ==
    /\ payment[r] \in Final
    /\ ApplyPaymentEvent(r, "event", payment[r])
    /\ UNCHANGED <<payment, refused, wire, dispatcher, reconciler, clock, aged, faults, redeploys>>

Age ==
    /\ \E r \in Requests : request[r].status = "requested" /\ request[r].updated > aged
    /\ aged' \in (aged + 1)..clock
    /\ UNCHANGED <<billing, payment, refused, wire, dispatcher, reconciler, clock, faults, redeploys>>

StaleRequested_(c) ==
    {r \in Requests : /\ request[r].status = "requested" /\ ~ request[r].cancel
                      /\ request[r].updated <= aged /\ request[r].updated > cursor[c]}

StaleRequested(c) ==
    {r \in Requests : /\ request[r].status = "requested" /\ request[r].bound
                      /\ request[r].updated <= aged
                      /\ request[r].updated > cursor[c]}

\* one page of the scan; a short page is the last one and starts the scan over
FindStaleRequested(c) ==
    /\ page[c] = <<>>
    /\ StaleRequested(c) # {} \/ cursor[c] # 0
    /\ \E q \in First(ReconcileBatch, StaleRequested(c), [r \in Requests |-> request[r].updated]) :
          /\ page' = [page EXCEPT ![c] = q]
          /\ cursor' = [cursor EXCEPT ![c] =
                          IF Len(q) < ReconcileBatch THEN 0 ELSE request[q[Len(q)]].updated]
    /\ UNCHANGED <<billing, payment, refused, wire, dispatcher, snapshot, clock, aged,
                   faults, redeploys>>

\* GET the payment, outside any transaction; one still unpaid is left alone
ReadPayment(c) ==
    /\ page[c] # <<>> /\ snapshot[c] = None
    /\ IF payment[Head(page[c])] \in Final
       THEN /\ snapshot' = [snapshot EXCEPT ![c] = payment[Head(page[c])]]
            /\ UNCHANGED page
       ELSE /\ page' = [page EXCEPT ![c] = Tail(@)]
            /\ UNCHANGED snapshot
    /\ UNCHANGED <<billing, payment, refused, wire, dispatcher, cursor, clock, aged,
                   faults, redeploys>>

ApplyReconciledSnapshot(c) ==
    /\ snapshot[c] # None
    /\ ApplyPaymentEvent(Head(page[c]), "reconciliation", snapshot[c])
    /\ page' = [page EXCEPT ![c] = Tail(@)]
    /\ snapshot' = [snapshot EXCEPT ![c] = None]
    /\ UNCHANGED <<payment, refused, wire, dispatcher, cursor, clock, aged, faults, redeploys>>

\* the read or the transaction fails: the pass goes on with the next request
FailToReconcile(c) ==
    /\ page[c] # <<>>
    /\ Fault
    /\ page' = [page EXCEPT ![c] = Tail(@)]
    /\ snapshot' = [snapshot EXCEPT ![c] = None]
    /\ UNCHANGED <<billing, payment, refused, wire, dispatcher, cursor, clock, aged, redeploys>>

StopReconciler(c) ==
    /\ page[c] # <<>> \/ cursor[c] # 0
    /\ Fault
    /\ page' = [page EXCEPT ![c] = <<>>]
    /\ snapshot' = [snapshot EXCEPT ![c] = None]
    /\ cursor' = [cursor EXCEPT ![c] = 0]
    /\ UNCHANGED <<billing, payment, refused, wire, dispatcher, clock, aged, redeploys>>

-----------------------------------------------------------------------------

ApiStep ==
    \/ \E i \in Invoices : Issue(i) \/ Discard(i) \/ \E r \in Requests : CreateForInvoice(i, r)
    \/ \E r \in Requests : CancelUnsent(r) \/ MarkCancelRequested(r)
DispatcherStep ==
    \/ \E d \in Dispatchers : \/ ClaimForDispatch(d) \/ RenewSending(d) \/ Send(d) \/ Record(d)
                              \/ LoseAnswer(d) \/ FailToRecord(d) \/ StopDispatcher(d)
    \/ \E r \in Requests : BecomeStale(r)
PaymentStep ==
    \/ \E r \in Requests : Arrive(r) \/ PaymentCancel(r) \/ PaymentEnds(r) \/ DeliverEvent(r)
    \/ Redeploy
ReconcilerStep ==
    \/ Age
    \/ \E c \in Reconcilers : \/ FindStaleRequested(c) \/ ReadPayment(c)
                              \/ ApplyReconciledSnapshot(c) \/ FailToReconcile(c) \/ StopReconciler(c)

Next == ApiStep \/ DispatcherStep \/ PaymentStep \/ ReconcilerStep

Spec == Init /\ [][Next]_vars

\* The poll loops run again after every pass, and time passes.  Nothing is
\* promised of callers, of Payment's payers, or of the broker.
Fairness ==
    /\ \A d \in Dispatchers : WF_vars(ClaimForDispatch(d)) /\ WF_vars(Send(d) \/ Record(d))
    /\ \A r \in Requests : WF_vars(BecomeStale(r))
    /\ WF_vars(Age)
    /\ \A c \in Reconcilers : WF_vars(FindStaleRequested(c) \/ ReadPayment(c) \/ ApplyReconciledSnapshot(c))

FairSpec == Spec /\ Fairness

-----------------------------------------------------------------------------
(* Properties *)

\* An invoice is paid exactly when one of its requests is, on a payment that
\* Payment settled, and what it bought is recorded once (BI-14; applyPaymentEvent,
\* linkSubscription): an event and the reconciler, or two of either, never both.
PaidOnMoney ==
    \A i \in Invoices :
       LET paid == {r \in RequestsOf(i) : request[r].status = "paid"}
       IN  /\ Cardinality(paid) = linked[i]
           /\ linked[i] = IF invoice[i] = "paid" THEN 1 ELSE 0
           /\ \A r \in paid : payment[r] = "succeeded"

\* At most one payment of an invoice can take money, or has (BI-13): a request
\* is replaced only when its payment ended without money or will never exist,
\* whatever is still on the wire or in another dispatcher's hands.  Payment's list
\* of currencies must stay as it is: create checks it before it looks for the
\* payment of a natural key, so a request sent twice may be rejected after its
\* payment was made.
Collectable(r) == payment[r] \in {"open", "cancelling", "expiring", "succeeded"}
OneCollectable ==
    redeploys = 0 =>
       \A i \in Invoices : \A r, s \in RequestsOf(i) : Collectable(r) /\ Collectable(s) => r = s

\* What Payment says of a payment never contradicts what Billing recorded: no
\* terminal event is ever answered `conflict', which needs manual review.
NeverConflicts ==
    \A r \in Requests : payment[r] \in Final => ~ Conflicts(r, payment[r])

\* Money that Payment took is recognised, even if every one of its events is
\* lost or came before the payment id was stored: the dispatcher stores the id
\* and the reconciler reads the payment (SDD 21.5).
MoneyIsRecognized ==
    \A r \in Requests : payment[r] = "succeeded" ~> request[r].status = "paid"

\* Every request is sent or cancelled, however many calls were lost: a dispatcher
\* that stops leaves claims that another pass takes over.
RequestsAreSent ==
    \A r \in Requests :
       request[r].status \in {"created", "sending"} ~> request[r].status \notin {"created", "sending"}
=============================================================================
