----------------------- MODULE InvoiceSettlementProofs -----------------------
(***************************************************************************)
(* Proofs about InvoiceSettlement, for every set of invoices, requests,    *)
(* dispatchers and reconcilers, every batch size and any number of faults  *)
(* and redeploys.  IInv is the inductive invariant behind PaidOnMoney,     *)
(* OneCollectable and NeverConflicts: Books is about the rows of both      *)
(* services, Hands about what is on the wire, claimed or read.  A row that *)
(* ended keeps its end (BillingEndsStay), and the payments do no more than *)
(* PaymentOutcome allows (BillingMeetsPromise).                            *)
(***************************************************************************)
EXTENDS InvoiceSettlement, FiniteSetTheorems, SequenceTheorems, TLAPS

-----------------------------------------------------------------------------
(* Type correctness *)

\* a page or a pass is a sequence of the rows it was taken from
LEMMA FirstIsSeq ==
    ASSUME NEW n \in Nat, NEW S \in SUBSET Requests, NEW stamp, NEW q \in First(n, S, stamp)
    PROVE  /\ q \in Seq(Requests)
           /\ Len(q) \in Nat
           /\ Len(q) = IF Cardinality(S) < n THEN Cardinality(S) ELSE n
           /\ \A k \in DOMAIN q : q[k] \in S
<1> DEFINE size == IF Cardinality(S) < n THEN Cardinality(S) ELSE n
<1>1. size \in Nat
  <2>1. IsFiniteSet(S)
    BY FS_Subset, ConstantsAssumption
  <2> QED BY <2>1, FS_CardinalityType
<1>2. q \in [1..size -> S]
  BY DEF First
<1> QED BY <1>1, <1>2

\* what is left of a pass after its head
LEMMA TailIsSeq ==
    ASSUME NEW q \in Seq(Requests), q # <<>>
    PROVE  /\ Head(q) \in Requests
           /\ Tail(q) \in Seq(Requests)
           /\ \A k \in DOMAIN Tail(q) : \E j \in DOMAIN q : Tail(q)[k] = q[j]
           /\ \E j \in DOMAIN q : Head(q) = q[j]
OBVIOUS

\* Between two states: the row r becomes this and the others stay; or keeps what
\* the settlement depends on.
Written(r, s, i, b) ==
    /\ request' \in [Requests -> RequestRow]
    /\ request'[r].status = s /\ request'[r].invoice = i /\ request'[r].bound = b
    /\ \A q \in Requests \ {r} : request'[q] = request[q]
Keeps(r) ==
    /\ request'[r].status = request[r].status
    /\ request'[r].invoice = request[r].invoice
    /\ request'[r].bound = request[r].bound

LEMMA RowWritten ==
    ASSUME TypeOK, NEW r \in Requests, NEW row \in RequestRow, request' = [request EXCEPT ![r] = row]
    PROVE  Written(r, row.status, row.invoice, row.bound)
BY DEF TypeOK, Written

LEMMA WrittenReferences ==
    ASSUME TypeOK, NEW r \in Requests, NEW s, NEW i \in Invoices, NEW b, Written(r, s, i, b)
    PROVE  \A q \in Requests : request'[q].invoice = None => request'[q].status = "none"
<1>1. i # None
  BY ConstantsAssumption
<1>2. ASSUME NEW q \in Requests, request'[q].invoice = None
      PROVE  request'[q].status = "none"
  <2>1. q # r
    BY <1>1, <1>2 DEF Written
  <2>2. request'[q] = request[q]
    BY <2>1 DEF Written
  <2> QED BY <1>2, <2>2 DEF TypeOK
<1> QED BY <1>2

LEMMA KeptReferences ==
    ASSUME TypeOK, \A q \in Requests : Keeps(q)
    PROVE  \A q \in Requests : request'[q].invoice = None => request'[q].status = "none"
BY DEF TypeOK, Keeps

LEMMA StatusWritten ==
    ASSUME TypeOK, NEW r \in Requests, NEW s \in RequestStatus, Move(r, s)
    PROVE  Written(r, s, request[r].invoice, request[r].bound)
<1> DEFINE row == [request[r] EXCEPT !.status = s]
<1>1. request[r] \in RequestRow
  BY DEF TypeOK
<1>2. row \in RequestRow /\ row.status = s /\ row.invoice = request[r].invoice /\ row.bound = request[r].bound
  BY <1>1 DEF RequestRow
<1>3. request' = [request EXCEPT ![r] = row]
  BY DEF Move
<1> HIDE DEF row
<1> QED BY <1>2, <1>3, RowWritten

LEMMA CreateWritten ==
    ASSUME TypeOK, NEW i \in Invoices, NEW r \in Requests, CreateForInvoice(i, r)
    PROVE  Written(r, "created", i, request[r].bound)
<1> DEFINE row == [request[r] EXCEPT !.status = "created", !.invoice = i, !.born = clock + 1]
<1>1. request[r] \in RequestRow /\ "created" \in RequestStatus /\ clock + 1 \in Nat
  BY DEF TypeOK, RequestStatus, Active
<1>2. row \in RequestRow /\ row.status = "created" /\ row.invoice = i /\ row.bound = request[r].bound
  BY <1>1 DEF RequestRow
<1>3. request' = [request EXCEPT ![r] = row]
  BY <1>1 DEF CreateForInvoice, TypeOK
<1> HIDE DEF row
<1> QED BY <1>2, <1>3, RowWritten

LEMMA CancelRequestedWritten ==
    ASSUME TypeOK, NEW r \in Requests, MarkCancelRequested(r)
    PROVE  Written(r, request[r].status, request[r].invoice, request[r].bound)
<1> DEFINE row == [request[r] EXCEPT !.cancel = TRUE, !.updated = clock + 1]
<1>1. request[r] \in RequestRow /\ clock + 1 \in Nat
  BY DEF TypeOK
<1>2. /\ row \in RequestRow /\ row.status = request[r].status
      /\ row.invoice = request[r].invoice /\ row.bound = request[r].bound
  BY <1>1 DEF RequestRow
<1>3. request' = [request EXCEPT ![r] = row]
  BY <1>1 DEF MarkCancelRequested, TypeOK
<1> HIDE DEF row
<1> QED BY <1>2, <1>3, RowWritten

LEMMA StaleWritten ==
    ASSUME TypeOK, NEW r \in Requests, BecomeStale(r)
    PROVE  Written(r, request[r].status, request[r].invoice, request[r].bound)
<1> DEFINE row == [request[r] EXCEPT !.stale = TRUE]
<1>1. request[r] \in RequestRow
  BY DEF TypeOK
<1>2. /\ row \in RequestRow /\ row.status = request[r].status
      /\ row.invoice = request[r].invoice /\ row.bound = request[r].bound
  BY <1>1 DEF RequestRow
<1>3. request' = [request EXCEPT ![r] = row]
  BY <1>1 DEF BecomeStale, TypeOK
<1> HIDE DEF row
<1> QED BY <1>2, <1>3, RowWritten

LEMMA RequestedWritten ==
    ASSUME TypeOK, NEW r \in Requests, MarkRequested(r), request[r].status = "sending"
    PROVE  Written(r, "requested", request[r].invoice, TRUE)
<1> DEFINE row == [request[r] EXCEPT !.status = "requested", !.bound = TRUE, !.updated = clock + 1]
<1>1. request[r] \in RequestRow /\ "requested" \in RequestStatus /\ clock + 1 \in Nat
  BY DEF TypeOK, RequestStatus, Active
<1>2. row \in RequestRow /\ row.status = "requested" /\ row.invoice = request[r].invoice /\ row.bound = TRUE
  BY <1>1 DEF RequestRow
<1>3. request' = [request EXCEPT ![r] = row]
  BY <1>1 DEF MarkRequested, TypeOK
<1> HIDE DEF row
<1> QED BY <1>2, <1>3, RowWritten

\* a claim takes created and stale rows, and the claims it keeps are those rows
LEMMA ClaimWritten ==
    ASSUME TypeOK, NEW d \in Dispatchers, ClaimForDispatch(d)
    PROVE  /\ request' \in [Requests -> RequestRow]
           /\ \A r \in Requests :
                 \/ Keeps(r)
                 \/ /\ request[r].status \in {"created", "sending"}
                    /\ request'[r].status = "sending"
                    /\ request'[r].invoice = request[r].invoice
                    /\ request'[r].bound = request[r].bound
           /\ claims' \in [Dispatchers -> Seq(Requests)]
           /\ \A e \in Dispatchers \ {d} : claims'[e] = claims[e]
           /\ \A k \in DOMAIN claims'[d] : request'[claims'[d][k]].status = "sending"
<1>1. PICK q \in First(DispatchBatch, Dispatchable, [r \in Requests |-> request[r].born]) :
          /\ claims' = [claims EXCEPT ![d] = q]
          /\ request' = [r \in Requests |->
                           IF \E k \in DOMAIN q : q[k] = r
                           THEN [request[r] EXCEPT !.status = "sending", !.stale = FALSE]
                           ELSE request[r]]
  BY DEF ClaimForDispatch
<1>2. Dispatchable \in SUBSET Requests /\ DispatchBatch \in Nat
  BY ConstantsAssumption DEF Dispatchable
<1>3. q \in Seq(Requests) /\ \A k \in DOMAIN q : q[k] \in Dispatchable
  BY <1>2, FirstIsSeq
<1>4. ASSUME NEW r \in Requests
      PROVE  /\ request'[r] \in RequestRow
             /\ \/ request'[r] = request[r] /\ ~ \E k \in DOMAIN q : q[k] = r
                \/ /\ request[r].status \in {"created", "sending"}
                   /\ request'[r].status = "sending"
                   /\ request'[r].invoice = request[r].invoice
                   /\ request'[r].bound = request[r].bound
  <2> DEFINE row == [request[r] EXCEPT !.status = "sending", !.stale = FALSE]
  <2>1. request[r] \in RequestRow /\ "sending" \in RequestStatus
    BY DEF TypeOK, RequestStatus, Active
  <2>2. row \in RequestRow /\ row.status = "sending" /\ row.invoice = request[r].invoice /\ row.bound = request[r].bound
    BY <2>1 DEF RequestRow
  <2>3. CASE \E k \in DOMAIN q : q[k] = r
    <3>1. request'[r] = row
      BY <1>1, <2>3
    <3>2. request[r].status \in {"created", "sending"}
      BY <1>3, <2>3 DEF Dispatchable
    <3> QED BY <2>2, <3>1, <3>2
  <2>4. CASE ~ \E k \in DOMAIN q : q[k] = r
    BY <1>1, <2>1, <2>4
  <2> QED BY <2>3, <2>4
<1>5. request' = [r \in Requests |-> request'[r]]
  BY <1>1
<1>6. request' \in [Requests -> RequestRow]
  BY <1>4, <1>5
<1>7. /\ claims' \in [Dispatchers -> Seq(Requests)]
      /\ claims'[d] = q
      /\ \A e \in Dispatchers \ {d} : claims'[e] = claims[e]
  BY <1>1, <1>3 DEF TypeOK
<1>8. \A k \in DOMAIN q : request'[q[k]].status = "sending"
  BY <1>3, <1>4 DEF Dispatchable
<1> QED BY <1>4, <1>6, <1>7, <1>8 DEF Keeps

LEMMA RenewWritten ==
    ASSUME TypeOK, NEW d \in Dispatchers, RenewSending(d)
    PROVE  request' \in [Requests -> RequestRow] /\ \A r \in Requests : Keeps(r)
<1>1. ASSUME NEW r \in Requests
      PROVE  request'[r] \in RequestRow /\ Keeps(r)
  <2> DEFINE row == [request[r] EXCEPT !.stale = FALSE]
  <2>1. request[r] \in RequestRow
    BY DEF TypeOK
  <2>2. /\ row \in RequestRow /\ row.status = request[r].status
        /\ row.invoice = request[r].invoice /\ row.bound = request[r].bound
    BY <2>1 DEF RequestRow
  <2>3. request'[r] = row \/ request'[r] = request[r]
    BY DEF RenewSending
  <2> HIDE DEF row
  <2> QED BY <2>1, <2>2, <2>3 DEF Keeps
<1>2. request' = [r \in Requests |-> request'[r]]
  BY DEF RenewSending
<1> QED BY <1>1, <1>2

\* an event or a snapshot changes nothing, or settles a request that waits for it
LEMMA ApplyWritten ==
    ASSUME TypeOK, NEW r \in Requests, NEW route, NEW outcome \in Final,
           ApplyPaymentEvent(r, route, outcome)
    PROVE  \/ UNCHANGED billing
           \/ /\ Applies(r, outcome)
              /\ request[r].invoice \in Invoices
              /\ receipt' = receipt \cup {<<r, route>>}
              /\ Written(r, Target(outcome), request[r].invoice, request[r].bound)
              /\ \/ /\ outcome = "succeeded"
                    /\ invoice' = [invoice EXCEPT ![request[r].invoice] = "paid"]
                    /\ linked' = [linked EXCEPT ![request[r].invoice] = @ + 1]
                 \/ outcome # "succeeded" /\ UNCHANGED <<invoice, linked>>
<1>1. Target(outcome) \in RequestStatus
  BY DEF Target, RequestStatus, Ended, Final
<1>2. CASE <<r, route>> \in receipt \/ ~ Applies(r, outcome)
  BY <1>2 DEF ApplyPaymentEvent
<1>3. CASE ~ (<<r, route>> \in receipt \/ ~ Applies(r, outcome))
  <2>1. Move(r, Target(outcome))
    BY <1>3 DEF ApplyPaymentEvent
  <2>2. Written(r, Target(outcome), request[r].invoice, request[r].bound)
    BY <1>1, <2>1, StatusWritten
  <2>3. request[r].invoice \in Invoices
    BY <1>3 DEF Applies, TypeOK, RequestRow
  <2> QED BY <1>3, <2>2, <2>3 DEF ApplyPaymentEvent
<1> QED BY <1>2, <1>3

LEMMA ClaimForDispatchType ==
    ASSUME TypeOK, NEW d \in Dispatchers, ClaimForDispatch(d)
    PROVE  TypeOK'
<1>1. /\ request' \in [Requests -> RequestRow]
      /\ claims' \in [Dispatchers -> Seq(Requests)]
      /\ \A e \in Dispatchers \ {d} : claims'[e] = claims[e]
  BY ClaimWritten
<1>2. \A r \in Requests : request'[r].invoice = None => request'[r].status = "none"
  <2>1. ASSUME NEW r \in Requests, request'[r].invoice = None
        PROVE  request'[r].status = "none"
    <3>1. \/ Keeps(r)
          \/ /\ request[r].status \in {"created", "sending"}
             /\ request'[r].invoice = request[r].invoice
      BY ClaimWritten
    <3> QED BY <2>1, <3>1 DEF TypeOK, Keeps
  <2> QED BY <2>1
<1>3. \A e \in Dispatchers : claims'[e] = <<>> => answer'[e] = "none"
  BY <1>1 DEF TypeOK, ClaimForDispatch
<1> QED BY <1>1, <1>2, <1>3 DEF TypeOK, ClaimForDispatch, reconciler

LEMMA FindStaleRequestedType ==
    ASSUME TypeOK, NEW c \in Reconcilers, FindStaleRequested(c)
    PROVE  TypeOK'
<1>1. PICK q \in First(ReconcileBatch, StaleRequested(c), [r \in Requests |-> request[r].updated]) :
          /\ page' = [page EXCEPT ![c] = q]
          /\ cursor' = [cursor EXCEPT ![c] =
                          IF Len(q) < ReconcileBatch THEN 0 ELSE request[q[Len(q)]].updated]
  BY DEF FindStaleRequested
<1>2. StaleRequested(c) \in SUBSET Requests /\ ReconcileBatch \in Nat \ {0}
  BY ConstantsAssumption DEF StaleRequested
<1>3. q \in Seq(Requests) /\ Len(q) \in Nat
  BY <1>2, FirstIsSeq
<1>4. CASE Len(q) < ReconcileBatch
  BY <1>1, <1>3, <1>4 DEF TypeOK, FindStaleRequested, billing, dispatcher
<1>5. CASE ~ (Len(q) < ReconcileBatch)
  <2>1. Len(q) \in DOMAIN q
    BY <1>2, <1>3, <1>5
  <2>2. request[q[Len(q)]].updated \in Nat
    BY <2>1, <1>3 DEF TypeOK, RequestRow
  <2> QED BY <1>1, <1>3, <1>5, <2>2 DEF TypeOK, FindStaleRequested, billing, dispatcher
<1> QED BY <1>4, <1>5

LEMMA PaymentCreateType ==
    ASSUME TypeOK, NEW r \in Requests, PaymentCreate(r)
    PROVE  payment' \in [Requests -> PaymentStatus]
BY DEF TypeOK, PaymentCreate, PaymentStatus, Final

LEMMA ApplyPaymentEventType ==
    ASSUME TypeOK, NEW r \in Requests, NEW route \in Routes, NEW outcome \in Final,
           ApplyPaymentEvent(r, route, outcome)
    PROVE  /\ invoice' \in [Invoices -> {"draft", "open", "paid", "void"}]
           /\ linked' \in [Invoices -> Nat]
           /\ request' \in [Requests -> RequestRow]
           /\ \A s \in Requests : request'[s].invoice = None => request'[s].status = "none"
           /\ receipt' \subseteq Requests \X Routes
<1>1. CASE UNCHANGED billing
  BY <1>1 DEF TypeOK, billing
<1>2. CASE ~ UNCHANGED billing
  <2>1. /\ request[r].invoice \in Invoices
        /\ receipt' = receipt \cup {<<r, route>>}
        /\ Written(r, Target(outcome), request[r].invoice, request[r].bound)
        /\ \/ /\ invoice' = [invoice EXCEPT ![request[r].invoice] = "paid"]
              /\ linked' = [linked EXCEPT ![request[r].invoice] = @ + 1]
           \/ UNCHANGED <<invoice, linked>>
    BY <1>2, ApplyWritten
  <2>2. \A s \in Requests : request'[s].invoice = None => request'[s].status = "none"
    BY <2>1, WrittenReferences
  <2>3. /\ invoice' \in [Invoices -> {"draft", "open", "paid", "void"}]
        /\ linked' \in [Invoices -> Nat]
    <3>1. linked[request[r].invoice] + 1 \in Nat
      BY <2>1 DEF TypeOK
    <3>2. CASE /\ invoice' = [invoice EXCEPT ![request[r].invoice] = "paid"]
               /\ linked' = [linked EXCEPT ![request[r].invoice] = @ + 1]
      BY <3>1, <3>2 DEF TypeOK
    <3>3. CASE UNCHANGED <<invoice, linked>>
      BY <3>3 DEF TypeOK
    <3> QED BY <2>1, <3>2, <3>3
  <2> QED BY <2>1, <2>2, <2>3 DEF TypeOK, Written
<1> QED BY <1>1, <1>2

LEMMA InitType == Init => TypeOK
<1> SUFFICES ASSUME Init
             PROVE  TypeOK
  OBVIOUS
<1>1. /\ request \in [Requests -> RequestRow]
      /\ \A r \in Requests : request[r].status = "none"
  BY DEF Init, NothingCollected, RequestRow, RequestStatus
<1>2. payment \in [Requests -> PaymentStatus]
  BY DEF Init, NothingCollected, PaymentStatus
<1>3. /\ claims \in [Dispatchers -> Seq(Requests)]
      /\ page \in [Reconcilers -> Seq(Requests)]
  BY DEF Init, NothingCollected
<1>4. 0 \in 0..MaxFaults /\ 0 \in 0..MaxRedeploys
  BY ConstantsAssumption
<1> QED BY <1>1, <1>2, <1>3, <1>4 DEF Init, NothingCollected, TypeOK

LEMMA ApiType ==
    ASSUME TypeOK, ApiStep
    PROVE  TypeOK'
<1>1. ASSUME NEW i \in Invoices, Issue(i) \/ Discard(i)
      PROVE  TypeOK'
  BY <1>1 DEF TypeOK, Issue, Discard, dispatcher, reconciler
<1>2. ASSUME NEW i \in Invoices, NEW r \in Requests, CreateForInvoice(i, r)
      PROVE  TypeOK'
  <2>1. Written(r, "created", i, request[r].bound)
    BY <1>2, CreateWritten
  <2>2. \A s \in Requests : request'[s].invoice = None => request'[s].status = "none"
    BY <2>1, WrittenReferences
  <2> QED BY <1>2, <2>1, <2>2 DEF TypeOK, CreateForInvoice, Written, dispatcher, reconciler
<1>3. ASSUME NEW r \in Requests, CancelUnsent(r)
      PROVE  TypeOK'
  <2>1. request[r].invoice \in Invoices
    BY <1>3 DEF TypeOK, CancelUnsent, RequestRow
  <2>2. Written(r, "cancelled", request[r].invoice, request[r].bound)
    BY <1>3, StatusWritten DEF CancelUnsent, RequestStatus, Ended
  <2>3. \A s \in Requests : request'[s].invoice = None => request'[s].status = "none"
    BY <2>1, <2>2, WrittenReferences
  <2> QED BY <1>3, <2>2, <2>3 DEF TypeOK, CancelUnsent, Written, dispatcher, reconciler
<1>4. ASSUME NEW r \in Requests, MarkCancelRequested(r)
      PROVE  TypeOK'
  <2>1. Written(r, request[r].status, request[r].invoice, request[r].bound)
    BY <1>4, CancelRequestedWritten
  <2>2. \A s \in Requests : request'[s].invoice = None => request'[s].status = "none"
    BY <2>1, KeptReferences DEF Written, Keeps
  <2> QED BY <1>4, <2>1, <2>2 DEF TypeOK, MarkCancelRequested, Written, dispatcher, reconciler
<1> QED BY <1>1, <1>2, <1>3, <1>4 DEF ApiStep

\* the answer is recorded in a row still being sent, or in none
LEMMA RecordWritten ==
    ASSUME TypeOK, NEW d \in Dispatchers, Record(d)
    PROVE  LET r == Head(claims[d]) IN
           /\ claims[d] # <<>> /\ r \in Requests /\ Tail(claims[d]) \in Seq(Requests)
           /\ \/ UNCHANGED request
              \/ /\ request[r].status = "sending" /\ request[r].invoice \in Invoices
                 /\ \/ answer[d] = "accepted" /\ Written(r, "requested", request[r].invoice, TRUE)
                    \/ answer[d] = "rejected" /\ Written(r, "rejected", request[r].invoice, request[r].bound)
<1> DEFINE r == Head(claims[d])
<1>1. claims[d] # <<>> /\ claims[d] \in Seq(Requests)
  BY DEF TypeOK, Record
<1>2. r \in Requests /\ Tail(claims[d]) \in Seq(Requests)
  BY <1>1, TailIsSeq
<1>3. CASE request[r].status = "sending"
  <2>1. request[r].invoice \in Invoices
    BY <1>2, <1>3 DEF TypeOK, RequestRow
  <2>2. CASE answer[d] = "accepted"
    BY <1>1, <1>2, <1>3, <2>1, <2>2, RequestedWritten DEF Record
  <2>3. CASE answer[d] = "rejected"
    <3>1. Move(r, "rejected") /\ "rejected" \in RequestStatus
      BY <1>3, <2>3 DEF Record, MarkRejected, RequestStatus
    <3> QED BY <1>1, <1>2, <1>3, <2>1, <2>3, <3>1, StatusWritten
  <2> QED BY <2>2, <2>3 DEF Record
<1>4. CASE request[r].status # "sending"
  BY <1>1, <1>2, <1>4 DEF Record, MarkRequested, MarkRejected
<1> QED BY <1>3, <1>4

LEMMA RecordType ==
    ASSUME TypeOK, NEW d \in Dispatchers, Record(d)
    PROVE  TypeOK'
<1> DEFINE r == Head(claims[d])
<1>1. r \in Requests /\ Tail(claims[d]) \in Seq(Requests)
  BY RecordWritten
<1>2. /\ request' \in [Requests -> RequestRow]
      /\ \A s \in Requests : request'[s].invoice = None => request'[s].status = "none"
  <2>1. CASE UNCHANGED request
    <3>1. request' \in [Requests -> RequestRow] /\ \A q \in Requests : Keeps(q)
      BY <2>1 DEF TypeOK, Keeps
    <3> QED BY <3>1, KeptReferences
  <2>2. CASE ~ UNCHANGED request
    <3>1. \E s, b : Written(r, s, request[r].invoice, b) /\ request[r].invoice \in Invoices
      BY <2>2, RecordWritten
    <3> QED BY <1>1, <3>1, WrittenReferences DEF Written
  <2> QED BY <2>1, <2>2
<1>3. clock' \in Nat
  BY DEF TypeOK, Record, MarkRequested, MarkRejected
<1>4. /\ claims' \in [Dispatchers -> Seq(Requests)]
      /\ answer' \in [Dispatchers -> {"none", "accepted", "rejected"}]
      /\ \A e \in Dispatchers : claims'[e] = <<>> => answer'[e] = "none"
  BY <1>1 DEF TypeOK, Record
<1> QED BY <1>2, <1>3, <1>4 DEF TypeOK, Record, reconciler

LEMMA DispatcherType ==
    ASSUME TypeOK, DispatcherStep
    PROVE  TypeOK'
<1>1. ASSUME NEW d \in Dispatchers, RenewSending(d)
      PROVE  TypeOK'
  <2>1. request' \in [Requests -> RequestRow] /\ \A r \in Requests : Keeps(r)
    BY <1>1, RenewWritten
  <2>2. \A s \in Requests : request'[s].invoice = None => request'[s].status = "none"
    BY <2>1, KeptReferences
  <2> QED BY <1>1, <2>1, <2>2 DEF TypeOK, RenewSending, dispatcher, reconciler
<1>2. ASSUME NEW d \in Dispatchers, Send(d)
      PROVE  TypeOK'
  <2>1. Head(claims[d]) \in Requests
    BY <1>2, TailIsSeq DEF TypeOK, Send
  <2>2. payment' \in [Requests -> PaymentStatus]
    BY <1>2, <2>1, PaymentCreateType DEF Send
  <2> QED BY <1>2, <2>2 DEF TypeOK, Send, billing, reconciler
<1>3. ASSUME NEW d \in Dispatchers, LoseAnswer(d) \/ FailToRecord(d) \/ StopDispatcher(d)
      PROVE  TypeOK'
  <2>1. claims[d] # <<>> /\ claims[d] \in Seq(Requests)
    BY <1>3 DEF TypeOK, LoseAnswer, FailToRecord, StopDispatcher
  <2>2. Head(claims[d]) \in Requests /\ Tail(claims[d]) \in Seq(Requests)
    BY <2>1, TailIsSeq
  <2>3. faults' \in 0..MaxFaults
    BY <1>3, ConstantsAssumption DEF TypeOK, LoseAnswer, FailToRecord, StopDispatcher, Fault
  <2>4. CASE LoseAnswer(d)
    BY <2>2, <2>3, <2>4 DEF TypeOK, LoseAnswer, billing, reconciler
  <2>5. CASE FailToRecord(d)
    BY <2>2, <2>3, <2>5 DEF TypeOK, FailToRecord, billing, reconciler
  <2>6. CASE StopDispatcher(d)
    BY <2>2, <2>3, <2>6 DEF TypeOK, StopDispatcher, billing, reconciler
  <2> QED BY <1>3, <2>4, <2>5, <2>6
<1>4. ASSUME NEW r \in Requests, BecomeStale(r)
      PROVE  TypeOK'
  <2>1. Written(r, request[r].status, request[r].invoice, request[r].bound)
    BY <1>4, StaleWritten
  <2>2. \A s \in Requests : request'[s].invoice = None => request'[s].status = "none"
    BY <2>1, KeptReferences DEF Written, Keeps
  <2> QED BY <1>4, <2>1, <2>2 DEF TypeOK, BecomeStale, Written, dispatcher, reconciler
<1> QED BY <1>1, <1>2, <1>3, <1>4, ClaimForDispatchType, RecordType DEF DispatcherStep

LEMMA PaymentType ==
    ASSUME TypeOK, PaymentStep
    PROVE  TypeOK'
<1>1. ASSUME NEW r \in Requests, Arrive(r)
      PROVE  TypeOK'
  <2>1. payment' \in [Requests -> PaymentStatus]
    BY <1>1, PaymentCreateType DEF Arrive
  <2> QED BY <1>1, <2>1 DEF TypeOK, Arrive, billing, dispatcher, reconciler
<1>2. ASSUME NEW r \in Requests, PaymentCancel(r) \/ PaymentEnds(r)
      PROVE  TypeOK'
  <2>1. payment' \in [Requests -> PaymentStatus]
    BY <1>2 DEF TypeOK, PaymentCancel, PaymentEnds, PaymentStatus, Final
  <2> QED BY <1>2, <2>1 DEF TypeOK, PaymentCancel, PaymentEnds, billing, dispatcher, reconciler
<1>3. ASSUME NEW r \in Requests, DeliverEvent(r)
      PROVE  TypeOK'
  BY <1>3, ApplyPaymentEventType DEF TypeOK, DeliverEvent, Routes, dispatcher, reconciler
<1>4. CASE Redeploy
  <2>1. redeploys' \in 0..MaxRedeploys
    BY <1>4, ConstantsAssumption DEF TypeOK, Redeploy
  <2> QED BY <1>4, <2>1 DEF TypeOK, Redeploy, billing, dispatcher, reconciler
<1> QED BY <1>1, <1>2, <1>3, <1>4 DEF PaymentStep

LEMMA ReconcilerType ==
    ASSUME TypeOK, ReconcilerStep
    PROVE  TypeOK'
<1>1. CASE Age
  BY <1>1 DEF TypeOK, Age, billing, dispatcher, reconciler
<1>2. ASSUME NEW c \in Reconcilers, ReadPayment(c)
      PROVE  TypeOK'
  <2>1. Head(page[c]) \in Requests /\ Tail(page[c]) \in Seq(Requests)
    BY <1>2, TailIsSeq DEF TypeOK, ReadPayment
  <2> QED BY <1>2, <2>1 DEF TypeOK, ReadPayment, billing, dispatcher
<1>3. ASSUME NEW c \in Reconcilers, ApplyReconciledSnapshot(c)
      PROVE  TypeOK'
  <2>1. page[c] # <<>> /\ snapshot[c] \in Final
    BY <1>3 DEF TypeOK, ApplyReconciledSnapshot
  <2>2. Head(page[c]) \in Requests /\ Tail(page[c]) \in Seq(Requests)
    BY <2>1, TailIsSeq DEF TypeOK
  <2> QED BY <1>3, <2>1, <2>2, ApplyPaymentEventType
          DEF TypeOK, ApplyReconciledSnapshot, Routes, dispatcher
<1>4. ASSUME NEW c \in Reconcilers, FailToReconcile(c) \/ StopReconciler(c)
      PROVE  TypeOK'
  <2>1. page[c] # <<>> => Tail(page[c]) \in Seq(Requests)
    BY TailIsSeq DEF TypeOK
  <2>2. faults' \in 0..MaxFaults
    BY <1>4, ConstantsAssumption DEF TypeOK, FailToReconcile, StopReconciler, Fault
  <2>3. CASE FailToReconcile(c)
    BY <2>1, <2>2, <2>3 DEF TypeOK, FailToReconcile, billing, dispatcher
  <2>4. CASE StopReconciler(c)
    BY <2>2, <2>4 DEF TypeOK, StopReconciler, billing, dispatcher
  <2> QED BY <1>4, <2>3, <2>4
<1> QED BY <1>1, <1>2, <1>3, <1>4, FindStaleRequestedType DEF ReconcilerStep

LEMMA NextType ==
    ASSUME TypeOK, [Next]_vars
    PROVE  TypeOK'
<1>1. CASE UNCHANGED vars
  BY <1>1 DEF TypeOK, vars, billing, dispatcher, reconciler
<1> QED BY <1>1, ApiType, DispatcherType, PaymentType, ReconcilerType DEF Next

\* Every row keeps its shape, and every request beyond its creation its invoice,
\* for any number of invoices, requests and instances (the services' repositories).
THEOREM BillingTypeCorrect == Spec => []TypeOK
<1>1. Init => TypeOK
  BY InitType
<1>2. TypeOK /\ [Next]_vars => TypeOK'
  BY NextType
<1> QED BY <1>1, <1>2, PTL DEF Spec

-----------------------------------------------------------------------------
(* The inductive invariant *)

\* Payment may have heard of the request, or may still hear of it
Sent(r) == request[r].bound \/ request[r].status \in {"sending", "rejected"}

\* only what was sent has a payment: a request cancelled before never gets one
OnlySent == \A r \in Requests : payment[r] # "none" => Sent(r)

\* a payment id is stored with `requested' and kept; what ended on a payment ended
\* as the payment did, and what ended without one was cancelled before it was sent
Stages ==
    \A r \in Requests :
       /\ request[r].bound => request[r].status \in {"requested"} \cup Ended
       /\ request[r].status = "requested" => request[r].bound
       /\ request[r].status \in Ended =>
             IF request[r].bound
             THEN payment[r] \in Final /\ request[r].status = Target(payment[r])
             ELSE request[r].status = "cancelled"

\* the partial unique index and the guard of create: one active request of an
\* invoice, and none once it is paid
OneActive ==
    \A r, s \in Requests :
       /\ request[r].status \in Active
       /\ request[s].status \in Active
       /\ request[r].invoice = request[s].invoice
       => r = s
ActiveIsOpen == \A r \in Requests : request[r].status \in Active => invoice[request[r].invoice] = "open"

\* as long as the list of currencies stays as it is, a rejection is for good
Refusals ==
    redeploys = 0 =>
       \A r \in Requests : /\ request[r].invoice \in refused => payment[r] = "none"
                           /\ request[r].status = "rejected" => request[r].invoice \in refused

Books == OnlySent /\ Stages /\ OneActive /\ ActiveIsOpen /\ Refusals /\ PaidOnMoney

\* what is on the wire or in a dispatcher's hands was sent, or is marked so; what
\* it was answered, or a reconciler has read, is still so
HandsSent ==
    /\ \A r \in wire : Sent(r)
    /\ \A d \in Dispatchers : \A k \in DOMAIN claims[d] : Sent(claims[d][k])
AnswersStand ==
    redeploys = 0 => \A d \in Dispatchers : answer[d] = "rejected" => Refuses(Head(claims[d]))
ReadIsFinal == \A c \in Reconcilers : snapshot[c] # None => snapshot[c] = payment[Head(page[c])]

Hands == HandsSent /\ AnswersStand /\ ReadIsFinal

IInv == TypeOK /\ Books /\ Hands

-----------------------------------------------------------------------------
(* The books *)

LEMMA PaidKept ==
    ASSUME PaidOnMoney, UNCHANGED linked,
           \A i \in Invoices : invoice'[i] = "paid" <=> invoice[i] = "paid",
           \A r \in Requests :
              /\ request'[r].status = "paid" <=> request[r].status = "paid"
              /\ request[r].status = "paid" => request'[r].invoice = request[r].invoice
              /\ payment[r] = "succeeded" => payment'[r] = "succeeded"
    PROVE  PaidOnMoney'
<1> SUFFICES ASSUME NEW i \in Invoices
             PROVE  LET paid == {r \in RequestsOf(i)' : request'[r].status = "paid"}
                    IN  /\ Cardinality(paid) = linked'[i]
                        /\ linked'[i] = IF invoice'[i] = "paid" THEN 1 ELSE 0
                        /\ \A r \in paid : payment'[r] = "succeeded"
  BY DEF PaidOnMoney
<1> DEFINE paid == {r \in RequestsOf(i) : request[r].status = "paid"}
           after == {r \in RequestsOf(i)' : request'[r].status = "paid"}
<1>1. after = paid
  BY DEF RequestsOf
<1>2. /\ Cardinality(paid) = linked[i]
      /\ linked[i] = IF invoice[i] = "paid" THEN 1 ELSE 0
      /\ \A r \in paid : payment[r] = "succeeded"
  BY DEF PaidOnMoney
<1>3. \A r \in paid : r \in Requests
  BY DEF RequestsOf
<1> QED BY <1>1, <1>2, <1>3

\* Every step in which requests keep their place: Payment may make a payment
\* of a request that was sent and that it does not refuse, and may end one.
LEMMA BooksKept ==
    ASSUME TypeOK, Books, UNCHANGED linked,
           \A r \in Requests : Keeps(r),
           \A i \in Invoices : /\ invoice[i] # "draft" => invoice'[i] = invoice[i]
                               /\ invoice'[i] = "paid" <=> invoice[i] = "paid",
           \A r \in Requests :
              /\ payment[r] \in Final => payment'[r] = payment[r]
              /\ payment[r] = "none" =>
                    payment'[r] = "none" \/ (Sent(r) /\ ~ Refuses(r)),
           redeploys' = 0 => redeploys = 0 /\ refused' = refused
    PROVE  Books'
<1>1. OnlySent'
  BY DEF Books, OnlySent, Sent, Keeps, Final
<1>2. Stages'
  <2> SUFFICES ASSUME NEW r \in Requests
               PROVE  /\ request'[r].bound => request'[r].status \in {"requested"} \cup Ended
                      /\ request'[r].status = "requested" => request'[r].bound
                      /\ request'[r].status \in Ended =>
                            IF request'[r].bound
                            THEN payment'[r] \in Final /\ request'[r].status = Target(payment'[r])
                            ELSE request'[r].status = "cancelled"
    BY DEF Stages
  <2> QED BY DEF Books, Stages, Keeps
<1>3. OneActive'
  BY DEF Books, OneActive, Keeps
<1>4. ActiveIsOpen'
  <2> SUFFICES ASSUME NEW r \in Requests, request'[r].status \in Active
               PROVE  invoice'[request'[r].invoice] = "open"
    BY DEF ActiveIsOpen
  <2>1. request[r].status \in Active /\ request'[r].invoice = request[r].invoice
    BY DEF Keeps
  <2>2. request[r].invoice \in Invoices
    BY <2>1 DEF TypeOK, RequestRow, Active
  <2> QED BY <2>1, <2>2 DEF Books, ActiveIsOpen
<1>5. Refusals'
  BY DEF Books, Refusals, Refuses, Keeps
<1>6. PaidOnMoney'
  BY PaidKept DEF Books, Keeps, Final
<1> QED BY <1>1, <1>2, <1>3, <1>4, <1>5, <1>6 DEF Books

\* A new request, where its invoice has no active one
LEMMA BooksCreate ==
    ASSUME TypeOK, Books, NEW i \in Invoices, NEW r \in Requests, CreateForInvoice(i, r)
    PROVE  Books'
<1>1. /\ Written(r, "created", i, request[r].bound)
      /\ request[r].status = "none" /\ invoice[i] = "open" /\ ~ HasActive(i)
      /\ UNCHANGED <<invoice, linked, payment, refused, redeploys>>
  BY CreateWritten DEF CreateForInvoice
<1>2. ~ request[r].bound /\ ~ Sent(r) /\ payment[r] = "none"
  BY <1>1 DEF Books, Stages, OnlySent, Sent, Ended
<1>3. \A q \in Requests \ {r} : request'[q] = request[q]
  BY <1>1 DEF Written
<1>4. /\ request'[r].status = "created" /\ request'[r].invoice = i /\ ~ request'[r].bound
      /\ payment'[r] = "none"
  BY <1>1, <1>2 DEF Written
<1>5. OnlySent'
  BY <1>1, <1>3, <1>4 DEF Books, OnlySent, Sent
<1>6. Stages'
  BY <1>1, <1>3, <1>4 DEF Books, Stages, Ended
<1>7. OneActive'
  <2>1. \A q \in Requests \ {r} : request[q].status \in Active => request[q].invoice # i
    BY <1>1 DEF HasActive, RequestsOf
  <2> QED BY <1>3, <1>4, <2>1 DEF Books, OneActive
<1>8. ActiveIsOpen'
  BY <1>1, <1>3, <1>4 DEF Books, ActiveIsOpen
<1>9. Refusals'
  BY <1>1, <1>3, <1>4 DEF Books, Refusals
<1>10. PaidOnMoney'
  <2>1. \A q \in Requests :
           /\ request'[q].status = "paid" <=> request[q].status = "paid"
           /\ request[q].status = "paid" => request'[q].invoice = request[q].invoice
    BY <1>1, <1>3, <1>4
  <2> QED BY <1>1, <2>1, PaidKept DEF Books
<1> QED BY <1>5, <1>6, <1>7, <1>8, <1>9, <1>10 DEF Books

\* A request that moves on before Payment has ended it: created to cancelled or
\* sending, sending to requested or rejected, where a rejection is of a refused
\* invoice.
LEMMA BooksMove ==
    ASSUME TypeOK, Books, UNCHANGED <<invoice, linked, payment, refused, redeploys>>,
           \A r \in Requests :
              \/ Keeps(r)
              \/ /\ request'[r].invoice = request[r].invoice
                 /\ \/ /\ request[r].status = "created"
                       /\ request'[r].status \in {"cancelled", "sending"}
                       /\ request'[r].bound = request[r].bound
                    \/ /\ request[r].status = "sending"
                       /\ request'[r].status = "sending"
                       /\ request'[r].bound = request[r].bound
                    \/ /\ request[r].status = "sending"
                       /\ request'[r].status = "requested"
                       /\ request'[r].bound
                    \/ /\ request[r].status = "sending"
                       /\ request'[r].status = "rejected"
                       /\ request'[r].bound = request[r].bound
                       /\ redeploys = 0 => Refuses(r)
    PROVE  Books'
<1>1. \A r \in Requests :
         /\ request'[r].invoice = request[r].invoice
         /\ request'[r].status \in Active => request[r].status \in Active
         /\ request'[r].status = "paid" <=> request[r].status = "paid"
  BY DEF Keeps, Active
<1>2. OnlySent'
  <2> SUFFICES ASSUME NEW r \in Requests, payment[r] # "none"
               PROVE  Sent(r)'
    BY DEF OnlySent
  <2>1. Sent(r)
    BY DEF Books, OnlySent
  <2>2. request[r].status # "created"
    BY <2>1 DEF Books, Stages, Sent, Ended
  <2> QED BY <2>1, <2>2 DEF Keeps, Sent
<1>3. Stages'
  <2> SUFFICES ASSUME NEW r \in Requests
               PROVE  /\ request'[r].bound => request'[r].status \in {"requested"} \cup Ended
                      /\ request'[r].status = "requested" => request'[r].bound
                      /\ request'[r].status \in Ended =>
                            IF request'[r].bound
                            THEN payment'[r] \in Final /\ request'[r].status = Target(payment'[r])
                            ELSE request'[r].status = "cancelled"
    BY DEF Stages
  <2>1. CASE Keeps(r)
    BY <2>1 DEF Books, Stages, Keeps
  <2>2. CASE ~ Keeps(r)
    <3>1. request[r].status \in {"created", "sending"}
      BY <2>2
    <3>2. ~ request[r].bound
      BY <3>1 DEF Books, Stages, Ended
    <3> QED BY <2>2, <3>2 DEF Ended
  <2> QED BY <2>1, <2>2
<1>4. OneActive'
  BY <1>1 DEF Books, OneActive
<1>5. ActiveIsOpen'
  BY <1>1 DEF Books, ActiveIsOpen
<1>6. Refusals'
  BY <1>1 DEF Books, Refusals, Refuses, Keeps
<1>7. PaidOnMoney'
  BY <1>1, PaidKept DEF Books
<1> QED BY <1>2, <1>3, <1>4, <1>5, <1>6, <1>7 DEF Books

\* The end of a payment is applied: the request was the only active one of its
\* invoice, and no other was paid.
LEMMA BooksApply ==
    ASSUME TypeOK, Books, NEW r \in Requests, NEW route, NEW outcome \in Final,
           ApplyPaymentEvent(r, route, outcome), payment[r] = outcome,
           UNCHANGED <<payment, refused, redeploys>>
    PROVE  Books'
<1>1. CASE UNCHANGED billing
  <2>1. UNCHANGED <<invoice, linked, request>>
    BY <1>1 DEF billing
  <2>2. \A q \in Requests : Keeps(q)
    BY <2>1 DEF Keeps
  <2>3. \A q \in Requests : /\ payment[q] \in Final => payment'[q] = payment[q]
                            /\ payment[q] = "none" =>
                                  payment'[q] = "none" \/ (Sent(q) /\ ~ Refuses(q))
    OBVIOUS
  <2>4. \A i \in Invoices : /\ invoice[i] # "draft" => invoice'[i] = invoice[i]
                            /\ invoice'[i] = "paid" <=> invoice[i] = "paid"
    BY <2>1
  <2>5. UNCHANGED linked /\ (redeploys' = 0 => redeploys = 0 /\ refused' = refused)
    BY <2>1
  <2> HIDE <1>1
  <2> QED BY <2>2, <2>3, <2>4, <2>5, BooksKept
<1>2. CASE ~ UNCHANGED billing
  <2> DEFINE i == request[r].invoice
             status == Target(outcome)
  <2>1. /\ Applies(r, outcome)
        /\ i \in Invoices
        /\ Written(r, status, i, request[r].bound)
        /\ \/ /\ outcome = "succeeded"
              /\ invoice' = [invoice EXCEPT ![i] = "paid"]
              /\ linked' = [linked EXCEPT ![i] = @ + 1]
           \/ outcome # "succeeded" /\ UNCHANGED <<invoice, linked>>
    BY <1>2, ApplyWritten
  <2>2. /\ request[r].bound /\ request[r].status = "requested"
        /\ request[r].status \in Active /\ invoice[i] = "open"
    BY <2>1 DEF Applies, Books, ActiveIsOpen, Active
  <2>3. /\ status \in Ended
        /\ status = "paid" <=> outcome = "succeeded"
        /\ status \notin Active
        /\ status # "rejected"
    BY DEF Target, Ended, Active, Final
  <2>4. /\ request'[r].status = status /\ request'[r].invoice = i /\ request'[r].bound
        /\ \A q \in Requests \ {r} : request'[q] = request[q]
    BY <2>1, <2>2 DEF Written
  <2> HIDE DEF status
  <2>5. OnlySent'
    BY <2>4 DEF Books, OnlySent, Sent
  <2>6. Stages'
    <3>1. \A q \in Requests \ {r} : request'[q] = request[q] /\ payment'[q] = payment[q]
      BY <2>4
    <3>2. /\ request'[r].status \in Ended /\ request'[r].bound
          /\ payment'[r] \in Final /\ request'[r].status = Target(payment'[r])
          /\ request'[r].status # "requested"
      BY <2>3, <2>4 DEF status, Ended
    <3> QED BY <3>1, <3>2 DEF Books, Stages
  <2>7. OneActive'
    BY <2>3, <2>4 DEF Books, OneActive
  <2>8. ActiveIsOpen'
    <3> SUFFICES ASSUME NEW q \in Requests, request'[q].status \in Active
                 PROVE  invoice'[request'[q].invoice] = "open"
      BY DEF ActiveIsOpen
    <3>1. q # r /\ request'[q] = request[q] /\ request[q].status \in Active
      BY <2>3, <2>4
    <3>2. request[q].invoice # i
      BY <2>2, <3>1 DEF Books, OneActive
    <3>3. request[q].invoice \in Invoices /\ invoice[request[q].invoice] = "open"
      BY <3>1 DEF TypeOK, RequestRow, Active, Books, ActiveIsOpen
    <3> QED BY <2>1, <3>1, <3>2, <3>3 DEF TypeOK
  <2>9. Refusals'
    BY <2>3, <2>4 DEF Books, Refusals
  <2>10. PaidOnMoney'
    <3>1. CASE outcome # "succeeded"
      <4>1. \A q \in Requests :
               /\ request'[q].status = "paid" <=> request[q].status = "paid"
               /\ request'[q].invoice = request[q].invoice
        BY <2>2, <2>3, <2>4, <3>1
      <4> QED BY <2>1, <3>1, <4>1, PaidKept DEF Books
    <3>2. CASE outcome = "succeeded"
      <4> DEFINE paid(j) == {q \in RequestsOf(j) : request[q].status = "paid"}
                 after(j) == {q \in RequestsOf(j)' : request'[q].status = "paid"}
      <4>1. /\ invoice' = [invoice EXCEPT ![i] = "paid"]
            /\ linked' = [linked EXCEPT ![i] = @ + 1]
            /\ request'[r].status = "paid" /\ request[r].status # "paid"
        BY <2>1, <2>2, <2>3, <2>4, <3>2
      <4>2. \A j \in Invoices : IsFiniteSet(paid(j))
        <5>1. \A j \in Invoices : paid(j) \in SUBSET Requests
          BY DEF RequestsOf
        <5> QED BY <5>1, FS_Subset, ConstantsAssumption
      <4>3. /\ linked[i] = 0 /\ Cardinality(paid(i)) = 0
        BY <2>1, <2>2 DEF Books, PaidOnMoney
      <4>4. paid(i) = {}
        BY <2>1, <4>2, <4>3, FS_EmptySet
      <4>5. after(i) = {r}
        BY <2>4, <4>1, <4>4 DEF RequestsOf
      <4>6. /\ Cardinality(after(i)) = 1 /\ linked'[i] = 1 /\ invoice'[i] = "paid"
            /\ \A q \in after(i) : payment'[q] = "succeeded"
        <5>1. Cardinality(after(i)) = 1
          BY <4>5, FS_Singleton
        <5>2. linked'[i] = 1 /\ invoice'[i] = "paid"
          BY <2>1, <4>1, <4>3 DEF TypeOK
        <5>3. payment'[r] = "succeeded"
          BY <3>2
        <5> QED BY <4>5, <5>1, <5>2, <5>3
      <4>7. ASSUME NEW j \in Invoices \ {i}
            PROVE  /\ after(j) = paid(j)
                   /\ linked'[j] = linked[j] /\ invoice'[j] = invoice[j]
        <5>1. linked'[j] = linked[j] /\ invoice'[j] = invoice[j]
          BY <2>1, <4>1 DEF TypeOK
        <5>2. \A q \in Requests : /\ request'[q].invoice = request[q].invoice
                                  /\ q # r => request'[q].status = request[q].status
          BY <2>4
        <5>3. request[r].invoice # j
          OBVIOUS
        <5>4. after(j) = paid(j)
          BY <5>2, <5>3 DEF RequestsOf
        <5> QED BY <5>1, <5>4
      <4>8. \A j \in Invoices : \A q \in paid(j) : payment'[q] = "succeeded"
        BY DEF Books, PaidOnMoney
      <4>10. ASSUME NEW j \in Invoices
             PROVE  /\ Cardinality(paid(j)) = linked[j]
                    /\ linked[j] = IF invoice[j] = "paid" THEN 1 ELSE 0
        BY DEF Books, PaidOnMoney
      <4> HIDE DEF paid, after
      <4>9. ASSUME NEW j \in Invoices
            PROVE  /\ Cardinality(after(j)) = linked'[j]
                   /\ linked'[j] = IF invoice'[j] = "paid" THEN 1 ELSE 0
                   /\ \A q \in after(j) : payment'[q] = "succeeded"
        <5>1. CASE j = i
          BY <4>6, <5>1
        <5>2. CASE j # i
          BY <4>7, <4>8, <4>10, <5>2
        <5> QED BY <5>1, <5>2
      <4> QED BY <4>9 DEF PaidOnMoney, after
    <3> QED BY <3>1, <3>2
  <2> QED BY <2>5, <2>6, <2>7, <2>8, <2>9, <2>10 DEF Books
<1> QED BY <1>1, <1>2

-----------------------------------------------------------------------------
(* What is in flight *)

SentAfter(r) == request'[r].bound \/ request'[r].status \in {"sending", "rejected"}

\* what was sent stays sent and of its invoice, and a final payment stays final
Grows ==
    /\ \A r \in Requests : Sent(r) => SentAfter(r) /\ request'[r].invoice = request[r].invoice
    /\ \A r \in Requests : payment[r] \in Final => payment'[r] = payment[r]
    /\ redeploys' = 0 => redeploys = 0 /\ refused' = refused

LEMMA KeepsGrow ==
    ASSUME \A r \in Requests : Keeps(r),
           \A r \in Requests : payment[r] \in Final => payment'[r] = payment[r],
           redeploys' = 0 => redeploys = 0 /\ refused' = refused
    PROVE  Grows
BY DEF Grows, Keeps, Sent, SentAfter

\* a pass loses its head or all it has, gets fresh claims, or learns an answer
LEMMA HandsKept ==
    ASSUME TypeOK, Hands, Grows,
           \A r \in wire' : r \in Requests /\ SentAfter(r),
           \A d \in Dispatchers :
              \/ /\ claims'[d] = claims[d]
                 /\ \/ answer'[d] = answer[d]
                    \/ redeploys = 0 /\ answer'[d] = "rejected" => Refuses(Head(claims[d]))
                 /\ answer'[d] # "none" => claims[d] # <<>>
              \/ /\ answer'[d] = "none"
                 /\ \A k \in DOMAIN claims'[d] : SentAfter(claims'[d][k]),
           \A c \in Reconcilers :
              \/ snapshot'[c] = None
              \/ snapshot'[c] = snapshot[c] /\ page'[c] = page[c]
              \/ snapshot'[c] = payment'[Head(page'[c])]
    PROVE  Hands'
<1>1. ASSUME NEW d \in Dispatchers, NEW k \in DOMAIN claims[d]
      PROVE  claims[d][k] \in Requests /\ Sent(claims[d][k])
  BY DEF TypeOK, Hands, HandsSent
<1>2. ASSUME NEW d \in Dispatchers, claims[d] # <<>>
      PROVE  Head(claims[d]) \in Requests /\ Sent(Head(claims[d]))
  <2>1. Head(claims[d]) \in Requests /\ \E j \in DOMAIN claims[d] : Head(claims[d]) = claims[d][j]
    BY <1>2, TailIsSeq DEF TypeOK
  <2> QED BY <2>1, <1>1
<1>3. HandsSent'
  <2> SUFFICES ASSUME NEW d \in Dispatchers, NEW k \in DOMAIN claims'[d]
               PROVE  SentAfter(claims'[d][k])
    BY DEF HandsSent, Sent, SentAfter
  <2>1. CASE claims'[d] = claims[d]
    <3>1. claims[d][k] \in Requests /\ Sent(claims[d][k])
      BY <2>1, <1>1
    <3>2. SentAfter(claims[d][k])
      BY <3>1 DEF Grows
    <3> QED BY <2>1, <3>2
  <2> QED BY <2>1
<1>4. AnswersStand'
  <2> SUFFICES ASSUME redeploys' = 0, NEW d \in Dispatchers, answer'[d] = "rejected"
               PROVE  Refuses(Head(claims[d])) /\ claims'[d] = claims[d] /\ claims[d] # <<>>
    <3>1. ASSUME NEW d \in Dispatchers, redeploys' = 0, claims[d] # <<>>, claims'[d] = claims[d],
                 Refuses(Head(claims[d]))
          PROVE  Refuses(Head(claims[d]))'
      BY <1>2, <3>1 DEF Refuses, Grows
    <3> QED BY <3>1 DEF AnswersStand
  <2>1. redeploys = 0
    BY DEF Grows
  <2>2. CASE answer'[d] = answer[d]
    BY <2>1, <2>2 DEF Hands, AnswersStand, TypeOK
  <2> QED BY <2>1, <2>2
<1>5. ReadIsFinal'
  <2> SUFFICES ASSUME NEW c \in Reconcilers, snapshot'[c] # None, snapshot'[c] # payment'[Head(page'[c])]
               PROVE  FALSE
    BY DEF ReadIsFinal
  <2>1. snapshot'[c] = snapshot[c] /\ page'[c] = page[c] /\ page[c] # <<>>
    BY DEF TypeOK
  <2>2. Head(page[c]) \in Requests
    BY <2>1, TailIsSeq DEF TypeOK
  <2>3. payment[Head(page[c])] = snapshot[c] /\ snapshot[c] \in Final
    BY <2>1 DEF Hands, ReadIsFinal, TypeOK
  <2> QED BY <2>1, <2>2, <2>3 DEF Grows
<1> QED BY <1>3, <1>4, <1>5 DEF Hands

\* the common case: what is in hand stays in hand
LEMMA HandsStay ==
    ASSUME TypeOK, Hands, Grows, UNCHANGED <<wire, dispatcher, reconciler>>
    PROVE  Hands'
<1>1. \A r \in wire' : r \in Requests /\ SentAfter(r)
  BY DEF Hands, HandsSent, Grows, TypeOK
<1>2. \A d \in Dispatchers : /\ claims'[d] = claims[d] /\ answer'[d] = answer[d]
                             /\ answer'[d] # "none" => claims[d] # <<>>
  BY DEF dispatcher, TypeOK
<1>3. \A c \in Reconcilers : snapshot'[c] = snapshot[c] /\ page'[c] = page[c]
  BY DEF reconciler
<1> QED BY <1>1, <1>2, <1>3, HandsKept

\* a pass that still has claims: its head was sent, and so was the rest
LEMMA ClaimsSent ==
    ASSUME TypeOK, Hands, NEW d \in Dispatchers
    PROVE  /\ \A k \in DOMAIN claims[d] : claims[d][k] \in Requests /\ Sent(claims[d][k])
           /\ claims[d] # <<>> =>
                 /\ Head(claims[d]) \in Requests /\ Sent(Head(claims[d]))
                 /\ \A k \in DOMAIN Tail(claims[d]) :
                       Tail(claims[d])[k] \in Requests /\ Sent(Tail(claims[d])[k])
<1>1. \A k \in DOMAIN claims[d] : claims[d][k] \in Requests /\ Sent(claims[d][k])
  BY DEF TypeOK, Hands, HandsSent
<1>2. ASSUME claims[d] # <<>>
      PROVE  /\ Head(claims[d]) \in Requests /\ Sent(Head(claims[d]))
             /\ \A k \in DOMAIN Tail(claims[d]) :
                   Tail(claims[d])[k] \in Requests /\ Sent(Tail(claims[d])[k])
  <2>1. /\ \E j \in DOMAIN claims[d] : Head(claims[d]) = claims[d][j]
        /\ \A k \in DOMAIN Tail(claims[d]) : \E j \in DOMAIN claims[d] : Tail(claims[d])[k] = claims[d][j]
    BY <1>2, TailIsSeq DEF TypeOK
  <2> QED BY <1>1, <2>1
<1> QED BY <1>1, <1>2

\* a step that only writes flags or times of requests
LEMMA FlagStep ==
    ASSUME TypeOK, Books, \A q \in Requests : Keeps(q),
           UNCHANGED <<invoice, linked, payment, refused, redeploys>>
    PROVE  Books' /\ Grows
<1>1. \A q \in Requests : /\ payment[q] \in Final => payment'[q] = payment[q]
                          /\ payment[q] = "none" =>
                                payment'[q] = "none" \/ (Sent(q) /\ ~ Refuses(q))
  OBVIOUS
<1>2. \A i \in Invoices : /\ invoice[i] # "draft" => invoice'[i] = invoice[i]
                          /\ invoice'[i] = "paid" <=> invoice[i] = "paid"
  OBVIOUS
<1>3. UNCHANGED linked /\ (redeploys' = 0 => redeploys = 0 /\ refused' = refused)
  OBVIOUS
<1>4. Books'
  BY <1>1, <1>2, <1>3, BooksKept
<1>5. Grows
  BY <1>1, <1>3, KeepsGrow
<1> QED BY <1>4, <1>5

\* a step that touches neither the books nor Payment
LEMMA QuietStep ==
    ASSUME TypeOK, Books, UNCHANGED <<invoice, linked, request, payment, refused, redeploys>>
    PROVE  Books' /\ Grows
<1>1. \A q \in Requests : Keeps(q)
  BY DEF Keeps
<1>2. UNCHANGED <<invoice, linked, payment, refused, redeploys>>
  OBVIOUS
<1> QED BY <1>1, <1>2, FlagStep

\* Payment creates a payment of a request that was sent
LEMMA CreateStep ==
    ASSUME TypeOK, Books, NEW r \in Requests, Sent(r), PaymentCreate(r),
           UNCHANGED <<invoice, linked, request, refused, redeploys>>
    PROVE  Books' /\ Grows
<1>1. \A q \in Requests : Keeps(q)
  BY DEF Keeps
<1>2. \A q \in Requests : /\ payment[q] \in Final => payment'[q] = payment[q]
                          /\ payment[q] = "none" =>
                                payment'[q] = "none" \/ (Sent(q) /\ ~ Refuses(q))
  <2>1. payment' = payment \/ (payment[r] = "none" /\ ~ Refuses(r) /\ payment' = [payment EXCEPT ![r] = "open"])
    BY DEF PaymentCreate
  <2> QED BY <2>1 DEF TypeOK, Final
<1>3. \A i \in Invoices : /\ invoice[i] # "draft" => invoice'[i] = invoice[i]
                          /\ invoice'[i] = "paid" <=> invoice[i] = "paid"
  OBVIOUS
<1>4. UNCHANGED linked /\ (redeploys' = 0 => redeploys = 0 /\ refused' = refused)
  OBVIOUS
<1>5. Books'
  BY <1>1, <1>2, <1>3, <1>4, BooksKept
<1>6. Grows
  BY <1>1, <1>2, <1>4, KeepsGrow
<1> QED BY <1>5, <1>6

-----------------------------------------------------------------------------
(* Every step *)

LEMMA ApiInv ==
    ASSUME IInv, ApiStep
    PROVE  Books' /\ Hands'
<1> USE DEF IInv
<1>1. ASSUME NEW i \in Invoices, Issue(i) \/ Discard(i)
      PROVE  Books' /\ Hands'
  <2>1. \A q \in Requests : Keeps(q)
    BY <1>1 DEF Issue, Discard, Keeps
  <2>2. \A q \in Requests : /\ payment[q] \in Final => payment'[q] = payment[q]
                            /\ payment[q] = "none" =>
                                  payment'[q] = "none" \/ (Sent(q) /\ ~ Refuses(q))
    BY <1>1 DEF Issue, Discard
  <2>3. \A j \in Invoices : /\ invoice[j] # "draft" => invoice'[j] = invoice[j]
                            /\ invoice'[j] = "paid" <=> invoice[j] = "paid"
    BY <1>1 DEF Issue, Discard, TypeOK
  <2>4. UNCHANGED linked /\ (redeploys' = 0 => redeploys = 0 /\ refused' = refused)
    BY <1>1 DEF Issue, Discard
  <2>5. Books'
    BY <2>1, <2>2, <2>3, <2>4, BooksKept
  <2>6. Grows
    BY <2>1, <2>2, <2>4, KeepsGrow
  <2>7. UNCHANGED <<wire, dispatcher, reconciler>>
    BY <1>1 DEF Issue, Discard
  <2> QED BY <2>5, <2>6, <2>7, HandsStay
<1>2. ASSUME NEW i \in Invoices, NEW r \in Requests, CreateForInvoice(i, r)
      PROVE  Books' /\ Hands'
  <2>1. Written(r, "created", i, request[r].bound) /\ ~ Sent(r)
    BY <1>2, CreateWritten DEF CreateForInvoice, Sent, Books, Stages, Ended
  <2>2. Grows
    BY <1>2, <2>1 DEF Grows, Written, Sent, SentAfter, CreateForInvoice
  <2>3. UNCHANGED <<wire, dispatcher, reconciler>>
    BY <1>2 DEF CreateForInvoice
  <2> QED BY <1>2, <2>2, <2>3, BooksCreate, HandsStay
<1>3. ASSUME NEW r \in Requests, CancelUnsent(r)
      PROVE  Books' /\ Hands'
  <2>1. /\ Written(r, "cancelled", request[r].invoice, request[r].bound)
        /\ request[r].status = "created"
    BY <1>3, StatusWritten DEF CancelUnsent, RequestStatus, Ended
  <2>2. UNCHANGED <<invoice, linked, payment, refused, redeploys, wire, dispatcher, reconciler>>
    BY <1>3 DEF CancelUnsent
  <2>3. \A q \in Requests :
           \/ Keeps(q)
           \/ /\ request'[q].invoice = request[q].invoice
              /\ request[q].status = "created" /\ request'[q].status = "cancelled"
              /\ request'[q].bound = request[q].bound
    BY <2>1 DEF Written, Keeps
  <2>4. Books'
    BY <2>2, <2>3, BooksMove
  <2>5. Grows
    BY <2>2, <2>3 DEF Grows, Keeps, Sent, SentAfter
  <2> QED BY <2>2, <2>4, <2>5, HandsStay
<1>4. ASSUME NEW r \in Requests, MarkCancelRequested(r)
      PROVE  Books' /\ Hands'
  <2>1. \A q \in Requests : Keeps(q)
    BY <1>4, CancelRequestedWritten DEF Written, Keeps
  <2>2. UNCHANGED <<invoice, linked, payment, refused, redeploys, wire, dispatcher, reconciler>>
    BY <1>4 DEF MarkCancelRequested
  <2> QED BY <2>1, <2>2, FlagStep, HandsStay
<1> QED BY <1>1, <1>2, <1>3, <1>4 DEF ApiStep

LEMMA ClaimInv ==
    ASSUME IInv, NEW d \in Dispatchers, ClaimForDispatch(d)
    PROVE  Books' /\ Hands'
<1> USE DEF IInv
<1>1. UNCHANGED <<invoice, linked, payment, refused, redeploys, wire, answer, reconciler>>
  BY DEF ClaimForDispatch
<1>2. \A q \in Requests :
         \/ Keeps(q)
         \/ /\ request'[q].invoice = request[q].invoice
            /\ request[q].status \in {"created", "sending"} /\ request'[q].status = "sending"
            /\ request'[q].bound = request[q].bound
  BY ClaimWritten
<1>3. Books'
  BY <1>1, <1>2, BooksMove
<1>4. Grows
  BY <1>1, <1>2 DEF Grows, Keeps, Sent, SentAfter
<1>5. \A r \in wire' : r \in Requests /\ SentAfter(r)
  BY <1>1, <1>4 DEF Hands, HandsSent, Grows, TypeOK
<1>6. ASSUME NEW e \in Dispatchers
      PROVE  \/ /\ claims'[e] = claims[e] /\ answer'[e] = answer[e]
                /\ answer'[e] # "none" => claims[e] # <<>>
             \/ /\ answer'[e] = "none"
                /\ \A k \in DOMAIN claims'[e] : SentAfter(claims'[e][k])
  <2>1. CASE e = d
    <3>1. answer'[d] = "none"
      BY <1>1 DEF ClaimForDispatch, TypeOK
    <3>2. \A k \in DOMAIN claims'[d] : request'[claims'[d][k]].status = "sending"
      BY ClaimWritten
    <3> QED BY <2>1, <3>1, <3>2 DEF SentAfter
  <2>2. CASE e # d
    <3>1. claims'[e] = claims[e]
      BY <2>2, ClaimWritten
    <3> QED BY <1>1, <3>1 DEF TypeOK
  <2> QED BY <2>1, <2>2
<1>7. \A c \in Reconcilers : snapshot'[c] = snapshot[c] /\ page'[c] = page[c]
  BY <1>1 DEF reconciler
<1> QED BY <1>3, <1>4, <1>5, <1>6, <1>7, HandsKept

LEMMA SendInv ==
    ASSUME IInv, NEW d \in Dispatchers, Send(d)
    PROVE  Books' /\ Hands'
<1> USE DEF IInv
<1>1. /\ claims[d] # <<>> /\ PaymentCreate(Head(claims[d]))
      /\ UNCHANGED <<invoice, linked, request, refused, redeploys, wire, claims, page, snapshot>>
      /\ answer' = [answer EXCEPT ![d] = IF Refuses(Head(claims[d])) THEN "rejected" ELSE "accepted"]
  BY DEF Send, billing, reconciler
<1>2. Head(claims[d]) \in Requests /\ Sent(Head(claims[d]))
  BY <1>1, ClaimsSent
<1>3. Books' /\ Grows
  BY <1>1, <1>2, CreateStep
<1>4. \A r \in wire' : r \in Requests /\ SentAfter(r)
  BY <1>1, <1>3 DEF Hands, HandsSent, Grows, TypeOK
<1>5. ASSUME NEW e \in Dispatchers
      PROVE  /\ claims'[e] = claims[e]
             /\ \/ answer'[e] = answer[e]
                \/ answer'[e] = "rejected" => Refuses(Head(claims[e]))
             /\ answer'[e] # "none" => claims[e] # <<>>
  <2>1. CASE e = d
    BY <1>1, <2>1 DEF TypeOK
  <2>2. CASE e # d
    BY <1>1, <2>2 DEF TypeOK
  <2> QED BY <2>1, <2>2
<1>6. \A c \in Reconcilers : snapshot'[c] = snapshot[c] /\ page'[c] = page[c]
  BY <1>1
<1> QED BY <1>3, <1>4, <1>5, <1>6, HandsKept

\* a dispatcher that goes on with the rest of its claims, or with none
LEMMA PassGoesOn ==
    ASSUME IInv, Grows, NEW d \in Dispatchers, claims[d] # <<>>,
           claims' = [claims EXCEPT ![d] = Tail(@)] \/ claims' = [claims EXCEPT ![d] = <<>>],
           answer' = [answer EXCEPT ![d] = "none"],
           wire' = wire \/ wire' = wire \cup {Head(claims[d])},
           UNCHANGED <<page, snapshot>>
    PROVE  Hands'
<1> USE DEF IInv
<1>1. /\ Head(claims[d]) \in Requests /\ SentAfter(Head(claims[d]))
      /\ \A k \in DOMAIN Tail(claims[d]) : SentAfter(Tail(claims[d])[k])
  BY ClaimsSent DEF Grows
<1>2. \A r \in wire' : r \in Requests /\ SentAfter(r)
  BY <1>1 DEF Hands, HandsSent, Grows, TypeOK
<1>3. ASSUME NEW e \in Dispatchers
      PROVE  \/ /\ claims'[e] = claims[e] /\ answer'[e] = answer[e]
                /\ answer'[e] # "none" => claims[e] # <<>>
             \/ /\ answer'[e] = "none"
                /\ \A k \in DOMAIN claims'[e] : SentAfter(claims'[e][k])
  <2>1. CASE e = d
    <3>1. answer'[d] = "none"
      BY DEF TypeOK
    <3>2. claims'[d] = Tail(claims[d]) \/ claims'[d] = <<>>
      BY DEF TypeOK
    <3>3. \A k \in DOMAIN claims'[d] : SentAfter(claims'[d][k])
      <4>1. CASE claims'[d] = Tail(claims[d])
        BY <1>1, <4>1
      <4>2. CASE claims'[d] = <<>>
        BY <4>2
      <4> QED BY <3>2, <4>1, <4>2
    <3> QED BY <2>1, <3>1, <3>3
  <2>2. CASE e # d
    BY <2>2 DEF TypeOK
  <2> QED BY <2>1, <2>2
<1>4. \A c \in Reconcilers : snapshot'[c] = snapshot[c] /\ page'[c] = page[c]
  OBVIOUS
<1> QED BY <1>2, <1>3, <1>4, HandsKept

LEMMA RecordInv ==
    ASSUME IInv, NEW d \in Dispatchers, Record(d)
    PROVE  Books' /\ Hands'
<1> USE DEF IInv
<1> DEFINE r == Head(claims[d])
<1>1. /\ UNCHANGED <<invoice, linked, payment, refused, redeploys, wire, page, snapshot>>
      /\ claims' = [claims EXCEPT ![d] = Tail(@)]
      /\ answer' = [answer EXCEPT ![d] = "none"]
  BY DEF Record, reconciler
<1>2. /\ claims[d] # <<>> /\ r \in Requests
      /\ \/ UNCHANGED request
         \/ /\ request[r].status = "sending"
            /\ \/ Written(r, "requested", request[r].invoice, TRUE)
               \/ /\ answer[d] = "rejected"
                  /\ Written(r, "rejected", request[r].invoice, request[r].bound)
  BY RecordWritten
<1>3. answer[d] = "rejected" /\ redeploys = 0 => Refuses(r)
  BY DEF Hands, AnswersStand
<1> HIDE DEF r
<1>4. \A q \in Requests :
         \/ Keeps(q)
         \/ /\ request'[q].invoice = request[q].invoice
            /\ \/ /\ request[q].status = "sending" /\ request'[q].status = "requested"
                  /\ request'[q].bound
               \/ /\ request[q].status = "sending" /\ request'[q].status = "rejected"
                  /\ request'[q].bound = request[q].bound
                  /\ redeploys = 0 => Refuses(q)
  <2>1. CASE UNCHANGED request
    BY <2>1 DEF Keeps
  <2>2. CASE ~ UNCHANGED request
    BY <1>2, <1>3, <2>2 DEF Written, Keeps
  <2> QED BY <2>1, <2>2
<1>5. Books'
  BY <1>1, <1>4, BooksMove
<1>6. Grows
  BY <1>1, <1>4 DEF Grows, Keeps, Sent, SentAfter
<1>7. Hands'
  BY <1>1, <1>2, <1>6, PassGoesOn
<1> QED BY <1>5, <1>7

LEMMA DispatcherInv ==
    ASSUME IInv, DispatcherStep
    PROVE  Books' /\ Hands'
<1> USE DEF IInv
<1>1. ASSUME NEW d \in Dispatchers, RenewSending(d)
      PROVE  Books' /\ Hands'
  <2>1. \A q \in Requests : Keeps(q)
    BY <1>1, RenewWritten
  <2>2. UNCHANGED <<invoice, linked, payment, refused, redeploys, wire, dispatcher, reconciler>>
    BY <1>1 DEF RenewSending
  <2> QED BY <2>1, <2>2, FlagStep, HandsStay
<1>2. ASSUME NEW d \in Dispatchers, LoseAnswer(d)
      PROVE  Books' /\ Hands'
  <2>1. UNCHANGED <<invoice, linked, request, payment, refused, redeploys, page, snapshot>>
    BY <1>2 DEF LoseAnswer, billing, reconciler
  <2>2. Books' /\ Grows
    BY <2>1, QuietStep
  <2>3. /\ claims[d] # <<>>
        /\ claims' = [claims EXCEPT ![d] = Tail(@)]
        /\ answer' = [answer EXCEPT ![d] = "none"]
        /\ wire' = wire \cup {Head(claims[d])}
    BY <1>2 DEF LoseAnswer, TypeOK
  <2> QED BY <2>1, <2>2, <2>3, PassGoesOn
<1>3. ASSUME NEW d \in Dispatchers, FailToRecord(d) \/ StopDispatcher(d)
      PROVE  Books' /\ Hands'
  <2>1. UNCHANGED <<invoice, linked, request, payment, refused, redeploys, wire, page, snapshot>>
    BY <1>3 DEF FailToRecord, StopDispatcher, billing, reconciler
  <2>2. Books' /\ Grows
    BY <2>1, QuietStep
  <2>3. /\ claims[d] # <<>>
        /\ claims' = [claims EXCEPT ![d] = Tail(@)] \/ claims' = [claims EXCEPT ![d] = <<>>]
        /\ answer' = [answer EXCEPT ![d] = "none"]
    BY <1>3 DEF FailToRecord, StopDispatcher, TypeOK
  <2> QED BY <2>1, <2>2, <2>3, PassGoesOn
<1>4. ASSUME NEW r \in Requests, BecomeStale(r)
      PROVE  Books' /\ Hands'
  <2>1. \A q \in Requests : Keeps(q)
    BY <1>4, StaleWritten DEF Written, Keeps
  <2>2. UNCHANGED <<invoice, linked, payment, refused, redeploys, wire, dispatcher, reconciler>>
    BY <1>4 DEF BecomeStale
  <2> QED BY <2>1, <2>2, FlagStep, HandsStay
<1> QED BY <1>1, <1>2, <1>3, <1>4, ClaimInv, SendInv, RecordInv DEF DispatcherStep

\* the end of a payment settles its request: nothing that was sent becomes unsent
LEMMA ApplyGrows ==
    ASSUME TypeOK, NEW r \in Requests, NEW route, NEW outcome \in Final,
           ApplyPaymentEvent(r, route, outcome), UNCHANGED <<payment, refused, redeploys>>
    PROVE  Grows
<1>1. \/ UNCHANGED request
      \/ request[r].bound /\ \E s : Written(r, s, request[r].invoice, request[r].bound)
  BY ApplyWritten DEF billing, Applies
<1>2. CASE UNCHANGED request
  BY <1>2 DEF Grows, Sent, SentAfter
<1>3. CASE request[r].bound /\ \E s : Written(r, s, request[r].invoice, request[r].bound)
  BY <1>3 DEF Grows, Sent, SentAfter, Written
<1> QED BY <1>1, <1>2, <1>3

LEMMA PaymentInv ==
    ASSUME IInv, PaymentStep
    PROVE  Books' /\ Hands'
<1> USE DEF IInv
<1>1. ASSUME NEW r \in Requests, Arrive(r)
      PROVE  Books' /\ Hands'
  <2>1. /\ r \in wire /\ PaymentCreate(r) /\ wire' = wire \ {r}
        /\ UNCHANGED <<invoice, linked, request, refused, redeploys, claims, answer, page, snapshot>>
    BY <1>1 DEF Arrive, billing, dispatcher, reconciler
  <2>2. Sent(r)
    BY <2>1 DEF Hands, HandsSent
  <2>3. Books' /\ Grows
    BY <2>1, <2>2, CreateStep
  <2>4. \A q \in wire' : q \in Requests /\ SentAfter(q)
    BY <2>1, <2>3 DEF Hands, HandsSent, Grows, TypeOK
  <2>5. \A d \in Dispatchers : /\ claims'[d] = claims[d] /\ answer'[d] = answer[d]
                               /\ answer'[d] # "none" => claims[d] # <<>>
    BY <2>1 DEF TypeOK
  <2>6. \A c \in Reconcilers : snapshot'[c] = snapshot[c] /\ page'[c] = page[c]
    BY <2>1
  <2> QED BY <2>3, <2>4, <2>5, <2>6, HandsKept
<1>2. ASSUME NEW r \in Requests, PaymentCancel(r) \/ PaymentEnds(r)
      PROVE  Books' /\ Hands'
  <2>1. /\ UNCHANGED <<invoice, linked, request, refused, redeploys, wire, dispatcher, reconciler>>
        /\ payment[r] \in {"open", "cancelling", "expiring"}
        /\ \E k : payment' = [payment EXCEPT ![r] = k]
    BY <1>2 DEF PaymentCancel, PaymentEnds, billing
  <2>2. \A q \in Requests : Keeps(q)
    BY <2>1 DEF Keeps
  <2>3. \A q \in Requests : /\ payment[q] \in Final => payment'[q] = payment[q]
                            /\ payment[q] = "none" =>
                                  payment'[q] = "none" \/ (Sent(q) /\ ~ Refuses(q))
    BY <2>1 DEF TypeOK, Final
  <2>4. \A i \in Invoices : /\ invoice[i] # "draft" => invoice'[i] = invoice[i]
                            /\ invoice'[i] = "paid" <=> invoice[i] = "paid"
    BY <2>1
  <2>5. UNCHANGED linked /\ (redeploys' = 0 => redeploys = 0 /\ refused' = refused)
    BY <2>1
  <2>6. Books'
    BY <2>2, <2>3, <2>4, <2>5, BooksKept
  <2>7. Grows
    BY <2>2, <2>3, <2>5, KeepsGrow
  <2> QED BY <2>1, <2>6, <2>7, HandsStay
<1>3. ASSUME NEW r \in Requests, DeliverEvent(r)
      PROVE  Books' /\ Hands'
  <2>1. /\ payment[r] \in Final /\ ApplyPaymentEvent(r, "event", payment[r])
        /\ UNCHANGED <<payment, refused, redeploys, wire, dispatcher, reconciler>>
    BY <1>3 DEF DeliverEvent
  <2>2. Books'
    BY <2>1, BooksApply
  <2>3. Grows
    BY <2>1, ApplyGrows
  <2> QED BY <2>1, <2>2, <2>3, HandsStay
<1>4. CASE Redeploy
  <2>1. /\ UNCHANGED <<invoice, linked, request, payment, wire, dispatcher, reconciler>>
        /\ redeploys' # 0
    BY <1>4 DEF Redeploy, billing, TypeOK
  <2>2. \A q \in Requests : Keeps(q)
    BY <2>1 DEF Keeps
  <2>3. \A q \in Requests : /\ payment[q] \in Final => payment'[q] = payment[q]
                            /\ payment[q] = "none" =>
                                  payment'[q] = "none" \/ (Sent(q) /\ ~ Refuses(q))
    BY <2>1
  <2>4. \A i \in Invoices : /\ invoice[i] # "draft" => invoice'[i] = invoice[i]
                            /\ invoice'[i] = "paid" <=> invoice[i] = "paid"
    BY <2>1
  <2>5. UNCHANGED linked /\ (redeploys' = 0 => redeploys = 0 /\ refused' = refused)
    BY <2>1
  <2>6. Books'
    BY <2>2, <2>3, <2>4, <2>5, BooksKept
  <2>7. Grows
    BY <2>2, <2>3, <2>5, KeepsGrow
  <2> QED BY <2>1, <2>6, <2>7, HandsStay
<1> QED BY <1>1, <1>2, <1>3, <1>4 DEF PaymentStep

LEMMA ReconcilerInv ==
    ASSUME IInv, ReconcilerStep
    PROVE  Books' /\ Hands'
<1> USE DEF IInv
<1>1. CASE Age
  <2>1. UNCHANGED <<invoice, linked, request, payment, refused, redeploys, wire, dispatcher, reconciler>>
    BY <1>1 DEF Age, billing
  <2>2. Books' /\ Grows
    BY <2>1, QuietStep
  <2> QED BY <2>1, <2>2, HandsStay
<1>2. ASSUME NEW c \in Reconcilers,
             \/ FindStaleRequested(c) \/ ReadPayment(c) \/ FailToReconcile(c) \/ StopReconciler(c)
      PROVE  Books' /\ Hands'
  <2>1. UNCHANGED <<invoice, linked, request, payment, refused, redeploys, wire, claims, answer>>
    BY <1>2 DEF FindStaleRequested, ReadPayment, FailToReconcile, StopReconciler, billing, dispatcher
  <2>2. Books' /\ Grows
    BY <2>1, QuietStep
  <2>3. \A q \in wire' : q \in Requests /\ SentAfter(q)
    BY <2>1, <2>2 DEF Hands, HandsSent, Grows, TypeOK
  <2>4. \A d \in Dispatchers : /\ claims'[d] = claims[d] /\ answer'[d] = answer[d]
                               /\ answer'[d] # "none" => claims[d] # <<>>
    BY <2>1 DEF TypeOK
  <2>5. ASSUME NEW e \in Reconcilers
        PROVE  \/ snapshot'[e] = None
               \/ snapshot'[e] = snapshot[e] /\ page'[e] = page[e]
               \/ snapshot'[e] = payment'[Head(page'[e])]
    <3>1. CASE e = c
      <4>1. CASE FindStaleRequested(c)
        BY <3>1, <4>1 DEF FindStaleRequested, TypeOK
      <4>2. CASE ReadPayment(c)
        BY <2>1, <3>1, <4>2 DEF ReadPayment, TypeOK
      <4>3. CASE FailToReconcile(c) \/ StopReconciler(c)
        BY <3>1, <4>3 DEF FailToReconcile, StopReconciler, TypeOK
      <4> QED BY <1>2, <4>1, <4>2, <4>3
    <3>2. CASE e # c
      <4>1. \/ UNCHANGED snapshot
            \/ \E s : snapshot' = [snapshot EXCEPT ![c] = s]
        BY <1>2 DEF FindStaleRequested, ReadPayment, FailToReconcile, StopReconciler
      <4>2. \/ UNCHANGED page
            \/ \E p : page' = [page EXCEPT ![c] = p]
        BY <1>2 DEF FindStaleRequested, ReadPayment, FailToReconcile, StopReconciler
      <4> QED BY <3>2, <4>1, <4>2 DEF TypeOK
    <3> QED BY <3>1, <3>2
  <2> QED BY <2>2, <2>3, <2>4, <2>5, HandsKept
<1>3. ASSUME NEW c \in Reconcilers, ApplyReconciledSnapshot(c)
      PROVE  Books' /\ Hands'
  <2> DEFINE r == Head(page[c])
  <2>1. /\ snapshot[c] \in Final /\ page[c] # <<>>
        /\ ApplyPaymentEvent(r, "reconciliation", snapshot[c])
        /\ page' = [page EXCEPT ![c] = Tail(@)]
        /\ snapshot' = [snapshot EXCEPT ![c] = None]
        /\ UNCHANGED <<payment, refused, redeploys, wire, claims, answer>>
    BY <1>3 DEF ApplyReconciledSnapshot, TypeOK, dispatcher
  <2>2. r \in Requests
    BY <2>1, TailIsSeq DEF TypeOK
  <2>3. payment[r] = snapshot[c]
    BY <1>3 DEF ApplyReconciledSnapshot, Hands, ReadIsFinal
  <2>4. Books'
    BY <2>1, <2>2, <2>3, BooksApply
  <2>5. Grows
    BY <2>1, <2>2, ApplyGrows
  <2>6. \A q \in wire' : q \in Requests /\ SentAfter(q)
    BY <2>1, <2>5 DEF Hands, HandsSent, Grows, TypeOK
  <2>7. \A d \in Dispatchers : /\ claims'[d] = claims[d] /\ answer'[d] = answer[d]
                               /\ answer'[d] # "none" => claims[d] # <<>>
    BY <2>1 DEF TypeOK
  <2>8. \A e \in Reconcilers : \/ snapshot'[e] = None
                               \/ snapshot'[e] = snapshot[e] /\ page'[e] = page[e]
    BY <2>1 DEF TypeOK
  <2> QED BY <2>4, <2>5, <2>6, <2>7, <2>8, HandsKept
<1> QED BY <1>1, <1>2, <1>3 DEF ReconcilerStep

LEMMA InitInv == Init => IInv
<1> SUFFICES ASSUME Init
             PROVE  IInv
  OBVIOUS
<1>1. TypeOK
  BY InitType
<1>2. /\ \A r \in Requests : request[r].status = "none" /\ ~ request[r].bound /\ payment[r] = "none"
      /\ \A i \in Invoices : linked[i] = 0 /\ invoice[i] = "draft"
      /\ wire = {} /\ \A d \in Dispatchers : claims[d] = <<>> /\ answer[d] = "none"
      /\ \A c \in Reconcilers : snapshot[c] = None
  BY DEF Init, NothingCollected
<1>3. OnlySent /\ Stages /\ OneActive /\ ActiveIsOpen /\ Refusals
  BY <1>2 DEF OnlySent, Stages, Ended, OneActive, ActiveIsOpen, Active, Refusals
<1>4. PaidOnMoney
  <2>1. \A i \in Invoices : {r \in RequestsOf(i) : request[r].status = "paid"} = {}
    BY <1>2 DEF RequestsOf
  <2>2. Cardinality({}) = 0
    BY FS_EmptySet
  <2> QED BY <1>2, <2>1, <2>2 DEF PaidOnMoney
<1>5. Hands
  BY <1>2 DEF Hands, HandsSent, AnswersStand, ReadIsFinal
<1> QED BY <1>1, <1>3, <1>4, <1>5 DEF IInv, Books

LEMMA NextInv ==
    ASSUME IInv, [Next]_vars
    PROVE  IInv'
<1>1. TypeOK'
  BY NextType DEF IInv
<1>2. CASE UNCHANGED vars
  <2>1. /\ UNCHANGED <<invoice, linked, request, payment, refused, redeploys>>
        /\ UNCHANGED <<wire, dispatcher, reconciler>>
    BY <1>2 DEF vars, billing
  <2>2. Books' /\ Grows
    BY <2>1, QuietStep DEF IInv
  <2> QED BY <1>1, <2>1, <2>2, HandsStay DEF IInv
<1>3. CASE Next
  BY <1>1, <1>3, ApiInv, DispatcherInv, PaymentInv, ReconcilerInv DEF Next, IInv
<1> QED BY <1>2, <1>3

-----------------------------------------------------------------------------
(* What follows from the invariant *)

LEMMA OneCollectableHolds ==
    ASSUME IInv
    PROVE  OneCollectable
<1> SUFFICES ASSUME redeploys = 0, NEW i \in Invoices,
                    NEW r \in RequestsOf(i), NEW s \in RequestsOf(i), Collectable(r), Collectable(s)
             PROVE  r = s
  BY DEF OneCollectable
<1>1. ASSUME NEW q \in RequestsOf(i), Collectable(q)
      PROVE  /\ q \in Requests /\ request[q].invoice = i
             /\ request[q].status \in Active \cup {"paid"}
  <2>1. q \in Requests /\ request[q].invoice = i /\ payment[q] # "none"
    BY <1>1 DEF RequestsOf, Collectable
  <2>2. Sent(q) /\ i \notin refused
    BY <2>1 DEF IInv, Books, OnlySent, Refusals
  <2>3. request[q].status # "rejected"
    BY <2>1, <2>2 DEF IInv, Books, Refusals
  <2>4. request[q].bound => request[q].status \in {"requested", "paid"}
    BY <1>1, <2>1 DEF IInv, Books, Stages, Collectable, Target, Final, Ended
  <2> QED BY <2>1, <2>2, <2>3, <2>4 DEF Sent, Active
<1>2. /\ r \in Requests /\ request[r].invoice = i /\ request[r].status \in Active \cup {"paid"}
      /\ s \in Requests /\ request[s].invoice = i /\ request[s].status \in Active \cup {"paid"}
  BY <1>1
<1> DEFINE paid == {q \in RequestsOf(i) : request[q].status = "paid"}
<1>3. /\ Cardinality(paid) = linked[i]
      /\ linked[i] = IF invoice[i] = "paid" THEN 1 ELSE 0
      /\ IsFiniteSet(paid)
  <2>1. paid \in SUBSET Requests
    BY DEF RequestsOf
  <2>2. IsFiniteSet(paid)
    BY <2>1, FS_Subset, ConstantsAssumption
  <2> QED BY <2>2 DEF IInv, Books, PaidOnMoney
<1>4. CASE request[r].status \in Active /\ request[s].status \in Active
  BY <1>2, <1>4 DEF IInv, Books, OneActive
<1>5. CASE request[r].status = "paid" \/ request[s].status = "paid"
  <2>1. paid # {}
    BY <1>2, <1>5
  <2>2. Cardinality(paid) = 1 /\ invoice[i] = "paid"
    BY <1>3, <2>1, FS_EmptySet
  <2>3. request[r].status = "paid" /\ request[s].status = "paid"
    BY <1>2, <2>2 DEF IInv, Books, ActiveIsOpen
  <2>4. PICK q : paid = {q}
    BY <1>3, <2>2, FS_Singleton
  <2>5. r \in paid /\ s \in paid
    BY <1>2, <2>3
  <2> QED BY <2>4, <2>5
<1> QED BY <1>2, <1>4, <1>5

LEMMA NeverConflictsHolds ==
    ASSUME IInv
    PROVE  NeverConflicts
<1> SUFFICES ASSUME NEW r \in Requests, payment[r] \in Final, Conflicts(r, payment[r])
             PROVE  FALSE
  BY DEF NeverConflicts
<1>1. request[r].bound /\ request[r].status # Target(payment[r])
  BY DEF Conflicts
<1>2. request[r].status = "requested"
  BY <1>1 DEF IInv, Books, Stages
<1>3. invoice[request[r].invoice] = "open"
  BY <1>2 DEF IInv, Books, ActiveIsOpen, Active
<1> QED BY <1>1, <1>2, <1>3 DEF Conflicts, Applies

LEMMA Invariance == Spec => []IInv
<1>1. Init => IInv
  BY InitInv
<1>2. IInv /\ [Next]_vars => IInv'
  BY NextInv
<1> QED BY <1>1, <1>2, PTL DEF Spec

\* An invoice is paid exactly when one of its requests is, once, and on a payment
\* that Payment settled (BI-14; applyPaymentEvent under the invoice's lock): for any
\* number of instances, lost answers, crashes and late or repeated events.
THEOREM PaidOnMoneyAlways == Spec => []PaidOnMoney
<1>1. IInv => PaidOnMoney
  BY DEF IInv, Books
<1> QED BY <1>1, Invariance, PTL

\* At most one payment of an invoice can take money, or has, as long as Payment's
\* list of currencies stays as it is (BI-13; create, dispatch and their claims).
THEOREM OneCollectableAlways == Spec => []OneCollectable
<1>1. IInv => OneCollectable
  BY OneCollectableHolds
<1> QED BY <1>1, Invariance, PTL

\* No terminal event and no snapshot is ever answered `conflict'
\* (decidePaymentEvent): what Billing recorded is what Payment says.
THEOREM BillingNeverConflicts == Spec => []NeverConflicts
<1>1. IInv => NeverConflicts
  BY NeverConflictsHolds
<1> QED BY <1>1, Invariance, PTL

-----------------------------------------------------------------------------
(* What ended stays as it ended *)

\* Late answers, repeated events, a second dispatcher and the reconciler come after the end
\* of a request, and change nothing of it: an invoice that is paid or void, and what it
\* bought; a request that ended or was rejected; the invoice of a request and the payment
\* it has stored; a payment that ended; and the ids of applied events
\* (payment_request_transition_guard, markRequested, applyPaymentEvent).
RequestEnds(r) ==
    /\ request[r].status \in Ended \cup {"rejected"} => request'[r].status = request[r].status
    /\ request[r].status # "none" => request'[r].invoice = request[r].invoice
    /\ request[r].bound => request'[r].bound
PaymentEnded(r) == payment[r] \in Final => payment'[r] = payment[r]
InvoiceEnds(i) ==
    /\ invoice[i] \in {"paid", "void"} => invoice'[i] = invoice[i]
    /\ invoice[i] = "paid" => linked'[i] = linked[i]
BillingEndsStay ==
    /\ \A r \in Requests : RequestEnds(r) /\ PaymentEnded(r)
    /\ \A i \in Invoices : InvoiceEnds(i)
    /\ receipt \subseteq receipt'

\* what Billing sends changes no invoice and no payment
LEMMA SendingEnds ==
    ASSUME TypeOK, UNCHANGED <<linked, receipt, payment>>, \A i \in Invoices : InvoiceEnds(i),
           \A r \in Requests :
              \/ Keeps(r)
              \/ /\ request[r].status \in {"none", "created", "sending"}
                 /\ request[r].bound => request'[r].bound
                 /\ request[r].status # "none" => request'[r].invoice = request[r].invoice
    PROVE  BillingEndsStay
BY DEF BillingEndsStay, RequestEnds, PaymentEnded, Keeps, Ended

\* and neither does a step that leaves Billing's rows alone
LEMMA QuietEnds ==
    ASSUME UNCHANGED billing, \A r \in Requests : PaymentEnded(r)
    PROVE  BillingEndsStay
BY DEF billing, BillingEndsStay, RequestEnds, InvoiceEnds

LEMMA ApiEnds ==
    ASSUME TypeOK, ApiStep
    PROVE  BillingEndsStay
<1>1. ASSUME NEW i \in Invoices, Issue(i) \/ Discard(i)
      PROVE  BillingEndsStay
  <2>1. \A j \in Invoices : InvoiceEnds(j)
    BY <1>1 DEF Issue, Discard, InvoiceEnds, TypeOK
  <2>2. UNCHANGED <<linked, request, receipt, payment>>
    BY <1>1 DEF Issue, Discard
  <2> QED BY <2>1, <2>2, SendingEnds DEF Keeps
<1>2. ASSUME NEW r \in Requests, NEW i \in Invoices, CreateForInvoice(i, r)
      PROVE  BillingEndsStay
  <2>1. UNCHANGED <<invoice, linked, receipt, payment>> /\ request[r].status = "none"
    BY <1>2 DEF CreateForInvoice
  <2>2. Written(r, "created", i, request[r].bound)
    BY <1>2, CreateWritten
  <2>3. \A q \in Requests : Keeps(q) \/ (q = r /\ (request[r].bound => request'[r].bound))
    BY <2>2 DEF Written, Keeps
  <2> QED BY <2>1, <2>3, SendingEnds DEF InvoiceEnds
<1>3. ASSUME NEW r \in Requests, CancelUnsent(r)
      PROVE  BillingEndsStay
  <2>1. UNCHANGED <<invoice, linked, receipt, payment>> /\ request[r].status = "created" /\ Move(r, "cancelled")
    BY <1>3 DEF CancelUnsent
  <2>2. Written(r, "cancelled", request[r].invoice, request[r].bound)
    BY <2>1, StatusWritten DEF RequestStatus, Ended
  <2>3. \A q \in Requests : \/ Keeps(q)
                            \/ /\ q = r /\ (request[r].bound => request'[r].bound)
                               /\ request'[r].invoice = request[r].invoice
    BY <2>2 DEF Written, Keeps
  <2> QED BY <2>1, <2>3, SendingEnds DEF InvoiceEnds
<1>4. ASSUME NEW r \in Requests, MarkCancelRequested(r)
      PROVE  BillingEndsStay
  <2>1. UNCHANGED <<invoice, linked, receipt, payment>>
    BY <1>4 DEF MarkCancelRequested
  <2>2. \A q \in Requests : Keeps(q)
    BY <1>4, CancelRequestedWritten DEF Written, Keeps
  <2> QED BY <2>1, <2>2, SendingEnds DEF InvoiceEnds
<1> QED BY <1>1, <1>2, <1>3, <1>4 DEF ApiStep

LEMMA DispatcherEnds ==
    ASSUME IInv, DispatcherStep
    PROVE  BillingEndsStay
<1> USE DEF IInv
<1>1. ASSUME NEW d \in Dispatchers, ClaimForDispatch(d)
      PROVE  BillingEndsStay
  <2>1. UNCHANGED <<invoice, linked, receipt, payment>>
    BY <1>1 DEF ClaimForDispatch
  <2>2. \A q \in Requests : \/ Keeps(q)
                            \/ /\ request[q].status \in {"created", "sending"}
                               /\ request'[q].invoice = request[q].invoice
                               /\ request'[q].bound = request[q].bound
    BY <1>1, ClaimWritten
  <2> QED BY <2>1, <2>2, SendingEnds DEF InvoiceEnds
<1>2. ASSUME NEW d \in Dispatchers, RenewSending(d)
      PROVE  BillingEndsStay
  <2>1. UNCHANGED <<invoice, linked, receipt, payment>>
    BY <1>2 DEF RenewSending
  <2>2. \A q \in Requests : Keeps(q)
    BY <1>2, RenewWritten
  <2> QED BY <2>1, <2>2, SendingEnds DEF InvoiceEnds
<1>3. ASSUME NEW d \in Dispatchers, Send(d)
      PROVE  BillingEndsStay
  <2>1. UNCHANGED billing /\ PaymentCreate(Head(claims[d]))
    BY <1>3 DEF Send
  <2>2. \A r \in Requests : PaymentEnded(r)
    BY <2>1 DEF PaymentCreate, PaymentEnded, TypeOK, Final
  <2> QED BY <2>1, <2>2, QuietEnds
<1>4. ASSUME NEW d \in Dispatchers, Record(d)
      PROVE  BillingEndsStay
  <2>1. UNCHANGED <<invoice, linked, receipt, payment>>
    BY <1>4 DEF Record
  <2>2. \A q \in Requests : \/ Keeps(q)
                            \/ /\ request[q].status = "sending"
                               /\ request'[q].invoice = request[q].invoice
                               /\ request[q].bound => request'[q].bound
    BY <1>4, RecordWritten DEF Written, Keeps
  <2> QED BY <2>1, <2>2, SendingEnds DEF InvoiceEnds
<1>5. ASSUME NEW d \in Dispatchers, LoseAnswer(d) \/ FailToRecord(d) \/ StopDispatcher(d)
      PROVE  BillingEndsStay
  <2>1. UNCHANGED billing /\ payment' = payment
    BY <1>5 DEF LoseAnswer, FailToRecord, StopDispatcher
  <2> QED BY <2>1, QuietEnds DEF PaymentEnded
<1>6. ASSUME NEW r \in Requests, BecomeStale(r)
      PROVE  BillingEndsStay
  <2>1. UNCHANGED <<invoice, linked, receipt, payment>>
    BY <1>6 DEF BecomeStale
  <2>2. \A q \in Requests : Keeps(q)
    BY <1>6, StaleWritten DEF Written, Keeps
  <2> QED BY <2>1, <2>2, SendingEnds DEF InvoiceEnds
<1> QED BY <1>1, <1>2, <1>3, <1>4, <1>5, <1>6 DEF DispatcherStep

\* an event or a snapshot ends a request that waits for it, of an invoice that is still open
LEMMA AppliedEnds ==
    ASSUME IInv, NEW r \in Requests, NEW route, NEW outcome \in Final,
           ApplyPaymentEvent(r, route, outcome), payment' = payment
    PROVE  BillingEndsStay
<1> USE DEF IInv
<1>1. CASE UNCHANGED billing
  BY <1>1, QuietEnds DEF PaymentEnded
<1>2. CASE ~ UNCHANGED billing
  <2>1. /\ Applies(r, outcome) /\ request[r].invoice \in Invoices
        /\ receipt' = receipt \cup {<<r, route>>}
        /\ Written(r, Target(outcome), request[r].invoice, request[r].bound)
        /\ \/ /\ outcome = "succeeded"
              /\ invoice' = [invoice EXCEPT ![request[r].invoice] = "paid"]
              /\ linked' = [linked EXCEPT ![request[r].invoice] = @ + 1]
           \/ UNCHANGED <<invoice, linked>>
    BY <1>2, ApplyWritten
  <2>2. request[r].status = "requested" /\ (outcome = "succeeded" => invoice[request[r].invoice] = "open")
    BY <2>1 DEF Applies
  <2>3. \A q \in Requests : RequestEnds(q) /\ PaymentEnded(q)
    BY <2>1, <2>2 DEF Written, RequestEnds, PaymentEnded, Ended
  <2>4. \A i \in Invoices : InvoiceEnds(i)
    BY <2>1, <2>2 DEF InvoiceEnds, TypeOK
  <2> QED BY <2>1, <2>3, <2>4 DEF BillingEndsStay
<1> QED BY <1>1, <1>2

LEMMA BillingEndsKept == IInv /\ [Next]_vars => BillingEndsStay
<1> SUFFICES ASSUME IInv, [Next]_vars
             PROVE  BillingEndsStay
  OBVIOUS
<1> USE DEF IInv
<1>1. ASSUME UNCHANGED billing, payment' = payment
      PROVE  BillingEndsStay
  BY <1>1, QuietEnds DEF PaymentEnded
<1>2. ASSUME NEW r \in Requests, Arrive(r) \/ PaymentCancel(r) \/ PaymentEnds(r)
      PROVE  BillingEndsStay
  <2>1. UNCHANGED billing
    BY <1>2 DEF Arrive, PaymentCancel, PaymentEnds
  <2>2. \A q \in Requests : PaymentEnded(q)
    BY <1>2 DEF Arrive, PaymentCreate, PaymentCancel, PaymentEnds, PaymentEnded, TypeOK, Final
  <2> QED BY <2>1, <2>2, QuietEnds
<1>3. ASSUME NEW r \in Requests, DeliverEvent(r)
      PROVE  BillingEndsStay
  BY <1>3, AppliedEnds DEF DeliverEvent
<1>4. ASSUME NEW c \in Reconcilers, ApplyReconciledSnapshot(c)
      PROVE  BillingEndsStay
  <2>1. page[c] # <<>> /\ snapshot[c] \in Final
    BY <1>4 DEF ApplyReconciledSnapshot, TypeOK
  <2>2. Head(page[c]) \in Requests
    BY <2>1, TailIsSeq DEF TypeOK
  <2> QED BY <1>4, <2>1, <2>2, AppliedEnds DEF ApplyReconciledSnapshot
<1>5. ASSUME \/ Redeploy \/ Age \/ UNCHANGED vars
             \/ \E c \in Reconcilers : FindStaleRequested(c) \/ ReadPayment(c) \/ FailToReconcile(c) \/ StopReconciler(c)
      PROVE  UNCHANGED billing /\ payment' = payment
  BY <1>5 DEF Redeploy, Age, vars, FindStaleRequested, ReadPayment, FailToReconcile, StopReconciler
<1> QED BY <1>1, <1>2, <1>3, <1>4, <1>5, ApiEnds, DispatcherEnds DEF Next, PaymentStep, ReconcilerStep

\* No step takes back how a request, a payment or an invoice ended.
THEOREM BillingEndsStayAlways == Spec => [][BillingEndsStay]_vars
BY BillingEndsKept, Invariance, PTL DEF Spec

-----------------------------------------------------------------------------
(* The payments Billing meets keep PaymentOutcome *)

\* the payment of a request; one that is not made yet is open, and settles on money of its own
OutcomeMet   == [r \in Requests |-> IF payment[r] = "none" THEN "open" ELSE payment[r]]
AnnouncedMet == [r \in Requests |-> [k \in Final |-> IF payment[r] = k THEN 1 ELSE 0]]
Untouched    == [use |-> "none", payment |-> None]
BookedMet    == [r \in Requests |-> IF payment[r] = "succeeded" THEN [use |-> "settled", payment |-> r] ELSE Untouched]

Promised == INSTANCE PaymentOutcome WITH
    Payments <- Requests, Txns <- Requests, outcome <- OutcomeMet, announced <- AnnouncedMet, booked <- BookedMet

\* one payment moves, and it moves as promised
Moves(r, from, to) == payment[r] = from /\ payment' = [payment EXCEPT ![r] = to]

LEMMA MadeMet ==
    ASSUME TypeOK, NEW r \in Requests, PaymentCreate(r)
    PROVE  UNCHANGED <<OutcomeMet, AnnouncedMet, BookedMet>>
<1>1. \A q \in Requests : payment'[q] = payment[q] \/ (payment[q] = "none" /\ payment'[q] = "open")
  BY DEF PaymentCreate, TypeOK
<1>2. OutcomeMet' = OutcomeMet
  BY <1>1 DEF OutcomeMet
<1>3. AnnouncedMet' = AnnouncedMet
  BY <1>1 DEF AnnouncedMet, Final
<1>4. BookedMet' = BookedMet
  BY <1>1 DEF BookedMet
<1> QED BY <1>2, <1>3, <1>4

LEMMA ClosingMet ==
    ASSUME TypeOK, NEW r \in Requests, NEW to \in {"cancelling", "expiring"}, Moves(r, "open", to)
    PROVE  Promised!BeginClosing(r)
<1>1. \A q \in Requests : payment'[q] = IF q = r THEN to ELSE payment[q]
  BY DEF Moves, TypeOK
<1>2. OutcomeMet[r] = "open" /\ OutcomeMet' = [OutcomeMet EXCEPT ![r] = to]
  BY <1>1 DEF OutcomeMet, Moves
<1>3. AnnouncedMet' = AnnouncedMet
  BY <1>1 DEF AnnouncedMet, Moves, Final
<1>4. BookedMet' = BookedMet
  BY <1>1 DEF BookedMet, Moves
<1> QED BY <1>2, <1>3, <1>4 DEF Promised!BeginClosing

LEMMA AnnouncedOnEnding ==
    ASSUME TypeOK, NEW r \in Requests, NEW from \in {"open", "cancelling", "expiring"}, NEW to \in Final,
           Moves(r, from, to)
    PROVE  Promised!Announce(r, to)
<1>1. \A q \in Requests : payment'[q] = IF q = r THEN to ELSE payment[q]
  BY DEF Moves, TypeOK
<1>2. OutcomeMet' = [OutcomeMet EXCEPT ![r] = to]
  BY <1>1 DEF OutcomeMet, Final
<1> DEFINE row(q) == [k \in Final |-> IF payment[q] = k THEN 1 ELSE 0]
           next   == [row(r) EXCEPT ![to] = @ + 1]
<1>3. AnnouncedMet = [q \in Requests |-> row(q)]
  BY DEF AnnouncedMet
<1>4. AnnouncedMet' = [q \in Requests |-> IF q = r THEN [k \in Final |-> IF to = k THEN 1 ELSE 0] ELSE row(q)]
  BY <1>1 DEF AnnouncedMet
<1>5. next = [k \in Final |-> IF to = k THEN 1 ELSE 0]
  <2>1. payment[r] \notin Final
    BY DEF Moves, Final
  <2>2. row(r) = [k \in Final |-> 0]
    BY <2>1
  <2> HIDE DEF row
  <2>3. next = [k \in Final |-> IF k = to THEN 1 ELSE 0]
    BY <2>2
  <2> QED BY <2>3
<1> HIDE DEF row, next
<1>6. AnnouncedMet' = [AnnouncedMet EXCEPT ![r] = next]
  BY <1>3, <1>4, <1>5
<1>7. AnnouncedMet' = [AnnouncedMet EXCEPT ![r][to] = @ + 1]
  BY <1>3, <1>6 DEF next
<1> QED BY <1>2, <1>7 DEF Promised!Announce

LEMMA EndingMet ==
    ASSUME TypeOK, NEW r \in Requests, NEW from \in {"open", "cancelling", "expiring"}, NEW to \in Final,
           Moves(r, from, to),
           \/ to = "succeeded" \/ from = "open"
           \/ from = "cancelling" /\ to = "cancelled"
           \/ from = "expiring" /\ to = "expired"
    PROVE  Promised!Settle(r) \/ Promised!EndWithoutMoney(r)
<1>1. \A q \in Requests : payment'[q] = IF q = r THEN to ELSE payment[q]
  BY DEF Moves, TypeOK
<1>2. Promised!Announce(r, to) /\ OutcomeMet[r] = from
  BY AnnouncedOnEnding DEF OutcomeMet, Moves
<1>3. CASE to = "succeeded"
  <2>1. BookedMet[r] = Untouched
        /\ BookedMet' = [t \in Requests |-> IF t \in {r} THEN [use |-> "settled", payment |-> r] ELSE BookedMet[t]]
    BY <1>1, <1>3 DEF BookedMet, Moves
  <2>2. Promised!Book({r}, "settled", r)
    BY <2>1 DEF Promised!Book, Promised!NotBooked, Untouched
  <2>3. Promised!Settle(r)
    BY <1>2, <1>3, <2>2 DEF Promised!Settle, Promised!Unfinished
  <2> QED BY <2>3
<1>4. CASE to # "succeeded"
  <2>1. BookedMet' = [t \in Requests |-> IF t \in {} THEN [use |-> "late", payment |-> r] ELSE BookedMet[t]]
    BY <1>1, <1>4 DEF BookedMet, Moves
  <2>2. Promised!Book({}, "late", r)
    BY <2>1 DEF Promised!Book
  <2>3. to \in Promised!Outcomes \ {"succeeded"}
    BY <1>4 DEF Promised!Outcomes, Final
  <2>4. Promised!EndWithoutMoney(r)
    BY <1>2, <1>4, <2>2, <2>3 DEF Promised!EndWithoutMoney
  <2> QED BY <2>4
<1> QED BY <1>3, <1>4

LEMMA StepMet == TypeOK /\ [Next]_vars => [Promised!Next]_(Promised!vars)
<1> SUFFICES ASSUME TypeOK, [Next]_vars
             PROVE  [Promised!Next]_(Promised!vars)
  OBVIOUS
<1>1. ASSUME UNCHANGED <<OutcomeMet, AnnouncedMet, BookedMet>>
      PROVE  [Promised!Next]_(Promised!vars)
  BY <1>1 DEF Promised!vars
<1>2. ASSUME payment' = payment
      PROVE  [Promised!Next]_(Promised!vars)
  BY <1>1, <1>2 DEF OutcomeMet, AnnouncedMet, BookedMet
<1>3. ASSUME NEW r \in Requests, Promised!BeginClosing(r) \/ Promised!Settle(r) \/ Promised!EndWithoutMoney(r)
      PROVE  [Promised!Next]_(Promised!vars)
  BY <1>3 DEF Promised!Next
<1>4. ASSUME NEW r \in Requests, Arrive(r)
      PROVE  [Promised!Next]_(Promised!vars)
  BY <1>1, <1>4, MadeMet DEF Arrive
<1>5. ASSUME NEW d \in Dispatchers, Send(d)
      PROVE  [Promised!Next]_(Promised!vars)
  <2>1. Head(claims[d]) \in Requests
    BY <1>5, TailIsSeq DEF Send, TypeOK
  <2> QED BY <1>1, <1>5, <2>1, MadeMet DEF Send
<1>6. ASSUME NEW r \in Requests, PaymentCancel(r)
      PROVE  [Promised!Next]_(Promised!vars)
  <2>1. Moves(r, "open", "cancelled") \/ Moves(r, "open", "cancelling")
    BY <1>6 DEF PaymentCancel, Moves
  <2>2. "cancelled" \in Final
    BY DEF Final
  <2> QED BY <1>3, <2>1, <2>2, ClosingMet, EndingMet
<1>7. ASSUME NEW r \in Requests, PaymentEnds(r)
      PROVE  [Promised!Next]_(Promised!vars)
  <2>1. PICK k \in {"succeeded", "failed", "expired", "expiring", "cancelled"} :
           /\ \/ payment[r] = "open" /\ k # "cancelled"
              \/ payment[r] = "cancelling" /\ k \in {"succeeded", "cancelled"}
              \/ payment[r] = "expiring" /\ k \in {"succeeded", "expired"}
           /\ Moves(r, payment[r], k)
    BY <1>7 DEF PaymentEnds, Moves
  <2>2. CASE k = "expiring"
    BY <1>3, <2>1, <2>2, ClosingMet
  <2>3. CASE k # "expiring"
    <3>1. k \in Final
      BY <2>1, <2>3 DEF Final
    <3> QED BY <1>3, <2>1, <2>3, <3>1, EndingMet
  <2> QED BY <2>2, <2>3
<1>8. ASSUME \/ ApiStep \/ ReconcilerStep \/ Redeploy \/ UNCHANGED vars
             \/ \E r \in Requests : BecomeStale(r) \/ DeliverEvent(r)
             \/ \E d \in Dispatchers : \/ ClaimForDispatch(d) \/ RenewSending(d) \/ Record(d)
                                       \/ LoseAnswer(d) \/ FailToRecord(d) \/ StopDispatcher(d)
      PROVE  payment' = payment
  BY <1>8 DEF ApiStep, Issue, Discard, CreateForInvoice, CancelUnsent, MarkCancelRequested,
              ReconcilerStep, Age, FindStaleRequested, ReadPayment, ApplyReconciledSnapshot, FailToReconcile,
              StopReconciler, Redeploy, vars, BecomeStale, DeliverEvent, ClaimForDispatch, RenewSending, Record,
              LoseAnswer, FailToRecord, StopDispatcher
<1> QED BY <1>2, <1>4, <1>5, <1>6, <1>7, <1>8 DEF Next, DispatcherStep, PaymentStep

\* The payment-service that Billing is modelled against promises nothing beyond
\* PaymentOutcome, which PaymentSettlement is shown to implement: what is proved of the
\* invoices rests on no more than that (create under a natural key, cancel, the events).
THEOREM BillingMeetsPromise == Spec => Promised!Spec
<1>1. Init => Promised!Init
  BY DEF Init, NothingCollected, Promised!Init, Promised!Outcomes, Promised!NotBooked,
         OutcomeMet, AnnouncedMet, BookedMet, Untouched, Final
<1>2. Spec => []TypeOK
  BY BillingTypeCorrect
<1> QED BY <1>1, <1>2, StepMet, PTL DEF Spec, Promised!Spec
=============================================================================
