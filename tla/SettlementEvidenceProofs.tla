----------------------- MODULE SettlementEvidenceProofs -----------------------
(***************************************************************************)
(* Proofs about the money of PaymentSettlement: on what evidence a payment *)
(* settles, what a late success may be, what the database triggers are     *)
(* left to refuse, and that payments keep the promise of PaymentOutcome.   *)
(* A step only does one of a few things to the ledger (`What a step does   *)
(* to the ledger'); each of the results follows from these.                *)
(***************************************************************************)
EXTENDS PaymentSettlementProofs

-----------------------------------------------------------------------------
(* The inductive invariant *)

\* what a settled payment rests on
Rests(p) ==
    IF payment[p].status = "succeeded"
    THEN /\ settledBy[p] \in Txns /\ payment[p].settled \in Attempts
         /\ attempt[payment[p].settled].payment = p
         /\ FactOf(settledBy[p], payment[p].settled)
         /\ fact[settledBy[p]].figure = "equal"
         /\ late[settledBy[p]] = None
    ELSE settledBy[p] = None

\* a fact that can be booked late: of an attempt that will not settle its payment
TooLate(t) ==
    /\ t \in Txns
    /\ fact[t] # None /\ fact[t].attempt \in Attempts
    /\ fact[t].figure \in {"equal", "wrong"}
    /\ PaymentOf(t) \in Payments
    /\ payment[PaymentOf(t)].status \in Final
    /\ payment[PaymentOf(t)].settled # fact[t].attempt

LateKept(t) ==
    /\ lateEmitted[t] = IF late[t] = None THEN 0 ELSE 1
    /\ late[t] # None => TooLate(t) /\ late[t].status = payment[PaymentOf(t)].status

\* a run between its decision and the booking of the late success it found
LateRun(o) ==
    obs[o].pc = "late" =>
       /\ TooLate(obs[o].fact)
       /\ fact[obs[o].fact].attempt = obs[o].attempt
       /\ fact[obs[o].fact].figure = obs[o].answer.figure

UsableFacts == \A t \in Txns : fact[t] # None => fact[t].figure # "unusable"

EInv == /\ IInv
        /\ \A p \in Payments : Rests(p)
        /\ \A t \in Txns : LateKept(t)
        /\ \A o \in Observers : LateRun(o)
        /\ UsableFacts

-----------------------------------------------------------------------------
(* What a step does to the ledger *)

\* facts are never rewritten, an attempt keeps its payment, a fact is of a usable figure
Permanent ==
    /\ \A t \in Txns : fact[t] # None => fact'[t] = fact[t]
    /\ \A t \in Txns : fact'[t] # None => fact'[t].figure # "unusable"
    /\ \A a \in Attempts : attempt[a].payment # None => attempt'[a].payment = attempt[a].payment

\* every late success still to be booked is one
RunsKept ==
    \A o \in Observers : obs'[o].pc = "late" =>
       /\ TooLate(obs'[o].fact)
       /\ fact[obs'[o].fact].attempt = obs'[o].attempt
       /\ fact[obs'[o].fact].figure = obs'[o].answer.figure

SameBooks == UNCHANGED <<late, lateEmitted, settledBy>>

\* payments only move between the states of an open one
Opening == {<<"none", "created">>, <<"created", "pending">>, <<"pending", "created">>}
Quiet ==
    /\ SameBooks
    /\ \A p \in Payments :
          \/ payment'[p] = payment[p]
          \/ /\ <<payment[p].status, payment'[p].status>> \in Opening
             /\ payment'[p].settled = payment[p].settled
    /\ \A p \in Payments, k \in Final : emitted'[p][k] = emitted[p][k]

Closes(p, reason) ==
    /\ payment[p].status \in {"created", "pending"}
    /\ IsPaymentUncertain(attempt, p)
    /\ payment' = [payment EXCEPT ![p].status = "closing", ![p].reason = reason]
    /\ UNCHANGED <<emitted, attempt>>
    /\ SameBooks

Ends(p, k) ==
    /\ payment[p].status \in {"created", "pending", "closing"}
    /\ payment[p].status = "closing" => k = ClosingOutcome(p)
    /\ payment[p].status = "pending" => k = "failed"
    /\ ~ IsPaymentUncertain(attempt', p)
    /\ <<payment[p].status, k>> = <<"created", "failed">> =>
          \E a \in AttemptsOf(p) : attempt'[a].status = "failed_confirmed"
    /\ EndPayment(p, k)
    /\ UNCHANGED <<fact, contested, settledBy>>

Succeeds(o) ==
    /\ obs[o].pc = "decide"
    /\ Settles(o)
    /\ SucceedWith(o, obs[o].attempt, attempt[obs[o].attempt].payment)
    /\ UNCHANGED <<fact, contested>>

BooksLate(t) ==
    /\ TooLate(t) /\ late[t] = None /\ Sole(t) /\ t \notin contested
    /\ \E source \in Channels :
          late' = [late EXCEPT ![t] = [status |-> payment[PaymentOf(t)].status, source |-> source]]
    /\ lateEmitted' = [lateEmitted EXCEPT ![t] = @ + 1]
    /\ UNCHANGED <<payment, emitted, fact, contested, attempt, settledBy>>

Ledger ==
    \/ Quiet
    \/ \E p \in Payments, reason \in {"cancel", "expiry"} : Closes(p, reason)
    \/ \E p \in Payments, k \in FinalUnsuccessful : Ends(p, k)
    \/ \E o \in Observers : Succeeds(o)
    \/ \E t \in Txns : BooksLate(t)

Kinds == Permanent /\ RunsKept /\ Ledger

-----------------------------------------------------------------------------
(* Every step is of one of these kinds *)

LEMMA EInvTypes ==
    ASSUME EInv
    PROVE  /\ Types /\ References /\ OneCollection /\ SettledOnce /\ TypeOK /\ IInv
           /\ payment \in [Payments -> PaymentRow] /\ attempt \in [Attempts -> AttemptRow]
           /\ fact \in [Txns -> FactRow \cup {None}] /\ late \in [Txns -> LateRow \cup {None}]
           /\ obs \in [Observers -> ObsState]
BY DEF EInv, IInv, TypeOK, Types

LEMMA QuietLedger ==
    ASSUME UNCHANGED ledger, UNCHANGED settledBy
    PROVE  Ledger
BY DEF ledger, Ledger, Quiet, SameBooks

\* attempts and facts as they were, and no run has found a late success
LEMMA SameEvidence ==
    ASSUME EInv, UNCHANGED <<attempt, fact, obs>>
    PROVE  Permanent /\ RunsKept
BY DEF Permanent, RunsKept, EInv, LateRun, UsableFacts

LEMMA EvidenceOfStatus ==
    ASSUME EInv, NEW a \in Attempts, NEW s \in AttemptStatus,
           \/ attempt' = [attempt EXCEPT ![a].status = s]
           \/ UNCHANGED attempt,
           UNCHANGED fact,
           \A o \in Observers : obs'[o] = obs[o] \/ obs'[o] = Idle
    PROVE  Permanent /\ RunsKept
<1>1. \A b \in Attempts : attempt'[b].payment = attempt[b].payment
  BY EInvTypes, StatusWritten
<1> QED BY <1>1 DEF Permanent, RunsKept, EInv, LateRun, UsableFacts, Idle

LEMMA Returned ==
    ASSUME EInv, NEW o \in Observers, Return(o)
    PROVE  \A v \in Observers : obs'[v] = obs[v] \/ obs'[v] = Idle
BY EInvTypes DEF Return

\* an attempt that fails leaves its payment open or ends it
LEMMA FailAttemptKind ==
    ASSUME EInv, NEW a \in Attempts, Uncertain(attempt[a]),
           NEW s \in {"failed", "failed_inferred", "failed_confirmed", "expired"}, NEW fatal,
           attempt[a].status = "failed_inferred" => s = "failed_confirmed",
           FailAttempt(a, s, fatal), UNCHANGED <<fact, contested, settledBy>>
    PROVE  Ledger
<1> DEFINE p == attempt[a].payment
           was == payment[p].status
<1>1. /\ p \in Payments /\ UncertainAttempts(p) = {a} /\ was \in {"created", "pending", "closing"}
      /\ payment[p] \in PaymentRow /\ payment \in [Payments -> PaymentRow]
  BY FailingPayment, EInvTypes
<1>2. /\ attempt' = [attempt EXCEPT ![a].status = s]
      /\ SettlePaymentAfterFailure(attempt', p, attempt[a].number, fatal)
  BY DEF FailAttempt
<1>3. attempt'[a].status = s /\ attempt'[a].payment = p
  <2>1. s \in AttemptStatus
    BY DEF AttemptStatus
  <2> QED BY <1>2, <2>1, EInvTypes, StatusWritten
<1> DEFINE over == ~ IsPaymentUncertain(attempt', p)
           fails == over /\ (fatal \/ attempt[a].number >= MaxAttempts)
<1>4. \/ was = "closing" /\ over /\ EndPayment(p, ClosingOutcome(p))
      \/ was \in {"pending", "created"} /\ over /\ EndPayment(p, "failed")
      \/ /\ was = "pending"
         /\ payment' = [payment EXCEPT ![p].status = "created"]
         /\ UNCHANGED <<emitted, late, lateEmitted>>
      \/ UNCHANGED ledger
  BY <1>2 DEF SettlePaymentAfterFailure
<1>5. CASE was = "closing" /\ over /\ EndPayment(p, ClosingOutcome(p))
  <2>1. ClosingOutcome(p) \in FinalUnsuccessful
    BY DEF ClosingOutcome, FinalUnsuccessful
  <2>2. Ends(p, ClosingOutcome(p))
    BY <1>5 DEF Ends
  <2> QED BY <1>1, <2>1, <2>2 DEF Ledger
<1>6. CASE was \in {"pending", "created"} /\ over /\ EndPayment(p, "failed")
  <2>1. was = "created" => attempt[a].status = "failed_inferred"
    BY <1>1, EInvTypes DEF OneCollection, OneCollectionOf
  <2>2. was = "created" => \E b \in AttemptsOf(p) : attempt'[b].status = "failed_confirmed"
    BY <2>1, <1>3 DEF AttemptsOf
  <2>3. Ends(p, "failed") /\ "failed" \in FinalUnsuccessful
    BY <1>6, <2>2 DEF Ends, FinalUnsuccessful
  <2> QED BY <1>1, <2>3 DEF Ledger
<1>7. CASE /\ was = "pending"
           /\ payment' = [payment EXCEPT ![p].status = "created"]
           /\ UNCHANGED <<emitted, late, lateEmitted>>
  <2> DEFINE row == [payment[p] EXCEPT !.status = "created"]
  <2>1. row.status = "created" /\ row.settled = payment[p].settled
    BY <1>1 DEF PaymentRow
  <2>2. payment' = [payment EXCEPT ![p] = row]
    BY <1>7
  <2> HIDE DEF row
  <2>3. /\ payment'[p].status = "created" /\ payment'[p].settled = payment[p].settled
        /\ \A q \in Payments \ {p} : payment'[q] = payment[q]
    BY <1>1, <2>1, <2>2
  <2>4. Quiet
    BY <1>7, <2>3 DEF Quiet, SameBooks, Opening
  <2> QED BY <2>4 DEF Ledger
<1>8. CASE UNCHANGED ledger
  BY <1>8, QuietLedger
<1> QED BY <1>4, <1>5, <1>6, <1>7, <1>8

LEMMA FailKind ==
    ASSUME EInv, NEW o \in Observers, obs[o].pc = "decide", Uncertain(attempt[obs[o].attempt]),
           NEW s \in {"failed", "failed_inferred", "failed_confirmed", "expired"}, NEW fatal,
           attempt[obs[o].attempt].status = "failed_inferred" => s = "failed_confirmed",
           Fail(o, s, fatal), UNCHANGED <<fact, contested>>
    PROVE  Kinds
<1>1. obs[o].attempt \in Attempts /\ s \in AttemptStatus
  BY EInvTypes, ObsFields DEF Observation, AttemptStatus
<1>2. Ledger
  BY <1>1, FailAttemptKind DEF Fail
<1>3. Permanent /\ RunsKept
  BY <1>1, EvidenceOfStatus, Returned DEF Fail, FailAttempt
<1> QED BY <1>2, <1>3 DEF Kinds

LEMMA NoEffectKind ==
    ASSUME EInv, NEW o \in Observers, NoEffect(o), UNCHANGED fact
    PROVE  Kinds
<1>1. \A v \in Observers : obs'[v] = obs[v] \/ obs'[v] = Idle
  BY Returned DEF NoEffect
<1>2. Permanent /\ RunsKept
  BY <1>1 DEF NoEffect, Permanent, RunsKept, EInv, LateRun, UsableFacts, Idle
<1> QED BY <1>2, QuietLedger DEF NoEffect, Kinds

LEMMA CloseKind ==
    ASSUME EInv, NEW p \in Payments, NEW reason \in {"cancel", "expiry"}, NEW k \in {"cancelled", "expired"},
           Close(p, reason, k)
    PROVE  Kinds
<1>1. Permanent /\ RunsKept
  BY SameEvidence DEF Close, evidence
<1>2. k \in FinalUnsuccessful
  BY DEF FinalUnsuccessful
<1>3. CASE IsPaymentUncertain(attempt, p)
  <2>1. Closes(p, reason)
    BY <1>3 DEF Close, Closes, SameBooks
  <2> QED BY <1>1, <2>1 DEF Kinds, Ledger
<1>4. CASE ~ IsPaymentUncertain(attempt, p)
  <2>1. payment[p].status # "pending"
    BY <1>4, EInvTypes DEF OneCollection, OneCollectionOf, UncertainAttempts, AttemptsOf, IsPaymentUncertain
  <2>2. Ends(p, k)
    BY <1>4, <2>1 DEF Close, Ends, evidence
  <2> QED BY <1>1, <1>2, <2>2 DEF Kinds, Ledger
<1> QED BY <1>3, <1>4

LEMMA CreatePaymentKind ==
    ASSUME EInv, NEW p \in Payments, CreatePayment(p)
    PROVE  Kinds
<1> DEFINE row == [payment[p] EXCEPT !.status = "created"]
<1>1. /\ payment[p] \in PaymentRow /\ payment \in [Payments -> PaymentRow]
      /\ emitted \in [Payments -> [EventKinds -> Nat]]
  BY EInvTypes DEF Types
<1>2. row.status = "created" /\ row.settled = payment[p].settled
  BY <1>1 DEF PaymentRow
<1>3. payment' = [payment EXCEPT ![p] = row] /\ payment[p].status = "none"
  BY DEF CreatePayment
<1> HIDE DEF row
<1>4. /\ payment'[p].status = "created" /\ payment'[p].settled = payment[p].settled
      /\ \A q \in Payments \ {p} : payment'[q] = payment[q]
  BY <1>1, <1>2, <1>3
<1>5. \A q \in Payments, k \in Final : emitted'[q][k] = emitted[q][k]
  BY <1>1 DEF CreatePayment, Final, FinalUnsuccessful
<1>6. Quiet
  BY <1>3, <1>4, <1>5 DEF CreatePayment, Quiet, SameBooks, Opening
<1>7. Permanent /\ RunsKept
  BY SameEvidence DEF CreatePayment, evidence
<1> QED BY <1>6, <1>7 DEF Kinds, Ledger

LEMMA StartAttemptKind ==
    ASSUME EInv, NEW p \in Payments, NEW a \in Attempts, StartAttempt(p, a)
    PROVE  Kinds
<1> DEFINE row == [payment[p] EXCEPT !.status = "pending"]
<1>1. payment[p] \in PaymentRow /\ payment \in [Payments -> PaymentRow] /\ attempt \in [Attempts -> AttemptRow]
  BY EInvTypes
<1>2. row.status = "pending" /\ row.settled = payment[p].settled
  BY <1>1 DEF PaymentRow
<1>3. payment' = [payment EXCEPT ![p] = row] /\ payment[p].status = "created"
  BY DEF StartAttempt
<1> HIDE DEF row
<1>4. /\ payment'[p].status = "pending" /\ payment'[p].settled = payment[p].settled
      /\ \A q \in Payments \ {p} : payment'[q] = payment[q]
  BY <1>1, <1>2, <1>3
<1>5. Quiet
  BY <1>3, <1>4 DEF StartAttempt, Quiet, SameBooks, Opening
<1>6. attempt[a].payment = None /\ \A b \in Attempts \ {a} : attempt'[b] = attempt[b]
  BY <1>1, EInvTypes DEF StartAttempt, References
<1>7. Permanent /\ RunsKept
  BY <1>6 DEF StartAttempt, evidence, Permanent, RunsKept, EInv, LateRun, UsableFacts
<1> QED BY <1>5, <1>7 DEF Kinds, Ledger

LEMMA CallKind ==
    ASSUME EInv, NEW a \in Attempts, CallStep(a)
    PROVE  Kinds
<1>1. ASSUME NEW t \in Txns, CallAccepted(a, t)
      PROVE  Kinds
  <2> DEFINE row == [attempt[a] EXCEPT !.status = "submitted", !.txn = t]
  <2>1. attempt \in [Attempts -> AttemptRow] /\ row.payment = attempt[a].payment
    BY EInvTypes DEF AttemptRow
  <2>2. attempt' = [attempt EXCEPT ![a] = row] \/ attempt' = attempt
    BY <1>1 DEF CallAccepted
  <2> HIDE DEF row
  <2>3. \A b \in Attempts : attempt'[b].payment = attempt[b].payment
    BY <2>1, <2>2
  <2>4. Permanent /\ RunsKept
    BY <1>1, <2>3 DEF CallAccepted, evidence, Permanent, RunsKept, EInv, LateRun, UsableFacts
  <2> QED BY <1>1, <2>4, QuietLedger DEF CallAccepted, Kinds
<1>2. ASSUME CallAmbiguous(a)
      PROVE  Kinds
  <2>1. "unknown" \in AttemptStatus
    BY DEF AttemptStatus, OpenAttempt
  <2>2. Permanent /\ RunsKept
    BY <1>2, <2>1, EvidenceOfStatus DEF CallAmbiguous, evidence
  <2> QED BY <1>2, <2>2, QuietLedger DEF CallAmbiguous, Kinds
<1>3. ASSUME NEW fatal \in BOOLEAN, CallRejected(a, fatal)
      PROVE  Kinds
  <2>1. "failed" \in AttemptStatus
    BY DEF AttemptStatus
  <2>2. Permanent /\ RunsKept
    BY <1>3, <2>1, EvidenceOfStatus DEF CallRejected, FailAttempt, evidence
  <2>3. CASE Unanswered(a)
    <3>1. /\ Uncertain(attempt[a]) /\ attempt[a].status # "failed_inferred"
          /\ FailAttempt(a, "failed", fatal)
      BY <1>3, <2>3 DEF CallRejected, Unanswered, Uncertain, OpenAttempt
    <3>2. UNCHANGED <<fact, contested, settledBy>>
      BY <1>3 DEF CallRejected, evidence
    <3> QED BY <2>2, <3>1, <3>2, FailAttemptKind DEF Kinds
  <2>4. CASE ~ Unanswered(a)
    BY <1>3, <2>2, <2>4, QuietLedger DEF CallRejected, Kinds
  <2> QED BY <2>3, <2>4
<1> QED BY <1>1, <1>2, <1>3 DEF CallStep

LEMMA RecordCaptureFactKind ==
    ASSUME EInv, NEW o \in Observers, RecordCaptureFact(o)
    PROVE  Kinds
<1> DEFINE a == obs[o].attempt
           t == TxnOf(o)
           row == [attempt |-> a, figure |-> obs[o].answer.figure, source |-> obs[o].source]
<1>1. obs \in [Observers -> ObsState] /\ fact \in [Txns -> FactRow \cup {None}]
  BY EInvTypes
<1>2. \/ UNCHANGED fact
      \/ row.figure # "unusable" /\ fact[t] = None /\ fact' = [fact EXCEPT ![t] = row]
  BY DEF RecordCaptureFact, evidence
<1>3. \A u \in Txns : /\ fact[u] # None => fact'[u] = fact[u]
                      /\ fact'[u] # None => fact'[u].figure # "unusable"
  <2> HIDE DEF row
  <2> QED BY <1>1, <1>2 DEF EInv, UsableFacts
<1>4. UNCHANGED attempt /\ UNCHANGED ledger /\ UNCHANGED settledBy
  BY DEF RecordCaptureFact
<1>5. \A v \in Observers : obs'[v] = obs[v] \/ obs'[v].pc = "decide"
  <2>1. obs[o] \in Observation({obs[o].pc}, Answers, Txns \cup {None})
    BY EInvTypes, ObsFields DEF RecordCaptureFact
  <2>2. \/ obs' = [obs EXCEPT ![o] = [obs[o] EXCEPT !.pc = "decide"]]
        \/ obs' = [obs EXCEPT ![o] = [obs[o] EXCEPT !.pc = "decide", !.fact = t]]
    BY DEF RecordCaptureFact
  <2>3. [obs[o] EXCEPT !.pc = "decide"].pc = "decide" /\ [obs[o] EXCEPT !.pc = "decide", !.fact = t].pc = "decide"
    BY <2>1 DEF Observation
  <2> QED BY <1>1, <2>2, <2>3
<1>6. Permanent /\ RunsKept
  BY <1>3, <1>4, <1>5 DEF Permanent, RunsKept, EInv, LateRun
<1> QED BY <1>4, <1>6, QuietLedger DEF Kinds

LEMMA ObserveKind ==
    ASSUME EInv, NEW o \in Observers, NEW a \in Attempts, NEW answer \in Answers, NEW source \in Channels,
           Observe(o, a, answer, source)
    PROVE  Kinds
<1>1. \A v \in Observers : obs'[v] = obs[v] \/ obs'[v].pc \in {"record", "decide"}
  BY EInvTypes DEF Observe
<1>2. Permanent /\ RunsKept
  BY <1>1 DEF Observe, evidence, Permanent, RunsKept, EInv, LateRun, UsableFacts
<1> QED BY <1>2, QuietLedger DEF Observe, Kinds

\* a verified capture is of the attempt and figure the run observed
LEMMA VerifiedFact ==
    ASSUME EInv, NEW o \in Observers, obs[o].pc = "decide", Verified(o)
    PROVE  /\ obs[o].fact \in Txns /\ obs[o].attempt \in Attempts
           /\ attempt[obs[o].attempt].payment \in Payments
           /\ fact[obs[o].fact] # None /\ fact[obs[o].fact].attempt = obs[o].attempt
           /\ PaymentOf(obs[o].fact) = attempt[obs[o].attempt].payment
           /\ fact[obs[o].fact].figure = obs[o].answer.figure
<1>1. obs[o].fact \in Txns /\ obs[o].attempt \in Attempts /\ obs[o] # Idle
  BY EInvTypes, ObsFields DEF Observation, Verified, Idle
<1>2. attempt[obs[o].attempt].payment \in Payments
  BY <1>1, EInvTypes DEF References, AttemptRow
<1>3. fact[obs[o].fact] # None /\ fact[obs[o].fact].attempt = obs[o].attempt /\ obs[o].attempt # None
  BY <1>1, ConstantsAssumption DEF Verified, FactOf
<1> QED BY <1>1, <1>2, <1>3 DEF Verified, PaymentOf

LEMMA ApplySucceededKind ==
    ASSUME EInv, NEW o \in Observers, ApplySucceeded(o)
    PROVE  Kinds
<1> DEFINE a == obs[o].attempt
           t == obs[o].fact
<1>1. obs[o].pc = "decide" /\ UNCHANGED <<fact, contested>>
  BY DEF ApplySucceeded, Deciding, evidence
<1>2. CASE Settles(o) /\ SucceedWith(o, a, attempt[a].payment)
  <2>1. a \in Attempts /\ "succeeded" \in AttemptStatus
    BY <1>1, <1>2, VerifiedFact DEF Settles, AttemptStatus
  <2>2. Permanent /\ RunsKept
    BY <1>1, <1>2, <2>1, EvidenceOfStatus, Returned DEF SucceedWith
  <2>3. Succeeds(o)
    BY <1>1, <1>2 DEF Succeeds
  <2> QED BY <2>2, <2>3 DEF Kinds, Ledger
<1>3. CASE ~ Settles(o) /\ IsLate(o) /\ obs' = [obs EXCEPT ![o].pc = "late"] /\ UNCHANGED <<ledger, attempt, settledBy>>
  <2>1. /\ t \in Txns /\ a \in Attempts /\ attempt[a].payment \in Payments
        /\ fact[t] # None /\ fact[t].attempt = a /\ PaymentOf(t) = attempt[a].payment
        /\ fact[t].figure = obs[o].answer.figure
    BY <1>1, <1>3, VerifiedFact DEF IsLate
  <2>2. payment[attempt[a].payment].status \in Final /\ fact[t].figure \in {"equal", "wrong"}
    BY <1>3, <2>1 DEF IsLate, Final
  <2>3. payment[attempt[a].payment].settled # a
    BY <1>3, <2>1, EInvTypes DEF IsLate, SettledOnce, AttemptsOf
  <2>4. TooLate(t)
    BY <2>1, <2>2, <2>3 DEF TooLate
  <2>5. obs'[o].fact = t /\ obs'[o].attempt = a /\ obs'[o].answer = obs[o].answer /\ \A v \in Observers \ {o} : obs'[v] = obs[v]
    <3>1. obs[o] \in Observation({obs[o].pc}, Answers, Txns \cup {None}) /\ obs \in [Observers -> ObsState]
      BY <1>1, EInvTypes, ObsFields
    <3>2. obs' = [obs EXCEPT ![o] = [obs[o] EXCEPT !.pc = "late"]]
      BY <1>3
    <3>3. /\ [obs[o] EXCEPT !.pc = "late"].fact = t /\ [obs[o] EXCEPT !.pc = "late"].attempt = a
          /\ [obs[o] EXCEPT !.pc = "late"].answer = obs[o].answer
      BY <3>1 DEF Observation
    <3> QED BY <3>1, <3>2, <3>3
  <2>6. RunsKept
    BY <2>1, <2>4, <2>5 DEF RunsKept, EInv, LateRun
  <2>7. Permanent
    BY <1>1, <1>3 DEF Permanent, EInv, UsableFacts
  <2> QED BY <1>3, <2>6, <2>7, QuietLedger DEF Kinds
<1>4. CASE NoEffect(o)
  BY <1>1, <1>4, NoEffectKind
<1> QED BY <1>2, <1>3, <1>4 DEF ApplySucceeded

LEMMA RecordLateSuccessKind ==
    ASSUME EInv, NEW o \in Observers, RecordLateSuccess(o)
    PROVE  Kinds
<1> DEFINE t == obs[o].fact
<1>1. /\ obs[o].pc = "late" /\ Return(o) /\ UNCHANGED <<fact, contested, attempt>>
      /\ UNCHANGED <<payment, emitted, settledBy>>
  BY DEF RecordLateSuccess, evidence
<1>2. t \in Txns /\ obs[o].source \in Channels /\ TooLate(t) /\ fact[t].attempt = obs[o].attempt
  BY <1>1, EInvTypes, ObsFields DEF Observation, EInv, LateRun
<1>3. PaymentOf(t) = attempt[obs[o].attempt].payment
  BY <1>2, ConstantsAssumption DEF TooLate, PaymentOf
<1>4. \A v \in Observers : obs'[v] = obs[v] \/ obs'[v] = Idle
  BY <1>1, Returned
<1>5. Permanent /\ RunsKept
  BY <1>1, <1>4 DEF Permanent, RunsKept, EInv, LateRun, UsableFacts, Idle
<1>6. \/ /\ Sole(t) /\ t \notin contested /\ late[t] = None
         /\ late' = [late EXCEPT ![t] = [status |-> payment[PaymentOf(t)].status, source |-> obs[o].source]]
         /\ lateEmitted' = [lateEmitted EXCEPT ![t] = @ + 1]
      \/ UNCHANGED <<late, lateEmitted>>
  BY <1>3 DEF RecordLateSuccess, FactGuard
<1>7. CASE /\ Sole(t) /\ t \notin contested /\ late[t] = None
           /\ late' = [late EXCEPT ![t] = [status |-> payment[PaymentOf(t)].status, source |-> obs[o].source]]
           /\ lateEmitted' = [lateEmitted EXCEPT ![t] = @ + 1]
  <2>1. BooksLate(t)
    BY <1>1, <1>2, <1>7 DEF BooksLate
  <2> QED BY <1>2, <1>5, <2>1 DEF Kinds, Ledger
<1>8. CASE UNCHANGED <<late, lateEmitted>>
  BY <1>1, <1>5, <1>8, QuietLedger DEF Kinds, ledger
<1> QED BY <1>6, <1>7, <1>8

\* a fact a finality writer or the reconciler selects is of an attempt of that payment
LEMMA EligibleFact ==
    ASSUME EInv, NEW t \in Txns, NEW p \in Payments, Eligible(t, p)
    PROVE  /\ fact[t] # None /\ fact[t].attempt \in Attempts /\ attempt[fact[t].attempt].payment = p
           /\ PaymentOf(t) = p /\ fact[t].figure \in {"equal", "wrong"}
           /\ Sole(t) /\ t \notin contested /\ late[t] = None
<1>1. fact[t] # None /\ fact[t].attempt # None /\ attempt[fact[t].attempt].payment = p
  BY DEF Eligible, CaptureOf
<1>2. fact[t] \in FactRow
  BY <1>1, EInvTypes
<1>3. fact[t].figure \in {"equal", "wrong"}
  BY <1>1, <1>2, ConstantsAssumption DEF FactRow, Eligible, EInv, UsableFacts
<1> QED BY <1>1, <1>2, <1>3 DEF FactRow, Eligible, PaymentOf

LEMMA ReconcileKind ==
    ASSUME EInv, NEW t \in Txns, ReconcileFact(t)
    PROVE  Kinds
<1> DEFINE p == PaymentOf(t)
<1>1. /\ p # None /\ payment[p].status \in FinalUnsuccessful /\ Eligible(t, p)
      /\ UNCHANGED <<fact, contested, attempt, obs>> /\ UNCHANGED <<payment, emitted, settledBy>>
  BY DEF ReconcileFact, Reconcilable, evidence
<1>2. p \in Payments
  <2>1. fact[t] # None /\ fact[t].attempt # None /\ fact[t] \in FactRow
    BY <1>1, EInvTypes DEF Eligible, CaptureOf
  <2> QED BY <1>1, <2>1, EInvTypes DEF PaymentOf, FactRow, AttemptRow
<1>3. Permanent /\ RunsKept
  BY <1>1, SameEvidence
<1>4. CASE Recordable(t, p) /\ RecordLateSuccesses({t}, payment[p].status)
  <2>1. /\ fact[t] # None /\ fact[t].attempt \in Attempts /\ fact[t] \in FactRow
        /\ fact[t].figure \in {"equal", "wrong"} /\ Sole(t) /\ t \notin contested /\ late[t] = None
    BY <1>1, <1>2, EligibleFact, EInvTypes
  <2>2. payment[p].settled = None
    BY <1>1, <1>2, EInvTypes DEF SettledOnce, FinalUnsuccessful, PaymentRow
  <2>3. TooLate(t)
    BY <1>1, <1>2, <2>1, <2>2, ConstantsAssumption DEF TooLate, Final
  <2>4. /\ late' = [late EXCEPT ![t] = [status |-> payment[p].status, source |-> fact[t].source]]
        /\ lateEmitted' = [lateEmitted EXCEPT ![t] = @ + 1]
    <3>1. late \in [Txns -> LateRow \cup {None}] /\ lateEmitted \in [Txns -> Nat]
      BY EInvTypes DEF Types
    <3>2. /\ late' = [u \in Txns |-> IF u \in {t} THEN [status |-> payment[p].status, source |-> fact[u].source]
                                                  ELSE late[u]]
          /\ lateEmitted' = [u \in Txns |-> IF u \in {t} THEN lateEmitted[u] + 1 ELSE lateEmitted[u]]
      BY <1>4 DEF RecordLateSuccesses
    <3> QED BY <3>1, <3>2
  <2>5. BooksLate(t)
    BY <1>1, <2>1, <2>3, <2>4 DEF BooksLate, FactRow
  <2> QED BY <1>3, <2>5 DEF Kinds, Ledger
<1>5. CASE UNCHANGED <<late, lateEmitted>>
  BY <1>1, <1>3, <1>5, QuietLedger DEF Kinds, ledger
<1> QED BY <1>4, <1>5 DEF ReconcileFact

LEMMA KindsNext ==
    ASSUME EInv, [Next]_vars
    PROVE  Kinds
<1>1. ASSUME NEW p \in Payments, CreatePayment(p) \/ Cancel(p) \/ SweepOne(p)
      PROVE  Kinds
  BY <1>1, CreatePaymentKind, CloseKind DEF Cancel, SweepOne
<1>2. ASSUME NEW a \in Attempts, (\E p \in Payments : StartAttempt(p, a)) \/ CallStep(a)
      PROVE  Kinds
  BY <1>2, StartAttemptKind, CallKind
<1>3. ASSUME NEW o \in Observers, Apply(o)
      PROVE  Kinds
  <2>1. ASSUME NoEffect(o), UNCHANGED evidence
        PROVE  Kinds
    BY <2>1, NoEffectKind DEF evidence
  <2>2. ASSUME NEW s \in {"failed", "failed_inferred", "failed_confirmed", "expired"}, NEW fatal,
               obs[o].pc = "decide", Uncertain(attempt[obs[o].attempt]),
               attempt[obs[o].attempt].status = "failed_inferred" => s = "failed_confirmed",
               Fail(o, s, fatal), UNCHANGED evidence
        PROVE  Kinds
    BY <2>2, FailKind DEF evidence
  <2>3. CASE RecordCaptureFact(o)
    BY <2>3, RecordCaptureFactKind
  <2>4. CASE ApplyPending(o)
    BY <2>1, <2>4 DEF ApplyPending
  <2>5. CASE ApplyNotFound(o)
    BY <2>1, <2>2, <2>5 DEF ApplyNotFound, Deciding, Unanswered, Uncertain, OpenAttempt
  <2>6. CASE ApplyExpired(o)
    BY <2>1, <2>2, <2>6 DEF ApplyExpired, Deciding, Uncertain, OpenAttempt
  <2>7. CASE ApplyFailed(o)
    BY <2>1, <2>2, <2>7 DEF ApplyFailed, Deciding, Uncertain, OpenAttempt
  <2>8. CASE ApplySucceeded(o) \/ RecordLateSuccess(o)
    BY <2>8, ApplySucceededKind, RecordLateSuccessKind
  <2> QED BY <1>3, <2>3, <2>4, <2>5, <2>6, <2>7, <2>8 DEF Apply
<1>4. ASSUME NEW o \in Observers, NEW a \in Attempts, NEW answer \in Answers, NEW source \in Channels,
             Observe(o, a, answer, source)
      PROVE  Kinds
  BY <1>4, ObserveKind
<1>5. ASSUME NEW o \in Observers, Crash(o)
      PROVE  Kinds
  <2>1. NoEffect(o) /\ UNCHANGED fact
    BY <1>5 DEF Crash, NoEffect, evidence
  <2> QED BY <2>1, NoEffectKind
<1>6. ASSUME NEW t \in Txns, NEW figure \in Figures, RecordUnmatchedFact(t, figure)
      PROVE  Kinds
  <2> DEFINE row == [attempt |-> None, figure |-> figure, source |-> "webhook"]
  <2>1. /\ fact[t] = None /\ row.figure # "unusable" /\ fact' = [fact EXCEPT ![t] = row]
        /\ UNCHANGED <<attempt, obs, ledger, settledBy>>
    BY <1>6 DEF RecordUnmatchedFact
  <2> HIDE DEF row
  <2>2. \A u \in Txns : /\ fact[u] # None => fact'[u] = fact[u]
                        /\ fact'[u] # None => fact'[u].figure # "unusable"
    BY <2>1, EInvTypes DEF EInv, UsableFacts
  <2>3. Permanent /\ RunsKept
    BY <2>1, <2>2 DEF Permanent, RunsKept, EInv, LateRun
  <2> QED BY <2>1, <2>3, QuietLedger DEF Kinds
<1>7. ASSUME NEW t \in Txns, ReconcileFact(t)
      PROVE  Kinds
  BY <1>7, ReconcileKind
<1>8. CASE \/ \E p \in Payments : PassExpiry(p)
           \/ \E a \in Attempts : LoseCall(a)
           \/ \E t \in Txns : FailToReconcile(t)
           \/ UNCHANGED vars
  <2>1. UNCHANGED <<attempt, fact, obs>> /\ UNCHANGED ledger /\ UNCHANGED settledBy
    BY <1>8 DEF PassExpiry, LoseCall, FailToReconcile, evidence, ledger, vars
  <2> QED BY <2>1, SameEvidence, QuietLedger DEF Kinds
<1> QED BY <1>1, <1>2, <1>3, <1>4, <1>5, <1>6, <1>7, <1>8
        DEF Next, ProducerStep, ClockStep, SweepStep, PayerStep, ObserverStep, EvidenceStep

-----------------------------------------------------------------------------
(* The invariant is inductive *)

LEMMA EndedPayment ==
    ASSUME EInv, NEW p \in Payments, NEW k \in FinalUnsuccessful, Ends(p, k)
    PROVE  /\ payment'[p].status = k /\ payment'[p].settled = payment[p].settled
           /\ payment[p].settled = None /\ settledBy[p] = None
           /\ \A q \in Payments \ {p} : payment'[q] = payment[q]
           /\ \A t \in Txns : Recordable(t, p) =>
                 /\ late[t] = None /\ late'[t] # None /\ late'[t].status = k
                 /\ lateEmitted'[t] = lateEmitted[t] + 1
           /\ \A t \in Txns : ~ Recordable(t, p) => late'[t] = late[t] /\ lateEmitted'[t] = lateEmitted[t]
<1> DEFINE row == [payment[p] EXCEPT !.status = k]
<1>1. payment \in [Payments -> PaymentRow] /\ payment[p] \in PaymentRow
  BY EInvTypes
<1>2. row.status = k /\ row.settled = payment[p].settled
  BY <1>1 DEF PaymentRow
<1>3. payment' = [payment EXCEPT ![p] = row]
  BY DEF Ends, EndPayment
<1> HIDE DEF row
<1>4. /\ payment'[p].status = k /\ payment'[p].settled = payment[p].settled
      /\ \A q \in Payments \ {p} : payment'[q] = payment[q]
  BY <1>1, <1>2, <1>3
<1>5. payment[p].status # "succeeded"
  BY DEF Ends
<1>6. payment[p].settled = None /\ settledBy[p] = None
  BY <1>5, EInvTypes DEF SettledOnce, EInv, Rests
<1>7. RecordLateSuccesses({t \in Txns : Recordable(t, p)}, k)
  BY DEF Ends, EndPayment
<1>8. ASSUME NEW t \in Txns, Recordable(t, p)
      PROVE  /\ late[t] = None /\ late'[t] # None /\ late'[t].status = k
             /\ lateEmitted'[t] = lateEmitted[t] + 1
  <2>1. fact[t] \in FactRow /\ late[t] = None
    BY <1>8, EInvTypes DEF Recordable, Eligible, CaptureOf
  <2>2. [status |-> k, source |-> fact[t].source] \in LateRow
    BY <2>1 DEF FactRow, LateRow, PaymentStatus, Final
  <2>3. late'[t] = [status |-> k, source |-> fact[t].source] /\ lateEmitted'[t] = lateEmitted[t] + 1
    BY <1>7, <1>8 DEF RecordLateSuccesses
  <2> QED BY <2>1, <2>2, <2>3, NullIsNoRow
<1>9. \A t \in Txns : ~ Recordable(t, p) => late'[t] = late[t] /\ lateEmitted'[t] = lateEmitted[t]
  BY <1>7 DEF RecordLateSuccesses
<1> QED BY <1>4, <1>6, <1>8, <1>9

LEMMA SucceededPayment ==
    ASSUME EInv, NEW o \in Observers, Succeeds(o)
    PROVE  /\ LET p == attempt[obs[o].attempt].payment
              IN  /\ p \in Payments /\ payment[p].status \notin Final
                  /\ payment'[p].status = "succeeded" /\ payment'[p].settled = obs[o].attempt
                  /\ settledBy'[p] = obs[o].fact
                  /\ attempt'[obs[o].attempt].payment = p
                  /\ \A q \in Payments \ {p} : payment'[q] = payment[q] /\ settledBy'[q] = settledBy[q]
           /\ Uncertain(attempt[obs[o].attempt])
           /\ obs[o].fact \in Txns /\ obs[o].attempt \in Attempts
           /\ fact[obs[o].fact] # None /\ fact[obs[o].fact].attempt = obs[o].attempt
           /\ PaymentOf(obs[o].fact) = attempt[obs[o].attempt].payment
           /\ fact[obs[o].fact].figure = "equal"
           /\ Sole(obs[o].fact) /\ obs[o].fact \notin contested
           /\ UNCHANGED <<late, lateEmitted, fact, contested>>
<1> DEFINE p == attempt[obs[o].attempt].payment
           row == [payment[p] EXCEPT !.status = "succeeded", !.settled = obs[o].attempt]
<1>1. /\ obs[o].fact \in Txns /\ obs[o].attempt \in Attempts /\ p \in Payments
      /\ fact[obs[o].fact] # None /\ fact[obs[o].fact].attempt = obs[o].attempt
      /\ PaymentOf(obs[o].fact) = p
      /\ fact[obs[o].fact].figure = "equal"
      /\ Sole(obs[o].fact) /\ obs[o].fact \notin contested
  BY VerifiedFact DEF Succeeds, Settles, Verified
<1>2. payment \in [Payments -> PaymentRow] /\ settledBy \in [Payments -> Txns \cup {None}]
  BY EInvTypes DEF Types
<1>3. row.status = "succeeded" /\ row.settled = obs[o].attempt
  BY <1>1, <1>2 DEF PaymentRow
<1>4. payment' = [payment EXCEPT ![p] = row] /\ settledBy' = [settledBy EXCEPT ![p] = obs[o].fact]
  BY DEF Succeeds, SucceedWith
<1> HIDE DEF row
<1>5. /\ payment'[p].status = "succeeded" /\ payment'[p].settled = obs[o].attempt
      /\ settledBy'[p] = obs[o].fact
      /\ \A q \in Payments \ {p} : payment'[q] = payment[q] /\ settledBy'[q] = settledBy[q]
  BY <1>1, <1>2, <1>3, <1>4
<1>6. payment[p].status \notin Final /\ Uncertain(attempt[obs[o].attempt])
  BY DEF Succeeds, Settles, Undecided, Uncertain
<1>7. attempt'[obs[o].attempt].payment = p
  <2>1. "succeeded" \in AttemptStatus
    BY DEF AttemptStatus
  <2> QED BY <1>1, <2>1, EInvTypes, StatusWritten DEF Succeeds, SucceedWith
<1>8. UNCHANGED <<late, lateEmitted, fact, contested>>
  BY DEF Succeeds, SucceedWith
<1> QED BY <1>1, <1>5, <1>6, <1>7, <1>8

LEMMA BookedLate ==
    ASSUME EInv, NEW t \in Txns, BooksLate(t)
    PROVE  /\ late'[t] # None /\ late'[t].status = payment[PaymentOf(t)].status
           /\ lateEmitted'[t] = lateEmitted[t] + 1
           /\ \A u \in Txns \ {t} : late'[u] = late[u] /\ lateEmitted'[u] = lateEmitted[u]
<1>1. PICK source \in Channels :
         late' = [late EXCEPT ![t] = [status |-> payment[PaymentOf(t)].status, source |-> source]]
  BY DEF BooksLate
<1>2. payment[PaymentOf(t)].status \in PaymentStatus
  BY DEF BooksLate, TooLate, PaymentStatus
<1>3. [status |-> payment[PaymentOf(t)].status, source |-> source] \in LateRow
  BY <1>2 DEF LateRow
<1>4. late \in [Txns -> LateRow \cup {None}] /\ lateEmitted \in [Txns -> Nat]
  BY EInvTypes DEF Types
<1>5. lateEmitted' = [lateEmitted EXCEPT ![t] = lateEmitted[t] + 1]
  BY DEF BooksLate
<1> DEFINE row == [status |-> payment[PaymentOf(t)].status, source |-> source]
<1>6. row # None /\ row.status = payment[PaymentOf(t)].status /\ late' = [late EXCEPT ![t] = row]
  BY <1>1, <1>3, NullIsNoRow
<1> HIDE DEF row
<1> QED BY <1>4, <1>5, <1>6

\* a payment that has ended is never written again
LEMMA FinalStays ==
    ASSUME EInv, Kinds, NEW p \in Payments, payment[p].status \in Final
    PROVE  payment'[p] = payment[p] /\ settledBy'[p] = settledBy[p]
<1>1. CASE Quiet
  BY <1>1 DEF Quiet, SameBooks, Opening, Final, FinalUnsuccessful
<1>2. CASE \E q \in Payments, reason \in {"cancel", "expiry"} : Closes(q, reason)
  BY <1>2, EInvTypes DEF Closes, SameBooks, Final, FinalUnsuccessful
<1>3. ASSUME NEW q \in Payments, NEW k \in FinalUnsuccessful, Ends(q, k)
      PROVE  payment'[p] = payment[p] /\ settledBy'[p] = settledBy[p]
  BY <1>3, EndedPayment DEF Ends, Final, FinalUnsuccessful
<1>4. ASSUME NEW o \in Observers, Succeeds(o)
      PROVE  payment'[p] = payment[p] /\ settledBy'[p] = settledBy[p]
  BY <1>4, SucceededPayment
<1>5. CASE \E t \in Txns : BooksLate(t)
  BY <1>5 DEF BooksLate
<1> QED BY <1>1, <1>2, <1>3, <1>4, <1>5 DEF Kinds, Ledger

LEMMA TooLateStays ==
    ASSUME EInv, Kinds, NEW t, TooLate(t)
    PROVE  /\ TooLate(t)' /\ fact'[t] = fact[t] /\ PaymentOf(t)' = PaymentOf(t)
           /\ payment'[PaymentOf(t)] = payment[PaymentOf(t)]
<1>1. /\ t \in Txns /\ fact[t] # None /\ fact[t].attempt \in Attempts /\ PaymentOf(t) \in Payments
      /\ PaymentOf(t) = attempt[fact[t].attempt].payment /\ fact[t].attempt # None
  BY ConstantsAssumption DEF TooLate, PaymentOf
<1>2. fact'[t] = fact[t] /\ attempt'[fact[t].attempt].payment = PaymentOf(t)
  BY <1>1, ConstantsAssumption DEF Kinds, Permanent
<1>3. PaymentOf(t)' = PaymentOf(t)
  BY <1>1, <1>2 DEF PaymentOf
<1>4. payment'[PaymentOf(t)] = payment[PaymentOf(t)]
  BY <1>1, FinalStays DEF TooLate
<1> QED BY <1>1, <1>2, <1>3, <1>4 DEF TooLate

\* the evidence of a settled payment stays as long as it is not booked late
LEMMA RestsStays ==
    ASSUME EInv, Kinds, NEW p \in Payments, payment'[p] = payment[p], settledBy'[p] = settledBy[p],
           \A t \in Txns : settledBy[p] = t => late'[t] = late[t]
    PROVE  Rests(p)'
<1>1. CASE payment[p].status = "succeeded"
  <2>1. /\ settledBy[p] \in Txns /\ payment[p].settled \in Attempts
        /\ attempt[payment[p].settled].payment = p /\ p # None
        /\ fact[settledBy[p]] # None /\ fact[settledBy[p]].attempt = payment[p].settled
        /\ fact[settledBy[p]].figure = "equal" /\ late[settledBy[p]] = None
    BY <1>1, ConstantsAssumption DEF EInv, Rests, FactOf
  <2>2. fact'[settledBy[p]] = fact[settledBy[p]] /\ attempt'[payment[p].settled].payment = p
    BY <2>1 DEF Kinds, Permanent
  <2> QED BY <1>1, <2>1, <2>2 DEF Rests, FactOf
<1>2. CASE payment[p].status # "succeeded"
  BY <1>2 DEF EInv, Rests
<1> QED BY <1>1, <1>2

\* the capture of a settled payment is of one of its own attempts, which settled
LEMMA SettledFact ==
    ASSUME EInv, NEW p \in Payments, NEW t \in Txns, settledBy[p] = t
    PROVE  /\ payment[p].status = "succeeded" /\ payment[p].settled = fact[t].attempt
           /\ PaymentOf(t) = p /\ fact[t] # None
<1>1. payment[p].status = "succeeded"
  BY ConstantsAssumption DEF EInv, Rests
<1>2. /\ payment[p].settled \in Attempts /\ attempt[payment[p].settled].payment = p
      /\ fact[t] # None /\ fact[t].attempt = payment[p].settled
  BY <1>1 DEF EInv, Rests, FactOf
<1> QED BY <1>1, <1>2, ConstantsAssumption DEF PaymentOf

LEMMA RestsNext ==
    ASSUME EInv, Kinds, NEW p \in Payments
    PROVE  Rests(p)'
<1>1. CASE Quiet
  <2>1. CASE payment'[p] = payment[p]
    BY <1>1, <2>1, RestsStays DEF Quiet, SameBooks
  <2>2. CASE <<payment[p].status, payment'[p].status>> \in Opening
    BY <1>1, <2>2 DEF Quiet, SameBooks, Opening, EInv, Rests
  <2> QED BY <1>1, <2>1, <2>2 DEF Quiet
<1>2. ASSUME NEW q \in Payments, NEW reason \in {"cancel", "expiry"}, Closes(q, reason)
      PROVE  Rests(p)'
  <2>1. CASE p = q
    <3>1. payment[p] \in PaymentRow /\ payment \in [Payments -> PaymentRow]
      BY EInvTypes
    <3>2. payment'[p].status = "closing"
      BY <1>2, <2>1, <3>1 DEF Closes, PaymentRow
    <3>3. settledBy'[p] = None
      BY <1>2, <2>1 DEF Closes, SameBooks, EInv, Rests
    <3> QED BY <3>2, <3>3 DEF Rests
  <2>2. CASE p # q
    <3>1. payment'[p] = payment[p]
      BY <1>2, <2>2, EInvTypes DEF Closes
    <3> QED BY <1>2, <3>1, RestsStays DEF Closes, SameBooks
  <2> QED BY <2>1, <2>2
<1>3. ASSUME NEW q \in Payments, NEW k \in FinalUnsuccessful, Ends(q, k)
      PROVE  Rests(p)'
  <2>1. settledBy' = settledBy
    BY <1>3 DEF Ends
  <2>2. CASE p = q
    BY <1>3, <2>1, <2>2, EndedPayment DEF Rests, FinalUnsuccessful
  <2>3. CASE p # q
    <3>1. payment'[p] = payment[p]
      BY <1>3, <2>3, EndedPayment
    <3>2. ASSUME NEW t \in Txns, settledBy[p] = t
          PROVE  late'[t] = late[t]
      <4>1. PaymentOf(t) = p
        BY <3>2, SettledFact
      <4>2. ~ Recordable(t, q)
        BY <2>3, <4>1, EligibleFact DEF Recordable
      <4> QED BY <1>3, <4>2, EndedPayment
    <3> QED BY <2>1, <3>1, <3>2, RestsStays
  <2> QED BY <2>2, <2>3
<1>4. ASSUME NEW o \in Observers, Succeeds(o)
      PROVE  Rests(p)'
  <2> DEFINE q == attempt[obs[o].attempt].payment
             t == obs[o].fact
  <2>1. CASE p = q
    <3>1. /\ payment[p].status \notin Final /\ payment'[p].status = "succeeded"
          /\ payment'[p].settled = obs[o].attempt /\ settledBy'[p] = t
          /\ attempt'[obs[o].attempt].payment = p /\ t \in Txns /\ obs[o].attempt \in Attempts
          /\ fact[t] # None /\ fact[t].attempt = obs[o].attempt /\ PaymentOf(t) = p
          /\ fact[t].figure = "equal" /\ fact' = fact /\ late' = late
      BY <1>4, <2>1, SucceededPayment
    <3>2. late[t] = None
      BY <3>1 DEF EInv, LateKept, TooLate
    <3> QED BY <3>1, <3>2 DEF Rests, FactOf
  <2>2. CASE p # q
    <3>1. payment'[p] = payment[p] /\ settledBy'[p] = settledBy[p] /\ late' = late
      BY <1>4, <2>2, SucceededPayment
    <3> QED BY <3>1, RestsStays
  <2> QED BY <2>1, <2>2
<1>5. ASSUME NEW t \in Txns, BooksLate(t)
      PROVE  Rests(p)'
  <2>1. payment' = payment /\ settledBy' = settledBy
    BY <1>5 DEF BooksLate
  <2>2. ASSUME NEW u \in Txns, settledBy[p] = u
        PROVE  late'[u] = late[u]
    <3>1. payment[p].settled = fact[u].attempt /\ PaymentOf(u) = p
      BY <2>2, SettledFact
    <3>2. u # t
      BY <1>5, <3>1 DEF BooksLate, TooLate
    <3> QED BY <1>5, <3>2, BookedLate
  <2> QED BY <2>1, <2>2, RestsStays
<1> QED BY <1>1, <1>2, <1>3, <1>4, <1>5 DEF Kinds, Ledger

LEMMA LateNext ==
    ASSUME EInv, Kinds, NEW t \in Txns
    PROVE  LateKept(t)'
<1>1. LateKept(t) /\ lateEmitted[t] \in Nat
  BY EInvTypes DEF EInv, Types
<1>2. ASSUME late'[t] = late[t], lateEmitted'[t] = lateEmitted[t]
      PROVE  LateKept(t)'
  <2>1. CASE late[t] = None
    BY <1>1, <1>2, <2>1 DEF LateKept
  <2>2. CASE late[t] # None
    <3>1. /\ TooLate(t)' /\ PaymentOf(t)' = PaymentOf(t)
          /\ payment'[PaymentOf(t)] = payment[PaymentOf(t)]
      BY <1>1, <2>2, TooLateStays DEF LateKept
    <3> QED BY <1>1, <1>2, <2>2, <3>1 DEF LateKept
  <2> QED BY <2>1, <2>2
<1>3. ASSUME NEW p \in Payments, NEW k \in FinalUnsuccessful, Ends(p, k)
      PROVE  LateKept(t)'
  <2>1. CASE Recordable(t, p)
    <3>1. /\ fact[t] # None /\ fact[t].attempt \in Attempts /\ attempt[fact[t].attempt].payment = p
          /\ fact[t].figure \in {"equal", "wrong"} /\ p # None /\ fact[t].attempt # None
      BY <2>1, EligibleFact, ConstantsAssumption DEF Recordable
    <3>2. fact'[t] = fact[t] /\ attempt'[fact[t].attempt].payment = p
      BY <3>1 DEF Kinds, Permanent
    <3>3. PaymentOf(t)' = p
      BY <3>1, <3>2 DEF PaymentOf
    <3>4. /\ payment'[p].status = k /\ payment'[p].settled = None
          /\ late[t] = None /\ late'[t] # None /\ late'[t].status = k /\ lateEmitted'[t] = lateEmitted[t] + 1
      BY <1>3, <2>1, EndedPayment
    <3>5. TooLate(t)'
      BY <3>1, <3>2, <3>3, <3>4 DEF TooLate, Final
    <3> QED BY <1>1, <3>3, <3>4, <3>5 DEF LateKept
  <2>2. CASE ~ Recordable(t, p)
    BY <1>2, <1>3, <2>2, EndedPayment
  <2> QED BY <2>1, <2>2
<1>4. ASSUME NEW u \in Txns, BooksLate(u)
      PROVE  LateKept(t)'
  <2>1. CASE t = u
    <3>1. TooLate(t) /\ late[t] = None
      BY <1>4, <2>1 DEF BooksLate
    <3>2. /\ TooLate(t)' /\ PaymentOf(t)' = PaymentOf(t)
          /\ payment'[PaymentOf(t)] = payment[PaymentOf(t)]
      BY <3>1, TooLateStays
    <3>3. /\ late'[t] # None /\ late'[t].status = payment[PaymentOf(t)].status
          /\ lateEmitted'[t] = lateEmitted[t] + 1
      BY <1>4, <2>1, BookedLate
    <3> QED BY <1>1, <3>1, <3>2, <3>3 DEF LateKept
  <2>2. CASE t # u
    BY <1>2, <1>4, <2>2, BookedLate
  <2> QED BY <2>1, <2>2
<1>5. CASE Quiet \/ \E p \in Payments, reason \in {"cancel", "expiry"} : Closes(p, reason)
  BY <1>2, <1>5 DEF Quiet, Closes, SameBooks
<1>6. CASE \E o \in Observers : Succeeds(o)
  BY <1>2, <1>6 DEF Succeeds, SucceedWith
<1> QED BY <1>3, <1>4, <1>5, <1>6 DEF Kinds, Ledger

LEMMA EInvNext ==
    ASSUME EInv, [Next]_vars
    PROVE  EInv' /\ Kinds
<1>1. Kinds
  BY KindsNext
<1>2. IInv'
  BY IInvNext DEF EInv
<1>3. \A p \in Payments : Rests(p)'
  BY <1>1, RestsNext
<1>4. \A t \in Txns : LateKept(t)'
  BY <1>1, LateNext
<1>5. \A o \in Observers : LateRun(o)'
  <2>1. ASSUME NEW o \in Observers, NEW u \in Txns, obs'[o].pc = "late", obs'[o].fact = u
        PROVE  TooLate(u)' /\ fact'[u].attempt = obs'[o].attempt /\ fact'[u].figure = obs'[o].answer.figure
    <3>1. TooLate(u) /\ fact[u].attempt = obs'[o].attempt /\ fact[u].figure = obs'[o].answer.figure
      BY <1>1, <2>1 DEF Kinds, RunsKept
    <3> QED BY <1>1, <3>1, TooLateStays
  <2>2. ASSUME NEW o \in Observers, obs'[o].pc = "late"
        PROVE  obs'[o].fact \in Txns
    BY <1>1, <2>2 DEF Kinds, RunsKept, TooLate
  <2> QED BY <2>1, <2>2 DEF LateRun, TooLate, PaymentOf
<1>6. UsableFacts'
  BY <1>1 DEF Kinds, Permanent, UsableFacts
<1> QED BY <1>1, <1>2, <1>3, <1>4, <1>5, <1>6 DEF EInv

LEMMA EInvAlways == Spec => []EInv
<1>1. Init => EInv
  <2> SUFFICES ASSUME Init
               PROVE  EInv
    OBVIOUS
  <2>1. IInv
    BY IInvInit
  <2>2. \A p \in Payments : Rests(p)
    BY DEF Init, Rests
  <2>3. \A t \in Txns : LateKept(t)
    BY DEF Init, LateKept
  <2>4. \A o \in Observers : LateRun(o)
    BY DEF Init, LateRun, Idle
  <2>5. UsableFacts
    BY DEF Init, UsableFacts
  <2> QED BY <2>1, <2>2, <2>3, <2>4, <2>5 DEF EInv
<1>2. EInv /\ [Next]_vars => EInv'
  BY EInvNext
<1> QED BY <1>1, <1>2, PTL DEF Spec


\* S0-C11: on every instance a settled payment rests on a capture of its own attempt, of
\* its exact figure, that was never booked as a late success too (captureEvidence,
\* recordQualifyingLateSuccesses).
THEOREM SettledOnEvidenceAlways == Spec => []SettledOnEvidence
<1>1. EInv => SettledOnEvidence
  BY ConstantsAssumption DEF EInv, Rests, SettledOnEvidence
<1> QED BY <1>1, EInvAlways, PTL

\* F-4, S0-C12: every late success names a usable capture of an attempt that did not
\* settle, has its payment's final status, and was announced once (recordLateSuccess).
THEOREM LateSuccessSoundAlways == Spec => []LateSuccessSound
<1>1. EInv => LateSuccessSound
  BY ConstantsAssumption DEF EInv, LateKept, TooLate, LateSuccessSound
<1> QED BY <1>1, EInvAlways, PTL

-----------------------------------------------------------------------------
(* No transaction is aborted by a database guard *)

LEMMA ClosedPayment ==
    ASSUME EInv, NEW p \in Payments, NEW reason \in {"cancel", "expiry"}, Closes(p, reason)
    PROVE  /\ payment[p].status \in {"created", "pending"} /\ IsPaymentUncertain(attempt', p)
           /\ payment'[p].status = "closing" /\ payment'[p].reason = reason
           /\ \A q \in Payments \ {p} : payment'[q] = payment[q]
           /\ UNCHANGED <<emitted, attempt>> /\ SameBooks
<1> DEFINE row == [payment[p] EXCEPT !.status = "closing", !.reason = reason]
<1>1. payment[p] \in PaymentRow /\ payment \in [Payments -> PaymentRow]
  BY EInvTypes
<1>2. row.status = "closing" /\ row.reason = reason
  BY <1>1 DEF PaymentRow
<1>3. payment' = [payment EXCEPT ![p] = row]
  BY DEF Closes
<1> HIDE DEF row
<1>4. /\ payment'[p].status = "closing" /\ payment'[p].reason = reason
      /\ \A q \in Payments \ {p} : payment'[q] = payment[q]
  BY <1>1, <1>2, <1>3
<1> QED BY <1>4 DEF Closes, IsPaymentUncertain

LEMMA MovesAllowed ==
    ASSUME EInv, Kinds, NEW p \in Payments, Moved(p)
    PROVE  TransitionGuard(p) /\ SettlementGuard(p)
<1> USE DEF Moved
<1>1. CASE Quiet
  <2>1. <<payment[p].status, payment'[p].status>> \in Opening
    BY <1>1 DEF Quiet
  <2> QED BY <2>1 DEF Opening, TransitionGuard, Allowed, FinalUnsuccessful, SettlementGuard
<1>2. ASSUME NEW q \in Payments, NEW reason \in {"cancel", "expiry"}, Closes(q, reason)
      PROVE  TransitionGuard(p) /\ SettlementGuard(p)
  <2>1. p = q
    BY <1>2, ClosedPayment
  <2>2. /\ payment[p].status \in {"created", "pending"} /\ payment'[p].status = "closing"
        /\ IsPaymentUncertain(attempt', p)
    BY <1>2, <2>1, ClosedPayment
  <2> QED BY <2>2 DEF TransitionGuard, Allowed, FinalUnsuccessful, SettlementGuard
<1>3. ASSUME NEW q \in Payments, NEW k \in FinalUnsuccessful, Ends(q, k)
      PROVE  TransitionGuard(p) /\ SettlementGuard(p)
  <2>1. p = q /\ payment'[p].status = k
    BY <1>3, EndedPayment
  <2>2. /\ payment[p].status \in {"created", "pending", "closing"}
        /\ payment[p].status = "closing" => k \in {"cancelled", "expired"}
        /\ payment[p].status = "pending" => k = "failed"
        /\ ~ IsPaymentUncertain(attempt', p)
        /\ <<payment[p].status, k>> = <<"created", "failed">> =>
              \E a \in AttemptsOf(p) : attempt'[a].status = "failed_confirmed"
    BY <1>3, <2>1 DEF Ends, ClosingOutcome
  <2>3. k \in {"failed", "cancelled", "expired"}
    BY DEF FinalUnsuccessful
  <2>4. <<payment[p].status, payment'[p].status>> \in Allowed
    BY <2>1, <2>2, <2>3 DEF Allowed
  <2> QED BY <2>1, <2>2, <2>3, <2>4 DEF TransitionGuard, SettlementGuard
<1>4. ASSUME NEW o \in Observers, Succeeds(o)
      PROVE  TransitionGuard(p) /\ SettlementGuard(p)
  <2> DEFINE a == obs[o].attempt
             t == obs[o].fact
  <2>1. /\ p = attempt[a].payment /\ payment[p].status \notin Final /\ a \in Attempts /\ t \in Txns
        /\ payment'[p].status = "succeeded" /\ payment'[p].settled = a /\ Uncertain(attempt[a])
        /\ fact[t] # None /\ fact[t].attempt = a /\ fact[t].figure = "equal"
        /\ Sole(t) /\ t \notin contested
    BY <1>4, SucceededPayment
  <2>2. a \in UncertainAttempts(p)
    BY <2>1 DEF UncertainAttempts, AttemptsOf
  <2>3. payment[p].status \in {"created", "pending", "closing"}
    BY <2>1, <2>2, EInvTypes DEF OneCollection, OneCollectionOf, PaymentRow, PaymentStatus
  <2>4. payment[p].status = "created" => attempt[a].status = "failed_inferred"
    BY <2>2, EInvTypes DEF OneCollection, OneCollectionOf
  <2>5. TransitionGuard(p)
    BY <2>1, <2>3, <2>4 DEF TransitionGuard, Allowed, FinalUnsuccessful
  <2>6. SettlementGuard(p)
    BY <2>1 DEF SettlementGuard, FactOf
  <2> QED BY <2>5, <2>6
<1>5. CASE \E t \in Txns : BooksLate(t)
  BY <1>5 DEF BooksLate
<1> QED BY <1>1, <1>2, <1>3, <1>4, <1>5 DEF Kinds, Ledger

LEMMA BookingsAllowed ==
    ASSUME EInv, Kinds, NEW t \in Txns, late'[t] # late[t]
    PROVE  LateGuard(t)
<1>1. ASSUME NEW p \in Payments, NEW k \in FinalUnsuccessful, Ends(p, k)
      PROVE  LateGuard(t)
  <2>1. Recordable(t, p)
    BY <1>1, EndedPayment
  <2>2. Sole(t) /\ t \notin contested /\ PaymentOf(t) = p
    BY <2>1, EligibleFact DEF Recordable
  <2>3. late'[t].status = k /\ payment'[p].status = k
    BY <1>1, <2>1, EndedPayment
  <2> QED BY <2>2, <2>3 DEF LateGuard, Final
<1>2. ASSUME NEW u \in Txns, BooksLate(u)
      PROVE  LateGuard(t)
  <2>1. t = u
    BY <1>2, BookedLate
  <2>2. TooLate(t) /\ Sole(t) /\ t \notin contested /\ payment' = payment
    BY <1>2, <2>1 DEF BooksLate
  <2>3. late'[t].status = payment[PaymentOf(t)].status
    BY <1>2, <2>1, BookedLate
  <2> QED BY <2>2, <2>3 DEF LateGuard, TooLate
<1>3. CASE Quiet \/ \E p \in Payments, reason \in {"cancel", "expiry"} : Closes(p, reason)
  BY <1>3 DEF Quiet, Closes, SameBooks
<1>4. CASE \E o \in Observers : Succeeds(o)
  BY <1>4 DEF Succeeds, SucceedWith
<1> QED BY <1>1, <1>2, <1>3, <1>4 DEF Kinds, Ledger

\* what a run found late still satisfies the trigger, unless its fact was contradicted
LEMMA OnlyContradictions ==
    ASSUME EInv
    PROVE  OnlyContradictionsRefused
<1> SUFFICES ASSUME NEW o \in Observers, Refused(o)
             PROVE  obs[o].fact \in contested
  BY DEF OnlyContradictionsRefused
<1> DEFINE t == obs[o].fact
           a == obs[o].attempt
<1>1. obs[o].pc = "late" /\ Sole(t) /\ ~ FactGuard(o)
  BY DEF Refused
<1>2. TooLate(t) /\ fact[t].attempt = a /\ fact[t].figure = obs[o].answer.figure
  BY <1>1 DEF EInv, LateRun
<1>3. FactOf(t, a)
  BY <1>2 DEF TooLate, FactOf
<1>4. payment[attempt[a].payment].status \in Final
  BY <1>2, ConstantsAssumption DEF TooLate, PaymentOf
<1> QED BY <1>1, <1>2, <1>3, <1>4 DEF FactGuard

\* The triggers of 0012, 0024 and 0026 refuse a late success for one reason, a capture
\* contradicted after its observation was decided.  Whatever else the service decides
\* they accept: a payment only makes the transitions they allow, settles on an uncontested
\* capture of its exact figure, and a late success that is written is of a final payment
\* and of the only capture of its attempt, not contradicted.
THEOREM DatabaseGuardsHold == Spec => DatabaseGuards
<1> DEFINE Step == /\ \A p \in Payments : Moved(p) => TransitionGuard(p) /\ SettlementGuard(p)
                   /\ \A t \in Txns : late'[t] # late[t] => LateGuard(t)
<1>1. EInv /\ [Next]_vars => [Step]_vars
  BY KindsNext, MovesAllowed, BookingsAllowed
<1>2. EInv => OnlyContradictionsRefused
  BY OnlyContradictions
<1>3. [Step]_vars /\ OnlyContradictionsRefused' => [Step /\ OnlyContradictionsRefused']_vars
  OBVIOUS
<1> QED BY <1>1, <1>2, <1>3, EInvAlways, PTL DEF Spec, DatabaseGuards

-----------------------------------------------------------------------------
(* The payments keep the promise of PaymentOutcome *)

\* the outcome the producer sees depends on the payment's row alone
LEMMA OutcomeValues ==
    ASSUME NEW p \in Payments
    PROVE  /\ payment[p].status \in Final => OutcomeNow[p] = payment[p].status
           /\ payment[p].status = "closing" =>
                 OutcomeNow[p] = IF payment[p].reason = "cancel" THEN "cancelling" ELSE "expiring"
           /\ payment[p].status \in {"none", "created", "pending"} => OutcomeNow[p] = "open"
BY DEF OutcomeNow, Final, FinalUnsuccessful

LEMMA OutcomeValuesNext ==
    ASSUME NEW p \in Payments
    PROVE  /\ payment'[p].status \in Final => OutcomeNow'[p] = payment'[p].status
           /\ payment'[p].status = "closing" =>
                 OutcomeNow'[p] = IF payment'[p].reason = "cancel" THEN "cancelling" ELSE "expiring"
           /\ payment'[p].status \in {"none", "created", "pending"} => OutcomeNow'[p] = "open"
           /\ payment'[p] = payment[p] => OutcomeNow'[p] = OutcomeNow[p]
BY DEF OutcomeNow, Final, FinalUnsuccessful

LEMMA OutcomeChange ==
    ASSUME NEW p \in Payments, NEW v, OutcomeNow'[p] = v,
           \A q \in Payments \ {p} : payment'[q] = payment[q]
    PROVE  OutcomeNow' = [OutcomeNow EXCEPT ![p] = v]
<1>1. \A q \in Payments \ {p} : OutcomeNow'[q] = OutcomeNow[q]
  BY OutcomeValuesNext
<1>2. /\ OutcomeNow = [q \in Payments |-> OutcomeNow[q]]
      /\ OutcomeNow' = [q \in Payments |-> OutcomeNow'[q]]
  BY DEF OutcomeNow
<1> QED BY <1>1, <1>2

LEMMA AnnouncedChange ==
    ASSUME EInv, NEW p \in Payments, NEW k \in Final, emitted' = [emitted EXCEPT ![p][k] = @ + 1]
    PROVE  AnnouncedNow' = [AnnouncedNow EXCEPT ![p][k] = @ + 1]
<1>1. emitted \in [Payments -> [EventKinds -> Nat]] /\ k \in EventKinds
  BY EInvTypes DEF Types, EventKinds
<1>2. \A q \in Payments, j \in Final :
         emitted'[q][j] = IF q = p /\ j = k THEN emitted[q][j] + 1 ELSE emitted[q][j]
  BY <1>1 DEF EventKinds
<1> DEFINE row == [AnnouncedNow[p] EXCEPT ![k] = @ + 1]
<1>3. AnnouncedNow[p] = [j \in Final |-> emitted[p][j]]
  BY DEF AnnouncedNow
<1>4. row = [j \in Final |-> emitted'[p][j]]
  BY <1>2, <1>3
<1>5. AnnouncedNow' = [q \in Payments |-> IF q = p THEN row ELSE AnnouncedNow[q]]
  BY <1>2, <1>4 DEF AnnouncedNow
<1> HIDE DEF row
<1>6. AnnouncedNow' = [AnnouncedNow EXCEPT ![p] = row]
  BY <1>5 DEF AnnouncedNow
<1> QED BY <1>6 DEF row

\* a capture has one use, by the payment of its attempt
BookedAs(t) ==
    IF late[t] # None THEN [use |-> "late", payment |-> PaymentOf(t)]
    ELSE IF \E p \in Payments : settledBy[p] = t THEN [use |-> "settled", payment |-> PaymentOf(t)]
    ELSE [use |-> "none", payment |-> None]

LEMMA BookedIs == EInv => BookedNow = [t \in Txns |-> BookedAs(t)]
<1> SUFFICES ASSUME EInv
             PROVE  BookedNow = [t \in Txns |-> BookedAs(t)]
  OBVIOUS
<1>1. ASSUME NEW t \in Txns, \E p \in Payments : settledBy[p] = t
      PROVE  (CHOOSE p \in Payments : settledBy[p] = t) = PaymentOf(t)
  BY <1>1, SettledFact
<1> QED BY <1>1 DEF BookedNow, BookedAs

LEMMA BookedIsNext ==
    ASSUME EInv, [Next]_vars
    PROVE  BookedNow' = [t \in Txns |-> BookedAs(t)']
<1>1. EInv'
  BY EInvNext
<1>2. (EInv => BookedNow = [t \in Txns |-> BookedAs(t)])'
  BY BookedIs, PTL
<1> QED BY <1>1, <1>2

\* only the captures a step books change their use
LEMMA UseStays ==
    ASSUME EInv, Kinds, NEW t \in Txns, late'[t] = late[t],
           \A p \in Payments : settledBy'[p] = t <=> settledBy[p] = t
    PROVE  BookedAs(t)' = BookedAs(t)
<1>1. ASSUME fact[t] # None, fact[t].attempt \in Attempts, attempt[fact[t].attempt].payment # None
      PROVE  PaymentOf(t)' = PaymentOf(t)
  BY <1>1 DEF Kinds, Permanent, PaymentOf
<1>2. CASE late[t] # None
  <2>1. PaymentOf(t)' = PaymentOf(t)
    BY <1>2, TooLateStays DEF EInv, LateKept
  <2> QED BY <1>2, <2>1 DEF BookedAs
<1>3. CASE late[t] = None /\ \E p \in Payments : settledBy[p] = t
  <2>1. PICK p \in Payments : settledBy[p] = t
    BY <1>3
  <2>2. payment[p].status = "succeeded"
    BY <2>1, SettledFact
  <2>3. /\ fact[t] # None /\ fact[t].attempt \in Attempts /\ attempt[fact[t].attempt].payment # None
    BY <2>1, <2>2, ConstantsAssumption DEF EInv, Rests, FactOf
  <2> QED BY <1>1, <1>3, <2>3 DEF BookedAs
<1>4. CASE late[t] = None /\ ~ \E p \in Payments : settledBy[p] = t
  BY <1>4 DEF BookedAs
<1> QED BY <1>2, <1>3, <1>4

LEMMA BookedChange ==
    ASSUME EInv, [Next]_vars, NEW T \in SUBSET Txns, NEW use, NEW p,
           \A t \in T : /\ late[t] = None /\ ~ \E q \in Payments : settledBy[q] = t
                        /\ BookedAs(t)' = [use |-> use, payment |-> p],
           \A t \in Txns \ T : BookedAs(t)' = BookedAs(t)
    PROVE  Outcome!Book(T, use, p)
<1>1. BookedNow = [t \in Txns |-> BookedAs(t)] /\ BookedNow' = [t \in Txns |-> BookedAs(t)']
  BY BookedIs, BookedIsNext
<1>2. \A t \in T : BookedNow[t] = [use |-> "none", payment |-> None]
  BY <1>1 DEF BookedAs
<1>3. BookedNow' = [t \in Txns |-> IF t \in T THEN [use |-> use, payment |-> p] ELSE BookedNow[t]]
  BY <1>1
<1> QED BY <1>2, <1>3 DEF Outcome!Book, Outcome!NotBooked

LEMMA BookedUnchanged ==
    ASSUME EInv, [Next]_vars, SameBooks
    PROVE  BookedNow' = BookedNow
<1>1. \A t \in Txns : BookedAs(t)' = BookedAs(t)
  BY KindsNext, UseStays DEF SameBooks
<1> QED BY <1>1, BookedIs, BookedIsNext

LEMMA QuietOutcome ==
    ASSUME EInv, [Next]_vars, Quiet
    PROVE  UNCHANGED Outcome!vars
<1>1. \A p \in Payments : OutcomeNow'[p] = OutcomeNow[p]
  <2> SUFFICES ASSUME NEW p \in Payments
               PROVE  OutcomeNow'[p] = OutcomeNow[p]
    OBVIOUS
  <2>1. CASE payment'[p] = payment[p]
    BY <2>1, OutcomeValuesNext
  <2>2. CASE <<payment[p].status, payment'[p].status>> \in Opening
    BY <2>2, OutcomeValues, OutcomeValuesNext DEF Opening
  <2> QED BY <2>1, <2>2 DEF Quiet
<1>2. OutcomeNow' = OutcomeNow
  <2>1. /\ OutcomeNow = [q \in Payments |-> OutcomeNow[q]]
        /\ OutcomeNow' = [q \in Payments |-> OutcomeNow'[q]]
    BY DEF OutcomeNow
  <2> QED BY <1>1, <2>1
<1>3. AnnouncedNow' = AnnouncedNow
  BY DEF Quiet, AnnouncedNow
<1>4. BookedNow' = BookedNow
  BY BookedUnchanged DEF Quiet
<1> QED BY <1>2, <1>3, <1>4 DEF Outcome!vars

LEMMA ClosesOutcome ==
    ASSUME EInv, [Next]_vars, NEW p \in Payments, NEW reason \in {"cancel", "expiry"}, Closes(p, reason)
    PROVE  Outcome!BeginClosing(p)
<1>1. OutcomeNow[p] = "open"
  BY ClosedPayment, OutcomeValues
<1>2. OutcomeNow'[p] \in {"cancelling", "expiring"}
  BY ClosedPayment, OutcomeValuesNext
<1>3. OutcomeNow' = [OutcomeNow EXCEPT ![p] = OutcomeNow'[p]]
  BY ClosedPayment, OutcomeChange
<1>4. AnnouncedNow' = AnnouncedNow
  BY ClosedPayment DEF AnnouncedNow
<1>5. BookedNow' = BookedNow
  BY ClosedPayment, BookedUnchanged
<1> QED BY <1>1, <1>2, <1>3, <1>4, <1>5 DEF Outcome!BeginClosing

LEMMA EndsOutcome ==
    ASSUME EInv, [Next]_vars, NEW p \in Payments, NEW k \in FinalUnsuccessful, Ends(p, k)
    PROVE  Outcome!EndWithoutMoney(p)
<1> DEFINE T == {t \in Txns : Recordable(t, p)}
<1>1. Kinds /\ k \in Final /\ k \in Outcome!Outcomes \ {"succeeded"}
  BY KindsNext DEF Final, FinalUnsuccessful, Outcome!Outcomes
<1>2. \/ OutcomeNow[p] = "open"
      \/ OutcomeNow[p] = "cancelling" /\ k = "cancelled"
      \/ OutcomeNow[p] = "expiring" /\ k = "expired"
  BY OutcomeValues DEF Ends, ClosingOutcome
<1>3. OutcomeNow'[p] = k
  BY <1>1, EndedPayment, OutcomeValuesNext
<1>4. OutcomeNow' = [OutcomeNow EXCEPT ![p] = k]
  BY <1>3, EndedPayment, OutcomeChange
<1>5. AnnouncedNow' = [AnnouncedNow EXCEPT ![p][k] = @ + 1]
  BY <1>1, AnnouncedChange DEF Ends, EndPayment
<1>6. ASSUME NEW t \in T
      PROVE  /\ late[t] = None /\ ~ \E q \in Payments : settledBy[q] = t
             /\ BookedAs(t)' = [use |-> "late", payment |-> p]
  <2>1. /\ fact[t] # None /\ fact[t].attempt \in Attempts /\ attempt[fact[t].attempt].payment = p
        /\ PaymentOf(t) = p /\ late[t] = None /\ late'[t] # None /\ p # None /\ fact[t].attempt # None
    BY <1>6, EligibleFact, EndedPayment, ConstantsAssumption DEF Recordable
  <2>2. fact'[t] = fact[t] /\ attempt'[fact[t].attempt].payment = p
    BY <1>1, <2>1 DEF Kinds, Permanent
  <2>3. PaymentOf(t)' = p
    BY <2>1, <2>2 DEF PaymentOf
  <2>4. ASSUME NEW q \in Payments, settledBy[q] = t
        PROVE  FALSE
    BY <2>1, <2>4, SettledFact DEF Ends
  <2> QED BY <2>1, <2>3, <2>4 DEF BookedAs
<1>7. ASSUME NEW t \in Txns \ T
      PROVE  BookedAs(t)' = BookedAs(t)
  <2>1. late'[t] = late[t] /\ settledBy' = settledBy
    BY <1>7, EndedPayment DEF Ends
  <2> QED BY <1>1, <2>1, UseStays
<1>8. Outcome!Book(T, "late", p)
  <2> HIDE DEF T
  <2>1. T \in SUBSET Txns
    BY DEF T
  <2> QED BY <1>6, <1>7, <2>1, BookedChange
<1> QED BY <1>1, <1>2, <1>4, <1>5, <1>8 DEF Outcome!EndWithoutMoney, Outcome!Announce

LEMMA SucceedsOutcome ==
    ASSUME EInv, [Next]_vars, NEW o \in Observers, Succeeds(o)
    PROVE  \E p \in Payments : Outcome!Settle(p)
<1>0. PICK p, t : p = attempt[obs[o].attempt].payment /\ t = obs[o].fact
  OBVIOUS
<1>1. /\ p \in Payments /\ payment[p].status \notin Final /\ payment'[p].status = "succeeded"
      /\ settledBy'[p] = t /\ t \in Txns /\ PaymentOf(t) = p /\ fact[t] # None
      /\ obs[o].attempt \in Attempts /\ attempt'[obs[o].attempt].payment = p
      /\ fact[t].attempt = obs[o].attempt /\ late' = late /\ fact' = fact
      /\ \A q \in Payments \ {p} : payment'[q] = payment[q] /\ settledBy'[q] = settledBy[q]
  BY <1>0, SucceededPayment
<1>2. Kinds /\ "succeeded" \in Final
  BY KindsNext DEF Final
<1>3. OutcomeNow[p] \in Outcome!Unfinished
  <2>1. payment[p].status \in PaymentStatus
    BY <1>1, EInvTypes DEF PaymentRow
  <2> QED BY <1>1, <2>1, OutcomeValues DEF PaymentStatus, Outcome!Unfinished
<1>4. OutcomeNow' = [OutcomeNow EXCEPT ![p] = "succeeded"]
  <2>1. OutcomeNow'[p] = "succeeded"
    BY <1>1, <1>2, OutcomeValuesNext
  <2> QED BY <1>1, <2>1, OutcomeChange
<1>5. AnnouncedNow' = [AnnouncedNow EXCEPT ![p]["succeeded"] = @ + 1]
  <2>1. emitted' = [emitted EXCEPT ![p]["succeeded"] = @ + 1]
    BY <1>0 DEF Succeeds, SucceedWith
  <2> QED BY <1>1, <1>2, <2>1, AnnouncedChange
<1>6. settledBy[p] = None
  BY <1>1, <1>2 DEF EInv, Rests
<1>7. /\ late[t] = None /\ ~ \E q \in Payments : settledBy[q] = t
      /\ BookedAs(t)' = [use |-> "settled", payment |-> p]
  <2>1. late[t] = None
    BY <1>1 DEF EInv, LateKept, TooLate
  <2>2. ASSUME NEW q \in Payments, settledBy[q] = t
        PROVE  FALSE
    BY <1>1, <1>2, <2>2, SettledFact
  <2>3. PaymentOf(t)' = p
    BY <1>1, ConstantsAssumption DEF PaymentOf
  <2> QED BY <1>1, <2>1, <2>2, <2>3 DEF BookedAs
<1>8. ASSUME NEW u \in Txns \ {t}
      PROVE  BookedAs(u)' = BookedAs(u)
  <2>1. \A q \in Payments : settledBy'[q] = u <=> settledBy[q] = u
    BY <1>1, <1>6, ConstantsAssumption
  <2>2. late'[u] = late[u]
    BY <1>1
  <2> QED BY <1>2, <2>1, <2>2, UseStays
<1>9. Outcome!Book({t}, "settled", p)
  <2>1. {t} \in SUBSET Txns
    BY <1>1
  <2> QED BY <1>7, <1>8, <2>1, BookedChange
<1> QED BY <1>1, <1>3, <1>4, <1>5, <1>9 DEF Outcome!Settle, Outcome!Announce

LEMMA BooksLateOutcome ==
    ASSUME EInv, [Next]_vars, NEW t \in Txns, BooksLate(t)
    PROVE  \E p \in Payments : Outcome!BookLate(p)
<1> DEFINE p == PaymentOf(t)
<1>1. /\ TooLate(t) /\ late[t] = None /\ UNCHANGED <<payment, emitted, settledBy>> /\ p \in Payments
      /\ payment[p].status \in Final /\ payment[p].settled # fact[t].attempt
  BY DEF BooksLate, TooLate
<1>2. Kinds /\ late'[t] # None /\ PaymentOf(t)' = p
      /\ \A u \in Txns \ {t} : late'[u] = late[u]
  BY <1>1, KindsNext, BookedLate, TooLateStays
<1>3. OutcomeNow[p] \in Outcome!Outcomes
  BY <1>1, OutcomeValues DEF Final, FinalUnsuccessful, Outcome!Outcomes
<1>4. OutcomeNow' = OutcomeNow /\ AnnouncedNow' = AnnouncedNow
  BY <1>1 DEF OutcomeNow, AnnouncedNow
<1>5. /\ late[t] = None /\ ~ \E q \in Payments : settledBy[q] = t
      /\ BookedAs(t)' = [use |-> "late", payment |-> p]
  <2>1. ASSUME NEW q \in Payments, settledBy[q] = t
        PROVE  FALSE
    BY <1>1, <2>1, SettledFact
  <2> QED BY <1>1, <1>2, <2>1 DEF BookedAs
<1>6. ASSUME NEW u \in Txns \ {t}
      PROVE  BookedAs(u)' = BookedAs(u)
  <2>1. late'[u] = late[u] /\ settledBy' = settledBy
    BY <1>1, <1>2
  <2> QED BY <1>2, <2>1, UseStays
<1>7. Outcome!Book({t}, "late", p)
  <2> HIDE DEF p
  <2> QED BY <1>5, <1>6, BookedChange
<1> QED
  <2> HIDE DEF p
  <2> QED BY <1>1, <1>3, <1>4, <1>7 DEF Outcome!BookLate

LEMMA InitOutcome ==
    ASSUME Init
    PROVE  Outcome!Init
<1>1. OutcomeNow = [p \in Payments |-> "open"]
  BY DEF Init, OutcomeNow, Final, FinalUnsuccessful
<1>2. AnnouncedNow = [p \in Payments |-> [k \in Outcome!Outcomes |-> 0]]
  <2>1. Final = Outcome!Outcomes /\ Final \subseteq EventKinds
    BY DEF Final, FinalUnsuccessful, Outcome!Outcomes, EventKinds
  <2> QED BY <2>1 DEF Init, AnnouncedNow
<1>3. BookedNow = [t \in Txns |-> Outcome!NotBooked]
  BY ConstantsAssumption DEF Init, BookedNow, Outcome!NotBooked
<1> QED BY <1>1, <1>2, <1>3 DEF Outcome!Init

LEMMA OutcomeStep ==
    ASSUME EInv, [Next]_vars
    PROVE  [Outcome!Next]_Outcome!vars
<1>1. Kinds
  BY KindsNext
<1>2. CASE Quiet
  BY <1>2, QuietOutcome
<1>3. ASSUME NEW p \in Payments, NEW reason \in {"cancel", "expiry"}, Closes(p, reason)
      PROVE  Outcome!Next
  BY <1>3, ClosesOutcome DEF Outcome!Next
<1>4. ASSUME NEW p \in Payments, NEW k \in FinalUnsuccessful, Ends(p, k)
      PROVE  Outcome!Next
  BY <1>4, EndsOutcome DEF Outcome!Next
<1>5. ASSUME NEW o \in Observers, Succeeds(o)
      PROVE  Outcome!Next
  BY <1>5, SucceedsOutcome DEF Outcome!Next
<1>6. ASSUME NEW t \in Txns, BooksLate(t)
      PROVE  Outcome!Next
  BY <1>6, BooksLateOutcome DEF Outcome!Next
<1> QED BY <1>1, <1>2, <1>3, <1>4, <1>5, <1>6 DEF Kinds, Ledger

\* Attempts, observations, crashes and retries refine the plain payment of
\* PaymentOutcome: it ends once, with one announcement, and every capture is used at
\* most once (create, cancel, start, applyStatus, trySweepOne, processFact).
THEOREM ImplementsOutcome == Spec => Outcome!Spec
<1>1. Init => Outcome!Init
  BY InitOutcome
<1>2. EInv /\ [Next]_vars => [Outcome!Next]_Outcome!vars
  BY OutcomeStep
<1> QED BY <1>1, <1>2, EInvAlways, PTL DEF Spec, Outcome!Spec

\* The same refinement in the form the runs check, which spares TLC the mapping of the
\* steps that write nothing it reads.
THEOREM PromiseKept == Spec => KeepsPromise
<1>1. [Outcome!Next]_Outcome!vars =>
         [UNCHANGED Mapped \/ Outcome!Next \/ UNCHANGED Outcome!vars]_vars
  OBVIOUS
<1> QED BY <1>1, ImplementsOutcome, PTL DEF KeepsPromise, Outcome!Spec

=============================================================================
