----------------------- MODULE PaymentSettlementProofs -----------------------
(***************************************************************************)
(* Proofs about PaymentSettlement, for every set of payments, attempts,    *)
(* captures and observers.  The type invariant comes first; IInv adds what *)
(* makes OneCollection and SettledOnce inductive.                          *)
(***************************************************************************)
EXTENDS PaymentSettlement, FiniteSetTheorems, TLAPS

LEMMA RecordLateSuccessesType ==
    ASSUME Types, NEW T \in SUBSET {t \in Txns : fact[t] # None}, NEW s \in Final,
           RecordLateSuccesses(T, s)
    PROVE  /\ late' \in [Txns -> LateRow \cup {None}]
           /\ lateEmitted' \in [Txns -> Nat]
<1>1. \A t \in T : [status |-> s, source |-> fact[t].source] \in LateRow
  BY DEF Types, LateRow, FactRow, PaymentStatus
<1> QED BY <1>1 DEF RecordLateSuccesses, Types

LEMMA EndPaymentType ==
    ASSUME Types, NEW p, NEW s \in Final, EndPayment(p, s)
    PROVE  /\ payment' \in [Payments -> PaymentRow]
           /\ emitted' \in [Payments -> [EventKinds -> Nat]]
           /\ late' \in [Txns -> LateRow \cup {None}]
           /\ lateEmitted' \in [Txns -> Nat]
<1>1. {t \in Txns : Recordable(t, p)} \in SUBSET {t \in Txns : fact[t] # None}
  BY DEF Recordable, Eligible, CaptureOf
<1>2. /\ late' \in [Txns -> LateRow \cup {None}]
      /\ lateEmitted' \in [Txns -> Nat]
  BY <1>1, RecordLateSuccessesType DEF EndPayment
<1>3. payment' \in [Payments -> PaymentRow]
  <2>1. payment \in [Payments -> PaymentRow]
    BY DEF Types
  <2>2. payment' = [payment EXCEPT ![p] = [payment[p] EXCEPT !.status = s]]
    BY DEF EndPayment
  <2>3. CASE p \in Payments
    <3>1. payment[p] \in PaymentRow /\ s \in PaymentStatus
      BY <2>1, <2>3 DEF PaymentStatus
    <3>2. [payment[p] EXCEPT !.status = s] \in PaymentRow
      BY <3>1 DEF PaymentRow
    <3> QED BY <2>1, <2>2, <3>2
  <2>4. CASE p \notin Payments
    BY <2>1, <2>2, <2>4
  <2> QED BY <2>3, <2>4
<1>4. emitted' \in [Payments -> [EventKinds -> Nat]]
  <2>1. s \in EventKinds
    BY DEF EventKinds
  <2>2. CASE p \in Payments
    <3>1. emitted[p] \in [EventKinds -> Nat]
      BY <2>2 DEF Types
    <3>2. [emitted[p] EXCEPT ![s] = @ + 1] \in [EventKinds -> Nat]
      BY <2>1, <3>1
    <3>3. emitted' = [emitted EXCEPT ![p] = [emitted[p] EXCEPT ![s] = @ + 1]]
      BY DEF EndPayment
    <3> QED BY <3>2, <3>3 DEF Types
  <2>3. CASE p \notin Payments
    BY <2>3 DEF EndPayment, Types
  <2> QED BY <2>2, <2>3
<1> QED BY <1>2, <1>3, <1>4

\* what a change of one attempt's status changes
LEMMA StatusWritten ==
    ASSUME Types, NEW a \in Attempts, NEW s \in AttemptStatus, attempt' = [attempt EXCEPT ![a].status = s]
    PROVE  /\ attempt' \in [Attempts -> AttemptRow]
           /\ attempt'[a] = [attempt[a] EXCEPT !.status = s]
           /\ attempt'[a].status = s
           /\ \A b \in Attempts \ {a} : attempt'[b] = attempt[b]
           /\ \A b \in Attempts : attempt'[b].payment = attempt[b].payment
<1>1. attempt[a] \in AttemptRow /\ attempt \in [Attempts -> AttemptRow]
  BY DEF Types
<1>2. /\ [attempt[a] EXCEPT !.status = s] \in AttemptRow
      /\ [attempt[a] EXCEPT !.status = s].status = s
      /\ [attempt[a] EXCEPT !.status = s].payment = attempt[a].payment
  BY <1>1 DEF AttemptRow
<1>3. attempt'[a] = [attempt[a] EXCEPT !.status = s] /\ \A b \in Attempts \ {a} : attempt'[b] = attempt[b]
  BY <1>1
<1>4. attempt' \in [Attempts -> AttemptRow]
  BY <1>1, <1>2
<1> QED BY <1>2, <1>3, <1>4

LEMMA FailAttemptType ==
    ASSUME Types, NEW a \in Attempts, NEW s \in AttemptStatus, NEW fatal, FailAttempt(a, s, fatal)
    PROVE  /\ attempt' \in [Attempts -> AttemptRow]
           /\ payment' \in [Payments -> PaymentRow]
           /\ emitted' \in [Payments -> [EventKinds -> Nat]]
           /\ late' \in [Txns -> LateRow \cup {None}]
           /\ lateEmitted' \in [Txns -> Nat]
<1>1. attempt' \in [Attempts -> AttemptRow]
  BY StatusWritten DEF FailAttempt
<1> DEFINE p == attempt[a].payment
           L == /\ payment' \in [Payments -> PaymentRow]
                /\ emitted' \in [Payments -> [EventKinds -> Nat]]
                /\ late' \in [Txns -> LateRow \cup {None}]
                /\ lateEmitted' \in [Txns -> Nat]
<1>2. \/ EndPayment(p, ClosingOutcome(p))
      \/ EndPayment(p, "failed")
      \/ payment' = [payment EXCEPT ![p].status = "created"] /\ UNCHANGED <<emitted, late, lateEmitted>>
      \/ UNCHANGED ledger
  BY DEF FailAttempt, SettlePaymentAfterFailure
<1>3. CASE EndPayment(p, ClosingOutcome(p))
  <2>1. ClosingOutcome(p) \in Final
    BY DEF ClosingOutcome, Final, FinalUnsuccessful
  <2> QED BY <1>3, <2>1, <1>1, EndPaymentType
<1>4. CASE EndPayment(p, "failed")
  <2>1. "failed" \in Final
    BY DEF Final, FinalUnsuccessful
  <2> QED BY <1>4, <2>1, <1>1, EndPaymentType
<1>5. CASE payment' = [payment EXCEPT ![p].status = "created"] /\ UNCHANGED <<emitted, late, lateEmitted>>
  BY <1>5, <1>1 DEF Types, PaymentRow, PaymentStatus
<1>6. CASE UNCHANGED ledger
  BY <1>6, <1>1 DEF Types, ledger
<1> QED BY <1>2, <1>3, <1>4, <1>5, <1>6

-----------------------------------------------------------------------------
(* Type correctness *)

LEMMA ObsType ==
    ASSUME Types, NEW o \in Observers, Return(o)
    PROVE  obs' \in [Observers -> ObsState]
<1>1. Idle \in ObsState
  BY DEF ObsState
<1> QED BY <1>1 DEF Return, Types

\* every active observation is about an attempt and a channel of the model, and one
\* that records or books is about a capture
LEMMA ObsFields ==
    ASSUME Types, NEW o \in Observers, obs[o].pc \in {"record", "decide", "late"}
    PROVE  /\ obs[o] \in Observation({obs[o].pc}, Answers, Txns \cup {None})
           /\ obs[o].pc # "decide" => obs[o].answer \in SuccessAnswer
           /\ obs[o].pc = "record" => obs[o].fact = None
           /\ obs[o].pc = "late" => obs[o].fact \in Txns
<1>1. obs[o] \in ObsState
  BY DEF Types
<1>2. obs[o] # Idle
  BY DEF Idle
<1> QED BY <1>1, <1>2 DEF ObsState, Observation, Answers

LEMMA FailType ==
    ASSUME Types, NEW o \in Observers, obs[o].pc = "decide", NEW s \in AttemptStatus, NEW fatal,
           Fail(o, s, fatal), UNCHANGED <<due, call, evidence, recovery>>
    PROVE  Types'
<1>1. obs[o].attempt \in Attempts
  BY ObsFields DEF Observation
<1>2. obs' \in [Observers -> ObsState]
  BY ObsType DEF Fail
<1>3. /\ attempt' \in [Attempts -> AttemptRow]
      /\ payment' \in [Payments -> PaymentRow]
      /\ emitted' \in [Payments -> [EventKinds -> Nat]]
      /\ late' \in [Txns -> LateRow \cup {None}]
      /\ lateEmitted' \in [Txns -> Nat]
  BY <1>1, FailAttemptType DEF Fail
<1> QED BY <1>2, <1>3 DEF Types, Fail, evidence

LEMMA NoEffectType ==
    ASSUME Types, NEW o \in Observers, NoEffect(o), UNCHANGED <<due, call, evidence, recovery>>
    PROVE  Types'
<1>1. obs' \in [Observers -> ObsState]
  BY ObsType DEF NoEffect
<1> QED BY <1>1 DEF Types, NoEffect, ledger, evidence

LEMMA CloseType ==
    ASSUME Types, NEW p \in Payments, NEW r \in {"cancel", "expiry"},
           NEW s \in {"cancelled", "expired"}, Close(p, r, s)
    PROVE  Types'
<1>1. CASE IsPaymentUncertain(attempt, p)
  <2>1. payment' = [payment EXCEPT ![p].status = "closing", ![p].reason = r]
    BY <1>1 DEF Close
  <2>2. payment' \in [Payments -> PaymentRow]
    <3>1. payment[p] \in PaymentRow
      BY DEF Types
    <3>2. [payment[p] EXCEPT !.status = "closing", !.reason = r] \in PaymentRow
      BY <3>1 DEF PaymentRow, PaymentStatus
    <3>3. payment' = [payment EXCEPT ![p] = [payment[p] EXCEPT !.status = "closing", !.reason = r]]
      BY <2>1
    <3> QED BY <3>2, <3>3 DEF Types
  <2> QED BY <1>1, <2>2 DEF Close, Types, evidence
<1>2. CASE ~IsPaymentUncertain(attempt, p)
  <2>1. s \in Final
    BY DEF Final, FinalUnsuccessful
  <2>2. EndPayment(p, s)
    BY <1>2 DEF Close
  <2> QED BY <2>1, <2>2, EndPaymentType DEF Close, Types, evidence
<1> QED BY <1>1, <1>2

LEMMA RecordCaptureFactType ==
    ASSUME Types, NEW o \in Observers, RecordCaptureFact(o)
    PROVE  Types'
<1> DEFINE t == TxnOf(o)
           row == [attempt |-> obs[o].attempt, figure |-> obs[o].answer.figure, source |-> obs[o].source]
<1>1. obs[o].pc = "record"
  BY DEF RecordCaptureFact
<1>2. obs[o] \in Observation({"record"}, SuccessAnswer, {None})
  BY <1>1, ObsFields DEF Observation
<1>3. t \in Txns \cup {None} /\ row \in FactRow
  <2>1. attempt[obs[o].attempt].txn \in Txns \cup {None}
    BY <1>2 DEF Types, AttemptRow, Observation
  <2> QED BY <1>2, <2>1 DEF TxnOf, FactRow, Observation, SuccessAnswer
<1>4. SuccessAnswer \subseteq Answers
  BY DEF Answers
<1>5. CASE t = None \/ row.figure = "unusable"
  <2>1. obs' = [obs EXCEPT ![o].pc = "decide"] /\ UNCHANGED evidence
    BY <1>5 DEF RecordCaptureFact
  <2>2. [obs[o] EXCEPT !.pc = "decide"] \in Observation({"decide"}, Answers, Txns \cup {None})
    BY <1>2, <1>4 DEF Observation
  <2>3. obs' \in [Observers -> ObsState]
    BY <2>1, <2>2 DEF Types, ObsState
  <2> QED BY <2>1, <2>3 DEF RecordCaptureFact, Types, ledger, evidence
<1>6. CASE ~(t = None \/ row.figure = "unusable")
  <2>1. obs' = [obs EXCEPT ![o].pc = "decide", ![o].fact = t]
    BY <1>6 DEF RecordCaptureFact
  <2>2. [obs[o] EXCEPT !.pc = "decide", !.fact = t] \in Observation({"decide"}, Answers, Txns \cup {None})
    BY <1>2, <1>3, <1>4 DEF Observation
  <2>3. obs' \in [Observers -> ObsState]
    <3>1. obs' = [obs EXCEPT ![o] = [obs[o] EXCEPT !.pc = "decide", !.fact = t]]
      BY <2>1
    <3> QED BY <3>1, <2>2 DEF Types, ObsState
  <2>4. fact' \in [Txns -> FactRow \cup {None}] /\ contested' \subseteq Txns
    BY <1>3, <1>6 DEF RecordCaptureFact, Types
  <2> QED BY <2>3, <2>4 DEF RecordCaptureFact, Types, ledger
<1> QED BY <1>5, <1>6

LEMMA StartAttemptType ==
    ASSUME Types, NEW p \in Payments, NEW a \in Attempts, StartAttempt(p, a)
    PROVE  Types'
<1>1. Cardinality(AttemptsOf(p)) \in Nat
  <2>1. IsFiniteSet(AttemptsOf(p))
    BY ConstantsAssumption, FS_Subset DEF AttemptsOf
  <2> QED BY <2>1, FS_CardinalityType
<1>2. [status |-> "initiated", payment |-> p, txn |-> None,
       number |-> Cardinality(AttemptsOf(p)) + 1] \in AttemptRow
  BY <1>1 DEF AttemptRow, AttemptStatus, OpenAttempt
<1>3. attempt' \in [Attempts -> AttemptRow]
  BY <1>2 DEF StartAttempt, Types
<1>4. payment' \in [Payments -> PaymentRow]
  BY DEF StartAttempt, Types, PaymentRow, PaymentStatus
<1> QED BY <1>3, <1>4 DEF StartAttempt, Types, evidence

LEMMA SucceedWithType ==
    ASSUME Types, NEW o \in Observers, NEW a \in Attempts, NEW p, obs[o].fact \in Txns \cup {None},
           SucceedWith(o, a, p), UNCHANGED <<due, call, evidence, recovery>>
    PROVE  Types'
<1>1. obs' \in [Observers -> ObsState]
  BY ObsType DEF SucceedWith
<1>2. attempt' \in [Attempts -> AttemptRow]
  <2>1. "succeeded" \in AttemptStatus
    BY DEF AttemptStatus
  <2> QED BY <2>1, StatusWritten DEF SucceedWith
<1>3. settledBy' \in [Payments -> Txns \cup {None}]
  BY DEF SucceedWith, Types
<1>4. payment' \in [Payments -> PaymentRow] /\ emitted' \in [Payments -> [EventKinds -> Nat]]
  <2>1. CASE p \in Payments
    <3>1. payment[p] \in PaymentRow /\ emitted[p] \in [EventKinds -> Nat]
      BY <2>1 DEF Types
    <3>2. [payment[p] EXCEPT !.status = "succeeded", !.settled = a] \in PaymentRow
      BY <3>1 DEF PaymentRow, PaymentStatus, Final
    <3>3. payment' = [payment EXCEPT ![p] = [payment[p] EXCEPT !.status = "succeeded", !.settled = a]]
      BY DEF SucceedWith
    <3>4. [emitted[p] EXCEPT !["succeeded"] = @ + 1] \in [EventKinds -> Nat]
      BY <3>1 DEF EventKinds, Final
    <3>5. emitted' = [emitted EXCEPT ![p] = [emitted[p] EXCEPT !["succeeded"] = @ + 1]]
      BY DEF SucceedWith
    <3> QED BY <3>2, <3>3, <3>4, <3>5 DEF Types
  <2>2. CASE p \notin Payments
    BY <2>2 DEF SucceedWith, Types
  <2> QED BY <2>1, <2>2
<1> QED BY <1>1, <1>2, <1>3, <1>4 DEF SucceedWith, Types, evidence

LEMMA ApplySucceededType ==
    ASSUME Types, NEW o \in Observers, ApplySucceeded(o)
    PROVE  Types'
<1> DEFINE a == obs[o].attempt
<1>1. /\ obs[o] \in Observation({"decide"}, Answers, Txns \cup {None})
      /\ obs[o].answer \in SuccessAnswer
  <2>1. obs[o].pc = "decide" /\ obs[o].answer.kind = "succeeded"
    BY DEF ApplySucceeded, Deciding
  <2>2. obs[o] \in Observation({"decide"}, Answers, Txns \cup {None})
    BY <2>1, ObsFields DEF Observation
  <2> QED BY <2>1, <2>2 DEF Observation, Answers
<1>2. a \in Attempts
  BY <1>1 DEF Observation
<1>3. CASE Settles(o)
  <2>1. obs[o].fact \in Txns \cup {None}
    BY <1>1 DEF Observation
  <2> QED BY <1>2, <1>3, <2>1, SucceedWithType DEF ApplySucceeded
<1>4. CASE ~Settles(o) /\ IsLate(o)
  <2>1. obs' = [obs EXCEPT ![o].pc = "late"] /\ UNCHANGED <<ledger, attempt, settledBy>>
    BY <1>4 DEF ApplySucceeded
  <2>2. obs[o].fact \in Txns
    BY <1>1, <1>4 DEF IsLate, Verified, Observation
  <2>3. [obs[o] EXCEPT !.pc = "late"] \in Observation({"late"}, SuccessAnswer, Txns)
    BY <1>1, <2>2 DEF Observation
  <2>4. obs' \in [Observers -> ObsState]
    BY <2>1, <2>3 DEF Types, ObsState
  <2> QED BY <2>1, <2>4 DEF ApplySucceeded, Types, ledger, evidence
<1>5. CASE ~Settles(o) /\ ~IsLate(o)
  <2>1. NoEffect(o)
    BY <1>5 DEF ApplySucceeded
  <2> QED BY <2>1, NoEffectType DEF ApplySucceeded
<1> QED BY <1>3, <1>4, <1>5

LEMMA RecordLateSuccessType ==
    ASSUME Types, References, NEW o \in Observers, RecordLateSuccess(o)
    PROVE  Types'
<1> DEFINE t == obs[o].fact
           p == attempt[obs[o].attempt].payment
           row == [status |-> payment[p].status, source |-> obs[o].source]
<1>1. obs[o].pc = "late"
  BY DEF RecordLateSuccess
<1>2. t \in Txns /\ row \in LateRow
  <2>1. obs[o] # Idle
    BY <1>1 DEF Idle
  <2>2. p \in Payments
    BY <1>1, <2>1, ObsFields DEF Types, References, AttemptRow, Observation
  <2> QED BY <1>1, <2>2, ObsFields DEF Observation, LateRow, Types, PaymentRow
<1>3. obs' \in [Observers -> ObsState]
  BY ObsType DEF RecordLateSuccess
<1>4. \/ /\ late' = [late EXCEPT ![t] = row]
         /\ lateEmitted' = [lateEmitted EXCEPT ![t] = @ + 1]
      \/ UNCHANGED <<late, lateEmitted>>
  BY DEF RecordLateSuccess
<1>5. late' \in [Txns -> LateRow \cup {None}]
  BY <1>2, <1>4 DEF Types
<1>6. lateEmitted' \in [Txns -> Nat]
  BY <1>2, <1>4 DEF Types
<1> QED BY <1>3, <1>5, <1>6 DEF RecordLateSuccess, Types, evidence

\* the type of each action's effect, one step per action
LEMMA TypesNext ==
    ASSUME TypeOK, [Next]_vars
    PROVE  Types'
<1> USE DEF TypeOK
<1>1. ASSUME NEW p \in Payments, CreatePayment(p)
      PROVE  Types'
  <2>1. payment' \in [Payments -> PaymentRow]
    BY <1>1 DEF CreatePayment, Types, PaymentRow, PaymentStatus
  <2>2. emitted' \in [Payments -> [EventKinds -> Nat]]
    <3>1. emitted[p] \in [EventKinds -> Nat]
      BY DEF Types
    <3>2. [emitted[p] EXCEPT !["created"] = @ + 1] \in [EventKinds -> Nat]
      BY <3>1 DEF EventKinds
    <3>3. emitted' = [emitted EXCEPT ![p] = [emitted[p] EXCEPT !["created"] = @ + 1]]
      BY <1>1 DEF CreatePayment
    <3> QED BY <3>2, <3>3 DEF Types
  <2> QED BY <1>1, <2>1, <2>2 DEF CreatePayment, Types, evidence
<1>2. ASSUME NEW p \in Payments, Cancel(p)
      PROVE  Types'
  BY <1>2, CloseType DEF Cancel
<1>3. ASSUME NEW p \in Payments, PassExpiry(p)
      PROVE  Types'
  BY <1>3 DEF PassExpiry, Types, ledger, evidence
<1>4. ASSUME NEW p \in Payments, SweepOne(p)
      PROVE  Types'
  BY <1>4, CloseType DEF SweepOne
<1>5. ASSUME NEW p \in Payments, NEW a \in Attempts, StartAttempt(p, a)
      PROVE  Types'
  BY <1>5, StartAttemptType
<1>6. ASSUME NEW a \in Attempts, CallStep(a) \/ LoseCall(a)
      PROVE  Types'
  <2>1. ASSUME NEW t \in Txns, CallAccepted(a, t)
        PROVE  Types'
    <3>1. call' \in [Attempts -> {"none", "calling", "rejected", "ended"}]
      BY <2>1 DEF CallAccepted, Types
    <3>2. attempt' \in [Attempts -> AttemptRow]
      <4>1. attempt[a] \in AttemptRow /\ "submitted" \in AttemptStatus
        BY DEF Types, AttemptStatus, OpenAttempt
      <4>2. [attempt[a] EXCEPT !.status = "submitted", !.txn = t] \in AttemptRow
        BY <4>1 DEF AttemptRow
      <4>3. \/ attempt' = [attempt EXCEPT ![a] = [attempt[a] EXCEPT !.status = "submitted", !.txn = t]]
            \/ attempt' = attempt
        BY <2>1 DEF CallAccepted
      <4> QED BY <4>2, <4>3 DEF Types
    <3> QED BY <2>1, <3>1, <3>2 DEF CallAccepted, Types, ledger, evidence
  <2>2. ASSUME CallAmbiguous(a)
        PROVE  Types'
    <3>1. call' \in [Attempts -> {"none", "calling", "rejected", "ended"}]
      BY <2>2 DEF CallAmbiguous, Types
    <3>2. attempt' \in [Attempts -> AttemptRow]
      <4>1. "unknown" \in AttemptStatus
        BY DEF AttemptStatus, OpenAttempt
      <4>2. \/ attempt' = [attempt EXCEPT ![a].status = "unknown"]
            \/ attempt' = attempt
        BY <2>2 DEF CallAmbiguous
      <4> QED BY <4>1, <4>2, StatusWritten DEF Types
    <3> QED BY <2>2, <3>1, <3>2 DEF CallAmbiguous, Types, ledger, evidence
  <2>3. ASSUME NEW fatal \in BOOLEAN, CallRejected(a, fatal)
        PROVE  Types'
    <3>1. call' \in [Attempts -> {"none", "calling", "rejected", "ended"}]
      BY <2>3 DEF CallRejected, Types
    <3>2. "failed" \in AttemptStatus
      BY DEF AttemptStatus
    <3>3. CASE Unanswered(a)
      <4>1. FailAttempt(a, "failed", fatal)
        BY <2>3, <3>3 DEF CallRejected
      <4> QED BY <2>3, <3>1, <3>2, <4>1, FailAttemptType DEF CallRejected, Types, evidence
    <3>4. CASE ~Unanswered(a)
      BY <2>3, <3>1, <3>4 DEF CallRejected, Types, ledger, evidence
    <3> QED BY <3>3, <3>4
  <2>4. ASSUME LoseCall(a)
        PROVE  Types'
    BY <2>4 DEF LoseCall, Types, ledger, evidence
  <2> QED BY <1>6, <2>1, <2>2, <2>3, <2>4 DEF CallStep
<1>7. ASSUME NEW o \in Observers, NEW a \in Attempts, NEW answer \in Answers, NEW source \in Channels,
             Observe(o, a, answer, source)
      PROVE  Types'
  <2> DEFINE run == [pc |-> IF answer.kind = "succeeded" THEN "record" ELSE "decide",
                     attempt |-> a, answer |-> answer, source |-> source, fact |-> None]
  <2>1. answer.kind = "succeeded" => answer \in SuccessAnswer
    BY DEF Answers
  <2>2. run \in ObsState
    BY <2>1 DEF ObsState, Observation
  <2>3. obs' \in [Observers -> ObsState]
    BY <1>7, <2>2 DEF Observe, Types
  <2> QED BY <1>7, <2>3 DEF Observe, Types, ledger, evidence
<1>8. ASSUME NEW o \in Observers, Apply(o) \/ Crash(o)
      PROVE  Types'
  <2> USE <1>8
  <2>1. CASE RecordCaptureFact(o)
    BY <2>1, RecordCaptureFactType
  <2>2. CASE ApplyPending(o)
    BY <2>2, NoEffectType DEF ApplyPending
  <2>3. CASE ApplyNotFound(o)
    <3>1. "failed_inferred" \in AttemptStatus
      BY DEF AttemptStatus
    <3> QED BY <2>3, <3>1, FailType, NoEffectType DEF ApplyNotFound, Deciding
  <2>4. CASE ApplyExpired(o)
    <3>1. "failed_confirmed" \in AttemptStatus /\ "expired" \in AttemptStatus
      BY DEF AttemptStatus
    <3> QED BY <2>4, <3>1, FailType, NoEffectType DEF ApplyExpired, Deciding
  <2>5. CASE ApplyFailed(o)
    <3>1. "failed_confirmed" \in AttemptStatus /\ "failed" \in AttemptStatus
      BY DEF AttemptStatus
    <3> QED BY <2>5, <3>1, FailType, NoEffectType DEF ApplyFailed, Deciding
  <2>6. CASE ApplySucceeded(o)
    BY <2>6, ApplySucceededType
  <2>7. CASE RecordLateSuccess(o)
    BY <2>7, RecordLateSuccessType
  <2>8. CASE Crash(o)
    <3>1. obs' \in [Observers -> ObsState]
      BY <2>8, ObsType DEF Crash
    <3> QED BY <2>8, <3>1 DEF Crash, Types, ledger, evidence
  <2> QED BY <2>1, <2>2, <2>3, <2>4, <2>5, <2>6, <2>7, <2>8 DEF Apply
<1>9. ASSUME NEW t \in Txns, NEW figure \in Figures, RecordUnmatchedFact(t, figure)
      PROVE  Types'
  <2>1. [attempt |-> None, figure |-> figure, source |-> "webhook"] \in FactRow
    BY DEF FactRow, Channels
  <2>2. fact' \in [Txns -> FactRow \cup {None}]
    BY <1>9, <2>1 DEF RecordUnmatchedFact, Types
  <2> QED BY <1>9, <2>2 DEF RecordUnmatchedFact, Types, ledger
<1>10. ASSUME NEW t \in Txns, ReconcileFact(t)
       PROVE  Types'
  <2> DEFINE p == PaymentOf(t)
  <2>1. /\ fact[t] # None /\ payment[p].status \in Final
        /\ recovery[t] \in 0..MaxRecovery /\ recovery[t] < MaxRecovery
    BY <1>10 DEF ReconcileFact, Reconcilable, Eligible, CaptureOf, Final, Types
  <2>2. CASE Recordable(t, p)
    <3>1. RecordLateSuccesses({t}, payment[p].status)
      BY <1>10, <2>2 DEF ReconcileFact
    <3>2. {t} \in SUBSET {u \in Txns : fact[u] # None}
      BY <2>1
    <3>3. late' \in [Txns -> LateRow \cup {None}] /\ lateEmitted' \in [Txns -> Nat]
      BY <2>1, <3>1, <3>2, RecordLateSuccessesType
    <3> QED BY <1>10, <2>2, <3>3 DEF ReconcileFact, Types, evidence
  <2>3. CASE ~Recordable(t, p)
    <3>1. recovery' \in [Txns -> 0..MaxRecovery]
      BY <1>10, <2>1, <2>3, ConstantsAssumption DEF ReconcileFact, Types
    <3> QED BY <1>10, <2>3, <3>1 DEF ReconcileFact, Types, evidence
  <2> QED BY <2>2, <2>3
<1>11. ASSUME NEW t \in Txns, FailToReconcile(t)
       PROVE  Types'
  <2>1. recovery[t] \in 0..MaxRecovery /\ recovery[t] < MaxRecovery
    BY <1>11 DEF FailToReconcile, Reconcilable, Types
  <2>2. recovery' \in [Txns -> 0..MaxRecovery]
    BY <1>11, <2>1, ConstantsAssumption DEF FailToReconcile, Types
  <2> QED BY <1>11, <2>2 DEF FailToReconcile, Types, ledger, evidence
<1>12. CASE UNCHANGED vars
  BY <1>12 DEF vars, Types
<1> QED BY <1>1, <1>2, <1>3, <1>4, <1>5, <1>6, <1>7, <1>8, <1>9, <1>10, <1>11, <1>12
        DEF Next, ProducerStep, ClockStep, SweepStep, PayerStep, ObserverStep, EvidenceStep

\* rows keep naming born rows when attempts keep their payment and nothing new is named
LEMMA ReferencesKept ==
    ASSUME TypeOK,
           \A a \in Attempts : /\ attempt[a].payment # None => attempt'[a].payment # None
                               /\ (attempt'[a].status = "none") <=> (attempt'[a].payment = None),
           \A t \in Txns : \/ fact'[t] = fact[t]
                           \/ fact'[t].attempt = None
                           \/ /\ fact'[t].attempt \in Attempts
                              /\ attempt[fact'[t].attempt].payment # None,
           \A o \in Observers : \/ obs'[o] = Idle
                                \/ obs[o] # Idle /\ obs'[o].attempt = obs[o].attempt
                                \/ /\ obs'[o].attempt \in Attempts
                                   /\ attempt[obs'[o].attempt].payment # None
    PROVE  References'
<1>1. \A o \in Observers : obs[o] # Idle => obs[o].attempt \in Attempts
  BY DEF TypeOK, Types, ObsState, Observation
<1>2. \A t \in Txns : fact[t] # None => fact[t].attempt \in Attempts \cup {None}
  BY DEF TypeOK, Types, FactRow
<1> QED BY <1>1, <1>2 DEF TypeOK, References

\* an attempt that fails or moves on keeps its payment
LEMMA StatusOnly ==
    ASSUME TypeOK, NEW a \in Attempts, attempt[a].status # "none",
           NEW s \in AttemptStatus \ {"none"},
           \/ attempt' = [attempt EXCEPT ![a].status = s]
           \/ attempt' = attempt
    PROVE  \A b \in Attempts : /\ attempt[b].payment # None => attempt'[b].payment # None
                               /\ (attempt'[b].status = "none") <=> (attempt'[b].payment = None)
<1>1. CASE attempt' = [attempt EXCEPT ![a].status = s]
  <2>1. s \in AttemptStatus /\ s # "none"
    OBVIOUS
  <2>2. attempt[a].payment # None
    BY DEF TypeOK, References
  <2> QED BY <1>1, <2>1, <2>2, StatusWritten DEF TypeOK, References
<1>2. CASE attempt' = attempt
  BY <1>2 DEF TypeOK, References
<1> QED BY <1>1, <1>2

LEMMA ReferencesUnchanged ==
    ASSUME TypeOK, UNCHANGED <<attempt, fact, obs>>
    PROVE  References'
BY DEF TypeOK, References

\* a run of applyStatus that only ends, or fails its attempt, keeps the references
LEMMA FailReferences ==
    ASSUME TypeOK, NEW o \in Observers, obs[o].pc = "decide", attempt[obs[o].attempt].status # "none",
           NEW s \in AttemptStatus \ {"none"}, NEW fatal, Fail(o, s, fatal), UNCHANGED fact
    PROVE  References'
<1>1. obs[o].attempt \in Attempts
  BY ObsFields DEF TypeOK, Observation
<1>2. attempt' = [attempt EXCEPT ![obs[o].attempt].status = s]
  BY DEF Fail, FailAttempt
<1>3. obs' = [obs EXCEPT ![o] = Idle]
  BY DEF Fail, Return
<1> QED BY <1>1, <1>2, <1>3, StatusOnly, ReferencesKept DEF TypeOK, Types

LEMMA NoEffectReferences ==
    ASSUME TypeOK, NEW o \in Observers, Return(o), UNCHANGED <<attempt, fact>>
    PROVE  References'
BY ReferencesKept DEF Return, TypeOK, Types, References

LEMMA ReferencesNext ==
    ASSUME TypeOK, [Next]_vars
    PROVE  References'
<1>1. CASE ProducerStep \/ ClockStep \/ SweepStep
  BY <1>1, ReferencesUnchanged DEF ProducerStep, ClockStep, SweepStep, CreatePayment, Cancel, SweepOne,
     Close, PassExpiry, evidence
<1>2. ASSUME NEW p \in Payments, NEW a \in Attempts, StartAttempt(p, a)
      PROVE  References'
  <2>1. attempt'[a].payment = p /\ attempt'[a].status = "initiated" /\ p # None
    BY <1>2, ConstantsAssumption DEF StartAttempt, TypeOK, Types
  <2>2. \A b \in Attempts \ {a} : attempt'[b] = attempt[b]
    BY <1>2 DEF StartAttempt, TypeOK, Types
  <2>3. UNCHANGED <<fact, obs>>
    BY <1>2 DEF StartAttempt, evidence
  <2> QED BY <2>1, <2>2, <2>3, ReferencesKept DEF TypeOK, References
<1>3. ASSUME NEW a \in Attempts, CallStep(a) \/ LoseCall(a)
      PROVE  References'
  <2>1. UNCHANGED <<fact, obs>>
    BY <1>3 DEF CallStep, CallAccepted, CallAmbiguous, CallRejected, LoseCall, evidence
  <2>2. ASSUME NEW t \in Txns, CallAccepted(a, t)
        PROVE  References'
    <3>1. \/ /\ attempt[a].status \in {"initiated", "unknown"}
             /\ attempt' = [attempt EXCEPT ![a].status = "submitted", ![a].txn = t]
          \/ attempt' = attempt
      BY <2>2 DEF CallAccepted, Unanswered
    <3>2. CASE /\ attempt[a].status \in {"initiated", "unknown"}
               /\ attempt' = [attempt EXCEPT ![a].status = "submitted", ![a].txn = t]
      <4>1. attempt[a] \in AttemptRow /\ attempt \in [Attempts -> AttemptRow]
        BY DEF TypeOK, Types
      <4>2. attempt' = [attempt EXCEPT ![a] = [attempt[a] EXCEPT !.status = "submitted", !.txn = t]]
        BY <3>2
      <4>3. /\ [attempt[a] EXCEPT !.status = "submitted", !.txn = t].payment = attempt[a].payment
            /\ [attempt[a] EXCEPT !.status = "submitted", !.txn = t].status = "submitted"
        BY <4>1 DEF AttemptRow
      <4>4. attempt'[a].payment = attempt[a].payment /\ attempt'[a].status = "submitted"
        BY <4>1, <4>2, <4>3
      <4>5. \A b \in Attempts \ {a} : attempt'[b] = attempt[b]
        BY <4>1, <4>2
      <4> QED BY <2>1, <3>2, <4>4, <4>5, ReferencesKept DEF TypeOK, References
    <3>3. CASE attempt' = attempt
      BY <2>1, <3>3, ReferencesUnchanged
    <3> QED BY <3>1, <3>2, <3>3
  <2>3. ASSUME CallAmbiguous(a) \/ (\E fatal \in BOOLEAN : CallRejected(a, fatal)) \/ LoseCall(a)
        PROVE  References'
    <3>1. \/ /\ attempt[a].status \in {"initiated", "unknown"}
             /\ \E s \in {"unknown", "failed"} : attempt' = [attempt EXCEPT ![a].status = s]
          \/ attempt' = attempt
      BY <2>3 DEF CallAmbiguous, CallRejected, LoseCall, Unanswered, FailAttempt
    <3>2. {"unknown", "failed"} \subseteq AttemptStatus \ {"none"}
      BY DEF AttemptStatus, OpenAttempt
    <3>3. \A b \in Attempts : /\ attempt[b].payment # None => attempt'[b].payment # None
                              /\ (attempt'[b].status = "none") <=> (attempt'[b].payment = None)
      BY <3>1, <3>2, StatusOnly DEF TypeOK, References
    <3> QED BY <2>1, <3>3, ReferencesKept DEF TypeOK, References
  <2> QED BY <1>3, <2>2, <2>3 DEF CallStep
<1>4. ASSUME NEW o \in Observers, NEW a \in Attempts, NEW answer \in Answers, NEW source \in Channels,
             Observe(o, a, answer, source)
      PROVE  References'
  <2>1. attempt[a].payment # None
    BY <1>4 DEF Observe, TypeOK, References
  <2>2. obs'[o].attempt = a /\ \A r \in Observers \ {o} : obs'[r] = obs[r]
    BY <1>4 DEF Observe, TypeOK, Types
  <2>3. UNCHANGED <<attempt, fact>>
    BY <1>4 DEF Observe, evidence
  <2> QED BY <2>1, <2>2, <2>3, ReferencesKept DEF TypeOK, References
<1>5. ASSUME NEW o \in Observers, Apply(o) \/ Crash(o)
      PROVE  References'
  <2> USE <1>5
  <2>1. CASE RecordCaptureFact(o)
    <3>1. obs[o] # Idle /\ obs[o].attempt \in Attempts
      BY <2>1, ObsFields DEF RecordCaptureFact, Idle, TypeOK, Observation
    <3>2. attempt[obs[o].attempt].payment # None
      BY <3>1 DEF TypeOK, References
    <3>3. obs'[o].attempt = obs[o].attempt /\ \A r \in Observers \ {o} : obs'[r] = obs[r]
      <4>1. \/ obs' = [obs EXCEPT ![o].pc = "decide"]
            \/ obs' = [obs EXCEPT ![o].pc = "decide", ![o].fact = TxnOf(o)]
        BY <2>1 DEF RecordCaptureFact
      <4>2. obs[o] \in Observation({obs[o].pc}, Answers, Txns \cup {None})
        BY <2>1, ObsFields DEF RecordCaptureFact, TypeOK
      <4> QED BY <4>1, <4>2 DEF TypeOK, Types, Observation
    <3>4. \A t \in Txns : fact'[t] = fact[t] \/ fact'[t].attempt = obs[o].attempt
      BY <2>1 DEF RecordCaptureFact, TypeOK, Types, evidence
    <3>5. UNCHANGED attempt
      BY <2>1 DEF RecordCaptureFact
    <3> QED BY <3>1, <3>2, <3>3, <3>4, <3>5, ReferencesKept DEF TypeOK, References
  <2>2. CASE ApplyPending(o)
    BY <2>2, NoEffectReferences DEF ApplyPending, NoEffect, evidence
  <2>3. CASE ApplyNotFound(o)
    <3>1. "failed_inferred" \in AttemptStatus \ {"none"}
      BY DEF AttemptStatus
    <3> QED BY <2>3, <3>1, FailReferences, NoEffectReferences
            DEF ApplyNotFound, Deciding, Unanswered, NoEffect, evidence
  <2>4. CASE ApplyExpired(o)
    <3>1. "failed_confirmed" \in AttemptStatus \ {"none"} /\ "expired" \in AttemptStatus \ {"none"}
      BY DEF AttemptStatus
    <3> QED BY <2>4, <3>1, FailReferences, NoEffectReferences DEF ApplyExpired, Deciding, NoEffect, evidence
  <2>5. CASE ApplyFailed(o)
    <3>1. "failed_confirmed" \in AttemptStatus \ {"none"} /\ "failed" \in AttemptStatus \ {"none"}
      BY DEF AttemptStatus
    <3> QED BY <2>5, <3>1, FailReferences, NoEffectReferences
            DEF ApplyFailed, Deciding, OpenAttempt, NoEffect, evidence
  <2>6. CASE ApplySucceeded(o)
    <3>1. obs[o] \in Observation({"decide"}, Answers, Txns \cup {None})
      BY <2>6, ObsFields DEF ApplySucceeded, Deciding, TypeOK, Observation
    <3>2. CASE Settles(o)
      <4>1. /\ attempt[obs[o].attempt].status # "none"
            /\ obs[o].attempt \in Attempts
        BY <3>1, <3>2 DEF Settles, Undecided, OpenAttempt, Observation
      <4>2. "succeeded" \in AttemptStatus \ {"none"}
        BY DEF AttemptStatus
      <4>3. /\ attempt' = [attempt EXCEPT ![obs[o].attempt].status = "succeeded"]
            /\ obs' = [obs EXCEPT ![o] = Idle]
            /\ UNCHANGED fact
        BY <2>6, <3>2 DEF ApplySucceeded, SucceedWith, Return, evidence
      <4> QED BY <4>1, <4>2, <4>3, StatusOnly, ReferencesKept DEF TypeOK, Types
    <3>3. CASE ~Settles(o) /\ IsLate(o)
      <4>1. obs' = [obs EXCEPT ![o].pc = "late"] /\ UNCHANGED <<attempt, fact>>
        BY <2>6, <3>3 DEF ApplySucceeded, evidence
      <4>2. obs'[o].attempt = obs[o].attempt /\ \A r \in Observers \ {o} : obs'[r] = obs[r]
        BY <3>1, <4>1 DEF TypeOK, Types, Observation
      <4>3. obs[o] # Idle
        BY <2>6 DEF ApplySucceeded, Deciding, Idle
      <4> QED BY <4>1, <4>2, <4>3, ReferencesKept DEF TypeOK, References
    <3>4. CASE ~Settles(o) /\ ~IsLate(o)
      BY <2>6, <3>4, NoEffectReferences DEF ApplySucceeded, NoEffect, evidence
    <3> QED BY <3>2, <3>3, <3>4
  <2>7. CASE RecordLateSuccess(o)
    BY <2>7, NoEffectReferences DEF RecordLateSuccess, evidence
  <2>8. CASE Crash(o)
    BY <2>8, NoEffectReferences DEF Crash, evidence
  <2> QED BY <2>1, <2>2, <2>3, <2>4, <2>5, <2>6, <2>7, <2>8 DEF Apply
<1>6. ASSUME NEW t \in Txns, NEW figure \in Figures, RecordUnmatchedFact(t, figure)
      PROVE  References'
  <2>1. \A u \in Txns : fact'[u] = fact[u] \/ fact'[u].attempt = None
    BY <1>6 DEF RecordUnmatchedFact, TypeOK, Types
  <2>2. UNCHANGED <<attempt, obs>>
    BY <1>6 DEF RecordUnmatchedFact
  <2> QED BY <2>1, <2>2, ReferencesKept DEF TypeOK, References
<1>7. ASSUME NEW t \in Txns, ReconcileFact(t) \/ FailToReconcile(t)
      PROVE  References'
  BY <1>7, ReferencesUnchanged DEF ReconcileFact, FailToReconcile, evidence
<1>8. CASE UNCHANGED vars
  BY <1>8, ReferencesUnchanged DEF vars
<1> QED BY <1>1, <1>2, <1>3, <1>4, <1>5, <1>6, <1>7, <1>8
        DEF Next, PayerStep, ObserverStep, EvidenceStep

\* Every row keeps its shape, and what names a row names one that exists, whatever the
\* requests, notifications, workers and crashes (the columns and foreign keys of
\* 0002, 0003, 0013 and 0026).
THEOREM TypeCorrect == Spec => []TypeOK
<1>1. Init => TypeOK
  BY ConstantsAssumption DEF Init, TypeOK, Types, References, PaymentRow, PaymentStatus, AttemptRow,
     AttemptStatus, EventKinds, ObsState, Idle
<1>2. TypeOK /\ [Next]_vars => TypeOK'
  BY TypesNext, ReferencesNext DEF TypeOK
<1> QED BY <1>1, <1>2, PTL DEF Spec

-----------------------------------------------------------------------------
(* One collection, settled once *)

\* inductive: an attempt can only succeed or fail while its payment is open, which is
\* what OneCollection says of it
IInv == TypeOK /\ OneCollection /\ SettledOnce

LEMMA InUncertain ==
    \A p, a : a \in UncertainAttempts(p) <=> /\ a \in Attempts /\ attempt[a].payment = p
                                             /\ Uncertain(attempt[a])
BY DEF UncertainAttempts, AttemptsOf

LEMMA Stays ==
    ASSUME IInv, UNCHANGED <<payment, attempt>>
    PROVE  OneCollection' /\ SettledOnce'
BY DEF IInv, OneCollection, OneCollectionOf, SettledOnce, UncertainAttempts, AttemptsOf

\* attempts move, but stay as uncertain and as open as they were
LEMMA AttemptMoves ==
    ASSUME IInv, NEW a \in Attempts, attempt[a].status \in OpenAttempt, UNCHANGED payment,
           attempt'[a].status \in OpenAttempt, attempt'[a].payment = attempt[a].payment,
           \A b \in Attempts \ {a} : attempt'[b] = attempt[b]
    PROVE  OneCollection' /\ SettledOnce'
<1>1. \A p \in Payments : UncertainAttempts(p)' = UncertainAttempts(p) /\ AttemptsOf(p)' = AttemptsOf(p)
  BY DEF UncertainAttempts, AttemptsOf, Uncertain
<1>2. "succeeded" \notin OpenAttempt /\ "failed_inferred" \notin OpenAttempt
  BY DEF OpenAttempt
<1>3. OneCollection'
  <2> SUFFICES ASSUME NEW p \in Payments
               PROVE  OneCollectionOf(p)'
    BY DEF OneCollection
  <2>1. OneCollectionOf(p) /\ payment'[p] = payment[p] /\ UncertainAttempts(p)' = UncertainAttempts(p)
    BY <1>1 DEF IInv, OneCollection
  <2>2. \A b \in UncertainAttempts(p) :
            \/ attempt'[b] = attempt[b]
            \/ attempt[b].status \in OpenAttempt /\ attempt'[b].status \in OpenAttempt
    <3> TAKE b \in UncertainAttempts(p)
    <3>1. b \in Attempts
      BY DEF UncertainAttempts, AttemptsOf
    <3>2. CASE b = a
      BY <3>2
    <3>3. CASE b # a
      BY <3>1, <3>3
    <3> QED BY <3>2, <3>3
  <2> QED BY <1>2, <2>1, <2>2 DEF OneCollectionOf
<1>4. SettledOnce'
  BY <1>1, <1>2, InUncertain DEF IInv, SettledOnce, OneCollection, OneCollectionOf, Final, Uncertain, AttemptsOf
<1> QED BY <1>3, <1>4

\* the payment of a failing attempt: open, with that one uncertain attempt
LEMMA FailingPayment ==
    ASSUME IInv, NEW a \in Attempts, Uncertain(attempt[a])
    PROVE  /\ attempt[a].payment \in Payments
           /\ UncertainAttempts(attempt[a].payment) = {a}
           /\ payment[attempt[a].payment].status \in {"created", "pending", "closing"}
<1>1. attempt[a].status # "none"
  BY DEF Uncertain, OpenAttempt
<1>2. attempt[a].payment \in Payments
  BY <1>1 DEF IInv, TypeOK, Types, References, AttemptRow
<1>3. a \in UncertainAttempts(attempt[a].payment)
  BY InUncertain
<1> QED BY <1>2, <1>3 DEF IInv, OneCollection, OneCollectionOf, TypeOK, Types, PaymentRow, PaymentStatus

LEMMA FailAttemptKeeps ==
    ASSUME IInv, NEW a \in Attempts, Uncertain(attempt[a]), NEW p, attempt[a].payment = p,
           NEW s \in {"failed", "failed_inferred", "failed_confirmed", "expired"}, NEW fatal,
           FailAttempt(a, s, fatal)
    PROVE  OneCollection' /\ SettledOnce'
<1> DEFINE was == payment[p].status
           now == payment'[p].status
<1>1. /\ p \in Payments /\ UncertainAttempts(p) = {a} /\ was \in {"created", "pending", "closing"}
      /\ payment \in [Payments -> PaymentRow]
  BY FailingPayment DEF IInv, TypeOK, Types
<1>2. /\ attempt'[a].status = s /\ attempt'[a].payment = p
      /\ \A b \in Attempts \ {a} : attempt'[b] = attempt[b]
      /\ attempt' = [attempt EXCEPT ![a].status = s]
  <2>1. s \in AttemptStatus
    BY DEF AttemptStatus
  <2> QED BY <2>1, StatusWritten DEF FailAttempt, IInv, TypeOK
<1>3. \A q \in Payments : AttemptsOf(q)' = AttemptsOf(q)
  BY <1>2 DEF AttemptsOf
<1>4. \A q \in Payments \ {p} : UncertainAttempts(q)' = UncertainAttempts(q)
  BY <1>2 DEF UncertainAttempts, AttemptsOf
<1>5. UncertainAttempts(p)' = IF s = "failed_inferred" THEN {a} ELSE {}
  BY <1>1, <1>2 DEF UncertainAttempts, AttemptsOf, Uncertain, OpenAttempt
<1>6. IsPaymentUncertain(attempt', p) <=> s = "failed_inferred"
  BY <1>2, <1>5 DEF UncertainAttempts, AttemptsOf, IsPaymentUncertain
<1>7. \/ /\ s # "failed_inferred"
         /\ \/ was = "closing" /\ payment' = [payment EXCEPT ![p].status = ClosingOutcome(p)]
            \/ was \in {"pending", "created"} /\ payment' = [payment EXCEPT ![p].status = "failed"]
      \/ was = "pending" /\ payment' = [payment EXCEPT ![p].status = "created"]
      \/ payment' = payment /\ (was = "closing" => s = "failed_inferred") /\ was # "pending"
  BY <1>2, <1>6 DEF FailAttempt, SettlePaymentAfterFailure, EndPayment, ledger
<1>8. /\ \A q \in Payments \ {p} : payment'[q] = payment[q]
      /\ payment'[p].settled = payment[p].settled
      /\ \/ s # "failed_inferred" /\ now \in FinalUnsuccessful
         \/ now = "created"
         \/ now = "closing" /\ s = "failed_inferred"
  <2>1. payment[p] \in PaymentRow
    BY <1>1
  <2>2. \A st : LET r == [payment[p] EXCEPT !.status = st]
                IN  r.status = st /\ r.settled = payment[p].settled
    BY <2>1 DEF PaymentRow
  <2>3. ASSUME NEW st, payment' = [payment EXCEPT ![p].status = st]
        PROVE  /\ \A q \in Payments \ {p} : payment'[q] = payment[q]
               /\ payment'[p].settled = payment[p].settled
               /\ now = st
    BY <1>1, <2>2, <2>3
  <2>4. ClosingOutcome(p) \in FinalUnsuccessful /\ "failed" \in FinalUnsuccessful
    BY DEF ClosingOutcome, FinalUnsuccessful
  <2>5. CASE /\ s # "failed_inferred"
             /\ \/ payment' = [payment EXCEPT ![p].status = ClosingOutcome(p)]
                \/ payment' = [payment EXCEPT ![p].status = "failed"]
    BY <2>3, <2>4, <2>5
  <2>6. CASE payment' = [payment EXCEPT ![p].status = "created"]
    BY <2>3, <2>6
  <2>7. CASE payment' = payment /\ (was = "closing" => s = "failed_inferred") /\ was # "pending"
    BY <1>1, <2>7 DEF PaymentStatus
  <2> QED BY <1>7, <2>5, <2>6, <2>7
<1>9. OneCollection'
  <2>1. ASSUME NEW q \in Payments, q # p
        PROVE  OneCollectionOf(q)'
    <3>1. OneCollectionOf(q) /\ payment'[q] = payment[q] /\ UncertainAttempts(q)' = UncertainAttempts(q)
      BY <1>4, <1>8, <2>1 DEF IInv, OneCollection
    <3>2. \A b \in UncertainAttempts(q) : attempt'[b] = attempt[b]
      BY <1>2, <2>1 DEF UncertainAttempts, AttemptsOf
    <3> QED BY <3>1, <3>2 DEF OneCollectionOf
  <2>2. OneCollectionOf(p)'
    BY <1>2, <1>5, <1>8 DEF OneCollectionOf, Final, FinalUnsuccessful
  <2> QED BY <2>1, <2>2 DEF OneCollection
<1>10. SettledOnce'
  <2>1. payment[p].settled = None /\ attempt[a].status # "succeeded"
    BY <1>1 DEF IInv, SettledOnce, Final, Uncertain, OpenAttempt, PaymentStatus
  <2> QED BY <1>1, <1>2, <1>3, <1>8, <2>1, ConstantsAssumption
          DEF IInv, SettledOnce, FinalUnsuccessful, AttemptsOf
<1> QED BY <1>9, <1>10

LEMMA SucceedKeeps ==
    ASSUME IInv, NEW o \in Observers, NEW a \in Attempts, NEW p, attempt[a].payment = p,
           Uncertain(attempt[a]), SucceedWith(o, a, p)
    PROVE  OneCollection' /\ SettledOnce'
<1>1. /\ p \in Payments /\ UncertainAttempts(p) = {a} /\ payment[p].status \in {"created", "pending", "closing"}
      /\ payment \in [Payments -> PaymentRow] /\ a # None
  BY FailingPayment, ConstantsAssumption DEF IInv, TypeOK, Types
<1>2. /\ attempt'[a].status = "succeeded" /\ attempt'[a].payment = p
      /\ \A b \in Attempts \ {a} : attempt'[b] = attempt[b]
  <2>1. "succeeded" \in AttemptStatus
    BY DEF AttemptStatus
  <2> QED BY <2>1, StatusWritten DEF SucceedWith, IInv, TypeOK
<1>3. \A q \in Payments : AttemptsOf(q)' = AttemptsOf(q)
  BY <1>2 DEF AttemptsOf
<1>4. \A q \in Payments \ {p} : UncertainAttempts(q)' = UncertainAttempts(q)
  BY <1>2 DEF UncertainAttempts, AttemptsOf
<1>5. UncertainAttempts(p)' = {}
  BY <1>1, <1>2 DEF UncertainAttempts, AttemptsOf, Uncertain, OpenAttempt
<1>6. /\ \A q \in Payments \ {p} : payment'[q] = payment[q]
      /\ payment'[p].status = "succeeded" /\ payment'[p].settled = a
  <2>1. payment[p] \in PaymentRow
    BY <1>1
  <2>2. LET r == [payment[p] EXCEPT !.status = "succeeded", !.settled = a]
        IN  r.status = "succeeded" /\ r.settled = a
    BY <2>1 DEF PaymentRow
  <2>3. payment' = [payment EXCEPT ![p] = [payment[p] EXCEPT !.status = "succeeded", !.settled = a]]
    BY DEF SucceedWith
  <2> QED BY <1>1, <2>2, <2>3
<1>7. OneCollection'
  <2>1. ASSUME NEW q \in Payments, q # p
        PROVE  OneCollectionOf(q)'
    <3>1. OneCollectionOf(q) /\ payment'[q] = payment[q] /\ UncertainAttempts(q)' = UncertainAttempts(q)
      BY <1>4, <1>6, <2>1 DEF IInv, OneCollection
    <3>2. \A b \in UncertainAttempts(q) : attempt'[b] = attempt[b]
      BY <1>2, <2>1 DEF UncertainAttempts, AttemptsOf
    <3> QED BY <3>1, <3>2 DEF OneCollectionOf
  <2>2. OneCollectionOf(p)'
    BY <1>5, <1>6 DEF OneCollectionOf, Final, FinalUnsuccessful
  <2> QED BY <2>1, <2>2 DEF OneCollection
<1>8. SettledOnce'
  <2>1. payment[p].settled = None /\ \A b \in AttemptsOf(p) : attempt[b].status # "succeeded"
    BY <1>1, ConstantsAssumption DEF IInv, SettledOnce, Final, AttemptsOf, PaymentStatus
  <2> QED BY <1>1, <1>2, <1>3, <1>6, <2>1 DEF IInv, SettledOnce, AttemptsOf
<1> QED BY <1>7, <1>8

LEMMA StartKeeps ==
    ASSUME IInv, NEW p \in Payments, NEW a \in Attempts, StartAttempt(p, a)
    PROVE  OneCollection' /\ SettledOnce'
<1>1. /\ attempt[a].status = "none" /\ payment[p].status = "created"
      /\ UncertainAttempts(p) = {}
      /\ payment \in [Payments -> PaymentRow] /\ attempt \in [Attempts -> AttemptRow] /\ a # None
  BY ConstantsAssumption
     DEF StartAttempt, IsPaymentUncertain, UncertainAttempts, AttemptsOf, IInv, TypeOK, Types
<1>2. /\ attempt'[a].status = "initiated" /\ attempt'[a].payment = p
      /\ \A b \in Attempts \ {a} : attempt'[b] = attempt[b]
  BY <1>1 DEF StartAttempt
<1>3. /\ \A q \in Payments \ {p} : payment'[q] = payment[q]
      /\ payment'[p].status = "pending" /\ payment'[p].settled = payment[p].settled
  BY <1>1 DEF StartAttempt, PaymentRow
<1>4. attempt[a].payment \notin Payments
  BY <1>1, ConstantsAssumption DEF IInv, TypeOK, References
<1>5. /\ AttemptsOf(p)' = AttemptsOf(p) \cup {a} /\ UncertainAttempts(p)' = {a}
      /\ \A q \in Payments \ {p} : AttemptsOf(q)' = AttemptsOf(q) /\ UncertainAttempts(q)' = UncertainAttempts(q)
  BY <1>1, <1>2, <1>4 DEF AttemptsOf, UncertainAttempts, Uncertain, OpenAttempt
<1>6. OneCollection'
  <2>1. ASSUME NEW q \in Payments, q # p
        PROVE  OneCollectionOf(q)'
    <3>1. OneCollectionOf(q) /\ payment'[q] = payment[q] /\ UncertainAttempts(q)' = UncertainAttempts(q)
      BY <1>3, <1>5, <2>1 DEF IInv, OneCollection
    <3>2. \A b \in UncertainAttempts(q) : attempt'[b] = attempt[b]
      BY <1>2, <1>4, <2>1 DEF UncertainAttempts, AttemptsOf
    <3> QED BY <3>1, <3>2 DEF OneCollectionOf
  <2>2. OneCollectionOf(p)'
    BY <1>2, <1>3, <1>5 DEF OneCollectionOf, OpenAttempt, Final, FinalUnsuccessful
  <2> QED BY <2>1, <2>2 DEF OneCollection
<1>7. SettledOnce'
  <2>1. payment[p].settled = None /\ \A b \in AttemptsOf(p) : attempt[b].status # "succeeded"
    BY <1>1, ConstantsAssumption DEF IInv, SettledOnce, AttemptsOf
  <2>2. \A b \in AttemptsOf(p) : attempt'[b] = attempt[b]
    BY <1>2, <1>4 DEF AttemptsOf
  <2>3. \A q \in Payments \ {p} : \A b \in AttemptsOf(q) : attempt'[b] = attempt[b]
    BY <1>2, <1>4 DEF AttemptsOf
  <2> QED BY <1>1, <1>2, <1>3, <1>5, <2>1, <2>2, <2>3 DEF IInv, SettledOnce
<1> QED BY <1>6, <1>7

\* a payment's status changes to one its uncertain attempts allow, and nothing else does
LEMMA PaymentMoves ==
    ASSUME IInv, NEW p \in Payments, NEW s \in FinalUnsuccessful \cup {"created", "closing"},
           payment[p].status \in {"none", "created", "pending"}, UNCHANGED attempt,
           payment'[p].status = s, payment'[p].settled = payment[p].settled,
           \A q \in Payments \ {p} : payment'[q] = payment[q],
           s = "created" => UncertainAttempts(p) = {},
           s = "closing" <=> UncertainAttempts(p) # {}
    PROVE  OneCollection' /\ SettledOnce'
<1>1. \A q \in Payments : UncertainAttempts(q)' = UncertainAttempts(q) /\ AttemptsOf(q)' = AttemptsOf(q)
  BY DEF UncertainAttempts, AttemptsOf
<1>2. OneCollection'
  <2>1. ASSUME NEW q \in Payments, q # p
        PROVE  OneCollectionOf(q)'
    <3>1. OneCollectionOf(q) /\ payment'[q] = payment[q] /\ UncertainAttempts(q)' = UncertainAttempts(q)
      BY <1>1, <2>1 DEF IInv, OneCollection
    <3> QED BY <3>1 DEF OneCollectionOf
  <2>2. OneCollectionOf(p)'
    BY <1>1 DEF OneCollectionOf, IInv, OneCollection, Final, FinalUnsuccessful
  <2> QED BY <2>1, <2>2 DEF OneCollection
<1>3. SettledOnce'
  BY <1>1 DEF IInv, SettledOnce, FinalUnsuccessful, AttemptsOf
<1> QED BY <1>2, <1>3

LEMMA EndKeeps ==
    ASSUME IInv, NEW p \in Payments, NEW r, NEW s \in {"cancelled", "expired"}, Close(p, r, s)
    PROVE  OneCollection' /\ SettledOnce'
<1>1. /\ payment[p] \in PaymentRow /\ payment \in [Payments -> PaymentRow]
      /\ payment[p].status \in {"created", "pending"} /\ UNCHANGED attempt
      /\ IsPaymentUncertain(attempt, p) <=> UncertainAttempts(p) # {}
  BY DEF Close, IInv, TypeOK, Types, IsPaymentUncertain, UncertainAttempts, AttemptsOf
<1>2. CASE IsPaymentUncertain(attempt, p)
  <2>1. payment' = [payment EXCEPT ![p] = [payment[p] EXCEPT !.status = "closing", !.reason = r]]
    BY <1>2 DEF Close
  <2>2. LET row == [payment[p] EXCEPT !.status = "closing", !.reason = r]
        IN  row.status = "closing" /\ row.settled = payment[p].settled
    BY <1>1 DEF PaymentRow
  <2> QED BY <1>1, <1>2, <2>1, <2>2, PaymentMoves
<1>3. CASE ~IsPaymentUncertain(attempt, p)
  <2>1. payment' = [payment EXCEPT ![p] = [payment[p] EXCEPT !.status = s]]
    BY <1>3 DEF Close, EndPayment
  <2>2. LET row == [payment[p] EXCEPT !.status = s]
        IN  row.status = s /\ row.settled = payment[p].settled
    BY <1>1 DEF PaymentRow
  <2>3. s \in FinalUnsuccessful
    BY DEF FinalUnsuccessful
  <2> QED BY <1>1, <1>3, <2>1, <2>2, <2>3, PaymentMoves
<1> QED BY <1>2, <1>3

LEMMA IInvNext ==
    ASSUME IInv, [Next]_vars
    PROVE  IInv'
<1>1. TypeOK'
  BY TypesNext, ReferencesNext DEF IInv, TypeOK
<1> SUFFICES OneCollection' /\ SettledOnce'
  BY <1>1 DEF IInv
<1>2. ASSUME NEW p \in Payments, CreatePayment(p)
      PROVE  OneCollection' /\ SettledOnce'
  <2>1. /\ payment[p] \in PaymentRow /\ payment \in [Payments -> PaymentRow]
        /\ payment[p].status = "none" /\ UNCHANGED attempt
        /\ payment' = [payment EXCEPT ![p] = [payment[p] EXCEPT !.status = "created"]]
    BY <1>2 DEF CreatePayment, IInv, TypeOK, Types
  <2>2. LET row == [payment[p] EXCEPT !.status = "created"]
        IN  row.status = "created" /\ row.settled = payment[p].settled
    BY <2>1 DEF PaymentRow
  <2>3. UncertainAttempts(p) = {}
    BY <2>1 DEF IInv, OneCollection, OneCollectionOf
  <2> QED BY <2>1, <2>2, <2>3, PaymentMoves
<1>3. ASSUME NEW p \in Payments, Cancel(p) \/ SweepOne(p)
      PROVE  OneCollection' /\ SettledOnce'
  BY <1>3, EndKeeps DEF Cancel, SweepOne
<1>4. ASSUME NEW p \in Payments, NEW a \in Attempts, StartAttempt(p, a)
      PROVE  OneCollection' /\ SettledOnce'
  BY <1>4, StartKeeps
<1>5. ASSUME NEW a \in Attempts, NEW t \in Txns, CallAccepted(a, t)
      PROVE  OneCollection' /\ SettledOnce'
  <2>1. CASE Unanswered(a)
    <3>1. /\ attempt[a] \in AttemptRow /\ attempt \in [Attempts -> AttemptRow]
          /\ attempt[a].status \in OpenAttempt /\ "submitted" \in OpenAttempt /\ UNCHANGED payment
          /\ attempt' = [attempt EXCEPT ![a] = [attempt[a] EXCEPT !.status = "submitted", !.txn = t]]
      BY <1>5, <2>1 DEF CallAccepted, Unanswered, OpenAttempt, IInv, TypeOK, Types, ledger
    <3>2. LET row == [attempt[a] EXCEPT !.status = "submitted", !.txn = t]
          IN  row.status = "submitted" /\ row.payment = attempt[a].payment
      BY <3>1 DEF AttemptRow
    <3> QED BY <3>1, <3>2, AttemptMoves
  <2>2. CASE ~Unanswered(a)
    BY <1>5, <2>2, Stays DEF CallAccepted, ledger
  <2> QED BY <2>1, <2>2
<1>6. ASSUME NEW a \in Attempts, CallAmbiguous(a)
      PROVE  OneCollection' /\ SettledOnce'
  <2>1. CASE Unanswered(a)
    <3>1. /\ attempt[a].status \in OpenAttempt /\ "unknown" \in OpenAttempt /\ UNCHANGED payment
          /\ attempt' = [attempt EXCEPT ![a].status = "unknown"]
      BY <1>6, <2>1 DEF CallAmbiguous, Unanswered, OpenAttempt, ledger
    <3>2. "unknown" \in AttemptStatus
      BY DEF AttemptStatus, OpenAttempt
    <3> QED BY <3>1, <3>2, StatusWritten, AttemptMoves DEF IInv, TypeOK
  <2>2. CASE ~Unanswered(a)
    BY <1>6, <2>2, Stays DEF CallAmbiguous, ledger
  <2> QED BY <2>1, <2>2
<1>7. ASSUME NEW a \in Attempts, NEW fatal \in BOOLEAN, CallRejected(a, fatal)
      PROVE  OneCollection' /\ SettledOnce'
  <2>1. CASE Unanswered(a)
    <3>1. Uncertain(attempt[a]) /\ FailAttempt(a, "failed", fatal)
      BY <1>7, <2>1 DEF CallRejected, Unanswered, Uncertain, OpenAttempt
    <3> QED BY <3>1, FailAttemptKeeps
  <2>2. CASE ~Unanswered(a)
    BY <1>7, <2>2, Stays DEF CallRejected, ledger
  <2> QED BY <2>1, <2>2
<1>8. ASSUME NEW o \in Observers, Apply(o)
      PROVE  OneCollection' /\ SettledOnce'
  <2>1. ASSUME NEW s \in {"failed", "failed_inferred", "failed_confirmed", "expired"}, NEW fatal,
               obs[o].pc = "decide", Uncertain(attempt[obs[o].attempt]), Fail(o, s, fatal)
        PROVE  OneCollection' /\ SettledOnce'
    <3>1. obs[o].attempt \in Attempts
      BY <2>1, ObsFields DEF IInv, TypeOK, Observation
    <3> QED BY <2>1, <3>1, FailAttemptKeeps DEF Fail
  <2>2. ASSUME NoEffect(o)
        PROVE  OneCollection' /\ SettledOnce'
    BY <2>2, Stays DEF NoEffect, ledger
  <2>3. CASE RecordCaptureFact(o)
    BY <2>3, Stays DEF RecordCaptureFact, ledger
  <2>4. CASE ApplyPending(o)
    BY <2>2, <2>4 DEF ApplyPending
  <2>5. CASE ApplyNotFound(o)
    BY <2>1, <2>2, <2>5 DEF ApplyNotFound, Deciding, Unanswered, Uncertain, OpenAttempt
  <2>6. CASE ApplyExpired(o)
    BY <2>1, <2>2, <2>6 DEF ApplyExpired, Deciding, Uncertain, OpenAttempt
  <2>7. CASE ApplyFailed(o)
    BY <2>1, <2>2, <2>7 DEF ApplyFailed, Deciding, Uncertain
  <2>8. CASE ApplySucceeded(o)
    <3>1. obs[o].attempt \in Attempts
      BY <2>8, ObsFields DEF ApplySucceeded, Deciding, IInv, TypeOK, Observation
    <3>2. CASE Settles(o)
      <4>1. /\ Uncertain(attempt[obs[o].attempt])
            /\ SucceedWith(o, obs[o].attempt, attempt[obs[o].attempt].payment)
        BY <2>8, <3>2 DEF ApplySucceeded, Settles, Undecided, Uncertain
      <4> QED BY <3>1, <4>1, SucceedKeeps
    <3>3. CASE ~Settles(o) /\ IsLate(o)
      BY <2>8, <3>3, Stays DEF ApplySucceeded, ledger
    <3>4. CASE ~Settles(o) /\ ~IsLate(o)
      BY <2>2, <2>8, <3>4 DEF ApplySucceeded
    <3> QED BY <3>2, <3>3, <3>4
  <2>9. CASE RecordLateSuccess(o)
    BY <2>9, Stays DEF RecordLateSuccess
  <2> QED BY <1>8, <2>3, <2>4, <2>5, <2>6, <2>7, <2>8, <2>9 DEF Apply
<1>9. CASE \/ \E p \in Payments : PassExpiry(p)
           \/ \E a \in Attempts : LoseCall(a)
           \/ \E o \in Observers : \/ \E a \in Attempts, answer \in Answers, source \in Channels :
                                            Observe(o, a, answer, source)
                                   \/ Crash(o)
           \/ EvidenceStep
           \/ UNCHANGED vars
  BY <1>9, Stays DEF PassExpiry, LoseCall, Observe, Crash, EvidenceStep, RecordUnmatchedFact,
     ReconcileFact, FailToReconcile, ledger, vars
<1> QED BY <1>2, <1>3, <1>4, <1>5, <1>6, <1>7, <1>8, <1>9
        DEF Next, ProducerStep, ClockStep, SweepStep, PayerStep, CallStep, ObserverStep

LEMMA IInvInit ==
    ASSUME Init
    PROVE  IInv
<1>1. TypeOK
  BY ConstantsAssumption DEF Init, TypeOK, Types, References, PaymentRow, PaymentStatus, AttemptRow,
     AttemptStatus, EventKinds, ObsState, Idle
<1> QED BY <1>1, ConstantsAssumption
        DEF Init, IInv, OneCollection, OneCollectionOf, SettledOnce, UncertainAttempts, AttemptsOf, Final,
            FinalUnsuccessful

LEMMA IInvInvariant == Spec => []IInv
<1>1. Init => IInv
  BY IInvInit
<1>2. IInv /\ [Next]_vars => IInv'
  BY IInvNext
<1> QED BY <1>1, <1>2, PTL DEF Spec

\* At most one attempt of a payment may still produce money, and the payment's status
\* says so, for any number of attempts, observers and crashes (start, applyStatus,
\* settlePaymentAfterFailure, completeClosingIfResolved).
THEOREM OneCollectionAlways == Spec => []OneCollection
<1>1. IInv => OneCollection
  BY DEF IInv
<1> QED BY <1>1, IInvInvariant, PTL

\* An attempt has succeeded exactly when its payment has settled on it, so a payment
\* never settles on two attempts (applyStatus, succeededAttemptId; FI-03, FI-04).
THEOREM SettledOnceAlways == Spec => []SettledOnce
<1>1. IInv => SettledOnce
  BY DEF IInv
<1> QED BY <1>1, IInvInvariant, PTL
=============================================================================
