------------------------- MODULE PaymentSettlement -------------------------
(***************************************************************************)
(* payment-service: one payment is collected through a series of attempts  *)
(* at a provider.  Every action is one database transaction (each of them  *)
(* locks the payment row first) or one step between two transactions, so   *)
(* the interleavings are those of concurrent requests, provider            *)
(* notifications, background workers and service instances; Crash and      *)
(* LoseCall are a process that stops, or a transaction that fails, between *)
(* two of its transactions.                                                *)
(*                                                                         *)
(* Abstractions.  An amount and its currency are a figure: "equal" to the  *)
(* payment's, "wrong" (another amount or ISO currency), "non_iso", or      *)
(* "unusable" (no fact can hold it).  payment_attempt's status and its     *)
(* columns failureInferred and failureConfirmedAt are one status:          *)
(* "failed" is provider-confirmed, "failed_inferred" is a guess,           *)
(* "failed_confirmed" a guess the provider confirmed since.  The provider  *)
(* may say anything, at any time, through either channel.  `settledBy' is  *)
(* a history variable.                                                     *)
(***************************************************************************)
EXTENDS Integers, FiniteSets

CONSTANTS
    Payments,               \* payment rows
    Attempts,               \* payment_attempt rows that may come to exist
    Txns,                   \* provider transaction references of captures
    Observers,              \* concurrent runs of applyStatus: sync, resolver, webhook
    Figures,                \* the figures a provider may report
    MaxAttempts,            \* PAYMENT_MAX_ATTEMPTS
    NotFoundAuthoritative,  \* provider.capabilities.notFoundIsAuthoritative
    MaxRecovery,            \* CAPTURE_RECOVERY_MAX_ATTEMPTS
    None                    \* SQL NULL

ASSUME ConstantsAssumption ==
    /\ IsFiniteSet(Attempts)
    /\ Figures \subseteq {"equal", "wrong", "non_iso", "unusable"}
    /\ MaxAttempts \in Nat \ {0}
    /\ MaxRecovery \in Nat \ {0}
    /\ NotFoundAuthoritative \in BOOLEAN
    /\ None \notin Attempts \cup Txns \cup Payments

VARIABLES
    payment,      \* payment rows: status, closingReason, succeededAttemptId
    due,          \* the payments whose expiresAt has passed
    attempt,      \* payment_attempt rows
    call,         \* the start request of each attempt: where provider.initiate is
    fact,         \* provider_transaction_fact rows of kind capture, by reference
    contested,    \* the facts with a provider_transaction_fact_conflict row
    late,         \* payment_late_success rows, by the fact they name
    emitted,      \* how often each payment event was put in the outbox
    lateEmitted,  \* how often payment.late_success.recorded was, by fact
    recovery,     \* capture_recovery_state rows: failed tries, 0 when there is none
    obs,          \* each run of applyStatus
    settledBy     \* history: the capture a payment was settled on

evidence == <<fact, contested>>
ledger   == <<payment, emitted, late, lateEmitted>>
vars == <<payment, due, attempt, call, fact, contested, late, emitted,
          lateEmitted, recovery, obs, settledBy>>

-----------------------------------------------------------------------------
(* Rows *)

OpenAttempt        == {"initiated", "submitted", "unknown"}
AttemptStatus      == OpenAttempt \cup {"none", "succeeded", "failed", "expired",
                                        "failed_inferred", "failed_confirmed"}
FinalUnsuccessful  == {"failed", "cancelled", "expired"}
Final              == FinalUnsuccessful \cup {"succeeded"}
PaymentStatus      == Final \cup {"none", "created", "pending", "closing"}
EventKinds         == Final \cup {"created"}
Channels           == {"status_check", "webhook"}

PaymentRow == [status : PaymentStatus, reason : {"cancel", "expiry", None},
               settled : Attempts \cup {None}]
AttemptRow == [status : AttemptStatus, payment : Payments \cup {None},
               number : Nat, txn : Txns \cup {None}]
FactRow    == [attempt : Attempts \cup {None}, figure : Figures, source : Channels]
LateRow    == [status : PaymentStatus, source : Channels]

\* SQL NULL is no row
ASSUME NullIsNoRow == None \notin FactRow \cup LateRow

SuccessAnswer == [kind : {"succeeded"}, figure : Figures, txn : Txns \cup {None}]
Answers    == [kind : {"pending", "notFound", "expired"}]
              \cup [kind : {"failed"}, fatal : BOOLEAN] \cup SuccessAnswer

\* a run of applyStatus: recording the fact, deciding, or booking the late success
Idle       == [pc |-> "idle"]
Observation(pcs, answers, facts) ==
    [pc : pcs, attempt : Attempts, answer : answers, source : Channels, fact : facts]
ObsState   == {Idle} \cup Observation({"record"}, SuccessAnswer, {None})
                     \cup Observation({"decide"}, Answers, Txns \cup {None})
                     \cup Observation({"late"}, SuccessAnswer, Txns)

Types ==
    /\ payment \in [Payments -> PaymentRow]
    /\ due \subseteq Payments
    /\ attempt \in [Attempts -> AttemptRow]
    /\ call \in [Attempts -> {"none", "calling", "rejected", "ended"}]
    /\ fact \in [Txns -> FactRow \cup {None}]
    /\ contested \subseteq Txns
    /\ late \in [Txns -> LateRow \cup {None}]
    /\ emitted \in [Payments -> [EventKinds -> Nat]]
    /\ lateEmitted \in [Txns -> Nat]
    /\ recovery \in [Txns -> 0..MaxRecovery]
    /\ obs \in [Observers -> ObsState]
    /\ settledBy \in [Payments -> Txns \cup {None}]

\* foreign keys: an attempt has its payment, what names an attempt names a born one
References ==
    /\ \A a \in Attempts : (attempt[a].status = "none") <=> (attempt[a].payment = None)
    /\ \A t \in Txns : fact[t] # None /\ fact[t].attempt # None =>
                          attempt[fact[t].attempt].payment # None
    /\ \A o \in Observers : obs[o] # Idle => attempt[obs[o].attempt].payment # None

\* Every row has the shape its table and its types give it (0002, 0003, 0013, 0026).
TypeOK == Types /\ References

Init ==
    /\ payment = [p \in Payments |-> [status |-> "none", reason |-> None, settled |-> None]]
    /\ due = {}
    /\ attempt = [a \in Attempts |-> [status |-> "none", payment |-> None, number |-> 0, txn |-> None]]
    /\ call = [a \in Attempts |-> "none"]
    /\ fact = [t \in Txns |-> None]
    /\ contested = {}
    /\ late = [t \in Txns |-> None]
    /\ emitted = [p \in Payments |-> [k \in EventKinds |-> 0]]
    /\ lateEmitted = [t \in Txns |-> 0]
    /\ recovery = [t \in Txns |-> 0]
    /\ obs = [o \in Observers |-> Idle]
    /\ settledBy = [p \in Payments |-> None]

-----------------------------------------------------------------------------
(* What a transaction reads *)

AttemptsOf(p) == {a \in Attempts : attempt[a].payment = p}
Uncertain(row) == row.status \in OpenAttempt \cup {"failed_inferred"}

\* Definitions named with a final _ are mutants: a bug the properties must notice.
IsPaymentUncertain_(rows, p) ==
    \E a \in Attempts : rows[a].payment = p /\ rows[a].status \in OpenAttempt

\* payment_is_uncertain, over the attempt rows the transaction sees
IsPaymentUncertain(rows, p) ==
    \E a \in Attempts : rows[a].payment = p /\ Uncertain(rows[a])

FactOf(t, a) == fact[t] # None /\ fact[t].attempt = a

\* the fact is its attempt's only capture fact
Sole(t) == \A u \in Txns \ {t} : ~FactOf(u, fact[t].attempt)

\* payment_late_success_once: a status read of the attempt already has its row
\* (a stored webhook names one capture, so its key follows the fact's)
ObservationKeyTaken(a, source) ==
    /\ source = "status_check"
    /\ \E u \in Txns : late[u] # None /\ FactOf(u, a) /\ late[u].source = source

CaptureOf(t, p) ==
    /\ fact[t] # None
    /\ fact[t].attempt # None
    /\ attempt[fact[t].attempt].payment = p

EligibleAgain_(t, p) == CaptureOf(t, p) /\ fact[t].figure # "non_iso" /\ t \notin contested /\ Sole(t)
\* the capture facts a finality writer or the reconciler selects
Eligible(t, p) ==
    /\ CaptureOf(t, p)
    /\ fact[t].figure # "non_iso"
    /\ t \notin contested
    /\ late[t] = None
    /\ Sole(t)

Recordable(t, p) == Eligible(t, p) /\ ~ObservationKeyTaken(fact[t].attempt, fact[t].source)

-----------------------------------------------------------------------------
(* What a transaction writes to a payment it holds *)

\* the late successes of the facts in T, each with its event
RecordLateSuccesses(T, status) ==
    /\ late' = [t \in Txns |-> IF t \in T THEN [status |-> status, source |-> fact[t].source]
                                          ELSE late[t]]
    /\ lateEmitted' = [t \in Txns |-> IF t \in T THEN lateEmitted[t] + 1 ELSE lateEmitted[t]]

EndPayment(p, status) ==
    /\ payment' = [payment EXCEPT ![p].status = status]
    /\ emitted' = [emitted EXCEPT ![p][status] = @ + 1]
    /\ RecordLateSuccesses({t \in Txns : Recordable(t, p)}, status)

ClosingOutcome_(p) == IF payment[p].reason = "expiry" THEN "cancelled" ELSE "expired"
ClosingOutcome(p) == IF payment[p].reason = "cancel" THEN "cancelled" ELSE "expired"

\* `rows' are the attempt rows with the failure written
SettlePaymentAfterFailure(rows, p, number, fatal) ==
    LET over  == ~IsPaymentUncertain(rows, p)
        fails == over /\ (fatal \/ number >= MaxAttempts)
        was   == payment[p].status
    IN  CASE was = "closing" /\ over -> EndPayment(p, ClosingOutcome(p))
          [] was \in {"pending", "created"} /\ fails -> EndPayment(p, "failed")
          [] was = "pending" /\ ~fails ->
                /\ payment' = [payment EXCEPT ![p].status = "created"]
                /\ UNCHANGED <<emitted, late, lateEmitted>>
          [] OTHER -> UNCHANGED ledger

FailAttempt(a, status, fatal) ==
    LET rows == [attempt EXCEPT ![a].status = status]
    IN  /\ attempt' = rows
        /\ SettlePaymentAfterFailure(rows, attempt[a].payment, attempt[a].number, fatal)

-----------------------------------------------------------------------------
(* Requests of the producer and the payer, and the expiry sweep *)

CreatePayment(p) ==
    /\ payment[p].status = "none"
    /\ payment' = [payment EXCEPT ![p].status = "created"]
    /\ emitted' = [emitted EXCEPT ![p]["created"] = @ + 1]
    /\ UNCHANGED <<due, attempt, call, evidence, late, lateEmitted, recovery, obs, settledBy>>

\* database time passes the payment's expiresAt
PassExpiry(p) ==
    /\ payment[p].status # "none"
    /\ p \notin due
    /\ due' = due \cup {p}
    /\ UNCHANGED <<ledger, attempt, call, evidence, recovery, obs, settledBy>>

\* cancel, and trySweepOne for a payment that is due
Close(p, reason, outcome) ==
    /\ payment[p].status \in {"created", "pending"}
    /\ IF IsPaymentUncertain(attempt, p)
       THEN /\ payment' = [payment EXCEPT ![p].status = "closing", ![p].reason = reason]
            /\ UNCHANGED <<emitted, late, lateEmitted>>
       ELSE EndPayment(p, outcome)
    /\ UNCHANGED <<due, attempt, call, evidence, recovery, obs, settledBy>>

Cancel(p) == Close(p, "cancel", "cancelled")

SweepOne_(p) == p \in due /\ Close(p, "expired", "expired")
SweepOne(p) == p \in due /\ Close(p, "expiry", "expired")

\* start, T1: the attempt is committed before the provider is called
StartAttempt(p, a) ==
    /\ attempt[a].status = "none"
    /\ p \notin due
    /\ payment[p].status = "created"
    /\ ~IsPaymentUncertain(attempt, p)
    /\ attempt' = [attempt EXCEPT ![a] = [status |-> "initiated", payment |-> p, txn |-> None,
                                          number |-> Cardinality(AttemptsOf(p)) + 1]]
    /\ payment' = [payment EXCEPT ![p].status = "pending"]
    /\ call' = [call EXCEPT ![a] = "calling"]
    /\ UNCHANGED <<due, evidence, late, emitted, lateEmitted, recovery, obs, settledBy>>

\* start, T2: the provider's answer, applied only to an attempt still open and unacknowledged
Unanswered_(a) == attempt[a].status # "none"
Unanswered(a) == attempt[a].status \in {"initiated", "unknown"}

CallAccepted(a, t) ==
    /\ call[a] = "calling"
    /\ \A b \in Attempts : attempt[b].txn # t
    /\ call' = [call EXCEPT ![a] = "ended"]
    /\ attempt' = IF Unanswered(a)
                  THEN [attempt EXCEPT ![a].status = "submitted", ![a].txn = t]
                  ELSE attempt
    /\ UNCHANGED <<ledger, due, evidence, recovery, obs, settledBy>>

CallAmbiguous(a) ==
    /\ call[a] = "calling"
    /\ call' = [call EXCEPT ![a] = "ended"]
    /\ attempt' = IF Unanswered(a) THEN [attempt EXCEPT ![a].status = "unknown"] ELSE attempt
    /\ UNCHANGED <<ledger, due, evidence, recovery, obs, settledBy>>

CallRejected(a, fatal) ==
    /\ call[a] = "calling"
    /\ call' = [call EXCEPT ![a] = "rejected"]
    /\ IF Unanswered(a)
       THEN FailAttempt(a, "failed", fatal)
       ELSE UNCHANGED <<ledger, attempt>>
    /\ UNCHANGED <<due, evidence, recovery, obs, settledBy>>

\* the process stops between T1 and T2, or T2 fails
LoseCall(a) ==
    /\ call[a] = "calling"
    /\ call' = [call EXCEPT ![a] = "ended"]
    /\ UNCHANGED <<ledger, due, attempt, evidence, recovery, obs, settledBy>>

-----------------------------------------------------------------------------
(* applyStatus: what a verified provider observation does to an attempt *)

\* sync, the resolver or a stored webhook read an answer about a born attempt;
\* a capture is recorded first, any other answer is decided at once (and its channel
\* leaves no trace)
Observe(o, a, answer, source) ==
    /\ obs[o] = Idle
    /\ attempt[a].status # "none"
    /\ answer.kind # "succeeded" => source = "status_check"
    /\ obs' = [obs EXCEPT ![o] = [pc |-> IF answer.kind = "succeeded" THEN "record" ELSE "decide",
                                  attempt |-> a, answer |-> answer, source |-> source, fact |-> None]]
    /\ UNCHANGED <<ledger, due, attempt, call, evidence, recovery, settledBy>>

\* the reference an observation names, or else the attempt's own
TxnOf(o) == IF obs[o].answer.txn # None THEN obs[o].answer.txn
                                        ELSE attempt[obs[o].attempt].txn

\* recordCaptureFact, in a transaction of its own
RecordCaptureFact(o) ==
    LET a   == obs[o].attempt
        t   == TxnOf(o)
        row == [attempt |-> a, figure |-> obs[o].answer.figure, source |-> obs[o].source]
    IN  /\ obs[o].pc = "record"
        /\ IF t = None \/ row.figure = "unusable"
           THEN /\ obs' = [obs EXCEPT ![o].pc = "decide"]
                /\ UNCHANGED evidence
           ELSE /\ obs' = [obs EXCEPT ![o].pc = "decide", ![o].fact = t]
                /\ IF fact[t] = None
                   THEN fact' = [fact EXCEPT ![t] = row] /\ UNCHANGED contested
                   ELSE /\ UNCHANGED fact
                        /\ IF fact[t].attempt = a /\ fact[t].figure = row.figure
                           THEN UNCHANGED contested
                           ELSE contested' = contested \cup {t}
        /\ UNCHANGED <<ledger, due, attempt, call, recovery, settledBy>>

\* captureEvidence: the observation is its committed, uncontested fact
Verified(o) ==
    /\ obs[o].fact # None
    /\ FactOf(obs[o].fact, obs[o].attempt)
    /\ obs[o].fact \notin contested
    /\ fact[obs[o].fact].figure = obs[o].answer.figure

Deciding(o, kind) == obs[o].pc = "decide" /\ obs[o].answer.kind = kind
Return(o) == obs' = [obs EXCEPT ![o] = Idle]
NoEffect(o) == Return(o) /\ UNCHANGED <<ledger, attempt, settledBy>>

\* the attempt fails; the observation is over
Fail(o, status, fatal) ==
    /\ Return(o)
    /\ FailAttempt(obs[o].attempt, status, fatal)
    /\ UNCHANGED settledBy

ApplyPending(o) ==
    /\ Deciding(o, "pending")
    /\ NoEffect(o)
    /\ UNCHANGED <<due, call, evidence, recovery>>

ApplyNotFound(o) ==
    /\ Deciding(o, "notFound")
    /\ IF NotFoundAuthoritative /\ Unanswered(obs[o].attempt)
       THEN Fail(o, "failed_inferred", FALSE)
       ELSE NoEffect(o)
    /\ UNCHANGED <<due, call, evidence, recovery>>

ApplyExpired(o) ==
    LET status == attempt[obs[o].attempt].status
    IN  /\ Deciding(o, "expired")
        /\ CASE status = "failed_inferred" -> Fail(o, "failed_confirmed", FALSE)
             [] status = "submitted" -> Fail(o, "expired", FALSE)
             [] OTHER -> NoEffect(o)
        /\ UNCHANGED <<due, call, evidence, recovery>>

ApplyFailed(o) ==
    LET status == attempt[obs[o].attempt].status
        fatal  == obs[o].answer.fatal
    IN  /\ Deciding(o, "failed")
        /\ CASE status = "failed_inferred" -> Fail(o, "failed_confirmed", fatal)
             [] status \in OpenAttempt -> Fail(o, "failed", fatal)
             [] OTHER -> NoEffect(o)
        /\ UNCHANGED <<due, call, evidence, recovery>>

Undecided_(o) == payment[attempt[obs[o].attempt].payment].status \notin Final
Undecided(o) ==
    LET a == obs[o].attempt
    IN  /\ payment[attempt[a].payment].status \notin Final
        /\ attempt[a].status \in OpenAttempt \cup {"failed_inferred"}

SettlesAnyFigure_(o)  == Verified(o) /\ Undecided(o) /\ Sole(obs[o].fact)
\* the success settles: the attempt and its payment succeed
Settles(o) ==
    /\ obs[o].answer.figure = "equal"
    /\ Verified(o)
    /\ Undecided(o)
    /\ Sole(obs[o].fact)

\* the success found a payment that had ended: a late success is to be recorded
IsLate_(o) == attempt[obs[o].attempt].status # "succeeded" /\ Verified(o)
IsLate(o) ==
    LET a == obs[o].attempt
        s == payment[attempt[a].payment].status
    IN  /\ attempt[a].status # "succeeded"
        /\ Verified(o)
        /\ \/ obs[o].answer.figure = "equal" /\ s \in Final
           \/ obs[o].answer.figure = "wrong" /\ s \in FinalUnsuccessful

SucceedWith(o, a, p) ==
    /\ Return(o)
    /\ attempt' = [attempt EXCEPT ![a].status = "succeeded"]
    /\ payment' = [payment EXCEPT ![p].status = "succeeded", ![p].settled = a]
    /\ emitted' = [emitted EXCEPT ![p]["succeeded"] = @ + 1]
    /\ settledBy' = [settledBy EXCEPT ![p] = obs[o].fact]
    /\ UNCHANGED <<late, lateEmitted>>

ApplySucceeded(o) ==
    /\ Deciding(o, "succeeded")
    /\ \/ /\ Settles(o)
          /\ SucceedWith(o, obs[o].attempt, attempt[obs[o].attempt].payment)
       \/ /\ ~Settles(o) /\ IsLate(o)
          /\ obs' = [obs EXCEPT ![o].pc = "late"]
          /\ UNCHANGED <<ledger, attempt, settledBy>>
       \/ ~Settles(o) /\ ~IsLate(o) /\ NoEffect(o)
    /\ UNCHANGED <<due, call, evidence, recovery>>

\* payment_late_success_fact_guard, on the row a run inserts, before any key is looked at
FactGuard(o) ==
    LET t == obs[o].fact
        a == obs[o].attempt
    IN  /\ FactOf(t, a)
        /\ fact[t].figure = obs[o].answer.figure
        /\ t \notin contested
        /\ payment[attempt[a].payment].status \in Final
        /\ Sole(t)

\* recordLateSuccess, in a transaction of its own, after the decision committed.  It looks
\* for a sibling itself and leaves the rest to the insert: the guard aborts it, a key that
\* is taken does nothing
RecordLateSuccess(o) ==
    LET t == obs[o].fact
        a == obs[o].attempt
        row == [status |-> payment[attempt[a].payment].status, source |-> obs[o].source]
        sole == Sole(t)
        keyed == late[t] # None \/ ObservationKeyTaken(a, obs[o].source)
    IN  /\ obs[o].pc = "late"
        /\ Return(o)
        /\ \/ /\ sole /\ FactGuard(o) /\ ~keyed
              /\ late' = [late EXCEPT ![t] = row]
              /\ lateEmitted' = [lateEmitted EXCEPT ![t] = @ + 1]
           \/ (~sole \/ keyed) /\ UNCHANGED <<late, lateEmitted>>
           \/ sole /\ ~FactGuard(o) /\ UNCHANGED <<late, lateEmitted>>
        /\ UNCHANGED <<payment, due, attempt, call, evidence, emitted, recovery, settledBy>>

\* the process stops, or its next transaction fails
Crash(o) ==
    /\ obs[o] # Idle
    /\ Return(o)
    /\ UNCHANGED <<ledger, due, attempt, call, evidence, recovery, settledBy>>

-----------------------------------------------------------------------------
(* Background work on committed evidence *)

\* recordUnmatchedFact: a stored capture notification that names no attempt
RecordUnmatchedFact(t, figure) ==
    /\ fact[t] = None
    /\ figure # "unusable"
    /\ \A a \in Attempts : attempt[a].txn # t
    /\ fact' = [fact EXCEPT ![t] = [attempt |-> None, figure |-> figure, source |-> "webhook"]]
    /\ UNCHANGED <<ledger, due, attempt, call, contested, recovery, obs, settledBy>>

PaymentOf(t) == IF fact[t] # None /\ fact[t].attempt # None
                THEN attempt[fact[t].attempt].payment ELSE None

\* the reconciler's selection of one fact
Reconcilable(t) ==
    /\ PaymentOf(t) # None
    /\ payment[PaymentOf(t)].status \in FinalUnsuccessful
    /\ Eligible(t, PaymentOf(t))
    /\ recovery[t] < MaxRecovery

\* processFact; without effect it is a counted try
ReconcileFact(t) ==
    LET p == PaymentOf(t)
    IN  /\ Reconcilable(t)
        /\ IF Recordable(t, p)
           THEN RecordLateSuccesses({t}, payment[p].status) /\ UNCHANGED recovery
           ELSE /\ recovery' = [recovery EXCEPT ![t] = @ + 1]
                /\ UNCHANGED <<late, lateEmitted>>
        /\ UNCHANGED <<payment, emitted, due, attempt, call, evidence, obs, settledBy>>

\* its transaction fails for a reason of its own: the try is counted, or the fact is
\* refused for good (countAttempt)
FailToReconcile(t) ==
    /\ Reconcilable(t)
    /\ \E tries \in {recovery[t] + 1, MaxRecovery} : recovery' = [recovery EXCEPT ![t] = tries]
    /\ UNCHANGED <<ledger, due, attempt, call, evidence, obs, settledBy>>

-----------------------------------------------------------------------------

ProducerStep == \E p \in Payments : CreatePayment(p) \/ Cancel(p)
ClockStep    == \E p \in Payments : PassExpiry(p)
SweepStep    == \E p \in Payments : SweepOne(p)
CallStep(a)  == \/ \E t \in Txns : CallAccepted(a, t)
                \/ CallAmbiguous(a)
                \/ \E fatal \in BOOLEAN : CallRejected(a, fatal)
PayerStep    == \E a \in Attempts : \/ \E p \in Payments : StartAttempt(p, a)
                                    \/ CallStep(a)
                                    \/ LoseCall(a)
Apply(o)     == \/ RecordCaptureFact(o)
                \/ ApplyPending(o) \/ ApplyNotFound(o) \/ ApplyExpired(o) \/ ApplyFailed(o)
                \/ ApplySucceeded(o)
                \/ RecordLateSuccess(o)
ObserverStep == \E o \in Observers :
                    \/ \E a \in Attempts, answer \in Answers, source \in Channels :
                          Observe(o, a, answer, source)
                    \/ Apply(o)
                    \/ Crash(o)
EvidenceStep == \E t \in Txns : \/ \E figure \in Figures : RecordUnmatchedFact(t, figure)
                                \/ ReconcileFact(t)
                                \/ FailToReconcile(t)

Next == ProducerStep \/ ClockStep \/ SweepStep \/ PayerStep \/ ObserverStep \/ EvidenceStep

Spec == Init /\ [][Next]_vars

-----------------------------------------------------------------------------
(* Properties *)

UncertainAttempts(p) == {a \in AttemptsOf(p) : Uncertain(attempt[a])}

\* One open collection at a time (F-2, F-6): at most one attempt of a payment may
\* still produce money, an inferred failure included, and a payment says so:
\* `pending' is an open attempt, `created' at most a guess, `closing' always one of
\* either, and a final payment none (payment_is_uncertain, start, settlePaymentAfterFailure).
OneCollectionOf(p) ==
    LET s == payment[p].status
    IN  /\ \A a, b \in UncertainAttempts(p) : a = b
        /\ s = "pending" => \E a \in UncertainAttempts(p) : attempt[a].status \in OpenAttempt
        /\ s = "created" => \A a \in UncertainAttempts(p) : attempt[a].status = "failed_inferred"
        /\ s = "closing" => UncertainAttempts(p) # {}
        /\ s \in Final \cup {"none"} => UncertainAttempts(p) = {}
OneCollection == \A p \in Payments : OneCollectionOf(p)

\* FI-03, FI-04: an attempt succeeds exactly when its payment settles on it, so no
\* payment is settled by two attempts (applyStatus, succeededAttemptId).
SettledOnce ==
    \A p \in Payments :
        /\ (payment[p].status = "succeeded") <=> (payment[p].settled # None)
        /\ \A a \in AttemptsOf(p) : (attempt[a].status = "succeeded") <=> (payment[p].settled = a)

\* S0-C11: a settled payment rests on a capture of its own attempt, of its exact
\* figure, that was never booked as a late success too (captureEvidence, EndPayment).
SettledOnEvidence ==
    \A p \in Payments :
        payment[p].status = "succeeded" =>
            /\ settledBy[p] # None
            /\ FactOf(settledBy[p], payment[p].settled)
            /\ fact[settledBy[p]].figure = "equal"
            /\ late[settledBy[p]] = None

\* F-4, S0-C12: a late success names a usable fact of an attempt that did not settle,
\* carries the final status its payment still has, and is announced exactly once
\* (recordLateSuccess, recordQualifyingLateSuccesses, 0025, 0026).
LateSuccessSound ==
    \A t \in Txns :
        /\ lateEmitted[t] = IF late[t] = None THEN 0 ELSE 1
        /\ late[t] # None =>
              /\ PaymentOf(t) # None
              /\ late[t].status = payment[PaymentOf(t)].status
              /\ payment[PaymentOf(t)].settled # fact[t].attempt
              /\ fact[t].figure \in {"equal", "wrong"}

\* What a transaction of the service decides passes the triggers of 0012, 0024 and 0026,
\* with one exception: recordLateSuccess inserts on a decision of an earlier transaction,
\* and only the trigger looks again whether its fact was contradicted since.  It refuses
\* the row for that and for nothing else, and every row that is written passes (create,
\* start, applyStatus, the closing and finality writers, the reconciler, recordLateSuccess).
Moved(p) == payment'[p].status # payment[p].status
Allowed ==
    {<<"none", "created">>, <<"created", "pending">>, <<"pending", "created">>,
     <<"pending", "succeeded">>, <<"pending", "failed">>, <<"created", "cancelled">>,
     <<"created", "expired">>, <<"created", "succeeded">>, <<"created", "failed">>,
     <<"created", "closing">>, <<"pending", "closing">>, <<"closing", "succeeded">>,
     <<"closing", "cancelled">>, <<"closing", "expired">>}
TransitionGuard(p) ==
    /\ <<payment[p].status, payment'[p].status>> \in Allowed
    /\ <<payment[p].status, payment'[p].status>> = <<"created", "failed">> =>
          \E a \in AttemptsOf(p) : attempt'[a].status = "failed_confirmed"
    /\ <<payment[p].status, payment'[p].status>> = <<"created", "succeeded">> =>
          attempt[payment'[p].settled].status = "failed_inferred"
    /\ payment'[p].status \in FinalUnsuccessful => ~IsPaymentUncertain(attempt', p)
    /\ payment'[p].status = "closing" => IsPaymentUncertain(attempt', p)
SettlementGuard(p) ==
    payment'[p].status = "succeeded" =>
        \E t \in Txns : /\ FactOf(t, payment'[p].settled) /\ Sole(t)
                        /\ t \notin contested /\ fact[t].figure = "equal"
LateGuard(t) ==
    /\ Sole(t) /\ t \notin contested
    /\ late'[t].status = payment'[PaymentOf(t)].status
    /\ late'[t].status \in Final

Refused(o) == obs[o].pc = "late" /\ Sole(obs[o].fact) /\ ~FactGuard(o)
OnlyContradictionsRefused == \A o \in Observers : Refused(o) => obs[o].fact \in contested

DatabaseGuards ==
    [][/\ \A p \in Payments : Moved(p) => TransitionGuard(p) /\ SettlementGuard(p)
       /\ \A t \in Txns : late'[t] # late[t] => LateGuard(t)
       /\ OnlyContradictionsRefused']_vars

\* The promise of PaymentOutcome: no attempt, crash or contradiction shows through it.
OutcomeNow ==
    [p \in Payments |->
        CASE payment[p].status \in Final -> payment[p].status
          [] payment[p].status = "closing" ->
                IF payment[p].reason = "cancel" THEN "cancelling" ELSE "expiring"
          [] OTHER -> "open"]
AnnouncedNow == [p \in Payments |-> [k \in Final |-> emitted[p][k]]]
BookedNow ==
    [t \in Txns |->
        IF late[t] # None
        THEN [use |-> "late", payment |-> PaymentOf(t)]
        ELSE IF \E p \in Payments : settledBy[p] = t
        THEN [use |-> "settled", payment |-> CHOOSE p \in Payments : settledBy[p] = t]
        ELSE [use |-> "none", payment |-> None]]
Outcome == INSTANCE PaymentOutcome WITH
    outcome <- OutcomeNow, announced <- AnnouncedNow, booked <- BookedNow

\* Every step is a step of PaymentOutcome or invisible to the producer (create,
\* cancel, applyStatus, the sweeper, the closing and late success writers).  It is
\* Outcome!Spec: a step that changes nothing the mapping reads is a stutter.
Mapped == <<payment, emitted, late, settledBy, fact, attempt>>
KeepsPromise == Outcome!Init /\ [][UNCHANGED Mapped \/ Outcome!Next \/ UNCHANGED Outcome!vars]_vars

\* "The provider's own rejection is definitive (F-3)": once start has the rejection of
\* an attempt, the attempt is not uncertain any more (T2 of start).
RejectionIsDefinitive ==
    \A a \in Attempts : call[a] = "rejected" => ~Uncertain(attempt[a])

=============================================================================
