---------------------------- MODULE RefundCases ----------------------------
(***************************************************************************)
(* billing-service: the refund of one personal purchase.  An Owner opens a *)
(* case, cancels it, or relays a receipt to Payment under a refund attempt *)
(* id Billing commits before it calls; Billing mirrors what Payment's      *)
(* answers prove, completes the case from Payment's completion, and a      *)
(* worker applies its effect once, beside the effect of a chargeback.  The *)
(* workers wait for the safety check every process runs when it starts.    *)
(*                                                                         *)
(* Abstractions.  Payment is what Billing may read of it: its refunds are  *)
(* RefundSettlement's; money never comes back after a failure, and         *)
(* `unauthorized' stands for authorization_refused and _expired,           *)
(* `submitted' for all from authorized to unknown, `succeeded' for         *)
(* discrepancy too.  A chargeback is of the whole payment.  The exposure   *)
(* to disputes is read before a transaction, so its answer may be of any   *)
(* time before, and no guard here rests on it.  An event may be delivered  *)
(* at any time and again, so it is what Payment holds.                     *)
(* MaxCaseFaults bounds lost calls, failed scans and restarts.             *)
(***************************************************************************)
EXTENDS Naturals, FiniteSets

CONSTANTS
    CaseIds,
    Relays,         \* refund attempt ids
    Requests,       \* the Owner's, handled at once
    Reconcilers,    \* passes of the relay reconciler
    MaxCaseFaults

ASSUME CaseAssumption ==
    /\ Requests \cap Reconcilers = {}
    /\ "none" \notin CaseIds \cup Relays
    /\ MaxCaseFaults \in Nat

VARIABLES
    purpose,        \* of the purchase
    kase,           \* refund_case
    relay,          \* refund_authorization_relay
    attempt,        \* Payment: each refund attempt or refusal
    returned,       \* Payment: the attempts whose authorization is complete
    lost,           \* Payment: a dispute of the payment is lost, with its chargeback
    hand,           \* what each request and pass is doing
    inFlight,       \* relays whose call may still reach Payment
    loss,           \* payment_dispute_loss
    effect,         \* refund_case_effect
    lossEffect,     \* dispute_loss_effect
    reversal,       \* subscription_purchase_reversal: the cause, at most one
    causes,         \* subscription_purchase_reversal_cause
    obligations,    \* cash_return_obligation rows of refunds
    gate, scan,     \* FinancialWorkerGate and the check under way
    moved,          \* Payment recorded something since the check began (history)
    caseFaults

paymentSide == <<attempt, returned, lost, moved>>
effects     == <<loss, effect, lossEffect, reversal, causes, obligations>>
check       == <<gate, scan>>
refundCaseVars == <<purpose, kase, relay, paymentSide, hand, inFlight, effects, check, caseFaults>>

Unconsumed   == {"unauthorized", "rejected"}
NotEffective == Unconsumed \cup {"failed"}
AttemptState == {"none", "pending", "submitted", "succeeded", "failed"} \cup Unconsumed

NoRelay == [case |-> "none", status |-> "none"]
Resting == [step |-> "idle", relay |-> "none", answer |-> "none"]
NoScan  == [step |-> "losses", lost |-> FALSE, mine |-> FALSE, relays |-> {}, completed |-> {}]

RefundCaseTypeOK ==
    /\ kase \in [CaseIds -> {"none", "open", "cancelled", "completed"}]
    /\ relay \in [Relays -> [case : CaseIds \cup {"none"}, status : AttemptState \cup {"unconfirmed"}]]
    /\ attempt \in [Relays -> AttemptState]
    /\ returned \subseteq Relays /\ inFlight \subseteq Relays
    /\ hand \in [Requests \cup Reconcilers ->
                   [step : {"idle", "call", "mirror"}, relay : Relays \cup {"none"}, answer : AttemptState]]
    /\ reversal \subseteq causes /\ Cardinality(reversal) <= 1
    /\ gate \in {"pending", "passed", "mismatch"}

\* the cases, relays and attempts there are, and the gate, are the instance's
NothingRefunded ==
    /\ returned = {} /\ lost = FALSE /\ moved = FALSE
    /\ hand = [x \in Requests \cup Reconcilers |-> Resting]
    /\ inFlight = {}
    /\ loss = FALSE /\ lossEffect = "none"
    /\ effect = [c \in CaseIds |-> "none"]
    /\ reversal = {} /\ causes = {} /\ obligations = 0
    /\ scan = NoScan

CaseFault == caseFaults < MaxCaseFaults /\ caseFaults' = caseFaults + 1
GoOn(x, step, r, a) == hand' = [hand EXCEPT ![x] = [step |-> step, relay |-> r, answer |-> a]]
Leave(x) == hand' = [hand EXCEPT ![x] = Resting]

-----------------------------------------------------------------------------
(* Payment *)

UnderWay(r) == attempt[r] \in {"pending", "submitted", "succeeded"}

\* PAY-07: a known attempt is answered as it is, a new one is refused for good or asks Auth
Handles(r, answer) ==
    /\ CASE attempt[r] = "none" -> \/ answer = "rejected"
                                   \/ /\ ~lost
                                      /\ \A s \in Relays \ {r} : ~UnderWay(s)
                                      /\ answer \in {"pending", "submitted", "unauthorized"}
         [] attempt[r] = "pending" -> answer \in {"pending", "submitted", "unauthorized"}
         [] OTHER -> answer = attempt[r]
    /\ attempt' = [attempt EXCEPT ![r] = answer]
    /\ moved' = (moved \/ (gate # "passed" /\ answer # attempt[r]))
    /\ UNCHANGED <<returned, lost>>

Arrive(r) ==
    /\ r \in inFlight
    /\ \E a \in AttemptState : Handles(r, a)
    /\ inFlight' = inFlight \ {r}
    /\ UNCHANGED <<purpose, kase, relay, hand, effects, check, caseFaults>>

Onward(status) ==
    CASE status = "pending"   -> {"submitted"}
      [] status = "submitted" -> {"succeeded", "failed"}
      [] OTHER                -> {}

GoesOn(r) ==
    /\ \E a \in Onward(attempt[r]) : /\ a = "failed" => r \notin returned
                                     /\ attempt' = [attempt EXCEPT ![r] = a]
    /\ moved' = (gate # "passed")
    /\ UNCHANGED <<returned, lost>>

AttemptMoves(r) == GoesOn(r) /\ UNCHANGED <<purpose, kase, relay, hand, inFlight, effects, check, caseFaults>>

\* all the money came back: refund.case_completed
Returns(r) ==
    /\ attempt[r] \in {"submitted", "succeeded"}
    /\ returned = {}
    /\ returned' = {r}
    /\ moved' = (gate # "passed")
    /\ UNCHANGED <<attempt, lost>>

ReturnAll(r) == Returns(r) /\ UNCHANGED <<purpose, kase, relay, hand, inFlight, effects, check, caseFaults>>

LoseDispute ==
    /\ ~lost
    /\ lost' = TRUE
    /\ moved' = (gate # "passed")
    /\ UNCHANGED <<purpose, kase, relay, attempt, returned, hand, inFlight, effects, check, caseFaults>>

-----------------------------------------------------------------------------
(* Cases *)

\* one live case of a payment, and a purchase that is not reversed
OpenCase(c) ==
    /\ kase[c] = "none"
    /\ reversal = {} /\ \A d \in CaseIds : kase[d] \notin {"open", "completed"}
    /\ kase' = [kase EXCEPT ![c] = "open"]
    /\ UNCHANGED <<purpose, relay, paymentSide, hand, inFlight, effects, check, caseFaults>>

RelaysOf(c) == {r \in Relays : relay[r].case = c}

Started_(c) == \E r \in RelaysOf(c) : relay[r].status \notin Unconsumed \cup {"unconfirmed"}
\* R6B-10: an unconfirmed relay is never treated as refused
Started(c)  == \E r \in RelaysOf(c) : relay[r].status \notin Unconsumed

CancelCase(c) ==
    /\ kase[c] = "open"
    /\ ~Started(c)
    /\ kase' = [kase EXCEPT ![c] = "cancelled"]
    /\ UNCHANGED <<purpose, relay, paymentSide, hand, inFlight, effects, check, caseFaults>>

-----------------------------------------------------------------------------
(* Relays *)

Effective(c) == \E r \in RelaysOf(c) : relay[r].status \notin NotEffective

NewRelays == {r \in Relays : relay[r] = NoRelay}

\* committed before Payment is called, under an id that was never used
InsertRelay(x, c) ==
    /\ hand[x] = Resting
    /\ kase[c] = "open" /\ ~Effective(c)
    /\ NewRelays # {}
    /\ LET r == CHOOSE r \in NewRelays : TRUE
       IN  /\ relay' = [relay EXCEPT ![r] = [case |-> c, status |-> "unconfirmed"]]
           /\ GoOn(x, "call", r, "none")
    /\ UNCHANGED <<purpose, kase, paymentSide, inFlight, effects, check, caseFaults>>

\* the same key resumes the relay: only what Payment has not decided is sent again
RetryRelay(x, r) ==
    /\ hand[x] = Resting
    /\ relay[r].status \in {"unconfirmed", "pending"}
    /\ GoOn(x, "call", r, "none")
    /\ UNCHANGED <<purpose, kase, relay, paymentSide, inFlight, effects, check, caseFaults>>

CallPayment(x) ==
    /\ hand[x].step = "call"
    /\ \E a \in AttemptState : /\ Handles(hand[x].relay, a)
                               /\ GoOn(x, "mirror", hand[x].relay, a)
    /\ UNCHANGED <<purpose, kase, relay, inFlight, effects, check, caseFaults>>

\* no answer proves nothing: the relay stays as it is, and the call may still arrive
CallLost(x) ==
    /\ hand[x].step = "call"
    /\ CaseFault
    /\ inFlight' = inFlight \cup {hand[x].relay}
    /\ Leave(x)
    /\ UNCHANGED <<purpose, kase, relay, paymentSide, effects, check>>

\* the reconciler reads PAY-08
Look(w, r) ==
    /\ hand[w] = Resting
    /\ relay[r] # NoRelay
    /\ relay[r].status \notin Unconsumed \cup {"succeeded"}
    /\ attempt[r] \notin {"none", relay[r].status}
    /\ GoOn(w, "mirror", r, attempt[r])
    /\ UNCHANGED <<purpose, kase, relay, paymentSide, inFlight, effects, check, caseFaults>>

Moves(from) ==
    CASE from = "pending"   -> {"unauthorized", "submitted", "succeeded", "failed"}
      [] from = "submitted" -> {"succeeded", "failed"}
      [] OTHER              -> {}

MayMirror(from, to) == from = "unconfirmed" \/ to \in Moves(from)

\* one conditional update; the database refuses a status the stored one cannot reach
Mirror(x) ==
    /\ hand[x].step = "mirror"
    /\ LET r == hand[x].relay IN
       relay' = IF MayMirror(relay[r].status, hand[x].answer) THEN [relay EXCEPT ![r].status = hand[x].answer] ELSE relay
    /\ Leave(x)
    /\ UNCHANGED <<purpose, kase, paymentSide, inFlight, effects, check, caseFaults>>

\* from the event or from PAY-08, once: the attempt is one Billing relayed for this case
CompleteCase(r) ==
    /\ r \in returned
    /\ relay[r] # NoRelay
    /\ kase[relay[r].case] = "open"
    /\ kase' = [kase EXCEPT ![relay[r].case] = "completed"]
    /\ UNCHANGED <<purpose, relay, paymentSide, hand, inFlight, effects, check, caseFaults>>

-----------------------------------------------------------------------------
(* Losses and effects *)

RecordLoss ==
    /\ lost /\ ~loss
    /\ loss' = TRUE
    /\ UNCHANGED <<purpose, kase, relay, paymentSide, hand, inFlight, effect, lossEffect, reversal, causes, obligations, check, caseFaults>>

\* a contradiction applies nothing and waits for review
Contradicts(c) ==
    CASE purpose = "direct"   -> reversal = {"refund_completion"}
      [] purpose = "assisted" -> reversal # {} \/ obligations > 0

ApplyRefundEffect(c) ==
    /\ gate = "passed"
    /\ kase[c] = "completed" /\ effect[c] = "none"
    /\ ~Contradicts(c)
    /\ effect' = [effect EXCEPT ![c] = IF reversal # {} THEN "already_reversed" ELSE "reversed_purchase"]
    /\ causes' = causes \cup {"refund_completion"}
    /\ reversal' = IF reversal = {} THEN {"refund_completion"} ELSE reversal
    /\ obligations' = IF purpose = "assisted" THEN obligations + 1 ELSE obligations
    /\ UNCHANGED <<purpose, kase, relay, paymentSide, hand, inFlight, loss, lossEffect, check, caseFaults>>

\* FC-4: an assisted purchase keeps its entitlement
Reverses(p) == p = "direct"

ApplyLossEffect ==
    /\ gate = "passed"
    /\ loss /\ lossEffect = "none"
    /\ IF Reverses(purpose)
       THEN /\ lossEffect' = IF reversal # {} THEN "already_reversed" ELSE "reversed_purchase"
            /\ causes' = causes \cup {"final_lost_chargeback"}
            /\ reversal' = IF reversal = {} THEN {"final_lost_chargeback"} ELSE reversal
       ELSE lossEffect' = "assisted_purchase_preserved" /\ UNCHANGED <<causes, reversal>>
    /\ UNCHANGED <<purpose, kase, relay, paymentSide, hand, inFlight, loss, effect, obligations, check, caseFaults>>

-----------------------------------------------------------------------------
(* The safety check: reads one after the other, while everything else goes on *)

ScanStep(from, next) ==
    /\ gate = "pending" /\ scan.step = from
    /\ scan' = next
    /\ UNCHANGED <<purpose, kase, relay, attempt, returned, lost, hand, inFlight, effects, gate, caseFaults>>

ReadPaymentLosses ==
    /\ ScanStep("losses", [NoScan EXCEPT !.step = "mirror", !.lost = lost])
    /\ moved' = FALSE

ReadBillingLosses ==
    ScanStep("mirror", [scan EXCEPT !.step = "relays", !.mine = loss]) /\ UNCHANGED moved

\* the relays, then the completed cases
ReadRelays ==
    /\ ScanStep("relays", [scan EXCEPT !.step = "compare", !.completed = {c \in CaseIds : kase[c] = "completed"},
                              !.relays = {[id |-> r, status |-> relay[r].status] : r \in Relays \ NewRelays}])
    /\ UNCHANGED moved

\* paymentNotBehind()
Reaches(from, to) == from = to \/ to \in Moves(from)

\* compareRefunds(): Billing must not be ahead of what PAY-08 answers
Ahead(s) ==
    CASE s.status = "unconfirmed" -> FALSE
      [] s.status = "rejected"    -> attempt[s.id] = "none"
      [] OTHER                    -> ~Reaches(s.status, attempt[s.id])

Mismatches ==
    \/ scan.mine /\ ~scan.lost
    \/ /\ scan.mine \/ scan.relays # {} \/ scan.completed # {}
       /\ \/ \E r \in Relays : attempt[r] \notin {"none", "rejected"} /\ \A s \in scan.relays : s.id # r
          \/ \E s \in scan.relays : Ahead(s)
          \/ \E c \in scan.completed : \A r \in returned : relay[r].case # c

CompareRefunds ==
    /\ gate = "pending" /\ scan.step = "compare"
    /\ gate' = IF Mismatches THEN "mismatch" ELSE "passed"
    /\ scan' = NoScan
    /\ moved' = (Mismatches /\ moved)
    /\ UNCHANGED <<purpose, kase, relay, attempt, returned, lost, hand, inFlight, effects, caseFaults>>

\* Payment does not answer, or the budget is spent: the scan starts again
ScanFails ==
    /\ gate = "pending" /\ scan.step # "losses"
    /\ CaseFault
    /\ scan' = NoScan
    /\ UNCHANGED <<purpose, kase, relay, paymentSide, hand, inFlight, effects, gate>>

Restart ==
    /\ CaseFault
    /\ gate' = "pending" /\ scan' = NoScan
    /\ hand' = [x \in Requests \cup Reconcilers |-> Resting]
    /\ UNCHANGED <<purpose, kase, relay, paymentSide, inFlight, effects>>

Scan == ReadPaymentLosses \/ ReadBillingLosses \/ ReadRelays \/ CompareRefunds

RefundCaseNext ==
    \/ \E r \in Relays : Arrive(r) \/ AttemptMoves(r) \/ ReturnAll(r) \/ CompleteCase(r)
    \/ LoseDispute
    \/ \E c \in CaseIds : OpenCase(c) \/ CancelCase(c) \/ ApplyRefundEffect(c)
    \/ \E x \in Requests : \/ CallPayment(x) \/ CallLost(x)
                           \/ \E r \in Relays : RetryRelay(x, r)
                           \/ \E c \in CaseIds : InsertRelay(x, c)
    \/ \E w \in Reconcilers, r \in Relays : Look(w, r)
    \/ \E x \in Requests \cup Reconcilers : Mirror(x)
    \/ RecordLoss \/ ApplyLossEffect
    \/ Scan \/ ScanFails \/ Restart

\* a new purchase, and a process that starts
RefundCaseInit ==
    /\ NothingRefunded
    /\ purpose \in {"direct", "assisted"}
    /\ kase = [c \in CaseIds |-> "none"]
    /\ relay = [r \in Relays |-> NoRelay]
    /\ attempt = [r \in Relays |-> "none"]
    /\ gate = "pending" /\ caseFaults = 0

RefundCaseSpec == RefundCaseInit /\ [][RefundCaseNext]_refundCaseVars

\* the event is redelivered and PAY-08 read again, the workers poll, the check is retried
RefundCaseFairness ==
    /\ \A r \in Relays : WF_refundCaseVars(CompleteCase(r))
    /\ \A c \in CaseIds : WF_refundCaseVars(ApplyRefundEffect(c))
    /\ WF_refundCaseVars(RecordLoss) /\ WF_refundCaseVars(ApplyLossEffect)
    /\ WF_refundCaseVars(Scan)

-----------------------------------------------------------------------------
(* Properties *)

\* Nothing is or will be returned for a case Billing let its Owner cancel (cancel, R6B-10)
CancelledIsUnrefunded ==
    \A r \in Relays : relay[r] # NoRelay /\ kase[relay[r].case] = "cancelled" => attempt[r] \in Unconsumed

\* Late and stale answers included, Billing never says more of an attempt than Payment does, and one
\* attempt of a case at most may still return money (mirror, refund_authorization_relay_one_live)
MirrorTrails ==
    /\ \A r \in Relays : relay[r].status \notin {"none", "unconfirmed"} => Reaches(relay[r].status, attempt[r])
    /\ \A r, s \in Relays : /\ relay[r] # NoRelay /\ relay[s].case = relay[r].case
                            /\ {relay[r].status, relay[s].status} \cap NotEffective = {}
                            => r = s

\* Every completed case can take its effect: no case of the payment, and no chargeback, has taken what
\* it must reverse or open (R6D-6: a contradiction would wait for review for ever)
NothingContradicts == \A c \in CaseIds : kase[c] = "completed" /\ effect[c] = "none" => ~Contradicts(c)

\* Without a restore, the check finds a mismatch only in what Payment recorded while it was reading
MismatchMeansMoved == gate = "mismatch" => moved

RefundCasesSound == CancelledIsUnrefunded /\ MirrorTrails /\ NothingContradicts /\ MismatchMeansMoved

\* Money returned for a case has completed it, and while the gate is open every completed case and
\* every lost dispute has taken its effect (completeFromPayment(), the effect workers)
EffectsTaken ==
    /\ \A r \in returned : kase[relay[r].case] = "completed"
    /\ \/ gate = "mismatch"
       \/ /\ \A c \in CaseIds : kase[c] = "completed" => effect[c] # "none"
          /\ lost => lossEffect # "none"
=============================================================================
