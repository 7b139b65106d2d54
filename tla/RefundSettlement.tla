-------------------------- MODULE RefundSettlement --------------------------
(***************************************************************************)
(* payment-service: refunds of one settled payment.  A request leaves a    *)
(* durable intent and spends an Owner's receipt at Auth; the worker sends  *)
(* the intent to the provider under one key; what the provider reports     *)
(* becomes facts, and each fact is allocated to the authorization it       *)
(* belongs to.  Every action is one transaction, or one call to Auth or    *)
(* to the provider.                                                        *)
(*                                                                         *)
(* Abstractions.  The captures are of different attempts; Settling is the  *)
(* payment's own.  A refund case is one capture, returned by the payment's *)
(* ordinary refund or on its own.  What disputes expose is WebhookIntake's *)
(* and an input here.  Every capture is Full units, and no provider is     *)
(* permitted to refund one of two captures of an attempt.  The worker's    *)
(* lease may always have lapsed, so two workers may hold one attempt.      *)
(* Auth and the provider are external: Auth spends a receipt once, for the *)
(* reference that came first; the provider knows a refund by its key and   *)
(* never returns money after it reported a failure.  MaxReports bounds     *)
(* what the provider reports, MaxRefundFaults lost answers and crashes.    *)
(***************************************************************************)
EXTENDS Naturals, FiniteSets

CONSTANTS
    Captures,        \* verified captures of the payment
    Settling,        \* the one its success rests on
    Refunds,         \* refund attempt ids Billing may use
    Receipts,        \* Owner receipts, each issued for one case
    Movements,       \* provider references of money returned
    Full,            \* the amount of a capture
    Amounts,         \* the amounts the provider may report
    MaxReports,
    Askers,          \* requests handled at once
    Workers,         \* service instances, each with one refund worker
    MaxRefundFaults

ASSUME RefundAssumption ==
    /\ Settling \in Captures
    /\ Full \in Nat \ {0}
    /\ Amounts \subseteq Nat \ {0}
    /\ MaxReports \in Nat
    /\ MaxRefundFaults \in Nat
    /\ Askers \cap Workers = {}
    /\ "none" \notin Captures \cup Refunds \cup Receipts

VARIABLES
    covers,       \* the case each receipt was issued for
    receipt,      \* Auth: what became of each receipt
    wire,         \* consumptions whose caller gave up and that may still arrive
    standing,     \* what Payment knows against each capture
    refund,       \* refund_attempt and refund_attempt_refusal rows
    authority,    \* refund_authorization rows
    atProvider,   \* what the provider did under each refund's key
    reports,      \* what it has reported, in notifications and answers
    fact,         \* refund facts
    allocation,   \* refund_allocation and refund_fact_allocation_block rows
    completions,  \* refund.case_completed events
    work,         \* what each request and each worker is doing
    reportsMade, refundFaults

evidence   == <<reports, reportsMade, fact, allocation, completions>>
refundVars == <<covers, receipt, wire, standing, refund, authority, atProvider,
                evidence, work, refundFaults>>

-----------------------------------------------------------------------------
(* Rows *)

Cases      == {k \in [capture : Captures, specific : BOOLEAN] : k.specific \/ k.capture = Settling}
Unspent    == {"authorization_refused", "authorization_expired"}
InFlight   == {"dispatching", "submitted", "unknown"}
Ended      == Unspent \cup {"succeeded", "failed", "discrepancy"}
RefundStatus == InFlight \cup Ended \cup {"none", "refused", "authorization_pending", "authorized"}
RefundRow  == [status : RefundStatus, case : Cases, receipt : Receipts \cup {"none"}]
Report     == [refund : Refunds, movement : Movements, amount : Amounts]
FactRow    == [refund : Refunds \cup {"none"}, amount : {0} \cup Amounts, contested : BOOLEAN]
Steps      == {"idle", "consume", "lookup", "commit", "recover", "dispatch", "call", "fetch", "store"}
Work       == [step : Steps, refund : Refunds \cup {"none"},
               answer : {"none", "authorized", "accepted", "rejected", "ambiguous"} \cup Unspent]

AtRest == [step |-> "idle", refund |-> "none", answer |-> "none"]

RefundTypeOK ==
    /\ covers \in [Receipts -> Cases]
    /\ receipt \in [Receipts -> [state : {"issued", "consumed", "expired", "voided"},
                                 by : Refunds \cup {"none"}]]
    /\ wire \subseteq Receipts \X Refunds
    /\ standing \in [Captures -> {"sound", "sibling", "contested"}]
    /\ refund \in [Refunds -> RefundRow]
    /\ authority \in [Refunds -> [given : BOOLEAN, allocated : 0..Full, completed : BOOLEAN]]
    /\ atProvider \in [Refunds -> {"none", "accepted", "returned", "failed"}]
    /\ reports \subseteq Report
    /\ fact \in [Movements -> FactRow]
    /\ allocation \in [Movements -> [state : {"none", "blocked", "made"}, intended : 0..Full]]
    /\ completions \in [Refunds -> Nat]
    /\ work \in [Askers \cup Workers -> Work]
    /\ reportsMade \in 0..MaxReports
    /\ refundFaults \in 0..MaxRefundFaults

RefundInit ==
    /\ covers \in [Receipts -> Cases]
    /\ receipt = [k \in Receipts |-> [state |-> "issued", by |-> "none"]]
    /\ wire = {}
    /\ standing = [c \in Captures |-> "sound"]
    /\ refund = [r \in Refunds |-> [status |-> "none", receipt |-> "none",
                                    case |-> [capture |-> Settling, specific |-> FALSE]]]
    /\ authority = [r \in Refunds |-> [given |-> FALSE, allocated |-> 0, completed |-> FALSE]]
    /\ atProvider = [r \in Refunds |-> "none"]
    /\ reports = {}
    /\ fact = [m \in Movements |-> [refund |-> "none", amount |-> 0, contested |-> FALSE]]
    /\ allocation = [m \in Movements |-> [state |-> "none", intended |-> 0]]
    /\ completions = [r \in Refunds |-> 0]
    /\ work = [p \in Askers \cup Workers |-> AtRest]
    /\ reportsMade = 0
    /\ refundFaults = 0

RefundFault  == refundFaults < MaxRefundFaults /\ refundFaults' = refundFaults + 1
SetStatus(r, status) == refund' = [refund EXCEPT ![r].status = status]
Go(p, step, answer)  == work' = [work EXCEPT ![p].step = step, ![p].answer = answer]
Rest(p)              == work' = [work EXCEPT ![p] = AtRest]

-----------------------------------------------------------------------------
(* Outside: further captures, receipts that end, the provider *)

Doubt(c) ==
    /\ standing[c] = "sound"
    /\ \E k \in {"sibling", "contested"} : standing' = [standing EXCEPT ![c] = k]
    /\ UNCHANGED <<covers, receipt, wire, refund, authority, atProvider, evidence, work, refundFaults>>

ReceiptEnds(k) ==
    /\ receipt[k].state = "issued"
    /\ \E end \in {"expired", "voided"} : receipt' = [receipt EXCEPT ![k].state = end]
    /\ UNCHANGED <<covers, wire, standing, refund, authority, atProvider, evidence, work,
                   refundFaults>>

\* the provider returns money, in one or more movements, reports it, perhaps wrongly, or fails
ReturnMoney(r, m, n) ==
    /\ atProvider[r] \in {"accepted", "returned"}
    /\ reportsMade < MaxReports
    /\ reportsMade' = reportsMade + 1
    /\ \A s \in reports : s.movement = m => s.refund = r
    /\ atProvider' = [atProvider EXCEPT ![r] = "returned"]
    /\ reports' = reports \cup {[refund |-> r, movement |-> m, amount |-> n]}
    /\ UNCHANGED <<covers, receipt, wire, standing, refund, authority, fact, allocation,
                   completions, work, refundFaults>>

FailToReturn(r) ==
    /\ atProvider[r] = "accepted"
    /\ atProvider' = [atProvider EXCEPT ![r] = "failed"]
    /\ UNCHANGED <<covers, receipt, wire, standing, refund, authority, evidence, work,
                   refundFaults>>

-----------------------------------------------------------------------------
(* The request: an intent, then its authorization *)

OnCapture(c) == {r \in Refunds : refund[r].status \notin {"none", "refused"} /\ refund[r].case.capture = c}
Live_(r)     == refund[r].status \in InFlight \cup {"succeeded", "discrepancy"}
Live(r)      == refund[r].status \notin Unspent \cup {"failed"}
HasEvidence(r) == \E m \in Movements : fact[m].refund = r

\* verify, verifyCapture: refused for good.  An ordinary refund is on the settling capture.
Refusable(c, exposure) ==
    \/ standing[c] # "sound"
    \/ exposure = "exposed"
    \/ \E r \in OnCapture(c) : Live(r) \/ HasEvidence(r) \/ authority[r].completed

\* nothing is written while the exposure of the payment to disputes is unresolved
Request(p, r, case, k, exposure) ==
    /\ work[p].step = "idle"
    /\ refund[r].status = "none"
    /\ IF Refusable(case.capture, exposure)
       THEN SetStatus(r, "refused") /\ UNCHANGED work
       ELSE /\ refund' = [refund EXCEPT ![r] = [status |-> "authorization_pending", case |-> case,
                                                receipt |-> k]]
            /\ work' = [work EXCEPT ![p] = [AtRest EXCEPT !.step = "consume", !.refund = r]]
    /\ UNCHANGED <<covers, receipt, wire, standing, authority, atProvider, evidence,
                   refundFaults>>

\* the same request again, with the same receipt
RequestAgain(p, r) ==
    /\ work[p].step = "idle"
    /\ refund[r].status = "authorization_pending"
    /\ work' = [work EXCEPT ![p] = [AtRest EXCEPT !.step = "consume", !.refund = r]]
    /\ UNCHANGED <<covers, receipt, wire, standing, refund, authority, atProvider,
                   evidence, refundFaults>>

SpentBy(r)          == \E k \in Receipts : receipt[k].state = "consumed" /\ receipt[k].by = r
Matches(k, r)       == covers[k] = refund[r].case
Consumable(k, r)    == receipt[k].state = "issued" /\ Matches(k, r)
AuthConsumes(k, r)  ==
    receipt' = IF Consumable(k, r) THEN [receipt EXCEPT ![k] = [state |-> "consumed", by |-> r]]
               ELSE receipt

\* Auth's answer: consumed for this reference, never consumable, or nothing that proves anything
Answer(k, r) ==
    CASE Matches(k, r) /\ receipt[k].state = "issued"  -> "authorized"
      [] Matches(k, r) /\ receipt[k].state = "consumed" /\ receipt[k].by = r -> "authorized"
      [] Matches(k, r) /\ receipt[k].state = "consumed" /\ receipt[k].by # r -> "none"
      [] Matches(k, r) /\ receipt[k].state = "expired" -> "authorization_expired"
      [] OTHER -> "authorization_refused"

\* ambiguousWithoutPermission: a capture of its own whose attempt has another by now
Ambiguous(r) == refund[r].case.specific /\ standing[refund[r].case.capture] = "sibling"

Consume(p) ==
    /\ work[p].step = "consume"
    /\ LET r == work[p].refund  k == refund[r].receipt IN
       \/ /\ Ambiguous(r)
          /\ Go(p, "commit", IF SpentBy(r) THEN "authorized" ELSE "authorization_refused")
          /\ UNCHANGED receipt
       \/ /\ ~ Ambiguous(r)
          /\ AuthConsumes(k, r)
          /\ Go(p, IF Answer(k, r) = "none" THEN "lookup" ELSE "commit", Answer(k, r))
    /\ UNCHANGED <<covers, wire, standing, refund, authority, atProvider, evidence,
                   refundFaults>>

\* no answer: the call may have reached Auth, may still reach it, or never will
LoseConsumption(p) ==
    /\ work[p].step = "consume"
    /\ RefundFault
    /\ LET r == work[p].refund  k == refund[r].receipt IN
       IF Ambiguous(r) THEN Rest(p) /\ UNCHANGED wire
       ELSE Go(p, "lookup", "none") /\ wire' = wire \cup {<<k, r>>}
    /\ UNCHANGED <<covers, receipt, standing, refund, authority, atProvider, evidence>>

ConsumptionArrives(k, r) ==
    /\ <<k, r>> \in wire
    /\ wire' = wire \ {<<k, r>>}
    /\ AuthConsumes(k, r)
    /\ UNCHANGED <<covers, standing, refund, authority, atProvider, evidence, work,
                   refundFaults>>

\* only a consumption found under this reference authorizes; its absence proves nothing
LookUp(p) ==
    /\ work[p].step = "lookup"
    /\ IF SpentBy(work[p].refund) THEN Go(p, "commit", "authorized") ELSE Rest(p)
    /\ UNCHANGED <<covers, receipt, wire, standing, refund, authority, atProvider,
                   evidence, refundFaults>>

CommitAuthorized(r) ==
    IF refund[r].status = "authorization_pending"
    THEN /\ SetStatus(r, "authorized")
         /\ authority' = [authority EXCEPT ![r].given = TRUE]
    ELSE UNCHANGED <<refund, authority>>

CommitUnauthorized(r, status) ==
    /\ IF refund[r].status = "authorization_pending" THEN SetStatus(r, status) ELSE UNCHANGED refund
    /\ UNCHANGED authority

Commit(p) ==
    /\ work[p].step = "commit"
    /\ IF work[p].answer = "authorized" THEN CommitAuthorized(work[p].refund)
       ELSE CommitUnauthorized(work[p].refund, work[p].answer)
    /\ Rest(p)
    /\ UNCHANGED <<covers, receipt, wire, standing, atProvider, evidence, refundFaults>>

-----------------------------------------------------------------------------
(* The worker *)

StepFor(status) ==
    CASE status = "authorization_pending"          -> "recover"
      [] status \in {"authorized", "dispatching"}  -> "dispatch"
      [] status \in {"unknown", "submitted"}       -> "fetch"

\* one row of the scan, claimed in the state it was seen in
Take(w, r) ==
    /\ work[w].step = "idle"
    /\ refund[r].status \in InFlight \cup {"authorization_pending", "authorized"}
    /\ work' = [work EXCEPT ![w] = [AtRest EXCEPT !.step = StepFor(refund[r].status), !.refund = r]]
    /\ UNCHANGED <<covers, receipt, wire, standing, refund, authority, atProvider,
                   evidence, refundFaults>>

RecoverAuthorization(w) ==
    /\ work[w].step = "recover"
    /\ IF SpentBy(work[w].refund) THEN CommitAuthorized(work[w].refund)
       ELSE UNCHANGED <<refund, authority>>
    /\ Rest(w)
    /\ UNCHANGED <<covers, receipt, wire, standing, atProvider, evidence, refundFaults>>

\* `dispatching' is committed before the provider can learn the key.  A row seen as
\* dispatching is sent again without a look at what it is now.
Dispatch(w) ==
    /\ work[w].step = "dispatch"
    /\ LET r == work[w].refund IN
       IF refund[r].status = "authorized" THEN SetStatus(r, "dispatching") ELSE UNCHANGED refund
    /\ Go(w, "call", "none")
    /\ UNCHANGED <<covers, receipt, wire, standing, authority, atProvider, evidence,
                   refundFaults>>

\* the same key is the same refund: the first call decides, every later one gets its answer
Call(w) ==
    /\ work[w].step = "call"
    /\ LET r == work[w].refund IN
       /\ \E k \in IF atProvider[r] = "none" THEN {"accepted", "failed"} ELSE {atProvider[r]} :
             /\ atProvider' = [atProvider EXCEPT ![r] = k]
             /\ \/ /\ Go(w, "store", IF k = "failed" THEN "rejected" ELSE "accepted")
                   /\ UNCHANGED refundFaults
                \/ Go(w, "store", "ambiguous") /\ RefundFault
    /\ UNCHANGED <<covers, receipt, wire, standing, refund, authority, evidence>>

\* the call never reached the provider
LoseCall(w) ==
    /\ work[w].step = "call"
    /\ RefundFault
    /\ Go(w, "store", "ambiguous")
    /\ UNCHANGED <<covers, receipt, wire, standing, refund, authority, atProvider, evidence>>

\* evidence that got there first wins
Store(w) ==
    /\ work[w].step = "store"
    /\ LET r == work[w].refund  seen == refund[r].status IN
       CASE seen \in {"dispatching", "unknown"} /\ work[w].answer = "accepted" -> SetStatus(r, "submitted")
         [] seen \in {"dispatching", "unknown"} /\ work[w].answer = "rejected" -> SetStatus(r, "failed")
         [] seen = "dispatching" /\ work[w].answer = "ambiguous" -> SetStatus(r, "unknown")
         [] OTHER -> UNCHANGED refund
    /\ Rest(w)
    /\ UNCHANGED <<covers, receipt, wire, standing, authority, atProvider, evidence,
                   refundFaults>>

ApplyFailure_(r) ==
    IF refund[r].status = "submitted" THEN SetStatus(r, "failed") ELSE UNCHANGED refund

ApplyFailure(r) ==
    IF refund[r].status \in InFlight THEN SetStatus(r, "failed") ELSE UNCHANGED refund

\* the provider is asked: an unknown key of an unknown attempt is sent again, a failure
\* is applied, money returned is evidence (below), anything else waits
Fetch(w) ==
    /\ work[w].step = "fetch"
    /\ LET r == work[w].refund IN
       /\ IF atProvider[r] = "failed" THEN ApplyFailure(r) ELSE UNCHANGED refund
       /\ IF atProvider[r] = "none" /\ refund[r].status = "unknown" THEN Go(w, "call", "none") ELSE Rest(w)
    /\ UNCHANGED <<covers, receipt, wire, standing, authority, atProvider, evidence,
                   refundFaults>>

\* the process dies with what it was doing
StopWork(p) ==
    /\ work[p].step # "idle"
    /\ RefundFault
    /\ Rest(p)
    /\ UNCHANGED <<covers, receipt, wire, standing, refund, authority, atProvider, evidence>>

-----------------------------------------------------------------------------
(* Evidence, from a notification or an answer *)

\* a failure the provider notifies
NotifiedFailure(r) ==
    /\ atProvider[r] = "failed"
    /\ refund[r].status \in InFlight
    /\ ApplyFailure(r)
    /\ UNCHANGED <<covers, receipt, wire, standing, authority, atProvider, evidence, work,
                   refundFaults>>

\* the movement as an immutable fact; the same reference with another amount contests it
RecordRefundFact(s) ==
    /\ s \in reports
    /\ LET f == fact[s.movement] IN
       /\ f.refund = "none" \/ (f.amount # s.amount /\ ~ f.contested)
       /\ fact' = [fact EXCEPT ![s.movement] =
                     IF f.refund = "none" THEN [refund |-> s.refund, amount |-> s.amount, contested |-> FALSE]
                     ELSE [f EXCEPT !.contested = TRUE]]
    /\ UNCHANGED <<covers, receipt, wire, standing, refund, authority, atProvider, reports,
                   reportsMade, allocation, completions, work, refundFaults>>

\* a full refund that nothing contradicts succeeds; any other evidence is a discrepancy
Exact(s) == s.amount = Full /\ fact[s.movement].amount = Full
ApplyEvidence(s) ==
    /\ s \in reports
    /\ fact[s.movement].refund = s.refund
    /\ fact[s.movement].amount = s.amount \/ fact[s.movement].contested
    /\ LET r == s.refund IN
       \/ refund[r].status \in InFlight /\ Exact(s) /\ SetStatus(r, "succeeded")
       \/ refund[r].status \in InFlight \cup {"failed"} /\ ~ Exact(s) /\ SetStatus(r, "discrepancy")
       \/ refund[r].status = "failed" /\ Exact(s) /\ SetStatus(r, "discrepancy")
    /\ UNCHANGED <<covers, receipt, wire, standing, authority, atProvider, evidence, work,
                   refundFaults>>

SmallerOf(m, n) == IF m < n THEN m ELSE n

\* V-3: the case or the payment is complete, through any authorization
Done(r) == \E z \in Refunds : authority[z].completed

Intended_(m) == SmallerOf(fact[m].amount, Full)

\* V-1: never more than the authorization still has to take
Intended(m) ==
    LET r == fact[m].refund IN
    SmallerOf(fact[m].amount, IF Done(r) THEN 0 ELSE Full - authority[r].allocated)

\* under the payment's lock, in the worker's pass or right after the evidence; a failure
\* leaves the fact pending
Allocate(m) ==
    /\ fact[m].refund # "none" /\ allocation[m].state = "none"
    /\ LET r == fact[m].refund
           completes == Intended(m) > 0 /\ authority[r].allocated + Intended(m) = Full
       IN
       IF ~ authority[r].given \/ fact[m].contested
       THEN /\ allocation' = [allocation EXCEPT ![m].state = "blocked"]
            /\ UNCHANGED <<authority, completions>>
       ELSE /\ allocation' = [allocation EXCEPT ![m] = [state |-> "made", intended |-> Intended(m)]]
            /\ authority' = [authority EXCEPT ![r].allocated = @ + Intended(m),
                                              ![r].completed = @ \/ completes]
            /\ completions' = [completions EXCEPT ![r] = IF completes THEN @ + 1 ELSE @]
    /\ UNCHANGED <<covers, receipt, wire, standing, refund, atProvider, reports,
                   reportsMade, fact, work, refundFaults>>

-----------------------------------------------------------------------------

RefundNext ==
    \/ \E c \in Captures : Doubt(c)
    \/ \E k \in Receipts : ReceiptEnds(k) \/ \E r \in Refunds : ConsumptionArrives(k, r)
    \/ \E r \in Refunds : \/ FailToReturn(r) \/ NotifiedFailure(r)
                          \/ \E m \in Movements, n \in Amounts : ReturnMoney(r, m, n)
    \/ \E p \in Askers : \/ Consume(p) \/ LoseConsumption(p) \/ LookUp(p) \/ Commit(p)
                         \/ \E r \in Refunds : \/ RequestAgain(p, r)
                                               \/ \E c \in Cases, k \in Receipts, e \in {"clear", "exposed"} :
                                                     Request(p, r, c, k, e)
    \/ \E w \in Workers : \/ RecoverAuthorization(w) \/ Dispatch(w) \/ Call(w) \/ LoseCall(w)
                          \/ Store(w) \/ Fetch(w) \/ \E r \in Refunds : Take(w, r)
    \/ \E p \in Askers \cup Workers : StopWork(p)
    \/ \E s \in reports : RecordRefundFact(s) \/ ApplyEvidence(s)
    \/ \E m \in Movements : Allocate(m)

RefundSpec == RefundInit /\ [][RefundNext]_refundVars

\* The worker's loop runs again after every pass and takes every due row in turn; it
\* asks the provider, so what was returned is observed even when no notification comes.
RefundFairness ==
    /\ \A w \in Workers :
          /\ WF_refundVars(RecoverAuthorization(w) \/ Dispatch(w) \/ Call(w) \/ Store(w) \/ Fetch(w))
          /\ \A r \in Refunds : SF_refundVars(Take(w, r))
    /\ WF_refundVars(\E s \in reports : RecordRefundFact(s))
    /\ WF_refundVars(\E s \in reports : ApplyEvidence(s))
    /\ WF_refundVars(\E m \in Movements : Allocate(m))

-----------------------------------------------------------------------------
(* Properties *)

\* No captured money is returned twice: of all refunds of one capture, ordinary or
\* on its own, at most one is with the provider or done there, whatever answers were
\* lost, however many workers hold an attempt, and also when one that failed was
\* requested anew; and it is there on a receipt spent for exactly that
\* (PAY-07, R6B-2, R6H-5; verify, authorize, dispatch).
ReturnedOnce ==
    \A c \in Captures :
       LET sent == {r \in OnCapture(c) : atProvider[r] # "none"} IN
       /\ Cardinality({r \in sent : atProvider[r] # "failed"}) <= 1
       /\ \A r \in sent : \E k \in Receipts : /\ receipt[k] = [state |-> "consumed", by |-> r]
                                              /\ covers[k] = refund[r].case

\* what has come back of a refund, unit by unit
Units(r) == {u \in Movements \X (1..Full) : fact[u[1]].refund = r /\ u[2] <= allocation[u[1]].intended}

\* What is allocated is accounted for: the counter is the sum of its allocations and
\* never above what the Owner approved; a case is announced complete exactly once,
\* when all of it came back, and a capture is completed by one refund only (FC-2,
\* FC-3, V-3; allocate, two facts of one payment concurrently).
AllocatedOnce ==
    /\ \A r \in Refunds :
          /\ authority[r].allocated = Cardinality(Units(r))
          /\ authority[r].completed <=> authority[r].allocated = Full
          /\ completions[r] = IF authority[r].completed THEN 1 ELSE 0
          /\ authority[r].given => SpentBy(r)
    /\ \A r, z \in Refunds :
          authority[r].completed /\ authority[z].completed
             /\ refund[r].case.capture = refund[z].case.capture => r = z

\* Both: money goes back once, and what Billing is told of it adds up.
RefundsSound == ReturnedOnce /\ AllocatedOnce

\* A refund does not hang on something Payment could know: a receipt that Auth spent
\* is found although the answer never came, and what the provider did is learned
\* (F-11; recoverAuthorization, the worker's fetch).
Hangs(r) ==
    \/ SpentBy(r) /\ refund[r].status = "authorization_pending"
    \/ atProvider[r] \in {"returned", "failed"} /\ refund[r].status \notin Ended
NothingHangs == \A r \in Refunds : ~ Hangs(r)

\* "the sale's ordinary refund and the other capture's refund run independently": a
\* refund that succeeded in full, whose fact is allocated, completes its case.
CapturesCompleteAlone ==
    \A m \in Movements :
       LET r == fact[m].refund IN
       r # "none" /\ allocation[m].state = "made" /\ refund[r].status = "succeeded"
          /\ fact[m].amount = Full => authority[r].completed
=============================================================================
