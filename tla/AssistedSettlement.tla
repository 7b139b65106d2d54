------------------------- MODULE AssistedSettlement -------------------------
(***************************************************************************)
(* billing-service: the electronic settlement of cash an Organization      *)
(* collected for one assisted purchase, and its ends: a purchase from the  *)
(* channel's payment, a cash return once the deadline passed with no       *)
(* settlement, or a purchase applied later by an Owner from money Payment  *)
(* captured after the payment had ended.  Such a late capture is recorded, *)
(* classified, and sold, refunded or lost to a chargeback, once.           *)
(*                                                                         *)
(* Abstractions.  A request to Payment is InvoiceSettlement's: `failed'    *)
(* stands for failed, cancelled and expired, and `rejected' for a request  *)
(* that ended without a payment.  Each late capture is of an attempt of    *)
(* its own, and a chargeback is of a whole capture.  What Payment answers  *)
(* before a transaction (exposure to disputes, evidence of a capture) may  *)
(* be of any time before, and no guard here rests on it.  A refund relay   *)
(* is RefundCases'; `refused' is one Payment proved ended unconsumed.  The *)
(* refund of what was sold is RefundCases' too.  What only refuses a       *)
(* decision, or a confirmation, is left out: its files, an open assistance *)
(* dispute and a contrary attestation of the beneficiary.  So are          *)
(* restrictions, corrections and recovery.                                 *)
(***************************************************************************)
EXTENDS Naturals, FiniteSets

CONSTANTS
    Channels,       \* assistance_settlement_channel ids, each with its invoice, request and payment
    Lates,          \* captures Payment records after their payment ended without a success
    MaxParts        \* bound: channels and late captures together

ASSUME AssistanceAssumption ==
    /\ Channels \cap Lates = {}
    /\ {"none", "success", "payment"} \cap (Channels \cup Lates) = {}
    /\ MaxParts \in Nat

VARIABLES
    assistance,     \* assistance_request: its status
    past,           \* settleBy is past
    channel,        \* each channel, its payment request and Payment's payment
    owed,           \* cash_return_obligation
    late,           \* payment_late_success: what became of each late capture at Billing
    held,           \* assistance_late_settlement of each channel: its evidence
    matter,         \* reconciliation_case of each late capture, and its resolution
    refunding,      \* refund_case of each late capture: own when it is its late settlement's
    charged,        \* payment_dispute_loss: late captures lost to a chargeback
    consumed,       \* late settlements whose receipt Auth consumed
    bought          \* subscription_purchase: each channel with the evidence it was bought on

assistanceSide == <<assistance, past, owed>>
captureSide    == <<late, matter, refunding, charged>>
decisionSide   == <<held, consumed, bought>>
assistedVars   == <<assistanceSide, channel, captureSide, decisionSide>>

ActiveChannel == {"open", "uncertain"}
NoChannel     == [status |-> "none", request |-> "none", payment |-> "none"]
NotCaptured   == [step |-> "none", channel |-> "none", equal |-> FALSE]
NoCaseYet     == [case |-> "none", relay |-> "none", own |-> FALSE]
NoMatter      == [type |-> "none", end |-> "open"]

AssistedTypeOK ==
    /\ assistance \in {"pending", "declined", "cash_collected", "settled", "returned"}
    /\ channel \in [Channels -> [status : {"none", "open", "uncertain", "settled", "closed"},
                                 request : {"none", "created", "sending", "requested", "paid", "failed", "rejected"},
                                 payment : {"none", "open", "failed", "succeeded"}]]
    /\ owed \in {"none", "open", "return_reported", "confirmed", "superseded"}
    /\ late \in [Lates -> [step : {"none", "captured", "recorded"}, channel : Channels \cup {"none"}, equal : BOOLEAN]]
    /\ held \in [Channels -> Lates \cup {"none", "success"}]
    /\ consumed \subseteq Channels /\ charged \subseteq Lates
    /\ matter \in [Lates -> [type : {"none", "late_assisted_settlement", "late_success"},
                             end : {"open", "applied", "refunded", "charged_back"}]]
    /\ refunding \in [Lates -> [case : {"none", "open", "cancelled", "completed"},
                                relay : {"none", "live", "refused"}, own : BOOLEAN]]
    /\ bought \subseteq Channels \X (Lates \cup {"payment", "success"})

NothingAssisted ==
    /\ assistance = "pending" /\ past = FALSE
    /\ channel = [n \in Channels |-> NoChannel]
    /\ owed = "none" 
    /\ late = [l \in Lates |-> NotCaptured]
    /\ held = [n \in Channels |-> "none"]
    /\ matter = [l \in Lates |-> NoMatter]
    /\ refunding = [l \in Lates |-> NoCaseYet]
    /\ charged = {} /\ consumed = {} /\ bought = {}

SoldOn(n, by) == <<n, by>> \in bought
Sold(n)      == \E b \in bought : b[1] = n
LatesOf(n)   == {l \in Lates : late[l].channel = n}
ChannelOf(l) == late[l].channel

-----------------------------------------------------------------------------
(* The assistance request *)

Decline ==
    /\ assistance = "pending"
    /\ assistance' = "declined"
    /\ UNCHANGED <<past, owed, channel, captureSide, decisionSide>>

\* the Organization reports the cash; settleBy is set
ReportCash ==
    /\ assistance = "pending"
    /\ assistance' = "cash_collected"
    /\ UNCHANGED <<past, owed, channel, captureSide, decisionSide>>

DeadlinePasses ==
    /\ assistance # "pending" /\ ~past
    /\ past' = TRUE
    /\ UNCHANGED <<assistance, owed, channel, captureSide, decisionSide>>

NoneActive == \A n \in Channels : channel[n].status \notin ActiveChannel
Unused     == {n \in Channels : channel[n] = NoChannel}
Uncaptured == {l \in Lates : late[l] = NotCaptured}
RoomLeft   == Cardinality(Channels \ Unused) + Cardinality(Lates \ Uncaptured) < MaxParts

\* one transaction opens the channel with its invoice and payment request
StartSettlement ==
    /\ assistance = "cash_collected" /\ ~past
    /\ bought = {} /\ owed = "none" /\ NoneActive
    /\ Unused # {} /\ RoomLeft
    /\ LET n == CHOOSE n \in Unused : TRUE
       IN  channel' = [channel EXCEPT ![n] = [status |-> "open", request |-> "created", payment |-> "none"]]
    /\ UNCHANGED <<assistanceSide, captureSide, decisionSide>>

\* no purchase, no channel that may still succeed, no obligation yet
Due == bought = {} /\ owed = "none" /\ NoneActive

CashReturnSweep ==
    /\ assistance = "cash_collected" /\ past
    /\ Due
    /\ owed' = "open"
    /\ UNCHANGED <<assistance, past, channel, captureSide, decisionSide>>

ReportReturn ==
    /\ owed = "open"
    /\ owed' = "return_reported"
    /\ UNCHANGED <<assistance, past, channel, captureSide, decisionSide>>

\* the beneficiary's word: it ends the request
ConfirmReturn ==
    /\ owed = "return_reported"
    /\ owed' = "confirmed"
    /\ assistance' = "returned"
    /\ UNCHANGED <<past, channel, captureSide, decisionSide>>

-----------------------------------------------------------------------------
(* The channel's request and payment *)

\* the trigger by which a channel follows its payment request
Followed(status, request) ==
    IF status \notin ActiveChannel \/ request = "paid" THEN status
    ELSE CASE request \in {"created", "requested"} -> "open"
           [] request = "sending"                  -> "uncertain"
           [] OTHER                                -> "closed"

TurnRequest(n, request) ==
    channel' = [channel EXCEPT ![n] = [status |-> Followed(@.status, request), request |-> request, payment |-> @.payment]]

SendRequest(n) ==
    /\ channel[n].request = "created"
    /\ TurnRequest(n, "sending")
    /\ UNCHANGED <<assistanceSide, captureSide, decisionSide>>

\* an answer that is lost is asked for again; a rejection says there is no payment
RequestAnswered(n) ==
    /\ channel[n].request = "sending"
    /\ TurnRequest(n, IF channel[n].payment = "none" THEN "rejected" ELSE "requested")
    /\ UNCHANGED <<assistanceSide, captureSide, decisionSide>>

Onwards(payment) ==
    CASE payment = "none" -> {"open"}
      [] payment = "open" -> {"failed", "succeeded"}
      [] OTHER            -> {}

PaymentMoves(n) ==
    /\ channel[n].request \in {"sending", "requested"}
    /\ \E p \in Onwards(channel[n].payment) : channel' = [channel EXCEPT ![n].payment = p]
    /\ UNCHANGED <<assistanceSide, captureSide, decisionSide>>

CloseOnFailure(n) ==
    /\ channel[n].request = "requested" /\ channel[n].payment = "failed"
    /\ TurnRequest(n, "failed")
    /\ UNCHANGED <<assistanceSide, captureSide, decisionSide>>

\* under the lock of the assistance request: a purchase, or a late settlement held for review
ApplyAssistedSettlement(n) ==
    /\ channel[n].request = "requested" /\ channel[n].payment = "succeeded"
    /\ IF channel[n].status \notin ActiveChannel \/ bought # {} \/ owed # "none" \/ assistance # "cash_collected"
       THEN /\ TurnRequest(n, "paid")
            /\ held' = [held EXCEPT ![n] = IF @ = "none" THEN "success" ELSE @]
            /\ UNCHANGED <<assistance, bought>>
       ELSE /\ channel' = [channel EXCEPT ![n].request = "paid", ![n].status = "settled"]
            /\ bought' = bought \cup {<<n, "payment">>}
            /\ assistance' = "settled"
            /\ UNCHANGED held
    /\ UNCHANGED <<past, owed, captureSide, consumed>>

-----------------------------------------------------------------------------
(* Late captures *)

\* of a further attempt, of the invoice's amount or of another
LateCapture(n, equal) ==
    /\ channel[n].payment = "failed"
    /\ Uncaptured # {} /\ RoomLeft
    /\ LET l == CHOOSE l \in Uncaptured : TRUE
       IN  late' = [late EXCEPT ![l] = [step |-> "captured", channel |-> n, equal |-> equal]]
    /\ UNCHANGED <<assistanceSide, channel, matter, refunding, charged, decisionSide>>

FinalRequest == {"paid", "failed", "rejected"}
KnownPayment(n) == channel[n].request \notin {"none", "created", "sending", "rejected"}

\* the first late capture of its invoice, of its amount, on a closed channel
Eligible(l) ==
    LET n == ChannelOf(l)
    IN  /\ late[l].equal
        /\ channel[n].request = "failed" /\ channel[n].status = "closed"
        /\ held[n] = "none"

\* nothing is decided before the request is final
Classify(l) ==
    IF channel[ChannelOf(l)].request \notin FinalRequest
    THEN UNCHANGED <<held, matter>>
    ELSE /\ matter' = [matter EXCEPT ![l].type = IF Eligible(l) THEN "late_assisted_settlement" ELSE "late_success"]
         /\ held' = IF Eligible(l) THEN [held EXCEPT ![ChannelOf(l)] = l] ELSE held

\* from the event or from Payment's list, once
RecordLate(l) ==
    /\ late[l].step = "captured" /\ KnownPayment(ChannelOf(l))
    /\ late' = [late EXCEPT ![l].step = "recorded"]
    /\ Classify(l)
    /\ UNCHANGED <<assistanceSide, channel, refunding, charged, consumed, bought>>

\* the reconciliation worker takes up what was deferred
ClassifyDeferred(l) ==
    /\ late[l].step = "recorded" /\ matter[l] = NoMatter
    /\ channel[ChannelOf(l)].request \in FinalRequest
    /\ Classify(l)
    /\ UNCHANGED <<assistanceSide, channel, late, refunding, charged, consumed, bought>>

\* a dispute of the capture is lost
ChargeBack(l) ==
    /\ late[l] # NotCaptured /\ KnownPayment(ChannelOf(l))
    /\ l \notin charged
    /\ charged' = charged \cup {l}
    /\ UNCHANGED <<assistanceSide, channel, late, matter, refunding, decisionSide>>

-----------------------------------------------------------------------------
(* The Owner's decision on a late settlement *)

\* a case that is not cancelled, or that ever relayed an authorization
Counts(l) == refunding[l].case \in {"open", "completed"} \/ refunding[l].relay # "none"

\* the answers there are before the receipt is spent, and what the database checks again at the end
Applicable(n) ==
    /\ held[n] # "none"
    /\ bought = {}
    /\ owed \notin {"confirmed", "return_reported"}
    /\ assistance = "cash_collected"
    /\ \A k \in Channels \ {n} : channel[k].status \notin ActiveChannel
    /\ \A l \in LatesOf(n) : l \notin charged /\ ~Counts(l)

AuthorizeLate(n) ==
    /\ Applicable(n)
    /\ n \notin consumed
    /\ consumed' = consumed \cup {n}
    /\ UNCHANGED <<assistanceSide, channel, captureSide, held, bought>>

\* consumed under its own reference, so that a retry finds the receipt spent for itself
ApplyLate_(n) ==
    /\ n \in consumed
    /\ bought = {} /\ assistance = "cash_collected"
    /\ bought' = bought \cup {<<n, held[n]>>}
    /\ owed' = IF owed \in {"open", "return_reported"} THEN "superseded" ELSE owed
    /\ channel' = [channel EXCEPT ![n].status = IF @ \in ActiveChannel THEN "settled" ELSE @]
    /\ assistance' = "settled"
    /\ UNCHANGED <<past, captureSide, held, consumed>>
ApplyLate(n) ==
    /\ n \in consumed
    /\ Applicable(n)
    /\ bought' = bought \cup {<<n, held[n]>>}
    /\ owed' = IF owed = "open" THEN "superseded" ELSE owed
    /\ channel' = [channel EXCEPT ![n].status = IF @ \in ActiveChannel THEN "settled" ELSE @]
    /\ assistance' = "settled"
    /\ UNCHANGED <<past, captureSide, held, consumed>>

-----------------------------------------------------------------------------
(* Refunds of late captures, and the cases about them *)

LiveCase(l) == refunding[l].case \in {"open", "completed"}

\* of the late settlement (own), or of the capture; never after a purchase or a returned chargeback
OpenRefund(l, own) ==
    LET n == ChannelOf(l) IN
    /\ late[l] # NotCaptured /\ channel[n].request = "failed"
    /\ own <=> held[n] = l
    /\ ~Sold(n)
    /\ matter[l].end # "charged_back"
    /\ ~LiveCase(l)
    /\ \A k \in LatesOf(n) :
          /\ own  => ~(LiveCase(k) /\ (refunding[k].own \/ refunding[k].case = "open"))
          /\ ~own => ~(refunding[k].own /\ refunding[k].case = "open")
    /\ refunding' = [refunding EXCEPT ![l] = [case |-> "open", relay |-> @.relay, own |-> own]]
    /\ UNCHANGED <<assistanceSide, channel, late, matter, charged, decisionSide>>

RefundBecomes(l, row) ==
    /\ refunding[l].case = "open"
    /\ refunding' = [refunding EXCEPT ![l] = row]
    /\ UNCHANGED <<assistanceSide, channel, late, matter, charged, decisionSide>>

CancelRefund(l)   == refunding[l].relay # "live" /\ RefundBecomes(l, [refunding[l] EXCEPT !.case = "cancelled"])
RelayRefund(l)    == refunding[l].relay # "live" /\ RefundBecomes(l, [refunding[l] EXCEPT !.relay = "live"])
RefuseRelay(l)    == refunding[l].relay = "live" /\ RefundBecomes(l, [refunding[l] EXCEPT !.relay = "refused"])
CompleteRefund(l) == refunding[l].relay = "live" /\ RefundBecomes(l, [refunding[l] EXCEPT !.case = "completed"])

\* the evidence of each resolution, checked again when it is written
Proves(l, end) ==
    CASE end = "applied"      -> matter[l].type = "late_assisted_settlement" /\ SoldOn(ChannelOf(l), l)
      [] end = "refunded"     -> /\ refunding[l].case = "completed"
                                 /\ matter[l].type = "late_assisted_settlement" => refunding[l].own
      [] end = "charged_back" -> l \in charged /\ ~SoldOn(ChannelOf(l), l) /\ ~Counts(l)

Resolutions == {"applied", "refunded", "charged_back"}
Resolvable(l) == matter[l].type # "none" /\ matter[l].end = "open" /\ \E e \in Resolutions : Proves(l, e)

ResolveCase(l) ==
    /\ Resolvable(l)
    /\ \E e \in Resolutions : Proves(l, e) /\ matter' = [matter EXCEPT ![l].end = e]
    /\ UNCHANGED <<assistanceSide, channel, late, refunding, charged, decisionSide>>

-----------------------------------------------------------------------------

DispatchRequests == \E n \in Channels : SendRequest(n) \/ RequestAnswered(n)

ConsumeEvents ==
    \/ \E n \in Channels : CloseOnFailure(n) \/ ApplyAssistedSettlement(n)
    \/ \E l \in Lates : RecordLate(l)

ReconcileCases == \E l \in Lates : ClassifyDeferred(l) \/ ResolveCase(l)

People ==
    \/ Decline \/ ReportCash \/ StartSettlement \/ ReportReturn \/ ConfirmReturn
    \/ \E n \in Channels : AuthorizeLate(n) \/ ApplyLate(n)
    \/ \E l \in Lates : \/ \E own \in BOOLEAN : OpenRefund(l, own)
                        \/ CancelRefund(l) \/ RelayRefund(l)

PaymentAndTime ==
    \/ DeadlinePasses
    \/ \E n \in Channels : \/ PaymentMoves(n)
                           \/ \E equal \in BOOLEAN : LateCapture(n, equal)
    \/ \E l \in Lates : ChargeBack(l) \/ RefuseRelay(l) \/ CompleteRefund(l)

AssistedNext == DispatchRequests \/ ConsumeEvents \/ CashReturnSweep \/ ReconcileCases \/ People \/ PaymentAndTime

AssistedSpec == NothingAssisted /\ [][AssistedNext]_assistedVars

\* the dispatcher, the consumer and the two workers: one of them goes on while there is work; nobody else need do
\* anything
AssistedFairness == WF_assistedVars(DispatchRequests \/ ConsumeEvents \/ CashReturnSweep \/ ReconcileCases)

-----------------------------------------------------------------------------
(* Properties *)

\* One purchase of a request, whatever channel or late capture pays it, and never beside cash that is to be
\* or was returned (DB-12, DB-13, E-6, E-7, L-4)
OnePurchase ==
    /\ Cardinality(bought) <= 1 /\ Cardinality({n \in Channels : channel[n].status \in ActiveChannel}) <= 1
    /\ assistance = "settled" <=> bought # {}
    /\ bought # {} => owed \in {"none", "superseded"}
    /\ assistance = "returned" <=> owed = "confirmed"

\* Money that is paid while its payment is open always buys: neither the sweep nor an application of another
\* channel's late capture takes the request first (E-6: an uncertain channel never lets an obligation open)
PaidIsSold == \A n \in Channels : channel[n].request = "paid" => SoldOn(n, "payment")

\* A late capture is sold only where no capture of its payment was, is or may be refunded, also when a refund
\* case is opened after the receipt of the decision was spent (R6G-7)
SoldOrRefunded == \A l \in Lates : SoldOn(ChannelOf(l), l) => \A k \in LatesOf(ChannelOf(l)) : ~Counts(k)

\* A reconciliation case ends with what became of its capture, and that stays so (CB-4, S0-C9 item 6)
CasesEndTrue == \A l \in Lates : matter[l].end # "open" => Proves(l, matter[l].end)

AssistedSound == OnePurchase /\ PaidIsSold /\ SoldOrRefunded /\ CasesEndTrue

\* Cash that is overdue, and that no channel may still turn into a purchase, is owed back (E-6); every request
\* reaches Payment or ends, every late capture is classified (S0-C9 item 6), and every case there is evidence for
\* is resolved
AssistedSettles ==
    /\ ~(assistance = "cash_collected" /\ past /\ Due)
    /\ \A n \in Channels : channel[n].request \notin {"created", "sending"}
    /\ \A l \in Lates : (late[l] # NotCaptured => matter[l] # NoMatter) /\ ~Resolvable(l)
=============================================================================
