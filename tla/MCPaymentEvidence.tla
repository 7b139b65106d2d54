------------------------- MODULE MCPaymentEvidence -------------------------
(***************************************************************************)
(* Small instances of WebhookIntake and RefundSettlement of                *)
(* payment-service and of RefundCases and AssistedSettlement of            *)
(* billing-service.  A behaviour is of one of the four, the one `focus'    *)
(* names: the others stay where they have nothing to do, so their fairness *)
(* asks for nothing.                                                       *)
(***************************************************************************)
EXTENDS WebhookIntake, RefundSettlement, RefundCases, AssistedSettlement

CONSTANTS
    h1, a1, x1, x2, b1,        \* members of Hooks, Targets, Disputes, Chargebacks
    c1, c2, r1, r2, k1, k2,    \* members of Captures, Refunds, Receipts
    q2, v2                     \* a member of CaseIds and of Relays: what is over before a check begins

ASSUME StartIsOfTheInstance ==
    /\ h1 \in Hooks /\ a1 \in Targets /\ {x1, x2} \subseteq Disputes /\ b1 \in Chargebacks
    /\ {c1, c2} \subseteq Captures /\ c1 = Settling /\ c1 # c2
    /\ {r1, r2} \subseteq Refunds /\ r1 # r2
    /\ {k1, k2} \subseteq Receipts /\ k1 # k2
    /\ MaxReports # 0
    /\ q2 \in CaseIds /\ v2 \in Relays

VARIABLE focus

vars == <<focus, intakeVars, refundVars, refundCaseVars, assistedVars>>

EvidenceTypeOK == IntakeTypeOK /\ RefundTypeOK /\ RefundCaseTypeOK /\ AssistedTypeOK

-----------------------------------------------------------------------------
(* Notifications *)

Plain   == {[type |-> t, target |-> a1, dispute |-> x1, kind |-> "opened", exposure |-> "stated",
             charge |-> "none"] : t \in NoticeType \ {"dispute"}}
Said(x, kind, charge, exposure) ==
    [type |-> "dispute", target |-> a1, dispute |-> x, kind |-> kind, exposure |-> exposure, charge |-> charge]
Opened  == Said(x1, "opened", "none", "stated")
Fresh(state) == [state |-> state, outcome |-> "none", uses |-> 0, matched |-> FALSE]
AtFirst(one, others) == [h \in Hooks |-> IF h = h1 THEN one ELSE others]
Unknown == [known |-> FALSE, facts |-> 0, contested |-> FALSE, late |-> FALSE, payment |-> "open"]

\* one notification: of a dispute, before Payment knows anything; of a capture that may
\* not be keyed, while its payment can still settle on another fact; or of another type,
\* for which Payment need only know the reference.  The other notification is settled
OneNotice ==
    /\ \E n \in Plain \cup {Opened} :
          /\ \E o \in Plain : o.type = "unknown_type" /\ notice = AtFirst(n, o)
          /\ capture = [a \in Targets |->
                CASE n.type = "dispute" -> Unknown
                  [] n.type = "unkeyed_capture" -> [Unknown EXCEPT !.known = TRUE, !.facts = 1]
                  [] OTHER -> [Unknown EXCEPT !.payment = "settled_elsewhere"]]
    /\ hook = AtFirst(Fresh("none"), Fresh("ignored"))

\* two notices of one dispute, or of two that claim one chargeback, once the capture is verified
TwoNotices ==
    /\ \/ \E second \in {Opened, Said(x1, "won", "none", "stated"), Said(x1, "lost", b1, "stated"),
                          Said(x1, "won", "none", "other")} : notice = AtFirst(Opened, second)
       \/ \E first \in {Said(x1, "won", "none", "stated"), Said(x1, "lost", "none", "stated"),
                         Said(x2, "lost", b1, "stated")} : notice = AtFirst(first, Said(x1, "lost", b1, "stated"))
    /\ hook = [h \in Hooks |-> Fresh("none")]
    /\ capture = [a \in Targets |-> [Unknown EXCEPT !.known = TRUE, !.facts = 1, !.payment = "settled"]]

\* nothing to process and nothing to gather
NoNotices ==
    /\ notice \in [Hooks -> {n \in Plain : n.type = "unknown_type"}]
    /\ hook = [h \in Hooks |-> Fresh("ignored")]
    /\ capture = [a \in Targets |-> Unknown]
    /\ intakeFaults = 0
    /\ NothingIngested

\* a run of two notices has no fault of its own: those are the runs of one
IntakeStart ==
    /\ \/ OneNotice /\ intakeFaults = 0
       \/ TwoNotices /\ intakeFaults = MaxIntakeFaults
    /\ NothingIngested

-----------------------------------------------------------------------------
(* Refunds *)

Sale  == [capture |-> c1, specific |-> FALSE]
Other == [capture |-> c2, specific |-> TRUE]
Row(status, k, case) == [status |-> status, receipt |-> k, case |-> case]
NotAsked == Row("none", "none", Sale)

NothingReturned ==
    /\ wire = {}
    /\ reports = {}
    /\ fact = [m \in Movements |-> [refund |-> "none", amount |-> 0, contested |-> FALSE]]
    /\ allocation = [m \in Movements |-> [state |-> "none", intended |-> 0]]
    /\ completions = [r \in Refunds |-> 0]
    /\ work = [p \in Askers \cup Workers |-> AtRest]

\* the sale's refund is asked for, on the first of two receipts; the other capture is contested
Asked ==
    /\ covers = [k \in Receipts |-> Sale]
    /\ receipt = [k \in Receipts |-> [state |-> "issued", by |-> "none"]]
    /\ standing = [c \in Captures |-> IF c = c1 THEN "sound" ELSE "contested"]
    /\ refund = [r \in Refunds |-> IF r = r1 THEN Row("authorization_pending", k1, Sale) ELSE NotAsked]
    /\ authority = [r \in Refunds |-> [given |-> FALSE, allocated |-> 0, completed |-> FALSE]]
    /\ atProvider = [r \in Refunds |-> "none"]
    /\ refundFaults = 0
    /\ reportsMade = MaxReports - 1

\* the sale's refund and another capture's are with the provider; doubts come too late for both
Sent ==
    /\ covers = [k \in Receipts |-> IF k = k1 THEN Sale ELSE Other]
    /\ receipt = [k \in Receipts |-> CASE k = k1 -> [state |-> "consumed", by |-> r1]
                                       [] k = k2 -> [state |-> "consumed", by |-> r2]
                                       [] OTHER  -> [state |-> "issued", by |-> "none"]]
    /\ standing = [c \in Captures |-> "contested"]
    /\ refund = [r \in Refunds |-> CASE r = r1 -> Row("submitted", k1, Sale)
                                     [] r = r2 -> Row("submitted", k2, Other)
                                     [] OTHER  -> NotAsked]
    /\ authority = [r \in Refunds |-> [given |-> r \in {r1, r2}, allocated |-> 0, completed |-> FALSE]]
    /\ atProvider = [r \in Refunds |-> IF r \in {r1, r2} THEN "accepted" ELSE "none"]
    /\ refundFaults = MaxRefundFaults
    /\ reportsMade = 0

NoRefunds ==
    /\ covers = [k \in Receipts |-> Sale]
    /\ receipt = [k \in Receipts |-> [state |-> "voided", by |-> "none"]]
    /\ standing = [c \in Captures |-> "contested"]
    /\ refund = [r \in Refunds |-> Row("refused", "none", Sale)]
    /\ authority = [r \in Refunds |-> [given |-> FALSE, allocated |-> 0, completed |-> FALSE]]
    /\ atProvider = [r \in Refunds |-> "none"]
    /\ refundFaults = 0
    /\ reportsMade = 0

-----------------------------------------------------------------------------
(* Refund cases *)

\* a cancelled case, whose relay Payment rejected
OneCaseOver ==
    /\ kase = [c \in CaseIds |-> IF c = q2 THEN "cancelled" ELSE "none"]
    /\ relay = [r \in Relays |-> IF r = v2 THEN [case |-> q2, status |-> "rejected"] ELSE NoRelay]
    /\ attempt = [r \in Relays |-> IF r = v2 THEN "rejected" ELSE "none"]

NothingUsed ==
    /\ kase = [c \in CaseIds |-> "none"]
    /\ relay = [r \in Relays |-> NoRelay]
    /\ attempt = [r \in Relays |-> "none"]

\* two cases and no fault once the gate is open, or one case while a process starts
RefundCasesStart ==
    /\ NothingRefunded
    /\ IF focus = "cases"
       THEN \/ /\ purpose \in {"direct", "assisted"}
               /\ NothingUsed /\ gate = "passed" /\ caseFaults = MaxCaseFaults
            \/ /\ purpose = "direct"
               /\ OneCaseOver /\ gate = "pending" /\ caseFaults = 0
       ELSE purpose = "direct" /\ NothingUsed /\ gate = "passed" /\ caseFaults = 0

-----------------------------------------------------------------------------

Start ==
    /\ NothingAssisted
    /\ \/ focus = "intake" /\ IntakeStart /\ NothingReturned /\ NoRefunds
       \/ focus = "refund" /\ NoNotices /\ NothingReturned /\ (Asked \/ Sent)
       \/ focus \in {"cases", "assistance"} /\ NoNotices /\ NothingReturned /\ NoRefunds
    /\ RefundCasesStart

Next ==
    /\ UNCHANGED focus
    /\ \/ focus = "intake" /\ IntakeNext /\ UNCHANGED <<refundVars, refundCaseVars, assistedVars>>
       \/ focus = "refund" /\ RefundNext /\ UNCHANGED <<intakeVars, refundCaseVars, assistedVars>>
       \/ focus = "cases" /\ RefundCaseNext /\ UNCHANGED <<intakeVars, refundVars, assistedVars>>
       \/ focus = "assistance" /\ AssistedNext /\ UNCHANGED <<intakeVars, refundVars, refundCaseVars>>

Evidence == Start /\ [][Next]_vars /\ IntakeFairness /\ RefundFairness /\ RefundCaseFairness /\ AssistedFairness

\* two refunds with the provider
TwoRefunds == Start /\ focus = "refund" /\ refund[r2].status = "submitted" /\ [][Next]_vars

\* Every notification ends, no refund hangs in payment-service, what it returns or loses takes its effect in
\* billing-service, and cash that is overdue and every late capture is taken up there (HooksEnded, NothingHangs,
\* EffectsTaken, AssistedSettles): no effect is undone, so that the whole holds again and again
EvidenceSettles == []<>(HooksEnded /\ NothingHangs /\ EffectsTaken /\ AssistedSettles)
=============================================================================
