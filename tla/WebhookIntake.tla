--------------------------- MODULE WebhookIntake ---------------------------
(***************************************************************************)
(* payment-service: the notifications of a provider.  Each is stored once  *)
(* under the provider's event id, then processed by the request that       *)
(* brought it, by any redelivery of it, and by the retrier, which holds    *)
(* the row's lock while it works; a redelivery holds nothing.  What a run  *)
(* does to payments and disputes commits in a transaction of its own,      *)
(* before the row says how it ended.                                       *)
(*                                                                         *)
(* Abstractions.  Every attempt here has a payment of its own.  Back-off   *)
(* only delays, so a retryable row is always due; the grace window of an   *)
(* unmatched fact has passed or has not, each time it is looked at.  A     *)
(* capture's own rules are PaymentSettlement's: here a capture is applied, *)
(* contradicts what Payment holds, or fails for a while.  What is said of  *)
(* failures, expiries and refunds is modelled there and in                 *)
(* RefundSettlement; disputes are enabled.  Amounts are the names of       *)
(* stated exposures.  MaxUses stands for the ten attempts of the           *)
(* retrier; MaxDeliveries and MaxIntakeFaults bound the provider's         *)
(* deliveries and the crashes and transient failures.                      *)
(***************************************************************************)
EXTENDS Naturals, FiniteSets

CONSTANTS
    Hooks,            \* provider event ids
    Targets,          \* attempts, each of a payment of its own
    Disputes,         \* provider dispute ids
    Chargebacks,      \* provider transaction ids of chargebacks
    Endpoints,        \* requests that can be handled at once
    Retriers,         \* service instances, each with one retrier
    MaxUses,          \* WEBHOOK_RETRY_MAX_ATTEMPTS
    MaxDeliveries,
    MaxIntakeFaults

ASSUME IntakeAssumption ==
    /\ IsFiniteSet(Hooks)
    /\ Endpoints \cap Retriers = {}
    /\ MaxUses \in Nat \ {0}
    /\ MaxDeliveries \in Nat
    /\ MaxIntakeFaults \in Nat
    /\ "none" \notin Hooks \cup Targets \cup Chargebacks

VARIABLES
    notice,      \* what each notification says
    hook,        \* webhook_event rows
    capture,     \* what Payment holds about each attempt and its payment
    dispute,     \* payment_dispute rows
    observed,    \* payment_dispute_observation: how each notice was settled
    announced,   \* payment.dispute.opened and .lost, per dispute
    kept,        \* evidence of notifications: applied, quarantined, unmatched facts
    run,         \* what each request and each retrier is doing
    acked,       \* disputes answered 200 while their attempt was known
    deliveries, intakeFaults

ledger == <<capture, dispute, observed, announced, kept>>
intakeVars == <<notice, hook, ledger, run, acked, deliveries, intakeFaults>>

-----------------------------------------------------------------------------
(* Rows *)

Runners    == Endpoints \cup Retriers
Settled    == {"processed", "ignored", "conflict"}
HookState  == Settled \cup {"none", "received", "unmatched", "failed"}
Outcomes   == {"none", "malformed_body", "transient_error", "retries_exhausted",
               "quarantined", "malformed_dispute", "held", "answered"}
\* a capture names its transaction and a sound amount, or it may not be keyed
CaptureTypes == {"capture", "unkeyed_capture"}
NoticeType == CaptureTypes \cup {"unreadable_currency", "unknown_type", "malformed_body",
                             "dispute", "malformed_dispute"}
HookRow    == [state : HookState, outcome : Outcomes, uses : Nat, matched : BOOLEAN]
CaptureRow == [known : BOOLEAN, facts : 0..2, contested : BOOLEAN, late : BOOLEAN,
               payment : {"open", "settled", "settled_elsewhere", "unsuccessful"}]
DisputeRow == [status : {"none", "open", "won", "lost"}, target : Targets \cup {"none"},
               exposure : {"stated", "other"}, charge : Chargebacks \cup {"none"}]
Verdict    == {"none", "applied", "duplicate", "conflict"}
Step       == {"idle", "seen", "work", "mark"}
Run        == [step : Step, hook : Hooks \cup {"none"}, uses : Nat,
               state : HookState, outcome : Outcomes, matched : BOOLEAN]

\* a dispute on which a chargeback is stated without a loss cannot be read: it is malformed
Parsed == [type : NoticeType, target : Targets, dispute : Disputes,
           kind : {"opened", "won", "lost"}, exposure : {"stated", "other"},
           charge : Chargebacks \cup {"none"}]
Notice == {n \in Parsed : n.charge # "none" => n.kind = "lost"}

Idle == [step |-> "idle", hook |-> "none", uses |-> 0,
         state |-> "none", outcome |-> "none", matched |-> FALSE]

IntakeTypeOK ==
    /\ notice \in [Hooks -> Notice]
    /\ hook \in [Hooks -> HookRow]
    /\ capture \in [Targets -> CaptureRow]
    /\ dispute \in [Disputes -> DisputeRow]
    /\ observed \in [Hooks -> Verdict]
    /\ announced \in [Disputes -> [opened : Nat, lost : Nat]]
    /\ kept \in [Hooks -> SUBSET {"applied", "quarantined", "unmatched_fact"}]
    /\ run \in [Runners -> Run]
    /\ \A p \in Runners : run[p].step = "idle" <=> run[p].hook = "none"
    /\ acked \subseteq Hooks
    /\ deliveries \in 0..MaxDeliveries
    /\ intakeFaults \in 0..MaxIntakeFaults

NothingIngested ==
    /\ dispute = [x \in Disputes |-> [status |-> "none", target |-> "none",
                                      exposure |-> "stated", charge |-> "none"]]
    /\ observed = [h \in Hooks |-> "none"]
    /\ announced = [x \in Disputes |-> [opened |-> 0, lost |-> 0]]
    /\ kept = [h \in Hooks |-> {}]
    /\ run = [p \in Runners |-> Idle]
    /\ acked = {}
    /\ deliveries = 0

IntakeInit ==
    /\ notice \in [Hooks -> Notice]
    /\ hook = [h \in Hooks |-> [state |-> "none", outcome |-> "none", uses |-> 0, matched |-> FALSE]]
    /\ capture = [a \in Targets |-> [known |-> FALSE, facts |-> 0, contested |-> FALSE,
                                     late |-> FALSE, payment |-> "open"]]
    /\ intakeFaults = 0
    /\ NothingIngested

IntakeFault == intakeFaults < MaxIntakeFaults /\ intakeFaults' = intakeFaults + 1

-----------------------------------------------------------------------------
(* The evidence Payment gathers meanwhile: attempt.service, late success *)

\* the provider's reference is stored, the capture's fact committed, the payment
\* settled by it or by another attempt, ended without money, the late success
\* named, or the fact contested: each a transaction of its own
CaptureSteps(c) ==
    {[c EXCEPT !.known = TRUE]}
    \cup {[d EXCEPT !.facts = @ + 1] : d \in {e \in {c} : e.known /\ e.facts < 2}}
    \cup {[d EXCEPT !.payment = "settled"] : d \in {e \in {c} : e.facts > 0 /\ e.payment = "open"}}
    \cup {[d EXCEPT !.payment = k] :
             d \in {e \in {c} : e.payment = "open"}, k \in {"settled_elsewhere", "unsuccessful"}}
    \cup {[d EXCEPT !.late = TRUE] :
             d \in {e \in {c} : e.facts = 1 /\ ~ e.contested /\ e.payment = "unsuccessful"}}
    \cup {[d EXCEPT !.contested = TRUE] : d \in {e \in {c} : e.facts > 0}}

GatherEvidence(a) ==
    /\ \E c \in CaptureSteps(capture[a]) \ {capture[a]} : capture' = [capture EXCEPT ![a] = c]
    /\ UNCHANGED <<notice, hook, dispute, observed, announced, kept, run, acked, deliveries,
                   intakeFaults>>

-----------------------------------------------------------------------------
(* Storing a notification *)

Begin(p, h, step) ==
    run' = [run EXCEPT ![p] = [Idle EXCEPT !.step = step, !.hook = h, !.uses = hook[h].uses]]
End(p) == run' = [run EXCEPT ![p] = Idle]
Ends(p, state, outcome, matched) ==
    run' = [run EXCEPT ![p].step = "mark", ![p].state = state, ![p].outcome = outcome,
                       ![p].matched = matched]

Acknowledges(h) == notice[h].type = "dispute" /\ hook[h].matched

\* receive: a known notification that is settled is answered again and nothing
\* else; one left behind is processed again, without the row's lock
Receive(p, h) ==
    /\ run[p].step = "idle"
    /\ deliveries < MaxDeliveries
    /\ deliveries' = deliveries + 1
    /\ IF hook[h].state \in Settled
       THEN /\ acked' = IF Acknowledges(h) THEN acked \cup {h} ELSE acked
            /\ UNCHANGED <<hook, run>>
       ELSE /\ hook' = IF hook[h].state = "none" THEN [hook EXCEPT ![h].state = "received"] ELSE hook
            /\ IF notice[h].type = "malformed_body"
               THEN run' = [run EXCEPT ![p] = [Idle EXCEPT !.step = "mark", !.hook = h,
                                              !.state = "failed", !.outcome = "malformed_body"]]
               ELSE Begin(p, h, "work")
            /\ UNCHANGED acked
    /\ UNCHANGED <<notice, ledger, intakeFaults>>

\* markState: unconditional, but a row the retrier has claimed is waited for
Locked(h, p) == \E w \in Retriers \ {p} : run[w].hook = h /\ run[w].step \in {"work", "mark"}
StillMatched_(h, p) == run[p].matched
StillMatched(h, p)  == hook[h].matched \/ run[p].matched
MarkState(p) ==
    /\ run[p].step = "mark"
    /\ LET h == run[p].hook IN
       /\ ~ Locked(h, p)
       /\ hook' = [hook EXCEPT ![h].state = run[p].state, ![h].outcome = run[p].outcome,
                               ![h].uses = @ + 1, ![h].matched = StillMatched(h, p)]
       /\ acked' = IF p \in Endpoints /\ notice[h].type = "dispute" /\ run[p].matched
                   THEN acked \cup {h} ELSE acked
    /\ End(p)
    /\ UNCHANGED <<notice, ledger, deliveries, intakeFaults>>

-----------------------------------------------------------------------------
(* Processing one *)

Working(p, types) == run[p].step = "work" /\ notice[run[p].hook].type \in types
Target(p)         == capture[notice[run[p].hook].target]
Keep(p, what)     == kept' = [kept EXCEPT ![run[p].hook] = @ \cup {what}]

\* a shape the code never applies
Ignore(p) ==
    /\ Working(p, {"unknown_type"})
    /\ Ends(p, "ignored", "answered", FALSE)
    /\ UNCHANGED <<notice, hook, ledger, acked, deliveries, intakeFaults>>

\* no attempt carries the reference; after the grace window a movement that can be keyed
\* is kept as a fact
KeepUnmatched(p) ==
    /\ Working(p, CaptureTypes)
    /\ ~ Target(p).known
    /\ \/ Working(p, {"capture"}) /\ Keep(p, "unmatched_fact")
       \/ UNCHANGED kept
    /\ Ends(p, "unmatched", "answered", FALSE)
    /\ UNCHANGED <<notice, hook, capture, dispute, observed, announced, acked, deliveries, intakeFaults>>

\* applyStatus commits the fact, and the attempt takes it or contradicts it.  No fact is
\* kept of an amount that is none, or if neither the notice nor the attempt names the
\* transaction: it is refused, or answered if the attempt had already succeeded
Keyless_(p) == "processed"
Keyless(p)  == IF Target(p).payment = "settled" THEN "processed" ELSE "conflict"
ApplyCapture(p) ==
    /\ Working(p, CaptureTypes)
    /\ Target(p).known
    /\ \/ /\ Keep(p, "applied")
          /\ \E state \in {"processed", "conflict"} : Ends(p, state, "answered", TRUE)
       \/ /\ Working(p, {"unkeyed_capture"})
          /\ UNCHANGED kept
          /\ Ends(p, Keyless(p), "answered", TRUE)
    /\ UNCHANGED <<notice, hook, capture, dispute, observed, announced, acked, deliveries, intakeFaults>>

\* a dispute that cannot be read is set aside: never retried, and of no attempt
SetAside(p) ==
    /\ Working(p, {"malformed_dispute"})
    /\ Ends(p, "conflict", "malformed_dispute", FALSE)
    /\ UNCHANGED <<notice, hook, ledger, acked, deliveries, intakeFaults>>

\* the record and the row's last state commit together; nothing is acknowledged before
Quarantine(p) ==
    /\ Working(p, {"unreadable_currency"})
    /\ LET h == run[p].hook IN
       /\ ~ Locked(h, p)
       /\ Keep(p, "quarantined")
       /\ hook' = [hook EXCEPT ![h].state = "conflict", ![h].outcome = "quarantined", ![h].uses = @ + 1,
                               ![h].matched = @ \/ Target(p).known]
    /\ End(p)
    /\ UNCHANGED <<notice, capture, dispute, observed, announced, acked, deliveries, intakeFaults>>

\* a transient failure, before or after the transaction of its own had committed
FailForNow(p) ==
    /\ Working(p, CaptureTypes \cup {"unreadable_currency", "dispute"})
    /\ IntakeFault
    /\ \/ UNCHANGED kept
       \/ Working(p, CaptureTypes) /\ Target(p).known /\ Keep(p, "applied")
    /\ Ends(p, "failed", "transient_error", Working(p, CaptureTypes) /\ Target(p).known)
    /\ UNCHANGED <<notice, hook, capture, dispute, observed, announced, acked, deliveries>>

-----------------------------------------------------------------------------
(* Disputes *)

\* the capture a new dispute of an attempt is bound to, or held for (CB-1, CB-5)
Attribution(c) ==
    LET bound      == /\ c.facts = 1 /\ ~ c.contested
                      /\ c.payment = "settled" \/ (c.late /\ c.payment = "unsuccessful")
        unverified == \/ c.facts > 1 \/ c.contested \/ c.payment = "settled_elsewhere"
                      \/ c.payment = "settled" /\ c.facts # 1
    IN CASE bound      -> "bound"
         [] unverified -> "unverified"
         [] OTHER      -> "held"

LastChance(p)      == run[p].uses + 1 >= MaxUses
Free(charge)       == charge = "none" \/ \A x \in Disputes : dispute[x].charge # charge
KnownDispute(n)    == dispute[n.dispute].status # "none"

OnNew(n, last) ==
    LET from == Attribution(capture[n.target]) IN
    CASE from = "held" /\ ~ last -> "held"
      [] from = "bound" /\ n.exposure = "stated" /\ Free(n.charge) -> "applied"
      [] OTHER -> "conflict"

\* a known dispute is closed once, and a loss is given the chargeback it still lacks
Concerns(n) ==
    LET d == dispute[n.dispute] IN d.target = n.target /\ d.exposure = n.exposure
Closes(n)   == dispute[n.dispute].status = "open" /\ n.kind # "opened"
Charges(n)  ==
    LET d == dispute[n.dispute] IN
    d.status = "lost" /\ n.kind = "lost" /\ d.charge = "none" /\ n.charge # "none"
Repeats(n)  ==
    LET d == dispute[n.dispute] IN
    n.kind = "opened" \/ (d.status = n.kind /\ n.charge \in {"none", d.charge})

Closes_(n)  == dispute[n.dispute].status \in {"open", "won"} /\ n.kind \notin {"opened", dispute[n.dispute].status}
OnKnown_(n) ==
    CASE Concerns(n) /\ (Closes_(n) \/ Charges(n)) /\ Free(n.charge) -> "applied"
      [] Concerns(n) /\ ~ Closes_(n) /\ Repeats(n) -> "duplicate"
      [] OTHER -> "conflict"

OnKnown(n) ==
    CASE Concerns(n) /\ (Closes(n) \/ Charges(n)) /\ Free(n.charge) -> "applied"
      [] Concerns(n) /\ Repeats(n) -> "duplicate"
      [] OTHER -> "conflict"

\* the dispute after a notice that applies: opened, closed, or given its chargeback
Apply(n) ==
    LET x == n.dispute  old == dispute[x] IN
    /\ dispute' = [dispute EXCEPT ![x] =
                     [status   |-> IF n.kind = "opened" THEN "open" ELSE n.kind,
                      target   |-> n.target,
                      exposure |-> n.exposure,
                      charge   |-> IF n.charge = "none" THEN old.charge ELSE n.charge]]
    /\ announced' = [announced EXCEPT
                       ![x].opened = IF old.status = "none" THEN @ + 1 ELSE @,
                       ![x].lost = IF n.kind = "lost" /\ old.status # "lost" THEN @ + 1 ELSE @]

\* ingest: one transaction under the payment's lock.  An observation of this very
\* notification answers again; a held notice leaves none
Ingest(p) ==
    /\ Working(p, {"dispute"})
    /\ LET h == run[p].hook  n == notice[h]
           verdict == IF ~ capture[n.target].known THEN "unmatched"
                      ELSE IF observed[h] # "none" THEN "again"
                      ELSE IF KnownDispute(n) THEN OnKnown(n)
                      ELSE OnNew(n, LastChance(p))
       IN
       /\ observed' = IF verdict \in Verdict THEN [observed EXCEPT ![h] = verdict] ELSE observed
       /\ IF verdict = "applied" THEN Apply(n) ELSE UNCHANGED <<dispute, announced>>
       /\ IF verdict = "unmatched" THEN Ends(p, "unmatched", "answered", FALSE)
          ELSE IF verdict = "held" THEN Ends(p, "unmatched", "held", TRUE)
          ELSE Ends(p, IF observed'[h] = "conflict" THEN "conflict" ELSE "processed", "answered", TRUE)
    /\ UNCHANGED <<notice, hook, capture, kept, acked, deliveries, intakeFaults>>

-----------------------------------------------------------------------------
(* The retrier *)

Retryable_(h) == hook[h].state \in {"unmatched", "failed"} /\ hook[h].outcome \notin {"malformed_body", "retries_exhausted"}

Retryable(h) ==
    /\ hook[h].state \in {"received", "unmatched", "failed"}
    /\ ~ (hook[h].state = "failed" /\ hook[h].outcome \in {"malformed_body", "retries_exhausted"})

\* a pass selects a row and remembers how often it was processed
Select(w, h) ==
    /\ run[w].step = "idle"
    /\ Retryable(h) /\ hook[h].uses < MaxUses
    /\ Begin(w, h, "seen")
    /\ UNCHANGED <<notice, hook, ledger, acked, deliveries, intakeFaults>>

\* claims it, unless another has it or has processed it since
Claim(w) ==
    /\ run[w].step = "seen"
    /\ LET h == run[w].hook IN
       IF ~ Locked(h, w) /\ hook[h].uses = run[w].uses /\ Retryable(h)
       THEN IF notice[h].type = "malformed_body"
            THEN Ends(w, "failed", "malformed_body", FALSE)
            ELSE run' = [run EXCEPT ![w].step = "work"]
       ELSE End(w)
    /\ UNCHANGED <<notice, hook, ledger, acked, deliveries, intakeFaults>>

\* a row that has used every attempt is left to an operator
Exhaust(h) ==
    /\ Retryable(h) /\ hook[h].uses >= MaxUses
    /\ \A w \in Retriers : ~ Locked(h, w)
    /\ hook' = [hook EXCEPT ![h].state = "failed", ![h].outcome = "retries_exhausted"]
    /\ UNCHANGED <<notice, ledger, run, acked, deliveries, intakeFaults>>

\* a request or a pass dies between two transactions; its lock goes with it
Die(p) ==
    /\ run[p].step # "idle"
    /\ IntakeFault
    /\ End(p)
    /\ UNCHANGED <<notice, hook, ledger, acked, deliveries>>

-----------------------------------------------------------------------------

Process(p) == \/ Ignore(p) \/ KeepUnmatched(p) \/ ApplyCapture(p)
              \/ Quarantine(p) \/ SetAside(p) \/ Ingest(p)

IntakeNext ==
    \/ \E a \in Targets : GatherEvidence(a)
    \/ \E p \in Endpoints, h \in Hooks : Receive(p, h)
    \/ \E p \in Runners : Process(p) \/ FailForNow(p) \/ MarkState(p) \/ Die(p)
    \/ \E w \in Retriers : Claim(w) \/ \E h \in Hooks : Select(w, h)
    \/ \E h \in Hooks : Exhaust(h)

IntakeSpec == IntakeInit /\ [][IntakeNext]_intakeVars

\* The poll loop runs again after every pass and looks at every due row; a run
\* that does not die goes on.  Nothing is promised of the provider.
IntakeFairness ==
    /\ \A p \in Runners : WF_intakeVars(Process(p) \/ MarkState(p))
    /\ \A w \in Retriers : WF_intakeVars(Claim(w))
    /\ \A h \in Hooks : WF_intakeVars(Exhaust(h)) /\ \A w \in Retriers : SF_intakeVars(Select(w, h))

-----------------------------------------------------------------------------
(* Properties *)

\* A dispute is what its notices made it, once: opened and lost are announced
\* once, a final outcome is never replaced, and one chargeback is the loss of
\* one dispute, however often and in whatever order the notices are processed
\* (PAY-09; onNew, onKnown, linkChargeback).
AppliedTo(x) == {h \in Hooks : observed[h] = "applied" /\ notice[h].dispute = x}
DisputesAgree ==
    \A x \in Disputes :
       LET d == dispute[x]  kinds == {notice[h].kind : h \in AppliedTo(x)} IN
       /\ announced[x] = [opened |-> IF d.status = "none" THEN 0 ELSE 1,
                          lost   |-> IF d.status = "lost" THEN 1 ELSE 0]
       /\ d.status = "none" <=> kinds = {}
       /\ d.status = "open" => kinds = {"opened"}
       /\ d.status \in {"won", "lost"} => d.status \in kinds /\ kinds \subseteq {"opened", d.status}
       /\ d.charge # "none" => /\ d.status = "lost"
                               /\ \A y \in Disputes \ {x} : dispute[y].charge # d.charge

\* what disputeExposure answers about the payment of an attempt
Unresolved(a) ==
    \/ \E h \in Hooks : notice[h].target = a /\ observed[h] = "conflict"
    \/ \E x \in Disputes : dispute[x].target = a /\ dispute[x].status = "lost" /\ dispute[x].charge = "none"
    \/ \E h \in Hooks : /\ notice[h].type = "dispute" /\ notice[h].target = a
                        /\ hook[h].matched /\ hook[h].state \notin Settled

\* A dispute the provider was told is received is never forgotten when a refund is
\* judged: Payment has recorded what became of it or reads the payment's exposure
\* as unresolved, also when a slower run overwrites the row or the retrier gives
\* it up (CB-5; processDispute, disputeExposure).
AckedDisputeCounts == \A h \in acked : observed[h] # "none" \/ Unresolved(notice[h].target)

\* A settled row has its evidence, whatever died in between.  A capture that can be keyed
\* is settled on its committed fact, a dispute that can be read on its observation, a
\* quarantine on its record; nothing with money in it is ignored.  Two kinds are settled
\* without evidence of their own and never as done: a dispute no one can read, and a
\* capture that could not be keyed, unless its attempt has succeeded on another fact
\* (FI-12, S0-C12 item 16; process, recordCaptureFact, processDispute, quarantine).
SettledHasEvidence ==
    \A h \in Hooks :
       LET row == hook[h]  type == notice[h].type IN
       /\ row.state \in {"processed", "conflict"} /\ type = "capture" => "applied" \in kept[h]
       /\ row.state \in {"processed", "conflict"} /\ type = "dispute" => observed[h] # "none"
       /\ row.outcome = "quarantined" => "quarantined" \in kept[h]
       /\ row.state = "ignored" => type = "unknown_type"
       /\ row.state = "processed" => type # "malformed_dispute"
       /\ row.state = "processed" /\ type = "unkeyed_capture" =>
             "applied" \in kept[h] \/ capture[notice[h].target].payment = "settled"

\* What was answered to the provider is kept: both of the above, so that neither an
\* acknowledged dispute nor a settled row can be without its evidence.
EvidenceKept == AckedDisputeCounts /\ SettledHasEvidence

\* Every stored notification comes to an end, even if the process died right
\* after it was stored and the provider never comes back: settled, malformed, or
\* given up after its last attempt (SDD 12; the retrier).
HooksEnded ==
    \A h \in Hooks : \/ hook[h].state \in Settled \cup {"none"}
                     \/ hook[h].state = "failed" /\ hook[h].outcome \in {"malformed_body", "retries_exhausted"}
=============================================================================
