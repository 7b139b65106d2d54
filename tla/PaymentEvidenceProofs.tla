----------------------- MODULE PaymentEvidenceProofs -----------------------
(***************************************************************************)
(* Proofs about the modules that MCPaymentEvidence puts together.          *)
(*                                                                         *)
(* - WebhookIntake, for every number of notifications, retriers, disputes  *)
(*   and chargebacks: a dispute is what its notices made it, and nothing   *)
(*   that was acknowledged is lost; what was recorded of a dispute stays.  *)
(*   A chargeback is stated on a loss only (parseDisputeNotice).           *)
(* - RefundCases, for every number of cases, relays, requests and          *)
(*   reconcilers: a case is cancelled or paid out, its effect is applied   *)
(*   once, and what it ended with stays.                                   *)
(* - AssistedSettlement, for every number of channels and late captures:   *)
(*   of the rivals for one request one wins, and what it won stays.        *)
(* - RefundSettlement and RefundCases: what the second assumes of Payment  *)
(*   is what the first does (AsRead).                                      *)
(* - Evidence, the specification the run checks: the invariants hold from  *)
(*   its initial states too, which are in the middle of things.            *)
(***************************************************************************)
EXTENDS MCPaymentEvidence, RefundSettlementProofs

-----------------------------------------------------------------------------
(* WebhookIntake: the inductive invariant *)

KindsOf(x) == {notice[h].kind : h \in AppliedTo(x)}

\* a dispute is what its notices made it
Agrees(x) ==
    LET d == dispute[x]  kinds == KindsOf(x) IN
    /\ announced[x] = [opened |-> IF d.status = "none" THEN 0 ELSE 1,
                       lost   |-> IF d.status = "lost" THEN 1 ELSE 0]
    /\ d.status = "none" <=> kinds = {}
    /\ d.status = "open" => kinds = {"opened"}
    /\ d.status \in {"won", "lost"} => d.status \in kinds /\ kinds \subseteq {"opened", d.status}
    /\ d.charge # "none" => /\ d.status = "lost"
                            /\ \A y \in Disputes \ {x} : dispute[y].charge # d.charge

\* what must be there before a notification may be said to have ended in a state
Evident(h, state) ==
    /\ state = "ignored" => notice[h].type = "unknown_type"
    /\ state \in {"processed", "conflict"} /\ notice[h].type = "capture" => "applied" \in kept[h]
    /\ state \in {"processed", "conflict"} /\ notice[h].type = "dispute" => observed[h] # "none"
    /\ state = "processed" => notice[h].type # "malformed_dispute"
    /\ state = "processed" /\ notice[h].type = "unkeyed_capture" =>
          "applied" \in kept[h] \/ capture[notice[h].target].payment = "settled"

\* a run rests on evidence before it marks the row, and so does the row
RunRests(p) ==
    run[p].step = "mark" => Evident(run[p].hook, run[p].state) /\ run[p].outcome # "quarantined"

HookRests(h) ==
    /\ Evident(h, hook[h].state)
    /\ hook[h].outcome = "quarantined" => "quarantined" \in kept[h]
    /\ h \in acked => notice[h].type = "dispute" /\ hook[h].matched

IntakeInv ==
    /\ IntakeTypeOK
    /\ \A x \in Disputes : Agrees(x)
    /\ \A h \in Hooks : HookRests(h)
    /\ \A p \in Runners : RunRests(p)

-----------------------------------------------------------------------------
(* WebhookIntake: what the helpers write *)

LEMMA Marked ==
    ASSUME IntakeTypeOK, NEW p \in Runners, NEW state \in HookState, NEW outcome \in Outcomes,
           NEW matched \in BOOLEAN, run[p].step # "idle", Ends(p, state, outcome, matched)
    PROVE  /\ run' \in [Runners -> Run]
           /\ \A q \in Runners : run'[q].step = "idle" <=> run'[q].hook = "none"
           /\ run'[p].step = "mark" /\ run'[p].hook = run[p].hook
           /\ run'[p].state = state /\ run'[p].outcome = outcome /\ run'[p].matched = matched
           /\ \A q \in Runners \ {p} : run'[q] = run[q]
<1> DEFINE row == [run[p] EXCEPT !.step = "mark", !.state = state, !.outcome = outcome, !.matched = matched]
<1>1. run \in [Runners -> Run] /\ run[p] \in Run
  BY DEF IntakeTypeOK
<1>2. /\ row \in Run
      /\ row.step = "mark" /\ row.hook = run[p].hook
      /\ row.state = state /\ row.outcome = outcome /\ row.matched = matched
  BY <1>1 DEF Run, Step
<1>3. run' = [run EXCEPT ![p] = row]
  BY DEF Ends
<1> HIDE DEF row
<1> QED BY <1>1, <1>2, <1>3 DEF IntakeTypeOK

LEMMA RunRested ==
    ASSUME IntakeTypeOK, NEW p \in Runners, End(p)
    PROVE  /\ run' \in [Runners -> Run]
           /\ \A q \in Runners : run'[q].step = "idle" <=> run'[q].hook = "none"
           /\ run'[p].step = "idle"
           /\ \A q \in Runners \ {p} : run'[q] = run[q]
<1>1. Idle \in Run /\ Idle.step = "idle" /\ Idle.hook = "none"
  BY DEF Idle, Run, Step, HookState, Settled, Outcomes
<1> HIDE DEF Idle
<1> QED BY <1>1 DEF End, IntakeTypeOK

LEMMA Begun ==
    ASSUME IntakeTypeOK, NEW p \in Runners, NEW h \in Hooks, NEW step \in {"seen", "work"}, Begin(p, h, step)
    PROVE  /\ run' \in [Runners -> Run]
           /\ \A q \in Runners : run'[q].step = "idle" <=> run'[q].hook = "none"
           /\ run'[p].step = step
           /\ \A q \in Runners \ {p} : run'[q] = run[q]
<1> DEFINE row == [Idle EXCEPT !.step = step, !.hook = h, !.uses = hook[h].uses]
<1>1. hook[h].uses \in Nat /\ h # "none"
  BY IntakeAssumption DEF IntakeTypeOK, HookRow
<1>2. row \in Run /\ row.step = step /\ row.hook = h
  BY <1>1 DEF Idle, Run, Step, HookState, Settled, Outcomes
<1>3. run' = [run EXCEPT ![p] = row]
  BY DEF Begin
<1> HIDE DEF row
<1> QED BY <1>1, <1>2, <1>3 DEF IntakeTypeOK

\* the row of a notification after a run, the retrier or a delivery has written it
LEMMA Rewritten ==
    ASSUME IntakeTypeOK, NEW h \in Hooks, NEW row \in HookRow, hook' = [hook EXCEPT ![h] = row]
    PROVE  /\ hook' \in [Hooks -> HookRow]
           /\ hook'[h] = row
           /\ \A g \in Hooks \ {h} : hook'[g] = hook[g]
BY DEF IntakeTypeOK

LEMMA Busy ==
    ASSUME IntakeTypeOK, NEW p \in Runners, run[p].step # "idle"
    PROVE  /\ run[p].hook \in Hooks /\ run[p] \in Run /\ hook[run[p].hook] \in HookRow
           /\ notice[run[p].hook] \in Parsed
BY DEF IntakeTypeOK, Run, HookRow, Notice

-----------------------------------------------------------------------------
(* WebhookIntake: what a step keeps *)

\* evidence only grows, and a payment that settled stays settled
SettledStays == \A a \in Targets : capture[a].payment = "settled" => capture'[a].payment = "settled"
Grows ==
    /\ notice' = notice
    /\ SettledStays
    /\ \A h \in Hooks : kept[h] \subseteq kept'[h] /\ (observed[h] # "none" => observed'[h] # "none")

RunSet == [Runners -> Run]
RunsTyped == run' \in RunSet /\ \A q \in Runners : run'[q].step = "idle" <=> run'[q].hook = "none"

LEMMA EvidentStays ==
    ASSUME IntakeInv, Grows, NEW h \in Hooks, NEW s, Evident(h, s)
    PROVE  Evident(h, s)'
<1>1. notice[h].target \in Targets
  BY DEF IntakeInv, IntakeTypeOK, Notice, Parsed
<1> QED BY <1>1 DEF Grows, SettledStays, Evident

LEMMA RunStays ==
    ASSUME IntakeInv, Grows, NEW p \in Runners, run'[p] = run[p]
    PROVE  RunRests(p)'
<1>1. CASE run[p].step # "mark"
  BY <1>1 DEF RunRests
<1>2. CASE run[p].step = "mark"
  <2>1. PICK h \in Hooks, s \in HookState : h = run[p].hook /\ s = run[p].state
    BY <1>2, Busy DEF IntakeInv, Run
  <2>2. Evident(h, s) /\ run[p].outcome # "quarantined"
    BY <1>2, <2>1 DEF IntakeInv, RunRests
  <2>3. Evident(h, s)'
    BY <2>2, EvidentStays
  <2>4. run'[p].hook = h /\ run'[p].state = s /\ run'[p].outcome # "quarantined"
    BY <2>1, <2>2
  <2> QED BY <2>3, <2>4 DEF RunRests, Evident
<1> QED BY <1>1, <1>2

LEMMA RowStays ==
    ASSUME IntakeInv, Grows, NEW h \in Hooks, hook'[h] = hook[h], h \in acked' => h \in acked
    PROVE  HookRests(h)'
<1>1. PICK s \in HookState : s = hook[h].state
  BY DEF IntakeInv, IntakeTypeOK, HookRow
<1>2. Evident(h, s)'
  BY <1>1, EvidentStays DEF IntakeInv, HookRests
<1>3. /\ hook[h].outcome = "quarantined" => "quarantined" \in kept[h]
      /\ h \in acked => notice[h].type = "dispute" /\ hook[h].matched
  BY DEF IntakeInv, HookRests
<1>4. /\ hook'[h].outcome = "quarantined" => "quarantined" \in kept'[h]
      /\ h \in acked' => notice'[h].type = "dispute" /\ hook'[h].matched
  BY <1>3 DEF Grows
<1> QED BY <1>1, <1>2, <1>4 DEF HookRests, Evident

\* a run that ends rests on what is there by now
LEMMA RunMarks ==
    ASSUME IntakeInv, Grows, NEW p \in Runners, NEW h \in Hooks, h = run[p].hook,
           NEW state \in HookState, NEW outcome \in Outcomes \ {"quarantined"}, NEW matched \in BOOLEAN,
           run[p].step # "idle", Evident(h, state)', Ends(p, state, outcome, matched)
    PROVE  RunsTyped /\ \A q \in Runners : RunRests(q)'
<1>1. /\ RunsTyped
      /\ run'[p].step = "mark" /\ run'[p].hook = h /\ run'[p].state = state /\ run'[p].outcome = outcome
      /\ \A q \in Runners \ {p} : run'[q] = run[q]
  BY Marked DEF IntakeInv, RunsTyped, RunSet
<1>2. RunRests(p)'
  BY <1>1 DEF RunRests, Evident
<1> QED BY <1>1, <1>2, RunStays

\* and one that stops or begins owes nothing yet
LEMMA RunFree ==
    ASSUME IntakeInv, Grows, NEW p \in Runners,
           \/ UNCHANGED run \/ End(p)
           \/ \E h \in Hooks, step \in {"seen", "work"} : Begin(p, h, step)
    PROVE  RunsTyped /\ \A q \in Runners : RunRests(q)'
<1>1. CASE UNCHANGED run
  BY <1>1, RunStays DEF RunsTyped, RunSet, IntakeInv, IntakeTypeOK
<1>2. ASSUME End(p) \/ \E h \in Hooks, step \in {"seen", "work"} : Begin(p, h, step)
      PROVE  RunsTyped /\ \A q \in Runners : RunRests(q)'
  <2>1. /\ RunsTyped /\ run'[p].step # "mark"
        /\ \A q \in Runners \ {p} : run'[q] = run[q]
    <3>1. CASE End(p)
      BY <3>1, RunRested DEF IntakeInv, RunsTyped, RunSet
    <3>2. ASSUME NEW h \in Hooks, NEW step \in {"seen", "work"}, Begin(p, h, step)
          PROVE  <2>1!:
      BY <3>2, Begun DEF IntakeInv, RunsTyped, RunSet
    <3> QED BY <1>2, <3>1, <3>2
  <2>2. RunRests(p)'
    BY <2>1 DEF RunRests
  <2> QED BY <2>1, <2>2, RunStays
<1> QED BY <1>1, <1>2

-----------------------------------------------------------------------------
(* WebhookIntake: the steps *)

SameDisputes == UNCHANGED <<notice, dispute, announced, observed>>

StillRests ==
    /\ IntakeTypeOK' /\ Grows
    /\ \A h \in Hooks : HookRests(h)'
    /\ \A p \in Runners : RunRests(p)'

\* a step that only works on a notification
LEMMA WorkRests ==
    ASSUME IntakeInv, Grows, RunsTyped, \A p \in Runners : RunRests(p)',
           UNCHANGED <<notice, hook, dispute, announced, observed, acked, deliveries>>,
           UNCHANGED capture \/ capture' \in [Targets -> CaptureRow],
           UNCHANGED kept \/ kept' \in [Hooks -> SUBSET {"applied", "quarantined", "unmatched_fact"}],
           UNCHANGED intakeFaults \/ IntakeFault
    PROVE  StillRests /\ SameDisputes
<1>1. IntakeTypeOK
  BY DEF IntakeInv
<1>2. intakeFaults' \in 0..MaxIntakeFaults
  BY <1>1, IntakeAssumption DEF IntakeFault, IntakeTypeOK
<1>3. IntakeTypeOK'
  BY <1>1, <1>2 DEF IntakeTypeOK, RunsTyped, RunSet
<1>4. \A h \in Hooks : HookRests(h)'
  BY RowStays
<1> QED BY <1>3, <1>4 DEF StillRests, SameDisputes

LEMMA HookWords ==
    /\ HookState = {"processed", "ignored", "conflict", "none", "received", "unmatched", "failed"}
    /\ {"none", "malformed_body", "transient_error", "retries_exhausted", "malformed_dispute", "held",
        "answered"} \subseteq Outcomes \ {"quarantined"}
    /\ "quarantined" \in Outcomes
BY DEF HookState, Settled, Outcomes

LEMMA KeepGrows ==
    ASSUME IntakeInv, NEW p \in Runners, run[p].step # "idle", NEW what \in {"applied", "quarantined", "unmatched_fact"},
           Keep(p, what), UNCHANGED <<notice, observed, capture>>
    PROVE  /\ Grows /\ what \in kept'[run[p].hook]
           /\ kept' \in [Hooks -> SUBSET {"applied", "quarantined", "unmatched_fact"}]
BY Busy DEF IntakeInv, IntakeTypeOK, Keep, Grows, SettledStays

LEMMA WorkSteps ==
    ASSUME IntakeInv, NEW p \in Runners,
           Ignore(p) \/ KeepUnmatched(p) \/ ApplyCapture(p) \/ SetAside(p) \/ FailForNow(p) \/ Die(p)
    PROVE  StillRests /\ SameDisputes
<1>0. run[p].step # "idle" /\ IntakeTypeOK
  BY DEF Ignore, KeepUnmatched, ApplyCapture, SetAside, FailForNow, Die, Working, IntakeInv
<1>1. PICK h \in Hooks : h = run[p].hook
  BY <1>0, Busy
<1>2. CASE Ignore(p)
  <2>1. Grows /\ Evident(h, "ignored")'
    BY <1>1, <1>2 DEF Ignore, Working, ledger, Grows, SettledStays, Evident
  <2>2. RunsTyped /\ \A q \in Runners : RunRests(q)'
    BY <1>0, <1>1, <1>2, <2>1, RunMarks, HookWords DEF Ignore
  <2> QED BY <1>2, <2>1, <2>2, WorkRests DEF Ignore, ledger
<1>3. CASE KeepUnmatched(p)
  <2>1. /\ Grows
        /\ UNCHANGED kept \/ kept' \in [Hooks -> SUBSET {"applied", "quarantined", "unmatched_fact"}]
    <3>1. CASE Keep(p, "unmatched_fact")
      BY <1>0, <1>3, <3>1, KeepGrows DEF KeepUnmatched
    <3>2. CASE UNCHANGED kept
      BY <1>3, <3>2 DEF KeepUnmatched, Grows, SettledStays
    <3> QED BY <1>3, <3>1, <3>2 DEF KeepUnmatched
  <2>2. Evident(h, "unmatched")'
    BY DEF Evident
  <2>3. RunsTyped /\ \A q \in Runners : RunRests(q)'
    BY <1>0, <1>1, <1>3, <2>1, <2>2, RunMarks, HookWords DEF KeepUnmatched
  <2> QED BY <1>3, <2>1, <2>3, WorkRests DEF KeepUnmatched
<1>4. CASE ApplyCapture(p)
  <2>0. UNCHANGED <<notice, hook, capture, dispute, observed, announced, acked, deliveries, intakeFaults>>
    BY <1>4 DEF ApplyCapture
  <2>1. CASE Keep(p, "applied") /\ \E state \in {"processed", "conflict"} : Ends(p, state, "answered", TRUE)
    <3>1. /\ Grows /\ "applied" \in kept'[h] /\ notice'[h].type \in CaptureTypes
          /\ kept' \in [Hooks -> SUBSET {"applied", "quarantined", "unmatched_fact"}]
      BY <1>0, <1>1, <1>4, <2>0, <2>1, KeepGrows DEF ApplyCapture, Working
    <3>2. PICK state \in {"processed", "conflict"} : Ends(p, state, "answered", TRUE)
      BY <2>1
    <3>3. Evident(h, state)'
      BY <3>1, <3>2 DEF Evident, CaptureTypes
    <3>4. RunsTyped /\ \A q \in Runners : RunRests(q)'
      BY <1>0, <1>1, <3>1, <3>2, <3>3, RunMarks, HookWords
    <3> QED BY <2>0, <3>1, <3>4, WorkRests
  <2>2. CASE /\ Working(p, {"unkeyed_capture"}) /\ UNCHANGED kept
             /\ Ends(p, Keyless(p), "answered", TRUE)
    <3>1. Grows /\ notice[h].type = "unkeyed_capture"
      BY <1>1, <2>0, <2>2 DEF Grows, SettledStays, Working
    <3>2. /\ Keyless(p) \in {"processed", "conflict"}
          /\ Keyless(p) = "processed" => capture[notice[h].target].payment = "settled"
      BY <1>1 DEF Keyless, Target
    <3>3. PICK state \in {"processed", "conflict"} : state = Keyless(p)
      BY <3>2
    <3>4. Evident(h, state)'
      BY <2>0, <3>1, <3>2, <3>3 DEF Evident
    <3>5. RunsTyped /\ \A q \in Runners : RunRests(q)'
      BY <1>0, <1>1, <2>2, <3>1, <3>3, <3>4, RunMarks, HookWords
    <3> QED BY <2>0, <2>2, <3>1, <3>5, WorkRests
  <2> QED BY <1>4, <2>1, <2>2 DEF ApplyCapture
<1>5. CASE FailForNow(p)
  <2>1. /\ Grows
        /\ UNCHANGED kept \/ kept' \in [Hooks -> SUBSET {"applied", "quarantined", "unmatched_fact"}]
    <3>1. CASE Keep(p, "applied")
      BY <1>0, <1>5, <3>1, KeepGrows DEF FailForNow
    <3>2. CASE UNCHANGED kept
      BY <1>5, <3>2 DEF FailForNow, Grows, SettledStays
    <3> QED BY <1>5, <3>1, <3>2 DEF FailForNow
  <2>2. Evident(h, "failed")'
    BY DEF Evident
  <2>3. PICK matched \in BOOLEAN : Ends(p, "failed", "transient_error", matched)
    BY <1>0, <1>1, <1>5 DEF FailForNow, Target, IntakeTypeOK, Notice, Parsed, CaptureRow
  <2>4. RunsTyped /\ \A q \in Runners : RunRests(q)'
    BY <1>0, <1>1, <2>1, <2>2, <2>3, RunMarks, HookWords
  <2> QED BY <1>5, <2>1, <2>4, WorkRests DEF FailForNow
<1>6. CASE Die(p)
  <2>1. Grows /\ End(p)
    BY <1>6 DEF Die, ledger, Grows, SettledStays
  <2>2. RunsTyped /\ \A q \in Runners : RunRests(q)'
    BY <2>1, RunFree
  <2> QED BY <1>6, <2>1, <2>2, WorkRests DEF Die, ledger
<1>7. CASE SetAside(p)
  <2>1. Grows /\ Evident(h, "conflict")'
    BY <1>1, <1>7 DEF SetAside, Working, ledger, Grows, SettledStays, Evident
  <2>2. RunsTyped /\ \A q \in Runners : RunRests(q)'
    BY <1>0, <1>1, <1>7, <2>1, RunMarks, HookWords DEF SetAside
  <2> QED BY <1>7, <2>1, <2>2, WorkRests DEF SetAside, ledger
<1> QED BY <1>2, <1>3, <1>4, <1>5, <1>6, <1>7

LEMMA RetrierSteps ==
    ASSUME IntakeInv, NEW w \in Retriers, Claim(w) \/ \E h \in Hooks : Select(w, h)
    PROVE  StillRests /\ SameDisputes
<1>0. w \in Runners /\ IntakeTypeOK
  BY DEF Runners, IntakeInv
<1>1. ASSUME NEW h \in Hooks, Select(w, h)
      PROVE  StillRests /\ SameDisputes
  <2>1. Grows /\ Begin(w, h, "seen")
    BY <1>1 DEF Select, ledger, Grows, SettledStays
  <2>2. RunsTyped /\ \A q \in Runners : RunRests(q)'
    BY <1>0, <2>1, RunFree
  <2> QED BY <1>1, <2>1, <2>2, WorkRests DEF Select, ledger
<1>2. CASE Claim(w)
  <2>0. Grows /\ run[w].step # "idle"
    BY <1>2 DEF Claim, ledger, Grows, SettledStays
  <2>1. PICK h \in Hooks : h = run[w].hook
    BY <1>0, <2>0, Busy
  <2>2. CASE Ends(w, "failed", "malformed_body", FALSE)
    <3>1. Evident(h, "failed")'
      BY DEF Evident
    <3>2. RunsTyped /\ \A q \in Runners : RunRests(q)'
      BY <1>0, <2>0, <2>1, <2>2, <3>1, RunMarks, HookWords
    <3> QED BY <1>2, <2>0, <3>2, WorkRests DEF Claim, ledger
  <2>3. CASE run' = [run EXCEPT ![w].step = "work"]
    <3> DEFINE row == [run[w] EXCEPT !.step = "work"]
    <3>1. row \in Run /\ row.step = "work" /\ row.hook = h /\ h # "none"
      BY <1>0, <2>0, <2>1, Busy, IntakeAssumption DEF Run, Step
    <3>2. run' = [run EXCEPT ![w] = row]
      BY <2>3
    <3> HIDE DEF row
    <3>3. /\ RunsTyped /\ run'[w].step = "work"
          /\ \A q \in Runners \ {w} : run'[q] = run[q]
      BY <1>0, <3>1, <3>2 DEF IntakeTypeOK, RunsTyped, RunSet
    <3>4. RunRests(w)'
      BY <3>3 DEF RunRests
    <3>5. \A q \in Runners : RunRests(q)'
      BY <2>0, <3>3, <3>4, RunStays
    <3> QED BY <1>2, <2>0, <3>3, <3>5, WorkRests DEF Claim, ledger
  <2>4. CASE End(w)
    <3>1. RunsTyped /\ \A q \in Runners : RunRests(q)'
      BY <1>0, <2>0, <2>4, RunFree
    <3> QED BY <1>2, <2>0, <3>1, WorkRests DEF Claim, ledger
  <2> QED BY <1>2, <2>2, <2>3, <2>4 DEF Claim
<1> QED BY <1>1, <1>2

LEMMA CaptureTyped ==
    ASSUME NEW c \in CaptureRow
    PROVE  CaptureSteps(c) \subseteq CaptureRow
<1> SUFFICES ASSUME NEW d \in CaptureSteps(c)
             PROVE  d \in CaptureRow
  OBVIOUS
<1>1. CASE d = [c EXCEPT !.known = TRUE]
  BY <1>1 DEF CaptureRow
<1>2. CASE c.facts < 2 /\ d = [c EXCEPT !.facts = @ + 1]
  BY <1>2 DEF CaptureRow
<1>3. CASE \E k \in {"settled", "settled_elsewhere", "unsuccessful"} : d = [c EXCEPT !.payment = k]
  BY <1>3 DEF CaptureRow
<1>4. CASE d = [c EXCEPT !.late = TRUE] \/ d = [c EXCEPT !.contested = TRUE]
  BY <1>4 DEF CaptureRow
<1> QED BY <1>1, <1>2, <1>3, <1>4 DEF CaptureSteps

LEMMA SettledIsKept ==
    ASSUME NEW c \in CaptureRow, c.payment = "settled", NEW d \in CaptureSteps(c)
    PROVE  d.payment = "settled"
BY DEF CaptureSteps, CaptureRow

LEMMA GatherSteps ==
    ASSUME IntakeInv, NEW a \in Targets, GatherEvidence(a)
    PROVE  StillRests /\ SameDisputes
<1>0. PICK c \in CaptureSteps(capture[a]) : capture' = [capture EXCEPT ![a] = c]
  BY DEF GatherEvidence
<1>1. Grows /\ UNCHANGED run
  <2>1. capture[a].payment = "settled" => c.payment = "settled"
    BY SettledIsKept DEF IntakeInv, IntakeTypeOK
  <2>2. SettledStays
    BY <1>0, <2>1 DEF SettledStays, IntakeInv, IntakeTypeOK
  <2> QED BY <2>2 DEF GatherEvidence, Grows
<1>2. capture' \in [Targets -> CaptureRow]
  <2>1. capture \in [Targets -> CaptureRow] /\ capture[a] \in CaptureRow
    BY DEF IntakeInv, IntakeTypeOK
  <2>2. PICK d \in CaptureRow : capture' = [capture EXCEPT ![a] = d]
    BY <2>1, CaptureTyped DEF GatherEvidence
  <2> QED BY <2>1, <2>2
<1>3. RunsTyped /\ \A q \in Runners : RunRests(q)'
  BY <1>1, RunStays DEF RunsTyped, RunSet, IntakeInv, IntakeTypeOK
<1> QED BY <1>1, <1>2, <1>3, WorkRests DEF GatherEvidence

\* one row is written, with the evidence for what it now says
LEMMA RowRests ==
    ASSUME IntakeInv, Grows, RunsTyped, \A p \in Runners : RunRests(p)',
           NEW h \in Hooks, NEW row \in HookRow, hook' = [hook EXCEPT ![h] = row],
           NEW s, s = row.state, Evident(h, s)', row.outcome = "quarantined" => "quarantined" \in kept'[h],
           h \in acked' => notice[h].type = "dispute" /\ row.matched,
           acked' \subseteq acked \cup {h},
           UNCHANGED <<notice, capture, dispute, announced, observed>>,
           UNCHANGED kept \/ kept' \in [Hooks -> SUBSET {"applied", "quarantined", "unmatched_fact"}],
           deliveries' \in 0..MaxDeliveries, UNCHANGED intakeFaults
    PROVE  StillRests /\ SameDisputes
<1>1. IntakeTypeOK
  BY DEF IntakeInv
<1>2. hook' \in [Hooks -> HookRow] /\ hook'[h] = row /\ \A g \in Hooks \ {h} : hook'[g] = hook[g]
  BY <1>1, Rewritten
<1>3. IntakeTypeOK'
  BY <1>1, <1>2 DEF IntakeTypeOK, RunsTyped, RunSet
<1>4. HookRests(h)'
  BY <1>2 DEF HookRests, Evident, Grows
<1>5. \A g \in Hooks \ {h} : HookRests(g)'
  BY <1>2, RowStays
<1> QED BY <1>3, <1>4, <1>5 DEF StillRests, SameDisputes

LEMMA ExhaustSteps ==
    ASSUME IntakeInv, NEW h \in Hooks, Exhaust(h)
    PROVE  StillRests /\ SameDisputes
<1> DEFINE row == [hook[h] EXCEPT !.state = "failed", !.outcome = "retries_exhausted"]
<1>0. hook[h] \in HookRow /\ IntakeTypeOK
  BY DEF IntakeInv, IntakeTypeOK
<1>1. /\ row \in HookRow /\ row.state = "failed" /\ row.outcome = "retries_exhausted"
      /\ row.matched = hook[h].matched
  BY <1>0, HookWords DEF HookRow
<1>2. hook' = [hook EXCEPT ![h] = row]
  BY DEF Exhaust
<1> HIDE DEF row
<1>3. Grows /\ UNCHANGED run
  BY DEF Exhaust, ledger, Grows, SettledStays
<1>4. RunsTyped /\ \A q \in Runners : RunRests(q)'
  BY <1>3, RunFree, RunStays DEF RunsTyped, RunSet, IntakeInv, IntakeTypeOK
<1>5. Evident(h, "failed")'
  BY DEF Evident
<1>6. h \in acked' => notice[h].type = "dispute" /\ row.matched
  BY <1>1 DEF Exhaust, IntakeInv, HookRests
<1>7. deliveries' \in 0..MaxDeliveries
  BY <1>0 DEF Exhaust, IntakeTypeOK
<1> QED BY <1>1, <1>2, <1>3, <1>4, <1>5, <1>6, <1>7, RowRests DEF Exhaust, ledger

LEMMA QuarantineSteps ==
    ASSUME IntakeInv, NEW p \in Runners, Quarantine(p)
    PROVE  StillRests /\ SameDisputes
<1>0. run[p].step # "idle" /\ IntakeTypeOK
  BY DEF Quarantine, Working, IntakeInv
<1>1. PICK h \in Hooks : h = run[p].hook /\ hook[h] \in HookRow /\ notice[h] \in Parsed
  BY <1>0, Busy
<1> DEFINE matched == hook[h].matched \/ Target(p).known
           row     == [hook[h] EXCEPT !.state = "conflict", !.outcome = "quarantined", !.uses = @ + 1,
                                      !.matched = matched]
<1>2. matched \in BOOLEAN
  BY <1>0, <1>1 DEF Target, IntakeTypeOK, CaptureRow, Parsed
<1>3. hook' = [hook EXCEPT ![h] = row]
  BY <1>1 DEF Quarantine
<1> HIDE DEF matched
<1>4. row \in HookRow /\ row.state = "conflict" /\ row.outcome = "quarantined"
  <2>1. PICK uses \in Nat : uses = hook[h].uses + 1
    BY <1>1 DEF HookRow
  <2>2. PICK b \in BOOLEAN : b = matched
    BY <1>2
  <2>3. row = [hook[h] EXCEPT !.state = "conflict", !.outcome = "quarantined", !.uses = uses, !.matched = b]
    BY <2>1, <2>2
  <2> HIDE DEF row
  <2> QED BY <1>1, <2>3, HookWords DEF HookRow
<1> HIDE DEF row
<1>5. /\ Grows /\ "quarantined" \in kept'[h] /\ notice[h].type = "unreadable_currency"
      /\ kept' \in [Hooks -> SUBSET {"applied", "quarantined", "unmatched_fact"}]
  BY <1>0, <1>1, KeepGrows DEF Quarantine, Working
<1>6. RunsTyped /\ \A q \in Runners : RunRests(q)'
  BY <1>5, RunFree DEF Quarantine
<1>7. Evident(h, "conflict")' /\ h \notin acked'
  BY <1>5 DEF Evident, Grows, Quarantine, IntakeInv, HookRests
<1>8. deliveries' \in 0..MaxDeliveries
  BY <1>0 DEF Quarantine, IntakeTypeOK
<1> QED BY <1>3, <1>4, <1>5, <1>6, <1>7, <1>8, RowRests DEF Quarantine

LEMMA MarkSteps ==
    ASSUME IntakeInv, NEW p \in Runners, MarkState(p)
    PROVE  StillRests /\ SameDisputes
<1>0. run[p].step = "mark" /\ run[p].step # "idle" /\ IntakeTypeOK
  BY DEF MarkState, IntakeInv
<1>1. PICK h \in Hooks : h = run[p].hook /\ hook[h] \in HookRow /\ run[p] \in Run
  BY <1>0, Busy
<1> DEFINE matched == StillMatched(h, p)
           row     == [hook[h] EXCEPT !.state = run[p].state, !.outcome = run[p].outcome,
                                      !.uses = @ + 1, !.matched = matched]
<1>2. matched \in BOOLEAN /\ (matched <=> hook[h].matched \/ run[p].matched)
  BY <1>1 DEF StillMatched, HookRow, Run
<1>3. hook' = [hook EXCEPT ![h] = row]
  BY <1>1 DEF MarkState
<1> HIDE DEF matched
<1>4. /\ row \in HookRow /\ row.state = run[p].state /\ row.outcome = run[p].outcome /\ row.matched = matched
  <2>1. PICK uses \in Nat : uses = hook[h].uses + 1
    BY <1>1 DEF HookRow
  <2>2. PICK b \in BOOLEAN, s \in HookState, o \in Outcomes : b = matched /\ s = run[p].state /\ o = run[p].outcome
    BY <1>1, <1>2 DEF Run
  <2>3. row = [hook[h] EXCEPT !.state = s, !.outcome = o, !.uses = uses, !.matched = b]
    BY <2>1, <2>2
  <2> HIDE DEF row
  <2> QED BY <1>1, <2>2, <2>3 DEF HookRow
<1> HIDE DEF row
<1>5. Grows
  BY DEF MarkState, ledger, Grows, SettledStays
<1>6. RunsTyped /\ \A q \in Runners : RunRests(q)'
  BY <1>5, RunFree DEF MarkState
<1>7. PICK s \in HookState : s = run[p].state
  BY <1>1 DEF Run
<1>8. Evident(h, s)' /\ row.outcome # "quarantined"
  <2>1. Evident(h, s) /\ run[p].outcome # "quarantined"
    BY <1>0, <1>1, <1>7 DEF IntakeInv, RunRests
  <2> QED BY <1>4, <1>5, <2>1, EvidentStays
<1>9. acked' \subseteq acked \cup {h} /\ (h \in acked' => notice[h].type = "dispute" /\ row.matched)
  <2>1. h \in acked => notice[h].type = "dispute" /\ hook[h].matched
    BY DEF IntakeInv, HookRests
  <2> QED BY <1>1, <1>2, <1>4, <2>1 DEF MarkState
<1>10. deliveries' \in 0..MaxDeliveries
  BY <1>0 DEF MarkState, IntakeTypeOK
<1> QED BY <1>3, <1>4, <1>5, <1>6, <1>7, <1>8, <1>9, <1>10, RowRests DEF MarkState, ledger

LEMMA ReceiveSteps ==
    ASSUME IntakeInv, NEW p \in Endpoints, NEW h \in Hooks, Receive(p, h)
    PROVE  StillRests /\ SameDisputes
<1>0. p \in Runners /\ IntakeTypeOK /\ hook[h] \in HookRow /\ hook \in [Hooks -> HookRow]
  BY DEF Runners, IntakeInv, IntakeTypeOK
<1>1. Grows /\ UNCHANGED <<notice, capture, dispute, announced, observed, kept, intakeFaults>>
  BY DEF Receive, ledger, Grows, SettledStays
<1>2. deliveries' \in 0..MaxDeliveries
  BY <1>0, IntakeAssumption DEF Receive, IntakeTypeOK
<1>3. /\ hook[h].outcome = "quarantined" => "quarantined" \in kept'[h]
      /\ h \in acked => notice[h].type = "dispute" /\ hook[h].matched
  BY <1>1 DEF IntakeInv, HookRests
<1>4. PICK s \in HookState : s = hook[h].state /\ Evident(h, s)
  BY <1>0 DEF HookRow, IntakeInv, HookRests
<1>5. Evident(h, s)' /\ Evident(h, "received")'
  <2>1. Evident(h, s)'
    BY <1>1, <1>4, EvidentStays
  <2> QED BY <2>1 DEF Evident
<1>6. CASE s \in Settled
  <2>1. UNCHANGED <<hook, run>> /\ acked' \subseteq acked \cup {h}
        /\ (h \in acked' => notice[h].type = "dispute" /\ hook[h].matched)
    BY <1>3, <1>4, <1>6 DEF Receive, Acknowledges
  <2>2. RunsTyped /\ \A q \in Runners : RunRests(q)'
    BY <1>0, <1>1, <2>1, RunFree
  <2>3. hook' = [hook EXCEPT ![h] = hook[h]]
    BY <1>0, <2>1
  <2> QED BY <1>0, <1>1, <1>2, <1>3, <1>4, <1>5, <2>1, <2>2, <2>3, RowRests
<1>7. CASE s \notin Settled
  <2>1. UNCHANGED acked
    BY <1>4, <1>7 DEF Receive
  <2>2. RunsTyped /\ \A q \in Runners : RunRests(q)'
    <3>1. CASE notice[h].type = "malformed_body"
      <4> DEFINE row == [Idle EXCEPT !.step = "mark", !.hook = h, !.state = "failed", !.outcome = "malformed_body"]
      <4>1. row \in Run /\ row.step = "mark" /\ row.hook = h /\ row.state = "failed" /\ row.outcome = "malformed_body"
        BY DEF Idle, Run, Step, HookState, Settled, Outcomes
      <4>2. run' = [run EXCEPT ![p] = row]
        BY <1>4, <1>7, <3>1 DEF Receive
      <4> HIDE DEF row
      <4>3. h # "none"
        BY IntakeAssumption
      <4>4. /\ RunsTyped /\ run'[p] = row
            /\ \A q \in Runners \ {p} : run'[q] = run[q]
        BY <1>0, <4>1, <4>2, <4>3 DEF IntakeTypeOK, RunsTyped, RunSet
      <4>5. RunRests(p)'
        BY <4>1, <4>4 DEF RunRests, Evident
      <4> QED BY <1>1, <4>4, <4>5, RunStays
    <3>2. CASE notice[h].type # "malformed_body"
      <4>1. Begin(p, h, "work")
        BY <1>4, <1>7, <3>2 DEF Receive
      <4> QED BY <1>0, <1>1, <4>1, RunFree
    <3> QED BY <3>1, <3>2
  <2>3. CASE hook' = hook
    <3>1. hook' = [hook EXCEPT ![h] = hook[h]]
      BY <1>0, <2>3
    <3> QED BY <1>0, <1>1, <1>2, <1>3, <1>4, <1>5, <2>1, <2>2, <3>1, RowRests
  <2>4. CASE hook' = [hook EXCEPT ![h].state = "received"]
    <3> DEFINE row == [hook[h] EXCEPT !.state = "received"]
    <3>1. /\ row \in HookRow /\ row.state = "received" /\ row.outcome = hook[h].outcome
          /\ row.matched = hook[h].matched
      BY <1>0, HookWords DEF HookRow
    <3>2. hook' = [hook EXCEPT ![h] = row]
      BY <2>4
    <3> HIDE DEF row
    <3> QED BY <1>1, <1>2, <1>3, <1>5, <2>1, <2>2, <3>1, <3>2, RowRests
  <2> QED BY <1>4, <1>7, <2>3, <2>4 DEF Receive
<1> QED BY <1>6, <1>7

-----------------------------------------------------------------------------
(* WebhookIntake: disputes *)

LEMMA DisputesStay ==
    ASSUME IntakeInv, UNCHANGED <<notice, dispute, announced>>,
           \A h \in Hooks : observed'[h] = "applied" <=> observed[h] = "applied",
           NEW x \in Disputes
    PROVE  Agrees(x)'
<1>1. KindsOf(x)' = KindsOf(x)
  BY DEF KindsOf, AppliedTo
<1>2. Agrees(x)
  BY DEF IntakeInv
<1> QED BY <1>1, <1>2 DEF Agrees

\* what the dispute was when a notice applied to it
Opens(n)  == dispute[n.dispute].status = "none"
Applies(n) == Free(n.charge) /\ (Opens(n) \/ Closes(n) \/ Charges(n))

LEMMA ApplyAgrees ==
    ASSUME IntakeInv, NEW h \in Hooks, NEW n \in Notice, n = notice[h], observed[h] = "none", Applies(n),
           Apply(n), observed' = [observed EXCEPT ![h] = "applied"], UNCHANGED notice
    PROVE  /\ dispute' \in [Disputes -> DisputeRow] /\ announced' \in [Disputes -> [opened : Nat, lost : Nat]]
           /\ \A y \in Disputes : Agrees(y)'
<1> DEFINE x == n.dispute
<1>0. /\ n.kind \in {"opened", "won", "lost"} /\ n.charge \in Chargebacks \cup {"none"} /\ x \in Disputes
      /\ n.target \in Targets /\ n.exposure \in {"stated", "other"}
      /\ n.charge # "none" => n.kind = "lost"
  BY DEF Notice, Parsed
<1>1. /\ dispute \in [Disputes -> DisputeRow] /\ dispute[x] \in DisputeRow /\ observed \in [Hooks -> Verdict]
      /\ announced \in [Disputes -> [opened : Nat, lost : Nat]]
      /\ dispute[x].charge \in Chargebacks \cup {"none"}
  BY <1>0 DEF IntakeInv, IntakeTypeOK, DisputeRow
<1>2. PICK charge \in Chargebacks \cup {"none"} : charge = IF n.charge = "none" THEN dispute[x].charge ELSE n.charge
  BY <1>0, <1>1
<1>3. PICK status \in {"open", "won", "lost"} : status = IF n.kind = "opened" THEN "open" ELSE n.kind
  BY <1>0
<1> DEFINE row == [status |-> status, target |-> n.target, exposure |-> n.exposure, charge |-> charge]
<1>4. row \in DisputeRow /\ row.status = status /\ row.charge = charge
  BY <1>0 DEF DisputeRow
<1>5. dispute' = [dispute EXCEPT ![x] = row]
  BY <1>2, <1>3 DEF Apply
<1> HIDE DEF row
<1>6. /\ dispute' \in [Disputes -> DisputeRow] /\ dispute'[x].status = status /\ dispute'[x].charge = charge
      /\ \A y \in Disputes \ {x} : dispute'[y] = dispute[y]
  BY <1>0, <1>1, <1>4, <1>5
<1>7. PICK o \in Nat, l \in Nat : /\ o = IF dispute[x].status = "none" THEN announced[x].opened + 1 ELSE announced[x].opened
                                  /\ l = IF n.kind = "lost" /\ dispute[x].status # "lost" THEN announced[x].lost + 1
                                         ELSE announced[x].lost
  BY <1>0, <1>1
<1>8. /\ announced' \in [Disputes -> [opened : Nat, lost : Nat]]
      /\ announced'[x] = [opened |-> o, lost |-> l]
      /\ \A y \in Disputes \ {x} : announced'[y] = announced[y]
  <2> DEFINE said == [announced[x] EXCEPT !.opened = o, !.lost = l]
  <2>1. announced' = [announced EXCEPT ![x] = said]
    BY <1>7 DEF Apply
  <2>2. said = [opened |-> o, lost |-> l]
    <3>1. PICK old \in [opened : Nat, lost : Nat] : old = announced[x]
      BY <1>0, <1>1
    <3> DEFINE new == [old EXCEPT !.opened = o, !.lost = l]
    <3>2. new \in [opened : Nat, lost : Nat] /\ new.opened = o /\ new.lost = l
      OBVIOUS
    <3>3. said = new
      BY <3>1
    <3> HIDE DEF new, said
    <3> QED BY <3>2, <3>3
  <2>3. announced' = [announced EXCEPT ![x] = [opened |-> o, lost |-> l]]
    BY <2>1, <2>2
  <2> HIDE DEF said
  <2> QED BY <1>0, <1>1, <2>3
<1>9. KindsOf(x)' = KindsOf(x) \cup {n.kind} /\ \A y \in Disputes \ {x} : KindsOf(y)' = KindsOf(y)
  <2>1. \A g \in Hooks : observed'[g] = "applied" <=> observed[g] = "applied" \/ g = h
    BY <1>1
  <2>2. AppliedTo(x)' = AppliedTo(x) \cup {h} /\ \A y \in Disputes \ {x} : AppliedTo(y)' = AppliedTo(y)
    BY <2>1 DEF AppliedTo
  <2> QED BY <2>2 DEF KindsOf
<1>10. \A y \in Disputes : Agrees(y)
  BY DEF IntakeInv
<1> HIDE DEF x
<1>11. Agrees(x)'
  <2>1. Agrees(x) /\ x \in Disputes
    BY <1>0, <1>10 DEF x
  <2>2. charge # "none" => status = "lost" /\ \A y \in Disputes \ {x} : dispute[y].charge # charge
    BY <1>0, <1>2, <1>3, <2>1 DEF Applies, Opens, Closes, Charges, Free, Agrees, x
  <2>3. charge # "none" => status = "lost" /\ \A y \in Disputes \ {x} : dispute'[y].charge # charge
    BY <1>6, <2>2
  <2>4. /\ status = "open" => KindsOf(x)' = {"opened"}
        /\ status \in {"won", "lost"} => status \in KindsOf(x)' /\ KindsOf(x)' \subseteq {"opened", status}
    BY <1>0, <1>3, <1>9, <2>1 DEF Applies, Opens, Closes, Charges, Agrees, x
  <2>5. [opened |-> o, lost |-> l] = [opened |-> 1, lost |-> IF status = "lost" THEN 1 ELSE 0]
    BY <1>0, <1>3, <1>7, <2>1 DEF Applies, Opens, Closes, Charges, Agrees, x
  <2>6. KindsOf(x)' # {}
    BY <1>9
  <2> QED BY <1>3, <1>6, <1>8, <2>3, <2>4, <2>5, <2>6 DEF Agrees
<1>12. ASSUME NEW y \in Disputes \ {x}
       PROVE  Agrees(y)'
  <2>1. Agrees(y)
    BY <1>10
  <2>2. dispute'[y] = dispute[y] /\ announced'[y] = announced[y] /\ KindsOf(y)' = KindsOf(y)
    BY <1>6, <1>8, <1>9
  <2>3. dispute[y].charge # "none" => charge # dispute[y].charge
    <3>1. dispute[y].charge # "none" => dispute[x].charge # dispute[y].charge
      BY <1>0, <2>1 DEF Agrees, x
    <3>2. n.charge # "none" => dispute[y].charge # n.charge
      BY DEF Applies, Free
    <3> QED BY <1>2, <3>1, <3>2
  <2>4. dispute[y].charge # "none" => \A z \in Disputes \ {y} : dispute'[z].charge # dispute[y].charge
    BY <1>6, <2>1, <2>3 DEF Agrees
  <2> QED BY <2>1, <2>2, <2>4 DEF Agrees
<1> QED BY <1>6, <1>8, <1>11, <1>12

LEMMA VerdictApplies ==
    ASSUME IntakeInv, NEW n \in Notice,
           \/ KnownDispute(n) /\ OnKnown(n) = "applied"
           \/ ~ KnownDispute(n) /\ Free(n.charge)
    PROVE  Applies(n)
<1>1. CASE KnownDispute(n) /\ OnKnown(n) = "applied"
  <2>1. Free(n.charge) /\ (Closes(n) \/ Charges(n))
    BY <1>1 DEF OnKnown
  <2> QED BY <2>1 DEF Applies
<1>2. CASE ~ KnownDispute(n) /\ Free(n.charge)
  BY <1>2 DEF Applies, Opens, KnownDispute
<1> QED BY <1>1, <1>2

LEMMA IngestSteps ==
    ASSUME IntakeInv, NEW p \in Runners, Ingest(p)
    PROVE  StillRests /\ \A x \in Disputes : Agrees(x)'
<1>0. run[p].step # "idle" /\ IntakeTypeOK
  BY DEF Ingest, Working, IntakeInv
<1> DEFINE note == notice[run[p].hook]
           ruling == IF ~ capture[note.target].known THEN "unmatched"
                     ELSE IF observed[run[p].hook] # "none" THEN "again"
                     ELSE IF KnownDispute(note) THEN OnKnown(note)
                     ELSE OnNew(note, LastChance(p))
<1>1. run[p].hook \in Hooks /\ note \in Notice /\ note.type = "dispute"
  BY <1>0, Busy DEF Ingest, Working, IntakeTypeOK
<1>2. /\ observed' = IF ruling \in Verdict THEN [observed EXCEPT ![run[p].hook] = ruling] ELSE observed
      /\ IF ruling = "applied" THEN Apply(note) ELSE UNCHANGED <<dispute, announced>>
      /\ IF ruling = "unmatched" THEN Ends(p, "unmatched", "answered", FALSE)
         ELSE IF ruling = "held" THEN Ends(p, "unmatched", "held", TRUE)
         ELSE Ends(p, IF observed'[run[p].hook] = "conflict" THEN "conflict" ELSE "processed", "answered", TRUE)
  BY DEF Ingest
<1>3. /\ ruling \in {"unmatched", "again", "held", "conflict", "duplicate", "applied"}
      /\ ruling = "again" => observed[run[p].hook] # "none"
      /\ ruling \in {"held", "conflict", "duplicate", "applied"} => observed[run[p].hook] = "none"
      /\ ruling = "applied" => \/ KnownDispute(note) /\ OnKnown(note) = "applied"
                               \/ ~ KnownDispute(note) /\ Free(note.charge)
  <2>1. OnKnown(note) \in {"conflict", "duplicate", "applied"}
    BY DEF OnKnown
  <2>2. /\ OnNew(note, LastChance(p)) \in {"held", "conflict", "applied"}
        /\ OnNew(note, LastChance(p)) = "applied" => Free(note.charge)
    BY DEF OnNew
  <2> QED BY <2>1, <2>2
<1> HIDE DEF ruling
<1>4. PICK h \in Hooks, n \in Notice, verdict \in {"unmatched", "again", "held", "conflict", "duplicate", "applied"} :
        h = run[p].hook /\ n = note /\ verdict = ruling
  BY <1>1, <1>3
<1>5. /\ n = notice[h] /\ n.type = "dispute"
      /\ verdict = "again" => observed[h] # "none"
      /\ verdict \in {"held", "conflict", "duplicate", "applied"} => observed[h] = "none"
      /\ observed' = IF verdict \in Verdict THEN [observed EXCEPT ![h] = verdict] ELSE observed
      /\ verdict # "applied" => UNCHANGED <<dispute, announced>>
  BY <1>1, <1>2, <1>3, <1>4
<1>6. /\ verdict = "unmatched" => Ends(p, "unmatched", "answered", FALSE)
      /\ verdict = "held" => Ends(p, "unmatched", "held", TRUE)
      /\ verdict \notin {"unmatched", "held"} =>
           Ends(p, "conflict", "answered", TRUE) \/ Ends(p, "processed", "answered", TRUE)
  BY <1>2, <1>4
<1>7. verdict = "applied" => Apply(n) /\ Applies(n)
  <2>1. ruling = "applied" => (KnownDispute(n) /\ OnKnown(n) = "applied") \/ (~ KnownDispute(n) /\ Free(n.charge))
    BY <1>3, <1>4 DEF KnownDispute, OnKnown, Free, Concerns, Closes, Charges, Repeats
  <2>2. ruling = "applied" => Apply(n)
    BY <1>2, <1>4 DEF Apply
  <2> QED BY <1>4, <2>1, <2>2, VerdictApplies
<1> HIDE DEF note
<1>8. UNCHANGED <<notice, hook, capture, kept, acked, deliveries, intakeFaults>>
  BY DEF Ingest
<1>9. observed \in [Hooks -> Verdict] /\ Verdict = {"none", "applied", "duplicate", "conflict"}
  BY <1>0 DEF IntakeTypeOK, Verdict
<1>10. /\ observed' \in [Hooks -> Verdict]
       /\ \A g \in Hooks : observed[g] # "none" => observed'[g] # "none"
       /\ verdict \notin {"unmatched", "held"} => observed'[h] # "none"
  BY <1>4, <1>9, <1>5
<1>11. Grows
  BY <1>8, <1>10 DEF Grows, SettledStays
<1>12. RunsTyped /\ \A q \in Runners : RunRests(q)'
  <2>1. Evident(h, "unmatched")'
    BY DEF Evident
  <2>2. verdict \notin {"unmatched", "held"} => Evident(h, "conflict")' /\ Evident(h, "processed")'
    BY <1>8, <1>10, <1>5 DEF Evident
  <2>3. CASE verdict = "unmatched"
    <3>1. Ends(p, "unmatched", "answered", FALSE)
      BY <1>6, <2>3
    <3> QED BY <1>0, <1>4, <1>11, <2>1, <3>1, RunMarks, HookWords
  <2>4. CASE verdict = "held"
    <3>1. Ends(p, "unmatched", "held", TRUE)
      BY <1>6, <2>4
    <3> QED BY <1>0, <1>4, <1>11, <2>1, <3>1, RunMarks, HookWords
  <2>5. CASE verdict \notin {"unmatched", "held"}
    <3>1. Ends(p, "conflict", "answered", TRUE) \/ Ends(p, "processed", "answered", TRUE)
      BY <1>6, <2>5
    <3> QED BY <1>0, <1>4, <1>11, <2>2, <2>5, <3>1, RunMarks, HookWords
  <2> QED BY <2>3, <2>4, <2>5
<1>13. /\ dispute' \in [Disputes -> DisputeRow] /\ announced' \in [Disputes -> [opened : Nat, lost : Nat]]
       /\ \A x \in Disputes : Agrees(x)'
  <2>1. CASE verdict = "applied"
    <3>1. Apply(n) /\ observed' = [observed EXCEPT ![h] = "applied"] /\ observed[h] = "none"
      BY <1>9, <1>5, <1>7, <2>1
    <3> QED BY <1>5, <1>7, <1>8, <2>1, <3>1, ApplyAgrees
  <2>2. CASE verdict # "applied"
    <3>1. UNCHANGED <<notice, dispute, announced>>
      BY <1>8, <1>5, <2>2
    <3>2. \A g \in Hooks : observed'[g] = "applied" <=> observed[g] = "applied"
      BY <1>4, <1>9, <1>5, <2>2
    <3>3. dispute' \in [Disputes -> DisputeRow] /\ announced' \in [Disputes -> [opened : Nat, lost : Nat]]
      BY <1>0, <3>1 DEF IntakeTypeOK
    <3> QED BY <3>1, <3>2, <3>3, DisputesStay
  <2> QED BY <2>1, <2>2
<1>14. IntakeTypeOK'
  BY <1>0, <1>8, <1>10, <1>12, <1>13 DEF IntakeTypeOK, RunsTyped, RunSet
<1>15. \A g \in Hooks : HookRests(g)'
  BY <1>8, <1>11, RowStays
<1> QED BY <1>11, <1>12, <1>13, <1>14, <1>15 DEF StillRests

-----------------------------------------------------------------------------
(* WebhookIntake: the theorems *)

LEMMA IntakeInvInit == IntakeInit => IntakeInv
<1> SUFFICES ASSUME IntakeInit
             PROVE  IntakeInv
  OBVIOUS
<1>1. MaxDeliveries \in Nat /\ MaxIntakeFaults \in Nat
  BY IntakeAssumption
<1>2. IntakeTypeOK
  <2>1. Idle \in Run /\ Idle.step = "idle" /\ Idle.hook = "none"
    BY DEF Idle, Run, Step, HookState, Settled, Outcomes
  <2> HIDE DEF Idle
  <2>2. run \in [Runners -> Run] /\ \A p \in Runners : run[p].step = "idle" <=> run[p].hook = "none"
    BY <2>1 DEF IntakeInit, NothingIngested
  <2>3. hook \in [Hooks -> HookRow] /\ capture \in [Targets -> CaptureRow] /\ dispute \in [Disputes -> DisputeRow]
    BY DEF IntakeInit, NothingIngested, HookRow, HookState, Outcomes, CaptureRow, DisputeRow
  <2>4. observed \in [Hooks -> Verdict] /\ announced \in [Disputes -> [opened : Nat, lost : Nat]]
    BY DEF IntakeInit, NothingIngested, Verdict
  <2>5. kept \in [Hooks -> SUBSET {"applied", "quarantined", "unmatched_fact"}]
    BY DEF IntakeInit, NothingIngested
  <2> QED BY <1>1, <2>2, <2>3, <2>4, <2>5 DEF IntakeInit, NothingIngested, IntakeTypeOK
<1>3. ASSUME NEW x \in Disputes
      PROVE  Agrees(x)
  <2>1. KindsOf(x) = {}
    BY DEF KindsOf, AppliedTo, IntakeInit, NothingIngested
  <2> QED BY <2>1 DEF Agrees, IntakeInit, NothingIngested
<1>4. /\ \A h \in Hooks : HookRests(h)
      /\ \A p \in Runners : RunRests(p)
  BY DEF HookRests, RunRests, Evident, IntakeInit, NothingIngested, Idle
<1> QED BY <1>2, <1>3, <1>4 DEF IntakeInv

LEMMA IntakeInvNext == IntakeInv /\ [IntakeNext]_intakeVars => IntakeInv'
<1> SUFFICES ASSUME IntakeInv, [IntakeNext]_intakeVars
             PROVE  IntakeInv'
  OBVIOUS
<1> DEFINE Goal == StillRests /\ \A x \in Disputes : Agrees(x)'
<1>1. ASSUME StillRests, SameDisputes
      PROVE  Goal
  BY <1>1, DisputesStay DEF SameDisputes
<1>2. ASSUME UNCHANGED intakeVars
      PROVE  Goal
  <2>1. Grows /\ UNCHANGED run
    BY <1>2 DEF intakeVars, ledger, Grows, SettledStays
  <2>2. RunsTyped /\ \A q \in Runners : RunRests(q)'
    BY <2>1, RunStays DEF RunsTyped, RunSet, IntakeInv, IntakeTypeOK
  <2> QED BY <1>1, <1>2, <2>1, <2>2, WorkRests DEF intakeVars, ledger
<1> HIDE DEF Goal
<1>3. ASSUME NEW p \in Runners, \/ Process(p) \/ FailForNow(p) \/ MarkState(p) \/ Die(p)
      PROVE  Goal
  <2>1. CASE Ingest(p)
    BY <2>1, IngestSteps DEF Goal
  <2>2. CASE Quarantine(p)
    BY <1>1, <2>2, QuarantineSteps
  <2>3. CASE MarkState(p)
    BY <1>1, <2>3, MarkSteps
  <2>4. CASE Ignore(p) \/ KeepUnmatched(p) \/ ApplyCapture(p) \/ SetAside(p) \/ FailForNow(p) \/ Die(p)
    BY <1>1, <2>4, WorkSteps
  <2> QED BY <1>3, <2>1, <2>2, <2>3, <2>4 DEF Process
<1>4. ASSUME NEW w \in Retriers, Claim(w) \/ \E h \in Hooks : Select(w, h)
      PROVE  Goal
  BY <1>1, <1>4, RetrierSteps
<1>5. ASSUME NEW p \in Endpoints, NEW h \in Hooks, Receive(p, h)
      PROVE  Goal
  BY <1>1, <1>5, ReceiveSteps
<1>6. ASSUME NEW h \in Hooks, Exhaust(h)
      PROVE  Goal
  BY <1>1, <1>6, ExhaustSteps
<1>7. ASSUME NEW a \in Targets, GatherEvidence(a)
      PROVE  Goal
  BY <1>1, <1>7, GatherSteps
<1>8. Goal
  BY <1>2, <1>3, <1>4, <1>5, <1>6, <1>7 DEF IntakeNext
<1> QED BY <1>8 DEF Goal, StillRests, IntakeInv

LEMMA IntakeInvAlways == IntakeSpec => []IntakeInv
BY IntakeInvInit, IntakeInvNext, PTL DEF IntakeSpec

\* The rows of notifications, disputes and observations, and what a run remembers of
\* them, keep their shape (schema of webhook_event and payment_dispute).
THEOREM IntakeTypeCorrect == IntakeSpec => []IntakeTypeOK
<1>1. IntakeInv => IntakeTypeOK
  BY DEF IntakeInv
<1> QED BY <1>1, IntakeInvAlways, PTL

LEMMA SettledHasEvidenceHolds ==
    ASSUME IntakeInv
    PROVE  SettledHasEvidence
BY DEF IntakeInv, HookRests, Evident, SettledHasEvidence

LEMMA AckedDisputeCountsHolds ==
    ASSUME IntakeInv
    PROVE  AckedDisputeCounts
<1> SUFFICES ASSUME NEW h \in acked, observed[h] = "none"
             PROVE  Unresolved(notice[h].target)
  BY DEF AckedDisputeCounts
<1>1. h \in Hooks
  BY DEF IntakeInv, IntakeTypeOK
<1>2. notice[h].type = "dispute" /\ hook[h].matched /\ Evident(h, hook[h].state)
  BY <1>1 DEF IntakeInv, HookRests
<1>3. hook[h].state \notin Settled
  BY <1>2 DEF Evident, Settled
<1> QED BY <1>1, <1>2, <1>3 DEF Unresolved

LEMMA IntakeInvSound == IntakeInv => DisputesAgree /\ EvidenceKept
<1>1. IntakeInv => DisputesAgree
  BY DEF IntakeInv, Agrees, KindsOf, DisputesAgree
<1>2. IntakeInv => EvidenceKept
  BY SettledHasEvidenceHolds, AckedDisputeCountsHolds DEF EvidenceKept
<1> QED BY <1>1, <1>2

\* A dispute is what its notices made it, once, in whatever order requests and
\* retriers process them, and one chargeback is the loss of one dispute (PAY-09;
\* onNew, onKnown, linkChargeback).
THEOREM DisputesAgreeAlways == IntakeSpec => []DisputesAgree
BY IntakeInvSound, IntakeInvAlways, PTL

\* What was answered to the provider is kept, whatever dies between two transactions and
\* however often the same notification is processed at once: an acknowledged dispute is
\* recorded or holds refunds up, and a settled row has its evidence (CB-5, FI-12; process,
\* processDispute, markState, disputeExposure).
THEOREM EvidenceKeptAlways == IntakeSpec => []EvidenceKept
BY IntakeInvSound, IntakeInvAlways, PTL

\* What Payment recorded of a dispute stays, in whatever order and however often its notices are processed: the
\* capture and the amount it is about, how it ended, its chargeback, what became of a notice, and the evidence kept
\* with a notification (onNew, onKnown, linkChargeback)
DisputeHeld(x) ==
    /\ dispute[x].status # "none" => /\ dispute'[x].status # "none" /\ dispute'[x].target = dispute[x].target
                                     /\ dispute'[x].exposure = dispute[x].exposure
    /\ dispute[x].status \in {"won", "lost"} => dispute'[x].status = dispute[x].status
    /\ dispute[x].charge # "none" => dispute'[x].charge = dispute[x].charge
NoticeHeld(h) == (observed[h] # "none" => observed'[h] = observed[h]) /\ kept[h] \subseteq kept'[h]
IntakeStays   == (\A x \in Disputes : DisputeHeld(x)) /\ (\A h \in Hooks : NoticeHeld(h))

LEMMA ApplyHolds ==
    ASSUME IntakeInv, NEW n \in Notice, Apply(n), KnownDispute(n) => OnKnown(n) = "applied", NEW x \in Disputes
    PROVE  DisputeHeld(x)
<1>1. dispute \in [Disputes -> DisputeRow] /\ n.dispute \in Disputes /\ (n.charge # "none" => n.kind = "lost")
  BY DEF IntakeInv, IntakeTypeOK, Notice, Parsed
<1>2. CASE x # n.dispute
  BY <1>1, <1>2 DEF Apply, DisputeHeld
<1>3. CASE x = n.dispute
  <2> DEFINE row == [status   |-> IF n.kind = "opened" THEN "open" ELSE n.kind,
                     target   |-> n.target,
                     exposure |-> n.exposure,
                     charge   |-> IF n.charge = "none" THEN dispute[x].charge ELSE n.charge]
  <2>1. dispute'[x] = row
    BY <1>1, <1>3 DEF Apply
  <2>2. dispute[x].charge # "none" => dispute[x].status = "lost"
    BY DEF IntakeInv, Agrees
  <2>3. CASE dispute[x].status = "none"
    BY <2>2, <2>3 DEF DisputeHeld
  <2>4. CASE dispute[x].status # "none"
    <3>1. /\ Concerns(n) /\ (Closes(n) \/ Charges(n))
      BY <1>3, <2>4 DEF KnownDispute, OnKnown
    <3>2. dispute[x].target = n.target /\ dispute[x].exposure = n.exposure
      BY <1>3, <3>1 DEF Concerns
    <3>3. \/ dispute[x].status = "open" /\ n.kind # "opened"
          \/ dispute[x].status = "lost" /\ n.kind = "lost" /\ dispute[x].charge = "none"
      BY <1>3, <3>1 DEF Closes, Charges
    <3>4. n.kind \in {"opened", "won", "lost"}
      BY DEF Notice, Parsed
    <3> QED BY <2>1, <2>2, <2>4, <3>2, <3>3, <3>4 DEF DisputeHeld
  <2> QED BY <2>3, <2>4
<1> QED BY <1>2, <1>3

LEMMA IngestHolds ==
    ASSUME IntakeInv, NEW p \in Runners, Ingest(p)
    PROVE  IntakeStays
<1>0. run[p].step # "idle" /\ IntakeTypeOK
  BY DEF Ingest, Working, IntakeInv
<1>1. PICK h \in Hooks, n \in Notice : h = run[p].hook /\ n = notice[h]
  BY <1>0, Busy DEF IntakeTypeOK
<1> DEFINE ruling == IF ~ capture[n.target].known THEN "unmatched"
                     ELSE IF observed[h] # "none" THEN "again"
                     ELSE IF KnownDispute(n) THEN OnKnown(n)
                     ELSE OnNew(n, LastChance(p))
<1>2. /\ observed' = IF ruling \in Verdict THEN [observed EXCEPT ![h] = ruling] ELSE observed
      /\ IF ruling = "applied" THEN Apply(n) ELSE UNCHANGED <<dispute, announced>>
      /\ kept' = kept
  BY <1>1 DEF Ingest
<1>3. /\ ruling = "applied" => (KnownDispute(n) => OnKnown(n) = "applied")
      /\ ruling \in Verdict => observed[h] = "none"
  BY DEF Verdict
<1> HIDE DEF ruling
<1>4. \A x \in Disputes : DisputeHeld(x)
  <2>1. CASE ruling = "applied"
    BY <1>2, <1>3, <2>1, ApplyHolds
  <2>2. CASE ruling # "applied"
    BY <1>2, <2>2 DEF DisputeHeld
  <2> QED BY <2>1, <2>2
<1>5. \A g \in Hooks : NoticeHeld(g)
  BY <1>0, <1>2, <1>3 DEF NoticeHeld, IntakeTypeOK
<1> QED BY <1>4, <1>5 DEF IntakeStays

LEMMA IntakeHolds == IntakeInv /\ [IntakeNext]_intakeVars => IntakeStays
<1> SUFFICES ASSUME IntakeInv, [IntakeNext]_intakeVars
             PROVE  IntakeStays
  OBVIOUS
<1>1. ASSUME StillRests, SameDisputes
      PROVE  IntakeStays
  BY <1>1 DEF StillRests, SameDisputes, Grows, IntakeStays, DisputeHeld, NoticeHeld
<1>2. ASSUME UNCHANGED intakeVars
      PROVE  IntakeStays
  BY <1>2 DEF intakeVars, ledger, IntakeStays, DisputeHeld, NoticeHeld
<1>3. ASSUME NEW p \in Runners, \/ Process(p) \/ FailForNow(p) \/ MarkState(p) \/ Die(p)
      PROVE  IntakeStays
  <2>1. CASE Ingest(p)
    BY <2>1, IngestHolds
  <2>2. CASE Quarantine(p)
    BY <1>1, <2>2, QuarantineSteps
  <2>3. CASE MarkState(p)
    BY <1>1, <2>3, MarkSteps
  <2>4. CASE Ignore(p) \/ KeepUnmatched(p) \/ ApplyCapture(p) \/ SetAside(p) \/ FailForNow(p) \/ Die(p)
    BY <1>1, <2>4, WorkSteps
  <2> QED BY <1>3, <2>1, <2>2, <2>3, <2>4 DEF Process
<1>4. ASSUME NEW w \in Retriers, Claim(w) \/ \E h \in Hooks : Select(w, h)
      PROVE  IntakeStays
  BY <1>1, <1>4, RetrierSteps
<1>5. ASSUME NEW p \in Endpoints, NEW h \in Hooks, Receive(p, h)
      PROVE  IntakeStays
  BY <1>1, <1>5, ReceiveSteps
<1>6. ASSUME NEW h \in Hooks, Exhaust(h)
      PROVE  IntakeStays
  BY <1>1, <1>6, ExhaustSteps
<1>7. ASSUME NEW a \in Targets, GatherEvidence(a)
      PROVE  IntakeStays
  BY <1>1, <1>7, GatherSteps
<1> QED BY <1>2, <1>3, <1>4, <1>5, <1>6, <1>7 DEF IntakeNext

\* No step takes back what was recorded of a dispute or of a notice.
THEOREM IntakeStaysAlways == IntakeSpec => [][IntakeStays]_intakeVars
<1>1. IntakeInv /\ [IntakeNext]_intakeVars => [IntakeStays]_intakeVars
  BY IntakeHolds
<1> QED BY <1>1, IntakeInvAlways, PTL DEF IntakeSpec

-----------------------------------------------------------------------------
(* RefundCases: the inductive invariant *)

RelayStatus == AttemptState \cup {"unconfirmed"}
Seen        == [id : Relays, status : RelayStatus]

\* what the module's type invariant leaves open
CasesTyped ==
    /\ RefundCaseTypeOK
    /\ purpose \in {"direct", "assisted"}
    /\ lost \in BOOLEAN /\ loss \in BOOLEAN /\ moved \in BOOLEAN
    /\ effect \in [CaseIds -> {"none", "already_reversed", "reversed_purchase"}]
    /\ causes \subseteq {"refund_completion", "final_lost_chargeback"} /\ obligations \in Nat
    /\ scan \in [step : {"losses", "mirror", "relays", "compare"}, lost : BOOLEAN, mine : BOOLEAN,
                 relays : SUBSET Seen, completed : SUBSET CaseIds]

Relayed(r) == relay[r].case \in CaseIds /\ relay[r].status # "none"

\* Payment knows only what Billing relayed, and no answer, stored or on its way, is ahead of Payment
RelaysSound ==
    /\ \A r \in Relays : /\ relay[r] # NoRelay => Relayed(r)
                         /\ attempt[r] # "none" \/ r \in inFlight \/ r \in returned => Relayed(r)
    /\ MirrorTrails

HandsSound ==
    \A x \in Requests \cup Reconcilers :
        /\ hand[x].step # "idle" => hand[x].relay \in Relays /\ Relayed(hand[x].relay)
        /\ hand[x].step = "mirror" => hand[x].answer # "none" /\ Reaches(hand[x].answer, attempt[hand[x].relay])

LiveKase(c) == kase[c] \in {"open", "completed"}

\* one case of the payment is live, and a completed one rests on what Payment returned
CasesAgree ==
    /\ \A c, d \in CaseIds : LiveKase(c) /\ LiveKase(d) => c = d
    /\ \A c \in CaseIds : kase[c] = "completed" => \E r \in returned : relay[r].case = c
    /\ CancelledIsUnrefunded

\* the purchase's refund was applied for a completed case, and a chargeback of an assisted one reverses nothing
EffectsAgree ==
    /\ loss => lost
    /\ ("refund_completion" \in causes \/ obligations > 0) => \E c \in CaseIds : kase[c] = "completed" /\ effect[c] # "none"
    /\ purpose = "assisted" => causes \subseteq {"refund_completion"}
    /\ obligations <= 1 /\ (obligations = 1 => purpose = "assisted")

\* what a check has read so far is what Payment holds, unless Payment recorded something since
ScanSound ==
    /\ gate # "pending" => scan = NoScan
    /\ scan.mine => loss
    /\ scan.step # "losses" /\ moved = FALSE => scan.lost = lost
    /\ \A c \in scan.completed : \E r \in returned : relay[r].case = c
    /\ \A s \in scan.relays : /\ s.status # "none"
                              /\ s.status # "unconfirmed" => Reaches(s.status, attempt[s.id])
    /\ scan.step = "compare" /\ moved = FALSE =>
          \A r \in Relays : attempt[r] # "none" => \E s \in scan.relays : s.id = r
    /\ MismatchMeansMoved

RefundCaseInv == CasesTyped /\ RelaysSound /\ HandsSound /\ CasesAgree /\ EffectsAgree /\ ScanSound
-----------------------------------------------------------------------------

\* what Payment says of an attempt is never taken back
LEMMA ReachesOn ==
    ASSUME NEW s, NEW t, NEW u, Reaches(s, t), Reaches(t, u)
    PROVE  Reaches(s, u)
BY DEF Reaches, Moves

LEMMA ReachesEnds ==
    ASSUME NEW s, NEW t, Reaches(s, t), s \in NotEffective
    PROVE  t = s
BY DEF Reaches, Moves, NotEffective, Unconsumed

\* how the attempts move: only forward, and said in `moved' while a check is under way
AttemptsMove ==
    /\ attempt' \in [Relays -> AttemptState]
    /\ \A r \in Relays : attempt[r] # "none" => attempt'[r] # "none" /\ Reaches(attempt[r], attempt'[r])
    /\ moved' \in BOOLEAN
    /\ gate = "pending" /\ moved' = FALSE => attempt' = attempt /\ moved = FALSE
    /\ gate = "mismatch" /\ moved => moved'

LEMMA HandlesMoves ==
    ASSUME CasesTyped, NEW r \in Relays, NEW a \in AttemptState, Handles(r, a)
    PROVE  /\ AttemptsMove /\ attempt'[r] = a /\ a # "none"
           /\ \A s \in Relays \ {r} : attempt'[s] = attempt[s]
           /\ UNCHANGED <<returned, lost>>
<1>1. attempt \in [Relays -> AttemptState]
  BY DEF CasesTyped, RefundCaseTypeOK
<1>2. attempt' = [attempt EXCEPT ![r] = a] /\ UNCHANGED <<returned, lost>>
  BY DEF Handles
<1>3. attempt'[r] = a /\ \A s \in Relays \ {r} : attempt'[s] = attempt[s]
  BY <1>1, <1>2
<1>4. a # "none" /\ (attempt[r] # "none" => Reaches(attempt[r], a))
  BY <1>1 DEF Handles, Reaches, Moves
<1>5. attempt' \in [Relays -> AttemptState]
  BY <1>1, <1>2
<1>6. \A s \in Relays : attempt[s] # "none" => attempt'[s] # "none" /\ Reaches(attempt[s], attempt'[s])
  BY <1>3, <1>4 DEF Reaches
<1>7. moved' = (moved \/ (gate # "passed" /\ a # attempt[r])) /\ moved \in BOOLEAN
  BY DEF Handles, CasesTyped
<1>8. moved' \in BOOLEAN
  BY <1>7
<1>9. gate = "pending" /\ moved' = FALSE => attempt' = attempt /\ moved = FALSE
  <2> SUFFICES ASSUME gate = "pending", moved' = FALSE PROVE attempt' = attempt /\ moved = FALSE
    OBVIOUS
  <2>1. moved = FALSE /\ a = attempt[r]
    BY <1>7
  <2> QED BY <1>1, <1>2, <2>1
<1>10. gate = "mismatch" /\ moved => moved'
  BY <1>7
<1> QED BY <1>2, <1>3, <1>4, <1>5, <1>6, <1>8, <1>9, <1>10 DEF AttemptsMove

Hands == [Requests \cup Reconcilers -> [step : {"idle", "call", "mirror"}, relay : Relays \cup {"none"}, answer : AttemptState]]

\* a request or a pass that has just been answered what Payment holds
Answered(x) ==
    /\ hand'[x].relay \in Relays /\ Relayed(hand'[x].relay)
    /\ hand'[x].answer # "none" /\ hand'[x].answer = attempt'[hand'[x].relay]

\* Payment goes on: nothing Billing has read of it becomes untrue
LEMMA PaymentKeeps ==
    ASSUME RefundCaseInv, AttemptsMove, UNCHANGED <<purpose, kase, relay, effects, check>>,
           returned \subseteq returned', returned' \subseteq Relays,
           lost' \in BOOLEAN, lost => lost', gate = "pending" /\ moved' = FALSE => lost' = lost,
           inFlight' \subseteq inFlight, hand' \in Hands,
           \A r \in Relays : attempt'[r] # "none" \/ r \in returned' => Relayed(r),
           \A x \in Requests \cup Reconcilers : hand'[x] = hand[x] \/ Answered(x)
    PROVE  RefundCaseInv'
<1> USE DEF RefundCaseInv, effects, check
<1>1. CasesTyped'
  BY DEF CasesTyped, RefundCaseTypeOK, AttemptsMove, Hands
<1>2. RelaysSound'
  <2>1. \A r \in Relays : /\ relay'[r] # NoRelay => Relayed(r)'
                          /\ attempt'[r] # "none" \/ r \in inFlight' \/ r \in returned' => Relayed(r)'
    BY DEF RelaysSound, Relayed
  <2>2. ASSUME NEW r \in Relays, relay'[r].status \notin {"none", "unconfirmed"}
        PROVE  Reaches(relay'[r].status, attempt'[r])
    <3>1. Reaches(relay[r].status, attempt[r])
      BY <2>2 DEF RelaysSound, MirrorTrails
    <3>2. attempt[r] # "none"
      BY <2>2, <3>1 DEF Reaches, Moves
    <3>3. Reaches(attempt[r], attempt'[r])
      BY <3>2 DEF AttemptsMove
    <3> QED BY <3>1, <3>3, ReachesOn
  <2>3. MirrorTrails'
    BY <2>2 DEF RelaysSound, MirrorTrails
  <2> QED BY <2>1, <2>3 DEF RelaysSound
<1>3. HandsSound'
  <2> SUFFICES ASSUME NEW x \in Requests \cup Reconcilers
               PROVE  /\ hand'[x].step # "idle" => hand'[x].relay \in Relays /\ Relayed(hand'[x].relay)
                      /\ hand'[x].step = "mirror" =>
                            hand'[x].answer # "none" /\ Reaches(hand'[x].answer, attempt'[hand'[x].relay])
    BY DEF HandsSound, Relayed
  <2>1. CASE Answered(x)
    BY <2>1 DEF Answered, Relayed, Reaches
  <2>2. CASE hand'[x] = hand[x]
    <3>1. hand[x].step # "idle" => hand[x].relay \in Relays /\ Relayed(hand[x].relay)
      BY DEF HandsSound
    <3>2. ASSUME hand[x].step = "mirror"
          PROVE  hand[x].answer # "none" /\ Reaches(hand[x].answer, attempt'[hand[x].relay])
      <4> DEFINE r == hand[x].relay
      <4>1. hand[x].answer # "none" /\ Reaches(hand[x].answer, attempt[r]) /\ r \in Relays
        BY <3>1, <3>2 DEF HandsSound
      <4>2. attempt[r] # "none"
        BY <4>1 DEF Reaches, Moves
      <4>3. Reaches(attempt[r], attempt'[r])
        BY <4>1, <4>2 DEF AttemptsMove
      <4> QED BY <4>1, <4>3, ReachesOn
    <3> QED BY <2>2, <3>1, <3>2 DEF Relayed
  <2> QED BY <2>1, <2>2
<1>4. CasesAgree'
  <2>1. CancelledIsUnrefunded'
    <3> SUFFICES ASSUME NEW r \in Relays, relay[r] # NoRelay, kase[relay[r].case] = "cancelled"
                 PROVE  attempt'[r] \in Unconsumed
      BY DEF CancelledIsUnrefunded
    <3>1. attempt[r] \in Unconsumed
      BY DEF CasesAgree, CancelledIsUnrefunded
    <3>2. Reaches(attempt[r], attempt'[r])
      BY <3>1 DEF AttemptsMove, Unconsumed
    <3> QED BY <3>1, <3>2, ReachesEnds DEF NotEffective
  <2> QED BY <2>1 DEF CasesAgree, LiveKase
<1>5. EffectsAgree'
  BY DEF EffectsAgree
<1>6. ScanSound'
  <2>1. gate' # "pending" => scan' = NoScan
    BY DEF ScanSound
  <2>2. scan'.mine => loss'
    BY DEF ScanSound
  <2>3. scan'.step # "losses" /\ moved' = FALSE => scan'.lost = lost'
    <3>1. scan.step # "losses" => gate = "pending"
      BY DEF ScanSound, NoScan
    <3> QED BY <3>1 DEF ScanSound, AttemptsMove
  <2>4. \A c \in scan'.completed : \E r \in returned' : relay'[r].case = c
    BY DEF ScanSound
  <2>5. ASSUME NEW s \in scan.relays
        PROVE  s.status # "none" /\ (s.status # "unconfirmed" => Reaches(s.status, attempt'[s.id]))
    <3>1. s.status # "none" /\ (s.status # "unconfirmed" => Reaches(s.status, attempt[s.id])) /\ s.id \in Relays
      BY DEF ScanSound, CasesTyped, Seen
    <3>2. CASE s.status # "unconfirmed"
      <4>1. attempt[s.id] # "none"
        BY <3>1, <3>2 DEF Reaches, Moves
      <4>2. Reaches(attempt[s.id], attempt'[s.id])
        BY <3>1, <4>1 DEF AttemptsMove
      <4> QED BY <3>1, <3>2, <4>2, ReachesOn
    <3> QED BY <3>1, <3>2
  <2>6. scan'.step = "compare" /\ moved' = FALSE =>
            \A r \in Relays : attempt'[r] # "none" => \E s \in scan'.relays : s.id = r
    <3>1. scan.step = "compare" => gate = "pending"
      BY DEF ScanSound, NoScan
    <3> QED BY <3>1 DEF ScanSound, AttemptsMove
  <2>7. MismatchMeansMoved'
    BY DEF ScanSound, MismatchMeansMoved, AttemptsMove
  <2> QED BY <2>1, <2>2, <2>3, <2>4, <2>5, <2>6, <2>7 DEF ScanSound
<1> QED BY <1>1, <1>2, <1>3, <1>4, <1>5, <1>6

LEMMA ArriveSteps ==
    ASSUME RefundCaseInv, NEW r \in Relays, Arrive(r)
    PROVE  RefundCaseInv'
<1>1. PICK a \in AttemptState : Handles(r, a)
  BY DEF Arrive
<1>2. Relayed(r)
  BY DEF Arrive, RefundCaseInv, RelaysSound
<1>3. /\ AttemptsMove /\ UNCHANGED <<returned, lost>>
      /\ \A s \in Relays \ {r} : attempt'[s] = attempt[s]
  BY <1>1, HandlesMoves DEF RefundCaseInv
<1>4. \A s \in Relays : attempt'[s] # "none" \/ s \in returned' => Relayed(s)
  BY <1>2, <1>3 DEF RefundCaseInv, RelaysSound
<1>5. inFlight' \subseteq inFlight /\ hand' = hand /\ UNCHANGED <<purpose, kase, relay, effects, check>>
  BY DEF Arrive
<1>6. returned' \subseteq Relays /\ lost' \in BOOLEAN /\ hand' \in Hands
  BY <1>3, <1>5 DEF RefundCaseInv, CasesTyped, RefundCaseTypeOK, Hands
<1> QED BY <1>3, <1>4, <1>5, <1>6, PaymentKeeps

LEMMA CallPaymentSteps ==
    ASSUME RefundCaseInv, NEW x \in Requests, CallPayment(x)
    PROVE  RefundCaseInv'
<1> DEFINE r == hand[x].relay
<1>1. r \in Relays /\ Relayed(r)
  BY DEF CallPayment, RefundCaseInv, HandsSound
<1>2. PICK a \in AttemptState : Handles(r, a) /\ GoOn(x, "mirror", r, a)
  BY DEF CallPayment
<1> HIDE DEF r
<1>3. /\ AttemptsMove /\ UNCHANGED <<returned, lost>> /\ attempt'[r] = a /\ a # "none"
      /\ \A s \in Relays \ {r} : attempt'[s] = attempt[s]
  BY <1>1, <1>2, HandlesMoves DEF RefundCaseInv
<1>4. \A s \in Relays : attempt'[s] # "none" \/ s \in returned' => Relayed(s)
  BY <1>1, <1>3 DEF RefundCaseInv, RelaysSound
<1>5. inFlight' \subseteq inFlight /\ UNCHANGED <<purpose, kase, relay, effects, check>>
  BY DEF CallPayment
<1> DEFINE row == [step |-> "mirror", relay |-> r, answer |-> a]
<1>6. hand \in Hands
  BY DEF RefundCaseInv, CasesTyped, RefundCaseTypeOK, Hands
<1>7. hand' = [hand EXCEPT ![x] = row]
  BY <1>2 DEF GoOn
<1>8. row \in [step : {"idle", "call", "mirror"}, relay : Relays \cup {"none"}, answer : AttemptState]
      /\ row.relay = r /\ row.answer = a
  BY <1>1
<1> HIDE DEF row
<1>9. hand' \in Hands /\ \A y \in Requests \cup Reconcilers : hand'[y] = IF y = x THEN row ELSE hand[y]
  BY <1>6, <1>7, <1>8 DEF Hands
<1>10. \A y \in Requests \cup Reconcilers : hand'[y] = hand[y] \/ Answered(y)
  BY <1>1, <1>3, <1>8, <1>9 DEF Answered
<1>11. returned' \subseteq Relays /\ lost' \in BOOLEAN
  BY <1>3 DEF RefundCaseInv, CasesTyped, RefundCaseTypeOK
<1> QED BY <1>3, <1>4, <1>5, <1>9, <1>10, <1>11, PaymentKeeps

LEMMA AttemptSteps ==
    ASSUME RefundCaseInv, NEW r \in Relays, AttemptMoves(r)
    PROVE  RefundCaseInv'
<1>1. PICK a \in Onward(attempt[r]) : attempt' = [attempt EXCEPT ![r] = a]
  BY DEF AttemptMoves, GoesOn
<1>2. a \in AttemptState /\ a # "none" /\ attempt[r] # "none" /\ Reaches(attempt[r], a)
  BY DEF Onward, Reaches, Moves, AttemptState
<1>3. attempt \in [Relays -> AttemptState]
  BY DEF RefundCaseInv, CasesTyped, RefundCaseTypeOK
<1>4. attempt' \in [Relays -> AttemptState] /\ \A s \in Relays : attempt'[s] = IF s = r THEN a ELSE attempt[s]
  BY <1>1, <1>2, <1>3
<1>5. moved' = (gate # "passed") /\ UNCHANGED <<purpose, kase, relay, returned, lost, hand, inFlight, effects, check>>
  BY DEF AttemptMoves, GoesOn
<1>6. AttemptsMove
  BY <1>2, <1>4, <1>5 DEF AttemptsMove, Reaches
<1>7. \A s \in Relays : attempt'[s] # "none" \/ s \in returned' => Relayed(s)
  BY <1>2, <1>4, <1>5 DEF RefundCaseInv, RelaysSound
<1>8. returned' \subseteq Relays /\ lost' \in BOOLEAN /\ hand' \in Hands
  BY <1>5 DEF RefundCaseInv, CasesTyped, RefundCaseTypeOK, Hands
<1> QED BY <1>5, <1>6, <1>7, <1>8, PaymentKeeps

LEMMA ReturnSteps ==
    ASSUME RefundCaseInv, NEW r \in Relays, ReturnAll(r)
    PROVE  RefundCaseInv'
<1>1. returned = {} /\ returned' = {r} /\ attempt[r] # "none"
      /\ moved' = (gate # "passed") /\ UNCHANGED <<purpose, kase, relay, attempt, lost, hand, inFlight, effects, check>>
  BY DEF ReturnAll, Returns
<1>2. attempt' \in [Relays -> AttemptState] /\ lost' \in BOOLEAN /\ hand' \in Hands
  BY <1>1 DEF RefundCaseInv, CasesTyped, RefundCaseTypeOK, Hands
<1>3. AttemptsMove
  BY <1>1, <1>2 DEF AttemptsMove, Reaches
<1>4. \A s \in Relays : attempt'[s] # "none" \/ s \in returned' => Relayed(s)
  BY <1>1 DEF RefundCaseInv, RelaysSound
<1>5. returned \subseteq returned' /\ returned' \subseteq Relays
  BY <1>1
<1> QED BY <1>1, <1>2, <1>3, <1>4, <1>5, PaymentKeeps

LEMMA LoseSteps ==
    ASSUME RefundCaseInv, LoseDispute
    PROVE  RefundCaseInv'
<1>1. lost' = TRUE /\ moved' = (gate # "passed")
      /\ UNCHANGED <<purpose, kase, relay, attempt, returned, hand, inFlight, effects, check>>
  BY DEF LoseDispute
<1>2. attempt' \in [Relays -> AttemptState] /\ returned' \subseteq Relays /\ hand' \in Hands
  BY <1>1 DEF RefundCaseInv, CasesTyped, RefundCaseTypeOK, Hands
<1>3. AttemptsMove
  BY <1>1, <1>2 DEF AttemptsMove, Reaches
<1>4. \A s \in Relays : attempt'[s] # "none" \/ s \in returned' => Relayed(s)
  BY <1>1 DEF RefundCaseInv, RelaysSound
<1>5. lost' \in BOOLEAN /\ (lost => lost') /\ (gate = "pending" /\ moved' = FALSE => lost' = lost)
  BY <1>1
<1> QED BY <1>1, <1>2, <1>3, <1>4, <1>5, PaymentKeeps

-----------------------------------------------------------------------------
(* RefundCases: cases and relays *)

\* what a case that changes leaves alone, if a completed case stays so
LEMMA CaseKeeps ==
    ASSUME RefundCaseInv, NEW c \in CaseIds, NEW status \in {"open", "cancelled", "completed"},
           kase[c] # "completed", kase' = [kase EXCEPT ![c] = status],
           status = "open" => \A d \in CaseIds : ~LiveKase(d),
           status \in {"cancelled", "completed"} => kase[c] = "open",
           status = "completed" => \E r \in returned : relay[r].case = c,
           status = "cancelled" => \A r \in RelaysOf(c) : attempt[r] \in Unconsumed,
           UNCHANGED <<purpose, relay, paymentSide, hand, inFlight, effects, check>>
    PROVE  RefundCaseInv'
<1> USE DEF RefundCaseInv, effects, check, paymentSide
<1>1. \A d \in CaseIds : kase'[d] = IF d = c THEN status ELSE kase[d]
  BY DEF CasesTyped, RefundCaseTypeOK
<1>2. CasesTyped'
  BY DEF CasesTyped, RefundCaseTypeOK
<1>3. RelaysSound' /\ HandsSound'
  BY DEF RelaysSound, HandsSound, Relayed, MirrorTrails
<1>4. CasesAgree'
  <2>1. \A d, e \in CaseIds : LiveKase(d)' /\ LiveKase(e)' => d = e
    BY <1>1 DEF CasesAgree, LiveKase
  <2>2. \A d \in CaseIds : kase'[d] = "completed" => \E r \in returned' : relay'[r].case = d
    BY <1>1 DEF CasesAgree
  <2>3. CancelledIsUnrefunded'
    BY <1>1 DEF CasesAgree, CancelledIsUnrefunded, RelaysOf, RelaysSound, Relayed
  <2> QED BY <2>1, <2>2, <2>3 DEF CasesAgree
<1>5. EffectsAgree'
  BY <1>1 DEF EffectsAgree
<1>6. ScanSound'
  BY DEF ScanSound, MismatchMeansMoved
<1> QED BY <1>2, <1>3, <1>4, <1>5, <1>6

\* no relay of a case that may be cancelled is more than what Payment refused for good
LEMMA NotStarted ==
    ASSUME RefundCaseInv, NEW c \in CaseIds, ~Started(c)
    PROVE  \A r \in RelaysOf(c) : attempt[r] \in Unconsumed
<1> SUFFICES ASSUME NEW r \in RelaysOf(c) PROVE attempt[r] \in Unconsumed
  OBVIOUS
<1>1. r \in Relays /\ relay[r].status \in Unconsumed
  BY DEF Started, RelaysOf
<1>2. Reaches(relay[r].status, attempt[r])
  BY <1>1 DEF RefundCaseInv, RelaysSound, MirrorTrails, Unconsumed
<1> QED BY <1>1, <1>2, ReachesEnds DEF NotEffective

LEMMA CaseSteps ==
    ASSUME RefundCaseInv, NEW c \in CaseIds, OpenCase(c) \/ CancelCase(c)
    PROVE  RefundCaseInv'
<1>1. CASE OpenCase(c)
  BY <1>1, CaseKeeps DEF OpenCase, LiveKase
<1>2. CASE CancelCase(c)
  BY <1>2, CaseKeeps, NotStarted DEF CancelCase
<1> QED BY <1>1, <1>2

LEMMA CompleteSteps ==
    ASSUME RefundCaseInv, NEW r \in Relays, CompleteCase(r)
    PROVE  RefundCaseInv'
<1> DEFINE c == relay[r].case
<1>1. c \in CaseIds /\ kase[c] = "open" /\ kase' = [kase EXCEPT ![c] = "completed"]
      /\ \E s \in returned : relay[s].case = c
  BY DEF CompleteCase, RefundCaseInv, RelaysSound, Relayed
<1>2. UNCHANGED <<purpose, relay, paymentSide, hand, inFlight, effects, check>>
  BY DEF CompleteCase
<1> HIDE DEF c
<1> QED BY <1>1, <1>2, CaseKeeps

RelayRows == [case : CaseIds \cup {"none"}, status : RelayStatus]

\* a relay that is inserted, or that takes an answer Payment gave
LEMMA RelayKeeps ==
    ASSUME RefundCaseInv, NEW r \in Relays, NEW row \in RelayRows,
           relay' = [relay EXCEPT ![r] = row],
           row.case \in CaseIds, row.status # "none",
           Relayed(r) => row.case = relay[r].case,
           row.status # "unconfirmed" => Reaches(row.status, attempt[r]),
           row.status \notin NotEffective =>
               \A s \in Relays \ {r} : relay[s].case = row.case => relay[s].status \in NotEffective,
           Relayed(r) \/ kase[row.case] = "open",
           UNCHANGED <<purpose, kase, paymentSide, inFlight, effects, check>>,
           hand' \in Hands,
           \A x \in Requests \cup Reconcilers :
               \/ hand'[x] = hand[x]
               \/ hand'[x].step \in {"idle", "call"} /\ (hand'[x].step = "call" => hand'[x].relay = r)
    PROVE  RefundCaseInv'
<1> USE DEF RefundCaseInv, effects, check, paymentSide
<1>1. \A s \in Relays : relay'[s] = IF s = r THEN row ELSE relay[s]
  BY DEF CasesTyped, RefundCaseTypeOK
<1>2. CasesTyped'
  BY DEF CasesTyped, RefundCaseTypeOK, RelayRows, RelayStatus, Hands
<1>3. row # NoRelay /\ \A s \in Relays : Relayed(s) => Relayed(s)' /\ relay'[s].case = relay[s].case
  BY <1>1 DEF Relayed, NoRelay
<1>4. Relayed(r)'
  BY <1>1 DEF Relayed
<1>5. RelaysSound'
  <2>1. \A s \in Relays : /\ relay'[s] # NoRelay => Relayed(s)'
                          /\ attempt'[s] # "none" \/ s \in inFlight' \/ s \in returned' => Relayed(s)'
    BY <1>1, <1>3, <1>4 DEF RelaysSound
  <2>2. \A s \in Relays : relay'[s].status \notin {"none", "unconfirmed"} => Reaches(relay'[s].status, attempt'[s])
    BY <1>1 DEF RelaysSound, MirrorTrails
  <2>3. ASSUME NEW s \in Relays, NEW t \in Relays, relay'[s] # NoRelay, relay'[t].case = relay'[s].case,
               relay'[s].status \notin NotEffective, relay'[t].status \notin NotEffective
        PROVE  s = t
    <3>1. CASE s # r /\ t # r
      BY <1>1, <2>3, <3>1 DEF RelaysSound, MirrorTrails
    <3>2. CASE s = r \/ t = r
      BY <1>1, <2>3, <3>2
    <3> QED BY <3>1, <3>2
  <2>4. MirrorTrails'
    BY <2>2, <2>3 DEF MirrorTrails
  <2> QED BY <2>1, <2>4 DEF RelaysSound
<1>6. HandsSound'
  <2> SUFFICES ASSUME NEW x \in Requests \cup Reconcilers
               PROVE  /\ hand'[x].step # "idle" => /\ hand'[x].relay \in Relays
                                                   /\ relay'[hand'[x].relay].case \in CaseIds
                                                   /\ relay'[hand'[x].relay].status # "none"
                      /\ hand'[x].step = "mirror" =>
                            hand'[x].answer # "none" /\ Reaches(hand'[x].answer, attempt'[hand'[x].relay])
    BY DEF HandsSound, Relayed
  <2>1. CASE hand'[x] = hand[x]
    <3>1. hand[x].step # "idle" => hand[x].relay \in Relays /\ Relayed(hand[x].relay)
      BY DEF HandsSound
    <3>2. hand[x].step = "mirror" => hand[x].answer # "none" /\ Reaches(hand[x].answer, attempt[hand[x].relay])
      BY DEF HandsSound
    <3> QED BY <1>1, <2>1, <3>1, <3>2 DEF Relayed
  <2>2. CASE hand'[x].step \in {"idle", "call"} /\ (hand'[x].step = "call" => hand'[x].relay = r)
    BY <1>1, <2>2
  <2> QED BY <2>1, <2>2
<1>7. \A s \in returned : relay'[s].case = relay[s].case
  BY <1>3 DEF RelaysSound, CasesTyped, RefundCaseTypeOK
<1>8. CasesAgree'
  <2>1. CancelledIsUnrefunded'
    <3> SUFFICES ASSUME NEW s \in Relays, relay'[s] # NoRelay, kase[relay'[s].case] = "cancelled"
                 PROVE  attempt[s] \in Unconsumed
      BY DEF CancelledIsUnrefunded
    <3>1. CASE Relayed(s)
      <4>1. relay[s] # NoRelay /\ relay'[s].case = relay[s].case
        BY <1>3, <3>1 DEF Relayed, NoRelay
      <4> QED BY <4>1 DEF CasesAgree, CancelledIsUnrefunded
    <3>2. CASE ~Relayed(s)
      BY <1>1, <3>2 DEF RelaysSound
    <3> QED BY <3>1, <3>2
  <2> QED BY <1>7, <2>1 DEF CasesAgree, LiveKase
<1>9. EffectsAgree'
  BY DEF EffectsAgree
<1>10. ScanSound'
  BY <1>7 DEF ScanSound, MismatchMeansMoved
<1> QED BY <1>2, <1>5, <1>6, <1>8, <1>9, <1>10

\* what one request or pass does with its hand
LEMMA HandGoes ==
    ASSUME RefundCaseInv, NEW x \in Requests \cup Reconcilers,
           NEW row \in [step : {"idle", "call", "mirror"}, relay : Relays \cup {"none"}, answer : AttemptState],
           hand' = [hand EXCEPT ![x] = row]
    PROVE  hand' \in Hands /\ \A y \in Requests \cup Reconcilers : hand'[y] = IF y = x THEN row ELSE hand[y]
BY DEF RefundCaseInv, CasesTyped, RefundCaseTypeOK, Hands

LEMMA HandKeeps ==
    ASSUME RefundCaseInv, NEW x \in Requests \cup Reconcilers,
           NEW row \in [step : {"idle", "call", "mirror"}, relay : Relays \cup {"none"}, answer : AttemptState],
           hand' = [hand EXCEPT ![x] = row],
           row.step # "idle" => row.relay \in Relays /\ Relayed(row.relay),
           row.step = "mirror" => row.answer # "none" /\ row.answer = attempt[row.relay],
           inFlight' \subseteq Relays, \A r \in inFlight' : r \in inFlight \/ Relayed(r),
           UNCHANGED <<purpose, kase, relay, paymentSide, effects, check>>
    PROVE  RefundCaseInv'
<1> USE DEF RefundCaseInv, effects, check, paymentSide
<1>1. hand' \in Hands /\ \A y \in Requests \cup Reconcilers : hand'[y] = IF y = x THEN row ELSE hand[y]
  BY HandGoes
<1>2. CasesTyped'
  BY <1>1 DEF CasesTyped, RefundCaseTypeOK, Hands
<1>3. RelaysSound'
  BY DEF RelaysSound, Relayed, MirrorTrails
<1>4. HandsSound'
  <2> SUFFICES ASSUME NEW y \in Requests \cup Reconcilers
               PROVE  /\ hand'[y].step # "idle" => hand'[y].relay \in Relays /\ Relayed(hand'[y].relay)
                      /\ hand'[y].step = "mirror" =>
                            hand'[y].answer # "none" /\ Reaches(hand'[y].answer, attempt[hand'[y].relay])
    BY DEF HandsSound, Relayed
  <2>1. CASE y = x
    BY <1>1, <2>1 DEF Reaches
  <2>2. CASE y # x
    BY <1>1, <2>2 DEF HandsSound
  <2> QED BY <2>1, <2>2
<1>5. CasesAgree' /\ EffectsAgree'
  BY DEF CasesAgree, EffectsAgree, CancelledIsUnrefunded, LiveKase
<1>6. ScanSound'
  BY DEF ScanSound, MismatchMeansMoved
<1> QED BY <1>2, <1>3, <1>4, <1>5, <1>6

LEMMA NoRelayIsBare == ASSUME NEW r, relay[r].status # "none" PROVE relay[r] # NoRelay
BY DEF NoRelay

LEMMA HandSteps ==
    ASSUME RefundCaseInv, NEW x \in Requests \cup Reconcilers, NEW r \in Relays,
           RetryRelay(x, r) \/ CallLost(x) \/ Look(x, r)
    PROVE  RefundCaseInv'
<1>1. inFlight \subseteq Relays /\ relay[r] \in RelayRows /\ attempt[r] \in AttemptState
  BY DEF RefundCaseInv, CasesTyped, RefundCaseTypeOK, RelayRows, RelayStatus
<1>2. relay[r] # NoRelay => Relayed(r)
  BY DEF RefundCaseInv, RelaysSound
<1>3. CASE RetryRelay(x, r)
  <2> DEFINE row == [step |-> "call", relay |-> r, answer |-> "none"]
  <2>1. Relayed(r)
    BY <1>2, <1>3 DEF RetryRelay, NoRelay
  <2>2. row \in [step : {"idle", "call", "mirror"}, relay : Relays \cup {"none"}, answer : AttemptState]
        /\ row.step = "call" /\ row.relay = r
    BY DEF AttemptState
  <2>3. hand' = [hand EXCEPT ![x] = row] /\ inFlight' = inFlight
        /\ UNCHANGED <<purpose, kase, relay, paymentSide, effects, check>>
    BY <1>3 DEF RetryRelay, GoOn
  <2> HIDE DEF row
  <2> QED BY <1>1, <2>1, <2>2, <2>3, HandKeeps
<1>4. CASE CallLost(x)
  <2>1. hand[x].relay \in Relays /\ Relayed(hand[x].relay)
    BY <1>4 DEF CallLost, RefundCaseInv, HandsSound
  <2>2. Resting \in [step : {"idle", "call", "mirror"}, relay : Relays \cup {"none"}, answer : AttemptState]
        /\ Resting.step = "idle"
    BY DEF Resting, AttemptState
  <2>3. hand' = [hand EXCEPT ![x] = Resting] /\ inFlight' = inFlight \cup {hand[x].relay}
        /\ UNCHANGED <<purpose, kase, relay, paymentSide, effects, check>>
    BY <1>4 DEF CallLost, Leave
  <2>4. inFlight' \subseteq Relays /\ \A s \in inFlight' : s \in inFlight \/ Relayed(s)
    BY <1>1, <2>1, <2>3
  <2> HIDE DEF Resting
  <2> QED BY <2>2, <2>3, <2>4, HandKeeps
<1>5. CASE Look(x, r)
  <2> DEFINE row == [step |-> "mirror", relay |-> r, answer |-> attempt[r]]
  <2>1. Relayed(r) /\ attempt[r] # "none"
    BY <1>2, <1>5 DEF Look
  <2>2. row \in [step : {"idle", "call", "mirror"}, relay : Relays \cup {"none"}, answer : AttemptState]
        /\ row.step = "mirror" /\ row.relay = r /\ row.answer = attempt[r]
    BY <1>1
  <2>3. hand' = [hand EXCEPT ![x] = row] /\ inFlight' = inFlight
        /\ UNCHANGED <<purpose, kase, relay, paymentSide, effects, check>>
    BY <1>5 DEF Look, GoOn
  <2> HIDE DEF row
  <2> QED BY <1>1, <2>1, <2>2, <2>3, HandKeeps
<1> QED BY <1>3, <1>4, <1>5

\* a case without an effective relay takes a new one, under an attempt Payment never saw
LEMMA InsertSteps ==
    ASSUME RefundCaseInv, NEW x \in Requests, NEW c \in CaseIds, InsertRelay(x, c)
    PROVE  RefundCaseInv'
<1> DEFINE r    == CHOOSE s \in NewRelays : TRUE
           row  == [case |-> c, status |-> "unconfirmed"]
           step == [step |-> "call", relay |-> r, answer |-> "none"]
<1>1. r \in NewRelays
  BY DEF InsertRelay
<1>2. r \in Relays /\ ~Relayed(r)
  BY <1>1 DEF NewRelays, Relayed, NoRelay
<1>3. relay' = [relay EXCEPT ![r] = row] /\ hand' = [hand EXCEPT ![x] = step]
      /\ UNCHANGED <<purpose, kase, paymentSide, inFlight, effects, check>>
  BY DEF InsertRelay, GoOn
<1>4. row \in RelayRows /\ row.case = c /\ row.status = "unconfirmed"
  BY DEF RelayRows, RelayStatus
<1>5. step \in [step : {"idle", "call", "mirror"}, relay : Relays \cup {"none"}, answer : AttemptState]
      /\ step.step = "call" /\ step.relay = r
  BY <1>2 DEF AttemptState
<1>6. kase[c] = "open" /\ \A s \in Relays : relay[s].case = c => relay[s].status \in NotEffective
  BY DEF InsertRelay, Effective, RelaysOf
<1> HIDE DEF r, row, step
<1>7. hand' \in Hands /\ \A y \in Requests \cup Reconcilers : hand'[y] = IF y = x THEN step ELSE hand[y]
  <2>1. x \in Requests \cup Reconcilers
    OBVIOUS
  <2> QED BY <1>3, <1>5, <2>1, HandGoes
<1>8. \A y \in Requests \cup Reconcilers :
         \/ hand'[y] = hand[y]
         \/ hand'[y].step \in {"idle", "call"} /\ (hand'[y].step = "call" => hand'[y].relay = r)
  BY <1>5, <1>7
<1>9. /\ row.case \in CaseIds /\ row.status # "none"
      /\ Relayed(r) => row.case = relay[r].case
      /\ row.status # "unconfirmed" => Reaches(row.status, attempt[r])
      /\ row.status \notin NotEffective =>
             \A s \in Relays \ {r} : relay[s].case = row.case => relay[s].status \in NotEffective
      /\ Relayed(r) \/ kase[row.case] = "open"
  BY <1>2, <1>4, <1>6
<1>10. r \in Relays
  BY <1>2
<1> QED BY <1>3, <1>4, <1>7, <1>8, <1>9, <1>10, RelayKeeps

\* an answer is not ahead of Payment, and never makes a relay effective that was not
LEMMA MirrorSteps ==
    ASSUME RefundCaseInv, NEW x \in Requests \cup Reconcilers, Mirror(x)
    PROVE  RefundCaseInv'
<1> DEFINE r   == hand[x].relay
           a   == hand[x].answer
<1>1. r \in Relays /\ Relayed(r) /\ a # "none" /\ Reaches(a, attempt[r]) /\ a \in AttemptState
  BY DEF Mirror, RefundCaseInv, HandsSound, CasesTyped, RefundCaseTypeOK
<1>2. Resting \in [step : {"idle", "call", "mirror"}, relay : Relays \cup {"none"}, answer : AttemptState]
      /\ Resting.step = "idle" /\ hand' = [hand EXCEPT ![x] = Resting]
  BY DEF Resting, AttemptState, Mirror, Leave
<1>3. hand' \in Hands /\ \A y \in Requests \cup Reconcilers : hand'[y] = IF y = x THEN Resting ELSE hand[y]
  BY <1>2, HandGoes
<1>4. UNCHANGED <<purpose, kase, paymentSide, inFlight, effects, check>>
  BY DEF Mirror
<1>5. relay' = IF MayMirror(relay[r].status, a) THEN [relay EXCEPT ![r].status = a] ELSE relay
  BY DEF Mirror
<1> HIDE DEF r, a, Resting
<1> DEFINE row == IF MayMirror(relay[r].status, a) THEN [case |-> relay[r].case, status |-> a] ELSE relay[r]
<1>6. relay \in [Relays -> RelayRows]
  BY DEF RefundCaseInv, CasesTyped, RefundCaseTypeOK, RelayRows, RelayStatus
<1>7. relay' = [relay EXCEPT ![r] = row]
  <2>1. relay[r] = [case |-> relay[r].case, status |-> relay[r].status]
    BY <1>1, <1>6 DEF RelayRows
  <2>2. [relay[r] EXCEPT !.status = a] = [case |-> relay[r].case, status |-> a]
    BY <2>1
  <2> QED BY <1>1, <1>5, <1>6, <2>2
<1>8. row \in RelayRows /\ row.case = relay[r].case /\ row.case \in CaseIds /\ row.status # "none"
  BY <1>1, <1>6 DEF RelayRows, RelayStatus, Relayed
<1>9. row.status # "unconfirmed" => Reaches(row.status, attempt[r])
  BY <1>1 DEF RefundCaseInv, RelaysSound, MirrorTrails, Relayed
<1>10. row.status \notin NotEffective => relay[r].status \notin NotEffective
  BY DEF MayMirror, Moves, NotEffective, Unconsumed
<1>11. row.status \notin NotEffective =>
            \A s \in Relays \ {r} : relay[s].case = row.case => relay[s].status \in NotEffective
  <2> SUFFICES ASSUME row.status \notin NotEffective, NEW s \in Relays \ {r}, relay[s].case = row.case
               PROVE  relay[s].status \in NotEffective
    OBVIOUS
  <2>1. relay[r] # NoRelay
    BY <1>1, NoRelayIsBare DEF Relayed
  <2>2. relay[s].case = relay[r].case /\ relay[r].status \notin NotEffective
    BY <1>8, <1>10
  <2> HIDE DEF row
  <2> QED BY <1>1, <2>1, <2>2 DEF RefundCaseInv, RelaysSound, MirrorTrails
<1> HIDE DEF row
<1>12. \A y \in Requests \cup Reconcilers :
          \/ hand'[y] = hand[y]
          \/ hand'[y].step \in {"idle", "call"} /\ (hand'[y].step = "call" => hand'[y].relay = r)
  BY <1>2, <1>3
<1>13. r \in Relays /\ Relayed(r) /\ row \in RelayRows /\ row.case = relay[r].case /\ row.case \in CaseIds
  BY <1>1, <1>8
<1> QED BY <1>3, <1>4, <1>7, <1>8, <1>9, <1>11, <1>12, <1>13, RelayKeeps

-----------------------------------------------------------------------------
(* RefundCases: losses, effects and the safety check *)

\* what every step keeps that changes neither a case, a relay, a request nor Payment
LEMMA QuietKeeps ==
    ASSUME RefundCaseInv, UNCHANGED <<purpose, kase, relay, attempt, returned, lost, hand, inFlight>>
    PROVE  RelaysSound' /\ HandsSound' /\ CasesAgree'
<1> USE DEF RefundCaseInv
<1>1. RelaysSound'
  BY DEF RelaysSound, Relayed, MirrorTrails
<1>2. HandsSound'
  BY DEF HandsSound, Relayed
<1>3. CasesAgree'
  BY DEF CasesAgree, CancelledIsUnrefunded, LiveKase
<1> QED BY <1>1, <1>2, <1>3

LEMMA LossSteps ==
    ASSUME RefundCaseInv, RecordLoss
    PROVE  RefundCaseInv'
<1> USE DEF RefundCaseInv, RecordLoss, check, paymentSide
<1>1. CasesTyped'
  BY DEF CasesTyped, RefundCaseTypeOK
<1>2. RelaysSound' /\ HandsSound' /\ CasesAgree'
  BY QuietKeeps
<1>3. EffectsAgree' /\ ScanSound'
  BY DEF EffectsAgree, ScanSound, MismatchMeansMoved
<1> QED BY <1>1, <1>2, <1>3

LEMMA ReversalOf ==
    ASSUME CasesTyped, NEW cause \in {"refund_completion", "final_lost_chargeback"},
           causes' = causes \cup {cause}, reversal' = IF reversal = {} THEN {cause} ELSE reversal
    PROVE  /\ causes' \subseteq {"refund_completion", "final_lost_chargeback"}
           /\ reversal' \subseteq causes' /\ Cardinality(reversal') <= 1
<1>1. Cardinality({cause}) = 1
  BY FS_Singleton
<1>2. CASE reversal = {}
  BY <1>1, <1>2 DEF CasesTyped, RefundCaseTypeOK
<1>3. CASE reversal # {}
  BY <1>3 DEF CasesTyped, RefundCaseTypeOK
<1> QED BY <1>2, <1>3

LEMMA RefundEffectSteps ==
    ASSUME RefundCaseInv, NEW c \in CaseIds, ApplyRefundEffect(c)
    PROVE  RefundCaseInv'
<1> USE DEF RefundCaseInv
<1>1. /\ UNCHANGED <<purpose, kase, relay, paymentSide, hand, inFlight, loss, lossEffect, check>>
      /\ causes' = causes \cup {"refund_completion"}
      /\ reversal' = IF reversal = {} THEN {"refund_completion"} ELSE reversal
      /\ obligations' = IF purpose = "assisted" THEN obligations + 1 ELSE obligations
      /\ effect' = [effect EXCEPT ![c] = IF reversal # {} THEN "already_reversed" ELSE "reversed_purchase"]
      /\ kase[c] = "completed" /\ effect[c] = "none"
  BY DEF ApplyRefundEffect
<1>2. obligations' \in Nat
  BY <1>1 DEF CasesTyped
<1>3. /\ causes' \subseteq {"refund_completion", "final_lost_chargeback"}
      /\ reversal' \subseteq causes' /\ Cardinality(reversal') <= 1
  BY <1>1, ReversalOf
<1>4. effect' \in [CaseIds -> {"none", "already_reversed", "reversed_purchase"}] /\ effect'[c] # "none"
  BY <1>1 DEF CasesTyped
<1>5. CasesTyped'
  BY <1>1, <1>2, <1>3, <1>4 DEF CasesTyped, RefundCaseTypeOK, paymentSide, check
<1>6. RelaysSound' /\ HandsSound' /\ CasesAgree'
  BY <1>1, QuietKeeps DEF paymentSide
<1>7. EffectsAgree'
  \* the case that took its effect before would be another live one
  <2>1. obligations = 0
    BY <1>1 DEF EffectsAgree, CasesAgree, LiveKase, CasesTyped
  <2>2. obligations' <= 1 /\ (obligations' = 1 => purpose' = "assisted")
    BY <1>1, <2>1
  <2> QED BY <1>1, <1>4, <2>2 DEF EffectsAgree, paymentSide
<1>8. ScanSound'
  BY <1>1 DEF ScanSound, MismatchMeansMoved, paymentSide, check
<1> QED BY <1>5, <1>6, <1>7, <1>8

LEMMA LossEffectSteps ==
    ASSUME RefundCaseInv, ApplyLossEffect
    PROVE  RefundCaseInv'
<1> USE DEF RefundCaseInv
<1>1. UNCHANGED <<purpose, kase, relay, paymentSide, hand, inFlight, loss, effect, obligations, check>>
  BY DEF ApplyLossEffect
<1>2. \/ /\ purpose = "direct"
         /\ causes' = causes \cup {"final_lost_chargeback"}
         /\ reversal' = IF reversal = {} THEN {"final_lost_chargeback"} ELSE reversal
      \/ UNCHANGED <<causes, reversal>>
  BY DEF ApplyLossEffect, Reverses
<1>3. /\ causes' \subseteq {"refund_completion", "final_lost_chargeback"}
      /\ reversal' \subseteq causes' /\ Cardinality(reversal') <= 1
  BY <1>2, ReversalOf DEF CasesTyped, RefundCaseTypeOK
<1>4. CasesTyped'
  BY <1>1, <1>3 DEF CasesTyped, RefundCaseTypeOK, paymentSide, check
<1>5. RelaysSound' /\ HandsSound' /\ CasesAgree'
  BY <1>1, QuietKeeps DEF paymentSide
<1>6. EffectsAgree'
  BY <1>1, <1>2 DEF EffectsAgree, paymentSide
<1>7. ScanSound'
  BY <1>1 DEF ScanSound, MismatchMeansMoved, paymentSide, check
<1> QED BY <1>4, <1>5, <1>6, <1>7

\* what the check reads of the relays and the completed cases is what there is
LEMMA ReadsSound ==
    ASSUME RefundCaseInv, ReadRelays
    PROVE  ScanSound' /\ scan' \in [step : {"losses", "mirror", "relays", "compare"}, lost : BOOLEAN, mine : BOOLEAN,
                                    relays : SUBSET Seen, completed : SUBSET CaseIds]
<1> DEFINE read  == {[id |-> r, status |-> relay[r].status] : r \in Relays \ NewRelays}
           ended == {c \in CaseIds : kase[c] = "completed"}
<1> USE DEF RefundCaseInv
<1>1. scan' = [scan EXCEPT !.step = "compare", !.completed = ended, !.relays = read]
      /\ gate = "pending" /\ scan.step = "relays"
      /\ UNCHANGED <<purpose, kase, relay, attempt, returned, lost, hand, inFlight, effects, gate, moved>>
  BY DEF ReadRelays, ScanStep
<1>2. read \subseteq Seen
  BY DEF Seen, CasesTyped, RefundCaseTypeOK, RelayStatus
<1>3. ended \subseteq CaseIds /\ \A c \in ended : \E r \in returned : relay[r].case = c
  BY DEF CasesAgree
<1>4. \A s \in read : s.status # "none" /\ (s.status # "unconfirmed" => Reaches(s.status, attempt[s.id]))
  <2> SUFFICES ASSUME NEW r \in Relays \ NewRelays
               PROVE  /\ relay[r].status # "none"
                      /\ relay[r].status # "unconfirmed" => Reaches(relay[r].status, attempt[r])
    OBVIOUS
  <2>1. relay[r].status # "none"
    BY DEF NewRelays, RelaysSound, Relayed
  <2> QED BY <2>1 DEF RelaysSound, MirrorTrails
<1>5. \A r \in Relays : attempt[r] # "none" => \E s \in read : s.id = r
  <2> SUFFICES ASSUME NEW r \in Relays, attempt[r] # "none"
               PROVE  \E s \in read : s.id = r
    OBVIOUS
  <2>1. r \in Relays \ NewRelays
    BY DEF NewRelays, RelaysSound, Relayed, NoRelay
  <2>2. [id |-> r, status |-> relay[r].status] \in read
    BY <2>1
  <2> QED BY <2>2
<1> HIDE DEF read, ended
<1>6. scan \in [step : {"losses", "mirror", "relays", "compare"}, lost : BOOLEAN, mine : BOOLEAN,
                relays : SUBSET Seen, completed : SUBSET CaseIds]
  BY DEF CasesTyped
<1>7. /\ scan'.step = "compare" /\ scan'.lost = scan.lost /\ scan'.mine = scan.mine
      /\ scan'.relays = read /\ scan'.completed = ended
      /\ scan' \in [step : {"losses", "mirror", "relays", "compare"}, lost : BOOLEAN, mine : BOOLEAN,
                    relays : SUBSET Seen, completed : SUBSET CaseIds]
  BY <1>1, <1>2, <1>3, <1>6
<1>8. loss' = loss
  BY <1>1 DEF effects
<1>9. ScanSound'
  BY <1>1, <1>3, <1>4, <1>5, <1>7, <1>8 DEF ScanSound, MismatchMeansMoved
<1> QED BY <1>7, <1>9

\* what is compared is true of Payment, unless it recorded something in between
LEMMA NoMismatch ==
    ASSUME RefundCaseInv, scan.step = "compare", moved = FALSE
    PROVE  ~Mismatches
<1> USE DEF RefundCaseInv
<1>1. scan.mine => scan.lost
  BY DEF ScanSound, EffectsAgree
<1>2. \A r \in Relays : attempt[r] # "none" => \E s \in scan.relays : s.id = r
  BY DEF ScanSound
<1>3. \A s \in scan.relays : ~Ahead(s)
  <2> SUFFICES ASSUME NEW s \in scan.relays PROVE ~Ahead(s)
    OBVIOUS
  <2>1. s.status # "unconfirmed" => Reaches(s.status, attempt[s.id])
    BY DEF ScanSound
  <2> QED BY <2>1 DEF Ahead, Reaches, Moves
<1>4. \A c \in scan.completed : \E r \in returned : relay[r].case = c
  BY DEF ScanSound
<1> QED BY <1>1, <1>2, <1>3, <1>4 DEF Mismatches

LEMMA NoScanSound ==
    /\ NoScan \in [step : {"losses", "mirror", "relays", "compare"}, lost : BOOLEAN, mine : BOOLEAN,
                   relays : SUBSET Seen, completed : SUBSET CaseIds]
    /\ NoScan.step = "losses" /\ NoScan.mine = FALSE /\ NoScan.relays = {} /\ NoScan.completed = {}
BY DEF NoScan

LEMMA ScanSteps ==
    ASSUME RefundCaseInv, Scan \/ ScanFails \/ Restart
    PROVE  RefundCaseInv'
<1> USE DEF RefundCaseInv
<1>1. UNCHANGED <<purpose, kase, relay, attempt, returned, lost, inFlight, effects>>
  BY DEF Scan, ScanFails, Restart, ReadPaymentLosses, ReadBillingLosses, ReadRelays, CompareRefunds, ScanStep, paymentSide
<1>2. hand' \in Hands /\ \A x \in Requests \cup Reconcilers : hand'[x] = hand[x] \/ hand'[x].step = "idle"
  <2>1. CASE Restart
    <3>1. Resting \in [step : {"idle", "call", "mirror"}, relay : Relays \cup {"none"}, answer : AttemptState]
          /\ Resting.step = "idle"
      BY DEF Resting, AttemptState
    <3> HIDE DEF Resting
    <3> QED BY <2>1, <3>1 DEF Restart, Hands
  <2>2. CASE ~Restart
    <3>1. hand' = hand
      BY <2>2 DEF Scan, ScanFails, ReadPaymentLosses, ReadBillingLosses, ReadRelays, CompareRefunds, ScanStep
    <3> QED BY <3>1 DEF CasesTyped, RefundCaseTypeOK, Hands
  <2> QED BY <2>1, <2>2
<1>3. HandsSound'
  BY <1>1, <1>2 DEF HandsSound, Relayed
<1>4. RelaysSound'
  BY <1>1 DEF RelaysSound, Relayed, MirrorTrails
<1>5. CasesAgree' /\ EffectsAgree'
  BY <1>1 DEF CasesAgree, EffectsAgree, CancelledIsUnrefunded, LiveKase, effects
<1>6. gate' \in {"pending", "passed", "mismatch"} /\ moved' \in BOOLEAN
      /\ scan' \in [step : {"losses", "mirror", "relays", "compare"}, lost : BOOLEAN, mine : BOOLEAN,
                    relays : SUBSET Seen, completed : SUBSET CaseIds]
      /\ ScanSound'
  <2>1. CASE ReadPaymentLosses
    <3>1. scan' = [NoScan EXCEPT !.step = "mirror", !.lost = lost] /\ gate = "pending" /\ gate' = gate /\ moved' = FALSE
      BY <2>1 DEF ReadPaymentLosses, ScanStep
    <3>2. /\ scan' = [step |-> "mirror", lost |-> lost, mine |-> FALSE, relays |-> {}, completed |-> {}]
          /\ lost \in BOOLEAN
      BY <3>1 DEF NoScan, CasesTyped
    <3>3. /\ scan'.step = "mirror" /\ scan'.mine = FALSE /\ scan'.lost = lost
          /\ scan'.relays = {} /\ scan'.completed = {}
          /\ scan' \in [step : {"losses", "mirror", "relays", "compare"}, lost : BOOLEAN, mine : BOOLEAN,
                        relays : SUBSET Seen, completed : SUBSET CaseIds]
      BY <3>2
    <3>4. ScanSound'
      BY <1>1, <3>1, <3>3 DEF ScanSound, MismatchMeansMoved
    <3> QED BY <3>1, <3>3, <3>4
  <2>2. CASE ReadBillingLosses
    <3>1. scan' = [scan EXCEPT !.step = "relays", !.mine = loss] /\ gate = "pending" /\ gate' = gate /\ moved' = moved
          /\ scan.step = "mirror"
      BY <2>2 DEF ReadBillingLosses, ScanStep
    <3>2. scan \in [step : {"losses", "mirror", "relays", "compare"}, lost : BOOLEAN, mine : BOOLEAN,
                    relays : SUBSET Seen, completed : SUBSET CaseIds] /\ loss \in BOOLEAN /\ moved \in BOOLEAN
      BY DEF CasesTyped
    <3>3. /\ scan'.step = "relays" /\ scan'.mine = loss /\ scan'.lost = scan.lost
          /\ scan'.relays = scan.relays /\ scan'.completed = scan.completed
          /\ scan' \in [step : {"losses", "mirror", "relays", "compare"}, lost : BOOLEAN, mine : BOOLEAN,
                        relays : SUBSET Seen, completed : SUBSET CaseIds]
      BY <3>1, <3>2
    <3>4. loss' = loss
      BY <1>1 DEF effects
    <3> QED BY <1>1, <3>1, <3>2, <3>3, <3>4 DEF ScanSound, MismatchMeansMoved
  <2>3. CASE ReadRelays
    <3>1. gate' = gate /\ moved' = moved
      BY <2>3 DEF ReadRelays, ScanStep
    <3> QED BY <2>3, <3>1, ReadsSound DEF CasesTyped, RefundCaseTypeOK
  <2>4. CASE CompareRefunds
    <3>1. gate' \in {"mismatch", "passed"} /\ scan' = NoScan /\ moved' = (Mismatches /\ moved)
          /\ (gate' = "mismatch" => Mismatches)
      BY <2>4 DEF CompareRefunds
    <3>2. moved \in BOOLEAN /\ scan.step = "compare"
      BY <2>4 DEF CasesTyped, CompareRefunds
    <3>3. moved' \in BOOLEAN
      BY <3>1
    <3>4. gate' = "mismatch" => moved'
      BY <3>1, <3>2, NoMismatch
    <3> QED BY <3>1, <3>3, <3>4, NoScanSound DEF ScanSound, MismatchMeansMoved
  <2>5. CASE ScanFails
    <3>1. gate' = "pending" /\ scan' = NoScan /\ moved' = moved
      BY <2>5 DEF ScanFails, paymentSide
    <3> QED BY <3>1, NoScanSound DEF ScanSound, MismatchMeansMoved, CasesTyped
  <2>6. CASE Restart
    <3>1. gate' = "pending" /\ scan' = NoScan /\ moved' = moved
      BY <2>6 DEF Restart, paymentSide
    <3> QED BY <3>1, NoScanSound DEF ScanSound, MismatchMeansMoved, CasesTyped
  <2> QED BY <2>1, <2>2, <2>3, <2>4, <2>5, <2>6 DEF Scan
<1>7. CasesTyped'
  BY <1>1, <1>2, <1>6 DEF CasesTyped, RefundCaseTypeOK, Hands, effects
<1> QED BY <1>3, <1>4, <1>5, <1>6, <1>7

-----------------------------------------------------------------------------
(* RefundCases: the invariant of the specification *)

\* where nothing was returned, and what there was is over
Over ==
    /\ NothingRefunded
    /\ purpose \in {"direct", "assisted"} /\ gate \in {"pending", "passed"}
    /\ kase \in [CaseIds -> {"none", "cancelled"}]
    /\ relay \in [Relays -> RelayRows] /\ attempt \in [Relays -> AttemptState]
    /\ \A r \in Relays : \/ relay[r] = NoRelay /\ attempt[r] = "none"
                         \/ relay[r].case \in CaseIds /\ relay[r].status = "rejected" /\ attempt[r] = "rejected"

LEMMA OverSound == Over => RefundCaseInv
<1> SUFFICES ASSUME Over PROVE RefundCaseInv
  OBVIOUS
<1> USE DEF Over, NothingRefunded
<1>1. CasesTyped
  <2>1. Resting \in [step : {"idle", "call", "mirror"}, relay : Relays \cup {"none"}, answer : AttemptState]
    BY DEF Resting, AttemptState
  <2>2. hand \in Hands
    BY <2>1 DEF Hands
  <2>3. Cardinality(reversal) <= 1
    BY FS_EmptySet
  <2>4. kase \in [CaseIds -> {"none", "open", "cancelled", "completed"}]
    OBVIOUS
  <2>5. relay \in [Relays -> [case : CaseIds \cup {"none"}, status : AttemptState \cup {"unconfirmed"}]]
    BY DEF RelayRows, RelayStatus
  <2>6. /\ returned \subseteq Relays /\ inFlight \subseteq Relays /\ reversal \subseteq causes
        /\ gate \in {"pending", "passed", "mismatch"}
    OBVIOUS
  <2>7. RefundCaseTypeOK
    BY <2>2, <2>3, <2>4, <2>5, <2>6 DEF RefundCaseTypeOK, Hands
  <2>8. /\ lost \in BOOLEAN /\ loss \in BOOLEAN /\ moved \in BOOLEAN
        /\ effect \in [CaseIds -> {"none", "already_reversed", "reversed_purchase"}]
    OBVIOUS
  <2>9. causes \subseteq {"refund_completion", "final_lost_chargeback"} /\ obligations \in Nat
    OBVIOUS
  <2> QED BY <2>7, <2>8, <2>9, NoScanSound DEF CasesTyped
<1>2. RelaysSound
  <2>1. NoRelay.case = "none" /\ NoRelay.status = "none"
    BY DEF NoRelay
  <2>2. \A r \in Relays : /\ relay[r] # NoRelay => Relayed(r)
                          /\ attempt[r] # "none" \/ r \in inFlight \/ r \in returned => Relayed(r)
    BY DEF Relayed
  <2>3. \A r \in Relays : relay[r].status \notin {"none", "unconfirmed"} => Reaches(relay[r].status, attempt[r])
    BY <2>1 DEF Reaches
  <2>4. ASSUME NEW r \in Relays, NEW s \in Relays, relay[r] # NoRelay, relay[s].case = relay[r].case,
               relay[r].status \notin NotEffective
        PROVE  FALSE
    BY <2>4 DEF NotEffective, Unconsumed
  <2>5. MirrorTrails
    BY <2>3, <2>4 DEF MirrorTrails
  <2> QED BY <2>2, <2>5 DEF RelaysSound
<1>3. HandsSound
  BY DEF HandsSound, Resting
<1>4. CasesAgree
  BY DEF CasesAgree, LiveKase, CancelledIsUnrefunded, Unconsumed
<1>5. EffectsAgree
  BY DEF EffectsAgree
<1>6. ScanSound
  BY NoScanSound DEF ScanSound, MismatchMeansMoved
<1> QED BY <1>1, <1>2, <1>3, <1>4, <1>5, <1>6 DEF RefundCaseInv

LEMMA RefundCaseInvInit == RefundCaseInit => RefundCaseInv
<1>1. RefundCaseInit => Over
  BY DEF RefundCaseInit, Over, RelayRows, RelayStatus, NoRelay, AttemptState
<1> QED BY <1>1, OverSound

LEMMA RefundCaseInvNext == RefundCaseInv /\ [RefundCaseNext]_refundCaseVars => RefundCaseInv'
<1> SUFFICES ASSUME RefundCaseInv, [RefundCaseNext]_refundCaseVars
             PROVE  RefundCaseInv'
  OBVIOUS
<1>1. ASSUME NEW r \in Relays, Arrive(r) \/ AttemptMoves(r) \/ ReturnAll(r) \/ CompleteCase(r)
      PROVE  RefundCaseInv'
  BY <1>1, ArriveSteps, AttemptSteps, ReturnSteps, CompleteSteps
<1>2. ASSUME NEW c \in CaseIds, OpenCase(c) \/ CancelCase(c) \/ ApplyRefundEffect(c)
      PROVE  RefundCaseInv'
  BY <1>2, CaseSteps, RefundEffectSteps
<1>3. ASSUME NEW x \in Requests,
             \/ CallPayment(x) \/ CallLost(x)
             \/ \E r \in Relays : RetryRelay(x, r)
             \/ \E c \in CaseIds : InsertRelay(x, c)
      PROVE  RefundCaseInv'
  <2>1. CASE CallLost(x)
    <3>1. hand[x].relay \in Relays
      BY <2>1 DEF CallLost, RefundCaseInv, HandsSound
    <3> QED BY <2>1, <3>1, HandSteps
  <2> QED BY <1>3, <2>1, CallPaymentSteps, HandSteps, InsertSteps
<1>4. ASSUME NEW w \in Reconcilers, NEW r \in Relays, Look(w, r)
      PROVE  RefundCaseInv'
  BY <1>4, HandSteps
<1>5. CASE LoseDispute \/ RecordLoss \/ ApplyLossEffect \/ Scan \/ ScanFails \/ Restart
  BY <1>5, LoseSteps, LossSteps, LossEffectSteps, ScanSteps
<1>6. CASE UNCHANGED refundCaseVars
  <2>1. CasesTyped'
    BY <1>6 DEF RefundCaseInv, CasesTyped, RefundCaseTypeOK, refundCaseVars, paymentSide, effects, check
  <2>2. UNCHANGED <<purpose, kase, relay, attempt, returned, lost, hand, inFlight, effects, check, moved>>
    BY <1>6 DEF refundCaseVars, paymentSide
  <2>3. RelaysSound' /\ HandsSound' /\ CasesAgree'
    BY <2>2, QuietKeeps
  <2>4. EffectsAgree' /\ ScanSound'
    BY <2>2 DEF RefundCaseInv, EffectsAgree, ScanSound, MismatchMeansMoved, effects, check
  <2> QED BY <2>1, <2>3, <2>4 DEF RefundCaseInv
<1> QED BY <1>1, <1>2, <1>3, <1>4, <1>5, <1>6, MirrorSteps DEF RefundCaseNext

LEMMA RefundCaseInvAlways == RefundCaseSpec => []RefundCaseInv
BY RefundCaseInvInit, RefundCaseInvNext, PTL DEF RefundCaseSpec

\* The types of the refund of a purchase hold in every state.
THEOREM RefundCaseTypeCorrect == RefundCaseSpec => []RefundCaseTypeOK
<1>1. RefundCaseInv => RefundCaseTypeOK
  BY DEF RefundCaseInv, CasesTyped
<1> QED BY <1>1, RefundCaseInvAlways, PTL

LEMMA RefundCaseInvSound == RefundCaseInv => RefundCasesSound
<1> SUFFICES ASSUME RefundCaseInv PROVE RefundCasesSound
  OBVIOUS
<1>1. NothingContradicts
  <2> SUFFICES ASSUME NEW c \in CaseIds, kase[c] = "completed", effect[c] = "none"
               PROVE  ~Contradicts(c)
    BY DEF NothingContradicts
  \* the completed case that took its effect would be another live one
  <2>1. "refund_completion" \notin causes /\ ~(obligations > 0)
    BY DEF RefundCaseInv, CasesAgree, EffectsAgree, LiveKase
  <2>2. purpose \in {"direct", "assisted"} /\ reversal \subseteq causes
    BY DEF RefundCaseInv, CasesTyped, RefundCaseTypeOK
  <2>3. purpose = "assisted" => reversal = {}
    BY <2>1, <2>2 DEF RefundCaseInv, EffectsAgree
  <2> QED BY <2>1, <2>2, <2>3 DEF Contradicts
<1> QED BY <1>1 DEF RefundCasesSound, RefundCaseInv, RelaysSound, CasesAgree, ScanSound

\* Nothing is returned for a case Billing let its Owner cancel; no relay says more of an attempt than Payment does, and one
\* of a case at most may return money; every completed case can take its effect; and the safety check of a process that
\* starts finds a mismatch only in what Payment recorded while it was reading (cancel, mirror, the effect workers, the gate)
THEOREM RefundCasesSoundAlways == RefundCaseSpec => []RefundCasesSound
BY RefundCaseInvAlways, RefundCaseInvSound, PTL

\* The cash of an assisted purchase is owed back once for its refund, however many cases its Owner opened and cancelled
\* before, and never of a direct one (applyRefundEffect, cash_return_obligation)
OwedOnce == obligations <= 1 /\ (obligations = 1 => purpose = "assisted")

\* No step makes the cash of a refund owed twice.
THEOREM OwedOnceAlways == RefundCaseSpec => []OwedOnce
<1>1. RefundCaseInv => OwedOnce
  BY DEF RefundCaseInv, EffectsAgree, OwedOnce
<1> QED BY <1>1, RefundCaseInvAlways, PTL

\* What ended stays as it ended, whatever late answer, pass or process comes after it: a case that was cancelled or
\* completed, what Payment answered of an attempt for good and what a relay mirrors of it, the effect of a case and of
\* a lost dispute, and what reversed the purchase; and a relay is never of another case than it was sent for
\* (billing_refund_case_transition_guard, billing_refund_relay_status_guard, refund_case_effect)
RefundEndsStay ==
    /\ \A c \in CaseIds : /\ kase[c] \in {"cancelled", "completed"} => kase'[c] = kase[c]
                          /\ effect[c] # "none" => effect'[c] = effect[c]
    /\ \A r \in Relays : /\ attempt[r] \in NotEffective \cup {"succeeded"} => attempt'[r] = attempt[r]
                         /\ relay[r].status \in NotEffective \cup {"succeeded"} => relay'[r] = relay[r]
                         /\ Relayed(r) => relay'[r].case = relay[r].case
    /\ lossEffect # "none" => lossEffect' = lossEffect
    /\ reversal # {} => reversal' = reversal

\* Payment answers what it decided of an attempt again, and decides nothing twice
LEMMA DecidedStays ==
    ASSUME CasesTyped, NEW r \in Relays, NEW a, Handles(r, a) \/ (a \in Onward(attempt[r]) /\ attempt' = [attempt EXCEPT ![r] = a])
    PROVE  \A s \in Relays : attempt[s] \in NotEffective \cup {"succeeded"} => attempt'[s] = attempt[s]
<1>1. attempt \in [Relays -> AttemptState] /\ attempt' = [attempt EXCEPT ![r] = a]
  BY DEF CasesTyped, RefundCaseTypeOK, Handles
<1>2. attempt[r] \in NotEffective \cup {"succeeded"} => a = attempt[r]
  BY DEF Handles, Onward, NotEffective, Unconsumed
<1> QED BY <1>1, <1>2

\* a relay Payment decided, as it was told, takes no other answer
LEMMA MirroredStays ==
    ASSUME CasesTyped, NEW r \in Relays, NEW a \in AttemptState,
           relay' = IF MayMirror(relay[r].status, a) THEN [relay EXCEPT ![r].status = a] ELSE relay
    PROVE  \A s \in Relays : /\ relay[s].status \in NotEffective \cup {"succeeded"} => relay'[s] = relay[s]
                             /\ relay'[s].case = relay[s].case
<1>1. relay \in [Relays -> [case : CaseIds \cup {"none"}, status : RelayStatus]]
  BY DEF CasesTyped, RefundCaseTypeOK, RelayStatus
<1>2. relay[r].status \in NotEffective \cup {"succeeded"} => ~MayMirror(relay[r].status, a)
  BY DEF MayMirror, Moves, NotEffective, Unconsumed
<1> QED BY <1>1, <1>2

LEMMA RefundEndsKept == RefundCaseInv /\ [RefundCaseNext]_refundCaseVars => RefundEndsStay
<1> SUFFICES ASSUME RefundCaseInv, [RefundCaseNext]_refundCaseVars
             PROVE  RefundEndsStay
  OBVIOUS
<1>t. kase \in [CaseIds -> {"none", "open", "cancelled", "completed"}]
      /\ effect \in [CaseIds -> {"none", "already_reversed", "reversed_purchase"}]
  BY DEF RefundCaseInv, CasesTyped, RefundCaseTypeOK
<1>1. ASSUME NEW r \in Relays, Arrive(r) \/ AttemptMoves(r) PROVE RefundEndsStay
  <2>1. \A s \in Relays : attempt[s] \in NotEffective \cup {"succeeded"} => attempt'[s] = attempt[s]
    BY <1>1, DecidedStays DEF RefundCaseInv, Arrive, AttemptMoves, GoesOn
  <2>2. UNCHANGED <<kase, relay, effects>>
    BY <1>1 DEF Arrive, AttemptMoves, GoesOn
  <2> QED BY <2>1, <2>2 DEF RefundEndsStay, effects
<1>2. ASSUME NEW r \in Relays, CompleteCase(r) PROVE RefundEndsStay
  <2>1. kase[relay[r].case] = "open" /\ kase' = [kase EXCEPT ![relay[r].case] = "completed"]
        /\ UNCHANGED <<relay, attempt, effects>>
    BY <1>2 DEF CompleteCase, paymentSide
  <2>2. \A c \in CaseIds : kase[c] \in {"cancelled", "completed"} => kase'[c] = kase[c]
    BY <1>t, <2>1
  <2> QED BY <2>1, <2>2 DEF RefundEndsStay, effects
<1>3. ASSUME NEW c \in CaseIds, OpenCase(c) \/ CancelCase(c) PROVE RefundEndsStay
  <2>1. UNCHANGED <<relay, attempt, effects>>
    BY <1>3 DEF OpenCase, CancelCase, paymentSide
  <2>2. \A d \in CaseIds : kase[d] \in {"cancelled", "completed"} => kase'[d] = kase[d]
    BY <1>t, <1>3 DEF OpenCase, CancelCase
  <2> QED BY <2>1, <2>2 DEF RefundEndsStay, effects
<1>4. ASSUME NEW c \in CaseIds, ApplyRefundEffect(c) PROVE RefundEndsStay
  <2>1. UNCHANGED <<kase, relay, attempt, lossEffect>>
    BY <1>4 DEF ApplyRefundEffect, paymentSide
  <2>2. \A d \in CaseIds : effect[d] # "none" => effect'[d] = effect[d]
    BY <1>t, <1>4 DEF ApplyRefundEffect
  <2>3. reversal # {} => reversal' = reversal
    BY <1>4 DEF ApplyRefundEffect
  <2> QED BY <2>1, <2>2, <2>3 DEF RefundEndsStay
<1>5. ASSUME NEW x \in Requests, CallPayment(x) PROVE RefundEndsStay
  <2>1. hand[x].relay \in Relays
    BY <1>5 DEF CallPayment, RefundCaseInv, HandsSound
  <2>2. \A s \in Relays : attempt[s] \in NotEffective \cup {"succeeded"} => attempt'[s] = attempt[s]
    BY <1>5, <2>1, DecidedStays DEF CallPayment, RefundCaseInv
  <2>3. UNCHANGED <<kase, relay, effects>>
    BY <1>5 DEF CallPayment
  <2> QED BY <2>2, <2>3 DEF RefundEndsStay, effects
<1>6. ASSUME NEW x \in Requests, NEW c \in CaseIds, InsertRelay(x, c) PROVE RefundEndsStay
  <2> DEFINE r == CHOOSE r \in NewRelays : TRUE
             row == [case |-> c, status |-> "unconfirmed"]
  <2>1. r \in NewRelays /\ relay' = [relay EXCEPT ![r] = row] /\ UNCHANGED <<kase, attempt, effects>>
    BY <1>6 DEF InsertRelay, paymentSide
  <2>2. relay \in [Relays -> [case : CaseIds \cup {"none"}, status : RelayStatus]]
    BY DEF RefundCaseInv, CasesTyped, RefundCaseTypeOK, RelayStatus
  <2>3. r \in Relays /\ relay[r] = NoRelay
    BY <2>1 DEF NewRelays
  <2>4. relay[r].status = "none"
    BY <2>3 DEF NoRelay
  <2> HIDE DEF r, row
  <2>5. \A s \in Relays : relay[s].status # "none" => relay'[s] = relay[s]
    BY <2>1, <2>2, <2>3, <2>4
  <2> QED BY <2>1, <2>5 DEF RefundEndsStay, effects, Relayed, NotEffective, Unconsumed
<1>7. ASSUME NEW x \in Requests \cup Reconcilers, Mirror(x) PROVE RefundEndsStay
  <2>1. hand[x].relay \in Relays /\ hand[x].answer \in AttemptState
    BY <1>7 DEF Mirror, RefundCaseInv, CasesTyped, RefundCaseTypeOK, HandsSound
  <2>2. \A s \in Relays : /\ relay[s].status \in NotEffective \cup {"succeeded"} => relay'[s] = relay[s]
                          /\ relay'[s].case = relay[s].case
    BY <1>7, <2>1, MirroredStays DEF Mirror, RefundCaseInv
  <2>3. UNCHANGED <<kase, attempt, effects>>
    BY <1>7 DEF Mirror, paymentSide
  <2> QED BY <2>2, <2>3 DEF RefundEndsStay, effects
<1>8. CASE ApplyLossEffect
  <2>1. UNCHANGED <<kase, relay, attempt, effect>> /\ lossEffect = "none"
    BY <1>8 DEF ApplyLossEffect, paymentSide
  <2>2. reversal # {} => reversal' = reversal
    BY <1>8 DEF ApplyLossEffect
  <2> QED BY <2>1, <2>2 DEF RefundEndsStay
<1>9. CASE RecordLoss
  BY <1>9 DEF RecordLoss, RefundEndsStay, paymentSide
<1>10. CASE LoseDispute \/ Scan \/ ScanFails \/ Restart \/ UNCHANGED refundCaseVars
  <2>1. UNCHANGED <<kase, relay, attempt, effects>>
    BY <1>10 DEF LoseDispute, Scan, ScanFails, Restart, ReadPaymentLosses, ReadBillingLosses, ReadRelays,
                 CompareRefunds, ScanStep, paymentSide, refundCaseVars
  <2> QED BY <2>1 DEF RefundEndsStay, effects
<1>11. ASSUME NEW r \in Relays, NEW x, ReturnAll(r) \/ RetryRelay(x, r) \/ Look(x, r) PROVE RefundEndsStay
  <2>1. UNCHANGED <<kase, relay, attempt, effects>>
    BY <1>11 DEF ReturnAll, Returns, RetryRelay, Look, paymentSide
  <2> QED BY <2>1 DEF RefundEndsStay, effects
<1>12. ASSUME NEW x \in Requests, CallLost(x) PROVE RefundEndsStay
  <2>1. UNCHANGED <<kase, relay, attempt, effects>>
    BY <1>12 DEF CallLost, paymentSide
  <2> QED BY <2>1 DEF RefundEndsStay, effects
<1> QED BY <1>1, <1>2, <1>3, <1>4, <1>5, <1>6, <1>7, <1>8, <1>9, <1>10, <1>11, <1>12 DEF RefundCaseNext

\* No step takes back what the refund of a purchase ended with.
THEOREM RefundEndsStayAlways == RefundCaseSpec => [][RefundEndsStay]_refundCaseVars
<1>1. RefundCaseInv /\ [RefundCaseNext]_refundCaseVars => [RefundEndsStay]_refundCaseVars
  BY RefundEndsKept
<1> QED BY <1>1, RefundCaseInvAlways, PTL DEF RefundCaseSpec

-----------------------------------------------------------------------------
(* AssistedSettlement: the inductive invariant *)

Active(n) == channel[n].status \in ActiveChannel

\* a channel is what its request is: none is left behind by a purchase or a cash return
StatusOf(request) ==
    CASE request = "none"                     -> "none"
      [] request \in {"created", "requested"} -> "open"
      [] request = "sending"                  -> "uncertain"
      [] request = "paid"                     -> "settled"
      [] OTHER                                -> "closed"

\* while a channel may still succeed nothing else has taken the request, and no other channel may
ChannelsSound ==
    /\ \A n \in Channels : channel[n].status = StatusOf(channel[n].request)
    /\ \A n \in Channels : Active(n) => bought = {} /\ owed = "none" /\ assistance = "cash_collected"
    /\ \A n, k \in Channels : Active(n) /\ Active(k) => n = k
    /\ PaidIsSold

\* the one purchase has its evidence, and the request and the cash agree with it
PurchaseSound ==
    /\ \A b, d \in bought : b = d
    /\ \A b \in bought : \/ b[2] = "payment" /\ channel[b[1]].request = "paid"
                         \/ b[2] \in Lates /\ held[b[1]] = b[2]
    /\ assistance = "settled" <=> bought # {}
    /\ bought # {} => owed \in {"none", "superseded"}
    /\ assistance = "returned" <=> owed = "confirmed"
    /\ assistance \in {"pending", "declined"} => owed = "none"

\* what is held for the Owner was recorded, on a channel that failed; what was not captured has no trace
CapturesSound ==
    /\ \A n \in Channels : /\ held[n] # "success"
                           /\ held[n] \in Lates => /\ late[held[n]].channel = n
                                                   /\ late[held[n]].step = "recorded"
                                                   /\ channel[n].request = "failed"
    /\ \A l \in Lates : /\ late[l] # NotCaptured => late[l].channel \in Channels
                        /\ late[l] = NotCaptured => refunding[l] = NoCaseYet
                        /\ late[l].step # "recorded" => matter[l] = NoMatter
                        /\ late[l].step = "none" => late[l] = NotCaptured

AssistedInv == AssistedTypeOK /\ ChannelsSound /\ PurchaseSound /\ CapturesSound /\ SoldOrRefunded /\ CasesEndTrue

-----------------------------------------------------------------------------

LEMMA AssistedInvInit == NothingAssisted => AssistedInv
<1> SUFFICES ASSUME NothingAssisted PROVE AssistedInv
  OBVIOUS
<1>1. AssistedTypeOK
  BY AssistanceAssumption DEF NothingAssisted, AssistedTypeOK, NoChannel, NotCaptured, NoCaseYet, NoMatter
<1>2. ChannelsSound
  BY DEF NothingAssisted, ChannelsSound, Active, ActiveChannel, StatusOf, NoChannel, PaidIsSold
<1>3. PurchaseSound
  BY DEF NothingAssisted, PurchaseSound
<1>4. CapturesSound
  BY AssistanceAssumption DEF NothingAssisted, CapturesSound, NotCaptured, NoMatter, NoCaseYet
<1>5. SoldOrRefunded
  BY DEF NothingAssisted, SoldOrRefunded, SoldOn
<1>6. CasesEndTrue
  BY DEF NothingAssisted, CasesEndTrue, NoMatter
<1> QED BY <1>1, <1>2, <1>3, <1>4, <1>5, <1>6 DEF AssistedInv

\* an action on the request and the cash alone
LEMMA CashSteps ==
    ASSUME AssistedInv, Decline \/ ReportCash \/ DeadlinePasses \/ CashReturnSweep \/ ReportReturn \/ ConfirmReturn
    PROVE  AssistedInv'
<1> USE DEF Decline, ReportCash, DeadlinePasses, CashReturnSweep, ReportReturn, ConfirmReturn, AssistedInv,
            captureSide, decisionSide
<1>1. AssistedTypeOK'
  BY DEF AssistedTypeOK
<1>2. ChannelsSound'
  BY DEF ChannelsSound, Active, PaidIsSold, SoldOn, PurchaseSound, Due, NoneActive
<1>3. PurchaseSound'
  BY DEF PurchaseSound, Due
<1>4. CapturesSound'
  BY DEF CapturesSound
<1>5. SoldOrRefunded' /\ CasesEndTrue'
  BY DEF SoldOrRefunded, CasesEndTrue, SoldOn, ChannelOf, LatesOf, Counts, Proves
<1> QED BY <1>1, <1>2, <1>3, <1>4, <1>5

-----------------------------------------------------------------------------
(* AssistedSettlement: a channel's request and payment *)

\* what a request and a payment may be, and what a channel then is
RequestState == {"none", "created", "sending", "requested", "paid", "failed", "rejected"}
Payments  == {"none", "open", "failed", "succeeded"}

\* a channel that goes from one request to another, before it is paid, keeps the others what they are
LEMMA ChannelTurns ==
    ASSUME AssistedInv, NEW n \in Channels, NEW request \in RequestState, NEW payment \in Payments,
           channel[n].request \in {"none", "created", "sending", "requested"}, request # "paid",
           StatusOf(request) \in ActiveChannel =>
               /\ bought = {} /\ owed = "none" /\ assistance = "cash_collected"
               /\ \A k \in Channels \ {n} : ~Active(k),
           channel' = [channel EXCEPT ![n] = [status |-> StatusOf(request), request |-> request, payment |-> payment]],
           UNCHANGED <<assistanceSide, captureSide, decisionSide>>
    PROVE  AssistedInv'
<1> DEFINE row == [status |-> StatusOf(request), request |-> request, payment |-> payment]
<1>1. row \in [status : {"none", "open", "uncertain", "settled", "closed"}, request : RequestState, payment : Payments]
  BY DEF StatusOf, RequestState
<1>2. row.status = StatusOf(request) /\ row.request = request
  OBVIOUS
<1>3. channel' = [channel EXCEPT ![n] = row]
  OBVIOUS
<1> HIDE DEF row
<1> USE DEF AssistedInv, assistanceSide, captureSide, decisionSide
<1>4. AssistedTypeOK'
  BY <1>1, <1>3 DEF AssistedTypeOK, RequestState, Payments
<1>5. \A k \in Channels : channel'[k] = IF k = n THEN row ELSE channel[k]
  BY <1>3 DEF AssistedTypeOK
<1>6. ChannelsSound'
  BY <1>2, <1>5 DEF ChannelsSound, Active, PaidIsSold, SoldOn
<1>7. PurchaseSound'
  BY <1>2, <1>5 DEF PurchaseSound, AssistedTypeOK, CapturesSound
<1>8. CapturesSound'
  BY <1>2, <1>5 DEF CapturesSound, AssistedTypeOK
<1>9. SoldOrRefunded' /\ CasesEndTrue'
  BY DEF SoldOrRefunded, CasesEndTrue, SoldOn, ChannelOf, LatesOf, Counts, Proves
<1> QED BY <1>4, <1>6, <1>7, <1>8, <1>9

\* while the request of a channel is open, so is the channel, and it follows
LEMMA FollowsRequest ==
    ASSUME ChannelsSound, NEW n \in Channels, NEW request \in RequestState \ {"none", "paid"},
           channel[n].request \in {"created", "sending", "requested"}
    PROVE  /\ Active(n)
           /\ Followed(channel[n].status, request) = StatusOf(request)
BY DEF ChannelsSound, Active, ActiveChannel, StatusOf, Followed, RequestState

LEMMA RequestTurns ==
    ASSUME AssistedInv, NEW n \in Channels, NEW request \in RequestState \ {"none", "paid"},
           channel[n].request \in {"created", "sending", "requested"},
           TurnRequest(n, request), UNCHANGED <<assistanceSide, captureSide, decisionSide>>
    PROVE  AssistedInv'
<1>1. Active(n) /\ Followed(channel[n].status, request) = StatusOf(request)
  BY FollowsRequest DEF AssistedInv
<1>2. channel[n].payment \in Payments
  BY DEF AssistedInv, AssistedTypeOK, Payments
<1>3. /\ bought = {} /\ owed = "none" /\ assistance = "cash_collected"
      /\ \A k \in Channels \ {n} : ~Active(k)
  BY <1>1 DEF AssistedInv, ChannelsSound
<1>4. channel' = [channel EXCEPT ![n] = [status |-> StatusOf(request), request |-> request, payment |-> channel[n].payment]]
  BY <1>1 DEF TurnRequest, AssistedInv, AssistedTypeOK
<1> QED BY <1>2, <1>3, <1>4, ChannelTurns

LEMMA RequestSteps ==
    ASSUME AssistedInv, NEW n \in Channels, SendRequest(n) \/ RequestAnswered(n) \/ CloseOnFailure(n)
    PROVE  AssistedInv'
<1>1. {"sending", "requested", "rejected", "failed"} \subseteq RequestState \ {"none", "paid"}
  BY DEF RequestState
<1> QED BY <1>1, RequestTurns DEF SendRequest, RequestAnswered, CloseOnFailure

LEMMA StartSteps ==
    ASSUME AssistedInv, StartSettlement
    PROVE  AssistedInv'
<1> DEFINE n == CHOOSE k \in Unused : TRUE
<1>1. n \in Unused
  BY DEF StartSettlement
<1>2. n \in Channels /\ channel[n].request = "none" /\ ~Active(n)
  BY <1>1 DEF Unused, NoChannel, Active, ActiveChannel
<1>3. channel' = [channel EXCEPT ![n] = [status |-> "open", request |-> "created", payment |-> "none"]]
  BY DEF StartSettlement
<1> HIDE DEF n
<1>4. StatusOf("created") = "open"
  BY DEF StatusOf
<1>5. /\ bought = {} /\ owed = "none" /\ assistance = "cash_collected"
      /\ \A k \in Channels \ {n} : ~Active(k)
  BY DEF StartSettlement, NoneActive, Active
<1>6. "created" \in RequestState /\ "none" \in Payments
  BY DEF RequestState, Payments
<1>7. channel' = [channel EXCEPT ![n] = [status |-> StatusOf("created"), request |-> "created", payment |-> "none"]]
  BY <1>3, <1>4
<1> QED BY <1>2, <1>5, <1>6, <1>7, ChannelTurns DEF StartSettlement

LEMMA PaymentSteps ==
    ASSUME AssistedInv, NEW n \in Channels, PaymentMoves(n)
    PROVE  AssistedInv'
<1>1. PICK p \in Onwards(channel[n].payment) : channel' = [channel EXCEPT ![n].payment = p]
  BY DEF PaymentMoves
<1>2. p \in Payments
  BY DEF Onwards, Payments
<1> DEFINE request == channel[n].request
<1>3. request \in {"sending", "requested"} /\ request \in RequestState
  BY DEF PaymentMoves, RequestState
<1>4. channel[n].status = StatusOf(request) /\ Active(n)
  BY <1>3 DEF AssistedInv, ChannelsSound, StatusOf, Active, ActiveChannel
<1>5. channel' = [channel EXCEPT ![n] = [status |-> StatusOf(request), request |-> request, payment |-> p]]
  <2>1. channel[n] = [status |-> channel[n].status, request |-> request, payment |-> channel[n].payment]
    BY DEF AssistedInv, AssistedTypeOK
  <2>2. [channel[n] EXCEPT !.payment = p] = [status |-> StatusOf(request), request |-> request, payment |-> p]
    BY <2>1, <1>4
  <2> QED BY <1>1, <2>2
<1>6. /\ bought = {} /\ owed = "none" /\ assistance = "cash_collected"
      /\ \A k \in Channels \ {n} : ~Active(k)
  BY <1>4 DEF AssistedInv, ChannelsSound
<1>7. UNCHANGED <<assistanceSide, captureSide, decisionSide>>
  BY DEF PaymentMoves
<1> HIDE DEF request
<1>8. channel[n].request \in {"none", "created", "sending", "requested"} /\ request # "paid"
  BY <1>3 DEF request
<1> QED BY <1>2, <1>3, <1>5, <1>6, <1>7, <1>8, ChannelTurns

\* money paid while the payment is open finds the channel open, and buys
LEMMA PaidSteps ==
    ASSUME AssistedInv, NEW n \in Channels, ApplyAssistedSettlement(n)
    PROVE  AssistedInv'
<1> DEFINE row == [status |-> "settled", request |-> "paid", payment |-> channel[n].payment]
<1>1. channel[n].status \in ActiveChannel /\ channel[n].request = "requested"
  BY DEF ApplyAssistedSettlement, AssistedInv, ChannelsSound, StatusOf, ActiveChannel
<1>2. /\ bought = {} /\ owed = "none" /\ assistance = "cash_collected"
      /\ \A k \in Channels \ {n} : ~Active(k)
  BY <1>1 DEF AssistedInv, ChannelsSound, Active
<1>3. /\ channel' = [channel EXCEPT ![n] = row]
      /\ bought' = bought \cup {<<n, "payment">>}
      /\ assistance' = "settled"
      /\ UNCHANGED <<past, owed, captureSide, consumed, held>>
  BY <1>1, <1>2 DEF ApplyAssistedSettlement, AssistedInv, AssistedTypeOK
<1>4. /\ row \in [status : {"none", "open", "uncertain", "settled", "closed"}, request : RequestState, payment : Payments]
      /\ row.status = "settled" /\ row.request = "paid"
  BY DEF AssistedInv, AssistedTypeOK, RequestState, Payments
<1> HIDE DEF row
<1>5. \A k \in Channels : channel'[k] = IF k = n THEN row ELSE channel[k]
  BY <1>3 DEF AssistedInv, AssistedTypeOK
<1>6. bought' = {<<n, "payment">>}
  BY <1>2, <1>3
<1> USE DEF AssistedInv, captureSide
<1>7. AssistedTypeOK'
  BY <1>2, <1>3, <1>4, <1>6 DEF AssistedTypeOK, RequestState, Payments
<1>8. ChannelsSound'
  BY <1>2, <1>3, <1>4, <1>5, <1>6 DEF ChannelsSound, Active, ActiveChannel, StatusOf, PaidIsSold, SoldOn
<1>9. PurchaseSound'
  BY <1>2, <1>3, <1>4, <1>5, <1>6 DEF PurchaseSound
<1>10. CapturesSound'
  BY <1>1, <1>3, <1>4, <1>5 DEF CapturesSound, AssistedTypeOK
<1>11. \A l \in Lates : ~SoldOn(late[l].channel, l)' /\ ~SoldOn(late[l].channel, l)
  BY <1>2, <1>3, <1>6, AssistanceAssumption DEF SoldOn
<1>12. SoldOrRefunded' /\ CasesEndTrue'
  BY <1>3, <1>11 DEF SoldOrRefunded, CasesEndTrue, SoldOn, ChannelOf, LatesOf, Counts, Proves
<1> QED BY <1>7, <1>8, <1>9, <1>10, <1>12

-----------------------------------------------------------------------------
(* AssistedSettlement: late captures, decisions, refunds and cases *)

\* what a step that leaves the channels, the request and the purchase alone keeps by itself
LEMMA MoneyStays ==
    ASSUME AssistedInv, UNCHANGED <<assistanceSide, channel, bought>>, UNCHANGED held
    PROVE  ChannelsSound' /\ PurchaseSound'
BY DEF AssistedInv, ChannelsSound, PurchaseSound, Active, PaidIsSold, SoldOn, assistanceSide

\* nothing was sold on a capture that is not recorded
LEMMA SoldIsHeld ==
    ASSUME AssistedInv, NEW l \in Lates, NEW n \in Channels, SoldOn(n, l)
    PROVE  held[n] = l /\ late[l].channel = n /\ late[l].step = "recorded"
<1>1. <<n, l>> \in bought /\ l # "payment" /\ l \in Lates
  BY AssistanceAssumption DEF SoldOn
<1>2. held[<<n, l>>[1]] = <<n, l>>[2]
  BY <1>1 DEF AssistedInv, PurchaseSound
<1> QED BY <1>2 DEF AssistedInv, CapturesSound

LEMMA LateCaptureSteps ==
    ASSUME AssistedInv, NEW n \in Channels, NEW equal \in BOOLEAN, LateCapture(n, equal)
    PROVE  AssistedInv'
<1> DEFINE l == CHOOSE k \in Uncaptured : TRUE
           row == [step |-> "captured", channel |-> n, equal |-> equal]
<1>1. l \in Uncaptured
  BY DEF LateCapture
<1>2. l \in Lates /\ late[l] = NotCaptured /\ late[l].step = "none" /\ late[l].channel = "none"
  BY <1>1 DEF Uncaptured, NotCaptured
<1>3. late' = [late EXCEPT ![l] = row]
  BY DEF LateCapture
<1>4. row.step = "captured" /\ row.channel = n
      /\ row \in [step : {"none", "captured", "recorded"}, channel : Channels \cup {"none"}, equal : BOOLEAN]
  OBVIOUS
<1> HIDE DEF l, row
<1>5. \A k \in Lates : late'[k] = IF k = l THEN row ELSE late[k]
  BY <1>3 DEF AssistedInv, AssistedTypeOK
<1>6. refunding[l] = NoCaseYet /\ matter[l] = NoMatter
  BY <1>2 DEF AssistedInv, CapturesSound
<1>7. UNCHANGED <<assistanceSide, channel, matter, refunding, charged, held, consumed, bought>>
  BY DEF LateCapture, decisionSide
<1> USE DEF AssistedInv
<1>8. AssistedTypeOK'
  BY <1>3, <1>4, <1>7 DEF AssistedTypeOK, assistanceSide
<1>9. ChannelsSound' /\ PurchaseSound'
  BY <1>7, MoneyStays
<1>10. CapturesSound'
  <2>1. \A k \in Channels : held[k] \in Lates => held[k] # l
    BY <1>2 DEF CapturesSound
  <2> QED BY <1>2, <1>4, <1>5, <1>6, <1>7, <2>1 DEF CapturesSound, NotCaptured
<1>11. \A k \in Lates, m \in Channels : SoldOn(m, k) => k # l
  BY <1>2, SoldIsHeld
<1>12. ~Counts(l) /\ matter[l].end = "open"
  BY <1>6 DEF Counts, NoCaseYet, NoMatter
<1>13. SoldOrRefunded'
  <2> SUFFICES ASSUME NEW k \in Lates, SoldOn(ChannelOf(k), k)', NEW m \in LatesOf(ChannelOf(k))'
               PROVE  Counts(m)' = FALSE
    BY DEF SoldOrRefunded
  <2>1. <<late'[k].channel, k>> \in bought
    BY <1>7 DEF SoldOn, ChannelOf
  <2>2. late'[k].channel \in Channels
    BY <2>1 DEF AssistedTypeOK
  <2>3. k # l
    BY <1>11, <2>1, <2>2 DEF SoldOn
  <2>4. late'[k] = late[k]
    BY <1>5, <2>3
  <2>5. SoldOn(ChannelOf(k), k)
    BY <2>1, <2>4 DEF SoldOn, ChannelOf
  <2>6. m \in Lates /\ late'[m].channel = late'[k].channel
    BY DEF LatesOf, ChannelOf
  <2>7. m = l \/ m \in LatesOf(ChannelOf(k))
    BY <1>5, <2>4, <2>6 DEF LatesOf, ChannelOf
  <2>8. ~Counts(m)
    BY <2>5, <2>7, <1>12 DEF SoldOrRefunded
  <2> QED BY <2>8, <1>7 DEF Counts
<1>14. CasesEndTrue'
  <2> SUFFICES ASSUME NEW k \in Lates, matter'[k].end # "open"
               PROVE  Proves(k, matter[k].end)'
    BY DEF CasesEndTrue
  <2>1. k # l /\ matter[k].end # "open" /\ Proves(k, matter[k].end)
    BY <1>7, <1>12 DEF CasesEndTrue
  <2>2. late'[k] = late[k]
    BY <1>5, <2>1
  <2> QED BY <1>7, <2>1, <2>2 DEF Proves, SoldOn, ChannelOf, Counts
<1> QED BY <1>8, <1>9, <1>10, <1>13, <1>14

LEMMA ClassifySteps ==
    ASSUME AssistedInv, NEW l \in Lates, RecordLate(l) \/ ClassifyDeferred(l)
    PROVE  AssistedInv'
<1> USE DEF AssistedInv
<1> DEFINE n == late[l].channel
<1>1. late[l] # NotCaptured /\ n \in Channels /\ matter[l] = NoMatter
  <2>1. late[l].step \in {"captured", "recorded"} /\ matter[l] = NoMatter
    BY DEF RecordLate, ClassifyDeferred, CapturesSound
  <2> QED BY <2>1 DEF CapturesSound, NotCaptured
<1>2. UNCHANGED <<assistanceSide, channel, refunding, charged, consumed, bought>>
  BY DEF RecordLate, ClassifyDeferred
\* the row of the capture keeps its channel
<1>3. \A k \in Lates : /\ late'[k].channel = late[k].channel
                       /\ late'[k].step = IF k = l THEN "recorded" ELSE late[k].step
                       /\ late'[k] = NotCaptured <=> late[k] = NotCaptured
  <2>1. CASE RecordLate(l)
    <3>1. late' = [late EXCEPT ![l].step = "recorded"]
      BY <2>1 DEF RecordLate
    <3>2. late'[l].channel = late[l].channel /\ late'[l].step = "recorded" /\ late'[l] # NotCaptured
      BY <3>1 DEF AssistedTypeOK, NotCaptured
    <3>3. \A k \in Lates \ {l} : late'[k] = late[k]
      BY <3>1 DEF AssistedTypeOK
    <3> QED BY <3>2, <3>3, <1>1
  <2>2. CASE ClassifyDeferred(l)
    BY <2>2 DEF ClassifyDeferred
  <2> QED BY <2>1, <2>2
<1>4. late' \in [Lates -> [step : {"none", "captured", "recorded"}, channel : Channels \cup {"none"}, equal : BOOLEAN]]
  <2>1. CASE RecordLate(l)
    <3>1. late' = [late EXCEPT ![l].step = "recorded"]
      BY <2>1 DEF RecordLate
    <3> DEFINE row == [late[l] EXCEPT !.step = "recorded"]
    <3>2. row \in [step : {"none", "captured", "recorded"}, channel : Channels \cup {"none"}, equal : BOOLEAN]
      <4>1. late[l] \in [step : {"none", "captured", "recorded"}, channel : Channels \cup {"none"}, equal : BOOLEAN]
        BY DEF AssistedTypeOK
      <4> HIDE DEF AssistedInv
      <4> QED BY <4>1
    <3>3. late' = [late EXCEPT ![l] = row]
      BY <3>1
    <3> HIDE DEF row
    <3> QED BY <3>2, <3>3 DEF AssistedTypeOK
  <2>2. CASE ClassifyDeferred(l)
    BY <2>2 DEF ClassifyDeferred, AssistedTypeOK
  <2> QED BY <2>1, <2>2
<1>5. Classify(l)
  BY DEF RecordLate, ClassifyDeferred
<1>6. \/ UNCHANGED <<held, matter>>
      \/ /\ \E type \in {"late_assisted_settlement", "late_success"} : matter' = [matter EXCEPT ![l].type = type]
         /\ \/ held' = held
            \/ Eligible(l) /\ held' = [held EXCEPT ![n] = l]
  BY <1>5 DEF Classify, ChannelOf
<1>7. /\ matter' \in [Lates -> [type : {"none", "late_assisted_settlement", "late_success"},
                                end : {"open", "applied", "refunded", "charged_back"}]]
      /\ \A k \in Lates \ {l} : matter'[k] = matter[k]
      /\ matter'[l].end = "open"
  <2>1. matter[l].end = "open"
    BY <1>1 DEF NoMatter
  <2>2. CASE UNCHANGED <<held, matter>>
    BY <2>1, <2>2 DEF AssistedTypeOK
  <2>3. ASSUME NEW type \in {"late_assisted_settlement", "late_success"}, matter' = [matter EXCEPT ![l].type = type]
        PROVE  <1>7!:
    BY <2>1, <2>3 DEF AssistedTypeOK
  <2> QED BY <1>6, <2>2, <2>3
<1>8. /\ held' \in [Channels -> Lates \cup {"none", "success"}]
      /\ \A k \in Channels : held[k] # "none" => held'[k] = held[k]
      /\ \A k \in Channels : held'[k] = held[k] \/ (k = n /\ held'[k] = l /\ channel[n].request = "failed")
  BY <1>1, <1>6 DEF AssistedTypeOK, Eligible, ChannelOf
<1> HIDE DEF n
<1>9. AssistedTypeOK'
  BY <1>2, <1>4, <1>7, <1>8 DEF AssistedTypeOK, assistanceSide
<1>10. ChannelsSound'
  BY <1>2 DEF ChannelsSound, Active, PaidIsSold, SoldOn, assistanceSide
<1>11. PurchaseSound'
  BY <1>2, <1>8, AssistanceAssumption DEF PurchaseSound, AssistedTypeOK, assistanceSide
<1>12. CapturesSound'
  <2>1. ASSUME NEW k \in Channels
        PROVE  /\ held'[k] # "success"
               /\ held'[k] \in Lates => /\ late'[held'[k]].channel = k
                                        /\ late'[held'[k]].step = "recorded"
                                        /\ channel'[k].request = "failed"
    <3>1. CASE held'[k] = held[k]
      BY <3>1, <1>2, <1>3 DEF CapturesSound
    <3>2. CASE k = n /\ held'[k] = l /\ channel[n].request = "failed"
      BY <3>2, <1>2, <1>3, AssistanceAssumption DEF n
    <3> QED BY <3>1, <3>2, <1>8
  <2>2. ASSUME NEW k \in Lates
        PROVE  /\ late'[k] # NotCaptured => late'[k].channel \in Channels
               /\ late'[k] = NotCaptured => refunding'[k] = NoCaseYet
               /\ late'[k].step # "recorded" => matter'[k] = NoMatter
               /\ late'[k].step = "none" => late'[k] = NotCaptured
    BY <1>2, <1>3, <1>7 DEF CapturesSound
  <2> QED BY <2>1, <2>2 DEF CapturesSound
<1>13. SoldOrRefunded'
  BY <1>2, <1>3 DEF SoldOrRefunded, SoldOn, ChannelOf, LatesOf, Counts
<1>14. CasesEndTrue'
  <2> SUFFICES ASSUME NEW k \in Lates, matter'[k].end # "open"
               PROVE  Proves(k, matter[k].end)'
    BY DEF CasesEndTrue
  <2>1. k # l /\ matter'[k] = matter[k] /\ Proves(k, matter[k].end)
    BY <1>7 DEF CasesEndTrue
  <2> QED BY <1>2, <1>3, <2>1 DEF Proves, SoldOn, ChannelOf, Counts
<1> QED BY <1>9, <1>10, <1>11, <1>12, <1>13, <1>14

LEMMA ChargeBackSteps ==
    ASSUME AssistedInv, NEW l \in Lates, ChargeBack(l)
    PROVE  AssistedInv'
<1> USE DEF AssistedInv, ChargeBack, decisionSide
<1>1. AssistedTypeOK' /\ CapturesSound'
  BY DEF AssistedTypeOK, CapturesSound, assistanceSide
<1>2. ChannelsSound' /\ PurchaseSound'
  BY MoneyStays
<1>3. SoldOrRefunded'
  BY DEF SoldOrRefunded, SoldOn, ChannelOf, LatesOf, Counts
<1>4. CasesEndTrue'
  <2> SUFFICES ASSUME NEW k \in Lates, matter[k].end # "open"
               PROVE  Proves(k, matter[k].end)'
    BY DEF CasesEndTrue
  <2>1. Proves(k, matter[k].end) /\ matter[k].end \in {"applied", "refunded", "charged_back"}
    BY DEF CasesEndTrue, AssistedTypeOK
  <2>2. k \in charged => k \in charged'
    OBVIOUS
  <2> QED BY <2>1, <2>2 DEF Proves, SoldOn, ChannelOf, Counts
<1> QED BY <1>1, <1>2, <1>3, <1>4

LEMMA AuthorizeSteps ==
    ASSUME AssistedInv, NEW n \in Channels, AuthorizeLate(n)
    PROVE  AssistedInv'
<1> USE DEF AssistedInv, AuthorizeLate, captureSide
<1>1. AssistedTypeOK' /\ CapturesSound'
  BY DEF AssistedTypeOK, CapturesSound, assistanceSide
<1>2. ChannelsSound' /\ PurchaseSound'
  BY MoneyStays
<1>3. SoldOrRefunded' /\ CasesEndTrue'
  BY DEF SoldOrRefunded, CasesEndTrue, SoldOn, ChannelOf, LatesOf, Counts, Proves
<1> QED BY <1>1, <1>2, <1>3

\* a late capture is sold on a channel that failed, so that no channel is left that may still succeed
LEMMA ApplyLateSteps ==
    ASSUME AssistedInv, NEW n \in Channels, ApplyLate(n)
    PROVE  AssistedInv'
<1> USE DEF AssistedInv
<1> DEFINE l == held[n]
<1>1. l \in Lates /\ late[l].channel = n /\ late[l].step = "recorded" /\ channel[n].request = "failed"
  BY DEF ApplyLate, Applicable, CapturesSound, AssistedTypeOK
<1>2. channel[n].status = "closed"
  BY <1>1 DEF ChannelsSound, StatusOf
<1>3. channel' = channel
  BY <1>2 DEF ApplyLate, AssistedTypeOK, ActiveChannel
<1>4. \A k \in Channels : ~Active(k)
  BY <1>2 DEF ApplyLate, Applicable, Active, ActiveChannel
<1>5. bought = {} /\ bought' = {<<n, l>>} /\ assistance = "cash_collected" /\ assistance' = "settled"
  BY DEF ApplyLate, Applicable
<1>6. owed \in {"none", "open", "superseded"} /\ owed' \in {"none", "superseded"}
  BY DEF ApplyLate, Applicable, AssistedTypeOK
<1>7. UNCHANGED <<past, captureSide, held, consumed>>
  BY DEF ApplyLate
<1>8. \A k \in LatesOf(n) : k \notin charged /\ ~Counts(k)
  BY DEF ApplyLate, Applicable
<1> HIDE DEF l
<1>9. AssistedTypeOK'
  BY <1>1, <1>3, <1>5, <1>6, <1>7 DEF AssistedTypeOK, captureSide
<1>10. ChannelsSound'
  BY <1>3, <1>4, <1>5 DEF ChannelsSound, Active, PaidIsSold, SoldOn
<1>11. PurchaseSound'
  <2>1. held'[n] = l
    BY <1>7 DEF l
  <2> QED BY <1>1, <1>5, <1>6, <2>1 DEF PurchaseSound
<1>12. CapturesSound'
  BY <1>3, <1>7 DEF CapturesSound, captureSide
<1>13. \A k \in Lates : SoldOn(late[k].channel, k)' => k = l
  BY <1>5 DEF SoldOn
<1>14. SoldOrRefunded'
  BY <1>1, <1>7, <1>8, <1>13 DEF SoldOrRefunded, ChannelOf, LatesOf, Counts, captureSide
<1>15. CasesEndTrue'
  <2> SUFFICES ASSUME NEW k \in Lates, matter[k].end # "open"
               PROVE  Proves(k, matter[k].end)'
    BY <1>7 DEF CasesEndTrue, captureSide
  <2>1. Proves(k, matter[k].end)
    BY DEF CasesEndTrue
  <2>2. ~SoldOn(ChannelOf(k), k)
    BY <1>5 DEF SoldOn
  <2>3. k = l => k \notin charged
    BY <1>1, <1>8 DEF LatesOf
  <2>4. SoldOn(ChannelOf(k), k)' => k = l
    BY <1>7, <1>13 DEF ChannelOf, captureSide
  <2>5. matter[k].end \in {"applied", "refunded", "charged_back"}
    BY DEF AssistedTypeOK
  <2> QED BY <1>7, <2>1, <2>2, <2>3, <2>4, <2>5 DEF Proves, Counts, captureSide
<1> QED BY <1>9, <1>10, <1>11, <1>12, <1>14, <1>15

\* a refund row that may change: not of what was sold, not of what was charged back or refunded
LEMMA RefundTurns ==
    ASSUME AssistedInv, NEW l \in Lates,
           NEW row \in [case : {"none", "open", "cancelled", "completed"}, relay : {"none", "live", "refused"}, own : BOOLEAN],
           late[l] # NotCaptured,
           \A n \in Channels, k \in Lates : SoldOn(n, k) => n # late[l].channel,
           matter[l].end \notin {"charged_back", "refunded"},
           refunding' = [refunding EXCEPT ![l] = row],
           UNCHANGED <<assistanceSide, channel, late, matter, charged, decisionSide>>
    PROVE  AssistedInv'
<1> USE DEF AssistedInv, decisionSide
<1>1. \A k \in Lates : refunding'[k] = IF k = l THEN row ELSE refunding[k]
  BY DEF AssistedTypeOK
<1>2. AssistedTypeOK'
  BY DEF AssistedTypeOK, assistanceSide
<1>3. ChannelsSound' /\ PurchaseSound'
  BY MoneyStays
<1>4. CapturesSound'
  BY <1>1 DEF CapturesSound
<1>5. SoldOrRefunded'
  <2> SUFFICES ASSUME NEW k \in Lates, SoldOn(late[k].channel, k), NEW m \in LatesOf(ChannelOf(k))
               PROVE  Counts(m)' = FALSE
    BY DEF SoldOrRefunded, SoldOn, ChannelOf, LatesOf
  <2>1. late[k].channel \in Channels
    BY DEF SoldOn, AssistedTypeOK
  <2>2. late[k].channel # late[l].channel
    BY <2>1
  <2>3. m # l /\ m \in Lates
    BY <2>2 DEF LatesOf, ChannelOf
  <2>4. ~Counts(m)
    BY DEF SoldOrRefunded, ChannelOf
  <2> QED BY <1>1, <2>3, <2>4 DEF Counts
<1>6. CasesEndTrue'
  <2> SUFFICES ASSUME NEW k \in Lates, matter[k].end # "open"
               PROVE  Proves(k, matter[k].end)'
    BY DEF CasesEndTrue
  <2>1. Proves(k, matter[k].end) /\ matter[k].end \in {"applied", "refunded", "charged_back"}
    BY DEF CasesEndTrue, AssistedTypeOK
  <2>2. CASE k = l
    <3>1. matter[k].end = "applied"
      BY <2>1, <2>2
    <3> QED BY <2>1, <3>1 DEF Proves, SoldOn, ChannelOf
  <2>3. CASE k # l
    BY <1>1, <2>1, <2>3 DEF Proves, SoldOn, ChannelOf, Counts
  <2> QED BY <2>2, <2>3
<1> QED BY <1>2, <1>3, <1>4, <1>5, <1>6

\* what was sold is of a channel none of whose captures has a refund
LEMMA CountedIsUnsold ==
    ASSUME AssistedInv, NEW l \in Lates, Counts(l)
    PROVE  \A n \in Channels, k \in Lates : SoldOn(n, k) => n # late[l].channel
<1> SUFFICES ASSUME NEW n \in Channels, NEW k \in Lates, SoldOn(n, k), n = late[l].channel
             PROVE  FALSE
  OBVIOUS
<1>1. late[k].channel = n
  BY SoldIsHeld
<1>2. SoldOn(ChannelOf(k), k) /\ l \in LatesOf(ChannelOf(k))
  BY <1>1 DEF ChannelOf, LatesOf
<1> QED BY <1>2 DEF AssistedInv, SoldOrRefunded

RefundRows == [case : {"none", "open", "cancelled", "completed"}, relay : {"none", "live", "refused"}, own : BOOLEAN]

LEMMA BecomesSteps ==
    ASSUME AssistedInv, NEW l \in Lates, NEW row \in RefundRows, RefundBecomes(l, row)
    PROVE  AssistedInv'
<1>1. refunding[l].case = "open" /\ Counts(l)
  BY DEF RefundBecomes, Counts
<1>2. late[l] # NotCaptured
  BY <1>1 DEF AssistedInv, CapturesSound, NoCaseYet
<1>3. matter[l].end \notin {"charged_back", "refunded"}
  BY <1>1 DEF AssistedInv, CasesEndTrue, Proves
<1>4. \A n \in Channels, k \in Lates : SoldOn(n, k) => n # late[l].channel
  BY <1>1, CountedIsUnsold
<1> QED BY <1>2, <1>3, <1>4, RefundTurns DEF RefundBecomes, RefundRows

LEMMA OpenRefundSteps ==
    ASSUME AssistedInv, NEW l \in Lates, NEW own \in BOOLEAN, OpenRefund(l, own)
    PROVE  AssistedInv'
<1> DEFINE row == [case |-> "open", relay |-> refunding[l].relay, own |-> own]
<1>1. row \in RefundRows /\ refunding' = [refunding EXCEPT ![l] = row]
  BY DEF OpenRefund, RefundRows, AssistedInv, AssistedTypeOK
<1>2. late[l] # NotCaptured /\ matter[l].end # "charged_back" /\ ~LiveCase(l)
  BY DEF OpenRefund
<1>3. matter[l].end # "refunded"
  BY <1>2 DEF AssistedInv, CasesEndTrue, Proves, LiveCase
<1>4. \A n \in Channels, k \in Lates : SoldOn(n, k) => n # late[l].channel
  BY DEF OpenRefund, Sold, SoldOn, ChannelOf
<1> HIDE DEF row
<1> QED BY <1>1, <1>2, <1>3, <1>4, RefundTurns DEF OpenRefund, RefundRows

LEMMA RefundCaseSteps ==
    ASSUME AssistedInv, NEW l \in Lates,
           \/ \E own \in BOOLEAN : OpenRefund(l, own)
           \/ CancelRefund(l) \/ RelayRefund(l) \/ RefuseRelay(l) \/ CompleteRefund(l)
    PROVE  AssistedInv'
<1>1. /\ [refunding[l] EXCEPT !.case = "cancelled"] \in RefundRows
      /\ [refunding[l] EXCEPT !.case = "completed"] \in RefundRows
      /\ [refunding[l] EXCEPT !.relay = "live"] \in RefundRows
      /\ [refunding[l] EXCEPT !.relay = "refused"] \in RefundRows
  BY DEF AssistedInv, AssistedTypeOK, RefundRows
<1> QED BY <1>1, OpenRefundSteps, BecomesSteps DEF CancelRefund, RelayRefund, RefuseRelay, CompleteRefund

LEMMA ResolveSteps ==
    ASSUME AssistedInv, NEW l \in Lates, ResolveCase(l)
    PROVE  AssistedInv'
<1>1. PICK e \in Resolutions : Proves(l, e) /\ matter' = [matter EXCEPT ![l].end = e]
  BY DEF ResolveCase
<1>2. matter[l].type # "none" /\ matter[l].end = "open"
  BY DEF ResolveCase, Resolvable
<1> USE DEF AssistedInv
<1>3. UNCHANGED <<assistanceSide, channel, late, refunding, charged, held, consumed, bought>>
  BY DEF ResolveCase, decisionSide
<1>4. /\ \A k \in Lates \ {l} : matter'[k] = matter[k]
      /\ matter'[l].type = matter[l].type /\ matter'[l].end = e
  BY <1>1 DEF AssistedTypeOK
<1>5. AssistedTypeOK'
  BY <1>1, <1>3 DEF AssistedTypeOK, Resolutions, assistanceSide
<1>6. ChannelsSound' /\ PurchaseSound'
  BY <1>3, MoneyStays
<1>7. CapturesSound'
  BY <1>2, <1>3, <1>4 DEF CapturesSound, NoMatter
<1>8. SoldOrRefunded'
  BY <1>3 DEF SoldOrRefunded, SoldOn, ChannelOf, LatesOf, Counts
<1>9. CasesEndTrue'
  <2> SUFFICES ASSUME NEW k \in Lates, matter'[k].end # "open"
               PROVE  Proves(k, matter[k].end)'
    BY DEF CasesEndTrue
  <2>1. CASE k = l
    <3>1. matter'[l].end = e /\ e \in {"applied", "refunded", "charged_back"}
      BY <1>4 DEF Resolutions
    <3> QED BY <1>1, <1>3, <1>4, <2>1, <3>1 DEF Proves, SoldOn, ChannelOf, Counts
  <2>2. CASE k # l
    <3>1. matter'[k] = matter[k] /\ Proves(k, matter[k].end)
      BY <1>4, <2>2 DEF CasesEndTrue
    <3> QED BY <1>3, <3>1 DEF Proves, SoldOn, ChannelOf, Counts
  <2> QED BY <2>1, <2>2
<1> QED BY <1>5, <1>6, <1>7, <1>8, <1>9

-----------------------------------------------------------------------------
(* AssistedSettlement: the invariant of the specification *)

LEMMA AssistedInvNext == AssistedInv /\ [AssistedNext]_assistedVars => AssistedInv'
<1> SUFFICES ASSUME AssistedInv, [AssistedNext]_assistedVars
             PROVE  AssistedInv'
  OBVIOUS
<1>1. CASE DispatchRequests
  BY <1>1, RequestSteps DEF DispatchRequests
<1>2. CASE ConsumeEvents
  BY <1>2, RequestSteps, PaidSteps, ClassifySteps DEF ConsumeEvents
<1>3. CASE ReconcileCases
  BY <1>3, ClassifySteps, ResolveSteps DEF ReconcileCases
<1>4. CASE People \/ CashReturnSweep
  BY <1>4, CashSteps, StartSteps, AuthorizeSteps, ApplyLateSteps, RefundCaseSteps DEF People
<1>5. CASE PaymentAndTime
  BY <1>5, CashSteps, PaymentSteps, LateCaptureSteps, ChargeBackSteps, RefundCaseSteps DEF PaymentAndTime
<1>6. CASE UNCHANGED assistedVars
  <2> USE <1>6 DEF AssistedInv, assistedVars, assistanceSide, captureSide, decisionSide
  <2>1. AssistedTypeOK'
    BY DEF AssistedTypeOK
  <2>2. ChannelsSound' /\ PurchaseSound'
    BY MoneyStays
  <2>3. CapturesSound'
    BY DEF CapturesSound
  <2>4. SoldOrRefunded' /\ CasesEndTrue'
    BY DEF SoldOrRefunded, CasesEndTrue, SoldOn, ChannelOf, LatesOf, Counts, Proves
  <2> QED BY <2>1, <2>2, <2>3, <2>4
<1> QED BY <1>1, <1>2, <1>3, <1>4, <1>5, <1>6 DEF AssistedNext

LEMMA AssistedInvAlways == AssistedSpec => []AssistedInv
BY AssistedInvInit, AssistedInvNext, PTL DEF AssistedSpec

\* The types of an assisted settlement hold in every state.
THEOREM AssistedTypeCorrect == AssistedSpec => []AssistedTypeOK
<1>1. AssistedInv => AssistedTypeOK
  BY DEF AssistedInv
<1> QED BY <1>1, AssistedInvAlways, PTL

LEMMA AtMostOne ==
    ASSUME NEW S, \A m, k \in S : m = k
    PROVE  Cardinality(S) <= 1
<1>1. CASE S = {}
  BY <1>1, FS_EmptySet
<1>2. CASE S # {}
  <2>1. PICK m \in S : S = {m}
    BY <1>2
  <2>2. Cardinality({m}) = 1
    BY FS_Singleton
  <2> QED BY <2>1, <2>2
<1> QED BY <1>1, <1>2

LEMMA AssistedInvSound == AssistedInv => AssistedSound
<1> SUFFICES ASSUME AssistedInv PROVE AssistedSound
  OBVIOUS
<1>1. Cardinality(bought) <= 1
  BY AtMostOne DEF AssistedInv, PurchaseSound
<1>2. Cardinality({n \in Channels : channel[n].status \in ActiveChannel}) <= 1
  <2> DEFINE S == {n \in Channels : channel[n].status \in ActiveChannel}
  <2>1. \A m, k \in S : m = k
    BY DEF AssistedInv, ChannelsSound, Active
  <2> HIDE DEF S
  <2>2. Cardinality(S) <= 1
    BY <2>1, AtMostOne
  <2> QED BY <2>2 DEF S
<1>3. OnePurchase
  BY <1>1, <1>2 DEF OnePurchase, AssistedInv, PurchaseSound
<1> QED BY <1>3 DEF AssistedSound, AssistedInv, ChannelsSound

\* One purchase of a request at most, whatever pays it, and never beside cash that goes back; money paid while its
\* payment is open always buys; what was captured late is sold or refunded, never both, also when the receipt of the
\* decision was spent before; and a case stays what its capture became (ApplyAssistedSettlement, ApplyLate, ResolveCase)
THEOREM AssistedSoundAlways == AssistedSpec => []AssistedSound
BY AssistedInvAlways, AssistedInvSound, PTL

\* What ended stays as it ended, whatever is captured, decided or charged back afterwards: the purchase and the evidence
\* it was bought on, cash that was returned or superseded, and the request they ended; a channel, its request, and what
\* is held for the Owner's decision; a completed refund, a resolved case and a loss
\* (billing_assistance_request_transition_guard, billing_cash_return_obligation_transition_guard,
\* billing_reconciliation_resolution_guard)
MoneyEnds ==
    /\ bought # {} => bought' = bought
    /\ owed \in {"confirmed", "superseded"} => owed' = owed
    /\ assistance \in {"declined", "settled", "returned"} => assistance' = assistance
ChannelsEnd ==
    \A n \in Channels : /\ channel[n].status \in {"settled", "closed"} => channel'[n].status = channel[n].status
                        /\ channel[n].request \in FinalRequest => channel'[n].request = channel[n].request
                        /\ held[n] # "none" => held'[n] = held[n]
CapturesEnd ==
    /\ \A l \in Lates : /\ refunding[l].case = "completed" => refunding'[l] = refunding[l]
                        /\ matter[l].end # "open" => matter'[l] = matter[l]
    /\ charged \subseteq charged'
AssistedEndsStay == MoneyEnds /\ ChannelsEnd /\ CapturesEnd

\* a step that turns the request of one channel that is still open
LEMMA OneTurnEnds ==
    ASSUME AssistedInv, NEW n \in Channels, NEW row,
           channel[n].request \notin FinalRequest, channel[n].status \notin {"settled", "closed"},
           channel' = [channel EXCEPT ![n] = row], held' = held
    PROVE  ChannelsEnd
<1>1. \A k \in Channels \ {n} : channel'[k] = channel[k]
  BY DEF AssistedInv, AssistedTypeOK
<1> QED BY <1>1 DEF ChannelsEnd

LEMMA ChannelStepsEnd ==
    ASSUME AssistedInv, NEW n \in Channels,
           \/ SendRequest(n) \/ RequestAnswered(n) \/ CloseOnFailure(n) \/ PaymentMoves(n) \/ ApplyAssistedSettlement(n)
    PROVE  AssistedEndsStay
<1>1. channel[n].request \in {"created", "sending", "requested"}
  BY DEF SendRequest, RequestAnswered, CloseOnFailure, PaymentMoves, ApplyAssistedSettlement
<1>2. /\ channel[n].request \notin FinalRequest /\ channel[n].status \in ActiveChannel
      /\ channel[n].status \notin {"settled", "closed"}
  BY <1>1 DEF AssistedInv, ChannelsSound, StatusOf, ActiveChannel, FinalRequest
<1>3. bought = {} /\ owed = "none" /\ assistance = "cash_collected"
  BY <1>2 DEF AssistedInv, ChannelsSound, Active
<1>4. MoneyEnds
  BY <1>3 DEF MoneyEnds
<1>5. UNCHANGED captureSide
  BY DEF SendRequest, RequestAnswered, CloseOnFailure, PaymentMoves, ApplyAssistedSettlement
<1>6. CapturesEnd
  BY <1>5 DEF CapturesEnd, captureSide
<1>7. held' = held
  BY <1>2, <1>3 DEF SendRequest, RequestAnswered, CloseOnFailure, PaymentMoves, ApplyAssistedSettlement, decisionSide
<1>8. \E row : channel' = [channel EXCEPT ![n] = row]
  <2>1. CASE ApplyAssistedSettlement(n)
    <3> DEFINE row == [status |-> "settled", request |-> "paid", payment |-> channel[n].payment]
    <3>1. channel' = [channel EXCEPT ![n] = row]
      BY <1>2, <1>3, <2>1 DEF ApplyAssistedSettlement, AssistedInv, AssistedTypeOK
    <3> QED BY <3>1
  <2>2. CASE PaymentMoves(n)
    <3>1. PICK p \in Onwards(channel[n].payment) : channel' = [channel EXCEPT ![n].payment = p]
      BY <2>2 DEF PaymentMoves
    <3> QED BY <3>1
  <2>3. CASE SendRequest(n) \/ RequestAnswered(n) \/ CloseOnFailure(n)
    BY <2>3 DEF SendRequest, RequestAnswered, CloseOnFailure, TurnRequest
  <2> QED BY <2>1, <2>2, <2>3
<1>9. ChannelsEnd
  BY <1>2, <1>7, <1>8, OneTurnEnds
<1> QED BY <1>4, <1>6, <1>9 DEF AssistedEndsStay

LEMMA CashStepsEnd ==
    ASSUME AssistedInv,
           \/ Decline \/ ReportCash \/ DeadlinePasses \/ CashReturnSweep \/ ReportReturn \/ ConfirmReturn \/ StartSettlement
    PROVE  AssistedEndsStay
<1>1. MoneyEnds
  <2>1. bought' = bought
    BY DEF Decline, ReportCash, DeadlinePasses, CashReturnSweep, ReportReturn, ConfirmReturn, StartSettlement, decisionSide
  <2>2. owed \in {"confirmed", "superseded"} => owed' = owed
    BY DEF Decline, ReportCash, DeadlinePasses, CashReturnSweep, ReportReturn, ConfirmReturn, StartSettlement,
           assistanceSide, Due
  <2>3. assistance \in {"declined", "settled", "returned"} => assistance' = assistance
    \* the cash of a request that ended is not waiting for the beneficiary's word
    <3>1. owed = "return_reported" => assistance \notin {"declined", "settled", "returned"}
      BY DEF AssistedInv, PurchaseSound
    <3> QED BY <3>1 DEF Decline, ReportCash, DeadlinePasses, CashReturnSweep, ReportReturn, ConfirmReturn, StartSettlement,
                        assistanceSide
  <2> QED BY <2>1, <2>2, <2>3 DEF MoneyEnds
<1>2. CapturesEnd
  BY DEF CapturesEnd, Decline, ReportCash, DeadlinePasses, CashReturnSweep, ReportReturn, ConfirmReturn, StartSettlement,
         captureSide
<1>3. held' = held
  BY DEF Decline, ReportCash, DeadlinePasses, CashReturnSweep, ReportReturn, ConfirmReturn, StartSettlement, decisionSide
<1>4. ChannelsEnd
  <2>1. CASE StartSettlement
    <3> DEFINE n == CHOOSE k \in Unused : TRUE
    <3>1. n \in Channels /\ channel[n] = NoChannel
      BY <2>1 DEF StartSettlement, Unused
    <3>2. channel' = [channel EXCEPT ![n] = [status |-> "open", request |-> "created", payment |-> "none"]]
      BY <2>1 DEF StartSettlement
    <3> HIDE DEF n
    <3>3. channel[n].request \notin FinalRequest /\ channel[n].status \notin {"settled", "closed"}
      BY <3>1 DEF NoChannel, FinalRequest
    <3> QED BY <1>3, <3>1, <3>2, <3>3, OneTurnEnds
  <2>2. CASE ~StartSettlement
    <3>1. channel' = channel
      BY <2>2 DEF Decline, ReportCash, DeadlinePasses, CashReturnSweep, ReportReturn, ConfirmReturn
    <3> QED BY <1>3, <3>1 DEF ChannelsEnd
  <2> QED BY <2>1, <2>2
<1> QED BY <1>1, <1>2, <1>4 DEF AssistedEndsStay

\* a capture is recorded and classified before there is a case to resolve
LEMMA CaptureStepsEnd ==
    ASSUME AssistedInv, NEW l \in Lates, RecordLate(l) \/ ClassifyDeferred(l)
    PROVE  AssistedEndsStay
<1>1. matter[l] = NoMatter
  BY DEF AssistedInv, CapturesSound, RecordLate, ClassifyDeferred
<1>2. UNCHANGED <<assistanceSide, channel, refunding, charged, bought>> /\ Classify(l)
  BY DEF RecordLate, ClassifyDeferred
<1>3. \A k \in Lates \ {l} : matter'[k] = matter[k]
  BY <1>2 DEF Classify, AssistedInv, AssistedTypeOK
<1>4. \A n \in Channels : held[n] # "none" => held'[n] = held[n]
  BY <1>2 DEF Classify, Eligible, AssistedInv, AssistedTypeOK
<1>5. MoneyEnds /\ ChannelsEnd
  BY <1>2, <1>4 DEF MoneyEnds, ChannelsEnd, assistanceSide
<1>6. CapturesEnd
  BY <1>1, <1>2, <1>3 DEF CapturesEnd, NoMatter
<1> QED BY <1>5, <1>6 DEF AssistedEndsStay

\* the Owner buys where nothing was bought or returned, on a channel that is closed
LEMMA DecisionStepsEnd ==
    ASSUME AssistedInv, NEW n \in Channels, AuthorizeLate(n) \/ ApplyLate(n)
    PROVE  AssistedEndsStay
<1>1. UNCHANGED <<held, captureSide>>
  BY DEF AuthorizeLate, ApplyLate
<1>2. held[n] # "none"
  BY DEF AuthorizeLate, ApplyLate, Applicable
<1>3. channel[n].request = "failed"
  BY <1>2 DEF AssistedInv, AssistedTypeOK, CapturesSound
<1>4. channel[n].status = "closed"
  BY <1>3 DEF AssistedInv, ChannelsSound, StatusOf
<1>5. channel' = channel
  BY <1>4 DEF AuthorizeLate, ApplyLate, AssistedInv, AssistedTypeOK, ActiveChannel
<1>6. MoneyEnds
  BY DEF MoneyEnds, AuthorizeLate, ApplyLate, Applicable, assistanceSide
<1>7. ChannelsEnd /\ CapturesEnd
  BY <1>1, <1>5 DEF ChannelsEnd, CapturesEnd, captureSide
<1> QED BY <1>6, <1>7 DEF AssistedEndsStay

LEMMA RefundStepsEnd ==
    ASSUME AssistedInv, NEW l \in Lates,
           \/ \E own \in BOOLEAN : OpenRefund(l, own)
           \/ CancelRefund(l) \/ RelayRefund(l) \/ RefuseRelay(l) \/ CompleteRefund(l)
    PROVE  AssistedEndsStay
<1>1. refunding[l].case # "completed"
  BY DEF OpenRefund, LiveCase, CancelRefund, RelayRefund, RefuseRelay, CompleteRefund, RefundBecomes
<1>2. UNCHANGED <<assistanceSide, channel, matter, charged, decisionSide>>
  BY DEF OpenRefund, CancelRefund, RelayRefund, RefuseRelay, CompleteRefund, RefundBecomes
<1>3. \E row : refunding' = [refunding EXCEPT ![l] = row]
  BY DEF OpenRefund, CancelRefund, RelayRefund, RefuseRelay, CompleteRefund, RefundBecomes
<1>4. \A k \in Lates \ {l} : refunding'[k] = refunding[k]
  BY <1>3 DEF AssistedInv, AssistedTypeOK
<1>5. CapturesEnd
  BY <1>1, <1>2, <1>4 DEF CapturesEnd
<1>6. MoneyEnds /\ ChannelsEnd
  BY <1>2 DEF MoneyEnds, ChannelsEnd, assistanceSide, decisionSide
<1> QED BY <1>5, <1>6 DEF AssistedEndsStay

\* a further capture, a loss, a resolution
LEMMA OtherStepsEnd ==
    ASSUME AssistedInv, NEW l \in Lates, NEW n,
           \/ \E equal \in BOOLEAN : LateCapture(n, equal)
           \/ ChargeBack(l) \/ ResolveCase(l)
    PROVE  AssistedEndsStay
<1>1. UNCHANGED <<assistanceSide, channel, refunding, decisionSide>> /\ charged \subseteq charged'
  BY DEF LateCapture, ChargeBack, ResolveCase
<1>2. \A k \in Lates : matter[k].end # "open" => matter'[k] = matter[k]
  <2>1. CASE ResolveCase(l)
    <3>1. PICK e \in Resolutions : matter' = [matter EXCEPT ![l].end = e]
      BY <2>1 DEF ResolveCase
    <3>2. matter[l].end = "open"
      BY <2>1 DEF ResolveCase, Resolvable
    <3>3. \A k \in Lates \ {l} : matter'[k] = matter[k]
      BY <3>1 DEF AssistedInv, AssistedTypeOK
    <3> QED BY <3>2, <3>3
  <2>2. CASE ~ResolveCase(l)
    BY <2>2 DEF LateCapture, ChargeBack
  <2> QED BY <2>1, <2>2
<1>3. MoneyEnds /\ ChannelsEnd
  BY <1>1 DEF MoneyEnds, ChannelsEnd, assistanceSide, decisionSide
<1>4. CapturesEnd
  BY <1>1, <1>2 DEF CapturesEnd
<1> QED BY <1>3, <1>4 DEF AssistedEndsStay

LEMMA AssistedEndsKept == AssistedInv /\ [AssistedNext]_assistedVars => [AssistedEndsStay]_assistedVars
<1> SUFFICES ASSUME AssistedInv, AssistedNext PROVE AssistedEndsStay
  OBVIOUS
<1>1. CASE DispatchRequests
  BY <1>1, ChannelStepsEnd DEF DispatchRequests
<1>2. CASE ConsumeEvents
  BY <1>2, ChannelStepsEnd, CaptureStepsEnd DEF ConsumeEvents
<1>3. CASE ReconcileCases
  BY <1>3, CaptureStepsEnd, OtherStepsEnd DEF ReconcileCases
<1>4. CASE People \/ CashReturnSweep
  BY <1>4, CashStepsEnd, DecisionStepsEnd, RefundStepsEnd DEF People
<1>5. CASE PaymentAndTime
  <2>1. ASSUME NEW n \in Channels, NEW equal \in BOOLEAN, LateCapture(n, equal) PROVE AssistedEndsStay
    <3>1. \E l \in Lates : TRUE
      BY <2>1 DEF LateCapture, Uncaptured
    <3> QED BY <2>1, <3>1, OtherStepsEnd
  <2> QED BY <1>5, <2>1, CashStepsEnd, ChannelStepsEnd, RefundStepsEnd, OtherStepsEnd DEF PaymentAndTime
<1> QED BY <1>1, <1>2, <1>3, <1>4, <1>5 DEF AssistedNext

\* No step takes back what an assisted settlement ended with.
THEOREM AssistedEndsStayAlways == AssistedSpec => [][AssistedEndsStay]_assistedVars
BY AssistedEndsKept, AssistedInvAlways, PTL DEF AssistedSpec

-----------------------------------------------------------------------------
(* RefundSettlement is the Payment that RefundCases reads *)

\* an attempt and a completed return, on the capture the sale rests on, as Billing is answered of them (PAY-07, PAY-08)
SeenAs(status) ==
    CASE status = "none"                         -> "none"
      [] status = "refused"                      -> "rejected"
      [] status = "authorization_pending"        -> "pending"
      [] status \in Unspent                      -> "unauthorized"
      [] status \in InFlight \cup {"authorized"} -> "submitted"
      [] status \in {"succeeded", "discrepancy"} -> "succeeded"
      [] OTHER                                   -> "failed"
OfSale(r)    == refund[r].case.capture = Settling
AttemptSeen  == [r \in Refunds |-> IF OfSale(r) THEN SeenAs(refund[r].status) ELSE "none"]
ReturnedSeen == {r \in Refunds : OfSale(r) /\ authority[r].completed}
seen         == <<AttemptSeen, ReturnedSeen>>

\* what disputes forbid is an input of RefundSettlement, so it is allowed here
AsRead == INSTANCE RefundCases WITH
    Relays <- Refunds, attempt <- AttemptSeen, returned <- ReturnedSeen, lost <- FALSE, moved <- FALSE, gate <- "passed"

PaymentStep ==
    \E r \in Refunds : AsRead!GoesOn(r) \/ AsRead!Returns(r) \/ \E a \in AttemptState : AsRead!Handles(r, a)

\* what Billing sees of a refund whose status alone changes
LEMMA StatusSeen ==
    ASSUME IInv, NEW r \in Refunds, NEW s \in RefundStatus, SetStatus(r, s),
           \A z \in Refunds : authority'[z].completed = authority[z].completed
    PROVE  /\ ReturnedSeen' = ReturnedSeen
           /\ AttemptSeen' = IF OfSale(r) THEN [AttemptSeen EXCEPT ![r] = SeenAs(s)] ELSE AttemptSeen
<1>1. /\ refund'[r].status = s /\ refund'[r].case = refund[r].case
      /\ \A z \in Refunds \ {r} : refund'[z] = refund[z]
  BY StatusSet DEF IInv
<1>2. \A z \in Refunds : OfSale(z)' = OfSale(z)
  BY <1>1 DEF OfSale
<1>3. ReturnedSeen' = ReturnedSeen
  BY <1>2 DEF ReturnedSeen
<1>4. AttemptSeen' = [z \in Refunds |-> IF OfSale(z) THEN SeenAs(refund'[z].status) ELSE "none"]
  BY <1>2 DEF AttemptSeen, SeenAs
<1>5. \A z \in Refunds : AttemptSeen'[z] = IF OfSale(r) /\ z = r THEN SeenAs(s) ELSE AttemptSeen[z]
  BY <1>1, <1>4 DEF AttemptSeen
<1> QED BY <1>3, <1>4, <1>5 DEF AttemptSeen

LEMMA BecomesSeen ==
    ASSUME IInv, ReturnsAreReal, NEW r \in Refunds, NEW s \in RefundStatus, SetStatus(r, s),
           Becomes(refund[r].status, s) \/ (refund[r].status = "none" /\ s = "refused"),
           s = "failed" => atProvider[r] = "failed",
           \A z \in Refunds : authority'[z].completed = authority[z].completed
    PROVE  [PaymentStep]_seen
<1>1. /\ ReturnedSeen' = ReturnedSeen
      /\ AttemptSeen' = IF OfSale(r) THEN [AttemptSeen EXCEPT ![r] = SeenAs(s)] ELSE AttemptSeen
  BY StatusSeen
<1>2. CASE ~OfSale(r)
  BY <1>1, <1>2 DEF seen
<1>3. CASE OfSale(r)
  <2>1. AttemptSeen' = [AttemptSeen EXCEPT ![r] = SeenAs(s)] /\ AttemptSeen[r] = SeenAs(refund[r].status)
    BY <1>1, <1>3 DEF AttemptSeen
  <2>2. s = "failed" => r \notin ReturnedSeen
    BY DEF ReturnsAreReal, ReturnedSeen
  <2>3. CASE refund[r].status = "none" /\ s = "refused"
    <3>1. SeenAs(refund[r].status) = "none" /\ SeenAs(s) = "rejected"
      BY <2>3 DEF SeenAs, Unspent, InFlight
    <3>a. "rejected" \in AttemptState
      BY DEF AttemptState, Unconsumed
    <3>2. AsRead!Handles(r, "rejected")
      BY <1>1, <2>1, <3>1 DEF AsRead!Handles
    <3> QED BY <3>a, <3>2 DEF PaymentStep
  <2>4. CASE refund[r].status = "authorization_pending" /\ s \in Unspent \cup {"authorized"}
    <3>1. SeenAs(refund[r].status) = "pending" /\ SeenAs(s) \in {"unauthorized", "submitted"} /\ SeenAs(s) \in AttemptState
      BY <2>4 DEF SeenAs, Unspent, InFlight, AttemptState, Unconsumed
    <3>2. AsRead!Handles(r, SeenAs(s))
      BY <1>1, <2>1, <3>1 DEF AsRead!Handles
    <3> QED BY <3>1, <3>2 DEF PaymentStep
  <2>5. CASE refund[r].status \in InFlight \cup {"authorized"} /\ s \in InFlight \cup {"succeeded", "discrepancy", "failed"}
    <3>1. SeenAs(refund[r].status) = "submitted" /\ SeenAs(s) \in {"submitted", "succeeded", "failed"}
          /\ (SeenAs(s) = "failed" => s = "failed")
      BY <2>5 DEF SeenAs, Unspent, InFlight
    <3>2. CASE SeenAs(s) = "submitted"
      <4>1. AttemptSeen' = AttemptSeen
        BY <2>1, <3>1, <3>2 DEF AttemptSeen
      <4> QED BY <1>1, <4>1 DEF seen
    <3>3. CASE SeenAs(s) # "submitted"
      <4>1. AsRead!GoesOn(r)
        BY <1>1, <2>1, <2>2, <3>1, <3>3 DEF AsRead!GoesOn, AsRead!Onward
      <4> QED BY <4>1 DEF PaymentStep
    <3> QED BY <3>2, <3>3
  <2> QED BY <2>3, <2>4, <2>5 DEF Becomes
<1> QED BY <1>2, <1>3

\* a request Payment takes: of the sale's capture, no other attempt is under way
LEMMA RequestSeen ==
    ASSUME IInv, ReturnsAreReal, NEW p \in Askers, NEW r \in Refunds, NEW case \in Cases, NEW k \in Receipts,
           NEW exposure \in {"clear", "exposed"}, Request(p, r, case, k, exposure)
    PROVE  [PaymentStep]_seen
<1>1. RefundTypeOK /\ refund \in [Refunds -> RefundRow] /\ refund[r].status = "none" /\ authority' = authority
  BY DEF IInv, RefundTypeOK, Request
<1>2. CASE Refusable(case.capture, exposure)
  <2>1. SetStatus(r, "refused") /\ "refused" \in RefundStatus
    BY <1>2 DEF Request, RefundStatus
  <2> QED BY <1>1, <2>1, BecomesSeen
<1>3. CASE ~Refusable(case.capture, exposure)
  <2> DEFINE row == [status |-> "authorization_pending", case |-> case, receipt |-> k]
  <2>1. refund' = [refund EXCEPT ![r] = row]
    BY <1>3 DEF Request
  <2>2. /\ refund'[r].status = "authorization_pending" /\ refund'[r].case = case
        /\ \A z \in Refunds \ {r} : refund'[z] = refund[z]
    BY <1>1, <2>1
  <2> HIDE DEF row
  <2>3. ~authority[r].completed
    BY <1>1 DEF ReturnsAreReal, IInv, RowSound, Beyond, InFlight
  <2>4. ReturnedSeen' = ReturnedSeen
    BY <1>1, <2>2, <2>3 DEF ReturnedSeen, OfSale
  <2>5. AttemptSeen[r] = "none" /\ SeenAs("none") = "none" /\ SeenAs("authorization_pending") = "pending"
    BY <1>1 DEF AttemptSeen, SeenAs, Unspent, InFlight
  <2>6. AttemptSeen' = [z \in Refunds |-> IF z # r THEN AttemptSeen[z]
                                          ELSE IF case.capture = Settling THEN "pending" ELSE "none"]
    BY <2>2, <2>5 DEF AttemptSeen, SeenAs, OfSale
  <2>7. CASE case.capture # Settling
    <3>1. AttemptSeen' = AttemptSeen
      BY <2>5, <2>6, <2>7 DEF AttemptSeen
    <3> QED BY <2>4, <3>1 DEF seen
  <2>8. CASE case.capture = Settling
    <3>1. \A z \in Refunds \ {r} : ~AsRead!UnderWay(z)
      <4> SUFFICES ASSUME NEW z \in Refunds \ {r}, AttemptSeen[z] \in {"pending", "submitted", "succeeded"}
                   PROVE  FALSE
        BY DEF AsRead!UnderWay
      <4>1. OfSale(z) /\ SeenAs(refund[z].status) \in {"pending", "submitted", "succeeded"}
        BY DEF AttemptSeen
      <4>2. Requested(z) /\ Live(z)
        BY <4>1 DEF SeenAs, Requested, Live, Unspent, InFlight
      <4> QED BY <1>3, <2>8, <4>1, <4>2 DEF OfSale, Refusable, OnCapture, Requested
    <3>2. AttemptSeen' = [AttemptSeen EXCEPT ![r] = "pending"]
      BY <2>6, <2>8 DEF AttemptSeen
    <3>3. AsRead!Handles(r, "pending")
      BY <2>4, <2>5, <3>1, <3>2 DEF AsRead!Handles
    <3>4. "pending" \in AttemptState
      BY DEF AttemptState
    <3> QED BY <3>3, <3>4 DEF PaymentStep
  <2> QED BY <2>7, <2>8
<1> QED BY <1>2, <1>3

\* an allocation completes one case of the payment
LEMMA AllocateSeen ==
    ASSUME IInv, ReturnsAreReal, NEW m \in Movements, Allocate(m)
    PROVE  [PaymentStep]_seen
<1>1. PICK r \in Refunds : r = fact[m].refund /\ r # "none" /\ refund' = refund /\ atProvider[r] = "returned"
  BY AllocateCounts, RefundAssumption DEF Allocate, ReturnsAreReal
<1>2. AttemptSeen' = AttemptSeen
  BY <1>1 DEF AttemptSeen, OfSale, SeenAs
<1>3. CASE ~(OfSale(r) /\ ~authority[r].completed /\ authority'[r].completed)
  <2>1. \A z \in Refunds : OfSale(z) => authority'[z].completed = authority[z].completed
    <3>1. authority \in [Refunds -> [given : BOOLEAN, allocated : 0..Full, completed : BOOLEAN]]
          /\ authority' \in [Refunds -> [given : BOOLEAN, allocated : 0..Full, completed : BOOLEAN]]
      BY EvidenceStepsTyped DEF EvidenceTyped, IInv, RefundTypeOK
    <3>2. CASE Blocks(m)
      BY <3>2 DEF Blocks
    <3>3. ASSUME NEW n \in Nat, CountsFor(m, r, n)
          PROVE  \A z \in Refunds : OfSale(z) => authority'[z].completed = authority[z].completed
      BY <1>3, <3>1, <3>3 DEF CountsFor
    <3> QED BY <1>1, <3>2, <3>3, AllocateCounts
  <2>2. ReturnedSeen' = ReturnedSeen
    BY <1>1, <2>1 DEF ReturnedSeen, OfSale
  <2> QED BY <1>2, <2>2 DEF seen
<1>4. CASE OfSale(r) /\ ~authority[r].completed /\ authority'[r].completed
  <2>1. (\A z \in Refunds : ~authority[z].completed) /\ (\A z \in Refunds \ {r} : authority'[z] = authority[z])
    BY <1>1, <1>4, AllocateCounts DEF Blocks, CountsFor
  <2>2. ReturnedSeen = {} /\ ReturnedSeen' = {r}
    BY <1>1, <1>4, <2>1 DEF ReturnedSeen, OfSale
  <2>3. refund[r].status \in Beyond /\ refund[r].status # "failed"
    BY <1>1 DEF IInv, RowSound
  <2>4. AttemptSeen[r] \in {"submitted", "succeeded"}
    BY <1>4, <2>3 DEF AttemptSeen, SeenAs, Beyond, Unspent, InFlight
  <2>5. AsRead!Returns(r)
    BY <1>2, <2>2, <2>4 DEF AsRead!Returns
  <2> QED BY <2>5 DEF PaymentStep
<1> QED BY <1>3, <1>4

LEMMA ReadSteps == IInv /\ ReturnsAreReal /\ [RefundNext]_refundVars => [PaymentStep]_seen
<1> SUFFICES ASSUME IInv, ReturnsAreReal, [RefundNext]_refundVars
             PROVE  [PaymentStep]_seen
  OBVIOUS
<1> DEFINE Same == \A z \in Refunds : authority'[z].completed = authority[z].completed
<1>1. ASSUME NEW m \in Movements, Allocate(m)
      PROVE  [PaymentStep]_seen
  BY <1>1, AllocateSeen
<1>2. CASE Same
  <2>1. CASE refund' = refund
    BY <1>2, <2>1 DEF seen, AttemptSeen, ReturnedSeen, OfSale, SeenAs
  <2>2. ASSUME NEW r \in Refunds, NEW s \in RefundStatus, SetStatus(r, s), Becomes(refund[r].status, s),
               s = "failed" => atProvider[r] = "failed"
        PROVE  [PaymentStep]_seen
    BY <1>2, <2>2, BecomesSeen
  <2>3. ASSUME NEW p \in Askers, NEW r \in Refunds, NEW c \in Cases, NEW k \in Receipts,
               NEW e \in {"clear", "exposed"}, Request(p, r, c, k, e)
        PROVE  [PaymentStep]_seen
    BY <2>3, RequestSeen
  <2> QED BY <2>1, <2>2, <2>3, StatusMoves
<1>3. Same \/ \E m \in Movements : Allocate(m)
  BY TypedNext DEF SameCount, RecordRefundFact
<1> QED BY <1>1, <1>2, <1>3

\* What RefundCases assumes of Payment is what RefundSettlement does: the attempts and the
\* completed returns Billing is answered of (PAY-07, PAY-08), on the capture the sale rests on,
\* begin as nothing and change only as Handles, GoesOn and Returns of RefundCases say, whatever
\* answers, receipts and reports do (requestRefund, the refund worker, allocate).
THEOREM RefundsAreAsRead ==
    RefundSpec => /\ AttemptSeen = [r \in Refunds |-> "none"] /\ ReturnedSeen = {}
                  /\ [][PaymentStep]_seen
<1>1. RefundInit => AttemptSeen = [r \in Refunds |-> "none"] /\ ReturnedSeen = {}
  BY DEF RefundInit, AttemptSeen, ReturnedSeen, SeenAs, Unspent, InFlight
<1> QED BY <1>1, ReadSteps, ReturnsAlways, IInvAlways, PTL DEF RefundSpec

-----------------------------------------------------------------------------
(* The four together: what a behaviour starts from, and its steps *)

LEMMA NoticesTyped ==
    /\ Plain \subseteq Notice /\ Opened \in Notice
    /\ \A o \in Plain : o.type # "dispute"
    /\ \A x \in {x1, x2}, kind \in {"opened", "won", "lost"}, exposure \in {"stated", "other"} :
          Said(x, kind, "none", exposure) \in Notice /\ Said(x, "lost", b1, exposure) \in Notice
<1>1. ASSUME NEW x \in {x1, x2}, NEW kind \in {"opened", "won", "lost"}, NEW exposure \in {"stated", "other"}
      PROVE  Said(x, kind, "none", exposure) \in Notice /\ Said(x, "lost", b1, exposure) \in Notice
  BY StartIsOfTheInstance DEF Said, Notice, Parsed, NoticeType
<1>2. Opened \in Notice
  BY <1>1 DEF Opened
<1>3. ASSUME NEW o \in Plain
      PROVE  o \in Notice /\ o.type # "dispute"
  <2>1. PICK t \in NoticeType \ {"dispute"} :
           o = [type |-> t, target |-> a1, dispute |-> x1, kind |-> "opened", exposure |-> "stated", charge |-> "none"]
    BY DEF Plain
  <2> QED BY <2>1, StartIsOfTheInstance DEF Notice, Parsed
<1> QED BY <1>1, <1>2, <1>3

\* where nothing was ingested, a notification is new, or ignored because its type is unknown
LEMMA IntakeBegins ==
    ASSUME NothingIngested, notice \in [Hooks -> Notice], intakeFaults \in 0..MaxIntakeFaults,
           capture \in [Targets -> CaptureRow],
           \A h \in Hooks : \/ hook[h] = Fresh("none")
                            \/ hook[h] = Fresh("ignored") /\ notice[h].type = "unknown_type",
           hook \in [Hooks -> {Fresh("none"), Fresh("ignored")}]
    PROVE  IntakeInv
<1> USE DEF NothingIngested
<1>1. IntakeTypeOK
  <2>1. Idle \in Run /\ Idle.step = "idle" /\ Idle.hook = "none"
    BY DEF Idle, Run, Step, HookState, Settled, Outcomes
  <2> HIDE DEF Idle
  <2>2. run \in [Runners -> Run] /\ \A p \in Runners : run[p].step = "idle" <=> run[p].hook = "none"
    BY <2>1
  <2>3. Fresh("none") \in HookRow /\ Fresh("ignored") \in HookRow
    BY DEF Fresh, HookRow, HookState, Settled, Outcomes
  <2>4. hook \in [Hooks -> HookRow]
    BY <2>3
  <2>5. dispute \in [Disputes -> DisputeRow] /\ observed \in [Hooks -> Verdict]
        /\ announced \in [Disputes -> [opened : Nat, lost : Nat]]
    BY DEF DisputeRow, Verdict
  <2>6. kept \in [Hooks -> SUBSET {"applied", "quarantined", "unmatched_fact"}] /\ acked \subseteq Hooks
    OBVIOUS
  <2>7. deliveries \in 0..MaxDeliveries
    BY IntakeAssumption
  <2> QED BY <2>2, <2>4, <2>5, <2>6, <2>7 DEF IntakeTypeOK
<1>2. ASSUME NEW x \in Disputes
      PROVE  Agrees(x)
  <2>1. KindsOf(x) = {}
    BY DEF KindsOf, AppliedTo
  <2> QED BY <2>1 DEF Agrees
<1>3. \A h \in Hooks : HookRests(h)
  <2> SUFFICES ASSUME NEW h \in Hooks PROVE HookRests(h)
    OBVIOUS
  <2>1. hook[h].state = "none" \/ (hook[h].state = "ignored" /\ notice[h].type = "unknown_type")
    BY DEF Fresh
  <2>2. hook[h].outcome = "none"
    BY DEF Fresh
  <2> QED BY <2>1, <2>2 DEF HookRests, Evident
<1>4. \A p \in Runners : RunRests(p)
  BY DEF RunRests, Idle
<1> QED BY <1>1, <1>2, <1>3, <1>4 DEF IntakeInv

LEMMA IntakeStarts ==
    ASSUME IntakeStart \/ NoNotices
    PROVE  IntakeInv
<1>1. Unknown \in CaptureRow /\ [Unknown EXCEPT !.payment = "settled_elsewhere"] \in CaptureRow
      /\ [Unknown EXCEPT !.known = TRUE, !.facts = 1] \in CaptureRow
      /\ [Unknown EXCEPT !.known = TRUE, !.facts = 1, !.payment = "settled"] \in CaptureRow
  <2>1. 0 \in 0..2 /\ 1 \in 0..2
    OBVIOUS
  <2>2. Unknown \in CaptureRow
    BY <2>1 DEF Unknown, CaptureRow
  <2>3. [Unknown EXCEPT !.payment = "settled_elsewhere"] \in CaptureRow
    BY <2>2 DEF CaptureRow
  <2>4. [Unknown EXCEPT !.known = TRUE, !.facts = 1] \in CaptureRow
        /\ [Unknown EXCEPT !.known = TRUE, !.facts = 1, !.payment = "settled"] \in CaptureRow
    BY <2>1, <2>2 DEF CaptureRow
  <2> QED BY <2>2, <2>3, <2>4
<1>2. 0 \in 0..MaxIntakeFaults /\ MaxIntakeFaults \in 0..MaxIntakeFaults
  BY IntakeAssumption
<1> DEFINE Fit ==
      /\ notice \in [Hooks -> Notice] /\ capture \in [Targets -> CaptureRow]
      /\ hook \in [Hooks -> {Fresh("none"), Fresh("ignored")}]
      /\ \A h \in Hooks : \/ hook[h] = Fresh("none")
                          \/ hook[h] = Fresh("ignored") /\ notice[h].type = "unknown_type"
<1>3. ASSUME OneNotice PROVE Fit
  <2>1. PICK n \in Plain \cup {Opened} :
           /\ \E o \in Plain : o.type = "unknown_type" /\ notice = AtFirst(n, o)
           /\ capture = [a \in Targets |->
                 CASE n.type = "dispute" -> Unknown
                   [] n.type = "unkeyed_capture" -> [Unknown EXCEPT !.known = TRUE, !.facts = 1]
                   [] OTHER -> [Unknown EXCEPT !.payment = "settled_elsewhere"]]
    BY <1>3 DEF OneNotice
  <2>2. PICK o \in Plain : o.type = "unknown_type" /\ notice = AtFirst(n, o)
    BY <2>1
  <2>3. n \in Notice /\ o \in Notice
    BY NoticesTyped
  <2>4. notice = [h \in Hooks |-> IF h = h1 THEN n ELSE o]
        /\ hook = [h \in Hooks |-> IF h = h1 THEN Fresh("none") ELSE Fresh("ignored")]
    BY <1>3, <2>2 DEF OneNotice, AtFirst
  <2>5. capture \in [Targets -> CaptureRow]
    BY <1>1, <2>1
  <2> QED BY <2>2, <2>3, <2>4, <2>5
<1>4. ASSUME TwoNotices PROVE Fit
  <2>1. PICK n \in Notice, o \in Notice : notice = [h \in Hooks |-> IF h = h1 THEN n ELSE o]
    BY <1>4, NoticesTyped DEF TwoNotices, AtFirst
  <2>2. capture \in [Targets -> CaptureRow]
    BY <1>1, <1>4 DEF TwoNotices
  <2> QED BY <1>4, <2>1, <2>2 DEF TwoNotices
<1>5. ASSUME NoNotices PROVE Fit
  <2>1. notice \in [Hooks -> {n \in Plain : n.type = "unknown_type"}] /\ hook = [h \in Hooks |-> Fresh("ignored")]
        /\ capture \in [Targets -> CaptureRow]
    BY <1>1, <1>5 DEF NoNotices
  <2>2. \A n \in Plain : n \in Notice
    BY NoticesTyped
  <2> QED BY <2>1, <2>2
<1>6. Fit
  BY <1>3, <1>4, <1>5 DEF IntakeStart
<1>7. intakeFaults \in 0..MaxIntakeFaults /\ NothingIngested
  BY <1>2 DEF IntakeStart, NoNotices
<1> QED BY <1>6, <1>7, IntakeBegins

\* where no money was returned, the authorizations there are were paid for, one for each capture
LEMMA RefundsBegin ==
    ASSUME NothingReturned,
           covers \in [Receipts -> Cases], standing \in [Captures -> {"sound", "sibling", "contested"}],
           receipt \in [Receipts -> [state : {"issued", "consumed", "expired", "voided"}, by : Refunds \cup {"none"}]],
           refund \in [Refunds -> RefundRow], atProvider \in [Refunds -> {"none", "accepted"}],
           \A r \in Refunds : authority[r] = [given |-> refund[r].status = "submitted", allocated |-> 0, completed |-> FALSE],
           authority \in [Refunds -> [given : BOOLEAN, allocated : 0..Full, completed : BOOLEAN]],
           reportsMade \in 0..MaxReports, refundFaults \in 0..MaxRefundFaults,
           \A r \in Refunds : /\ refund[r].status \in {"none", "refused", "authorization_pending", "submitted"}
                              /\ Requested(r) => refund[r].receipt \in Receipts
                              /\ refund[r].status = "submitted" => Paid(r)
                              /\ atProvider[r] = "accepted" => refund[r].status = "submitted",
           \A k \in Receipts : SpentFor(k),
           OneLive
    PROVE  IInv
<1> USE DEF NothingReturned
<1>1. RefundTypeOK
  <2>1. work \in [Askers \cup Workers -> Work]
    BY DEF AtRest, Work, Steps
  <2>2. 0 \in 0..Full
    BY RefundAssumption
  <2>3. fact \in [Movements -> FactRow] /\ allocation \in [Movements -> [state : {"none", "blocked", "made"}, intended : 0..Full]]
    BY <2>2 DEF FactRow
  <2> QED BY <2>1, <2>3 DEF RefundTypeOK
<1>2. \A r \in Refunds : RowSound(r)
  BY DEF RowSound, Beyond, InFlight
<1>3. ASSUME NEW r \in Refunds
      PROVE  Counted(r)
  <2>1. Units(r) = {}
    <3>1. "none" # r
      BY RefundAssumption
    <3> QED BY <3>1 DEF Units
  <2>2. Full # 0
    BY RefundAssumption
  <2> QED BY <2>1, <2>2, FS_EmptySet DEF Counted
<1>4. /\ OnWire /\ Reported
      /\ \A p \in Askers \cup Workers : Holds(p)
      /\ \A m \in Movements : Uncounted(m)
      /\ OneCompleted
  BY DEF OnWire, Reported, Holds, AtRest, Uncounted, OneCompleted
<1> QED BY <1>1, <1>2, <1>3, <1>4 DEF IInv

LEMMA CasesOfTheInstance ==
    /\ Sale \in Cases /\ Other \in Cases /\ Sale.capture # Other.capture
    /\ \A status \in RefundStatus, k \in Receipts \cup {"none"}, case \in Cases :
          /\ Row(status, k, case) \in RefundRow
          /\ Row(status, k, case).status = status /\ Row(status, k, case).receipt = k /\ Row(status, k, case).case = case
    /\ {"none", "refused", "authorization_pending", "submitted"} \subseteq RefundStatus
    /\ 0 \in 0..Full /\ 0 \in 0..MaxReports /\ MaxReports - 1 \in 0..MaxReports
    /\ 0 \in 0..MaxRefundFaults /\ MaxRefundFaults \in 0..MaxRefundFaults
BY StartIsOfTheInstance, RefundAssumption DEF Sale, Other, Cases, Row, RefundRow, RefundStatus, InFlight, Ended, Unspent

LEMMA AskedStarts == ASSUME NothingReturned, Asked PROVE IInv
<1> USE StartIsOfTheInstance, CasesOfTheInstance DEF Asked
<1> DEFINE none == [given |-> FALSE, allocated |-> 0, completed |-> FALSE]
<1>1. \A r \in Refunds : refund[r] = IF r = r1 THEN [status |-> "authorization_pending", receipt |-> k1, case |-> Sale]
                                     ELSE [status |-> "none", receipt |-> "none", case |-> Sale]
  BY DEF NotAsked, Row
<1>2. refund \in [Refunds -> RefundRow]
  BY DEF NotAsked
<1>3. \A r \in Refunds : refund[r].status \in {"none", "authorization_pending"} /\ (Requested(r) => r = r1)
  BY <1>1 DEF Requested
<1>4. refund[r1].receipt \in Receipts
  BY <1>1
<1>5. /\ covers \in [Receipts -> Cases] /\ standing \in [Captures -> {"sound", "sibling", "contested"}]
      /\ receipt \in [Receipts -> [state : {"issued", "consumed", "expired", "voided"}, by : Refunds \cup {"none"}]]
      /\ atProvider \in [Refunds -> {"none", "accepted"}]
  OBVIOUS
<1>6. /\ authority \in [Refunds -> [given : BOOLEAN, allocated : 0..Full, completed : BOOLEAN]]
      /\ \A r \in Refunds : authority[r] = [given |-> refund[r].status = "submitted", allocated |-> 0, completed |-> FALSE]
  BY <1>3
<1>7. OneLive
  BY <1>3 DEF OneLive
<1>8. \A k \in Receipts : SpentFor(k)
  BY DEF SpentFor
<1> QED BY <1>2, <1>3, <1>4, <1>5, <1>6, <1>7, <1>8, RefundsBegin

LEMMA NoRefundsStarts == ASSUME NothingReturned, NoRefunds PROVE IInv
<1> USE StartIsOfTheInstance, CasesOfTheInstance DEF NoRefunds
<1>1. \A r \in Refunds : refund[r] = [status |-> "refused", receipt |-> "none", case |-> Sale]
  BY DEF Row
<1>2. refund \in [Refunds -> RefundRow]
  OBVIOUS
<1>3. \A r \in Refunds : refund[r].status = "refused" /\ ~Requested(r)
  BY <1>1 DEF Requested
<1>4. /\ covers \in [Receipts -> Cases] /\ standing \in [Captures -> {"sound", "sibling", "contested"}]
      /\ receipt \in [Receipts -> [state : {"issued", "consumed", "expired", "voided"}, by : Refunds \cup {"none"}]]
      /\ atProvider \in [Refunds -> {"none", "accepted"}]
  OBVIOUS
<1>5. /\ authority \in [Refunds -> [given : BOOLEAN, allocated : 0..Full, completed : BOOLEAN]]
      /\ \A r \in Refunds : authority[r] = [given |-> refund[r].status = "submitted", allocated |-> 0, completed |-> FALSE]
  BY <1>3
<1>6. OneLive
  BY <1>3 DEF OneLive
<1>7. \A k \in Receipts : SpentFor(k)
  BY DEF SpentFor
<1> QED BY <1>2, <1>3, <1>4, <1>5, <1>6, <1>7, RefundsBegin

LEMMA SentStarts == ASSUME NothingReturned, Sent PROVE IInv
<1> USE StartIsOfTheInstance, CasesOfTheInstance DEF Sent
<1>1. \A r \in Refunds : refund[r] = IF r = r1 THEN [status |-> "submitted", receipt |-> k1, case |-> Sale]
                                     ELSE IF r = r2 THEN [status |-> "submitted", receipt |-> k2, case |-> Other]
                                     ELSE [status |-> "none", receipt |-> "none", case |-> Sale]
  BY DEF NotAsked, Row
<1>2. refund \in [Refunds -> RefundRow]
  BY DEF NotAsked
<1>3. /\ refund[r1].status = "submitted" /\ refund[r1].receipt = k1 /\ refund[r1].case = Sale
      /\ refund[r2].status = "submitted" /\ refund[r2].receipt = k2 /\ refund[r2].case = Other
      /\ \A r \in Refunds : r \notin {r1, r2} => refund[r].status = "none"
  BY <1>1
<1>4. /\ covers \in [Receipts -> Cases] /\ covers[k1] = Sale /\ covers[k2] = Other
      /\ standing \in [Captures -> {"sound", "sibling", "contested"}]
      /\ atProvider \in [Refunds -> {"none", "accepted"}]
      /\ \A r \in Refunds : atProvider[r] = "accepted" => r \in {r1, r2}
  OBVIOUS
<1>5. /\ \A k \in Receipts : receipt[k] = IF k = k1 THEN [state |-> "consumed", by |-> r1]
                                          ELSE IF k = k2 THEN [state |-> "consumed", by |-> r2]
                                          ELSE [state |-> "issued", by |-> "none"]
      /\ receipt \in [Receipts -> [state : {"issued", "consumed", "expired", "voided"}, by : Refunds \cup {"none"}]]
  OBVIOUS
<1>6. /\ authority \in [Refunds -> [given : BOOLEAN, allocated : 0..Full, completed : BOOLEAN]]
      /\ \A r \in Refunds : authority[r] = [given |-> r \in {r1, r2}, allocated |-> 0, completed |-> FALSE]
  OBVIOUS
<1>7. \A r \in Refunds : (r \in {r1, r2}) = (refund[r].status = "submitted")
  BY <1>3
<1>8. \A r \in Refunds : authority[r] = [given |-> refund[r].status = "submitted", allocated |-> 0, completed |-> FALSE]
  BY <1>6, <1>7
<1>9. \A r \in Refunds : Requested(r) => r \in {r1, r2}
  BY <1>3 DEF Requested
<1>10. Requested(r1) /\ Requested(r2) /\ Paid(r1) /\ Paid(r2)
  BY <1>3, <1>4, <1>5 DEF Requested, Paid
<1>11. \A k \in Receipts : SpentFor(k)
  BY <1>3, <1>4, <1>5, <1>10 DEF SpentFor
<1>12. OneLive
  BY <1>3, <1>9 DEF OneLive
<1>13. reportsMade \in 0..MaxReports /\ refundFaults \in 0..MaxRefundFaults
  OBVIOUS
<1>14. \A r \in Refunds : /\ refund[r].status \in {"none", "refused", "authorization_pending", "submitted"}
                          /\ Requested(r) => refund[r].receipt \in Receipts
                          /\ refund[r].status = "submitted" => Paid(r)
                          /\ atProvider[r] = "accepted" => refund[r].status = "submitted"
  BY <1>3, <1>4, <1>9, <1>10
<1> HIDE DEF Sent
<1> QED BY <1>2, <1>4, <1>5, <1>6, <1>8, <1>11, <1>12, <1>13, <1>14, RefundsBegin

LEMMA CasesStart == ASSUME RefundCasesStart PROVE RefundCaseInv
<1> USE DEF RefundCasesStart
<1>1. /\ NothingRefunded /\ purpose \in {"direct", "assisted"} /\ gate \in {"pending", "passed"}
      /\ NothingUsed \/ OneCaseOver
  OBVIOUS
<1>2. NoRelay \in RelayRows /\ [case |-> q2, status |-> "rejected"] \in RelayRows
  BY StartIsOfTheInstance DEF NoRelay, RelayRows, RelayStatus, AttemptState, Unconsumed
<1>3. "none" \in AttemptState /\ "rejected" \in AttemptState
  BY DEF AttemptState, Unconsumed
<1>4. CASE NothingUsed
  BY <1>1, <1>2, <1>3, <1>4, OverSound DEF NothingUsed, Over
<1>5. CASE OneCaseOver
  <2>1. /\ kase \in [CaseIds -> {"none", "cancelled"}]
        /\ relay \in [Relays -> RelayRows] /\ attempt \in [Relays -> AttemptState]
    BY <1>2, <1>3, <1>5 DEF OneCaseOver
  <2>2. \A r \in Relays : \/ relay[r] = NoRelay /\ attempt[r] = "none"
                          \/ relay[r].case \in CaseIds /\ relay[r].status = "rejected" /\ attempt[r] = "rejected"
    BY <1>5, StartIsOfTheInstance DEF OneCaseOver
  <2> QED BY <1>1, <2>1, <2>2, OverSound DEF Over
<1> QED BY <1>1, <1>4, <1>5

EvidenceInv == IntakeInv /\ IInv /\ RefundCaseInv /\ AssistedInv

LEMMA EvidenceInitially == Start => EvidenceInv
<1> SUFFICES ASSUME Start PROVE EvidenceInv
  OBVIOUS
<1>1. AssistedInv /\ RefundCaseInv
  BY AssistedInvInit, CasesStart DEF Start
<1>2. IntakeInv
  BY IntakeStarts DEF Start
<1>3. IInv
  BY AskedStarts, SentStarts, NoRefundsStarts DEF Start
<1> QED BY <1>1, <1>2, <1>3 DEF EvidenceInv

LEMMA EachGoesAlone ==
    [Next]_vars => /\ [IntakeNext]_intakeVars /\ [RefundNext]_refundVars
                   /\ [RefundCaseNext]_refundCaseVars /\ [AssistedNext]_assistedVars
  BY DEF Next, vars

LEMMA EvidenceInvAlways == Evidence => []EvidenceInv
<1>1. EvidenceInv /\ [Next]_vars => EvidenceInv'
  BY EachGoesAlone, IntakeInvNext, IInvNext, RefundCaseInvNext, AssistedInvNext DEF EvidenceInv
<1> QED BY <1>1, EvidenceInitially, PTL DEF Evidence

\* Notifications, disputes, refunds, their relays and cases, and the rows of an assisted settlement keep their shape, for
\* any number of each, also where the checked behaviours begin in the middle: with two refunds at the provider, two
\* notices of a verified capture, or a case that is over when a process starts.
THEOREM EvidenceTypeCorrect == Evidence => []EvidenceTypeOK
<1>1. EvidenceInv => EvidenceTypeOK
  BY DEF EvidenceInv, EvidenceTypeOK, IntakeInv, IInv, RefundCaseInv, CasesTyped, AssistedInv
<1> QED BY <1>1, EvidenceInvAlways, PTL

\* And what the four promise holds there: disputes agree with their notices, what was acknowledged is kept, nothing is
\* returned, reversed or sold twice, and every case ends with what became of its capture.
THEOREM EvidenceSoundAlways ==
    Evidence => [](DisputesAgree /\ EvidenceKept /\ RefundsSound /\ RefundCasesSound /\ AssistedSound)
<1>1. EvidenceInv => DisputesAgree /\ EvidenceKept /\ RefundsSound /\ RefundCasesSound /\ AssistedSound
  BY IntakeInvSound, IInvSound, RefundCaseInvSound, AssistedInvSound DEF EvidenceInv
<1> QED BY <1>1, EvidenceInvAlways, PTL

=============================================================================
