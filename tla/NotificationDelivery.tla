------------------------ MODULE NotificationDelivery ------------------------
(***************************************************************************)
(* notification-service: the deliveries of one notification (its channels) *)
(* are claimed under a lease and sent to a provider that may accept a      *)
(* message and lose its answer.  Workers are service instances, each       *)
(* running one pass at a time.  Every action is one database transaction,  *)
(* one provider call, or one step between two of them.                     *)
(*                                                                         *)
(* Abstractions.  A lease token is `lease': the worker whose claim carries *)
(* the token in the row, None when no claim does.  `lapsed' is a leaseUntil*)
(* that has passed.  A PENDING delivery may be due at any moment, and a    *)
(* pass claims any of them.  A recovery pass is a transaction per delivery *)
(* here; in the code one transaction recovers a batch of them.  The clocks *)
(* of an instance and of the database agree.  MaxFaults bounds failed      *)
(* transactions, crashes, shutdowns and leases that end under a running    *)
(* claim; MaxRenewals the passes of the renewal timer.                     *)
(***************************************************************************)
EXTENDS Naturals, Sequences, FiniteSets

CONSTANTS
    Deliveries,      \* the deliveries of the notification, one per channel: at least one
    Workers,         \* service instances
    MaxAttempts,     \* NOTIFICATION_MAX_ATTEMPTS
    MaxFaults,
    MaxRenewals,
    None

ASSUME ConstantsAssumption ==
    /\ IsFiniteSet(Deliveries) /\ Deliveries # {}
    /\ MaxAttempts \in Nat \ {0}
    /\ MaxFaults \in Nat
    /\ MaxRenewals \in Nat
    /\ None \notin Workers

VARIABLES
    secret,      \* the sealed one-time code of the notification, if it has one
    expiry,      \* its expiresAt
    cancelled,   \* cancelledAt is set
    cancelling,  \* what a cancel has read, while it holds the notification's lock
    answer,      \* what the last cancel answered
    delivery,    \* notification_delivery rows
    attempt,     \* notification_delivery_attempt rows: the outcomes, by number
    lease,       \* who holds the token of each delivery
    claim,       \* what each instance does with each delivery of its pass
    renewing,    \* claims whose renewal is committed and not yet answered
    accepted,    \* the messages the provider accepted for each delivery
    late,        \* the attempts that started after the notification was cancelled
    faults, renewals

notification == <<secret, expiry, cancelled>>
cancel       == <<cancelled, cancelling, answer>>
vars == <<secret, expiry, cancel, delivery, attempt, lease, claim, renewing,
          accepted, late, faults, renewals>>

-----------------------------------------------------------------------------
(* Rows *)

Terminal == {"SENT", "FAILED", "UNCONFIRMED", "EXPIRED", "CANCELLED"}
Status   == Terminal \cup {"PENDING", "SENDING"}
Outcome  == {"STARTED", "ACCEPTED", "RETRYABLE_FAILURE", "TERMINAL_FAILURE", "AMBIGUOUS"}
Answered == Outcome \ {"STARTED"}

\* processOne: queued, then the context is read and one of three ways is taken;
\* an attempt started is called and its answer is recorded
Phase   == {"none", "queued", "proceed", "withdraw", "expire", "started", "answered"}
NoClaim == [phase |-> "none", number |-> 0, result |-> None]

TypeOK ==
    /\ secret \in {"none", "sealed", "purged"}
    /\ expiry \in {"never", "ahead", "passed"}
    /\ cancelled \in BOOLEAN
    /\ cancelling \in {None} \cup [active : BOOLEAN, sending : BOOLEAN]
    /\ answer \in {None, "ok", "delivery_in_progress"}
    /\ delivery \in [Deliveries -> [status : Status, resends : 0..1, lapsed : BOOLEAN]]
    /\ attempt \in [Deliveries -> Seq(Outcome)]
    /\ lease \in [Deliveries -> Workers \cup {None}]
    /\ claim \in [Workers -> [Deliveries ->
                    [phase : Phase, number : Nat, result : Answered \cup {None}]]]
    /\ renewing \in [Workers -> SUBSET Deliveries]
    /\ accepted \in [Deliveries -> Nat]
    /\ late \in [Deliveries -> Nat]
    /\ faults \in 0..MaxFaults
    /\ renewals \in 0..MaxRenewals

\* intake: the notification and its deliveries in one transaction
Init ==
    /\ secret \in {"none", "sealed"}
    /\ expiry \in {"never", "ahead"}
    /\ cancelled = FALSE
    /\ cancelling = None
    /\ answer = None
    /\ delivery = [d \in Deliveries |-> [status |-> "PENDING", resends |-> 0, lapsed |-> FALSE]]
    /\ attempt = [d \in Deliveries |-> <<>>]
    /\ lease = [d \in Deliveries |-> None]
    /\ claim = [w \in Workers |-> [d \in Deliveries |-> NoClaim]]
    /\ renewing = [w \in Workers |-> {}]
    /\ accepted = [d \in Deliveries |-> 0]
    /\ late = [d \in Deliveries |-> 0]
    /\ faults = 0
    /\ renewals = 0

Fault        == faults < MaxFaults /\ faults' = faults + 1
Phased(w, d, phase) == claim[w][d].phase = phase
Drop(w, d)   == claim' = [claim EXCEPT ![w][d] = NoClaim]
Holds(w, d)  == lease[d] = w /\ d \notin renewing[w]
Started(d)   == {n \in DOMAIN attempt[d] : attempt[d][n] = "STARTED"}

-----------------------------------------------------------------------------
(* Transitions of a delivery, in the transaction of a claim or of recovery *)

\* back to PENDING, due now or later
Requeue(d, resends) ==
    /\ delivery' = [delivery EXCEPT ![d] = [status |-> "PENDING", resends |-> resends, lapsed |-> FALSE]]
    /\ lease' = [lease EXCEPT ![d] = None]
    /\ UNCHANGED secret

End_(d, status) ==
    /\ cancelling = None
    /\ delivery' = [delivery EXCEPT ![d].status = status, ![d].lapsed = FALSE]
    /\ lease' = [lease EXCEPT ![d] = None]
    /\ secret' = IF secret = "sealed" THEN "purged" ELSE secret

\* a terminal state; the last one purges the secret, under the notification's lock
End(d, status) ==
    /\ cancelling = None
    /\ delivery' = [delivery EXCEPT ![d].status = status, ![d].lapsed = FALSE]
    /\ lease' = [lease EXCEPT ![d] = None]
    /\ secret' = IF secret = "sealed" /\ \A e \in Deliveries \ {d} : delivery[e].status \in Terminal
                 THEN "purged" ELSE secret

\* a one-time code is sent once more; anything else is never resent.  The
\* secret of a delivery that may still be sent is sealed until it expires, so
\* the row is as good as the claim's context.
Ambiguous_(d) ==
    \/ secret = "sealed" /\ expiry = "ahead" /\ Requeue(d, delivery[d].resends + 1)
    \/ ~ (secret = "sealed" /\ expiry = "ahead") /\ End(d, "UNCONFIRMED")
Resendable(d) == secret = "sealed" /\ expiry = "ahead" /\ delivery[d].resends = 0
Ambiguous(d) ==
    \/ Resendable(d) /\ Requeue(d, 1)
    \/ ~ Resendable(d) /\ End(d, "UNCONFIRMED")

-----------------------------------------------------------------------------
(* Recovery, claims and leases *)

Recover_(d) ==
    /\ delivery[d].status = "SENDING" /\ delivery[d].lapsed
    /\ Requeue(d, delivery[d].resends)
    /\ UNCHANGED <<expiry, cancel, attempt, claim, renewing, accepted, late, faults, renewals>>

RecoverStarted_(d) ==
    /\ delivery[d].status = "SENDING" /\ delivery[d].lapsed
    /\ Started(d) # {}
    /\ attempt' = [attempt EXCEPT ![d] =
                     [n \in DOMAIN @ |-> IF @[n] = "STARTED" THEN "AMBIGUOUS" ELSE @[n]]]
    /\ Ambiguous(d)
    /\ UNCHANGED <<expiry, cancel, claim, renewing, accepted, late, faults, renewals>>

\* an expired lease: a started attempt may have been sent, no attempt was not
Recover(d) ==
    /\ delivery[d].status = "SENDING" /\ delivery[d].lapsed
    /\ \/ /\ Started(d) = {}
          /\ Requeue(d, delivery[d].resends)
          /\ UNCHANGED attempt
       \/ /\ Started(d) # {}
          /\ attempt' = [attempt EXCEPT ![d] =
                           [n \in DOMAIN @ |-> IF @[n] = "STARTED" THEN "AMBIGUOUS" ELSE @[n]]]
          /\ Ambiguous(d)
    /\ UNCHANGED <<expiry, cancel, claim, renewing, accepted, late, faults, renewals>>

Claim(w) ==
    /\ \A d \in Deliveries : Phased(w, d, "none")
    /\ renewing[w] = {}
    /\ \E due \in SUBSET {d \in Deliveries : delivery[d].status = "PENDING"} :
          /\ due # {}
          /\ delivery' = [d \in Deliveries |-> IF d \in due THEN [delivery[d] EXCEPT !.status = "SENDING"]
                                               ELSE delivery[d]]
          /\ lease' = [d \in Deliveries |-> IF d \in due THEN w ELSE lease[d]]
          /\ claim' = [claim EXCEPT ![w] = [d \in Deliveries |->
                         IF d \in due THEN [NoClaim EXCEPT !.phase = "queued"] ELSE NoClaim]]
    /\ UNCHANGED <<notification, cancelling, answer, attempt, renewing, accepted, late, faults, renewals>>

\* the queued claims get a new token in the database ...
RenewQueued(w) ==
    LET queued == {d \in Deliveries : Phased(w, d, "queued") /\ Holds(w, d)} IN
    /\ queued # {} /\ renewing[w] = {}
    /\ renewals < MaxRenewals
    /\ renewals' = renewals + 1
    /\ renewing' = [renewing EXCEPT ![w] = queued]
    /\ delivery' = [d \in Deliveries |-> IF d \in queued THEN [delivery[d] EXCEPT !.lapsed = FALSE]
                                         ELSE delivery[d]]
    /\ UNCHANGED <<notification, cancelling, answer, attempt, lease, claim, accepted, late, faults>>

\* ... and learn it when they are still queued; a claim started since keeps the
\* old one, and a renewal that fails after its commit renews no token at all
Renewed(w) ==
    LET lost == {d \in renewing[w] : lease[d] = w /\ ~ Phased(w, d, "queued")} IN
    /\ renewing[w] # {}
    /\ \E gone \in {lost, renewing[w]} :
          /\ IF gone = lost THEN UNCHANGED faults ELSE Fault
          /\ lease' = [d \in Deliveries |-> IF d \in gone /\ lease[d] = w THEN None ELSE lease[d]]
    /\ renewing' = [renewing EXCEPT ![w] = {}]
    /\ UNCHANGED <<notification, cancelling, answer, delivery, attempt, claim, accepted, late, renewals>>

\* the lease ends: of a claim nobody works on any more, or (a fault) under a worker
Abandoned(d) == lease[d] = None \/ claim[lease[d]][d].phase = "none"
LeaseEnds(d) ==
    /\ delivery[d].status = "SENDING" /\ ~ delivery[d].lapsed
    /\ IF Abandoned(d) THEN UNCHANGED faults ELSE Fault
    /\ delivery' = [delivery EXCEPT ![d].lapsed = TRUE]
    /\ UNCHANGED <<notification, cancelling, answer, attempt, lease, claim, renewing, accepted, late, renewals>>

-----------------------------------------------------------------------------
(* One claim *)

ReadContext_(w, d) ==
    /\ Phased(w, d, "queued")
    /\ claim' = [claim EXCEPT ![w][d].phase = IF expiry = "passed" THEN "expire" ELSE "proceed"]
    /\ UNCHANGED <<notification, cancelling, answer, delivery, attempt, lease, renewing, accepted,
                   late, faults, renewals>>

\* the context is read after the claim: a cancel or an expiry since then wins
ReadContext(w, d) ==
    /\ Phased(w, d, "queued")
    /\ claim' = [claim EXCEPT ![w][d].phase =
                   IF cancelled THEN "withdraw" ELSE IF expiry = "passed" THEN "expire" ELSE "proceed"]
    /\ UNCHANGED <<notification, cancelling, answer, delivery, attempt, lease, renewing, accepted,
                   late, faults, renewals>>

\* a transition before any attempt, refused when the claim was recovered
EndUnsent(w, d, phase, status) ==
    /\ Phased(w, d, phase)
    /\ \/ Holds(w, d) /\ End(d, status)
       \/ ~ Holds(w, d) /\ UNCHANGED <<delivery, lease, secret>>
    /\ Drop(w, d)
    /\ UNCHANGED <<expiry, cancel, attempt, renewing, accepted, late, faults, renewals>>

Withdraw(w, d)  == EndUnsent(w, d, "withdraw", "CANCELLED")
Expire(w, d)    == EndUnsent(w, d, "expire", "EXPIRED")
\* a rate limit, or a message that does not render
FailUnsent(w, d) == EndUnsent(w, d, "proceed", "FAILED")

\* the attempt is committed before the provider is called
StartAttempt(w, d) ==
    /\ Phased(w, d, "proceed")
    /\ \/ /\ Holds(w, d)
          /\ attempt' = [attempt EXCEPT ![d] = Append(@, "STARTED")]
          /\ delivery' = [delivery EXCEPT ![d].lapsed = FALSE]
          /\ claim' = [claim EXCEPT ![w][d] = [phase |-> "started", number |-> Len(attempt[d]) + 1,
                                               result |-> None]]
          /\ late' = [late EXCEPT ![d] = IF cancelled THEN @ + 1 ELSE @]
       \/ ~ Holds(w, d) /\ Drop(w, d) /\ UNCHANGED <<attempt, delivery, late>>
    /\ UNCHANGED <<notification, cancelling, answer, lease, renewing, accepted, faults, renewals>>

\* whatever the answer is, the message of a lost one may have been accepted
CallProvider(w, d) ==
    /\ Phased(w, d, "started")
    /\ \E result \in Answered :
          /\ claim' = [claim EXCEPT ![w][d].phase = "answered", ![w][d].result = result]
          /\ \/ result \in {"ACCEPTED", "AMBIGUOUS"} /\ accepted' = [accepted EXCEPT ![d] = @ + 1]
             \/ result # "ACCEPTED" /\ UNCHANGED accepted
    /\ UNCHANGED <<notification, cancelling, answer, delivery, attempt, lease, renewing, late,
                   faults, renewals>>

\* what an answer makes of the delivery
Outcomes(d, number, result) ==
    \/ result = "ACCEPTED" /\ End(d, "SENT")
    \/ result = "AMBIGUOUS" /\ Ambiguous(d)
    \/ result = "TERMINAL_FAILURE" /\ End(d, "FAILED")
    \/ /\ result = "RETRYABLE_FAILURE"
       /\ \/ number >= MaxAttempts /\ End(d, "FAILED")
          \/ number < MaxAttempts /\ expiry # "never" /\ End(d, "EXPIRED")
          \/ number < MaxAttempts /\ expiry # "passed" /\ Requeue(d, delivery[d].resends)

Finish_(w, d) ==
    /\ Phased(w, d, "answered")
    /\ attempt' = [attempt EXCEPT ![d][claim[w][d].number] = claim[w][d].result]
    /\ Outcomes(d, claim[w][d].number, claim[w][d].result)
    /\ Drop(w, d)
    /\ UNCHANGED <<expiry, cancel, renewing, accepted, late, faults, renewals>>

\* the attempt and the delivery in one transaction; a late result is refused
Finish(w, d) ==
    LET number == claim[w][d].number  result == claim[w][d].result IN
    /\ Phased(w, d, "answered")
    /\ \/ /\ attempt[d][number] = "STARTED" /\ Holds(w, d)
          /\ attempt' = [attempt EXCEPT ![d][number] = result]
          /\ Outcomes(d, number, result)
       \/ /\ ~ (attempt[d][number] = "STARTED" /\ Holds(w, d))
          /\ UNCHANGED <<attempt, delivery, lease, secret>>
    /\ Drop(w, d)
    /\ UNCHANGED <<expiry, cancel, renewing, accepted, late, faults, renewals>>

\* a transaction, a limiter or the key fails: the rows stay as they are
Abandon(w, d) ==
    /\ ~ Phased(w, d, "none") /\ ~ Phased(w, d, "queued")
    /\ Fault
    /\ Drop(w, d)
    /\ UNCHANGED <<notification, cancelling, answer, delivery, attempt, lease, renewing, accepted,
                   late, renewals>>

CrashWorker(w) ==
    /\ \E d \in Deliveries : ~ Phased(w, d, "none")
    /\ Fault
    /\ claim' = [claim EXCEPT ![w] = [d \in Deliveries |-> NoClaim]]
    /\ renewing' = [renewing EXCEPT ![w] = {}]
    /\ UNCHANGED <<notification, cancelling, answer, delivery, attempt, lease, accepted, late, renewals>>

\* shutdown: the claims not started are given back; the others finish
Release(w) ==
    LET queued == {d \in Deliveries : Phased(w, d, "queued")}
        back   == {d \in queued : Holds(w, d)} IN
    /\ queued # {}
    /\ Fault
    /\ delivery' = [d \in Deliveries |-> IF d \in back
                      THEN [delivery[d] EXCEPT !.status = "PENDING", !.lapsed = FALSE] ELSE delivery[d]]
    /\ lease' = [d \in Deliveries |-> IF d \in back THEN None ELSE lease[d]]
    /\ claim' = [claim EXCEPT ![w] = [d \in Deliveries |-> IF d \in queued THEN NoClaim ELSE @[d]]]
    /\ UNCHANGED <<notification, cancelling, answer, attempt, renewing, accepted, late, renewals>>

-----------------------------------------------------------------------------
(* The notification: its cancellation, its expiry and the purge loop *)

\* the caller's cancel locks the notification and reads the deliveries ...
BeginCancel ==
    /\ cancelling = None
    /\ cancelling' = [active  |-> \E d \in Deliveries : delivery[d].status \notin Terminal,
                      sending |-> \E d \in Deliveries : delivery[d].status = "SENDING"]
    /\ UNCHANGED <<notification, answer, delivery, attempt, lease, claim, renewing, accepted, late,
                   faults, renewals>>

\* ... then cancels the pending ones, commits and answers
CommitCancel ==
    /\ cancelling # None
    /\ cancelled' = (cancelled \/ cancelling.active)
    /\ delivery' = [d \in Deliveries |-> IF delivery[d].status = "PENDING"
                      THEN [delivery[d] EXCEPT !.status = "CANCELLED"] ELSE delivery[d]]
    /\ answer' = IF cancelling.sending THEN "delivery_in_progress" ELSE "ok"
    /\ cancelling' = None
    /\ UNCHANGED <<secret, expiry, attempt, lease, claim, renewing, accepted, late, faults, renewals>>

Elapse ==
    /\ expiry = "ahead"
    /\ expiry' = "passed"
    /\ UNCHANGED <<secret, cancel, delivery, attempt, lease, claim, renewing, accepted, late,
                   faults, renewals>>

PurgeOnce_ ==
    /\ cancelling = None
    /\ secret = "sealed"
    /\ expiry = "passed"
    /\ secret' = "purged"
    /\ UNCHANGED <<expiry, cancel, delivery, attempt, lease, claim, renewing, accepted, late,
                   faults, renewals>>

PurgeOnce ==
    /\ cancelling = None
    /\ secret = "sealed"
    /\ expiry = "passed" \/ \A d \in Deliveries : delivery[d].status \in Terminal
    /\ secret' = "purged"
    /\ UNCHANGED <<expiry, cancel, delivery, attempt, lease, claim, renewing, accepted, late,
                   faults, renewals>>

-----------------------------------------------------------------------------

ClaimStep(w, d) ==
    ReadContext(w, d) \/ Withdraw(w, d) \/ Expire(w, d) \/ StartAttempt(w, d)
    \/ CallProvider(w, d) \/ Finish(w, d)

Next ==
    \/ \E d \in Deliveries : Recover(d) \/ LeaseEnds(d)
    \/ \E w \in Workers : Claim(w) \/ RenewQueued(w) \/ Renewed(w) \/ CrashWorker(w) \/ Release(w)
    \/ \E w \in Workers, d \in Deliveries : ClaimStep(w, d) \/ FailUnsent(w, d) \/ Abandon(w, d)
    \/ BeginCancel \/ CommitCancel \/ Elapse \/ PurgeOnce

Spec == Init /\ [][Next]_vars

\* The poll loops run again after every pass, a pass goes through its claims,
\* the provider call is bounded by a timer, a lease nobody renews ends, and a
\* cancel that holds the notification commits.  Cancels may come again and again:
\* who waits for the notification's lock gets it in turn, and the purge loop,
\* which skips a locked one, comes back.
Fairness ==
    /\ \A d \in Deliveries : SF_vars(Recover(d)) /\ WF_vars(LeaseEnds(d) /\ Abandoned(d))
    /\ \A w \in Workers : WF_vars(Claim(w)) /\ WF_vars(Renewed(w))
    /\ \A w \in Workers, d \in Deliveries : SF_vars(ClaimStep(w, d))
    /\ WF_vars(CommitCancel) /\ SF_vars(PurgeOnce)

FairSpec == Spec /\ Fairness

-----------------------------------------------------------------------------
(* Properties *)

\* What the provider accepted: one message, or two when a one-time code was sent
\* again after one lost answer, whatever a worker that lost its lease still does
\* (SDD 8.5: an alert is never duplicated on a guess); and no acceptance without
\* an attempt that shows it, so recovery never takes a sent message for unsent.
SentOnce ==
    \A d \in Deliveries :
       /\ accepted[d] <= 1 + delivery[d].resends
       /\ delivery[d].resends = 1 => secret # "none"
       /\ accepted[d] <= Cardinality({n \in DOMAIN attempt[d] :
                                        attempt[d][n] \in {"STARTED", "ACCEPTED", "AMBIGUOUS"}})

\* The row and its attempts tell one story: at most one attempt is open, only
\* while the delivery is being sent; it is SENT exactly on an accepted answer
\* to its last attempt; the budget holds, and the resend is beside it.
EvidenceAgrees ==
    \A d \in Deliveries :
       LET row == delivery[d]  tries == attempt[d] IN
       /\ Started(d) \subseteq {Len(tries)}
       /\ Started(d) # {} => row.status = "SENDING"
       /\ row.status = "SENT" <=> \E n \in DOMAIN tries : tries[n] = "ACCEPTED"
       /\ \A n \in DOMAIN tries : tries[n] = "ACCEPTED" => n = Len(tries)
       /\ Len(tries) <= MaxAttempts + row.resends

\* After a cancellation each delivery is attempted at most once more: by the
\* claim that had read the notification before (SDD 9.3).
CancelStops == \A d \in Deliveries : late[d] <= 1

\* A code is purged when it can no longer be sent and not before: the worker that
\* ends the last delivery purges it, and only a cancel leaves that to the loop.
SecretLifetime ==
    LET ended == \A d \in Deliveries : delivery[d].status \in Terminal IN
    /\ secret = "purged" => ended \/ expiry = "passed"
    /\ ended /\ secret = "sealed" => \E d \in Deliveries : delivery[d].status = "CANCELLED"

\* Every delivery ends, whatever is lost on the way: a claim nobody works on is
\* recovered, and the attempts and the resend run out.
EveryDeliveryEnds == \A d \in Deliveries : <>(delivery[d].status \in Terminal)

\* No one-time code stays sealed for ever (SDD 12.1).
SecretIsPurged == <>(secret # "sealed")

\* A cancel that finds a delivery on its way says so: "the cancel reports 409
\* delivery_in_progress" (docs/sdd/notification-service.md:659).
CancelReportsProgress ==
    [][ cancelling # None /\ cancelling' = None /\ answer' = "ok"
        => \A d \in Deliveries : delivery'[d].status # "SENDING" ]_vars
=============================================================================
