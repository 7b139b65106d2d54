---------------------------- MODULE EventDelivery ----------------------------
(***************************************************************************)
(* service-kit: an event goes from the producer's outbox, through the      *)
(* relay and RabbitMQ, to the handler of one enforced subscription (its    *)
(* work queue, its .retry delay queue and its .dead letter queue).         *)
(*                                                                         *)
(* Abstractions.  A message is its event, the path the broker delivers it  *)
(* by ("original": the event exchange; "copy": the default exchange, so a  *)
(* retry or a replay) and its retry count; queues are bags, as the code    *)
(* relies on no order.  Back-off and delays are abstracted: a waiting step *)
(* may come at any time.  A step that goes wrong counts against            *)
(* MaxDisturbances, so a behaviour has finitely many.  Definitions named   *)
(* with a final _ are mutants: a bug the properties must notice.           *)
(***************************************************************************)
EXTENDS Integers, FiniteSets

CONSTANTS
    Events,           \* the ids of the events producers record
    Verified,         \* those published by the broker user that owns their name
    Relays,           \* relay passes, one per instance of the producer
    Workers,          \* deliveries in hand at once: prefetch, over all consumer instances
    MaxRetries,       \* retry.maxRetries
    MaxDisturbances,  \* how many steps of a behaviour may go wrong
    Idle              \* a worker with no delivery

ASSUME ConstantsAssumption ==
    /\ Verified \subseteq Events
    /\ MaxRetries \in Nat
    /\ MaxDisturbances \in Nat

VARIABLES
    outbox,      \* outbox rows: publishedAt of each event
    relay,       \* each relay's open transaction: rows locked, still to try, stamped
    bound,       \* the work queue is declared and bound to the exchange
    dropped,     \* history: events the exchange accepted with no queue bound
    work,        \* how many of each message are ready in the work queue
    retry,       \* the same, of the retry queue
    dead,        \* the same, of the dead-letter queue, with their failure class
    worker,      \* each delivery in hand
    provenance,  \* events with a verified observation in event_provenance
    effect,      \* how often the handler's effect for an event was committed
    disturbed    \* how many steps went wrong so far

queues   == <<work, retry, dead>>
producer == <<outbox, relay, bound, dropped>>
consumer == <<worker, provenance, effect>>
vars == <<producer, queues, consumer, disturbed>>

-----------------------------------------------------------------------------
(* Messages *)

Message == [event : Events, path : {"original", "copy"}, retries : 0..MaxRetries]
DeadLetter == [event : Events, retries : 0..MaxRetries,
               failure : {"permanent", "retries_exhausted"}]

Original(e) == [event |-> e, path |-> "original", retries |-> 0]
Copy(e, n)  == [event |-> e, path |-> "copy", retries |-> n]

Add(bag, m)    == [bag EXCEPT ![m] = @ + 1]
Remove(bag, m) == [bag EXCEPT ![m] = @ - 1]

\* A delivery in hand: waiting for its trust decision, for its handler, for a retry
\* copy, for a dead-letter copy, or to be acknowledged; `lost' once its channel is gone,
\* when the broker has the message again and no acknowledgement can reach it.
Delivery == [pc : {"trust", "handle", "failed", "dead", "ack"}, message : Message,
             failure : {"permanent", "retries_exhausted"}, lost : BOOLEAN]
ASSUME IdleAssumption == Idle \notin Delivery

Transaction == [locked : SUBSET Events, todo : SUBSET Events, stamped : SUBSET Events]
NoTransaction == [locked |-> {}, todo |-> {}, stamped |-> {}]

\* Every row, message and delivery has the shape its table or type gives it.
TypeOK ==
    /\ outbox \in [Events -> {"none", "pending", "published"}]
    /\ relay \in [Relays -> Transaction]
    /\ bound \in BOOLEAN
    /\ dropped \subseteq Events
    /\ work \in [Message -> Nat]
    /\ retry \in [Message -> Nat]
    /\ dead \in [DeadLetter -> Nat]
    /\ worker \in [Workers -> Delivery \cup {Idle}]
    /\ provenance \subseteq Events
    /\ effect \in [Events -> Nat]
    /\ disturbed \in 0..MaxDisturbances

Init ==
    /\ outbox = [e \in Events |-> "none"]
    /\ relay = [r \in Relays |-> NoTransaction]
    /\ bound = FALSE
    /\ dropped = {}
    /\ work = [m \in Message |-> 0]
    /\ retry = [m \in Message |-> 0]
    /\ dead = [d \in DeadLetter |-> 0]
    /\ worker = [w \in Workers |-> Idle]
    /\ provenance = {}
    /\ effect = [e \in Events |-> 0]
    /\ disturbed = 0

Disturb == disturbed < MaxDisturbances /\ disturbed' = disturbed + 1

-----------------------------------------------------------------------------
(* The producer: outbox and relay *)

\* enqueue commits with the business change that causes the event
Enqueue(e) ==
    /\ outbox[e] = "none"
    /\ outbox' = [outbox EXCEPT ![e] = "pending"]
    /\ UNCHANGED <<relay, bound, dropped, queues, consumer, disturbed>>

\* the topic exchange routes to the bound queue, and silently drops when there is none
Route(e) ==
    IF bound THEN work' = Add(work, Original(e)) /\ UNCHANGED dropped
             ELSE dropped' = dropped \cup {e} /\ UNCHANGED work

\* drainOnce opens its transaction: pending rows no other relay holds (SKIP LOCKED)
Claim(r, batch) ==
    /\ relay[r] = NoTransaction
    /\ batch # {}
    /\ \A e \in batch : outbox[e] = "pending" /\ \A s \in Relays : e \notin relay[s].locked
    /\ relay' = [relay EXCEPT ![r] = [locked |-> batch, todo |-> batch, stamped |-> {}]]
    /\ UNCHANGED <<outbox, bound, dropped, queues, consumer, disturbed>>

PublishConfirmed(r, e) ==
    /\ e \in relay[r].todo
    /\ relay' = [relay EXCEPT ![r].todo = @ \ {e}, ![r].stamped = @ \cup {e}]
    /\ Route(e)
    /\ UNCHANGED <<outbox, bound, retry, dead, consumer, disturbed>>

\* a failed publish backs its row off and ends the batch
Unconfirmed(r, e) == [relay EXCEPT ![r].todo = {}]

\* the confirm does not come: the broker stored the message or did not
PublishUnconfirmed(r, e, stored) ==
    /\ e \in relay[r].todo
    /\ Disturb
    /\ relay' = Unconfirmed(r, e)
    /\ IF stored THEN Route(e) ELSE UNCHANGED <<work, dropped>>
    /\ UNCHANGED <<outbox, bound, retry, dead, consumer>>

Stamped(r) == relay[r].stamped

CommitBatch(r) ==
    /\ relay[r].locked # {}
    /\ relay[r].todo = {}
    /\ outbox' = [e \in Events |-> IF e \in Stamped(r) THEN "published" ELSE outbox[e]]
    /\ relay' = [relay EXCEPT ![r] = NoTransaction]
    /\ UNCHANGED <<bound, dropped, queues, consumer, disturbed>>

\* the relay or its database connection is gone: every stamp is rolled back
LoseBatch(r) ==
    /\ relay[r].locked # {}
    /\ Disturb
    /\ relay' = [relay EXCEPT ![r] = NoTransaction]
    /\ UNCHANGED <<outbox, bound, dropped, queues, consumer>>

\* an operator re-emits a published event: `mandatory', so never dropped in silence
Reemit(e) ==
    /\ outbox[e] = "published"
    /\ bound
    /\ Disturb
    /\ work' = Add(work, Original(e))
    /\ UNCHANGED <<producer, retry, dead, consumer>>

-----------------------------------------------------------------------------
(* The consumer *)

\* attach declares and binds the queues, which are durable
Attach ==
    /\ ~bound
    /\ bound' = TRUE
    /\ UNCHANGED <<outbox, relay, dropped, queues, consumer, disturbed>>

Deliver(w, m) ==
    /\ worker[w] = Idle
    /\ work[m] > 0
    /\ work' = Remove(work, m)
    /\ worker' = [worker EXCEPT ![w] = [pc |-> "trust", message |-> m, lost |-> FALSE,
                                        failure |-> "retries_exhausted"]]
    /\ UNCHANGED <<producer, retry, dead, provenance, effect, disturbed>>

At(w, pc) == worker[w] # Idle /\ worker[w].pc = pc
Move(w, pc) == worker' = [worker EXCEPT ![w].pc = pc]
EventOf(w) == worker[w].message.event

\* the reason of the failure where its class belongs
FailPermanently_(w) ==
    worker' = [worker EXCEPT ![w] = [pc |-> "dead", failure |-> "untrusted_unknown_path",
                                     message |-> @.message, lost |-> @.lost]]
\* a permanent failure is dead-lettered without a retry
FailPermanently(w) ==
    worker' = [worker EXCEPT ![w] = [pc |-> "dead", failure |-> "permanent",
                                     message |-> @.message, lost |-> @.lost]]

\* an original is trusted when it is verified, a copy when its original was
Trusted(m) == m.event \in (IF m.path = "original" THEN Verified ELSE provenance)

\* the observation is committed before the handler runs
Trust(w) ==
    /\ At(w, "trust")
    /\ Trusted(worker[w].message)
    /\ Move(w, "handle")
    /\ provenance' = provenance \cup {EventOf(w)}
    /\ UNCHANGED <<producer, queues, effect, disturbed>>

\* untrusted: a permanent failure, before the handler
Refuse(w) ==
    /\ At(w, "trust")
    /\ ~Trusted(worker[w].message)
    /\ FailPermanently(w)
    /\ UNCHANGED <<producer, queues, provenance, effect, disturbed>>

\* nack with requeue, which a lost channel does not carry
Requeue(w) ==
    /\ work' = IF worker[w].lost THEN work ELSE Add(work, worker[w].message)
    /\ worker' = [worker EXCEPT ![w] = Idle]

Hold_(w) ==
    /\ At(w, "trust")
    /\ Disturb
    /\ Move(w, "failed")
    /\ UNCHANGED <<producer, queues, provenance, effect>>

\* the provenance store or the replay lookup does not answer: held, then requeued
Hold(w) ==
    /\ At(w, "trust")
    /\ Disturb
    /\ Requeue(w)
    /\ UNCHANGED <<producer, retry, dead, provenance, effect>>

Commit_(e) == effect' = [effect EXCEPT ![e] = @ + 1]
\* the handler's transaction: a receipt of the event means its effect is there already
Commit(e) == effect' = [effect EXCEPT ![e] = IF @ = 0 THEN 1 ELSE @]

Handle(w) ==
    /\ At(w, "handle")
    /\ Commit(EventOf(w))
    /\ Move(w, "ack")
    /\ UNCHANGED <<producer, queues, provenance, disturbed>>

\* the handler throws: PermanentEventFailure, or any other error, which rolled its
\* transaction back or lost the answer of its commit
HandlerFails(w, permanent, committed) ==
    /\ At(w, "handle")
    /\ committed => ~permanent
    /\ IF committed THEN Disturb /\ Commit(EventOf(w)) ELSE UNCHANGED <<effect, disturbed>>
    /\ IF permanent THEN FailPermanently(w) ELSE Move(w, "failed")
    /\ UNCHANGED <<producer, queues, provenance>>

MayRetry(w) == worker[w].message.retries < MaxRetries

RetryCopy_(w) == Copy(EventOf(w), worker[w].message.retries)
RetryCopy(w) == Copy(EventOf(w), worker[w].message.retries + 1)

\* a confirmed copy in the retry queue: only then is the original acknowledged
ScheduleRetry(w) ==
    /\ At(w, "failed")
    /\ MayRetry(w)
    /\ retry' = Add(retry, RetryCopy(w))
    /\ Move(w, "ack")
    /\ UNCHANGED <<producer, work, dead, provenance, effect, disturbed>>

RetryUnconfirmed_(w, stored) ==
    /\ At(w, "failed")
    /\ MayRetry(w)
    /\ Disturb
    /\ retry' = IF stored THEN Add(retry, RetryCopy(w)) ELSE retry
    /\ Move(w, "ack")
    /\ UNCHANGED <<producer, work, dead, provenance, effect>>

\* the copy is not confirmed, stored or not: the delivery goes on to its dead letter
RetryUnconfirmed(w, stored) ==
    /\ At(w, "failed")
    /\ MayRetry(w)
    /\ Disturb
    /\ retry' = IF stored THEN Add(retry, RetryCopy(w)) ELSE retry
    /\ Move(w, "dead")
    /\ UNCHANGED <<producer, work, dead, provenance, effect>>

EndRetries(w) ==
    /\ At(w, "failed")
    /\ ~MayRetry(w)
    /\ Move(w, "dead")
    /\ UNCHANGED <<producer, queues, provenance, effect, disturbed>>

DeadLetterOf(w) == [event |-> EventOf(w), retries |-> worker[w].message.retries,
                    failure |-> worker[w].failure]

\* a confirmed copy in the dead-letter queue: only then is the original acknowledged
KeepDeadLetter(w) ==
    /\ At(w, "dead")
    /\ dead' = Add(dead, DeadLetterOf(w))
    /\ Move(w, "ack")
    /\ UNCHANGED <<producer, work, retry, provenance, effect, disturbed>>

Deferred_(w) == worker' = [worker EXCEPT ![w] = Idle] /\ UNCHANGED work
Deferred(w) == Requeue(w)

DeadLetterUnconfirmed(w, stored) ==
    /\ At(w, "dead")
    /\ Disturb
    /\ dead' = IF stored THEN Add(dead, DeadLetterOf(w)) ELSE dead
    /\ Deferred(w)
    /\ UNCHANGED <<producer, retry, provenance, effect>>

\* ack: the message is gone, unless the channel was lost and the broker has it again
Settle(w) ==
    /\ At(w, "ack")
    /\ worker' = [worker EXCEPT ![w] = Idle]
    /\ UNCHANGED <<producer, queues, provenance, effect, disturbed>>

\* the channel is lost while the delivery is in hand: the handler runs on
LoseChannel(w) ==
    /\ worker[w] # Idle
    /\ ~worker[w].lost
    /\ Disturb
    /\ work' = Add(work, worker[w].message)
    /\ worker' = [worker EXCEPT ![w].lost = TRUE]
    /\ UNCHANGED <<producer, retry, dead, provenance, effect>>

\* the consumer process stops: what it has not acknowledged is redelivered
StopWorker(w) ==
    /\ worker[w] # Idle
    /\ Disturb
    /\ Requeue(w)
    /\ UNCHANGED <<producer, retry, dead, provenance, effect>>

-----------------------------------------------------------------------------
(* The broker and the operator *)

\* a retry copy's delay ends: the broker moves it back to the work queue
EndDelay(m) ==
    /\ retry[m] > 0
    /\ retry' = Remove(retry, m)
    /\ work' = Add(work, m)
    /\ UNCHANGED <<producer, dead, consumer, disturbed>>

\* replayDeadLetter: a confirmed copy with a fresh retry budget, then the ack of the
\* dead letter, which a crash in between leaves in its queue
ReplayDeadLetter(d, acked) ==
    /\ dead[d] > 0
    /\ Disturb
    /\ work' = Add(work, Copy(d.event, 0))
    /\ dead' = IF acked THEN Remove(dead, d) ELSE dead
    /\ UNCHANGED <<producer, retry, consumer>>

RelayStep(r) ==
    \/ \E batch \in SUBSET Events : Claim(r, batch)
    \/ \E e \in Events : PublishConfirmed(r, e)
    \/ CommitBatch(r)

WorkerStep(w) ==
    \/ \E m \in Message : Deliver(w, m)
    \/ Trust(w) \/ Refuse(w) \/ Handle(w)
    \/ ScheduleRetry(w) \/ EndRetries(w) \/ KeepDeadLetter(w) \/ Settle(w)

Fault ==
    \/ \E r \in Relays : \/ \E e \in Events, stored \in BOOLEAN : PublishUnconfirmed(r, e, stored)
                         \/ LoseBatch(r)
    \/ \E w \in Workers : \/ Hold(w) \/ LoseChannel(w) \/ StopWorker(w)
                          \/ \E stored \in BOOLEAN : \/ RetryUnconfirmed(w, stored)
                                                     \/ DeadLetterUnconfirmed(w, stored)

Operate ==
    \/ \E e \in Events : Reemit(e)
    \/ \E d \in DeadLetter, acked \in BOOLEAN : ReplayDeadLetter(d, acked)

Next ==
    \/ \E e \in Events : Enqueue(e)
    \/ Attach
    \/ \E r \in Relays : RelayStep(r)
    \/ \E w \in Workers : \/ WorkerStep(w)
                          \/ \E permanent, committed \in BOOLEAN : HandlerFails(w, permanent, committed)
    \/ \E m \in Message : EndDelay(m)
    \/ Fault
    \/ Operate

Spec == Init /\ [][Next]_vars

\* Every poll loop runs again, the broker answers in the end, a delay ends and a handler
\* returns; when and whether an event is recorded, a consumer attaches or a fault
\* strikes is not promised.
Fairness ==
    /\ \A r \in Relays : WF_vars(RelayStep(r))
    /\ \A w \in Workers : WF_vars(WorkerStep(w))
    /\ \A m \in Message : WF_vars(EndDelay(m))

FairSpec == Spec /\ Fairness

-----------------------------------------------------------------------------
(* Properties *)

InHand(e) == \E w \in Workers : /\ worker[w] # Idle
                                /\ worker[w].pc # "ack"
                                /\ ~worker[w].lost
                                /\ EventOf(w) = e

\* somebody still has the event, or its effect is there
Accounted(e) ==
    \/ effect[e] > 0
    \/ \E m \in Message : m.event = e /\ (work[m] > 0 \/ retry[m] > 0)
    \/ \E d \in DeadLetter : d.event = e /\ dead[d] > 0
    \/ InHand(e)

\* An event the relay stamped as published, or is about to, is never lost: its effect is
\* committed, or a queue or an unsettled delivery has it, whatever is lost, repeated or
\* unconfirmed on the way; unless no queue was bound when it was published.
\* (outbox-relay.ts drainOnce, rabbitmq-event-bus.ts onFailure, service-kit README "never loses")
NeverLost ==
    \A e \in Events :
        outbox[e] = "published" \/ (\E r \in Relays : e \in relay[r].stamped)
            => Accounted(e) \/ e \in dropped

\* No message leaves the broker before its event is accounted for: a delivery about to be
\* acknowledged has its effect committed or its copy stored.
\* (rabbitmq-event-bus.ts deliver and onFailure: the copy is confirmed before the ack)
AckedIsAccounted ==
    \A w \in Workers : At(w, "ack") => Accounted(EventOf(w))

\* The original of a verified event is observed before any copy of it exists, so none of
\* its retries and replays can be refused.
\* (rabbitmq-event-bus.ts trustDecision and the hold of a delivery whose provenance fails)
CopiesAreTrusted ==
    \A e \in Verified \ provenance :
        /\ \A m \in Message : m.event = e => /\ retry[m] = 0
                                             /\ m.path = "copy" => work[m] = 0
        /\ \A d \in DeadLetter : d.event = e => dead[d] = 0
        /\ \A w \in Workers : worker[w] # Idle /\ EventOf(w) = e =>
               worker[w].pc = "trust" /\ worker[w].message.path = "original"

\* However often an event is published, redelivered, retried, replayed or handled by a
\* consumer that lost its channel, its effect is committed at most once, and only for a
\* recorded event whose verified original the consumer observed.
\* (inbox.service.ts handle, trust.ts decideOriginal and decideReplayTrust)
EffectOnce ==
    \A e \in Events :
        effect[e] <= (IF outbox[e] # "none" /\ e \in provenance \cap Verified THEN 1 ELSE 0)

\* An event recorded while the queue is bound ends: its effect is committed, or an
\* operator finds it in the dead-letter queue.
\* (OutboxRelay's poll loop, the retry queue and the dead-letter queue together)
EventEnds ==
    \A e \in Events :
        outbox[e] # "none" ~> \/ effect[e] > 0 \/ e \in dropped
                              \/ \E d \in DeadLetter : d.event = e /\ dead[d] > 0
=============================================================================
