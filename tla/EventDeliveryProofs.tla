------------------------- MODULE EventDeliveryProofs -------------------------
(***************************************************************************)
(* Proofs about EventDelivery, for any events, relays and workers and any  *)
(* number of retries and faults.  The heart is AccountedIsKept: no step,   *)
(* faulty or not, loses an event that is accounted for; nor does one take  *)
(* back what was published, observed or committed (HistoryStays).          *)
(***************************************************************************)
EXTENDS EventDelivery, TLAPS

\* the steps of Next, grouped as the proofs take them
ProducerStep ==
    \/ Attach
    \/ \E e \in Events : Enqueue(e) \/ Reemit(e)
    \/ \E r \in Relays : \/ RelayStep(r) \/ LoseBatch(r)
                         \/ \E e \in Events, stored \in BOOLEAN : PublishUnconfirmed(r, e, stored)

BrokerStep ==
    \/ \E m \in Message : EndDelay(m)
    \/ \E d \in DeadLetter, acked \in BOOLEAN : ReplayDeadLetter(d, acked)

DeliveryStep ==
    \E w \in Workers :
        \/ WorkerStep(w) \/ Hold(w) \/ LoseChannel(w) \/ StopWorker(w)
        \/ \E permanent, committed \in BOOLEAN : HandlerFails(w, permanent, committed)
        \/ \E stored \in BOOLEAN : RetryUnconfirmed(w, stored) \/ DeadLetterUnconfirmed(w, stored)

LEMMA Steps == Next <=> ProducerStep \/ BrokerStep \/ DeliveryStep
BY DEF Next, Fault, Operate, ProducerStep, BrokerStep, DeliveryStep

LEMMA AddToBag ==
    ASSUME NEW S, NEW bag \in [S -> Nat], NEW m \in S
    PROVE  /\ Add(bag, m) \in [S -> Nat]
           /\ Add(bag, m)[m] = bag[m] + 1
           /\ \A x \in S : Add(bag, m)[x] >= bag[x]
           /\ \A x \in S : x # m => Add(bag, m)[x] = bag[x]
BY DEF Add

LEMMA RemoveFromBag ==
    ASSUME NEW S, NEW bag \in [S -> Nat], NEW m \in S, bag[m] > 0
    PROVE  /\ Remove(bag, m) \in [S -> Nat]
           /\ \A x \in S : x # m => Remove(bag, m)[x] = bag[x]
BY DEF Remove

LEMMA Copies ==
    ASSUME NEW e \in Events
    PROVE  /\ Original(e) \in Message /\ Original(e).event = e /\ Original(e).path = "original"
           /\ \A n \in 0..MaxRetries : /\ Copy(e, n) \in Message /\ Copy(e, n).event = e
                                       /\ Copy(e, n).path = "copy"
BY ConstantsAssumption DEF Original, Copy, Message

\* a delivery in hand
LEMMA InHandType ==
    ASSUME TypeOK, NEW w \in Workers, worker[w] # Idle
    PROVE  /\ worker[w] \in Delivery
           /\ worker[w].message \in Message
           /\ worker[w].message.retries \in 0..MaxRetries
           /\ EventOf(w) \in Events
           /\ worker[w].lost \in BOOLEAN
           /\ DeadLetterOf(w) \in DeadLetter
           /\ DeadLetterOf(w).event = EventOf(w)
           /\ MayRetry(w) => RetryCopy(w) \in Message /\ RetryCopy(w).event = EventOf(w)
                             /\ RetryCopy(w).path = "copy"
<1>1. worker[w] \in Delivery
  BY DEF TypeOK
<1>2. /\ worker[w].message \in Message
      /\ worker[w].lost \in BOOLEAN
      /\ worker[w].failure \in {"permanent", "retries_exhausted"}
  BY <1>1 DEF Delivery
<1>3. worker[w].message.retries \in 0..MaxRetries /\ EventOf(w) \in Events
  BY <1>2 DEF Message, EventOf
<1>4. DeadLetterOf(w) \in DeadLetter /\ DeadLetterOf(w).event = EventOf(w)
  BY <1>2, <1>3 DEF DeadLetterOf, DeadLetter
<1>5. ASSUME MayRetry(w)
      PROVE  RetryCopy(w) \in Message /\ RetryCopy(w).event = EventOf(w) /\ RetryCopy(w).path = "copy"
  <2>1. worker[w].message.retries + 1 \in 0..MaxRetries
    BY <1>3, <1>5, ConstantsAssumption DEF MayRetry
  <2> QED BY <1>3, <2>1, Copies DEF RetryCopy
<1> QED BY <1>1, <1>2, <1>3, <1>4, <1>5

\* what a worker's step does to its own delivery and to the others
LEMMA MoveType ==
    ASSUME TypeOK, NEW w \in Workers, worker[w] # Idle,
           NEW pc \in {"trust", "handle", "failed", "dead", "ack"}, Move(w, pc)
    PROVE  /\ worker' \in [Workers -> Delivery \cup {Idle}]
           /\ worker'[w] = [worker[w] EXCEPT !.pc = pc]
           /\ worker'[w].pc = pc /\ worker'[w].message = worker[w].message
           /\ worker'[w].lost = worker[w].lost
           /\ worker'[w] # Idle
           /\ \A x \in Workers \ {w} : worker'[x] = worker[x]
<1>1. worker[w] \in Delivery
  BY InHandType
<1>2. [worker[w] EXCEPT !.pc = pc] \in Delivery
  BY <1>1 DEF Delivery
<1>3. worker'[w] = [worker[w] EXCEPT !.pc = pc]
  BY DEF Move, TypeOK
<1>4. /\ worker'[w].pc = pc /\ worker'[w].message = worker[w].message
      /\ worker'[w].lost = worker[w].lost
  BY <1>1, <1>3 DEF Delivery
<1> QED BY <1>2, <1>3, <1>4, IdleAssumption DEF Move, TypeOK

LEMMA RequeueType ==
    ASSUME TypeOK, NEW w \in Workers, worker[w] # Idle, Requeue(w)
    PROVE  /\ worker' \in [Workers -> Delivery \cup {Idle}]
           /\ work' \in [Message -> Nat]
           /\ worker'[w] = Idle
           /\ \A x \in Workers \ {w} : worker'[x] = worker[x]
           /\ \A m \in Message : work'[m] >= work[m]
           /\ ~worker[w].lost => work'[worker[w].message] > 0
           /\ \A m \in Message : m # worker[w].message => work'[m] = work[m]
<1>1. worker[w].message \in Message
  BY InHandType
<1>2. /\ Add(work, worker[w].message) \in [Message -> Nat]
      /\ Add(work, worker[w].message)[worker[w].message] > 0
      /\ \A m \in Message : Add(work, worker[w].message)[m] >= work[m]
      /\ \A m \in Message : m # worker[w].message => Add(work, worker[w].message)[m] = work[m]
  BY <1>1, AddToBag DEF TypeOK
<1> QED BY <1>2 DEF Requeue, TypeOK

-----------------------------------------------------------------------------
(* Type correctness *)

LEMMA RouteType ==
    ASSUME TypeOK, NEW e \in Events, Route(e)
    PROVE  /\ work' \in [Message -> Nat]
           /\ dropped' \subseteq Events
           /\ \A m \in Message : work'[m] >= work[m]
           /\ \A m \in Message : m # Original(e) => work'[m] = work[m]
           /\ (e \in dropped' \/ work'[Original(e)] > 0) /\ dropped \subseteq dropped'
<1>1. Original(e) \in Message
  BY Copies
<1>2. /\ Add(work, Original(e)) \in [Message -> Nat]
      /\ Add(work, Original(e))[Original(e)] > 0
      /\ \A m \in Message : Add(work, Original(e))[m] >= work[m]
      /\ \A m \in Message : m # Original(e) => Add(work, Original(e))[m] = work[m]
  BY <1>1, AddToBag DEF TypeOK
<1> QED BY <1>2 DEF Route, TypeOK

LEMMA DisturbType ==
    ASSUME TypeOK, Disturb
    PROVE  disturbed' \in 0..MaxDisturbances
BY ConstantsAssumption DEF Disturb, TypeOK

LEMMA CommitType ==
    ASSUME TypeOK, NEW e \in Events, Commit(e)
    PROVE  /\ effect' \in [Events -> Nat]
           /\ effect'[e] > 0
           /\ effect[e] <= 1 => effect'[e] <= 1
           /\ \A x \in Events \ {e} : effect'[x] = effect[x]
BY DEF Commit, TypeOK

LEMMA ProducerType ==
    ASSUME TypeOK, ProducerStep
    PROVE  TypeOK'
<1>1. \A r \in Relays : relay[r] \in Transaction
  BY DEF TypeOK
<1>2. NoTransaction \in Transaction
  BY DEF NoTransaction, Transaction
<1>3. ASSUME NEW e \in Events, Enqueue(e)
      PROVE  TypeOK'
  BY <1>3 DEF Enqueue, TypeOK, queues, consumer
<1>4. ASSUME Attach
      PROVE  TypeOK'
  BY <1>4 DEF Attach, TypeOK, queues, consumer
<1>5. ASSUME NEW e \in Events, Reemit(e)
      PROVE  TypeOK'
  <2>1. work' \in [Message -> Nat]
    BY <1>5, Copies, AddToBag DEF Reemit, TypeOK
  <2> QED BY <1>5, <2>1, DisturbType DEF Reemit, TypeOK, producer, consumer
<1>6. ASSUME NEW r \in Relays, NEW batch \in SUBSET Events, Claim(r, batch)
      PROVE  TypeOK'
  BY <1>6 DEF Claim, TypeOK, Transaction, queues, consumer
<1>7. ASSUME NEW r \in Relays, NEW e \in Events, PublishConfirmed(r, e)
      PROVE  TypeOK'
  <2>1. relay' \in [Relays -> Transaction]
    BY <1>1, <1>7 DEF PublishConfirmed, TypeOK, Transaction
  <2> QED BY <1>7, <2>1, RouteType DEF PublishConfirmed, TypeOK, consumer
<1>8. ASSUME NEW r \in Relays, CommitBatch(r)
      PROVE  TypeOK'
  BY <1>2, <1>8 DEF CommitBatch, Stamped, TypeOK, queues, consumer
<1>9. ASSUME NEW r \in Relays, NEW e \in Events, NEW stored \in BOOLEAN, PublishUnconfirmed(r, e, stored)
      PROVE  TypeOK'
  <2>1. relay' \in [Relays -> Transaction]
    BY <1>1, <1>9 DEF PublishUnconfirmed, Unconfirmed, TypeOK, Transaction
  <2>2. work' \in [Message -> Nat] /\ dropped' \subseteq Events
    BY <1>9, RouteType DEF PublishUnconfirmed, TypeOK
  <2> QED BY <1>9, <2>1, <2>2, DisturbType DEF PublishUnconfirmed, TypeOK, consumer
<1>10. ASSUME NEW r \in Relays, LoseBatch(r)
       PROVE  TypeOK'
  BY <1>2, <1>10, DisturbType DEF LoseBatch, TypeOK, queues, consumer
<1> QED BY <1>3, <1>4, <1>5, <1>6, <1>7, <1>8, <1>9, <1>10 DEF ProducerStep, RelayStep

LEMMA BrokerType ==
    ASSUME TypeOK, BrokerStep
    PROVE  TypeOK'
<1>1. ASSUME NEW m \in Message, EndDelay(m)
      PROVE  TypeOK'
  <2>1. retry' \in [Message -> Nat] /\ work' \in [Message -> Nat]
    BY <1>1, AddToBag, RemoveFromBag DEF EndDelay, TypeOK
  <2> QED BY <1>1, <2>1 DEF EndDelay, TypeOK, producer, consumer
<1>2. ASSUME NEW d \in DeadLetter, NEW acked \in BOOLEAN, ReplayDeadLetter(d, acked)
      PROVE  TypeOK'
  <2>1. Copy(d.event, 0) \in Message
    BY Copies, ConstantsAssumption DEF DeadLetter
  <2>2. work' \in [Message -> Nat]
    BY <1>2, <2>1, AddToBag DEF ReplayDeadLetter, TypeOK
  <2>3. dead' \in [DeadLetter -> Nat]
    BY <1>2, RemoveFromBag DEF ReplayDeadLetter, TypeOK
  <2> QED BY <1>2, <2>2, <2>3, DisturbType DEF ReplayDeadLetter, TypeOK, producer, consumer
<1> QED BY <1>1, <1>2 DEF BrokerStep

LEMMA FailureType ==
    ASSUME TypeOK, NEW w \in Workers, worker[w] # Idle, FailPermanently(w)
    PROVE  /\ worker' \in [Workers -> Delivery \cup {Idle}]
           /\ worker'[w] # Idle
           /\ worker'[w].pc = "dead"
           /\ worker'[w].message = worker[w].message
           /\ worker'[w].lost = worker[w].lost
           /\ \A x \in Workers \ {w} : worker'[x] = worker[x]
<1> DEFINE d == [pc |-> "dead", failure |-> "permanent", message |-> worker[w].message, lost |-> worker[w].lost]
<1>1. d \in Delivery
  BY InHandType DEF Delivery
<1>2. worker' = [worker EXCEPT ![w] = d]
  BY DEF FailPermanently
<1>3. worker'[w] = d
  BY <1>2 DEF TypeOK
<1>4. d.pc = "dead" /\ d.message = worker[w].message /\ d.lost = worker[w].lost
  OBVIOUS
<1> QED BY <1>1, <1>2, <1>3, <1>4, IdleAssumption DEF TypeOK

LEMMA WorkerType ==
    ASSUME TypeOK, DeliveryStep
    PROVE  TypeOK'
<1>1. ASSUME NEW w \in Workers, NEW m \in Message, Deliver(w, m)
      PROVE  TypeOK'
  <2>1. [pc |-> "trust", message |-> m, lost |-> FALSE, failure |-> "retries_exhausted"] \in Delivery
    BY DEF Delivery
  <2>2. work' \in [Message -> Nat]
    BY <1>1, RemoveFromBag DEF Deliver, TypeOK
  <2> QED BY <1>1, <2>1, <2>2 DEF Deliver, TypeOK, producer
<1>2. ASSUME NEW w \in Workers, Trust(w)
      PROVE  TypeOK'
  <2>1. worker' \in [Workers -> Delivery \cup {Idle}] /\ EventOf(w) \in Events
    BY <1>2, MoveType, InHandType DEF Trust, At
  <2> QED BY <1>2, <2>1 DEF Trust, TypeOK, producer, queues
<1>3. ASSUME NEW w \in Workers, Refuse(w)
      PROVE  TypeOK'
  <2>1. worker' \in [Workers -> Delivery \cup {Idle}]
    BY <1>3, FailureType DEF Refuse, At
  <2> QED BY <1>3, <2>1 DEF Refuse, TypeOK, producer, queues
<1>4. ASSUME NEW w \in Workers, Hold(w)
      PROVE  TypeOK'
  BY <1>4, RequeueType, DisturbType DEF Hold, At, TypeOK, producer
<1>5. ASSUME NEW w \in Workers, Handle(w)
      PROVE  TypeOK'
  <2>1. worker' \in [Workers -> Delivery \cup {Idle}] /\ effect' \in [Events -> Nat]
    BY <1>5, MoveType, InHandType, CommitType DEF Handle, At
  <2> QED BY <1>5, <2>1 DEF Handle, TypeOK, producer, queues
<1>6. ASSUME NEW w \in Workers, NEW permanent \in BOOLEAN, NEW committed \in BOOLEAN, HandlerFails(w, permanent, committed)
      PROVE  TypeOK'
  <2>1. worker' \in [Workers -> Delivery \cup {Idle}]
    BY <1>6, MoveType, FailureType DEF HandlerFails, At, Move
  <2>2. effect' \in [Events -> Nat]
    BY <1>6, InHandType, CommitType DEF HandlerFails, At, TypeOK
  <2>3. disturbed' \in 0..MaxDisturbances
    BY <1>6, DisturbType DEF HandlerFails, TypeOK
  <2> QED BY <1>6, <2>1, <2>2, <2>3 DEF HandlerFails, TypeOK, producer, queues
<1>7. ASSUME NEW w \in Workers, ScheduleRetry(w)
      PROVE  TypeOK'
  <2>1. worker' \in [Workers -> Delivery \cup {Idle}] /\ RetryCopy(w) \in Message
    BY <1>7, MoveType, InHandType DEF ScheduleRetry, At
  <2>2. retry' \in [Message -> Nat]
    BY <1>7, <2>1, AddToBag DEF ScheduleRetry, TypeOK
  <2> QED BY <1>7, <2>1, <2>2 DEF ScheduleRetry, TypeOK, producer
<1>8. ASSUME NEW w \in Workers, NEW stored \in BOOLEAN, RetryUnconfirmed(w, stored)
      PROVE  TypeOK'
  <2>1. worker' \in [Workers -> Delivery \cup {Idle}] /\ RetryCopy(w) \in Message
    BY <1>8, MoveType, InHandType DEF RetryUnconfirmed, At
  <2>2. retry' \in [Message -> Nat]
    BY <1>8, <2>1, AddToBag DEF RetryUnconfirmed, TypeOK
  <2> QED BY <1>8, <2>1, <2>2, DisturbType DEF RetryUnconfirmed, TypeOK, producer
<1>9. ASSUME NEW w \in Workers, EndRetries(w)
      PROVE  TypeOK'
  <2>1. worker' \in [Workers -> Delivery \cup {Idle}]
    BY <1>9, MoveType DEF EndRetries, At
  <2> QED BY <1>9, <2>1 DEF EndRetries, TypeOK, producer, queues
<1>10. ASSUME NEW w \in Workers, KeepDeadLetter(w)
       PROVE  TypeOK'
  <2>1. worker' \in [Workers -> Delivery \cup {Idle}] /\ DeadLetterOf(w) \in DeadLetter
    BY <1>10, MoveType, InHandType DEF KeepDeadLetter, At
  <2>2. dead' \in [DeadLetter -> Nat]
    BY <1>10, <2>1, AddToBag DEF KeepDeadLetter, TypeOK
  <2> QED BY <1>10, <2>1, <2>2 DEF KeepDeadLetter, TypeOK, producer
<1>11. ASSUME NEW w \in Workers, NEW stored \in BOOLEAN, DeadLetterUnconfirmed(w, stored)
       PROVE  TypeOK'
  <2>1. /\ worker' \in [Workers -> Delivery \cup {Idle}]
        /\ work' \in [Message -> Nat]
        /\ DeadLetterOf(w) \in DeadLetter
    BY <1>11, RequeueType, InHandType DEF DeadLetterUnconfirmed, Deferred, At
  <2>2. dead' \in [DeadLetter -> Nat]
    BY <1>11, <2>1, AddToBag DEF DeadLetterUnconfirmed, TypeOK
  <2> QED BY <1>11, <2>1, <2>2, DisturbType DEF DeadLetterUnconfirmed, TypeOK, producer
<1>12. ASSUME NEW w \in Workers, Settle(w)
       PROVE  TypeOK'
  BY <1>12 DEF Settle, TypeOK, producer, queues
<1>13. ASSUME NEW w \in Workers, LoseChannel(w)
       PROVE  TypeOK'
  <2>1. worker[w] \in Delivery /\ worker[w].message \in Message
    BY <1>13, InHandType DEF LoseChannel
  <2>2. [worker[w] EXCEPT !.lost = TRUE] \in Delivery
    BY <2>1 DEF Delivery
  <2>3. worker' \in [Workers -> Delivery \cup {Idle}]
    BY <1>13, <2>2 DEF LoseChannel, TypeOK
  <2>4. work' \in [Message -> Nat]
    BY <1>13, <2>1, AddToBag DEF LoseChannel, TypeOK
  <2> QED BY <1>13, <2>3, <2>4, DisturbType DEF LoseChannel, TypeOK, producer
<1>14. ASSUME NEW w \in Workers, StopWorker(w)
       PROVE  TypeOK'
  BY <1>14, RequeueType, DisturbType DEF StopWorker, TypeOK, producer
<1> QED BY <1>1, <1>2, <1>3, <1>4, <1>5, <1>6, <1>7, <1>8, <1>9, <1>10, <1>11, <1>12, <1>13, <1>14
       DEF DeliveryStep, WorkerStep

-----------------------------------------------------------------------------
(* No step loses an event that is accounted for *)

LEMMA Grows ==
    ASSUME TypeOK, NEW e \in Events, Accounted(e),
           effect'[e] >= effect[e],
           \A m \in Message : work'[m] >= work[m] /\ retry'[m] >= retry[m],
           \A d \in DeadLetter : dead'[d] >= dead[d],
           InHand(e) => Accounted(e)',
           effect' \in [Events -> Nat], work' \in [Message -> Nat],
           retry' \in [Message -> Nat], dead' \in [DeadLetter -> Nat]
    PROVE  Accounted(e)'
<1>1. CASE effect[e] > 0
  BY <1>1 DEF TypeOK, Accounted
<1>2. CASE \E m \in Message : m.event = e /\ (work[m] > 0 \/ retry[m] > 0)
  <2>1. PICK m \in Message : m.event = e /\ (work[m] > 0 \/ retry[m] > 0)
    BY <1>2
  <2>2. work'[m] > 0 \/ retry'[m] > 0
    BY <2>1 DEF TypeOK
  <2> QED BY <2>1, <2>2 DEF Accounted
<1>3. CASE \E d \in DeadLetter : d.event = e /\ dead[d] > 0
  <2>1. PICK d \in DeadLetter : d.event = e /\ dead[d] > 0
    BY <1>3
  <2>2. dead'[d] > 0
    BY <2>1 DEF TypeOK
  <2> QED BY <2>1, <2>2 DEF Accounted
<1> QED BY <1>1, <1>2, <1>3 DEF Accounted

\* a delivery that goes on, still in the hand of its worker
LEMMA GoesOn ==
    ASSUME TypeOK, NEW e \in Events, NEW w \in Workers, worker[w] # Idle, InHand(e),
           worker'[w] # Idle, worker'[w].pc # "ack",
           worker'[w].message = worker[w].message, worker'[w].lost = worker[w].lost,
           \A x \in Workers \ {w} : worker'[x] = worker[x]
    PROVE  InHand(e)'
<1>1. PICK x \in Workers : worker[x] # Idle /\ worker[x].pc # "ack" /\ ~worker[x].lost /\ EventOf(x) = e
  BY DEF InHand
<1>2. worker'[x] # Idle /\ worker'[x].pc # "ack" /\ ~worker'[x].lost /\ worker'[x].message.event = e
  BY <1>1 DEF EventOf
<1> QED BY <1>2 DEF InHand, EventOf

\* a delivery that ends: what it held is held elsewhere
LEMMA Ends ==
    ASSUME TypeOK, NEW e \in Events, NEW w \in Workers, InHand(e),
           \A x \in Workers \ {w} : worker'[x] = worker[x],
           worker[w] # Idle /\ worker[w].pc # "ack" /\ ~worker[w].lost /\ EventOf(w) = e => Accounted(e)'
    PROVE  Accounted(e)'
<1>1. PICK x \in Workers : worker[x] # Idle /\ worker[x].pc # "ack" /\ ~worker[x].lost /\ EventOf(x) = e
  BY DEF InHand
<1>2. CASE x = w
  BY <1>1, <1>2
<1>3. CASE x # w
  <2>1. worker'[x] = worker[x]
    BY <1>3
  <2>2. worker'[x] # Idle /\ worker'[x].pc # "ack" /\ ~worker'[x].lost /\ worker'[x].message.event = e
    BY <1>1, <2>1 DEF EventOf
  <2> QED BY <2>2 DEF InHand, EventOf, Accounted
<1> QED BY <1>2, <1>3

LEMMA RequeueKeeps ==
    ASSUME TypeOK, NEW e \in Events, NEW w \in Workers, worker[w] # Idle, Requeue(w), InHand(e)
    PROVE  Accounted(e)'
<1>1. /\ \A x \in Workers \ {w} : worker'[x] = worker[x]
      /\ ~worker[w].lost => work'[worker[w].message] > 0
      /\ worker[w].message \in Message
  BY RequeueType, InHandType
<1>2. ~worker[w].lost /\ EventOf(w) = e => Accounted(e)'
  BY <1>1 DEF Accounted, EventOf
<1> QED BY <1>1, <1>2, Ends

LEMMA StillKeeps ==
    ASSUME TypeOK, NEW e \in Events, Accounted(e),
           UNCHANGED <<work, retry, dead, worker, effect>>
    PROVE  Accounted(e)'
BY DEF Accounted, InHand, EventOf

\* more work and nothing else
LEMMA MoreWorkKeeps ==
    ASSUME TypeOK, TypeOK', NEW e \in Events, Accounted(e), \A m \in Message : work'[m] >= work[m],
           UNCHANGED <<retry, dead, worker, effect>>
    PROVE  Accounted(e)'
<1>1. InHand(e) => Accounted(e)'
  BY DEF Accounted, InHand, EventOf
<1>2. /\ effect'[e] >= effect[e]
      /\ \A m \in Message : work'[m] >= work[m] /\ retry'[m] >= retry[m]
      /\ \A d \in DeadLetter : dead'[d] >= dead[d]
  BY DEF TypeOK
<1> QED BY <1>1, <1>2, Grows DEF TypeOK

LEMMA ProducerKeeps ==
    ASSUME TypeOK, TypeOK', NEW x \in Events, Accounted(x), ProducerStep
    PROVE  Accounted(x)'
<1>1. CASE \/ Attach \/ \E e \in Events : Enqueue(e)
           \/ \E r \in Relays : \/ CommitBatch(r) \/ LoseBatch(r)
                                \/ \E batch \in SUBSET Events : Claim(r, batch)
  <2>1. UNCHANGED <<work, retry, dead, worker, effect>>
    BY <1>1 DEF Enqueue, Attach, Claim, CommitBatch, LoseBatch, queues, consumer
  <2> QED BY <2>1, StillKeeps
<1>2. ASSUME NEW e \in Events, Reemit(e)
      PROVE  Accounted(x)'
  <2>1. \A m \in Message : work'[m] >= work[m]
    BY <1>2, Copies, AddToBag DEF Reemit, TypeOK
  <2> QED BY <1>2, <2>1, MoreWorkKeeps DEF Reemit, consumer
<1>3. ASSUME NEW r \in Relays, NEW e \in Events, PublishConfirmed(r, e)
      PROVE  Accounted(x)'
  <2>1. \A m \in Message : work'[m] >= work[m]
    BY <1>3, RouteType DEF PublishConfirmed
  <2> QED BY <1>3, <2>1, MoreWorkKeeps DEF PublishConfirmed, consumer
<1>4. ASSUME NEW r \in Relays, NEW e \in Events, NEW stored \in BOOLEAN, PublishUnconfirmed(r, e, stored)
      PROVE  Accounted(x)'
  <2>1. \A m \in Message : work'[m] >= work[m]
    <3>1. CASE stored
      BY <1>4, <3>1, RouteType DEF PublishUnconfirmed
    <3>2. CASE ~stored
      BY <1>4, <3>2 DEF PublishUnconfirmed, TypeOK
    <3> QED BY <3>1, <3>2
  <2> QED BY <1>4, <2>1, MoreWorkKeeps DEF PublishUnconfirmed, consumer
<1> QED BY <1>1, <1>2, <1>3, <1>4 DEF ProducerStep, RelayStep

LEMMA BrokerKeeps ==
    ASSUME TypeOK, TypeOK', NEW x \in Events, Accounted(x), BrokerStep
    PROVE  Accounted(x)'
<1>1. ASSUME NEW m \in Message, EndDelay(m)
      PROVE  Accounted(x)'
  <2>1. /\ work'[m] > 0
        /\ \A n \in Message : work'[n] >= work[n]
        /\ \A n \in Message : n # m => retry'[n] = retry[n]
    <3>1. /\ work \in [Message -> Nat] /\ work' = Add(work, m)
          /\ retry \in [Message -> Nat] /\ retry' = Remove(retry, m) /\ retry[m] > 0
      BY <1>1 DEF EndDelay, TypeOK
    <3>2. work[m] \in Nat /\ work'[m] = work[m] + 1
      BY <3>1, AddToBag
    <3>3. \A n \in Message : work'[n] >= work[n]
      BY <3>1, AddToBag
    <3>4. \A n \in Message : n # m => retry'[n] = retry[n]
      BY <3>1, RemoveFromBag
    <3> QED BY <3>2, <3>3, <3>4
  <2>2. CASE m.event = x
    BY <2>1, <2>2 DEF Accounted
  <2>3. CASE m.event # x
    <3>1. CASE \E n \in Message : n.event = x /\ (work[n] > 0 \/ retry[n] > 0)
      <4>1. PICK n \in Message : n.event = x /\ (work[n] > 0 \/ retry[n] > 0)
        BY <3>1
      <4>2. n # m
        BY <2>3, <4>1
      <4>3. work'[n] > 0 \/ retry'[n] > 0
        BY <2>1, <4>1, <4>2 DEF TypeOK
      <4> QED BY <4>1, <4>3 DEF Accounted
    <3>2. CASE ~\E n \in Message : n.event = x /\ (work[n] > 0 \/ retry[n] > 0)
      BY <1>1, <3>2 DEF EndDelay, consumer, Accounted, InHand, EventOf
    <3> QED BY <3>1, <3>2
  <2> QED BY <2>2, <2>3
<1>2. ASSUME NEW d \in DeadLetter, NEW acked \in BOOLEAN, ReplayDeadLetter(d, acked)
      PROVE  Accounted(x)'
  <2>1. Copy(d.event, 0) \in Message /\ Copy(d.event, 0).event = d.event
    BY Copies, ConstantsAssumption DEF DeadLetter
  <2>2. work'[Copy(d.event, 0)] > 0 /\ \A n \in Message : work'[n] >= work[n]
    <3> DEFINE copy == Copy(d.event, 0)
    <3>1. work \in [Message -> Nat] /\ work' = Add(work, copy) /\ copy \in Message
      BY <1>2, <2>1 DEF ReplayDeadLetter, TypeOK
    <3> HIDE DEF copy
    <3>2. work[copy] \in Nat /\ work'[copy] = work[copy] + 1
      BY <3>1, AddToBag
    <3>3. \A n \in Message : work'[n] >= work[n]
      BY <3>1, AddToBag
    <3> USE DEF copy
    <3> QED BY <3>2, <3>3
  <2>3. CASE d.event = x
    BY <2>1, <2>2, <2>3 DEF Accounted
  <2>4. CASE d.event # x
    <3>1. CASE \E f \in DeadLetter : f.event = x /\ dead[f] > 0
      <4>1. PICK f \in DeadLetter : f.event = x /\ dead[f] > 0
        BY <3>1
      <4>2. f # d
        BY <2>4, <4>1
      <4>3. dead'[f] = dead[f]
        BY <1>2, <4>2, RemoveFromBag DEF ReplayDeadLetter, TypeOK
      <4> QED BY <4>1, <4>3 DEF Accounted
    <3>2. CASE \E n \in Message : n.event = x /\ (work[n] > 0 \/ retry[n] > 0)
      <4>1. PICK n \in Message : n.event = x /\ (work[n] > 0 \/ retry[n] > 0)
        BY <3>2
      <4>2. work'[n] > 0 \/ retry'[n] > 0
        BY <1>2, <2>2, <4>1 DEF ReplayDeadLetter, TypeOK
      <4> QED BY <4>1, <4>2 DEF Accounted
    <3>3. CASE effect[x] > 0 \/ InHand(x)
      BY <1>2, <3>3 DEF ReplayDeadLetter, consumer, Accounted, InHand, EventOf
    <3> QED BY <3>1, <3>2, <3>3 DEF Accounted
  <2> QED BY <2>3, <2>4
<1> QED BY <1>1, <1>2 DEF BrokerStep

\* the broker holds at least what it held: what a delivery lets go of is elsewhere
LEMMA DeliveryKeeps ==
    ASSUME TypeOK, TypeOK', NEW x \in Events, Accounted(x),
           effect'[x] >= effect[x],
           \A n \in Message : work'[n] >= work[n] /\ retry'[n] >= retry[n],
           \A d \in DeadLetter : dead'[d] >= dead[d],
           InHand(x) => Accounted(x)'
    PROVE  Accounted(x)'
BY Grows DEF TypeOK

\* an acknowledgement: the event was already accounted for elsewhere
LEMMA SettleKeeps ==
    ASSUME TypeOK, NEW x \in Events, Accounted(x), NEW w \in Workers, Settle(w)
    PROVE  Accounted(x)'
<1>1. /\ \A v \in Workers \ {w} : worker'[v] = worker[v]
      /\ worker[w].pc = "ack"
      /\ UNCHANGED <<work, retry, dead, effect>>
  BY DEF Settle, At, TypeOK, queues
<1>2. CASE InHand(x)
  BY <1>1, <1>2, Ends
<1>3. CASE ~InHand(x)
  BY <1>1, <1>3 DEF Accounted
<1> QED BY <1>2, <1>3

LEMMA WorkerKeeps ==
    ASSUME TypeOK, TypeOK', NEW x \in Events, Accounted(x), DeliveryStep
    PROVE  Accounted(x)'
<1>a. /\ \A n \in Message : work[n] >= work[n] /\ retry[n] >= retry[n]
      /\ \A d \in DeadLetter : dead[d] >= dead[d]
      /\ effect[x] >= effect[x]
  BY DEF TypeOK
<1>b. ASSUME NEW e \in Events, Commit(e)
      PROVE  effect'[x] >= effect[x] /\ effect'[e] > 0
  BY <1>b DEF Commit, TypeOK
<1>1. ASSUME NEW w \in Workers, NEW m \in Message, Deliver(w, m)
      PROVE  Accounted(x)'
  <2>1. /\ \A n \in Message : n # m => work'[n] = work[n]
        /\ worker'[w] = [pc |-> "trust", message |-> m, lost |-> FALSE, failure |-> "retries_exhausted"]
        /\ \A v \in Workers \ {w} : worker'[v] = worker[v]
    BY <1>1, RemoveFromBag DEF Deliver, TypeOK
  <2>2. worker'[w] # Idle
    <3>1. worker'[w] \in Delivery
      BY <2>1 DEF Delivery
    <3> QED BY <3>1, IdleAssumption
  <2>3. CASE m.event = x
    <3>1. InHand(x)'
      BY <2>1, <2>2, <2>3 DEF InHand, EventOf
    <3> QED BY <3>1 DEF Accounted
  <2>4. CASE m.event # x
    <3>1. CASE \E n \in Message : n.event = x /\ (work[n] > 0 \/ retry[n] > 0)
      <4>1. PICK n \in Message : n.event = x /\ (work[n] > 0 \/ retry[n] > 0)
        BY <3>1
      <4>2. work'[n] = work[n] /\ retry'[n] = retry[n]
        BY <1>1, <2>1, <2>4, <4>1 DEF Deliver
      <4> QED BY <4>1, <4>2 DEF Accounted
    <3>2. CASE InHand(x)
      <4>1. worker[w] = Idle
        BY <1>1 DEF Deliver
      <4> QED BY <2>1, <3>2, <4>1, Ends
    <3>3. CASE effect[x] > 0 \/ \E d \in DeadLetter : d.event = x /\ dead[d] > 0
      BY <1>1, <3>3 DEF Deliver, Accounted
    <3> QED BY <3>1, <3>2, <3>3 DEF Accounted
  <2> QED BY <2>3, <2>4
<1>2. ASSUME NEW w \in Workers, Trust(w)
      PROVE  Accounted(x)'
  <2>1. InHand(x) => InHand(x)'
    BY <1>2, MoveType, GoesOn DEF Trust, At
  <2> QED BY <1>2, <1>a, <2>1, DeliveryKeeps DEF Trust, queues, Accounted
<1>3. ASSUME NEW w \in Workers, Refuse(w)
      PROVE  Accounted(x)'
  <2>1. InHand(x) => InHand(x)'
    BY <1>3, FailureType, GoesOn DEF Refuse, At
  <2> QED BY <1>3, <1>a, <2>1, DeliveryKeeps DEF Refuse, queues, Accounted
<1>4. ASSUME NEW w \in Workers, Hold(w)
      PROVE  Accounted(x)'
  <2>1. InHand(x) => Accounted(x)'
    BY <1>4, RequeueKeeps DEF Hold, At
  <2>2. \A n \in Message : work'[n] >= work[n]
    BY <1>4, RequeueType DEF Hold, At
  <2> QED BY <1>4, <1>a, <2>1, <2>2, DeliveryKeeps DEF Hold
<1>5. ASSUME NEW w \in Workers, Handle(w)
      PROVE  Accounted(x)'
  <2>1. EventOf(w) \in Events /\ effect'[x] >= effect[x] /\ effect'[EventOf(w)] > 0
    BY <1>5, <1>b, InHandType DEF Handle, At
  <2>2. InHand(x) => Accounted(x)'
    <3>1. \A v \in Workers \ {w} : worker'[v] = worker[v]
      BY <1>5, MoveType DEF Handle, At
    <3>2. EventOf(w) = x => Accounted(x)'
      BY <2>1 DEF Accounted
    <3> QED BY <3>1, <3>2, Ends
  <2> QED BY <1>5, <1>a, <2>1, <2>2, DeliveryKeeps DEF Handle, queues
<1>6. ASSUME NEW w \in Workers, NEW permanent \in BOOLEAN, NEW committed \in BOOLEAN, HandlerFails(w, permanent, committed)
      PROVE  Accounted(x)'
  <2>1. effect'[x] >= effect[x]
    <3>1. EventOf(w) \in Events
      BY <1>6, InHandType DEF HandlerFails, At
    <3> QED BY <1>6, <1>a, <1>b, <3>1 DEF HandlerFails
  <2>2. InHand(x) => InHand(x)'
    <3>1. CASE permanent
      BY <1>6, <3>1, FailureType, GoesOn DEF HandlerFails, At
    <3>2. CASE ~permanent
      BY <1>6, <3>2, MoveType, GoesOn DEF HandlerFails, At
    <3> QED BY <3>1, <3>2
  <2> QED BY <1>6, <1>a, <2>1, <2>2, DeliveryKeeps DEF HandlerFails, queues, Accounted
<1>7. ASSUME NEW w \in Workers, ScheduleRetry(w)
      PROVE  Accounted(x)'
  <2>1. RetryCopy(w) \in Message /\ RetryCopy(w).event = EventOf(w)
    BY <1>7, InHandType DEF ScheduleRetry, At
  <2>2. retry'[RetryCopy(w)] > 0 /\ \A n \in Message : retry'[n] >= retry[n]
    <3>1. retry \in [Message -> Nat] /\ retry' = Add(retry, RetryCopy(w))
      BY <1>7 DEF ScheduleRetry, TypeOK
    <3> QED BY <2>1, <3>1, AddToBag
  <2>3. InHand(x) => Accounted(x)'
    <3>1. \A v \in Workers \ {w} : worker'[v] = worker[v]
      BY <1>7, MoveType DEF ScheduleRetry, At
    <3>2. EventOf(w) = x => Accounted(x)'
      BY <2>1, <2>2 DEF Accounted
    <3> QED BY <3>1, <3>2, Ends
  <2> QED BY <1>7, <1>a, <2>2, <2>3, DeliveryKeeps DEF ScheduleRetry
<1>8. ASSUME NEW w \in Workers, NEW stored \in BOOLEAN, RetryUnconfirmed(w, stored)
      PROVE  Accounted(x)'
  <2>1. RetryCopy(w) \in Message
    BY <1>8, InHandType DEF RetryUnconfirmed, At
  <2>2. \A n \in Message : retry'[n] >= retry[n]
    BY <1>8, <1>a, <2>1, AddToBag DEF RetryUnconfirmed, TypeOK
  <2>3. InHand(x) => InHand(x)'
    BY <1>8, MoveType, GoesOn DEF RetryUnconfirmed, At
  <2> QED BY <1>8, <1>a, <2>2, <2>3, DeliveryKeeps DEF RetryUnconfirmed, Accounted
<1>9. ASSUME NEW w \in Workers, EndRetries(w)
      PROVE  Accounted(x)'
  <2>1. InHand(x) => InHand(x)'
    BY <1>9, MoveType, GoesOn DEF EndRetries, At
  <2> QED BY <1>9, <1>a, <2>1, DeliveryKeeps DEF EndRetries, queues, Accounted
<1>10. ASSUME NEW w \in Workers, KeepDeadLetter(w)
       PROVE  Accounted(x)'
  <2>1. DeadLetterOf(w) \in DeadLetter /\ DeadLetterOf(w).event = EventOf(w)
    BY <1>10, InHandType DEF KeepDeadLetter, At
  <2>2. dead'[DeadLetterOf(w)] > 0 /\ \A d \in DeadLetter : dead'[d] >= dead[d]
    BY <1>10, <2>1, AddToBag DEF KeepDeadLetter, TypeOK
  <2>3. InHand(x) => Accounted(x)'
    <3>1. \A v \in Workers \ {w} : worker'[v] = worker[v]
      BY <1>10, MoveType DEF KeepDeadLetter, At
    <3>2. EventOf(w) = x => Accounted(x)'
      BY <2>1, <2>2 DEF Accounted
    <3> QED BY <3>1, <3>2, Ends
  <2> QED BY <1>10, <1>a, <2>2, <2>3, DeliveryKeeps DEF KeepDeadLetter
<1>11. ASSUME NEW w \in Workers, NEW stored \in BOOLEAN, DeadLetterUnconfirmed(w, stored)
       PROVE  Accounted(x)'
  <2>1. DeadLetterOf(w) \in DeadLetter
    BY <1>11, InHandType DEF DeadLetterUnconfirmed, At
  <2>2. \A d \in DeadLetter : dead'[d] >= dead[d]
    BY <1>11, <1>a, <2>1, AddToBag DEF DeadLetterUnconfirmed, TypeOK
  <2>3. InHand(x) => Accounted(x)'
    BY <1>11, RequeueKeeps DEF DeadLetterUnconfirmed, Deferred, At
  <2>4. \A n \in Message : work'[n] >= work[n]
    BY <1>11, RequeueType DEF DeadLetterUnconfirmed, Deferred, At
  <2> QED BY <1>11, <1>a, <2>2, <2>3, <2>4, DeliveryKeeps DEF DeadLetterUnconfirmed
<1>12. ASSUME NEW w \in Workers, Settle(w)
       PROVE  Accounted(x)'
  BY <1>12, SettleKeeps
<1>13. ASSUME NEW w \in Workers, LoseChannel(w)
       PROVE  Accounted(x)'
  <2>1. worker[w] # Idle /\ worker[w].message \in Message /\ EventOf(w) = worker[w].message.event
    BY <1>13, InHandType DEF LoseChannel, EventOf
  <2>2. work'[worker[w].message] > 0 /\ \A n \in Message : work'[n] >= work[n]
    <3>1. work \in [Message -> Nat] /\ work' = Add(work, worker[w].message)
      BY <1>13 DEF LoseChannel, TypeOK
    <3> QED BY <2>1, <3>1, AddToBag
  <2>3. InHand(x) => Accounted(x)'
    <3>1. \A v \in Workers \ {w} : worker'[v] = worker[v]
      BY <1>13 DEF LoseChannel, TypeOK
    <3>2. EventOf(w) = x => Accounted(x)'
      BY <2>1, <2>2 DEF Accounted
    <3> QED BY <3>1, <3>2, Ends
  <2> QED BY <1>13, <1>a, <2>2, <2>3, DeliveryKeeps DEF LoseChannel
<1>14. ASSUME NEW w \in Workers, StopWorker(w)
       PROVE  Accounted(x)'
  <2>1. InHand(x) => Accounted(x)'
    BY <1>14, RequeueKeeps DEF StopWorker
  <2>2. \A n \in Message : work'[n] >= work[n]
    BY <1>14, RequeueType DEF StopWorker
  <2> QED BY <1>14, <1>a, <2>1, <2>2, DeliveryKeeps DEF StopWorker
<1> QED BY <1>1, <1>2, <1>3, <1>4, <1>5, <1>6, <1>7, <1>8, <1>9, <1>10, <1>11, <1>12, <1>13, <1>14
       DEF DeliveryStep, WorkerStep

LEMMA InitType == Init => TypeOK
<1>1. NoTransaction \in Transaction
  BY DEF NoTransaction, Transaction
<1>2. 0 \in Nat /\ 0 \in 0..MaxDisturbances
  BY ConstantsAssumption
<1>3. {} \subseteq Events
  OBVIOUS
<1> QED BY <1>1, <1>2, <1>3 DEF Init, TypeOK

LEMMA TypeNext ==
    ASSUME TypeOK, [Next]_vars
    PROVE  TypeOK'
<1>1. CASE Next
  BY <1>1, Steps, ProducerType, BrokerType, WorkerType
<1>2. CASE UNCHANGED vars
  BY <1>2 DEF vars, producer, queues, consumer, TypeOK
<1> QED BY <1>1, <1>2

LEMMA AccountedIsKept ==
    ASSUME TypeOK, [Next]_vars, NEW x \in Events, Accounted(x)
    PROVE  Accounted(x)'
<1>1. TypeOK'
  BY TypeNext
<1>2. CASE Next
  BY <1>1, <1>2, Steps, ProducerKeeps, BrokerKeeps, WorkerKeeps
<1>3. CASE UNCHANGED vars
  BY <1>3, StillKeeps DEF vars, queues, consumer
<1> QED BY <1>2, <1>3

-----------------------------------------------------------------------------
(* What a step may newly stamp as published, or bring to its acknowledgement *)

IsStamped(e) == outbox[e] = "published" \/ \E r \in Relays : e \in relay[r].stamped

\* only a confirmed publish stamps an event anew, and it leaves its message in the work
\* queue, or dropped
LEMMA NewlyStamped ==
    ASSUME TypeOK, [Next]_vars, NEW e \in Events, IsStamped(e)'
    PROVE  IsStamped(e) \/ e \in dropped' \/ work'[Original(e)] > 0
<1>1. ASSUME NEW f \in Events, Enqueue(f)
      PROVE  IsStamped(e)
  BY <1>1 DEF Enqueue, IsStamped, TypeOK
<1>2. ASSUME NEW r \in Relays, NEW batch \in SUBSET Events, Claim(r, batch)
      PROVE  IsStamped(e)
  <2>1. /\ outbox' = outbox
        /\ relay'[r].stamped = {}
        /\ \A s \in Relays \ {r} : relay'[s] = relay[s]
    BY <1>2 DEF Claim, TypeOK
  <2> QED BY <2>1 DEF IsStamped
<1>3. ASSUME NEW r \in Relays, NEW f \in Events, PublishConfirmed(r, f)
      PROVE  IsStamped(e) \/ e \in dropped' \/ work'[Original(e)] > 0
  <2>1. CASE e = f
    BY <1>3, <2>1, RouteType DEF PublishConfirmed
  <2>2. CASE e # f
    <3>1. relay[r] \in Transaction
      BY DEF TypeOK
    <3>2. /\ outbox' = outbox
          /\ relay'[r].stamped = relay[r].stamped \cup {f}
          /\ \A s \in Relays \ {r} : relay'[s] = relay[s]
      BY <1>3, <3>1 DEF PublishConfirmed, TypeOK, Transaction
    <3> QED BY <2>2, <3>2 DEF IsStamped
  <2> QED BY <2>1, <2>2
<1>4. ASSUME NEW r \in Relays, NEW f \in Events, NEW stored \in BOOLEAN, PublishUnconfirmed(r, f, stored)
      PROVE  IsStamped(e)
  <2>1. relay[r] \in Transaction
    BY DEF TypeOK
  <2>2. /\ outbox' = outbox
        /\ relay'[r].stamped = relay[r].stamped
        /\ \A s \in Relays \ {r} : relay'[s] = relay[s]
    BY <1>4, <2>1 DEF PublishUnconfirmed, Unconfirmed, TypeOK, Transaction
  <2> QED BY <2>2 DEF IsStamped
<1>5. ASSUME NEW r \in Relays, CommitBatch(r)
      PROVE  IsStamped(e)
  <2>1. /\ outbox'[e] = "published" => outbox[e] = "published" \/ e \in relay[r].stamped
        /\ relay'[r].stamped = {}
        /\ \A s \in Relays \ {r} : relay'[s] = relay[s]
    BY <1>5 DEF CommitBatch, Stamped, NoTransaction, TypeOK
  <2> QED BY <2>1 DEF IsStamped
<1>6. ASSUME NEW r \in Relays, LoseBatch(r)
      PROVE  IsStamped(e)
  <2>1. /\ outbox' = outbox
        /\ relay'[r].stamped = {}
        /\ \A s \in Relays \ {r} : relay'[s] = relay[s]
    BY <1>6 DEF LoseBatch, NoTransaction, TypeOK
  <2> QED BY <2>1 DEF IsStamped
<1>7. CASE Attach \/ (\E f \in Events : Reemit(f)) \/ BrokerStep \/ DeliveryStep \/ UNCHANGED vars
  <2>1. outbox' = outbox /\ relay' = relay
    BY <1>7 DEF BrokerStep, DeliveryStep, WorkerStep, vars, producer, Attach, Reemit, EndDelay, ReplayDeadLetter,
                Deliver, Trust, Refuse, Hold, Handle, HandlerFails, ScheduleRetry, RetryUnconfirmed,
                EndRetries, KeepDeadLetter, DeadLetterUnconfirmed, Settle, LoseChannel, StopWorker
  <2> QED BY <2>1 DEF IsStamped
<1> QED BY <1>1, <1>2, <1>3, <1>4, <1>5, <1>6, <1>7, Steps DEF ProducerStep, RelayStep

LEMMA DroppedGrows ==
    ASSUME TypeOK, [Next]_vars
    PROVE  dropped \subseteq dropped'
<1>1. CASE ProducerStep
  BY <1>1, RouteType DEF ProducerStep, RelayStep, Enqueue, Attach, Reemit, Claim, PublishConfirmed, CommitBatch,
                         PublishUnconfirmed, LoseBatch, producer
<1>2. CASE BrokerStep \/ DeliveryStep \/ UNCHANGED vars
  BY <1>2 DEF BrokerStep, DeliveryStep, WorkerStep, vars, producer, EndDelay, ReplayDeadLetter,
              Deliver, Trust, Refuse, Hold, Handle, HandlerFails, ScheduleRetry, RetryUnconfirmed,
              EndRetries, KeepDeadLetter, DeadLetterUnconfirmed, Settle, LoseChannel, StopWorker
<1> QED BY <1>1, <1>2, Steps

\* a delivery that a step brings to its acknowledgement has its effect or its copy there
LEMMA NewlyAcked ==
    ASSUME TypeOK, [Next]_vars, NEW v \in Workers, At(v, "ack")'
    PROVE  Accounted(EventOf(v))' \/ (At(v, "ack") /\ EventOf(v)' = EventOf(v))
<1> DEFINE Before == At(v, "ack") /\ EventOf(v)' = EventOf(v)
<1>1. ASSUME worker'[v] = worker[v]
      PROVE  Before
  BY <1>1 DEF At, EventOf
<1>2. ASSUME NEW w \in Workers, NEW m \in Message, Deliver(w, m)
      PROVE  Before
  <2>1. worker'[w].pc = "trust" /\ \A x \in Workers \ {w} : worker'[x] = worker[x]
    BY <1>2 DEF Deliver, TypeOK
  <2> QED BY <1>1, <2>1 DEF At
<1>3. ASSUME NEW w \in Workers, NEW pc \in {"handle", "failed", "dead"}, worker[w] # Idle, Move(w, pc)
      PROVE  Before
  <2>1. worker'[w].pc = pc /\ \A x \in Workers \ {w} : worker'[x] = worker[x]
    BY <1>3, MoveType
  <2> QED BY <1>1, <2>1 DEF At
<1>4. ASSUME NEW w \in Workers, worker[w] # Idle, FailPermanently(w)
      PROVE  Before
  <2>1. worker'[w].pc = "dead" /\ \A x \in Workers \ {w} : worker'[x] = worker[x]
    BY <1>4, FailureType
  <2> QED BY <1>1, <2>1 DEF At
<1>5. ASSUME NEW w \in Workers, worker[w] # Idle, Requeue(w)
      PROVE  Before
  <2>1. worker'[w] = Idle /\ \A x \in Workers \ {w} : worker'[x] = worker[x]
    BY <1>5, RequeueType
  <2> QED BY <1>1, <2>1 DEF At
<1>6. ASSUME NEW w \in Workers, Settle(w)
      PROVE  Before
  <2>1. worker'[w] = Idle /\ \A x \in Workers \ {w} : worker'[x] = worker[x]
    BY <1>6 DEF Settle, TypeOK
  <2> QED BY <1>1, <2>1 DEF At
<1>7. ASSUME NEW w \in Workers, LoseChannel(w)
      PROVE  Before
  <2>1. worker[w] \in Delivery
    BY <1>7, InHandType DEF LoseChannel
  <2>2. /\ worker'[w].pc = worker[w].pc /\ worker'[w].message = worker[w].message
        /\ \A x \in Workers \ {w} : worker'[x] = worker[x]
    BY <1>7, <2>1 DEF LoseChannel, TypeOK, Delivery
  <2> QED BY <1>1, <1>7, <2>2 DEF At, EventOf, LoseChannel
<1>8. ASSUME NEW w \in Workers, Handle(w)
      PROVE  Accounted(EventOf(v))' \/ Before
  <2>1. /\ worker'[w].message = worker[w].message
        /\ \A x \in Workers \ {w} : worker'[x] = worker[x]
        /\ effect'[EventOf(w)] > 0
    BY <1>8, MoveType, InHandType, CommitType DEF Handle, At
  <2> QED BY <1>1, <2>1 DEF Accounted, EventOf
<1>9. ASSUME NEW w \in Workers, ScheduleRetry(w)
      PROVE  Accounted(EventOf(v))' \/ Before
  <2>1. /\ worker'[w].message = worker[w].message
        /\ \A x \in Workers \ {w} : worker'[x] = worker[x]
        /\ RetryCopy(w) \in Message /\ RetryCopy(w).event = EventOf(w)
    BY <1>9, MoveType, InHandType DEF ScheduleRetry, At
  <2>2. retry \in [Message -> Nat] /\ retry' = Add(retry, RetryCopy(w))
    BY <1>9 DEF ScheduleRetry, TypeOK
  <2>3. retry'[RetryCopy(w)] > 0
    BY <2>1, <2>2, AddToBag
  <2> QED BY <1>1, <2>1, <2>3 DEF Accounted, EventOf
<1>10. ASSUME NEW w \in Workers, KeepDeadLetter(w)
       PROVE  Accounted(EventOf(v))' \/ Before
  <2>1. /\ worker'[w].message = worker[w].message
        /\ \A x \in Workers \ {w} : worker'[x] = worker[x]
        /\ DeadLetterOf(w) \in DeadLetter /\ DeadLetterOf(w).event = EventOf(w)
    BY <1>10, MoveType, InHandType DEF KeepDeadLetter, At
  <2>2. dead \in [DeadLetter -> Nat] /\ dead' = Add(dead, DeadLetterOf(w))
    BY <1>10 DEF KeepDeadLetter, TypeOK
  <2>3. dead'[DeadLetterOf(w)] > 0
    BY <2>1, <2>2, AddToBag
  <2> QED BY <1>1, <2>1, <2>3 DEF Accounted, EventOf
<1>11. CASE ProducerStep \/ BrokerStep \/ UNCHANGED vars
  <2>1. worker' = worker
    BY <1>11 DEF ProducerStep, BrokerStep, RelayStep, vars, consumer, Enqueue, Attach, Reemit, Claim,
                 PublishConfirmed, CommitBatch, PublishUnconfirmed, LoseBatch, EndDelay, ReplayDeadLetter
  <2> QED BY <1>1, <2>1
<1>12. CASE DeliveryStep
  <2>1. PICK w \in Workers :
            \/ WorkerStep(w) \/ Hold(w) \/ LoseChannel(w) \/ StopWorker(w)
            \/ \E permanent, committed \in BOOLEAN : HandlerFails(w, permanent, committed)
            \/ \E stored \in BOOLEAN : RetryUnconfirmed(w, stored) \/ DeadLetterUnconfirmed(w, stored)
    BY <1>12 DEF DeliveryStep
  <2>2. CASE Trust(w) \/ EndRetries(w) \/ \E stored \in BOOLEAN : RetryUnconfirmed(w, stored)
    BY <1>3, <2>2 DEF Trust, EndRetries, RetryUnconfirmed, At
  <2>3. CASE \E permanent, committed \in BOOLEAN : HandlerFails(w, permanent, committed)
    BY <1>3, <1>4, <2>3 DEF HandlerFails, At
  <2>4. CASE Refuse(w)
    BY <1>4, <2>4 DEF Refuse, At
  <2>5. CASE Hold(w) \/ StopWorker(w) \/ \E stored \in BOOLEAN : DeadLetterUnconfirmed(w, stored)
    BY <1>5, <2>5 DEF Hold, StopWorker, DeadLetterUnconfirmed, Deferred, At
  <2>6. CASE \E m \in Message : Deliver(w, m)
    BY <1>2, <2>6
  <2>7. CASE Settle(w) \/ LoseChannel(w)
    BY <1>6, <1>7, <2>7
  <2>8. CASE Handle(w)
    BY <1>8, <2>8
  <2>9. CASE ScheduleRetry(w)
    BY <1>9, <2>9
  <2>10. CASE KeepDeadLetter(w)
    BY <1>10, <2>10
  <2> QED BY <2>1, <2>2, <2>3, <2>4, <2>5, <2>6, <2>7, <2>8, <2>9, <2>10 DEF WorkerStep
<1> QED BY <1>11, <1>12, Steps

-----------------------------------------------------------------------------
(* A verified event that is not observed yet has no copy *)

Fresh(e) ==
    /\ \A m \in Message : m.event = e => /\ retry[m] = 0
                                         /\ m.path = "copy" => work[m] = 0
    /\ \A d \in DeadLetter : d.event = e => dead[d] = 0
    /\ \A w \in Workers : worker[w] # Idle /\ EventOf(w) = e =>
           worker[w].pc = "trust" /\ worker[w].message.path = "original"

\* a step of one delivery leaves the others fresh
LEMMA FreshByOne ==
    ASSUME TypeOK, NEW e \in Events, Fresh(e), NEW w \in Workers,
           \A x \in Workers \ {w} : worker'[x] = worker[x],
           worker'[w] # Idle /\ worker'[w].message.event = e =>
               worker'[w].pc = "trust" /\ worker'[w].message.path = "original",
           \A m \in Message : m.event = e => /\ retry'[m] = retry[m]
                                             /\ m.path = "copy" => work'[m] = work[m],
           \A d \in DeadLetter : d.event = e => dead'[d] = dead[d]
    PROVE  Fresh(e)'
<1>1. ASSUME NEW v \in Workers, worker'[v] # Idle, worker'[v].message.event = e
      PROVE  worker'[v].pc = "trust" /\ worker'[v].message.path = "original"
  <2>1. CASE v = w
    BY <1>1, <2>1
  <2>2. CASE v # w
    <3>1. worker'[v] = worker[v]
      BY <2>2
    <3> QED BY <1>1, <3>1 DEF Fresh, EventOf
  <2> QED BY <2>1, <2>2
<1>2. \A m \in Message : m.event = e => /\ retry'[m] = 0
                                        /\ m.path = "copy" => work'[m] = 0
  BY DEF Fresh
<1>3. \A d \in DeadLetter : d.event = e => dead'[d] = 0
  BY DEF Fresh
<1>4. \A v \in Workers : worker'[v] # Idle /\ worker'[v].message.event = e =>
          worker'[v].pc = "trust" /\ worker'[v].message.path = "original"
  BY <1>1
<1> QED BY <1>2, <1>3, <1>4 DEF Fresh, EventOf

LEMMA FreshByDelivery ==
    ASSUME TypeOK, NEW e \in Verified, Fresh(e), DeliveryStep, e \notin provenance'
    PROVE  Fresh(e)'
<1>e. e \in Events
  BY ConstantsAssumption
<1>1. PICK w \in Workers :
          \/ WorkerStep(w) \/ Hold(w) \/ LoseChannel(w) \/ StopWorker(w)
          \/ \E permanent, committed \in BOOLEAN : HandlerFails(w, permanent, committed)
          \/ \E stored \in BOOLEAN : RetryUnconfirmed(w, stored) \/ DeadLetterUnconfirmed(w, stored)
  BY DEF DeliveryStep
<1>2. ASSUME NEW m \in Message, Deliver(w, m)
      PROVE  Fresh(e)'
  <2>1. /\ \A n \in Message : n # m => work'[n] = work[n]
        /\ \A x \in Workers \ {w} : worker'[x] = worker[x]
        /\ worker'[w].pc = "trust" /\ worker'[w].message = m
        /\ work[m] > 0 /\ retry' = retry /\ dead' = dead
    BY <1>2, RemoveFromBag DEF Deliver, TypeOK
  <2>2. m.event = e => m.path = "original"
    BY <2>1 DEF Fresh, Message
  <2> QED BY <1>e, <2>1, <2>2, FreshByOne
<1>3. CASE Trust(w)
  <2>1. EventOf(w) # e
    BY <1>3 DEF Trust
  <2>2. /\ \A x \in Workers \ {w} : worker'[x] = worker[x]
        /\ worker'[w].message = worker[w].message
    BY <1>3, MoveType DEF Trust, At
  <2> QED BY <1>e, <1>3, <2>1, <2>2, FreshByOne DEF Trust, queues, EventOf
<1>4. CASE Refuse(w)
  <2>1. EventOf(w) # e
    BY <1>4 DEF Refuse, At, Trusted, Fresh, EventOf
  <2>2. /\ \A x \in Workers \ {w} : worker'[x] = worker[x]
        /\ worker'[w].message = worker[w].message
    BY <1>4, FailureType DEF Refuse, At
  <2> QED BY <1>e, <1>4, <2>1, <2>2, FreshByOne DEF Refuse, queues, EventOf
<1>5. ASSUME worker[w] # Idle, Requeue(w), retry' = retry,
             \A d \in DeadLetter : d.event = e => dead'[d] = dead[d]
      PROVE  Fresh(e)'
  <2>1. /\ \A x \in Workers \ {w} : worker'[x] = worker[x]
        /\ worker'[w] = Idle
        /\ \A m \in Message : m # worker[w].message => work'[m] = work[m]
    BY <1>5, RequeueType
  <2>2. EventOf(w) = e => worker[w].message.path # "copy"
    BY <1>5 DEF Fresh
  <2> QED BY <1>e, <1>5, <2>1, <2>2, FreshByOne DEF EventOf
<1>6. CASE Hold(w) \/ StopWorker(w)
  BY <1>5, <1>6 DEF Hold, StopWorker, At
<1>7. ASSUME NEW stored \in BOOLEAN, DeadLetterUnconfirmed(w, stored)
      PROVE  Fresh(e)'
  <2>1. EventOf(w) # e /\ DeadLetterOf(w) \in DeadLetter /\ DeadLetterOf(w).event = EventOf(w)
    BY <1>7, InHandType DEF DeadLetterUnconfirmed, At, Fresh
  <2>2. \A d \in DeadLetter : d.event = e => dead'[d] = dead[d]
    BY <1>7, <2>1, AddToBag DEF DeadLetterUnconfirmed, TypeOK
  <2> QED BY <1>5, <1>7, <2>2 DEF DeadLetterUnconfirmed, Deferred, At
<1>8. CASE Settle(w)
  <2>1. worker'[w] = Idle /\ \A x \in Workers \ {w} : worker'[x] = worker[x]
    BY <1>8 DEF Settle, TypeOK
  <2> QED BY <1>e, <1>8, <2>1, FreshByOne DEF Settle, queues
<1>9. CASE LoseChannel(w)
  <2>1. worker[w] \in Delivery /\ worker[w].message \in Message
    BY <1>9, InHandType DEF LoseChannel
  <2>2. /\ worker'[w].pc = worker[w].pc /\ worker'[w].message = worker[w].message
        /\ \A x \in Workers \ {w} : worker'[x] = worker[x]
    BY <1>9, <2>1 DEF LoseChannel, TypeOK, Delivery
  <2>3. \A m \in Message : m # worker[w].message => work'[m] = work[m]
    BY <1>9, <2>1, AddToBag DEF LoseChannel, TypeOK
  <2>4. EventOf(w) = e => worker[w].pc = "trust" /\ worker[w].message.path = "original"
    BY <1>9 DEF Fresh, LoseChannel
  <2> QED BY <1>e, <1>9, <2>2, <2>3, <2>4, FreshByOne DEF LoseChannel, EventOf
\* past its trust decision, a delivery is not of e
<1>10. ASSUME worker[w] # Idle, worker[w].pc # "trust", worker'[w].message = worker[w].message,
              \A x \in Workers \ {w} : worker'[x] = worker[x], work' = work,
              \A m \in Message : m.event # EventOf(w) => retry'[m] = retry[m],
              \A d \in DeadLetter : d.event # EventOf(w) => dead'[d] = dead[d]
       PROVE  Fresh(e)'
  <2>1. EventOf(w) # e
    BY <1>10 DEF Fresh
  <2> QED BY <1>e, <1>10, <2>1, FreshByOne DEF EventOf
<1>11. CASE Handle(w) \/ EndRetries(w) \/ \E permanent, committed \in BOOLEAN : HandlerFails(w, permanent, committed)
  <2>1. worker'[w].message = worker[w].message /\ \A x \in Workers \ {w} : worker'[x] = worker[x]
    BY <1>11, MoveType, FailureType DEF Handle, EndRetries, HandlerFails, At
  <2> QED BY <1>10, <1>11, <2>1 DEF Handle, EndRetries, HandlerFails, queues, At
<1>12. CASE ScheduleRetry(w) \/ \E stored \in BOOLEAN : RetryUnconfirmed(w, stored)
  <2>1. worker'[w].message = worker[w].message /\ \A x \in Workers \ {w} : worker'[x] = worker[x]
    BY <1>12, MoveType DEF ScheduleRetry, RetryUnconfirmed, At
  <2>2. RetryCopy(w) \in Message /\ RetryCopy(w).event = EventOf(w)
    BY <1>12, InHandType DEF ScheduleRetry, RetryUnconfirmed, At
  <2>3. \A m \in Message : m.event # EventOf(w) => retry'[m] = retry[m]
    BY <1>12, <2>2, AddToBag DEF ScheduleRetry, RetryUnconfirmed, TypeOK
  <2> QED BY <1>10, <1>12, <2>1, <2>3 DEF ScheduleRetry, RetryUnconfirmed, At
<1>13. CASE KeepDeadLetter(w)
  <2>1. worker'[w].message = worker[w].message /\ \A x \in Workers \ {w} : worker'[x] = worker[x]
    BY <1>13, MoveType DEF KeepDeadLetter, At
  <2>2. DeadLetterOf(w) \in DeadLetter /\ DeadLetterOf(w).event = EventOf(w)
    BY <1>13, InHandType DEF KeepDeadLetter, At
  <2>3. \A d \in DeadLetter : d.event # EventOf(w) => dead'[d] = dead[d]
    BY <1>13, <2>2, AddToBag DEF KeepDeadLetter, TypeOK
  <2> QED BY <1>10, <1>13, <2>1, <2>3 DEF KeepDeadLetter, At
<1> QED BY <1>1, <1>2, <1>3, <1>4, <1>6, <1>7, <1>8, <1>9, <1>11, <1>12, <1>13 DEF WorkerStep

LEMMA FreshByOthers ==
    ASSUME TypeOK, NEW e \in Events, Fresh(e), ProducerStep \/ BrokerStep
    PROVE  Fresh(e)'
<1>1. ASSUME \A m \in Message : m.event = e /\ m.path = "copy" => work'[m] = work[m],
             \A m \in Message : m.event = e => retry'[m] = 0,
             \A d \in DeadLetter : d.event = e => dead'[d] = 0,
             worker' = worker
      PROVE  Fresh(e)'
  BY <1>1 DEF Fresh, EventOf
<1>2. ASSUME NEW f \in Events, \/ Route(f)
                               \/ work' = Add(work, Original(f))
                               \/ work' = work
      PROVE  \A m \in Message : m.path = "copy" => work'[m] = work[m]
  <2>1. Original(f) \in Message /\ Original(f).path = "original" /\ work \in [Message -> Nat]
    BY Copies DEF TypeOK
  <2>2. \A m \in Message : m # Original(f) => Add(work, Original(f))[m] = work[m]
    BY <2>1, AddToBag
  <2> QED BY <1>2, <2>1, <2>2 DEF Route
<1>3. CASE ProducerStep
  <2>1. retry' = retry /\ dead' = dead /\ worker' = worker
    BY <1>3 DEF ProducerStep, RelayStep, Enqueue, Attach, Reemit, Claim, PublishConfirmed, CommitBatch,
                PublishUnconfirmed, LoseBatch, queues, consumer
  <2>2. \A m \in Message : m.path = "copy" => work'[m] = work[m]
    BY <1>2, <1>3 DEF ProducerStep, RelayStep, Enqueue, Attach, Reemit, Claim, PublishConfirmed, CommitBatch,
                      PublishUnconfirmed, LoseBatch, queues
  <2> QED BY <1>1, <2>1, <2>2 DEF Fresh
<1>4. ASSUME NEW m \in Message, EndDelay(m)
      PROVE  Fresh(e)'
  <2>1. m.event # e
    BY <1>4 DEF EndDelay, Fresh
  <2>2. /\ \A n \in Message : n # m => retry'[n] = retry[n] /\ work'[n] = work[n]
        /\ dead' = dead /\ worker' = worker
    BY <1>4, AddToBag, RemoveFromBag DEF EndDelay, TypeOK, consumer
  <2> QED BY <1>1, <2>1, <2>2 DEF Fresh
<1>5. ASSUME NEW d \in DeadLetter, NEW acked \in BOOLEAN, ReplayDeadLetter(d, acked)
      PROVE  Fresh(e)'
  <2>1. d.event # e
    BY <1>5 DEF ReplayDeadLetter, Fresh
  <2>2. Copy(d.event, 0) \in Message /\ Copy(d.event, 0).event = d.event
    BY Copies, ConstantsAssumption DEF DeadLetter
  <2>3. \A n \in Message : n # Copy(d.event, 0) => work'[n] = work[n]
    BY <1>5, <2>2, AddToBag DEF ReplayDeadLetter, TypeOK
  <2>4. \A f \in DeadLetter : f # d => dead'[f] = dead[f]
    BY <1>5, RemoveFromBag DEF ReplayDeadLetter, TypeOK
  <2>5. retry' = retry /\ worker' = worker
    BY <1>5 DEF ReplayDeadLetter, consumer
  <2> QED BY <1>1, <2>1, <2>2, <2>3, <2>4, <2>5 DEF Fresh
<1> QED BY <1>3, <1>4, <1>5 DEF BrokerStep

LEMMA ProvenanceGrows ==
    ASSUME [Next]_vars
    PROVE  provenance \subseteq provenance'
BY Steps DEF ProducerStep, BrokerStep, DeliveryStep, RelayStep, WorkerStep, vars, consumer, Enqueue, Attach,
             Reemit, Claim, PublishConfirmed, CommitBatch, PublishUnconfirmed, LoseBatch, EndDelay, ReplayDeadLetter,
             Deliver, Trust, Refuse, Hold, Handle, HandlerFails, ScheduleRetry, RetryUnconfirmed,
             EndRetries, KeepDeadLetter, DeadLetterUnconfirmed, Settle, LoseChannel, StopWorker

-----------------------------------------------------------------------------
(* An event that is not recorded is nowhere *)

Nowhere(e) ==
    /\ \A m \in Message : m.event = e => work[m] = 0 /\ retry[m] = 0
    /\ \A d \in DeadLetter : d.event = e => dead[d] = 0
    /\ \A w \in Workers : worker[w] # Idle => EventOf(w) # e
    /\ \A r \in Relays : e \notin relay[r].todo

\* a step that adds nothing of e
LEMMA NowhereKept ==
    ASSUME NEW e \in Events, Nowhere(e),
           \A m \in Message : m.event = e => work'[m] = work[m] /\ retry'[m] = retry[m],
           \A d \in DeadLetter : d.event = e => dead'[d] = dead[d],
           \A w \in Workers : worker'[w] # Idle => \/ worker'[w].message.event # e
                                                   \/ worker[w] # Idle /\ worker'[w].message = worker[w].message,
           \A r \in Relays : e \in relay'[r].todo => e \in relay[r].todo
    PROVE  Nowhere(e)'
<1>1. \A m \in Message : m.event = e => work'[m] = 0 /\ retry'[m] = 0
  BY DEF Nowhere
<1>2. \A d \in DeadLetter : d.event = e => dead'[d] = 0
  BY DEF Nowhere
<1>3. \A w \in Workers : worker'[w] # Idle => worker'[w].message.event # e
  BY DEF Nowhere, EventOf
<1>4. \A r \in Relays : e \notin relay'[r].todo
  BY DEF Nowhere
<1> QED BY <1>1, <1>2, <1>3, <1>4 DEF Nowhere, EventOf

LEMMA NowhereByProducer ==
    ASSUME TypeOK, NEW e \in Events, Nowhere(e), outbox[e] = "none", ProducerStep
    PROVE  Nowhere(e)'
<1>1. retry' = retry /\ dead' = dead /\ worker' = worker
  BY DEF ProducerStep, RelayStep, Enqueue, Attach, Reemit, Claim, PublishConfirmed, CommitBatch,
         PublishUnconfirmed, LoseBatch, queues, consumer
<1>2. ASSUME NEW f \in Events, f # e, \/ Route(f)
                                      \/ work' = Add(work, Original(f))
      PROVE  \A m \in Message : m.event = e => work'[m] = work[m]
  <2>1. Original(f) \in Message /\ Original(f).event = f /\ work \in [Message -> Nat]
    BY Copies DEF TypeOK
  <2>2. \A m \in Message : m # Original(f) => Add(work, Original(f))[m] = work[m]
    BY <2>1, AddToBag
  <2> QED BY <1>2, <2>1, <2>2 DEF Route
<1>3. ASSUME \A m \in Message : m.event = e => work'[m] = work[m],
             \A r \in Relays : e \in relay'[r].todo => e \in relay[r].todo
      PROVE  Nowhere(e)'
  BY <1>1, <1>3, NowhereKept
<1>4. CASE Attach \/ \E f \in Events : Enqueue(f)
  BY <1>3, <1>4 DEF Attach, Enqueue, queues
<1>5. ASSUME NEW f \in Events, Reemit(f)
      PROVE  Nowhere(e)'
  BY <1>2, <1>3, <1>5 DEF Reemit, producer
<1>6. ASSUME NEW r \in Relays, NEW batch \in SUBSET Events, Claim(r, batch)
      PROVE  Nowhere(e)'
  <2>1. e \notin batch
    BY <1>6 DEF Claim
  <2>2. \A s \in Relays : e \in relay'[s].todo => e \in relay[s].todo
    BY <1>6, <2>1 DEF Claim, TypeOK
  <2> QED BY <1>3, <1>6, <2>2 DEF Claim, queues
<1>7. ASSUME NEW r \in Relays, relay[r] \in Transaction, NEW f \in Events, PublishConfirmed(r, f)
      PROVE  Nowhere(e)'
  <2>1. f # e
    BY <1>7 DEF PublishConfirmed, Nowhere
  <2>2. \A s \in Relays : e \in relay'[s].todo => e \in relay[s].todo
    BY <1>7 DEF PublishConfirmed, TypeOK, Transaction
  <2> QED BY <1>2, <1>3, <1>7, <2>1, <2>2 DEF PublishConfirmed
<1>8. ASSUME NEW r \in Relays, relay[r] \in Transaction, NEW f \in Events, NEW stored \in BOOLEAN,
             PublishUnconfirmed(r, f, stored)
      PROVE  Nowhere(e)'
  <2>1. f # e
    BY <1>8 DEF PublishUnconfirmed, Nowhere
  <2>2. \A s \in Relays : e \in relay'[s].todo => e \in relay[s].todo
    BY <1>8 DEF PublishUnconfirmed, Unconfirmed, TypeOK, Transaction
  <2> QED BY <1>2, <1>3, <1>8, <2>1, <2>2 DEF PublishUnconfirmed
<1>9. ASSUME NEW r \in Relays, CommitBatch(r) \/ LoseBatch(r)
      PROVE  Nowhere(e)'
  <2>1. \A s \in Relays : e \in relay'[s].todo => e \in relay[s].todo
    BY <1>9 DEF CommitBatch, LoseBatch, NoTransaction, TypeOK
  <2> QED BY <1>3, <1>9, <2>1 DEF CommitBatch, LoseBatch, queues
<1>10. \A r \in Relays : relay[r] \in Transaction
  BY DEF TypeOK
<1> QED BY <1>4, <1>5, <1>6, <1>7, <1>8, <1>9, <1>10 DEF ProducerStep, RelayStep

LEMMA NowhereByBroker ==
    ASSUME TypeOK, NEW e \in Events, Nowhere(e), BrokerStep
    PROVE  Nowhere(e)'
<1>1. relay' = relay /\ worker' = worker
  BY DEF BrokerStep, EndDelay, ReplayDeadLetter, producer, consumer
<1>2. ASSUME NEW m \in Message, EndDelay(m)
      PROVE  Nowhere(e)'
  <2>1. m.event # e
    BY <1>2 DEF EndDelay, Nowhere
  <2>2. (\A n \in Message : n # m => retry'[n] = retry[n] /\ work'[n] = work[n]) /\ dead' = dead
    <3>1. retry \in [Message -> Nat] /\ work \in [Message -> Nat]
      BY DEF TypeOK
    <3>2. /\ retry[m] > 0 /\ retry' = Remove(retry, m)
          /\ work' = Add(work, m) /\ dead' = dead
      BY <1>2 DEF EndDelay
    <3>3. \A n \in Message : n # m => retry'[n] = retry[n]
      BY <3>1, <3>2, RemoveFromBag
    <3>4. \A n \in Message : n # m => work'[n] = work[n]
      BY <3>1, <3>2, AddToBag
    <3> QED BY <3>2, <3>3, <3>4
  <2> QED BY <1>1, <2>1, <2>2, NowhereKept
<1>3. ASSUME NEW d \in DeadLetter, NEW acked \in BOOLEAN, ReplayDeadLetter(d, acked)
      PROVE  Nowhere(e)'
  <2>1. d.event # e
    BY <1>3 DEF ReplayDeadLetter, Nowhere
  <2>2. Copy(d.event, 0) \in Message /\ Copy(d.event, 0).event = d.event
    BY Copies, ConstantsAssumption DEF DeadLetter
  <2>3. \A n \in Message : n # Copy(d.event, 0) => work'[n] = work[n]
    BY <1>3, <2>2, AddToBag DEF ReplayDeadLetter, TypeOK
  <2>4. \A f \in DeadLetter : f # d => dead'[f] = dead[f]
    BY <1>3, RemoveFromBag DEF ReplayDeadLetter, TypeOK
  <2>5. retry' = retry
    BY <1>3 DEF ReplayDeadLetter
  <2> QED BY <1>1, <2>1, <2>2, <2>3, <2>4, <2>5, NowhereKept
<1> QED BY <1>2, <1>3 DEF BrokerStep

LEMMA NowhereByDelivery ==
    ASSUME TypeOK, NEW e \in Events, Nowhere(e), DeliveryStep
    PROVE  Nowhere(e)'
<1>1. relay' = relay
  BY DEF DeliveryStep, WorkerStep, producer, Deliver, Trust, Refuse, Hold, Handle, HandlerFails, ScheduleRetry,
         RetryUnconfirmed, EndRetries, KeepDeadLetter, DeadLetterUnconfirmed, Settle, LoseChannel, StopWorker
<1>2. PICK w \in Workers :
          \/ WorkerStep(w) \/ Hold(w) \/ LoseChannel(w) \/ StopWorker(w)
          \/ \E permanent, committed \in BOOLEAN : HandlerFails(w, permanent, committed)
          \/ \E stored \in BOOLEAN : RetryUnconfirmed(w, stored) \/ DeadLetterUnconfirmed(w, stored)
  BY DEF DeliveryStep
<1>3. worker[w] # Idle => /\ EventOf(w) # e /\ worker[w].message.event # e
                          /\ worker[w].message \in Message
                          /\ DeadLetterOf(w) \in DeadLetter /\ DeadLetterOf(w).event # e
                          /\ MayRetry(w) => RetryCopy(w) \in Message /\ RetryCopy(w).event # e
  BY InHandType DEF Nowhere, EventOf
<1>4. ASSUME \A x \in Workers \ {w} : worker'[x] = worker[x],
             \/ worker'[w] = Idle
             \/ worker'[w].message.event # e
             \/ worker[w] # Idle /\ worker'[w].message = worker[w].message,
             \A m \in Message : m.event = e => work'[m] = work[m] /\ retry'[m] = retry[m],
             \A d \in DeadLetter : d.event = e => dead'[d] = dead[d]
      PROVE  Nowhere(e)'
  <2>1. \A x \in Workers : worker'[x] # Idle => \/ worker'[x].message.event # e
                                                \/ worker[x] # Idle /\ worker'[x].message = worker[x].message
    <3>1. TAKE x \in Workers
    <3>2. CASE x = w
      BY <1>4, <3>2
    <3>3. CASE x # w
      <4>1. worker'[x] = worker[x]
        BY <1>4, <3>3
      <4> QED BY <4>1
    <3> QED BY <3>2, <3>3
  <2> QED BY <1>1, <1>4, <2>1, NowhereKept
<1>5. ASSUME NEW m \in Message, Deliver(w, m)
      PROVE  Nowhere(e)'
  <2>1. m.event # e
    BY <1>5 DEF Deliver, Nowhere
  <2>2. /\ \A n \in Message : n # m => work'[n] = work[n]
        /\ \A x \in Workers \ {w} : worker'[x] = worker[x]
        /\ worker'[w].message = m /\ retry' = retry /\ dead' = dead
    BY <1>5, RemoveFromBag DEF Deliver, TypeOK
  <2> QED BY <1>4, <2>1, <2>2
<1>6. ASSUME worker[w] # Idle, Requeue(w), retry' = retry,
             \A d \in DeadLetter : d.event = e => dead'[d] = dead[d]
      PROVE  Nowhere(e)'
  BY <1>3, <1>4, <1>6, RequeueType
<1>7. CASE Hold(w) \/ StopWorker(w)
  BY <1>6, <1>7 DEF Hold, StopWorker, At
<1>8. ASSUME NEW stored \in BOOLEAN, DeadLetterUnconfirmed(w, stored)
      PROVE  Nowhere(e)'
  <2>1. \A d \in DeadLetter : d.event = e => dead'[d] = dead[d]
    BY <1>3, <1>8, AddToBag DEF DeadLetterUnconfirmed, At, TypeOK
  <2> QED BY <1>6, <1>8, <2>1 DEF DeadLetterUnconfirmed, Deferred, At
<1>9. CASE Settle(w)
  <2>1. worker'[w] = Idle /\ \A x \in Workers \ {w} : worker'[x] = worker[x]
    BY <1>9 DEF Settle, TypeOK
  <2> QED BY <1>4, <1>9, <2>1 DEF Settle, queues
<1>10. CASE LoseChannel(w)
  <2>1. worker[w] \in Delivery /\ worker[w].message \in Message
    BY <1>10, InHandType DEF LoseChannel
  <2>2. worker'[w].message = worker[w].message /\ \A x \in Workers \ {w} : worker'[x] = worker[x]
    BY <1>10, <2>1 DEF LoseChannel, TypeOK, Delivery
  <2>3. \A m \in Message : m.event = e => work'[m] = work[m]
    BY <1>3, <1>10, AddToBag DEF LoseChannel, TypeOK
  <2> QED BY <1>4, <1>10, <2>2, <2>3 DEF LoseChannel
\* a delivery that goes on, with its own copy at most
<1>11. ASSUME worker[w] # Idle, worker'[w].message = worker[w].message, work' = work,
              \A x \in Workers \ {w} : worker'[x] = worker[x],
              retry' = retry \/ (MayRetry(w) /\ retry' = Add(retry, RetryCopy(w))),
              dead' = dead \/ dead' = Add(dead, DeadLetterOf(w))
       PROVE  Nowhere(e)'
  <2>1. \A m \in Message : m.event = e => work'[m] = work[m] /\ retry'[m] = retry[m]
    BY <1>3, <1>11, AddToBag DEF TypeOK
  <2>2. \A d \in DeadLetter : d.event = e => dead'[d] = dead[d]
    BY <1>3, <1>11, AddToBag DEF TypeOK
  <2> QED BY <1>4, <1>11, <2>1, <2>2
<1>12. CASE \/ Trust(w) \/ Refuse(w) \/ Handle(w) \/ EndRetries(w)
            \/ \E permanent, committed \in BOOLEAN : HandlerFails(w, permanent, committed)
  <2>1. worker'[w].message = worker[w].message /\ \A x \in Workers \ {w} : worker'[x] = worker[x]
    BY <1>12, MoveType, FailureType DEF Trust, Refuse, Handle, EndRetries, HandlerFails, At
  <2> QED BY <1>11, <1>12, <2>1 DEF Trust, Refuse, Handle, EndRetries, HandlerFails, queues, At
<1>13. CASE ScheduleRetry(w) \/ KeepDeadLetter(w) \/ \E stored \in BOOLEAN : RetryUnconfirmed(w, stored)
  <2>1. worker'[w].message = worker[w].message /\ \A x \in Workers \ {w} : worker'[x] = worker[x]
    BY <1>13, MoveType DEF ScheduleRetry, KeepDeadLetter, RetryUnconfirmed, At
  <2> QED BY <1>11, <1>13, <2>1 DEF ScheduleRetry, KeepDeadLetter, RetryUnconfirmed, At
<1> QED BY <1>2, <1>5, <1>7, <1>8, <1>9, <1>10, <1>12, <1>13 DEF WorkerStep

\* no step unrecords an event
LEMMA RecordedStays ==
    ASSUME TypeOK, [Next]_vars, NEW e \in Events, outbox'[e] = "none"
    PROVE  outbox[e] = "none"
<1>1. CASE ProducerStep
  BY <1>1 DEF ProducerStep, RelayStep, Enqueue, Attach, Reemit, Claim, PublishConfirmed, CommitBatch,
              PublishUnconfirmed, LoseBatch, producer, TypeOK
<1>2. CASE BrokerStep \/ DeliveryStep \/ UNCHANGED vars
  BY <1>2 DEF BrokerStep, DeliveryStep, WorkerStep, vars, producer, EndDelay, ReplayDeadLetter,
              Deliver, Trust, Refuse, Hold, Handle, HandlerFails, ScheduleRetry, RetryUnconfirmed,
              EndRetries, KeepDeadLetter, DeadLetterUnconfirmed, Settle, LoseChannel, StopWorker
<1> QED BY <1>1, <1>2, Steps

\* a delivery at its handler carries an event whose verified original was observed
Observed ==
    /\ provenance \subseteq Verified
    /\ \A w \in Workers : At(w, "handle") => EventOf(w) \in provenance

EffectInvariant ==
    /\ TypeOK
    /\ \A e \in Events : outbox[e] = "none" => Nowhere(e)
    /\ Observed
    /\ EffectOnce

LEMMA ObservedNext ==
    ASSUME TypeOK, Observed, [Next]_vars
    PROVE  Observed'
<1>1. ASSUME provenance' = provenance,
             \A w \in Workers : At(w, "handle")' => worker'[w] = worker[w]
      PROVE  Observed'
  <2>1. ASSUME NEW w \in Workers, At(w, "handle")'
        PROVE  EventOf(w)' \in provenance'
    <3>1. worker'[w] = worker[w]
      BY <1>1, <2>1
    <3> QED BY <1>1, <2>1, <3>1 DEF Observed, At, EventOf
  <2> QED BY <1>1, <2>1 DEF Observed
<1>2. CASE ProducerStep \/ BrokerStep \/ UNCHANGED vars
  <2>1. worker' = worker /\ provenance' = provenance
    BY <1>2 DEF ProducerStep, BrokerStep, RelayStep, vars, consumer, Enqueue, Attach, Reemit, Claim,
                PublishConfirmed, CommitBatch, PublishUnconfirmed, LoseBatch, EndDelay, ReplayDeadLetter
  <2> QED BY <1>1, <2>1
<1>3. CASE DeliveryStep
  <2>1. PICK w \in Workers :
            \/ WorkerStep(w) \/ Hold(w) \/ LoseChannel(w) \/ StopWorker(w)
            \/ \E permanent, committed \in BOOLEAN : HandlerFails(w, permanent, committed)
            \/ \E stored \in BOOLEAN : RetryUnconfirmed(w, stored) \/ DeadLetterUnconfirmed(w, stored)
    BY <1>3 DEF DeliveryStep
  <2>2. ASSUME provenance' = provenance, worker'[w] = Idle \/ worker'[w].pc # "handle",
               \A x \in Workers \ {w} : worker'[x] = worker[x]
        PROVE  Observed'
    <3>1. \A x \in Workers : At(x, "handle")' => worker'[x] = worker[x]
      BY <2>2 DEF At
    <3> QED BY <1>1, <2>2, <3>1
  <2>3. CASE Trust(w)
    <3>1. /\ worker'[w].message = worker[w].message
          /\ \A x \in Workers \ {w} : worker'[x] = worker[x]
          /\ provenance' = provenance \cup {EventOf(w)}
      BY <2>3, MoveType DEF Trust, At
    <3>2. EventOf(w) \in Verified
      BY <2>3 DEF Trust, Trusted, Observed, EventOf
    <3>3. \A x \in Workers : At(x, "handle")' => EventOf(x)' \in provenance'
      BY <3>1 DEF Observed, At, EventOf
    <3> QED BY <3>1, <3>2, <3>3 DEF Observed
  <2>4. CASE LoseChannel(w)
    <3>1. worker[w] \in Delivery
      BY <2>4, InHandType DEF LoseChannel
    <3>2. /\ worker'[w].pc = worker[w].pc /\ worker'[w].message = worker[w].message
          /\ \A x \in Workers \ {w} : worker'[x] = worker[x]
          /\ provenance' = provenance /\ worker[w] # Idle
      BY <2>4, <3>1 DEF LoseChannel, TypeOK, Delivery
    <3>3. \A x \in Workers : At(x, "handle")' => EventOf(x)' \in provenance'
      BY <3>2 DEF Observed, At, EventOf
    <3> QED BY <3>2, <3>3 DEF Observed
  <2>5. CASE \/ Handle(w) \/ ScheduleRetry(w) \/ EndRetries(w) \/ KeepDeadLetter(w)
             \/ \E stored \in BOOLEAN : RetryUnconfirmed(w, stored)
    BY <2>2, <2>5, MoveType DEF Handle, ScheduleRetry, EndRetries, KeepDeadLetter, RetryUnconfirmed, At
  <2>6. CASE Refuse(w) \/ \E permanent, committed \in BOOLEAN : HandlerFails(w, permanent, committed)
    BY <2>2, <2>6, MoveType, FailureType DEF Refuse, HandlerFails, At
  <2>7. CASE Hold(w) \/ StopWorker(w) \/ \E stored \in BOOLEAN : DeadLetterUnconfirmed(w, stored)
    BY <2>2, <2>7, RequeueType DEF Hold, StopWorker, DeadLetterUnconfirmed, Deferred, At
  <2>8. CASE Settle(w)
    BY <2>2, <2>8 DEF Settle, TypeOK
  <2>9. CASE \E m \in Message : Deliver(w, m)
    <3>1. worker'[w].pc = "trust" /\ \A x \in Workers \ {w} : worker'[x] = worker[x]
      BY <2>9 DEF Deliver, TypeOK
    <3> QED BY <2>2, <2>9, <3>1 DEF Deliver
  <2> QED BY <2>1, <2>3, <2>4, <2>5, <2>6, <2>7, <2>8, <2>9 DEF WorkerStep
<1> QED BY <1>2, <1>3, Steps

\* only the handler's transaction changes an effect
LEMMA EffectBy ==
    ASSUME TypeOK, [Next]_vars, effect' # effect
    PROVE  \E w \in Workers : At(w, "handle") /\ Commit(EventOf(w))
<1>1. CASE ProducerStep \/ BrokerStep \/ UNCHANGED vars
  BY <1>1 DEF ProducerStep, BrokerStep, RelayStep, vars, consumer, Enqueue, Attach, Reemit, Claim,
              PublishConfirmed, CommitBatch, PublishUnconfirmed, LoseBatch, EndDelay, ReplayDeadLetter
<1>2. CASE DeliveryStep
  BY <1>2 DEF DeliveryStep, WorkerStep, Deliver, Trust, Refuse, Hold, Handle, HandlerFails, ScheduleRetry,
              RetryUnconfirmed, EndRetries, KeepDeadLetter, DeadLetterUnconfirmed, Settle, LoseChannel, StopWorker
<1> QED BY <1>1, <1>2, Steps

-----------------------------------------------------------------------------
(* What no step takes back *)

\* A row stays recorded, and published once it is.  A committed effect is never committed again nor undone, and it is
\* the observation of a verified original, committed in an earlier transaction, that lets it be committed at all.
\* (outbox-relay.ts drainOnce, inbox.service.ts handle, trust.ts decideOriginal)
EventStays(e) ==
    /\ outbox[e] # "none" => outbox'[e] # "none"
    /\ outbox[e] = "published" => outbox'[e] = "published"
    /\ effect[e] > 0 => effect'[e] = effect[e]
    /\ effect'[e] # effect[e] => e \in provenance \cap Verified /\ outbox[e] # "none"
HistoryStays ==
    /\ bound => bound'
    /\ provenance \subseteq provenance'
    /\ dropped \subseteq dropped'
    /\ \A e \in Events : EventStays(e)

LEMMA PublishedStays ==
    ASSUME TypeOK, [Next]_vars
    PROVE  (bound => bound') /\ \A e \in Events : outbox[e] = "published" => outbox'[e] = "published"
<1>1. CASE \/ \E e \in Events : Enqueue(e)
           \/ Attach
  BY <1>1 DEF Enqueue, Attach, TypeOK
<1>2. CASE \/ \E e \in Events : Reemit(e)
           \/ \E r \in Relays : \/ LoseBatch(r)
                                \/ \E batch \in SUBSET Events : Claim(r, batch)
                                \/ \E e \in Events : PublishConfirmed(r, e)
                                \/ \E e \in Events, stored \in BOOLEAN : PublishUnconfirmed(r, e, stored)
  <2>1. (\E e \in Events : Reemit(e)) => bound' = bound /\ outbox' = outbox
    BY DEF Reemit, producer
  <2>2. \A r \in Relays : LoseBatch(r) \/ (\E batch \in SUBSET Events : Claim(r, batch))
                                => bound' = bound /\ outbox' = outbox
    BY DEF LoseBatch, Claim
  <2>3. \A r \in Relays, e \in Events : PublishConfirmed(r, e) => bound' = bound /\ outbox' = outbox
    BY DEF PublishConfirmed
  <2>4. \A r \in Relays, e \in Events, stored \in BOOLEAN :
            PublishUnconfirmed(r, e, stored) => bound' = bound /\ outbox' = outbox
    BY DEF PublishUnconfirmed
  <2>5. bound' = bound /\ outbox' = outbox
    BY <1>2, <2>1, <2>2, <2>3, <2>4
  <2> QED BY <2>5
<1>3. CASE \E r \in Relays : CommitBatch(r)
  BY <1>3 DEF CommitBatch
<1>4. CASE BrokerStep \/ DeliveryStep \/ UNCHANGED vars
  BY <1>4 DEF BrokerStep, DeliveryStep, WorkerStep, vars, producer, EndDelay, ReplayDeadLetter,
              Deliver, Trust, Refuse, Hold, Handle, HandlerFails, ScheduleRetry, RetryUnconfirmed,
              EndRetries, KeepDeadLetter, DeadLetterUnconfirmed, Settle, LoseChannel, StopWorker
<1> QED BY <1>1, <1>2, <1>3, <1>4, Steps DEF ProducerStep, RelayStep

\* an effect changes from none to one, when a handler commits it whose event was observed before
LEMMA EffectChanges ==
    ASSUME EffectInvariant, [Next]_vars, NEW e \in Events, effect'[e] # effect[e]
    PROVE  effect[e] = 0 /\ e \in provenance \cap Verified /\ outbox[e] # "none"
<1>1. TypeOK
  BY DEF EffectInvariant
<1>2. PICK w \in Workers : At(w, "handle") /\ Commit(EventOf(w))
  BY <1>1, EffectBy
<1>3. EventOf(w) \in Events
  BY <1>1, <1>2, InHandType DEF At
<1>4. e = EventOf(w)
  BY <1>1, <1>2, <1>3, CommitType
<1>5. e \in provenance /\ e \in Verified /\ outbox[e] # "none"
  BY <1>2, <1>4 DEF EffectInvariant, Observed, Nowhere, At
<1>6. effect[e] = 0
  BY <1>1, <1>2, <1>3, <1>4 DEF Commit, TypeOK
<1> QED BY <1>5, <1>6

-----------------------------------------------------------------------------
(* The theorems *)

\* TypeOK: every row, message and delivery keeps its shape.
THEOREM DeliveryTypeCorrect == Spec => []TypeOK
<1>1. Init => TypeOK
  BY InitType
<1>2. TypeOK /\ [Next]_vars => TypeOK'
  BY TypeNext
<1> QED BY <1>1, <1>2, PTL DEF Spec

\* NeverLost: an event stamped as published, or about to be, has its effect committed or
\* is in a queue or an unsettled delivery, unless no queue was bound to take it.
THEOREM NothingIsLost == Spec => []NeverLost
<1>1. Init => TypeOK /\ NeverLost
  BY InitType DEF Init, NeverLost, NoTransaction
<1>2. ASSUME TypeOK, NeverLost, [Next]_vars
      PROVE  NeverLost'
  <2>1. SUFFICES ASSUME NEW e \in Events, IsStamped(e)'
                 PROVE  Accounted(e)' \/ e \in dropped'
    BY DEF NeverLost, IsStamped
  <2>2. CASE IsStamped(e)
    <3>1. Accounted(e) \/ e \in dropped
      BY <1>2, <2>2 DEF NeverLost, IsStamped
    <3> QED BY <1>2, <3>1, AccountedIsKept, DroppedGrows
  <2>3. CASE work'[Original(e)] > 0
    BY <2>3, Copies DEF Accounted
  <2> QED BY <1>2, <2>1, <2>2, <2>3, NewlyStamped
<1>3. TypeOK /\ NeverLost /\ [Next]_vars => (TypeOK /\ NeverLost)'
  BY <1>2, TypeNext
<1> QED BY <1>1, <1>3, PTL DEF Spec

\* AckedIsAccounted: the broker gives up no message before the event's effect is
\* committed or its copy stored.
THEOREM AcksAreSafe == Spec => []AckedIsAccounted
<1>1. Init => TypeOK /\ AckedIsAccounted
  BY InitType DEF Init, AckedIsAccounted, At
<1>2. ASSUME TypeOK, AckedIsAccounted, [Next]_vars
      PROVE  AckedIsAccounted'
  <2>1. SUFFICES ASSUME NEW w \in Workers, At(w, "ack")'
                 PROVE  Accounted(EventOf(w))'
    BY DEF AckedIsAccounted
  <2>2. CASE At(w, "ack") /\ EventOf(w)' = EventOf(w)
    <3>1. EventOf(w) \in Events
      BY <1>2, <2>2, InHandType DEF At
    <3>2. PICK e \in Events : e = EventOf(w)
      BY <3>1
    <3>3. Accounted(e)
      BY <1>2, <2>2, <3>2 DEF AckedIsAccounted
    <3>4. Accounted(e)'
      BY <1>2, <3>3, AccountedIsKept
    <3>5. EventOf(w)' = e
      BY <2>2, <3>2
    <3> QED BY <3>4, <3>5 DEF Accounted, InHand
  <2> QED BY <1>2, <2>1, <2>2, NewlyAcked
<1>3. TypeOK /\ AckedIsAccounted /\ [Next]_vars => (TypeOK /\ AckedIsAccounted)'
  BY <1>2, TypeNext
<1> QED BY <1>1, <1>3, PTL DEF Spec

\* CopiesAreTrusted: the original of a verified event is observed before a copy exists.
THEOREM CopiesAreNeverRefused == Spec => []CopiesAreTrusted
<1>1. CopiesAreTrusted <=> \A e \in Verified \ provenance : Fresh(e)
  BY DEF CopiesAreTrusted, Fresh
<1>2. Init => TypeOK /\ CopiesAreTrusted
  BY InitType, ConstantsAssumption DEF Init, CopiesAreTrusted
<1>3. ASSUME TypeOK, CopiesAreTrusted, [Next]_vars
      PROVE  CopiesAreTrusted'
  <2>1. SUFFICES ASSUME NEW e \in Verified, e \notin provenance'
                 PROVE  Fresh(e)'
    BY DEF CopiesAreTrusted, Fresh
  <2>2. e \in Events /\ Fresh(e)
    BY <1>1, <1>3, <2>1, ProvenanceGrows, ConstantsAssumption
  <2>3. CASE UNCHANGED vars
    BY <2>2, <2>3 DEF vars, queues, consumer, Fresh, EventOf
  <2> QED BY <1>3, <2>1, <2>2, <2>3, Steps, FreshByDelivery, FreshByOthers
<1>4. TypeOK /\ CopiesAreTrusted /\ [Next]_vars => (TypeOK /\ CopiesAreTrusted)'
  BY <1>3, TypeNext
<1> QED BY <1>2, <1>4, PTL DEF Spec

LEMMA EffectInvariantAlways == Spec => []EffectInvariant
<1>1. Init => EffectInvariant
  BY InitType DEF Init, EffectInvariant, Nowhere, Observed, EffectOnce, At, NoTransaction
<1>2. ASSUME EffectInvariant, [Next]_vars
      PROVE  EffectInvariant'
  <2>1. TypeOK /\ TypeOK' /\ Observed'
    BY <1>2, TypeNext, ObservedNext DEF EffectInvariant
  <2>2. ASSUME NEW e \in Events, outbox'[e] = "none"
        PROVE  Nowhere(e)'
    <3>1. outbox[e] = "none" /\ Nowhere(e)
      BY <1>2, <2>1, <2>2, RecordedStays DEF EffectInvariant
    <3>2. CASE UNCHANGED vars
      BY <3>1, <3>2 DEF vars, producer, queues, consumer, Nowhere, EventOf
    <3> QED BY <1>2, <2>1, <3>1, <3>2, Steps, NowhereByProducer, NowhereByBroker, NowhereByDelivery
  <2>3. EffectOnce'
    <3>1. ASSUME NEW e \in Events
          PROVE  effect'[e] <= (IF outbox'[e] # "none" /\ e \in provenance' \cap Verified THEN 1 ELSE 0)
      <4>1. outbox[e] # "none" => outbox'[e] # "none"
        BY <1>2, <2>1, RecordedStays
      <4>2. provenance \subseteq provenance'
        BY <1>2, ProvenanceGrows
      <4>3. effect[e] <= (IF outbox[e] # "none" /\ e \in provenance \cap Verified THEN 1 ELSE 0)
        BY <1>2 DEF EffectInvariant, EffectOnce
      <4>4. CASE effect'[e] = effect[e]
        BY <2>1, <4>1, <4>2, <4>3, <4>4 DEF TypeOK
      <4>5. CASE effect'[e] # effect[e]
        <5>1. PICK w \in Workers : At(w, "handle") /\ Commit(EventOf(w))
          BY <1>2, <2>1, <4>5, EffectBy
        <5>2. EventOf(w) \in Events
          BY <2>1, <5>1, InHandType DEF At
        <5>3. e = EventOf(w)
          BY <2>1, <4>5, <5>1, <5>2, CommitType
        <5>4. e \in provenance /\ e \in Verified /\ outbox[e] # "none"
          BY <1>2, <5>1, <5>3 DEF EffectInvariant, Observed, Nowhere, At
        <5>5. effect'[e] = 1
          BY <2>1, <4>5, <5>1, <5>3 DEF Commit, TypeOK
        <5> QED BY <4>1, <4>2, <5>4, <5>5
      <4> QED BY <4>4, <4>5
    <3> QED BY <3>1 DEF EffectOnce
  <2> QED BY <2>1, <2>2, <2>3 DEF EffectInvariant
<1>3. EffectInvariant /\ [Next]_vars => EffectInvariant'
  BY <1>2
<1> QED BY <1>1, <1>3, PTL DEF Spec

\* EffectOnce: the effect of an event is committed at most once, and only for a recorded
\* event whose verified original was observed.
THEOREM EffectsAreOnce == Spec => []EffectOnce
<1>1. EffectInvariant => EffectOnce
  BY DEF EffectInvariant
<1> QED BY <1>1, EffectInvariantAlways, PTL

\* HistoryStays: no step, faulty or not, takes back that an event is recorded, published,
\* observed or dropped, nor its effect, and none commits an effect before the observation.
THEOREM HistoryStaysAlways == Spec => [][HistoryStays]_vars
<1>1. ASSUME EffectInvariant, [Next]_vars
      PROVE  HistoryStays
  <2>1. TypeOK
    BY <1>1 DEF EffectInvariant
  <2>2. ASSUME NEW e \in Events
        PROVE  EventStays(e)
    <3>1. outbox[e] # "none" => outbox'[e] # "none"
      BY <1>1, <2>1, RecordedStays
    <3>2. outbox[e] = "published" => outbox'[e] = "published"
      BY <1>1, <2>1, PublishedStays
    <3>3. effect'[e] # effect[e] => effect[e] = 0 /\ e \in provenance \cap Verified /\ outbox[e] # "none"
      BY <1>1, EffectChanges
    <3> QED BY <3>1, <3>2, <3>3 DEF EventStays
  <2>3. bound => bound'
    BY <1>1, <2>1, PublishedStays
  <2>4. provenance \subseteq provenance'
    BY <1>1, ProvenanceGrows
  <2>5. dropped \subseteq dropped'
    BY <1>1, <2>1, DroppedGrows
  <2> QED BY <2>2, <2>3, <2>4, <2>5 DEF HistoryStays
<1>2. EffectInvariant /\ [Next]_vars => [HistoryStays]_vars
  BY <1>1
<1> QED BY <1>2, EffectInvariantAlways, PTL DEF Spec
=============================================================================
