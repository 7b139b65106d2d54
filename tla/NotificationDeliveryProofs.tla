---------------------- MODULE NotificationDeliveryProofs ----------------------
(***************************************************************************)
(* Proofs about NotificationDelivery, for every number of deliveries and   *)
(* workers, every budget of attempts and any number of crashes, lost       *)
(* leases and renewals.  The deliveries of a notification only share its   *)
(* secret: Local is the inductive invariant of one of them, and a step     *)
(* does to each one of the moves of the section `Moves'.  What follows of  *)
(* the moves is shown of every step: IInv holds after it, and the evidence *)
(* that was there stays.                                                   *)
(***************************************************************************)
EXTENDS NotificationDelivery, FiniteSetTheorems, SequenceTheorems, TLAPS

-----------------------------------------------------------------------------
(* The inductive invariant *)

\* the type invariant needs that an answered claim has its answer
Types ==
    /\ TypeOK
    /\ \A w \in Workers, d \in Deliveries :
          Phased(w, d, "answered") => claim[w][d].result \in Answered

Live     == {"PENDING", "SENDING"}
Unsent   == {"queued", "proceed", "withdraw", "expire"}
Calling  == {"started", "answered"}
Unaccepted == {"RETRYABLE_FAILURE", "TERMINAL_FAILURE"}

\* the attempts the provider may have accepted, and those of them whose claim
\* knows that it has not, or not yet
Maybe(d) == {n \in DOMAIN attempt[d] : attempt[d][n] \in {"STARTED", "ACCEPTED", "AMBIGUOUS"}}
Opened(w, d) ==
    \/ Phased(w, d, "started")
    \/ Phased(w, d, "answered") /\ claim[w][d].result \in Unaccepted
Open(d) == {n \in DOMAIN attempt[d] : \E w \in Workers : Opened(w, d) /\ claim[w][d].number = n}

\* a token is only held while the delivery is being sent; its holder has not
\* begun an attempt, or has begun the last one
LeaseAgrees(d) ==
    /\ lease[d] # None => delivery[d].status = "SENDING"
    /\ \A w \in Workers : lease[d] = w =>
          /\ claim[w][d].phase \in Unsent => Started(d) = {}
          /\ claim[w][d].phase \in Calling =>
                claim[w][d].number = Len(attempt[d]) /\ Started(d) = {Len(attempt[d])}

\* whoever calls the provider has an attempt of its own, even after it lost the lease
CallsAreOwn(d) ==
    \A w \in Workers : claim[w][d].phase \in Calling =>
       /\ claim[w][d].number \in DOMAIN attempt[d]
       /\ attempt[d][claim[w][d].number] \in {"STARTED", "AMBIGUOUS"}
       /\ \A v \in Workers : claim[v][d].phase \in Calling /\ claim[v][d].number = claim[w][d].number => v = w

\* what one delivery contributes to EvidenceAgrees
Told(d) ==
    LET row == delivery[d]  tries == attempt[d] IN
    /\ Started(d) \subseteq {Len(tries)}
    /\ Started(d) # {} => row.status = "SENDING"
    /\ row.status = "SENT" <=> \E n \in DOMAIN tries : tries[n] = "ACCEPTED"
    /\ \A n \in DOMAIN tries : tries[n] = "ACCEPTED" => n = Len(tries)
    /\ Len(tries) <= MaxAttempts + row.resends

\* the budget: before another attempt there is room for it, and every message that
\* may have been accepted before was followed by the resend
Budget(d) ==
    /\ Cardinality(Maybe(d)) <= 1 + delivery[d].resends
    /\ delivery[d].status \in Live /\ Started(d) = {} =>
          /\ Len(attempt[d]) < MaxAttempts + delivery[d].resends
          /\ Cardinality(Maybe(d)) <= delivery[d].resends

Counted(d) == accepted[d] <= Cardinality(Maybe(d) \ Open(d))

\* after a cancellation the holder of the lease may start once, if it has read before
LateOnce(d) ==
    /\ late[d] <= 1
    /\ late[d] # 0 => cancelled
    /\ late[d] # 0 => \A w \in Workers : lease[d] = w => ~ Phased(w, d, "proceed")

Local(d) == /\ LeaseAgrees(d) /\ CallsAreOwn(d) /\ Told(d)
            /\ Budget(d) /\ Counted(d) /\ LateOnce(d)

\* only a one-time code is resent
ResendIsOfCode == \A d \in Deliveries : delivery[d].resends = 1 => secret # "none"

IInv == /\ Types
        /\ \A d \in Deliveries : Local(d)
        /\ ResendIsOfCode
        /\ SecretLifetime

-----------------------------------------------------------------------------
(* Moves: what a step can do to one delivery *)

SameClaims(d, W) == \A w \in W : claim'[w][d] = claim[w][d] \/ claim'[w][d] = NoClaim

\* nothing the attempts depend on: claims are read on, or dropped, a lease is lost
Frame(d) ==
    /\ delivery'[d].status = delivery[d].status /\ delivery'[d].resends = delivery[d].resends
    /\ attempt'[d] = attempt[d] /\ accepted'[d] = accepted[d] /\ late'[d] = late[d]
    /\ lease'[d] = lease[d] \/ lease'[d] = None
    /\ \A w \in Workers :
          \/ claim'[w][d] = claim[w][d]
          \/ claim'[w][d] = NoClaim
          \/ /\ Phased(w, d, "queued") /\ claim'[w][d].phase \in Unsent
             /\ claim'[w][d].phase = "proceed" => ~ cancelled
    /\ cancelled => cancelled'

\* it becomes due again, or ends, with no attempt open
Settled(d) ==
    /\ delivery[d].status \in Live /\ Started(d) = {}
    /\ delivery'[d].status \in {"PENDING", "FAILED", "EXPIRED", "CANCELLED"}
    /\ delivery'[d].resends = delivery[d].resends
    /\ lease'[d] = None
    /\ attempt'[d] = attempt[d] /\ accepted'[d] = accepted[d] /\ late'[d] = late[d]
    /\ SameClaims(d, Workers)
    /\ cancelled => cancelled'

Claimed(d, w) ==
    /\ delivery[d].status = "PENDING" /\ delivery'[d].status = "SENDING"
    /\ delivery'[d].resends = delivery[d].resends
    /\ lease'[d] = w
    /\ Phased(w, d, "none") /\ claim'[w][d].phase = "queued"
    /\ attempt'[d] = attempt[d] /\ accepted'[d] = accepted[d] /\ late'[d] = late[d]
    /\ SameClaims(d, Workers \ {w})
    /\ cancelled' = cancelled

Begun(d, w) ==
    /\ lease[d] = w /\ Phased(w, d, "proceed")
    /\ attempt'[d] = Append(attempt[d], "STARTED")
    /\ claim'[w][d] = [phase |-> "started", number |-> Len(attempt[d]) + 1, result |-> None]
    /\ late'[d] = IF cancelled THEN late[d] + 1 ELSE late[d]
    /\ delivery'[d].status = delivery[d].status /\ delivery'[d].resends = delivery[d].resends
    /\ lease'[d] = lease[d] /\ accepted'[d] = accepted[d]
    /\ \A v \in Workers \ {w} : claim'[v][d] = claim[v][d]
    /\ cancelled' = cancelled

Called(d, w) ==
    /\ Phased(w, d, "started")
    /\ \E result \in Answered :
          /\ claim'[w][d].phase = "answered" /\ claim'[w][d].result = result
          /\ claim'[w][d].number = claim[w][d].number
          /\ accepted'[d] = accepted[d] \/ (result \notin Unaccepted /\ accepted'[d] = accepted[d] + 1)
    /\ delivery'[d] = delivery[d] /\ lease'[d] = lease[d]
    /\ attempt'[d] = attempt[d] /\ late'[d] = late[d]
    /\ \A v \in Workers \ {w} : claim'[v][d] = claim[v][d]
    /\ cancelled' = cancelled

\* what becomes of a delivery whose attempt is ambiguous
Doubted(d) ==
    \/ /\ delivery'[d].status = "PENDING"
       /\ delivery[d].resends = 0 /\ delivery'[d].resends = 1
    \/ /\ delivery'[d].status = "UNCONFIRMED"
       /\ delivery'[d].resends = delivery[d].resends

Finished(d, w) ==
    LET number == claim[w][d].number  result == claim[w][d].result IN
    /\ lease[d] = w /\ Phased(w, d, "answered") /\ lease'[d] = None
    /\ attempt'[d] = [attempt[d] EXCEPT ![number] = result]
    /\ \/ result = "AMBIGUOUS" /\ Doubted(d)
       \/ /\ delivery'[d].resends = delivery[d].resends
          /\ \/ result = "ACCEPTED" /\ delivery'[d].status = "SENT"
             \/ result \in Unaccepted /\ delivery'[d].status \in {"FAILED", "EXPIRED"}
             \/ /\ result \in Unaccepted /\ number < MaxAttempts
                /\ delivery'[d].status = "PENDING"
    /\ claim'[w][d] = NoClaim
    /\ \A v \in Workers \ {w} : claim'[v][d] = claim[v][d]
    /\ accepted'[d] = accepted[d] /\ late'[d] = late[d]
    /\ cancelled' = cancelled

Recovered(d) ==
    /\ Started(d) # {} /\ lease'[d] = None
    /\ attempt'[d] = [n \in DOMAIN attempt[d] |->
                        IF attempt[d][n] = "STARTED" THEN "AMBIGUOUS" ELSE attempt[d][n]]
    /\ Doubted(d)
    /\ \A v \in Workers : claim'[v][d] = claim[v][d]
    /\ accepted'[d] = accepted[d] /\ late'[d] = late[d]
    /\ cancelled' = cancelled

-----------------------------------------------------------------------------
(* Every move keeps what is known of the delivery *)

\* what the type invariant says of one delivery
Typed(d) ==
    /\ delivery[d] \in [status : Status, resends : 0..1, lapsed : BOOLEAN]
    /\ attempt[d] \in Seq(Outcome)
    /\ lease[d] \in Workers \cup {None}
    /\ \A w \in Workers : claim[w][d] \in [phase : Phase, number : Nat, result : Answered \cup {None}]
    /\ \A w \in Workers : Phased(w, d, "answered") => claim[w][d].result \in Answered
    /\ accepted[d] \in Nat /\ late[d] \in Nat

LEMMA TypesOfOne ==
    ASSUME Types, NEW d \in Deliveries
    PROVE  Typed(d)
BY DEF Types, TypeOK, Typed

LEMMA MaybeFinite ==
    ASSUME NEW d, Typed(d)
    PROVE  /\ IsFiniteSet(Maybe(d)) /\ Cardinality(Maybe(d)) \in Nat
           /\ \A S \in SUBSET Maybe(d) : /\ IsFiniteSet(S) /\ Cardinality(S) \in Nat
                                         /\ Cardinality(S) <= Cardinality(Maybe(d))
<1>1. /\ Len(attempt[d]) \in Nat /\ DOMAIN attempt[d] = 1..Len(attempt[d])
  BY DEF Typed
<1>2. IsFiniteSet(1..Len(attempt[d]))
  BY <1>1, FS_Interval
<1>3. Maybe(d) \in SUBSET (1..Len(attempt[d]))
  BY <1>1 DEF Maybe
<1>4. IsFiniteSet(Maybe(d))
  BY <1>2, <1>3, FS_Subset
<1> QED BY <1>4, FS_Subset, FS_CardinalityType

\* as long as the attempts stay and nobody begins a call, the calls stay counted
LEMMA CallsKept ==
    ASSUME NEW d \in Deliveries, Typed(d), CallsAreOwn(d), Counted(d),
           attempt'[d] = attempt[d], accepted'[d] = accepted[d],
           \A w \in Workers : claim'[w][d].phase \in Calling => claim'[w][d] = claim[w][d]
    PROVE  /\ Started(d)' = Started(d) /\ Maybe(d)' = Maybe(d)
           /\ CallsAreOwn(d)' /\ Counted(d)'
<1>1. Started(d)' = Started(d) /\ Maybe(d)' = Maybe(d)
  BY DEF Started, Maybe
<1>2. CallsAreOwn(d)'
  BY DEF CallsAreOwn
<1>3. Open(d)' \subseteq Open(d)
  <2>1. \A w \in Workers : Opened(w, d)' => claim'[w][d] = claim[w][d]
    BY DEF Opened, Phased, Calling
  <2> QED BY <2>1 DEF Open, Opened, Phased
<1>4. (Maybe(d) \ Open(d)) \in SUBSET (Maybe(d) \ Open(d)') /\ (Maybe(d) \ Open(d)') \in SUBSET Maybe(d)
  BY <1>3
<1>5. IsFiniteSet(Maybe(d) \ Open(d)')
  BY <1>4, MaybeFinite
<1>6. /\ Cardinality(Maybe(d) \ Open(d)) <= Cardinality(Maybe(d) \ Open(d)')
      /\ Cardinality(Maybe(d) \ Open(d)) \in Nat /\ Cardinality(Maybe(d) \ Open(d)') \in Nat
  BY <1>4, <1>5, FS_Subset, FS_CardinalityType, MaybeFinite
<1>7. accepted[d] \in Nat /\ accepted[d] <= Cardinality(Maybe(d) \ Open(d))
  BY DEF Typed, Counted
<1> QED BY <1>1, <1>2, <1>6, <1>7 DEF Counted

LEMMA FrameKeeps ==
    ASSUME NEW d \in Deliveries, Typed(d), Local(d), Frame(d)
    PROVE  Local(d)'
<1>1. /\ Started(d)' = Started(d) /\ Maybe(d)' = Maybe(d)
      /\ \A w \in Workers : claim'[w][d].phase \in Calling => claim'[w][d] = claim[w][d]
      /\ \A w \in Workers : claim'[w][d].phase \in Unsent => claim[w][d].phase \in Unsent
  BY DEF Frame, Started, Maybe, NoClaim, Phased, Calling, Unsent
<1>0. \A w \in Workers : lease'[d] = w => lease[d] = w
  BY ConstantsAssumption DEF Frame
<1>2. LeaseAgrees(d)'
  <2>1. lease'[d] # None => delivery'[d].status = "SENDING"
    BY DEF LeaseAgrees, Local, Frame
  <2>2. ASSUME NEW w \in Workers, lease'[d] = w, claim'[w][d].phase \in Unsent
        PROVE  Started(d)' = {}
    BY <2>2, <1>0, <1>1 DEF LeaseAgrees, Local
  <2>3. ASSUME NEW w \in Workers, lease'[d] = w, claim'[w][d].phase \in Calling
        PROVE  claim'[w][d].number = Len(attempt'[d]) /\ Started(d)' = {Len(attempt'[d])}
    <3>1. claim'[w][d] = claim[w][d] /\ lease[d] = w
      BY <2>3, <1>0, <1>1
    <3>2. attempt'[d] = attempt[d] /\ Started(d)' = Started(d)
      BY <1>1 DEF Frame
    <3> QED BY <2>3, <3>1, <3>2 DEF LeaseAgrees, Local
  <2> QED BY <2>1, <2>2, <2>3 DEF LeaseAgrees
<1>3. CallsAreOwn(d)' /\ Counted(d)'
  BY <1>1, CallsKept DEF Local, Frame
<1>4. Told(d)'
  BY <1>1 DEF Told, Local, Frame
<1>5. Budget(d)'
  BY <1>1 DEF Budget, Local, Frame
<1>7. LateOnce(d)'
  <2>1. late'[d] = late[d] /\ (cancelled => cancelled')
    BY DEF Frame
  <2>2. ASSUME late'[d] # 0, NEW w \in Workers, lease'[d] = w, claim'[w][d].phase = "proceed"
        PROVE  FALSE
    <3>1. cancelled /\ lease[d] = w /\ claim[w][d].phase # "proceed"
      BY <2>1, <2>2, <1>0 DEF LateOnce, Local, Phased
    <3>2. /\ claim'[w][d] # claim[w][d]
          /\ claim'[w][d] # NoClaim
      BY <2>2, <3>1 DEF NoClaim
    <3> QED BY <2>2, <3>1, <3>2 DEF Frame
  <2> QED BY <2>1, <2>2 DEF LateOnce, Local, Phased
<1> QED BY <1>2, <1>3, <1>4, <1>5, <1>7 DEF Local

LEMMA SettledKeeps ==
    ASSUME NEW d \in Deliveries, Typed(d), Local(d), Settled(d)
    PROVE  Local(d)'
<1>1. \A w \in Workers : claim'[w][d].phase \in Calling => claim'[w][d] = claim[w][d]
  BY DEF Settled, SameClaims, NoClaim, Calling
<1>2. /\ Started(d)' = {} /\ Maybe(d)' = Maybe(d)
      /\ CallsAreOwn(d)' /\ Counted(d)'
  BY <1>1, CallsKept DEF Local, Settled
<1>3. LeaseAgrees(d)' /\ LateOnce(d)'
  BY ConstantsAssumption DEF LeaseAgrees, LateOnce, Local, Settled
<1>4. Told(d)'
  BY <1>2 DEF Told, Local, Settled, Live
<1>5. /\ Len(attempt[d]) < MaxAttempts + delivery[d].resends
      /\ Cardinality(Maybe(d)) <= delivery[d].resends
      /\ Cardinality(Maybe(d)) <= 1 + delivery[d].resends
  BY DEF Budget, Local, Settled
<1>6. Budget(d)'
  BY <1>2, <1>5 DEF Budget, Settled
<1> QED BY <1>2, <1>3, <1>4, <1>6 DEF Local

LEMMA ClaimedKeeps ==
    ASSUME NEW d \in Deliveries, NEW w \in Workers, Typed(d), Local(d), Claimed(d, w)
    PROVE  Local(d)'
<1>1. \A v \in Workers : claim'[v][d].phase \in Calling => claim'[v][d] = claim[v][d]
  BY DEF Claimed, SameClaims, NoClaim, Calling
<1>2. Started(d) = {}
  BY DEF Told, Local, Claimed
<1>3. /\ Started(d)' = {} /\ Maybe(d)' = Maybe(d)
      /\ CallsAreOwn(d)' /\ Counted(d)'
  BY <1>1, <1>2, CallsKept DEF Local, Claimed
<1>4. LeaseAgrees(d)'
  BY <1>3 DEF LeaseAgrees, Claimed, Calling
<1>5. LateOnce(d)'
  BY DEF LateOnce, Local, Claimed, Phased
<1>6. Told(d)'
  BY <1>3 DEF Told, Local, Claimed
<1>7. /\ Len(attempt[d]) < MaxAttempts + delivery[d].resends
      /\ Cardinality(Maybe(d)) <= delivery[d].resends
      /\ Cardinality(Maybe(d)) <= 1 + delivery[d].resends
  BY <1>2 DEF Budget, Local, Claimed, Live
<1>8. Budget(d)'
  BY <1>3, <1>7 DEF Budget, Claimed
<1> QED BY <1>3, <1>4, <1>5, <1>6, <1>8 DEF Local

LEMMA BegunKeeps ==
    ASSUME NEW d \in Deliveries, NEW w \in Workers, Typed(d), Local(d), Begun(d, w)
    PROVE  Local(d)'
<1> DEFINE n == Len(attempt[d]) + 1
<1>0. /\ Len(attempt[d]) \in Nat /\ DOMAIN attempt[d] = 1..Len(attempt[d])
      /\ delivery[d].resends \in 0..1 /\ MaxAttempts \in Nat
      /\ late[d] \in Nat /\ accepted[d] \in Nat
  BY ConstantsAssumption DEF Typed
<1>1. /\ delivery[d].status = "SENDING" /\ Started(d) = {} /\ w # None
  BY ConstantsAssumption DEF Begun, Local, LeaseAgrees, Phased, Unsent
<1>2. /\ Len(attempt'[d]) = n /\ DOMAIN attempt'[d] = 1..n
      /\ attempt'[d][n] = "STARTED"
      /\ \A m \in DOMAIN attempt[d] : m # n /\ m \in 1..n /\ attempt'[d][m] = attempt[d][m]
      /\ \A m \in DOMAIN attempt'[d] : m = n \/ m \in DOMAIN attempt[d]
  BY <1>0 DEF Begun, Typed
<1>3. \A v \in Workers : claim[v][d].phase \in Calling => v # w /\ claim'[v][d] = claim[v][d]
  BY DEF Begun, Phased, Calling
<1>4. \A v \in Workers \ {w} : claim'[v][d] = claim[v][d]
  BY DEF Begun
<1>5. /\ claim'[w][d].phase = "started" /\ claim'[w][d].number = n
  BY DEF Begun
<1>6. Started(d)' = {n}
  BY <1>1, <1>2 DEF Started
<1>7. Maybe(d)' = Maybe(d) \cup {n} /\ n \notin Maybe(d)
  BY <1>2 DEF Maybe
<1>8. LeaseAgrees(d)'
  <2>1. lease'[d] = w /\ delivery'[d].status = "SENDING"
    BY <1>1 DEF Begun
  <2> QED BY <2>1, <1>2, <1>5, <1>6 DEF LeaseAgrees, Unsent
<1>9. CallsAreOwn(d)'
  <2>1. \A v \in Workers \ {w} : claim'[v][d].phase \in Calling =>
           /\ claim'[v][d].number \in DOMAIN attempt[d]
           /\ attempt[d][claim'[v][d].number] \in {"STARTED", "AMBIGUOUS"}
           /\ \A u \in Workers \ {w} : claim'[u][d].phase \in Calling /\ claim'[u][d].number = claim'[v][d].number => u = v
    BY <1>4 DEF CallsAreOwn, Local
  <2> QED BY <2>1, <1>2, <1>5 DEF CallsAreOwn
<1>10. Told(d)'
  <2>1. \A m \in DOMAIN attempt[d] : attempt[d][m] # "ACCEPTED"
    BY <1>1 DEF Told, Local
  <2>2. \A m \in DOMAIN attempt'[d] : attempt'[d][m] # "ACCEPTED"
    BY <2>1, <1>2
  <2>3. n <= MaxAttempts + delivery[d].resends
    BY <1>0, <1>1 DEF Budget, Local, Live
  <2>4. delivery'[d].status = "SENDING" /\ delivery'[d].resends = delivery[d].resends
    BY <1>1 DEF Begun
  <2> QED BY <2>2, <2>3, <2>4, <1>2, <1>6 DEF Told
<1>11. Budget(d)'
  <2>1. Cardinality(Maybe(d)) <= delivery[d].resends /\ Cardinality(Maybe(d)) \in Nat
    BY <1>1, MaybeFinite DEF Budget, Local, Live
  <2>2. Cardinality(Maybe(d)') = Cardinality(Maybe(d)) + 1
    BY <1>7, MaybeFinite, FS_AddElement
  <2>3. delivery'[d].resends = delivery[d].resends /\ Started(d)' # {}
    BY <1>6 DEF Begun
  <2> QED BY <2>1, <2>2, <2>3, <1>0 DEF Budget
<1>12. Counted(d)'
  <2>1. \A v \in Workers : Opened(v, d)' <=> (v = w \/ Opened(v, d))
    BY <1>3, <1>4, <1>5 DEF Opened, Phased, Calling
  <2>2. \A v \in Workers : Opened(v, d) => claim'[v][d].number = claim[v][d].number
    BY <1>3 DEF Opened, Phased, Calling
  <2>3. \A m \in DOMAIN attempt[d] : m \in Open(d)' <=> m \in Open(d)
    BY <2>1, <2>2, <1>2, <1>5 DEF Open
  <2>4. n \in Open(d)'
    BY <2>1, <1>2, <1>5, <1>0 DEF Open
  <2>5. Maybe(d)' \ Open(d)' = Maybe(d) \ Open(d)
    BY <2>3, <2>4, <1>7 DEF Maybe
  <2> QED BY <2>5 DEF Counted, Local, Begun
<1>13. LateOnce(d)'
  <2>1. cancelled => late[d] = 0
    BY DEF LateOnce, Local, Begun
  <2>2. lease'[d] = w /\ ~ Phased(w, d, "proceed")'
    BY <1>5 DEF Begun, Phased
  <2> QED BY <2>1, <2>2, <1>0 DEF LateOnce, Local, Begun
<1> QED BY <1>8, <1>9, <1>10, <1>11, <1>12, <1>13 DEF Local

LEMMA CalledKeeps ==
    ASSUME NEW d \in Deliveries, NEW w \in Workers, Typed(d), Local(d), Called(d, w)
    PROVE  Local(d)'
<1> DEFINE n == claim[w][d].number
<1>1. PICK result \in Answered :
         /\ claim'[w][d].phase = "answered" /\ claim'[w][d].result = result
         /\ claim'[w][d].number = n
         /\ \/ accepted'[d] = accepted[d]
            \/ result \notin Unaccepted /\ accepted'[d] = accepted[d] + 1
  BY DEF Called
<1>2. claim[w][d].phase = "started"
  BY DEF Called, Phased
<1>3. \A v \in Workers \ {w} : claim'[v][d] = claim[v][d]
  BY DEF Called
<1>4. \A v \in Workers : /\ claim'[v][d].phase \in Calling <=> claim[v][d].phase \in Calling
                         /\ claim[v][d].phase \in Calling => claim'[v][d].number = claim[v][d].number
                         /\ claim'[v][d].phase \in Unsent <=> claim[v][d].phase \in Unsent
                         /\ claim'[v][d].phase = "proceed" => claim[v][d].phase = "proceed"
  BY <1>1, <1>2, <1>3 DEF Calling, Unsent
<1>5. /\ attempt'[d] = attempt[d] /\ delivery'[d] = delivery[d] /\ lease'[d] = lease[d]
      /\ late'[d] = late[d] /\ cancelled' = cancelled
      /\ Started(d)' = Started(d) /\ Maybe(d)' = Maybe(d)
  BY DEF Called, Started, Maybe
<1>6. LeaseAgrees(d)'
  BY <1>4, <1>5 DEF LeaseAgrees, Local
<1>7. CallsAreOwn(d)'
  BY <1>4, <1>5 DEF CallsAreOwn, Local
<1>8. Told(d)' /\ Budget(d)'
  BY <1>5 DEF Told, Budget, Local
<1>9. LateOnce(d)'
  BY <1>4, <1>5 DEF LateOnce, Local, Phased
<1>10. n \in Maybe(d) \cap Open(d) /\ n \in DOMAIN attempt[d]
  BY <1>2 DEF CallsAreOwn, Local, Maybe, Open, Opened, Phased, Calling
<1>11. \A v \in Workers \ {w} : /\ Opened(v, d)' <=> Opened(v, d)
                                /\ Opened(v, d) => claim'[v][d].number = claim[v][d].number
  BY <1>3 DEF Opened, Phased
<1>12. Opened(w, d) /\ (Opened(w, d)' <=> result \in Unaccepted)
  BY <1>1, <1>2 DEF Opened, Phased
<1>13. accepted[d] \in Nat /\ accepted[d] <= Cardinality(Maybe(d) \ Open(d))
  BY DEF Counted, Local, Typed
<1>14. CASE result \in Unaccepted
  <2>1. Open(d)' = Open(d)
    BY <1>1, <1>5, <1>11, <1>12, <1>14 DEF Open
  <2> QED BY <1>1, <1>5, <1>6, <1>7, <1>8, <1>9, <1>13, <1>14, <2>1 DEF Counted, Local
<1>15. CASE result \notin Unaccepted
  <2>1. \A v \in Workers \ {w} : Opened(v, d) => claim[v][d].number # n
    BY <1>2 DEF Opened, Phased, CallsAreOwn, Local, Calling
  <2>2. Open(d)' = Open(d) \ {n}
    <3>1. \A m \in DOMAIN attempt[d] : m \in Open(d)' <=>
             \E v \in Workers \ {w} : Opened(v, d) /\ claim[v][d].number = m
      BY <1>5, <1>11, <1>12, <1>15, <1>3 DEF Open
    <3>2. \A m \in DOMAIN attempt[d] : m \in Open(d) <=>
             \/ m = n
             \/ \E v \in Workers \ {w} : Opened(v, d) /\ claim[v][d].number = m
      BY <1>12 DEF Open
    <3>3. Open(d)' \subseteq DOMAIN attempt[d] /\ Open(d) \subseteq DOMAIN attempt[d]
      BY <1>5 DEF Open
    <3> QED BY <3>1, <3>2, <3>3, <2>1, <1>10
  <2>3. Maybe(d)' \ Open(d)' = (Maybe(d) \ Open(d)) \cup {n} /\ n \notin Maybe(d) \ Open(d)
    BY <2>2, <1>5, <1>10
  <2>4. IsFiniteSet(Maybe(d) \ Open(d)) /\ Cardinality(Maybe(d) \ Open(d)) \in Nat
    BY MaybeFinite
  <2>5. Cardinality(Maybe(d)' \ Open(d)') = Cardinality(Maybe(d) \ Open(d)) + 1
    <3>1. ASSUME NEW m, m \notin Maybe(d) \ Open(d)
          PROVE  Cardinality((Maybe(d) \ Open(d)) \cup {m}) = Cardinality(Maybe(d) \ Open(d)) + 1
      BY <3>1, <2>4, FS_AddElement
    <3> QED BY <3>1, <2>3
  <2>6. Counted(d)'
    BY <1>1, <1>13, <2>4, <2>5 DEF Counted
  <2> QED BY <1>6, <1>7, <1>8, <1>9, <2>6 DEF Local
<1> QED BY <1>14, <1>15

\* an attempt in doubt is resent once, or the delivery is given up
LEMMA DoubtedKeeps ==
    ASSUME NEW d \in Deliveries, Typed(d), Budget(d), Doubted(d), Len(attempt[d]) <= MaxAttempts + delivery[d].resends,
           Len(attempt'[d]) = Len(attempt[d]), Maybe(d)' = Maybe(d)
    PROVE  /\ Budget(d)'
           /\ delivery'[d].status \in {"PENDING", "UNCONFIRMED"}
           /\ Len(attempt'[d]) <= MaxAttempts + delivery'[d].resends
<1>1. /\ Len(attempt[d]) \in Nat /\ delivery[d].resends \in 0..1 /\ MaxAttempts \in Nat
      /\ Cardinality(Maybe(d)) \in Nat /\ Cardinality(Maybe(d)) <= 1 + delivery[d].resends
  BY ConstantsAssumption, MaybeFinite DEF Typed, Budget
<1>2. CASE /\ delivery'[d].status = "PENDING"
           /\ delivery[d].resends = 0 /\ delivery'[d].resends = 1
  <2>1. /\ Len(attempt'[d]) < MaxAttempts + delivery'[d].resends
        /\ Cardinality(Maybe(d)') <= delivery'[d].resends
        /\ Cardinality(Maybe(d)') <= 1 + delivery'[d].resends
    BY <1>1, <1>2
  <2> QED BY <2>1, <1>1, <1>2 DEF Budget
<1>3. CASE /\ delivery'[d].status = "UNCONFIRMED"
           /\ delivery'[d].resends = delivery[d].resends
  BY <1>1, <1>3 DEF Budget, Live
<1> QED BY <1>2, <1>3 DEF Doubted

LEMMA RecoveredKeeps ==
    ASSUME NEW d \in Deliveries, Typed(d), Local(d), Recovered(d)
    PROVE  Local(d)'
<1>1. /\ Len(attempt[d]) \in Nat /\ DOMAIN attempt[d] = 1..Len(attempt[d])
      /\ DOMAIN attempt'[d] = DOMAIN attempt[d]
      /\ Len(attempt'[d]) = Len(attempt[d])
      /\ \A m \in DOMAIN attempt[d] :
            attempt'[d][m] = IF attempt[d][m] = "STARTED" THEN "AMBIGUOUS" ELSE attempt[d][m]
  BY DEF Typed, Recovered
<1>2. delivery[d].status = "SENDING"
  BY DEF Told, Local, Recovered
<1>3. Started(d)' = {} /\ Maybe(d)' = Maybe(d)
  BY <1>1 DEF Started, Maybe
<1>4. LeaseAgrees(d)' /\ LateOnce(d)'
  BY ConstantsAssumption DEF LeaseAgrees, LateOnce, Local, Recovered
<1>5. CallsAreOwn(d)'
  <2>1. \A v \in Workers : claim'[v][d] = claim[v][d]
    BY DEF Recovered
  <2>2. \A v \in Workers : claim[v][d].phase \in Calling =>
           /\ claim[v][d].number \in DOMAIN attempt[d]
           /\ attempt[d][claim[v][d].number] \in {"STARTED", "AMBIGUOUS"}
           /\ \A u \in Workers : claim[u][d].phase \in Calling /\ claim[u][d].number = claim[v][d].number => u = v
    BY DEF CallsAreOwn, Local
  <2>3. \A m \in DOMAIN attempt[d] : attempt[d][m] \in {"STARTED", "AMBIGUOUS"} => attempt'[d][m] \in {"STARTED", "AMBIGUOUS"}
    BY <1>1
  <2>4. DOMAIN attempt'[d] = DOMAIN attempt[d]
    BY <1>1
  <2> QED BY <2>1, <2>2, <2>3, <2>4 DEF CallsAreOwn
<1>6. Open(d)' = Open(d)
  BY <1>1 DEF Open, Opened, Phased, Recovered
<1>7. Counted(d)'
  BY <1>3, <1>6 DEF Counted, Local, Recovered
<1>8. \A m \in DOMAIN attempt'[d] : attempt'[d][m] # "ACCEPTED"
  BY <1>1, <1>2 DEF Told, Local
<1>9. /\ Budget(d)' /\ delivery'[d].status \in {"PENDING", "UNCONFIRMED"}
      /\ Len(attempt'[d]) <= MaxAttempts + delivery'[d].resends
  BY <1>1, <1>3, DoubtedKeeps DEF Told, Local, Recovered
<1>10. Told(d)'
  BY <1>3, <1>8, <1>9 DEF Told
<1> QED BY <1>4, <1>5, <1>7, <1>9, <1>10 DEF Local

LEMMA FinishedKeeps ==
    ASSUME NEW d \in Deliveries, NEW w \in Workers, Typed(d), Local(d), Finished(d, w)
    PROVE  Local(d)'
<1> DEFINE n == claim[w][d].number
           result == claim[w][d].result
<1>1. /\ Len(attempt[d]) \in Nat /\ DOMAIN attempt[d] = 1..Len(attempt[d])
      /\ delivery[d].resends \in 0..1 /\ MaxAttempts \in Nat
      /\ result \in Answered /\ w # None
  BY ConstantsAssumption DEF Typed, Finished
<1>2. /\ delivery[d].status = "SENDING" /\ n = Len(attempt[d]) /\ Started(d) = {n}
  BY <1>1 DEF LeaseAgrees, Local, Finished, Phased, Calling
<1>3. /\ DOMAIN attempt'[d] = DOMAIN attempt[d] /\ Len(attempt'[d]) = Len(attempt[d])
      /\ n \in DOMAIN attempt[d] /\ attempt[d][n] = "STARTED" /\ attempt'[d][n] = result
      /\ \A m \in DOMAIN attempt[d] \ {n} : attempt'[d][m] = attempt[d][m]
  BY <1>1, <1>2 DEF Typed, Finished, Started
<1>4. Started(d)' = {}
  BY <1>1, <1>2, <1>3 DEF Started, Answered
<1>5. LeaseAgrees(d)' /\ LateOnce(d)'
  BY ConstantsAssumption DEF LeaseAgrees, LateOnce, Local, Finished
<1>6. \A v \in Workers \ {w} :
         /\ claim'[v][d] = claim[v][d]
         /\ claim[v][d].phase \in Calling => claim[v][d].number # n
  BY DEF CallsAreOwn, Local, Finished, Phased, Calling
<1>7. claim'[w][d].phase = "none"
  BY DEF Finished, NoClaim
<1>8. CallsAreOwn(d)'
  <2>1. \A v \in Workers \ {w} : claim'[v][d].phase \in Calling =>
           /\ claim'[v][d].number \in DOMAIN attempt[d] \ {n}
           /\ attempt[d][claim'[v][d].number] \in {"STARTED", "AMBIGUOUS"}
           /\ \A u \in Workers \ {w} : claim'[u][d].phase \in Calling /\ claim'[u][d].number = claim'[v][d].number => u = v
    BY <1>6 DEF CallsAreOwn, Local
  <2> QED BY <2>1, <1>3, <1>7 DEF CallsAreOwn, Calling
<1>9. \A v \in Workers : Opened(v, d)' <=> v # w /\ Opened(v, d)
  BY <1>6, <1>7 DEF Opened, Phased
<1>10. \A v \in Workers \ {w} : Opened(v, d) => claim[v][d].number # n
  BY <1>6 DEF Opened, Phased, Calling
<1>11. Open(d)' = Open(d) \ {n} /\ (n \in Open(d) <=> result \in Unaccepted)
  <2>1. Opened(w, d) <=> result \in Unaccepted
    BY DEF Opened, Phased, Finished
  <2>2. \A m \in DOMAIN attempt[d] :
           m \in Open(d)' <=> \E v \in Workers \ {w} : Opened(v, d) /\ claim[v][d].number = m
    BY <1>3, <1>6, <1>9 DEF Open
  <2>3. \A m \in DOMAIN attempt[d] : m \in Open(d) <=>
           \/ m = n /\ result \in Unaccepted
           \/ \E v \in Workers \ {w} : Opened(v, d) /\ claim[v][d].number = m
    BY <2>1 DEF Open
  <2>4. Open(d)' \subseteq DOMAIN attempt[d] /\ Open(d) \subseteq DOMAIN attempt[d]
    BY <1>3 DEF Open
  <2> QED BY <2>2, <2>3, <2>4, <1>3, <1>10
<1>12. n \in Maybe(d) /\ Maybe(d)' = IF result \in Unaccepted THEN Maybe(d) \ {n} ELSE Maybe(d)
  BY <1>1, <1>3 DEF Maybe, Answered, Outcome, Unaccepted
<1>13. Counted(d)'
  <2>1. Maybe(d)' \ Open(d)' = Maybe(d) \ Open(d)
    BY <1>11, <1>12
  <2> QED BY <2>1 DEF Counted, Local, Finished
<1>14. /\ Cardinality(Maybe(d)) \in Nat /\ Cardinality(Maybe(d)) <= 1 + delivery[d].resends
       /\ Len(attempt[d]) <= MaxAttempts + delivery[d].resends
  BY MaybeFinite DEF Budget, Told, Local
<1>15. \A m \in DOMAIN attempt[d] : attempt[d][m] # "ACCEPTED"
  BY <1>2 DEF Told, Local
<1>16. \A m \in DOMAIN attempt'[d] : attempt'[d][m] = "ACCEPTED" <=> m = n /\ result = "ACCEPTED"
  BY <1>3, <1>15
<1>17. CASE result = "AMBIGUOUS" /\ Doubted(d)
  <2>1. Maybe(d)' = Maybe(d)
    BY <1>12, <1>17 DEF Unaccepted
  <2>2. /\ Budget(d)' /\ delivery'[d].status \in {"PENDING", "UNCONFIRMED"}
        /\ Len(attempt'[d]) <= MaxAttempts + delivery'[d].resends
    BY <2>1, <1>3, <1>14, <1>17, DoubtedKeeps DEF Local
  <2>3. Told(d)'
    BY <2>2, <1>4, <1>16, <1>17 DEF Told
  <2> QED BY <1>5, <1>8, <1>13, <2>2, <2>3 DEF Local
<1>18. CASE /\ delivery'[d].resends = delivery[d].resends
            /\ result = "ACCEPTED" /\ delivery'[d].status = "SENT"
  <2>1. Maybe(d)' = Maybe(d)
    BY <1>12, <1>18 DEF Unaccepted
  <2>2. Budget(d)'
    BY <2>1, <1>14, <1>18 DEF Budget, Live
  <2>3. Told(d)'
    BY <1>2, <1>3, <1>4, <1>14, <1>16, <1>18 DEF Told
  <2> QED BY <1>5, <1>8, <1>13, <2>2, <2>3 DEF Local
<1>19. CASE /\ delivery'[d].resends = delivery[d].resends
            /\ result \in Unaccepted
            /\ \/ delivery'[d].status \in {"FAILED", "EXPIRED"}
               \/ n < MaxAttempts /\ delivery'[d].status = "PENDING"
  <2>1. Maybe(d)' = Maybe(d) \ {n}
    BY <1>12, <1>19
  <2>2. Cardinality(Maybe(d)') = Cardinality(Maybe(d)) - 1
    BY <2>1, <1>12, MaybeFinite, FS_RemoveElement
  <2>3. /\ Cardinality(Maybe(d)') <= 1 + delivery'[d].resends
        /\ Cardinality(Maybe(d)') <= delivery'[d].resends
    BY <2>2, <1>1, <1>14, <1>19
  <2>4. delivery'[d].status = "PENDING" => Len(attempt'[d]) < MaxAttempts + delivery'[d].resends
    BY <1>1, <1>2, <1>3, <1>19
  <2>5. Budget(d)'
    BY <2>3, <2>4, <1>19 DEF Budget, Live
  <2>6. Told(d)'
    <3>1. result # "ACCEPTED" /\ delivery'[d].status # "SENT"
      BY <1>19 DEF Unaccepted
    <3>2. Len(attempt'[d]) <= MaxAttempts + delivery'[d].resends
      BY <1>3, <1>14, <1>19
    <3> QED BY <1>4, <1>16, <3>1, <3>2 DEF Told
  <2> QED BY <1>5, <1>8, <1>13, <2>5, <2>6 DEF Local
<1> QED BY <1>17, <1>18, <1>19 DEF Finished

-----------------------------------------------------------------------------
(* What the transactions write *)

DeliveryRow == [status : Status, resends : 0..1, lapsed : BOOLEAN]
ClaimRow    == [phase : Phase, number : Nat, result : Answered \cup {None}]

LEMMA ClaimWritten ==
    ASSUME TypeOK, NEW w \in Workers, NEW d \in Deliveries, NEW row \in ClaimRow,
           claim' = [claim EXCEPT ![w][d] = row]
    PROVE  /\ claim' \in [Workers -> [Deliveries -> ClaimRow]]
           /\ claim'[w][d] = row
           /\ \A v \in Workers \ {w} : claim'[v] = claim[v]
           /\ \A e \in Deliveries \ {d} : claim'[w][e] = claim[w][e]
<1>1. claim \in [Workers -> [Deliveries -> ClaimRow]]
  BY DEF TypeOK, ClaimRow
<1> QED BY <1>1

LEMMA Dropped ==
    ASSUME TypeOK, NEW w \in Workers, NEW d \in Deliveries, Drop(w, d)
    PROVE  /\ claim' \in [Workers -> [Deliveries -> ClaimRow]]
           /\ claim'[w][d] = NoClaim
           /\ \A v \in Workers \ {w} : claim'[v] = claim[v]
           /\ \A e \in Deliveries \ {d} : claim'[w][e] = claim[w][e]
<1>1. NoClaim \in ClaimRow
  BY DEF NoClaim, ClaimRow, Phase
<1> QED BY <1>1, ClaimWritten DEF Drop

LEMMA Requeued ==
    ASSUME TypeOK, NEW d \in Deliveries, NEW resends \in 0..1, Requeue(d, resends)
    PROVE  /\ delivery' \in [Deliveries -> DeliveryRow]
           /\ lease' \in [Deliveries -> Workers \cup {None}]
           /\ delivery'[d].status = "PENDING" /\ delivery'[d].resends = resends /\ lease'[d] = None
           /\ \A e \in Deliveries \ {d} : delivery'[e] = delivery[e] /\ lease'[e] = lease[e]
           /\ secret' = secret
<1> DEFINE row == [status |-> "PENDING", resends |-> resends, lapsed |-> FALSE]
<1>1. row \in DeliveryRow
  BY DEF DeliveryRow, Status
<1>2. row.status = "PENDING" /\ row.resends = resends
  OBVIOUS
<1>3. /\ delivery' = [delivery EXCEPT ![d] = row] /\ lease' = [lease EXCEPT ![d] = None]
      /\ secret' = secret
  BY DEF Requeue
<1>4. delivery \in [Deliveries -> DeliveryRow] /\ lease \in [Deliveries -> Workers \cup {None}]
  BY DEF TypeOK, DeliveryRow
<1> HIDE DEF row
<1> QED BY <1>1, <1>2, <1>3, <1>4

LEMMA Ended ==
    ASSUME TypeOK, NEW d \in Deliveries, NEW status \in Terminal, End(d, status)
    PROVE  /\ delivery' \in [Deliveries -> DeliveryRow]
           /\ lease' \in [Deliveries -> Workers \cup {None}]
           /\ secret' \in {"none", "sealed", "purged"}
           /\ delivery'[d].status = status /\ delivery'[d].resends = delivery[d].resends
           /\ lease'[d] = None
           /\ \A e \in Deliveries \ {d} : delivery'[e] = delivery[e] /\ lease'[e] = lease[e]
<1> DEFINE row == [delivery[d] EXCEPT !.status = status, !.lapsed = FALSE]
<1>1. delivery \in [Deliveries -> DeliveryRow] /\ lease \in [Deliveries -> Workers \cup {None}]
  BY DEF TypeOK, DeliveryRow
<1>2. row \in DeliveryRow /\ row.status = status /\ row.resends = delivery[d].resends
  BY <1>1 DEF DeliveryRow, Status
<1>3. /\ delivery' = [delivery EXCEPT ![d] = row] /\ lease' = [lease EXCEPT ![d] = None]
      /\ secret' \in {"purged", secret}
  BY <1>1 DEF End
<1>4. secret \in {"none", "sealed", "purged"}
  BY DEF TypeOK
<1> HIDE DEF row
<1> QED BY <1>1, <1>2, <1>3, <1>4

-----------------------------------------------------------------------------
(* The secret *)

\* nothing ends, and nothing is resent: the secret may stay as it is
LEMMA SecretStays ==
    ASSUME SecretLifetime, ResendIsOfCode, secret' = secret,
           expiry' = expiry \/ expiry' = "passed",
           \A d \in Deliveries :
              /\ \/ delivery'[d].status = delivery[d].status
                 \/ delivery[d].status \notin Terminal /\ delivery'[d].status \notin Terminal
              /\ delivery'[d].resends = delivery[d].resends
    PROVE  SecretLifetime' /\ ResendIsOfCode'
<1>1. ResendIsOfCode'
  BY DEF ResendIsOfCode
<1>2. \A d \in Deliveries :
         /\ delivery'[d].status \in Terminal <=> delivery[d].status \in Terminal
         /\ delivery[d].status = "CANCELLED" => delivery'[d].status = "CANCELLED"
  BY DEF Terminal
<1> QED BY <1>1, <1>2 DEF SecretLifetime

LEMMA SecretOfEnded ==
    ASSUME TypeOK, SecretLifetime, ResendIsOfCode, expiry' = expiry,
           NEW d \in Deliveries, NEW status \in Terminal, End(d, status),
           delivery[d].status \in Live
    PROVE  SecretLifetime' /\ ResendIsOfCode'
<1>1. /\ delivery'[d].status = status /\ delivery'[d].resends = delivery[d].resends
      /\ \A e \in Deliveries \ {d} : delivery'[e] = delivery[e]
  BY Ended
<1>2. delivery[d].status \notin Terminal
  BY DEF Live, Terminal
<1>3. /\ secret' = IF secret = "sealed" /\ \A e \in Deliveries \ {d} : delivery[e].status \in Terminal
                   THEN "purged" ELSE secret
  BY DEF End
<1>4. ResendIsOfCode'
  BY <1>1, <1>3 DEF ResendIsOfCode
<1>5. secret' = "purged" => (\A e \in Deliveries : delivery'[e].status \in Terminal) \/ expiry' = "passed"
  BY <1>1, <1>2, <1>3 DEF SecretLifetime
<1>6. ~ (secret' = "sealed" /\ \A e \in Deliveries : delivery'[e].status \in Terminal)
  BY <1>1, <1>3
<1> QED BY <1>4, <1>5, <1>6 DEF SecretLifetime

\* what an ambiguous attempt makes of the delivery
LEMMA AmbiguousDoubts ==
    ASSUME TypeOK, SecretLifetime, ResendIsOfCode, expiry' = expiry,
           NEW d \in Deliveries, Ambiguous(d), delivery[d].status \in Live
    PROVE  /\ Doubted(d)
           /\ delivery' \in [Deliveries -> DeliveryRow]
           /\ lease' \in [Deliveries -> Workers \cup {None}]
           /\ secret' \in {"none", "sealed", "purged"}
           /\ lease'[d] = None
           /\ \A e \in Deliveries \ {d} : delivery'[e] = delivery[e] /\ lease'[e] = lease[e]
           /\ SecretLifetime' /\ ResendIsOfCode'
<1>1. CASE Resendable(d) /\ Requeue(d, 1)
  <2>1. /\ delivery' \in [Deliveries -> DeliveryRow]
        /\ lease' \in [Deliveries -> Workers \cup {None}]
        /\ delivery'[d].status = "PENDING" /\ delivery'[d].resends = 1 /\ lease'[d] = None
        /\ \A e \in Deliveries \ {d} : delivery'[e] = delivery[e] /\ lease'[e] = lease[e]
        /\ secret' = secret
    BY <1>1, Requeued
  <2>2. delivery[d].resends = 0 /\ secret = "sealed"
    BY <1>1 DEF Resendable
  <2>3. ResendIsOfCode'
    BY <2>1, <2>2 DEF ResendIsOfCode
  <2>4. SecretLifetime'
    BY <2>1, <2>2 DEF SecretLifetime, Terminal
  <2> QED BY <2>1, <2>2, <2>3, <2>4 DEF Doubted
<1>2. CASE End(d, "UNCONFIRMED")
  <2>1. "UNCONFIRMED" \in Terminal
    BY DEF Terminal
  <2> QED BY <1>2, <2>1, Ended, SecretOfEnded DEF Doubted
<1> QED BY <1>1, <1>2 DEF Ambiguous

-----------------------------------------------------------------------------
(* Every step makes one of the moves of every delivery *)

Moved(d) ==
    \/ Frame(d)
    \/ Settled(d)
    \/ \E w \in Workers : Claimed(d, w) \/ Begun(d, w) \/ Called(d, w) \/ Finished(d, w)
    \/ Recovered(d)

\* what a step may not take back: how a delivery ended and the outcome of an attempt, which
\* the transitions check again under the token of a claim (finish, transition), a
\* resend that was spent, and a message the provider accepted
DeliveryStays(d) ==
    /\ delivery[d].status \in Terminal => delivery'[d].status = delivery[d].status /\ attempt'[d] = attempt[d]
    /\ \A n \in DOMAIN attempt[d] : /\ n \in DOMAIN attempt'[d]
                                    /\ attempt[d][n] # "STARTED" => attempt'[d][n] = attempt[d][n]
    /\ delivery[d].resends <= delivery'[d].resends
    /\ accepted[d] <= accepted'[d]
EvidenceStays == (cancelled => cancelled') /\ \A d \in Deliveries : DeliveryStays(d)

LEMMA MovesStay ==
    ASSUME NEW d \in Deliveries, Typed(d), Local(d), Moved(d)
    PROVE  DeliveryStays(d) /\ (cancelled => cancelled')
<1>1. /\ attempt[d] \in Seq(Outcome) /\ accepted[d] \in Nat /\ delivery[d].resends \in 0..1
      /\ Live \cap Terminal = {} /\ "SENDING" \in Live
  BY DEF Typed, Live, Terminal
<1>2. CASE Frame(d)
  BY <1>1, <1>2 DEF Frame, DeliveryStays
<1>3. CASE Settled(d)
  BY <1>1, <1>3 DEF Settled, DeliveryStays
<1>4. ASSUME NEW w \in Workers, Claimed(d, w)
      PROVE  DeliveryStays(d) /\ (cancelled => cancelled')
  BY <1>1, <1>4 DEF Claimed, DeliveryStays, Terminal
<1>5. ASSUME NEW w \in Workers, Begun(d, w)
      PROVE  DeliveryStays(d) /\ (cancelled => cancelled')
  <2>1. delivery[d].status = "SENDING"
    BY <1>5, ConstantsAssumption DEF Begun, Local, LeaseAgrees
  <2>2. \A n \in DOMAIN attempt[d] : n \in DOMAIN attempt'[d] /\ attempt'[d][n] = attempt[d][n]
    BY <1>1, <1>5 DEF Begun
  <2> QED BY <1>1, <1>5, <2>1, <2>2 DEF Begun, DeliveryStays
<1>6. ASSUME NEW w \in Workers, Called(d, w)
      PROVE  DeliveryStays(d) /\ (cancelled => cancelled')
  BY <1>1, <1>6 DEF Called, DeliveryStays
<1>7. ASSUME NEW w \in Workers, Finished(d, w)
      PROVE  DeliveryStays(d) /\ (cancelled => cancelled')
  <2>1. delivery[d].status = "SENDING"
    BY <1>7, ConstantsAssumption DEF Finished, Local, LeaseAgrees
  <2>2. claim[w][d].number = Len(attempt[d]) /\ Started(d) = {Len(attempt[d])}
    BY <1>7 DEF Finished, Local, LeaseAgrees, Phased, Calling
  <2>3. attempt[d][claim[w][d].number] = "STARTED"
    BY <2>2 DEF Started
  <2>4. \A n \in DOMAIN attempt[d] : n \in DOMAIN attempt'[d]
                                   /\ (attempt[d][n] # "STARTED" => attempt'[d][n] = attempt[d][n])
    BY <1>1, <1>7, <2>3 DEF Finished
  <2>5. delivery[d].resends <= delivery'[d].resends
    BY <1>1, <1>7 DEF Finished, Doubted
  <2>6. accepted'[d] = accepted[d] /\ cancelled' = cancelled
    BY <1>7 DEF Finished
  <2> QED BY <1>1, <2>1, <2>4, <2>5, <2>6 DEF DeliveryStays
<1>8. CASE Recovered(d)
  <2>1. delivery[d].status = "SENDING"
    BY <1>8 DEF Recovered, Local, Told
  <2>2. \A n \in DOMAIN attempt[d] : n \in DOMAIN attempt'[d]
                                   /\ (attempt[d][n] # "STARTED" => attempt'[d][n] = attempt[d][n])
    BY <1>1, <1>8 DEF Recovered
  <2> QED BY <1>1, <1>8, <2>1, <2>2 DEF Recovered, Doubted, DeliveryStays
<1> QED BY <1>2, <1>3, <1>4, <1>5, <1>6, <1>7, <1>8 DEF Moved

\* what is shown of every action
Kept == IInv' /\ EvidenceStays

LEMMA MovesKeep ==
    ASSUME IInv, Types', \A d \in Deliveries : Moved(d), SecretLifetime', ResendIsOfCode'
    PROVE  Kept
<1>1. ASSUME NEW d \in Deliveries
      PROVE  Local(d)'
  <2>1. Typed(d) /\ Local(d)
    BY TypesOfOne DEF IInv
  <2>2. Moved(d)
    OBVIOUS
  <2>3. ASSUME NEW w \in Workers, Claimed(d, w) \/ Begun(d, w) \/ Called(d, w) \/ Finished(d, w)
        PROVE  Local(d)'
    BY <2>1, <2>3, ClaimedKeeps, BegunKeeps, CalledKeeps, FinishedKeeps
  <2> QED BY <2>1, <2>2, <2>3, FrameKeeps, SettledKeeps, RecoveredKeeps DEF Moved
<1>2. \A d \in Deliveries : DeliveryStays(d) /\ (cancelled => cancelled')
  BY TypesOfOne, MovesStay DEF IInv
<1> QED BY <1>1, <1>2, ConstantsAssumption DEF IInv, Kept, EvidenceStays

LEMMA Untouched ==
    ASSUME NEW d \in Deliveries,
           delivery'[d] = delivery[d], lease'[d] = lease[d], attempt'[d] = attempt[d],
           accepted'[d] = accepted[d], late'[d] = late[d],
           \A w \in Workers : claim'[w][d] = claim[w][d],
           cancelled' = cancelled
    PROVE  Moved(d)
BY DEF Moved, Frame

LEMMA RecoverKeeps ==
    ASSUME IInv, NEW d \in Deliveries, Recover(d)
    PROVE  Kept
<1>1. TypeOK /\ Types /\ SecretLifetime /\ ResendIsOfCode /\ Typed(d) /\ Local(d)
  BY TypesOfOne DEF IInv, Types
<1>2. /\ delivery[d].status = "SENDING"
      /\ UNCHANGED <<expiry, cancel, claim, renewing, accepted, late, faults, renewals>>
  BY DEF Recover
<1>3. /\ UNCHANGED <<expiry, cancelled, cancelling, answer, claim>>
      /\ UNCHANGED <<renewing, accepted, late, faults, renewals>>
  BY <1>2 DEF cancel
<1>4. CASE /\ Started(d) = {} /\ Requeue(d, delivery[d].resends) /\ UNCHANGED attempt
  <2>1. delivery[d].resends \in 0..1
    BY <1>1 DEF Typed
  <2>2. /\ delivery' \in [Deliveries -> DeliveryRow]
        /\ lease' \in [Deliveries -> Workers \cup {None}]
        /\ delivery'[d].status = "PENDING" /\ delivery'[d].resends = delivery[d].resends /\ lease'[d] = None
        /\ \A e \in Deliveries \ {d} : delivery'[e] = delivery[e] /\ lease'[e] = lease[e]
        /\ secret' = secret
    BY <1>1, <1>4, <2>1, Requeued
  <2>3. Types'
    BY <1>1, <1>3, <1>4, <2>2 DEF Types, TypeOK, DeliveryRow, Phased
  <2>4. Settled(d)
    BY <1>2, <1>3, <1>4, <2>2 DEF Settled, Live, SameClaims
  <2>5. \A e \in Deliveries \ {d} : Moved(e)
    BY <1>3, <1>4, <2>2, Untouched
  <2>6. SecretLifetime' /\ ResendIsOfCode'
    BY <1>1, <1>2, <1>3, <2>2, SecretStays DEF Terminal
  <2> QED BY <2>3, <2>4, <2>5, <2>6, MovesKeep DEF Moved
<1>5. CASE /\ Started(d) # {} /\ Ambiguous(d)
           /\ attempt' = [attempt EXCEPT ![d] =
                            [n \in DOMAIN @ |-> IF @[n] = "STARTED" THEN "AMBIGUOUS" ELSE @[n]]]
  <2> DEFINE told == [n \in DOMAIN attempt[d] |->
                        IF attempt[d][n] = "STARTED" THEN "AMBIGUOUS" ELSE attempt[d][n]]
  <2>1. told \in Seq(Outcome)
    BY <1>1 DEF Typed, Outcome
  <2>2. attempt' = [attempt EXCEPT ![d] = told] /\ attempt \in [Deliveries -> Seq(Outcome)]
    BY <1>1, <1>5 DEF TypeOK
  <2>3. /\ attempt' \in [Deliveries -> Seq(Outcome)] /\ attempt'[d] = told
        /\ \A e \in Deliveries \ {d} : attempt'[e] = attempt[e]
    BY <2>1, <2>2
  <2>4. /\ Doubted(d)
        /\ delivery' \in [Deliveries -> DeliveryRow]
        /\ lease' \in [Deliveries -> Workers \cup {None}]
        /\ secret' \in {"none", "sealed", "purged"}
        /\ lease'[d] = None
        /\ \A e \in Deliveries \ {d} : delivery'[e] = delivery[e] /\ lease'[e] = lease[e]
        /\ SecretLifetime' /\ ResendIsOfCode'
    BY <1>1, <1>2, <1>3, <1>5, AmbiguousDoubts DEF Live
  <2>5. Types'
    BY <1>1, <1>3, <2>3, <2>4 DEF Types, TypeOK, DeliveryRow, Phased
  <2>6. Recovered(d)
    BY <1>3, <1>5, <2>3, <2>4 DEF Recovered
  <2>7. \A e \in Deliveries \ {d} : Moved(e)
    BY <1>3, <2>3, <2>4, Untouched
  <2> QED BY <2>4, <2>5, <2>6, <2>7, MovesKeep DEF Moved
<1> QED BY <1>4, <1>5 DEF Recover

LEMMA EndUnsentKeeps ==
    ASSUME IInv, NEW w \in Workers, NEW d \in Deliveries,
           NEW phase \in {"withdraw", "expire", "proceed"}, NEW status \in {"CANCELLED", "EXPIRED", "FAILED"},
           EndUnsent(w, d, phase, status)
    PROVE  Kept
<1>1. TypeOK /\ Types /\ SecretLifetime /\ ResendIsOfCode /\ Typed(d) /\ Local(d)
  BY TypesOfOne DEF IInv, Types
<1>2. /\ claim[w][d].phase = phase /\ Drop(w, d)
      /\ UNCHANGED <<expiry, cancel, attempt, renewing, accepted, late, faults, renewals>>
  BY DEF EndUnsent, Phased
<1>3. /\ UNCHANGED <<expiry, cancelled, cancelling, answer, attempt>>
      /\ UNCHANGED <<renewing, accepted, late, faults, renewals>>
  BY <1>2 DEF cancel
<1>4. /\ claim' \in [Workers -> [Deliveries -> ClaimRow]]
      /\ claim'[w][d] = NoClaim
      /\ \A v \in Workers \ {w} : claim'[v] = claim[v]
      /\ \A e \in Deliveries \ {d} : claim'[w][e] = claim[w][e]
  BY <1>1, <1>2, Dropped
<1>5. \A v \in Workers, e \in Deliveries : claim'[v][e] = claim[v][e] \/ claim'[v][e] = NoClaim
  BY <1>4
<1>6. \A v \in Workers, e \in Deliveries : claim'[v][e].phase = "answered" => claim'[v][e].result \in Answered
  BY <1>1, <1>5 DEF Types, Phased, NoClaim
<1>7. \A e \in Deliveries \ {d}, v \in Workers : claim'[v][e] = claim[v][e]
  BY <1>4
<1>8. CASE Holds(w, d) /\ End(d, status)
  <2>1. delivery[d].status = "SENDING" /\ Started(d) = {} /\ status \in Terminal
    BY <1>1, <1>2, <1>8, ConstantsAssumption DEF Holds, Local, LeaseAgrees, Unsent, Terminal
  <2>2. /\ delivery' \in [Deliveries -> DeliveryRow]
        /\ lease' \in [Deliveries -> Workers \cup {None}]
        /\ secret' \in {"none", "sealed", "purged"}
        /\ delivery'[d].status = status /\ delivery'[d].resends = delivery[d].resends
        /\ lease'[d] = None
        /\ \A e \in Deliveries \ {d} : delivery'[e] = delivery[e] /\ lease'[e] = lease[e]
    BY <1>1, <1>8, <2>1, Ended
  <2>3. Types'
    BY <1>1, <1>3, <1>4, <1>6, <2>2 DEF Types, TypeOK, DeliveryRow, ClaimRow, Phased
  <2>4. Settled(d)
    BY <1>3, <1>5, <2>1, <2>2 DEF Settled, Live, SameClaims
  <2>5. \A e \in Deliveries \ {d} : Moved(e)
    BY <1>3, <1>7, <2>2, Untouched
  <2>6. SecretLifetime' /\ ResendIsOfCode'
    BY <1>1, <1>3, <1>8, <2>1, SecretOfEnded DEF Live
  <2> QED BY <2>3, <2>4, <2>5, <2>6, MovesKeep DEF Moved
<1>9. CASE UNCHANGED <<delivery, lease, secret>>
  <2>1. Types'
    BY <1>1, <1>3, <1>4, <1>6, <1>9 DEF Types, TypeOK, ClaimRow, Phased
  <2>2. \A e \in Deliveries : Frame(e)
    BY <1>3, <1>5, <1>9 DEF Frame
  <2>3. SecretLifetime' /\ ResendIsOfCode'
    BY <1>1, <1>3, <1>9, SecretStays
  <2> QED BY <2>1, <2>2, <2>3, MovesKeep DEF Moved
<1> QED BY <1>8, <1>9 DEF EndUnsent

LEMMA ReadContextKeeps ==
    ASSUME IInv, NEW w \in Workers, NEW d \in Deliveries, ReadContext(w, d)
    PROVE  Kept
<1> DEFINE phase == IF cancelled THEN "withdraw" ELSE IF expiry = "passed" THEN "expire" ELSE "proceed"
           row   == [claim[w][d] EXCEPT !.phase = phase]
<1>1. TypeOK /\ Types /\ SecretLifetime /\ ResendIsOfCode /\ Typed(d)
  BY TypesOfOne DEF IInv, Types
<1>2. /\ claim[w][d].phase = "queued" /\ claim' = [claim EXCEPT ![w][d] = row]
      /\ UNCHANGED <<notification, cancelling, answer, delivery, attempt, lease, renewing, accepted,
                     late, faults, renewals>>
  BY <1>1 DEF ReadContext, Phased, TypeOK
<1>3. /\ UNCHANGED <<secret, expiry, cancelled, cancelling, answer, delivery, attempt>>
      /\ UNCHANGED <<lease, renewing, accepted, late, faults, renewals>>
  BY <1>2 DEF notification
<1>4. row \in ClaimRow /\ row.phase = phase /\ phase \in {"withdraw", "expire", "proceed"}
  BY <1>1 DEF Typed, ClaimRow, Phase
<1>5. phase = "proceed" => ~ cancelled
  OBVIOUS
<1> HIDE DEF row, phase
<1>6. /\ claim' \in [Workers -> [Deliveries -> ClaimRow]]
      /\ claim'[w][d] = row
      /\ \A v \in Workers \ {w} : claim'[v] = claim[v]
      /\ \A e \in Deliveries \ {d} : claim'[w][e] = claim[w][e]
  BY <1>1, <1>2, <1>4, ClaimWritten
<1>7. Types'
  <2>1. \A v \in Workers, e \in Deliveries : claim'[v][e].phase = "answered" => claim'[v][e] = claim[v][e]
    BY <1>4, <1>6
  <2> QED BY <1>1, <1>3, <1>6, <2>1 DEF Types, TypeOK, ClaimRow, Phased
<1>8. Frame(d)
  BY <1>2, <1>3, <1>4, <1>5, <1>6 DEF Frame, Phased, Unsent
<1>9. \A e \in Deliveries \ {d} : Moved(e)
  BY <1>3, <1>6, Untouched
<1>10. SecretLifetime' /\ ResendIsOfCode'
  BY <1>1, <1>3, SecretStays
<1> QED BY <1>7, <1>8, <1>9, <1>10, MovesKeep DEF Moved

LEMMA AbandonKeeps ==
    ASSUME IInv, NEW w \in Workers, NEW d \in Deliveries, Abandon(w, d)
    PROVE  Kept
<1>1. TypeOK /\ Types /\ SecretLifetime /\ ResendIsOfCode
  BY DEF IInv, Types
<1>2. /\ Drop(w, d) /\ Fault
      /\ UNCHANGED <<secret, expiry, cancelled, cancelling, answer, delivery, attempt>>
      /\ UNCHANGED <<lease, renewing, accepted, late, renewals>>
  BY DEF Abandon, notification
<1>3. /\ claim' \in [Workers -> [Deliveries -> ClaimRow]]
      /\ \A v \in Workers, e \in Deliveries : claim'[v][e] = claim[v][e] \/ claim'[v][e] = NoClaim
  BY <1>1, <1>2, Dropped
<1>4. \A v \in Workers, e \in Deliveries : claim'[v][e].phase = "answered" => claim'[v][e] = claim[v][e]
  BY <1>3 DEF NoClaim
<1>5. faults' \in 0..MaxFaults
  BY <1>1, <1>2, ConstantsAssumption DEF TypeOK, Fault
<1>6. Types'
  BY <1>1, <1>2, <1>3, <1>4, <1>5 DEF Types, TypeOK, ClaimRow, Phased
<1>7. \A e \in Deliveries : Frame(e)
  BY <1>2, <1>3 DEF Frame
<1>8. SecretLifetime' /\ ResendIsOfCode'
  BY <1>1, <1>2, SecretStays
<1> QED BY <1>6, <1>7, <1>8, MovesKeep DEF Moved

LEMMA StartAttemptKeeps ==
    ASSUME IInv, NEW w \in Workers, NEW d \in Deliveries, StartAttempt(w, d)
    PROVE  Kept
<1>1. TypeOK /\ Types /\ SecretLifetime /\ ResendIsOfCode /\ Typed(d)
  BY TypesOfOne DEF IInv, Types
<1>2. /\ UNCHANGED <<secret, expiry, cancelled, cancelling, answer>>
      /\ UNCHANGED <<lease, renewing, accepted, faults, renewals>>
      /\ Phased(w, d, "proceed")
  BY DEF StartAttempt, notification
<1>3. CASE /\ Holds(w, d)
           /\ attempt' = [attempt EXCEPT ![d] = Append(@, "STARTED")]
           /\ delivery' = [delivery EXCEPT ![d].lapsed = FALSE]
           /\ claim' = [claim EXCEPT ![w][d] = [phase |-> "started", number |-> Len(attempt[d]) + 1,
                                                result |-> None]]
           /\ late' = [late EXCEPT ![d] = IF cancelled THEN @ + 1 ELSE @]
  <2> DEFINE row   == [phase |-> "started", number |-> Len(attempt[d]) + 1, result |-> None]
             tries == Append(attempt[d], "STARTED")
             start == IF cancelled THEN late[d] + 1 ELSE late[d]
  <2>1. row \in ClaimRow /\ tries \in Seq(Outcome) /\ start \in Nat /\ row.phase = "started"
    BY <1>1 DEF Typed, ClaimRow, Phase, Outcome
  <2>2. /\ claim' = [claim EXCEPT ![w][d] = row]
        /\ attempt' = [attempt EXCEPT ![d] = tries] /\ late' = [late EXCEPT ![d] = start]
    BY <1>3
  <2>3. /\ delivery \in [Deliveries -> DeliveryRow] /\ attempt \in [Deliveries -> Seq(Outcome)]
        /\ late \in [Deliveries -> Nat]
    BY <1>1 DEF TypeOK, DeliveryRow
  <2>4. /\ delivery' \in [Deliveries -> DeliveryRow]
        /\ \A e \in Deliveries : delivery'[e].status = delivery[e].status /\ delivery'[e].resends = delivery[e].resends
        /\ \A e \in Deliveries \ {d} : delivery'[e] = delivery[e]
    BY <1>3, <2>3 DEF DeliveryRow
  <2> HIDE DEF row, tries, start
  <2>5. /\ claim' \in [Workers -> [Deliveries -> ClaimRow]]
        /\ claim'[w][d] = row
        /\ \A v \in Workers \ {w} : claim'[v] = claim[v]
        /\ \A e \in Deliveries \ {d} : claim'[w][e] = claim[w][e]
    BY <1>1, <2>1, <2>2, ClaimWritten
  <2>6. /\ attempt' \in [Deliveries -> Seq(Outcome)] /\ late' \in [Deliveries -> Nat]
        /\ attempt'[d] = tries /\ late'[d] = start
        /\ \A e \in Deliveries \ {d} : attempt'[e] = attempt[e] /\ late'[e] = late[e]
    BY <2>1, <2>2, <2>3
  <2>7. \A v \in Workers, e \in Deliveries : claim'[v][e].phase = "answered" => claim'[v][e] = claim[v][e]
    BY <2>1, <2>5
  <2>8. Types'
    BY <1>1, <1>2, <2>4, <2>5, <2>6, <2>7 DEF Types, TypeOK, DeliveryRow, ClaimRow, Phased
  <2>9. Begun(d, w)
    BY <1>2, <1>3, <2>4, <2>5, <2>6 DEF Begun, Holds, row, tries, start
  <2>10. \A e \in Deliveries \ {d} : Moved(e)
    BY <1>2, <2>4, <2>5, <2>6, Untouched
  <2>11. SecretLifetime' /\ ResendIsOfCode'
    BY <1>1, <1>2, <2>4, SecretStays
  <2> QED BY <2>8, <2>9, <2>10, <2>11, MovesKeep DEF Moved
<1>4. CASE ~ Holds(w, d) /\ Drop(w, d) /\ UNCHANGED <<attempt, delivery, late>>
  <2>1. /\ claim' \in [Workers -> [Deliveries -> ClaimRow]]
        /\ \A v \in Workers, e \in Deliveries : claim'[v][e] = claim[v][e] \/ claim'[v][e] = NoClaim
    BY <1>1, <1>4, Dropped
  <2>2. \A v \in Workers, e \in Deliveries : claim'[v][e].phase = "answered" => claim'[v][e] = claim[v][e]
    BY <2>1 DEF NoClaim
  <2>3. Types'
    BY <1>1, <1>2, <1>4, <2>1, <2>2 DEF Types, TypeOK, ClaimRow, Phased
  <2>4. \A e \in Deliveries : Frame(e)
    BY <1>2, <1>4, <2>1 DEF Frame
  <2>5. SecretLifetime' /\ ResendIsOfCode'
    BY <1>1, <1>2, <1>4, SecretStays
  <2> QED BY <2>3, <2>4, <2>5, MovesKeep DEF Moved
<1> QED BY <1>3, <1>4 DEF StartAttempt

LEMMA CallProviderKeeps ==
    ASSUME IInv, NEW w \in Workers, NEW d \in Deliveries, CallProvider(w, d)
    PROVE  Kept
<1>1. TypeOK /\ Types /\ SecretLifetime /\ ResendIsOfCode /\ Typed(d)
  BY TypesOfOne DEF IInv, Types
<1>2. /\ UNCHANGED <<secret, expiry, cancelled, cancelling, answer, delivery>>
      /\ UNCHANGED <<attempt, lease, renewing, late, faults, renewals>>
      /\ Phased(w, d, "started")
  BY DEF CallProvider, notification
<1>3. PICK result \in Answered :
         /\ claim' = [claim EXCEPT ![w][d].phase = "answered", ![w][d].result = result]
         /\ \/ result \in {"ACCEPTED", "AMBIGUOUS"} /\ accepted' = [accepted EXCEPT ![d] = @ + 1]
            \/ result # "ACCEPTED" /\ UNCHANGED accepted
  BY DEF CallProvider
<1> DEFINE row == [claim[w][d] EXCEPT !.phase = "answered", !.result = result]
<1>4. row \in ClaimRow /\ row.phase = "answered" /\ row.result = result /\ row.number = claim[w][d].number
  BY <1>1 DEF Typed, ClaimRow, Phase
<1>5. claim' = [claim EXCEPT ![w][d] = row]
  BY <1>1, <1>3 DEF TypeOK
<1> HIDE DEF row
<1>6. /\ claim' \in [Workers -> [Deliveries -> ClaimRow]]
      /\ claim'[w][d] = row
      /\ \A v \in Workers \ {w} : claim'[v] = claim[v]
      /\ \A e \in Deliveries \ {d} : claim'[w][e] = claim[w][e]
  BY <1>1, <1>4, <1>5, ClaimWritten
<1>7. /\ accepted' \in [Deliveries -> Nat]
      /\ \A e \in Deliveries \ {d} : accepted'[e] = accepted[e]
      /\ accepted'[d] = accepted[d] \/ (result \notin Unaccepted /\ accepted'[d] = accepted[d] + 1)
  <2>1. accepted \in [Deliveries -> Nat]
    BY <1>1 DEF TypeOK
  <2>2. CASE result \in {"ACCEPTED", "AMBIGUOUS"} /\ accepted' = [accepted EXCEPT ![d] = @ + 1]
    BY <2>1, <2>2 DEF Unaccepted
  <2>3. CASE UNCHANGED accepted
    BY <2>1, <2>3
  <2> QED BY <1>3, <2>2, <2>3
<1>8. Types'
  <2>1. \A v \in Workers, e \in Deliveries :
           claim'[v][e].phase = "answered" => claim'[v][e] = claim[v][e] \/ claim'[v][e].result \in Answered
    BY <1>4, <1>6
  <2> QED BY <1>1, <1>2, <1>6, <1>7, <2>1 DEF Types, TypeOK, ClaimRow, Phased
<1>9. Called(d, w)
  BY <1>2, <1>4, <1>6, <1>7 DEF Called
<1>10. \A e \in Deliveries \ {d} : Moved(e)
  BY <1>2, <1>6, <1>7, Untouched
<1>11. SecretLifetime' /\ ResendIsOfCode'
  BY <1>1, <1>2, SecretStays
<1> QED BY <1>8, <1>9, <1>10, <1>11, MovesKeep DEF Moved

LEMMA FinishKeeps ==
    ASSUME IInv, NEW w \in Workers, NEW d \in Deliveries, Finish(w, d)
    PROVE  Kept
<1> DEFINE number == claim[w][d].number
           result == claim[w][d].result
<1>1. TypeOK /\ Types /\ SecretLifetime /\ ResendIsOfCode /\ Typed(d) /\ Local(d)
  BY TypesOfOne DEF IInv, Types
<1>2. /\ claim[w][d].phase = "answered" /\ Drop(w, d)
      /\ UNCHANGED <<expiry, cancelled, cancelling, answer>>
      /\ UNCHANGED <<renewing, accepted, late, faults, renewals>>
  BY DEF Finish, Phased, cancel
<1>3. /\ claim' \in [Workers -> [Deliveries -> ClaimRow]]
      /\ claim'[w][d] = NoClaim
      /\ \A v \in Workers \ {w} : claim'[v] = claim[v]
      /\ \A e \in Deliveries \ {d} : claim'[w][e] = claim[w][e]
  BY <1>1, <1>2, Dropped
<1>4. \A v \in Workers, e \in Deliveries : claim'[v][e] = claim[v][e] \/ claim'[v][e] = NoClaim
  BY <1>3
<1>5. \A v \in Workers, e \in Deliveries : claim'[v][e].phase = "answered" => claim'[v][e].result \in Answered
  BY <1>1, <1>4 DEF Types, Phased, NoClaim
<1>6. \A e \in Deliveries \ {d}, v \in Workers : claim'[v][e] = claim[v][e]
  BY <1>3
<1>7. CASE /\ Holds(w, d) /\ attempt' = [attempt EXCEPT ![d][number] = result]
           /\ Outcomes(d, number, result)
  <2>1. /\ delivery[d].status = "SENDING" /\ delivery[d].resends \in 0..1
        /\ number \in DOMAIN attempt[d] /\ result \in Answered /\ lease[d] = w
    BY <1>1, <1>2, <1>7, ConstantsAssumption
    DEF Holds, Local, LeaseAgrees, CallsAreOwn, Calling, Typed, Phased
  <2> DEFINE tries == [attempt[d] EXCEPT ![number] = result]
  <2>2. tries \in Seq(Outcome)
    BY <1>1, <2>1 DEF Typed, Answered
  <2>3. attempt' = [attempt EXCEPT ![d] = tries] /\ attempt \in [Deliveries -> Seq(Outcome)]
    BY <1>1, <1>7 DEF TypeOK
  <2>4. /\ attempt' \in [Deliveries -> Seq(Outcome)] /\ attempt'[d] = tries
        /\ \A e \in Deliveries \ {d} : attempt'[e] = attempt[e]
    BY <2>2, <2>3
  <2> DEFINE Written ==
               /\ delivery' \in [Deliveries -> DeliveryRow]
               /\ lease' \in [Deliveries -> Workers \cup {None}]
               /\ secret' \in {"none", "sealed", "purged"}
               /\ lease'[d] = None
               /\ \A e \in Deliveries \ {d} : delivery'[e] = delivery[e] /\ lease'[e] = lease[e]
               /\ SecretLifetime' /\ ResendIsOfCode'
             Outcome_ ==
               \/ result = "AMBIGUOUS" /\ Doubted(d)
               \/ /\ delivery'[d].resends = delivery[d].resends
                  /\ \/ result = "ACCEPTED" /\ delivery'[d].status = "SENT"
                     \/ result \in Unaccepted /\ delivery'[d].status \in {"FAILED", "EXPIRED"}
                     \/ /\ result \in Unaccepted /\ number < MaxAttempts
                        /\ delivery'[d].status = "PENDING"
  <2>5. ASSUME NEW status \in {"SENT", "FAILED", "EXPIRED"}, End(d, status)
        PROVE  Written /\ delivery'[d].status = status /\ delivery'[d].resends = delivery[d].resends
    <3>1. status \in Terminal
      BY DEF Terminal
    <3> QED BY <1>1, <1>2, <2>1, <2>5, <3>1, Ended, SecretOfEnded DEF Live
  <2>6. ASSUME Requeue(d, delivery[d].resends)
        PROVE  Written /\ delivery'[d].status = "PENDING" /\ delivery'[d].resends = delivery[d].resends
    <3>1. /\ delivery' \in [Deliveries -> DeliveryRow]
          /\ lease' \in [Deliveries -> Workers \cup {None}]
          /\ delivery'[d].status = "PENDING" /\ delivery'[d].resends = delivery[d].resends /\ lease'[d] = None
          /\ \A e \in Deliveries \ {d} : delivery'[e] = delivery[e] /\ lease'[e] = lease[e]
          /\ secret' = secret
      BY <1>1, <2>1, <2>6, Requeued
    <3>2. SecretLifetime' /\ ResendIsOfCode'
      BY <1>1, <1>2, <2>1, <3>1, SecretStays DEF Terminal
    <3> QED BY <1>1, <3>1, <3>2 DEF TypeOK
  <2>7. ASSUME Ambiguous(d)
        PROVE  Written /\ Doubted(d)
    BY <1>1, <1>2, <2>1, <2>7, AmbiguousDoubts DEF Live
  <2>8. Written /\ Outcome_
    <3>1. CASE result = "ACCEPTED" /\ End(d, "SENT")
      BY <2>5, <3>1
    <3>2. CASE result = "AMBIGUOUS" /\ Ambiguous(d)
      BY <2>7, <3>2
    <3>3. CASE result \in Unaccepted /\ (End(d, "FAILED") \/ End(d, "EXPIRED"))
      BY <2>5, <3>3
    <3>4. CASE result \in Unaccepted /\ number < MaxAttempts /\ Requeue(d, delivery[d].resends)
      BY <2>6, <3>4
    <3> QED BY <1>7, <3>1, <3>2, <3>3, <3>4 DEF Outcomes, Unaccepted
  <2>9. Types'
    BY <1>1, <1>2, <1>3, <1>5, <2>4, <2>8 DEF Types, TypeOK, DeliveryRow, ClaimRow, Phased
  <2>10. Finished(d, w)
    BY <1>2, <1>3, <2>1, <2>4, <2>8 DEF Finished, Phased
  <2>11. \A e \in Deliveries \ {d} : Moved(e)
    BY <1>2, <1>6, <2>4, <2>8, Untouched
  <2> QED BY <2>8, <2>9, <2>10, <2>11, MovesKeep DEF Moved
<1>8. CASE UNCHANGED <<attempt, delivery, lease, secret>>
  <2>1. Types'
    BY <1>1, <1>2, <1>3, <1>5, <1>8 DEF Types, TypeOK, ClaimRow, Phased
  <2>2. \A e \in Deliveries : Frame(e)
    BY <1>2, <1>4, <1>8 DEF Frame
  <2>3. SecretLifetime' /\ ResendIsOfCode'
    BY <1>1, <1>2, <1>8, SecretStays
  <2> QED BY <2>1, <2>2, <2>3, MovesKeep DEF Moved
<1> QED BY <1>7, <1>8 DEF Finish

LEMMA ClaimKeeps ==
    ASSUME IInv, NEW w \in Workers, Claim(w)
    PROVE  Kept
<1>1. TypeOK /\ Types /\ SecretLifetime /\ ResendIsOfCode
  BY DEF IInv, Types
<1>2. /\ UNCHANGED <<secret, expiry, cancelled, cancelling, answer, attempt>>
      /\ UNCHANGED <<renewing, accepted, late, faults, renewals>>
      /\ \A d \in Deliveries : Phased(w, d, "none")
  BY DEF Claim, notification
<1> DEFINE queued == [NoClaim EXCEPT !.phase = "queued"]
<1>3. PICK due \in SUBSET {d \in Deliveries : delivery[d].status = "PENDING"} :
         /\ delivery' = [d \in Deliveries |-> IF d \in due THEN [delivery[d] EXCEPT !.status = "SENDING"]
                                              ELSE delivery[d]]
         /\ lease' = [d \in Deliveries |-> IF d \in due THEN w ELSE lease[d]]
         /\ claim' = [claim EXCEPT ![w] = [d \in Deliveries |-> IF d \in due THEN queued ELSE NoClaim]]
  BY DEF Claim
<1>4. /\ delivery \in [Deliveries -> DeliveryRow] /\ lease \in [Deliveries -> Workers \cup {None}]
      /\ claim \in [Workers -> [Deliveries -> ClaimRow]]
  BY <1>1 DEF TypeOK, DeliveryRow, ClaimRow
<1>5. queued \in ClaimRow /\ NoClaim \in ClaimRow /\ queued.phase = "queued"
  BY DEF NoClaim, ClaimRow, Phase
<1>6. /\ delivery' \in [Deliveries -> DeliveryRow] /\ lease' \in [Deliveries -> Workers \cup {None}]
      /\ \A d \in Deliveries : delivery'[d].resends = delivery[d].resends
      /\ \A d \in due : /\ delivery[d].status = "PENDING" /\ delivery'[d].status = "SENDING"
                        /\ lease'[d] = w
      /\ \A d \in Deliveries \ due : delivery'[d] = delivery[d] /\ lease'[d] = lease[d]
  BY <1>3, <1>4 DEF DeliveryRow, Status
<1> HIDE DEF queued
<1>7. /\ claim' \in [Workers -> [Deliveries -> ClaimRow]]
      /\ \A d \in due : claim'[w][d] = queued
      /\ \A d \in Deliveries \ due : claim'[w][d] = NoClaim
      /\ \A v \in Workers \ {w} : claim'[v] = claim[v]
  BY <1>3, <1>4, <1>5
<1>8. \A v \in Workers, d \in Deliveries : claim'[v][d].phase = "answered" => claim'[v][d] = claim[v][d]
  BY <1>5, <1>7 DEF NoClaim
<1>9. Types'
  BY <1>1, <1>2, <1>6, <1>7, <1>8 DEF Types, TypeOK, DeliveryRow, ClaimRow, Phased
<1>10. \A d \in due : Claimed(d, w)
  BY <1>2, <1>3, <1>5, <1>6, <1>7 DEF Claimed, SameClaims
<1>11. \A d \in Deliveries \ due : Frame(d)
  BY <1>2, <1>6, <1>7 DEF Frame
<1>12. SecretLifetime' /\ ResendIsOfCode'
  BY <1>1, <1>2, <1>6, SecretStays DEF Terminal
<1> QED BY <1>9, <1>10, <1>11, <1>12, MovesKeep DEF Moved

\* steps after which every delivery and its attempts are as they were
LEMMA FramesKeep ==
    ASSUME IInv, Types', UNCHANGED secret, expiry' = expiry \/ expiry' = "passed",
           \A d \in Deliveries : Frame(d)
    PROVE  Kept
<1>1. \A d \in Deliveries : delivery'[d].status = delivery[d].status /\ delivery'[d].resends = delivery[d].resends
  BY DEF Frame
<1>2. SecretLifetime' /\ ResendIsOfCode'
  BY <1>1, SecretStays DEF IInv
<1> QED BY <1>2, MovesKeep DEF Moved

LEMMA LeaseStepsKeep ==
    ASSUME IInv, NEW w, NEW d,
           \/ w \in Workers /\ (RenewQueued(w) \/ Renewed(w))
           \/ d \in Deliveries /\ LeaseEnds(d)
    PROVE  Kept
<1>1. /\ TypeOK /\ Types /\ faults \in 0..MaxFaults /\ renewals \in 0..MaxRenewals
      /\ MaxFaults \in Nat /\ MaxRenewals \in Nat
      /\ delivery \in [Deliveries -> DeliveryRow] /\ lease \in [Deliveries -> Workers \cup {None}]
      /\ renewing \in [Workers -> SUBSET Deliveries]
  BY ConstantsAssumption DEF IInv, Types, TypeOK, DeliveryRow
<1>2. /\ UNCHANGED <<secret, expiry, cancelled, cancelling, answer>>
      /\ UNCHANGED <<attempt, claim, accepted, late>>
  BY DEF RenewQueued, Renewed, LeaseEnds, notification
<1>3. SUFFICES /\ faults' \in 0..MaxFaults /\ renewals' \in 0..MaxRenewals
               /\ renewing' \in [Workers -> SUBSET Deliveries]
               /\ delivery' \in [Deliveries -> DeliveryRow]
               /\ lease' \in [Deliveries -> Workers \cup {None}]
               /\ \A e \in Deliveries : /\ delivery'[e].status = delivery[e].status
                                        /\ delivery'[e].resends = delivery[e].resends
                                        /\ lease'[e] = lease[e] \/ lease'[e] = None
  <2>1. Types'
    BY <1>1, <1>2, <1>3 DEF Types, TypeOK, DeliveryRow, Phased
  <2>2. \A e \in Deliveries : Frame(e)
    BY <1>2, <1>3 DEF Frame
  <2> QED BY <1>2, <2>1, <2>2, FramesKeep
<1>4. CASE w \in Workers /\ RenewQueued(w)
  <2> DEFINE queued == {e \in Deliveries : Phased(w, e, "queued") /\ Holds(w, e)}
  <2>1. /\ renewals < MaxRenewals /\ renewals' = renewals + 1 /\ faults' = faults /\ lease' = lease
        /\ renewing' = [renewing EXCEPT ![w] = queued]
        /\ delivery' = [e \in Deliveries |-> IF e \in queued THEN [delivery[e] EXCEPT !.lapsed = FALSE]
                                             ELSE delivery[e]]
    BY <1>4 DEF RenewQueued
  <2>2. queued \in SUBSET Deliveries
    OBVIOUS
  <2> HIDE DEF queued
  <2>3. /\ delivery' \in [Deliveries -> DeliveryRow]
        /\ \A e \in Deliveries : delivery'[e].status = delivery[e].status /\ delivery'[e].resends = delivery[e].resends
    BY <1>1, <2>1 DEF DeliveryRow
  <2>4. renewals' \in 0..MaxRenewals /\ renewing' \in [Workers -> SUBSET Deliveries]
    BY <1>1, <1>4, <2>1, <2>2
  <2> QED BY <1>1, <2>1, <2>3, <2>4
<1>5. CASE w \in Workers /\ Renewed(w)
  <2>1. PICK gone \in {{e \in renewing[w] : lease[e] = w /\ ~ Phased(w, e, "queued")}, renewing[w]} :
           /\ UNCHANGED faults \/ Fault
           /\ lease' = [e \in Deliveries |-> IF e \in gone /\ lease[e] = w THEN None ELSE lease[e]]
    BY <1>5 DEF Renewed
  <2>2. faults' \in 0..MaxFaults
    BY <1>1, <2>1 DEF Fault
  <2>3. renewing' = [renewing EXCEPT ![w] = {}] /\ delivery' = delivery /\ renewals' = renewals
    BY <1>5 DEF Renewed
  <2> QED BY <1>1, <2>1, <2>2, <2>3
<1>6. CASE d \in Deliveries /\ LeaseEnds(d)
  <2>1. /\ UNCHANGED faults \/ Fault
        /\ delivery' = [delivery EXCEPT ![d].lapsed = TRUE]
        /\ lease' = lease /\ renewing' = renewing /\ renewals' = renewals
    BY <1>6 DEF LeaseEnds
  <2>2. faults' \in 0..MaxFaults
    BY <1>1, <2>1 DEF Fault
  <2>3. /\ delivery' \in [Deliveries -> DeliveryRow]
        /\ \A e \in Deliveries : delivery'[e].status = delivery[e].status /\ delivery'[e].resends = delivery[e].resends
    BY <1>1, <2>1 DEF DeliveryRow
  <2> QED BY <1>1, <2>1, <2>2, <2>3
<1> QED BY <1>4, <1>5, <1>6

LEMMA CrashWorkerKeeps ==
    ASSUME IInv, NEW w \in Workers, CrashWorker(w)
    PROVE  Kept
<1>1. /\ TypeOK /\ Types /\ claim \in [Workers -> [Deliveries -> ClaimRow]]
      /\ faults \in 0..MaxFaults /\ MaxFaults \in Nat
      /\ renewing \in [Workers -> SUBSET Deliveries] /\ NoClaim \in ClaimRow
  BY ConstantsAssumption DEF IInv, Types, TypeOK, ClaimRow, NoClaim, Phase
<1>2. /\ UNCHANGED <<secret, expiry, cancelled, cancelling, answer, delivery>>
      /\ UNCHANGED <<attempt, lease, accepted, late, renewals>>
      /\ Fault
      /\ claim' = [claim EXCEPT ![w] = [d \in Deliveries |-> NoClaim]]
      /\ renewing' = [renewing EXCEPT ![w] = {}]
  BY DEF CrashWorker, notification
<1>3. /\ claim' \in [Workers -> [Deliveries -> ClaimRow]]
      /\ \A v \in Workers, d \in Deliveries : claim'[v][d] = claim[v][d] \/ claim'[v][d] = NoClaim
      /\ renewing' \in [Workers -> SUBSET Deliveries]
      /\ faults' \in 0..MaxFaults
  BY <1>1, <1>2 DEF Fault
<1>4. \A v \in Workers, d \in Deliveries : claim'[v][d].phase = "answered" => claim'[v][d] = claim[v][d]
  BY <1>3 DEF NoClaim
<1>5. Types'
  BY <1>1, <1>2, <1>3, <1>4 DEF Types, TypeOK, ClaimRow, Phased
<1>6. \A d \in Deliveries : Frame(d)
  BY <1>2, <1>3 DEF Frame
<1> QED BY <1>2, <1>5, <1>6, FramesKeep

LEMMA ReleaseKeeps ==
    ASSUME IInv, NEW w \in Workers, Release(w)
    PROVE  Kept
<1> DEFINE queued == {d \in Deliveries : Phased(w, d, "queued")}
           back   == {d \in queued : Holds(w, d)}
<1>1. /\ TypeOK /\ Types /\ SecretLifetime /\ ResendIsOfCode
      /\ claim \in [Workers -> [Deliveries -> ClaimRow]]
      /\ delivery \in [Deliveries -> DeliveryRow] /\ lease \in [Deliveries -> Workers \cup {None}]
      /\ faults \in 0..MaxFaults /\ MaxFaults \in Nat /\ NoClaim \in ClaimRow
  BY ConstantsAssumption DEF IInv, Types, TypeOK, DeliveryRow, ClaimRow, NoClaim, Phase
<1>2. /\ UNCHANGED <<secret, expiry, cancelled, cancelling, answer>>
      /\ UNCHANGED <<attempt, renewing, accepted, late, renewals>>
      /\ delivery' = [d \in Deliveries |-> IF d \in back
                        THEN [delivery[d] EXCEPT !.status = "PENDING", !.lapsed = FALSE] ELSE delivery[d]]
      /\ lease' = [d \in Deliveries |-> IF d \in back THEN None ELSE lease[d]]
      /\ claim' = [claim EXCEPT ![w] = [d \in Deliveries |-> IF d \in queued THEN NoClaim ELSE claim[w][d]]]
  BY <1>1 DEF Release, notification
<1>3. \A d \in back : /\ d \in queued /\ d \in Deliveries
                      /\ delivery[d].status = "SENDING" /\ Started(d) = {}
  BY ConstantsAssumption DEF IInv, Local, LeaseAgrees, Holds, Phased, Unsent
<1>4. queued \in SUBSET Deliveries
  OBVIOUS
<1> HIDE DEF queued, back
<1>5. /\ claim' \in [Workers -> [Deliveries -> ClaimRow]]
      /\ \A v \in Workers, d \in Deliveries : claim'[v][d] = claim[v][d] \/ claim'[v][d] = NoClaim
  BY <1>1, <1>2
<1>6. /\ delivery' \in [Deliveries -> DeliveryRow] /\ lease' \in [Deliveries -> Workers \cup {None}]
      /\ \A d \in Deliveries : delivery'[d].resends = delivery[d].resends
      /\ \A d \in back : delivery'[d].status = "PENDING" /\ lease'[d] = None
      /\ \A d \in Deliveries \ back : delivery'[d] = delivery[d] /\ lease'[d] = lease[d]
  BY <1>1, <1>2, <1>3 DEF DeliveryRow, Status
<1>7. faults' \in 0..MaxFaults
  <2>1. Fault
    BY DEF Release
  <2> QED BY <1>1, <2>1 DEF Fault
<1>8. \A v \in Workers, d \in Deliveries : claim'[v][d].phase = "answered" => claim'[v][d] = claim[v][d]
  BY <1>5 DEF NoClaim
<1>9. Types'
  BY <1>1, <1>2, <1>5, <1>6, <1>7, <1>8 DEF Types, TypeOK, DeliveryRow, ClaimRow, Phased
<1>10. \A d \in back : Settled(d)
  BY <1>2, <1>3, <1>5, <1>6 DEF Settled, SameClaims, Live
<1>11. \A d \in Deliveries \ back : Frame(d)
  BY <1>2, <1>5, <1>6 DEF Frame
<1>12. SecretLifetime' /\ ResendIsOfCode'
  BY <1>1, <1>2, <1>3, <1>6, SecretStays DEF Terminal
<1> QED BY <1>9, <1>10, <1>11, <1>12, MovesKeep DEF Moved

LEMMA BeginCancelKeeps ==
    ASSUME IInv, BeginCancel
    PROVE  Kept
<1>1. /\ UNCHANGED <<secret, expiry, cancelled, answer, delivery, attempt, lease>>
      /\ UNCHANGED <<claim, renewing, accepted, late, faults, renewals>>
      /\ cancelling' \in [active : BOOLEAN, sending : BOOLEAN]
  BY DEF BeginCancel, notification
<1>2. Types'
  BY <1>1 DEF IInv, Types, TypeOK, Phased
<1>3. \A d \in Deliveries : Frame(d)
  BY <1>1 DEF Frame
<1> QED BY <1>1, <1>2, <1>3, FramesKeep

LEMMA ElapseKeeps ==
    ASSUME IInv, Elapse
    PROVE  Kept
<1>1. /\ expiry' = "passed"
      /\ UNCHANGED <<secret, cancelled, cancelling, answer, delivery, attempt, lease>>
      /\ UNCHANGED <<claim, renewing, accepted, late, faults, renewals>>
  BY DEF Elapse, cancel
<1>2. Types'
  BY <1>1 DEF IInv, Types, TypeOK, Phased
<1>3. \A d \in Deliveries : Frame(d)
  BY <1>1 DEF Frame
<1> QED BY <1>1, <1>2, <1>3, FramesKeep

LEMMA PurgeOnceKeeps ==
    ASSUME IInv, PurgeOnce
    PROVE  Kept
<1>1. /\ secret = "sealed" /\ secret' = "purged"
      /\ expiry = "passed" \/ \A d \in Deliveries : delivery[d].status \in Terminal
      /\ UNCHANGED <<expiry, cancelled, cancelling, answer, delivery, attempt, lease>>
      /\ UNCHANGED <<claim, renewing, accepted, late, faults, renewals>>
  BY DEF PurgeOnce, cancel
<1>2. Types'
  BY <1>1 DEF IInv, Types, TypeOK, Phased
<1>3. \A d \in Deliveries : Frame(d)
  BY <1>1 DEF Frame
<1>4. SecretLifetime' /\ ResendIsOfCode'
  BY <1>1 DEF IInv, SecretLifetime, ResendIsOfCode
<1> QED BY <1>2, <1>3, <1>4, MovesKeep DEF Moved

LEMMA CommitCancelKeeps ==
    ASSUME IInv, CommitCancel
    PROVE  Kept
<1>1. TypeOK /\ Types /\ SecretLifetime /\ ResendIsOfCode
  BY DEF IInv, Types
<1>2. /\ UNCHANGED <<secret, expiry, attempt, lease, claim>>
      /\ UNCHANGED <<renewing, accepted, late, faults, renewals>>
      /\ cancelling # None /\ cancelled' = (cancelled \/ cancelling.active)
      /\ cancelling' = None /\ answer' \in {"ok", "delivery_in_progress"}
      /\ delivery' = [d \in Deliveries |-> IF delivery[d].status = "PENDING"
                        THEN [delivery[d] EXCEPT !.status = "CANCELLED"] ELSE delivery[d]]
  BY DEF CommitCancel
<1>3. delivery \in [Deliveries -> DeliveryRow] /\ cancelled' \in BOOLEAN /\ (cancelled => cancelled')
  <2>1. cancelled \in BOOLEAN /\ cancelling \in [active : BOOLEAN, sending : BOOLEAN]
    BY <1>1, <1>2 DEF TypeOK
  <2>2. cancelling.active \in BOOLEAN
    BY <2>1
  <2>3. cancelled' \in BOOLEAN /\ (cancelled => cancelled')
    BY <1>2, <2>1, <2>2
  <2> QED BY <1>1, <2>3 DEF TypeOK, DeliveryRow
<1>4. /\ delivery' \in [Deliveries -> DeliveryRow]
      /\ \A d \in Deliveries : /\ delivery'[d].resends = delivery[d].resends
                               /\ delivery[d].status = "PENDING" => delivery'[d].status = "CANCELLED"
                               /\ delivery[d].status # "PENDING" => delivery'[d] = delivery[d]
  BY <1>2, <1>3 DEF DeliveryRow, Status, Terminal
<1>5. Types'
  <2>1. \A w \in Workers, d \in Deliveries : claim'[w][d].phase = "answered" => claim'[w][d].result \in Answered
    BY <1>1, <1>2 DEF Types, Phased
  <2> QED BY <1>1, <1>2, <1>3, <1>4, <2>1 DEF Types, TypeOK, DeliveryRow, Phased
<1>6. ASSUME NEW d \in Deliveries, delivery[d].status = "PENDING"
      PROVE  Settled(d)
  <2>1. Started(d) = {} /\ lease[d] = None
    BY <1>6 DEF IInv, Local, Told, LeaseAgrees
  <2> QED BY <1>2, <1>3, <1>4, <1>6, <2>1 DEF Settled, SameClaims, Live
<1>7. ASSUME NEW d \in Deliveries, delivery[d].status # "PENDING"
      PROVE  Frame(d)
  BY <1>2, <1>3, <1>4, <1>7 DEF Frame
<1>8. \A d \in Deliveries : Moved(d)
  BY <1>6, <1>7 DEF Moved
<1>9. ResendIsOfCode'
  BY <1>1, <1>2, <1>4 DEF ResendIsOfCode
<1>10. SecretLifetime'
  <2>1. secret' = "purged" => (\A d \in Deliveries : delivery'[d].status \in Terminal) \/ expiry' = "passed"
    BY <1>1, <1>2, <1>4 DEF SecretLifetime, Terminal
  <2>2. ASSUME \A d \in Deliveries : delivery'[d].status \in Terminal, secret' = "sealed"
        PROVE  \E d \in Deliveries : delivery'[d].status = "CANCELLED"
    <3>1. CASE \E d \in Deliveries : delivery[d].status = "PENDING"
      BY <3>1, <1>4
    <3>2. CASE \A d \in Deliveries : delivery[d].status # "PENDING"
      <4>1. \A d \in Deliveries : delivery'[d] = delivery[d]
        BY <3>2, <1>4
      <4> QED BY <1>1, <1>2, <2>2, <4>1 DEF SecretLifetime
    <3> QED BY <3>1, <3>2
  <2> QED BY <2>1, <2>2 DEF SecretLifetime
<1> QED BY <1>5, <1>8, <1>9, <1>10, MovesKeep

LEMMA IInvInit ==
    ASSUME Init
    PROVE  IInv
<1>1. Types
  <2>1. /\ secret \in {"none", "sealed", "purged"} /\ expiry \in {"never", "ahead", "passed"}
        /\ cancelled = FALSE /\ cancelling = None /\ answer = None
        /\ faults \in 0..MaxFaults /\ renewals \in 0..MaxRenewals
        /\ renewing \in [Workers -> SUBSET Deliveries]
    BY ConstantsAssumption DEF Init
  <2>2. delivery \in [Deliveries -> DeliveryRow] /\ lease \in [Deliveries -> Workers \cup {None}]
    BY DEF Init, DeliveryRow, Status
  <2>3. /\ attempt \in [Deliveries -> Seq(Outcome)]
        /\ accepted \in [Deliveries -> Nat] /\ late \in [Deliveries -> Nat]
    BY DEF Init
  <2>4. NoClaim \in ClaimRow /\ NoClaim.phase = "none"
    BY DEF NoClaim, ClaimRow, Phase
  <2>5. /\ claim \in [Workers -> [Deliveries -> ClaimRow]]
        /\ \A w \in Workers, d \in Deliveries : claim[w][d].phase # "answered"
    BY <2>4 DEF Init
  <2> QED BY <2>1, <2>2, <2>3, <2>5 DEF Types, TypeOK, DeliveryRow, ClaimRow, Phased
<1>2. \A d \in Deliveries : /\ delivery[d].status = "PENDING" /\ delivery[d].resends = 0
                            /\ attempt[d] = <<>> /\ lease[d] = None
                            /\ accepted[d] = 0 /\ late[d] = 0
  BY DEF Init
<1>3. \A w \in Workers, d \in Deliveries : claim[w][d].phase = "none"
  BY DEF Init, NoClaim
<1>4. ASSUME NEW d \in Deliveries
      PROVE  Local(d)
  <2>1. DOMAIN attempt[d] = {} /\ Len(attempt[d]) = 0
    BY <1>2
  <2>2. Started(d) = {} /\ Maybe(d) = {} /\ Maybe(d) \ Open(d) = {}
    BY <2>1 DEF Started, Maybe
  <2>3. Cardinality(Maybe(d)) = 0 /\ Cardinality(Maybe(d) \ Open(d)) = 0
    BY <2>2, FS_EmptySet
  <2>4. LeaseAgrees(d) /\ CallsAreOwn(d) /\ LateOnce(d)
    BY <1>2, <1>3, ConstantsAssumption DEF LeaseAgrees, CallsAreOwn, LateOnce, Calling
  <2>5. Told(d)
    BY <1>2, <2>1, <2>2, ConstantsAssumption DEF Told
  <2>6. Budget(d) /\ Counted(d)
    BY <1>2, <2>1, <2>3, ConstantsAssumption DEF Budget, Counted
  <2> QED BY <2>4, <2>5, <2>6 DEF Local
<1>5. ResendIsOfCode
  BY <1>2 DEF ResendIsOfCode
<1>6. SecretLifetime
  <2>1. secret # "purged"
    BY DEF Init
  <2>2. \E d \in Deliveries : delivery[d].status \notin Terminal
    BY <1>2, ConstantsAssumption DEF Terminal
  <2> QED BY <2>1, <2>2 DEF SecretLifetime
<1> QED BY <1>1, <1>4, <1>5, <1>6 DEF IInv

LEMMA EveryStepKeeps ==
    ASSUME IInv, [Next]_vars
    PROVE  Kept
<1>1. CASE UNCHANGED vars
  <2>1. /\ UNCHANGED <<secret, expiry, cancelled, cancelling, answer, delivery, attempt, lease>>
        /\ UNCHANGED <<claim, renewing, accepted, late, faults, renewals>>
    BY <1>1 DEF vars, cancel
  <2>2. Types'
    BY <2>1 DEF IInv, Types, TypeOK, Phased
  <2>3. \A d \in Deliveries : Frame(d)
    BY <2>1 DEF Frame
  <2> QED BY <2>1, <2>2, <2>3, FramesKeep
<1>2. ASSUME NEW d \in Deliveries, Recover(d) \/ LeaseEnds(d)
      PROVE  Kept
  <2>1. CASE Recover(d)
    BY <2>1, RecoverKeeps
  <2>2. CASE LeaseEnds(d)
    BY <2>2, LeaseStepsKeep
  <2> QED BY <1>2, <2>1, <2>2
<1>3. ASSUME NEW w \in Workers, Claim(w) \/ RenewQueued(w) \/ Renewed(w) \/ CrashWorker(w) \/ Release(w)
      PROVE  Kept
  BY <1>3, ConstantsAssumption, ClaimKeeps, LeaseStepsKeep, CrashWorkerKeeps, ReleaseKeeps
<1>4. ASSUME NEW w \in Workers, NEW d \in Deliveries,
             ClaimStep(w, d) \/ FailUnsent(w, d) \/ Abandon(w, d)
      PROVE  Kept
  <2>1. CASE Withdraw(w, d) \/ Expire(w, d) \/ FailUnsent(w, d)
    BY <2>1, EndUnsentKeeps DEF Withdraw, Expire, FailUnsent
  <2>2. CASE ReadContext(w, d) \/ StartAttempt(w, d) \/ CallProvider(w, d) \/ Finish(w, d) \/ Abandon(w, d)
    BY <2>2, ReadContextKeeps, StartAttemptKeeps, CallProviderKeeps, FinishKeeps, AbandonKeeps
  <2> QED BY <1>4, <2>1, <2>2 DEF ClaimStep
<1>5. CASE BeginCancel \/ CommitCancel \/ Elapse \/ PurgeOnce
  BY <1>5, BeginCancelKeeps, CommitCancelKeeps, ElapseKeeps, PurgeOnceKeeps
<1> QED BY <1>1, <1>2, <1>3, <1>4, <1>5 DEF Next

LEMMA IInvAlways == Spec => []IInv
<1>1. Init => IInv
  BY IInvInit
<1>2. IInv /\ [Next]_vars => IInv'
  BY EveryStepKeeps DEF Kept
<1> QED BY <1>1, <1>2, PTL DEF Spec

-----------------------------------------------------------------------------
(* The theorems *)

\* TypeOK: every row, claim and counter keeps its type, whatever the workers,
\* the recovery and the cancels do to one another
\* (delivery-worker.service.ts, delivery-claims.ts).
THEOREM NotificationTypeCorrect == Spec => []TypeOK
<1>1. IInv => TypeOK
  BY DEF IInv, Types
<1> QED BY <1>1, IInvAlways, PTL

\* SentOnce: for any number of workers, crashes and leases lost under a call, the
\* provider accepts one message for a delivery, or two when a one-time code was
\* resent, and never one without an attempt that shows it.
THEOREM SentOnceAlways == Spec => []SentOnce
<1>1. ASSUME IInv
      PROVE  SentOnce
  <2>1. ASSUME NEW d \in Deliveries
        PROVE  /\ accepted[d] <= 1 + delivery[d].resends
               /\ accepted[d] <= Cardinality(Maybe(d))
    <3>1. Typed(d) /\ Counted(d) /\ Budget(d)
      BY <1>1, TypesOfOne DEF IInv, Local
    <3>2. (Maybe(d) \ Open(d)) \in SUBSET Maybe(d)
      OBVIOUS
    <3>3. /\ Cardinality(Maybe(d) \ Open(d)) \in Nat /\ Cardinality(Maybe(d)) \in Nat
          /\ Cardinality(Maybe(d) \ Open(d)) <= Cardinality(Maybe(d))
      BY <3>1, <3>2, MaybeFinite
    <3>4. accepted[d] \in Nat /\ delivery[d].resends \in 0..1
      BY <3>1 DEF Typed
    <3> QED BY <3>1, <3>3, <3>4 DEF Counted, Budget
  <2>2. ResendIsOfCode
    BY <1>1 DEF IInv
  <2> QED BY <2>1, <2>2 DEF SentOnce, Maybe, ResendIsOfCode
<1> QED BY <1>1, IInvAlways, PTL

\* EvidenceAgrees: the row of a delivery and its attempts tell one story: one open
\* attempt at most and only under SENDING, SENT exactly on an accepted last attempt,
\* and the budget of attempts with the resend beside it.
THEOREM EvidenceAgreesAlways == Spec => []EvidenceAgrees
<1>1. ASSUME IInv
      PROVE  EvidenceAgrees
  <2>1. \A d \in Deliveries : Told(d)
    BY <1>1 DEF IInv, Local
  <2> QED BY <2>1 DEF EvidenceAgrees, Told
<1> QED BY <1>1, IInvAlways, PTL

\* CancelStops: however many workers hold old claims when the notification is
\* cancelled, at most one attempt of a delivery starts after it.
THEOREM CancelStopsAlways == Spec => []CancelStops
<1>1. ASSUME IInv
      PROVE  CancelStops
  BY <1>1 DEF IInv, Local, LateOnce, CancelStops
<1> QED BY <1>1, IInvAlways, PTL

\* SecretLifetime: a one-time code is purged when it can no longer be sent and not
\* before, and only a cancel leaves the last delivery's code to the purge loop.
THEOREM SecretLifetimeAlways == Spec => []SecretLifetime
<1>1. IInv => SecretLifetime
  BY DEF IInv
<1> QED BY <1>1, IInvAlways, PTL

\* No step takes back how a delivery ended, what became of an attempt, the one resend of a code or
\* a cancellation, whichever worker lost its lease and answers late, and whatever
\* recovery and cancel do beside it (finish, transition, recoverStale, cancel).
THEOREM EvidenceStaysAlways == Spec => [][EvidenceStays]_vars
<1>1. IInv /\ [Next]_vars => [EvidenceStays]_vars
  BY EveryStepKeeps DEF Kept
<1> QED BY <1>1, IInvAlways, PTL DEF Spec

=============================================================================
