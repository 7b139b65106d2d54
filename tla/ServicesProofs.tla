--------------------------- MODULE ServicesProofs ---------------------------
(***************************************************************************)
(* Proofs about auth-service, file-service, organization-service,          *)
(* audit-service and release-service, for every set of sessions, tokens,   *)
(* receipts, files, tickets, operators, holds and releases.  Each module   *)
(* has an inductive invariant of its own: what its transactions know when  *)
(* they write, because of a lock they hold, a conditional statement or a   *)
(* state nothing leaves.  On it rest what no step takes back: the rows     *)
(* each service keeps, and how they end.                                   *)
(***************************************************************************)
EXTENDS MCServices, FiniteSetTheorems, TLAPS

-----------------------------------------------------------------------------
(* Rows kept as a set of at most one *)

AtMostOne(S) == S = {} \/ \E x \in S : S = {x}

LEMMA AtMostOneCounted ==
    ASSUME NEW S, AtMostOne(S)
    PROVE  Cardinality(S) <= 1
<1>1. CASE S = {}
  BY <1>1, FS_EmptySet
<1>2. CASE \E x \in S : S = {x}
  <2>1. PICK x \in S : S = {x}
    BY <1>2
  <2>2. Cardinality({x}) = 1
    BY FS_Singleton
  <2> QED BY <2>1, <2>2
<1> QED BY <1>1, <1>2 DEF AtMostOne

-----------------------------------------------------------------------------
(* Legal holds, ingestion and retention: an order under a Company's lock   *)
(* shares it with no row a batch has deleted, so what is placed under it   *)
(* reaches none of them.                                                   *)

AuditRow  == [fact : Facts, company : Companies \cup {Unscoped}, inWindow : BOOLEAN, past : BOOLEAN]
HoldRow   == [company : Companies, windowed : BOOLEAN, released : BOOLEAN]
OpenOrder == [kind : {"place", "release"}, hold : LegalHolds, stage : {"proven", "locked"}, company : Companies]
InHand    == [event : Events, fact : Facts, conflict : BOOLEAN]

AuditTyped ==
    /\ record \in [Events -> SUBSET AuditRow] /\ \A e \in Events : AtMostOne(record[e])
    /\ acked \in [Events -> SUBSET Facts]
    /\ hold \in [LegalHolds -> SUBSET HoldRow] /\ \A h \in LegalHolds : AtMostOne(hold[h])
    /\ delivery \in [Deliverers -> InHand \cup {NoDelivery}]
    /\ order \in [Owners -> OpenOrder \cup {NoOrder}]
    /\ batch \in [doomed : SUBSET Events, deleted : SUBSET Events, open : BOOLEAN]
    /\ batch.doomed \cap batch.deleted = {}

\* a batch is of rows there are, and an order that has locked its Company shares it with none of
\* those it has deleted
BatchOfRows   == \A e \in batch.doomed \cup batch.deleted : record[e] # {}
OrdersExclude ==
    \A o \in Owners : order[o].stage = "locked" =>
       \A e \in batch.deleted : \A r \in record[e] : r.company # order[o].company

AuditInv == AuditTyped /\ BatchOfRows /\ OrdersExclude /\ HoldsAreKept /\ EvidenceIsOne

LEMMA AuditInitially ==
    NothingAudited => AuditInv
  BY DEF NothingAudited, AuditInv, AuditTyped, BatchOfRows, OrdersExclude, HoldsAreKept, EvidenceIsOne,
         NoBatch, NoOrder, AtMostOne

LEMMA AuditOrders ==
    ASSUME AuditInv, NEW o \in Owners,
           \/ \E h \in LegalHolds, c \in Companies : AskPlace(o, h, c)
           \/ \E h \in LegalHolds : AskRelease(o, h)
           \/ LockHolds(o) \/ FailOrder(o)
    PROVE  AuditInv'
<1>0. UNCHANGED <<record, delivery, acked, hold, batch>>
  BY DEF AskPlace, AskRelease, LockHolds, FailOrder
<1>1. order' \in [Owners -> OpenOrder \cup {NoOrder}]
  <2>1. ASSUME NEW h \in LegalHolds, NEW c \in Companies, AskPlace(o, h, c)
        PROVE  order' \in [Owners -> OpenOrder \cup {NoOrder}]
    BY <2>1 DEF AskPlace, AuditInv, AuditTyped, OpenOrder
  <2>2. ASSUME NEW h \in LegalHolds, AskRelease(o, h)
        PROVE  order' \in [Owners -> OpenOrder \cup {NoOrder}]
    BY <2>2 DEF AskRelease, CompanyOf, AuditInv, AuditTyped, OpenOrder, HoldRow
  <2>3. CASE LockHolds(o)
    <3>1. order[o] \in OpenOrder
      BY <2>3 DEF LockHolds, AuditInv, AuditTyped, NoOrder
    <3>2. [order[o] EXCEPT !.stage = "locked"] \in OpenOrder
      BY <3>1 DEF OpenOrder
    <3> QED BY <2>3, <3>2 DEF LockHolds, AuditInv, AuditTyped
  <2>4. CASE FailOrder(o)
    BY <2>4 DEF FailOrder, AuditInv, AuditTyped
  <2> QED BY <2>1, <2>2, <2>3, <2>4
<1>2. OrdersExclude'
  <2>1. ASSUME NEW p \in Owners, order'[p].stage = "locked"
        PROVE  \/ order[p].stage = "locked" /\ order'[p].company = order[p].company
               \/ p = o /\ LockHolds(o) /\ order'[p].company = order[p].company
    BY <2>1 DEF AskPlace, AskRelease, LockHolds, FailOrder, AuditInv, AuditTyped, NoOrder, OpenOrder
  <2>2. LockHolds(o) => \A e \in batch.deleted : \A r \in record[e] : r.company # order[o].company
    BY DEF LockHolds, Shared
  <2> QED BY <1>0, <2>1, <2>2 DEF OrdersExclude, AuditInv
<1> QED BY <1>0, <1>1, <1>2 DEF AuditInv, AuditTyped, BatchOfRows, HoldsAreKept, EvidenceIsOne, IsHeld, Active

\* a hold that is placed is of a Company whose rows no batch has deleted
LEMMA AuditPlacement ==
    ASSUME AuditInv, NEW o \in Owners, PlaceOrder(o)
    PROVE  AuditInv'
<1>0. /\ order[o] \in OpenOrder /\ order[o].stage = "locked"
      /\ order' = [order EXCEPT ![o] = NoOrder]
      /\ UNCHANGED <<record, delivery, acked, batch>>
  BY DEF PlaceOrder, AuditInv, AuditTyped, NoOrder
<1>1. PICK h \in LegalHolds, c \in Companies, k \in HoldRow :
         /\ order[o].hold = h /\ order[o].company = c /\ k.company = c
         /\ hold' = [hold EXCEPT ![h] = {k}]
  <2>1. PICK windowed \in BOOLEAN :
           hold' = [hold EXCEPT ![order[o].hold] = {[company |-> order[o].company, windowed |-> windowed, released |-> FALSE]}]
    BY DEF PlaceOrder
  <2>2. [company |-> order[o].company, windowed |-> windowed, released |-> FALSE] \in HoldRow
    BY <1>0 DEF OpenOrder, HoldRow
  <2> QED BY <1>0, <2>1, <2>2 DEF OpenOrder
<1>2. AuditTyped'
  <2>1. hold' \in [LegalHolds -> SUBSET HoldRow] /\ \A x \in LegalHolds : AtMostOne(hold'[x])
    BY <1>1 DEF AuditInv, AuditTyped, AtMostOne
  <2>2. order' \in [Owners -> OpenOrder \cup {NoOrder}]
    BY <1>0 DEF AuditInv, AuditTyped
  <2> QED BY <1>0, <2>1, <2>2 DEF AuditInv, AuditTyped
<1>3. OrdersExclude'
  <2>1. \A p \in Owners : order'[p].stage = "locked" => order'[p] = order[p]
    BY <1>0 DEF AuditInv, AuditTyped, NoOrder
  <2> QED BY <1>0, <2>1 DEF AuditInv, OrdersExclude
<1>4. HoldsAreKept'
  <2> SUFFICES ASSUME NEW e \in batch.deleted, NEW x \in LegalHolds, NEW j \in hold'[x], NEW r \in record[e],
                      ~j.released, NEW i \in hold'[x], Covers(i, r)
               PROVE  FALSE
    BY <1>0 DEF HoldsAreKept, IsHeld, Active, Covers
  <2>1. CASE x = h
    <3>1. i = k
      BY <1>1, <2>1 DEF AuditInv, AuditTyped
    <3> QED BY <1>0, <1>1, <3>1 DEF AuditInv, OrdersExclude, Covers
  <2>2. CASE x # h
    <3>1. hold'[x] = hold[x]
      BY <1>1, <2>2 DEF AuditInv, AuditTyped
    <3> QED BY <3>1 DEF AuditInv, HoldsAreKept, IsHeld, Active
  <2> QED BY <2>1, <2>2
<1> QED BY <1>0, <1>2, <1>3, <1>4 DEF AuditInv, BatchOfRows, EvidenceIsOne

\* a release lifts what it finds and covers nothing new
LEMMA AuditRelease ==
    ASSUME AuditInv, NEW o \in Owners, ReleaseOrder(o)
    PROVE  AuditInv'
<1>0. /\ order[o] \in OpenOrder
      /\ order' = [order EXCEPT ![o] = NoOrder]
      /\ UNCHANGED <<record, delivery, acked, batch>>
  BY DEF ReleaseOrder, AuditInv, AuditTyped, NoOrder
<1>1. PICK h \in LegalHolds :
         /\ order[o].hold = h
         /\ hold' = [hold EXCEPT ![h] = {[k EXCEPT !.released = TRUE] : k \in hold[h]}]
  BY <1>0 DEF ReleaseOrder, OpenOrder, AuditInv, AuditTyped
<1>2. AuditTyped'
  <2>0. \A k \in HoldRow : [k EXCEPT !.released = TRUE] \in HoldRow
    BY DEF HoldRow
  <2>1. {[k EXCEPT !.released = TRUE] : k \in hold[h]} \subseteq HoldRow
    BY <2>0 DEF AuditInv, AuditTyped
  <2>2. AtMostOne({[k EXCEPT !.released = TRUE] : k \in hold[h]})
    <3>1. CASE hold[h] = {}
      BY <3>1 DEF AtMostOne
    <3>2. ASSUME NEW k, hold[h] = {k}
          PROVE  AtMostOne({[j EXCEPT !.released = TRUE] : j \in hold[h]})
      <4>1. {[j EXCEPT !.released = TRUE] : j \in hold[h]} = {[k EXCEPT !.released = TRUE]}
        BY <3>2
      <4> QED BY <4>1 DEF AtMostOne
    <3> QED BY <3>1, <3>2 DEF AuditInv, AuditTyped, AtMostOne
  <2>3. hold' \in [LegalHolds -> SUBSET HoldRow] /\ \A x \in LegalHolds : AtMostOne(hold'[x])
    BY <1>1, <2>1, <2>2 DEF AuditInv, AuditTyped
  <2>4. order' \in [Owners -> OpenOrder \cup {NoOrder}]
    BY <1>0 DEF AuditInv, AuditTyped
  <2> QED BY <1>0, <2>3, <2>4 DEF AuditInv, AuditTyped
<1>3. OrdersExclude'
  <2>1. \A p \in Owners : order'[p].stage = "locked" => order'[p] = order[p]
    BY <1>0 DEF AuditInv, AuditTyped, NoOrder
  <2> QED BY <1>0, <2>1 DEF AuditInv, OrdersExclude
<1>4. HoldsAreKept'
  <2>1. ~ Active(h)'
    BY <1>1 DEF Active, AuditInv, AuditTyped, HoldRow
  <2>2. \A x \in LegalHolds : x # h => hold'[x] = hold[x]
    BY <1>1 DEF AuditInv, AuditTyped
  <2> QED BY <1>0, <2>1, <2>2 DEF AuditInv, HoldsAreKept, IsHeld, Active, Covers
<1> QED BY <1>0, <1>2, <1>3, <1>4 DEF AuditInv, BatchOfRows, EvidenceIsOne

LEMMA AuditDelivery ==
    ASSUME AuditInv, NEW i \in Deliverers, NEW e \in Events, NEW f \in Facts, Deliver(i, e, f)
    PROVE  AuditInv'
<1>0. UNCHANGED <<hold, order, batch>>
  BY DEF Deliver
<1>1. CASE record[e] = {}
  <2>1. PICK row \in AuditRow :
           /\ row.fact = f
           /\ record' = [record EXCEPT ![e] = {row}]
           /\ acked' = [acked EXCEPT ![e] = {f}]
           /\ UNCHANGED delivery
    <3>1. PICK c \in Companies \cup {Unscoped}, w \in BOOLEAN : record' = [record EXCEPT ![e] = {RecordRow(f, c, w)}]
      BY <1>1 DEF Deliver
    <3>2. RecordRow(f, c, w) \in AuditRow /\ RecordRow(f, c, w).fact = f
      BY DEF RecordRow, AuditRow
    <3> QED BY <1>1, <3>1, <3>2 DEF Deliver
  <2>2. e \notin batch.doomed \cup batch.deleted
    BY <1>1 DEF AuditInv, BatchOfRows
  <2>3. AuditTyped'
    <3>1. record' \in [Events -> SUBSET AuditRow] /\ \A x \in Events : AtMostOne(record'[x])
      BY <2>1 DEF AuditInv, AuditTyped, AtMostOne
    <3>2. acked' \in [Events -> SUBSET Facts]
      BY <2>1 DEF AuditInv, AuditTyped
    <3> QED BY <1>0, <2>1, <3>1, <3>2 DEF AuditInv, AuditTyped
  <2>4. \A x \in batch.doomed \cup batch.deleted : record'[x] = record[x]
    BY <2>1, <2>2 DEF AuditInv, AuditTyped
  <2>5. EvidenceIsOne'
    BY <2>1 DEF AuditInv, AuditTyped, EvidenceIsOne
  <2>6. HoldsAreKept'
    BY <1>0, <2>4 DEF AuditInv, HoldsAreKept, IsHeld, Active
  <2> QED BY <1>0, <2>3, <2>4, <2>5, <2>6 DEF AuditInv, BatchOfRows, OrdersExclude
<1>2. CASE record[e] # {}
  <2>1. /\ delivery' = [delivery EXCEPT ![i] = [event |-> e, fact |-> f, conflict |-> TRUE]]
        /\ UNCHANGED <<record, acked>>
    BY <1>2 DEF Deliver
  <2>2. delivery' \in [Deliverers -> InHand \cup {NoDelivery}]
    BY <2>1 DEF AuditInv, AuditTyped, InHand
  <2> QED BY <1>0, <2>1, <2>2 DEF AuditInv, AuditTyped, BatchOfRows, OrdersExclude, HoldsAreKept, EvidenceIsOne,
                                  IsHeld, Active
<1> QED BY <1>1, <1>2

\* a duplicate is acknowledged for the row it agrees with
LEMMA AuditDuplicate ==
    ASSUME AuditInv, NEW i \in Deliverers, AnswerDuplicate(i)
    PROVE  AuditInv'
<1>0. UNCHANGED <<record, hold, order, batch>>
  BY DEF AnswerDuplicate
<1>1. PICK e \in Events, f \in Facts :
         acked' = IF \E r \in record[e] : SameEvidence(r, f) THEN [acked EXCEPT ![e] = @ \cup {f}] ELSE acked
  BY DEF AnswerDuplicate, AuditInv, AuditTyped, InHand
<1>2. delivery' \in [Deliverers -> InHand \cup {NoDelivery}]
  BY DEF AnswerDuplicate, AuditInv, AuditTyped
<1>3. acked' \in [Events -> SUBSET Facts]
  BY <1>1 DEF AuditInv, AuditTyped
<1>4. EvidenceIsOne'
  <2> SUFFICES ASSUME NEW x \in Events, NEW r \in record[x]
               PROVE  acked'[x] = {r.fact}
    BY <1>0 DEF EvidenceIsOne
  <2>1. acked[x] = {r.fact} /\ \A s \in record[x] : s = r
    BY DEF AuditInv, AuditTyped, EvidenceIsOne, AtMostOne
  <2> QED BY <1>1, <2>1 DEF SameEvidence, AuditInv, AuditTyped
<1> QED BY <1>0, <1>2, <1>3, <1>4 DEF AuditInv, AuditTyped, BatchOfRows, OrdersExclude, HoldsAreKept, IsHeld, Active

LEMMA AuditAge ==
    ASSUME AuditInv, NEW e \in Events, Age(e)
    PROVE  AuditInv'
<1>0. /\ record' = [record EXCEPT ![e] = {[r EXCEPT !.past = TRUE] : r \in record[e]}]
      /\ UNCHANGED <<delivery, acked, hold, order, batch>>
  BY DEF Age, AuditInv, AuditTyped
<1>1. PICK s \in record[e] : record[e] = {s}
  BY DEF Age, AuditInv, AuditTyped, AtMostOne
<1> DEFINE row == [s EXCEPT !.past = TRUE]
<1>2. s \in AuditRow /\ row \in AuditRow /\ row.fact = s.fact /\ row.company = s.company /\ row.inWindow = s.inWindow
  <2>1. s \in AuditRow
    BY DEF AuditInv, AuditTyped
  <2> QED BY <2>1 DEF AuditRow
<1>3. record' = [record EXCEPT ![e] = {row}]
  BY <1>0, <1>1
<1> HIDE DEF row
<1>4. record' \in [Events -> SUBSET AuditRow] /\ \A x \in Events : AtMostOne(record'[x])
  BY <1>2, <1>3 DEF AuditInv, AuditTyped, AtMostOne
<1>5. \A x \in Events : \A r \in record'[x] : \E q \in record[x] :
         r.fact = q.fact /\ r.company = q.company /\ r.inWindow = q.inWindow
  BY <1>1, <1>2, <1>3 DEF AuditInv, AuditTyped
<1>6. \A x \in Events : record[x] # {} => record'[x] # {}
  BY <1>3 DEF AuditInv, AuditTyped
<1>7. BatchOfRows' /\ OrdersExclude'
  <2>1. batch.doomed \cup batch.deleted \subseteq Events
    BY DEF AuditInv, AuditTyped
  <2>2. BatchOfRows'
    BY <1>0, <1>6, <2>1 DEF AuditInv, BatchOfRows
  <2>3. OrdersExclude'
    BY <1>0, <1>5, <2>1 DEF AuditInv, OrdersExclude
  <2> QED BY <2>2, <2>3
<1>8. HoldsAreKept' /\ EvidenceIsOne'
  BY <1>0, <1>5 DEF AuditInv, AuditTyped, HoldsAreKept, EvidenceIsOne, IsHeld, Active, Covers
<1> QED BY <1>0, <1>4, <1>7, <1>8 DEF AuditInv, AuditTyped

\* a row is deleted under its Company's lock and when a fresh look finds no hold; rows go and
\* come back only at the commit, with what was acknowledged for them
LEMMA AuditRetention ==
    ASSUME AuditInv,
           \/ \E e \in Events : DeleteRow(e)
           \/ Doom \/ CommitBatch \/ CrashBatch
    PROVE  AuditInv'
<1>1. ASSUME NEW e \in Events, DeleteRow(e)
      PROVE  AuditInv'
  <2>0. UNCHANGED <<record, delivery, acked, hold, order>> /\ e \in batch.doomed /\ MayLock(e)
    BY <1>1 DEF DeleteRow
  <2>1. CASE IsHeld(e)
    <3>1. batch' = NoBatch
      BY <1>1, <2>1 DEF DeleteRow
    <3> QED BY <2>0, <3>1 DEF NoBatch, AuditInv, AuditTyped, BatchOfRows, OrdersExclude, HoldsAreKept, EvidenceIsOne
  <2>2. CASE ~ IsHeld(e)
    <3>1. /\ batch' \in [doomed : SUBSET Events, deleted : SUBSET Events, open : BOOLEAN]
          /\ batch'.doomed = batch.doomed \ {e} /\ batch'.deleted = batch.deleted \cup {e}
      BY <1>1, <2>2 DEF DeleteRow, AuditInv, AuditTyped
    <3>2. HoldsAreKept'
      BY <2>0, <2>2, <3>1 DEF AuditInv, HoldsAreKept, IsHeld, Active
    <3>3. OrdersExclude'
      BY <2>0, <3>1 DEF AuditInv, OrdersExclude, MayLock, Exclusive
    <3>4. BatchOfRows'
      BY <2>0, <3>1 DEF AuditInv, BatchOfRows
    <3>5. AuditTyped'
      BY <2>0, <3>1 DEF AuditInv, AuditTyped
    <3> QED BY <2>0, <3>2, <3>3, <3>4, <3>5 DEF AuditInv, EvidenceIsOne
  <2> QED BY <2>1, <2>2
<1>2. CASE Doom
  <2>1. PICK d \in SUBSET Candidates : batch' = [doomed |-> d, deleted |-> {}, open |-> TRUE]
    BY <1>2 DEF Doom
  <2>2. UNCHANGED <<record, delivery, acked, hold, order>>
    BY <1>2 DEF Doom
  <2> QED BY <2>1, <2>2 DEF Candidates, AuditInv, AuditTyped, BatchOfRows, OrdersExclude, HoldsAreKept, EvidenceIsOne
<1>3. CASE CrashBatch
  BY <1>3 DEF CrashBatch, NoBatch, AuditInv, AuditTyped, BatchOfRows, OrdersExclude, HoldsAreKept, EvidenceIsOne
<1>4. CASE CommitBatch
  <2>0. UNCHANGED <<delivery, hold, order>> /\ batch' = NoBatch
    BY <1>4 DEF CommitBatch
  <2>1. AuditTyped'
    <3>1. record' \in [Events -> SUBSET AuditRow] /\ \A e \in Events : AtMostOne(record'[e])
      BY <1>4 DEF CommitBatch, AuditInv, AuditTyped, AtMostOne
    <3>2. acked' \in [Events -> SUBSET Facts]
      BY <1>4 DEF CommitBatch, AuditInv, AuditTyped
    <3> QED BY <2>0, <3>1, <3>2 DEF AuditInv, AuditTyped, NoBatch
  <2>2. EvidenceIsOne'
    BY <1>4 DEF CommitBatch, AuditInv, EvidenceIsOne
  <2> QED BY <2>0, <2>1, <2>2 DEF AuditInv, NoBatch, BatchOfRows, OrdersExclude, HoldsAreKept
<1> QED BY <1>1, <1>2, <1>3, <1>4

LEMMA AuditStep ==
    ASSUME AuditInv, [AuditNext]_auditVars
    PROVE  AuditInv'
<1>1. CASE UNCHANGED auditVars
  BY <1>1 DEF auditVars, AuditInv, AuditTyped, BatchOfRows, OrdersExclude, HoldsAreKept, EvidenceIsOne, IsHeld, Active
<1>2. CASE AuditNext
  BY <1>2, AuditOrders, AuditPlacement, AuditRelease, AuditDelivery, AuditDuplicate, AuditAge, AuditRetention
     DEF AuditNext
<1> QED BY <1>1, <1>2

LEMMA AuditTypeCorrect ==
    ASSUME AuditInv
    PROVE  AuditTypeOK
<1>1. \A e \in Events : Cardinality(record[e]) <= 1
  BY AtMostOneCounted DEF AuditInv, AuditTyped
<1>2. \A h \in LegalHolds : Cardinality(hold[h]) <= 1
  BY AtMostOneCounted DEF AuditInv, AuditTyped
<1> QED BY <1>1, <1>2 DEF AuditTypeOK, AuditInv, AuditTyped, AuditRow


-----------------------------------------------------------------------------
(* The ownership transition: what a command has read is still so when it   *)
(* writes, because a class is for good, the guard of the row refuses the   *)
(* other transitions, and what leaves the phase is a rollback.             *)

\* the phase says what was done before it
EvidenceBehind ==
    /\ phase \in {"ACTIVATABLE", "ACTIVE", "RETIRED"} => approved
    /\ phase # "PREPARED" => class # "none"

\* a transaction of the API began in a fresh environment, or under authority
WritersAllowed ==
    \A w \in Writers : /\ writer[w] = "normal" => Authoritative
                       /\ writer[w] = "bootstrap" => class = "fresh"

\* the class a command has read is the class for good; an import read one, and a phase it accepts
ClassRemembered ==
    \A p \in Operators : /\ command[p].class # "none" => command[p].class = class
                         /\ command[p].name = "import" => /\ command[p].class = "existing"
                                                          /\ command[p].phase \in {"PREPARED", "VERIFIED", "FROZEN"}

\* an activation nothing overtook acts on what it read and measured
ActivationHolds ==
    \A p \in Operators : command[p].name = "activate" /\ p \notin straddled /\ ~ Authoritative =>
       /\ phase = "ACTIVATABLE"
       /\ verified = command[p].verified
       /\ command[p].measured => content = command[p].content

OwnershipInv ==
    /\ OwnershipTypeOK /\ EvidenceBehind /\ WritersAllowed /\ ClassRemembered /\ ActivationHolds
    /\ ActivatedIsVerified /\ VerifiedIsHeld

CommandRow == [name : Operations \cup {"none"}, measured : BOOLEAN, phase : Phases,
               class : {"none", "existing", "fresh"}, verified : Optional, content : 0..MaxContent]

LEMMA OwnershipInitially ==
    Unowned /\ command = [p \in Operators |-> NoCommand] => OwnershipInv
<1> SUFFICES ASSUME Unowned, command = [p \in Operators |-> NoCommand]
             PROVE  OwnershipInv
  OBVIOUS
<1>1. OwnershipTypeOK
  <2>1. NoCommand \in CommandRow
    BY ContentExists DEF NoCommand, CommandRow, Phases, Optional
  <2>2. command \in [Operators -> CommandRow]
    BY <2>1
  <2>3. 0 \in 0..MaxContent /\ verified \in Optional /\ phase \in Phases
    BY ContentExists DEF Unowned, Optional, Phases
  <2>4. writer \in [Writers -> {"idle", "bootstrap", "normal"}] /\ straddled \subseteq Operators
    BY DEF Unowned
  <2> QED BY <2>2, <2>3, <2>4 DEF Unowned, OwnershipTypeOK, CommandRow
<1> QED BY <1>1 DEF OwnershipInv, Unowned, NoCommand, EvidenceBehind, WritersAllowed, ClassRemembered, ActivationHolds,
                    ActivatedIsVerified, VerifiedIsHeld, Authoritative

\* a command begins, or measures
LEMMA OwnershipReads ==
    ASSUME OwnershipInv, NEW p \in Operators,
           (\E name \in Operations : Start(p, name)) \/ Measure(p)
    PROVE  OwnershipInv'
<1>0. UNCHANGED <<phase, class, verified, approved, content, writer, activated, straddled>>
  BY DEF Start, Measure
<1> DEFINE Reads(row) ==
             /\ row.class # "none" => row.class = class
             /\ row.name = "import" => row.class = "existing" /\ row.phase \in {"PREPARED", "VERIFIED", "FROZEN"}
             /\ row.name = "activate" /\ p \notin straddled /\ ~ Authoritative =>
                   phase = "ACTIVATABLE" /\ verified = row.verified /\ (row.measured => content = row.content)
<1>1. PICK row \in CommandRow : command' = [command EXCEPT ![p] = row] /\ Reads(row)
  <2>1. ASSUME NEW name \in Operations, Start(p, name)
        PROVE  \E row \in CommandRow : command' = [command EXCEPT ![p] = row] /\ Reads(row)
    <3> DEFINE row == [name |-> name, measured |-> FALSE, phase |-> phase, class |-> class, verified |-> verified, content |-> 0]
    <3>1. row \in CommandRow
      BY ContentExists DEF OwnershipInv, OwnershipTypeOK, CommandRow
    <3>2. command' = [command EXCEPT ![p] = row]
      BY <2>1 DEF Start
    <3>3. Reads(row)
      BY <2>1 DEF Start, Ready, Operations
    <3> QED BY <3>1, <3>2, <3>3
  <2>2. ASSUME Measure(p)
        PROVE  \E row \in CommandRow : command' = [command EXCEPT ![p] = row] /\ Reads(row)
    <3> DEFINE row == [command[p] EXCEPT !.measured = TRUE, !.content = content]
    <3>1. command[p] \in CommandRow
      BY DEF OwnershipInv, OwnershipTypeOK, CommandRow
    <3>2. row \in CommandRow
      BY <3>1 DEF OwnershipInv, OwnershipTypeOK, CommandRow
    <3>3. command' = [command EXCEPT ![p] = row]
      BY <2>2 DEF Measure
    <3>4. Reads(row)
      BY <2>2, <3>1 DEF Measure, OwnershipInv, ClassRemembered, ActivationHolds, CommandRow
    <3> QED BY <3>2, <3>3, <3>4
  <2> QED BY <2>1, <2>2
<1> HIDE DEF Reads
<1>2. OwnershipTypeOK'
  BY <1>0, <1>1 DEF OwnershipInv, OwnershipTypeOK, CommandRow
<1>3. \A q \in Operators : command'[q] = IF q = p THEN row ELSE command[q]
  BY <1>1 DEF OwnershipInv, OwnershipTypeOK
<1>4. ClassRemembered' /\ ActivationHolds'
  BY <1>0, <1>1, <1>3 DEF Reads, OwnershipInv, ClassRemembered, ActivationHolds, Authoritative
<1> QED BY <1>0, <1>2, <1>4 DEF OwnershipInv, EvidenceBehind, WritersAllowed, ActivatedIsVerified, VerifiedIsHeld, Authoritative

\* a command ends; the others keep what they read
LEMMA CommandEnds ==
    ASSUME OwnershipInv, NEW p \in Operators, NEW name, Finish(p, name)
    PROVE  /\ command' \in [Operators -> CommandRow]
           /\ command'[p] = NoCommand
           /\ \A q \in Operators : q # p => command'[q] = command[q]
<1>1. NoCommand \in CommandRow
  BY ContentExists DEF NoCommand, CommandRow, Phases, Optional
<1> QED BY <1>1 DEF Finish, OwnershipInv, OwnershipTypeOK, CommandRow

LEMMA OwnershipClass ==
    ASSUME OwnershipInv, NEW p \in Operators, DeclareClass(p)
    PROVE  OwnershipInv'
<1>0. UNCHANGED <<phase, verified, approved, content, writer, activated, straddled>> /\ Finish(p, "declare-class")
  BY DEF DeclareClass
<1>1. class' \in {"none", "existing", "fresh"} /\ (class # "none" => class' = class)
  BY DEF DeclareClass, OwnershipInv, OwnershipTypeOK
<1>2. OwnershipTypeOK'
  BY <1>0, <1>1, CommandEnds DEF OwnershipInv, OwnershipTypeOK, CommandRow
<1>3. ClassRemembered' /\ ActivationHolds'
  BY <1>0, <1>1, CommandEnds DEF OwnershipInv, ClassRemembered, ActivationHolds, NoCommand, Authoritative
<1>4. EvidenceBehind' /\ WritersAllowed' /\ ActivatedIsVerified' /\ VerifiedIsHeld'
  BY <1>0, <1>1 DEF OwnershipInv, EvidenceBehind, WritersAllowed, ActivatedIsVerified, VerifiedIsHeld, Authoritative
<1> QED BY <1>2, <1>3, <1>4 DEF OwnershipInv

\* an import never meets an activation: the phase is the one it read, under the row's lock
LEMMA OwnershipImport ==
    ASSUME OwnershipInv, NEW p \in Operators, ImportSnapshot(p)
    PROVE  OwnershipInv'
<1>0. UNCHANGED <<class, writer, activated, straddled>> /\ Finish(p, "import")
  BY DEF ImportSnapshot
<1>1. CASE UNCHANGED <<phase, verified, approved, content>>
  <2>1. OwnershipTypeOK'
    BY <1>0, <1>1, CommandEnds DEF OwnershipInv, OwnershipTypeOK, CommandRow
  <2>2. ClassRemembered' /\ ActivationHolds'
    BY <1>0, <1>1, CommandEnds DEF OwnershipInv, ClassRemembered, ActivationHolds, NoCommand, Authoritative
  <2> QED BY <1>0, <1>1, <2>1, <2>2
             DEF OwnershipInv, EvidenceBehind, WritersAllowed, ActivatedIsVerified, VerifiedIsHeld, Authoritative
<1>2. ASSUME NEW n \in content..MaxContent, NEW frozen \in BOOLEAN,
             content' = n, verified' = {n}, UNCHANGED approved,
             phase' = IF frozen THEN "FROZEN" ELSE IF phase = "PREPARED" THEN "VERIFIED" ELSE phase,
             phase \in {"PREPARED", "VERIFIED", "FROZEN"}, class = "existing"
      PROVE  OwnershipInv'
  <2>1. n \in 0..MaxContent /\ {n} \in Optional
    BY ContentExists DEF OwnershipInv, OwnershipTypeOK, Optional
  <2>2. OwnershipTypeOK'
    BY <1>0, <1>2, <2>1, CommandEnds DEF OwnershipInv, OwnershipTypeOK, CommandRow, Phases
  <2>3. phase' \in {"VERIFIED", "FROZEN"}
    BY <1>2
  <2>4. ClassRemembered' /\ ActivationHolds'
    BY <1>0, <1>2, CommandEnds DEF OwnershipInv, ClassRemembered, ActivationHolds, NoCommand, Authoritative
  <2>5. EvidenceBehind' /\ WritersAllowed' /\ ActivatedIsVerified' /\ VerifiedIsHeld'
    BY <1>0, <1>2, <2>3
       DEF OwnershipInv, EvidenceBehind, WritersAllowed, ActivatedIsVerified, VerifiedIsHeld, Authoritative
  <2> QED BY <2>2, <2>4, <2>5 DEF OwnershipInv
<1>3. class = "existing" /\ command[p].phase \in {"PREPARED", "VERIFIED", "FROZEN"}
  BY <1>0 DEF OwnershipInv, ClassRemembered, Finish
<1> QED BY <1>0, <1>1, <1>2, <1>3 DEF ImportSnapshot, SamePhase


\* a verification writes the digest it measured, in a fresh environment
LEMMA OwnershipVerify ==
    ASSUME OwnershipInv, NEW p \in Operators, VerifyContent(p)
    PROVE  OwnershipInv'
<1>0. UNCHANGED <<class, content, writer, activated, straddled>> /\ Finish(p, "verify")
  BY DEF VerifyContent
<1>1. command[p] \in CommandRow
  BY DEF OwnershipInv, OwnershipTypeOK, CommandRow
<1>2. \/ UNCHANGED <<phase, verified, approved>>
      \/ /\ class = "fresh" /\ phase \in {"PREPARED", "VERIFIED"} /\ phase' = "VERIFIED"
         /\ verified' = {command[p].content} /\ approved' = approved
  BY DEF VerifyContent, Update, Legal, OwnershipInv, OwnershipTypeOK, ClassRemembered
<1>3. {command[p].content} \in Optional
  BY <1>1 DEF CommandRow, Optional
<1>4. OwnershipTypeOK'
  BY <1>0, <1>2, <1>3, CommandEnds DEF OwnershipInv, OwnershipTypeOK, CommandRow, Phases
<1>5. ClassRemembered' /\ ActivationHolds'
  BY <1>0, <1>2, CommandEnds DEF OwnershipInv, ClassRemembered, ActivationHolds, NoCommand, Authoritative
<1>6. EvidenceBehind' /\ WritersAllowed' /\ ActivatedIsVerified' /\ VerifiedIsHeld'
  BY <1>0, <1>2 DEF OwnershipInv, EvidenceBehind, WritersAllowed, ActivatedIsVerified, VerifiedIsHeld, Authoritative
<1> QED BY <1>4, <1>5, <1>6 DEF OwnershipInv

LEMMA OwnershipApprove ==
    ASSUME OwnershipInv, NEW p \in Operators, Approve(p)
    PROVE  OwnershipInv'
<1>0. UNCHANGED <<class, content, writer, activated, straddled>> /\ Finish(p, "approve")
  BY DEF Approve
<1>1. \/ UNCHANGED <<phase, verified, approved>>
      \/ /\ phase \in {"VERIFIED", "FROZEN", "ACTIVATABLE"} /\ phase' = "ACTIVATABLE"
         /\ verified' = verified /\ approved' = TRUE
  BY DEF Approve, Update, Legal
<1>2. OwnershipTypeOK'
  BY <1>0, <1>1, CommandEnds DEF OwnershipInv, OwnershipTypeOK, CommandRow, Phases
<1>3. ClassRemembered' /\ ActivationHolds'
  BY <1>0, <1>1, CommandEnds DEF OwnershipInv, ClassRemembered, ActivationHolds, NoCommand, Authoritative
<1>4. EvidenceBehind' /\ WritersAllowed' /\ ActivatedIsVerified' /\ VerifiedIsHeld'
  BY <1>0, <1>1 DEF OwnershipInv, EvidenceBehind, WritersAllowed, ActivatedIsVerified, VerifiedIsHeld, Authoritative
<1> QED BY <1>2, <1>3, <1>4 DEF OwnershipInv

\* authority is taken on the digest that was compared
LEMMA OwnershipActivate ==
    ASSUME OwnershipInv, NEW p \in Operators, Activate(p)
    PROVE  OwnershipInv'
<1>0. UNCHANGED <<class, content, writer>> /\ Finish(p, "activate") /\ straddled' = straddled \ {p}
  BY DEF Activate
<1>1. CASE phase = "ACTIVATABLE" /\ Unchanged(p)
  <2>1. phase' = "ACTIVE" /\ UNCHANGED <<verified, approved>> /\ activated' = {[content |-> content, straddled |-> p \in straddled]}
    BY <1>1 DEF Activate, Update, Legal, Authoritative
  <2>2. p \notin straddled => verified = {content}
    BY <1>1 DEF Activate, Finish, Unchanged, OwnershipInv, ActivationHolds, Authoritative
  <2>3. OwnershipTypeOK'
    BY <1>0, <2>1, CommandEnds DEF OwnershipInv, OwnershipTypeOK, CommandRow, Phases
  <2>4. ClassRemembered' /\ ActivationHolds'
    BY <1>0, <2>1, CommandEnds DEF OwnershipInv, ClassRemembered, ActivationHolds, NoCommand, Authoritative
  <2>5. EvidenceBehind' /\ WritersAllowed' /\ VerifiedIsHeld'
    BY <1>0, <1>1, <2>1 DEF OwnershipInv, EvidenceBehind, WritersAllowed, VerifiedIsHeld, Authoritative
  <2>6. ActivatedIsVerified'
    <3>1. Authoritative' /\ approved' /\ class' # "none"
      BY <1>0, <1>1, <2>1 DEF OwnershipInv, EvidenceBehind, Authoritative
    <3>2. \A a \in activated' : ~ a.straddled => verified' = {a.content}
      <4>1. ASSUME NEW a \in activated'
            PROVE  a = [content |-> content, straddled |-> p \in straddled]
        BY <2>1, <4>1
      <4>2. ASSUME NEW a \in activated', ~ a.straddled
            PROVE  a.content = content /\ p \notin straddled
        <5>1. a.content = content /\ a.straddled = (p \in straddled)
          BY <4>1
        <5> QED BY <4>2, <5>1, Zenon
      <4> QED BY <2>1, <2>2, <4>2
    <3> QED BY <2>1, <3>1, <3>2 DEF ActivatedIsVerified
  <2> QED BY <2>3, <2>4, <2>5, <2>6 DEF OwnershipInv
<1>2. CASE ~ (phase = "ACTIVATABLE" /\ Unchanged(p))
  <2>1. UNCHANGED <<phase, verified, approved, activated>>
    BY <1>2 DEF Activate, Update, Legal, Authoritative
  <2>2. OwnershipTypeOK'
    BY <1>0, <2>1, CommandEnds DEF OwnershipInv, OwnershipTypeOK, CommandRow
  <2>3. ClassRemembered' /\ ActivationHolds'
    BY <1>0, <2>1, CommandEnds DEF OwnershipInv, ClassRemembered, ActivationHolds, NoCommand, Authoritative
  <2>4. EvidenceBehind' /\ WritersAllowed' /\ ActivatedIsVerified' /\ VerifiedIsHeld'
    BY <1>0, <2>1 DEF OwnershipInv, EvidenceBehind, WritersAllowed, ActivatedIsVerified, VerifiedIsHeld, Authoritative
  <2> QED BY <2>2, <2>3, <2>4 DEF OwnershipInv
<1> QED BY <1>1, <1>2

LEMMA OwnershipRetire ==
    ASSUME OwnershipInv, NEW p \in Operators, Retire(p)
    PROVE  OwnershipInv'
<1>0. UNCHANGED <<class, content, writer, activated, straddled>> /\ Finish(p, "retire")
  BY DEF Retire
<1>1. UNCHANGED <<verified, approved>> /\ (phase' = phase \/ (phase = "ACTIVE" /\ phase' = "RETIRED"))
  BY DEF Retire, Update, Legal
<1>2. OwnershipTypeOK'
  BY <1>0, <1>1, CommandEnds DEF OwnershipInv, OwnershipTypeOK, CommandRow, Phases
<1>3. ClassRemembered' /\ ActivationHolds'
  BY <1>0, <1>1, CommandEnds DEF OwnershipInv, ClassRemembered, ActivationHolds, NoCommand, Authoritative
<1>4. EvidenceBehind' /\ WritersAllowed' /\ ActivatedIsVerified' /\ VerifiedIsHeld'
  BY <1>0, <1>1 DEF OwnershipInv, EvidenceBehind, WritersAllowed, ActivatedIsVerified, VerifiedIsHeld, Authoritative
<1> QED BY <1>2, <1>3, <1>4 DEF OwnershipInv

\* a rollback overtakes every activation under way
LEMMA OwnershipRollback ==
    ASSUME OwnershipInv, NEW p \in Operators, RollBack(p)
    PROVE  OwnershipInv'
<1>0. UNCHANGED <<class, content, writer, activated>> /\ Finish(p, "rollback")
  BY DEF RollBack
<1>1. \/ UNCHANGED <<phase, verified, approved, straddled>>
      \/ /\ ~ Authoritative /\ phase' = "PREPARED" /\ verified' = {} /\ approved' = FALSE
         /\ straddled' = straddled \cup Activating
  BY DEF RollBack, Update, Legal, Authoritative
<1>2. OwnershipTypeOK'
  BY <1>0, <1>1, CommandEnds DEF OwnershipInv, OwnershipTypeOK, CommandRow, Phases, Optional, Activating
<1>3. ClassRemembered'
  BY <1>0, CommandEnds DEF OwnershipInv, ClassRemembered, NoCommand
<1>4. ActivationHolds'
  BY <1>0, <1>1, CommandEnds DEF OwnershipInv, ActivationHolds, Activating, NoCommand, Authoritative
<1>5. EvidenceBehind' /\ WritersAllowed' /\ ActivatedIsVerified' /\ VerifiedIsHeld'
  BY <1>0, <1>1 DEF OwnershipInv, EvidenceBehind, WritersAllowed, ActivatedIsVerified, VerifiedIsHeld, Authoritative
<1> QED BY <1>2, <1>3, <1>4, <1>5 DEF OwnershipInv

\* the API writes where it may: a row committed by a bootstrap overtakes the activations that
\* have measured, and is in no environment whose content was imported
LEMMA OwnershipWrites ==
    ASSUME OwnershipInv, NEW w \in Writers, AssertWritable(w) \/ EndWrite(w)
    PROVE  OwnershipInv'
<1>0. UNCHANGED <<phase, class, verified, approved, command, activated>>
  BY DEF AssertWritable, EndWrite
<1>1. CASE AssertWritable(w)
  <2>1. UNCHANGED <<content, straddled>>
    BY <1>1 DEF AssertWritable
  <2>2. writer' \in [Writers -> {"idle", "bootstrap", "normal"}]
    BY <1>1 DEF AssertWritable, OwnershipInv, OwnershipTypeOK
  <2>3. WritersAllowed'
    BY <1>0, <1>1 DEF AssertWritable, OwnershipInv, OwnershipTypeOK, WritersAllowed, Authoritative
  <2> QED BY <1>0, <2>1, <2>2, <2>3 DEF OwnershipInv, OwnershipTypeOK, EvidenceBehind, ClassRemembered, ActivationHolds,
                                        ActivatedIsVerified, VerifiedIsHeld, Authoritative
<1>2. CASE EndWrite(w)
  <2>1. writer' \in [Writers -> {"idle", "bootstrap", "normal"}] /\ WritersAllowed'
    BY <1>0, <1>2 DEF EndWrite, OwnershipInv, OwnershipTypeOK, WritersAllowed, Authoritative
  <2>2. \/ UNCHANGED <<content, straddled>>
        \/ /\ content' \in 0..MaxContent
           /\ Authoritative \/ class = "fresh"
           /\ straddled' = straddled \cup {p \in Activating : command[p].measured}
    BY <1>2, ContentExists DEF EndWrite, OwnershipInv, OwnershipTypeOK, WritersAllowed
  <2>3. OwnershipTypeOK'
    BY <1>0, <2>1, <2>2 DEF OwnershipInv, OwnershipTypeOK, Activating
  <2>4. ActivationHolds'
    BY <1>0, <2>2 DEF OwnershipInv, ActivationHolds, Activating, Authoritative
  <2>5. VerifiedIsHeld'
    BY <1>0, <2>2 DEF OwnershipInv, VerifiedIsHeld, Authoritative
  <2> QED BY <1>0, <2>1, <2>3, <2>4, <2>5 DEF OwnershipInv, EvidenceBehind, ClassRemembered, ActivatedIsVerified, Authoritative
<1> QED BY <1>1, <1>2

LEMMA OwnershipStep ==
    ASSUME OwnershipInv, [OwnershipNext]_ownershipVars
    PROVE  OwnershipInv'
<1>1. CASE UNCHANGED ownershipVars
  BY <1>1 DEF ownershipVars, OwnershipInv, OwnershipTypeOK, EvidenceBehind, WritersAllowed, ClassRemembered, ActivationHolds,
              ActivatedIsVerified, VerifiedIsHeld, Authoritative
<1>2. CASE OwnershipNext
  BY <1>2, OwnershipReads, OwnershipClass, OwnershipImport, OwnershipVerify, OwnershipApprove, OwnershipActivate,
     OwnershipRetire, OwnershipRollback, OwnershipWrites DEF OwnershipNext
<1> QED BY <1>1, <1>2


-----------------------------------------------------------------------------
(* Releases and the minimum: one transaction writes at a time, so what it  *)
(* checked under the lock is so when it commits; and until some change is  *)
(* committed what an owner's request asked for is still allowed.           *)

OpenChange == [kind : {"withdraw", "change"}, version : Versions, expected : Nat, previous : SUBSET Stable,
               stage : {"asked", "proven", "locked", "written"}, raced : BOOLEAN]

ReleaseTyped ==
    /\ release \in [Versions -> {"none", "registered", "published", "withdrawn"}]
    /\ minimum \in Seq(Stable)
    /\ change \in [Admins -> OpenChange \cup {NoChange}]
    /\ \A p \in Admins : change[p].kind = "change" => change[p].version \in Stable
    /\ componentLock \subseteq Admins
    /\ intent \subseteq [from : Nat, minimum : Stable, previous : SUBSET Stable]

\* one request at a time is under the lock
LockIsHeld == \A p \in Admins : change[p].stage \in {"locked", "written"} => componentLock = {p}

\* what was checked under the lock holds until the commit
WrittenStands ==
    \A p \in Admins : change[p].stage = "written" =>
       /\ ChangeAllowed(p)
       /\ change[p].previous = CurrentMinimum

\* what was asked is allowed until another change is committed
AskedStands ==
    \A p \in Admins : change[p] # NoChange /\ ~ change[p].raced =>
       /\ change[p].kind = "withdraw" => release[change[p].version] = "withdrawn" \/ ~ BreaksMinimum(change[p].version)
       /\ change[p].kind = "change" => change[p].version \in Published /\ change[p].expected = Len(minimum)

\* the evidence is of policies there are
IntentsAreOfPolicies == \A e \in intent : e.from + 1 \in 1..Len(minimum)

\* a kept decision is the one of its tag: the policies before it never change
MinimumAt(n) == IF n = 0 THEN {} ELSE {minimum[n]}
DecisionAt(v, s, n, l) ==
    LET update == IF s = "withdrawn" THEN "withdrawn"
                  ELSE IF \E m \in MinimumAt(n) : v < m THEN "below_minimum"
                  ELSE IF \E w \in l : w > v THEN "available" ELSE "none"
    IN [update |-> update, latest |-> l, minimum |-> MinimumAt(n)]
KeptAsDecided ==
    /\ kept = [v \in Installed |-> kept[v]]
    /\ \A v \in Installed : \A a \in kept[v] : \E s, l : \E n \in 0..Len(minimum) :
          a.tag = <<s, n, l>> /\ a.decision = DecisionAt(v, s, n, l)

ReleaseInv ==
    /\ ReleaseTyped /\ LockIsHeld /\ WrittenStands /\ AskedStands /\ IntentsAreOfPolicies /\ KeptAsDecided
    /\ MinimumIsOffered /\ NoLostChange /\ wasted = FALSE

LEMMA LatestPolicy ==
    ASSUME minimum \in Seq(Stable)
    PROVE  /\ CurrentMinimum = MinimumAt(Len(minimum))
           /\ Len(minimum) \in Nat
           /\ CurrentMinimum \subseteq Stable
  BY DEF CurrentMinimum, MinimumAt

LEMMA ReleaseInitially ==
    NothingChanged /\ release = [v \in Versions |-> IF v = 1 THEN "published" ELSE "none"] => ReleaseInv
<1> SUFFICES ASSUME NothingChanged, release = [v \in Versions |-> IF v = 1 THEN "published" ELSE "none"]
             PROVE  ReleaseInv
  OBVIOUS
<1>1. minimum \in Seq(Stable) /\ Len(minimum) = 0 /\ CurrentMinimum = {}
  BY DEF NothingChanged, CurrentMinimum
<1>2. ReleaseTyped
  BY <1>1 DEF NothingChanged, ReleaseTyped, NoChange
<1>3. NoLostChange /\ MinimumIsOffered
  BY <1>1 DEF NothingChanged, NoLostChange, MinimumIsOffered
<1> QED BY <1>1, <1>2, <1>3 DEF NothingChanged, NoChange, ReleaseInv, LockIsHeld, WrittenStands, AskedStands,
                                IntentsAreOfPolicies, KeptAsDecided

\* what a client keeps stays the decision of its tag while policies are only appended
LEMMA KeptWithPolicies ==
    ASSUME ReleaseInv, kept' = kept, minimum' = minimum \/ \E m \in Stable : minimum' = Append(minimum, m)
    PROVE  KeptAsDecided'
<1>1. Len(minimum) \in Nat /\ Len(minimum') \in Nat /\ Len(minimum) <= Len(minimum')
  BY DEF ReleaseInv, ReleaseTyped
<1>2. \A n \in 0..Len(minimum) : MinimumAt(n)' = MinimumAt(n)
  <2> SUFFICES ASSUME NEW n \in 0..Len(minimum), n # 0
               PROVE  minimum'[n] = minimum[n]
    BY DEF MinimumAt
  <2>1. n \in 1..Len(minimum)
    BY <1>1
  <2> QED BY <2>1 DEF ReleaseInv, ReleaseTyped
<1>3. \A v, s, l : \A n \in 0..Len(minimum) : DecisionAt(v, s, n, l)' = DecisionAt(v, s, n, l)
  BY <1>2 DEF DecisionAt
<1>4. kept' = [v \in Installed |-> kept'[v]]
  BY DEF ReleaseInv, KeptAsDecided
<1>5. ASSUME NEW v \in Installed, NEW a \in kept[v]
      PROVE  \E s, l : \E n \in 0..Len(minimum') : a.tag = <<s, n, l>> /\ a.decision = DecisionAt(v, s, n, l)'
  <2>1. PICK s, l : \E n \in 0..Len(minimum) : a.tag = <<s, n, l>> /\ a.decision = DecisionAt(v, s, n, l)
    BY <1>5 DEF ReleaseInv, KeptAsDecided
  <2>2. PICK n \in 0..Len(minimum) : a.tag = <<s, n, l>> /\ a.decision = DecisionAt(v, s, n, l)
    BY <2>1
  <2>3. n \in 0..Len(minimum')
    BY <1>1
  <2> QED BY <1>3, <2>2, <2>3
<1> QED BY <1>4, <1>5 DEF KeptAsDecided

\* a release more takes nothing away from what was allowed
LEMMA ReleaseAutomation ==
    ASSUME ReleaseInv, NEW v \in Versions, RegisterVersion(v) \/ PublishVersion(v)
    PROVE  ReleaseInv'
<1>0. UNCHANGED <<minimum, change, componentLock, intent, kept, wasted>>
  BY DEF RegisterVersion, PublishVersion
<1>1. release' \in [Versions -> {"none", "registered", "published", "withdrawn"}]
  BY DEF RegisterVersion, PublishVersion, ReleaseInv, ReleaseTyped
<1>2. \A w \in Versions : release[w] \in {"published", "withdrawn"} => release'[w] = release[w]
  BY DEF RegisterVersion, PublishVersion, ReleaseInv, ReleaseTyped
<1>3. Published \subseteq Published'
  BY <1>2, VersionsAreOrdered DEF Published
<1>4. CurrentMinimum' = CurrentMinimum
  BY <1>0 DEF CurrentMinimum
<1>5. \A w \in Versions : ~ BreaksMinimum(w) => ~ BreaksMinimum(w)'
  BY <1>3, <1>4 DEF BreaksMinimum
<1>6. \A w \in Versions \cup Stable : AtOrBelowLatest(w) => AtOrBelowLatest(w)'
  BY <1>3 DEF AtOrBelowLatest
<1>7. \A p \in Admins : change[p] # NoChange => change[p].version \in Versions
  BY DEF ReleaseInv, ReleaseTyped, OpenChange
<1>8. WrittenStands'
  <2> SUFFICES ASSUME NEW p \in Admins, change[p].stage = "written"
               PROVE  ChangeAllowed(p)' /\ change[p].previous = CurrentMinimum'
    BY <1>0 DEF WrittenStands
  <2>1. ChangeAllowed(p) /\ change[p].previous = CurrentMinimum /\ change[p] # NoChange
    BY DEF ReleaseInv, WrittenStands, NoChange
  <2> QED BY <1>0, <1>2, <1>4, <1>5, <1>6, <1>7, <2>1 DEF ChangeAllowed, IsNext
<1>9. AskedStands'
  BY <1>0, <1>2, <1>3, <1>5, <1>7 DEF ReleaseInv, AskedStands
<1>10. MinimumIsOffered'
  <2>1. CurrentMinimum \subseteq Stable
    BY LatestPolicy DEF ReleaseInv, ReleaseTyped
  <2> QED BY <1>4, <1>6, <2>1 DEF ReleaseInv, MinimumIsOffered
<1>11. LockIsHeld' /\ IntentsAreOfPolicies' /\ NoLostChange'
  BY <1>0 DEF ReleaseInv, LockIsHeld, IntentsAreOfPolicies, NoLostChange
<1>12. KeptAsDecided'
  BY <1>0, KeptWithPolicies
<1> QED BY <1>0, <1>1, <1>8, <1>9, <1>10, <1>11, <1>12 DEF ReleaseInv, ReleaseTyped


\* asking, proving, taking the lock and giving up write nothing anyone else reads
LEMMA ReleaseRequests ==
    ASSUME ReleaseInv, NEW p \in Admins,
           \/ \E v \in Versions : AskWithdraw(p, v) \/ AskChange(p, v)
           \/ ProveChange(p) \/ LockComponent(p) \/ AbandonChange(p)
    PROVE  ReleaseInv'
<1>0. UNCHANGED <<release, minimum, intent, kept, wasted>>
  BY DEF AskWithdraw, AskChange, ProveChange, LockComponent, AbandonChange, EndChange
<1> DEFINE Allowed(c) ==
             c # NoChange /\ ~ c.raced =>
                /\ c.kind = "withdraw" => release[c.version] = "withdrawn" \/ ~ BreaksMinimum(c.version)
                /\ c.kind = "change" => c.version \in Published /\ c.expected = Len(minimum)
           Fits(c) == /\ c \in OpenChange \cup {NoChange}
                      /\ c.kind = "change" => c.version \in Stable
                      /\ Allowed(c)
                      /\ c.stage # "written"
                      /\ c.stage = "locked" => componentLock' = {p}
           Releases == componentLock' = componentLock \ {p} \/ (componentLock = {} /\ componentLock' = {p})
                          \/ (componentLock' = componentLock /\ change[p].stage \notin {"locked", "written"})
<1>1. PICK c : change' = [change EXCEPT ![p] = c] /\ Fits(c) /\ Releases
  <2>1. ASSUME NEW v \in Versions, AskWithdraw(p, v)
        PROVE  \E c : change' = [change EXCEPT ![p] = c] /\ Fits(c) /\ Releases
    <3> DEFINE c == [NoChange EXCEPT !.kind = "withdraw", !.version = v, !.stage = "asked"]
    <3>1. c \in OpenChange /\ c.kind = "withdraw" /\ c.version = v /\ c.stage = "asked"
      BY DEF NoChange, OpenChange
    <3>2. change' = [change EXCEPT ![p] = c] /\ componentLock' = componentLock /\ change[p].stage = "idle"
      <4>1. change[p] = NoChange /\ componentLock' = componentLock /\ change' = [change EXCEPT ![p] = c]
        BY <2>1 DEF AskWithdraw
      <4> QED BY <4>1 DEF NoChange
    <3>3. release[v] = "withdrawn" \/ ~ BreaksMinimum(v)
      BY <2>1 DEF AskWithdraw
    <3> HIDE DEF c
    <3> QED BY <3>1, <3>2, <3>3
  <2>2. ASSUME NEW v \in Versions, AskChange(p, v)
        PROVE  \E c : change' = [change EXCEPT ![p] = c] /\ Fits(c) /\ Releases
    <3> DEFINE c == [NoChange EXCEPT !.kind = "change", !.version = v, !.stage = "asked", !.expected = Len(minimum)]
    <3>1. c \in OpenChange /\ c.kind = "change" /\ c.version = v /\ c.stage = "asked" /\ c.expected = Len(minimum)
      BY LatestPolicy DEF NoChange, OpenChange, ReleaseInv, ReleaseTyped
    <3>2. change' = [change EXCEPT ![p] = c] /\ componentLock' = componentLock /\ change[p].stage = "idle"
      <4>1. change[p] = NoChange /\ componentLock' = componentLock /\ change' = [change EXCEPT ![p] = c]
        BY <2>2 DEF AskChange
      <4> QED BY <4>1 DEF NoChange
    <3>3. v \in Published /\ v \in Stable
      BY <2>2 DEF AskChange, Published
    <3> HIDE DEF c
    <3> QED BY <3>1, <3>2, <3>3
  <2>3. CASE AbandonChange(p) \/ (ProveChange(p) /\ change' = [change EXCEPT ![p] = NoChange])
    <3>1. change' = [change EXCEPT ![p] = NoChange] /\ Releases
      BY <2>3 DEF AbandonChange, EndChange, ProveChange
    <3>2. Fits(NoChange)
      BY DEF NoChange
    <3> QED BY <3>1, <3>2
  <2>4. CASE LockComponent(p) \/ (ProveChange(p) /\ change' = [change EXCEPT ![p].stage = "proven"])
    <3> DEFINE s == IF LockComponent(p) THEN "locked" ELSE "proven"
               c == [change[p] EXCEPT !.stage = s]
    <3>1. s \in {"locked", "proven"} /\ (s = "locked" => componentLock' = {p}) /\ change[p].stage \in {"asked", "proven"}
      BY <2>4 DEF LockComponent, ProveChange
    <3>2. change' = [change EXCEPT ![p] = c] /\ Releases
      BY <2>4 DEF LockComponent, ProveChange, ReleaseInv, ReleaseTyped
    <3>3. change[p] \in OpenChange
      BY <3>1 DEF NoChange, ReleaseInv, ReleaseTyped
    <3> HIDE DEF s
    <3>4. /\ c \in OpenChange /\ c.stage = s /\ c.kind = change[p].kind /\ c.version = change[p].version
          /\ c.expected = change[p].expected /\ c.raced = change[p].raced
      BY <3>1, <3>3 DEF OpenChange
    <3>5. change[p] # NoChange
      BY <3>1 DEF NoChange
    <3>6. Allowed(c) /\ (c.kind = "change" => c.version \in Stable)
      BY <3>4, <3>5 DEF ReleaseInv, ReleaseTyped, AskedStands
    <3> HIDE DEF c, Allowed
    <3> QED BY <3>1, <3>2, <3>4, <3>6
  <2> QED BY <2>1, <2>2, <2>3, <2>4 DEF ProveChange
<1> HIDE DEF Allowed
<1>2. \A q \in Admins : change'[q] = IF q = p THEN c ELSE change[q]
  BY <1>1 DEF ReleaseInv, ReleaseTyped
<1>3. ReleaseTyped'
  BY <1>0, <1>1, <1>2 DEF ReleaseInv, ReleaseTyped
<1>4. LockIsHeld'
  BY <1>1, <1>2 DEF ReleaseInv, LockIsHeld
<1>5. CurrentMinimum' = CurrentMinimum /\ Published' = Published
  BY <1>0 DEF CurrentMinimum, Published
<1>6. \A v : BreaksMinimum(v)' <=> BreaksMinimum(v)
  BY <1>5 DEF BreaksMinimum
<1>7. WrittenStands'
  <2> SUFFICES ASSUME NEW q \in Admins, change'[q].stage = "written"
               PROVE  ChangeAllowed(q)' /\ change'[q].previous = CurrentMinimum'
    BY DEF WrittenStands
  <2>1. change'[q] = change[q]
    BY <1>1, <1>2
  <2>2. ChangeAllowed(q) /\ change[q].previous = CurrentMinimum
    BY <2>1 DEF ReleaseInv, WrittenStands
  <2> QED BY <1>0, <1>5, <1>6, <2>1, <2>2 DEF ChangeAllowed, IsNext, AtOrBelowLatest
<1>8. AskedStands'
  <2>1. \A q \in Admins : Allowed(change'[q])
    BY <1>1, <1>2 DEF ReleaseInv, AskedStands, Allowed
  <2>2. ASSUME NEW q \in Admins, NEW x, x = change'[q]
        PROVE  x # NoChange /\ ~ x.raced =>
                  /\ x.kind = "withdraw" => release'[x.version] = "withdrawn" \/ ~ BreaksMinimum(x.version)'
                  /\ x.kind = "change" => x.version \in Published' /\ x.expected = Len(minimum')
    BY <1>0, <1>5, <1>6, <2>1, <2>2 DEF Allowed
  <2> QED BY <2>2 DEF AskedStands
<1>9. MinimumIsOffered' /\ NoLostChange' /\ IntentsAreOfPolicies'
  BY <1>0, <1>5 DEF ReleaseInv, MinimumIsOffered, NoLostChange, IntentsAreOfPolicies, AtOrBelowLatest
<1>10. KeptAsDecided'
  BY <1>0, KeptWithPolicies
<1> QED BY <1>0, <1>3, <1>4, <1>7, <1>8, <1>9, <1>10 DEF ReleaseInv


\* a step-up is wasted only on a refusal that a concurrent change explains
LEMMA RefusalsAreExplained ==
    ASSUME ReleaseInv, NEW p \in Admins, change[p].stage = "locked", ~ AlreadyMade(p), ~ ChangeAllowed(p)
    PROVE  change[p].raced
<1>1. change[p] \in OpenChange /\ change[p] # NoChange
  BY DEF ReleaseInv, ReleaseTyped, NoChange
<1> SUFFICES ASSUME ~ change[p].raced
             PROVE  FALSE
  OBVIOUS
<1>2. CASE change[p].kind = "withdraw"
  BY <1>1, <1>2 DEF ReleaseInv, AskedStands, AlreadyMade, ChangeAllowed
<1>3. CASE change[p].kind = "change"
  <2>1. change[p].version \in Published /\ change[p].expected = Len(minimum)
    BY <1>1, <1>3 DEF ReleaseInv, AskedStands
  <2>2. change[p].version \in Nat
    BY <2>1, VersionsAreOrdered DEF Published
  <2>3. AtOrBelowLatest(change[p].version)
    BY <2>1, <2>2 DEF AtOrBelowLatest
  <2> QED BY <1>3, <2>1, <2>3 DEF ChangeAllowed, IsNext, Published
<1> QED BY <1>1, <1>2, <1>3 DEF OpenChange

LEMMA ReleaseChecks ==
    ASSUME ReleaseInv, NEW p \in Admins, CheckAgain(p)
    PROVE  ReleaseInv'
<1>0. UNCHANGED <<release, minimum, intent, kept>> /\ change[p].stage = "locked"
  BY DEF CheckAgain
<1>1. change[p] \in OpenChange /\ change[p] # NoChange
  BY <1>0 DEF ReleaseInv, ReleaseTyped, NoChange
<1>2. CASE EndChange(p)
  <2>1. wasted' = wasted
    <3>1. CASE AlreadyMade(p) \/ ChangeAllowed(p)
      BY <3>1 DEF CheckAgain
    <3>2. CASE ~ AlreadyMade(p) /\ ~ ChangeAllowed(p)
      <4>1. change[p].raced /\ wasted = FALSE
        BY <1>0, <3>2, RefusalsAreExplained DEF ReleaseInv
      <4>2. wasted' = (wasted \/ ~ change[p].raced)
        BY <3>2 DEF CheckAgain
      <4>3. wasted' = FALSE
        BY <4>1, <4>2, Zenon
      <4> QED BY <4>1, <4>3
    <3> QED BY <3>1, <3>2
  <2>2. AbandonChange(p)
    BY <1>0, <1>1, <1>2, <2>1 DEF AbandonChange
  <2> QED BY <2>2, ReleaseRequests
<1>3. CASE /\ ChangeAllowed(p)
           /\ change' = [change EXCEPT ![p].stage = "written", ![p].previous = CurrentMinimum]
           /\ UNCHANGED <<componentLock, wasted>>
  <2> DEFINE c == [change[p] EXCEPT !.stage = "written", !.previous = CurrentMinimum]
  <2>1. CurrentMinimum \in SUBSET Stable
    BY LatestPolicy DEF ReleaseInv, ReleaseTyped
  <2>2. /\ c \in OpenChange /\ c.kind = change[p].kind /\ c.version = change[p].version /\ c.expected = change[p].expected
        /\ c.raced = change[p].raced /\ c.stage = "written" /\ c.previous = CurrentMinimum
    BY <1>1, <2>1 DEF OpenChange
  <2>3. change' = [change EXCEPT ![p] = c]
    BY <1>3 DEF ReleaseInv, ReleaseTyped
  <2> HIDE DEF c
  <2>4. \A q \in Admins : change'[q] = IF q = p THEN c ELSE change[q]
    BY <2>3 DEF ReleaseInv, ReleaseTyped
  <2>5. ReleaseTyped'
    BY <1>0, <1>3, <2>2, <2>3, <2>4 DEF ReleaseInv, ReleaseTyped
  <2>6. LockIsHeld' /\ componentLock = {p}
    BY <1>0, <1>3, <2>4 DEF ReleaseInv, LockIsHeld
  <2>7. CurrentMinimum' = CurrentMinimum /\ Published' = Published
    BY <1>0 DEF CurrentMinimum, Published
  <2>8. \A v : BreaksMinimum(v)' <=> BreaksMinimum(v)
    BY <2>7 DEF BreaksMinimum
  <2>9. WrittenStands'
    <3> SUFFICES ASSUME NEW q \in Admins, change'[q].stage = "written"
                 PROVE  ChangeAllowed(q)' /\ change'[q].previous = CurrentMinimum'
      BY DEF WrittenStands
    <3>1. ChangeAllowed(q) /\ (q # p => change[q].previous = CurrentMinimum)
      BY <1>3, <2>4 DEF ReleaseInv, WrittenStands
    <3>2. change'[q].kind = change[q].kind /\ change'[q].version = change[q].version /\ change'[q].expected = change[q].expected
      BY <2>2, <2>4
    <3>3. ChangeAllowed(q)'
      BY <1>0, <2>7, <2>8, <3>1, <3>2 DEF ChangeAllowed, IsNext, AtOrBelowLatest
    <3> QED BY <2>2, <2>4, <2>7, <3>1, <3>3
  <2>10. AskedStands'
    <3>1. ASSUME NEW q \in Admins, NEW x, x = change'[q]
          PROVE  x # NoChange /\ ~ x.raced =>
                    /\ x.kind = "withdraw" => release'[x.version] = "withdrawn" \/ ~ BreaksMinimum(x.version)'
                    /\ x.kind = "change" => x.version \in Published' /\ x.expected = Len(minimum')
      BY <1>0, <1>1, <2>2, <2>4, <2>7, <2>8, <3>1 DEF ReleaseInv, AskedStands
    <3> QED BY <3>1 DEF AskedStands
  <2>11. MinimumIsOffered' /\ NoLostChange' /\ IntentsAreOfPolicies'
    BY <1>0, <2>7 DEF ReleaseInv, MinimumIsOffered, NoLostChange, IntentsAreOfPolicies, AtOrBelowLatest
  <2>12. KeptAsDecided'
    BY <1>0, KeptWithPolicies
  <2> QED BY <1>3, <2>5, <2>6, <2>9, <2>10, <2>11, <2>12 DEF ReleaseInv
<1> QED BY <1>2, <1>3 DEF CheckAgain

\* the only request that has checked commits, and every other one is told the state has moved
LEMMA ReleaseCommits ==
    ASSUME ReleaseInv, NEW p \in Admins, CommitChange(p)
    PROVE  ReleaseInv'
<1>0. UNCHANGED <<kept, wasted>> /\ change[p].stage = "written" /\ componentLock = {p} /\ componentLock' = {}
  BY DEF CommitChange, ReleaseInv, LockIsHeld
<1>1. change[p] \in OpenChange /\ ChangeAllowed(p) /\ change[p].previous = CurrentMinimum
  BY <1>0 DEF ReleaseInv, ReleaseTyped, WrittenStands, NoChange
<1>2. \A q \in Admins : \/ change'[q] = NoChange
                        \/ /\ change'[q] \in OpenChange /\ change'[q].kind = change[q].kind /\ change'[q].version = change[q].version
                           /\ change'[q].stage = change[q].stage /\ change'[q].raced /\ q # p
  <2> SUFFICES ASSUME NEW q \in Admins, q # p, change[q] # NoChange
               PROVE  /\ change'[q] \in OpenChange /\ change'[q].kind = change[q].kind /\ change'[q].version = change[q].version
                      /\ change'[q].stage = change[q].stage /\ change'[q].raced /\ q # p
    BY DEF CommitChange
  <2>1. change'[q] = [change[q] EXCEPT !.raced = TRUE]
    BY DEF CommitChange
  <2>2. change[q] \in OpenChange
    BY DEF ReleaseInv, ReleaseTyped
  <2> QED BY <2>1, <2>2 DEF OpenChange
<1>3. /\ change' \in [Admins -> OpenChange \cup {NoChange}]
      /\ \A q \in Admins : change'[q].kind = "change" => change'[q].version \in Stable
  <2>1. change' = [q \in Admins |-> change'[q]]
    BY DEF CommitChange
  <2> QED BY <1>2, <2>1 DEF ReleaseInv, ReleaseTyped, NoChange
<1>4. \A q \in Admins : change'[q].stage \notin {"locked", "written"}
  BY <1>0, <1>2 DEF ReleaseInv, LockIsHeld, NoChange
<1>5. LockIsHeld' /\ WrittenStands'
  BY <1>4 DEF LockIsHeld, WrittenStands
<1>6. AskedStands'
  BY <1>2 DEF AskedStands
<1>7. CASE change[p].kind = "withdraw"
  <2>1. release' = [release EXCEPT ![change[p].version] = "withdrawn"] /\ UNCHANGED <<minimum, intent>>
    BY <1>7 DEF CommitChange
  <2>2. ~ BreaksMinimum(change[p].version)
    BY <1>1, <1>7 DEF ChangeAllowed
  <2>3. Published' = Published \ {change[p].version}
    BY <1>1, <2>1, VersionsAreOrdered DEF Published, ReleaseInv, ReleaseTyped, OpenChange
  <2>4. CurrentMinimum' = CurrentMinimum /\ CurrentMinimum \subseteq Nat
    BY <2>1, LatestPolicy, VersionsAreOrdered DEF CurrentMinimum, ReleaseInv, ReleaseTyped
  <2>5. MinimumIsOffered'
    <3> SUFFICES ASSUME NEW m \in CurrentMinimum
                 PROVE  \E w \in Published' : m <= w
      BY <2>4 DEF MinimumIsOffered, AtOrBelowLatest
    <3>1. PICK w \in Published \ {change[p].version} : ~ (w < m)
      BY <2>2 DEF BreaksMinimum
    <3>2. w \in Nat /\ m \in Nat
      BY <2>4, VersionsAreOrdered DEF Published
    <3> QED BY <2>3, <3>1, <3>2
  <2>6. NoLostChange' /\ IntentsAreOfPolicies'
    BY <2>1 DEF ReleaseInv, NoLostChange, IntentsAreOfPolicies
  <2>7. release' \in [Versions -> {"none", "registered", "published", "withdrawn"}]
    BY <2>1 DEF ReleaseInv, ReleaseTyped
  <2>8. ReleaseTyped'
    BY <1>0, <1>3, <2>1, <2>7 DEF ReleaseInv, ReleaseTyped
  <2>9. KeptAsDecided'
    BY <1>0, <2>1, KeptWithPolicies
  <2> QED BY <1>0, <1>5, <1>6, <2>5, <2>6, <2>8, <2>9 DEF ReleaseInv
<1>8. CASE change[p].kind = "change"
  <2> DEFINE v   == change[p].version
             e   == [from |-> change[p].expected, minimum |-> v, previous |-> change[p].previous]
             len == Len(minimum)
  <2>1. minimum' = Append(minimum, v) /\ intent' = intent \cup {e} /\ release' = release
    BY <1>8 DEF CommitChange
  <2>2. /\ v \in Stable /\ change[p].expected = len /\ AtOrBelowLatest(v) /\ len \in Nat
        /\ minimum \in Seq(Stable) /\ CurrentMinimum = MinimumAt(len) /\ CurrentMinimum \subseteq Stable
    BY <1>1, <1>8, LatestPolicy DEF ChangeAllowed, IsNext, ReleaseInv, ReleaseTyped
  <2>3. e.from = len /\ e.minimum = v /\ e.previous = MinimumAt(len) /\ e \in [from : Nat, minimum : Stable, previous : SUBSET Stable]
    BY <1>1, <2>2
  <2> HIDE DEF e, v, len
  <2>4. /\ minimum' \in Seq(Stable) /\ Len(minimum') = len + 1 /\ minimum'[len + 1] = v
        /\ \A n \in 1..len : minimum'[n] = minimum[n]
    BY <2>1, <2>2 DEF len
  <2>5. ReleaseTyped'
    BY <1>0, <1>3, <2>1, <2>3, <2>4 DEF ReleaseInv, ReleaseTyped
  <2>6. CurrentMinimum' = {v} /\ Published' = Published
    BY <2>1, <2>2, <2>4 DEF CurrentMinimum, Published
  <2>7. MinimumIsOffered'
    BY <2>2, <2>6 DEF MinimumIsOffered, AtOrBelowLatest
  <2>8. IntentsAreOfPolicies'
    <3> SUFFICES ASSUME NEW x \in intent'
                 PROVE  x.from + 1 \in 1..(len + 1)
      BY <2>4 DEF IntentsAreOfPolicies
    <3>1. CASE x \in intent
      BY <2>2, <3>1 DEF ReleaseInv, IntentsAreOfPolicies, len
    <3>2. CASE x = e
      BY <2>2, <2>3, <3>2
    <3> QED BY <2>1, <3>1, <3>2
  <2>9. NoLostChange'
    <3>1. ASSUME NEW x \in intent'
          PROVE  /\ minimum'[x.from + 1] = x.minimum
                 /\ x.previous = IF x.from = 0 THEN {} ELSE {minimum'[x.from]}
      <4>1. CASE x \in intent
        <5>1. x.from \in Nat /\ x.from + 1 \in 1..len
          BY <4>1 DEF ReleaseInv, ReleaseTyped, IntentsAreOfPolicies, len
        <5>2. minimum[x.from + 1] = x.minimum /\ x.previous = IF x.from = 0 THEN {} ELSE {minimum[x.from]}
          BY <4>1 DEF ReleaseInv, NoLostChange
        <5>3. x.from = 0 \/ x.from \in 1..len
          BY <2>2, <5>1
        <5> QED BY <2>4, <5>1, <5>2, <5>3
      <4>2. CASE x = e
        <5>1. len = 0 \/ len \in 1..len
          BY <2>2
        <5> QED BY <2>3, <2>4, <4>2, <5>1 DEF MinimumAt
      <4> QED BY <2>1, <4>1, <4>2
    <3>2. ASSUME NEW n \in 1..(len + 1)
          PROVE  \E x \in intent' : x.from + 1 = n
      <4>1. CASE n = len + 1
        BY <2>1, <2>3, <4>1
      <4>2. CASE n # len + 1
        <5>1. n \in 1..len
          BY <2>2, <4>2
        <5> QED BY <2>1, <5>1 DEF ReleaseInv, NoLostChange, len
      <4> QED BY <4>1, <4>2
    <3> QED BY <2>4, <3>1, <3>2 DEF NoLostChange
  <2>10. KeptAsDecided'
    BY <1>0, <2>1, <2>2, KeptWithPolicies
  <2> QED BY <1>0, <1>5, <1>6, <2>5, <2>7, <2>8, <2>9, <2>10 DEF ReleaseInv
<1> QED BY <1>1, <1>7, <1>8 DEF OpenChange

LEMMA ReleaseAnswers ==
    ASSUME ReleaseInv, NEW v \in Installed, AskCompatibility(v)
    PROVE  ReleaseInv'
<1>0. UNCHANGED <<release, minimum, change, componentLock, intent, wasted>>
  BY DEF AskCompatibility
<1>1. kept' = [kept EXCEPT ![v] = {[tag |-> EntityTag(v), decision |-> DecisionFor(v)]}]
  BY DEF AskCompatibility
<1>2. DecisionFor(v) = DecisionAt(v, release[v], Len(minimum), Latest) /\ Len(minimum) \in Nat
  BY LatestPolicy DEF DecisionFor, DecisionAt, ReleaseInv, ReleaseTyped
<1>3. \A x, s, n, l : DecisionAt(x, s, n, l)' = DecisionAt(x, s, n, l)
  BY <1>0 DEF DecisionAt, MinimumAt
<1>4. KeptAsDecided'
  <2>1. kept' = [x \in Installed |-> kept'[x]]
    BY <1>1 DEF ReleaseInv, KeptAsDecided
  <2>2. ASSUME NEW x \in Installed, NEW a \in kept'[x]
        PROVE  \E s, l : \E n \in 0..Len(minimum') : a.tag = <<s, n, l>> /\ a.decision = DecisionAt(x, s, n, l)'
    <3>1. CASE x = v
      <4>1. a.tag = EntityTag(v) /\ a.decision = DecisionFor(v)
        BY <1>1, <2>2, <3>1 DEF ReleaseInv, KeptAsDecided
      <4>2. a.tag = <<release[v], Len(minimum), Latest>> /\ Len(minimum) \in 0..Len(minimum')
        BY <1>0, <1>2, <4>1 DEF EntityTag
      <4> QED BY <1>2, <1>3, <3>1, <4>1, <4>2
    <3>2. CASE x # v
      <4>1. a \in kept[x]
        BY <1>1, <2>2, <3>2 DEF ReleaseInv, KeptAsDecided
      <4> QED BY <1>0, <1>3, <4>1 DEF ReleaseInv, KeptAsDecided
    <3> QED BY <3>1, <3>2
  <2> QED BY <2>1, <2>2 DEF KeptAsDecided
<1>5. CurrentMinimum' = CurrentMinimum /\ Published' = Published
  BY <1>0 DEF CurrentMinimum, Published
<1>6. \A x : BreaksMinimum(x)' <=> BreaksMinimum(x)
  BY <1>5 DEF BreaksMinimum
<1>7. \A p : ChangeAllowed(p)' <=> ChangeAllowed(p)
  BY <1>0, <1>5, <1>6 DEF ChangeAllowed, IsNext, AtOrBelowLatest
<1>8. WrittenStands' /\ AskedStands'
  BY <1>0, <1>5, <1>6, <1>7 DEF ReleaseInv, WrittenStands, AskedStands
<1> QED BY <1>0, <1>4, <1>5, <1>8 DEF ReleaseInv, ReleaseTyped, LockIsHeld, IntentsAreOfPolicies, MinimumIsOffered, NoLostChange,
                                      AtOrBelowLatest

LEMMA ReleaseStep ==
    ASSUME ReleaseInv, [ReleaseNext]_releaseVars
    PROVE  ReleaseInv'
<1>1. CASE UNCHANGED releaseVars
  <2>0. UNCHANGED <<release, minimum, change, componentLock, intent, kept, wasted>>
    BY <1>1 DEF releaseVars
  <2>1. CurrentMinimum' = CurrentMinimum /\ Published' = Published
    BY <2>0 DEF CurrentMinimum, Published
  <2>2. \A x : BreaksMinimum(x)' <=> BreaksMinimum(x)
    BY <2>1 DEF BreaksMinimum
  <2>3. \A p : ChangeAllowed(p)' <=> ChangeAllowed(p)
    BY <2>0, <2>1, <2>2 DEF ChangeAllowed, IsNext, AtOrBelowLatest
  <2>4. WrittenStands' /\ AskedStands'
    BY <2>0, <2>1, <2>2, <2>3 DEF ReleaseInv, WrittenStands, AskedStands
  <2>5. KeptAsDecided'
    BY <2>0, KeptWithPolicies
  <2> QED BY <2>0, <2>1, <2>4, <2>5 DEF ReleaseInv, ReleaseTyped, LockIsHeld, IntentsAreOfPolicies, MinimumIsOffered,
                                        NoLostChange, AtOrBelowLatest
<1>2. CASE ReleaseNext
  BY <1>2, ReleaseAutomation, ReleaseRequests, ReleaseChecks, ReleaseCommits, ReleaseAnswers DEF ReleaseNext
<1> QED BY <1>1, <1>2

\* what the runs check follows: a tag that matches is of the same state, policies and latest release
LEMMA ReleaseConclusions ==
    ASSUME ReleaseInv
    PROVE  ReleaseTypeOK /\ ReleasesSound
<1>1. ReleaseTypeOK
  BY DEF ReleaseInv, ReleaseTyped, ReleaseTypeOK, OpenChange, NoChange
<1>2. TagsAreStrong
  <2> SUFFICES ASSUME NEW v \in Installed, NEW a \in kept[v], a.tag = EntityTag(v)
               PROVE  a.decision = DecisionFor(v)
    BY DEF TagsAreStrong
  <2>1. PICK s, l : \E n \in 0..Len(minimum) : a.tag = <<s, n, l>> /\ a.decision = DecisionAt(v, s, n, l)
    BY DEF ReleaseInv, KeptAsDecided
  <2>2. PICK n \in 0..Len(minimum) : a.tag = <<s, n, l>> /\ a.decision = DecisionAt(v, s, n, l)
    BY <2>1
  <2>3. s = release[v] /\ n = Len(minimum) /\ l = Latest
    BY <2>2 DEF EntityTag
  <2>4. CurrentMinimum = MinimumAt(Len(minimum))
    BY LatestPolicy DEF ReleaseInv, ReleaseTyped
  <2> QED BY <2>2, <2>3, <2>4 DEF DecisionFor, DecisionAt
<1> QED BY <1>1, <1>2 DEF ReleaseInv, ReleasesSound


-----------------------------------------------------------------------------
(* Sessions: a token being rotated is alive and its row held by one        *)
(* rotation, the token it inserts is new, and a suspension has seen every  *)
(* token alive while nobody inserts another.                               *)

RequestRow == [kind : Kinds, step : {"idle", "read", "inserted", "committed", "revoking"},
               token : Tokens \cup {"none"}, next : Tokens \cup {"none"}, seen : SUBSET Tokens]

RotatingLive ==
    \A p \in Clients : Rotating(p) =>
       /\ request[p].token \in Tokens /\ Live(request[p].token)
       /\ \A q \in Clients : q # p /\ Rotating(q) => request[q].token # request[p].token

InsertedIsNew ==
    \A p \in Clients : request[p].step = "inserted" =>
       /\ request[p].kind = "refresh"
       /\ request[p].next \in Tokens /\ token[request[p].next].family = "none"
       /\ \A q \in Clients : q # p => request[q].next # request[p].next

RevokesASession ==
    \A p \in Clients :
       /\ request[p].step = "revoking" => request[p].kind \in {"reuse", "logout", "block", "suspend"}
       /\ request[p].kind \in {"reuse", "logout"} =>
             request[p].token \in Tokens /\ token[request[p].token].family # "none"

SuspensionSeesAll ==
    \A p \in Clients : request[p].kind = "suspend" =>
       /\ \A t \in Tokens : Live(t) => t \in request[p].seen
       /\ \A q \in Clients : request[q].step # "inserted"

EndedAreSessions == \A f \in ended : Members(f) # {}

SessionInv ==
    /\ SessionTypeOK /\ RotatingLive /\ InsertedIsNew /\ RevokesASession /\ SuspensionSeesAll /\ EndedAreSessions
    /\ EndedStaysEnded /\ OneLiveToken

LEMMA SessionsInitially ==
    SessionsStart => SessionInv
<1> SUFFICES ASSUME SessionsStart
             PROVE  SessionInv
  OBVIOUS
<1>1. Done \in RequestRow /\ Absent \in [family : Families \cup {"none"}, revoked : BOOLEAN, next : Tokens \cup {"none"}]
  BY DEF Done, Absent, RequestRow, Kinds
<1>2. [Absent EXCEPT !.family = f1] \in [family : Families \cup {"none"}, revoked : BOOLEAN, next : Tokens \cup {"none"}]
  BY <1>1, StartIsOfTheInstance DEF Absent
<1>3. SessionTypeOK
  BY <1>1, <1>2 DEF SessionsStart, SessionTypeOK, RequestRow
<1>4. \A t \in Tokens : Live(t) => t = t1
  BY DEF SessionsStart, Live, Absent
<1>5. OneLiveToken /\ EndedStaysEnded /\ EndedAreSessions
  BY <1>4 DEF SessionsStart, OneLiveToken, EndedStaysEnded, EndedAreSessions, Members
<1> QED BY <1>3, <1>5 DEF SessionsStart, Done, SessionInv, RotatingLive, Rotating, InsertedIsNew, RevokesASession, SuspensionSeesAll

\* a request that writes no token only has to be fit to go on
Fit(p, row) ==
    /\ row \in RequestRow
    /\ row.kind = "refresh" /\ row.step \in {"read", "inserted"} =>
          /\ row.token \in Tokens /\ Live(row.token)
          /\ \A q \in Clients : q # p /\ Rotating(q) => request[q].token # row.token
    /\ row.step = "inserted" =>
          /\ row.kind = "refresh" /\ row.next \in Tokens /\ token[row.next].family = "none"
          /\ \A q \in Clients : request[q].kind # "suspend"
    /\ row.next # "none" => \A q \in Clients : q # p => request[q].next # row.next
    /\ row.step = "revoking" => row.kind \in {"reuse", "logout", "block", "suspend"}
    /\ row.kind \in {"reuse", "logout"} => row.token \in Tokens /\ token[row.token].family # "none"
    /\ row.kind = "suspend" =>
          /\ row.step # "inserted"
          /\ \A t \in Tokens : Live(t) => t \in row.seen
          /\ \A q \in Clients : q # p => request[q].step # "inserted"

LEMMA FitRequests ==
    ASSUME SessionInv, NEW p \in Clients, NEW row, Fit(p, row),
           request' = [request EXCEPT ![p] = row], UNCHANGED <<token, active, closed, expired, ended>>
    PROVE  SessionInv'
<1>1. \A q \in Clients : request'[q] = IF q = p THEN row ELSE request[q]
  BY DEF SessionInv, SessionTypeOK
<1>2. SessionTypeOK'
  BY DEF Fit, RequestRow, SessionInv, SessionTypeOK
<1>3. \A t : Live(t)' <=> Live(t)
  BY DEF Live
<1>4. \A f : Members(f)' = Members(f)
  BY DEF Members
<1>5. RotatingLive'
  BY <1>1, <1>3 DEF Fit, SessionInv, RotatingLive, Rotating, Live
<1>6. InsertedIsNew'
  BY <1>1, NoneIsNoRow DEF Fit, SessionInv, InsertedIsNew
<1>7. RevokesASession'
  BY <1>1 DEF Fit, SessionInv, RevokesASession
<1>8. SuspensionSeesAll'
  BY <1>1, <1>3 DEF Fit, SessionInv, SuspensionSeesAll
<1>9. EndedAreSessions' /\ EndedStaysEnded' /\ OneLiveToken'
  BY <1>3, <1>4 DEF SessionInv, EndedAreSessions, EndedStaysEnded, OneLiveToken
<1> QED BY <1>2, <1>5, <1>6, <1>7, <1>8, <1>9 DEF SessionInv

LEMMA SessionRequests ==
    ASSUME SessionInv, NEW p \in Clients,
           \/ \E t \in Tokens : Refresh(p, t) \/ LogOut(p, t)
           \/ Insert(p) \/ AnswerRefresh(p) \/ Rollback(p) \/ LogIn(p) \/ Block(p) \/ Suspend(p)
    PROVE  SessionInv'
<1>0. UNCHANGED <<token, active, closed, expired, ended>>
  BY DEF Refresh, LogOut, Insert, AnswerRefresh, Rollback, LogIn, Block, Suspend
<1> SUFFICES \E row : Fit(p, row) /\ request' = [request EXCEPT ![p] = row]
  BY <1>0, FitRequests
<1>1. Fit(p, Done)
  BY DEF Fit, Done, RequestRow, Kinds
<1>2. ASSUME NEW kind \in {"reuse", "logout"}, NEW t \in Tokens, NEW seen \in SUBSET Tokens,
             token[t].family # "none", Revoke(p, kind, t, seen)
      PROVE  \E row : Fit(p, row) /\ request' = [request EXCEPT ![p] = row]
  <2> DEFINE row == [kind |-> kind, step |-> "revoking", token |-> t, next |-> "none", seen |-> seen]
  <2>1. row \in RequestRow
    BY DEF RequestRow, Kinds
  <2>2. Fit(p, row)
    BY <1>2, <2>1 DEF Fit
  <2> QED BY <1>2, <2>2 DEF Revoke
<1>3. ASSUME NEW t \in Tokens, Refresh(p, t)
      PROVE  \E row : Fit(p, row) /\ request' = [request EXCEPT ![p] = row]
  <2>1. CASE Revoke(p, "reuse", t, {u \in Members(token[t].family) : Live(u)})
    BY <1>2, <1>3, <2>1 DEF Refresh, Members
  <2>2. CASE Live(t) /\ request' = [request EXCEPT ![p] = [Done EXCEPT !.kind = "refresh", !.step = "read", !.token = t]]
    <3> DEFINE row == [Done EXCEPT !.kind = "refresh", !.step = "read", !.token = t]
    <3>1. row \in RequestRow /\ row.kind = "refresh" /\ row.step = "read" /\ row.token = t /\ row.next = "none"
      BY DEF Done, RequestRow, Kinds
    <3> HIDE DEF row
    <3>2. \A q \in Clients : q # p /\ Rotating(q) => request[q].token # t
      BY <1>3 DEF Refresh, Locked
    <3>3. Fit(p, row)
      BY <2>2, <3>1, <3>2 DEF Fit
    <3> QED BY <2>2, <3>3 DEF row
  <2> QED BY <1>3, <2>1, <2>2 DEF Refresh
<1>4. ASSUME NEW t \in Tokens, LogOut(p, t)
      PROVE  \E row : Fit(p, row) /\ request' = [request EXCEPT ![p] = row]
  BY <1>2, <1>4 DEF LogOut, Members
<1>5. CASE Insert(p)
  <2> DEFINE new == NewToken
             row == [request[p] EXCEPT !.step = "inserted", !.next = new]
  <2>1. new \in Unused
    BY <1>5 DEF Insert, NewToken
  <2>2. new \in Tokens /\ token[new].family = "none" /\ \A q \in Clients : request[q].next # new
    BY <2>1 DEF Unused
  <2>3. request[p] \in RequestRow
    BY DEF SessionInv, SessionTypeOK, RequestRow
  <2>4. request' = [request EXCEPT ![p] = row]
    BY <1>5 DEF Insert, SessionInv, SessionTypeOK
  <2> HIDE DEF new
  <2>5. row \in RequestRow /\ row.kind = "refresh" /\ row.step = "inserted" /\ row.next = new /\ row.token = request[p].token
    BY <1>5, <2>2, <2>3 DEF Insert, RequestRow
  <2> HIDE DEF row
  <2>6. Rotating(p) /\ \A q \in Clients : request[q].kind # "suspend"
    BY <1>5 DEF Insert, Rotating, UserLocked
  <2>7. Fit(p, row)
    BY <2>2, <2>5, <2>6 DEF Fit, SessionInv, RotatingLive
  <2> QED BY <2>4, <2>7
<1>6. CASE AnswerRefresh(p) \/ Rollback(p)
  BY <1>1, <1>6 DEF AnswerRefresh, Rollback
<1>7. CASE LogIn(p)
  <2> DEFINE row == [Done EXCEPT !.kind = "login", !.step = "read"]
  <2>1. row \in RequestRow /\ row.kind = "login" /\ row.step = "read" /\ row.next = "none"
    BY DEF Done, RequestRow, Kinds
  <2>2. request' = [request EXCEPT ![p] = row]
    BY <1>7 DEF LogIn
  <2> HIDE DEF row
  <2> QED BY <2>1, <2>2 DEF Fit
<1>8. CASE Block(p) \/ Suspend(p)
  <2> DEFINE kind == IF Suspend(p) THEN "suspend" ELSE "block"
             row  == [kind |-> kind, step |-> "revoking", token |-> "none", next |-> "none", seen |-> {t \in Tokens : Live(t)}]
  <2>1. kind \in {"suspend", "block"} /\ (kind = "suspend" => \A q \in Clients : request[q].step # "inserted")
    BY DEF Suspend, Inserting
  <2>2. request' = [request EXCEPT ![p] = row]
    BY <1>8 DEF Block, Suspend, Revoke
  <2> HIDE DEF kind
  <2>3. Fit(p, row)
    BY <2>1 DEF Fit, RequestRow, Kinds
  <2> QED BY <2>2, <2>3
<1> QED BY <1>3, <1>4, <1>5, <1>6, <1>7, <1>8


TokenRow == [family : Families \cup {"none"}, revoked : BOOLEAN, next : Tokens \cup {"none"}]

\* a rotation replaces the one live token of its family; no other rotation holds it, no
\* suspension is under way, and nothing that ended comes back
LEMMA SessionRotation ==
    ASSUME SessionInv, NEW p \in Clients, Rotate(p)
    PROVE  SessionInv'
<1> DEFINE old == request[p].token
           new == request[p].next
           fam == token[old].family
           rowOld == [token[old] EXCEPT !.revoked = TRUE, !.next = new]
           rowNew == [Absent EXCEPT !.family = fam]
<1>0. request[p].kind = "refresh" /\ request[p].step = "inserted" /\ Rotating(p) /\ UNCHANGED <<active, closed, expired, ended>>
  BY DEF Rotate, Rotating
<1>1. /\ old \in Tokens /\ Live(old) /\ new \in Tokens /\ token[new].family = "none" /\ new # old
      /\ \A q \in Clients : q # p => request[q].next # new /\ (Rotating(q) => request[q].token # old)
      /\ \A q \in Clients : request[q].kind # "suspend"
  BY <1>0 DEF SessionInv, RotatingLive, InsertedIsNew, SuspensionSeesAll, Live
<1>2. token[old] \in TokenRow /\ fam \in Families /\ fam # "none"
  BY <1>1, NoneIsNoRow DEF SessionInv, SessionTypeOK, TokenRow, Live
<1>3. /\ rowOld \in TokenRow /\ rowOld.family = fam /\ rowOld.revoked = TRUE
      /\ rowNew \in TokenRow /\ rowNew.family = fam /\ rowNew.revoked = FALSE
  BY <1>1, <1>2 DEF TokenRow, Absent
<1>4. token' = [token EXCEPT ![old] = rowOld, ![new] = rowNew]
  BY <1>1 DEF Rotate, SessionInv, SessionTypeOK
<1>5. request' = [request EXCEPT ![p].step = "committed"]
  BY DEF Rotate
<1> HIDE DEF rowOld, rowNew
<1>6. \A t \in Tokens : token'[t] = IF t = new THEN rowNew ELSE IF t = old THEN rowOld ELSE token[t]
  BY <1>1, <1>4 DEF SessionInv, SessionTypeOK
<1>7. \A q \in Clients : /\ q # p => request'[q] = request[q]
                         /\ request'[q].token = request[q].token /\ request'[q].next = request[q].next
                         /\ request'[q].kind = request[q].kind /\ request'[q].seen = request[q].seen
                         /\ request'[q].step = IF q = p THEN "committed" ELSE request[q].step
  BY <1>5 DEF SessionInv, SessionTypeOK
<1>8. SessionTypeOK'
  <2>1. token' \in [Tokens -> TokenRow]
    BY <1>3, <1>4 DEF SessionInv, SessionTypeOK, TokenRow
  <2>2. request' \in [Clients -> RequestRow]
    BY <1>5 DEF SessionInv, SessionTypeOK, RequestRow
  <2> QED BY <1>0, <2>1, <2>2 DEF SessionInv, SessionTypeOK, TokenRow, RequestRow
<1>9. \A t \in Tokens : Live(t)' <=> (t = new \/ (t # old /\ Live(t)))
  BY <1>1, <1>2, <1>3, <1>6 DEF Live
<1>10. \A t \in Tokens : token'[t].family = IF t = new THEN fam ELSE token[t].family
  BY <1>1, <1>3, <1>6
<1> HIDE DEF fam
<1>11. RotatingLive'
  <2> SUFFICES ASSUME NEW q \in Clients, Rotating(q)'
               PROVE  /\ request'[q].token \in Tokens /\ Live(request[q].token)'
                      /\ \A r \in Clients : r # q /\ Rotating(r)' => request'[r].token # request'[q].token
    BY <1>7 DEF RotatingLive, Live
  <2>1. q # p /\ Rotating(q) /\ \A r \in Clients : Rotating(r)' => Rotating(r)
    BY <1>7 DEF Rotating
  <2>2. PICK t \in Tokens : t = request[q].token /\ Live(t) /\ t # old
    BY <1>1, <2>1 DEF SessionInv, RotatingLive
  <2>3. request'[q].token = t /\ Live(t)'
    BY <1>7, <1>9, <2>2
  <2> QED BY <1>7, <2>1, <2>2, <2>3 DEF SessionInv, RotatingLive, Live
<1>12. InsertedIsNew'
  BY <1>1, <1>7, <1>10 DEF SessionInv, InsertedIsNew
<1>13. RevokesASession'
  BY <1>2, <1>7, <1>10 DEF SessionInv, RevokesASession
<1>14. SuspensionSeesAll'
  BY <1>1, <1>7 DEF SuspensionSeesAll
<1>15. \A f : f # "none" => \A t : t \in Members(f)' <=> (t \in Members(f) \/ (t = new /\ f = fam))
  BY <1>1, <1>10, <1>2 DEF Members
<1>16. fam \notin ended
  BY <1>1 DEF SessionInv, EndedStaysEnded, Members, fam
<1>17. \A f \in Families : f # "none"
  BY NoneIsNoRow
<1>18. EndedAreSessions' /\ EndedStaysEnded'
  <2> SUFFICES ASSUME NEW f \in ended
               PROVE  Members(f)' # {} /\ \A t \in Members(f)' : ~ Live(t)'
    BY <1>0 DEF EndedAreSessions, EndedStaysEnded
  <2>1. f # fam /\ f # "none" /\ f \in Families
    BY <1>16, <1>17 DEF SessionInv, SessionTypeOK
  <2>2. Members(f)' = Members(f) /\ Members(f) # {} /\ Members(f) \subseteq Tokens /\ new \notin Members(f)
    BY <1>1, <1>15, <2>1 DEF SessionInv, EndedAreSessions, Members
  <2> QED BY <1>9, <2>2 DEF SessionInv, EndedStaysEnded
<1>19. OneLiveToken'
  <2> SUFFICES ASSUME NEW f \in Families, NEW t \in Members(f)', NEW u \in Members(f)', Live(t)', Live(u)'
               PROVE  t = u
    BY DEF OneLiveToken
  <2>1. t \in Tokens /\ u \in Tokens
    BY DEF Members
  <2>2. CASE f # fam
    <3>1. t \in Members(f) /\ u \in Members(f) /\ t # new /\ u # new
      BY <1>1, <1>15, <1>17, <2>2 DEF Members
    <3> QED BY <1>9, <2>1, <3>1 DEF SessionInv, OneLiveToken
  <2>3. CASE f = fam
    <3>1. \A x \in Members(f) : Live(x) => x = old
      BY <1>1, <2>3 DEF SessionInv, OneLiveToken, Members, fam
    <3>2. \A x \in Members(f)' : Live(x)' => x = new
      BY <1>9, <1>15, <1>17, <3>1 DEF Members
    <3> QED BY <3>2
  <2> QED BY <2>2, <2>3
<1> QED BY <1>8, <1>11, <1>12, <1>13, <1>14, <1>18, <1>19 DEF SessionInv

LEMMA SessionOpening ==
    ASSUME SessionInv, NEW p \in Clients, OpenSession(p)
    PROVE  SessionInv'
<1>0. UNCHANGED <<active, closed, expired, ended>> /\ request' = [request EXCEPT ![p] = Done]
  BY DEF OpenSession
<1>1. PICK f \in Families : Members(f) = {} /\ token' = [token EXCEPT ![NewToken].family = f]
  BY DEF OpenSession
<1> DEFINE new == NewToken
           row == [token[new] EXCEPT !.family = f]
<1>2. new \in Tokens /\ token[new].family = "none" /\ \A q \in Clients : request[q].next # new
  <2>1. new \in Unused
    BY DEF OpenSession, NewToken
  <2> QED BY <2>1 DEF Unused
<1> HIDE DEF new
<1>3. /\ row \in TokenRow /\ row.family = f
      /\ token' = [token EXCEPT ![new] = row]
  <2>1. token[new] \in TokenRow
    BY <1>2 DEF SessionInv, SessionTypeOK, TokenRow
  <2> QED BY <1>1, <2>1 DEF TokenRow, SessionInv, SessionTypeOK, new
<1> HIDE DEF row
<1>4. \A t \in Tokens : token'[t] = IF t = new THEN row ELSE token[t]
  BY <1>3 DEF SessionInv, SessionTypeOK
<1>5. Done \in RequestRow
  BY DEF Done, RequestRow, Kinds
<1>6. SessionTypeOK'
  <2>1. token' \in [Tokens -> TokenRow]
    BY <1>3 DEF SessionInv, SessionTypeOK, TokenRow
  <2>2. request' \in [Clients -> RequestRow]
    BY <1>0, <1>5 DEF SessionInv, SessionTypeOK, RequestRow
  <2> QED BY <1>0, <2>1, <2>2 DEF SessionInv, SessionTypeOK, TokenRow, RequestRow
<1>7. \A q \in Clients : request'[q] = IF q = p THEN Done ELSE request[q]
  BY <1>0 DEF SessionInv, SessionTypeOK
<1>8. \A t \in Tokens : t # new => (Live(t)' <=> Live(t)) /\ token'[t] = token[t]
  BY <1>4 DEF Live
<1>9. f # "none"
  BY NoneIsNoRow
<1>10. \A q \in Clients : Rotating(q)' => q # p /\ Rotating(q) /\ request[q].token \in Tokens /\ request[q].token # new
  BY <1>2, <1>7 DEF Rotating, Done, SessionInv, RotatingLive, Live
<1>11. RotatingLive'
  <2> SUFFICES ASSUME NEW q \in Clients, Rotating(q)'
               PROVE  /\ request'[q].token \in Tokens /\ Live(request[q].token)' /\ request'[q] = request[q]
                      /\ \A r \in Clients : r # q /\ Rotating(r)' => request'[r].token # request'[q].token
    BY DEF RotatingLive, Live
  <2>1. PICK t \in Tokens : t = request[q].token /\ Live(t) /\ t # new
    BY <1>10 DEF SessionInv, RotatingLive
  <2>2. request'[q] = request[q] /\ Live(t)'
    BY <1>7, <1>8, <1>10, <2>1
  <2> QED BY <1>7, <1>10, <2>1, <2>2 DEF SessionInv, RotatingLive, Live
<1>12. InsertedIsNew' /\ RevokesASession'
  BY <1>2, <1>3, <1>7, <1>4, <1>9, NoneIsNoRow DEF Done, SessionInv, InsertedIsNew, RevokesASession
<1>13. SuspensionSeesAll'
  <2>1. \A q \in Clients : request[q].kind # "suspend"
    BY DEF OpenSession, UserLocked
  <2> QED BY <1>7, <2>1 DEF Done, SuspensionSeesAll
<1>14. \A g \in Families : Members(g)' = IF g = f THEN {new} ELSE Members(g)
  BY <1>1, <1>2, <1>3, <1>4, NoneIsNoRow DEF Members
<1>15. f \notin ended
  BY <1>1 DEF SessionInv, EndedAreSessions
<1>16. EndedAreSessions' /\ EndedStaysEnded'
  <2> SUFFICES ASSUME NEW g \in ended
               PROVE  Members(g)' # {} /\ \A t \in Members(g)' : ~ Live(t)'
    BY <1>0 DEF EndedAreSessions, EndedStaysEnded
  <2>1. g \in Families /\ Members(g)' = Members(g) /\ Members(g) # {}
    BY <1>14, <1>15 DEF SessionInv, SessionTypeOK, EndedAreSessions
  <2>2. \A t \in Members(g) : t \in Tokens /\ t # new
    BY <1>2, <2>1, NoneIsNoRow DEF Members
  <2> QED BY <1>8, <2>1, <2>2 DEF SessionInv, EndedStaysEnded
<1>17. OneLiveToken'
  <2> SUFFICES ASSUME NEW g \in Families, NEW t \in Members(g)', NEW u \in Members(g)', Live(t)', Live(u)'
               PROVE  t = u
    BY DEF OneLiveToken
  <2>1. CASE g = f
    BY <1>14, <2>1
  <2>2. CASE g # f
    <3>1. t \in Members(g) /\ u \in Members(g) /\ t \in Tokens /\ u \in Tokens /\ t # new /\ u # new
      BY <1>2, <1>14, <2>2, NoneIsNoRow DEF Members
    <3> QED BY <1>8, <3>1 DEF SessionInv, OneLiveToken
  <2> QED BY <2>1, <2>2
<1> QED BY <1>6, <1>11, <1>12, <1>13, <1>16, <1>17 DEF SessionInv

\* what a revocation has seen is revoked, and no row of it is being rotated
LEMMA SessionRevocation ==
    ASSUME SessionInv, NEW p \in Clients, Revoked(p)
    PROVE  SessionInv'
<1> DEFINE seen == request[p].seen
           of   == IF request[p].kind \in {"block", "suspend"} THEN {f \in Families : Members(f) # {}}
                   ELSE {token[request[p].token].family}
<1>0. /\ UNCHANGED <<closed, expired>> /\ request' = [request EXCEPT ![p] = Done]
      /\ token' = [t \in Tokens |-> IF t \in seen THEN [token[t] EXCEPT !.revoked = TRUE] ELSE token[t]]
      /\ \A t \in seen : ~ Locked(p, t)
  BY DEF Revoked
<1>1. active' \in BOOLEAN /\ ended' = ended \cup {f \in of : request[p].kind = "suspend" \/ Covered(p, f)}
  BY DEF Revoked
<1>2. \A q \in Clients : request'[q] = IF q = p THEN Done ELSE request[q]
  BY <1>0 DEF SessionInv, SessionTypeOK
<1>3. token' \in [Tokens -> TokenRow] /\ \A t \in Tokens : /\ token'[t].family = token[t].family
                                                           /\ t \in seen => token'[t].revoked = TRUE
                                                           /\ t \notin seen => token'[t].revoked = token[t].revoked
  <2>1. ASSUME NEW t \in Tokens
        PROVE  /\ token'[t] \in TokenRow /\ token'[t].family = token[t].family
               /\ t \in seen => token'[t].revoked = TRUE
               /\ t \notin seen => token'[t].revoked = token[t].revoked
    <3>1. token[t] \in TokenRow
      BY DEF SessionInv, SessionTypeOK, TokenRow
    <3>2. CASE t \in seen
      BY <1>0, <3>1, <3>2 DEF TokenRow
    <3>3. CASE t \notin seen
      BY <1>0, <3>1, <3>3 DEF TokenRow
    <3> QED BY <3>2, <3>3
  <2> QED BY <1>0, <2>1
<1>4. \A t \in Tokens : Live(t)' <=> (Live(t) /\ t \notin seen)
  BY <1>3 DEF Live
<1>5. \A f : Members(f)' = Members(f)
  BY <1>3 DEF Members
<1>6. \A f \in of : f \in Families /\ Members(f) # {}
  <2>1. CASE request[p].kind \in {"block", "suspend"}
    BY <2>1
  <2>2. CASE request[p].kind \in {"reuse", "logout"}
    BY <2>2 DEF SessionInv, SessionTypeOK, RevokesASession, Members
  <2>3. request[p].kind \in {"block", "suspend", "reuse", "logout"}
    BY DEF Revoked, SessionInv, RevokesASession
  <2> QED BY <2>1, <2>2, <2>3
<1>7. SessionTypeOK'
  <2>1. Done \in RequestRow
    BY DEF Done, RequestRow, Kinds
  <2>2. request' \in [Clients -> RequestRow]
    BY <1>0, <2>1 DEF SessionInv, SessionTypeOK, RequestRow
  <2>3. ended' \subseteq Families
    BY <1>1, <1>6 DEF SessionInv, SessionTypeOK
  <2> HIDE DEF of
  <2> QED BY <1>0, <1>1, <1>3, <2>2, <2>3 DEF SessionInv, SessionTypeOK, TokenRow, RequestRow
<1>8. \A q \in Clients : Rotating(q)' => q # p /\ Rotating(q) /\ request'[q] = request[q]
  BY <1>2 DEF Rotating, Done
<1>9. RotatingLive'
  <2> SUFFICES ASSUME NEW q \in Clients, Rotating(q)'
               PROVE  /\ request'[q].token \in Tokens /\ Live(request[q].token)' /\ request'[q] = request[q]
                      /\ \A r \in Clients : r # q /\ Rotating(r)' => request'[r].token # request'[q].token
    BY DEF RotatingLive, Live
  <2>1. PICK t \in Tokens : t = request[q].token /\ Live(t)
    BY <1>8 DEF SessionInv, RotatingLive
  <2>2. t \notin seen
    BY <1>0, <1>8, <2>1 DEF Locked
  <2>3. Live(t)'
    BY <1>4, <2>1, <2>2
  <2> QED BY <1>8, <2>1, <2>3 DEF SessionInv, RotatingLive, Live
<1>10. InsertedIsNew' /\ RevokesASession'
  BY <1>2, <1>3, NoneIsNoRow DEF Done, SessionInv, InsertedIsNew, RevokesASession
<1>11. SuspensionSeesAll'
  BY <1>2, <1>4 DEF Done, SessionInv, SuspensionSeesAll
<1>12. EndedAreSessions' /\ EndedStaysEnded'
  <2> SUFFICES ASSUME NEW f \in ended'
               PROVE  Members(f) # {} /\ \A t \in Members(f) : ~ Live(t)'
    BY <1>5 DEF EndedAreSessions, EndedStaysEnded
  <2>1. \A t \in Members(f) : t \in Tokens
    BY DEF Members
  <2>2. CASE f \in ended
    BY <1>4, <2>1, <2>2 DEF SessionInv, EndedAreSessions, EndedStaysEnded
  <2>3. CASE f \in of /\ request[p].kind = "suspend"
    BY <1>4, <1>6, <2>1, <2>3 DEF SessionInv, SuspensionSeesAll
  <2>4. CASE f \in of /\ Covered(p, f)
    BY <1>4, <1>6, <2>1, <2>4 DEF Covered
  <2> HIDE DEF of
  <2> QED BY <1>1, <2>2, <2>3, <2>4
<1>13. OneLiveToken'
  <2>1. \A f : \A t \in Members(f) : t \in Tokens
    BY DEF Members
  <2> QED BY <1>4, <1>5, <2>1 DEF SessionInv, OneLiveToken
<1> QED BY <1>7, <1>9, <1>10, <1>11, <1>12, <1>13 DEF SessionInv

LEMMA SessionTime ==
    ASSUME SessionInv, Unblock \/ Expire
    PROVE  SessionInv'
<1>0. UNCHANGED <<token, request, ended>>
  BY DEF Unblock, Expire
<1>1. active' \in BOOLEAN /\ closed' \in SUBSET Families /\ expired' \in SUBSET Tokens
  BY DEF Unblock, Expire, SessionInv, SessionTypeOK
<1> QED BY <1>0, <1>1 DEF SessionInv, SessionTypeOK, RotatingLive, Rotating, Live, InsertedIsNew, RevokesASession,
                          SuspensionSeesAll, EndedAreSessions, EndedStaysEnded, OneLiveToken, Members

LEMMA SessionStep ==
    ASSUME SessionInv, [SessionNext]_sessionVars
    PROVE  SessionInv'
<1>1. CASE UNCHANGED sessionVars
  BY <1>1 DEF sessionVars, SessionInv, SessionTypeOK, RotatingLive, Rotating, Live, InsertedIsNew, RevokesASession,
              SuspensionSeesAll, EndedAreSessions, EndedStaysEnded, OneLiveToken, Members
<1>2. CASE SessionNext
  BY <1>2, SessionRequests, SessionRotation, SessionOpening, SessionRevocation, SessionTime DEF SessionNext
<1> QED BY <1>1, <1>2


-----------------------------------------------------------------------------
(* Receipts: consumed and voided are for good, because the statements that *)
(* write them ask for a receipt that is issued.                            *)

ReceiptRow == [status : {"none", "issued", "consumed", "voided"}, content : Contents \cup {"none"}, ref : Refs \cup {"none"}]
TakeRow    == [step : {"idle", "read", "recover"}, key : Keys \cup {"none"}, ref : Refs \cup {"none"}]
Used       == {k \in Keys : issued[k].status # "none"}

\* a consumption under way is of a receipt and a reference
TakesAReceipt == \A c \in Consumers : consuming[c].step # "idle" => consuming[c].key \in Keys /\ consuming[c].ref \in Refs

ReceiptInv ==
    /\ ReceiptTypeOK /\ TakesAReceipt
    /\ IsFiniteSet(spent) /\ IsFiniteSet(Used)
    /\ ConsumptionsStand /\ LostIsVoid /\ SpentOnce

LEMMA ReceiptsInitially ==
    ReceiptsStart => ReceiptInv
<1> SUFFICES ASSUME ReceiptsStart
             PROVE  ReceiptInv
  OBVIOUS
<1>1. PICK second \in {Asks(k1, b1, s1), Asks(k1, b1, s2), Asks(k1, b2, s2), Asks(k2, b1, s2), Asks(k2, b1, s1)} :
         ask = [i \in Issuers |-> IF i = i1 THEN Asks(k1, b1, s1) ELSE second]
  BY DEF ReceiptsStart
<1>2. ask \in [Issuers -> [key : Keys, content : Contents, proof : Proofs]]
  <2>1. \A k \in {k1, k2}, b \in {b1, b2}, s \in {s1, s2} : Asks(k, b, s) \in [key : Keys, content : Contents, proof : Proofs]
    BY StartIsOfTheInstance DEF Asks
  <2>2. second \in [key : Keys, content : Contents, proof : Proofs]
    BY <1>1, <2>1
  <2> QED BY <1>1, <2>1, <2>2
<1>3. NoReceipt \in ReceiptRow /\ NotTaking \in TakeRow
  BY DEF NoReceipt, NotTaking, ReceiptRow, TakeRow
<1>4. ReceiptTypeOK
  BY <1>2, <1>3, LossesAreBounded DEF ReceiptsStart, NoReceipts, ReceiptTypeOK, ReceiptRow, TakeRow
<1>5. spent = {} /\ Used = {}
  BY DEF ReceiptsStart, NoReceipts, NoReceipt, Used
<1>6. IsFiniteSet({}) /\ Cardinality({}) = 0
  BY FS_EmptySet
<1>7. SpentOnce
  <2>1. Cardinality(spent) = Cardinality({k \in Keys : issued[k].status # "none"})
    BY <1>5 DEF Used
  <2> QED BY <2>1 DEF ReceiptsStart, NoReceipts, NoReceipt, SpentOnce
<1> QED BY <1>4, <1>5, <1>6, <1>7
           DEF ReceiptInv, ReceiptsStart, NoReceipts, NotTaking, TakesAReceipt, ConsumptionsStand, LostIsVoid

\* steps that write no receipt answer from what is for good
LEMMA ReceiptAnswers ==
    ASSUME ReceiptInv, ReceiptTypeOK', TakesAReceipt', UNCHANGED <<issued, spent>>,
           \A t \in told' : t \in told \/ (issued[t.key].status = "consumed" /\ issued[t.key].ref = t.ref),
           \A k \in voids' : k \in voids \/ issued[k].status = "voided"
    PROVE  ReceiptInv'
  BY DEF ReceiptInv, ConsumptionsStand, LostIsVoid, SpentOnce, Used

LEMMA ReceiptReads ==
    ASSUME ReceiptInv, NEW p \in Issuers, Issue(p) \/ AnswerReplay(p) \/ IssueFails(p)
    PROVE  ReceiptInv'
<1>0. UNCHANGED <<ask, issued, spent, owner, elapsed, secrets, consuming, told>>
  BY DEF Issue, AnswerReplay, IssueFails
<1>1. issuing' \in [Issuers -> {"idle", "read", "void", "insert"}] /\ losses' \in 0..MaxLosses
  <2>1. issuing \in [Issuers -> {"idle", "read", "void", "insert"}] /\ losses \in 0..MaxLosses
    BY DEF ReceiptInv, ReceiptTypeOK
  <2>2. losses' \in 0..MaxLosses
    BY <2>1, LossesAreBounded DEF Issue, AnswerReplay, IssueFails, Lose
  <2>3. \E step \in {"idle", "read", "void", "insert"} : IssueAt(p, step)
    BY DEF Issue, AnswerReplay, IssueFails, StopIssuing
  <2> QED BY <2>1, <2>2, <2>3 DEF IssueAt
<1>2. \A k \in voids' : k \in voids \/ (issued[k].status = "voided" /\ k \in Keys)
  BY DEF Issue, AnswerReplay, IssueFails, ReceiptInv, ReceiptTypeOK
<1>3. ReceiptTypeOK'
  BY <1>0, <1>1, <1>2 DEF ReceiptInv, ReceiptTypeOK
<1> QED BY <1>0, <1>2, <1>3, ReceiptAnswers DEF ReceiptInv, TakesAReceipt

LEMMA ReceiptVoids ==
    ASSUME ReceiptInv, NEW p \in Issuers, VoidReplayed(p)
    PROVE  ReceiptInv'
<1>0. UNCHANGED <<ask, spent, owner, elapsed, secrets, consuming, told, losses>>
  BY DEF VoidReplayed
<1> DEFINE k == ask[p].key
<1>1. k \in Keys /\ issued[k] \in ReceiptRow
  BY DEF ReceiptInv, ReceiptTypeOK, ReceiptRow
<1>2. issuing' \in [Issuers -> {"idle", "read", "void", "insert"}]
  BY DEF VoidReplayed, IssueAt, StopIssuing, ReceiptInv, ReceiptTypeOK
<1>3. CASE ~ Voidable(k)
  <2>1. UNCHANGED <<issued, voids>>
    BY <1>3 DEF VoidReplayed
  <2>2. ReceiptTypeOK'
    BY <1>0, <1>2, <2>1 DEF ReceiptInv, ReceiptTypeOK
  <2> QED BY <1>0, <2>1, <2>2, ReceiptAnswers DEF ReceiptInv, TakesAReceipt
<1>4. CASE Voidable(k)
  <2> DEFINE row == [issued[k] EXCEPT !.status = "voided"]
  <2>1. issued[k].status = "issued" /\ voids' = voids \cup {k}
    BY <1>4 DEF VoidReplayed, Voidable
  <2>2. issued' = [issued EXCEPT ![k] = row] /\ row \in ReceiptRow /\ row.status = "voided" /\ row.ref = issued[k].ref
    BY <1>1, <1>4 DEF VoidReplayed, ReceiptInv, ReceiptTypeOK, ReceiptRow
  <2> HIDE DEF row, k
  <2>3. \A j \in Keys : issued'[j] = IF j = k THEN row ELSE issued[j]
    BY <2>2 DEF ReceiptInv, ReceiptTypeOK
  <2>4. ReceiptTypeOK'
    BY <1>0, <1>1, <1>2, <2>1, <2>2 DEF ReceiptInv, ReceiptTypeOK, ReceiptRow
  <2>5. Used' = Used
    BY <2>1, <2>2, <2>3 DEF Used
  <2>6. \A t \in told : t.key \in Keys
    BY DEF ReceiptInv, ReceiptTypeOK
  <2>7. ConsumptionsStand'
    BY <1>0, <2>1, <2>3, <2>6 DEF ReceiptInv, ConsumptionsStand
  <2>8. LostIsVoid'
    BY <1>1, <2>1, <2>2, <2>3 DEF ReceiptInv, ReceiptTypeOK, LostIsVoid
  <2>9. SpentOnce'
    <3>1. \A j, i \in Keys : issued'[j].ref = issued'[i].ref /\ issued'[j].ref # "none" => j = i
      BY <2>2, <2>3 DEF ReceiptInv, SpentOnce
    <3> QED BY <1>0, <2>5, <3>1 DEF ReceiptInv, SpentOnce, Used
  <2> QED BY <1>0, <2>4, <2>5, <2>7, <2>8, <2>9 DEF ReceiptInv, TakesAReceipt
<1> QED BY <1>3, <1>4

\* an issue spends a proof and makes a receipt, or neither
LEMMA ReceiptIssues ==
    ASSUME ReceiptInv, NEW p \in Issuers, NEW receives \in BOOLEAN, InsertReceipt(p, receives)
    PROVE  ReceiptInv'
<1>0. UNCHANGED <<ask, owner, elapsed, consuming, told, voids>>
  BY DEF InsertReceipt
<1> DEFINE k     == ask[p].key
           proof == ask[p].proof
<1>1. k \in Keys /\ issued[k] \in ReceiptRow /\ proof \in Proofs /\ ask[p].content \in Contents
  BY DEF ReceiptInv, ReceiptTypeOK, ReceiptRow
<1>2. issuing' \in [Issuers -> {"idle", "read", "void", "insert"}] /\ losses' \in 0..MaxLosses
  BY LossesAreBounded DEF InsertReceipt, IssueAt, StopIssuing, Lose, ReceiptInv, ReceiptTypeOK
<1>3. CASE proof \in spent \/ ~ owner \/ issued[k].status # "none"
  <2>1. UNCHANGED <<issued, spent, secrets>>
    BY <1>3 DEF InsertReceipt
  <2>2. ReceiptTypeOK'
    BY <1>0, <1>2, <2>1 DEF ReceiptInv, ReceiptTypeOK
  <2> QED BY <1>0, <2>1, <2>2, ReceiptAnswers DEF ReceiptInv, TakesAReceipt
<1>4. CASE ~ (proof \in spent \/ ~ owner \/ issued[k].status # "none")
  <2> DEFINE row == [issued[k] EXCEPT !.status = "issued", !.content = ask[p].content]
  <2>1. spent' = spent \cup {proof} /\ proof \notin spent /\ secrets' \in SUBSET Keys
    BY <1>1, <1>4 DEF InsertReceipt, ReceiptInv, ReceiptTypeOK
  <2>2. issued' = [issued EXCEPT ![k] = row] /\ row \in ReceiptRow /\ row.status = "issued" /\ row.ref = issued[k].ref
    BY <1>1, <1>4 DEF InsertReceipt, ReceiptInv, ReceiptTypeOK, ReceiptRow
  <2>3. issued[k].status = "none"
    BY <1>4
  <2> HIDE DEF row, k, proof
  <2>4. \A j \in Keys : issued'[j] = IF j = k THEN row ELSE issued[j]
    BY <2>2 DEF ReceiptInv, ReceiptTypeOK
  <2>5. ReceiptTypeOK'
    BY <1>0, <1>1, <1>2, <2>1, <2>2 DEF ReceiptInv, ReceiptTypeOK, ReceiptRow
  <2>6. Used' = Used \cup {k} /\ k \notin Used
    BY <1>1, <2>2, <2>3, <2>4 DEF Used
  <2>7. \A t \in told : t.key \in Keys
    BY DEF ReceiptInv, ReceiptTypeOK
  <2>8. ConsumptionsStand' /\ LostIsVoid'
    BY <1>0, <2>3, <2>4, <2>7 DEF ReceiptInv, ReceiptTypeOK, ConsumptionsStand, LostIsVoid
  <2>9. \A j, i \in Keys : issued'[j].ref = issued'[i].ref /\ issued'[j].ref # "none" => j = i
    BY <2>2, <2>4 DEF ReceiptInv, SpentOnce
  <2>10. /\ IsFiniteSet(spent') /\ Cardinality(spent') = Cardinality(spent) + 1
         /\ IsFiniteSet(Used') /\ Cardinality(Used') = Cardinality(Used) + 1
    BY <2>1, <2>6, FS_AddElement DEF ReceiptInv
  <2>11. Cardinality(spent) = Cardinality(Used)
    BY DEF ReceiptInv, SpentOnce, Used
  <2>12. SpentOnce'
    BY <2>9, <2>10, <2>11 DEF SpentOnce, Used
  <2> QED BY <1>0, <2>5, <2>8, <2>10, <2>12 DEF ReceiptInv, TakesAReceipt
<1> QED BY <1>3, <1>4


\* the one statement that consumes: of a receipt that is issued, under a reference nobody has
LEMMA ReceiptConsumed ==
    ASSUME ReceiptInv, ReceiptTypeOK', TakesAReceipt', NEW k \in Keys, NEW ref \in Refs,
           Consumable(k), ~ RefTaken(ref),
           issued' = [issued EXCEPT ![k].status = "consumed", ![k].ref = ref],
           \A t \in told' : t \in told \/ t = [key |-> k, ref |-> ref],
           UNCHANGED <<spent, voids>>
    PROVE  ReceiptInv'
<1> DEFINE row == [issued[k] EXCEPT !.status = "consumed", !.ref = ref]
<1>1. issued' = [issued EXCEPT ![k] = row] /\ row.status = "consumed" /\ row.ref = ref /\ issued[k].status = "issued"
  <2>1. issued[k] \in ReceiptRow /\ issued[k].status = "issued"
    BY DEF Consumable, ReceiptInv, ReceiptTypeOK, ReceiptRow
  <2>2. row.status = "consumed" /\ row.ref = ref
    BY <2>1 DEF ReceiptRow
  <2>3. issued' = [issued EXCEPT ![k] = row]
    BY DEF ReceiptInv, ReceiptTypeOK
  <2> QED BY <2>1, <2>2, <2>3
<1> HIDE DEF row
<1>2. \A j \in Keys : issued'[j] = IF j = k THEN row ELSE issued[j]
  BY <1>1 DEF ReceiptInv, ReceiptTypeOK
<1>3. Used' = Used
  BY <1>1, <1>2 DEF Used
<1>4. \A t \in told : t.key \in Keys
  BY DEF ReceiptInv, ReceiptTypeOK
<1>5. ConsumptionsStand'
  <2> SUFFICES ASSUME NEW t \in told'
               PROVE  issued'[t.key].status = "consumed" /\ issued'[t.key].ref = t.ref
    BY DEF ConsumptionsStand
  <2>1. CASE t \in told
    BY <1>1, <1>2, <1>4, <2>1 DEF ReceiptInv, ConsumptionsStand
  <2>2. CASE t = [key |-> k, ref |-> ref]
    BY <1>1, <1>2, <2>2
  <2> QED BY <2>1, <2>2
<1>6. LostIsVoid'
  BY <1>1, <1>2 DEF ReceiptInv, ReceiptTypeOK, LostIsVoid
<1>7. \A j, i \in Keys : issued'[j].ref = issued'[i].ref /\ issued'[j].ref # "none" => j = i
  BY <1>1, <1>2 DEF RefTaken, ReceiptInv, SpentOnce
<1>8. SpentOnce'
  <2>1. Cardinality(spent') = Cardinality(Used')
    BY <1>3 DEF ReceiptInv, SpentOnce, Used
  <2> QED BY <1>7, <2>1 DEF SpentOnce, Used
<1> QED BY <1>3, <1>5, <1>6, <1>8 DEF ReceiptInv

LEMMA ReceiptConsumes ==
    ASSUME ReceiptInv, NEW c \in Consumers, NEW k \in Keys, NEW ref \in Refs,
           ConsumeReceipt(c, k, ref) \/ ConsumeUncertain(c, k, ref)
    PROVE  ReceiptInv'
<1>0. UNCHANGED <<ask, spent, owner, elapsed, secrets, issuing, voids>>
  BY DEF ConsumeReceipt, ConsumeUncertain
<1>1. losses' \in 0..MaxLosses
  BY LossesAreBounded DEF ConsumeReceipt, ConsumeUncertain, Lose, ReceiptInv, ReceiptTypeOK
<1>2. consuming' = consuming \/ \E s \in {"read", "recover"} : Go(c, s, k, ref)
  BY DEF ConsumeReceipt, ConsumeUncertain
<1>3. consuming' \in [Consumers -> TakeRow] /\ TakesAReceipt'
  <2>1. CASE consuming' = consuming
    BY <2>1 DEF ReceiptInv, ReceiptTypeOK, TakeRow, TakesAReceipt
  <2>2. ASSUME NEW s \in {"read", "recover"}, Go(c, s, k, ref)
        PROVE  consuming' \in [Consumers -> TakeRow] /\ TakesAReceipt'
    <3> DEFINE row == [step |-> s, key |-> k, ref |-> ref]
    <3>1. row \in TakeRow /\ row.key \in Keys /\ row.ref \in Refs
      BY DEF TakeRow
    <3>2. consuming' = [consuming EXCEPT ![c] = row]
      BY <2>2 DEF Go
    <3> HIDE DEF row
    <3> QED BY <3>1, <3>2 DEF ReceiptInv, ReceiptTypeOK, TakeRow, TakesAReceipt
  <2> QED BY <1>2, <2>1, <2>2
<1>4. told' \in SUBSET [key : Keys, ref : Refs] /\ \A t \in told' : t \in told \/ t = [key |-> k, ref |-> ref]
  BY DEF ConsumeReceipt, ConsumeUncertain, Told, ReceiptInv, ReceiptTypeOK
<1>5. CASE UNCHANGED <<issued, told>>
  <2>1. ReceiptTypeOK'
    BY <1>0, <1>1, <1>3, <1>5 DEF ReceiptInv, ReceiptTypeOK, TakeRow
  <2> QED BY <1>0, <1>3, <1>5, <2>1, ReceiptAnswers
<1>6. CASE /\ Consumable(k) /\ ~ RefTaken(ref)
           /\ issued' = [issued EXCEPT ![k].status = "consumed", ![k].ref = ref]
  <2>1. issued' \in [Keys -> ReceiptRow]
    <3> DEFINE row == [issued[k] EXCEPT !.status = "consumed", !.ref = ref]
    <3>1. issued[k] \in ReceiptRow
      BY DEF ReceiptInv, ReceiptTypeOK, ReceiptRow
    <3>2. row \in ReceiptRow
      BY <3>1 DEF ReceiptRow
    <3>3. issued' = [issued EXCEPT ![k] = row]
      BY <1>6 DEF ReceiptInv, ReceiptTypeOK
    <3> HIDE DEF row
    <3> QED BY <3>2, <3>3 DEF ReceiptInv, ReceiptTypeOK, ReceiptRow
  <2>2. ReceiptTypeOK'
    BY <1>0, <1>1, <1>3, <1>4, <2>1 DEF ReceiptInv, ReceiptTypeOK, ReceiptRow, TakeRow
  <2> QED BY <1>0, <1>3, <1>4, <1>6, <2>2, ReceiptConsumed
<1> QED BY <1>5, <1>6 DEF ConsumeReceipt, ConsumeUncertain

\* the repeat of a consumption, and the look-up of one, tell what the rows say
LEMMA ReceiptTells ==
    ASSUME ReceiptInv,
           \/ \E c \in Consumers : AnswerConsume(c) \/ RecoverUncertain(c)
           \/ \E k \in Keys, ref \in Refs : LookUpConsumption(k, ref)
           \/ Elapse \/ OwnerChanges
    PROVE  ReceiptInv'
<1>0. UNCHANGED <<ask, issued, spent, secrets, issuing, voids>>
  BY DEF AnswerConsume, RecoverUncertain, LookUpConsumption, Elapse, OwnerChanges
<1>1. losses' \in 0..MaxLosses /\ owner' \in BOOLEAN /\ elapsed' \in SUBSET Keys
  <2>1. losses \in 0..MaxLosses /\ owner \in BOOLEAN /\ elapsed \in SUBSET Keys
    BY DEF ReceiptInv, ReceiptTypeOK
  <2>2. losses' \in 0..MaxLosses
    BY <2>1, LossesAreBounded DEF AnswerConsume, RecoverUncertain, LookUpConsumption, Elapse, OwnerChanges, Lose
  <2>3. owner' \in BOOLEAN
    BY <2>1 DEF AnswerConsume, RecoverUncertain, LookUpConsumption, Elapse, OwnerChanges
  <2>4. elapsed' \in SUBSET Keys
    BY <2>1 DEF AnswerConsume, RecoverUncertain, LookUpConsumption, Elapse, OwnerChanges
  <2> QED BY <2>2, <2>3, <2>4
<1>2. consuming' \in [Consumers -> TakeRow] /\ TakesAReceipt'
  <2>1. CASE consuming' = consuming
    BY <2>1 DEF ReceiptInv, ReceiptTypeOK, TakeRow, TakesAReceipt
  <2>2. ASSUME NEW c \in Consumers, StopTaking(c)
        PROVE  consuming' \in [Consumers -> TakeRow] /\ TakesAReceipt'
    <3>1. NotTaking \in TakeRow /\ NotTaking.step = "idle"
      BY DEF NotTaking, TakeRow
    <3> QED BY <2>2, <3>1 DEF StopTaking, ReceiptInv, ReceiptTypeOK, TakeRow, TakesAReceipt
  <2> QED BY <2>1, <2>2 DEF AnswerConsume, RecoverUncertain, LookUpConsumption, Elapse, OwnerChanges
<1> DEFINE Stands(k, ref) == issued[k].status = "consumed" /\ issued[k].ref = ref
           TellsRight     == \E k \in Keys, ref \in Refs : Told(k, ref) /\ Stands(k, ref)
<1>3. told' = told \/ TellsRight
  <2>1. ASSUME NEW c \in Consumers, AnswerConsume(c) \/ RecoverUncertain(c)
        PROVE  told' = told \/ TellsRight
    <3>1. consuming[c].key \in Keys /\ consuming[c].ref \in Refs
      BY <2>1 DEF AnswerConsume, RecoverUncertain, ReceiptInv, TakesAReceipt
    <3> QED BY <2>1, <3>1 DEF AnswerConsume, RecoverUncertain, SameConsumption, Found
  <2>2. ASSUME NEW k \in Keys, NEW ref \in Refs, LookUpConsumption(k, ref)
        PROVE  told' = told \/ TellsRight
    BY <2>2 DEF LookUpConsumption, Found
  <2> QED BY <2>1, <2>2 DEF Elapse, OwnerChanges
<1>4. /\ told' \in SUBSET [key : Keys, ref : Refs]
      /\ \A t \in told' : t \in told \/ (issued[t.key].status = "consumed" /\ issued[t.key].ref = t.ref)
  <2>1. ASSUME NEW k \in Keys, NEW ref \in Refs, Told(k, ref), Stands(k, ref)
        PROVE  /\ told' \in SUBSET [key : Keys, ref : Refs]
               /\ \A t \in told' : t \in told \/ (issued[t.key].status = "consumed" /\ issued[t.key].ref = t.ref)
    BY <2>1 DEF Told, ReceiptInv, ReceiptTypeOK
  <2> QED BY <1>3, <2>1 DEF ReceiptInv, ReceiptTypeOK
<1>5. ReceiptTypeOK'
  BY <1>0, <1>1, <1>2, <1>4 DEF ReceiptInv, ReceiptTypeOK, TakeRow
<1> QED BY <1>0, <1>2, <1>4, <1>5, ReceiptAnswers

LEMMA ReceiptStep ==
    ASSUME ReceiptInv, [ReceiptNext]_receiptVars
    PROVE  ReceiptInv'
<1>1. CASE UNCHANGED receiptVars
  <2>1. ReceiptTypeOK' /\ TakesAReceipt'
    BY <1>1 DEF receiptVars, ReceiptInv, ReceiptTypeOK, TakesAReceipt
  <2> QED BY <1>1, <2>1, ReceiptAnswers DEF receiptVars
<1>2. CASE ReceiptNext
  BY <1>2, ReceiptReads, ReceiptVoids, ReceiptIssues, ReceiptConsumes, ReceiptTells DEF ReceiptNext
<1> QED BY <1>1, <1>2


-----------------------------------------------------------------------------
(* Files: while the bytes are on their way or stored nobody sweeps the     *)
(* file, a file that was swept never becomes available, and what a worker  *)
(* has removed does not come back.                                         *)

FileRow    == [status : FileStatus, key : UploadKeys \cup {"none"}, attached : BOOLEAN,
               hold : {"none", "active", "released"}, attempts : 0..MaxClaims]
UploadStage == {"none", "receiving", "stored", "refusing", "timed_out", "forgetting", "abandoning"}
CleanerRow == [task : {"idle", "delete", "finish", "retry", "sweep", "fail"}, file : Files \cup {"none"}, attempt : 0..MaxClaims]

\* an upload that may still complete is of a file nobody has given up
StillUploading ==
    \A f \in Files : /\ upload[f] \in {"receiving", "stored"} => Uploading(f) /\ f \notin late
                     /\ upload[f] = "stored" => f \in object

\* what is past its time never becomes available
LateUploads == \A f \in late : file[f].status \in {"UPLOADING", "FAILED", "REJECTED"}

\* a request goes on after its file became available only when its answer was lost
OnlyUnanswered ==
    \A f \in Files : upload[f] # "none" /\ file[f].status \in {"AVAILABLE", "DELETING", "DELETED"} => f \in unanswered

\* a worker sweeps what is late and deletes what is to be deleted; the bytes it has removed stay away
CleanersClaim ==
    \A w \in Cleaners :
       /\ cleaner[w].task # "idle" => cleaner[w].file \in Files
       /\ cleaner[w].task \in {"sweep", "fail"} => cleaner[w].file \in late
       /\ cleaner[w].task \in {"delete", "finish", "retry"} => file[cleaner[w].file].status \in {"DELETING", "DELETED"}
       /\ cleaner[w].task = "finish" => cleaner[w].file \notin object

FileInv ==
    /\ FileTypeOK /\ StillUploading /\ LateUploads /\ OnlyUnanswered /\ CleanersClaim
    /\ AvailableHasObject /\ DeletedIsGone /\ KeptFiles

LEMMA ClaimsBounded == MaxFileFaults \in Nat /\ MaxClaims \in Nat
  BY FileFaultsAreBounded DEF MaxClaims

LEMMA FilesInitially ==
    NothingStored /\ fileFaults = 0 => FileInv
<1> SUFFICES ASSUME NothingStored, fileFaults = 0
             PROVE  FileInv
  OBVIOUS
<1>1. NoFile \in FileRow /\ AtRestC \in CleanerRow
  BY ClaimsBounded DEF NoFile, AtRestC, FileRow, CleanerRow, FileStatus
<1>2. file \in [Files -> FileRow] /\ cleaner \in [Cleaners -> CleanerRow] /\ upload \in [Files -> UploadStage]
  BY <1>1 DEF NothingStored, UploadStage
<1>3. FileTypeOK
  BY <1>2, ClaimsBounded DEF NothingStored, FileTypeOK, FileRow, CleanerRow, UploadStage
<1>4. \A f \in Files : file[f].status = "none" /\ file[f].hold = "none" /\ upload[f] = "none"
  BY DEF NothingStored, NoFile
<1>5. \A w \in Cleaners : cleaner[w].task = "idle"
  BY DEF NothingStored, AtRestC
<1> QED BY <1>3, <1>4, <1>5 DEF NothingStored, FileInv, StillUploading, LateUploads, OnlyUnanswered, CleanersClaim,
                                AvailableHasObject, DeletedIsGone, KeptFiles, Held

\* what a request does to the bytes, before its file is settled
LEMMA FileUploads ==
    ASSUME FileInv, NEW f \in Files,
           \/ Put(f) \/ PutRefused(f) \/ PutTimesOut(f) \/ Forget(f) \/ UploadCrash(f)
           \/ (CompleteUpload(f) \/ RefuseUpload(f)) /\ file' = file /\ unanswered' = unanswered
    PROVE  FileInv'
<1>0. UNCHANGED <<file, late, overdue, leased, cleaner, wanted, unanswered>>
  BY DEF Put, PutRefused, PutTimesOut, Forget, UploadCrash, CompleteUpload, RefuseUpload
<1>1. fileFaults \in 0..MaxFileFaults /\ object \in SUBSET Files /\ upload \in [Files -> UploadStage]
  BY DEF FileInv, FileTypeOK, UploadStage
<1>2. fileFaults' \in 0..MaxFileFaults
  BY <1>1, ClaimsBounded DEF Put, PutRefused, PutTimesOut, Forget, UploadCrash, CompleteUpload, RefuseUpload, FileFault
<1>3. object' \in SUBSET Files
  BY <1>1 DEF Put, PutRefused, PutTimesOut, Forget, UploadCrash, CompleteUpload, RefuseUpload
<1>4. PICK s \in UploadStage : upload' = [upload EXCEPT ![f] = s]
  BY DEF Put, PutRefused, PutTimesOut, Forget, UploadCrash, CompleteUpload, RefuseUpload, UploadAt, UploadStage
<1>5. \A g \in Files : upload'[g] = IF g = f THEN s ELSE upload[g]
  BY <1>1, <1>4
<1>6. /\ upload[f] # "none"
      /\ s = "stored" => upload[f] = "receiving" /\ f \in object'
      /\ s # "receiving"
  <2>1. s = upload'[f]
    BY <1>5
  <2> QED BY <1>1, <2>1 DEF Put, PutRefused, PutTimesOut, Forget, UploadCrash, CompleteUpload, RefuseUpload, UploadAt
<1>7. \/ object' = object
      \/ object' = object \cup {f} /\ upload[f] = "receiving"
      \/ object' = object \ {f} /\ upload[f] \in {"abandoning", "forgetting"} /\ s # "stored"
  <2>1. s = upload'[f]
    BY <1>5
  <2> QED BY <1>1, <2>1 DEF Put, PutRefused, PutTimesOut, Forget, UploadCrash, CompleteUpload, RefuseUpload, UploadAt
<1>8. \A g \in Files : g # f => (g \in object' <=> g \in object)
  BY <1>7
<1>9. FileTypeOK'
  BY <1>0, <1>1, <1>2, <1>3, <1>4 DEF FileInv, FileTypeOK, UploadStage
<1>10. StillUploading'
  BY <1>0, <1>5, <1>6, <1>8 DEF FileInv, StillUploading, Uploading
<1>11. OnlyUnanswered'
  BY <1>0, <1>5, <1>6 DEF FileInv, OnlyUnanswered
<1>12. upload[f] = "receiving" => file[f].status = "UPLOADING"
  BY DEF FileInv, StillUploading, Uploading
<1>13. CleanersClaim' /\ DeletedIsGone'
  BY <1>0, <1>7, <1>8, <1>12 DEF FileInv, CleanersClaim, DeletedIsGone
<1>14. AvailableHasObject'
  <2>1. file[f].status = "AVAILABLE" => f \in object' \cup unanswered
    BY <1>6, <1>7 DEF FileInv, AvailableHasObject, OnlyUnanswered
  <2> QED BY <1>0, <1>8, <2>1 DEF FileInv, AvailableHasObject
<1> QED BY <1>0, <1>9, <1>10, <1>11, <1>13, <1>14 DEF FileInv, LateUploads, KeptFiles, Held

\* a row moves on, with what its request and its sweep then know of it
LEMMA FileMoves ==
    ASSUME FileInv, NEW f \in Files, NEW row \in FileRow, file' = [file EXCEPT ![f] = row],
           FileTypeOK', UNCHANGED <<object, late, cleaner>>,
           unanswered \subseteq unanswered', wanted \subseteq wanted',
           \A g \in Files : g # f => upload'[g] = upload[g],
           upload'[f] \in {"receiving", "stored"} => row.status = "UPLOADING" /\ f \notin late /\ (upload'[f] = "stored" => f \in object),
           f \in late => row.status \in {"UPLOADING", "FAILED", "REJECTED"},
           upload'[f] # "none" /\ row.status \in {"AVAILABLE", "DELETING", "DELETED"} => f \in unanswered',
           file[f].status \in {"DELETING", "DELETED"} => row.status \in {"DELETING", "DELETED"},
           row.status = "AVAILABLE" => f \in object \cup unanswered',
           row.status = "DELETED" => f \notin object,
           row.hold = "active" => row.status = "AVAILABLE",
           row.attached /\ row.status \in {"DELETING", "DELETED"} => f \in wanted'
    PROVE  FileInv'
<1>1. \A g \in Files : file'[g] = IF g = f THEN row ELSE file[g]
  BY DEF FileInv, FileTypeOK
<1>2. StillUploading' /\ OnlyUnanswered'
  BY <1>1 DEF FileInv, StillUploading, OnlyUnanswered, Uploading
<1>3. LateUploads'
  BY <1>1 DEF FileInv, FileTypeOK, LateUploads
<1>4. CleanersClaim'
  BY <1>1 DEF FileInv, FileTypeOK, CleanersClaim
<1>5. AvailableHasObject' /\ DeletedIsGone' /\ KeptFiles'
  BY <1>1 DEF FileInv, AvailableHasObject, DeletedIsGone, KeptFiles, Held
<1> QED BY <1>2, <1>3, <1>4, <1>5 DEF FileInv


LEMMA FileRequests ==
    ASSUME FileInv, NEW f \in Files,
           \/ \E k \in UploadKeys, attach \in BOOLEAN : StartUpload(f, k, attach)
           \/ Attach(f) \/ PlaceHold(f) \/ ReleaseHold(f) \/ RequestDeletion(f) \/ ExpireUnattached(f)
    PROVE  FileInv'
<1>0. /\ UNCHANGED <<object, late, overdue, leased, cleaner, unanswered, fileFaults>>
      /\ wanted' \in SUBSET Files /\ wanted \subseteq wanted'
  BY DEF StartUpload, Attach, PlaceHold, ReleaseHold, RequestDeletion, ExpireUnattached, FileInv, FileTypeOK
<1>1. file \in [Files -> FileRow] /\ file[f] \in FileRow /\ upload \in [Files -> UploadStage]
  BY DEF FileInv, FileTypeOK, FileRow, UploadStage
<1>2. ASSUME NEW row \in FileRow, file' = [file EXCEPT ![f] = row], upload' \in [Files -> UploadStage]
      PROVE  FileTypeOK'
  BY <1>0, <1>1, <1>2 DEF FileInv, FileTypeOK, FileRow, UploadStage
<1>3. ASSUME NEW k \in UploadKeys, NEW attach \in BOOLEAN, StartUpload(f, k, attach)
      PROVE  FileInv'
  <2> DEFINE row == [file[f] EXCEPT !.status = "UPLOADING", !.key = k, !.attached = attach]
  <2>1. file' = [file EXCEPT ![f] = row] /\ upload' = [upload EXCEPT ![f] = "receiving"] /\ file[f].status = "none"
    BY <1>1, <1>3 DEF StartUpload, UploadAt
  <2>2. row \in FileRow /\ row.status = "UPLOADING" /\ row.hold = file[f].hold
    BY <1>1 DEF FileRow, FileStatus
  <2> HIDE DEF row
  <2>3. upload' \in [Files -> UploadStage] /\ upload'[f] = "receiving" /\ \A g \in Files : g # f => upload'[g] = upload[g]
    BY <1>1, <2>1 DEF UploadStage
  <2>4. f \notin late /\ row.hold # "active"
    BY <2>1, <2>2 DEF FileInv, LateUploads, KeptFiles, Held
  <2>5. FileTypeOK'
    BY <1>2, <2>1, <2>2, <2>3
  <2> QED BY <1>0, <2>1, <2>2, <2>3, <2>4, <2>5, FileMoves
<1>4. ASSUME NEW row \in FileRow, file' = [file EXCEPT ![f] = row], upload' = upload,
             file[f].status = "AVAILABLE" \/ row.status = file[f].status,
             row.status = "AVAILABLE" => file[f].status = "AVAILABLE",
             row.status \in {"AVAILABLE", "DELETING", file[f].status},
             row.hold = "active" => row.status = "AVAILABLE",
             row.attached /\ row.status \in {"DELETING", "DELETED"} => f \in wanted'
      PROVE  FileInv'
  <2>1. FileTypeOK'
    BY <1>1, <1>2, <1>4
  <2>2. upload[f] \in {"receiving", "stored"} => row.status = "UPLOADING" /\ f \notin late /\ (upload[f] = "stored" => f \in object)
    BY <1>4 DEF FileInv, StillUploading, Uploading
  <2>3. f \in late => row.status \in {"UPLOADING", "FAILED", "REJECTED"}
    BY <1>4 DEF FileInv, LateUploads
  <2>4. upload[f] # "none" /\ row.status \in {"AVAILABLE", "DELETING", "DELETED"} => f \in unanswered
    BY <1>4 DEF FileInv, OnlyUnanswered
  <2>5. (row.status = "AVAILABLE" => f \in object \cup unanswered) /\ (row.status = "DELETED" => f \notin object)
    BY <1>4 DEF FileInv, AvailableHasObject, DeletedIsGone
  <2> QED BY <1>0, <1>4, <2>1, <2>2, <2>3, <2>4, <2>5, FileMoves
<1>5. CASE Attach(f)
  <2> DEFINE row == [file[f] EXCEPT !.attached = TRUE]
  <2>1. file' = [file EXCEPT ![f] = row] /\ upload' = upload /\ file[f].status \in {"UPLOADING", "AVAILABLE"}
    BY <1>1, <1>5 DEF Attach
  <2>2. row \in FileRow /\ row.status = file[f].status /\ row.hold = file[f].hold
    BY <1>1 DEF FileRow
  <2> HIDE DEF row
  <2>3. row.hold = "active" => row.status = "AVAILABLE"
    BY <2>2 DEF FileInv, KeptFiles, Held
  <2> QED BY <1>4, <2>1, <2>2, <2>3
<1>6. CASE PlaceHold(f) \/ ReleaseHold(f)
  <2> DEFINE h   == IF PlaceHold(f) THEN "active" ELSE "released"
             row == [file[f] EXCEPT !.hold = h]
  <2>1. file' = [file EXCEPT ![f] = row] /\ upload' = upload /\ wanted' = wanted
    BY <1>1, <1>6 DEF PlaceHold, ReleaseHold
  <2>2. h \in {"active", "released"} /\ (h = "active" => file[f].status = "AVAILABLE")
    BY DEF PlaceHold
  <2> HIDE DEF h
  <2>3. row \in FileRow /\ row.status = file[f].status /\ row.hold = h /\ row.attached = file[f].attached
    BY <1>1, <2>2 DEF FileRow
  <2> HIDE DEF row
  <2>4. row.attached /\ row.status \in {"DELETING", "DELETED"} => f \in wanted'
    BY <2>1, <2>3 DEF FileInv, KeptFiles
  <2> QED BY <1>4, <2>1, <2>2, <2>3, <2>4
<1>7. CASE RequestDeletion(f) \/ ExpireUnattached(f)
  <2> DEFINE row == [file[f] EXCEPT !.status = "DELETING"]
  <2>1. /\ file' = [file EXCEPT ![f] = row] /\ upload' = upload /\ file[f].status = "AVAILABLE" /\ file[f].hold # "active"
        /\ file[f].attached => f \in wanted'
    BY <1>1, <1>7 DEF RequestDeletion, ExpireUnattached, Orphan, Held, Status
  <2>2. row \in FileRow /\ row.status = "DELETING" /\ row.hold = file[f].hold /\ row.attached = file[f].attached
    BY <1>1 DEF FileRow, FileStatus
  <2> HIDE DEF row
  <2> QED BY <1>4, <2>1, <2>2
<1> QED BY <1>3, <1>5, <1>6, <1>7

\* the statements that settle an upload
LEMMA FileSettles ==
    ASSUME FileInv, NEW f \in Files, CompleteUpload(f) \/ RefuseUpload(f)
    PROVE  FileInv'
<1>1. CASE file' = file /\ unanswered' = unanswered
  BY <1>1, FileUploads
<1>2. CASE ~ (file' = file /\ unanswered' = unanswered)
  <2>0. UNCHANGED <<object, late, overdue, leased, cleaner, wanted>>
    BY DEF CompleteUpload, RefuseUpload
  <2>1. file[f] \in FileRow /\ file \in [Files -> FileRow] /\ upload \in [Files -> UploadStage]
    BY DEF FileInv, FileTypeOK, FileRow, UploadStage
  <2>2. PICK s \in {"AVAILABLE", "FAILED", "REJECTED"}, u \in {"none", "abandoning", "forgetting"} :
           /\ file' = [file EXCEPT ![f].status = s]
           /\ upload' = [upload EXCEPT ![f] = u]
           /\ Uploading(f)
           /\ s = "AVAILABLE" => upload[f] = "stored" /\ (u # "none" => f \in unanswered')
    <3>1. CASE CompleteUpload(f)
      BY <1>2, <3>1 DEF CompleteUpload, Status, UploadAt
    <3>2. CASE RefuseUpload(f)
      BY <1>2, <3>2 DEF RefuseUpload, Status, UploadAt
    <3> QED BY <3>1, <3>2
  <2> DEFINE row == [file[f] EXCEPT !.status = s]
  <2>3. file' = [file EXCEPT ![f] = row] /\ row \in FileRow /\ row.status = s /\ row.hold = file[f].hold
    BY <2>1, <2>2 DEF FileRow, FileStatus
  <2> HIDE DEF row
  <2>4. upload'[f] = u /\ \A g \in Files : g # f => upload'[g] = upload[g]
    BY <2>1, <2>2
  <2>5. unanswered \subseteq unanswered' /\ unanswered' \in SUBSET Files /\ fileFaults' \in 0..MaxFileFaults
    BY ClaimsBounded DEF CompleteUpload, RefuseUpload, FileFault, FileInv, FileTypeOK
  <2>6. FileTypeOK'
    BY <2>0, <2>1, <2>2, <2>3, <2>5 DEF FileInv, FileTypeOK, FileRow, UploadStage
  <2>7. upload[f] = "stored" => f \notin late /\ f \in object
    BY DEF FileInv, StillUploading
  <2>8. file[f].hold # "active" /\ file[f].status = "UPLOADING"
    BY <2>2 DEF FileInv, KeptFiles, Held, Uploading
  <2>9. upload'[f] \notin {"receiving", "stored"}
    BY <2>4
  <2>10. f \in late => row.status \in {"UPLOADING", "FAILED", "REJECTED"}
    BY <2>2, <2>3, <2>7
  <2>11. upload'[f] # "none" /\ row.status \in {"AVAILABLE", "DELETING", "DELETED"} => f \in unanswered'
    BY <2>2, <2>3, <2>4
  <2>12. /\ row.status = "AVAILABLE" => f \in object \cup unanswered'
         /\ row.status \notin {"DELETING", "DELETED"}
         /\ row.hold # "active"
    BY <2>2, <2>3, <2>7, <2>8
  <2> QED BY <2>0, <2>3, <2>4, <2>5, <2>6, <2>8, <2>9, <2>10, <2>11, <2>12, FileMoves
<1> QED BY <1>1, <1>2

\* a lease outlasts what could still complete; the rest of time only allows more
LEMMA FileTime ==
    ASSUME FileInv, NEW f \in Files, Lapse(f) \/ Overdue(f) \/ LeaseLapses(f) \/ Reconcile(f)
    PROVE  FileInv'
<1>0. UNCHANGED <<file, upload, cleaner, wanted, unanswered>>
  BY DEF Lapse, Overdue, LeaseLapses, Reconcile
<1>1. /\ late' \in SUBSET Files /\ overdue' \in SUBSET Files /\ leased' \in SUBSET Files /\ object' \in SUBSET Files
      /\ fileFaults' \in 0..MaxFileFaults
  BY ClaimsBounded DEF Lapse, Overdue, LeaseLapses, Reconcile, FileFault, FileInv, FileTypeOK
<1>2. FileTypeOK'
  BY <1>0, <1>1 DEF FileInv, FileTypeOK
<1>3. \/ late' = late
      \/ late' = late \cup {f} /\ file[f].status = "UPLOADING" /\ upload[f] \notin {"receiving", "stored"}
  BY DEF Lapse, Overdue, LeaseLapses, Reconcile, Outlasted, Uploading
<1>4. \/ object' = object
      \/ object' = object \ {f} /\ file[f].status \in {"FAILED", "REJECTED", "DELETED"}
  BY DEF Lapse, Overdue, LeaseLapses, Reconcile
<1>5. StillUploading'
  BY <1>0, <1>3, <1>4 DEF FileInv, StillUploading, Uploading
<1>6. LateUploads' /\ CleanersClaim'
  BY <1>0, <1>3, <1>4 DEF FileInv, LateUploads, CleanersClaim
<1>7. AvailableHasObject' /\ DeletedIsGone'
  BY <1>0, <1>4 DEF FileInv, AvailableHasObject, DeletedIsGone
<1> QED BY <1>0, <1>2, <1>5, <1>6, <1>7 DEF FileInv, OnlyUnanswered, KeptFiles, Held

\* what a worker takes up, and puts down
LEMMA FileClaims ==
    ASSUME FileInv, NEW w \in Cleaners,
           \/ \E f \in Files : ClaimDeletion(w, f) \/ FindAbandoned(w, f)
           \/ DeleteObject(w) \/ RetryDeletion(w) \/ CleanerCrash(w)
    PROVE  FileInv'
<1>0. UNCHANGED <<upload, late, overdue, wanted, unanswered>>
  BY DEF ClaimDeletion, FindAbandoned, DeleteObject, RetryDeletion, CleanerCrash
<1>1. cleaner[w] \in CleanerRow /\ cleaner \in [Cleaners -> CleanerRow] /\ file \in [Files -> FileRow] /\ AtRestC \in CleanerRow
  BY ClaimsBounded DEF FileInv, FileTypeOK, CleanerRow, FileRow, AtRestC
<1>2. leased' \in SUBSET Files /\ object' \in SUBSET Files /\ fileFaults' \in 0..MaxFileFaults
  <2>1. fileFaults' \in 0..MaxFileFaults
    BY ClaimsBounded DEF ClaimDeletion, FindAbandoned, DeleteObject, RetryDeletion, CleanerCrash, FileFault, FileInv, FileTypeOK
  <2> QED BY <2>1 DEF ClaimDeletion, FindAbandoned, DeleteObject, RetryDeletion, CleanerCrash, FileInv, FileTypeOK
<1>3. /\ file' \in [Files -> FileRow]
      /\ \A g \in Files : /\ file'[g].status = file[g].status /\ file'[g].hold = file[g].hold
                          /\ file'[g].attached = file[g].attached
  <2>1. ASSUME NEW f \in Files, ClaimDeletion(w, f)
        PROVE  /\ file' \in [Files -> FileRow]
               /\ \A g \in Files : /\ file'[g].status = file[g].status /\ file'[g].hold = file[g].hold
                                   /\ file'[g].attached = file[g].attached
    <3> DEFINE row == [file[f] EXCEPT !.attempts = @ + 1]
    <3>1. file[f] \in FileRow /\ file[f].attempts \in 0..MaxClaims /\ file[f].attempts < MaxClaims
      BY <1>1, <2>1 DEF ClaimDeletion, FileRow
    <3>2. row \in FileRow /\ row.status = file[f].status /\ row.hold = file[f].hold /\ row.attached = file[f].attached
      BY <3>1, ClaimsBounded DEF FileRow
    <3>3. file' = [file EXCEPT ![f] = row]
      BY <1>1, <2>1 DEF ClaimDeletion
    <3> HIDE DEF row
    <3> QED BY <1>1, <3>2, <3>3
  <2>2. CASE file' = file
    BY <1>1, <2>2
  <2> QED BY <2>1, <2>2 DEF FindAbandoned, DeleteObject, RetryDeletion, CleanerCrash
<1> DEFINE Claims(row) ==
             /\ row \in CleanerRow
             /\ row.task # "idle" => row.file \in Files
             /\ row.task \in {"sweep", "fail"} => row.file \in late
             /\ row.task \in {"delete", "finish", "retry"} => file[row.file].status \in {"DELETING", "DELETED"}
             /\ row.task = "finish" => row.file \notin object'
           Removes == \/ object' = object
                      \/ /\ object' = object \ {cleaner[w].file}
                         /\ cleaner[w].task \in {"delete", "sweep"}
<1>4. Removes /\ \E row : cleaner' = [cleaner EXCEPT ![w] = row] /\ Claims(row)
  <2>1. CASE cleaner' = [cleaner EXCEPT ![w] = AtRestC] /\ object' = object
    <3>1. Claims(AtRestC)
      BY <1>1 DEF AtRestC
    <3> HIDE DEF Claims
    <3> QED BY <2>1, <3>1
  <2>2. ASSUME NEW f \in Files, ClaimDeletion(w, f)
        PROVE  Removes /\ \E row : cleaner' = [cleaner EXCEPT ![w] = row] /\ Claims(row)
    <3> DEFINE row == [task |-> "delete", file |-> f, attempt |-> file[f].attempts + 1]
    <3>1. file[f].attempts + 1 \in 0..MaxClaims
      BY <1>1, <2>2, ClaimsBounded DEF ClaimDeletion, FileRow
    <3>2. Claims(row)
      BY <2>2, <3>1 DEF ClaimDeletion, CleanerRow
    <3> QED BY <2>2, <3>2 DEF ClaimDeletion, Work
  <2>3. ASSUME NEW f \in Files, FindAbandoned(w, f)
        PROVE  Removes /\ \E row : cleaner' = [cleaner EXCEPT ![w] = row] /\ Claims(row)
    <3> DEFINE row == [task |-> "sweep", file |-> f, attempt |-> 0]
    <3>1. Claims(row)
      BY <2>3, ClaimsBounded DEF FindAbandoned, CleanerRow
    <3> QED BY <2>3, <3>1 DEF FindAbandoned, Work
  <2>4. ASSUME DeleteObject(w), NEW s \in {"finish", "fail", "retry"}, WorkAt(w, s),
               s = "fail" => cleaner[w].task = "sweep",
               s # "fail" => cleaner[w].task = "delete",
               object' = object \ {cleaner[w].file} \/ (object' = object /\ s = "retry")
        PROVE  Removes /\ \E row : cleaner' = [cleaner EXCEPT ![w] = row] /\ Claims(row)
    <3> DEFINE row == [cleaner[w] EXCEPT !.task = s]
    <3>1. row \in CleanerRow /\ row.task = s /\ row.file = cleaner[w].file
      BY <1>1 DEF CleanerRow
    <3>2. cleaner' = [cleaner EXCEPT ![w] = row]
      BY <1>1, <2>4 DEF WorkAt
    <3> HIDE DEF row
    <3>3. cleaner[w].file \in Files /\ (cleaner[w].task = "sweep" => cleaner[w].file \in late)
             /\ (cleaner[w].task = "delete" => file[cleaner[w].file].status \in {"DELETING", "DELETED"})
      BY <2>4 DEF FileInv, CleanersClaim
    <3> QED BY <2>4, <3>1, <3>2, <3>3
  <2>5. CASE DeleteObject(w)
    <3>1. CASE object' = object \ {cleaner[w].file} /\ WorkAt(w, IF cleaner[w].task = "delete" THEN "finish" ELSE "fail")
      BY <2>4, <2>5, <3>1 DEF DeleteObject
    <3>2. CASE object' = object /\ IF cleaner[w].task = "delete" THEN WorkAt(w, "retry") ELSE Rest(w)
      BY <2>1, <2>4, <2>5, <3>2 DEF DeleteObject, Rest
    <3> QED BY <2>5, <3>1, <3>2 DEF DeleteObject
  <2> QED BY <2>1, <2>2, <2>3, <2>5 DEF RetryDeletion, CleanerCrash, Rest
<1>5. PICK row : cleaner' = [cleaner EXCEPT ![w] = row] /\ Claims(row)
  BY <1>4
<1>6. \A v \in Cleaners : cleaner'[v] = IF v = w THEN row ELSE cleaner[v]
  BY <1>1, <1>5
<1>7. FileTypeOK'
  BY <1>0, <1>1, <1>2, <1>3, <1>5 DEF FileInv, FileTypeOK, FileRow, CleanerRow
<1>8. CleanersClaim'
  <2>1. \A v \in Cleaners : cleaner[v].task = "finish" => cleaner[v].file \notin object'
    BY <1>4 DEF FileInv, CleanersClaim
  <2> QED BY <1>0, <1>3, <1>5, <1>6, <2>1 DEF FileInv, CleanersClaim
<1>9. object' # object => cleaner[w].file \in Files /\ file[cleaner[w].file].status \in {"DELETING", "DELETED", "UPLOADING", "FAILED", "REJECTED"}
                             /\ upload[cleaner[w].file] # "stored"
  BY <1>4 DEF FileInv, CleanersClaim, LateUploads, StillUploading, Uploading
<1>10. AvailableHasObject' /\ DeletedIsGone'
  BY <1>0, <1>3, <1>4, <1>9 DEF FileInv, AvailableHasObject, DeletedIsGone
<1>11. StillUploading'
  BY <1>0, <1>3, <1>4, <1>9 DEF FileInv, StillUploading, Uploading
<1>12. LateUploads' /\ OnlyUnanswered' /\ KeptFiles'
  BY <1>0, <1>3 DEF FileInv, FileTypeOK, LateUploads, OnlyUnanswered, KeptFiles, Held
<1> QED BY <1>7, <1>8, <1>10, <1>11, <1>12 DEF FileInv

\* whoever removed the bytes finishes the row, and a row abandoned is failed
LEMMA FileFinishes ==
    ASSUME FileInv, NEW w \in Cleaners, CompleteDeletion(w) \/ FailAbandoned(w)
    PROVE  FileInv'
<1> DEFINE f == cleaner[w].file
<1>0. UNCHANGED <<object, upload, late, overdue, wanted, unanswered, fileFaults>>
  BY DEF CompleteDeletion, FailAbandoned
<1>1. cleaner \in [Cleaners -> CleanerRow] /\ file \in [Files -> FileRow] /\ AtRestC \in CleanerRow
  BY ClaimsBounded DEF FileInv, FileTypeOK, CleanerRow, FileRow, AtRestC
<1>2. f \in Files /\ file[f] \in FileRow /\ (cleaner[w].task = "finish" => f \notin object)
  BY <1>1 DEF FileInv, CleanersClaim, CompleteDeletion, FailAbandoned
<1>3. cleaner' = [cleaner EXCEPT ![w] = AtRestC]
  BY DEF CompleteDeletion, FailAbandoned, Rest
<1>4. leased' \in SUBSET Files
  BY DEF CompleteDeletion, FailAbandoned, FileInv, FileTypeOK
<1>5. \/ file' = file
      \/ \E s \in {"DELETED", "FAILED"} :
            /\ file' = [file EXCEPT ![f].status = s]
            /\ s = "DELETED" => file[f].status = "DELETING" /\ f \notin object
            /\ s = "FAILED" => file[f].status = "UPLOADING" /\ f \in late
  <2>1. CASE CompleteDeletion(w)
    BY <1>2, <2>1 DEF CompleteDeletion, Status
  <2>2. CASE FailAbandoned(w)
    BY <1>2, <2>2 DEF FailAbandoned, Abandoned, Uploading, Status
  <2> QED BY <2>1, <2>2
<1> HIDE DEF f
<1>6. /\ file' \in [Files -> FileRow]
      /\ \A g \in Files :
            /\ file'[g].hold = file[g].hold /\ file'[g].attached = file[g].attached
            /\ \/ file'[g].status = file[g].status
               \/ file'[g].status = "DELETED" /\ file[g].status = "DELETING" /\ g \notin object
               \/ file'[g].status = "FAILED" /\ file[g].status = "UPLOADING" /\ g \in late
  <2>1. CASE file' = file
    BY <1>1, <2>1
  <2>2. ASSUME NEW s \in {"DELETED", "FAILED"},
               file' = [file EXCEPT ![f].status = s],
               s = "DELETED" => file[f].status = "DELETING" /\ f \notin object,
               s = "FAILED" => file[f].status = "UPLOADING" /\ f \in late
        PROVE  /\ file' \in [Files -> FileRow]
               /\ \A g \in Files :
                     /\ file'[g].hold = file[g].hold /\ file'[g].attached = file[g].attached
                     /\ \/ file'[g].status = file[g].status
                        \/ file'[g].status = "DELETED" /\ file[g].status = "DELETING" /\ g \notin object
                        \/ file'[g].status = "FAILED" /\ file[g].status = "UPLOADING" /\ g \in late
    <3> DEFINE row == [file[f] EXCEPT !.status = s]
    <3>1. row \in FileRow /\ row.status = s /\ row.hold = file[f].hold /\ row.attached = file[f].attached
      BY <1>2 DEF FileRow, FileStatus
    <3>2. file' = [file EXCEPT ![f] = row]
      BY <1>1, <1>2, <2>2
    <3> HIDE DEF row
    <3>3. \A g \in Files : file'[g] = IF g = f THEN row ELSE file[g]
      BY <1>1, <3>2
    <3>4. file' \in [Files -> FileRow]
      BY <1>1, <3>1, <3>2
    <3> QED BY <2>2, <3>1, <3>3, <3>4
  <2> QED BY <1>5, <2>1, <2>2
<1>7. FileTypeOK'
  <2>1. cleaner' \in [Cleaners -> CleanerRow]
    BY <1>1, <1>3
  <2> QED BY <1>0, <1>4, <1>6, <2>1 DEF FileInv, FileTypeOK, FileRow, CleanerRow
<1>8. StillUploading'
  BY <1>0, <1>6 DEF FileInv, StillUploading, Uploading
<1>9. LateUploads'
  BY <1>0, <1>6 DEF FileInv, FileTypeOK, LateUploads
<1>13. OnlyUnanswered'
  BY <1>0, <1>6 DEF FileInv, OnlyUnanswered
<1>10. CleanersClaim'
  <2>1. \A v \in Cleaners : cleaner'[v] = IF v = w THEN AtRestC ELSE cleaner[v]
    BY <1>1, <1>3
  <2>2. AtRestC.task = "idle"
    BY DEF AtRestC
  <2> QED BY <1>0, <1>6, <2>1, <2>2 DEF FileInv, CleanersClaim
<1>11. AvailableHasObject' /\ DeletedIsGone'
  BY <1>0, <1>6 DEF FileInv, AvailableHasObject, DeletedIsGone
<1>12. KeptFiles'
  BY <1>0, <1>6 DEF FileInv, KeptFiles, Held, LateUploads
<1> QED BY <1>7, <1>8, <1>9, <1>10, <1>11, <1>12, <1>13 DEF FileInv

LEMMA FileStep ==
    FileInv /\ [FileNext]_fileVars => FileInv'
<1> SUFFICES ASSUME FileInv, [FileNext]_fileVars
             PROVE  FileInv'
  OBVIOUS
<1>1. CASE UNCHANGED fileVars
  BY <1>1 DEF fileVars, FileInv, FileTypeOK, StillUploading, LateUploads, OnlyUnanswered, CleanersClaim,
              AvailableHasObject, DeletedIsGone, KeptFiles, Held, Uploading
<1>2. ASSUME NEW f \in Files, UploadStep(f) \/ PutTimesOut(f) \/ UploadCrash(f)
      PROVE  FileInv'
  BY <1>2, FileUploads, FileSettles DEF UploadStep
<1>3. ASSUME NEW w \in Cleaners, Clean(w) \/ CleanerCrash(w)
      PROVE  FileInv'
  BY <1>3, FileClaims, FileFinishes DEF Clean
<1> QED BY <1>1, <1>2, <1>3, FileRequests, FileTime DEF FileNext

-----------------------------------------------------------------------------
(* Download tickets: a reservation is of one redemption until it is        *)
(* released, which only the redemption that answered nobody does, and the  *)
(* redemptions of a reusable ticket are counted when they claim it.        *)

LinkRow   == [made : BOOLEAN, single : BOOLEAN, viaGrant : BOOLEAN, revoked : BOOLEAN, uses : 0..MaxDownloads,
              redemption : {"none", "reserved", "committed", "uncertain"}, lease : Redemptions \cup {"none"}]
RedeemRow == [step : {"idle", "opening", "streaming", "completed", "cut", "ended"},
              link : Links \cup {"none"}, headers : BOOLEAN]

\* the redemptions that claimed a ticket, and those that still hold the process for it
Claimed(t) == {r \in Redemptions : redeem[r].link = t}
Redeeming(r) == redeem[r].step \notin {"idle", "ended"}

\* a redemption is of a ticket that was issued, and is answered after it claimed it
RedemptionsOfLinks ==
    /\ \A r \in Redemptions : /\ redeem[r].step = "idle" => redeem[r].link = "none"
                              /\ Redeeming(r) => redeem[r].link \in Links
                              /\ redeem[r].link \in Links => link[redeem[r].link].made = TRUE
    /\ \A t \in Links : \A r \in sent[t] : redeem[r].link = t /\ redeem[r].headers = TRUE

\* a single-use ticket is leased to the redemption that is going on, and to the one it answered
LeasedToOne ==
    \A t \in Links :
       /\ link[t].redemption # "none" => link[t].single = TRUE
       /\ link[t].single = TRUE =>
             /\ \A r \in Claimed(t) : Redeeming(r) => link[t].lease = r /\ link[t].redemption # "none"
             /\ \A r \in sent[t] : link[t].lease = r /\ link[t].redemption # "none"

\* a reusable ticket has counted every redemption that claimed it
ClaimsCounted ==
    \A t \in Links : link[t].single = FALSE =>
       IsFiniteSet(Claimed(t)) /\ Cardinality(Claimed(t)) <= link[t].uses

LinkInv == LinkTypeOK /\ RedemptionsOfLinks /\ LeasedToOne /\ ClaimsCounted

LEMMA LinkTypes ==
    LinkInv => /\ link \in [Links -> LinkRow] /\ redeem \in [Redemptions -> RedeemRow]
               /\ sent \in [Links -> SUBSET Redemptions]
               /\ available \in BOOLEAN /\ granted \in BOOLEAN
               /\ past \in SUBSET Links /\ leaseOver \in SUBSET Links
               /\ linkFaults \in 0..MaxLinkFaults
  BY DEF LinkInv, LinkTypeOK, LinkRow, RedeemRow

LEMMA LinkTyped ==
    ASSUME link \in [Links -> LinkRow], redeem \in [Redemptions -> RedeemRow],
           sent \in [Links -> SUBSET Redemptions],
           available \in BOOLEAN, granted \in BOOLEAN, past \in SUBSET Links, leaseOver \in SUBSET Links,
           linkFaults \in 0..MaxLinkFaults
    PROVE  LinkTypeOK
  BY DEF LinkTypeOK, LinkRow, RedeemRow

LEMMA LinksInitially ==
    NoLinks /\ available = TRUE /\ linkFaults = 0 => LinkInv
<1> SUFFICES ASSUME NoLinks, available = TRUE, linkFaults = 0
             PROVE  LinkInv
  OBVIOUS
<1>1. NoLink \in LinkRow /\ NotRedeeming \in RedeemRow
  BY SlotsExist DEF NoLink, NotRedeeming, LinkRow, RedeemRow
<1>2. LinkTypeOK
  BY <1>1, LinkFaultsAreBounded, LinkTyped DEF NoLinks
<1>3. \A r \in Redemptions : redeem[r].step = "idle" /\ redeem[r].link = "none"
  BY DEF NoLinks, NotRedeeming
<1>4. \A t \in Links : link[t].redemption = "none" /\ link[t].single = FALSE /\ link[t].uses = 0 /\ sent[t] = {}
  BY DEF NoLinks, NoLink
<1>5. \A t \in Links : Claimed(t) = {}
  BY <1>3, NoneIsNoLink DEF Claimed
<1>6. RedemptionsOfLinks /\ LeasedToOne
  BY <1>3, <1>4, NoneIsNoLink DEF RedemptionsOfLinks, LeasedToOne, Redeeming
<1>7. ClaimsCounted
  BY <1>4, <1>5, FS_EmptySet DEF ClaimsCounted
<1> QED BY <1>2, <1>6, <1>7 DEF LinkInv

\* what happens to the row of a ticket while its redemptions stay where they are
SameRow(old, new) ==
    /\ new.made = old.made /\ new.single = old.single
    /\ new.uses = old.uses /\ new.redemption = old.redemption /\ new.lease = old.lease
Issued(old, new) == old.made = FALSE /\ new.redemption = "none"
Uncertain(old, new) ==
    /\ new.made = old.made /\ new.single = old.single /\ new.lease = old.lease
    /\ old.redemption = "reserved" /\ new.redemption = "uncertain"

LEMMA RowsMove ==
    ASSUME LinkInv, NEW rows \in [Links -> LinkRow], link' = rows, UNCHANGED <<redeem, sent>>,
           \A t \in Links : SameRow(link[t], rows[t]) \/ Issued(link[t], rows[t]) \/ Uncertain(link[t], rows[t])
    PROVE  RedemptionsOfLinks' /\ LeasedToOne' /\ ClaimsCounted'
<1>1. \A t \in Links : Claimed(t)' = Claimed(t)
  BY DEF Claimed
<1>2. \A r \in Redemptions : Redeeming(r)' <=> Redeeming(r)
  BY DEF Redeeming
<1>3. ASSUME NEW t \in Links, link[t].made = FALSE
      PROVE  Claimed(t) = {} /\ sent[t] = {}
  BY <1>3, LinkTypes DEF LinkInv, RedemptionsOfLinks, Claimed
<1>4. \A t \in Links : link[t].made = TRUE => rows[t].made = TRUE
  BY DEF SameRow, Issued, Uncertain
<1>5. RedemptionsOfLinks'
  BY <1>2, <1>4 DEF LinkInv, RedemptionsOfLinks
<1>6. LeasedToOne'
  <2> SUFFICES ASSUME NEW t \in Links
               PROVE  /\ rows[t].redemption # "none" => rows[t].single = TRUE
                      /\ rows[t].single = TRUE =>
                            /\ \A r \in Claimed(t) : Redeeming(r) => rows[t].lease = r /\ rows[t].redemption # "none"
                            /\ \A r \in sent[t] : rows[t].lease = r /\ rows[t].redemption # "none"
    BY <1>1, <1>2 DEF LeasedToOne, Claimed
  <2>1. CASE SameRow(link[t], rows[t])
    BY <2>1 DEF SameRow, LinkInv, LeasedToOne
  <2>2. CASE Issued(link[t], rows[t])
    BY <2>2, <1>3 DEF Issued
  <2>3. CASE Uncertain(link[t], rows[t])
    BY <2>3 DEF Uncertain, LinkInv, LeasedToOne
  <2> QED BY <2>1, <2>2, <2>3
<1>7. ClaimsCounted'
  <2> SUFFICES ASSUME NEW t \in Links, rows[t].single = FALSE
               PROVE  IsFiniteSet(Claimed(t)) /\ Cardinality(Claimed(t)) <= rows[t].uses
    BY <1>1 DEF ClaimsCounted
  <2>1. CASE SameRow(link[t], rows[t])
    BY <2>1 DEF SameRow, LinkInv, ClaimsCounted
  <2>2. CASE Issued(link[t], rows[t])
    <3>1. Claimed(t) = {}
      BY <2>2, <1>3 DEF Issued
    <3>2. rows[t].uses \in 0..MaxDownloads
      BY DEF LinkRow
    <3>3. IsFiniteSet({}) /\ Cardinality({}) = 0
      BY FS_EmptySet
    <3> QED BY <3>1, <3>2, <3>3
  <2>3. CASE Uncertain(link[t], rows[t])
    BY <2>3 DEF Uncertain, LinkInv, LeasedToOne
  <2> QED BY <2>1, <2>2, <2>3
<1> QED BY <1>5, <1>6, <1>7

LEMMA RowsRevoked ==
    ASSUME LinkInv, NEW S, RevokeLinks(S)
    PROVE  link' \in [Links -> LinkRow] /\ \A t \in Links : SameRow(link[t], link'[t])
<1>1. \A t \in Links : link[t] \in LinkRow
  BY LinkTypes
<1>2. ASSUME NEW t \in Links
      PROVE  link'[t] \in LinkRow /\ SameRow(link[t], link'[t])
  <2> DEFINE row == [link[t] EXCEPT !.revoked = TRUE]
  <2>1. row \in LinkRow
    BY <1>1 DEF LinkRow
  <2>2. row.made = link[t].made /\ row.single = link[t].single /\ row.uses = link[t].uses
           /\ row.redemption = link[t].redemption /\ row.lease = link[t].lease
    BY <1>1 DEF LinkRow
  <2>3. link'[t] = IF t \in S THEN row ELSE link[t]
    BY DEF RevokeLinks
  <2> HIDE DEF row
  <2> QED BY <1>1, <2>1, <2>2, <2>3 DEF SameRow
<1>3. link' = [t \in Links |-> link'[t]]
  BY DEF RevokeLinks
<1> QED BY <1>2, <1>3

\* issuing, revoking, purging and what time does, with a lease that ran out settled as uncertain
LEMMA LinkRows ==
    ASSUME LinkInv,
           \/ \E t \in Links, single, viaGrant \in BOOLEAN : IssueLink(t, single, viaGrant)
           \/ \E t \in Links : RevokeLink(t) \/ LinkExpires(t) \/ LeaseOver(t) \/ PurgeLink(t) \/ SettleExpired(t)
           \/ RevokeGrant \/ DeleteFile
    PROVE  LinkInv'
<1>0. UNCHANGED <<redeem, sent, linkFaults>>
  BY DEF IssueLink, RevokeLink, LinkExpires, LeaseOver, PurgeLink, SettleExpired, RevokeGrant, DeleteFile
<1>1. available' \in BOOLEAN /\ granted' \in BOOLEAN /\ past' \in SUBSET Links /\ leaseOver' \in SUBSET Links
  BY LinkTypes DEF IssueLink, RevokeLink, LinkExpires, LeaseOver, PurgeLink, SettleExpired, RevokeGrant, DeleteFile
<1>2. link \in [Links -> LinkRow] /\ \A t \in Links : link[t] \in LinkRow
  BY LinkTypes
<1>3. /\ link' \in [Links -> LinkRow]
      /\ \A t \in Links : SameRow(link[t], link'[t]) \/ Issued(link[t], link'[t]) \/ Uncertain(link[t], link'[t])
  <2>1. CASE link' = link
    BY <1>2, <2>1 DEF SameRow
  <2>2. ASSUME NEW t \in Links, NEW single \in BOOLEAN, NEW viaGrant \in BOOLEAN, IssueLink(t, single, viaGrant)
        PROVE  /\ link' \in [Links -> LinkRow]
               /\ \A u \in Links : SameRow(link[u], link'[u]) \/ Issued(link[u], link'[u]) \/ Uncertain(link[u], link'[u])
    <3> DEFINE row == [NoLink EXCEPT !.made = TRUE, !.single = single, !.viaGrant = viaGrant]
    <3>1. row \in LinkRow /\ row.redemption = "none"
      <4>1. 0 \in 0..MaxDownloads
        BY SlotsExist
      <4>2. NoLink \in LinkRow /\ NoLink.redemption = "none"
        BY <4>1 DEF NoLink, LinkRow
      <4> QED BY <4>2 DEF LinkRow
    <3>2. link' = [link EXCEPT ![t] = row] /\ ~link[t].made
      BY <2>2 DEF IssueLink
    <3> HIDE DEF row
    <3>3. link[t].made = FALSE
      BY <1>2, <3>2 DEF LinkRow
    <3>4. \A u \in Links : link'[u] = IF u = t THEN row ELSE link[u]
      BY <1>2, <3>2
    <3>5. link' \in [Links -> LinkRow]
      BY <1>2, <3>1, <3>2
    <3> QED BY <3>1, <3>3, <3>4, <3>5 DEF Issued, SameRow
  <2>3. ASSUME NEW S, RevokeLinks(S)
        PROVE  /\ link' \in [Links -> LinkRow]
               /\ \A u \in Links : SameRow(link[u], link'[u]) \/ Issued(link[u], link'[u]) \/ Uncertain(link[u], link'[u])
    BY <2>3, RowsRevoked
  <2>4. ASSUME NEW t \in Links, SettleExpired(t)
        PROVE  /\ link' \in [Links -> LinkRow]
               /\ \A u \in Links : SameRow(link[u], link'[u]) \/ Issued(link[u], link'[u]) \/ Uncertain(link[u], link'[u])
    <3> DEFINE row == [link[t] EXCEPT !.redemption = "uncertain", !.uses = 1]
    <3>1. row \in LinkRow
      <4>1. 1 \in 0..MaxDownloads
        BY SlotsExist
      <4> QED BY <1>2, <4>1 DEF LinkRow
    <3>2. row.redemption = "uncertain" /\ row.made = link[t].made /\ row.single = link[t].single /\ row.lease = link[t].lease
      BY <1>2 DEF LinkRow
    <3>3. link' = [link EXCEPT ![t] = row] /\ link[t].redemption = "reserved"
      BY <1>2, <2>4 DEF SettleExpired, Settleable
    <3> HIDE DEF row
    <3>4. \A u \in Links : link'[u] = IF u = t THEN row ELSE link[u]
      BY <1>2, <3>3
    <3>5. link' \in [Links -> LinkRow]
      BY <1>2, <3>1, <3>3
    <3> QED BY <3>2, <3>3, <3>4, <3>5 DEF Uncertain, SameRow
  <2> QED BY <2>1, <2>2, <2>3, <2>4 DEF RevokeLink, LinkExpires, LeaseOver, PurgeLink, RevokeGrant, DeleteFile
<1>4. PICK rows \in [Links -> LinkRow] :
         /\ link' = rows
         /\ \A t \in Links : SameRow(link[t], rows[t]) \/ Issued(link[t], rows[t]) \/ Uncertain(link[t], rows[t])
  BY <1>3
<1>5. LinkTypeOK'
  BY <1>0, <1>1, <1>4, LinkTypes DEF LinkTypeOK, LinkRow, RedeemRow
<1> QED BY <1>0, <1>4, <1>5, RowsMove DEF LinkInv

\* a claim takes a ticket nobody holds, or counts a use
LEMMA LinkClaims ==
    ASSUME LinkInv, NEW r \in Redemptions, NEW t \in Links, ClaimLink(r, t)
    PROVE  LinkInv'
<1>0. UNCHANGED <<available, granted, past, sent, linkFaults>> /\ leaseOver' \in SUBSET Links
  BY LinkTypes DEF ClaimLink
<1>1. /\ link[t] \in LinkRow /\ link \in [Links -> LinkRow] /\ redeem \in [Redemptions -> RedeemRow]
      /\ link[t].made = TRUE /\ redeem[r].link = "none" /\ redeem[r].step = "idle"
  BY LinkTypes DEF ClaimLink, LinkRow, LinkInv, RedemptionsOfLinks
<1>2. /\ link[t].uses \in 0..MaxDownloads /\ link[t].uses < MaxDownloads
      /\ link[t].single = TRUE => link[t].redemption = "none"
  BY <1>1 DEF ClaimLink, Claimable, LinkRow
<1> DEFINE row == IF link[t].single THEN [link[t] EXCEPT !.redemption = "reserved", !.lease = r]
                                    ELSE [link[t] EXCEPT !.uses = link[t].uses + 1]
           mine == [step |-> "opening", link |-> t, headers |-> FALSE]
<1>3. link' = [link EXCEPT ![t] = row] /\ redeem' = [redeem EXCEPT ![r] = mine]
  BY <1>1 DEF ClaimLink
<1>4. row \in LinkRow /\ row.made = TRUE
  <2>1. [link[t] EXCEPT !.redemption = "reserved", !.lease = r] \in LinkRow
    BY <1>1 DEF LinkRow
  <2>2. link[t].uses + 1 \in 0..MaxDownloads
    BY <1>2, SlotsExist
  <2>3. [link[t] EXCEPT !.uses = link[t].uses + 1] \in LinkRow
    BY <1>1, <2>2 DEF LinkRow
  <2>4. row \in LinkRow
    BY <2>1, <2>3
  <2> QED BY <1>1, <2>4 DEF LinkRow
<1>5. CASE link[t].single = TRUE
  <2>1. row.single = TRUE /\ row.redemption = "reserved" /\ row.lease = r
    BY <1>1, <1>5 DEF LinkRow
  <2>2. mine \in RedeemRow /\ mine.link = t /\ mine.step = "opening"
    BY DEF RedeemRow
  <2> HIDE DEF row, mine
  <2>3. \A u \in Links : link'[u] = IF u = t THEN row ELSE link[u]
    BY <1>1, <1>3
  <2>4. \A q \in Redemptions : redeem'[q] = IF q = r THEN mine ELSE redeem[q]
    BY <1>1, <1>3
  <2>5. LinkTypeOK'
    BY <1>0, <1>1, <1>3, <1>4, <2>2, LinkTypes DEF LinkTypeOK, LinkRow, RedeemRow
  <2>6. \A u \in Links : r \notin sent[u]
    BY <1>1, NoneIsNoLink DEF LinkInv, RedemptionsOfLinks
  <2>7. sent \in [Links -> SUBSET Redemptions]
    BY LinkTypes
  <2>8. RedemptionsOfLinks'
    BY <1>0, <1>4, <2>2, <2>3, <2>4, <2>6, <2>7 DEF LinkInv, RedemptionsOfLinks, Redeeming
  <2>9. sent[t] = {} /\ \A q \in Redemptions : redeem[q].link = t => ~Redeeming(q)
    BY <1>2, <1>5, <2>7 DEF LinkInv, LeasedToOne, Claimed
  <2>10. LeasedToOne'
    BY <1>0, <2>1, <2>2, <2>3, <2>4, <2>9 DEF LinkInv, LeasedToOne, Claimed, Redeeming
  <2>11. ClaimsCounted'
    <3>1. \A u \in Links : u # t => Claimed(u)' = Claimed(u)
      BY <1>1, <2>2, <2>4, NoneIsNoLink DEF Claimed
    <3> QED BY <2>1, <2>3, <3>1 DEF LinkInv, ClaimsCounted
  <2> QED BY <2>5, <2>8, <2>10, <2>11 DEF LinkInv
<1>6. CASE link[t].single = FALSE
  <2>1. row.single = FALSE /\ row.redemption = link[t].redemption /\ row.uses = link[t].uses + 1
    BY <1>1, <1>6 DEF LinkRow
  <2>2. mine \in RedeemRow /\ mine.link = t /\ mine.step = "opening"
    BY DEF RedeemRow
  <2> HIDE DEF row, mine
  <2>3. \A u \in Links : link'[u] = IF u = t THEN row ELSE link[u]
    BY <1>1, <1>3
  <2>4. \A q \in Redemptions : redeem'[q] = IF q = r THEN mine ELSE redeem[q]
    BY <1>1, <1>3
  <2>5. LinkTypeOK'
    BY <1>0, <1>1, <1>3, <1>4, <2>2, LinkTypes DEF LinkTypeOK, LinkRow, RedeemRow
  <2>6. \A u \in Links : r \notin sent[u]
    BY <1>1, NoneIsNoLink DEF LinkInv, RedemptionsOfLinks
  <2>7. sent \in [Links -> SUBSET Redemptions]
    BY LinkTypes
  <2>8. RedemptionsOfLinks'
    BY <1>0, <1>4, <2>2, <2>3, <2>4, <2>6, <2>7 DEF LinkInv, RedemptionsOfLinks, Redeeming
  <2>9. LeasedToOne'
    BY <1>0, <1>6, <2>1, <2>2, <2>3, <2>4 DEF LinkInv, LeasedToOne, Claimed, Redeeming
  <2>10. \A u \in Links : u # t => Claimed(u)' = Claimed(u)
    BY <1>1, <2>2, <2>4, NoneIsNoLink DEF Claimed
  <2>11. Claimed(t)' = Claimed(t) \cup {r} /\ r \notin Claimed(t)
    BY <1>1, <2>2, <2>4, NoneIsNoLink DEF Claimed
  <2>12. IsFiniteSet(Claimed(t)) /\ Cardinality(Claimed(t)) \in Nat /\ Cardinality(Claimed(t)) <= link[t].uses
    BY <1>6, FS_CardinalityType DEF LinkInv, ClaimsCounted
  <2>13. IsFiniteSet(Claimed(t)') /\ Cardinality(Claimed(t)') = Cardinality(Claimed(t)) + 1
    BY <2>11, <2>12, FS_AddElement
  <2>14. IsFiniteSet(Claimed(t)') /\ Cardinality(Claimed(t)') <= row.uses
    BY <1>2, <2>1, <2>12, <2>13
  <2>15. ClaimsCounted'
    BY <2>1, <2>3, <2>10, <2>14 DEF LinkInv, ClaimsCounted
  <2> QED BY <2>5, <2>8, <2>9, <2>15 DEF LinkInv
<1> QED BY <1>1, <1>5, <1>6 DEF LinkRow

\* a redemption goes on: it keeps what it holds, or releases a ticket it answered nobody with
LEMMA RedemptionMoves ==
    ASSUME LinkInv, NEW r \in Redemptions, Redeeming(r), NEW t, t = redeem[r].link,
           NEW mine \in RedeemRow, redeem' = [redeem EXCEPT ![r] = mine],
           mine.link = t, mine.step # "idle", redeem[r].headers = TRUE => mine.headers = TRUE,
           NEW row \in LinkRow, link' = [link EXCEPT ![t] = row],
           row.made = link[t].made, row.single = link[t].single,
           row.single = FALSE => row.uses = link[t].uses,
           NEW answered \in SUBSET {r}, sent' = [sent EXCEPT ![t] = sent[t] \cup answered],
           answered # {} => mine.headers = TRUE,
           \/ row.lease = link[t].lease /\ (row.redemption = "none" <=> link[t].redemption = "none")
           \/ /\ row.redemption = "none" /\ mine.step = "ended" /\ answered = {}
              /\ link[t].lease = r /\ redeem[r].headers = FALSE,
           UNCHANGED <<available, granted, past, leaseOver>>, linkFaults' \in 0..MaxLinkFaults
    PROVE  LinkInv'
<1>1. /\ t \in Links /\ link[t] \in LinkRow /\ link[t].made = TRUE
      /\ link \in [Links -> LinkRow] /\ redeem \in [Redemptions -> RedeemRow] /\ sent \in [Links -> SUBSET Redemptions]
  BY LinkTypes DEF LinkInv, RedemptionsOfLinks
<1>2. \A u \in Links : link'[u] = IF u = t THEN row ELSE link[u]
  BY <1>1
<1>3. \A q \in Redemptions : redeem'[q] = IF q = r THEN mine ELSE redeem[q]
  BY <1>1
<1>4. \A u \in Links : sent'[u] = IF u = t THEN sent[t] \cup answered ELSE sent[u]
  BY <1>1
<1>5. \A u \in Links : Claimed(u)' = Claimed(u)
  BY <1>3 DEF Claimed
<1>6. \A q \in Redemptions : redeem'[q].link = redeem[q].link /\ (Redeeming(q)' => Redeeming(q))
  BY <1>3 DEF Redeeming
<1>7. LinkTypeOK'
  <2>1. sent' \in [Links -> SUBSET Redemptions]
    BY <1>1
  <2>2. link' \in [Links -> LinkRow] /\ redeem' \in [Redemptions -> RedeemRow]
    BY <1>1
  <2> QED BY <2>1, <2>2, LinkTypes DEF LinkTypeOK, LinkRow, RedeemRow
<1>8. RedemptionsOfLinks'
  <2>1. \A q \in Redemptions : redeem'[q].step = "idle" => redeem'[q].link = "none"
    BY <1>3 DEF LinkInv, RedemptionsOfLinks
  <2>2. \A q \in Redemptions : /\ Redeeming(q)' => redeem'[q].link \in Links
                               /\ redeem'[q].link \in Links => link'[redeem'[q].link].made = TRUE
    BY <1>1, <1>2, <1>6 DEF LinkInv, RedemptionsOfLinks
  <2>3. \A u \in Links : \A q \in sent'[u] : redeem'[q].link = u /\ redeem'[q].headers = TRUE
    BY <1>1, <1>3, <1>4 DEF LinkInv, RedemptionsOfLinks
  <2> QED BY <2>1, <2>2, <2>3 DEF RedemptionsOfLinks
<1>9. LeasedToOne'
  <2>1. ASSUME NEW u \in Links, u # t
        PROVE  /\ link'[u].redemption # "none" => link'[u].single = TRUE
               /\ link'[u].single = TRUE =>
                     /\ \A q \in Claimed(u)' : Redeeming(q)' => link'[u].lease = q /\ link'[u].redemption # "none"
                     /\ \A q \in sent'[u] : link'[u].lease = q /\ link'[u].redemption # "none"
    <3>1. link'[u] = link[u] /\ sent'[u] = sent[u] /\ Claimed(u)' = Claimed(u) /\ Claimed(u) \subseteq Redemptions
      BY <1>2, <1>4, <1>5, <2>1 DEF Claimed
    <3> QED BY <1>6, <3>1 DEF LinkInv, LeasedToOne
  <2>2. /\ link'[t].redemption # "none" => link'[t].single = TRUE
        /\ link'[t].single = TRUE =>
              /\ \A q \in Claimed(t)' : Redeeming(q)' => link'[t].lease = q /\ link'[t].redemption # "none"
              /\ \A q \in sent'[t] : link'[t].lease = q /\ link'[t].redemption # "none"
    <3>1. link'[t] = row /\ sent'[t] = sent[t] \cup answered /\ Claimed(t)' = Claimed(t) /\ Claimed(t) \subseteq Redemptions
      BY <1>1, <1>2, <1>4, <1>5 DEF Claimed
    <3>2. /\ link[t].redemption # "none" => link[t].single = TRUE
          /\ link[t].single = TRUE =>
                /\ \A q \in Claimed(t) : Redeeming(q) => link[t].lease = q /\ link[t].redemption # "none"
                /\ \A q \in sent[t] : link[t].lease = q /\ link[t].redemption # "none"
      BY <1>1 DEF LinkInv, LeasedToOne
    <3>3. r \in Claimed(t)
      BY DEF Claimed
    <3>4. CASE row.lease = link[t].lease /\ (row.redemption = "none" <=> link[t].redemption = "none")
      BY <1>6, <3>1, <3>2, <3>3, <3>4
    <3>5. CASE /\ row.redemption = "none" /\ mine.step = "ended" /\ answered = {}
               /\ link[t].lease = r /\ redeem[r].headers = FALSE
      <4>1. ~Redeeming(r)'
        BY <1>3, <3>5 DEF Redeeming
      <4>2. r \notin sent[t]
        BY <1>1, <3>5 DEF LinkInv, RedemptionsOfLinks
      <4> QED BY <1>6, <3>1, <3>2, <3>5, <4>1, <4>2
    <3> QED BY <3>4, <3>5
  <2> QED BY <1>1, <2>1, <2>2 DEF LeasedToOne
<1>10. ClaimsCounted'
  BY <1>2, <1>5 DEF LinkInv, ClaimsCounted
<1> QED BY <1>7, <1>8, <1>9, <1>10 DEF LinkInv

LEMMA RedemptionSteps ==
    ASSUME LinkInv, NEW r \in Redemptions, RedemptionStep(r) \/ RedemptionCrash(r)
    PROVE  LinkInv'
<1> DEFINE t == redeem[r].link
<1>0. UNCHANGED <<available, granted, past, leaseOver>>
  BY DEF RedemptionStep, RedemptionCrash, OpenFails, Stream, StreamEnds, Settle
<1>1. /\ Redeeming(r) /\ t \in Links /\ link[t] \in LinkRow /\ redeem[r] \in RedeemRow
      /\ link \in [Links -> LinkRow] /\ redeem \in [Redemptions -> RedeemRow] /\ sent \in [Links -> SUBSET Redemptions]
  <2>1. Redeeming(r)
    BY DEF RedemptionStep, RedemptionCrash, OpenFails, Stream, StreamEnds, Settle, Redeeming
  <2> QED BY <2>1, LinkTypes DEF LinkInv, RedemptionsOfLinks
<1>2. linkFaults' \in 0..MaxLinkFaults
  <2>1. linkFaults \in 0..MaxLinkFaults
    BY LinkTypes
  <2> QED BY <2>1, LinkFaultsAreBounded
          DEF RedemptionStep, RedemptionCrash, OpenFails, Stream, StreamEnds, Settle, LinkFault
<1>3. ASSUME NEW s \in {"streaming", "completed", "cut", "ended"}
      PROVE  LET mine == [redeem[r] EXCEPT !.step = s]
             IN  mine \in RedeemRow /\ mine.step = s /\ mine.link = t /\ mine.headers = redeem[r].headers
  BY <1>1 DEF RedeemRow
<1>4. ASSUME NEW s \in {"completed", "cut", "ended"}, redeem' = [redeem EXCEPT ![r].step = s],
             link' = link, sent' = sent
      PROVE  LinkInv'
  <2> DEFINE mine == [redeem[r] EXCEPT !.step = s]
  <2>1. mine \in RedeemRow /\ mine.step = s /\ mine.link = t /\ mine.headers = redeem[r].headers
    BY <1>3
  <2>2. redeem' = [redeem EXCEPT ![r] = mine]
    BY <1>1, <1>4
  <2> HIDE DEF mine, t
  <2>3. link' = [link EXCEPT ![t] = link[t]] /\ sent' = [sent EXCEPT ![t] = sent[t] \cup {}]
    BY <1>1, <1>4
  <2>4. mine.step # "idle" /\ {} \in SUBSET {r}
    BY <2>1
  <2>5. t = redeem[r].link
    BY DEF t
  <2> QED BY <1>0, <1>1, <1>2, <2>1, <2>2, <2>3, <2>4, <2>5, RedemptionMoves
<1>5. CASE Stream(r)
  <2> DEFINE mine == [redeem[r] EXCEPT !.step = "streaming", !.headers = TRUE]
  <2>1. mine \in RedeemRow /\ mine.step = "streaming" /\ mine.link = t /\ mine.headers = TRUE
    BY <1>1 DEF RedeemRow
  <2>2. redeem' = [redeem EXCEPT ![r] = mine] /\ link' = link /\ sent' = [sent EXCEPT ![t] = sent[t] \cup {r}]
    BY <1>1, <1>5 DEF Stream
  <2> HIDE DEF mine, t
  <2>3. link' = [link EXCEPT ![t] = link[t]]
    BY <1>1, <2>2
  <2>4. t = redeem[r].link
    BY DEF t
  <2> QED BY <1>0, <1>1, <1>2, <2>1, <2>2, <2>3, <2>4, RedemptionMoves
<1>6. CASE Settle(r) /\ link' # link
  <2> DEFINE mine == [redeem[r] EXCEPT !.step = "ended"]
             to   == Outcome(r)
             row  == IF to = "released" THEN [link[t] EXCEPT !.redemption = "none", !.lease = "none"]
                                        ELSE [link[t] EXCEPT !.redemption = to, !.uses = 1]
  <2>1. /\ link[t].single = TRUE /\ link[t].lease = r /\ link[t].redemption \in From(to)
        /\ link' = [link EXCEPT ![t] = row]
        /\ redeem' = [redeem EXCEPT ![r].step = "ended"] /\ sent' = sent
        /\ redeem[r].step \in {"completed", "cut"}
    BY <1>1, <1>6 DEF Settle, LinkRow
  <2>2. to \in {"committed", "uncertain", "released"} /\ (to = "released" => redeem[r].headers = FALSE)
    BY <1>1 DEF Outcome, RedeemRow
  <2>3. link[t].redemption # "none"
    BY <2>1, <2>2 DEF From
  <2>4. mine \in RedeemRow /\ mine.step = "ended" /\ mine.link = t /\ mine.headers = redeem[r].headers
    BY <1>3
  <2>5. redeem' = [redeem EXCEPT ![r] = mine] /\ sent' = [sent EXCEPT ![t] = sent[t] \cup {}]
    BY <1>1, <2>1
  <2> HIDE DEF mine, to
  <2>6. 1 \in 0..MaxDownloads
    BY SlotsExist
  <2>7. row \in LinkRow
    BY <1>1, <2>2, <2>6 DEF LinkRow
  <2>8. row.made = link[t].made /\ row.single = link[t].single
    BY <1>1 DEF LinkRow
  <2>9. \/ to = "released" /\ row.redemption = "none"
        \/ to # "released" /\ row.redemption = to /\ row.lease = link[t].lease
    BY <1>1 DEF LinkRow
  <2> HIDE DEF row, t
  <2>10. row.single # FALSE
    BY <2>1, <2>8
  <2>11. \/ row.lease = link[t].lease /\ (row.redemption = "none" <=> link[t].redemption = "none")
         \/ row.redemption = "none" /\ redeem[r].headers = FALSE
    BY <2>2, <2>3, <2>9
  <2>12. t = redeem[r].link /\ mine.step # "idle" /\ {} \in SUBSET {r}
    BY <2>4 DEF t
  <2>13. \/ row.lease = link[t].lease /\ (row.redemption = "none" <=> link[t].redemption = "none")
         \/ /\ row.redemption = "none" /\ mine.step = "ended" /\ {} = {}
            /\ link[t].lease = r /\ redeem[r].headers = FALSE
    BY <2>1, <2>4, <2>11
  <2>14. /\ redeem[r].headers = TRUE => mine.headers = TRUE
         /\ row.single = FALSE => row.uses = link[t].uses
         /\ {} # {} => mine.headers = TRUE
    BY <2>4, <2>10
  <2>15. link' = [link EXCEPT ![t] = row]
    BY <2>1
  <2> QED BY <1>0, <1>1, <1>2, <2>4, <2>5, <2>7, <2>8, <2>12, <2>13, <2>14, <2>15, RedemptionMoves
<1>7. CASE link' = link /\ ~Stream(r)
  <2>1. sent' = sent /\ \E s \in {"completed", "cut", "ended"} : redeem' = [redeem EXCEPT ![r].step = s]
    BY <1>7 DEF RedemptionStep, RedemptionCrash, OpenFails, StreamEnds, Settle
  <2> QED BY <1>4, <1>7, <2>1
<1>8. Settle(r) \/ link' = link
  BY DEF RedemptionStep, RedemptionCrash, OpenFails, Stream, StreamEnds
<1> QED BY <1>5, <1>6, <1>7, <1>8

LEMMA LinkStep ==
    LinkInv /\ [LinkNext]_linkVars => LinkInv'
<1> SUFFICES ASSUME LinkInv, [LinkNext]_linkVars
             PROVE  LinkInv'
  OBVIOUS
<1>1. CASE UNCHANGED linkVars
  <2>1. \A t \in Links : Claimed(t)' = Claimed(t)
    BY <1>1 DEF linkVars, Claimed
  <2>2. LinkTypeOK'
    BY <1>1 DEF linkVars, LinkInv, LinkTypeOK
  <2>3. RedemptionsOfLinks'
    BY <1>1 DEF linkVars, LinkInv, RedemptionsOfLinks, Redeeming
  <2>4. LeasedToOne'
    BY <1>1, <2>1 DEF linkVars, LinkInv, LeasedToOne, Redeeming
  <2>5. ClaimsCounted'
    BY <1>1, <2>1 DEF linkVars, LinkInv, ClaimsCounted
  <2> QED BY <2>2, <2>3, <2>4, <2>5 DEF LinkInv
<1> QED BY <1>1, LinkRows, LinkClaims, RedemptionSteps DEF LinkNext

\* what was answered was claimed, and what a single-use ticket answered holds it for ever
LEMMA LinksConclude ==
    LinkInv => LinkTypeOK /\ DownloadsSound
<1> SUFFICES ASSUME LinkInv
             PROVE  LinkTypeOK /\ DownloadsSound
  OBVIOUS
<1>1. \A t \in Links : sent[t] \subseteq Redemptions /\ link[t].single \in BOOLEAN
  BY LinkTypes DEF LinkRow
<1>2. SingleUse
  <2> SUFFICES ASSUME NEW t \in Links, link[t].single
               PROVE  Cardinality(sent[t]) <= 1 /\ (sent[t] # {} => ~Claimable(t))
    BY DEF SingleUse
  <2>1. link[t].single = TRUE
    BY <1>1
  <2>2. \A r \in sent[t] : link[t].lease = r /\ link[t].redemption # "none"
    BY <2>1 DEF LinkInv, LeasedToOne
  <2>3. AtMostOne(sent[t])
    BY <2>2 DEF AtMostOne
  <2> QED BY <2>2, <2>3, AtMostOneCounted DEF Claimable
<1>3. UsesCounted
  <2> SUFFICES ASSUME NEW t \in Links, ~link[t].single
               PROVE  Cardinality(sent[t]) <= link[t].uses
    BY DEF UsesCounted
  <2>1. link[t].single = FALSE
    BY <1>1
  <2>2. sent[t] \subseteq Claimed(t)
    BY <1>1 DEF LinkInv, RedemptionsOfLinks, Claimed
  <2>3. IsFiniteSet(Claimed(t)) /\ Cardinality(Claimed(t)) <= link[t].uses
    BY <2>1 DEF LinkInv, ClaimsCounted
  <2>4. Cardinality(sent[t]) <= Cardinality(Claimed(t))
    BY <2>2, <2>3, FS_Subset
  <2>5. Cardinality(sent[t]) \in Nat /\ Cardinality(Claimed(t)) \in Nat
    BY <2>2, <2>3, FS_Subset, FS_CardinalityType
  <2>6. link[t].uses \in Nat
    <3>1. link[t].uses \in 0..MaxDownloads
      BY LinkTypes DEF LinkRow
    <3> QED BY <3>1, SlotsExist
  <2> QED BY <2>3, <2>4, <2>5, <2>6
<1> QED BY <1>2, <1>3 DEF LinkInv, DownloadsSound

-----------------------------------------------------------------------------
(* What no step takes back.  Sessions: a row stays in its session, and one  *)
(* that was replaced is revoked and stays so, so a token used again is      *)
(* known for ever.                                                         *)

TokenStays(t) ==
    token[t].family # "none" =>
       /\ token'[t].family = token[t].family
       /\ token[t].revoked => token'[t].revoked
       /\ token'[t].next # token[t].next => Live(t) /\ token[t].next = "none" /\ token'[t].revoked
SessionsStay ==
    /\ closed \subseteq closed' /\ expired \subseteq expired' /\ ended \subseteq ended'
    /\ \A t \in Tokens : TokenStays(t)

ReplacedIsRevoked == \A t \in Tokens : token[t].next # "none" => token[t].revoked

LEMMA RotationHolds ==
    ASSUME SessionInv, ReplacedIsRevoked, NEW p \in Clients, Rotate(p)
    PROVE  ReplacedIsRevoked' /\ \A t \in Tokens : TokenStays(t)
<1> DEFINE old == request[p].token
           new == request[p].next
           rowOld == [token[old] EXCEPT !.revoked = TRUE, !.next = new]
           rowNew == [Absent EXCEPT !.family = token[old].family]
<1>1. old \in Tokens /\ Live(old) /\ new \in Tokens /\ token[new].family = "none" /\ new # old
  BY DEF Rotate, Rotating, SessionInv, RotatingLive, InsertedIsNew, Live
<1>2. token[old] \in TokenRow /\ token[old].revoked = FALSE /\ token[old].next = "none"
  BY <1>1 DEF SessionInv, SessionTypeOK, TokenRow, Live, ReplacedIsRevoked
<1>3. /\ rowOld.family = token[old].family /\ rowOld.revoked = TRUE
      /\ rowNew.revoked = FALSE /\ rowNew.next = "none"
  BY <1>2 DEF TokenRow, Absent
<1>4. token' = [token EXCEPT ![old] = rowOld, ![new] = rowNew]
  BY <1>1 DEF Rotate, SessionInv, SessionTypeOK
<1> HIDE DEF rowOld, rowNew, old, new
<1>5. \A t \in Tokens : token'[t] = IF t = new THEN rowNew ELSE IF t = old THEN rowOld ELSE token[t]
  BY <1>1, <1>4 DEF SessionInv, SessionTypeOK
<1>6. ReplacedIsRevoked'
  BY <1>3, <1>5 DEF ReplacedIsRevoked
<1>7. \A t \in Tokens : TokenStays(t)
  BY <1>1, <1>2, <1>3, <1>5 DEF TokenStays
<1> QED BY <1>6, <1>7

LEMMA OpeningHolds ==
    ASSUME SessionInv, ReplacedIsRevoked, NEW p \in Clients, OpenSession(p)
    PROVE  ReplacedIsRevoked' /\ \A t \in Tokens : TokenStays(t)
<1>1. PICK f \in Families : token' = [token EXCEPT ![NewToken].family = f]
  BY DEF OpenSession
<1> DEFINE new == NewToken
           row == [token[new] EXCEPT !.family = f]
<1>2. new \in Tokens /\ token[new].family = "none"
  <2>1. new \in Unused
    BY DEF OpenSession, NewToken
  <2> QED BY <2>1 DEF Unused
<1> HIDE DEF new
<1>3. row.revoked = token[new].revoked /\ row.next = token[new].next /\ token' = [token EXCEPT ![new] = row]
  <2>1. token[new] \in TokenRow
    BY <1>2 DEF SessionInv, SessionTypeOK, TokenRow
  <2> QED BY <1>1, <2>1 DEF TokenRow, SessionInv, SessionTypeOK, new
<1> HIDE DEF row
<1>4. \A t \in Tokens : token'[t] = IF t = new THEN row ELSE token[t]
  BY <1>3 DEF SessionInv, SessionTypeOK
<1> QED BY <1>2, <1>3, <1>4 DEF ReplacedIsRevoked, TokenStays

LEMMA RevocationHolds ==
    ASSUME SessionInv, ReplacedIsRevoked, NEW p \in Clients, Revoked(p)
    PROVE  ReplacedIsRevoked' /\ \A t \in Tokens : TokenStays(t)
<1>1. token' = [t \in Tokens |-> IF t \in request[p].seen THEN [token[t] EXCEPT !.revoked = TRUE] ELSE token[t]]
  BY DEF Revoked
<1>2. ASSUME NEW t \in Tokens
      PROVE  /\ token'[t].family = token[t].family /\ token'[t].next = token[t].next
             /\ token[t].revoked => token'[t].revoked
  <2>1. token[t] \in TokenRow
    BY DEF SessionInv, SessionTypeOK, TokenRow
  <2> QED BY <1>1, <2>1 DEF TokenRow
<1> QED BY <1>2 DEF ReplacedIsRevoked, TokenStays

LEMMA SessionsHold ==
    ASSUME SessionInv, ReplacedIsRevoked, [SessionNext]_sessionVars
    PROVE  ReplacedIsRevoked' /\ SessionsStay
<1> DEFINE Grow == closed \subseteq closed' /\ expired \subseteq expired' /\ ended \subseteq ended'
<1>1. ASSUME Grow, token' = token
      PROVE  ReplacedIsRevoked' /\ SessionsStay
  BY <1>1 DEF ReplacedIsRevoked, SessionsStay, TokenStays
<1>2. ASSUME NEW p \in Clients, Rotate(p)
      PROVE  ReplacedIsRevoked' /\ SessionsStay
  <2>1. Grow
    BY <1>2 DEF Rotate
  <2> QED BY <1>2, <2>1, RotationHolds DEF SessionsStay
<1>3. ASSUME NEW p \in Clients, OpenSession(p)
      PROVE  ReplacedIsRevoked' /\ SessionsStay
  <2>1. Grow
    BY <1>3 DEF OpenSession
  <2> QED BY <1>3, <2>1, OpeningHolds DEF SessionsStay
<1>4. ASSUME NEW p \in Clients, Revoked(p)
      PROVE  ReplacedIsRevoked' /\ SessionsStay
  <2>1. Grow
    BY <1>4 DEF Revoked
  <2> QED BY <1>4, <2>1, RevocationHolds DEF SessionsStay
<1>5. ASSUME NEW p \in Clients, NEW t \in Tokens, Refresh(p, t) \/ LogOut(p, t)
      PROVE  Grow /\ token' = token
  BY <1>5 DEF Refresh, LogOut
<1>6. ASSUME NEW p \in Clients, Insert(p) \/ AnswerRefresh(p) \/ Rollback(p) \/ LogIn(p) \/ Block(p) \/ Suspend(p)
      PROVE  Grow /\ token' = token
  BY <1>6 DEF Insert, AnswerRefresh, Rollback, LogIn, Block, Suspend
<1>7. ASSUME Unblock \/ Expire \/ UNCHANGED sessionVars
      PROVE  Grow /\ token' = token
  BY <1>7 DEF Unblock, Expire, sessionVars
<1> HIDE DEF Grow
<1> QED BY <1>1, <1>2, <1>3, <1>4, <1>5, <1>6, <1>7 DEF SessionNext

-----------------------------------------------------------------------------
(* Receipts: what was consumed or voided is so for good, of the content it  *)
(* was issued for, and what was said of it was said.                       *)

ReceiptStays(k) ==
    /\ issued[k].status # "none" => issued'[k].status # "none" /\ issued'[k].content = issued[k].content
    /\ issued[k].status \in {"consumed", "voided"} => issued'[k] = issued[k]
ReceiptsStay ==
    /\ spent \subseteq spent' /\ told \subseteq told' /\ voids \subseteq voids'
    /\ \A k \in Keys : ReceiptStays(k)

LEMMA ReceiptsHold ==
    ASSUME ReceiptInv, [ReceiptNext]_receiptVars
    PROVE  ReceiptsStay
<1> DEFINE Grow == spent \subseteq spent' /\ told \subseteq told' /\ voids \subseteq voids'
<1>1. ASSUME NEW p \in Issuers, Issue(p) \/ AnswerReplay(p) \/ VoidReplayed(p) \/ IssueFails(p)
      PROVE  Grow
  <2>1. spent' = spent /\ told' = told
    BY <1>1 DEF Issue, AnswerReplay, VoidReplayed, IssueFails
  <2>2. voids \subseteq voids'
    BY <1>1 DEF Issue, AnswerReplay, VoidReplayed, IssueFails
  <2> QED BY <2>1, <2>2
<1>2. ASSUME NEW p \in Issuers, NEW receives \in BOOLEAN, InsertReceipt(p, receives)
      PROVE  Grow
  BY <1>2 DEF InsertReceipt
<1>3. ASSUME NEW c \in Consumers, NEW k \in Keys, NEW ref \in Refs, ConsumeReceipt(c, k, ref) \/ ConsumeUncertain(c, k, ref)
      PROVE  Grow
  BY <1>3 DEF ConsumeReceipt, ConsumeUncertain, Told
<1>4. ASSUME NEW c \in Consumers, AnswerConsume(c) \/ RecoverUncertain(c)
      PROVE  Grow
  BY <1>4 DEF AnswerConsume, RecoverUncertain, Told
<1>5. ASSUME NEW k \in Keys, NEW ref \in Refs, LookUpConsumption(k, ref)
      PROVE  Grow
  BY <1>5 DEF LookUpConsumption, Told
<1>6. Elapse \/ OwnerChanges \/ UNCHANGED receiptVars => Grow
  BY DEF Elapse, OwnerChanges, receiptVars
<1> HIDE DEF Grow
<1>7. Grow
  BY <1>1, <1>2, <1>3, <1>4, <1>5, <1>6 DEF ReceiptNext
<1>8. issued \in [Keys -> ReceiptRow] /\ \A p \in Issuers : ask[p].key \in Keys
  BY DEF ReceiptInv, ReceiptTypeOK, ReceiptRow
<1>9. CASE issued' = issued
  BY <1>7, <1>9 DEF Grow, ReceiptsStay, ReceiptStays
<1>10. ASSUME NEW k \in Keys, NEW row, issued' = [issued EXCEPT ![k] = row], issued[k].status \in {"none", "issued"},
              row.status # "none", issued[k].status = "issued" => row.content = issued[k].content
       PROVE  ReceiptsStay
  BY <1>7, <1>8, <1>10 DEF Grow, ReceiptsStay, ReceiptStays
<1>11. ASSUME NEW p \in Issuers, VoidReplayed(p), issued' # issued
       PROVE  ReceiptsStay
  <2> DEFINE k == ask[p].key
             row == [issued[k] EXCEPT !.status = "voided"]
  <2>1. k \in Keys /\ issued[k] \in ReceiptRow
    BY <1>8
  <2>2. issued' = [issued EXCEPT ![k] = row] /\ issued[k].status = "issued"
    BY <1>8, <1>11, <2>1 DEF VoidReplayed, Voidable
  <2>3. row.status = "voided" /\ row.content = issued[k].content
    BY <2>1 DEF ReceiptRow
  <2> HIDE DEF k, row
  <2> QED BY <1>10, <2>1, <2>2, <2>3
<1>12. ASSUME NEW p \in Issuers, NEW receives \in BOOLEAN, InsertReceipt(p, receives), issued' # issued
       PROVE  ReceiptsStay
  <2> DEFINE k == ask[p].key
             row == [issued[k] EXCEPT !.status = "issued", !.content = ask[p].content]
  <2>1. k \in Keys /\ issued[k] \in ReceiptRow
    BY <1>8
  <2>2. issued' = [issued EXCEPT ![k] = row] /\ issued[k].status = "none"
    BY <1>8, <1>12, <2>1 DEF InsertReceipt
  <2>3. row.status = "issued"
    BY <2>1 DEF ReceiptRow
  <2> HIDE DEF k, row
  <2> QED BY <1>10, <2>1, <2>2, <2>3
<1>13. ASSUME NEW c \in Consumers, NEW k \in Keys, NEW ref \in Refs,
              ConsumeReceipt(c, k, ref) \/ ConsumeUncertain(c, k, ref), issued' # issued
       PROVE  ReceiptsStay
  <2> DEFINE row == [issued[k] EXCEPT !.status = "consumed", !.ref = ref]
  <2>1. issued[k] \in ReceiptRow
    BY <1>8
  <2>2. issued' = [issued EXCEPT ![k] = row] /\ issued[k].status = "issued"
    BY <1>8, <1>13, <2>1 DEF ConsumeReceipt, ConsumeUncertain, Consumable
  <2>3. row.status = "consumed" /\ row.content = issued[k].content
    BY <2>1 DEF ReceiptRow
  <2> HIDE DEF row
  <2> QED BY <1>10, <2>2, <2>3
<1>14. \/ issued' = issued
       \/ \E p \in Issuers : VoidReplayed(p) \/ \E receives \in BOOLEAN : InsertReceipt(p, receives)
       \/ \E c \in Consumers, k \in Keys, ref \in Refs : ConsumeReceipt(c, k, ref) \/ ConsumeUncertain(c, k, ref)
  BY DEF ReceiptNext, receiptVars, Issue, AnswerReplay, IssueFails, AnswerConsume, RecoverUncertain,
         LookUpConsumption, Elapse, OwnerChanges
<1> QED BY <1>9, <1>11, <1>12, <1>13, <1>14

-----------------------------------------------------------------------------
(* Files: how an upload and a deletion ended stays, a held row does not     *)
(* move, and bytes come back only for an upload that may still complete.   *)

\* what a row may become
RowGoesOn(old, new) ==
    /\ old.status # "none" => new.status # "none" /\ new.key = old.key /\ (old.attached => new.attached)
    /\ old.status \in {"FAILED", "REJECTED", "DELETED"} => new.status = old.status
    /\ old.status = "DELETING" => new.status \in {"DELETING", "DELETED"}
    /\ old.status = "AVAILABLE" => \/ new.status = "AVAILABLE"
                                   \/ new.status = "DELETING" /\ old.hold # "active"
    /\ old.hold # "none" => new.hold # "none"
    /\ old.hold = "released" => new.hold = "released"
FileStays(f) ==
    /\ RowGoesOn(file[f], file'[f])
    /\ f \in object' /\ f \notin object => Uploading(f) /\ f \notin late
FilesStay == wanted \subseteq wanted' /\ unanswered \subseteq unanswered' /\ \A f \in Files : FileStays(f)

\* a step that writes one row, or none
LEMMA RowWritten ==
    ASSUME FileInv, NEW f \in Files, NEW row, file' = [file EXCEPT ![f] = row], RowGoesOn(file[f], row)
    PROVE  \A g \in Files : RowGoesOn(file[g], file'[g])
<1>1. \A g \in Files : file'[g] = IF g = f THEN row ELSE file[g]
  BY DEF FileInv, FileTypeOK
<1>2. \A g \in Files : RowGoesOn(file[g], file[g])
  BY DEF RowGoesOn
<1> QED BY <1>1, <1>2

LEMMA NoRowWritten ==
    ASSUME file' = file
    PROVE  \A g \in Files : RowGoesOn(file[g], file'[g])
  BY DEF RowGoesOn

LEMMA StatusWritten ==
    ASSUME FileInv, NEW f \in Files, NEW s, Status(f, s),
           \/ file[f].status = "UPLOADING" /\ s # "none"
           \/ file[f].status = "AVAILABLE" /\ s = "DELETING" /\ ~Held(f)
           \/ file[f].status = "DELETING" /\ s = "DELETED"
    PROVE  \A g \in Files : RowGoesOn(file[g], file'[g])
<1> DEFINE row == [file[f] EXCEPT !.status = s]
<1>1. file[f] \in FileRow
  BY DEF FileInv, FileTypeOK, FileRow
<1>2. row.status = s /\ row.key = file[f].key /\ row.attached = file[f].attached /\ row.hold = file[f].hold
  BY <1>1 DEF FileRow
<1>3. file' = [file EXCEPT ![f] = row]
  BY DEF Status
<1>4. RowGoesOn(file[f], row)
  BY <1>2 DEF RowGoesOn, Held
<1> HIDE DEF row
<1> QED BY <1>3, <1>4, RowWritten

LEMMA UploadStarts ==
    ASSUME FileInv, NEW f \in Files, NEW k \in UploadKeys, NEW attach \in BOOLEAN, StartUpload(f, k, attach)
    PROVE  \A g \in Files : RowGoesOn(file[g], file'[g])
<1> DEFINE row == [file[f] EXCEPT !.status = "UPLOADING", !.key = k, !.attached = attach]
<1>1. file \in [Files -> FileRow] /\ file[f] \in FileRow
  BY DEF FileInv, FileTypeOK, FileRow
<1>2. file[f].status = "none"
  BY DEF StartUpload
<1>3. file' = [file EXCEPT ![f] = row]
  BY <1>1 DEF StartUpload
<1>4. row.status = "UPLOADING" /\ row.hold = file[f].hold
  BY <1>1 DEF FileRow
<1> HIDE DEF row
<1>5. RowGoesOn(file[f], row)
  BY <1>2, <1>4 DEF RowGoesOn
<1> QED BY <1>3, <1>5, RowWritten

LEMMA RequestsGoOn ==
    ASSUME FileInv, NEW f \in Files,
           \/ \E k \in UploadKeys, attach \in BOOLEAN : StartUpload(f, k, attach)
           \/ Attach(f) \/ PlaceHold(f) \/ ReleaseHold(f) \/ RequestDeletion(f) \/ ExpireUnattached(f)
    PROVE  \A g \in Files : RowGoesOn(file[g], file'[g])
<1>0. file[f] \in FileRow
  BY DEF FileInv, FileTypeOK, FileRow
<1>1. CASE \E k \in UploadKeys, attach \in BOOLEAN : StartUpload(f, k, attach)
  BY <1>1, UploadStarts
<1>2. CASE Attach(f)
  <2> DEFINE row == [file[f] EXCEPT !.attached = TRUE]
  <2>1. file' = [file EXCEPT ![f] = row]
    BY <1>2 DEF Attach
  <2>2. row.status = file[f].status /\ row.key = file[f].key /\ row.hold = file[f].hold /\ row.attached = TRUE
    BY <1>0 DEF FileRow
  <2> HIDE DEF row
  <2>3. RowGoesOn(file[f], row)
    BY <2>2 DEF RowGoesOn
  <2> QED BY <2>1, <2>3, RowWritten
<1>3. ASSUME NEW h \in {"active", "released"}, file' = [file EXCEPT ![f].hold = h], file[f].hold = "released" => h = "released"
      PROVE  \A g \in Files : RowGoesOn(file[g], file'[g])
  <2> DEFINE row == [file[f] EXCEPT !.hold = h]
  <2>1. file' = [file EXCEPT ![f] = row]
    BY <1>3
  <2>2. row.status = file[f].status /\ row.key = file[f].key /\ row.attached = file[f].attached /\ row.hold = h
    BY <1>0 DEF FileRow
  <2> HIDE DEF row
  <2>3. RowGoesOn(file[f], row)
    BY <1>3, <2>2 DEF RowGoesOn
  <2> QED BY <2>1, <2>3, RowWritten
<1>4. CASE PlaceHold(f)
  BY <1>3, <1>4 DEF PlaceHold
<1>5. CASE ReleaseHold(f)
  BY <1>3, <1>5 DEF ReleaseHold
<1>6. CASE RequestDeletion(f) \/ ExpireUnattached(f)
  BY <1>6, StatusWritten DEF RequestDeletion, ExpireUnattached, Orphan
<1> QED BY <1>1, <1>2, <1>4, <1>5, <1>6

LEMMA UploadsGoOn ==
    ASSUME FileInv, NEW f \in Files, UploadStep(f) \/ PutTimesOut(f) \/ UploadCrash(f)
    PROVE  \A g \in Files : RowGoesOn(file[g], file'[g])
<1>1. CASE file' = file
  BY <1>1, NoRowWritten
<1>2. CASE CompleteUpload(f) /\ file' # file
  <2>1. Uploading(f) /\ Status(f, "AVAILABLE")
    BY <1>2 DEF CompleteUpload, Status
  <2> QED BY <2>1, StatusWritten DEF Uploading
<1>3. CASE RefuseUpload(f) /\ file' # file
  <2>1. PICK s \in {"FAILED", "REJECTED"} : Uploading(f) /\ Status(f, s)
    BY <1>3 DEF RefuseUpload
  <2> QED BY <2>1, StatusWritten DEF Uploading
<1>4. CASE Put(f) \/ PutRefused(f) \/ Forget(f) \/ PutTimesOut(f) \/ UploadCrash(f)
  BY <1>1, <1>4 DEF Put, PutRefused, Forget, PutTimesOut, UploadCrash
<1> QED BY <1>1, <1>2, <1>3, <1>4 DEF UploadStep

LEMMA CleanersGoOn ==
    ASSUME FileInv, NEW w \in Cleaners, Clean(w) \/ CleanerCrash(w)
    PROVE  \A g \in Files : RowGoesOn(file[g], file'[g])
<1>1. ASSUME NEW f \in Files, ClaimDeletion(w, f)
      PROVE  \A g \in Files : RowGoesOn(file[g], file'[g])
  <2> DEFINE row == [file[f] EXCEPT !.attempts = file[f].attempts + 1]
  <2>1. file' = [file EXCEPT ![f] = row]
    BY <1>1 DEF ClaimDeletion
  <2>2. file[f] \in FileRow
    BY DEF FileInv, FileTypeOK, FileRow
  <2>3. row.status = file[f].status /\ row.key = file[f].key /\ row.attached = file[f].attached /\ row.hold = file[f].hold
    BY <2>2 DEF FileRow
  <2> HIDE DEF row
  <2>4. RowGoesOn(file[f], row)
    BY <2>3 DEF RowGoesOn
  <2> QED BY <2>1, <2>4, RowWritten
<1>2. CASE CompleteDeletion(w)
  <2>1. cleaner[w].file \in Files
    BY <1>2 DEF CompleteDeletion, FileInv, CleanersClaim
  <2>2. file' = file \/ (file[cleaner[w].file].status = "DELETING" /\ Status(cleaner[w].file, "DELETED"))
    BY <1>2 DEF CompleteDeletion
  <2> QED BY <2>1, <2>2, StatusWritten, NoRowWritten
<1>3. CASE FailAbandoned(w)
  <2>1. cleaner[w].file \in Files
    BY <1>3 DEF FailAbandoned, FileInv, CleanersClaim
  <2>2. file' = file \/ (file[cleaner[w].file].status = "UPLOADING" /\ Status(cleaner[w].file, "FAILED"))
    BY <1>3 DEF FailAbandoned, Abandoned, Uploading
  <2> QED BY <2>1, <2>2, StatusWritten, NoRowWritten
<1>4. CASE (\E f \in Files : FindAbandoned(w, f)) \/ DeleteObject(w) \/ RetryDeletion(w) \/ CleanerCrash(w)
  <2>1. file' = file
    BY <1>4 DEF FindAbandoned, DeleteObject, RetryDeletion, CleanerCrash
  <2> QED BY <2>1, NoRowWritten
<1> QED BY <1>1, <1>2, <1>3, <1>4 DEF Clean

LEMMA FilesHold ==
    ASSUME FileInv, [FileNext]_fileVars
    PROVE  FilesStay
<1>1. \A g \in Files : RowGoesOn(file[g], file'[g])
  <2>1. ASSUME NEW f \in Files, Lapse(f) \/ Overdue(f) \/ LeaseLapses(f) \/ Reconcile(f)
        PROVE  file' = file
    BY <2>1 DEF Lapse, Overdue, LeaseLapses, Reconcile
  <2>2. UNCHANGED fileVars => file' = file
    BY DEF fileVars
  <2> QED BY <2>1, <2>2, NoRowWritten, RequestsGoOn, UploadsGoOn, CleanersGoOn DEF FileNext
<1> DEFINE Grow == /\ wanted \subseteq wanted' /\ unanswered \subseteq unanswered'
                   /\ \A f \in object' \ object : upload[f] = "receiving"
<1>2. ASSUME NEW f \in Files, \E k \in UploadKeys, attach \in BOOLEAN : StartUpload(f, k, attach)
      PROVE  Grow
  BY <1>2 DEF StartUpload
<1>3. ASSUME NEW f \in Files, Put(f) \/ PutRefused(f) \/ PutTimesOut(f) \/ Forget(f)
      PROVE  Grow
  <2>1. wanted' = wanted /\ unanswered' = unanswered
    BY <1>3 DEF Put, PutRefused, PutTimesOut, Forget
  <2>2. \A g \in object' \ object : upload[g] = "receiving"
    BY <1>3 DEF Put, PutRefused, PutTimesOut, Forget
  <2> QED BY <2>1, <2>2
<1>4. ASSUME NEW f \in Files, CompleteUpload(f) \/ RefuseUpload(f) \/ UploadCrash(f) \/ Lapse(f)
      PROVE  Grow
  BY <1>4 DEF CompleteUpload, RefuseUpload, UploadCrash, Lapse
<1>5. ASSUME NEW f \in Files, Attach(f) \/ Overdue(f) \/ PlaceHold(f) \/ ReleaseHold(f) \/ RequestDeletion(f)
      PROVE  Grow
  BY <1>5 DEF Attach, Overdue, PlaceHold, ReleaseHold, RequestDeletion
<1>6. ASSUME NEW f \in Files, ExpireUnattached(f) \/ LeaseLapses(f) \/ Reconcile(f)
      PROVE  Grow
  BY <1>6 DEF ExpireUnattached, LeaseLapses, Reconcile
<1>7. ASSUME NEW w \in Cleaners, Clean(w) \/ CleanerCrash(w)
      PROVE  Grow
  BY <1>7 DEF Clean, CleanerCrash, ClaimDeletion, FindAbandoned, DeleteObject, CompleteDeletion, RetryDeletion, FailAbandoned
<1>8. UNCHANGED fileVars => Grow
  BY DEF fileVars
<1> HIDE DEF Grow
<1>9. Grow
  BY <1>2, <1>3, <1>4, <1>5, <1>6, <1>7, <1>8 DEF FileNext, UploadStep
<1>10. \A f \in Files : upload[f] = "receiving" => Uploading(f) /\ f \notin late
  BY DEF FileInv, StillUploading
<1> QED BY <1>1, <1>9, <1>10 DEF Grow, FilesStay, FileStays

-----------------------------------------------------------------------------
(* Download tickets: what a ticket was issued as, that it was revoked, and  *)
(* how the reservation of a single-use one was settled, stay.              *)

\* a single-use ticket counts one use
SingleUses == \A t \in Links : link[t].single = TRUE => link[t].uses <= 1

\* what a ticket that was issued may become
LinkGoesOn(old, new) ==
    old.made = TRUE =>
       /\ new.made = TRUE /\ new.single = old.single /\ new.viaGrant = old.viaGrant
       /\ old.revoked = TRUE => new.revoked = TRUE
       /\ old.uses <= new.uses
       /\ old.redemption \in {"uncertain", "committed"} =>
             /\ new.lease = old.lease
             /\ new.redemption \in {old.redemption, "committed"}
LinksStay ==
    /\ (available' => available) /\ (granted' => granted) /\ past \subseteq past'
    /\ \A t \in Links : LinkGoesOn(link[t], link'[t]) /\ sent[t] \subseteq sent'[t]

\* a step that writes one row
LEMMA LinkWritten ==
    ASSUME LinkInv, SingleUses, NEW t \in Links, NEW row, link' = [link EXCEPT ![t] = row],
           LinkGoesOn(link[t], row), row.single = TRUE => row.uses <= 1
    PROVE  SingleUses' /\ \A u \in Links : LinkGoesOn(link[u], link'[u])
<1>1. link \in [Links -> LinkRow]
  BY LinkTypes
<1>2. \A u \in Links : link'[u] = IF u = t THEN row ELSE link[u]
  BY <1>1
<1>3. \A u \in Links : link[u].uses <= link[u].uses
  BY <1>1 DEF LinkRow
<1>4. \A u \in Links : LinkGoesOn(link[u], link[u])
  BY <1>3 DEF LinkGoesOn
<1> QED BY <1>2, <1>4 DEF SingleUses

LEMMA LinksUntouched ==
    ASSUME LinkInv, SingleUses, link' = link
    PROVE  SingleUses' /\ \A u \in Links : LinkGoesOn(link[u], link'[u])
<1>1. \A u \in Links : link[u].uses <= link[u].uses
  BY LinkTypes DEF LinkRow
<1> QED BY <1>1 DEF SingleUses, LinkGoesOn

LEMMA RevocationsGoOn ==
    ASSUME LinkInv, SingleUses, NEW S, RevokeLinks(S)
    PROVE  SingleUses' /\ \A u \in Links : LinkGoesOn(link[u], link'[u])
<1>1. \A u \in Links : link[u] \in LinkRow /\ link[u].uses <= link[u].uses
  BY LinkTypes DEF LinkRow
<1>2. ASSUME NEW u \in Links
      PROVE  LinkGoesOn(link[u], link'[u]) /\ (link'[u].single = TRUE => link'[u].uses <= 1)
  <2> DEFINE row == [link[u] EXCEPT !.revoked = TRUE]
  <2>1. /\ row.made = link[u].made /\ row.single = link[u].single /\ row.viaGrant = link[u].viaGrant
        /\ row.revoked = TRUE /\ row.uses = link[u].uses
        /\ row.redemption = link[u].redemption /\ row.lease = link[u].lease
    BY <1>1 DEF LinkRow
  <2>2. link'[u] = IF u \in S THEN row ELSE link[u]
    BY DEF RevokeLinks
  <2> HIDE DEF row
  <2>3. LinkGoesOn(link[u], row) /\ LinkGoesOn(link[u], link[u])
    BY <1>1, <2>1 DEF LinkGoesOn
  <2> QED BY <2>1, <2>2, <2>3 DEF SingleUses
<1> QED BY <1>2 DEF SingleUses

LEMMA IssueGoesOn ==
    ASSUME LinkInv, SingleUses, NEW t \in Links, NEW single \in BOOLEAN, NEW viaGrant \in BOOLEAN,
           IssueLink(t, single, viaGrant)
    PROVE  SingleUses' /\ \A u \in Links : LinkGoesOn(link[u], link'[u])
<1> DEFINE row == [NoLink EXCEPT !.made = TRUE, !.single = single, !.viaGrant = viaGrant]
<1>1. link' = [link EXCEPT ![t] = row] /\ ~link[t].made
  BY DEF IssueLink
<1>2. link[t] \in LinkRow
  BY LinkTypes
<1>3. row.uses = 0
  BY DEF NoLink
<1> HIDE DEF row
<1>4. link[t].made = FALSE
  BY <1>1, <1>2 DEF LinkRow
<1>5. LinkGoesOn(link[t], row)
  BY <1>4 DEF LinkGoesOn
<1>6. row.single = TRUE => row.uses <= 1
  BY <1>3
<1> QED BY <1>1, <1>5, <1>6, LinkWritten

\* a lease that ran out is settled: the ticket is a single-use one and counts its use
LEMMA SettledExpired ==
    ASSUME LinkInv, SingleUses, NEW t \in Links, SettleExpired(t)
    PROVE  SingleUses' /\ \A u \in Links : LinkGoesOn(link[u], link'[u])
<1> DEFINE row == [link[t] EXCEPT !.redemption = "uncertain", !.uses = 1]
<1>1. link[t] \in LinkRow /\ link \in [Links -> LinkRow]
  BY LinkTypes
<1>2. link' = [link EXCEPT ![t] = row] /\ link[t].redemption = "reserved"
  BY <1>1 DEF SettleExpired, Settleable
<1>3. /\ row.made = link[t].made /\ row.single = link[t].single /\ row.viaGrant = link[t].viaGrant
      /\ row.revoked = link[t].revoked /\ row.uses = 1
  BY <1>1 DEF LinkRow
<1> HIDE DEF row
<1>4. link[t].uses <= 1
  BY <1>2 DEF LinkInv, LeasedToOne, SingleUses
<1>5. LinkGoesOn(link[t], row)
  BY <1>2, <1>3, <1>4 DEF LinkGoesOn
<1>6. row.single = TRUE => row.uses <= 1
  BY <1>3
<1> QED BY <1>2, <1>5, <1>6, LinkWritten

\* a claim reserves a single-use ticket nobody holds, or counts a use of a reusable one
LEMMA ClaimGoesOn ==
    ASSUME LinkInv, SingleUses, NEW r \in Redemptions, NEW t \in Links, ClaimLink(r, t)
    PROVE  SingleUses' /\ \A u \in Links : LinkGoesOn(link[u], link'[u])
<1>1. link[t] \in LinkRow /\ link \in [Links -> LinkRow] /\ link[t].uses \in 0..MaxDownloads
  BY LinkTypes DEF LinkRow
<1>2. CASE link[t].single = TRUE
  <2> DEFINE row == [link[t] EXCEPT !.redemption = "reserved", !.lease = r]
  <2>1. link' = [link EXCEPT ![t] = row] /\ link[t].redemption = "none"
    BY <1>1, <1>2 DEF ClaimLink, Claimable
  <2>2. /\ row.made = link[t].made /\ row.single = link[t].single /\ row.viaGrant = link[t].viaGrant
        /\ row.revoked = link[t].revoked /\ row.uses = link[t].uses
    BY <1>1 DEF LinkRow
  <2> HIDE DEF row
  <2>3. link[t].uses <= 1 /\ link[t].uses <= link[t].uses
    BY <1>1, <1>2 DEF SingleUses
  <2>4. LinkGoesOn(link[t], row)
    BY <2>1, <2>2, <2>3 DEF LinkGoesOn
  <2> QED BY <2>1, <2>2, <2>3, <2>4, LinkWritten
<1>3. CASE link[t].single = FALSE
  <2> DEFINE row == [link[t] EXCEPT !.uses = link[t].uses + 1]
  <2>1. link' = [link EXCEPT ![t] = row]
    BY <1>1, <1>3 DEF ClaimLink
  <2>2. /\ row.made = link[t].made /\ row.single = FALSE /\ row.viaGrant = link[t].viaGrant
        /\ row.revoked = link[t].revoked /\ row.uses = link[t].uses + 1
        /\ row.redemption = link[t].redemption /\ row.lease = link[t].lease
    BY <1>1, <1>3 DEF LinkRow
  <2> HIDE DEF row
  <2>3. link[t].uses <= row.uses
    BY <1>1, <2>2
  <2>4. LinkGoesOn(link[t], row)
    BY <1>3, <2>2, <2>3 DEF LinkGoesOn
  <2> QED BY <2>1, <2>2, <2>4, LinkWritten
<1> QED BY <1>1, <1>2, <1>3 DEF LinkRow

\* a settlement ends a reservation, or turns an uncertain one into a committed one
LEMMA SettlementGoesOn ==
    ASSUME LinkInv, SingleUses, NEW r \in Redemptions, Settle(r)
    PROVE  SingleUses' /\ \A u \in Links : LinkGoesOn(link[u], link'[u])
<1> DEFINE t   == redeem[r].link
           to  == Outcome(r)
           row == IF to = "released" THEN [link[t] EXCEPT !.redemption = "none", !.lease = "none"]
                                     ELSE [link[t] EXCEPT !.redemption = to, !.uses = 1]
<1>1. CASE link' = link
  BY <1>1, LinksUntouched
<1>2. CASE link' # link
  <2>1. Redeeming(r)
    BY DEF Settle, Redeeming
  <2>2. t \in Links /\ link[t] \in LinkRow /\ link \in [Links -> LinkRow]
    BY <2>1, LinkTypes DEF LinkInv, RedemptionsOfLinks
  <2>3. link[t].single = TRUE /\ link[t].redemption \in From(to) /\ link' = [link EXCEPT ![t] = row]
    BY <1>2, <2>2 DEF Settle, LinkRow
  <2>4. to \in {"committed", "uncertain", "released"}
    BY DEF Outcome
  <2> HIDE DEF to
  <2>5. link[t].redemption = "reserved" \/ (link[t].redemption = "uncertain" /\ to = "committed")
    BY <2>3, <2>4 DEF From
  <2>6. /\ row.made = link[t].made /\ row.single = link[t].single /\ row.viaGrant = link[t].viaGrant
        /\ row.revoked = link[t].revoked
    BY <2>2 DEF LinkRow
  <2>7. \/ to = "released" /\ row.uses = link[t].uses
        \/ to # "released" /\ row.uses = 1 /\ row.redemption = to /\ row.lease = link[t].lease
    BY <2>2 DEF LinkRow
  <2>8. link' = [link EXCEPT ![t] = row]
    BY <2>3
  <2> HIDE DEF row, t
  <2>9. link[t].uses <= 1 /\ link[t].uses <= link[t].uses
    BY <2>2, <2>3 DEF SingleUses, LinkRow
  <2>10. LinkGoesOn(link[t], row)
    BY <2>5, <2>6, <2>7, <2>9 DEF LinkGoesOn
  <2>11. row.uses <= 1
    BY <2>7, <2>9
  <2> QED BY <2>2, <2>8, <2>10, <2>11, LinkWritten
<1> QED BY <1>1, <1>2

LEMMA LinksHold ==
    ASSUME LinkInv, SingleUses, [LinkNext]_linkVars
    PROVE  SingleUses' /\ LinksStay
<1> DEFINE Grow == /\ (available' => available) /\ (granted' => granted) /\ past \subseteq past'
                   /\ \A t \in Links : sent[t] \subseteq sent'[t]
           Rows == SingleUses' /\ \A u \in Links : LinkGoesOn(link[u], link'[u])
<1>1. sent \in [Links -> SUBSET Redemptions]
  BY LinkTypes
<1>2. link' = link => Rows
  BY LinksUntouched
<1>3. ASSUME NEW t \in Links, NEW single \in BOOLEAN, NEW viaGrant \in BOOLEAN, IssueLink(t, single, viaGrant)
      PROVE  Grow /\ Rows
  <2>1. Grow
    BY <1>3 DEF IssueLink
  <2> QED BY <1>3, <2>1, IssueGoesOn
<1>4. ASSUME NEW t \in Links, RevokeLink(t) \/ PurgeLink(t)
      PROVE  Grow /\ Rows
  <2>1. Grow /\ \E S : RevokeLinks(S)
    BY <1>4 DEF RevokeLink, PurgeLink
  <2> QED BY <2>1, RevocationsGoOn
<1>5. ASSUME RevokeGrant \/ DeleteFile
      PROVE  Grow /\ Rows
  <2>1. Grow /\ \E S : RevokeLinks(S)
    BY <1>5 DEF RevokeGrant, DeleteFile
  <2> QED BY <2>1, RevocationsGoOn
<1>6. ASSUME NEW t \in Links, LinkExpires(t) \/ LeaseOver(t)
      PROVE  Grow /\ link' = link
  BY <1>6 DEF LinkExpires, LeaseOver
<1>7. ASSUME NEW t \in Links, SettleExpired(t)
      PROVE  Grow /\ Rows
  <2>1. Grow
    BY <1>7 DEF SettleExpired
  <2> QED BY <1>7, <2>1, SettledExpired
<1>8. ASSUME NEW r \in Redemptions, OpenFails(r) \/ Stream(r) \/ StreamEnds(r) \/ RedemptionCrash(r)
      PROVE  Grow /\ link' = link
  <2>1. UNCHANGED <<link, available, granted, past>>
    BY <1>8 DEF OpenFails, Stream, StreamEnds, RedemptionCrash
  <2>2. sent' = sent \/ \E u : sent' = [sent EXCEPT ![u] = sent[u] \cup {r}]
    BY <1>8 DEF OpenFails, Stream, StreamEnds, RedemptionCrash
  <2>3. \A t \in Links : sent[t] \subseteq sent'[t]
    BY <1>1, <2>2
  <2> QED BY <2>1, <2>3
<1>9. ASSUME NEW r \in Redemptions, Settle(r)
      PROVE  Grow /\ Rows
  <2>1. Grow
    BY <1>9 DEF Settle
  <2> QED BY <1>9, <2>1, SettlementGoesOn
<1>10. ASSUME NEW r \in Redemptions, NEW t \in Links, ClaimLink(r, t)
       PROVE  Grow /\ Rows
  <2>1. Grow
    BY <1>10 DEF ClaimLink
  <2> QED BY <1>10, <2>1, ClaimGoesOn
<1>11. UNCHANGED linkVars => Grow /\ link' = link
  BY DEF linkVars
<1> HIDE DEF Grow, Rows
<1>12. Grow /\ Rows
  BY <1>2, <1>3, <1>4, <1>5, <1>6, <1>7, <1>8, <1>9, <1>10, <1>11 DEF LinkNext, RedemptionStep
<1> QED BY <1>12 DEF Grow, Rows, LinksStay
-----------------------------------------------------------------------------
(* The ownership row: a class is for good, authority is taken from an       *)
(* approved transition and never given back, and what was verified and     *)
(* approved before it is still there after; a return to PREPARED leaves no *)
(* evidence behind.                                                        *)

OwnershipStays ==
    /\ class # "none" => class' = class
    /\ phase = "RETIRED" => phase' = "RETIRED"
    /\ phase = "ACTIVE" => phase' \in {"ACTIVE", "RETIRED"}
    /\ ~Authoritative /\ Authoritative' => phase = "ACTIVATABLE" /\ phase' = "ACTIVE" /\ approved
    /\ Authoritative => UNCHANGED <<verified, approved, activated>>
    /\ phase' = "PREPARED" /\ phase # "PREPARED" => verified' = {} /\ ~approved'
    /\ content <= content'

\* what a step makes of the phase and of its evidence
PhaseMoves ==
    \/ UNCHANGED <<phase, verified, approved>>
    \/ ~Authoritative /\ phase' \in {"VERIFIED", "FROZEN", "ACTIVATABLE"}
    \/ ~Authoritative /\ phase' = "PREPARED" /\ verified' = {} /\ approved' = FALSE
    \/ phase = "ACTIVATABLE" /\ phase' = "ACTIVE" /\ UNCHANGED <<verified, approved>>
    \/ phase = "ACTIVE" /\ phase' = "RETIRED" /\ UNCHANGED <<verified, approved>>

LEMMA ImportMoves ==
    ASSUME OwnershipInv, NEW p \in Operators, ImportSnapshot(p)
    PROVE  PhaseMoves /\ content <= content'
<1>1. content \in Int
  BY ContentExists DEF OwnershipInv, OwnershipTypeOK
<1>2. CASE UNCHANGED <<phase, verified, approved, content>>
  BY <1>1, <1>2 DEF PhaseMoves
<1>3. command[p].phase \in {"PREPARED", "VERIFIED", "FROZEN"}
  BY DEF ImportSnapshot, OwnershipInv, ClassRemembered, Finish
<1>4. CASE ~UNCHANGED <<phase, verified, approved, content>>
  <2>1. PICK n \in content..MaxContent, frozen \in BOOLEAN :
           /\ SamePhase(p) /\ content' = n
           /\ phase' = IF frozen THEN "FROZEN" ELSE IF phase = "PREPARED" THEN "VERIFIED" ELSE phase
    BY <1>4 DEF ImportSnapshot
  <2>2. phase \in {"PREPARED", "VERIFIED", "FROZEN"} /\ content <= content'
    BY <1>1, <1>3, <2>1, ContentExists DEF SamePhase
  <2>3. ~Authoritative /\ phase' \in {"VERIFIED", "FROZEN"}
    BY <2>1, <2>2 DEF Authoritative
  <2> QED BY <2>2, <2>3 DEF PhaseMoves
<1> QED BY <1>2, <1>4

LEMMA OwnershipHolds ==
    ASSUME OwnershipInv, [OwnershipNext]_ownershipVars
    PROVE  OwnershipStays
<1> DEFINE Keeps == PhaseMoves /\ content <= content' /\ class' = class /\ (Authoritative => activated' = activated)
<1>1. content \in Int /\ content <= content /\ content <= content + 1
  BY ContentExists DEF OwnershipInv, OwnershipTypeOK
<1>2. ASSUME NEW p \in Operators, (\E name \in Operations : Start(p, name)) \/ Measure(p)
      PROVE  Keeps
  BY <1>1, <1>2 DEF Start, Measure, PhaseMoves
<1>3. ASSUME NEW p \in Operators, DeclareClass(p)
      PROVE  /\ PhaseMoves /\ content <= content' /\ (class # "none" => class' = class)
             /\ UNCHANGED <<phase, activated>>
  BY <1>1, <1>3 DEF DeclareClass, PhaseMoves
<1>4. ASSUME NEW p \in Operators, ImportSnapshot(p)
      PROVE  Keeps
  <2>1. UNCHANGED <<class, activated>>
    BY <1>4 DEF ImportSnapshot
  <2> QED BY <1>4, <2>1, ImportMoves
<1>5. ASSUME NEW p \in Operators, VerifyContent(p)
      PROVE  Keeps
  <2>1. UNCHANGED <<class, content, activated>>
    BY <1>5 DEF VerifyContent
  <2>2. \/ UNCHANGED <<phase, verified, approved>>
        \/ phase \in {"PREPARED", "VERIFIED"} /\ phase' = "VERIFIED"
    BY <1>5 DEF VerifyContent, Update, Legal
  <2> QED BY <1>1, <2>1, <2>2 DEF PhaseMoves, Authoritative
<1>6. ASSUME NEW p \in Operators, Approve(p)
      PROVE  Keeps
  <2>1. UNCHANGED <<class, content, activated>>
    BY <1>6 DEF Approve
  <2>2. \/ UNCHANGED <<phase, verified, approved>>
        \/ phase \in {"VERIFIED", "FROZEN", "ACTIVATABLE"} /\ phase' = "ACTIVATABLE"
    BY <1>6 DEF Approve, Update, Legal
  <2> QED BY <1>1, <2>1, <2>2 DEF PhaseMoves, Authoritative
<1>7. ASSUME NEW p \in Operators, Activate(p)
      PROVE  Keeps
  <2>1. UNCHANGED <<class, content>> /\ (Authoritative => activated' = activated)
    BY <1>7 DEF Activate
  <2>2. \/ UNCHANGED <<phase, verified, approved>>
        \/ phase = "ACTIVATABLE" /\ phase' = "ACTIVE" /\ UNCHANGED <<verified, approved>>
    BY <1>7 DEF Activate, Update, Legal
  <2> QED BY <1>1, <2>1, <2>2 DEF PhaseMoves
<1>8. ASSUME NEW p \in Operators, Retire(p)
      PROVE  Keeps
  <2>1. UNCHANGED <<class, content, activated>>
    BY <1>8 DEF Retire
  <2>2. \/ UNCHANGED <<phase, verified, approved>>
        \/ phase = "ACTIVE" /\ phase' = "RETIRED" /\ UNCHANGED <<verified, approved>>
    BY <1>8 DEF Retire, Update, Legal
  <2> QED BY <1>1, <2>1, <2>2 DEF PhaseMoves
<1>9. ASSUME NEW p \in Operators, RollBack(p)
      PROVE  Keeps
  <2>1. UNCHANGED <<class, content, activated>>
    BY <1>9 DEF RollBack
  <2>2. \/ UNCHANGED <<phase, verified, approved>>
        \/ ~Authoritative /\ phase' = "PREPARED" /\ verified' = {} /\ approved' = FALSE
    BY <1>9 DEF RollBack, Update, Legal, Authoritative
  <2> QED BY <1>1, <2>1, <2>2 DEF PhaseMoves
<1>10. ASSUME NEW w \in Writers, AssertWritable(w) \/ EndWrite(w)
       PROVE  Keeps
  <2>1. UNCHANGED <<phase, class, verified, approved, activated>> /\ content' \in {content, content + 1}
    BY <1>10 DEF AssertWritable, EndWrite
  <2> QED BY <1>1, <2>1 DEF PhaseMoves
<1>11. UNCHANGED ownershipVars => Keeps
  BY <1>1 DEF ownershipVars, PhaseMoves
<1>12. phase = "ACTIVATABLE" => approved
  BY DEF OwnershipInv, EvidenceBehind
<1>13. Keeps => OwnershipStays
  BY <1>12 DEF PhaseMoves, OwnershipStays, Authoritative
<1>14. ASSUME NEW p \in Operators, DeclareClass(p)
       PROVE  OwnershipStays
  <2>1. UNCHANGED <<phase, verified, approved, content, activated>>
    BY <1>14 DEF DeclareClass
  <2> QED BY <1>1, <1>3, <1>14, <2>1 DEF OwnershipStays, Authoritative
<1> HIDE DEF Keeps
<1> QED BY <1>2, <1>4, <1>5, <1>6, <1>7, <1>8, <1>9, <1>10, <1>11, <1>13, <1>14 DEF OwnershipNext
-----------------------------------------------------------------------------
(* The audit trail: what a row says stays as long as the row, retention     *)
(* takes only rows past their horizon and under no hold, and a hold stays  *)
(* what it was placed as, released at most.                                *)

\* a hold is placed once, by one order
PlacesAreNew ==
    \A o \in Owners : order[o].kind = "place" =>
       /\ hold[order[o].hold] = {}
       /\ order[o].hold # "none"
       /\ \A p \in Owners \ {o} : order[p].hold # order[o].hold

\* a batch is of rows past their horizon
BatchIsDue == \A e \in batch.doomed \cup batch.deleted : \A r \in record[e] : r.past = TRUE

SameFact(r, s) ==
    s.fact = r.fact /\ s.company = r.company /\ s.inWindow = r.inWindow /\ (r.past = TRUE => s.past = TRUE)
RecordStays(e) ==
    \A r \in record[e] : \/ \E s \in record'[e] : SameFact(r, s)
                         \/ record'[e] = {} /\ r.past = TRUE /\ ~IsHeld(e)
HoldStays(h) ==
    \A k \in hold[h] : \E j \in hold'[h] :
       j.company = k.company /\ j.windowed = k.windowed /\ (k.released = TRUE => j.released = TRUE)
AuditStays == (\A e \in Events : RecordStays(e)) /\ (\A h \in LegalHolds : HoldStays(h))

LEMMA OrdersHold ==
    ASSUME AuditInv, PlacesAreNew, NEW o \in Owners,
           \/ \E h \in LegalHolds, c \in Companies : AskPlace(o, h, c)
           \/ \E h \in LegalHolds : AskRelease(o, h)
           \/ LockHolds(o) \/ FailOrder(o)
    PROVE  PlacesAreNew' /\ UNCHANGED hold
<1>1. order \in [Owners -> OpenOrder \cup {NoOrder}]
  BY DEF AuditInv, AuditTyped
<1>2. UNCHANGED hold
  BY DEF AskPlace, AskRelease, LockHolds, FailOrder
<1> DEFINE Fits(row) == /\ row.kind = "place" => /\ hold[row.hold] = {} /\ row.hold # "none"
                                                 /\ \A p \in Owners \ {o} : order[p].hold # row.hold
                        /\ \A p \in Owners \ {o} : order[p].kind = "place" => row.hold # order[p].hold
<1>3. ASSUME NEW row, order' = [order EXCEPT ![o] = row], Fits(row)
      PROVE  PlacesAreNew'
  <2>1. \A p \in Owners : order'[p] = IF p = o THEN row ELSE order[p]
    BY <1>1, <1>3
  <2> QED BY <1>2, <1>3, <2>1 DEF PlacesAreNew
<1> HIDE DEF Fits
<1>4. ASSUME NEW h \in LegalHolds, NEW c \in Companies, AskPlace(o, h, c)
      PROVE  PlacesAreNew'
  <2> DEFINE row == [kind |-> "place", hold |-> h, stage |-> "proven", company |-> c]
  <2>1. /\ order' = [order EXCEPT ![o] = row] /\ order[o] = NoOrder
        /\ hold[h] = {} /\ \A p \in Owners : order[p].hold # h
    BY <1>4 DEF AskPlace
  <2>2. h # "none"
    BY <2>1 DEF NoOrder
  <2>3. row.hold = h
    OBVIOUS
  <2> HIDE DEF row
  <2>4. Fits(row)
    BY <2>1, <2>2, <2>3 DEF Fits, PlacesAreNew
  <2> QED BY <1>3, <2>1, <2>4
<1>5. ASSUME NEW h \in LegalHolds, AskRelease(o, h)
      PROVE  PlacesAreNew'
  <2>1. PICK c \in CompanyOf(h) :
           order' = [order EXCEPT ![o] = [kind |-> "release", hold |-> h, stage |-> "proven", company |-> c]]
    BY <1>5 DEF AskRelease
  <2> DEFINE row == [kind |-> "release", hold |-> h, stage |-> "proven", company |-> c]
  <2>2. hold[h] # {}
    BY <1>5 DEF AskRelease, Active
  <2>3. row.kind # "place" /\ row.hold = h
    OBVIOUS
  <2>4. order' = [order EXCEPT ![o] = row]
    BY <2>1
  <2> HIDE DEF row
  <2>5. \A p \in Owners \ {o} : order[p].kind = "place" => row.hold # order[p].hold
    BY <2>2, <2>3 DEF PlacesAreNew
  <2>6. Fits(row)
    BY <2>3, <2>5 DEF Fits
  <2> QED BY <1>3, <2>4, <2>6
<1>6. CASE LockHolds(o)
  <2> DEFINE row == [order[o] EXCEPT !.stage = "locked"]
  <2>1. order' = [order EXCEPT ![o] = row] /\ order[o].stage = "proven"
    BY <1>1, <1>6 DEF LockHolds
  <2>2. order[o] \in OpenOrder
    BY <1>1, <2>1 DEF NoOrder
  <2>3. row.kind = order[o].kind /\ row.hold = order[o].hold
    BY <2>2 DEF OpenOrder
  <2> HIDE DEF row
  <2>4. \A p \in Owners \ {o} : order[p].kind = "place" => row.hold # order[p].hold
    BY <2>3 DEF PlacesAreNew
  <2>5. row.kind = "place" => /\ hold[row.hold] = {} /\ row.hold # "none"
                              /\ \A p \in Owners \ {o} : order[p].hold # row.hold
    BY <2>3 DEF PlacesAreNew
  <2>6. Fits(row)
    BY <2>4, <2>5 DEF Fits
  <2> QED BY <1>2, <1>3, <2>1, <2>6
<1>7. CASE FailOrder(o)
  <2>1. order' = [order EXCEPT ![o] = NoOrder]
    BY <1>7 DEF FailOrder
  <2>2. NoOrder.kind # "place" /\ NoOrder.hold = "none"
    BY DEF NoOrder
  <2>3. \A p \in Owners \ {o} : order[p].kind = "place" => NoOrder.hold # order[p].hold
    BY <2>2 DEF PlacesAreNew
  <2>4. Fits(NoOrder)
    BY <2>2, <2>3 DEF Fits
  <2> QED BY <1>2, <1>3, <2>1, <2>4
<1> QED BY <1>2, <1>4, <1>5, <1>6, <1>7

\* the row of a hold is written for the first time, or marked as released
LEMMA HoldsWritten ==
    ASSUME AuditInv, PlacesAreNew, NEW o \in Owners, PlaceOrder(o) \/ ReleaseOrder(o)
    PROVE  PlacesAreNew' /\ \A h \in LegalHolds : HoldStays(h)
<1>1. /\ order \in [Owners -> OpenOrder \cup {NoOrder}] /\ hold \in [LegalHolds -> SUBSET HoldRow]
      /\ order[o].stage = "locked" /\ order' = [order EXCEPT ![o] = NoOrder]
  BY DEF AuditInv, AuditTyped, PlaceOrder, ReleaseOrder
<1> DEFINE h == order[o].hold
<1>2. order[o] \in OpenOrder /\ h \in LegalHolds
  BY <1>1 DEF NoOrder, OpenOrder
<1>3. PICK rows : hold' = [hold EXCEPT ![h] = rows]
  BY DEF PlaceOrder, ReleaseOrder
<1>4. \A g \in LegalHolds : g # h => hold'[g] = hold[g]
  BY <1>1, <1>3
<1>5. \A p \in Owners : p # o => order'[p] = order[p]
  BY <1>1
<1>6. order'[o].kind # "place" /\ order'[o].hold = "none"
  BY <1>1 DEF NoOrder
<1>7. \A p \in Owners : p # o /\ order[p].kind = "place" => order[p].hold # h /\ order[p].hold \in LegalHolds
  <2>1. \A p \in Owners : p # o /\ order[p].kind = "place" => order[p].hold # h
    BY DEF PlacesAreNew
  <2>2. \A p \in Owners : order[p].kind = "place" => order[p].hold \in LegalHolds
    BY <1>1 DEF OpenOrder, NoOrder
  <2> QED BY <2>1, <2>2
<1> HIDE DEF h
<1>8. PlacesAreNew'
  BY <1>4, <1>5, <1>6, <1>7 DEF PlacesAreNew
<1>9. HoldStays(h)
  <2>1. CASE PlaceOrder(o)
    <3>1. order[o].kind = "place"
      BY <2>1 DEF PlaceOrder
    <3>2. hold[h] = {}
      BY <3>1 DEF PlacesAreNew, h
    <3> QED BY <3>2 DEF HoldStays
  <2>2. CASE ReleaseOrder(o)
    <3>1. hold' = [hold EXCEPT ![h] = {[k EXCEPT !.released = TRUE] : k \in hold[h]}]
      BY <2>2 DEF ReleaseOrder, h
    <3>2. hold'[h] = {[k EXCEPT !.released = TRUE] : k \in hold[h]}
      BY <1>1, <1>2, <3>1
    <3>3. ASSUME NEW k \in hold[h]
          PROVE  \E j \in hold'[h] :
                    j.company = k.company /\ j.windowed = k.windowed /\ (k.released = TRUE => j.released = TRUE)
      <4> DEFINE j == [k EXCEPT !.released = TRUE]
      <4>1. k \in HoldRow
        BY <1>1, <1>2
      <4>2. j.company = k.company /\ j.windowed = k.windowed /\ j.released = TRUE
        BY <4>1 DEF HoldRow
      <4>3. j \in hold'[h]
        BY <3>2
      <4> QED BY <4>2, <4>3
    <3> QED BY <3>3 DEF HoldStays
  <2> QED BY <2>1, <2>2
<1>10. \A g \in LegalHolds : g # h => HoldStays(g)
  BY <1>4 DEF HoldStays
<1> QED BY <1>8, <1>9, <1>10

\* the rows: stored, aged, deleted
LEMMA RowsUntouched ==
    ASSUME UNCHANGED record
    PROVE  \A e \in Events : RecordStays(e)
  BY DEF RecordStays, SameFact

LEMMA DeliveryHolds ==
    ASSUME AuditInv, BatchIsDue, NEW i \in Deliverers, NEW e \in Events, NEW f \in Facts, Deliver(i, e, f)
    PROVE  BatchIsDue' /\ \A g \in Events : RecordStays(g)
<1>1. UNCHANGED batch /\ record \in [Events -> SUBSET AuditRow]
  BY DEF Deliver, AuditInv, AuditTyped
<1>2. CASE record' = record
  BY <1>1, <1>2, RowsUntouched DEF BatchIsDue
<1>3. CASE record' # record
  <2>1. record[e] = {} /\ \E rows : record' = [record EXCEPT ![e] = rows]
    BY <1>3 DEF Deliver
  <2>2. \A g \in Events : g # e => record'[g] = record[g]
    BY <1>1, <2>1
  <2>3. e \notin batch.doomed \cup batch.deleted
    BY <2>1 DEF AuditInv, BatchOfRows
  <2>4. batch.doomed \cup batch.deleted \subseteq Events
    BY DEF AuditInv, AuditTyped
  <2>5. BatchIsDue'
    BY <1>1, <2>2, <2>3, <2>4 DEF BatchIsDue
  <2>6. \A g \in Events : RecordStays(g)
    BY <2>1, <2>2 DEF RecordStays, SameFact
  <2> QED BY <2>5, <2>6
<1> QED BY <1>2, <1>3

LEMMA AgeHolds ==
    ASSUME AuditInv, BatchIsDue, NEW e \in Events, Age(e)
    PROVE  BatchIsDue' /\ \A g \in Events : RecordStays(g)
<1>1. /\ record' = [record EXCEPT ![e] = {[r EXCEPT !.past = TRUE] : r \in record[e]}]
      /\ UNCHANGED batch /\ record \in [Events -> SUBSET AuditRow]
  BY DEF Age, AuditInv, AuditTyped
<1>2. record'[e] = {[r EXCEPT !.past = TRUE] : r \in record[e]} /\ \A g \in Events : g # e => record'[g] = record[g]
  BY <1>1
<1>3. ASSUME NEW r \in record[e]
      PROVE  SameFact(r, [r EXCEPT !.past = TRUE]) /\ [r EXCEPT !.past = TRUE].past = TRUE
  BY <1>1 DEF AuditRow, SameFact
<1>4. RecordStays(e)
  BY <1>2, <1>3 DEF RecordStays
<1>5. \A g \in Events : g # e => RecordStays(g)
  BY <1>2 DEF RecordStays, SameFact
<1>6. \A s \in record'[e] : s.past = TRUE
  BY <1>2, <1>3
<1>7. batch.doomed \cup batch.deleted \subseteq Events
  BY DEF AuditInv, AuditTyped
<1>8. BatchIsDue'
  BY <1>1, <1>2, <1>6, <1>7 DEF BatchIsDue
<1> QED BY <1>4, <1>5, <1>8

\* a batch takes what it found past its horizon, and its rows are under no hold when it commits
LEMMA RetentionHolds ==
    ASSUME AuditInv, BatchIsDue,
           \/ \E e \in Events : DeleteRow(e)
           \/ Doom \/ CommitBatch \/ CrashBatch
    PROVE  BatchIsDue' /\ \A e \in Events : RecordStays(e)
<1>0. batch \in [doomed : SUBSET Events, deleted : SUBSET Events, open : BOOLEAN]
  BY DEF AuditInv, AuditTyped
<1>1. ASSUME NEW e \in Events, DeleteRow(e)
      PROVE  BatchIsDue' /\ UNCHANGED record
  <2>1. UNCHANGED record /\ e \in batch.doomed
    BY <1>1 DEF DeleteRow
  <2>2. CASE batch' = NoBatch
    BY <2>1, <2>2 DEF BatchIsDue, NoBatch
  <2>3. CASE batch' # NoBatch
    <3>1. batch' = [batch EXCEPT !.doomed = batch.doomed \ {e}, !.deleted = batch.deleted \cup {e}]
      BY <1>1, <2>3 DEF DeleteRow
    <3>2. batch'.doomed = batch.doomed \ {e} /\ batch'.deleted = batch.deleted \cup {e}
      BY <1>0, <3>1
    <3> QED BY <2>1, <3>2 DEF BatchIsDue
  <2> QED BY <2>2, <2>3
<1>2. CASE Doom
  <2>1. PICK d \in SUBSET Candidates : batch' = [doomed |-> d, deleted |-> {}, open |-> TRUE]
    BY <1>2 DEF Doom
  <2>2. UNCHANGED record /\ batch'.doomed = d /\ batch'.deleted = {}
    BY <1>2, <2>1 DEF Doom
  <2>3. ASSUME NEW e \in d, NEW r \in record[e]
        PROVE  r.past = TRUE
    <3>1. e \in Events /\ \E s \in record[e] : s.past
      BY <2>3 DEF Candidates
    <3>2. AtMostOne(record[e]) /\ record[e] \subseteq AuditRow
      BY <3>1 DEF AuditInv, AuditTyped
    <3>3. r.past
      BY <2>3, <3>1, <3>2 DEF AtMostOne
    <3> QED BY <2>3, <3>2, <3>3 DEF AuditRow
  <2>4. BatchIsDue'
    BY <2>2, <2>3 DEF BatchIsDue
  <2> QED BY <2>2, <2>4, RowsUntouched
<1>3. CASE CommitBatch
  <2>1. /\ \A e \in Events : record'[e] = IF e \in batch.deleted THEN {} ELSE record[e]
        /\ batch' = NoBatch
    BY <1>3 DEF CommitBatch
  <2>2. BatchIsDue'
    BY <2>1 DEF BatchIsDue, NoBatch
  <2>3. ASSUME NEW e \in Events, e \in batch.deleted
        PROVE  RecordStays(e)
    <3>1. record'[e] = {} /\ \A r \in record[e] : r.past = TRUE
      BY <2>1, <2>3 DEF BatchIsDue
    <3>2. ~IsHeld(e)
      BY <2>3 DEF AuditInv, HoldsAreKept
    <3> QED BY <3>1, <3>2 DEF RecordStays
  <2>4. ASSUME NEW e \in Events, e \notin batch.deleted
        PROVE  RecordStays(e)
    BY <2>1, <2>4 DEF RecordStays, SameFact
  <2> QED BY <2>2, <2>3, <2>4
<1>4. CASE CrashBatch
  BY <1>4, RowsUntouched DEF CrashBatch, BatchIsDue, NoBatch
<1> QED BY <1>1, <1>2, <1>3, <1>4, RowsUntouched

LEMMA AuditHolds ==
    ASSUME AuditInv, PlacesAreNew, BatchIsDue, [AuditNext]_auditVars
    PROVE  PlacesAreNew' /\ BatchIsDue' /\ AuditStays
<1> DEFINE Orders == PlacesAreNew' /\ \A h \in LegalHolds : HoldStays(h)
           Rows   == BatchIsDue' /\ \A e \in Events : RecordStays(e)
<1>1. UNCHANGED <<hold, order>> => Orders
  BY DEF PlacesAreNew, HoldStays
<1>2. UNCHANGED <<record, batch>> => Rows
  BY RowsUntouched DEF BatchIsDue
<1>3. UNCHANGED hold => \A h \in LegalHolds : HoldStays(h)
  BY DEF HoldStays
<1>4. ASSUME NEW o \in Owners,
             \/ \E h \in LegalHolds, c \in Companies : AskPlace(o, h, c)
             \/ \E h \in LegalHolds : AskRelease(o, h)
             \/ LockHolds(o) \/ FailOrder(o)
      PROVE  Orders /\ Rows
  <2>1. UNCHANGED <<record, batch>>
    BY <1>4 DEF AskPlace, AskRelease, LockHolds, FailOrder
  <2> QED BY <1>2, <1>3, <1>4, <2>1, OrdersHold
<1>5. ASSUME NEW o \in Owners, PlaceOrder(o) \/ ReleaseOrder(o)
      PROVE  Orders /\ Rows
  <2>1. UNCHANGED <<record, batch>>
    BY <1>5 DEF PlaceOrder, ReleaseOrder
  <2> QED BY <1>2, <1>5, <2>1, HoldsWritten
<1>6. ASSUME NEW i \in Deliverers, NEW e \in Events, NEW f \in Facts, Deliver(i, e, f)
      PROVE  Orders /\ Rows
  <2>1. UNCHANGED <<hold, order>>
    BY <1>6 DEF Deliver
  <2> QED BY <1>1, <1>6, <2>1, DeliveryHolds
<1>7. ASSUME NEW i \in Deliverers, AnswerDuplicate(i)
      PROVE  Orders /\ Rows
  <2>1. UNCHANGED <<record, hold, order, batch>>
    BY <1>7 DEF AnswerDuplicate
  <2> QED BY <1>1, <1>2, <2>1
<1>8. ASSUME NEW e \in Events, Age(e)
      PROVE  Orders /\ Rows
  <2>1. UNCHANGED <<hold, order>>
    BY <1>8 DEF Age
  <2> QED BY <1>1, <1>8, <2>1, AgeHolds
<1>9. ASSUME \/ \E e \in Events : DeleteRow(e)
             \/ Doom \/ CommitBatch \/ CrashBatch
      PROVE  Orders /\ Rows
  <2>1. UNCHANGED <<hold, order>>
    BY <1>9 DEF DeleteRow, Doom, CommitBatch, CrashBatch
  <2> QED BY <1>1, <1>9, <2>1, RetentionHolds
<1>10. UNCHANGED auditVars => Orders /\ Rows
  BY <1>1, <1>2 DEF auditVars
<1> HIDE DEF Orders, Rows
<1>11. Orders /\ Rows
  BY <1>4, <1>5, <1>6, <1>7, <1>8, <1>9, <1>10 DEF AuditNext
<1> QED BY <1>11 DEF Orders, Rows, AuditStays
-----------------------------------------------------------------------------
(* Releases: a withdrawn one never returns, only a published one is         *)
(* withdrawn, and the policies are appended to, each with its evidence, by *)
(* the release that is published when it becomes the minimum.              *)

\* a withdrawal is of a release that was published
WithdrawsPublished ==
    \A p \in Admins : change[p].kind = "withdraw" => release[change[p].version] \in {"published", "withdrawn"}

ReleaseGoesOn(old, new) ==
    \/ new = old
    \/ old = "none" /\ new = "registered"
    \/ old = "registered" /\ new = "published"
    \/ old = "published" /\ new = "withdrawn"
PolicyAppended ==
    \E m \in Stable :
       /\ minimum' = Append(minimum, m)
       /\ release[m] = "published"
       /\ \E i \in intent' : i.from = Len(minimum) /\ i.minimum = m
ReleasesStay ==
    /\ \A v \in Versions : ReleaseGoesOn(release[v], release'[v])
    /\ intent \subseteq intent'
    /\ minimum' = minimum \/ PolicyAppended

LEMMA AutomationHolds ==
    ASSUME ReleaseInv, WithdrawsPublished, NEW v \in Versions, RegisterVersion(v) \/ PublishVersion(v)
    PROVE  WithdrawsPublished' /\ ReleasesStay
<1>1. release \in [Versions -> {"none", "registered", "published", "withdrawn"}]
  BY DEF ReleaseInv, ReleaseTyped
<1>2. UNCHANGED <<minimum, change, intent>>
  BY DEF RegisterVersion, PublishVersion
<1>3. PICK s \in {"registered", "published"} :
         /\ release' = [release EXCEPT ![v] = s]
         /\ \/ release[v] = "none" /\ s = "registered"
            \/ release[v] = "registered" /\ s = "published"
  BY DEF RegisterVersion, PublishVersion
<1>4. \A w \in Versions : release'[w] = IF w = v THEN s ELSE release[w]
  BY <1>1, <1>3
<1>5. \A w \in Versions : ReleaseGoesOn(release[w], release'[w])
  BY <1>3, <1>4 DEF ReleaseGoesOn
<1>6. ASSUME NEW p \in Admins, change[p].kind = "withdraw"
      PROVE  release'[change[p].version] \in {"published", "withdrawn"}
  <2>1. release[change[p].version] \in {"published", "withdrawn"}
    BY <1>6 DEF WithdrawsPublished
  <2>2. change[p].version \in Versions
    BY <1>6 DEF ReleaseInv, ReleaseTyped, OpenChange, NoChange
  <2> QED BY <1>3, <1>4, <2>1, <2>2
<1> QED BY <1>2, <1>5, <1>6 DEF WithdrawsPublished, ReleasesStay

\* a request writes its own row only
LEMMA ChangeWritten ==
    ASSUME ReleaseInv, WithdrawsPublished, UNCHANGED release,
           NEW p \in Admins, NEW row, change' = [change EXCEPT ![p] = row],
           row.kind = "withdraw" => release[row.version] \in {"published", "withdrawn"}
    PROVE  WithdrawsPublished'
<1>1. change \in [Admins -> OpenChange \cup {NoChange}]
  BY DEF ReleaseInv, ReleaseTyped
<1>2. \A q \in Admins : change'[q] = IF q = p THEN row ELSE change[q]
  BY <1>1
<1> QED BY <1>2 DEF WithdrawsPublished

LEMMA ChangeEnded ==
    ASSUME ReleaseInv, WithdrawsPublished, UNCHANGED release,
           NEW p \in Admins, change' = [change EXCEPT ![p] = NoChange]
    PROVE  WithdrawsPublished'
<1>1. NoChange.kind # "withdraw"
  BY DEF NoChange
<1> QED BY <1>1, ChangeWritten

LEMMA ChangeStaged ==
    ASSUME ReleaseInv, WithdrawsPublished, UNCHANGED release,
           NEW p \in Admins, NEW s, change' = [change EXCEPT ![p].stage = s]
    PROVE  WithdrawsPublished'
<1> DEFINE row == [change[p] EXCEPT !.stage = s]
<1>1. change[p] \in OpenChange \cup {NoChange}
  BY DEF ReleaseInv, ReleaseTyped
<1>2. change[p].kind = "withdraw" => row.kind = "withdraw" /\ row.version = change[p].version
  BY <1>1 DEF OpenChange, NoChange
<1>3. change[p].kind # "withdraw" => row.kind # "withdraw"
  BY <1>1 DEF OpenChange, NoChange
<1>4. change' = [change EXCEPT ![p] = row]
  OBVIOUS
<1> HIDE DEF row
<1>5. row.kind = "withdraw" => release[row.version] \in {"published", "withdrawn"}
  BY <1>2, <1>3 DEF WithdrawsPublished
<1> QED BY <1>4, <1>5, ChangeWritten

LEMMA WithdrawalAsked ==
    ASSUME ReleaseInv, WithdrawsPublished, NEW p \in Admins, NEW v \in Versions, AskWithdraw(p, v)
    PROVE  WithdrawsPublished'
<1> DEFINE row == [NoChange EXCEPT !.kind = "withdraw", !.version = v, !.stage = "asked"]
<1>1. change' = [change EXCEPT ![p] = row] /\ release[v] \in {"published", "withdrawn"} /\ UNCHANGED release
  BY DEF AskWithdraw
<1>2. row.version = v
  BY DEF NoChange
<1> HIDE DEF row
<1> QED BY <1>1, <1>2, ChangeWritten

LEMMA ChangeAsked ==
    ASSUME ReleaseInv, WithdrawsPublished, NEW p \in Admins, NEW v \in Versions, AskChange(p, v)
    PROVE  WithdrawsPublished'
<1> DEFINE row == [NoChange EXCEPT !.kind = "change", !.version = v, !.stage = "asked", !.expected = Len(minimum)]
<1>1. change' = [change EXCEPT ![p] = row] /\ UNCHANGED release
  BY DEF AskChange
<1>2. row.kind # "withdraw"
  BY DEF NoChange
<1> HIDE DEF row
<1> QED BY <1>1, <1>2, ChangeWritten

LEMMA ChangeChecked ==
    ASSUME ReleaseInv, WithdrawsPublished, NEW p \in Admins, CheckAgain(p)
    PROVE  WithdrawsPublished'
<1>1. UNCHANGED release
  BY DEF CheckAgain
<1>2. CASE EndChange(p)
  BY <1>1, <1>2, ChangeEnded DEF EndChange
<1>3. CASE change' = [change EXCEPT ![p].stage = "written", ![p].previous = CurrentMinimum]
  <2> DEFINE row == [change[p] EXCEPT !.stage = "written", !.previous = CurrentMinimum]
  <2>1. change[p] \in OpenChange \cup {NoChange} /\ change \in [Admins -> OpenChange \cup {NoChange}]
    BY DEF ReleaseInv, ReleaseTyped
  <2>2. change[p].kind = "withdraw" => row.kind = "withdraw" /\ row.version = change[p].version
    BY <2>1 DEF OpenChange, NoChange
  <2>3. change[p].kind # "withdraw" => row.kind # "withdraw"
    BY <2>1 DEF OpenChange, NoChange
  <2>4. change' = [change EXCEPT ![p] = row]
    BY <1>3, <2>1
  <2> HIDE DEF row
  <2>5. row.kind = "withdraw" => release[row.version] \in {"published", "withdrawn"}
    BY <2>2, <2>3 DEF WithdrawsPublished
  <2> QED BY <1>1, <2>4, <2>5, ChangeWritten
<1> QED BY <1>2, <1>3 DEF CheckAgain

\* what commits was checked under the lock
LEMMA CommitsHold ==
    ASSUME ReleaseInv, WithdrawsPublished, NEW p \in Admins, CommitChange(p)
    PROVE  WithdrawsPublished' /\ ReleasesStay
<1> DEFINE v == change[p].version
<1>1. /\ release \in [Versions -> {"none", "registered", "published", "withdrawn"}]
      /\ change \in [Admins -> OpenChange \cup {NoChange}] /\ change[p].stage = "written"
  BY DEF CommitChange, ReleaseInv, ReleaseTyped
<1>2. change[p] \in OpenChange /\ v \in Versions /\ ChangeAllowed(p)
  BY <1>1 DEF OpenChange, NoChange, ReleaseInv, WrittenStands
<1>3. ASSUME NEW q \in Admins, change'[q].kind = "withdraw"
      PROVE  change[q].kind = "withdraw" /\ change'[q].version = change[q].version /\ change[q].version \in Versions
  <2>1. NoChange.kind # "withdraw"
    BY DEF NoChange
  <2>2. change'[q] = [change[q] EXCEPT !.raced = TRUE] /\ change[q] # NoChange
    BY <1>3, <2>1 DEF CommitChange
  <2>3. change[q] \in OpenChange
    BY <1>1, <2>2
  <2> QED BY <1>3, <2>2, <2>3 DEF OpenChange
<1>4. CASE change[p].kind = "withdraw"
  <2>1. release' = [release EXCEPT ![v] = "withdrawn"] /\ UNCHANGED <<minimum, intent>>
    BY <1>4 DEF CommitChange
  <2>2. release[v] \in {"published", "withdrawn"}
    BY <1>4 DEF WithdrawsPublished
  <2>3. \A w \in Versions : release'[w] = IF w = v THEN "withdrawn" ELSE release[w]
    BY <1>1, <2>1
  <2>4. WithdrawsPublished'
    BY <1>3, <2>3 DEF WithdrawsPublished
  <2>5. \A w \in Versions : ReleaseGoesOn(release[w], release'[w])
    BY <2>2, <2>3 DEF ReleaseGoesOn
  <2> QED BY <2>1, <2>4, <2>5 DEF ReleasesStay
<1>5. CASE change[p].kind = "change"
  <2>1. /\ minimum' = Append(minimum, v) /\ UNCHANGED release
        /\ intent' = intent \cup {[from |-> change[p].expected, minimum |-> v, previous |-> change[p].previous]}
    BY <1>5 DEF CommitChange
  <2>2. v \in Stable
    BY <1>5 DEF ReleaseInv, ReleaseTyped
  <2>3. release[v] = "published" /\ change[p].expected = Len(minimum)
    BY <1>2, <1>5 DEF ChangeAllowed, IsNext
  <2>4. PolicyAppended
    <3> DEFINE i == [from |-> change[p].expected, minimum |-> v, previous |-> change[p].previous]
    <3>1. i \in intent'
      BY <2>1
    <3>2. i.from = Len(minimum) /\ i.minimum = v
      BY <2>3
    <3> HIDE DEF i, v
    <3> QED BY <2>1, <2>2, <2>3, <3>1, <3>2 DEF PolicyAppended
  <2>5. WithdrawsPublished'
    BY <1>3, <2>1 DEF WithdrawsPublished
  <2> QED BY <2>1, <2>4, <2>5 DEF ReleasesStay, ReleaseGoesOn
<1> QED BY <1>2, <1>4, <1>5 DEF OpenChange

LEMMA ReleasesHold ==
    ASSUME ReleaseInv, WithdrawsPublished, [ReleaseNext]_releaseVars
    PROVE  WithdrawsPublished' /\ ReleasesStay
<1> DEFINE Kept == WithdrawsPublished' /\ ReleasesStay
<1>1. UNCHANGED <<release, minimum, intent>> => ReleasesStay
  BY DEF ReleasesStay, ReleaseGoesOn
<1>2. UNCHANGED <<release, change>> => WithdrawsPublished'
  BY DEF WithdrawsPublished
<1>3. UNCHANGED releaseVars => Kept
  BY <1>1, <1>2 DEF releaseVars
<1>4. ASSUME NEW v \in Installed, AskCompatibility(v)
      PROVE  Kept
  BY <1>1, <1>2, <1>4 DEF AskCompatibility
<1>5. ASSUME NEW p \in Admins, NEW v \in Versions, AskWithdraw(p, v)
      PROVE  Kept
  <2>1. UNCHANGED <<release, minimum, intent>>
    BY <1>5 DEF AskWithdraw
  <2> QED BY <1>1, <1>5, <2>1, WithdrawalAsked
<1>6. ASSUME NEW p \in Admins, NEW v \in Versions, AskChange(p, v)
      PROVE  Kept
  <2>1. UNCHANGED <<release, minimum, intent>>
    BY <1>6 DEF AskChange
  <2> QED BY <1>1, <1>6, <2>1, ChangeAsked
<1>7. ASSUME NEW p \in Admins, ProveChange(p) \/ LockComponent(p) \/ AbandonChange(p)
      PROVE  Kept
  <2>1. UNCHANGED <<release, minimum, intent>>
    BY <1>7 DEF ProveChange, LockComponent, AbandonChange
  <2>2. \/ change' = [change EXCEPT ![p] = NoChange]
        \/ \E s : change' = [change EXCEPT ![p].stage = s]
    BY <1>7 DEF ProveChange, LockComponent, AbandonChange, EndChange
  <2> QED BY <1>1, <2>1, <2>2, ChangeEnded, ChangeStaged
<1>8. ASSUME NEW p \in Admins, CheckAgain(p)
      PROVE  Kept
  <2>1. UNCHANGED <<release, minimum, intent>>
    BY <1>8 DEF CheckAgain
  <2> QED BY <1>1, <1>8, <2>1, ChangeChecked
<1>9. ASSUME NEW p \in Admins, CommitChange(p)
      PROVE  Kept
  BY <1>9, CommitsHold
<1>10. ASSUME NEW v \in Versions, RegisterVersion(v) \/ PublishVersion(v)
       PROVE  Kept
  BY <1>10, AutomationHolds
<1> HIDE DEF Kept
<1>11. Kept
  BY <1>3, <1>4, <1>5, <1>6, <1>7, <1>8, <1>9, <1>10 DEF ReleaseNext
<1> QED BY <1>11 DEF Kept

-----------------------------------------------------------------------------
(* The services together: a step of one leaves the rows of the others      *)

ServicesInv ==
    SessionInv /\ ReceiptInv /\ FileInv /\ LinkInv /\ OwnershipInv /\ AuditInv /\ ReleaseInv

LEMMA EachStepsAlone ==
    [Next]_vars => /\ [SessionNext]_sessionVars /\ [ReceiptNext]_receiptVars
                   /\ [FileNext]_fileVars /\ [LinkNext]_linkVars
                   /\ [OwnershipNext]_ownershipVars /\ [AuditNext]_auditVars /\ [ReleaseNext]_releaseVars
  BY DEF Next, vars, credentialVars, storageVars

LEMMA ServicesInvAlways == Services => []ServicesInv
<1>1. Init => ServicesInv
  BY SessionsInitially, ReceiptsInitially, FilesInitially, LinksInitially, OwnershipInitially, AuditInitially,
     ReleaseInitially DEF Init, ServicesInv
<1>2. ServicesInv /\ [Next]_vars => ServicesInv'
  BY EachStepsAlone, SessionStep, ReceiptStep, FileStep, LinkStep, OwnershipStep, AuditStep, ReleaseStep
     DEF ServicesInv
<1> QED BY <1>1, <1>2, PTL DEF Services

\* what the histories of the rows need besides: see each service above
HistoryInv == ReplacedIsRevoked /\ SingleUses /\ PlacesAreNew /\ BatchIsDue /\ WithdrawsPublished
RowsStay   == SessionsStay /\ ReceiptsStay /\ FilesStay /\ LinksStay /\ OwnershipStays /\ AuditStays /\ ReleasesStay

LEMMA HistoryStep ==
    ServicesInv /\ HistoryInv /\ [Next]_vars => HistoryInv' /\ RowsStay
<1> SUFFICES ASSUME ServicesInv, HistoryInv, [Next]_vars
             PROVE  HistoryInv' /\ RowsStay
  OBVIOUS
<1>1. ReplacedIsRevoked' /\ SessionsStay /\ ReceiptsStay
  BY EachStepsAlone, SessionsHold, ReceiptsHold DEF ServicesInv, HistoryInv
<1>2. FilesStay /\ SingleUses' /\ LinksStay
  BY EachStepsAlone, FilesHold, LinksHold DEF ServicesInv, HistoryInv
<1>3. OwnershipStays /\ PlacesAreNew' /\ BatchIsDue' /\ AuditStays
  BY EachStepsAlone, OwnershipHolds, AuditHolds DEF ServicesInv, HistoryInv
<1>4. WithdrawsPublished' /\ ReleasesStay
  BY EachStepsAlone, ReleasesHold DEF ServicesInv, HistoryInv
<1> QED BY <1>1, <1>2, <1>3, <1>4 DEF HistoryInv, RowsStay

LEMMA HistoryInitially == Init => HistoryInv
<1> SUFFICES ASSUME Init
             PROVE  HistoryInv
  OBVIOUS
<1>1. ReplacedIsRevoked
  BY DEF Init, SessionsStart, Absent, ReplacedIsRevoked
<1>2. SingleUses
  BY DEF Init, NoLinks, NoLink, SingleUses
<1>3. PlacesAreNew /\ BatchIsDue
  BY DEF Init, NothingAudited, NoOrder, NoBatch, PlacesAreNew, BatchIsDue
<1>4. WithdrawsPublished
  BY DEF Init, NothingChanged, NoChange, WithdrawsPublished
<1> QED BY <1>1, <1>2, <1>3, <1>4 DEF HistoryInv

LEMMA HistoryInvAlways == Services => []HistoryInv
<1> QED BY HistoryInitially, HistoryStep, ServicesInvAlways, PTL DEF Services

\* Sessions, receipts, files, download tickets, the ownership rows, audit records with their holds and
\* releases with their policies keep their shape, for any number of each.
THEOREM ServicesTypeCorrect == Services => []ServicesTypeOK
<1>1. ServicesInv => ServicesTypeOK
  BY AuditTypeCorrect, ReleaseConclusions, LinksConclude
     DEF ServicesInv, ServicesTypeOK, SessionInv, ReceiptInv, FileInv, OwnershipInv
<1> QED BY <1>1, ServicesInvAlways, PTL

\* A session that ended stays ended and has one token that can be rotated at most, in whatever order
\* rotations, logouts, suspensions and revocations commit (rotate(), revokeAllForUser()); what a
\* service was told was consumed is consumed for good, an Owner told of a lost answer holds nothing
\* that can be consumed, and as many proofs are spent as there are receipts (issue(), consume(),
\* answerReplay()).
THEOREM CredentialsSoundAlways == Services => []CredentialsSound
<1>1. ServicesInv => CredentialsSound
  BY DEF ServicesInv, CredentialsSound, SessionsSound, ReceiptsSound, SessionInv, ReceiptInv
<1> QED BY <1>1, ServicesInvAlways, PTL

\* An available file has its bytes, unless its completion was answered with an error; a deleted one has
\* none; a held one is not deleted and an attached one only at its owner's request, whatever worker or
\* request stopped half way (upload.service.ts, cleanup.worker.ts).  A single-use ticket is answered
\* with once and a reusable one at most as often as it counted (claimDownload(), settleLease()).
THEOREM StorageSoundAlways == Services => []StorageSound
<1>1. ServicesInv => StorageSound
  BY LinksConclude DEF ServicesInv, StorageSound, FilesSound, FileInv
<1> QED BY <1>1, ServicesInvAlways, PTL

\* What became authoritative is what was verified and approved, for any number of operators and
\* writers, unless the transition was rolled back, or a bootstrap committed, between what an activation
\* measured and what it wrote (activate(), ownership_state_guard).
THEOREM OwnershipSoundAlways == Services => []OwnershipSound
<1>1. ServicesInv => OwnershipSound
  BY DEF ServicesInv, OwnershipInv, OwnershipSound
<1> QED BY <1>1, ServicesInvAlways, PTL

\* Retention deletes no record under a legal hold in force, however an order and a batch interleave, and
\* every delivery acknowledged for a stored event said what its row says (audit_record_hold_guard).
THEOREM AuditSoundAlways == Services => []AuditSound
<1>1. ServicesInv => AuditSound
  BY DEF ServicesInv, AuditInv, AuditSound
<1> QED BY <1>1, ServicesInvAlways, PTL

\* A client can always reach the minimum, no change of the minimum replaces one its administrator had not
\* seen, no step-up is spent on a refusal no concurrent change explains, and a tag that matches never keeps a client
\* on a decision that has changed (the lock of the component, compatibilityEtag()).
THEOREM ReleasesSoundAlways == Services => []ReleasesSound
<1>1. ServicesInv => ReleasesSound
  BY ReleaseConclusions DEF ServicesInv
<1> QED BY <1>1, ServicesInvAlways, PTL

\* No step takes a credential back: a token stays in the session it was issued for, a revoked one stays
\* revoked, and only a live one that was never replaced is replaced, which revokes it (rotate(),
\* revokeAllForUser()); a receipt keeps its content, one consumed or voided stays so, and what was
\* told or spent is so for ever (issue(), consume(), answerReplay()).
THEOREM CredentialsStayAlways == Services => [][SessionsStay /\ ReceiptsStay]_vars
<1>1. ServicesInv /\ HistoryInv /\ [Next]_vars => [SessionsStay /\ ReceiptsStay]_vars
  BY HistoryStep DEF RowsStay
<1> QED BY <1>1, ServicesInvAlways, HistoryInvAlways, PTL DEF Services

\* No step takes back how an upload or a deletion ended: an available row leaves its status for a
\* deletion only, and not while a hold is active, a deletion never turns back, and bytes come into the
\* store only for an upload still in time, whichever request or worker crashed or answers late
\* (upload.service.ts, cleanup.worker.ts).  A ticket keeps what it was issued as, stays revoked (which
\* stands for a purged row too) and counts its uses upwards; an outcome settled for a lease changes
\* at most from uncertain to committed (settleLease(), settleExpiredLeases()).
THEOREM StorageStaysAlways == Services => [][FilesStay /\ LinksStay]_vars
<1>1. ServicesInv /\ HistoryInv /\ [Next]_vars => [FilesStay /\ LinksStay]_vars
  BY HistoryStep DEF RowsStay
<1> QED BY <1>1, ServicesInvAlways, HistoryInvAlways, PTL DEF Services

\* A declared class is for good; authority is taken only from an approved ACTIVATABLE row and never
\* given back, with the evidence it was taken on untouched; and a return to PREPARED clears the
\* evidence, whatever commands and writes run side by side (ownership_state_guard, activate()).
THEOREM OwnershipStaysAlways == Services => [][OwnershipStays]_vars
<1>1. ServicesInv /\ HistoryInv /\ [Next]_vars => [OwnershipStays]_vars
  BY HistoryStep DEF RowsStay
<1> QED BY <1>1, ServicesInvAlways, HistoryInvAlways, PTL DEF Services

\* An audit row keeps its fact, its Company and its window; it goes only past its horizon and while
\* no hold covers it, whatever an order places between the snapshot of a batch and its commit; and a hold
\* stays what it was placed as, a released one released (audit_record_hold_guard(), ReleaseOrder).
THEOREM AuditStaysAlways == Services => [][AuditStays]_vars
<1>1. ServicesInv /\ HistoryInv /\ [Next]_vars => [AuditStays]_vars
  BY HistoryStep DEF RowsStay
<1> QED BY <1>1, ServicesInvAlways, HistoryInvAlways, PTL DEF Services

\* A release goes from registered to published to withdrawn and never back, a new minimum is a
\* release that is published when it commits, and every policy is appended with the audit intent of
\* its place (compatibility_policy_append, the lock of the component).
THEOREM ReleasesStayAlways == Services => [][ReleasesStay]_vars
<1>1. ServicesInv /\ HistoryInv /\ [Next]_vars => [ReleasesStay]_vars
  BY HistoryStep DEF RowsStay
<1> QED BY <1>1, ServicesInvAlways, HistoryInvAlways, PTL DEF Services

=============================================================================
