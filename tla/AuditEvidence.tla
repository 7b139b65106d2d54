--------------------------- MODULE AuditEvidence ---------------------------
(***************************************************************************)
(* What audit-service keeps: the records its ingestion stores, the legal   *)
(* holds an owner places over the records of a Company, and the retention  *)
(* run that purges what is past its horizon.  The three meet only in the   *)
(* database: ingestion inserts in one statement and compares a conflict in *)
(* another; a batch of the purge selects its rows in one snapshot and      *)
(* checks each again when it deletes it; a hold takes its Company's        *)
(* advisory lock EXCLUSIVE, a deletion takes it SHARED.                    *)
(***************************************************************************)
EXTENDS Naturals, FiniteSets

CONSTANTS
    Events,         \* (sourceService, eventId)
    Facts,          \* the evidence two deliveries of an event may disagree on
    Companies,
    Deliverers,     \* deliveries in hand
    LegalHolds,
    Owners,         \* requests to place or to release a hold
    BatchSize

ASSUME BatchesHaveRows == BatchSize \in Nat \ {0}

VARIABLES
    record,         \* the row of each event: a set of at most one
    delivery,       \* of each consumer
    acked,          \* the facts acknowledged since the row was stored (history)
    hold,           \* each hold's placement and release
    order,          \* what each owner's request is doing
    batch           \* the transaction of the retention run

auditVars == <<record, delivery, acked, hold, order, batch>>

NoDelivery == [event |-> "none", fact |-> "none", conflict |-> FALSE]
Unscoped   == "unscoped"
NoOrder    == [kind |-> "none", hold |-> "none", stage |-> "idle", company |-> Unscoped]
NoBatch    == [doomed |-> {}, deleted |-> {}, open |-> FALSE]

NothingAudited ==
    /\ record = [e \in Events |-> {}]
    /\ delivery = [c \in Deliverers |-> NoDelivery]
    /\ acked = [e \in Events |-> {}]
    /\ hold = [h \in LegalHolds |-> {}]
    /\ order = [o \in Owners |-> NoOrder]
    /\ batch = NoBatch

-----------------------------------------------------------------------------
(* Holds *)

\* audit_record_is_held(): an active hold of the record's trusted Company, whose window it is in
Active(h) == \E k \in hold[h] : ~k.released
Covers(k, r) == k.company = r.company /\ (k.windowed => r.inWindow)
IsHeld(e) == \E h \in LegalHolds : Active(h) /\ \E k \in hold[h], r \in record[e] : Covers(k, r)

\* the advisory lock of a Company: exclusive to an order, shared by the rows a batch has deleted
CompanyOf(h) == {k.company : k \in hold[h]}
Exclusive(c) == \E o \in Owners : order[o].stage = "locked" /\ order[o].company = c
Shared(c)    == \E e \in batch.deleted : \E r \in record[e] : r.company = c

\* the step-up is verified on the way
AskPlace(o, h, c) ==
    /\ order[o] = NoOrder
    /\ hold[h] = {}
    /\ \A p \in Owners : order[p].hold # h
    /\ order' = [order EXCEPT ![o] = [kind |-> "place", hold |-> h, stage |-> "proven", company |-> c]]
    /\ UNCHANGED <<record, delivery, acked, hold, batch>>

AskRelease(o, h) ==
    /\ order[o] = NoOrder
    /\ Active(h)
    /\ \E c \in CompanyOf(h) :
          order' = [order EXCEPT ![o] = [kind |-> "release", hold |-> h, stage |-> "proven", company |-> c]]
    /\ UNCHANGED <<record, delivery, acked, hold, batch>>

LockHolds(o) ==
    /\ order[o].stage = "proven"
    /\ ~Exclusive(order[o].company) /\ ~Shared(order[o].company)
    /\ order' = [order EXCEPT ![o].stage = "locked"]
    /\ UNCHANGED <<record, delivery, acked, hold, batch>>

\* the event row and its own audit record, or nothing
PlaceOrder(o) ==
    /\ order[o].stage = "locked" /\ order[o].kind = "place"
    /\ \E windowed \in BOOLEAN :
          hold' = [hold EXCEPT ![order[o].hold] = {[company |-> order[o].company, windowed |-> windowed, released |-> FALSE]}]
    /\ order' = [order EXCEPT ![o] = NoOrder]
    /\ UNCHANGED <<record, delivery, acked, batch>>

\* looked at again under the lock: a concurrent release may have won
ReleaseOrder(o) ==
    /\ order[o].stage = "locked" /\ order[o].kind = "release"
    /\ Active(order[o].hold)
    /\ hold' = [hold EXCEPT ![order[o].hold] = {[k EXCEPT !.released = TRUE] : k \in @}]
    /\ order' = [order EXCEPT ![o] = NoOrder]
    /\ UNCHANGED <<record, delivery, acked, batch>>

\* refused, failed or interrupted: nothing changed
FailOrder(o) ==
    /\ order[o] # NoOrder
    /\ order' = [order EXCEPT ![o] = NoOrder]
    /\ UNCHANGED <<record, delivery, acked, hold, batch>>

-----------------------------------------------------------------------------
(* Ingestion: at least once, and an event may come back with other evidence *)

RecordRow(f, c, w) == [fact |-> f, company |-> c, inWindow |-> w, past |-> FALSE]

\* insertOnce(): one statement; a trusted scope, which a hold may reach, only for a verified producer
Deliver(i, e, f) ==
    /\ delivery[i] = NoDelivery
    /\ IF record[e] = {}
       THEN /\ \E c \in Companies \cup {Unscoped}, w \in BOOLEAN :
                  /\ c = Unscoped => ~w
                  /\ record' = [record EXCEPT ![e] = {RecordRow(f, c, w)}]
            /\ acked' = [acked EXCEPT ![e] = {f}]
            /\ UNCHANGED delivery
       ELSE /\ delivery' = [delivery EXCEPT ![i] = [event |-> e, fact |-> f, conflict |-> TRUE]]
            /\ UNCHANGED <<record, acked>>
    /\ UNCHANGED <<hold, order, batch>>

SameEvidence(r, f) == r.fact = f

\* the stored row is read in a statement of its own: a duplicate is acknowledged, another fact is
\* dead-lettered, and a row purged meanwhile is a transient failure
AnswerDuplicate(i) ==
    /\ delivery[i] # NoDelivery
    /\ LET e == delivery[i].event f == delivery[i].fact
       IN  acked' = IF \E r \in record[e] : SameEvidence(r, f) THEN [acked EXCEPT ![e] = @ \cup {f}] ELSE acked
    /\ delivery' = [delivery EXCEPT ![i] = NoDelivery]
    /\ UNCHANGED <<record, hold, order, batch>>

-----------------------------------------------------------------------------
(* The retention run *)

\* a row passes the horizon of its category
Age(e) ==
    /\ \E r \in record[e] : ~r.past
    /\ record' = [record EXCEPT ![e] = {[r EXCEPT !.past = TRUE] : r \in @}]
    /\ UNCHANGED <<delivery, acked, hold, order, batch>>

Candidates == {e \in Events : ~IsHeld(e) /\ \E r \in record[e] : r.past}

\* the snapshot of the DELETE: the oldest rows, which the model does not tell apart
Doom ==
    /\ ~batch.open
    /\ \E d \in SUBSET Candidates :
          /\ d # {}
          /\ Cardinality(d) <= BatchSize
          /\ d = Candidates \/ Cardinality(d) = BatchSize
          /\ batch' = [doomed |-> d, deleted |-> {}, open |-> TRUE]
    /\ UNCHANGED <<record, delivery, acked, hold, order>>

\* audit_record_hold_guard(): the Company's lock, then a fresh look
MayLock_(e) == TRUE
MayLock(e)  == \A r \in record[e] : ~Exclusive(r.company)

\* audit_record_append_only(): a held row refuses the whole batch
DeleteRow(e) ==
    /\ e \in batch.doomed
    /\ MayLock(e)
    /\ batch' = IF IsHeld(e) THEN NoBatch ELSE [batch EXCEPT !.doomed = @ \ {e}, !.deleted = @ \cup {e}]
    /\ UNCHANGED <<record, delivery, acked, hold, order>>

CommitBatch ==
    /\ batch.open /\ batch.doomed = {}
    /\ record' = [e \in Events |-> IF e \in batch.deleted THEN {} ELSE record[e]]
    /\ acked' = [e \in Events |-> IF e \in batch.deleted THEN {} ELSE acked[e]]
    /\ batch' = NoBatch
    /\ UNCHANGED <<delivery, hold, order>>

CrashBatch ==
    /\ batch.open
    /\ batch' = NoBatch
    /\ UNCHANGED <<record, delivery, acked, hold, order>>

AuditNext ==
    \/ \E o \in Owners, h \in LegalHolds, c \in Companies : AskPlace(o, h, c)
    \/ \E o \in Owners, h \in LegalHolds : AskRelease(o, h)
    \/ \E o \in Owners : LockHolds(o) \/ PlaceOrder(o) \/ ReleaseOrder(o) \/ FailOrder(o)
    \/ \E i \in Deliverers, e \in Events, f \in Facts : Deliver(i, e, f)
    \/ \E i \in Deliverers : AnswerDuplicate(i)
    \/ \E e \in Events : Age(e) \/ DeleteRow(e)
    \/ Doom \/ CommitBatch \/ CrashBatch

-----------------------------------------------------------------------------
(* Properties *)

AuditTypeOK ==
    /\ \A e \in Events : /\ Cardinality(record[e]) <= 1
                         /\ \A r \in record[e] : r.fact \in Facts /\ r.company \in Companies \cup {Unscoped}
                         /\ acked[e] \subseteq Facts
    /\ \A h \in LegalHolds : Cardinality(hold[h]) <= 1
    /\ batch.doomed \cup batch.deleted \subseteq Events /\ batch.doomed \cap batch.deleted = {}

\* A row a batch has deleted and not committed is under no hold, whatever was placed since its
\* snapshot: a hold that is in force is never broken (audit_record_hold_guard)
HoldsAreKept == \A e \in batch.deleted : ~IsHeld(e)

\* Every delivery acknowledged for a stored event said what the row says, and is accounted for by it
EvidenceIsOne == \A e \in Events : \A r \in record[e] : acked[e] = {r.fact}

AuditSound == HoldsAreKept /\ EvidenceIsOne
=============================================================================
