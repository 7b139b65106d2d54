----------------------- MODULE AuthorizationReceipts -----------------------
(***************************************************************************)
(* The authorization receipts of auth-service: an Owner issues a receipt   *)
(* under a key of their own, with a step-up proof; the service it is bound *)
(* to consumes it once, under a reference of its own.  Both answers can be *)
(* lost, and both sides then ask again: the replay of an issue voids the   *)
(* receipt nobody may hold, the repeat of a consumption finds the first.   *)
(* A receipt is named by the key of its issue.                             *)
(***************************************************************************)
EXTENDS Naturals, FiniteSets

CONSTANTS
    Keys,           \* idempotency keys of an Owner
    Contents,       \* what an issue asks for: a binding
    Proofs,         \* step-up proofs of the Owner
    Issuers,        \* issue requests
    Refs,           \* consumeRefs of the service
    Consumers,      \* consume requests
    MaxLosses       \* bound on lost answers and failed commits

ASSUME LossesAreBounded == MaxLosses \in Nat

VARIABLES
    ask,            \* what each issue request asks for, again and again: a key, a binding, a proof
    issued,         \* row of authorization_receipt, by its key
    spent,          \* step-up proofs consumed
    owner,          \* the issuer is an active Owner of the Company
    elapsed,        \* receipts past their expiresAt
    secrets,        \* receipts whose secret the Owner received
    issuing,        \* what each issue request is doing
    consuming,      \* what each consume request is doing
    told,           \* consumptions the service was told of (history)
    voids,          \* keys answered receipt_issued_response_lost (history)
    losses

receiptVars == <<ask, issued, spent, owner, elapsed, secrets, issuing, consuming, told, voids, losses>>

NoReceipt  == [status |-> "none", content |-> "none", ref |-> "none"]
NotTaking  == [step |-> "idle", key |-> "none", ref |-> "none"]

ReceiptTypeOK ==
    /\ ask \in [Issuers -> [key : Keys, content : Contents, proof : Proofs]]
    /\ issued \in [Keys -> [status : {"none", "issued", "consumed", "voided"},
                            content : Contents \cup {"none"}, ref : Refs \cup {"none"}]]
    /\ spent \in SUBSET Proofs
    /\ owner \in BOOLEAN
    /\ elapsed \in SUBSET Keys
    /\ secrets \in SUBSET Keys
    /\ issuing \in [Issuers -> {"idle", "read", "void", "insert"}]
    /\ consuming \in [Consumers -> [step : {"idle", "read", "recover"}, key : Keys \cup {"none"}, ref : Refs \cup {"none"}]]
    /\ told \in SUBSET [key : Keys, ref : Refs]
    /\ voids \in SUBSET Keys
    /\ losses \in 0..MaxLosses

NoReceipts ==
    /\ issued = [k \in Keys |-> NoReceipt]
    /\ spent = {}
    /\ owner = TRUE
    /\ elapsed = {}
    /\ secrets = {}
    /\ issuing = [p \in Issuers |-> "idle"]
    /\ consuming = [c \in Consumers |-> NotTaking]
    /\ told = {}
    /\ voids = {}

Lose == losses < MaxLosses /\ losses' = losses + 1

-----------------------------------------------------------------------------
(* issue() *)

IssueAt(p, step) == issuing' = [issuing EXCEPT ![p] = step]
StopIssuing(p)   == IssueAt(p, "idle")

Issue(p) ==
    /\ issuing[p] = "idle"
    /\ IssueAt(p, "read")
    /\ UNCHANGED <<ask, issued, spent, owner, elapsed, secrets, consuming, told, voids, losses>>

\* answerReplay() reads the row of the key: a new key goes on, a live receipt is to be voided,
\* another row is answered from
AnswerReplay(p) ==
    LET k == ask[p].key
        r == issued[k]
    IN  /\ issuing[p] = "read"
        /\ \/ r.status = "none" /\ IssueAt(p, "insert") /\ UNCHANGED voids
           \/ /\ r.status # "none" /\ r.content # ask[p].content
              /\ StopIssuing(p) /\ UNCHANGED voids
           \/ /\ r.content = ask[p].content /\ (r.status = "consumed" \/ (r.status = "issued" /\ k \in elapsed))
              /\ StopIssuing(p) /\ UNCHANGED voids
           \/ /\ r.content = ask[p].content /\ r.status = "voided"
              /\ StopIssuing(p) /\ voids' = voids \cup {k}
           \/ /\ r.content = ask[p].content /\ r.status = "issued" /\ k \notin elapsed
              /\ IssueAt(p, "void") /\ UNCHANGED voids
        /\ UNCHANGED <<ask, issued, spent, owner, elapsed, secrets, consuming, told, losses>>

\* one conditional statement: the receipt may have been consumed, voided or expired since it was read
Voidable(k) == issued[k].status = "issued" /\ k \notin elapsed

VoidReplayed(p) ==
    LET k == ask[p].key
    IN  /\ issuing[p] = "void"
        /\ IF Voidable(k)
           THEN issued' = [issued EXCEPT ![k].status = "voided"] /\ StopIssuing(p) /\ voids' = voids \cup {k}
           ELSE IssueAt(p, "read") /\ UNCHANGED <<issued, voids>>
        /\ UNCHANGED <<ask, spent, owner, elapsed, secrets, consuming, told, losses>>

\* one transaction spends the proof, checks the Owner and inserts the receipt; the duplicate of
\* a key is rolled back and answered as a replay.  `receives': the secret reached the Owner
InsertReceipt(p, receives) ==
    LET k     == ask[p].key
        proof == ask[p].proof
    IN  /\ issuing[p] = "insert"
        /\ IF proof \in spent \/ ~owner
           THEN StopIssuing(p) /\ UNCHANGED <<issued, spent, secrets>>
           ELSE IF issued[k].status # "none"
           THEN IssueAt(p, "read") /\ UNCHANGED <<issued, spent, secrets>>
           ELSE /\ issued' = [issued EXCEPT ![k].status = "issued", ![k].content = ask[p].content]
                /\ spent' = spent \cup {proof}
                /\ secrets' = IF receives THEN secrets \cup {k} ELSE secrets
                /\ StopIssuing(p)
        /\ IF receives THEN UNCHANGED losses ELSE Lose
        /\ UNCHANGED <<ask, owner, elapsed, consuming, told, voids>>

\* the request fails and nothing is committed
IssueFails(p) ==
    /\ issuing[p] # "idle"
    /\ Lose
    /\ StopIssuing(p)
    /\ UNCHANGED <<ask, issued, spent, owner, elapsed, secrets, consuming, told, voids>>

-----------------------------------------------------------------------------
(* consume(), lookupConsumption() *)

Consumable(k) == issued[k].status = "issued" /\ k \notin elapsed /\ owner
RefTaken(ref) == \E k \in Keys : issued[k].ref = ref

Told(k, ref)  == told' = told \cup {[key |-> k, ref |-> ref]}
Go(c, s, k, ref) == consuming' = [consuming EXCEPT ![c] = [step |-> s, key |-> k, ref |-> ref]]
StopTaking(c) == consuming' = [consuming EXCEPT ![c] = NotTaking]

\* the one statement that consumes; what it does not match is read afterwards
ConsumeReceipt(c, k, ref) ==
    /\ consuming[c] = NotTaking
    /\ k \in secrets
    /\ IF Consumable(k)
       THEN IF RefTaken(ref)
            THEN UNCHANGED <<issued, consuming, told>>
            ELSE /\ issued' = [issued EXCEPT ![k].status = "consumed", ![k].ref = ref]
                 /\ Told(k, ref)
                 /\ UNCHANGED consuming
       ELSE Go(c, "read", k, ref) /\ UNCHANGED <<issued, told>>
    /\ UNCHANGED <<ask, spent, owner, elapsed, secrets, issuing, voids, losses>>

\* its outcome is not known: committed or not, the consumption is looked up once
ConsumeUncertain(c, k, ref) ==
    /\ consuming[c] = NotTaking
    /\ k \in secrets
    /\ Lose
    /\ \/ UNCHANGED issued
       \/ /\ Consumable(k) /\ ~RefTaken(ref)
          /\ issued' = [issued EXCEPT ![k].status = "consumed", ![k].ref = ref]
    /\ Go(c, "recover", k, ref)
    /\ UNCHANGED <<ask, spent, owner, elapsed, secrets, issuing, told, voids>>

\* only the identical repeat of a consumption is answered with it; everything else is refused
SameConsumption_(k, ref) == issued[k].status = "consumed"
SameConsumption(k, ref)  == issued[k].status = "consumed" /\ issued[k].ref = ref

AnswerConsume(c) ==
    LET k == consuming[c].key
        ref == consuming[c].ref
    IN  /\ consuming[c].step = "read"
        /\ IF SameConsumption(k, ref) THEN Told(k, ref) ELSE UNCHANGED told
        /\ StopTaking(c)
        /\ UNCHANGED <<ask, issued, spent, owner, elapsed, secrets, issuing, voids, losses>>

\* findConsumption(): by the reference, for the binding of the request
Found(k, ref) == {x \in Keys : issued[x].status = "consumed" /\ issued[x].ref = ref /\ issued[x].content = issued[k].content}

RecoverUncertain(c) ==
    LET k == consuming[c].key
        ref == consuming[c].ref
    IN  /\ consuming[c].step = "recover"
        /\ \/ Found(k, ref) = {} /\ UNCHANGED <<told, losses>>
           \/ (\E x \in Found(k, ref) : Told(x, ref)) /\ UNCHANGED losses
           \/ Lose /\ UNCHANGED told                 \* the lookup fails as well
        /\ StopTaking(c)
        /\ UNCHANGED <<ask, issued, spent, owner, elapsed, secrets, issuing, voids>>

LookUpConsumption(k, ref) ==
    /\ \E x \in Found(k, ref) : Told(x, ref)
    /\ UNCHANGED <<ask, issued, spent, owner, elapsed, secrets, issuing, consuming, voids, losses>>

-----------------------------------------------------------------------------

\* time; an Owner blocked or made active again
Elapse ==
    /\ \E k \in Keys : issued[k].status # "none" /\ elapsed' = elapsed \cup {k}
    /\ UNCHANGED <<ask, issued, spent, owner, secrets, issuing, consuming, told, voids, losses>>

OwnerChanges ==
    /\ owner' = ~owner
    /\ UNCHANGED <<ask, issued, spent, elapsed, secrets, issuing, consuming, told, voids, losses>>

ReceiptNext ==
    \/ \E p \in Issuers : Issue(p) \/ AnswerReplay(p) \/ VoidReplayed(p) \/ IssueFails(p)
    \/ \E p \in Issuers, receives \in BOOLEAN : InsertReceipt(p, receives)
    \/ \E c \in Consumers, k \in Keys, ref \in Refs : ConsumeReceipt(c, k, ref) \/ ConsumeUncertain(c, k, ref)
    \/ \E c \in Consumers : AnswerConsume(c) \/ RecoverUncertain(c)
    \/ \E k \in Keys, ref \in Refs : LookUpConsumption(k, ref)
    \/ Elapse
    \/ OwnerChanges

-----------------------------------------------------------------------------
(* Properties *)

\* What the service was told was consumed is consumed, under the reference it was told of, for
\* good: a concurrent replay of the issue cannot void it, and a repeat under another reference
\* cannot be told of it (consume(), recoverUncertain(), answerReplay())
ConsumptionsStand == \A t \in told : issued[t.key].status = "consumed" /\ issued[t.key].ref = t.ref

\* An Owner told that the answer of an issue was lost holds no receipt of that key that can
\* still be consumed, by whoever received its secret (answerReplay())
LostIsVoid == \A k \in voids : issued[k].status = "voided"

\* A reference stands for one receipt, and a failed or duplicate issue burns no proof: as many
\* are spent as there are receipts (consume(), issue())
SpentOnce ==
    /\ \A k, j \in Keys : issued[k].ref = issued[j].ref /\ issued[k].ref # "none" => k = j
    /\ Cardinality(spent) = Cardinality({k \in Keys : issued[k].status # "none"})

ReceiptsSound == ConsumptionsStand /\ LostIsVoid /\ SpentOnce
=============================================================================
