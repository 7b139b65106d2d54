------------------------ MODULE RefundSettlementProofs ------------------------
(***************************************************************************)
(* Proofs about RefundSettlement, for every number of captures, refunds,   *)
(* receipts, movements, requests and workers: no captured money is         *)
(* returned twice, and what is allocated of a return adds up.  A step only *)
(* makes a few moves with a refund, a receipt or the provider (`What a     *)
(* step does'); that the invariant is inductive follows from these moves,  *)
(* and so does what stays: money is counted that was returned, and nothing *)
(* that was recorded of a refund is taken back.                            *)
(***************************************************************************)
EXTENDS RefundSettlement, FiniteSetTheorems, TLAPS

-----------------------------------------------------------------------------
(* The inductive invariant *)

\* a refund there was no reason to refuse, and one its Owner's receipt has authorized
Requested(r) == refund[r].status \notin {"none", "refused"}
Beyond       == InFlight \cup {"authorized", "succeeded", "failed", "discrepancy"}

\* the receipt of a refund, spent for exactly its case
Paid(r) == \E k \in Receipts : receipt[k] = [state |-> "consumed", by |-> r] /\ covers[k] = refund[r].case

RowSound(r) ==
    /\ Requested(r) => refund[r].receipt \in Receipts
    /\ authority[r].given <=> refund[r].status \in Beyond
    /\ authority[r].given => Paid(r)
    /\ atProvider[r] # "none" => authority[r].given
    /\ refund[r].status = "failed" => atProvider[r] = "failed"

SpentFor(k) ==
    receipt[k].state = "consumed" =>
       receipt[k].by \in Refunds /\ Requested(receipt[k].by) /\ covers[k] = refund[receipt[k].by].case

OnWire == \A k \in Receipts, r \in Refunds : <<k, r>> \in wire => Requested(r)

\* the provider reports what it returned
Reported == \A s \in reports : atProvider[s.refund] = "returned"

\* what a request or a worker may rely on while it works
Holds(p) ==
    LET r == work[p].refund IN
    work[p].step # "idle" =>
       /\ r \in Refunds /\ Requested(r)
       /\ work[p].step \in {"dispatch", "call", "store", "fetch"} => authority[r].given
       /\ work[p].step = "commit" => work[p].answer \in Unspent \cup {"authorized"}
       /\ work[p].step = "commit" /\ work[p].answer = "authorized" => SpentBy(r)
       /\ work[p].step = "store" /\ work[p].answer = "rejected" => atProvider[r] = "failed"

\* of the refunds of one capture at most one may still return money
OneLive ==
    \A r, z \in Refunds :
       /\ Requested(r) /\ Live(r) /\ Requested(z) /\ Live(z)
       /\ refund[r].case.capture = refund[z].case.capture
       => r = z

\* only an allocation that was made counts, and it is of a refund's fact
Uncounted(m) ==
    /\ allocation[m].state # "made" => allocation[m].intended = 0
    /\ allocation[m].state # "none" => fact[m].refund # "none"

Counted(r) ==
    /\ IsFiniteSet(Units(r)) /\ authority[r].allocated = Cardinality(Units(r))
    /\ authority[r].completed <=> authority[r].allocated = Full
    /\ completions[r] = IF authority[r].completed THEN 1 ELSE 0

OneCompleted == \A r, z \in Refunds : authority[r].completed /\ authority[z].completed => r = z

IInv == /\ RefundTypeOK
        /\ \A r \in Refunds : RowSound(r)
        /\ \A k \in Receipts : SpentFor(k)
        /\ OnWire
        /\ Reported
        /\ \A p \in Askers \cup Workers : Holds(p)
        /\ OneLive
        /\ \A m \in Movements : Uncounted(m)
        /\ \A r \in Refunds : Counted(r)
        /\ OneCompleted

-----------------------------------------------------------------------------
(* What the helpers write *)

LEMMA StatusSet ==
    ASSUME RefundTypeOK, NEW r \in Refunds, NEW s \in RefundStatus, SetStatus(r, s)
    PROVE  /\ refund' \in [Refunds -> RefundRow]
           /\ refund'[r].status = s /\ refund'[r].case = refund[r].case /\ refund'[r].receipt = refund[r].receipt
           /\ \A z \in Refunds \ {r} : refund'[z] = refund[z]
<1> DEFINE row == [refund[r] EXCEPT !.status = s]
<1>1. refund \in [Refunds -> RefundRow] /\ refund[r] \in RefundRow
  BY DEF RefundTypeOK
<1>2. /\ row \in RefundRow
      /\ row.status = s /\ row.case = refund[r].case /\ row.receipt = refund[r].receipt
  BY <1>1 DEF RefundRow
<1>3. refund' = [refund EXCEPT ![r] = row]
  BY DEF SetStatus
<1> HIDE DEF row
<1> QED BY <1>1, <1>2, <1>3

LEMMA Gone ==
    ASSUME RefundTypeOK, NEW p \in Askers \cup Workers, NEW step \in Steps,
           NEW answer \in {"none", "authorized", "accepted", "rejected", "ambiguous"} \cup Unspent,
           Go(p, step, answer)
    PROVE  /\ work' \in [Askers \cup Workers -> Work]
           /\ work'[p].step = step /\ work'[p].answer = answer /\ work'[p].refund = work[p].refund
           /\ \A q \in (Askers \cup Workers) \ {p} : work'[q] = work[q]
<1> DEFINE row == [work[p] EXCEPT !.step = step, !.answer = answer]
<1>1. work \in [Askers \cup Workers -> Work] /\ work[p] \in Work
  BY DEF RefundTypeOK
<1>2. /\ row \in Work
      /\ row.step = step /\ row.answer = answer /\ row.refund = work[p].refund
  BY <1>1 DEF Work
<1>3. work' = [work EXCEPT ![p] = row]
  BY DEF Go
<1> HIDE DEF row
<1> QED BY <1>1, <1>2, <1>3

LEMMA Rested ==
    ASSUME RefundTypeOK, NEW p \in Askers \cup Workers, Rest(p)
    PROVE  /\ work' \in [Askers \cup Workers -> Work]
           /\ work'[p].step = "idle"
           /\ \A q \in (Askers \cup Workers) \ {p} : work'[q] = work[q]
<1>1. AtRest \in Work /\ AtRest.step = "idle"
  BY DEF AtRest, Work, Steps
<1> QED BY <1>1 DEF Rest, RefundTypeOK

LEMMA Given ==
    ASSUME RefundTypeOK, NEW r \in Refunds, authority' = [authority EXCEPT ![r].given = TRUE]
    PROVE  /\ authority' \in [Refunds -> [given : BOOLEAN, allocated : 0..Full, completed : BOOLEAN]]
           /\ authority'[r].given = TRUE
           /\ authority'[r].allocated = authority[r].allocated /\ authority'[r].completed = authority[r].completed
           /\ \A z \in Refunds \ {r} : authority'[z] = authority[z]
<1> DEFINE row == [authority[r] EXCEPT !.given = TRUE]
           Row == [given : BOOLEAN, allocated : 0..Full, completed : BOOLEAN]
<1>1. authority \in [Refunds -> Row] /\ authority[r] \in Row
  BY DEF RefundTypeOK
<1>2. /\ row \in Row /\ row.given = TRUE
      /\ row.allocated = authority[r].allocated /\ row.completed = authority[r].completed
  BY <1>1
<1>3. authority' = [authority EXCEPT ![r] = row]
  OBVIOUS
<1> HIDE DEF row
<1> QED BY <1>1, <1>2, <1>3

LEMMA Spent ==
    ASSUME RefundTypeOK, NEW k \in Receipts, NEW r \in Refunds, AuthConsumes(k, r)
    PROVE  /\ receipt' \in [Receipts -> [state : {"issued", "consumed", "expired", "voided"},
                                         by : Refunds \cup {"none"}]]
           /\ \A j \in Receipts :
                 \/ receipt'[j] = receipt[j]
                 \/ j = k /\ Consumable(k, r) /\ receipt'[k] = [state |-> "consumed", by |-> r]
           /\ Consumable(k, r) => receipt'[k] = [state |-> "consumed", by |-> r]
BY DEF AuthConsumes, RefundTypeOK

-----------------------------------------------------------------------------
(* What a step does *)

Keeps(r) == refund'[r] = refund[r] /\ authority'[r].given = authority[r].given

SameCase(r) == refund'[r].case = refund[r].case /\ refund'[r].receipt = refund[r].receipt

\* the moves of a refund
IsRefused(r) ==
    /\ refund[r].status = "none" /\ refund'[r].status = "refused"
    /\ authority'[r].given = authority[r].given
IsRequested(r) ==
    /\ refund[r].status = "none" /\ refund'[r].status = "authorization_pending"
    /\ refund'[r].receipt \in Receipts
    /\ authority'[r].given = authority[r].given
    /\ \A z \in Refunds \ {r} :
          /\ refund'[z] = refund[z]
          /\ Requested(z) /\ Live(z) => refund[z].case.capture # refund'[r].case.capture
IsAuthorized(r) ==
    /\ refund[r].status = "authorization_pending" /\ refund'[r].status = "authorized" /\ SameCase(r)
    /\ authority'[r].given = TRUE /\ SpentBy(r)
IsUnauthorized(r) ==
    /\ refund[r].status = "authorization_pending" /\ refund'[r].status \in Unspent /\ SameCase(r)
    /\ authority'[r].given = authority[r].given
Goes(r) ==
    /\ authority[r].given /\ authority'[r].given
    /\ refund[r].status # "failed" /\ refund'[r].status \in Beyond /\ SameCase(r)
    /\ refund'[r].status = "failed" => atProvider[r] = "failed"
RefundMove(r) ==
    Keeps(r) \/ IsRefused(r) \/ IsRequested(r) \/ IsAuthorized(r) \/ IsUnauthorized(r) \/ Goes(r)

ReceiptMove(k) ==
    \/ receipt'[k] = receipt[k]
    \/ receipt[k].state = "issued" /\ receipt'[k].state \in {"expired", "voided"}
    \/ /\ receipt[k].state = "issued"
       /\ \E r \in Refunds : /\ Requested(r) /\ covers[k] = refund[r].case
                             /\ receipt'[k] = [state |-> "consumed", by |-> r]

ProviderMove(r) ==
    \/ atProvider'[r] = atProvider[r]
    \/ /\ authority[r].given /\ atProvider[r] \notin {"failed", "returned"}
       /\ atProvider'[r] # "none"

EachMoves ==
    /\ covers' = covers
    /\ \A k \in Receipts : ReceiptMove(k)
    /\ \A r \in Refunds : RefundMove(r) /\ ProviderMove(r)

LEMMA QuietMoves ==
    ASSUME UNCHANGED <<covers, receipt, refund, authority, atProvider>>
    PROVE  EachMoves
BY DEF EachMoves, ReceiptMove, RefundMove, Keeps, ProviderMove

LEMMA WorkingOn ==
    ASSUME IInv, NEW p \in Askers \cup Workers, work[p].step # "idle"
    PROVE  /\ work[p].refund \in Refunds /\ Requested(work[p].refund)
           /\ refund[work[p].refund].receipt \in Receipts
           /\ work[p].step \in {"dispatch", "call", "store", "fetch"} => authority[work[p].refund].given
           /\ RefundTypeOK
BY DEF IInv, Holds, RowSound

\* a refund the worker or the evidence moves
LEMMA GoesMoves ==
    ASSUME IInv, NEW r \in Refunds, NEW s \in Beyond, authority[r].given, refund[r].status # "failed",
           s = "failed" => atProvider[r] = "failed",
           SetStatus(r, s), UNCHANGED <<covers, receipt, authority, atProvider>>
    PROVE  EachMoves
<1>1. RefundTypeOK /\ s \in RefundStatus
  BY DEF IInv, Beyond, RefundStatus, Ended
<1>2. /\ refund'[r].status = s /\ SameCase(r)
      /\ \A z \in Refunds \ {r} : refund'[z] = refund[z]
  BY <1>1, StatusSet DEF SameCase
<1>3. Goes(r)
  BY <1>2 DEF Goes
<1>4. \A z \in Refunds \ {r} : Keeps(z)
  BY <1>2 DEF Keeps
<1> QED BY <1>3, <1>4 DEF EachMoves, ReceiptMove, RefundMove, ProviderMove

LEMMA RequestMoves ==
    ASSUME IInv, NEW p \in Askers, NEW r \in Refunds, NEW case \in Cases, NEW k \in Receipts,
           NEW exposure \in {"clear", "exposed"}, Request(p, r, case, k, exposure)
    PROVE  EachMoves
<1>1. RefundTypeOK /\ refund \in [Refunds -> RefundRow] /\ refund[r].status = "none"
  BY DEF IInv, RefundTypeOK, Request
<1>2. UNCHANGED <<covers, receipt, authority, atProvider>>
  BY DEF Request
<1>3. CASE Refusable(case.capture, exposure)
  <2>1. SetStatus(r, "refused") /\ "refused" \in RefundStatus
    BY <1>3 DEF Request, RefundStatus
  <2>2. IsRefused(r) /\ \A z \in Refunds \ {r} : Keeps(z)
    BY <1>1, <1>2, <2>1, StatusSet DEF IsRefused, Keeps
  <2> QED BY <1>2, <2>2 DEF EachMoves, ReceiptMove, RefundMove, ProviderMove
<1>4. CASE ~ Refusable(case.capture, exposure)
  <2> DEFINE row == [status |-> "authorization_pending", case |-> case, receipt |-> k]
  <2>1. refund' = [refund EXCEPT ![r] = row]
    BY <1>4 DEF Request
  <2>2. /\ refund'[r].status = "authorization_pending" /\ refund'[r].case = case /\ refund'[r].receipt = k
        /\ \A z \in Refunds \ {r} : refund'[z] = refund[z]
    BY <1>1, <2>1
  <2>3. ASSUME NEW z \in Refunds \ {r}, Requested(z), Live(z)
        PROVE  refund[z].case.capture # case.capture
    BY <1>4, <2>3 DEF Refusable, OnCapture, Requested
  <2>4. IsRequested(r)
    BY <1>1, <1>2, <2>2, <2>3 DEF IsRequested
  <2>5. \A z \in Refunds \ {r} : Keeps(z)
    BY <1>2, <2>2 DEF Keeps
  <2> QED BY <1>2, <2>4, <2>5 DEF EachMoves, ReceiptMove, RefundMove, ProviderMove
<1> QED BY <1>3, <1>4

LEMMA AuthorizeMoves ==
    ASSUME IInv, NEW r \in Refunds, CommitAuthorized(r), SpentBy(r), UNCHANGED <<covers, receipt, atProvider>>
    PROVE  EachMoves
<1>1. RefundTypeOK /\ "authorized" \in RefundStatus
  BY DEF IInv, RefundStatus
<1>2. CASE refund[r].status = "authorization_pending"
  <2>1. SetStatus(r, "authorized") /\ authority' = [authority EXCEPT ![r].given = TRUE]
    BY <1>2 DEF CommitAuthorized
  <2>2. IsAuthorized(r)
    BY <1>1, <1>2, <2>1, StatusSet, Given DEF IsAuthorized, SameCase
  <2>3. \A z \in Refunds \ {r} : Keeps(z)
    BY <1>1, <2>1, StatusSet, Given DEF Keeps
  <2> QED BY <2>2, <2>3 DEF EachMoves, ReceiptMove, RefundMove, ProviderMove
<1>3. CASE refund[r].status # "authorization_pending"
  BY <1>3, QuietMoves DEF CommitAuthorized
<1> QED BY <1>2, <1>3

LEMMA UnauthorizeMoves ==
    ASSUME IInv, NEW r \in Refunds, NEW s \in Unspent, CommitUnauthorized(r, s),
           UNCHANGED <<covers, receipt, atProvider>>
    PROVE  EachMoves
<1>1. RefundTypeOK /\ s \in RefundStatus
  BY DEF IInv, RefundStatus, Ended
<1>2. CASE refund[r].status = "authorization_pending"
  <2>1. SetStatus(r, s) /\ authority' = authority
    BY <1>2 DEF CommitUnauthorized
  <2>2. IsUnauthorized(r) /\ \A z \in Refunds \ {r} : Keeps(z)
    BY <1>1, <1>2, <2>1, StatusSet DEF IsUnauthorized, SameCase, Keeps
  <2> QED BY <2>2 DEF EachMoves, ReceiptMove, RefundMove, ProviderMove
<1>3. CASE refund[r].status # "authorization_pending"
  BY <1>3, QuietMoves DEF CommitUnauthorized
<1> QED BY <1>2, <1>3

LEMMA ConsumeMoves ==
    ASSUME IInv, NEW k \in Receipts, NEW r \in Refunds, Requested(r), AuthConsumes(k, r),
           UNCHANGED <<covers, refund, authority, atProvider>>
    PROVE  EachMoves
<1>1. \A j \in Receipts : ReceiptMove(j)
  <2>1. \A j \in Receipts :
           \/ receipt'[j] = receipt[j]
           \/ j = k /\ Consumable(k, r) /\ receipt'[k] = [state |-> "consumed", by |-> r]
    BY Spent DEF IInv
  <2> QED BY <2>1 DEF ReceiptMove, Consumable, Matches
<1> QED BY <1>1 DEF EachMoves, RefundMove, Keeps, ProviderMove

\* what a request reports, and whose consumption is on its way
SentSound(r) == \A k \in Receipts : <<k, r>> \in wire' => <<k, r>> \in wire \/ Requested(r)
Evidenced == \A s \in reports' : s \in reports \/ atProvider'[s.refund] = "returned"

LEMMA MovesNext ==
    ASSUME IInv, [RefundNext]_refundVars
    PROVE  EachMoves /\ Evidenced /\ \A r \in Refunds : SentSound(r)
<1> DEFINE Summary == EachMoves /\ Evidenced /\ \A r \in Refunds : SentSound(r)
<1>0. ASSUME EachMoves, UNCHANGED <<wire, reports>>
      PROVE  Summary
  BY <1>0 DEF Evidenced, SentSound
<1>1. ASSUME NEW c \in Captures, Doubt(c)
      PROVE  Summary
  BY <1>0, <1>1, QuietMoves DEF Doubt, evidence
<1>2. ASSUME NEW k \in Receipts, ReceiptEnds(k)
      PROVE  Summary
  <2>1. \A j \in Receipts : ReceiptMove(j)
    BY <1>2 DEF ReceiptEnds, ReceiptMove, IInv, RefundTypeOK
  <2>2. EachMoves
    BY <1>2, <2>1 DEF ReceiptEnds, EachMoves, RefundMove, Keeps, ProviderMove
  <2> QED BY <1>0, <1>2, <2>2 DEF ReceiptEnds, evidence
<1>3. ASSUME NEW k \in Receipts, NEW r \in Refunds, ConsumptionArrives(k, r)
      PROVE  Summary
  <2>1. Requested(r) /\ AuthConsumes(k, r)
    BY <1>3 DEF ConsumptionArrives, IInv, OnWire
  <2>2. EachMoves
    BY <1>3, <2>1, ConsumeMoves DEF ConsumptionArrives
  <2> QED BY <1>3, <2>2 DEF ConsumptionArrives, evidence, Evidenced, SentSound
<1>4. ASSUME NEW r \in Refunds, FailToReturn(r)
      PROVE  Summary
  <2>1. authority[r].given
    BY <1>4 DEF FailToReturn, IInv, RowSound
  <2>2. \A z \in Refunds : ProviderMove(z)
    BY <1>4, <2>1 DEF FailToReturn, ProviderMove, IInv, RefundTypeOK
  <2>3. EachMoves
    BY <1>4, <2>2 DEF FailToReturn, EachMoves, ReceiptMove, RefundMove, Keeps
  <2> QED BY <1>0, <1>4, <2>3 DEF FailToReturn, evidence
<1>5. ASSUME NEW r \in Refunds, NotifiedFailure(r)
      PROVE  Summary
  <2>1. /\ atProvider[r] = "failed" /\ refund[r].status \in InFlight /\ SetStatus(r, "failed")
        /\ UNCHANGED <<covers, receipt, authority, atProvider, wire, reports>>
    BY <1>5 DEF NotifiedFailure, ApplyFailure, evidence
  <2>2. "failed" \in Beyond /\ authority[r].given /\ refund[r].status # "failed"
    BY <2>1 DEF Beyond, InFlight, IInv, RowSound
  <2> QED BY <1>0, <2>1, <2>2, GoesMoves
<1>6. ASSUME NEW r \in Refunds, NEW m \in Movements, NEW n \in Amounts, ReturnMoney(r, m, n)
      PROVE  Summary
  <2>1. authority[r].given
    BY <1>6 DEF ReturnMoney, IInv, RowSound
  <2>2. \A z \in Refunds : ProviderMove(z)
    BY <1>6, <2>1 DEF ReturnMoney, ProviderMove, IInv, RefundTypeOK
  <2>3. EachMoves
    BY <1>6, <2>2 DEF ReturnMoney, EachMoves, ReceiptMove, RefundMove, Keeps
  <2>4. Evidenced
    BY <1>6 DEF ReturnMoney, Evidenced, IInv, RefundTypeOK
  <2> QED BY <1>6, <2>3, <2>4 DEF ReturnMoney, SentSound
<1>7. ASSUME NEW p \in Askers, NEW r \in Refunds, NEW case \in Cases, NEW k \in Receipts,
             NEW exposure \in {"clear", "exposed"}, Request(p, r, case, k, exposure)
      PROVE  Summary
  <2>1. EachMoves
    BY <1>7, RequestMoves
  <2> QED BY <1>0, <1>7, <2>1 DEF Request, evidence
<1>8. ASSUME NEW p \in Askers, NEW r \in Refunds, RequestAgain(p, r)
      PROVE  Summary
  BY <1>0, <1>8, QuietMoves DEF RequestAgain, evidence
<1>9. ASSUME NEW p \in Askers, Consume(p)
      PROVE  Summary
  <2> DEFINE r == work[p].refund
  <2>1. r \in Refunds /\ Requested(r) /\ refund[r].receipt \in Receipts
    BY <1>9, WorkingOn DEF Consume
  <2>2. UNCHANGED <<covers, refund, authority, atProvider, wire, reports>>
    BY <1>9 DEF Consume, evidence
  <2>3. UNCHANGED receipt \/ AuthConsumes(refund[r].receipt, r)
    BY <1>9 DEF Consume
  <2>4. EachMoves
    BY <2>1, <2>2, <2>3, QuietMoves, ConsumeMoves
  <2> QED BY <1>0, <2>2, <2>4
<1>10. ASSUME NEW p \in Askers, LoseConsumption(p)
       PROVE  Summary
  <2>1. work[p].refund \in Refunds /\ Requested(work[p].refund)
    BY <1>10, WorkingOn DEF LoseConsumption
  <2>2. EachMoves
    BY <1>10, QuietMoves DEF LoseConsumption
  <2>3. \/ wire' = wire
        \/ wire' = wire \cup {<<refund[work[p].refund].receipt, work[p].refund>>}
    BY <1>10 DEF LoseConsumption
  <2>4. \A r \in Refunds : SentSound(r)
    BY <2>1, <2>3 DEF SentSound
  <2> QED BY <1>10, <2>2, <2>4 DEF LoseConsumption, evidence, Evidenced
<1>11. ASSUME NEW p \in Askers, LookUp(p)
       PROVE  Summary
  BY <1>0, <1>11, QuietMoves DEF LookUp, evidence
<1>12. ASSUME NEW p \in Askers, Commit(p)
       PROVE  Summary
  <2>1. work[p].refund \in Refunds
    BY <1>12, WorkingOn DEF Commit
  <2>2. work[p].answer \in Unspent \cup {"authorized"}
        /\ (work[p].answer = "authorized" => SpentBy(work[p].refund))
    BY <1>12 DEF Commit, IInv, Holds
  <2>3. UNCHANGED <<covers, receipt, atProvider, wire, reports>>
    BY <1>12 DEF Commit, evidence
  <2>4. EachMoves
    BY <1>12, <2>1, <2>2, <2>3, AuthorizeMoves, UnauthorizeMoves DEF Commit
  <2> QED BY <1>0, <2>3, <2>4
<1>13. ASSUME NEW w \in Workers, RecoverAuthorization(w)
       PROVE  Summary
  <2>1. work[w].refund \in Refunds
    BY <1>13, WorkingOn DEF RecoverAuthorization
  <2>2. UNCHANGED <<covers, receipt, atProvider, wire, reports>>
    BY <1>13 DEF RecoverAuthorization, evidence
  <2>3. EachMoves
    BY <1>13, <2>1, <2>2, AuthorizeMoves, QuietMoves DEF RecoverAuthorization
  <2> QED BY <1>0, <2>2, <2>3
<1>14. ASSUME NEW w \in Workers, Dispatch(w)
       PROVE  Summary
  <2> DEFINE r == work[w].refund
  <2>1. r \in Refunds /\ authority[r].given
    BY <1>14, WorkingOn DEF Dispatch
  <2>2. UNCHANGED <<covers, receipt, authority, atProvider, wire, reports>>
    BY <1>14 DEF Dispatch, evidence
  <2>3. CASE refund[r].status = "authorized"
    <3>1. SetStatus(r, "dispatching") /\ "dispatching" \in Beyond
      BY <1>14, <2>3 DEF Dispatch, Beyond, InFlight
    <3>2. EachMoves
      BY <2>1, <2>2, <2>3, <3>1, GoesMoves
    <3> QED BY <1>0, <2>2, <3>2
  <2>4. CASE refund[r].status # "authorized"
    BY <1>0, <1>14, <2>2, <2>4, QuietMoves DEF Dispatch
  <2> QED BY <2>3, <2>4
<1>15. ASSUME NEW w \in Workers, Call(w)
       PROVE  Summary
  <2> DEFINE r == work[w].refund
  <2>1. r \in Refunds /\ authority[r].given
    BY <1>15, WorkingOn DEF Call
  <2>2. UNCHANGED <<covers, receipt, refund, authority, wire, reports>>
    BY <1>15 DEF Call, evidence
  <2>3. PICK k \in IF atProvider[r] = "none" THEN {"accepted", "failed"} ELSE {atProvider[r]} :
           atProvider' = [atProvider EXCEPT ![r] = k]
    BY <1>15 DEF Call
  <2>4. \A z \in Refunds : ProviderMove(z)
    BY <2>1, <2>3 DEF ProviderMove, IInv, RefundTypeOK
  <2>5. EachMoves
    BY <2>2, <2>4 DEF EachMoves, ReceiptMove, RefundMove, Keeps
  <2> QED BY <1>0, <2>2, <2>5
<1>16. ASSUME NEW w \in Workers, LoseCall(w)
       PROVE  Summary
  BY <1>0, <1>16, QuietMoves DEF LoseCall, evidence
<1>17. ASSUME NEW w \in Workers, Store(w)
       PROVE  Summary
  <2> DEFINE r == work[w].refund
  <2>1. r \in Refunds /\ authority[r].given
    BY <1>17, WorkingOn DEF Store
  <2>2. UNCHANGED <<covers, receipt, authority, atProvider, wire, reports>>
    BY <1>17 DEF Store, evidence
  <2>3. work[w].answer = "rejected" => atProvider[r] = "failed"
    BY <1>17 DEF Store, IInv, Holds
  <2>4. \/ UNCHANGED refund
        \/ /\ refund[r].status \in {"dispatching", "unknown"}
           /\ \/ SetStatus(r, "submitted") \/ SetStatus(r, "unknown")
              \/ SetStatus(r, "failed") /\ work[w].answer = "rejected"
    BY <1>17 DEF Store
  <2>5. {"submitted", "unknown", "failed"} \subseteq Beyond
    BY DEF Beyond, InFlight
  <2>6. EachMoves
    BY <2>1, <2>2, <2>3, <2>4, <2>5, QuietMoves, GoesMoves
  <2> QED BY <1>0, <2>2, <2>6
<1>18. ASSUME NEW w \in Workers, Fetch(w)
       PROVE  Summary
  <2> DEFINE r == work[w].refund
  <2>1. r \in Refunds /\ authority[r].given
    BY <1>18, WorkingOn DEF Fetch
  <2>2. UNCHANGED <<covers, receipt, authority, atProvider, wire, reports>>
    BY <1>18 DEF Fetch, evidence
  <2>3. \/ UNCHANGED refund
        \/ refund[r].status \in InFlight /\ atProvider[r] = "failed" /\ SetStatus(r, "failed")
    BY <1>18 DEF Fetch, ApplyFailure
  <2>4. "failed" \in Beyond /\ "failed" \notin InFlight
    BY DEF Beyond, InFlight
  <2>5. EachMoves
    BY <2>1, <2>2, <2>3, <2>4, QuietMoves, GoesMoves
  <2> QED BY <1>0, <2>2, <2>5
<1>19. ASSUME NEW w \in Workers, NEW r \in Refunds, Take(w, r)
       PROVE  Summary
  BY <1>0, <1>19, QuietMoves DEF Take, evidence
<1>20. ASSUME NEW p \in Askers \cup Workers, StopWork(p)
       PROVE  Summary
  BY <1>0, <1>20, QuietMoves DEF StopWork, evidence
<1>21. ASSUME NEW s \in reports, RecordRefundFact(s)
       PROVE  Summary
  BY <1>0, <1>21, QuietMoves DEF RecordRefundFact
<1>22. ASSUME NEW s \in reports, ApplyEvidence(s)
       PROVE  Summary
  <2> DEFINE r == s.refund
  <2>1. r \in Refunds /\ atProvider[r] = "returned"
    BY <1>22 DEF IInv, RefundTypeOK, Reported, Report
  <2>2. authority[r].given /\ refund[r].status # "failed"
    BY <2>1 DEF IInv, RowSound
  <2>3. UNCHANGED <<covers, receipt, authority, atProvider, wire, reports>>
    BY <1>22 DEF ApplyEvidence, evidence
  <2>4. SetStatus(r, "succeeded") \/ SetStatus(r, "discrepancy")
    BY <1>22 DEF ApplyEvidence
  <2>5. {"succeeded", "discrepancy"} \subseteq Beyond
    BY DEF Beyond
  <2>6. EachMoves
    BY <2>1, <2>2, <2>3, <2>4, <2>5, GoesMoves
  <2> QED BY <1>0, <2>3, <2>6
<1>23. ASSUME NEW m \in Movements, Allocate(m)
       PROVE  Summary
  <2>1. UNCHANGED <<covers, receipt, refund, atProvider, wire, reports>>
    BY <1>23 DEF Allocate
  <2>2. \A r \in Refunds : authority'[r].given = authority[r].given
    BY <1>23 DEF Allocate, IInv, RefundTypeOK
  <2>3. EachMoves
    BY <2>1, <2>2 DEF EachMoves, ReceiptMove, RefundMove, Keeps, ProviderMove
  <2> QED BY <1>0, <2>1, <2>3
<1>24. CASE UNCHANGED refundVars
  BY <1>0, <1>24, QuietMoves DEF refundVars, evidence
<1> HIDE DEF Summary
<1>25. ASSUME NEW p \in Askers,
              \/ Consume(p) \/ LoseConsumption(p) \/ LookUp(p) \/ Commit(p)
              \/ \E r \in Refunds : RequestAgain(p, r)
              \/ \E r \in Refunds, c \in Cases, k \in Receipts, e \in {"clear", "exposed"} : Request(p, r, c, k, e)
       PROVE  Summary
  BY <1>7, <1>8, <1>9, <1>10, <1>11, <1>12, <1>25
<1>26. ASSUME NEW w \in Workers,
              \/ RecoverAuthorization(w) \/ Dispatch(w) \/ Call(w) \/ LoseCall(w)
              \/ Store(w) \/ Fetch(w) \/ \E r \in Refunds : Take(w, r)
       PROVE  Summary
  BY <1>13, <1>14, <1>15, <1>16, <1>17, <1>18, <1>19, <1>26
<1>27. ASSUME NEW r \in Refunds,
              \/ FailToReturn(r) \/ NotifiedFailure(r)
              \/ \E m \in Movements, n \in Amounts : ReturnMoney(r, m, n)
       PROVE  Summary
  BY <1>4, <1>5, <1>6, <1>27
<1>28. ASSUME RefundNext
       PROVE  Summary
  <2>1. ASSUME NEW p \in Askers, NEW r \in Refunds,
               \/ RequestAgain(p, r)
               \/ \E c \in Cases, k \in Receipts, e \in {"clear", "exposed"} : Request(p, r, c, k, e)
        PROVE  Summary
    BY <1>25, <2>1
  <2>2. CASE \E p \in Askers : \/ Consume(p) \/ LoseConsumption(p) \/ LookUp(p) \/ Commit(p)
                               \/ \E r \in Refunds : \/ RequestAgain(p, r)
                                                     \/ \E c \in Cases, k \in Receipts, e \in {"clear", "exposed"} :
                                                           Request(p, r, c, k, e)
    BY <1>25, <2>1, <2>2
  <2>3. CASE \E w \in Workers : \/ RecoverAuthorization(w) \/ Dispatch(w) \/ Call(w) \/ LoseCall(w)
                                \/ Store(w) \/ Fetch(w) \/ \E r \in Refunds : Take(w, r)
    BY <1>26, <2>3
  <2>4. CASE \E k \in Receipts : ReceiptEnds(k) \/ \E r \in Refunds : ConsumptionArrives(k, r)
    BY <1>2, <1>3, <2>4
  <2>5. CASE \E r \in Refunds : \/ FailToReturn(r) \/ NotifiedFailure(r)
                                \/ \E m \in Movements, n \in Amounts : ReturnMoney(r, m, n)
    BY <1>27, <2>5
  <2>6. CASE \/ \E c \in Captures : Doubt(c)
             \/ \E p \in Askers \cup Workers : StopWork(p)
             \/ \E s \in reports : RecordRefundFact(s) \/ ApplyEvidence(s)
             \/ \E m \in Movements : Allocate(m)
    BY <1>1, <1>20, <1>21, <1>22, <1>23, <2>6
  <2> QED BY <1>28, <2>2, <2>3, <2>4, <2>5, <2>6 DEF RefundNext
<1> QED BY <1>24, <1>28 DEF Summary

-----------------------------------------------------------------------------
(* What the moves keep *)

LEMMA RefundStays ==
    ASSUME IInv, EachMoves, NEW r \in Refunds
    PROVE  /\ Requested(r) => Requested(r)' /\ SameCase(r)
           /\ authority[r].given => authority'[r].given
           /\ Requested(r)' /\ Live(r)' => IsRequested(r) \/ (Requested(r) /\ Live(r) /\ SameCase(r))
<1>1. RowSound(r) /\ RefundMove(r)
  BY DEF IInv, EachMoves
<1>2. CASE Keeps(r)
  BY <1>2 DEF Keeps, Requested, SameCase, Live
<1>3. CASE IsRefused(r) \/ IsRequested(r)
  BY <1>1, <1>3 DEF IsRefused, IsRequested, Requested
<1>4. CASE IsAuthorized(r) \/ IsUnauthorized(r)
  BY <1>1, <1>4 DEF IsAuthorized, IsUnauthorized, Requested, Live, Unspent
<1>5. CASE Goes(r)
  <2>1. refund[r].status \in Beyond \ {"failed"} /\ refund'[r].status \in Beyond /\ SameCase(r)
    BY <1>1, <1>5 DEF Goes, RowSound
  <2> QED BY <1>5, <2>1 DEF Goes, Requested, Live, Beyond, InFlight, Unspent
<1> QED BY <1>1, <1>2, <1>3, <1>4, <1>5 DEF RefundMove

LEMMA ProviderStays ==
    ASSUME IInv, EachMoves, NEW r \in Refunds
    PROVE  /\ atProvider[r] \in {"failed", "returned"} => atProvider'[r] = atProvider[r]
           /\ atProvider'[r] # "none" => authority[r].given
BY DEF IInv, EachMoves, ProviderMove, RowSound

LEMMA SpentStays ==
    ASSUME IInv, EachMoves, NEW k \in Receipts, receipt[k].state = "consumed"
    PROVE  receipt'[k] = receipt[k]
BY DEF EachMoves, ReceiptMove

LEMMA PaidStays ==
    ASSUME IInv, EachMoves, NEW r \in Refunds, Requested(r), SpentBy(r)
    PROVE  Paid(r) /\ Paid(r)' /\ SpentBy(r)'
<1>1. PICK k \in Receipts : receipt[k].state = "consumed" /\ receipt[k].by = r
  BY DEF SpentBy
<1>2. covers[k] = refund[r].case /\ receipt[k] = [state |-> "consumed", by |-> r]
  BY <1>1 DEF IInv, SpentFor, RefundTypeOK
<1>3. receipt'[k] = receipt[k] /\ covers' = covers /\ refund'[r].case = refund[r].case
  BY <1>1, SpentStays, RefundStays DEF EachMoves, SameCase
<1> QED BY <1>1, <1>2, <1>3 DEF Paid, SpentBy

LEMMA RowSoundNext ==
    ASSUME IInv, EachMoves, NEW r \in Refunds
    PROVE  RowSound(r)'
<1>1. RowSound(r) /\ RefundMove(r) /\ refund \in [Refunds -> RefundRow]
  BY DEF IInv, EachMoves, RefundTypeOK
<1>2. authority[r].given => SpentBy(r) /\ Requested(r)
  BY <1>1 DEF RowSound, Paid, SpentBy, Requested, Beyond, InFlight
<1>3. atProvider'[r] # "none" => authority[r].given
  BY ProviderStays
<1>4. CASE Keeps(r)
  <2>1. authority'[r].given => Paid(r)'
    BY <1>1, <1>2, <1>4, PaidStays DEF Keeps
  <2>2. atProvider'[r] # "none" => authority'[r].given
    BY <1>3, <1>4 DEF Keeps
  <2>3. refund'[r].status = "failed" => atProvider'[r] = "failed"
    BY <1>1, <1>4, ProviderStays DEF Keeps, RowSound
  <2> QED BY <1>1, <1>4, <2>1, <2>2, <2>3 DEF Keeps, RowSound, Requested
<1>5. CASE IsRefused(r) \/ IsRequested(r) \/ IsUnauthorized(r)
  <2>1. /\ ~ authority[r].given /\ ~ authority'[r].given
        /\ refund'[r].status \in {"refused", "authorization_pending"} \cup Unspent
        /\ Requested(r)' => refund'[r].receipt \in Receipts
    BY <1>1, <1>5 DEF IsRefused, IsRequested, IsUnauthorized, RowSound, Beyond, InFlight, Unspent, Requested, SameCase
  <2> QED BY <1>3, <2>1 DEF RowSound, Beyond, InFlight, Unspent
<1>6. CASE IsAuthorized(r)
  <2>1. Requested(r) /\ SpentBy(r)
    BY <1>6 DEF IsAuthorized, Requested
  <2>2. Paid(r)'
    BY <2>1, PaidStays
  <2>3. /\ authority'[r].given /\ refund'[r].status = "authorized"
        /\ refund'[r].receipt \in Receipts
    BY <1>1, <1>6, <2>1 DEF IsAuthorized, RowSound, SameCase
  <2> QED BY <2>2, <2>3 DEF RowSound, Beyond
<1>7. CASE Goes(r)
  <2>1. Paid(r)'
    BY <1>2, <1>7, PaidStays DEF Goes
  <2>2. /\ authority'[r].given /\ refund'[r].status \in Beyond
        /\ refund'[r].receipt \in Receipts
    BY <1>1, <1>2, <1>7 DEF Goes, RowSound, SameCase
  <2>3. refund'[r].status = "failed" => atProvider'[r] = "failed"
    BY <1>7, ProviderStays DEF Goes
  <2> QED BY <2>1, <2>2, <2>3 DEF RowSound
<1> QED BY <1>1, <1>4, <1>5, <1>6, <1>7 DEF RefundMove

LEMMA SpentForNext ==
    ASSUME IInv, EachMoves, NEW k \in Receipts
    PROVE  SpentFor(k)'
<1>1. CASE receipt'[k] = receipt[k]
  <2>1. CASE receipt[k].state = "consumed"
    <3>1. PICK r \in Refunds : r = receipt[k].by /\ Requested(r) /\ covers[k] = refund[r].case
      BY <2>1 DEF IInv, SpentFor
    <3>2. Requested(r)' /\ covers'[k] = refund'[r].case
      BY <3>1, RefundStays DEF SameCase, EachMoves
    <3> QED BY <1>1, <3>1, <3>2 DEF SpentFor, Requested
  <2>2. CASE receipt[k].state # "consumed"
    BY <1>1, <2>2 DEF SpentFor
  <2> QED BY <2>1, <2>2
<1>2. CASE receipt'[k].state \in {"expired", "voided"}
  BY <1>2 DEF SpentFor
<1>3. ASSUME NEW r \in Refunds, Requested(r), covers[k] = refund[r].case,
             receipt'[k] = [state |-> "consumed", by |-> r]
      PROVE  SpentFor(k)'
  <2>1. Requested(r)' /\ covers'[k] = refund'[r].case
    BY <1>3, RefundStays DEF SameCase, EachMoves
  <2> QED BY <1>3, <2>1 DEF SpentFor, Requested
<1> QED BY <1>1, <1>2, <1>3 DEF EachMoves, ReceiptMove

LEMMA OneLiveNext ==
    ASSUME IInv, EachMoves
    PROVE  OneLive'
<1> SUFFICES ASSUME NEW r \in Refunds, NEW z \in Refunds,
                    Requested(r)', Live(r)', Requested(z)', Live(z)',
                    refund'[r].case.capture = refund'[z].case.capture,
                    r # z
             PROVE  FALSE
  BY DEF OneLive
<1>1. ASSUME NEW x \in Refunds, NEW y \in Refunds, x # y, IsRequested(x), Requested(y)', Live(y)',
             refund'[x].case.capture = refund'[y].case.capture
      PROVE  FALSE
  BY <1>1 DEF IsRequested, Requested, Live
<1>2. ~ IsRequested(r) /\ ~ IsRequested(z)
  BY <1>1
<1>3. /\ Requested(r) /\ Live(r) /\ Requested(z) /\ Live(z)
      /\ refund[r].case.capture = refund[z].case.capture
  BY <1>2, RefundStays DEF SameCase
<1> QED BY <1>3 DEF IInv, OneLive

-----------------------------------------------------------------------------
(* What a request or a worker relies on *)

LEMMA HoldsStays ==
    ASSUME IInv, EachMoves, NEW p \in Askers \cup Workers, work'[p] = work[p]
    PROVE  Holds(p)'
<1>1. CASE work[p].step = "idle"
  BY <1>1 DEF Holds
<1>2. CASE work[p].step # "idle"
  <2>1. PICK r \in Refunds : r = work[p].refund
    BY <1>2 DEF IInv, Holds
  <2>2. /\ Requested(r)
        /\ work[p].step \in {"dispatch", "call", "store", "fetch"} => authority[r].given
        /\ work[p].step = "commit" => work[p].answer \in Unspent \cup {"authorized"}
        /\ work[p].step = "commit" /\ work[p].answer = "authorized" => SpentBy(r)
        /\ work[p].step = "store" /\ work[p].answer = "rejected" => atProvider[r] = "failed"
    BY <1>2, <2>1 DEF IInv, Holds
  <2>3. /\ Requested(r)' /\ (authority[r].given => authority'[r].given)
        /\ SpentBy(r) => SpentBy(r)'
        /\ atProvider[r] = "failed" => atProvider'[r] = "failed"
    BY <2>2, RefundStays, ProviderStays, PaidStays
  <2> QED BY <2>1, <2>2, <2>3 DEF Holds, Requested, SpentBy
<1> QED BY <1>1, <1>2

LEMMA RestedHolds ==
    ASSUME IInv, EachMoves, NEW p \in Askers \cup Workers, Rest(p)
    PROVE  \A q \in Askers \cup Workers : Holds(q)'
<1>1. work'[p].step = "idle" /\ \A q \in (Askers \cup Workers) \ {p} : work'[q] = work[q]
  BY Rested DEF IInv
<1>2. Holds(p)'
  BY <1>1 DEF Holds
<1> QED BY <1>1, <1>2, HoldsStays

\* what the next step of a request or a worker must rest on
Ready(step, answer, r) ==
    /\ step \in {"dispatch", "call", "store", "fetch"} => authority[r].given
    /\ step = "commit" => answer \in Unspent \cup {"authorized"}
    /\ step = "commit" /\ answer = "authorized" => SpentBy(r)'
    /\ step = "store" /\ answer = "rejected" => atProvider'[r] = "failed"

LEMMA GoneHolds ==
    ASSUME IInv, EachMoves, NEW p \in Askers \cup Workers, NEW step \in Steps,
           NEW answer \in {"none", "authorized", "accepted", "rejected", "ambiguous"} \cup Unspent,
           work[p].step # "idle", NEW r \in Refunds, r = work[p].refund, Ready(step, answer, r), Go(p, step, answer)
    PROVE  \A q \in Askers \cup Workers : Holds(q)'
<1>1. /\ work'[p].step = step /\ work'[p].answer = answer /\ work'[p].refund = work[p].refund
      /\ \A q \in (Askers \cup Workers) \ {p} : work'[q] = work[q]
  BY Gone DEF IInv
<1>2. Holds(p)'
  <2>1. r = work[p].refund /\ Requested(r)
    BY WorkingOn
  <2>2. Requested(r)' /\ (authority[r].given => authority'[r].given) /\ Ready(step, answer, r)
    BY <2>1, RefundStays
  <2> QED BY <1>1, <2>1, <2>2 DEF Holds, Requested, SpentBy, Ready
<1> QED BY <1>1, <1>2, HoldsStays

LEMMA TurnedHolds ==
    ASSUME IInv, EachMoves, NEW p \in Askers \cup Workers, NEW step \in {"consume", "recover", "dispatch", "fetch"},
           NEW r \in Refunds, Requested(r)', step \in {"dispatch", "fetch"} => authority[r].given,
           work' = [work EXCEPT ![p] = [AtRest EXCEPT !.step = step, !.refund = r]]
    PROVE  \A q \in Askers \cup Workers : Holds(q)'
<1>1. step \in Steps /\ RefundTypeOK
  BY DEF Steps, IInv
<1>2. /\ work'[p].step = step /\ work'[p].refund = r
      /\ \A q \in (Askers \cup Workers) \ {p} : work'[q] = work[q]
  <2> DEFINE row == [AtRest EXCEPT !.step = step, !.refund = r]
  <2>1. row.step = step /\ row.refund = r
    BY DEF AtRest
  <2>2. work' = [work EXCEPT ![p] = row]
    OBVIOUS
  <2> HIDE DEF row
  <2> QED BY <1>1, <2>1, <2>2 DEF RefundTypeOK
<1>3. Holds(p)'
  <2>1. authority[r].given => authority'[r].given
    BY RefundStays
  <2> QED BY <1>2, <2>1 DEF Holds, Requested
<1> QED BY <1>2, <1>3, HoldsStays

LEMMA ConsumeHolds ==
    ASSUME IInv, EachMoves, NEW p \in Askers, Consume(p)
    PROVE  \A q \in Askers \cup Workers : Holds(q)'
<1>1. PICK r \in Refunds, k \in Receipts : r = work[p].refund /\ k = refund[r].receipt /\ Requested(r)
  BY WorkingOn DEF Consume
<1>2. work[p].step # "idle" /\ RefundTypeOK
  BY DEF Consume, IInv
<1>3. CASE Ambiguous(r) /\ Go(p, "commit", IF SpentBy(r) THEN "authorized" ELSE "authorization_refused")
  <2>1. SpentBy(r) => SpentBy(r)'
    BY <1>1, PaidStays
  <2> DEFINE answer == IF SpentBy(r) THEN "authorized" ELSE "authorization_refused"
  <2>2. answer \in {"authorized"} \cup Unspent /\ (answer = "authorized" => SpentBy(r))
    BY DEF Unspent
  <2> HIDE DEF answer
  <2>3. Ready("commit", answer, r) /\ "commit" \in Steps
    BY <1>1, <2>1, <2>2 DEF Ready, Steps
  <2>4. Go(p, "commit", answer)
    BY <1>3 DEF answer
  <2> QED BY <1>1, <1>2, <2>2, <2>3, <2>4, GoneHolds
<1>4. CASE /\ AuthConsumes(k, r)
           /\ Go(p, IF Answer(k, r) = "none" THEN "lookup" ELSE "commit", Answer(k, r))
  <2>1. Answer(k, r) \in {"authorized", "none"} \cup Unspent
    BY DEF Answer, Unspent
  <2>2. ASSUME Answer(k, r) = "authorized"
        PROVE  SpentBy(r)'
    <3>1. \/ Consumable(k, r)
          \/ receipt[k].state = "consumed" /\ receipt[k].by = r
      BY <2>2 DEF Answer, Consumable, Unspent
    <3>2. CASE Consumable(k, r)
      <4>1. receipt'[k] = [state |-> "consumed", by |-> r]
        BY <1>2, <1>4, <3>2, Spent
      <4> QED BY <4>1 DEF SpentBy
    <3>3. CASE receipt[k].state = "consumed" /\ receipt[k].by = r
      BY <1>1, <3>3, PaidStays DEF SpentBy
    <3> QED BY <3>1, <3>2, <3>3
  <2> DEFINE step == IF Answer(k, r) = "none" THEN "lookup" ELSE "commit"
  <2>3. step \in {"lookup", "commit"} /\ step \in Steps /\ (step = "commit" => Answer(k, r) # "none")
    BY DEF Steps
  <2> HIDE DEF step
  <2>4. Ready(step, Answer(k, r), r)
    BY <1>1, <2>1, <2>2, <2>3 DEF Ready
  <2>5. Go(p, step, Answer(k, r))
    BY <1>4 DEF step
  <2> QED BY <1>1, <1>2, <2>1, <2>3, <2>4, <2>5, GoneHolds
<1> QED BY <1>1, <1>3, <1>4 DEF Consume

LEMMA CallHolds ==
    ASSUME IInv, EachMoves, NEW w \in Workers, Call(w)
    PROVE  \A q \in Askers \cup Workers : Holds(q)'
<1>1. PICK r \in Refunds : r = work[w].refund /\ authority[r].given
  BY WorkingOn DEF Call
<1>2. PICK k \in {"none", "accepted", "failed", "returned"} :
         /\ atProvider' = [atProvider EXCEPT ![r] = k]
         /\ \/ Go(w, "store", IF k = "failed" THEN "rejected" ELSE "accepted")
            \/ Go(w, "store", "ambiguous")
  BY <1>1 DEF Call, IInv, RefundTypeOK
<1>3. atProvider'[r] = k
  BY <1>1, <1>2 DEF IInv, RefundTypeOK
<1>4. PICK answer \in {"rejected", "accepted", "ambiguous"} :
         Go(w, "store", answer) /\ (answer = "rejected" => k = "failed")
  BY <1>2
<1>5. Ready("store", answer, r) /\ "store" \in Steps /\ work[w].step # "idle"
  BY <1>1, <1>3, <1>4 DEF Ready, Steps, Call
<1> QED BY <1>1, <1>4, <1>5, GoneHolds

LEMMA HoldsNext ==
    ASSUME IInv, [RefundNext]_refundVars
    PROVE  \A q \in Askers \cup Workers : Holds(q)'
<1> DEFINE AllHold == \A q \in Askers \cup Workers : Holds(q)'
<1>0. EachMoves
  BY MovesNext
<1>1. ASSUME UNCHANGED work
      PROVE  AllHold
  BY <1>0, <1>1, HoldsStays
<1>2. ASSUME NEW p \in Askers \cup Workers, Rest(p)
      PROVE  AllHold
  BY <1>0, <1>2, RestedHolds
<1>3. ASSUME NEW p \in Askers, NEW r \in Refunds, NEW case \in Cases, NEW k \in Receipts,
             NEW exposure \in {"clear", "exposed"}, Request(p, r, case, k, exposure)
      PROVE  AllHold
  <2>1. CASE Refusable(case.capture, exposure)
    BY <1>1, <1>3, <2>1 DEF Request
  <2>2. CASE ~ Refusable(case.capture, exposure)
    <3> DEFINE row == [status |-> "authorization_pending", case |-> case, receipt |-> k]
    <3>1. row.status = "authorization_pending" /\ refund' = [refund EXCEPT ![r] = row]
      BY <1>3, <2>2 DEF Request
    <3> HIDE DEF row
    <3>2. refund'[r].status = "authorization_pending"
      BY <3>1 DEF IInv, RefundTypeOK
    <3>3. Requested(r)'
      BY <3>2 DEF Requested
    <3> QED BY <1>0, <1>3, <2>2, <3>3, TurnedHolds DEF Request
  <2> QED BY <2>1, <2>2
<1>4. ASSUME NEW p \in Askers, NEW r \in Refunds, RequestAgain(p, r)
      PROVE  AllHold
  <2>1. Requested(r)'
    BY <1>0, <1>4, RefundStays DEF RequestAgain, Requested
  <2> QED BY <1>0, <1>4, <2>1, TurnedHolds DEF RequestAgain
<1>5. ASSUME NEW p \in Askers, LoseConsumption(p) \/ LookUp(p) \/ Commit(p)
      PROVE  AllHold
  <2>1. CASE LoseConsumption(p)
    <3>1. PICK r \in Refunds : r = work[p].refund
      BY <2>1, WorkingOn DEF LoseConsumption
    <3>2. Ready("lookup", "none", r) /\ "lookup" \in Steps
      BY DEF Ready, Steps
    <3> QED BY <1>0, <1>2, <2>1, <3>1, <3>2, GoneHolds DEF LoseConsumption
  <2>2. CASE LookUp(p)
    <3>1. PICK r \in Refunds : r = work[p].refund /\ Requested(r)
      BY <2>2, WorkingOn DEF LookUp
    <3>2. SpentBy(r) => Ready("commit", "authorized", r)
      BY <1>0, <3>1, PaidStays DEF Ready
    <3>3. "commit" \in Steps
      BY DEF Steps
    <3> QED BY <1>0, <1>2, <2>2, <3>1, <3>2, <3>3, GoneHolds DEF LookUp
  <2>3. CASE Commit(p)
    BY <1>2, <2>3 DEF Commit
  <2> QED BY <1>5, <2>1, <2>2, <2>3
<1>6. ASSUME NEW w \in Workers, RecoverAuthorization(w) \/ Store(w)
      PROVE  AllHold
  BY <1>2, <1>6 DEF RecoverAuthorization, Store
<1>7. ASSUME NEW w \in Workers, Dispatch(w) \/ LoseCall(w) \/ Fetch(w)
      PROVE  AllHold
  <2>1. PICK r \in Refunds : r = work[w].refund /\ authority[r].given /\ work[w].step # "idle"
    BY <1>7, WorkingOn DEF Dispatch, LoseCall, Fetch
  <2>2. /\ Ready("call", "none", r) /\ Ready("store", "ambiguous", r)
        /\ {"call", "store"} \subseteq Steps
    BY <2>1 DEF Ready, Steps
  <2> QED BY <1>0, <1>2, <1>7, <2>1, <2>2, GoneHolds DEF Dispatch, LoseCall, Fetch
<1>8. ASSUME NEW w \in Workers, NEW r \in Refunds, Take(w, r)
      PROVE  AllHold
  <2>1. refund[r].status \in InFlight \cup {"authorization_pending", "authorized"}
    BY <1>8 DEF Take
  <2>2. Requested(r) /\ (refund[r].status # "authorization_pending" => authority[r].given)
    BY <2>1 DEF InFlight, Requested, IInv, RowSound, Beyond
  <2>3. /\ StepFor(refund[r].status) \in {"consume", "recover", "dispatch", "fetch"}
        /\ StepFor(refund[r].status) \in {"dispatch", "fetch"} => authority[r].given
    BY <2>1, <2>2 DEF StepFor, InFlight
  <2>4. Requested(r)'
    BY <1>0, <2>2, RefundStays
  <2> QED BY <1>0, <1>8, <2>3, <2>4, TurnedHolds DEF Take
<1>9. ASSUME NEW p \in Askers \cup Workers, StopWork(p)
      PROVE  AllHold
  BY <1>2, <1>9 DEF StopWork
<1>10. ASSUME NEW p \in Askers, Consume(p)
       PROVE  AllHold
  BY <1>0, <1>10, ConsumeHolds
<1>11. ASSUME NEW w \in Workers, Call(w)
       PROVE  AllHold
  BY <1>0, <1>11, CallHolds
<1>12. ASSUME \/ \E c \in Captures : Doubt(c)
              \/ \E k \in Receipts : ReceiptEnds(k) \/ \E r \in Refunds : ConsumptionArrives(k, r)
              \/ \E r \in Refunds : \/ FailToReturn(r) \/ NotifiedFailure(r)
                                    \/ \E m \in Movements, n \in Amounts : ReturnMoney(r, m, n)
              \/ \E s \in reports : RecordRefundFact(s) \/ ApplyEvidence(s)
              \/ \E m \in Movements : Allocate(m)
              \/ UNCHANGED refundVars
       PROVE  AllHold
  <2>1. UNCHANGED work
    BY <1>12 DEF Doubt, ReceiptEnds, ConsumptionArrives, FailToReturn, NotifiedFailure, ReturnMoney,
                 RecordRefundFact, ApplyEvidence, Allocate, refundVars
  <2> QED BY <1>1, <2>1
<1> HIDE DEF AllHold
<1>13. ASSUME NEW p \in Askers, NEW r \in Refunds,
              \/ RequestAgain(p, r)
              \/ \E c \in Cases, k \in Receipts, e \in {"clear", "exposed"} : Request(p, r, c, k, e)
       PROVE  AllHold
  BY <1>3, <1>4, <1>13
<1>14. ASSUME \E p \in Askers : \/ Consume(p) \/ LoseConsumption(p) \/ LookUp(p) \/ Commit(p)
                                \/ \E r \in Refunds : \/ RequestAgain(p, r)
                                                      \/ \E c \in Cases, k \in Receipts, e \in {"clear", "exposed"} :
                                                            Request(p, r, c, k, e)
       PROVE  AllHold
  BY <1>5, <1>10, <1>13, <1>14
<1>15. ASSUME \E w \in Workers : \/ RecoverAuthorization(w) \/ Dispatch(w) \/ Call(w) \/ LoseCall(w)
                                 \/ Store(w) \/ Fetch(w) \/ \E r \in Refunds : Take(w, r)
       PROVE  AllHold
  BY <1>6, <1>7, <1>8, <1>11, <1>15
<1>16. AllHold
  BY <1>9, <1>12, <1>14, <1>15 DEF RefundNext
<1> QED BY <1>16 DEF AllHold

LEMMA OnWireNext ==
    ASSUME IInv, EachMoves, \A r \in Refunds : SentSound(r)
    PROVE  OnWire'
<1> SUFFICES ASSUME NEW k \in Receipts, NEW r \in Refunds, <<k, r>> \in wire'
             PROVE  Requested(r)'
  BY DEF OnWire
<1>1. Requested(r)
  BY DEF SentSound, IInv, OnWire
<1> QED BY <1>1, RefundStays

LEMMA ReportedNext ==
    ASSUME IInv, EachMoves, Evidenced
    PROVE  Reported'
<1> SUFFICES ASSUME NEW s \in reports', s \in reports
             PROVE  atProvider'[s.refund] = "returned"
  BY DEF Reported, Evidenced
<1>1. s.refund \in Refunds /\ atProvider[s.refund] = "returned"
  BY DEF IInv, Reported, RefundTypeOK, Report
<1> QED BY <1>1, ProviderStays

-----------------------------------------------------------------------------
(* What is counted *)

Counting == (\A m \in Movements : Uncounted(m)) /\ (\A r \in Refunds : Counted(r)) /\ OneCompleted

\* nothing is counted by most steps
SameCount ==
    /\ UNCHANGED <<fact, allocation, completions>>
    /\ \A r \in Refunds : /\ authority'[r].allocated = authority[r].allocated
                          /\ authority'[r].completed = authority[r].completed

\* an allocation of n units, which the authorization of the refund still had to take
CountsFor(m, r, n) ==
    /\ n \in 0..Full /\ authority[r].allocated + n <= Full
    /\ n > 0 => \A z \in Refunds : ~ authority[z].completed
    /\ allocation' = [allocation EXCEPT ![m] = [state |-> "made", intended |-> n]]
    /\ authority'[r].allocated = authority[r].allocated + n
    /\ authority'[r].completed <=> authority[r].completed \/ (n > 0 /\ authority[r].allocated + n = Full)
    /\ completions'[r] = IF n > 0 /\ authority[r].allocated + n = Full THEN completions[r] + 1 ELSE completions[r]
    /\ authority'[r].given = authority[r].given
    /\ \A z \in Refunds \ {r} : authority'[z] = authority[z] /\ completions'[z] = completions[z]

Blocks(m) ==
    /\ allocation' = [allocation EXCEPT ![m] = [state |-> "blocked", intended |-> 0]]
    /\ UNCHANGED <<authority, completions>>

LEMMA IntendedFits ==
    ASSUME IInv, NEW m \in Movements, NEW r \in Refunds, r = fact[m].refund
    PROVE  /\ Intended(m) \in 0..Full /\ authority[r].allocated + Intended(m) <= Full
           /\ Intended(m) > 0 => \A z \in Refunds : ~ authority[z].completed
<1>1. /\ fact[m].amount \in Nat /\ Full \in Nat \ {0} /\ authority[r].allocated \in 0..Full
  BY RefundAssumption DEF IInv, RefundTypeOK, FactRow
<1> DEFINE room == IF Done(r) THEN 0 ELSE Full - authority[r].allocated
<1>2. room \in 0..Full /\ authority[r].allocated + room <= Full /\ (room > 0 => ~ Done(r))
  BY <1>1
<1>3. Intended(m) = IF fact[m].amount < room THEN fact[m].amount ELSE room
  BY DEF Intended, SmallerOf
<1> HIDE DEF room
<1> QED BY <1>1, <1>2, <1>3 DEF Done

LEMMA AllocateCounts ==
    ASSUME IInv, NEW m \in Movements, Allocate(m)
    PROVE  /\ fact[m].refund \in Refunds /\ allocation[m].state = "none" /\ allocation[m].intended = 0
           /\ fact' = fact
           /\ \/ Blocks(m)
              \/ \E n \in Nat : CountsFor(m, fact[m].refund, n)
<1>1. PICK r \in Refunds : r = fact[m].refund
  BY DEF Allocate, IInv, RefundTypeOK, FactRow
<1>2. allocation[m].state = "none" /\ allocation[m].intended = 0 /\ fact' = fact
  BY DEF Allocate, IInv, Uncounted
<1>3. CASE ~ authority[r].given \/ fact[m].contested
  <2>1. allocation' = [allocation EXCEPT ![m].state = "blocked"] /\ UNCHANGED <<authority, completions>>
    BY <1>1, <1>3 DEF Allocate
  <2> DEFINE row == [allocation[m] EXCEPT !.state = "blocked"]
  <2>2. row = [state |-> "blocked", intended |-> 0]
    BY <1>2 DEF IInv, RefundTypeOK
  <2>3. allocation' = [allocation EXCEPT ![m] = row]
    BY <2>1
  <2> QED BY <1>1, <1>2, <2>1, <2>2, <2>3 DEF Blocks
<1>4. CASE ~ (~ authority[r].given \/ fact[m].contested)
  <2> DEFINE n         == Intended(m)
             completes == n > 0 /\ authority[r].allocated + n = Full
             row       == [authority[r] EXCEPT !.allocated = @ + n, !.completed = @ \/ completes]
             Row       == [given : BOOLEAN, allocated : 0..Full, completed : BOOLEAN]
  <2>1. /\ n \in 0..Full /\ authority[r].allocated + n <= Full /\ n \in Nat
        /\ n > 0 => \A z \in Refunds : ~ authority[z].completed
    BY <1>1, IntendedFits, RefundAssumption
  <2>2. /\ allocation' = [allocation EXCEPT ![m] = [state |-> "made", intended |-> n]]
        /\ completions' = [completions EXCEPT ![r] = IF completes THEN @ + 1 ELSE @]
    BY <1>1, <1>4 DEF Allocate
  <2>3. authority' = [authority EXCEPT ![r] = row]
    BY <1>1, <1>4 DEF Allocate
  <2> HIDE DEF n
  <2>4. authority \in [Refunds -> Row] /\ authority[r] \in Row /\ completions \in [Refunds -> Nat]
    BY DEF IInv, RefundTypeOK
  <2>5. /\ row.given = authority[r].given /\ row.allocated = authority[r].allocated + n
        /\ row.completed = (authority[r].completed \/ completes)
    BY <2>4
  <2> HIDE DEF row
  <2>6. /\ completions'[r] = IF completes THEN completions[r] + 1 ELSE completions[r]
        /\ authority'[r] = row
        /\ \A z \in Refunds \ {r} : authority'[z] = authority[z] /\ completions'[z] = completions[z]
    BY <2>2, <2>3, <2>4
  <2>7. CountsFor(m, r, n)
    BY <2>1, <2>2, <2>5, <2>6 DEF CountsFor
  <2> QED BY <1>1, <1>2, <2>1, <2>7
<1> QED BY <1>3, <1>4

LEMMA SameCountStays ==
    ASSUME IInv, SameCount
    PROVE  Counting'
<1>1. /\ \A m \in Movements : fact'[m] = fact[m] /\ allocation'[m] = allocation[m]
      /\ fact' = fact /\ allocation' = allocation
  BY DEF SameCount
<1>2. ASSUME NEW m \in Movements
      PROVE  Uncounted(m)'
  BY <1>1 DEF Uncounted, IInv
<1>3. ASSUME NEW r \in Refunds
      PROVE  Counted(r)'
  <2>1. Units(r)' = Units(r)
    BY <1>1 DEF Units
  <2>2. Counted(r)
    BY DEF IInv
  <2> QED BY <2>1, <2>2 DEF Counted, SameCount
<1>4. OneCompleted'
  BY DEF OneCompleted, IInv, SameCount
<1> QED BY <1>2, <1>3, <1>4 DEF Counting

\* a fact that is not allocated yet counts for nothing, whichever refund it is of
LEMMA FactStays ==
    ASSUME IInv, NEW s \in reports, RecordRefundFact(s)
    PROVE  Counting'
<1>1. PICK m \in Movements : m = s.movement
  BY DEF IInv, RefundTypeOK, Report
<1>2. /\ UNCHANGED <<allocation, authority, completions>>
      /\ \A n \in Movements \ {m} : fact'[n] = fact[n]
      /\ \/ fact[m].refund = "none" /\ fact'[m].refund # "none"
         \/ fact'[m].refund = fact[m].refund
  <2>1. s.refund \in Refunds /\ s.refund # "none" /\ fact \in [Movements -> FactRow] /\ fact[m] \in FactRow
    BY RefundAssumption DEF IInv, RefundTypeOK, Report
  <2> DEFINE row == IF fact[m].refund = "none" THEN [refund |-> s.refund, amount |-> s.amount, contested |-> FALSE]
                    ELSE [fact[m] EXCEPT !.contested = TRUE]
  <2>2. \/ fact[m].refund = "none" /\ row.refund # "none"
        \/ row.refund = fact[m].refund
    BY <2>1 DEF FactRow
  <2>3. fact' = [fact EXCEPT ![m] = row]
    BY <1>1 DEF RecordRefundFact
  <2> HIDE DEF row
  <2>4. UNCHANGED <<allocation, authority, completions>>
    BY DEF RecordRefundFact
  <2> QED BY <2>1, <2>2, <2>3, <2>4
<1>3. ASSUME NEW n \in Movements
      PROVE  Uncounted(n)'
  BY <1>2 DEF Uncounted, IInv
<1>4. ASSUME NEW r \in Refunds
      PROVE  Counted(r)'
  <2>1. fact[m].refund = "none" => allocation[m].intended = 0
    BY DEF IInv, Uncounted
  <2>2. \A u \in Movements \X (1..Full) :
           (fact'[u[1]].refund = r /\ u[2] <= allocation[u[1]].intended) <=> (fact[u[1]].refund = r /\ u[2] <= allocation[u[1]].intended)
    <3> SUFFICES ASSUME NEW n \in Movements, NEW i \in 1..Full, i <= allocation[n].intended
                 PROVE  fact'[n].refund = fact[n].refund
      OBVIOUS
    <3>1. CASE n = m
      <4>1. allocation[m].intended \in 0..Full /\ i >= 1
        BY DEF IInv, RefundTypeOK
      <4>2. fact[m].refund # "none"
        BY <2>1, <3>1, <4>1
      <4> QED BY <1>2, <3>1, <4>2
    <3>2. CASE n # m
      BY <1>2, <3>2
    <3> QED BY <3>1, <3>2
  <2>3. Units(r)' = Units(r)
    BY <1>2, <2>2 DEF Units
  <2>4. Counted(r)
    BY DEF IInv
  <2> QED BY <1>2, <2>3, <2>4 DEF Counted
<1>5. OneCompleted'
  BY <1>2 DEF OneCompleted, IInv
<1> QED BY <1>3, <1>4, <1>5 DEF Counting

LEMMA UnitsOf ==
    ASSUME NEW m, NEW n \in Nat
    PROVE  IsFiniteSet({m} \X (1..n)) /\ Cardinality({m} \X (1..n)) = n
<1> DEFINE f == [i \in 1..n |-> <<m, i>>]
<1>1. IsFiniteSet(1..n) /\ Cardinality(1..n) = n
  BY FS_Interval
<1>2. f \in Bijection(1..n, {m} \X (1..n))
  <2>1. /\ f \in [1..n -> {m} \X (1..n)]
        /\ \A a, b \in 1..n : f[a] = f[b] => a = b
    OBVIOUS
  <2>2. \A t \in {m} \X (1..n) : \E i \in 1..n : f[i] = t
    OBVIOUS
  <2> QED BY <2>1, <2>2 DEF Bijection, Injection, Surjection, IsInjective
<1>3. ExistsBijection(1..n, {m} \X (1..n))
  BY <1>2 DEF ExistsBijection
<1> HIDE DEF f
<1> QED BY <1>1, <1>3, FS_Bijection

LEMMA CountsCounted ==
    ASSUME IInv, NEW m \in Movements, NEW r \in Refunds, r = fact[m].refund, NEW n \in Nat, CountsFor(m, r, n),
           allocation[m].intended = 0, UNCHANGED fact
    PROVE  Counting'
<1>0. /\ Full \in Nat \ {0} /\ allocation \in [Movements -> [state : {"none", "blocked", "made"}, intended : 0..Full]]
      /\ \A z \in Refunds : authority[z].allocated \in 0..Full /\ completions[z] \in Nat
  BY RefundAssumption DEF IInv, RefundTypeOK
<1>1. /\ allocation'[m] = [state |-> "made", intended |-> n]
      /\ \A k \in Movements \ {m} : allocation'[k] = allocation[k]
  BY <1>0 DEF CountsFor
<1>2. ASSUME NEW k \in Movements
      PROVE  Uncounted(k)'
  <2>1. fact[m].refund # "none"
    BY RefundAssumption
  <2> QED BY <1>1, <2>1 DEF Uncounted, IInv
<1>3. Counted(r)'
  <2> DEFINE new == {m} \X (1..n)
  <2>1. \A z \in Movements : \A i \in 1..Full :
           (fact'[z].refund = r /\ i <= allocation'[z].intended)
              <=> ((fact[z].refund = r /\ i <= allocation[z].intended) \/ (z = m /\ i <= n))
    BY <1>0, <1>1
  <2>2. n <= Full
    BY DEF CountsFor
  <2>3. Units(r)' = Units(r) \cup new
    BY <1>0, <2>1, <2>2 DEF Units
  <2>4. Units(r) \cap new = {}
    BY <1>0 DEF Units
  <2>5. IsFiniteSet(new) /\ Cardinality(new) = n
    BY UnitsOf
  <2> HIDE DEF new
  <2>6. Counted(r) /\ IsFiniteSet(Units(r))
    BY DEF IInv, Counted
  <2>7. IsFiniteSet({}) /\ Cardinality({}) = 0
    BY FS_EmptySet
  <2>8. IsFiniteSet(Units(r) \cup new) /\ Cardinality(Units(r) \cup new) = Cardinality(Units(r)) + n
    <3>1. /\ IsFiniteSet(Units(r) \cup new)
          /\ Cardinality(Units(r) \cup new) = Cardinality(Units(r)) + Cardinality(new) - Cardinality(Units(r) \cap new)
      BY <2>5, <2>6, FS_Union
    <3>2. Cardinality(Units(r)) \in Nat
      BY <2>6, FS_CardinalityType
    <3>3. Cardinality(Units(r) \cap new) = 0
      BY <2>4, <2>7
    <3> QED BY <2>5, <3>1, <3>2, <3>3
  <2>9. IsFiniteSet(Units(r)') /\ authority'[r].allocated = Cardinality(Units(r)')
    BY <2>3, <2>6, <2>8 DEF CountsFor, Counted
  <2>10. /\ authority'[r].completed <=> authority'[r].allocated = Full
         /\ completions'[r] = IF authority'[r].completed THEN 1 ELSE 0
    <3>1. CASE n = 0
      BY <1>0, <2>6, <3>1 DEF CountsFor, Counted
    <3>2. CASE n > 0
      <4>1. ~ authority[r].completed /\ completions[r] = 0
        BY <2>6, <3>2 DEF CountsFor, Counted
      <4>2. authority'[r].completed <=> authority[r].allocated + n = Full
        BY <3>2, <4>1 DEF CountsFor
      <4> QED BY <3>2, <4>1, <4>2 DEF CountsFor
    <3> QED BY <3>1, <3>2
  <2> QED BY <2>9, <2>10 DEF Counted
<1>4. ASSUME NEW z \in Refunds \ {r}
      PROVE  Counted(z)'
  <2>1. \A k \in Movements : fact[k].refund = z => allocation'[k] = allocation[k]
    BY <1>1
  <2>2. Units(z)' = Units(z)
    BY <2>1 DEF Units
  <2>3. authority'[z] = authority[z] /\ completions'[z] = completions[z]
    BY DEF CountsFor
  <2>4. Counted(z)
    BY DEF IInv
  <2> QED BY <2>2, <2>3, <2>4 DEF Counted
<1>5. OneCompleted'
  BY DEF OneCompleted, IInv, CountsFor
<1> QED BY <1>2, <1>3, <1>4, <1>5 DEF Counting

LEMMA CountingNext ==
    ASSUME IInv, \/ SameCount
                 \/ \E s \in reports : RecordRefundFact(s)
                 \/ \E m \in Movements : Allocate(m)
    PROVE  Counting'
<1>1. ASSUME NEW m \in Movements, Allocate(m)
      PROVE  Counting'
  <2>1. PICK r \in Refunds : r = fact[m].refund
    BY <1>1, AllocateCounts
  <2>2. allocation[m].state = "none" /\ allocation[m].intended = 0 /\ fact' = fact
    BY <1>1, AllocateCounts
  <2>3. CASE Blocks(m)
    <3>1. /\ allocation'[m].state = "blocked" /\ allocation'[m].intended = 0
          /\ \A k \in Movements \ {m} : allocation'[k] = allocation[k]
      BY <2>3 DEF Blocks, IInv, RefundTypeOK
    <3>2. \A k \in Movements : allocation'[k].intended = allocation[k].intended
      BY <2>2, <3>1
    <3>3. fact[m].refund # "none"
      BY <2>1, RefundAssumption
    <3>4. ASSUME NEW k \in Movements
          PROVE  Uncounted(k)'
      BY <2>2, <3>1, <3>3 DEF Uncounted, IInv
    <3>5. ASSUME NEW z \in Refunds
          PROVE  Counted(z)'
      <4>1. Units(z)' = Units(z)
        BY <2>2, <3>2 DEF Units
      <4>2. Counted(z)
        BY DEF IInv
      <4> QED BY <2>3, <4>1, <4>2 DEF Counted, Blocks
    <3>6. OneCompleted'
      BY <2>3 DEF OneCompleted, IInv, Blocks
    <3> QED BY <3>4, <3>5, <3>6 DEF Counting
  <2>4. ASSUME NEW n \in Nat, CountsFor(m, fact[m].refund, n)
        PROVE  Counting'
    BY <2>1, <2>2, <2>4, CountsCounted
  <2> QED BY <1>1, <2>3, <2>4, AllocateCounts
<1> QED BY <1>1, SameCountStays, FactStays

-----------------------------------------------------------------------------
(* Types *)

StepAnswers == {"none", "authorized", "accepted", "rejected", "ambiguous"} \cup Unspent
WorkSet     == [Askers \cup Workers -> Work]
RefundSet   == [Refunds -> RefundRow]

\* a step leaves the rows of refunds, receipts and work well formed ...
RowsTyped ==
    /\ UNCHANGED <<covers, reportsMade, reports, fact, allocation, completions>>
    /\ standing' \in [Captures -> {"sound", "sibling", "contested"}]
    /\ receipt' \in [Receipts -> [state : {"issued", "consumed", "expired", "voided"}, by : Refunds \cup {"none"}]]
    /\ wire' \subseteq Receipts \X Refunds
    /\ refund' \in RefundSet
    /\ authority' \in [Refunds -> [given : BOOLEAN, allocated : 0..Full, completed : BOOLEAN]]
    /\ atProvider' \in [Refunds -> {"none", "accepted", "returned", "failed"}]
    /\ work' \in WorkSet
    /\ refundFaults' \in 0..MaxRefundFaults
    /\ \A r \in Refunds : /\ authority'[r].allocated = authority[r].allocated
                          /\ authority'[r].completed = authority[r].completed

\* ... or it adds to the evidence
EvidenceTyped ==
    /\ UNCHANGED <<covers, receipt, wire, standing, refund, work, refundFaults>>
    /\ authority' \in [Refunds -> [given : BOOLEAN, allocated : 0..Full, completed : BOOLEAN]]
    /\ atProvider' \in [Refunds -> {"none", "accepted", "returned", "failed"}]
    /\ reports' \subseteq Report
    /\ reportsMade' \in 0..MaxReports
    /\ fact' \in [Movements -> FactRow]
    /\ allocation' \in [Movements -> [state : {"none", "blocked", "made"}, intended : 0..Full]]
    /\ completions' \in [Refunds -> Nat]

LEMMA TypedSteps ==
    ASSUME IInv, RowsTyped \/ EvidenceTyped
    PROVE  RefundTypeOK'
<1>1. RefundTypeOK
  BY DEF IInv
<1>2. CASE RowsTyped
  BY <1>1, <1>2 DEF RowsTyped, RefundTypeOK, RefundSet, WorkSet
<1>3. CASE EvidenceTyped
  BY <1>1, <1>3 DEF EvidenceTyped, RefundTypeOK
<1> QED BY <1>2, <1>3

\* a step that only moves a request or a worker, or writes one row
LEMMA QuietRows ==
    ASSUME IInv, UNCHANGED <<covers, evidence>>,
           UNCHANGED standing \/ standing' \in [Captures -> {"sound", "sibling", "contested"}],
           \/ UNCHANGED receipt
           \/ receipt' \in [Receipts -> [state : {"issued", "consumed", "expired", "voided"}, by : Refunds \cup {"none"}]],
           UNCHANGED wire \/ wire' \subseteq Receipts \X Refunds,
           UNCHANGED refund \/ refund' \in RefundSet,
           UNCHANGED authority \/ \E r \in Refunds : authority' = [authority EXCEPT ![r].given = TRUE],
           UNCHANGED atProvider \/ atProvider' \in [Refunds -> {"none", "accepted", "returned", "failed"}],
           UNCHANGED work \/ work' \in WorkSet,
           UNCHANGED refundFaults \/ RefundFault
    PROVE  RowsTyped
<1>1. RefundTypeOK /\ MaxRefundFaults \in Nat
  BY RefundAssumption DEF IInv
<1>2. refundFaults' \in 0..MaxRefundFaults
  BY <1>1 DEF RefundFault, RefundTypeOK
<1>3. /\ authority' \in [Refunds -> [given : BOOLEAN, allocated : 0..Full, completed : BOOLEAN]]
      /\ \A r \in Refunds : /\ authority'[r].allocated = authority[r].allocated
                            /\ authority'[r].completed = authority[r].completed
  <2>1. CASE UNCHANGED authority
    BY <1>1, <2>1 DEF RefundTypeOK
  <2>2. ASSUME NEW r \in Refunds, authority' = [authority EXCEPT ![r].given = TRUE]
        PROVE  <1>3!1 /\ <1>3!2
    BY <1>1, <2>2, Given
  <2> QED BY <2>1, <2>2
<1>4. /\ standing' \in [Captures -> {"sound", "sibling", "contested"}]
      /\ receipt' \in [Receipts -> [state : {"issued", "consumed", "expired", "voided"}, by : Refunds \cup {"none"}]]
      /\ wire' \subseteq Receipts \X Refunds
  BY <1>1 DEF RefundTypeOK
<1>5. /\ refund' \in RefundSet
      /\ atProvider' \in [Refunds -> {"none", "accepted", "returned", "failed"}]
      /\ work' \in WorkSet
  BY <1>1 DEF RefundTypeOK, RefundSet, WorkSet
<1> QED BY <1>2, <1>3, <1>4, <1>5 DEF RowsTyped, evidence

LEMMA StatusTyped ==
    ASSUME IInv, NEW r \in Refunds, NEW s \in RefundStatus, SetStatus(r, s)
    PROVE  refund' \in RefundSet
BY StatusSet DEF IInv, RefundSet

LEMMA GoTyped ==
    ASSUME IInv, NEW p \in Askers \cup Workers, NEW step \in Steps, NEW answer \in StepAnswers, Go(p, step, answer)
    PROVE  work' \in WorkSet
BY Gone DEF IInv, WorkSet, StepAnswers

LEMMA RestTyped ==
    ASSUME IInv, NEW p \in Askers \cup Workers, Rest(p)
    PROVE  work' \in WorkSet
BY Rested DEF IInv, WorkSet

LEMMA TurnTyped ==
    ASSUME IInv, NEW p \in Askers \cup Workers, NEW step \in Steps, NEW r \in Refunds,
           work' = [work EXCEPT ![p] = [AtRest EXCEPT !.step = step, !.refund = r]]
    PROVE  work' \in WorkSet
<1> DEFINE row == [AtRest EXCEPT !.step = step, !.refund = r]
<1>1. row \in Work
  BY DEF AtRest, Work, Steps
<1>2. work' = [work EXCEPT ![p] = row]
  OBVIOUS
<1> HIDE DEF row
<1> QED BY <1>1, <1>2 DEF IInv, RefundTypeOK, WorkSet

LEMMA SpendTyped ==
    ASSUME IInv, NEW k \in Receipts, NEW r \in Refunds, AuthConsumes(k, r)
    PROVE  receipt' \in [Receipts -> [state : {"issued", "consumed", "expired", "voided"}, by : Refunds \cup {"none"}]]
BY Spent DEF IInv

LEMMA Words ==
    /\ {"refused", "authorization_pending", "authorized", "dispatching", "submitted", "unknown", "failed",
        "succeeded", "discrepancy"} \subseteq RefundStatus
    /\ Unspent \subseteq RefundStatus /\ Unspent \subseteq StepAnswers
    /\ {"none", "authorized", "accepted", "rejected", "ambiguous", "authorization_refused"} \subseteq StepAnswers
    /\ {"consume", "lookup", "commit", "recover", "dispatch", "call", "fetch", "store"} \subseteq Steps
BY DEF RefundStatus, InFlight, Ended, Unspent, StepAnswers, Steps

LEMMA RowStepsTyped ==
    ASSUME IInv,
           \/ \E c \in Captures : Doubt(c)
           \/ \E k \in Receipts : ReceiptEnds(k) \/ \E r \in Refunds : ConsumptionArrives(k, r)
           \/ \E r \in Refunds : NotifiedFailure(r) \/ FailToReturn(r)
           \/ \E p \in Askers \cup Workers : StopWork(p)
           \/ \E s \in reports : ApplyEvidence(s)
           \/ UNCHANGED refundVars
    PROVE  RowsTyped
<1>1. ASSUME NEW c \in Captures, Doubt(c)
      PROVE  RowsTyped
  <2>1. standing' \in [Captures -> {"sound", "sibling", "contested"}]
    BY <1>1 DEF Doubt, IInv, RefundTypeOK
  <2> QED BY <1>1, <2>1, QuietRows DEF Doubt
<1>2. ASSUME NEW k \in Receipts, ReceiptEnds(k)
      PROVE  RowsTyped
  <2>1. PICK end \in {"expired", "voided"} : receipt' = [receipt EXCEPT ![k].state = end]
    BY <1>2 DEF ReceiptEnds
  <2> DEFINE row == [receipt[k] EXCEPT !.state = end]
             Row == [state : {"issued", "consumed", "expired", "voided"}, by : Refunds \cup {"none"}]
  <2>2. row \in Row /\ receipt \in [Receipts -> Row]
    BY <2>1 DEF IInv, RefundTypeOK
  <2>3. receipt' = [receipt EXCEPT ![k] = row]
    BY <2>1
  <2> HIDE DEF row
  <2>4. receipt' \in [Receipts -> Row]
    BY <2>2, <2>3
  <2> QED BY <1>2, <2>4, QuietRows DEF ReceiptEnds
<1>3. ASSUME NEW k \in Receipts, NEW r \in Refunds, ConsumptionArrives(k, r)
      PROVE  RowsTyped
  <2>1. AuthConsumes(k, r) /\ wire' \subseteq Receipts \X Refunds
    BY <1>3 DEF ConsumptionArrives, IInv, RefundTypeOK
  <2> QED BY <1>3, <2>1, SpendTyped, QuietRows DEF ConsumptionArrives
<1>4. ASSUME NEW r \in Refunds, NotifiedFailure(r)
      PROVE  RowsTyped
  <2>1. UNCHANGED refund \/ SetStatus(r, "failed")
    BY <1>4 DEF NotifiedFailure, ApplyFailure
  <2> QED BY <1>4, <2>1, Words, StatusTyped, QuietRows DEF NotifiedFailure
<1>5. ASSUME NEW r \in Refunds, FailToReturn(r)
      PROVE  RowsTyped
  <2>1. atProvider' \in [Refunds -> {"none", "accepted", "returned", "failed"}]
    BY <1>5 DEF FailToReturn, IInv, RefundTypeOK
  <2> QED BY <1>5, <2>1, QuietRows DEF FailToReturn
<1>6. ASSUME NEW p \in Askers \cup Workers, StopWork(p)
      PROVE  RowsTyped
  <2>1. work' \in WorkSet
    BY <1>6, RestTyped DEF StopWork
  <2> QED BY <1>6, <2>1, QuietRows DEF StopWork
<1>7. ASSUME NEW s \in reports, ApplyEvidence(s)
      PROVE  RowsTyped
  <2>1. s.refund \in Refunds
    BY DEF IInv, RefundTypeOK, Report
  <2>2. SetStatus(s.refund, "succeeded") \/ SetStatus(s.refund, "discrepancy")
    BY <1>7 DEF ApplyEvidence
  <2>3. refund' \in RefundSet
    BY <2>1, <2>2, Words, StatusTyped
  <2> QED BY <1>7, <2>3, QuietRows DEF ApplyEvidence
<1>8. CASE UNCHANGED refundVars
  BY <1>8, QuietRows DEF refundVars
<1> QED BY <1>1, <1>2, <1>3, <1>4, <1>5, <1>6, <1>7, <1>8

LEMMA RequestStepsTyped ==
    ASSUME IInv, NEW p \in Askers,
           \/ Consume(p) \/ LoseConsumption(p) \/ LookUp(p) \/ Commit(p)
           \/ \E r \in Refunds : \/ RequestAgain(p, r)
                                 \/ \E c \in Cases, k \in Receipts, e \in {"clear", "exposed"} :
                                       Request(p, r, c, k, e)
    PROVE  RowsTyped
<1>1. ASSUME Consume(p)
      PROVE  RowsTyped
  <2>1. PICK r \in Refunds, k \in Receipts : r = work[p].refund /\ k = refund[r].receipt
    BY <1>1, WorkingOn DEF Consume
  <2>2. PICK step \in {"commit", "lookup"}, answer \in StepAnswers : Go(p, step, answer)
    <3>1. Answer(k, r) \in StepAnswers
      BY DEF Answer, StepAnswers, Unspent
    <3> QED BY <1>1, <2>1, <3>1, Words DEF Consume
  <2>3. work' \in WorkSet
    BY <2>2, Words, GoTyped
  <2>4. UNCHANGED receipt \/ AuthConsumes(k, r)
    BY <1>1, <2>1 DEF Consume
  <2> QED BY <1>1, <2>3, <2>4, SpendTyped, QuietRows DEF Consume
<1>2. ASSUME LoseConsumption(p)
      PROVE  RowsTyped
  <2>1. PICK r \in Refunds, k \in Receipts : r = work[p].refund /\ k = refund[r].receipt
    BY <1>2, WorkingOn DEF LoseConsumption
  <2>2. UNCHANGED wire \/ wire' \subseteq Receipts \X Refunds
    BY <1>2, <2>1 DEF LoseConsumption, IInv, RefundTypeOK
  <2>3. work' \in WorkSet
    BY <1>2, Words, GoTyped, RestTyped DEF LoseConsumption
  <2> QED BY <1>2, <2>2, <2>3, QuietRows DEF LoseConsumption
<1>3. ASSUME LookUp(p)
      PROVE  RowsTyped
  <2>1. work' \in WorkSet
    BY <1>3, Words, GoTyped, RestTyped DEF LookUp
  <2> QED BY <1>3, <2>1, QuietRows DEF LookUp
<1>4. ASSUME Commit(p)
      PROVE  RowsTyped
  <2>1. PICK r \in Refunds : r = work[p].refund
    BY <1>4, WorkingOn DEF Commit
  <2>2. work[p].answer \in Unspent \cup {"authorized"} /\ work' \in WorkSet
    BY <1>4, RestTyped DEF Commit, IInv, Holds
  <2>3. UNCHANGED refund \/ refund' \in RefundSet
    BY <1>4, <2>1, <2>2, Words, StatusTyped DEF Commit, CommitAuthorized, CommitUnauthorized
  <2>4. UNCHANGED authority \/ authority' = [authority EXCEPT ![r].given = TRUE]
    BY <1>4, <2>1 DEF Commit, CommitAuthorized, CommitUnauthorized
  <2> QED BY <1>4, <2>2, <2>3, <2>4, QuietRows DEF Commit
<1>5. ASSUME NEW r \in Refunds, RequestAgain(p, r)
      PROVE  RowsTyped
  <2>1. work' \in WorkSet
    BY <1>5, Words, TurnTyped DEF RequestAgain
  <2> QED BY <1>5, <2>1, QuietRows DEF RequestAgain
<1>6. ASSUME NEW r \in Refunds, NEW c \in Cases, NEW k \in Receipts, NEW e \in {"clear", "exposed"},
             Request(p, r, c, k, e)
      PROVE  RowsTyped
  <2>1. CASE Refusable(c.capture, e)
    BY <1>6, <2>1, Words, StatusTyped, QuietRows DEF Request
  <2>2. CASE ~ Refusable(c.capture, e)
    <3>1. work' = [work EXCEPT ![p] = [AtRest EXCEPT !.step = "consume", !.refund = r]]
      BY <1>6, <2>2 DEF Request
    <3>2. work' \in WorkSet
      BY <3>1, Words, TurnTyped
    <3> DEFINE row == [status |-> "authorization_pending", case |-> c, receipt |-> k]
    <3>3. row \in RefundRow
      BY Words DEF RefundRow
    <3>4. refund' = [refund EXCEPT ![r] = row]
      BY <1>6, <2>2 DEF Request
    <3> HIDE DEF row
    <3>5. refund' \in RefundSet
      BY <3>3, <3>4 DEF IInv, RefundTypeOK, RefundSet
    <3> QED BY <1>6, <3>2, <3>5, QuietRows DEF Request
  <2> QED BY <2>1, <2>2
<1> QED BY <1>1, <1>2, <1>3, <1>4, <1>5, <1>6

LEMMA WorkerStepsTyped ==
    ASSUME IInv, NEW w \in Workers,
           \/ RecoverAuthorization(w) \/ Dispatch(w) \/ Call(w) \/ LoseCall(w)
           \/ Store(w) \/ Fetch(w) \/ \E r \in Refunds : Take(w, r)
    PROVE  RowsTyped
<1>1. ASSUME RecoverAuthorization(w)
      PROVE  RowsTyped
  <2>1. PICK r \in Refunds : r = work[w].refund
    BY <1>1, WorkingOn DEF RecoverAuthorization
  <2>2. UNCHANGED refund \/ refund' \in RefundSet
    BY <1>1, <2>1, Words, StatusTyped DEF RecoverAuthorization, CommitAuthorized
  <2>3. UNCHANGED authority \/ authority' = [authority EXCEPT ![r].given = TRUE]
    BY <1>1, <2>1 DEF RecoverAuthorization, CommitAuthorized
  <2>4. work' \in WorkSet
    BY <1>1, RestTyped DEF RecoverAuthorization
  <2> QED BY <1>1, <2>2, <2>3, <2>4, QuietRows DEF RecoverAuthorization
<1>2. ASSUME Dispatch(w)
      PROVE  RowsTyped
  <2>1. PICK r \in Refunds : r = work[w].refund
    BY <1>2, WorkingOn DEF Dispatch
  <2>2. UNCHANGED refund \/ refund' \in RefundSet
    BY <1>2, <2>1, Words, StatusTyped DEF Dispatch
  <2>3. work' \in WorkSet
    BY <1>2, Words, GoTyped DEF Dispatch
  <2> QED BY <1>2, <2>2, <2>3, QuietRows DEF Dispatch
<1>3. ASSUME Call(w)
      PROVE  RowsTyped
  <2>1. PICK r \in Refunds : r = work[w].refund
    BY <1>3, WorkingOn DEF Call
  <2>2. PICK k \in {"none", "accepted", "returned", "failed"} :
           /\ atProvider' = [atProvider EXCEPT ![r] = k]
           /\ \/ /\ Go(w, "store", IF k = "failed" THEN "rejected" ELSE "accepted")
                 /\ UNCHANGED refundFaults
              \/ Go(w, "store", "ambiguous") /\ RefundFault
    BY <1>3, <2>1 DEF Call, IInv, RefundTypeOK
  <2>3. atProvider' \in [Refunds -> {"none", "accepted", "returned", "failed"}]
    BY <2>2 DEF IInv, RefundTypeOK
  <2>4. work' \in WorkSet
    BY <2>2, Words, GoTyped
  <2> QED BY <1>3, <2>2, <2>3, <2>4, QuietRows DEF Call
<1>4. ASSUME LoseCall(w)
      PROVE  RowsTyped
  <2>1. work' \in WorkSet
    BY <1>4, Words, GoTyped DEF LoseCall
  <2> QED BY <1>4, <2>1, QuietRows DEF LoseCall
<1>5. ASSUME Store(w)
      PROVE  RowsTyped
  <2>1. PICK r \in Refunds : r = work[w].refund
    BY <1>5, WorkingOn DEF Store
  <2>2. UNCHANGED refund \/ refund' \in RefundSet
    BY <1>5, <2>1, Words, StatusTyped DEF Store
  <2>3. work' \in WorkSet
    BY <1>5, RestTyped DEF Store
  <2> QED BY <1>5, <2>2, <2>3, QuietRows DEF Store
<1>6. ASSUME Fetch(w)
      PROVE  RowsTyped
  <2>1. PICK r \in Refunds : r = work[w].refund
    BY <1>6, WorkingOn DEF Fetch
  <2>2. UNCHANGED refund \/ refund' \in RefundSet
    BY <1>6, <2>1, Words, StatusTyped DEF Fetch, ApplyFailure
  <2>3. work' \in WorkSet
    BY <1>6, Words, GoTyped, RestTyped DEF Fetch
  <2> QED BY <1>6, <2>2, <2>3, QuietRows DEF Fetch
<1>7. ASSUME NEW r \in Refunds, Take(w, r)
      PROVE  RowsTyped
  <2>1. StepFor(refund[r].status) \in {"recover", "dispatch", "fetch"}
    BY <1>7 DEF Take, StepFor, InFlight
  <2>2. work' \in WorkSet
    BY <1>7, <2>1, Words, TurnTyped DEF Take
  <2> QED BY <1>7, <2>2, QuietRows DEF Take
<1> QED BY <1>1, <1>2, <1>3, <1>4, <1>5, <1>6, <1>7

LEMMA EvidenceStepsTyped ==
    ASSUME IInv,
           \/ \E r \in Refunds, m \in Movements, n \in Amounts : ReturnMoney(r, m, n)
           \/ \E s \in reports : RecordRefundFact(s)
           \/ \E m \in Movements : Allocate(m)
    PROVE  EvidenceTyped
<1>0. RefundTypeOK /\ MaxReports \in Nat /\ Amounts \subseteq Nat
  BY RefundAssumption DEF IInv
<1>1. ASSUME NEW r \in Refunds, NEW m \in Movements, NEW n \in Amounts, ReturnMoney(r, m, n)
      PROVE  EvidenceTyped
  <2>1. reportsMade' \in 0..MaxReports
    BY <1>0, <1>1 DEF ReturnMoney, RefundTypeOK
  <2>2. /\ atProvider' \in [Refunds -> {"none", "accepted", "returned", "failed"}]
        /\ reports' \subseteq Report
    BY <1>0, <1>1 DEF ReturnMoney, RefundTypeOK, Report
  <2> QED BY <1>0, <1>1, <2>1, <2>2 DEF ReturnMoney, EvidenceTyped, RefundTypeOK
<1>2. ASSUME NEW s \in reports, RecordRefundFact(s)
      PROVE  EvidenceTyped
  <2>1. s.refund \in Refunds /\ s.amount \in Amounts /\ s.movement \in Movements
    BY <1>0 DEF RefundTypeOK, Report
  <2> DEFINE f   == fact[s.movement]
             row == IF f.refund = "none" THEN [refund |-> s.refund, amount |-> s.amount, contested |-> FALSE]
                    ELSE [f EXCEPT !.contested = TRUE]
  <2>2. row \in FactRow
    <3>1. f \in FactRow
      BY <1>0, <2>1 DEF RefundTypeOK
    <3> HIDE DEF f
    <3>2. CASE f.refund = "none"
      <4>1. row = [refund |-> s.refund, amount |-> s.amount, contested |-> FALSE]
        BY <3>2
      <4> QED BY <2>1, <4>1 DEF FactRow
    <3>3. CASE f.refund # "none"
      <4>1. row = [f EXCEPT !.contested = TRUE]
        BY <3>3
      <4> QED BY <3>1, <4>1 DEF FactRow
    <3> QED BY <3>2, <3>3
  <2>3. fact' = [fact EXCEPT ![s.movement] = row]
    BY <1>2 DEF RecordRefundFact
  <2> HIDE DEF row
  <2>4. fact' \in [Movements -> FactRow]
    BY <1>0, <2>2, <2>3 DEF RefundTypeOK
  <2> QED BY <1>0, <1>2, <2>4 DEF RecordRefundFact, EvidenceTyped, RefundTypeOK
<1>3. ASSUME NEW m \in Movements, Allocate(m)
      PROVE  EvidenceTyped
  <2> DEFINE Row == [given : BOOLEAN, allocated : 0..Full, completed : BOOLEAN]
  <2>0. PICK r \in Refunds : r = fact[m].refund
    BY <1>3, AllocateCounts
  <2>1. authority' \in [Refunds -> Row] /\ completions' \in [Refunds -> Nat]
    <3>1. CASE ~ authority[r].given \/ fact[m].contested
      BY <1>0, <1>3, <2>0, <3>1 DEF Allocate, RefundTypeOK
    <3>2. CASE ~ (~ authority[r].given \/ fact[m].contested)
      <4> DEFINE n         == Intended(m)
                 completes == n > 0 /\ authority[r].allocated + n = Full
                 row       == [authority[r] EXCEPT !.allocated = @ + n, !.completed = @ \/ completes]
      <4>1. n \in 0..Full /\ authority[r].allocated + n <= Full /\ authority[r].allocated \in 0..Full /\ Full \in Nat
        BY <1>0, <2>0, IntendedFits, RefundAssumption DEF RefundTypeOK
      <4>2. authority' = [authority EXCEPT ![r] = row] /\ completions' = [completions EXCEPT ![r] = IF completes THEN @ + 1 ELSE @]
        BY <1>3, <2>0, <3>2 DEF Allocate
      <4> HIDE DEF n
      <4>3. row \in Row
        <5>1. authority[r] \in Row
          BY <1>0 DEF RefundTypeOK
        <5>2. authority[r].allocated + n \in 0..Full /\ (authority[r].completed \/ completes) \in BOOLEAN
          BY <4>1
        <5> HIDE DEF completes
        <5> QED BY <5>1, <5>2
      <4> HIDE DEF row
      <4> QED BY <1>0, <4>2, <4>3 DEF RefundTypeOK
    <3> QED BY <3>1, <3>2
  <2>2. allocation' \in [Movements -> [state : {"none", "blocked", "made"}, intended : 0..Full]]
    <3>1. 0 \in 0..Full
      BY RefundAssumption
    <3>2. CASE Blocks(m)
      BY <1>0, <3>1, <3>2 DEF Blocks, RefundTypeOK
    <3>3. ASSUME NEW n \in Nat, CountsFor(m, r, n)
          PROVE  <2>2!:
      BY <1>0, <3>3 DEF CountsFor, RefundTypeOK
    <3> QED BY <1>3, <2>0, <3>2, <3>3, AllocateCounts
  <2> QED BY <1>0, <1>3, <2>1, <2>2 DEF Allocate, EvidenceTyped, RefundTypeOK
<1> QED BY <1>1, <1>2, <1>3

LEMMA TypedNext ==
    ASSUME IInv, [RefundNext]_refundVars
    PROVE  /\ RowsTyped \/ EvidenceTyped
           /\ \/ SameCount
              \/ \E s \in reports : RecordRefundFact(s)
              \/ \E m \in Movements : Allocate(m)
<1> DEFINE Summary == /\ RowsTyped \/ EvidenceTyped
                      /\ \/ SameCount
                         \/ \E s \in reports : RecordRefundFact(s)
                         \/ \E m \in Movements : Allocate(m)
<1>1. ASSUME RowsTyped
      PROVE  Summary
  BY <1>1 DEF RowsTyped, SameCount
<1>2. ASSUME NEW r \in Refunds, NEW m \in Movements, NEW n \in Amounts, ReturnMoney(r, m, n)
      PROVE  Summary
  <2>1. EvidenceTyped
    BY <1>2, EvidenceStepsTyped
  <2>2. SameCount
    BY <1>2 DEF ReturnMoney, SameCount
  <2> QED BY <2>1, <2>2
<1>3. ASSUME \/ \E s \in reports : RecordRefundFact(s)
             \/ \E m \in Movements : Allocate(m)
      PROVE  Summary
  BY <1>3, EvidenceStepsTyped
<1> HIDE DEF Summary
<1>4. ASSUME NEW r \in Refunds, \/ FailToReturn(r) \/ NotifiedFailure(r)
                                \/ \E m \in Movements, n \in Amounts : ReturnMoney(r, m, n)
      PROVE  Summary
  BY <1>1, <1>2, <1>4, RowStepsTyped
<1>5. ASSUME \E r \in Refunds : \/ FailToReturn(r) \/ NotifiedFailure(r)
                                \/ \E m \in Movements, n \in Amounts : ReturnMoney(r, m, n)
      PROVE  Summary
  BY <1>4, <1>5
<1>6. ASSUME \E p \in Askers : \/ Consume(p) \/ LoseConsumption(p) \/ LookUp(p) \/ Commit(p)
                               \/ \E r \in Refunds : \/ RequestAgain(p, r)
                                                     \/ \E c \in Cases, k \in Receipts, e \in {"clear", "exposed"} :
                                                           Request(p, r, c, k, e)
      PROVE  Summary
  BY <1>1, <1>6, RequestStepsTyped
<1>7. ASSUME \E w \in Workers : \/ RecoverAuthorization(w) \/ Dispatch(w) \/ Call(w) \/ LoseCall(w)
                                \/ Store(w) \/ Fetch(w) \/ \E r \in Refunds : Take(w, r)
      PROVE  Summary
  BY <1>1, <1>7, WorkerStepsTyped
<1>8. ASSUME \/ \E c \in Captures : Doubt(c)
             \/ \E k \in Receipts : ReceiptEnds(k) \/ \E r \in Refunds : ConsumptionArrives(k, r)
             \/ \E p \in Askers \cup Workers : StopWork(p)
             \/ UNCHANGED refundVars
      PROVE  Summary
  BY <1>1, <1>8, RowStepsTyped
<1>9. ASSUME \E s \in reports : RecordRefundFact(s) \/ ApplyEvidence(s)
      PROVE  Summary
  BY <1>1, <1>3, <1>9, RowStepsTyped
<1>10. ASSUME \E m \in Movements : Allocate(m)
       PROVE  Summary
  BY <1>3, <1>10
<1>11. Summary
  BY <1>5, <1>6, <1>7, <1>8, <1>9, <1>10 DEF RefundNext
<1> QED BY <1>11 DEF Summary

-----------------------------------------------------------------------------
(* The theorems *)

LEMMA IInvInit == RefundInit => IInv
<1> SUFFICES ASSUME RefundInit
             PROVE  IInv
  OBVIOUS
<1>1. Settling \in Captures /\ Full \in Nat \ {0} /\ MaxReports \in Nat /\ MaxRefundFaults \in Nat
  BY RefundAssumption
<1>2. RefundTypeOK
  <2>1. [capture |-> Settling, specific |-> FALSE] \in Cases
    BY <1>1 DEF Cases
  <2>2. /\ refund \in [Refunds -> RefundRow]
        /\ work \in [Askers \cup Workers -> Work]
        /\ fact \in [Movements -> FactRow]
    BY <2>1 DEF RefundInit, RefundRow, RefundStatus, Work, AtRest, Steps, FactRow
  <2>3. /\ 0 \in 0..Full /\ 0 \in 0..MaxReports /\ 0 \in 0..MaxRefundFaults
        /\ authority \in [Refunds -> [given : BOOLEAN, allocated : 0..Full, completed : BOOLEAN]]
        /\ allocation \in [Movements -> [state : {"none", "blocked", "made"}, intended : 0..Full]]
    BY <1>1 DEF RefundInit
  <2>4. /\ covers \in [Receipts -> Cases] /\ wire \subseteq Receipts \X Refunds /\ reports \subseteq Report
        /\ receipt \in [Receipts -> [state : {"issued", "consumed", "expired", "voided"},
                                     by : Refunds \cup {"none"}]]
        /\ standing \in [Captures -> {"sound", "sibling", "contested"}]
        /\ atProvider \in [Refunds -> {"none", "accepted", "returned", "failed"}]
        /\ completions \in [Refunds -> Nat]
    BY DEF RefundInit
  <2> QED BY <2>2, <2>3, <2>4 DEF RefundInit, RefundTypeOK
<1>3. ASSUME NEW r \in Refunds
      PROVE  RowSound(r) /\ Counted(r) /\ ~ Requested(r) /\ ~ authority[r].completed
  <2>1. refund[r].status = "none" /\ ~ authority[r].given /\ atProvider[r] = "none" /\ ~ Requested(r)
    BY <1>3 DEF RefundInit, Requested
  <2>2. RowSound(r)
    BY <2>1 DEF RowSound, Beyond, InFlight
  <2>3. Units(r) = {}
    <3>1. "none" # r
      BY RefundAssumption
    <3>2. \A m \in Movements : fact[m].refund # r
      BY <3>1 DEF RefundInit
    <3> QED BY <3>2 DEF Units
  <2>4. Counted(r)
    BY <1>1, <2>3, FS_EmptySet DEF Counted, RefundInit
  <2> QED BY <2>1, <2>2, <2>4 DEF RefundInit
<1>4. /\ \A k \in Receipts : SpentFor(k)
      /\ OnWire /\ Reported
      /\ \A p \in Askers \cup Workers : Holds(p)
      /\ \A m \in Movements : Uncounted(m)
  BY DEF RefundInit, SpentFor, OnWire, Reported, Holds, AtRest, Uncounted
<1>5. OneLive /\ OneCompleted
  BY <1>3 DEF OneLive, OneCompleted
<1> QED BY <1>2, <1>3, <1>4, <1>5 DEF IInv

LEMMA IInvNext == IInv /\ [RefundNext]_refundVars => IInv'
<1> SUFFICES ASSUME IInv, [RefundNext]_refundVars
             PROVE  IInv'
  OBVIOUS
<1>1. EachMoves /\ Evidenced /\ \A r \in Refunds : SentSound(r)
  BY MovesNext
<1>2. RefundTypeOK'
  BY TypedNext, TypedSteps
<1>3. Counting'
  BY TypedNext, CountingNext
<1>4. /\ \A r \in Refunds : RowSound(r)'
      /\ \A k \in Receipts : SpentFor(k)'
      /\ \A p \in Askers \cup Workers : Holds(p)'
  BY <1>1, RowSoundNext, SpentForNext, HoldsNext
<1>5. OnWire' /\ Reported' /\ OneLive'
  BY <1>1, OnWireNext, ReportedNext, OneLiveNext
<1> QED BY <1>2, <1>3, <1>4, <1>5 DEF IInv, Counting

LEMMA IInvAlways == RefundSpec => []IInv
BY IInvInit, IInvNext, PTL DEF RefundSpec

\* The rows of refunds, facts, allocations and work keep their shape, and an
\* authorization never counts beyond the amount of its capture (schema of
\* refund_attempt, refund_authorization and refund_fact).
THEOREM RefundTypeCorrect == RefundSpec => []RefundTypeOK
<1>1. IInv => RefundTypeOK
  BY DEF IInv
<1> QED BY <1>1, IInvAlways, PTL

LEMMA ReturnedOnceHolds ==
    ASSUME IInv
    PROVE  ReturnedOnce
<1> SUFFICES ASSUME NEW c \in Captures
             PROVE  LET sent == {r \in OnCapture(c) : atProvider[r] # "none"} IN
                    /\ Cardinality({r \in sent : atProvider[r] # "failed"}) <= 1
                    /\ \A r \in sent : \E k \in Receipts : /\ receipt[k] = [state |-> "consumed", by |-> r]
                                                           /\ covers[k] = refund[r].case
  BY DEF ReturnedOnce
<1> DEFINE sent     == {r \in OnCapture(c) : atProvider[r] # "none"}
           maypay   == {r \in sent : atProvider[r] # "failed"}
<1>1. ASSUME NEW r \in sent
      PROVE  /\ r \in Refunds /\ authority[r].given /\ Paid(r) /\ Requested(r) /\ refund[r].case.capture = c
             /\ atProvider[r] # "failed" => Live(r)
  <2>1. r \in Refunds /\ atProvider[r] # "none" /\ Requested(r) /\ refund[r].case.capture = c /\ RowSound(r)
    BY DEF OnCapture, Requested, IInv
  <2> QED BY <2>1 DEF RowSound, Live, Beyond, InFlight, Unspent
<1>2. \A r, z \in maypay : r = z
  BY <1>1 DEF IInv, OneLive
<1> HIDE DEF sent
<1>3. Cardinality(maypay) <= 1
  <2>1. CASE maypay = {}
    BY <2>1, FS_EmptySet
  <2>2. ASSUME NEW r \in maypay
        PROVE  Cardinality(maypay) <= 1
    <3>1. maypay = {r}
      BY <1>2, <2>2
    <3>2. Cardinality({r}) = 1
      BY FS_Singleton
    <3> HIDE DEF maypay
    <3> QED BY <3>1, <3>2
  <2> QED BY <2>1, <2>2
<1>4. \A r \in sent : \E k \in Receipts : /\ receipt[k] = [state |-> "consumed", by |-> r]
                                          /\ covers[k] = refund[r].case
  BY <1>1 DEF Paid
<1> QED BY <1>3, <1>4 DEF sent

LEMMA AllocatedOnceHolds ==
    ASSUME IInv
    PROVE  AllocatedOnce
<1>1. ASSUME NEW r \in Refunds
      PROVE  /\ authority[r].allocated = Cardinality(Units(r))
             /\ authority[r].completed <=> authority[r].allocated = Full
             /\ completions[r] = IF authority[r].completed THEN 1 ELSE 0
             /\ authority[r].given => SpentBy(r)
  <2>1. Counted(r) /\ RowSound(r)
    BY DEF IInv
  <2>2. authority[r].given => SpentBy(r)
    BY <2>1 DEF RowSound, Paid, SpentBy
  <2> QED BY <2>1, <2>2 DEF Counted
<1>2. \A r, z \in Refunds : authority[r].completed /\ authority[z].completed => r = z
  BY DEF IInv, OneCompleted
<1> QED BY <1>1, <1>2 DEF AllocatedOnce

LEMMA IInvSound == IInv => RefundsSound
BY ReturnedOnceHolds, AllocatedOnceHolds DEF RefundsSound

\* No captured money is returned twice, whatever answers of Auth or the provider were
\* lost, however late a consumption arrives and however many workers hold an attempt;
\* and the counter of an authorization is the sum of its allocations, announced
\* complete once, for one refund only (PAY-07, FC-2, FC-3, V-3; authorize, dispatch,
\* allocate).
THEOREM RefundsSoundAlways == RefundSpec => []RefundsSound
BY IInvSound, IInvAlways, PTL

-----------------------------------------------------------------------------
(* What was returned, and what ended *)

\* what is recorded as returned was, and so was what is complete
ReturnsAreReal ==
    /\ \A m \in Movements : fact[m].refund # "none" => atProvider[fact[m].refund] = "returned"
    /\ \A r \in Refunds : authority[r].completed => atProvider[r] = "returned"

LEMMA ReturnsBegin == RefundInit => ReturnsAreReal
BY DEF RefundInit, ReturnsAreReal

LEMMA ReturnsNext == IInv /\ ReturnsAreReal /\ [RefundNext]_refundVars => ReturnsAreReal'
<1> SUFFICES ASSUME IInv, ReturnsAreReal, [RefundNext]_refundVars
             PROVE  ReturnsAreReal'
  OBVIOUS
<1>1. \A r \in Refunds : atProvider[r] = "returned" => atProvider'[r] = "returned"
  BY MovesNext DEF EachMoves, ProviderMove
<1>2. \A m \in Movements : fact[m].refund # "none" => fact[m].refund \in Refunds
  BY DEF IInv, RefundTypeOK, FactRow
<1>3. CASE SameCount
  BY <1>1, <1>2, <1>3 DEF ReturnsAreReal, SameCount
<1>4. ASSUME NEW s \in reports, RecordRefundFact(s)
      PROVE  ReturnsAreReal'
  <2>1. s.refund \in Refunds /\ s.movement \in Movements /\ atProvider[s.refund] = "returned"
    BY DEF IInv, RefundTypeOK, Report, Reported
  <2>2. /\ UNCHANGED <<authority, atProvider>>
        /\ \A m \in Movements : fact'[m].refund = fact[m].refund \/ fact'[m].refund = s.refund
    <3>1. UNCHANGED <<authority, atProvider>>
      BY <1>4 DEF RecordRefundFact
    <3>2. \A m \in Movements \ {s.movement} : fact'[m] = fact[m]
      BY <1>4 DEF RecordRefundFact, IInv, RefundTypeOK
    <3>3. fact'[s.movement].refund = fact[s.movement].refund \/ fact'[s.movement].refund = s.refund
      BY <1>4, <2>1 DEF RecordRefundFact, IInv, RefundTypeOK, FactRow
    <3> QED BY <3>1, <3>2, <3>3
  <2> QED BY <2>1, <2>2 DEF ReturnsAreReal
<1>5. ASSUME NEW m \in Movements, Allocate(m)
      PROVE  ReturnsAreReal'
  <2>1. fact[m].refund \in Refunds /\ fact[m].refund # "none" /\ fact' = fact
    BY <1>5, AllocateCounts, RefundAssumption
  <2>2. \A z \in Refunds : authority'[z].completed => authority[z].completed \/ z = fact[m].refund
    BY <1>5, AllocateCounts DEF Blocks, CountsFor
  <2>3. atProvider' = atProvider
    BY <1>5 DEF Allocate
  <2> QED BY <2>1, <2>2, <2>3 DEF ReturnsAreReal
<1> QED BY <1>3, <1>4, <1>5, TypedNext

\* Money counts as returned only when the provider returned it, also when its notification
\* comes again, late, or with another amount: the refund of every fact, and of every
\* authorization that is complete (RecordRefundFact, Allocate).
THEOREM ReturnsAlways == RefundSpec => []ReturnsAreReal
BY ReturnsBegin, ReturnsNext, IInvAlways, PTL DEF RefundSpec

\* what may become of a refund once it was asked for
Becomes(from, to) ==
    \/ from = "authorization_pending" /\ to \in Unspent \cup {"authorized"}
    \/ from \in InFlight \cup {"authorized"} /\ to \in InFlight \cup {"succeeded", "discrepancy", "failed"}

\* a step leaves the statuses as they are, moves one, or is a request
LEMMA StatusMoves ==
    ASSUME IInv, [RefundNext]_refundVars
    PROVE  \/ refund' = refund
           \/ \E r \in Refunds, s \in RefundStatus : /\ SetStatus(r, s) /\ Becomes(refund[r].status, s)
                                                     /\ s = "failed" => atProvider[r] = "failed"
           \/ \E p \in Askers, r \in Refunds, case \in Cases, k \in Receipts, e \in {"clear", "exposed"} :
                 Request(p, r, case, k, e)
<1> DEFINE Moved ==
       \/ refund' = refund
       \/ \E r \in Refunds, s \in RefundStatus : /\ SetStatus(r, s) /\ Becomes(refund[r].status, s)
                                                 /\ s = "failed" => atProvider[r] = "failed"
       \/ \E p \in Askers, r \in Refunds, case \in Cases, k \in Receipts, e \in {"clear", "exposed"} :
             Request(p, r, case, k, e)
<1>1. ASSUME refund' = refund
      PROVE  Moved
  BY <1>1
<1>2. ASSUME NEW r \in Refunds, NEW s \in RefundStatus, SetStatus(r, s), Becomes(refund[r].status, s),
             s = "failed" => atProvider[r] = "failed"
      PROVE  Moved
  BY <1>2
<1> HIDE DEF Moved
<1>3. ASSUME NEW r \in Refunds, CommitAuthorized(r)
      PROVE  Moved
  <2>1. CASE refund[r].status = "authorization_pending"
    <3>1. SetStatus(r, "authorized")
      BY <1>3, <2>1 DEF CommitAuthorized
    <3>2. "authorized" \in RefundStatus /\ Becomes(refund[r].status, "authorized")
      BY <2>1 DEF RefundStatus, Becomes
    <3> QED BY <1>2, <3>1, <3>2
  <2>2. CASE refund[r].status # "authorization_pending"
    BY <1>1, <1>3, <2>2 DEF CommitAuthorized
  <2> QED BY <2>1, <2>2
<1>4. ASSUME NEW r \in Refunds, NEW s \in Unspent, CommitUnauthorized(r, s)
      PROVE  Moved
  <2>1. CASE refund[r].status = "authorization_pending"
    <3>1. SetStatus(r, s)
      BY <1>4, <2>1 DEF CommitUnauthorized
    <3>2. s \in RefundStatus /\ s # "failed" /\ Becomes(refund[r].status, s)
      BY <2>1 DEF RefundStatus, Ended, Becomes, Unspent
    <3> QED BY <1>2, <3>1, <3>2
  <2>2. CASE refund[r].status # "authorization_pending"
    BY <1>1, <1>4, <2>2 DEF CommitUnauthorized
  <2> QED BY <2>1, <2>2
<1>5. ASSUME NEW p \in Askers, Commit(p)
      PROVE  Moved
  <2>1. work[p].refund \in Refunds /\ work[p].answer \in Unspent \cup {"authorized"}
    BY <1>5 DEF Commit, IInv, Holds
  <2> QED BY <1>3, <1>4, <1>5, <2>1 DEF Commit
<1>6. ASSUME NEW p \in Askers, NEW r \in Refunds, NEW c \in Cases, NEW k \in Receipts,
             NEW e \in {"clear", "exposed"}, Request(p, r, c, k, e)
      PROVE  Moved
  BY <1>6 DEF Moved
<1>7. ASSUME NEW w \in Workers, RecoverAuthorization(w)
      PROVE  Moved
  <2>1. work[w].refund \in Refunds
    BY <1>7, WorkingOn DEF RecoverAuthorization
  <2> QED BY <1>1, <1>3, <1>7, <2>1 DEF RecoverAuthorization
<1>8. ASSUME NEW w \in Workers, Dispatch(w)
      PROVE  Moved
  <2>1. PICK r \in Refunds : r = work[w].refund
    BY <1>8, WorkingOn DEF Dispatch
  <2>2. "dispatching" \in RefundStatus /\ Becomes("authorized", "dispatching")
    BY DEF RefundStatus, Becomes, InFlight
  <2> QED BY <1>1, <1>2, <1>8, <2>1, <2>2 DEF Dispatch
<1>9. ASSUME NEW w \in Workers, Store(w)
      PROVE  Moved
  <2>1. PICK r \in Refunds : r = work[w].refund
    BY <1>9, WorkingOn DEF Store
  <2>2. CASE refund' = refund
    BY <1>1, <2>2
  <2>3. CASE refund' # refund
    <3>1. refund[r].status \in {"dispatching", "unknown"}
          /\ \/ SetStatus(r, "submitted")
             \/ SetStatus(r, "failed") /\ work[w].answer = "rejected"
             \/ SetStatus(r, "unknown")
      BY <1>9, <2>1, <2>3 DEF Store
    <3>2. work[w].answer = "rejected" => atProvider[r] = "failed"
      BY <1>9, <2>1 DEF Store, IInv, Holds
    <3>3. \A s \in {"submitted", "failed", "unknown"} : s \in RefundStatus /\ Becomes(refund[r].status, s)
      BY <3>1 DEF RefundStatus, Becomes, InFlight, Ended
    <3> QED BY <1>2, <3>1, <3>2, <3>3
  <2> QED BY <2>2, <2>3
<1>10. ASSUME NEW r \in Refunds, ApplyFailure(r), atProvider[r] = "failed"
      PROVE  Moved
  <2>1. refund[r].status \in InFlight => "failed" \in RefundStatus /\ Becomes(refund[r].status, "failed")
    BY DEF RefundStatus, Becomes, Ended
  <2> QED BY <1>1, <1>2, <1>10, <2>1 DEF ApplyFailure
<1>11. ASSUME NEW w \in Workers, Fetch(w)
      PROVE  Moved
  <2>1. work[w].refund \in Refunds
    BY <1>11, WorkingOn DEF Fetch
  <2> QED BY <1>1, <1>10, <1>11, <2>1 DEF Fetch
<1>12. ASSUME NEW s \in reports, ApplyEvidence(s)
      PROVE  Moved
  <2>1. PICK r \in Refunds : r = s.refund /\ atProvider[r] = "returned"
    BY DEF IInv, RefundTypeOK, Report, Reported
  <2>2. refund[r].status # "failed"
    BY <2>1 DEF IInv, RowSound
  <2>3. refund[r].status \in InFlight /\ (SetStatus(r, "succeeded") \/ SetStatus(r, "discrepancy"))
    BY <1>12, <2>1, <2>2 DEF ApplyEvidence
  <2>4. \A x \in {"succeeded", "discrepancy"} : x \in RefundStatus /\ Becomes(refund[r].status, x)
    BY <2>3 DEF RefundStatus, Ended, Becomes
  <2> QED BY <1>2, <2>3, <2>4
<1>13. ASSUME \/ \E c \in Captures : Doubt(c)
              \/ \E k \in Receipts : ReceiptEnds(k) \/ \E r \in Refunds : ConsumptionArrives(k, r)
              \/ \E r \in Refunds : FailToReturn(r) \/ \E m \in Movements, n \in Amounts : ReturnMoney(r, m, n)
              \/ \E p \in Askers : Consume(p) \/ LoseConsumption(p) \/ LookUp(p) \/ \E r \in Refunds : RequestAgain(p, r)
              \/ \E w \in Workers : Call(w) \/ LoseCall(w) \/ \E r \in Refunds : Take(w, r)
              \/ \E p \in Askers \cup Workers : StopWork(p)
              \/ \E s \in reports : RecordRefundFact(s)
       PROVE  refund' = refund
  BY <1>13 DEF Doubt, ReceiptEnds, ConsumptionArrives, FailToReturn, ReturnMoney, Consume, LoseConsumption, LookUp,
               RequestAgain, Call, LoseCall, Take, StopWork, RecordRefundFact
<1>14. ASSUME NEW r \in Refunds, NotifiedFailure(r)
      PROVE  Moved
  BY <1>10, <1>14 DEF NotifiedFailure
<1>15. ASSUME NEW m \in Movements, Allocate(m)
       PROVE  refund' = refund
  BY <1>15 DEF Allocate
<1>16. ASSUME UNCHANGED refundVars
       PROVE  Moved
  BY <1>1, <1>16 DEF refundVars
<1>17. ASSUME RefundNext
       PROVE  Moved
  <2>1. ASSUME NEW r \in Refunds,
               FailToReturn(r) \/ NotifiedFailure(r) \/ \E m \in Movements, n \in Amounts : ReturnMoney(r, m, n)
        PROVE  Moved
    BY <1>1, <1>13, <1>14, <2>1
  <2>2. ASSUME NEW p \in Askers,
               \/ Consume(p) \/ LoseConsumption(p) \/ LookUp(p) \/ Commit(p)
               \/ \E r \in Refunds : \/ RequestAgain(p, r)
                                     \/ \E c \in Cases, k \in Receipts, e \in {"clear", "exposed"} :
                                           Request(p, r, c, k, e)
        PROVE  Moved
    BY <1>1, <1>5, <1>6, <1>13, <2>2
  <2>3. ASSUME NEW w \in Workers,
               \/ RecoverAuthorization(w) \/ Dispatch(w) \/ Call(w) \/ LoseCall(w)
               \/ Store(w) \/ Fetch(w) \/ \E r \in Refunds : Take(w, r)
        PROVE  Moved
    BY <1>1, <1>7, <1>8, <1>9, <1>11, <1>13, <2>3
  <2>4. ASSUME \/ \E c \in Captures : Doubt(c)
               \/ \E k \in Receipts : ReceiptEnds(k) \/ \E r \in Refunds : ConsumptionArrives(k, r)
               \/ \E p \in Askers \cup Workers : StopWork(p)
               \/ \E s \in reports : RecordRefundFact(s)
        PROVE  Moved
    BY <1>1, <1>13, <2>4
  <2> QED BY <1>1, <1>12, <1>15, <1>17, <2>1, <2>2, <2>3, <2>4 DEF RefundNext
<1>18. Moved
  BY <1>16, <1>17
<1> QED BY <1>18 DEF Moved

\* Nobody is told one thing of a refund and later another, whatever reports, answers and
\* requests come after it: a refund that ended or was refused, the case and the receipt one
\* was requested with, what an authorization has taken and whether it is complete, a
\* fact and how it was allocated, a receipt that is spent or void, and money that came back or
\* will not (refund_attempt_transition_guard, refund_fact, refund_allocation).
RefundHeld(r) ==
    /\ refund[r].status \in Ended \cup {"refused"} => refund'[r] = refund[r]
    /\ Requested(r) => SameCase(r)
    /\ authority[r].given => authority'[r].given
    /\ authority[r].allocated <= authority'[r].allocated
    /\ authority[r].completed => authority'[r].completed /\ authority'[r].allocated = authority[r].allocated
    /\ atProvider[r] \in {"returned", "failed"} => atProvider'[r] = atProvider[r]
FactHeld(m) ==
    /\ fact[m].refund # "none" => /\ fact'[m].refund = fact[m].refund /\ fact'[m].amount = fact[m].amount
                                  /\ fact[m].contested => fact'[m].contested
    /\ allocation[m].state # "none" => allocation'[m] = allocation[m]
ReceiptHeld(k) == receipt[k].state # "issued" => receipt'[k] = receipt[k]
ReturnsStay ==
    /\ \A r \in Refunds : RefundHeld(r)
    /\ \A m \in Movements : FactHeld(m)
    /\ \A k \in Receipts : ReceiptHeld(k)

LEMMA RowsHeld ==
    ASSUME IInv, [RefundNext]_refundVars, NEW r \in Refunds
    PROVE  /\ refund[r].status \in Ended \cup {"refused"} => refund'[r] = refund[r]
           /\ Requested(r) => SameCase(r)
<1>1. RefundTypeOK
  BY DEF IInv
<1>2. CASE refund' = refund
  BY <1>2 DEF SameCase
<1>3. ASSUME NEW z \in Refunds, NEW s \in RefundStatus, SetStatus(z, s), Becomes(refund[z].status, s)
      PROVE  /\ refund[r].status \in Ended \cup {"refused"} => refund'[r] = refund[r]
             /\ SameCase(r)
  <2>1. /\ refund'[z].case = refund[z].case /\ refund'[z].receipt = refund[z].receipt
        /\ \A q \in Refunds \ {z} : refund'[q] = refund[q]
    BY <1>1, <1>3, StatusSet
  <2>2. refund[z].status \notin Ended \cup {"refused"}
    BY <1>3 DEF Becomes, Ended, InFlight, Unspent
  <2> QED BY <2>1, <2>2 DEF SameCase
<1>4. ASSUME NEW p \in Askers, NEW z \in Refunds, NEW case \in Cases, NEW k \in Receipts, NEW e \in {"clear", "exposed"},
             Request(p, z, case, k, e)
      PROVE  /\ refund[r].status \in Ended \cup {"refused"} => refund'[r] = refund[r]
             /\ Requested(r) => SameCase(r)
  <2>1. refund[z].status = "none" /\ \A q \in Refunds \ {z} : refund'[q] = refund[q]
    BY <1>1, <1>4 DEF Request, SetStatus, RefundTypeOK
  <2>2. "none" \notin Ended \cup {"refused"}
    BY DEF Ended, Unspent
  <2> QED BY <2>1, <2>2 DEF SameCase, Requested
<1>5. CASE \E z \in Refunds, s \in RefundStatus : /\ SetStatus(z, s) /\ Becomes(refund[z].status, s)
                                                  /\ s = "failed" => atProvider[z] = "failed"
  BY <1>3, <1>5
<1>6. CASE \E p \in Askers, z \in Refunds, case \in Cases, k \in Receipts, e \in {"clear", "exposed"} :
              Request(p, z, case, k, e)
  BY <1>4, <1>6
<1> QED BY <1>2, <1>5, <1>6, StatusMoves

LEMMA AuthorityHeld ==
    ASSUME IInv, [RefundNext]_refundVars, NEW r \in Refunds
    PROVE  /\ authority[r].allocated <= authority'[r].allocated
           /\ authority[r].completed => authority'[r].completed /\ authority'[r].allocated = authority[r].allocated
<1>1. authority[r].allocated \in Nat
  BY RefundAssumption DEF IInv, RefundTypeOK
<1>2. CASE authority'[r].allocated = authority[r].allocated /\ authority'[r].completed = authority[r].completed
  BY <1>1, <1>2
<1>3. ASSUME NEW m \in Movements, Allocate(m)
      PROVE  /\ authority[r].allocated <= authority'[r].allocated
             /\ authority[r].completed => authority'[r].completed /\ authority'[r].allocated = authority[r].allocated
  <2>1. CASE Blocks(m)
    BY <1>1, <2>1 DEF Blocks
  <2>2. ASSUME NEW z \in Refunds, NEW n \in Nat, CountsFor(m, z, n), r = z
        PROVE  /\ authority[r].allocated <= authority'[r].allocated
               /\ authority[r].completed => authority'[r].completed /\ authority'[r].allocated = authority[r].allocated
    BY <1>1, <2>2 DEF CountsFor
  <2>3. ASSUME NEW z \in Refunds, NEW n \in Nat, CountsFor(m, z, n), r # z
        PROVE  authority'[r] = authority[r]
    BY <2>3 DEF CountsFor
  <2> QED BY <1>1, <1>3, <2>1, <2>2, <2>3, AllocateCounts
<1> QED BY <1>2, <1>3, TypedNext DEF SameCount, RecordRefundFact

LEMMA FactsHeld ==
    ASSUME IInv, [RefundNext]_refundVars, NEW m \in Movements
    PROVE  FactHeld(m)
<1>1. CASE UNCHANGED <<fact, allocation>>
  BY <1>1 DEF FactHeld
<1>2. ASSUME NEW s \in reports, RecordRefundFact(s)
      PROVE  FactHeld(m)
  <2>1. s.movement \in Movements /\ allocation' = allocation
    BY <1>2 DEF IInv, RefundTypeOK, Report, RecordRefundFact
  <2>2. CASE m # s.movement
    BY <1>2, <2>1, <2>2 DEF RecordRefundFact, FactHeld, IInv, RefundTypeOK
  <2>3. CASE m = s.movement
    <3>1. fact \in [Movements -> FactRow]
      BY DEF IInv, RefundTypeOK
    <3>2. CASE fact[m].refund = "none"
      <4>1. fact'[m] = [refund |-> s.refund, amount |-> s.amount, contested |-> FALSE]
        BY <1>2, <2>3, <3>1, <3>2 DEF RecordRefundFact
      <4> QED BY <2>1, <3>2 DEF FactHeld
    <3>3. CASE fact[m].refund # "none"
      <4>1. fact'[m] = [fact[m] EXCEPT !.contested = TRUE]
        BY <1>2, <2>3, <3>1, <3>3 DEF RecordRefundFact
      <4>2. fact'[m].refund = fact[m].refund /\ fact'[m].amount = fact[m].amount /\ fact'[m].contested
        BY <3>1, <4>1 DEF FactRow
      <4> QED BY <2>1, <4>2 DEF FactHeld
    <3> QED BY <3>2, <3>3
  <2> QED BY <2>2, <2>3
<1>3. ASSUME NEW n \in Movements, Allocate(n)
      PROVE  FactHeld(m)
  <2>1. fact' = fact /\ allocation[n].state = "none" /\ \A q \in Movements \ {n} : allocation'[q] = allocation[q]
    BY <1>3, AllocateCounts DEF Blocks, CountsFor, IInv, RefundTypeOK
  <2> QED BY <2>1 DEF FactHeld
<1> QED BY <1>1, <1>2, <1>3, TypedNext DEF SameCount

LEMMA ReturnsHeld == IInv /\ [RefundNext]_refundVars => ReturnsStay
<1> SUFFICES ASSUME IInv, [RefundNext]_refundVars
             PROVE  ReturnsStay
  OBVIOUS
<1>1. EachMoves
  BY MovesNext
<1>2. ASSUME NEW r \in Refunds
      PROVE  RefundHeld(r)
  <2>1. authority[r].given => authority'[r].given
    BY <1>1 DEF EachMoves, RefundMove, Keeps, IsRefused, IsRequested, IsAuthorized, IsUnauthorized, Goes
  <2>2. atProvider[r] \in {"returned", "failed"} => atProvider'[r] = atProvider[r]
    BY <1>1 DEF EachMoves, ProviderMove
  <2> QED BY <2>1, <2>2, RowsHeld, AuthorityHeld DEF RefundHeld
<1>3. \A k \in Receipts : ReceiptHeld(k)
  BY <1>1 DEF EachMoves, ReceiptMove, ReceiptHeld
<1> QED BY <1>2, <1>3, FactsHeld DEF ReturnsStay

\* No step takes back what was recorded of a refund, a receipt or returned money.
THEOREM ReturnsStayAlways == RefundSpec => [][ReturnsStay]_refundVars
<1>1. IInv /\ [RefundNext]_refundVars => [ReturnsStay]_refundVars
  BY ReturnsHeld
<1> QED BY <1>1, IInvAlways, PTL DEF RefundSpec

=============================================================================
