------------------------ MODULE ContractReview_proofs ------------------------
(***************************************************************************)
(* The lawyer's review of a self-service contract, for every set of        *)
(* contracts and overlapping requests: review work exists only where the   *)
(* review is still selected, so that issuance waits for it.                *)
(*                                                                         *)
(* The client's confirmation and revision request write the status of the  *)
(* review's service request without looking again.  They cannot bring work *)
(* to life on a contract that has none, because what they have seen of it  *)
(* is never taken back: a service request, once there, stays.              *)
(***************************************************************************)
EXTENDS ContractBilling_proofs

Selected(row) == row.sr # "none" => row.addOn /\ row.review # "none" /\ row.window # "none"

(* What a step may make of a row.                                          *)
KeepsReview(old, row) == Selected(row) /\ (old.sr # "none" => row.sr # "none")

ReviewSeen ==
    \A r \in Requests : reqs[r] \in ReviewWrites => contracts[reqs[r].contract].sr # "none"

ReviewInv == ReviewWorkIsSelected /\ ReviewSeen

LEMMA RulesKeepReview ==
    ASSUME NEW row \in ContractRows, Selected(row)
    PROVE  /\ KeepsReview(row, row)
           /\ KeepsReview(row, Settled(row))
           /\ KeepsReview(row, Collected(row))
           /\ KeepsReview(row, Waived(row))
           /\ row.sr # "none" =>
                \A s \in RequestStatuses \ {"none"} : KeepsReview(row, Synced(row, s))
<1> USE DEF KeepsReview, Selected
<1>1. KeepsReview(row, Settled(row))
  <2>1. CASE row.mode = "self"
    <3> DEFINE open == [row EXCEPT !.status = "client_review", !.window = "open"]
               active == [open EXCEPT !.sr = "new", !.review = "pending_assignment",
                                      !.status = "pending_review"]
    <3>1. open \in ContractRows /\ open.sr = row.sr /\ open.addOn = row.addOn /\ open.review = row.review
          /\ open.window = "open"
      BY DEF ContractRows, Statuses, Windows
    <3>2. active.sr = "new" /\ active.addOn = row.addOn /\ active.review = "pending_assignment"
          /\ active.window = "open"
      BY <3>1 DEF ContractRows
    <3>3. Settled(row) = IF open.addOn /\ open.sr = "none" THEN active ELSE open
      BY <2>1 DEF Settled, Activated
    <3> HIDE DEF open, active
    <3>4. QED BY <3>1, <3>2, <3>3
  <2>2. CASE row.mode # "self"
    BY <2>2 DEF Settled, ContractRows
  <2>3. QED BY <2>1, <2>2
<1>2. KeepsReview(row, Collected(row))
  BY DEF Collected, ContractRows
<1>3. KeepsReview(row, Waived(row))
  BY DEF Waived, ContractRows
<1>4. ASSUME row.sr # "none", NEW s \in RequestStatuses \ {"none"} PROVE KeepsReview(row, Synced(row, s))
  <2>1. Synced(row, s).sr = s /\ Synced(row, s).addOn = row.addOn /\ Synced(row, s).window = row.window
    BY DEF Synced, ContractRows
  <2>2. Synced(row, s).review # "none"
    BY DEF Synced, ContractRows
  <2>3. QED BY <1>4, <2>1, <2>2
<1>5. QED BY <1>1, <1>2, <1>3, <1>4

(* No step starts review work on a contract that has not selected it, or   *)
(* takes its service request away.                                         *)
LEMMA ReviewRowStep ==
    ASSUME BillingTypeOK, ReviewInv, BillingNext, NEW c \in Contracts
    PROVE  KeepsReview(contracts[c], contracts'[c])
<1> DEFINE G == KeepsReview(contracts[c], contracts'[c])
<1>0. /\ contracts \in [Contracts -> ContractRows]
      /\ \A d \in Contracts : contracts[d] \in ContractRows /\ Selected(contracts[d])
  BY DEF BillingTypeOK, ReviewInv, ReviewWorkIsSelected, Selected
<1>1. ASSUME NEW d \in Contracts, NEW row, Update(d, row), KeepsReview(contracts[d], row) PROVE G
  BY <1>0, <1>1, RulesKeepReview DEF Update
<1>2. CASE UNCHANGED contracts
  BY <1>0, <1>2, RulesKeepReview
<1>3. ASSUME NEW d \in Contracts, CheckoutStep(d) PROVE G
  <2>1. contracts[d] \in ContractRows /\ Selected(contracts[d])
    BY <1>0
  <2>2. KeepsReview(contracts[d], [contracts[d] EXCEPT !.addOn = TRUE, !.review = "awaiting_payment"])
    BY <2>1 DEF KeepsReview, Selected, ContractRows
  <2>3. contracts[d].sr = "none" =>
            KeepsReview(contracts[d], [contracts[d] EXCEPT !.addOn = FALSE, !.review = "none"])
    BY <2>1 DEF KeepsReview, Selected, ContractRows
  <2>4. KeepsReview(contracts[d], [contracts[d] EXCEPT !.status = "pending_payment"])
    BY <2>1 DEF KeepsReview, Selected, ContractRows
  <2>5. QED BY <1>1, <1>3, <2>2, <2>3, <2>4 DEF CheckoutStep, SelectReview, ClearReview, OpenBill
<1>4. ASSUME NEW d \in Contracts, ReceiptStep(d) PROVE G
  <2>1. contracts[d] \in ContractRows /\ Selected(contracts[d])
    BY <1>0
  <2>2. KeepsReview(contracts[d], [contracts[d] EXCEPT !.status = "pending_payment"])
    BY <2>1 DEF KeepsReview, Selected, ContractRows
  <2>3. CASE UploadReceipt(d)
    BY <1>1, <2>2, <2>3 DEF UploadReceipt
  <2>4. ASSUME NEW i \in DOMAIN payments[d], ApproveReceipt(d, i) PROVE G
    BY <1>1, <2>1, <2>4, RulesKeepReview DEF ApproveReceipt
  <2>5. ASSUME NEW i \in DOMAIN payments[d], ClarifyReceipt(d, i) \/ RejectReceipt(d, i) PROVE G
    BY <1>2, <2>5 DEF ClarifyReceipt, RejectReceipt
  <2>6. QED BY <1>4, <2>3, <2>4, <2>5 DEF ReceiptStep
<1>5. ASSUME NEW d \in Contracts, OfficeStep(d) PROVE G
  BY <1>0, <1>1, <1>5, RulesKeepReview DEF OfficeStep, CollectManually
<1>6. ASSUME NEW d \in Contracts, NEW amount \in Amounts, SettleFromGateway(d, amount) PROVE G
  BY <1>0, <1>1, <1>6, RulesKeepReview DEF SettleFromGateway
<1>7. ASSUME NEW r \in Requests, NEW d \in Contracts, ReadStep(r, d) PROVE G
  BY <1>2, <1>7 DEF ReadStep, Submit, DeleteDraft, SharedUpdate, RevisionRequest, SetStatus,
     Waive, CreateVersion, Lock, Issue, Finalize, SelectExpired, ReviewConfirm, ReviewRevision, Plan, Begin
<1>8. ASSUME NEW r \in Requests, WriteStep(r) PROVE G
  <2>1. CASE Abandon(r)
    BY <1>2, <2>1 DEF Abandon
  <2>2. CASE Write(r)
    <3> DEFINE d == reqs[r].contract
               new == Written(contracts[d], reqs[r])
    <3>1. reqs[r] \in ContractWrites \cup ReviewWrites /\ d \in Contracts
      BY <2>2 DEF Write, BillingTypeOK, ContractWrites, ReviewWrites
    <3>2. contracts[d] \in ContractRows /\ Selected(contracts[d])
      BY <1>0, <3>1
    <3>3. CASE reqs[r] \in ReviewWrites
      <4>1. contracts[d].sr # "none" /\ reqs[r].write \in RequestStatuses \ {"none"} /\ reqs[r].on = "review"
        BY <3>3 DEF ReviewInv, ReviewSeen, ReviewWrites
      <4>2. new = [contracts[d] EXCEPT !.sr = reqs[r].write]
        BY <4>1 DEF Written, RequestStatuses
      <4>3. new.sr = reqs[r].write /\ new.addOn = contracts[d].addOn
            /\ new.review = contracts[d].review /\ new.window = contracts[d].window
        BY <3>2, <4>2 DEF ContractRows
      <4>4. KeepsReview(contracts[d], new)
        BY <3>2, <4>1, <4>3 DEF KeepsReview, Selected
      <4>5. Update(d, new)
        BY <2>2 DEF Write
      <4>6. QED BY <1>1, <3>1, <4>4, <4>5
    <3>4. CASE reqs[r] \in ContractWrites
      <4>1. reqs[r].on = "contract"
        BY <3>4 DEF ContractWrites
      <4>2. \/ new = [contracts[d] EXCEPT !.deleted = TRUE]
            \/ new = [contracts[d] EXCEPT !.status = "issued"]
            \/ new = contracts[d]
            \/ new = Waived(contracts[d])
            \/ new = [contracts[d] EXCEPT !.status = reqs[r].write]
        BY <4>1 DEF Written
      <4>3. KeepsReview(contracts[d], new)
        BY <3>2, <4>2, RulesKeepReview DEF KeepsReview, Selected, ContractRows
      <4>4. Update(d, new)
        BY <2>2 DEF Write
      <4>5. QED BY <1>1, <3>1, <4>3, <4>4
    <3>5. QED BY <3>1, <3>3, <3>4
  <2>3. QED BY <1>8, <2>1, <2>2 DEF WriteStep
<1>9. ASSUME NEW d \in Contracts, ReviewStep(d) PROVE G
  <2>1. contracts[d] \in ContractRows /\ Selected(contracts[d]) /\ contracts[d].sr \in RequestStatuses
    BY <1>0 DEF ContractRows
  <2>2. ASSUME NEW to \in RequestStatuses, ReviewStatus(d, to) PROVE G
    <3>1. to \in RequestStatuses \ {"none"}
      BY <2>1, <2>2, ReviewMovesRange DEF ReviewStatus
    <3>2. contracts[d].sr # "none"
      BY <2>2 DEF ReviewStatus, ReviewMoves, RequestStatuses
    <3>3. QED BY <1>1, <2>1, <2>2, <3>1, <3>2, RulesKeepReview DEF ReviewStatus
  <2>3. CASE ReviewCancel(d)
    <3>1. contracts[d].sr # "none" /\ "cancelled" \in RequestStatuses \ {"none"}
      BY <2>3 DEF ReviewCancel, RequestStatuses
    <3>2. QED BY <1>1, <2>1, <2>3, <3>1, RulesKeepReview DEF ReviewCancel
  <2>4. CASE ReviewDeliverable(d)
    <3>1. contracts[d].sr # "none"
      BY <2>4 DEF ReviewDeliverable
    <3>2. KeepsReview(contracts[d], [contracts[d] EXCEPT !.sr = "client_review"])
      BY <2>1, <3>1 DEF KeepsReview, Selected, ContractRows
    <3>3. QED BY <1>1, <2>4, <3>2 DEF ReviewDeliverable
  <2>5. QED BY <1>9, <2>2, <2>3, <2>4 DEF ReviewStep
<1>10. ASSUME NEW d \in Contracts, WindowEnds(d) PROVE G
  <2>1. KeepsReview(contracts[d], [contracts[d] EXCEPT !.window = "closed"])
    BY <1>0 DEF KeepsReview, Selected, ContractRows
  <2>2. QED BY <1>1, <1>10, <2>1 DEF WindowEnds
<1>11. QED BY <1>3, <1>4, <1>5, <1>6, <1>7, <1>8, <1>9, <1>10 DEF BillingNext, DeskNext

(* A request takes up a review write only where it has seen the work.      *)
LEMMA ReviewRequestStep ==
    ASSUME BillingTypeOK, ReviewInv, BillingNext, NEW r \in Requests, reqs'[r] \in ReviewWrites
    PROVE  reqs'[r].contract \in Contracts /\ contracts[reqs'[r].contract].sr # "none"
<1> DEFINE G == reqs'[r].contract \in Contracts /\ contracts[reqs'[r].contract].sr # "none"
<1>0. reqs \in [Requests -> ContractWrites \cup ReviewWrites \cup {NoReq}]
  BY DEF BillingTypeOK
<1>1. ASSUME reqs'[r] = reqs[r] PROVE G
  BY <1>1 DEF ReviewInv, ReviewSeen, ReviewWrites
<1>2. ASSUME NEW q \in Requests, NEW d \in Contracts, ReadStep(q, d) PROVE G
  <2>1. ASSUME NEW on, NEW write, NEW then, Begin(q, d, on, write, then),
               on = "review" => contracts[d].sr # "none"
        PROVE  G
    <3>1. CASE q # r
      BY <2>1, <3>1, <1>0, <1>1 DEF Begin
    <3>2. CASE q = r
      <4>1. reqs'[r] = [on |-> on, contract |-> d, write |-> write, then |-> then]
        BY <2>1, <3>2, <1>0 DEF Begin
      <4>2. reqs'[r].on = "review"
        BY DEF ReviewWrites
      <4>3. QED BY <2>1, <4>1, <4>2
    <3>3. QED BY <3>1, <3>2
  <2>2. ASSUME NEW write, Plan(q, d, write) PROVE G
    BY <2>1, <2>2 DEF Plan
  <2>3. CASE Finalize(q, d)
    BY <2>1, <2>3 DEF Finalize
  <2>4. CASE ReviewConfirm(q, d) \/ ReviewRevision(q, d)
    BY <2>1, <2>4 DEF ReviewConfirm, ReviewRevision
  <2>5. CASE Submit(q, d) \/ DeleteDraft(q, d) \/ SharedUpdate(q, d) \/ RevisionRequest(q, d)
    BY <2>2, <2>5 DEF Submit, DeleteDraft, SharedUpdate, RevisionRequest
  <2>6. CASE (\E to \in Requestable : SetStatus(q, d, to)) \/ CreateVersion(q, d) \/ Lock(q, d)
    BY <2>2, <2>6 DEF SetStatus, CreateVersion, Lock
  <2>7. CASE Waive(q, d) \/ Issue(q, d) \/ SelectExpired(q, d)
    BY <2>2, <2>7 DEF Waive, Issue, SelectExpired
  <2>8. QED BY <1>2, <2>3, <2>4, <2>5, <2>6, <2>7 DEF ReadStep
<1>3. ASSUME NEW q \in Requests, WriteStep(q) PROVE G
  <2>1. CASE q # r
    BY <1>3, <2>1, <1>0, <1>1 DEF WriteStep, Write, Abandon
  <2>2. CASE q = r
    <3>1. reqs'[r] = NoReq \/ reqs'[r] = Remaining(reqs[r])
      BY <1>3, <2>2, <1>0 DEF WriteStep, Write, Abandon
    <3>2. NoReq \notin ReviewWrites
      BY DEF NoReq, ReviewWrites
    <3>3. reqs[r].then # "nothing" /\ reqs'[r] = [reqs[r] EXCEPT !.write = reqs[r].then, !.then = "nothing"]
      BY <3>1, <3>2 DEF Remaining
    <3>4. reqs[r] \in ContractWrites \cup ReviewWrites
      BY <1>3, <2>2, <3>1, <3>2, <1>0 DEF WriteStep, Write, Abandon
    <3>5. reqs[r] \in ContractWrites
      BY <3>3, <3>4 DEF ReviewWrites
    <3>6. reqs'[r].on = "contract"
      BY <3>3, <3>5 DEF ContractWrites
    <3>7. QED BY <3>6 DEF ReviewWrites
  <2>3. QED BY <2>1, <2>2
<1>4. CASE UNCHANGED reqs
  BY <1>4, <1>1
<1>5. (\A q \in Requests, d \in Contracts : ~ReadStep(q, d)) /\ (\A q \in Requests : ~WriteStep(q))
        => UNCHANGED reqs
  BY DEF BillingNext, DeskNext, ReceiptStep, UploadReceipt, ApproveReceipt, ClarifyReceipt, RejectReceipt,
     OfficeStep, CollectManually, ReviewStep, ReviewStatus, ReviewCancel, ReviewDeliverable,
     WindowEnds, CheckoutStep, SelectReview, ClearReview, OpenBill, SettleFromGateway
<1>6. QED BY <1>2, <1>3, <1>4, <1>5

LEMMA ReviewInvStep == BillingTypeOK /\ ReviewInv /\ [BillingNext]_billingVars => ReviewInv'
<1> SUFFICES ASSUME BillingTypeOK, ReviewInv, [BillingNext]_billingVars PROVE ReviewInv'
  OBVIOUS
<1>1. CASE UNCHANGED billingVars
  BY <1>1 DEF billingVars, ReviewInv, ReviewWorkIsSelected, ReviewSeen
<1>2. CASE BillingNext
  <2>1. ReviewWorkIsSelected'
    BY <1>2, ReviewRowStep DEF ReviewWorkIsSelected, KeepsReview, Selected
  <2>2. ASSUME NEW r \in Requests, reqs'[r] \in ReviewWrites PROVE contracts'[reqs'[r].contract].sr # "none"
    BY <1>2, <2>2, ReviewRequestStep, ReviewRowStep DEF KeepsReview
  <2>3. ReviewSeen'
    BY <2>2 DEF ReviewSeen
  <2>4. QED BY <2>1, <2>3 DEF ReviewInv
<1>3. QED BY <1>1, <1>2

(* Review work exists only on a contract whose review is still selected    *)
(* and whose settlement opened the edit window.                            *)
THEOREM ReviewWorkSelected == BillingSpec => []ReviewWorkIsSelected
<1>1. BillingInit => ReviewInv
  BY DEF BillingInit, Drafts, NoReq, ReviewWrites, ReviewInv, ReviewWorkIsSelected, ReviewSeen
<1>2. ReviewInv => ReviewWorkIsSelected
  BY DEF ReviewInv
<1>3. QED BY <1>1, <1>2, ReviewInvStep, TypeCorrect, PTL DEF BillingSpec

(* What a request in flight is about to lock or issue is paid already.     *)
THEOREM PlannedIssueIsPaid == BillingSpec => []PendingFinalIsPaid
<1>1. BillingInv => PendingFinalIsPaid
  BY DEF BillingInv
<1>2. QED BY <1>1, BillingInvariant, PTL

=============================================================================
