----------------------- MODULE ContractBilling_proofs -----------------------
(***************************************************************************)
(* For every set of contracts and requests, every price and every bound:   *)
(* the type invariant of ContractBilling, and that nothing is locked or    *)
(* issued unpaid.                                                          *)
(***************************************************************************)
EXTENDS ContractBilling, TLAPS

USE DEF billingVars

-----------------------------------------------------------------------------
(* What the operators on rows return.                                      *)

(* Every rule that computes a contract row from a contract row returns one.*)
LEMMA RowRules ==
    ASSUME NEW row \in ContractRows
    PROVE  /\ Settled(row) \in ContractRows
           /\ Collected(row) \in ContractRows
           /\ Waived(row) \in ContractRows
           /\ \A s \in RequestStatuses \ {"none"} : Synced(row, s) \in ContractRows
           /\ Expected(row) \in Amounts
<1>1. Settled(row) \in ContractRows
  <2>1. ASSUME NEW r \in ContractRows PROVE Activated(r) \in ContractRows
    <3>1. [r EXCEPT !.sr = "new", !.review = "pending_assignment", !.status = "pending_review"]
             \in ContractRows
      BY DEF ContractRows, Statuses, ReviewStatuses, RequestStatuses
    <3>2. QED BY <3>1 DEF Activated
  <2>2. [row EXCEPT !.status = "client_review", !.window = "open"] \in ContractRows
    BY DEF ContractRows, Statuses, Windows
  <2>3. [row EXCEPT !.status = "pending_review"] \in ContractRows
    BY DEF ContractRows, Statuses
  <2>4. QED BY <2>1, <2>2, <2>3 DEF Settled
<1>2. Collected(row) \in ContractRows
  BY DEF Collected, ContractRows, Statuses, BillingModes, Windows
<1>3. Waived(row) \in ContractRows
  BY DEF Waived, ContractRows, Statuses, BillingModes
<1>4. ASSUME NEW s \in RequestStatuses \ {"none"} PROVE Synced(row, s) \in ContractRows
  BY DEF Synced, ContractRows, Statuses, ReviewStatuses, RequestStatuses
<1>5. Expected(row) \in Amounts
  BY PriceAssumption DEF Expected, Amounts
<1>6. QED BY <1>1, <1>2, <1>3, <1>4, <1>5

(* A staff transition of a review request leads to a status of one.        *)
LEMMA ReviewMovesRange ==
    \A s \in RequestStatuses : ReviewMoves[s] \subseteq RequestStatuses \ {"none"}
BY DEF ReviewMoves, RequestStatuses

(* Carrying out a request's write leaves a contract row.                   *)
LEMMA WrittenRow ==
    ASSUME NEW row \in ContractRows, NEW req \in ContractWrites \cup ReviewWrites
    PROVE  Written(row, req) \in ContractRows
<1>1. CASE req \in ReviewWrites
  <2>1. /\ req.on = "review"
        /\ req.write \in RequestStatuses
        /\ req.write # "deletion" /\ req.write # "expiry" /\ req.write # "waiver"
    BY <1>1 DEF ReviewWrites, RequestStatuses
  <2>2. [row EXCEPT !.sr = req.write] \in ContractRows
    BY <2>1 DEF ContractRows
  <2>3. QED BY <2>1, <2>2 DEF Written
<1>2. CASE req \in ContractWrites
  <2>1. req.on = "contract" /\ req.write \in Statuses \cup {"deletion", "expiry", "waiver"}
    BY <1>2 DEF ContractWrites, Writes
  <2>2. [row EXCEPT !.deleted = TRUE] \in ContractRows
    BY DEF ContractRows
  <2>3. \A s \in Statuses : [row EXCEPT !.status = s] \in ContractRows
    BY DEF ContractRows
  <2>4. "issued" \in Statuses
    BY DEF Statuses
  <2>5. "deletion" \notin Statuses /\ "expiry" \notin Statuses /\ "waiver" \notin Statuses
    BY DEF Statuses
  <2>6. QED BY <2>1, <2>2, <2>3, <2>4, <2>5, RowRules DEF Written
<1>3. QED BY <1>1, <1>2

(* Replacing a receipt changes one status and keeps every other row.       *)
LEMMA ReplacedReceipts ==
    ASSUME NEW s \in Seq(PaymentRows)
    PROVE  /\ Replaced(s) \in Seq(PaymentRows)
           /\ Len(Replaced(s)) = Len(s)
           /\ \A i \in 1..Len(s) :
                /\ Replaced(s)[i].status \in {s[i].status, "replaced"}
                /\ s[i].status # "needs_client_info" => Replaced(s)[i] = s[i]
                /\ Replaced(s)[i].source = s[i].source
<1>1. DOMAIN s = 1..Len(s) /\ Len(s) \in Nat
  OBVIOUS
<1>2. ASSUME NEW i \in 1..Len(s) PROVE Replaced(s)[i] \in PaymentRows
  <2>1. s[i] \in PaymentRows
    BY <1>1
  <2>2. [s[i] EXCEPT !.status = "replaced"] \in PaymentRows
    BY <2>1 DEF PaymentRows, PaymentStatuses
  <2>3. Replaced(s)[i] \in {s[i], [s[i] EXCEPT !.status = "replaced"]}
    BY <1>1 DEF Replaced
  <2>4. QED BY <2>1, <2>2, <2>3
<1>3. Replaced(s) \in [1..Len(s) -> PaymentRows]
  BY <1>1, <1>2 DEF Replaced
<1>4. Replaced(s) \in Seq(PaymentRows) /\ Len(Replaced(s)) = Len(s)
  BY <1>1, <1>3
<1>5. ASSUME NEW i \in 1..Len(s)
      PROVE  /\ Replaced(s)[i].status \in {s[i].status, "replaced"}
             /\ s[i].status # "needs_client_info" => Replaced(s)[i] = s[i]
             /\ Replaced(s)[i].source = s[i].source
  <2>1. s[i] \in PaymentRows
    BY <1>1
  <2>2. Replaced(s)[i] \in {s[i], [s[i] EXCEPT !.status = "replaced"]}
    BY <1>1 DEF Replaced
  <2>3. s[i].status # "needs_client_info" => Replaced(s)[i] = s[i]
    BY <1>1 DEF Replaced
  <2>4. QED BY <2>1, <2>2, <2>3 DEF PaymentRows
<1>6. QED BY <1>4, <1>5

-----------------------------------------------------------------------------
(* Type correctness.                                                       *)

(* What the updates of the tables return.                                  *)
LEMMA Tables ==
    ASSUME BillingTypeOK, NEW c \in Contracts
    PROVE  /\ contracts[c] \in ContractRows
           /\ payments[c] \in Seq(PaymentRows)
           /\ \A row \in ContractRows : [contracts EXCEPT ![c] = row] \in [Contracts -> ContractRows]
           /\ \A s \in Seq(PaymentRows) : [payments EXCEPT ![c] = s] \in [Contracts -> Seq(PaymentRows)]
BY DEF BillingTypeOK

(* Recording a payment.                                                    *)
LEMMA RecordedPayments ==
    ASSUME BillingTypeOK, NEW c \in Contracts, NEW amount \in Amounts,
           NEW status \in PaymentStatuses, NEW source \in Sources
    PROVE  Recorded(c, amount, status, source) \in Seq(PaymentRows)
<1>1. payments[c] \in Seq(PaymentRows)
  BY Tables
<1>2. [amount |-> amount, status |-> status, source |-> source] \in PaymentRows
  BY DEF PaymentRows
<1>3. QED BY <1>1, <1>2 DEF Recorded

(* Reviewing a payment: its status changes, and nothing else.              *)
LEMMA ReviewedPayments ==
    ASSUME BillingTypeOK, NEW c \in Contracts, NEW i \in DOMAIN payments[c],
           NEW status \in PaymentStatuses
    PROVE  /\ [payments EXCEPT ![c][i].status = status] \in [Contracts -> Seq(PaymentRows)]
           /\ [payments EXCEPT ![c][i].status = status]
                = [payments EXCEPT ![c] = [payments[c] EXCEPT ![i] = [payments[c][i] EXCEPT !.status = status]]]
<1>1. payments[c] \in Seq(PaymentRows)
  BY Tables
<1>2. payments[c][i] \in PaymentRows
  BY <1>1
<1>3. [payments[c][i] EXCEPT !.status = status] \in PaymentRows
  BY <1>2 DEF PaymentRows
<1>4. [payments[c] EXCEPT ![i] = [payments[c][i] EXCEPT !.status = status]] \in Seq(PaymentRows)
  BY <1>1, <1>3
<1>5. [payments EXCEPT ![c][i].status = status]
        = [payments EXCEPT ![c] = [payments[c] EXCEPT ![i] = [payments[c][i] EXCEPT !.status = status]]]
  OBVIOUS
<1>6. QED BY <1>4, <1>5, Tables

LEMMA TypeInit == BillingInit => BillingTypeOK
<1>1. SUFFICES ASSUME BillingInit PROVE BillingTypeOK
  OBVIOUS
<1>2. contracts \in [Contracts -> ContractRows]
  BY <1>1 DEF BillingInit, Drafts
<1>3. payments \in [Contracts -> Seq(PaymentRows)]
  BY <1>1 DEF BillingInit
<1>4. reqs \in [Requests -> ContractWrites \cup ReviewWrites \cup {NoReq}]
  BY <1>1 DEF BillingInit
<1>5. QED BY <1>2, <1>3, <1>4 DEF BillingTypeOK

(* Each step keeps every table well typed.                                 *)
LEMMA TypeStep == BillingTypeOK /\ [BillingNext]_billingVars => BillingTypeOK'
<1> SUFFICES ASSUME BillingTypeOK, [BillingNext]_billingVars PROVE BillingTypeOK'
  OBVIOUS
<1>0. ASSUME NEW c \in Contracts, NEW row \in ContractRows, Update(c, row)
      PROVE  contracts' \in [Contracts -> ContractRows]
  BY <1>0, Tables DEF Update
<1>1. ASSUME NEW c \in Contracts, CheckoutStep(c) PROVE BillingTypeOK'
  <2>1. contracts[c] \in ContractRows
    BY Tables
  <2>2. /\ [contracts[c] EXCEPT !.addOn = TRUE, !.review = "awaiting_payment"] \in ContractRows
        /\ [contracts[c] EXCEPT !.addOn = FALSE, !.review = "none"] \in ContractRows
        /\ [contracts[c] EXCEPT !.status = "pending_payment"] \in ContractRows
    BY <2>1 DEF ContractRows, ReviewStatuses, Statuses
  <2>3. contracts' \in [Contracts -> ContractRows]
    BY <1>1, <1>0, <2>2 DEF CheckoutStep, SelectReview, ClearReview, OpenBill
  <2>4. UNCHANGED <<payments, reqs>>
    BY <1>1 DEF CheckoutStep, SelectReview, ClearReview, OpenBill
  <2>5. QED BY <2>3, <2>4 DEF BillingTypeOK
<1>2. ASSUME NEW c \in Contracts, ReceiptStep(c) PROVE BillingTypeOK'
  <2>1. CASE UploadReceipt(c)
    <3>1. contracts[c] \in ContractRows /\ payments[c] \in Seq(PaymentRows)
      BY Tables
    <3>2. [amount |-> Expected(contracts[c]), status |-> "pending_verification", source |-> "receipt"]
             \in PaymentRows
      BY <3>1, RowRules DEF PaymentRows, PaymentStatuses, Sources
    <3>3. payments' \in [Contracts -> Seq(PaymentRows)]
      BY <2>1, <3>1, <3>2, ReplacedReceipts, Tables DEF UploadReceipt
    <3>4. [contracts[c] EXCEPT !.status = "pending_payment"] \in ContractRows
      BY <3>1 DEF ContractRows, Statuses
    <3>5. contracts' \in [Contracts -> ContractRows] /\ reqs' = reqs
      BY <2>1, <3>4, <1>0 DEF UploadReceipt
    <3>6. QED BY <3>3, <3>5 DEF BillingTypeOK
  <2>2. ASSUME NEW i \in DOMAIN payments[c], ApproveReceipt(c, i) PROVE BillingTypeOK'
    <3>1. payments' \in [Contracts -> Seq(PaymentRows)]
      BY <2>2, ReviewedPayments DEF ApproveReceipt, PaymentStatuses
    <3>2. contracts' \in [Contracts -> ContractRows] /\ reqs' = reqs
      BY <2>2, Tables, RowRules, <1>0 DEF ApproveReceipt
    <3>3. QED BY <3>1, <3>2 DEF BillingTypeOK
  <2>3. ASSUME NEW i \in DOMAIN payments[c], ClarifyReceipt(c, i) PROVE BillingTypeOK'
    BY <2>3, ReviewedPayments DEF ClarifyReceipt, PaymentStatuses, BillingTypeOK
  <2>4. ASSUME NEW i \in DOMAIN payments[c], RejectReceipt(c, i) PROVE BillingTypeOK'
    BY <2>4, ReviewedPayments DEF RejectReceipt, PaymentStatuses, BillingTypeOK
  <2>5. QED BY <1>2, <2>1, <2>2, <2>3, <2>4 DEF ReceiptStep
<1>3. ASSUME NEW c \in Contracts, OfficeStep(c) PROVE BillingTypeOK'
  <2>1. ASSUME NEW amount \in Amounts, CollectManually(c, amount) PROVE BillingTypeOK'
    <3>1. payments' \in [Contracts -> Seq(PaymentRows)]
      BY <2>1, RecordedPayments, Tables DEF CollectManually, PaymentStatuses, Sources
    <3>2. contracts' \in [Contracts -> ContractRows] /\ reqs' = reqs
      BY <2>1, Tables, RowRules, <1>0 DEF CollectManually
    <3>3. QED BY <3>1, <3>2 DEF BillingTypeOK
  <2>2. QED BY <1>3, <2>1 DEF OfficeStep
<1>4. ASSUME NEW r \in Requests, NEW c \in Contracts, ReadStep(r, c) PROVE BillingTypeOK'
  <2>1. ASSUME NEW w \in Writes, NEW then \in {"nothing", "issued"},
               Begin(r, c, "contract", w, then)
        PROVE  BillingTypeOK'
    <3>1. [on |-> "contract", contract |-> c, write |-> w, then |-> then] \in ContractWrites
      BY DEF ContractWrites
    <3>2. QED BY <2>1, <3>1 DEF Begin, BillingTypeOK
  <2>2. ASSUME NEW w \in RequestStatuses \ {"none"}, Begin(r, c, "review", w, "nothing")
        PROVE  BillingTypeOK'
    <3>1. [on |-> "review", contract |-> c, write |-> w, then |-> "nothing"] \in ReviewWrites
      BY DEF ReviewWrites
    <3>2. QED BY <2>2, <3>1 DEF Begin, BillingTypeOK
  <2>3. ASSUME NEW w \in Writes, Plan(r, c, w) PROVE BillingTypeOK'
    BY <2>1, <2>3 DEF Plan
  <2>4. CASE Submit(r, c) BY <2>3, <2>4 DEF Submit, Writes, Statuses
  <2>5. CASE DeleteDraft(r, c) BY <2>3, <2>5 DEF DeleteDraft, Writes
  <2>6. CASE SharedUpdate(r, c) BY <2>3, <2>6 DEF SharedUpdate, Writes, Statuses
  <2>7. CASE RevisionRequest(r, c) BY <2>3, <2>7 DEF RevisionRequest, Writes, Statuses
  <2>8. ASSUME NEW to \in Requestable, SetStatus(r, c, to) PROVE BillingTypeOK'
    BY <2>3, <2>8 DEF SetStatus, Writes, Statuses, Requestable
  <2>9. CASE CreateVersion(r, c) BY <2>3, <2>9 DEF CreateVersion, Writes, Statuses
  <2>10. CASE Lock(r, c) BY <2>3, <2>10 DEF Lock, Writes, Statuses
  <2>11. CASE Issue(r, c) BY <2>3, <2>11 DEF Issue, Writes, Statuses
  <2>12. CASE Finalize(r, c) BY <2>1, <2>12 DEF Finalize, Writes, Statuses
  <2>13. CASE SelectExpired(r, c) BY <2>3, <2>13 DEF SelectExpired, Writes
  <2>14. CASE ReviewConfirm(r, c) BY <2>2, <2>14 DEF ReviewConfirm, RequestStatuses
  <2>15. CASE ReviewRevision(r, c) BY <2>2, <2>15 DEF ReviewRevision, RequestStatuses
  <2>16. CASE Waive(r, c) BY <2>3, <2>16 DEF Waive, Writes
  <2>17. QED
    BY <1>4, <2>4, <2>5, <2>6, <2>7, <2>8, <2>9, <2>10, <2>11, <2>12, <2>13, <2>14, <2>15, <2>16
    DEF ReadStep
<1>5. ASSUME NEW r \in Requests, WriteStep(r) PROVE BillingTypeOK'
  <2>1. CASE Write(r)
    <3>1. reqs[r] \in ContractWrites \cup ReviewWrites
      BY <2>1 DEF Write, BillingTypeOK
    <3>2. reqs[r].contract \in Contracts
      BY <3>1 DEF ContractWrites, ReviewWrites
    <3>3. contracts' \in [Contracts -> ContractRows] /\ payments' = payments
      BY <2>1, <3>1, <3>2, WrittenRow, Tables, <1>0 DEF Write
    <3>4. Remaining(reqs[r]) \in ContractWrites \cup ReviewWrites \cup {NoReq}
      BY <3>1 DEF Remaining, ContractWrites, ReviewWrites, Writes, Statuses
    <3>5. reqs' \in [Requests -> ContractWrites \cup ReviewWrites \cup {NoReq}]
      BY <2>1, <3>4 DEF Write, BillingTypeOK
    <3>6. QED BY <3>3, <3>5 DEF BillingTypeOK
  <2>2. CASE Abandon(r)
    BY <2>2 DEF Abandon, BillingTypeOK
  <2>3. QED BY <1>5, <2>1, <2>2 DEF WriteStep
<1>6. ASSUME NEW c \in Contracts, ReviewStep(c) PROVE BillingTypeOK'
  <2>1. contracts[c] \in ContractRows
    BY Tables
  <2>2. ASSUME NEW to \in RequestStatuses, ReviewStatus(c, to) PROVE BillingTypeOK'
    <3>1. to \in RequestStatuses \ {"none"}
      BY <2>1, <2>2, ReviewMovesRange DEF ReviewStatus, ContractRows
    <3>2. QED BY <2>1, <2>2, <3>1, RowRules, <1>0 DEF ReviewStatus, BillingTypeOK
  <2>3. CASE ReviewCancel(c)
    BY <2>1, <2>3, RowRules, <1>0 DEF ReviewCancel, BillingTypeOK, RequestStatuses
  <2>4. CASE ReviewDeliverable(c)
    <3>1. [contracts[c] EXCEPT !.sr = "client_review"] \in ContractRows
      BY <2>1 DEF ContractRows, RequestStatuses
    <3>2. QED BY <2>4, <3>1, <1>0 DEF ReviewDeliverable, BillingTypeOK
  <2>5. QED BY <1>6, <2>2, <2>3, <2>4 DEF ReviewStep
<1>7. ASSUME NEW c \in Contracts, WindowEnds(c) PROVE BillingTypeOK'
  <2>1. [contracts[c] EXCEPT !.window = "closed"] \in ContractRows
    BY Tables DEF ContractRows, Windows
  <2>2. QED BY <1>7, <2>1, <1>0 DEF WindowEnds, BillingTypeOK
<1>8. ASSUME NEW c \in Contracts, NEW amount \in Amounts, SettleFromGateway(c, amount)
      PROVE  BillingTypeOK'
  <2>1. payments' \in [Contracts -> Seq(PaymentRows)]
    BY <1>8, RecordedPayments, Tables DEF SettleFromGateway, PaymentStatuses, Sources
  <2>2. contracts' \in [Contracts -> ContractRows] /\ reqs' = reqs
    BY <1>8, Tables, RowRules, <1>0 DEF SettleFromGateway
  <2>3. QED BY <2>1, <2>2 DEF BillingTypeOK
<1>9. CASE UNCHANGED billingVars
  BY <1>9 DEF BillingTypeOK
<1>10. QED
  BY <1>1, <1>2, <1>3, <1>4, <1>5, <1>6, <1>7, <1>8, <1>9 DEF BillingNext, DeskNext

(* Type correctness: no handler of the payment and contract controllers    *)
(* writes a status, a billing mode or a payment outside its enumeration.   *)
THEOREM TypeCorrect == BillingSpec => []BillingTypeOK
BY TypeInit, TypeStep, PTL DEF BillingSpec

-----------------------------------------------------------------------------
(* What a step may do to the row of a contract.                            *)

Final == {"locked", "issued"}

(* A rule that neither finalizes nor stops answering for the price, ...    *)
Kept(old, new) ==
    /\ new.mode = old.mode
    /\ old.billing \in PrepaidModes => new.billing \in PrepaidModes
    /\ new.status \in Final => old.status \in Final

(* ... and one that does not open the edit window either.                  *)
Unopened(old, new) == Kept(old, new) /\ (new.window # "none" => old.window # "none")

LEMMA RuleEffects ==
    ASSUME NEW row \in ContractRows
    PROVE  /\ Kept(row, Settled(row))
           /\ Kept(row, Collected(row)) /\ Collected(row).billing \in PrepaidModes
           /\ Unopened(row, Waived(row))
           /\ \A s \in RequestStatuses : Unopened(row, Synced(row, s))
           /\ \A a \in BOOLEAN, v \in ReviewStatuses :
                Unopened(row, [row EXCEPT !.addOn = a, !.review = v])
           /\ \A s \in Statuses \ Final : Unopened(row, [row EXCEPT !.status = s])
           /\ \A s \in RequestStatuses : Unopened(row, [row EXCEPT !.sr = s])
           /\ Unopened(row, [row EXCEPT !.deleted = TRUE])
<1>1. Kept(row, Settled(row))
  <2>1. ASSUME NEW r \in ContractRows PROVE Kept(r, Activated(r))
    BY DEF ContractRows, Activated, Kept, Final
  <2>2. /\ [row EXCEPT !.status = "client_review", !.window = "open"] \in ContractRows
        /\ Kept(row, [row EXCEPT !.status = "client_review", !.window = "open"])
    BY DEF ContractRows, Statuses, Windows, Kept, Final
  <2>3. Kept(row, [row EXCEPT !.status = "pending_review"])
    BY DEF ContractRows, Kept, Final
  <2>4. QED BY <2>1, <2>2, <2>3 DEF Settled, Kept
<1>2. Kept(row, Collected(row)) /\ Collected(row).billing \in PrepaidModes
  BY DEF ContractRows, Collected, Kept, Final, PrepaidModes
<1>3. Unopened(row, Waived(row))
  BY DEF ContractRows, Waived, Kept, Unopened, Final, PrepaidModes
<1>4. ASSUME NEW s \in RequestStatuses PROVE Unopened(row, Synced(row, s))
  BY DEF ContractRows, Synced, Kept, Unopened, Final
<1>5. ASSUME NEW a \in BOOLEAN, NEW v \in ReviewStatuses
      PROVE  Unopened(row, [row EXCEPT !.addOn = a, !.review = v])
  BY DEF ContractRows, Kept, Unopened, Final
<1>6. ASSUME NEW s \in Statuses \ Final PROVE Unopened(row, [row EXCEPT !.status = s])
  BY DEF ContractRows, Kept, Unopened
<1>7. ASSUME NEW s \in RequestStatuses PROVE Unopened(row, [row EXCEPT !.sr = s])
  BY DEF ContractRows, Kept, Unopened
<1>8. Unopened(row, [row EXCEPT !.deleted = TRUE])
  BY DEF ContractRows, Kept, Unopened
<1>9. QED BY <1>1, <1>2, <1>3, <1>4, <1>5, <1>6, <1>7, <1>8

-----------------------------------------------------------------------------
(* Approved payments.                                                      *)

(* A step keeps every payment row, and an approved one stays approved.     *)
LEMMA ApprovedStep ==
    ASSUME BillingTypeOK, [BillingNext]_billingVars, NEW c \in Contracts, NEW i \in DOMAIN payments[c]
    PROVE  i \in DOMAIN payments'[c]
           /\ (payments[c][i].status = "approved" => payments'[c][i].status = "approved")
<1>0. /\ payments[c] \in Seq(PaymentRows)
      /\ payments \in [Contracts -> Seq(PaymentRows)]
      /\ DOMAIN payments[c] = 1..Len(payments[c])
  BY Tables DEF BillingTypeOK
<1>1. CASE UNCHANGED payments
  BY <1>1
<1>2. ASSUME NEW d \in Contracts, NEW amount \in Amounts, NEW status \in PaymentStatuses,
             NEW source \in Sources,
             payments' = [payments EXCEPT ![d] = Recorded(d, amount, status, source)]
      PROVE  i \in DOMAIN payments'[c]
             /\ (payments[c][i].status = "approved" => payments'[c][i].status = "approved")
  <2>1. CASE c # d BY <2>1, <1>2, <1>0
  <2>2. CASE c = d
    <3>1. payments'[c] = Append(payments[c], [amount |-> amount, status |-> status, source |-> source])
      BY <2>2, <1>2, <1>0 DEF Recorded
    <3>2. i \in DOMAIN payments'[c] /\ payments'[c][i] = payments[c][i]
      BY <3>1, <1>0
    <3>3. QED BY <3>2
  <2>3. QED BY <2>1, <2>2
<1>3. ASSUME NEW d \in Contracts, NEW j \in DOMAIN payments[d], NEW status \in PaymentStatuses,
             payments[d][j].status \in OpenReceipts \/ status = "approved",
             payments' = [payments EXCEPT ![d][j].status = status]
      PROVE  i \in DOMAIN payments'[c]
             /\ (payments[c][i].status = "approved" => payments'[c][i].status = "approved")
  <2>1. payments' = [payments EXCEPT ![d] = [payments[d] EXCEPT ![j] = [payments[d][j] EXCEPT !.status = status]]]
    BY <1>3, ReviewedPayments
  <2>2. CASE c # d BY <2>1, <2>2, <1>0
  <2>3. CASE c = d
    <3>1. payments'[c] = [payments[c] EXCEPT ![j] = [payments[c][j] EXCEPT !.status = status]]
      BY <2>1, <2>3, <1>0
    <3>2. DOMAIN payments'[c] = DOMAIN payments[c]
      BY <3>1
    <3>3. CASE i # j BY <3>1, <3>2, <3>3
    <3>4. CASE i = j
      <4>1. payments[c][i] \in PaymentRows
        BY <1>0
      <4>2. payments'[c][i].status = status
        BY <3>1, <3>4, <4>1 DEF PaymentRows
      <4>3. QED BY <1>3, <2>3, <3>2, <3>4, <4>2 DEF OpenReceipts
    <3>5. QED BY <3>3, <3>4
  <2>4. QED BY <2>2, <2>3
<1>4. ASSUME NEW d \in Contracts, UploadReceipt(d)
      PROVE  i \in DOMAIN payments'[c]
             /\ (payments[c][i].status = "approved" => payments'[c][i].status = "approved")
  <2>1. CASE c # d BY <2>1, <1>4, <1>0 DEF UploadReceipt
  <2>2. CASE c = d
    <3> DEFINE receipt == [amount |-> Expected(contracts[c]), status |-> "pending_verification",
                           source |-> "receipt"]
    <3>1. payments'[c] = Append(Replaced(payments[c]), receipt)
      BY <2>2, <1>4, <1>0 DEF UploadReceipt
    <3>2. /\ Replaced(payments[c]) \in Seq(PaymentRows)
          /\ Len(Replaced(payments[c])) = Len(payments[c])
      BY <1>0, ReplacedReceipts
    <3>3. payments[c][i].status = "approved" => Replaced(payments[c])[i] = payments[c][i]
      BY <1>0, ReplacedReceipts
    <3>4. i \in DOMAIN payments'[c] /\ payments'[c][i] = Replaced(payments[c])[i]
      BY <3>1, <3>2, <1>0
    <3>5. QED BY <3>3, <3>4
  <2>3. QED BY <2>1, <2>2
<1>5. CASE \E d \in Contracts : ReceiptStep(d)
  <2>1. PICK d \in Contracts : ReceiptStep(d) BY <1>5
  <2>2. CASE UploadReceipt(d) BY <2>2, <1>4
  <2>3. ASSUME NEW j \in DOMAIN payments[d], ApproveReceipt(d, j) PROVE ApproveReceipt(d, j) /\ payments[d][j].status \in OpenReceipts
    BY <2>3 DEF ApproveReceipt, OpenReceipts
  <2>4. ASSUME NEW j \in DOMAIN payments[d], ClarifyReceipt(d, j) PROVE ClarifyReceipt(d, j) /\ payments[d][j].status \in OpenReceipts
    BY <2>4 DEF ClarifyReceipt, OpenReceipts
  <2>5. {"approved", "needs_client_info", "rejected"} \subseteq PaymentStatuses
    BY DEF PaymentStatuses
  <2>6. QED BY <2>1, <2>2, <2>3, <2>4, <2>5, <1>3 DEF ReceiptStep, ApproveReceipt, ClarifyReceipt, RejectReceipt
<1>6. CASE \E d \in Contracts : OfficeStep(d)
  BY <1>6, <1>2 DEF OfficeStep, CollectManually, PaymentStatuses, Sources
<1>7. CASE \E d \in Contracts, amount \in Amounts : SettleFromGateway(d, amount)
  BY <1>7, <1>2 DEF SettleFromGateway, PaymentStatuses, Sources
<1>8. CASE \E r \in Requests, d \in Contracts : ReadStep(r, d)
  BY <1>8, <1>1 DEF ReadStep, Submit, DeleteDraft, SharedUpdate, RevisionRequest, SetStatus,
     Waive, CreateVersion, Lock, Issue, Finalize, SelectExpired, ReviewConfirm, ReviewRevision, Plan, Begin
<1>9. CASE \E r \in Requests : WriteStep(r)
  BY <1>9, <1>1 DEF WriteStep, Write, Abandon
<1>10. CASE \E d \in Contracts : ReviewStep(d) \/ WindowEnds(d) \/ CheckoutStep(d)
  BY <1>10, <1>1 DEF ReviewStep, ReviewStatus, ReviewCancel, ReviewDeliverable, WindowEnds,
     CheckoutStep, SelectReview, ClearReview, OpenBill
<1>11. QED
  BY <1>1, <1>5, <1>6, <1>7, <1>8, <1>9, <1>10 DEF BillingNext, DeskNext

(* No review, rejection or replacement takes an approved payment back.     *)
THEOREM ApprovedIsFinal == BillingSpec => ApprovedStays
<1>1. BillingTypeOK /\ [BillingNext]_billingVars
        => [\A c \in Contracts : \A i \in DOMAIN payments[c] :
              i \in DOMAIN payments'[c] /\
              (payments[c][i].status = "approved" => payments'[c][i].status = "approved")]_billingVars
  BY ApprovedStep
<1>2. QED BY <1>1, TypeCorrect, PTL DEF BillingSpec, ApprovedStays

-----------------------------------------------------------------------------
(* Nothing is locked or issued unpaid.                                     *)

(* The row a step leaves to a contract is related to the one it found by a *)
(* rule that keeps the window, or by a settlement that has made the        *)
(* contract covered, or by the write of a request that finalizes it.       *)
Finalizes(req) == req.write \in FinalWrites \/ req.then = "issued"

LEMMA RowStep ==
    ASSUME BillingTypeOK, BillingNext, NEW c \in Contracts
    PROVE  \/ Unopened(contracts[c], contracts'[c])
           \/ Kept(contracts[c], contracts'[c]) /\ Covered(c)'
           \/ \E r \in Requests :
                /\ reqs[r] \in ContractWrites /\ reqs[r].contract = c /\ Finalizes(reqs[r])
                /\ contracts'[c].mode = contracts[c].mode
                /\ contracts'[c].billing = contracts[c].billing
                /\ contracts'[c].window = contracts[c].window
<1> DEFINE G == \/ Unopened(contracts[c], contracts'[c])
                \/ Kept(contracts[c], contracts'[c]) /\ Covered(c)'
                \/ \E r \in Requests :
                     /\ reqs[r] \in ContractWrites /\ reqs[r].contract = c /\ Finalizes(reqs[r])
                     /\ contracts'[c].mode = contracts[c].mode
                     /\ contracts'[c].billing = contracts[c].billing
                     /\ contracts'[c].window = contracts[c].window
<1>0. contracts \in [Contracts -> ContractRows] /\ contracts[c] \in ContractRows
  BY DEF BillingTypeOK
<1>1. ASSUME contracts'[c] = contracts[c] PROVE G
  BY <1>1 DEF Unopened, Kept
<1>2. ASSUME NEW d \in Contracts, NEW row, Update(d, row), d = c => Unopened(contracts[c], row) PROVE G
  BY <1>2, <1>0, <1>1 DEF Update
<1>3. ASSUME NEW d \in Contracts, NEW i \in DOMAIN payments[d], ApproveReceipt(d, i) PROVE G
  <2>1. CASE d # c BY <2>1, <1>3, <1>0, <1>1 DEF ApproveReceipt, Update
  <2>2. CASE d = c
    <3>1. Kept(contracts[c], contracts'[c])
      BY <2>2, <1>3, <1>0, RuleEffects DEF ApproveReceipt, Update
    <3>2. /\ payments' = [payments EXCEPT ![c] = [payments[c] EXCEPT ![i] = [payments[c][i] EXCEPT !.status = "approved"]]]
          /\ payments[c] \in Seq(PaymentRows) /\ payments \in [Contracts -> Seq(PaymentRows)]
      BY <2>2, <1>3, ReviewedPayments, Tables DEF ApproveReceipt, PaymentStatuses, BillingTypeOK
    <3>3. payments'[c] = [payments[c] EXCEPT ![i] = [payments[c][i] EXCEPT !.status = "approved"]]
      BY <3>2
    <3>4. i \in DOMAIN payments'[c] /\ payments[c][i] \in PaymentRows
      BY <2>2, <1>3, <3>2, <3>3
    <3>5. payments'[c][i].status = "approved"
      BY <3>3, <3>4 DEF PaymentRows
    <3>6. QED BY <3>1, <3>4, <3>5 DEF Covered
  <2>3. QED BY <2>1, <2>2
<1>4. ASSUME NEW d \in Contracts, NEW amount \in Amounts, SettleFromGateway(d, amount) PROVE G
  <2>1. CASE d # c BY <2>1, <1>4, <1>0, <1>1 DEF SettleFromGateway, Update
  <2>2. CASE d = c
    <3>1. Kept(contracts[c], contracts'[c])
      BY <2>2, <1>4, <1>0, RuleEffects DEF SettleFromGateway, Update
    <3>2. payments[c] \in Seq(PaymentRows) /\ payments \in [Contracts -> Seq(PaymentRows)]
      BY Tables DEF BillingTypeOK
    <3>3. payments'[c] = Append(payments[c], [amount |-> amount, status |-> "approved", source |-> "gateway"])
      BY <2>2, <1>4, <3>2 DEF SettleFromGateway, Recorded
    <3>4. Len(payments[c]) + 1 \in DOMAIN payments'[c]
          /\ payments'[c][Len(payments[c]) + 1].status = "approved"
      BY <3>2, <3>3
    <3>5. QED BY <3>1, <3>4 DEF Covered
  <2>3. QED BY <2>1, <2>2
<1>5. ASSUME NEW d \in Contracts, OfficeStep(d) PROVE G
  <2>1. ASSUME NEW amount \in Amounts, CollectManually(d, amount) PROVE G
    <3>1. CASE d # c BY <3>1, <2>1, <1>0, <1>1 DEF CollectManually, Update
    <3>2. CASE d = c BY <3>2, <2>1, <1>0, RuleEffects DEF CollectManually, Update, Covered
    <3>3. QED BY <3>1, <3>2
  <2>2. QED BY <1>5, <2>1 DEF OfficeStep
<1>6. ASSUME NEW d \in Contracts, ReceiptStep(d) PROVE G
  <2>1. CASE UploadReceipt(d)
    BY <2>1, <1>0, <1>2, RuleEffects DEF UploadReceipt, Statuses, Final
  <2>2. QED BY <1>6, <2>1, <1>1, <1>3 DEF ReceiptStep, ClarifyReceipt, RejectReceipt
<1>7. ASSUME NEW r \in Requests, WriteStep(r) PROVE G
  <2>1. CASE Abandon(r) BY <2>1, <1>1 DEF Abandon
  <2>2. CASE Write(r)
    <3>1. reqs[r] \in ContractWrites \cup ReviewWrites /\ reqs[r].contract \in Contracts
      BY <2>2 DEF Write, BillingTypeOK, ContractWrites, ReviewWrites
    <3>2. CASE reqs[r].contract # c BY <2>2, <3>1, <3>2, <1>0, <1>1 DEF Write, Update
    <3>3. CASE reqs[r].contract = c /\ reqs[r] \in ReviewWrites
      <4>1. /\ reqs[r].on = "review" /\ reqs[r].write \in RequestStatuses
            /\ reqs[r].write # "deletion" /\ reqs[r].write # "expiry" /\ reqs[r].write # "waiver"
        BY <3>3 DEF ReviewWrites, RequestStatuses
      <4>2. contracts'[c] = Written(contracts[c], reqs[r])
        BY <2>2, <3>3, <1>0 DEF Write, Update
      <4>3. Written(contracts[c], reqs[r]) = [contracts[c] EXCEPT !.sr = reqs[r].write]
        BY ONLY <4>1, Zenon DEF Written
      <4>4. \A s \in RequestStatuses : Unopened(contracts[c], [contracts[c] EXCEPT !.sr = s])
        BY <1>0, RuleEffects
      <4>5. QED BY <4>1, <4>2, <4>3, <4>4
    <3>4. CASE reqs[r].contract = c /\ reqs[r] \in ContractWrites
      <4>1. reqs[r].on = "contract" /\ reqs[r].write \in Statuses \cup {"deletion", "expiry", "waiver"}
            /\ "deletion" \notin Statuses /\ "expiry" \notin Statuses /\ "waiver" \notin Statuses
        BY <3>4 DEF ContractWrites, Writes, Statuses
      <4>2. contracts'[c] = Written(contracts[c], reqs[r])
        BY <2>2, <3>4, <1>0 DEF Write, Update
      <4>3. CASE reqs[r].write = "deletion"
        BY <4>1, <4>2, <4>3, <1>0, RuleEffects DEF Written
      <4>4. CASE reqs[r].write \in Statuses \ Final
        BY <4>1, <4>2, <4>4, <1>0, RuleEffects DEF Written
      <4>5. CASE reqs[r].write \in Final \cup {"expiry"}
        <5>1. Finalizes(reqs[r])
          BY <4>5 DEF Final, Finalizes, FinalWrites
        <5>2. \A s \in Statuses : LET row == [contracts[c] EXCEPT !.status = s] IN
                row.mode = contracts[c].mode /\ row.billing = contracts[c].billing /\ row.window = contracts[c].window
          BY <1>0 DEF ContractRows
        <5>3. "issued" \in Statuses
          BY DEF Statuses
        <5>4. /\ contracts'[c].mode = contracts[c].mode
              /\ contracts'[c].billing = contracts[c].billing
              /\ contracts'[c].window = contracts[c].window
          BY <4>1, <4>2, <4>5, <5>2, <5>3 DEF Written, Final
        <5>5. QED BY <5>1, <5>4, <3>4
      <4>6. CASE reqs[r].write = "waiver"
        BY <4>1, <4>2, <4>6, <1>0, RuleEffects DEF Written
      <4>7. QED BY <4>1, <4>3, <4>4, <4>5, <4>6
    <3>5. QED BY <3>1, <3>2, <3>3, <3>4
  <2>3. QED BY <1>7, <2>1, <2>2 DEF WriteStep
<1>8. ASSUME NEW r \in Requests, NEW d \in Contracts, ReadStep(r, d) PROVE G
  BY <1>8, <1>1 DEF ReadStep, Submit, DeleteDraft, SharedUpdate, RevisionRequest, SetStatus,
     Waive, CreateVersion, Lock, Issue, Finalize, SelectExpired, ReviewConfirm, ReviewRevision, Plan, Begin
<1>9. ASSUME NEW d \in Contracts, ReviewStep(d) PROVE G
  <2>1. ReviewMoves[contracts[d].sr] \subseteq RequestStatuses
    BY <1>0, ReviewMovesRange DEF ContractRows
  <2>2. ASSUME NEW to \in RequestStatuses, ReviewStatus(d, to) PROVE G
    BY <2>2, <1>0, <1>2, RuleEffects DEF ReviewStatus
  <2>3. CASE ReviewCancel(d)
    BY <2>3, <1>0, <1>2, RuleEffects DEF ReviewCancel, RequestStatuses
  <2>4. CASE ReviewDeliverable(d)
    BY <2>4, <1>0, <1>2, RuleEffects DEF ReviewDeliverable, RequestStatuses
  <2>5. QED BY <1>9, <2>2, <2>3, <2>4 DEF ReviewStep
<1>10. ASSUME NEW d \in Contracts, WindowEnds(d) PROVE G
  <2>1. d = c => Unopened(contracts[c], [contracts[c] EXCEPT !.window = "closed"])
    BY <1>10, <1>0 DEF WindowEnds, Unopened, Kept, ContractRows
  <2>2. QED BY <1>10, <1>2, <2>1 DEF WindowEnds
<1>11. ASSUME NEW d \in Contracts, CheckoutStep(d) PROVE G
  <2>1. CASE SelectReview(d)
    BY <2>1, <1>0, <1>2, RuleEffects DEF SelectReview, ReviewStatuses
  <2>2. CASE ClearReview(d)
    BY <2>2, <1>0, <1>2, RuleEffects DEF ClearReview, ReviewStatuses
  <2>3. CASE OpenBill(d)
    BY <2>3, <1>0, <1>2, RuleEffects DEF OpenBill, Statuses, Final
  <2>4. QED BY <1>11, <2>1, <2>2, <2>3 DEF CheckoutStep
<1>12. QED
  BY <1>4, <1>5, <1>6, <1>7, <1>8, <1>9, <1>10, <1>11 DEF BillingNext, DeskNext

(* Once somebody answers for the price, somebody always does.              *)
LEMMA CoverageStep ==
    ASSUME BillingTypeOK, [BillingNext]_billingVars, NEW c \in Contracts, Covered(c)
    PROVE  Covered(c)'
<1>1. CASE UNCHANGED billingVars
  BY <1>1 DEF Covered
<1>2. CASE BillingNext
  <2>1. CASE contracts[c].billing \in PrepaidModes \/ contracts[c].mode = "internal"
    BY <1>2, <2>1, RowStep DEF Kept, Unopened, Covered
  <2>2. CASE \E i \in DOMAIN payments[c] : payments[c][i].status = "approved"
    BY <1>2, <2>2, ApprovedStep DEF Covered
  <2>3. QED BY <2>1, <2>2 DEF Covered
<1>3. QED BY <1>1, <1>2

LEMMA BillingInit_Inv == BillingInit => BillingInv
<1>1. SUFFICES ASSUME BillingInit PROVE BillingInv
  OBVIOUS
<1>2. ASSUME NEW c \in Contracts
      PROVE  contracts[c].status = "draft" /\ contracts[c].window = "none"
  BY <1>1 DEF BillingInit, Drafts
<1>3. \A r \in Requests : reqs[r] = NoReq
  BY <1>1 DEF BillingInit
<1>4. QED BY <1>2, <1>3 DEF BillingInv, IssuedIsPaid, WindowIsPaid, PendingFinalIsPaid

(* A request takes up a write that finalizes only where a check, or the    *)
(* invariant, says the contract is covered.                                *)
LEMMA RequestStep ==
    ASSUME BillingTypeOK, BillingInv, BillingNext, NEW r \in Requests,
           reqs'[r] # NoReq, reqs'[r].on = "contract", Finalizes(reqs'[r])
    PROVE  reqs'[r].contract \in Contracts /\ Covered(reqs'[r].contract)
<1> DEFINE G == reqs'[r].contract \in Contracts /\ Covered(reqs'[r].contract)
<1>0. reqs \in [Requests -> ContractWrites \cup ReviewWrites \cup {NoReq}]
  BY DEF BillingTypeOK
<1>1. ASSUME reqs'[r] = reqs[r] PROVE G
  <2>1. reqs[r] \in ContractWrites
    BY <1>0, <1>1 DEF ContractWrites, ReviewWrites
  <2>2. QED BY <1>1, <2>1 DEF BillingInv, PendingFinalIsPaid, Finalizes, ContractWrites
<1>2. ASSUME NEW d \in Contracts, BillingSettled(d) PROVE Covered(d)
  <2>1. payments[d] \in Seq(PaymentRows)
    BY Tables
  <2>2. QED BY <1>2, <2>1 DEF BillingSettled, LatestApproved, Covered
<1>3. ASSUME NEW q \in Requests, NEW d \in Contracts, ReadStep(q, d) PROVE G
  <2>1. ASSUME NEW on, NEW write, NEW then, Begin(q, d, on, write, then),
               on = "contract" /\ (write \in FinalWrites \/ then = "issued") => Covered(d)
        PROVE  G
    <3>1. CASE q # r BY <2>1, <3>1, <1>0, <1>1 DEF Begin
    <3>2. CASE q = r
      <4>1. reqs'[r] = [on |-> on, contract |-> d, write |-> write, then |-> then]
        BY <2>1, <3>2, <1>0 DEF Begin
      <4>2. QED BY <2>1, <4>1 DEF Finalizes
    <3>3. QED BY <3>1, <3>2
  <2>2. ASSUME NEW write, Plan(q, d, write), write \in FinalWrites => Covered(d) PROVE G
    BY <2>1, <2>2 DEF Plan
  <2>3. CASE Submit(q, d) BY <2>2, <2>3 DEF Submit, FinalWrites
  <2>4. CASE DeleteDraft(q, d) BY <2>2, <2>4 DEF DeleteDraft, FinalWrites
  <2>5. CASE SharedUpdate(q, d) BY <2>2, <2>5 DEF SharedUpdate, FinalWrites
  <2>6. CASE RevisionRequest(q, d) BY <2>2, <2>6 DEF RevisionRequest, FinalWrites
  <2>7. ASSUME NEW to \in Requestable, SetStatus(q, d, to) PROVE G
    BY <2>2, <2>7 DEF SetStatus, FinalWrites, Requestable
  <2>8. CASE CreateVersion(q, d) BY <2>2, <2>8 DEF CreateVersion, FinalWrites
  <2>9. CASE Lock(q, d) BY <2>2, <2>9, <1>2 DEF Lock, Lockable
  <2>10. CASE Issue(q, d) BY <2>2, <2>10 DEF Issue, BillingInv, IssuedIsPaid
  <2>11. CASE Finalize(q, d) BY <2>1, <2>11, <1>2 DEF Finalize
  <2>12. CASE SelectExpired(q, d) BY <2>2, <2>12 DEF SelectExpired, BillingInv, WindowIsPaid
  <2>13. CASE ReviewConfirm(q, d) BY <2>1, <2>13 DEF ReviewConfirm
  <2>14. CASE ReviewRevision(q, d) BY <2>1, <2>14 DEF ReviewRevision
  <2>15. CASE Waive(q, d) BY <2>2, <2>15 DEF Waive, FinalWrites
  <2>16. QED
    BY <1>3, <2>3, <2>4, <2>5, <2>6, <2>7, <2>8, <2>9, <2>10, <2>11, <2>12, <2>13, <2>14, <2>15
    DEF ReadStep
<1>4. ASSUME NEW q \in Requests, WriteStep(q) PROVE G
  <2>1. CASE q # r BY <1>4, <2>1, <1>0, <1>1 DEF WriteStep, Write, Abandon
  <2>2. CASE q = r /\ Abandon(q) BY <2>2, <1>0 DEF Abandon
  <2>3. CASE q = r /\ Write(q)
    <3>1. reqs'[r] = Remaining(reqs[r]) /\ reqs[r] # NoReq
      BY <2>3, <1>0 DEF Write
    <3>2. reqs[r].then # "nothing" /\ reqs'[r] = [reqs[r] EXCEPT !.write = reqs[r].then, !.then = "nothing"]
      BY <3>1 DEF Remaining
    <3>3. reqs[r] \in ContractWrites
      BY <3>1, <3>2, <1>0 DEF ReviewWrites
    <3>4. reqs[r].then = "issued" /\ reqs[r].on = "contract" /\ reqs'[r].contract = reqs[r].contract
      BY <3>2, <3>3 DEF ContractWrites
    <3>5. QED BY <3>1, <3>3, <3>4 DEF BillingInv, PendingFinalIsPaid, ContractWrites
  <2>4. QED BY <1>4, <2>1, <2>2, <2>3 DEF WriteStep
<1>5. CASE UNCHANGED reqs
  BY <1>5, <1>1
<1>6. (\A q \in Requests, d \in Contracts : ~ReadStep(q, d)) /\ (\A q \in Requests : ~WriteStep(q))
        => UNCHANGED reqs
  BY DEF BillingNext, DeskNext, ReceiptStep, UploadReceipt, ApproveReceipt, ClarifyReceipt, RejectReceipt,
     OfficeStep, CollectManually, ReviewStep, ReviewStatus, ReviewCancel, ReviewDeliverable,
     WindowEnds, CheckoutStep, SelectReview, ClearReview, OpenBill, SettleFromGateway
<1>7. QED BY <1>3, <1>4, <1>5, <1>6

LEMMA BillingInv_Step == BillingTypeOK /\ BillingInv /\ [BillingNext]_billingVars => BillingInv'
<1> SUFFICES ASSUME BillingTypeOK, BillingInv, [BillingNext]_billingVars PROVE BillingInv'
  OBVIOUS
<1>1. CASE UNCHANGED billingVars
  BY <1>1 DEF BillingInv, IssuedIsPaid, WindowIsPaid, PendingFinalIsPaid, Covered
<1>2. CASE BillingNext
  <2>1. ASSUME NEW r \in Requests, reqs[r] \in ContractWrites, Finalizes(reqs[r])
        PROVE  Covered(reqs[r].contract)
    <3>1. reqs[r].on = "contract" /\ NoReq.on # "contract"
      BY <2>1 DEF ContractWrites, NoReq
    <3>2. QED BY <2>1, <3>1 DEF BillingInv, PendingFinalIsPaid, Finalizes
  <2>2. ASSUME NEW c \in Contracts,
               contracts'[c].status \in Final \/ contracts'[c].window # "none"
        PROVE  Covered(c)'
    <3>1. CASE Unopened(contracts[c], contracts'[c])
      <4>1. contracts[c].status \in Final \/ contracts[c].window # "none"
        BY <2>2, <3>1 DEF Unopened, Kept
      <4>2. Covered(c)
        BY <4>1 DEF BillingInv, IssuedIsPaid, WindowIsPaid, Final
      <4>3. QED BY <4>2, CoverageStep
    <3>2. CASE \E r \in Requests : reqs[r] \in ContractWrites /\ reqs[r].contract = c /\ Finalizes(reqs[r])
      BY <3>2, <2>1, CoverageStep
    <3>3. QED BY <1>2, <3>1, <3>2, RowStep
  <2>3. IssuedIsPaid' /\ WindowIsPaid'
    BY <2>2 DEF IssuedIsPaid, WindowIsPaid, Final
  <2>4. ASSUME NEW r \in Requests, reqs'[r] # NoReq, reqs'[r].on = "contract", Finalizes(reqs'[r])
        PROVE  \E c \in Contracts : c = reqs'[r].contract /\ Covered(c)'
    BY <1>2, <2>4, RequestStep, CoverageStep
  <2>5. PendingFinalIsPaid'
    BY <2>4 DEF PendingFinalIsPaid, Finalizes, Covered
  <2>6. QED BY <2>3, <2>5 DEF BillingInv
<1>3. QED BY <1>1, <1>2

(* The inductive invariant of the billing rules holds.                     *)
THEOREM BillingInvariant == BillingSpec => []BillingInv
BY TypeCorrect, BillingInit_Inv, BillingInv_Step, PTL DEF BillingSpec

(* Nothing is locked or issued unpaid, whatever stale checks the handlers  *)
(* of ContractController write on.                                         *)
THEOREM NothingIssuedUnpaid == BillingSpec => []IssuedIsPaid
<1>1. BillingInv => IssuedIsPaid
  BY DEF BillingInv
<1>2. QED BY <1>1, BillingInvariant, PTL

(* The scheduled job that issues expired contracts meets paid ones only.   *)
THEOREM ExpiryIsPaid == BillingSpec => []WindowIsPaid
<1>1. BillingInv => WindowIsPaid
  BY DEF BillingInv
<1>2. QED BY <1>1, BillingInvariant, PTL

-----------------------------------------------------------------------------
(* One receipt under way per contract.                                     *)

OneOpen(s) ==
    \A i, j \in DOMAIN s : s[i].status \in OpenReceipts /\ s[j].status \in OpenReceipts => i = j

(* With at most one receipt open, and none of them pending, replacing the  *)
(* newest that awaits clarification leaves none open.                      *)
LEMMA ReplacedClosesAll ==
    ASSUME NEW s \in Seq(PaymentRows), OneOpen(s),
           \A i \in DOMAIN s : s[i].status # "pending_verification"
    PROVE  \A i \in DOMAIN s : Replaced(s)[i].status \notin OpenReceipts
<1> TAKE i \in DOMAIN s
<1>1. CASE s[i].status = "needs_client_info"
  <2>1. \A j \in DOMAIN s : j > i => s[j].status # "needs_client_info"
    BY <1>1 DEF OneOpen, OpenReceipts
  <2>2. Replaced(s)[i] = [s[i] EXCEPT !.status = "replaced"]
    BY <1>1, <2>1 DEF Replaced
  <2>3. s[i] \in PaymentRows
    OBVIOUS
  <2>4. QED BY <2>2, <2>3 DEF PaymentRows, OpenReceipts
<1>2. CASE s[i].status # "needs_client_info"
  <2>1. Replaced(s)[i] = s[i]
    BY <1>2 DEF Replaced
  <2>2. QED BY <2>1, <1>2 DEF OpenReceipts
<1>3. QED BY <1>1, <1>2

(* A recorded payment is approved at once, so it opens nothing.            *)
LEMMA RecordedKeepsOne ==
    ASSUME BillingTypeOK, NEW c \in Contracts, NEW amount \in Amounts, NEW source \in Sources,
           OneOpen(payments[c])
    PROVE  OneOpen(Recorded(c, amount, "approved", source))
<1> DEFINE s == payments[c]
           t == Recorded(c, amount, "approved", source)
<1>1. s \in Seq(PaymentRows)
  BY Tables
<1>2. t = Append(s, [amount |-> amount, status |-> "approved", source |-> source])
  BY DEF Recorded
<1>3. DOMAIN t = 1..(Len(s) + 1) /\ DOMAIN s = 1..Len(s) /\ Len(s) \in Nat
  BY <1>1, <1>2
<1>4. \A i \in DOMAIN t : t[i].status \in OpenReceipts => i \in DOMAIN s /\ t[i] = s[i]
  <2>1. \A i \in DOMAIN t : i \in DOMAIN s \/ i = Len(s) + 1
    BY <1>3
  <2>2. t[Len(s) + 1].status = "approved"
    BY <1>1, <1>2
  <2>3. \A i \in DOMAIN s : t[i] = s[i]
    BY <1>1, <1>2
  <2>4. QED BY <2>1, <2>2, <2>3 DEF OpenReceipts
<1>5. QED BY <1>4 DEF OneOpen

LEMMA OneOpenStep == BillingTypeOK /\ OneOpenReceipt /\ [BillingNext]_billingVars => OneOpenReceipt'
<1> SUFFICES ASSUME BillingTypeOK, OneOpenReceipt, [BillingNext]_billingVars, NEW c \in Contracts
             PROVE  OneOpen(payments'[c])
  BY DEF OneOpenReceipt, OneOpen
<1>0. /\ payments \in [Contracts -> Seq(PaymentRows)]
      /\ \A d \in Contracts : payments[d] \in Seq(PaymentRows) /\ OneOpen(payments[d])
  BY DEF BillingTypeOK, OneOpenReceipt, OneOpen
<1>1. ASSUME payments'[c] = payments[c] PROVE OneOpen(payments'[c])
  BY <1>0, <1>1
<1>2. ASSUME NEW d \in Contracts, NEW amount \in Amounts, NEW source \in Sources,
             payments' = [payments EXCEPT ![d] = Recorded(d, amount, "approved", source)]
      PROVE  OneOpen(payments'[c])
  <2>1. CASE d # c BY <1>0, <1>1, <1>2, <2>1
  <2>2. CASE d = c
    <3>1. payments'[c] = Recorded(c, amount, "approved", source)
      BY <1>0, <1>2, <2>2
    <3>2. QED BY <1>0, <3>1, RecordedKeepsOne
  <2>3. QED BY <2>1, <2>2
<1>3. ASSUME NEW d \in Contracts, NEW i \in DOMAIN payments[d], NEW status \in PaymentStatuses,
             payments[d][i].status \in OpenReceipts \/ status \notin OpenReceipts,
             payments' = [payments EXCEPT ![d][i].status = status]
      PROVE  OneOpen(payments'[c])
  <2>1. payments' = [payments EXCEPT ![d] = [payments[d] EXCEPT ![i] = [payments[d][i] EXCEPT !.status = status]]]
    BY <1>3, ReviewedPayments
  <2>2. CASE d # c BY <1>0, <1>1, <2>1, <2>2
  <2>3. CASE d = c
    <3>1. payments'[c] = [payments[c] EXCEPT ![i] = [payments[c][i] EXCEPT !.status = status]]
      BY <1>0, <2>1, <2>3
    <3>2. payments[c][i] \in PaymentRows
      BY <1>0, <1>3, <2>3
    <3>3. DOMAIN payments'[c] = DOMAIN payments[c] /\ payments'[c][i].status = status
      BY <1>3, <2>3, <3>1, <3>2 DEF PaymentRows
    <3>4. \A j \in DOMAIN payments[c] : j # i => payments'[c][j] = payments[c][j]
      BY <3>1
    <3>5. \A j \in DOMAIN payments[c] :
            payments'[c][j].status \in OpenReceipts => payments[c][j].status \in OpenReceipts
      BY <1>3, <2>3, <3>3, <3>4
    <3>6. QED BY <1>0, <3>3, <3>5 DEF OneOpen
  <2>4. QED BY <2>2, <2>3
<1>4. ASSUME NEW d \in Contracts, UploadReceipt(d) PROVE OneOpen(payments'[c])
  <2>1. CASE d # c BY <1>0, <1>1, <1>4, <2>1 DEF UploadReceipt
  <2>2. CASE d = c
    <3> DEFINE s == payments[c]
               t == Replaced(s)
               receipt == [amount |-> Expected(contracts[c]), status |-> "pending_verification",
                           source |-> "receipt"]
    <3>1. payments'[c] = Append(t, receipt)
      BY <1>0, <1>4, <2>2 DEF UploadReceipt
    <3>2. t \in Seq(PaymentRows) /\ Len(t) = Len(s) /\ s \in Seq(PaymentRows)
      BY <1>0, ReplacedReceipts
    <3>3. \A i \in DOMAIN s : t[i].status \notin OpenReceipts
      BY <1>0, <1>4, <2>2, ReplacedClosesAll DEF UploadReceipt, NoReceiptPending
    <3>4. \A i \in DOMAIN payments'[c] : i = Len(s) + 1 \/ (i \in DOMAIN s /\ payments'[c][i] = t[i])
      BY <3>1, <3>2
    <3>5. QED BY <3>3, <3>4 DEF OneOpen
  <2>3. QED BY <2>1, <2>2
<1>5. ASSUME NEW d \in Contracts, ReceiptStep(d) PROVE OneOpen(payments'[c])
  <2>1. {"approved", "needs_client_info", "rejected"} \subseteq PaymentStatuses
    BY DEF PaymentStatuses
  <2>2. ASSUME NEW i \in DOMAIN payments[d], ApproveReceipt(d, i) PROVE OneOpen(payments'[c])
    BY <1>3, <2>1, <2>2 DEF ApproveReceipt, OpenReceipts
  <2>3. ASSUME NEW i \in DOMAIN payments[d], ClarifyReceipt(d, i) PROVE OneOpen(payments'[c])
    BY <1>3, <2>1, <2>3 DEF ClarifyReceipt, OpenReceipts
  <2>4. ASSUME NEW i \in DOMAIN payments[d], RejectReceipt(d, i) PROVE OneOpen(payments'[c])
    BY <1>3, <2>1, <2>4 DEF RejectReceipt
  <2>5. QED BY <1>4, <1>5, <2>2, <2>3, <2>4 DEF ReceiptStep
<1>6. ASSUME NEW d \in Contracts, OfficeStep(d) PROVE OneOpen(payments'[c])
  BY <1>6, <1>2 DEF OfficeStep, CollectManually, Sources
<1>7. ASSUME NEW d \in Contracts, NEW amount \in Amounts, SettleFromGateway(d, amount)
      PROVE  OneOpen(payments'[c])
  BY <1>7, <1>2 DEF SettleFromGateway, Sources
<1>8. ASSUME NEW r \in Requests, NEW d \in Contracts, ReadStep(r, d) PROVE OneOpen(payments'[c])
  BY <1>8, <1>1 DEF ReadStep, Submit, DeleteDraft, SharedUpdate, RevisionRequest, SetStatus,
     Waive, CreateVersion, Lock, Issue, Finalize, SelectExpired, ReviewConfirm, ReviewRevision, Plan, Begin
<1>9. ASSUME NEW r \in Requests, WriteStep(r) PROVE OneOpen(payments'[c])
  BY <1>9, <1>1 DEF WriteStep, Write, Abandon
<1>10. ASSUME NEW d \in Contracts, ReviewStep(d) \/ WindowEnds(d) \/ CheckoutStep(d)
       PROVE  OneOpen(payments'[c])
  BY <1>10, <1>1 DEF ReviewStep, ReviewStatus, ReviewCancel, ReviewDeliverable, WindowEnds,
     CheckoutStep, SelectReview, ClearReview, OpenBill
<1>11. CASE UNCHANGED billingVars
  BY <1>1, <1>11
<1>12. QED
  BY <1>5, <1>6, <1>7, <1>8, <1>9, <1>10, <1>11 DEF BillingNext, DeskNext

(* A client never has two receipts under way for one contract, even after  *)
(* a clarification, a rejection and a new upload.                          *)
THEOREM OneReceiptAtATime == BillingSpec => []OneOpenReceipt
<1>1. BillingInit => OneOpenReceipt
  BY DEF BillingInit, OneOpenReceipt
<1>2. QED BY <1>1, OneOpenStep, TypeCorrect, PTL DEF BillingSpec

-----------------------------------------------------------------------------
(* A settlement closes its bill.                                           *)

Approvals(s) == ApprovedBy(s, {"receipt", "gateway"})

LEMMA SettledIsNotBilled ==
    ASSUME NEW row \in ContractRows
    PROVE  ~Billed(Settled(row))
<1>1. ASSUME NEW r \in ContractRows, r.status # "pending_payment" PROVE Activated(r).status # "pending_payment"
  BY <1>1 DEF ContractRows, Activated
<1>2. /\ [row EXCEPT !.status = "client_review", !.window = "open"] \in ContractRows
      /\ [row EXCEPT !.status = "client_review", !.window = "open"].status = "client_review"
      /\ [row EXCEPT !.status = "pending_review"].status = "pending_review"
  BY DEF ContractRows, Statuses, Windows
<1>3. QED BY <1>1, <1>2 DEF Settled, Billed

(* What a step may do without approving a payment of certain sources:      *)
(* record one that is not approved or not of these, or review a receipt in *)
(* another way.                                                            *)
LEMMA AppendedApprovals ==
    ASSUME NEW s \in Seq(PaymentRows), NEW p \in PaymentRows, NEW src,
           p.status # "approved" \/ p.source \notin src
    PROVE  ApprovedBy(Append(s, p), src) = ApprovedBy(s, src)
<1> DEFINE t == Append(s, p)
<1>1. DOMAIN t = 1..(Len(s) + 1) /\ DOMAIN s = 1..Len(s) /\ Len(s) \in Nat
  OBVIOUS
<1>2. \A i \in DOMAIN s : t[i] = s[i]
  OBVIOUS
<1>3. t[Len(s) + 1] = p
  OBVIOUS
<1>4. \A i \in DOMAIN t : i \in DOMAIN s \/ i = Len(s) + 1
  BY <1>1
<1>5. \A i \in DOMAIN s : i \in DOMAIN t
  BY <1>1
<1>6. QED BY <1>2, <1>3, <1>4, <1>5 DEF ApprovedBy

LEMMA ReviewedApprovals ==
    ASSUME NEW s \in Seq(PaymentRows), NEW i \in DOMAIN s, s[i].status \in OpenReceipts,
           NEW status \in PaymentStatuses, status # "approved", NEW src
    PROVE  ApprovedBy([s EXCEPT ![i] = [s[i] EXCEPT !.status = status]], src) = ApprovedBy(s, src)
<1> DEFINE t == [s EXCEPT ![i] = [s[i] EXCEPT !.status = status]]
<1>1. DOMAIN t = DOMAIN s
  OBVIOUS
<1>2. \A j \in DOMAIN s : j # i => t[j] = s[j]
  OBVIOUS
<1>3. s[i] \in PaymentRows
  OBVIOUS
<1>4. t[i].status = status
  BY <1>3 DEF PaymentRows
<1>5. s[i].status # "approved"
  BY DEF OpenReceipts
<1>6. QED BY <1>1, <1>2, <1>4, <1>5 DEF ApprovedBy

LEMMA ReplacedApprovals ==
    ASSUME NEW s \in Seq(PaymentRows), NEW src
    PROVE  ApprovedBy(Replaced(s), src) = ApprovedBy(s, src)
<1>1. DOMAIN s = 1..Len(s) /\ DOMAIN Replaced(s) = DOMAIN s
  BY DEF Replaced
<1>2. ASSUME NEW i \in DOMAIN s
      PROVE  /\ Replaced(s)[i].source = s[i].source
             /\ Replaced(s)[i].status = "approved" <=> s[i].status = "approved"
  BY <1>1, ReplacedReceipts
<1>3. QED BY <1>1, <1>2 DEF ApprovedBy

LEMMA ClosingStep ==
    ASSUME BillingTypeOK, [BillingNext]_billingVars, NEW c \in Contracts
    PROVE  Approvals(payments'[c]) # Approvals(payments[c]) => Billed(contracts[c]) /\ ~Billed(contracts'[c])
<1> DEFINE G == Approvals(payments'[c]) # Approvals(payments[c])
                  => Billed(contracts[c]) /\ ~Billed(contracts'[c])
<1> SUFFICES G
  OBVIOUS
<1>0. /\ payments \in [Contracts -> Seq(PaymentRows)] /\ payments[c] \in Seq(PaymentRows)
      /\ contracts \in [Contracts -> ContractRows] /\ contracts[c] \in ContractRows
  BY DEF BillingTypeOK
<1>1. ASSUME payments'[c] = payments[c] PROVE G
  BY <1>1
<1>2. ASSUME NEW d \in Contracts, NEW s, payments' = [payments EXCEPT ![d] = s],
             d = c => Approvals(s) = Approvals(payments[c])
      PROVE  G
  <2>1. CASE d # c BY <1>0, <1>1, <1>2, <2>1
  <2>2. CASE d = c
    <3>1. payments'[c] = s
      BY <1>0, <1>2, <2>2
    <3>2. QED BY <1>2, <2>2, <3>1
  <2>3. QED BY <2>1, <2>2
<1>3. ASSUME NEW d \in Contracts, NEW s, payments' = [payments EXCEPT ![d] = s],
             Billed(contracts[d]), Update(d, Settled(contracts[d]))
      PROVE  G
  <2>1. CASE d # c BY <1>0, <1>1, <1>3, <2>1
  <2>2. CASE d = c
    <3>1. contracts'[c] = Settled(contracts[c])
      BY <1>0, <1>3, <2>2 DEF Update
    <3>2. QED BY <1>0, <1>3, <2>2, <3>1, SettledIsNotBilled
  <2>3. QED BY <2>1, <2>2
<1>4. ASSUME NEW d \in Contracts, UploadReceipt(d) PROVE G
  <2> DEFINE p == [amount |-> Expected(contracts[d]), status |-> "pending_verification", source |-> "receipt"]
             s == Append(Replaced(payments[d]), p)
  <2>1. payments[d] \in Seq(PaymentRows) /\ Replaced(payments[d]) \in Seq(PaymentRows)
    BY <1>0, ReplacedReceipts
  <2>2. p \in PaymentRows
    <3>1. Expected(contracts[d]) \in Amounts BY <1>0, RowRules
    <3>2. QED BY <3>1 DEF PaymentRows, PaymentStatuses, Sources
  <2>3. Approvals(s) = Approvals(payments[d])
    <3>1. Approvals(s) = Approvals(Replaced(payments[d]))
      BY <2>1, <2>2, AppendedApprovals DEF Approvals
    <3>2. QED BY <2>1, <3>1, ReplacedApprovals DEF Approvals
  <2>4. payments' = [payments EXCEPT ![d] = s]
    BY <1>4 DEF UploadReceipt
  <2> HIDE DEF s
  <2>5. QED BY <1>2, <2>3, <2>4
<1>5. ASSUME NEW d \in Contracts, NEW i \in DOMAIN payments[d], NEW status \in PaymentStatuses \ {"approved"},
             payments[d][i].status \in OpenReceipts, payments' = [payments EXCEPT ![d][i].status = status]
      PROVE  G
  <2> DEFINE s == [payments[d] EXCEPT ![i] = [payments[d][i] EXCEPT !.status = status]]
  <2>1. payments' = [payments EXCEPT ![d] = s]
    <3>1. status \in PaymentStatuses BY <1>5
    <3>2. [payments EXCEPT ![d][i].status = status] = [payments EXCEPT ![d] = s]
      BY <1>5, <3>1, ReviewedPayments
    <3>3. QED BY <1>5, <3>2
  <2>2. Approvals(s) = Approvals(payments[d])
    <3>1. payments[d] \in Seq(PaymentRows) BY <1>0
    <3>2. QED BY <1>5, <3>1, ReviewedApprovals DEF Approvals
  <2> HIDE DEF s
  <2>3. QED BY <1>2, <2>1, <2>2
<1>6. ASSUME NEW d \in Contracts, NEW i \in DOMAIN payments[d], ApproveReceipt(d, i) PROVE G
  <2>1. payments' = [payments EXCEPT ![d] = [payments[d] EXCEPT ![i] = [payments[d][i] EXCEPT !.status = "approved"]]]
    BY <1>6, ReviewedPayments DEF ApproveReceipt, PaymentStatuses
  <2>2. QED BY <1>3, <1>6, <2>1 DEF ApproveReceipt
<1>7. ASSUME NEW d \in Contracts, ReceiptStep(d) PROVE G
  <2>0. "needs_client_info" \in PaymentStatuses \ {"approved"} /\ "rejected" \in PaymentStatuses \ {"approved"}
    BY DEF PaymentStatuses
  <2>1. ASSUME NEW i \in DOMAIN payments[d], ClarifyReceipt(d, i) PROVE G
    <3>1. /\ payments[d][i].status \in OpenReceipts
          /\ payments' = [payments EXCEPT ![d][i].status = "needs_client_info"]
      BY <2>1 DEF ClarifyReceipt, OpenReceipts
    <3> HIDE DEF G
    <3>2. QED BY <1>5, <2>0, <3>1
  <2>2. ASSUME NEW i \in DOMAIN payments[d], RejectReceipt(d, i) PROVE G
    <3>1. /\ payments[d][i].status \in OpenReceipts
          /\ payments' = [payments EXCEPT ![d][i].status = "rejected"]
      BY <2>2 DEF RejectReceipt
    <3> HIDE DEF G
    <3>2. QED BY <1>5, <2>0, <3>1
  <2>3. QED BY <1>4, <1>6, <1>7, <2>1, <2>2 DEF ReceiptStep
<1>8. ASSUME NEW d \in Contracts, NEW amount \in Amounts, CollectManually(d, amount) PROVE G
  <2> DEFINE p == [amount |-> amount, status |-> "approved", source |-> "manual"]
             s == Append(payments[d], p)
  <2>1. p \in PaymentRows
    BY DEF PaymentRows, PaymentStatuses, Sources
  <2>2. Approvals(s) = Approvals(payments[d])
    BY <1>0, <2>1, AppendedApprovals DEF Approvals
  <2>3. payments' = [payments EXCEPT ![d] = s]
    BY <1>8 DEF CollectManually, Recorded
  <2> HIDE DEF s
  <2>4. QED BY <1>2, <2>2, <2>3
<1>9. ASSUME NEW d \in Contracts, NEW amount \in Amounts, SettleFromGateway(d, amount) PROVE G
  BY <1>3, <1>9 DEF SettleFromGateway
<1>10. CASE \E d \in Contracts : OfficeStep(d)
  BY <1>8, <1>10 DEF OfficeStep
<1>11. CASE \E r \in Requests, d \in Contracts : ReadStep(r, d)
  BY <1>11, <1>1 DEF ReadStep, Submit, DeleteDraft, SharedUpdate, RevisionRequest, SetStatus,
     Waive, CreateVersion, Lock, Issue, Finalize, SelectExpired, ReviewConfirm, ReviewRevision, Plan, Begin
<1>12. CASE \E r \in Requests : WriteStep(r)
  BY <1>12, <1>1 DEF WriteStep, Write, Abandon
<1>13. CASE \E d \in Contracts : ReviewStep(d) \/ WindowEnds(d) \/ CheckoutStep(d)
  BY <1>13, <1>1 DEF ReviewStep, ReviewStatus, ReviewCancel, ReviewDeliverable, WindowEnds,
     CheckoutStep, SelectReview, ClearReview, OpenBill
<1>14. CASE UNCHANGED billingVars
  BY <1>1, <1>14 DEF billingVars
<1>15. QED
  BY <1>7, <1>9, <1>10, <1>11, <1>12, <1>13, <1>14 DEF BillingNext, DeskNext

(* A receipt or a provider's payment is approved against an outstanding    *)
(* bill only, and closes it: nobody pays the same bill twice, and a late   *)
(* approval revives nothing.                                               *)
THEOREM NoBillPaidTwice == BillingSpec => SettlementClosesBill
<1>1. BillingTypeOK /\ [BillingNext]_billingVars
        => [\A c \in Contracts :
              ApprovedBy(payments'[c], {"receipt", "gateway"}) # ApprovedBy(payments[c], {"receipt", "gateway"})
              => Billed(contracts[c]) /\ ~Billed(contracts'[c])]_billingVars
  BY ClosingStep DEF Approvals
<1>2. QED BY <1>1, TypeCorrect, PTL DEF BillingSpec, SettlementClosesBill

-----------------------------------------------------------------------------
(* Contracts are paid contracts.                                           *)

(* Covered, of a row and its payments.                                     *)
Answered(row, s) ==
    \/ row.billing \in PrepaidModes
    \/ row.mode = "internal"
    \/ \E i \in DOMAIN s : s[i].status = "approved"

(* What a step may do to a row and its payments: move the contract, answer *)
(* for its price, or settle its bill.                                      *)
Moved(old, s, row, t) ==
    /\ Approvals(t) = Approvals(s)
    /\ Answered(row, t) <=> Answered(old, s)
    /\ Phase(old) = "deleted" => Phase(row) = "deleted"
    /\ Phase(row) = "final" => Phase(old) = "final" \/ Answered(old, s)

Provided(old, s, row, t) ==
    /\ Approvals(t) = Approvals(s)
    /\ Answered(row, t)
    /\ Phase(row) = IF Phase(old) = "billed" THEN "open" ELSE Phase(old)

SettledOnce(old, s, row, t) ==
    /\ Phase(old) = "billed" /\ Phase(row) = "open"
    /\ Answered(row, t)
    /\ \E n : n \notin Approvals(s) /\ Approvals(t) = Approvals(s) \cup {n}

BillTurn(old, s, row, t) ==
    Moved(old, s, row, t) \/ Provided(old, s, row, t) \/ SettledOnce(old, s, row, t)

LEMMA PhaseRange == \A row : Phase(row) \in {"open", "billed", "final", "deleted"}
BY DEF Phase

LEMMA PhaseOf ==
    ASSUME NEW row \in ContractRows
    PROVE  /\ Phase(row) = "deleted" <=> row.deleted
           /\ Phase(row) = "billed" <=> Billed(row)
           /\ Phase(row) = "final" <=> ~row.deleted /\ row.status \in Final
BY DEF ContractRows, Statuses, Phase, Billed, Final

(* Such a turn of one contract is a step of PaidContract, or none.         *)
LEMMA BillTurns ==
    ASSUME BillingTypeOK, NEW c \in Contracts, NEW row, NEW t,
           contracts' = [contracts EXCEPT ![c] = row],
           payments' = [payments EXCEPT ![c] = t],
           BillTurn(contracts[c], payments[c], row, t)
    PROVE  [Abstract!Next]_(Abstract!vars)
<1> DEFINE phase   == [d \in Contracts |-> Phase(contracts[d])]
           covered == [d \in Contracts |-> Covered(d)]
           settled == [d \in Contracts |-> ApprovedBy(payments[d], {"receipt", "gateway"})]
           old == contracts[c]
           s == payments[c]
<1>0. /\ contracts \in [Contracts -> ContractRows] /\ payments \in [Contracts -> Seq(PaymentRows)]
      /\ contracts'[c] = row /\ payments'[c] = t
      /\ \A d \in Contracts : d # c => contracts'[d] = contracts[d] /\ payments'[d] = payments[d]
  BY DEF BillingTypeOK
<1>1. phase' = [phase EXCEPT ![c] = Phase(row)]
  BY <1>0
<1>2. settled' = [settled EXCEPT ![c] = Approvals(t)]
  BY <1>0 DEF Approvals
<1>3. Covered(c) <=> Answered(old, s)
  BY DEF Covered, Answered
<1>4. Covered(c)' <=> Answered(row, t)
  BY <1>0 DEF Covered, Answered
<1>5. \A d \in Contracts : d # c => (Covered(d)' <=> Covered(d))
  BY <1>0 DEF Covered
<1> DEFINE now(d) == Covered(d)'
<1>b. \A d \in Contracts : Covered(d) \in BOOLEAN /\ now(d) \in BOOLEAN
  BY DEF Covered
<1>n. covered' = [d \in Contracts |-> now(d)]
  OBVIOUS
<1>6. ASSUME Answered(row, t) PROVE covered' = [covered EXCEPT ![c] = TRUE]
  <2>1. now(c) = TRUE
    BY <1>4, <1>6, <1>b
  <2>2. \A d \in Contracts : d # c => now(d) = Covered(d)
    BY <1>5, <1>b
  <2> HIDE DEF now
  <2>3. QED BY <1>n, <2>1, <2>2
<1>7. ASSUME Answered(row, t) <=> Answered(old, s) PROVE covered' = covered
  <2>1. \A d \in Contracts : now(d) = Covered(d)
    BY <1>3, <1>4, <1>5, <1>7, <1>b
  <2> HIDE DEF now
  <2>2. QED BY <1>n, <2>1
<1>8. phase[c] = Phase(old) /\ covered[c] = Covered(c) /\ settled[c] = Approvals(s)
  BY DEF Approvals
<1>9. CASE Moved(old, s, row, t)
  <2>1. settled' = settled
    BY <1>2, <1>8, <1>9 DEF Moved
  <2>2. covered' = covered
    BY <1>7, <1>9 DEF Moved
  <2>3. CASE Phase(row) = Phase(old)
    <3>1. phase' = phase BY <1>1, <1>8, <2>3
    <3>2. QED BY <2>1, <2>2, <3>1 DEF Abstract!vars
  <2>4. CASE Phase(row) = "deleted"
    <3>1. Abstract!Delete(c)
      BY <1>1, <1>8, <2>1, <2>2, <2>4, PhaseRange DEF Abstract!Delete, Abstract!Turns, Abstract!Phases
    <3>2. QED BY <3>1 DEF Abstract!Next
  <2>5. CASE Phase(old) # "deleted" /\ Phase(row) = "billed"
    <3>1. Abstract!Bill(c)
      BY <1>1, <1>8, <2>1, <2>2, <2>5, PhaseRange DEF Abstract!Bill, Abstract!Turns, Abstract!Phases
    <3>2. QED BY <3>1 DEF Abstract!Next
  <2>6. CASE Phase(old) # "deleted" /\ Phase(row) = "open"
    <3>1. Abstract!Reopen(c)
      BY <1>1, <1>8, <2>1, <2>2, <2>6, PhaseRange DEF Abstract!Reopen, Abstract!Turns, Abstract!Phases
    <3>2. QED BY <3>1 DEF Abstract!Next
  <2>7. CASE Phase(old) # "deleted" /\ Phase(row) = "final" /\ Answered(old, s)
    <3>1. covered[c]
      BY <1>3, <2>7
    <3>2. Abstract!Finish(c)
      BY <1>1, <1>8, <2>1, <2>2, <2>7, <3>1, PhaseRange DEF Abstract!Finish, Abstract!Turns, Abstract!Phases
    <3>3. QED BY <3>2 DEF Abstract!Next
  <2>8. QED BY <1>9, <2>3, <2>4, <2>5, <2>6, <2>7, PhaseRange DEF Moved
<1>10. CASE Provided(old, s, row, t)
  <2>1. settled' = settled
    BY <1>2, <1>8, <1>10 DEF Provided
  <2>2. covered' = [covered EXCEPT ![c] = TRUE]
    BY <1>6, <1>10 DEF Provided
  <2>3. Abstract!Provide(c)
    BY <1>1, <1>8, <1>10, <2>1, <2>2, PhaseRange
    DEF Provided, Abstract!Provide, Abstract!Turns, Abstract!Covers, Abstract!Phases
  <2>4. QED BY <2>3 DEF Abstract!Next
<1>11. CASE SettledOnce(old, s, row, t)
  <2>1. covered' = [covered EXCEPT ![c] = TRUE]
    BY <1>6, <1>11 DEF SettledOnce
  <2>2. PICK n : n \notin Approvals(s) /\ Approvals(t) = Approvals(s) \cup {n}
    BY <1>11 DEF SettledOnce
  <2>3. settled'[c] = Approvals(t)
    BY <1>0 DEF Approvals
  <2>4. n \in settled'[c] \ settled[c] /\ settled' = [settled EXCEPT ![c] = @ \cup {n}]
    BY <1>2, <1>8, <2>2, <2>3
  <2>5. Abstract!Settle(c)
    BY <1>1, <1>8, <1>11, <2>1, <2>4
    DEF SettledOnce, Abstract!Settle, Abstract!Turns, Abstract!Covers
  <2>6. QED BY <2>5 DEF Abstract!Next
<1>12. QED BY <1>9, <1>10, <1>11 DEF BillTurn

(* Whether a payment is approved, and of whom.                             *)
SameApprovals(s, t) ==
    /\ ApprovedBy(t, Sources) = ApprovedBy(s, Sources)
    /\ Approvals(t) = Approvals(s)

LEMMA ApprovedAtAll ==
    ASSUME NEW s \in Seq(PaymentRows)
    PROVE  (\E i \in DOMAIN s : s[i].status = "approved") <=> ApprovedBy(s, Sources) # {}
<1>1. \A i \in DOMAIN s : s[i] \in PaymentRows
  OBVIOUS
<1>2. \A i \in DOMAIN s : s[i].source \in Sources
  BY <1>1 DEF PaymentRows
<1>3. QED BY <1>2 DEF ApprovedBy

(* A rule that leaves the mode, the billing and a deletion as they are,    *)
(* with payments that are approved as before, moves the contract.          *)
SameBilling(old, row) ==
    /\ row \in ContractRows
    /\ row.mode = old.mode /\ row.billing = old.billing
    /\ old.deleted => row.deleted

LEMMA Moves ==
    ASSUME NEW old \in ContractRows, NEW row, NEW s \in Seq(PaymentRows), NEW t \in Seq(PaymentRows),
           SameBilling(old, row), SameApprovals(s, t),
           row.status \in Final => old.status \in Final \/ Answered(old, s)
    PROVE  Moved(old, s, row, t)
<1>1. Answered(row, t) <=> Answered(old, s)
  BY ApprovedAtAll DEF Answered, SameBilling, SameApprovals
<1>2. Phase(old) = "deleted" => Phase(row) = "deleted"
  BY PhaseOf DEF SameBilling
<1>3. Phase(row) = "final" => Phase(old) = "final" \/ Answered(old, s)
  BY PhaseOf DEF SameBilling
<1>4. QED BY <1>1, <1>2, <1>3 DEF Moved, SameApprovals

LEMMA SameBillingRules ==
    ASSUME NEW row \in ContractRows
    PROVE  /\ \A a \in BOOLEAN, v \in ReviewStatuses : SameBilling(row, [row EXCEPT !.addOn = a, !.review = v])
           /\ \A s \in Statuses : SameBilling(row, [row EXCEPT !.status = s])
                                  /\ [row EXCEPT !.status = s].status = s
           /\ \A s \in RequestStatuses : SameBilling(row, [row EXCEPT !.sr = s])
           /\ \A s \in RequestStatuses \ {"none"} : SameBilling(row, Synced(row, s))
           /\ SameBilling(row, [row EXCEPT !.deleted = TRUE])
           /\ \A w \in Windows : SameBilling(row, [row EXCEPT !.window = w])
<1>1. ASSUME NEW s \in RequestStatuses \ {"none"} PROVE SameBilling(row, Synced(row, s))
  <2>1. /\ Synced(row, s).mode = row.mode /\ Synced(row, s).billing = row.billing
        /\ Synced(row, s).deleted = row.deleted
    BY DEF Synced, ContractRows
  <2>2. QED BY <2>1, RowRules DEF SameBilling
<1>2. QED BY <1>1 DEF SameBilling, ContractRows

(* What a settlement makes of a billed contract, and what a waiver or a    *)
(* collection makes of any.                                                *)
LEMMA SettledOpens ==
    ASSUME NEW row \in ContractRows, Billed(row)
    PROVE  Phase(row) = "billed" /\ Phase(Settled(row)) = "open"
<1>1. Phase(row) = "billed" /\ ~row.deleted
  BY PhaseOf DEF Billed
<1>2. ASSUME NEW r \in ContractRows, ~r.deleted, r.status \in {"client_review", "pending_review"}
      PROVE  ~Activated(r).deleted /\ Activated(r).status \in {"client_review", "pending_review"}
  BY <1>2 DEF Activated, ContractRows
<1>3. LET paid == [row EXCEPT !.status = "client_review", !.window = "open"] IN
        paid \in ContractRows /\ ~paid.deleted /\ paid.status = "client_review"
  BY <1>1 DEF ContractRows, Statuses, Windows
<1>4. LET paid == [row EXCEPT !.status = "pending_review"] IN
        ~paid.deleted /\ paid.status = "pending_review"
  BY <1>1 DEF ContractRows
<1>5. ~Settled(row).deleted /\ Settled(row).status \in {"client_review", "pending_review"}
  BY <1>2, <1>3, <1>4 DEF Settled
<1>6. QED BY <1>1, <1>5, RowRules, PhaseOf, PhaseRange DEF Billed, Final

LEMMA ProvidedOpens ==
    ASSUME NEW row \in ContractRows, NEW new \in {Waived(row), Collected(row)}
    PROVE  /\ Phase(new) = IF Phase(row) = "billed" THEN "open" ELSE Phase(row)
           /\ new.billing \in PrepaidModes
<1>1. /\ new \in ContractRows /\ new.deleted = row.deleted /\ new.billing \in PrepaidModes
      /\ IF row.status = "pending_payment" THEN new.status \in {"client_review", "pending_review"}
         ELSE new.status = row.status
  <2>1. CASE new = Waived(row)
    BY <2>1, RowRules DEF Waived, ContractRows, PrepaidModes
  <2>2. CASE new = Collected(row)
    BY <2>2, RowRules DEF Collected, ContractRows, PrepaidModes
  <2>3. QED BY <2>1, <2>2
<1>2. QED BY <1>1, PhaseOf, PhaseRange DEF Billed, Final

(* A payment that becomes approved is one settlement, if it is not the     *)
(* office's own, and answers for the price.                                *)
LEMMA ApprovedNow ==
    ASSUME NEW s \in Seq(PaymentRows), NEW t \in Seq(PaymentRows), NEW n \in DOMAIN t,
           n \in DOMAIN s => s[n].status # "approved",
           t[n].status = "approved", t[n].source \in Sources,
           \A i : i # n => (i \in DOMAIN t <=> i \in DOMAIN s) /\ (i \in DOMAIN s => t[i] = s[i])
    PROVE  /\ \A row : Answered(row, t)
           /\ \/ Approvals(t) = Approvals(s)
              \/ n \notin Approvals(s) /\ Approvals(t) = Approvals(s) \cup {n}
<1>1. \A row : Answered(row, t)
  BY DEF Answered
<1>2. n \notin Approvals(s)
  BY DEF Approvals, ApprovedBy
<1>3. \A i : i # n => (i \in Approvals(t) <=> i \in Approvals(s))
  BY DEF Approvals, ApprovedBy
<1> HIDE DEF Approvals
<1>4. n \in Approvals(t) => Approvals(t) = Approvals(s) \cup {n}
  BY <1>3
<1>5. ASSUME n \notin Approvals(t) PROVE Approvals(t) = Approvals(s)
  <2>1. \A i : i \in Approvals(t) <=> i \in Approvals(s)
    BY <1>2, <1>3, <1>5
  <2>2. QED BY <2>1
<1>6. QED BY <1>1, <1>2, <1>4, <1>5

(* Approving a payment of an open bill is a turn of the contract.          *)
LEMMA ApprovalTurns ==
    ASSUME NEW row \in ContractRows, Billed(row),
           NEW s \in Seq(PaymentRows), NEW t \in Seq(PaymentRows), NEW n \in DOMAIN t,
           n \in DOMAIN s => s[n].status # "approved",
           t[n].status = "approved", t[n].source \in Sources,
           \A i : i # n => (i \in DOMAIN t <=> i \in DOMAIN s) /\ (i \in DOMAIN s => t[i] = s[i])
    PROVE  BillTurn(row, s, Settled(row), t)
<1>1. Phase(row) = "billed" /\ Phase(Settled(row)) = "open"
  BY SettledOpens
<1>2. /\ Answered(Settled(row), t)
      /\ \/ Approvals(t) = Approvals(s)
         \/ n \notin Approvals(s) /\ Approvals(t) = Approvals(s) \cup {n}
  BY ApprovedNow
<1>3. QED BY <1>1, <1>2 DEF BillTurn, Provided, SettledOnce

(* Recording a payment, and approving one, leave the others as they are.   *)
LEMMA RecordedRow ==
    ASSUME NEW s \in Seq(PaymentRows), NEW p \in PaymentRows
    PROVE  LET t == Append(s, p)  n == Len(s) + 1 IN
           /\ t \in Seq(PaymentRows) /\ n \in DOMAIN t /\ n \notin DOMAIN s /\ t[n] = p
           /\ \A i : i # n => (i \in DOMAIN t <=> i \in DOMAIN s) /\ (i \in DOMAIN s => t[i] = s[i])
<1> DEFINE t == Append(s, p)
           n == Len(s) + 1
<1>1. t \in Seq(PaymentRows) /\ DOMAIN t = 1..n /\ DOMAIN s = 1..Len(s) /\ Len(s) \in Nat /\ t[n] = p
  OBVIOUS
<1>2. \A i \in DOMAIN s : t[i] = s[i]
  OBVIOUS
<1>3. DOMAIN t = DOMAIN s \cup {n} /\ n \notin DOMAIN s /\ n \in DOMAIN t
  BY <1>1
<1>4. QED BY <1>1, <1>2, <1>3

LEMMA ApprovedRow ==
    ASSUME NEW s \in Seq(PaymentRows), NEW n \in DOMAIN s
    PROVE  LET t == [s EXCEPT ![n] = [s[n] EXCEPT !.status = "approved"]] IN
           /\ t \in Seq(PaymentRows) /\ n \in DOMAIN t
           /\ t[n].status = "approved" /\ t[n].source \in Sources
           /\ \A i : i # n => (i \in DOMAIN t <=> i \in DOMAIN s) /\ (i \in DOMAIN s => t[i] = s[i])
<1> DEFINE p == [s[n] EXCEPT !.status = "approved"]
           t == [s EXCEPT ![n] = p]
<1>1. s[n] \in PaymentRows
  OBVIOUS
<1>2. p \in PaymentRows /\ p.status = "approved" /\ p.source \in Sources
  BY <1>1 DEF PaymentRows, PaymentStatuses
<1> HIDE DEF p
<1>3. t \in Seq(PaymentRows) /\ DOMAIN t = DOMAIN s /\ t[n] = p
  BY <1>2
<1>4. \A i \in DOMAIN s : i # n => t[i] = s[i]
  OBVIOUS
<1>5. QED BY <1>2, <1>3, <1>4 DEF p

(* Every step changes one contract, by such a turn, or none.               *)
LEMMA PaidContractStep ==
    ASSUME BillingTypeOK, BillingInv, BillingNext
    PROVE  [Abstract!Next]_(Abstract!vars)
<1> DEFINE G == [Abstract!Next]_(Abstract!vars)
<1> SUFFICES G
  OBVIOUS
<1>0. /\ contracts \in [Contracts -> ContractRows] /\ payments \in [Contracts -> Seq(PaymentRows)]
      /\ \A c \in Contracts : contracts[c] \in ContractRows /\ payments[c] \in Seq(PaymentRows)
      /\ reqs \in [Requests -> ContractWrites \cup ReviewWrites \cup {NoReq}]
  BY DEF BillingTypeOK
<1>1. CASE UNCHANGED <<contracts, payments>>
  BY <1>1 DEF Abstract!vars, Phase, Covered, ApprovedBy
<1>2. ASSUME NEW c \in Contracts, NEW row, NEW t, Update(c, row),
             payments' = [payments EXCEPT ![c] = t], BillTurn(contracts[c], payments[c], row, t)
      PROVE  G
  BY <1>2, BillTurns DEF Update
<1> HIDE DEF G
<1>3. ASSUME NEW c \in Contracts, NEW row, Update(c, row), UNCHANGED payments,
             SameBilling(contracts[c], row),
             row.status \in Final => contracts[c].status \in Final \/ Covered(c)
      PROVE  G
  <2>1. payments' = [payments EXCEPT ![c] = payments[c]]
    BY <1>0, <1>3
  <2>2. SameApprovals(payments[c], payments[c])
    BY DEF SameApprovals
  <2>3. Covered(c) => Answered(contracts[c], payments[c])
    BY DEF Covered, Answered
  <2>4. Moved(contracts[c], payments[c], row, payments[c])
    BY <1>0, <1>3, <2>2, <2>3, Moves
  <2>5. QED BY <1>2, <1>3, <2>1, <2>4 DEF BillTurn
<1>4. ASSUME NEW c \in Contracts, NEW t \in Seq(PaymentRows), UNCHANGED contracts,
             payments' = [payments EXCEPT ![c] = t], SameApprovals(payments[c], t)
      PROVE  G
  <2>1. Update(c, contracts[c])
    BY <1>0, <1>4 DEF Update
  <2>2. SameBilling(contracts[c], contracts[c])
    BY <1>0 DEF SameBilling
  <2>3. Moved(contracts[c], payments[c], contracts[c], t)
    BY <1>0, <1>4, <2>2, Moves
  <2>4. QED BY <1>2, <1>4, <2>1, <2>3 DEF BillTurn
<1>5. ASSUME NEW c \in Contracts, CheckoutStep(c) PROVE G
  <2>1. {"awaiting_payment", "none"} \subseteq ReviewStatuses /\ "pending_payment" \in Statuses \ Final
    BY DEF ReviewStatuses, Statuses, Final
  <2>2. \A a \in BOOLEAN, v \in ReviewStatuses :
          [contracts[c] EXCEPT !.addOn = a, !.review = v].status = contracts[c].status
    BY <1>0 DEF ContractRows
  <2>3. CASE SelectReview(c)
    BY <1>0, <1>3, <2>1, <2>2, <2>3, SameBillingRules DEF SelectReview
  <2>4. CASE ClearReview(c)
    BY <1>0, <1>3, <2>1, <2>2, <2>4, SameBillingRules DEF ClearReview
  <2>5. CASE OpenBill(c)
    BY <1>0, <1>3, <2>1, <2>5, SameBillingRules DEF OpenBill
  <2>6. QED BY <1>5, <2>3, <2>4, <2>5 DEF CheckoutStep
<1>6. ASSUME NEW c \in Contracts, UploadReceipt(c) PROVE G
  <2> DEFINE p == [amount |-> Expected(contracts[c]), status |-> "pending_verification", source |-> "receipt"]
             t == Append(Replaced(payments[c]), p)
             row == [contracts[c] EXCEPT !.status = "pending_payment"]
  <2>1. payments[c] \in Seq(PaymentRows) /\ Replaced(payments[c]) \in Seq(PaymentRows)
    BY <1>0, ReplacedReceipts
  <2>2. p \in PaymentRows /\ p.status # "approved"
    BY <1>0, RowRules DEF PaymentRows, PaymentStatuses, Sources
  <2>3. payments' = [payments EXCEPT ![c] = t] /\ Update(c, row)
    BY <1>6 DEF UploadReceipt
  <2> HIDE DEF p
  <2>4. t \in Seq(PaymentRows)
    BY <2>1, <2>2
  <2>5. SameApprovals(payments[c], t)
    BY <2>1, <2>2, AppendedApprovals, ReplacedApprovals DEF SameApprovals, Approvals
  <2> HIDE DEF t
  <2>6. SameBilling(contracts[c], row) /\ row.status \notin Final
    BY <1>0, SameBillingRules DEF Statuses, Final
  <2> HIDE DEF row
  <2>7. Moved(contracts[c], payments[c], row, t)
    BY <1>0, <2>4, <2>5, <2>6, Moves
  <2>8. QED BY <1>2, <2>3, <2>7 DEF BillTurn
<1>7. ASSUME NEW c \in Contracts, NEW i \in DOMAIN payments[c], ApproveReceipt(c, i) PROVE G
  <2> DEFINE t == [payments[c] EXCEPT ![i] = [payments[c][i] EXCEPT !.status = "approved"]]
  <2>1. payments' = [payments EXCEPT ![c] = t]
    BY <1>7, ReviewedPayments DEF ApproveReceipt, PaymentStatuses
  <2>2. /\ t \in Seq(PaymentRows) /\ i \in DOMAIN t
        /\ t[i].status = "approved" /\ t[i].source \in Sources
        /\ \A j : j # i => /\ j \in DOMAIN t <=> j \in DOMAIN payments[c]
                           /\ j \in DOMAIN payments[c] => t[j] = payments[c][j]
    BY <1>0, ApprovedRow
  <2>3. payments[c][i].status # "approved" /\ Billed(contracts[c]) /\ Update(c, Settled(contracts[c]))
    BY <1>7 DEF ApproveReceipt
  <2> HIDE DEF t
  <2>4. BillTurn(contracts[c], payments[c], Settled(contracts[c]), t)
    BY <1>0, <2>2, <2>3, ApprovalTurns
  <2>5. QED BY <1>2, <2>1, <2>3, <2>4
<1>8. ASSUME NEW c \in Contracts, NEW i \in DOMAIN payments[c], NEW status \in PaymentStatuses \ {"approved"},
             payments[c][i].status \in OpenReceipts, UNCHANGED contracts,
             payments' = [payments EXCEPT ![c][i].status = status]
      PROVE  G
  <2> DEFINE t == [payments[c] EXCEPT ![i] = [payments[c][i] EXCEPT !.status = status]]
  <2>1. payments' = [payments EXCEPT ![c] = t]
    <3>1. status \in PaymentStatuses
      OBVIOUS
    <3>2. [payments EXCEPT ![c][i].status = status] = [payments EXCEPT ![c] = t]
      BY <3>1, ReviewedPayments
    <3>3. QED BY <1>8, <3>2
  <2>2. t \in Seq(PaymentRows)
    <3>1. payments[c][i] \in PaymentRows
      BY <1>0
    <3>2. [payments[c][i] EXCEPT !.status = status] \in PaymentRows
      BY <3>1 DEF PaymentRows
    <3>3. QED BY <1>0, <3>2
  <2>3. SameApprovals(payments[c], t)
    <3>1. payments[c] \in Seq(PaymentRows) /\ status \in PaymentStatuses /\ status # "approved"
      BY <1>0
    <3>2. \A src : ApprovedBy(t, src) = ApprovedBy(payments[c], src)
      BY <1>8, <3>1, ReviewedApprovals
    <3>3. QED BY <3>2 DEF SameApprovals, Approvals
  <2> HIDE DEF t
  <2>4. QED BY <1>4, <1>8, <2>1, <2>2, <2>3
<1>9. ASSUME NEW c \in Contracts, ReceiptStep(c) PROVE G
  <2>1. {"needs_client_info", "rejected"} \subseteq PaymentStatuses \ {"approved"}
    BY DEF PaymentStatuses
  <2>2. ASSUME NEW i \in DOMAIN payments[c], ClarifyReceipt(c, i) PROVE G
    BY <1>8, <2>1, <2>2 DEF ClarifyReceipt, OpenReceipts
  <2>3. ASSUME NEW i \in DOMAIN payments[c], RejectReceipt(c, i) PROVE G
    BY <1>8, <2>1, <2>3 DEF RejectReceipt
  <2>4. QED BY <1>6, <1>7, <1>9, <2>2, <2>3 DEF ReceiptStep
<1>10. ASSUME NEW c \in Contracts, OfficeStep(c) PROVE G
  <2>1. ASSUME NEW amount \in Amounts, CollectManually(c, amount) PROVE G
    <3> DEFINE p == [amount |-> amount, status |-> "approved", source |-> "manual"]
               t == Append(payments[c], p)
    <3>1. Update(c, Collected(contracts[c])) /\ payments' = [payments EXCEPT ![c] = t]
      BY <2>1 DEF CollectManually, Recorded
    <3>2. p \in PaymentRows /\ p.source = "manual"
      BY DEF PaymentRows, PaymentStatuses, Sources
    <3>3. Approvals(t) = Approvals(payments[c])
      BY <1>0, <3>2, AppendedApprovals DEF Approvals
    <3> HIDE DEF t
    <3>4. Provided(contracts[c], payments[c], Collected(contracts[c]), t)
      BY <1>0, <3>3, ProvidedOpens DEF Provided, Answered
    <3>5. QED BY <1>2, <3>1, <3>4 DEF BillTurn
  <2>2. QED BY <1>10, <2>1 DEF OfficeStep
<1>11. ASSUME NEW c \in Contracts, NEW amount \in Amounts, SettleFromGateway(c, amount) PROVE G
  <2> DEFINE p == [amount |-> amount, status |-> "approved", source |-> "gateway"]
             t == Append(payments[c], p)
             n == Len(payments[c]) + 1
  <2>1. /\ Billed(contracts[c]) /\ Update(c, Settled(contracts[c]))
        /\ payments' = [payments EXCEPT ![c] = t]
    BY <1>11 DEF SettleFromGateway, Recorded
  <2>2. p \in PaymentRows /\ p.status = "approved" /\ p.source \in Sources
    BY DEF PaymentRows, PaymentStatuses, Sources
  <2> HIDE DEF p
  <2>3. /\ t \in Seq(PaymentRows) /\ n \in DOMAIN t /\ n \notin DOMAIN payments[c] /\ t[n] = p
        /\ \A j : j # n => /\ j \in DOMAIN t <=> j \in DOMAIN payments[c]
                           /\ j \in DOMAIN payments[c] => t[j] = payments[c][j]
    BY <1>0, <2>2, RecordedRow
  <2> HIDE DEF t, n
  <2>4. BillTurn(contracts[c], payments[c], Settled(contracts[c]), t)
    BY <1>0, <2>1, <2>2, <2>3, ApprovalTurns
  <2>5. QED BY <1>2, <2>1, <2>4
<1>12. ASSUME NEW r \in Requests, NEW c \in Contracts, ReadStep(r, c) PROVE G
  <2>1. UNCHANGED <<contracts, payments>>
    BY <1>12 DEF ReadStep, Submit, DeleteDraft, SharedUpdate, RevisionRequest, SetStatus,
       Waive, CreateVersion, Lock, Issue, Finalize, SelectExpired, ReviewConfirm, ReviewRevision, Plan, Begin
  <2>2. QED BY <1>1, <2>1
<1>13. ASSUME NEW r \in Requests, Write(r) PROVE G
  <2> DEFINE c == reqs[r].contract
             row == Written(contracts[c], reqs[r])
  <2>1. reqs[r] \in ContractWrites \cup ReviewWrites /\ c \in Contracts
    BY <1>0, <1>13 DEF Write, ContractWrites, ReviewWrites
  <2>2. Update(c, row) /\ UNCHANGED payments
    BY <1>13 DEF Write
  <2>3. CASE reqs[r] \in ReviewWrites
    <3>1. /\ reqs[r].on = "review" /\ reqs[r].write \in RequestStatuses
          /\ reqs[r].write # "deletion" /\ reqs[r].write # "expiry" /\ reqs[r].write # "waiver"
      BY <2>3 DEF ReviewWrites, RequestStatuses
    <3>2. row = [contracts[c] EXCEPT !.sr = reqs[r].write]
      BY ONLY <3>1, Zenon DEF Written
    <3>3. SameBilling(contracts[c], [contracts[c] EXCEPT !.sr = reqs[r].write])
      BY <1>0, <2>1, <3>1, SameBillingRules
    <3>4. [contracts[c] EXCEPT !.sr = reqs[r].write].status = contracts[c].status
      BY <1>0, <2>1 DEF ContractRows
    <3> HIDE DEF row, c
    <3>5. QED BY <1>3, <2>1, <2>2, <3>2, <3>3, <3>4
  <2>4. CASE reqs[r] \in ContractWrites
    <3>1. /\ reqs[r].on = "contract" /\ reqs[r].write \in Statuses \cup {"deletion", "expiry", "waiver"}
          /\ "deletion" \notin Statuses /\ "expiry" \notin Statuses /\ "waiver" \notin Statuses
          /\ "issued" \in Statuses
      BY <2>4 DEF ContractWrites, Writes, Statuses
    <3>2. reqs[r] # NoReq /\ (Finalizes(reqs[r]) => Covered(c))
      <4>1. reqs[r] # NoReq
        BY <1>13 DEF Write
      <4>2. QED BY <3>1, <4>1 DEF BillingInv, PendingFinalIsPaid, Finalizes
    <3>3. CASE reqs[r].write = "deletion"
      <4>1. row = [contracts[c] EXCEPT !.deleted = TRUE]
        BY <3>1, <3>3 DEF Written
      <4>2. SameBilling(contracts[c], row) /\ row.status = contracts[c].status
        BY <1>0, <2>1, <4>1, SameBillingRules DEF ContractRows
      <4>3. QED BY <1>3, <2>1, <2>2, <4>2
    <3>4. CASE reqs[r].write = "expiry"
      <4>1. row = contracts[c] \/ row = [contracts[c] EXCEPT !.status = "issued"]
        BY <3>1, <3>4 DEF Written
      <4>2. SameBilling(contracts[c], row)
        <5>1. SameBilling(contracts[c], contracts[c])
          BY <1>0, <2>1 DEF SameBilling
        <5>2. SameBilling(contracts[c], [contracts[c] EXCEPT !.status = "issued"])
          BY <1>0, <2>1, <3>1, SameBillingRules
        <5>3. QED BY <4>1, <5>1, <5>2
      <4>3. Covered(c)
        BY <3>2, <3>4 DEF Finalizes, FinalWrites
      <4>4. QED BY <1>3, <2>1, <2>2, <4>2, <4>3
    <3>5. CASE reqs[r].write \in Statuses
      <4>1. row = [contracts[c] EXCEPT !.status = reqs[r].write]
        BY <3>1, <3>5 DEF Written
      <4>2. SameBilling(contracts[c], row) /\ row.status = reqs[r].write
        BY <1>0, <2>1, <3>5, <4>1, SameBillingRules
      <4>3. row.status \in Final => Covered(c)
        BY <3>2, <4>2 DEF Final, Finalizes, FinalWrites
      <4>4. QED BY <1>3, <2>1, <2>2, <4>2, <4>3
    <3>6. CASE reqs[r].write = "waiver"
      <4>1. row = Waived(contracts[c])
        BY <3>1, <3>6 DEF Written
      <4>2. payments' = [payments EXCEPT ![c] = payments[c]]
        BY <1>0, <2>1, <2>2
      <4>3. Provided(contracts[c], payments[c], Waived(contracts[c]), payments[c])
        BY <1>0, <2>1, ProvidedOpens DEF Provided, Answered
      <4> HIDE DEF row, c
      <4>4. QED BY <1>2, <2>1, <2>2, <4>1, <4>2, <4>3 DEF BillTurn
    <3>7. QED BY <3>1, <3>3, <3>4, <3>5, <3>6
  <2>5. QED BY <2>1, <2>3, <2>4
<1>14. ASSUME NEW r \in Requests, WriteStep(r) PROVE G
  BY <1>1, <1>13, <1>14 DEF WriteStep, Abandon
<1>15. ASSUME NEW c \in Contracts, NEW s \in RequestStatuses \ {"none"},
              Update(c, Synced(contracts[c], s)), UNCHANGED payments
       PROVE  G
  <2>1. SameBilling(contracts[c], Synced(contracts[c], s))
    BY <1>0, SameBillingRules
  <2>2. Synced(contracts[c], s).status \in Final => contracts[c].status \in Final
    BY <1>0, RuleEffects DEF Unopened, Kept
  <2>3. QED BY <1>3, <1>15, <2>1, <2>2
<1>16. ASSUME NEW c \in Contracts, ReviewStep(c) PROVE G
  <2>1. ASSUME NEW to \in RequestStatuses, ReviewStatus(c, to) PROVE G
    <3>1. to \in RequestStatuses \ {"none"}
      BY <1>0, <2>1, ReviewMovesRange DEF ReviewStatus, ContractRows
    <3>2. QED BY <1>15, <2>1, <3>1 DEF ReviewStatus
  <2>2. CASE ReviewCancel(c)
    BY <1>15, <2>2 DEF ReviewCancel, RequestStatuses
  <2>3. CASE ReviewDeliverable(c)
    <3>1. LET row == [contracts[c] EXCEPT !.sr = "client_review"] IN
            SameBilling(contracts[c], row) /\ row.status = contracts[c].status
      BY <1>0, SameBillingRules DEF ContractRows, RequestStatuses
    <3>2. QED BY <1>3, <2>3, <3>1 DEF ReviewDeliverable
  <2>4. QED BY <1>16, <2>1, <2>2, <2>3 DEF ReviewStep
<1>17. ASSUME NEW c \in Contracts, WindowEnds(c) PROVE G
  <2>1. LET row == [contracts[c] EXCEPT !.window = "closed"] IN
          SameBilling(contracts[c], row) /\ row.status = contracts[c].status
    BY <1>0, SameBillingRules DEF ContractRows, Windows
  <2>2. QED BY <1>3, <1>17, <2>1 DEF WindowEnds
<1>18. QED
  BY <1>5, <1>9, <1>10, <1>11, <1>12, <1>14, <1>16, <1>17 DEF BillingNext, DeskNext

(* Contracts are paid contracts (PaymentController, ContractController,    *)
(* PaymentGatewayService): however receipts, notifications, waivers and    *)
(* stale writes interleave, a settlement is of an open bill and closes it, *)
(* a deleted contract is neither settled nor made final (a late waiver may *)
(* still answer for it), and what is made final is and stays covered.      *)
THEOREM ContractsArePaidContracts == BillingSpec => ImplementsPaidContract
<1>1. BillingInit => Abstract!Init
  <2> SUFFICES ASSUME BillingInit PROVE Abstract!Init
    OBVIOUS
  <2>1. \A c \in Contracts : Phase(contracts[c]) = "open"
    BY DEF BillingInit, Drafts, Phase
  <2>2. \A c \in Contracts : ApprovedBy(payments[c], {"receipt", "gateway"}) = {}
    <3>1. \A c \in Contracts : payments[c] = <<>>
      BY DEF BillingInit
    <3>2. ApprovedBy(<<>>, {"receipt", "gateway"}) = {}
      BY DEF ApprovedBy
    <3>3. QED BY <3>1, <3>2
  <2>3. \A c \in Contracts : Covered(c) \in BOOLEAN
    BY DEF Covered
  <2>4. QED BY <2>1, <2>2, <2>3 DEF Abstract!Init
<1>2. BillingTypeOK /\ BillingInv /\ [BillingNext]_billingVars => [Abstract!Next]_(Abstract!vars)
  <2> SUFFICES ASSUME BillingTypeOK, BillingInv, [BillingNext]_billingVars
               PROVE  [Abstract!Next]_(Abstract!vars)
    OBVIOUS
  <2>1. CASE UNCHANGED billingVars
    BY <2>1 DEF Abstract!vars, Phase, Covered, ApprovedBy
  <2>2. QED BY <2>1, PaidContractStep
<1>3. QED BY <1>1, <1>2, TypeCorrect, BillingInvariant, PTL
    DEF BillingSpec, ImplementsPaidContract, Abstract!Spec

=============================================================================
