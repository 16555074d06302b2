----------------------- MODULE ContractCheckout_proofs -----------------------
(***************************************************************************)
(* Online payment of contracts implements both of its parts, for every set *)
(* of contracts, providers and overlapping calls: the payment gateway and  *)
(* the billing rules.  What is proved of either holds of the composition.  *)
(*                                                                         *)
(* The composition adds what the attempts of a contract say about it: an   *)
(* attempt marked paid has its approved payment, and a contract with an    *)
(* attempt is no longer a draft.  With one checkout at a time, a provider  *)
(* holds one payable attempt of a contract.                                *)
(***************************************************************************)
EXTENDS ContractCheckout, ContractBilling_proofs

(* The lemmas of the gateway, read with contracts for targets.             *)
GatewayProofs == INSTANCE PaymentGateway_proofs WITH Targets <- Contracts, Dues <- Amounts

LEMMA SameGateway ==
    /\ GatewayProofs!GatewayInit <=> Gateway!GatewayInit
    /\ GatewayProofs!GatewayNext <=> Gateway!GatewayNext
    /\ GatewayProofs!GatewayTypeOK <=> Gateway!GatewayTypeOK
<1> USE DEF GatewayProofs!Keys, GatewayProofs!KeyOf, GatewayProofs!Idle, GatewayProofs!AttemptStatuses,
        GatewayProofs!CallRows, GatewayProofs!CallSteps, GatewayProofs!ActiveStatuses,
        GatewayProofs!ClosedStatuses, GatewayProofs!Active,
        Gateway!Keys, Gateway!KeyOf, Gateway!Idle, Gateway!AttemptStatuses, Gateway!CallRows,
        Gateway!CallSteps, Gateway!ActiveStatuses, Gateway!ClosedStatuses, Gateway!Active
<1>1. GatewayProofs!GatewayInit <=> Gateway!GatewayInit
  BY DEF GatewayProofs!GatewayInit, Gateway!GatewayInit
<1>2. GatewayProofs!GatewayNext <=> Gateway!GatewayNext
  BY DEF GatewayProofs!GatewayNext, GatewayProofs!StartCheckout, GatewayProofs!ReadTarget,
     GatewayProofs!EndCall, GatewayProofs!OpenAttempt, GatewayProofs!RecordSession,
     GatewayProofs!RecordProviderError, GatewayProofs!WebhookFailure, GatewayProofs!WebhookSuccess,
     GatewayProofs!OpenAttempts, GatewayProofs!OpenedAttempt, GatewayProofs!Superseded,
     GatewayProofs!Settleable,
     Gateway!GatewayNext, Gateway!StartCheckout, Gateway!ReadTarget, Gateway!EndCall,
     Gateway!OpenAttempt, Gateway!RecordSession, Gateway!RecordProviderError,
     Gateway!WebhookFailure, Gateway!WebhookSuccess, Gateway!OpenAttempts,
     Gateway!OpenedAttempt, Gateway!Superseded, Gateway!Settleable
<1>3. GatewayProofs!GatewayTypeOK <=> Gateway!GatewayTypeOK
  BY DEF GatewayProofs!GatewayTypeOK, Gateway!GatewayTypeOK
<1>4. QED BY <1>1, <1>2, <1>3

(* A checkout past its first step knows the contract it is for.            *)
LEMMA CallTarget ==
    ASSUME Gateway!GatewayTypeOK, NEW c \in Calls, calls[c].at \in {"target", "attempt"}
    PROVE  calls[c].target \in Contracts
<1>1. calls[c] \in Gateway!CallRows
  BY DEF Gateway!GatewayTypeOK
<1>2. calls[c].target \in Contracts \cup {None}
  BY <1>1 DEF Gateway!CallRows
<1>3. CASE calls[c].at = "target"
  BY <1>2, <1>3 DEF Gateway!GatewayTypeOK
<1>4. CASE calls[c].at = "attempt"
  BY <1>4 DEF Gateway!GatewayTypeOK, Gateway!KeyOf, Gateway!Keys
<1>5. QED BY <1>3, <1>4

(* A step of the composition is one of the gateway, or nothing to it, ...  *)
LEMMA CheckoutStepIsGateway == CheckoutTypeOK /\ [Next]_vars => [Gateway!GatewayNext]_gateVars
<1> SUFFICES ASSUME CheckoutTypeOK, [Next]_vars PROVE [Gateway!GatewayNext]_gateVars
  OBVIOUS
<1>1. ASSUME NEW c \in Calls, NEW p \in Providers, NEW t \in Contracts, BeginCheckout(c, p, t)
      PROVE  Gateway!GatewayNext
  BY <1>1 DEF BeginCheckout, Gateway!GatewayNext
<1>2. ASSUME NEW c \in Calls, ReadDue(c) PROVE Gateway!GatewayNext
  <2>1. calls[c].target \in Contracts
    BY <1>2, CallTarget DEF ReadDue, CheckoutTypeOK
  <2>2. Expected(contracts[calls[c].target]) \in Amounts
    BY <2>1, Tables, RowRules DEF CheckoutTypeOK
  <2>3. QED BY <1>2, <2>2 DEF ReadDue, Gateway!GatewayNext
<1>3. ASSUME NEW c \in Calls, OpenContractAttempt(c) \/ ProviderStep(c) PROVE Gateway!GatewayNext
  BY <1>3 DEF OpenContractAttempt, ProviderStep, Gateway!GatewayNext
<1>4. ASSUME NEW k \in Gateway!Keys, DeclineAttempt(k) \/ SettleAttempt(k) PROVE Gateway!GatewayNext
  BY <1>4 DEF DeclineAttempt, SettleAttempt, Gateway!GatewayNext
<1>5. CASE DeskStep
  BY <1>5 DEF DeskStep, gateVars
<1>6. CASE UNCHANGED vars
  BY <1>6 DEF vars, gateVars
<1>7. QED BY <1>1, <1>2, <1>3, <1>4, <1>5, <1>6 DEF Next

(* ... and one of the billing rules, or nothing to them.                   *)
LEMMA CheckoutStepIsBilling == CheckoutTypeOK /\ [Next]_vars => [BillingNext]_billingVars
<1> SUFFICES ASSUME CheckoutTypeOK, [Next]_vars PROVE [BillingNext]_billingVars
  OBVIOUS
<1>1. ASSUME NEW c \in Calls, NEW p \in Providers, NEW t \in Contracts, BeginCheckout(c, p, t)
      PROVE  [BillingNext]_billingVars
  BY <1>1 DEF BeginCheckout, BillingNext, CheckoutStep
<1>2. ASSUME NEW c \in Calls, OpenContractAttempt(c) PROVE [BillingNext]_billingVars
  <2>1. calls[c].target \in Contracts
    BY <1>2, CallTarget DEF OpenContractAttempt, Gateway!OpenAttempt, CheckoutTypeOK
  <2>2. QED BY <1>2, <2>1 DEF OpenContractAttempt, BillingNext, CheckoutStep
<1>3. ASSUME NEW c \in Calls, ReadDue(c) \/ ProviderStep(c) PROVE UNCHANGED billingVars
  BY <1>3 DEF ReadDue, ProviderStep
<1>4. ASSUME NEW k \in Gateway!Keys, DeclineAttempt(k) PROVE UNCHANGED billingVars
  BY <1>4 DEF DeclineAttempt
<1>5. ASSUME NEW k \in Gateway!Keys, SettleAttempt(k) PROVE BillingNext
  <2>1. k.target \in Contracts /\ k.due \in Amounts
    BY DEF Gateway!Keys
  <2>2. QED BY <1>5, <2>1 DEF SettleAttempt, BillingNext
<1>6. CASE DeskStep
  BY <1>6 DEF DeskStep, BillingNext
<1>7. CASE UNCHANGED vars
  BY <1>7 DEF vars, billingVars
<1>8. QED BY <1>1, <1>2, <1>3, <1>4, <1>5, <1>6, <1>7 DEF Next

LEMMA CheckoutTypeInit == Init => CheckoutTypeOK
<1>1. GatewayProofs!GatewayInit => GatewayProofs!GatewayTypeOK
  BY SentinelAssumption, GatewayProofs!GatewayTypeInit DEF GatewayProofs!NoneAssumption
<1>2. QED BY <1>1, SameGateway, TypeInit DEF Init, CheckoutTypeOK

LEMMA CheckoutTypeStep == CheckoutTypeOK /\ [Next]_vars => CheckoutTypeOK'
<1> SUFFICES ASSUME CheckoutTypeOK, [Next]_vars PROVE CheckoutTypeOK'
  OBVIOUS
<1>1. BillingTypeOK'
  BY CheckoutStepIsBilling, TypeStep DEF CheckoutTypeOK
<1>2. GatewayProofs!GatewayTypeOK /\ [Gateway!GatewayNext]_gateVars
  BY CheckoutStepIsGateway, SameGateway DEF CheckoutTypeOK
<1>3. GatewayProofs!GatewayTypeOK'
  BY <1>2, SameGateway, SentinelAssumption, GatewayProofs!GatewayTypeStep
  DEF GatewayProofs!NoneAssumption, gateVars, GatewayProofs!gatewayVars
<1>4. Gateway!GatewayTypeOK'
  BY <1>3 DEF GatewayProofs!GatewayTypeOK, Gateway!GatewayTypeOK,
     GatewayProofs!Keys, GatewayProofs!KeyOf, GatewayProofs!AttemptStatuses, GatewayProofs!CallRows,
     GatewayProofs!CallSteps, Gateway!Keys, Gateway!KeyOf, Gateway!AttemptStatuses, Gateway!CallRows,
     Gateway!CallSteps
<1>5. QED BY <1>1, <1>4 DEF CheckoutTypeOK

(* Type correctness of the composition: every checkout under way is for a  *)
(* contract, and for one of its two prices.                                *)
THEOREM CheckoutTypeCorrect == CheckoutSpec => []CheckoutTypeOK
BY CheckoutTypeInit, CheckoutTypeStep, PTL DEF CheckoutSpec

(* Refinement: online payment does to contracts nothing but what the       *)
(* billing rules allow: bills opened, reviews chosen, amounts settled.     *)
THEOREM CheckoutImplementsBilling == CheckoutSpec => ImplementsBilling
<1>1. Init => BillingInit
  BY DEF Init
<1>2. QED BY <1>1, CheckoutStepIsBilling, CheckoutTypeCorrect, PTL
      DEF CheckoutSpec, BillingSpec, ImplementsBilling

(* Refinement: the composition is a behaviour of the gateway, so the       *)
(* gateway's environment is no less free than the contracts make it.       *)
THEOREM CheckoutImplementsGateway == CheckoutSpec => Gateway!GatewaySpec
<1>1. Init => Gateway!GatewayInit
  BY DEF Init
<1>2. [Gateway!GatewayNext]_gateVars => [Gateway!GatewayNext]_(Gateway!gatewayVars)
  BY DEF gateVars, Gateway!gatewayVars
<1>3. QED BY <1>1, <1>2, CheckoutStepIsGateway, CheckoutTypeCorrect, PTL
      DEF CheckoutSpec, Gateway!GatewaySpec

(* No interleaving of checkouts, provider answers and notifications with   *)
(* the office's work locks or issues an unpaid contract.                   *)
THEOREM CheckoutIssuesPaid == CheckoutSpec => []IssuedIsPaid
BY CheckoutImplementsBilling, NothingIssuedUnpaid, PTL DEF ImplementsBilling

-----------------------------------------------------------------------------
(* A submitted contract never becomes a draft again: no rule makes a draft *)
(* of a row, and no request in flight is about to write one.               *)

NoDraftPlanned == \A r \in Requests : reqs[r] \in ContractWrites => reqs[r].write # "draft"

Undrafted(row) == row.status # "draft"

LEMMA RulesSubmit ==
    ASSUME NEW row \in ContractRows, Undrafted(row)
    PROVE  /\ Undrafted(Settled(row)) /\ Undrafted(Collected(row)) /\ Undrafted(Waived(row))
           /\ \A s \in RequestStatuses : Undrafted(Synced(row, s))
<1> USE DEF Undrafted
<1>1. Undrafted(Settled(row))
  <2> DEFINE open == [row EXCEPT !.status = "client_review", !.window = "open"]
  <2>1. open \in ContractRows /\ open.status = "client_review"
    BY DEF ContractRows, Statuses, Windows
  <2>2. [open EXCEPT !.sr = "new", !.review = "pending_assignment", !.status = "pending_review"].status
            = "pending_review"
    BY <2>1 DEF ContractRows
  <2>3. [row EXCEPT !.status = "pending_review"].status = "pending_review"
    BY DEF ContractRows
  <2>4. Settled(row) = IF row.mode = "self" THEN Activated(open) ELSE [row EXCEPT !.status = "pending_review"]
    BY DEF Settled
  <2> HIDE DEF open
  <2>5. Undrafted(Activated(open))
    BY <2>1, <2>2 DEF Activated
  <2>6. QED BY <2>3, <2>4, <2>5
<1>2. Undrafted(Collected(row)) /\ Undrafted(Waived(row))
  BY DEF Collected, Waived, ContractRows
<1>3. ASSUME NEW s \in RequestStatuses PROVE Undrafted(Synced(row, s))
  BY DEF Synced, ContractRows
<1>4. QED BY <1>1, <1>2, <1>3

LEMMA SubmittedStays ==
    ASSUME BillingTypeOK, NoDraftPlanned, BillingNext, NEW c \in Contracts, Undrafted(contracts[c])
    PROVE  Undrafted(contracts'[c])
<1> DEFINE G == Undrafted(contracts'[c])
<1>0. contracts \in [Contracts -> ContractRows] /\ contracts[c] \in ContractRows
  BY DEF BillingTypeOK
<1>1. ASSUME NEW d \in Contracts, NEW row, Update(d, row), d = c => Undrafted(row) PROVE G
  BY <1>0, <1>1 DEF Update
<1>2. CASE UNCHANGED contracts
  BY <1>2
<1>3. ASSUME NEW d \in Contracts, CheckoutStep(d) PROVE G
  <2>1. ASSUME d = c
        PROVE  /\ Undrafted([contracts[d] EXCEPT !.addOn = TRUE, !.review = "awaiting_payment"])
               /\ Undrafted([contracts[d] EXCEPT !.addOn = FALSE, !.review = "none"])
               /\ Undrafted([contracts[d] EXCEPT !.status = "pending_payment"])
    BY <1>0, <2>1 DEF Undrafted, ContractRows
  <2>2. QED BY <1>1, <1>3, <2>1 DEF CheckoutStep, SelectReview, ClearReview, OpenBill
<1>4. ASSUME NEW d \in Contracts, ReceiptStep(d) PROVE G
  <2>1. CASE UploadReceipt(d)
    <3>1. d = c => Undrafted([contracts[d] EXCEPT !.status = "pending_payment"])
      BY <1>0 DEF Undrafted, ContractRows
    <3>2. QED BY <1>1, <2>1, <3>1 DEF UploadReceipt
  <2>2. ASSUME NEW i \in DOMAIN payments[d], ApproveReceipt(d, i) PROVE G
    BY <1>0, <1>1, <2>2, RulesSubmit DEF ApproveReceipt
  <2>3. ASSUME NEW i \in DOMAIN payments[d], ClarifyReceipt(d, i) \/ RejectReceipt(d, i) PROVE G
    BY <1>2, <2>3 DEF ClarifyReceipt, RejectReceipt
  <2>4. QED BY <1>4, <2>1, <2>2, <2>3 DEF ReceiptStep
<1>5. ASSUME NEW d \in Contracts, OfficeStep(d) PROVE G
  BY <1>0, <1>1, <1>5, RulesSubmit DEF OfficeStep, CollectManually
<1>6. ASSUME NEW d \in Contracts, NEW amount \in Amounts, SettleFromGateway(d, amount) PROVE G
  BY <1>0, <1>1, <1>6, RulesSubmit DEF SettleFromGateway
<1>7. ASSUME NEW r \in Requests, NEW d \in Contracts, ReadStep(r, d) PROVE G
  BY <1>2, <1>7 DEF ReadStep, Submit, DeleteDraft, SharedUpdate, RevisionRequest, SetStatus,
     Waive, CreateVersion, Lock, Issue, Finalize, SelectExpired, ReviewConfirm, ReviewRevision, Plan, Begin
<1>8. ASSUME NEW r \in Requests, WriteStep(r) PROVE G
  <2>1. CASE Abandon(r)
    BY <1>2, <2>1 DEF Abandon
  <2>2. CASE Write(r)
    <3> DEFINE d == reqs[r].contract
               new == Written(contracts[d], reqs[r])
    <3>1. reqs[r] \in ContractWrites \cup ReviewWrites /\ d \in Contracts
      BY <2>2 DEF Write, BillingTypeOK, ContractWrites, ReviewWrites
    <3>2. Update(d, new)
      BY <2>2 DEF Write
    <3>3. CASE d = c /\ reqs[r] \in ReviewWrites
      <4>1. new = [contracts[d] EXCEPT !.sr = reqs[r].write]
        BY <3>3 DEF Written, ReviewWrites, RequestStatuses
      <4>2. Undrafted(new)
        BY <1>0, <3>3, <4>1 DEF Undrafted, ContractRows
      <4>3. QED BY <1>1, <3>1, <3>2, <4>2
    <3>4. CASE d = c /\ reqs[r] \in ContractWrites
      <4>1. reqs[r].on = "contract" /\ reqs[r].write # "draft"
        BY <3>4 DEF ContractWrites, NoDraftPlanned
      <4>2. \/ new = [contracts[d] EXCEPT !.deleted = TRUE]
            \/ new = [contracts[d] EXCEPT !.status = "issued"]
            \/ new = contracts[d]
            \/ new = Waived(contracts[d])
            \/ new = [contracts[d] EXCEPT !.status = reqs[r].write]
        BY <4>1 DEF Written
      <4>3. Undrafted(new)
        BY <1>0, <3>4, <4>1, <4>2, RulesSubmit DEF Undrafted, ContractRows
      <4>4. QED BY <1>1, <3>1, <3>2, <4>3
    <3>5. QED BY <1>1, <3>1, <3>2, <3>3, <3>4
  <2>3. QED BY <1>8, <2>1, <2>2 DEF WriteStep
<1>9. ASSUME NEW d \in Contracts, ReviewStep(d) PROVE G
  <2>1. d = c => Undrafted([contracts[d] EXCEPT !.sr = "client_review"])
    BY <1>0 DEF Undrafted, ContractRows
  <2>2. "cancelled" \in RequestStatuses
    BY DEF RequestStatuses
  <2>3. QED BY <1>0, <1>1, <1>9, <2>1, <2>2, RulesSubmit
            DEF ReviewStep, ReviewStatus, ReviewCancel, ReviewDeliverable
<1>10. ASSUME NEW d \in Contracts, WindowEnds(d) PROVE G
  <2>1. d = c => Undrafted([contracts[d] EXCEPT !.window = "closed"])
    BY <1>0 DEF Undrafted, ContractRows
  <2>2. QED BY <1>1, <1>10, <2>1 DEF WindowEnds
<1>11. QED BY <1>3, <1>4, <1>5, <1>6, <1>7, <1>8, <1>9, <1>10 DEF BillingNext, DeskNext

LEMMA NoDraftStep == BillingTypeOK /\ NoDraftPlanned /\ BillingNext => NoDraftPlanned'
<1> SUFFICES ASSUME BillingTypeOK, NoDraftPlanned, BillingNext, NEW r \in Requests,
                    reqs'[r] \in ContractWrites
             PROVE  reqs'[r].write # "draft"
  BY DEF NoDraftPlanned
<1> DEFINE G == reqs'[r].write # "draft"
<1>0. reqs \in [Requests -> ContractWrites \cup ReviewWrites \cup {NoReq}]
  BY DEF BillingTypeOK
<1>1. ASSUME reqs'[r] = reqs[r] PROVE G
  BY <1>1 DEF NoDraftPlanned
<1>2. ASSUME NEW q \in Requests, NEW d \in Contracts, ReadStep(q, d) PROVE G
  <2>1. ASSUME NEW on, NEW write, NEW then, Begin(q, d, on, write, then),
               write # "draft"
        PROVE  G
    <3>1. CASE q # r
      BY <2>1, <3>1, <1>0, <1>1 DEF Begin
    <3>2. CASE q = r
      BY <2>1, <3>2, <1>0 DEF Begin
    <3>3. QED BY <3>1, <3>2
  <2>2. ASSUME NEW write, Plan(q, d, write), write # "draft" PROVE G
    BY <2>1, <2>2 DEF Plan
  <2>3. CASE Finalize(q, d)
    BY <2>1, <2>3 DEF Finalize
  <2>4. CASE ReviewConfirm(q, d) \/ ReviewRevision(q, d)
    BY <2>1, <2>4 DEF ReviewConfirm, ReviewRevision
  <2>5. CASE Submit(q, d) \/ DeleteDraft(q, d) \/ SharedUpdate(q, d) \/ RevisionRequest(q, d)
    BY <2>2, <2>5 DEF Submit, DeleteDraft, SharedUpdate, RevisionRequest
  <2>6. ASSUME NEW to \in Requestable, SetStatus(q, d, to) PROVE G
    BY <2>2, <2>6 DEF SetStatus, Requestable
  <2>7. CASE Waive(q, d) \/ CreateVersion(q, d) \/ Lock(q, d) \/ Issue(q, d) \/ SelectExpired(q, d)
    BY <2>2, <2>7 DEF Waive, CreateVersion, Lock, Issue, SelectExpired
  <2>8. QED BY <1>2, <2>3, <2>4, <2>5, <2>6, <2>7 DEF ReadStep
<1>3. ASSUME NEW q \in Requests, WriteStep(q) PROVE G
  <2>1. CASE q # r
    BY <1>3, <2>1, <1>0, <1>1 DEF WriteStep, Write, Abandon
  <2>2. CASE q = r
    <3>1. reqs'[r] = NoReq \/ reqs'[r] = Remaining(reqs[r])
      BY <1>3, <2>2, <1>0 DEF WriteStep, Write, Abandon
    <3>2. NoReq \notin ContractWrites
      BY DEF NoReq, ContractWrites
    <3>3. reqs[r].then # "nothing" /\ reqs'[r] = [reqs[r] EXCEPT !.write = reqs[r].then, !.then = "nothing"]
      BY <3>1, <3>2 DEF Remaining
    <3>4. reqs[r] \in ContractWrites \cup ReviewWrites
      BY <1>3, <2>2, <3>1, <3>2, <1>0 DEF WriteStep, Write, Abandon
    <3>5. reqs[r] \in ContractWrites /\ reqs[r].then = "issued"
      BY <3>3, <3>4 DEF ContractWrites, ReviewWrites
    <3>6. reqs'[r].write = "issued"
      BY <3>3, <3>5 DEF ContractWrites
    <3>7. QED BY <3>6
  <2>3. QED BY <2>1, <2>2
<1>4. CASE UNCHANGED reqs
  BY <1>4, <1>1
<1>5. (\A q \in Requests, d \in Contracts : ~ReadStep(q, d)) /\ (\A q \in Requests : ~WriteStep(q))
        => UNCHANGED reqs
  BY DEF BillingNext, DeskNext, ReceiptStep, UploadReceipt, ApproveReceipt, ClarifyReceipt, RejectReceipt,
     OfficeStep, CollectManually, ReviewStep, ReviewStatus, ReviewCancel, ReviewDeliverable,
     WindowEnds, CheckoutStep, SelectReview, ClearReview, OpenBill, SettleFromGateway
<1>6. QED BY <1>2, <1>3, <1>4, <1>5

-----------------------------------------------------------------------------
(* An approved payment is never rewritten.                                 *)

LEMMA ApprovedRowStays ==
    ASSUME BillingTypeOK, [BillingNext]_billingVars, NEW c \in Contracts, NEW i \in DOMAIN payments[c],
           payments[c][i].status = "approved"
    PROVE  i \in DOMAIN payments'[c] /\ payments'[c][i] = payments[c][i]
<1> DEFINE G == i \in DOMAIN payments'[c] /\ payments'[c][i] = payments[c][i]
<1>0. /\ payments[c] \in Seq(PaymentRows)
      /\ payments \in [Contracts -> Seq(PaymentRows)]
      /\ DOMAIN payments[c] = 1..Len(payments[c])
  BY Tables DEF BillingTypeOK
<1>1. CASE UNCHANGED payments
  BY <1>1
<1>2. ASSUME NEW d \in Contracts, NEW amount, NEW source,
             payments' = [payments EXCEPT ![d] = Recorded(d, amount, "approved", source)]
      PROVE  G
  <2>1. CASE c # d BY <2>1, <1>2, <1>0
  <2>2. CASE c = d
    <3>1. payments'[c] = Append(payments[c], [amount |-> amount, status |-> "approved", source |-> source])
      BY <2>2, <1>2, <1>0 DEF Recorded
    <3>2. QED BY <3>1, <1>0
  <2>3. QED BY <2>1, <2>2
<1>3. ASSUME NEW d \in Contracts, NEW j \in DOMAIN payments[d], NEW status \in PaymentStatuses,
             payments[d][j].status # "approved",
             payments' = [payments EXCEPT ![d][j].status = status]
      PROVE  G
  <2>1. payments' = [payments EXCEPT ![d] = [payments[d] EXCEPT ![j] = [payments[d][j] EXCEPT !.status = status]]]
    BY <1>3, ReviewedPayments
  <2>2. CASE c # d BY <2>1, <2>2, <1>0
  <2>3. CASE c = d
    <3>1. payments'[c] = [payments[c] EXCEPT ![j] = [payments[c][j] EXCEPT !.status = status]]
      BY <2>1, <2>3, <1>0
    <3>2. QED BY <1>3, <2>3, <3>1
  <2>4. QED BY <2>2, <2>3
<1>4. ASSUME NEW d \in Contracts, UploadReceipt(d) PROVE G
  <2>1. CASE c # d BY <2>1, <1>4, <1>0 DEF UploadReceipt
  <2>2. CASE c = d
    <3> DEFINE receipt == [amount |-> Expected(contracts[c]), status |-> "pending_verification",
                           source |-> "receipt"]
    <3>1. payments'[c] = Append(Replaced(payments[c]), receipt)
      BY <2>2, <1>4, <1>0 DEF UploadReceipt
    <3>2. /\ Replaced(payments[c]) \in Seq(PaymentRows)
          /\ Len(Replaced(payments[c])) = Len(payments[c])
      BY <1>0, ReplacedReceipts
    <3>3. Replaced(payments[c])[i] = payments[c][i]
      BY <1>0, ReplacedReceipts
    <3>4. i \in DOMAIN payments'[c] /\ payments'[c][i] = Replaced(payments[c])[i]
      BY <3>1, <3>2, <1>0
    <3>5. QED BY <3>3, <3>4
  <2>3. QED BY <2>1, <2>2
<1>5. ASSUME NEW d \in Contracts, ReceiptStep(d) PROVE G
  <2>1. {"approved", "needs_client_info", "rejected"} \subseteq PaymentStatuses
    BY DEF PaymentStatuses
  <2>2. ASSUME NEW j \in DOMAIN payments[d], ApproveReceipt(d, j) PROVE G
    BY <1>3, <2>1, <2>2 DEF ApproveReceipt
  <2>3. ASSUME NEW j \in DOMAIN payments[d], ClarifyReceipt(d, j) PROVE G
    BY <1>3, <2>1, <2>3 DEF ClarifyReceipt
  <2>4. ASSUME NEW j \in DOMAIN payments[d], RejectReceipt(d, j) PROVE G
    BY <1>3, <2>1, <2>4 DEF RejectReceipt, OpenReceipts
  <2>5. QED BY <1>4, <1>5, <2>2, <2>3, <2>4 DEF ReceiptStep
<1>6. ASSUME NEW d \in Contracts, OfficeStep(d) PROVE G
  BY <1>6, <1>1, <1>2 DEF OfficeStep, CollectManually
<1>7. ASSUME NEW d \in Contracts, NEW amount \in Amounts, SettleFromGateway(d, amount) PROVE G
  BY <1>7, <1>2 DEF SettleFromGateway
<1>8. ASSUME NEW r \in Requests, NEW d \in Contracts, ReadStep(r, d) PROVE G
  BY <1>8, <1>1 DEF ReadStep, Submit, DeleteDraft, SharedUpdate, RevisionRequest, SetStatus,
     Waive, CreateVersion, Lock, Issue, Finalize, SelectExpired, ReviewConfirm, ReviewRevision, Plan, Begin
<1>9. ASSUME NEW r \in Requests, WriteStep(r) PROVE G
  BY <1>9, <1>1 DEF WriteStep, Write, Abandon
<1>10. ASSUME NEW d \in Contracts, ReviewStep(d) \/ WindowEnds(d) \/ CheckoutStep(d) PROVE G
  BY <1>10, <1>1 DEF ReviewStep, ReviewStatus, ReviewCancel, ReviewDeliverable, WindowEnds,
     CheckoutStep, SelectReview, ClearReview, OpenBill
<1>11. CASE UNCHANGED billingVars
  BY <1>1, <1>11 DEF billingVars
<1>12. QED
  BY <1>5, <1>6, <1>7, <1>8, <1>9, <1>10, <1>11 DEF BillingNext, DeskNext

HasPayment(k) ==
    \E i \in DOMAIN payments[k.target] :
        /\ payments[k.target][i].status = "approved"
        /\ payments[k.target][i].source = "gateway"
        /\ payments[k.target][i].amount = k.due

-----------------------------------------------------------------------------
(* The attempts.                                                           *)

(* A page that was handed out, and a provider that was asked, belong to an *)
(* attempt.                                                                *)
PagesHaveAttempts == \A k \in pages : attempts[k].status # "none"
AskedHasAttempt ==
    \A c \in Calls : calls[c].at = "provider" => attempts[Gateway!KeyOf(calls[c])].status # "none"

AttemptInv ==
    /\ PagesHaveAttempts /\ AskedHasAttempt /\ NoDraftPlanned
    /\ AttemptedIsSubmitted /\ PaidAttemptHasPayment

(* All that a step of the composition does to an attempt.                  *)
AttemptEffect(k) ==
    \/ attempts'[k] = attempts[k]
    \/ attempts[k].status # "none" /\ attempts'[k].status \notin {"none", "paid"}
    \/ /\ attempts'[k].status = "created" /\ attempts[k].status = "none"
       /\ \E c \in Calls : Gateway!KeyOf(calls[c]) = k /\ OpenContractAttempt(c)
    \/ attempts[k].status # "none" /\ attempts'[k].status = "paid" /\ SettleAttempt(k)

LEMMA AttemptEffects ==
    ASSUME CheckoutTypeOK, PagesHaveAttempts, AskedHasAttempt, Next, NEW k \in Gateway!Keys
    PROVE  AttemptEffect(k)
<1>0. /\ attempts \in [Gateway!Keys -> [status : Gateway!AttemptStatuses, url : BOOLEAN]]
      /\ \A c \in Calls : calls[c].at \in {"attempt", "provider"} => Gateway!KeyOf(calls[c]) \in Gateway!Keys
  BY DEF CheckoutTypeOK, Gateway!GatewayTypeOK
<1>1. CASE UNCHANGED attempts
  BY <1>1 DEF AttemptEffect
<1>2. ASSUME NEW c \in Calls, OpenContractAttempt(c) PROVE AttemptEffect(k)
  <2> DEFINE key == Gateway!KeyOf(calls[c])
  <2>1. attempts' = Gateway!OpenAttempts(key)
    BY <1>2 DEF OpenContractAttempt, Gateway!OpenAttempt
  <2>2. attempts'[k] = IF k = key THEN Gateway!OpenedAttempt(attempts[key])
                       ELSE IF Gateway!Superseded(k, key) THEN [status |-> "cancelled", url |-> FALSE]
                       ELSE attempts[k]
    BY <2>1 DEF Gateway!OpenAttempts
  <2>3. CASE k = key
    <3>1. CASE attempts[k].status = "none"
      <4>1. attempts'[k].status = "created"
        BY <2>2, <2>3, <3>1 DEF Gateway!OpenedAttempt
      <4>2. QED BY <1>2, <2>3, <3>1, <4>1 DEF AttemptEffect
    <3>2. CASE attempts[k].status \in Gateway!ClosedStatuses
      <4>1. attempts'[k].status = "created" /\ attempts[k].status # "none"
        BY <2>2, <2>3, <3>2 DEF Gateway!OpenedAttempt, Gateway!ClosedStatuses
      <4>2. QED BY <4>1 DEF AttemptEffect
    <3>3. QED BY <2>2, <2>3, <3>1, <3>2 DEF Gateway!OpenedAttempt, AttemptEffect
  <2>4. CASE k # key
    BY <2>2, <2>4 DEF Gateway!Superseded, Gateway!Active, Gateway!ActiveStatuses, AttemptEffect
  <2>5. QED BY <2>3, <2>4
<1>3. ASSUME NEW c \in Calls, ProviderStep(c) PROVE AttemptEffect(k)
  <2> DEFINE key == Gateway!KeyOf(calls[c])
  <2>1. CASE Gateway!EndCall(c)
    BY <1>1, <2>1 DEF Gateway!EndCall
  <2>2. CASE Gateway!RecordSession(c)
    <3>1. key \in Gateway!Keys /\ attempts[key].status # "none"
      BY <1>0, <2>2 DEF Gateway!RecordSession, AskedHasAttempt
    <3>2. attempts' = [attempts EXCEPT ![key] = [status |-> "pending", url |-> TRUE]]
      BY <2>2 DEF Gateway!RecordSession
    <3>3. QED BY <1>0, <3>1, <3>2 DEF AttemptEffect
  <2>3. CASE Gateway!RecordProviderError(c)
    <3>1. key \in Gateway!Keys /\ attempts[key].status # "none"
      BY <1>0, <2>3 DEF Gateway!RecordProviderError, AskedHasAttempt
    <3>2. attempts' = [attempts EXCEPT ![key].status = "failed"]
      BY <2>3 DEF Gateway!RecordProviderError
    <3>3. QED BY <1>0, <3>1, <3>2 DEF AttemptEffect
  <2>4. QED BY <1>3, <2>1, <2>2, <2>3 DEF ProviderStep
<1>4. ASSUME NEW j \in Gateway!Keys, DeclineAttempt(j) PROVE AttemptEffect(k)
  <2>1. attempts[j].status # "none" /\ attempts' = [attempts EXCEPT ![j].status = "failed"]
    BY <1>4 DEF DeclineAttempt, Gateway!WebhookFailure, PagesHaveAttempts
  <2>2. QED BY <1>0, <2>1 DEF AttemptEffect
<1>5. ASSUME NEW j \in Gateway!Keys, SettleAttempt(j) PROVE AttemptEffect(k)
  <2>1. attempts[j].status # "none" /\ attempts' = [attempts EXCEPT ![j].status = "paid"]
    BY <1>5 DEF SettleAttempt, Gateway!WebhookSuccess, PagesHaveAttempts
  <2>2. QED BY <1>0, <1>5, <2>1 DEF AttemptEffect
<1>6. CASE \/ DeskStep \/ (\E c \in Calls : ReadDue(c))
           \/ \E c \in Calls, p \in Providers, t \in Contracts : BeginCheckout(c, p, t)
  <2>1. UNCHANGED attempts
    BY <1>6 DEF DeskStep, gateVars, ReadDue, BeginCheckout, Gateway!ReadTarget, Gateway!StartCheckout
  <2>2. QED BY <1>1, <2>1
<1>7. QED BY <1>2, <1>3, <1>4, <1>5, <1>6 DEF Next

(* Once a key has its attempt, it has one for ever.                        *)
LEMMA AttemptsStay ==
    ASSUME CheckoutTypeOK, AttemptInv, Next
    PROVE  PagesHaveAttempts' /\ AskedHasAttempt'
<1>0. \A k \in Gateway!Keys : attempts[k].status # "none" => attempts'[k].status # "none"
  BY AttemptEffects DEF AttemptInv, AttemptEffect
<1>1. /\ pages \subseteq Gateway!Keys
      /\ calls \in [Calls -> Gateway!CallRows]
      /\ \A c \in Calls : calls[c].at \in {"attempt", "provider"} => Gateway!KeyOf(calls[c]) \in Gateway!Keys
  BY DEF CheckoutTypeOK, Gateway!GatewayTypeOK
<1>2. PagesHaveAttempts'
  <2>1. \A k \in pages' : k \in pages \/ \E c \in Calls : k = Gateway!KeyOf(calls[c]) /\ calls[c].at = "provider"
    BY DEF Next, BeginCheckout, ReadDue, OpenContractAttempt, ProviderStep, DeclineAttempt, SettleAttempt,
       DeskStep, gateVars, Gateway!StartCheckout, Gateway!ReadTarget, Gateway!OpenAttempt, Gateway!EndCall,
       Gateway!RecordSession, Gateway!RecordProviderError, Gateway!WebhookFailure, Gateway!WebhookSuccess
  <2>2. QED BY <1>0, <1>1, <2>1 DEF PagesHaveAttempts, AskedHasAttempt, AttemptInv
<1>3. ASSUME NEW c \in Calls, calls'[c].at = "provider"
      PROVE  attempts'[Gateway!KeyOf(calls[c])].status # "none"
             /\ Gateway!KeyOf(calls'[c]) = Gateway!KeyOf(calls[c])
  <2>1. CASE calls'[c] = calls[c]
    BY <1>0, <1>1, <1>3, <2>1 DEF AttemptInv, AskedHasAttempt
  <2>2. ASSUME NEW d \in Calls, OpenContractAttempt(d), calls'[c] # calls[c]
        PROVE  attempts'[Gateway!KeyOf(calls[c])].status # "none"
               /\ Gateway!KeyOf(calls'[c]) = Gateway!KeyOf(calls[c])
    <3> DEFINE key == Gateway!KeyOf(calls[d])
    <3>1. /\ calls[d].at = "attempt" /\ attempts' = Gateway!OpenAttempts(key)
          /\ calls' = [calls EXCEPT ![d] = IF Gateway!OpenedAttempt(attempts[key]).url THEN Gateway!Idle
                                           ELSE [calls[d] EXCEPT !.at = "provider"]]
      BY <2>2 DEF OpenContractAttempt, Gateway!OpenAttempt
    <3>2. c = d
      BY <1>1, <2>2, <3>1
    <3>3. calls'[c] = [calls[c] EXCEPT !.at = "provider"]
      BY <1>1, <1>3, <3>1, <3>2 DEF Gateway!Idle
    <3>4. Gateway!KeyOf(calls'[c]) = key /\ key \in Gateway!Keys
      BY <1>1, <3>1, <3>2, <3>3 DEF Gateway!CallRows, Gateway!KeyOf
    <3>5. attempts'[key].status # "none"
      BY <3>1, <3>4 DEF Gateway!OpenAttempts, Gateway!OpenedAttempt
    <3>6. QED BY <3>2, <3>4, <3>5
  <2>3. ASSUME NEW d \in Calls, NEW row, calls' = [calls EXCEPT ![d] = row], row.at # "provider"
        PROVE  calls'[c] = calls[c]
    BY <1>1, <1>3, <2>3
  <2>4. ASSUME NEW d \in Calls, ReadDue(d) PROVE calls'[c] = calls[c]
    <3>1. calls' = [calls EXCEPT ![d] = [calls[d] EXCEPT !.at = "attempt",
                                                         !.due = Expected(contracts[calls[d].target])]]
      BY <2>4 DEF ReadDue, Gateway!ReadTarget
    <3>2. [calls[d] EXCEPT !.at = "attempt", !.due = Expected(contracts[calls[d].target])].at # "provider"
      BY <1>1 DEF Gateway!CallRows
    <3>3. QED BY <2>3, <3>1, <3>2
  <2>5. ASSUME NEW d \in Calls, NEW p \in Providers, NEW t \in Contracts, BeginCheckout(d, p, t)
        PROVE  calls'[c] = calls[c]
    <3> DEFINE row == [at |-> "target", provider |-> p, target |-> t, due |-> None]
    <3>1. calls' = [calls EXCEPT ![d] = row]
      BY <2>5 DEF BeginCheckout, Gateway!StartCheckout
    <3>2. row.at # "provider"
      OBVIOUS
    <3> HIDE DEF row
    <3>3. QED BY <2>3, <3>1, <3>2
  <2>6. ASSUME NEW d \in Calls, ProviderStep(d) PROVE calls'[c] = calls[c]
    <3>1. calls' = [calls EXCEPT ![d] = Gateway!Idle]
      BY <2>6 DEF ProviderStep, Gateway!EndCall, Gateway!RecordSession, Gateway!RecordProviderError
    <3>2. Gateway!Idle.at # "provider"
      BY DEF Gateway!Idle
    <3>3. QED BY <2>3, <3>1, <3>2
  <2>7. ASSUME NEW k \in Gateway!Keys, DeclineAttempt(k) \/ SettleAttempt(k) PROVE calls'[c] = calls[c]
    BY <2>7 DEF DeclineAttempt, SettleAttempt, Gateway!WebhookFailure, Gateway!WebhookSuccess
  <2>8. CASE DeskStep
    BY <2>1, <2>8 DEF DeskStep, gateVars
  <2>9. QED BY <2>1, <2>2, <2>4, <2>5, <2>6, <2>7, <2>8 DEF Next
<1>4. QED BY <1>2, <1>3 DEF AskedHasAttempt

LEMMA AttemptInvStep == CheckoutTypeOK /\ AttemptInv /\ [Next]_vars => AttemptInv'
<1> SUFFICES ASSUME CheckoutTypeOK, AttemptInv, [Next]_vars PROVE AttemptInv'
  OBVIOUS
<1>1. CASE UNCHANGED vars
  BY <1>1 DEF vars, AttemptInv, PagesHaveAttempts, AskedHasAttempt, NoDraftPlanned,
     AttemptedIsSubmitted, PaidAttemptHasPayment
<1>2. CASE Next
  <2>0. BillingTypeOK /\ [BillingNext]_billingVars
    BY <1>2, CheckoutStepIsBilling DEF CheckoutTypeOK
  <2>1. PagesHaveAttempts' /\ AskedHasAttempt'
    BY <1>2, AttemptsStay
  <2>2. NoDraftPlanned'
    <3>1. CASE BillingNext
      BY <2>0, <3>1, NoDraftStep DEF AttemptInv
    <3>2. CASE UNCHANGED billingVars
      BY <3>2 DEF billingVars, AttemptInv, NoDraftPlanned
    <3>3. QED BY <2>0, <3>1, <3>2
  <2>3. ASSUME NEW c \in Contracts, Undrafted(contracts[c]) PROVE Undrafted(contracts'[c])
    <3>1. CASE BillingNext
      BY <2>0, <2>3, <3>1, SubmittedStays DEF AttemptInv
    <3>2. CASE UNCHANGED billingVars
      BY <2>3, <3>2 DEF billingVars
    <3>3. QED BY <2>0, <3>1, <3>2
  <2>4. ASSUME NEW k \in Gateway!Keys PROVE AttemptEffect(k) /\ k.target \in Contracts
    BY <1>2, AttemptEffects DEF AttemptInv, Gateway!Keys
  <2>5. ASSUME NEW k \in Gateway!Keys, attempts'[k].status # "none"
        PROVE  contracts'[k.target].status # "draft"
    <3>1. CASE attempts[k].status # "none"
      BY <2>3, <2>4, <3>1 DEF AttemptInv, AttemptedIsSubmitted, Undrafted
    <3>2. CASE attempts[k].status = "none"
      <4>1. PICK c \in Calls : Gateway!KeyOf(calls[c]) = k /\ OpenContractAttempt(c)
        BY <2>4, <2>5, <3>2 DEF AttemptEffect
      <4>2. calls[c].target = k.target /\ Gateway!IsNewRow(Gateway!KeyOf(calls[c]))
        BY <3>2, <4>1 DEF Gateway!KeyOf, Gateway!IsNewRow
      <4>3. CASE contracts[k.target].status # "draft"
        BY <2>3, <2>4, <4>3 DEF Undrafted
      <4>4. CASE contracts[k.target].status = "draft"
        <5>1. OpenBill(k.target)
          BY <4>1, <4>2, <4>4 DEF OpenContractAttempt
        <5>2. contracts \in [Contracts -> ContractRows]
          BY <2>0 DEF BillingTypeOK
        <5>3. contracts'[k.target].status = "pending_payment"
          BY <2>4, <5>1, <5>2 DEF OpenBill, Update, ContractRows
        <5>4. QED BY <5>3
      <4>5. QED BY <4>3, <4>4
    <3>3. QED BY <3>1, <3>2
  <2>6. ASSUME NEW k \in Gateway!Keys, attempts'[k].status = "paid" PROVE HasPayment(k)'
    <3>1. CASE attempts[k].status = "paid"
      <4>1. HasPayment(k)
        BY <3>1 DEF AttemptInv, PaidAttemptHasPayment, HasPayment
      <4>2. QED BY <2>0, <2>4, <4>1, ApprovedRowStays DEF HasPayment
    <3>2. CASE attempts[k].status # "paid"
      <4>1. SettleAttempt(k)
        BY <2>4, <2>6, <3>2 DEF AttemptEffect
      <4>2. /\ payments[k.target] \in Seq(PaymentRows) /\ payments \in [Contracts -> Seq(PaymentRows)]
            /\ payments' = [payments EXCEPT ![k.target] = Recorded(k.target, k.due, "approved", "gateway")]
        BY <2>0, <2>4, <4>1, Tables DEF SettleAttempt, SettleFromGateway, BillingTypeOK
      <4>3. payments'[k.target] = Append(payments[k.target],
                                         [amount |-> k.due, status |-> "approved", source |-> "gateway"])
        BY <2>4, <4>2 DEF Recorded
      <4>4. /\ Len(payments[k.target]) + 1 \in DOMAIN payments'[k.target]
            /\ payments'[k.target][Len(payments[k.target]) + 1]
                  = [amount |-> k.due, status |-> "approved", source |-> "gateway"]
        BY <4>2, <4>3
      <4>5. QED BY <4>4 DEF HasPayment
    <3>3. QED BY <3>1, <3>2
  <2>7. AttemptedIsSubmitted' /\ PaidAttemptHasPayment'
    BY <2>5, <2>6 DEF AttemptedIsSubmitted, PaidAttemptHasPayment, HasPayment
  <2>8. QED BY <2>1, <2>2, <2>7 DEF AttemptInv
<1>3. QED BY <1>1, <1>2

LEMMA AttemptInvStart == Init => AttemptInv
<1> SUFFICES ASSUME Init PROVE AttemptInv
  OBVIOUS
<1>1. \A k \in Gateway!Keys : attempts[k].status = "none"
  BY DEF Init, Gateway!GatewayInit
<1>2. pages = {} /\ \A c \in Calls : calls[c].at = "idle"
  BY DEF Init, Gateway!GatewayInit, Gateway!Idle
<1>3. NoDraftPlanned
  BY DEF Init, BillingInit, NoDraftPlanned, NoReq, ContractWrites
<1>4. QED BY <1>1, <1>2, <1>3 DEF AttemptInv, PagesHaveAttempts, AskedHasAttempt, AttemptedIsSubmitted,
                              PaidAttemptHasPayment

(* A contract with a payment attempt is no longer a draft.                 *)
THEOREM AttemptedContractIsSubmitted == CheckoutSpec => []AttemptedIsSubmitted
<1>1. AttemptInv => AttemptedIsSubmitted
  BY DEF AttemptInv
<1>2. QED BY <1>1, AttemptInvStart, AttemptInvStep, CheckoutTypeCorrect, PTL DEF CheckoutSpec

(* An attempt marked paid has its approved payment of its own amount.      *)
THEOREM PaidAttemptIsRecorded == CheckoutSpec => []PaidAttemptHasPayment
<1>1. AttemptInv => PaidAttemptHasPayment
  BY DEF AttemptInv
<1>2. QED BY <1>1, AttemptInvStart, AttemptInvStep, CheckoutTypeCorrect, PTL DEF CheckoutSpec

-----------------------------------------------------------------------------
(* One payable attempt per provider, while checkouts do not overlap.       *)

Rival(j, k) == j.provider = k.provider /\ j.target = k.target /\ Gateway!Active(j)

OnlyAsked ==
    \A c \in Calls : calls[c].at = "provider" =>
        \A j \in Gateway!Keys : Rival(j, Gateway!KeyOf(calls[c])) => j = Gateway!KeyOf(calls[c])

OneActiveInv == OneActiveAttempt /\ OnlyAsked

LEMMA OneActiveStep ==
    ASSUME \A a, b \in Calls : a = b, CheckoutTypeOK, OneActiveInv, [Next]_vars
    PROVE  OneActiveInv'
<1> USE DEF Rival, Gateway!Active
<1>0. /\ attempts \in [Gateway!Keys -> [status : Gateway!AttemptStatuses, url : BOOLEAN]]
      /\ calls \in [Calls -> Gateway!CallRows]
      /\ \A c \in Calls : calls[c].at \in {"attempt", "provider"} => Gateway!KeyOf(calls[c]) \in Gateway!Keys
      /\ \A j, k \in Gateway!Keys : Rival(j, k) /\ Gateway!Active(k) => j = k
  BY DEF CheckoutTypeOK, Gateway!GatewayTypeOK, OneActiveInv, OneActiveAttempt, Gateway!OneActiveAttempt
<1>1. ASSUME \A j \in Gateway!Keys : Gateway!Active(j)' => Gateway!Active(j),
             \A c \in Calls : calls'[c].at = "provider" => calls'[c] = calls[c]
      PROVE  OneActiveInv'
  <2>1. OneActiveAttempt'
    BY <1>0, <1>1 DEF OneActiveAttempt, Gateway!OneActiveAttempt
  <2>2. OnlyAsked'
    BY <1>1 DEF OneActiveInv, OnlyAsked
  <2>3. QED BY <2>1, <2>2 DEF OneActiveInv
<1>2. CASE UNCHANGED vars
  BY <1>1, <1>2 DEF vars
<1>3. ASSUME NEW c \in Calls, OpenContractAttempt(c) PROVE OneActiveInv'
  <2> DEFINE key == Gateway!KeyOf(calls[c])
  <2>1. /\ calls[c].at = "attempt" /\ key \in Gateway!Keys /\ attempts' = Gateway!OpenAttempts(key)
        /\ calls' = [calls EXCEPT ![c] = IF Gateway!OpenedAttempt(attempts[key]).url THEN Gateway!Idle
                                         ELSE [calls[c] EXCEPT !.at = "provider"]]
    BY <1>0, <1>3 DEF OpenContractAttempt, Gateway!OpenAttempt
  <2>2. ASSUME NEW j \in Gateway!Keys, Gateway!Active(j)', j # key
        PROVE  Gateway!Active(j) /\ ~(j.provider = key.provider /\ j.target = key.target)
    <3>1. attempts'[j] = IF Gateway!Superseded(j, key) THEN [status |-> "cancelled", url |-> FALSE] ELSE attempts[j]
      BY <2>1, <2>2 DEF Gateway!OpenAttempts
    <3>2. ~Gateway!Superseded(j, key) /\ attempts'[j] = attempts[j]
      BY <2>2, <3>1 DEF Gateway!ActiveStatuses
    <3>3. QED BY <2>2, <3>2 DEF Gateway!Superseded
  <2>3. OneActiveAttempt'
    BY <1>0, <2>2 DEF OneActiveAttempt, Gateway!OneActiveAttempt
  <2>4. ASSUME NEW d \in Calls, calls'[d].at = "provider" PROVE Gateway!KeyOf(calls'[d]) = key
    <3>1. d = c
      OBVIOUS
    <3>2. calls'[d] = [calls[c] EXCEPT !.at = "provider"]
      BY <1>0, <2>1, <2>4, <3>1 DEF Gateway!Idle
    <3>3. QED BY <1>0, <3>2 DEF Gateway!KeyOf, Gateway!CallRows
  <2>5. OnlyAsked'
    BY <2>2, <2>4 DEF OnlyAsked
  <2>6. QED BY <2>3, <2>5 DEF OneActiveInv
<1>4. ASSUME NEW c \in Calls, calls' = [calls EXCEPT ![c] = Gateway!Idle] PROVE calls'[c].at # "provider"
  BY <1>0, <1>4 DEF Gateway!Idle
<1>5. ASSUME NEW c \in Calls, ProviderStep(c) PROVE OneActiveInv'
  <2> DEFINE key == Gateway!KeyOf(calls[c])
  <2>1. calls' = [calls EXCEPT ![c] = Gateway!Idle]
    BY <1>5 DEF ProviderStep, Gateway!EndCall, Gateway!RecordSession, Gateway!RecordProviderError
  <2>2. \A d \in Calls : calls'[d].at # "provider"
    BY <1>4, <2>1
  <2>3. CASE Gateway!EndCall(c)
    BY <1>1, <2>2, <2>3 DEF Gateway!EndCall
  <2>4. CASE Gateway!RecordProviderError(c)
    <3>1. key \in Gateway!Keys /\ attempts' = [attempts EXCEPT ![key].status = "failed"]
      BY <1>0, <2>4 DEF Gateway!RecordProviderError
    <3>2. \A j \in Gateway!Keys : Gateway!Active(j)' => Gateway!Active(j)
      BY <1>0, <3>1 DEF Gateway!ActiveStatuses
    <3>3. QED BY <1>1, <2>2, <3>2
  <2>5. CASE Gateway!RecordSession(c)
    <3>1. key \in Gateway!Keys /\ attempts' = [attempts EXCEPT ![key] = [status |-> "pending", url |-> TRUE]]
          /\ calls[c].at = "provider"
      BY <1>0, <2>5 DEF Gateway!RecordSession
    <3>2. \A j \in Gateway!Keys : Gateway!Active(j)' => j = key \/ Gateway!Active(j)
      BY <1>0, <3>1
    <3>3. \A j \in Gateway!Keys : Rival(j, key) => j = key
      BY <3>1 DEF OneActiveInv, OnlyAsked
    <3>4. OneActiveAttempt'
      BY <1>0, <3>2, <3>3 DEF OneActiveAttempt, Gateway!OneActiveAttempt
    <3>5. OnlyAsked'
      BY <2>2 DEF OnlyAsked
    <3>6. QED BY <3>4, <3>5 DEF OneActiveInv
  <2>6. QED BY <1>5, <2>3, <2>4, <2>5 DEF ProviderStep
<1>6. ASSUME NEW k \in Gateway!Keys, DeclineAttempt(k) \/ SettleAttempt(k) PROVE OneActiveInv'
  <2>1. UNCHANGED calls /\ (attempts' = [attempts EXCEPT ![k].status = "failed"]
                            \/ attempts' = [attempts EXCEPT ![k].status = "paid"])
    BY <1>6 DEF DeclineAttempt, SettleAttempt, Gateway!WebhookFailure, Gateway!WebhookSuccess
  <2>2. \A j \in Gateway!Keys : Gateway!Active(j)' => Gateway!Active(j)
    BY <1>0, <2>1 DEF Gateway!ActiveStatuses
  <2>3. QED BY <1>1, <2>1, <2>2
<1>7. CASE DeskStep
  BY <1>1, <1>7 DEF DeskStep, gateVars
<1>8. ASSUME NEW c \in Calls, NEW row, UNCHANGED attempts, calls' = [calls EXCEPT ![c] = row],
             row.at # "provider"
      PROVE  OneActiveInv'
  BY <1>0, <1>1, <1>8
<1>9. ASSUME NEW c \in Calls, ReadDue(c) PROVE OneActiveInv'
  <2> DEFINE row == [calls[c] EXCEPT !.at = "attempt", !.due = Expected(contracts[calls[c].target])]
  <2>1. calls' = [calls EXCEPT ![c] = row] /\ UNCHANGED attempts
    BY <1>9 DEF ReadDue, Gateway!ReadTarget
  <2>2. row.at # "provider"
    BY <1>0 DEF Gateway!CallRows
  <2> HIDE DEF row
  <2>3. QED BY <1>8, <2>1, <2>2
<1>10. ASSUME NEW c \in Calls, NEW p \in Providers, NEW t \in Contracts, BeginCheckout(c, p, t)
       PROVE  OneActiveInv'
  <2> DEFINE row == [at |-> "target", provider |-> p, target |-> t, due |-> None]
  <2>1. calls' = [calls EXCEPT ![c] = row] /\ UNCHANGED attempts
    BY <1>10 DEF BeginCheckout, Gateway!StartCheckout
  <2>2. row.at # "provider"
    OBVIOUS
  <2> HIDE DEF row
  <2>3. QED BY <1>8, <2>1, <2>2
<1>11. QED BY <1>2, <1>3, <1>5, <1>6, <1>7, <1>9, <1>10 DEF Next

(* While checkouts do not overlap, a provider holds one payable attempt of *)
(* a contract.  Without that it is false of the gateway: the session that  *)
(* the first checkout records revives what the second has superseded.      *)
THEOREM OneAttemptWithoutOverlap ==
    ASSUME \A a, b \in Calls : a = b
    PROVE  CheckoutSpec => []OneActiveAttempt
<1>1. Init => OneActiveInv
  BY DEF Init, Gateway!GatewayInit, Gateway!Active, Gateway!ActiveStatuses, Gateway!Idle, OneActiveInv,
     OneActiveAttempt, Gateway!OneActiveAttempt, OnlyAsked, Rival
<1>2. CheckoutTypeOK /\ OneActiveInv /\ [Next]_vars => OneActiveInv'
  BY OneActiveStep
<1>3. OneActiveInv => OneActiveAttempt
  BY DEF OneActiveInv
<1>4. QED BY <1>1, <1>2, <1>3, CheckoutTypeCorrect, PTL DEF CheckoutSpec

=============================================================================
