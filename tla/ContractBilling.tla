--------------------------- MODULE ContractBilling ---------------------------
(***************************************************************************)
(* A contract, the payments recorded for it and its lawyer review: who may *)
(* move the contract to which status, what each kind of settlement does to *)
(* it, and when it may be locked and issued.                               *)
(*                                                                         *)
(* The code runs in two styles.  Payment handlers lock the rows they read  *)
(* (FOR UPDATE) and are one step here.  The handlers of ContractController *)
(* load the contract, check it, and write later in a transaction that does *)
(* not look again: they are two steps, the write carried by a request in   *)
(* flight, and anything may happen in between.                             *)
(*                                                                         *)
(* Left out: contract_versions, field values and core_identity_locked.     *)
(***************************************************************************)
EXTENDS Naturals, Sequences

CONSTANTS
    Contracts,
    Requests,       \* requests that may be between their read and their write
    BasePrice,      \* original_price_egp
    ReviewPrice,    \* lawyer_review_add_on_price_egp
    MaxPayments     \* bound: payment rows per contract

ASSUME PriceAssumption == BasePrice \in Nat \ {0} /\ ReviewPrice \in Nat \ {0}
ASSUME BoundAssumption == MaxPayments \in Nat

VARIABLES
    contracts,      \* one row per contract
    payments,       \* its payments rows, oldest first
    reqs            \* requests between their read and their write

billingVars == <<contracts, payments, reqs>>

-----------------------------------------------------------------------------
(* Rows.  Mode "self" is creation_mode self_service; "office" is an office *)
(* contract with a registered client, "internal" one without.              *)

Modes == {"self", "office", "internal"}

Statuses == {"draft", "pending_payment", "pending_review", "in_progress", "client_review",
             "revision_requested", "approved", "locked", "issued", "cancelled"}

BillingModes == {"client_invoice", "office_waiver", "external_collection"}
PrepaidModes == {"office_waiver", "external_collection"}

(* Statuses of the review's own service request, and of the add-on as the  *)
(* contract shows it; "none" is NULL.                                      *)
RequestStatuses == {"none", "new", "assigned", "in_progress", "awaiting_client_info",
                    "client_review", "revision_requested", "completed", "cancelled"}
ReviewStatuses  == {"none", "awaiting_payment", "pending_assignment", "assigned", "in_review",
                    "awaiting_client_info", "completed", "cancelled"}

Windows == {"none", "open", "closed"}   \* edit_expires_at: NULL, ahead, past

ContractRows == [mode : Modes, status : Statuses, billing : BillingModes,
                 addOn : BOOLEAN, review : ReviewStatuses, sr : RequestStatuses,
                 window : Windows, deleted : BOOLEAN]

Amounts == {BasePrice, BasePrice + ReviewPrice}

PaymentStatuses == {"pending_verification", "needs_client_info", "replaced", "rejected", "approved"}
OpenReceipts    == {"pending_verification", "needs_client_info"}
Sources         == {"receipt", "gateway", "manual"}
PaymentRows     == [amount : Amounts, status : PaymentStatuses, source : Sources]

(* What a request has decided to write: a status, a deletion, a waiver, or *)
(* the scheduled expiry.  "then" is the write of its second transaction.   *)
Writes         == Statuses \cup {"deletion", "expiry", "waiver"}
ContractWrites == [on : {"contract"}, contract : Contracts, write : Writes, then : {"nothing", "issued"}]
ReviewWrites   == [on : {"review"}, contract : Contracts, write : RequestStatuses \ {"none"}, then : {"nothing"}]
NoReq          == [on |-> "nothing"]

BillingTypeOK ==
    /\ contracts \in [Contracts -> ContractRows]
    /\ payments \in [Contracts -> Seq(PaymentRows)]
    /\ reqs \in [Requests -> ContractWrites \cup ReviewWrites \cup {NoReq}]

(* createDraft: a customer's contract is self_service and invoiced; the    *)
(* office chooses how its own are billed.                                  *)
Drafts ==
    {r \in ContractRows :
        /\ r.mode = "self" => r.billing = "client_invoice"
        /\ r.status = "draft" /\ r.window = "none" /\ ~r.deleted
        /\ ~r.addOn /\ r.review = "none" /\ r.sr = "none"}

BillingInit ==
    /\ contracts \in [Contracts -> Drafts]
    /\ payments = [c \in Contracts |-> <<>>]
    /\ reqs = [r \in Requests |-> NoReq]

-----------------------------------------------------------------------------
(* The rules the handlers share.                                           *)

Expected_ReviewTwice(row) == BasePrice + (IF row.addOn THEN 2 * ReviewPrice ELSE 0)

Expected(row) == BasePrice + (IF row.addOn THEN ReviewPrice ELSE 0)

(* The loader joins the most recent payment only.                          *)
LatestApproved(c) ==
    payments[c] # <<>> /\ payments[c][Len(payments[c])].status = "approved"

BillingSettled_AnyPayment(c) ==
    \/ contracts[c].billing \in PrepaidModes
    \/ contracts[c].mode = "internal"
    \/ payments[c] # <<>>

(* assertBillingSettled and customerOutputUnlocked.                        *)
BillingSettled(c) ==
    \/ contracts[c].billing \in PrepaidModes
    \/ contracts[c].mode = "internal"
    \/ LatestApproved(c)

IssuanceAllowed(row) == row.addOn => row.review = "completed"

Payable(row) == ~row.deleted /\ row.status \in {"draft", "pending_payment"}

Billed_Deleted(row) == row.status = "pending_payment"

Billed(row)  == ~row.deleted /\ row.status = "pending_payment"

(* assertStatusTransition: the staff's transitions; 'assigned' needs the   *)
(* assignment feature, which ships disabled, and is left out.              *)
StaffMoves ==
    [s \in Statuses |->
        CASE s = "draft"              -> {"in_progress", "pending_review", "cancelled"}
          [] s = "pending_payment"    -> {"pending_review", "cancelled"}
          [] s = "pending_review"     -> {"in_progress", "cancelled"}
          [] s = "in_progress"        -> {"client_review", "revision_requested", "approved", "cancelled"}
          [] s = "client_review"      -> {"revision_requested", "approved", "cancelled"}
          [] s = "revision_requested" -> {"in_progress", "client_review", "cancelled"}
          [] s = "approved"           -> {"revision_requested", "in_progress", "cancelled"}
          [] OTHER                    -> {}]

(* The statuses the endpoint's validation accepts; asking for the current  *)
(* one passes the transition check.                                        *)
Requestable == {"pending_review", "in_progress", "client_review", "revision_requested",
                "approved", "cancelled"}

(* STAFF_TRANSITIONS of a self_service_lawyer_review request.              *)
ReviewMoves ==
    [s \in RequestStatuses |->
        CASE s = "new"                  -> {"assigned", "in_progress", "awaiting_client_info", "cancelled"}
          [] s = "assigned"             -> {"in_progress", "awaiting_client_info", "cancelled"}
          [] s = "awaiting_client_info" -> {"new", "assigned", "in_progress", "cancelled"}
          [] s = "in_progress"          -> {"client_review", "awaiting_client_info", "completed", "cancelled"}
          [] s = "client_review"        -> {"in_progress", "completed", "cancelled"}
          [] s = "revision_requested"   -> {"in_progress", "client_review", "cancelled"}
          [] OTHER                      -> {}]

(* activateAfterSettledPayment: the selected review gets its service       *)
(* request, once.                                                          *)
Activated(row) ==
    IF row.addOn /\ row.sr = "none"
    THEN [row EXCEPT !.sr = "new", !.review = "pending_assignment", !.status = "pending_review"]
    ELSE row

Settled_KeepsBill(row) ==
    IF row.mode = "self" THEN Activated([row EXCEPT !.window = "open"]) ELSE row

(* settleContract, and approve() for a contract.                           *)
Settled(row) ==
    IF row.mode = "self"
    THEN Activated([row EXCEPT !.status = "client_review", !.window = "open"])
    ELSE [row EXCEPT !.status = "pending_review"]

(* recordManual for a contract: any status will do; only a self-service    *)
(* contract that is waiting for its payment opens its edit window.         *)
Collected(row) ==
    LET paid == [row EXCEPT !.billing = "external_collection"] IN
    IF row.status # "pending_payment" THEN paid
    ELSE IF row.mode = "self" THEN [paid EXCEPT !.status = "client_review", !.window = "open"]
    ELSE [paid EXCEPT !.status = "pending_review"]

Waived(row) ==
    [row EXCEPT !.billing = "office_waiver",
                !.status  = IF @ = "pending_payment" THEN "pending_review" ELSE @]

(* syncFromServiceRequest, with the request's own status: a completed      *)
(* review hands the contract back to its client.                           *)
Synced(row, s) ==
    [row EXCEPT
        !.sr     = s,
        !.review = CASE s = "new" -> "pending_assignment"
                     [] s \in {"in_progress", "revision_requested"} -> "in_review"
                     [] s \in {"client_review", "completed"} -> "completed"
                     [] OTHER -> s,
        !.status = IF s = "completed" THEN "client_review" ELSE @]

Update(c, row) == contracts' = [contracts EXCEPT ![c] = row]

Recorded(c, amount, status, source) ==
    Append(payments[c], [amount |-> amount, status |-> status, source |-> source])

HasRoom(c) == Len(payments[c]) < MaxPayments

-----------------------------------------------------------------------------
(* The checkout's part: choosing the review, and opening the bill.         *)

SelectReview(c) ==
    /\ Payable(contracts[c])
    /\ contracts[c].mode = "self"
    /\ Update(c, [contracts[c] EXCEPT !.addOn = TRUE, !.review = "awaiting_payment"])
    /\ UNCHANGED <<payments, reqs>>

ClearReview_Started(c) ==
    /\ Payable(contracts[c])
    /\ Update(c, [contracts[c] EXCEPT !.addOn = FALSE, !.review = "none"])
    /\ UNCHANGED <<payments, reqs>>

ClearReview(c) ==
    /\ Payable(contracts[c])
    /\ contracts[c].sr = "none"
    /\ Update(c, [contracts[c] EXCEPT !.addOn = FALSE, !.review = "none"])
    /\ UNCHANGED <<payments, reqs>>

(* The first attempt of an amount submits a draft.                         *)
OpenBill(c) ==
    /\ contracts[c].status = "draft"
    /\ Update(c, [contracts[c] EXCEPT !.status = "pending_payment"])
    /\ UNCHANGED <<payments, reqs>>

-----------------------------------------------------------------------------
(* Payments.                                                               *)

Replaced_Never(s) == s

(* createReceipt replaces the newest receipt that awaits clarification.    *)
Replaced(s) ==
    [i \in DOMAIN s |->
        IF /\ s[i].status = "needs_client_info"
           /\ \A j \in DOMAIN s : j > i => s[j].status # "needs_client_info"
        THEN [s[i] EXCEPT !.status = "replaced"]
        ELSE s[i]]

NoReceiptPending(c) ==
    \A i \in DOMAIN payments[c] : payments[c][i].status # "pending_verification"

UploadReceipt(c) ==
    /\ Payable(contracts[c])
    /\ NoReceiptPending(c)
    /\ HasRoom(c)
    /\ payments' = [payments EXCEPT
            ![c] = Append(Replaced(@), [amount |-> Expected(contracts[c]),
                                        status |-> "pending_verification",
                                        source |-> "receipt"])]
    /\ Update(c, [contracts[c] EXCEPT !.status = "pending_payment"])
    /\ UNCHANGED reqs

(* approve() does not compare the receipt with what is due today.          *)
ApproveReceipt(c, i) ==
    /\ payments[c][i].status = "pending_verification"
    /\ Billed(contracts[c])
    /\ payments' = [payments EXCEPT ![c][i].status = "approved"]
    /\ Update(c, Settled(contracts[c]))
    /\ UNCHANGED reqs

ClarifyReceipt(c, i) ==
    /\ payments[c][i].status = "pending_verification"
    /\ payments' = [payments EXCEPT ![c][i].status = "needs_client_info"]
    /\ UNCHANGED <<contracts, reqs>>

RejectReceipt_Reviewed(c, i) ==
    /\ payments' = [payments EXCEPT ![c][i].status = "rejected"]
    /\ UNCHANGED <<contracts, reqs>>

RejectReceipt(c, i) ==
    /\ payments[c][i].status \in OpenReceipts
    /\ payments' = [payments EXCEPT ![c][i].status = "rejected"]
    /\ UNCHANGED <<contracts, reqs>>

(* An office contract without a client is refused; a self-service contract *)
(* waiting for payment must be paid its base price.                        *)
CollectManually(c, amount) ==
    /\ ~contracts[c].deleted
    /\ contracts[c].mode # "internal"
    /\ contracts[c].mode = "self" /\ contracts[c].status = "pending_payment" => amount = BasePrice
    /\ HasRoom(c)
    /\ payments' = [payments EXCEPT ![c] = Recorded(c, amount, "approved", "manual")]
    /\ Update(c, Collected(contracts[c]))
    /\ UNCHANGED reqs

(* A provider's success notification, once its attempt is found active.    *)
SettleFromGateway(c, amount) ==
    /\ Billed(contracts[c])
    /\ HasRoom(c)
    /\ payments' = [payments EXCEPT ![c] = Recorded(c, amount, "approved", "gateway")]
    /\ Update(c, Settled(contracts[c]))
    /\ UNCHANGED reqs

-----------------------------------------------------------------------------
(* ContractController: the read and check of each handler ...              *)

Begin(r, c, on, write, then) ==
    /\ reqs[r] = NoReq
    /\ reqs' = [reqs EXCEPT ![r] = [on |-> on, contract |-> c, write |-> write, then |-> then]]
    /\ UNCHANGED <<contracts, payments>>

Plan(r, c, write) == ~contracts[c].deleted /\ Begin(r, c, "contract", write, "nothing")

Submit(r, c) ==
    /\ contracts[c].status \in {"draft", "revision_requested"}
    /\ Plan(r, c, IF contracts[c].billing \in PrepaidModes THEN "pending_review" ELSE "pending_payment")

DeleteDraft(r, c) ==
    /\ contracts[c].status = "draft"
    /\ Plan(r, c, "deletion")

(* sharedUpdate, through an edit link.                                     *)
SharedUpdate(r, c) ==
    /\ BillingSettled(c)
    /\ contracts[c].status \in {"draft", "revision_requested", "client_review"}
    /\ contracts[c].status = "client_review" => contracts[c].window = "open"
    /\ Plan(r, c, IF contracts[c].status = "client_review" THEN "client_review" ELSE "revision_requested")

RevisionRequest(r, c) ==
    /\ contracts[c].mode # "self"
    /\ contracts[c].status \in {"client_review", "approved"}
    /\ Plan(r, c, "revision_requested")

SetStatus(r, c, to) ==
    /\ to = contracts[c].status \/ to \in StaffMoves[contracts[c].status]
    /\ contracts[c].status \in {"draft", "pending_payment"} /\ to # "cancelled" => BillingSettled(c)
    /\ Plan(r, c, to)

(* paymentWaiver: its UPDATE is by id alone, whatever has become of the    *)
(* contract since, a deletion included.                                    *)
Waive(r, c) == Plan(r, c, "waiver")

CreateVersion(r, c) == Plan(r, c, "in_progress")

Lockable(c) == BillingSettled(c) /\ contracts[c].status \in {"approved", "client_review", "in_progress"}

Lock(r, c) == Lockable(c) /\ Plan(r, c, "locked")

Issue(r, c) ==
    /\ IssuanceAllowed(contracts[c])
    /\ contracts[c].status = "locked"
    /\ Plan(r, c, "issued")

(* finalize locks in one transaction and issues in the next.               *)
Finalize(r, c) ==
    /\ contracts[c].mode = "self"
    /\ ~contracts[c].deleted
    /\ BillingSettled(c)
    /\ IssuanceAllowed(contracts[c])
    /\ contracts[c].status = "client_review"
    /\ Begin(r, c, "contract", "locked", "issued")

(* FinalizeExpiredContracts selects a contract whose edit window is over.  *)
SelectExpired(r, c) ==
    /\ contracts[c].mode = "self"
    /\ contracts[c].status = "client_review"
    /\ contracts[c].window = "closed"
    /\ IssuanceAllowed(contracts[c])
    /\ Plan(r, c, "expiry")

(* ... and the write it planned then.                                      *)

StillExpiring(row) == row.status = "client_review" /\ IssuanceAllowed(row)

Written(row, req) ==
    CASE req.on = "review"        -> [row EXCEPT !.sr = req.write]
      [] req.write = "deletion"   -> [row EXCEPT !.deleted = TRUE]
      [] req.write = "waiver"     -> Waived(row)
      [] req.write = "expiry"     -> IF StillExpiring(row) THEN [row EXCEPT !.status = "issued"] ELSE row
      [] OTHER                    -> [row EXCEPT !.status = req.write]

Remaining(req) ==
    IF req.then = "nothing" THEN NoReq ELSE [req EXCEPT !.write = req.then, !.then = "nothing"]

Write(r) ==
    /\ reqs[r] # NoReq
    /\ Update(reqs[r].contract, Written(contracts[reqs[r].contract], reqs[r]))
    /\ reqs' = [reqs EXCEPT ![r] = Remaining(reqs[r])]
    /\ UNCHANGED payments

(* The process dies before (or between) the writes.                        *)
Abandon(r) ==
    /\ reqs[r] # NoReq
    /\ reqs' = [reqs EXCEPT ![r] = NoReq]
    /\ UNCHANGED <<contracts, payments>>

-----------------------------------------------------------------------------
(* The review's service request.  Staff and the cancelling client write it *)
(* and the contract in one transaction; a deliverable, and the client's    *)
(* confirmation or revision request, leave the contract as it is.          *)

ReviewStatus(c, to) ==
    /\ to \in ReviewMoves[contracts[c].sr]
    /\ Update(c, Synced(contracts[c], to))
    /\ UNCHANGED <<payments, reqs>>

ReviewCancel(c) ==
    /\ contracts[c].sr = "new"
    /\ Update(c, Synced(contracts[c], "cancelled"))
    /\ UNCHANGED <<payments, reqs>>

ReviewDeliverable(c) ==
    /\ contracts[c].sr \in {"in_progress", "revision_requested", "client_review"}
    /\ Update(c, [contracts[c] EXCEPT !.sr = "client_review"])
    /\ UNCHANGED <<payments, reqs>>

ReviewConfirm(r, c) ==
    /\ contracts[c].sr = "client_review"
    /\ Begin(r, c, "review", "completed", "nothing")

ReviewRevision(r, c) ==
    /\ contracts[c].sr = "client_review"
    /\ Begin(r, c, "review", "revision_requested", "nothing")

(* Time passes: the edit window of a settled self-service contract ends.   *)
WindowEnds(c) ==
    /\ contracts[c].window = "open"
    /\ Update(c, [contracts[c] EXCEPT !.window = "closed"])
    /\ UNCHANGED <<payments, reqs>>

-----------------------------------------------------------------------------

CheckoutStep(c) == SelectReview(c) \/ ClearReview(c) \/ OpenBill(c)

ReceiptStep(c) ==
    \/ UploadReceipt(c)
    \/ \E i \in DOMAIN payments[c] : ApproveReceipt(c, i)
    \/ \E i \in DOMAIN payments[c] : ClarifyReceipt(c, i)
    \/ \E i \in DOMAIN payments[c] : RejectReceipt(c, i)

OfficeStep(c) == \E amount \in Amounts : CollectManually(c, amount)

ReadStep(r, c) ==
    \/ Submit(r, c)
    \/ DeleteDraft(r, c)
    \/ SharedUpdate(r, c)
    \/ RevisionRequest(r, c)
    \/ \E to \in Requestable : SetStatus(r, c, to)
    \/ Waive(r, c)
    \/ CreateVersion(r, c)
    \/ Lock(r, c)
    \/ Issue(r, c)
    \/ Finalize(r, c)
    \/ SelectExpired(r, c)
    \/ ReviewConfirm(r, c)
    \/ ReviewRevision(r, c)

WriteStep(r) == Write(r) \/ Abandon(r)

ReviewStep(c) ==
    \/ \E to \in RequestStatuses : ReviewStatus(c, to)
    \/ ReviewCancel(c)
    \/ ReviewDeliverable(c)

(* Everything but the provider's settlements and the checkout, which       *)
(* ContractCheckout ties to the attempts.                                  *)
DeskNext ==
    \/ \E c \in Contracts : ReceiptStep(c)
    \/ \E c \in Contracts : OfficeStep(c)
    \/ \E r \in Requests, c \in Contracts : ReadStep(r, c)
    \/ \E r \in Requests : WriteStep(r)
    \/ \E c \in Contracts : ReviewStep(c)
    \/ \E c \in Contracts : WindowEnds(c)

BillingNext ==
    \/ DeskNext
    \/ \E c \in Contracts : CheckoutStep(c)
    \/ \E c \in Contracts, amount \in Amounts : SettleFromGateway(c, amount)

BillingSpec == BillingInit /\ [][BillingNext]_billingVars

-----------------------------------------------------------------------------
(* Properties.                                                             *)

(* Somebody answers for the price: a waiver, a collection, the office      *)
(* itself, or an approved payment, not necessarily the latest one.         *)
Covered(c) ==
    \/ contracts[c].billing \in PrepaidModes
    \/ contracts[c].mode = "internal"
    \/ \E i \in DOMAIN payments[c] : payments[c][i].status = "approved"

(* Nothing is locked or issued unpaid, however the stale writes of the     *)
(* handlers interleave with rejections, waivers and new receipts.          *)
IssuedIsPaid ==
    \A c \in Contracts : contracts[c].status \in {"locked", "issued"} => Covered(c)

(* The edit window opens at a settlement only.  The scheduled job issues   *)
(* every contract whose window is over and never looks at its billing, so  *)
(* this is what keeps it from issuing an unpaid contract.                  *)
WindowIsPaid ==
    \A c \in Contracts : contracts[c].window # "none" => Covered(c)

(* What a request in flight is about to lock or issue is paid already; with*)
(* the two above, the inductive invariant.                                 *)
FinalWrites == {"locked", "issued", "expiry"}

PendingFinalIsPaid ==
    \A r \in Requests :
        reqs[r] # NoReq /\ reqs[r].on = "contract"
            /\ (reqs[r].write \in FinalWrites \/ reqs[r].then = "issued")
        => Covered(reqs[r].contract)

BillingInv == IssuedIsPaid /\ WindowIsPaid /\ PendingFinalIsPaid

(* A client never has two receipts under way for one contract.             *)
OneOpenReceipt ==
    \A c \in Contracts : \A i, j \in DOMAIN payments[c] :
        payments[c][i].status \in OpenReceipts /\ payments[c][j].status \in OpenReceipts => i = j

(* Review work exists only on a contract whose review is still selected and*)
(* whose settlement opened the edit window, so issuance waits for it.      *)
ReviewWorkIsSelected ==
    \A c \in Contracts :
        contracts[c].sr # "none" =>
            contracts[c].addOn /\ contracts[c].review # "none" /\ contracts[c].window # "none"

(* A payment that was approved stays approved: no later review, rejection  *)
(* or replacement takes it back, and no row disappears.                    *)
ApprovedStays ==
    [][\A c \in Contracts : \A i \in DOMAIN payments[c] :
         i \in DOMAIN payments'[c] /\
         (payments[c][i].status = "approved" => payments'[c][i].status = "approved")]_billingVars

(* A receipt or a provider payment is approved only against an outstanding *)
(* bill, and closes it: no second one can be approved on the same bill, and*)
(* a cancelled or deleted contract is not revived by a late approval.      *)
ApprovedBy(s, src) == {i \in DOMAIN s : s[i].status = "approved" /\ s[i].source \in src}

SettlementClosesBill ==
    [][\A c \in Contracts :
         ApprovedBy(payments'[c], {"receipt", "gateway"}) # ApprovedBy(payments[c], {"receipt", "gateway"})
         => Billed(contracts[c]) /\ ~Billed(contracts'[c])]_billingVars

(* Lawyer review work starts only when its price has been paid.            *)
Paid(c) ==
    LET total[i \in 0..Len(payments[c])] ==
            IF i = 0 THEN 0
            ELSE total[i-1] + (IF payments[c][i].status = "approved" THEN payments[c][i].amount ELSE 0)
    IN total[Len(payments[c])]

ReviewWorkIsPaid ==
    \A c \in Contracts :
        contracts[c].sr # "none" => Paid(c) >= BasePrice + ReviewPrice

-----------------------------------------------------------------------------
(* Refinement.                                                             *)

(* What has become of a contract.                                          *)
Phase(row) ==
    IF row.deleted THEN "deleted"
    ELSE CASE row.status = "pending_payment"      -> "billed"
           [] row.status \in {"locked", "issued"} -> "final"
           [] OTHER                               -> "open"

Abstract == INSTANCE PaidContract WITH
    phase   <- [c \in Contracts |-> Phase(contracts[c])],
    covered <- [c \in Contracts |-> Covered(c)],
    settled <- [c \in Contracts |-> ApprovedBy(payments[c], {"receipt", "gateway"})]

(* Contracts are paid contracts: with any receipts, notifications, waivers,*)
(* collections and stale writes, each settlement is of an open bill and    *)
(* closes it, a deleted contract is neither settled nor made final (a late *)
(* waiver may still answer for it), and a contract that is made final is   *)
(* covered and stays so.                                                   *)
ImplementsPaidContract == Abstract!Spec

=============================================================================
