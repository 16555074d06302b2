-------------------------- MODULE ContractCheckout --------------------------
(***************************************************************************)
(* Paying for a contract online: the payment attempts of PaymentGateway    *)
(* joined to the contract of ContractBilling.  What the gateway leaves to  *)
(* its environment is decided here by the contract: whether a checkout may *)
(* start, what is due, and whether a settlement is taken.  A settlement is *)
(* one transaction over the attempt, the payment and the contract.         *)
(***************************************************************************)
EXTENDS ContractBilling

CONSTANTS Providers, Calls, None

ASSUME SentinelAssumption == None \notin Providers \cup Contracts \cup Amounts

VARIABLES attempts, calls, pages

Gateway == INSTANCE PaymentGateway WITH Targets <- Contracts, Dues <- Amounts

gateVars == <<attempts, calls, pages>>
vars     == <<contracts, payments, reqs, attempts, calls, pages>>

CheckoutTypeOK == BillingTypeOK /\ Gateway!GatewayTypeOK

Init == BillingInit /\ Gateway!GatewayInit

(* The options of a checkout, the lawyer's review, are applied and         *)
(* committed first; without the option the selection stays as it is.       *)
BeginCheckout(c, p, t) ==
    /\ Gateway!StartCheckout(c, p, t)
    /\ SelectReview(t) \/ ClearReview(t) \/ UNCHANGED billingVars

(* target(): what is due on a contract that may be paid for.               *)
ReadDue(c) ==
    /\ calls[c].at = "target"
    /\ Payable(contracts[calls[c].target])
    /\ Gateway!ReadTarget(c, Expected(contracts[calls[c].target]))
    /\ UNCHANGED billingVars

OpenContractAttempt_Unsubmitted(c) ==
    /\ Gateway!OpenAttempt(c)
    /\ UNCHANGED billingVars

(* A new attempt submits the draft it is for.                              *)
OpenContractAttempt(c) ==
    /\ Gateway!OpenAttempt(c)
    /\ IF /\ Gateway!IsNewRow(Gateway!KeyOf(calls[c]))
          /\ contracts[calls[c].target].status = "draft"
       THEN OpenBill(calls[c].target)
       ELSE UNCHANGED billingVars

ProviderStep(c) ==
    /\ Gateway!EndCall(c) \/ Gateway!RecordSession(c) \/ Gateway!RecordProviderError(c)
    /\ UNCHANGED billingVars

DeclineAttempt(k) == Gateway!WebhookFailure(k) /\ UNCHANGED billingVars

SettleAttempt_MovedOn(k) ==
    /\ Gateway!WebhookSuccess(k)
    /\ \/ SettleFromGateway(k.target, k.due)
       \/ ~Billed(contracts[k.target]) /\ UNCHANGED billingVars

SettleAttempt_AnyStatus(k) ==
    /\ Gateway!WebhookSuccess(k)
    /\ HasRoom(k.target)
    /\ payments' = [payments EXCEPT ![k.target] = Recorded(k.target, k.due, "approved", "gateway")]
    /\ Update(k.target, Settled(contracts[k.target]))
    /\ UNCHANGED reqs

(* The contract refuses a settlement it does not wait for, and the attempt *)
(* stays as it was.                                                        *)
SettleAttempt(k) ==
    /\ Gateway!WebhookSuccess(k)
    /\ SettleFromGateway(k.target, k.due)

DeskStep == DeskNext /\ UNCHANGED gateVars

Next ==
    \/ \E c \in Calls, p \in Providers, t \in Contracts : BeginCheckout(c, p, t)
    \/ \E c \in Calls : ReadDue(c)
    \/ \E c \in Calls : OpenContractAttempt(c)
    \/ \E c \in Calls : ProviderStep(c)
    \/ \E k \in Gateway!Keys : DeclineAttempt(k)
    \/ \E k \in Gateway!Keys : SettleAttempt(k)
    \/ DeskStep

CheckoutSpec == Init /\ [][Next]_vars

-----------------------------------------------------------------------------
(* Properties.                                                             *)

(* An attempt marked paid has its approved payment, of its own amount, on  *)
(* its own contract: the three writes of a settlement stand together.      *)
PaidAttemptHasPayment ==
    \A k \in Gateway!Keys :
        attempts[k].status = "paid" =>
            \E i \in DOMAIN payments[k.target] :
                /\ payments[k.target][i].status = "approved"
                /\ payments[k.target][i].source = "gateway"
                /\ payments[k.target][i].amount = k.due

(* A contract with a payment attempt is no longer a draft, so its owner    *)
(* cannot start to delete it.                                              *)
AttemptedIsSubmitted ==
    \A k \in Gateway!Keys :
        attempts[k].status # "none" => contracts[k.target].status # "draft"

(* Of the attempts one provider holds for a contract one is payable.       *)
OneActiveAttempt == Gateway!OneActiveAttempt

(* Online payment is nothing to the contract but bills opened, reviews     *)
(* chosen and amounts settled: the composition is a behaviour of           *)
(* ContractBilling.                                                        *)
ImplementsBilling == BillingSpec

=============================================================================
