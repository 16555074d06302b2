--------------------------- MODULE PaymentGateway ---------------------------
(***************************************************************************)
(* The payment_attempts table and the code that writes it: the checkout    *)
(* endpoint and the provider webhooks of PaymentGatewayService.php.        *)
(*                                                                         *)
(* A checkout is not one transaction.  It reads the target (a contract or  *)
(* a service request) and what is due on it, then opens or reuses an       *)
(* attempt in a transaction of its own, then calls the provider over HTTP  *)
(* outside any transaction, and last records what the provider answered,   *)
(* without looking at the attempt again.  The hosted page of an attempt    *)
(* stays payable at the provider whatever the application does to the row, *)
(* so a notification for it may arrive at any time, any number of times.   *)
(*                                                                         *)
(* The target is the environment here: what it says is due, and whether it *)
(* takes a settlement, is any choice.  ContractCheckout replaces these     *)
(* choices by the contract's own rules.                                    *)
(***************************************************************************)

CONSTANTS
    Providers,  \* 'paymob' and 'kashier'
    Targets,    \* what is paid for; each has one paying client
    Dues,       \* the amounts (with their stage) a target may ask for
    Calls,      \* checkout requests that may be in flight at once
    None        \* no provider, no target, no amount

ASSUME NoneAssumption == None \notin Providers \cup Targets \cup Dues

VARIABLES
    attempts,   \* one row per idempotency key
    calls,      \* the checkout requests in flight
    pages       \* keys for which a client was handed a hosted page

gatewayVars == <<attempts, calls, pages>>

(* idempotency_key hashes provider, user, target, amount and stage; the    *)
(* user is the target's client, the stage goes with the amount.            *)
Keys == [provider : Providers, target : Targets, due : Dues]

AttemptStatuses == {"none", "created", "pending", "paid", "failed", "cancelled"}
ActiveStatuses  == {"created", "pending"}
ClosedStatuses  == {"failed", "cancelled"}

CallSteps == {"idle", "target", "attempt", "provider"}
CallRows  == [at       : CallSteps,
              provider : Providers \cup {None},
              target   : Targets \cup {None},
              due      : Dues \cup {None}]

Idle == [at |-> "idle", provider |-> None, target |-> None, due |-> None]

KeyOf(call) == [provider |-> call.provider, target |-> call.target, due |-> call.due]

Active(k) == attempts[k].status \in ActiveStatuses

GatewayTypeOK ==
    /\ attempts \in [Keys -> [status : AttemptStatuses, url : BOOLEAN]]
    /\ calls \in [Calls -> CallRows]
    /\ \A c \in Calls :
         /\ calls[c].at = "target" => calls[c].provider # None /\ calls[c].target # None
         /\ calls[c].at \in {"attempt", "provider"} => KeyOf(calls[c]) \in Keys
    /\ pages \subseteq Keys

GatewayInit ==
    /\ attempts = [k \in Keys |-> [status |-> "none", url |-> FALSE]]
    /\ calls = [c \in Calls |-> Idle]
    /\ pages = {}

-----------------------------------------------------------------------------
(* The checkout, step by step.                                             *)

StartCheckout(c, p, t) ==
    /\ calls[c].at = "idle"
    /\ calls' = [calls EXCEPT ![c] = [at |-> "target", provider |-> p, target |-> t, due |-> None]]
    /\ UNCHANGED <<attempts, pages>>

ReadTarget_ForgetsDue(c, due) ==
    /\ calls[c].at = "target"
    /\ calls' = [calls EXCEPT ![c].at = "attempt"]
    /\ UNCHANGED <<attempts, pages>>

(* target() ran and answered: this much is due.                            *)
ReadTarget(c, due) ==
    /\ calls[c].at = "target"
    /\ calls' = [calls EXCEPT ![c].at = "attempt", ![c].due = due]
    /\ UNCHANGED <<attempts, pages>>

(* The request ends early: the target refused it, or the process died      *)
(* between two of its steps.                                               *)
EndCall(c) ==
    /\ calls[c].at # "idle"
    /\ calls' = [calls EXCEPT ![c] = Idle]
    /\ UNCHANGED <<attempts, pages>>

Superseded_OnlyCreated(j, k) ==
    /\ j # k
    /\ j.provider = k.provider
    /\ j.target = k.target
    /\ attempts[j].status = "created"

(* cancelSupersededAttempts: other amounts of the same provider, client    *)
(* and target that are still payable.                                      *)
Superseded(j, k) ==
    /\ j # k
    /\ j.provider = k.provider
    /\ j.target = k.target
    /\ Active(j)

(* The row of the key itself: reset if it is closed, else reused as it is. *)
OpenedAttempt(old) ==
    IF old.status \in ClosedStatuses \cup {"none"}
    THEN [status |-> "created", url |-> FALSE]
    ELSE old

OpenAttempts(k) ==
    [j \in Keys |-> IF j = k THEN OpenedAttempt(attempts[k])
                    ELSE IF Superseded(j, k) THEN [status |-> "cancelled", url |-> FALSE]
                    ELSE attempts[j]]

IsNewRow(k) == attempts[k].status = "none"

OpenAttempt(c) ==
    LET k == KeyOf(calls[c]) IN
    /\ calls[c].at = "attempt"
    /\ attempts' = OpenAttempts(k)
    /\ calls' = [calls EXCEPT ![c] = IF OpenedAttempt(attempts[k]).url
                                     THEN Idle
                                     ELSE [@ EXCEPT !.at = "provider"]]
    /\ UNCHANGED pages

(* The provider created a session: the row becomes payable, whatever it    *)
(* has become since OpenAttempt, and the client is sent to the page.       *)
RecordSession(c) ==
    LET k == KeyOf(calls[c]) IN
    /\ calls[c].at = "provider"
    /\ attempts' = [attempts EXCEPT ![k] = [status |-> "pending", url |-> TRUE]]
    /\ pages' = pages \cup {k}
    /\ calls' = [calls EXCEPT ![c] = Idle]

(* The provider refused or did not answer within the time limit.           *)
RecordProviderError(c) ==
    LET k == KeyOf(calls[c]) IN
    /\ calls[c].at = "provider"
    /\ attempts' = [attempts EXCEPT ![k].status = "failed"]
    /\ calls' = [calls EXCEPT ![c] = Idle]
    /\ UNCHANGED pages

-----------------------------------------------------------------------------
(* The webhooks.  A notification that is not a success (a decline, but     *)
(* also a provider's "still pending") closes the attempt unless it is paid.*)

WebhookFailure_Unguarded(k) ==
    /\ k \in pages
    /\ attempts' = [attempts EXCEPT ![k].status = "failed"]
    /\ UNCHANGED <<calls, pages>>

WebhookFailure(k) ==
    /\ k \in pages
    /\ attempts[k].status # "paid"
    /\ attempts' = [attempts EXCEPT ![k].status = "failed"]
    /\ UNCHANGED <<calls, pages>>

Settleable(k) == Active(k)

(* A success settles an active attempt.  A paid attempt answers "paid"     *)
(* again and a closed one answers 409: neither changes anything.  The      *)
(* target may refuse, which rolls the transaction back.                    *)
WebhookSuccess(k) ==
    /\ k \in pages
    /\ Settleable(k)
    /\ attempts' = [attempts EXCEPT ![k].status = "paid"]
    /\ UNCHANGED <<calls, pages>>

GatewayNext ==
    \/ \E c \in Calls, p \in Providers, t \in Targets : StartCheckout(c, p, t)
    \/ \E c \in Calls, due \in Dues : ReadTarget(c, due)
    \/ \E c \in Calls : EndCall(c)
    \/ \E c \in Calls : OpenAttempt(c)
    \/ \E c \in Calls : RecordSession(c)
    \/ \E c \in Calls : RecordProviderError(c)
    \/ \E k \in Keys : WebhookFailure(k)
    \/ \E k \in Keys : WebhookSuccess(k)

GatewaySpec == GatewayInit /\ [][GatewayNext]_gatewayVars

-----------------------------------------------------------------------------
(* At most one attempt of a provider is payable per target: opening an     *)
(* attempt for a new amount cancels the old one.  It holds while checkouts *)
(* of a target do not overlap, and fails when two do: RecordSession of the *)
(* first revives the attempt the second has just superseded.               *)
OneActiveAttempt ==
    \A j, k \in Keys :
        (j.provider = k.provider /\ j.target = k.target /\ Active(j) /\ Active(k)) => j = k

(* A paid attempt stays paid through late and repeated notifications and   *)
(* new checkouts; only a checkout whose provider call for the very same key*)
(* is still in flight can reopen it.                                       *)
PaidReopensOnlyInFlight ==
    [][\A k \in Keys :
         attempts[k].status = "paid" =>
            \/ attempts'[k].status = "paid"
            \/ \E c \in Calls : calls[c].at = "provider" /\ KeyOf(calls[c]) = k]_gatewayVars

=============================================================================
