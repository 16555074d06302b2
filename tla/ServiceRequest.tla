---------------------------- MODULE ServiceRequest ----------------------------
(***************************************************************************)
(* A client's service request, its appointment and its payments: a         *)
(* contract review (which reserves an appointment) or a contract drafting. *)
(* The client pays a deposit before the work and the balance before the    *)
(* final document is shown.                                                *)
(*                                                                         *)
(* Most handlers lock the request's row and are one step.  The client's    *)
(* are not: a receipt upload and a checkout look at the request and its    *)
(* appointment before the transaction they write in, and confirming the    *)
(* result or asking for a revision reads the request without a lock.       *)
(* "doing" is what the client has in flight, possibly from several tabs.   *)
(* Provider notifications come at any time; which of the attempts at one   *)
(* provider a notification can still settle is PaymentGateway's subject.   *)
(*                                                                         *)
(* One receipt per request is open at a time (ContractBilling shows it of  *)
(* the same code), so a request has a single receipt here.  The weekly     *)
(* schedule is fixed; that a slot is closed or past is a reservation that  *)
(* does not happen.                                                        *)
(***************************************************************************)
EXTENDS Naturals, FiniteSets

CONSTANTS
    Requests,
    Types,          \* of 'contract_review' and 'contract_drafting'
    Slots,          \* start times offered by the schedule
    Channels,       \* 'zoom' and 'whatsapp'
    Providers,      \* payment providers
    TotalCapacity,  \* total_capacity of a schedule window
    ChannelCapacity,\* zoom_capacity and whatsapp_capacity
    Deposit,        \* serviceDepositEgp
    Total,          \* serviceTotalPriceEgp
    None

ASSUME RequestsAssumption == IsFiniteSet(Requests)
ASSUME TypesAssumption == Types \subseteq {"contract_review", "contract_drafting"}
ASSUME PricesAssumption == Deposit \in Nat /\ Total \in Nat /\ Deposit <= Total
ASSUME CapacityAssumption ==
    TotalCapacity \in Nat /\ ChannelCapacity \in Nat /\ ChannelCapacity <= TotalCapacity
ASSUME NoneAssumption == None \notin Slots \cup Channels \cup Types

VARIABLES
    requests,   \* service_requests, with the payment part of metadata_json
    bookings,   \* consultation_bookings
    receipts,   \* the open receipt of a request
    attempts,   \* its payable gateway attempts
    doing,      \* the handlers its client has in flight
    late        \* history: bookings made active again without a reservation

vars == <<requests, bookings, receipts, attempts, doing, late>>

-----------------------------------------------------------------------------

Statuses == {"none", "awaiting_payment", "new", "assigned", "in_progress", "awaiting_client_info",
             "client_review", "revision_requested", "completed", "cancelled"}

Stages == {"deposit", "working", "balance", "paid"}

RequestRows == [type : Types \cup {None}, status : Statuses, stage : Stages,
                due : Nat, paid : Nat, final : {"none", "latest", "earlier"}]

ActiveBookings == {"pending_payment", "pending_verification", "needs_client_info",
                   "confirmed", "meeting_scheduled"}
BookingStatuses == ActiveBookings \cup {"none", "expired", "cancelled", "completed"}

(* "held" says whether expires_at is still ahead; it is read while the     *)
(* booking waits for its payment only.                                     *)
BookingRows == [status : BookingStatuses, slot : Slots \cup {None},
                channel : Channels \cup {None}, held : BOOLEAN]

ReceiptRows == [status : {"none", "pending_verification", "needs_client_info"}, amount : Nat]
AttemptRows == [provider : Providers, amount : Nat]
Errands     == [what : {"upload", "checkout", "confirm", "close_booking", "revise"}, amount : Nat]

TypeOK ==
    /\ requests \in [Requests -> RequestRows]
    /\ bookings \in [Requests -> BookingRows]
    /\ receipts \in [Requests -> ReceiptRows]
    /\ attempts \in [Requests -> SUBSET AttemptRows]
    /\ doing \in [Requests -> SUBSET Errands]
    /\ late \subseteq Requests

NoReceipt == [status |-> "none", amount |-> 0]

Init ==
    /\ requests = [r \in Requests |-> [type |-> None, status |-> "none", stage |-> "deposit",
                                       due |-> 0, paid |-> 0, final |-> "none"]]
    /\ bookings = [r \in Requests |-> [status |-> "none", slot |-> None, channel |-> None, held |-> FALSE]]
    /\ receipts = [r \in Requests |-> NoReceipt]
    /\ attempts = [r \in Requests |-> {}]
    /\ doing = [r \in Requests |-> {}]
    /\ late = {}

-----------------------------------------------------------------------------
(* The appointment book.                                                   *)

SupportsBooking(r) == requests[r].type = "contract_review"

(* A booking takes a place while it is active and, if it waits for its     *)
(* payment, while its hold has not run out.                                *)
Counted(b) == b.status \in ActiveBookings /\ (b.status = "pending_payment" => b.held)

Taken(slot, without) ==
    {q \in Requests \ {without} : Counted(bookings[q]) /\ bookings[q].slot = slot}

Fits_OffByOne(r, slot, channel) ==
    /\ Cardinality(Taken(slot, r)) < TotalCapacity
    /\ Cardinality({q \in Taken(slot, r) : bookings[q].channel = channel}) <= ChannelCapacity

Fits(r, slot, channel) ==
    /\ Cardinality(Taken(slot, r)) < TotalCapacity
    /\ Cardinality({q \in Taken(slot, r) : bookings[q].channel = channel}) < ChannelCapacity

(* reserve: under a lock on the schedule window.                           *)
Reserve(r, slot, channel, status) ==
    /\ Fits(r, slot, channel)
    /\ bookings' = [bookings EXCEPT ![r] = [status |-> status, slot |-> slot, channel |-> channel,
                                            held |-> status = "pending_payment"]]
    /\ late' = late \ {r}

(* setBookingStatus: the status alone, whatever the booking has become.    *)
(* "late" remembers the bookings it made active that were not.             *)
SetBooking(r, status) ==
    /\ bookings' = [bookings EXCEPT ![r].status = status, ![r].held = FALSE]
    /\ late' = IF status \in ActiveBookings /\ ~Counted(bookings[r]) THEN late \cup {r}
               ELSE IF status \in ActiveBookings THEN late
               ELSE late \ {r}

KeepBooking == UNCHANGED <<bookings, late>>

-----------------------------------------------------------------------------
(* What the client has in flight.                                          *)

(* A handler has read what it decides on; a second call that reads the     *)
(* same before the first one writes adds nothing.                          *)
Begin(r, what, amount) ==
    /\ doing' = [doing EXCEPT ![r] = @ \cup {[what |-> what, amount |-> amount]}]
    /\ UNCHANGED <<requests, bookings, receipts, attempts, late>>

InFlight(r, what) == {e \in doing[r] : e.what = what}

Ends(r, e) == doing' = [doing EXCEPT ![r] = @ \ {e}]

(* assertPaymentHoldActive lets a booking through that takes its place.    *)
HoldActive(r) == Counted(bookings[r])

(* The deposit of a review is what an appointment waits for.               *)
NeedsHold(r) == SupportsBooking(r) /\ requests[r].stage # "balance"

(* assertPaymentHoldActive, of a receipt upload or a checkout, commits on  *)
(* its own: it marks a lapsed hold as expired and refuses.                 *)
ExpireHold(r) ==
    /\ requests[r].status = "awaiting_payment" /\ NeedsHold(r)
    /\ bookings[r].status = "pending_payment" /\ ~bookings[r].held
    /\ SetBooking(r, "expired")
    /\ UNCHANGED <<requests, receipts, attempts, doing>>

(* Time: the hold of a booking runs out.                                   *)
HoldLapses(r) ==
    /\ bookings[r].held
    /\ bookings' = [bookings EXCEPT ![r].held = FALSE]
    /\ UNCHANGED <<requests, receipts, attempts, doing, late>>

-----------------------------------------------------------------------------
(* The request.                                                            *)

Create(r, type, slot, channel) ==
    /\ requests[r].status = "none"
    /\ requests' = [requests EXCEPT ![r] =
            [type   |-> type,
             status |-> IF Deposit > 0 THEN "awaiting_payment" ELSE "new",
             stage  |-> IF Deposit > 0 THEN "deposit" ELSE "working",
             due |-> Deposit, paid |-> 0, final |-> "none"]]
    /\ IF type = "contract_review"
       THEN Reserve(r, slot, channel, IF Deposit > 0 THEN "pending_payment" ELSE "confirmed")
       ELSE KeepBooking
    /\ UNCHANGED <<receipts, attempts, doing>>

StaffMoves_AskFirst ==
    [s \in Statuses |->
        CASE s = "awaiting_payment"     -> {"awaiting_client_info", "cancelled"}
          [] s = "awaiting_client_info" -> {"new", "cancelled"}
          [] OTHER                      -> {}]

(* STAFF_TRANSITIONS of the two types, which are the same.                 *)
StaffMoves ==
    [s \in Statuses |->
        CASE s = "awaiting_payment"     -> {"cancelled"}
          [] s = "new"                  -> {"assigned", "in_progress", "awaiting_client_info", "cancelled"}
          [] s = "assigned"             -> {"in_progress", "awaiting_client_info", "cancelled"}
          [] s = "awaiting_client_info" -> {"new", "assigned", "in_progress", "cancelled"}
          [] s = "in_progress"          -> {"client_review", "awaiting_client_info", "cancelled"}
          [] s = "client_review"        -> {"revision_requested", "completed", "cancelled"}
          [] s = "revision_requested"   -> {"in_progress", "client_review", "cancelled"}
          [] OTHER                      -> {}]

FullyPaid(row) == row.paid >= Total

SetStatus_UnpaidCompletion(r, to) ==
    /\ to \in StaffMoves[requests[r].status]
    /\ requests' = [requests EXCEPT ![r].status = to]
    /\ IF SupportsBooking(r) /\ to \in {"cancelled", "completed"} THEN SetBooking(r, to) ELSE KeepBooking
    /\ UNCHANGED <<receipts, attempts, doing>>

SetStatus_EndsMeeting(r, to) ==
    /\ to \in StaffMoves[requests[r].status]
    /\ to = "completed" => FullyPaid(requests[r])
    /\ requests' = [requests EXCEPT ![r].status = to]
    /\ IF ~SupportsBooking(r) THEN KeepBooking
       ELSE IF to = "client_review" THEN SetBooking(r, "completed")
       ELSE IF to \in {"cancelled", "completed"} THEN SetBooking(r, to) ELSE KeepBooking
    /\ UNCHANGED <<receipts, attempts, doing>>

(* status(): only a settled request is completed.                          *)
SetStatus(r, to) ==
    /\ to \in StaffMoves[requests[r].status]
    /\ to = "completed" => FullyPaid(requests[r])
    /\ requests' = [requests EXCEPT ![r].status = to]
    /\ IF SupportsBooking(r) /\ to \in {"cancelled", "completed"} THEN SetBooking(r, to) ELSE KeepBooking
    /\ UNCHANGED <<receipts, attempts, doing>>

(* The client cancels what is unpaid and not yet begun.                    *)
Cancel(r) ==
    /\ requests[r].status \in {"awaiting_payment", "new"}
    /\ requests[r].paid = 0
    /\ requests' = [requests EXCEPT ![r].status = "cancelled"]
    /\ IF SupportsBooking(r) THEN SetBooking(r, "cancelled") ELSE KeepBooking
    /\ UNCHANGED <<receipts, attempts, doing>>

MeetingStatuses_Unpaid == {"awaiting_payment", "new", "assigned", "awaiting_client_info", "in_progress"}

MeetingStatuses == {"new", "assigned", "awaiting_client_info", "in_progress",
                    "client_review", "revision_requested"}

Meeting(r, slot, channel) ==
    /\ SupportsBooking(r)
    /\ requests[r].status \in MeetingStatuses
    /\ Reserve(r, slot, channel, "meeting_scheduled")
    /\ UNCHANGED <<requests, receipts, attempts, doing>>

LinkContract(r) ==
    /\ requests[r].type = "contract_drafting"
    /\ requests[r].status \in {"new", "assigned", "in_progress"}
    /\ requests' = [requests EXCEPT ![r].status = "in_progress"]
    /\ UNCHANGED <<bookings, receipts, attempts, doing, late>>

Hidden(row) == row.final = "latest" /\ row.stage = "balance" /\ row.paid < Total

Earlier(final) == IF final = "none" THEN "none" ELSE "earlier"

(* A final deliverable asks for what is still unpaid before it is shown.   *)
Delivered(row, final) ==
    IF ~final THEN [row EXCEPT !.status = "client_review", !.final = Earlier(@)]
    ELSE IF FullyPaid(row)
    THEN [row EXCEPT !.status = "client_review", !.final = "latest", !.stage = "paid", !.due = 0]
    ELSE [row EXCEPT !.status = "awaiting_payment", !.final = "latest", !.stage = "balance",
                     !.due = Total - row.paid]

Deliver(r, final) ==
    /\ requests[r].status \in {"in_progress", "revision_requested", "client_review"}
    /\ requests' = [requests EXCEPT ![r] = Delivered(@, final)]
    /\ UNCHANGED <<bookings, receipts, attempts, doing, late>>

(* Another slot, while nothing has been paid or sent for review.           *)
Rebook(r, slot, channel) ==
    /\ SupportsBooking(r)
    /\ requests[r].status = "awaiting_payment"
    /\ requests[r].stage # "balance"
    /\ receipts[r].status # "pending_verification" /\ requests[r].paid = 0
    /\ Reserve(r, slot, channel, "pending_payment")
    /\ UNCHANGED <<requests, receipts, attempts, doing>>

-----------------------------------------------------------------------------
(* Its payments.                                                           *)

PaymentState_StaleBill(row, approved) ==
    IF row.stage = "balance"
    THEN IF approved >= Total
         THEN [row EXCEPT !.paid = approved, !.status = "client_review", !.stage = "paid", !.due = 0]
         ELSE [row EXCEPT !.paid = approved]
    ELSE [row EXCEPT !.paid = approved, !.status = "new", !.stage = "working", !.due = 0]

PaymentState_ExactOnly(row, approved) ==
    LET paid == [row EXCEPT !.paid = approved] IN
    IF row.stage = "balance"
    THEN IF approved = Total
         THEN [paid EXCEPT !.status = "client_review", !.stage = "paid", !.due = 0]
         ELSE [paid EXCEPT !.due = Total - approved]
    ELSE [paid EXCEPT !.status = "new", !.stage = "working", !.due = 0]

(* servicePaymentState, of what is approved with the new payment.          *)
PaymentState(row, approved) ==
    LET paid == [row EXCEPT !.paid = approved] IN
    IF row.stage = "balance"
    THEN IF approved >= Total
         THEN [paid EXCEPT !.status = "client_review", !.stage = "paid", !.due = 0]
         ELSE [paid EXCEPT !.due = Total - approved]
    ELSE IF approved >= Deposit
    THEN [paid EXCEPT !.status = "new", !.stage = "working", !.due = 0]
    ELSE paid

Awaiting(r) == requests[r].status = "awaiting_payment" /\ requests[r].due > 0

Settled(r, amount) ==
    /\ requests' = [requests EXCEPT ![r] = PaymentState(@, @.paid + amount)]
    /\ IF NeedsHold(r) THEN SetBooking(r, "confirmed") ELSE KeepBooking

(* createReceipt looks for the request and its hold before its transaction. *)
UploadRead(r) ==
    /\ requests[r].status # "none"
    /\ requests[r].status = "awaiting_payment" /\ NeedsHold(r) => HoldActive(r)
    /\ Begin(r, "upload", 0)

(* A clarified receipt is replaced by the new one.                         *)
UploadWrite(r) ==
    \E e \in InFlight(r, "upload") :
        /\ Awaiting(r)
        /\ receipts[r].status # "pending_verification"
        /\ receipts' = [receipts EXCEPT ![r] = [status |-> "pending_verification", amount |-> requests[r].due]]
        /\ IF NeedsHold(r) THEN SetBooking(r, "pending_verification") ELSE KeepBooking
        /\ Ends(r, e)
        /\ UNCHANGED <<requests, attempts>>

Approve(r) ==
    /\ receipts[r].status = "pending_verification"
    /\ Awaiting(r)
    /\ receipts[r].amount = requests[r].due
    /\ Settled(r, receipts[r].amount)
    /\ receipts' = [receipts EXCEPT ![r] = NoReceipt]
    /\ UNCHANGED <<attempts, doing>>

(* Asking about a receipt, or rejecting it, does not look at the status of *)
(* the request.                                                            *)
RequestClarification(r) ==
    /\ receipts[r].status = "pending_verification"
    /\ receipts' = [receipts EXCEPT ![r].status = "needs_client_info"]
    /\ IF NeedsHold(r) THEN SetBooking(r, "needs_client_info") ELSE KeepBooking
    /\ UNCHANGED <<requests, attempts, doing>>

Reject(r) ==
    /\ receipts[r].status # "none"
    /\ receipts' = [receipts EXCEPT ![r] = NoReceipt]
    /\ IF NeedsHold(r) THEN SetBooking(r, "cancelled") ELSE KeepBooking
    /\ UNCHANGED <<requests, attempts, doing>>

(* recordRemainingPayment, and recordManual of a service request.          *)
RecordRemaining(r) ==
    /\ Awaiting(r) /\ requests[r].stage = "balance"
    /\ Settled(r, requests[r].due)
    /\ UNCHANGED <<receipts, attempts, doing>>

(* createCheckout reads its target before its transaction.                 *)
CheckoutRead(r) ==
    /\ Awaiting(r)
    /\ NeedsHold(r) => HoldActive(r)
    /\ Begin(r, "checkout", requests[r].due)

(* The attempts of the provider for another amount are superseded.         *)
CheckoutOpen(r, p) ==
    \E e \in InFlight(r, "checkout") :
        /\ attempts' = [attempts EXCEPT ![r] = {a \in @ : a.provider # p} \cup
                                               {[provider |-> p, amount |-> e.amount]}]
        /\ Ends(r, e)
        /\ UNCHANGED <<requests, bookings, receipts, late>>

(* The provider declines, and the attempt has failed.                      *)
AttemptFails(r) ==
    \E a \in attempts[r] :
        /\ attempts' = [attempts EXCEPT ![r] = @ \ {a}]
        /\ UNCHANGED <<requests, bookings, receipts, doing, late>>

SettleAttempt_AnyStatus(r) ==
    \E a \in attempts[r] :
        /\ Settled(r, a.amount)
        /\ attempts' = [attempts EXCEPT ![r] = @ \ {a}]
        /\ UNCHANGED <<receipts, doing>>

(* settleServiceRequest: at whatever amount the attempt was opened.        *)
SettleAttempt(r) ==
    \E a \in attempts[r] :
        /\ requests[r].status = "awaiting_payment"
        /\ Settled(r, a.amount)
        /\ attempts' = [attempts EXCEPT ![r] = @ \ {a}]
        /\ UNCHANGED <<receipts, doing>>

-----------------------------------------------------------------------------
(* The client's decision on the result.                                    *)

ConfirmRead(r) ==
    /\ requests[r].status = "client_review"
    /\ FullyPaid(requests[r])
    /\ Begin(r, "confirm", 0)

(* The write does not look at the request again, and the booking is closed *)
(* in a statement of its own.                                              *)
ConfirmWrite(r) ==
    \E e \in InFlight(r, "confirm") :
        /\ requests' = [requests EXCEPT ![r].status = "completed"]
        /\ doing' = [doing EXCEPT ![r] = (@ \ {e}) \cup
                (IF SupportsBooking(r) THEN {[what |-> "close_booking", amount |-> 0]} ELSE {})]
        /\ UNCHANGED <<bookings, receipts, attempts, late>>

CloseBooking(r) ==
    \E e \in InFlight(r, "close_booking") :
        /\ SetBooking(r, "completed")
        /\ Ends(r, e)
        /\ UNCHANGED <<requests, receipts, attempts>>

RevisionRead(r) == requests[r].status = "client_review" /\ Begin(r, "revise", 0)

RevisionWrite(r) ==
    \E e \in InFlight(r, "revise") :
        /\ requests' = [requests EXCEPT ![r].status = "revision_requested"]
        /\ Ends(r, e)
        /\ UNCHANGED <<bookings, receipts, attempts, late>>

(* A handler is refused at its write, or its process dies.                 *)
Abandon(r) ==
    \E e \in doing[r] :
        /\ Ends(r, e)
        /\ UNCHANGED <<requests, bookings, receipts, attempts, late>>

-----------------------------------------------------------------------------

RequestStep(r) ==
    \/ HoldLapses(r) \/ ExpireHold(r)
    \/ \E type \in Types, s \in Slots, c \in Channels : Create(r, type, s, c)
    \/ \E to \in Statuses : SetStatus(r, to)
    \/ Cancel(r) \/ LinkContract(r)
    \/ \E s \in Slots, c \in Channels : Meeting(r, s, c) \/ Rebook(r, s, c)
    \/ \E final \in BOOLEAN : Deliver(r, final)
    \/ UploadRead(r) \/ UploadWrite(r)
    \/ Approve(r) \/ RequestClarification(r) \/ Reject(r) \/ RecordRemaining(r)
    \/ CheckoutRead(r) \/ \E p \in Providers : CheckoutOpen(r, p)
    \/ AttemptFails(r) \/ SettleAttempt(r)
    \/ ConfirmRead(r) \/ ConfirmWrite(r) \/ CloseBooking(r)
    \/ RevisionRead(r) \/ RevisionWrite(r)
    \/ Abandon(r)

Next == \E r \in Requests : RequestStep(r)

Spec == Init /\ [][Next]_vars

-----------------------------------------------------------------------------
(* Properties.                                                             *)

Occupied(slot, except) ==
    {r \in Requests \ except : bookings[r].slot = slot /\ HoldActive(r)}

(* A slot is never given to more clients than the office has places for,   *)
(* except by payments and receipts that come after a hold was lost.        *)
Capacity ==
    \A s \in Slots :
        /\ Cardinality(Occupied(s, late)) <= TotalCapacity
        /\ \A c \in Channels :
               Cardinality({r \in Occupied(s, late) : bookings[r].channel = c}) <= ChannelCapacity

(* No request is worked on before its deposit is approved, however the     *)
(* client's unlocked writes and the staff's moves interleave.              *)
DepositBeforeWork ==
    \A r \in Requests :
        requests[r].status \notin {"none", "awaiting_payment", "cancelled"} =>
            requests[r].paid >= Deposit

(* A request is completed only when it is paid in full: the confirmation   *)
(* writes without a lock what it has checked earlier.                      *)
CompletedIsPaid == \A r \in Requests : requests[r].status = "completed" => FullyPaid(requests[r])

(* What a client is asked for is what is missing, also after a payment of  *)
(* another amount has settled in between.                                  *)
BillIsOutstanding ==
    \A r \in Requests :
        requests[r].status = "awaiting_payment" =>
            /\ requests[r].due > 0
            /\ requests[r].stage \in {"deposit", "balance"}
            /\ requests[r].due = (IF requests[r].stage = "balance" THEN Total ELSE Deposit) - requests[r].paid

(* A final document that is not paid in full is hidden: show() looks at    *)
(* the latest deliverable and at the stage, never at the earlier ones.     *)
FinalIsHidden ==
    \A r \in Requests :
        requests[r].final # "none" /\ ~FullyPaid(requests[r]) => Hidden(requests[r])

(* An appointment is confirmed only for a client whose deposit is in.      *)
ConfirmedIsPaid ==
    \A r \in Requests :
        bookings[r].status \in {"confirmed", "meeting_scheduled"} => requests[r].paid >= Deposit

LosesPaidSlot(r) ==
    /\ requests[r].paid >= Deposit
    /\ bookings[r].status \in ActiveBookings
    /\ bookings'[r].status \notin ActiveBookings

SlotIsGivenUp(r) ==
    \/ requests'[r].status \in {"completed", "cancelled"}
    \/ receipts[r].status # "none" /\ receipts'[r].status = "none"
    \/ InFlight(r, "close_booking") # {}

(* A client who has paid the deposit loses the appointment only with the   *)
(* request's end, by the rejection of a receipt, or by the last statement  *)
(* of a confirmation.                                                      *)
PaidSlotIsKept ==
    [][\A r \in Requests : LosesPaidSlot(r) => SlotIsGivenUp(r)]_vars

(* What has become of a request for its client's purse: an unpaid one waits *)
(* for its deposit or for its balance.                                     *)
Phase(row) ==
    CASE row.status = "awaiting_payment" -> row.stage
      [] row.status \in {"none", "completed", "cancelled"} -> row.status
      [] OTHER -> "open"

Service == INSTANCE PaidService WITH
    Services <- Requests,
    phase <- [r \in Requests |-> Phase(requests[r])],
    paid  <- [r \in Requests |-> requests[r].paid]

(* Requests are paid services: whatever the client has in flight and the   *)
(* providers notify, work begins with the deposit and ends as completed    *)
(* with the total, a payment is one that was asked for, none is taken back,*)
(* and a late decision of the client revives nothing that is unpaid.       *)
ImplementsPaidService == Service!Spec

=============================================================================
