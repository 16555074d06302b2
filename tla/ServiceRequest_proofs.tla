------------------------ MODULE ServiceRequest_proofs ------------------------
(***************************************************************************)
(* What is promised of a service request holds for every set of requests,  *)
(* slots, channels and providers, and for every price and capacity.        *)
(*                                                                         *)
(* A step touches one request.  What the client's unlocked writes rest on  *)
(* is kept in the cells of that request: an errand that will confirm has   *)
(* seen it paid in full, one that will ask for a revision has seen its     *)
(* deposit, and while the deposit is the stage nothing is paid and every   *)
(* attempt and every checkout in flight is for the deposit itself.         *)
(***************************************************************************)
EXTENDS ServiceRequest, TLAPS, FiniteSetTheorems

(* The properties of one request, said of its row and its booking.         *)
WorkNeedsDeposit(row) ==
    row.status \notin {"none", "awaiting_payment", "cancelled"} => row.paid >= Deposit
EndNeedsTotal(row) == row.status = "completed" => FullyPaid(row)
BillFits(row) ==
    row.status = "awaiting_payment" =>
        /\ row.due > 0
        /\ row.stage \in {"deposit", "balance"}
        /\ row.due = (IF row.stage = "balance" THEN Total ELSE Deposit) - row.paid
MeetingNeedsDeposit(row, booking) ==
    booking.status \in {"confirmed", "meeting_scheduled"} => row.paid >= Deposit

(* What has to be known besides.                                           *)
StageFits(row) ==
    /\ row.status = "none" => row.stage = "deposit"
    /\ row.stage = "deposit" => row.paid = 0
    /\ row.stage # "deposit" => row.paid >= Deposit
DepositsOnly(row, open, errands) ==
    row.stage = "deposit" =>
        /\ \A a \in open : a.amount = Deposit
        /\ \A e \in errands : e.what = "checkout" => e.amount = Deposit
ErrandsHaveSeen(row, errands) ==
    \A e \in errands : /\ e.what = "confirm" => FullyPaid(row)
                       /\ e.what = "revise" => row.paid >= Deposit

Sound(row, booking, open, errands) ==
    /\ WorkNeedsDeposit(row) /\ EndNeedsTotal(row) /\ BillFits(row)
    /\ MeetingNeedsDeposit(row, booking)
    /\ StageFits(row) /\ DepositsOnly(row, open, errands) /\ ErrandsHaveSeen(row, errands)

SoundAt(r) == Sound(requests[r], bookings[r], attempts[r], doing[r])

RequestInv == TypeOK /\ \A r \in Requests : SoundAt(r)

(* A step that writes these values in the cells of r.                      *)
Writes(r, row, booking, open, errands) ==
    /\ requests' = [requests EXCEPT ![r] = row]
    /\ bookings' = [bookings EXCEPT ![r] = booking]
    /\ attempts' = [attempts EXCEPT ![r] = open]
    /\ doing' = [doing EXCEPT ![r] = errands]

CellTypes(row, booking, open, errands) ==
    /\ row \in RequestRows /\ booking \in BookingRows
    /\ open \subseteq AttemptRows /\ errands \subseteq Errands

-----------------------------------------------------------------------------

LEMMA WriteKeeps ==
    ASSUME RequestInv, NEW r \in Requests, NEW row, NEW booking, NEW open, NEW errands,
           CellTypes(row, booking, open, errands), Writes(r, row, booking, open, errands),
           receipts' \in [Requests -> ReceiptRows], late' \subseteq Requests,
           Sound(row, booking, open, errands)
    PROVE  RequestInv'
<1>1. TypeOK'
  BY DEF RequestInv, TypeOK, CellTypes, Writes
<1>2. ASSUME NEW q \in Requests PROVE SoundAt(q)'
  <2>1. CASE q = r
    <3>1. requests'[q] = row /\ bookings'[q] = booking /\ attempts'[q] = open /\ doing'[q] = errands
      BY <2>1 DEF RequestInv, TypeOK, Writes
    <3>2. QED BY <3>1 DEF SoundAt
  <2>2. CASE q # r
    <3>1. /\ requests'[q] = requests[q] /\ bookings'[q] = bookings[q]
          /\ attempts'[q] = attempts[q] /\ doing'[q] = doing[q]
      BY <2>2 DEF RequestInv, TypeOK, Writes
    <3>2. QED BY <3>1 DEF SoundAt, RequestInv
  <2>3. QED BY <2>1, <2>2
<1>3. QED BY <1>1, <1>2 DEF RequestInv

(* What is known of one request: its cells, and that leaving one alone is  *)
(* to write what it holds.                                                 *)
LEMMA Cells ==
    ASSUME RequestInv, NEW r \in Requests
    PROVE  /\ CellTypes(requests[r], bookings[r], attempts[r], doing[r])
           /\ requests[r].status \in Statuses /\ requests[r].stage \in Stages
           /\ requests[r].due \in Nat /\ requests[r].paid \in Nat
           /\ Deposit \in Nat /\ Total \in Nat /\ Deposit <= Total
           /\ Sound(requests[r], bookings[r], attempts[r], doing[r])
           /\ requests = [requests EXCEPT ![r] = requests[r]]
           /\ bookings = [bookings EXCEPT ![r] = bookings[r]]
           /\ attempts = [attempts EXCEPT ![r] = attempts[r]]
           /\ doing = [doing EXCEPT ![r] = doing[r]]
           /\ receipts \in [Requests -> ReceiptRows] /\ receipts[r] \in ReceiptRows
           /\ receipts[r].amount \in Nat /\ late \subseteq Requests
BY PricesAssumption DEF RequestInv, TypeOK, CellTypes, SoundAt, RequestRows, ReceiptRows

(* What the status write of a booking leaves.                              *)
LEMMA BookingSet ==
    ASSUME RequestInv, NEW r \in Requests, NEW s \in BookingStatuses, SetBooking(r, s)
    PROVE  LET b == [bookings[r] EXCEPT !.status = s, !.held = FALSE]
           IN  /\ bookings' = [bookings EXCEPT ![r] = b]
               /\ b \in BookingRows /\ b.status = s
               /\ late' \subseteq Requests
<1>1. bookings[r] \in BookingRows
  BY DEF RequestInv, TypeOK
<1>2. bookings' = [bookings EXCEPT ![r] = [bookings[r] EXCEPT !.status = s, !.held = FALSE]]
  BY DEF SetBooking
<1>3. [bookings[r] EXCEPT !.status = s, !.held = FALSE] \in BookingRows
  BY <1>1 DEF BookingRows
<1>4. [bookings[r] EXCEPT !.status = s, !.held = FALSE].status = s
  BY <1>1 DEF BookingRows
<1>5. late' \subseteq Requests
  BY DEF SetBooking, RequestInv, TypeOK
<1>6. QED BY <1>2, <1>3, <1>4, <1>5

LEMMA BookingReserved ==
    ASSUME RequestInv, NEW r \in Requests, NEW slot \in Slots, NEW channel \in Channels,
           NEW s \in BookingStatuses, Reserve(r, slot, channel, s)
    PROVE  \E b \in BookingRows : /\ b.status = s
                                  /\ bookings' = [bookings EXCEPT ![r] = b]
                                  /\ late' \subseteq Requests
<1> DEFINE b == [status |-> s, slot |-> slot, channel |-> channel, held |-> s = "pending_payment"]
<1>1. b \in BookingRows /\ b.status = s
  BY DEF BookingRows
<1>2. bookings' = [bookings EXCEPT ![r] = b] /\ late' \subseteq Requests
  BY DEF Reserve, RequestInv, TypeOK
<1> HIDE DEF b
<1>3. QED BY <1>1, <1>2

(* A payment settled on a request: what it has to be for the rest to hold. *)
LEMMA SettledIsSound ==
    ASSUME RequestInv, NEW r \in Requests, NEW amount \in Nat, requests[r].status = "awaiting_payment",
           requests[r].stage = "deposit" => amount = Deposit
    PROVE  LET row == PaymentState(requests[r], requests[r].paid + amount)
           IN  /\ row \in RequestRows
               /\ row.paid = requests[r].paid + amount
               /\ row.stage # "deposit" /\ row.paid >= Deposit
               /\ WorkNeedsDeposit(row) /\ EndNeedsTotal(row) /\ BillFits(row) /\ StageFits(row)
<1> DEFINE old == requests[r]
           approved == old.paid + amount
<1>1. /\ old \in RequestRows /\ old.paid \in Nat /\ old.stage \in Stages /\ approved \in Nat
      /\ Deposit \in Nat /\ Total \in Nat /\ Deposit <= Total
      /\ WorkNeedsDeposit(old) /\ BillFits(old) /\ StageFits(old)
  BY Cells DEF Sound, CellTypes
<1>2. CASE old.stage = "balance" /\ approved >= Total
  <2> DEFINE row == [[old EXCEPT !.paid = approved] EXCEPT !.status = "client_review",
                                                         !.stage = "paid", !.due = 0]
  <2>1. PaymentState(old, approved) = row
    BY <1>2 DEF PaymentState
  <2>2. /\ row \in RequestRows /\ row.paid = approved /\ row.status = "client_review"
        /\ row.stage = "paid"
    BY <1>1 DEF RequestRows, Statuses, Stages
  <2> HIDE DEF row
  <2>3. QED BY <1>1, <1>2, <2>1, <2>2 DEF WorkNeedsDeposit, EndNeedsTotal, BillFits, StageFits
<1>3. CASE old.stage = "balance" /\ ~(approved >= Total)
  <2> DEFINE row == [[old EXCEPT !.paid = approved] EXCEPT !.due = Total - approved]
  <2>1. PaymentState(old, approved) = row
    BY <1>3 DEF PaymentState
  <2>2. Total - approved \in Nat /\ Total - approved > 0
    BY <1>1, <1>3
  <2>3. /\ row \in RequestRows /\ row.paid = approved /\ row.status = "awaiting_payment"
        /\ row.stage = "balance" /\ row.due = Total - approved
    BY <1>1, <1>3, <2>2 DEF RequestRows, Statuses, Stages
  <2>4. approved >= Deposit
    BY <1>1, <1>3 DEF StageFits
  <2> HIDE DEF row
  <2>5. QED BY <1>1, <2>1, <2>2, <2>3, <2>4 DEF WorkNeedsDeposit, EndNeedsTotal, BillFits, StageFits
<1>4. CASE old.stage # "balance"
  <2> DEFINE row == [[old EXCEPT !.paid = approved] EXCEPT !.status = "new", !.stage = "working", !.due = 0]
  <2>1. old.stage = "deposit" /\ old.paid = 0 /\ approved = Deposit
    BY <1>1, <1>4 DEF BillFits, StageFits
  <2>2. PaymentState(old, approved) = row
    BY <1>1, <1>4, <2>1 DEF PaymentState
  <2>3. /\ row \in RequestRows /\ row.paid = approved /\ row.status = "new" /\ row.stage = "working"
    BY <1>1 DEF RequestRows, Statuses, Stages
  <2> HIDE DEF row
  <2>4. QED BY <1>1, <2>1, <2>2, <2>3 DEF WorkNeedsDeposit, EndNeedsTotal, BillFits, StageFits
<1>5. QED BY <1>2, <1>3, <1>4

-----------------------------------------------------------------------------
(* One lemma for every kind of step.                                       *)

(* A handler that only reads, or ends.                                     *)
LEMMA ErrandsKeep ==
    ASSUME RequestInv, NEW r \in Requests, NEW errands \in SUBSET Errands,
           doing' = [doing EXCEPT ![r] = errands],
           UNCHANGED <<requests, bookings, receipts, attempts, late>>,
           DepositsOnly(requests[r], attempts[r], errands), ErrandsHaveSeen(requests[r], errands)
    PROVE  RequestInv'
<1>1. Sound(requests[r], bookings[r], attempts[r], errands)
  BY Cells DEF Sound
<1>2. CellTypes(requests[r], bookings[r], attempts[r], errands)
  BY Cells DEF CellTypes
<1>3. Writes(r, requests[r], bookings[r], attempts[r], errands)
  BY Cells DEF Writes
<1>4. receipts' \in [Requests -> ReceiptRows] /\ late' \subseteq Requests
  BY Cells
<1>5. QED BY <1>1, <1>2, <1>3, <1>4, WriteKeeps

LEMMA ErrandSteps ==
    ASSUME RequestInv, NEW r \in Requests,
           \/ UploadRead(r) \/ CheckoutRead(r) \/ ConfirmRead(r) \/ RevisionRead(r) \/ Abandon(r)
    PROVE  RequestInv'
<1>1. /\ requests[r].due \in Nat /\ requests[r].paid \in Nat /\ doing[r] \in SUBSET Errands
      /\ requests[r].stage \in Stages /\ Deposit \in Nat /\ Total \in Nat
      /\ WorkNeedsDeposit(requests[r]) /\ BillFits(requests[r]) /\ StageFits(requests[r])
      /\ DepositsOnly(requests[r], attempts[r], doing[r]) /\ ErrandsHaveSeen(requests[r], doing[r])
  BY Cells DEF Sound, CellTypes
<1>2. ASSUME NEW what \in {"upload", "checkout", "confirm", "revise"}, NEW amount \in Nat,
             Begin(r, what, amount),
             what = "confirm" => FullyPaid(requests[r]),
             what = "revise" => requests[r].paid >= Deposit,
             what = "checkout" /\ requests[r].stage = "deposit" => amount = Deposit
      PROVE  RequestInv'
  <2> DEFINE errands == doing[r] \cup {[what |-> what, amount |-> amount]}
  <2>1. errands \in SUBSET Errands
    BY <1>1 DEF Errands
  <2>2. doing' = [doing EXCEPT ![r] = errands] /\ UNCHANGED <<requests, bookings, receipts, attempts, late>>
    BY <1>2 DEF Begin
  <2>3. DepositsOnly(requests[r], attempts[r], errands)
    BY <1>1, <1>2 DEF DepositsOnly
  <2>4. ErrandsHaveSeen(requests[r], errands)
    BY <1>1, <1>2 DEF ErrandsHaveSeen
  <2> HIDE DEF errands
  <2>5. QED BY <2>1, <2>2, <2>3, <2>4, ErrandsKeep
<1>3. CASE UploadRead(r)
  <2>1. Begin(r, "upload", 0)
    BY <1>3 DEF UploadRead
  <2>2. QED BY <1>2, <2>1
<1>4. CASE CheckoutRead(r)
  <2>1. Begin(r, "checkout", requests[r].due)
    BY <1>4 DEF CheckoutRead
  <2>2. requests[r].stage = "deposit" => requests[r].due = Deposit
    BY <1>1, <1>4 DEF CheckoutRead, Awaiting, BillFits, StageFits
  <2>3. QED BY <1>1, <1>2, <2>1, <2>2
<1>5. CASE ConfirmRead(r)
  <2>1. Begin(r, "confirm", 0) /\ FullyPaid(requests[r])
    BY <1>5 DEF ConfirmRead
  <2>2. QED BY <1>2, <2>1
<1>6. CASE RevisionRead(r)
  <2>1. Begin(r, "revise", 0) /\ requests[r].paid >= Deposit
    BY <1>1, <1>6 DEF RevisionRead, WorkNeedsDeposit
  <2>2. QED BY <1>2, <2>1
<1>7. CASE Abandon(r)
  <2>1. PICK e \in doing[r] : Ends(r, e) /\ UNCHANGED <<requests, bookings, receipts, attempts, late>>
    BY <1>7 DEF Abandon
  <2>2. doing' = [doing EXCEPT ![r] = doing[r] \ {e}]
    BY <2>1 DEF Ends
  <2>3. DepositsOnly(requests[r], attempts[r], doing[r] \ {e}) /\ ErrandsHaveSeen(requests[r], doing[r] \ {e})
    BY <1>1 DEF DepositsOnly, ErrandsHaveSeen
  <2>4. QED BY <1>1, <2>1, <2>2, <2>3, ErrandsKeep
<1>8. QED BY <1>3, <1>4, <1>5, <1>6, <1>7

(* A step on the appointment alone.                                        *)
LEMMA BookingKeeps ==
    ASSUME RequestInv, NEW r \in Requests, NEW b \in BookingRows,
           bookings' = [bookings EXCEPT ![r] = b], MeetingNeedsDeposit(requests[r], b),
           late' \subseteq Requests, UNCHANGED <<requests, receipts, attempts, doing>>
    PROVE  RequestInv'
<1>1. Sound(requests[r], b, attempts[r], doing[r])
  BY Cells DEF Sound
<1>2. CellTypes(requests[r], b, attempts[r], doing[r])
  BY Cells DEF CellTypes
<1>3. Writes(r, requests[r], b, attempts[r], doing[r])
  BY Cells DEF Writes
<1>4. receipts' \in [Requests -> ReceiptRows]
  BY Cells
<1>5. QED BY <1>1, <1>2, <1>3, <1>4, WriteKeeps

LEMMA BookingSteps ==
    ASSUME RequestInv, NEW r \in Requests,
           \/ HoldLapses(r) \/ ExpireHold(r)
           \/ \E s \in Slots, c \in Channels : Meeting(r, s, c) \/ Rebook(r, s, c)
    PROVE  RequestInv'
<1>1. /\ bookings[r] \in BookingRows
      /\ WorkNeedsDeposit(requests[r]) /\ MeetingNeedsDeposit(requests[r], bookings[r])
  BY Cells DEF Sound, CellTypes
<1>2. CASE HoldLapses(r)
  <2> DEFINE b == [bookings[r] EXCEPT !.held = FALSE]
  <2>1. bookings' = [bookings EXCEPT ![r] = b] /\ UNCHANGED <<requests, receipts, attempts, doing, late>>
    BY <1>2 DEF HoldLapses
  <2>2. b \in BookingRows /\ b.status = bookings[r].status
    BY <1>1 DEF BookingRows
  <2> HIDE DEF b
  <2>3. MeetingNeedsDeposit(requests[r], b)
    BY <1>1, <2>2 DEF MeetingNeedsDeposit
  <2>4. late' \subseteq Requests
    BY <2>1, Cells
  <2>5. QED BY <2>1, <2>2, <2>3, <2>4, BookingKeeps
<1>3. CASE ExpireHold(r)
  <2>1. PICK b \in BookingRows : b.status = "expired" /\ bookings' = [bookings EXCEPT ![r] = b]
                                 /\ late' \subseteq Requests
    <3>1. SetBooking(r, "expired") /\ "expired" \in BookingStatuses
      BY <1>3 DEF ExpireHold, BookingStatuses
    <3>2. QED BY <3>1, BookingSet
  <2>2. QED BY <1>3, <2>1, BookingKeeps DEF ExpireHold, MeetingNeedsDeposit
<1>4. ASSUME NEW s \in Slots, NEW c \in Channels, Meeting(r, s, c) PROVE RequestInv'
  <2>1. PICK b \in BookingRows : bookings' = [bookings EXCEPT ![r] = b] /\ late' \subseteq Requests
    <3>1. Reserve(r, s, c, "meeting_scheduled") /\ "meeting_scheduled" \in BookingStatuses
      BY <1>4 DEF Meeting, BookingStatuses, ActiveBookings
    <3>2. QED BY <3>1, BookingReserved
  <2>2. requests[r].paid >= Deposit
    BY <1>1, <1>4 DEF Meeting, MeetingStatuses, WorkNeedsDeposit
  <2>3. QED BY <1>4, <2>1, <2>2, BookingKeeps DEF Meeting, MeetingNeedsDeposit
<1>5. ASSUME NEW s \in Slots, NEW c \in Channels, Rebook(r, s, c) PROVE RequestInv'
  <2>1. PICK b \in BookingRows : b.status = "pending_payment" /\ bookings' = [bookings EXCEPT ![r] = b]
                                 /\ late' \subseteq Requests
    <3>1. Reserve(r, s, c, "pending_payment") /\ "pending_payment" \in BookingStatuses
      BY <1>5 DEF Rebook, BookingStatuses, ActiveBookings
    <3>2. QED BY <3>1, BookingReserved
  <2>2. QED BY <1>5, <2>1, BookingKeeps DEF Rebook, MeetingNeedsDeposit
<1>6. QED BY <1>2, <1>3, <1>4, <1>5

-----------------------------------------------------------------------------
(* Steps that write the request.                                           *)

(* What was seen of a request stays true of it when nothing paid is lost.  *)
LEMMA SeenStays ==
    ASSUME NEW old \in RequestRows, NEW row \in RequestRows, NEW open, NEW errands,
           row.paid >= old.paid, row.stage = "deposit" => old.stage = "deposit",
           DepositsOnly(old, open, errands), ErrandsHaveSeen(old, errands)
    PROVE  DepositsOnly(row, open, errands) /\ ErrandsHaveSeen(row, errands)
<1>1. old.paid \in Nat /\ row.paid \in Nat /\ Deposit \in Nat /\ Total \in Nat
  BY PricesAssumption DEF RequestRows
<1>2. DepositsOnly(row, open, errands)
  BY DEF DepositsOnly
<1>3. ErrandsHaveSeen(row, errands)
  BY <1>1 DEF ErrandsHaveSeen, FullyPaid
<1>4. QED BY <1>2, <1>3

LEMMA RowKeeps ==
    ASSUME RequestInv, NEW r \in Requests, NEW row \in RequestRows, NEW b \in BookingRows,
           requests' = [requests EXCEPT ![r] = row], bookings' = [bookings EXCEPT ![r] = b],
           late' \subseteq Requests, UNCHANGED <<receipts, attempts, doing>>,
           row.paid >= requests[r].paid, row.stage = "deposit" => requests[r].stage = "deposit",
           WorkNeedsDeposit(row), EndNeedsTotal(row), BillFits(row), StageFits(row),
           MeetingNeedsDeposit(row, b)
    PROVE  RequestInv'
<1>1. DepositsOnly(row, attempts[r], doing[r]) /\ ErrandsHaveSeen(row, doing[r])
  BY Cells, SeenStays DEF CellTypes, Sound
<1>2. Sound(row, b, attempts[r], doing[r])
  BY <1>1 DEF Sound
<1>3. CellTypes(row, b, attempts[r], doing[r])
  BY Cells DEF CellTypes
<1>4. Writes(r, row, b, attempts[r], doing[r])
  BY Cells DEF Writes
<1>5. receipts' \in [Requests -> ReceiptRows]
  BY Cells
<1>6. QED BY <1>2, <1>3, <1>4, <1>5, WriteKeeps

(* An appointment that is left alone or takes a status of no meeting.      *)
LEMMA BookingLeft ==
    ASSUME RequestInv, NEW r \in Requests,
           NEW s \in BookingStatuses \ {"confirmed", "meeting_scheduled"},
           KeepBooking \/ SetBooking(r, s)
    PROVE  \E b \in BookingRows : /\ MeetingNeedsDeposit(requests[r], b)
                                  /\ bookings' = [bookings EXCEPT ![r] = b]
                                  /\ late' \subseteq Requests
<1>1. CASE KeepBooking
  <2>1. bookings[r] \in BookingRows /\ MeetingNeedsDeposit(requests[r], bookings[r])
    BY Cells DEF CellTypes, Sound
  <2>2. bookings' = [bookings EXCEPT ![r] = bookings[r]] /\ late' \subseteq Requests
    BY <1>1, Cells DEF KeepBooking
  <2>3. QED BY <2>1, <2>2
<1>2. CASE SetBooking(r, s)
  <2>1. PICK b \in BookingRows : b.status = s /\ bookings' = [bookings EXCEPT ![r] = b]
                                 /\ late' \subseteq Requests
    BY <1>2, BookingSet
  <2>2. QED BY <2>1 DEF MeetingNeedsDeposit
<1>3. QED BY <1>1, <1>2

LEMMA CreateStep ==
    ASSUME RequestInv, NEW r \in Requests, NEW type \in Types, NEW s \in Slots, NEW c \in Channels,
           Create(r, type, s, c)
    PROVE  RequestInv'
<1> DEFINE row == [type |-> type,
                   status |-> IF Deposit > 0 THEN "awaiting_payment" ELSE "new",
                   stage |-> IF Deposit > 0 THEN "deposit" ELSE "working",
                   due |-> Deposit, paid |-> 0, final |-> "none"]
<1>1. /\ requests[r].status = "none" /\ requests' = [requests EXCEPT ![r] = row]
      /\ UNCHANGED <<receipts, attempts, doing>>
  BY DEF Create
<1>2. /\ Deposit \in Nat /\ Total \in Nat /\ MeetingNeedsDeposit(requests[r], bookings[r])
      /\ requests[r].stage = "deposit" /\ requests[r].paid = 0
  BY <1>1, Cells DEF Sound, StageFits
<1>3. /\ row \in RequestRows /\ row.paid = 0 /\ row.due = Deposit
      /\ Deposit > 0 => row.status = "awaiting_payment" /\ row.stage = "deposit"
      /\ Deposit = 0 => row.status = "new" /\ row.stage = "working"
  BY <1>2 DEF RequestRows, Statuses, Stages
<1>4. PICK b \in BookingRows : /\ MeetingNeedsDeposit(row, b)
                               /\ bookings' = [bookings EXCEPT ![r] = b] /\ late' \subseteq Requests
  <2>1. CASE type = "contract_review"
    <3> DEFINE status == IF Deposit > 0 THEN "pending_payment" ELSE "confirmed"
    <3>1. Reserve(r, s, c, status) /\ status \in BookingStatuses
      BY <2>1 DEF Create, BookingStatuses, ActiveBookings
    <3>2. status \in {"confirmed", "meeting_scheduled"} => Deposit = 0
      BY <1>2
    <3> HIDE DEF status, row
    <3>3. PICK b \in BookingRows : b.status = status /\ bookings' = [bookings EXCEPT ![r] = b]
                                   /\ late' \subseteq Requests
      BY <3>1, BookingReserved
    <3>4. MeetingNeedsDeposit(row, b)
      BY <1>2, <1>3, <3>2, <3>3 DEF MeetingNeedsDeposit
    <3>5. QED BY <3>3, <3>4
  <2>2. CASE type # "contract_review"
    <3> HIDE DEF row
    <3>1. UNCHANGED <<bookings, late>>
      BY <2>2 DEF Create, KeepBooking
    <3>2. bookings[r] \in BookingRows /\ bookings' = [bookings EXCEPT ![r] = bookings[r]]
          /\ late' \subseteq Requests
      BY <3>1, Cells DEF CellTypes
    <3>3. MeetingNeedsDeposit(row, bookings[r])
      BY <1>2, <1>3 DEF MeetingNeedsDeposit
    <3>4. QED BY <3>2, <3>3
  <2>3. QED BY <2>1, <2>2
<1> HIDE DEF row
<1>5. WorkNeedsDeposit(row) /\ BillFits(row) /\ StageFits(row)
  BY <1>2, <1>3 DEF WorkNeedsDeposit, BillFits, StageFits
<1>6. EndNeedsTotal(row)
  BY <1>2, <1>3 DEF EndNeedsTotal
<1>7. row.paid >= requests[r].paid
  BY <1>2, <1>3
<1>8. QED BY <1>1, <1>2, <1>3, <1>4, <1>5, <1>6, <1>7, RowKeeps

(* A row whose status alone is another.                                    *)
LEMMA StatusWritten ==
    ASSUME RequestInv, NEW r \in Requests, NEW to \in Statuses \ {"none", "awaiting_payment"},
           to # "cancelled" => requests[r].paid >= Deposit,
           to = "completed" => FullyPaid(requests[r])
    PROVE  LET row == [requests[r] EXCEPT !.status = to]
           IN  /\ row \in RequestRows /\ row.paid = requests[r].paid /\ row.stage = requests[r].stage
               /\ WorkNeedsDeposit(row) /\ EndNeedsTotal(row) /\ BillFits(row) /\ StageFits(row)
<1> DEFINE row == [requests[r] EXCEPT !.status = to]
<1>1. requests[r] \in RequestRows /\ requests[r].paid \in Nat /\ StageFits(requests[r])
  BY Cells DEF CellTypes, Sound
<1>2. /\ row \in RequestRows /\ row.status = to
      /\ row.paid = requests[r].paid /\ row.stage = requests[r].stage
  BY <1>1 DEF RequestRows
<1> HIDE DEF row
<1>3. WorkNeedsDeposit(row) /\ EndNeedsTotal(row) /\ BillFits(row) /\ StageFits(row)
  BY <1>1, <1>2 DEF WorkNeedsDeposit, EndNeedsTotal, BillFits, StageFits, FullyPaid
<1>4. QED BY <1>2, <1>3 DEF row

LEMMA StatusSteps ==
    ASSUME RequestInv, NEW r \in Requests,
           (\E to \in Statuses : SetStatus(r, to)) \/ Cancel(r) \/ LinkContract(r)
    PROVE  RequestInv'
<1>1. requests[r].paid \in Nat /\ WorkNeedsDeposit(requests[r])
  BY Cells DEF Sound
<1>2. ASSUME NEW to \in Statuses \ {"none", "awaiting_payment"},
             to # "cancelled" => requests[r].paid >= Deposit,
             to = "completed" => FullyPaid(requests[r]),
             requests' = [requests EXCEPT ![r].status = to],
             KeepBooking \/ SetBooking(r, "cancelled") \/ SetBooking(r, "completed"),
             UNCHANGED <<receipts, attempts, doing>>
      PROVE  RequestInv'
  <2> DEFINE row == [requests[r] EXCEPT !.status = to]
  <2>1. requests' = [requests EXCEPT ![r] = row]
    BY <1>2
  <2>2. /\ row \in RequestRows /\ row.paid = requests[r].paid /\ row.stage = requests[r].stage
        /\ WorkNeedsDeposit(row) /\ EndNeedsTotal(row) /\ BillFits(row) /\ StageFits(row)
    BY <1>2, StatusWritten
  <2> HIDE DEF row
  <2>3. PICK b \in BookingRows : /\ MeetingNeedsDeposit(requests[r], b)
                                 /\ bookings' = [bookings EXCEPT ![r] = b]
                                 /\ late' \subseteq Requests
    <3>1. {"cancelled", "completed"} \subseteq BookingStatuses \ {"confirmed", "meeting_scheduled"}
      BY DEF BookingStatuses
    <3>2. QED BY <1>2, <3>1, BookingLeft
  <2>4. MeetingNeedsDeposit(row, b)
    BY <2>2, <2>3 DEF MeetingNeedsDeposit
  <2>5. row.paid >= requests[r].paid
    BY <1>1, <2>2
  <2>6. QED BY <1>2, <2>1, <2>2, <2>3, <2>4, <2>5, RowKeeps
<1>3. ASSUME NEW to \in Statuses, SetStatus(r, to) PROVE RequestInv'
  <2>1. /\ to \in StaffMoves[requests[r].status] /\ requests[r].status \in Statuses
        /\ to = "completed" => FullyPaid(requests[r])
        /\ requests' = [requests EXCEPT ![r].status = to] /\ UNCHANGED <<receipts, attempts, doing>>
    BY <1>3, Cells DEF SetStatus
  <2>2. /\ to \notin {"none", "awaiting_payment"}
        /\ to # "cancelled" => requests[r].status \notin {"none", "awaiting_payment", "cancelled"}
    BY <2>1 DEF StaffMoves, Statuses
  <2>3. KeepBooking \/ SetBooking(r, "cancelled") \/ SetBooking(r, "completed")
    BY <1>3 DEF SetStatus
  <2>4. to # "cancelled" => requests[r].paid >= Deposit
    BY <1>1, <2>2 DEF WorkNeedsDeposit
  <2>5. QED BY <1>2, <2>1, <2>2, <2>3, <2>4
<1>4. CASE Cancel(r)
  <2>1. "cancelled" \in Statuses \ {"none", "awaiting_payment"}
    BY DEF Statuses
  <2>2. QED BY <1>2, <1>4, <2>1 DEF Cancel
<1>5. CASE LinkContract(r)
  <2>1. "in_progress" \in Statuses \ {"none", "awaiting_payment"}
    BY DEF Statuses
  <2>2. requests[r].paid >= Deposit
    BY <1>1, <1>5 DEF LinkContract, WorkNeedsDeposit
  <2>3. KeepBooking /\ UNCHANGED <<receipts, attempts, doing>>
    BY <1>5 DEF LinkContract, KeepBooking
  <2>4. QED BY <1>2, <1>5, <2>1, <2>2, <2>3 DEF LinkContract
<1>6. QED BY <1>3, <1>4, <1>5

LEMMA DeliverStep ==
    ASSUME RequestInv, NEW r \in Requests, NEW final \in BOOLEAN, Deliver(r, final)
    PROVE  RequestInv'
<1> DEFINE old == requests[r]
           row == Delivered(old, final)
<1>1. /\ old \in RequestRows /\ old.paid \in Nat /\ Deposit \in Nat /\ Total \in Nat /\ Deposit <= Total
      /\ WorkNeedsDeposit(old) /\ StageFits(old) /\ MeetingNeedsDeposit(old, bookings[r])
      /\ bookings[r] \in BookingRows
  BY Cells DEF Sound, CellTypes
<1>2. /\ old.status \in {"in_progress", "revision_requested", "client_review"}
      /\ requests' = [requests EXCEPT ![r] = row]
      /\ UNCHANGED <<bookings, receipts, attempts, doing, late>>
  BY DEF Deliver
<1>3. old.paid >= Deposit
  BY <1>1, <1>2 DEF WorkNeedsDeposit
<1>4. /\ row \in RequestRows /\ row.paid = old.paid
      /\ \/ row.status = "client_review" /\ row.stage = old.stage
         \/ row.status = "client_review" /\ row.stage = "paid"
         \/ /\ row.status = "awaiting_payment" /\ row.stage = "balance"
            /\ row.due = Total - old.paid /\ Total > old.paid
  <2>1. CASE ~final
    BY <1>1, <2>1 DEF Delivered, RequestRows, Statuses, Stages, Earlier
  <2>2. CASE final /\ FullyPaid(old)
    BY <1>1, <2>2 DEF Delivered, RequestRows, Statuses, Stages
  <2>3. CASE final /\ ~FullyPaid(old)
    <3>1. Total - old.paid \in Nat /\ Total > old.paid
      BY <1>1, <2>3 DEF FullyPaid
    <3>2. row = [old EXCEPT !.status = "awaiting_payment", !.final = "latest", !.stage = "balance",
                            !.due = Total - old.paid]
      BY <2>3 DEF Delivered
    <3>3. QED BY <1>1, <3>1, <3>2 DEF RequestRows, Statuses, Stages
  <2>4. QED BY <2>1, <2>2, <2>3
<1> HIDE DEF row, old
<1>5. WorkNeedsDeposit(row) /\ EndNeedsTotal(row) /\ BillFits(row) /\ StageFits(row)
  BY <1>1, <1>3, <1>4 DEF WorkNeedsDeposit, EndNeedsTotal, BillFits, StageFits
<1>6. MeetingNeedsDeposit(row, bookings[r])
  BY <1>1, <1>4 DEF MeetingNeedsDeposit
<1>7. bookings' = [bookings EXCEPT ![r] = bookings[r]] /\ late' \subseteq Requests
  BY <1>2, Cells
<1>8. row.paid >= requests[r].paid /\ (row.stage = "deposit" => requests[r].stage = "deposit")
  BY <1>1, <1>4 DEF old
<1>9. QED BY <1>1, <1>2, <1>4, <1>5, <1>6, <1>7, <1>8, RowKeeps

-----------------------------------------------------------------------------
(* Receipts and attempts.                                                  *)

(* A step that writes the receipt, the appointment and what is in flight.  *)
LEMMA ReceiptKeeps ==
    ASSUME RequestInv, NEW r \in Requests, NEW b \in BookingRows, NEW errands \in SUBSET doing[r],
           UNCHANGED <<requests, attempts>>, receipts' \in [Requests -> ReceiptRows],
           bookings' = [bookings EXCEPT ![r] = b], doing' = [doing EXCEPT ![r] = errands],
           MeetingNeedsDeposit(requests[r], b), late' \subseteq Requests
    PROVE  RequestInv'
<1>1. DepositsOnly(requests[r], attempts[r], errands) /\ ErrandsHaveSeen(requests[r], errands)
  BY Cells DEF Sound, DepositsOnly, ErrandsHaveSeen
<1>2. Sound(requests[r], b, attempts[r], errands)
  BY <1>1, Cells DEF Sound
<1>3. CellTypes(requests[r], b, attempts[r], errands)
  BY Cells DEF CellTypes
<1>4. Writes(r, requests[r], b, attempts[r], errands)
  BY Cells DEF Writes
<1>5. QED BY <1>2, <1>3, <1>4, WriteKeeps

LEMMA ReceiptSteps ==
    ASSUME RequestInv, NEW r \in Requests,
           UploadWrite(r) \/ RequestClarification(r) \/ Reject(r) \/ CloseBooking(r)
    PROVE  RequestInv'
<1>1. /\ {"pending_verification", "needs_client_info", "cancelled", "completed"}
            \subseteq BookingStatuses \ {"confirmed", "meeting_scheduled"}
  BY DEF BookingStatuses, ActiveBookings
<1>2. ASSUME NEW s \in {"pending_verification", "needs_client_info", "cancelled", "completed"},
             KeepBooking \/ SetBooking(r, s), NEW errands \in SUBSET doing[r],
             UNCHANGED <<requests, attempts>>, receipts' \in [Requests -> ReceiptRows],
             doing' = [doing EXCEPT ![r] = errands]
      PROVE  RequestInv'
  <2>1. PICK b \in BookingRows : /\ MeetingNeedsDeposit(requests[r], b)
                                 /\ bookings' = [bookings EXCEPT ![r] = b]
                                 /\ late' \subseteq Requests
    BY <1>1, <1>2, BookingLeft
  <2>2. QED BY <1>2, <2>1, ReceiptKeeps
<1>3. NoReceipt \in ReceiptRows
  BY DEF NoReceipt, ReceiptRows
<1>4. receipts \in [Requests -> ReceiptRows] /\ requests[r].due \in Nat
      /\ doing = [doing EXCEPT ![r] = doing[r]]
  BY Cells
<1>5. CASE UploadWrite(r)
  <2>1. PICK e \in InFlight(r, "upload") :
            /\ receipts' = [receipts EXCEPT ![r] = [status |-> "pending_verification",
                                                    amount |-> requests[r].due]]
            /\ KeepBooking \/ SetBooking(r, "pending_verification")
            /\ Ends(r, e) /\ UNCHANGED <<requests, attempts>>
    BY <1>5 DEF UploadWrite
  <2>2. receipts' \in [Requests -> ReceiptRows]
    BY <1>4, <2>1 DEF ReceiptRows
  <2>3. doing' = [doing EXCEPT ![r] = doing[r] \ {e}] /\ doing[r] \ {e} \in SUBSET doing[r]
    BY <2>1 DEF Ends
  <2>4. QED BY <1>2, <2>1, <2>2, <2>3
<1>6. CASE RequestClarification(r)
  <2>1. receipts' \in [Requests -> ReceiptRows]
    BY <1>4, <1>6 DEF RequestClarification, ReceiptRows
  <2>2. /\ KeepBooking \/ SetBooking(r, "needs_client_info")
        /\ UNCHANGED <<requests, attempts, doing>>
    BY <1>6 DEF RequestClarification
  <2>3. doing' = [doing EXCEPT ![r] = doing[r]]
    BY <1>4, <2>2
  <2>4. QED BY <1>2, <2>1, <2>2, <2>3
<1>7. CASE Reject(r)
  <2>1. receipts' \in [Requests -> ReceiptRows]
    BY <1>3, <1>4, <1>7 DEF Reject
  <2>2. /\ KeepBooking \/ SetBooking(r, "cancelled")
        /\ UNCHANGED <<requests, attempts, doing>>
    BY <1>7 DEF Reject
  <2>3. doing' = [doing EXCEPT ![r] = doing[r]]
    BY <1>4, <2>2
  <2>4. QED BY <1>2, <2>1, <2>2, <2>3
<1>8. CASE CloseBooking(r)
  <2>1. PICK e \in InFlight(r, "close_booking") :
            SetBooking(r, "completed") /\ Ends(r, e) /\ UNCHANGED <<requests, receipts, attempts>>
    BY <1>8 DEF CloseBooking
  <2>2. doing' = [doing EXCEPT ![r] = doing[r] \ {e}] /\ doing[r] \ {e} \in SUBSET doing[r]
    BY <2>1 DEF Ends
  <2>3. receipts' \in [Requests -> ReceiptRows]
    BY <1>4, <2>1
  <2>4. QED BY <1>2, <2>1, <2>2, <2>3
<1>9. QED BY <1>5, <1>6, <1>7, <1>8

LEMMA AttemptsKeep ==
    ASSUME RequestInv, NEW r \in Requests, NEW open \in SUBSET AttemptRows, NEW errands \in SUBSET doing[r],
           UNCHANGED <<requests, bookings, receipts, late>>,
           attempts' = [attempts EXCEPT ![r] = open], doing' = [doing EXCEPT ![r] = errands],
           requests[r].stage = "deposit" => \A a \in open : a.amount = Deposit
    PROVE  RequestInv'
<1>1. DepositsOnly(requests[r], open, errands) /\ ErrandsHaveSeen(requests[r], errands)
  BY Cells DEF Sound, DepositsOnly, ErrandsHaveSeen
<1>2. Sound(requests[r], bookings[r], open, errands)
  BY <1>1, Cells DEF Sound
<1>3. CellTypes(requests[r], bookings[r], open, errands)
  BY Cells DEF CellTypes
<1>4. Writes(r, requests[r], bookings[r], open, errands)
  BY Cells DEF Writes
<1>5. receipts' \in [Requests -> ReceiptRows] /\ late' \subseteq Requests
  BY Cells
<1>6. QED BY <1>2, <1>3, <1>4, <1>5, WriteKeeps

LEMMA AttemptSteps ==
    ASSUME RequestInv, NEW r \in Requests,
           (\E p \in Providers : CheckoutOpen(r, p)) \/ AttemptFails(r)
    PROVE  RequestInv'
<1>1. /\ attempts[r] \in SUBSET AttemptRows /\ doing[r] \in SUBSET Errands
      /\ DepositsOnly(requests[r], attempts[r], doing[r])
      /\ doing = [doing EXCEPT ![r] = doing[r]]
  BY Cells DEF CellTypes, Sound
<1>2. ASSUME NEW p \in Providers, CheckoutOpen(r, p) PROVE RequestInv'
  <2>1. PICK e \in InFlight(r, "checkout") :
            /\ attempts' = [attempts EXCEPT ![r] = {a \in attempts[r] : a.provider # p} \cup
                                                   {[provider |-> p, amount |-> e.amount]}]
            /\ Ends(r, e) /\ UNCHANGED <<requests, bookings, receipts, late>>
    BY <1>2 DEF CheckoutOpen
  <2> DEFINE open == {a \in attempts[r] : a.provider # p} \cup {[provider |-> p, amount |-> e.amount]}
  <2>2. e \in doing[r] /\ e.what = "checkout" /\ e.amount \in Nat
    BY <1>1, <2>1 DEF InFlight, Errands
  <2>3. open \in SUBSET AttemptRows
    BY <1>1, <2>2 DEF AttemptRows
  <2>4. requests[r].stage = "deposit" => \A a \in open : a.amount = Deposit
    BY <1>1, <2>2 DEF DepositsOnly
  <2>5. doing' = [doing EXCEPT ![r] = doing[r] \ {e}] /\ doing[r] \ {e} \in SUBSET doing[r]
    BY <2>1 DEF Ends
  <2> HIDE DEF open
  <2>6. attempts' = [attempts EXCEPT ![r] = open]
    BY <2>1 DEF open
  <2>7. QED BY <2>1, <2>3, <2>4, <2>5, <2>6, AttemptsKeep
<1>3. CASE AttemptFails(r)
  <2>1. PICK a \in attempts[r] : /\ attempts' = [attempts EXCEPT ![r] = attempts[r] \ {a}]
                                 /\ UNCHANGED <<requests, bookings, receipts, doing, late>>
    BY <1>3 DEF AttemptFails
  <2>2. attempts[r] \ {a} \in SUBSET AttemptRows /\ doing' = [doing EXCEPT ![r] = doing[r]]
    BY <1>1, <2>1
  <2>3. requests[r].stage = "deposit" => \A o \in attempts[r] \ {a} : o.amount = Deposit
    BY <1>1 DEF DepositsOnly
  <2>4. QED BY <2>1, <2>2, <2>3, AttemptsKeep
<1>4. QED BY <1>2, <1>3

(* A payment is settled: by a receipt, at the desk, or by a notification.  *)
LEMMA SettledKeeps ==
    ASSUME RequestInv, NEW r \in Requests, NEW amount \in Nat, requests[r].status = "awaiting_payment",
           requests[r].stage = "deposit" => amount = Deposit,
           Settled(r, amount), receipts' \in [Requests -> ReceiptRows], UNCHANGED doing,
           NEW open \in SUBSET attempts[r], attempts' = [attempts EXCEPT ![r] = open]
    PROVE  RequestInv'
<1> DEFINE row == PaymentState(requests[r], requests[r].paid + amount)
<1>1. /\ row \in RequestRows /\ row.paid = requests[r].paid + amount
      /\ row.stage # "deposit" /\ row.paid >= Deposit
      /\ WorkNeedsDeposit(row) /\ EndNeedsTotal(row) /\ BillFits(row) /\ StageFits(row)
  BY SettledIsSound
<1>2. requests' = [requests EXCEPT ![r] = row]
  BY DEF Settled
<1> HIDE DEF row
<1>3. PICK b \in BookingRows : bookings' = [bookings EXCEPT ![r] = b] /\ late' \subseteq Requests
  <2>1. CASE NeedsHold(r)
    <3>1. SetBooking(r, "confirmed") /\ "confirmed" \in BookingStatuses
      BY <2>1 DEF Settled, BookingStatuses, ActiveBookings
    <3>2. QED BY <3>1, BookingSet
  <2>2. CASE ~NeedsHold(r)
    <3>1. UNCHANGED <<bookings, late>>
      BY <2>2 DEF Settled, KeepBooking
    <3>2. bookings[r] \in BookingRows /\ bookings' = [bookings EXCEPT ![r] = bookings[r]]
          /\ late' \subseteq Requests
      BY <3>1, Cells DEF CellTypes
    <3>3. QED BY <3>2
  <2>3. QED BY <2>1, <2>2
<1>4. MeetingNeedsDeposit(row, b)
  BY <1>1 DEF MeetingNeedsDeposit
<1>5. row.paid >= requests[r].paid
  BY <1>1, Cells
<1>6. DepositsOnly(row, open, doing[r]) /\ ErrandsHaveSeen(row, doing[r])
  <2>1. /\ requests[r] \in RequestRows
        /\ row.stage = "deposit" => requests[r].stage = "deposit"
        /\ DepositsOnly(requests[r], attempts[r], doing[r]) /\ ErrandsHaveSeen(requests[r], doing[r])
    BY <1>1, Cells DEF CellTypes, Sound
  <2>2. ErrandsHaveSeen(row, doing[r])
    BY <1>1, <1>5, <2>1, SeenStays
  <2>3. DepositsOnly(row, open, doing[r])
    BY <1>1 DEF DepositsOnly
  <2>4. QED BY <2>2, <2>3
<1>7. Sound(row, b, open, doing[r])
  BY <1>1, <1>4, <1>6 DEF Sound
<1>8. CellTypes(row, b, open, doing[r])
  BY <1>1, Cells DEF CellTypes
<1>9. Writes(r, row, b, open, doing[r])
  BY <1>2, <1>3, Cells DEF Writes
<1>10. QED BY <1>3, <1>7, <1>8, <1>9, WriteKeeps

LEMMA SettleSteps ==
    ASSUME RequestInv, NEW r \in Requests, Approve(r) \/ RecordRemaining(r) \/ SettleAttempt(r)
    PROVE  RequestInv'
<1>1. /\ receipts \in [Requests -> ReceiptRows] /\ NoReceipt \in ReceiptRows
      /\ requests[r].due \in Nat /\ requests[r].paid \in Nat /\ Deposit \in Nat
      /\ BillFits(requests[r]) /\ StageFits(requests[r])
      /\ attempts[r] \in SUBSET AttemptRows /\ attempts = [attempts EXCEPT ![r] = attempts[r]]
      /\ DepositsOnly(requests[r], attempts[r], doing[r])
  BY Cells DEF CellTypes, Sound, NoReceipt, ReceiptRows
<1>2. requests[r].status = "awaiting_payment" /\ requests[r].stage = "deposit" => requests[r].due = Deposit
  BY <1>1 DEF BillFits, StageFits
<1>3. CASE Approve(r)
  <2>1. /\ requests[r].status = "awaiting_payment" /\ Settled(r, requests[r].due)
        /\ receipts' = [receipts EXCEPT ![r] = NoReceipt] /\ UNCHANGED <<attempts, doing>>
    BY <1>3 DEF Approve, Awaiting
  <2>2. receipts' \in [Requests -> ReceiptRows] /\ attempts' = [attempts EXCEPT ![r] = attempts[r]]
    BY <1>1, <2>1
  <2>3. QED BY <1>1, <1>2, <2>1, <2>2, SettledKeeps
<1>4. CASE RecordRemaining(r)
  <2>1. /\ requests[r].status = "awaiting_payment" /\ Settled(r, requests[r].due)
        /\ UNCHANGED <<receipts, attempts, doing>>
    BY <1>4 DEF RecordRemaining, Awaiting
  <2>2. receipts' \in [Requests -> ReceiptRows] /\ attempts' = [attempts EXCEPT ![r] = attempts[r]]
    BY <1>1, <2>1
  <2>3. QED BY <1>1, <1>2, <2>1, <2>2, SettledKeeps
<1>5. CASE SettleAttempt(r)
  <2>1. PICK a \in attempts[r] : /\ requests[r].status = "awaiting_payment" /\ Settled(r, a.amount)
                                 /\ attempts' = [attempts EXCEPT ![r] = attempts[r] \ {a}]
                                 /\ UNCHANGED <<receipts, doing>>
    BY <1>5 DEF SettleAttempt
  <2>2. a.amount \in Nat /\ (requests[r].stage = "deposit" => a.amount = Deposit)
    BY <1>1 DEF AttemptRows, DepositsOnly
  <2>3. receipts' \in [Requests -> ReceiptRows]
    BY <1>1, <2>1
  <2>4. attempts[r] \ {a} \in SUBSET attempts[r]
    OBVIOUS
  <2>5. QED BY <2>1, <2>2, <2>3, <2>4, SettledKeeps
<1>6. QED BY <1>3, <1>4, <1>5

(* The client's decision writes over whatever the request has become.      *)
LEMMA DecisionSteps ==
    ASSUME RequestInv, NEW r \in Requests, ConfirmWrite(r) \/ RevisionWrite(r)
    PROVE  RequestInv'
<1>1. /\ requests[r].paid \in Nat /\ Deposit \in Nat /\ Total \in Nat /\ Deposit <= Total
      /\ doing[r] \in SUBSET Errands /\ bookings[r] \in BookingRows /\ requests[r] \in RequestRows
      /\ MeetingNeedsDeposit(requests[r], bookings[r])
      /\ DepositsOnly(requests[r], attempts[r], doing[r]) /\ ErrandsHaveSeen(requests[r], doing[r])
  BY Cells DEF CellTypes, Sound
<1>2. ASSUME NEW to \in {"completed", "revision_requested"}, NEW errands \in SUBSET Errands,
             requests' = [requests EXCEPT ![r].status = to], doing' = [doing EXCEPT ![r] = errands],
             UNCHANGED <<bookings, receipts, attempts, late>>,
             requests[r].paid >= Deposit, to = "completed" => FullyPaid(requests[r]),
             \A e \in errands : e \in doing[r] \/ e.what = "close_booking"
      PROVE  RequestInv'
  <2> DEFINE row == [requests[r] EXCEPT !.status = to]
  <2>1. requests' = [requests EXCEPT ![r] = row]
    BY <1>2
  <2>2. to \in Statuses \ {"none", "awaiting_payment"}
    BY DEF Statuses
  <2>3. /\ row \in RequestRows /\ row.paid = requests[r].paid /\ row.stage = requests[r].stage
        /\ WorkNeedsDeposit(row) /\ EndNeedsTotal(row) /\ BillFits(row) /\ StageFits(row)
    BY <1>2, <2>2, StatusWritten
  <2> HIDE DEF row
  <2>4. DepositsOnly(requests[r], attempts[r], errands)
    BY <1>1, <1>2 DEF DepositsOnly
  <2>5. ErrandsHaveSeen(requests[r], errands)
    BY <1>1, <1>2 DEF ErrandsHaveSeen
  <2>6. row.paid >= requests[r].paid
    BY <1>1, <2>3
  <2>7. DepositsOnly(row, attempts[r], errands) /\ ErrandsHaveSeen(row, errands)
    BY <1>1, <2>3, <2>4, <2>5, <2>6, SeenStays
  <2>8. MeetingNeedsDeposit(row, bookings[r])
    BY <1>1, <2>3 DEF MeetingNeedsDeposit
  <2>9. Sound(row, bookings[r], attempts[r], errands)
    BY <2>3, <2>7, <2>8 DEF Sound
  <2>10. CellTypes(row, bookings[r], attempts[r], errands)
    BY <1>2, <2>3, Cells DEF CellTypes
  <2>11. Writes(r, row, bookings[r], attempts[r], errands)
    BY <1>2, <2>1, Cells DEF Writes
  <2>12. receipts' \in [Requests -> ReceiptRows] /\ late' \subseteq Requests
    BY <1>2, Cells
  <2>13. QED BY <2>9, <2>10, <2>11, <2>12, WriteKeeps
<1>3. CASE ConfirmWrite(r)
  <2> DEFINE closing == IF SupportsBooking(r) THEN {[what |-> "close_booking", amount |-> 0]} ELSE {}
  <2>1. PICK e \in InFlight(r, "confirm") :
            /\ requests' = [requests EXCEPT ![r].status = "completed"]
            /\ doing' = [doing EXCEPT ![r] = (doing[r] \ {e}) \cup closing]
            /\ UNCHANGED <<bookings, receipts, attempts, late>>
    BY <1>3 DEF ConfirmWrite
  <2>2. FullyPaid(requests[r])
    BY <1>1, <2>1 DEF InFlight, ErrandsHaveSeen
  <2>3. requests[r].paid >= Deposit
    BY <1>1, <2>2 DEF FullyPaid
  <2>4. (doing[r] \ {e}) \cup closing \in SUBSET Errands
    BY <1>1 DEF Errands
  <2>5. \A d \in (doing[r] \ {e}) \cup closing : d \in doing[r] \/ d.what = "close_booking"
    OBVIOUS
  <2> HIDE DEF closing
  <2>6. QED BY <1>2, <2>1, <2>2, <2>3, <2>4, <2>5
<1>4. CASE RevisionWrite(r)
  <2>1. PICK e \in InFlight(r, "revise") :
            /\ requests' = [requests EXCEPT ![r].status = "revision_requested"]
            /\ Ends(r, e) /\ UNCHANGED <<bookings, receipts, attempts, late>>
    BY <1>4 DEF RevisionWrite
  <2>2. requests[r].paid >= Deposit
    BY <1>1, <2>1 DEF InFlight, ErrandsHaveSeen
  <2>3. doing' = [doing EXCEPT ![r] = doing[r] \ {e}]
    BY <2>1 DEF Ends
  <2>4. doing[r] \ {e} \in SUBSET Errands
    BY <1>1
  <2>5. QED BY <1>2, <2>1, <2>2, <2>3, <2>4
<1>5. QED BY <1>3, <1>4

-----------------------------------------------------------------------------
(* The invariant.                                                          *)

LEMMA RequestStart == Init => RequestInv
<1> SUFFICES ASSUME Init PROVE RequestInv
  OBVIOUS
<1>1. TypeOK
  BY DEF Init, TypeOK, RequestRows, BookingRows, BookingStatuses, ReceiptRows, NoReceipt, Statuses, Stages
<1>2. ASSUME NEW r \in Requests PROVE SoundAt(r)
  <2>1. /\ requests[r].status = "none" /\ requests[r].stage = "deposit" /\ requests[r].paid = 0
        /\ bookings[r].status = "none" /\ attempts[r] = {} /\ doing[r] = {}
    BY DEF Init
  <2>2. QED BY <2>1 DEF SoundAt, Sound, WorkNeedsDeposit, EndNeedsTotal, BillFits, MeetingNeedsDeposit,
                      StageFits, DepositsOnly, ErrandsHaveSeen
<1>3. QED BY <1>1, <1>2 DEF RequestInv

LEMMA RequestStepKeeps == RequestInv /\ [Next]_vars => RequestInv'
<1> SUFFICES ASSUME RequestInv, [Next]_vars PROVE RequestInv'
  OBVIOUS
<1>1. ASSUME NEW r \in Requests, RequestStep(r) PROVE RequestInv'
  <2>1. CASE UploadRead(r) \/ CheckoutRead(r) \/ ConfirmRead(r) \/ RevisionRead(r) \/ Abandon(r)
    BY <2>1, ErrandSteps
  <2>2. CASE \/ HoldLapses(r) \/ ExpireHold(r)
             \/ \E s \in Slots, c \in Channels : Meeting(r, s, c) \/ Rebook(r, s, c)
    BY <2>2, BookingSteps
  <2>3. CASE \E type \in Types, s \in Slots, c \in Channels : Create(r, type, s, c)
    BY <2>3, CreateStep
  <2>4. CASE (\E to \in Statuses : SetStatus(r, to)) \/ Cancel(r) \/ LinkContract(r)
    BY <2>4, StatusSteps
  <2>5. CASE \E final \in BOOLEAN : Deliver(r, final)
    BY <2>5, DeliverStep
  <2>6. CASE UploadWrite(r) \/ RequestClarification(r) \/ Reject(r) \/ CloseBooking(r)
    BY <2>6, ReceiptSteps
  <2>7. CASE (\E p \in Providers : CheckoutOpen(r, p)) \/ AttemptFails(r)
    BY <2>7, AttemptSteps
  <2>8. CASE Approve(r) \/ RecordRemaining(r) \/ SettleAttempt(r)
    BY <2>8, SettleSteps
  <2>9. CASE ConfirmWrite(r) \/ RevisionWrite(r)
    BY <2>9, DecisionSteps
  <2>10. QED BY <1>1, <2>1, <2>2, <2>3, <2>4, <2>5, <2>6, <2>7, <2>8, <2>9 DEF RequestStep
<1>2. CASE UNCHANGED vars
  BY <1>2 DEF vars, RequestInv, TypeOK, SoundAt
<1>3. QED BY <1>1, <1>2 DEF Next

(* At every step of a service request what its handlers rely on holds.     *)
THEOREM RequestInvariant == Spec => []RequestInv
BY RequestStart, RequestStepKeeps, PTL DEF Spec

(* The tables of service requests, bookings, receipts and attempts are     *)
(* well typed, for any requests and prices.                                *)
THEOREM RequestTypeCorrect == Spec => []TypeOK
<1>1. RequestInv => TypeOK
  BY DEF RequestInv
<1>2. QED BY <1>1, RequestInvariant, PTL

(* No request is worked on before its deposit is approved.                 *)
THEOREM NoWorkBeforeDeposit == Spec => []DepositBeforeWork
<1>1. RequestInv => DepositBeforeWork
  BY DEF RequestInv, SoundAt, Sound, WorkNeedsDeposit, DepositBeforeWork
<1>2. QED BY <1>1, RequestInvariant, PTL

(* The client's unlocked confirmation never completes an unpaid request.   *)
THEOREM NoUnpaidCompletion == Spec => []CompletedIsPaid
<1>1. RequestInv => CompletedIsPaid
  BY DEF RequestInv, SoundAt, Sound, EndNeedsTotal, CompletedIsPaid
<1>2. QED BY <1>1, RequestInvariant, PTL

(* What a client is asked for is what is missing, whatever was settled in  *)
(* the meantime.                                                           *)
THEOREM AskedIsMissing == Spec => []BillIsOutstanding
<1>1. RequestInv => BillIsOutstanding
  BY DEF RequestInv, SoundAt, Sound, BillFits, BillIsOutstanding
<1>2. QED BY <1>1, RequestInvariant, PTL

(* No appointment is confirmed before the deposit is in.                   *)
THEOREM NoUnpaidMeeting == Spec => []ConfirmedIsPaid
<1>1. RequestInv => ConfirmedIsPaid
  BY DEF RequestInv, SoundAt, Sound, MeetingNeedsDeposit, ConfirmedIsPaid
<1>2. QED BY <1>1, RequestInvariant, PTL

-----------------------------------------------------------------------------
(* The appointment book.                                                   *)

Ended == BookingStatuses \ ActiveBookings

(* All that a step does to the appointments, and why it ends one.          *)
BookingEffect(r) ==
    \/ KeepBooking
    \/ HoldLapses(r)
    \/ \E s \in Slots, c \in Channels, status \in ActiveBookings : Reserve(r, s, c, status)
    \/ \E status \in ActiveBookings : SetBooking(r, status)
    \/ /\ \E status \in Ended : SetBooking(r, status)
       /\ ExpireHold(r) \/ SlotIsGivenUp(r)

LEMMA BookingEffects ==
    ASSUME NEW r \in Requests, RequestInv, RequestStep(r)
    PROVE  BookingEffect(r)
<1>1. "confirmed" \in ActiveBookings /\ "pending_payment" \in ActiveBookings
      /\ "pending_verification" \in ActiveBookings /\ "needs_client_info" \in ActiveBookings
      /\ "meeting_scheduled" \in ActiveBookings
  BY DEF ActiveBookings
<1>2. "expired" \in Ended /\ "cancelled" \in Ended /\ "completed" \in Ended
  BY DEF Ended, ActiveBookings, BookingStatuses
<1>3. requests \in [Requests -> RequestRows] /\ receipts \in [Requests -> ReceiptRows]
      /\ requests[r] \in RequestRows
  BY DEF RequestInv, TypeOK
<1>4. CASE UploadRead(r) \/ CheckoutRead(r) \/ ConfirmRead(r) \/ RevisionRead(r) \/ Abandon(r)
  BY <1>4 DEF UploadRead, CheckoutRead, ConfirmRead, RevisionRead, Begin, Abandon, KeepBooking, BookingEffect
<1>5. CASE LinkContract(r) \/ AttemptFails(r) \/ ConfirmWrite(r) \/ RevisionWrite(r)
  BY <1>5 DEF LinkContract, AttemptFails, ConfirmWrite, RevisionWrite, KeepBooking, BookingEffect
<1>6. CASE \E p \in Providers : CheckoutOpen(r, p)
  BY <1>6 DEF CheckoutOpen, KeepBooking, BookingEffect
<1>7. CASE \E final \in BOOLEAN : Deliver(r, final)
  BY <1>7 DEF Deliver, KeepBooking, BookingEffect
<1>8. CASE HoldLapses(r)
  BY <1>8 DEF BookingEffect
<1>9. CASE ExpireHold(r)
  BY <1>2, <1>9 DEF ExpireHold, BookingEffect
<1>10. ASSUME NEW type \in Types, NEW s \in Slots, NEW c \in Channels, Create(r, type, s, c)
      PROVE  BookingEffect(r)
  BY <1>1, <1>10 DEF Create, BookingEffect
<1>11. ASSUME NEW s \in Slots, NEW c \in Channels, Meeting(r, s, c) \/ Rebook(r, s, c)
      PROVE  BookingEffect(r)
  BY <1>1, <1>11 DEF Meeting, Rebook, BookingEffect
<1>12. ASSUME NEW to \in Statuses, SetStatus(r, to)
      PROVE  BookingEffect(r)
  <2>1. CASE SupportsBooking(r) /\ to \in {"cancelled", "completed"}
    <3>1. SetBooking(r, to) /\ to \in Ended
      BY <1>2, <1>12, <2>1 DEF SetStatus
    <3>2. requests'[r].status = to
      BY <1>3, <1>12 DEF SetStatus, RequestRows
    <3>3. QED BY <2>1, <3>1, <3>2 DEF SlotIsGivenUp, BookingEffect
  <2>2. QED BY <1>12, <2>1 DEF SetStatus, BookingEffect
<1>13. CASE Cancel(r)
  <2>1. requests'[r].status = "cancelled"
    BY <1>3, <1>13 DEF Cancel, RequestRows
  <2>2. QED BY <1>2, <1>13, <2>1 DEF Cancel, SlotIsGivenUp, BookingEffect
<1>14. CASE UploadWrite(r) \/ RequestClarification(r) \/ Approve(r) \/ RecordRemaining(r) \/ SettleAttempt(r)
  BY <1>1, <1>14 DEF UploadWrite, RequestClarification, Approve, RecordRemaining, SettleAttempt, Settled,
     BookingEffect
<1>15. CASE Reject(r)
  <2>1. receipts[r].status # "none" /\ receipts'[r].status = "none"
    BY <1>3, <1>15 DEF Reject, NoReceipt
  <2>2. QED BY <1>2, <1>15, <2>1 DEF Reject, SlotIsGivenUp, BookingEffect
<1>16. CASE CloseBooking(r)
  BY <1>2, <1>16 DEF CloseBooking, SlotIsGivenUp, BookingEffect
<1>17. CASE \E type \in Types, s \in Slots, c \in Channels : Create(r, type, s, c)
  BY <1>10, <1>17
<1>18. CASE \E s \in Slots, c \in Channels : Meeting(r, s, c) \/ Rebook(r, s, c)
  BY <1>11, <1>18
<1>19. CASE \E to \in Statuses : SetStatus(r, to)
  BY <1>12, <1>19
<1>20. QED BY <1>4, <1>8, <1>9, <1>13, <1>14, <1>15, <1>16, <1>17, <1>18, <1>19, <1>5, <1>6, <1>7
    DEF RequestStep

(* None of them touches the appointment of another request.                *)
LEMMA OtherBookings ==
    ASSUME NEW r \in Requests, RequestInv, RequestStep(r), NEW q \in Requests \ {r}
    PROVE  bookings'[q] = bookings[q]
<1>1. bookings \in [Requests -> BookingRows]
  BY DEF RequestInv, TypeOK
<1>2. QED BY <1>1, BookingEffects DEF BookingEffect, KeepBooking, HoldLapses, Reserve, SetBooking, ExpireHold

LEMMA PaidSlotStep ==
    ASSUME RequestInv, [Next]_vars
    PROVE  \A q \in Requests : LosesPaidSlot(q) => SlotIsGivenUp(q)
<1> SUFFICES ASSUME NEW q \in Requests, LosesPaidSlot(q) PROVE SlotIsGivenUp(q)
  OBVIOUS
<1>1. /\ requests[q].paid >= Deposit /\ bookings[q].status \in ActiveBookings
      /\ bookings'[q].status \notin ActiveBookings
  BY DEF LosesPaidSlot
<1>2. PICK r \in Requests : RequestStep(r)
  BY <1>1 DEF Next, vars
<1>3. q = r
  BY <1>1, <1>2, OtherBookings
<1>4. bookings \in [Requests -> BookingRows]
  BY DEF RequestInv, TypeOK
<1>5. ~KeepBooking
  BY <1>1 DEF KeepBooking
<1>6. ~HoldLapses(q)
  BY <1>1, <1>4 DEF HoldLapses, BookingRows
<1>7. ASSUME NEW status \in ActiveBookings,
             SetBooking(q, status) \/ \E s \in Slots, c \in Channels : Reserve(q, s, c, status)
      PROVE  FALSE
  BY <1>1, <1>4, <1>7 DEF SetBooking, Reserve, BookingRows
<1>8. ~ExpireHold(q)
  <2>1. BillFits(requests[q]) /\ StageFits(requests[q]) /\ requests[q].due \in Nat
        /\ requests[q].paid \in Nat /\ Deposit \in Nat
    BY Cells DEF Sound
  <2>2. SUFFICES ASSUME ExpireHold(q) PROVE FALSE
    OBVIOUS
  <2>3. requests[q].status = "awaiting_payment" /\ requests[q].stage # "balance"
    BY <2>2 DEF ExpireHold, NeedsHold
  <2>4. QED BY <1>1, <2>1, <2>3 DEF BillFits, StageFits
<1>9. QED BY <1>2, <1>3, <1>5, <1>6, <1>7, <1>8, BookingEffects DEF BookingEffect

(* A client who has paid the deposit loses the appointment only when the   *)
(* request ends, a receipt is rejected or a confirmation closes it.        *)
THEOREM PaidSlotKept == Spec => PaidSlotIsKept
<1>1. RequestInv /\ [Next]_vars => [\A r \in Requests : LosesPaidSlot(r) => SlotIsGivenUp(r)]_vars
  BY PaidSlotStep
<1>2. QED BY <1>1, RequestInvariant, PTL DEF Spec, PaidSlotIsKept

LEMMA FewerPlaces ==
    ASSUME NEW S, NEW T \in SUBSET Requests, S \subseteq T
    PROVE  /\ Cardinality(S) \in Nat /\ Cardinality(T) \in Nat
           /\ Cardinality(S) <= Cardinality(T)
<1>1. IsFiniteSet(T)
  BY RequestsAssumption, FS_Subset
<1>2. IsFiniteSet(S) /\ Cardinality(S) <= Cardinality(T)
  BY <1>1, FS_Subset
<1>3. QED BY <1>1, <1>2, FS_CardinalityType

LEMMA OneMorePlace ==
    ASSUME NEW S, NEW T \in SUBSET Requests, NEW r \in Requests, S \subseteq T \cup {r},
           NEW n \in Nat, Cardinality(T) < n
    PROVE  Cardinality(S) <= n
<1>1. IsFiniteSet(T) /\ Cardinality(T) \in Nat
  BY RequestsAssumption, FS_Subset, FS_CardinalityType
<1>2. Cardinality(T \cup {r}) <= Cardinality(T) + 1 /\ Cardinality(T \cup {r}) \in Nat
  <2>1. Cardinality(T \cup {r}) = IF r \in T THEN Cardinality(T) ELSE Cardinality(T) + 1
    BY <1>1, FS_AddElement
  <2>2. QED BY <1>1, <2>1
<1>3. Cardinality(S) \in Nat /\ Cardinality(S) <= Cardinality(T \cup {r})
  BY FewerPlaces
<1>4. QED BY <1>1, <1>2, <1>3

OnChannel(places, c) == {q \in places : bookings[q].channel = c}

(* A slot whose places are among those it had is not over its capacity.    *)
LEMMA StillFits ==
    ASSUME Capacity, NEW s \in Slots,
           \A q \in Occupied(s, late)' : q \in Occupied(s, late) /\ bookings'[q].channel = bookings[q].channel
    PROVE  /\ Cardinality(Occupied(s, late)') <= TotalCapacity
           /\ \A c \in Channels : Cardinality(OnChannel(Occupied(s, late), c)') <= ChannelCapacity
<1>1. Occupied(s, late) \in SUBSET Requests /\ Occupied(s, late)' \subseteq Occupied(s, late)
  BY DEF Occupied
<1>2. Cardinality(Occupied(s, late)') <= TotalCapacity
  <2>1. Cardinality(Occupied(s, late)) <= TotalCapacity
    BY DEF Capacity
  <2>2. QED BY <1>1, <2>1, FewerPlaces, CapacityAssumption
<1>3. ASSUME NEW c \in Channels PROVE Cardinality(OnChannel(Occupied(s, late), c)') <= ChannelCapacity
  <2>1. Cardinality(OnChannel(Occupied(s, late), c)) <= ChannelCapacity
    BY DEF Capacity, OnChannel
  <2>2. /\ OnChannel(Occupied(s, late), c) \in SUBSET Requests
        /\ OnChannel(Occupied(s, late), c)' \subseteq OnChannel(Occupied(s, late), c)
    BY <1>1 DEF OnChannel
  <2>3. QED BY <2>1, <2>2, FewerPlaces, CapacityAssumption
<1>4. QED BY <1>2, <1>3

(* Only a reservation takes a place.                                       *)
LEMMA PlacesLeft ==
    ASSUME RequestInv, NEW r \in Requests,
           \/ KeepBooking \/ HoldLapses(r)
           \/ \E status \in BookingStatuses : SetBooking(r, status),
           NEW s \in Slots, NEW q \in Occupied(s, late)'
    PROVE  q \in Occupied(s, late) /\ bookings'[q].channel = bookings[q].channel
<1>1. bookings \in [Requests -> BookingRows]
  BY DEF RequestInv, TypeOK
<1>2. /\ q \in Requests /\ q \notin late' /\ bookings'[q].slot = s /\ Counted(bookings'[q])
  BY DEF Occupied, HoldActive
<1>3. SUFFICES /\ q \notin late /\ bookings[q].slot = s /\ Counted(bookings[q])
               /\ bookings'[q].channel = bookings[q].channel
  BY <1>2 DEF Occupied, HoldActive
<1>4. CASE KeepBooking
  BY <1>2, <1>4 DEF KeepBooking
<1>5. CASE HoldLapses(r)
  BY <1>1, <1>2, <1>5 DEF HoldLapses, Counted, BookingRows
<1>6. ASSUME NEW status \in BookingStatuses, SetBooking(r, status)
      PROVE  /\ q \notin late /\ bookings[q].slot = s /\ Counted(bookings[q])
             /\ bookings'[q].channel = bookings[q].channel
  <2>1. CASE q # r
    <3>1. bookings'[q] = bookings[q]
      BY <1>1, <1>2, <1>6, <2>1 DEF SetBooking
    <3>2. q \notin late
      BY <1>2, <1>6, <2>1 DEF SetBooking
    <3>3. QED BY <1>2, <3>1, <3>2
  <2>2. CASE q = r
    <3>1. /\ bookings'[q].status = status /\ bookings'[q].slot = bookings[q].slot
          /\ bookings'[q].channel = bookings[q].channel
      <4>1. bookings'[q] = [bookings[q] EXCEPT !.status = status, !.held = FALSE]
        BY <1>1, <1>2, <1>6, <2>2 DEF SetBooking
      <4>2. bookings[q] \in BookingRows
        BY <1>1, <1>2
      <4>3. QED BY <4>1, <4>2 DEF BookingRows
    <3>2. status \in ActiveBookings
      BY <1>2, <3>1 DEF Counted
    <3>3. Counted(bookings[q]) /\ q \notin late
      BY <1>2, <1>6, <2>2, <3>2 DEF SetBooking
    <3>4. QED BY <1>2, <3>1, <3>3
  <2>3. QED BY <2>1, <2>2
<1>7. QED BY <1>4, <1>5, <1>6

LEMMA ReservationFits ==
    ASSUME RequestInv, Capacity, NEW r \in Requests, NEW slot \in Slots, NEW channel \in Channels,
           NEW status \in ActiveBookings, Reserve(r, slot, channel, status), NEW s \in Slots
    PROVE  /\ Cardinality(Occupied(s, late)') <= TotalCapacity
           /\ \A c \in Channels : Cardinality(OnChannel(Occupied(s, late), c)') <= ChannelCapacity
<1>1. bookings \in [Requests -> BookingRows]
  BY DEF RequestInv, TypeOK
<1>2. /\ bookings'[r].slot = slot /\ bookings'[r].channel = channel
      /\ \A q \in Requests \ {r} : bookings'[q] = bookings[q]
      /\ late' = late \ {r}
  BY <1>1 DEF Reserve
<1>3. ASSUME NEW q \in Occupied(s, late)', q # r
      PROVE  q \in Occupied(s, late) /\ q \in Taken(s, r) /\ bookings'[q] = bookings[q]
  <2>1. q \in Requests /\ q \notin late' /\ bookings'[q].slot = s /\ Counted(bookings'[q])
    BY DEF Occupied, HoldActive
  <2>2. bookings'[q] = bookings[q] /\ q \notin late
    BY <1>2, <1>3, <2>1
  <2>3. QED BY <1>3, <2>1, <2>2 DEF Occupied, HoldActive, Taken
<1>4. CASE s # slot
  <2>1. r \notin Occupied(s, late)'
    BY <1>2, <1>4 DEF Occupied
  <2>2. QED BY <1>3, <2>1, StillFits
<1>5. CASE s = slot
  <2>1. Taken(s, r) \in SUBSET Requests
    BY DEF Taken
  <2>2. /\ Cardinality(Taken(s, r)) < TotalCapacity
        /\ Cardinality(OnChannel(Taken(s, r), channel)) < ChannelCapacity
    BY <1>5 DEF Reserve, Fits, OnChannel
  <2>3. Cardinality(Occupied(s, late)') <= TotalCapacity
    <3>1. Occupied(s, late)' \subseteq Taken(s, r) \cup {r}
      BY <1>3
    <3>2. QED BY <2>1, <2>2, <3>1, OneMorePlace, CapacityAssumption
  <2>4. ASSUME NEW c \in Channels PROVE Cardinality(OnChannel(Occupied(s, late), c)') <= ChannelCapacity
    <3>1. CASE c = channel
      <4>1. OnChannel(Occupied(s, late), c)' \subseteq OnChannel(Taken(s, r), c) \cup {r}
        BY <1>3 DEF OnChannel
      <4>2. OnChannel(Taken(s, r), c) \in SUBSET Requests
        BY <2>1 DEF OnChannel
      <4>3. QED BY <2>2, <3>1, <4>1, <4>2, OneMorePlace, CapacityAssumption
    <3>2. CASE c # channel
      <4>1. OnChannel(Occupied(s, late), c)' \subseteq OnChannel(Occupied(s, late), c)
        BY <1>2, <1>3, <3>2 DEF OnChannel
      <4>2. OnChannel(Occupied(s, late), c) \in SUBSET Requests
        BY DEF OnChannel, Occupied
      <4>3. Cardinality(OnChannel(Occupied(s, late), c)) <= ChannelCapacity
        BY DEF Capacity, OnChannel
      <4>4. QED BY <4>1, <4>2, <4>3, FewerPlaces, CapacityAssumption
    <3>3. QED BY <3>1, <3>2
  <2>5. QED BY <2>3, <2>4
<1>6. QED BY <1>4, <1>5

LEMMA CapacityStep == RequestInv /\ Capacity /\ [Next]_vars => Capacity'
<1> SUFFICES ASSUME RequestInv, Capacity, [Next]_vars PROVE Capacity'
  OBVIOUS
<1>1. SUFFICES ASSUME NEW s \in Slots
               PROVE  /\ Cardinality(Occupied(s, late)') <= TotalCapacity
                      /\ \A c \in Channels : Cardinality(OnChannel(Occupied(s, late), c)') <= ChannelCapacity
  BY DEF Capacity, OnChannel
<1>2. CASE UNCHANGED vars
  <2>1. \A q \in Occupied(s, late)' : q \in Occupied(s, late) /\ bookings'[q].channel = bookings[q].channel
    BY <1>2 DEF vars, Occupied, HoldActive
  <2>2. QED BY <2>1, StillFits
<1>3. ASSUME NEW r \in Requests, RequestStep(r)
      PROVE  /\ Cardinality(Occupied(s, late)') <= TotalCapacity
             /\ \A c \in Channels : Cardinality(OnChannel(Occupied(s, late), c)') <= ChannelCapacity
  <2>1. BookingEffect(r)
    BY <1>3, BookingEffects
  <2>2. CASE \/ KeepBooking \/ HoldLapses(r)
             \/ \E status \in BookingStatuses : SetBooking(r, status)
    BY <2>2, PlacesLeft, StillFits
  <2>3. CASE \E slot \in Slots, c \in Channels, status \in ActiveBookings : Reserve(r, slot, c, status)
    BY <2>3, ReservationFits
  <2>4. QED BY <2>1, <2>2, <2>3 DEF BookingEffect, BookingStatuses, Ended
<1>4. QED BY <1>2, <1>3 DEF Next

LEMMA CapacityStart == Init => Capacity
<1> SUFFICES ASSUME Init, NEW s \in Slots
             PROVE  /\ Cardinality(Occupied(s, late)) <= TotalCapacity
                    /\ \A c \in Channels :
                           Cardinality({r \in Occupied(s, late) : bookings[r].channel = c}) <= ChannelCapacity
  BY DEF Capacity
<1>1. Occupied(s, late) = {}
  BY DEF Init, Occupied, HoldActive, Counted, ActiveBookings
<1>2. \A c \in Channels : {r \in Occupied(s, late) : bookings[r].channel = c} = {}
  BY <1>1
<1>3. Cardinality({}) = 0
  BY FS_EmptySet
<1>4. QED BY <1>1, <1>2, <1>3, CapacityAssumption

(* No slot holds more clients than the office has places for, however many *)
(* reserve at once, but for payments that come after a hold was lost.      *)
THEOREM SlotsFit == Spec => []Capacity
BY CapacityStart, CapacityStep, RequestInvariant, PTL DEF Spec

-----------------------------------------------------------------------------
(* A request is a paid service.                                            *)

(* What a step may make of the row of a request, as a paid service.        *)
RowTurn(old, new) ==
    LET from == Phase(old)
        to   == Phase(new)
    IN  \/ new.paid = old.paid
           /\ \/ from = to
              \/ from = "none" /\ to = (IF Deposit > 0 THEN "deposit" ELSE "open")
              \/ from = "open" /\ to = "balance" /\ old.paid < Total
              \/ from \in {"open", "cancelled"} /\ to = "completed" /\ old.paid >= Total
              \/ from \in {"deposit", "open", "balance"} /\ to = "cancelled"
              \/ from \in {"balance", "completed", "cancelled"} /\ to = "open" /\ old.paid >= Deposit
        \/ new.paid > old.paid
           /\ \/ from = "deposit" /\ to = "open" /\ old.paid = 0 /\ new.paid = Deposit
              \/ from = "balance" /\ to = (IF new.paid >= Total THEN "open" ELSE "balance")

(* Each of these is a step of a paid service, or none.                     *)
LEMMA RowTurns ==
    ASSUME RequestInv, NEW r \in Requests, NEW row, requests' = [requests EXCEPT ![r] = row],
           RowTurn(requests[r], row)
    PROVE  [Service!Next]_(Service!vars)
<1> DEFINE phase == [q \in Requests |-> Phase(requests[q])]
           paid  == [q \in Requests |-> requests[q].paid]
           phase2 == [q \in Requests |-> Phase(requests'[q])]
           paid2  == [q \in Requests |-> requests'[q].paid]
<1>1. requests \in [Requests -> RequestRows]
  BY DEF RequestInv, TypeOK
<1>2. phase2 = [phase EXCEPT ![r] = Phase(row)] /\ phase[r] = Phase(requests[r])
  BY <1>1
<1>3. paid2 = [paid EXCEPT ![r] = row.paid] /\ paid[r] = requests[r].paid
  BY <1>1
<1>4. row.paid = paid[r] => paid2 = paid
  BY <1>1, <1>3
<1>5. Phase(row) = phase[r] => phase2 = phase
  BY <1>1, <1>2
<1>6. paid2[r] = row.paid
  BY <1>1
<1> HIDE DEF phase, paid, phase2, paid2
<1>7. \/ phase2 = phase /\ paid2 = paid
      \/ /\ paid2 = paid
         /\ \/ phase[r] = "none" /\ phase2 = [phase EXCEPT ![r] = IF Deposit > 0 THEN "deposit" ELSE "open"]
            \/ phase[r] = "open" /\ paid[r] < Total /\ phase2 = [phase EXCEPT ![r] = "balance"]
            \/ phase[r] \in {"open", "cancelled"} /\ paid[r] >= Total
               /\ phase2 = [phase EXCEPT ![r] = "completed"]
            \/ phase[r] \in {"deposit", "open", "balance"} /\ phase2 = [phase EXCEPT ![r] = "cancelled"]
            \/ phase[r] \in {"balance", "completed", "cancelled"} /\ paid[r] >= Deposit
               /\ phase2 = [phase EXCEPT ![r] = "open"]
      \/ /\ paid2[r] > paid[r] /\ paid2 = [paid EXCEPT ![r] = paid2[r]]
         /\ \/ phase[r] = "deposit" /\ paid[r] = 0 /\ paid2[r] = Deposit
               /\ phase2 = [phase EXCEPT ![r] = "open"]
            \/ phase[r] = "balance"
               /\ phase2 = [phase EXCEPT ![r] = IF paid2[r] >= Total THEN "open" ELSE "balance"]
  BY <1>2, <1>3, <1>4, <1>5, <1>6 DEF RowTurn
<1>8. QED
  BY <1>7 DEF phase, paid, phase2, paid2, Service!vars, Service!Next, Service!Order,
     Service!PayDeposit, Service!AskBalance, Service!PayBalance, Service!Complete, Service!Cancel,
     Service!Reopen, Service!Turns, Service!Paid

(* What is in flight is of a request that exists, and a payment page asks  *)
(* for something.                                                          *)
PagesAsk(r) ==
    /\ doing[r] # {} => requests[r].status # "none"
    /\ \A e \in doing[r] : e.what = "checkout" => e.amount > 0
    /\ \A a \in attempts[r] : a.amount > 0
PagesInv == \A r \in Requests : PagesAsk(r)

(* What a step does to what is in flight and to the payable attempts.      *)
PagesEffect(r) ==
    /\ \A e \in doing'[r] :
          \/ e \in doing[r]
          \/ doing[r] # {} /\ e.what # "checkout"
          \/ requests[r].status # "none" /\ (e.what = "checkout" => e.amount > 0)
    /\ \A a \in attempts'[r] : a \in attempts[r] \/ a.amount > 0
    /\ \A q \in Requests \ {r} : attempts'[q] = attempts[q] /\ doing'[q] = doing[q]

LEMMA PagesStep ==
    ASSUME RequestInv, PagesInv, NEW r \in Requests, RequestStep(r)
    PROVE  PagesEffect(r)
<1>0. attempts \in [Requests -> SUBSET AttemptRows] /\ doing \in [Requests -> SUBSET Errands]
  BY DEF RequestInv, TypeOK
<1>1. CASE UNCHANGED <<attempts, doing>>
  BY <1>1 DEF PagesEffect
<1>2. ASSUME NEW e \in doing[r], Ends(r, e), UNCHANGED attempts PROVE PagesEffect(r)
  <2>1. doing'[r] = doing[r] \ {e} /\ \A q \in Requests \ {r} : doing'[q] = doing[q]
    BY <1>0, <1>2 DEF Ends
  <2>2. attempts' = attempts
    BY <1>2
  <2>3. QED BY <2>1, <2>2 DEF PagesEffect
<1>3. CASE UploadRead(r) \/ ConfirmRead(r) \/ RevisionRead(r)
  <2>1. PICK what \in {"upload", "confirm", "revise"} : Begin(r, what, 0) /\ requests[r].status # "none"
    BY <1>3 DEF UploadRead, ConfirmRead, RevisionRead
  <2>2. QED BY <1>0, <2>1 DEF Begin, PagesEffect
<1>4. CASE CheckoutRead(r)
  BY <1>0, <1>4 DEF CheckoutRead, Awaiting, Begin, PagesEffect
<1>5. ASSUME NEW p \in Providers, CheckoutOpen(r, p) PROVE PagesEffect(r)
  <2>1. PICK e \in doing[r] : /\ e.what = "checkout" /\ Ends(r, e)
                              /\ attempts' = [attempts EXCEPT ![r] = {a \in @ : a.provider # p} \cup
                                                 {[provider |-> p, amount |-> e.amount]}]
    BY <1>5 DEF CheckoutOpen, InFlight
  <2>2. e.amount > 0
    BY <2>1 DEF PagesInv, PagesAsk
  <2>3. doing'[r] = doing[r] \ {e} /\ \A q \in Requests \ {r} : doing'[q] = doing[q]
    BY <1>0, <2>1 DEF Ends
  <2>4. /\ attempts'[r] = {a \in attempts[r] : a.provider # p} \cup {[provider |-> p, amount |-> e.amount]}
        /\ \A q \in Requests \ {r} : attempts'[q] = attempts[q]
    BY <1>0, <2>1
  <2>5. QED BY <2>2, <2>3, <2>4 DEF PagesEffect
<1>6. CASE AttemptFails(r) \/ SettleAttempt(r)
  <2>1. PICK a \in attempts[r] : attempts' = [attempts EXCEPT ![r] = @ \ {a}] /\ UNCHANGED doing
    BY <1>6 DEF AttemptFails, SettleAttempt
  <2>2. QED BY <1>0, <2>1 DEF PagesEffect
<1>7. CASE ConfirmWrite(r)
  <2>1. PICK e \in doing[r] :
          doing' = [doing EXCEPT ![r] = (@ \ {e}) \cup
                (IF SupportsBooking(r) THEN {[what |-> "close_booking", amount |-> 0]} ELSE {})]
    BY <1>7 DEF ConfirmWrite, InFlight
  <2>2. UNCHANGED attempts
    BY <1>7 DEF ConfirmWrite
  <2>3. QED BY <1>0, <2>1, <2>2 DEF PagesEffect
<1>8. CASE UploadWrite(r) \/ CloseBooking(r) \/ RevisionWrite(r) \/ Abandon(r)
  <2>1. PICK e \in doing[r] : Ends(r, e) /\ UNCHANGED attempts
    BY <1>8 DEF UploadWrite, CloseBooking, RevisionWrite, Abandon, InFlight
  <2>2. QED BY <1>2, <2>1
<1>9. CASE \/ HoldLapses(r) \/ ExpireHold(r) \/ Cancel(r) \/ LinkContract(r)
           \/ Approve(r) \/ RequestClarification(r) \/ Reject(r) \/ RecordRemaining(r)
  BY <1>1, <1>9 DEF HoldLapses, ExpireHold, Cancel, LinkContract, Approve, RequestClarification,
     Reject, RecordRemaining
<1>10. ASSUME \/ \E type \in Types, s \in Slots, c \in Channels : Create(r, type, s, c)
              \/ \E to \in Statuses : SetStatus(r, to)
              \/ \E s \in Slots, c \in Channels : Meeting(r, s, c) \/ Rebook(r, s, c)
              \/ \E final \in BOOLEAN : Deliver(r, final)
       PROVE  PagesEffect(r)
  <2>1. UNCHANGED <<attempts, doing>>
    BY <1>10 DEF Create, SetStatus, Meeting, Rebook, Deliver
  <2>2. QED BY <1>1, <2>1
<1>11. QED BY <1>3, <1>4, <1>5, <1>6, <1>7, <1>8, <1>9, <1>10 DEF RequestStep

(* A payment that settles pays the deposit, or towards the balance.        *)
LEMMA SettledTurn ==
    ASSUME RequestInv, NEW r \in Requests, NEW amount \in Nat, amount > 0,
           requests[r].status = "awaiting_payment",
           requests[r].stage = "deposit" => amount = Deposit
    PROVE  RowTurn(requests[r], PaymentState(requests[r], requests[r].paid + amount))
<1> DEFINE old == requests[r]
           approved == old.paid + amount
<1>1. /\ old \in RequestRows /\ old.paid \in Nat /\ approved \in Nat /\ approved > old.paid
      /\ Deposit \in Nat /\ Total \in Nat /\ Deposit <= Total /\ BillFits(old) /\ StageFits(old)
  BY Cells DEF Sound, CellTypes
<1>2. old.stage \in {"deposit", "balance"}
  BY <1>1 DEF BillFits
<1>3. CASE old.stage = "balance" /\ approved >= Total
  <2> DEFINE row == [[old EXCEPT !.paid = approved] EXCEPT !.status = "client_review",
                                                         !.stage = "paid", !.due = 0]
  <2>1. PaymentState(old, approved) = row
    BY <1>3 DEF PaymentState
  <2>2. row.paid = approved /\ row.status = "client_review"
    BY <1>1 DEF RequestRows
  <2> HIDE DEF row
  <2>3. Phase(old) = "balance" /\ Phase(row) = "open"
    BY <1>3, <2>2 DEF Phase
  <2>4. QED BY <1>1, <1>3, <2>1, <2>2, <2>3 DEF RowTurn
<1>4. CASE old.stage = "balance" /\ ~(approved >= Total)
  <2> DEFINE row == [[old EXCEPT !.paid = approved] EXCEPT !.due = Total - approved]
  <2>1. PaymentState(old, approved) = row
    BY <1>4 DEF PaymentState
  <2>2. row.paid = approved /\ row.status = "awaiting_payment" /\ row.stage = "balance"
    BY <1>1, <1>4 DEF RequestRows
  <2> HIDE DEF row
  <2>3. Phase(old) = "balance" /\ Phase(row) = "balance"
    BY <1>4, <2>2 DEF Phase
  <2>4. QED BY <1>1, <1>4, <2>1, <2>2, <2>3 DEF RowTurn
<1>5. CASE old.stage = "deposit"
  <2> DEFINE row == [[old EXCEPT !.paid = approved] EXCEPT !.status = "new", !.stage = "working", !.due = 0]
  <2>1. old.paid = 0 /\ approved = Deposit
    BY <1>1, <1>5 DEF StageFits
  <2>2. PaymentState(old, approved) = row
    BY <1>1, <1>5, <2>1 DEF PaymentState
  <2>3. row.paid = approved /\ row.status = "new"
    BY <1>1 DEF RequestRows
  <2> HIDE DEF row
  <2>4. Phase(old) = "deposit" /\ Phase(row) = "open"
    BY <1>5, <2>3 DEF Phase
  <2>5. QED BY <1>1, <2>1, <2>2, <2>3, <2>4 DEF RowTurn
<1>6. QED BY <1>2, <1>3, <1>4, <1>5

(* A status that is written.                                               *)
LEMMA StatusTurn ==
    ASSUME RequestInv, NEW r \in Requests, NEW to \in Statuses \ {"none", "awaiting_payment"},
           requests[r].status # "none",
           \/ to = "cancelled" /\ requests[r].status \notin {"completed", "cancelled"}
           \/ to = "completed" /\ FullyPaid(requests[r])
           \/ to \notin {"cancelled", "completed"} /\ requests[r].paid >= Deposit
    PROVE  RowTurn(requests[r], [requests[r] EXCEPT !.status = to])
<1> DEFINE old == requests[r]
           row == [old EXCEPT !.status = to]
<1>1. /\ old \in RequestRows /\ old.paid \in Nat /\ Deposit \in Nat /\ Total \in Nat /\ Deposit <= Total
      /\ BillFits(old)
  BY Cells DEF Sound, CellTypes
<1>2. row.status = to /\ row.paid = old.paid
  BY <1>1 DEF RequestRows
<1> HIDE DEF row
<1>3. Phase(row) = IF to \in {"cancelled", "completed"} THEN to ELSE "open"
  BY <1>2 DEF Phase
<1>4. Phase(old) = IF old.status = "awaiting_payment" THEN old.stage
                   ELSE IF old.status \in {"completed", "cancelled"} THEN old.status ELSE "open"
  BY DEF Phase
<1>5. old.status = "awaiting_payment" =>
        /\ old.stage \in {"deposit", "balance"} /\ ~(old.paid >= Total)
        /\ old.stage = "deposit" => ~(old.paid >= Deposit)
  BY <1>1 DEF BillFits
<1>6. ASSUME to = "cancelled", old.status \notin {"completed", "cancelled"} PROVE RowTurn(old, row)
  BY <1>2, <1>3, <1>4, <1>5, <1>6 DEF RowTurn
<1>7. ASSUME to = "completed", old.paid >= Total PROVE RowTurn(old, row)
  BY <1>2, <1>3, <1>4, <1>5, <1>7 DEF RowTurn
<1>8. ASSUME to \notin {"cancelled", "completed"}, old.paid >= Deposit PROVE RowTurn(old, row)
  BY <1>2, <1>3, <1>4, <1>5, <1>8 DEF RowTurn
<1>9. QED BY <1>6, <1>7, <1>8 DEF row, FullyPaid

(* Every step is a turn of the row of its request.                         *)
LEMMA StepTurns ==
    ASSUME RequestInv, PagesInv, NEW r \in Requests, RequestStep(r)
    PROVE  \E row : requests' = [requests EXCEPT ![r] = row] /\ RowTurn(requests[r], row)
<1> DEFINE old == requests[r]
           G == \E row : requests' = [requests EXCEPT ![r] = row] /\ RowTurn(requests[r], row)
<1>1. /\ requests \in [Requests -> RequestRows] /\ old \in RequestRows /\ old.paid \in Nat /\ old.due \in Nat
      /\ Deposit \in Nat /\ Total \in Nat /\ Deposit <= Total /\ old.status \in Statuses
      /\ Sound(old, bookings[r], attempts[r], doing[r]) /\ attempts[r] \subseteq AttemptRows
      /\ receipts[r].amount \in Nat
  BY Cells DEF RequestInv, TypeOK, CellTypes
<1>2. CASE UNCHANGED requests
  <2>1. requests' = [requests EXCEPT ![r] = old] /\ RowTurn(old, old)
    BY <1>1, <1>2 DEF RowTurn
  <2>2. QED BY <2>1
<1>3. ASSUME NEW to \in Statuses \ {"none", "awaiting_payment"}, old.status # "none",
             requests' = [requests EXCEPT ![r].status = to],
             \/ to = "cancelled" /\ old.status \notin {"completed", "cancelled"}
             \/ to = "completed" /\ FullyPaid(old)
             \/ to \notin {"cancelled", "completed"} /\ old.paid >= Deposit
      PROVE  G
  <2>1. RowTurn(old, [old EXCEPT !.status = to])
    BY <1>3, StatusTurn
  <2>2. requests' = [requests EXCEPT ![r] = [old EXCEPT !.status = to]]
    BY <1>3
  <2>3. QED BY <2>1, <2>2
<1>4. ASSUME NEW amount \in Nat, amount > 0, old.status = "awaiting_payment", Settled(r, amount),
             old.stage = "deposit" => amount = Deposit
      PROVE  G
  <2>1. RowTurn(old, PaymentState(old, old.paid + amount))
    BY <1>4, SettledTurn
  <2>2. requests' = [requests EXCEPT ![r] = PaymentState(old, old.paid + amount)]
    BY <1>4 DEF Settled
  <2>3. QED BY <2>1, <2>2
<1>5. ASSUME NEW type \in Types, NEW s \in Slots, NEW c \in Channels, Create(r, type, s, c) PROVE G
  <2> DEFINE row == [type   |-> type,
                     status |-> IF Deposit > 0 THEN "awaiting_payment" ELSE "new",
                     stage  |-> IF Deposit > 0 THEN "deposit" ELSE "working",
                     due |-> Deposit, paid |-> 0, final |-> "none"]
  <2>1. old.status = "none" /\ requests' = [requests EXCEPT ![r] = row]
    BY <1>5 DEF Create
  <2>2. old.paid = 0
    BY <1>1, <2>1 DEF Sound, StageFits
  <2>3. Phase(old) = "none" /\ Phase(row) = (IF Deposit > 0 THEN "deposit" ELSE "open")
    BY <2>1 DEF Phase
  <2>4. RowTurn(old, row)
    BY <2>2, <2>3 DEF RowTurn
  <2>5. QED BY <2>1, <2>4
<1>6. ASSUME NEW to \in Statuses, SetStatus(r, to) PROVE G
  <2>1. /\ to \in StaffMoves[old.status] /\ requests' = [requests EXCEPT ![r].status = to]
        /\ to = "completed" => FullyPaid(old)
    BY <1>6 DEF SetStatus
  <2>2. /\ to \notin {"none", "awaiting_payment"} /\ old.status \notin {"none", "completed", "cancelled"}
        /\ to # "cancelled" => old.status # "awaiting_payment"
    BY <1>1, <2>1 DEF StaffMoves, Statuses
  <2>3. to # "cancelled" => old.paid >= Deposit
    BY <1>1, <2>2 DEF Sound, WorkNeedsDeposit
  <2>4. QED BY <1>3, <2>1, <2>2, <2>3
<1>7. CASE Cancel(r)
  <2>1. "cancelled" \in Statuses \ {"none", "awaiting_payment"}
    BY DEF Statuses
  <2>2. QED BY <1>3, <1>7, <2>1 DEF Cancel
<1>8. CASE LinkContract(r)
  <2>1. "in_progress" \in Statuses \ {"none", "awaiting_payment"}
    BY DEF Statuses
  <2>2. old.paid >= Deposit
    BY <1>1, <1>8 DEF LinkContract, Sound, WorkNeedsDeposit
  <2>3. QED BY <1>3, <1>8, <2>1, <2>2 DEF LinkContract
<1>9. ASSUME NEW final \in BOOLEAN, Deliver(r, final) PROVE G
  <2> DEFINE row == Delivered(old, final)
  <2>1. /\ old.status \in {"in_progress", "revision_requested", "client_review"}
        /\ requests' = [requests EXCEPT ![r] = row]
    BY <1>9 DEF Deliver
  <2>2. /\ row.paid = old.paid
        /\ \/ row.status = "client_review"
           \/ row.status = "awaiting_payment" /\ row.stage = "balance" /\ old.paid < Total
    <3>1. CASE ~final
      BY <1>1, <3>1 DEF Delivered, RequestRows
    <3>2. CASE final /\ FullyPaid(old)
      BY <1>1, <3>2 DEF Delivered, RequestRows
    <3>3. CASE final /\ ~FullyPaid(old)
      BY <1>1, <3>3 DEF Delivered, RequestRows, FullyPaid
    <3>4. QED BY <3>1, <3>2, <3>3
  <2> HIDE DEF row
  <2>3. Phase(old) = "open"
    BY <2>1 DEF Phase
  <2>4. Phase(row) = "open" \/ (Phase(row) = "balance" /\ old.paid < Total)
    BY <2>2 DEF Phase
  <2>5. RowTurn(old, row)
    BY <2>2, <2>3, <2>4 DEF RowTurn
  <2>6. QED BY <2>1, <2>5
<1>10. CASE Approve(r)
  <2>1. /\ Awaiting(r) /\ receipts[r].amount = old.due /\ Settled(r, receipts[r].amount)
    BY <1>10 DEF Approve
  <2>2. old.status = "awaiting_payment" /\ old.due > 0 /\ (old.stage = "deposit" => old.due = Deposit)
    BY <1>1, <2>1 DEF Awaiting, Sound, BillFits, StageFits
  <2>3. QED BY <1>1, <1>4, <2>1, <2>2
<1>11. CASE RecordRemaining(r)
  <2>1. Awaiting(r) /\ old.stage = "balance" /\ Settled(r, old.due)
    BY <1>11 DEF RecordRemaining
  <2>2. QED BY <1>1, <1>4, <2>1 DEF Awaiting
<1>12. CASE SettleAttempt(r)
  <2>1. PICK a \in attempts[r] : old.status = "awaiting_payment" /\ Settled(r, a.amount)
    BY <1>12 DEF SettleAttempt
  <2>2. a.amount \in Nat /\ a.amount > 0
    BY <1>1 DEF AttemptRows, PagesInv, PagesAsk
  <2>3. old.stage = "deposit" => a.amount = Deposit
    BY <1>1 DEF Sound, DepositsOnly
  <2>4. QED BY <1>4, <2>1, <2>2, <2>3
<1>13. CASE ConfirmWrite(r)
  <2>1. PICK e \in doing[r] : e.what = "confirm" /\ requests' = [requests EXCEPT ![r].status = "completed"]
    BY <1>13 DEF ConfirmWrite, InFlight
  <2>2. FullyPaid(old) /\ old.status # "none"
    BY <1>1, <2>1 DEF Sound, ErrandsHaveSeen, PagesInv, PagesAsk
  <2>3. "completed" \in Statuses \ {"none", "awaiting_payment"}
    BY DEF Statuses
  <2>4. QED BY <1>3, <2>1, <2>2, <2>3
<1>14. CASE RevisionWrite(r)
  <2>1. PICK e \in doing[r] : e.what = "revise"
                              /\ requests' = [requests EXCEPT ![r].status = "revision_requested"]
    BY <1>14 DEF RevisionWrite, InFlight
  <2>2. old.paid >= Deposit /\ old.status # "none"
    BY <1>1, <2>1 DEF Sound, ErrandsHaveSeen, PagesInv, PagesAsk
  <2>3. "revision_requested" \in Statuses \ {"none", "awaiting_payment"}
    BY DEF Statuses
  <2>4. QED BY <1>3, <2>1, <2>2, <2>3
<1>15. CASE \/ HoldLapses(r) \/ ExpireHold(r) \/ UploadRead(r) \/ UploadWrite(r)
            \/ RequestClarification(r) \/ Reject(r) \/ CheckoutRead(r) \/ AttemptFails(r)
            \/ ConfirmRead(r) \/ CloseBooking(r) \/ RevisionRead(r) \/ Abandon(r)
  BY <1>2, <1>15 DEF HoldLapses, ExpireHold, UploadRead, UploadWrite, RequestClarification, Reject,
     CheckoutRead, AttemptFails, ConfirmRead, CloseBooking, RevisionRead, Abandon, Begin
<1>16. CASE \/ \E p \in Providers : CheckoutOpen(r, p)
            \/ \E s \in Slots, c \in Channels : Meeting(r, s, c) \/ Rebook(r, s, c)
  BY <1>2, <1>16 DEF CheckoutOpen, Meeting, Rebook
<1>17. QED BY <1>5, <1>6, <1>7, <1>8, <1>9, <1>10, <1>11, <1>12, <1>13, <1>14, <1>15, <1>16
    DEF RequestStep

LEMMA PagesKeep == RequestInv /\ PagesInv /\ [Next]_vars => PagesInv'
<1> SUFFICES ASSUME RequestInv, PagesInv, [Next]_vars PROVE PagesInv'
  OBVIOUS
<1>1. CASE UNCHANGED vars
  BY <1>1 DEF vars, PagesInv, PagesAsk
<1>2. ASSUME NEW r \in Requests, RequestStep(r), NEW q \in Requests
      PROVE  PagesAsk(q)'
  <2>1. PICK row : requests' = [requests EXCEPT ![r] = row] /\ RowTurn(requests[r], row)
    BY <1>2, StepTurns
  <2>2. requests \in [Requests -> RequestRows] /\ StageFits(requests[r]) /\ requests[r].stage \in Stages
    BY Cells DEF RequestInv, TypeOK, Sound
  <2>3. CASE q = r
    <3>1. requests'[r] = row
      BY <2>1, <2>2
    <3>2. requests[r].status # "none" => row.status # "none"
      <4>1. Phase(requests[r]) = "none" => requests[r].status = "none"
        BY <2>2 DEF Phase, Stages
      <4>2. row.status = "none" => Phase(row) = "none"
        BY DEF Phase
      <4>3. Phase(row) = "none" => Phase(requests[r]) = "none"
        BY <2>1 DEF RowTurn
      <4>4. QED BY <4>1, <4>2, <4>3
    <3>3. PagesAsk(r)
      BY DEF PagesInv
    <3>4. doing'[r] # {} => row.status # "none"
      BY <1>2, <3>2, <3>3, PagesStep DEF PagesEffect, PagesAsk
    <3>5. /\ \A e \in doing'[r] : e.what = "checkout" => e.amount > 0
          /\ \A a \in attempts'[r] : a.amount > 0
      BY <1>2, <3>3, PagesStep DEF PagesEffect, PagesAsk
    <3>6. QED BY <2>3, <3>1, <3>4, <3>5 DEF PagesAsk
  <2>4. CASE q # r
    BY <1>2, <2>1, <2>2, <2>4, PagesStep DEF PagesEffect, PagesInv, PagesAsk
  <2>5. QED BY <2>3, <2>4
<1>3. QED BY <1>1, <1>2 DEF Next, PagesInv

LEMMA PagesStart == Init => PagesInv
BY DEF Init, PagesInv, PagesAsk

(* However the office, the client's tabs and the providers' notifications  *)
(* interleave, a request is a paid service: work begins with the deposit   *)
(* and ends as completed with the total, and a payment is one that was     *)
(* asked for (PaymentService, ServiceRequestService, PaymentGatewayService)*)
THEOREM RequestsArePaidServices == Spec => ImplementsPaidService
<1>1. Init => Service!Init
  BY DEF Init, Service!Init, Phase
<1>2. RequestInv /\ PagesInv /\ [Next]_vars => [Service!Next]_(Service!vars)
  <2> SUFFICES ASSUME RequestInv, PagesInv, [Next]_vars PROVE [Service!Next]_(Service!vars)
    OBVIOUS
  <2>1. CASE UNCHANGED vars
    BY <2>1 DEF vars, Service!vars
  <2>2. ASSUME NEW r \in Requests, RequestStep(r) PROVE [Service!Next]_(Service!vars)
    BY <2>2, StepTurns, RowTurns
  <2>3. QED BY <2>1, <2>2 DEF Next
<1>3. QED BY <1>1, <1>2, RequestInvariant, PagesStart, PagesKeep, PTL
    DEF Spec, ImplementsPaidService, Service!Spec

=============================================================================
