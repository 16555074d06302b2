# A verification of the Z draft platform

Z draft is a legal office's contract platform. Clients fill in contracts from
templates in a wizard, or ask a lawyer to review or draft one; they pay online or
with a transfer receipt; the office works on requests and issues final documents.
The state that matters is in PostgreSQL, and a Laravel backend (`backend/app`), a
handful of scheduled commands, and two payment providers change it. The office's
dashboard only calls the API; the customer's frontend also holds drafts in the
browser, and writes the legal text of its preview itself, with an engine of its
own (`packages/template-engine`).

The modules here model that core in TLA+. TLC checks them on small instances
and TLAPS proves the main results for all values of the constants.

## 1. The system

| Component | State | Operations | Modelled |
|---|---|---|---|
| Payment gateway (`PaymentGatewayService`, `PaymentController::createCheckout/webhook`) | `payment_attempts`, one row per idempotency key | checkout (target, attempt, provider call, record), success and failure notifications | `PaymentGateway`, `ContractCheckout` |
| Contract billing (`PaymentController`, `ContractController`) | `contracts`, `payments` | receipt, approval, clarification, rejection, manual collection, waiver, gateway settlement | `ContractBilling` |
| Lawyer review add-on (`SelfServiceLawyerReviewService`) | add-on columns of `contracts`, an internal `service_requests` row | select, clear, activate, synchronise, gate the issuance | `ContractBilling` |
| Contract lifecycle (`ContractController`, `FinalizeExpiredContracts`) | `contracts`, `contract_versions` | draft, edit, submit, share, revise, status, version, lock, issue, finalize, expire | statuses in `ContractBilling`; versions, hash and text in `DocumentJobs`; the client's writes in `DraftSync` |
| Service requests (`ServiceRequestController`, `ServiceRequestWorkflow`) | `service_requests` with payment metadata, deliverables | create, staff moves, cancel, deliver, link, confirm, ask for a revision, pay | `ServiceRequest` |
| Appointments (`ConsultationScheduleService`) | `consultation_bookings`, schedule windows | reserve, hold, expire, rebook, reschedule | `ServiceRequest`, `MCServiceRequest` |
| Document jobs (`ProcessDocumentJobs`) | `document_jobs`, `contract_document_files`, `pdf_status` | claim, render, store, complete, fail, retry | `DocumentJobs` |
| Template engine (`resolver.ts`, `validation.ts`, `templates/*/definition.ts`; `TemplateEngineService.php`) | the answers of a draft | show and require fields, validate, write the articles: in the wizard and again on the server | `LegalTemplate`, `RentalTemplate`, `SaleTemplate`, `FreelanceTemplate`, `ServerText`, `LegalText` |
| Wizard drafts (`wizardStore.ts`, `ContractWizard.tsx`, `draftRepository.ts`, `GatewayCheckoutModal.tsx`; `createDraft/updateDraft`) | the tab's draft, its timer, the saves in flight; `contracts` | edit, autosave, save and pay, discard, open again | `DraftSync` |
| Outbox (`ProcessNotificationOutbox`) | `notification_outbox` | claim, send, mark, retry | no (6) |
| State projections, pricing | none | pure functions | no (6) |
| Templates, catalog | template versions | edit, publish | no (6) |
| Accounts, sessions, codes | users, sessions, codes | sign in, rotate, verify | no (6) |
| Attachments | files and their rows | upload, link, clean up | no (6) |
| Saved parties, legal content, audit, reports, settings, users | single rows | create, read, update | no: nothing to interleave |
| Dashboard, the rest of the frontend, deployment, backup, tooling | none the backend relies on | | no |

How the parts interact. The wizard saves its draft as a contract, by itself and
before a checkout, and shows the articles its own engine writes. A checkout first
submits the contract and commits the client's choice of a lawyer review on it,
then reads what is due on its target (a contract or a
service request), then opens an attempt in a transaction, then calls the
provider over HTTP, and last records the answer. A notification settles attempt,
payment and target in one transaction; settling a contract may create the review
request, whose completion hands the contract back. Locking a contract writes its
articles again, with the server's engine, and issuing it queues a
document job; a worker renders it later and marks the contract's PDF as ready.
A contract review's payments drive its appointment.

What makes it hard:

* **Two locking styles.** Payment handlers lock the rows they decide on
  (`FOR UPDATE`). `ContractController`, and the client's half of
  `ServiceRequestController`, read, check, and write in a later transaction that
  does not look again.
* **Calls outside transactions.** The provider's answer is recorded whatever the
  attempt has become.
* **Notifications** come late, twice and out of order, also for attempts the
  application has cancelled: the provider's page stays payable.
* **Saves without an order.** Several saves of one draft are in flight at once; the
  server takes them as they come, and an answer is applied to whatever draft the
  wizard holds by then.
* **Two engines.** Three definitions with hundreds of conditions decide which
  fields are shown, required and printed, in three different places of each
  definition, and the server repeats a part of it in PHP.
* **Time.** Holds on appointments lapse, edit windows end, jobs become due.
* **Crashes** between the transactions of one handler, and of workers.
* **Several ways to pay** one bill (receipt, gateway, waiver, manual collection),
  in any order, at amounts that depend on an option that can change.

What makes each component correct: the gateway keeps one payable attempt per
provider and target and never forgets a payment; no contract is locked or issued
unpaid, and review work waits for its price; a request is worked on after its
deposit and completed when paid in full, its final document hidden until then; a
slot is not given out twice; every document job ends, with all its files, of the
text its version was hashed from; a draft that is valid is a complete text with
what the customer wrote and without what no longer applies, and the same text is
issued; what a customer has agreed to pay for is what is submitted, once.

## 2. Modules

Every operation of the code is an action with the code's guard. A handler that
locks its rows is one action; one that does not is two, with what it has read
carried by a request in flight (`reqs`, `calls`, `doing`, `saves`), and an action
(`Abandon`, `EndCall`, `Crash`, `Fault`) for the process that dies in between.

**`PaymentGateway`** models `createCheckout` and `handleWebhook` over one row per
idempotency key (provider, target, due; the client goes with the target and the
payment stage with the amount). `calls` holds each checkout between its steps:
`StartCheckout`, `ReadTarget`, `OpenAttempt` (the transaction with the
superseding of other amounts and the reuse of an own row), then the provider's
answer, `RecordSession` or `RecordProviderError`. `pages` are the keys a client
was handed a payment page for; notifications may come for these at any time.
The target is the environment.

**`ContractBilling`** models a contract's status, billing mode, add-on, review
request and edit window, its `payments` in order, and the requests in flight.
`BillingSettled` is `assertBillingSettled`, which looks at the latest payment only
(`LatestApproved`), `StaffMoves` and `ReviewMoves` are the transition tables.
`Plan` is the read and check of a handler, `Write` its later write; `finalize`
writes twice, in two transactions (`then`). `paymentWaiver` is such a handler, too
(`Waive`, then `Write`): its UPDATE is by id alone, so that a draft deleted since
it was read is waived all the same.

**`ContractCheckout`** extends `ContractBilling` and instantiates `PaymentGateway`
with contracts as targets. Each action is a gateway step conjoined with what it
does to the contract; `SettleAttempt` is the settlement's single transaction.

**`ServiceRequest`** models clients' requests, their appointments, receipts and
attempts, and the clients' handlers in flight. `SetBooking` is `setBookingStatus`,
which writes whatever the booking has become; `late` is a history variable that
remembers bookings made active in this way without a reservation.

**`DocumentJobs`** models one contract's versions, jobs and files and the workers.
A worker's run is `Claim`, `Load` (the contract's fields are read), one `Persist`
per file, and `Complete` or, at any point, `Fail`.

**`LegalTemplate`** is the vocabulary of a template: a condition is a set of
alternatives, each a set of atoms (`Is`, `On`, `Off`, `Positive`; `Holds` is
`evaluateCondition`), a field has a kind, the condition it is shown under and the
one it is required under (`Issue` is `validateScalarField`), an article has
variables and a condition, and a rule says when a variable has a text and which
answers that text prints. There are two tests of an empty answer, as in the code:
conditions and `Issue` take only `""` for none (`validation.ts:15`), the rules of the
texts trim an answer first (`Filled`, `Missing`: `valueText`, `resolver.ts:466`), so
that an answer of spaces, `" "`, is one for the first and none for the second.
**`RentalTemplate`**, **`SaleTemplate`** and
**`FreelanceTemplate`** are the three definitions of the repository with their
nine contracts: fields, defaults, articles, and the rules of the preview.
**`ServerText`** has the rules of the server (`derivedClauseValue` in PHP).

**`LegalText`** lets a customer answer the fields of a contract in any order. The
drafts of one contract are far too many to enumerate, so a behaviour is about one
`topic` (a variable of the preview, an answer, or a variable of the issued
contract) and holds the answers that topic depends on: those its text prints or
tests, and, transitively, those that decide whether they are shown and required.
`TopicsAreClosed`, which TLC evaluates, says that nothing is missing. What is
left out decides nothing about what is kept, and a draft that is valid is valid
in each topic, so a property of one topic at a time loses no behaviour; section 4
has the proof. `Follows` is a judgement about the data of a definition: from one
condition follows another in every valid draft, by comparing atoms, whatever is
chosen for the choices of the topic. `HiddenAnswersAreGuarded`, `VariablesHaveTexts`
and `AnswersArePrinted` make this judgement of every rule, and TLC evaluates them.

**`DraftSync`** models the wizard's `draft`, the autosave's `timer`, what the
wizard says of the draft (`notice`), the `saves` in flight, the open checkout
(`modal`) and the server's `contracts`. The values of a draft are the number of
the customer's last change. A save is a POST (`CreateDraft`) or a PATCH, which
reads and checks (`ReadDraft`) and writes later (`WriteDraft`). `Discard` leaves
no draft, `Open` opens the wizard's page again (`by` says whether the page that
was left still hears its answers), `Fault` loses a request or its answer.
`accepted` and `forked` are history variables, see 3.

**`LegalDraft`** is the whole draft of a contract beside the answers of one topic,
a view of it. It has far too many states for TLC and is there for the proofs.

**`JobQueue`**, **`PaidService`** and **`PaidContract`** are abstract
specifications: a queue of jobs that are put once, taken by one worker and tried a
limited number of times; a service that is paid before it is given; a contract
whose bill is settled once and that is made final only when somebody answers for
its price. `DocumentJobs` implements the first, `ServiceRequest` the second
(`ImplementsPaidService`) and `ContractBilling` the third (`ImplementsPaidContract`),
with `Phase` for what has become of a request or a contract. `Bill` and `Reopen`
of `PaidContract` admit that a stale write takes a final contract back, and
`Provide` that a waiver read before a deletion is written after it. `Complete`
and `Reopen` of `PaidService` also admit what the unlocked writes of a client's
decision really do to a service that was cancelled, completed or billed in
between; no other step does.

**`*_proofs`** hold theorems of the module they extend; `ContractReview_proofs`
those of `ContractBilling` about the review.

Definitions whose name has an underscore suffix naming a mistake
(`Pay_OpensAtOnce`, `Answered_WithoutTimer`) are not part of a model. They are
variants of the definition below them, with a bug that code could have had, and
each property has one that it catches.

## 3. What is checked

| Run | Bounds | Shows |
|---|---|---|
| `gateway` | 2 providers, 1 target, 2 amounts, 2 overlapping checkouts | `PaidReopensOnlyInFlight`: repeated and late notifications, declines and new checkouts never take an attempt out of paid, except a checkout of the same key whose provider call is still in flight |
| `gateway_revival` | the same | **violation** of `OneActiveAttempt`, see 5 |
| `billing` | 1 contract of every mode and billing mode, 1 stale request, 2 payments | `IssuedIsPaid`, `WindowIsPaid`, `PendingFinalIsPaid`, `OneOpenReceipt`, `ReviewWorkIsSelected`, `ApprovedStays`, `SettlementClosesBill`, `ImplementsPaidContract` (refinement) |
| `review_work_is_paid` | the same | **violation** of `ReviewWorkIsPaid` |
| `checkout` | 1 contract, 1 provider, 1 checkout at a time, 2 payments | `PaidAttemptHasPayment`, `AttemptedIsSubmitted`, `OneActiveAttempt` (which does hold when checkouts do not overlap), `ImplementsBilling` (refinement) |
| `service_request` | 1 request of either type through its life, or 2 reviews competing for 2 slots and 2 channels of 1 place each; 1 provider, deposit 1 of 3 | `DepositBeforeWork`, `CompletedIsPaid`, `BillIsOutstanding`, `ConfirmedIsPaid`, `PaidSlotIsKept`, `Capacity`, `ImplementsPaidService` (refinement) |
| `final_is_hidden` | 1 drafting request, no gateway | **violation** of `FinalIsHidden` |
| `document_jobs` | 2 workers, 2 versions, 2 jobs, 2 files, 2 attempts, 2 desk requests, 1 crash | `OneWorkerPerJob`, `CompletedIsStored`, `StatusIsServed`, `EveryJobEnds` (liveness) |
| `issued_text` | 1 worker, 2 texts, 1 desk request at a time, no crash | **violation** of `IssuedTextIsHashed` |
| `legal_text` | the nine contracts, every variable and every answer a topic | `ValidDraftIsComplete`, `HiddenAnswerStaysOut`, `WrittenAnswerIsPrinted` |
| `previewed_is_issued` | the residential lease | **violation** of `PreviewedIsIssued` |
| `draft_sync` | 2 saves in flight, 2 changes (1 of the core identity), 2 variants, 3 contracts, 1 setback | `ConfirmedIsSubmitted`, `OneContractPerDraft`, `DraftIsSaved` (liveness) |

Every passing run also checks the type invariant of its module.

### Bounds, and why they are enough

Rows of different contracts and of different requests
meet in two places only: the appointment book (two reviews compete in
`service_request`) and the order of the job queue. Contracts are otherwise
independent, so one is enough. Two payments per contract (`MaxPayments`) give
every pair of a receipt, collection or settlement before or after another,
including a replaced receipt. One stale request interleaves with every other step
as it is; two stale writes of one contract are not covered by `billing`, but the
proofs cover any number. Amounts are two: the price without and with the review;
for requests a deposit smaller than the balance, so that a deposit settled late
leaves a remainder. Two attempts per job (`MaxAttempts`; five in the code) give a
failure that is retried and one that is final. `MaxDoing` and `MaxCrashes` bound
the desk and the crashes.

In `service_request` the constraint `AloneOrCompeting` follows two cases: one
request by itself, with one slot and one channel, and two reviews until their work
begins (appointments are contended before; what happens to one afterwards is in
the first case). Clients are symmetric. With one place per channel and two in
total (`ChannelCapacity`, `TotalCapacity`) the channel's limit binds.

`LegalText` has one bound on the customer, below: every draft of every topic with at
most one answer of spaces is reached, in any order.
What the values stand for is bounded: a text is missing, made of spaces, or given,
an option is one that some condition names or one for the rest, a number is missing,
zero or positive, a list is empty or has rows that are all alike. `OneBlank` keeps
the customer from having two answers of spaces in a topic at a time. Each one meets
every combination of the other answers; the theorems hold without this bound, from
judgements of the definitions that do not depend on it. The properties except by name what the definitions
really do otherwise:

* `Earnest`: no answer that is shown and required is made of spaces (`NoBlankIn`),
  and no amount of `UncheckedAmounts` is zero (`NoZeroIn`). The wizard accepts both
  and no text is made of them (5), so that completeness and what is printed are
  stated of drafts in earnest;

* `UncheckedAmounts`: columns of lists for which no minimum is checked, so that a
  zero is a valid answer and prints no text;
* `KeptPlan`: a content plan that was begun and then hidden;
* `PrintedThoughHidden`: twelve answers that are printed without asking whether
  they are still shown;
* `StandIns`: the names of a client, which are printed for the one who acts for it
  when that required answer is missing, that is, made of spaces;
* `AskedInVain`: the power of attorney of a company that has become a person;
* `SigningWitness`: the witnesses, who are named at the signatures.

`DraftSync`: two saves are enough for one to overtake another, two changes for
a draft that is changed once before and once after (the second is to the core
identity, which the edit window refuses), one setback (`MaxSetbacks`: a draft
discarded, a page left with a draft, a lost message) for each kind of fault with
everything around it. `RowsLeft` keeps a row for the autosave of a draft that
"pay" posts, so that running out of rows never looks like a save that is never
answered. "Pay" is not pressed again before its first save is answered. What the
customer agreed to (`accepted`) is not followed when another save of other values
is in flight at the press, nor after a change between the press and the submission;
`forked` are the drafts posted while an earlier post of theirs was unanswered or
its answer lost. Section 5 says what the code does in those cases.

`CHECK_DEADLOCK FALSE` is set where a model really may stop: a contract that is
issued and whose bounds are used up, a request that is completed or cancelled, a
queue whose jobs have ended, a draft whose bounds are used up, a topic none of
whose answers the wizard asks for.

### Fairness

The safety properties need none. `DocumentJobs` assumes weak fairness of
each worker's claim (`routes/console.php` starts the command every minute), of a
started job's next step (the renderer runs under a timeout, and every exception
ends in `failJob`), and of a retry becoming due (time passes). It assumes nothing
of the desk, and nothing of a worker that died: `EveryJobEnds` excepts jobs whose
worker died in the middle, which do stay in `processing` for ever.

`DraftSync` assumes that the timer of the autosave fires (`WF_vars(Autosave)`: it
is a `setTimeout` of 1.8 seconds) and that each save is handled and answered or
fails (`WF_vars(Handle(s))`: an HTTP request ends). It assumes nothing of the
customer, of the checkout, or of faults.

## 4. What is proved

The theorems hold for any sets of contracts, requests, providers, workers, saves
and checkouts, any positive prices and any bounds. They use the named assumptions
of the modules (sentinels, bounds and prices in their ranges, `ContractsAssumption`:
the rows of `DraftSync` are finitely many), and the one theorem stated of
checkouts that do not overlap says so in its statement.
Every safety property of the runs has its theorem.

*Nothing is issued unpaid* (`NothingIssuedUnpaid`). `IssuedIsPaid` is not
inductive: a request that has checked the billing writes `locked` or `issued`
later without looking, and the scheduled command issues a contract whose
edit window has ended without looking at all. The invariant is therefore
`BillingInv`, of three parts: what is locked or issued is covered; what has an
edit window is covered; what a request in flight is about to lock or issue is
covered. `Covered` asks for *some* approved payment, where the code asks for the
*latest*: a new receipt after an approved one makes the code say "not settled",
and yet nothing is undone. The proof rests on three facts, each a lemma:
coverage is never lost (`CoverageStep`, from `ApprovedStep`: approvals are
final), the guards that start a final write establish coverage (`RequestStep`),
and every change of a row's status is one of a few rules (`RowRules`, `RowStep`).
`PlannedIssueIsPaid` is its third part.

*One receipt at a time* (`OneReceiptAtATime`). An upload needs no pending
receipt and replaces the newest one in clarification; with at most one open
receipt before, none is left (`ReplacedClosesAll`).

*No bill is paid twice* (`NoBillPaidTwice`), an action property from the type
invariant: every step either leaves the approved receipts and provider payments of a
contract as they are, or finds its bill open and writes the settled row, which is
not billed (`SettledIsNotBilled`).

*Review work was chosen* (`ReviewWorkSelected`). The review's service request is
created by a settlement that finds the add-on selected, and a request that is there
stays; `ReviewInv` adds that a stale write to it has seen it (`ReviewSeen`), so that it
cannot bring work to life on a contract that has none.

*Refinement* (`CheckoutImplementsBilling`, `CheckoutImplementsGateway`). Each step
of the composition is a step of `ContractBilling` or leaves its variables alone,
and likewise for `PaymentGateway`. `IssuedIsPaid` then holds of the composition
without another invariant (`CheckoutIssuesPaid`).

*Attempts and contracts* (`AttemptedContractIsSubmitted`, `PaidAttemptIsRecorded`,
`OneAttemptWithoutOverlap`). `AttemptInv` adds that pages and unanswered provider
calls have an attempt and that no stale write is about to make a submitted
contract a draft again. `OneActiveAttempt` is proved of checkouts that do not
overlap, with the strengthening `OnlyAsked`: what the one running checkout has
asked for is the only attempt that can become active.

*Paid stays paid* (`PaidReopening`), an action property of the gateway from its
type invariant.

*Requests and money* (`NoWorkBeforeDeposit`, `NoUnpaidCompletion`,
`AskedIsMissing`, `NoUnpaidMeeting`, `PaidSlotKept`). `RequestInv` is `Sound` for
each request: work needs the deposit and the end the total, the open bill and the
stage fit what was paid, an active meeting has its deposit, and each errand in
flight has seen a state whose part that matters cannot be undone (`ErrandsHaveSeen`).

*Slots fit* (`SlotsFit`): a reservation is made under the lock of the schedule, and
every other move of a booking either releases its place or is one the history
variable `late` remembers (`BookingEffects`).

*Document jobs* (`NoTwoWorkersOnAJob`, `CompletedHasItsFiles`,
`ShownStatusIsServed`). `JobsInv` says what a worker's hold means: a held job is
in processing and held once, what a worker has counted is stored, a job that
can be claimed has an attempt left. A worker that dies leaves its job in processing
for good, so there is no second worker to exclude; the status of the PDF has a
job behind it while it is queued or in processing, and nothing is said of `ready`.

*Drafts* (`PaidForIsSubmitted`, `DraftHasOneContract`). For the first, `PayInv`
follows the agreed values from the press to the submission: the save of the press
carries them (`PressedIsSaved`), any save that can still write carries the same
(`AgreedIsSubmitted`), and one that comes after the submission is refused or leaves
the core alone (`LateWrites`). For the second, `OnceInv` says that a draft that
is not `forked` has one post at most (`OnePost`), before which there is no contract
of it (`PostIsFirst`) and after whose answer the wizard knows the contract (`MadeIsKnown`).

*Contracts are paid contracts* (`ContractsArePaidContracts`), from the type invariant
and `BillingInv`. Every step changes one contract by a `BillTurn`: it moves it
(`Moves`), answers for its price (`ProvidedOpens`), or approves a payment of its open
bill, which is at most one settlement more (`ApprovedNow`) and closes the bill
(`SettledOpens`). That a final contract is covered needs `PendingFinalIsPaid`: the
write of `locked` does not look. That a deleted contract is neither settled nor made
final rests on the `deleted_at IS NULL` of the locked reads, since a draft can be
deleted while a receipt for it is uploaded; a late waiver still covers it.

*Requests are paid services* (`RequestsArePaidServices`). Every step changes the row
of one request by a `RowTurn`, which is a step of `PaidService` or none. Beside
`RequestInv` this needs `PagesInv`: what is in flight is of a request that exists,
and every payment page asks for a positive amount. That the deposit is one payment of
exactly its price comes from `DepositsOnly`: while the deposit is due, every
attempt and every open checkout is for it.

*Jobs are a queue* (`JobsImplementQueue`), under the mapping `Phase` of a job to
what has become of it. `JobsInv` alone gives that a job in processing has one
holder (`IsHeld`) or lost it, and that only a job with a try left waits again. No run
lists `ImplementsQueue`: TLC finds it true within the bounds of `document_jobs`, but
with it that run takes too long beside its liveness property.

*Legal text*. The only invariant is the type invariant (`AnswersAreTyped`): an
answer is one of the values of its field, and a radio button that starts with a
default never loses its answer (`Values`, `Kept`). The rest is about the
definitions, which are data and have no steps to induct over. `FollowsHolds` says that
the judgement `Follows` is sound: of two atoms that disagree, of a blank answer
the wizard asks for, and of a choice of together-required answers all refused, none
can be in a valid draft (`RefutedFails`); what is asked for has an answer, a number
with a minimum is positive, and in a draft in earnest a required answer is more than
spaces (`KnownHolds`). With it `HiddenAnswersStayOut`,
`ValidDraftsAreComplete` and `WrittenAnswersArePrinted` follow from the three judgements
TLC makes of the definitions of the repository, with the exceptions of section 3. A new field or article changes
the data, and the judgements are made again; the proofs stay.

*A topic is a view of the draft* (`TopicIsAView`, `TopicsDecideTheDraft`): with an
answer to every field of a contract, the answers of a topic behave as `LegalText`
says, because an answer outside the topic changes nothing in it and a topic has what
decides whether its fields are shown (`TopicRelates`); and articles, texts,
issues and printed answers are the same in the draft and in its view (`ViewAgrees`,
`ValidView`). So what TLC finds topic by topic is true of whole drafts; of
these `NoHiddenAnswerInADraft` and `ValidDraftsHaveTheirText` say it at once.

*Type correctness* of each of these modules.

Checked by TLC only: liveness (`EveryJobEnds`, `DraftIsSaved`), for the prover does
not reason about fairness and ENABLED; and what the `ASSUME`s of `LegalText` say of
the definitions, which TLC computes.

## 5. Where the code and its documents disagree

1. **Two payable attempts** (`gateway_revival`). A client opens a checkout for one
   amount; before the provider answers, a second checkout for another amount
   supersedes it. The late answer sets the first attempt to pending
   (`PaymentGatewayService.php:53`), and both are payable.
   `backend/docs/backend-correction-report-2026-10-03.md:16` says superseded
   attempts are cancelled.
2. **Review work that is not paid for** (`review_work_is_paid`). A receipt of the
   base price is uploaded, the review is added at a checkout, the receipt is
   approved: `PaymentController.php:197` does not compare it with what is due, and
   the review work starts. `docs/SPRD.md:1663` says order amounts are verified.
3. **An unpaid final document shown** (`final_is_hidden`). The final is hidden only
   while it is the latest deliverable (`ServiceRequestController.php:298`). A
   revision request read before the final was delivered and written after it
   (`:376-377`) takes the request out of `awaiting_payment`, and the next non-final
   deliverable makes the unpaid final an earlier one, which `show` lists.
4. **A document that is not its version** (`issued_text`). A job renders the
   contract's current fields under the clauses and hash of its version
   (`ProcessDocumentJobs.php:25`). If a new version is created and edited
   before the job runs or is retried, the old version's files carry the new text.
   `docs/SPRD.md:1664` says jobs are linked to the version's hash. No two
   requests need to overlap.
5. **Previewed, and never issued** (`previewed_is_issued`). The preview derives the
   text of most variables (`resolver.ts:463`); the server's `derivedClauseValue`
   (`TemplateEngineService.php:371`) has a rule for a few, and the rest are no
   fields of the contract. Locking refuses a contract with a variable that has no
   text (`ContractController.php:217`, `MISSING_LEGAL_VARIABLES`), so that no valid
   contract of any of the nine variants can be locked, and
   `FinalizeExpiredContracts` fails on it in the same way.
   `docs/FULL_9_CONTRACTS_V15_CHANGELOG_AR.md:20` says that preview and document
   have the same data and clauses. `ContractBilling` takes completeness as a guard that
   may hold, and so shows what the payment rules are worth once it does.

Met while modelling the templates, and excepted by name in their properties:

* A required text of spaces alone is accepted (`isEmpty`, `validation.ts:15-17`; a least
  length counts the spaces), and the engine trims it (`resolver.ts:466`): a party whose
  name is one space is a valid draft whose definition is "بيان مطلوب" (`:1469`).
* Where the one who acts for a client is given as spaces, the name of the client is
  printed instead (`StandIns`), for a client that was another kind of party before
  also one that is hidden by now.
* An amount of zero in a list is accepted (`validateRepeaterField` checks no minimum)
  and prints no text.

Met while modelling `DocumentJobs`: the end of a former version's job writes `pdf_status`
of the contract whatever version it has by then (`ProcessDocumentJobs.php:29`), so that a
new version can be shown as ready before its document is made, and `pdf()` falls
back to a path of the former one. `Complete` does so in the model; no property watches it.

Met while modelling, each as the code has it in `DraftSync`:

* The answer of a save changes the draft (`setBackendDraftReference`), and a
  changed draft is saved again 1.8 seconds later: an open wizard saves for ever, and
  an old tab writes over what another has saved. `docs/SPRD.md:4196` asks for conflict
  detection.
* An answer to a save of a discarded draft gives the new draft the old contract
  (`wizardStore.ts:230`). Of another variant, every save is then refused and the
  wizard says so; of the same variant, it overwrites the old contract.
* Confirming a change of the variant (`ContractWizard.tsx:433`) removes the draft,
  and the effect that begins a new one (`ensureDraft`) does not run again before the
  page is opened again. `docs/LEGAL_TEMPLATE_IMPLEMENTATION_AR.md:149` says a new
  draft begins.
* A draft posted twice before its first answer is known (the autosave and "pay", a
  lost answer, a page loaded again) becomes two contracts (`forked`).
* An older autosave that is in flight at the press of "pay" can be handled after the
  save of the press, and its values are the ones submitted.
* After the submission the wizard goes on to save, is refused, and says that the
  draft is kept in the browser.
* A new version of the template silently replaces a draft in the tab's storage
  (`wizardStore.ts:109`).

`PROJECT.json` lists the hazards of the code, each at its line, and which
properties watch over them.

## 6. Not modelled, and why

* **Outbox.** A queue like that of the document jobs, without an order to keep; a
  message whose mark fails is sent again. The next module worth writing.
* **State projections, pricing.** Pure and total functions of one row; the prices
  are the constants of the billing modules.
* **Templates and catalog, accounts, attachments.** Publication of a version,
  sessions and one-time codes, and uploads against their clean-up are
  protocols of their own, and independent of those modelled. `DraftSync` has a
  republished template as an input (`Open`).
* **Deployment, backup, tooling, dashboard**: configuration and presentation.
* `assigned` as a contract status: the assignment feature ships disabled.
* Office contracts at price zero, and refunds (the endpoint answers 501).
* Field values in `ContractBilling` (completeness checks are guards that may fail;
  a failed one is a request that is abandoned), `core_identity_locked`.
* Signatures and amount matching of notifications: a notification that does not
  match its attempt is refused before anything changes.
* More than one paying user per target: the key has the user, here the client.
* In `ServiceRequest`: several receipts of one request (one open at a time, as
  `ContractBilling` shows of the same code), superseded attempts coming
  back to life (`PaymentGateway`), changes of the weekly schedule, attachments.
* In `DocumentJobs`: edits by the client (the same write as the desk's), other
  contracts' jobs, `finalize` and the scheduled expiry as separate actions (they
  lock and issue as the desk does).
* In the template modules: sums and comparisons of amounts, dates and their order,
  the digits of identity numbers, how many rows a list has or may have, the wording
  and formatting of texts, and the switches of optional clauses by staff.
* In `DraftSync`: opening a contract of the server in the wizard
  (`hydrateBackendDraft`), a contract sent back for revision, the end of the edit
  window, attachments, the steps of the wizard and its validation (that the draft is
  valid is the customer's guard at "pay").

## 7. What is left to do

1. The outbox as a queue with sending: a message is sent at least once, and more
   than once only after a failed mark; `JobQueue`, which `DocumentJobs` refines,
   with it.
2. `ContractLifecycle`: share links, download of the PDF, an issued version leaves
   `issued` by a new version only, a contract sent back for revision after its
   payment; the state projections as functions checked against a reference.
3. Sessions and codes; attachments against their clean-up; publication of templates
   together with open drafts.
4. Two tabs of one draft in `DraftSync`, and `hydrateBackendDraft`.
