------------------------------- MODULE DraftSync -------------------------------
(***************************************************************************)
(* The draft a customer fills in and the contract the server keeps of it.  *)
(* The wizard holds the draft in the tab's storage, saves it by itself     *)
(* shortly after each change (the autosave of ContractWizard.tsx) and once *)
(* more before it opens the checkout (persistDraft).  The first save       *)
(* creates a contract (POST), later ones overwrite its fields (PATCH).     *)
(* Nothing orders the saves: several are in flight at once, the server     *)
(* handles them as they come, and the answer is applied to whatever draft  *)
(* the wizard holds by then.                                               *)
(*                                                                         *)
(* The values of a draft are the number of the customer's last change, zero*)
(* for a draft without values; some changes are to fields of the core      *)
(* identity (the parties and the subject of the contract).  Every draft    *)
(* has a number and a variant of its own.  The payment is the subject of   *)
(* ContractCheckout, the contract after it that of ContractBilling.        *)
(***************************************************************************)
EXTENDS Naturals, FiniteSets

CONSTANTS
    Contracts,  \* rows of the table contracts
    Saves,      \* requests that can be in flight at once
    Variants,   \* the variants of the template
    MaxEdits,   \* a bound on the changes of the customer
    CoreEdits,  \* those of them that are to a core identity field
    MaxSetbacks,\* a bound on drafts discarded, pages left and lost messages
    None

ASSUME VariantsAssumption == Variants # {}
ASSUME ContractsAssumption == IsFiniteSet(Contracts)
ASSUME NoneAssumption == None \notin Contracts \cup Variants \cup Nat
ASSUME BoundsAssumption == MaxEdits \in Nat /\ MaxSetbacks \in Nat /\ CoreEdits \subseteq 1 .. MaxEdits

VARIABLES
    draft,      \* the draft of the wizard's store, without a variant when there is none
    edits,      \* how many changes the customer has made
    timer,      \* autosaveTimerRef is set: the draft is going to be saved
    notice,     \* autoSaveStatus, what the wizard says of the draft
    saves,      \* the requests in flight
    modal,      \* the contract of the open checkout
    contracts,  \* contracts, with the values agreed to at the submission
    accepted,   \* history: the values the customer pressed "pay" for, unless something
                \* else may get in between
    forked,     \* history: drafts posted while a post of theirs was not known to be answered
    setbacks    \* how many of them there have been

browser == <<draft, edits, timer, notice, modal, accepted>>
vars    == <<draft, edits, timer, notice, saves, modal, contracts, accepted, forked, setbacks>>

-----------------------------------------------------------------------------

Edits    == 0 .. MaxEdits
Numbers  == 1 .. MaxSetbacks + 1
Statuses == {"none", "draft", "pending_payment", "client_review"}
Notices  == {"none", "syncing", "saved", "local"}

Drafts == [no : Numbers, variant : Variants \cup {None}, values : Edits, contract : Contracts \cup {None}]
Rows   == [status : Statuses, no : Numbers \cup {0}, variant : Variants \cup {None},
           values : Edits, agreed : Edits \cup {None}]

(* "checked" is a save whose contract updateDraft has read and found       *)
(* editable, "done" and "refused" one whose answer is on its way.  A page  *)
(* that was left for another one still hears answers, and writes them to   *)
(* the store; one that was loaded again hears none.                        *)
Requests == [at : {"sent", "checked", "done", "refused"}, by : {"autosave", "checkout", "former", "nobody"},
             no : Numbers, variant : Variants, values : Edits,
             post : BOOLEAN, contract : Contracts \cup {None}]

ASSUME RequestsAssumption == None \notin Requests

TypeOK ==
    /\ draft \in Drafts
    /\ edits \in Edits
    /\ timer \in BOOLEAN
    /\ notice \in Notices
    /\ saves \in [Saves -> Requests \cup {None}]
    /\ \A s \in Saves : saves[s] # None =>
          /\ saves[s].at = "checked" => ~saves[s].post
          /\ saves[s].at \in {"checked", "done"} \/ ~saves[s].post => saves[s].contract # None
    /\ modal \in Contracts \cup {None}
    /\ contracts \in [Contracts -> Rows]
    /\ accepted \in Edits \cup {None}
    /\ forked \subseteq Numbers
    /\ setbacks \in 0 .. MaxSetbacks
    /\ draft.no <= setbacks + 1

Unused == [status |-> "none", no |-> 0, variant |-> None, values |-> 0, agreed |-> None]

Init ==
    /\ draft = [no |-> 1, variant |-> CHOOSE v \in Variants : TRUE, values |-> 0, contract |-> None]
    /\ edits = 0
    /\ timer = FALSE
    /\ notice = "none"
    /\ saves = [s \in Saves |-> None]
    /\ modal = None
    /\ contracts = [c \in Contracts |-> Unused]
    /\ accepted = None
    /\ forked = {}
    /\ setbacks = 0

Active   == {s \in Saves : saves[s] # None}
InUse    == {c \in Contracts : contracts[c].status # "none"}
HasValues(d) == d.values # 0
HasDraft == draft.variant # None
Setback  == setbacks < MaxSetbacks /\ setbacks' = setbacks + 1

-----------------------------------------------------------------------------
(* The wizard.                                                             *)

(* The effect of the wizard on every change of its draft: the timer of the *)
(* last one is cleared, and a draft with values gets a new one.            *)
Changes(d) ==
    /\ draft' = d
    /\ timer' = HasValues(d)

(* The customer answers a field, with no checkout open. *)
Edit ==
    /\ HasDraft /\ modal = None
    /\ edits < MaxEdits
    /\ edits' = edits + 1
    /\ Changes([draft EXCEPT !.values = edits'])
    /\ notice' = "syncing"
    /\ accepted' = None
    /\ UNCHANGED <<saves, modal, contracts, forked, setbacks>>

(* A post of the draft the wizard has had no answer to. *)
Unanswered(no) == \E s \in Active : saves[s].post /\ saves[s].no = no

(* The requests of a page that is left. *)
LeftBehind(by) ==
    [s \in Saves |-> IF saves[s] = None \/ saves[s].by = "nobody" THEN saves[s]
                     ELSE [saves[s] EXCEPT !.by = by]]

(* resetWizard, for another variant (handleChangeVariant) or from the      *)
(* catalogue: the wizard has no draft until its page is opened again.      *)
Discard ==
    /\ HasDraft /\ modal = None
    /\ Setback
    /\ Changes([draft EXCEPT !.variant = None, !.values = 0, !.contract = None])
    /\ notice' = "none"
    /\ saves' = LeftBehind("former")
    /\ accepted' = None
    /\ UNCHANGED <<edits, modal, contracts, forked>>

(* The page of the wizard is opened again, in the same document or loaded  *)
(* anew (what was in flight is then answered to nobody).  ensureDraft: the *)
(* store is kept in the tab's storage, and a draft of the template version *)
(* in force goes on.                                                       *)
Open(v, by, republished) ==
    /\ IF HasDraft THEN Setback ELSE UNCHANGED setbacks
    /\ Changes(IF HasDraft /\ ~republished THEN draft
               ELSE [no |-> draft.no + 1, variant |-> v, values |-> 0, contract |-> None])
    /\ notice' = IF HasValues(draft') THEN "syncing" ELSE "none"
    /\ modal' = None
    /\ saves' = LeftBehind(by)
    /\ forked' = IF by = "nobody" THEN forked \cup {no \in Numbers : Unanswered(no)} ELSE forked
    /\ accepted' = None
    /\ UNCHANGED <<edits, contracts>>

(* A bound: there is a row for every post, and for the autosave of a draft *)
(* that a press of "pay" posts.                                            *)
Posts == {s \in Active : saves[s].post /\ saves[s].at = "sent"}
RowsLeft(by) == Cardinality(Contracts \ InUse) - Cardinality(Posts) > IF by = "checkout" THEN 1 ELSE 0

Sends(by, post) ==
    \E s \in Saves \ Active :
        /\ s = CHOOSE t \in Saves \ Active : TRUE
        /\ post => RowsLeft(by)
        /\ saves' = [saves EXCEPT ![s] =
                [at |-> "sent", by |-> by, no |-> draft.no, variant |-> draft.variant,
                 values |-> draft.values, post |-> post, contract |-> draft.contract]]
        /\ forked' = IF post /\ Unanswered(draft.no) THEN forked \cup {draft.no} ELSE forked

Send_PatchesOnly(by) == Sends(by, FALSE)

(* saveDraftSnapshot: a draft without a contract is posted. *)
Send(by) == Sends(by, draft.contract = None)

Autosave ==
    /\ timer
    /\ timer' = FALSE
    /\ Send("autosave")
    /\ UNCHANGED <<draft, edits, notice, modal, contracts, accepted, setbacks>>

(* A save that may still write other values than those of the draft. *)
Rival(s) == saves[s].at \in {"sent", "checked"} /\ saves[s].values # draft.values

Pay_OpensAtOnce ==
    /\ HasValues(draft) /\ modal = None
    /\ \A s \in Active : saves[s].by # "checkout"
    /\ Send("checkout")
    /\ modal' = draft.contract
    /\ accepted' = IF \E s \in Active : Rival(s) THEN None ELSE draft.values
    /\ UNCHANGED <<draft, edits, timer, notice, contracts, setbacks>>

(* openCheckoutIfReady: the customer has accepted the preview of a valid   *)
(* draft and presses "pay"; the draft is saved first.  A bound: it is not  *)
(* pressed again before that save is answered.                             *)
Pay ==
    /\ HasValues(draft) /\ modal = None
    /\ \A s \in Active : saves[s].by # "checkout"
    /\ Send("checkout")
    /\ accepted' = IF \E s \in Active : Rival(s) THEN None ELSE draft.values
    /\ UNCHANGED <<draft, edits, timer, notice, modal, contracts, setbacks>>

CloseModal ==
    /\ modal # None
    /\ modal' = None
    /\ UNCHANGED <<draft, edits, timer, notice, saves, contracts, accepted, forked, setbacks>>

Ends(s) == saves' = [saves EXCEPT ![s] = None]

Heard(s, at) == saves[s] # None /\ saves[s].at = at /\ saves[s].by # "nobody"

Opens(s) == IF saves[s].by = "checkout" THEN saves[s].contract ELSE modal

Answered_WithoutTimer(s) ==
    /\ Heard(s, "done")
    /\ draft' = IF HasDraft THEN [draft EXCEPT !.contract = saves[s].contract] ELSE draft
    /\ notice' = "saved"
    /\ modal' = Opens(s)
    /\ Ends(s)
    /\ UNCHANGED <<edits, timer, contracts, accepted, forked, setbacks>>

Answered_KeepsNoReference(s) ==
    /\ Heard(s, "done")
    /\ IF HasDraft /\ saves[s].by # "checkout" THEN Changes([draft EXCEPT !.contract = saves[s].contract])
       ELSE UNCHANGED <<draft, timer>>
    /\ notice' = IF HasValues(draft) THEN "syncing" ELSE "saved"
    /\ modal' = Opens(s)
    /\ Ends(s)
    /\ UNCHANGED <<edits, contracts, accepted, forked, setbacks>>

(* The answer of a save: setBackendDraftReference gives whatever draft     *)
(* there is the contract, which is a change of the draft and has it saved  *)
(* again; a save before the checkout opens it.                             *)
Answered(s) ==
    /\ Heard(s, "done")
    /\ IF HasDraft THEN Changes([draft EXCEPT !.contract = saves[s].contract])
       ELSE UNCHANGED <<draft, timer>>
    /\ notice' = IF HasValues(draft) THEN "syncing" ELSE "saved"
    /\ modal' = Opens(s)
    /\ Ends(s)
    /\ UNCHANGED <<edits, contracts, accepted, forked, setbacks>>

(* The answer of a save that failed.  An autosave says that the draft is   *)
(* kept in the browser, and is not tried again.                            *)
Refused(s) ==
    /\ Heard(s, "refused")
    /\ notice' = IF saves[s].by = "autosave" THEN "local" ELSE notice
    /\ Ends(s)
    /\ UNCHANGED <<draft, edits, timer, modal, contracts, accepted, forked, setbacks>>

(* The answer to a page that is gone. *)
Unheard(s) ==
    /\ saves[s] # None /\ saves[s].at \in {"done", "refused"} /\ saves[s].by = "nobody"
    /\ Ends(s)
    /\ UNCHANGED <<browser, contracts, forked, setbacks>>

-----------------------------------------------------------------------------
(* The server.                                                             *)

(* createDraft *)
CreateDraft(s) ==
    /\ saves[s] # None /\ saves[s].at = "sent" /\ saves[s].post
    /\ \E c \in Contracts \ InUse :
        /\ c = CHOOSE d \in Contracts \ InUse : TRUE
        /\ contracts' = [contracts EXCEPT ![c] =
                [status |-> "draft", no |-> saves[s].no, variant |-> saves[s].variant,
                 values |-> saves[s].values, agreed |-> None]]
        /\ saves' = [saves EXCEPT ![s] = [@ EXCEPT !.at = "done", !.contract = c, !.values = 0]]
    /\ UNCHANGED <<browser, forked, setbacks>>

(* The core identity of values: the last change of it. *)
Core(values) == {n \in CoreEdits : n <= values}

(* updateDraft takes a draft, and in the edit window after the payment any *)
(* change but one of the core identity fields; the variant is fixed.       *)
Accepts(row, save) ==
    /\ row.variant = save.variant
    /\ \/ row.status = "draft"
       \/ row.status = "client_review" /\ Core(row.values) = Core(save.values)

ReadDraft(s) ==
    /\ saves[s] # None /\ saves[s].at = "sent" /\ ~saves[s].post
    /\ saves' = [saves EXCEPT ![s] =
            IF Accepts(contracts[@.contract], @) THEN [@ EXCEPT !.at = "checked"]
            ELSE [@ EXCEPT !.at = "refused", !.values = 0]]
    /\ UNCHANGED <<browser, contracts, forked, setbacks>>

(* The contract is written without looking at it again. *)
WriteDraft(s) ==
    /\ saves[s] # None /\ saves[s].at = "checked"
    /\ contracts' = [contracts EXCEPT ![saves[s].contract].values = saves[s].values]
    /\ saves' = [saves EXCEPT ![s] = [@ EXCEPT !.at = "done", !.values = 0]]
    /\ UNCHANGED <<browser, forked, setbacks>>

(* A request or its answer is lost. *)
Fault(s) ==
    /\ saves[s] # None /\ saves[s].at \in {"sent", "done"}
    /\ Setback
    /\ saves' = [saves EXCEPT ![s] = [@ EXCEPT !.at = "refused", !.values = 0]]
    /\ forked' = IF saves[s].post /\ saves[s].at = "done" THEN forked \cup {saves[s].no} ELSE forked
    /\ UNCHANGED <<browser, contracts>>

(* The checkout of the modal submits its contract (createCheckout).        *)
Submit ==
    /\ modal # None
    /\ contracts[modal].status = "draft"
    /\ contracts' = [contracts EXCEPT
            ![modal].status = "pending_payment",
            ![modal].agreed = accepted]
    /\ modal' = None
    /\ accepted' = None
    /\ UNCHANGED <<draft, edits, timer, notice, saves, forked, setbacks>>

(* A notification settles it, and its edit window begins (settleContract). *)
Settle(c) ==
    /\ contracts[c].status = "pending_payment"
    /\ contracts' = [contracts EXCEPT ![c].status = "client_review"]
    /\ UNCHANGED <<browser, saves, forked, setbacks>>

-----------------------------------------------------------------------------

Customer ==
    \/ Edit
    \/ Discard
    \/ \E v \in Variants, by \in {"former", "nobody"}, republished \in BOOLEAN : Open(v, by, republished)
    \/ Pay
    \/ CloseModal
    \/ Submit

Handle(s) == CreateDraft(s) \/ ReadDraft(s) \/ WriteDraft(s) \/ Answered(s) \/ Refused(s) \/ Unheard(s)

Next ==
    \/ Customer
    \/ Autosave
    \/ \E s \in Saves : Handle(s) \/ Fault(s)
    \/ \E c \in Contracts : Settle(c)

Spec == Init /\ [][Next]_vars

(* The timer fires, and the server and the network answer every request or *)
(* fail it.                                                                *)
Fairness == WF_vars(Autosave) /\ \A s \in Saves : WF_vars(Handle(s))

FairSpec == Spec /\ Fairness

-----------------------------------------------------------------------------

(* What a customer pressed "pay" for is what is submitted, and its core    *)
(* identity stays that for ever: unless a save of other values was not yet *)
(* answered then, or the draft was changed between the press and the       *)
(* submission (nothing is agreed then), no save that comes late and no *)
(* later change of the draft gets into the contract.                       *)
ConfirmedIsSubmitted ==
    \A c \in Contracts : contracts[c].agreed # None =>
        /\ Core(contracts[c].values) = Core(contracts[c].agreed)
        /\ contracts[c].status = "pending_payment" => contracts[c].values = contracts[c].agreed

(* A draft has one contract, whatever is saved by itself and before        *)
(* checkouts, unless it was posted twice before the first answer was known.*)
OneContractPerDraft ==
    \A c, d \in InUse : c # d /\ contracts[c].no = contracts[d].no => contracts[c].no \in forked

Saved == HasValues(draft) =>
    /\ draft.contract # None
    /\ contracts[draft.contract].values = draft.values

(* However saves overtake each other: when the customer has stopped, the   *)
(* contract has the values of the draft in the end and keeps them, or the  *)
(* wizard says that the draft is kept in the browser only.                 *)
DraftIsSaved == <>[](Saved \/ notice = "local")
================================================================================
