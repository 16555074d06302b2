--------------------------- MODULE DraftSync_proofs ---------------------------
(***************************************************************************)
(* The safety properties of the wizard's drafts, for any number of         *)
(* contracts, requests in flight, variants, changes and setbacks.          *)
(*                                                                         *)
(* What they rest on: while a press of "pay" counts, every save that may   *)
(* still write carries its values (PressedIsSaved), and a save let in      *)
(* before the submission writes only what was agreed to (LateWrites); a    *)
(* draft that knows no contract has none, unless its post is on its way or *)
(* it is known as forked (MadeIsKnown).                                    *)
(***************************************************************************)
EXTENDS DraftSync, TLAPS

(* There is nothing to save without a draft, and the timer runs for values *)
(* only; what was discarded was a setback.                                 *)
WellTyped ==
    /\ TypeOK
    /\ HasDraft \/ (draft.values = 0 /\ draft.no <= setbacks)
    /\ timer => HasValues(draft)

-----------------------------------------------------------------------------
(* What the actions do to the requests in flight.                          *)

(* Writing one request leaves the others.                                  *)
LEMMA WriteRequest ==
    ASSUME saves \in [Saves -> Requests \cup {None}], NEW s \in Saves, NEW r \in Requests \cup {None}
    PROVE  /\ [saves EXCEPT ![s] = r] \in [Saves -> Requests \cup {None}]
           /\ \A t \in Saves : [saves EXCEPT ![s] = r][t] = IF t = s THEN r ELSE saves[t]
OBVIOUS

(* A save takes a free place, with the draft as it is.                     *)
LEMMA SendEffect ==
    ASSUME WellTyped, HasValues(draft), NEW by \in {"autosave", "checkout"}, Send(by)
    PROVE  \E s \in Saves \ Active, r \in Requests :
              /\ saves' = [saves EXCEPT ![s] = r]
              /\ r.at = "sent" /\ r.by = by /\ r.no = draft.no /\ r.values = draft.values
              /\ r.contract = draft.contract /\ r.post = (draft.contract = None)
              /\ forked' = IF r.post /\ Unanswered(draft.no) THEN forked \cup {draft.no} ELSE forked
<1>1. draft \in Drafts /\ draft.variant \in Variants
  BY DEF WellTyped, TypeOK, HasDraft, HasValues, Drafts
<1>2. PICK s \in Saves \ Active :
        /\ saves' = [saves EXCEPT ![s] =
                [at |-> "sent", by |-> by, no |-> draft.no, variant |-> draft.variant,
                 values |-> draft.values, post |-> draft.contract = None, contract |-> draft.contract]]
        /\ forked' = IF draft.contract = None /\ Unanswered(draft.no)
                     THEN forked \cup {draft.no} ELSE forked
  BY DEF Send, Sends
<1> DEFINE r == [at |-> "sent", by |-> by, no |-> draft.no, variant |-> draft.variant,
                 values |-> draft.values, post |-> draft.contract = None, contract |-> draft.contract]
<1>3. r \in Requests
  BY <1>1 DEF Requests, Drafts
<1>4. /\ r.at = "sent" /\ r.by = by /\ r.no = draft.no /\ r.values = draft.values
      /\ r.contract = draft.contract /\ r.post = (draft.contract = None)
  OBVIOUS
<1> HIDE DEF r
<1>5. saves' = [saves EXCEPT ![s] = r]
  BY <1>2 DEF r
<1>6. QED BY <1>2, <1>3, <1>4, <1>5

(* A page that is left changes only who hears the answers.                 *)
LEMMA LeftBehindEffect ==
    ASSUME WellTyped, NEW by \in {"former", "nobody"}
    PROVE  /\ LeftBehind(by) \in [Saves -> Requests \cup {None}]
           /\ \A s \in Saves :
                /\ LeftBehind(by)[s] = None <=> saves[s] = None
                /\ saves[s] # None =>
                     /\ LeftBehind(by)[s].at = saves[s].at
                     /\ LeftBehind(by)[s].no = saves[s].no
                     /\ LeftBehind(by)[s].values = saves[s].values
                     /\ LeftBehind(by)[s].post = saves[s].post
                     /\ LeftBehind(by)[s].contract = saves[s].contract
                     /\ LeftBehind(by)[s].by = "nobody" => by = "nobody" \/ saves[s].by = "nobody"
                     /\ LeftBehind(by)[s].by # "checkout"
<1>1. ASSUME NEW s \in Saves, saves[s] # None
      PROVE  /\ LeftBehind(by)[s] \in Requests
             /\ LeftBehind(by)[s].at = saves[s].at
             /\ LeftBehind(by)[s].no = saves[s].no
             /\ LeftBehind(by)[s].values = saves[s].values
             /\ LeftBehind(by)[s].post = saves[s].post
             /\ LeftBehind(by)[s].contract = saves[s].contract
             /\ LeftBehind(by)[s].by = "nobody" => by = "nobody" \/ saves[s].by = "nobody"
             /\ LeftBehind(by)[s].by # "checkout"
  <2>1. saves[s] \in Requests
    BY <1>1 DEF WellTyped, TypeOK
  <2>2. CASE saves[s].by = "nobody"
    <3>1. LeftBehind(by)[s] = saves[s]
      BY <2>2 DEF LeftBehind
    <3>2. QED BY <2>1, <2>2, <3>1
  <2>3. CASE saves[s].by # "nobody"
    <3>1. LeftBehind(by)[s] = [saves[s] EXCEPT !.by = by]
      BY <1>1, <2>3 DEF LeftBehind
    <3>2. QED BY <2>1, <2>3, <3>1 DEF Requests
  <2>4. QED BY <2>2, <2>3
<1>2. ASSUME NEW s \in Saves, saves[s] = None
      PROVE  LeftBehind(by)[s] = None
  BY <1>2 DEF LeftBehind
<1>3. LeftBehind(by) = [s \in Saves |-> LeftBehind(by)[s]]
  BY DEF LeftBehind
<1>4. QED BY <1>1, <1>2, <1>3, RequestsAssumption

-----------------------------------------------------------------------------
(* Types.                                                                  *)

LEMMA TypeInit == Init => WellTyped
<1> SUFFICES ASSUME Init PROVE WellTyped
  OBVIOUS
<1>1. (CHOOSE v \in Variants : TRUE) \in Variants
  BY VariantsAssumption
<1>2. draft \in Drafts /\ HasDraft /\ draft.no = 1
  BY <1>1, BoundsAssumption, NoneAssumption DEF Init, Drafts, Numbers, Edits, HasDraft
<1>3. contracts \in [Contracts -> Rows]
  BY BoundsAssumption DEF Init, Unused, Rows, Statuses, Edits
<1>4. saves \in [Saves -> Requests \cup {None}] /\ \A s \in Saves : saves[s] = None
  BY DEF Init
<1>5. /\ edits \in Edits /\ timer = FALSE /\ notice \in Notices /\ modal \in Contracts \cup {None}
      /\ accepted \in Edits \cup {None} /\ forked \subseteq Numbers /\ setbacks \in 0 .. MaxSetbacks
      /\ setbacks = 0
  BY BoundsAssumption DEF Init, Edits, Notices
<1>6. draft.no <= setbacks + 1
  BY <1>2, <1>5
<1>7. timer \in BOOLEAN
  BY <1>5
<1>8. TypeOK
  BY <1>2, <1>3, <1>4, <1>5, <1>6, <1>7 DEF TypeOK
<1>9. QED BY <1>2, <1>5, <1>8 DEF WellTyped

(* Every part of the type invariant, with the bounds as numbers.           *)
LEMMA Typed ==
    ASSUME WellTyped
    PROVE  /\ MaxEdits \in Nat /\ MaxSetbacks \in Nat
           /\ draft \in Drafts /\ draft.no \in Nat /\ draft.no >= 1
           /\ edits \in Edits /\ setbacks \in Nat
           /\ saves \in [Saves -> Requests \cup {None}]
           /\ \A s \in Saves : saves[s] # None => saves[s] \in Requests
BY BoundsAssumption DEF WellTyped, TypeOK, Drafts, Numbers, Edits

LEMMA EditTyped == ASSUME WellTyped, Edit PROVE WellTyped'
<1>1. edits' \in Edits /\ edits' # 0
  BY Typed DEF Edit, Edits
<1>2. draft' = [draft EXCEPT !.values = edits'] /\ timer' = TRUE
  BY Typed, <1>1 DEF Edit, Changes, HasValues, Drafts
<1>3. draft' \in Drafts /\ draft'.no = draft.no /\ draft'.variant = draft.variant /\ draft'.values = edits'
  BY Typed, <1>1, <1>2 DEF Drafts
<1>4. QED BY <1>1, <1>2, <1>3 DEF WellTyped, TypeOK, Edit, HasDraft, HasValues, Notices

LEMMA DiscardTyped == ASSUME WellTyped, Discard PROVE WellTyped'
<1> USE DEF Discard
<1>1. draft' = [draft EXCEPT !.variant = None, !.values = 0, !.contract = None] /\ timer' = FALSE
  BY Typed DEF Changes, HasValues, Drafts
<1>2. draft' \in Drafts /\ draft'.no = draft.no /\ draft'.values = 0 /\ draft'.variant = None
  <2>1. draft \in Drafts /\ 0 \in Edits
    BY Typed DEF Edits
  <2>2. QED BY <1>1, <2>1 DEF Drafts
<1>3. setbacks' \in 0 .. MaxSetbacks /\ draft'.no <= setbacks'
  BY Typed, <1>2 DEF Setback, WellTyped, TypeOK
<1>4. /\ saves' \in [Saves -> Requests \cup {None}]
      /\ \A s \in Saves : saves'[s] # None =>
           /\ saves'[s].at = "checked" => ~saves'[s].post
           /\ saves'[s].at \in {"checked", "done"} \/ ~saves'[s].post => saves'[s].contract # None
  BY LeftBehindEffect DEF WellTyped, TypeOK
<1>5. modal' = modal /\ contracts' = contracts /\ edits' = edits /\ accepted' = None /\ forked' = forked
      /\ notice' \in Notices
  BY DEF Notices
<1>6. draft'.no <= setbacks' + 1
  BY Typed, <1>2, <1>3
<1> HIDE DEF Discard
<1>7. QED BY <1>1, <1>2, <1>3, <1>4, <1>5, <1>6 DEF WellTyped, TypeOK, HasDraft, HasValues

LEMMA OpenTyped ==
    ASSUME WellTyped, NEW v \in Variants, NEW by \in {"former", "nobody"}, NEW republished \in BOOLEAN,
           Open(v, by, republished)
    PROVE  WellTyped'
<1> USE DEF Open
<1> DEFINE new == [no |-> draft.no + 1, variant |-> v, values |-> 0, contract |-> None]
<1>1. setbacks' \in 0 .. MaxSetbacks /\ draft.no <= setbacks'
  <2>1. CASE HasDraft
    BY Typed, <2>1 DEF Setback, WellTyped, TypeOK
  <2>2. CASE ~HasDraft
    BY Typed, <2>2 DEF WellTyped, TypeOK
  <2>3. QED BY <2>1, <2>2
<1>2. /\ draft' \in Drafts /\ draft'.no <= setbacks' + 1
      /\ draft'.variant # None
      /\ timer' = HasValues(draft')
  <2>1. CASE HasDraft /\ ~republished
    <3>1. draft' = draft /\ timer' = HasValues(draft)
      BY <2>1 DEF Changes
    <3>2. QED BY Typed, <1>1, <2>1, <3>1 DEF HasDraft, HasValues
  <2>2. CASE ~(HasDraft /\ ~republished)
    <3>1. draft' = new /\ timer' = HasValues(new)
      BY <2>2 DEF Changes
    <3>2. new \in Drafts
      BY Typed, <1>1 DEF Drafts, Numbers, Edits
    <3>3. QED BY Typed, <1>1, <3>1, <3>2, NoneAssumption DEF HasValues
  <2>3. QED BY <2>1, <2>2
<1>3. /\ saves' \in [Saves -> Requests \cup {None}]
      /\ \A s \in Saves : saves'[s] # None =>
           /\ saves'[s].at = "checked" => ~saves'[s].post
           /\ saves'[s].at \in {"checked", "done"} \/ ~saves'[s].post => saves'[s].contract # None
  BY LeftBehindEffect DEF WellTyped, TypeOK
<1>4. notice' \in Notices /\ forked' \subseteq Numbers
  BY DEF WellTyped, TypeOK, Notices
<1>5. QED BY Typed, <1>1, <1>2, <1>3, <1>4 DEF WellTyped, TypeOK, HasDraft, HasValues

LEMMA SendTyped ==
    ASSUME WellTyped, HasValues(draft), NEW by \in {"autosave", "checkout"}, Send(by)
    PROVE  /\ saves' \in [Saves -> Requests \cup {None}]
           /\ \A s \in Saves : saves'[s] # None =>
                /\ saves'[s].at = "checked" => ~saves'[s].post
                /\ saves'[s].at \in {"checked", "done"} \/ ~saves'[s].post => saves'[s].contract # None
           /\ forked' \subseteq Numbers
<1>1. PICK s \in Saves, r \in Requests :
              /\ saves' = [saves EXCEPT ![s] = r]
              /\ r.at = "sent" /\ r.contract = draft.contract /\ r.post = (draft.contract = None)
              /\ forked' = IF r.post /\ Unanswered(draft.no) THEN forked \cup {draft.no} ELSE forked
  BY SendEffect
<1>2. /\ saves' \in [Saves -> Requests \cup {None}]
      /\ \A t \in Saves : saves'[t] = IF t = s THEN r ELSE saves[t]
  BY Typed, <1>1
<1>3. draft.no \in Numbers
  BY Typed DEF Drafts
<1>4. QED BY <1>1, <1>2, <1>3 DEF WellTyped, TypeOK

LEMMA AutosaveTyped == ASSUME WellTyped, Autosave PROVE WellTyped'
<1>1. HasValues(draft) /\ Send("autosave")
  BY DEF WellTyped, Autosave
<1>2. QED BY <1>1, SendTyped DEF WellTyped, TypeOK, Autosave, HasDraft, HasValues

LEMMA PayTyped == ASSUME WellTyped, Pay PROVE WellTyped'
<1>1. HasValues(draft) /\ Send("checkout") /\ accepted' \in Edits \cup {None}
  BY Typed DEF Pay, Drafts
<1>2. QED BY <1>1, SendTyped DEF WellTyped, TypeOK, Pay, HasDraft, HasValues

LEMMA CloseModalTyped == ASSUME WellTyped, CloseModal PROVE WellTyped'
BY DEF WellTyped, TypeOK, CloseModal, HasDraft, HasValues

(* What the answer of a save is.                                           *)
LEMMA AnswerEffect ==
    ASSUME WellTyped, NEW s \in Saves, Ends(s)
    PROVE  /\ saves' \in [Saves -> Requests \cup {None}]
           /\ \A t \in Saves : saves'[t] = IF t = s THEN None ELSE saves[t]
BY Typed DEF Ends

LEMMA AnsweredTyped == ASSUME WellTyped, NEW s \in Saves, Answered(s) PROVE WellTyped'
<1> USE DEF Answered
<1>1. saves[s] \in Requests /\ saves[s].contract \in Contracts
  BY Typed DEF Heard, WellTyped, TypeOK, Requests
<1>2. /\ draft' \in Drafts /\ draft'.no = draft.no /\ draft'.variant = draft.variant
      /\ draft'.values = draft.values /\ timer' \in BOOLEAN /\ (timer' => HasValues(draft'))
  <2>1. CASE HasDraft
    <3>1. draft' = [draft EXCEPT !.contract = saves[s].contract] /\ timer' = HasValues(draft')
      BY <2>1 DEF Changes
    <3>2. QED BY <1>1, <3>1, Typed DEF Drafts, HasValues
  <2>2. CASE ~HasDraft
    BY <2>2, Typed DEF WellTyped, TypeOK, HasValues
  <2>3. QED BY <2>1, <2>2
<1>3. notice' \in Notices /\ modal' \in Contracts \cup {None}
  BY <1>1 DEF Notices, Opens, WellTyped, TypeOK
<1>4. /\ saves' \in [Saves -> Requests \cup {None}]
      /\ \A t \in Saves : saves'[t] # None =>
           /\ saves'[t].at = "checked" => ~saves'[t].post
           /\ saves'[t].at \in {"checked", "done"} \/ ~saves'[t].post => saves'[t].contract # None
  BY AnswerEffect DEF WellTyped, TypeOK
<1>5. QED BY <1>2, <1>3, <1>4 DEF WellTyped, TypeOK, HasDraft

LEMMA RefusedTyped == ASSUME WellTyped, NEW s \in Saves, Refused(s) PROVE WellTyped'
<1>1. /\ saves' \in [Saves -> Requests \cup {None}]
      /\ \A t \in Saves : saves'[t] # None =>
           /\ saves'[t].at = "checked" => ~saves'[t].post
           /\ saves'[t].at \in {"checked", "done"} \/ ~saves'[t].post => saves'[t].contract # None
  BY AnswerEffect DEF WellTyped, TypeOK, Refused
<1>2. notice' \in Notices
  BY DEF Refused, Notices, WellTyped, TypeOK
<1>3. QED BY <1>1, <1>2 DEF Refused, WellTyped, TypeOK, HasDraft, HasValues

LEMMA UnheardTyped == ASSUME WellTyped, NEW s \in Saves, Unheard(s) PROVE WellTyped'
<1>1. /\ saves' \in [Saves -> Requests \cup {None}]
      /\ \A t \in Saves : saves'[t] # None =>
           /\ saves'[t].at = "checked" => ~saves'[t].post
           /\ saves'[t].at \in {"checked", "done"} \/ ~saves'[t].post => saves'[t].contract # None
  BY AnswerEffect DEF WellTyped, TypeOK, Unheard
<1>2. QED BY <1>1 DEF Unheard, WellTyped, TypeOK, HasDraft, HasValues, browser

(* createDraft takes an unused row, for the values of the request.         *)
LEMMA CreateDraftEffect ==
    ASSUME WellTyped, NEW s \in Saves, CreateDraft(s)
    PROVE  \E c \in Contracts \ InUse, r \in Requests :
              /\ contracts' = [contracts EXCEPT ![c] =
                    [status |-> "draft", no |-> saves[s].no, variant |-> saves[s].variant,
                     values |-> saves[s].values, agreed |-> None]]
              /\ contracts' \in [Contracts -> Rows]
              /\ saves[s] \in Requests /\ saves[s].at = "sent" /\ saves[s].post
              /\ saves' = [saves EXCEPT ![s] = r]
              /\ r.at = "done" /\ r.by = saves[s].by /\ r.no = saves[s].no /\ r.post /\ r.contract = c
<1>1. saves[s] \in Requests /\ saves[s].at = "sent" /\ saves[s].post
  BY Typed DEF CreateDraft
<1>2. PICK c \in Contracts \ InUse :
        /\ contracts' = [contracts EXCEPT ![c] =
                [status |-> "draft", no |-> saves[s].no, variant |-> saves[s].variant,
                 values |-> saves[s].values, agreed |-> None]]
        /\ saves' = [saves EXCEPT ![s] = [saves[s] EXCEPT !.at = "done", !.contract = c, !.values = 0]]
  BY DEF CreateDraft
<1> DEFINE r == [saves[s] EXCEPT !.at = "done", !.contract = c, !.values = 0]
<1>3. 0 \in Edits
  BY Typed DEF Edits
<1>4. /\ r \in Requests
      /\ r.at = "done" /\ r.by = saves[s].by /\ r.no = saves[s].no /\ r.post /\ r.contract = c
  BY <1>1, <1>3 DEF Requests
<1>5. contracts' \in [Contracts -> Rows]
  BY <1>1, <1>2 DEF WellTyped, TypeOK, Requests, Rows, Statuses
<1> HIDE DEF r
<1>6. saves' = [saves EXCEPT ![s] = r]
  BY <1>2 DEF r
<1>7. QED BY <1>1, <1>2, <1>4, <1>5, <1>6

LEMMA CreateDraftTyped == ASSUME WellTyped, NEW s \in Saves, CreateDraft(s) PROVE WellTyped'
<1>1. PICK r \in Requests : /\ saves' = [saves EXCEPT ![s] = r]
                            /\ r.at = "done" /\ r.contract \in Contracts
      BY CreateDraftEffect
<1>2. contracts' \in [Contracts -> Rows]
  BY CreateDraftEffect
<1>3. /\ saves' \in [Saves -> Requests \cup {None}]
      /\ \A t \in Saves : saves'[t] = IF t = s THEN r ELSE saves[t]
  BY <1>1, Typed
<1>4. \A t \in Saves : saves'[t] # None =>
           /\ saves'[t].at = "checked" => ~saves'[t].post
           /\ saves'[t].at \in {"checked", "done"} \/ ~saves'[t].post => saves'[t].contract # None
  BY <1>1, <1>3, NoneAssumption DEF WellTyped, TypeOK
<1>5. QED BY <1>2, <1>3, <1>4 DEF CreateDraft, WellTyped, TypeOK, HasDraft, HasValues, browser

(* updateDraft reads the contract.                                         *)
LEMMA ReadDraftEffect ==
    ASSUME WellTyped, NEW s \in Saves, ReadDraft(s)
    PROVE  \E r \in Requests :
              /\ saves[s] \in Requests /\ saves[s].at = "sent" /\ ~saves[s].post
              /\ saves[s].contract \in Contracts
              /\ saves' = [saves EXCEPT ![s] = r]
              /\ ~r.post /\ r.by = saves[s].by /\ r.no = saves[s].no /\ r.contract = saves[s].contract
              /\ \/ r.at = "refused"
                 \/ /\ r.at = "checked" /\ r.values = saves[s].values
                    /\ Accepts(contracts[saves[s].contract], saves[s])
<1>1. /\ saves[s] \in Requests /\ saves[s].at = "sent" /\ ~saves[s].post
      /\ saves[s].contract \in Contracts
  BY Typed DEF ReadDraft, WellTyped, TypeOK, Requests
<1>2. CASE Accepts(contracts[saves[s].contract], saves[s])
  <2> DEFINE r == [saves[s] EXCEPT !.at = "checked"]
  <2>1. saves' = [saves EXCEPT ![s] = r]
    BY <1>2 DEF ReadDraft
  <2>2. /\ r \in Requests /\ ~r.post /\ r.by = saves[s].by /\ r.no = saves[s].no
        /\ r.contract = saves[s].contract /\ r.at = "checked" /\ r.values = saves[s].values
    BY <1>1 DEF Requests
  <2> HIDE DEF r
  <2>3. QED BY <1>1, <1>2, <2>1, <2>2
<1>3. CASE ~Accepts(contracts[saves[s].contract], saves[s])
  <2> DEFINE r == [saves[s] EXCEPT !.at = "refused", !.values = 0]
  <2>1. saves' = [saves EXCEPT ![s] = r]
    BY <1>3 DEF ReadDraft
  <2>2. 0 \in Edits
    BY Typed DEF Edits
  <2>3. /\ r \in Requests /\ ~r.post /\ r.by = saves[s].by /\ r.no = saves[s].no
        /\ r.contract = saves[s].contract /\ r.at = "refused"
    BY <1>1, <2>2 DEF Requests
  <2> HIDE DEF r
  <2>4. QED BY <1>1, <2>1, <2>3
<1>4. QED BY <1>2, <1>3

LEMMA ReadDraftTyped == ASSUME WellTyped, NEW s \in Saves, ReadDraft(s) PROVE WellTyped'
<1>1. PICK r \in Requests : /\ saves' = [saves EXCEPT ![s] = r]
                            /\ ~r.post /\ r.contract \in Contracts
      BY ReadDraftEffect
<1>2. /\ saves' \in [Saves -> Requests \cup {None}]
      /\ \A t \in Saves : saves'[t] = IF t = s THEN r ELSE saves[t]
  BY <1>1, Typed
<1>3. \A t \in Saves : saves'[t] # None =>
           /\ saves'[t].at = "checked" => ~saves'[t].post
           /\ saves'[t].at \in {"checked", "done"} \/ ~saves'[t].post => saves'[t].contract # None
  BY <1>1, <1>2, NoneAssumption DEF WellTyped, TypeOK
<1>4. QED BY <1>2, <1>3 DEF ReadDraft, WellTyped, TypeOK, HasDraft, HasValues, browser

(* It writes what it was sent, whatever the contract is by then.           *)
LEMMA WriteDraftEffect ==
    ASSUME WellTyped, NEW s \in Saves, WriteDraft(s)
    PROVE  \E r \in Requests :
              /\ saves[s] \in Requests /\ saves[s].at = "checked" /\ ~saves[s].post
              /\ saves[s].contract \in Contracts
              /\ saves' = [saves EXCEPT ![s] = r]
              /\ r.at = "done" /\ ~r.post /\ r.by = saves[s].by /\ r.no = saves[s].no
              /\ r.contract = saves[s].contract
<1>1. /\ saves[s] \in Requests /\ saves[s].at = "checked" /\ ~saves[s].post
      /\ saves[s].contract \in Contracts
  BY Typed DEF WriteDraft, WellTyped, TypeOK, Requests
<1> DEFINE r == [saves[s] EXCEPT !.at = "done", !.values = 0]
<1>2. saves' = [saves EXCEPT ![s] = r]
  BY DEF WriteDraft
<1>3. 0 \in Edits
  BY Typed DEF Edits
<1>4. /\ r \in Requests /\ ~r.post /\ r.by = saves[s].by /\ r.no = saves[s].no
      /\ r.contract = saves[s].contract /\ r.at = "done"
  BY <1>1, <1>3 DEF Requests
<1> HIDE DEF r
<1>5. QED BY <1>1, <1>2, <1>4

(* Its write changes the values of the row only.                           *)
LEMMA WriteDraftRow ==
    ASSUME WellTyped, NEW s \in Saves, WriteDraft(s)
    PROVE  /\ contracts' \in [Contracts -> Rows]
           /\ \A c \in Contracts :
                 /\ contracts'[c].status = contracts[c].status
                 /\ contracts'[c].agreed = contracts[c].agreed
                 /\ contracts'[c].no = contracts[c].no
                 /\ contracts'[c].values = IF c = saves[s].contract THEN saves[s].values
                                           ELSE contracts[c].values
<1>1. saves[s] \in Requests /\ saves[s].contract \in Contracts
  BY WriteDraftEffect
<1>2. contracts' = [contracts EXCEPT ![saves[s].contract] =
                       [contracts[saves[s].contract] EXCEPT !.values = saves[s].values]]
  BY DEF WriteDraft
<1>3. contracts \in [Contracts -> Rows]
  BY DEF WellTyped, TypeOK
<1>4. QED BY <1>1, <1>2, <1>3 DEF Rows, Requests

LEMMA WriteDraftTyped == ASSUME WellTyped, NEW s \in Saves, WriteDraft(s) PROVE WellTyped'
<1>1. PICK r \in Requests : /\ saves' = [saves EXCEPT ![s] = r]
                            /\ ~r.post /\ r.at = "done" /\ r.contract \in Contracts
      BY WriteDraftEffect
<1>2. /\ saves' \in [Saves -> Requests \cup {None}]
      /\ \A t \in Saves : saves'[t] = IF t = s THEN r ELSE saves[t]
  BY <1>1, Typed
<1>3. \A t \in Saves : saves'[t] # None =>
           /\ saves'[t].at = "checked" => ~saves'[t].post
           /\ saves'[t].at \in {"checked", "done"} \/ ~saves'[t].post => saves'[t].contract # None
  BY <1>1, <1>2, NoneAssumption DEF WellTyped, TypeOK
<1>4. contracts' \in [Contracts -> Rows]
  BY WriteDraftRow
<1>5. QED BY <1>2, <1>3, <1>4 DEF WriteDraft, WellTyped, TypeOK, HasDraft, HasValues, browser

(* A lost message is a refusal, and nobody knows whether a post was done.  *)
LEMMA FaultEffect ==
    ASSUME WellTyped, NEW s \in Saves, Fault(s)
    PROVE  \E r \in Requests :
              /\ saves[s] \in Requests /\ saves[s].at \in {"sent", "done"}
              /\ saves' = [saves EXCEPT ![s] = r]
              /\ r.at = "refused" /\ r.post = saves[s].post /\ r.by = saves[s].by /\ r.no = saves[s].no
              /\ r.contract = saves[s].contract
<1>1. saves[s] \in Requests /\ saves[s].at \in {"sent", "done"}
  BY Typed DEF Fault
<1> DEFINE r == [saves[s] EXCEPT !.at = "refused", !.values = 0]
<1>2. saves' = [saves EXCEPT ![s] = r]
  BY DEF Fault
<1>3. 0 \in Edits
  BY Typed DEF Edits
<1>4. /\ r \in Requests /\ r.post = saves[s].post /\ r.by = saves[s].by /\ r.no = saves[s].no
      /\ r.contract = saves[s].contract /\ r.at = "refused"
  BY <1>1, <1>3 DEF Requests
<1> HIDE DEF r
<1>5. QED BY <1>1, <1>2, <1>4

LEMMA FaultTyped == ASSUME WellTyped, NEW s \in Saves, Fault(s) PROVE WellTyped'
<1>1. PICK r \in Requests : /\ saves' = [saves EXCEPT ![s] = r] /\ saves[s] \in Requests
                            /\ r.post = saves[s].post /\ r.at = "refused" /\ r.contract = saves[s].contract
      BY FaultEffect
<1>2. /\ saves' \in [Saves -> Requests \cup {None}]
      /\ \A t \in Saves : saves'[t] = IF t = s THEN r ELSE saves[t]
  BY <1>1, Typed
<1>3. \A t \in Saves : saves'[t] # None =>
           /\ saves'[t].at = "checked" => ~saves'[t].post
           /\ saves'[t].at \in {"checked", "done"} \/ ~saves'[t].post => saves'[t].contract # None
  BY <1>1, <1>2, RequestsAssumption DEF WellTyped, TypeOK
<1>4. setbacks' \in 0 .. MaxSetbacks /\ setbacks' >= setbacks
  BY Typed DEF Fault, Setback
<1>5. draft.no <= setbacks' + 1 /\ (~HasDraft => draft.no <= setbacks')
  BY Typed, <1>4 DEF WellTyped, TypeOK
<1>6. forked' \subseteq Numbers
  BY <1>1 DEF Fault, WellTyped, TypeOK, Requests
<1>7. QED BY <1>2, <1>3, <1>4, <1>5, <1>6 DEF Fault, WellTyped, TypeOK, HasDraft, HasValues, browser

LEMMA SubmitTyped == ASSUME WellTyped, Submit PROVE WellTyped'
<1>1. contracts \in [Contracts -> Rows] /\ modal \in Contracts /\ accepted \in Edits \cup {None}
  BY DEF WellTyped, TypeOK, Submit
<1>2. contracts' \in [Contracts -> Rows]
  BY <1>1 DEF Submit, Rows, Statuses
<1>3. QED BY <1>2 DEF Submit, WellTyped, TypeOK, HasDraft, HasValues

LEMMA SettleTyped == ASSUME WellTyped, NEW c \in Contracts, Settle(c) PROVE WellTyped'
<1>1. contracts \in [Contracts -> Rows]
  BY DEF WellTyped, TypeOK
<1>2. contracts' \in [Contracts -> Rows]
  BY <1>1 DEF Settle, Rows, Statuses
<1>3. QED BY <1>2 DEF Settle, WellTyped, TypeOK, HasDraft, HasValues, browser

LEMMA StutterTyped == ASSUME WellTyped, UNCHANGED vars PROVE WellTyped'
BY DEF WellTyped, TypeOK, vars, HasDraft, HasValues

LEMMA TypeStep == ASSUME WellTyped, [Next]_vars PROVE WellTyped'
<1>1. CASE Customer
  BY <1>1, EditTyped, DiscardTyped, OpenTyped, PayTyped, CloseModalTyped, SubmitTyped DEF Customer
<1>2. CASE Autosave
  BY <1>2, AutosaveTyped
<1>3. CASE \E s \in Saves : Handle(s) \/ Fault(s)
  BY <1>3, CreateDraftTyped, ReadDraftTyped, WriteDraftTyped, AnsweredTyped, RefusedTyped, UnheardTyped,
     FaultTyped DEF Handle
<1>4. CASE \E c \in Contracts : Settle(c)
  BY <1>4, SettleTyped
<1>5. CASE UNCHANGED vars
  BY <1>5, StutterTyped
<1>6. QED BY <1>1, <1>2, <1>3, <1>4, <1>5 DEF Next

(* TypeOK: the draft, the requests in flight and the rows of the contracts *)
(* are well typed whatever is edited, lost, discarded or loaded again.     *)
THEOREM DraftWellTyped == Spec => []TypeOK
<1>1. Init => WellTyped
  BY TypeInit
<1>2. WellTyped /\ [Next]_vars => WellTyped'
  BY TypeStep
<1>3. WellTyped => TypeOK
  BY DEF WellTyped
<1>4. QED BY <1>1, <1>2, <1>3, PTL DEF Spec

-----------------------------------------------------------------------------
(* What is paid for.                                                       *)

(* While a press of "pay" counts, every save that may still write has its  *)
(* values, and so has the contract of the checkout.                        *)
PressedIsSaved ==
    accepted # None =>
        /\ accepted = draft.values
        /\ \A s \in Saves : saves[s] # None =>
              /\ saves[s].at \in {"sent", "checked"} => saves[s].values = accepted
              /\ saves[s].at = "done" /\ saves[s].by = "checkout" => contracts[saves[s].contract].values = accepted
        /\ modal # None => contracts[modal].values = accepted

(* What was agreed to belongs to a contract that is no draft.              *)
AgreedIsSubmitted ==
    \A c \in Contracts : contracts[c].agreed # None => contracts[c].status \in {"pending_payment", "client_review"}

(* A save that was let in late writes nothing but what was agreed to.      *)
LateWrites ==
    \A s \in Saves : saves[s] # None /\ saves[s].at = "checked" =>
        LET row == contracts[saves[s].contract] IN
            row.agreed # None =>
                /\ Core(saves[s].values) = Core(row.agreed)
                /\ row.status = "pending_payment" => saves[s].values = row.agreed

PayInv == WellTyped /\ PressedIsSaved /\ AgreedIsSubmitted /\ LateWrites /\ ConfirmedIsSubmitted

LEMMA PayInit == Init => PayInv
<1> SUFFICES ASSUME Init PROVE PayInv
  OBVIOUS
<1>1. /\ \A c \in Contracts : contracts[c].agreed = None
      /\ \A s \in Saves : saves[s] = None
      /\ accepted = None
  BY DEF Init, Unused
<1>2. PressedIsSaved /\ AgreedIsSubmitted /\ LateWrites /\ ConfirmedIsSubmitted
  BY <1>1 DEF PressedIsSaved, AgreedIsSubmitted, LateWrites, ConfirmedIsSubmitted
<1>3. QED BY <1>2, TypeInit DEF PayInv

(* A step that leaves the rows alone.                                      *)
LEMMA RowsKept ==
    ASSUME PayInv, contracts' = contracts
    PROVE  AgreedIsSubmitted' /\ ConfirmedIsSubmitted'
BY DEF PayInv, AgreedIsSubmitted, ConfirmedIsSubmitted, Core

(* ... and lets no save in.                                                *)
LEMMA NoneLetIn ==
    ASSUME PayInv, contracts' = contracts,
           \A s \in Saves : saves'[s] # None /\ saves'[s].at = "checked" =>
              /\ saves[s] # None /\ saves[s].at = "checked"
              /\ saves'[s].contract = saves[s].contract /\ saves'[s].values = saves[s].values
    PROVE  LateWrites' /\ AgreedIsSubmitted' /\ ConfirmedIsSubmitted'
<1>1. LateWrites'
  <2> SUFFICES ASSUME NEW s \in Saves, saves'[s] # None, saves'[s].at = "checked",
                      contracts[saves'[s].contract].agreed # None
               PROVE  /\ Core(saves'[s].values) = Core(contracts[saves'[s].contract].agreed)
                      /\ contracts[saves'[s].contract].status = "pending_payment" =>
                           saves'[s].values = contracts[saves'[s].contract].agreed
    BY DEF LateWrites, Core
  <2>1. QED BY DEF PayInv, LateWrites
<1>2. QED BY <1>1, RowsKept

LEMMA EditPay == ASSUME PayInv, Edit PROVE PayInv'
<1>1. WellTyped' /\ accepted' = None /\ contracts' = contracts /\ saves' = saves
  BY EditTyped DEF PayInv, Edit
<1>2. LateWrites' /\ AgreedIsSubmitted' /\ ConfirmedIsSubmitted'
  BY <1>1, NoneLetIn
<1>3. QED BY <1>1, <1>2 DEF PayInv, PressedIsSaved

LEMMA DiscardPay == ASSUME PayInv, Discard PROVE PayInv'
<1>1. WellTyped' /\ accepted' = None /\ contracts' = contracts /\ saves' = LeftBehind("former")
  BY DiscardTyped DEF PayInv, Discard
<1>2. LateWrites' /\ AgreedIsSubmitted' /\ ConfirmedIsSubmitted'
  BY <1>1, NoneLetIn, LeftBehindEffect DEF PayInv
<1>3. QED BY <1>1, <1>2 DEF PayInv, PressedIsSaved

LEMMA OpenPay ==
    ASSUME PayInv, NEW v \in Variants, NEW by \in {"former", "nobody"}, NEW republished \in BOOLEAN,
           Open(v, by, republished)
    PROVE  PayInv'
<1>1. WellTyped' /\ accepted' = None /\ contracts' = contracts /\ saves' = LeftBehind(by)
  BY OpenTyped DEF PayInv, Open
<1>2. LateWrites' /\ AgreedIsSubmitted' /\ ConfirmedIsSubmitted'
  BY <1>1, NoneLetIn, LeftBehindEffect DEF PayInv
<1>3. QED BY <1>1, <1>2 DEF PayInv, PressedIsSaved

(* The request of a new save carries the values of the draft.              *)
LEMMA Sent ==
    ASSUME PayInv, HasValues(draft), NEW by \in {"autosave", "checkout"}, Send(by)
    PROVE  \E s \in Saves \ Active, r \in Requests :
              /\ r.at = "sent" /\ r.values = draft.values
              /\ \A t \in Saves : saves'[t] = IF t = s THEN r ELSE saves[t]
<1>1. PICK s \in Saves \ Active, r \in Requests :
              saves' = [saves EXCEPT ![s] = r] /\ r.at = "sent" /\ r.values = draft.values
  BY SendEffect DEF PayInv
<1>2. QED BY <1>1, Typed DEF PayInv

LEMMA AutosavePay == ASSUME PayInv, Autosave PROVE PayInv'
<1>1. WellTyped' /\ HasValues(draft) /\ Send("autosave")
  BY AutosaveTyped DEF PayInv, Autosave, WellTyped
<1>2. accepted' = accepted /\ contracts' = contracts /\ draft' = draft /\ modal' = modal
  BY DEF Autosave
<1>3. PICK s \in Saves \ Active, r \in Requests :
              /\ r.at = "sent" /\ r.values = draft.values
              /\ \A t \in Saves : saves'[t] = IF t = s THEN r ELSE saves[t]
  BY <1>1, Sent
<1>4. LateWrites' /\ AgreedIsSubmitted' /\ ConfirmedIsSubmitted'
  BY <1>2, <1>3, NoneLetIn
<1>5. PressedIsSaved'
  BY <1>2, <1>3 DEF PayInv, PressedIsSaved
<1>6. QED BY <1>1, <1>4, <1>5 DEF PayInv

LEMMA PayPay == ASSUME PayInv, Pay PROVE PayInv'
<1>1. WellTyped' /\ HasValues(draft) /\ Send("checkout")
  BY PayTyped DEF PayInv, Pay
<1>2. /\ contracts' = contracts /\ draft' = draft /\ modal' = None
      /\ \A s \in Saves : saves[s] # None => saves[s].by # "checkout"
      /\ accepted' # None => /\ accepted' = draft.values
                             /\ \A s \in Saves : saves[s] # None /\ saves[s].at \in {"sent", "checked"} =>
                                   saves[s].values = draft.values
  BY DEF Pay, Active, Rival
<1>3. PICK s \in Saves \ Active, r \in Requests :
              /\ r.at = "sent" /\ r.values = draft.values
              /\ \A t \in Saves : saves'[t] = IF t = s THEN r ELSE saves[t]
  BY <1>1, Sent
<1>4. LateWrites' /\ AgreedIsSubmitted' /\ ConfirmedIsSubmitted'
  BY <1>2, <1>3, NoneLetIn
<1>5. PressedIsSaved'
  BY <1>2, <1>3 DEF PayInv, PressedIsSaved
<1>6. QED BY <1>1, <1>4, <1>5 DEF PayInv

LEMMA CloseModalPay == ASSUME PayInv, CloseModal PROVE PayInv'
<1>1. /\ WellTyped' /\ accepted' = accepted /\ contracts' = contracts /\ saves' = saves /\ draft' = draft
      /\ modal' = None
  BY CloseModalTyped DEF PayInv, CloseModal
<1>2. LateWrites' /\ AgreedIsSubmitted' /\ ConfirmedIsSubmitted'
  BY <1>1, NoneLetIn
<1>3. PressedIsSaved'
  BY <1>1 DEF PayInv, PressedIsSaved
<1>4. QED BY <1>1, <1>2, <1>3 DEF PayInv

(* An answer ends its request: the others stay as they are.                *)
LEMMA EndedPay ==
    ASSUME PayInv, NEW s \in Saves, Ends(s), contracts' = contracts, accepted' = accepted,
           draft'.values = draft.values,
           modal' \in {None, modal} \/ (saves[s] # None /\ saves[s].at = "done"
                                        /\ saves[s].by = "checkout" /\ modal' = saves[s].contract)
    PROVE  LateWrites' /\ AgreedIsSubmitted' /\ ConfirmedIsSubmitted' /\ PressedIsSaved'
<1>1. \A t \in Saves : saves'[t] = IF t = s THEN None ELSE saves[t]
  BY AnswerEffect DEF PayInv
<1>2. LateWrites' /\ AgreedIsSubmitted' /\ ConfirmedIsSubmitted'
  BY <1>1, NoneLetIn
<1>3. PressedIsSaved'
  BY <1>1 DEF PayInv, PressedIsSaved
<1>4. QED BY <1>2, <1>3

LEMMA AnsweredPay == ASSUME PayInv, NEW s \in Saves, Answered(s) PROVE PayInv'
<1>1. WellTyped' /\ Ends(s) /\ contracts' = contracts /\ accepted' = accepted
  BY AnsweredTyped DEF PayInv, Answered
<1>2. draft'.values = draft.values
  BY Typed DEF PayInv, Answered, Changes, Drafts
<1>3. modal' = modal \/ (saves[s] # None /\ saves[s].at = "done" /\ saves[s].by = "checkout"
                          /\ modal' = saves[s].contract)
  BY DEF Answered, Heard, Opens
<1>4. QED BY <1>1, <1>2, <1>3, EndedPay DEF PayInv

LEMMA RefusedPay == ASSUME PayInv, NEW s \in Saves, Refused(s) PROVE PayInv'
<1>1. WellTyped' /\ Ends(s) /\ contracts' = contracts /\ accepted' = accepted /\ draft' = draft /\ modal' = modal
  BY RefusedTyped DEF PayInv, Refused
<1>2. QED BY <1>1, EndedPay DEF PayInv

LEMMA UnheardPay == ASSUME PayInv, NEW s \in Saves, Unheard(s) PROVE PayInv'
<1>1. WellTyped' /\ Ends(s) /\ contracts' = contracts /\ accepted' = accepted /\ draft' = draft /\ modal' = modal
  BY UnheardTyped DEF PayInv, Unheard, browser
<1>2. QED BY <1>1, EndedPay DEF PayInv

LEMMA CreateDraftPay == ASSUME PayInv, NEW s \in Saves, CreateDraft(s) PROVE PayInv'
<1>1. PICK c \in Contracts, r \in Requests :
              /\ contracts' = [contracts EXCEPT ![c] =
                    [status |-> "draft", no |-> saves[s].no, variant |-> saves[s].variant,
                     values |-> saves[s].values, agreed |-> None]]
              /\ saves[s] \in Requests /\ saves[s].at = "sent"
              /\ saves' = [saves EXCEPT ![s] = r]
              /\ r.at = "done" /\ r.contract = c
  BY CreateDraftEffect DEF PayInv
<1>2. /\ accepted' = accepted /\ draft' = draft /\ modal' = modal
      /\ saves[s] # None
  BY DEF CreateDraft, browser
<1>3. \A t \in Saves : saves'[t] = IF t = s THEN r ELSE saves[t]
  BY <1>1, Typed DEF PayInv
<1>4. /\ \A d \in Contracts : d # c => contracts'[d] = contracts[d]
      /\ contracts'[c].agreed = None /\ contracts'[c].values = saves[s].values
  BY <1>1 DEF PayInv, WellTyped, TypeOK
<1>5. PressedIsSaved'
  <2> SUFFICES ASSUME accepted # None
               PROVE  /\ accepted = draft.values
                      /\ \A t \in Saves : saves'[t] # None =>
                            /\ saves'[t].at \in {"sent", "checked"} => saves'[t].values = accepted
                            /\ saves'[t].at = "done" /\ saves'[t].by = "checkout" =>
                                  contracts'[saves'[t].contract].values = accepted
                      /\ modal # None => contracts'[modal].values = accepted
    BY <1>2 DEF PressedIsSaved
  <2>1. saves[s].values = accepted
    BY <1>1, <1>2 DEF PayInv, PressedIsSaved
  <2>2. \A d \in Contracts : contracts[d].values = accepted => contracts'[d].values = accepted
    BY <1>4, <2>1
  <2>3. modal # None => modal \in Contracts
    BY DEF PayInv, WellTyped, TypeOK
  <2>4. \A t \in Saves : saves[t] # None /\ saves[t].at = "done" => saves[t].contract \in Contracts
    BY Typed DEF PayInv, WellTyped, TypeOK, Requests
  <2>5. QED BY <1>1, <1>3, <1>4, <2>1, <2>2, <2>3, <2>4 DEF PayInv, PressedIsSaved
<1>6. AgreedIsSubmitted' /\ ConfirmedIsSubmitted'
  BY <1>4 DEF PayInv, AgreedIsSubmitted, ConfirmedIsSubmitted, Core
<1>7. LateWrites'
  <2> SUFFICES ASSUME NEW t \in Saves, saves'[t] # None, saves'[t].at = "checked",
                      contracts'[saves'[t].contract].agreed # None
               PROVE  /\ Core(saves'[t].values) = Core(contracts'[saves'[t].contract].agreed)
                      /\ contracts'[saves'[t].contract].status = "pending_payment" =>
                           saves'[t].values = contracts'[saves'[t].contract].agreed
    BY DEF LateWrites, Core
  <2>1. t # s /\ saves'[t] = saves[t]
    BY <1>1, <1>3
  <2>2. saves[t].contract \in Contracts
    BY <2>1, Typed DEF PayInv, WellTyped, TypeOK, Requests
  <2>3. contracts'[saves[t].contract] = contracts[saves[t].contract]
    BY <1>4, <2>1, <2>2
  <2>4. QED BY <2>1, <2>3 DEF PayInv, LateWrites
<1>8. WellTyped'
  BY CreateDraftTyped DEF PayInv
<1>9. QED BY <1>5, <1>6, <1>7, <1>8 DEF PayInv

LEMMA ReadDraftPay == ASSUME PayInv, NEW s \in Saves, ReadDraft(s) PROVE PayInv'
<1>1. PICK r \in Requests :
              /\ saves[s] \in Requests /\ saves[s].at = "sent"
              /\ saves[s].contract \in Contracts
              /\ saves' = [saves EXCEPT ![s] = r]
              /\ r.contract = saves[s].contract
              /\ \/ r.at = "refused"
                 \/ /\ r.at = "checked" /\ r.values = saves[s].values
                    /\ Accepts(contracts[saves[s].contract], saves[s])
  BY ReadDraftEffect DEF PayInv
<1>2. /\ accepted' = accepted /\ draft' = draft /\ modal' = modal /\ contracts' = contracts
      /\ saves[s] # None
  BY DEF ReadDraft, browser
<1>3. \A t \in Saves : saves'[t] = IF t = s THEN r ELSE saves[t]
  BY <1>1, Typed DEF PayInv
<1>4. PressedIsSaved'
  BY <1>1, <1>2, <1>3 DEF PayInv, PressedIsSaved
<1>5. LateWrites'
  <2> SUFFICES ASSUME NEW t \in Saves, saves'[t] # None, saves'[t].at = "checked",
                      contracts[saves'[t].contract].agreed # None
               PROVE  /\ Core(saves'[t].values) = Core(contracts[saves'[t].contract].agreed)
                      /\ contracts[saves'[t].contract].status = "pending_payment" =>
                           saves'[t].values = contracts[saves'[t].contract].agreed
    BY <1>2 DEF LateWrites, Core
  <2>1. CASE t # s
    BY <1>3, <2>1 DEF PayInv, LateWrites
  <2>2. CASE t = s
    <3> DEFINE row == contracts[saves[s].contract]
    <3>1. row.agreed # None /\ saves'[t].contract = saves[s].contract /\ saves'[t].values = saves[s].values
      BY <1>1, <1>3, <2>2
    <3>2. row.status \in {"pending_payment", "client_review"}
      BY <1>1, <3>1 DEF PayInv, AgreedIsSubmitted
    <3>3. row.status = "client_review" /\ Core(row.values) = Core(saves[s].values)
      BY <1>1, <1>3, <2>2, <3>2 DEF Accepts
    <3>4. Core(row.values) = Core(row.agreed)
      BY <1>1, <3>1 DEF PayInv, ConfirmedIsSubmitted
    <3>5. QED BY <3>1, <3>3, <3>4
  <2>3. QED BY <2>1, <2>2
<1>6. AgreedIsSubmitted' /\ ConfirmedIsSubmitted'
  BY <1>2, RowsKept
<1>7. QED BY <1>4, <1>5, <1>6, ReadDraftTyped DEF PayInv

LEMMA WriteDraftPay == ASSUME PayInv, NEW s \in Saves, WriteDraft(s) PROVE PayInv'
<1>1. PICK r \in Requests :
              /\ saves[s] \in Requests /\ saves[s].at = "checked"
              /\ saves[s].contract \in Contracts
              /\ saves' = [saves EXCEPT ![s] = r]
              /\ r.at = "done" /\ r.contract = saves[s].contract
  BY WriteDraftEffect DEF PayInv
<1>2. accepted' = accepted /\ draft' = draft /\ modal' = modal /\ saves[s] # None
  BY DEF WriteDraft, browser
<1>3. \A t \in Saves : saves'[t] = IF t = s THEN r ELSE saves[t]
  BY <1>1, Typed DEF PayInv
<1>4. \A c \in Contracts :
                 /\ contracts'[c].status = contracts[c].status
                 /\ contracts'[c].agreed = contracts[c].agreed
                 /\ contracts'[c].values = IF c = saves[s].contract THEN saves[s].values
                                           ELSE contracts[c].values
  BY WriteDraftRow DEF PayInv
<1>5. PressedIsSaved'
  <2> SUFFICES ASSUME accepted # None
               PROVE  /\ accepted = draft.values
                      /\ \A t \in Saves : saves'[t] # None =>
                            /\ saves'[t].at \in {"sent", "checked"} => saves'[t].values = accepted
                            /\ saves'[t].at = "done" /\ saves'[t].by = "checkout" =>
                                  contracts'[saves'[t].contract].values = accepted
                      /\ modal # None => contracts'[modal].values = accepted
    BY <1>2 DEF PressedIsSaved
  <2>1. saves[s].values = accepted
    BY <1>1, <1>2 DEF PayInv, PressedIsSaved
  <2>2. /\ contracts'[saves[s].contract].values = accepted
        /\ \A d \in Contracts : contracts[d].values = accepted => contracts'[d].values = accepted
    BY <1>1, <1>4, <2>1
  <2>3. modal # None => modal \in Contracts
    BY DEF PayInv, WellTyped, TypeOK
  <2>4. \A t \in Saves : saves[t] # None /\ saves[t].at = "done" => saves[t].contract \in Contracts
    BY Typed DEF PayInv, WellTyped, TypeOK, Requests
  <2>5. QED BY <1>1, <1>3, <2>2, <2>3, <2>4 DEF PayInv, PressedIsSaved
<1>6. AgreedIsSubmitted'
  BY <1>4 DEF PayInv, AgreedIsSubmitted
<1>7. ConfirmedIsSubmitted'
  <2> SUFFICES ASSUME NEW c \in Contracts, contracts[c].agreed # None
               PROVE  /\ Core(contracts'[c].values) = Core(contracts[c].agreed)
                      /\ contracts[c].status = "pending_payment" => contracts'[c].values = contracts[c].agreed
    BY <1>4 DEF ConfirmedIsSubmitted, Core
  <2>1. CASE c = saves[s].contract
    BY <1>1, <1>2, <1>4, <2>1 DEF PayInv, LateWrites
  <2>2. CASE c # saves[s].contract
    BY <1>4, <2>2 DEF PayInv, ConfirmedIsSubmitted
  <2>3. QED BY <2>1, <2>2
<1>8. LateWrites'
  <2> SUFFICES ASSUME NEW t \in Saves, saves'[t] # None, saves'[t].at = "checked",
                      contracts'[saves'[t].contract].agreed # None
               PROVE  /\ Core(saves'[t].values) = Core(contracts'[saves'[t].contract].agreed)
                      /\ contracts'[saves'[t].contract].status = "pending_payment" =>
                           saves'[t].values = contracts'[saves'[t].contract].agreed
    BY DEF LateWrites, Core
  <2>1. t # s /\ saves'[t] = saves[t]
    BY <1>1, <1>3
  <2>2. saves[t].contract \in Contracts
    BY <2>1, Typed DEF PayInv, WellTyped, TypeOK, Requests
  <2>3. QED BY <1>4, <2>1, <2>2 DEF PayInv, LateWrites
<1>9. QED BY <1>5, <1>6, <1>7, <1>8, WriteDraftTyped DEF PayInv

LEMMA FaultPay == ASSUME PayInv, NEW s \in Saves, Fault(s) PROVE PayInv'
<1>1. PICK r \in Requests : saves' = [saves EXCEPT ![s] = r] /\ r.at = "refused"
  BY FaultEffect DEF PayInv
<1>2. accepted' = accepted /\ draft' = draft /\ modal' = modal /\ contracts' = contracts
  BY DEF Fault, browser
<1>3. \A t \in Saves : saves'[t] = IF t = s THEN r ELSE saves[t]
  BY <1>1, Typed DEF PayInv
<1>4. PressedIsSaved'
  BY <1>1, <1>2, <1>3 DEF PayInv, PressedIsSaved
<1>5. LateWrites' /\ AgreedIsSubmitted' /\ ConfirmedIsSubmitted'
  BY <1>1, <1>2, <1>3, NoneLetIn
<1>6. QED BY <1>4, <1>5, FaultTyped DEF PayInv

LEMMA SubmitPay == ASSUME PayInv, Submit PROVE PayInv'
<1>1. /\ modal \in Contracts /\ modal # None /\ accepted' = None /\ saves' = saves
      /\ contracts \in [Contracts -> Rows]
  BY DEF Submit, PayInv, WellTyped, TypeOK
<1>2. /\ \A c \in Contracts : c # modal => contracts'[c] = contracts[c]
      /\ contracts'[modal].status = "pending_payment" /\ contracts'[modal].agreed = accepted
      /\ contracts'[modal].values = contracts[modal].values
  BY <1>1 DEF Submit, Rows
<1>3. PressedIsSaved'
  BY <1>1 DEF PressedIsSaved
<1>4. AgreedIsSubmitted'
  BY <1>2 DEF PayInv, AgreedIsSubmitted
<1>5. ConfirmedIsSubmitted'
  <2> SUFFICES ASSUME NEW c \in Contracts, contracts'[c].agreed # None
               PROVE  /\ Core(contracts'[c].values) = Core(contracts'[c].agreed)
                      /\ contracts'[c].status = "pending_payment" => contracts'[c].values = contracts'[c].agreed
    BY DEF ConfirmedIsSubmitted, Core
  <2>1. CASE c = modal
    BY <1>1, <1>2, <2>1 DEF PayInv, PressedIsSaved
  <2>2. CASE c # modal
    BY <1>2, <2>2 DEF PayInv, ConfirmedIsSubmitted
  <2>3. QED BY <2>1, <2>2
<1>6. LateWrites'
  <2> SUFFICES ASSUME NEW t \in Saves, saves[t] # None, saves[t].at = "checked",
                      contracts'[saves[t].contract].agreed # None
               PROVE  /\ Core(saves[t].values) = Core(contracts'[saves[t].contract].agreed)
                      /\ contracts'[saves[t].contract].status = "pending_payment" =>
                           saves[t].values = contracts'[saves[t].contract].agreed
    BY <1>1 DEF LateWrites, Core
  <2>1. saves[t].contract \in Contracts
    BY Typed DEF PayInv, WellTyped, TypeOK, Requests
  <2>2. CASE saves[t].contract = modal
    BY <1>2, <2>2 DEF PayInv, PressedIsSaved
  <2>3. CASE saves[t].contract # modal
    BY <1>2, <2>1, <2>3 DEF PayInv, LateWrites
  <2>4. QED BY <2>2, <2>3
<1>7. QED BY <1>3, <1>4, <1>5, <1>6, SubmitTyped DEF PayInv

LEMMA SettlePay == ASSUME PayInv, NEW c \in Contracts, Settle(c) PROVE PayInv'
<1>1. /\ accepted' = accepted /\ draft' = draft /\ modal' = modal /\ saves' = saves
      /\ contracts \in [Contracts -> Rows]
  BY DEF Settle, browser, PayInv, WellTyped, TypeOK
<1>2. \A d \in Contracts :
        /\ contracts'[d].values = contracts[d].values /\ contracts'[d].agreed = contracts[d].agreed
        /\ contracts'[d].status = IF d = c THEN "client_review" ELSE contracts[d].status
  BY <1>1 DEF Settle, Rows
<1>3. \A t \in Saves : saves[t] # None /\ saves[t].at \in {"checked", "done"} => saves[t].contract \in Contracts
  BY Typed DEF PayInv, WellTyped, TypeOK, Requests
<1>4. modal # None => modal \in Contracts
  BY DEF PayInv, WellTyped, TypeOK
<1>5. PressedIsSaved'
  BY <1>1, <1>2, <1>3, <1>4 DEF PayInv, PressedIsSaved
<1>6. AgreedIsSubmitted'
  BY <1>2 DEF PayInv, AgreedIsSubmitted
<1>7. ConfirmedIsSubmitted'
  BY <1>2 DEF PayInv, ConfirmedIsSubmitted, Core
<1>8. LateWrites'
  <2> SUFFICES ASSUME NEW t \in Saves, saves[t] # None, saves[t].at = "checked",
                      contracts'[saves[t].contract].agreed # None
               PROVE  /\ Core(saves[t].values) = Core(contracts'[saves[t].contract].agreed)
                      /\ contracts'[saves[t].contract].status = "pending_payment" =>
                           saves[t].values = contracts'[saves[t].contract].agreed
    BY <1>1 DEF LateWrites, Core
  <2>1. QED BY <1>2, <1>3 DEF PayInv, LateWrites
<1>9. QED BY <1>5, <1>6, <1>7, <1>8, SettleTyped DEF PayInv

LEMMA StutterPay == ASSUME PayInv, UNCHANGED vars PROVE PayInv'
<1>1. /\ accepted' = accepted /\ draft' = draft /\ modal' = modal /\ contracts' = contracts /\ saves' = saves
  BY DEF vars
<1>2. LateWrites' /\ AgreedIsSubmitted' /\ ConfirmedIsSubmitted'
  BY <1>1, NoneLetIn
<1>3. PressedIsSaved'
  BY <1>1 DEF PayInv, PressedIsSaved
<1>4. QED BY <1>2, <1>3, StutterTyped DEF PayInv

LEMMA PayStep == ASSUME PayInv, [Next]_vars PROVE PayInv'
<1>1. CASE Customer
  BY <1>1, EditPay, DiscardPay, OpenPay, PayPay, CloseModalPay, SubmitPay DEF Customer
<1>2. CASE Autosave
  BY <1>2, AutosavePay
<1>3. CASE \E s \in Saves : Handle(s) \/ Fault(s)
  BY <1>3, CreateDraftPay, ReadDraftPay, WriteDraftPay, AnsweredPay, RefusedPay, UnheardPay, FaultPay DEF Handle
<1>4. CASE \E c \in Contracts : Settle(c)
  BY <1>4, SettlePay
<1>5. CASE UNCHANGED vars
  BY <1>5, StutterPay
<1>6. QED BY <1>1, <1>2, <1>3, <1>4, <1>5 DEF Next

(* ConfirmedIsSubmitted: what was paid for is what is submitted, for any   *)
(* saves in flight, however they overtake each other, the payment and the  *)
(* edit window.                                                            *)
THEOREM PaidForIsSubmitted == Spec => []ConfirmedIsSubmitted
<1>1. Init => PayInv
  BY PayInit
<1>2. PayInv /\ [Next]_vars => PayInv'
  BY PayStep
<1>3. PayInv => ConfirmedIsSubmitted
  BY DEF PayInv
<1>4. QED BY <1>1, <1>2, <1>3, PTL DEF Spec

-----------------------------------------------------------------------------
(* One contract per draft.                                                 *)

(* Nothing has the number of a draft that is yet to come. *)
NoneAhead ==
    /\ \A s \in Saves : saves[s] # None => saves[s].no <= draft.no
    /\ \A c \in InUse : contracts[c].no <= draft.no

(* A post nobody waits for any more. *)
DeafIsForked ==
    \A s \in Saves : saves[s] # None /\ saves[s].post /\ saves[s].by = "nobody" => saves[s].no \in forked

(* A second post of a draft, and a post that comes after its contract. *)
OnePost ==
    \A s, t \in Saves :
        saves[s] # None /\ saves[t] # None /\ saves[s].post /\ saves[t].post /\ saves[s].no = saves[t].no =>
            s = t \/ saves[s].no \in forked
PostIsFirst ==
    \A s \in Saves : \A c \in InUse :
        saves[s] # None /\ saves[s].post /\ saves[s].at = "sent" /\ saves[s].no = contracts[c].no =>
            saves[s].no \in forked

(* The draft knows the contract that was made of it, or is about to hear.  *)
MadeIsKnown ==
    \A c \in InUse : contracts[c].no = draft.no /\ HasDraft /\ draft.contract = None =>
        \/ draft.no \in forked
        \/ \E s \in Saves : /\ saves[s] # None /\ saves[s].post /\ saves[s].at = "done"
                            /\ saves[s].no = draft.no

OnceInv ==
    /\ WellTyped
    /\ NoneAhead /\ DeafIsForked /\ OnePost /\ PostIsFirst /\ MadeIsKnown /\ OneContractPerDraft

LEMMA OnceInit == Init => OnceInv
<1> SUFFICES ASSUME Init PROVE OnceInv
  OBVIOUS
<1>1. InUse = {} /\ \A s \in Saves : saves[s] = None
  BY DEF Init, InUse, Unused
<1>2. QED BY <1>1, TypeInit
          DEF OnceInv, NoneAhead, DeafIsForked, OnePost, PostIsFirst, MadeIsKnown, OneContractPerDraft

(* A step that makes no contract and sends nothing, in the same draft:     *)
(* requests end or change in what is no post, and more drafts may be forked*)
LEMMA NothingSent ==
    ASSUME OnceInv, InUse' = InUse, \A c \in InUse : contracts'[c].no = contracts[c].no,
           draft'.no = draft.no, forked \subseteq forked',
           \A s \in Saves : saves'[s] # None =>
              /\ saves[s] # None /\ saves'[s].no = saves[s].no /\ saves'[s].post = saves[s].post
              /\ saves'[s].post /\ saves'[s].at = "sent" => saves[s].at = "sent"
              /\ saves'[s].post /\ saves'[s].by = "nobody" => saves[s].by = "nobody" \/ saves[s].no \in forked',
           HasDraft' /\ draft'.contract = None => HasDraft /\ draft.contract = None,
           HasDraft' /\ draft'.contract = None => \A s \in Saves :
              saves[s] # None /\ saves[s].post /\ saves[s].at = "done" =>
                 \/ saves'[s] # None /\ saves'[s].at = "done"
                 \/ saves[s].no \in forked'
    PROVE  NoneAhead' /\ DeafIsForked' /\ OnePost' /\ PostIsFirst' /\ MadeIsKnown' /\ OneContractPerDraft'
<1>1. NoneAhead'
  BY DEF OnceInv, NoneAhead
<1>2. DeafIsForked'
  BY DEF OnceInv, DeafIsForked
<1>3. OnePost'
  BY DEF OnceInv, OnePost
<1>4. PostIsFirst'
  BY DEF OnceInv, PostIsFirst
<1>5. MadeIsKnown'
  BY DEF OnceInv, MadeIsKnown
<1>6. OneContractPerDraft'
  BY DEF OnceInv, OneContractPerDraft
<1>7. QED BY <1>1, <1>2, <1>3, <1>4, <1>5, <1>6

LEMMA EditOnce == ASSUME OnceInv, Edit PROVE OnceInv'
<1>1. /\ contracts' = contracts /\ saves' = saves /\ forked' = forked
      /\ draft'.no = draft.no /\ draft'.contract = draft.contract /\ draft'.variant = draft.variant
  BY Typed DEF OnceInv, Edit, Changes, Drafts
<1>2. QED BY <1>1, NothingSent, EditTyped DEF OnceInv, InUse, HasDraft

LEMMA DiscardOnce == ASSUME OnceInv, Discard PROVE OnceInv'
<1>1. /\ contracts' = contracts /\ saves' = LeftBehind("former") /\ forked' = forked
      /\ draft'.no = draft.no /\ draft'.variant = None
  BY Typed DEF OnceInv, Discard, Changes, Drafts
<1>2. QED BY <1>1, NothingSent, DiscardTyped, LeftBehindEffect DEF OnceInv, InUse, HasDraft

(* Opening the page goes on with the draft, or begins one of a new number. *)
LEMMA OpenOnce ==
    ASSUME OnceInv, NEW v \in Variants, NEW by \in {"former", "nobody"}, NEW republished \in BOOLEAN,
           Open(v, by, republished)
    PROVE  OnceInv'
<1>1. contracts' = contracts /\ InUse' = InUse /\ saves' = LeftBehind(by) /\ forked \subseteq forked'
  BY DEF Open, InUse
<1>2. \A s \in Saves : saves[s] # None /\ saves[s].post /\ by = "nobody" => saves[s].no \in forked'
  <2> SUFFICES ASSUME NEW s \in Saves, saves[s] # None, saves[s].post, by = "nobody"
               PROVE  saves[s].no \in forked'
    OBVIOUS
  <2>1. saves[s].no \in Numbers /\ Unanswered(saves[s].no)
    BY Typed DEF OnceInv, Requests, Unanswered, Active
  <2>2. QED BY <2>1 DEF Open
<1>3. \A s \in Saves :
        /\ saves'[s] = None <=> saves[s] = None
        /\ saves[s] # None =>
             /\ saves'[s].at = saves[s].at /\ saves'[s].no = saves[s].no /\ saves'[s].post = saves[s].post
             /\ saves'[s].by = "nobody" => by = "nobody" \/ saves[s].by = "nobody"
  BY <1>1, LeftBehindEffect DEF OnceInv
<1>4. CASE HasDraft /\ ~republished
  <2>1. draft' = draft
    BY <1>4 DEF Open, Changes
  <2>2. QED BY <1>1, <1>2, <1>3, <2>1, <1>4, NothingSent, OpenTyped DEF OnceInv, HasDraft
<1>5. CASE ~(HasDraft /\ ~republished)
  <2>1. draft'.no = draft.no + 1 /\ draft.no \in Nat
    BY <1>5, Typed DEF Open, Changes, OnceInv
  <2>2. /\ \A s \in Saves : saves[s] # None => saves[s].no \in Nat
        /\ \A c \in InUse : contracts[c].no \in Nat
    BY Typed DEF OnceInv, WellTyped, TypeOK, Requests, Rows, Numbers, InUse
  <2>3. NoneAhead'
    BY <1>1, <1>3, <2>1, <2>2 DEF OnceInv, NoneAhead
  <2>4. \A c \in InUse : contracts[c].no # draft'.no
    BY <2>1, <2>2 DEF OnceInv, NoneAhead
  <2>5. DeafIsForked'
    BY <1>1, <1>2, <1>3 DEF OnceInv, DeafIsForked
  <2>6. OnePost' /\ PostIsFirst'
    BY <1>1, <1>3 DEF OnceInv, OnePost, PostIsFirst
  <2>7. MadeIsKnown' /\ OneContractPerDraft'
    BY <1>1, <2>4 DEF OnceInv, MadeIsKnown, OneContractPerDraft
  <2>8. QED BY <2>3, <2>5, <2>6, <2>7, OpenTyped DEF OnceInv
<1>6. QED BY <1>4, <1>5

(* A draft is posted a second time only when that is known as a fork.      *)
LEMMA SendOnce ==
    ASSUME OnceInv, HasValues(draft), NEW by \in {"autosave", "checkout"}, Send(by),
           draft' = draft, contracts' = contracts
    PROVE  NoneAhead' /\ DeafIsForked' /\ OnePost' /\ PostIsFirst' /\ MadeIsKnown' /\ OneContractPerDraft'
<1>1. PICK s \in Saves \ Active, r \in Requests :
              /\ saves' = [saves EXCEPT ![s] = r]
              /\ r.at = "sent" /\ r.by = by /\ r.no = draft.no
              /\ r.post = (draft.contract = None)
              /\ forked' = IF r.post /\ Unanswered(draft.no) THEN forked \cup {draft.no} ELSE forked
  BY SendEffect DEF OnceInv
<1>2. \A t \in Saves : saves'[t] = IF t = s THEN r ELSE saves[t]
  BY <1>1, Typed DEF OnceInv
<1>3. InUse' = InUse /\ forked \subseteq forked' /\ saves[s] = None
  BY <1>1 DEF InUse, Active
<1>4. HasDraft /\ draft.no \in Nat
  BY Typed DEF OnceInv, WellTyped, HasValues
<1>5. ASSUME r.post, NEW t \in Saves, saves[t] # None, saves[t].post, saves[t].no = draft.no
      PROVE  draft.no \in forked'
  BY <1>1, <1>5 DEF Unanswered, Active
<1>6. NoneAhead'
  BY <1>1, <1>2, <1>3, <1>4 DEF OnceInv, NoneAhead
<1>7. DeafIsForked'
  BY <1>1, <1>2, <1>3 DEF OnceInv, DeafIsForked
<1>8. OnePost'
  BY <1>1, <1>2, <1>3, <1>5 DEF OnceInv, OnePost
<1>9. PostIsFirst'
  <2> SUFFICES ASSUME NEW t \in Saves, NEW c \in InUse, saves'[t] # None, saves'[t].post,
                      saves'[t].at = "sent", saves'[t].no = contracts[c].no
               PROVE  saves'[t].no \in forked'
    BY <1>3 DEF PostIsFirst
  <2>1. CASE t # s
    BY <1>2, <1>3, <2>1 DEF OnceInv, PostIsFirst
  <2>2. CASE t = s
    <3> saves'[t] = r
      BY <1>2, <2>2
    <3>0. r.post
      OBVIOUS
    <3>1. draft.contract = None /\ contracts[c].no = draft.no /\ saves'[t].no = draft.no
      BY <1>1, <3>0
    <3>2. CASE draft.no \in forked
      BY <1>3, <3>1, <3>2
    <3>3. CASE draft.no \notin forked
      <4>1. PICK u \in Saves : saves[u] # None /\ saves[u].post /\ saves[u].no = draft.no
        BY <1>4, <3>1, <3>3 DEF OnceInv, MadeIsKnown
      <4>2. QED BY <1>5, <3>1, <4>1
    <3>4. QED BY <3>2, <3>3
  <2>3. QED BY <2>1, <2>2
<1>10. MadeIsKnown'
  BY <1>2, <1>3 DEF OnceInv, MadeIsKnown, HasDraft
<1>11. OneContractPerDraft'
  BY <1>3 DEF OnceInv, OneContractPerDraft
<1>12. QED BY <1>6, <1>7, <1>8, <1>9, <1>10, <1>11

LEMMA AutosaveOnce == ASSUME OnceInv, Autosave PROVE OnceInv'
<1>1. HasValues(draft) /\ Send("autosave") /\ draft' = draft /\ contracts' = contracts
  BY DEF OnceInv, WellTyped, Autosave
<1>2. QED BY <1>1, SendOnce, AutosaveTyped DEF OnceInv

LEMMA PayOnce == ASSUME OnceInv, Pay PROVE OnceInv'
<1>1. HasValues(draft) /\ Send("checkout") /\ draft' = draft /\ contracts' = contracts
  BY DEF Pay
<1>2. QED BY <1>1, SendOnce, PayTyped DEF OnceInv

LEMMA CloseModalOnce == ASSUME OnceInv, CloseModal PROVE OnceInv'
<1>1. contracts' = contracts /\ saves' = saves /\ forked' = forked /\ draft' = draft
  BY DEF CloseModal
<1>2. QED BY <1>1, NothingSent, CloseModalTyped DEF OnceInv, InUse, HasDraft

LEMMA AnsweredOnce == ASSUME OnceInv, NEW s \in Saves, Answered(s) PROVE OnceInv'
<1>1. \A t \in Saves : saves'[t] = IF t = s THEN None ELSE saves[t]
  BY AnswerEffect DEF OnceInv, Answered
<1>2. saves[s] \in Requests /\ saves[s].contract \in Contracts /\ saves[s].contract # None
  BY Typed DEF OnceInv, WellTyped, TypeOK, Requests, Answered, Heard
<1>3. /\ draft'.no = draft.no /\ draft'.variant = draft.variant
      /\ HasDraft => draft'.contract # None
  BY Typed, <1>2 DEF OnceInv, Answered, Changes, Drafts
<1>4. contracts' = contracts /\ InUse' = InUse /\ forked' = forked
  BY DEF Answered, InUse
<1>5. QED BY <1>1, <1>3, <1>4, NothingSent, AnsweredTyped DEF OnceInv, HasDraft

LEMMA RefusedOnce == ASSUME OnceInv, NEW s \in Saves, Refused(s) PROVE OnceInv'
<1>1. \A t \in Saves : saves'[t] = IF t = s THEN None ELSE saves[t]
  BY AnswerEffect DEF OnceInv, Refused
<1>2. /\ contracts' = contracts /\ InUse' = InUse /\ forked' = forked /\ draft' = draft
      /\ saves[s].at = "refused"
  BY DEF Refused, InUse, Heard
<1>3. QED BY <1>1, <1>2, NothingSent, RefusedTyped DEF OnceInv, HasDraft

LEMMA UnheardOnce == ASSUME OnceInv, NEW s \in Saves, Unheard(s) PROVE OnceInv'
<1>1. \A t \in Saves : saves'[t] = IF t = s THEN None ELSE saves[t]
  BY AnswerEffect DEF OnceInv, Unheard
<1>2. /\ contracts' = contracts /\ InUse' = InUse /\ forked' = forked /\ draft' = draft
      /\ saves[s] # None /\ saves[s].by = "nobody"
  BY DEF Unheard, InUse, browser
<1>3. saves[s].post => saves[s].no \in forked
  BY <1>2 DEF OnceInv, DeafIsForked
<1>4. QED BY <1>1, <1>2, <1>3, NothingSent, UnheardTyped DEF OnceInv, HasDraft

LEMMA CreateDraftOnce == ASSUME OnceInv, NEW s \in Saves, CreateDraft(s) PROVE OnceInv'
<1>1. PICK c \in Contracts \ InUse, r \in Requests :
              /\ contracts' = [contracts EXCEPT ![c] =
                    [status |-> "draft", no |-> saves[s].no, variant |-> saves[s].variant,
                     values |-> saves[s].values, agreed |-> None]]
              /\ saves[s].at = "sent" /\ saves[s].post
              /\ saves' = [saves EXCEPT ![s] = r]
              /\ r.at = "done" /\ r.by = saves[s].by /\ r.no = saves[s].no /\ r.post
  BY CreateDraftEffect DEF OnceInv
<1>2. draft' = draft /\ forked' = forked /\ saves[s] # None
  BY DEF CreateDraft, browser
<1>3. \A t \in Saves : saves'[t] = IF t = s THEN r ELSE saves[t]
  BY <1>1, Typed DEF OnceInv
<1>4. /\ \A d \in Contracts : d # c => contracts'[d] = contracts[d]
      /\ contracts'[c].status = "draft" /\ contracts'[c].no = saves[s].no
  BY <1>1 DEF OnceInv, WellTyped, TypeOK
<1>5. /\ InUse' = InUse \cup {c} /\ c \notin InUse
      /\ \A d \in InUse : contracts'[d].no = contracts[d].no
  BY <1>1, <1>4 DEF InUse
<1>6. r # None
  BY RequestsAssumption
<1>7. NoneAhead'
  BY <1>1, <1>2, <1>3, <1>4, <1>5 DEF OnceInv, NoneAhead
<1>8. DeafIsForked'
  BY <1>1, <1>2, <1>3 DEF OnceInv, DeafIsForked
<1>9. OnePost'
  BY <1>1, <1>2, <1>3 DEF OnceInv, OnePost
<1>10. PostIsFirst'
  <2> SUFFICES ASSUME NEW t \in Saves, NEW d \in InUse', saves'[t] # None, saves'[t].post,
                      saves'[t].at = "sent", saves'[t].no = contracts'[d].no
               PROVE  saves'[t].no \in forked
    BY <1>2 DEF PostIsFirst
  <2>1. t # s /\ saves'[t] = saves[t]
    BY <1>1, <1>3
  <2>2. CASE d = c
    BY <1>1, <1>2, <1>4, <2>1, <2>2 DEF OnceInv, OnePost
  <2>3. CASE d # c
    BY <1>5, <2>1, <2>3 DEF OnceInv, PostIsFirst
  <2>4. QED BY <2>2, <2>3
<1>11. MadeIsKnown'
  <2> SUFFICES ASSUME NEW d \in InUse', contracts'[d].no = draft.no, HasDraft, draft.contract = None,
                      draft.no \notin forked
               PROVE  \E t \in Saves : /\ saves'[t] # None /\ saves'[t].post /\ saves'[t].at = "done"
                                      /\ saves'[t].no = draft.no
    BY <1>2 DEF MadeIsKnown, HasDraft
  <2>1. CASE d = c
    BY <1>1, <1>3, <1>4, <1>6, <2>1
  <2>2. CASE d # c
    <3>1. PICK t \in Saves : /\ saves[t] # None /\ saves[t].post /\ saves[t].at = "done"
                             /\ saves[t].no = draft.no
      BY <1>5, <2>2 DEF OnceInv, MadeIsKnown
    <3>2. saves'[t] = saves[t]
      BY <1>1, <1>3, <3>1
    <3>3. QED BY <3>1, <3>2
  <2>3. QED BY <2>1, <2>2
<1>12. OneContractPerDraft'
  <2>1. \A d \in InUse : contracts[d].no = saves[s].no => saves[s].no \in forked
    BY <1>1, <1>2 DEF OnceInv, PostIsFirst
  <2>2. QED BY <1>2, <1>4, <1>5, <2>1 DEF OnceInv, OneContractPerDraft
<1>13. QED BY <1>7, <1>8, <1>9, <1>10, <1>11, <1>12, CreateDraftTyped DEF OnceInv

LEMMA ReadDraftOnce == ASSUME OnceInv, NEW s \in Saves, ReadDraft(s) PROVE OnceInv'
<1>1. PICK r \in Requests :
              /\ saves[s].at = "sent" /\ ~saves[s].post
              /\ saves' = [saves EXCEPT ![s] = r]
              /\ ~r.post /\ r.no = saves[s].no
  BY ReadDraftEffect DEF OnceInv
<1>2. \A t \in Saves : saves'[t] = IF t = s THEN r ELSE saves[t]
  BY <1>1, Typed DEF OnceInv
<1>3. contracts' = contracts /\ InUse' = InUse /\ forked' = forked /\ draft' = draft /\ saves[s] # None
  BY DEF ReadDraft, InUse, browser
<1>4. r.post = saves[s].post
  BY <1>1, <1>3, Typed DEF OnceInv, Requests
<1>5. QED BY <1>1, <1>2, <1>3, <1>4, NothingSent, ReadDraftTyped DEF OnceInv, HasDraft

LEMMA WriteDraftOnce == ASSUME OnceInv, NEW s \in Saves, WriteDraft(s) PROVE OnceInv'
<1>1. PICK r \in Requests :
              /\ saves[s].at = "checked" /\ ~saves[s].post
              /\ saves' = [saves EXCEPT ![s] = r]
              /\ ~r.post /\ r.no = saves[s].no
  BY WriteDraftEffect DEF OnceInv
<1>2. \A t \in Saves : saves'[t] = IF t = s THEN r ELSE saves[t]
  BY <1>1, Typed DEF OnceInv
<1>3. \A c \in Contracts : contracts'[c].status = contracts[c].status /\ contracts'[c].no = contracts[c].no
  BY WriteDraftRow DEF OnceInv
<1>4. InUse' = InUse /\ forked' = forked /\ draft' = draft /\ saves[s] # None
      /\ \A c \in InUse : contracts'[c].no = contracts[c].no
  BY <1>3 DEF WriteDraft, InUse, browser
<1>5. r.post = saves[s].post
  BY <1>1, <1>4, Typed DEF OnceInv, Requests
<1>6. QED BY <1>1, <1>2, <1>4, <1>5, NothingSent, WriteDraftTyped DEF OnceInv, HasDraft

LEMMA FaultOnce == ASSUME OnceInv, NEW s \in Saves, Fault(s) PROVE OnceInv'
<1>1. PICK r \in Requests :
              /\ saves' = [saves EXCEPT ![s] = r]
              /\ r.at = "refused" /\ r.post = saves[s].post /\ r.by = saves[s].by /\ r.no = saves[s].no
  BY FaultEffect DEF OnceInv
<1>2. \A t \in Saves : saves'[t] = IF t = s THEN r ELSE saves[t]
  BY <1>1, Typed DEF OnceInv
<1>3. /\ contracts' = contracts /\ InUse' = InUse /\ draft' = draft /\ saves[s] # None
      /\ forked \subseteq forked'
      /\ saves[s].post /\ saves[s].at = "done" => saves[s].no \in forked'
  BY DEF Fault, InUse, browser
<1>4. QED BY <1>1, <1>2, <1>3, NothingSent, FaultTyped DEF OnceInv, HasDraft

LEMMA SubmitOnce == ASSUME OnceInv, Submit PROVE OnceInv'
<1>1. contracts \in [Contracts -> Rows] /\ modal \in Contracts
  BY DEF Submit, OnceInv, WellTyped, TypeOK
<1>2. \A c \in Contracts : /\ contracts'[c].no = contracts[c].no
                            /\ contracts'[c].status = IF c = modal THEN "pending_payment" ELSE contracts[c].status
  BY <1>1 DEF Submit, Rows
<1>3. contracts[modal].status = "draft"
  BY DEF Submit
<1>4. InUse' = InUse /\ \A c \in InUse : contracts'[c].no = contracts[c].no
  BY <1>2, <1>3 DEF InUse
<1>5. saves' = saves /\ forked' = forked /\ draft' = draft
  BY DEF Submit
<1>6. QED BY <1>4, <1>5, NothingSent, SubmitTyped DEF OnceInv, HasDraft

LEMMA SettleOnce == ASSUME OnceInv, NEW c \in Contracts, Settle(c) PROVE OnceInv'
<1>1. contracts \in [Contracts -> Rows]
  BY DEF OnceInv, WellTyped, TypeOK
<1>2. \A d \in Contracts : /\ contracts'[d].no = contracts[d].no
                            /\ contracts'[d].status = IF d = c THEN "client_review" ELSE contracts[d].status
  BY <1>1 DEF Settle, Rows
<1>3. contracts[c].status = "pending_payment"
  BY DEF Settle
<1>4. /\ InUse' = InUse /\ saves' = saves /\ forked' = forked /\ draft' = draft
      /\ \A d \in InUse : contracts'[d].no = contracts[d].no
  BY <1>2, <1>3 DEF Settle, InUse, browser
<1>5. QED BY <1>4, NothingSent, SettleTyped DEF OnceInv, HasDraft

LEMMA StutterOnce == ASSUME OnceInv, UNCHANGED vars PROVE OnceInv'
<1>1. contracts' = contracts /\ saves' = saves /\ forked' = forked /\ draft' = draft
  BY DEF vars
<1>2. QED BY <1>1, NothingSent, StutterTyped DEF OnceInv, InUse, HasDraft

LEMMA OnceStep == ASSUME OnceInv, [Next]_vars PROVE OnceInv'
<1>1. CASE Customer
  BY <1>1, EditOnce, DiscardOnce, OpenOnce, PayOnce, CloseModalOnce, SubmitOnce DEF Customer
<1>2. CASE Autosave
  BY <1>2, AutosaveOnce
<1>3. CASE \E s \in Saves : Handle(s) \/ Fault(s)
  BY <1>3, CreateDraftOnce, ReadDraftOnce, WriteDraftOnce, AnsweredOnce, RefusedOnce, UnheardOnce, FaultOnce
     DEF Handle
<1>4. CASE \E c \in Contracts : Settle(c)
  BY <1>4, SettleOnce
<1>5. CASE UNCHANGED vars
  BY <1>5, StutterOnce
<1>6. QED BY <1>1, <1>2, <1>3, <1>4, <1>5 DEF Next

(* OneContractPerDraft: autosaves, saves before checkouts, lost answers    *)
(* and pages loaded again make a second contract of a draft only when it   *)
(* was posted while an earlier post of it was not known to be answered.    *)
THEOREM DraftHasOneContract == Spec => []OneContractPerDraft
<1>1. Init => OnceInv
  BY OnceInit
<1>2. OnceInv /\ [Next]_vars => OnceInv'
  BY OnceStep
<1>3. OnceInv => OneContractPerDraft
  BY DEF OnceInv
<1>4. QED BY <1>1, <1>2, <1>3, PTL DEF Spec

===============================================================================
