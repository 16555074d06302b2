------------------------------- MODULE LegalDraft -------------------------------
(***************************************************************************)
(* The whole draft of a variant, as the wizard keeps it, beside the answers*)
(* of one of its topics: what LegalText enumerates is a view of this one,  *)
(* which is far too large to enumerate.                                    *)
(***************************************************************************)
EXTENDS LegalText

VARIABLE draft  \* fieldValues: an answer to every field and every default
draftVars == <<variant, topic, answers, draft>>

DraftKeys(v) == DOMAIN Fields[v] \cup DOMAIN Defaults(v)

(* What a draft f answers to the keys of a topic. *)
View(v, c, f) == [k \in Topics[v][c] |-> Answer(f, k)]

-------------------------------------------------------------------------------
DraftInit ==
    \E v \in Variants : \E c \in DOMAIN Topics[v] :
        /\ variant = v /\ topic = c
        /\ draft = StartsAt(DraftKeys(v), Defaults(v))
        /\ answers = View(v, c, draft)

(* Answering a field the wizard shows, of the topic or not. *)
AnswerField(k) ==
    /\ ShownIn(variant, k, draft)
    /\ \E x \in Fields[variant][k].kind.values \ {draft[k]} :
        WithinBound(draft, k, x) /\ draft' = [draft EXCEPT ![k] = x]
    /\ UNCHANGED <<variant, topic>>
    /\ answers' = View(variant, topic, draft')

DraftNext == \E k \in DraftKeys(variant) : AnswerField(k)
DraftSpec == DraftInit /\ [][DraftNext]_draftVars

-------------------------------------------------------------------------------
(* Properties. *)

(* Whatever a customer answered and in whatever order, no valid draft      *)
(* prints an answer the wizard does not show, but for the named ones: what *)
(* HiddenAnswerStaysOut says of a topic, of the whole draft at once.       *)
NoHiddenAnswerIsPrinted ==
    ValidIn(variant, draft) =>
        \A c \in DOMAIN Topics[variant] :
            /\ c[1] = "answer" /\ c[2] \notin PrintedThoughHidden
            /\ c[2] \in StandIns => InEarnest(variant, draft)
            => (PrintedIn(variant, Preview[variant], c[2], draft) => ShownIn(variant, c[2], draft))

NoPlaceholder(c) ==
    LET begun == c[2] = "social_content_plan_text" => ShownIn(variant, "social_content_plan", draft)
    IN  c[1] = "variable" /\ begun /\ IncludedIn(variant, c[2], draft)
            => HasTextIn(Preview[variant], c[2], draft)
NothingDropped(c) ==
    /\ c[1] = "answer" /\ Written(Fields[variant][c[2]]) /\ c[2] \notin AskedInVain \cup SigningWitness
    /\ ShownIn(variant, c[2], draft) /\ Answer(draft, c[2]) \notin Blanks
    => PrintedIn(variant, Preview[variant], c[2], draft)

(* A valid draft has a text for every variable of its articles and prints  *)
(* every answer written in a field it shows, all of them at once, when no  *)
(* answer it asks for is spaces and no amount in a list is zero: what      *)
(* ValidDraftIsComplete and WrittenAnswerIsPrinted say of a topic.         *)
DraftHasItsText ==
    ValidIn(variant, draft) /\ InEarnest(variant, draft) =>
        \A c \in DOMAIN Topics[variant] : NoPlaceholder(c) /\ NothingDropped(c)

(* The draft as a whole makes of a topic what its answers make of it: a    *)
(* valid draft is valid in the topic, the article of the variable is in or *)
(* out, the variable has its text, the answer is shown and printed - so    *)
(* that what holds of the answers of every topic holds of every draft.     *)
TopicDecides ==
    LET kind == topic[1]
        x    == topic[2]
    IN  /\ ValidIn(variant, draft) => Valid
        /\ kind \in {"variable", "issued"} =>
              /\ IncludedIn(variant, x, draft) <=> Included(x)
              /\ HasTextIn(Preview[variant], x, draft) <=> HasText(Preview[variant], x)
        /\ kind = "issued" => (HasTextIn(Server[variant], x, draft) <=> HasText(Server[variant], x))
        /\ kind = "answer" =>
              /\ ShownIn(variant, x, draft) <=> Shown(x)
              /\ PrintedIn(variant, Preview[variant], x, draft) <=> Printed(Preview[variant], x)
================================================================================
