------------------------------- MODULE LegalText -------------------------------
(***************************************************************************)
(* The answers of a customer and the legal text they become: the wizard    *)
(* shows the fields of a variant of a template, keeps every answer it was  *)
(* given, validates those it shows (validateDynamicDefinition) and previews*)
(* the articles of the contract (renderLegalClauses); the server writes the*)
(* articles again when it locks the contract.                              *)
(*                                                                         *)
(* The drafts of a variant are far too many to enumerate.  A behaviour is  *)
(* about one topic - one variable of the preview ("variable"), one answer   *)
(* ("answer") or one variable of the preview and of the issued contract     *)
(* ("issued") - and holds the answers that topic depends on: those its text *)
(* prints or tests, and those that decide whether they are shown and        *)
(* required.  The answers left out decide nothing about the ones kept, and a*)
(* draft that is valid is valid in each of its topics.                      *)
(***************************************************************************)
EXTENDS ServerText

CONSTANTS
    Variants,  \* the variants of the templates
    Kinds,     \* the kinds of topic a behaviour may be about
    OneBlank   \* a bound: no two answers are made of spaces at the same time

ASSUME VariantsAssumption == Variants \subseteq Lease \cup Sale \cup Freelance
ASSUME KindsAssumption == Kinds \subseteq {"variable", "answer", "issued"}
ASSUME OneBlankAssumption == OneBlank \in BOOLEAN

VARIABLES
    variant,  \* the variant of the draft
    topic,    \* a kind and the name of a variable or the key of an answer
    answers   \* fieldValues, the keys of the topic
vars == <<variant, topic, answers>>

-------------------------------------------------------------------------------
(* The definition of a variant. *)

FieldSet(v) ==
    CASE v \in Lease -> LeaseFields(v) [] v \in Sale -> SaleFields(v) [] OTHER -> ServiceFields(v)
Defaults(v) ==
    CASE v \in Lease -> LeaseDefaults(v) [] v \in Sale -> SaleDefaults(v)
      [] OTHER -> ServiceDefaults(v)
Articles(v) ==
    CASE v \in Lease -> LeaseText(v) [] v \in Sale -> SaleText(v) [] OTHER -> ServiceText(v)
Derived(v) ==
    CASE v \in Lease -> LeaseRules [] v \in Sale -> SaleRules [] OTHER -> ServiceRules
Together(v) == IF v \in Freelance THEN ServiceChosen(v) ELSE Always

(* f itself: TLC computes a function it compares once, as a table. *)
Table(f) == CHOOSE g \in {f} : g = f

ByKey(fields) == [k \in {f.key : f \in fields} |-> CHOOSE f \in fields : f.key = k]
Fields == Table([v \in Variants |-> Table(ByKey(FieldSet(v)))])
Variables == [v \in Variants |-> UNION {a.vars : a \in Articles(v)}]

(* formatClauseVariable: a variable nothing is derived for is an answer,   *)
(* and "other" the text that describes it.                                 *)
Direct(fields, x) ==
    LET other == x \o "_other" IN
    IF other \in DOMAIN fields
    THEN Prints(x, Is(x, "other"), {other})
         \cup Prints(x, And(Missing(other), Is(x, "other")), {x})
         \cup Prints(x, AnyOf({Is(x, y) : y \in fields[x].kind.values \ {"", "other"}}), {x})
    ELSE Prints(x, Always, {x})

(* The rules of the preview and those of the server. *)
WithDirect(fields, variables, rules) ==
    LET derived == {r \in rules : r.var \in variables}
    IN  derived \cup UNION {Direct(fields, x) : x \in variables \ {r.var : r \in derived}}
Preview == [v \in Variants |-> WithDirect(Fields[v], Variables[v], Derived(v))]
Server  == [v \in Variants |-> WithDirect(Fields[v], Variables[v], ServerRules)]

(* Where a variable is printed: the conditions of its articles. *)
Where == [v \in Variants |->
    [x \in Variables[v] |-> UNION {a.shown : a \in {b \in Articles(v) : x \in b.vars}}]]

-------------------------------------------------------------------------------
(* What the two engines make of answers f of a variant. *)

(* resolveWizardDefinition *)
ShownIn(v, k, f) == k \in DOMAIN Fields[v] /\ Holds(Fields[v][k].shown, f)

(* validateDynamicDefinition has no issue. *)
ValidIn(v, f) ==
    /\ \A k \in DOMAIN f : ShownIn(v, k, f) => ~Issue(Fields[v][k], f)
    /\ Keys(Together(v)) \subseteq DOMAIN f => Holds(Together(v), f)

(* renderLegalClauses: the article of a variable is part of the contract,  *)
(* the variable has a text, and an answer is printed.                      *)
IncludedIn(v, x, f)       == Holds(Where[v][x], f)
HasTextIn(rules, x, f)    == \E r \in rules : r.base /\ r.var = x /\ Holds(r.when, f)
PrintedIn(v, rules, k, f) == \E r \in rules : k \in r.keys /\ Holds(r.when, f) /\ IncludedIn(v, r.var, f)

-------------------------------------------------------------------------------
(* The topics of a variant and the answers each depends on. *)

(* An answer depends on those that decide whether it is shown and required.*)
Related(fields, S) ==
    UNION {{k} \cup (IF k \in DOMAIN fields
                      THEN Keys(fields[k].shown) \cup Keys(fields[k].need) ELSE {}) : k \in S}
Closure(fields, S) ==
    Related(fields, Related(fields, Related(fields, Related(fields, S))))

Written(field) == field.kind \in {Text, Date, Number, Counted}
Asked(fields, rules) ==
    {k \in DOMAIN fields :
        \/ Written(fields[k])
        \/ fields[k].shown # Always /\ (\E r \in rules : k \in r.keys)}

(* The rules a topic is about, and the answers those and the articles of   *)
(* their variables depend on.                                              *)
RulesOf(c, preview, server) ==
    CASE c[1] = "variable" -> {r \in preview : r.base /\ r.var = c[2]}
      [] c[1] = "answer"   -> {r \in preview : c[2] \in r.keys}
      [] c[1] = "issued"   -> {r \in preview \cup server : r.base /\ r.var = c[2]}
DependsOn(v, c, rules) ==
    (IF c[1] = "answer" THEN {c[2]} ELSE Keys(Where[v][c[2]]))
    \cup UNION {Keys(r.when) \cup r.keys \cup Keys(Where[v][r.var]) : r \in rules}

TopicsOf(v, fields, variables, preview, server) ==
    [c \in {c \in {"variable", "issued"} \X variables \cup {"answer"} \X Asked(fields, preview) :
                c[1] \in Kinds} |->
        Closure(fields, DependsOn(v, c, RulesOf(c, preview, server)))]
Topics == Table([v \in Variants |->
    Table(TopicsOf(v, Fields[v], Variables[v], Preview[v], Server[v]))])

(* Nothing a topic depends on is left out of it. *)
ASSUME TopicsAreClosed ==
    \A v \in Variants : \A c \in DOMAIN Topics[v] : Related(Fields[v], Topics[v][c]) = Topics[v][c]
(* What is asked for together is asked for. *)
ASSUME TogetherIsAsked == \A v \in Variants : Keys(Together(v)) \subseteq DOMAIN Fields[v]

-------------------------------------------------------------------------------
(* What the wizard accepts and no text is made of.                         *)

(* The columns of a list whose amount or quantity no minimum is checked of *)
(* (validateRepeaterField only asks that they are not empty).              *)
UncheckedAmounts ==
    {"sale_installment_schedule_rows.amount", "visual_main_payment_schedule.amount",
     "website_payment_schedule.amount", "website_external_services.amount",
     "social_payment_schedule.amount", "social_content_plan.quantity"}
NoZeroIn(f) == \A k \in UncheckedAmounts \cap DOMAIN f : f[k] # "0"

(* Spaces alone answer a field that has to be answered (isEmpty), and are  *)
(* no answer once they are trimmed (valueText).                            *)
NoBlankIn(v, f) ==
    \A k \in DOMAIN f : ShownIn(v, k, f) /\ Holds(Fields[v][k].need, f) => f[k] # " "

(* Neither is among the answers f. *)
InEarnest(v, f) == NoZeroIn(f) /\ NoBlankIn(v, f)

-------------------------------------------------------------------------------
(* What the definition of a variant guards by itself, read off its data.   *)

(* A radio button that starts with a default is never without an answer. *)
Kept == [v \in Variants |->
    {k \in DOMAIN Fields[v] \cap DOMAIN Defaults(v) : "" \notin Fields[v][k].kind.values}]
(* What the answer to a key can be; one that no field asks for is its      *)
(* default, or none.                                                       *)
Values(v, k) ==
    IF k \in DOMAIN Fields[v] THEN Fields[v][k].kind.values \cup (IF k \in Kept[v] THEN {} ELSE {""})
    ELSE IF k \in DOMAIN Defaults(v) THEN {Defaults(v)[k]} ELSE {""}
ASSUME DefaultsAreValues ==
    \A v \in Variants : \A k \in DOMAIN Fields[v] \cap DOMAIN Defaults(v) :
        Defaults(v)[k] \in Fields[v][k].kind.values

(* What atoms say of the same answer: that there is one, that there is     *)
(* none, the same of what is left of it when it is trimmed, no less than   *)
(* another one says, or the contrary.                                      *)
Blanks   == {"", " "}
Given(a) == a[2] \in {"truthy", "positive", "filled"} \/ (a[2] = "equals" /\ a[3] # "")
Blank(a) == a[2] = "falsy" \/ (a[2] = "equals" /\ a[3] = "")
Left(a)  == a[2] \in {"positive", "filled"} \/ (a[2] = "equals" /\ a[3] \notin Blanks)
Lost(a)  == a[2] \in {"falsy", "missing"} \/ (a[2] = "equals" /\ a[3] \in Blanks)
Stronger(a, b) ==
    /\ a[1] = b[1]
    /\ \/ a[2] = b[2] /\ a[3] = b[3]
       \/ b[2] = "truthy" /\ Given(a)
       \/ b[2] = "falsy" /\ Blank(a)
       \/ b[2] = "filled" /\ Left(a)
       \/ b[2] = "missing" /\ Lost(a)
       \/ b[2] = "positive" /\ a[2] = "equals" /\ a[3] \notin {"", " ", "0"}
Opposed(a, b) ==
    /\ a[1] = b[1]
    /\ \/ a[2] = "equals" /\ b[2] = "equals" /\ a[3] # b[3]
       \/ Blank(a) /\ Given(b)
       \/ Lost(a) /\ Left(b)
       \/ a[2] = "equals" /\ a[3] = "0" /\ b[2] = "positive"

(* When all atoms of x hold: a condition does, no alternative of which is  *)
(* left to chance; the wizard asks for an answer; there is one.            *)
Implies(x, c)      == \E y \in c : \A b \in y : \E a \in x : Stronger(a, b)
Demands(v, x, k)   == Implies(x, Fields[v][k].shown) /\ Implies(x, Fields[v][k].need)
Answered(v, x, k)  == Demands(v, x, k) \/ \E a \in x : a[1] = k /\ Given(a)

(* The atoms of x cannot all hold in a valid draft: two of them disagree,  *)
(* one lacks an answer the wizard asks for, or all are missing that it asks*)
(* for together.                                                           *)
Refuted(v, K, x) ==
    \/ \E a \in x :
           \/ \E b \in x : Opposed(a, b)
           \/ Blank(a) /\ a[1] \in K \cap DOMAIN Fields[v] /\ Demands(v, x, a[1])
    \/ /\ Keys(Together(v)) \subseteq K
       /\ \A y \in Together(v) : \E b \in y : \E a \in x : Opposed(a, b)

(* What else holds of the answers to the keys K in a valid draft: what is  *)
(* asked for has an answer, more than spaces where spaces cannot be typed, *)
(* and an amount is positive where zero is not accepted.  In earnest, none *)
(* of what is asked for is spaces alone and no amount is zero.             *)
Known(v, K, x, earnest) ==
    LET answered == {k \in K \cap DOMAIN Fields[v] : Answered(v, x, k)}
        filled   == {k \in answered : \/ " " \notin Values(v, k)
                                      \/ earnest /\ Demands(v, x, k)}
        positive == {k \in filled : \/ earnest /\ k \in UncheckedAmounts
                                    \/ /\ "0" \notin Fields[v][k].kind.valid
                                       /\ Implies(x, Fields[v][k].shown)}
    IN  x \cup {<<k, "truthy", "">> : k \in answered} \cup {<<k, "filled", "">> : k \in filled}
          \cup {<<k, "positive", "">> : k \in positive}

(* Whatever is chosen for those of the keys K that are a choice: in a valid*)
(* draft in which h holds, c does.                                         *)
Choices(v, K) == {k \in K : k \in DOMAIN Fields[v] => ~Written(Fields[v][k])}
Chosen(f)     == {<<k, "equals", f[k]>> : k \in DOMAIN f}
Settled(v, K, x, c) == Refuted(v, K, x) \/ Implies(x, c)
Follows(v, K, h, c, earnest) ==
    LET S == Choices(v, K) IN
    \A f \in [S -> UNION {Values(v, k) : k \in S}] :
        (\A k \in S : f[k] \in Values(v, k)) =>
            \A y \in h :
                LET x == y \cup Chosen(f)
                    z == Known(v, K, x, earnest)
                IN  \/ Settled(v, K, x, c)
                    \/ Settled(v, K, z, c)
                    \/ Settled(v, K, Known(v, K, z, earnest), c)

-------------------------------------------------------------------------------
(* A draft starts from the defaults of its variant (selectVariant). *)
StartsAt(keys, defaults) == [k \in keys |-> IF k \in DOMAIN defaults THEN defaults[k] ELSE ""]
Init_WithoutDefaults == \E v \in Variants : \E topics \in {Topics[v]} : \E c \in DOMAIN topics :
            variant = v /\ topic = c /\ answers = [k \in topics[c] |-> ""]
Init == \E v \in Variants : \E topics \in {Topics[v]} : \E c \in DOMAIN topics :
            variant = v /\ topic = c /\ answers = StartsAt(topics[c], Defaults(v))

Shown(k) == ShownIn(variant, k, answers)

(* The bound on the answers that are made of spaces. *)
WithinBound(f, k, x) ==
    OneBlank /\ x = " " => \A j \in DOMAIN f \ {k} : f[j] # " "

SetFieldValue_Forgets(k) ==
    /\ Shown(k)
    /\ \E x \in Fields[variant][k].kind.values :
        answers' = [j \in DOMAIN answers \ (IF x = "" THEN {k} ELSE {}) |-> IF j = k THEN x ELSE answers[j]]
    /\ UNCHANGED <<variant, topic>>

(* Answering a shown field.  The answers to fields that this hides are     *)
(* kept.                                                                   *)
SetFieldValue(k) ==
    /\ Shown(k)
    /\ \E x \in Fields[variant][k].kind.values \ {answers[k]} :
        WithinBound(answers, k, x) /\ answers' = [answers EXCEPT ![k] = x]
    /\ UNCHANGED <<variant, topic>>

Next == \E k \in DOMAIN answers : SetFieldValue(k)
Spec == Init /\ [][Next]_vars

Valid       == ValidIn(variant, answers)
Earnest     == InEarnest(variant, answers)
Included(x) == IncludedIn(variant, x, answers)
HasText(rules, x) == HasTextIn(rules, x, answers)
Printed(rules, k) == PrintedIn(variant, rules, k, answers)

-------------------------------------------------------------------------------
(* Properties. *)

TypeOK ==
    /\ variant \in Variants
    /\ topic \in DOMAIN Topics[variant]
    /\ DOMAIN answers = Topics[variant][topic]
    /\ \A k \in DOMAIN answers : answers[k] \in Values(variant, k)

(* A plan begun for services that are no longer among those of the contract. *)
KeptPlan(x) == x = "social_content_plan_text" /\ ~Shown("social_content_plan")

(* The wizard asks for what the text of a variable needs.  *)
ASSUME VariablesHaveTexts ==
    \A v \in Variants : \A c \in DOMAIN Topics[v] :
        LET x == c[2]
            begun == IF x = "social_content_plan_text"
                     THEN Fields[v]["social_content_plan"].shown ELSE Always
        IN  c[1] = "variable" =>
                Follows(v, Topics[v][c], And(Where[v][x], begun),
                        UNION {r.when : r \in RulesOf(c, Preview[v], Server[v])}, TRUE)

(* A draft the wizard finds complete is complete as a text: whatever was   *)
(* answered, and in whatever order, each variable of an article that is    *)
(* part of the contract has a text, and none is left as the placeholder    *)
(* that stands for a missing answer - but where a required answer is made  *)
(* of spaces, for an amount of zero in a list, and for a plan of content   *)
(* that was begun and hidden.                                              *)
ValidDraftIsComplete ==
    LET x == topic[2] IN
    topic[1] = "variable" /\ Valid /\ Earnest /\ ~KeptPlan(x) /\ Included(x)
        => HasText(Preview[variant], x)

(* The answers that are printed without asking whether they are still      *)
(* shown: the other annex of a home or a shop, the details of a method of  *)
(* payment, the plan of content and what belongs to it, and the            *)
(* representative of a client that was a company.                          *)
PrintedThoughHidden ==
    {"residential_other_annex", "commercial_other_annex", "rental_payment_methods.details",
     "social_content_scope_notes",
     "social_content_plan", "social_content_plan.content_type",
     "social_content_plan.content_type_other", "social_content_plan.frequency",
     "social_content_plan.frequency_other", "social_content_plan.quantity",
     "social_client_legal_representative", "website_client_legal_representative"}

(* The names of a client that stand in for the one who acts for it when    *)
(* that answer is missing, which of one that had to be answered means it is*)
(* made of spaces.                                                         *)
StandIns == {s \o "_client" \o what : s \in {"social", "website"}, what \in {"_name", "_company_name"}}

(* A rule that prints an answer, in an article that is part of the         *)
(* contract, asks for what shows the answer, in so many words.             *)
ASSUME HiddenAnswersAreGuarded ==
    \A v \in Variants : \A c \in DOMAIN Topics[v] :
        LET k == c[2] IN
        c[1] = "answer" /\ k \notin PrintedThoughHidden =>
            \A r \in RulesOf(c, Preview[v], Server[v]) :
                Follows(v, Topics[v][c], And(r.when, Where[v][r.var]), Fields[v][k].shown,
                        k \in StandIns)

(* The wizard keeps the answer to a field that a later answer hides (the   *)
(* data of a company after the party became a person, the details of a     *)
(* clause that was given up): such an answer stays out of the contract, but*)
(* for the named ones, and for a name that stands in for an answer of      *)
(* spaces.                                                                 *)
HiddenAnswerStaysOut ==
    LET k == topic[2] IN
    /\ topic[1] = "answer" /\ ~Shown(k) /\ Valid
    /\ k \notin PrintedThoughHidden /\ (k \in StandIns => Earnest)
    => ~Printed(Preview[variant], k)

(* The power of attorney of a company that is now a person: its fields look*)
(* at the basis of the authority alone, and stay shown and required.       *)
AskedInVain ==
    {s \o "_power_of_attorney_" \o what :
        s \in {"visual_client", "visual_provider", "website_provider", "social_client",
               "social_provider"},
        what \in {"number", "year", "office"}}
(* The witnesses are named where they sign, after the articles. *)
SigningWitness ==
    {t \o "_witness_" \o n \o what :
        t \in {"rental", "sale", "visual", "website", "social"}, n \in {"1", "2"},
        what \in {"_name", "_national_id"}}

(* What shows a field that is written in makes an article print it.  *)
ASSUME AnswersArePrinted ==
    \A v \in Variants : \A c \in DOMAIN Topics[v] :
        LET k == c[2] IN
        c[1] = "answer" /\ Written(Fields[v][k]) /\ k \notin AskedInVain \cup SigningWitness =>
            Follows(v, Topics[v][c], And(Fields[v][k].shown, Filled(k)),
                    UNION {And(r.when, Where[v][r.var]) : r \in RulesOf(c, Preview[v], Server[v])},
                    TRUE)

(* What a customer wrote in a field that the wizard shows is in the text of*)
(* a valid draft: nothing is asked for and then dropped - but where another*)
(* answer it is printed with is made of spaces or is an amount of zero.    *)
WrittenAnswerIsPrinted ==
    LET k == topic[2] IN
    /\ topic[1] = "answer" /\ Written(Fields[variant][k]) /\ Shown(k) /\ answers[k] \notin Blanks
    /\ Valid /\ Earnest /\ k \notin AskedInVain \cup SigningWitness
    => Printed(Preview[variant], k)

(* The issued contract has the data and the clauses of the preview: when a *)
(* draft is valid and the preview has a text for a variable, the server has*)
(* one and can lock the contract.  The server lacks most derived texts, and*)
(* refuses to lock a contract of any of the nine variants.                 *)
PreviewedIsIssued ==
    LET x == topic[2] IN
    topic[1] = "issued" /\ Valid /\ Included(x) /\ HasText(Preview[variant], x)
        => HasText(Server[variant], x)
================================================================================
