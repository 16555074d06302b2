---------------------------- MODULE LegalTemplate ----------------------------
(***************************************************************************)
(* The vocabulary of a legal template: conditions, the fields the wizard   *)
(* asks for and the variables its articles print                           *)
(* (packages/template-engine/src/types.ts, resolver.ts, validation.ts).    *)
(*                                                                         *)
(* An answer is a string: "" is an unanswered field, an unticked box or an *)
(* empty list, " " a text of spaces alone, "x" any other text or option no *)
(* condition names, "0" and "9" the number zero and a positive number,     *)
(* "true" a ticked box, "row" a list of rows.  The columns of a repeater   *)
(* are fields of their own, named "list.column", of one row that stands for*)
(* all of them: a list is complete when each of its rows is.               *)
(*                                                                         *)
(* Two tests tell whether there is an answer: the wizard takes "" alone for*)
(* none (isEmpty), and so do its conditions; the text of a contract is made*)
(* of trimmed answers (valueText), and spaces are none.                    *)
(***************************************************************************)
EXTENDS Naturals, Sequences

(* A condition is a set of alternatives, each a set of atoms that must all *)
(* hold (types.ts ConditionDefinition, without "not", which no template    *)
(* uses).  Filled and Missing are what the texts ask of a trimmed answer.  *)
Always == {{}}
Never  == {}
Is(k, v)    == {{<<k, "equals", v>>}}
On(k)       == {{<<k, "truthy", "">>}}
Off(k)      == {{<<k, "falsy", "">>}}
Positive(k) == {{<<k, "positive", "">>}}
Filled(k)   == {{<<k, "filled", "">>}}
Missing(k)  == {{<<k, "missing", "">>}}
And(c, d)   == {x \cup y : x \in c, y \in d}
AllOf(cs)   == {UNION {pick[c] : c \in cs} : pick \in {p \in [cs -> UNION cs] : \A c \in cs : p[c] \in c}}
AnyOf(cs)   == UNION cs
AllFilled(keys) == {{<<k, "filled", "">> : k \in keys}}

Keys(c) == {a[1] : a \in UNION c}

(* evaluateCondition and valueText.  An atom about a key that has no answer*)
(* is about an undefined value, which is "" here.                          *)
Answer(f, k) == IF k \in DOMAIN f THEN f[k] ELSE ""
Atom(a, f) ==
    CASE a[2] = "equals"   -> Answer(f, a[1]) = a[3]
      [] a[2] = "truthy"   -> Answer(f, a[1]) # ""
      [] a[2] = "falsy"    -> Answer(f, a[1]) = ""
      [] a[2] = "positive" -> Answer(f, a[1]) \notin {"", " ", "0"}
      [] a[2] = "filled"   -> Answer(f, a[1]) \notin {"", " "}
      [] a[2] = "missing"  -> Answer(f, a[1]) \in {"", " "}
Holds(c, f) == \E all \in c : \A a \in all : Atom(a, f)

(* The kinds of field: the values it can be given and those of them        *)
(* validateScalarField accepts, which of a text are all but "" (the least  *)
(* length of a name is one of spaces, too); a Date cannot be typed as      *)
(* spaces.  A number with a minimum of one or more is Counted, a list      *)
(* (Rows) is never emptied again, a Radio button cannot be released, and a *)
(* choice is made among the options that some condition names and one, "x",*)
(* for the rest.                                                           *)
Kind(values, valid) == [values |-> values, valid |-> valid]
Text       == Kind({"", " ", "x"}, {" ", "x"})
Date       == Kind({"", "x"}, {"x"})
Flag       == Kind({"", "true"}, {"true"})
Number     == Kind({"", "0", "9"}, {"0", "9"})
Counted    == Kind({"", "0", "9"}, {"9"})
Choice(s)  == Kind({""} \cup s, s)
Options(s) == Choice(s \cup {"x"})
Radio(s)   == Kind(s, s)
Rows       == Kind({"row"}, {"row"})
File       == Kind({"", "file"}, {"file"})

(* The fields of a step that are shown, and required, under the same       *)
(* conditions.  `need` is read only while the field is shown.              *)
MayWhen(kind, shown, need, keys) ==
    {[key |-> k, kind |-> kind, shown |-> shown, need |-> need] : k \in keys}
Must(kind, shown, keys) == MayWhen(kind, shown, Always, keys)
May(kind, shown, keys)  == MayWhen(kind, shown, Never, keys)

Issue_BlankIsFine(field, f) ==
    f[field.key] # "" /\ f[field.key] \notin field.kind.valid

Issue_NoMinimum(field, f) == f[field.key] = "" /\ Holds(field.need, f)

(* validateScalarField and validateRepeaterField on one shown field. *)
Issue(field, f) ==
    LET x == f[field.key] IN
    IF x = "" THEN Holds(field.need, f) ELSE x \notin field.kind.valid

(* An article, or a paragraph of one: when it is part of the contract and  *)
(* the variables it prints.                                                *)
Article(shown, vars) == [shown |-> shown, vars |-> vars]

(* What derivedClauseVariable prints for a variable: every rule of it      *)
(* whose condition holds prints its keys; the variable has a text at all   *)
(* when a `base` rule holds, and is undefined otherwise.                   *)
Prints(var, when, keys) ==
    {[var |-> var, when |-> And(when, AllFilled(keys)), keys |-> keys, base |-> TRUE]}
Adds(var, when, keys) ==
    {[var |-> var, when |-> And(when, Filled(k)), keys |-> {k}, base |-> FALSE] : k \in keys}
AddsAll(var, when, keys) ==
    {[var |-> var, when |-> And(when, AllFilled(keys)), keys |-> keys, base |-> FALSE]}
Counts(var, when, k) ==
    {[var |-> var, when |-> And(when, Positive(k)), keys |-> {k}, base |-> TRUE]}
(* A choice with a free "other": printed as its label, or as the text that *)
(* describes it.                                                           *)
OrOther(var, when, k, other, labels) ==
    UNION {Prints(var, And(when, Is(k, x)), {k}) : x \in labels \ {"other"}}
    \cup Prints(var, And(when, Is(k, "other")), {other})

IsFirm(p, firm) ==
    IF firm THEN Is(p \o "_party_type", "company")
    ELSE AnyOf({Is(p \o "_party_type", "individual"), Off(p \o "_party_type")})

(* The definition of a party, a company or a person (the same in every     *)
(* template but for the keys of the tax number and the telephone).         *)
PartyText(var, p, tax, phone) ==
    LET company == IsFirm(p, TRUE)
        firm == And(company, Filled(p \o "_company_name"))
        person == IsFirm(p, FALSE)
        named == And(person, Filled(p \o "_name"))
    IN  Prints(var, company, {p \o "_company_name"})
        \cup Adds(var, firm, {p \o "_company_legal_form", p \o "_commercial_register", tax,
              p \o "_legal_representative", p \o "_representative_capacity",
              p \o "_company_address", phone, p \o "_company_email"})
        \cup Prints(var, person, {p \o "_name"})
        \cup Adds(var, named, {p \o "_nationality", p \o "_national_id", p \o "_address",
              p \o "_phone", p \o "_email"})
        \cup Adds(var, And(named, Filled(p \o "_national_id")), {p \o "_identity_document_type",
              p \o "_id_issuer", p \o "_id_issue_date"})

(* The contacts that notices go to: those the parties gave, or two others. *)
(* `also` pairs what else the text needs with the keys it prints.          *)
PartyKey(p, firm, what) == IF firm THEN p \o "_company" \o what ELSE p \o what
Contacts(var, on, reuse, p, q, what, others, also) ==
    UNION {Prints(var, AllOf({On(on), On(reuse), IsFirm(p, a), IsFirm(q, b), e[1]}),
                  {PartyKey(p, a, what), PartyKey(q, b, what)} \cup e[2])
           : a \in BOOLEAN, b \in BOOLEAN, e \in also}
    \cup UNION {Prints(var, AllOf({On(on), Off(reuse), e[1]}), others \cup e[2]) : e \in also}
Nothing == {<<Always, {}>>}
===============================================================================
