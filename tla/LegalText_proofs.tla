---------------------------- MODULE LegalText_proofs ----------------------------
(***************************************************************************)
(* The answers of a customer and the legal text they become: the answers   *)
(* keep their types, a topic follows the whole draft, and an answer that   *)
(* is hidden again stays out of the contract, for every variant and every  *)
(* draft of it.                                                            *)
(*                                                                         *)
(* What these rest on is read off the definitions of the templates: the    *)
(* defaults are values of their fields, a topic is closed under what its   *)
(* answers depend on, and a rule that prints an answer asks in its own     *)
(* condition for what shows the answer (HiddenAnswersAreGuarded).          *)
(***************************************************************************)
EXTENDS LegalDraft, TLAPS

-----------------------------------------------------------------------------
(* Types.                                                                  *)

(* Answers are values of their fields, or none; a kept radio button has    *)
(* one.                                                                    *)
Typed(v, f) == \A k \in DOMAIN f : f[k] \in Values(v, k)

LEMMA TableIsFunction == ASSUME NEW f PROVE Table(f) = f
BY DEF Table

LEMMA FieldsOf ==
    ASSUME NEW v \in Variants
    PROVE  Fields[v] = ByKey(FieldSet(v))
<1>1. Fields = [w \in Variants |-> Table(ByKey(FieldSet(w)))]
  BY TableIsFunction DEF Fields
<1>2. Fields[v] = Table(ByKey(FieldSet(v)))
  BY <1>1
<1>3. QED BY <1>2, TableIsFunction

(* The fields of a variant are known by their keys.                        *)
LEMMA FieldKey ==
    ASSUME NEW v \in Variants, NEW k \in DOMAIN Fields[v]
    PROVE  Fields[v][k].key = k
<1> DEFINE F == FieldSet(v)
<1>1. Fields[v] = [j \in {f.key : f \in F} |-> CHOOSE f \in F : f.key = j]
  BY FieldsOf DEF ByKey
<1> HIDE DEF F
<1>2. k \in {f.key : f \in F} /\ Fields[v][k] = CHOOSE f \in F : f.key = k
  BY <1>1
<1>3. QED BY <1>2

LEMMA KeptFields ==
    ASSUME NEW v \in Variants
    PROVE  \A k \in Kept[v] : k \in DOMAIN Fields[v] /\ k \in DOMAIN Defaults(v)
BY DEF Kept

(* The defaults are typed, whatever the keys that start at them.           *)
LEMMA StartIsTyped ==
    ASSUME NEW v \in Variants, NEW keys
    PROVE  /\ DOMAIN StartsAt(keys, Defaults(v)) = keys
           /\ Typed(v, StartsAt(keys, Defaults(v)))
<1> DEFINE f == StartsAt(keys, Defaults(v))
<1>1. ASSUME NEW k \in keys
      PROVE  f[k] \in Values(v, k)
  <2>1. f[k] = IF k \in DOMAIN Defaults(v) THEN Defaults(v)[k] ELSE ""
    BY DEF StartsAt
  <2>2. CASE k \in DOMAIN Fields[v] /\ k \in DOMAIN Defaults(v)
    BY <2>1, <2>2, DefaultsAreValues DEF Values
  <2>3. CASE k \in DOMAIN Fields[v] /\ k \notin DOMAIN Defaults(v)
    BY <2>1, <2>3, KeptFields DEF Values
  <2>4. CASE k \notin DOMAIN Fields[v]
    BY <2>1, <2>4 DEF Values
  <2>5. QED BY <2>2, <2>3, <2>4
<1>2. DOMAIN f = keys
  BY DEF StartsAt
<1>3. QED BY <1>1, <1>2 DEF Typed

(* An answer out of the values of a field keeps the others.                *)
LEMMA AnswerIsTyped ==
    ASSUME NEW v \in Variants, NEW f, Typed(v, f),
           NEW k \in DOMAIN Fields[v], NEW x \in Fields[v][k].kind.values
    PROVE  Typed(v, [f EXCEPT ![k] = x])
<1> DEFINE g == [f EXCEPT ![k] = x]
<1>1. x \in Values(v, k)
  BY DEF Values
<1>2. ASSUME NEW j \in DOMAIN f
      PROVE  g[j] \in Values(v, j)
  BY <1>1 DEF Typed
<1>3. QED BY <1>2 DEF Typed

LEMMA TypeInit == Init => TypeOK
<1> SUFFICES ASSUME Init PROVE TypeOK
  OBVIOUS
<1>1. PICK v \in Variants : \E c \in DOMAIN Topics[v] :
        variant = v /\ topic = c /\ answers = StartsAt(Topics[v][c], Defaults(v))
  BY DEF Init
<1>2. DOMAIN answers = Topics[v][topic] /\ Typed(v, answers)
  BY <1>1, StartIsTyped
<1>3. QED BY <1>1, <1>2 DEF TypeOK, Typed

LEMMA TypeStep == TypeOK /\ [Next]_vars => TypeOK'
<1> SUFFICES ASSUME TypeOK, [Next]_vars PROVE TypeOK'
  OBVIOUS
<1>1. CASE UNCHANGED vars
  BY <1>1 DEF TypeOK, vars
<1>2. ASSUME NEW k \in DOMAIN answers, SetFieldValue(k)
      PROVE  TypeOK'
  <2>1. PICK x \in Fields[variant][k].kind.values : answers' = [answers EXCEPT ![k] = x]
    BY <1>2 DEF SetFieldValue
  <2>2. variant' = variant /\ topic' = topic /\ k \in DOMAIN Fields[variant]
    BY <1>2 DEF SetFieldValue, Shown, ShownIn
  <2>3. variant \in Variants /\ Typed(variant, answers)
    BY DEF TypeOK, Typed
  <2>4. Typed(variant, answers')
    BY <2>1, <2>2, <2>3, AnswerIsTyped
  <2>5. QED BY <2>1, <2>2, <2>4 DEF TypeOK, Typed
<1>3. QED BY <1>1, <1>2 DEF Next

(* The answers of a topic are those its keys ask for, each out of the      *)
(* values of its field, and a radio button that starts with a default      *)
(* always has one (selectVariant, setFieldValue).                          *)
THEOREM AnswersAreTyped == Spec => []TypeOK
<1>1. QED BY TypeInit, TypeStep, PTL DEF Spec

-----------------------------------------------------------------------------
(* Conditions.                                                             *)

LEMMA GivenHolds ==
    ASSUME NEW a, NEW f, Given(a), Atom(a, f)
    PROVE  Answer(f, a[1]) # ""
BY DEF Given, Atom

LEMMA BlankHolds ==
    ASSUME NEW a, NEW f, Blank(a), Atom(a, f)
    PROVE  Answer(f, a[1]) = ""
BY DEF Blank, Atom

LEMMA LeftHolds ==
    ASSUME NEW a, NEW f, Left(a), Atom(a, f)
    PROVE  Answer(f, a[1]) \notin Blanks
BY DEF Left, Atom, Blanks

LEMMA LostHolds ==
    ASSUME NEW a, NEW f, Lost(a), Atom(a, f)
    PROVE  Answer(f, a[1]) \in Blanks
BY DEF Lost, Atom, Blanks

LEMMA StrongerHolds ==
    ASSUME NEW a, NEW b, NEW f, Stronger(a, b), Atom(a, f)
    PROVE  Atom(b, f)
<1>1. a[1] = b[1]
  BY DEF Stronger
<1>2. CASE a[2] = b[2] /\ a[3] = b[3]
  BY <1>1, <1>2 DEF Atom
<1>3. CASE b[2] = "truthy" /\ Given(a)
  BY <1>1, <1>3, GivenHolds DEF Atom
<1>4. CASE b[2] = "falsy" /\ Blank(a)
  BY <1>1, <1>4, BlankHolds DEF Atom
<1>5. CASE b[2] = "filled" /\ Left(a)
  BY <1>1, <1>5, LeftHolds DEF Atom, Blanks
<1>6. CASE b[2] = "missing" /\ Lost(a)
  BY <1>1, <1>6, LostHolds DEF Atom, Blanks
<1>7. CASE b[2] = "positive" /\ a[2] = "equals" /\ a[3] \notin {"", " ", "0"}
  BY <1>1, <1>7 DEF Atom
<1>8. QED BY <1>2, <1>3, <1>4, <1>5, <1>6, <1>7 DEF Stronger

(* A condition implied by atoms that all hold holds.                       *)
LEMMA ImpliesHolds ==
    ASSUME NEW x, NEW c, NEW f, Implies(x, c), \A a \in x : Atom(a, f)
    PROVE  Holds(c, f)
<1>1. PICK y \in c : \A b \in y : \E a \in x : Stronger(a, b)
  BY DEF Implies
<1>2. \A b \in y : Atom(b, f)
  BY <1>1, StrongerHolds
<1>3. QED BY <1>2 DEF Holds

LEMMA OpposedFail ==
    ASSUME NEW a, NEW b, NEW f, Opposed(a, b), Atom(a, f), Atom(b, f)
    PROVE  FALSE
<1>1. a[1] = b[1]
  BY DEF Opposed
<1>2. CASE a[2] = "equals" /\ b[2] = "equals" /\ a[3] # b[3]
  BY <1>1, <1>2 DEF Atom
<1>3. CASE Blank(a) /\ Given(b)
  BY <1>1, <1>3, BlankHolds, GivenHolds
<1>4. CASE Lost(a) /\ Left(b)
  BY <1>1, <1>4, LostHolds, LeftHolds
<1>5. CASE a[2] = "equals" /\ a[3] = "0" /\ b[2] = "positive"
  BY <1>1, <1>5 DEF Atom
<1>6. QED BY <1>2, <1>3, <1>4, <1>5 DEF Opposed

(* Both of two conditions hold when their conjunction does, and one of     *)
(* several when their union does.                                          *)
LEMMA AndHolds ==
    ASSUME NEW c, NEW d, NEW f
    PROVE  Holds(And(c, d), f) <=> Holds(c, f) /\ Holds(d, f)
<1>1. ASSUME Holds(And(c, d), f) PROVE Holds(c, f) /\ Holds(d, f)
  <2>1. PICK x \in c, y \in d : \A a \in x \cup y : Atom(a, f)
    BY <1>1 DEF Holds, And
  <2>2. QED BY <2>1 DEF Holds
<1>2. ASSUME Holds(c, f), Holds(d, f) PROVE Holds(And(c, d), f)
  <2>1. PICK x \in c : \A a \in x : Atom(a, f)
    BY <1>2 DEF Holds
  <2>2. PICK y \in d : \A a \in y : Atom(a, f)
    BY <1>2 DEF Holds
  <2>3. x \cup y \in And(c, d) /\ \A a \in x \cup y : Atom(a, f)
    BY <2>1, <2>2 DEF And
  <2>4. QED BY <2>3 DEF Holds
<1>3. QED BY <1>1, <1>2

LEMMA UnionHolds ==
    ASSUME NEW S, NEW f
    PROVE  Holds(UNION S, f) <=> \E c \in S : Holds(c, f)
BY DEF Holds

-----------------------------------------------------------------------------
(* What is known of the answers of a valid draft.                          *)

(* The answers f of a valid draft have those of the keys K that fields ask *)
(* for; in earnest, none of them is asked for and spaces alone or an amount*)
(* of zero that nobody checks.                                             *)
Good(v, K, f, earnest) ==
    /\ ValidIn(v, f)
    /\ \A k \in K : Answer(f, k) \in Values(v, k)
    /\ K \cap DOMAIN Fields[v] \subseteq DOMAIN f
    /\ earnest => InEarnest(v, f)

LEMMA ShownAnswer ==
    ASSUME NEW v \in Variants, NEW f, ValidIn(v, f), NEW k \in DOMAIN Fields[v] \cap DOMAIN f,
           Holds(Fields[v][k].shown, f)
    PROVE  /\ Holds(Fields[v][k].need, f) => Answer(f, k) # ""
           /\ Answer(f, k) # "" => Answer(f, k) \in Fields[v][k].kind.valid
<1>1. ~Issue(Fields[v][k], f)
  BY DEF ValidIn, ShownIn
<1>2. Fields[v][k].key = k /\ Answer(f, k) = f[k]
  BY FieldKey DEF Answer
<1>3. QED BY <1>1, <1>2 DEF Issue

LEMMA DemandedAnswer ==
    ASSUME NEW v \in Variants, NEW f, ValidIn(v, f), NEW x, \A a \in x : Atom(a, f),
           NEW k \in DOMAIN Fields[v] \cap DOMAIN f, Demands(v, x, k)
    PROVE  /\ Answer(f, k) # ""
           /\ NoBlankIn(v, f) => Answer(f, k) \notin Blanks
<1>1. Holds(Fields[v][k].shown, f) /\ Holds(Fields[v][k].need, f)
  BY ImpliesHolds DEF Demands
<1>2. Answer(f, k) # ""
  BY <1>1, ShownAnswer
<1>3. NoBlankIn(v, f) => Answer(f, k) # " "
  BY <1>1 DEF NoBlankIn, ShownIn, Answer
<1>4. QED BY <1>2, <1>3 DEF Blanks

(* No valid draft has answers that are refuted.                            *)
LEMMA RefutedFails ==
    ASSUME NEW v \in Variants, NEW K, NEW f, NEW earnest, Good(v, K, f, earnest),
           NEW x, \A a \in x : Atom(a, f), Refuted(v, K, x)
    PROVE  FALSE
<1>1. CASE \E a \in x, b \in x : Opposed(a, b)
  BY <1>1, OpposedFail
<1>2. CASE \E a \in x : Blank(a) /\ a[1] \in K \cap DOMAIN Fields[v] /\ Demands(v, x, a[1])
  <2>1. PICK a \in x : Blank(a) /\ a[1] \in K \cap DOMAIN Fields[v] /\ Demands(v, x, a[1])
    BY <1>2
  <2>2. ValidIn(v, f) /\ a[1] \in DOMAIN f
    BY <2>1 DEF Good
  <2>3. QED BY <2>1, <2>2, DemandedAnswer, BlankHolds
<1>3. CASE /\ Keys(Together(v)) \subseteq K
           /\ \A y \in Together(v) : \E b \in y : \E a \in x : Opposed(a, b)
  <2>1. Keys(Together(v)) \subseteq DOMAIN f
    BY <1>3, TogetherIsAsked DEF Good
  <2>2. Holds(Together(v), f)
    BY <2>1 DEF Good, ValidIn
  <2>3. PICK y \in Together(v) : \A b \in y : Atom(b, f)
    BY <2>2 DEF Holds
  <2>4. PICK b \in y, a \in x : Opposed(a, b)
    BY <1>3
  <2>5. QED BY <2>3, <2>4, OpposedFail
<1>4. QED BY <1>1, <1>2, <1>3 DEF Refuted

(* What is known from atoms that hold holds.                               *)
LEMMA KnownHolds ==
    ASSUME NEW v \in Variants, NEW K, NEW f, NEW earnest, Good(v, K, f, earnest),
           NEW x, \A a \in x : Atom(a, f)
    PROVE  \A a \in Known(v, K, x, earnest) : Atom(a, f)
<1> DEFINE answered == {k \in K \cap DOMAIN Fields[v] : Answered(v, x, k)}
           filled == {k \in answered : \/ " " \notin Values(v, k)
                                       \/ earnest /\ Demands(v, x, k)}
           positive == {k \in filled : \/ earnest /\ k \in UncheckedAmounts
                                       \/ /\ "0" \notin Fields[v][k].kind.valid
                                          /\ Implies(x, Fields[v][k].shown)}
<1>1. Known(v, K, x, earnest) =
        x \cup {<<k, "truthy", "">> : k \in answered} \cup {<<k, "filled", "">> : k \in filled}
          \cup {<<k, "positive", "">> : k \in positive}
  BY DEF Known
<1>2. ASSUME NEW k \in answered
      PROVE  k \in DOMAIN Fields[v] \cap DOMAIN f /\ k \in K /\ Answer(f, k) # ""
  <2>1. k \in DOMAIN Fields[v] \cap DOMAIN f /\ ValidIn(v, f)
    BY DEF Good
  <2>2. CASE Demands(v, x, k)
    BY <2>1, <2>2, DemandedAnswer
  <2>3. CASE \E a \in x : a[1] = k /\ Given(a)
    BY <2>1, <2>3, GivenHolds
  <2>4. QED BY <2>1, <2>2, <2>3 DEF Answered
<1>3. ASSUME NEW k \in filled
      PROVE  Answer(f, k) \notin Blanks
  <2>1. k \in DOMAIN Fields[v] \cap DOMAIN f /\ k \in K /\ Answer(f, k) # ""
    BY <1>2
  <2>2. CASE " " \notin Values(v, k)
    <3>1. Answer(f, k) \in Values(v, k)
      BY <2>1 DEF Good
    <3>2. QED BY <2>1, <2>2, <3>1 DEF Blanks
  <2>3. CASE earnest /\ Demands(v, x, k)
    <3>1. ValidIn(v, f) /\ NoBlankIn(v, f)
      BY <2>3 DEF Good, InEarnest
    <3>2. QED BY <2>1, <2>3, <3>1, DemandedAnswer
  <2>4. QED BY <2>2, <2>3
<1>4. ASSUME NEW k \in positive
      PROVE  Answer(f, k) \notin {"", " ", "0"}
  <2>1. k \in DOMAIN Fields[v] \cap DOMAIN f /\ Answer(f, k) \notin Blanks
    BY <1>2, <1>3
  <2>2. CASE earnest /\ k \in UncheckedAmounts
    <3>1. NoZeroIn(f)
      BY <2>2 DEF Good, InEarnest
    <3>2. Answer(f, k) # "0"
      BY <2>1, <2>2, <3>1 DEF NoZeroIn, Answer
    <3>3. QED BY <2>1, <3>2 DEF Blanks
  <2>3. CASE "0" \notin Fields[v][k].kind.valid /\ Implies(x, Fields[v][k].shown)
    <3>1. Holds(Fields[v][k].shown, f) /\ ValidIn(v, f)
      BY <2>3, ImpliesHolds DEF Good
    <3>2. Answer(f, k) \in Fields[v][k].kind.valid
      BY <2>1, <3>1, ShownAnswer DEF Blanks
    <3>3. QED BY <2>1, <2>3, <3>2 DEF Blanks
  <2>4. QED BY <2>2, <2>3
<1> HIDE DEF answered, filled, positive
<1>5. \A k \in answered : Atom(<<k, "truthy", "">>, f)
  BY <1>2 DEF Atom
<1>6. \A k \in filled : Atom(<<k, "filled", "">>, f)
  BY <1>3 DEF Atom, Blanks
<1>7. \A k \in positive : Atom(<<k, "positive", "">>, f)
  BY <1>4 DEF Atom
<1>8. QED BY <1>1, <1>5, <1>6, <1>7

LEMMA SettledHolds ==
    ASSUME NEW v \in Variants, NEW K, NEW f, NEW earnest, Good(v, K, f, earnest),
           NEW x, \A a \in x : Atom(a, f), NEW c, Settled(v, K, x, c)
    PROVE  Holds(c, f)
BY RefutedFails, ImpliesHolds DEF Settled

(* The judgement is sound: what follows from h holds in every valid draft  *)
(* in which h does.                                                        *)
LEMMA FollowsHolds ==
    ASSUME NEW v \in Variants, NEW K, NEW f, NEW earnest, Good(v, K, f, earnest),
           NEW h, NEW c, Follows(v, K, h, c, earnest), Holds(h, f)
    PROVE  Holds(c, f)
<1> DEFINE S == Choices(v, K)
           g == [k \in S |-> Answer(f, k)]
<1>1. \A k \in S : g[k] \in Values(v, k)
  BY DEF Good, Choices
<1>2. g \in [S -> UNION {Values(v, k) : k \in S}]
  BY <1>1
<1>3. PICK y \in h : \A a \in y : Atom(a, f)
  BY DEF Holds
<1> DEFINE x == y \cup Chosen(g)
           z == Known(v, K, x, earnest)
<1>4. \/ Settled(v, K, x, c)
      \/ Settled(v, K, z, c)
      \/ Settled(v, K, Known(v, K, z, earnest), c)
  BY <1>1, <1>2 DEF Follows
<1>5. \A a \in x : Atom(a, f)
  <2>1. ASSUME NEW k \in S PROVE Atom(<<k, "equals", g[k]>>, f)
    BY DEF Atom
  <2>2. DOMAIN g = S
    OBVIOUS
  <2> HIDE DEF g
  <2>3. \A a \in Chosen(g) : Atom(a, f)
    BY <2>1, <2>2 DEF Chosen
  <2>4. QED BY <1>3, <2>3
<1> HIDE DEF x
<1>6. \A a \in z : Atom(a, f)
  BY <1>5, KnownHolds
<1> HIDE DEF z
<1>7. \A a \in Known(v, K, z, earnest) : Atom(a, f)
  BY <1>6, KnownHolds
<1>8. QED BY <1>4, <1>5, <1>6, <1>7, SettledHolds

-----------------------------------------------------------------------------
(* Topics.                                                                 *)

LEMMA AtomKeys ==
    ASSUME NEW c, NEW x \in c, NEW a \in x
    PROVE  a[1] \in Keys(c)
BY DEF Keys

(* Two drafts with the same answers to its keys make the same of a         *)
(* condition.                                                              *)
LEMMA SameAnswers ==
    ASSUME NEW c, NEW f, NEW g, \A k \in Keys(c) : Answer(f, k) = Answer(g, k)
    PROVE  Holds(c, f) <=> Holds(c, g)
<1>1. \A x \in c : \A a \in x : Atom(a, f) <=> Atom(a, g)
  <2> SUFFICES ASSUME NEW x \in c, NEW a \in x PROVE Atom(a, f) <=> Atom(a, g)
    OBVIOUS
  <2>1. Answer(f, a[1]) = Answer(g, a[1])
    BY AtomKeys
  <2>2. QED BY <2>1 DEF Atom
<1>2. QED BY <1>1 DEF Holds

(* The table TLC makes of the topics is what they are defined as.          *)
LEMMA TopicsAre ==
    ASSUME NEW v \in Variants
    PROVE  Topics[v] = TopicsOf(v, Fields[v], Variables[v], Preview[v], Server[v])
<1> DEFINE T(w) == TopicsOf(w, Fields[w], Variables[w], Preview[w], Server[w])
<1>1. Topics = [w \in Variants |-> Table(T(w))]
  BY TableIsFunction DEF Topics
<1>2. Topics[v] = Table(T(v))
  BY <1>1
<1>3. QED BY <1>2, TableIsFunction

(* An answer is among those it depends on.                                 *)
LEMMA RelatedKeeps ==
    ASSUME NEW fields, NEW S
    PROVE  S \subseteq Related(fields, S)
BY DEF Related

(* A topic has the answers its rules and articles depend on.               *)
LEMMA TopicHas ==
    ASSUME NEW v \in Variants, NEW c \in DOMAIN Topics[v]
    PROVE  DependsOn(v, c, RulesOf(c, Preview[v], Server[v])) \subseteq Topics[v][c]
<1> DEFINE D == DependsOn(v, c, RulesOf(c, Preview[v], Server[v]))
<1>1. Topics[v][c] = Closure(Fields[v], D)
  BY TopicsAre DEF TopicsOf
<1> HIDE DEF D
<1>2. D \subseteq Closure(Fields[v], D)
  BY RelatedKeeps DEF Closure
<1>3. QED BY <1>1, <1>2 DEF D

(* And, for each of them, those that decide whether it is shown and        *)
(* required.                                                               *)
LEMMA TopicRelates ==
    ASSUME NEW v \in Variants, NEW c \in DOMAIN Topics[v],
           NEW k \in Topics[v][c], k \in DOMAIN Fields[v]
    PROVE  Keys(Fields[v][k].shown) \cup Keys(Fields[v][k].need) \subseteq Topics[v][c]
<1>1. Related(Fields[v], Topics[v][c]) = Topics[v][c]
  BY TopicsAreClosed
<1>2. QED BY <1>1 DEF Related

(* The kinds of topic, and what each has.                                  *)
LEMMA TopicKinds ==
    ASSUME NEW v \in Variants, NEW c \in DOMAIN Topics[v]
    PROVE  /\ c[1] \in {"variable", "issued"} => c[2] \in Variables[v]
           /\ c[1] = "answer" => c[2] \in Asked(Fields[v], Preview[v])
           /\ c[1] \in {"variable", "issued", "answer"}
<1>1. DOMAIN Topics[v] = {d \in {"variable", "issued"} \X Variables[v]
                                   \cup {"answer"} \X Asked(Fields[v], Preview[v]) : d[1] \in Kinds}
  BY TopicsAre DEF TopicsOf
<1>2. QED BY <1>1

LEMMA VariableTopic ==
    ASSUME NEW v \in Variants, NEW c \in DOMAIN Topics[v], c[1] \in {"variable", "issued"}
    PROVE  /\ Keys(Where[v][c[2]]) \subseteq Topics[v][c]
           /\ \A r \in Preview[v] : r.base /\ r.var = c[2] => Keys(r.when) \subseteq Topics[v][c]
           /\ c[1] = "issued" =>
                \A r \in Server[v] : r.base /\ r.var = c[2] => Keys(r.when) \subseteq Topics[v][c]
<1> DEFINE R == RulesOf(c, Preview[v], Server[v])
<1>1. Keys(Where[v][c[2]]) \subseteq Topics[v][c]
  BY TopicHas DEF DependsOn
<1>2. \A r \in R : Keys(r.when) \subseteq Topics[v][c]
  BY TopicHas DEF DependsOn
<1>3. \A r \in Preview[v] : r.base /\ r.var = c[2] => r \in R
  BY DEF RulesOf
<1>4. c[1] = "issued" => \A r \in Server[v] : r.base /\ r.var = c[2] => r \in R
  BY DEF RulesOf
<1>5. QED BY <1>1, <1>2, <1>3, <1>4

LEMMA AnswerTopic ==
    ASSUME NEW v \in Variants, NEW c \in DOMAIN Topics[v], c[1] = "answer"
    PROVE  /\ c[2] \in Topics[v][c] /\ c[2] \in DOMAIN Fields[v]
           /\ Keys(Fields[v][c[2]].shown) \subseteq Topics[v][c]
           /\ \A r \in Preview[v] : c[2] \in r.keys =>
                Keys(r.when) \cup Keys(Where[v][r.var]) \subseteq Topics[v][c]
<1> DEFINE R == RulesOf(c, Preview[v], Server[v])
<1>1. c[2] \in Topics[v][c]
  BY TopicHas DEF DependsOn
<1>2. c[2] \in DOMAIN Fields[v]
  BY TopicKinds DEF Asked
<1>3. Keys(Fields[v][c[2]].shown) \subseteq Topics[v][c]
  BY <1>1, <1>2, TopicRelates
<1>4. \A r \in R : Keys(r.when) \cup Keys(Where[v][r.var]) \subseteq Topics[v][c]
  BY TopicHas DEF DependsOn
<1>5. \A r \in Preview[v] : c[2] \in r.keys => r \in R
  BY DEF RulesOf
<1>6. QED BY <1>1, <1>2, <1>3, <1>4, <1>5

-----------------------------------------------------------------------------
(* The text of a valid draft.                                              *)

(* Answers that have what an answer depends on: when it is printed, it is  *)
(* shown.                                                                  *)
LEMMA PrintedIsShown ==
    ASSUME NEW v \in Variants, NEW c \in DOMAIN Topics[v], NEW f,
           Good(v, Topics[v][c], f, c[2] \in StandIns),
           c[1] = "answer", c[2] \notin PrintedThoughHidden,
           PrintedIn(v, Preview[v], c[2], f)
    PROVE  ShownIn(v, c[2], f)
<1>1. PICK r \in Preview[v] : c[2] \in r.keys /\ Holds(r.when, f) /\ Holds(Where[v][r.var], f)
  BY DEF PrintedIn, IncludedIn
<1>2. r \in RulesOf(c, Preview[v], Server[v])
  BY <1>1 DEF RulesOf
<1>3. Follows(v, Topics[v][c], And(r.when, Where[v][r.var]), Fields[v][c[2]].shown,
              c[2] \in StandIns)
  BY <1>2, HiddenAnswersAreGuarded
<1>4. Holds(And(r.when, Where[v][r.var]), f)
  BY <1>1, AndHolds
<1>5. Holds(Fields[v][c[2]].shown, f)
  BY <1>3, <1>4, FollowsHolds
<1>6. QED BY <1>5, AnswerTopic DEF ShownIn

(* Answers that have what a variable depends on: when its article is part  *)
(* of the contract, it has a text.                                         *)
LEMMA IncludedHasText ==
    ASSUME NEW v \in Variants, NEW c \in DOMAIN Topics[v], NEW f,
           Good(v, Topics[v][c], f, TRUE), c[1] = "variable",
           c[2] = "social_content_plan_text" => ShownIn(v, "social_content_plan", f),
           IncludedIn(v, c[2], f)
    PROVE  HasTextIn(Preview[v], c[2], f)
<1> DEFINE R == RulesOf(c, Preview[v], Server[v])
           begun == IF c[2] = "social_content_plan_text"
                    THEN Fields[v]["social_content_plan"].shown ELSE Always
           H == And(Where[v][c[2]], begun)
           T == UNION {r.when : r \in R}
<1>1. Follows(v, Topics[v][c], H, T, TRUE)
  BY VariablesHaveTexts
<1>2. Holds(Always, f)
  BY DEF Holds, Always
<1>3. Holds(begun, f)
  BY <1>2 DEF ShownIn
<1> HIDE DEF begun
<1>4. Holds(H, f)
  BY <1>3, AndHolds DEF IncludedIn
<1> HIDE DEF H, T
<1>5. Holds(T, f)
  BY <1>1, <1>4, FollowsHolds
<1>6. PICK r \in R : Holds(r.when, f)
  <2>1. \E d \in {r.when : r \in R} : Holds(d, f)
    BY <1>5, UnionHolds DEF T
  <2>2. QED BY <2>1
<1>7. r \in Preview[v] /\ r.base /\ r.var = c[2]
  BY <1>6 DEF RulesOf
<1>8. QED BY <1>6, <1>7 DEF HasTextIn

(* Answers that have what a written answer depends on: when it is shown    *)
(* and given, it is printed.                                               *)
LEMMA WrittenIsPrinted ==
    ASSUME NEW v \in Variants, NEW c \in DOMAIN Topics[v], NEW f,
           Good(v, Topics[v][c], f, TRUE), c[1] = "answer",
           Written(Fields[v][c[2]]), c[2] \notin AskedInVain \cup SigningWitness,
           ShownIn(v, c[2], f), Answer(f, c[2]) \notin Blanks
    PROVE  PrintedIn(v, Preview[v], c[2], f)
<1> DEFINE R == RulesOf(c, Preview[v], Server[v])
           H == And(Fields[v][c[2]].shown, Filled(c[2]))
           T == UNION {And(r.when, Where[v][r.var]) : r \in R}
<1>1. Follows(v, Topics[v][c], H, T, TRUE)
  BY AnswersArePrinted
<1>2. Holds(Filled(c[2]), f)
  <2>1. Atom(<<c[2], "filled", "">>, f)
    BY DEF Atom, Blanks
  <2>2. QED BY <2>1 DEF Holds, Filled
<1>3. Holds(H, f)
  BY <1>2, AndHolds DEF ShownIn
<1> HIDE DEF H, T
<1>4. Holds(T, f)
  BY <1>1, <1>3, FollowsHolds
<1>5. PICK r \in R : Holds(And(r.when, Where[v][r.var]), f)
  <2>1. \E d \in {And(r.when, Where[v][r.var]) : r \in R} : Holds(d, f)
    BY <1>4, UnionHolds DEF T
  <2>2. QED BY <2>1
<1>6. Holds(r.when, f) /\ Holds(Where[v][r.var], f)
  BY <1>5, AndHolds
<1>7. r \in Preview[v] /\ c[2] \in r.keys
  BY <1>5 DEF RulesOf
<1>8. QED BY <1>6, <1>7 DEF PrintedIn, IncludedIn

(* The answers of a topic, of a valid draft.                               *)
LEMMA TopicIsGood ==
    ASSUME TypeOK, Valid, NEW earnest, earnest => Earnest
    PROVE  Good(variant, Topics[variant][topic], answers, earnest)
BY DEF TypeOK, Valid, Good, Answer, Earnest

(* The wizard keeps the answers to fields that a later answer hides; when  *)
(* the draft is valid, the preview prints none of them, but for the named  *)
(* ones and for a name that stands in for an answer of spaces              *)
(* (setFieldValue, renderLegalClauses).                                    *)
THEOREM HiddenAnswersStayOut == Spec => []HiddenAnswerStaysOut
<1>1. TypeOK => HiddenAnswerStaysOut
  <2> SUFFICES ASSUME TypeOK, topic[1] = "answer", topic[2] \notin PrintedThoughHidden, Valid,
                      topic[2] \in StandIns => Earnest, Printed(Preview[variant], topic[2])
               PROVE  Shown(topic[2])
    BY DEF HiddenAnswerStaysOut
  <2>1. variant \in Variants /\ topic \in DOMAIN Topics[variant]
    BY DEF TypeOK
  <2>2. QED BY <2>1, TopicIsGood, PrintedIsShown DEF Shown, Printed
<1>2. QED BY <1>1, AnswersAreTyped, PTL

(* A draft that the wizard finds complete has no placeholder in its text:  *)
(* each variable of an article that is part of the contract has a text,    *)
(* unless a required answer is made of spaces, an amount in a list is zero,*)
(* or a plan of content was begun and hidden (validateDynamicDefinition,   *)
(* renderLegalClauses).                                                    *)
THEOREM ValidDraftsAreComplete == Spec => []ValidDraftIsComplete
<1>1. TypeOK => ValidDraftIsComplete
  <2> SUFFICES ASSUME TypeOK, topic[1] = "variable", Valid, Earnest, ~KeptPlan(topic[2]),
                      Included(topic[2])
               PROVE  HasText(Preview[variant], topic[2])
    BY DEF ValidDraftIsComplete
  <2>1. variant \in Variants /\ topic \in DOMAIN Topics[variant]
    BY DEF TypeOK
  <2>2. topic[2] = "social_content_plan_text" => ShownIn(variant, "social_content_plan", answers)
    BY DEF KeptPlan, Shown
  <2>3. QED BY <2>1, <2>2, TopicIsGood, IncludedHasText DEF Included, HasText
<1>2. QED BY <1>1, AnswersAreTyped, PTL

(* What a customer wrote in a field that the wizard shows, spaces apart, is*)
(* in the text of a valid draft, but for what is asked in vain and the     *)
(* witnesses, and unless a required answer is made of spaces or an amount  *)
(* in a list is zero (validateDynamicDefinition, renderLegalClauses).      *)
THEOREM WrittenAnswersArePrinted == Spec => []WrittenAnswerIsPrinted
<1>1. TypeOK => WrittenAnswerIsPrinted
  <2> SUFFICES ASSUME TypeOK, topic[1] = "answer", Written(Fields[variant][topic[2]]),
                      Shown(topic[2]), answers[topic[2]] \notin Blanks, Valid, Earnest,
                      topic[2] \notin AskedInVain \cup SigningWitness
               PROVE  Printed(Preview[variant], topic[2])
    BY DEF WrittenAnswerIsPrinted
  <2>1. /\ variant \in Variants /\ topic \in DOMAIN Topics[variant]
        /\ DOMAIN answers = Topics[variant][topic]
    BY DEF TypeOK
  <2>2. Answer(answers, topic[2]) \notin Blanks
    BY <2>1, AnswerTopic DEF Answer
  <2>3. QED BY <2>1, <2>2, TopicIsGood, WrittenIsPrinted DEF Shown, Printed
<1>2. QED BY <1>1, AnswersAreTyped, PTL

-----------------------------------------------------------------------------
(* The whole draft.                                                        *)

DraftInv ==
    /\ variant \in Variants /\ topic \in DOMAIN Topics[variant]
    /\ DOMAIN draft = DraftKeys(variant) /\ Typed(variant, draft)
    /\ answers = View(variant, topic, draft)

LEMMA DraftInit_Inv == DraftInit => DraftInv /\ Init
<1> SUFFICES ASSUME DraftInit PROVE DraftInv /\ Init
  OBVIOUS
<1>1. PICK v \in Variants : \E c \in DOMAIN Topics[v] :
        /\ variant = v /\ topic = c
        /\ draft = StartsAt(DraftKeys(v), Defaults(v)) /\ answers = View(v, c, draft)
  BY DEF DraftInit
<1>2. DOMAIN draft = DraftKeys(v) /\ Typed(v, draft)
  BY <1>1, StartIsTyped
<1>3. answers = StartsAt(Topics[v][topic], Defaults(v))
  <2>1. ASSUME NEW k \in Topics[v][topic]
        PROVE  Answer(draft, k) = IF k \in DOMAIN Defaults(v) THEN Defaults(v)[k] ELSE ""
    BY <1>1, <1>2 DEF Answer, StartsAt, DraftKeys
  <2>2. QED BY <1>1, <2>1 DEF View, StartsAt
<1>4. QED BY <1>1, <1>2, <1>3 DEF DraftInv, Init

(* Answering a field of the whole draft answers it in the topic, when the  *)
(* topic has it, and leaves the topic alone when it has not.               *)
LEMMA DraftStep == DraftInv /\ [DraftNext]_draftVars => DraftInv' /\ [Next]_vars
<1> SUFFICES ASSUME DraftInv, [DraftNext]_draftVars PROVE DraftInv' /\ [Next]_vars
  OBVIOUS
<1>1. CASE UNCHANGED draftVars
  BY <1>1 DEF DraftInv, draftVars, vars
<1>2. ASSUME NEW k, AnswerField(k)
      PROVE  DraftInv' /\ [Next]_vars
  <2>1. /\ ShownIn(variant, k, draft) /\ k \in DOMAIN Fields[variant]
        /\ variant' = variant /\ topic' = topic
        /\ answers' = View(variant, topic, draft') /\ answers = View(variant, topic, draft)
    BY <1>2 DEF AnswerField, ShownIn, DraftInv
  <2>2. PICK x \in Fields[variant][k].kind.values \ {draft[k]} :
            WithinBound(draft, k, x) /\ draft' = [draft EXCEPT ![k] = x]
    BY <1>2 DEF AnswerField
  <2>3. variant \in Variants /\ topic \in DOMAIN Topics[variant] /\ Typed(variant, draft)
        /\ DOMAIN draft = DraftKeys(variant) /\ k \in DOMAIN draft
    BY <2>1 DEF DraftInv, DraftKeys
  <2>4. DraftInv'
    BY <2>1, <2>2, <2>3, AnswerIsTyped DEF DraftInv
  <2>5. \A j : Answer(draft', j) = IF j = k THEN x ELSE Answer(draft, j)
    BY <2>2, <2>3 DEF Answer
  <2>6. CASE k \in Topics[variant][topic]
    <3>1. Keys(Fields[variant][k].shown) \subseteq Topics[variant][topic]
      BY <2>1, <2>3, <2>6, TopicRelates
    <3>2. \A j \in Topics[variant][topic] : Answer(answers, j) = Answer(draft, j)
      BY <2>1 DEF View, Answer
    <3>3. Shown(k)
      BY <2>1, <3>1, <3>2, SameAnswers DEF Shown, ShownIn
    <3>4. answers' = [answers EXCEPT ![k] = x] /\ k \in DOMAIN answers /\ answers[k] = draft[k]
      BY <2>1, <2>3, <2>5, <2>6 DEF View, Answer
    <3>5. WithinBound(answers, k, x)
      BY <2>1, <2>2 DEF WithinBound, View, Answer
    <3>6. SetFieldValue(k)
      BY <2>1, <2>2, <3>3, <3>4, <3>5 DEF SetFieldValue
    <3>7. QED BY <2>4, <3>4, <3>6 DEF Next
  <2>7. CASE k \notin Topics[variant][topic]
    <3>1. answers' = answers
      BY <2>1, <2>5, <2>7 DEF View
    <3>2. QED BY <2>1, <2>4, <3>1 DEF vars
  <2>8. QED BY <2>6, <2>7
<1>3. QED BY <1>1, <1>2 DEF DraftNext

LEMMA DraftInvariant == DraftSpec => []DraftInv
BY DraftInit_Inv, DraftStep, PTL DEF DraftSpec

(* A topic is a view of the whole draft: however the whole draft is        *)
(* answered, its answers of the topic are a behaviour of the model that    *)
(* enumerates the topic alone.                                             *)
THEOREM TopicIsAView == DraftSpec => Spec
<1>1. QED BY DraftInit_Inv, DraftStep, DraftInvariant, PTL DEF DraftSpec, Spec

(* The whole of a valid draft has what every topic of it needs.            *)
LEMMA DraftIsGood ==
    ASSUME DraftInv, ValidIn(variant, draft), NEW c \in DOMAIN Topics[variant],
           NEW earnest, earnest => InEarnest(variant, draft)
    PROVE  /\ variant \in Variants
           /\ Good(variant, Topics[variant][c], draft, earnest)
<1>1. variant \in Variants /\ DOMAIN draft = DraftKeys(variant) /\ Typed(variant, draft)
  BY DEF DraftInv
<1>2. \A k : Answer(draft, k) \in Values(variant, k)
  BY <1>1 DEF Answer, Typed, DraftKeys, Values
<1>3. DOMAIN Fields[variant] \subseteq DOMAIN draft
  BY <1>1 DEF DraftKeys
<1>4. QED BY <1>1, <1>2, <1>3 DEF Good

(* No valid draft prints an answer that it does not show, whatever the     *)
(* order of the answers, but for the named ones and for a name that stands *)
(* in for an answer of spaces (setFieldValue, renderLegalClauses).         *)
THEOREM NoHiddenAnswerInADraft == DraftSpec => []NoHiddenAnswerIsPrinted
<1>1. DraftInv => NoHiddenAnswerIsPrinted
  BY DraftIsGood, PrintedIsShown DEF NoHiddenAnswerIsPrinted
<1>2. QED BY <1>1, DraftInvariant, PTL

(* A valid draft in which no required answer is made of spaces and no      *)
(* amount in a list is zero has no placeholder for a missing answer in its *)
(* text and drops nothing a customer wrote, but for the named cases        *)
(* (validateDynamicDefinition, renderLegalClauses).                        *)
THEOREM ValidDraftsHaveTheirText == DraftSpec => []DraftHasItsText
<1>1. DraftInv => DraftHasItsText
  <2> SUFFICES ASSUME DraftInv, ValidIn(variant, draft), InEarnest(variant, draft),
                      NEW c \in DOMAIN Topics[variant]
               PROVE  /\ NoPlaceholder(c)
                      /\ NothingDropped(c)
    BY DEF DraftHasItsText
  <2>1. variant \in Variants /\ Good(variant, Topics[variant][c], draft, TRUE)
    BY DraftIsGood
  <2>2. NoPlaceholder(c)
    BY <2>1, IncludedHasText DEF NoPlaceholder
  <2>3. NothingDropped(c)
    BY <2>1, WrittenIsPrinted DEF NothingDropped
  <2>4. QED BY <2>2, <2>3
<1>2. QED BY <1>1, DraftInvariant, PTL

(* What the engines make of a whole draft and of its view of a topic.      *)
LEMMA ViewAgrees ==
    ASSUME NEW v \in Variants, NEW t \in DOMAIN Topics[v], NEW f, NEW c, Keys(c) \subseteq Topics[v][t]
    PROVE  Holds(c, f) <=> Holds(c, View(v, t, f))
<1>1. \A k \in Topics[v][t] : Answer(View(v, t, f), k) = Answer(f, k)
  BY DEF View, Answer
<1>2. QED BY <1>1, SameAnswers

LEMMA ValidView ==
    ASSUME NEW v \in Variants, NEW t \in DOMAIN Topics[v], NEW f,
           DOMAIN Fields[v] \subseteq DOMAIN f, ValidIn(v, f)
    PROVE  ValidIn(v, View(v, t, f))
<1> DEFINE g == View(v, t, f)
<1>1. DOMAIN g = Topics[v][t]
  BY DEF View
<1>2. ASSUME NEW k \in DOMAIN g, ShownIn(v, k, g)
      PROVE  ~Issue(Fields[v][k], g)
  <2>1. /\ k \in DOMAIN Fields[v] /\ k \in DOMAIN f /\ k \in Topics[v][t] /\ Fields[v][k].key = k
        /\ Holds(Fields[v][k].shown, g)
    BY <1>1, <1>2, FieldKey DEF ShownIn
  <2>2. Keys(Fields[v][k].shown) \cup Keys(Fields[v][k].need) \subseteq Topics[v][t]
    BY <2>1, TopicRelates
  <2>3. g[k] = f[k]
    BY <2>1 DEF View, Answer
  <2>4. Holds(Fields[v][k].shown, f) /\ (Holds(Fields[v][k].need, f) <=> Holds(Fields[v][k].need, g))
    BY <2>1, <2>2, ViewAgrees
  <2>5. ~Issue(Fields[v][k], f)
    BY <2>1, <2>4 DEF ValidIn, ShownIn
  <2>6. QED BY <2>1, <2>3, <2>4, <2>5 DEF Issue
<1>3. ASSUME Keys(Together(v)) \subseteq DOMAIN g
      PROVE  Holds(Together(v), g)
  <2>1. Holds(Together(v), f)
    BY TogetherIsAsked DEF ValidIn
  <2>2. QED BY <1>1, <1>3, <2>1, ViewAgrees
<1>4. QED BY <1>2, <1>3 DEF ValidIn

LEMMA TextView ==
    ASSUME NEW v \in Variants, NEW t \in DOMAIN Topics[v], NEW f, NEW rules, NEW x,
           \A r \in rules : r.base /\ r.var = x => Keys(r.when) \subseteq Topics[v][t]
    PROVE  HasTextIn(rules, x, f) <=> HasTextIn(rules, x, View(v, t, f))
BY ViewAgrees DEF HasTextIn

LEMMA PrintedView ==
    ASSUME NEW v \in Variants, NEW t \in DOMAIN Topics[v], NEW f, NEW rules, NEW k,
           \A r \in rules : k \in r.keys =>
              Keys(r.when) \cup Keys(Where[v][r.var]) \subseteq Topics[v][t]
    PROVE  PrintedIn(v, rules, k, f) <=> PrintedIn(v, rules, k, View(v, t, f))
<1>1. ASSUME NEW r \in rules, k \in r.keys
      PROVE  /\ Holds(r.when, f) <=> Holds(r.when, View(v, t, f))
             /\ Holds(Where[v][r.var], f) <=> Holds(Where[v][r.var], View(v, t, f))
  BY <1>1, ViewAgrees
<1>2. QED BY <1>1 DEF PrintedIn, IncludedIn

(* The engines make of a topic what they make of it in the whole draft:    *)
(* the properties of LegalText, checked topic by topic, hold of the whole  *)
(* draft.                                                                  *)
THEOREM TopicsDecideTheDraft == DraftSpec => []TopicDecides
<1>1. DraftInv => TopicDecides
  <2> SUFFICES ASSUME DraftInv PROVE TopicDecides
    OBVIOUS
  <2> DEFINE x == topic[2]
  <2>1. /\ variant \in Variants /\ topic \in DOMAIN Topics[variant]
        /\ answers = View(variant, topic, draft) /\ DOMAIN Fields[variant] \subseteq DOMAIN draft
    BY DEF DraftInv, DraftKeys
  <2>2. ValidIn(variant, draft) => Valid
    BY <2>1, ValidView DEF Valid
  <2>3. ASSUME topic[1] \in {"variable", "issued"}
        PROVE  /\ IncludedIn(variant, x, draft) <=> Included(x)
               /\ HasTextIn(Preview[variant], x, draft) <=> HasText(Preview[variant], x)
    <3>1. IncludedIn(variant, x, draft) <=> Included(x)
      BY <2>1, <2>3, VariableTopic, ViewAgrees DEF IncludedIn, Included
    <3>2. HasTextIn(Preview[variant], x, draft) <=> HasText(Preview[variant], x)
      BY <2>1, <2>3, VariableTopic, TextView DEF HasText
    <3>3. QED BY <3>1, <3>2
  <2>4. ASSUME topic[1] = "issued"
        PROVE  HasTextIn(Server[variant], x, draft) <=> HasText(Server[variant], x)
    BY <2>1, <2>4, VariableTopic, TextView DEF HasText
  <2>5. ASSUME topic[1] = "answer"
        PROVE  /\ ShownIn(variant, x, draft) <=> Shown(x)
               /\ PrintedIn(variant, Preview[variant], x, draft) <=> Printed(Preview[variant], x)
    <3>1. ShownIn(variant, x, draft) <=> Shown(x)
      BY <2>1, <2>5, AnswerTopic, ViewAgrees DEF ShownIn, Shown
    <3>2. PrintedIn(variant, Preview[variant], x, draft) <=> Printed(Preview[variant], x)
      BY <2>1, <2>5, AnswerTopic, PrintedView DEF Printed
    <3>3. QED BY <3>1, <3>2
  <2>6. QED BY <2>2, <2>3, <2>4, <2>5 DEF TopicDecides
<1>2. QED BY <1>1, DraftInvariant, PTL

=============================================================================
