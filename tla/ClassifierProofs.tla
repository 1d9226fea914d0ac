--------------------------- MODULE ClassifierProofs -------------------------
(***************************************************************************)
(* The loop of Classify over the query's rows implements RulePrecedence,    *)
(* for any table of rules.                                                  *)
(*                                                                          *)
(* Three facts meet: the score orders rules by priority and then by         *)
(* specificity, because a specificity bonus is less than one step of        *)
(* priority (ScoreOrder); the loop keeps the earliest match of the highest  *)
(* score (LoopKeepsBest); and among rules of one scope and one priority     *)
(* earlier in the query's result means older (ORDER BY ... id).             *)
(***************************************************************************)
EXTENDS Classifier, FiniteSetTheorems, SequenceTheorems, TLAPS

\* What the query returned: every listed rule, in order.
ListsRules ==
  /\ \A m \in 1 .. Len(rows) : rows[m] \in Listed
  /\ \A i \in Listed : \E m \in 1 .. Len(rows) : rows[m] = i
  /\ \A m, n \in 1 .. Len(rows) : m < n => Before(rows[m], rows[n])

BeforeQuery ==
  /\ rows = <<>>
  /\ next = 1
  /\ \A s \in Scopes : best[s] = NoMatch

ChoiceInv ==
  /\ TypeOK
  /\ pc = "query" => BeforeQuery
  /\ pc # "query" => ListsRules
  /\ pc # "done" => result = Undecided
  /\ LoopKeepsBest

-----------------------------------------------------------------------------
(* Scores *)

LEMMA BonusRange ==
  ASSUME NEW rule
  PROVE  SpecificityBonus(rule) \in 0 .. 70
<1>1. rule.operator = "equals" \/ rule.operator # "equals"
  OBVIOUS
<1>2. CASE rule.ruleType \in RuleTypes
  BY <1>1, <1>2 DEF SpecificityBonus, RuleTypes
<1>3. CASE rule.ruleType \notin RuleTypes
  BY <1>1, <1>3 DEF SpecificityBonus, RuleTypes
<1> QED BY <1>2, <1>3

\* A number below 1000 never outweighs a step of 1000.
LEMMA ThousandsFirst ==
  ASSUME NEW p \in Int, NEW q \in Int, NEW s \in 0 .. 70, NEW t \in 0 .. 70
  PROVE  /\ (p * 1000 + s > q * 1000 + t) <=> (p > q \/ (p = q /\ s > t))
         /\ (p * 1000 + s = q * 1000 + t) <=> (p = q /\ s = t)
<1>1. CASE p = q
  BY <1>1
<1>2. CASE p > q
  <2>1. p >= q + 1
    BY <1>2
  <2>2. p * 1000 >= q * 1000 + 1000
    BY <2>1
  <2> QED BY <1>2, <2>2
<1>3. CASE p < q
  <2>1. q >= p + 1
    BY <1>3
  <2>2. q * 1000 >= p * 1000 + 1000
    BY <2>1
  <2> QED BY <1>3, <2>2
<1> QED BY <1>1, <1>2, <1>3

\* The score orders rules by priority first and by specificity second.
LEMMA ScoreOrder ==
  ASSUME NEW a \in UserRule, NEW b \in UserRule
  PROVE  /\ ScoreRule(a) \in Int
         /\ (ScoreRule(a) > ScoreRule(b)) <=>
              \/ a.priority > b.priority
              \/ /\ a.priority = b.priority
                 /\ SpecificityBonus(a) > SpecificityBonus(b)
         /\ (ScoreRule(a) = ScoreRule(b)) <=>
              /\ a.priority = b.priority
              /\ SpecificityBonus(a) = SpecificityBonus(b)
<1> DEFINE p == a.priority
           q == b.priority
           s == SpecificityBonus(a)
           t == SpecificityBonus(b)
<1>1. p \in Int /\ q \in Int
  BY DEF UserRule
<1>2. s \in 0 .. 70 /\ t \in 0 .. 70
  BY BonusRange
<1>3. ScoreRule(a) = p * 1000 + s /\ ScoreRule(b) = q * 1000 + t
  BY DEF ScoreRule
<1> HIDE DEF p, q, s, t
<1>4. ScoreRule(a) \in Int
  BY <1>1, <1>2, <1>3
<1>5. /\ (ScoreRule(a) > ScoreRule(b)) <=> (p > q \/ (p = q /\ s > t))
      /\ (ScoreRule(a) = ScoreRule(b)) <=> (p = q /\ s = t)
  <2> HIDE DEF ScoreRule
  <2> QED BY <1>1, <1>2, <1>3, ThousandsFirst
<1> QED BY <1>4, <1>5 DEF p, q, s, t

\* So a confidence band of the score is a band of the priority.
LEMMA ConfidenceByPriority ==
  ASSUME NEW a \in UserRule
  PROVE  /\ ConfidenceFromScore(ScoreRule(a))
              = Precedence!ConfidenceOf(a.priority)
         /\ ConfidenceFromScore(ScoreRule(a)) \in Confidences
<1>1. a.priority \in Int
  BY DEF UserRule
<1> QED BY <1>1, BonusRange
          DEF ScoreRule, ConfidenceFromScore, Precedence!ConfidenceOf,
              Confidences

LEMMA MatchType ==
  ASSUME NEW a \in UserRule, Matches(a)
  PROVE  [label |-> a.label, score |-> ScoreRule(a)] \in MatchResult
<1>1. a.priority \in Nat /\ a.label \in TargetLabels
  <2>1. a.priority \in Int /\ a.label \in TargetLabels \cup {Blank}
    BY DEF UserRule
  <2>2. a.priority >= 0 /\ a.label # Blank
    BY DEF Matches
  <2>3. a.label \in TargetLabels
    BY <2>1, <2>2
  <2> QED BY <2>1, <2>2, <2>3
<1>2. ScoreRule(a) \in Nat
  BY <1>1, BonusRange DEF ScoreRule
<1> QED BY <1>1, <1>2 DEF MatchResult

LEMMA RowType ==
  ASSUME TypeOK, NEW i \in DOMAIN userRules
  PROVE  userRules[i] \in UserRule
BY UserRulesAssumption DEF TypeOK

-----------------------------------------------------------------------------
(* Steps *)

LEMMA QueryStep ==
  ASSUME ChoiceInv, QueryRules
  PROVE  ChoiceInv'
<1> USE DEF ChoiceInv
<1>1. BeforeQuery /\ result = Undecided
  BY DEF QueryRules
<1>2. PICK s \in [1 .. Cardinality(Listed) -> Listed] :
        /\ \A i \in Listed : \E m \in DOMAIN s : s[m] = i
        /\ \A m, n \in DOMAIN s : m < n => Before(s[m], s[n])
        /\ rows' = s
  BY DEF QueryRules
<1>3. Listed \subseteq DOMAIN userRules /\ Cardinality(Listed) \in Nat
  <2>1. Listed \subseteq Ids
    BY DEF Listed, TypeOK
  <2> QED BY <2>1, UserRulesAssumption, FS_Subset, FS_CardinalityType DEF Listed
<1>4. rows' \in Seq(DOMAIN userRules) /\ DOMAIN rows' = 1 .. Len(rows')
  BY <1>2, <1>3
<1>5. Len(rows') \in Nat
  BY <1>4, LenProperties
<1>6. TypeOK'
  BY <1>1, <1>4, <1>5 DEF TypeOK, QueryRules, BeforeQuery
<1>7. UNCHANGED <<userRules, next, best, result>> /\ pc' = "match"
  BY DEF QueryRules
<1>8. ListsRules'
  <2>1. Listed' = Listed /\ \A i, j : Before(i, j)' <=> Before(i, j)
    BY <1>7 DEF Listed, Before
  <2>2. DOMAIN s = 1 .. Len(rows')
    BY <1>2, <1>4
  <2>3. \A m \in 1 .. Len(rows') : rows'[m] \in Listed
    BY <1>2, <2>2
  <2>4. \A i \in Listed : \E m \in 1 .. Len(rows') : rows'[m] = i
    BY <1>2, <2>2
  <2>5. \A m, n \in 1 .. Len(rows') : m < n => Before(rows'[m], rows'[n])
    BY <1>2, <2>2
  <2> QED BY <1>7, <2>1, <2>3, <2>4, <2>5 DEF ListsRules, Listed, Before
<1>9. LoopKeepsBest'
  BY <1>1, <1>7 DEF LoopKeepsBest, BeforeQuery
<1> QED BY <1>1, <1>6, <1>7, <1>8, <1>9

LEMMA ConsiderStep ==
  ASSUME ChoiceInv, ConsiderRule
  PROVE  ChoiceInv'
<1> DEFINE rule  == userRules[rows[next]]
           scope == RuleScope(rule)
           match == [label |-> rule.label, score |-> ScoreRule(rule)]
           seen(s) == {m \in 1 .. next - 1 : MatchAt(m, s)}
<1> USE DEF ChoiceInv
<1>1. /\ next \in 1 .. Len(rows) /\ next \in Nat
      /\ rows[next] \in DOMAIN userRules
      /\ pc = "match"
  BY LenProperties, ElementOfSeq DEF ConsiderRule, TypeOK
<1>2. rule \in UserRule /\ rule.enabled
  BY <1>1, RowType DEF ListsRules, Listed
<1>3. scope \in Scopes
  BY DEF RuleScope, Scopes
<1>4. /\ UNCHANGED <<userRules, pc, rows, result>>
      /\ next' = next + 1
      /\ best' = IF Matches(rule) /\ Improves(match, scope)
                   THEN [best EXCEPT ![scope] = match] ELSE best
  BY <1>2 DEF ConsiderRule
<1>5. Matches(rule) => match \in MatchResult /\ match # NoMatch
  BY <1>2, MatchType, ClassifierAssumption
<1>6. TypeOK'
  <2>1. best' \in [Scopes -> MatchResult \cup {NoMatch}]
    <3> HIDE DEF match
    <3> QED BY <1>3, <1>4, <1>5 DEF TypeOK
  <2>2. next' \in 1 .. Len(rows) + 1
    BY <1>1, <1>4, LenProperties DEF TypeOK
  <2> QED BY <1>4, <2>1, <2>2 DEF TypeOK
<1>7. ListsRules'
  BY <1>1, <1>4 DEF ListsRules, Before, Listed
<1>8. LoopKeepsBest'
  <2> SUFFICES ASSUME NEW s \in Scopes
               PROVE  LET now == {m \in 1 .. next' - 1 : MatchAt(m, s)'} IN
                      IF best'[s] = NoMatch THEN now = {}
                      ELSE \E m \in now :
                             /\ best'[s].label = userRules[rows[m]].label
                             /\ best'[s].score = ScoreRule(userRules[rows[m]])
                             /\ \A n \in now :
                                  LET score == ScoreRule(userRules[rows[n]]) IN
                                  /\ score <= best'[s].score
                                  /\ n < m => score < best'[s].score
    BY <1>4 DEF LoopKeepsBest
  <2> DEFINE now == {m \in 1 .. next' - 1 : MatchAt(m, s)'}
  <2>1. \A m : MatchAt(m, s)' <=> MatchAt(m, s)
    BY <1>4 DEF MatchAt
  <2>2. \A m : m \in now <=> m \in seen(s) \/ (m = next /\ MatchAt(next, s))
    BY <1>1, <1>4, <2>1
  <2>3. MatchAt(next, s) <=> scope = s /\ Matches(rule)
    BY DEF MatchAt
  <2>4. \A m \in seen(s) : /\ m \in Nat /\ m < next
                           /\ ScoreRule(userRules[rows[m]]) \in Int
    <3> SUFFICES ASSUME NEW m \in seen(s)
                 PROVE  /\ m \in Nat /\ m < next
                        /\ ScoreRule(userRules[rows[m]]) \in Int
      OBVIOUS
    <3>1. m \in 1 .. Len(rows) /\ m < next
      BY <1>1, LenProperties DEF TypeOK
    <3>2. rows[m] \in DOMAIN userRules
      BY <3>1, ElementOfSeq DEF TypeOK
    <3> QED BY <3>1, <3>2, RowType, ScoreOrder
  <2>5. CASE ~MatchAt(next, s)
    <3>1. now = seen(s)
      BY <2>2, <2>5
    <3>2. best'[s] = best[s]
      <4> HIDE DEF match
      <4> QED BY <1>3, <1>4, <2>3, <2>5 DEF TypeOK
    <3> QED BY <1>4, <3>1, <3>2 DEF LoopKeepsBest
  <2>6. CASE MatchAt(next, s) /\ Improves(match, s)
    <3>1. best'[s] = match
      <4> HIDE DEF match
      <4> QED BY <1>3, <1>4, <2>3, <2>6 DEF TypeOK
    <3>2. /\ match.label = rule.label /\ match.score = ScoreRule(rule)
          /\ match.score \in Int /\ match # NoMatch
      BY <1>2, <1>5, <2>3, <2>6, ScoreOrder
    <3>3. \A n \in seen(s) : ScoreRule(userRules[rows[n]]) < match.score
      <4>1. CASE best[s] = NoMatch
        BY <4>1 DEF LoopKeepsBest
      <4>2. CASE best[s] # NoMatch
        <5>1. best[s].score \in Int
          BY <4>2 DEF TypeOK, MatchResult
        <5> QED BY <2>4, <2>6, <3>2, <4>2, <5>1 DEF LoopKeepsBest, Improves
      <4> QED BY <4>1, <4>2
    <3>4. next \in now
      BY <2>2, <2>6
    <3> HIDE DEF match
    <3>5. /\ best'[s].label = userRules[rows[next]].label
          /\ best'[s].score = ScoreRule(userRules[rows[next]])
      BY <3>1, <3>2
    <3>6. \A n \in now :
            /\ ScoreRule(userRules[rows[n]]) <= best'[s].score
            /\ n < next => ScoreRule(userRules[rows[n]]) < best'[s].score
      BY <1>1, <2>2, <2>4, <3>1, <3>2, <3>3
    <3> QED BY <3>1, <3>2, <3>4, <3>5, <3>6
  <2>7. CASE MatchAt(next, s) /\ ~Improves(match, s)
    <3>1. best'[s] = best[s] /\ best[s] # NoMatch
      <4> HIDE DEF match
      <4> QED BY <1>4, <2>3, <2>7 DEF Improves
    <3>2. best[s].score \in Int /\ ScoreRule(rule) \in Int
      BY <1>2, <3>1, ScoreOrder DEF TypeOK, MatchResult
    <3>3. ScoreRule(rule) <= best[s].score
      BY <2>7, <3>2 DEF Improves
    <3>4. PICK m \in seen(s) :
            /\ best[s].label = userRules[rows[m]].label
            /\ best[s].score = ScoreRule(userRules[rows[m]])
            /\ \A n \in seen(s) :
                 /\ ScoreRule(userRules[rows[n]]) <= best[s].score
                 /\ n < m => ScoreRule(userRules[rows[n]]) < best[s].score
      BY <3>1 DEF LoopKeepsBest
    <3>5. m \in now /\ m < next /\ m \in Nat
      BY <2>2, <2>4
    <3>6. \A n \in now :
            /\ ScoreRule(userRules[rows[n]]) <= best[s].score
            /\ n < m => ScoreRule(userRules[rows[n]]) < best[s].score
      BY <1>1, <2>2, <2>4, <3>3, <3>4, <3>5
    <3> QED BY <3>1, <3>4, <3>5, <3>6
  <2> QED BY <2>5, <2>6, <2>7
<1> QED BY <1>1, <1>4, <1>6, <1>7, <1>8

LEMMA ReturnStep ==
  ASSUME ChoiceInv, ReturnBest
  PROVE  ChoiceInv'
<1> DEFINE chosen == IF best["user_specific"] # NoMatch
                       THEN best["user_specific"] ELSE best["global"]
<1> USE DEF ChoiceInv
<1>1. /\ UNCHANGED <<userRules, rows, next, best>> /\ pc' = "done"
      /\ pc = "match"
      /\ result' = IF chosen = NoMatch
                     THEN [label |-> Unknown, confidence |-> 50]
                     ELSE [label |-> chosen.label,
                           confidence |-> ConfidenceFromScore(chosen.score)]
  BY DEF ReturnBest
<1>2. chosen \in MatchResult \cup {NoMatch}
  BY DEF TypeOK, Scopes
<1>3. result' \in Result
  BY <1>1, <1>2, UserRulesAssumption
     DEF Result, MatchResult, Confidences, ConfidenceFromScore
<1>4. TypeOK'
  BY <1>1, <1>3 DEF TypeOK
<1>5. ListsRules' /\ LoopKeepsBest'
  BY <1>1 DEF ListsRules, Before, Listed, LoopKeepsBest, MatchAt
<1> QED BY <1>1, <1>4, <1>5

LEMMA ChoiceInvInit == Init => ChoiceInv
<1> SUFFICES ASSUME Init PROVE ChoiceInv
  OBVIOUS
<1>1. TypeOK
  BY EmptySeq DEF Init, TypeOK
<1>2. LoopKeepsBest
  BY DEF Init, LoopKeepsBest
<1> QED BY <1>1, <1>2 DEF Init, ChoiceInv, BeforeQuery

LEMMA ChoiceInvNext == ChoiceInv /\ [Next]_vars => ChoiceInv'
<1>1. ASSUME ChoiceInv, UNCHANGED vars
      PROVE  ChoiceInv'
  BY <1>1 DEF vars, ChoiceInv, TypeOK, BeforeQuery, ListsRules, Before, Listed,
     LoopKeepsBest, MatchAt
<1> QED BY <1>1, QueryStep, ConsiderStep, ReturnStep DEF Next

-----------------------------------------------------------------------------
(* The choice *)

\* The rules that match in a scope are the listed ones that match in it.
LEMMA MatchingAreListed ==
  ASSUME TypeOK, NEW scope \in Scopes, NEW i
  PROVE  i \in Precedence!MatchingIds(scope) <=>
           /\ i \in Listed
           /\ RuleScope(userRules[i]) = scope
           /\ Matches(userRules[i])
<1>1. i \in DOMAIN userRules => userRules[i].owner \in {"user", "other", "global"}
  BY RowType DEF UserRule
<1>2. /\ Precedence!RuleScope(userRules[i]) = RuleScope(userRules[i])
      /\ Precedence!Matches(userRules[i]) <=> Matches(userRules[i])
  BY DEF RuleScope, Precedence!RuleScope, Matches, Precedence!Matches,
         OperatorMatches, Precedence!OperatorMatches,
         RuleTypes, Precedence!RuleTypes
<1> QED BY <1>1, <1>2 DEF Precedence!MatchingIds, Listed

\* When the loop is over, a scope has a best match exactly when a rule matches
\* in it, and it is the match of the rule that takes precedence in the scope.
LEMMA BestOfScope ==
  ASSUME ChoiceInv, pc = "match", next = Len(rows) + 1, NEW s \in Scopes
  PROVE  IF best[s] = NoMatch THEN Precedence!MatchingIds(s) = {}
         ELSE \E i \in Precedence!MatchingIds(s) :
                /\ best[s].label = userRules[i].label
                /\ best[s].score = ScoreRule(userRules[i])
                /\ \A j \in Precedence!MatchingIds(s) \ {i} :
                     Precedence!TakesPrecedence(i, j)
<1> USE DEF ChoiceInv
<1> DEFINE ids == Precedence!MatchingIds(s)
           seen == {m \in 1 .. next - 1 : MatchAt(m, s)}
<1>1. ListsRules /\ Len(rows) \in Nat /\ next - 1 = Len(rows)
  BY LenProperties DEF TypeOK
<1>2. \A m \in seen : m \in 1 .. Len(rows) /\ rows[m] \in ids
  BY <1>1, MatchingAreListed DEF MatchAt, ListsRules
<1>3. \A i \in ids : \E m \in seen : rows[m] = i
  BY <1>1, MatchingAreListed DEF MatchAt, ListsRules
<1>4. CASE best[s] = NoMatch
  BY <1>3, <1>4 DEF LoopKeepsBest
<1>5. CASE best[s] # NoMatch
  <2>1. PICK m \in seen :
          /\ best[s].label = userRules[rows[m]].label
          /\ best[s].score = ScoreRule(userRules[rows[m]])
          /\ \A n \in seen :
               /\ ScoreRule(userRules[rows[n]]) <= best[s].score
               /\ n < m => ScoreRule(userRules[rows[n]]) < best[s].score
    BY <1>5 DEF LoopKeepsBest
  <2> DEFINE i == rows[m]
  <2>2. i \in ids
    BY <1>2
  <2>3. ASSUME NEW j \in ids \ {i}
        PROVE  Precedence!TakesPrecedence(i, j)
    <3> DEFINE a == userRules[i]
               b == userRules[j]
    <3>1. PICK n \in seen : rows[n] = j
      BY <1>3
    <3>2. /\ i \in Listed /\ RuleScope(a) = s
          /\ j \in Listed /\ RuleScope(b) = s
      BY <2>2, MatchingAreListed
    <3>3. a.owner = b.owner
      BY <3>2 DEF Listed, RuleScope
    <3>4. a \in UserRule /\ b \in UserRule
      BY <3>2, RowType DEF Listed
    <3>5. /\ Precedence!SpecificityBonus(a) = SpecificityBonus(a)
          /\ Precedence!SpecificityBonus(b) = SpecificityBonus(b)
      BY DEF SpecificityBonus, Precedence!SpecificityBonus
    <3>6. /\ ScoreRule(a) \in Int /\ ScoreRule(b) \in Int
          /\ ScoreRule(b) <= ScoreRule(a)
          /\ n < m => ScoreRule(b) < ScoreRule(a)
      BY <2>1, <3>1, <3>4, ScoreOrder
    <3>7. CASE ScoreRule(a) > ScoreRule(b)
      BY <3>4, <3>5, <3>7, ScoreOrder DEF Precedence!TakesPrecedence
    <3>8. CASE ScoreRule(a) = ScoreRule(b)
      <4>1. m < n
        BY <1>2, <3>1, <3>6, <3>8
      <4>2. Before(i, j)
        BY <1>1, <1>2, <3>1, <4>1 DEF ListsRules
      <4>3. /\ a.priority = b.priority
            /\ SpecificityBonus(a) = SpecificityBonus(b)
        BY <3>4, <3>8, ScoreOrder
      <4>4. a.priority \in Int
        BY <3>4 DEF UserRule
      <4>5. i < j
        BY <3>3, <4>2, <4>3, <4>4 DEF Before
      <4> QED BY <3>5, <4>3, <4>5 DEF Precedence!TakesPrecedence
    <3> QED BY <3>6, <3>7, <3>8
  <2> QED BY <1>5, <2>1, <2>2, <2>3
<1> QED BY <1>4, <1>5

LEMMA ReturnClassifies ==
  ASSUME ChoiceInv, ReturnBest
  PROVE  Precedence!Classify
<1> DEFINE chosen == IF best["user_specific"] # NoMatch
                       THEN best["user_specific"] ELSE best["global"]
           scope == IF best["user_specific"] # NoMatch
                      THEN "user_specific" ELSE "global"
<1>1. /\ pc = "match" /\ next = Len(rows) + 1 /\ result = Undecided
      /\ UNCHANGED userRules
      /\ result' = IF chosen = NoMatch
                     THEN [label |-> Unknown, confidence |-> 50]
                     ELSE [label |-> chosen.label,
                           confidence |-> ConfidenceFromScore(chosen.score)]
  BY DEF ChoiceInv, ReturnBest
<1>2. /\ "user_specific" \in Scopes /\ "global" \in Scopes
      /\ scope \in Scopes /\ chosen = best[scope]
  BY DEF Scopes
<1>3. Precedence!Contenders = Precedence!MatchingIds(scope)
  BY <1>1, <1>2, BestOfScope DEF Precedence!Contenders
<1>4. CASE chosen = NoMatch
  <2>1. Precedence!Contenders = {}
    BY <1>1, <1>2, <1>3, <1>4, BestOfScope
  <2> QED BY <1>1, <1>4, <2>1 DEF Precedence!Classify
<1>5. CASE chosen # NoMatch
  <2>1. PICK i \in Precedence!MatchingIds(scope) :
          /\ chosen.label = userRules[i].label
          /\ chosen.score = ScoreRule(userRules[i])
          /\ \A j \in Precedence!MatchingIds(scope) \ {i} :
               Precedence!TakesPrecedence(i, j)
    BY <1>1, <1>2, <1>5, BestOfScope
  <2>2. Precedence!Winner(i)
    BY <1>3, <2>1 DEF Precedence!Winner
  <2>3. i \in DOMAIN userRules
    BY DEF Precedence!MatchingIds
  <2>4. ConfidenceFromScore(chosen.score)
          = Precedence!ConfidenceOf(userRules[i].priority)
    BY <2>1, <2>3, RowType, ConfidenceByPriority DEF ChoiceInv
  <2>5. result' = [label |-> userRules[i].label,
                   confidence |-> Precedence!ConfidenceOf(userRules[i].priority)]
    BY <1>1, <1>5, <2>1, <2>4
  <2> QED BY <1>1, <2>2, <2>3, <2>5 DEF Precedence!Classify
<1> QED BY <1>4, <1>5

-----------------------------------------------------------------------------
(* Theorems *)

LEMMA ChoiceInvAlways == Spec => []ChoiceInv
BY ChoiceInvInit, ChoiceInvNext, PTL DEF Spec

\* Every state of the query and the loop is well typed: in particular a rule
\* with a negative priority or a blank label never becomes the best match, and
\* the confidence is one of the four that Classify returns.
THEOREM ClassifierTyped == Spec => []TypeOK
<1>1. ChoiceInv => TypeOK
  BY DEF ChoiceInv
<1> QED BY <1>1, ChoiceInvAlways, PTL

\* Whatever the rules, at the top of the loop each scope's best match is the
\* earliest of the highest score among the matches seen so far.
THEOREM LoopAlwaysKeepsBest == Spec => []LoopKeepsBest
<1>1. ChoiceInv => LoopKeepsBest
  BY DEF ChoiceInv
<1> QED BY <1>1, ChoiceInvAlways, PTL

\* Query, score and loop together implement the documented precedence: user
\* before global, then priority, then specificity, then age, for every table of
\* rules.
THEOREM ClassifierImplementsPrecedence == Spec => ImplementsPrecedence
<1>1. Init => Precedence!Init
  BY DEF Init, Precedence!Init
<1>2. ChoiceInv /\ [Next]_vars
        => [Precedence!Classify]_<<userRules, result>>
  <2>1. CASE ReturnBest
    BY <2>1, ReturnClassifies
  <2>2. CASE QueryRules \/ ConsiderRule \/ UNCHANGED vars
    BY <2>2 DEF QueryRules, ConsiderRule, vars
  <2> QED BY <2>1, <2>2 DEF Next
<1> QED BY <1>1, <1>2, ChoiceInvAlways, PTL
      DEF Spec, ImplementsPrecedence, Precedence!Spec

-----------------------------------------------------------------------------
(* The choice is a function of the table *)

\* No two rules win: precedence decides between any two that compete, so the
\* label and the confidence depend on nothing but the table and the message.
\* (A tie of priority and specificity would otherwise be broken by whatever
\* order the query happens to return.)
THEOREM OneRuleWins ==
  ASSUME TypeOK, NEW i, NEW j, Precedence!Winner(i), Precedence!Winner(j)
  PROVE  i = j
<1> SUFFICES ASSUME i # j PROVE FALSE
  OBVIOUS
<1> DEFINE a == userRules[i]
           b == userRules[j]
<1>1. /\ i \in DOMAIN userRules /\ j \in DOMAIN userRules
      /\ Precedence!TakesPrecedence(i, j)
      /\ Precedence!TakesPrecedence(j, i)
  BY DEF Precedence!Winner, Precedence!Contenders, Precedence!MatchingIds
<1>2. i \in Nat /\ j \in Nat
  BY <1>1, UserRulesAssumption DEF TypeOK
<1>3. a.priority \in Int /\ b.priority \in Int
  BY <1>1, RowType DEF UserRule
<1>4. /\ Precedence!SpecificityBonus(a) \in 0 .. 70
      /\ Precedence!SpecificityBonus(b) \in 0 .. 70
  BY BonusRange DEF SpecificityBonus, Precedence!SpecificityBonus
<1> QED BY <1>1, <1>2, <1>3, <1>4 DEF Precedence!TakesPrecedence

=============================================================================
