------------------------------ MODULE Classifier ----------------------------
(***************************************************************************)
(* internal/classifier and ListEnabledUserRules: how the classifier worker  *)
(* gets from the table user_rules to the label of one message.  The query   *)
(* returns the enabled rules of the user and the global ones in a fixed     *)
(* order; Classify goes through them once and keeps the best match of each  *)
(* scope, by one integer score; then it prefers the user-specific one.      *)
(*                                                                          *)
(* A rule that the query returned is named by its id: the table of the      *)
(* model does not change (later edits are EditRules of Storage).            *)
(***************************************************************************)
EXTENDS UserRules, Sequences

CONSTANTS
  NoMatch,      \* a nil *matchResult
  Undecided     \* Classify has not returned

VARIABLES
  userRules,    \* table user_rules: id -> row
  pc,           \* "query", "match" or "done"
  rows,         \* the result of the query, as ids
  next,         \* index of the next rule of the loop
  best,         \* scope -> bestUserSpecific or bestGlobal
  result        \* what Classify returns

vars == <<userRules, pc, rows, next, best, result>>

MatchResult == [label : TargetLabels, score : Nat]
ASSUME ClassifierAssumption == NoMatch \notin MatchResult

Confidences == {50, 90, 94, 98}       \* percent
Result == [label : TargetLabels, confidence : Confidences]

TypeOK ==
  /\ DOMAIN userRules \subseteq Ids
  /\ userRules \in [DOMAIN userRules -> RuleRows]
  /\ pc \in {"query", "match", "done"}
  /\ rows \in Seq(DOMAIN userRules)
  /\ next \in 1 .. Len(rows) + 1
  /\ best \in [Scopes -> MatchResult \cup {NoMatch}]
  /\ result \in Result \cup {Undecided}

Init ==
  /\ \E D \in SUBSET Ids : userRules \in [D -> RuleRows]
  /\ pc = "query"
  /\ rows = <<>>
  /\ next = 1
  /\ best = [s \in Scopes |-> NoMatch]
  /\ result = Undecided

-----------------------------------------------------------------------------
(* ListEnabledUserRules *)

\* WHERE (user_id = $1 OR user_id IS NULL) AND enabled = TRUE
Listed ==
  {i \in DOMAIN userRules :
     userRules[i].owner \in {"user", "global"} /\ userRules[i].enabled}

\* Mutant: without id in the ORDER BY, rules of one priority may come in any
\* order.
BeforeWithoutId(i, j) ==
  LET a == userRules[i]
      b == userRules[j]
  IN  \/ a.owner = "user" /\ b.owner = "global"
      \/ a.owner = b.owner /\ a.priority >= b.priority

\* ORDER BY user_id IS NULL, priority DESC, id ASC
Before(i, j) ==
  LET a == userRules[i]
      b == userRules[j]
  IN  \/ a.owner = "user" /\ b.owner = "global"
      \/ a.owner = b.owner /\ a.priority > b.priority
      \/ a.owner = b.owner /\ a.priority = b.priority /\ i < j

QueryRules ==
  /\ pc = "query"
  /\ \E s \in [1 .. Cardinality(Listed) -> Listed] :
       /\ \A i \in Listed : \E m \in DOMAIN s : s[m] = i
       /\ \A m, n \in DOMAIN s : m < n => Before(s[m], s[n])
       /\ rows' = s
  /\ pc' = "match"
  /\ UNCHANGED <<userRules, next, best, result>>

-----------------------------------------------------------------------------
(* Classify *)

\* scoreRule: one integer for priority and specificity.
ScoreRule(rule) == rule.priority * 1000 + SpecificityBonus(rule)

\* Mutant: a later match of the same score wins.
ImprovesOrTies(match, s) == best[s] = NoMatch \/ match.score >= best[s].score

Improves(match, s) == best[s] = NoMatch \/ match.score > best[s].score

\* One round of the loop over the candidates.
ConsiderRule ==
  LET rule  == userRules[rows[next]]
      s     == RuleScope(rule)
      match == [label |-> rule.label, score |-> ScoreRule(rule)]
  IN
  /\ pc = "match"
  /\ next <= Len(rows)
  /\ best' = IF rule.enabled /\ Matches(rule) /\ Improves(match, s)
               THEN [best EXCEPT ![s] = match]
               ELSE best
  /\ next' = next + 1
  /\ UNCHANGED <<userRules, pc, rows, result>>

ConfidenceFromScore(score) ==
  IF score >= 200000 THEN 98 ELSE IF score >= 120000 THEN 94 ELSE 90

\* After the loop: the user-specific match if there is one, else the global.
ReturnBest ==
  LET chosen == IF best["user_specific"] # NoMatch
                  THEN best["user_specific"] ELSE best["global"]
  IN
  /\ pc = "match"
  /\ next = Len(rows) + 1
  /\ result' = IF chosen = NoMatch
                 THEN [label |-> Unknown, confidence |-> 50]
                 ELSE [label |-> chosen.label,
                       confidence |-> ConfidenceFromScore(chosen.score)]
  /\ pc' = "done"
  /\ UNCHANGED <<userRules, rows, next, best>>

Next == QueryRules \/ ConsiderRule \/ ReturnBest

Spec == Init /\ [][Next]_vars

-----------------------------------------------------------------------------
(* Properties *)

\* The m-th rule of the query is a match of scope s.
MatchAt(m, s) ==
  LET rule == userRules[rows[m]] IN RuleScope(rule) = s /\ Matches(rule)

\* At the top of the loop the best match of a scope is the earliest match of
\* the highest score among the rules seen so far, and there is none exactly
\* when none of them matched.
LoopKeepsBest ==
  \A s \in Scopes :
    LET seen == {m \in 1 .. next - 1 : MatchAt(m, s)} IN
    IF best[s] = NoMatch THEN seen = {}
    ELSE \E m \in seen :
           /\ best[s].label = userRules[rows[m]].label
           /\ best[s].score = ScoreRule(userRules[rows[m]])
           /\ \A n \in seen :
                LET score == ScoreRule(userRules[rows[n]]) IN
                /\ score <= best[s].score
                /\ n < m => score < best[s].score

Precedence == INSTANCE RulePrecedence

\* README, Rules: "User-Specific Rules override Global Rules.  Within the same
\* scope, higher priority wins", then specificity, then the older rule: the
\* query's order, the score and the loop together implement RulePrecedence.
ImplementsPrecedence == Precedence!Spec

=============================================================================
