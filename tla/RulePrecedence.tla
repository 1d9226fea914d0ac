--------------------------- MODULE RulePrecedence ---------------------------
(***************************************************************************)
(* What the classifier promises: one step that gives the message the label  *)
(* of the rule that takes precedence.  User-specific rules override global  *)
(* ones; within a scope the higher priority wins, then the higher           *)
(* specificity, then the older rule.  The confidence tells the priority     *)
(* band of the rule.                                                        *)
(***************************************************************************)
EXTENDS UserRules

CONSTANT Undecided

VARIABLES userRules, result

MatchingIds(scope) ==
  {i \in DOMAIN userRules :
     LET rule == userRules[i] IN
     /\ rule.enabled
     /\ rule.owner # "other"
     /\ RuleScope(rule) = scope
     /\ Matches(rule)}

\* The rules that compete for the message.
Contenders == IF MatchingIds("user_specific") # {}
                THEN MatchingIds("user_specific")
                ELSE MatchingIds("global")

TakesPrecedence(i, j) ==
  LET a == userRules[i]
      b == userRules[j]
  IN  \/ a.priority > b.priority
      \/ /\ a.priority = b.priority
         /\ SpecificityBonus(a) > SpecificityBonus(b)
      \/ /\ a.priority = b.priority
         /\ SpecificityBonus(a) = SpecificityBonus(b)
         /\ i < j

\* Percent.
ConfidenceOf(priority) ==
  IF priority >= 200 THEN 98 ELSE IF priority >= 120 THEN 94 ELSE 90

Winner(i) ==
  /\ i \in Contenders
  /\ \A j \in Contenders \ {i} : TakesPrecedence(i, j)

Init ==
  /\ \E D \in SUBSET Ids : userRules \in [D -> RuleRows]
  /\ result = Undecided

Classify ==
  /\ result = Undecided
  /\ \/ /\ Contenders = {}
        /\ result' = [label |-> Unknown, confidence |-> 50]
     \/ \E i \in DOMAIN userRules :
          /\ Winner(i)
          /\ result' = [label |-> userRules[i].label,
                        confidence |-> ConfidenceOf(userRules[i].priority)]
  /\ UNCHANGED userRules

Spec == Init /\ [][Classify]_<<userRules, result>>

=============================================================================
