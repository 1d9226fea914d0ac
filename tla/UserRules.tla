------------------------------ MODULE UserRules -----------------------------
(***************************************************************************)
(* internal/rules, the table user_rules and matchCandidate of               *)
(* internal/classifier: what a rule is, when it matches the message that is *)
(* being classified, and what its match is worth.                           *)
(*                                                                          *)
(* The message is fixed, and its texts only matter through the rules: hit   *)
(* says how a rule's normalized value occurs in the normalized field that   *)
(* the rule's type selects.                                                 *)
(***************************************************************************)
EXTENDS Integers, FiniteSets

CONSTANTS
  Ids,            \* user_rules.id values
  RuleRows,       \* rows that the table may hold
  TargetLabels,   \* label names
  Blank,          \* a target_label of white space
  Unknown         \* LabelUnknown

RuleTypes == {"sender_email", "sender_domain", "subject", "body", "any"}

\* Nothing but the code checks the text columns of a row.
UserRule ==
  [owner    : {"user", "other", "global"},     \* user_id, seen by the user
   enabled  : BOOLEAN,
   ruleType : RuleTypes \cup {"other"},
   operator : {"", "contains", "equals", "other"},
   hit      : {"blank", "none", "inside", "whole"},
   label    : TargetLabels \cup {Blank},
   priority : Int]

ASSUME UserRulesAssumption ==
  /\ Ids \subseteq Nat
  /\ IsFiniteSet(Ids)
  /\ RuleRows \subseteq UserRule
  /\ Blank \notin TargetLabels
  /\ Unknown \in TargetLabels

Scopes == {"user_specific", "global"}

\* ruleScope: by the user_id column being NULL.
RuleScope(rule) == IF rule.owner = "global" THEN "global" ELSE "user_specific"

-----------------------------------------------------------------------------
(* matchCandidate *)

\* An empty operator stands for contains.
OperatorMatches(rule) ==
  \/ rule.operator \in {"", "contains"} /\ rule.hit \in {"inside", "whole"}
  \/ rule.operator = "equals" /\ rule.hit = "whole"

\* Mutant: a rule without a label may match.
MatchesBlankLabels(rule) ==
  /\ rule.priority >= 0
  /\ rule.ruleType \in RuleTypes
  /\ OperatorMatches(rule)

Matches(rule) ==
  /\ rule.priority >= 0
  /\ rule.label # Blank
  /\ rule.ruleType \in RuleTypes
  /\ OperatorMatches(rule)

\* specificityBonus, by the type and the operator of the rule.
SpecificityBonus(rule) ==
  LET typeBonus == CASE rule.ruleType = "sender_email"  -> 50
                     [] rule.ruleType = "sender_domain" -> 40
                     [] rule.ruleType = "subject"       -> 30
                     [] rule.ruleType = "body"          -> 20
                     [] rule.ruleType = "any"           -> 10
                     [] OTHER                           -> 0
  IN  typeBonus + (IF rule.operator = "equals" THEN 20 ELSE 0)

=============================================================================
