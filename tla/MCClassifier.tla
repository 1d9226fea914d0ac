---------------------------- MODULE MCClassifier ----------------------------
(***************************************************************************)
(* Small instance of Classifier for TLC: tables of up to three rules.       *)
(***************************************************************************)
EXTENDS Classifier

Labels == {"news", "work", "Unknown"}

\* An own rule that matches.
Own ==
  [owner |-> "user", enabled |-> TRUE, ruleType |-> "subject",
   operator |-> "contains", hit |-> "inside", label |-> "news",
   priority |-> 1]

\* Rules that match, in every combination that decides between two rules.
MatchingRules ==
  {[Own EXCEPT !.owner = o, !.ruleType = t, !.operator = op, !.hit = "whole",
               !.label = l, !.priority = p] :
     o \in {"user", "global"}, t \in {"sender_email", "any"},
     op \in {"", "equals"}, l \in {"news", "work"}, p \in {0, 1}}

\* Rules that differ from Own in the one thing that rules them out.
RulesThatDoNotCount ==
  {[Own EXCEPT !.owner = "other"], [Own EXCEPT !.enabled = FALSE],
   [Own EXCEPT !.ruleType = "other"], [Own EXCEPT !.operator = "other"],
   [Own EXCEPT !.operator = "equals"], [Own EXCEPT !.hit = "none"],
   [Own EXCEPT !.hit = "blank"], [Own EXCEPT !.label = Blank],
   [Own EXCEPT !.priority = -1]}

\* Own rules on both sides of the confidence bands.
BandRules ==
  {[Own EXCEPT !.priority = p] : p \in {119, 120, 199, 200}}

Rows == MatchingRules \cup RulesThatDoNotCount \cup BandRules

=============================================================================
