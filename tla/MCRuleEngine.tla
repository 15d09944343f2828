----------------------------- MODULE MCRuleEngine -----------------------------
(* All lists of up to MaxRules rules for TLC.                                *)
EXTENDS RuleEngine, SequencesExt

CONSTANT MaxRules    \* bound on the length of the lists

AllLists == BoundedSeq(Rule, MaxRules)
=============================================================================
