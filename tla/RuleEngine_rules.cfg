\* all lists of up to two rules; every prompt may answer later
SPECIFICATION FairSpec
CONSTANTS
  End = 100
  MaxRules = 2
  RuleLists <- AllLists
CHECK_DEADLOCK FALSE
INVARIANTS
  TypeOK
  RulesInOrder
PROPERTIES
  RunEnds
