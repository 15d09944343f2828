\* a conversation and a test run on one tree
SPECIFICATION Spec
CONSTANTS
  Analysts = {b1}
  Testers = {t1}
  Stories = {s1, s2}
  Cases = {c1}
  PrdRoot = root
  Keys = {root, s1, s2, c1}
  NoRow = NoRow
  Top = Top
  NoKey = NoKey
  None = None
  MaxSaves = 2
CHECK_DEADLOCK FALSE
SYMMETRY Symmetry
INVARIANTS
  TypeOK
  OrphansHaveReason
PROPERTIES
  CasesSpareStories
