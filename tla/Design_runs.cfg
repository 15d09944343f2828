\* two designers and an architect
SPECIFICATION Spec
CONSTANTS
  Designers = {d1, d2}
  Architects = {a1}
  DesignRoot = root
  Keys = {root, c1, c2}
  NoRow = NoRow
  Top = Top
  None = None
  Page = c1
  PageIds <- AnsweredAsPage
  MaxPages = 1
  MaxIds = 2
CHECK_DEADLOCK FALSE
SYMMETRY Symmetry
INVARIANTS
  TypeOK
  DesignIsWhole
  FrameworkOfItsPages
