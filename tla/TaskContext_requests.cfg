\* a request and a second fiber: overriding entries, late answers, members created
SPECIFICATION Spec
CONSTANTS
  main = main  g1 = g1
  Main = main
  Fiber = {main, g1}
  Requests = {"long", "short"}
  Overrides = {"none", "long", "short"}
  MaxDepth = 3
  MaxEvents = 2
CHECK_DEADLOCK FALSE
INVARIANTS
  TypeOK
  ContextIsLexical
  ContextlessForgets
