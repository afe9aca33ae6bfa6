SPECIFICATION FairSpec
CONSTANTS
  h1 = h1
  h2 = h2
  p1 = p1
  p2 = p2
  main = main
  dev = dev
  g1 = g1
  Handlers = {h1, h2}
  Projects = {p1}
  Branches = {main}
  Deliveries = {g1}
  CommandTypes = {"stop"}
  MaxEdits = 0
  MaxRows = 2
  MaxCommands = 2
  None = None
INVARIANTS OneActiveCommand AnswersWithItsOwn
PROPERTIES Answered
CHECK_DEADLOCK FALSE
