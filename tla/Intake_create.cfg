SPECIFICATION Spec
CONSTANTS
  h1 = h1
  h2 = h2
  p1 = p1
  p2 = p2
  main = main
  dev = dev
  g1 = g1
  Handlers = {h1, h2}
  Projects = {p1, p2}
  Branches = {main, dev}
  Deliveries = {g1}
  CommandTypes = {}
  MaxEdits = 1
  MaxRows = 2
  MaxCommands = 0
  None = None
SYMMETRY Symmetry
INVARIANTS TypeOK CommitOnBranch RetryReproduces
PROPERTIES InboxSpec
CHECK_DEADLOCK FALSE
