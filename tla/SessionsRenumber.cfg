SPECIFICATION Spec
CONSTANTS
  w1 = w1
  w2 = w2
  w3 = w3
  c1 = c1
  c2 = c2
  None = None
  Freed = Freed
  Session <- Three
  Base = 0
  Policies = {"off", "on", "no-detached"}
  Instances <- MCRenumbered
SYMMETRY Symmetry
INVARIANTS CurrentExists
