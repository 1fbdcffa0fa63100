SPECIFICATION MCSpec
CONSTANTS
  p0 = p0
  p1 = p1
  p2 = p2
  c0 = c0
  c1 = c1
  c2 = c2
  None = None
  Instances <- AskingInstances
  Pane = {p1, p2}
  Client = {c0}
  PauseAfter = {c0}
  Low = 1
  High = 3
  Minimum = 1
  MaxBuffer = 2
  MaxBlocks = 3
  MaxOut = 2
  ControlUses = {"exit"}
  Checked = {"control"}
SYMMETRY Symmetry
INVARIANT EnoughData
