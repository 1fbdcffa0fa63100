SPECIFICATION MCSpec
CONSTANTS
  p0 = p0
  p1 = p1
  p2 = p2
  c0 = c0
  c1 = c1
  c2 = c2
  None = None
  Instances <- AskingInstances
  Pane = {p0}
  Client = {c1, c2}
  PauseAfter = {}
  Low = 1
  High = 3
  Minimum = 1
  MaxBuffer = 2
  MaxBlocks = 2
  MaxOut = 1
  ControlUses = {"refresh"}
  Checked = {"control", "panes", "visits", "single", "prompts"}
SYMMETRY Symmetry
INVARIANTS BlocksSound EnoughData OthersSound PromptsSound
