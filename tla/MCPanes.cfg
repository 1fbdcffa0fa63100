SPECIFICATION Spec
CONSTANTS
  None = None
  p1 = p1  p2 = p2  p3 = p3  w1 = w1  w2 = w2
  Status = "top"
  Main = 2
  Columns = 0
  Pane <- MCPane
  Window <- MCWindow
  Widths = {3, 5}
  Heights = {7}
  Splits <- MCSplits
  Layouts <- MCLayouts
  Instances <- MCInstances
INVARIANTS PanesSound ActiveSound EveryDirectionLeads
PROPERTIES ShapeKept
SYMMETRY MCSymmetry
CHECK_DEADLOCK FALSE
