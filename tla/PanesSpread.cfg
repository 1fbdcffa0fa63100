SPECIFICATION Spec
CONSTANTS
  None = None
  p1 = p1  p2 = p2  p3 = p3  p4 = p4  w1 = w1  w2 = w2
  Status = "off"
  Main = 2
  Columns = 0
  Pane = {p1, p2, p3, p4}
  Window = {w1}
  Widths = {5}
  Heights = {3}
  Splits = {1, 3}
  Layouts = {}
  Instances = {{"split", "sizes", "spread"}}
INVARIANTS NeverHangs
