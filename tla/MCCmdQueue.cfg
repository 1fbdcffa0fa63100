SPECIFICATION Spec
CONSTANTS
  c1 = c1
  c2 = c2
  i1 = i1
  i2 = i2
  i3 = i3
  i4 = i4
  j1 = j1
  Client <- MCClients
  Global = Global
  None = None
  Item <- MCItems4
  Job <- MCOneJob
  Groups <- MCOneGroup
  LineSizes <- MCOneSize
  InsertSizes <- MCOneSize
SYMMETRY MCSymmetry
INVARIANTS Lifetimes FiringInOrder HooksEnd
PROPERTY LoopLeavesNothing
