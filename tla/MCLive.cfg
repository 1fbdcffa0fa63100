SPECIFICATION MCSpec
CONSTANTS
  c1 = c1
  i1 = i1
  i2 = i2
  i3 = i3
  j1 = j1
  p1 = p1
  Global = Global
  Absent = Absent
  Instances <- LeavingInstances
INVARIANTS AttachSound
PROPERTIES EveryItemRuns LostClientsGo OutputGoesOn WaitsEnd
CHECK_DEADLOCK FALSE
