SPECIFICATION Spec
CONSTANTS
  a = a
  b = b
  c1 = c1
  c2 = c2
  Channel <- MCChannel
  Client <- MCClient
  Global = Global
  Nobody = Nobody
INVARIANT IInv
PROPERTIES LocksAreALockService NoStarvation
