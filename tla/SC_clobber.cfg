SPECIFICATION Spec
CONSTANTS
  t1 = t1
  t2 = t2
  l1 = l1
  l2 = l2
  None = None
  Thread <- Two
  Lob <- OneLob
  Ops <- OnlySql
  Modes = {TRUE}
  Interruptible = {}
SYMMETRY Symmetry
INVARIANTS
  OneCallAtATime
