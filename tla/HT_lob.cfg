SPECIFICATION Spec
CONSTANTS
  c1 = c1
  s1 = s1
  t1 = t1
  b1 = b1
  l1 = l1
  l2 = l2
  d1 = d1
  p1 = p1
  p2 = p2
  Null = Null
  Handle <- LobHandles
  Native = {n1, n2, n3}
  Kind <- KindFn
INVARIANTS
  NoDanglingPointer
  NeverFreedTwice
PROPERTIES
  FreesEnd
  OnlyLogoffLoses
