SPECIFICATION FairSpec
CONSTANTS
  t1 = t1
  t2 = t2
  l1 = l1
  l2 = l2
  None = None
  Thread <- Two
  Lob <- TwoLobs
  Ops <- OneReads
  Modes = {TRUE, FALSE}
  Interruptible <- One
INVARIANTS
  GateExact
  StopsOnlyWhoWasAsked
  LobOwnedOnce
  AnsweredFirst
  ReadNotDisturbed
PROPERTIES
  InterruptEndsCall
