SPECIFICATION Spec
CONSTANTS
  Conn = {c1, c2}
  Pool = {p}
  NoPool = NoPool
CHECK_DEADLOCK FALSE
INVARIANTS
  ServerConnectionRemembered
