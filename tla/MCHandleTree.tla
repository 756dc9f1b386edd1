----------------------------- MODULE MCHandleTree -----------------------------
EXTENDS HandleTreeRefinement, TLC

CONSTANTS c1, s1, t1, b1, l1, l2, d1, p1, p2

\* one connection with a statement, a bind and parameters of parameters, and one
\* with LOBs and a describe handle
StmtHandles == {c1, s1, t1, b1, p1, p2}
LobHandles == {c1, s1, l1, l2, d1}

KindOf(h) ==
  CASE h = c1 -> "svcctx"
    [] h = s1 -> "session"
    [] h = t1 -> "stmt"
    [] h = b1 -> "bind"
    [] h \in {l1, l2} -> "lob"
    [] h = d1 -> "desc"
    [] h \in {p1, p2} -> "param"

KindFn == [h \in Handle |-> KindOf(h)]
Symmetry == Permutations(Native)
===============================================================================
