------------------------- MODULE HandleTreeRefinement -------------------------
(***************************************************************************)
(* The rings of HandleTree implement the ordered forest of HandleForest:   *)
(* the children of p are what the walk along next from children[p] meets.  *)
(***************************************************************************)
EXTENDS HandleTree

Walk(p) ==
  LET n == Cardinality(ChildrenOf(ring, p))
      w[i \in 1..n] == IF i = 1 THEN ring.children[p] ELSE ring.next[w[i - 1]]
  IN  w

Forest == INSTANCE HandleForest WITH kids <- [p \in Handle |-> Walk(p)]

\* Whatever is linked, moved, freed or swept, the pointers change as an ordered
\* forest does: a link appends the youngest child, a free takes away a leaf.
ImplementsForest == Forest!Spec
===============================================================================
