----------------------------- MODULE HandleForest -----------------------------
(***************************************************************************)
(* What the handle pointers promise: every handle has at most one parent,  *)
(* a parent keeps its children in the order in which they were attached,   *)
(* and only a handle without children is ever detached.                    *)
(***************************************************************************)
EXTENDS SequencesExt

CONSTANT Handle

VARIABLE kids   \* the children of each handle, the oldest first

Without(k, h) == [p \in Handle |-> RemoveFirst(k[p], h)]

Init == kids = [h \in Handle |-> <<>>]

\* h becomes the youngest child of p, and leaves the parent it had
Attach(h, p) == kids' = [Without(kids, h) EXCEPT ![p] = Append(@, h)]

Detach(h) == kids[h] = <<>> /\ kids' = Without(kids, h)

Next == \E h \in Handle : Detach(h) \/ \E p \in Handle : Attach(h, p)

Spec == Init /\ [][Next]_kids
===============================================================================
