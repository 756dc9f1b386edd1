---------------------------- MODULE MCServiceCall ----------------------------
EXTENDS ServiceCall, TLC

CONSTANTS t1, t2, l1, l2

Two == {t1, t2}
One == {t1}
OneLob == {l1}
TwoLobs == {l1, l2}

\* t1 makes calls of both kinds
OneReads == [t \in Thread |-> IF t = t1 THEN {"sql", "read"} ELSE {"sql"}]
OnlySql == [t \in Thread |-> {"sql"}]

Symmetry == Permutations(Thread) \union Permutations(Lob)
===============================================================================
