------------------------------- MODULE MCLibrary -------------------------------
EXTENDS Library, TLC

CONSTANTS x, y

MCTexts == {<<>>, <<x>>, <<x, y>>, <<y, x, y>>}
MCTargets == -2 .. 2

Symmetry == Permutations(DirAlias) \union Permutations(Filename) \union Permutations(BFILE)
===============================================================================
