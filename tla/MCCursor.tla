------------------------------- MODULE MCCursor -------------------------------
(***************************************************************************)
(* A cursor has one statement for its life.  Columns and placeholders have *)
(* the same names, so that one permutation serves the query and the arrays.*)
(***************************************************************************)
EXTENDS Cursor, TLC

Symmetry == Permutations(Bind) \union Permutations(Key)
===============================================================================
