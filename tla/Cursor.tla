-------------------------------- MODULE Cursor --------------------------------
(***************************************************************************)
(* An OCI8::Cursor: one object whose statement is a query, a statement     *)
(* that is executed with arrays, or one with a bind variable of LONG type. *)
(***************************************************************************)
EXTENDS RowFetch, ArrayDml, LongBuffer

VARIABLE statement

vars == <<statement, fetchVars, dmlVars, longVars>>

Init ==
  /\ statement \in {"query", "dml", "long"}
  /\ FetchInit /\ DmlInit /\ LongInit

Next ==
  /\ UNCHANGED statement
  /\ \/ statement = "query" /\ FetchNext /\ UNCHANGED <<dmlVars, longVars>>
     \/ statement = "dml" /\ DmlNext /\ UNCHANGED <<fetchVars, longVars>>
     \/ statement = "long" /\ LongNext /\ UNCHANGED <<fetchVars, dmlVars>>

Spec == Init /\ [][Next]_vars
===============================================================================
