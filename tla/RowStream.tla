------------------------------- MODULE RowStream -------------------------------
(***************************************************************************)
(* What the fetch methods of OCI8::Cursor promise: the rows of the last    *)
(* execution, each once and in order, then nil.  A call that raises may    *)
(* skip rows; no other call does.  When an execution raises although the   *)
(* database has a result for it, fetch goes on with rows of the earlier    *)
(* result and may change once, never back, to the first row of the new.    *)
(***************************************************************************)
EXTENDS Naturals

CONSTANTS NoAnswer, Raised, Ended, NoResult

VARIABLES
  execution,  \* number of the result that fetch delivers
  total,      \* its rows
  position,   \* rows that were returned or skipped
  waiting,    \* rows of the result of an execution that raised, or NoResult
  answer      \* what the last call returned

streamVars == <<execution, total, position, waiting, answer>>

Init ==
  /\ execution = 0 /\ total = 0 /\ position = 0
  /\ waiting = NoResult /\ answer = NoAnswer

Execute ==
  /\ execution' = execution + 1 /\ total' \in Nat /\ waiting' = NoResult
  /\ position' = 0 /\ answer' \in {NoAnswer, Raised}

ExecuteRaises ==
  /\ waiting' \in Nat \union {NoResult} /\ answer' = Raised
  /\ UNCHANGED <<execution, total, position>>

NextRow ==
  /\ position < total
  /\ position' = position + 1
  /\ answer' = {<<execution, position + 1>>}
  /\ UNCHANGED <<execution, total, waiting>>

End ==
  /\ position = total
  /\ answer' = Ended
  /\ UNCHANGED <<execution, total, position, waiting>>

Raise ==
  /\ position' \in position .. total
  /\ answer' = Raised
  /\ UNCHANGED <<execution, total, waiting>>

\* a fetch comes to the result of the execution that raised
TakeOver ==
  /\ waiting # NoResult
  /\ execution' = execution + 1 /\ total' = waiting /\ waiting' = NoResult
  /\ \/ waiting > 0 /\ position' = 1 /\ answer' = {<<execution', 1>>}
     \/ waiting = 0 /\ position' = 0 /\ answer' = Ended
     \/ position' \in 0 .. waiting /\ answer' = Raised

\* define, close: nothing is returned and nothing is skipped
Quiet == answer' = NoAnswer /\ UNCHANGED <<execution, total, position, waiting>>

Next ==
  \/ Execute \/ ExecuteRaises \/ NextRow \/ End \/ Raise \/ TakeOver \/ Quiet

Spec == Init /\ [][Next]_streamVars
===============================================================================
