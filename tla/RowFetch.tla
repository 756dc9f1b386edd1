------------------------------- MODULE RowFetch -------------------------------
(***************************************************************************)
(* Execution and fetch of a query by OCI8::Cursor: define handles, array   *)
(* fetch into their buffers, the row buffer of the Ruby object and the     *)
(* end_of_fetch flag of the C struct.                                      *)
(*                                                                         *)
(* A row is the pair of an execution and a row number, so that rows of an  *)
(* earlier execution or of another fetch can be told apart.  Every call    *)
(* may raise: OCI may fail before, between or after rows, an exception of  *)
(* Ruby may strike when OCIStmtExecute or OCIStmtFetch has done its work,  *)
(* a define may fail when OCI has its buffers, and the conversion of a     *)
(* value may fail.                                                         *)
(***************************************************************************)
EXTENDS Naturals

CONSTANTS Column, Nil, NoAnswer, Raised, Ended,
          PrefetchRows,   \* @prefetch_rows
          MaxRows,        \* bound: rows of a result
          MaxExecutions   \* bound: executions that succeed

ASSUME PrefetchAssumption == PrefetchRows \in Nat \ {0}
ASSUME BoundAssumption == MaxRows \in Nat /\ MaxExecutions \in Nat
ASSUME NilAssumption == Nil \notin Nat

VARIABLES
  hasLob,      \* a column is a LOB, or @@use_array_fetch is set
  handleSize,  \* maxar_sz of the define handle of each column, or Nil
  astray,      \* columns for which OCI fills the buffer of a handle that raised
               \* in __define and is not in @define_handles
  leftover,    \* sizes of the handles that are linked below the statement only
  described,   \* @column_metadata is not empty
  arraySize,   \* @fetch_array_size
  rowbufSize,  \* @rowbuf_size
  rowbufIndex, \* @rowbuf_index
  endOfFetch,  \* stmt->end_of_fetch
  closed,      \* the statement handle is freed
  buffer,      \* the row in each element of the define buffers
  cursor,      \* of OCI: "none", "open" or "done" (nothing more to fetch)
  execution, total, \* the result whose rows fetch delivers
  served,      \* its rows that OCI has put into define buffers
  waiting,     \* rows of the result of an exec that raised, of which the row
               \* buffer does not know, or Nil
  failed,      \* OCI or Ruby has failed in an exec or __fetch of this execution
  answer       \* what the last call has returned

handleVars == <<handleSize, astray, leftover>>
objectVars == <<hasLob, handleVars, described, arraySize, closed>>
resultVars == <<cursor, execution, total, served, waiting, failed>>
fetchVars == <<objectVars, rowbufSize, rowbufIndex, endOfFetch, buffer,
               resultVars, answer>>

Element == 0 .. PrefetchRows - 1
EmptyBuffer == [i \in Element |-> Nil]

FetchInit ==
  /\ hasLob \in BOOLEAN
  /\ handleSize = [c \in Column |-> Nil] /\ astray = {} /\ leftover = {}
  /\ described = FALSE /\ arraySize = Nil /\ closed = FALSE
  /\ rowbufSize = 0 /\ rowbufIndex = 0 /\ endOfFetch = FALSE
  /\ buffer = [c \in Column |-> EmptyBuffer]
  /\ cursor = "none" /\ execution = 0 /\ total = 0 /\ served = 0
  /\ waiting = Nil /\ failed = FALSE /\ answer = NoAnswer

\* @fetch_array_size || 1
SizeFor(size) == IF size = Nil THEN 1 ELSE size

\* rows in the buffers that fetch has not returned yet
Buffered == IF rowbufSize = Nil THEN 0 ELSE rowbufSize - rowbufIndex

-------------------------------------------------------------------------------
(***************************************************************************)
(* define, exec and close.                                                 *)
(***************************************************************************)

\* the program says the type of a column; the documentation wants this before
\* exec, the model allows it whenever no fetched row waits in the buffers
Define(c) ==
  /\ ~closed /\ Buffered = 0
  /\ handleSize' = [handleSize EXCEPT ![c] = SizeFor(arraySize)]
  /\ astray' = astray \ {c}
  /\ buffer' = [buffer EXCEPT ![c] = EmptyBuffer]
  /\ answer' = NoAnswer
  /\ UNCHANGED <<hasLob, leftover, described, arraySize, closed, rowbufSize,
                 rowbufIndex, endOfFetch, resultVars>>

\* __define raises when OCIDefineByPos has the buffers of the new handle
Strays(c) ==
  /\ astray' = astray \union {c}
  /\ leftover' = leftover \union {SizeFor(arraySize')}

\* so does define, or it fails earlier; the cursor keeps its old handle
DefineRaises(c) ==
  /\ ~closed /\ Buffered = 0
  /\ UNCHANGED arraySize
  /\ Strays(c) \/ UNCHANGED <<astray, leftover>>
  /\ answer' = Raised
  /\ UNCHANGED <<hasLob, handleSize, described, closed, rowbufSize, rowbufIndex,
                 endOfFetch, buffer, resultVars>>

\* the collector frees the handles that the cursor does not hold: a statement
\* does not mark its children
CollectLeftover ==
  /\ leftover # {} /\ leftover' = {}
  /\ UNCHANGED <<hasLob, handleSize, astray, described, arraySize, closed, rowbufSize,
                 rowbufIndex, endOfFetch, buffer, resultVars, answer>>

\* define_columns: the array size is chosen only when the program has defined no
\* column, so that all handles have the same size
ChosenSizeAlways == IF hasLob THEN PrefetchRows ELSE arraySize  \* mutant
ChosenSize ==
  IF hasLob /\ \A c \in Column : handleSize[c] = Nil
  THEN PrefetchRows ELSE arraySize

\* define the columns that have no handle; the type of a column may not be
\* supported, then the columns in rest stay without one
DefineColumns(rest) ==
  /\ arraySize' = ChosenSize
  /\ handleSize' = [c \in Column |->
                      IF c \in rest \/ handleSize[c] # Nil THEN handleSize[c]
                      ELSE SizeFor(ChosenSize)]
  /\ described' = TRUE

\* OCIStmtExecute succeeds
Opened == endOfFetch' = FALSE /\ cursor' = "open" /\ failed' = FALSE

KeepRowbuf == UNCHANGED <<rowbufSize, rowbufIndex>>  \* mutant
ResetRowbuf == rowbufSize' = 0 /\ rowbufIndex' = 0

Exec(rows) ==
  /\ ~closed /\ execution < MaxExecutions
  /\ Opened /\ ResetRowbuf
  /\ execution' = execution + 1 /\ total' = rows /\ served' = 0 /\ waiting' = Nil
  /\ \/ described /\ UNCHANGED <<arraySize, handleSize, astray, described>>
     \/ /\ ~described /\ DefineColumns({})
        /\ astray' = astray \ {c \in Column : handleSize[c] = Nil}
  /\ answer' = NoAnswer
  /\ UNCHANGED <<hasLob, leftover, closed, buffer>>

\* exec raises when OCI has the new result: the row buffer is not reset
ResultWaits(rows) ==
  /\ ~closed /\ execution < MaxExecutions
  /\ Opened /\ waiting' = rows
  /\ answer' = Raised
  /\ UNCHANGED <<hasLob, closed, rowbufSize, rowbufIndex, buffer, execution, total, served>>

\* an exception of Ruby is pending when OCIStmtExecute is done
ExecInterrupted(rows) ==
  /\ ResultWaits(rows)
  /\ UNCHANGED <<handleVars, arraySize, described>>

\* the first exec raises in define_columns, whose array size and metadata are
\* set by then; the __define of one of the columns may have come to OCI.  As for
\* Define, no row waits in the buffers.
ExecDefineFails(rows, rest) ==
  /\ ~described /\ Buffered = 0
  /\ rest # {} /\ \A c \in rest : handleSize[c] = Nil
  /\ ResultWaits(rows)
  /\ DefineColumns(rest)
  /\ LET kept == {c \in astray : c \in rest \/ handleSize[c] # Nil} IN
     \/ astray' = kept /\ UNCHANGED leftover
     \/ \E c \in rest : /\ astray' = kept \union {c}
                      /\ leftover' = leftover \union {SizeFor(arraySize')}

\* OCIStmtExecute fails, which closes the earlier result, or is not called
\* because another call is on its way
ExecFails ==
  /\ ~closed
  /\ endOfFetch' = FALSE
  /\ \/ UNCHANGED <<cursor, waiting>>
     \/ cursor' = "done" /\ waiting' = Nil
  /\ failed' = TRUE
  /\ answer' = Raised
  /\ UNCHANGED <<objectVars, rowbufSize, rowbufIndex, buffer, execution, total, served>>

Close ==
  /\ ~closed
  /\ closed' = TRUE /\ described' = FALSE /\ leftover' = {}
  /\ answer' = NoAnswer
  /\ UNCHANGED <<hasLob, handleSize, astray, arraySize, rowbufSize, rowbufIndex,
                 endOfFetch, buffer, resultVars>>

-------------------------------------------------------------------------------
(***************************************************************************)
(* fetch and fetch_hash.                                                   *)
(***************************************************************************)

Defined == {c \in Column : handleSize[c] # Nil}

\* the row that get_data(i) of every define handle finds in a buffer
RowAt(buf, i) == {buf[c][i] : c \in Defined}

MustFetch == rowbufSize # Nil /\ rowbufSize = rowbufIndex

\* fetch_row_internal does not call __fetch
FetchBuffered ==
  /\ ~closed /\ rowbufSize # Nil /\ ~MustFetch
  /\ \/ /\ answer' = RowAt(buffer, rowbufIndex)
        /\ rowbufIndex' = rowbufIndex + 1
     \/ answer' = Raised /\ UNCHANGED rowbufIndex
  /\ UNCHANGED <<objectVars, rowbufSize, endOfFetch, buffer, resultVars>>

\* after the end, also when the cursor is closed
FetchEnded ==
  /\ rowbufSize = Nil
  /\ answer' = Ended
  /\ UNCHANGED <<objectVars, rowbufSize, rowbufIndex, endOfFetch, buffer, resultVars>>

\* the handles are freed: get_data or __fetch raises
FetchClosed ==
  /\ closed /\ rowbufSize # Nil
  /\ answer' = Raised
  /\ UNCHANGED <<objectVars, rowbufSize, rowbufIndex, endOfFetch, buffer, resultVars>>

\* __fetch when OCI has said OCI_NO_DATA before
FetchAtEnd ==
  /\ ~closed /\ MustFetch /\ endOfFetch
  /\ rowbufSize' = Nil /\ rowbufIndex' = 0 /\ answer' = Ended
  /\ UNCHANGED <<objectVars, endOfFetch, buffer, resultVars>>

Rows == SizeFor(arraySize)

\* __fetch compares the number of rows with the size of each linked handle
SizesDiffer ==
  Rows > 1 /\ \E size \in {handleSize[c] : c \in Defined} \union leftover : size # Rows

FetchMismatch ==
  /\ ~closed /\ MustFetch /\ ~endOfFetch /\ SizesDiffer
  /\ answer' = Raised
  /\ UNCHANGED <<objectVars, rowbufSize, rowbufIndex, endOfFetch, buffer, resultVars>>

CanFetch == ~closed /\ MustFetch /\ ~endOfFetch /\ ~SizesDiffer

Fetchable == CanFetch /\ cursor = "open" /\ Defined \union astray # {}

\* OCI refuses: there is no open result, or no column is defined
FetchRefused ==
  /\ CanFetch /\ ~Fetchable
  /\ answer' = Raised
  /\ UNCHANGED <<objectVars, rowbufSize, rowbufIndex, endOfFetch, buffer, resultVars>>

\* the result that OCI has open
Result ==
  IF waiting = Nil THEN [execution |-> execution, total |-> total, served |-> served]
  ELSE [execution |-> execution + 1, total |-> waiting, served |-> 0]

\* OCIStmtFetch puts the next k rows into the buffers
Filled(k) ==
  [c \in Column |->
     IF c \in Defined \ astray
     THEN [i \in Element |-> IF i < k THEN <<Result.execution, Result.served + i + 1>>
                             ELSE buffer[c][i]]
     ELSE buffer[c]]

Available ==
  IF Result.total - Result.served < Rows THEN Result.total - Result.served ELSE Rows

\* OCI_SUCCESS with all the rows asked for, or OCI_NO_DATA with fewer
CursorAfter == IF Available < Rows THEN "done" ELSE "open"

EndAfterFetch == Available < Rows

\* OCIStmtFetch has put k rows into the buffers
Served(k) ==
  /\ buffer' = Filled(k)
  /\ execution' = Result.execution /\ total' = Result.total
  /\ served' = Result.served + k /\ waiting' = Nil

\* __fetch succeeds and fetch returns the first row of the buffers, or raises
\* while it converts a value of that row
Fetch ==
  /\ Fetchable /\ Available > 0
  /\ Served(Available)
  /\ cursor' = CursorAfter /\ endOfFetch' = EndAfterFetch
  /\ rowbufSize' = Available
  /\ \/ answer' = RowAt(Filled(Available), 0) /\ rowbufIndex' = 1
     \/ answer' = Raised /\ rowbufIndex' = 0
  /\ UNCHANGED <<objectVars, failed>>

\* OCI_ATTR_ROWS_FETCHED is zero: __fetch returns nil
FetchNothing ==
  /\ Fetchable /\ Available = 0
  /\ Served(0)
  /\ cursor' = CursorAfter /\ endOfFetch' = EndAfterFetch
  /\ rowbufSize' = Nil /\ rowbufIndex' = 0 /\ answer' = Ended
  /\ UNCHANGED <<objectVars, failed>>

\* OCI fails after k rows, or an exception is pending when all of them have
\* been fetched: the rows in the buffers are never returned
FetchRaises(k) ==
  /\ Fetchable /\ k <= Available
  /\ Served(k)
  /\ \/ k < Available /\ cursor' \in {"open", "done"}
     \/ k = Available /\ cursor' = CursorAfter
  /\ failed' = TRUE /\ answer' = Raised
  /\ UNCHANGED <<objectVars, rowbufSize, rowbufIndex, endOfFetch>>

FetchStep ==
  \/ FetchBuffered \/ FetchEnded \/ FetchClosed \/ FetchAtEnd \/ FetchMismatch
  \/ FetchRefused \/ Fetch \/ FetchNothing
  \/ \E k \in 0 .. PrefetchRows : FetchRaises(k)

FetchNext ==
  \/ \E c \in Column : Define(c) \/ DefineRaises(c)
  \/ CollectLeftover
  \/ \E rows \in 0 .. MaxRows : Exec(rows) \/ ExecInterrupted(rows)
  \/ \E rows \in 0 .. MaxRows, rest \in SUBSET Column : ExecDefineFails(rows, rest)
  \/ ExecFails \/ Close \/ FetchStep

FetchSpec == FetchInit /\ [][FetchNext]_fetchVars

-------------------------------------------------------------------------------
(***************************************************************************)
(* Properties.                                                             *)
(***************************************************************************)

RowType == {Nil} \union ((0 .. MaxExecutions) \X (1 .. MaxRows))

\* Every variable keeps its type, and the index stays inside the row buffer.
TypeOK ==
  /\ hasLob \in BOOLEAN /\ described \in BOOLEAN /\ closed \in BOOLEAN
  /\ endOfFetch \in BOOLEAN /\ failed \in BOOLEAN
  /\ handleSize \in [Column -> {Nil, 1, PrefetchRows}]
  /\ astray \subseteq Column /\ leftover \subseteq {1, PrefetchRows}
  /\ arraySize \in {Nil, PrefetchRows}
  /\ rowbufSize \in {Nil} \union 0 .. PrefetchRows
  /\ rowbufIndex \in 0 .. PrefetchRows
  /\ rowbufSize # Nil => rowbufIndex <= rowbufSize
  /\ buffer \in [Column -> [Element -> RowType]]
  /\ cursor \in {"none", "open", "done"}
  /\ execution \in 0 .. MaxExecutions /\ total \in 0 .. MaxRows
  /\ served \in 0 .. total /\ waiting \in {Nil} \union 0 .. MaxRows
  /\ answer \in {NoAnswer, Raised, Ended} \union SUBSET RowType

\* The number of rows that a fetch asks OCI for is the array size of every define
\* handle, whether the program or define_columns made it and however define and
\* exec alternate: __fetch never raises "fetch size != define-handle size", unless
\* a __define has raised and left a handle behind.  And OCI is not asked for rows
\* again once it has said OCI_NO_DATA for a batch that still had rows, which would
\* raise; unless that answer was lost in an exception.
FetchesAsAgreed ==
  /\ ~closed /\ leftover = {} => ~SizesDiffer
  /\ CanFetch /\ cursor = "done" => failed

\* Seen from outside the cursor is a stream of rows, although rows are fetched in
\* batches, buffers are reused by later executions and any call may raise.  As
\* long as OCI fills the buffer of a handle whose __define raised, nothing is
\* said of the rows: the cursor returns what its own buffers hold.
Stream == INSTANCE RowStream WITH
            position <- served - Buffered,
            NoResult <- Nil,
            answer <- IF astray = {} THEN answer ELSE Raised

ImplementsRowStream == Stream!Spec
===============================================================================
