----------------------------- MODULE CursorProofs -----------------------------
(***************************************************************************)
(* For any number of columns and any sizes, a cursor delivers its rows as  *)
(* RowStream says, and fetch and define handles agree on the batch size;   *)
(* for any placeholders, handles and values, and any sequence of bindings, *)
(* assignments and sizes with failures in between, exec_array sends the    *)
(* arrays that were assigned; for any texts and chunks, a LONG bind        *)
(* variable reads and sends the text that it was given.                    *)
(***************************************************************************)
EXTENDS Cursor, Recursion, SequenceTheorems

(***************************************************************************)
(* The inductive invariant of RowFetch.                                    *)
(***************************************************************************)

\* The types that the steps need.
FetchTypes ==
  /\ hasLob \in BOOLEAN /\ described \in BOOLEAN /\ closed \in BOOLEAN
  /\ endOfFetch \in BOOLEAN /\ failed \in BOOLEAN
  /\ handleSize \in [Column -> {Nil} \union Nat]
  /\ rowbufSize \in {Nil} \union 0 .. PrefetchRows /\ rowbufIndex \in Nat
  /\ execution \in Nat /\ total \in Nat /\ served \in 0 .. total
  /\ waiting \in {Nil} \union Nat

\* All handles have the size that fetch asks for.
OneSize ==
  /\ arraySize \in {Nil, PrefetchRows}
  /\ \A c \in Column : handleSize[c] \in {Nil, SizeFor(arraySize)}

\* The index is inside the batch, and a batch of which rows are left is a part of
\* what was served.
BatchServed ==
  rowbufSize # Nil =>
    /\ rowbufIndex <= rowbufSize
    /\ rowbufIndex < rowbufSize => rowbufSize <= served

\* nil is answered only when all rows were served.
EndMeansAll == (rowbufSize = Nil \/ endOfFetch) => served = total

\* The elements that fetch has not returned yet hold the next rows, unless OCI has
\* put them elsewhere.
Contents ==
  rowbufSize # Nil /\ rowbufIndex < rowbufSize /\ astray = {} =>
    /\ Defined # {}
    /\ \A c \in Defined : \A i \in rowbufIndex .. rowbufSize - 1 :
         buffer[c][i] = <<execution, (served - rowbufSize) + i + 1>>

\* A result that is used up without a failure is known to be.
DoneIsKnown == cursor = "done" => failed \/ endOfFetch

FetchInv ==
  /\ FetchTypes /\ OneSize /\ BatchServed /\ EndMeansAll
  /\ Contents /\ DoneIsKnown

-------------------------------------------------------------------------------

\* A new cursor satisfies the invariant of fetching.
LEMMA FetchInitInv == FetchInit => FetchInv
<1> SUFFICES ASSUME FetchInit PROVE FetchInv OBVIOUS
<1>1. FetchTypes
  <2>1. handleSize \in [Column -> {Nil} \union Nat]
    BY DEF FetchInit
  <2>2. /\ rowbufSize \in {Nil} \union 0 .. PrefetchRows /\ rowbufIndex \in Nat
        /\ execution \in Nat /\ total \in Nat /\ served \in 0 .. total
        /\ waiting \in {Nil} \union Nat
    BY PrefetchAssumption, SMT DEF FetchInit
  <2>3. /\ hasLob \in BOOLEAN /\ described \in BOOLEAN /\ closed \in BOOLEAN
        /\ endOfFetch \in BOOLEAN /\ failed \in BOOLEAN
    BY Zenon DEF FetchInit
  <2> QED BY <2>1, <2>2, <2>3 DEF FetchTypes
<1>2. OneSize BY DEF FetchInit, OneSize
<1>3. BatchServed /\ EndMeansAll /\ Contents /\ DoneIsKnown
  BY NilAssumption DEF FetchInit, BatchServed, EndMeansAll, Contents, DoneIsKnown
<1> QED BY <1>1, <1>2, <1>3 DEF FetchInv

\* The array size that is chosen for a column is between one and the prefetch rows.
LEMMA SizeForNat == ASSUME OneSize PROVE SizeFor(arraySize) \in 1 .. PrefetchRows
BY PrefetchAssumption DEF OneSize, SizeFor

\* What define_columns does to the handles and their size.
LEMMA DefineColumnsInv ==
  ASSUME FetchTypes, OneSize, NEW rest, DefineColumns(rest)
  PROVE  /\ OneSize'
         /\ handleSize' \in [Column -> {Nil} \union Nat]
<1>1. ChosenSize \in {Nil, PrefetchRows} BY DEF ChosenSize, OneSize
<1>2. SizeFor(ChosenSize) \in Nat BY <1>1, PrefetchAssumption DEF SizeFor
<1>3. \A c \in Column : handleSize[c] \in {Nil, SizeFor(ChosenSize)}
  BY DEF ChosenSize, OneSize
<1>4. arraySize' = ChosenSize BY DEF DefineColumns
<1>5. \A c \in Column : handleSize'[c] \in {Nil, SizeFor(ChosenSize)}
  BY <1>3 DEF DefineColumns
<1>6. OneSize'
  BY <1>1, <1>4, <1>5 DEF OneSize, SizeFor
<1>7. handleSize' \in [Column -> {Nil} \union Nat]
  BY <1>2, <1>5 DEF DefineColumns
<1> QED BY <1>6, <1>7

\* Calls that change nothing but the answer and the handles that are left behind.
LEMMA QuietInv ==
  ASSUME FetchInv, astray \subseteq astray',
         UNCHANGED <<hasLob, handleSize, described, arraySize, closed, rowbufSize,
                     rowbufIndex, endOfFetch, buffer, resultVars>>
  PROVE  FetchInv'
<1> USE DEF resultVars
<1>1. FetchTypes' BY DEF FetchInv, FetchTypes
<1>2. OneSize' BY DEF FetchInv, OneSize, SizeFor
<1>3. BatchServed' /\ EndMeansAll' /\ DoneIsKnown'
  BY DEF FetchInv, BatchServed, EndMeansAll, DoneIsKnown
<1>4. Contents' BY DEF FetchInv, Contents, Defined
<1> QED BY <1>1, <1>2, <1>3, <1>4 DEF FetchInv

\* A define makes a handle of the size of the cursor.
LEMMA DefineInv ==
  ASSUME FetchInv, NEW c \in Column, Define(c)
  PROVE  FetchInv'
<1> USE DEF resultVars
<1>1. FetchTypes'
  BY SizeForNat DEF FetchInv, FetchTypes, Define
<1>2. OneSize' BY DEF FetchInv, FetchTypes, OneSize, Define, SizeFor
<1>3. BatchServed' /\ EndMeansAll' /\ DoneIsKnown'
  BY DEF FetchInv, BatchServed, EndMeansAll, DoneIsKnown, Define
<1>4. Contents'
  <2>1. rowbufSize = Nil \/ rowbufSize = rowbufIndex
    BY NilAssumption DEF FetchInv, FetchTypes, Define, Buffered
  <2> QED BY <2>1, NilAssumption DEF FetchInv, FetchTypes, Contents, Define
<1> QED BY <1>1, <1>2, <1>3, <1>4 DEF FetchInv

\* An execution starts a result with no row fetched.
LEMMA ExecInv ==
  ASSUME FetchInv, NEW rows \in 0 .. MaxRows, Exec(rows)
  PROVE  FetchInv'
<1> USE DEF Opened, ResetRowbuf
<1>1. OneSize' /\ handleSize' \in [Column -> {Nil} \union Nat]
  <2>1. CASE described
    BY <2>1 DEF FetchInv, FetchTypes, OneSize, Exec, SizeFor
  <2>2. CASE ~described
    BY <2>2, DefineColumnsInv DEF FetchInv, Exec
  <2> QED BY <2>1, <2>2
<1>2. FetchTypes'
  <2>1. /\ rowbufSize' \in {Nil} \union 0 .. PrefetchRows /\ rowbufIndex' \in Nat
        /\ execution' \in Nat /\ total' \in Nat /\ served' \in 0 .. total'
        /\ waiting' \in {Nil} \union Nat
    BY PrefetchAssumption, BoundAssumption DEF FetchInv, FetchTypes, Exec
  <2>2. /\ hasLob' \in BOOLEAN /\ described' \in BOOLEAN /\ closed' \in BOOLEAN
        /\ endOfFetch' \in BOOLEAN /\ failed' \in BOOLEAN
    BY Zenon DEF FetchInv, FetchTypes, Exec, DefineColumns
  <2> QED BY <1>1, <2>1, <2>2 DEF FetchTypes
<1>3. BatchServed' /\ Contents' /\ DoneIsKnown'
  BY DEF BatchServed, Contents, DoneIsKnown, Exec
<1>4. EndMeansAll'
  BY NilAssumption DEF EndMeansAll, Exec
<1> QED BY <1>1, <1>2, <1>3, <1>4 DEF FetchInv

\* A result that waits leaves the rows that were fetched before it.
LEMMA ResultWaitsInv ==
  ASSUME FetchInv, NEW rows \in 0 .. MaxRows, ResultWaits(rows)
  PROVE  /\ rowbufSize' \in {Nil} \union 0 .. PrefetchRows /\ rowbufIndex' \in Nat
         /\ execution' \in Nat /\ total' \in Nat /\ served' \in 0 .. total'
         /\ waiting' \in {Nil} \union Nat
         /\ hasLob' \in BOOLEAN /\ closed' \in BOOLEAN
         /\ endOfFetch' \in BOOLEAN /\ failed' \in BOOLEAN
         /\ BatchServed' /\ EndMeansAll' /\ DoneIsKnown'
<1> USE DEF ResultWaits, Opened
<1>1. rows \in Nat BY BoundAssumption
<1>2. /\ rowbufSize' \in {Nil} \union 0 .. PrefetchRows /\ rowbufIndex' \in Nat
      /\ execution' \in Nat /\ total' \in Nat /\ served' \in 0 .. total'
      /\ waiting' \in {Nil} \union Nat
  BY <1>1 DEF FetchInv, FetchTypes
<1>3. /\ hasLob' \in BOOLEAN /\ closed' \in BOOLEAN
      /\ endOfFetch' \in BOOLEAN /\ failed' \in BOOLEAN
  BY Zenon DEF FetchInv, FetchTypes
<1>4. BatchServed' /\ EndMeansAll' /\ DoneIsKnown'
  BY DEF FetchInv, BatchServed, EndMeansAll, DoneIsKnown
<1> QED BY <1>2, <1>3, <1>4

\* An execution that is interrupted when OCI has the result keeps the invariant.
LEMMA ExecInterruptedInv ==
  ASSUME FetchInv, NEW rows \in 0 .. MaxRows, ExecInterrupted(rows)
  PROVE  FetchInv'
<1> USE DEF ExecInterrupted, handleVars
<1>1. FetchTypes' BY ResultWaitsInv DEF FetchInv, FetchTypes
<1>2. OneSize' BY DEF FetchInv, OneSize, SizeFor
<1>3. Contents' BY DEF FetchInv, Contents, Defined, ResultWaits
<1> QED BY <1>1, <1>2, <1>3, ResultWaitsInv DEF FetchInv

\* An execution in which a define raises keeps the invariant.
LEMMA ExecDefineFailsInv ==
  ASSUME FetchInv, NEW rows \in 0 .. MaxRows, NEW rest \in SUBSET Column,
         ExecDefineFails(rows, rest)
  PROVE  FetchInv'
<1>1. OneSize' /\ handleSize' \in [Column -> {Nil} \union Nat]
  BY DefineColumnsInv DEF FetchInv, ExecDefineFails
<1>2. ResultWaits(rows) /\ described' = TRUE
  BY DEF ExecDefineFails, DefineColumns
<1>3. FetchTypes' BY <1>1, <1>2, ResultWaitsInv DEF FetchTypes
<1>4. Contents'
  <2>1. rowbufSize = Nil \/ rowbufSize = rowbufIndex
    BY NilAssumption, PrefetchAssumption
    DEF FetchInv, FetchTypes, ExecDefineFails, Buffered
  <2>2. rowbufSize' = rowbufSize /\ rowbufIndex' = rowbufIndex
    BY <1>2 DEF ResultWaits
  <2> QED BY <2>1, <2>2, <1>3, NilAssumption, PrefetchAssumption DEF FetchTypes, Contents
<1> QED BY <1>1, <1>2, <1>3, <1>4, ResultWaitsInv DEF FetchInv

\* An execution that OCI refuses keeps the invariant.
LEMMA ExecFailsInv == ASSUME FetchInv, ExecFails PROVE FetchInv'
<1> USE DEF objectVars, handleVars
<1>1. FetchTypes' BY DEF FetchInv, FetchTypes, ExecFails
<1>2. OneSize' BY DEF FetchInv, OneSize, SizeFor, ExecFails
<1>3. BatchServed' /\ EndMeansAll' /\ DoneIsKnown'
  BY DEF FetchInv, BatchServed, EndMeansAll, DoneIsKnown, ExecFails
<1>4. Contents' BY DEF FetchInv, Contents, Defined, ExecFails
<1> QED BY <1>1, <1>2, <1>3, <1>4 DEF FetchInv

\* Closing the cursor keeps the invariant.
LEMMA CloseInv == ASSUME FetchInv, Close PROVE FetchInv'
<1> USE DEF resultVars
<1>1. FetchTypes' BY DEF FetchInv, FetchTypes, Close
<1>2. OneSize' BY DEF FetchInv, OneSize, SizeFor, Close
<1>3. BatchServed' /\ EndMeansAll' /\ DoneIsKnown'
  BY DEF FetchInv, BatchServed, EndMeansAll, DoneIsKnown, Close
<1>4. Contents' BY DEF FetchInv, Contents, Defined, Close
<1> QED BY <1>1, <1>2, <1>3, <1>4 DEF FetchInv

\* A row out of the buffers keeps the invariant.
LEMMA FetchBufferedInv == ASSUME FetchInv, FetchBuffered PROVE FetchInv'
<1> USE DEF objectVars, handleVars, resultVars
<1>1. rowbufSize \in 0 .. PrefetchRows /\ rowbufIndex < rowbufSize
  BY PrefetchAssumption DEF FetchInv, FetchTypes, BatchServed, FetchBuffered, MustFetch
<1>2. rowbufIndex' \in {rowbufIndex, rowbufIndex + 1} BY DEF FetchBuffered
<1>3. FetchTypes' BY <1>2 DEF FetchInv, FetchTypes, FetchBuffered
<1>4. OneSize' BY DEF FetchInv, OneSize, SizeFor, FetchBuffered
<1>5. EndMeansAll' /\ DoneIsKnown'
  BY DEF FetchInv, EndMeansAll, DoneIsKnown, FetchBuffered
<1>6. BatchServed'
  BY <1>1, <1>2, PrefetchAssumption DEF FetchInv, FetchTypes, BatchServed, FetchBuffered
<1>7. Contents'
  <2>1. ASSUME NEW i \in rowbufIndex' .. rowbufSize - 1
        PROVE  i \in rowbufIndex .. rowbufSize - 1
    BY <1>1, <1>2, PrefetchAssumption DEF FetchInv, FetchTypes
  <2> QED BY <1>1, <2>1 DEF FetchInv, Contents, Defined, FetchBuffered
<1> QED BY <1>3, <1>4, <1>5, <1>6, <1>7 DEF FetchInv

\* A fetch behind the last row keeps the invariant.
LEMMA FetchAtEndInv == ASSUME FetchInv, FetchAtEnd PROVE FetchInv'
<1> USE DEF objectVars, handleVars, resultVars
<1>1. FetchTypes' BY DEF FetchInv, FetchTypes, FetchAtEnd
<1>2. OneSize' BY DEF FetchInv, OneSize, SizeFor, FetchAtEnd
<1>3. BatchServed' /\ EndMeansAll' /\ Contents' /\ DoneIsKnown'
  BY DEF FetchInv, BatchServed, EndMeansAll, Contents, DoneIsKnown, FetchAtEnd
<1> QED BY <1>1, <1>2, <1>3 DEF FetchInv

\* The result that OCI has open has been served in part or not at all.
LEMMA ResultFacts ==
  ASSUME FetchInv
  PROVE  /\ Result.execution \in Nat /\ Result.total \in Nat
         /\ Result.served \in 0 .. Result.total
BY DEF FetchInv, FetchTypes, Result

\* OCI puts at most as many rows into the buffers as they have elements.
LEMMA AvailableFits ==
  ASSUME FetchInv
  PROVE  /\ Rows \in 1 .. PrefetchRows /\ Available \in 0 .. Rows
         /\ Result.served + Available <= Result.total
         /\ Available < Rows => Result.served + Available = Result.total
<1>1. Rows \in 1 .. PrefetchRows BY SizeForNat DEF FetchInv, Rows
<1> QED BY <1>1, ResultFacts, PrefetchAssumption DEF Available

\* What OCI has put into the buffers is a part of the result.
LEMMA ServedTypes ==
  ASSUME FetchInv, NEW k \in Nat, k <= Available, Served(k)
  PROVE  /\ execution' \in Nat /\ total' \in Nat /\ served' \in 0 .. total'
         /\ waiting' \in {Nil} \union Nat
BY ResultFacts, AvailableFits, PrefetchAssumption DEF Served

\* A fetch that fills the buffers keeps the invariant.
LEMMA FetchKeepsInv == ASSUME FetchInv, Fetch PROVE FetchInv'
<1> USE DEF objectVars, handleVars
<1>1. /\ Rows \in 1 .. PrefetchRows /\ Available \in 1 .. Rows
      /\ Result.served + Available <= Result.total
      /\ Available < Rows => Result.served + Available = Result.total
  BY AvailableFits, PrefetchAssumption DEF Fetch
<1>2. /\ rowbufSize' = Available /\ rowbufIndex' \in {0, 1}
      /\ served' = Result.served + Available /\ total' = Result.total
      /\ execution' = Result.execution
      /\ rowbufSize' # Nil
  BY <1>1, NilAssumption, PrefetchAssumption DEF Fetch, Served
<1>3. Result.total \in Nat /\ Result.served \in 0 .. Result.total BY ResultFacts
<1>4. FetchTypes'
  <2>1. /\ rowbufSize' \in {Nil} \union 0 .. PrefetchRows /\ rowbufIndex' \in Nat
    BY <1>1, <1>2, PrefetchAssumption
  <2>2. /\ execution' \in Nat /\ total' \in Nat /\ served' \in 0 .. total'
        /\ waiting' \in {Nil} \union Nat
    BY <1>1, ServedTypes, PrefetchAssumption DEF Fetch
  <2>3. /\ hasLob' \in BOOLEAN /\ described' \in BOOLEAN /\ closed' \in BOOLEAN
        /\ endOfFetch' \in BOOLEAN /\ failed' \in BOOLEAN
        /\ handleSize' \in [Column -> {Nil} \union Nat]
    BY DEF FetchInv, FetchTypes, Fetch, EndAfterFetch
  <2> QED BY <2>1, <2>2, <2>3 DEF FetchTypes
<1>5. OneSize' BY DEF FetchInv, OneSize, SizeFor, Fetch
<1>6. BatchServed'
  BY <1>1, <1>2, <1>3, PrefetchAssumption DEF BatchServed
<1>7. EndMeansAll'
  BY <1>1, <1>2, <1>3 DEF EndMeansAll, Fetch, EndAfterFetch
<1>8. DoneIsKnown' BY DEF DoneIsKnown, Fetch, CursorAfter, EndAfterFetch
<1>9. Contents'
  <2>1. Defined' = Defined /\ astray' = astray /\ (astray = {} => Defined # {})
    BY DEF Fetch, Fetchable, Defined
  <2>2. ASSUME NEW c \in Defined, NEW i \in 0 .. Available - 1, astray = {}
        PROVE  buffer'[c][i] = <<Result.execution, Result.served + i + 1>>
    <3>1. c \in Column /\ c \in Defined \ astray BY <2>2 DEF Defined
    <3>2. i \in Element /\ i < Available
      BY <1>1, PrefetchAssumption DEF Element
    <3>3. buffer' = Filled(Available) BY DEF Fetch, Served
    <3> QED BY <3>1, <3>2, <3>3 DEF Filled
  <2>3. (served' - rowbufSize') = Result.served BY <1>1, <1>2, <1>3, PrefetchAssumption
  <2>4. \A i \in rowbufIndex' .. rowbufSize' - 1 : i \in 0 .. Available - 1
    BY <1>1, <1>2, PrefetchAssumption
  <2> QED BY <1>2, <2>1, <2>2, <2>3, <2>4 DEF Contents
<1> QED BY <1>4, <1>5, <1>6, <1>7, <1>8, <1>9 DEF FetchInv

\* A fetch that finds no further row keeps the invariant.
LEMMA FetchNothingInv == ASSUME FetchInv, FetchNothing PROVE FetchInv'
<1> USE DEF objectVars, handleVars
<1>1. served' = total'
  BY AvailableFits, ResultFacts, PrefetchAssumption DEF FetchNothing, Served
<1>2. FetchTypes'
  <2>1. /\ execution' \in Nat /\ total' \in Nat /\ served' \in 0 .. total'
        /\ waiting' \in {Nil} \union Nat
    BY ServedTypes DEF FetchNothing
  <2> QED BY <2>1 DEF FetchInv, FetchTypes, FetchNothing, EndAfterFetch
<1>3. OneSize' BY DEF FetchInv, OneSize, SizeFor, FetchNothing
<1>4. BatchServed' /\ EndMeansAll' /\ Contents'
  BY <1>1 DEF BatchServed, EndMeansAll, Contents, FetchNothing
<1>5. DoneIsKnown' BY DEF DoneIsKnown, FetchNothing, CursorAfter, EndAfterFetch
<1> QED BY <1>2, <1>3, <1>4, <1>5 DEF FetchInv

\* A fetch that raises keeps the invariant.
LEMMA FetchRaisesInv ==
  ASSUME FetchInv, NEW k \in 0 .. PrefetchRows, FetchRaises(k)
  PROVE  FetchInv'
<1> USE DEF objectVars, handleVars
<1>1. k \in Nat /\ k <= Available BY PrefetchAssumption DEF FetchRaises
<1>2. /\ rowbufSize \in 0 .. PrefetchRows /\ rowbufIndex = rowbufSize /\ rowbufSize # Nil
      /\ ~endOfFetch
  BY DEF FetchInv, FetchTypes, FetchRaises, Fetchable, CanFetch, MustFetch
<1>3. FetchTypes'
  <2>1. /\ execution' \in Nat /\ total' \in Nat /\ served' \in 0 .. total'
        /\ waiting' \in {Nil} \union Nat
    BY <1>1, ServedTypes DEF FetchRaises
  <2>2. /\ hasLob' \in BOOLEAN /\ described' \in BOOLEAN /\ closed' \in BOOLEAN
        /\ endOfFetch' \in BOOLEAN /\ failed' \in BOOLEAN
        /\ handleSize' \in [Column -> {Nil} \union Nat]
        /\ rowbufSize' \in {Nil} \union 0 .. PrefetchRows /\ rowbufIndex' \in Nat
    BY DEF FetchInv, FetchTypes, FetchRaises
  <2> QED BY <2>1, <2>2 DEF FetchTypes
<1>4. OneSize' BY DEF FetchInv, OneSize, SizeFor, FetchRaises
<1>5. BatchServed' /\ Contents'
  BY <1>2, PrefetchAssumption DEF BatchServed, Contents, FetchRaises
<1>6. EndMeansAll' BY <1>2 DEF EndMeansAll, FetchRaises
<1>7. DoneIsKnown' BY DEF DoneIsKnown, FetchRaises
<1> QED BY <1>3, <1>4, <1>5, <1>6, <1>7 DEF FetchInv

\* Every step of fetching keeps the invariant.
LEMMA FetchNextInv == FetchInv /\ [FetchNext]_fetchVars => FetchInv'
<1> SUFFICES ASSUME FetchInv, [FetchNext]_fetchVars PROVE FetchInv'
  OBVIOUS
<1> USE DEF objectVars, handleVars
<1>1. CASE UNCHANGED fetchVars
  BY <1>1, QuietInv DEF fetchVars
<1>2. ASSUME NEW c \in Column, Define(c) \/ DefineRaises(c) PROVE FetchInv'
  BY <1>2, DefineInv, QuietInv DEF DefineRaises, Strays
<1>3. CASE CollectLeftover
  BY <1>3, QuietInv DEF CollectLeftover
<1>4. ASSUME NEW rows \in 0 .. MaxRows, Exec(rows) \/ ExecInterrupted(rows)
      PROVE  FetchInv'
  BY <1>4, ExecInv, ExecInterruptedInv
<1>5. ASSUME NEW rows \in 0 .. MaxRows, NEW rest \in SUBSET Column,
             ExecDefineFails(rows, rest)
      PROVE  FetchInv'
  BY <1>5, ExecDefineFailsInv
<1>6. CASE ExecFails BY <1>6, ExecFailsInv
<1>7. CASE Close BY <1>7, CloseInv
<1>8. CASE FetchStep
  <2>1. CASE FetchEnded \/ FetchClosed \/ FetchMismatch \/ FetchRefused
    BY <2>1, QuietInv DEF FetchEnded, FetchClosed, FetchMismatch, FetchRefused
  <2>2. CASE FetchBuffered BY <2>2, FetchBufferedInv
  <2>3. CASE FetchAtEnd BY <2>3, FetchAtEndInv
  <2>4. CASE Fetch BY <2>4, FetchKeepsInv
  <2>5. CASE FetchNothing BY <2>5, FetchNothingInv
  <2>6. ASSUME NEW k \in 0 .. PrefetchRows, FetchRaises(k) PROVE FetchInv'
    BY <2>6, FetchRaisesInv
  <2> QED BY <1>8, <2>1, <2>2, <2>3, <2>4, <2>5, <2>6 DEF FetchStep
<1> QED BY <1>1, <1>2, <1>3, <1>4, <1>5, <1>6, <1>7, <1>8 DEF FetchNext

\* With one size for all handles fetch finds no mismatch.
LEMMA SizesAgreeNow == OneSize /\ leftover = {} => ~SizesDiffer
<1> SUFFICES ASSUME OneSize, Rows > 1, NEW c \in Defined PROVE handleSize[c] = Rows
  BY DEF SizesDiffer
<1>1. c \in Column /\ handleSize[c] # Nil BY DEF Defined
<1> QED BY <1>1 DEF OneSize, Rows

(***************************************************************************)
(* Every step of a query is a step of the row stream.                      *)
(***************************************************************************)

\* The rows in the buffers are some of those that were served.
LEMMA BufferedNat ==
  ASSUME FetchInv
  PROVE  /\ Buffered \in 0 .. served /\ served \in 0 .. total /\ total \in Nat
         /\ served - Buffered \in (served - Buffered) .. total
BY PrefetchAssumption DEF FetchInv, FetchTypes, BatchServed, Buffered

\* The next element of the buffers is the next row of the stream.
LEMMA NextElement ==
  ASSUME FetchInv, astray = {}, rowbufSize # Nil, rowbufIndex < rowbufSize
  PROVE  RowAt(buffer, rowbufIndex) = {<<execution, (served - Buffered) + 1>>}
<1>1. rowbufSize \in 0 .. PrefetchRows /\ rowbufIndex \in Nat /\ served \in Nat
  BY DEF FetchInv, FetchTypes
<1>2. rowbufIndex \in rowbufIndex .. rowbufSize - 1
  BY <1>1, PrefetchAssumption
<1>3. (served - rowbufSize) + rowbufIndex + 1 = (served - Buffered) + 1
  BY <1>1, PrefetchAssumption DEF Buffered
<1>4. Defined # {} /\ \A c \in Defined :
        buffer[c][rowbufIndex] = <<execution, (served - Buffered) + 1>>
  BY <1>2, <1>3 DEF FetchInv, Contents
<1> QED BY <1>4 DEF RowAt

\* What the caller can see.
Seen == IF astray = {} THEN answer ELSE Raised
seenVars == <<execution, total, served - Buffered, waiting, Seen>>

\* A call that raises, or of which nothing can be said, and moves nothing.
LEMMA RaiseStreams ==
  ASSUME FetchInv, Seen' = Raised,
         UNCHANGED <<execution, total, waiting, served, rowbufSize, rowbufIndex>>
  PROVE  Stream!Raise
<1>1. served' - Buffered' = served - Buffered BY DEF Buffered
<1> QED BY <1>1, BufferedNat DEF Stream!Raise, Seen

\* A fetch that comes to OCI goes on with its result, or takes the one that waits.
LEMMA ServedStreams ==
  ASSUME FetchInv, FetchInv', MustFetch, NEW k \in Nat, k <= Available, Served(k),
         \/ Seen' = Raised
         \/ /\ Seen' = {<<Result.execution, Result.served + 1>>}
            /\ k > 0 /\ Buffered' = k - 1
         \/ Seen' = Ended /\ k = 0 /\ Buffered' = 0 /\ Result.served = Result.total,
         Buffered' \in 0 .. k
  PROVE  Stream!Next
<1> DEFINE r == Result  pos == (served - Buffered)'
<1>1. Buffered = 0 /\ served - Buffered = served
  BY PrefetchAssumption DEF FetchInv, FetchTypes, MustFetch, Buffered
<1>2. /\ r.execution \in Nat /\ r.total \in Nat /\ r.served \in 0 .. r.total
      /\ r.served + k <= r.total
  BY ResultFacts, AvailableFits, PrefetchAssumption
<1>3. /\ execution' = r.execution /\ total' = r.total /\ served' = r.served + k
      /\ waiting' = Nil
  BY DEF Served
<1>4. CASE waiting = Nil
  <2>1. r.execution = execution /\ r.total = total /\ r.served = served
    BY <1>4 DEF Result
  <2>2. CASE Seen' = Raised
    <3>1. pos \in (served - Buffered) .. total BY <1>1, <1>2, <1>3, <2>1
    <3> QED BY <1>3, <1>4, <2>1, <2>2, <3>1 DEF Stream!Next, Stream!Raise, Seen
  <2>3. CASE /\ Seen' = {<<r.execution, r.served + 1>>}
             /\ k > 0 /\ Buffered' = k - 1
    <3>1. pos = (served - Buffered) + 1 /\ served - Buffered < total
      BY <1>1, <1>2, <1>3, <2>1, <2>3
    <3> QED BY <1>1, <1>3, <1>4, <2>1, <2>3, <3>1 DEF Stream!Next, Stream!NextRow, Seen
  <2>4. CASE Seen' = Ended /\ k = 0 /\ Buffered' = 0 /\ r.served = r.total
    <3>1. pos = served - Buffered /\ served - Buffered = total
      BY <1>1, <1>2, <1>3, <2>1, <2>4
    <3> QED BY <1>3, <1>4, <2>1, <2>4, <3>1 DEF Stream!Next, Stream!End, Seen
  <2> QED BY <2>2, <2>3, <2>4
<1>5. CASE waiting # Nil
  <2>1. r.execution = execution + 1 /\ r.total = waiting /\ r.served = 0
    BY <1>5 DEF Result
  <2>2. CASE Seen' = Raised
    <3>1. served' = k /\ k <= waiting /\ waiting \in Nat BY <1>2, <1>3, <2>1
    <3>2. \A b, n, w \in Nat : b <= n /\ n <= w => n - b \in 0 .. w OBVIOUS
    <3>3. pos = k - Buffered' /\ Buffered' \in Nat /\ Buffered' <= k BY <3>1
    <3>4. pos \in 0 .. waiting BY <3>1, <3>2, <3>3
    <3> QED BY <1>3, <1>5, <2>1, <2>2, <3>4 DEF Stream!Next, Stream!TakeOver, Seen
  <2>3. CASE /\ Seen' = {<<r.execution, r.served + 1>>}
             /\ k > 0 /\ Buffered' = k - 1
    <3>1. pos = 1 /\ waiting > 0 /\ r.served + 1 = 1 BY <1>2, <1>3, <2>1, <2>3
    <3> QED BY <1>3, <1>5, <2>1, <2>3, <3>1 DEF Stream!Next, Stream!TakeOver, Seen
  <2>4. CASE Seen' = Ended /\ k = 0 /\ Buffered' = 0 /\ r.served = r.total
    <3>1. pos = 0 /\ waiting = 0 BY <1>2, <1>3, <2>1, <2>4
    <3> QED BY <1>3, <1>5, <2>1, <2>4, <3>1 DEF Stream!Next, Stream!TakeOver, Seen
  <2> QED BY <2>2, <2>3, <2>4
<1> QED BY <1>4, <1>5

\* A fetch takes the next row of the stream, or leaves it.
LEMMA FetchStepStreams ==
  ASSUME FetchInv, FetchInv', FetchStep
  PROVE  Stream!Next
<1> USE DEF objectVars, handleVars
<1>0. astray' = astray
  BY DEF FetchStep, FetchBuffered, FetchEnded, FetchClosed, FetchAtEnd, FetchMismatch,
         FetchRefused, Fetch, FetchNothing, FetchRaises
<1>1. CASE FetchBuffered
  <2> USE DEF resultVars
  <2>1. rowbufSize \in 0 .. PrefetchRows /\ rowbufIndex < rowbufSize
        /\ rowbufIndex \in Nat
    BY <1>1, PrefetchAssumption DEF FetchInv, FetchTypes, BatchServed, FetchBuffered, MustFetch
  <2>2. /\ served' = served /\ total' = total /\ execution' = execution
        /\ waiting' = waiting /\ rowbufSize' = rowbufSize /\ rowbufSize # Nil
    BY <1>1 DEF FetchBuffered
  <2>3. CASE answer' = RowAt(buffer, rowbufIndex) /\ rowbufIndex' = rowbufIndex + 1
    <3>1. (served - Buffered)' = (served - Buffered) + 1 /\ served - Buffered < total
      BY <2>1, <2>2, <2>3, BufferedNat, PrefetchAssumption DEF Buffered
    <3>2. CASE astray = {}
      <4>1. Seen' = {<<execution, (served - Buffered) + 1>>}
        BY <1>0, <2>1, <2>2, <2>3, <3>2, NextElement DEF Seen
      <4> QED BY <2>2, <3>1, <4>1 DEF Stream!Next, Stream!NextRow, Seen
    <3>3. CASE astray # {}
      <4>1. Seen' = Raised BY <1>0, <3>3 DEF Seen
      <4>2. (served - Buffered)' \in (served - Buffered) .. total
        BY <3>1, BufferedNat
      <4> QED BY <2>2, <4>1, <4>2 DEF Stream!Next, Stream!Raise, Seen
    <3> QED BY <3>2, <3>3
  <2>4. CASE answer' = Raised /\ UNCHANGED rowbufIndex
    BY <2>2, <2>4, RaiseStreams DEF Seen, Stream!Next
  <2> QED BY <1>1, <2>3, <2>4 DEF FetchBuffered
<1>2. CASE FetchEnded
  <2>1. served - Buffered = total /\ (served - Buffered)' = served - Buffered
    BY <1>2, BufferedNat DEF FetchInv, EndMeansAll, FetchEnded, Buffered, resultVars
  <2>2. CASE astray = {}
    BY <1>2, <1>0, <2>1, <2>2 DEF Stream!Next, Stream!End, FetchEnded, resultVars
  <2>3. CASE astray # {}
    BY <1>2, <1>0, <2>3, RaiseStreams DEF Seen, Stream!Next, FetchEnded, resultVars
  <2> QED BY <2>2, <2>3
<1>3. CASE FetchClosed \/ FetchRefused \/ FetchMismatch
  BY <1>3, RaiseStreams
  DEF Seen, Stream!Next, FetchClosed, FetchRefused, FetchMismatch, resultVars
<1>4. CASE FetchAtEnd
  <2>1. served - Buffered = total /\ (served - Buffered)' = served - Buffered
    BY <1>4, BufferedNat
    DEF FetchInv, FetchTypes, EndMeansAll, FetchAtEnd, MustFetch, Buffered, resultVars
  <2>2. CASE astray = {}
    BY <1>4, <1>0, <2>1, <2>2 DEF Stream!Next, Stream!End, FetchAtEnd, resultVars
  <2>3. CASE astray # {}
    <3>1. (served - Buffered)' \in (served - Buffered) .. total BY <2>1, BufferedNat
    <3> QED
      BY <1>4, <1>0, <2>3, <3>1 DEF Stream!Next, Stream!Raise, FetchAtEnd, resultVars
  <2> QED BY <2>2, <2>3
<1>5. CASE Fetch
  <2>1. /\ Available \in 1 .. PrefetchRows /\ rowbufSize' = Available /\ Available # Nil
        /\ MustFetch /\ Served(Available)
    BY <1>5, AvailableFits, PrefetchAssumption, NilAssumption DEF Fetch, Fetchable, CanFetch
  <2>2. CASE answer' = RowAt(Filled(Available), 0) /\ rowbufIndex' = 1
    <3>1. Buffered' = Available - 1 /\ Buffered' \in 0 .. Available
      BY <2>1, <2>2, PrefetchAssumption DEF Buffered
    <3>2. ASSUME astray = {}
          PROVE  RowAt(Filled(Available), 0) = {<<Result.execution, Result.served + 1>>}
      <4>1. 0 \in Element /\ 0 < Available /\ Result.served + 0 + 1 = Result.served + 1
        BY <2>1, ResultFacts, PrefetchAssumption DEF Element
      <4>2. \A c \in Defined :
              Filled(Available)[c][0] = <<Result.execution, Result.served + 1>>
        BY <3>2, <4>1 DEF Filled, Defined
      <4>3. Defined # {} BY <1>5, <3>2 DEF Fetch, Fetchable
      <4> QED BY <4>2, <4>3 DEF RowAt
    <3>3. Seen' = Raised \/ Seen' = {<<Result.execution, Result.served + 1>>}
      BY <1>0, <2>2, <3>2 DEF Seen
    <3> QED BY <2>1, <3>1, <3>3, ServedStreams, PrefetchAssumption
  <2>3. CASE answer' = Raised /\ rowbufIndex' = 0
    <3>1. Buffered' \in 0 .. Available
      BY <2>1, <2>3, PrefetchAssumption DEF Buffered
    <3>2. Seen' = Raised BY <2>3 DEF Seen
    <3> QED BY <2>1, <3>1, <3>2, ServedStreams, PrefetchAssumption
  <2> QED BY <1>5, <2>2, <2>3 DEF Fetch
<1>6. CASE FetchNothing
  <2>1. Result.served = Result.total /\ Available = 0
    BY <1>6, AvailableFits, ResultFacts, PrefetchAssumption DEF FetchNothing
  <2>2. Buffered' = 0 /\ MustFetch /\ Served(0)
    BY <1>6 DEF FetchNothing, Fetchable, CanFetch, Buffered
  <2>3. Seen' = Raised \/ Seen' = Ended BY <1>6 DEF FetchNothing, Seen
  <2> QED BY <2>1, <2>2, <2>3, ServedStreams
<1>7. ASSUME NEW k \in 0 .. PrefetchRows, FetchRaises(k)
      PROVE  Stream!Next
  <2>1. k \in Nat /\ k <= Available /\ MustFetch /\ Served(k)
    BY <1>7, PrefetchAssumption DEF FetchRaises, Fetchable, CanFetch
  <2>2. Buffered' \in 0 .. k
    BY <1>7, <2>1, PrefetchAssumption
    DEF FetchInv, FetchTypes, FetchRaises, MustFetch, Buffered
  <2>3. Seen' = Raised BY <1>7 DEF FetchRaises, Seen
  <2> QED BY <2>1, <2>2, <2>3, ServedStreams
<1> QED BY <1>1, <1>2, <1>3, <1>4, <1>5, <1>6, <1>7 DEF FetchStep

\* Every step of fetching is one of the row stream, or a stutter.
LEMMA FetchNextStreams ==
  ASSUME FetchInv, FetchInv', [FetchNext]_fetchVars
  PROVE  Stream!Next \/ UNCHANGED seenVars
<1> USE DEF objectVars, handleVars
<1>1. CASE UNCHANGED fetchVars \/ CollectLeftover
  BY <1>1 DEF fetchVars, CollectLeftover, resultVars, Buffered, seenVars, Seen
<1>2. ASSUME NEW c \in Column, Define(c)
      PROVE  Stream!Next
  <2>1. CASE astray' = {}
    BY <1>2, <2>1 DEF Define, resultVars, Buffered, Stream!Next, Stream!Quiet
  <2>2. CASE astray' # {}
    BY <1>2, <2>2, RaiseStreams DEF Define, resultVars, Seen, Stream!Next
  <2> QED BY <2>1, <2>2
<1>3. ASSUME NEW c \in Column, DefineRaises(c)
      PROVE  Stream!Next
  BY <1>3, RaiseStreams DEF DefineRaises, resultVars, Seen, Stream!Next
<1>4. ASSUME NEW rows \in 0 .. MaxRows, Exec(rows)
      PROVE  Stream!Next
  <2>1. (served - Buffered)' = 0
    BY <1>4, NilAssumption DEF Exec, Opened, ResetRowbuf, Buffered
  <2>2. rows \in Nat BY BoundAssumption
  <2> QED BY <1>4, <2>1, <2>2 DEF Exec, Stream!Next, Stream!Execute
<1>5. ASSUME NEW rows \in 0 .. MaxRows, ResultWaits(rows)
      PROVE  Stream!Next
  <2>1. (served - Buffered)' = served - Buffered BY <1>5 DEF ResultWaits, Buffered
  <2>2. rows \in Nat BY BoundAssumption
  <2> QED BY <1>5, <2>1, <2>2 DEF ResultWaits, Stream!Next, Stream!ExecuteRaises
<1>6. CASE ExecFails
  <2>1. (served - Buffered)' = served - Buffered BY <1>6 DEF ExecFails, Buffered
  <2>2. waiting' \in Nat \union {Nil} BY <1>6 DEF ExecFails, FetchInv, FetchTypes
  <2> QED BY <1>6, <2>1, <2>2 DEF ExecFails, Stream!Next, Stream!ExecuteRaises
<1>7. CASE Close
  <2>1. CASE astray = {}
    BY <1>7, <2>1 DEF Close, resultVars, Buffered, Stream!Next, Stream!Quiet
  <2>2. CASE astray # {}
    BY <1>7, <2>2, RaiseStreams DEF Close, resultVars, Seen, Stream!Next
  <2> QED BY <2>1, <2>2
<1>8. CASE FetchStep BY <1>8, FetchStepStreams
<1> QED BY <1>1, <1>2, <1>3, <1>4, <1>5, <1>6, <1>7, <1>8
    DEF FetchNext, ExecInterrupted, ExecDefineFails

-------------------------------------------------------------------------------
(***************************************************************************)
(* The inductive invariant of ArrayDml.                                    *)
(***************************************************************************)

DmlTypes ==
  /\ maxArraySize \in {NoSize} \union Nat /\ actualSize \in {NoSize} \union Nat
  /\ handles \in [Key -> Bind \union {NoBind}]
  /\ registered \in [Key -> Bind \union {NoBind}]
  /\ maxarSz \in [Bind -> Nat]
  /\ element \in [Bind -> [Sizes -> Value \union {Null, Zero}]]
  /\ assigned \in [Key -> Arrays \union {Unset}]

Held(k) == handles[k] # NoBind

\* The handles of the cursor have its array size, and every key has its own.
OwnHandles ==
  /\ \A k \in Key : Held(k) =>
       /\ maxArraySize \in Nat /\ actualSize \in Nat
       /\ maxarSz[handles[k]] = maxArraySize
  /\ \A k, j \in Key : Held(k) /\ handles[k] = handles[j] => k = j

\* An array that was stored as a whole is in the buffer, and has the common size.
ArraysKept ==
  \A k \in Key : assigned[k] # Unset =>
    /\ Held(k) /\ assigned[k] # <<>> /\ Len(assigned[k]) = actualSize
    /\ \A i \in 1 .. Len(assigned[k]) : element[handles[k]][i] = assigned[k][i]

\* exec_array is the last thing that happened.
JustSent == inserted # Unset => inserted = Columns

DmlInv == DmlTypes /\ HeldBuffersInUse /\ OwnHandles /\ ArraysKept /\ JustSent

-------------------------------------------------------------------------------

\* What the type of an array value says of its parts.
LEMMA ArrayFacts ==
  ASSUME NEW a \in Arrays
  PROVE  /\ a \in Seq(Value) /\ Len(a) \in 0 .. MaxLen
         /\ a # <<>> => Len(a) > 0
         /\ a = [i \in 1 .. Len(a) |-> a[i]]
         /\ \A i \in 1 .. Len(a) : a[i] \in Value
<1>1. PICK m \in 0 .. MaxLen : a \in [1 .. m -> Value]
  BY DEF Arrays, SeqOf
<1>2. a \in Seq(Value) BY <1>1, SeqDef, LengthAssumption
<1>3. Len(a) = m BY <1>1, <1>2, LengthAssumption, LenProperties
<1> QED BY <1>1, <1>2, <1>3, LengthAssumption

\* The first n buffers get the values of the array, and every buffer keeps its type.
LEMMA StoredFacts ==
  ASSUME NEW a \in Arrays, NEW n \in 0 .. Len(a),
         NEW old \in [Sizes -> Value \union {Null, Zero}]
  PROVE  /\ Stored(a, n, old) \in [Sizes -> Value \union {Null, Zero}]
         /\ n = Len(a) => \A i \in 1 .. Len(a) : Stored(a, n, old)[i] = a[i]
<1>1. Len(a) \in 0 .. MaxLen /\ \A i \in 1 .. Len(a) : a[i] \in Value
  BY ArrayFacts
<1>2. ASSUME NEW i \in Sizes PROVE Stored(a, n, old)[i] \in Value \union {Null, Zero}
  BY <1>1, LengthAssumption DEF Stored, Sizes
<1>3. Stored(a, n, old) \in [Sizes -> Value \union {Null, Zero}]
  BY <1>2 DEF Stored
<1>4. n = Len(a) => \A i \in 1 .. Len(a) : Stored(a, n, old)[i] = a[i]
  BY <1>1, LengthAssumption DEF Stored, Sizes
<1> QED BY <1>3, <1>4

\* A cursor starts with nothing bound.
LEMMA DmlInitInv == DmlInit => DmlInv
<1> SUFFICES ASSUME DmlInit PROVE DmlInv OBVIOUS
<1>1. DmlTypes BY DEF DmlInit, DmlTypes
<1>2. HeldBuffersInUse /\ OwnHandles /\ ArraysKept /\ JustSent
  BY DEF DmlInit, HeldBuffersInUse, OwnHandles, Held, ArraysKept, JustSent
<1> QED BY <1>1, <1>2 DEF DmlInv

\* max_array_size= leaves handles and buffers in agreement.
LEMMA SetMaxArraySizeInv ==
  ASSUME DmlInv, NEW n \in Sizes, SetMaxArraySize(n)
  PROVE  DmlInv'
<1>1. n \in Nat BY LengthAssumption DEF Sizes
<1>2. \A k \in Key : handles'[k] = NoBind
  BY MarksAssumption DEF DmlInv, DmlTypes, OwnHandles, Held, SetMaxArraySize
<1>3. DmlTypes'
  BY <1>1 DEF DmlInv, DmlTypes, SetMaxArraySize
<1>4. HeldBuffersInUse' /\ OwnHandles'
  BY <1>2 DEF HeldBuffersInUse, OwnHandles, Held
<1>5. ArraysKept' /\ JustSent'
  BY DEF ArraysKept, JustSent, SetMaxArraySize
<1> QED BY <1>3, <1>4, <1>5 DEF DmlInv

\* A size that bind_param_array accepts is the size of the arrays that are kept.
LEMMA SizeKept ==
  ASSUME DmlInv, NEW a \in Arrays, BindSizeFits(Len(a)), NEW k \in Key,
         assigned[k] # Unset
  PROVE  Len(a) = actualSize
<1>1. assigned[k] \in Arrays BY DEF DmlInv, DmlTypes
<1>2. Len(assigned[k]) \in Nat BY <1>1, ArrayFacts, LengthAssumption
<1> QED BY <1>2, MarksAssumption DEF DmlInv, ArraysKept, BindSizeFits

\* What the checks of bind_param_array and a new buffer at OCI change.
LEMMA NewBuffer ==
  ASSUME DmlInv, NEW k \in Key, NEW a \in Arrays, NEW b \in Bind,
         AcceptsArray(a), BoundByOci(k, a, b)
  PROVE  /\ maxArraySize' \in Nat /\ maxArraySize' = maxArraySize
         /\ actualSize' = Len(a) /\ actualSize' \in Nat
         /\ maxarSz' \in [Bind -> Nat] /\ maxarSz'[b] = maxArraySize
         /\ element' \in [Bind -> [Sizes -> Value \union {Null, Zero}]]
         /\ \A i \in 1 .. Len(a) : element'[b][i] = a[i]
         /\ registered' \in [Key -> Bind \union {NoBind}] /\ registered'[k] = b
         /\ \A j \in Key \ {k} : registered'[j] = registered[j]
         /\ \A j \in Key : Held(j) =>
              /\ handles[j] # b /\ handles[j] \in Bind
              /\ maxarSz'[handles[j]] = maxarSz[handles[j]]
              /\ element'[handles[j]] = element[handles[j]]
         /\ \A j \in Key : assigned[j] # Unset => Len(assigned[j]) = actualSize'
         /\ inserted' = Unset
<1> DEFINE fresh == [i \in Sizes |-> Null]
           new == Stored(a, Len(a), fresh)
<1>1. /\ Len(a) \in 0 .. Len(a) /\ Len(a) \in Nat
      /\ maxArraySize \in Nat /\ maxArraySize' = maxArraySize
      /\ actualSize' = Len(a) /\ inserted' = Unset
  BY ArrayFacts, LengthAssumption DEF AcceptsArray, DmlInv, DmlTypes
<1>2. /\ new \in [Sizes -> Value \union {Null, Zero}]
      /\ \A i \in 1 .. Len(a) : new[i] = a[i]
  BY <1>1, StoredFacts
<1>3. /\ maxarSz' = [maxarSz EXCEPT ![b] = maxArraySize]
      /\ element' = [element EXCEPT ![b] = new]
      /\ registered' = [registered EXCEPT ![k] = b]
  BY DEF BoundByOci
<1> HIDE DEF new
<1>4. \A j \in Key : Held(j) => handles[j] # b /\ handles[j] \in Bind
  BY DEF DmlInv, DmlTypes, HeldBuffersInUse, Held, BoundByOci, Unused
<1>5. /\ maxarSz' \in [Bind -> Nat] /\ maxarSz'[b] = maxArraySize
      /\ \A c \in Bind \ {b} : maxarSz'[c] = maxarSz[c]
  BY <1>1, <1>3 DEF DmlInv, DmlTypes
<1>6. /\ element' \in [Bind -> [Sizes -> Value \union {Null, Zero}]]
      /\ element'[b] = new
      /\ \A c \in Bind \ {b} : element'[c] = element[c]
  BY <1>2, <1>3 DEF DmlInv, DmlTypes
<1>7. /\ registered' \in [Key -> Bind \union {NoBind}] /\ registered'[k] = b
      /\ \A j \in Key \ {k} : registered'[j] = registered[j]
  BY <1>3 DEF DmlInv, DmlTypes
<1>8. \A j \in Key : assigned[j] # Unset => Len(assigned[j]) = actualSize'
  <2>1. ASSUME NEW j \in Key, assigned[j] # Unset PROVE Len(assigned[j]) = actualSize'
    <3>1. Len(a) = actualSize BY <2>1, SizeKept DEF AcceptsArray
    <3> QED BY <1>1, <2>1, <3>1 DEF DmlInv, ArraysKept
  <2> QED BY <2>1
<1> QED BY <1>1, <1>2, <1>4, <1>5, <1>6, <1>7, <1>8

\* bind_param_array leaves handles and buffers in agreement.
LEMMA BindParamArrayInv ==
  ASSUME DmlInv, NEW k \in Key, NEW a \in Arrays, NEW b \in Bind,
         BindParamArray(k, a, b)
  PROVE  DmlInv'
<1>1. AcceptsArray(a) /\ BoundByOci(k, a, b)
  BY DEF BindParamArray
<1>2. /\ handles' = [handles EXCEPT ![k] = b]
      /\ allocated' = (allocated \ {handles[k]}) \union {b}
      /\ assigned' = [assigned EXCEPT ![k] = IF a = <<>> THEN Unset ELSE a]
      /\ late' = late \ {k}
  BY DEF BindParamArray
<1>3. /\ handles' \in [Key -> Bind \union {NoBind}]
      /\ assigned' \in [Key -> Arrays \union {Unset}]
      /\ handles'[k] = b /\ assigned'[k] = IF a = <<>> THEN Unset ELSE a
      /\ b # NoBind /\ b \in allocated'
  BY <1>2, MarksAssumption DEF DmlInv, DmlTypes
<1>4. DmlTypes' BY <1>1, <1>3, NewBuffer DEF DmlTypes
<1>5. ASSUME NEW j \in Key, j # k
      PROVE  /\ handles'[j] = handles[j] /\ assigned'[j] = assigned[j]
             /\ Held(j) => handles[j] # handles[k]
  BY <1>2, <1>5 DEF DmlInv, DmlTypes, OwnHandles
<1>6. HeldBuffersInUse'
  <2> SUFFICES ASSUME NEW j \in Key, handles'[j] # NoBind
               PROVE  /\ handles'[j] \in allocated'
                      /\ j \notin late' => registered'[j] = handles'[j]
    BY DEF HeldBuffersInUse
  <2>1. CASE j = k BY <1>1, <1>3, <2>1, NewBuffer
  <2>2. CASE j # k
    BY <1>1, <1>2, <1>5, <2>2, NewBuffer DEF DmlInv, HeldBuffersInUse, Held
  <2> QED BY <2>1, <2>2
<1>7. OwnHandles'
  <2>1. ASSUME NEW j \in Key, Held(j)'
        PROVE  maxArraySize' \in Nat /\ actualSize' \in Nat
               /\ maxarSz'[handles'[j]] = maxArraySize'
    <3>1. CASE j = k BY <1>1, <1>3, <3>1, NewBuffer
    <3>2. CASE j # k
      BY <1>1, <1>5, <2>1, <3>2, NewBuffer DEF DmlInv, OwnHandles, Held
    <3> QED BY <3>1, <3>2
  <2>2. ASSUME NEW i \in Key, NEW j \in Key, Held(i)', handles'[i] = handles'[j]
        PROVE  i = j
    <3>1. CASE i = k /\ j # k BY <1>1, <1>3, <1>5, <2>2, <3>1, NewBuffer DEF Held
    <3>2. CASE i # k /\ j = k BY <1>1, <1>3, <1>5, <2>2, <3>2, NewBuffer DEF Held
    <3>3. CASE i # k /\ j # k BY <1>5, <2>2, <3>3 DEF DmlInv, OwnHandles, Held
    <3> QED BY <3>1, <3>2, <3>3
  <2> QED BY <2>1, <2>2 DEF OwnHandles
<1>8. ArraysKept'
  <2> SUFFICES ASSUME NEW j \in Key, assigned'[j] # Unset
               PROVE  /\ Held(j)' /\ assigned'[j] # <<>>
                      /\ Len(assigned'[j]) = actualSize'
                      /\ \A i \in 1 .. Len(assigned'[j]) :
                           element'[handles'[j]][i] = assigned'[j][i]
    BY DEF ArraysKept
  <2>1. CASE j = k
    <3>1. assigned'[k] = a /\ a # <<>> BY <1>3, <2>1
    <3> QED BY <1>1, <1>3, <2>1, <3>1, NewBuffer DEF Held
  <2>2. CASE j # k
    <3>1. assigned[j] # Unset /\ assigned'[j] = assigned[j] /\ handles'[j] = handles[j]
      BY <1>5, <2>2
    <3>2. Held(j) /\ assigned[j] # <<>> /\ Len(assigned[j]) = actualSize'
      BY <1>1, <3>1, NewBuffer DEF DmlInv, ArraysKept
    <3>3. element'[handles[j]] = element[handles[j]] BY <1>1, <3>2, NewBuffer
    <3> QED BY <3>1, <3>2, <3>3 DEF DmlInv, ArraysKept, Held
  <2> QED BY <2>1, <2>2
<1>9. JustSent' BY <1>1, NewBuffer DEF JustSent
<1> QED BY <1>4, <1>6, <1>7, <1>8, <1>9 DEF DmlInv

\* So does a bind that raises when OCI has the new buffer.
LEMMA BindRaisesLateInv ==
  ASSUME DmlInv, NEW k \in Key, NEW a \in Arrays, NEW b \in Bind,
         BindRaisesLate(k, a, b)
  PROVE  DmlInv'
<1>1. AcceptsArray(a) /\ BoundByOci(k, a, b)
  BY DEF BindRaisesLate
<1>2. /\ handles' = handles /\ allocated' = allocated \union {b}
      /\ assigned' = [assigned EXCEPT ![k] = Unset]
      /\ late' = late \union {k}
  BY DEF BindRaisesLate, FreedIfFails
<1>3. /\ assigned' \in [Key -> Arrays \union {Unset}] /\ assigned'[k] = Unset
      /\ \A j \in Key \ {k} : assigned'[j] = assigned[j]
  BY <1>2 DEF DmlInv, DmlTypes
<1>4. DmlTypes' BY <1>1, <1>2, <1>3, NewBuffer DEF DmlInv, DmlTypes
<1>5. HeldBuffersInUse'
  BY <1>1, <1>2, NewBuffer DEF DmlInv, HeldBuffersInUse
<1>6. OwnHandles'
  BY <1>1, <1>2, NewBuffer DEF DmlInv, OwnHandles, Held
<1>7. ArraysKept'
  <2> SUFFICES ASSUME NEW j \in Key, assigned'[j] # Unset
               PROVE  /\ Held(j)' /\ assigned'[j] # <<>>
                      /\ Len(assigned'[j]) = actualSize'
                      /\ \A i \in 1 .. Len(assigned'[j]) :
                           element'[handles'[j]][i] = assigned'[j][i]
    BY DEF ArraysKept
  <2>1. assigned'[j] = assigned[j] BY <1>3
  <2> QED BY <1>1, <1>2, <2>1, NewBuffer DEF DmlInv, ArraysKept, Held
<1>8. JustSent' BY <1>1, NewBuffer DEF JustSent
<1> QED BY <1>4, <1>5, <1>6, <1>7, <1>8 DEF DmlInv

\* So does a bind that raises before.
LEMMA BindFailsInv ==
  ASSUME DmlInv, NEW k \in Key, NEW a \in Arrays, NEW b \in Bind, BindFails(k, a, b)
  PROVE  DmlInv'
<1> USE DEF AcceptsArray
<1>1. Len(a) \in Nat BY ArrayFacts, LengthAssumption
<1>2. DmlTypes' BY <1>1 DEF DmlInv, DmlTypes, BindFails
<1>3. HeldBuffersInUse' BY DEF DmlInv, HeldBuffersInUse, BindFails, FreedIfFails
<1>4. OwnHandles' BY <1>1 DEF DmlInv, OwnHandles, Held, BindFails
<1>5. ArraysKept'
  <2> SUFFICES ASSUME NEW j \in Key, assigned[j] # Unset PROVE Len(a) = actualSize
    BY DEF DmlInv, ArraysKept, Held, BindFails
  <2> QED BY SizeKept DEF BindFails
<1>6. JustSent' BY DEF JustSent, BindFails
<1> QED BY <1>2, <1>3, <1>4, <1>5, <1>6 DEF DmlInv

\* The collector takes no handle that the cursor holds.
LEMMA CollectInv == ASSUME DmlInv, NEW b \in Bind, Collect(b) PROVE DmlInv'
<1> USE DEF Collect, sizeVars
<1>1. DmlTypes' BY DEF DmlInv, DmlTypes
<1>2. HeldBuffersInUse' /\ OwnHandles'
  BY DEF DmlInv, HeldBuffersInUse, OwnHandles, Held
<1>3. ArraysKept' BY DEF DmlInv, ArraysKept, Held
<1>4. JustSent' BY DEF DmlInv, JustSent, Columns
<1> QED BY <1>1, <1>2, <1>3, <1>4 DEF DmlInv

\* Assigning a value to a bind object keeps the agreement.
LEMMA AssignInv ==
  ASSUME DmlInv, NEW k \in Key, NEW a \in Arrays, NEW n \in 0 .. MaxLen, Assign(k, a, n)
  PROVE  DmlInv'
<1> DEFINE b == handles[k]
           new == Stored(a, n, element[b])
<1>1. /\ Len(a) \in Nat /\ (a # <<>> => Len(a) > 0) /\ n \in 0 .. Len(a)
      /\ maxArraySize \in Nat /\ actualSize \in Nat
      /\ Held(k) /\ b \in Bind /\ maxarSz[b] = maxArraySize
  BY ArrayFacts, LengthAssumption DEF Assign, DmlInv, DmlTypes, OwnHandles, Held
<1>2. /\ new \in [Sizes -> Value \union {Null, Zero}]
      /\ n = Len(a) => \A i \in 1 .. Len(a) : new[i] = a[i]
  BY <1>1, StoredFacts DEF DmlInv, DmlTypes
<1>3. /\ actualSize' = SizeAfter(Len(a)) /\ maxArraySize' = maxArraySize
      /\ maxarSz' = maxarSz /\ registered' = registered
      /\ handles' = handles /\ allocated' = allocated /\ late' = late
      /\ actualSize > 0 => Len(a) = actualSize
  BY DEF Assign, AssignSizeFits
<1>4. \/ element' = element /\ assigned' = assigned
      \/ /\ Len(a) <= maxArraySize
         /\ element' = [element EXCEPT ![b] = new]
         /\ assigned' = [assigned EXCEPT ![k] =
                           IF n < Len(a) \/ a = <<>> THEN Unset ELSE a]
  BY <1>1 DEF Assign
<1> HIDE DEF b, new
<1>5. actualSize' \in Nat /\ (actualSize > 0 => actualSize' = actualSize)
  BY <1>1, <1>3 DEF SizeAfter
<1>6. DmlTypes'
  <2>1. assigned' \in [Key -> Arrays \union {Unset}]
    BY <1>4 DEF DmlInv, DmlTypes
  <2>2. element' \in [Bind -> [Sizes -> Value \union {Null, Zero}]]
    BY <1>2, <1>4 DEF DmlInv, DmlTypes
  <2> QED BY <1>3, <1>5, <2>1, <2>2 DEF DmlInv, DmlTypes
<1>7. HeldBuffersInUse' BY <1>3 DEF DmlInv, HeldBuffersInUse
<1>8. OwnHandles' BY <1>3, <1>5 DEF DmlInv, OwnHandles, Held
<1>9. ArraysKept'
  <2> SUFFICES ASSUME NEW j \in Key, assigned'[j] # Unset
               PROVE  /\ Held(j)' /\ assigned'[j] # <<>>
                      /\ Len(assigned'[j]) = actualSize'
                      /\ \A i \in 1 .. Len(assigned'[j]) :
                           element'[handles'[j]][i] = assigned'[j][i]
    BY DEF ArraysKept
  <2>1. ASSUME assigned[j] # Unset
        PROVE  /\ assigned[j] # <<>> /\ Held(j)
               /\ Len(assigned[j]) = actualSize' /\ actualSize' = actualSize
    <3>1. assigned[j] \in Arrays BY <2>1 DEF DmlInv, DmlTypes
    <3>2. /\ assigned[j] # <<>> /\ Len(assigned[j]) = actualSize /\ Held(j)
      BY <2>1 DEF DmlInv, ArraysKept
    <3>3. actualSize > 0 BY <3>1, <3>2, ArrayFacts
    <3> QED BY <3>2, <3>3, <1>5
  <2>2. CASE element' = element /\ assigned' = assigned
    BY <1>3, <2>1, <2>2 DEF DmlInv, ArraysKept, Held
  <2>3. CASE /\ Len(a) <= maxArraySize
             /\ element' = [element EXCEPT ![b] = new]
             /\ assigned' = [assigned EXCEPT ![k] =
                               IF n < Len(a) \/ a = <<>> THEN Unset ELSE a]
    <3>1. CASE j = k
      <4>1. assigned'[k] = a /\ n = Len(a) /\ a # <<>>
        BY <1>1, <2>3, <3>1 DEF DmlInv, DmlTypes
      <4>2. actualSize' = Len(a)
        BY <1>1, <1>3, <2>3, <4>1 DEF SizeAfter
      <4>3. element'[b] = new BY <1>1, <2>3 DEF DmlInv, DmlTypes
      <4>4. Held(j)' BY <1>1, <1>3, <3>1 DEF Held
      <4> QED BY <1>2, <1>3, <3>1, <4>1, <4>2, <4>3, <4>4 DEF b
    <3>2. CASE j # k
      <4>1. assigned'[j] = assigned[j] BY <2>3, <3>2 DEF DmlInv, DmlTypes
      <4>2. Held(j) /\ handles[j] # b
        BY <2>1, <3>2, <4>1 DEF DmlInv, OwnHandles, b
      <4>3. element'[handles[j]] = element[handles[j]]
        BY <2>3, <4>2 DEF DmlInv, DmlTypes, Held
      <4> QED BY <1>3, <2>1, <4>1, <4>2, <4>3 DEF DmlInv, ArraysKept, Held
    <3> QED BY <3>1, <3>2
  <2> QED BY <1>4, <2>2, <2>3
<1>10. JustSent' BY DEF JustSent, Assign
<1> QED BY <1>6, <1>7, <1>8, <1>9, <1>10 DEF DmlInv

\* exec_array sends rows and changes no handle.
LEMMA ExecArrayInv == ASSUME DmlInv, ExecArray PROVE DmlInv'
<1> USE DEF ExecArray, sizeVars, bindVars
<1>1. DmlTypes' BY DEF DmlInv, DmlTypes
<1>2. HeldBuffersInUse' /\ OwnHandles'
  BY DEF DmlInv, HeldBuffersInUse, OwnHandles, Held
<1>3. ArraysKept' BY DEF DmlInv, ArraysKept, Held
<1>4. JustSent' BY DEF JustSent, Columns
<1> QED BY <1>1, <1>2, <1>3, <1>4 DEF DmlInv

\* Every step of array DML keeps the invariant.
LEMMA DmlNextInv == DmlInv /\ [DmlNext]_dmlVars => DmlInv'
<1> SUFFICES ASSUME DmlInv, [DmlNext]_dmlVars PROVE DmlInv'
  OBVIOUS
<1>1. CASE UNCHANGED dmlVars
  <2> USE <1>1 DEF dmlVars, sizeVars, bindVars
  <2>1. DmlTypes' BY DEF DmlInv, DmlTypes
  <2>2. HeldBuffersInUse' /\ OwnHandles'
    BY DEF DmlInv, HeldBuffersInUse, OwnHandles, Held
  <2>3. ArraysKept' BY DEF DmlInv, ArraysKept, Held
  <2>4. JustSent' BY DEF DmlInv, JustSent, Columns
  <2> QED BY <2>1, <2>2, <2>3, <2>4 DEF DmlInv
<1>2. ASSUME NEW n \in Sizes, SetMaxArraySize(n) PROVE DmlInv'
  BY <1>2, SetMaxArraySizeInv
<1>3. ASSUME NEW k \in Key, NEW a \in Arrays, NEW b \in Bind, BindParamArray(k, a, b)
      PROVE  DmlInv'
  BY <1>3, BindParamArrayInv
<1>4. ASSUME NEW k \in Key, NEW a \in Arrays, NEW b \in Bind, BindFails(k, a, b)
      PROVE  DmlInv'
  BY <1>4, BindFailsInv
<1>5. ASSUME NEW k \in Key, NEW a \in Arrays, NEW b \in Bind, BindRaisesLate(k, a, b)
      PROVE  DmlInv'
  BY <1>5, BindRaisesLateInv
<1>6. ASSUME NEW b \in Bind, Collect(b) PROVE DmlInv'
  BY <1>6, CollectInv
<1>7. ASSUME NEW k \in Key, NEW a \in Arrays, NEW n \in 0 .. MaxLen, Assign(k, a, n)
      PROVE  DmlInv'
  BY <1>7, AssignInv
<1>8. CASE ExecArray BY <1>8, ExecArrayInv
<1> QED BY <1>1, <1>2, <1>3, <1>4, <1>5, <1>6, <1>7, <1>8 DEF DmlNext

-------------------------------------------------------------------------------
(***************************************************************************)
(* The theorems, for the cursor as a whole.                                *)
(***************************************************************************)

\* The composed cursor fetches as FetchNext says.
LEMMA SpecFetches == Spec => FetchInit /\ [][FetchNext]_fetchVars
<1>1. Init => FetchInit BY DEF Init
<1>2. [Next]_vars => [FetchNext]_fetchVars BY DEF Next, vars
<1> QED BY <1>1, <1>2, PTL DEF Spec

\* The inductive invariant holds.
LEMMA FetchInvAlways == Spec => []FetchInv
BY FetchInitInv, FetchNextInv, SpecFetches, PTL

\* Unless a __define has raised, __fetch finds no define handle of another size,
\* for any number of columns, any prefetch size and any order of define, exec and
\* fetch; and it does not ask OCI again for a result that is known to be used up.
THEOREM AlwaysFetchesAsAgreed == Spec => []FetchesAsAgreed
<1>1. FetchInv => FetchesAsAgreed
  <2>1. FetchInv => (~closed /\ leftover = {} => ~SizesDiffer)
    BY SizesAgreeNow DEF FetchInv
  <2>2. FetchInv => (CanFetch /\ cursor = "done" => failed)
    BY DEF FetchInv, DoneIsKnown, CanFetch
  <2> QED BY <2>1, <2>2 DEF FetchesAsAgreed
<1> QED BY <1>1, FetchInvAlways, PTL

\* The fetch methods deliver the rows of the last execution, each once and in
\* order, for any number of columns and rows and any prefetch size, and change to
\* the result of an execution that raised as RowStream says.
THEOREM DeliversRowStream == Spec => ImplementsRowStream
<1>1. FetchInit => Stream!Init
  BY NilAssumption DEF FetchInit, Stream!Init, Buffered
<1>2. FetchInv /\ FetchInv' /\ [FetchNext]_fetchVars => [Stream!Next]_(Stream!streamVars)
  BY FetchNextStreams DEF Stream!streamVars, seenVars, Seen
<1> QED
  BY <1>1, <1>2, FetchInvAlways, SpecFetches, PTL DEF ImplementsRowStream, Stream!Spec

\* The invariant of array DML holds in the composed cursor.
LEMMA DmlInvAlways == Spec => []DmlInv
<1>1. Init => DmlInit BY DEF Init
<1>2. [Next]_vars => [DmlNext]_dmlVars BY DEF Next, vars
<1> QED BY <1>1, <1>2, DmlInitInv, DmlNextInv, PTL DEF Spec

\* A bind handle of the cursor is allocated, and OCI has its buffer unless a later
\* binding raised when OCI had another, for any number of placeholders and any
\* sequence of calls.
THEOREM HeldBuffersAlways == Spec => []HeldBuffersInUse
<1>1. DmlInv => HeldBuffersInUse BY DEF DmlInv
<1> QED BY <1>1, DmlInvAlways, PTL

\* exec_array sends the arrays that were assigned, for any number of placeholders,
\* arrays of any length and any sequence of calls, failed ones included; only for
\* a placeholder whose last binding raised when OCI had the buffer it says nothing.
THEOREM SendsAssignedRows == Spec => []RowsAsAssigned
<1>1. ASSUME DmlInv, inserted # Unset, NEW k \in Key \ late, assigned[k] # Unset
      PROVE  inserted[k] = assigned[k]
  <2>1. assigned[k] \in Arrays BY <1>1 DEF DmlInv, DmlTypes
  <2>2. assigned[k] = [i \in 1 .. Len(assigned[k]) |-> assigned[k][i]]
    BY <2>1, ArrayFacts
  <2>3. /\ Held(k) /\ Len(assigned[k]) = actualSize
        /\ \A i \in 1 .. Len(assigned[k]) : element[handles[k]][i] = assigned[k][i]
    BY <1>1 DEF DmlInv, ArraysKept
  <2>4. registered[k] = handles[k] BY <1>1, <2>3 DEF DmlInv, HeldBuffersInUse, Held
  <2>5. inserted[k] = [i \in 1 .. actualSize |-> element[registered[k]][i]]
    BY <1>1 DEF DmlInv, JustSent, Columns
  <2>6. inserted[k] = [i \in 1 .. Len(assigned[k]) |-> assigned[k][i]]
    BY <2>3, <2>4, <2>5
  <2> QED BY <2>2, <2>6
<1>2. DmlInv => RowsAsAssigned BY <1>1 DEF RowsAsAssigned
<1> QED BY <1>2, DmlInvAlways, PTL

-------------------------------------------------------------------------------
(***************************************************************************)
(* The list of chunks of LongBuffer: what its recursive functions compute. *)
(***************************************************************************)

Byte == Letter \X Nat
Chunk == [alloc : Nat \ {0}, used : Seq(Byte)]
LastChunk == Len(chunks) + MaxBytes + 1

\* alloc_len is positive for every chunk there is or may be.
LEMMA AllocFacts ==
  ASSUME chunks \in Seq(Chunk)
  PROVE  /\ AllocLen \in [1 .. LastChunk -> Nat \ {0}]
         /\ \A k \in 1 .. Len(chunks) : AllocLen[k] = chunks[k].alloc
<1> DEFINE N == Len(chunks) + MaxBytes + 1
           Next1(k, v) == IF k <= Len(chunks) THEN chunks[k].alloc
                          ELSE IF k = 1 THEN InitialChunk ELSE Smaller(v * 2, MaxChunk)
           V == Nat \ {0}
           a == Next1(1, 1)
           G == [k \in 1 .. N |-> [v \in Nat \ {0} |-> Next1(k, v)]]
<1>1. N \in Nat /\ Len(chunks) \in Nat /\ DOMAIN chunks = 1 .. Len(chunks)
  BY ChunkAssumption
<1>2. ASSUME NEW k \in 1 .. N, NEW v \in Nat \ {0} PROVE Next1(k, v) \in Nat \ {0}
  <2>1. CASE k <= Len(chunks)
    <3>1. k \in 1 .. Len(chunks) /\ chunks[k] \in Chunk
      BY <1>1, <2>1
    <3> QED BY <2>1, <3>1 DEF Chunk
  <2>2. CASE k > Len(chunks)
    BY <2>2, <1>1, ChunkAssumption DEF Smaller
  <2> QED BY <1>1, <2>1, <2>2
<1>3. G \in [1 .. N -> [V -> V]]
  BY <1>2
<1>4. a \in V
  BY <1>1, <1>2, ChunkAssumption
<1>5. \E f \in [1 .. N -> V] : Recurs(f, N, a, G)
  <2> HIDE DEF N, G, V, a
  <2>1. N \in Nat
    BY <1>1 DEF N
  <2> QED BY <2>1, <1>3, <1>4, RecursionExists
<1>f. PICK f \in [1 .. N -> V] : Recurs(f, N, a, G)
  BY <1>5
<1>6. ASSUME NEW k \in 1 .. N
      PROVE  f[k] = IF k <= Len(chunks) THEN chunks[k].alloc
                    ELSE IF k = 1 THEN InitialChunk
                    ELSE Smaller(f[k - 1] * 2, MaxChunk)
  <2>1. CASE k = 1
    BY <1>f, <2>1 DEF Recurs
  <2>2. CASE k # 1
    <3>1. k - 1 \in 1 .. N
      BY <1>1, <2>2
    <3>2. f[k] = Next1(k, f[k - 1])
      BY <1>f, <2>2, <3>1 DEF Recurs
    <3> QED BY <2>2, <3>2
  <2> QED BY <2>1, <2>2
<1>7. f = [k \in 1 .. N |->
             IF k <= Len(chunks) THEN chunks[k].alloc
             ELSE IF k = 1 THEN InitialChunk ELSE Smaller(f[k - 1] * 2, MaxChunk)]
  BY <1>6
<1>8. AllocLen = [k \in 1 .. N |->
                    IF k <= Len(chunks) THEN chunks[k].alloc
                    ELSE IF k = 1 THEN InitialChunk ELSE Smaller(AllocLen[k - 1] * 2, MaxChunk)]
  BY <1>7 DEF AllocLen
<1>9. \A k \in 1 .. Len(chunks) : AllocLen[k] = chunks[k].alloc
  <2>1. \A k \in 1 .. Len(chunks) : k \in 1 .. N
    BY <1>1, ChunkAssumption
  <2> QED BY <1>8, <2>1
<1>10. \A k \in 1 .. N : AllocLen[k] \in Nat \ {0}
  <2> DEFINE S == {k \in 1 .. N : AllocLen[k] \in Nat \ {0}}
  <2> HIDE DEF N
  <2>1. ASSUME NEW k \in 1 .. N, k = 1 \/ AllocLen[k - 1] \in Nat \ {0}
        PROVE  AllocLen[k] \in Nat \ {0}
    <3>1. AllocLen[k] = IF k = 1 THEN Next1(1, 1) ELSE Next1(k, AllocLen[k - 1])
      BY <1>8, <2>1
    <3>2. k = 1 => Next1(1, 1) \in Nat \ {0}
      BY <1>4
    <3>3. k # 1 => Next1(k, AllocLen[k - 1]) \in Nat \ {0}
      BY <1>2, <2>1
    <3> QED BY <3>1, <3>2, <3>3
  <2>2. N > 0 => 1 \in S
    BY <2>1, <1>1
  <2>3. ASSUME NEW k \in 1 .. N - 1, k \in S PROVE k + 1 \in S
    <3>1. k + 1 \in 1 .. N /\ (k + 1) - 1 = k
      BY <1>1
    <3> QED BY <2>1, <2>3, <3>1
  <2>4. 1 .. N \subseteq S
    <3> HIDE DEF S
    <3> QED BY <1>1, <2>2, <2>3, UpTo
  <2> QED BY <2>4
<1> QED BY <1>8, <1>9, <1>10 DEF LastChunk

\* The chunks lie one behind the other, and none is empty.
LEMMA StartFacts ==
  ASSUME chunks \in Seq(Chunk)
  PROVE  /\ Start \in [1 .. LastChunk -> Nat] /\ Start[1] = 0
         /\ \A k \in 1 .. LastChunk : k # 1 => Start[k] = Start[k - 1] + AllocLen[k - 1]
         /\ \A k \in 1 .. LastChunk : Start[k] >= k - 1
<1> DEFINE N == Len(chunks) + MaxBytes + 1
           V == Nat
           a == 0
           G == [k \in 1 .. N |-> [v \in V |-> IF k = 1 THEN 0 ELSE v + AllocLen[k - 1]]]
<1>1. N \in Nat /\ N > 0
  BY ChunkAssumption
<1>2. \A k \in 1 .. N : AllocLen[k] \in Nat \ {0}
  BY AllocFacts DEF LastChunk
<1> HIDE DEF N
<1>3. G \in [1 .. N -> [V -> V]]
  <2> SUFFICES ASSUME NEW k \in 1 .. N, NEW v \in Nat
               PROVE  (IF k = 1 THEN 0 ELSE v + AllocLen[k - 1]) \in Nat
    OBVIOUS
  <2>1. k # 1 => k - 1 \in 1 .. N
    BY <1>1
  <2> QED BY <1>2, <2>1
<1>4. \E f \in [1 .. N -> V] : Recurs(f, N, a, G)
  <2>1. a \in V
    OBVIOUS
  <2> HIDE DEF G, V, a
  <2> QED BY <1>1, <1>3, <2>1, RecursionExists
<1>5. PICK f \in [1 .. N -> Nat] : Recurs(f, N, a, G)
  BY <1>4
<1>6. ASSUME NEW k \in 1 .. N
      PROVE  f[k] = IF k = 1 THEN 0 ELSE f[k - 1] + AllocLen[k - 1]
  <2>1. k # 1 => k - 1 \in 1 .. N
    BY <1>1
  <2> QED BY <1>5, <2>1 DEF Recurs
<1>7. f = [k \in 1 .. N |-> IF k = 1 THEN 0 ELSE f[k - 1] + AllocLen[k - 1]]
  BY <1>6
<1>8. Start = [k \in 1 .. N |-> IF k = 1 THEN 0 ELSE Start[k - 1] + AllocLen[k - 1]]
  BY <1>7 DEF Start, N
<1>9. 1 .. N \subseteq {k \in 1 .. N : Start[k] \in Nat /\ Start[k] >= k - 1}
  <2> DEFINE S == {k \in 1 .. N : Start[k] \in Nat /\ Start[k] >= k - 1}
  <2>1. N > 0 => 1 \in S
    BY <1>8, <1>1
  <2>2. ASSUME NEW k \in 1 .. N - 1, k \in S PROVE k + 1 \in S
    <3>1. k + 1 \in 1 .. N /\ k + 1 # 1 /\ (k + 1) - 1 = k /\ k \in 1 .. N
      BY <1>1
    <3>2. Start[k + 1] = Start[k] + AllocLen[k]
      BY <1>8, <3>1
    <3>3. AllocLen[k] \in Nat \ {0}
      BY <1>2, <3>1
    <3> QED BY <2>2, <3>1, <3>2, <3>3
  <2> HIDE DEF S
  <2>3. 1 .. N \subseteq S
    BY <1>1, <2>1, <2>2, UpTo
  <2> QED BY <2>3 DEF S
<1>10. 1 \in 1 .. N
  BY <1>1
<1> QED BY <1>8, <1>9, <1>10 DEF LastChunk, N
\* What FlattenSeq does: append one sequence after the other.
LEMMA FlattenFacts ==
  ASSUME NEW X, NEW s \in Seq(Seq(X)), Len(s) > 0
  PROVE  \E f \in [1 .. Len(s) -> Seq(X)] :
           /\ f[1] = s[1]
           /\ \A i \in 1 .. Len(s) : i # 1 => f[i] = f[i - 1] \o s[i]
           /\ FlattenSeq(s) = f[Len(s)]
<1> DEFINE n == Len(s)
           V == Seq(X)
           a == s[1]
           G == [i \in 1 .. n |-> [v \in V |-> v \o s[i]]]
<1>1. n \in Nat /\ n > 0 /\ 1 \in 1 .. n /\ \A i \in 1 .. n : s[i] \in V
  OBVIOUS
<1>2. G \in [1 .. n -> [V -> V]]
  <2> SUFFICES ASSUME NEW i \in 1 .. n, NEW v \in V PROVE v \o s[i] \in V
    OBVIOUS
  <2> QED BY <1>1, ConcatProperties
<1>3. \E f \in [1 .. n -> V] : Recurs(f, n, a, G)
  <2>0. a \in V
    BY <1>1
  <2>1. n \in Nat
    BY <1>1
  <2> HIDE DEF G, V, a, n
  <2> QED BY Zenon, <2>0, <1>2, <2>1, RecursionExists
<1>4. PICK f \in [1 .. n -> V] : Recurs(f, n, a, G)
  BY <1>3
<1>5. ASSUME NEW i \in 1 .. n
      PROVE  f[i] = IF i = 1 THEN s[i] ELSE f[i - 1] \o s[i]
  <2>1. i # 1 => i - 1 \in 1 .. n
    BY <1>1
  <2> QED BY <1>4, <2>1 DEF Recurs
<1>6. f = [i \in 1 .. n |-> IF i = 1 THEN s[i] ELSE f[i - 1] \o s[i]]
  BY <1>5
<1>7. \E g : /\ g = [i \in 1 .. n |-> IF i = 1 THEN s[i] ELSE g[i - 1] \o s[i]]
             /\ FlattenSeq(s) = g[n]
  <2>1. FlattenSeq(s) =
          (CHOOSE g : g = [i \in 1 .. n |-> IF i = 1 THEN s[i] ELSE g[i - 1] \o s[i]])[n]
    <3>1. Len(s) # 0
      BY <1>1
    <3> QED BY <3>1, Zenon DEF FlattenSeq
  <2> DEFINE Flattens(g) == g = [i \in 1 .. n |-> IF i = 1 THEN s[i] ELSE g[i - 1] \o s[i]]
  <2>2. Flattens(f)
    BY <1>6
  <2>3. FlattenSeq(s) = (CHOOSE g : Flattens(g))[n]
    BY <2>1, Zenon
  <2>4. Flattens(CHOOSE g : Flattens(g))
    <3> HIDE DEF Flattens
    <3> QED BY <2>2
  <2>5. \E g : Flattens(g) /\ FlattenSeq(s) = g[n]
    <3> HIDE DEF Flattens, n
    <3> QED BY <2>3, <2>4, Zenon
  <2> QED BY <2>5, Zenon
<1>8. PICK flatten : /\ flatten = [i \in 1 .. n |-> IF i = 1 THEN s[i] ELSE flatten[i - 1] \o s[i]]
                     /\ FlattenSeq(s) = flatten[n]
  BY <1>7
<1>9. ASSUME NEW i \in 1 .. n
      PROVE  flatten[i] = IF i = 1 THEN s[i] ELSE flatten[i - 1] \o s[i]
  BY <1>8
<1>10. 1 .. n \subseteq {i \in 1 .. n : flatten[i] \in V}
  <2> DEFINE S == {i \in 1 .. n : flatten[i] \in V}
  <2>1. n > 0 => 1 \in S
    <3>1. flatten[1] = s[1]
      BY <1>1, <1>9
    <3> QED BY <1>1, <3>1
  <2>2. ASSUME NEW i \in 1 .. n - 1, i \in S PROVE i + 1 \in S
    <3>1. i + 1 \in 1 .. n /\ i + 1 # 1 /\ (i + 1) - 1 = i
      BY <1>1
    <3>2. flatten[i + 1] = flatten[i] \o s[i + 1]
      BY <1>9, <3>1
    <3>3. flatten[i] \in V /\ s[i + 1] \in V
      BY <1>1, <2>2, <3>1
    <3>4. flatten[i] \o s[i + 1] \in V
      BY <3>3, ConcatProperties
    <3> QED BY <3>1, <3>2, <3>4
  <2> HIDE DEF S, n
  <2>3. 1 .. n \subseteq S
    BY <1>1, <2>1, <2>2, UpTo
  <2> QED BY <2>3 DEF S
<1>11. flatten \in [1 .. n -> V]
  BY <1>8, <1>10
<1>12. flatten[1] = s[1] /\ \A i \in 1 .. n : i # 1 => flatten[i] = flatten[i - 1] \o s[i]
  <2>1. flatten[1] = s[1]
    BY <1>1, <1>9
  <2>2. \A i \in 1 .. n : i # 1 => flatten[i] = flatten[i - 1] \o s[i]
    BY <1>9
  <2> QED BY <2>1, <2>2
<1> QED BY <1>8, <1>11, <1>12

-------------------------------------------------------------------------------

\* The number of chunks for a text
LEMMA NeededFacts ==
  ASSUME chunks \in Seq(Chunk), NEW text, Len(text) \in 0 .. MaxBytes
  PROVE  /\ Needed(text) \in 1 .. MaxBytes + 1
         /\ Len(text) <= Start[Needed(text)] + AllocLen[Needed(text)]
<1> DEFINE Ends(k) == Len(text) <= Start[k] + AllocLen[k]
           T == {k \in 1 .. MaxBytes + 1 : Ends(k)}
<1>1. MaxBytes \in Nat /\ Len(chunks) \in Nat
  BY ChunkAssumption
<1>2. ASSUME NEW k \in 1 .. MaxBytes + 1
      PROVE  /\ k \in 1 .. LastChunk /\ Start[k] \in Nat /\ Start[k] >= k - 1
             /\ AllocLen[k] \in Nat \ {0}
             /\ k # 1 => k - 1 \in 1 .. MaxBytes + 1 /\ Start[k] = Start[k - 1] + AllocLen[k - 1]
  <2>1. k \in 1 .. LastChunk
    BY <1>1 DEF LastChunk
  <2>2. k # 1 => k - 1 \in 1 .. MaxBytes + 1
    BY <1>1
  <2> QED BY <2>1, <2>2, StartFacts, AllocFacts
<1>3. MaxBytes + 1 \in T
  <2>1. MaxBytes + 1 \in 1 .. MaxBytes + 1
    BY <1>1
  <2>2. Start[MaxBytes + 1] \in Nat /\ Start[MaxBytes + 1] >= MaxBytes /\ AllocLen[MaxBytes + 1] \in Nat
    BY <1>1, <1>2, <2>1
  <2> QED BY <1>1, <2>1, <2>2
<1>4. PICK k \in T : \A j \in T : k <= j
  <2>1. T \subseteq Nat /\ T # {}
    BY <1>1, <1>3
  <2> HIDE DEF T
  <2> QED BY <2>1, LeastNumber
<1>5. k > 1 => Len(text) > Start[k]
  <2> SUFFICES ASSUME k > 1 PROVE Len(text) > Start[k]
    OBVIOUS
  <2>1. k \in 1 .. MaxBytes + 1 /\ k - 1 \in 1 .. MaxBytes + 1
    BY <1>1, <1>4
  <2>2. k - 1 \notin T
    BY <1>1, <1>4
  <2>3. ~ Ends(k - 1)
    BY <2>1, <2>2
  <2>4. Start[k] = Start[k - 1] + AllocLen[k - 1] /\ Start[k - 1] \in Nat /\ AllocLen[k - 1] \in Nat
    BY <1>2, <2>1
  <2> QED BY <2>3, <2>4
<1>6. \E j \in 1 .. MaxBytes + 1 :
        /\ Len(text) <= Start[j] + AllocLen[j]
        /\ j > 1 => Len(text) > Start[j]
  BY <1>4, <1>5
<1> QED BY <1>6 DEF Needed

\* A text and its length
LEMMA TextFacts ==
  ASSUME NEW text \in Texts
  PROVE  text \in Seq(Byte) /\ Len(text) \in 0 .. MaxBytes
<1>1. PICK l \in Letter, n \in 0 .. MaxBytes : text = TextOf(l, n)
  BY DEF Texts
<1>2. n \in Nat
  BY <1>1, ChunkAssumption
<1>3. TextOf(l, n) \in [1 .. n -> Byte]
  BY <1>2 DEF TextOf, Byte
<1> QED BY <1>1, <1>2, <1>3

\* What is written is a list of chunks.
LEMMA WrittenFacts ==
  ASSUME chunks \in Seq(Chunk), NEW text \in Seq(Byte), NEW k \in 1 .. MaxBytes + 1
  PROVE  /\ ChunksWith(text, k) \in Seq(Chunk) /\ k <= Len(ChunksWith(text, k))
         /\ \A i \in 1 .. k :
              ChunksWith(text, k)[i].used =
                SubSeq(text, Start[i] + 1, Smaller(Start[i] + AllocLen[i], Len(text)))
<1> DEFINE n == IF k > Len(chunks) THEN k ELSE Len(chunks)
           used(i) == SubSeq(text, Start[i] + 1, Smaller(Start[i] + AllocLen[i], Len(text)))
           c == [i \in 1 .. n |-> IF i > k THEN chunks[i] ELSE [alloc |-> AllocLen[i], used |-> used(i)]]
<1>1. /\ n \in Nat /\ k <= n /\ k \in Nat /\ Len(chunks) \in Nat
      /\ \A i \in 1 .. k : i \in 1 .. n /\ ~ (i > k)
      /\ \A i \in 1 .. n : i > k => i \in 1 .. Len(chunks)
  BY ChunkAssumption
<1>2. c = ChunksWith(text, k)
  BY DEF ChunksWith
<1>3. ASSUME NEW i \in 1 .. k PROVE [alloc |-> AllocLen[i], used |-> used(i)] \in Chunk
  <2>1. i \in 1 .. LastChunk
    BY ChunkAssumption, <1>1 DEF LastChunk
  <2>2. AllocLen[i] \in Nat \ {0} /\ Start[i] \in Nat
    BY <2>1, AllocFacts, StartFacts
  <2> DEFINE m == Start[i] + 1
             e == Smaller(Start[i] + AllocLen[i], Len(text))
  <2>3. m \in Int /\ m >= 1 /\ e \in Int /\ e <= Len(text)
    <3>1. Len(text) \in Nat
      OBVIOUS
    <3>2. \A p, q \in Nat : Smaller(p, q) \in Nat /\ Smaller(p, q) <= q
      BY DEF Smaller
    <3>3. Start[i] + 1 \in Nat /\ Start[i] + 1 >= 1 /\ Start[i] + AllocLen[i] \in Nat
      BY <2>2
    <3>4. e \in Nat /\ e <= Len(text)
      BY <3>1, <3>2, <3>3
    <3> QED BY <3>3, <3>4
  <2>4. \A j \in m .. e : text[j] \in Byte
    <3> HIDE DEF m, e
    <3> QED BY <2>3
  <2>5. SubSeq(text, m, e) \in Seq(Byte)
    <3> HIDE DEF m, e
    <3> QED BY <2>3, <2>4, SubSeqProperties
  <2> QED BY <2>2, <2>5 DEF Chunk
<1>4. ASSUME NEW i \in 1 .. n PROVE c[i] \in Chunk
  <2>1. CASE i > k
    <3>1. chunks[i] \in Chunk
      BY <1>1, <2>1
    <3> QED BY <2>1, <3>1
  <2>2. CASE ~ (i > k)
    <3>1. i \in 1 .. k
      BY <1>1, <2>2
    <3> HIDE DEF used
    <3> QED BY <1>3, <2>2, <3>1
  <2> QED BY <2>1, <2>2
<1>5. c \in [1 .. n -> Chunk]
  <2> HIDE DEF n, used
  <2> QED BY <1>4
<1>6. c \in Seq(Chunk) /\ Len(c) = n
  <2> HIDE DEF c, n
  <2> QED BY <1>1, <1>5
<1>7. ASSUME NEW i \in 1 .. k PROVE c[i].used = used(i)
  <2> HIDE DEF used, n
  <2> QED BY <1>1
<1> QED BY <1>1, <1>2, <1>6, <1>7

\* Chunks that are filled up to the end of a text hold it.
LEMMA FilledText ==
  ASSUME chunks \in Seq(Chunk), NEW text \in Seq(Byte), Len(text) \in 0 .. MaxBytes
  PROVE  LET k == Needed(text) IN FlattenSeq([i \in 1 .. k |-> ChunksWith(text, k)[i].used]) = text
<1> DEFINE k == Needed(text)
           used(i) == SubSeq(text, Start[i] + 1, Smaller(Start[i] + AllocLen[i], Len(text)))
           s == [i \in 1 .. k |-> ChunksWith(text, k)[i].used]
           prefix(i) == SubSeq(text, 1, Smaller(Start[i] + AllocLen[i], Len(text)))
<1>1. k \in 1 .. MaxBytes + 1 /\ Len(text) <= Start[k] + AllocLen[k]
  BY NeededFacts
<1> HIDE DEF k
<1>2. k \in Nat /\ k > 0 /\ \A i \in 1 .. k : i \in 1 .. LastChunk
  BY <1>1, ChunkAssumption DEF LastChunk
<1>3. ASSUME NEW i \in 1 .. k
      PROVE  /\ Start[i] \in Nat /\ AllocLen[i] \in Nat /\ Start[1] = 0
             /\ i # 1 => i - 1 \in 1 .. k /\ Start[i] = Start[i - 1] + AllocLen[i - 1]
  <2>1. i \in 1 .. LastChunk /\ (i # 1 => i - 1 \in 1 .. k)
    BY <1>2
  <2> QED BY <2>1, AllocFacts, StartFacts
<1>4. \A i \in 1 .. k : s[i] = used(i)
  <2>1. \A i \in 1 .. k : ChunksWith(text, k)[i].used = used(i)
    <3> HIDE DEF used
    <3> QED BY <1>1, WrittenFacts DEF used
  <2> QED BY <2>1
<1>5. s \in Seq(Seq(Byte)) /\ Len(s) = k
  <2>1. ASSUME NEW i \in 1 .. k PROVE ChunksWith(text, k)[i].used \in Seq(Byte)
    <3>1. ChunksWith(text, k) \in Seq(Chunk) /\ k <= Len(ChunksWith(text, k))
      BY <1>1, WrittenFacts
    <3>2. ChunksWith(text, k)[i] \in Chunk
      BY <1>2, <3>1
    <3> QED BY <3>2 DEF Chunk
  <2> QED BY <1>2, <2>1
<1> HIDE DEF s
<1>6. PICK f \in [1 .. k -> Seq(Byte)] :
        /\ f[1] = s[1]
        /\ \A i \in 1 .. k : i # 1 => f[i] = f[i - 1] \o s[i]
        /\ FlattenSeq(s) = f[k]
  <2>1. Len(s) > 0
    BY <1>2, <1>5
  <2> QED BY <1>5, <2>1, FlattenFacts
<1>7. 1 .. k \subseteq {i \in 1 .. k : f[i] = prefix(i)}
  <2> DEFINE S == {i \in 1 .. k : f[i] = prefix(i)}
  <2>1. 1 \in S
    <3>1. 1 \in 1 .. k /\ Start[1] = 0
      BY <1>2, <1>3
    <3>2. used(1) = prefix(1)
      BY <3>1
    <3> QED BY <1>4, <1>6, <3>1, <3>2
  <2>2. ASSUME NEW i \in 1 .. k - 1, i \in S PROVE i + 1 \in S
    <3>1. i + 1 \in 1 .. k /\ i + 1 # 1 /\ (i + 1) - 1 = i /\ i \in 1 .. k
      BY <1>2
    <3> DEFINE b == Start[i + 1]
               e == Smaller(b + AllocLen[i + 1], Len(text))
    <3>2. b \in Nat /\ AllocLen[i + 1] \in Nat /\ b = Start[i] + AllocLen[i]
      BY <1>3, <3>1
    <3>3. f[i + 1] = SubSeq(text, 1, Smaller(b, Len(text))) \o SubSeq(text, b + 1, e)
      BY <1>4, <1>6, <2>2, <3>1, <3>2
    <3>4. CASE b <= Len(text)
      <4>1. Smaller(b, Len(text)) = b /\ e \in b .. Len(text) /\ b \in 0 .. Len(text)
        BY <3>2, <3>4 DEF Smaller
      <4>2. SubSeq(text, 1, b) \o SubSeq(text, b + 1, e) = SubSeq(text, 1, e)
        <5>1. 1 \in 1 .. Len(text) + 1 /\ b \in 1 - 1 .. Len(text)
          BY <4>1
        <5> HIDE DEF b, e
        <5> QED BY <4>1, <5>1, ConcatAdjacentSubSeq
      <4> QED BY <3>1, <3>3, <4>1, <4>2
    <3>5. CASE b > Len(text)
      <4>1. Smaller(b, Len(text)) = Len(text) /\ e = Len(text) /\ e < b + 1
        <5>1. Len(text) \in Nat
          OBVIOUS
        <5>2. b + AllocLen[i + 1] >= b
          BY <3>2
        <5> HIDE DEF b
        <5> QED BY <3>2, <3>5, <5>1, <5>2 DEF Smaller
      <4>2. SubSeq(text, b + 1, e) = <<>>
        <5>1. b + 1 \in Int /\ e \in Int
          BY <3>2, <4>1
        <5> HIDE DEF b, e
        <5> QED BY <4>1, <5>1, SubSeqEmpty
      <4>3. SubSeq(text, 1, Len(text)) \o <<>> = SubSeq(text, 1, Len(text))
        BY SubSeqFull, ConcatEmptySeq
      <4> QED BY <3>1, <3>3, <4>1, <4>2, <4>3
    <3> QED BY <3>2, <3>4, <3>5
  <2> HIDE DEF S
  <2>3. 1 .. k \subseteq S
    BY <1>2, <2>1, <2>2, UpTo
  <2> QED BY <2>3 DEF S
<1>8. prefix(k) = text
  <2>1. Smaller(Start[k] + AllocLen[k], Len(text)) = Len(text)
    BY <1>1, <1>2, <1>3 DEF Smaller
  <2> QED BY <2>1, SubSeqFull
<1>9. FlattenSeq(s) = text
  <2>1. k \in 1 .. k
    BY <1>2
  <2>2. f[k] = prefix(k)
    BY <1>7, <2>1
  <2> QED BY <1>6, <1>8, <2>2
<1> QED BY <1>9 DEF s, k

-------------------------------------------------------------------------------
(***************************************************************************)
(* The inductive invariant of LongBuffer.                                  *)
(***************************************************************************)

Piece == [code : {"one", "first", "next", "last"}, text : Seq(Byte)]

LongTypes ==
  /\ chunks \in Seq(Chunk) /\ tail \in Nat /\ tail <= Len(chunks)
  /\ inpos \in Nat /\ pieces \in Seq(Piece)
  /\ isNull \in BOOLEAN /\ sending \in BOOLEAN /\ torn \in BOOLEAN

\* As long as no execution was given up between two pieces, inpos is the number of
\* pieces that OCI has got, which are the texts of the first chunks.
InPlace ==
  ~torn =>
    /\ ~sending => inpos = 0
    /\ sending => /\ Len(pieces) = inpos /\ (inpos = 0 \/ inpos < tail)
                  /\ \A i \in 1 .. inpos : pieces[i].text = chunks[i].used

\* What was sent while the variable did not change is what it holds.
SentIsHeld == ~torn /\ delivered # Unknown /\ held # Unknown => delivered = held

LongInv == LongTypes /\ HoldsLastText /\ InPlace /\ SentIsHeld

LEMMA NoPieces == <<>> \in Seq(Piece) /\ Len(<<>>) = 0 /\ <<>> \in Seq(Chunk)
  OBVIOUS

LEMMA LongInitInv == LongInit => LongInv
<1> SUFFICES ASSUME LongInit PROVE LongInv
  OBVIOUS
<1>1. LongTypes
  <2>1. chunks \in Seq(Chunk) /\ Len(chunks) = 0 /\ pieces \in Seq(Piece)
    BY NoPieces, Zenon DEF LongInit
  <2>2. tail = 0 /\ inpos = 0 /\ isNull = TRUE /\ sending = FALSE /\ torn = FALSE
    BY DEF LongInit
  <2>3. tail \in Nat /\ tail <= Len(chunks) /\ inpos \in Nat
    BY <2>1, <2>2
  <2>4. isNull \in BOOLEAN /\ sending \in BOOLEAN /\ torn \in BOOLEAN
    BY <2>2, Zenon
  <2> QED BY <2>1, <2>3, <2>4, Zenon DEF LongTypes
<1>2. HoldsLastText
  BY DEF LongInit, HoldsLastText, Content
<1> QED BY <1>1, <1>2 DEF LongInit, LongInv, InPlace, SentIsHeld

\* A text that fills the list makes a new list that holds it, or as many of its
\* bytes as came.
LEMMA WriteTypes ==
  ASSUME LongInv, ~sending, NEW text \in Seq(Byte), NEW k \in 1 .. MaxBytes + 1,
         Write(text, k), isNull' \in BOOLEAN, delivered' = Unknown, UNCHANGED sendVars
  PROVE  LongTypes' /\ InPlace' /\ SentIsHeld'
<1>1. /\ chunks' \in Seq(Chunk) /\ k <= Len(chunks') /\ tail' = k /\ k \in Nat
  BY WrittenFacts, ChunkAssumption DEF Write, LongInv, LongTypes
<1>2. LongTypes'
  BY <1>1 DEF LongInv, LongTypes, sendVars
<1> QED BY <1>2 DEF LongInv, LongTypes, InPlace, SentIsHeld, sendVars

\* bind_long_set and the callbacks that deliver leave the whole text.
LEMMA TextWritten ==
  ASSUME LongInv, NEW text \in Texts, Set(text) \/ Receive(text)
  PROVE  LongInv'
<1> USE DEF Set, Receive
<1>1. text \in Seq(Byte) /\ Len(text) \in 0 .. MaxBytes /\ chunks \in Seq(Chunk)
  BY TextFacts DEF LongInv, LongTypes
<1>2. Needed(text) \in 1 .. MaxBytes + 1
  BY <1>1, NeededFacts
<1>3. LongTypes' /\ InPlace' /\ SentIsHeld'
  BY <1>1, <1>2, WriteTypes
<1>4. HoldsLastText'
  <2> DEFINE k == Needed(text)
  <2>1. FlattenSeq([i \in 1 .. k |-> ChunksWith(text, k)[i].used]) = text
    BY <1>1, FilledText
  <2>2. chunks' = ChunksWith(text, k) /\ tail' = k /\ isNull' = FALSE /\ held' = text
    BY DEF Write
  <2>3. Content' = FlattenSeq([i \in 1 .. tail' |-> chunks'[i].used])
    BY <2>2 DEF Content
  <2> QED BY <2>1, <2>2, <2>3 DEF HoldsLastText
<1> QED BY <1>3, <1>4 DEF LongInv

\* NULL, and texts of which only the first chunks came, are nothing that the
\* variable must hold.
LEMMA PartWritten ==
  ASSUME LongInv, \/ ReceiveNull
                  \/ \E text \in Texts, k \in 1 .. MaxBytes : ReceiveAborts(text, k)
  PROVE  LongInv'
<1>1. CASE ReceiveNull
  <2>1. <<>> \in Seq(Byte) /\ 1 \in 1 .. MaxBytes + 1
    BY ChunkAssumption
  <2>2. LongTypes' /\ InPlace' /\ SentIsHeld'
    BY <1>1, <2>1, WriteTypes DEF ReceiveNull
  <2> QED BY <1>1, <2>2 DEF LongInv, ReceiveNull, HoldsLastText, Content
<1>2. ASSUME NEW text \in Texts, NEW k \in 1 .. MaxBytes, ReceiveAborts(text, k)
      PROVE  LongInv'
  <2>1. text \in Seq(Byte) /\ k \in 1 .. MaxBytes + 1
    BY TextFacts, ChunkAssumption
  <2>2. LongTypes' /\ InPlace' /\ SentIsHeld'
    BY <1>2, <2>1, WriteTypes DEF ReceiveAborts
  <2> QED BY <1>2, <2>2 DEF LongInv, ReceiveAborts, HoldsLastText
<1> QED BY <1>1, <1>2

\* The indicator alone changes.
LEMMA IndicatorChanged ==
  ASSUME LongInv, SetRaises \/ SetNull
  PROVE  LongInv'
<1> USE DEF SetRaises, SetNull, sendVars
<1>1. LongTypes'
  BY DEF LongInv, LongTypes
<1>2. InPlace' /\ SentIsHeld'
  BY DEF LongInv, InPlace, SentIsHeld
<1>3. HoldsLastText'
  BY DEF HoldsLastText, Content
<1> QED BY <1>1, <1>2, <1>3 DEF LongInv

LEMMA SendStarted ==
  ASSUME LongInv, StartSending
  PROVE  LongInv'
<1> USE DEF StartSending, listVars
<1>1. LongTypes' /\ Len(pieces') = 0
  BY DEF LongInv, LongTypes
<1>2. InPlace' /\ SentIsHeld'
  BY <1>1 DEF LongInv, LongTypes, InPlace, SentIsHeld
<1>3. HoldsLastText'
  BY DEF LongInv, HoldsLastText, Content
<1> QED BY <1>1, <1>2, <1>3 DEF LongInv

LEMMA SendGivenUp ==
  ASSUME LongInv, SendAborts
  PROVE  LongInv'
<1>1. pieces = <<>> <=> Len(pieces) = 0
  BY DEF LongInv, LongTypes
<1>2. LongTypes'
  <2>1. /\ pieces' = <<>> /\ sending' = FALSE /\ torn' = (torn \/ pieces # <<>>)
        /\ UNCHANGED <<chunks, tail, isNull, inpos>>
    BY DEF SendAborts, listVars
  <2>2. pieces' \in Seq(Piece)
    BY <2>1, NoPieces, Zenon
  <2>3. sending' \in BOOLEAN /\ torn' \in BOOLEAN
    BY <2>1, Zenon
  <2> QED BY <2>1, <2>2, <2>3, Zenon DEF LongInv, LongTypes
<1> USE DEF SendAborts, listVars
<1>3. InPlace' /\ SentIsHeld'
  BY <1>1 DEF LongInv, LongTypes, InPlace, SentIsHeld
<1>4. HoldsLastText'
  BY DEF LongInv, HoldsLastText, Content
<1> QED BY <1>2, <1>3, <1>4 DEF LongInv

\* OCI gets one piece after the other; the last one makes what the variable holds.
LEMMA PieceSent ==
  ASSUME LongInv, SendPiece
  PROVE  LongInv'
<1>1. /\ chunks \in Seq(Chunk) /\ tail \in Nat /\ tail <= Len(chunks) /\ inpos \in Nat
      /\ pieces \in Seq(Piece) /\ sending /\ PieceExists
      /\ UNCHANGED <<chunks, tail, isNull, held, torn>>
  BY DEF LongInv, LongTypes, SendPiece, listVars
<1>2. /\ PieceCode \in {"one", "first", "next", "last"} /\ PieceText \in Seq(Byte)
      /\ tail # 0 => inpos + 1 \in 1 .. Len(chunks) /\ PieceText = chunks[inpos + 1].used
  <2>1. tail # 0 => inpos + 1 \in 1 .. Len(chunks) /\ chunks[inpos + 1] \in Chunk
    BY <1>1 DEF PieceExists
  <2>2. PieceText \in Seq(Byte)
    BY <2>1 DEF PieceText, Chunk
  <2> QED BY <2>1, <2>2 DEF PieceCode, PieceText
<1>3. /\ Sent \in Seq(Piece) /\ Len(Sent) = Len(pieces) + 1
      /\ Sent[Len(pieces) + 1].text = PieceText
      /\ \A i \in 1 .. Len(pieces) : Sent[i] = pieces[i]
  <2>1. [code |-> PieceCode, text |-> PieceText] \in Piece
    BY <1>2 DEF Piece
  <2> QED BY <1>1, <2>1, AppendProperties DEF Sent
<1>4. HoldsLastText'
  BY <1>1 DEF LongInv, HoldsLastText, Content
<1>5. CASE PieceCode \in {"one", "last"}
  <2>1. /\ sending' = FALSE /\ pieces' = <<>>
        /\ delivered' = IF isNull THEN NullText
                        ELSE FlattenSeq([i \in 1 .. Len(Sent) |-> Sent[i].text])
        /\ inpos' = IF PieceCode = "one" THEN inpos ELSE 0
    BY <1>5 DEF SendPiece, InposAfter
  <2>2. LongTypes'
    <3>1. pieces' \in Seq(Piece)
      BY <2>1, NoPieces, Zenon
    <3>2. sending' \in BOOLEAN
      BY <2>1, Zenon
    <3>3. inpos' \in Nat
      BY <1>1, <2>1
    <3> QED BY <1>1, <3>1, <3>2, <3>3, Zenon DEF LongInv, LongTypes
  <2>3. InPlace'
    BY <1>1, <1>5, <2>1 DEF LongInv, InPlace, PieceCode
  <2>4. ASSUME ~torn, ~isNull
        PROVE  FlattenSeq([i \in 1 .. Len(Sent) |-> Sent[i].text]) = Content
    <3>1. /\ Len(pieces) = inpos /\ (inpos = 0 \/ inpos < tail)
          /\ \A i \in 1 .. inpos : pieces[i].text = chunks[i].used
      BY <1>1, <2>4 DEF LongInv, InPlace
    <3>2. CASE tail = 0
      <4>1. inpos = 0 /\ Len(Sent) = 1 /\ Sent[1].text = <<>>
        BY <1>1, <1>3, <3>1, <3>2 DEF PieceText
      <4> DEFINE s == [i \in 1 .. Len(Sent) |-> Sent[i].text]
      <4>2. s \in Seq(Seq(Byte)) /\ Len(s) = 1 /\ s[1] = <<>>
        <5>1. s = [i \in 1 .. 1 |-> <<>>]
          BY <4>1
        <5> HIDE DEF s
        <5> QED BY <5>1
      <4> HIDE DEF s
      <4>3. PICK f \in [1 .. Len(s) -> Seq(Byte)] : f[1] = s[1] /\ FlattenSeq(s) = f[Len(s)]
        <5>1. Len(s) > 0
          BY <4>2
        <5> QED BY <4>2, <5>1, FlattenFacts
      <4>5. FlattenSeq(s) = <<>>
        BY <4>2, <4>3
      <4>4. Content = <<>>
        BY <2>4, <3>2 DEF Content, FlattenSeq
      <4> QED BY <4>4, <4>5 DEF s
    <3>3. CASE tail # 0
      <4>1. Len(Sent) = tail
        BY <1>1, <1>3, <1>5, <3>1, <3>3 DEF PieceCode
      <4>2. ASSUME NEW i \in 1 .. tail PROVE Sent[i].text = chunks[i].used
        <5>1. i \in 1 .. inpos \/ i = inpos + 1
          BY <1>1, <1>3, <3>1, <4>1
        <5> QED BY <1>2, <1>3, <3>1, <3>3, <5>1
      <4>3. [i \in 1 .. Len(Sent) |-> Sent[i].text] = [i \in 1 .. tail |-> chunks[i].used]
        BY <4>1, <4>2
      <4> QED BY <2>4, <4>3 DEF Content
    <3> QED BY <3>2, <3>3
  <2>5. SentIsHeld'
    <3>1. ASSUME ~torn, held # Unknown PROVE delivered' = Content
      BY <2>1, <2>4, <3>1 DEF Content
    <3> QED BY <1>1, <3>1 DEF LongInv, HoldsLastText, SentIsHeld
  <2> QED BY <1>4, <2>2, <2>3, <2>5 DEF LongInv
<1>6. CASE PieceCode \in {"first", "next"}
  <2>1. pieces' = Sent /\ UNCHANGED <<sending, delivered>> /\ inpos' = inpos + 1
    BY <1>6 DEF SendPiece, InposAfter
  <2>2. LongTypes'
    BY <1>1, <1>3, <2>1 DEF LongInv, LongTypes
  <2>3. InPlace'
    <3> SUFFICES ASSUME ~torn
                 PROVE  /\ Len(pieces') = inpos' /\ inpos' < tail
                        /\ \A i \in 1 .. inpos' : pieces'[i].text = chunks[i].used
      BY <1>1, <2>1 DEF InPlace
    <3>1. /\ Len(pieces) = inpos /\ (inpos = 0 \/ inpos < tail)
          /\ \A i \in 1 .. inpos : pieces[i].text = chunks[i].used
      BY <1>1 DEF LongInv, InPlace
    <3>2. inpos + 1 < tail /\ tail # 0
      BY <1>1, <1>6, <3>1 DEF PieceCode
    <3>3. ASSUME NEW i \in 1 .. inpos + 1 PROVE Sent[i].text = chunks[i].used
      <4>1. i \in 1 .. inpos \/ i = inpos + 1
        BY <1>1
      <4> QED BY <1>2, <1>3, <3>1, <3>2, <4>1
    <3> QED BY <1>3, <2>1, <3>1, <3>2, <3>3
  <2> QED BY <1>1, <1>4, <2>1, <2>2, <2>3 DEF LongInv, SentIsHeld
<1> QED BY <1>2, <1>5, <1>6

\* Every step of a long bind variable keeps the invariant.
LEMMA LongNextInv == LongInv /\ [LongNext]_longVars => LongInv'
<1> SUFFICES ASSUME LongInv, [LongNext]_longVars PROVE LongInv'
  OBVIOUS
<1>1. CASE UNCHANGED longVars
  BY <1>1 DEF longVars, listVars, sendVars, LongInv, LongTypes, HoldsLastText, Content, InPlace,
              SentIsHeld
<1>2. CASE \E text \in Texts : Set(text) \/ Receive(text)
  BY <1>2, TextWritten
<1>3. CASE SetRaises \/ SetNull
  BY <1>3, IndicatorChanged
<1>4. CASE ReceiveNull \/ \E text \in Texts, k \in 1 .. MaxBytes : ReceiveAborts(text, k)
  BY <1>4, PartWritten
<1>5. CASE StartSending
  BY <1>5, SendStarted
<1>6. CASE SendPiece
  BY <1>6, PieceSent
<1>7. CASE SendAborts
  BY <1>7, SendGivenUp
<1> QED BY <1>1, <1>2, <1>3, <1>4, <1>5, <1>6, <1>7 DEF LongNext

\* The invariant of a long bind variable holds in the composed cursor.
LEMMA LongInvAlways == Spec => []LongInv
<1>1. Init => LongInit BY DEF Init
<1>2. [Next]_vars => [LongNext]_longVars BY DEF Next, vars
<1> QED BY <1>1, <1>2, LongInitInv, LongNextInv, PTL DEF Spec

\* A LONG bind variable reads as what was last set or delivered, for texts and
\* chunks of any length and any sequence of shorter and longer texts.
LEMMA LongHoldsText == Spec => []HoldsLastText
<1>1. LongInv => HoldsLastText BY DEF LongInv
<1> QED BY <1>1, LongInvAlways, PTL

\* in_bind_callback never leads OCI behind the last chunk, and the pieces that it
\* gets are the text, for texts and chunks of any length.
LEMMA LongSendsText == Spec => []SendsUnlessTorn
<1>1. LongInv => SendsUnlessTorn
  <2> SUFFICES ASSUME LongInv, ~torn
               PROVE  /\ sending => PieceExists
                      /\ delivered # Unknown /\ held # Unknown => delivered = held
    BY DEF SendsUnlessTorn
  <2>1. sending => PieceExists
    BY DEF LongInv, LongTypes, InPlace, PieceExists
  <2> QED BY <2>1 DEF LongInv, SentIsHeld
<1> QED BY <1>1, LongInvAlways, PTL

\* So the last text is what the program reads and what the server gets, as long as
\* no execution was given up between two pieces.
THEOREM LongTextsKept == Spec => []LongTextKept
<1>1. HoldsLastText /\ SendsUnlessTorn => LongTextKept BY DEF LongTextKept
<1> QED BY <1>1, LongHoldsText, LongSendsText, PTL
===============================================================================
