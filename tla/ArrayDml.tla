------------------------------- MODULE ArrayDml -------------------------------
(***************************************************************************)
(* Array DML by OCI8::Cursor: max_array_size=, bind_param_array, []= and   *)
(* exec_array.  The Ruby object keeps the size that all arrays must have;  *)
(* each bind handle owns a buffer whose address OCI keeps until the        *)
(* placeholder is bound again, also when the handle is freed.              *)
(***************************************************************************)
EXTENDS Integers, Sequences, SequencesExt

CONSTANTS Key,       \* placeholders of the statement
          Bind,      \* bind handles
          Value, Null, NoBind, NoSize, Unset,
          Zero,      \* an element of a fresh buffer
          MaxLen,    \* bound: length of the arrays of the program
          Resizes    \* bound: calls of max_array_size=

ASSUME LengthAssumption == MaxLen \in Nat
ASSUME MarksAssumption ==
  NoBind \notin Bind /\ NoSize \notin Nat /\ Unset \notin SeqOf(Value, MaxLen)

VARIABLES
  maxArraySize,  \* @max_array_size
  actualSize,    \* @actual_array_size
  handles,       \* @bind_handles
  maxarSz,       \* maxar_sz of each bind handle
  element,       \* its buffer: NULL or a value for each element
  allocated,     \* the handles that are not freed
  registered,    \* the handle whose buffer OCI uses for each placeholder
  late,          \* placeholders whose last __bind raised when OCI had the buffer
  resized,       \* calls of max_array_size= so far
  assigned,      \* what the program has last stored for each key
  inserted       \* the columns of the last exec_array, while nothing follows it

sizeVars == <<maxArraySize, actualSize, resized>>
bindVars == <<handles, maxarSz, element, allocated, registered, late>>
dmlVars == <<sizeVars, bindVars, assigned, inserted>>

Sizes == 1 .. MaxLen
Arrays == SeqOf(Value, MaxLen)

DmlInit ==
  /\ maxArraySize = NoSize /\ actualSize = NoSize /\ resized = 0
  /\ handles = [k \in Key |-> NoBind] /\ registered = [k \in Key |-> NoBind]
  /\ maxarSz = [b \in Bind |-> 0]
  /\ element = [b \in Bind |-> [i \in Sizes |-> Null]]
  /\ allocated = {} /\ late = {}
  /\ assigned = [k \in Key |-> Unset] /\ inserted = Unset

\* oci8_bind_set_data stores the first n elements of a.  When the conversion of
\* the next one raises, its indicator says already that it is not NULL.
Stored(a, n, old) ==
  [i \in Sizes |-> CASE i <= n -> a[i]
                     [] i = n + 1 /\ i <= Len(a) /\ old[i] = Null -> Zero
                     [] OTHER -> old[i]]

-------------------------------------------------------------------------------

\* all binds are freed, but OCI still has their buffers
SetMaxArraySize(n) ==
  /\ resized < Resizes /\ resized' = resized + 1
  /\ maxArraySize' = n /\ actualSize' = NoSize
  /\ IF maxArraySize = NoSize THEN UNCHANGED <<handles, allocated>>
     ELSE /\ allocated' = allocated \ {handles[k] : k \in Key}
          /\ handles' = [k \in Key |-> NoBind]
  /\ assigned' = [k \in Key |-> Unset] /\ inserted' = Unset
  /\ UNCHANGED <<maxarSz, element, registered, late>>

\* bind_param_array accepts an array of n elements; nil counts as zero
BindSizeAny(n) == TRUE  \* mutant
BindSizeFits(n) == actualSize \in {NoSize, n}

\* handles that neither the program nor OCI knows
Unused == Bind \ (allocated \union {registered[k] : k \in Key})

\* the order of __bind and the free of the old handle
FreedEarly(k, b) == allocated \ {handles[k]}  \* mutant
FreedIfFails(k, b) == allocated

\* the checks of bind_param_array; the size is taken before anything can fail
AcceptsArray(a) ==
  /\ maxArraySize # NoSize /\ Len(a) <= maxArraySize /\ BindSizeFits(Len(a))
  /\ actualSize' = Len(a) /\ inserted' = Unset
  /\ UNCHANGED <<maxArraySize, resized>>

\* OCI8::BindType::Base.new stores a in a new handle, and OCIBindByPos or
\* OCIBindByName gives OCI its buffer
BoundByOci(k, a, b) ==
  /\ b \in Unused
  /\ maxarSz' = [maxarSz EXCEPT ![b] = maxArraySize]
  /\ element' = [element EXCEPT ![b] = Stored(a, Len(a), [i \in Sizes |-> Null])]
  /\ registered' = [registered EXCEPT ![k] = b]

\* __bind succeeds; then the old handle is freed
BindParamArray(k, a, b) ==
  /\ AcceptsArray(a) /\ BoundByOci(k, a, b)
  /\ allocated' = (allocated \ {handles[k]}) \union {b}
  /\ handles' = [handles EXCEPT ![k] = b]
  /\ assigned' = [assigned EXCEPT ![k] = IF a = <<>> THEN Unset ELSE a]
  /\ late' = late \ {k}

\* a value cannot be converted, or OCI does not take the buffer
BindFails(k, a, b) ==
  /\ AcceptsArray(a)
  /\ allocated' = FreedIfFails(k, b)
  /\ UNCHANGED <<handles, maxarSz, element, registered, assigned, late>>

\* __bind raises when OCI has the buffer (OCIBindArrayOfStruct or the hook of the
\* type): the cursor keeps the old handle, nothing but the ring knows the new one
BindRaisesLate(k, a, b) ==
  /\ AcceptsArray(a) /\ BoundByOci(k, a, b)
  /\ allocated' = FreedIfFails(k, b) \union {b}
  /\ assigned' = [assigned EXCEPT ![k] = Unset]
  /\ late' = late \union {k}
  /\ UNCHANGED handles

\* the collector frees a handle that the cursor does not hold: a statement does
\* not mark its children
Collect(b) ==
  /\ b \in allocated \ {handles[k] : k \in Key}
  /\ allocated' = allocated \ {b}
  /\ UNCHANGED <<sizeVars, handles, maxarSz, element, registered, late, assigned, inserted>>

\* cursor[k] = a: the check of the size, which the first array decides
AssignSizeAny(n) == TRUE  \* mutant
AssignSizeFits(n) == actualSize > 0 => n = actualSize

SizeAfter(n) == IF actualSize = 0 /\ n <= maxArraySize THEN n ELSE actualSize

\* n elements of a are stored; all of them, or an element cannot be converted
Assign(k, a, n) ==
  /\ handles[k] # NoBind /\ AssignSizeFits(Len(a)) /\ n <= Len(a)
  /\ actualSize' = SizeAfter(Len(a))
  /\ inserted' = Unset
  /\ IF Len(a) > maxarSz[handles[k]]
     THEN UNCHANGED <<element, assigned>>
     ELSE /\ element' = [element EXCEPT ![handles[k]] = Stored(a, n, @)]
          /\ assigned' = [assigned EXCEPT ![k] =
                            IF n < Len(a) \/ a = <<>> THEN Unset ELSE a]
  /\ UNCHANGED <<maxArraySize, resized, handles, maxarSz, allocated, registered, late>>

\* a placeholder without a buffer makes OCI fail
CanExecArray ==
  /\ maxArraySize # NoSize /\ actualSize # NoSize /\ actualSize > 0
  /\ \A k \in Key : registered[k] # NoBind

\* what OCI reads from the buffers: one row for each iteration
Columns == [k \in Key |-> [i \in 1 .. actualSize |-> element[registered[k]][i]]]

ExecArray ==
  /\ CanExecArray
  /\ inserted' = Columns
  /\ UNCHANGED <<sizeVars, bindVars, assigned>>

DmlNext ==
  \/ \E n \in Sizes : SetMaxArraySize(n)
  \/ \E k \in Key, a \in Arrays, b \in Bind :
       BindParamArray(k, a, b) \/ BindFails(k, a, b) \/ BindRaisesLate(k, a, b)
  \/ \E b \in Bind : Collect(b)
  \/ \E k \in Key, a \in Arrays, n \in 0 .. MaxLen : Assign(k, a, n)
  \/ ExecArray

DmlSpec == DmlInit /\ [][DmlNext]_dmlVars

-------------------------------------------------------------------------------
(***************************************************************************)
(* Properties.                                                             *)
(***************************************************************************)

\* exec_array sends, for every placeholder whose array was stored as a whole,
\* exactly that array: the one size kept in the cursor is the size of all of
\* them, also after bindings, assignments and executions that failed.  It says
\* nothing of a placeholder whose last binding raised when OCI had the buffer.
RowsAsAssigned ==
  inserted # Unset =>
    \A k \in Key \ late : assigned[k] # Unset => inserted[k] = assigned[k]

\* A bind handle that the cursor holds is allocated, also when a binding has
\* failed, and its buffer is the one that OCI reads for the placeholder, unless
\* the failure came when OCI had the new buffer.
HeldBuffersInUse ==
  \A k \in Key : handles[k] # NoBind =>
                   /\ handles[k] \in allocated
                   /\ k \notin late => registered[k] = handles[k]

\* When exec_array calls OCI, every buffer that OCI will read is allocated, if no
\* binding has failed when OCI had the buffer: a placeholder that is not bound
\* again after max_array_size= is noticed.
BuffersAllocated ==
  CanExecArray /\ late = {} => \A k \in Key : registered[k] \in allocated
===============================================================================
