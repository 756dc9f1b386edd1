------------------------------- MODULE HandleBind -------------------------------
(***************************************************************************)
(* Bind and define variables of LOBs and of cursors (lob.c, stmt.c): each  *)
(* element of the buffer has the address of a locator or of a statement    *)
(* handle, which OCI stores into, and the Ruby object that owns it.        *)
(*                                                                         *)
(* An object's native is the number of the row that OCI has last stored in *)
(* it, 0 when there is none.  An address is named by the object that it    *)
(* belongs to.                                                             *)
(***************************************************************************)
EXTENDS Naturals, FiniteSets

CONSTANTS
  HandleElements, \* elements of the variable
  Objects,        \* bound: 1 .. Objects may exist at a time
  MaxRows,        \* bound: rows stored
  MaxKept,        \* bound: objects that the program refers to
  Unmade, Freed

ASSUME HandleAssumption ==
  /\ HandleElements \in Nat \ {0} /\ Objects \in Nat /\ Objects >= HandleElements
  /\ MaxRows \in Nat /\ MaxKept \in Nat
  /\ Unmade \notin Nat /\ Freed \notin Nat /\ Unmade # Freed

VARIABLES
  kind,           \* "lob" or "cursor"
  role,           \* "define" or "bind", "none" before Create, "freed" after free
  elements,       \* of each element, obj and hp
  renewed,        \* elements that pre_fetch_hook has renewed in this fetch
  native,         \* of each object: the row in it, Unmade or Freed
  kept,           \* objects that the program refers to
  told,           \* the row that the program got an object for, or 0
  rows,           \* rows that OCI has stored
  recorded,       \* elements whose object was written with RB_OBJ_WRITTEN
  misused         \* OCI has used an address whose owner the program has not freed itself

variableVars == <<kind, role, elements>>
handleVars == <<variableVars, renewed, native, kept, told, rows, recorded, misused>>

Object == 1 .. Objects
Element == 1 .. HandleElements

HandlesInit ==
  /\ kind = "lob" /\ role = "none" /\ elements = <<>> /\ renewed = 0
  /\ native = [o \in Object |-> Unmade]
  /\ kept = {} /\ told = [o \in Object |-> 0] /\ rows = 0
  /\ recorded = {} /\ misused = FALSE

Live == role \in {"define", "bind"}

\* o is the next object that is made
New(o) == native[o] = Unmade /\ \A p \in 1 .. o - 1 : native[p] # Unmade

KeepObject(o, row) ==
  /\ kept' = kept \union {o} /\ Cardinality(kept') <= MaxKept
  /\ told' = [told EXCEPT ![o] = row]

-----------------------------------------------------------------------------
\* oci8_bind_initialize with init_elem: a new object in each element.
Create(k, r) ==
  /\ role = "none"
  /\ kind' = k /\ role' = r
  /\ elements' = [i \in Element |-> [obj |-> i, hp |-> i]] /\ recorded' = Element
  /\ native' = [o \in Object |-> IF o \in Element THEN 0 ELSE Unmade]
  /\ UNCHANGED <<renewed, kept, told, rows, misused>>

\* oci8_bind_free, by the program or with the statement
FreeVariable ==
  /\ Live
  /\ role' = "freed" /\ elements' = <<>> /\ renewed' = 0 /\ recorded' = {}
  /\ UNCHANGED <<kind, native, kept, told, rows, misused>>

-----------------------------------------------------------------------------
\* Mutant: the hook is not called.
NotRenewed(k, r) == FALSE

\* A fetch calls pre_fetch_hook of cursors, which is bind_stmt_init_elem.
RenewsFor(k, r) == k = "cursor" /\ r = "define"

\* One element gets a new object.  No more may be made, or an exception leaves
\* the elements that follow as they are, and OCI is not called.
RenewNext ==
  /\ Live /\ RenewsFor(kind, role) /\ renewed < HandleElements
  /\ \/ /\ \E o \in Object :
             /\ New(o)
             /\ elements' = [elements EXCEPT ![renewed + 1] = [obj |-> o, hp |-> o]]
             /\ native' = [native EXCEPT ![o] = 0]
        /\ renewed' = renewed + 1 /\ recorded' = recorded \union {renewed + 1}
     \/ renewed' = 0 /\ UNCHANGED <<elements, native, recorded>>
  /\ UNCHANGED <<kind, role, kept, told, rows, misused>>

\* The native of o is gone, although the program has not closed an object that it
\* shares with a bind variable.
NotByProgram(o) == native[o] = Unmade \/ (native[o] = Freed /\ role = "define")

\* OCIStmtFetch, or OCIStmtExecute for OUT parameters: the next n rows go to the
\* addresses in the first n elements.
Store(n) ==
  /\ Live /\ rows + n <= MaxRows
  /\ RenewsFor(kind, role) => renewed = HandleElements
  /\ LET hps == {elements[i].hp : i \in 1 .. n}
         row(o) == rows + (CHOOSE i \in 1 .. n : elements[i].hp = o)
     IN  /\ native' = [o \in Object |->
                         IF o \in hps /\ native[o] \in Nat THEN row(o) ELSE native[o]]
         /\ misused' = (misused \/ \E o \in hps : NotByProgram(o))
  /\ rows' = rows + n /\ renewed' = 0
  /\ UNCHANGED <<variableVars, kept, told, recorded>>

-----------------------------------------------------------------------------
HasRow(i) == native[elements[i].obj] \in Nat \ {0}

\* bind_lob_get: a clone, with a locator of its own.  (One that is given up half
\* made is garbage.)
GetLob(i) ==
  /\ Live /\ kind = "lob" /\ HasRow(i)
  /\ \E o \in Object :
       /\ New(o)
       /\ native' = [native EXCEPT ![o] = native[elements[i].obj]]
       /\ KeepObject(o, native[elements[i].obj])
  /\ UNCHANGED <<variableVars, renewed, rows, recorded, misused>>

\* oci8_stmt_get: the object itself.  An OUT parameter goes on using it.
GetCursor(i) ==
  /\ Live /\ kind = "cursor" /\ HasRow(i)
  /\ LET o == elements[i].obj IN KeepObject(o, IF role = "define" THEN native[o] ELSE 0)
  /\ UNCHANGED <<variableVars, renewed, native, rows, recorded, misused>>

\* The program makes a LOB or a cursor of its own,
NewObject ==
  /\ role = "bind"
  /\ \E o \in Object : New(o) /\ native' = [native EXCEPT ![o] = 0] /\ KeepObject(o, 0)
  /\ UNCHANGED <<variableVars, renewed, rows, recorded, misused>>

\* and assigns one to a parameter: bind_lob_set, bind_stmt_set.
SetHandle(i, o) ==
  /\ role = "bind" /\ o \in kept
  /\ elements' = [elements EXCEPT ![i] = [obj |-> o, hp |-> o]]
  /\ told' = [told EXCEPT ![o] = 0]
  /\ recorded' = recorded \union {i}
  /\ UNCHANGED <<kind, role, renewed, native, kept, rows, misused>>

\* oci8_lob_close, Cursor#close: the program has no more use for the object.
CloseObject(o) ==
  /\ o \in kept /\ native' = [native EXCEPT ![o] = Freed]
  /\ kept' = kept \ {o} /\ told' = [told EXCEPT ![o] = 0]
  /\ UNCHANGED <<variableVars, renewed, rows, recorded, misused>>

DropObject(o) ==
  /\ o \in kept /\ kept' = kept \ {o} /\ told' = [told EXCEPT ![o] = 0]
  /\ UNCHANGED <<variableVars, renewed, native, rows, recorded, misused>>

-----------------------------------------------------------------------------
\* oci8_bind_hp_obj_mark.  What was stored without RB_OBJ_WRITTEN is missed by a
\* minor collection.
Marked == {elements[i].obj : i \in recorded}

\* The collector, at any time, also between two elements of the hook
Collect ==
  /\ native' = [o \in Object |-> IF o \in kept \union Marked THEN native[o] ELSE Unmade]
  /\ UNCHANGED <<variableVars, renewed, kept, told, rows, recorded, misused>>

HandlesNext ==
  \/ \E k \in {"lob", "cursor"}, r \in {"define", "bind"} : Create(k, r)
  \/ FreeVariable \/ RenewNext \/ NewObject
  \/ \E i \in Element :
       \/ Store(i) \/ GetLob(i) \/ GetCursor(i)
       \/ \E o \in Object : SetHandle(i, o)
  \/ \E o \in Object : CloseObject(o) \/ DropObject(o)
  \/ Collect

HandlesSpec == HandlesInit /\ [][HandlesNext]_handleVars

-----------------------------------------------------------------------------
\* A LOB or a cursor that a fetch has given to the program, or a LOB of an OUT
\* parameter, stays at its row, whatever is fetched or executed later; and OCI
\* never stores through an address whose owner was collected, or was closed by
\* the program after it had been fetched.  (Only an object that a program shares
\* with a bind variable is the program's not to close.)
HandlesKept ==
  /\ \A o \in kept : told[o] # 0 => native[o] = told[o]
  /\ ~misused
===============================================================================
