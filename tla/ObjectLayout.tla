------------------------------ MODULE ObjectLayout ------------------------------
(***************************************************************************)
(* Object types (object.rb): how the TDO of a type, the layout of its      *)
(* native instances, is computed and cached.                               *)
(***************************************************************************)
EXTENDS Integers, Sequences, FiniteSets

CONSTANTS
  TypeNames,      \* named types of the database
  Schema,         \* TypeNames -> [collection : BOOLEAN, of : attribute types]
  Nesting,        \* how deep types hold instances of one another
  Scalars,        \* the other types -> [size, alignment], as in check_metadata
  Unsupported,    \* a type that check_metadata does not know
  PointerSize

\* the types that a type holds instances of
Embedded(t) == {Schema[t].of[i] : i \in DOMAIN Schema[t].of} \cap TypeNames

Alignments == {1, PointerSize} \union {Scalars[s].alignment : s \in DOMAIN Scalars}

\* Alignments are powers of two: the smaller of two divides the other.
ASSUME ScalarsAssumption ==
  /\ PointerSize \in Nat \ {0}
  /\ \A s \in DOMAIN Scalars : Scalars[s].size \in Nat /\ Scalars[s].alignment \in Nat \ {0}
  /\ \A a, b \in Alignments : a <= b => b % a = 0

\* Each type that a type holds instances of is less deep.
Deepens(depth) == \A t \in TypeNames : \A u \in Embedded(t) : depth[u] < depth[t]

\* A collection has elements of one type.  The database refuses a type that holds
\* instances of itself, at any depth.
ASSUME SchemaAssumption ==
  /\ Nesting \in Nat
  /\ \A t \in TypeNames :
       /\ Schema[t].collection \in BOOLEAN
       /\ Schema[t].of \in Seq(TypeNames \union DOMAIN Scalars \union {Unsupported})
       /\ Schema[t].collection => Len(Schema[t].of) = 1
  /\ \E depth \in [TypeNames -> 1 .. Nesting] : Deepens(depth)

NotCached == <<>>
NoSize == -1

VARIABLES
  tdos,           \* TypeNames -> a TDO, as far as it is built, or NotCached
  building,       \* the types under construction; each needs the next one
  half            \* types whose construction raised an exception

layoutVars == <<tdos, building, half>>

-------------------------------------------------------------------------------
\* TDO#initialize enters itself in the caches before it looks at its attributes.

RoundUp(n, alignment) == ((n + alignment - 1) \div alignment) * alignment

EnteredTdo == [val |-> NoSize, ind |-> NoSize, alignment |-> 1, attrs |-> <<>>, complete |-> FALSE]

\* The sizes that initialize_named_type and initialize_named_collection start with
Sized(t) ==
  IF Schema[t].collection
  THEN [EnteredTdo EXCEPT !.val = PointerSize, !.ind = 2, !.alignment = PointerSize]
  ELSE [EnteredTdo EXCEPT !.val = 0, !.ind = 2]

\* size, indicators and alignment of an attribute: check_metadata
Layout(a) ==
  IF a \in TypeNames
  THEN [size |-> tdos[a].val, ind |-> tdos[a].ind, alignment |-> tdos[a].alignment]
  ELSE [size |-> Scalars[a].size, ind |-> 2, alignment |-> Scalars[a].alignment]

\* Mutant: the next attribute starts where the last one ended.
AttrPacked(tdo, a) ==
  [val |-> tdo.val, ind |-> tdo.ind,
   size |-> Layout(a).size, indSize |-> Layout(a).ind, alignment |-> Layout(a).alignment]

\* Attr#initialize
AttrAt(tdo, a) ==
  [val |-> RoundUp(tdo.val, Layout(a).alignment), ind |-> tdo.ind,
   size |-> Layout(a).size, indSize |-> Layout(a).ind, alignment |-> Layout(a).alignment]

WithAttr(tdo, a, collection) ==
  LET attr == AttrAt(IF collection THEN [tdo EXCEPT !.val = 0, !.ind = 0] ELSE tdo, a)
  IN  IF collection THEN [tdo EXCEPT !.attrs = <<attr>>]
      ELSE [tdo EXCEPT !.attrs = Append(@, attr),
                       !.val = attr.val + attr.size,
                       !.ind = attr.ind + attr.indSize,
                       !.alignment = IF @ < attr.alignment THEN attr.alignment ELSE @]

Current == building[Len(building)]
Pending == Len(tdos[Current].attrs) < Len(Schema[Current].of)
NextAttribute == Schema[Current].of[Len(tdos[Current].attrs) + 1]

\* get_tdo_by_metadata, get_tdo_by_class: a type that is cached is not built again.
Enter(t) ==
  /\ tdos[t] = NotCached
  /\ tdos' = [tdos EXCEPT ![t] = EnteredTdo]
  /\ building' = Append(building, t)
  /\ UNCHANGED half

GetTdo(t) == building = <<>> /\ Enter(t)

Begin ==
  /\ building # <<>> /\ tdos[Current].val = NoSize
  /\ tdos' = [tdos EXCEPT ![Current] = Sized(Current)]
  /\ UNCHANGED <<building, half>>

GetNestedTdo ==
  /\ building # <<>> /\ tdos[Current].val # NoSize /\ Pending
  /\ NextAttribute \in TypeNames /\ Enter(NextAttribute)

\* A TDO without sizes cannot be computed with.
AddAttribute ==
  /\ building # <<>> /\ tdos[Current].val # NoSize /\ Pending
  /\ NextAttribute # Unsupported
  /\ NextAttribute \in TypeNames => /\ tdos[NextAttribute] # NotCached
                                    /\ tdos[NextAttribute].val # NoSize
  /\ tdos' = [tdos EXCEPT ![Current] = WithAttr(@, NextAttribute, Schema[Current].collection)]
  /\ UNCHANGED <<building, half>>

CompleteTdo ==
  /\ building # <<>> /\ tdos[Current].val # NoSize /\ ~Pending
  /\ tdos' = [tdos EXCEPT ![Current].val = RoundUp(@, tdos[Current].alignment),
                          ![Current].complete = TRUE]
  /\ building' = SubSeq(building, 1, Len(building) - 1)
  /\ UNCHANGED half

\* A description fails, or a type is not supported: the exception leaves all the
\* constructors, and the caches keep what they have.
BuildRaises ==
  /\ building # <<>>
  /\ half' = half \union {building[i] : i \in DOMAIN building}
  /\ building' = <<>>
  /\ UNCHANGED tdos

LayoutInit == tdos = [t \in TypeNames |-> NotCached] /\ building = <<>> /\ half = {}

LayoutNext ==
  \/ \E t \in TypeNames : GetTdo(t)
  \/ Begin \/ GetNestedTdo \/ AddAttribute \/ CompleteTdo \/ BuildRaises

-------------------------------------------------------------------------------
\* Properties

\* t and what it holds instances of, at any depth
Uses(t) ==
  {u \in TypeNames :
     \A T \in SUBSET TypeNames : t \in T /\ (\A v \in T : Embedded(v) \subseteq T) => u \in T}

\* A TDO is complete, unless its construction or that of a type it uses once
\* raised an exception; then its attributes are where the C structures have
\* them: aligned, one behind the other, values and indicators in the sizes that
\* the type has for those who embed it (object.rb, TDO#initialize and Attr).
LayoutFits ==
  \A t \in TypeNames :
    tdos[t] # NotCached /\ Uses(t) \cap half = {} =>
      LET tdo == tdos[t]
          attrs == tdo.attrs
      IN  /\ tdo.complete \/ t \in {building[i] : i \in DOMAIN building}
          /\ tdo.complete => Len(attrs) = Len(Schema[t].of)
          /\ \A i \in DOMAIN attrs :
               /\ attrs[i].val % attrs[i].alignment = 0
               /\ attrs[i].size = Layout(Schema[t].of[i]).size
               /\ Schema[t].of[i] \in TypeNames => tdos[Schema[t].of[i]].complete
               /\ ~Schema[t].collection =>
                    /\ tdo.alignment % attrs[i].alignment = 0
                    /\ attrs[i].ind >= 2
                    /\ attrs[i].val + attrs[i].size <= tdo.val
                    /\ attrs[i].ind + attrs[i].indSize <= tdo.ind
                    /\ i > 1 => /\ attrs[i - 1].val + attrs[i - 1].size <= attrs[i].val
                                /\ attrs[i - 1].ind + attrs[i - 1].indSize <= attrs[i].ind
          /\ tdo.complete => tdo.val % tdo.alignment = 0
===============================================================================
