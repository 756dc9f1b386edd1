------------------------------- MODULE Attributes -------------------------------
(***************************************************************************)
(* Attributes of an OCI handle read and written from Ruby (ocihandle.c).   *)
(* An integer attribute has a width and may be signed; C keeps only as     *)
(* many bits as the width says.  A ub1 has UnitModulus values, and ub2,    *)
(* ub4 and ub8 are two, four and eight times as wide.                      *)
(***************************************************************************)
EXTENDS Integers

CONSTANTS
  UnitModulus,    \* values of a ub1 (256)
  Magic,          \* what attr_get_common puts into the union first
  AttrIntegers,   \* what the program assigns to integer attributes
  Strings,        \* and to strings, with the empty one
  EmptyString

ASSUME AttrAssumption ==
  UnitModulus \in Nat \ {0, 1} /\ Magic \in Nat /\ AttrIntegers \subseteq Int

VARIABLES
  attrType,       \* the type that OCI documents for the attribute
  charIsSigned,   \* whether char is signed on this platform
  content,        \* the attribute in OCI
  lastSet,        \* the last value that was accepted, in a tuple, or <<>>
  handleClosed,
  attrAnswer      \* what the last call returned or raised

attributeVars == <<attrType, charIsSigned, content, lastSet, handleClosed, attrAnswer>>

Unsigned == {"ub1", "ub2", "ub4", "ub8"}
Signed == {"sb1", "sb2", "sb4", "sb8"}
IntegerTypes == Unsigned \union Signed
AttrTypes == IntegerTypes \union {"boolean", "string", "binary"}

\* The number of values of an integer type
AttrModulus(t) ==
  LET square(n) == n * n
  IN  CASE t \in {"ub1", "sb1"} -> UnitModulus
        [] t \in {"ub2", "sb2"} -> square(UnitModulus)
        [] t \in {"ub4", "sb4"} -> square(square(UnitModulus))
        [] t \in {"ub8", "sb8"} -> square(square(square(UnitModulus)))

\* The value that C has after a cast to t
Cast(t, i) ==
  LET low == i % AttrModulus(t)
  IN  IF t \in Signed /\ low >= AttrModulus(t) \div 2 THEN low - AttrModulus(t) ELSE low

\* Mutant: only the upper limit is checked.
AcceptsBelow(t, i) == i < AttrModulus(t)

\* What the conversion of a Ruby Integer accepts: check_data_range with the
\* limits of the type, CHAR_MIN and CHAR_MAX for sb1; NUM2UINT and NUM2ULL take
\* negative numbers as well.
Accepts(t, i) ==
  LET half == AttrModulus(t) \div 2
  IN  CASE t \in {"ub1", "ub2"} -> 0 <= i /\ i < AttrModulus(t)
        [] t \in {"ub4", "ub8"} -> -half <= i /\ i < AttrModulus(t)
        [] t = "sb1" -> IF charIsSigned THEN -half <= i /\ i < half
                                        ELSE 0 <= i /\ i < AttrModulus(t)
        [] t \in {"sb2", "sb4", "sb8"} -> -half <= i /\ i < half

-----------------------------------------------------------------------------
AttributesInit(types, signs) ==
  /\ attrType \in types
  /\ charIsSigned \in signs
  /\ content = CASE attrType \in IntegerTypes -> 0
                 [] attrType = "boolean" -> FALSE
                 [] attrType \in {"string", "binary"} -> EmptyString
  /\ lastSet = <<>>
  /\ handleClosed = FALSE
  /\ attrAnswer = <<"none">>

Respond(a) ==
  attrAnswer' = a /\ UNCHANGED <<attrType, charIsSigned, content, lastSet, handleClosed>>

\* The setter raises: the value is refused, OCI does not know the attribute or
\* refuses the value, or the handle is closed.
SetRaises == Respond(<<"raised">>)

StoreAttribute(c, v) ==
  /\ content' = c /\ lastSet' = <<v>> /\ attrAnswer' = <<"self">>
  /\ UNCHANGED <<attrType, charIsSigned, handleClosed>>

\* attr_set_ub1 ... attr_set_sb8
SetInteger(i) ==
  /\ ~handleClosed /\ attrType \in IntegerTypes
  /\ IF Accepts(attrType, i) THEN StoreAttribute(Cast(attrType, i), i) ELSE SetRaises

\* attr_set_boolean
SetBoolean(v) ==
  /\ ~handleClosed /\ attrType = "boolean"
  /\ StoreAttribute(v # "nil" /\ v # "false", v)

\* attr_set_string, attr_set_binary
SetString(s) ==
  /\ ~handleClosed /\ attrType \in {"string", "binary"}
  /\ StoreAttribute(s, s)

\* The union after OCIAttrGet: OCI writes as many bytes as the attribute has,
\* those above it are Magic's, and the reader takes as many as its type has
\* (little endian).
InUnion(reader) ==
  LET kept == AttrModulus(attrType)
      all == (Magic \div kept) * kept + (content % kept)
  IN  Cast(reader, all)

\* attr_get_ub1 ... attr_get_sb8, also of another type than the attribute has
GetInteger(reader) ==
  /\ ~handleClosed /\ attrType \in IntegerTypes
  /\ Respond(<<"value", InUnion(reader)>>)

\* The other readers; without strict, an empty string is nil.
GetOther(strict) ==
  /\ ~handleClosed /\ attrType \notin IntegerTypes
  /\ Respond(IF attrType = "string" /\ content = EmptyString /\ ~strict
             THEN <<"nil">> ELSE <<"value", content>>)

\* OCIAttrGet fails; without strict, ORA-24328 (illegal attribute value) is nil.
GetFails(strict, illegal) ==
  /\ ~handleClosed
  /\ Respond(IF illegal /\ ~strict THEN <<"nil">> ELSE <<"raised">>)

\* A closed handle is refused, except to a method with inspect in its name.
GetClosed(inspecting) ==
  /\ handleClosed
  /\ Respond(IF inspecting THEN <<"nil">> ELSE <<"raised">>)

FreeHandle == handleClosed' = TRUE /\ UNCHANGED <<attrType, charIsSigned, content, lastSet, attrAnswer>>

AttributesNext ==
  \/ \E i \in AttrIntegers : SetInteger(i)
  \/ \E v \in {"nil", "false", "other"} : SetBoolean(v)
  \/ \E s \in Strings : SetString(s)
  \/ SetRaises
  \/ \E reader \in IntegerTypes : GetInteger(reader)
  \/ \E b, c \in BOOLEAN : GetFails(b, c) \/ (b = c /\ (GetOther(b) \/ GetClosed(b)))
  \/ FreeHandle

AttributesSpec == AttributesInit(AttrTypes, BOOLEAN) /\ [][AttributesNext]_attributeVars

-----------------------------------------------------------------------------
\* An attribute reads back, with the reader of its type, as what was assigned
\* last, however many assignments were refused since.  The two wide unsigned
\* types take negative numbers for those at the upper end, and where char is
\* unsigned, sb1 takes too large ones for negative ones (ocihandle.c).
AttributeKept ==
  attrType \in IntegerTypes /\ lastSet # <<>> =>
    LET got == InUnion(attrType)
    IN  \/ got = lastSet[1]
        \/ attrType \in {"ub4", "ub8"} /\ lastSet[1] < 0 /\ got = lastSet[1] + AttrModulus(attrType)
        \/ attrType = "sb1" /\ ~charIsSigned /\ lastSet[1] > 0 /\ got = lastSet[1] - AttrModulus(attrType)
===============================================================================
