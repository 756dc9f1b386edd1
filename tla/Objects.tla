-------------------------------- MODULE Objects --------------------------------
(***************************************************************************)
(* Instances of object types (object.c, object.rb): what assignments to a  *)
(* bind variable of an object type leave in them.                          *)
(***************************************************************************)
EXTENDS ObjectLayout

CONSTANTS
  ObjectType,     \* the type of the bind variable
  Assignments,    \* what the program assigns to it
  ScalarValues,   \* what attributes and elements of the other types hold
  Nil, Refused,   \* nil, and a value that no conversion takes
  ObjectElements  \* number of its elements

VARIABLES
  objectStage,    \* of the bind variable: "new", "ready", "failed", "freed"
  instance,       \* its elements: native instances, or Nil
  before, tried,  \* element 1 before the last assignment, and what that assigned
  done            \* it raised no exception

storeVars == <<objectStage, instance, before, tried, done>>

-------------------------------------------------------------------------------
\* Values and instances.  A value is a scalar, an array for a collection, or what
\* an object holds in its attributes; a native instance has an indicator.

AttrType == TypeNames \union DOMAIN Scalars \union {Unsupported}

\* The contents of a named type whose parts are in sets: elements or attributes
Contents(t, sets) ==
  LET of == Schema[t].of
      Any[n \in 0 .. Len(of)] == IF n = 0 THEN {} ELSE Any[n - 1] \union sets[of[n]]
  IN  IF Schema[t].collection THEN Seq(sets[of[1]])
      ELSE {c \in [DOMAIN of -> Any[Len(of)]] : \A i \in DOMAIN of : c[i] \in sets[of[i]]}

Values[t \in AttrType] ==
  {Nil, Refused} \union (IF t \in TypeNames THEN Contents(t, Values) ELSE ScalarValues)

Instances[t \in AttrType] ==
  [null : BOOLEAN,
   content : IF t \in TypeNames THEN Contents(t, Instances) ELSE ScalarValues \union {Nil}]

\* A bind variable has a type whose TDO is complete.
ASSUME ObjectsAssumption ==
  /\ ObjectType \in TypeNames /\ ObjectElements \in Nat \ {0}
  /\ \A t \in Uses(ObjectType) : \A i \in DOMAIN Schema[t].of : Schema[t].of[i] # Unsupported
  /\ \A x \in {Nil, Refused} : x \notin ScalarValues /\ \A t \in TypeNames : x \notin Contents(t, Values)
  /\ \A v \in Assignments : v \in Values[ObjectType]

\* Indicator and content that OCIObjectNew gives
NewInstance[t \in AttrType] ==
  [null |-> TRUE,
   content |-> IF t \notin TypeNames THEN Nil
               ELSE IF Schema[t].collection THEN <<>>
               ELSE [i \in DOMAIN Schema[t].of |-> NewInstance[Schema[t].of[i]]]]

Failures(results) == {i \in DOMAIN results : ~results[i].ok}
FirstFailure(results) ==
  IF Failures(results) = {} THEN Len(results) + 1
  ELSE CHOOSE i \in Failures(results) : \A j \in Failures(results) : i <= j

\* Mutant: a collection that is longer than the array is not trimmed.
AssignedWithoutTrim(n, old, results) ==
  [i \in 1 .. IF Len(old) < n THEN n - 1 ELSE Len(old) |-> IF i < n THEN results[i].to ELSE old[i]]

\* The content of a collection when elements 1 .. n - 1 are assigned or appended,
\* after it was trimmed to the size of the array if it was longer
AssignedUpTo(n, old, results) ==
  LET size == IF Len(results) < Len(old) THEN Len(results) ELSE Len(old)
  IN  [i \in 1 .. IF size < n THEN n - 1 ELSE size |-> IF i < n THEN results[i].to ELSE old[i]]

\* What the elements of an array leave, one after the other, in the temporary
\* instance that is copied for each of them; set assigns to it.
ElementResults(set, new, v) ==
  LET Result[i \in 1 .. Len(v)] == set[IF i = 1 THEN new ELSE Result[i - 1].to][v[i]]
  IN  Result

\* set_attribute, attributes= and set_coll_element: what an assignment makes of
\* an instance, and whether it raised no exception; set does so for the types of
\* its parts.  The attributes of an object are assigned in place, one after the
\* other.  The indicator is cleared when all is done.
Assigned(t, set, old, v) ==
  IF v = Nil THEN [to |-> [null |-> TRUE, content |-> old.content], ok |-> TRUE]
  ELSE IF v = Refused THEN [to |-> old, ok |-> FALSE]
  ELSE IF t \notin TypeNames THEN [to |-> [null |-> FALSE, content |-> v], ok |-> TRUE]
  ELSE LET of == Schema[t].of
           results == IF Schema[t].collection
                      THEN ElementResults(set[of[1]], NewInstance[of[1]], v)
                      ELSE [i \in DOMAIN of |-> set[of[i]][old.content[i]][v[i]]]
           failed == FirstFailure(results)
           ok == failed > Len(results)
       IN  [to |-> [null |-> IF ok THEN FALSE ELSE old.null,
                    content |-> IF Schema[t].collection
                                THEN AssignedUpTo(failed, old.content, results)
                                ELSE [i \in DOMAIN of |-> IF i <= failed THEN results[i].to
                                                                         ELSE old.content[i]]],
            ok |-> ok]

SetValue[t \in AttrType] ==
  [old \in Instances[t] |-> [v \in Values[t] |-> Assigned(t, SetValue, old, v)]]

\* get_attribute, get_coll_element, to_value: an instance as a Ruby value
GetValue[t \in AttrType] ==
  [inst \in Instances[t] |->
     IF inst.null THEN Nil
     ELSE IF t \notin TypeNames THEN inst.content
     ELSE [i \in DOMAIN inst.content |->
             GetValue[Schema[t].of[IF Schema[t].collection THEN 1 ELSE i]][inst.content[i]]]]

StoreInit ==
  /\ objectStage = "new"
  /\ instance = [i \in 1 .. ObjectElements |-> Nil]
  /\ before = Nil /\ tried = Nil /\ done = TRUE

\* bind_named_type_init_elem: a wrapper is made and linked to the bind variable
\* before its instance is allocated, and either may fail.
InitObjects ==
  /\ objectStage = "new"
  /\ \E n \in 0 .. ObjectElements :
       /\ instance' = [i \in 1 .. ObjectElements |-> IF i <= n THEN NewInstance[ObjectType] ELSE Nil]
       /\ objectStage' = IF n = ObjectElements THEN "ready" ELSE "failed"
  /\ UNCHANGED <<before, tried, done>>

\* BindType::Object#set of the first element; the other ones are alike.
AssignObject(v) ==
  LET result == SetValue[ObjectType][instance[1]][v]
  IN  /\ objectStage = "ready"
      /\ instance' = [instance EXCEPT ![1] = result.to]
      /\ before' = GetValue[ObjectType][instance[1]]
      /\ tried' = v /\ done' = result.ok
      /\ UNCHANGED objectStage

\* Freeing a handle frees its children, the wrappers, first:
\* oci8_named_type_free, and then bind_named_type_free.
FreeObjects ==
  /\ instance' = [i \in 1 .. ObjectElements |-> Nil]
  /\ objectStage' = "freed"
  /\ UNCHANGED <<before, tried, done>>

StoreNext ==
  \/ InitObjects
  \/ \E v \in Assignments : AssignObject(v)
  \/ FreeObjects

-------------------------------------------------------------------------------
\* Properties

\* Of a type t: got is old in some parts and new in the others.
Mixed[t \in AttrType] ==
  [got \in Values[t] |-> [old \in Values[t] |-> [new \in Values[t] |->
     \/ got = old \/ got = new
     \/ /\ t \in TypeNames /\ {got, old, new} \cap {Nil, Refused} = {}
        /\ \A i \in DOMAIN got :
             \/ /\ i \in DOMAIN old \cap DOMAIN new
                /\ Mixed[Schema[t].of[IF Schema[t].collection THEN 1 ELSE i]][got[i]][old[i]][new[i]]
             \/ i \in DOMAIN new \ DOMAIN old /\ got[i] = new[i]]]]

\* After an assignment the object reads as what was assigned, whatever it was
\* before, longer collections and nils included.  If the assignment raised, each
\* part is the old or the new one, and an object that was nil is nil still
\* (set_attribute, set_coll_element, NamedType#attributes=).
ObjectHoldsAssigned ==
  objectStage = "ready" =>
    LET got == GetValue[ObjectType][instance[1]]
    IN  IF done THEN got = tried ELSE Mixed[ObjectType][got][before][tried]
===============================================================================
