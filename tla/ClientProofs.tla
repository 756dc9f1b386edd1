------------------------------ MODULE ClientProofs ------------------------------
(***************************************************************************)
(* Proofs about the parts of Client, each for all values of its constants: *)
(* bind variables of handles, strings, dates and times, attributes of OCI  *)
(* handles, the hooks with OCI8.properties, the reports of errors, the     *)
(* layout of object types, and objects of those types.  Each has a         *)
(* specification of its own here; as the parts share no state, all of them *)
(* hold of Client, and with them what was proved (ClientSafe).             *)
(***************************************************************************)
EXTENDS Client, NumberTextProofs

\* A multiple of k does not change a remainder.
LEMMA LowBits ==
  ASSUME NEW k \in Nat \ {0}, NEW q \in Int, NEW r \in 0 .. k - 1
  PROVE  (q * k + r) % k = r
  OBVIOUS

-------------------------------------------------------------------------------
(***************************************************************************)
(* HandleBind: the handles of bind and define variables are kept, for any  *)
(* number of elements, objects and rows.                                   *)
(***************************************************************************)

Buffers == [Element -> [obj : Object, hp : Object]]

HandleTypeOK ==
  /\ kind \in {"lob", "cursor"} /\ role \in {"none", "define", "bind", "freed"}
  /\ renewed \in 0 .. HandleElements /\ (~Live => renewed = 0)
  /\ native \in [Object -> Nat \union {Unmade, Freed}]
  /\ kept \in SUBSET Object /\ told \in [Object -> Nat] /\ rows \in Nat
  /\ role = "none" => kept = {}
  /\ Live => elements \in Buffers /\ recorded = Element

\* Each element has the address of its own object, which is there.
ElementsOwn ==
  Live => \A i \in Element : /\ elements[i].hp = elements[i].obj
                             /\ native[elements[i].obj] # Unmade

\* The program has only objects that are open, and a row for no others.
KeptOpen ==
  \A o \in Object : /\ o \in kept => native[o] \in Nat
                    /\ o \notin kept => told[o] = 0
                    /\ told[o] # 0 => native[o] = told[o]

\* What OCI is about to store into was never given to the program as a row.
NotGiven ==
  /\ role = "define" /\ kind = "lob" =>
       \A i \in Element : elements[i].obj \notin kept /\ native[elements[i].obj] \in Nat
  /\ role = "define" /\ kind = "cursor" =>
       \A i \in 1 .. renewed : elements[i].obj \notin kept /\ native[elements[i].obj] = 0
  /\ role = "bind" => \A i \in Element : told[elements[i].obj] = 0

HandleInv == HandleTypeOK /\ ElementsOwn /\ KeptOpen /\ NotGiven /\ ~misused

\* The program has no object yet.
LEMMA HandlesInitInv == HandlesInit => HandleInv
  BY HandleAssumption DEF HandlesInit, HandleInv, HandleTypeOK, ElementsOwn, KeptOpen, NotGiven, Live, Element

\* Each element gets an object of its own.
LEMMA CreateInv ==
  ASSUME HandleInv, NEW k \in {"lob", "cursor"}, NEW r \in {"define", "bind"}, Create(k, r)
  PROVE  HandleInv'
  <1> USE HandleAssumption DEF HandleInv, Create, Live
  <1>1. \A i \in Element : i \in Object
    BY DEF Element, Object
  <1>2. /\ \A i \in Element : elements'[i].obj = i /\ elements'[i].hp = i
        /\ \A o \in Object : native'[o] = IF o \in Element THEN 0 ELSE Unmade
        /\ role' = r /\ kind' = k /\ recorded' = Element
    OBVIOUS
  <1>3. HandleTypeOK'
    BY <1>1, <1>2 DEF HandleTypeOK, Buffers
  <1>4. ElementsOwn'
    <2>1. \A i \in Element : native'[i] = 0 /\ native'[i] # Unmade
      BY <1>1, <1>2
    <2> QED
      BY <1>2, <2>1 DEF ElementsOwn
  <1>5. kept = {} /\ \A o \in Object : told[o] = 0
    BY DEF HandleTypeOK, KeptOpen
  <1>6. KeptOpen'
    BY <1>5 DEF KeptOpen
  <1>7. NotGiven'
    BY <1>1, <1>2, <1>5 DEF HandleTypeOK, NotGiven
  <1> QED
    BY <1>3, <1>4, <1>6, <1>7

\* A variable that is freed leaves the program's objects alone.
LEMMA FreeInv == ASSUME HandleInv, FreeVariable PROVE HandleInv'
  BY HandleAssumption
  DEF FreeVariable, HandleInv, HandleTypeOK, ElementsOwn, KeptOpen, NotGiven, Live

\* A new object is none of those in the elements, and none that the program has.
LEMMA NewIsNew ==
  ASSUME HandleInv, NEW o \in Object, New(o)
  PROVE  /\ o \notin kept /\ told[o] = 0
         /\ Live => \A i \in Element : elements[i].obj # o
  BY HandleAssumption DEF New, HandleInv, KeptOpen, ElementsOwn

\* A renewed element has an object that nobody else has.
LEMMA RenewInv == ASSUME HandleInv, RenewNext PROVE HandleInv'
  <1> USE HandleAssumption DEF HandleInv
  <1>1. CASE renewed' = 0 /\ UNCHANGED <<elements, native, recorded>>
    BY <1>1 DEF RenewNext, HandleTypeOK, ElementsOwn, KeptOpen, NotGiven, Live
  <1>2. ASSUME NEW o \in Object, New(o),
               elements' = [elements EXCEPT ![renewed + 1] = [obj |-> o, hp |-> o]],
               native' = [native EXCEPT ![o] = 0],
               renewed' = renewed + 1, recorded' = recorded \union {renewed + 1}
        PROVE  HandleInv'
    <2>1. /\ Live /\ kind = "cursor" /\ role = "define" /\ renewed + 1 \in Element
          /\ UNCHANGED <<kind, role, kept, told, rows, misused>>
      BY DEF RenewNext, RenewsFor, Element, HandleTypeOK
    <2>2. \A i \in Element : elements'[i] = IF i = renewed + 1 THEN [obj |-> o, hp |-> o]
                                                            ELSE elements[i]
      BY <1>2, <2>1 DEF HandleTypeOK, Buffers
    <2>3. /\ native'[o] = 0 /\ native[o] = Unmade
          /\ \A p \in Object : p # o => native'[p] = native[p]
      BY <1>2 DEF HandleTypeOK, New
    <2>4. o \notin kept /\ told[o] = 0 /\ \A i \in Element : elements[i].obj # o
      BY <1>2, <2>1, NewIsNew
    <2>5. HandleTypeOK'
      BY <1>2, <2>1 DEF HandleTypeOK, Buffers, Live, Element
    <2>6. ElementsOwn'
      BY <2>1, <2>2, <2>3 DEF ElementsOwn, HandleTypeOK, Buffers, Live
    <2>7. KeptOpen'
      BY <2>1, <2>3, <2>4 DEF KeptOpen
    <2>8. NotGiven'
      <3>1. \A i \in 1 .. renewed' : i \in Element /\ (i # renewed + 1 => i \in 1 .. renewed)
        BY <1>2, <2>1 DEF HandleTypeOK, Element
      <3>2. ASSUME NEW i \in 1 .. renewed'
            PROVE  elements'[i].obj \notin kept' /\ native'[elements'[i].obj] = 0
        <4>1. CASE i = renewed + 1
          BY <2>1, <2>2, <2>3, <2>4, <3>1, <4>1
        <4>2. CASE i # renewed + 1
          <5>1. i \in Element /\ i \in 1 .. renewed /\ elements'[i] = elements[i]
            BY <2>2, <3>1, <4>2
          <5>2. elements[i].obj \in Object /\ elements[i].obj # o
            BY <2>1, <2>4, <5>1 DEF HandleTypeOK, Buffers
          <5>3. elements[i].obj \notin kept /\ native[elements[i].obj] = 0
            BY <2>1, <5>1 DEF NotGiven
          <5> QED
            BY <2>1, <2>3, <5>1, <5>2, <5>3
        <4> QED
          BY <4>1, <4>2
      <3> QED
        BY <2>1, <3>2 DEF NotGiven
    <2> QED
      BY <2>1, <2>5, <2>6, <2>7, <2>8
  <1> QED
    BY <1>1, <1>2 DEF RenewNext

\* OCI stores into objects that were not given to the program.
LEMMA StoreInv == ASSUME HandleInv, NEW n \in Element, Store(n) PROVE HandleInv'
  <1> USE HandleAssumption DEF HandleInv
  <1> DEFINE hps == {elements[i].hp : i \in 1 .. n}
             row(o) == rows + (CHOOSE i \in 1 .. n : elements[i].hp = o)
  <1>1. /\ Live /\ (RenewsFor(kind, role) => renewed = HandleElements)
        /\ native' = [o \in Object |-> IF o \in hps /\ native[o] \in Nat THEN row(o) ELSE native[o]]
        /\ misused' = (misused \/ \E o \in hps : NotByProgram(o))
        /\ rows' = rows + n /\ renewed' = 0
        /\ UNCHANGED <<variableVars, kept, told, recorded>>
    BY DEF Store
  <1>2. \A i \in 1 .. n : i \in Element /\ elements[i].hp = elements[i].obj /\ elements[i].obj \in Object
    BY <1>1 DEF Element, ElementsOwn, HandleTypeOK, Buffers
  <1>3. \A o \in hps : row(o) \in Nat
    <2> SUFFICES ASSUME NEW i \in 1 .. n PROVE row(elements[i].hp) \in Nat
      OBVIOUS
    <2>1. \E j \in 1 .. n : elements[j].hp = elements[i].hp
      OBVIOUS
    <2>2. (CHOOSE j \in 1 .. n : elements[j].hp = elements[i].hp) \in 1 .. n
      BY <2>1
    <2> QED
      BY <2>2 DEF HandleTypeOK, Element
  <1>4. \A o \in Object : /\ native[o] \in Nat => native'[o] \in Nat
                          /\ native[o] \notin Nat \/ o \notin hps => native'[o] = native[o]
    BY <1>1, <1>3
  <1>5. \A o \in hps : told[o] = 0 /\ ~NotByProgram(o)
    <2> SUFFICES ASSUME NEW i \in 1 .. n
                 PROVE  told[elements[i].obj] = 0 /\ ~NotByProgram(elements[i].obj)
      BY <1>2
    <2>1. i \in Element /\ elements[i].obj \in Object /\ native[elements[i].obj] # Unmade
      BY <1>1, <1>2 DEF ElementsOwn
    <2>2. CASE role = "bind"
      BY <2>1, <2>2 DEF NotGiven, NotByProgram
    <2>3. CASE role = "define"
      <3>1. elements[i].obj \notin kept /\ native[elements[i].obj] \in Nat
        BY <1>1, <2>1, <2>3 DEF NotGiven, RenewsFor, HandleTypeOK, Element
      <3> QED
        BY <2>1, <3>1 DEF KeptOpen, NotByProgram
    <2> QED
      BY <1>1, <2>2, <2>3 DEF Live
  <1>6. HandleTypeOK'
    <2>1. native' \in [Object -> Nat \union {Unmade, Freed}]
      BY <1>1, <1>4 DEF HandleTypeOK
    <2>2. rows' \in Nat /\ renewed' \in 0 .. HandleElements
      BY <1>1 DEF HandleTypeOK, Element
    <2>3. Live' => elements' \in Buffers /\ recorded' = Element
      BY <1>1 DEF HandleTypeOK, variableVars, Live
    <2> QED
      BY <1>1, <2>1, <2>2, <2>3 DEF HandleTypeOK, variableVars
  <1>7. ElementsOwn'
    BY <1>1, <1>4 DEF ElementsOwn, HandleTypeOK, Buffers, variableVars, Live
  <1>8. KeptOpen'
    BY <1>1, <1>4, <1>5 DEF KeptOpen
  <1>9. NotGiven'
    BY <1>1, <1>4 DEF NotGiven, HandleTypeOK, Buffers, variableVars, Live
  <1> QED
    BY <1>1, <1>5, <1>6, <1>7, <1>8, <1>9

\* The program gets a clone of the LOB.
LEMMA GetLobInv == ASSUME HandleInv, NEW i \in Element, GetLob(i) PROVE HandleInv'
  <1> USE HandleAssumption DEF HandleInv
  <1>1. PICK o \in Object : /\ New(o)
                            /\ native' = [native EXCEPT ![o] = native[elements[i].obj]]
                            /\ KeepObject(o, native[elements[i].obj])
    BY DEF GetLob
  <1>2. /\ Live /\ kind = "lob" /\ native[elements[i].obj] \in Nat \ {0}
        /\ UNCHANGED <<kind, role, elements, renewed, rows, recorded, misused>>
    BY DEF GetLob, HasRow, variableVars
  <1>3. o \notin kept /\ told[o] = 0 /\ \A j \in Element : elements[j].obj # o
    BY <1>1, <1>2, NewIsNew
  <1>4. /\ \A p \in Object : native'[p] = IF p = o THEN native[elements[i].obj] ELSE native[p]
        /\ \A p \in Object : told'[p] = IF p = o THEN native[elements[i].obj] ELSE told[p]
        /\ kept' = kept \union {o}
    BY <1>1 DEF KeepObject, HandleTypeOK
  <1>5. HandleTypeOK'
    BY <1>1, <1>2 DEF HandleTypeOK, KeepObject, Live
  <1>6. \A j \in Element : elements[j].obj \in Object /\ native'[elements[j].obj] = native[elements[j].obj]
                           /\ told'[elements[j].obj] = told[elements[j].obj]
    BY <1>2, <1>3, <1>4 DEF HandleTypeOK, Buffers
  <1>7. ElementsOwn'
    BY <1>2, <1>6 DEF ElementsOwn, Live
  <1>8. KeptOpen'
    BY <1>2, <1>3, <1>4 DEF KeptOpen
  <1>9. NotGiven'
    BY <1>2, <1>3, <1>4, <1>6 DEF NotGiven
  <1> QED
    BY <1>2, <1>5, <1>7, <1>8, <1>9

\* The program gets the object of an element that is not renewed.
LEMMA GetCursorInv == ASSUME HandleInv, NEW i \in Element, GetCursor(i) PROVE HandleInv'
  <1> USE HandleAssumption DEF HandleInv
  <1> DEFINE o == elements[i].obj
             row == IF role = "define" THEN native[o] ELSE 0
  <1>1. /\ Live /\ kind = "cursor" /\ native[o] \in Nat \ {0}
        /\ kept' = kept \union {o} /\ told' = [told EXCEPT ![o] = row]
        /\ UNCHANGED <<kind, role, elements, renewed, native, rows, recorded, misused>>
    BY DEF GetCursor, HasRow, KeepObject, variableVars
  <1>2. o \in Object /\ row \in Nat
    BY <1>1 DEF HandleTypeOK, Buffers
  <1>3. \A p \in Object : told'[p] = IF p = o THEN row ELSE told[p]
    BY <1>1, <1>2 DEF HandleTypeOK
  <1>4. HandleTypeOK'
    BY <1>1, <1>2 DEF HandleTypeOK, Live
  <1>5. ElementsOwn'
    BY <1>1 DEF ElementsOwn, Live
  <1>6. KeptOpen'
    BY <1>1, <1>2, <1>3 DEF KeptOpen
  <1>7. NotGiven'
    <2>1. CASE role = "define"
      <3>1. \A j \in 1 .. renewed : elements[j].obj # o
        BY <1>1, <2>1 DEF NotGiven
      <3> QED
        BY <1>1, <2>1, <3>1 DEF NotGiven
    <2>2. CASE role = "bind"
      BY <1>1, <1>2, <1>3, <2>2 DEF NotGiven, HandleTypeOK, Buffers, Live
    <2> QED
      BY <1>1, <2>1, <2>2 DEF Live
  <1> QED
    BY <1>1, <1>4, <1>5, <1>6, <1>7

\* An object that the program makes is none of the elements'.
LEMMA NewObjectInv == ASSUME HandleInv, NewObject PROVE HandleInv'
  <1> USE HandleAssumption DEF HandleInv
  <1>1. PICK o \in Object : New(o) /\ native' = [native EXCEPT ![o] = 0] /\ KeepObject(o, 0)
    BY DEF NewObject
  <1>2. role = "bind" /\ UNCHANGED <<kind, role, elements, renewed, rows, recorded, misused>>
    BY DEF NewObject, variableVars
  <1>3. o \notin kept /\ told[o] = 0 /\ \A j \in Element : elements[j].obj # o
    BY <1>1, <1>2, NewIsNew DEF Live
  <1>4. /\ \A p \in Object : native'[p] = IF p = o THEN 0 ELSE native[p]
        /\ told' = told /\ kept' = kept \union {o}
    BY <1>1, <1>3 DEF KeepObject, HandleTypeOK
  <1>5. HandleTypeOK'
    BY <1>1, <1>2, <1>4 DEF HandleTypeOK, Live
  <1>6. ElementsOwn'
    BY <1>2, <1>3, <1>4 DEF ElementsOwn, HandleTypeOK, Buffers, Live
  <1>7. KeptOpen'
    BY <1>2, <1>3, <1>4 DEF KeptOpen
  <1>8. NotGiven'
    BY <1>2, <1>4 DEF NotGiven
  <1> QED
    BY <1>2, <1>5, <1>6, <1>7, <1>8

\* An object that the program assigns has no row any more.
LEMMA SetHandleInv ==
  ASSUME HandleInv, NEW i \in Element, NEW o \in Object, SetHandle(i, o)
  PROVE  HandleInv'
  <1> USE HandleAssumption DEF HandleInv
  <1>1. /\ role = "bind" /\ o \in kept
        /\ elements' = [elements EXCEPT ![i] = [obj |-> o, hp |-> o]]
        /\ told' = [told EXCEPT ![o] = 0] /\ recorded' = recorded \union {i}
        /\ UNCHANGED <<kind, role, renewed, native, kept, rows, misused>>
    BY DEF SetHandle
  <1>2. /\ \A j \in Element : elements'[j] = IF j = i THEN [obj |-> o, hp |-> o] ELSE elements[j]
        /\ \A p \in Object : told'[p] = IF p = o THEN 0 ELSE told[p]
        /\ \A j \in Element : elements[j].obj \in Object
    BY <1>1 DEF HandleTypeOK, Buffers, Live
  <1>3. HandleTypeOK'
    BY <1>1 DEF HandleTypeOK, Buffers, Live
  <1>4. ElementsOwn'
    BY <1>1, <1>2 DEF ElementsOwn, KeptOpen, Live
  <1>5. KeptOpen'
    BY <1>1, <1>2 DEF KeptOpen
  <1>6. NotGiven'
    BY <1>1, <1>2 DEF NotGiven
  <1> QED
    BY <1>1, <1>3, <1>4, <1>5, <1>6

\* An object that is closed is none that the program has.
LEMMA CloseObjectInv == ASSUME HandleInv, NEW o \in Object, CloseObject(o) PROVE HandleInv'
  <1> USE HandleAssumption DEF HandleInv
  <1>1. /\ o \in kept /\ native' = [native EXCEPT ![o] = Freed]
        /\ kept' = kept \ {o} /\ told' = [told EXCEPT ![o] = 0]
        /\ UNCHANGED <<kind, role, elements, renewed, rows, recorded, misused>>
    BY DEF CloseObject, variableVars
  <1>2. /\ \A p \in Object : native'[p] = IF p = o THEN Freed ELSE native[p]
        /\ \A p \in Object : told'[p] = IF p = o THEN 0 ELSE told[p]
    BY <1>1 DEF HandleTypeOK
  <1>3. HandleTypeOK'
    BY <1>1 DEF HandleTypeOK, Live
  <1>4. ElementsOwn'
    BY <1>1, <1>2 DEF ElementsOwn, HandleTypeOK, Buffers, Live
  <1>5. KeptOpen'
    BY <1>1, <1>2 DEF KeptOpen
  <1>6. NotGiven'
    BY <1>1, <1>2 DEF NotGiven, HandleTypeOK, Buffers, Live, Element
  <1> QED
    BY <1>1, <1>3, <1>4, <1>5, <1>6

\* The program forgets an object.
LEMMA DropObjectInv == ASSUME HandleInv, NEW o \in Object, DropObject(o) PROVE HandleInv'
  <1> USE HandleAssumption DEF HandleInv
  <1>1. /\ o \in kept /\ kept' = kept \ {o} /\ told' = [told EXCEPT ![o] = 0]
        /\ UNCHANGED <<kind, role, elements, renewed, native, rows, recorded, misused>>
    BY DEF DropObject, variableVars
  <1>2. \A p \in Object : told'[p] = IF p = o THEN 0 ELSE told[p]
    BY <1>1 DEF HandleTypeOK
  <1>3. HandleTypeOK'
    BY <1>1 DEF HandleTypeOK, Live
  <1>4. ElementsOwn' /\ KeptOpen'
    BY <1>1, <1>2 DEF ElementsOwn, KeptOpen, Live
  <1>5. NotGiven'
    BY <1>1, <1>2 DEF NotGiven, HandleTypeOK, Buffers, Live
  <1> QED
    BY <1>1, <1>3, <1>4, <1>5

\* The collector takes nothing that an element refers to.
LEMMA CollectInv == ASSUME HandleInv, Collect PROVE HandleInv'
  <1> USE HandleAssumption DEF HandleInv
  <1>1. /\ native' = [o \in Object |-> IF o \in kept \union Marked THEN native[o] ELSE Unmade]
        /\ UNCHANGED <<kind, role, elements, renewed, kept, told, rows, recorded, misused>>
    BY DEF Collect, variableVars
  <1>2. Live => \A i \in Element : /\ elements[i].obj \in Object
                                   /\ native'[elements[i].obj] = native[elements[i].obj]
    BY <1>1 DEF HandleTypeOK, Buffers, Marked
  <1>3. \A o \in kept : native'[o] = native[o]
    BY <1>1 DEF HandleTypeOK
  <1>4. HandleTypeOK'
    BY <1>1 DEF HandleTypeOK, Live
  <1>5. ElementsOwn'
    BY <1>1, <1>2 DEF ElementsOwn, Live
  <1>6. KeptOpen'
    BY <1>1, <1>3 DEF KeptOpen
  <1>7. NotGiven'
    <2>1. \A i \in 1 .. renewed : Live => i \in Element
      BY DEF HandleTypeOK, Element
    <2> QED
      BY <1>1, <1>2, <2>1 DEF NotGiven, Live
  <1> QED
    BY <1>1, <1>4, <1>5, <1>6, <1>7

\* Every action keeps the invariant.
LEMMA HandlesNextInv == ASSUME HandleInv, [HandlesNext]_handleVars PROVE HandleInv'
  <1>1. CASE UNCHANGED handleVars
    BY <1>1
    DEF handleVars, variableVars, HandleInv, HandleTypeOK, ElementsOwn, KeptOpen, NotGiven, Live
  <1>2. CASE HandlesNext
    BY <1>2, CreateInv, FreeInv, RenewInv, StoreInv, GetLobInv, GetCursorInv, NewObjectInv,
       SetHandleInv, CloseObjectInv, DropObjectInv, CollectInv DEF HandlesNext
  <1> QED
    BY <1>1, <1>2

\* For any number of elements, objects and rows: a handle that a fetch has given to
\* the program keeps its row, and OCI stores only through addresses that are there.
THEOREM HandlesAlwaysKept == HandlesSpec => []HandlesKept
  <1>1. HandleInv => HandlesKept
    BY DEF HandleInv, KeptOpen, HandleTypeOK, HandlesKept
  <1> QED
    BY <1>1, HandlesInitInv, HandlesNextInv, PTL DEF HandlesSpec

-------------------------------------------------------------------------------
(***************************************************************************)
(* StringBind: each variable has the sizes that bind_string_init computes  *)
(* from some length and width.                                             *)
(***************************************************************************)

Variables == {StringSizes(semantics, length, ratio) :
                semantics \in {"byte", "char"}, length \in Nat, ratio \in NlsRatios}

WordInv ==
  /\ wordVar = <<>> \/ wordVar \in Variables
  /\ wordNull \in BOOLEAN /\ wordBuffer \in Words
  /\ wordVar # <<>> /\ wordHeld # UnknownWord => WordRead = wordHeld

\* A number of bytes is rounded up to a multiple of sizeof(sb4).
LEMMA RoundedUp ==
  ASSUME NEW n \in Nat, NEW m \in Nat \ {0}
  PROVE  LET r == ((n + m - 1) \div m) * m
         IN  r \in Nat /\ n <= r /\ r % m = 0
  OBVIOUS

\* A number of characters takes at most the width of a character for each.
LEMMA Widen ==
  ASSUME NEW a \in Nat, NEW b \in Nat, NEW w \in Nat \ {0}, a <= b
  PROVE  a * w <= b * w /\ b <= b * w /\ b * w \in Nat
  OBVIOUS

\* What StringKept says of the sizes holds for any length and width.
LEMMA SizesFit ==
  ASSUME NEW semantics \in {"byte", "char"}, NEW length \in Nat, NEW ratio \in NlsRatios,
         wordVar = StringSizes(semantics, length, ratio),
         NEW v \in Words, InCharset(v, ratio)
  PROVE  /\ WithinLength(v) => AcceptsWord(wordVar, v)
         /\ AcceptsWord(wordVar, v) => Header + v.bytes <= wordVar.valueSz
  <1> USE WordAssumption
  <1> DEFINE bytes == ByteLength(semantics, length, ratio)
             room == Room(semantics, length, ratio)
  <1>1. ratio \in Nat \ {0} /\ Header \in Nat /\ v.chars \in Nat /\ v.bytes \in Nat
    OBVIOUS
  <1>2. bytes \in Nat
    BY <1>1, Widen DEF ByteLength
  <1>3. room \in Nat /\ bytes <= room
    BY <1>2 DEF Room
  <1>4. /\ wordVar.semantics = semantics /\ wordVar.length = length
        /\ wordVar.bytelen = bytes /\ wordVar.valueSz = room + Header
    BY DEF StringSizes
  <1>5. WithinLength(v) => v.bytes <= bytes
    <2>1. CASE semantics = "char"
      <3>1. v.chars <= length => v.chars * ratio <= length * ratio
        BY <1>1, Widen
      <3>2. v.chars * ratio \in Nat /\ length * ratio \in Nat
        BY <1>1, Widen
      <3> QED
        BY <1>1, <1>4, <2>1, <3>1, <3>2 DEF WithinLength, InCharset, ByteLength
    <2>2. CASE semantics = "byte"
      BY <1>4, <2>2 DEF WithinLength, ByteLength
    <2> QED
      BY <2>1, <2>2
  <1> HIDE DEF bytes, room
  <1> QED
    BY <1>1, <1>2, <1>3, <1>4, <1>5 DEF AcceptsWord

\* The buffer is made up to a multiple of sizeof(sb4) that has room for the value.
LEMMA SizesAligned ==
  ASSUME NEW semantics \in {"byte", "char"}, NEW length \in Nat, NEW ratio \in NlsRatios
  PROVE  LET sizes == StringSizes(semantics, length, ratio)
         IN  sizes.valueSz <= sizes.allocSz /\ sizes.allocSz % Header = 0
  <1> DEFINE value == Room(semantics, length, ratio) + Header
  <1>1. ratio \in Nat \ {0} /\ Header \in Nat \ {0}
    BY WordAssumption
  <1>2. ByteLength(semantics, length, ratio) \in Nat
    BY <1>1, Widen DEF ByteLength
  <1>3. value \in Nat
    BY <1>1, <1>2 DEF Room
  <1> HIDE DEF value
  <1>4. value <= ((value + Header - 1) \div Header) * Header
        /\ (((value + Header - 1) \div Header) * Header) % Header = 0
    BY <1>1, <1>3, RoundedUp
  <1> QED
    BY <1>4 DEF StringSizes, value

\* What StringKept says follows from the sizes.
LEMMA WordInvKept == WordInv => StringKept
  <1> SUFFICES ASSUME WordInv, wordVar # <<>>
               PROVE  StringKept
    BY DEF StringKept
  <1>1. PICK semantics \in {"byte", "char"}, length \in Nat, ratio \in NlsRatios :
          wordVar = StringSizes(semantics, length, ratio)
    BY DEF WordInv, Variables
  <1>2. wordVar.ratio = ratio
    BY <1>1 DEF StringSizes
  <1> QED
    BY <1>1, <1>2, SizesFit, SizesAligned DEF StringKept, WordInv

\* What the variable holds changes together with what it must hold.
LEMMA WordStep == WordInv /\ [StringNext]_stringVars => WordInv'
  <1> SUFFICES ASSUME WordInv, [StringNext]_stringVars
               PROVE  WordInv'
    OBVIOUS
  <1> USE WordAssumption DEF WordInv, WordRead
  <1>1. ASSUME NEW semantics \in {"byte", "char"}, NEW length \in Lengths \union {NoLength},
               NEW ratio \in NlsRatios, NEW v \in Words \union {NilWord},
               CreateString(semantics, length, ratio, v)
        PROVE  WordInv'
    <2>1. LengthFor(semantics, length, v) \in Nat
      BY DEF LengthFor
    <2>2. wordVar' \in Variables
      BY <1>1, <2>1 DEF CreateString, Variables
    <2> QED
      BY <1>1, <2>2 DEF CreateString
  <1>2. ASSUME NEW v \in Words, AssignWord(v) \/ Deliver(v)
        PROVE  WordInv'
    BY <1>2 DEF AssignWord, Deliver
  <1>3. CASE AssignNil \/ DeliverNull
    BY <1>3 DEF AssignNil, DeliverNull
  <1>4. CASE UNCHANGED stringVars
    BY <1>4 DEF stringVars
  <1> QED
    BY <1>1, <1>2, <1>3, <1>4 DEF StringNext

\* For any words, lengths and widths of characters: a variable takes every word of
\* the length asked for, within its buffer, and gives back what was stored.
THEOREM StringsKept == StringSpec => []StringKept
  <1>1. StringInit => WordInv
    BY WordAssumption DEF StringInit, WordInv, WordRead
  <1> QED
    BY <1>1, WordStep, WordInvKept, PTL DEF StringSpec

-------------------------------------------------------------------------------
(***************************************************************************)
(* OraDate: the bytes are those of the fields that were given, so that the *)
(* order of dates is the lexical order of bytes.                           *)
(***************************************************************************)

Fields == [1 .. 6 -> Int]

\* Century and year of a number are ordered as the number is.
LEMMA YearSplit ==
  ASSUME NEW a \in Int
  PROVE  /\ Quotient(a, 100) \in Int /\ Remainder(a, 100) \in Int
         /\ Quotient(a, 100) * 100 + Remainder(a, 100) = a
         /\ a >= 0 => Quotient(a, 100) >= 0 /\ Remainder(a, 100) \in 0 .. 99
         /\ a < 0 => Quotient(a, 100) <= 0 /\ Remainder(a, 100) \in -99 .. 0
  BY DEF Quotient, Remainder

\* Century and year are ordered as the number that they make.
LEMMA YearOrder ==
  ASSUME NEW a \in Int, NEW b \in Int
  PROVE  a < b <=> \/ Quotient(a, 100) < Quotient(b, 100)
                   \/ Quotient(a, 100) = Quotient(b, 100) /\ Remainder(a, 100) < Remainder(b, 100)
  <1> DEFINE p == Quotient(a, 100)
             q == Quotient(b, 100)
             r == Remainder(a, 100)
             s == Remainder(b, 100)
  <1>1. /\ p \in Int /\ r \in Int /\ p * 100 + r = a
        /\ a >= 0 => p >= 0 /\ r \in 0 .. 99
        /\ a < 0 => p <= 0 /\ r \in -99 .. 0
    BY YearSplit
  <1>2. /\ q \in Int /\ s \in Int /\ q * 100 + s = b
        /\ b >= 0 => q >= 0 /\ s \in 0 .. 99
        /\ b < 0 => q <= 0 /\ s \in -99 .. 0
    BY YearSplit
  <1> HIDE DEF p, q, r, s
  <1>3. a < b <=> p < q \/ (p = q /\ r < s)
    BY <1>1, <1>2
  <1> QED
    BY <1>3 DEF p, q, r, s

\* Seven bytes that are equal one by one are the same date.
LEMMA SameBytes ==
  ASSUME NEW d \in [1 .. 7 -> Int], NEW e \in [1 .. 7 -> Int],
         d[1] = e[1], d[2] = e[2], d[3] = e[3], d[4] = e[4], d[5] = e[5], d[6] = e[6], d[7] = e[7]
  PROVE  d = e
  <1>1. \A k \in 1 .. 7 : k = 1 \/ k = 2 \/ k = 3 \/ k = 4 \/ k = 5 \/ k = 6 \/ k = 7
    OBVIOUS
  <1>2. \A k \in 1 .. 7 : d[k] = e[k]
    BY <1>1
  <1> QED
    BY <1>2

\* The fields in the order of the bytes
LEMMA Bytes7Type ==
  ASSUME NEW f \in Fields
  PROVE  Bytes7(f) \in [1 .. 7 -> Int]
  <1>1. f[1] \in Int /\ f[2] \in Int /\ f[3] \in Int /\ f[4] \in Int /\ f[5] \in Int /\ f[6] \in Int
    BY DEF Fields
  <1>2. Quotient(f[1], 100) \in Int /\ Remainder(f[1], 100) \in Int
    BY <1>1, YearSplit
  <1>3. f[4] + 1 \in Int /\ f[5] + 1 \in Int /\ f[6] + 1 \in Int
    BY <1>1
  <1> DEFINE b == Bytes7(f)
  <1>4. \A i \in 1 .. 7 : b[i] \in Int
    BY <1>1, <1>2, <1>3 DEF Bytes7
  <1>5. b = [i \in 1 .. 7 |-> b[i]]
    BY DEF Bytes7
  <1> QED
    BY <1>4, <1>5

\* The fields come back from the bytes.
LEMMA BytesBack ==
  ASSUME NEW f \in Fields
  PROVE  ToArray(Bytes7(f)) = f
  <1> DEFINE a == ToArray(Bytes7(f))
  <1>1. a[1] = f[1]
    BY YearSplit DEF ToArray, Bytes7, Fields
  <1>2. a[2] = f[2] /\ a[3] = f[3] /\ a[4] = f[4] /\ a[5] = f[5] /\ a[6] = f[6]
    BY DEF ToArray, Bytes7, Fields
  <1>3. DOMAIN a = 1 .. 6 /\ DOMAIN f = 1 .. 6
    BY DEF ToArray, Fields
  <1>4. \A i \in 1 .. 6 : a[i] = f[i]
    BY <1>1, <1>2
  <1>5. a = [i \in 1 .. 6 |-> a[i]] /\ f = [i \in 1 .. 6 |-> f[i]]
    BY <1>3 DEF ToArray, Fields
  <1> QED
    BY <1>4, <1>5

\* There is a first byte among those that differ.
LEMMA LeastOfSeven ==
  ASSUME NEW S \in SUBSET (1 .. 7), S # {}
  PROVE  \E i \in S : \A j \in S : i <= j
  <1>1. 1 \in S \/ 2 \in S \/ 3 \in S \/ 4 \in S \/ 5 \in S \/ 6 \in S \/ 7 \in S
    <2>1. PICK x : x \in S
      OBVIOUS
    <2>2. x \in 1 .. 7
      BY <2>1
    <2>3. x = 1 \/ x = 2 \/ x = 3 \/ x = 4 \/ x = 5 \/ x = 6 \/ x = 7
      BY <2>2
    <2> QED
      BY <2>1, <2>3
  <1>2. \A i \in S : i \in 1 .. 7
    OBVIOUS
  <1>3. ASSUME NEW i \in S, \A j \in 1 .. i - 1 : j \notin S
        PROVE  \A j \in S : i <= j
    BY <1>2, <1>3
  <1>4. \/ 1 \in S
        \/ 2 \in S /\ 1 \notin S
        \/ 3 \in S /\ 1 \notin S /\ 2 \notin S
        \/ 4 \in S /\ 1 \notin S /\ 2 \notin S /\ 3 \notin S
        \/ 5 \in S /\ 1 \notin S /\ 2 \notin S /\ 3 \notin S /\ 4 \notin S
        \/ 6 \in S /\ 1 \notin S /\ 2 \notin S /\ 3 \notin S /\ 4 \notin S /\ 5 \notin S
        \/ 7 \in S /\ \A j \in 1 .. 6 : j \notin S
    BY <1>1
  <1>5. PICK i \in S : \A j \in 1 .. i - 1 : j \notin S
    BY <1>4
  <1>6. \A j \in S : i <= j
    BY <1>3, <1>5
  <1> QED
    BY <1>6

\* The first byte that differs decides.
LEMMA CompareFirst ==
  ASSUME NEW d \in [1 .. 7 -> Int], NEW e \in [1 .. 7 -> Int]
  PROVE  /\ CompareDates(d, e) = 0 => \A i \in 1 .. 7 : d[i] = e[i]
         /\ CompareDates(d, e) = -1 <=>
              \E i \in 1 .. 7 : d[i] < e[i] /\ \A j \in 1 .. i - 1 : d[j] = e[j]
         /\ CompareDates(d, e) = 1 <=>
              \E i \in 1 .. 7 : e[i] < d[i] /\ \A j \in 1 .. i - 1 : d[j] = e[j]
  <1> DEFINE Differ == {i \in 1 .. 7 : d[i] # e[i]}
             first == CHOOSE i \in Differ : \A j \in Differ : i <= j
  <1>1. CASE Differ = {}
    BY <1>1 DEF CompareDates
  <1>2. CASE Differ # {}
    <2>1. first \in Differ /\ \A j \in Differ : first <= j
      BY <1>2, LeastOfSeven
    <2> HIDE DEF first
    <2>2. first \in 1 .. 7 /\ d[first] # e[first] /\ \A j \in 1 .. first - 1 : d[j] = e[j]
      BY <2>1
    <2>3. \A i \in 1 .. 7 : d[i] # e[i] /\ (\A j \in 1 .. i - 1 : d[j] = e[j]) => i = first
      BY <2>1, <2>2
    <2>4. CompareDates(d, e) = IF d[first] < e[first] THEN -1 ELSE 1
      BY <1>2 DEF CompareDates, first
    <2> QED
      BY <2>2, <2>3, <2>4
  <1> QED
    BY <1>1, <1>2

\* The order of the fields is the order of the bytes.
LEMMA EarlierBytes ==
  ASSUME NEW f \in Fields, NEW g \in Fields
  PROVE  Earlier(f, g) <=>
           \E i \in 1 .. 7 : /\ Bytes7(f)[i] < Bytes7(g)[i]
                             /\ \A j \in 1 .. i - 1 : Bytes7(f)[j] = Bytes7(g)[j]
  <1> DEFINE b == Bytes7(f)
             c == Bytes7(g)
  <1>0. f[1] \in Int /\ g[1] \in Int
    BY DEF Fields
  <1>a. /\ b[1] = Quotient(f[1], 100) + 100 /\ b[2] = Remainder(f[1], 100) + 100
        /\ c[1] = Quotient(g[1], 100) + 100 /\ c[2] = Remainder(g[1], 100) + 100
    BY DEF Bytes7
  <1>1. /\ f[1] < g[1] <=> b[1] < c[1] \/ (b[1] = c[1] /\ b[2] < c[2])
        /\ f[1] = g[1] <=> b[1] = c[1] /\ b[2] = c[2]
    <2>1. /\ f[1] < g[1] <=>
                \/ Quotient(f[1], 100) < Quotient(g[1], 100)
                \/ /\ Quotient(f[1], 100) = Quotient(g[1], 100)
                   /\ Remainder(f[1], 100) < Remainder(g[1], 100)
          /\ Quotient(f[1], 100) * 100 + Remainder(f[1], 100) = f[1]
          /\ Quotient(g[1], 100) * 100 + Remainder(g[1], 100) = g[1]
          /\ Quotient(f[1], 100) \in Int /\ Remainder(f[1], 100) \in Int
          /\ Quotient(g[1], 100) \in Int /\ Remainder(g[1], 100) \in Int
      BY <1>0, YearOrder, YearSplit
    <2> HIDE DEF b, c
    <2> QED
      BY <1>0, <1>a, <2>1
  <1>2. \A i \in 2 .. 6 : /\ f[i] < g[i] <=> b[i + 1] < c[i + 1]
                          /\ f[i] = g[i] <=> b[i + 1] = c[i + 1]
    BY DEF Bytes7, Fields
  <1> HIDE DEF b, c
  <1>3. ASSUME NEW i \in 1 .. 6, f[i] < g[i], \A j \in 1 .. i - 1 : f[j] = g[j]
        PROVE  \E k \in 1 .. 7 : b[k] < c[k] /\ \A j \in 1 .. k - 1 : b[j] = c[j]
    <2>1. CASE i = 1
      BY <1>1, <1>3, <2>1
    <2>2. CASE i # 1
      <3>1. b[i + 1] < c[i + 1] /\ b[1] = c[1] /\ b[2] = c[2]
        BY <1>1, <1>2, <1>3, <2>2
      <3>2. ASSUME NEW j \in 3 .. i
            PROVE  b[j] = c[j]
        BY <1>2, <1>3, <3>2
      <3>3. \A j \in 1 .. i : j = 1 \/ j = 2 \/ j \in 3 .. i
        OBVIOUS
      <3> QED
        BY <3>1, <3>2, <3>3
    <2> QED
      BY <2>1, <2>2
  <1>4. ASSUME NEW k \in 1 .. 7, b[k] < c[k], \A j \in 1 .. k - 1 : b[j] = c[j]
        PROVE  \E i \in 1 .. 6 : f[i] < g[i] /\ \A j \in 1 .. i - 1 : f[j] = g[j]
    <2>1. CASE k \in 1 .. 2
      BY <1>1, <1>4, <2>1
    <2>2. CASE k \in 3 .. 7
      <3>1. f[k - 1] < g[k - 1] /\ f[1] = g[1]
        BY <1>1, <1>2, <1>4, <2>2
      <3>2. ASSUME NEW j \in 2 .. k - 2
            PROVE  f[j] = g[j]
        BY <1>2, <1>4, <2>2, <3>2
      <3>3. \A j \in 1 .. k - 2 : j = 1 \/ j \in 2 .. k - 2
        OBVIOUS
      <3> QED
        BY <2>2, <3>1, <3>2, <3>3
    <2> QED
      BY <2>1, <2>2
  <1> QED
    BY <1>3, <1>4 DEF Earlier, b, c

DateInv ==
  /\ given \in Fields /\ date = Bytes7(given)
  /\ boundGiven \in Fields /\ bound = Bytes7(boundGiven)

\* Julian day 0 is the lowest date.
LEMMA DateInitInv == OraDateInit => DateInv
  <1> SUFFICES ASSUME OraDateInit
               PROVE  DateInv
    OBVIOUS
  <1>1. Defaults \in Fields /\ Lowest \in Fields
    BY DEF Defaults, Lowest, Fields
  <1>2. Bytes7(Lowest) = JulianDay0
    BY DEF Bytes7, Lowest, JulianDay0, Quotient, Remainder
  <1> QED
    BY <1>1, <1>2 DEF OraDateInit, DateInv, Lowest

\* Every action, the setters of a single field included, keeps bytes and fields together.
LEMMA DateStep == DateInv /\ [OraDateNext]_oraDateVars => DateInv'
  <1> SUFFICES ASSUME DateInv, [OraDateNext]_oraDateVars
               PROVE  DateInv'
    OBVIOUS
  <1>1. ASSUME NEW fields \in Fields, Keep(fields)
        PROVE  DateInv'
    BY <1>1 DEF Keep, DateInv
  <1>2. CASE Refuse
    BY <1>2 DEF Refuse, DateInv
  <1>3. ASSUME NEW args \in Arguments, InitializeDate(args)
        PROVE  DateInv'
    <2>1. [i \in 1 .. 6 |-> IF i \in DOMAIN args THEN args[i] ELSE Defaults[i]] \in Fields
      BY DateAssumption DEF Fields, Defaults
    <2> QED
      BY <1>1, <1>2, <1>3, <2>1 DEF InitializeDate
  <1>4. CASE Now
    <2>1. ASSUME NEW args \in Arguments, Len(args) = 6
          PROVE  args \in Fields
      <3>1. args \in Seq(Int)
        BY DateAssumption
      <3> QED
        BY <2>1, <3>1, LenProperties DEF Fields
    <2> QED
      BY <1>1, <1>4, <2>1 DEF Now
  <1>5. ASSUME NEW i \in 1 .. 6, NEW v \in FieldValues[i], SetField(i, v)
        PROVE  DateInv'
    <2>1. CASE Refuse
      BY <1>2, <2>1
    <2>2. CASE ~Refuse
      <3>1. /\ v \in Int /\ date' = WithField(i, v) /\ given' = [given EXCEPT ![i] = v]
            /\ UNCHANGED <<bound, boundGiven>>
        BY <1>5, <2>2, DateAssumption DEF SetField
      <3> DEFINE old == Bytes7(given)
                 new == Bytes7(given')
                 one == Bytes7([Defaults EXCEPT ![i] = v])
      <3>2. given' \in Fields /\ [Defaults EXCEPT ![i] = v] \in Fields
        BY <3>1 DEF DateInv, Fields, Defaults
      <3>3. old \in [1 .. 7 -> Int] /\ new \in [1 .. 7 -> Int] /\ one \in [1 .. 7 -> Int]
        BY <3>2, Bytes7Type DEF DateInv
      <3>4. /\ date' \in [1 .. 7 -> Int]
            /\ \A k \in 1 .. 7 :
                 date'[k] = IF k = i + 1 \/ (k = 1 /\ i = 1) THEN one[k] ELSE old[k]
        BY <3>1, <3>3 DEF DateInv, WithField
      <3>5. \A k \in 1 .. 7 : new[k] = IF k = i + 1 \/ (k = 1 /\ i = 1) THEN one[k] ELSE old[k]
        <4>1. \A k \in 1 .. 6 : /\ given'[k] = IF k = i THEN v ELSE given[k]
                                /\ [Defaults EXCEPT ![i] = v][k] = IF k = i THEN v ELSE Defaults[k]
          BY <3>1 DEF DateInv, Fields, Defaults
        <4>2. /\ new[1] = IF i = 1 THEN one[1] ELSE old[1]
              /\ new[2] = IF i = 1 THEN one[2] ELSE old[2]
              /\ new[3] = IF i = 2 THEN one[3] ELSE old[3]
              /\ new[4] = IF i = 3 THEN one[4] ELSE old[4]
              /\ new[5] = IF i = 4 THEN one[5] ELSE old[5]
              /\ new[6] = IF i = 5 THEN one[6] ELSE old[6]
              /\ new[7] = IF i = 6 THEN one[7] ELSE old[7]
          BY <4>1 DEF Bytes7
        <4> HIDE DEF new, one, old
        <4> QED
          BY <4>2
      <3> HIDE DEF new, one, old
      <3>6. date' = new
        BY <3>3, <3>4, <3>5
      <3> QED
        BY <3>1, <3>2, <3>6 DEF DateInv, new
    <2> QED
      BY <2>1, <2>2
  <1>6. CASE Trunc
    <2>1. /\ given' = [given EXCEPT ![4] = 0, ![5] = 0, ![6] = 0]
          /\ date' = [date EXCEPT ![5] = 1, ![6] = 1, ![7] = 1]
      BY <1>6 DEF Trunc
    <2>2. given' \in Fields
      BY <2>1 DEF DateInv, Fields
    <2>3. date \in [1 .. 7 -> Int] /\ date' \in [1 .. 7 -> Int] /\ Bytes7(given') \in [1 .. 7 -> Int]
      BY <2>1, <2>2, Bytes7Type DEF DateInv
    <2>4. /\ given'[1] = given[1] /\ given'[2] = given[2] /\ given'[3] = given[3]
          /\ given'[4] = 0 /\ given'[5] = 0 /\ given'[6] = 0
      BY <2>1 DEF DateInv, Fields
    <2>5. /\ date'[1] = date[1] /\ date'[2] = date[2] /\ date'[3] = date[3] /\ date'[4] = date[4]
          /\ date'[5] = 1 /\ date'[6] = 1 /\ date'[7] = 1
      BY <2>1, <2>3
    <2>6. date' = Bytes7(given')
      <3> DEFINE new == Bytes7(given')
      <3>1. /\ date'[1] = new[1] /\ date'[2] = new[2] /\ date'[3] = new[3] /\ date'[4] = new[4]
            /\ date'[5] = new[5] /\ date'[6] = new[6] /\ date'[7] = new[7]
        BY <2>4, <2>5 DEF DateInv, Bytes7
      <3> QED
        BY <2>3, <3>1, SameBytes
    <2> QED
      BY <1>6, <2>2, <2>6 DEF Trunc, DateInv
  <1>7. CASE LoadDumped
    <2>1. Len(date) = 7
      BY DEF DateInv, Bytes7
    <2> QED
      BY <1>7, <2>1 DEF LoadDumped, Load, Dump, DateInv
  <1>8. CASE BindSet \/ BindGet
    BY <1>8 DEF BindSet, BindGet, DateInv
  <1>9. CASE UNCHANGED oraDateVars
    BY <1>9 DEF oraDateVars, DateInv
  <1> QED
    BY <1>3, <1>4, <1>5, <1>6, <1>7, <1>8, <1>9 DEF OraDateNext

\* For any dates: an OraDate has the fields that were given to it, and two compare
\* as their fields do, on both sides of the year 0.
THEOREM DatesAlwaysInOrder == OraDateSpec => []DatesInOrder
  <1>1. DateInv => DatesInOrder
    <2> SUFFICES ASSUME DateInv
                 PROVE  DatesInOrder
      OBVIOUS
    <2>1. ToArray(date) = given /\ ToArray(bound) = boundGiven
      BY BytesBack DEF DateInv
    <2>2. date \in [1 .. 7 -> Int] /\ bound \in [1 .. 7 -> Int]
      BY Bytes7Type DEF DateInv
    <2>3. /\ CompareDates(date, bound) = -1 <=> Earlier(given, boundGiven)
          /\ CompareDates(date, bound) = 1 <=> Earlier(boundGiven, given)
      BY <2>2, CompareFirst, EarlierBytes DEF DateInv
    <2>4. CompareDates(date, bound) = 0 => HashDate(date) = HashDate(bound)
      BY <2>2, CompareFirst DEF HashDate
    <2> QED
      BY <2>1, <2>3, <2>4 DEF DatesInOrder, Earlier
  <1> QED
    BY <1>1, DateInitInv, DateStep, PTL DEF OraDateSpec

-------------------------------------------------------------------------------
(***************************************************************************)
(* TimeBind: what is converted comes back.                                 *)
(***************************************************************************)

\* Whole multiples go through a division.
LEMMA DivideMultiple ==
  ASSUME NEW m \in Nat \ {0}, NEW q \in Int, NEW x \in Nat
  PROVE  (q * m + x) \div m = q + (x \div m)
  OBVIOUS

\* The minutes of an offset come back, but for those whose sign is lost.
LEMMA ZoneBack ==
  ASSUME NEW minutes \in Int, minutes \notin -59 .. -1
  PROVE  ZoneText(IF minutes < 0 THEN <<-(Absolute(minutes) \div 60), Absolute(minutes) % 60>>
                  ELSE <<minutes \div 60, minutes % 60>>) = minutes
  <1>1. CASE minutes >= 0
    BY <1>1 DEF ZoneText, Absolute
  <1>2. CASE minutes < 0
    BY <1>2 DEF ZoneText, Absolute
  <1> QED
    BY <1>1, <1>2

\* Hours and minutes of an offset make the offset again.
LEMMA QuotientBack ==
  ASSUME NEW a \in Int
  PROVE  /\ Quotient(a, 60) \in Int /\ Remainder(a, 60) \in Int
         /\ Quotient(a, 60) * 3600 + Remainder(a, 60) * 60 = a * 60
  BY DEF Quotient, Remainder

\* An offset has whole minutes.
LEMMA MinutesType ==
  ASSUME NEW v \in Moments
  PROVE  OffsetMinutes(v) \in Int
  BY TimeAssumption DEF OffsetMinutes, Quotient

\* A moment comes back with its offset, but for the zones that lose their sign.
LEMMA TimestampBack ==
  ASSUME bindType \in {"timestamp", "timestamp_tz"}, NEW v \in Moments,
         Converted(v) # Null, bindType = "timestamp_tz" => ~SignLost(v)
  PROVE  GivesBack(Converted(v)[2]) = Meant(v)
  <1> DEFINE a == DatetimeToArray(v)
             minutes == OffsetMinutes(v)
             offset == IF a.zone = <<>> THEN SessionOffset ELSE ZoneText(a.zone)
             stored == [fields |-> a.fields, nsec |-> a.nsec, offset |-> offset]
  <1>1. Converted(v) = Holds(stored)
    BY DEF Converted, SetTimestamp
  <1>2. Converted(v)[2] = stored
    BY <1>1 DEF Holds
  <1> HIDE DEF a
  <1>3. CASE bindType = "timestamp"
    <2>1. GivesBack(stored) = [fields |-> a.fields, nsec |-> a.nsec, offset |-> <<>>]
      BY <1>3 DEF GivesBack, MakeTimestamp, ArrayToTime
    <2> QED
      BY <1>2, <1>3, <2>1 DEF Meant, a
  <1>4. CASE bindType = "timestamp_tz"
    <2>1. offset = IF v.class = "Date" THEN SessionOffset ELSE minutes
      <3>1. CASE v.class = "Date"
        BY <1>4, <3>1 DEF DatetimeToArray, a
      <3>2. CASE v.class # "Date"
        <4>1. a.zone = IF minutes < 0 THEN <<-(Absolute(minutes) \div 60), Absolute(minutes) % 60>>
                       ELSE <<minutes \div 60, minutes % 60>>
          BY <1>4, <3>2 DEF DatetimeToArray, a
        <4>2. a.zone # <<>>
          BY <4>1
        <4>3. minutes \in Int /\ minutes \notin -59 .. -1
          BY <1>4, <3>2, MinutesType DEF SignLost
        <4> QED
          BY <3>2, <4>1, <4>2, <4>3, ZoneBack
      <3> QED
        BY <3>1, <3>2
    <2>2. offset \in Int
      BY <2>1, MinutesType, TimeAssumption
    <2> HIDE DEF offset
    <2>3. GivesBack(stored) = [fields |-> a.fields, nsec |-> a.nsec, offset |-> <<offset * 60>>]
      BY <1>4, <2>2, QuotientBack DEF GivesBack, MakeTimestamp, ArrayToTime
    <2> QED
      BY <1>2, <1>4, <2>1, <2>3 DEF Meant, a
  <1> QED
    BY <1>3, <1>4

\* Years and months make the months again.
LEMMA MonthsBack ==
  ASSUME bindType = "interval_ym", NEW v \in Months
  PROVE  GivesBack(Converted(v)[2]) = Meant(v)
  BY TimeAssumption DEF GivesBack, Converted, Meant, SetYearMonth, GetYearMonth, Holds

\* Of w times k parts, n times k of which make one of the next unit: how many
\* units there are, and what is left.
LEMMA NextUnit ==
  ASSUME NEW p \in Nat \ {0}, NEW rest \in Nat, rest < p, NEW n \in Nat \ {0},
         NEW k \in Nat \ {0}, NEW q \in Nat, NEW t \in Nat, t < n,
         NEW w, w = (q * n + t) * p + rest, NEW unitSize, unitSize = n * k * p
  PROVE  /\ (w * k) \div unitSize = q
         /\ (w * k) % unitSize = (t * p + rest) * k
  <1> DEFINE low == (t * p + rest) * k
  <1>1. t * p \in Nat /\ t * p <= (n - 1) * p /\ n * p \in Nat /\ (n - 1) * p = n * p - p
    OBVIOUS
  <1>2. t * p + rest \in 0 .. n * p - 1
    BY <1>1
  <1>3. low \in Nat /\ low <= (n * p - 1) * k /\ (n * p - 1) * k = (n * p) * k - k
    <2>1. \A a, b \in Nat : a <= b => a * k \in Nat /\ a * k <= b * k
      OBVIOUS
    <2>2. n * p - 1 \in Nat /\ t * p + rest \in Nat /\ t * p + rest <= n * p - 1
      BY <1>1, <1>2
    <2> QED
      BY <2>1, <2>2
  <1>4. unitSize \in Nat \ {0} /\ unitSize = (n * p) * k
    BY <1>1
  <1>5. low \in 0 .. unitSize - 1
    <2>1. (n * p) * k \in Nat
      BY <1>4
    <2> HIDE DEF low
    <2> QED
      BY <1>3, <1>4, <2>1
  <1>6. w * k = q * unitSize + low
    <2>1. (q * n + t) * p = q * (n * p) + t * p
      OBVIOUS
    <2>2. w = q * (n * p) + (t * p + rest)
      BY <1>1, <2>1
    <2>3. \A a, b \in Nat : (q * a + b) * k = q * (a * k) + b * k
      OBVIOUS
    <2>4. t * p + rest \in Nat
      BY <1>2
    <2>5. (q * (n * p) + (t * p + rest)) * k = q * ((n * p) * k) + (t * p + rest) * k
      BY <1>1, <2>3, <2>4
    <2> QED
      BY <1>4, <2>2, <2>5
  <1> HIDE DEF low
  <1>7. (q * unitSize + low) % unitSize = low
    <2>1. q \in Int
      OBVIOUS
    <2> QED
      BY <1>4, <1>5, <2>1, LowBits, Zenon
  <1>8. (q * unitSize + low) \div unitSize = q
    <2>1. low \div unitSize = 0
      BY <1>4, <1>5
    <2>2. q \in Int /\ low \in Nat
      BY <1>5
    <2> QED
      BY <1>4, <2>1, <2>2, DivideMultiple
  <1> QED
    BY <1>6, <1>7, <1>8 DEF low

\* What is left of a day, an hour and a minute, one after the other
LEMMA ClockUnits ==
  ASSUME NEW s \in Nat
  PROVE  \E e, r, h, t, m, u \in Nat :
           /\ s \div 86400 = e /\ s % 86400 = r /\ s = e * 86400 + r /\ r < 86400
           /\ r \div 3600 = h /\ s % 3600 = t /\ r = h * 3600 + t /\ t < 3600
           /\ t \div 60 = m /\ s % 60 = u /\ t = m * 60 + u /\ u < 60
  <1> DEFINE e == s \div 86400
             r == s % 86400
             h == r \div 3600
             t == r % 3600
             m == t \div 60
             u == t % 60
  <1>1. e \in Nat /\ r \in Nat /\ s = e * 86400 + r /\ r < 86400
    OBVIOUS
  <1>a. s \div 86400 = e /\ s % 86400 = r
    OBVIOUS
  <1> HIDE DEF e, r
  <1>2. h \in Nat /\ t \in Nat /\ r = h * 3600 + t /\ t < 3600
    BY <1>1
  <1>b. r \div 3600 = h
    OBVIOUS
  <1> HIDE DEF h, t
  <1>3. m \in Nat /\ u \in Nat /\ t = m * 60 + u /\ u < 60
    BY <1>2
  <1>c. t \div 60 = m
    OBVIOUS
  <1> HIDE DEF m, u
  <1>4. s % 3600 = t
    <2> DEFINE n == e * 24 + h
    <2>1. s = n * 3600 + t /\ n \in Int
      BY <1>1, <1>2
    <2> HIDE DEF n
    <2> QED
      BY <1>2, <2>1, LowBits
  <1>5. s % 60 = u
    <2> DEFINE n == e * 1440 + h * 60 + m
    <2>1. s = n * 60 + u /\ n \in Int
      BY <1>1, <1>2, <1>3
    <2> HIDE DEF n
    <2> QED
      BY <1>3, <2>1, LowBits
  <1> QED
    BY <1>1, <1>2, <1>3, <1>4, <1>5, <1>a, <1>b, <1>c

\* Days, hours, minutes and seconds make the seconds again.
LEMMA ClockParts ==
  ASSUME NEW s \in Nat
  PROVE  s = (s \div 86400) * 86400 + ((s % 86400) \div 3600) * 3600
             + ((s % 3600) \div 60) * 60 + (s % 60)
  <1>1. PICK e, r, h, t, m, u \in Nat :
           /\ s \div 86400 = e /\ s % 86400 = r /\ s = e * 86400 + r /\ r < 86400
           /\ r \div 3600 = h /\ s % 3600 = t /\ r = h * 3600 + t /\ t < 3600
           /\ t \div 60 = m /\ s % 60 = u /\ t = m * 60 + u /\ u < 60
    BY ClockUnits
  <1> QED
    BY <1>1

\* Multiplying what is left of a day gives the parts that dividing the seconds
\* gives.
LEMMA UnitsAgree ==
  ASSUME NEW size \in Nat
  PROVE  FromDays(size) = FromSeconds(size)
  <1> DEFINE p == PartsPerSecond
             second == size \div p
             rest == size % p
             day == 86400 * p
  <1>1. p \in Nat \ {0} /\ KeptParts \in Nat \ {0}
    BY TimeAssumption
  <1> HIDE DEF p
  <1>2. second \in Nat /\ rest \in Nat /\ rest < p /\ size = second * p + rest
    BY <1>1
  <1> HIDE DEF second, rest
  <1>3. PICK e, r, h, t, m, u \in Nat :
           /\ second \div 86400 = e /\ second % 86400 = r /\ second = e * 86400 + r /\ r < 86400
           /\ r \div 3600 = h /\ second % 3600 = t /\ r = h * 3600 + t /\ t < 3600
           /\ t \div 60 = m /\ second % 60 = u /\ t = m * 60 + u /\ u < 60
    BY <1>2, ClockUnits
  <1>4. (size * 1) \div day = e /\ (size * 1) % day = (r * p + rest) * 1
    <2>1. size = (e * 86400 + r) * p + rest /\ day = 86400 * 1 * p
      BY <1>1, <1>2, <1>3
    <2> HIDE DEF day
    <2> QED
      BY <1>1, <1>2, <1>3, <2>1, NextUnit
  <1>5. ((r * p + rest) * 24) \div day = h /\ ((r * p + rest) * 24) % day = (t * p + rest) * 24
    <2>1. r * p + rest = (h * 3600 + t) * p + rest /\ day = 3600 * 24 * p
      BY <1>1, <1>2, <1>3
    <2> HIDE DEF day
    <2> QED
      BY <1>1, <1>2, <1>3, <2>1, NextUnit
  <1>6. ((t * p + rest) * 1440) \div day = m /\ ((t * p + rest) * 1440) % day = (u * p + rest) * 1440
    <2>1. t * p + rest = (m * 60 + u) * p + rest /\ day = 60 * 1440 * p
      BY <1>1, <1>2, <1>3
    <2> HIDE DEF day
    <2> QED
      BY <1>1, <1>2, <1>3, <2>1, NextUnit
  <1>7. ((u * p + rest) * 86400) \div day = u /\ ((u * p + rest) * 86400) % day = (0 * p + rest) * 86400
    <2>1. u * p + rest = (u * 1 + 0) * p + rest /\ day = 1 * 86400 * p
      BY <1>1, <1>2, <1>3
    <2> HIDE DEF day
    <2> QED
      BY <1>1, <1>2, <1>3, <2>1, NextUnit
  <1>8. ((rest * KeptParts) * 86400) \div day = (rest * KeptParts) \div p
    <2> DEFINE x == rest * KeptParts
               q == x \div p
               z == x % p
    <2>1. x \in Nat
      BY <1>1, <1>2
    <2> HIDE DEF x
    <2>2. q \in Nat /\ z \in Nat /\ z < p /\ x = q * p + z
      BY <1>1, <2>1
    <2> HIDE DEF q, z
    <2>3. x = (q * 1 + 0) * p + z /\ day = 1 * 86400 * p
      BY <1>1, <2>2
    <2> HIDE DEF day
    <2>4. (x * 86400) \div day = q
      BY <1>1, <2>2, <2>3, NextUnit
    <2> QED
      BY <2>4 DEF q, x
  <1> DEFINE hours == (size % day) * 24
             minutes == (hours % day) * 60
             seconds == (minutes % day) * 60
  <1>9. /\ r * p \in Nat /\ t * p \in Nat /\ u * p \in Nat /\ rest \in Nat /\ day \in Nat
        /\ rest * KeptParts \in Nat
    BY <1>1, <1>2, <1>3
  <1>10. size \div day = e /\ hours = (r * p + rest) * 24
    <2> HIDE DEF day
    <2>1. size * 1 = size
      OBVIOUS
    <2> QED
      BY <1>4, <1>9, <2>1
  <1>11. hours \div day = h /\ minutes = (t * p + rest) * 1440
    <2> HIDE DEF day
    <2>1. hours \div day = h /\ hours % day = (t * p + rest) * 24
      BY <1>5, <1>10
    <2> HIDE DEF hours
    <2> QED
      BY <1>9, <2>1
  <1>12. minutes \div day = m /\ seconds = (u * p + rest) * 86400
    <2> HIDE DEF day
    <2>1. minutes \div day = m /\ minutes % day = (u * p + rest) * 1440
      BY <1>6, <1>11
    <2> HIDE DEF minutes
    <2> QED
      BY <1>9, <2>1
  <1>13. seconds \div day = u /\ seconds % day = rest * 86400
    <2> HIDE DEF day
    <2>1. seconds \div day = u /\ seconds % day = (0 * p + rest) * 86400
      BY <1>7, <1>12
    <2> HIDE DEF seconds
    <2> QED
      BY <1>1, <1>9, <2>1
  <1>14. ((seconds % day) * KeptParts) \div day = (rest * KeptParts) \div p
    <2>1. (rest * 86400) * KeptParts = (rest * KeptParts) * 86400
      BY <1>1, <1>9
    <2> HIDE DEF day, seconds
    <2> QED
      BY <1>8, <1>13, <2>1
  <1>15. FromDays(size) = <<size \div day, hours \div day, minutes \div day, seconds \div day,
                            ((seconds % day) * KeptParts) \div day>>
    BY DEF FromDays, day, hours, minutes, seconds, p
  <1>16. FromSeconds(size) = <<e, h, m, u, (rest * KeptParts) \div p>>
    <2>1. FromSeconds(size) = <<second \div 86400, (second % 86400) \div 3600,
                                (second % 3600) \div 60, second % 60,
                                (rest * KeptParts) \div p>>
      BY DEF FromSeconds, second, rest, p
    <2>2. second \div 86400 = e /\ second % 60 = u
      BY <1>3
    <2>3. (second % 86400) \div 3600 = h
      <3>1. second % 86400 = r /\ r \div 3600 = h
        BY <1>3
      <3> QED
        BY <3>1
    <2>4. (second % 3600) \div 60 = m
      <3>1. second % 3600 = t /\ t \div 60 = m
        BY <1>3
      <3> QED
        BY <3>1
    <2> QED
      BY <2>1, <2>2, <2>3, <2>4
  <1> HIDE DEF day, hours, minutes, seconds
  <1> QED
    BY <1>10, <1>11, <1>12, <1>13, <1>14, <1>15, <1>16

\* A duration of either sign comes back, cut off towards zero, in either unit.
LEMMA DurationBack ==
  ASSUME bindType = "interval_ds", NEW v \in Durations
  PROVE  GivesBack(Converted(v)[2]) = Meant(v)
  <1> DEFINE size == Absolute(v)
             second == size \div PartsPerSecond
             rest == size % PartsPerSecond
             parts == (rest * KeptParts) \div PartsPerSecond
             sign == IF v < 0 THEN -1 ELSE 1
  <1>0. v \in Int /\ PartsPerSecond \in Nat \ {0} /\ KeptParts \in Nat \ {0}
    BY TimeAssumption
  <1>1. size \in Nat
    BY <1>0 DEF Absolute
  <1>a. FromDays(size) = FromSeconds(size)
    BY <1>1, UnitsAgree
  <1> HIDE DEF size
  <1>2. second \in Nat /\ rest \in Nat /\ size = second * PartsPerSecond + rest
    BY <1>0, <1>1
  <1> HIDE DEF second, rest
  <1>3. rest * KeptParts \in Nat /\ parts \in Int
    BY <1>0, <1>2
  <1>4. size * KeptParts = (second * KeptParts) * PartsPerSecond + rest * KeptParts
    BY <1>0, <1>1, <1>2
  <1>5. (size * KeptParts) \div PartsPerSecond = second * KeptParts + parts
    <2>1. second * KeptParts \in Int
      BY <1>0, <1>2
    <2> QED
      BY <1>0, <1>3, <1>4, <2>1, DivideMultiple
  <1> HIDE DEF parts
  <1>6. second = (second \div 86400) * 86400 + ((second % 86400) \div 3600) * 3600
                 + ((second % 3600) \div 60) * 60 + (second % 60)
    BY <1>2, ClockParts
  <1> DEFINE e == second \div 86400
             h == (second % 86400) \div 3600
             m == (second % 3600) \div 60
             s == second % 60
  <1>7. FromSeconds(size) = <<e, h, m, s, parts>>
    BY DEF FromSeconds, second, rest, parts
  <1>8. e \in Int /\ h \in Int /\ m \in Int /\ s \in Int /\ second = e * 86400 + h * 3600 + m * 60 + s
    BY <1>2, <1>6
  <1> HIDE DEF e, h, m, s
  <1>b. SplitDuration(v) = [i \in 1 .. 5 |-> IF v < 0 THEN -<<e, h, m, s, parts>>[i]
                                                    ELSE <<e, h, m, s, parts>>[i]]
    BY <1>7, <1>a DEF SplitDuration, size
  <1>9. JoinDuration(SplitDuration(v)) = sign * (second * KeptParts + parts)
    <2>1. /\ SplitDuration(v)[1] = sign * e /\ SplitDuration(v)[2] = sign * h
          /\ SplitDuration(v)[3] = sign * m /\ SplitDuration(v)[4] = sign * s
          /\ SplitDuration(v)[5] = sign * parts
      BY <1>0, <1>3, <1>8, <1>b
    <2>2. JoinDuration(SplitDuration(v)) = (sign * second) * KeptParts + sign * parts
      BY <1>0, <1>2, <1>8, <2>1 DEF JoinDuration
    <2> QED
      BY <1>0, <1>2, <1>3, <2>2
  <1> QED
    BY <1>5, <1>9 DEF GivesBack, Converted, Meant, Holds, size

\* The array of a moment has six numbers.
LEMMA DateArrayType ==
  ASSUME NEW v \in Moments
  PROVE  DateArray(v) \in [1 .. 6 -> Int]
  BY TimeAssumption DEF DateArray

\* A date whose fields are all accepted is stored as it is.
LEMMA DateBack ==
  ASSUME NEW old, NEW f \in [1 .. 6 -> Int], \A j \in 1 .. 6 : DateAccepts(j, f[j])
  PROVE  SetOCIDate(old, f) = f
  BY DEF SetOCIDate

\* A moment, a number of months or a duration that an element accepts comes back.
LEMMA ConvertedBack ==
  ASSUME bindType \in BindTypes \ {"date"}, NEW v \in Assignable, Converted(v) # Null
  PROVE  \/ GivesBack(Converted(v)[2]) = Meant(v)
         \/ bindType = "timestamp_tz" /\ SignLost(v)
  <1>1. CASE bindType \in {"timestamp", "timestamp_tz"}
    <2>1. v \in Moments
      BY <1>1 DEF Assignable
    <2> QED
      BY <1>1, <2>1, TimestampBack
  <1>2. CASE bindType = "interval_ym"
    BY <1>2, MonthsBack DEF Assignable
  <1>3. CASE bindType = "interval_ds"
    BY <1>3, DurationBack DEF Assignable
  <1> QED
    BY <1>1, <1>2, <1>3 DEF BindTypes

TimeInv ==
  /\ bindType \in BindTypes
  /\ DOMAIN slot = 1 .. Elements /\ DOMAIN assigned = 1 .. Elements
  /\ stage = "new" => \A i \in 1 .. Elements : assigned[i] = NotAssigned
  /\ TimesKept

\* Every action keeps what the elements give back.
LEMMA TimeStep == TimeInv /\ [TimeBindNext]_timeBindVars => TimeInv'
  <1> SUFFICES ASSUME TimeInv, [TimeBindNext]_timeBindVars
               PROVE  TimeInv'
    OBVIOUS
  <1> USE DEF TimeInv
  <1>0. ASSUME UNCHANGED <<bindType, stage, slot, assigned>>
        PROVE  TimeInv'
    <2>1. \A s, v : GivesBack(s)' = GivesBack(s) /\ Meant(v)' = Meant(v)
      BY <1>0 DEF GivesBack, Meant, MakeTimestamp, DatetimeToArray
    <2> QED
      BY <1>0, <2>1 DEF TimesKept
  <1>1. ASSUME NEW j \in 1 .. Elements, NEW x, NEW y, bindType' = bindType, stage = "ready",
               stage' = stage, slot' = [slot EXCEPT ![j] = x], assigned' = [assigned EXCEPT ![j] = y],
               y # NotAssigned =>
                 \/ GivesBack(x[2]) = Meant(y[1])
                 \/ bindType = "timestamp_tz" /\ SignLost(y[1])
        PROVE  TimeInv'
    <2>1. \A i \in 1 .. Elements : /\ slot'[i] = IF i = j THEN x ELSE slot[i]
                                   /\ assigned'[i] = IF i = j THEN y ELSE assigned[i]
      BY <1>1
    <2>2. \A s, v : /\ GivesBack(s)' = GivesBack(s) /\ Meant(v)' = Meant(v)
      BY <1>1 DEF GivesBack, Meant, MakeTimestamp, DatetimeToArray
    <2> QED
      BY <1>1, <2>1, <2>2 DEF TimesKept
  <1>2. ASSUME NEW i \in 1 .. Elements, NEW v \in Assignable, SetElement(i, v)
        PROVE  TimeInv'
    <2>1. CASE Converted(v) = Null
      BY <1>0, <1>2, <2>1 DEF SetElement
    <2>2. CASE Converted(v) # Null
      <3>1. \/ GivesBack(Converted(v)[2]) = Meant(<<v>>[1])
            \/ bindType = "timestamp_tz" /\ SignLost(<<v>>[1])
        BY <1>2, <2>2, ConvertedBack DEF SetElement
      <3> QED
        BY <1>1, <1>2, <2>2, <3>1 DEF SetElement
    <2> QED
      BY <2>1, <2>2
  <1>3. ASSUME NEW i \in 1 .. Elements, NEW v \in Assignable, SetDate(i, v)
        PROVE  TimeInv'
    <2> DEFINE stored == SetOCIDate(OldFields(i), DateArray(v))
               y == IF \A j \in 1 .. 6 : DateAccepts(j, DateArray(v)[j]) THEN <<v>> ELSE NotAssigned
    <2>1. v \in Moments /\ bindType = "date"
      BY <1>3 DEF SetDate, Assignable
    <2>2. y # NotAssigned => GivesBack(Holds(stored)[2]) = Meant(y[1])
      <3>1. DateArray(v) \in [1 .. 6 -> Int]
        BY <2>1, DateArrayType
      <3>2. y # NotAssigned => y[1] = v /\ stored = DateArray(v)
        BY <3>1, DateBack DEF NotAssigned
      <3> QED
        BY <2>1, <3>2 DEF GivesBack, Meant, Holds
    <2> QED
      BY <1>1, <1>3, <2>2 DEF SetDate
  <1>4. CASE InitElements
    BY <1>4 DEF InitElements, TimesKept
  <1>5. CASE FreeElements
    BY <1>5 DEF FreeElements, TimesKept
  <1>6. CASE UNCHANGED timeBindVars
    BY <1>0, <1>6 DEF timeBindVars
  <1>7. ASSUME NEW u, SetUnit(u)
        PROVE  TimeInv'
    BY <1>0, <1>7 DEF SetUnit
  <1> QED
    BY <1>2, <1>3, <1>4, <1>5, <1>6, <1>7 DEF TimeBindNext

\* For any moments, months and durations, and any number of elements: an element
\* gives back what it last accepted, but for zones of less than an hour west.
THEOREM TimesAlwaysKept == TimeBindSpec => []TimesKept
  <1>1. TimeBindInit(BindTypes) => TimeInv
    BY DEF TimeBindInit, TimeInv, TimesKept
  <1> QED
    BY <1>1, TimeStep, PTL DEF TimeBindSpec, TimeInv

-------------------------------------------------------------------------------
(***************************************************************************)
(* Attributes: an attribute holds the cast of a value that was accepted.   *)
(***************************************************************************)


\* Every integer type has at least two values.
LEMMA ModulusType ==
  ASSUME NEW t \in IntegerTypes
  PROVE  AttrModulus(t) \in Nat \ {0, 1}
  <1>1. ASSUME NEW n \in Nat \ {0, 1}
        PROVE  n * n \in Nat \ {0, 1}
    OBVIOUS
  <1> DEFINE two == UnitModulus * UnitModulus
             four == two * two
             eight == four * four
  <1>2. UnitModulus \in Nat \ {0, 1} /\ two \in Nat \ {0, 1}
    BY <1>1, AttrAssumption
  <1>3. four \in Nat \ {0, 1}
    BY <1>1, <1>2
  <1>4. eight \in Nat \ {0, 1}
    BY <1>1, <1>3
  <1>5. AttrModulus(t) \in {UnitModulus, two, four, eight}
    BY DEF AttrModulus, IntegerTypes, Unsigned, Signed
  <1> QED
    BY <1>2, <1>3, <1>4, <1>5

\* What C keeps of i is the same number for the type.
LEMMA CastLow ==
  ASSUME NEW t \in IntegerTypes, NEW i \in Int
  PROVE  /\ Cast(t, i) \in Int
         /\ Cast(t, i) % AttrModulus(t) = i % AttrModulus(t)
  <1> DEFINE k == AttrModulus(t)
             low == i % k
  <1>1. k \in Nat \ {0, 1}
    BY ModulusType
  <1> HIDE DEF k
  <1>2. low \in 0 .. k - 1
    BY <1>1
  <1>3. (0 * k + low) % k = low /\ ((-1) * k + low) % k = low
    BY <1>1, <1>2, LowBits
  <1>4. 0 * k + low = low /\ (-1) * k + low = low - k
    BY <1>1, <1>2
  <1> QED
    BY <1>1, <1>2, <1>3, <1>4 DEF Cast, k

\* The reader of the attribute's own type does not see what the union had before.
LEMMA ReadsOwnType ==
  ASSUME attrType \in IntegerTypes, NEW i \in Int, content = Cast(attrType, i)
  PROVE  InUnion(attrType) = Cast(attrType, i)
  <1> DEFINE k == AttrModulus(attrType)
             q == Magic \div k
             all == q * k + (content % k)
  <1>1. k \in Nat \ {0, 1} /\ content \in Int /\ content % k = i % k
    BY ModulusType, CastLow
  <1>2. q \in Int /\ content % k \in 0 .. k - 1
    BY <1>1, AttrAssumption
  <1>3. all % k = i % k
    BY <1>1, <1>2, LowBits
  <1> QED
    BY <1>3 DEF InUnion, Cast

\* What the conversion accepts comes back from the cast, but for the exceptions.
LEMMA AcceptedCast ==
  ASSUME attrType \in IntegerTypes, NEW i \in Int, Accepts(attrType, i)
  PROVE  \/ Cast(attrType, i) = i
         \/ attrType \in {"ub4", "ub8"} /\ i < 0 /\ Cast(attrType, i) = i + AttrModulus(attrType)
         \/ attrType = "sb1" /\ ~charIsSigned /\ i > 0 /\ Cast(attrType, i) = i - AttrModulus(attrType)
  <1> DEFINE k == AttrModulus(attrType)
  <1>1. k \in Nat \ {0, 1}
    BY ModulusType
  <1>2. /\ i \in 0 .. k - 1 => i % k = i
        /\ -k <= i /\ i < 0 => i % k = i + k
    <2>1. i \in 0 .. k - 1 => (0 * k + i) % k = i
      BY <1>1, LowBits
    <2>2. -k <= i /\ i < 0 => ((-1) * k + (i + k)) % k = i + k
      BY <1>1, LowBits
    <2> HIDE DEF k
    <2>3. 0 * k + i = i /\ (-1) * k + (i + k) = i
      BY <1>1
    <2> QED
      BY <2>1, <2>2, <2>3
  <1> HIDE DEF k
  <1>3. k \div 2 \in Nat \ {0} /\ k \div 2 <= k - (k \div 2)
    BY <1>1
  <1>4. CASE attrType \in Unsigned
    <2>1. attrType \notin Signed /\ attrType # "sb1"
      BY <1>4 DEF Unsigned, Signed
    <2>2. Cast(attrType, i) = i % k
      BY <2>1 DEF Cast, k
    <2>3. CASE attrType \in {"ub1", "ub2"}
      <3>1. 0 <= i /\ i < k
        BY <2>3 DEF Accepts, k
      <3> QED
        BY <1>1, <1>2, <2>2, <3>1
    <2>4. CASE attrType \in {"ub4", "ub8"}
      <3>1. -(k \div 2) <= i /\ i < k
        BY <2>4 DEF Accepts, k
      <3> QED
        BY <1>1, <1>2, <1>3, <2>2, <2>4, <3>1 DEF k
    <2> QED
      BY <1>4, <2>3, <2>4 DEF Unsigned
  <1>5. CASE attrType \in Signed
    <2>1. Cast(attrType, i) = IF i % k >= k \div 2 THEN (i % k) - k ELSE i % k
      BY <1>5 DEF Cast, k
    <2>2. \/ -(k \div 2) <= i /\ i < k \div 2
          \/ attrType = "sb1" /\ ~charIsSigned /\ 0 <= i /\ i < k
      BY <1>5 DEF Accepts, Signed, k
    <2> QED
      BY <1>1, <1>2, <1>3, <2>1, <2>2 DEF k
  <1> QED
    BY <1>4, <1>5 DEF IntegerTypes

AttrInv ==
  attrType \in IntegerTypes /\ lastSet # <<>> =>
    /\ lastSet[1] \in Int /\ Accepts(attrType, lastSet[1])
    /\ content = Cast(attrType, lastSet[1])

\* Only an accepted assignment changes the attribute.
LEMMA AttrStep == AttrInv /\ [AttributesNext]_attributeVars => AttrInv'
  <1> SUFFICES ASSUME AttrInv, [AttributesNext]_attributeVars
               PROVE  AttrInv'
    OBVIOUS
  <1>0. ASSUME UNCHANGED <<attrType, charIsSigned, content, lastSet>>
        PROVE  AttrInv'
    BY <1>0 DEF AttrInv, Accepts
  <1>1. ASSUME NEW a, Respond(a)
        PROVE  AttrInv'
    BY <1>0, <1>1 DEF Respond
  <1>2. ASSUME NEW i \in AttrIntegers, SetInteger(i)
        PROVE  AttrInv'
    <2>1. CASE Accepts(attrType, i)
      <3>1. /\ attrType' = attrType /\ charIsSigned' = charIsSigned
            /\ content' = Cast(attrType, i) /\ lastSet' = <<i>>
        BY <1>2, <2>1 DEF SetInteger, StoreAttribute
      <3>2. Accepts(attrType, i)'
        BY <2>1, <3>1 DEF Accepts
      <3>3. i \in Int /\ lastSet'[1] = i
        BY <3>1, AttrAssumption
      <3> QED
        BY <3>1, <3>2, <3>3 DEF AttrInv, Accepts
    <2>2. CASE ~Accepts(attrType, i)
      BY <1>2, <1>1, <2>2 DEF SetInteger, SetRaises
    <2> QED
      BY <2>1, <2>2
  <1>3. ASSUME NEW v, SetBoolean(v) \/ SetString(v)
        PROVE  AttrInv'
    BY <1>3 DEF SetBoolean, SetString, StoreAttribute, AttrInv, IntegerTypes, Unsigned, Signed
  <1>4. CASE FreeHandle \/ UNCHANGED attributeVars
    BY <1>0, <1>4 DEF FreeHandle, attributeVars
  <1>5. ASSUME NEW reader \in IntegerTypes, GetInteger(reader)
        PROVE  AttrInv'
    BY <1>1, <1>5 DEF GetInteger
  <1>6. ASSUME NEW b \in BOOLEAN, NEW c \in BOOLEAN,
               GetFails(b, c) \/ GetOther(b) \/ GetClosed(b)
        PROVE  AttrInv'
    BY <1>1, <1>6 DEF GetFails, GetOther, GetClosed
  <1>7. CASE SetRaises
    BY <1>1, <1>7 DEF SetRaises
  <1> QED
    BY <1>2, <1>3, <1>4, <1>5, <1>6, <1>7 DEF AttributesNext

\* For any width of the integer types: an attribute reads back as assigned, with
\* the exceptions that AttributeKept names.
THEOREM AttributesKept == AttributesSpec => []AttributeKept
  <1>1. AttributesInit(AttrTypes, BOOLEAN) => AttrInv
    BY DEF AttributesInit, AttrInv
  <1>2. AttrInv => AttributeKept
    BY ReadsOwnType, AcceptedCast DEF AttrInv, AttributeKept
  <1> QED
    BY <1>1, <1>2, AttrStep, PTL DEF AttributesSpec

(***************************************************************************)
(* SocketHooks: the ring is one ring of the readers that are registered,    *)
(* and what the shutdown has passed is shut down.                          *)
(***************************************************************************)

RingMembers == Registered \union {SocketsInUse}

SocketTypes ==
  /\ hooked \subseteq Hooks /\ cancelRead \in BOOLEAN
  /\ next \in [Entry -> Entry] /\ prev \in [Entry -> Entry]
  /\ at \in [Reader -> Stages] /\ enabled \in [Reader -> BOOLEAN]
  /\ shut \subseteq Reader /\ exited \in BOOLEAN

\* The entries that the walk has left are shut down, and lead to the one it is at.
WalkOK ==
  /\ walk # NotWalking =>
       \A e \in {SocketsInUse} \union (Registered \cap shut) :
         next[e] \in (Registered \cap shut) \union {walk}
  /\ ~exited => shut = {} /\ walk = NotWalking

SocketInv == SocketTypes /\ EntriesFound /\ WalkOK

\* socket_entry_set makes one ring of a ring and a new entry.
LEMMA InsertedRing ==
  ASSUME SocketTypes, NEW S \in SUBSET Entry, SocketsInUse \in S, Ringed(S),
         NEW r \in Entry, r \notin S, Inserted(r)
  PROVE  Ringed(S \union {r})'
  <1> DEFINE h == SocketsInUse
             f == next[SocketsInUse]
             T1 == S \union {r}
  <1>1. h \in S /\ f \in S /\ r # h /\ r # f /\ h \in Entry /\ f \in Entry
    BY DEF Ringed
  <1>2. \A e \in Entry : next'[e] = IF e = h THEN r ELSE IF e = r THEN f ELSE next[e]
    BY <1>1 DEF Inserted, SocketTypes
  <1>3. \A e \in Entry : prev'[e] = IF e = r THEN h ELSE IF e = f THEN r ELSE prev[e]
    BY <1>1 DEF Inserted, SocketTypes
  <1>4. \A e \in S : next[e] \in S /\ prev[e] \in S /\ prev[next[e]] = e /\ next[prev[e]] = e /\ e \in Entry
    BY DEF Ringed
  <1>5. \A e \in T1 : next'[e] \in T1 /\ prev'[e] \in T1
    BY <1>1, <1>2, <1>3, <1>4
  <1>6. \A e \in T1 : prev'[next'[e]] = e /\ next'[prev'[e]] = e
    BY <1>1, <1>2, <1>3, <1>4
  <1>7. ASSUME NEW T \in SUBSET T1, T # {}, \A e \in T : next'[e] \in T
        PROVE  T = T1
    <2>1. \A e \in T \ {r} : e \in S /\ (e # h => next[e] \in T \ {r})
      BY <1>1, <1>2, <1>4, <1>7
    <2>2. r \in T => f \in T \ {r}
      BY <1>1, <1>2, <1>7
    <2>3. h \in T => r \in T
      BY <1>1, <1>2, <1>7
    <2>4. \A e \in T \ {r} : next[e] \in T \ {r}
      BY <2>1, <2>2, <2>3
    <2>5. T \ {r} # {}
      BY <1>7, <2>2
    <2>6. T \ {r} = S
      <3>1. T \ {r} \in SUBSET S
        BY <2>1
      <3> QED
        BY <2>4, <2>5, <3>1 DEF Ringed
    <2> QED
      BY <1>1, <2>3, <2>6
  <1> QED
    BY <1>5, <1>6, <1>7 DEF Ringed

\* socket_entry_clear leaves one ring.
LEMMA RemovedRing ==
  ASSUME SocketTypes, NEW S \in SUBSET Entry, SocketsInUse \in S, Ringed(S),
         NEW r \in S, r # SocketsInUse, Removed(r)
  PROVE  Ringed(S \ {r})'
  <1> DEFINE n == next[r]
             p == prev[r]
             T1 == S \ {r}
  <1>1. n \in S /\ p \in S /\ next[p] = r /\ prev[n] = r /\ r \in Entry /\ n \in Entry /\ p \in Entry
    BY DEF Ringed
  <1>2. \A e \in S : next[e] \in S /\ prev[e] \in S /\ prev[next[e]] = e /\ next[prev[e]] = e /\ e \in Entry
    BY DEF Ringed
  <1>3. n # r /\ p # r
    <2>1. n # r
      <3>1. n = r => \A e \in {r} : next[e] \in {r}
        OBVIOUS
      <3> QED
        BY <3>1 DEF Ringed
    <2> QED
      BY <1>1, <2>1
  <1>4. \A e \in T1 : next'[e] = IF e = p THEN n ELSE next[e]
    BY <1>1, <1>2, <1>3 DEF Removed, SocketTypes
  <1>5. \A e \in T1 : prev'[e] = IF e = n THEN p ELSE prev[e]
    BY <1>1, <1>2, <1>3 DEF Removed, SocketTypes
  <1>6. \A e \in T1 : next'[e] \in T1 /\ prev'[e] \in T1
    BY <1>1, <1>2, <1>3, <1>4, <1>5
  <1>7. \A e \in T1 : prev'[next'[e]] = e /\ next'[prev'[e]] = e
    BY <1>1, <1>2, <1>3, <1>4, <1>5, <1>6
  <1>8. ASSUME NEW T \in SUBSET T1, T # {}, \A e \in T : next'[e] \in T
        PROVE  T = T1
    <2>1. CASE p \in T
      <3>1. \A e \in T \union {r} : next[e] \in T \union {r}
        BY <1>1, <1>4, <1>8, <2>1
      <3>2. T \union {r} \in SUBSET S
        OBVIOUS
      <3>3. T \union {r} = S
        BY <3>1, <3>2 DEF Ringed
      <3> QED
        BY <3>3
    <2>2. CASE p \notin T
      <3>1. \A e \in T : next[e] \in T
        BY <1>4, <1>8, <2>2
      <3>2. T = S
        BY <1>8, <3>1 DEF Ringed
      <3> QED
        BY <3>2
    <2> QED
      BY <2>1, <2>2
  <1> QED
    BY <1>6, <1>7, <1>8 DEF Ringed

\* A step that changes neither the ring nor who is registered in it.
LEMMA RingUnchanged ==
  ASSUME SocketInv, SocketTypes', Registered' = Registered,
         UNCHANGED <<ringVars, shut, exited, walk>>
  PROVE  SocketInv'
  <1>1. EntriesFound'
    BY DEF SocketInv, EntriesFound, Ringed, ringVars
  <1>2. WalkOK'
    BY DEF SocketInv, WalkOK, ringVars
  <1> QED
    BY <1>1, <1>2 DEF SocketInv

\* The ring is empty.
LEMMA SocketInitInv == SocketInit => SocketInv
  <1> SUFFICES ASSUME SocketInit
               PROVE  SocketInv
    OBVIOUS
  <1>1. SocketTypes /\ Registered = {} /\ WalkOK
    BY DEF SocketInit, SocketTypes, Registered, WalkOK, Stages
  <1>2. Ringed({SocketsInUse})
    BY DEF SocketInit, Ringed, Entry
  <1> QED
    BY <1>1, <1>2 DEF SocketInit, SocketInv, EntriesFound

\* Every step of a reader and of the shutdown keeps the ring.
LEMMA SocketStepInv ==
  ASSUME SocketInv, SocketStep
  PROVE  SocketInv'
  <1> USE DEF SocketInv
  <1>1. ASSUME NEW r \in Reader, EnterRead(r)
        PROVE  SocketInv'
    <2>1. SocketTypes'
      BY <1>1 DEF EnterRead, SocketTypes, Stages, ringVars
    <2>2. Registered' = Registered
      BY <1>1 DEF EnterRead, SocketTypes, Registered
    <2> QED
      BY <1>1, <2>1, <2>2, RingUnchanged DEF EnterRead
  <1>2. ASSUME NEW r \in Reader, EntrySet(r)
        PROVE  SocketInv'
    <2>1. SocketTypes'
      BY <1>2, SocketAssumption DEF EntrySet, SocketTypes, Stages, ringVars, Inserted, Entry
    <2>2. CASE ~enabled[r]
      <3>1. Registered' = Registered
        BY <1>2, <2>2 DEF EntrySet, SocketTypes, Registered
      <3> QED
        BY <1>2, <2>1, <2>2, <3>1, RingUnchanged DEF EntrySet
    <2>3. CASE enabled[r]
      <3>1. Registered' = Registered \union {r} /\ r \notin Registered
        BY <1>2, <2>3 DEF EntrySet, SocketTypes, Registered
      <3>2. /\ RingMembers \in SUBSET Entry /\ SocketsInUse \in RingMembers
            /\ r \in Entry /\ r \notin RingMembers
        BY <3>1, SocketAssumption DEF RingMembers, Registered, Entry
      <3>3. \A S : S = RingMembers \union {r} => Ringed(S)'
        BY <1>2, <2>3, <3>2, InsertedRing DEF EntrySet, EntriesFound, RingMembers
      <3>4. Ringed(Registered \union {SocketsInUse})'
        BY <3>1, <3>3 DEF RingMembers
      <3>5. walk = NotWalking /\ walk' = walk /\ walk # SocketsInUse
        BY <1>2, <2>3, SocketAssumption DEF EntrySet
      <3> QED
        BY <1>2, <2>1, <3>4, <3>5 DEF EntrySet, EntriesFound, WalkOK
    <2> QED
      BY <2>2, <2>3
  <1>3. ASSUME NEW r \in Reader, ReadEnds(r)
        PROVE  SocketInv'
    <2>1. SocketTypes'
      BY <1>3 DEF ReadEnds, SocketTypes, Stages, ringVars
    <2>2. Registered' = Registered
      BY <1>3 DEF ReadEnds, SocketTypes, Registered
    <2> QED
      BY <1>3, <2>1, <2>2, RingUnchanged DEF ReadEnds
  <1>4. ASSUME NEW r \in Reader, EntryClear(r)
        PROVE  SocketInv'
    <2>1. SocketTypes'
      BY <1>4, SocketAssumption DEF EntryClear, SocketTypes, Stages, ringVars, Removed, Entry
    <2>2. CASE ~enabled[r]
      <3>1. Registered' = Registered
        BY <1>4, <2>2 DEF EntryClear, SocketTypes, Registered
      <3> QED
        BY <1>4, <2>1, <2>2, <3>1, RingUnchanged DEF EntryClear
    <2>3. CASE enabled[r]
      <3>1. Registered' = Registered \ {r} /\ r \in Registered
        BY <1>4, <2>3 DEF EntryClear, SocketTypes, Registered
      <3>2. /\ RingMembers \in SUBSET Entry /\ SocketsInUse \in RingMembers
            /\ r \in RingMembers /\ r # SocketsInUse
        BY <3>1, SocketAssumption DEF RingMembers, Registered, Entry
      <3>3. \A S : S = RingMembers \ {r} => Ringed(S)'
        BY <1>4, <2>3, <3>2, RemovedRing DEF EntryClear, EntriesFound, RingMembers
      <3>4. Ringed(Registered \union {SocketsInUse})'
        BY <3>1, <3>2, <3>3 DEF RingMembers
      <3>5. walk = NotWalking /\ walk' = walk /\ walk # SocketsInUse
        BY <1>4, <2>3, SocketAssumption DEF EntryClear
      <3> QED
        BY <1>4, <2>1, <3>4, <3>5 DEF EntryClear, EntriesFound, WalkOK
    <2> QED
      BY <2>2, <2>3
  <1>5. CASE AtExit \/ ShutNext
    <2>1. Registered' = Registered /\ next' = next /\ prev' = prev
      BY <1>5 DEF AtExit, ShutNext, Registered, ringVars
    <2>2. RingMembers \subseteq Entry /\ \A e \in RingMembers : next[e] \in RingMembers
      BY SocketAssumption DEF EntriesFound, RingMembers, Ringed, Registered, Entry
    <2>3. walk' \in RingMembers
      BY <1>5, <2>2, SocketAssumption DEF AtExit, ShutNext, EntriesFound, RingMembers
    <2>4. \A e \in {SocketsInUse} \union (Registered \cap shut') :
            next[e] \in (Registered \cap shut') \union {walk'}
      <3>1. CASE AtExit
        BY <3>1 DEF AtExit, WalkOK
      <3>2. CASE ShutNext
        <4>1. walk \in Registered /\ walk # NotWalking
          BY <3>2, SocketAssumption DEF ShutNext, EntriesFound
        <4> QED
          BY <3>2, <4>1 DEF ShutNext, WalkOK
      <3> QED
        BY <1>5, <3>1, <3>2
    <2>5. walk' = SocketsInUse => Registered \subseteq shut'
      <3> SUFFICES ASSUME walk' = SocketsInUse
                   PROVE  Registered \subseteq shut'
        OBVIOUS
      <3> DEFINE T == {SocketsInUse} \union (Registered \cap shut')
      <3>1. T \in SUBSET (Registered \union {SocketsInUse}) /\ T # {} /\ \A e \in T : next[e] \in T
        BY <2>4
      <3>2. T = Registered \union {SocketsInUse}
        BY <3>1 DEF EntriesFound, Ringed
      <3> QED
        BY <3>2, SocketAssumption DEF Registered
    <2>6. EntriesFound'
      BY <2>1, <2>3, <2>5 DEF EntriesFound, Ringed, RingMembers
    <2>7. WalkOK'
      <3>1. exited'
        BY <1>5, SocketAssumption DEF AtExit, ShutNext, WalkOK
      <3> QED
        BY <2>1, <2>4, <3>1 DEF WalkOK
    <2>8. SocketTypes'
      BY <1>5, <2>1 DEF AtExit, ShutNext, SocketTypes
    <2> QED
      BY <2>6, <2>7, <2>8
  <1>6. CASE Unlock
    <2>1. SocketTypes' /\ Registered' = Registered /\ next' = next /\ prev' = prev
      BY <1>6 DEF Unlock, SocketTypes, Registered, ringVars
    <2>2. WalkOK' /\ walk' # SocketsInUse
      BY <1>6, SocketAssumption DEF Unlock, WalkOK
    <2> QED
      BY <1>6, <2>1, <2>2 DEF Unlock, EntriesFound, Ringed
  <1> QED
    BY <1>1, <1>2, <1>3, <1>4, <1>5, <1>6 DEF SocketStep

\* Registering the hooks leaves the ring as it is.
LEMMA InstallInv ==
  ASSUME SocketInv, Install, cancelRead' \in BOOLEAN
  PROVE  SocketInv'
  <1>1. hooked' \subseteq Hooks
    BY DEF Install, ReplaceFunctions, SocketInv, SocketTypes
  <1>2. SocketTypes' /\ Registered' = Registered
    BY <1>1 DEF Install, SocketInv, SocketTypes, Registered, ringVars
  <1> QED
    BY <1>2, RingUnchanged DEF Install

\* A step that changes no variable of the hooks
LEMMA SocketStutter ==
  ASSUME SocketInv, UNCHANGED socketVars
  PROVE  SocketInv'
  <1>1. SocketTypes' /\ Registered' = Registered
    BY DEF SocketInv, SocketTypes, socketVars, ringVars, Registered
  <1> QED
    BY <1>1, RingUnchanged DEF socketVars

-------------------------------------------------------------------------------
(***************************************************************************)
(* Settings: what the properties tell is in effect.                        *)
(***************************************************************************)

SettingTypes ==
  /\ properties \in [Names -> Classes \union BOOLEAN]
  /\ properties["events_mode"] \in BOOLEAN
  /\ properties["cancel_read_at_exit"] \in BOOLEAN
  /\ properties["tcp_keepalive_time"] \in {"nil", "positive"}
  /\ env \in {"none", "plain", "events"}

SettingsInv == SettingTypes /\ SettingsInEffect

\* What properties.rb starts with is in effect.
LEMMA SettingsInitInv == SocketInit /\ SettingsInit => SettingsInv
  <1> SUFFICES ASSUME SocketInit, SettingsInit
               PROVE  SettingsInv
    OBVIOUS
  <1>1. properties \in [Names -> Classes \union BOOLEAN]
    BY DEF SettingsInit, Names, Classes
  <1>2. /\ properties["float_conversion_type"] = "ruby"
        /\ properties["events_mode"] = FALSE /\ properties["cancel_read_at_exit"] = FALSE
        /\ properties["tcp_keepalive_time"] = "nil"
    BY DEF SettingsInit, Names
  <1>3. SettingTypes
    BY <1>1, <1>2 DEF SettingTypes, SettingsInit
  <1>4. SettingsInEffect
    BY <1>2 DEF SocketInit, SettingsInit, SettingsInEffect, ToI
  <1> QED
    BY <1>3, <1>4 DEF SettingsInv

\* Every setter, also one that raises, keeps property and effect together.
LEMMA SettingsStepInv ==
  ASSUME SettingsInv, SocketInv, SettingsNext
  PROVE  SettingsInv' /\ SocketInv'
  <1> USE DEF SettingsInv
  <1>1. ASSUME NEW v \in SettingValues,
               SetLengthSemantics(v) \/ SetFloatConversion(v) \/ SetCacheSize(v) \/ SetTimeout(v)
        PROVE  SettingsInv' /\ SocketInv'
    <2>1. UNCHANGED <<events, env, keepAlive, socketTime, meantTime, socketVars>>
      BY <1>1 DEF SetLengthSemantics, SetFloatConversion, SetCacheSize, SetTimeout, OnlyProperties
    <2>2. PICK name \in {"length_semantics", "float_conversion_type", "statement_cache_size",
                          "recv_timeout"}, w \in Classes :
            /\ properties' = [properties EXCEPT ![name] = w]
            /\ IF name = "float_conversion_type" THEN rubyFloats' = (w = "ruby")
               ELSE rubyFloats' = rubyFloats
      BY <1>1, ValuesAssumption DEF SetLengthSemantics, SetFloatConversion, SetCacheSize, SetTimeout,
         OnlyProperties, Remember, ToI, HasToI, Classes
    <2>3. SettingTypes'
      BY <2>1, <2>2 DEF SettingTypes, Names, Classes
    <2>4. SettingsInEffect'
      BY <2>1, <2>2 DEF SettingTypes, SettingsInEffect, socketVars, Installed, Names
    <2> QED
      BY <2>1, <2>3, <2>4, SocketStutter
  <1>2. ASSUME NEW v \in SettingValues, SetEvents(v)
        PROVE  SettingsInv' /\ SocketInv'
    <2>1. SettingTypes'
      BY <1>2 DEF SetEvents, Remember, SettingTypes, Names, Truth
    <2>2. SettingsInEffect'
      BY <1>2 DEF SetEvents, Remember, SettingTypes, SettingsInEffect, Names, socketVars, Installed
    <2> QED
      BY <1>2, <2>1, <2>2, SocketStutter DEF SetEvents
  <1>3. ASSUME NEW v \in SettingValues, SetCancel(v)
        PROVE  SettingsInv' /\ SocketInv'
    <2>1. SettingTypes'
      BY <1>3 DEF SetCancel, Remember, SettingTypes, Names, Truth
    <2>2. Installed => Installed'
      BY <1>3 DEF SetCancel, SetCancelRead, Install, Installed
    <2>3. SettingsInEffect'
      BY <1>3, <2>2 DEF SetCancel, SetCancelRead, Remember, SettingTypes, SettingsInEffect, Names
    <2>4. cancelRead' \in BOOLEAN /\ Install
      BY <1>3 DEF SetCancel, SetCancelRead, Truth, SocketInv, SocketTypes
    <2> QED
      BY <2>1, <2>3, <2>4, InstallInv
  <1>4. ASSUME NEW v \in SettingValues, SetKeepAlive(v)
        PROVE  SettingsInv' /\ SocketInv'
    <2>1. SettingTypes'
      BY <1>4 DEF SetKeepAlive, Remember, SettingTypes, Names, Classes
    <2>2. Installed => Installed'
      BY <1>4 DEF SetKeepAlive, Install, Installed
    <2>3. SettingsInEffect'
      BY <1>4, <2>2 DEF SetKeepAlive, Remember, SettingTypes, SettingsInEffect, Names, ToI
    <2>4. cancelRead' \in BOOLEAN /\ Install
      BY <1>4 DEF SetKeepAlive, SocketInv, SocketTypes
    <2> QED
      BY <2>1, <2>3, <2>4, InstallInv
  <1>5. CASE MakeEnv
    <2>1. SettingTypes' /\ SettingsInEffect'
      BY <1>5 DEF MakeEnv, SettingTypes, SettingsInEffect, socketVars, Installed
    <2> QED
      BY <1>5, <2>1, SocketStutter DEF MakeEnv
  <1>6. ASSUME NEW b \in BOOLEAN, OpenSocket(b)
        PROVE  SettingsInv' /\ SocketInv'
    <2>1. SettingTypes'
      BY <1>6 DEF OpenSocket, SettingTypes
    <2>2. SettingsInEffect'
      BY <1>6 DEF OpenSocket, SettingTypes, SettingsInEffect, socketVars, Installed, Hooks, ToI
    <2> QED
      BY <1>6, <2>1, <2>2, SocketStutter DEF OpenSocket
  <1> QED
    BY <1>1, <1>2, <1>3, <1>4, <1>5, <1>6 DEF SettingsNext

\* The readers change nothing that the properties tell.
LEMMA SettingsStutter ==
  ASSUME SettingsInv, UNCHANGED <<settingVars, hooked, cancelRead>>
  PROVE  SettingsInv'
  BY DEF SettingsInv, SettingTypes, SettingsInEffect, settingVars, Installed

\* Every step of the process keeps both invariants.
LEMMA ProcessStepInv ==
  ASSUME SocketInv, SettingsInv, [ProcessNext]_<<socketVars, settingVars>>
  PROVE  SocketInv' /\ SettingsInv'
  <1>1. CASE SettingsNext
    BY <1>1, SettingsStepInv
  <1>2. CASE SocketStep /\ UNCHANGED settingVars
    <2>1. UNCHANGED <<hooked, cancelRead>>
      BY <1>2 DEF SocketStep, EnterRead, EntrySet, ReadEnds, EntryClear, AtExit, ShutNext, Unlock
    <2> QED
      BY <1>2, <2>1, SocketStepInv, SettingsStutter
  <1>3. CASE UNCHANGED <<socketVars, settingVars>>
    BY <1>3, SocketStutter, SettingsStutter DEF socketVars
  <1> QED
    BY <1>1, <1>2, <1>3 DEF ProcessNext

\* For any number of readers, with the flag changing and hooks installed at any
\* time: the ring of socket entries has exactly the readers that are registered,
\* and a shutdown that is done has shut every one of them down.
THEOREM ReadersFound == ProcessSpec => []EntriesFound
  <1>1. ProcessSpec => [](SocketInv /\ SettingsInv)
    BY SocketInitInv, SettingsInitInv, ProcessStepInv, PTL DEF ProcessSpec
  <1> QED
    BY <1>1, PTL DEF SocketInv

\* What OCI8.properties tells is what is in effect, whatever setters raised.
THEOREM SettingsHold == ProcessSpec => []SettingsInEffect
  <1>1. ProcessSpec => [](SocketInv /\ SettingsInv)
    BY SocketInitInv, SettingsInitInv, ProcessStepInv, PTL DEF ProcessSpec
  <1> QED
    BY <1>1, PTL DEF SettingsInv

-------------------------------------------------------------------------------
(***************************************************************************)
(* ErrorReport: an error handle has what its own thread's last call left.  *)
(***************************************************************************)

AnyCode == Code \union {NoCode}

Calls ==
  {Idle} \union [stage : {"inside"}, on : Connection, again : BOOLEAN]
         \union [stage : {"back"}, on : Connection, again : BOOLEAN, status : Statuses]

Exceptions == [code : AnyCode, meant : AnyCode, length : Nat]

ErrorTypes ==
  /\ errhp \in [Caller -> AnyCode \union {NoHandle}]
  /\ meant \in [Caller -> AnyCode]
  /\ call \in [Caller -> Calls]
  /\ errbufsiz \in Nat
  /\ reported \in [Caller -> Exceptions \union {NoError}]
  /\ lastError \in [Connection -> Exceptions \union {NoError}]

\* From the time that OCI returned, the error handle of a thread has what the
\* thread's last call left there.
OwnHandle == \A t \in Caller : call[t].stage = "back" => errhp[t] = meant[t]

ErrorInv == ErrorTypes /\ OwnHandle /\ ReportsOwnError

\* A text that leaves more than Spare bytes of the buffer was not cut off.
LEMMA WholeText ==
  ASSUME ErrorInv, NEW code \in AnyCode, NEW length \in Got(code, errbufsiz), ~TooSmall(length)
  PROVE  length \in Nat /\ (code # NoCode => length = TextLength[code])
  BY BufferAssumption DEF ErrorInv, ErrorTypes, Got, TooSmall, AnyCode

\* No thread has called OCI.
LEMMA ErrorInitInv == ErrorInit => ErrorInv
  BY BufferAssumption
  DEF ErrorInit, ErrorInv, ErrorTypes, OwnHandle, ReportsOwnError, Faithful, Calls, Idle, AnyCode

\* Every step of a thread, also of the others that share the size of the buffer.
LEMMA ErrorStepInv == ErrorInv /\ [ErrorNext]_errorVars => ErrorInv'
  <1> SUFFICES ASSUME ErrorInv, [ErrorNext]_errorVars
               PROVE  ErrorInv'
    OBVIOUS
  <1> USE BufferAssumption DEF ErrorInv, ErrorTypes, OwnHandle, ErrhpOf
  <1>1. ASSUME NEW t \in Caller, NEW c \in Connection, NEW executes \in BOOLEAN,
               StartCall(t, c, executes)
        PROVE  ErrorInv'
    <2>1. ErrorTypes'
      BY <1>1 DEF StartCall, Calls, AnyCode
    <2>2. OwnHandle'
      BY <1>1 DEF StartCall
    <2>3. ReportsOwnError'
      BY <1>1 DEF StartCall, ReportsOwnError, Faithful
    <2> QED
      BY <2>1, <2>2, <2>3
  <1>2. ASSUME NEW t \in Caller, NEW status \in Statuses, NEW code \in AnyCode,
               Returns(t, status, code)
        PROVE  ErrorInv'
    <2>1. call[t].on \in Connection /\ call[t].again \in BOOLEAN
      BY <1>2 DEF Returns, Calls, Idle
    <2>2. ErrorTypes'
      BY <1>2, <2>1 DEF Returns, LeavesError, Calls
    <2>3. OwnHandle'
      BY <1>2 DEF Returns, LeavesError
    <2>4. ReportsOwnError'
      BY <1>2 DEF Returns, ReportsOwnError, Faithful
    <2> QED
      BY <2>2, <2>3, <2>4
  <1>3. ASSUME NEW t \in Caller, NEW code \in AnyCode, UsesHandle(t, code)
        PROVE  ErrorInv'
    BY <1>3 DEF UsesHandle, LeavesError, ReportsOwnError, Faithful
  <1>4. ASSUME NEW t \in Caller, RetryExecute(t)
        PROVE  ErrorInv'
    <2>1. call[t].on \in Connection
      BY <1>4 DEF RetryExecute, Calls, Idle
    <2> QED
      BY <1>4, <2>1 DEF RetryExecute, Calls, ReportsOwnError, Faithful
  <1>5. ASSUME NEW t \in Caller, GrowBuffer(t)
        PROVE  ErrorInv'
    BY <1>5 DEF GrowBuffer, ReportsOwnError, Faithful
  <1>6. ASSUME NEW t \in Caller, NEW baseFound \in BOOLEAN, Report(t, baseFound)
        PROVE  ErrorInv'
    <2>1. PICK length \in Got(errhp[t], errbufsiz) :
            /\ ~TooSmall(length)
            /\ reported' = [reported EXCEPT ![t] = Exception(t, length)]
            /\ lastError' = IF baseFound
                            THEN [lastError EXCEPT ![call[t].on] = Exception(t, length)]
                            ELSE lastError
      BY <1>6 DEF Report
    <2>2. errhp[t] = meant[t] /\ errhp[t] \in AnyCode
      BY <1>6 DEF Report
    <2>3. Exception(t, length) \in Exceptions /\ Faithful(Exception(t, length))
      BY <2>1, <2>2, WholeText DEF Exception, Exceptions, Faithful
    <2>4. UNCHANGED <<errhp, meant, errbufsiz>> /\ call' = [call EXCEPT ![t] = Idle]
      BY <1>6 DEF Report
    <2>5. ErrorTypes'
      BY <2>1, <2>3, <2>4 DEF Calls
    <2>6. OwnHandle'
      BY <2>4 DEF Idle
    <2>7. ReportsOwnError'
      BY <2>1, <2>3 DEF ReportsOwnError, Faithful
    <2> QED
      BY <2>5, <2>6, <2>7
  <1>7. ASSUME NEW t \in Caller, ReportStatus(t) \/ Ping(t)
        PROVE  ErrorInv'
    BY <1>7 DEF ReportStatus, Ping, Calls, Idle, ReportsOwnError, Faithful
  <1>8. ASSUME NEW t \in Caller, ThreadEnds(t)
        PROVE  ErrorInv'
    <2>1. ReportsOwnError'
      BY <1>8 DEF ThreadEnds, ReportsOwnError, Faithful
    <2> QED
      BY <1>8, <2>1 DEF ThreadEnds, AnyCode, Idle
  <1>9. CASE UNCHANGED errorVars
    BY <1>9 DEF errorVars, ReportsOwnError, Faithful
  <1> QED
    BY <1>1, <1>2, <1>3, <1>4, <1>5, <1>6, <1>7, <1>8, <1>9 DEF ErrorNext, AnyCode

\* For any number of threads, connections, errors and lengths: an exception has the
\* code and the whole text of the error of its own thread's last call.
THEOREM OwnErrorReported == ErrorSpec => []ReportsOwnError
  BY ErrorInitInv, ErrorStepInv, PTL DEF ErrorSpec, ErrorInv

-------------------------------------------------------------------------------
(***************************************************************************)
(* ObjectLayout: the layout of a type, for any types and any failures.     *)
(***************************************************************************)

LayoutSpec == LayoutInit /\ [][LayoutNext]_layoutVars

Attr == [val : Nat, ind : Nat, size : Nat, indSize : Nat, alignment : Alignments]
Tdo == [val : Nat \union {NoSize}, ind : Nat \union {NoSize}, alignment : Alignments,
        attrs : Seq(Attr), complete : BOOLEAN]

Cached(t) == tdos[t] # NotCached

\* Attribute i lies behind the one before it, and inside d.
Placed(d, i) ==
  LET attr == d.attrs[i]
      last == d.attrs[i - 1]
  IN  /\ attr.alignment <= d.alignment /\ attr.ind >= 2
      /\ attr.val + attr.size <= d.val /\ attr.ind + attr.indSize <= d.ind
      /\ i > 1 => last.val + last.size <= attr.val /\ last.ind + last.indSize <= attr.ind

\* The type that attribute i of t holds does not change any more.
AttrFits(t, i) ==
  LET attr == tdos[t].attrs[i]
      a == Schema[t].of[i]
  IN  /\ attr.val % attr.alignment = 0 /\ attr.size = Layout(a).size
      /\ a \in TypeNames => Cached(a) /\ (tdos[a].complete \/ a \in half)
      /\ Schema[t].collection \/ Placed(tdos[t], i)

TdoFits(t) ==
  /\ tdos[t] \in Tdo
  /\ Len(tdos[t].attrs) <= Len(Schema[t].of)
  /\ tdos[t].val = NoSize => Len(tdos[t].attrs) = 0
  /\ tdos[t].val # NoSize => tdos[t].ind \in Nat /\ tdos[t].ind >= 2
  /\ tdos[t].complete => /\ Len(tdos[t].attrs) = Len(Schema[t].of)
                         /\ tdos[t].val # NoSize
                         /\ tdos[t].val % tdos[t].alignment = 0
  /\ \A i \in 1 .. Len(tdos[t].attrs) : AttrFits(t, i)

\* What is under construction was entered in the caches, each type for the next one.
Constructed ==
  /\ \A i \in 1 .. Len(building) :
       Cached(building[i]) /\ ~tdos[building[i]].complete /\ building[i] \notin half
  /\ \A i, j \in 1 .. Len(building) : building[i] = building[j] => i = j
  /\ \A i \in 1 .. Len(building) - 1 : building[i + 1] \in Embedded(building[i])

\* A type in the caches is complete, unless it is, or once was, under construction.
Accounted ==
  /\ \A t \in half : Cached(t)
  /\ \A t \in TypeNames : Cached(t) => \/ tdos[t].complete \/ t \in half
                                       \/ \E i \in 1 .. Len(building) : building[i] = t

LayoutTypes ==
  /\ tdos \in [TypeNames -> Tdo \union {NotCached}]
  /\ building \in Seq(TypeNames) /\ half \in SUBSET TypeNames

LayoutInv ==
  /\ LayoutTypes
  /\ \A t \in TypeNames : Cached(t) => TdoFits(t)
  /\ Constructed /\ Accounted

\* A TDO is more than the mark of a type that is not cached.
LEMMA TdoIsCached == \A d \in Tdo : d # NotCached
<1> SUFFICES ASSUME NEW d \in Tdo, d = NotCached PROVE FALSE
  OBVIOUS
<1>1. "val" \in DOMAIN d
  BY DEF Tdo
<1>2. DOMAIN NotCached = {}
  BY DEF NotCached
<1> QED BY <1>1, <1>2

\* Alignments divide one another.
LEMMA AlignmentFacts ==
  /\ \A a \in Alignments : a \in Nat \ {0}
  /\ \A a, b \in Alignments : a <= b => b % a = 0
  /\ 1 \in Alignments /\ PointerSize \in Alignments
  /\ \A s \in DOMAIN Scalars : Scalars[s].alignment \in Alignments
  BY ScalarsAssumption DEF Alignments

\* The attributes of a type
LEMMA SchemaFacts ==
  ASSUME NEW t \in TypeNames
  PROVE  /\ Schema[t].collection \in BOOLEAN /\ Len(Schema[t].of) \in Nat
         /\ \A i \in 1 .. Len(Schema[t].of) :
              /\ Schema[t].of[i] \in TypeNames \union DOMAIN Scalars \union {Unsupported}
              /\ Schema[t].of[i] \in TypeNames => Schema[t].of[i] \in Embedded(t)
         /\ Schema[t].collection => Len(Schema[t].of) = 1
  BY SchemaAssumption DEF Embedded

\* The types under construction that were entered before t do not hold it.
LEMMA NotUnderConstruction ==
  ASSUME LayoutInv, building # <<>>, NEW t \in Embedded(Current)
  PROVE  \A i \in 1 .. Len(building) : building[i] # t
<1> SUFFICES ASSUME NEW i \in 1 .. Len(building), building[i] = t PROVE FALSE
  OBVIOUS
<1> DEFINE n == Len(building)
           T == {building[j] : j \in i .. n}
<1>1. n \in Nat /\ n > 0 /\ \A j \in 1 .. n : building[j] \in TypeNames
  BY DEF LayoutInv, LayoutTypes
<1>2. T \in SUBSET TypeNames /\ T # {}
  <2>1. \A j \in i .. n : j \in 1 .. n
    BY <1>1
  <2>2. i \in i .. n
    BY <1>1
  <2> QED BY <1>1, <2>1, <2>2
<1>3. PICK u \in T : Embedded(u) \cap T = {}
  <2>1. PICK depth \in [TypeNames -> 1 .. Nesting] : Deepens(depth)
    BY SchemaAssumption
  <2> DEFINE D == {depth[w] : w \in T}
  <2>2. D \subseteq Nat /\ D # {}
    <3> HIDE DEF T
    <3> QED BY <1>2, <2>1, SchemaAssumption
  <2>3. PICK x \in D : \A y \in D : x <= y
    <3> HIDE DEF D
    <3> QED BY <2>2, LeastNumber
  <2>4. PICK u \in T : depth[u] = x
    OBVIOUS
  <2> HIDE DEF T
  <2>5. ASSUME NEW w \in Embedded(u), w \in T PROVE FALSE
    <3>1. w \in TypeNames /\ u \in TypeNames
      BY <1>2, <2>5
    <3>2. depth[w] < depth[u]
      BY <2>1, <2>5, <3>1 DEF Deepens
    <3>3. depth[w] \in Nat /\ depth[u] \in Nat
      BY <2>1, <3>1, SchemaAssumption
    <3>4. x <= depth[w]
      BY <2>3, <2>5
    <3> QED BY <2>4, <3>2, <3>3, <3>4
  <2> QED BY <2>4, <2>5
<1>4. PICK j \in i .. n : u = building[j]
  BY <1>3
<1>5. CASE j = n
  <2>1. t \in T
    <3>1. i \in i .. n
      BY <1>1
    <3> QED BY <3>1
  <2> QED BY <1>3, <1>4, <1>5, <2>1 DEF Current
<1>6. CASE j # n
  <2>1. j \in 1 .. n - 1 /\ j + 1 \in i .. n
    BY <1>1, <1>6
  <2>2. building[j + 1] \in Embedded(u) /\ building[j + 1] \in T
    BY <1>4, <2>1 DEF LayoutInv, Constructed
  <2> QED BY <1>3, <2>2
<1> QED BY <1>5, <1>6

\* The type that is under construction
LEMMA CurrentFacts ==
  ASSUME LayoutInv, building # <<>>
  PROVE  /\ Len(building) \in Nat /\ Len(building) \in 1 .. Len(building)
         /\ Current \in TypeNames /\ Cached(Current) /\ TdoFits(Current) /\ tdos[Current] \in Tdo
         /\ ~tdos[Current].complete /\ Current \notin half
<1>1. Len(building) \in Nat /\ Len(building) \in 1 .. Len(building)
  BY DEF LayoutInv, LayoutTypes
<1>2. Current \in TypeNames
  BY <1>1 DEF Current, LayoutInv, LayoutTypes
<1>3. Cached(Current) /\ ~tdos[Current].complete /\ Current \notin half
  BY <1>1 DEF Current, LayoutInv, Constructed
<1>4. TdoFits(Current)
  BY <1>2, <1>3 DEF LayoutInv
<1> QED BY <1>1, <1>2, <1>3, <1>4 DEF TdoFits

\* A TDO fits as long as the types that it holds do not change.
LEMMA StillFits ==
  ASSUME LayoutInv, NEW t \in TypeNames, Cached(t), tdos'[t] = tdos[t], half \subseteq half',
         \A u \in TypeNames : Cached(u) /\ (tdos[u].complete \/ u \in half) => tdos'[u] = tdos[u]
  PROVE  TdoFits(t)'
<1>1. TdoFits(t)
  BY DEF LayoutInv
<1>2. ASSUME NEW i \in 1 .. Len(tdos[t].attrs) PROVE AttrFits(t, i)'
  <2>1. AttrFits(t, i)
    BY <1>1 DEF TdoFits
  <2> DEFINE a == Schema[t].of[i]
  <2>2. a \in TypeNames => /\ Cached(a) /\ (tdos[a].complete \/ a \in half)
                           /\ tdos'[a] = tdos[a]
    BY <2>1 DEF AttrFits
  <2>3. Layout(a)' = Layout(a)
    BY <2>2 DEF Layout
  <2>4. a \in TypeNames => (Cached(a) /\ (tdos[a].complete \/ a \in half))'
    BY <2>2 DEF Cached
  <2> HIDE DEF a
  <2> QED BY <2>1, <2>3, <2>4 DEF AttrFits, a
<1> QED BY <1>1, <1>2 DEF TdoFits

\* A type is entered in the caches, alone or for the current one.
LEMMA EnterInv ==
  ASSUME LayoutInv, NEW t \in TypeNames, Enter(t),
         building # <<>> => t \in Embedded(Current)
  PROVE  LayoutInv'
<1>1. /\ ~Cached(t) /\ tdos' = [tdos EXCEPT ![t] = EnteredTdo] /\ half' = half
      /\ building' = Append(building, t)
  BY DEF Enter, Cached
<1>2. EnteredTdo \in Tdo /\ EnteredTdo # NotCached
  <2>1. EnteredTdo \in Tdo
    BY AlignmentFacts DEF EnteredTdo, Tdo
  <2> QED BY <2>1, TdoIsCached
<1>3. /\ tdos \in [TypeNames -> Tdo \union {NotCached}] /\ building \in Seq(TypeNames)
      /\ Len(building) \in Nat
  BY DEF LayoutInv, LayoutTypes
<1>4. /\ building' \in Seq(TypeNames) /\ Len(building') = Len(building) + 1
      /\ building'[Len(building) + 1] = t
      /\ \A i \in 1 .. Len(building) : building'[i] = building[i]
  BY <1>1, <1>3, AppendProperties
<1>5. LayoutTypes'
  BY <1>1, <1>2, <1>3, <1>4 DEF LayoutInv, LayoutTypes
<1>6. /\ tdos'[t] = EnteredTdo /\ \A u \in TypeNames \ {t} : tdos'[u] = tdos[u]
      /\ \A u \in TypeNames : Cached(u) => u # t /\ tdos'[u] = tdos[u] /\ Cached(u)'
      /\ Cached(t)'
  BY <1>1, <1>2, <1>3 DEF Cached
<1>7. ASSUME NEW u \in TypeNames, Cached(u)' PROVE TdoFits(u)'
  <2>1. CASE u = t
    <3>1. /\ Len(tdos'[u].attrs) = 0 /\ tdos'[u].val = NoSize /\ tdos'[u].complete = FALSE
      BY <1>6, <2>1 DEF EnteredTdo
    <3>2. tdos'[u] \in Tdo
      BY <1>2, <1>6, <2>1
    <3> QED BY <3>1, <3>2, SchemaFacts DEF TdoFits
  <2>2. CASE u # t
    <3>1. Cached(u) /\ tdos'[u] = tdos[u]
      BY <1>6, <1>7, <2>2 DEF Cached
    <3> QED BY <1>1, <1>6, <3>1, StillFits
  <2> QED BY <2>1, <2>2
<1>8. t \notin half /\ \A i \in 1 .. Len(building) : building[i] # t
  BY <1>1 DEF LayoutInv, Accounted, Constructed
<1>n. \A i \in 1 .. Len(building') : i \in 1 .. Len(building) \/ i = Len(building) + 1
  BY <1>3, <1>4
<1>9. Constructed'
  <2>1. ASSUME NEW i \in 1 .. Len(building')
        PROVE  (Cached(building[i]) /\ ~tdos[building[i]].complete /\ building[i] \notin half)'
    <3>1. CASE i \in 1 .. Len(building)
      <4>1. /\ building'[i] = building[i] /\ building[i] \in TypeNames
            /\ Cached(building[i]) /\ ~tdos[building[i]].complete /\ building[i] \notin half
        BY <1>3, <1>4, <3>1 DEF LayoutInv, Constructed
      <4> QED BY <1>1, <1>6, <4>1 DEF Cached
    <3>2. CASE i = Len(building) + 1
      BY <1>1, <1>4, <1>6, <1>8, <3>2 DEF EnteredTdo, Cached
    <3> QED BY <1>n, <3>1, <3>2
  <2>2. ASSUME NEW i \in 1 .. Len(building'), NEW j \in 1 .. Len(building'),
               building'[i] = building'[j]
        PROVE  i = j
    BY <1>4, <1>8, <1>n, <2>2 DEF LayoutInv, Constructed
  <2>3. ASSUME NEW i \in 1 .. Len(building') - 1
        PROVE  building'[i + 1] \in Embedded(building'[i])
    <3>1. CASE i \in 1 .. Len(building) - 1
      <4>1. i \in 1 .. Len(building) /\ i + 1 \in 1 .. Len(building)
        BY <1>3, <3>1
      <4> QED BY <1>4, <3>1, <4>1 DEF LayoutInv, Constructed
    <3>2. CASE i = Len(building)
      <4>1. i \in 1 .. Len(building) /\ building # <<>>
        BY <1>3, <1>4, <3>2
      <4> QED BY <1>4, <3>2, <4>1 DEF Current
    <3> QED BY <1>3, <1>4, <3>1, <3>2
  <2>4. \A u : Embedded(u)' = Embedded(u)
    BY DEF Embedded
  <2> QED BY <2>1, <2>2, <2>3, <2>4 DEF Constructed
<1>10. Accounted'
  <2>1. \A u \in half' : Cached(u)'
    BY <1>1, <1>6 DEF LayoutInv, LayoutTypes, Accounted
  <2>2. ASSUME NEW u \in TypeNames, Cached(u)'
        PROVE  \/ tdos'[u].complete \/ u \in half'
               \/ \E i \in 1 .. Len(building') : building'[i] = u
    <3>1. CASE u = t
      <4>1. Len(building) + 1 \in 1 .. Len(building')
        BY <1>3, <1>4
      <4> QED BY <1>4, <3>1, <4>1
    <3>2. CASE u # t
      <4>1. Cached(u) /\ tdos'[u] = tdos[u]
        BY <1>6, <2>2, <3>2 DEF Cached
      <4>2. \A i \in 1 .. Len(building) : i \in 1 .. Len(building')
        BY <1>3, <1>4
      <4> QED BY <1>1, <1>4, <4>1, <4>2 DEF LayoutInv, Accounted
    <3> QED BY <3>1, <3>2
  <2> QED BY <2>1, <2>2 DEF Accounted
<1> QED BY <1>5, <1>7, <1>9, <1>10 DEF LayoutInv

\* The current TDO gets sizes or an attribute.
LEMMA ChangeInv ==
  ASSUME LayoutInv, building # <<>>, NEW d \in Tdo, ~d.complete,
         tdos' = [tdos EXCEPT ![Current] = d], UNCHANGED <<building, half>>,
         TdoFits(Current)'
  PROVE  LayoutInv'
<1>1. /\ Current \in TypeNames /\ Cached(Current) /\ ~tdos[Current].complete /\ Current \notin half
      /\ tdos \in [TypeNames -> Tdo \union {NotCached}]
  BY CurrentFacts DEF LayoutInv, LayoutTypes
<1> DEFINE c == Current
<1>2. tdos'[c] = d /\ \A u \in TypeNames \ {c} : tdos'[u] = tdos[u]
  BY <1>1
<1>c. Current' = Current
  BY DEF Current
<1> HIDE DEF c
<1>3. \A u \in TypeNames : Cached(u)' <=> Cached(u)
  BY <1>1, <1>2, TdoIsCached DEF Cached, c
<1>4. LayoutTypes'
  BY <1>1 DEF LayoutInv, LayoutTypes
<1>5. ASSUME NEW u \in TypeNames, Cached(u)' PROVE TdoFits(u)'
  <2>1. CASE u = c
    BY <1>c, <2>1 DEF c
  <2>2. CASE u # c
    <3>1. Cached(u) /\ tdos'[u] = tdos[u]
      BY <1>2, <1>3, <1>5, <2>2
    <3>2. \A v \in TypeNames : Cached(v) /\ (tdos[v].complete \/ v \in half) => tdos'[v] = tdos[v]
      BY <1>1, <1>2 DEF c
    <3> QED BY <3>1, <3>2, StillFits
  <2> QED BY <2>1, <2>2
<1>6. Constructed'
  <2>1. ASSUME NEW i \in 1 .. Len(building)
        PROVE  Cached(building[i])' /\ ~tdos'[building[i]].complete
    <3>1. building[i] \in TypeNames /\ Cached(building[i]) /\ ~tdos[building[i]].complete
      BY DEF LayoutInv, LayoutTypes, Constructed
    <3> QED BY <1>2, <1>3, <3>1
  <2>2. \A u : Embedded(u)' = Embedded(u)
    BY DEF Embedded
  <2> QED BY <2>1, <2>2 DEF LayoutInv, Constructed, Cached
<1>7. Accounted'
  <2>1. ASSUME NEW u \in TypeNames, Cached(u)'
        PROVE  \/ tdos'[u].complete \/ u \in half
               \/ \E i \in 1 .. Len(building) : building[i] = u
    <3>1. CASE u = c
      BY <3>1, CurrentFacts DEF Current, c
    <3>2. CASE u # c
      BY <1>2, <1>3, <2>1, <3>2 DEF LayoutInv, Accounted
    <3> QED BY <3>1, <3>2
  <2> QED BY <1>3, <2>1 DEF LayoutInv, LayoutTypes, Accounted
<1> QED BY <1>4, <1>5, <1>6, <1>7 DEF LayoutInv

\* The sizes to start with fit.
LEMMA BeginInv == ASSUME LayoutInv, Begin PROVE LayoutInv'
<1>1. building # <<>> /\ tdos[Current].val = NoSize /\ UNCHANGED <<building, half>>
      /\ tdos' = [tdos EXCEPT ![Current] = Sized(Current)]
  BY DEF Begin
<1>2. Current \in TypeNames /\ tdos \in [TypeNames -> Tdo \union {NotCached}]
  BY <1>1, CurrentFacts DEF LayoutInv, LayoutTypes
<1>3. /\ Sized(Current) \in Tdo /\ Sized(Current).complete = FALSE
      /\ Len(Sized(Current).attrs) = 0 /\ Sized(Current).ind = 2
      /\ Sized(Current).val \in Nat
  <2>1. /\ PointerSize \in Nat \ {0} /\ 1 \in Alignments /\ PointerSize \in Alignments
        /\ <<>> \in Seq(Attr) /\ Len(<<>>) = 0 /\ NoSize \in {NoSize}
    BY AlignmentFacts, ScalarsAssumption
  <2>2. CASE Schema[Current].collection
    <3>1. Sized(Current) = [val |-> PointerSize, ind |-> 2, alignment |-> PointerSize,
                            attrs |-> <<>>, complete |-> FALSE]
      BY <2>2 DEF Sized, EnteredTdo
    <3> QED BY <2>1, <3>1 DEF Tdo
  <2>3. CASE ~Schema[Current].collection
    <3>1. Sized(Current) = [val |-> 0, ind |-> 2, alignment |-> 1, attrs |-> <<>>, complete |-> FALSE]
      BY <2>3 DEF Sized, EnteredTdo
    <3> QED BY <2>1, <3>1 DEF Tdo
  <2> QED BY <2>2, <2>3
<1>4. Current' = Current /\ tdos'[Current] = Sized(Current)
  BY <1>1, <1>2 DEF Current
<1>5. TdoFits(Current)'
  <2>1. Len(Schema[Current].of) \in Nat /\ Sized(Current).val # NoSize
    BY <1>2, <1>3, SchemaFacts DEF NoSize
  <2> QED BY <1>3, <1>4, <2>1 DEF TdoFits
<1> QED BY <1>1, <1>3, <1>5, ChangeInv

\* What lies behind an attribute is not behind what comes after it.
LEMMA NotBehind ==
  ASSUME NEW p \in Nat, NEW q \in Nat, NEW r \in Nat, p <= q, q <= r PROVE p <= r
  OBVIOUS

\* Sums of sizes
LEMMA SumIsNatural == \A p, q \in Nat : p + q \in Nat
  OBVIOUS

\* An attribute stays where it is in a TDO that grows.
LEMMA StaysPlaced ==
  ASSUME NEW old \in Tdo, NEW d \in Tdo, NEW i \in 1 .. Len(old.attrs), Placed(old, i),
         old.val \in Nat, old.ind \in Nat, d.val \in Nat, d.ind \in Nat,
         old.val <= d.val, old.ind <= d.ind, old.alignment <= d.alignment,
         \A j \in 1 .. Len(old.attrs) : d.attrs[j] = old.attrs[j]
  PROVE  Placed(d, i)
<1>1. /\ old.attrs[i] \in Attr /\ d.attrs[i] = old.attrs[i]
      /\ i > 1 => d.attrs[i - 1] = old.attrs[i - 1]
  <2>1. Len(old.attrs) \in Nat /\ old.attrs \in Seq(Attr)
    BY DEF Tdo
  <2>2. i > 1 => i - 1 \in 1 .. Len(old.attrs)
    BY <2>1
  <2>3. old.attrs[i] \in Attr
    BY <2>1
  <2>4. d.attrs[i] = old.attrs[i] /\ (i > 1 => d.attrs[i - 1] = old.attrs[i - 1])
    BY <2>2
  <2> QED BY <2>3, <2>4
<1>2. /\ old.attrs[i].val + old.attrs[i].size \in Nat
      /\ old.attrs[i].ind + old.attrs[i].indSize \in Nat
      /\ old.attrs[i].alignment \in Nat /\ old.alignment \in Nat /\ d.alignment \in Nat
  <2>1. /\ old.attrs[i].val \in Nat /\ old.attrs[i].size \in Nat /\ old.attrs[i].ind \in Nat
        /\ old.attrs[i].indSize \in Nat
    BY <1>1 DEF Attr
  <2>a. old.attrs[i].alignment \in Alignments
    BY <1>1 DEF Attr
  <2>2. old.alignment \in Alignments /\ d.alignment \in Alignments
    BY DEF Tdo
  <2>3. /\ old.attrs[i].val + old.attrs[i].size \in Nat
        /\ old.attrs[i].ind + old.attrs[i].indSize \in Nat
    BY <2>1, SumIsNatural
  <2> QED BY <2>a, <2>2, <2>3, AlignmentFacts
<1>3. /\ old.attrs[i].val + old.attrs[i].size <= d.val
      /\ old.attrs[i].ind + old.attrs[i].indSize <= d.ind
      /\ old.attrs[i].alignment <= d.alignment
  BY <1>2, NotBehind DEF Placed
<1> QED BY <1>1, <1>3 DEF Placed

\* What check_metadata answers for an attribute that AddAttribute accepts
LEMMA LayoutFacts ==
  ASSUME LayoutInv, NEW a \in TypeNames \union DOMAIN Scalars,
         a \in TypeNames => Cached(a) /\ tdos[a].val # NoSize
  PROVE  /\ Layout(a).size \in Nat /\ Layout(a).ind \in Nat /\ Layout(a).alignment \in Alignments
<1>1. CASE a \in TypeNames
  <2>1. tdos[a] \in Tdo /\ tdos[a].ind \in Nat /\ tdos[a].val # NoSize
    BY <1>1 DEF LayoutInv, TdoFits
  <2>2. tdos[a].val \in Nat /\ tdos[a].alignment \in Alignments
    BY <2>1 DEF Tdo
  <2> QED BY <1>1, <2>1, <2>2 DEF Layout
<1>2. CASE a \notin TypeNames
  BY <1>2, AlignmentFacts, ScalarsAssumption DEF Layout
<1> QED BY <1>1, <1>2

\* initialize_named_type and initialize_named_collection: one attribute more
LEMMA AddInv == ASSUME LayoutInv, AddAttribute PROVE LayoutInv'
<1> SUFFICES ASSUME NEW c, c = Current, NEW a, a = NextAttribute, NEW old, old = tdos[c],
                    NEW n, n = Len(old.attrs)
             PROVE  LayoutInv'
  OBVIOUS
<1> DEFINE attr == AttrAt(IF Schema[c].collection THEN [old EXCEPT !.val = 0, !.ind = 0] ELSE old, a)
           d == WithAttr(old, a, Schema[c].collection)
<1>1. /\ building # <<>> /\ old.val # NoSize /\ Pending /\ a # Unsupported
      /\ a \in TypeNames => tdos[a] # NotCached /\ tdos[a].val # NoSize
      /\ tdos' = [tdos EXCEPT ![Current] = d] /\ UNCHANGED <<building, half>>
  BY DEF AddAttribute
<1>2. /\ c \in TypeNames /\ TdoFits(c) /\ old \in Tdo /\ ~old.complete /\ c \notin half
      /\ tdos \in [TypeNames -> Tdo \union {NotCached}]
  BY <1>1, CurrentFacts DEF LayoutInv, LayoutTypes
<1>3. /\ Schema[c].collection \in BOOLEAN /\ Len(Schema[c].of) \in Nat
      /\ n \in Nat /\ n + 1 \in 1 .. Len(Schema[c].of) /\ a = Schema[c].of[n + 1]
      /\ a \in TypeNames \union DOMAIN Scalars
      /\ a \in TypeNames => a \in Embedded(c)
      /\ Schema[c].collection => n = 0 /\ Len(Schema[c].of) = 1
  <2>1. n \in Nat
    BY <1>2 DEF Tdo
  <2>2. n < Len(Schema[c].of) /\ a = Schema[c].of[n + 1]
    BY <1>1 DEF Pending, NextAttribute
  <2>3. Len(Schema[c].of) \in Nat
    BY <1>2, SchemaFacts
  <2>4. n + 1 \in 1 .. Len(Schema[c].of)
    BY <2>1, <2>2, <2>3
  <2> QED BY <1>1, <1>2, <2>1, <2>2, <2>4, SchemaFacts
<1>4. /\ Layout(a).size \in Nat /\ Layout(a).ind \in Nat /\ Layout(a).alignment \in Alignments
  BY <1>1, <1>3, LayoutFacts DEF Cached
<1>5. a \in TypeNames => a # c /\ Cached(a) /\ (tdos[a].complete \/ a \in half)
  <2>1. ASSUME a \in TypeNames PROVE \A i \in 1 .. Len(building) : building[i] # a
    BY <1>1, <1>3, <2>1, NotUnderConstruction
  <2>2. Len(building) \in 1 .. Len(building)
    BY <1>1, CurrentFacts
  <2> QED BY <1>1, <2>1, <2>2 DEF LayoutInv, Accounted, Cached, Current
<1>6. /\ old.val \in Nat /\ old.ind \in Nat /\ old.ind >= 2 /\ old.alignment \in Alignments
      /\ old.attrs \in Seq(Attr) /\ old.complete = FALSE
  BY <1>1, <1>2 DEF Tdo, TdoFits
<1> DEFINE base == IF Schema[c].collection THEN 0 ELSE old.val
           ind == IF Schema[c].collection THEN 0 ELSE old.ind
<1>7. attr = [val |-> RoundUp(base, Layout(a).alignment), ind |-> ind, size |-> Layout(a).size,
              indSize |-> Layout(a).ind, alignment |-> Layout(a).alignment]
  BY <1>2, <1>3 DEF AttrAt, Tdo
<1>8. /\ attr.val \in Nat /\ base <= attr.val /\ attr.val % attr.alignment = 0
      /\ attr \in Attr /\ attr.ind = ind /\ attr.size = Layout(a).size
      /\ attr.indSize = Layout(a).ind /\ attr.alignment = Layout(a).alignment
  <2>1. base \in Nat /\ ind \in Nat
    BY <1>6
  <2>2. Layout(a).alignment \in Nat \ {0}
    BY <1>4, AlignmentFacts
  <2>3. /\ RoundUp(base, Layout(a).alignment) \in Nat /\ base <= RoundUp(base, Layout(a).alignment)
        /\ RoundUp(base, Layout(a).alignment) % Layout(a).alignment = 0
    <3> HIDE DEF base
    <3> QED BY <2>1, <2>2, RoundedUp DEF RoundUp
  <2> HIDE DEF attr, base, ind
  <2> QED BY <1>4, <1>7, <2>1, <2>3 DEF Attr
<1>9. d = IF Schema[c].collection THEN [old EXCEPT !.attrs = <<attr>>]
          ELSE [old EXCEPT !.attrs = Append(@, attr), !.val = attr.val + attr.size,
                           !.ind = attr.ind + attr.indSize,
                           !.alignment = IF @ < attr.alignment THEN attr.alignment ELSE @]
  BY Zenon DEF WithAttr
<1> HIDE DEF d, attr
<1>10. /\ d.attrs \in Seq(Attr) /\ Len(d.attrs) = n + 1 /\ d.attrs[n + 1] = attr
       /\ \A i \in 1 .. n : d.attrs[i] = old.attrs[i]
       /\ d.complete = FALSE
  <2>1. CASE Schema[c].collection
    <3>1. d.attrs = <<attr>> /\ d.complete = FALSE
      BY <1>2, <1>6, <1>9, <2>1 DEF Tdo
    <3>2. n = 0
      BY <1>3, <2>1
    <3> QED BY <1>8, <3>1, <3>2
  <2>2. CASE ~Schema[c].collection
    <3>1. d.attrs = Append(old.attrs, attr) /\ d.complete = FALSE
      BY <1>2, <1>6, <1>9, <2>2 DEF Tdo
    <3> QED BY <1>6, <1>8, <3>1, AppendProperties
  <2> QED BY <1>3, <2>1, <2>2
<1>11. /\ d.val \in Nat /\ d.ind \in Nat /\ d.ind >= 2 /\ d.alignment \in Alignments
       /\ ~Schema[c].collection =>
            /\ d.val = attr.val + attr.size /\ d.ind = attr.ind + attr.indSize
            /\ d.alignment >= old.alignment /\ d.alignment >= attr.alignment
            /\ d.val >= old.val /\ d.ind >= old.ind
  <2>1. CASE Schema[c].collection
    <3>1. d.val = old.val /\ d.ind = old.ind /\ d.alignment = old.alignment
      BY <1>2, <1>9, <2>1 DEF Tdo
    <3> QED BY <1>6, <2>1, <3>1
  <2>2. CASE ~Schema[c].collection
    <3>1. /\ d.val = attr.val + attr.size /\ d.ind = attr.ind + attr.indSize
          /\ d.alignment = IF old.alignment < attr.alignment THEN attr.alignment ELSE old.alignment
      BY <1>2, <1>9, <2>2 DEF Tdo
    <3>2. old.alignment \in Nat /\ attr.alignment \in Nat /\ attr.alignment \in Alignments
      BY <1>4, <1>6, <1>8, AlignmentFacts
    <3>3. attr.size \in Nat /\ attr.indSize \in Nat /\ attr.ind = old.ind /\ old.val <= attr.val
      BY <1>4, <1>8, <2>2
    <3>4. d.alignment \in Alignments /\ d.alignment >= old.alignment /\ d.alignment >= attr.alignment
      BY <1>6, <3>1, <3>2
    <3>5. d.val \in Nat /\ d.ind \in Nat /\ d.ind >= old.ind /\ d.ind >= 2
      BY <1>6, <1>8, <3>1, <3>3
    <3>6. attr.val \in Nat /\ d.val >= attr.val
      BY <1>8, <3>1, <3>3
    <3>7. d.val >= old.val
      BY <1>6, <3>3, <3>5, <3>6, NotBehind
    <3> QED BY <2>2, <3>1, <3>4, <3>5, <3>7
  <2> QED BY <1>3, <2>1, <2>2
<1>12. d \in Tdo
  <2>1. d = [val |-> d.val, ind |-> d.ind, alignment |-> d.alignment, attrs |-> d.attrs,
             complete |-> d.complete]
    <3>1. CASE Schema[c].collection
      BY <1>2, <1>9, <3>1 DEF Tdo
    <3>2. CASE ~Schema[c].collection
      BY <1>2, <1>9, <3>2 DEF Tdo
    <3> QED BY <1>3, <3>1, <3>2
  <2> QED BY <1>10, <1>11, <2>1 DEF Tdo
<1>13. /\ Current' = c /\ tdos'[c] = d /\ \A u \in TypeNames \ {c} : tdos'[u] = tdos[u]
  BY <1>1, <1>2 DEF Current
<1>14. ASSUME NEW u \in TypeNames, Cached(u), tdos[u].complete \/ u \in half
       PROVE  u # c /\ tdos'[u] = tdos[u]
  BY <1>2, <1>13, <1>14
<1>15. ASSUME NEW i \in 1 .. n PROVE AttrFits(c, i)'
  <2>1. AttrFits(c, i)
    BY <1>2 DEF TdoFits
  <2> DEFINE b == Schema[c].of[i]
  <2>2. b \in TypeNames => Cached(b) /\ (tdos[b].complete \/ b \in half) /\ tdos'[b] = tdos[b]
    BY <1>14, <2>1 DEF AttrFits
  <2>3. Layout(b)' = Layout(b)
    BY <2>2 DEF Layout
  <2>4. d.attrs[i] = old.attrs[i]
    BY <1>10
  <2>5. Schema[c].collection \/ Placed(d, i)
    <3> SUFFICES ASSUME ~Schema[c].collection PROVE Placed(d, i)
      OBVIOUS
    <3>1. Placed(old, i)
      BY <2>1 DEF AttrFits
    <3>2. old.val <= d.val /\ old.ind <= d.ind /\ old.alignment <= d.alignment
      BY <1>6, <1>11, AlignmentFacts
    <3> QED BY <1>2, <1>6, <1>10, <1>11, <1>12, <3>1, <3>2, StaysPlaced
  <2> HIDE DEF b
  <2>6. b \in TypeNames => (Cached(b) /\ (tdos[b].complete \/ b \in half))'
    BY <1>1, <2>2 DEF Cached
  <2>7. d.attrs[i].val % d.attrs[i].alignment = 0 /\ d.attrs[i].size = Layout(b).size
    BY <2>1, <2>4 DEF AttrFits, b
  <2> QED BY <1>13, <2>3, <2>5, <2>6, <2>7 DEF AttrFits, b
<1>16. AttrFits(c, n + 1)'
  <2>1. Layout(a)' = Layout(a)
    BY <1>5, <1>13 DEF Layout
  <2>2. a \in TypeNames => (Cached(a) /\ (tdos[a].complete \/ a \in half))'
    BY <1>1, <1>5, <1>13 DEF Cached
  <2>3. Schema[c].collection \/ Placed(d, n + 1)
    <3> SUFFICES ASSUME ~Schema[c].collection PROVE Placed(d, n + 1)
      OBVIOUS
    <3>1. /\ attr.val \in Nat /\ attr.ind = old.ind /\ attr.size \in Nat /\ attr.indSize \in Nat
          /\ old.val <= attr.val
      BY <1>4, <1>8
    <3>2. /\ attr.alignment <= d.alignment /\ attr.ind >= 2
          /\ attr.val + attr.size <= d.val /\ attr.ind + attr.indSize <= d.ind
      BY <1>4, <1>6, <1>8, <1>11, <3>1, AlignmentFacts
    <3>3. ASSUME n + 1 > 1
          PROVE  /\ d.attrs[n].val + d.attrs[n].size <= attr.val
                 /\ d.attrs[n].ind + d.attrs[n].indSize <= attr.ind
      <4>1. n \in 1 .. n
        BY <1>3, <3>3
      <4>2. d.attrs[n] = old.attrs[n] /\ AttrFits(c, n) /\ old.attrs[n] \in Attr
        BY <1>2, <1>6, <1>10, <4>1 DEF TdoFits
      <4>3. /\ old.attrs[n].val + old.attrs[n].size <= old.val
            /\ old.attrs[n].ind + old.attrs[n].indSize <= old.ind
        BY <4>2 DEF AttrFits, Placed
      <4>4. old.attrs[n].val + old.attrs[n].size \in Nat
        BY <4>2 DEF Attr
      <4>5. old.attrs[n].val + old.attrs[n].size <= attr.val
        BY <1>6, <3>1, <4>3, <4>4, NotBehind
      <4> QED BY <3>1, <4>2, <4>3, <4>5
    <3>4. (n + 1) - 1 = n
      BY <1>3
    <3> QED BY <1>10, <3>2, <3>3, <3>4 DEF Placed
  <2> QED BY <1>3, <1>8, <1>10, <1>13, <2>1, <2>2, <2>3 DEF AttrFits
<1>17. TdoFits(c)'
  <2>1. \A i \in 1 .. n + 1 : i \in 1 .. n \/ i = n + 1
    BY <1>3
  <2>2. \A i \in 1 .. n + 1 : AttrFits(c, i)'
    BY <1>15, <1>16, <2>1
  <2>3. n + 1 <= Len(Schema[c].of) /\ d.val # NoSize
    BY <1>3, <1>11 DEF NoSize
  <2> QED BY <1>10, <1>11, <1>12, <1>13, <2>2, <2>3 DEF TdoFits
<1> QED BY <1>1, <1>10, <1>12, <1>13, <1>17, ChangeInv

\* The current TDO is complete, and its construction over.
LEMMA CompleteInv == ASSUME LayoutInv, CompleteTdo PROVE LayoutInv'
<1> SUFFICES ASSUME NEW c, c = Current, NEW old, old = tdos[c], NEW n, n = Len(building)
             PROVE  LayoutInv'
  OBVIOUS
<1> DEFINE d == [val |-> RoundUp(old.val, old.alignment), ind |-> old.ind,
                 alignment |-> old.alignment, attrs |-> old.attrs, complete |-> TRUE]
<1>1. /\ building # <<>> /\ old.val # NoSize /\ ~Pending /\ half' = half
      /\ tdos' = [tdos EXCEPT ![c].val = RoundUp(@, old.alignment), ![c].complete = TRUE]
      /\ building' = SubSeq(building, 1, n - 1)
  BY DEF CompleteTdo
<1>2. /\ c \in TypeNames /\ TdoFits(c) /\ old \in Tdo /\ ~old.complete /\ c \notin half /\ Cached(c)
      /\ n \in Nat /\ n > 0 /\ c = building[n] /\ building \in Seq(TypeNames)
      /\ tdos \in [TypeNames -> Tdo \union {NotCached}]
  BY <1>1, CurrentFacts DEF LayoutInv, LayoutTypes, Current
<1>3. tdos'[c] = d /\ \A u \in TypeNames \ {c} : tdos'[u] = tdos[u]
  <2> DEFINE rounded == [old EXCEPT !.val = RoundUp(@, old.alignment)]
  <2>1. /\ tdos'[c] = [rounded EXCEPT !.complete = TRUE]
        /\ \A u \in TypeNames \ {c} : tdos'[u] = tdos[u]
    BY <1>1, <1>2
  <2>2. rounded = [val |-> RoundUp(old.val, old.alignment), ind |-> old.ind,
                   alignment |-> old.alignment, attrs |-> old.attrs, complete |-> old.complete]
    BY <1>2 DEF Tdo
  <2> HIDE DEF rounded
  <2> QED BY <2>1, <2>2
<1>4. /\ old.val \in Nat /\ old.ind \in Nat /\ old.ind >= 2 /\ old.alignment \in Alignments
      /\ old.attrs \in Seq(Attr) /\ Len(old.attrs) \in Nat
  BY <1>1, <1>2 DEF Tdo, TdoFits
<1>5. /\ RoundUp(old.val, old.alignment) \in Nat
      /\ old.val <= RoundUp(old.val, old.alignment)
      /\ RoundUp(old.val, old.alignment) % old.alignment = 0
  <2>1. old.alignment \in Nat \ {0}
    BY <1>4, AlignmentFacts
  <2> QED BY <1>4, <2>1, RoundedUp DEF RoundUp
<1>6. /\ d.val \in Nat /\ d.val # NoSize /\ old.val <= d.val /\ d.val % d.alignment = 0
      /\ d.ind = old.ind /\ d.alignment = old.alignment /\ d.attrs = old.attrs
      /\ d.complete = TRUE
  BY <1>5 DEF NoSize
<1>7. d \in Tdo
  BY <1>4, <1>5 DEF Tdo
<1> HIDE DEF d
<1>8. \A u \in TypeNames : Cached(u)' <=> Cached(u)
  BY <1>2, <1>3, <1>7, TdoIsCached DEF Cached
<1>9. \A u \in TypeNames : Cached(u) /\ (tdos[u].complete \/ u \in half) =>
                             tdos'[u] = tdos[u] /\ u # c
  BY <1>2, <1>3
<1>10. /\ building' \in Seq(TypeNames) /\ Len(building') = n - 1
       /\ \A i \in 1 .. n - 1 : i \in 1 .. n /\ building'[i] = building[i] /\ building[i] # c
  <2>1. building' \in Seq(TypeNames) /\ Len(building') = n - 1
    BY <1>1, <1>2
  <2>2. \A i \in 1 .. n - 1 : building'[i] = building[i]
    BY <1>1, <1>2
  <2>3. \A i \in 1 .. n - 1 : i \in 1 .. n /\ building[i] # c
    BY <1>2 DEF LayoutInv, Constructed
  <2> QED BY <2>1, <2>2, <2>3
<1>11. LayoutTypes'
  <2>1. tdos' \in [TypeNames -> Tdo \union {NotCached}]
    BY <1>1, <1>2, <1>3, <1>7
  <2> QED BY <1>1, <1>10, <2>1 DEF LayoutInv, LayoutTypes
<1>12. ASSUME NEW i \in 1 .. Len(old.attrs) PROVE AttrFits(c, i)'
  <2>1. AttrFits(c, i)
    BY <1>2 DEF TdoFits
  <2> DEFINE b == Schema[c].of[i]
  <2>2. b \in TypeNames => Cached(b) /\ (tdos[b].complete \/ b \in half) /\ tdos'[b] = tdos[b]
    BY <1>9, <2>1 DEF AttrFits
  <2>3. Layout(b)' = Layout(b)
    BY <2>2 DEF Layout
  <2>4. Schema[c].collection \/ Placed(d, i)
    <3> SUFFICES ASSUME ~Schema[c].collection PROVE Placed(d, i)
      OBVIOUS
    <3>1. Placed(old, i)
      BY <2>1 DEF AttrFits
    <3>2. old.ind <= d.ind /\ old.alignment <= d.alignment
      BY <1>4, <1>6, AlignmentFacts
    <3> QED BY <1>2, <1>4, <1>6, <1>7, <3>1, <3>2, StaysPlaced
  <2> HIDE DEF b
  <2>5. b \in TypeNames => (Cached(b) /\ (tdos[b].complete \/ b \in half))'
    BY <1>1, <2>2 DEF Cached
  <2>6. d.attrs[i].val % d.attrs[i].alignment = 0 /\ d.attrs[i].size = Layout(b).size
    BY <1>6, <2>1 DEF AttrFits, b
  <2> QED BY <1>3, <2>3, <2>4, <2>5, <2>6 DEF AttrFits, b
<1>13. TdoFits(c)'
  <2>1. Len(old.attrs) = Len(Schema[c].of)
    <3>1. Len(Schema[c].of) \in Nat /\ Len(old.attrs) <= Len(Schema[c].of)
      BY <1>2, SchemaFacts DEF TdoFits
    <3>2. ~(Len(old.attrs) < Len(Schema[c].of))
      BY <1>1 DEF Pending
    <3> QED BY <1>4, <3>1, <3>2
  <2> QED BY <1>3, <1>4, <1>6, <1>7, <1>12, <2>1 DEF TdoFits
<1>14. ASSUME NEW u \in TypeNames, Cached(u)' PROVE TdoFits(u)'
  <2>1. CASE u = c
    BY <1>13, <2>1
  <2>2. CASE u # c
    <3>1. Cached(u) /\ tdos'[u] = tdos[u]
      BY <1>3, <1>8, <1>14, <2>2
    <3> QED BY <1>1, <1>9, <3>1, StillFits
  <2> QED BY <2>1, <2>2
<1>15. Constructed'
  <2>1. ASSUME NEW i \in 1 .. n - 1
        PROVE  /\ tdos'[building'[i]] # NotCached /\ ~tdos'[building'[i]].complete
               /\ building'[i] \notin half'
    <3>1. PICK u \in TypeNames : u = building[i]
      BY <1>2, <1>10
    <3>2. building'[i] = u /\ u # c /\ Cached(u) /\ ~tdos[u].complete /\ u \notin half
      BY <1>2, <1>10, <3>1 DEF LayoutInv, Constructed
    <3> QED BY <1>1, <1>3, <3>1, <3>2 DEF Cached
  <2>2. \A i, j \in 1 .. n - 1 : building'[i] = building'[j] => i = j
    BY <1>2, <1>10 DEF LayoutInv, Constructed
  <2>3. ASSUME NEW i \in 1 .. (n - 1) - 1
        PROVE  building'[i + 1] \in Embedded(building'[i])
    <3>1. i \in 1 .. n - 1 /\ i + 1 \in 1 .. n - 1
      BY <1>2
    <3> QED BY <1>2, <1>10, <3>1 DEF LayoutInv, Constructed
  <2>4. \A u : Embedded(u)' = Embedded(u)
    BY DEF Embedded
  <2> QED BY <1>10, <2>1, <2>2, <2>3, <2>4 DEF Constructed, Cached
<1>16. Accounted'
  <2>1. ASSUME NEW u \in TypeNames, Cached(u)'
        PROVE  \/ tdos'[u].complete \/ u \in half'
               \/ \E i \in 1 .. Len(building') : building'[i] = u
    <3>1. CASE u = c
      BY <1>3, <1>6, <3>1
    <3>2. CASE u # c
      <4>1. /\ tdos'[u] = tdos[u]
            /\ tdos[u].complete \/ u \in half \/ \E i \in 1 .. n : building[i] = u
        BY <1>3, <1>8, <2>1, <3>2 DEF LayoutInv, Accounted
      <4>2. ASSUME NEW i \in 1 .. n, building[i] = u PROVE i \in 1 .. n - 1
        BY <1>2, <3>2, <4>2
      <4> QED BY <1>1, <1>10, <4>1, <4>2
    <3> QED BY <3>1, <3>2
  <2>2. \A u \in half' : Cached(u)'
    BY <1>1, <1>8 DEF LayoutInv, LayoutTypes, Accounted
  <2> QED BY <2>1, <2>2 DEF Accounted
<1> QED BY <1>11, <1>14, <1>15, <1>16 DEF LayoutInv

\* An exception: what was under construction stays half built.
LEMMA RaiseInv == ASSUME LayoutInv, BuildRaises PROVE LayoutInv'
<1>1. /\ half' = half \union {building[i] : i \in 1 .. Len(building)}
      /\ building' = <<>> /\ tdos' = tdos
      /\ building \in Seq(TypeNames) /\ Len(building) \in Nat
  BY DEF BuildRaises, LayoutInv, LayoutTypes
<1>2. \A u : Cached(u)' <=> Cached(u)
  BY <1>1 DEF Cached
<1>3. \A i \in 1 .. Len(building) : building[i] \in TypeNames
  BY <1>1
<1>4. LayoutTypes'
  BY <1>1, <1>3 DEF LayoutInv, LayoutTypes
<1>5. ASSUME NEW u \in TypeNames, Cached(u)' PROVE TdoFits(u)'
  BY <1>1, <1>2, <1>5, StillFits
<1>6. Constructed'
  BY <1>1 DEF Constructed
<1>7. Accounted'
  BY <1>1, <1>2 DEF LayoutInv, Accounted, Constructed
<1> QED BY <1>4, <1>5, <1>6, <1>7 DEF LayoutInv

\* Every step keeps the invariant.
LEMMA LayoutStep == LayoutInv /\ [LayoutNext]_layoutVars => LayoutInv'
<1> SUFFICES ASSUME LayoutInv, [LayoutNext]_layoutVars PROVE LayoutInv'
  OBVIOUS
<1>1. ASSUME NEW t \in TypeNames, GetTdo(t) PROVE LayoutInv'
  BY <1>1, EnterInv DEF GetTdo
<1>2. CASE GetNestedTdo
  <2>1. Current \in TypeNames /\ Len(tdos[Current].attrs) \in Nat
    BY <1>2, CurrentFacts DEF GetNestedTdo, Tdo
  <2>2. NextAttribute \in Embedded(Current)
    <3>1. Len(Schema[Current].of) \in Nat
      BY <2>1, SchemaFacts
    <3>2. Len(tdos[Current].attrs) + 1 \in 1 .. Len(Schema[Current].of)
      BY <1>2, <2>1, <3>1 DEF GetNestedTdo, Pending
    <3> QED BY <1>2, <2>1, <3>2, SchemaFacts DEF GetNestedTdo, NextAttribute
  <2> QED BY <1>2, <2>2, EnterInv DEF GetNestedTdo
<1>3. CASE UNCHANGED layoutVars
  <2>1. tdos' = tdos /\ building' = building /\ half' = half
    BY <1>3 DEF layoutVars
  <2>2. ASSUME NEW u \in TypeNames, Cached(u)' PROVE TdoFits(u)'
    BY <2>1, <2>2, StillFits DEF Cached
  <2>3. LayoutTypes' /\ Constructed' /\ Accounted'
    <3>1. \A u : Embedded(u)' = Embedded(u)
      BY DEF Embedded
    <3> QED BY <2>1, <3>1 DEF LayoutInv, LayoutTypes, Constructed, Accounted, Cached
  <2> QED BY <2>2, <2>3 DEF LayoutInv
<1> QED BY <1>1, <1>2, <1>3, BeginInv, AddInv, CompleteInv, RaiseInv DEF LayoutNext

\* The invariant of the layout
LEMMA LayoutInvHolds == LayoutSpec => []LayoutInv
<1>1. LayoutInit => LayoutInv
  BY DEF LayoutInit, LayoutInv, LayoutTypes, Cached, Constructed, Accounted
<1> QED BY <1>1, LayoutStep, PTL DEF LayoutSpec

\* A type, and what it embeds, is among what it uses.
LEMMA UsesFacts ==
  ASSUME NEW t \in TypeNames
  PROVE  t \in Uses(t) /\ Embedded(t) \subseteq Uses(t)
  BY DEF Uses, Embedded

\* A TDO is complete, unless its construction or that of a type it uses once
\* raised an exception, and its attributes are where the C structures have them:
\* aligned, one behind the other, values and indicators in the sizes that the
\* type has for those who embed it (object.rb, TDO#initialize and Attr).
THEOREM LayoutsFit == LayoutSpec => []LayoutFits
<1>1. LayoutInv => LayoutFits
  <2> SUFFICES ASSUME LayoutInv, NEW t \in TypeNames, Cached(t), Uses(t) \cap half = {}
               PROVE  LET tdo == tdos[t]
                          attrs == tdo.attrs
                      IN  /\ tdo.complete \/ t \in {building[i] : i \in DOMAIN building}
                          /\ tdo.complete => Len(attrs) = Len(Schema[t].of)
                          /\ \A i \in DOMAIN attrs :
                               /\ attrs[i].val % attrs[i].alignment = 0
                               /\ attrs[i].size = Layout(Schema[t].of[i]).size
                               /\ Schema[t].of[i] \in TypeNames => tdos[Schema[t].of[i]].complete
                               /\ ~Schema[t].collection =>
                                    /\ tdo.alignment % attrs[i].alignment = 0
                                    /\ attrs[i].ind >= 2
                                    /\ attrs[i].val + attrs[i].size <= tdo.val
                                    /\ attrs[i].ind + attrs[i].indSize <= tdo.ind
                                    /\ i > 1 =>
                                         /\ attrs[i - 1].val + attrs[i - 1].size <= attrs[i].val
                                         /\ attrs[i - 1].ind + attrs[i - 1].indSize <= attrs[i].ind
                          /\ tdo.complete => tdo.val % tdo.alignment = 0
    BY DEF LayoutFits, Cached
  <2>1. TdoFits(t) /\ tdos[t] \in Tdo
    BY DEF LayoutInv, TdoFits
  <2>2. tdos[t].complete \/ t \in {building[i] : i \in DOMAIN building}
    <3>1. t \notin half /\ building \in Seq(TypeNames)
      BY UsesFacts DEF LayoutInv, LayoutTypes
    <3> QED BY <3>1 DEF LayoutInv, Accounted
  <2>3. tdos[t].complete => /\ Len(tdos[t].attrs) = Len(Schema[t].of)
                            /\ tdos[t].val % tdos[t].alignment = 0
    BY <2>1 DEF TdoFits
  <2>4. ASSUME NEW i \in DOMAIN tdos[t].attrs
        PROVE  /\ AttrFits(t, i) /\ tdos[t].attrs[i] \in Attr
               /\ Schema[t].of[i] \in TypeNames => tdos[Schema[t].of[i]].complete
               /\ Placed(tdos[t], i) => tdos[t].alignment % tdos[t].attrs[i].alignment = 0
    <3>1. i \in 1 .. Len(tdos[t].attrs) /\ tdos[t].attrs[i] \in Attr
      BY <2>1 DEF Tdo
    <3>2. AttrFits(t, i)
      BY <2>1, <3>1 DEF TdoFits
    <3>3. ASSUME Schema[t].of[i] \in TypeNames PROVE tdos[Schema[t].of[i]].complete
      <4>1. i \in 1 .. Len(Schema[t].of)
        <5>1. Len(Schema[t].of) \in Nat /\ Len(tdos[t].attrs) \in Nat
          BY <2>1, SchemaFacts DEF Tdo
        <5> QED BY <2>1, <3>1, <5>1 DEF TdoFits
      <4>2. Schema[t].of[i] \in Uses(t)
        BY <3>3, <4>1, SchemaFacts, UsesFacts
      <4> QED BY <3>2, <3>3, <4>2 DEF AttrFits
    <3>4. ASSUME Placed(tdos[t], i) PROVE tdos[t].alignment % tdos[t].attrs[i].alignment = 0
      <4>1. tdos[t].alignment \in Alignments /\ tdos[t].attrs[i].alignment \in Alignments
        BY <2>1, <3>1 DEF Tdo, Attr
      <4>2. tdos[t].attrs[i].alignment <= tdos[t].alignment
        BY <3>4 DEF Placed
      <4> QED BY <4>1, <4>2, AlignmentFacts
    <3> QED BY <3>1, <3>2, <3>3, <3>4
  <2> QED BY <2>2, <2>3, <2>4 DEF AttrFits, Placed
<1> QED BY <1>1, LayoutInvHolds, PTL

-------------------------------------------------------------------------------
(***************************************************************************)
(* Objects: what assignments leave in instances, for any types.  What is   *)
(* defined by recursion over types is a function on all of them, because   *)
(* types are nested to some depth only; values, instances and reading are  *)
(* reasoned about by induction over types.                                 *)
(***************************************************************************)

\* The types that a type holds instances of have a smaller rank.
Depth == CHOOSE depth \in [TypeNames -> 1 .. Nesting] : Deepens(depth)
Rank(t) == IF t \in TypeNames THEN Depth[t] ELSE 0

\* A type is less deep than those that hold it.
LEMMA RankFacts ==
  /\ Nesting \in Nat /\ \A t \in AttrType : Rank(t) \in 0 .. Nesting
  /\ \A t \in TypeNames : /\ t \in AttrType /\ Schema[t].collection \in BOOLEAN
                          /\ Len(Schema[t].of) \in Nat
                          /\ DOMAIN Schema[t].of = 1 .. Len(Schema[t].of)
                          /\ Schema[t].collection => Len(Schema[t].of) = 1
                          /\ \A i \in 1 .. Len(Schema[t].of) :
                               Schema[t].of[i] \in AttrType /\ Rank(Schema[t].of[i]) < Rank(t)
<1>1. Depth \in [TypeNames -> 1 .. Nesting] /\ Deepens(Depth) /\ Nesting \in Nat
  BY SchemaAssumption DEF Depth
<1>2. ASSUME NEW t \in TypeNames
      PROVE  /\ t \in AttrType /\ Schema[t].collection \in BOOLEAN
             /\ Len(Schema[t].of) \in Nat
             /\ DOMAIN Schema[t].of = 1 .. Len(Schema[t].of)
             /\ Schema[t].collection => Len(Schema[t].of) = 1
             /\ \A i \in 1 .. Len(Schema[t].of) :
                  Schema[t].of[i] \in AttrType /\ Rank(Schema[t].of[i]) < Rank(t)
  <2>1. Schema[t].of \in Seq(AttrType)
    BY SchemaAssumption DEF AttrType
  <2>2. ASSUME NEW i \in 1 .. Len(Schema[t].of)
        PROVE  Schema[t].of[i] \in AttrType /\ Rank(Schema[t].of[i]) < Rank(t)
    <3>1. Schema[t].of[i] \in AttrType /\ i \in DOMAIN Schema[t].of
      BY <2>1
    <3>2. CASE Schema[t].of[i] \in TypeNames
      <4>1. Schema[t].of[i] \in Embedded(t)
        BY <3>1, <3>2 DEF Embedded
      <4> QED BY <1>1, <3>1, <3>2, <4>1 DEF Deepens, Rank
    <3>3. CASE Schema[t].of[i] \notin TypeNames
      BY <1>1, <3>1, <3>3 DEF Rank
    <3> QED BY <3>2, <3>3
  <2> QED BY <2>1, <2>2, SchemaAssumption DEF AttrType
<1>3. \A t \in AttrType : Rank(t) \in 0 .. Nesting
  BY <1>1 DEF Rank
<1> QED BY <1>1, <1>2, <1>3

\* The type of the part i of an instance of t
PartType(t, i) == Schema[t].of[IF Schema[t].collection THEN 1 ELSE i]

\* Induction over types: what holds of a type if it holds of all its parts
LEMMA TypeInduction ==
  ASSUME NEW S,
         \A t \in AttrType :
           (t \in TypeNames => \A i \in 1 .. Len(Schema[t].of) : Schema[t].of[i] \in S) => t \in S
  PROVE  AttrType \subseteq S
<1> SUFFICES ASSUME NEW u \in AttrType, u \notin S PROVE FALSE
  OBVIOUS
<1> DEFINE T == {Rank(t) : t \in AttrType \ S}
<1>1. T \subseteq Nat /\ T # {}
  BY RankFacts
<1>2. PICK x \in T : \A y \in T : x <= y
  <2> HIDE DEF T
  <2> QED BY <1>1, LeastNumber
<1>3. PICK t \in AttrType \ S : x = Rank(t)
  OBVIOUS
<1>4. ASSUME t \in TypeNames, NEW i \in 1 .. Len(Schema[t].of) PROVE Schema[t].of[i] \in S
  <2>1. Schema[t].of[i] \in AttrType /\ Rank(Schema[t].of[i]) < Rank(t)
    BY <1>4, RankFacts
  <2>2. Rank(Schema[t].of[i]) \in Nat /\ Rank(t) \in Nat
    BY <2>1, RankFacts
  <2>3. ~ (Rank(t) <= Rank(Schema[t].of[i]))
    BY <2>1, <2>2
  <2> QED BY <1>2, <1>3, <2>1, <2>3
<1> QED BY <1>3, <1>4

\* Recursion over types: a function that follows its rule for the types up to
\* each rank follows it for all of them.
Up(n) == {t \in AttrType : Rank(t) < n}

\* The parts of what has a rank below n + 1 have one below n.
LEMMA UpFacts ==
  /\ Nesting + 1 \in Nat /\ Up(Nesting + 1) = AttrType
  /\ \A t \in Up(1) : t \notin TypeNames
  /\ \A n \in Nat : \A t \in Up(n + 1) :
       t \in TypeNames => \A i \in 1 .. Len(Schema[t].of) : Schema[t].of[i] \in Up(n)
<1>1. Nesting + 1 \in Nat /\ Up(Nesting + 1) = AttrType
  BY RankFacts DEF Up
<1>2. \A t \in Up(1) : t \notin TypeNames
  BY SchemaAssumption DEF Up, Rank, Depth
<1>3. ASSUME NEW n \in Nat, NEW t \in Up(n + 1), t \in TypeNames,
             NEW i \in 1 .. Len(Schema[t].of)
      PROVE  Schema[t].of[i] \in Up(n)
  <2>1. Schema[t].of[i] \in AttrType /\ Rank(Schema[t].of[i]) < Rank(t)
    BY <1>3, RankFacts
  <2>2. Rank(Schema[t].of[i]) \in Nat /\ Rank(t) \in Nat /\ Rank(t) < n + 1
    BY <1>3, <2>1, RankFacts DEF Up
  <2>3. Rank(Schema[t].of[i]) < n
    BY <2>1, <2>2
  <2> QED BY <2>1, <2>3 DEF Up
<1> QED BY <1>1, <1>2, <1>3

\* What the parts of an object or a collection can be
LEMMA ContentsFacts ==
  ASSUME NEW t \in TypeNames, NEW sets
  PROVE  /\ Schema[t].collection => Contents(t, sets) = Seq(sets[Schema[t].of[1]])
         /\ ~Schema[t].collection =>
              \A c : c \in Contents(t, sets) <=>
                       /\ c = [i \in 1 .. Len(Schema[t].of) |-> c[i]]
                       /\ \A i \in 1 .. Len(Schema[t].of) : c[i] \in sets[Schema[t].of[i]]
<1> DEFINE of == Schema[t].of
           n == Len(of)
           U == UNION {sets[of[i]] : i \in 1 .. n}
           Collects(h) == h = [m \in 0 .. n |-> IF m = 0 THEN {} ELSE h[m - 1] \union sets[of[m]]]
           any == CHOOSE h : Collects(h)
<1>0. n \in Nat /\ DOMAIN of = 1 .. n
  BY RankFacts
<1>1. \E h : Collects(h)
  <2> DEFINE V == SUBSET U
             add(i) == IF i = 1 THEN {} ELSE sets[of[i - 1]]
             G == [i \in 1 .. n + 1 |-> [x \in V |-> x \union add(i)]]
  <2>1. ASSUME NEW i \in 1 .. n + 1 PROVE add(i) \in V
    <3>1. i # 1 => i - 1 \in 1 .. n
      BY <1>0
    <3> QED BY <3>1
  <2>2. G \in [1 .. n + 1 -> [V -> V]]
    <3> SUFFICES ASSUME NEW i \in 1 .. n + 1, NEW x \in V PROVE x \union add(i) \in V
      OBVIOUS
    <3>1. add(i) \in V
      BY <2>1
    <3> HIDE DEF add
    <3> QED BY <3>1
  <2>3. {} \in V /\ n + 1 \in Nat
    BY <1>0
  <2>4. \E f \in [1 .. n + 1 -> V] : Recurs(f, n + 1, {}, G)
    <3> HIDE DEF V, G, n
    <3> QED BY <2>2, <2>3, RecursionExists
  <2>5. PICK f \in [1 .. n + 1 -> V] : Recurs(f, n + 1, {}, G)
    BY <2>4
  <2> DEFINE h == [m \in 0 .. n |-> f[m + 1]]
  <2>6. ASSUME NEW m \in 0 .. n
        PROVE  h[m] = IF m = 0 THEN {} ELSE h[m - 1] \union sets[of[m]]
    <3> HIDE DEF n, U, of
    <3>1. m + 1 \in 1 .. n + 1 /\ (m # 0 => m + 1 # 1 /\ (m + 1) - 1 = m /\ m - 1 \in 0 .. n)
      BY <1>0
    <3>2. f[m + 1] = IF m + 1 = 1 THEN {} ELSE G[m + 1][f[(m + 1) - 1]]
      BY <2>5, <3>1 DEF Recurs
    <3>3. CASE m = 0
      BY <3>1, <3>2, <3>3
    <3>4. CASE m # 0
      <4>1. m \in 1 .. n + 1 /\ f[m] \in V
        BY <1>0, <3>4
      <4>2. G[m + 1][f[m]] = f[m] \union add(m + 1)
        BY <3>1, <4>1
      <4>3. add(m + 1) = sets[of[m]]
        BY <3>1, <3>4
      <4>4. h[m] = f[m + 1] /\ h[m - 1] = f[m]
        <5>1. (m - 1) + 1 = m
          OBVIOUS
        <5> QED BY <3>1, <3>4, <5>1
      <4> HIDE DEF h, G, add, V
      <4> QED BY <3>1, <3>2, <3>4, <4>2, <4>3, <4>4
    <3> QED BY <3>3, <3>4
  <2>7. Collects(h)
    <3> HIDE DEF n, U, of
    <3> QED BY <2>6
  <2> HIDE DEF Collects
  <2> QED BY <2>7
<1>2. Collects(any)
  <2> HIDE DEF Collects
  <2> QED BY <1>1
<1> HIDE DEF any
<1>3. ASSUME NEW i \in 1 .. n PROVE sets[of[i]] \subseteq any[n]
  <2> HIDE DEF n, of
  <2> DEFINE S == {m \in 1 .. n : \A j \in 1 .. m : sets[of[j]] \subseteq any[m]}
  <2>1. \A m \in 1 .. n : any[m] = any[m - 1] \union sets[of[m]]
    BY <1>0, <1>2
  <2>2. n > 0 => 1 \in S
    BY <1>0, <2>1
  <2>3. ASSUME NEW m \in 1 .. n - 1, m \in S PROVE m + 1 \in S
    <3>1. m + 1 \in 1 .. n /\ (m + 1) - 1 = m
      BY <1>0
    <3>2. any[m + 1] = any[m] \union sets[of[m + 1]]
      BY <2>1, <3>1
    <3>3. ASSUME NEW j \in 1 .. m + 1 PROVE sets[of[j]] \subseteq any[m + 1]
      <4>1. j = m + 1 \/ j \in 1 .. m
        BY <1>0
      <4> QED BY <2>3, <3>2, <4>1
    <3> QED BY <3>1, <3>3
  <2>4. 1 .. n \subseteq S
    <3> HIDE DEF S
    <3> QED BY <1>0, <2>2, <2>3, UpTo
  <2>5. n \in S /\ i \in 1 .. n
    BY <1>0, <2>4
  <2> QED BY <2>5
<1>4. Contents(t, sets) =
        IF Schema[t].collection THEN Seq(sets[of[1]])
        ELSE {c \in [1 .. n -> any[n]] : \A i \in 1 .. n : c[i] \in sets[of[i]]}
  <2>1. Contents(t, sets) =
          IF Schema[t].collection THEN Seq(sets[of[1]])
          ELSE {c \in [DOMAIN of -> any[n]] : \A i \in DOMAIN of : c[i] \in sets[of[i]]}
    BY Zenon DEF Contents, any
  <2> QED BY <2>1, <1>0, Zenon
<1>5. ASSUME ~Schema[t].collection, NEW c
      PROVE  c \in Contents(t, sets) <=> /\ c = [i \in 1 .. n |-> c[i]]
                                         /\ \A i \in 1 .. n : c[i] \in sets[of[i]]
  <2> HIDE DEF n, of
  <2>1. c \in Contents(t, sets) <=> c \in [1 .. n -> any[n]] /\ \A i \in 1 .. n : c[i] \in sets[of[i]]
    BY <1>4, <1>5
  <2>2. ASSUME c \in [1 .. n -> any[n]] PROVE c = [i \in 1 .. n |-> c[i]]
    BY <2>2
  <2>3. ASSUME c = [i \in 1 .. n |-> c[i]], \A i \in 1 .. n : c[i] \in sets[of[i]]
        PROVE  c \in [1 .. n -> any[n]]
    BY <1>3, <2>3
  <2> QED BY <2>1, <2>2, <2>3
<1> QED BY <1>4, <1>5

\* Contents that depend on the sets of the parts alone
LEMMA ContentsSame ==
  ASSUME NEW t \in TypeNames, NEW f, NEW g,
         \A i \in 1 .. Len(Schema[t].of) : f[Schema[t].of[i]] = g[Schema[t].of[i]]
  PROVE  Contents(t, f) = Contents(t, g)
<1>1. CASE Schema[t].collection
  <2>1. f[Schema[t].of[1]] = g[Schema[t].of[1]]
    BY <1>1, RankFacts
  <2> QED BY <1>1, <2>1, ContentsFacts
<1>2. CASE ~Schema[t].collection
  <2>1. ASSUME NEW c PROVE c \in Contents(t, f) <=> c \in Contents(t, g)
    <3>1. c \in Contents(t, f) <=>
            /\ c = [i \in 1 .. Len(Schema[t].of) |-> c[i]]
            /\ \A i \in 1 .. Len(Schema[t].of) : c[i] \in f[Schema[t].of[i]]
      BY <1>2, ContentsFacts
    <3>2. c \in Contents(t, g) <=>
            /\ c = [i \in 1 .. Len(Schema[t].of) |-> c[i]]
            /\ \A i \in 1 .. Len(Schema[t].of) : c[i] \in g[Schema[t].of[i]]
      BY <1>2, ContentsFacts
    <3> QED BY <3>1, <3>2
  <2> QED BY <2>1
<1> QED BY <1>1, <1>2, RankFacts

\* Induction from 0 to the number that all ranks are below
LEMMA RankInduction ==
  ASSUME NEW S, 0 \in S, \A n \in Nat : n \in S => n + 1 \in S
  PROVE  Nesting + 1 \in S
<1>1. 1 \in S
  <2>1. 0 + 1 \in S
    OBVIOUS
  <2> QED BY <2>1
<1>2. 1 .. Nesting + 1 \subseteq S
  <2>1. \A i \in 1 .. (Nesting + 1) - 1 : i \in S => i + 1 \in S
    OBVIOUS
  <2> QED BY <1>1, <2>1, UpTo, UpFacts
<1> QED BY <1>2, UpFacts

\* The values of a type, from those of its parts
LEMMA ValuesRule ==
  Values = [t \in AttrType |-> {Nil, Refused} \union (IF t \in TypeNames THEN Contents(t, Values) ELSE ScalarValues)]
<1> DEFINE Body(f, t) == {Nil, Refused} \union (IF t \in TypeNames THEN Contents(t, f) ELSE ScalarValues)
           Follows(f, n) == \A t \in Up(n) : f[t] = Body(f, t)
           S == {n \in Nat : \E f : Follows(f, n)}
           Solves(f) == f = [t \in AttrType |-> Body(f, t)]
<1>1. ASSUME NEW t \in AttrType, NEW f, NEW g,
             t \in TypeNames =>
               \A i \in 1 .. Len(Schema[t].of) : f[Schema[t].of[i]] = g[Schema[t].of[i]]
      PROVE  Body(f, t) = Body(g, t)
  BY <1>1, ContentsSame
<1> HIDE DEF Body
<1>2. 0 \in S
  <2>1. Up(0) = {}
    BY RankFacts DEF Up
  <2>2. Follows(<<>>, 0)
    BY <2>1
  <2> QED BY <2>2
<1>3. ASSUME NEW n \in Nat, n \in S PROVE n + 1 \in S
  <2>1. PICK f : Follows(f, n)
    BY <1>3
  <2> DEFINE g == [t \in AttrType |-> Body(f, t)]
  <2>2. ASSUME NEW t \in Up(n + 1) PROVE g[t] = Body(g, t)
    <3>1. t \in AttrType /\ \A u \in Up(n) : u \in AttrType /\ g[u] = f[u]
      BY <2>1 DEF Up
    <3>2. t \in TypeNames =>
            \A i \in 1 .. Len(Schema[t].of) : f[Schema[t].of[i]] = g[Schema[t].of[i]]
      BY <2>2, <3>1, UpFacts
    <3> HIDE DEF g
    <3>3. Body(f, t) = Body(g, t)
      BY <1>1, <3>1, <3>2
    <3> QED BY <3>1, <3>3 DEF g
  <2>3. Follows(g, n + 1)
    <3> HIDE DEF g
    <3> QED BY <2>2
  <2> HIDE DEF Follows, g
  <2> QED BY <2>3
<1>4. \E f : Follows(f, Nesting + 1)
  <2>1. Nesting + 1 \in S
    <3> HIDE DEF S
    <3> QED BY <1>2, <1>3, RankInduction
  <2> QED BY <2>1
<1>5. PICK f : Follows(f, Nesting + 1)
  BY <1>4
<1> DEFINE g == [t \in AttrType |-> Body(f, t)]
<1>6. \A t \in AttrType : f[t] = g[t]
  BY <1>5, UpFacts
<1> HIDE DEF g
<1>7. \A t \in AttrType : Body(f, t) = Body(g, t)
  <2> TAKE t \in AttrType
  <2>1. t \in TypeNames =>
          \A i \in 1 .. Len(Schema[t].of) : f[Schema[t].of[i]] = g[Schema[t].of[i]]
    BY <1>6, RankFacts
  <2> QED BY <1>1, <2>1
<1>8. Solves(g)
  BY <1>7 DEF g
<1>9. Values = CHOOSE h : Solves(h)
  BY Zenon DEF Values, Body
<1>10. Solves(Values)
  <2> HIDE DEF Solves
  <2> QED BY <1>8, <1>9
<1> QED BY <1>10, Zenon DEF Body

\* The instances of a type, from those of its parts
LEMMA InstancesRule ==
  Instances = [t \in AttrType |-> 
    [null : BOOLEAN,
     content : IF t \in TypeNames THEN Contents(t, Instances) ELSE ScalarValues \union {Nil}]]
<1> DEFINE Body(f, t) == 
    [null : BOOLEAN,
     content : IF t \in TypeNames THEN Contents(t, f) ELSE ScalarValues \union {Nil}]
           Follows(f, n) == \A t \in Up(n) : f[t] = Body(f, t)
           S == {n \in Nat : \E f : Follows(f, n)}
           Solves(f) == f = [t \in AttrType |-> Body(f, t)]
<1>1. ASSUME NEW t \in AttrType, NEW f, NEW g,
             t \in TypeNames =>
               \A i \in 1 .. Len(Schema[t].of) : f[Schema[t].of[i]] = g[Schema[t].of[i]]
      PROVE  Body(f, t) = Body(g, t)
  BY <1>1, ContentsSame
<1> HIDE DEF Body
<1>2. 0 \in S
  <2>1. Up(0) = {}
    BY RankFacts DEF Up
  <2>2. Follows(<<>>, 0)
    BY <2>1
  <2> QED BY <2>2
<1>3. ASSUME NEW n \in Nat, n \in S PROVE n + 1 \in S
  <2>1. PICK f : Follows(f, n)
    BY <1>3
  <2> DEFINE g == [t \in AttrType |-> Body(f, t)]
  <2>2. ASSUME NEW t \in Up(n + 1) PROVE g[t] = Body(g, t)
    <3>1. t \in AttrType /\ \A u \in Up(n) : u \in AttrType /\ g[u] = f[u]
      BY <2>1 DEF Up
    <3>2. t \in TypeNames =>
            \A i \in 1 .. Len(Schema[t].of) : f[Schema[t].of[i]] = g[Schema[t].of[i]]
      BY <2>2, <3>1, UpFacts
    <3> HIDE DEF g
    <3>3. Body(f, t) = Body(g, t)
      BY <1>1, <3>1, <3>2
    <3> QED BY <3>1, <3>3 DEF g
  <2>3. Follows(g, n + 1)
    <3> HIDE DEF g
    <3> QED BY <2>2
  <2> HIDE DEF Follows, g
  <2> QED BY <2>3
<1>4. \E f : Follows(f, Nesting + 1)
  <2>1. Nesting + 1 \in S
    <3> HIDE DEF S
    <3> QED BY <1>2, <1>3, RankInduction
  <2> QED BY <2>1
<1>5. PICK f : Follows(f, Nesting + 1)
  BY <1>4
<1> DEFINE g == [t \in AttrType |-> Body(f, t)]
<1>6. \A t \in AttrType : f[t] = g[t]
  BY <1>5, UpFacts
<1> HIDE DEF g
<1>7. \A t \in AttrType : Body(f, t) = Body(g, t)
  <2> TAKE t \in AttrType
  <2>1. t \in TypeNames =>
          \A i \in 1 .. Len(Schema[t].of) : f[Schema[t].of[i]] = g[Schema[t].of[i]]
    BY <1>6, RankFacts
  <2> QED BY <1>1, <2>1
<1>8. Solves(g)
  BY <1>7 DEF g
<1>9. Instances = CHOOSE h : Solves(h)
  BY Zenon DEF Instances, Body
<1>10. Solves(Instances)
  <2> HIDE DEF Solves
  <2> QED BY <1>8, <1>9
<1> QED BY <1>10, Zenon DEF Body

\* A new instance, from those of the parts of its type
LEMMA NewInstanceRule ==
  NewInstance = [t \in AttrType |-> 
    [null |-> TRUE,
     content |-> IF t \notin TypeNames THEN Nil
                 ELSE IF Schema[t].collection THEN <<>>
                 ELSE [i \in DOMAIN Schema[t].of |-> NewInstance[Schema[t].of[i]]]]]
<1> DEFINE Body(f, t) == 
    [null |-> TRUE,
     content |-> IF t \notin TypeNames THEN Nil
                 ELSE IF Schema[t].collection THEN <<>>
                 ELSE [i \in DOMAIN Schema[t].of |-> f[Schema[t].of[i]]]]
           Follows(f, n) == \A t \in Up(n) : f[t] = Body(f, t)
           S == {n \in Nat : \E f : Follows(f, n)}
           Solves(f) == f = [t \in AttrType |-> Body(f, t)]
<1>1. ASSUME NEW t \in AttrType, NEW f, NEW g,
             t \in TypeNames =>
               \A i \in 1 .. Len(Schema[t].of) : f[Schema[t].of[i]] = g[Schema[t].of[i]]
      PROVE  Body(f, t) = Body(g, t)
  BY <1>1, RankFacts
<1> HIDE DEF Body
<1>2. 0 \in S
  <2>1. Up(0) = {}
    BY RankFacts DEF Up
  <2>2. Follows(<<>>, 0)
    BY <2>1
  <2> QED BY <2>2
<1>3. ASSUME NEW n \in Nat, n \in S PROVE n + 1 \in S
  <2>1. PICK f : Follows(f, n)
    BY <1>3
  <2> DEFINE g == [t \in AttrType |-> Body(f, t)]
  <2>2. ASSUME NEW t \in Up(n + 1) PROVE g[t] = Body(g, t)
    <3>1. t \in AttrType /\ \A u \in Up(n) : u \in AttrType /\ g[u] = f[u]
      BY <2>1 DEF Up
    <3>2. t \in TypeNames =>
            \A i \in 1 .. Len(Schema[t].of) : f[Schema[t].of[i]] = g[Schema[t].of[i]]
      BY <2>2, <3>1, UpFacts
    <3> HIDE DEF g
    <3>3. Body(f, t) = Body(g, t)
      BY <1>1, <3>1, <3>2
    <3> QED BY <3>1, <3>3 DEF g
  <2>3. Follows(g, n + 1)
    <3> HIDE DEF g
    <3> QED BY <2>2
  <2> HIDE DEF Follows, g
  <2> QED BY <2>3
<1>4. \E f : Follows(f, Nesting + 1)
  <2>1. Nesting + 1 \in S
    <3> HIDE DEF S
    <3> QED BY <1>2, <1>3, RankInduction
  <2> QED BY <2>1
<1>5. PICK f : Follows(f, Nesting + 1)
  BY <1>4
<1> DEFINE g == [t \in AttrType |-> Body(f, t)]
<1>6. \A t \in AttrType : f[t] = g[t]
  BY <1>5, UpFacts
<1> HIDE DEF g
<1>7. \A t \in AttrType : Body(f, t) = Body(g, t)
  <2> TAKE t \in AttrType
  <2>1. t \in TypeNames =>
          \A i \in 1 .. Len(Schema[t].of) : f[Schema[t].of[i]] = g[Schema[t].of[i]]
    BY <1>6, RankFacts
  <2> QED BY <1>1, <2>1
<1>8. Solves(g)
  BY <1>7 DEF g
<1>9. NewInstance = CHOOSE h : Solves(h)
  BY Zenon DEF NewInstance, Body
<1>10. Solves(NewInstance)
  <2> HIDE DEF Solves
  <2> QED BY <1>8, <1>9
<1> QED BY <1>10, Zenon DEF Body

\* What Values and Instances have in common: the parts are of the types that the
\* type says.
LEMMA PartsFacts ==
  ASSUME NEW t \in TypeNames, NEW sets, NEW c \in Contents(t, sets)
  PROVE  /\ DOMAIN c = 1 .. Len(c) /\ Len(c) \in Nat /\ c = [i \in 1 .. Len(c) |-> c[i]]
         /\ ~Schema[t].collection => Len(c) = Len(Schema[t].of)
         /\ \A i \in DOMAIN c : /\ PartType(t, i) \in AttrType
                                 /\ \E j \in 1 .. Len(Schema[t].of) : PartType(t, i) = Schema[t].of[j]
                                 /\ c[i] \in sets[PartType(t, i)]
<1>1. CASE Schema[t].collection
  <2>1. c \in Seq(sets[Schema[t].of[1]]) /\ 1 \in 1 .. Len(Schema[t].of)
    BY <1>1, ContentsFacts, RankFacts
  <2>2. Schema[t].of[1] \in AttrType
    BY <2>1, RankFacts
  <2>3. c = [i \in 1 .. Len(c) |-> c[i]] /\ Len(c) \in Nat
    BY <2>1
  <2> QED BY <1>1, <2>1, <2>2, <2>3 DEF PartType
<1>2. CASE ~Schema[t].collection
  <2>1. /\ c = [i \in 1 .. Len(Schema[t].of) |-> c[i]]
        /\ \A i \in 1 .. Len(Schema[t].of) : c[i] \in sets[Schema[t].of[i]]
    BY <1>2, ContentsFacts
  <2>2. Len(Schema[t].of) \in Nat /\ Len(c) = Len(Schema[t].of)
    BY <2>1, RankFacts
  <2> QED BY <1>2, <2>1, <2>2, RankFacts DEF PartType
<1> QED BY <1>1, <1>2, RankFacts

\* The value of an object or a collection is nil, refused or its parts.
LEMMA ValueParts ==
  ASSUME NEW t \in AttrType, NEW v \in Values[t], v \notin {Nil, Refused}
  PROVE  /\ t \notin TypeNames => v \in ScalarValues
         /\ t \in TypeNames => v \in Contents(t, Values)
  BY ValuesRule

\* An instance has an indicator and content.
LEMMA InstanceParts ==
  ASSUME NEW t \in AttrType, NEW x \in Instances[t]
  PROVE  /\ x.null \in BOOLEAN /\ x = [null |-> x.null, content |-> x.content]
         /\ t \notin TypeNames => x.content \in ScalarValues \union {Nil}
         /\ t \in TypeNames => x.content \in Contents(t, Instances)
<1> DEFINE C == IF t \in TypeNames THEN Contents(t, Instances) ELSE ScalarValues \union {Nil}
<1>1. x \in [null : BOOLEAN, content : C]
  BY InstancesRule
<1> HIDE DEF C
<1>2. x.null \in BOOLEAN /\ x = [null |-> x.null, content |-> x.content] /\ x.content \in C
  BY <1>1
<1> QED BY <1>2 DEF C

\* and the converse
LEMMA IsInstance ==
  ASSUME NEW t \in AttrType, NEW null \in BOOLEAN, NEW held,
         t \notin TypeNames => held \in ScalarValues \union {Nil},
         t \in TypeNames => held \in Contents(t, Instances)
  PROVE  [null |-> null, content |-> held] \in Instances[t]
<1> DEFINE C == IF t \in TypeNames THEN Contents(t, Instances) ELSE ScalarValues \union {Nil}
<1>1. Instances[t] = [null : BOOLEAN, content : C]
  BY InstancesRule
<1>2. held \in C
  OBVIOUS
<1> HIDE DEF C
<1> QED BY <1>1, <1>2

\* What an instance reads as, from what its parts read as
LEMMA GetValueRule ==
  GetValue = [t \in AttrType |-> 
    [inst \in Instances[t] |->
       IF inst.null THEN Nil
       ELSE IF t \notin TypeNames THEN inst.content
       ELSE [i \in DOMAIN inst.content |->
               GetValue[Schema[t].of[IF Schema[t].collection THEN 1 ELSE i]][inst.content[i]]]]]
<1> DEFINE Body(f, t) == 
    [inst \in Instances[t] |->
       IF inst.null THEN Nil
       ELSE IF t \notin TypeNames THEN inst.content
       ELSE [i \in DOMAIN inst.content |->
               f[Schema[t].of[IF Schema[t].collection THEN 1 ELSE i]][inst.content[i]]]]
           Follows(f, n) == \A t \in Up(n) : f[t] = Body(f, t)
           S == {n \in Nat : \E f : Follows(f, n)}
           Solves(f) == f = [t \in AttrType |-> Body(f, t)]
<1>1. ASSUME NEW t \in AttrType, NEW f, NEW g,
             t \in TypeNames =>
               \A i \in 1 .. Len(Schema[t].of) : f[Schema[t].of[i]] = g[Schema[t].of[i]]
      PROVE  Body(f, t) = Body(g, t)
  <2>1. ASSUME NEW inst \in Instances[t], t \in TypeNames, NEW i \in DOMAIN inst.content
        PROVE  f[Schema[t].of[IF Schema[t].collection THEN 1 ELSE i]]
                 = g[Schema[t].of[IF Schema[t].collection THEN 1 ELSE i]]
    <3>1. inst.content \in Contents(t, Instances)
      BY <2>1, InstanceParts
    <3>2. \E j \in 1 .. Len(Schema[t].of) : PartType(t, i) = Schema[t].of[j]
      BY <2>1, <3>1, PartsFacts
    <3> QED BY <1>1, <2>1, <3>2 DEF PartType
  <2> QED BY <2>1
<1> HIDE DEF Body
<1>2. 0 \in S
  <2>1. Up(0) = {}
    BY RankFacts DEF Up
  <2>2. Follows(<<>>, 0)
    BY <2>1
  <2> QED BY <2>2
<1>3. ASSUME NEW n \in Nat, n \in S PROVE n + 1 \in S
  <2>1. PICK f : Follows(f, n)
    BY <1>3
  <2> DEFINE g == [t \in AttrType |-> Body(f, t)]
  <2>2. ASSUME NEW t \in Up(n + 1) PROVE g[t] = Body(g, t)
    <3>1. t \in AttrType /\ \A u \in Up(n) : u \in AttrType /\ g[u] = f[u]
      BY <2>1 DEF Up
    <3>2. t \in TypeNames =>
            \A i \in 1 .. Len(Schema[t].of) : f[Schema[t].of[i]] = g[Schema[t].of[i]]
      BY <2>2, <3>1, UpFacts
    <3> HIDE DEF g
    <3>3. Body(f, t) = Body(g, t)
      BY <1>1, <3>1, <3>2
    <3> QED BY <3>1, <3>3 DEF g
  <2>3. Follows(g, n + 1)
    <3> HIDE DEF g
    <3> QED BY <2>2
  <2> HIDE DEF Follows, g
  <2> QED BY <2>3
<1>4. \E f : Follows(f, Nesting + 1)
  <2>1. Nesting + 1 \in S
    <3> HIDE DEF S
    <3> QED BY <1>2, <1>3, RankInduction
  <2> QED BY <2>1
<1>5. PICK f : Follows(f, Nesting + 1)
  BY <1>4
<1> DEFINE g == [t \in AttrType |-> Body(f, t)]
<1>6. \A t \in AttrType : f[t] = g[t]
  BY <1>5, UpFacts
<1> HIDE DEF g
<1>7. \A t \in AttrType : Body(f, t) = Body(g, t)
  <2> TAKE t \in AttrType
  <2>1. t \in TypeNames =>
          \A i \in 1 .. Len(Schema[t].of) : f[Schema[t].of[i]] = g[Schema[t].of[i]]
    BY <1>6, RankFacts
  <2> QED BY <1>1, <2>1
<1>8. Solves(g)
  BY <1>7 DEF g
<1>9. GetValue = CHOOSE h : Solves(h)
  BY Zenon DEF GetValue, Body
<1>10. Solves(GetValue)
  <2> HIDE DEF Solves
  <2> QED BY <1>8, <1>9
<1> QED BY <1>10, Zenon DEF Body

\* Old and new parts, from those of the parts
LEMMA MixedRule ==
  Mixed = [t \in AttrType |-> 
    [got \in Values[t] |-> [old \in Values[t] |-> [new \in Values[t] |->
       \/ got = old \/ got = new
       \/ /\ t \in TypeNames /\ {got, old, new} \cap {Nil, Refused} = {}
          /\ \A i \in DOMAIN got :
               \/ /\ i \in DOMAIN old \cap DOMAIN new
                  /\ Mixed[Schema[t].of[IF Schema[t].collection THEN 1 ELSE i]][got[i]][old[i]][new[i]]
               \/ i \in DOMAIN new \ DOMAIN old /\ got[i] = new[i]]]]]
<1> DEFINE Body(f, t) == 
    [got \in Values[t] |-> [old \in Values[t] |-> [new \in Values[t] |->
       \/ got = old \/ got = new
       \/ /\ t \in TypeNames /\ {got, old, new} \cap {Nil, Refused} = {}
          /\ \A i \in DOMAIN got :
               \/ /\ i \in DOMAIN old \cap DOMAIN new
                  /\ f[Schema[t].of[IF Schema[t].collection THEN 1 ELSE i]][got[i]][old[i]][new[i]]
               \/ i \in DOMAIN new \ DOMAIN old /\ got[i] = new[i]]]]
           Follows(f, n) == \A t \in Up(n) : f[t] = Body(f, t)
           S == {n \in Nat : \E f : Follows(f, n)}
           Solves(f) == f = [t \in AttrType |-> Body(f, t)]
<1>1. ASSUME NEW t \in AttrType, NEW f, NEW g,
             t \in TypeNames =>
               \A i \in 1 .. Len(Schema[t].of) : f[Schema[t].of[i]] = g[Schema[t].of[i]]
      PROVE  Body(f, t) = Body(g, t)
  <2>1. ASSUME NEW got \in Values[t], NEW old \in Values[t], NEW new \in Values[t],
               t \in TypeNames, {got, old, new} \cap {Nil, Refused} = {}, NEW i \in DOMAIN got
        PROVE  f[Schema[t].of[IF Schema[t].collection THEN 1 ELSE i]]
                 = g[Schema[t].of[IF Schema[t].collection THEN 1 ELSE i]]
    <3>1. got \in Contents(t, Values)
      BY <2>1, ValueParts
    <3>2. \E j \in 1 .. Len(Schema[t].of) : PartType(t, i) = Schema[t].of[j]
      BY <2>1, <3>1, PartsFacts
    <3> QED BY <1>1, <2>1, <3>2 DEF PartType
  <2> DEFINE Some(h, got, old, new) ==
               /\ t \in TypeNames /\ {got, old, new} \cap {Nil, Refused} = {}
               /\ \A i \in DOMAIN got :
                    \/ /\ i \in DOMAIN old \cap DOMAIN new
                       /\ h[Schema[t].of[IF Schema[t].collection THEN 1 ELSE i]][got[i]][old[i]][new[i]]
                    \/ i \in DOMAIN new \ DOMAIN old /\ got[i] = new[i]
  <2>2. \A got, old, new \in Values[t] : Some(f, got, old, new) = Some(g, got, old, new)
    <3> TAKE got \in Values[t], old \in Values[t], new \in Values[t]
    <3>1. Some(f, got, old, new) <=> Some(g, got, old, new)
      BY <2>1, Zenon
    <3> QED BY <3>1
  <2> HIDE DEF Some
  <2>3. [got \in Values[t] |-> [old \in Values[t] |-> [new \in Values[t] |->
           got = old \/ got = new \/ Some(f, got, old, new)]]] =
        [got \in Values[t] |-> [old \in Values[t] |-> [new \in Values[t] |->
           got = old \/ got = new \/ Some(g, got, old, new)]]]
    BY <2>2
  <2> QED BY <2>3, Zenon DEF Some
<1> HIDE DEF Body
<1>2. 0 \in S
  <2>1. Up(0) = {}
    BY RankFacts DEF Up
  <2>2. Follows(<<>>, 0)
    BY <2>1
  <2> QED BY <2>2
<1>3. ASSUME NEW n \in Nat, n \in S PROVE n + 1 \in S
  <2>1. PICK f : Follows(f, n)
    BY <1>3
  <2> DEFINE g == [t \in AttrType |-> Body(f, t)]
  <2>2. ASSUME NEW t \in Up(n + 1) PROVE g[t] = Body(g, t)
    <3>1. t \in AttrType /\ \A u \in Up(n) : u \in AttrType /\ g[u] = f[u]
      BY <2>1 DEF Up
    <3>2. t \in TypeNames =>
            \A i \in 1 .. Len(Schema[t].of) : f[Schema[t].of[i]] = g[Schema[t].of[i]]
      BY <2>2, <3>1, UpFacts
    <3> HIDE DEF g
    <3>3. Body(f, t) = Body(g, t)
      BY <1>1, <3>1, <3>2
    <3> QED BY <3>1, <3>3 DEF g
  <2>3. Follows(g, n + 1)
    <3> HIDE DEF g
    <3> QED BY <2>2
  <2> HIDE DEF Follows, g
  <2> QED BY <2>3
<1>4. \E f : Follows(f, Nesting + 1)
  <2>1. Nesting + 1 \in S
    <3> HIDE DEF S
    <3> QED BY <1>2, <1>3, RankInduction
  <2> QED BY <2>1
<1>5. PICK f : Follows(f, Nesting + 1)
  BY <1>4
<1> DEFINE g == [t \in AttrType |-> Body(f, t)]
<1>6. \A t \in AttrType : f[t] = g[t]
  BY <1>5, UpFacts
<1> HIDE DEF g
<1>7. \A t \in AttrType : Body(f, t) = Body(g, t)
  <2> TAKE t \in AttrType
  <2>1. t \in TypeNames =>
          \A i \in 1 .. Len(Schema[t].of) : f[Schema[t].of[i]] = g[Schema[t].of[i]]
    BY <1>6, RankFacts
  <2> QED BY <1>1, <2>1
<1>8. Solves(g)
  BY <1>7 DEF g
<1>9. Mixed = CHOOSE h : Solves(h)
  BY Zenon DEF Mixed, Body
<1>10. Solves(Mixed)
  <2> HIDE DEF Solves
  <2> QED BY <1>8, <1>9
<1> QED BY <1>10, Zenon DEF Body

\* What an assignment does, from what it does to the parts
LEMMA SetValueRule ==
  SetValue = [t \in AttrType |-> 
    [old \in Instances[t] |-> [v \in Values[t] |-> Assigned(t, SetValue, old, v)]]]
<1> DEFINE Body(f, t) == 
    [old \in Instances[t] |-> [v \in Values[t] |-> Assigned(t, f, old, v)]]
           Follows(f, n) == \A t \in Up(n) : f[t] = Body(f, t)
           S == {n \in Nat : \E f : Follows(f, n)}
           Solves(f) == f = [t \in AttrType |-> Body(f, t)]
<1>1. ASSUME NEW t \in AttrType, NEW f, NEW g,
             t \in TypeNames =>
               \A i \in 1 .. Len(Schema[t].of) : f[Schema[t].of[i]] = g[Schema[t].of[i]]
      PROVE  Body(f, t) = Body(g, t)
  <2>1. \A old, v : Assigned(t, f, old, v) = Assigned(t, g, old, v)
    <3> TAKE old, v
    <3>1. CASE t \in TypeNames /\ Schema[t].collection
      <4>1. f[Schema[t].of[1]] = g[Schema[t].of[1]]
        BY <1>1, <3>1, RankFacts
      <4> QED BY <3>1, <4>1, Zenon DEF Assigned
    <3>2. CASE t \in TypeNames /\ ~Schema[t].collection
      <4>1. [i \in DOMAIN Schema[t].of |-> f[Schema[t].of[i]][old.content[i]][v[i]]]
              = [i \in DOMAIN Schema[t].of |-> g[Schema[t].of[i]][old.content[i]][v[i]]]
        BY <1>1, <3>2, RankFacts
      <4> QED BY <3>2, <4>1, Zenon DEF Assigned
    <3>3. CASE t \notin TypeNames
      BY <3>3, Zenon DEF Assigned
    <3> QED BY <3>1, <3>2, <3>3
  <2> QED BY <2>1
<1> HIDE DEF Body
<1>2. 0 \in S
  <2>1. Up(0) = {}
    BY RankFacts DEF Up
  <2>2. Follows(<<>>, 0)
    BY <2>1
  <2> QED BY <2>2
<1>3. ASSUME NEW n \in Nat, n \in S PROVE n + 1 \in S
  <2>1. PICK f : Follows(f, n)
    BY <1>3
  <2> DEFINE g == [t \in AttrType |-> Body(f, t)]
  <2>2. ASSUME NEW t \in Up(n + 1) PROVE g[t] = Body(g, t)
    <3>1. t \in AttrType /\ \A u \in Up(n) : u \in AttrType /\ g[u] = f[u]
      BY <2>1 DEF Up
    <3>2. t \in TypeNames =>
            \A i \in 1 .. Len(Schema[t].of) : f[Schema[t].of[i]] = g[Schema[t].of[i]]
      BY <2>2, <3>1, UpFacts
    <3> HIDE DEF g
    <3>3. Body(f, t) = Body(g, t)
      BY <1>1, <3>1, <3>2
    <3> QED BY <3>1, <3>3 DEF g
  <2>3. Follows(g, n + 1)
    <3> HIDE DEF g
    <3> QED BY <2>2
  <2> HIDE DEF Follows, g
  <2> QED BY <2>3
<1>4. \E f : Follows(f, Nesting + 1)
  <2>1. Nesting + 1 \in S
    <3> HIDE DEF S
    <3> QED BY <1>2, <1>3, RankInduction
  <2> QED BY <2>1
<1>5. PICK f : Follows(f, Nesting + 1)
  BY <1>4
<1> DEFINE g == [t \in AttrType |-> Body(f, t)]
<1>6. \A t \in AttrType : f[t] = g[t]
  BY <1>5, UpFacts
<1> HIDE DEF g
<1>7. \A t \in AttrType : Body(f, t) = Body(g, t)
  <2> TAKE t \in AttrType
  <2>1. t \in TypeNames =>
          \A i \in 1 .. Len(Schema[t].of) : f[Schema[t].of[i]] = g[Schema[t].of[i]]
    BY <1>6, RankFacts
  <2> QED BY <1>1, <2>1
<1>8. Solves(g)
  BY <1>7 DEF g
<1>9. SetValue = CHOOSE h : Solves(h)
  BY Zenon DEF SetValue, Body
<1>10. Solves(SetValue)
  <2> HIDE DEF Solves
  <2> QED BY <1>8, <1>9
<1> QED BY <1>10, Zenon DEF Body

\* Contents are values.
LEMMA IsValue ==
  ASSUME NEW t \in AttrType, NEW v,
         \/ v \in {Nil, Refused}
         \/ t \notin TypeNames /\ v \in ScalarValues
         \/ t \in TypeNames /\ v \in Contents(t, Values)
  PROVE  v \in Values[t]
  BY ValuesRule

\* Contents part by part
LEMMA IsContents ==
  ASSUME NEW t \in TypeNames, NEW sets, NEW n \in Nat, NEW f,
         ~Schema[t].collection => n = Len(Schema[t].of),
         \A i \in 1 .. n : f[i] \in sets[PartType(t, i)]
  PROVE  [i \in 1 .. n |-> f[i]] \in Contents(t, sets)
<1> DEFINE c == [i \in 1 .. n |-> f[i]]
<1>1. CASE Schema[t].collection
  <2>1. \A i \in 1 .. n : f[i] \in sets[Schema[t].of[1]]
    BY <1>1 DEF PartType
  <2>2. c \in Seq(sets[Schema[t].of[1]])
    BY <2>1
  <2> QED BY <1>1, <2>2, ContentsFacts
<1>2. CASE ~Schema[t].collection
  <2>1. \A i \in 1 .. n : c[i] \in sets[Schema[t].of[i]]
    BY <1>2 DEF PartType
  <2>2. c = [i \in 1 .. n |-> c[i]]
    OBVIOUS
  <2> HIDE DEF c
  <2>3. c \in Contents(t, sets)
    BY <1>2, <2>1, <2>2, ContentsFacts
  <2> QED BY <2>3 DEF c
<1> QED BY <1>1, <1>2, RankFacts

\* OCIObjectNew gives an instance.
LEMMA NewIsInstance == \A t \in AttrType : NewInstance[t] \in Instances[t]
<1> DEFINE S == {t \in AttrType : NewInstance[t] \in Instances[t]}
<1>1. ASSUME NEW t \in AttrType,
             t \in TypeNames => \A i \in 1 .. Len(Schema[t].of) : Schema[t].of[i] \in S
      PROVE  NewInstance[t] \in Instances[t]
  <2>1. CASE t \notin TypeNames
    <3>1. NewInstance[t] = [null |-> TRUE, content |-> Nil]
      BY <2>1, NewInstanceRule
    <3> QED BY <2>1, <3>1, IsInstance
  <2>2. CASE t \in TypeNames /\ Schema[t].collection
    <3>1. NewInstance[t] = [null |-> TRUE, content |-> <<>>]
      BY <2>2, NewInstanceRule
    <3>2. <<>> \in Seq(Instances[Schema[t].of[1]])
      OBVIOUS
    <3>3. <<>> \in Contents(t, Instances)
      BY <2>2, <3>2, ContentsFacts
    <3> QED BY <2>2, <3>1, <3>3, IsInstance
  <2>3. CASE t \in TypeNames /\ ~Schema[t].collection
    <3> DEFINE n == Len(Schema[t].of)
               f == [i \in 1 .. n |-> NewInstance[Schema[t].of[i]]]
    <3>1. NewInstance[t] = [null |-> TRUE, content |-> f]
      BY <2>3, NewInstanceRule, RankFacts
    <3>2. \A i \in 1 .. n : f[i] \in Instances[PartType(t, i)]
      BY <1>1, <2>3 DEF PartType
    <3>3. f = [i \in 1 .. n |-> f[i]] /\ n \in Nat
      BY <2>3, RankFacts
    <3> HIDE DEF f, n
    <3>4. [i \in 1 .. n |-> f[i]] \in Contents(t, Instances)
      BY <2>3, <3>2, <3>3, IsContents DEF n
    <3>5. f \in Contents(t, Instances)
      BY <3>3, <3>4
    <3> QED BY <2>3, <3>1, <3>5, IsInstance
  <2> QED BY <2>1, <2>2, <2>3, RankFacts
<1>2. AttrType \subseteq S
  <2> HIDE DEF S
  <2>1. \A t \in AttrType :
          (t \in TypeNames => \A i \in 1 .. Len(Schema[t].of) : Schema[t].of[i] \in S) => t \in S
    BY <1>1 DEF S
  <2> QED BY <2>1, TypeInduction
<1> QED BY <1>2

\* What contents read as, part by part
ReadParts(t, c) == [i \in 1 .. Len(c) |-> GetValue[PartType(t, i)][c[i]]]

\* How an instance reads: as nil, what it holds, or what its parts read as
LEMMA Reads ==
  ASSUME NEW t \in AttrType, NEW x \in Instances[t]
  PROVE  /\ x.null => GetValue[t][x] = Nil
         /\ ~x.null /\ t \notin TypeNames => GetValue[t][x] = x.content
         /\ ~x.null /\ t \in TypeNames => GetValue[t][x] = ReadParts(t, x.content)
<1>1. GetValue[t][x] = IF x.null THEN Nil
                       ELSE IF t \notin TypeNames THEN x.content
                       ELSE [i \in DOMAIN x.content |-> GetValue[PartType(t, i)][x.content[i]]]
  <2>1. GetValue[t] = [inst \in Instances[t] |->
           IF inst.null THEN Nil
           ELSE IF t \notin TypeNames THEN inst.content
           ELSE [i \in DOMAIN inst.content |->
                   GetValue[Schema[t].of[IF Schema[t].collection THEN 1 ELSE i]][inst.content[i]]]]
    BY GetValueRule
  <2>2. GetValue[t] = [inst \in Instances[t] |->
           IF inst.null THEN Nil
           ELSE IF t \notin TypeNames THEN inst.content
           ELSE [i \in DOMAIN inst.content |-> GetValue[PartType(t, i)][inst.content[i]]]]
    BY <2>1, Zenon DEF PartType
  <2> QED BY <2>2
<1>2. t \in TypeNames => DOMAIN x.content = 1 .. Len(x.content)
  BY InstanceParts, PartsFacts
<1> QED BY <1>1, <1>2 DEF ReadParts

\* An instance reads as a value of its type.
LEMMA ReadIsValue ==
  \A t \in AttrType : \A x \in Instances[t] :
    /\ GetValue[t][x] \in Values[t]
    /\ ~x.null /\ t \in TypeNames => GetValue[t][x] \in Contents(t, Values)
<1> DEFINE P(t) == \A x \in Instances[t] :
                     /\ GetValue[t][x] \in Values[t]
                     /\ ~x.null /\ t \in TypeNames => GetValue[t][x] \in Contents(t, Values)
           S == {t \in AttrType : P(t)}
<1>1. ASSUME NEW t \in AttrType,
             t \in TypeNames => \A i \in 1 .. Len(Schema[t].of) : Schema[t].of[i] \in S,
             NEW x \in Instances[t]
      PROVE  /\ GetValue[t][x] \in Values[t]
             /\ ~x.null /\ t \in TypeNames => GetValue[t][x] \in Contents(t, Values)
  <2>1. CASE x.null
    BY <2>1, Reads, IsValue
  <2>2. CASE ~x.null /\ t \notin TypeNames
    BY <2>2, Reads, InstanceParts, IsValue
  <2>3. CASE ~x.null /\ t \in TypeNames
    <3> DEFINE c == x.content
               f == [i \in 1 .. Len(c) |-> GetValue[PartType(t, i)][c[i]]]
    <3>1. /\ c \in Contents(t, Instances) /\ Len(c) \in Nat /\ DOMAIN c = 1 .. Len(c)
          /\ ~Schema[t].collection => Len(c) = Len(Schema[t].of)
      BY <2>3, InstanceParts, PartsFacts
    <3>2. ASSUME NEW i \in 1 .. Len(c) PROVE f[i] \in Values[PartType(t, i)]
      <4>1. /\ \E j \in 1 .. Len(Schema[t].of) : PartType(t, i) = Schema[t].of[j]
            /\ c[i] \in Instances[PartType(t, i)]
        BY <2>3, <3>1, PartsFacts
      <4>2. PartType(t, i) \in S
        <5> HIDE DEF S
        <5> QED BY <1>1, <2>3, <4>1
      <4> QED BY <4>1, <4>2
    <3>3. GetValue[t][x] = f /\ f = [i \in 1 .. Len(c) |-> f[i]]
      BY <2>3, Reads DEF ReadParts
    <3> HIDE DEF f, c
    <3>4. [i \in 1 .. Len(c) |-> f[i]] \in Contents(t, Values)
      BY <2>3, <3>1, <3>2, IsContents
    <3> QED BY <2>3, <3>3, <3>4, IsValue
  <2> QED BY <2>1, <2>2, <2>3, InstanceParts
<1>2. AttrType \subseteq S
  <2>1. \A t \in AttrType :
          (t \in TypeNames => \A i \in 1 .. Len(Schema[t].of) : Schema[t].of[i] \in S) => t \in S
    BY <1>1
  <2> HIDE DEF S
  <2> QED BY <2>1, TypeInduction
<1> QED BY <1>2

\* What is to be shown of one assignment, and of all to instances of t
Sound(t, old, v, result) ==
  /\ result \in [to : Instances[t], ok : BOOLEAN]
  /\ result.ok => GetValue[t][result.to] = v
  /\ ~result.ok => Mixed[t][GetValue[t][result.to]][GetValue[t][old]][v]

Assigns(t) == \A old \in Instances[t], v \in Values[t] : Sound(t, old, v, SetValue[t][old][v])

\* The first failure, if there is one
LEMMA FailureFacts ==
  ASSUME NEW V, NEW r \in Seq([to : V, ok : BOOLEAN])
  PROVE  /\ FirstFailure(r) \in 1 .. Len(r) + 1
         /\ \A i \in 1 .. Len(r) : i < FirstFailure(r) => r[i].ok
         /\ FirstFailure(r) \in 1 .. Len(r) => ~r[FirstFailure(r)].ok
<1>1. Len(r) \in Nat /\ DOMAIN r = 1 .. Len(r) /\ \A i \in 1 .. Len(r) : r[i].ok \in BOOLEAN
  <2> DEFINE R == [to : V, ok : BOOLEAN]
  <2>1. \A e \in R : e.ok \in BOOLEAN
    OBVIOUS
  <2>0. r \in Seq(R)
    OBVIOUS
  <2> HIDE DEF R
  <2>2. Len(r) \in Nat /\ DOMAIN r = 1 .. Len(r) /\ \A i \in 1 .. Len(r) : r[i] \in R
    BY <2>0
  <2> QED BY <2>1, <2>2
<1>2. CASE Failures(r) = {}
  BY <1>1, <1>2 DEF FirstFailure, Failures
<1>3. CASE Failures(r) # {}
  <2>1. Failures(r) \subseteq Nat
    BY <1>1 DEF Failures
  <2>2. \E i \in Failures(r) : \A j \in Failures(r) : i <= j
    BY <1>3, <2>1, LeastNumber
  <2>3. FirstFailure(r) \in Failures(r) /\ \A j \in Failures(r) : FirstFailure(r) <= j
    BY <1>3, <2>2 DEF FirstFailure
  <2>4. \A i \in 1 .. Len(r) : i < FirstFailure(r) => i \notin Failures(r)
    BY <2>1, <2>3
  <2> QED BY <1>1, <2>3, <2>4 DEF Failures
<1> QED BY <1>2, <1>3

\* The elements of an array, assigned one after the other through one instance
LEMMA ElementFacts ==
  ASSUME NEW t \in AttrType, Assigns(t), NEW v \in Seq(Values[t])
  PROVE  LET r == ElementResults(SetValue[t], NewInstance[t], v)
         IN  /\ r \in Seq([to : Instances[t], ok : BOOLEAN]) /\ Len(r) = Len(v)
             /\ \A i \in 1 .. Len(v) : r[i].ok => GetValue[t][r[i].to] = v[i]
<1> DEFINE n == Len(v)
           V == [to : Instances[t], ok : BOOLEAN]
           new == NewInstance[t]
           set == SetValue[t]
           a == IF n = 0 THEN [to |-> new, ok |-> TRUE] ELSE set[new][v[1]]
           G == [i \in 1 .. n |-> [e \in V |-> set[e.to][v[i]]]]
           Sets(f) == f = [i \in 1 .. n |-> set[IF i = 1 THEN new ELSE f[i - 1].to][v[i]]]
           r == ElementResults(set, new, v)
<1>1. n \in Nat /\ \A i \in 1 .. n : v[i] \in Values[t]
  OBVIOUS
<1>2. new \in Instances[t]
  BY NewIsInstance
<1>3. \A x \in Instances[t], i \in 1 .. n : set[x][v[i]] \in V
  BY <1>1 DEF Assigns, Sound
<1> HIDE DEF set, new
<1>4. G \in [1 .. n -> [V -> V]]
  <2> SUFFICES ASSUME NEW i \in 1 .. n, NEW e \in V PROVE set[e.to][v[i]] \in V
    OBVIOUS
  <2>1. e.to \in Instances[t]
    OBVIOUS
  <2> QED BY <1>3, <2>1
<1>5. a \in V
  <2>1. n # 0 => 1 \in 1 .. n
    BY <1>1
  <2>2. n # 0 => set[new][v[1]] \in V
    BY <1>2, <1>3, <2>1
  <2> QED BY <1>2, <2>2
<1>6. \E f \in [1 .. n -> V] : Recurs(f, n, a, G)
  <2> HIDE DEF V, G, a, n
  <2> QED BY <1>1, <1>4, <1>5, RecursionExists
<1>7. PICK f \in [1 .. n -> V] : Recurs(f, n, a, G)
  BY <1>6
<1>8. ASSUME NEW i \in 1 .. n
      PROVE  f[i] = set[IF i = 1 THEN new ELSE f[i - 1].to][v[i]]
  <2>1. f[i] = IF i = 1 THEN a ELSE G[i][f[i - 1]]
    BY <1>7 DEF Recurs
  <2>2. CASE i = 1
    <3>1. n # 0
      BY <1>1
    <3> QED BY <2>1, <2>2, <3>1
  <2>3. CASE i # 1
    <3>1. i - 1 \in 1 .. n
      BY <1>1, <2>3
    <3>2. f[i - 1] \in V
      BY <3>1, <1>7
    <3> QED BY <2>1, <2>3, <3>2
  <2> QED BY <2>2, <2>3
<1>9. Sets(f)
  <2> HIDE DEF V
  <2>1. f = [i \in 1 .. n |-> f[i]]
    BY <1>7
  <2> QED BY <1>8, <2>1
<1>10. r = CHOOSE g : Sets(g)
  BY Zenon DEF ElementResults
<1>11. Sets(r)
  <2> HIDE DEF Sets, r
  <2> QED BY <1>9, <1>10
<1> HIDE DEF r
<1>12. 1 .. n \subseteq {i \in 1 .. n : r[i] \in V}
  <2> DEFINE S == {i \in 1 .. n : r[i] \in V}
  <2>1. n > 0 => 1 \in S
    <3> SUFFICES ASSUME n > 0 PROVE 1 \in S
      OBVIOUS
    <3>1. 1 \in 1 .. n
      BY <1>1
    <3>2. r[1] = set[new][v[1]]
      BY <1>11, <3>1
    <3>3. r[1] \in V
      BY <1>2, <1>3, <3>1, <3>2
    <3> QED BY <3>1, <3>3
  <2>2. ASSUME NEW i \in 1 .. n - 1, i \in S PROVE i + 1 \in S
    <3>1. i + 1 \in 1 .. n /\ i + 1 # 1 /\ (i + 1) - 1 = i /\ r[i].to \in Instances[t]
      BY <1>1, <2>2
    <3>2. r[i + 1] = set[r[i].to][v[i + 1]]
      BY <1>11, <3>1
    <3>3. r[i + 1] \in V
      BY <1>3, <3>1, <3>2
    <3> QED BY <3>1, <3>3
  <2> HIDE DEF S
  <2>3. 1 .. n \subseteq S
    BY <1>1, <2>1, <2>2, UpTo
  <2> QED BY <2>3 DEF S
<1>13. r \in Seq(V) /\ Len(r) = n
  <2>1. r \in [1 .. n -> V]
    <3> HIDE DEF V
    <3> QED BY <1>11, <1>12
  <2> HIDE DEF V
  <2> QED BY <1>1, <2>1
<1>14. ASSUME NEW i \in 1 .. n, r[i].ok PROVE GetValue[t][r[i].to] = v[i]
  <2> DEFINE x == IF i = 1 THEN new ELSE r[i - 1].to
  <2>1. i # 1 => i - 1 \in 1 .. n
    BY <1>1
  <2>2. i # 1 => r[i - 1] \in V
    BY <1>12, <2>1
  <2>3. x \in Instances[t]
    BY <1>2, <2>2
  <2>4. r[i] = set[x][v[i]]
    BY <1>11
  <2> HIDE DEF x
  <2>5. r[i] = SetValue[t][x][v[i]] /\ v[i] \in Values[t]
    BY <1>1, <2>4 DEF set
  <2>6. SetValue[t][x][v[i]].ok => GetValue[t][SetValue[t][x][v[i]].to] = v[i]
    BY <2>3, <2>5 DEF Assigns, Sound
  <2> QED BY <1>14, <2>5, <2>6
<1> QED BY <1>13, <1>14 DEF r, set, new, V, n

\* Mixed, one type at a time
LEMMA MixedRead ==
  ASSUME NEW t \in AttrType, NEW got \in Values[t], NEW old \in Values[t], NEW new \in Values[t]
  PROVE  Mixed[t][got][old][new] <=>
           \/ got = old \/ got = new
           \/ /\ t \in TypeNames /\ {got, old, new} \cap {Nil, Refused} = {}
              /\ \A i \in DOMAIN got :
                   \/ /\ i \in DOMAIN old \cap DOMAIN new
                      /\ Mixed[PartType(t, i)][got[i]][old[i]][new[i]]
                   \/ i \in DOMAIN new \ DOMAIN old /\ got[i] = new[i]
<1> DEFINE Some(x, y, z) ==
             /\ t \in TypeNames /\ {x, y, z} \cap {Nil, Refused} = {}
             /\ \A i \in DOMAIN x :
                  \/ /\ i \in DOMAIN y \cap DOMAIN z
                     /\ Mixed[PartType(t, i)][x[i]][y[i]][z[i]]
                  \/ i \in DOMAIN z \ DOMAIN y /\ x[i] = z[i]
<1>1. Mixed[t] = [x \in Values[t] |-> [y \in Values[t] |-> [z \in Values[t] |->
                    x = y \/ x = z \/ Some(x, y, z)]]]
  <2> DEFINE Rule(h) == [x \in Values[h] |-> [y \in Values[h] |-> [z \in Values[h] |->
       \/ x = y \/ x = z
       \/ /\ h \in TypeNames /\ {x, y, z} \cap {Nil, Refused} = {}
          /\ \A i \in DOMAIN x :
               \/ /\ i \in DOMAIN y \cap DOMAIN z
                  /\ Mixed[Schema[h].of[IF Schema[h].collection THEN 1 ELSE i]][x[i]][y[i]][z[i]]
               \/ i \in DOMAIN z \ DOMAIN y /\ x[i] = z[i]]]]
  <2>1. Mixed = [h \in AttrType |-> Rule(h)]
    BY MixedRule, Zenon
  <2>2. Mixed[t] = Rule(t)
    <3> HIDE DEF Rule
    <3> QED BY <2>1
  <2> QED BY <2>2, Zenon DEF PartType
<1> HIDE DEF Some
<1>2. Mixed[t][got][old][new] = (got = old \/ got = new \/ Some(got, old, new))
  BY <1>1
<1> QED BY <1>2 DEF Some

\* What is old, or new, is a mixture of both.
LEMMA MixedSame ==
  ASSUME NEW t \in AttrType, NEW got \in Values[t], NEW old \in Values[t], NEW new \in Values[t],
         got = old \/ got = new
  PROVE  Mixed[t][got][old][new]
  BY MixedRead

\* Each part of got is a mixture of those of old and new, or new where old had none.
PartsMixed(t, got, old, new) ==
  \A i \in DOMAIN got :
    \/ /\ i \in DOMAIN old \cap DOMAIN new
       /\ Mixed[PartType(t, i)][got[i]][old[i]][new[i]]
    \/ i \in DOMAIN new \ DOMAIN old /\ got[i] = new[i]

\* A mixture of the parts
LEMMA MixedParts ==
  ASSUME NEW t \in TypeNames, NEW got \in Contents(t, Values),
         NEW old \in Contents(t, Values), NEW new \in Contents(t, Values),
         PartsMixed(t, got, old, new)
  PROVE  Mixed[t][got][old][new]
<1>1. t \in AttrType /\ got \in Values[t] /\ old \in Values[t] /\ new \in Values[t]
  BY RankFacts, IsValue
<1>2. {got, old, new} \cap {Nil, Refused} = {}
  BY ObjectsAssumption
<1> QED BY <1>1, <1>2, MixedRead DEF PartsMixed

\* The length of the content of an instance
LEMMA InstanceLen ==
  ASSUME NEW t \in TypeNames, NEW x \in Instances[t]
  PROVE  Len(x.content) \in Nat /\ DOMAIN x.content = 1 .. Len(x.content)
<1>1. x.content \in Contents(t, Instances)
  BY RankFacts, InstanceParts
<1> DEFINE c == x.content
<1> HIDE DEF c
<1>2. c \in Contents(t, Instances)
  BY <1>1 DEF c
<1>3. Len(c) \in Nat /\ DOMAIN c = 1 .. Len(c)
  BY <1>2, PartsFacts
<1> QED BY <1>3 DEF c

\* The length of a sequence that a function gives
LEMMA LenOf ==
  ASSUME NEW m \in Nat, NEW c
  PROVE  LET s == [i \in 1 .. m |-> c[i]] IN Len(s) = m /\ DOMAIN s = 1 .. m
<1> DEFINE s == [i \in 1 .. m |-> c[i]]
<1>1. s \in Seq({c[i] : i \in 1 .. m}) /\ DOMAIN s = 1 .. m
  OBVIOUS
<1> HIDE DEF s
<1>2. Len(s) = m
  BY <1>1
<1> QED BY <1>1, <1>2 DEF s

\* What an assignment leaves when m parts, now c, are all that it touched
Left(old, ok, m, c) ==
  [to |-> [null |-> IF ok THEN FALSE ELSE old.null, content |-> [i \in 1 .. m |-> c[i]]], ok |-> ok]

\* The parts of what an assignment leaves: if all of them took their values the
\* instance reads as the value, and if not, each is old or new, or the mixture of
\* both that the failing assignment left in it.
LEMMA PartsSound ==
  ASSUME NEW t \in TypeNames, NEW old \in Instances[t], NEW v \in Contents(t, Values),
         NEW m \in Nat, NEW c, NEW ok \in BOOLEAN,
         ~Schema[t].collection => m = Len(Schema[t].of),
         \A i \in 1 .. m : c[i] \in Instances[PartType(t, i)],
         ok => /\ m = Len(v)
               /\ \A i \in 1 .. m : GetValue[PartType(t, i)][c[i]] = v[i],
         ~ok => \A i \in 1 .. m :
                  \/ /\ i \in DOMAIN old.content \cap DOMAIN v
                     /\ Mixed[PartType(t, i)][GetValue[PartType(t, i)][c[i]]]
                             [GetValue[PartType(t, i)][old.content[i]]][v[i]]
                  \/ i \in DOMAIN v \ DOMAIN old.content /\ GetValue[PartType(t, i)][c[i]] = v[i]
  PROVE  Sound(t, old, v, Left(old, ok, m, c))
<1> DEFINE held == [i \in 1 .. m |-> c[i]]
           to == [null |-> IF ok THEN FALSE ELSE old.null, content |-> held]
<1>0. t \in AttrType /\ old.null \in BOOLEAN /\ old.content \in Contents(t, Instances) /\ v \in Values[t]
  BY RankFacts, InstanceParts, IsValue
<1>1. held \in Contents(t, Instances)
  BY IsContents
<1>2. Len(held) = m /\ \A i \in 1 .. m : held[i] = c[i]
  BY LenOf
<1> HIDE DEF held
<1>3. to \in Instances[t] /\ to.content = held /\ to.null = IF ok THEN FALSE ELSE old.null
  BY <1>0, <1>1, IsInstance
<1> HIDE DEF to
<1>4. ASSUME ok PROVE GetValue[t][to] = v
  <2>1. GetValue[t][to] = ReadParts(t, held)
    BY <1>0, <1>3, <1>4, Reads
  <2>2. v = [i \in 1 .. m |-> v[i]] /\ m = Len(v)
    BY <1>4, PartsFacts
  <2>3. ReadParts(t, held) = [i \in 1 .. m |-> v[i]]
    BY <1>2, <1>4 DEF ReadParts
    <2> QED BY <2>1, <2>2, <2>3
<1>5. ASSUME ~ok PROVE Mixed[t][GetValue[t][to]][GetValue[t][old]][v]
  <2>1. GetValue[t][to] \in Values[t] /\ GetValue[t][old] \in Values[t]
    BY <1>0, <1>3, ReadIsValue
  <2>2. CASE old.null
    <3>1. GetValue[t][to] = Nil /\ GetValue[t][old] = Nil
      BY <1>0, <1>3, <1>5, <2>2, Reads
    <3> QED BY <1>0, <2>1, <3>1, MixedSame, Zenon
  <2>3. CASE ~old.null
    <3>1. GetValue[t][to] = ReadParts(t, held) /\ GetValue[t][old] = ReadParts(t, old.content)
      BY <1>0, <1>3, <1>5, <2>3, Reads
    <3>2. GetValue[t][to] \in Contents(t, Values) /\ GetValue[t][old] \in Contents(t, Values)
      BY <1>0, <1>3, <1>5, <2>3, ReadIsValue
    <3>a. Len(old.content) \in Nat /\ DOMAIN old.content = 1 .. Len(old.content)
      BY InstanceLen
    <3>3. DOMAIN ReadParts(t, held) = 1 .. m /\ DOMAIN ReadParts(t, old.content) = DOMAIN old.content
      BY <1>2, <3>a DEF ReadParts
    <3>4. /\ \A i \in 1 .. m : ReadParts(t, held)[i] = GetValue[PartType(t, i)][c[i]]
          /\ \A i \in DOMAIN old.content :
               ReadParts(t, old.content)[i] = GetValue[PartType(t, i)][old.content[i]]
      BY <1>2, <3>a DEF ReadParts
    <3> DEFINE x == ReadParts(t, held)
               y == ReadParts(t, old.content)
    <3> HIDE DEF x, y
    <3>5. ASSUME NEW i \in DOMAIN x
          PROVE  \/ /\ i \in DOMAIN y \cap DOMAIN v
                    /\ Mixed[PartType(t, i)][x[i]][y[i]][v[i]]
                 \/ i \in DOMAIN v \ DOMAIN y /\ x[i] = v[i]
      <4>1. i \in 1 .. m /\ x[i] = GetValue[PartType(t, i)][c[i]] /\ DOMAIN y = DOMAIN old.content
        BY <3>3, <3>4 DEF x, y
      <4>2. i \in DOMAIN old.content => y[i] = GetValue[PartType(t, i)][old.content[i]]
        BY <3>4 DEF y
      <4> QED BY <1>5, <4>1, <4>2
    <3>6. x \in Contents(t, Values) /\ y \in Contents(t, Values) /\ x \in Values[t] /\ y \in Values[t]
      BY <2>1, <3>1, <3>2 DEF x, y
    <3>7. Mixed[t][x][y][v]
      <4>1. PartsMixed(t, x, y, v)
        BY <3>5 DEF PartsMixed
      <4>2. x \in Contents(t, Values) /\ y \in Contents(t, Values) /\ v \in Contents(t, Values)
        BY <3>6
      <4>3. t \in TypeNames
        OBVIOUS
      <4> HIDE DEF x, y
      <4> QED BY <4>1, <4>2, <4>3, MixedParts
    <3> QED BY <3>1, <3>7 DEF x, y
  <2> QED BY <2>2, <2>3, <1>0
<1>6. [to |-> to, ok |-> ok] \in [to : Instances[t], ok : BOOLEAN]
  BY <1>3
<1>7. Left(old, ok, m, c) = [to |-> to, ok |-> ok]
  BY DEF Left, to, held
<1>8. Sound(t, old, v, [to |-> to, ok |-> ok])
  <2>1. CASE ok
    <3>1. [to |-> to, ok |-> TRUE] \in [to : Instances[t], ok : BOOLEAN]
      BY <1>3
    <3> QED BY <1>4, <2>1, <3>1 DEF Sound
  <2>2. CASE ~ok
    <3>1. [to |-> to, ok |-> FALSE] \in [to : Instances[t], ok : BOOLEAN]
      BY <1>3
    <3> QED BY <1>5, <2>2, <3>1 DEF Sound
  <2> QED BY <2>1, <2>2
<1> QED BY <1>7, <1>8

\* Assignments to instances of a type do what they should if those to instances of
\* its parts do.
LEMMA AssignStep ==
  ASSUME NEW t \in AttrType,
         t \in TypeNames => \A i \in 1 .. Len(Schema[t].of) : Assigns(Schema[t].of[i])
  PROVE  Assigns(t)
<1> SUFFICES ASSUME NEW old \in Instances[t], NEW v \in Values[t]
             PROVE  Sound(t, old, v, SetValue[t][old][v])
  BY DEF Assigns
<1>0. SetValue[t][old][v] = Assigned(t, SetValue, old, v)
  <2>1. SetValue[t] = [o \in Instances[t] |-> [w \in Values[t] |-> Assigned(t, SetValue, o, w)]]
    <3> DEFINE All(h, u) == [o \in Instances[u] |-> [w \in Values[u] |-> Assigned(u, h, o, w)]]
    <3>1. SetValue = [u \in AttrType |-> All(SetValue, u)]
      BY SetValueRule, Zenon
    <3> HIDE DEF All
    <3>2. SetValue[t] = All(SetValue, t)
      BY <3>1, Zenon
    <3> QED BY <3>2, Zenon DEF All
  <2> DEFINE One(o, w) == Assigned(t, SetValue, o, w)
  <2>2. SetValue[t] = [o \in Instances[t] |-> [w \in Values[t] |-> One(o, w)]]
    BY <2>1
  <2> HIDE DEF One
  <2>3. SetValue[t][old][v] = One(old, v)
    BY <2>2
  <2> QED BY <2>3 DEF One
<1> SUFFICES Sound(t, old, v, Assigned(t, SetValue, old, v))
  BY <1>0
<1>1. CASE v = Nil
  <2> DEFINE to == [null |-> TRUE, content |-> old.content]
  <2>1. Assigned(t, SetValue, old, v) = [to |-> to, ok |-> TRUE]
    BY <1>1 DEF Assigned
  <2>2. to \in Instances[t] /\ to.null
    BY InstanceParts, IsInstance
  <2>3. GetValue[t][to] = Nil
    BY <2>2, Reads
  <2> HIDE DEF to
  <2> QED BY <1>1, <2>1, <2>2, <2>3 DEF Sound
<1>2. CASE v # Nil /\ v = Refused
  <2>1. Assigned(t, SetValue, old, v) = [to |-> old, ok |-> FALSE]
    BY <1>2 DEF Assigned
  <2>2. Mixed[t][GetValue[t][old]][GetValue[t][old]][v]
    BY ReadIsValue, MixedSame
  <2> QED BY <2>1, <2>2 DEF Sound
<1>3. CASE v \notin {Nil, Refused} /\ t \notin TypeNames
  <2> DEFINE to == [null |-> FALSE, content |-> v]
  <2>1. Assigned(t, SetValue, old, v) = [to |-> to, ok |-> TRUE]
    BY <1>3 DEF Assigned
  <2>2. to \in Instances[t] /\ ~to.null /\ to.content = v
    BY <1>3, ValueParts, IsInstance
  <2>3. GetValue[t][to] = v
    BY <1>3, <2>2, Reads
  <2> HIDE DEF to
  <2> QED BY <2>1, <2>2, <2>3 DEF Sound
<1>4. CASE v \notin {Nil, Refused} /\ t \in TypeNames /\ Schema[t].collection
  <2> DEFINE elt == Schema[t].of[1]
             r == ElementResults(SetValue[elt], NewInstance[elt], v)
             k == FirstFailure(r)
             ok == k > Len(r)
             size == IF Len(r) < Len(old.content) THEN Len(r) ELSE Len(old.content)
             m == IF size < k THEN k - 1 ELSE size
             c == [i \in 1 .. m |-> IF i < k THEN r[i].to ELSE old.content[i]]
  <2>1. v \in Contents(t, Values) /\ v \in Seq(Values[elt]) /\ elt \in AttrType /\ Assigns(elt)
        /\ \A i : PartType(t, i) = elt
    <3>1. Len(Schema[t].of) = 1
      BY <1>4, RankFacts
    <3>2. 1 \in 1 .. Len(Schema[t].of)
      BY <3>1
    <3>3. v \in Contents(t, Values) /\ v \in Seq(Values[elt])
      BY <1>4, ValueParts, ContentsFacts
    <3>4. elt \in AttrType /\ Assigns(elt)
      BY <1>4, <3>2, RankFacts
    <3> QED BY <1>4, <3>3, <3>4 DEF PartType
  <2>2. old.content \in Seq(Instances[elt]) /\ old.content \in Contents(t, Instances)
    BY <1>4, InstanceParts, ContentsFacts
  <2>3. Assigned(t, SetValue, old, v) =
          [to |-> [null |-> IF ok THEN FALSE ELSE old.null, content |-> c], ok |-> ok]
    BY <1>4, Zenon DEF Assigned, AssignedUpTo
  <2>4. /\ r \in Seq([to : Instances[elt], ok : BOOLEAN]) /\ Len(r) = Len(v)
        /\ \A i \in 1 .. Len(v) : r[i].ok => GetValue[elt][r[i].to] = v[i]
    BY <2>1, ElementFacts
  <2> HIDE DEF r
  <2>5. /\ k \in 1 .. Len(r) + 1 /\ \A i \in 1 .. Len(r) : i < k => r[i].ok
    BY <2>4, FailureFacts
  <2>6. Len(r) \in Nat /\ Len(old.content) \in Nat /\ DOMAIN old.content = 1 .. Len(old.content)
        /\ DOMAIN v = 1 .. Len(r)
    BY <2>1, <2>2, <2>4
  <2> HIDE DEF k, elt
  <2>7. m \in Nat /\ (ok => m = Len(r) /\ k = Len(r) + 1)
        /\ \A i \in 1 .. m : /\ i \in 1 .. Len(r)
                             /\ i >= k => i \in 1 .. Len(old.content)
    BY <2>5, <2>6
  <2> HIDE DEF m
  <2>8. \A i \in 1 .. Len(r) : r[i].to \in Instances[elt]
    <3> DEFINE R == [to : Instances[elt], ok : BOOLEAN]
    <3>1. \A e \in R : e.to \in Instances[elt]
      OBVIOUS
    <3>2. r \in Seq(R)
      BY <2>4
    <3> HIDE DEF R
    <3> QED BY <3>1, <3>2
  <2>9. \A i \in 1 .. m : c[i] \in Instances[elt]
    <3> TAKE i \in 1 .. m
    <3>1. i < k => r[i].to \in Instances[elt]
      BY <2>7, <2>8
    <3>2. ~(i < k) => old.content[i] \in Instances[elt]
      BY <2>2, <2>5, <2>7
    <3> QED BY <3>1, <3>2
  <2>10. ASSUME NEW i \in 1 .. m, i < k PROVE GetValue[elt][c[i]] = v[i] /\ v[i] \in Values[elt]
    BY <2>1, <2>4, <2>5, <2>7, <2>10
  <2>11. ASSUME NEW i \in 1 .. m, ~(i < k)
         PROVE  c[i] = old.content[i] /\ i \in DOMAIN old.content /\ i \in DOMAIN v
    BY <2>5, <2>6, <2>7, <2>11
  <2>12. ok => m = Len(v) /\ \A i \in 1 .. m : GetValue[elt][c[i]] = v[i]
    BY <2>4, <2>5, <2>6, <2>7, <2>10
  <2>13. c = [i \in 1 .. m |-> c[i]]
    OBVIOUS
  <2> HIDE DEF c
  <2>14. ASSUME NEW i \in 1 .. m
         PROVE  \/ /\ i \in DOMAIN old.content \cap DOMAIN v
                   /\ Mixed[elt][GetValue[elt][c[i]]][GetValue[elt][old.content[i]]][v[i]]
                \/ i \in DOMAIN v \ DOMAIN old.content /\ GetValue[elt][c[i]] = v[i]
    <3>1. i \in DOMAIN v /\ v[i] \in Values[elt] /\ GetValue[elt][c[i]] \in Values[elt]
      BY <2>1, <2>6, <2>7, <2>9, ReadIsValue
    <3>2. ASSUME i \in DOMAIN old.content
          PROVE  Mixed[elt][GetValue[elt][c[i]]][GetValue[elt][old.content[i]]][v[i]]
      <4>1. GetValue[elt][old.content[i]] \in Values[elt]
        BY <2>1, <2>2, <3>2, ReadIsValue
      <4>2. GetValue[elt][c[i]] = v[i] \/ GetValue[elt][c[i]] = GetValue[elt][old.content[i]]
        BY <2>10, <2>11
      <4> QED BY <2>1, <3>1, <4>1, <4>2, MixedSame, Zenon
    <3>3. ASSUME i \notin DOMAIN old.content PROVE GetValue[elt][c[i]] = v[i]
      BY <2>10, <2>11, <3>3
    <3> QED BY <3>1, <3>2, <3>3
  <2> HIDE DEF ok
  <2>15. ok \in BOOLEAN
    BY DEF ok
  <2>16. Sound(t, old, v, Left(old, ok, m, c))
    <3>1. \A i \in 1 .. m : c[i] \in Instances[PartType(t, i)]
      BY <2>1, <2>9
    <3>2. ok => m = Len(v) /\ \A i \in 1 .. m : GetValue[PartType(t, i)][c[i]] = v[i]
      BY <2>1, <2>12
    <3>3. \A i \in 1 .. m :
            \/ /\ i \in DOMAIN old.content \cap DOMAIN v
               /\ Mixed[PartType(t, i)][GetValue[PartType(t, i)][c[i]]]
                       [GetValue[PartType(t, i)][old.content[i]]][v[i]]
            \/ i \in DOMAIN v \ DOMAIN old.content /\ GetValue[PartType(t, i)][c[i]] = v[i]
      <4> TAKE i \in 1 .. m
      <4>1. PartType(t, i) = elt
        BY <2>1
      <4> QED BY <2>14, <4>1
    <3> QED BY <1>4, <2>1, <2>7, <2>15, <3>1, <3>2, <3>3, PartsSound, Zenon
  <2> QED BY <2>3, <2>13, <2>16 DEF Left
<1>5. CASE v \notin {Nil, Refused} /\ t \in TypeNames /\ ~Schema[t].collection
  <2> DEFINE of == Schema[t].of
             n == Len(of)
             r == [i \in DOMAIN of |-> SetValue[of[i]][old.content[i]][v[i]]]
             k == FirstFailure(r)
             ok == k > Len(r)
             c == [i \in DOMAIN of |-> IF i <= k THEN r[i].to ELSE old.content[i]]
  <2>1. n \in Nat /\ DOMAIN of = 1 .. n /\ \A i \in 1 .. n : of[i] \in AttrType /\ PartType(t, i) = of[i]
    BY <1>5, RankFacts DEF PartType
  <2>2. /\ v \in Contents(t, Values) /\ DOMAIN v = 1 .. n /\ Len(v) = n
        /\ \A i \in 1 .. n : v[i] \in Values[of[i]]
    BY <1>5, <2>1, ValueParts, PartsFacts
  <2>3. DOMAIN old.content = 1 .. n /\ \A i \in 1 .. n : old.content[i] \in Instances[of[i]]
    BY <1>5, <2>1, InstanceParts, PartsFacts
  <2>4. Assigned(t, SetValue, old, v) =
          [to |-> [null |-> IF ok THEN FALSE ELSE old.null, content |-> c], ok |-> ok]
    BY <1>5, Zenon DEF Assigned
  <2>5. \A i \in 1 .. n : Sound(of[i], old.content[i], v[i], r[i])
    <3> TAKE i \in 1 .. n
    <3>1. Assigns(of[i]) /\ r[i] = SetValue[of[i]][old.content[i]][v[i]]
      BY <1>5, <2>1
    <3>2. old.content[i] \in Instances[of[i]] /\ v[i] \in Values[of[i]]
      BY <2>2, <2>3
    <3> HIDE DEF of, r
    <3> QED BY <3>1, <3>2 DEF Assigns
  <2>6. r = [i \in 1 .. n |-> r[i]] /\ c = [i \in 1 .. n |-> c[i]]
        /\ \A i \in 1 .. n : c[i] = IF i <= k THEN r[i].to ELSE old.content[i]
    BY <2>1
  <2> HIDE DEF r, c, n, of
  <2>7. \A i \in 1 .. n : r[i] \in [to : Instances[of[i]], ok : BOOLEAN]
    BY <2>5 DEF Sound
  <2> DEFINE V == UNION {Instances[of[i]] : i \in 1 .. n}
  <2>8. r \in Seq([to : V, ok : BOOLEAN]) /\ Len(r) = n
    <3>1. ASSUME NEW i \in 1 .. n PROVE r[i] \in [to : V, ok : BOOLEAN]
      <4>1. Instances[of[i]] \subseteq V
        OBVIOUS
      <4> HIDE DEF V
      <4> QED BY <2>7, <4>1
    <3> DEFINE R == [to : V, ok : BOOLEAN]
    <3> HIDE DEF R
    <3>2. \A i \in 1 .. n : r[i] \in R
      BY <3>1 DEF R
    <3>3. r \in [1 .. n -> R]
      BY <2>6, <3>2
    <3>4. r \in Seq(R) /\ Len(r) = n
      BY <2>1, <3>3
    <3> QED BY <3>4 DEF R
  <2>9. k \in 1 .. n + 1 /\ \A i \in 1 .. n : i < k => r[i].ok
        /\ (k \in 1 .. n => ~r[k].ok)
    BY <2>8, FailureFacts
  <2> HIDE DEF k
  <2>10. ASSUME NEW i \in 1 .. n PROVE c[i] \in Instances[of[i]]
    <3>1. r[i].to \in Instances[of[i]]
      BY <2>7
    <3> QED BY <2>3, <2>6, <3>1
  <2>11. ok => \A i \in 1 .. n : GetValue[of[i]][c[i]] = v[i]
    <3> SUFFICES ASSUME k > n, NEW i \in 1 .. n PROVE GetValue[of[i]][c[i]] = v[i]
      BY <2>8
    <3>1. i <= k /\ i < k /\ r[i].ok
      BY <2>1, <2>9
    <3> QED BY <2>5, <2>6, <3>1 DEF Sound
  <2>12. ASSUME NEW i \in 1 .. n
         PROVE  Mixed[of[i]][GetValue[of[i]][c[i]]][GetValue[of[i]][old.content[i]]][v[i]]
    <3>1. /\ GetValue[of[i]][c[i]] \in Values[of[i]]
          /\ GetValue[of[i]][old.content[i]] \in Values[of[i]]
      BY <2>1, <2>3, <2>10, ReadIsValue
    <3>2. CASE i <= k
      <4>1. c[i] = r[i].to
        BY <2>6, <3>2
      <4>2. CASE r[i].ok
        <5>1. GetValue[of[i]][c[i]] = v[i]
          BY <2>5, <4>1, <4>2 DEF Sound
        <5> QED BY <2>1, <2>2, <3>1, <5>1, MixedSame, Zenon
      <4>3. CASE ~r[i].ok
        BY <2>5, <4>1, <4>3 DEF Sound
      <4> QED BY <4>2, <4>3
    <3>3. CASE ~(i <= k)
      <4>1. c[i] = old.content[i]
        BY <2>6, <3>3
      <4>2. GetValue[of[i]][c[i]] = GetValue[of[i]][old.content[i]]
        BY <4>1
      <4> QED BY <2>1, <2>2, <3>1, <4>2, MixedSame, Zenon
    <3> QED BY <3>2, <3>3
  <2> HIDE DEF ok
  <2>13. ok \in BOOLEAN
    BY DEF ok
  <2>14. Sound(t, old, v, Left(old, ok, n, c))
    <3>1. \A i \in 1 .. n : c[i] \in Instances[PartType(t, i)]
      BY <2>1, <2>10
    <3>2. ok => n = Len(v) /\ \A i \in 1 .. n : GetValue[PartType(t, i)][c[i]] = v[i]
      BY <2>1, <2>2, <2>11
    <3>3. \A i \in 1 .. n :
            /\ i \in DOMAIN old.content \cap DOMAIN v
            /\ Mixed[PartType(t, i)][GetValue[PartType(t, i)][c[i]]]
                    [GetValue[PartType(t, i)][old.content[i]]][v[i]]
      BY <2>1, <2>2, <2>3, <2>12
    <3>4. n = Len(Schema[t].of)
      BY DEF n, of
    <3> QED BY <1>5, <2>1, <2>2, <2>13, <3>1, <3>2, <3>3, <3>4, PartsSound, Zenon
  <2> QED BY <2>4, <2>6, <2>14 DEF Left
<1> QED BY <1>1, <1>2, <1>3, <1>4, <1>5

\* So assignments to instances of any type do what they should.
LEMMA AllAssign == \A t \in AttrType : Assigns(t)
<1> DEFINE S == {t \in AttrType : Assigns(t)}
<1>1. \A t \in AttrType :
        (t \in TypeNames => \A i \in 1 .. Len(Schema[t].of) : Schema[t].of[i] \in S) => t \in S
  BY AssignStep
<1> HIDE DEF S
<1>2. AttrType \subseteq S
  BY <1>1, TypeInduction
<1> QED BY <1>2 DEF S

(* The elements of a bind variable are there once all were made; what it was
   assigned is known. *)
ObjectsTypes ==
  /\ objectStage \in {"new", "ready", "failed", "freed"}
  /\ before \in Values[ObjectType] /\ tried \in Values[ObjectType] /\ done \in BOOLEAN
  /\ objectStage = "new" => tried = Nil /\ done
  /\ objectStage = "ready" => instance \in [1 .. ObjectElements -> Instances[ObjectType]]

ObjectsInv == ObjectsTypes /\ ObjectHoldsAssigned

ObjectsSpec == StoreInit /\ [][StoreNext]_storeVars

\* The type of the bind variable
LEMMA ObjectTypeFacts ==
  /\ ObjectType \in AttrType /\ 1 \in 1 .. ObjectElements /\ Nil \in Values[ObjectType]
  /\ \A v \in Assignments : v \in Values[ObjectType]
<1>1. ObjectType \in AttrType
  BY ObjectsAssumption, RankFacts
<1>2. Nil \in Values[ObjectType]
  <2>1. Values[ObjectType] = {Nil, Refused} \union
          (IF ObjectType \in TypeNames THEN Contents(ObjectType, Values) ELSE ScalarValues)
    BY <1>1, ValuesRule
  <2> QED BY <2>1
<1> QED BY <1>1, <1>2, ObjectsAssumption

\* A bind variable that was not made yet
LEMMA ObjectsInitInv == StoreInit => ObjectsInv
  BY ObjectTypeFacts DEF StoreInit, ObjectsInv, ObjectsTypes, ObjectHoldsAssigned

\* New instances read as nil.
LEMMA InitObjectsInv == ObjectsInv /\ InitObjects => ObjectsInv'
<1> SUFFICES ASSUME ObjectsInv, InitObjects PROVE ObjectsInv'
  OBVIOUS
<1>1. /\ objectStage' \in {"ready", "failed"} /\ UNCHANGED <<before, tried, done>>
      /\ tried = Nil /\ done
      /\ objectStage' = "ready" =>
           instance' = [i \in 1 .. ObjectElements |-> NewInstance[ObjectType]]
  <2>1. PICK n \in 0 .. ObjectElements :
          /\ instance' = [i \in 1 .. ObjectElements |-> IF i <= n THEN NewInstance[ObjectType] ELSE Nil]
          /\ objectStage' = IF n = ObjectElements THEN "ready" ELSE "failed"
    BY DEF InitObjects
  <2>2. n = ObjectElements =>
          instance' = [i \in 1 .. ObjectElements |-> NewInstance[ObjectType]]
    BY <2>1, ObjectsAssumption
  <2> QED BY <2>1, <2>2 DEF InitObjects, ObjectsInv, ObjectsTypes
<1>2. NewInstance[ObjectType] \in Instances[ObjectType] /\ GetValue[ObjectType][NewInstance[ObjectType]] = Nil
  <2>1. NewInstance[ObjectType] \in Instances[ObjectType]
    BY ObjectTypeFacts, NewIsInstance
  <2>2. NewInstance[ObjectType].null
    BY ObjectTypeFacts, NewInstanceRule
  <2> QED BY <2>1, <2>2, ObjectTypeFacts, Reads
<1>3. ObjectsTypes'
  BY <1>1, <1>2 DEF ObjectsInv, ObjectsTypes
<1>4. ObjectHoldsAssigned'
  <2> SUFFICES ASSUME objectStage' = "ready"
               PROVE  done' /\ GetValue[ObjectType][instance'[1]] = tried'
    BY DEF ObjectHoldsAssigned
  <2>1. instance'[1] = NewInstance[ObjectType]
    BY <1>1, ObjectTypeFacts
  <2> QED BY <1>1, <1>2, <2>1
<1> QED BY <1>3, <1>4 DEF ObjectsInv

\* An assignment
LEMMA AssignObjectInv ==
  ASSUME ObjectsInv, NEW v \in Assignments, AssignObject(v)
  PROVE  ObjectsInv'
<1> DEFINE old == instance[1]
           result == SetValue[ObjectType][old][v]
<1>1. /\ objectStage = "ready" /\ objectStage' = "ready"
      /\ instance' = [instance EXCEPT ![1] = result.to]
      /\ before' = GetValue[ObjectType][old] /\ tried' = v /\ done' = result.ok
  BY DEF AssignObject
<1>2. /\ instance \in [1 .. ObjectElements -> Instances[ObjectType]] /\ old \in Instances[ObjectType]
      /\ v \in Values[ObjectType]
  BY <1>1, ObjectTypeFacts DEF ObjectsInv, ObjectsTypes
<1> HIDE DEF old
<1>3. Sound(ObjectType, old, v, result)
  BY <1>2, ObjectTypeFacts, AllAssign DEF Assigns
<1> HIDE DEF result
<1>4. result.to \in Instances[ObjectType] /\ result.ok \in BOOLEAN
  BY <1>3 DEF Sound
<1>5. /\ instance' \in [1 .. ObjectElements -> Instances[ObjectType]]
      /\ instance'[1] = result.to
  BY <1>1, <1>2, <1>4, ObjectTypeFacts
<1>6. before' \in Values[ObjectType]
  BY <1>1, <1>2, ObjectTypeFacts, ReadIsValue
<1>7. ObjectsTypes'
  BY <1>1, <1>2, <1>4, <1>5, <1>6 DEF ObjectsTypes
<1>8. ObjectHoldsAssigned'
  BY <1>1, <1>3, <1>5 DEF ObjectHoldsAssigned, Sound
<1> QED BY <1>7, <1>8 DEF ObjectsInv

\* Every step keeps the invariant.
LEMMA ObjectsStepInv == ObjectsInv /\ [StoreNext]_storeVars => ObjectsInv'
<1> SUFFICES ASSUME ObjectsInv, [StoreNext]_storeVars PROVE ObjectsInv'
  OBVIOUS
<1>1. CASE InitObjects
  BY <1>1, InitObjectsInv
<1>2. ASSUME NEW v \in Assignments, AssignObject(v) PROVE ObjectsInv'
  BY <1>2, AssignObjectInv
<1>3. CASE FreeObjects
  BY <1>3 DEF FreeObjects, ObjectsInv, ObjectsTypes, ObjectHoldsAssigned
<1>4. CASE UNCHANGED storeVars
  BY <1>4 DEF storeVars, ObjectsInv, ObjectsTypes, ObjectHoldsAssigned
<1> QED BY <1>1, <1>2, <1>3, <1>4 DEF StoreNext

(***************************************************************************)
(* Whatever the types are, nested objects and collections of them          *)
(* included, an object reads as what was last assigned to it, and a        *)
(* failed assignment leaves each part old or new.                          *)
(***************************************************************************)
THEOREM ObjectsHold == ObjectsSpec => []ObjectHoldsAssigned
<1>1. ObjectsInv => ObjectHoldsAssigned
  BY DEF ObjectsInv
<1> QED BY ObjectsInitInv, ObjectsStepInv, <1>1, PTL DEF ObjectsSpec
-------------------------------------------------------------------------------
(***************************************************************************)
(* Client: each behaviour is one of a single part, so every part's         *)
(* specification holds of it, and with it what was proved of the part.     *)
(***************************************************************************)

\* Parts start in the states that their specifications start with.
LEMMA PartsInit ==
  Init => /\ NumberTextInit(Texts)
          /\ HandlesInit /\ StringInit /\ OraDateInit /\ TimeBindInit(BindTypes)
          /\ AttributesInit(AttrTypes, BOOLEAN) /\ LayoutInit /\ StoreInit
          /\ SocketInit /\ SettingsInit /\ ErrorInit
<1> SUFFICES ASSUME Init
             PROVE  /\ NumberTextInit(Texts) /\ TimeBindInit(BindTypes)
                    /\ AttributesInit(AttrTypes, BOOLEAN)
  BY Zenon DEF Init
<1>1. \A p, S : S # {} => Start(p, S) \subseteq S
  BY DEF Start
<1>2. Texts # {} /\ BindTypes # {} /\ AttrTypes # {} /\ BOOLEAN # {}
  <2>1. [kind |-> "infinity", negative |-> TRUE] \in Texts
    BY DEF Texts
  <2> QED BY <2>1 DEF BindTypes, AttrTypes
<1>3. /\ Start("text", Texts) \subseteq Texts
      /\ Start("time", BindTypes) \subseteq BindTypes
      /\ Start("attribute", AttrTypes) \subseteq AttrTypes
      /\ Start("attribute", BOOLEAN) \subseteq BOOLEAN
  BY <1>1, <1>2, Zenon
<1>4. /\ NumberTextInit(Start("text", Texts)) /\ TimeBindInit(Start("time", BindTypes))
      /\ AttributesInit(Start("attribute", AttrTypes), Start("attribute", BOOLEAN))
  BY Zenon DEF Init
<1>5. TimeBindInit(BindTypes)
  BY <1>3, <1>4 DEF TimeBindInit
<1>6. AttributesInit(AttrTypes, BOOLEAN)
  BY <1>3, <1>4 DEF AttributesInit
<1>7. NumberTextInit(Texts)
  BY <1>3, <1>4 DEF NumberTextInit
<1> QED BY <1>5, <1>6, <1>7

\* A step of Client is one of each part, or leaves it as it is.
LEMMA PartsStep ==
  [Next]_vars => /\ [NumberTextNext]_numberTextVars
                 /\ [HandlesNext]_handleVars /\ [StringNext]_stringVars
                 /\ [OraDateNext]_oraDateVars /\ [TimeBindNext]_timeBindVars
                 /\ [AttributesNext]_attributeVars /\ [LayoutNext]_layoutVars
                 /\ [StoreNext]_storeVars /\ [ErrorNext]_errorVars
                 /\ [ProcessNext]_<<socketVars, settingVars>>
<1>1. CASE UNCHANGED vars
  BY <1>1 DEF vars
<1>2. CASE Next
  <2>1. /\ [NumberTextNext]_numberTextVars
        /\ [HandlesNext]_handleVars /\ [StringNext]_stringVars
        /\ [OraDateNext]_oraDateVars /\ [TimeBindNext]_timeBindVars
        /\ [AttributesNext]_attributeVars /\ [LayoutNext]_layoutVars
        /\ [StoreNext]_storeVars /\ [ErrorNext]_errorVars
    BY <1>2 DEF Next
  <2>2. SocketsNext => ProcessNext
    BY DEF SocketsNext, ProcessNext, SettingsNext
  <2>3. SettingsNext => ProcessNext
    BY DEF ProcessNext
  <2>4. SocketsNext \/ SettingsNext \/ UNCHANGED <<socketVars, settingVars>>
    BY <1>2 DEF Next
  <2> QED BY <2>1, <2>2, <2>3, <2>4
<1> QED BY <1>1, <1>2

LEMMA PartsSpec ==
  Spec => /\ NumberTextSpec /\ HandlesSpec /\ StringSpec /\ OraDateSpec /\ TimeBindSpec /\ AttributesSpec
          /\ LayoutSpec /\ ObjectsSpec /\ ErrorSpec /\ ProcessSpec
  BY PartsInit, PartsStep, PTL
     DEF Spec, NumberTextSpec, HandlesSpec, StringSpec, OraDateSpec, TimeBindSpec, AttributesSpec, LayoutSpec,
         ObjectsSpec, ErrorSpec, ProcessSpec

(***************************************************************************)
(* So whatever goes on in a process: handles of bind variables are kept,   *)
(* numbers, strings, dates and times come back, attributes and objects     *)
(* hold what was assigned, layouts fit, errors are reported once and by    *)
(* their own calls, a shutdown finds the readers, and properties are in    *)
(* effect.                                                                 *)
(***************************************************************************)
THEOREM ClientSafe ==
  Spec => [](/\ RoundTrip /\ HandlesKept /\ StringKept /\ DatesInOrder /\ TimesKept /\ AttributeKept
             /\ LayoutFits /\ ObjectHoldsAssigned /\ ReportsOwnError
             /\ EntriesFound /\ SettingsInEffect)
  BY PartsSpec, PrintedReadsSame, HandlesAlwaysKept, StringsKept, DatesAlwaysInOrder, TimesAlwaysKept, AttributesKept,
     LayoutsFit, ObjectsHold, OwnErrorReported, ReadersFound, SettingsHold, PTL
===============================================================================
