--------------------------- MODULE HandleTreeProofs ---------------------------
(***************************************************************************)
(* For any number of handles and natives, the rings and the frames of      *)
(* HandleTree stay in order, no pointer leads to memory given back, the    *)
(* rings implement an ordered forest, and each native is released once.    *)
(***************************************************************************)
EXTENDS HandleTreeRefinement, Recursion, FiniteSetTheorems, SequenceTheorems

(***************************************************************************)
(* The pointer operations keep the sibling rings well formed.              *)
(***************************************************************************)

\* oci8_unlink_from_parent returns pointers to handles
LEMMA UnlinkedType ==
  ASSUME NEW r \in Ring, NEW b \in Handle
  PROVE  Unlinked(r, b) \in Ring
  BY NullAssumption DEF Ring, Unlinked, Pointer

\* The shape of the ring after oci8_unlink_from_parent has spliced b out of a
\* ring of several siblings.
LEMMA Spliced ==
  ASSUME NEW r \in Ring, RingOK(r), NEW b \in Handle,
         r.parent[b] # Null, r.next[b] # b
  PROVE  LET u == Unlinked(r, b) IN
         /\ r.parent[b] \in Handle /\ r.prev[b] # b
         /\ \A h \in Handle : u.parent[h] = IF h = b THEN Null ELSE r.parent[h]
         /\ \A h \in Handle : u.next[h] = IF h = b THEN b
                                          ELSE IF h = r.prev[b] THEN r.next[b]
                                          ELSE r.next[h]
         /\ \A h \in Handle : u.prev[h] = IF h = b THEN b
                                          ELSE IF h = r.next[b] THEN r.prev[b]
                                          ELSE r.prev[h]
         /\ \A h \in Handle : u.children[h] = IF h = r.parent[b] /\ r.children[h] = b
                                              THEN r.next[b] ELSE r.children[h]
  <1>1. r.prev[b] # b
    BY DEF RingOK, RingsClosed, Ring
  <1>2. r.parent[b] \in Handle
    BY DEF Ring, Pointer
  <1> QED
    BY <1>1, <1>2 DEF Unlinked, Ring, Pointer

\* oci8_unlink_from_parent keeps the rings well formed
LEMMA UnlinkedOK ==
  ASSUME NEW r \in Ring, RingOK(r), NEW b \in Handle
  PROVE  RingOK(Unlinked(r, b))
  <1> DEFINE u == Unlinked(r, b)
  <1> DEFINE q == r.parent[b]
  <1>type. u \in Ring
    BY UnlinkedType
  <1>1. CASE r.parent[b] = Null
    BY <1>1 DEF Unlinked
  <1>2. CASE r.parent[b] # Null /\ r.next[b] = b
    <2>1. q \in Handle
      BY <1>2 DEF Ring, Pointer
    <2>2. /\ u.next = r.next /\ u.prev = r.prev
          /\ u.parent = [r.parent EXCEPT ![b] = Null]
          /\ u.children = [r.children EXCEPT ![q] = Null]
      BY <1>2 DEF Unlinked
    <2>3. ChildrenOf(r, q) = {b}
      <3>1. {b} \in SUBSET ChildrenOf(r, q)
        BY DEF ChildrenOf
      <3>2. {b} # {} /\ \A h \in {b} : r.next[h] \in {b}
        BY <1>2
      <3> QED
        BY <2>1, <3>1, <3>2 DEF RingOK, OneRing
    <2>4. \A p \in Handle : ChildrenOf(u, p) = IF p = q THEN {} ELSE ChildrenOf(r, p)
      <3> TAKE p \in Handle
      <3>1. ChildrenOf(u, p) = ChildrenOf(r, p) \ {b}
        BY <2>2, NullAssumption DEF ChildrenOf, Ring
      <3>2. p # q => b \notin ChildrenOf(r, p)
        BY DEF ChildrenOf
      <3> QED
        BY <2>3, <3>1, <3>2
    <2>5. RingsClosed(u)
      <3> SUFFICES ASSUME NEW h \in Handle
                   PROVE  u.prev[u.next[h]] = h /\ u.next[u.prev[h]] = h
                          /\ u.parent[u.next[h]] = u.parent[h]
        BY DEF RingsClosed
      <3>1. r.next[h] = b <=> h = b
        BY <1>2 DEF RingOK, RingsClosed
      <3> QED
        BY <2>2, <3>1 DEF RingOK, RingsClosed, Ring
    <2>6. OrphansAlone(u)
      BY <1>2, <2>2 DEF RingOK, OrphansAlone, Ring
    <2>7. HeadsOK(u)
      <3> SUFFICES ASSUME NEW p \in Handle
                   PROVE  /\ u.children[p] # Null => u.parent[u.children[p]] = p
                          /\ u.children[p] = Null => ChildrenOf(u, p) = {}
        BY DEF HeadsOK
      <3>1. CASE p = q
        BY <2>1, <2>2, <2>4, <3>1 DEF Ring
      <3>2. CASE p # q
        <4>1. u.children[p] = r.children[p] /\ ChildrenOf(u, p) = ChildrenOf(r, p)
          BY <2>2, <2>4, <3>2 DEF Ring
        <4>2. r.children[p] # Null => r.children[p] \in Handle /\ r.parent[r.children[p]] = p
          BY DEF RingOK, HeadsOK, Ring, Pointer
        <4> QED
          BY <2>2, <3>2, <4>1, <4>2 DEF RingOK, HeadsOK, Ring
      <3> QED
        BY <3>1, <3>2
    <2>8. OneRing(u)
      <3> SUFFICES ASSUME NEW p \in Handle, NEW S \in SUBSET ChildrenOf(u, p),
                          S # {}, \A h \in S : u.next[h] \in S
                   PROVE  S = ChildrenOf(u, p)
        BY DEF OneRing
      <3>1. p # q /\ ChildrenOf(u, p) = ChildrenOf(r, p)
        BY <2>4
      <3> QED
        BY <2>2, <3>1 DEF RingOK, OneRing
    <2> QED
      BY <2>5, <2>6, <2>7, <2>8 DEF RingOK
  <1>3. CASE r.parent[b] # Null /\ r.next[b] # b
    <2> DEFINE before == r.prev[b]
               after  == r.next[b]
    <2>1. /\ q \in Handle /\ before \in Handle /\ after \in Handle
          /\ before # b /\ after # b
      BY <1>3, Spliced DEF Ring
    <2>2. /\ \A h \in Handle : u.parent[h] = IF h = b THEN Null ELSE r.parent[h]
          /\ \A h \in Handle : u.next[h] = IF h = b THEN b
                                           ELSE IF h = before THEN after ELSE r.next[h]
          /\ \A h \in Handle : u.prev[h] = IF h = b THEN b
                                           ELSE IF h = after THEN before ELSE r.prev[h]
          /\ \A h \in Handle : u.children[h] = IF h = q /\ r.children[h] = b
                                               THEN after ELSE r.children[h]
      BY <1>3, Spliced
    <2>3. r.parent[before] = q /\ r.parent[after] = q
      BY <2>1 DEF RingOK, RingsClosed
    <2>4. \A h \in Handle : (r.next[h] = b <=> h = before) /\ (r.prev[h] = b <=> h = after)
      BY <2>1 DEF RingOK, RingsClosed, Ring
    <2>5. \A p \in Handle : ChildrenOf(u, p) = ChildrenOf(r, p) \ {b}
      BY <2>2, NullAssumption DEF ChildrenOf
    <2>6. RingsClosed(u)
      <3> SUFFICES ASSUME NEW h \in Handle
                   PROVE  /\ u.prev[u.next[h]] = h
                          /\ u.next[u.prev[h]] = h
                          /\ u.parent[u.next[h]] = u.parent[h]
        BY DEF RingsClosed
      <3>1. /\ r.prev[r.next[h]] = h /\ r.next[r.prev[h]] = h
            /\ r.parent[r.next[h]] = r.parent[h]
            /\ r.next[h] \in Handle /\ r.prev[h] \in Handle
        BY DEF RingOK, RingsClosed, Ring
      <3>2. u.prev[u.next[h]] = h
        BY <2>1, <2>2, <2>4, <3>1
      <3>3. u.next[u.prev[h]] = h
        BY <2>1, <2>2, <2>4, <3>1
      <3>4. u.parent[u.next[h]] = u.parent[h]
        BY <2>1, <2>2, <2>3, <2>4, <3>1
      <3> QED
        BY <3>2, <3>3, <3>4
    <2>7. OrphansAlone(u)
      BY <1>3, <2>1, <2>2, <2>3 DEF RingOK, OrphansAlone
    <2>8. HeadsOK(u)
      <3> SUFFICES ASSUME NEW p \in Handle
                   PROVE  /\ u.children[p] # Null => u.parent[u.children[p]] = p
                          /\ u.children[p] = Null => ChildrenOf(u, p) = {}
        BY DEF HeadsOK
      <3>1. /\ r.children[p] # Null => r.children[p] \in Handle /\ r.parent[r.children[p]] = p
            /\ r.children[p] = Null => ChildrenOf(r, p) = {}
        BY DEF RingOK, HeadsOK, Ring, Pointer
      <3>2. u.children[p] # Null => u.parent[u.children[p]] = p
        BY <2>1, <2>2, <2>3, <3>1
      <3>3. u.children[p] = Null => ChildrenOf(u, p) = {}
        BY <2>1, <2>2, <2>5, <3>1, NullAssumption
      <3> QED
        BY <3>2, <3>3
    <2>9. OneRing(u)
      <3> SUFFICES ASSUME NEW p \in Handle, NEW S \in SUBSET ChildrenOf(u, p),
                          S # {}, \A h \in S : u.next[h] \in S
                   PROVE  S = ChildrenOf(u, p)
        BY DEF OneRing
      <3>1. S \subseteq Handle /\ b \notin S /\ S \subseteq ChildrenOf(r, p)
        BY <2>5 DEF ChildrenOf
      <3>2. CASE before \in S
        <4> DEFINE T == S \union {b}
        <4>1. p = q
          BY <2>3, <3>1, <3>2 DEF ChildrenOf
        <4>2. after \in S
          BY <2>1, <2>2, <3>2
        <4>3. \A h \in T : r.next[h] \in T
          BY <2>1, <2>2, <2>4, <3>1, <4>2
        <4>4. T \in SUBSET ChildrenOf(r, p) /\ T # {}
          BY <3>1, <4>1 DEF ChildrenOf
        <4>5. T = ChildrenOf(r, p)
          BY <4>3, <4>4 DEF RingOK, OneRing
        <4> QED
          BY <2>5, <3>1, <4>5
      <3>3. CASE before \notin S
        <4>1. \A h \in S : r.next[h] \in S
          BY <2>2, <3>1, <3>3
        <4>2. S = ChildrenOf(r, p)
          BY <3>1, <4>1 DEF RingOK, OneRing
        <4> QED
          BY <2>5, <3>1, <4>2
      <3> QED
        BY <3>2, <3>3
    <2> QED
      BY <2>6, <2>7, <2>8, <2>9 DEF RingOK
  <1> QED
    BY <1>1, <1>2, <1>3

-------------------------------------------------------------------------------
\* appending an orphan returns pointers to handles
LEMMA AppendedType ==
  ASSUME NEW r \in Ring, RingOK(r), NEW b \in Handle, NEW p \in Handle
  PROVE  Appended(r, b, p) \in Ring
  <1>1. r.children[p] # Null => r.children[p] \in Handle /\ r.prev[r.children[p]] \in Handle
    BY DEF Ring, Pointer
  <1> QED
    BY <1>1 DEF Ring, Appended, Pointer

\* the tail splice of oci8_link_to_parent keeps the rings well formed
LEMMA AppendedOK ==
  ASSUME NEW r \in Ring, RingOK(r), NEW b \in Handle, NEW p \in Handle,
         r.parent[b] = Null
  PROVE  RingOK(Appended(r, b, p))
  <1> DEFINE u == Appended(r, b, p)
  <1>alone. r.next[b] = b /\ r.prev[b] = b
    BY DEF RingOK, OrphansAlone, RingsClosed
  <1>only. \A h \in Handle : (r.next[h] = b <=> h = b) /\ (r.prev[h] = b <=> h = b)
    BY <1>alone DEF RingOK, RingsClosed, Ring
  <1>1. CASE r.children[p] = Null
    <2>1. /\ u.next = r.next /\ u.prev = r.prev
          /\ u.parent = [r.parent EXCEPT ![b] = p]
          /\ u.children = [r.children EXCEPT ![p] = b]
      BY <1>1 DEF Appended
    <2>2. ChildrenOf(r, p) = {}
      BY <1>1 DEF RingOK, HeadsOK
    <2>3. \A x \in Handle : ChildrenOf(u, x) = IF x = p THEN {b} ELSE ChildrenOf(r, x)
      <3> TAKE x \in Handle
      <3>1. CASE x = p
        BY <2>1, <2>2, <3>1 DEF ChildrenOf, Ring
      <3>2. CASE x # p
        BY <2>1, <3>2, NullAssumption DEF ChildrenOf, Ring
      <3> QED
        BY <3>1, <3>2
    <2>4. RingsClosed(u)
      <3> SUFFICES ASSUME NEW h \in Handle
                   PROVE  /\ u.prev[u.next[h]] = h
                          /\ u.next[u.prev[h]] = h
                          /\ u.parent[u.next[h]] = u.parent[h]
        BY DEF RingsClosed
      <3> QED
        BY <2>1, <1>alone, <1>only DEF RingOK, RingsClosed, Ring
    <2>5. OrphansAlone(u)
      BY <2>1, <1>alone DEF RingOK, OrphansAlone, Ring
    <2>6. HeadsOK(u)
      <3> SUFFICES ASSUME NEW x \in Handle
                   PROVE  /\ u.children[x] # Null => u.parent[u.children[x]] = x
                          /\ u.children[x] = Null => ChildrenOf(u, x) = {}
        BY DEF HeadsOK
      <3>1. CASE x = p
        BY <2>1, <3>1, NullAssumption DEF Ring
      <3>2. CASE x # p
        <4>1. u.children[x] = r.children[x] /\ ChildrenOf(u, x) = ChildrenOf(r, x)
          BY <2>1, <2>3, <3>2 DEF Ring
        <4>2. /\ r.children[x] # Null => r.children[x] \in Handle /\ r.parent[r.children[x]] = x
              /\ r.children[x] = Null => ChildrenOf(r, x) = {}
          BY DEF RingOK, HeadsOK, Ring, Pointer
        <4>3. r.children[x] # Null => r.children[x] # b
          BY <4>2, NullAssumption
        <4> QED
          BY <2>1, <4>1, <4>2, <4>3 DEF Ring
      <3> QED
        BY <3>1, <3>2
    <2>7. OneRing(u)
      <3> SUFFICES ASSUME NEW x \in Handle, NEW S \in SUBSET ChildrenOf(u, x),
                          S # {}, \A h \in S : u.next[h] \in S
                   PROVE  S = ChildrenOf(u, x)
        BY DEF OneRing
      <3>1. CASE x = p
        BY <2>3, <3>1
      <3>2. CASE x # p
        <4>1. ChildrenOf(u, x) = ChildrenOf(r, x)
          BY <2>3, <3>2
        <4> QED
          BY <2>1, <4>1 DEF RingOK, OneRing
      <3> QED
        BY <3>1, <3>2
    <2> QED
      BY <2>4, <2>5, <2>6, <2>7 DEF RingOK
  <1>2. CASE r.children[p] # Null
    <2> DEFINE head == r.children[p]
               tail == r.prev[head]
    <2>1. /\ head \in Handle /\ tail \in Handle
          /\ r.parent[head] = p /\ r.parent[tail] = p
          /\ r.next[tail] = head
          /\ head # b /\ tail # b
      <3>1. head \in Handle /\ r.parent[head] = p
        BY <1>2 DEF RingOK, HeadsOK, Ring, Pointer
      <3>2. tail \in Handle /\ r.next[tail] = head
        BY <3>1 DEF RingOK, RingsClosed, Ring
      <3>3. r.parent[tail] = p
        BY <3>1, <3>2 DEF RingOK, RingsClosed
      <3> QED
        BY <3>1, <3>2, <3>3, NullAssumption
    <2>2. /\ \A h \in Handle : u.parent[h] = IF h = b THEN p ELSE r.parent[h]
          /\ \A h \in Handle : u.next[h] = IF h = b THEN head
                                           ELSE IF h = tail THEN b ELSE r.next[h]
          /\ \A h \in Handle : u.prev[h] = IF h = b THEN tail
                                           ELSE IF h = head THEN b ELSE r.prev[h]
          /\ u.children = r.children
      BY <1>2, <2>1 DEF Appended, Ring
    <2>3. \A x \in Handle : ChildrenOf(u, x) =
            IF x = p THEN ChildrenOf(r, x) \union {b} ELSE ChildrenOf(r, x)
      <3> TAKE x \in Handle
      <3>1. b \notin ChildrenOf(r, x)
        BY NullAssumption DEF ChildrenOf
      <3>2. CASE x = p
        BY <2>2, <3>2 DEF ChildrenOf
      <3>3. CASE x # p
        BY <2>2, <3>1, <3>3 DEF ChildrenOf
      <3> QED
        BY <3>2, <3>3
    <2>4. RingsClosed(u)
      <3> SUFFICES ASSUME NEW h \in Handle
                   PROVE  /\ u.prev[u.next[h]] = h
                          /\ u.next[u.prev[h]] = h
                          /\ u.parent[u.next[h]] = u.parent[h]
        BY DEF RingsClosed
      <3>1. /\ r.prev[r.next[h]] = h /\ r.next[r.prev[h]] = h
            /\ r.parent[r.next[h]] = r.parent[h]
            /\ r.next[h] \in Handle /\ r.prev[h] \in Handle
        BY DEF RingOK, RingsClosed, Ring
      <3>2. /\ r.next[h] = head <=> h = tail
            /\ r.prev[h] = tail <=> h = head
        BY <2>1, <3>1
      <3>3. u.prev[u.next[h]] = h
        BY <2>1, <2>2, <1>only, <3>1, <3>2
      <3>4. u.next[u.prev[h]] = h
        BY <2>1, <2>2, <1>only, <3>1, <3>2
      <3>5. u.parent[u.next[h]] = u.parent[h]
        BY <2>1, <2>2, <1>only, <3>1, <3>2
      <3> QED
        BY <3>3, <3>4, <3>5
    <2>5. OrphansAlone(u)
      BY <2>1, <2>2, NullAssumption DEF RingOK, OrphansAlone
    <2>6. HeadsOK(u)
      <3> SUFFICES ASSUME NEW x \in Handle
                   PROVE  /\ u.children[x] # Null => u.parent[u.children[x]] = x
                          /\ u.children[x] = Null => ChildrenOf(u, x) = {}
        BY DEF HeadsOK
      <3>1. /\ r.children[x] # Null => /\ r.children[x] \in Handle
                                      /\ r.parent[r.children[x]] = x
                                      /\ r.children[x] # b
            /\ r.children[x] = Null => ChildrenOf(r, x) = {}
        BY NullAssumption DEF RingOK, HeadsOK, Ring, Pointer
      <3> QED
        BY <1>2, <2>2, <2>3, <3>1
    <2>7. OneRing(u)
      <3> SUFFICES ASSUME NEW x \in Handle, NEW S \in SUBSET ChildrenOf(u, x),
                          S # {}, \A h \in S : u.next[h] \in S
                   PROVE  S = ChildrenOf(u, x)
        BY DEF OneRing
      <3>1. S \subseteq Handle
        BY DEF ChildrenOf
      <3>2. CASE x # p
        <4>1. tail \notin S /\ b \notin S
          BY <2>1, <2>3, <3>2, NullAssumption DEF ChildrenOf
        <4>2. \A h \in S : r.next[h] \in S
          BY <2>2, <3>1, <4>1
        <4>3. S = ChildrenOf(r, x)
          BY <2>3, <3>2, <4>2 DEF RingOK, OneRing
        <4> QED
          BY <2>3, <3>2, <4>3
      <3>3. CASE x = p /\ b \in S
        <4> DEFINE T == S \ {b}
        <4>1. head \in T
          BY <2>1, <2>2, <3>3
        <4>2. \A h \in T : r.next[h] \in T
          <5> TAKE h \in T
          <5>1. CASE h = tail
            BY <2>1, <4>1, <5>1
          <5>2. CASE h # tail
            BY <2>2, <3>1, <1>only, <5>2
          <5> QED
            BY <5>1, <5>2
        <4>3. T \in SUBSET ChildrenOf(r, x) /\ T # {}
          BY <2>3, <3>3, <4>1
        <4>4. T = ChildrenOf(r, x)
          BY <4>2, <4>3 DEF RingOK, OneRing
        <4> QED
          BY <2>3, <3>3, <4>4
      <3>4. CASE x = p /\ b \notin S
        <4>1. tail \notin S
          BY <2>1, <2>2, <3>4
        <4>2. \A h \in S : r.next[h] \in S
          BY <2>2, <3>1, <3>4, <4>1
        <4>3. S \in SUBSET ChildrenOf(r, x)
          BY <2>3, <3>4
        <4>4. S = ChildrenOf(r, x)
          BY <4>2, <4>3 DEF RingOK, OneRing
        <4>5. tail \in ChildrenOf(r, x)
          BY <2>1, <3>4 DEF ChildrenOf
        <4> QED
          BY <4>1, <4>4, <4>5
      <3> QED
        BY <3>2, <3>3, <3>4
    <2> QED
      BY <2>4, <2>5, <2>6, <2>7 DEF RingOK
  <1> QED
    BY <1>1, <1>2

\* after an unlink the handle has no parent
LEMMA UnlinkedOrphan ==
  ASSUME NEW r \in Ring, NEW b \in Handle
  PROVE  Unlinked(r, b).parent[b] = Null
  BY DEF Ring, Unlinked

\* oci8_link_to_parent, of an orphan or of a handle that had another parent,
\* keeps the rings well formed
LEMMA LinkedOK ==
  ASSUME NEW r \in Ring, RingOK(r), NEW b \in Handle, NEW p \in Handle
  PROVE  Linked(r, b, p) \in Ring /\ RingOK(Linked(r, b, p))
  BY UnlinkedType, UnlinkedOK, UnlinkedOrphan, AppendedType, AppendedOK DEF Linked

\* the pointers of structs that were just allocated
LEMMA InitRingOK == InitRing \in Ring /\ RingOK(InitRing)
  <1>1. InitRing \in Ring
    BY DEF InitRing, Ring, Pointer
  <1>2. \A p \in Handle : ChildrenOf(InitRing, p) = {}
    BY NullAssumption DEF InitRing, ChildrenOf
  <1>3. RingsClosed(InitRing) /\ OrphansAlone(InitRing)
    BY DEF InitRing, RingsClosed, OrphansAlone
  <1>4. HeadsOK(InitRing)
    BY <1>2 DEF InitRing, HeadsOK
  <1>5. OneRing(InitRing)
    BY <1>2 DEF OneRing
  <1> QED
    BY <1>1, <1>3, <1>4, <1>5 DEF RingOK

-------------------------------------------------------------------------------
(***************************************************************************)
(* The operations of HandleTree.                                           *)
(***************************************************************************)

\* Linking a wrapper keeps the type of the pointers.
LEMMA LinkedTypeOK ==
  ASSUME NEW r \in Ring, RingOK(r), NEW b \in Handle, NEW p \in Handle
  PROVE  Linked(r, b, p) \in Ring
  BY LinkedOK

\* Entering oci8_base_free pushes a frame and touches nothing else.
LEMMA EnterOK ==
  ASSUME TypeOK, RingsWellFormed, NEW h \in Handle,
         NEW op \in {"free", "sweep", "logoff"}, Enter(h, op), SameHandles
  PROVE  TypeOK' /\ RingsWellFormed'
  <1>1. stack' \in Seq(Frame)
    <2>1. [h |-> h, op |-> op, pc |-> "loop"] \in Frame
      BY DEF Frame
    <2> QED
      BY <2>1 DEF Enter, TypeOK
  <1> QED
    BY <1>1 DEF TypeOK, RingsWellFormed, SameHandles

\* The innermost frame of a free in progress.
LEMMA TopOK ==
  ASSUME TypeOK, ~Idle
  PROVE  /\ Head(stack) \in Frame /\ Top \in Handle
         /\ Tail(stack) \in Seq(Frame)
         /\ [stack EXCEPT ![1].pc = "alloc"] \in Seq(Frame)
  <1>1. stack \in Seq(Frame) /\ stack # <<>>
    BY DEF TypeOK, Idle
  <1>2. Head(stack) \in Frame /\ Tail(stack) \in Seq(Frame) /\ Head(stack) = stack[1]
    BY <1>1
  <1>3. Top \in Handle
    BY <1>2 DEF Top, Frame
  <1>4. [stack[1] EXCEPT !.pc = "alloc"] \in Frame
    BY <1>2 DEF Frame
  <1>5. [stack EXCEPT ![1].pc = "alloc"] \in Seq(Frame)
    BY <1>1, <1>4
  <1> QED
    BY <1>2, <1>3, <1>5

\* Types and rings are preserved together: a link reads the pointers it splices.
LEMMA NextOK ==
  ASSUME TypeOK, RingsWellFormed, [Next]_vars
  PROVE  TypeOK' /\ RingsWellFormed'
  <1>1. ASSUME NEW s \in Handle, NEW e \in Handle, NewSvcctx(s, e)
        PROVE  TypeOK' /\ RingsWellFormed'
    <2>1. ring' \in Ring /\ RingOK(ring')
      BY <1>1, LinkedOK DEF NewSvcctx, TypeOK, RingsWellFormed
    <2> QED
      BY <1>1, <2>1 DEF NewSvcctx, TypeOK, RingsWellFormed
  <1>2. ASSUME NEW s \in Handle, NEW e \in Handle, NEW n \in Native, Connect(s, e, n)
        PROVE  TypeOK' /\ RingsWellFormed'
    BY <1>2 DEF Connect, TypeOK, RingsWellFormed
  <1>3. ASSUME NEW h \in Handle, NEW p \in Handle, NEW n \in Native, NEW t \in BOOLEAN,
               NewChild(h, p, n, t)
        PROVE  TypeOK' /\ RingsWellFormed'
    <2>1. ring' \in Ring /\ RingOK(ring')
      BY <1>3, LinkedOK DEF NewChild, TypeOK, RingsWellFormed
    <2>2. within' \in [Native -> Native \union {Null}]
      BY <1>3 DEF NewChild, Container, TypeOK
    <2> QED
      BY <1>3, <2>1, <2>2 DEF NewChild, TypeOK, RingsWellFormed, Pointer
  <1>4. ASSUME NEW h \in Handle, NEW s \in Handle, NEW t \in BOOLEAN, NewBind(h, s, t)
        PROVE  TypeOK' /\ RingsWellFormed'
    <2>1. ring' \in Ring /\ RingOK(ring')
      BY <1>4, LinkedOK DEF NewBind, TypeOK, RingsWellFormed
    <2> QED
      BY <1>4, <2>1 DEF NewBind, TypeOK, RingsWellFormed
  <1>5. ASSUME NEW h \in Handle, NEW s \in Handle, NEW n \in Native, Bind(h, s, n)
        PROVE  TypeOK' /\ RingsWellFormed'
    <2>1. ring' \in Ring /\ RingOK(ring')
      BY <1>5, LinkedOK DEF Bind, TypeOK, RingsWellFormed
    <2> QED
      BY <1>5, <2>1 DEF Bind, TypeOK, RingsWellFormed
  <1>6. ASSUME NEW h \in Handle, NEW s \in Handle, NEW n \in Native, DescribeCall(h, s, n)
        PROVE  TypeOK' /\ RingsWellFormed'
    BY <1>6 DEF DescribeCall, TypeOK, RingsWellFormed, Pointer
  <1>7. ASSUME NEW h \in Handle, NEW ok \in BOOLEAN, DescribeReturn(h, ok)
        PROVE  TypeOK' /\ RingsWellFormed'
    <2>1. pending[h] \in Handle
      BY <1>7 DEF DescribeReturn, TypeOK, Pointer
    <2>2. ring' \in Ring /\ RingOK(ring')
      BY <1>7, <2>1, LinkedOK DEF DescribeReturn, TypeOK, RingsWellFormed
    <2> QED
      BY <1>7, <2>2 DEF DescribeReturn, TypeOK, RingsWellFormed, Pointer
  <1>8. ASSUME NEW h \in Handle, Drop(h)
        PROVE  TypeOK' /\ RingsWellFormed'
    BY <1>8 DEF Drop, TypeOK, RingsWellFormed
  <1>9. ASSUME NEW h \in Handle, UserFree(h) \/ Logoff(h) \/ Sweep(h)
        PROVE  TypeOK' /\ RingsWellFormed'
    BY <1>9, EnterOK DEF UserFree, Logoff, Sweep
  <1>10. CASE FreeChild
    <2>1. ring.children[Top] \in Handle
      BY <1>10, TopOK DEF FreeChild, ChildrenGone, TypeOK, Ring, Pointer
    <2> QED
      BY <1>10, <2>1, EnterOK DEF FreeChild
  <1>11. CASE UnlinkTempLob
    <2>1. ring' \in Ring /\ RingOK(ring')
      BY <1>11, TopOK, UnlinkedType, UnlinkedOK DEF UnlinkTempLob, TypeOK, RingsWellFormed
    <2> QED
      BY <1>11, <2>1, TopOK DEF UnlinkTempLob, TypeOK, RingsWellFormed
  <1>12. CASE MoveTempLob
    <2>1. Top \in Handle /\ hp[Top] \in Native \union {Null} /\ Tail(stack) \in Seq(Frame)
      BY <1>12, TopOK DEF MoveTempLob, TypeOK
    <2>2. tempLobs' \in [Handle -> SUBSET (Native \union {Null})]
      BY <1>12, <2>1 DEF MoveTempLob, TypeOK
    <2> QED
      BY <1>12, <2>1, <2>2 DEF MoveTempLob, Return, TypeOK, RingsWellFormed, Pointer
  <1>13. CASE FreeSelf
    <2>1. Top \in Handle /\ Tail(stack) \in Seq(Frame)
      BY <1>13, TopOK DEF FreeSelf
    <2>2. ring' \in Ring /\ RingOK(ring')
      BY <1>13, <2>1, UnlinkedType, UnlinkedOK DEF FreeSelf, TypeOK, RingsWellFormed
    <2>3. /\ {native', temp'} \subseteq SUBSET Native
          /\ within' \in [Native -> Native \union {Null}]
      BY <1>13 DEF FreeSelf, Release, TypeOK
    <2> QED
      BY <1>13, <2>1, <2>2, <2>3 DEF FreeSelf, Return, TypeOK, RingsWellFormed, Pointer
  <1>14. ASSUME NEW F \in SUBSET Native, NEW raises \in BOOLEAN, FinishLogoff(F, raises)
         PROVE  (TypeOK /\ RingsWellFormed)'
    <2>1. Top \in Handle /\ Tail(stack) \in Seq(Frame)
      BY <1>14, TopOK DEF FinishLogoff
    <2>2. /\ {native', temp'} \subseteq SUBSET Native
          /\ within' \in [Native -> Native \union {Null}]
          /\ tempLobs' \in [Handle -> SUBSET (Native \union {Null})]
      BY <1>14, <2>1 DEF FinishLogoff, Release, TypeOK
    <2> QED
      BY <1>14, <2>1, <2>2 DEF FinishLogoff, TypeOK, RingsWellFormed
  <1>15. CASE UNCHANGED vars
    BY <1>15 DEF vars, TypeOK, RingsWellFormed
  <1>16. CASE NothingToLogOff
    <2>1. Tail(stack) \in Seq(Frame)
      BY <1>16, TopOK DEF NothingToLogOff
    <2> QED
      BY <1>16, <2>1 DEF NothingToLogOff, SameHandles, TypeOK, RingsWellFormed
  <1>17. ASSUME NEW s \in Handle, NEW F \in SUBSET Native, SvcctxCall(s, F)
         PROVE  (TypeOK /\ RingsWellFormed)'
    <2>1. /\ {native', temp'} \subseteq SUBSET Native
          /\ within' \in [Native -> Native \union {Null}]
          /\ tempLobs' \in [Handle -> SUBSET (Native \union {Null})]
      BY <1>17 DEF SvcctxCall, Release, TypeOK
    <2> QED
      BY <1>17, <2>1 DEF SvcctxCall, TypeOK, RingsWellFormed
  <1> QED
    BY <1>1, <1>2, <1>3, <1>4, <1>5, <1>6, <1>7, <1>8, <1>9, <1>10, <1>11, <1>12,
       <1>13, <1>14, <1>15, <1>16, <1>17 DEF Next, FreeStep

\* The empty forest is well formed.
LEMMA InitOK == Init => TypeOK /\ RingsWellFormed
  BY InitRingOK DEF Init, TypeOK, RingsWellFormed, Pointer

-------------------------------------------------------------------------------
(***************************************************************************)
(* The links of a forest: what they do to the parents.                     *)
(***************************************************************************)

\* Following parent one comes to an end: no set of wrappers has all their parents.
NoCycle(parent) == \A S \in SUBSET Handle : S # {} => \E h \in S : parent[h] \notin S

\* oci8_unlink_from_parent clears one parent and gives nobody a first child.
LEMMA UnlinkedFields ==
  ASSUME NEW r \in Ring, RingOK(r), NEW b \in Handle
  PROVE  /\ Unlinked(r, b).parent = [r.parent EXCEPT ![b] = Null]
         /\ \A h \in Handle : r.children[h] = Null => Unlinked(r, b).children[h] = Null
  <1>1. CASE r.parent[b] = Null
    BY <1>1 DEF Unlinked, Ring
  <1>2. CASE r.parent[b] # Null
    <2>1. r.parent[b] \in Handle /\ r.children[r.parent[b]] # Null
      BY <1>2 DEF RingOK, HeadsOK, ChildrenOf, Ring, Pointer
    <2> QED
      BY <1>2, <2>1 DEF Unlinked, Ring
  <1> QED
    BY <1>1, <1>2

\* oci8_link_to_parent changes one parent, and gives nobody else a first child.
LEMMA LinkedFields ==
  ASSUME NEW r \in Ring, RingOK(r), NEW b \in Handle, NEW p \in Handle
  PROVE  /\ Linked(r, b, p).parent = [r.parent EXCEPT ![b] = p]
         /\ \A h \in Handle \ {p} : r.children[h] = Null => Linked(r, b, p).children[h] = Null
  <1>1. Unlinked(r, b) \in Ring /\ Unlinked(r, b).parent = [r.parent EXCEPT ![b] = Null]
    BY UnlinkedType, UnlinkedFields
  <1>2. \A h \in Handle : r.children[h] = Null => Unlinked(r, b).children[h] = Null
    BY UnlinkedFields
  <1>3. ASSUME NEW u \in Ring
        PROVE  /\ Appended(u, b, p).parent = [u.parent EXCEPT ![b] = p]
               /\ \A h \in Handle \ {p} : Appended(u, b, p).children[h] = u.children[h]
    BY DEF Appended, Ring
  <1>4. [[r.parent EXCEPT ![b] = Null] EXCEPT ![b] = p] = [r.parent EXCEPT ![b] = p]
    BY DEF Ring
  <1> QED
    BY <1>1, <1>2, <1>3, <1>4 DEF Linked

\* A parent is left.
LEMMA NoCycleCut ==
  ASSUME NEW parent \in [Handle -> Pointer], NoCycle(parent), NEW b \in Handle
  PROVE  NoCycle([parent EXCEPT ![b] = Null])
  BY NullAssumption DEF NoCycle

\* The new parent is a root.
LEMMA NoCycleBelowRoot ==
  ASSUME NEW parent \in [Handle -> Pointer], NoCycle(parent),
         NEW b \in Handle, NEW p \in Handle, b # p, parent[p] = Null
  PROVE  NoCycle([parent EXCEPT ![b] = p])
  <1> SUFFICES ASSUME NEW S \in SUBSET Handle, S # {},
                      \A h \in S : [parent EXCEPT ![b] = p][h] \in S
               PROVE  FALSE
    BY DEF NoCycle
  <1>1. p \notin S
    BY NullAssumption
  <1>2. b \notin S
    BY <1>1
  <1> QED
    BY <1>2 DEF NoCycle

\* What is linked has no children.
LEMMA NoCycleLeaf ==
  ASSUME NEW parent \in [Handle -> Pointer], NoCycle(parent),
         NEW b \in Handle, NEW p \in Handle, b # p, \A h \in Handle : parent[h] # b
  PROVE  NoCycle([parent EXCEPT ![b] = p])
  <1> SUFFICES ASSUME NEW S \in SUBSET Handle, S # {},
                      \A h \in S : [parent EXCEPT ![b] = p][h] \in S
               PROVE  FALSE
    BY DEF NoCycle
  <1>1. \A h \in S \ {b} : parent[h] \in S \ {b}
    OBVIOUS
  <1>2. S \ {b} # {}
    OBVIOUS
  <1> QED
    BY <1>1, <1>2 DEF NoCycle

-------------------------------------------------------------------------------
(***************************************************************************)
(* The inductive invariant: where the wrappers and the frames of a free in *)
(* progress are.                                                           *)
(***************************************************************************)

At(i) == stack[i].h

\* A wrapper hangs below one of the kinds its class is linked to; a bind object
\* of a timestamp below its connection until it is bound.
ParentsOfKind ==
  \A h \in Handle : ring.parent[h] # Null =>
    \/ Kind[ring.parent[h]] \in ParentKinds[Kind[h]]
    \/ Kind[h] = "bind" /\ Kind[ring.parent[h]] = "svcctx"

\* A slot of memory that is not in use is in nobody's ring.
DeadAlone ==
  \A h \in Handle \ live :
    /\ ring.parent[h] = Null /\ ring.children[h] = Null
    /\ lobSvc[h] = Null /\ h \notin typed /\ h \notin held

\* The mark functions of what the program can reach lead to no garbage.
HeldMarked == \A c \in held, h \in Handle : Marks(c, h) => h \in held

InAlloc(h) == \E i \in DOMAIN stack : At(i) = h /\ stack[i].pc = "alloc"

\* A LOB is below its svcctx, until oci8_lob_free has come to its ALLOC.
LobsPlaced ==
  \A h \in Handle :
    /\ lobSvc[h] # Null =>
         /\ Kind[h] = "lob" /\ Kind[lobSvc[h]] = "svcctx" /\ lobSvc[h] \in live
         /\ ring.parent[h] = lobSvc[h] \/ InAlloc(h)
    /\ Kind[h] = "lob" => ring.parent[h] \in {Null, lobSvc[h]}

\* A call of OCIDescribeAny_nb keeps what it works on.
DescribesHeld ==
  \A h \in Handle : pending[h] # Null =>
    {h, pending[h]} \subseteq held /\ Kind[h] = "desc" /\ Kind[pending[h]] = "svcctx"

\* Only the wrapper of a connection keeps its hp when it is closed.
OpenTyped == \A h \in Handle : Kind[h] # "svcctx" /\ hp[h] # Null => h \in typed

\* A frame is of the program, of the collector in somebody's ALLOC, or of the loop
\* of oci8_base_free in the frame below it.
FrameOK(i) ==
  /\ At(i) \in live
  /\ stack[i].op = "logoff" => i = Len(stack) /\ stack[i].pc = "loop" /\ Kind[At(i)] = "svcctx"
  /\ stack[i].op = "sweep" => /\ At(i) \notin held
                              /\ i < Len(stack) => stack[i + 1].pc = "alloc"
  /\ stack[i].op = "free" /\ i = Len(stack) => At(i) \in held
  /\ stack[i].op = "free" /\ i < Len(stack) /\ stack[i].pc = "loop" =>
       ring.parent[At(i)] = At(i + 1)

\* A frame in the ALLOC of oci8_lob_free has unlinked its LOB, and only the
\* collector can have come in.
AllocOK(i) ==
  stack[i].pc = "alloc" =>
    /\ lobSvc[At(i)] # Null /\ At(i) \in typed
    /\ ring.parent[At(i)] = Null /\ ring.children[At(i)] = Null
    /\ i > 1 => stack[i - 1].op = "sweep"
    /\ stack[i].op = "free" /\ i < Len(stack) => lobSvc[At(i)] = At(i + 1)

StackOK ==
  /\ \A i, j \in DOMAIN stack : At(i) = At(j) => i = j
  /\ \A i, j \in DOMAIN stack : stack[i].op = "sweep" /\ stack[j].op = "sweep" => i = j
  /\ \A i \in DOMAIN stack : FrameOK(i) /\ AllocOK(i)

Structure ==
  /\ ParentsOfKind /\ NoCycle(ring.parent) /\ DeadAlone /\ HeldMarked
  /\ LobsPlaced /\ DescribesHeld /\ OpenTyped /\ StackOK

Placed == TypeOK /\ RingsWellFormed /\ Structure

\* Who leaves a parent or a svcctx marks no more than before.
LEMMA FewerMarks ==
  ASSUME HeldMarked, held \subseteq Handle, held' = held,
         \A x \in Handle : /\ ring'.parent[x] \in {ring.parent[x], Null}
                           /\ lobSvc'[x] \in {lobSvc[x], Null}
  PROVE  HeldMarked'
  <1> SUFFICES ASSUME NEW c \in held, NEW h \in Handle, Marks(c, h)'
               PROVE  Marks(c, h)
    BY DEF HeldMarked
  <1>1. c \in Handle /\ h # Null /\ c # Null
    BY NullAssumption
  <1>2. /\ ring'.parent[c] = h => ring.parent[c] = h
        /\ ring'.parent[h] = c => ring.parent[h] = c
        /\ lobSvc'[c] = h => lobSvc[c] = h
    BY <1>1
  <1> QED
    BY <1>2 DEF Marks

\* Who has no first child has no children.
LEMMA Childless ==
  ASSUME TypeOK, RingsWellFormed, NEW p \in Handle, ring.children[p] = Null
  PROVE  \A h \in Handle : ring.parent[h] # p
  BY DEF RingsWellFormed, RingOK, HeadsOK, ChildrenOf

\* The pointers have their types and are well formed.
LEMMA RingHere ==
  ASSUME Placed
  PROVE  ring \in Ring /\ RingOK(ring) /\ ring.parent \in [Handle -> Pointer]
  BY DEF Placed, TypeOK, RingsWellFormed, Ring

\* A connection has no parent.
LEMMA SvcctxRoot ==
  ASSUME Placed, NEW s \in Handle, Kind[s] = "svcctx"
  PROVE  ring.parent[s] = Null
  BY DEF Placed, Structure, ParentsOfKind, ParentKinds

\* Between two calls of the program there is no frame to speak of.
LEMMA NoFrames ==
  ASSUME stack' = <<>>
  PROVE  StackOK'
  BY DEF StackOK

\* A link: what is linked is live, its parent too, and the kinds fit.
LEMMA LinkKeeps ==
  ASSUME Placed, Idle, NEW b \in Handle, NEW p \in Handle, b # p,
         ring' = Linked(ring, b, p), b \in live', p \in live', live \subseteq live',
         held \subseteq held', typed \subseteq typed',
         \A h \in Handle \ live' : h \notin typed' /\ h \notin held' /\ lobSvc'[h] = Null,
         \/ Kind[p] \in ParentKinds[Kind[b]]
         \/ Kind[b] = "bind" /\ Kind[p] = "svcctx",
         Kind[p] = "svcctx" \/ \A h \in Handle : ring.parent[h] # b
  PROVE  ParentsOfKind' /\ NoCycle(ring.parent') /\ DeadAlone'
  <1>1. /\ ring'.parent = [ring.parent EXCEPT ![b] = p]
        /\ \A h \in Handle \ {p} : ring.children[h] = Null => ring'.children[h] = Null
    BY LinkedFields DEF Placed, TypeOK, RingsWellFormed
  <1>2. ring.parent \in [Handle -> Pointer]
    BY DEF Placed, TypeOK, Ring
  <1>3. ParentsOfKind'
    BY <1>1, <1>2, NullAssumption DEF Placed, Structure, ParentsOfKind
  <1>4. NoCycle(ring.parent')
    BY <1>1, <1>2, NoCycleBelowRoot, NoCycleLeaf, SvcctxRoot DEF Placed, Structure
  <1>5. DeadAlone'
    BY <1>1, <1>2 DEF Placed, Structure, DeadAlone
  <1> QED
    BY <1>3, <1>4, <1>5

\* NewSvcctx keeps the structure: a fresh pair of a connection and its session.
LEMMA NewSvcctxPlaced ==
  ASSUME Placed, NEW s \in Handle, NEW e \in Handle, NewSvcctx(s, e)
  PROVE  Structure'
  <1> USE DEF NewSvcctx, Placed
  <1>1. s # e /\ {s, e} \cap held = {} /\ ring.parent[e] = Null /\ Idle
    BY NullAssumption DEF Structure, DeadAlone, TypeOK
  <1>2. ParentsOfKind' /\ NoCycle(ring.parent') /\ DeadAlone'
    BY <1>1, LinkKeeps DEF ParentKinds, Structure, DeadAlone, TypeOK
  <1>3. ring'.parent = [ring.parent EXCEPT ![e] = s] /\ ring.parent \in [Handle -> Pointer]
    BY LinkedFields, RingHere
  <1>4. HeldMarked'
    <2>1. \A x \in Handle : ring.parent[x] \notin {s, e} /\ lobSvc[x] \notin {s, e}
      BY <1>1, Childless, NullAssumption DEF Structure, DeadAlone, LobsPlaced
    <2> QED
      BY <1>1, <1>3, <2>1, NullAssumption DEF Structure, HeldMarked, Marks
  <1>5. LobsPlaced'
    BY <1>3 DEF Structure, LobsPlaced, InAlloc, At
  <1>6. DescribesHeld' /\ OpenTyped'
    BY DEF Structure, DescribesHeld, OpenTyped
  <1>7. StackOK'
    BY NoFrames DEF Idle
  <1> QED
    BY <1>2, <1>4, <1>5, <1>6, <1>7 DEF Structure

\* Connect touches neither rings nor frames.
LEMMA ConnectPlaced ==
  ASSUME Placed, NEW s \in Handle, NEW e \in Handle, NEW n \in Native, Connect(s, e, n)
  PROVE  Structure'
  <1> USE DEF Connect, Placed
  <1>1. ParentsOfKind' /\ NoCycle(ring.parent') /\ HeldMarked' /\ DescribesHeld'
    BY DEF Structure, ParentsOfKind, HeldMarked, Marks, DescribesHeld
  <1>2. LobsPlaced'
    BY DEF Structure, LobsPlaced, InAlloc, At
  <1>3. DeadAlone'
    BY NullAssumption DEF Structure, DeadAlone, Usable
  <1>4. OpenTyped'
    BY DEF Structure, OpenTyped, TypeOK
  <1>5. StackOK'
    BY NoFrames DEF Idle
  <1> QED
    BY <1>1, <1>2, <1>3, <1>4, <1>5 DEF Structure

\* A statement, a LOB or a parameter is fresh, and below an open wrapper.
LEMMA NewChildPlaced ==
  ASSUME Placed, NEW h \in Handle, NEW p \in Handle, NEW n \in Native, NEW t \in BOOLEAN,
         NewChild(h, p, n, t)
  PROVE  Structure'
  <1> USE DEF NewChild, Placed
  <1>1. /\ h # p /\ h \notin held /\ ring.parent[h] = Null /\ ring.children[h] = Null
        /\ p \in held /\ p \in live
    BY DEF Structure, DeadAlone, Usable, TypeOK
  <1>2. \A x \in Handle : ring.parent[x] # h
    BY <1>1, Childless
  <1>3. ParentsOfKind' /\ NoCycle(ring.parent') /\ DeadAlone'
    BY <1>1, <1>2, LinkKeeps DEF ParentKinds, Structure, DeadAlone, TypeOK
  <1>4. ring'.parent = [ring.parent EXCEPT ![h] = p] /\ ring.parent \in [Handle -> Pointer]
    BY LinkedFields, RingHere
  <1>5. /\ lobSvc' \in [Handle -> Pointer] /\ \A x \in Handle \ {h} : lobSvc'[x] = lobSvc[x]
        /\ lobSvc'[h] = IF Kind[h] = "lob" THEN p ELSE Null
    BY DEF TypeOK, Pointer
  <1>6. \A x \in Handle : lobSvc[x] # h
    BY <1>1, NullAssumption DEF Structure, LobsPlaced
  <1>7. HeldMarked'
    BY <1>1, <1>2, <1>4, <1>5, <1>6, NullAssumption DEF Structure, HeldMarked, Marks
  <1>8. LobsPlaced'
    BY <1>1, <1>4, <1>5, NullAssumption DEF Structure, LobsPlaced, InAlloc, At, ParentKinds, Idle
  <1>9. DescribesHeld' /\ OpenTyped'
    BY DEF Structure, DescribesHeld, OpenTyped, TypeOK
  <1>10. StackOK'
    BY NoFrames DEF Idle
  <1> QED
    BY <1>3, <1>7, <1>8, <1>9, <1>10 DEF Structure

\* A bind object is fresh; one of a timestamp is below its connection.
LEMMA NewBindPlaced ==
  ASSUME Placed, NEW h \in Handle, NEW s \in Handle, NEW t \in BOOLEAN, NewBind(h, s, t)
  PROVE  Structure'
  <1> USE DEF NewBind, Placed
  <1>1. /\ h # s /\ h \notin held /\ ring.parent[h] = Null /\ ring.children[h] = Null
        /\ s \in held /\ s \in live
    BY DEF Structure, DeadAlone, Usable, TypeOK
  <1>2. \A x \in Handle : ring.parent[x] # h /\ lobSvc[x] # h
    BY <1>1, Childless, NullAssumption DEF Structure, LobsPlaced
  <1>3. ring'.parent \in {[ring.parent EXCEPT ![h] = s], ring.parent}
        /\ ring.parent \in [Handle -> Pointer]
    BY LinkedFields, RingHere
  <1>4. ParentsOfKind' /\ NoCycle(ring.parent') /\ DeadAlone'
    <2>1. CASE t
      BY <1>1, <1>2, <2>1, LinkKeeps DEF Structure, DeadAlone, TypeOK
    <2>2. CASE ~t
      BY <2>2 DEF Structure, ParentsOfKind, DeadAlone
    <2> QED
      BY <2>1, <2>2
  <1>5. HeldMarked'
    <2>1. ASSUME NEW c \in held', NEW x \in Handle, Marks(c, x)'
          PROVE  x \in held'
      <3>1. c # h
        <4>1. lobSvc[h] = Null
          BY <1>1 DEF Structure, LobsPlaced, DeadAlone
        <4>2. Kind[h] = "bind" /\ ring'.parent[x] # h
          BY <1>1, <1>2, <1>3
        <4> QED
          BY <2>1, <4>2 DEF Marks
      <3>2. x # h => Marks(c, x)
        <4>1. x # h => ring'.parent[x] = ring.parent[x] /\ ring'.parent[c] = ring.parent[c]
          <5>1. c \in Handle
            BY DEF TypeOK
          <5> QED
            BY <1>3, <3>1, <5>1
        <4> QED
          BY <2>1, <4>1 DEF Marks
      <3> QED
        BY <2>1, <3>1, <3>2 DEF Structure, HeldMarked
    <2> QED
      BY <2>1 DEF HeldMarked
  <1>6. LobsPlaced'
    BY <1>1, <1>3, NullAssumption DEF Structure, LobsPlaced, InAlloc, At
  <1>7. DescribesHeld' /\ OpenTyped'
    BY DEF Structure, DescribesHeld, OpenTyped, TypeOK
  <1>8. StackOK'
    BY NoFrames DEF Idle
  <1> QED
    BY <1>4, <1>5, <1>6, <1>7, <1>8 DEF Structure

\* Binding moves a bind object, which has no children, below the statement.
LEMMA BindPlaced ==
  ASSUME Placed, NEW h \in Handle, NEW s \in Handle, NEW n \in Native, Bind(h, s, n)
  PROVE  Structure'
  <1> USE DEF Bind, Placed
  <1>1. h # s /\ {h, s} \subseteq held /\ {h, s} \subseteq live
    BY DEF Structure, DeadAlone, Usable, TypeOK
  <1>2. \A x \in Handle : ring.parent[x] # h
    BY KindAssumption, NullAssumption DEF Structure, ParentsOfKind, ParentKinds, Kinds
  <1>3. ParentsOfKind' /\ NoCycle(ring.parent') /\ DeadAlone'
    BY <1>1, <1>2, LinkKeeps DEF ParentKinds, Structure, DeadAlone, TypeOK
  <1>4. ring'.parent = [ring.parent EXCEPT ![h] = s] /\ ring.parent \in [Handle -> Pointer]
    BY LinkedFields, RingHere
  <1>5. HeldMarked'
    BY <1>1, <1>4 DEF Structure, HeldMarked, Marks
  <1>6. LobsPlaced'
    BY <1>4 DEF Structure, LobsPlaced, InAlloc, At
  <1>7. DescribesHeld' /\ OpenTyped'
    BY DEF Structure, DescribesHeld, OpenTyped, TypeOK
  <1>8. StackOK'
    BY NoFrames DEF Idle
  <1> QED
    BY <1>3, <1>5, <1>6, <1>7, <1>8 DEF Structure

\* A describe handle begins without a parent,
LEMMA DescribeCallPlaced ==
  ASSUME Placed, NEW h \in Handle, NEW s \in Handle, NEW n \in Native, DescribeCall(h, s, n)
  PROVE  Structure'
  <1> USE DEF DescribeCall, Placed
  <1>1. ParentsOfKind' /\ NoCycle(ring.parent') /\ DeadAlone'
    BY DEF Structure, ParentsOfKind, DeadAlone
  <1>2. \A x \in Handle : ring.parent[x] # h /\ lobSvc[x] # h
    BY Childless, NullAssumption DEF Structure, DeadAlone, LobsPlaced
  <1>3. HeldMarked'
    BY <1>2 DEF Structure, HeldMarked, Marks
  <1>4. LobsPlaced'
    BY DEF Structure, LobsPlaced, InAlloc, At
  <1>5. DescribesHeld' /\ OpenTyped'
    BY DEF Structure, DescribesHeld, OpenTyped, TypeOK, Usable
  <1>6. StackOK'
    BY NoFrames DEF Idle
  <1> QED
    BY <1>1, <1>3, <1>4, <1>5, <1>6 DEF Structure

\* and is linked below its connection when the call returns.
LEMMA DescribeReturnPlaced ==
  ASSUME Placed, NEW h \in Handle, NEW ok \in BOOLEAN, DescribeReturn(h, ok)
  PROVE  Structure'
  <1> USE DEF DescribeReturn, Placed
  <1> DEFINE s == pending[h]
  <1>1. /\ s \in Handle /\ h # s /\ Kind[h] = "desc" /\ Kind[s] = "svcctx"
        /\ {h, s} \subseteq held /\ {h, s} \subseteq live
    BY DEF Structure, DescribesHeld, DeadAlone, TypeOK, Pointer
  <1>2. ring'.parent \in {[ring.parent EXCEPT ![h] = s], ring.parent}
        /\ ring.parent \in [Handle -> Pointer]
    BY <1>1, LinkedFields, RingHere
  <1>3. ParentsOfKind' /\ NoCycle(ring.parent') /\ DeadAlone'
    <2>1. CASE ok
      BY <1>1, <2>1, LinkKeeps DEF ParentKinds, Structure, DeadAlone, TypeOK
    <2>2. CASE ~ok
      BY <2>2 DEF Structure, ParentsOfKind, DeadAlone
    <2> QED
      BY <2>1, <2>2
  <1>4. HeldMarked'
    <2>1. ASSUME NEW c \in held, NEW x \in Handle, Marks(c, x)'
          PROVE  x \in held
      <3>1. CASE x = h
        BY <1>1, <3>1
      <3>2. CASE c = h
        BY <1>1, <1>2, <2>1, <3>2 DEF Structure, LobsPlaced, Marks
      <3>3. CASE x # h /\ c # h
        <4>1. ring'.parent[x] = ring.parent[x] /\ ring'.parent[c] = ring.parent[c]
          <5>1. c \in Handle
            BY DEF TypeOK
          <5> QED
            BY <1>2, <3>3, <5>1
        <4>2. Marks(c, x)
          BY <2>1, <4>1 DEF Marks
        <4> QED
          BY <2>1, <4>2 DEF Structure, HeldMarked
      <3> QED
        BY <3>1, <3>2, <3>3
    <2> QED
      BY <2>1 DEF HeldMarked
  <1>5. LobsPlaced'
    BY <1>1, <1>2 DEF Structure, LobsPlaced, InAlloc, At
  <1>6. DescribesHeld' /\ OpenTyped'
    BY DEF Structure, DescribesHeld, OpenTyped, TypeOK
  <1>7. StackOK'
    BY NoFrames DEF Idle
  <1> QED
    BY <1>3, <1>4, <1>5, <1>6, <1>7 DEF Structure

\* The program forgets what nothing that it reaches marks.
LEMMA DropPlaced ==
  ASSUME Placed, NEW h \in Handle, Drop(h)
  PROVE  Structure'
  <1> USE DEF Drop, Placed
  <1>1. ParentsOfKind' /\ NoCycle(ring.parent') /\ DeadAlone' /\ OpenTyped'
    BY DEF Structure, ParentsOfKind, DeadAlone, OpenTyped
  <1>2. HeldMarked'
    BY DEF Structure, HeldMarked, Marks
  <1>3. LobsPlaced' /\ DescribesHeld'
    BY DEF Structure, LobsPlaced, InAlloc, At, DescribesHeld
  <1>4. StackOK'
    BY NoFrames DEF Idle
  <1> QED
    BY <1>1, <1>2, <1>3, <1>4 DEF Structure

-------------------------------------------------------------------------------
(***************************************************************************)
(* The frames of oci8_base_free.                                           *)
(***************************************************************************)

\* The frames are numbered from the innermost.
LEMMA FrameFacts ==
  ASSUME TypeOK
  PROVE  /\ Len(stack) \in Nat /\ DOMAIN stack = 1..Len(stack)
         /\ \A i \in DOMAIN stack : stack[i] \in Frame /\ At(i) \in Handle
         /\ ~Idle => 1 \in DOMAIN stack /\ Head(stack) = stack[1] /\ Top = At(1)
  <1>1. stack \in Seq(Frame)
    BY DEF TypeOK
  <1>2. Len(stack) \in Nat /\ DOMAIN stack = 1..Len(stack) /\ \A i \in DOMAIN stack : stack[i] \in Frame
    BY <1>1
  <1>3. ~Idle => Len(stack) > 0 /\ Head(stack) = stack[1]
    BY <1>1 DEF Idle
  <1> QED
    BY <1>2, <1>3 DEF Frame, At, Top

\* A frame is entered,
LEMMA PushFacts ==
  ASSUME TypeOK, NEW f \in Frame, stack' = <<f>> \o stack
  PROVE  /\ Len(stack') = Len(stack) + 1 /\ DOMAIN stack' = 1..(Len(stack) + 1)
         /\ stack'[1] = f /\ At(1)' = f.h
         /\ \A i \in DOMAIN stack : stack'[i + 1] = stack[i] /\ At(i + 1)' = At(i)
         /\ \A i \in DOMAIN stack' : i = 1 \/ i - 1 \in DOMAIN stack
  BY DEF TypeOK, At

\* and left.
LEMMA PopFacts ==
  ASSUME TypeOK, ~Idle, stack' = Tail(stack)
  PROVE  /\ Len(stack') = Len(stack) - 1 /\ DOMAIN stack' = 1..(Len(stack) - 1)
         /\ \A i \in DOMAIN stack' :
              i + 1 \in DOMAIN stack /\ stack'[i] = stack[i + 1] /\ At(i)' = At(i + 1)
         /\ \A i \in DOMAIN stack : i = 1 \/ (i - 1 \in DOMAIN stack' /\ stack'[i - 1] = stack[i])
  BY DEF TypeOK, Idle, At

\* Below a sweep there is the free of a temporary LOB; below that, if it is not the
\* program's, the connection that frees its children, and nothing more.
LEMMA BelowSweep ==
  ASSUME Placed, NEW i \in DOMAIN stack, stack[i].op = "sweep", i < Len(stack)
  PROVE  /\ i + 1 \in DOMAIN stack /\ stack[i + 1].pc = "alloc" /\ stack[i + 1].op = "free"
         /\ i + 1 < Len(stack) =>
              /\ i + 2 = Len(stack) /\ At(i + 2) = lobSvc[At(i + 1)]
              /\ Kind[At(i + 2)] = "svcctx"
  <1> USE DEF Placed
  <1>1. i + 1 \in DOMAIN stack /\ Len(stack) \in Nat /\ i \in Nat
    BY FrameFacts
  <1>2. stack[i + 1].pc = "alloc" /\ stack[i + 1].op = "free"
    <2>1. FrameOK(i) /\ FrameOK(i + 1)
      BY <1>1 DEF Structure, StackOK
    <2>2. stack[i + 1].op # "sweep"
      BY <1>1 DEF Structure, StackOK
    <2>3. stack[i + 1] \in Frame
      BY <1>1, FrameFacts
    <2> QED
      BY <2>1, <2>2, <2>3 DEF FrameOK, Frame
  <1>3. ASSUME i + 1 < Len(stack)
        PROVE  /\ i + 2 = Len(stack) /\ At(i + 2) = lobSvc[At(i + 1)]
               /\ Kind[At(i + 2)] = "svcctx"
    <2>1. i + 2 \in DOMAIN stack
      BY <1>1, <1>3, FrameFacts
    <2>2. AllocOK(i + 1) /\ AllocOK(i + 2) /\ FrameOK(i + 2)
      BY <1>1, <2>1 DEF Structure, StackOK
    <2>3. /\ At(i + 2) \in Handle /\ At(i + 1) \in Handle
          /\ stack[i + 2] \in Frame /\ stack[i + 1] \in Frame
      BY <1>1, <2>1, FrameFacts
    <2>4. lobSvc[At(i + 1)] = At(i + 2)
      BY <1>1, <1>2, <1>3, <2>2 DEF AllocOK
    <2>5. Kind[At(i + 2)] = "svcctx"
      BY <2>3, <2>4, NullAssumption DEF Structure, LobsPlaced
    <2>6. ring.parent[At(i + 2)] = Null
      BY <2>3, <2>5, SvcctxRoot
    <2>7. stack[i + 2].op # "sweep"
      BY <1>1, <2>1 DEF Structure, StackOK
    <2>8. stack[i + 2].pc = "loop"
      <3>1. lobSvc[At(i + 2)] = Null
        BY <2>3, <2>5 DEF Structure, LobsPlaced
      <3> QED
        BY <2>2, <2>3, <3>1 DEF AllocOK, Frame
    <2>9. i + 2 = Len(stack)
      <3> SUFFICES ASSUME i + 2 < Len(stack)
                   PROVE  FALSE
        BY <1>1, <2>1, FrameFacts
      <3>1. At(i + 3) \in Handle
        BY <1>1, FrameFacts
      <3>2. stack[i + 2].op = "free"
        BY <1>1, <2>2, <2>3, <2>7 DEF FrameOK, Frame
      <3>3. ring.parent[At(i + 2)] = At(i + 3)
        BY <1>1, <2>2, <2>8, <3>2 DEF FrameOK
      <3> QED
        BY <2>6, <3>1, <3>3, NullAssumption
    <2> QED
      BY <2>4, <2>5, <2>9
  <1> QED
    BY <1>1, <1>2, <1>3

\* The loop of oci8_base_free never comes to a wrapper whose free is in progress.
LEMMA ChildNotInFrames ==
  ASSUME Placed, ~Idle, stack[1].pc = "loop", NEW c \in Handle, ring.parent[c] = Top
  PROVE  \A j \in DOMAIN stack : At(j) # c
  <1> SUFFICES ASSUME NEW j \in DOMAIN stack, At(j) = c
               PROVE  FALSE
    OBVIOUS
  <1> USE DEF Placed
  <1>1. j \in Nat /\ j \in 1..Len(stack) /\ Len(stack) \in Nat /\ Top = At(1) /\ 1 \in DOMAIN stack
        /\ Top \in Handle
    BY FrameFacts
  <1>2. ring.parent[At(j)] = At(1) /\ ring.parent[At(j)] # Null
    BY <1>1, NullAssumption
  <1>3. CASE \A i \in DOMAIN stack : i < j => stack[i].op # "sweep"
    <2> DEFINE S == {At(i) : i \in 1..j}
    <2>1. S \in SUBSET Handle /\ S # {} /\ At(1) \in S /\ At(j) \in S
      BY <1>1, FrameFacts
    <2>2. ASSUME NEW i \in 1..j, i < j
          PROVE  ring.parent[At(i)] = At(i + 1)
      <3>1. i \in DOMAIN stack /\ i < Len(stack) /\ stack[i] \in Frame
        BY <1>1, <2>2, FrameFacts
      <3>2. stack[i].op = "free"
        BY <1>3, <2>2, <3>1 DEF Structure, StackOK, FrameOK, Frame
      <3>3. stack[i].pc = "loop"
        <4>1. CASE i = 1
          BY <4>1
        <4>2. CASE i > 1
          <5>1. i - 1 \in DOMAIN stack /\ i - 1 < j
            BY <1>1, <2>2, <4>2, FrameFacts
          <5>2. stack[i - 1].op # "sweep"
            BY <1>3, <5>1
          <5> QED
            BY <3>1, <4>2, <5>2 DEF Structure, StackOK, AllocOK, Frame
        <4> QED
          BY <1>1, <4>1, <4>2
      <3> QED
        BY <3>1, <3>2, <3>3 DEF Structure, StackOK, FrameOK
    <2>3. \A h \in S : ring.parent[h] \in S
      <3> SUFFICES ASSUME NEW i \in 1..j
                   PROVE  ring.parent[At(i)] \in S
        OBVIOUS
      <3>1. CASE i = j
        BY <1>2, <2>1, <3>1
      <3>2. CASE i < j
        BY <1>1, <2>2, <3>2
      <3> QED
        BY <1>1, <3>1, <3>2
    <2> QED
      BY <2>1, <2>3 DEF Structure, NoCycle
  <1>4. ASSUME NEW i \in DOMAIN stack, i < j, stack[i].op = "sweep"
        PROVE  FALSE
    <2>1. i \in Nat /\ i < Len(stack) /\ i + 1 \in DOMAIN stack /\ stack[i + 1].pc = "alloc"
      BY <1>1, <1>4, BelowSweep, FrameFacts
    <2>2. j # i + 1
      BY <1>2, <2>1 DEF Structure, StackOK, AllocOK
    <2>3. i + 1 < Len(stack) /\ i + 2 <= j
      BY <1>1, <1>4, <2>1, <2>2
    <2>4. j = i + 2 /\ Kind[At(j)] = "svcctx"
      BY <1>1, <1>4, <2>1, <2>3, BelowSweep
    <2> QED
      BY <1>2, <2>4, SvcctxRoot
  <1> QED
    BY <1>3, <1>4

\* A frame is entered for a wrapper that has none: from the program, by the
\* collector in an ALLOC, or from the loop of the parent's frame.
LEMMA EnterPlaced ==
  ASSUME Placed, NEW c \in live, NEW op \in {"free", "sweep", "logoff"},
         Enter(c, op), SameHandles,
         \A i \in DOMAIN stack : At(i) # c,
         op = "logoff" => Idle /\ Kind[c] = "svcctx",
         op = "free" => IF Idle THEN c \in held
                        ELSE stack[1].pc = "loop" /\ ring.parent[c] = Top,
         op = "sweep" => /\ c \notin held
                         /\ \A i \in DOMAIN stack : stack[i].op # "sweep"
                         /\ ~Idle => stack[1].pc = "alloc"
  PROVE  Structure'
  <1> USE DEF Placed, SameHandles
  <1> DEFINE f == [h |-> c, op |-> op, pc |-> "loop"]
  <1>1. f \in Frame /\ stack' = <<f>> \o stack /\ c \in Handle
    BY DEF Frame, Enter, TypeOK
  <1>2. /\ Len(stack') = Len(stack) + 1 /\ DOMAIN stack' = 1..(Len(stack) + 1)
        /\ stack'[1] = f /\ At(1)' = c
        /\ \A i \in DOMAIN stack : stack'[i + 1] = stack[i] /\ At(i + 1)' = At(i)
        /\ \A i \in DOMAIN stack' : i = 1 \/ i - 1 \in DOMAIN stack
    BY <1>1, PushFacts
  <1>3. Len(stack) \in Nat /\ DOMAIN stack = 1..Len(stack) /\ (Idle <=> Len(stack) = 0)
    BY FrameFacts DEF Idle, TypeOK
  <1> HIDE DEF f
  <1>4. f.h = c /\ f.op = op /\ f.pc = "loop"
    BY DEF f
  <1>5. ParentsOfKind' /\ NoCycle(ring.parent') /\ DeadAlone' /\ HeldMarked'
        /\ DescribesHeld' /\ OpenTyped'
    BY DEF Structure, ParentsOfKind, DeadAlone, HeldMarked, Marks, DescribesHeld, OpenTyped
  <1>6. LobsPlaced'
    <2>1. \A h \in Handle : InAlloc(h) => InAlloc(h)'
      BY <1>2, <1>3 DEF InAlloc
    <2> QED
      BY <2>1 DEF Structure, LobsPlaced
  <1>7. StackOK'
    <2>1. ASSUME NEW i \in DOMAIN stack', NEW j \in DOMAIN stack'
          PROVE  /\ At(i)' = At(j)' => i = j
                 /\ stack'[i].op = "sweep" /\ stack'[j].op = "sweep" => i = j
      <3>1. /\ i = 1 \/ (i - 1 \in DOMAIN stack /\ stack'[i] = stack[i - 1] /\ At(i)' = At(i - 1))
            /\ j = 1 \/ (j - 1 \in DOMAIN stack /\ stack'[j] = stack[j - 1] /\ At(j)' = At(j - 1))
            /\ i \in Nat /\ j \in Nat
        <4>1. i \in Nat /\ j \in Nat
          BY <1>2
        <4> QED
          BY <1>2, <4>1
      <3> QED
        BY <1>2, <1>4, <3>1 DEF Structure, StackOK
    <2>2. FrameOK(1)' /\ AllocOK(1)'
      <3>1. op = "free" /\ ~Idle => ring'.parent[c] = At(2)'
        <4>1. ~Idle => 1 \in DOMAIN stack /\ Top = At(1)
          BY FrameFacts
        <4> QED
          BY <1>2, <4>1
      <3>2. op = "sweep" /\ ~Idle => stack'[2].pc = "alloc"
        <4>1. ~Idle => 1 \in DOMAIN stack /\ 1 + 1 = 2
          BY FrameFacts
        <4> QED
          BY <1>2, <4>1
      <3> QED
        BY <1>2, <1>3, <1>4, <3>1, <3>2 DEF FrameOK, AllocOK
    <2>3. ASSUME NEW i \in DOMAIN stack
          PROVE  FrameOK(i + 1)' /\ AllocOK(i + 1)'
      <3>1. FrameOK(i) /\ AllocOK(i) /\ i \in Nat
        BY <1>3 DEF Structure, StackOK
      <3>2. i < Len(stack) => /\ i + 1 \in DOMAIN stack /\ stack'[i + 2] = stack[i + 1]
                              /\ At(i + 2)' = At(i + 1)
        <4>1. i < Len(stack) => i + 1 \in DOMAIN stack /\ (i + 1) + 1 = i + 2
          BY <1>3, <3>1
        <4> QED
          BY <1>2, <4>1
      <3>3. stack'[i + 1] = stack[i] /\ At(i + 1)' = At(i) /\ (i + 1) + 1 = i + 2
        BY <1>2, <3>1
      <3>4. FrameOK(i + 1)'
        BY <1>2, <1>3, <3>1, <3>2, <3>3 DEF FrameOK
      <3>5. AllocOK(i + 1)'
        <4>1. stack[i].pc = "alloc" => stack'[i].op = "sweep"
          <5>1. CASE i = 1
            BY <1>2, <1>3, <1>4, <5>1 DEF Idle
          <5>2. CASE i > 1
            <6>1. i - 1 \in DOMAIN stack /\ (i - 1) + 1 = i
              BY <1>3, <5>2
            <6>2. stack'[i] = stack[i - 1]
              BY <1>2, <6>1
            <6> QED
              BY <3>1, <5>2, <6>2 DEF AllocOK
          <5> QED
            BY <1>3, <5>1, <5>2
        <4>2. (i + 1) - 1 = i /\ (i + 1 < Len(stack') => i < Len(stack))
          BY <1>2, <1>3, <3>1
        <4> QED
          BY <3>1, <3>2, <3>3, <4>1, <4>2 DEF AllocOK
      <3> QED
        BY <3>4, <3>5
    <2>4. \A i \in DOMAIN stack' : FrameOK(i)' /\ AllocOK(i)'
      <3> SUFFICES ASSUME NEW i \in DOMAIN stack'
                   PROVE  FrameOK(i)' /\ AllocOK(i)'
        OBVIOUS
      <3>1. i \in Nat /\ (i = 1 \/ (i - 1 \in DOMAIN stack /\ (i - 1) + 1 = i))
        BY <1>2
      <3> QED
        BY <2>2, <2>3, <3>1
    <2> QED
      BY <2>1, <2>4 DEF StackOK
  <1> QED
    BY <1>5, <1>6, <1>7 DEF Structure

\* What the program frees is live, and there is no frame.
LEMMA UserFreePlaced ==
  ASSUME Placed, NEW h \in Handle, UserFree(h)
  PROVE  Structure'
  <1>1. h \in live /\ DOMAIN stack = {}
    BY DEF Placed, Structure, DeadAlone, UserFree, Idle
  <1> QED
    BY <1>1, EnterPlaced DEF UserFree

LEMMA LogoffPlaced ==
  ASSUME Placed, NEW s \in Handle, Logoff(s)
  PROVE  Structure'
  <1>1. s \in live /\ DOMAIN stack = {}
    BY DEF Placed, Structure, DeadAlone, Logoff, Usable, Idle
  <1> QED
    BY <1>1, EnterPlaced DEF Logoff

\* The collector does not come back into itself.
LEMMA SweepPlaced ==
  ASSUME Placed, NEW h \in Handle, Sweep(h)
  PROVE  Structure'
  <1>1. /\ \A i \in DOMAIN stack : At(i) # h /\ stack[i].op # "sweep"
        /\ ~Idle => stack[1].pc = "alloc"
    BY FrameFacts DEF Placed, Sweep, Frames, At
  <1> QED
    BY <1>1, EnterPlaced DEF Sweep

\* The loop enters the first child.
LEMMA FreeChildPlaced ==
  ASSUME Placed, FreeChild
  PROVE  Structure'
  <1> DEFINE c == ring.children[Top]
  <1>1. Top \in Handle /\ stack[1].pc = "loop" /\ ~Idle
    BY FrameFacts DEF Placed, FreeChild
  <1>2. c \in Handle /\ ring.parent[c] = Top
    BY <1>1, RingHere DEF RingOK, HeadsOK, FreeChild, ChildrenGone, Ring, Pointer
  <1>3. c \in live
    BY <1>1, <1>2, NullAssumption DEF Placed, Structure, DeadAlone
  <1>4. \A i \in DOMAIN stack : At(i) # c
    BY <1>1, <1>2, ChildNotInFrames
  <1> QED
    BY <1>1, <1>2, <1>3, <1>4, EnterPlaced DEF FreeChild

\* A frame is left: the frames below it find what they were at.
LEMMA PopKeepsStack ==
  ASSUME Placed, ~Idle, stack' = Tail(stack), held' = held,
         \A h \in Handle \ {Top} :
           /\ h \in live => h \in live'
           /\ h \in typed => h \in typed'
           /\ lobSvc'[h] = lobSvc[h] /\ ring'.parent[h] = ring.parent[h],
         \A h \in Handle : ring.children[h] = Null => ring'.children[h] = Null
  PROVE  StackOK'
  <1> USE DEF Placed
  <1>1. /\ Len(stack') = Len(stack) - 1 /\ DOMAIN stack' = 1..(Len(stack) - 1)
        /\ \A i \in DOMAIN stack' :
             i + 1 \in DOMAIN stack /\ stack'[i] = stack[i + 1] /\ At(i)' = At(i + 1)
    BY PopFacts
  <1>2. /\ Len(stack) \in Nat /\ DOMAIN stack = 1..Len(stack)
        /\ 1 \in DOMAIN stack /\ Top = At(1)
    BY FrameFacts
  <1>3. ASSUME NEW i \in DOMAIN stack'
        PROVE  FrameOK(i)' /\ AllocOK(i)'
    <2>1. /\ i \in Nat /\ i + 1 \in DOMAIN stack /\ stack'[i] = stack[i + 1] /\ At(i)' = At(i + 1)
          /\ i + 1 > 1 /\ i > 0
      BY <1>1, <1>2
    <2>2. FrameOK(i + 1) /\ AllocOK(i + 1) /\ At(i + 1) # Top /\ At(i + 1) \in Handle
      BY <1>2, <2>1, FrameFacts DEF Structure, StackOK
    <2>3. i < Len(stack') => /\ i + 1 < Len(stack) /\ stack'[i + 1] = stack[i + 2]
                             /\ At(i + 1)' = At(i + 2)
      <3>1. i < Len(stack') => i + 1 \in DOMAIN stack' /\ (i + 1) + 1 = i + 2
        BY <1>1, <2>1
      <3> QED
        BY <1>1, <1>2, <2>1, <3>1
    <2>4. FrameOK(i)'
      <3>1. (i + 1) + 1 = i + 2 /\ (i = Len(stack') => i + 1 = Len(stack))
        BY <1>1, <1>2, <2>1
      <3> QED
        BY <2>1, <2>2, <2>3, <3>1 DEF FrameOK
    <2>5. AllocOK(i)'
      <3>1. i > 1 => stack'[i - 1] = stack[i] /\ (i + 1) - 1 = i
        <4>1. i > 1 => i - 1 \in DOMAIN stack' /\ (i - 1) + 1 = i
          BY <1>1, <1>2, <2>1
        <4> QED
          BY <1>1, <2>1, <4>1
      <3>2. (i + 1) + 1 = i + 2
        BY <2>1
      <3> QED
        BY <2>1, <2>2, <2>3, <3>1, <3>2 DEF AllocOK
    <2> QED
      BY <2>4, <2>5
  <1>4. ASSUME NEW i \in DOMAIN stack', NEW j \in DOMAIN stack'
        PROVE  /\ At(i)' = At(j)' => i = j
               /\ stack'[i].op = "sweep" /\ stack'[j].op = "sweep" => i = j
    <2>1. i \in Nat /\ j \in Nat
      BY <1>1
    <2> QED
      BY <1>1, <2>1 DEF Structure, StackOK
  <1> QED
    BY <1>3, <1>4 DEF StackOK

\* The type of a frame that is not innermost, and of one that has a frame below.
LEMMA InAllocBelow ==
  ASSUME Placed, ~Idle, stack' = Tail(stack), NEW h \in Handle, h # Top, InAlloc(h)
  PROVE  InAlloc(h)'
  <1>1. PICK i \in DOMAIN stack : At(i) = h /\ stack[i].pc = "alloc"
    BY DEF InAlloc
  <1>2. i # 1
    BY <1>1, FrameFacts DEF Placed
  <1>3. i - 1 \in DOMAIN stack' /\ stack'[i - 1] = stack[i]
    BY <1>2, PopFacts DEF Placed
  <1> QED
    BY <1>1, <1>3 DEF InAlloc, At

\* The unlink before the ALLOC.
LEMMA UnlinkTempLobPlaced ==
  ASSUME Placed, UnlinkTempLob
  PROVE  Structure'
  <1> USE DEF Placed, UnlinkTempLob
  <1>1. /\ Len(stack) \in Nat /\ DOMAIN stack = 1..Len(stack) /\ stack[1] \in Frame
        /\ 1 \in DOMAIN stack /\ Top = At(1) /\ Top \in Handle /\ Head(stack) = stack[1]
    BY FrameFacts
  <1>2. /\ ring'.parent = [ring.parent EXCEPT ![Top] = Null]
        /\ ring.parent \in [Handle -> Pointer]
        /\ \A h \in Handle : ring.children[h] = Null => ring'.children[h] = Null
    BY <1>1, UnlinkedFields, RingHere
  <1>3. /\ Len(stack') = Len(stack) /\ DOMAIN stack' = DOMAIN stack
        /\ stack'[1].pc = "alloc"
        /\ \A i \in DOMAIN stack : /\ At(i)' = At(i) /\ stack'[i].op = stack[i].op
                                   /\ i # 1 => stack'[i] = stack[i]
    BY <1>1 DEF At, Frame, TypeOK
  <1>4. Top \in typed
    BY <1>1, NativeAssumption DEF IsTempLob, Structure, OpenTyped, TypeOK
  <1>5. ParentsOfKind' /\ DeadAlone' /\ DescribesHeld' /\ OpenTyped'
    BY <1>1, <1>2 DEF Structure, ParentsOfKind, DeadAlone, DescribesHeld, OpenTyped
  <1>6. NoCycle(ring.parent')
    BY <1>1, <1>2, NoCycleCut DEF Structure
  <1>7. HeldMarked'
    BY <1>1, <1>2, FewerMarks DEF Structure, TypeOK
  <1>8. LobsPlaced'
    <2>1. ASSUME NEW h \in Handle, InAlloc(h)
          PROVE  InAlloc(h)'
      <3>1. PICK i \in DOMAIN stack : At(i) = h /\ stack[i].pc = "alloc"
        BY <2>1 DEF InAlloc
      <3>2. i # 1 /\ i \in DOMAIN stack' /\ stack'[i] = stack[i]
        BY <1>1, <1>3, <3>1
      <3> QED
        BY <3>1, <3>2 DEF InAlloc, At
    <2>2. \A h \in Handle : h = Top => InAlloc(h)'
      <3>1. 1 \in DOMAIN stack' /\ stack'[1].h = Top
        BY <1>1, <1>3 DEF At
      <3> QED
        BY <1>3, <3>1 DEF InAlloc, At
    <2> QED
      BY <1>1, <1>2, <2>1, <2>2 DEF Structure, LobsPlaced, Pointer
  <1>9. StackOK'
    <2>1. ASSUME NEW i \in DOMAIN stack
          PROVE  FrameOK(i)' /\ AllocOK(i)'
      <3>1. FrameOK(i) /\ AllocOK(i) /\ i \in Nat /\ At(i) \in Handle
        BY <1>1, FrameFacts DEF Structure, StackOK
      <3>2. i < Len(stack) => /\ stack'[i + 1] = stack[i + 1] /\ At(i + 1)' = At(i + 1)
        BY <1>1, <1>3
      <3>3. CASE i = 1
        <4>1. FrameOK(1)'
          BY <1>1, <1>3, <3>1, <3>2, <3>3 DEF FrameOK
        <4>2. stack[1].op = "free" /\ 1 < Len(stack) => lobSvc[Top] = At(2)
          <5>1. Kind[Top] = "lob" /\ ring.parent[Top] \in {Null, lobSvc[Top]}
            BY <1>1 DEF IsTempLob, Structure, LobsPlaced
          <5>2. 1 < Len(stack) => At(2) \in Handle
            BY <1>1, FrameFacts
          <5> QED
            BY <1>1, <3>1, <3>3, <5>1, <5>2, NullAssumption DEF FrameOK
        <4>3. AllocOK(1)'
          BY <1>1, <1>2, <1>3, <1>4, <3>2, <3>3, <4>2 DEF AllocOK, IsTempLob, ChildrenGone
        <4> QED
          BY <3>3, <4>1, <4>3
      <3>4. CASE i # 1
        <4>1. At(i) # Top /\ i - 1 \in DOMAIN stack /\ stack'[i - 1].op = stack[i - 1].op
          BY <1>1, <1>3, <3>1, <3>4 DEF Structure, StackOK
        <4>2. FrameOK(i)'
          BY <1>2, <1>3, <3>1, <3>2, <3>4, <4>1 DEF FrameOK
        <4>3. AllocOK(i)'
          BY <1>2, <1>3, <3>1, <3>2, <3>4, <4>1 DEF AllocOK
        <4> QED
          BY <4>2, <4>3
      <3> QED
        BY <3>3, <3>4
    <2>2. \A i, j \in DOMAIN stack' :
            /\ At(i)' = At(j)' => i = j
            /\ stack'[i].op = "sweep" /\ stack'[j].op = "sweep" => i = j
      BY <1>3 DEF Structure, StackOK
    <2> QED
      BY <1>3, <2>1, <2>2 DEF StackOK
  <1> QED
    BY <1>5, <1>6, <1>7, <1>8, <1>9 DEF Structure

\* The return from the ALLOC: the LOB was unlinked before.
LEMMA MoveTempLobPlaced ==
  ASSUME Placed, MoveTempLob
  PROVE  Structure'
  <1> USE DEF Placed, MoveTempLob, Return
  <1>1. /\ 1 \in DOMAIN stack /\ Top = At(1) /\ Top \in Handle /\ Head(stack) = stack[1]
    BY FrameFacts
  <1>2. /\ lobSvc[Top] # Null /\ ring.parent[Top] = Null /\ ring.children[Top] = Null
        /\ Kind[Top] = "lob" /\ (stack[1].op = "sweep" => Top \notin held)
    BY <1>1 DEF Structure, StackOK, AllocOK, FrameOK, LobsPlaced
  <1>3. /\ lobSvc'[Top] = Null /\ hp'[Top] = Null
        /\ \A h \in Handle \ {Top} : lobSvc'[h] = lobSvc[h] /\ hp'[h] = hp[h]
    BY <1>1 DEF TypeOK
  <1>4. ParentsOfKind' /\ NoCycle(ring.parent') /\ DescribesHeld' /\ OpenTyped'
    BY <1>1, <1>3 DEF Structure, ParentsOfKind, DescribesHeld, OpenTyped
  <1>5. DeadAlone'
    BY <1>1, <1>2, <1>3 DEF Structure, DeadAlone
  <1>6. HeldMarked'
    BY <1>3, FewerMarks DEF Structure, TypeOK
  <1>7. LobsPlaced'
    BY <1>1, <1>2, <1>3, InAllocBelow DEF Structure, LobsPlaced
  <1>8. StackOK'
    BY <1>1, <1>3, PopKeepsStack
  <1> QED
    BY <1>4, <1>5, <1>6, <1>7, <1>8 DEF Structure

\* A connection that the collector sweeps has no LOB: those below it were freed,
\* and one that is in its ALLOC would make the connection reachable.
LEMMA SweptHasNoLob ==
  ASSUME Placed, ~Idle, Head(stack).pc = "loop", Head(stack).op = "sweep", ChildrenGone,
         NEW h \in Handle
  PROVE  lobSvc[h] # Top
  <1> SUFFICES ASSUME lobSvc[h] = Top
               PROVE  FALSE
    OBVIOUS
  <1> USE DEF Placed
  <1>1. /\ Len(stack) \in Nat /\ DOMAIN stack = 1..Len(stack)
        /\ 1 \in DOMAIN stack /\ Top = At(1) /\ Top \in Handle /\ Head(stack) = stack[1]
    BY FrameFacts
  <1>2. Kind[h] = "lob" /\ Kind[Top] = "svcctx" /\ ring.parent[h] # Top
    BY <1>1, Childless, NullAssumption DEF Structure, LobsPlaced, ChildrenGone
  <1>3. PICK i \in DOMAIN stack : At(i) = h /\ stack[i].pc = "alloc"
    BY <1>1, <1>2, NullAssumption DEF Structure, LobsPlaced, InAlloc
  <1>4. i \in Nat /\ i > 1 /\ i - 1 \in DOMAIN stack
    BY <1>1, <1>3
  <1>5. i = 2
    <2>1. stack[i - 1].op = "sweep"
      BY <1>3, <1>4 DEF Structure, StackOK, AllocOK
    <2> QED
      BY <1>1, <1>4, <2>1 DEF Structure, StackOK
  <1>6. stack[2].op = "free"
    BY <1>1, <1>4, <1>5, BelowSweep
  <1>7. CASE Len(stack) = 2
    <2>1. h \in held
      BY <1>3, <1>5, <1>6, <1>7 DEF Structure, StackOK, FrameOK
    <2>2. Top \in held
      BY <1>1, <1>2, <2>1 DEF Structure, HeldMarked, Marks
    <2> QED
      BY <1>1, <2>2 DEF Structure, StackOK, FrameOK
  <1>8. CASE Len(stack) > 2
    <2>1. At(3) = Top
      BY <1>3, <1>5, <1>6, <1>8 DEF Structure, StackOK, AllocOK
    <2> QED
      BY <1>1, <1>8, <2>1 DEF Structure, StackOK
  <1> QED
    BY <1>1, <1>4, <1>5, <1>7, <1>8

\* The end of a frame.
LEMMA FreeSelfPlaced ==
  ASSUME Placed, FreeSelf
  PROVE  Structure'
  <1> USE DEF Placed, FreeSelf, Return
  <1>1. /\ 1 \in DOMAIN stack /\ Top = At(1) /\ Top \in Handle /\ Head(stack) = stack[1]
    BY FrameFacts
  <1>2. stack[1].op = "sweep" => Top \notin held
    BY <1>1 DEF Structure, StackOK, FrameOK
  <1>3. /\ lobSvc'[Top] = Null /\ hp'[Top] = Null
        /\ \A h \in Handle \ {Top} : lobSvc'[h] = lobSvc[h] /\ hp'[h] = hp[h]
    BY <1>1 DEF TypeOK
  <1>4. /\ ring'.parent = [ring.parent EXCEPT ![Top] = Null]
        /\ ring.parent \in [Handle -> Pointer]
        /\ \A h \in Handle : ring.children[h] = Null => ring'.children[h] = Null
    BY <1>1, UnlinkedFields, RingHere
  <1>5. ParentsOfKind' /\ DescribesHeld' /\ OpenTyped'
    BY <1>1, <1>3, <1>4 DEF Structure, ParentsOfKind, DescribesHeld, OpenTyped
  <1>6. NoCycle(ring.parent')
    BY <1>1, <1>4, NoCycleCut DEF Structure
  <1>7. DeadAlone'
    BY <1>1, <1>2, <1>3, <1>4 DEF Structure, DeadAlone, ChildrenGone
  <1>8. HeldMarked'
    BY <1>1, <1>3, <1>4, FewerMarks DEF Structure, TypeOK
  <1>9. LobsPlaced'
    <2>1. \A h \in Handle \ {Top} : lobSvc[h] # Null => lobSvc[h] \in live'
      BY <1>1, SweptHasNoLob DEF Structure, LobsPlaced
    <2> QED
      BY <1>1, <1>3, <1>4, <2>1, InAllocBelow DEF Structure, LobsPlaced, Pointer
  <1>10. StackOK'
    BY <1>1, <1>3, <1>4, PopKeepsStack
  <1> QED
    BY <1>5, <1>6, <1>7, <1>8, <1>9, <1>10 DEF Structure

\* A logoff is the program's only frame.
LEMMA FinishLogoffPlaced ==
  ASSUME Placed, NEW F, NEW raises, FinishLogoff(F, raises)
  PROVE  Structure'
  <1> USE DEF Placed, FinishLogoff
  <1>1. /\ 1 \in DOMAIN stack /\ Top = At(1) /\ Top \in Handle /\ Head(stack) = stack[1]
    BY FrameFacts
  <1>2. Kind[Top] = "svcctx"
    BY <1>1 DEF Structure, StackOK, FrameOK
  <1>3. \A h \in Handle \ {Top} : h \in typed => h \in typed'
    OBVIOUS
  <1>4. ParentsOfKind' /\ NoCycle(ring.parent') /\ DeadAlone' /\ HeldMarked' /\ DescribesHeld'
    BY DEF Structure, ParentsOfKind, DeadAlone, HeldMarked, Marks, DescribesHeld
  <1>5. OpenTyped'
    BY <1>2, <1>3 DEF Structure, OpenTyped
  <1>6. LobsPlaced'
    BY <1>1, <1>2, InAllocBelow DEF Structure, LobsPlaced
  <1>7. StackOK'
    BY <1>1, <1>3, PopKeepsStack
  <1> QED
    BY <1>4, <1>5, <1>6, <1>7 DEF Structure

LEMMA NothingToLogOffPlaced ==
  ASSUME Placed, NothingToLogOff
  PROVE  Structure'
  <1> USE DEF Placed, NothingToLogOff, SameHandles
  <1>1. /\ 1 \in DOMAIN stack /\ Top = At(1) /\ Top \in Handle /\ Head(stack) = stack[1]
    BY FrameFacts
  <1>2. Kind[Top] = "svcctx"
    BY <1>1 DEF Structure, StackOK, FrameOK
  <1>3. ParentsOfKind' /\ NoCycle(ring.parent') /\ DeadAlone' /\ HeldMarked' /\ DescribesHeld'
        /\ OpenTyped'
    BY DEF Structure, ParentsOfKind, DeadAlone, HeldMarked, Marks, DescribesHeld, OpenTyped
  <1>4. LobsPlaced'
    BY <1>1, <1>2, InAllocBelow DEF Structure, LobsPlaced
  <1>5. StackOK'
    BY <1>1, PopKeepsStack
  <1> QED
    BY <1>3, <1>4, <1>5 DEF Structure

\* A call that releases temporary LOBs moves no wrapper.
LEMMA SvcctxCallPlaced ==
  ASSUME Placed, NEW s \in Handle, NEW F, SvcctxCall(s, F)
  PROVE  Structure'
  <1> USE DEF SvcctxCall, Placed
  <1>1. ParentsOfKind' /\ NoCycle(ring.parent') /\ DeadAlone' /\ HeldMarked'
        /\ LobsPlaced' /\ DescribesHeld' /\ OpenTyped'
    BY DEF Structure, ParentsOfKind, DeadAlone, HeldMarked, Marks, LobsPlaced, InAlloc, At,
           DescribesHeld, OpenTyped
  <1>2. StackOK'
    BY NoFrames DEF Idle
  <1> QED
    BY <1>1, <1>2 DEF Structure

\* Nothing is placed at the beginning,
LEMMA InitPlaced ==
  ASSUME Init
  PROVE  Structure
  <1> USE DEF Init, InitRing
  <1>1. ParentsOfKind /\ DeadAlone /\ HeldMarked /\ DescribesHeld /\ OpenTyped
    BY NullAssumption DEF ParentsOfKind, DeadAlone, HeldMarked, DescribesHeld, OpenTyped
  <1>2. NoCycle(ring.parent)
    BY NullAssumption DEF NoCycle
  <1>3. LobsPlaced /\ StackOK
    BY DEF LobsPlaced, StackOK
  <1> QED
    BY <1>1, <1>2, <1>3 DEF Structure

\* and a step that changes nothing moves nothing.
LEMMA StutterPlaced ==
  ASSUME Placed, UNCHANGED vars
  PROVE  Structure'
  <1> USE DEF vars, Placed
  <1>1. ParentsOfKind' /\ NoCycle(ring.parent') /\ DeadAlone' /\ HeldMarked'
        /\ LobsPlaced' /\ DescribesHeld' /\ OpenTyped'
    BY DEF Structure, ParentsOfKind, DeadAlone, HeldMarked, Marks, LobsPlaced, InAlloc, At,
           DescribesHeld, OpenTyped
  <1>2. StackOK'
    BY DEF Structure, StackOK, FrameOK, AllocOK, At
  <1> QED
    BY <1>1, <1>2 DEF Structure

\* The whole invariant of the rings and the frames is inductive.
LEMMA InitAllPlaced == Init => Placed
  BY InitOK, InitPlaced DEF Placed

LEMMA NextPlaced == Placed /\ [Next]_vars => Placed'
  <1> SUFFICES ASSUME Placed, [Next]_vars
               PROVE  Placed'
    OBVIOUS
  <1>1. (TypeOK /\ RingsWellFormed)'
    BY NextOK DEF Placed
  <1>2. Structure'
    BY NewSvcctxPlaced, ConnectPlaced, NewChildPlaced, NewBindPlaced, BindPlaced,
       DescribeCallPlaced, DescribeReturnPlaced, DropPlaced, UserFreePlaced, LogoffPlaced,
       SweepPlaced, FreeChildPlaced, UnlinkTempLobPlaced, MoveTempLobPlaced, FreeSelfPlaced,
       FinishLogoffPlaced, NothingToLogOffPlaced, SvcctxCallPlaced, StutterPlaced
       DEF Next, FreeStep
  <1> QED
    BY <1>1, <1>2 DEF Placed

\* What the invariant says of the memory that the pointers lead to.
LEMMA PlacedNotDangling ==
  ASSUME Placed
  PROVE  NoDanglingPointer
  <1> USE DEF Placed
  <1>1. held \subseteq live
    BY DEF Structure, DeadAlone, TypeOK
  <1>2. \A c \in Handle : ring.parent[c] # Null => c \in live /\ ring.parent[c] \in live
    <2> SUFFICES ASSUME NEW c \in Handle, ring.parent[c] # Null
                 PROVE  c \in live /\ ring.parent[c] \in live
      OBVIOUS
    <2>1. ring.parent[c] \in Handle /\ ring.children[ring.parent[c]] # Null
      BY RingHere, Childless DEF Pointer
    <2> QED
      BY <2>1 DEF Structure, DeadAlone
  <1>3. ASSUME NEW h \in live
        PROVE  {ring.parent[h], ring.children[h], ring.next[h], ring.prev[h]}
                 \subseteq live \union {Null}
    <2>1. /\ h \in Handle /\ ring.next[h] \in Handle /\ ring.prev[h] \in Handle
          /\ ring.parent[h] \in Pointer /\ ring.children[h] \in Pointer
      BY DEF TypeOK, Ring
    <2>2. ring.children[h] # Null => ring.parent[ring.children[h]] # Null
      BY <2>1, NullAssumption DEF RingsWellFormed, RingOK, HeadsOK
    <2>3. /\ ring.parent[ring.next[h]] = ring.parent[h]
          /\ ring.parent[ring.prev[h]] = ring.parent[h]
          /\ ring.parent[h] = Null => ring.next[h] = h /\ ring.prev[h] = h
      BY <2>1 DEF RingsWellFormed, RingOK, RingsClosed, OrphansAlone
    <2>4. ring.next[h] \in live /\ ring.prev[h] \in live
      BY <1>2, <2>1, <2>3
    <2>5. ring.children[h] \in live \union {Null}
      BY <1>2, <2>1, <2>2 DEF Pointer
    <2> QED
      BY <1>2, <2>1, <2>4, <2>5
  <1>4. \A h \in Handle : lobSvc[h] # Null => lobSvc[h] \in live
    BY DEF Structure, LobsPlaced
  <1>5. \A h \in Handle : pending[h] # Null => {h, pending[h]} \subseteq held
    BY DEF Structure, DescribesHeld
  <1>6. \A f \in Frames : f.h \in live
    BY DEF Structure, StackOK, FrameOK, Frames, At
  <1> QED
    BY <1>1, <1>3, <1>4, <1>5, <1>6 DEF NoDanglingPointer

-------------------------------------------------------------------------------
\* Every variable keeps its type.
THEOREM TypeCorrect == Spec => []TypeOK
  <1>1. TypeOK /\ RingsWellFormed /\ [Next]_vars => (TypeOK /\ RingsWellFormed)'
    BY NextOK
  <1> QED
    BY <1>1, InitOK, PTL DEF Spec

\* Whatever the program links, closes or logs off and whatever the collector
\* sweeps, in any order and with any number of handles, next and prev stay
\* inverse, siblings share their parent, and children reaches all of them.
THEOREM RingsStayWellFormed == Spec => []RingsWellFormed
  <1>1. TypeOK /\ RingsWellFormed /\ [Next]_vars => (TypeOK /\ RingsWellFormed)'
    BY NextOK
  <1> QED
    BY <1>1, InitOK, PTL DEF Spec

\* The tree, the frames and the marks keep the shape that oci8_base_free needs:
\* no frame is entered twice, the collector is in it once, and a wrapper that a
\* free goes through is there until its frame is left.
THEOREM StructureKept == Spec => []Structure
  <1>1. Placed => Structure
    BY DEF Placed
  <1> QED
    BY <1>1, InitAllPlaced, NextPlaced, PTL DEF Spec

\* No pointer of the program, of the tree, of a LOB, of a describe in progress or
\* of a frame of oci8_base_free leads to memory that the collector has given
\* back, whatever is linked, freed and swept, and in whatever order.
THEOREM NeverDangling == Spec => []NoDanglingPointer
  BY InitAllPlaced, NextPlaced, PlacedNotDangling, PTL DEF Spec

-------------------------------------------------------------------------------
(***************************************************************************)
(* The rings implement the ordered forest of HandleForest.                 *)
(***************************************************************************)

\* s lists the children of p in the order of the ring, from the head on.
Lists(r, p, s) ==
  /\ \A h \in Handle : r.parent[h] = p <=> \E i \in 1 .. Len(s) : s[i] = h
  /\ \A i, j \in 1 .. Len(s) : s[i] = s[j] => i = j
  /\ r.children[p] = IF Len(s) = 0 THEN Null ELSE s[1]
  /\ \A i \in 1 .. Len(s) : r.next[s[i]] = s[IF i = Len(s) THEN 1 ELSE i + 1]

Listed(r, k) == k \in [Handle -> Seq(Handle)] /\ \A p \in Handle : Lists(r, p, k[p])

\* The walk along next meets such a list.
LEMMA WalkMeets ==
  ASSUME NEW p \in Handle, NEW s \in Seq(Handle), Lists(ring, p, s)
  PROVE  Walk(p) = s
<1> DEFINE n == Cardinality(ChildrenOf(ring, p))
           Walks(w) == w = [i \in 1 .. n |-> IF i = 1 THEN ring.children[p] ELSE ring.next[w[i - 1]]]
<1>1. Len(s) \in Nat /\ DOMAIN s = 1 .. Len(s) /\ s \in [1 .. Len(s) -> Handle]
  OBVIOUS
<1>2. n = Len(s)
  <2>1. s \in Bijection(1 .. Len(s), ChildrenOf(ring, p))
    <3>1. s \in [1 .. Len(s) -> ChildrenOf(ring, p)]
      BY <1>1 DEF Lists, ChildrenOf
    <3>2. \A h \in ChildrenOf(ring, p) : \E i \in 1 .. Len(s) : s[i] = h
      BY DEF Lists, ChildrenOf
    <3> QED BY <3>1, <3>2 DEF Bijection, Injection, Surjection, IsInjective, Lists
  <2>2. ExistsBijection(1 .. Len(s), ChildrenOf(ring, p))
    BY <2>1 DEF ExistsBijection
  <2> QED BY <1>1, <2>2, FS_CountingElements
<1> HIDE DEF n
<1>3. ASSUME NEW i \in 1 .. n
      PROVE  s[i] = IF i = 1 THEN ring.children[p] ELSE ring.next[s[i - 1]]
  <2>1. CASE i = 1
    <3>1. Len(s) # 0
      BY <1>1, <1>2
    <3> QED BY <2>1, <3>1 DEF Lists
  <2>2. CASE i # 1
    <3>1. i - 1 \in 1 .. Len(s) /\ i - 1 # Len(s) /\ (i - 1) + 1 = i
      BY <1>1, <1>2, <2>2
    <3> QED BY <2>2, <3>1 DEF Lists
  <2> QED BY <2>1, <2>2
<1>4. Walks(s)
  BY <1>1, <1>2, <1>3
<1>5. Walk(p) = CHOOSE w : Walks(w)
  BY Zenon DEF Walk, n
<1>6. Walks(Walk(p))
  <2> HIDE DEF Walks
  <2> QED BY <1>4, <1>5
<1> DEFINE w == Walk(p)
<1> HIDE DEF w
<1>7. w = [i \in 1 .. n |-> IF i = 1 THEN ring.children[p] ELSE ring.next[w[i - 1]]]
  BY <1>6 DEF w
<1>8. 1 .. n \subseteq {i \in 1 .. n : w[i] = s[i]}
  <2> DEFINE S == {i \in 1 .. n : w[i] = s[i]}
  <2>1. n > 0 => 1 \in S
    BY <1>1, <1>2, <1>3, <1>7
  <2>2. ASSUME NEW i \in 1 .. n - 1, i \in S PROVE i + 1 \in S
    <3>1. i \in 1 .. n /\ i + 1 \in 1 .. n /\ i + 1 # 1 /\ (i + 1) - 1 = i
      BY <1>1, <1>2
    <3> QED BY <1>3, <1>7, <2>2, <3>1
  <2> HIDE DEF S
  <2>3. n \in Nat
    BY <1>1, <1>2
  <2>4. 1 .. n \subseteq S
    BY <2>1, <2>2, <2>3, UpTo
  <2> QED BY <2>4 DEF S
<1>9. w = s
  BY <1>1, <1>2, <1>7, <1>8
<1> QED BY <1>9 DEF w

\* A list without one of its elements
LEMMA RemovedFacts ==
  ASSUME NEW s \in Seq(Handle), NEW b \in Handle, NEW i \in 1 .. Len(s), s[i] = b,
         \A j \in 1 .. Len(s) : s[j] = b => j = i
  PROVE  LET t == Forest!RemoveFirst(s, b) IN
         /\ t \in Seq(Handle) /\ Len(t) = Len(s) - 1
         /\ \A j \in 1 .. Len(t) : t[j] = s[IF j < i THEN j ELSE j + 1]
<1> DEFINE I == {j \in 1 .. Len(s) : s[j] = b}
           front == SubSeq(s, 1, i - 1)
           back == SubSeq(s, i + 1, Len(s))
           t == front \o back
<1>1. I = {i}
  OBVIOUS
<1>2. Forest!SelectInSeq(s, LAMBDA v : v = b) = i
  <2>1. Forest!SelectInSeq(s, LAMBDA v : v = b) = Forest!Min(I)
    BY <1>1 DEF Forest!SelectInSeq
  <2>2. Forest!Min({i}) = i
    BY DEF Forest!Min
  <2> QED BY <1>1, <2>1, <2>2
<1>3. Forest!RemoveFirst(s, b) = t
  BY <1>2 DEF Forest!RemoveFirst, Forest!RemoveAt
<1>4. front \in Seq(Handle) /\ Len(front) = i - 1 /\ \A j \in 1 .. i - 1 : front[j] = s[j]
  OBVIOUS
<1>5. /\ back \in Seq(Handle) /\ Len(back) = Len(s) - i
      /\ \A j \in 1 .. Len(s) - i : back[j] = s[i + j]
  OBVIOUS
<1> HIDE DEF front, back
<1>n. Len(s) \in Nat
  OBVIOUS
<1>6. t \in Seq(Handle) /\ Len(t) = Len(s) - 1
  BY <1>4, <1>5, <1>n, ConcatProperties
<1>7. ASSUME NEW j \in 1 .. Len(s) - 1 PROVE t[j] = s[IF j < i THEN j ELSE j + 1]
  <2>1. t[j] = IF j <= i - 1 THEN front[j] ELSE back[j - (i - 1)]
    <3>1. j \in 1 .. Len(front) + Len(back)
      BY <1>4, <1>5, <1>n
    <3>2. t[j] = IF j <= Len(front) THEN front[j] ELSE back[j - Len(front)]
      BY <1>4, <1>5, <3>1, ConcatProperties
    <3> QED BY <1>4, <3>2
  <2>2. CASE j < i
    BY <1>4, <1>n, <2>1, <2>2
  <2>3. CASE ~ (j < i)
    <3>1. j - (i - 1) \in 1 .. Len(s) - i /\ i + (j - (i - 1)) = j + 1 /\ ~ (j <= i - 1)
      BY <1>n, <2>3
    <3>2. back[j - (i - 1)] = s[i + (j - (i - 1))]
      BY <1>5, <3>1
    <3> QED BY <2>1, <2>3, <3>1, <3>2
  <2> QED BY <2>2, <2>3
<1> QED BY <1>3, <1>6, <1>7

LEMMA NotRemoved ==
  ASSUME NEW s \in Seq(Handle), NEW b, \A j \in 1 .. Len(s) : s[j] # b
  PROVE  Forest!RemoveFirst(s, b) = s
  BY DEF Forest!RemoveFirst

\* oci8_unlink_from_parent takes b out of the list of its parent.
LEMMA UnlinkedLists ==
  ASSUME NEW r \in Ring, RingOK(r), NEW b \in Handle, NEW k, Listed(r, k)
  PROVE  Listed(Unlinked(r, b), Forest!Without(k, b))
<1> DEFINE u == Unlinked(r, b)
           q == r.parent[b]
<1>k. \A p \in Handle : k[p] \in Seq(Handle) /\ Lists(r, p, k[p])
  BY DEF Listed
<1>0. ASSUME NEW p \in Handle, p # q
      PROVE  Forest!RemoveFirst(k[p], b) = k[p]
  <2>1. \A j \in 1 .. Len(k[p]) : k[p][j] # b
    BY <1>k, <1>0 DEF Lists
  <2> QED BY <1>k, <2>1, NotRemoved
<1>1. CASE q = Null
  <2>1. u = r
    BY <1>1 DEF Unlinked
  <2>2. Forest!Without(k, b) = [p \in Handle |-> k[p]]
    <3>1. \A p \in Handle : p # q
      BY <1>1, NullAssumption
    <3> QED BY <1>0, <3>1 DEF Forest!Without
  <2>3. k = [p \in Handle |-> k[p]]
    BY DEF Listed
  <2> QED BY <2>1, <2>2, <2>3
<1>2. CASE q # Null
  <2>1. q \in Handle
    BY <1>2 DEF Ring, Pointer
  <2> DEFINE s == k[q]
             n == Len(k[q])
             t == Forest!RemoveFirst(k[q], b)
  <2>2. s \in Seq(Handle) /\ Lists(r, q, s) /\ n \in Nat
    BY <1>k, <2>1
  <2>3. PICK i \in 1 .. n : s[i] = b
    BY <2>2 DEF Lists
  <2>4. /\ \A h \in Handle : u.parent[h] = IF h = b THEN Null ELSE r.parent[h]
        /\ \A h \in Handle \ {b} : u.next[h] = IF r.next[h] = b THEN r.next[b] ELSE r.next[h]
        /\ \A p \in Handle \ {q} : u.children[p] = r.children[p]
        /\ u.children[q] = IF r.next[b] = b THEN Null
                           ELSE IF r.children[q] = b THEN r.next[b] ELSE r.children[q]
    <3>1. CASE r.next[b] = b
      <4>1. ASSUME NEW h \in Handle, r.next[h] = b PROVE h = b
        <5>1. r.prev[r.next[h]] = h /\ r.prev[r.next[b]] = b
          BY DEF RingOK, RingsClosed
        <5> QED BY <3>1, <4>1, <5>1
      <4> QED BY <1>2, <2>1, <3>1, <4>1 DEF Unlinked, Ring
    <3>2. CASE r.next[b] # b
      <4>1. \A h \in Handle : h = r.prev[b] <=> r.next[h] = b
        BY DEF RingOK, RingsClosed, Ring
      <4> QED BY <1>2, <2>1, <3>2, <4>1, Spliced
    <3> QED BY <3>1, <3>2
  <2>5. /\ t \in Seq(Handle) /\ Len(t) = n - 1
        /\ \A j \in 1 .. n - 1 : t[j] = s[IF j < i THEN j ELSE j + 1]
    <3>1. \A j \in 1 .. n : s[j] = b => j = i
      BY <2>2, <2>3 DEF Lists
    <3> QED BY <2>2, <2>3, <3>1, RemovedFacts
  <2> HIDE DEF u, t
  <2>6. ASSUME NEW p \in Handle, p # q PROVE Lists(u, p, k[p])
    <3>1. /\ \A h \in Handle : r.parent[h] = p <=> \E j \in 1 .. Len(k[p]) : k[p][j] = h
          /\ \A i1, j \in 1 .. Len(k[p]) : k[p][i1] = k[p][j] => i1 = j
          /\ r.children[p] = IF Len(k[p]) = 0 THEN Null ELSE k[p][1]
          /\ \A j \in 1 .. Len(k[p]) : r.next[k[p][j]] = k[p][IF j = Len(k[p]) THEN 1 ELSE j + 1]
      BY <1>k DEF Lists
    <3>2. ASSUME NEW j \in 1 .. Len(k[p])
          PROVE  k[p][j] \in Handle \ {b} /\ u.next[k[p][j]] = r.next[k[p][j]]
      <4>1. k[p][j] \in Handle /\ r.parent[k[p][j]] = p
        BY <1>k, <3>1
      <4>2. k[p][j] # b /\ r.next[k[p][j]] # b
        BY <2>6, <4>1 DEF RingOK, RingsClosed
      <4> QED BY <2>4, <4>1, <4>2
    <3>3. \A h \in Handle : u.parent[h] = p <=> r.parent[h] = p
      BY <2>4, <2>6, NullAssumption
    <3>4. u.children[p] = r.children[p]
      BY <2>4, <2>6
    <3> QED BY <3>1, <3>2, <3>3, <3>4 DEF Lists
  <2>7. Lists(u, q, t)
    <3> HIDE DEF s, n, q
    <3>0. /\ \A h \in Handle : r.parent[h] = q <=> \E j \in 1 .. n : s[j] = h
          /\ \A i1, j \in 1 .. n : s[i1] = s[j] => i1 = j
          /\ r.children[q] = IF n = 0 THEN Null ELSE s[1]
          /\ \A j \in 1 .. n : r.next[s[j]] = s[IF j = n THEN 1 ELSE j + 1]
          /\ \A j \in 1 .. n : s[j] \in Handle
      <4>1. \A j \in 1 .. n : s[j] \in Handle
        BY <2>2 DEF s, n
      <4>2. Lists(r, q, s) /\ n = Len(s)
        BY <2>2 DEF s, n
      <4> QED BY <4>1, <4>2 DEF Lists
    <3>1. ASSUME NEW h \in Handle
          PROVE  u.parent[h] = q <=> \E j \in 1 .. n - 1 : t[j] = h
      <4>1. ASSUME NEW j \in 1 .. n, s[j] = h, h # b
            PROVE  \E m \in 1 .. n - 1 : t[m] = h
        <5>1. CASE j < i
          <6>1. j \in 1 .. n - 1
            BY <2>2, <5>1
          <6> QED BY <2>5, <4>1, <5>1, <6>1
        <5>2. CASE ~ (j < i)
          <6>1. j # i
            BY <2>3, <4>1
          <6>2. j - 1 \in 1 .. n - 1 /\ ~ (j - 1 < i) /\ (j - 1) + 1 = j
            BY <2>2, <5>2, <6>1
          <6> QED BY <2>5, <4>1, <6>2
        <5> QED BY <5>1, <5>2
      <4>2. ASSUME NEW m \in 1 .. n - 1, t[m] = h
            PROVE  h # b /\ \E j \in 1 .. n : s[j] = h
        <5>1. (IF m < i THEN m ELSE m + 1) \in 1 .. n /\ (IF m < i THEN m ELSE m + 1) # i
          BY <2>2
        <5> QED BY <2>3, <2>5, <3>0, <4>2, <5>1
      <4>3. h = b => u.parent[h] # q
        BY <2>1, <2>4, NullAssumption
      <4> QED BY <2>4, <3>0, <4>1, <4>2, <4>3
    <3>2. ASSUME NEW j \in 1 .. n - 1, NEW m \in 1 .. n - 1, t[j] = t[m]
          PROVE  j = m
      <4>1. (IF j < i THEN j ELSE j + 1) \in 1 .. n /\ (IF m < i THEN m ELSE m + 1) \in 1 .. n
        BY <2>2
      <4>2. (IF j < i THEN j ELSE j + 1) = (IF m < i THEN m ELSE m + 1)
        BY <2>5, <3>0, <3>2, <4>1
      <4> QED BY <4>2
    <3>3. u.children[q] = IF n - 1 = 0 THEN Null ELSE t[1]
      <4>1. CASE n = 1
        BY <2>2, <2>3, <2>4, <3>0, <4>1
      <4>2. CASE n # 1
        <5>0. n > 1 /\ 1 \in 1 .. n - 1 /\ 1 \in 1 .. n
          BY <2>2, <4>2
        <5>1. r.next[b] # b
          BY <2>2, <2>3, <3>0, <5>0
        <5>2. t[1] = s[IF 1 < i THEN 1 ELSE 2] /\ r.children[q] = s[1]
          BY <2>5, <3>0, <5>0
        <5>3. CASE i = 1
          BY <2>3, <2>4, <3>0, <5>0, <5>1, <5>2, <5>3
        <5>4. CASE i # 1
          BY <2>3, <2>4, <3>0, <5>0, <5>1, <5>2, <5>4
        <5> QED BY <5>3, <5>4
      <4> QED BY <4>1, <4>2
    <3>4. ASSUME NEW j \in 1 .. n - 1
          PROVE  u.next[t[j]] = t[IF j = n - 1 THEN 1 ELSE j + 1]
      <4> DEFINE m == IF j < i THEN j ELSE j + 1
                 After(x) == IF x = n THEN 1 ELSE x + 1
      <4>1. m \in 1 .. n /\ m # i /\ After(m) \in 1 .. n /\ After(i) \in 1 .. n
        BY <2>2
      <4>2. t[j] = s[m] /\ s[m] \in Handle /\ s[m] # b
        BY <2>3, <2>5, <3>0, <4>1
      <4>3. u.next[t[j]] = s[IF After(m) = i THEN After(i) ELSE After(m)]
        <5>1. r.next[s[m]] = s[After(m)] /\ r.next[b] = s[After(i)]
          BY <2>3, <3>0, <4>1
        <5>2. s[After(m)] = b <=> After(m) = i
          BY <2>3, <3>0, <4>1
        <5> HIDE DEF After, m
        <5> QED BY <2>4, <4>2, <5>1, <5>2
      <4> DEFINE j2 == IF j = n - 1 THEN 1 ELSE j + 1
      <4>4. j2 \in 1 .. n - 1
        BY <2>2
      <4>5. (IF After(m) = i THEN After(i) ELSE After(m)) = IF j2 < i THEN j2 ELSE j2 + 1
        BY <2>2
      <4> QED BY <2>5, <4>3, <4>4, <4>5
    <3> QED BY <2>5, <3>1, <3>2, <3>3, <3>4 DEF Lists
  <2>8. ASSUME NEW p \in Handle
        PROVE  Forest!RemoveFirst(k[p], b) \in Seq(Handle) /\ Lists(u, p, Forest!RemoveFirst(k[p], b))
    BY <1>0, <1>k, <2>5, <2>6, <2>7 DEF t
  <2> QED BY <2>8 DEF Forest!Without, Listed, u
<1> QED BY <1>1, <1>2

\* The tail splice of oci8_link_to_parent appends b to the list of p.
LEMMA AppendedLists ==
  ASSUME NEW r \in Ring, RingOK(r), NEW b \in Handle, NEW p \in Handle, r.parent[b] = Null,
         NEW k, Listed(r, k)
  PROVE  Listed(Appended(r, b, p), [k EXCEPT ![p] = Append(@, b)])
<1> DEFINE a == Appended(r, b, p)
           s == k[p]
           n == Len(k[p])
           t == Append(k[p], b)
<1>k. \A x \in Handle : k[x] \in Seq(Handle) /\ Lists(r, x, k[x])
  BY DEF Listed
<1>1. s \in Seq(Handle) /\ n \in Nat /\ \A j \in 1 .. n : s[j] \in Handle
  BY <1>k
<1>2. /\ \A h \in Handle : r.parent[h] = p <=> \E j \in 1 .. n : s[j] = h
      /\ \A i, j \in 1 .. n : s[i] = s[j] => i = j
      /\ r.children[p] = IF n = 0 THEN Null ELSE s[1]
      /\ \A j \in 1 .. n : r.next[s[j]] = s[IF j = n THEN 1 ELSE j + 1]
  BY <1>k DEF Lists
<1>3. t \in Seq(Handle) /\ Len(t) = n + 1 /\ t[n + 1] = b /\ \A j \in 1 .. n : t[j] = s[j]
  BY <1>1, AppendProperties
<1>4. r.next[b] = b /\ \A h \in Handle \ {b} : r.next[h] # b
  BY DEF RingOK, OrphansAlone, RingsClosed
<1>5. n # 0 => r.prev[s[1]] = s[n] /\ s[1] \in Handle /\ s[n] \in Handle
  <2>1. n # 0 => n \in 1 .. n /\ 1 \in 1 .. n
    BY <1>1
  <2> QED BY <1>1, <1>2, <2>1 DEF RingOK, RingsClosed
<1>6. /\ \A h \in Handle : a.parent[h] = IF h = b THEN p ELSE r.parent[h]
      /\ \A x \in Handle : a.children[x] = IF x = p /\ n = 0 THEN b ELSE r.children[x]
      /\ \A h \in Handle : a.next[h] = IF n = 0 THEN r.next[h]
                                       ELSE IF h = s[n] THEN b
                                       ELSE IF h = b THEN s[1] ELSE r.next[h]
  <2>1. CASE n = 0
    BY <1>2, <2>1 DEF Appended, Ring
  <2>2. CASE n # 0
    <3>1. r.children[p] = s[1] /\ s[1] # Null /\ r.prev[s[1]] = s[n] /\ s[n] # b
      <4>1. n \in 1 .. n
        BY <1>1, <2>2
      <4> QED BY <1>2, <1>5, <2>2, <4>1, NullAssumption
    <3> HIDE DEF s, n
    <3> QED BY <1>5, <2>2, <3>1 DEF Appended, Ring
  <2> QED BY <2>1, <2>2
<1> HIDE DEF a, s, n, t
<1>7. ASSUME NEW x \in Handle, x # p PROVE Lists(a, x, k[x])
  <2>1. /\ \A h \in Handle : r.parent[h] = x <=> \E j \in 1 .. Len(k[x]) : k[x][j] = h
        /\ \A i, j \in 1 .. Len(k[x]) : k[x][i] = k[x][j] => i = j
        /\ r.children[x] = IF Len(k[x]) = 0 THEN Null ELSE k[x][1]
        /\ \A j \in 1 .. Len(k[x]) : r.next[k[x][j]] = k[x][IF j = Len(k[x]) THEN 1 ELSE j + 1]
    BY <1>k DEF Lists
  <2>2. ASSUME NEW j \in 1 .. Len(k[x]) PROVE a.next[k[x][j]] = r.next[k[x][j]]
    <3>1. k[x][j] \in Handle /\ r.parent[k[x][j]] = x
      BY <1>k, <2>1
    <3>2. k[x][j] # b
      BY <3>1, NullAssumption
    <3>3. n # 0 => k[x][j] # s[n]
      <4>1. n # 0 => n \in 1 .. n
        BY <1>1
      <4> QED BY <1>1, <1>2, <1>7, <3>1, <4>1
    <3> QED BY <1>6, <3>1, <3>2, <3>3
  <2>3. \A h \in Handle : a.parent[h] = x <=> r.parent[h] = x
    BY <1>6, <1>7, NullAssumption
  <2>4. a.children[x] = r.children[x]
    BY <1>6, <1>7
  <2> QED BY <2>1, <2>2, <2>3, <2>4 DEF Lists
<1>8. Lists(a, p, t)
  <2>0. \A j \in 1 .. n : s[j] # b
    BY <1>2, NullAssumption
  <2>1. ASSUME NEW h \in Handle
        PROVE  a.parent[h] = p <=> \E j \in 1 .. n + 1 : t[j] = h
    <3>1. \A j \in 1 .. n + 1 : j \in 1 .. n \/ j = n + 1
      BY <1>1
    <3>2. n + 1 \in 1 .. n + 1 /\ \A j \in 1 .. n : j \in 1 .. n + 1
      BY <1>1
    <3> QED BY <1>2, <1>3, <1>6, <2>0, <3>1, <3>2
  <2>2. ASSUME NEW i \in 1 .. n + 1, NEW j \in 1 .. n + 1, t[i] = t[j]
        PROVE  i = j
    <3>1. (i \in 1 .. n \/ i = n + 1) /\ (j \in 1 .. n \/ j = n + 1)
      BY <1>1
    <3> QED BY <1>2, <1>3, <2>0, <2>2, <3>1
  <2>3. a.children[p] = t[1]
    <3>1. n # 0 => 1 \in 1 .. n
      BY <1>1
    <3> QED BY <1>2, <1>3, <1>6, <3>1
  <2>4. ASSUME NEW j \in 1 .. n + 1
        PROVE  a.next[t[j]] = t[IF j = n + 1 THEN 1 ELSE j + 1]
    <3>1. CASE n = 0
      <4>1. j = 1 /\ j = n + 1
        BY <2>4, <3>1
      <4>2. a.next[b] = b
        BY <1>4, <1>6, <3>1
      <4> QED BY <1>3, <4>1, <4>2
    <3>2. CASE n # 0 /\ j = n + 1
      <4>1. 1 \in 1 .. n /\ n \in 1 .. n
        BY <1>1, <3>2
      <4>2. a.next[b] = s[1]
        BY <1>6, <2>0, <3>2, <4>1
      <4> QED BY <1>3, <3>2, <4>1, <4>2
    <3>3. CASE n # 0 /\ j = n
      <4>1. n \in 1 .. n /\ n # n + 1
        BY <1>1, <3>3
      <4>2. a.next[s[n]] = b
        BY <1>1, <1>6, <3>3, <4>1
      <4> QED BY <1>3, <3>3, <4>1, <4>2
    <3>4. CASE n # 0 /\ j \notin {n, n + 1}
      <4>1. j \in 1 .. n /\ j + 1 \in 1 .. n /\ j # n /\ j # n + 1 /\ n \in 1 .. n
        BY <1>1, <3>4
      <4>2. a.next[s[j]] = s[j + 1]
        BY <1>1, <1>2, <1>6, <2>0, <3>4, <4>1
      <4> QED BY <1>3, <4>1, <4>2
    <3> QED BY <3>1, <3>2, <3>3, <3>4
  <2>5. n + 1 # 0
    BY <1>1
  <2> QED BY <1>3, <2>1, <2>2, <2>3, <2>4, <2>5 DEF Lists
<1>9. [k EXCEPT ![p] = t] \in [Handle -> Seq(Handle)]
  BY <1>3 DEF Listed
<1>10. ASSUME NEW x \in Handle PROVE Lists(a, x, [k EXCEPT ![p] = t][x])
  BY <1>7, <1>8 DEF Listed
<1>11. Listed(a, [k EXCEPT ![p] = t])
  BY <1>9, <1>10 DEF Listed
<1> QED BY <1>11 DEF a, t

WalksAsListed == \A p \in Handle : \A s \in Seq(Handle) : Lists(ring, p, s) => Walk(p) = s

LEMMA WalksNow == WalksAsListed
  BY WalkMeets DEF WalksAsListed

LEMMA WalksNext == WalksAsListed'
  BY WalksNow, PTL

Kids == [p \in Handle |-> Walk(p)]

\* What is listed is what the walks meet.
LEMMA ListedKids ==
  /\ \A k : Listed(ring, k) => Kids = k
  /\ \A k : Listed(ring', k) => Kids' = k
<1>1. ASSUME NEW k, Listed(ring, k) PROVE Kids = k
  <2>1. \A p \in Handle : Walk(p) = k[p]
    BY <1>1, WalksNow DEF Listed, WalksAsListed
  <2> QED BY <1>1, <2>1 DEF Listed, Kids
<1>2. ASSUME NEW k, Listed(ring', k) PROVE Kids' = k
  <2>1. \A p \in Handle : Walk(p)' = k[p]
    BY <1>2, WalksNext DEF Listed, WalksAsListed
  <2> QED BY <1>2, <2>1 DEF Listed, Kids
<1> QED BY <1>1, <1>2

LEMMA LinkAttaches ==
  ASSUME ring \in Ring, RingOK(ring), Listed(ring, Kids), NEW b \in Handle, NEW p \in Handle,
         ring' = Linked(ring, b, p)
  PROVE  Listed(ring', Kids') /\ Forest!Attach(b, p)
<1> DEFINE k == [Forest!Without(Kids, b) EXCEPT ![p] = Append(@, b)]
<1>1. Listed(Unlinked(ring, b), Forest!Without(Kids, b))
  BY UnlinkedLists
<1>2. Listed(ring', k)
  BY <1>1, UnlinkedType, UnlinkedOK, UnlinkedOrphan, AppendedLists DEF Linked
<1>3. Kids' = k
  <2> HIDE DEF k
  <2> QED BY <1>2, ListedKids
<1> QED BY <1>2, <1>3 DEF Forest!Attach, Kids

LEMMA UnlinkDetaches ==
  ASSUME ring \in Ring, RingOK(ring), Listed(ring, Kids), NEW b \in Handle,
         ring.children[b] = Null, ring' = Unlinked(ring, b)
  PROVE  Listed(ring', Kids') /\ Forest!Detach(b)
<1>1. Listed(ring', Forest!Without(Kids, b))
  BY UnlinkedLists
<1>2. Kids' = Forest!Without(Kids, b)
  BY <1>1, ListedKids
<1>3. Kids[b] = <<>>
  <2>1. Kids[b] \in Seq(Handle) /\ Lists(ring, b, Kids[b])
    BY DEF Listed
  <2>2. Len(Kids[b]) # 0 => Kids[b][1] \in Handle
    BY <2>1
  <2> QED BY <2>1, <2>2, NullAssumption DEF Lists
<1> QED BY <1>1, <1>2, <1>3 DEF Forest!Detach, Kids

\* A step of the handles is a step of the forest, or none.
LEMMA StepsOfForest ==
  ASSUME TypeOK, RingsWellFormed, Listed(ring, Kids), [Next]_vars
  PROVE  Listed(ring', Kids') /\ [Forest!Next]_Kids
<1>1. ring \in Ring /\ RingOK(ring)
  BY DEF TypeOK, RingsWellFormed
<1>2. CASE UNCHANGED ring
  <2>1. Listed(ring', Kids)
    BY <1>2
  <2> QED BY <2>1, ListedKids
<1>3. ASSUME NEW b \in Handle, NEW p \in Handle, ring' = Linked(ring, b, p)
      PROVE  Listed(ring', Kids') /\ [Forest!Next]_Kids
  BY <1>1, <1>3, LinkAttaches DEF Forest!Next
<1>4. ASSUME ~Idle, ChildrenGone, ring' = Unlinked(ring, Top)
      PROVE  Listed(ring', Kids') /\ [Forest!Next]_Kids
  <2>1. Top \in Handle
    BY <1>4, TopOK
  <2> QED BY <1>1, <1>4, <2>1, UnlinkDetaches DEF Forest!Next, ChildrenGone
<1>5. \/ UNCHANGED ring
      \/ \E b, p \in Handle : ring' = Linked(ring, b, p)
      \/ ~Idle /\ ChildrenGone /\ ring' = Unlinked(ring, Top)
  <2>1. CASE \E s, e \in Handle : NewSvcctx(s, e)
    BY <2>1 DEF NewSvcctx
  <2>2. CASE \E s, e \in Handle, n \in Native : Connect(s, e, n)
    BY <2>2 DEF Connect
  <2>3. CASE \E h, p \in Handle, n \in Native, t \in BOOLEAN : NewChild(h, p, n, t)
    BY <2>3 DEF NewChild
  <2>4. CASE \E h, s \in Handle, t \in BOOLEAN : NewBind(h, s, t)
    BY <2>4 DEF NewBind
  <2>5. CASE \E h, s \in Handle, n \in Native : Bind(h, s, n)
    BY <2>5 DEF Bind
  <2>6. CASE \E h, s \in Handle, n \in Native : DescribeCall(h, s, n)
    BY <2>6 DEF DescribeCall
  <2>7. CASE \E h \in Handle, ok \in BOOLEAN : DescribeReturn(h, ok)
    BY <2>7 DEF DescribeReturn, TypeOK, Pointer
  <2>8. CASE \E h \in Handle : Drop(h) \/ UserFree(h) \/ Logoff(h) \/ Sweep(h)
    BY <2>8 DEF Drop, UserFree, Logoff, Sweep, SameHandles
  <2>9. CASE \/ FreeChild \/ MoveTempLob \/ NothingToLogOff
             \/ \E F \in SUBSET Native, raises \in BOOLEAN : FinishLogoff(F, raises)
             \/ \E s \in Handle, F \in SUBSET Native : SvcctxCall(s, F)
    BY <2>9 DEF FreeChild, MoveTempLob, NothingToLogOff, FinishLogoff, SvcctxCall, SameHandles
  <2>10. CASE UnlinkTempLob \/ FreeSelf
    BY <2>10 DEF UnlinkTempLob, FreeSelf
  <2>11. CASE UNCHANGED vars
    BY <2>11 DEF vars
  <2> QED BY <2>1, <2>2, <2>3, <2>4, <2>5, <2>6, <2>7, <2>8, <2>9, <2>10, <2>11
          DEF Next, FreeStep
<1> QED BY <1>2, <1>3, <1>4, <1>5

\* No wrapper has children yet.
LEMMA ForestBegins == Init => Listed(ring, Kids) /\ Forest!Init
<1> SUFFICES ASSUME Init PROVE Listed(ring, Kids) /\ Forest!Init
  OBVIOUS
<1> DEFINE k == [h \in Handle |-> <<>>]
<1>1. ring = InitRing
  BY DEF Init
<1>2. k \in [Handle -> Seq(Handle)]
  OBVIOUS
<1>3. ASSUME NEW p \in Handle PROVE Lists(InitRing, p, <<>>)
  BY <1>3, NullAssumption DEF Lists, InitRing
<1>4. Listed(ring, k)
  BY <1>1, <1>2, <1>3 DEF Listed
<1>5. Kids = k
  <2> HIDE DEF k
  <2> QED BY <1>4, ListedKids
<1> QED BY <1>4, <1>5 DEF Forest!Init, Kids

\* Whatever is linked, moved, freed or swept, for any number of wrappers: the
\* children of a wrapper stay in the order of their links, a link appends, and only
\* a wrapper without children leaves (oci8_link_to_parent, oci8_unlink_from_parent).
THEOREM RingsAreForest == Spec => ImplementsForest
<1>1. TypeOK /\ RingsWellFormed /\ Listed(ring, Kids) /\ [Next]_vars => Listed(ring, Kids)'
  BY StepsOfForest
<1>2. TypeOK /\ RingsWellFormed /\ Listed(ring, Kids) /\ [Next]_vars =>
        [Forest!Next]_[p \in Handle |-> Walk(p)]
  BY StepsOfForest DEF Kids
<1> QED BY <1>1, <1>2, ForestBegins, TypeCorrect, RingsStayWellFormed, PTL
        DEF Spec, ImplementsForest, Forest!Spec
-------------------------------------------------------------------------------
(***************************************************************************)
(* Who owns the natives of HandleTree, for any number of handles and       *)
(* natives: none is released twice, none under an open wrapper, and none   *)
(* is lost but by a logoff that another thread's call refuses.             *)
(***************************************************************************)

(***************************************************************************)
(* The natives: whose a native is, and with which others it goes.          *)
(***************************************************************************)

\* the kinds whose wrappers release their own native
Owning == {"svcctx", "stmt", "desc", "lob"}

\* An open wrapper has a native, and an owning one has it to itself.
TypedOK ==
  \A h \in Handle :
    /\ h \in typed => hp[h] \in native
    /\ h \in strategy <=> h \in typed /\ Kind[h] = "svcctx"
    /\ h \in typed /\ Kind[h] \in Owning => within[hp[h]] = Null

\* A session shares the native of its connection; binds and parameters live
\* within the native of an open parent, or within what that lives in.
SharersOK ==
  \A h \in typed : Kind[h] \notin Owning =>
    /\ ring.parent[h] \in typed
    /\ Kind[h] = "session" => hp[h] = hp[ring.parent[h]]
    /\ Kind[h] = "bind" => Kind[ring.parent[h]] = "stmt"
    /\ Kind[h] \in {"bind", "param"} =>
         within[hp[h]] # Null /\ within[hp[h]] = Container(ring.parent[h])

\* What another native lives within is allocated, and within nothing itself.
WithinOK ==
  /\ \A n \in Native : within[n] # Null =>
       n \in native /\ within[n] \in native /\ within[within[n]] = Null
  /\ temp \subseteq native

\* No native is of two open wrappers, or of two lists of temporary LOBs, or of both.
OneOwner ==
  /\ \A g, h \in typed : Kind[g] \in Owning /\ Kind[h] \in Owning /\ hp[g] = hp[h] => g = h
  /\ \A g \in Handle : \A n \in tempLobs[g] :
       /\ g \in live /\ Kind[g] = "svcctx"
       /\ n \in native /\ within[n] = Null
       /\ \A h \in typed : Kind[h] \in Owning => hp[h] # n
       /\ \A h \in Handle : n \in tempLobs[h] => h = g

Natives == TypedOK /\ SharersOK /\ WithinOK /\ OneOwner

\* A step that only makes, forgets or links wrappers without a native of their own.
LEMMA RingStepNatives ==
  ASSUME Natives, live \subseteq live',
         UNCHANGED <<typed, hp, native, within, temp, strategy, tempLobs>>,
         \A h \in typed : Kind[h] \notin Owning => ring'.parent[h] = ring.parent[h]
  PROVE  Natives'
  <1>1. TypedOK' /\ WithinOK' /\ OneOwner'
    BY DEF Natives, TypedOK, WithinOK, OneOwner
  <1>2. SharersOK'
    BY DEF Natives, SharersOK, Container
  <1> QED
    BY <1>1, <1>2 DEF Natives

\* What a parameter is within, if its parent is open.
LEMMA ContainerOK ==
  ASSUME TypeOK, ParentsOfKind, Natives, NEW p \in typed, Kind[p] \in {"stmt", "desc", "param"}
  PROVE  Container(p) \in native /\ within[Container(p)] = Null
  <1>1. p \in Handle /\ hp[p] \in native /\ hp[p] \in Native
    BY DEF Natives, TypedOK, TypeOK
  <1> QED
    BY <1>1 DEF Natives, TypedOK, SharersOK, WithinOK, Owning, Container

\* A fresh native n for wrapper h, that nobody has.
LEMMA FreshNatives ==
  ASSUME TypeOK, ParentsOfKind, Natives, NEW h \in Handle, NEW n \in Native,
         h \notin typed, n \notin native, Kind[h] \in {"stmt", "desc", "lob", "param", "bind"},
         live \subseteq live', native' = native \union {n}, typed' = typed \union {h},
         hp' = [hp EXCEPT ![h] = n], UNCHANGED <<strategy, tempLobs>>,
         temp' \subseteq temp \union {n},
         \A x \in Handle \ {h} : ring'.parent[x] = ring.parent[x],
         IF Kind[h] \in {"param", "bind"}
         THEN /\ ring'.parent[h] \in typed /\ ring'.parent[h] \in Handle
              /\ Kind[ring'.parent[h]] \in
                   IF Kind[h] = "bind" THEN {"stmt"} ELSE {"stmt", "desc", "param"}
              /\ within' = [within EXCEPT ![n] = Container(ring'.parent[h])]
         ELSE within' = [within EXCEPT ![n] = Null]
  PROVE  Natives'
  <1>1. /\ hp'[h] = n /\ \A x \in Handle \ {h} : hp'[x] = hp[x]
        /\ \A m \in Native \ {n} : within'[m] = within[m]
        /\ \A x \in typed : x # h /\ hp[x] \in native /\ hp[x] \in Native /\ hp[x] # n
    BY DEF TypeOK, Natives, TypedOK
  <1>2. h \notin strategy
    BY DEF Natives, TypedOK
  <1>3. /\ Kind[h] \in Owning => within'[n] = Null
        /\ Kind[h] \notin Owning => /\ within'[n] = Container(ring'.parent[h])
                                    /\ within'[n] \in native /\ within[within'[n]] = Null
    BY ContainerOK DEF Owning, TypeOK
  <1>4. \A p \in typed : Container(p)' = Container(p)
    BY <1>1 DEF Container
  <1>5. TypedOK'
    BY <1>1, <1>2, <1>3 DEF Natives, TypedOK, Owning
  <1>6. SharersOK'
    <2> SUFFICES ASSUME NEW x \in typed', Kind[x] \notin Owning
                 PROVE  /\ ring'.parent[x] \in typed'
                        /\ Kind[x] = "session" => hp'[x] = hp'[ring'.parent[x]]
                        /\ Kind[x] = "bind" => Kind[ring'.parent[x]] = "stmt"
                        /\ Kind[x] \in {"bind", "param"} =>
                             /\ within'[hp'[x]] # Null
                             /\ within'[hp'[x]] = Container(ring.parent[x])'
      BY DEF SharersOK
    <2>1. CASE x = h
      BY <1>1, <1>3, <1>4, <2>1, NativeAssumption DEF Owning, TypeOK
    <2>2. CASE x # h
      <3>1. /\ x \in typed /\ ring.parent[x] \in typed /\ ring'.parent[x] = ring.parent[x]
            /\ x \in Handle
        BY <2>2 DEF Natives, SharersOK, TypeOK
      <3> QED
        BY <1>1, <1>4, <2>2, <3>1 DEF Natives, SharersOK, Owning, TypeOK
    <2> QED
      BY <2>1, <2>2
  <1>7. WithinOK'
    BY <1>1, <1>3 DEF Natives, WithinOK, TypeOK
  <1>8. OneOwner'
    BY <1>1, <1>3 DEF Natives, OneOwner, TypeOK
  <1> QED
    BY <1>5, <1>6, <1>7, <1>8 DEF Natives

\* Logging on gives a fresh native to a connection and its session.
LEMMA ConnectNatives ==
  ASSUME Placed, Natives, NEW s \in Handle, NEW e \in Handle, NEW n \in Native, Connect(s, e, n)
  PROVE  Natives'
  <1> USE DEF Placed, Connect
  <1>1. /\ hp'[s] = n /\ hp'[e] = n /\ s # e /\ within' = within
        /\ \A x \in Handle \ {s, e} : hp'[x] = hp[x]
        /\ \A x \in typed : hp[x] \in native /\ hp[x] # n /\ x \in Handle
    BY DEF TypeOK, Natives, TypedOK
  <1>2. s \notin typed /\ e \notin typed /\ e \notin strategy
    <2>1. ring.parent[e] = s /\ Kind[e] \notin Owning
      BY DEF Owning
    <2> QED
      BY <2>1 DEF Natives, SharersOK, TypedOK
  <1>3. within[n] = Null
    BY NativeAssumption DEF Natives, WithinOK
  <1>4. \A p \in typed : Container(p)' = Container(p) /\ p # s /\ p # e
    <2> SUFFICES ASSUME NEW p \in typed
                 PROVE  Container(p)' = Container(p) /\ p # s /\ p # e
      OBVIOUS
    <2>1. p # s /\ p # e /\ p \in Handle
      BY <1>1, <1>2
    <2>2. hp'[p] = hp[p] /\ within' = within
      BY <1>1, <2>1
    <2> HIDE DEF Connect, Placed
    <2> QED
      BY <2>1, <2>2 DEF Container
  <1>5. TypedOK'
    BY <1>1, <1>2, <1>3 DEF Natives, TypedOK, TypeOK
  <1>6. SharersOK'
    <2> SUFFICES ASSUME NEW x \in typed', Kind[x] \notin Owning
                 PROVE  /\ ring.parent[x] \in typed'
                        /\ Kind[x] = "session" => hp'[x] = hp'[ring.parent[x]]
                        /\ Kind[x] = "bind" => Kind[ring.parent[x]] = "stmt"
                        /\ Kind[x] \in {"bind", "param"} =>
                             /\ within[hp'[x]] # Null
                             /\ within[hp'[x]] = Container(ring.parent[x])'
      BY DEF SharersOK
    <2>1. CASE x \in {s, e}
      BY <1>1, <2>1 DEF Owning
    <2>2. CASE x \notin {s, e}
      <3>1. /\ x \in typed /\ ring.parent[x] \in typed /\ x \in Handle /\ ring.parent[x] \in Handle
            /\ hp'[x] = hp[x] /\ hp'[ring.parent[x]] = hp[ring.parent[x]]
        BY <1>1, <1>4, <2>2 DEF Natives, SharersOK
      <3> QED
        BY <1>4, <3>1 DEF Natives, SharersOK
    <2> QED
      BY <2>1, <2>2
  <1>7. WithinOK'
    BY <1>1 DEF Natives, WithinOK, TypeOK
  <1>8. OneOwner'
    BY <1>1, <1>3 DEF Natives, OneOwner, TypeOK, Owning
  <1> QED
    BY <1>5, <1>6, <1>7, <1>8 DEF Natives

\* What a wrapper releases is its own: an open owner's native and its list of
\* temporary LOBs, neither within another native nor somebody else's.
LEMMA FreedIsOwn ==
  ASSUME TypeOK, Natives, NEW t \in Handle, NEW n \in FreedBy(t)
  PROVE  /\ n \in native /\ n \in Native /\ within[n] = Null
         /\ \A h \in typed \ {t} : Kind[h] \in Owning => hp[h] # n
         /\ \A h \in Handle \ {t} : n \notin tempLobs[h]
  <1>1. CASE n \in tempLobs[t]
    BY <1>1 DEF Natives, OneOwner, TypeOK
  <1>2. CASE n \notin tempLobs[t]
    <2>1. n = hp[t] /\ t \in typed /\ Kind[t] \in Owning
      BY <1>2 DEF FreedBy, Natives, TypedOK, Owning
    <2>2. \A h \in Handle : n \notin tempLobs[h]
      BY <2>1 DEF Natives, OneOwner
    <2> QED
      BY <2>1, <2>2 DEF Natives, TypedOK, OneOwner, TypeOK
  <1> QED
    BY <1>1, <1>2

\* No open wrapper loses its native with natives F that are nobody's once the
\* wrappers T without children are closed: what lives within F belongs to
\* descendants of its owners.
LEMMA SurvivorsKept ==
  ASSUME TypeOK, ParentsOfKind, NoCycle(ring.parent), Natives,
         NEW T \in SUBSET Handle, \A x \in Handle : ring.parent[x] \notin T, NEW F,
         \A n \in F : /\ n \in native /\ n \in Native /\ within[n] = Null
                      /\ \A h \in typed \ T : Kind[h] \in Owning => hp[h] # n
  PROVE  \A h \in typed \ T : hp[h] \notin F /\ within[hp[h]] \notin F
  <1>1. \A n \in F : /\ n \in native /\ n \in Native /\ within[n] = Null
                     /\ \A h \in typed \ T : Kind[h] \in Owning => hp[h] # n
    OBVIOUS
  <1>2. Null \notin F
    BY <1>1, NativeAssumption
  <1>3. \A h \in typed : h \in Handle /\ hp[h] \in native /\ hp[h] \in Native
    BY DEF TypeOK, Natives, TypedOK
  <1>4. \A h \in typed \ T : Kind[h] \in Owning => hp[h] \notin F /\ within[hp[h]] \notin F
    BY <1>1, <1>2, <1>3 DEF Natives, TypedOK
  <1>5. \A h \in typed : Kind[h] \notin Owning =>
          /\ ring.parent[h] \in typed \ T /\ ring.parent[h] \in Handle /\ ring.parent[h] # Null
    BY <1>3, NullAssumption DEF Natives, SharersOK
  <1>6. ASSUME NEW h \in typed, Kind[h] = "session"
        PROVE  hp[h] \notin F /\ within[hp[h]] \notin F
    <2>1. /\ Kind[h] \notin Owning /\ Kind[ring.parent[h]] \in Owning
          /\ hp[h] = hp[ring.parent[h]]
      BY <1>3, <1>5, <1>6 DEF ParentsOfKind, ParentKinds, Owning, Natives, SharersOK
    <2> QED
      BY <1>4, <1>5, <2>1
  <1>7. ASSUME NEW h \in typed, Kind[h] = "bind"
        PROVE  hp[h] \notin F /\ within[hp[h]] \notin F
    <2>1. /\ Kind[h] \notin Owning /\ Kind[ring.parent[h]] = "stmt"
          /\ within[hp[h]] # Null /\ within[hp[h]] = hp[ring.parent[h]]
      BY <1>7 DEF Owning, Natives, SharersOK, Container
    <2> QED
      BY <1>1, <1>4, <1>5, <2>1 DEF Owning
  <1>8. ASSUME NEW h \in typed, Kind[h] = "param"
        PROVE  hp[h] \notin F /\ within[hp[h]] \notin F
    <2> DEFINE P == {x \in typed : Kind[x] = "param" /\ within[hp[x]] \in F}
    <2>1. ASSUME NEW x \in P
          PROVE  ring.parent[x] \in P
      <3> DEFINE p == ring.parent[x]
      <3>1. /\ p \in typed \ T /\ p \in Handle /\ p # Null /\ x \in typed /\ x \in Handle
            /\ Kind[p] \in {"desc", "stmt", "param"}
            /\ within[hp[x]] = Container(p) /\ Container(p) \in F
        BY <1>3, <1>5, <2>1 DEF ParentsOfKind, ParentKinds, Owning, Natives, SharersOK
      <3>2. Kind[p] = "param"
        BY <1>4, <3>1 DEF Container, Owning
      <3>3. hp[p] \in Native
        BY <1>3, <3>1
      <3> QED
        BY <3>1, <3>2, <3>3 DEF Container
    <2>2. P = {}
      <3>1. P \in SUBSET Handle
        BY <1>3
      <3> QED
        BY <2>1, <3>1 DEF NoCycle
    <2>3. within[hp[h]] \notin F /\ within[hp[h]] # Null
      BY <1>8, <2>2 DEF Natives, SharersOK, Owning
    <2> QED
      BY <1>1, <2>3
  <1> QED
    BY <1>3, <1>4, <1>6, <1>7, <1>8, KindAssumption DEF Kinds, Owning

\* The release of F, with the end of the wrappers T.
LEMMA ReleaseNatives ==
  ASSUME TypeOK, ParentsOfKind, NoCycle(ring.parent), Natives,
         NEW T \in SUBSET Handle, \A x \in Handle : ring.parent[x] \notin T,
         NEW F, Release(F),
         \A n \in F : /\ n \in native /\ n \in Native /\ within[n] = Null
                      /\ \A h \in typed \ T : Kind[h] \in Owning => hp[h] # n,
         \A h \in Handle : tempLobs'[h] \subseteq tempLobs[h] \ F,
         \A h \in Handle : tempLobs'[h] # {} => h \in live',
         typed' = typed \ T, strategy' = strategy \ T,
         \A x \in Handle \ T : hp'[x] = hp[x] /\ ring'.parent[x] = ring.parent[x]
  PROVE  Natives'
  <1> DEFINE gone == F \union {n \in native : within[n] \in F}
  <1>1. \A n \in F : n \in native /\ n \in Native /\ within[n] = Null
    OBVIOUS
  <1>2. Null \notin F
    BY <1>1, NativeAssumption
  <1>3. \A h \in typed : h \in Handle /\ hp[h] \in native /\ hp[h] \in Native
    BY DEF TypeOK, Natives, TypedOK
  <1>4. \A h \in typed \ T : hp[h] \notin gone
    BY SurvivorsKept
  <1>5. /\ native' = native \ gone /\ temp' = temp \ gone
        /\ \A n \in Native : within'[n] = IF n \in gone THEN Null ELSE within[n]
    BY DEF Release
  <1> HIDE DEF gone
  <1>6. \A h \in typed' : /\ h \in typed /\ h \notin T /\ hp'[h] = hp[h] /\ hp[h] \in native'
                          /\ within'[hp[h]] = within[hp[h]]
    BY <1>3, <1>4, <1>5
  <1>7. \A p \in typed' : Container(p)' = Container(p)
    BY <1>3, <1>6 DEF Container
  <1>8. TypedOK'
    BY <1>6 DEF Natives, TypedOK
  <1>9. SharersOK'
    <2> SUFFICES ASSUME NEW x \in typed', Kind[x] \notin Owning
                 PROVE  /\ ring'.parent[x] \in typed'
                        /\ Kind[x] = "session" => hp'[x] = hp'[ring'.parent[x]]
                        /\ Kind[x] = "bind" => Kind[ring'.parent[x]] = "stmt"
                        /\ Kind[x] \in {"bind", "param"} =>
                             /\ within'[hp'[x]] # Null
                             /\ within'[hp'[x]] = Container(ring.parent[x])'
      BY DEF SharersOK
    <2>1. /\ x \in typed /\ x \notin T /\ x \in Handle /\ ring'.parent[x] = ring.parent[x]
          /\ ring.parent[x] \in typed'
      BY <1>3, <1>6 DEF Natives, SharersOK
    <2> QED
      BY <1>6, <1>7, <2>1 DEF Natives, SharersOK
  <1>10. WithinOK'
    <2>1. ASSUME NEW n \in Native, within'[n] # Null
          PROVE  n \in native' /\ within'[n] \in native' /\ within'[within'[n]] = Null
      <3>1. n \notin gone /\ within'[n] = within[n] /\ within[n] # Null
        BY <1>5, <2>1
      <3>2. n \in native /\ within[n] \in native /\ within[n] \in Native /\ within[within[n]] = Null
        BY <3>1 DEF Natives, WithinOK, TypeOK
      <3>3. within[n] \notin gone
        BY <1>2, <3>1, <3>2 DEF gone
      <3> QED
        BY <1>5, <3>1, <3>2, <3>3
    <2> QED
      BY <1>5, <2>1 DEF Natives, WithinOK
  <1>11. OneOwner'
    <2>1. ASSUME NEW g \in Handle, NEW n \in tempLobs'[g]
          PROVE  /\ g \in live' /\ Kind[g] = "svcctx"
                 /\ n \in native' /\ within'[n] = Null
                 /\ \A h \in typed' : Kind[h] \in Owning => hp'[h] # n
                 /\ \A h \in Handle : n \in tempLobs'[h] => h = g
      <3>1. /\ n \in tempLobs[g] /\ n \notin F /\ g \in live'
            /\ \A h \in Handle : tempLobs'[h] \subseteq tempLobs[h]
        BY <2>1
      <3>2. /\ n \in native /\ n \in Native /\ within[n] = Null /\ g \in live
            /\ Kind[g] = "svcctx"
            /\ \A h \in Handle : n \in tempLobs[h] => h = g
            /\ \A h \in typed : Kind[h] \in Owning => hp[h] # n
        BY <1>1, <3>1 DEF Natives, OneOwner, TypeOK
      <3>3. n \notin gone /\ g \in live'
        BY <1>2, <3>1, <3>2 DEF gone
      <3> QED
        BY <1>5, <1>6, <3>1, <3>2, <3>3
    <2>2. \A g, h \in typed' : Kind[g] \in Owning /\ Kind[h] \in Owning /\ hp'[g] = hp'[h] => g = h
      BY <1>6 DEF Natives, OneOwner
    <2> QED
      BY <2>1, <2>2 DEF OneOwner
  <1> QED
    BY <1>8, <1>9, <1>10, <1>11 DEF Natives

\* A wrapper is freed.
LEMMA FreeSelfNatives ==
  ASSUME Placed, Natives, FreeSelf
  PROVE  Natives'
  <1> USE DEF Placed, FreeSelf, Return
  <1>1. Top \in Handle
    BY FrameFacts
  <1>2. \A x \in Handle : ring.parent[x] # Top
    BY <1>1, Childless DEF ChildrenGone
  <1>3. /\ \A h \in Handle : tempLobs'[h] = IF h = Top THEN {} ELSE tempLobs[h]
        /\ \A h \in Handle : tempLobs'[h] \subseteq tempLobs[h] \ FreedBy(Top)
    BY <1>1, FreedIsOwn DEF TypeOK
  <1>4. \A h \in Handle : tempLobs'[h] # {} => h \in live'
    BY <1>3 DEF Natives, OneOwner
  <1>5. \A x \in Handle \ {Top} : hp'[x] = hp[x] /\ ring'.parent[x] = ring.parent[x]
    <2>1. ring'.parent = [ring.parent EXCEPT ![Top] = Null] /\ ring.parent \in [Handle -> Pointer]
      BY <1>1, UnlinkedFields, RingHere
    <2> QED
      BY <1>1, <2>1 DEF TypeOK
  <1>6. \A n \in FreedBy(Top) : /\ n \in native /\ n \in Native /\ within[n] = Null
                               /\ \A h \in typed \ {Top} : Kind[h] \in Owning => hp[h] # n
    BY <1>1, FreedIsOwn
  <1>7. {Top} \in SUBSET Handle /\ \A x \in Handle : ring.parent[x] \notin {Top}
    BY <1>1, <1>2
  <1> HIDE DEF FreeSelf, Return
  <1>8. /\ Release(FreedBy(Top)) /\ typed' = typed \ {Top} /\ strategy' = strategy \ {Top}
    BY DEF FreeSelf, Return
  <1> QED
    BY <1>3, <1>4, <1>5, <1>6, <1>7, <1>8, ReleaseNatives DEF Structure

\* A connection is logged off, or the call that does it raises.
LEMMA FinishLogoffNatives ==
  ASSUME Placed, Natives, NEW F, NEW raises, FinishLogoff(F, raises)
  PROVE  Natives'
  <1> USE DEF Placed, FinishLogoff
  <1> DEFINE G == IF raises THEN F ELSE F \union {hp[Top]}
  <1>1. Top \in Handle /\ \A x \in Handle : ring.parent[x] # Top
    BY FrameFacts, Childless DEF ChildrenGone
  <1>2. Kind[Top] = "svcctx" /\ Top \in typed
    BY <1>1 DEF Natives, TypedOK
  <1>3. G \subseteq FreedBy(Top)
    BY <1>2 DEF FreedBy
  <1>4. \A n \in G : /\ n \in native /\ n \in Native /\ within[n] = Null
                     /\ \A h \in typed \ {Top} : Kind[h] \in Owning => hp[h] # n
                     /\ \A h \in Handle \ {Top} : n \notin tempLobs[h]
    BY <1>1, <1>3, FreedIsOwn
  <1>5. hp[Top] \notin tempLobs[Top]
    BY <1>1, <1>2 DEF Natives, OneOwner, Owning
  <1>6. \A h \in Handle : tempLobs'[h] \subseteq tempLobs[h] \ G
    BY <1>1, <1>4, <1>5 DEF TypeOK
  <1>7. \A h \in Handle : tempLobs'[h] # {} => h \in live'
    BY <1>6 DEF Natives, OneOwner
  <1>8. {Top} \in SUBSET Handle /\ \A x \in Handle : ring.parent[x] \notin {Top}
    BY <1>1
  <1>9. /\ Release(G) /\ typed' = typed \ {Top} /\ strategy' = strategy \ {Top}
        /\ \A x \in Handle \ {Top} : hp'[x] = hp[x] /\ ring'.parent[x] = ring.parent[x]
    OBVIOUS
  <1> HIDE DEF FinishLogoff, G
  <1> QED
    BY <1>4, <1>6, <1>7, <1>8, <1>9, ReleaseNatives DEF Structure

\* A call of the connection releases temporary LOBs of its list, which no open
\* wrapper has.
LEMMA SvcctxCallNatives ==
  ASSUME Placed, Natives, NEW s \in Handle, NEW F, SvcctxCall(s, F)
  PROVE  Natives'
  <1> USE DEF Placed, SvcctxCall
  <1>1. \A n \in F : /\ n \in native /\ n \in Native /\ within[n] = Null
                     /\ \A h \in typed \ {} : Kind[h] \in Owning => hp[h] # n
                     /\ \A h \in Handle : n \in tempLobs[h] => h = s
    BY DEF Natives, OneOwner, TypeOK
  <1>2. \A h \in Handle : tempLobs'[h] \subseteq tempLobs[h] \ F
    BY <1>1 DEF TypeOK
  <1>3. \A h \in Handle : tempLobs'[h] # {} => h \in live'
    BY <1>2 DEF Natives, OneOwner
  <1>4. /\ Release(F) /\ typed' = typed \ {} /\ strategy' = strategy \ {}
        /\ \A x \in Handle \ {} : hp'[x] = hp[x] /\ ring'.parent[x] = ring.parent[x]
    OBVIOUS
  <1>5. {} \in SUBSET Handle /\ \A x \in Handle : ring.parent[x] \notin {}
    OBVIOUS
  <1> HIDE DEF SvcctxCall
  <1> QED
    BY <1>1, <1>2, <1>3, <1>4, <1>5, ReleaseNatives DEF Structure

\* The LOB whose ALLOC returns is open, and its native goes to the list of its
\* connection, which is another wrapper and live.
LEMMA MoveTempLobFacts ==
  ASSUME Placed, Natives, ~Idle, Head(stack).pc = "alloc"
  PROVE  /\ Top \in Handle /\ Top \in typed /\ Kind[Top] = "lob" /\ hp[Top] \in native
         /\ lobSvc[Top] \in Handle /\ lobSvc[Top] \in live /\ Kind[lobSvc[Top]] = "svcctx"
         /\ \A x \in Handle : ring.parent[x] # Top
         /\ \A g \in Handle : hp[Top] \notin tempLobs[g]
  <1> USE DEF Placed
  <1>1. /\ 1 \in DOMAIN stack /\ Top = At(1) /\ Top \in Handle /\ Head(stack) = stack[1]
    BY FrameFacts
  <1>2. Top \in typed /\ lobSvc[Top] # Null /\ ring.children[Top] = Null
    BY <1>1 DEF Structure, StackOK, AllocOK
  <1>3. /\ Kind[Top] = "lob" /\ hp[Top] \in native
        /\ lobSvc[Top] \in Handle /\ lobSvc[Top] \in live /\ Kind[lobSvc[Top]] = "svcctx"
    BY <1>1, <1>2 DEF Structure, LobsPlaced, Natives, TypedOK, TypeOK, Pointer
  <1>4. \A g \in Handle : hp[Top] \notin tempLobs[g]
    <2>1. Kind[Top] \in Owning
      BY <1>3 DEF Owning
    <2> SUFFICES ASSUME NEW g \in Handle, hp[Top] \in tempLobs[g]
                 PROVE  FALSE
      OBVIOUS
    <2>2. \A h \in typed : Kind[h] \in Owning => hp[h] # hp[Top]
      BY DEF Natives, OneOwner
    <2> QED
      BY <1>2, <2>1, <2>2
  <1> QED
    BY <1>1, <1>2, <1>3, <1>4, Childless

\* The locator of a temporary LOB moves to its connection.
LEMMA MoveTempLobNatives ==
  ASSUME Placed, Natives, MoveTempLob
  PROVE  Natives'
  <1> USE DEF Placed, MoveTempLob, Return
  <1> DEFINE s == lobSvc[Top]
             n == hp[Top]
  <1>1. /\ Top \in Handle /\ Top \in typed /\ Kind[Top] = "lob" /\ n \in native
        /\ s \in Handle /\ s \in live /\ s # Top /\ Kind[s] = "svcctx"
        /\ \A x \in Handle : ring.parent[x] # Top
        /\ \A g \in Handle : n \notin tempLobs[g]
    BY MoveTempLobFacts
  <1>2. within[n] = Null /\ \A h \in typed \ {Top} : Kind[h] \in Owning => hp[h] # n
    BY <1>1 DEF Natives, TypedOK, OneOwner, Owning, TypeOK
  <1>3. \A x \in Handle \ {Top} : hp'[x] = hp[x]
    BY <1>1 DEF TypeOK
  <1>4. \A x \in typed' : x \in typed /\ x # Top /\ x \in Handle
    BY DEF TypeOK
  <1>5. TypedOK'
    BY <1>1, <1>3, <1>4 DEF Natives, TypedOK
  <1>6. SharersOK'
    <2>1. \A p \in typed' : Container(p)' = Container(p)
      BY <1>3, <1>4 DEF Container
    <2>2. \A x \in typed' : Kind[x] \notin Owning => ring.parent[x] \in typed'
      BY <1>1, <1>4 DEF Natives, SharersOK
    <2> QED
      BY <1>3, <1>4, <2>1, <2>2 DEF Natives, SharersOK
  <1>7. WithinOK'
    BY DEF Natives, WithinOK
  <1>8. OneOwner'
    <2>1. \A g \in Handle : tempLobs'[g] = IF g = s THEN tempLobs[g] \union {n} ELSE tempLobs[g]
      BY <1>1 DEF TypeOK
    <2>2. \A g \in Handle : Kind[g] = "svcctx" /\ g \in live => g \in live'
      BY <1>1
    <2>3. \A g, h \in typed' : Kind[g] \in Owning /\ Kind[h] \in Owning /\ hp'[g] = hp'[h] => g = h
      BY <1>3, <1>4 DEF Natives, OneOwner
    <2>4. ASSUME NEW g \in Handle, NEW m \in tempLobs'[g]
          PROVE  /\ g \in live' /\ Kind[g] = "svcctx"
                 /\ m \in native' /\ within'[m] = Null
                 /\ \A h \in typed' : Kind[h] \in Owning => hp'[h] # m
                 /\ \A h \in Handle : m \in tempLobs'[h] => h = g
      <3>1. CASE m = n
        BY <1>1, <1>2, <1>3, <1>4, <2>1, <2>2, <2>4, <3>1
      <3>2. CASE m # n
        BY <1>3, <1>4, <2>1, <2>2, <2>4, <3>2 DEF Natives, OneOwner
      <3> QED
        BY <3>1, <3>2
    <2> QED
      BY <2>3, <2>4 DEF OneOwner
  <1> QED
    BY <1>5, <1>6, <1>7, <1>8 DEF Natives

\* The natives are in order at the beginning.
LEMMA InitNatives ==
  ASSUME Init
  PROVE  Natives
  BY DEF Init, Natives, TypedOK, SharersOK, WithinOK, OneOwner

\* Every step keeps them in order.
LEMMA NextNatives ==
  ASSUME Placed, Natives, [Next]_vars
  PROVE  Natives'
  <1> USE DEF Placed
  <1>1. ASSUME NEW s \in Handle, NEW e \in Handle, NewSvcctx(s, e)
        PROVE  Natives'
    <2>1. e \notin typed
      BY <1>1 DEF NewSvcctx, Structure, DeadAlone
    <2>2. ring'.parent = [ring.parent EXCEPT ![e] = s] /\ ring.parent \in [Handle -> Pointer]
      BY <1>1, LinkedFields, RingHere DEF NewSvcctx
    <2> QED
      BY <1>1, <2>1, <2>2, RingStepNatives DEF NewSvcctx
  <1>2. ASSUME NEW s \in Handle, NEW e \in Handle, NEW n \in Native, Connect(s, e, n)
        PROVE  Natives'
    BY <1>2, ConnectNatives
  <1>3. ASSUME NEW h \in Handle, NEW p \in Handle, NEW n \in Native, NEW t \in BOOLEAN,
               NewChild(h, p, n, t)
        PROVE  Natives'
    <2>1. h \notin typed /\ p \in typed
      BY <1>3 DEF NewChild, Structure, DeadAlone
    <2>2. ring'.parent = [ring.parent EXCEPT ![h] = p] /\ ring.parent \in [Handle -> Pointer]
      BY <1>3, LinkedFields, RingHere DEF NewChild
    <2> DEFINE into == IF Kind[h] = "param" THEN Container(p) ELSE Null
    <2>3. /\ Kind[h] \in {"stmt", "lob", "param"} /\ n \notin native
          /\ live \subseteq live' /\ native' = native \union {n} /\ typed' = typed \union {h}
          /\ hp' = [hp EXCEPT ![h] = n] /\ UNCHANGED <<strategy, tempLobs>>
          /\ temp' \subseteq temp \union {n} /\ within' = [within EXCEPT ![n] = into]
      BY <1>3 DEF NewChild
    <2>4. Kind[h] = "param" => Kind[p] \in {"stmt", "desc", "param"}
      BY <1>3 DEF NewChild, ParentKinds
    <2>5. ring'.parent[h] = p /\ \A x \in Handle \ {h} : ring'.parent[x] = ring.parent[x]
      BY <2>2
    <2> QED
      BY <2>1, <2>3, <2>4, <2>5, FreshNatives DEF Structure
  <1>4. ASSUME NEW h \in Handle, NEW s \in Handle, NEW t \in BOOLEAN, NewBind(h, s, t)
        PROVE  Natives'
    <2>1. h \notin typed
      BY <1>4 DEF NewBind, Structure, DeadAlone
    <2>2. /\ ring'.parent \in {[ring.parent EXCEPT ![h] = s], ring.parent}
          /\ ring.parent \in [Handle -> Pointer]
      BY <1>4, LinkedFields, RingHere DEF NewBind
    <2>3. \A x \in typed : ring'.parent[x] = ring.parent[x]
      BY <2>1, <2>2 DEF TypeOK
    <2> QED
      BY <1>4, <2>3, RingStepNatives DEF NewBind
  <1>5. ASSUME NEW h \in Handle, NEW s \in Handle, NEW n \in Native, Bind(h, s, n)
        PROVE  Natives'
    <2>1. h \notin typed
      BY <1>5, NativeAssumption DEF Bind, Natives, TypedOK, TypeOK
    <2>2. ring'.parent = [ring.parent EXCEPT ![h] = s] /\ ring.parent \in [Handle -> Pointer]
      BY <1>5, LinkedFields, RingHere DEF Bind
    <2>3. Container(s) = hp[s]
      BY <1>5 DEF Bind, Container
    <2> QED
      BY <1>5, <2>1, <2>2, <2>3, FreshNatives DEF Bind, Structure
  <1>6. ASSUME NEW h \in Handle, NEW s \in Handle, NEW n \in Native, DescribeCall(h, s, n)
        PROVE  Natives'
    <2>1. h \notin typed
      BY <1>6 DEF DescribeCall, Structure, DeadAlone
    <2>2. within' = [within EXCEPT ![n] = Null]
      BY <1>6, NativeAssumption DEF DescribeCall, Natives, WithinOK, TypeOK
    <2> QED
      BY <1>6, <2>1, <2>2, FreshNatives DEF DescribeCall, Structure
  <1>7. ASSUME NEW h \in Handle, NEW ok \in BOOLEAN, DescribeReturn(h, ok)
        PROVE  Natives'
    <2>1. pending[h] \in Handle /\ Kind[h] \in Owning
      BY <1>7 DEF DescribeReturn, Structure, DescribesHeld, TypeOK, Pointer, Owning
    <2>2. /\ ring'.parent \in {[ring.parent EXCEPT ![h] = pending[h]], ring.parent}
          /\ ring.parent \in [Handle -> Pointer]
      BY <1>7, <2>1, LinkedFields, RingHere DEF DescribeReturn
    <2>3. \A x \in typed : Kind[x] \notin Owning => ring'.parent[x] = ring.parent[x]
      BY <2>1, <2>2 DEF TypeOK
    <2> QED
      BY <1>7, <2>3, RingStepNatives DEF DescribeReturn
  <1>8. ASSUME NEW h \in Handle, Drop(h) \/ UserFree(h) \/ Logoff(h) \/ Sweep(h)
        PROVE  Natives'
    BY <1>8, RingStepNatives DEF Drop, UserFree, Logoff, Sweep, SameHandles
  <1>9. CASE FreeChild
    BY <1>9, RingStepNatives DEF FreeChild, SameHandles
  <1>10. CASE UnlinkTempLob
    <2>1. Top \in Handle /\ Kind[Top] \in Owning
      BY <1>10, FrameFacts DEF UnlinkTempLob, IsTempLob, Owning
    <2>2. ring'.parent = [ring.parent EXCEPT ![Top] = Null] /\ ring.parent \in [Handle -> Pointer]
      BY <1>10, <2>1, UnlinkedFields, RingHere DEF UnlinkTempLob
    <2>3. \A x \in typed : Kind[x] \notin Owning => ring'.parent[x] = ring.parent[x]
      BY <2>1, <2>2 DEF TypeOK
    <2> QED
      BY <1>10, <2>3, RingStepNatives DEF UnlinkTempLob
  <1>11. CASE MoveTempLob
    BY <1>11, MoveTempLobNatives
  <1>12. CASE FreeSelf
    BY <1>12, FreeSelfNatives
  <1>13. CASE \E F \in SUBSET Native, raises \in BOOLEAN : FinishLogoff(F, raises)
    BY <1>13, FinishLogoffNatives
  <1>14. CASE \E s \in Handle, F \in SUBSET Native : SvcctxCall(s, F)
    BY <1>14, SvcctxCallNatives
  <1>15. CASE NothingToLogOff
    BY <1>15, RingStepNatives DEF NothingToLogOff, SameHandles
  <1>16. CASE UNCHANGED vars
    BY <1>16, RingStepNatives DEF vars
  <1> QED
    BY <1>1, <1>2, <1>3, <1>4, <1>5, <1>6, <1>7, <1>8, <1>9, <1>10, <1>11, <1>12, <1>13, <1>14,
       <1>15, <1>16 DEF Next, FreeStep

-------------------------------------------------------------------------------
(***************************************************************************)
(* Every native is somebody's.                                             *)
(***************************************************************************)

\* A step that makes or frees nothing.
LEMMA RingStepKept ==
  ASSUME live \subseteq live',
         UNCHANGED <<typed, hp, native, within, strategy, tempLobs>>, NEW n \in native, Kept(n)
  PROVE  Kept(n)'
  BY DEF Kept, Owners

\* A fresh native m for h: the others stay whose they were.
LEMMA FreshKept ==
  ASSUME TypeOK, Natives, NEW h \in Handle, NEW m \in Native, h \notin typed,
         Kind[h] # "svcctx",
         m \notin native, live \subseteq live', h \in live', native' = native \union {m},
         typed' = typed \union {h}, hp' = [hp EXCEPT ![h] = m],
         UNCHANGED <<strategy, tempLobs>>,
         \A x \in Native \ {m} : within'[x] = within[x],
         Kind[h] \in {"stmt", "desc", "lob"} \/ within'[m] \in native,
         NEW n \in native', n # m => Kept(n)
  PROVE  Kept(n)'
  <1>1. hp'[h] = m /\ \A x \in Handle \ {h} : hp'[x] = hp[x]
    BY DEF TypeOK
  <1>2. CASE n = m
    BY <1>1, <1>2 DEF Kept, Owners, TypeOK
  <1>3. CASE n # m
    <2>1. n \in Native /\ within'[n] = within[n]
      BY <1>3 DEF TypeOK
    <2>2. h \notin strategy
      BY DEF Natives, TypedOK
    <2>3. Owners(n) \subseteq Owners(n)'
      BY <1>1, <2>2 DEF Owners, TypeOK
    <2> QED
      BY <1>3, <2>1, <2>3 DEF Kept
  <1> QED
    BY <1>2, <1>3

\* The release of F, with the end of the wrappers T: what of theirs F does not
\* hold stays listed.
LEMMA ReleaseKept ==
  ASSUME TypeOK, Natives, NEW T, NEW F, Release(F),
         \A m \in F : m \in native /\ m \in Native /\ within[m] = Null,
         NEW n \in native', Kept(n),
         \A h \in Handle \ T : /\ h \in live => h \in live'
                               /\ h \in typed => h \in typed'
                               /\ h \in strategy => h \in strategy'
                               /\ hp'[h] = hp[h]
                               /\ n \in tempLobs[h] => n \in tempLobs'[h],
         \A h \in T : h \in Owners(n) => n \in tempLobs'[h] /\ h \in live'
  PROVE  Kept(n)'
  <1> DEFINE gone == F \union {m \in native : within[m] \in F}
  <1>1. n \in native /\ n \in Native /\ n \notin gone /\ native' = native \ gone
        /\ within'[n] = within[n]
    BY DEF Release, TypeOK
  <1>2. CASE within[n] \in native
    <2>1. within[n] # Null /\ within[within[n]] = Null
      BY <1>1, <1>2, NativeAssumption DEF Natives, WithinOK, TypeOK
    <2>2. Null \notin F
      BY NativeAssumption
    <2>3. within[n] \notin gone
      BY <1>1, <2>1, <2>2
    <2> QED
      BY <1>1, <1>2, <2>3 DEF Kept
  <1>3. ASSUME NEW h \in Owners(n)
        PROVE  h \in Owners(n)'
    <2>1. h \in Handle
      BY DEF Owners, TypeOK
    <2>2. CASE h \in T
      <3>1. n \in tempLobs'[h] /\ h \in live'
        BY <2>2
      <3> QED
        BY <3>1 DEF Owners
    <2>3. CASE h \notin T
      BY <1>1, <2>1, <2>3 DEF Owners
    <2> QED
      BY <2>2, <2>3
  <1> QED
    BY <1>2, <1>3 DEF Kept

\* The locator of a temporary LOB gets a new owner.
LEMMA MoveTempLobKept ==
  ASSUME Placed, Natives, MoveTempLob, NEW n \in native, Kept(n)
  PROVE  Kept(n)'
  <1> USE DEF Placed, MoveTempLob, Return
  <1> DEFINE s == lobSvc[Top]
  <1>1. /\ Top \in Handle /\ Top \in typed /\ Kind[Top] = "lob" /\ hp[Top] \in native
        /\ s \in Handle /\ s \in live /\ Kind[s] = "svcctx"
    BY MoveTempLobFacts
  <1>2. /\ \A x \in Handle \ {Top} : hp'[x] = hp[x]
        /\ \A g \in Handle : tempLobs'[g] = IF g = s THEN tempLobs[g] \union {hp[Top]}
                                            ELSE tempLobs[g]
        /\ s # Top
    BY <1>1 DEF TypeOK
  <1>3. CASE within[n] \in native
    BY <1>3 DEF Kept
  <1>4. ASSUME NEW h \in Owners(n), h # Top
        PROVE  h \in Owners(n)'
    BY <1>2, <1>4 DEF Owners, TypeOK
  <1>5. ASSUME Top \in Owners(n)
        PROVE  s \in Owners(n)'
    <2>1. tempLobs[Top] = {}
      BY <1>1 DEF Natives, OneOwner
    <2>2. n = hp[Top]
      BY <1>5, <2>1 DEF Owners
    <2> QED
      <3>1. s \in live'
        BY <1>1, <1>2
      <3>2. n \in tempLobs'[s]
        <4> HIDE DEF MoveTempLob, Return, Placed
        <4> QED
          BY <1>1, <1>2, <2>2
      <3> QED
        BY <3>1, <3>2 DEF Owners
  <1> QED
    BY <1>3, <1>4, <1>5 DEF Kept

\* No step takes the last owner from a native, or makes a native without one, but
\* the end of a logoff, from the handles of its connection.
LEMMA NextKept ==
  ASSUME Placed, Natives, [Next]_vars, NEW n \in native', n \in native => Kept(n),
         n \notin LostByLogoff
  PROVE  Kept(n)'
  <1> USE DEF Placed
  <1>1. ASSUME NEW s \in Handle, NEW e \in Handle, NewSvcctx(s, e)
        PROVE  Kept(n)'
    BY <1>1, RingStepKept DEF NewSvcctx
  <1>2. ASSUME NEW s \in Handle, NEW e \in Handle, NEW m \in Native, Connect(s, e, m)
        PROVE  Kept(n)'
    <2> USE <1>2 DEF Connect
    <2>1. hp'[s] = m /\ \A x \in Handle \ {s, e} : hp'[x] = hp[x]
      BY DEF TypeOK
    <2>2. s \in live' /\ s \in strategy'
      BY DEF Usable, Structure, DeadAlone
    <2>3. s \notin strategy /\ e \notin strategy
      BY DEF Natives, TypedOK
    <2>4. n # m => Owners(n) \subseteq Owners(n)'
      BY <2>1, <2>3 DEF Owners, TypeOK
    <2>5. n = m => s \in Owners(n)'
      BY <2>1, <2>2 DEF Owners
    <2> QED
      BY <2>4, <2>5 DEF Kept
  <1>3. ASSUME NEW h \in Handle, NEW p \in Handle, NEW m \in Native, NEW t \in BOOLEAN,
               NewChild(h, p, m, t)
        PROVE  Kept(n)'
    <2>1. h \notin typed /\ p \in typed
      BY <1>3 DEF NewChild, Structure, DeadAlone
    <2>2. Kind[h] = "param" => within'[m] \in native
      BY <1>3, <2>1, ContainerOK DEF NewChild, ParentKinds, Structure, TypeOK
    <2>3. \A x \in Native \ {m} : within'[x] = within[x]
      BY <1>3 DEF NewChild, TypeOK
    <2> QED
      BY <1>3, <2>1, <2>2, <2>3, FreshKept DEF NewChild
  <1>4. ASSUME NEW h \in Handle, NEW s \in Handle, NEW t \in BOOLEAN, NewBind(h, s, t)
        PROVE  Kept(n)'
    BY <1>4, RingStepKept DEF NewBind
  <1>5. ASSUME NEW h \in Handle, NEW s \in Handle, NEW m \in Native, Bind(h, s, m)
        PROVE  Kept(n)'
    <2>1. h \notin typed /\ h \in live /\ within'[m] \in native
      BY <1>5, NativeAssumption
         DEF Bind, Natives, TypedOK, TypeOK, Usable, Structure, DeadAlone
    <2>2. \A x \in Native \ {m} : within'[x] = within[x]
      BY <1>5 DEF Bind, TypeOK
    <2> QED
      BY <1>5, <2>1, <2>2, FreshKept DEF Bind
  <1>6. ASSUME NEW h \in Handle, NEW s \in Handle, NEW m \in Native, DescribeCall(h, s, m)
        PROVE  Kept(n)'
    <2>1. h \notin typed
      BY <1>6 DEF DescribeCall, Structure, DeadAlone
    <2> QED
      BY <1>6, <2>1, FreshKept DEF DescribeCall
  <1>7. ASSUME NEW h \in Handle, NEW ok \in BOOLEAN, DescribeReturn(h, ok)
        PROVE  Kept(n)'
    BY <1>7, RingStepKept DEF DescribeReturn
  <1>8. ASSUME NEW h \in Handle, Drop(h) \/ UserFree(h) \/ Logoff(h) \/ Sweep(h)
        PROVE  Kept(n)'
    BY <1>8, RingStepKept DEF Drop, UserFree, Logoff, Sweep, SameHandles
  <1>9. CASE FreeChild
    BY <1>9, RingStepKept DEF FreeChild, SameHandles
  <1>10. CASE UnlinkTempLob
    BY <1>10, RingStepKept DEF UnlinkTempLob
  <1>11. CASE MoveTempLob
    BY <1>11, MoveTempLobKept DEF MoveTempLob
  <1>12. CASE FreeSelf
    <2> DEFINE F == FreedBy(Top)
    <2>1. Top \in Handle /\ n \in native /\ n \notin F
      BY <1>12, FrameFacts DEF FreeSelf, Release
    <2>2. \A x \in Handle \ {Top} : hp'[x] = hp[x] /\ tempLobs'[x] = tempLobs[x]
      BY <1>12, <2>1 DEF FreeSelf, Return, TypeOK
    <2>3. \A m \in F : m \in native /\ m \in Native /\ within[m] = Null
      BY <2>1, FreedIsOwn
    <2>4. Top \notin Owners(n)
      BY <2>1 DEF Owners, FreedBy, Natives, TypedOK, OneOwner
    <2> HIDE DEF F
    <2>5. /\ Release(F)
          /\ \A h \in Handle \ {Top} : /\ h \in live => h \in live'
                                       /\ h \in typed => h \in typed'
                                       /\ h \in strategy => h \in strategy'
                                       /\ hp'[h] = hp[h]
                                       /\ n \in tempLobs[h] => n \in tempLobs'[h]
          /\ \A h \in {Top} : h \in Owners(n) => n \in tempLobs'[h] /\ h \in live'
      BY <1>12, <2>2, <2>4 DEF FreeSelf, Return, F
    <2> QED
      BY <2>1, <2>3, <2>5, ReleaseKept
  <1>13. ASSUME NEW F \in SUBSET Native, NEW raises \in BOOLEAN, FinishLogoff(F, raises)
         PROVE  Kept(n)'
    <2> DEFINE G == IF raises THEN F ELSE F \union {hp[Top]}
    <2>1. /\ Top \in Handle /\ n \in native /\ n \notin G /\ n # hp[Top]
          /\ Kind[Top] = "svcctx"
      BY <1>13, FrameFacts DEF FinishLogoff, Release, LostByLogoff, Natives, TypedOK
    <2>2. \A m \in G : m \in native /\ m \in Native /\ within[m] = Null
      <3>1. G \subseteq FreedBy(Top)
        BY <1>13, <2>1 DEF FinishLogoff, FreedBy
      <3> QED
        BY <2>1, <3>1, FreedIsOwn
    <2>3. Top \in Owners(n) => n \in tempLobs'[Top] /\ Top \in live'
      BY <1>13, <2>1 DEF FinishLogoff, Owners, TypeOK
    <2> HIDE DEF G
    <2>4. /\ Release(G)
          /\ \A h \in Handle \ {Top} : /\ h \in live => h \in live'
                                       /\ h \in typed => h \in typed'
                                       /\ h \in strategy => h \in strategy'
                                       /\ hp'[h] = hp[h]
                                       /\ n \in tempLobs[h] => n \in tempLobs'[h]
          /\ \A h \in {Top} : h \in Owners(n) => n \in tempLobs'[h] /\ h \in live'
      BY <1>13, <2>1, <2>3 DEF FinishLogoff, G, TypeOK
    <2> QED
      BY <2>1, <2>2, <2>4, ReleaseKept
  <1>14. ASSUME NEW s \in Handle, NEW F \in SUBSET Native, SvcctxCall(s, F)
         PROVE  Kept(n)'
    <2>1. n \in native /\ n \notin F
      BY <1>14 DEF SvcctxCall, Release
    <2>2. \A m \in F : m \in native /\ m \in Native /\ within[m] = Null
      BY <1>14 DEF SvcctxCall, Natives, OneOwner, TypeOK
    <2> DEFINE T == {}
    <2>3. /\ Release(F)
          /\ \A h \in Handle \ T : /\ h \in live => h \in live'
                                   /\ h \in typed => h \in typed'
                                   /\ h \in strategy => h \in strategy'
                                   /\ hp'[h] = hp[h]
                                   /\ n \in tempLobs[h] => n \in tempLobs'[h]
          /\ \A h \in T : h \in Owners(n) => n \in tempLobs'[h] /\ h \in live'
      BY <1>14, <2>1 DEF SvcctxCall, TypeOK
    <2> HIDE DEF T
    <2> QED
      BY <2>1, <2>2, <2>3, ReleaseKept
  <1>15. CASE NothingToLogOff
    BY <1>15, RingStepKept DEF NothingToLogOff, SameHandles
  <1>16. CASE UNCHANGED vars
    BY <1>16, RingStepKept DEF vars
  <1> QED
    BY <1>1, <1>2, <1>3, <1>4, <1>5, <1>6, <1>7, <1>8, <1>9, <1>10, <1>11, <1>12, <1>13, <1>14,
       <1>15, <1>16 DEF Next, FreeStep

-------------------------------------------------------------------------------
(***************************************************************************)
(* The theorems.                                                           *)
(***************************************************************************)

TreeInv == Placed /\ Natives

\* The inductive invariant of HandleTree: Natives needs the tree, the frames and
\* the marks of Structure.
LEMMA TreeInvInit == Init => TreeInv
  BY InitAllPlaced, InitNatives DEF TreeInv

LEMMA TreeInvNext == TreeInv /\ [Next]_vars => TreeInv'
  BY NextPlaced, NextNatives DEF TreeInv

\* Two owners of a native are one.
LEMMA OwnerUnique ==
  ASSUME TreeInv, NEW n \in native, NEW g \in Owners(n), NEW h \in Owners(n)
  PROVE  g = h
  <1> USE DEF TreeInv, Placed
  <1>1. g \in Handle /\ h \in Handle
    BY DEF Owners, TypeOK
  <1>2. \A x \in Owners(n) : n \notin tempLobs[x] => x \in typed /\ Kind[x] \in Owning /\ hp[x] = n
    BY DEF Owners, Natives, TypedOK, Owning, TypeOK
  <1>3. CASE n \in tempLobs[g] \/ n \in tempLobs[h]
    BY <1>1, <1>2, <1>3 DEF Natives, OneOwner
  <1>4. CASE n \notin tempLobs[g] /\ n \notin tempLobs[h]
    BY <1>2, <1>4 DEF Natives, OneOwner
  <1> QED
    BY <1>3, <1>4

\* So the invariant says that nothing is released twice.
LEMMA OwnedOnce ==
  ASSUME TreeInv
  PROVE  NeverFreedTwice
  <1> SUFFICES ASSUME NEW n \in native
               PROVE  Cardinality(Owners(n)) <= 1 /\ (within[n] # Null => Owners(n) = {})
    BY DEF NeverFreedTwice
  <1>1. Cardinality(Owners(n)) <= 1
    <2>1. CASE Owners(n) = {}
      BY <2>1, FS_EmptySet
    <2>2. CASE Owners(n) # {}
      <3>1. PICK h : h \in Owners(n)
        BY <2>2
      <3>2. Owners(n) = {h}
        BY <3>1, OwnerUnique
      <3>3. Cardinality({h}) = 1
        BY FS_Singleton
      <3> QED
        BY <3>2, <3>3
    <2> QED
      BY <2>1, <2>2
  <1>2. within[n] # Null => Owners(n) = {}
    BY DEF TreeInv, Placed, Owners, Natives, TypedOK, OneOwner, Owning, TypeOK
  <1> QED
    BY <1>1, <1>2

\* And that the open wrappers have their natives.
LEMMA OpenAllocated ==
  ASSUME TreeInv
  PROVE  OpenHandlesAreAllocated
  BY DEF TreeInv, Placed, Natives, TypedOK, OneOwner, TypeOK, OpenHandlesAreAllocated

\* No native has two owners, or an owner beside the native it is made within: the
\* frees, sweeps and logoffs of a connection and all that hangs below it, in any
\* order, with the collector coming in, release none twice.
THEOREM NothingFreedTwice == Spec => []NeverFreedTwice
  BY TreeInvInit, TreeInvNext, OwnedOnce, PTL DEF Spec

\* As long as a wrapper is open its native is allocated, although the release of
\* another native takes all that OCI has made within it.
THEOREM OpenStayAllocated == Spec => []OpenHandlesAreAllocated
  BY TreeInvInit, TreeInvNext, OpenAllocated, PTL DEF Spec

\* No free, sweep, move or call takes the last owner from a native: that is left
\* to the end of a logoff, and takes only the handles of its connection.
THEOREM OnlyLogoffsLose == Spec => OnlyLogoffLoses
  <1>1. TreeInv /\ [Next]_vars =>
          [\A n \in native' :
             Kept(n)' \/ n \in LostByLogoff \/ (n \in native /\ ~Kept(n))]_vars
    BY NextKept DEF TreeInv
  <1> QED
    BY <1>1, TreeInvInit, TreeInvNext, PTL DEF Spec, OnlyLogoffLoses
===============================================================================
