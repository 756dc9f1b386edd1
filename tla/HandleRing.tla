------------------------------ MODULE HandleRing ------------------------------
(***************************************************************************)
(* The pointer structure behind every OCI handle wrapper of ruby-oci8: the *)
(* parent, next, prev and children members of oci8_base_t.  The children   *)
(* of a handle are a circular doubly linked list entered at its first      *)
(* child; a handle without a parent is a ring of its own.                  *)
(*                                                                         *)
(* A ring is a record of the four members, each a function over the        *)
(* handles, so that the C functions are operators from rings to rings.     *)
(***************************************************************************)

CONSTANTS Handle,   \* the C structs: one slot of memory for each wrapper
          Null      \* the NULL pointer

ASSUME NullAssumption == Null \notin Handle

Pointer == Handle \union {Null}

Ring == [parent   : [Handle -> Pointer],
         next     : [Handle -> Handle],
         prev     : [Handle -> Handle],
         children : [Handle -> Pointer]]

\* A struct just made by oci8_allocate_typeddata is alone in its ring.
InitRing == [parent   |-> [h \in Handle |-> Null],
             next     |-> [h \in Handle |-> h],
             prev     |-> [h \in Handle |-> h],
             children |-> [h \in Handle |-> Null]]

-------------------------------------------------------------------------------
(***************************************************************************)
(* oci8_unlink_from_parent and oci8_link_to_parent.                        *)
(***************************************************************************)

\* mutants: the head is not moved; nothing is unlinked

UnlinkedKeepingHead(r, b) ==
  IF r.parent[b] = Null THEN r
  ELSE [parent   |-> [r.parent EXCEPT ![b] = Null],
        next     |-> [r.next EXCEPT ![r.prev[b]] = r.next[b], ![b] = b],
        prev     |-> [r.prev EXCEPT ![r.next[b]] = r.prev[b], ![b] = b],
        children |-> IF r.next[b] = b
                     THEN [r.children EXCEPT ![r.parent[b]] = Null]
                     ELSE r.children]

NotUnlinked(r, b) == r

Unlinked(r, b) ==
  IF r.parent[b] = Null THEN r
  ELSE IF r.next[b] = b
  THEN [parent   |-> [r.parent EXCEPT ![b] = Null],
        next     |-> r.next,
        prev     |-> r.prev,
        children |-> [r.children EXCEPT ![r.parent[b]] = Null]]
  ELSE [parent   |-> [r.parent EXCEPT ![b] = Null],
        next     |-> [r.next EXCEPT ![r.prev[b]] = r.next[b], ![b] = b],
        prev     |-> [r.prev EXCEPT ![r.next[b]] = r.prev[b], ![b] = b],
        children |-> [r.children EXCEPT
                        ![r.parent[b]] = IF @ = b THEN r.next[b] ELSE @]]

\* mutant: the new child becomes the head
AppendedFirst(r, b, p) ==
  IF r.children[p] = Null
  THEN [r EXCEPT !.parent[b] = p, !.children[p] = b]
  ELSE LET head == r.children[p]
           tail == r.prev[head]
       IN  [parent   |-> [r.parent EXCEPT ![b] = p],
            next     |-> [r.next EXCEPT ![b] = head, ![tail] = b],
            prev     |-> [r.prev EXCEPT ![b] = tail, ![head] = b],
            children |-> [r.children EXCEPT ![p] = b]]

\* Append b, which has no parent, at the tail of p's children.
Appended(r, b, p) ==
  IF r.children[p] = Null
  THEN [parent   |-> [r.parent EXCEPT ![b] = p],
        next     |-> r.next,
        prev     |-> r.prev,
        children |-> [r.children EXCEPT ![p] = b]]
  ELSE LET head == r.children[p]
           tail == r.prev[head]
       IN  [parent   |-> [r.parent EXCEPT ![b] = p],
            next     |-> [r.next EXCEPT ![b] = head, ![tail] = b],
            prev     |-> [r.prev EXCEPT ![b] = tail, ![head] = b],
            children |-> r.children]

Linked(r, b, p) == Appended(Unlinked(r, b), b, p)

-------------------------------------------------------------------------------
(***************************************************************************)
(* What the pointers always satisfy between two operations.                *)
(***************************************************************************)

ChildrenOf(r, p) == {h \in Handle : r.parent[h] = p}

\* next and prev are inverse and stay among the children of one parent
RingsClosed(r) ==
  \A h \in Handle : /\ r.prev[r.next[h]] = h
                    /\ r.next[r.prev[h]] = h
                    /\ r.parent[r.next[h]] = r.parent[h]

\* without a parent a handle is alone in its ring
OrphansAlone(r) == \A h \in Handle : r.parent[h] = Null => r.next[h] = h

\* children is the entry to a ring of the handle's own children, and it is
\* NULL only if there are none
HeadsOK(r) ==
  \A p \in Handle : /\ r.children[p] # Null => r.parent[r.children[p]] = p
                    /\ r.children[p] = Null => ChildrenOf(r, p) = {}

\* one ring for each parent: a set of siblings closed under next is all of
\* them, so the walk from children[p] reaches every child of p
OneRing(r) ==
  \A p \in Handle : \A S \in SUBSET ChildrenOf(r, p) :
    (S # {} /\ \A h \in S : r.next[h] \in S) => S = ChildrenOf(r, p)

RingOK(r) == RingsClosed(r) /\ OrphansAlone(r) /\ HeadsOK(r) /\ OneRing(r)
===============================================================================
