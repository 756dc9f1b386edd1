------------------------------ MODULE HandleTree ------------------------------
(***************************************************************************)
(* Ownership and deallocation of the OCI handles wrapped by ruby-oci8.     *)
(*                                                                         *)
(* A wrapper (oci8_base_t) is linked below the wrapper it depends on: a    *)
(* statement below its connection, a bind below its statement, ...         *)
(* Freeing a wrapper, from Ruby or from the garbage collector, frees its   *)
(* descendants first (oci8_base_free).  Ruby's collector sweeps garbage in *)
(* any order and lazily, so a parent may be swept before its children,     *)
(* after them, or between two calls of the program.                        *)
(*                                                                         *)
(* All of this runs with the interpreter lock held.  Two places let other  *)
(* code in: OCIDescribeAny_nb releases the lock between the allocation of  *)
(* a describe handle and its link, and the ALLOC of oci8_lob_free may run  *)
(* the collector in the middle of a free.                                  *)
(***************************************************************************)
EXTENDS HandleRing, Naturals, Sequences, FiniteSets

CONSTANTS Native,   \* handles and descriptors that live in the OCI library
          Kind      \* the class each slot is used for

Kinds == {"svcctx", "session", "stmt", "bind", "desc", "param", "lob"}

ASSUME KindAssumption == Kind \in [Handle -> Kinds]
ASSUME NativeAssumption == Null \notin Native

\* the parents that the linking code of each class chooses
ParentKinds ==
  [svcctx |-> {}, session |-> {"svcctx"}, stmt |-> {"svcctx"},
   bind |-> {"stmt"}, desc |-> {"svcctx"},
   param |-> {"desc", "stmt", "param"}, lob |-> {"svcctx"}]

VARIABLES
  live,      \* the structs that are allocated
  held,      \* the wrappers the program can still reach
  ring,      \* the pointers between the wrappers
  typed,     \* the wrappers whose base.type is not zero
  closed,    \* the wrappers whose base.closed is set
  hp,        \* base.hp
  native,    \* the natives that OCI has allocated
  within,    \* the native whose release also releases this one
  temp,      \* the locators of temporary LOBs
  strategy,  \* the connections whose logoff_strategy is set
  tempLobs,  \* temp_lobs of each connection: locators that wait to be freed
  lobSvc,    \* svcctx of each LOB
  pending,   \* the connection a describe handle will be linked to
  stack      \* the C frames of oci8_base_free, the innermost first

vars == <<live, held, ring, typed, closed, hp, native, within, temp, strategy,
          tempLobs, lobSvc, pending, stack>>

\* op: how the free began.  pc: in the loop, or in the ALLOC of oci8_lob_free
Frame == [h : Handle, op : {"free", "sweep", "logoff"}, pc : {"loop", "alloc"}]

Init ==
  /\ live = {} /\ held = {} /\ typed = {} /\ closed = {}
  /\ ring = InitRing
  /\ hp = [h \in Handle |-> Null]
  /\ native = {} /\ temp = {} /\ strategy = {}
  /\ within = [n \in Native |-> Null]
  /\ tempLobs = [h \in Handle |-> {}]
  /\ lobSvc = [h \in Handle |-> Null]
  /\ pending = [h \in Handle |-> Null]
  /\ stack = <<>>

Idle == stack = <<>>

\* the program may use h: it holds it and oci8_check_typeddata accepts it
Usable(h) == h \in held /\ h \notin closed

\* OCI releases the natives N, and every native made within one of them.
Release(N) ==
  LET gone == N \union {n \in native : within[n] \in N}
  IN  /\ native' = native \ gone
      /\ temp' = temp \ gone
      /\ within' = [n \in Native |-> IF n \in gone THEN Null ELSE within[n]]

-------------------------------------------------------------------------------
(***************************************************************************)
(* Making wrappers.                                                        *)
(***************************************************************************)

\* OCI8.allocate: the connection and its session and server wrappers, for
\* which one slot stands, linked at once
NewSvcctx(s, e) ==
  /\ Idle
  /\ Kind[s] = "svcctx" /\ Kind[e] = "session" /\ {s, e} \cap live = {}
  /\ live' = live \union {s, e}
  /\ held' = held \union {s, e}
  /\ ring' = Linked(ring, e, s)
  /\ UNCHANGED <<typed, closed, hp, native, within, temp, strategy, tempLobs,
                 lobSvc, pending, stack>>

\* Logging on: one native stands for the service context, the user session
\* and the server handle, which the logoff strategy releases together.  The
\* session wrapper gets a copy of the pointer.
Connect(s, e, n) ==
  /\ Idle
  /\ Kind[s] = "svcctx" /\ Usable(s) /\ s \notin typed
  /\ ring.parent[e] = s /\ Kind[e] = "session" /\ n \notin native
  /\ native' = native \union {n}
  /\ hp' = [hp EXCEPT ![s] = n, ![e] = n]
  /\ typed' = typed \union {s, e}
  /\ strategy' = strategy \union {s}
  /\ UNCHANGED <<live, held, ring, closed, within, temp, tempLobs, lobSvc,
                 pending, stack>>

\* the native whose release takes the parameters found through p with it: what
\* p itself is a parameter of, if it is one
Container(p) ==
  IF Kind[p] = "param" /\ hp[p] \in Native THEN within[hp[p]] ELSE hp[p]

\* A statement, a LOB or a parameter: the wrapper, its native and the link to
\* its parent are made without releasing the interpreter lock.
NewChild(h, p, n, isTemp) ==
  /\ Idle
  /\ Kind[h] \in {"stmt", "lob", "param"} /\ h \notin live
  /\ Usable(p) /\ p \in typed /\ Kind[p] \in ParentKinds[Kind[h]]
  /\ n \notin native
  /\ isTemp => Kind[h] = "lob"
  /\ live' = live \union {h}
  /\ held' = held \union {h}
  /\ native' = native \union {n}
  /\ within' = [within EXCEPT ![n] = IF Kind[h] = "param" THEN Container(p) ELSE Null]
  /\ temp' = IF isTemp THEN temp \union {n} ELSE temp
  /\ hp' = [hp EXCEPT ![h] = n]
  /\ typed' = typed \union {h}
  /\ ring' = Linked(ring, h, p)
  /\ lobSvc' = [lobSvc EXCEPT ![h] = IF Kind[h] = "lob" THEN p ELSE Null]
  /\ UNCHANGED <<closed, strategy, tempLobs, pending, stack>>

\* A bind object.  The timestamp types link it to the connection until it is
\* bound, the others to nothing.
NewBind(h, s, isTimestamp) ==
  /\ Idle
  /\ Kind[h] = "bind" /\ h \notin live
  /\ Kind[s] = "svcctx" /\ Usable(s)
  /\ live' = live \union {h}
  /\ held' = held \union {h}
  /\ ring' = IF isTimestamp THEN Linked(ring, h, s) ELSE ring
  /\ UNCHANGED <<typed, closed, hp, native, within, temp, strategy, tempLobs,
                 lobSvc, pending, stack>>

\* Cursor#__bind and #__define of a new bind object: OCI makes the native
\* inside the statement, and the wrapper moves below the statement.  The object
\* is always new (make_bind_object), so the frees of one that is bound already
\* (stmt.c:119, 198) do not come about.  A call that OCI refuses changes nothing
\* here; what raises after the link (stmt.c:142, 226) leaves what a success does.
Bind(h, s, n) ==
  /\ Idle
  /\ Kind[h] = "bind" /\ Usable(h) /\ hp[h] = Null
  /\ Kind[s] = "stmt" /\ Usable(s) /\ s \in typed
  /\ n \notin native
  /\ native' = native \union {n}
  /\ within' = [within EXCEPT ![n] = hp[s]]
  /\ hp' = [hp EXCEPT ![h] = n]
  /\ typed' = typed \union {h}
  /\ ring' = Linked(ring, h, s)
  /\ UNCHANGED <<live, held, closed, temp, strategy, tempLobs, lobSvc, pending,
                 stack>>

\* oci8_do_describe up to OCIDescribeAny_nb, which releases the interpreter lock
DescribeCall(h, s, n) ==
  /\ Idle
  /\ Kind[h] = "desc" /\ h \notin live
  /\ Kind[s] = "svcctx" /\ Usable(s) /\ s \in typed
  /\ n \notin native
  /\ live' = live \union {h}
  /\ held' = held \union {h}
  /\ native' = native \union {n}
  /\ hp' = [hp EXCEPT ![h] = n]
  /\ typed' = typed \union {h}
  /\ pending' = [pending EXCEPT ![h] = s]
  /\ UNCHANGED <<ring, closed, within, temp, strategy, tempLobs, lobSvc, stack>>

\* ... and from its return: the link, or an exception that leaves the describe
\* handle without a parent.  Whether the connection was closed meanwhile is
\* not looked at.
DescribeReturn(h, ok) ==
  /\ Idle
  /\ pending[h] # Null
  /\ ring' = IF ok THEN Linked(ring, h, pending[h]) ELSE ring
  /\ pending' = [pending EXCEPT ![h] = Null]
  /\ UNCHANGED <<live, held, typed, closed, hp, native, within, temp, strategy,
                 tempLobs, lobSvc, stack>>

\* Any OCI call of a connection, also one of this module, first releases temporary
\* LOBs of its list (oci8_call_without_gvl): all, or those before one that raises.
SvcctxCall(s, F) ==
  /\ Idle
  /\ Kind[s] = "svcctx" /\ Usable(s) /\ s \in typed
  /\ F \subseteq tempLobs[s]
  /\ Release(F)
  /\ tempLobs' = [tempLobs EXCEPT ![s] = @ \ F]
  /\ UNCHANGED <<live, held, ring, typed, closed, hp, strategy, lobSvc, pending,
                 stack>>

-------------------------------------------------------------------------------
(***************************************************************************)
(* Garbage.                                                                *)
(***************************************************************************)

\* mutant: oci8_lob_mark is forgotten
MarksNoLob(c, h) ==
  \/ Kind[c] \in {"stmt", "param"} /\ ring.parent[c] = h
  \/ ring.parent[h] = c /\ <<Kind[h], Kind[c]>> \in {<<"session", "svcctx">>, <<"bind", "stmt">>}

\* the mark functions: a reachable c keeps h reachable
Marks(c, h) ==
  \/ Kind[c] \in {"stmt", "param"} /\ ring.parent[c] = h
  \/ Kind[c] = "lob" /\ lobSvc[c] = h
  \/ ring.parent[h] = c /\ <<Kind[h], Kind[c]>> \in {<<"session", "svcctx">>, <<"bind", "stmt">>}

\* The program loses its last reference to h.  A call in progress keeps its
\* receiver and its arguments on the C stack.
Drop(h) ==
  /\ Idle
  /\ h \in held
  /\ \A c \in held \ {h} : ~Marks(c, h)
  /\ \A c \in Handle : pending[c] # Null => h \notin {c, pending[c]}
  /\ held' = held \ {h}
  /\ UNCHANGED <<live, ring, typed, closed, hp, native, within, temp, strategy,
                 tempLobs, lobSvc, pending, stack>>

-------------------------------------------------------------------------------
(***************************************************************************)
(* oci8_base_free.                                                         *)
(***************************************************************************)

Enter(h, op) == stack' = <<[h |-> h, op |-> op, pc |-> "loop"]>> \o stack

SameHandles == UNCHANGED <<live, held, ring, typed, closed, hp, native, within,
                           temp, strategy, tempLobs, lobSvc, pending>>

\* OCIHandle#free, Cursor#close, LOB#close: allowed on a closed handle too
UserFree(h) ==
  /\ Idle
  /\ h \in held /\ Kind[h] # "session" /\ pending[h] = Null
  /\ Enter(h, "free")
  /\ SameHandles

Logoff(s) ==
  /\ Idle
  /\ Kind[s] = "svcctx" /\ Usable(s)
  /\ Enter(s, "logoff")
  /\ SameHandles

Frames == {stack[i] : i \in DOMAIN stack}

\* oci8_handle_cleanup, called by the collector for a garbage wrapper between
\* two calls of the program, or from the ALLOC of a free in progress.  The
\* collector is not reentrant.  It is assumed not to sweep a wrapper whose
\* free is in progress.
Sweep(h) ==
  /\ ~Idle => Head(stack).pc = "alloc"
  /\ h \in live \ held
  /\ \A f \in Frames : f.h # h /\ f.op # "sweep"
  /\ Enter(h, "sweep")
  /\ SameHandles

Top == Head(stack).h

\* mutant: the loop stops before the last child
OnlyChildLeft ==
  \/ ring.children[Top] = Null
  \/ ring.next[ring.children[Top]] = ring.children[Top]

ChildrenGone == ring.children[Top] = Null

\* while (base->children != NULL) oci8_base_free(base->children)
FreeChild ==
  /\ ~Idle /\ Head(stack).pc = "loop"
  /\ ~ChildrenGone
  /\ Enter(ring.children[Top], "free")
  /\ SameHandles

\* OCILobIsTemporary in oci8_lob_free
IsTempLob(h) == Kind[h] = "lob" /\ lobSvc[h] # Null /\ hp[h] \in temp

\* After the children: unlink, and enter data_type->free of a temporary LOB up
\* to its ALLOC.
UnlinkTempLob ==
  /\ ~Idle /\ Head(stack).pc = "loop" /\ Head(stack).op # "logoff"
  /\ ChildrenGone
  /\ IsTempLob(Top)
  /\ ring' = Unlinked(ring, Top)
  /\ stack' = [stack EXCEPT ![1].pc = "alloc"]
  /\ UNCHANGED <<live, held, typed, closed, hp, native, within, temp, strategy,
                 tempLobs, lobSvc, pending>>

\* mutant: the type of a freed wrapper is not cleared
ReturnTyped ==
  /\ live' = IF Head(stack).op = "sweep" THEN live \ {Top} ELSE live
  /\ closed' = IF Head(stack).op = "sweep" THEN closed \ {Top}
               ELSE closed \union {Top}
  /\ lobSvc' = [lobSvc EXCEPT ![Top] = Null]
  /\ stack' = Tail(stack)
  /\ UNCHANGED <<hp, typed>>

\* The return of the frame: xfree if the collector called, then pop.
Return ==
  /\ live' = IF Head(stack).op = "sweep" THEN live \ {Top} ELSE live
  /\ closed' = IF Head(stack).op = "sweep" THEN closed \ {Top}
               ELSE closed \union {Top}
  /\ hp' = [hp EXCEPT ![Top] = Null]
  /\ typed' = typed \ {Top}
  /\ lobSvc' = [lobSvc EXCEPT ![Top] = Null]
  /\ stack' = Tail(stack)

\* ... from the ALLOC on: the locator moves to the connection's temp_lobs.
MoveTempLob ==
  /\ ~Idle /\ Head(stack).pc = "alloc"
  /\ tempLobs' = [tempLobs EXCEPT ![lobSvc[Top]] = @ \union {hp[Top]}]
  /\ Return
  /\ UNCHANGED <<held, ring, native, within, temp, strategy, pending>>

\* mutants: statements are not released; the temporary LOBs are forgotten
FreedByNoStmt(h) ==
  CASE Kind[h] = "svcctx" ->
         tempLobs[h] \union (IF h \in strategy THEN {hp[h]} ELSE {})
    [] Kind[h] \in {"desc", "lob"} -> IF h \in typed THEN {hp[h]} ELSE {}
    [] OTHER -> {}

FreedByNoTempLobs(h) ==
  CASE Kind[h] = "svcctx" -> IF h \in strategy THEN {hp[h]} ELSE {}
    [] Kind[h] \in {"stmt", "desc", "lob"} -> IF h \in typed THEN {hp[h]} ELSE {}
    [] OTHER -> {}

\* What data_type->free and the OCIHandleFree after it release.  A session
\* wrapper does not own its native, binds go with their statement, parameters
\* with what they describe.
FreedBy(h) ==
  CASE Kind[h] = "svcctx" ->
         tempLobs[h] \union (IF h \in strategy THEN {hp[h]} ELSE {})
    [] Kind[h] \in {"stmt", "desc", "lob"} -> IF h \in typed THEN {hp[h]} ELSE {}
    [] OTHER -> {}

\* After the children: unlink, data_type->free, OCIHandleFree.
FreeSelf ==
  /\ ~Idle /\ Head(stack).pc = "loop" /\ Head(stack).op # "logoff"
  /\ ChildrenGone
  /\ ~IsTempLob(Top)
  /\ ring' = Unlinked(ring, Top)
  /\ Release(FreedBy(Top))
  /\ strategy' = strategy \ {Top}
  /\ tempLobs' = [tempLobs EXCEPT ![Top] = {}]
  /\ Return
  /\ UNCHANGED <<held, pending>>

\* The end of oci8_svcctx_logoff of a connection that was not logged on.
NothingToLogOff ==
  /\ ~Idle /\ Head(stack).op = "logoff"
  /\ ChildrenGone
  /\ Top \notin strategy
  /\ stack' = Tail(stack)
  /\ SameHandles

\* The end of oci8_svcctx_logoff: the children are gone.  The strategy takes the
\* handles out of the connection and the wrapper is closed, with type 0 and its
\* hp as it was, before oci8_call_without_gvl, which releases temporary LOBs F
\* of the list and then ends the session.  The call may raise instead of either:
\* another call is executing, an exception is pending, the release of a LOB
\* raises (that LOB is put back).  Nothing looks at the handles after that.
\* While a read by pieces is on its way no LOB is released before the session.
FinishLogoff(F, raises) ==
  /\ ~Idle /\ Head(stack).op = "logoff"
  /\ ChildrenGone
  /\ Top \in strategy
  /\ F \subseteq tempLobs[Top]
  /\ strategy' = strategy \ {Top}
  /\ typed' = typed \ {Top}
  /\ closed' = closed \union {Top}
  /\ Release(IF raises THEN F ELSE F \union {hp[Top]})
  /\ tempLobs' = [tempLobs EXCEPT ![Top] = @ \ F]
  /\ stack' = Tail(stack)
  /\ UNCHANGED <<live, held, ring, hp, lobSvc, pending>>

-------------------------------------------------------------------------------
FreeStep ==
  \/ FreeChild \/ UnlinkTempLob \/ MoveTempLob \/ FreeSelf \/ NothingToLogOff
  \/ \E F \in SUBSET Native, raises \in BOOLEAN : FinishLogoff(F, raises)

Next ==
  \/ \E s, e \in Handle : NewSvcctx(s, e)
  \/ \E s, e \in Handle, n \in Native : Connect(s, e, n)
  \/ \E h, p \in Handle, n \in Native, t \in BOOLEAN : NewChild(h, p, n, t)
  \/ \E h, s \in Handle, t \in BOOLEAN : NewBind(h, s, t)
  \/ \E h, s \in Handle, n \in Native : Bind(h, s, n)
  \/ \E h, s \in Handle, n \in Native : DescribeCall(h, s, n)
  \/ \E h \in Handle, ok \in BOOLEAN : DescribeReturn(h, ok)
  \/ \E s \in Handle, F \in SUBSET Native : SvcctxCall(s, F)
  \/ \E h \in Handle : Drop(h) \/ UserFree(h) \/ Logoff(h) \/ Sweep(h)
  \/ FreeStep

-------------------------------------------------------------------------------
(***************************************************************************)
(* Properties.                                                             *)
(***************************************************************************)

TypeOK ==
  /\ {live, held, typed, closed, strategy} \subseteq SUBSET Handle
  /\ ring \in Ring
  /\ hp \in [Handle -> Native \union {Null}]
  /\ {native, temp} \subseteq SUBSET Native
  /\ within \in [Native -> Native \union {Null}]
  /\ tempLobs \in [Handle -> SUBSET (Native \union {Null})]
  /\ lobSvc \in [Handle -> Pointer]
  /\ pending \in [Handle -> Pointer]
  /\ stack \in Seq(Frame)

\* The sibling rings are well formed whenever the program, the collector or a
\* free in progress looks at them (the loop in oci8_base_free and the splices
\* of oci8_link_to_parent and oci8_unlink_from_parent rely on it).
RingsWellFormed == RingOK(ring)

\* Nothing points to the memory of a struct that oci8_handle_cleanup has given
\* back with xfree: no object of the program, no parent or children member, no
\* LOB's svcctx, no describe in progress, no frame of oci8_base_free.
NoDanglingPointer ==
  /\ held \subseteq live
  /\ \A h \in live : {ring.parent[h], ring.children[h], ring.next[h], ring.prev[h]}
                       \subseteq live \union {Null}
  /\ \A h \in Handle : lobSvc[h] # Null => lobSvc[h] \in live
  /\ \A h \in Handle : pending[h] # Null => {h, pending[h]} \subseteq held
  /\ \A f \in Frames : f.h \in live

\* The native of an open wrapper has not been released, by itself or together
\* with the native it lives in: binds and parameters are closed before their
\* statement or describe handle is ("to preserve deallocation order", stmt.c).
OpenHandlesAreAllocated ==
  /\ \A h \in typed : hp[h] \in native
  /\ \A h \in strategy : hp[h] \in native
  /\ \A s \in live : tempLobs[s] \subseteq native

\* who will release native n: an open wrapper that owns its native, the list of
\* temporary LOBs of a connection, or the native it was made within
Owners(n) ==
  {h \in live : \/ /\ hp[h] = n
                    /\ \/ Kind[h] \in {"stmt", "desc", "lob"} /\ h \in typed
                       \/ h \in strategy
                 \/ n \in tempLobs[h]}

\* someone will release native n
Kept(n) == Owners(n) # {} \/ within[n] \in native

\* No native has two owners, which would release it twice, at any point of a
\* free that moves it.
NeverFreedTwice ==
  \A n \in native : /\ Cardinality(Owners(n)) <= 1
                    /\ within[n] # Null => Owners(n) = {}

\* What this step leaves to nobody if it is the end of a logoff: the handles that
\* the strategy has taken out of the connection.
LostByLogoff == IF ~Idle /\ Head(stack).op = "logoff" THEN {hp[Top]} ELSE {}

\* Every native that OCI has allocated will be released by someone, except the
\* service context, session and server handle of a connection whose logoff has
\* raised.  No other step loses a native, and that one loses nothing else: the
\* temporary LOBs that a raising release leaves are still listed, and go with
\* the wrapper.
OnlyLogoffLoses ==
  [][\A n \in native' : Kept(n)' \/ n \in LostByLogoff \/ (n \in native /\ ~Kept(n))]_vars

\* A free that has begun ends: the loop of oci8_base_free consumes the
\* children, also when the collector frees some of them from inside it.
FreesEnd == ~Idle ~> Idle

\* A C function that has begun runs on.
Spec == Init /\ [][Next]_vars /\ WF_vars(FreeStep)
===============================================================================
