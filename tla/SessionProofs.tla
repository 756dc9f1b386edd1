----------------------------- MODULE SessionProofs -----------------------------
(***************************************************************************)
(* Proofs about Session, for any number of connections and pools: no work  *)
(* is committed by a logoff, and no handle is used after it was freed.     *)
(***************************************************************************)
EXTENDS Session, TLAPS

Early == {"allocated", "attaching", "attached", "beginning"}

\* a connection that is not closed: what the steps of initialize rely on
OpenOK ==
  \A c \in Conn :
    /\ pc[c] \in Early => c \in strategy /\ c \in held
    /\ pc[c] \in Early \union {"ready"} /\ c \notin closed => alloc[c] = Handles
    /\ pc[c] = "new" => c \notin closed
    /\ ptr[c] \union copies[c] \subseteq alloc[c]

\* a connection that is closed has nothing to free a second time
ClosedOK ==
  \A c \in closed : /\ pc[c] \in {"ready", "swept"}
                    /\ c \notin strategy /\ ptr[c] = {} /\ copies[c] = {}

\* a call keeps its connection and its handles
CallOK ==
  \A c \in executing : /\ c \in held /\ pc[c] \in {"attaching", "beginning", "ready"}
                       /\ alloc[c] = Handles /\ job[c] = NoJob

\* a logoff on its way is alone on a closed connection, and after its first
\* step there is no uncommitted work
JobOK ==
  \A c \in Conn :
    job[c] # NoJob => /\ c \in closed
                      /\ job[c].ptr \subseteq alloc[c]
                      /\ job[c].at # "rollback" => c \notin work

SessionInv == TypeOK /\ OpenOK /\ ClosedOK /\ CallOK /\ JobOK /\ WorkRolledBack

-------------------------------------------------------------------------------
(***************************************************************************)
(* Types.                                                                  *)
(***************************************************************************)

\* The initial state of the sessions has the right types.
LEMMA SessionTypesInit == Init => TypeOK
BY DEF Init, TypeOK

\* Every step of the sessions keeps the types.
LEMMA SessionTypesStep == TypeOK /\ OpenOK /\ [Next]_vars => TypeOK'
<1> SUFFICES ASSUME TypeOK, OpenOK, [Next]_vars PROVE TypeOK'
  OBVIOUS
<1> USE NoPoolAssumption DEF TypeOK, Goto, Handles, Bits
<1>1. ASSUME NEW c \in Conn, NEW pool \in Pool \union {NoPool}, NEW H \in Allocated,
             AllocateHandles(c, pool, H)
      PROVE  TypeOK'
  BY <1>1 DEF AllocateHandles, Allocated, poolVars
<1>2. ASSUME NEW c \in Conn, InitializeRaises(c) PROVE TypeOK'
  BY <1>2 DEF InitializeRaises, ociVars, poolVars
<1>3. ASSUME NEW c \in Conn, AttachStarts(c) \/ BeginStarts(c) PROVE TypeOK'
  BY <1>3 DEF AttachStarts, BeginStarts, CallStarts, ociVars, poolVars
<1>4. ASSUME NEW c \in Conn, NEW done \in BOOLEAN, NEW raised \in BOOLEAN,
             AttachReturns(c, done, raised)
      PROVE  TypeOK'
  BY <1>4 DEF AttachReturns, OpenOK, Early, poolVars
<1>5. ASSUME NEW c \in Conn, NEW done \in BOOLEAN, NEW raised \in BOOLEAN,
             NEW versionFails \in BOOLEAN, BeginReturns(c, done, raised, versionFails)
      PROVE  TypeOK'
  BY <1>5 DEF BeginReturns, OpenOK, Early, poolVars
<1>6. ASSUME NEW c \in Conn, WorkStarts(c) PROVE TypeOK'
  BY <1>6 DEF WorkStarts, ociVars, poolVars
<1>7. ASSUME NEW c \in Conn, NEW more \in BOOLEAN, WorkReturns(c, more) PROVE TypeOK'
  BY <1>7 DEF WorkReturns, poolVars
<1>8. ASSUME NEW c \in Conn, Drop(c) PROVE TypeOK'
  BY <1>8 DEF Drop, ociVars, poolVars
<1>9. ASSUME NEW c \in Conn, NEW raised \in BOOLEAN, Logoff(c, raised) PROVE TypeOK'
  <2>1. Prepared(c, "caller") \in Job
    BY DEF Prepared, Job, Steps
  <2> QED BY <1>9, <2>1 DEF Logoff, Prepare, Close, ociVars, poolVars
<1>10. ASSUME NEW c \in Conn, NEW threadMade \in BOOLEAN, Sweep(c, threadMade)
       PROVE  TypeOK'
  <2>1. Prepared(c, "native") \in Job
    BY DEF Prepared, Job, Steps
  <2> QED BY <1>10, <2>1 DEF Sweep, Prepare, Close, ociVars, poolVars
<1>11. ASSUME NEW c \in Conn, JobStep(c) PROVE TypeOK'
  <2>1. job' \in [Conn -> Job \union {NoJob}]
    <3>1. job[c] \in Job
      BY <1>11 DEF JobStep, JobRollback, JobEnd, JobDetach, JobFree, NoJob
    <3>2. \A step \in Steps : [job[c] EXCEPT !.at = step] \in Job
      BY <3>1 DEF Job
    <3> QED BY <1>11, <3>2
        DEF JobStep, JobRollback, JobEnd, JobDetach, JobFree, JobGoto, Steps
  <2> QED BY <1>11, <2>1
      DEF JobStep, JobRollback, JobEnd, JobDetach, JobFree, poolVars
<1>12. ASSUME NEW p \in Pool, PoolStep(p) PROVE TypeOK'
  BY <1>12 DEF PoolStep, CreatePool, DestroyPool, DropPool, SweepPool, FreePool,
               PoolJobStep, connVars, ociVars
<1>13. ASSUME UNCHANGED vars PROVE TypeOK'
  BY <1>13 DEF vars, connVars, ociVars, poolVars
<1> QED
  BY <1>1, <1>2, <1>3, <1>4, <1>5, <1>6, <1>7, <1>8, <1>9, <1>10, <1>11, <1>12, <1>13
  DEF Next, ConnStep

-------------------------------------------------------------------------------
(***************************************************************************)
(* The invariant.                                                          *)
(***************************************************************************)

Inv == OpenOK /\ ClosedOK /\ CallOK /\ JobOK /\ WorkRolledBack

\* Nothing is allocated in the beginning.
LEMMA SessionInvInit == Init => SessionInv
<1> SUFFICES ASSUME Init PROVE SessionInv
  OBVIOUS
<1>1. TypeOK BY SessionTypesInit
<1>2. OpenOK /\ ClosedOK /\ CallOK /\ JobOK /\ WorkRolledBack
  BY DEF Init, OpenOK, ClosedOK, CallOK, JobOK, WorkRolledBack, Early
<1> QED BY <1>1, <1>2 DEF SessionInv

\* Every step of the sessions keeps the invariant.
LEMMA SessionInvStep == SessionInv /\ [Next]_vars => SessionInv'
<1> SUFFICES ASSUME SessionInv, [Next]_vars PROVE SessionInv'
  OBVIOUS
<1>0. TypeOK /\ TypeOK'
  BY SessionTypesStep DEF SessionInv
<1> SUFFICES Inv'
  BY <1>0 DEF SessionInv, Inv
<1>a. Inv
  BY DEF SessionInv, Inv
<1> USE <1>0, <1>a DEF Goto, Early, Inv
<1>1. ASSUME NEW c \in Conn, NEW pool \in Pool \union {NoPool}, NEW H \in Allocated,
             AllocateHandles(c, pool, H)
      PROVE  Inv'
  BY <1>1 DEF AllocateHandles, TypeOK, OpenOK, ClosedOK, CallOK, JobOK, WorkRolledBack
<1>2. ASSUME NEW c \in Conn, InitializeRaises(c) PROVE Inv'
  BY <1>2 DEF InitializeRaises, ociVars, TypeOK, OpenOK, ClosedOK, CallOK, JobOK,
              WorkRolledBack
<1>3. ASSUME NEW c \in Conn, AttachStarts(c) \/ BeginStarts(c) PROVE Inv'
  <2> USE DEF ociVars, TypeOK
  <2>1. PICK from \in {"allocated", "attached"}, to \in {"attaching", "beginning"} :
          CallStarts(c, from, to)
    BY <1>3 DEF AttachStarts, BeginStarts
  <2>2. /\ c \in held /\ c \notin closed
        /\ job[c] = NoJob /\ alloc[c] = Handles
    BY <2>1 DEF CallStarts, OpenOK, ClosedOK, JobOK
  <2>3. OpenOK' /\ ClosedOK' /\ JobOK' /\ WorkRolledBack'
    BY <2>1, <2>2 DEF CallStarts, OpenOK, ClosedOK, JobOK, WorkRolledBack
  <2>4. CallOK'
    BY <2>1, <2>2 DEF CallStarts, CallOK
  <2> QED BY <2>3, <2>4
<1>4. ASSUME NEW c \in Conn, NEW done \in BOOLEAN, NEW raised \in BOOLEAN,
             AttachReturns(c, done, raised)
      PROVE  Inv'
  BY <1>4 DEF AttachReturns, TypeOK, OpenOK, ClosedOK, CallOK, JobOK, WorkRolledBack
<1>5. ASSUME NEW c \in Conn, NEW done \in BOOLEAN, NEW raised \in BOOLEAN,
             NEW versionFails \in BOOLEAN, BeginReturns(c, done, raised, versionFails)
      PROVE  Inv'
  BY <1>5 DEF BeginReturns, TypeOK, OpenOK, ClosedOK, CallOK, JobOK, WorkRolledBack
<1>6. ASSUME NEW c \in Conn, WorkStarts(c) PROVE Inv'
  BY <1>6 DEF WorkStarts, ociVars, TypeOK, OpenOK, ClosedOK, CallOK, JobOK,
              WorkRolledBack
<1>7. ASSUME NEW c \in Conn, NEW more \in BOOLEAN, WorkReturns(c, more) PROVE Inv'
  BY <1>7 DEF WorkReturns, TypeOK, OpenOK, ClosedOK, CallOK, JobOK, WorkRolledBack
<1>8. ASSUME NEW c \in Conn, Drop(c) PROVE Inv'
  BY <1>8 DEF Drop, ociVars, TypeOK, OpenOK, ClosedOK, CallOK, JobOK, WorkRolledBack
<1>9. ASSUME NEW c \in Conn, NEW raised \in BOOLEAN, Logoff(c, raised) PROVE Inv'
  <2> USE <1>9 DEF Logoff, Prepare, Close, ociVars
  <2>1. OpenOK'
    BY DEF TypeOK, OpenOK
  <2>2. ClosedOK'
    BY DEF TypeOK, ClosedOK
  <2>3. CallOK'
    BY DEF TypeOK, CallOK, Starts
  <2>4. JobOK'
    BY DEF TypeOK, JobOK, OpenOK, Prepared
  <2>5. WorkRolledBack'
    BY DEF WorkRolledBack
  <2> QED BY <2>1, <2>2, <2>3, <2>4, <2>5
<1>10. ASSUME NEW c \in Conn, NEW threadMade \in BOOLEAN, Sweep(c, threadMade)
       PROVE  Inv'
  <2> USE <1>10 DEF Sweep, Garbage, Prepare, Close, ociVars
  <2>1. OpenOK'
    BY DEF TypeOK, OpenOK
  <2>2. ClosedOK'
    BY DEF TypeOK, ClosedOK
  <2>3. CallOK'
    BY DEF TypeOK, CallOK
  <2>4. JobOK'
    BY DEF TypeOK, JobOK, OpenOK, Prepared
  <2>5. WorkRolledBack'
    BY DEF WorkRolledBack
  <2> QED BY <2>1, <2>2, <2>3, <2>4, <2>5
<1>11. ASSUME NEW c \in Conn, JobStep(c) PROVE Inv'
  <2> USE DEF TypeOK
  <2>0. job[c] \in Job /\ job[c] # NoJob /\ c \in closed /\ c \notin executing
    BY <1>11 DEF JobStep, JobRollback, JobEnd, JobDetach, JobFree, NoJob, JobOK, CallOK
  <2>1. CASE JobRollback(c)
    <3>1. OpenOK' /\ ClosedOK' /\ WorkRolledBack'
      BY <2>1 DEF JobRollback, OpenOK, ClosedOK, WorkRolledBack
    <3>2. CallOK' /\ JobOK'
      BY <2>0, <2>1 DEF JobRollback, JobGoto, CallOK, JobOK, Job
    <3> QED BY <3>1, <3>2
  <2>2. CASE JobEnd(c)
    <3>1. c \notin work
      BY <2>0, <2>2 DEF JobEnd, JobOK
    <3>2. OpenOK' /\ ClosedOK' /\ WorkRolledBack'
      BY <2>2, <3>1 DEF JobEnd, OpenOK, ClosedOK, WorkRolledBack
    <3>3. CallOK' /\ JobOK'
      BY <2>0, <2>2, <3>1 DEF JobEnd, JobGoto, CallOK, JobOK, Job
    <3> QED BY <3>2, <3>3
  <2>3. CASE JobDetach(c)
    <3>1. OpenOK' /\ ClosedOK' /\ WorkRolledBack'
      BY <2>3 DEF JobDetach, OpenOK, ClosedOK, WorkRolledBack
    <3>2. CallOK' /\ JobOK'
      BY <2>0, <2>3 DEF JobDetach, JobGoto, CallOK, JobOK, Job
    <3> QED BY <3>1, <3>2
  <2>4. CASE JobFree(c)
    <3>1. OpenOK' /\ ClosedOK' /\ WorkRolledBack'
      BY <2>0, <2>4 DEF JobFree, OpenOK, ClosedOK, WorkRolledBack
    <3>2. CallOK' /\ JobOK'
      BY <2>0, <2>4 DEF JobFree, CallOK, JobOK, Job
    <3> QED BY <3>1, <3>2
  <2> QED BY <1>11, <2>1, <2>2, <2>3, <2>4 DEF JobStep
<1>12. ASSUME NEW p \in Pool, PoolStep(p) PROVE Inv'
  <2>1. UNCHANGED <<connVars, ociVars>>
    BY <1>12 DEF PoolStep, CreatePool, DestroyPool, DropPool, SweepPool, PoolJobStep
  <2> QED BY <2>1 DEF connVars, ociVars, OpenOK, ClosedOK, CallOK, JobOK, WorkRolledBack
<1>13. ASSUME UNCHANGED vars PROVE Inv'
  BY <1>13 DEF vars, connVars, ociVars, OpenOK, ClosedOK, CallOK, JobOK, WorkRolledBack
<1> QED
  BY <1>1, <1>2, <1>3, <1>4, <1>5, <1>6, <1>7, <1>8, <1>9, <1>10, <1>11, <1>12, <1>13
  DEF Next, ConnStep

-------------------------------------------------------------------------------
\* every reachable state satisfies the invariant
THEOREM SessionInvariant == Spec => []SessionInv
BY SessionInvInit, SessionInvStep, PTL DEF Spec

\* The bits, pointers and places of every connection keep their types, and
\* what is closed has no state bits.
THEOREM SessionTypes == Spec => []TypeOK
<1>1. SessionInv => TypeOK
  BY DEF SessionInv
<1> QED BY <1>1, SessionInvariant, PTL

\* OCI8#logoff and the collector commit nothing: complex_logoff_execute is
\* alone on the connection from its rollback to the end of the session.
THEOREM NothingCommitted == Spec => []WorkRolledBack
<1>1. SessionInv => WorkRolledBack
  BY DEF SessionInv
<1> QED BY <1>1, SessionInvariant, PTL

\* Neither the connection, nor the wrappers of its handles, nor a logoff or a
\* call on its way has a handle that OCIHandleFree was called for.
THEOREM HandlesStayAllocated == Spec => []HandlesAllocated
<1>1. SessionInv => HandlesAllocated
  BY DEF SessionInv, OpenOK, CallOK, JobOK, HandlesAllocated
<1> QED BY <1>1, SessionInvariant, PTL

-------------------------------------------------------------------------------
(***************************************************************************)
(* Pools.                                                                  *)
(***************************************************************************)

\* a pool that goes without the program's destroy was swept, and what is swept
\* is reachable from nowhere
PoolOK ==
  \A p \in Pool :
    /\ poolJob[p] # "none" \/ poolNative[p] \in {"destroyed", "freed"}
         => p \in destroyed \/ poolState[p] = "swept"
    /\ poolState[p] = "none" => p \notin poolHeld /\ poolJob[p] = "none"
    /\ poolState[p] = "swept" => p \notin poolHeld /\ PoolMarkedBy(p) = {}

\* Every step keeps a pool alive that a connection uses.
LEMMA PoolInvStep == SessionInv /\ PoolOK /\ [Next]_vars => PoolOK'
<1> SUFFICES ASSUME SessionInv, PoolOK, [Next]_vars PROVE PoolOK'
  OBVIOUS
<1>0. TypeOK
  BY DEF SessionInv
<1> USE DEF PoolMarkedBy
<1>1. ASSUME NEW c \in Conn, ConnStep(c) PROVE PoolOK'
  <2>1. /\ UNCHANGED poolVars
        /\ \/ held' \subseteq held /\ UNCHANGED poolOf
           \/ \E pool \in Pool \union {NoPool}, H \in Allocated :
                AllocateHandles(c, pool, H)
    BY <1>1 DEF ConnStep, InitializeRaises, AttachStarts, BeginStarts, CallStarts,
                AttachReturns, BeginReturns, WorkStarts, WorkReturns, Drop, Logoff,
                Sweep, JobStep, JobRollback, JobEnd, JobDetach, JobFree,
                AllocateHandles
  <2>2. CASE held' \subseteq held /\ UNCHANGED poolOf
    BY <2>1, <2>2 DEF PoolOK, poolVars
  <2>3. ASSUME NEW pool \in Pool \union {NoPool}, NEW H \in Allocated,
               AllocateHandles(c, pool, H)
        PROVE  PoolOK'
    <3>1. \A p \in Pool : poolState[p] = "swept" => PoolMarkedBy(p)' = {}
      BY <1>0, <2>3, NoPoolAssumption DEF AllocateHandles, PoolOK, TypeOK
    <3> QED BY <2>1, <3>1 DEF PoolOK, poolVars
  <2> QED BY <2>1, <2>2, <2>3
<1>2. ASSUME NEW p \in Pool, PoolStep(p) PROVE PoolOK'
  <2>1. UNCHANGED <<held, poolOf>>
    BY <1>2 DEF PoolStep, CreatePool, DestroyPool, DropPool, SweepPool, PoolJobStep,
                connVars
  <2>2. ASSUME NEW native \in {"none", "handle", "created"}, CreatePool(p, native)
        PROVE  PoolOK'
    BY <1>0, <2>1, <2>2 DEF CreatePool, PoolOK, TypeOK
  <2>3. ASSUME NEW made \in BOOLEAN, DestroyPool(p, made) PROVE PoolOK'
    BY <1>0, <2>1, <2>3 DEF DestroyPool, FreePool, PoolOK, TypeOK
  <2>4. CASE DropPool(p)
    BY <1>0, <2>1, <2>4 DEF DropPool, PoolOK, TypeOK
  <2>5. ASSUME NEW made \in BOOLEAN, SweepPool(p, made) PROVE PoolOK'
    BY <1>0, <2>1, <2>5 DEF SweepPool, FreePool, PoolOK, TypeOK
  <2>6. CASE PoolJobStep(p)
    BY <1>0, <2>1, <2>6 DEF PoolJobStep, PoolOK, TypeOK
  <2> QED BY <1>2, <2>2, <2>3, <2>4, <2>5, <2>6 DEF PoolStep
<1>3. ASSUME UNCHANGED vars PROVE PoolOK'
  BY <1>3 DEF vars, connVars, poolVars, PoolOK
<1> QED BY <1>1, <1>2, <1>3 DEF Next

\* A pool that the program has not destroyed outlives every connection through
\* it that the program can use: @pool keeps it marked.
THEOREM PoolsOutliveUsers == Spec => []PoolOutlivesUsers
<1>1. Init => PoolOK
  BY DEF Init, PoolOK, PoolMarkedBy
<1>2. PoolOK => PoolOutlivesUsers
  BY DEF PoolOK, PoolOutlivesUsers, PoolMarkedBy
<1> QED BY <1>1, <1>2, PoolInvStep, SessionInvariant, PTL DEF Spec
===============================================================================
