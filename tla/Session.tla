-------------------------------- MODULE Session --------------------------------
(***************************************************************************)
(* From OCI8.new to the end of a session: the three handles of a           *)
(* connection, OCIServerAttach and OCISessionBegin with the state bits that *)
(* remember them, the logoff strategy that undoes them, in the caller's    *)
(* thread or in a native thread started by the garbage collector, and the  *)
(* connection pool that sessions may go through.                           *)
(*                                                                         *)
(* Steps between two releases of the interpreter lock are one action.      *)
(* ServiceCall has the details of a call; here a connection with a call    *)
(* inside OCI is in the set executing, or has a job of its own thread.     *)
(***************************************************************************)
EXTENDS Naturals, FiniteSets

CONSTANTS Conn,    \* the OCI8 objects
          Pool,    \* the OCI8::ConnectionPool objects
          NoPool   \* a connection that does not go through a pool

ASSUME NoPoolAssumption == NoPool \notin Pool

Handles == {"svc", "usr", "srv"}
Bits == {"attach", "begin", "cpool"}

VARIABLES
  pc,         \* how far OCI8#initialize has come
  held,       \* the connections the program can still reach
  closed,     \* base.closed
  strategy,   \* the connections whose logoff_strategy is set
  ptr,        \* which of base.hp, usrhp and srvhp the connection owns
  copies,     \* the open @session_handle and @server_handle wrappers
  state,      \* the bits of svcctx->state
  executing,  \* the connections with a call other than logoff inside OCI
  job,        \* complex_logoff_arg_t and how far complex_logoff_execute is
  poolOf,     \* @pool
  alloc,      \* OCI: the handles that are allocated
  attached,   \* OCI: connections attached to a server
  begun,      \* OCI: connections with a session
  work,       \* server: connections with uncommitted work
  committed,  \* server: connections whose work was committed unasked
  poolState,  \* the ConnectionPool wrapper
  poolHeld,   \* the pools the program can reach, other than through @pool
  poolNative, \* OCI: the pool itself
  poolJob,    \* how far cpool_free_thread is
  destroyed   \* the pools whose destroy the program has called

connVars == <<pc, held, closed, strategy, ptr, copies, state, executing, job, poolOf>>
ociVars == <<alloc, attached, begun, work, committed>>
poolVars == <<poolState, poolHeld, poolNative, poolJob, destroyed>>
vars == <<connVars, ociVars, poolVars>>

Steps == {"rollback", "end", "detach", "free"}
\* by: the thread that called logoff, or a native thread
Job == [at : Steps, ptr : SUBSET Handles, state : SUBSET Bits,
        by : {"caller", "native"}]
NoJob == [at |-> "none"]

Init ==
  /\ pc = [c \in Conn |-> "new"]
  /\ held = {} /\ closed = {} /\ strategy = {} /\ executing = {}
  /\ ptr = [c \in Conn |-> {}] /\ copies = [c \in Conn |-> {}]
  /\ state = [c \in Conn |-> {}]
  /\ job = [c \in Conn |-> NoJob]
  /\ poolOf = [c \in Conn |-> NoPool]
  /\ alloc = [c \in Conn |-> {}]
  /\ attached = {} /\ begun = {} /\ work = {} /\ committed = {}
  /\ poolState = [p \in Pool |-> "none"] /\ poolNative = [p \in Pool |-> "none"]
  /\ poolJob = [p \in Pool |-> "none"]
  /\ poolHeld = {} /\ destroyed = {}

Goto(c, step) == pc' = [pc EXCEPT ![c] = step]

-------------------------------------------------------------------------------
(***************************************************************************)
(* OCI8#initialize.                                                        *)
(***************************************************************************)

\* initialize up to the return of allocate_handles, which an error of
\* OCIHandleAlloc may end early, with the strategy already set.  pool_name
\* raises for a pool that was destroyed, before anything is allocated.
Allocated == {{}, {"svc"}, {"svc", "usr"}, Handles}

AllocateHandles(c, pool, H) ==
  /\ pc[c] = "new"
  /\ pool # NoPool => pool \in poolHeld /\ poolState[pool] = "open"
  /\ H \in Allocated
  /\ held' = held \union {c}
  /\ strategy' = strategy \union {c}
  /\ poolOf' = [poolOf EXCEPT ![c] = pool]
  /\ alloc' = [alloc EXCEPT ![c] = H]
  /\ ptr' = [ptr EXCEPT ![c] = H]
  /\ copies' = [copies EXCEPT ![c] = H \ {"svc"}]
  /\ Goto(c, IF H = Handles THEN "allocated" ELSE "failed")
  /\ UNCHANGED <<closed, state, executing, job, attached, begun, work, committed,
                 poolVars>>

\* an exception between the calls: setting the user name, a timeout property
InitializeRaises(c) ==
  /\ pc[c] \in {"allocated", "attached"}
  /\ Goto(c, "failed")
  /\ UNCHANGED <<held, closed, strategy, ptr, copies, state, executing, job, poolOf,
                 ociVars, poolVars>>

\* OCIServerAttach_nb and OCISessionBegin_nb release the interpreter lock.
CallStarts(c, from, to) ==
  /\ pc[c] = from
  /\ Goto(c, to)
  /\ executing' = executing \union {c}
  /\ UNCHANGED <<held, closed, strategy, ptr, copies, state, job, poolOf, ociVars,
                 poolVars>>

AttachStarts(c) == CallStarts(c, "allocated", "attaching")
BeginStarts(c) == CallStarts(c, "attached", "beginning")

\* OCI answers.  An exception that another thread has raised meanwhile
\* (Timeout) goes up from oci8_call_without_gvl whatever OCI has done, and so
\* does an error of OCIAttrSet: the state bit is set after both.
AttachReturns(c, done, raised) ==
  LET sound == done /\ ~raised
      bits == IF poolOf[c] = NoPool THEN {"attach"} ELSE {"attach", "cpool"}
  IN  /\ pc[c] = "attaching"
      /\ done /\ poolOf[c] # NoPool => poolNative[poolOf[c]] = "created"
      /\ attached' = IF done THEN attached \union {c} ELSE attached
      /\ state' = [state EXCEPT ![c] = IF sound THEN bits ELSE @]
      /\ Goto(c, IF sound THEN "attached" ELSE "failed")
      /\ executing' = executing \ {c}
      /\ UNCHANGED <<held, closed, strategy, ptr, copies, job, poolOf, alloc, begun,
                     work, committed, poolVars>>

\* The same, with OCIServerRelease after the bit is set.
BeginReturns(c, done, raised, versionFails) ==
  LET sound == done /\ ~raised
  IN  /\ pc[c] = "beginning"
      /\ done => c \in attached
      /\ begun' = IF done THEN begun \union {c} ELSE begun
      /\ state' = [state EXCEPT ![c] = IF sound THEN @ \union {"begin"} ELSE @]
      /\ Goto(c, IF sound /\ ~versionFails THEN "ready" ELSE "failed")
      /\ executing' = executing \ {c}
      /\ UNCHANGED <<held, closed, strategy, ptr, copies, job, poolOf, alloc,
                     attached, work, committed, poolVars>>

-------------------------------------------------------------------------------
(***************************************************************************)
(* A connection in use.                                                    *)
(***************************************************************************)

\* any *_nb call: another thread's call is refused
WorkStarts(c) ==
  /\ pc[c] = "ready" /\ c \in held \ closed /\ c \notin executing
  /\ executing' = executing \union {c}
  /\ UNCHANGED <<pc, held, closed, strategy, ptr, copies, state, job, poolOf, ociVars,
                 poolVars>>

\* ... which leaves uncommitted work, or a commit or rollback that was asked for
WorkReturns(c, more) ==
  /\ pc[c] = "ready" /\ c \in executing
  /\ executing' = executing \ {c}
  /\ work' = IF more THEN work \union {c} ELSE work \ {c}
  /\ UNCHANGED <<pc, held, closed, strategy, ptr, copies, state, job, poolOf, alloc,
                 attached, begun, committed, poolVars>>

\* The program loses the connection, or OCI8.new has raised.  A call in
\* progress keeps its receiver.
Drop(c) ==
  /\ c \in held /\ pc[c] \in {"ready", "failed"}
  /\ c \notin executing /\ job[c] = NoJob
  /\ held' = held \ {c}
  /\ UNCHANGED <<pc, closed, strategy, ptr, copies, state, executing, job, poolOf,
                 ociVars, poolVars>>

-------------------------------------------------------------------------------
(***************************************************************************)
(* The logoff strategy.                                                    *)
(***************************************************************************)

\* mutant: state is read after it was reset
PreparedLate(c, by) == [at |-> "rollback", ptr |-> ptr[c], state |-> {}, by |-> by]

\* what complex_logoff_prepare takes out of the connection
Prepared(c, by) ==
  [at |-> "rollback", ptr |-> ptr[c], state |-> state[c], by |-> by]

\* Mutant: usrhp and srvhp stay in the connection.
PrepareKeepsHandles(c) == state' = [state EXCEPT ![c] = {}] /\ UNCHANGED ptr

\* ... and leaves in it.  base.hp stays, but base.type becomes 0.
Prepare(c) ==
  /\ state' = [state EXCEPT ![c] = {}]
  /\ ptr' = [ptr EXCEPT ![c] = {}]

Close(c) ==
  /\ closed' = closed \union {c}
  /\ strategy' = strategy \ {c}
  /\ copies' = [copies EXCEPT ![c] = {}]

\* OCI8#logoff.  The call is refused when another is on the connection, and
\* not started when an exception is pending: the prepared data are then lost.
StartsAlways(c, raised) == ~raised  \* mutant: the mark of a call is not looked at
Starts(c, raised) == ~raised /\ c \notin executing

Logoff(c, raised) ==
  /\ pc[c] = "ready" /\ c \in held \ closed
  /\ Prepare(c)
  /\ Close(c)
  /\ job' = IF Starts(c, raised)
            THEN [job EXCEPT ![c] = Prepared(c, "caller")] ELSE job
  /\ UNCHANGED <<pc, held, executing, poolOf, ociVars, poolVars>>

Garbage == {c \in Conn : pc[c] \in {"ready", "failed"} /\ c \notin held}

\* oci8_svcctx_free, from the collector.  If the thread cannot be made an
\* exception is raised, with the strategy gone.
Sweep(c, threadMade) ==
  /\ c \in Garbage
  /\ Close(c)
  /\ Prepare(c)
  /\ Goto(c, "swept")
  /\ job' = IF c \in strategy /\ threadMade
            THEN [job EXCEPT ![c] = Prepared(c, "native")] ELSE job
  /\ UNCHANGED <<held, executing, poolOf, ociVars, poolVars>>

JobGoto(c, step) == job' = [job EXCEPT ![c].at = step]

\* From 12.1 on OCI says whether there is uncommitted work; before, and if it
\* cannot say, the rollback is made anyway.
JobRollback(c) ==
  /\ job[c].at = "rollback"
  /\ work' = work \ {c}
  /\ JobGoto(c, "end")
  /\ UNCHANGED <<pc, held, closed, strategy, ptr, copies, state, executing, poolOf,
                 alloc, attached, begun, committed, poolVars>>

\* OCI commits what is pending when a session ends in order
JobEnd(c) ==
  /\ job[c].at = "end"
  /\ IF "begin" \in job[c].state
     THEN /\ begun' = begun \ {c}
          /\ committed' = IF c \in work THEN committed \union {c} ELSE committed
          /\ work' = work \ {c}
     ELSE UNCHANGED <<begun, committed, work>>
  /\ JobGoto(c, "detach")
  /\ UNCHANGED <<pc, held, closed, strategy, ptr, copies, state, executing, poolOf,
                 alloc, attached, poolVars>>

\* A session that is still there when its server connection goes is ended by
\* the server, which rolls back.
JobDetach(c) ==
  /\ job[c].at = "detach"
  /\ IF "attach" \in job[c].state
     THEN attached' = attached \ {c} /\ begun' = begun \ {c} /\ work' = work \ {c}
     ELSE UNCHANGED <<attached, begun, work>>
  /\ JobGoto(c, "free")
  /\ UNCHANGED <<pc, held, closed, strategy, ptr, copies, state, executing, poolOf,
                 alloc, committed, poolVars>>

JobFree(c) ==
  /\ job[c].at = "free"
  /\ alloc' = [alloc EXCEPT ![c] = @ \ job[c].ptr]
  /\ job' = [job EXCEPT ![c] = NoJob]
  /\ UNCHANGED <<pc, held, closed, strategy, ptr, copies, state, executing, poolOf,
                 attached, begun, work, committed, poolVars>>

JobStep(c) == JobRollback(c) \/ JobEnd(c) \/ JobDetach(c) \/ JobFree(c)

-------------------------------------------------------------------------------
(***************************************************************************)
(* The connection pool.                                                    *)
(***************************************************************************)

\* ConnectionPool.new: OCIHandleAlloc or OCIConnectionPoolCreate may fail,
\* which leaves the object to the collector
CreatePool(p, native) ==
  /\ poolState[p] = "none"
  /\ poolNative' = [poolNative EXCEPT ![p] = native]
  /\ poolState' = [poolState EXCEPT ![p] = IF native = "none" THEN "empty" ELSE "open"]
  /\ poolHeld' = IF native = "created" THEN poolHeld \union {p} ELSE poolHeld
  /\ UNCHANGED <<connVars, ociVars, poolJob, destroyed>>

\* oci8_cpool_free: it hands the handle to a native thread and forgets it; if
\* no thread can be made, nobody has it any more
FreePool(p, threadMade, left) ==
  /\ poolJob' = IF poolState[p] = "open" /\ threadMade
                THEN [poolJob EXCEPT ![p] = "destroy"] ELSE poolJob
  /\ poolState' = [poolState EXCEPT ![p] = left]

DestroyPool(p, threadMade) ==
  /\ p \in poolHeld
  /\ FreePool(p, threadMade, "closed")
  /\ destroyed' = destroyed \union {p}
  /\ UNCHANGED <<connVars, ociVars, poolHeld, poolNative>>

DropPool(p) ==
  /\ p \in poolHeld
  /\ poolHeld' = poolHeld \ {p}
  /\ UNCHANGED <<connVars, ociVars, poolState, poolNative, poolJob, destroyed>>

PoolMarkedByNone(p) == {}  \* mutant: initialize does not keep @pool

\* the connections whose @pool keeps p alive
PoolMarkedBy(p) == {c \in held : poolOf[c] = p}

SweepPool(p, threadMade) ==
  /\ p \notin poolHeld /\ PoolMarkedBy(p) = {}
  /\ poolState[p] \in {"open", "empty", "closed"}
  /\ FreePool(p, threadMade, "swept")
  /\ UNCHANGED <<connVars, ociVars, poolHeld, poolNative, destroyed>>

\* cpool_free_thread
PoolJobStep(p) ==
  /\ poolJob[p] \in {"destroy", "free"}
  /\ poolNative' = [poolNative EXCEPT ![p] = IF poolJob[p] = "destroy" THEN "destroyed"
                                                                      ELSE "freed"]
  /\ poolJob' = [poolJob EXCEPT ![p] = IF @ = "destroy" THEN "free" ELSE "none"]
  /\ UNCHANGED <<connVars, ociVars, poolState, poolHeld, destroyed>>

-------------------------------------------------------------------------------
ConnStep(c) ==
  \/ \E pool \in Pool \union {NoPool}, H \in Allocated : AllocateHandles(c, pool, H)
  \/ InitializeRaises(c)
  \/ AttachStarts(c)
  \/ \E done, raised \in BOOLEAN : AttachReturns(c, done, raised)
  \/ BeginStarts(c)
  \/ \E done, raised, versionFails \in BOOLEAN :
       BeginReturns(c, done, raised, versionFails)
  \/ WorkStarts(c)
  \/ \E more \in BOOLEAN : WorkReturns(c, more)
  \/ Drop(c)
  \/ \E raised \in BOOLEAN : Logoff(c, raised)
  \/ \E threadMade \in BOOLEAN : Sweep(c, threadMade)
  \/ JobStep(c)

PoolStep(p) ==
  \/ \E native \in {"none", "handle", "created"} : CreatePool(p, native)
  \/ \E threadMade \in BOOLEAN : DestroyPool(p, threadMade) \/ SweepPool(p, threadMade)
  \/ DropPool(p)
  \/ PoolJobStep(p)

Next == (\E c \in Conn : ConnStep(c)) \/ (\E p \in Pool : PoolStep(p))

\* complex_logoff_execute and cpool_free_thread run to their end.
SessionFairness ==
  /\ \A c \in Conn : WF_vars(JobStep(c))
  /\ \A p \in Pool : WF_vars(PoolJobStep(p))

Spec == Init /\ [][Next]_vars /\ SessionFairness

-------------------------------------------------------------------------------
(***************************************************************************)
(* Properties.                                                             *)
(***************************************************************************)

\* The bits of state are those of a connection that has its strategy: what is
\* closed or lost has none.
TypeOK ==
  /\ pc \in [Conn -> {"new", "allocated", "attaching", "attached", "beginning",
                      "ready", "failed", "swept"}]
  /\ {held, closed, strategy, executing, attached, begun, work, committed}
       \subseteq SUBSET Conn
  /\ ptr \in [Conn -> SUBSET Handles] /\ alloc \in [Conn -> SUBSET Handles]
  /\ copies \in [Conn -> SUBSET {"usr", "srv"}]
  /\ state \in [Conn -> SUBSET Bits]
  /\ \A c \in Conn \ strategy : state[c] = {}
  /\ job \in [Conn -> Job \union {NoJob}]
  /\ poolOf \in [Conn -> Pool \union {NoPool}]
  /\ poolState \in [Pool -> {"none", "empty", "open", "closed", "swept"}]
  /\ poolNative \in [Pool -> {"none", "handle", "created", "destroyed", "freed"}]
  /\ poolJob \in [Pool -> {"none", "destroy", "free"}]
  /\ {poolHeld, destroyed} \subseteq SUBSET Pool

\* "The uncommitted transaction is rollbacked" (OCI8#logoff), also when the
\* collector logs off and whatever call of another thread is on its way: no
\* work that nobody committed is pending when OCI ends the session.
WorkRolledBack == committed = {}

\* Nobody has a pointer to a handle that was freed: not the connection, not
\* @session_handle and @server_handle, not a logoff on its way, not a call.
HandlesAllocated ==
  \A c \in Conn :
    /\ ptr[c] \union copies[c] \subseteq alloc[c]
    /\ job[c] # NoJob => job[c].ptr \subseteq alloc[c]
    /\ c \in executing => alloc[c] = Handles

\* @pool is kept "to prevent GC from freeing the connection pool" (oci8.rb): a
\* pool that the program has not destroyed itself outlives the connections
\* through it that the program can use.
PoolOutlivesUsers ==
  \A p \in Pool :
    poolNative[p] \in {"destroyed", "freed"} /\ p \notin destroyed
      => \A c \in held : poolOf[c] # p

\* The server connection of every session is remembered by a state bit, so
\* that logoff or the collector will detach it ("Connections are released by
\* GC without explicit logoff", NEWS).
ServerConnectionRemembered ==
  \A c \in attached \ executing :
    \/ "attach" \in state[c]
    \/ job[c] # NoJob /\ "attach" \in job[c].state

\* A logoff that has begun takes the session and its server connection away,
\* in either thread, also when session_begin had failed after its call.
LogoffEndsSession ==
  \A c \in Conn : (job[c] # NoJob /\ c \in begun) ~> c \notin begun \union attached
===============================================================================
