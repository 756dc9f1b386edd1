------------------------------ MODULE ServiceCall ------------------------------
(***************************************************************************)
(* OCI calls on one connection: oci8_call_without_gvl and its callers.     *)
(*                                                                         *)
(* Ruby threads run one at a time, under the interpreter lock (GVL).  In   *)
(* non-blocking mode a call releases the lock while it is inside OCI, and  *)
(* executing_thread keeps other threads out of the connection meanwhile.   *)
(* Before the call proper, the temporary LOBs that the collector has put   *)
(* in temp_lobs are released, one protected call for each.                 *)
(*                                                                         *)
(* An action is a stretch of C code that runs without giving up the lock.  *)
(* The lock can change hands where Ruby checks interrupts: before the      *)
(* function of rb_thread_call_without_gvl starts, and after it returned    *)
(* (the pcs "...Check" and "...Back"); both points raise the exception     *)
(* that Thread#raise, Thread#kill or Timeout has left for the thread.      *)
(***************************************************************************)
CONSTANTS Thread, None,
          Lob,           \* locators of temporary LOBs
          Ops,           \* the calls each thread makes: "sql", "read"
          Modes,         \* values of non_blocking the program uses
          Interruptible  \* threads that Thread#raise and the like are used on

ASSUME NoneAssumption == None \notin Thread \union Lob
ASSUME OpsAssumption == Ops \in [Thread -> SUBSET {"sql", "read"}]
ASSUME ModesAssumption == Modes \subseteq BOOLEAN

VARIABLES
  pc,           \* where each thread is in oci8_call_without_gvl
  op,           \* the call each thread makes: one SQL, or LOB#read in pieces
  rv,           \* what OCI has returned to the thread
  lob,          \* the locator a thread has taken out of temp_lobs
  gvl,          \* the thread that is in C code with the lock, if any
  executing,    \* svcctx->executing_thread
  nonBlocking,  \* svcctx->non_blocking
  suppress,     \* svcctx->suppress_free_temp_lobs
  temp,         \* svcctx->temp_lobs
  collected,    \* locators whose wrapper the collector has freed
  answered,     \* locators whose release OCI has answered, with success or an
                \* error that nobody looks at
  freed,        \* locators whose descriptor is freed
  pending,      \* threads with an exception to raise at the next check
  cancelled,    \* threads whose OCI call has got an OCIBreak
  broke,        \* threads that OCI8#break has said it would cancel
  reading,      \* OCI expects the next piece of a read (OCI_NEED_DATA)
  spoilt        \* a read was left by an exception, a refused call has cleared
                \* the mark, or the mode was changed during a call

vars == <<pc, op, rv, lob, gvl, executing, nonBlocking, suppress, temp,
          collected, answered, freed, pending, cancelled, broke, reading, spoilt>>
lobVars == <<temp, collected, answered, freed>>
modeVars == <<nonBlocking, suppress>>
signals == <<pending, cancelled, broke>>
readVars == <<reading, spoilt>>

Places == {"idle", "loop", "lobCheck", "lobRun", "lobBlock", "lobBack",
           "mainCheck", "mainRun", "mainBlock", "mainBack"}

Init ==
  /\ pc = [t \in Thread |-> "idle"] /\ op = [t \in Thread |-> "sql"]
  /\ rv = [t \in Thread |-> "ok"] /\ lob = [t \in Thread |-> None]
  /\ gvl = None /\ executing = None
  /\ nonBlocking \in Modes /\ suppress = FALSE
  /\ temp = {} /\ collected = {} /\ answered = {} /\ freed = {}
  /\ pending = {} /\ cancelled = {} /\ broke = {}
  /\ reading = FALSE /\ spoilt = FALSE

\* t is inside an OCI function of this connection
InOCI(t) == pc[t] \in {"lobRun", "lobBlock", "mainRun", "mainBlock"}

\* neither the first check nor the one of protected_call sees another thread
GateOpenAlways == TRUE  \* mutant
GateOpen == executing = None

Mark(t) == executing' = t

\* t leaves oci8_call_without_gvl and its caller: it returns, or raises
Leave(t) ==
  /\ pc' = [pc EXCEPT ![t] = "idle"] /\ op' = [op EXCEPT ![t] = "sql"]
  /\ rv' = [rv EXCEPT ![t] = "ok"] /\ lob' = [lob EXCEPT ![t] = None]
  /\ gvl' = None
  /\ cancelled' = cancelled \ {t} /\ broke' = broke \ {t}
  /\ UNCHANGED <<modeVars, collected, answered, freed, reading>>

Goto(t, place) == pc' = [pc EXCEPT ![t] = place]

-------------------------------------------------------------------------------
(***************************************************************************)
(* The loop over temp_lobs, and the call itself.                           *)
(***************************************************************************)

\* a thread begins a call; while another one executes it is refused with a
\* RuntimeError, which changes nothing
Enter(t, o) ==
  /\ pc[t] = "idle" /\ gvl = None /\ GateOpen
  /\ Goto(t, "loop") /\ gvl' = t /\ op' = [op EXCEPT ![t] = o]
  /\ UNCHANGED <<rv, lob, executing, modeVars, lobVars, signals, readVars>>

\* take a LOB out of the list and call OCILobFreeTemporary, with the lock or
\* without it
TakeLobLate(t, l) == temp' = temp /\ lob' = [lob EXCEPT ![t] = l]  \* mutant
TakeLob(t, l) == temp' = temp \ {l} /\ lob' = [lob EXCEPT ![t] = l]

FreeLob(t, l) ==
  /\ pc[t] = "loop" /\ ~suppress /\ l \in temp
  /\ IF nonBlocking
     THEN GateOpen /\ Goto(t, "lobCheck") /\ gvl' = None /\ Mark(t)
     ELSE Goto(t, "lobBlock") /\ UNCHANGED <<gvl, executing>>
  /\ TakeLob(t, l)
  /\ UNCHANGED <<op, rv, modeVars, collected, answered, freed, signals, readVars>>

\* protected_call refuses; the LOB goes back into the list
FreeLobRefused(t, l) ==
  /\ pc[t] = "loop" /\ ~suppress /\ l \in temp /\ nonBlocking /\ ~GateOpen
  /\ Leave(t)
  /\ UNCHANGED <<executing, temp, pending, spoilt>>

LoopDone(t) == pc[t] = "loop" /\ (suppress \/ temp = {})

CallMain(t) ==
  /\ LoopDone(t)
  /\ IF nonBlocking
     THEN GateOpen /\ Goto(t, "mainCheck") /\ gvl' = None /\ Mark(t)
     ELSE Goto(t, "mainBlock") /\ UNCHANGED <<gvl, executing>>
  /\ UNCHANGED <<op, rv, lob, modeVars, lobVars, signals, readVars>>

\* protected_call refuses; executing_thread is cleared even so
CallMainRefused(t) ==
  /\ LoopDone(t) /\ nonBlocking /\ ~GateOpen
  /\ executing' = None
  /\ spoilt' = TRUE
  /\ Leave(t)
  /\ UNCHANGED <<temp, pending>>

\* rb_thread_call_without_gvl checks interrupts and releases the lock
Start(t) ==
  /\ gvl = None /\ t \notin pending
  /\ \/ pc[t] = "lobCheck" /\ Goto(t, "lobRun")
     \/ pc[t] = "mainCheck" /\ Goto(t, "mainRun")
  /\ UNCHANGED <<op, rv, lob, gvl, executing, modeVars, lobVars, signals, readVars>>

\* free_temp_lob: OCI has returned; executing_thread is cleared without the
\* lock.  A cancelled call fails with ORA-01013, unless it was done before the
\* break came; any other error (OCILobFreeTemporary did not free the LOB) is one
\* that protected_call does not raise.
LobReturns(t, r) ==
  /\ pc[t] = "lobRun" /\ (r = "cancel" => t \in cancelled)
  /\ executing' = None
  /\ answered' = IF r = "cancel" THEN answered ELSE answered \union {lob[t]}
  /\ rv' = [rv EXCEPT ![t] = r] /\ Goto(t, "lobBack")
  /\ UNCHANGED <<op, lob, gvl, modeVars, temp, collected, freed, signals, readVars>>

LobFailsPending(t) == t \in pending  \* mutant
LobFails(t) == t \in pending \/ rv[t] = "cancel"

\* protected_call has the lock again and returns: free the descriptor and go on,
\* also after an error
LobFreed(t) ==
  /\ pc[t] = "lobBack" /\ gvl = None /\ ~LobFails(t)
  /\ freed' = freed \union {lob[t]} /\ lob' = [lob EXCEPT ![t] = None]
  /\ rv' = [rv EXCEPT ![t] = "ok"]
  /\ Goto(t, "loop") /\ gvl' = t
  /\ UNCHANGED <<op, executing, modeVars, temp, collected, answered, signals,
                 readVars>>

\* the same in blocking mode, where the lock was never released and the result of
\* the call is not looked at
LobFreedBlocking(t) ==
  /\ pc[t] = "lobBlock"
  /\ answered' = answered \union {lob[t]}
  /\ freed' = freed \union {lob[t]} /\ lob' = [lob EXCEPT ![t] = None]
  /\ Goto(t, "loop")
  /\ UNCHANGED <<op, rv, gvl, executing, modeVars, temp, collected, signals, readVars>>

\* protected_call raises, before or after OCILobFreeTemporary: the LOB goes
\* back into the list
LobRaises(t) ==
  /\ gvl = None
  /\ \/ pc[t] = "lobCheck" /\ t \in pending
     \/ pc[t] = "lobBack" /\ LobFails(t)
  /\ temp' = temp \union {lob[t]}
  /\ pending' = pending \ {t}
  /\ Leave(t)
  /\ UNCHANGED <<executing, spoilt>>

\* OCI returns from the call proper, the lock is not held yet.  "ok" stands for
\* errors too, which the caller raises, but not for the one of a cancelled call.
MainReturns(t, r) ==
  /\ pc[t] = "mainRun"
  /\ r = "cancel" => t \in cancelled
  /\ r = "need" => op[t] = "read"
  /\ rv' = [rv EXCEPT ![t] = r] /\ Goto(t, "mainBack")
  /\ reading' = IF op[t] = "read" \/ r = "cancel" THEN r = "need" ELSE reading
  /\ UNCHANGED <<op, lob, gvl, executing, modeVars, lobVars, signals, spoilt>>

\* rb_protect has caught the exception, which goes on after this
ClearMark == executing' = None

\* protected_call raises, before or after the call
MainRaises(t) ==
  /\ gvl = None
  /\ \/ pc[t] = "mainCheck" /\ t \in pending
     \/ pc[t] = "mainBack" /\ (t \in pending \/ rv[t] = "cancel")
  /\ ClearMark
  /\ pending' = pending \ {t}
  /\ spoilt' = (spoilt \/ op[t] = "read")
  /\ Leave(t)
  /\ UNCHANGED temp

\* oci8_lob_read: whether temporary LOBs may be freed before the next call
SuppressNever(t, r) == FALSE  \* mutant
SuppressAfter(t, r) == IF op[t] = "read" THEN r = "need" ELSE suppress

\* back in the caller, which asks for the next piece if there is one
Resume(t, r) ==
  /\ suppress' = SuppressAfter(t, r)
  /\ IF r = "need"
     THEN Goto(t, "loop") /\ gvl' = t /\ UNCHANGED <<op, cancelled, broke>>
     ELSE /\ Goto(t, "idle") /\ gvl' = None /\ op' = [op EXCEPT ![t] = "sql"]
          /\ cancelled' = cancelled \ {t} /\ broke' = broke \ {t}
  /\ rv' = [rv EXCEPT ![t] = "ok"]
  /\ UNCHANGED <<lob, nonBlocking, lobVars, pending>>

MainDone(t) ==
  /\ pc[t] = "mainBack" /\ gvl = None /\ t \notin pending /\ rv[t] # "cancel"
  /\ executing' = None
  /\ Resume(t, rv[t])
  /\ UNCHANGED readVars

MainDoneBlocking(t, r) ==
  /\ pc[t] = "mainBlock" /\ r # "cancel"
  /\ r = "need" => op[t] = "read"
  /\ reading' = IF op[t] = "read" THEN r = "need" ELSE reading
  /\ Resume(t, r)
  /\ UNCHANGED <<executing, spoilt>>

-------------------------------------------------------------------------------
(***************************************************************************)
(* The rest of the program.  It runs when no thread is in C code with the  *)
(* lock.                                                                   *)
(***************************************************************************)

\* rb_thread_call_without_gvl has oci8_unblock_func registered for t
UbfSetAlways(t) == TRUE  \* mutant
UbfSet(t) == pc[t] \in {"lobRun", "mainRun"}

\* oci8_unblock_func: OCIBreak stops what runs on the connection, whoever runs it
UnblockNothing == cancelled' = cancelled  \* mutant
Unblock == cancelled' = cancelled \union {u \in Thread : InOCI(u)}

\* Ruby interrupts t, which has an OCI call to leave if it is in one
Wake(t) == IF UbfSet(t) THEN Unblock ELSE UNCHANGED cancelled

\* Thread#raise, Thread#kill, Timeout; outside a call the exception is raised
\* in other code
Interrupt(t) ==
  /\ t \in Interruptible /\ gvl = None /\ t \notin pending
  /\ pending' = IF pc[t] = "idle" THEN pending ELSE pending \union {t}
  /\ Wake(t)
  /\ UNCHANGED <<pc, op, rv, lob, gvl, executing, modeVars, lobVars, broke, readVars>>

\* OCI8#break returns true
Break(t) ==
  /\ gvl = None /\ executing = t
  /\ Wake(t)
  /\ broke' = IF pc[t] = "idle" THEN broke ELSE broke \union {t}
  /\ UNCHANGED <<pc, op, rv, lob, gvl, executing, modeVars, lobVars, pending, readVars>>

SetNonBlocking(mode) ==
  /\ gvl = None
  /\ nonBlocking' = mode
  /\ spoilt' = (spoilt \/ executing # None)
  /\ UNCHANGED <<pc, op, rv, lob, gvl, executing, suppress, lobVars, signals, reading>>

\* the collector frees the wrapper of a temporary LOB, between two calls or in
\* an allocation of the C code that is about to make the next one
Collect(l) ==
  /\ gvl # None => pc[gvl] = "loop"
  /\ l \notin collected
  /\ collected' = collected \union {l} /\ temp' = temp \union {l}
  /\ UNCHANGED <<pc, op, rv, lob, gvl, executing, modeVars, answered, freed,
                 signals, readVars>>

\* what t does in a call it has begun, whatever OCI does
Proceed(t) ==
  \/ \E l \in Lob : FreeLob(t, l) \/ FreeLobRefused(t, l)
  \/ CallMain(t) \/ CallMainRefused(t)
  \/ Start(t)
  \/ LobFreed(t) \/ LobFreedBlocking(t) \/ LobRaises(t)
  \/ MainRaises(t) \/ MainDone(t)

\* OCI answers t
Answer(t) ==
  \/ \E r \in {"ok", "error", "cancel"} : LobReturns(t, r)
  \/ \E r \in {"ok", "need", "cancel"} : MainReturns(t, r) \/ MainDoneBlocking(t, r)

Next ==
  \/ \E t \in Thread : \E o \in Ops[t] : Enter(t, o)
  \/ \E t \in Thread : Proceed(t) \/ Answer(t) \/ Interrupt(t) \/ Break(t)
  \/ \E mode \in Modes : SetNonBlocking(mode)
  \/ \E l \in Lob : Collect(l)

Spec == Init /\ [][Next]_vars

\* Threads get the lock in turn.  OCI answers a call that was cancelled; a call
\* that nobody cancels may take forever, unless it is made in blocking mode,
\* where it stops the whole program, and a LOB has an end.
FairSpec ==
  /\ Spec
  /\ \A t \in Thread : /\ SF_vars(Proceed(t))
                       /\ WF_vars(t \in cancelled /\ Answer(t))
                       /\ SF_vars(MainDoneBlocking(t, "ok"))

-------------------------------------------------------------------------------
(***************************************************************************)
(* Properties.                                                             *)
(***************************************************************************)

\* Every variable keeps its type.
TypeOK ==
  /\ pc \in [Thread -> Places] /\ op \in [Thread -> {"sql", "read"}]
  /\ rv \in [Thread -> {"ok", "error", "need", "cancel"}]
  /\ lob \in [Thread -> Lob \union {None}]
  /\ gvl \in Thread \union {None} /\ executing \in Thread \union {None}
  /\ nonBlocking \in BOOLEAN /\ suppress \in BOOLEAN
  /\ reading \in BOOLEAN /\ spoilt \in BOOLEAN
  /\ {temp, collected, answered, freed} \subseteq SUBSET Lob
  /\ pending \subseteq Thread /\ cancelled \subseteq Thread /\ broke \subseteq Thread

\* The check of executing_thread keeps two threads from being inside OCI with
\* the same connection.
OneCallAtATime == \A t, u \in Thread : InOCI(t) /\ InOCI(u) => t = u

\* executing_thread names a thread that is in a call: no exception, and no
\* refused call of another thread, leaves the connection marked or unmarked.
MarkIsTrue ==
  \A t \in Thread :
    /\ executing = t => pc[t] \notin {"idle", "loop"}
    /\ pc[t] \in {"lobCheck", "lobRun", "mainCheck", "mainRun", "mainBack"}
         => executing = t

NoLobYet == collected = {}

\* Until the collector frees the first temporary LOB, one thread at a time is in
\* OCI and executing_thread is exact, in either mode, when the mode changes
\* meanwhile, and with exceptions.
GateExact == NoLobYet => OneCallAtATime /\ MarkIsTrue

\* OCIBreak acts on the connection, not on a thread; still, until then only a
\* thread that was interrupted, or that OCI8#break was meant for, has its call
\* cancelled.
StopsOnlyWhoWasAsked == NoLobYet => cancelled \subseteq pending \union broke

\* The locator of a collected LOB is in the list, in the hands of one thread or
\* freed, whatever threads and exceptions come between the steps that move it.
LobOwnedOnce ==
  /\ collected = temp \union freed \union ({lob[t] : t \in Thread} \ {None})
  /\ temp \cap freed = {}
  /\ \A t \in Thread : lob[t] # None =>
       /\ lob[t] \notin temp \union freed
       /\ \A u \in Thread : lob[u] = lob[t] => u = t

\* The descriptor of a temporary LOB is freed only after OCI has answered the
\* release of the LOB itself.  A release that is cancelled, refused, or left by an
\* exception before it began is made again by the next call; one that the server
\* fails is not, and the LOB stays there until the session ends.
AnsweredFirst == freed \subseteq answered

\* While OCI expects the next piece of a LOB, no temporary LOB is released (issue
\* 20), whatever other threads do and although OCI8#break may cut the read; until
\* something has spoilt it.
ReadNotDisturbed ==
  reading /\ ~spoilt => \A t \in Thread : pc[t] \notin {"lobRun", "lobBlock"}

\* A thread that is interrupted in non-blocking mode leaves the call it is in,
\* even if OCI would not answer by itself.
InterruptEndsCall ==
  \A t \in Thread : t \in pending ~> t \notin pending /\ pc[t] = "idle"
===============================================================================
