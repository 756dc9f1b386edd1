------------------------------ MODULE SocketHooks ------------------------------
(***************************************************************************)
(* The functions of the C library that are replaced for Oracle's client    *)
(* (hook_funcs.c): reads that can be cancelled when the process exits, and *)
(* the time of TCP keepalive.                                              *)
(*                                                                         *)
(* A reader is a thread inside OCI, reading from a socket of its own.  The *)
(* entries, which lie on the stacks of the readers, and sockets_in_use     *)
(* form a ring that is changed and walked with the lock held.              *)
(***************************************************************************)
EXTENDS Integers, FiniteSets

CONSTANTS
  Reader,         \* threads that OCI reads from sockets in
  SocketsInUse,           \* sockets_in_use
  NotWalking

ASSUME SocketAssumption == SocketsInUse \notin Reader /\ NotWalking \notin Reader \union {SocketsInUse}

Entry == Reader \union {SocketsInUse}

\* the functions array, in its order
Hooks == {"read", "setsockopt"}

VARIABLES
  hooked,         \* functions that are replaced in Oracle's client
  cancelRead,     \* oci8_cancel_read_at_exit
  next, prev,     \* of the entries
  at,             \* of each reader
  enabled,        \* enable_cancel of hook_read, on each reader's stack
  shut,           \* readers whose socket was shut down
  exited,         \* at_exit_func has run
  walk            \* entry of oci8_shutdown_sockets, which holds the lock

ringVars == <<next, prev>>
socketVars == <<hooked, cancelRead, ringVars, at, enabled, shut, exited, walk>>

Stages == {"out", "hook", "plain", "listed", "returned"}

\* readers whose entry is in the ring
Registered == {r \in Reader : enabled[r] /\ at[r] \in {"listed", "returned"}}

SocketInit ==
  /\ hooked = {} /\ cancelRead = FALSE
  /\ next = [e \in Entry |-> e] /\ prev = [e \in Entry |-> e]
  /\ at = [r \in Reader |-> "out"]
  /\ enabled = [r \in Reader |-> FALSE]
  /\ shut = {} /\ exited = FALSE /\ walk = NotWalking

-----------------------------------------------------------------------------
\* OCI calls read.  The flag is looked at once, before the read.
EnterRead(r) ==
  /\ at[r] = "out"
  /\ IF "read" \in hooked
     THEN /\ at' = [at EXCEPT ![r] = "hook"]
          /\ enabled' = [enabled EXCEPT ![r] = cancelRead]
     ELSE /\ at' = [at EXCEPT ![r] = "plain"]
          /\ enabled' = [enabled EXCEPT ![r] = FALSE]
  /\ UNCHANGED <<hooked, cancelRead, ringVars, shut, exited, walk>>

\* The ring with r behind the head
Inserted(r) ==
  /\ next' = [next EXCEPT ![r] = next[SocketsInUse], ![SocketsInUse] = r]
  /\ prev' = [prev EXCEPT ![next[SocketsInUse]] = r, ![r] = SocketsInUse]

\* socket_entry_set
EntrySet(r) ==
  /\ at[r] = "hook"
  /\ at' = [at EXCEPT ![r] = "listed"]
  /\ IF enabled[r] THEN walk = NotWalking /\ Inserted(r) ELSE UNCHANGED ringVars
  /\ UNCHANGED <<hooked, cancelRead, enabled, shut, exited, walk>>

\* Data arrive, or the socket is shut down.
ReadEnds(r) ==
  /\ at[r] \in {"plain", "listed"}
  /\ at' = [at EXCEPT ![r] = IF at[r] = "plain" THEN "out" ELSE "returned"]
  /\ UNCHANGED <<hooked, cancelRead, ringVars, enabled, shut, exited, walk>>

\* The ring without r.  Its stack frame ends: its own members, which nobody
\* reads any more, are as before the read.
Removed(r) ==
  /\ prev' = [prev EXCEPT ![next[r]] = prev[r], ![r] = r]
  /\ next' = [next EXCEPT ![prev[r]] = next[r], ![r] = r]

\* Mutant: the entry is taken out if the flag is on now.
EntryClearByFlag(r) ==
  /\ at[r] = "returned"
  /\ at' = [at EXCEPT ![r] = "out"]
  /\ enabled' = [enabled EXCEPT ![r] = enabled[r] /\ ~cancelRead]
  /\ IF enabled[r] /\ cancelRead THEN walk = NotWalking /\ Removed(r) ELSE UNCHANGED ringVars
  /\ UNCHANGED <<hooked, cancelRead, shut, exited, walk>>

\* Mutant: the lock is not taken.
EntryClearUnlocked(r) ==
  /\ at[r] = "returned"
  /\ at' = [at EXCEPT ![r] = "out"]
  /\ IF enabled[r] THEN Removed(r) ELSE UNCHANGED ringVars
  /\ UNCHANGED <<hooked, cancelRead, enabled, shut, exited, walk>>

\* socket_entry_clear
EntryClear(r) ==
  /\ at[r] = "returned"
  /\ at' = [at EXCEPT ![r] = "out"]
  /\ IF enabled[r] THEN walk = NotWalking /\ Removed(r) ELSE UNCHANGED ringVars
  /\ UNCHANGED <<hooked, cancelRead, enabled, shut, exited, walk>>

-----------------------------------------------------------------------------
\* at_exit_func and oci8_shutdown_sockets
AtExit ==
  /\ ~exited /\ walk = NotWalking
  /\ exited' = TRUE /\ walk' = next[SocketsInUse]
  /\ UNCHANGED <<hooked, cancelRead, ringVars, at, enabled, shut>>

ShutNext ==
  /\ walk \in Reader
  /\ shut' = shut \union {walk} /\ walk' = next[walk]
  /\ UNCHANGED <<hooked, cancelRead, ringVars, at, enabled, exited>>

Unlock ==
  /\ walk = SocketsInUse /\ walk' = NotWalking
  /\ UNCHANGED <<hooked, cancelRead, ringVars, at, enabled, shut, exited>>

-----------------------------------------------------------------------------
\* replace_functions, when n of them could be replaced: what was replaced
\* before a failure is put back.
ReplaceFunctions(n) == hooked' = IF n = Cardinality(Hooks) THEN Hooks ELSE {}

\* oci8_install_hook_functions does its work once; if Oracle's client is not
\* found or a function cannot be replaced, it raises.
Installed == hooked = Hooks

Install ==
  /\ IF Installed THEN UNCHANGED hooked ELSE \E n \in 0 .. Cardinality(Hooks) : ReplaceFunctions(n)
  /\ UNCHANGED <<ringVars, at, enabled, shut, exited, walk>>

\* __set_prop(3, v)
SetCancelRead(v) ==
  /\ Install
  /\ cancelRead' = IF Installed' THEN v ELSE cancelRead

SocketStep ==
  \/ \E r \in Reader : EnterRead(r) \/ EntrySet(r) \/ ReadEnds(r) \/ EntryClear(r)
  \/ AtExit \/ ShutNext \/ Unlock

SocketNext == SocketStep \/ \E v \in BOOLEAN : SetCancelRead(v)

SocketSpec == SocketInit /\ [][SocketNext]_socketVars

\* A thread inside the functions of the hook goes on, and a read from a socket
\* that is shut down returns.  The data of the other reads may never arrive.
SocketFairness ==
  /\ WF_socketVars(ShutNext) /\ WF_socketVars(Unlock)
  /\ \A r \in Reader : /\ WF_socketVars(EntrySet(r)) /\ WF_socketVars(EntryClear(r))
                       /\ WF_socketVars(r \in shut /\ ReadEnds(r))

-----------------------------------------------------------------------------
\* Properties

\* next and prev are inverse in the ring, which is one ring: what is closed
\* under next is all of it.
Ringed(S) ==
  /\ \A e \in S : next[e] \in S /\ prev[e] \in S
  /\ \A e \in S : prev[next[e]] = e /\ next[prev[e]] = e
  /\ \A T \in SUBSET S : T # {} /\ (\A e \in T : next[e] \in T) => T = S

\* The ring has the entries of those who are between socket_entry_set and
\* socket_entry_clear, whatever became of the flag meanwhile: none is left that
\* points to a stack frame that is gone, and the shutdown at exit finds all.
EntriesFound ==
  /\ Ringed(Registered \union {SocketsInUse})
  /\ walk \in Registered \union {SocketsInUse, NotWalking}
  /\ walk = SocketsInUse => Registered \subseteq shut

\* A read that was registered before at_exit_func does not keep the process from
\* terminating, also if no data ever arrive.
CancelledReadsEnd ==
  \A r \in Reader : (walk # NotWalking /\ r \in Registered) ~> at[r] = "out"
===============================================================================
